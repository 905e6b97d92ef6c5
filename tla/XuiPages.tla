------------------------------- MODULE XuiPages -------------------------------
(***************************************************************************)
(* The pages of the FASTPATH web UI, of a GSM7252PS ("xe",                  *)
(* virtual/web_gsm7252ps.go), an S3300 ("s3300", virtual/web_gsm7228ps.go)  *)
(* or an M4300 ("m4300", virtual/web_m4300.go; all of them                  *)
(* virtual/web_fastpath_xui.go and web_fastpath_vlan.go), and what          *)
(* webui/parse_xe.go and webui/parse_m4300.go make of them.  A page is the  *)
(* set of its rows, without the markup; the result is facts, as in CliPages. *)
(***************************************************************************)
EXTENDS SwitchState

\* xe and M4300 pages name every interface 1/0/n, LAGs included; on an S3300 what
\* is beyond the ports is the CPU interface, which no parser takes for a port.
XeIface(d, p) == IF d = "s3300" /\ p \notin Physical THEN <<"cpu", 0>> ELSE <<"port", p>>

\* The word of a status cell is "Unknown" without a link.
XeSpeedText(mbps) ==
    IF mbps >= 1000 /\ mbps % 1000 = 0
    THEN [number |-> mbps \div 1000, unit |-> "G"] ELSE [number |-> mbps, unit |-> "Mbps"]

SpeedTextToMbps(t) == IF t.unit = "G" THEN 1000 * t.number ELSE t.number

XePorts(d, s) ==
    {[intf |-> XeIface(d, p), admin |-> EnableWordShort(s.port[p].admin),
      link |-> IF s.port[p].link THEN "Link Up" ELSE "Link Down",
      status |-> IF s.port[p].link THEN {XeSpeedText(s.port[p].speed)} ELSE {}] : p \in Physical}

ParseXePortStatus(page) == UNION
    {{<<PortOf(r.intf), "admin", r.admin = "Enable">>,
      <<PortOf(r.intf), "link", r.link = "Link Up">>}
     \union {<<PortOf(r.intf), "speed", SpeedTextToMbps(t)>> :
                t \in IF r.link = "Link Up" THEN r.status ELSE {}} : r \in page}

\* m4300SpeedText.
M4300SpeedText(mbps) ==
    IF mbps >= 1000 /\ mbps % 1000 = 0
    THEN [number |-> mbps \div 1000, unit |-> "G"] ELSE [number |-> mbps, unit |-> "M"]

\* A row of an M4300 page has the ifIndex of its port.
M4300Ports(s) ==
    {[ifindex |-> p, admin |-> EnableWordShort(s.port[p].admin),
      link |-> IF s.port[p].link THEN "Link Up" ELSE "Link Down",
      status |-> IF s.port[p].link THEN {M4300SpeedText(s.port[p].speed)} ELSE {}] : p \in Physical}

ParseM4300PortStatus(page) == UNION
    {{<<r.ifindex, "admin", r.admin = "Enable">>, <<r.ifindex, "link", r.link = "Link Up">>}
     \union {<<r.ifindex, "speed", SpeedTextToMbps(t)>> :
                t \in IF r.link = "Link Up" THEN r.status ELSE {}} : r \in page}

\* The statistics page counts frames where the CLI counts octets.  It and the page of
\* PVIDs name the ports 1/0/n on an S3300 too.
XeStatistics(s) == {[intf |-> XeIface("xe", p), received |-> s.port[p].frames] : p \in Physical}
ParseXeStats(page) == {<<PortOf(r.intf), "frames", r.received>> : r \in page}

M4300Statistics(s) ==
    {[ifindex |-> p, received |-> s.port[p].frames] : p \in Physical}
ParseM4300Stats(page) == {<<r.ifindex, "frames", r.received>> : r \in page}

XePvids(s) ==
    {[intf |-> XeIface("xe", p), configured |-> s.pvid[p]] : p \in Physical \intersect DOMAIN s.pvid}
ParseXePvids(page) == {<<PortOf(r.intf), "pvid", r.configured>> : r \in page}

M4300Pvids(s) == {[ifindex |-> p, pvid |-> s.pvid[p]] : p \in Physical \intersect DOMAIN s.pvid}
ParseM4300Pvids(page) == {<<r.ifindex, "pvid", r.pvid>> : r \in page}

-----------------------------------------------------------------------------
(* VLANs: the status page lists them with their names and current members, the *)
(* membership page shows one of them with the mode of every port.               *)

\* xeVlanEgressParts.
EgressParts(d, s, v) == {XeIface(d, p) : p \in {p \in Physical : ModeIn(s, v, p) # "excluded"}}

XeVlans(s) ==
    {[id |-> v, name |-> s.vlan[v].name, members |-> EgressParts("xe", s, v)] : v \in DOMAIN s.vlan}
S3300Vlans(s) ==
    {[id |-> v, name |-> s.vlan[v].name, members |-> EgressParts("s3300", s, v)] : v \in DOMAIN s.vlan}
M4300Vlans(s) ==
    {[vlanIndex |-> v, vlanName |-> s.vlan[v].name, egress |-> EgressParts("m4300", s, v)]
     : v \in DOMAIN s.vlan}

\* The VLANs a status page lists; their members, without modes, are overwritten.
XeVlanRows(page) == {[id |-> r.id, name |-> r.name, members |-> {PortOf(i) : i \in r.members}] : r \in page}
ParseM4300Vlans(page) ==
    {[id |-> r.vlanIndex, name |-> r.vlanName, members |-> {PortOf(i) : i \in r.egress}] : r \in page}

VlanRows(d, page) == IF d = "m4300" THEN ParseM4300Vlans(page) ELSE XeVlanRows(page)

Lowest(S) == CHOOSE v \in S : \A w \in S : v <= w

\* fastpathVlanShownVlan: without a form, or asked for a VLAN there is not, the
\* page shows the lowest.
ShownVlan(s, asked) == IF asked \in DOMAIN s.vlan THEN asked ELSE Lowest(DOMAIN s.vlan)

\* fastpathVlanCodes and fastpathVlanIfaceLists: the grid shows what is configured,
\* the lists what is in effect.
MembershipPage(d, s, asked) ==
    LET v == ShownVlan(s, asked) IN
    [shown |-> v,
     grid |-> [p \in Physical |-> IF p \in s.vlan[v].only THEN "untagged" ELSE ModeIn(s, v, p)],
     tagged |-> {XeIface(d, p) : p \in {p \in Physical : ModeIn(s, v, p) = "tagged"}},
     untagged |-> {XeIface(d, p) : p \in {p \in Physical : ModeIn(s, v, p) = "untagged"}}]

\* ParseFastpathMembership: the ports in effect, out of the hidden lists.
ParseMembership(page) ==
    {<<"tagged", PortOf(i)>> : i \in page.tagged} \union {<<"untagged", PortOf(i)>> : i \in page.untagged}

\* Faulty MembershipIsFor: any page will do.
AnyPage(page, v) == TRUE

\* checkFastpathMembershipIsFor.
MembershipIsFor(page, v) == page.shown = v

\* withFastpathEgress: the modes of the VLANs that have a page.
WithEgress(row, pages) ==
    {<<row.id, "exists", TRUE>>} \union {<<row.id, "name", n>> : n \in {row.name} \ {Blank}} \union
    UNION {{<<row.id, f[1], f[2]>> : f \in ParseMembership(page)} : page \in pages}

-----------------------------------------------------------------------------
(* Forwarding table and neighbours. *)

LearnedOn(s, bridge) == IF bridge \in DOMAIN s.bridge THEN s.bridge[bridge] ELSE bridge

XeMacs(s) ==
    {[vlan |-> m.vlan, mac |-> m.mac, port |-> XeIface("xe", LearnedOn(s, m.bridge))] : m \in s.macs}
S3300Macs(s) ==
    {[vlan |-> m.vlan, mac |-> m.mac, port |-> XeIface("s3300", LearnedOn(s, m.bridge))] : m \in s.macs}

\* The M4300 page does not join the bridge port with its interface.
M4300Macs(s) ==
    {[vlan |-> m.vlan, mac |-> m.mac, port |-> XeIface("m4300", m.bridge)] : m \in s.macs}

\* Rows on no port are left out; a page without a row is taken for the wrong page.
ParseXeMacs(page) ==
    {<<<<r.mac, r.vlan>>, "port", PortOf(r.port)>> : r \in {r \in page : IsPhysical(r.port)}}
ParseS3300Macs(page) ==
    {<<<<r.mac, r.vlan>>, "port", PortOf(r.port)>> : r \in {r \in page : r.port[1] # "cpu"}}
ParseM4300Macs(page) ==
    {<<<<r.mac, r.vlan>>, "port", PortOf(r.port)>> : r \in {r \in page : IsPhysical(r.port)}}
NoRows(page) == page = {}

XeLldp(s) ==
    {[intf |-> XeIface("xe", n.port), chassis |-> n.chassis, portid |-> n.portid, name |-> n.name]
     : n \in s.lldp}

\* ParseXELLDP: every row is a neighbour, with or without a chassis.
ParseXeLldp(page) == UNION
    {{<<<<PortOf(r.intf), r.chassis>>, "chassis", t>> : t \in {r.chassis} \ {Blank}}
     \union {<<<<PortOf(r.intf), r.chassis>>, "portid", t>> : t \in {r.portid} \ {Blank}}
     \union {<<<<PortOf(r.intf), r.chassis>>, "sysname", t>> : t \in {r.name} \ {Blank}} : r \in page}

-----------------------------------------------------------------------------
(* PoE and sensors. *)

XeDetectText(detect) ==
    CASE detect = 1 -> "Disabled" [] detect = Searching -> "Searching"
      [] detect = Delivering -> "Delivering power" [] OTHER -> "Other Fault"

\* The M4300 shows the power in watts, with two decimals.
XePoe(d, s) ==
    {[intf |-> XeIface(d, p), admin |-> EnableWordShort(s.poe[p].admin),
      power |-> IF d = "m4300" THEN [number |-> (s.poe[p].power + 5) \div 10, point |-> TRUE]
                ELSE [number |-> s.poe[p].power, point |-> FALSE],
      status |-> XeDetectText(s.poe[p].detect)] : p \in DOMAIN s.poe}

\* poePowerToMw: a decimal point tells watts from milliwatts.
PoePowerToMw(cell) == IF cell.point THEN 10 * cell.number ELSE cell.number

XeDetect(text) ==
    CASE text = "Delivering power" -> "delivering" [] text = "Searching" -> "searching"
      [] text = "Disabled" -> "disabled" [] text = "Other Fault" -> "fault"

ParseXePoe(page) == UNION
    {{<<PortOf(r.intf), "enabled", r.admin = "Enable">>,
      <<PortOf(r.intf), "detect", XeDetect(r.status)>>,
      <<PortOf(r.intf), "power", PoePowerToMw(r.power)>>} : r \in page}

\* Three tables of one page: temperatures, fans, and supplies among the device rows.
XeSysinfo(s) ==
    [sensors |-> {[table |-> q.kind, name |-> q.name,
                   number |-> IF q.kind = "temperature" THEN q.raw ELSE {}, state |-> q.state]
                  : q \in s.sensors},
     mac |-> s.mac]

\* ParseXESensors and xeStateSensors: an absent fan is left out.
ParseXeSensors(page) == UNION
    {IF r.table = "temperature" THEN {<<<<r.table, r.name>>, "value", n>> : n \in r.number}
     ELSE {<<<<r.table, r.name>>, "healthy", r.state = "OK">> : t \in {r.state} \ {"N/A"}}
     : r \in page.sensors}

-----------------------------------------------------------------------------
(* The box. *)

\* RenderFastpathMgmtIP; the base MAC is on the sysinfo page, fastpathBaseMac.
MgmtIpPage(s) == s.mgmt
ParseXuiMgmtIp(page) ==
    {<<"box", "mode", page.mode>>}
    \union {<<"box", "address", a>> : a \in {page.address} \ {Blank}}
    \union {<<"box", "gateway", g>> : g \in {page.gateway} \ {Blank}}

\* The pages an S3300 and an M4300 have for it.
S3300Sysinfo(s) == [baseMac |-> s.mac]
ParseS3300Mgmt(page) == page.baseMac
M4300Sysinfo(s) == [address |-> s.mgmt.address, systemMac |-> s.mac]
ParseM4300Sysinfo(page) == page.systemMac
ParseXeMgmtIp(page) == page.mac

FastpathBaseMac(d, page) ==
    {<<"box", "mac", CASE d = "s3300" -> ParseS3300Mgmt(page)
                       [] d = "xe" -> ParseXeMgmtIp(page)
                       [] d = "m4300" -> ParseM4300Sysinfo(page)>>}

\* RenderXUIUsers shows the access mode of the web UI.
XuiUsers(s) == {[name |-> u.name, access |-> u.http] : u \in s.users}

ParseXuiUsers(page) == UNION
    {{<<r.name, "access", r.access>>}
     \union {<<r.name, "privileged", b>> : b \in Privileged(r.access)} : r \in page}

\* One page per service, with the port of https and of ssh.
XuiServicePage(s, w) ==
    [radios |-> <<EnableWordShort(s.service[w].enabled)>>,
     port |-> IF w \in {"https", "ssh"} THEN s.service[w].port ELSE {}]

\* On an M4300 http and https are plain forms: two radio buttons, both checked, the
\* one in effect last.
FormServicePage(s, w) ==
    [radios |-> <<EnableWordShort(~s.service[w].enabled), EnableWordShort(s.service[w].enabled)>>,
     port |-> s.service[w].port]

\* checkedRadio: the last radio button that is checked counts.
CheckedRadio(radios) == radios[Cardinality(DOMAIN radios)]

ParseServicePage(page, w) ==
    {<<w, "enabled", CheckedRadio(page.radios) = "Enable">>}
    \union {<<w, "webport", n>> : n \in page.port}

XuiSyslog(s) ==
    [admin |-> EnableWordShort(s.syslog.admin), port |-> s.syslog.port,
     rows |-> {[index |-> c.index, host |-> c.host, severity |-> c.severity, port |-> c.port,
                status |-> IF c.active THEN "Active" ELSE ""] : c \in s.syslog.collectors}]

\* A severity that is no word of the list spoils the whole read.
UnknownSeverity(page) == \E r \in page.rows : r.severity \notin 0..7

\* ParseXUISyslog.
ParseXuiSyslog(page) ==
    {<<0, "enabled", page.admin = "Enable">>, <<0, "port", page.port>>} \union UNION
    {{<<r.index, "host", r.host>>, <<r.index, "severity", r.severity>>,
      <<r.index, "port", r.port>>, <<r.index, "active", r.status = "Active">>} : r \in page.rows}

-----------------------------------------------------------------------------
(* The reader: a request gets a page, or posts a form with the VLAN it wants. *)

XuiOps(d) ==
    {"ports", "stats", "vlans", "pvids", "macs", "lldp", "poe", "mgmt", "syslog"} \union
    CASE d = "xe" -> {"sensors", "users", "services"}
      [] d = "m4300" -> {"users", "services"}
      [] d = "s3300" -> {}

\* GetVLANs reads the status page and a membership page before it posts;
\* GetServices a page per service; GetMgmtIP the sysinfo page for the MAC.
XuiFirst(o) ==
    CASE o = "vlans" -> <<Q("vlans", 0), Q("membership", 0)>>
      [] o = "mgmt" -> <<Q("mgmt", 0), Q("sensors", 0)>>
      [] o = "services" -> <<Q("http", 0), Q("https", 0), Q("ssh", 0), Q("telnet", 0)>>
      [] OTHER -> <<Q(o, 0)>>

\* A post for each VLAN listed but the one the membership page shows.
XuiMore(d, q, page, before) ==
    IF q.page = "membership" /\ q.of = 0
    THEN AskEach("membership", {r.id : r \in VlanRows(d, before[1].page)} \ {page.shown})
    ELSE <<>>

\* The pages of one model, and those all of them share.
XePage(q, s) ==
    CASE q.page = "ports" -> XePorts("xe", s)
      [] q.page = "stats" -> XeStatistics(s)
      [] q.page = "pvids" -> XePvids(s)
      [] q.page = "vlans" -> XeVlans(s)
      [] q.page = "macs" -> XeMacs(s)
      [] q.page = "lldp" -> XeLldp(s)
      [] q.page = "sensors" -> XeSysinfo(s)
      [] q.page = "users" -> XuiUsers(s)
      [] q.page \in ServiceNames -> XuiServicePage(s, q.page)

S3300Page(q, s) ==
    CASE q.page = "ports" -> XePorts("s3300", s)
      [] q.page = "stats" -> XeStatistics(s)
      [] q.page = "pvids" -> XePvids(s)
      [] q.page = "vlans" -> S3300Vlans(s)
      [] q.page = "macs" -> S3300Macs(s)
      [] q.page = "lldp" -> XeLldp(s)
      [] q.page = "sensors" -> S3300Sysinfo(s)

M4300Page(q, s) ==
    CASE q.page = "ports" -> M4300Ports(s)
      [] q.page = "stats" -> M4300Statistics(s)
      [] q.page = "pvids" -> M4300Pvids(s)
      [] q.page = "vlans" -> M4300Vlans(s)
      [] q.page = "macs" -> M4300Macs(s)
      [] q.page = "lldp" -> XeLldp(s)
      [] q.page = "sensors" -> M4300Sysinfo(s)
      [] q.page = "users" -> XuiUsers(s)
      [] q.page \in {"http", "https"} -> FormServicePage(s, q.page)
      [] q.page \in {"ssh", "telnet"} -> XuiServicePage(s, q.page)

FastpathXuiPage(d, q, s) ==
    CASE q.page = "poe" -> XePoe(d, s)
      [] q.page = "mgmt" -> MgmtIpPage(s)
      [] q.page = "syslog" -> XuiSyslog(s)

XuiPage(d, q, s) ==
    CASE q.page = "membership" -> MembershipPage(d, s, q.of)
      [] q.page \in {"poe", "mgmt", "syslog"} -> FastpathXuiPage(d, q, s)
      [] OTHER -> CASE d = "xe" -> XePage(q, s) [] d = "s3300" -> S3300Page(q, s)
                    [] d = "m4300" -> M4300Page(q, s)

XuiRefuses(q, page) ==
    \/ q.page \in {"macs", "users"} /\ NoRows(page)
    \/ q.page = "membership" /\ q.of # 0 /\ ~MembershipIsFor(page, q.of)
    \/ q.page = "syslog" /\ UnknownSeverity(page)

XuiParsePorts(d, page) == IF d = "m4300" THEN ParseM4300PortStatus(page) ELSE ParseXePortStatus(page)
XuiParseStats(d, page) == IF d = "m4300" THEN ParseM4300Stats(page) ELSE ParseXeStats(page)
XuiParsePvids(d, page) == IF d = "m4300" THEN ParseM4300Pvids(page) ELSE ParseXePvids(page)
XuiParseMacs(d, page) ==
    CASE d = "s3300" -> ParseS3300Macs(page) [] d = "xe" -> ParseXeMacs(page)
      [] d = "m4300" -> ParseM4300Macs(page)

\* The membership page of a VLAN: the one asked for it, or the first, which was
\* asked for none.
PagesOf(v, rest) ==
    {x.page : x \in {x \in rest : v = IF x.ask.of = 0 THEN x.page.shown ELSE x.ask.of}}

XuiParse(d, o, g) ==
    LET first == g[1].page IN
    CASE o = "ports" -> XuiParsePorts(d, first)
      [] o = "stats" -> XuiParseStats(d, first)
      [] o = "pvids" -> XuiParsePvids(d, first)
      [] o = "vlans" -> UNION {WithEgress(row, PagesOf(row.id, Range(Tail(g)))) : row \in VlanRows(d, first)}
      [] o = "macs" -> XuiParseMacs(d, first)
      [] o = "lldp" -> ParseXeLldp(first)
      [] o = "poe" -> ParseXePoe(first)
      [] o = "sensors" -> ParseXeSensors(first)
      [] o = "mgmt" -> ParseXuiMgmtIp(first) \union FastpathBaseMac(d, g[2].page)
      [] o = "syslog" -> ParseXuiSyslog(first)
      [] o = "users" -> ParseXuiUsers(first)
      [] o = "services" -> UNION {ParseServicePage(x.page, x.ask.page) : x \in Range(g)}

=============================================================================
