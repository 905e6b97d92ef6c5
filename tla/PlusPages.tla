------------------------------- MODULE PlusPages -------------------------------
(***************************************************************************)
(* The web pages of the Plus switches: a GS305EP ("standard",               *)
(* virtual/httpface.go), a GS105PE ("gs105pe", virtual/web_gs105pe.go) and a *)
(* GS110EMX ("gs110emx", virtual/web_gs110emx.go), and what webui/parse_*.go *)
(* and webui/reader.go make of them.  Pages and facts are as in XuiPages;    *)
(* names of ports and error counters are left out.                           *)
(***************************************************************************)
EXTENDS XuiPages

-----------------------------------------------------------------------------
(* Ports and counters of a GS305EP, which states a speed in megabits only. *)

StandardPorts(s) ==
    {[port |-> p, up |-> s.port[p].link,
      speed |-> IF s.port[p].link THEN {[number |-> s.port[p].speed, unit |-> "M"]} ELSE {},
      admin |-> EnableWord(s.port[p].admin)] : p \in DOMAIN s.port}

\* A speed is the number of the cell, whatever follows it.
ParseStandardPorts(page) == UNION
    {{<<r.port, "admin", r.admin = "Enabled">>, <<r.port, "link", r.up>>}
     \union {<<r.port, "speed", t.number>> : t \in IF r.up THEN r.speed ELSE {}} : r \in page}

StandardStats(s) ==
    {[port |-> p, received |-> s.port[p].octets, sent |-> s.port[p].sent] : p \in DOMAIN s.port}

ParseStandardStats(page) ==
    UNION {{<<r.port, "rx", r.received>>, <<r.port, "tx", r.sent>>} : r \in page}

StandardPvids(s) ==
    {[port |-> p, pvid |-> IF p \in DOMAIN s.pvid THEN s.pvid[p] ELSE 1] : p \in DOMAIN s.port}
ParseStandardPvids(page) == {<<r.port, "pvid", r.pvid>> : r \in page}

-----------------------------------------------------------------------------
(* Ports and counters of a GS105PE. *)

PlusSpeedText(mbps) ==
    IF mbps >= 1000 /\ mbps % 1000 = 0
    THEN [number |-> mbps \div 1000, unit |-> "G"] ELSE [number |-> mbps, unit |-> "M"]

\* The mode is Auto of every port, switched off or not.
GS105PEPorts(s) ==
    {[port |-> p, up |-> s.port[p].link, mode |-> "Auto",
      speed |-> IF s.port[p].link THEN {PlusSpeedText(s.port[p].speed)} ELSE {}]
     : p \in DOMAIN s.port}

ParseGS105PEPorts(page) == UNION
    {{<<r.port, "admin", r.mode # "Disable">>, <<r.port, "link", r.up>>}
     \union {<<r.port, "speed", SpeedTextToMbps(t)>> : t \in IF r.up THEN r.speed ELSE {}}
     : r \in page}

\* A counter is two hidden numbers: its high and its low half.
Halves(n) == <<n \div Half, n % Half>>

GS105PEStats(s) ==
    {[port |-> p, received |-> Halves(s.port[p].octets), sent |-> Halves(s.port[p].sent)]
     : p \in DOMAIN s.port}

ParseGS105PEStats(page) ==
    LET Joined(halves) == halves[1] * Half + halves[2] IN
    UNION {{<<r.port, "rx", Joined(r.received)>>, <<r.port, "tx", Joined(r.sent)>>} : r \in page}

GS105PEPvids(s) == {[port |-> p, pvid |-> s.pvid[p]] : p \in DOMAIN s.pvid}
ParseGS105PEPvids(page) == {<<r.port, "pvid", r.pvid>> : r \in page}

-----------------------------------------------------------------------------
(* Ports and counters of a GS110EMX, whose mode cell is the admin state. *)

GS110EMXPorts(s) ==
    {[port |-> p, up |-> s.port[p].link, mode |-> IF s.port[p].admin THEN "Auto" ELSE "Disable",
      speed |-> IF s.port[p].link THEN {PlusSpeedText(s.port[p].speed)} ELSE {}]
     : p \in DOMAIN s.port}

ParseGS110EMXPorts(page) == UNION
    {{<<r.port, "admin", r.mode # "Disable">>, <<r.port, "link", r.up>>}
     \union {<<r.port, "speed", SpeedTextToMbps(t)>> : t \in IF r.up THEN r.speed ELSE {}}
     : r \in page}

GS110EMXStats(s) ==
    {[port |-> p, received |-> s.port[p].octets, sent |-> s.port[p].sent] : p \in DOMAIN s.port}

ParseInterfaceStats(page) ==
    UNION {{<<r.port, "rx", r.received>>, <<r.port, "tx", r.sent>>} : r \in page}

GS110EMXPvids(s) == {[port |-> p, pvid |-> s.pvid[p]] : p \in DOMAIN s.pvid}
ParseGS110EMXPvids(page) == {<<r.port, "pvid", r.pvid>> : r \in page}

-----------------------------------------------------------------------------
(* VLANs: a page of their numbers, and a page for each with the modes of the    *)
(* ports.  A VLAN there is not is shown without a member.                       *)

StandardVlans(s) == DOMAIN s.vlan
GS105PEVlans(s) == DOMAIN s.vlan
GS110EMXVlans(s) == [v \in DOMAIN s.vlan |-> {p \in Physical : ModeIn(s, v, p) # "excluded"}]

\* ParseVLANIDs, and ParseGS110EMXVlanIDs, which does not read the members.
ParseVlanIds(page) == page
ParseGS110EMXVlanIds(page) == DOMAIN page

\* The VLAN shown is selected in the list of those there are.
StandardMembership(s, asked) ==
    [selected |-> {asked} \intersect DOMAIN s.vlan, codes |-> [p \in Physical |-> ModeIn(s, asked, p)]]

\* Asked for none, a GS105PE shows its lowest.
GS105PEMembership(s, asked) ==
    LET v == IF asked = 0 THEN Lowest(DOMAIN s.vlan) ELSE asked IN
    [selected |-> {v} \intersect DOMAIN s.vlan, codes |-> [p \in Physical |-> ModeIn(s, v, p)]]

\* A GS110EMX does not say which VLAN it shows.
GS110EMXMembership(s, asked) ==
    [selected |-> {}, codes |-> [p \in Physical |-> ModeIn(s, asked, p)]]

\* checkMembershipIsFor: only a GS105PE is not believed.
ShowsAnother(d, page, v) == d = "gs105pe" /\ page.selected \ {v} # {}

ParsePlusMembership(page) == {<<page.codes[p], p>> : p \in {p \in Physical : page.codes[p] # "excluded"}}

\* vlanInfoFromMembership.
PlusVlanInfo(v, page) ==
    {<<v, "exists", TRUE>>} \union {<<v, f[1], f[2]>> : f \in ParsePlusMembership(page)}

-----------------------------------------------------------------------------
(* PoE and the box. *)

\* standardPoEDetectText; a port that is off is Disabled.
PlusPoeText(q) ==
    CASE q.admin /\ q.detect = 3 -> "Delivering"
      [] q.admin /\ q.detect = 1 -> "Searching"
      [] q.admin /\ q.detect = 4 -> "Fault"
      [] OTHER -> "Disabled"

PlusPoe(s) ==
    {[port |-> p, detect |-> PlusPoeText(s.poe[p]), power |-> s.poe[p].power] : p \in DOMAIN s.poe}

PlusDetect(text) ==
    CASE text = "Delivering" -> "delivering" [] text = "Searching" -> "searching"
      [] text = "Fault" -> "fault" [] text = "Disabled" -> "disabled"

\* ParsePoEStatus: on is what is not Disabled.
ParsePlusPoe(page) == UNION
    {{<<r.port, "enabled", PlusDetect(r.detect) # "disabled">>,
      <<r.port, "detect", PlusDetect(r.detect)>>, <<r.port, "power", r.power>>} : r \in page}

GS105PESwitchInfo(s) ==
    [enable |-> s.mgmt.mode = "dhcp", ip_address |-> s.mgmt.address,
     gateway_address |-> s.mgmt.gateway, mac |-> s.mac, switch_name |-> s.host]

ParseGS105PESysInfo(page) ==
    [mode |-> IF page.enable THEN "dhcp" ELSE "static", address |-> page.ip_address,
     gateway |-> page.gateway_address, mac |-> page.mac, name |-> page.switch_name]

GS110EMXSysinfo(s) ==
    [select |-> IF s.mgmt.mode = "dhcp" THEN 1 ELSE 0, IP_ADDRESS |-> s.mgmt.address,
     GATEWAY_ADDRESS |-> s.mgmt.gateway, mac |-> s.mac, switch_name |-> s.host]

ParseSysInfo(page) ==
    [mode |-> IF page.select = 1 THEN "dhcp" ELSE "static", address |-> page.IP_ADDRESS,
     gateway |-> page.GATEWAY_ADDRESS, mac |-> page.mac, name |-> page.switch_name]

SysInfo(d, page) == IF d = "gs105pe" THEN ParseGS105PESysInfo(page) ELSE ParseSysInfo(page)

\* An empty field is an empty address, not an absent one.
MgmtIPFromSysInfo(info) ==
    {<<"box", field, info[field]>> : field \in {"mode", "mac", "address", "gateway"}}

-----------------------------------------------------------------------------
(* The reader. *)

PlusOps(d) == {"ports", "stats", "vlans", "pvids"} \union
    IF d = "standard" THEN {"poe"} ELSE {"mgmt", "host"}

\* A GS105PE needs a token of the membership page to ask it for a VLAN.
PlusFirst(d, o) ==
    CASE o = "vlans" /\ d = "gs105pe" -> <<Q("vlans", 0), Q("membership", 0)>>
      [] OTHER -> <<Q(o, 0)>>

VlanIdsOf(d, page) == IF d = "gs110emx" THEN ParseGS110EMXVlanIds(page) ELSE ParseVlanIds(page)

\* A form for each VLAN listed; a GS105PE is not asked again for the one its
\* first page shows.
PlusMore(d, q, page, before) ==
    CASE q.page = "vlans" /\ d # "gs105pe" -> AskEach("membership", VlanIdsOf(d, page))
      [] q.page = "membership" /\ q.of = 0 ->
            AskEach("membership", VlanIdsOf(d, before[1].page) \ page.selected)
      [] OTHER -> <<>>

StandardPage(q, s) ==
    CASE q.page = "ports" -> StandardPorts(s)
      [] q.page = "stats" -> StandardStats(s)
      [] q.page = "poe" -> PlusPoe(s)
      [] q.page = "pvids" -> StandardPvids(s)
      [] q.page = "vlans" -> StandardVlans(s)
      [] q.page = "membership" -> StandardMembership(s, q.of)

GS105PEPage(q, s) ==
    CASE q.page = "ports" -> GS105PEPorts(s)
      [] q.page = "stats" -> GS105PEStats(s)
      [] q.page = "pvids" -> GS105PEPvids(s)
      [] q.page = "vlans" -> GS105PEVlans(s)
      [] q.page \in {"mgmt", "host"} -> GS105PESwitchInfo(s)
      [] q.page = "membership" -> GS105PEMembership(s, q.of)

GS110EMXPage(q, s) ==
    CASE q.page \in {"mgmt", "host"} -> GS110EMXSysinfo(s)
      [] q.page = "stats" -> GS110EMXStats(s)
      [] q.page = "ports" -> GS110EMXPorts(s)
      [] q.page = "pvids" -> GS110EMXPvids(s)
      [] q.page = "vlans" -> GS110EMXVlans(s)
      [] q.page = "membership" -> GS110EMXMembership(s, q.of)

PlusPage(d, q, s) ==
    CASE d = "standard" -> StandardPage(q, s)
      [] d = "gs105pe" -> GS105PEPage(q, s)
      [] d = "gs110emx" -> GS110EMXPage(q, s)

PlusRefuses(d, q, page) == q.page = "membership" /\ q.of # 0 /\ ShowsAnother(d, page, q.of)

\* The page a VLAN is read from: the one asked for it, or the first page of a
\* GS105PE that shows it.
IsPageOf(x, v) ==
    \/ x.ask.of = v
    \/ x.ask.of = 0 /\ v \in x.page.selected

PlusParsePorts(d, page) ==
    CASE d = "standard" -> ParseStandardPorts(page)
      [] d = "gs105pe" -> ParseGS105PEPorts(page)
      [] d = "gs110emx" -> ParseGS110EMXPorts(page)

PlusParseStats(d, page) ==
    CASE d = "standard" -> ParseStandardStats(page)
      [] d = "gs105pe" -> ParseGS105PEStats(page)
      [] d = "gs110emx" -> ParseInterfaceStats(page)

PlusParsePvids(d, page) ==
    CASE d = "standard" -> ParseStandardPvids(page)
      [] d = "gs105pe" -> ParseGS105PEPvids(page)
      [] d = "gs110emx" -> ParseGS110EMXPvids(page)

PlusParse(d, o, g) ==
    LET first == g[1].page IN
    CASE o = "ports" -> PlusParsePorts(d, first)
      [] o = "stats" -> PlusParseStats(d, first)
      [] o = "pvids" -> PlusParsePvids(d, first)
      [] o = "vlans" -> UNION {UNION {PlusVlanInfo(v, x.page) : x \in {x \in Range(Tail(g)) : IsPageOf(x, v)}}
                               : v \in VlanIdsOf(d, first)}
      [] o = "poe" -> ParsePlusPoe(first)
      [] o = "mgmt" -> MgmtIPFromSysInfo(SysInfo(d, first))
      [] o = "host" -> {<<"box", "host", SysInfo(d, first).name>>}

=============================================================================
