------------------------------- MODULE CliPages -------------------------------
(***************************************************************************)
(* What the FASTPATH CLI shows of a switch (virtual/cliface_render.go) and  *)
(* what the reader makes of it (fastpath/parse.go).  A screen is the set of *)
(* its rows, a row a record of its cells, without the layout: widths,       *)
(* rulers and titles are left out, and texts are taken to fit their column. *)
(* A parser returns facts, triples <<of what, which attribute, its value>>; *)
(* a field that is nil in the model struct is an attribute without a fact.  *)
(***************************************************************************)
EXTENDS SwitchState

-----------------------------------------------------------------------------
(* Ports. *)

\* cliSpeedText writes whole gigabits as "<n>G Full"; no status without a link.
SpeedText(mbps) ==
    IF mbps >= 1000 /\ mbps % 1000 = 0 THEN [number |-> mbps \div 1000, unit |-> "G"]
    ELSE [number |-> mbps, unit |-> ""]

\* speedMbps: a "G" multiplies.
SpeedMbps(t) == IF t.unit = "G" THEN 1000 * t.number ELSE t.number

PortScreen(s) ==
    {[intf |-> Iface(p), admin |-> EnableWordShort(s.port[p].admin), mode |-> s.port[p].mode,
      status |-> IF s.port[p].link /\ s.port[p].speed # 0 THEN {SpeedText(s.port[p].speed)} ELSE {},
      link |-> IF s.port[p].link THEN "Up" ELSE "Down",
      flow |-> EnableWordShort(s.port[p].flow)] : p \in Physical}

\* parsePortStatus: the speed is the live one, and only of a port with a link.
ParsePortStatus(screen) == UNION
    {{<<PortOf(r.intf), "admin", r.admin = "Enable">>,
      <<PortOf(r.intf), "link", r.link = "Up">>,
      <<PortOf(r.intf), "flow", r.flow = "Enable">>,
      <<PortOf(r.intf), "mode", r.mode>>}
     \union {<<PortOf(r.intf), "speed", SpeedMbps(t)>> : t \in IF r.link = "Up" THEN r.status ELSE {}}
     : r \in {r \in screen : IsPhysical(r.intf)}}

\* One screen of counters per port; the screen names no port.
CounterScreen(s, p) == [octets |-> s.port[p].octets, sent |-> s.port[p].sent]
ParseInterfaceCounters(screen, p) == {<<p, "rx", screen.octets>>, <<p, "tx", screen.sent>>}

-----------------------------------------------------------------------------
(* VLANs. *)

VlanBrief(s) == {[id |-> v, name |-> s.vlan[v].name] : v \in DOMAIN s.vlan}

\* renderVlanDetail shows a VLAN that does not exist without a member.
VlanDetail(s, v) ==
    [id |-> v,
     rows |-> {[intf |-> Iface(p),
                current |-> IF ModeIn(s, v, p) = "excluded" THEN "Exclude" ELSE "Include",
                tagging |-> IF ModeIn(s, v, p) = "tagged" THEN "Tagged" ELSE "Untagged"]
               : p \in Physical}]

\* parseVLANDetail: the configured column and the tagging of an excluded port do
\* not count.  The name is the one of the brief screen.
ParseVlanDetail(screen, name) ==
    {<<screen.id, "exists", TRUE>>, <<screen.id, "name", name>>} \union
    {<<screen.id, IF r.tagging = "Tagged" THEN "tagged" ELSE "untagged", PortOf(r.intf)>> :
        r \in {r \in screen.rows : r.current = "Include"}}

PvidScreen(s) == {[intf |-> Iface(p), configured |-> s.pvid[p]] : p \in Physical}
ParsePvids(screen) == {<<PortOf(r.intf), "pvid", r.configured>> : r \in screen}

-----------------------------------------------------------------------------
(* Forwarding table and neighbours. *)

\* The bridge port is joined with the ifIndex it stands for.
MacScreen(s) ==
    {[vlan |-> m.vlan, mac |-> m.mac,
      ifindex |-> IF m.bridge \in DOMAIN s.bridge THEN s.bridge[m.bridge] ELSE m.bridge]
     : m \in s.macs}
ParseMacTable(screen) == {<<<<r.mac, r.vlan>>, "port", r.ifindex>> : r \in screen}

LldpScreen(s) ==
    {[intf |-> Iface(n.port), chassis |-> n.chassis, portid |-> n.portid, name |-> n.name]
     : n \in s.lldp}

\* parseLLDP: a row without a chassis is no neighbour, an empty cell no fact.
ParseLldp(screen) == UNION
    {{<<<<PortOf(r.intf), r.chassis>>, "chassis", r.chassis>>}
     \union {<<<<PortOf(r.intf), r.chassis>>, "portid", t>> : t \in {r.portid} \ {Blank}}
     \union {<<<<PortOf(r.intf), r.chassis>>, "sysname", t>> : t \in {r.name} \ {Blank}}
     : r \in {r \in screen : IsPhysical(r.intf) /\ r.chassis # Blank}}

-----------------------------------------------------------------------------
(* PoE and sensors. *)

\* cliPoeStatusText: a port that is off is Disabled, and so is, for one more
\* screen, a port that has been switched on.
PoeStatusText(q) ==
    CASE q.lag > 0 \/ ~q.admin -> "Disabled"
      [] q.lag = 0 /\ q.admin /\ q.detect = Delivering -> "Delivering Power"
      [] q.lag = 0 /\ q.admin /\ q.detect \in Faults -> "Fault"
      [] OTHER -> "Searching"

\* Showing the screen uses up the lag.
Shown(q) == IF q.lag > 0 THEN [q EXCEPT !.lag = @ - 1] ELSE q

PoeShown(s) == [p \in DOMAIN s.poe |-> Shown(s.poe[p])]

PoeScreen(s) ==
    {[intf |-> Iface(p), power |-> s.poe[p].power, status |-> PoeStatusText(s.poe[p])]
     : p \in DOMAIN s.poe}

\* parsePoE: there is no column for the admin state.
PoeEnabled(detect) == detect # "disabled"

PoeDetectText(t) ==
    CASE t = "Delivering Power" -> "delivering" [] t = "Searching" -> "searching"
      [] t = "Disabled" -> "disabled" [] t = "Fault" -> "fault"

ParsePoe(screen) == UNION
    {LET detect == PoeDetectText(r.status) IN
     {<<PortOf(r.intf), "enabled", PoeEnabled(detect)>>,
      <<PortOf(r.intf), "detect", detect>>, <<PortOf(r.intf), "power", r.power>>} : r \in screen}

\* The table of power supplies has no reading: the face writes Operational.
EnvironmentScreen(s) ==
    {[table |-> q.kind, name |-> q.name,
      number |-> IF q.kind = "power" THEN {} ELSE q.raw,
      state |-> "Operational"] : q \in s.sensors}

\* parseEnvironment: a reading that is no number is left out, never zero; a power
\* supply is reported as a state.
ParseEnvironment(screen) == UNION
    {IF r.table = "power"
     THEN {<<<<r.table, r.name>>, "value", IF r.state = "Operational" THEN 1 ELSE 0>>}
     ELSE {<<<<r.table, r.name>>, "value", n>> : n \in r.number} : r \in screen}

-----------------------------------------------------------------------------
(* The box. *)

NetworkScreen(s) ==
    [protocol |-> IF s.mgmt.mode = "dhcp" THEN "DHCP" ELSE "None",
     address |-> s.mgmt.address, gateway |-> s.mgmt.gateway, mac |-> s.mac]

\* parseMgmtIP: any protocol but DHCP is a static address.
ParseMgmtIP(screen) ==
    {<<"box", "mode", IF screen.protocol = "DHCP" THEN "dhcp" ELSE "static">>,
     <<"box", "mac", screen.mac>>}
    \union {<<"box", "address", a>> : a \in {screen.address} \ {Blank}}
    \union {<<"box", "gateway", g>> : g \in {screen.gateway} \ {Blank}}

HostScreen(s) == [name |-> s.host]
ParseHostname(screen) == {<<"box", "host", screen.name>>}

LoggingScreen(s) ==
    [syslog |-> IF s.syslog.admin THEN "enabled" ELSE "disabled", port |-> s.syslog.port]

\* A severity outside 0..7 is shown as its number.
CollectorScreen(s) ==
    {[index |-> c.index, host |-> c.host, severity |-> c.severity, port |-> c.port,
      status |-> IF c.active THEN "Active" ELSE "Inactive"] : c \in s.syslog.collectors}

\* SyslogSeverity knows words only, so one such row spoils the whole read.
BadSeverity(screen) == \E r \in screen : r.severity \notin 0..7

Collectors(screen) == UNION
    {{<<r.index, "host", r.host>>, <<r.index, "severity", r.severity>>,
      <<r.index, "port", r.port>>, <<r.index, "active", r.status = "Active">>} : r \in screen}

ParseSyslog(logging, hosts) ==
    {<<0, "enabled", logging.syslog = "enabled">>, <<0, "port", logging.port>>}
    \union Collectors(hosts)

\* The CLI shows the access mode of the CLI; renderUsers.
UserScreen(s) == {[name |-> u.name, access |-> u.cli] : u \in s.users}

ParseUsers(screen) == UNION
    {{<<r.name, "access", r.access>>}
     \union {<<r.name, "privileged", b>> : b \in Privileged(r.access)} : r \in screen}

\* show ip http shows http and https, show telnet and show ip ssh one each; a
\* service without a CLIPort has no port line.
ServiceScreen(s, command) ==
    {[service |-> w, port |-> s.service[w].cliport,
      mode |-> IF w = "telnet" THEN EnableWordShort(s.service[w].enabled)
               ELSE EnableWord(s.service[w].enabled)]
     : w \in IF command = "http" THEN {"http", "https"} ELSE {command}}

ParseServices(screens) == UNION
    {{<<r.service, "enabled", r.mode \in {"Enabled", "Enable"}>>}
     \union {<<r.service, "cliport", n>> : n \in r.port} : r \in screens}

-----------------------------------------------------------------------------
(* The reader: a request is a command, of a port or a VLAN or of neither, and a *)
(* read the screens it got, in order.                                           *)

CliOps == {"ports", "stats", "vlans", "pvids", "macs", "lldp", "poe", "sensors", "mgmt", "host",
           "syslog", "users", "services"}

CliFirst(o) ==
    CASE o = "stats" -> <<Q("ports", 0)>>
      [] o = "services" -> <<Q("http", 0), Q("telnet", 0), Q("ssh", 0)>>
      [] o = "syslog" -> <<Q("logging", 0), Q("collectors", 0)>>
      [] OTHER -> <<Q(o, 0)>>

\* The commands a screen gives rise to: counters for each port shown, members for
\* each VLAN shown.
CliMore(o, q, page) ==
    CASE o = "stats" /\ q.page = "ports" ->
            AskEach("counters", {f[1] : f \in ParsePortStatus(page)})
      [] o = "vlans" /\ q.page = "vlans" -> AskEach("vlan", {r.id : r \in page})
      [] OTHER -> <<>>

CliScreen(q, s) ==
    CASE q.page = "ports" -> PortScreen(s)
      [] q.page = "counters" -> CounterScreen(s, q.of)
      [] q.page = "vlans" -> VlanBrief(s)
      [] q.page = "vlan" -> VlanDetail(s, q.of)
      [] q.page = "pvids" -> PvidScreen(s)
      [] q.page = "macs" -> MacScreen(s)
      [] q.page = "lldp" -> LldpScreen(s)
      [] q.page = "poe" -> PoeScreen(s)
      [] q.page = "sensors" -> EnvironmentScreen(s)
      [] q.page = "mgmt" -> NetworkScreen(s)
      [] q.page = "host" -> HostScreen(s)
      [] q.page = "logging" -> LoggingScreen(s)
      [] q.page = "collectors" -> CollectorScreen(s)
      [] q.page = "users" -> UserScreen(s)
      [] q.page \in {"http", "telnet", "ssh"} -> ServiceScreen(s, q.page)

\* Showing the PoE screen uses up its lag.
CliLeaves(q, s) == IF q.page = "poe" THEN [s EXCEPT !.poe = PoeShown(s)] ELSE s

CliRefuses(q, page) == q.page = "collectors" /\ BadSeverity(page)

NameIn(brief, v) == (CHOOSE r \in brief : r.id = v).name

\* fastpath.Reader: the screens of a read put together.
CliParse(o, g) ==
    LET first == g[1].page
        rest == Range(Tail(g)) IN
    CASE o = "ports" -> ParsePortStatus(first)
      [] o = "stats" -> UNION {ParseInterfaceCounters(x.page, x.ask.of) : x \in rest}
      [] o = "vlans" -> UNION {ParseVlanDetail(x.page, NameIn(first, x.ask.of)) : x \in rest}
      [] o = "pvids" -> ParsePvids(first)
      [] o = "macs" -> ParseMacTable(first)
      [] o = "lldp" -> ParseLldp(first)
      [] o = "poe" -> ParsePoe(first)
      [] o = "sensors" -> ParseEnvironment(first)
      [] o = "mgmt" -> ParseMgmtIP(first)
      [] o = "host" -> ParseHostname(first)
      [] o = "syslog" -> ParseSyslog(first, g[2].page)
      [] o = "users" -> ParseUsers(first)
      [] o = "services" -> ParseServices(first \union g[2].page \union g[3].page)

=============================================================================
