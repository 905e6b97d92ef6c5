------------------------------ MODULE GoAheadPages ------------------------------
(***************************************************************************)
(* The XML lists of a GS728TPP (virtual/web_gs728tpp.go) and what            *)
(* webui/parse_goahead.go makes of them.  A list is the set of its entries;  *)
(* the facts are as in CliPages.                                             *)
(***************************************************************************)
EXTENDS SwitchState

Code(b) == IF b THEN "1" ELSE "2"

GoAheadPorts(s) ==
    {[interface |-> Iface(p), admin |-> Code(s.port[p].admin), link |-> Code(s.port[p].link),
      speed |-> s.port[p].speed, flow |-> Code(s.port[p].flow)] : p \in Physical}

\* The speed of a port without a link is left out.
ParseGoAheadPorts(list) == UNION
    {{<<PortOf(e.interface), "admin", e.admin = "1">>,
      <<PortOf(e.interface), "link", e.link = "1">>,
      <<PortOf(e.interface), "flow", e.flow = "1">>}
     \union {<<PortOf(e.interface), "speed", e.speed>> : t \in {e.link} \ {"2"}} : e \in list}

\* The list of interfaces has the PVID of a port and the VLANs it has joined.
GoAheadInterfaces(s) ==
    {[interface |-> Iface(p), pvid |-> s.pvid[p],
      joined |-> {[vlan |-> v, tagging |-> Code(s.vlan[v].mode[p] = "untagged")] :
                    v \in {v \in DOMAIN s.vlan : s.vlan[v].mode[p] # "excluded"}}]
     : p \in Physical}

ParseGoAheadPvids(list) == {<<PortOf(e.interface), "pvid", e.pvid>> : e \in list}

GoAheadVlanList(s) == {[id |-> v, name |-> s.vlan[v].name] : v \in DOMAIN s.vlan}

\* ParseGoAheadVlanNames.
ParseGoAheadNames(list) ==
    UNION {{<<e.id, "exists", TRUE>>} \union {<<e.id, "name", n>> : n \in {e.name} \ {Blank}} : e \in list}

\* ParseGoAheadPortVlanMembership: a VLAN that some port has joined exists.
ParseGoAheadMembership(list) == UNION
    {UNION {{<<j.vlan, "exists", TRUE>>,
             <<j.vlan, IF j.tagging = "1" THEN "untagged" ELSE "tagged", PortOf(e.interface)>>}
            : j \in e.joined} : e \in list}

\* The bridge port is not joined with its interface.
GoAheadMacs(s) == {[mac |-> m.mac, vlan |-> m.vlan, interface |-> <<"port", m.bridge>>] : m \in s.macs}
ParseGoAheadMacs(list) == {<<<<e.mac, e.vlan>>, "port", PortOf(e.interface)>> : e \in list}

GoAheadPoe(s) ==
    {[interface |-> Iface(p), enable |-> Code(s.poe[p].admin), detection |-> s.poe[p].detect,
      power |-> s.poe[p].power] : p \in DOMAIN s.poe}

\* goaheadPoeDetect.
GoAheadDetect(code) ==
    CASE code = 1 -> "disabled" [] code = Searching -> "searching"
      [] code = Delivering -> "delivering" [] code \in Faults -> "fault"

ParseGoAheadPoe(list) == UNION
    {{<<PortOf(e.interface), "enabled", e.enable = "1">>,
      <<PortOf(e.interface), "detect", GoAheadDetect(e.detection)>>,
      <<PortOf(e.interface), "power", e.power>>} : e \in list}

\* Every entry is a neighbour, with or without a chassis.
GoAheadLldp(s) ==
    {[interface |-> Iface(n.port), device |-> n.chassis, port |-> n.portid, name |-> n.name]
     : n \in s.lldp}
ParseGoAheadLldp(list) == UNION
    {{<<<<PortOf(e.interface), e.device>>, "chassis", t>> : t \in {e.device} \ {Blank}}
     \union {<<<<PortOf(e.interface), e.device>>, "portid", t>> : t \in {e.port} \ {Blank}}
     \union {<<<<PortOf(e.interface), e.device>>, "sysname", t>> : t \in {e.name} \ {Blank}} : e \in list}

\* One page holds the identity of the box and the codes of its sensors.
GoAheadDevice(s) ==
    [name |-> s.host, mac |-> s.mac,
     diagnostics |-> {[kind |-> q.kind, name |-> q.name,
                       reading |-> IF q.kind = "temperature" THEN q.raw ELSE {},
                       status |-> CASE q.state = "OK" -> "1" [] q.state = "N/A" -> "5"
                                    [] OTHER -> "2"] : q \in s.sensors}]

\* ParseGoAheadSensors and goaheadStateSensor: what is absent is left out, and so is
\* a temperature of 0.
ParseGoAheadSensors(page) == UNION
    {IF r.kind = "temperature" THEN {<<<<r.kind, r.name>>, "value", n>> : n \in r.reading \ {0}}
     ELSE {<<<<r.kind, r.name>>, "healthy", r.status = "1">> : t \in {r.status} \ {"5"}}
     : r \in page.diagnostics}

\* The addresses come without the way they were got.
GoAheadMgmtIp(s) == [address |-> s.mgmt.address, gateway |-> s.mgmt.gateway]
ParseGoAheadMgmtIp(page) ==
    {<<"box", "address", a>> : a \in {page.address} \ {Blank}}
    \union {<<"box", "gateway", g>> : g \in {page.gateway} \ {Blank}}

-----------------------------------------------------------------------------
(* The reader. *)

GoAheadOps == {"ports", "vlans", "pvids", "macs", "poe", "lldp", "sensors", "mgmt", "host"}

GoAheadFirst(o) ==
    CASE o = "vlans" -> <<Q("vlans", 0), Q("interfaces", 0)>>
      [] o = "pvids" -> <<Q("interfaces", 0)>>
      [] o = "mgmt" -> <<Q("mgmt", 0), Q("device", 0)>>
      [] o \in {"sensors", "host"} -> <<Q("device", 0)>>
      [] OTHER -> <<Q(o, 0)>>

\* RenderGS728TPPWcd.
GoAheadPage(q, s) ==
    CASE q.page = "ports" -> GoAheadPorts(s)
      [] q.page = "vlans" -> GoAheadVlanList(s)
      [] q.page = "interfaces" -> GoAheadInterfaces(s)
      [] q.page = "macs" -> GoAheadMacs(s)
      [] q.page = "poe" -> GoAheadPoe(s)
      [] q.page = "lldp" -> GoAheadLldp(s)
      [] q.page = "device" -> GoAheadDevice(s)
      [] q.page = "mgmt" -> GoAheadMgmtIp(s)

\* Neither an address nor a gateway makes no page.
GoAheadRefuses(q, page) == q.page = "mgmt" /\ ParseGoAheadMgmtIp(page) = {}

GoAheadParse(o, g) ==
    LET first == g[1].page IN
    CASE o = "ports" -> ParseGoAheadPorts(first)
      [] o = "vlans" -> ParseGoAheadNames(first) \union ParseGoAheadMembership(g[2].page)
      [] o = "pvids" -> ParseGoAheadPvids(first)
      [] o = "macs" -> ParseGoAheadMacs(first)
      [] o = "poe" -> ParseGoAheadPoe(first)
      [] o = "lldp" -> ParseGoAheadLldp(first)
      [] o = "sensors" -> ParseGoAheadSensors(first)
      [] o = "mgmt" -> ParseGoAheadMgmtIp(first) \union {<<"box", "mac", g[2].page.mac>>}
      [] o = "host" -> {<<"box", "host", first.name>>}

=============================================================================
