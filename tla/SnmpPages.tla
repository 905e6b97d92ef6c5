------------------------------- MODULE SnmpPages -------------------------------
(***************************************************************************)
(* What a walk of the virtual agent's columns returns (virtual/              *)
(* state_oidmap.go) and what snmp/parse.go and snmp/reader.go make of it, for *)
(* a model with a vendor subtree.  The reads whose rows are joined from       *)
(* several columns, and walks of several pages, are in SnmpRead.  A column is *)
(* a function from its rows to their values.                                  *)
(***************************************************************************)
EXTENDS SwitchState

\* ifType: a LAG is no Ethernet port.
Ethernet == 6
Aggregate == 161
IfTypeColumn(s) == [p \in DOMAIN s.port |-> IF p \in Physical THEN Ethernet ELSE Aggregate]

\* physicalPorts and filterPhysical: an agent without the column filters nothing.
PhysicalPorts(types, ports) ==
    IF DOMAIN types = {} THEN ports ELSE {p \in ports : p \in DOMAIN types /\ types[p] = Ethernet}

CounterColumn(counter, s) == [p \in DOMAIN s.port |-> s.port[p][counter]]

\* A port has the counters it has a row for.
ParsePortStats(octets, sent, frames, types) ==
    LET Cells(attribute, column) ==
            {<<p, attribute, column[p]>> : p \in PhysicalPorts(types, DOMAIN column)} IN
    Cells("rx", octets) \union Cells("tx", sent) \union Cells("frames", frames)

\* dot1qPvid has rows for physical ports here; the parser filters them as well.
ParseSnmpPvids(pvids, types) ==
    {<<p, "pvid", pvids[p]>> : p \in PhysicalPorts(types, DOMAIN pvids)}

\* lldpRemTable: a row is a column and an index; a neighbour stands for its index.
LldpColumns == {5, 7, 9}
LldpRemTable(s) ==
    [cell \in LldpColumns \X s.lldp |->
        CASE cell[1] = 5 -> cell[2].chassis [] cell[1] = 7 -> cell[2].portid [] cell[1] = 9 -> cell[2].name]

\* A neighbour without any text is left out, an empty text is none.
ParseSnmpLldp(rows) ==
    LET Text(c, index) == IF <<c, index>> \in DOMAIN rows THEN rows[<<c, index>>] ELSE Blank IN
    UNION {{f \in {<<<<index.port, Text(5, index)>>, "chassis", Text(5, index)>>,
                   <<<<index.port, Text(5, index)>>, "portid", Text(7, index)>>,
                   <<<<index.port, Text(5, index)>>, "sysname", Text(9, index)>>} : f[3] # Blank}
           : index \in {cell[2] : cell \in DOMAIN rows}}

\* A vendor column of sensors: instance -> the number its text is, or none where it
\* says "Not Supported".
BoxColumn(kind, s) ==
    LET slots == {q \in s.sensors : q.kind = kind} IN
    [name \in {q.name : q \in slots} |-> (CHOOSE q \in slots : q.name = name).raw]

ParseBoxSensors(kind, column) ==
    UNION {{<<<<kind, name>>, "value", n>> : n \in column[name]} : name \in DOMAIN column}

\* ipAddrTable, the default route of ipRouteTable and the vendor's mode; there is
\* no ipAddressTable.
Loopback == "127.0.0.1"
AnyAddress == "0.0.0.0"
AddressColumn(s) == [index \in {s.mgmt.address} |-> s.mgmt.address]
RouteDestColumn == [route \in {AnyAddress} |-> AnyAddress]
NextHopColumn(s) == [route \in {AnyAddress} |-> s.mgmt.gateway]
ModeColumn(s) == [row \in {0} |-> IF s.mgmt.mode = "static" THEN 2 ELSE 1]
BaseMacColumn(s) == [row \in {0} |-> s.mac]

\* The address of a row; else the index of a row of ipAddressTable.
Ipv4(addresses, indices) ==
    LET found == {addresses[r] : r \in DOMAIN addresses} \ {Loopback} IN
    IF found # {} THEN found ELSE DOMAIN indices \ {Loopback}

\* The next hop of the default route.
DefaultGateway(dests, hops) ==
    {hops[r] : r \in {r \in DOMAIN hops \intersect DOMAIN dests : dests[r] = AnyAddress}}

\* A mode that is neither 1 nor 2 is unknown.
ParseSnmpMgmtIp(addresses, dests, hops, modes, macs, indices) ==
    {<<"box", "address", a>> : a \in Ipv4(addresses, indices)}
    \union {<<"box", "gateway", g>> : g \in DefaultGateway(dests, hops)}
    \union {<<"box", "mode", IF modes[r] = 1 THEN "dhcp" ELSE "static">>
            : r \in {r \in DOMAIN modes : modes[r] \in {1, 2}}}
    \union {<<"box", "mac", macs[r]>> : r \in DOMAIN macs}

-----------------------------------------------------------------------------
(* The reader: one walk after the other, the name by a GET. *)

SnmpOps == {"stats", "pvids", "lldp", "sensors", "mgmt", "host"}

\* The walks of a read, in their order; the columns a fact does not depend on are
\* left out (errors, netmasks).
SnmpFirst(o) ==
    LET Walks(names) == [i \in DOMAIN names |-> Q(names[i], 0)] IN
    CASE o = "stats" -> Walks(<<"octets", "sent", "frames", "ifType">>)
      [] o = "pvids" -> Walks(<<"pvid", "ifType">>)
      [] o = "sensors" -> Walks(<<"fan", "power", "temperature">>)
      [] o = "mgmt" -> Walks(<<"address", "dest", "hop", "mode", "mac", "ifIndex">>)
      [] OTHER -> Walks(<<o>>)

SnmpColumn(q, s) ==
    CASE q.page \in {"octets", "sent", "frames"} -> CounterColumn(q.page, s)
      [] q.page = "ifType" -> IfTypeColumn(s)
      [] q.page = "pvid" -> s.pvid
      [] q.page = "lldp" -> LldpRemTable(s)
      [] q.page \in {"fan", "power", "temperature"} -> BoxColumn(q.page, s)
      [] q.page = "address" -> AddressColumn(s)
      [] q.page = "dest" -> RouteDestColumn
      [] q.page = "hop" -> NextHopColumn(s)
      [] q.page = "mode" -> ModeColumn(s)
      [] q.page = "mac" -> BaseMacColumn(s)
      [] q.page = "ifIndex" -> <<>>
      [] q.page = "host" -> [row \in {0} |-> s.host]

\* A vendor model whose sensor columns are all empty.
SnmpRefuses(q, column, before) ==
    /\ q.page = "temperature" /\ DOMAIN column = {}
    /\ \A i \in DOMAIN before : DOMAIN before[i].page = {}

SnmpParse(o, g) ==
    LET Walk(i) == g[i].page IN
    CASE o = "stats" -> ParsePortStats(Walk(1), Walk(2), Walk(3), Walk(4))
      [] o = "pvids" -> ParseSnmpPvids(Walk(1), Walk(2))
      [] o = "lldp" -> ParseSnmpLldp(Walk(1))
      [] o = "sensors" -> UNION {ParseBoxSensors(g[i].ask.page, Walk(i)) : i \in DOMAIN g}
      [] o = "mgmt" -> ParseSnmpMgmtIp(Walk(1), Walk(2), Walk(3), Walk(4), Walk(5), Walk(6))
      [] o = "host" -> {<<"box", "host", Walk(1)[0]>>}

=============================================================================
