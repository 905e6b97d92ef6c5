------------------------------- MODULE NsdpPages -------------------------------
(***************************************************************************)
(* What an NSDP read returns (virtual/state.go, NsdpTlvs) and what           *)
(* nsdp/parse.go and nsdp/reader.go make of it.  A response is the set of    *)
(* its TLVs of one kind, or a record of single ones, an optional one a set   *)
(* of at most one.                                                           *)
(***************************************************************************)
EXTENDS SwitchState

\* mbpsToSpeedByte: a speed without a code of its own is the code of no link.
SpeedByte(mbps) ==
    CASE mbps = 10 -> 2 [] mbps = 100 -> 4 [] mbps = 1000 -> 5 [] mbps = 10000 -> 6 [] OTHER -> 0

\* linkSpeedMbps, of the codes a switch sends.
ByteSpeed(b) ==
    CASE b = 2 -> 10 [] b = 4 -> 100 [] b = 5 -> 1000 [] b = 6 -> 10000 [] OTHER -> 0

PortStatusTlvs(s) ==
    {[port |-> p, speed |-> IF s.port[p].link THEN SpeedByte(s.port[p].speed) ELSE 0]
     : p \in DOMAIN s.port}

\* mapPorts: there is no admin state in NSDP, and the reader says enabled of all.
MapPorts(tlvs) == UNION
    {{<<t.port, "admin", TRUE>>, <<t.port, "link", t.speed # 0>>}
     \union {<<t.port, "speed", n>> : n \in {ByteSpeed(t.speed)} \ {0}} : t \in tlvs}

StatisticsTlvs(s) ==
    {[port |-> p, received |-> s.port[p].octets, sent |-> s.port[p].sent] : p \in DOMAIN s.port}
MapStats(tlvs) == UNION {{<<t.port, "rx", t.received>>, <<t.port, "tx", t.sent>>} : t \in tlvs}

PvidTlvs(s) == {[port |-> p, vlan |-> s.pvid[p]] : p \in DOMAIN s.pvid}
MapPvids(tlvs) == {<<t.port, "pvid", t.vlan>> : t \in tlvs}

\* A bitmap of whole bytes; bit i, counted from the highest of the first byte,
\* stands for port i + 1.
Bits == 0..(8 * ((PortCount + 7) \div 8) - 1)
PortsToBitmap(ports) == [i \in Bits |-> i + 1 \in ports]

\* Faulty BitmapToPorts: ports counted from 0.
BitsToPorts(bitmap) == {i \in Bits : bitmap[i]}

BitmapToPorts(bitmap) == {i + 1 : i \in {i \in Bits : bitmap[i]}}

VlanTlvs(s) ==
    {[vlan |-> v,
      members |-> PortsToBitmap({p \in Physical : ModeIn(s, v, p) # "excluded"}),
      tagged |-> PortsToBitmap({p \in Physical : ModeIn(s, v, p) = "tagged"})] : v \in DOMAIN s.vlan}

\* ParseVlanMembers and mapVLANs: untagged are the members that are not tagged.
MapVlans(tlvs) == UNION
    {LET tagged == BitmapToPorts(t.tagged) IN
     {<<t.vlan, "exists", TRUE>>} \union {<<t.vlan, "tagged", p>> : p \in tagged}
     \union {<<t.vlan, "untagged", p>> : p \in BitmapToPorts(t.members) \ tagged} : t \in tlvs}

\* An empty text is not sent.
BoxTlvs(s) ==
    [dhcp |-> s.mgmt.mode # "static", address |-> {s.mgmt.address} \ {Blank},
     gateway |-> {s.mgmt.gateway} \ {Blank}, mac |-> s.mac, hostname |-> {s.host} \ {Blank}]

\* mapMgmtIP.
MapMgmtIp(box) ==
    {<<"box", "mode", IF box.dhcp THEN "dhcp" ELSE "static">>, <<"box", "mac", box.mac>>}
    \union {<<"box", "address", a>> : a \in box.address}
    \union {<<"box", "gateway", g>> : g \in box.gateway}

\* GetHostname: a name that was not sent is empty.
MapHostname(box) == {<<"box", "host", IF box.hostname = {} THEN Blank ELSE CHOOSE n \in box.hostname : TRUE>>}

-----------------------------------------------------------------------------
(* The reader: one request each. *)

NsdpOps == {"ports", "stats", "vlans", "pvids", "mgmt", "host"}

NsdpResponse(q, s) ==
    CASE q.page = "ports" -> PortStatusTlvs(s)
      [] q.page = "stats" -> StatisticsTlvs(s)
      [] q.page = "vlans" -> VlanTlvs(s)
      [] q.page = "pvids" -> PvidTlvs(s)
      [] q.page \in {"mgmt", "host"} -> BoxTlvs(s)

NsdpParse(o, g) ==
    LET tlvs == g[1].page IN
    CASE o = "ports" -> MapPorts(tlvs)
      [] o = "stats" -> MapStats(tlvs)
      [] o = "vlans" -> MapVlans(tlvs)
      [] o = "pvids" -> MapPvids(tlvs)
      [] o = "mgmt" -> MapMgmtIp(tlvs)
      [] o = "host" -> MapHostname(tlvs)

=============================================================================
