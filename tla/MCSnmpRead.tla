-------------------------------- MODULE MCSnmpRead --------------------------------
(* Instance of SnmpRead for TLC: three rows at most, pages of two varbinds. *)
EXTENDS SnmpRead

MCIndices == 1..3

\* A table of whole rows: row -> column -> value.
Whole(t) == [o \in UNION {{Oid(c, i) : c \in DOMAIN t[i]} : i \in DOMAIN t} |-> t[RowOf(o)][Col(o)]]

Host(h) == <<h, h, h>>
Static(n) == <<n, n, n>>
Dynamic(m) == [c \in {3} |-> m]
Port(s, t) == <<s, s, t>>
Poe(s) == <<s, s>>
Learned(b) == [c \in {1} |-> b]

MCTables == [k \in AllKinds |->
    CASE k = "syslog" -> {Whole(<<Host(1)>>), Whole(<<Host(1), Host(2), Host(1)>>), NoRows}
      [] k = "vlans" -> {Whole(<<Static(1), Static(2), Dynamic(2)>>)}
      [] k = "ports" -> {Whole(<<Port(Up, 6), Port(Up, 6), Port(Up, 5)>>),
                         Whole(<<Poe(Up), Poe(Up)>>)}
      [] k = "poe" -> {Whole(<<Poe(Up), Poe(Up)>>)}
      [] k = "macs" -> {Whole(<<<<2, 3>>, <<3, 1>>>>)}]

MCNewRows == [k \in AllKinds |->
    CASE k = "syslog" -> {Host(2)}
      [] k = "vlans" -> {Static(2), Dynamic(1)}
      [] k = "ports" -> {Port(Down, 6)}
      [] k = "poe" -> {Poe(Down)}
      [] k = "macs" -> {Learned(1), <<2, 2>>}]

W(c, i, v) == [oid |-> Oid(c, i), to |-> v]
MCPdus == [k \in AllKinds |->
    CASE k = "syslog" -> {<<W(3, 1, Destroy)>>, <<W(3, 1, 2), W(1, 1, 2)>>,
                          <<W(3, 2, Destroy), W(3, 2, 1)>>}
      [] k = "vlans" -> {<<W(1, 3, 1), W(2, 3, 2)>>, <<W(1, 1, Destroy)>>,
                         <<W(2, 1, 2), W(3, 1, 2)>>}
      [] k = "ports" -> {<<W(1, 1, Down)>>, <<W(1, 2, Down), W(2, 2, Up)>>}
      [] k = "poe" -> {<<W(1, 1, Down)>>}
      [] k = "macs" -> {<<W(1, 1, 2)>>}]

=============================================================================
