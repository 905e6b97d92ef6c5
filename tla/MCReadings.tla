------------------------------- MODULE MCReadings -------------------------------
(* Instance of Readings for TLC: two ports and, on the FASTPATH models, a LAG; two *)
(* VLANs.  Of each table the values are chosen that the pages tell apart.          *)
EXTENDS Readings, TLC

P(a, l, sp, m, f, o) == [admin |-> a, link |-> l, speed |-> sp, mode |-> m, flow |-> f,
                         octets |-> o, sent |-> o + 2, frames |-> o + 1]
V(n, m1, m2, only) == [name |-> n, mode |-> <<m1, m2>>, only |-> only]
E(a, d, p, l) == [admin |-> a, detect |-> d, power |-> p, lag |-> l]
S(on, p, c) == [enabled |-> on, port |-> p, cliport |-> c]
C(i, h, sv, a) == [index |-> i, host |-> h, severity |-> sv, port |-> 514, active |-> a]
U(n, c, h) == [name |-> n, cli |-> c, http |-> h]
M(m, v, b) == [mac |-> m, vlan |-> v, bridge |-> b]
L(p, c, i, n) == [port |-> p, chassis |-> c, portid |-> i, name |-> n]
R(k, n, raw, w) == [kind |-> k, name |-> n, raw |-> raw, state |-> w]

Up == P(TRUE, TRUE, 1000, "Auto", FALSE, 7)
Down == P(FALSE, FALSE, 0, "Auto", FALSE, 0)
Idle == P(TRUE, FALSE, 100, "100 Full", TRUE, 3)
\* The ports of a Plus switch are all physical; a FASTPATH switch has a LAG as well.
Table(t, a, b) == IF t \in Plus \union {"nsdp"} THEN <<a, b>> ELSE <<a, b, Up>>

MCStart == [t \in Vias |->
    [port |-> Table(t, Up, Idle),
     vlan |-> <<V("default", "untagged", "untagged", {})>>,
     pvid |-> <<1, 1>>,
     poe |-> <<E(TRUE, 3, 4204, 0), E(FALSE, 1, 0, 0)>>,
     bridge |-> IF t \in {"m4300", "goahead"} THEN <<>> ELSE 1 :> 1 @@ 2 :> 2 @@ 9 :> 3,
     macs |-> {M("m1", 1, 1)},
     lldp |-> {L(1, "c1", "p1", "n1"), L(2, "", "p2", "n2")},
     sensors |-> {R("temperature", "cpu", {41}, "OK"), R("fan", "fan1", {}, "OK"),
                  R("power", "psu1", {}, "N/A")},
     mgmt |-> [mode |-> "static", address |-> "a1", gateway |-> "g1"],
     host |-> "h1", mac |-> "base",
     syslog |-> [admin |-> TRUE, port |-> 514, collectors |-> {C(1, "s1", 3, TRUE)}],
     users |-> {U("admin", "Privilege-15", "Super User")},
     service |-> [http |-> S(TRUE, {80}, {}), https |-> S(FALSE, {443}, {443}),
                  telnet |-> S(TRUE, {}, {23}), ssh |-> S(TRUE, {22}, {22})]]]

\* Nothing on a GS305EP sets another detection status than searching or delivering.
PoeContents(t) ==
    IF t = "standard" THEN {<<E(FALSE, 1, 0, 0), E(TRUE, 3, 900, 0)>>}
    ELSE {<<E(TRUE, 2, 0, 0), E(TRUE, 4, 0, IF t = "cli" THEN 1 ELSE 0)>>,
          <<E(FALSE, 1, 0, 0), E(TRUE, 6, 900, 0)>>}

MCContents == [t \in Vias |->
    [port |-> {Table(t, Up, P(TRUE, TRUE, 2500, "Auto", FALSE, 9)),
               Table(t, Down, P(TRUE, TRUE, 100, "100 Full", TRUE, 5)),
               Table(t, P(FALSE, TRUE, 10000, "Auto", TRUE, 12), Idle)},
     vlan |-> {<<V("default", "tagged", "excluded", {2}), V("blue", "untagged", "tagged", {})>>,
               <<V("default", "untagged", "untagged", {}), V("", "excluded", "excluded", {})>>,
               2 :> V("default", "untagged", "tagged", {})},
     pvid |-> {<<1, 2>>, <<2, 1>>},
     poe |-> PoeContents(t),
     bridge |-> {},
     macs |-> {{M("m1", 1, 2), M("m1", 2, 9), M("m2", 1, 9)}, {}},
     lldp |-> {{L(1, "c3", "p1", "n1"), L(2, "c2", "", "n2")}, {}},
     sensors |-> {{R("temperature", "cpu", {0}, "OK"), R("fan", "fan1", {900}, "Fault"),
                   R("power", "psu1", {12}, "OK")}, {}},
     mgmt |-> IF t = "snmp" THEN {[mode |-> "dhcp", address |-> "a2", gateway |-> "g2"]}
              ELSE {[mode |-> "dhcp", address |-> "", gateway |-> ""],
                    [mode |-> "static", address |-> "", gateway |-> "g2"]},
     host |-> {"h2", ""}, mac |-> {},
     syslog |-> {[admin |-> FALSE, port |-> 514,
                  collectors |-> {C(2, "s2", 7, FALSE), C(3, "s1", 3, TRUE)}],
                 [admin |-> TRUE, port |-> 5140, collectors |-> {C(1, "s1", 9, TRUE)}]},
     users |-> {{U("admin", "Privilege-15", "Super User"), U("guest", "Privilege-1", "Read Only")},
                {U("other", "custom", "custom")}, {}},
     service |-> {[http |-> S(FALSE, {80}, {}), https |-> S(TRUE, {4443}, {4443}),
                   telnet |-> S(FALSE, {}, {23}), ssh |-> S(FALSE, {22}, {})]}]]

=============================================================================
