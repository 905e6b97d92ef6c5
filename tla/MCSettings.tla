-------------------------------- MODULE MCSettings --------------------------------
(* Instance of Settings for TLC: two callers, two collectors, four switches. *)
EXTENDS Settings, TLC

CONSTANTS g1, g2

MCCallers == {g1, g2}
MCHosts == {"h1", "h2"}
Switch(s, v, p) == [stacks |-> s, viewed |-> v, pair |-> p]
MCSwitches ==
    {Switch({"snmp", "cli", "xui"}, FALSE, TRUE), Switch({"snmp", "cli"}, TRUE, FALSE),
     Switch({"snmp", "goahead"}, FALSE, FALSE), Switch({"emx", "nsdp"}, FALSE, FALSE)}

Op(k, s, v, f) == [kind |-> k, stack |-> s, to |-> v, force |-> f]
Row(k, s, h) == [kind |-> k, stack |-> s, host |-> h, force |-> FALSE]
MCOps ==
    {Op("hostname", s, 1, FALSE) : s \in {"snmp", "goahead", "emx"}}
    \union {Op("address", s, 1, TRUE) : s \in {"snmp", "cli", "xui", "nsdp"}}
    \union {Op("address", "cli", 0, TRUE), Op("address", "snmp", 1, FALSE),
            Op("admin", "goahead", 0, FALSE), Op("descr", "snmp", 1, TRUE),
            Op("speed", "goahead", 1, TRUE), Op("flow", "cli", 1, TRUE),
            Op("logging", "snmp", 1, FALSE)}
    \union {Row("add", "cli", h) : h \in MCHosts}
    \union {Row("remove", s, "h1") : s \in {"snmp", "cli", "xui"}}
Symmetry == Permutations(MCCallers)

=============================================================================
