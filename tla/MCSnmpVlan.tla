------------------------------- MODULE MCSnmpVlan -------------------------------
(* Instances of SnmpVlan for TLC: three VLANs, two ports, and one model of   *)
(* each dialect; gs728tpp takes port lists and creates no VLAN.              *)
EXTENDS SnmpVlan

CONSTANTS g1, g2

MCModels ==
    {[vlanWrite |-> "switchport", split |-> FALSE, creates |-> TRUE],
     [vlanWrite |-> "qbridge", split |-> TRUE, creates |-> TRUE],
     [vlanWrite |-> "qbridge", split |-> FALSE, creates |-> FALSE]}

\* Port 1 is a trunk of all VLANs or of 1 and 3, in general mode and untagged in two VLANs, or an access
\* port of VLAN 3, which may be deleted; port 2 is as it left the factory.
Factory == [mode |-> "access", access |-> 1, native |-> 1, allowed |-> VlanIds,
            untagged |-> {1}, tagged |-> {}]
Trunk == [Factory EXCEPT !.mode = "trunk"]
Narrow == [Trunk EXCEPT !.allowed = {1, 3}]
General == [Factory EXCEPT !.mode = "general", !.untagged = {1, 2}]
Guest == [Factory EXCEPT !.access = 3]
MCStarts == {[p \in Ports |-> IF p = 1 THEN s ELSE Factory] : s \in {Trunk, Narrow, General, Guest}}

Member(p, v, m, f) == [kind |-> "member", port |-> p, vlan |-> v, mode |-> m, force |-> f]
MCOps ==
    {Member(1, 2, m, FALSE) : m \in {"untagged", "tagged", "excluded"}}
        \union {Member(1, 1, "excluded", FALSE), Member(2, 3, "tagged", TRUE),
                Member(2, 2, "untagged", FALSE)}
        \union {[kind |-> "create", vlan |-> 2, name |-> "lab", force |-> FALSE],
                [kind |-> "delete", vlan |-> 3, force |-> FALSE],
                [kind |-> "delete", vlan |-> 1, force |-> TRUE],
                [kind |-> "pvid", vlan |-> 2, port |-> 1, force |-> FALSE]}

MCOne == [c \in Callers |-> 1]

=============================================================================
