-------------------------------- MODULE MCWebVlan --------------------------------
(* Instance of WebVlan for TLC: two callers, two VLANs, two ports. *)
EXTENDS WebVlan, TLC

CONSTANTS g1, g2

MCCallers == {g1, g2}
MCVlans == {1, 2}
MCPorts == {1, 2}
MCLocked == {2}
Factory == [p \in MCPorts |-> "untagged"]
Lab == [p \in MCPorts |-> IF p = 1 THEN "tagged" ELSE "excluded"]
MCStarts == {1 :> Factory, (1 :> Factory) @@ (2 :> Lab)}

Member(p, m, f) == [kind |-> "member", vlan |-> 2, port |-> p, mode |-> m, force |-> f]
MCOps ==
    {Member(1, "untagged", FALSE), Member(1, "excluded", FALSE),
     Member(2, "tagged", FALSE), Member(2, "tagged", TRUE),
     [kind |-> "pvid", vlan |-> 2, port |-> 1, force |-> FALSE],
     [kind |-> "create", vlan |-> 2, force |-> FALSE],
     [kind |-> "delete", vlan |-> 2, force |-> FALSE]}
Symmetry == Permutations(MCCallers)

=============================================================================
