------------------------------ MODULE MCCliSession ------------------------------
(* Instances of CliSession for TLC: two ports, p1 in access mode and p2      *)
(* protected.                                                                *)
EXTENDS CliSession

CONSTANTS g1, g2, p1, p2

MCOps ==
    {[kind |-> "read"],
     [kind |-> "create"],
     [kind |-> "delete", force |-> FALSE],
     [kind |-> "member", port |-> p1, mode |-> "tagged", force |-> FALSE],
     [kind |-> "member", port |-> p2, mode |-> "untagged", force |-> TRUE],
     [kind |-> "member", port |-> p2, mode |-> "untagged", force |-> FALSE],
     [kind |-> "member", port |-> p2, mode |-> "excluded", force |-> TRUE],
     [kind |-> "pvid", port |-> p1, force |-> FALSE]}

=============================================================================
