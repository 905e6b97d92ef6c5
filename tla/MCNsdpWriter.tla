----------------------------- MODULE MCNsdpWriter -----------------------------
(* Instances of NsdpWriter for TLC: two callers of one Writer, two ports of  *)
(* which port 2 is protected, VLANs 1 and 2, and the id 65537, which is VLAN *)
(* 1 to a uint16.                                                            *)
EXTENDS NsdpWriter

CONSTANTS g1, g2

MCTwoThenOne == [c \in Writers |-> IF c = g1 THEN 2 ELSE 1]

MCPortSettings == [desc2 |-> 2]

MCOps ==
    {[kind |-> "member", port |-> 1, vlan |-> 2, mode |-> "tagged", force |-> FALSE],
     [kind |-> "member", port |-> 1, vlan |-> 2, mode |-> "untagged", force |-> FALSE],
     [kind |-> "member", port |-> 2, vlan |-> 2, mode |-> "untagged", force |-> TRUE],
     [kind |-> "member", port |-> 2, vlan |-> 1, mode |-> "excluded", force |-> FALSE],
     [kind |-> "pvid", port |-> 1, vlan |-> 2, force |-> FALSE],
     [kind |-> "create", vlan |-> 2, force |-> FALSE],
     [kind |-> "create", vlan |-> 65537, force |-> FALSE],
     [kind |-> "delete", vlan |-> 2, force |-> TRUE],
     [kind |-> "delete", vlan |-> 65537, force |-> TRUE],
     [kind |-> "setting", setting |-> "desc2", value |-> "new", force |-> TRUE],
     [kind |-> "setting", setting |-> "desc2", value |-> "", force |-> TRUE],
     [kind |-> "setting", setting |-> "hostname", value |-> "", force |-> FALSE],
     [kind |-> "setting", setting |-> "hostname", value |-> "not ascii", force |-> FALSE],
     [kind |-> "setting", setting |-> "mgmtIP", value |-> "", force |-> TRUE]}

=============================================================================
