-------------------------------- MODULE MCPoeCycle --------------------------------
(* Instance of PoeCycle for TLC: two callers, the three kinds of switch. *)
EXTENDS PoeCycle, TLC

CONSTANTS g1, g2

MCCallers == {g1, g2}
MCSwitches == {{"snmp", "goahead"}, {"snmp", "cli", "xui"}, {"plus"}}
Symmetry == Permutations(MCCallers)

=============================================================================
