------------------------------ MODULE MCWebSession ------------------------------
(* Instance of WebSession for TLC: two goroutines on one client. *)
EXTENDS WebSession, TLC

CONSTANTS g1, g2, absent

MCCallers == {g1, g2}
MCSchemes == {"xml", "cookie", "token"}
Symmetry == Permutations(MCCallers)

=============================================================================
