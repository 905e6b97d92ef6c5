----------------------------- MODULE MCNsdpClient -----------------------------
(* Instances of NsdpClient for TLC: goroutines that share one UDPClient, as  *)
(* the callers of a Switch's cached NSDP writer do.                          *)
EXTENDS NsdpClient

CONSTANTS g1, g2, udp1

MCClientOf == [c \in Callers |-> udp1]
MCAutoScheme == [x \in Clients |-> "auto"]

=============================================================================
