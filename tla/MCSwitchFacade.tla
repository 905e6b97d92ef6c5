----------------------------- MODULE MCSwitchFacade -----------------------------
(* Instances of SwitchFacade for TLC: a model with NSDP, HTTP and SSH, of    *)
(* which NSDP is preferred and serves no writes but `set`.                   *)
EXTENDS SwitchFacade

CONSTANTS g1, g2

MCPreference == <<"snmp", "nsdp", "http", "ssh">>

MCServes == [x \in Backends |->
    CASE x = "nsdp" -> {"vlans", "set"}
      [] x = "http" -> {"vlans", "poe", "set", "delete"}
      [] OTHER -> {"vlans", "set", "delete"}]

MCOps ==
    {[kind |-> "get", backend |-> "ssh"],
     [kind |-> "set", backend |-> "ssh"],
     [kind |-> "get", backend |-> "http"],
     [kind |-> "delete", backend |-> "http"],
     [kind |-> "set", backend |-> "snmp"],
     [kind |-> "delete", backend |-> NoBackend],
     [kind |-> "snapshot", backend |-> NoBackend]}

=============================================================================
