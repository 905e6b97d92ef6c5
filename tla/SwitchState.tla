------------------------------ MODULE SwitchState ------------------------------
(***************************************************************************)
(* The tables of the virtual switch (virtual/state.go) that the management  *)
(* interfaces show, as far as the readers tell them apart: s.port, s.vlan,  *)
(* s.pvid, ...  are the tables of the state s.  An optional number is a set  *)
(* of at most one.                                                           *)
(***************************************************************************)
EXTENDS Naturals, FiniteSets, SequencesExt

CONSTANTS
    Interfaces,      \* State.Ports: interface numbers, LAGs included
    PortCount,       \* the physical ports are 1..PortCount
    VlanIds,
    Half             \* 2^32 in the code: a counter is shown in two such digits

ASSUME SwitchStateAssumption ==
    /\ PortCount \in Nat /\ 1..PortCount \subseteq Interfaces /\ Interfaces \subseteq Nat
    /\ VlanIds \subseteq Nat \ {0} /\ Half \in Nat \ {0}

\* physPorts: LAG interfaces are beyond the port count.
Physical == 1..PortCount

Modes == {"untagged", "tagged", "excluded"}
Blank == ""    \* an empty text

\* pethPsePortDetectionStatus.
Searching == 2
Delivering == 3
Faults == {4, 6}

\* octets and frames are received, "sent" octets are transmitted.  A port with a
\* link has a speed.
PortSim == {q \in [admin : BOOLEAN, link : BOOLEAN, speed : Nat, mode : STRING, flow : BOOLEAN,
                   octets : Nat, sent : Nat, frames : Nat] : q.link => q.speed # 0}
\* "only" are the ports a VLAN has by configuration alone.
VlanSim == [name : STRING, mode : [Physical -> Modes], only : SUBSET Physical]

\* A port that is off detects nothing (SetPoeAdmin); nothing sets "test", 5.
PoeSim == {q \in [admin : BOOLEAN, detect : 1..6 \ {5}, power : Nat, lag : {0, 1}] :
             ~q.admin <=> q.detect = 1}
MacSim == [mac : STRING, vlan : VlanIds, bridge : Nat]
LldpSim == [port : Physical, chassis : STRING, portid : STRING, name : STRING]
\* raw is the reading in State.Sensors, state the word (of a GS728TPP the code) in
\* State.HTTPSensors.
SensorSim == [kind : {"temperature", "fan", "power"}, name : STRING, raw : SUBSET Nat,
              state : {"OK", "Fault", "N/A"}]
MgmtSim == [mode : {"dhcp", "static"}, address : STRING, gateway : STRING]
UserSim == [name : STRING, cli : STRING, http : STRING]
CollectorSim == [index : Nat, host : STRING, severity : Nat, port : Nat, active : BOOLEAN]
ServiceSim == [enabled : BOOLEAN, port : SUBSET Nat, cliport : SUBSET Nat]
ServiceNames == {"http", "https", "ssh", "telnet"}

\* The tables of a state, and what each may hold.
IsTable(field, t) ==
    CASE field = "port" -> Physical \subseteq DOMAIN t /\ DOMAIN t \subseteq Interfaces
                          /\ \A p \in DOMAIN t : t[p] \in PortSim
      [] field = "vlan" -> DOMAIN t # {} /\ DOMAIN t \subseteq VlanIds /\ \A v \in DOMAIN t : t[v] \in VlanSim
      [] field = "pvid" -> t \in [Physical -> VlanIds]
      [] field = "poe" -> DOMAIN t \subseteq Physical /\ \A p \in DOMAIN t : t[p] \in PoeSim
      [] field = "bridge" -> \A b \in DOMAIN t : t[b] \in Interfaces
      [] field = "macs" -> t \subseteq MacSim
      [] field = "lldp" -> t \subseteq LldpSim
      [] field = "sensors" -> \A q \in t : q \in SensorSim
      [] field = "mgmt" -> t \in MgmtSim
      [] field \in {"host", "mac"} -> t \in STRING
      [] field = "syslog" -> t.admin \in BOOLEAN /\ t.port \in Nat
                             /\ t.collectors \subseteq CollectorSim
      [] field = "users" -> t \subseteq UserSim
      [] field = "service" -> DOMAIN t = ServiceNames /\ \A w \in ServiceNames : t[w] \in ServiceSim

Fields == {"port", "vlan", "pvid", "poe", "bridge", "macs", "lldp", "sensors", "mgmt", "host",
           "mac", "syslog", "users", "service"}

\* The mode of a port in a VLAN; nobody is in a VLAN that does not exist.
ModeIn(s, v, p) == IF v \in DOMAIN s.vlan THEN s.vlan[v].mode[p] ELSE "excluded"

\* The name of an interface, and the port a name stands for.
Iface(p) == IF p \in Physical THEN <<"port", p>> ELSE <<"lag", p>>
IsPhysical(cell) == cell[1] = "port"
PortOf(cell) == cell[2]

EnableWord(b) == IF b THEN "Enabled" ELSE "Disabled"
EnableWordShort(b) == IF b THEN "Enable" ELSE "Disable"

\* PrivilegedAccess: a word that is in neither list is neither.
Privileged(access) ==
    IF access \in {"Privilege-15", "Read/Write", "Super User"} THEN {TRUE}
    ELSE IF access \in {"Privilege-1", "Read Only", "No Access"} THEN {FALSE} ELSE {}

\* A request of a reader: a page, and the port or VLAN it asks for, or 0.
Q(page, of) == [page |-> page, of |-> of]
AskEach(page, S) ==
    LET ascending == SetToSortSeq(S, <) IN [i \in DOMAIN ascending |-> Q(page, ascending[i])]

=============================================================================
