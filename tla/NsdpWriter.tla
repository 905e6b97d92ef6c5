------------------------------ MODULE NsdpWriter ------------------------------
(***************************************************************************)
(* The NSDP write operations (nsdp/writer.go) of several callers against    *)
(* one switch.  Every operation is: refuse by guard, read what is there,    *)
(* write one TLV list, read back and compare.  The reads and the write are  *)
(* separate exchanges: other callers' writes land in between, the write may *)
(* be lost, and a write whose call has timed out may still be applied       *)
(* later.  Here a write is a record in flight, and every answer is that of  *)
(* the exchange that waits for it; what an answer that strays into another  *)
(* exchange of the same port does is the subject of the module NsdpClient.  *)
(*                                                                          *)
(* The switch applies TLVs as virtual/state.go does: a PVID may name any    *)
(* VLAN, a VLAN_MEMBERS record creates its VLAN, VLAN_DESTROY moves the     *)
(* PVIDs that named the VLAN back to VLAN 1.                                *)
(*                                                                          *)
(* VLAN ids travel as a uint16.  The PVID and VLAN_MEMBERS builders turn    *)
(* down an id beyond it; VLAN_DESTROY's truncates it.                       *)
(***************************************************************************)
EXTENDS Naturals

CONSTANTS
    Writers,
    Ports,
    ProtectedPorts,  \* Writer.protectedPorts
    VlanIds,         \* ids callers use
    DefaultVlan,     \* VLAN 1, where VLAN_DESTROY moves PVIDs
    PortSettings,    \* settings addressed to a port: PORT_NAME, by port
    Values,          \* what a setting is set to
    Empty,           \* the empty string
    Malformed,       \* the other values HostnameTLV or IPv4TLV turns down
    Ops,             \* the operations callers try
    MaxCalls         \* bound: operations of each caller

Modes == {"untagged", "tagged", "excluded"}
DeviceSettings == {"hostname", "mgmtIP"}
Settings == DeviceSettings \union DOMAIN PortSettings

\* What uint16(vlan) makes of an id, and the ids that can be on the wire.
Uint16 == 65536
OnWire(v) == v % Uint16
WireVlans == {OnWire(v) : v \in VlanIds}

BadValues == Malformed \union {Empty}

\* One record shape per write operation of Writer.
PvidOp == [kind : {"pvid"}, port : Ports, vlan : VlanIds, force : BOOLEAN]
MemberOp == [kind : {"member"}, port : Ports, vlan : VlanIds, mode : Modes, force : BOOLEAN]
CreateOp == [kind : {"create"}, vlan : VlanIds, force : {FALSE}]
DeleteOp == [kind : {"delete"}, vlan : VlanIds, force : BOOLEAN]
SettingOp == [kind : {"setting"}, setting : Settings, value : Values, force : BOOLEAN]
Operation == PvidOp \union MemberOp \union CreateOp \union DeleteOp \union SettingOp

ASSUME WriterAssumption ==
    /\ ProtectedPorts \subseteq Ports
    /\ VlanIds \subseteq Nat
    /\ DefaultVlan \in WireVlans
    /\ \A s \in DOMAIN PortSettings : PortSettings[s] \in Ports
    /\ DOMAIN PortSettings \intersect DeviceSettings = {}
    /\ BadValues \subseteq Values /\ Values \ BadValues # {}
    /\ Ops \subseteq Operation /\ Ops # {}
    /\ MaxCalls \in [Writers -> Nat]

VARIABLES
    pc,       \* "idle", "before" (reading) or "await" (write sent)
    op,       \* the operation of each caller's latest call
    calls,    \* calls each caller has begun
    acked,    \* the switch has applied the write of the current call
    result,   \* what each caller's latest call returned
    inFlight, \* writes sent and neither applied nor lost
    vlans,    \* the switch: VLAN id |-> member and tagged ports
    pvid,     \* the switch: port |-> VLAN id
    setting,  \* the switch: setting |-> value
    disturbed \* history: another write was applied since the call's first read

callVars == <<pc, op, calls, acked, result>>
switchVars == <<vlans, pvid, setting>>
writerVars == <<callVars, inFlight, switchVars, disturbed>>

Vlan == [member : SUBSET Ports, tagged : SUBSET Ports]
Tlvs ==
    [tag : {"pvid"}, port : Ports, vlan : WireVlans]
      \union [tag : {"members"}, vlan : WireVlans, member : SUBSET Ports, tagged : SUBSET Ports]
      \union [tag : {"destroy"}, vlan : WireVlans]
      \union [tag : {"setting"}, setting : DeviceSettings, value : Values \ BadValues]
      \union [tag : {"setting"}, setting : DOMAIN PortSettings, value : Values]

\* Only ids a uint16 holds, and host names and addresses a TLV encodes, reach
\* the wire and the switch (writer.go's TLV builders).
WriterTypeOK ==
    /\ pc \in [Writers -> {"idle", "before", "await"}]
    /\ op \in [Writers -> Ops]
    /\ calls \in [Writers -> Nat]
    /\ acked \in [Writers -> BOOLEAN]
    /\ result \in [Writers -> {"none", "ok", "refused", "absent", "invalid",
                               "mismatch", "failed"}]
    /\ inFlight \subseteq
           [caller : Writers, call : Nat, op : Ops, tlv : Tlvs, disturbed : BOOLEAN]
    /\ DOMAIN vlans \subseteq WireVlans
    /\ \A v \in DOMAIN vlans : vlans[v] \in Vlan /\ vlans[v].tagged \subseteq vlans[v].member
    /\ pvid \in [Ports -> WireVlans]
    /\ setting \in [Settings -> Values]
    /\ \A s \in DeviceSettings : setting[s] \notin BadValues
    /\ disturbed \in [Writers -> BOOLEAN]

\* A switch as shipped: every port an untagged member of VLAN 1.
WriterInit ==
    /\ pc = [c \in Writers |-> "idle"]
    /\ op = [c \in Writers |-> CHOOSE o \in Ops : TRUE]
    /\ calls = [c \in Writers |-> 0]
    /\ acked = [c \in Writers |-> FALSE]
    /\ result = [c \in Writers |-> "none"]
    /\ inFlight = {}
    /\ vlans = [v \in {DefaultVlan} |-> [member |-> Ports, tagged |-> {}]]
    /\ pvid = [p \in Ports |-> DefaultVlan]
    /\ setting = [s \in Settings |-> CHOOSE x \in Values : x \notin BadValues]
    /\ disturbed = [c \in Writers |-> FALSE]

-----------------------------------------------------------------------------
(* Guards, encoding and verification. *)

Protected(p, force) == p \in ProtectedPorts /\ ~force

\* Writer.guard for the per-port writes; SetMgmtIP and DeleteVlan are refused
\* without force whatever the ports; SetHostname and CreateVlan never are.
Refused(o) ==
    CASE o.kind \in {"pvid", "member"} -> Protected(o.port, o.force)
      [] o.kind = "delete" -> ~o.force
      [] o.kind = "create" -> FALSE
      [] o.kind = "setting" /\ o.setting = "mgmtIP" -> ~o.force
      [] o.kind = "setting" /\ o.setting = "hostname" -> FALSE
      [] OTHER -> Protected(PortSettings[o.setting], o.force)

\* The one value refused before any read: an empty host name.
RejectedEarly(o) ==
    o.kind = "setting" /\ o.setting = "hostname" /\ o.value = Empty

\* Faulty TLV builders: no range check.
EncodesAnything(o) == TRUE

\* No TLV builder's own error, which would end the call after the first read.
\* VLANDestroyTLV and PortNameTLV have none.
Encodable(o) ==
    /\ o.kind \in {"pvid", "member", "create"} => o.vlan < Uint16
    /\ o.kind = "setting" /\ o.setting \in DeviceSettings => o.value \notin BadValues

NoMembers == [member |-> {}, tagged |-> {}]
Current(v) == IF v \in DOMAIN vlans THEN vlans[v] ELSE NoMembers

\* Faulty membersAfter: starts from an empty VLAN, not from the one read.
FromNothing(current, p, mode) ==
    [member |-> IF mode = "excluded" THEN {} ELSE {p},
     tagged |-> IF mode = "tagged" THEN {p} ELSE {}]

\* membersAfter: the read-modify-write of a VLAN's two port sets.
MembersAfter(current, p, mode) ==
    [member |-> IF mode = "excluded" THEN current.member \ {p} ELSE current.member \union {p},
     tagged |-> IF mode = "tagged" THEN current.tagged \union {p} ELSE current.tagged \ {p}]

Tlv(o) ==
    CASE o.kind = "pvid" -> [tag |-> "pvid", port |-> o.port, vlan |-> o.vlan]
      [] o.kind = "member" ->
            LET after == MembersAfter(Current(o.vlan), o.port, o.mode)
            IN  [tag |-> "members", vlan |-> o.vlan,
                 member |-> after.member, tagged |-> after.tagged]
      [] o.kind = "create" -> [tag |-> "members", vlan |-> o.vlan, member |-> {}, tagged |-> {}]
      [] o.kind = "delete" -> [tag |-> "destroy", vlan |-> OnWire(o.vlan)]
      [] o.kind = "setting" -> [tag |-> "setting", setting |-> o.setting, value |-> o.value]

\* Faulty membershipOK: membership is compared, the tag is not.
IgnoresTag(v, p, mode) ==
    IF v \notin DOMAIN vlans THEN mode = "excluded"
    ELSE p \in vlans[v].member <=> mode # "excluded"

\* membershipOK: a VLAN that is not there is right for "excluded" only.
MembershipOK(v, p, mode) ==
    IF v \notin DOMAIN vlans THEN mode = "excluded"
    ELSE IF mode = "excluded" THEN p \notin vlans[v].member
    ELSE p \in vlans[v].member /\ (p \in vlans[v].tagged <=> mode = "tagged")

ReadsBack(o) ==
    CASE o.kind = "pvid" -> pvid[o.port] = o.vlan
      [] o.kind = "member" -> MembershipOK(o.vlan, o.port, o.mode)
      [] o.kind = "create" -> o.vlan \in DOMAIN vlans
      [] o.kind = "delete" -> o.vlan \notin DOMAIN vlans
      [] o.kind = "setting" -> setting[o.setting] = o.value

-----------------------------------------------------------------------------
(* A call. *)

Finish(c, r) ==
    /\ pc' = [pc EXCEPT ![c] = "idle"]
    /\ result' = [result EXCEPT ![c] = r]

\* The checks before any I/O.
Begin(c, o) ==
    /\ pc[c] = "idle" /\ calls[c] < MaxCalls[c]
    /\ op' = [op EXCEPT ![c] = o]
    /\ calls' = [calls EXCEPT ![c] = @ + 1]
    /\ acked' = [acked EXCEPT ![c] = FALSE]
    /\ disturbed' = [disturbed EXCEPT ![c] = FALSE]
    /\ CASE Refused(o) -> Finish(c, "refused")
         [] RejectedEarly(o) -> Finish(c, "invalid")
         [] OTHER -> pc' = [pc EXCEPT ![c] = "before"]
                     /\ result' = [result EXCEPT ![c] = "none"]
    /\ UNCHANGED <<inFlight, switchVars>>

\* CreateVlan's no-op, SetPVID's precondition and the encoders' errors: what
\* the first read can end the call with, no write sent.
AlreadyThere(o) == o.kind = "create" /\ o.vlan \in DOMAIN vlans

VlanAbsent(o) == o.kind = "pvid" /\ o.vlan \notin DOMAIN vlans

ReadOnly(c) ==
    /\ pc[c] = "before"
    /\ CASE AlreadyThere(op[c]) -> Finish(c, "ok")
         [] VlanAbsent(op[c]) -> Finish(c, "absent")
         [] OTHER -> ~Encodable(op[c]) /\ Finish(c, "invalid")
    /\ UNCHANGED <<op, calls, acked, inFlight, switchVars, disturbed>>

\* The first read, and the write built from it.
ReadAndSend(c) ==
    /\ pc[c] = "before"
    /\ ~AlreadyThere(op[c]) /\ ~VlanAbsent(op[c]) /\ Encodable(op[c])
    /\ pc' = [pc EXCEPT ![c] = "await"]
    /\ inFlight' = inFlight \union
           {[caller |-> c, call |-> calls[c], op |-> op[c], tlv |-> Tlv(op[c]),
             disturbed |-> FALSE]}
    /\ disturbed' = [disturbed EXCEPT ![c] = FALSE]
    /\ UNCHANGED <<op, calls, acked, result, switchVars>>

\* The write was acknowledged: read back and compare.
Verify(c) ==
    /\ pc[c] = "await" /\ acked[c]
    /\ Finish(c, IF ReadsBack(op[c]) THEN "ok" ELSE "mismatch")
    /\ UNCHANGED <<op, calls, acked, inFlight, switchVars, disturbed>>

\* Any exchange of the call fails: timeout, refusal by the switch, bad reply.
Fail(c) ==
    /\ pc[c] # "idle"
    /\ Finish(c, "failed")
    /\ UNCHANGED <<op, calls, acked, inFlight, switchVars, disturbed>>

-----------------------------------------------------------------------------
(* The switch (State.ApplyNsdpWrite) and the network. *)

ApplyTlv(t) ==
    CASE t.tag = "pvid" ->
            pvid' = [pvid EXCEPT ![t.port] = t.vlan] /\ UNCHANGED <<vlans, setting>>
      [] t.tag = "members" ->
            /\ vlans' = [v \in DOMAIN vlans \union {t.vlan} |->
                            IF v = t.vlan
                            THEN [member |-> t.member, tagged |-> t.member \intersect t.tagged]
                            ELSE vlans[v]]
            /\ UNCHANGED <<pvid, setting>>
      [] t.tag = "destroy" ->
            /\ vlans' = [v \in DOMAIN vlans \ {t.vlan} |-> vlans[v]]
            /\ pvid' = [p \in Ports |-> IF t.vlan \in DOMAIN vlans /\ pvid[p] = t.vlan
                                        THEN DefaultVlan ELSE pvid[p]]
            /\ UNCHANGED setting
      [] t.tag = "setting" ->
            setting' = [setting EXCEPT ![t.setting] = t.value] /\ UNCHANGED <<vlans, pvid>>

Apply(w) ==
    /\ ApplyTlv(w.tlv)
    /\ inFlight' = {[x EXCEPT !.disturbed = TRUE] : x \in inFlight \ {w}}
    /\ LET own(c) == c = w.caller /\ calls[c] = w.call IN
       /\ acked' = [c \in Writers |-> acked[c] \/ own(c)]
       /\ disturbed' = [c \in Writers |-> disturbed[c] \/ ~own(c)]
    /\ UNCHANGED <<pc, op, calls, result>>

LoseWrite ==
    /\ \E w \in inFlight : inFlight' = inFlight \ {w}
    /\ UNCHANGED <<callVars, switchVars, disturbed>>

WriterNext ==
    \/ \E c \in Writers :
          \/ \E o \in Ops : Begin(c, o)
          \/ ReadOnly(c) \/ ReadAndSend(c) \/ Verify(c) \/ Fail(c)
    \/ \E w \in inFlight : Apply(w)
    \/ LoseWrite

WriterSpec == WriterInit /\ [][WriterNext]_writerVars

-----------------------------------------------------------------------------
(* Properties. *)

\* How a port sits in a VLAN, read off the switch's table.
Mode(table, v, p) ==
    IF v \notin DOMAIN table \/ p \notin table[v].member THEN "excluded"
    ELSE IF p \in table[v].tagged THEN "tagged" ELSE "untagged"

Achieved(o) ==
    CASE o.kind = "pvid" -> pvid[o.port] = o.vlan
      [] o.kind = "member" -> Mode(vlans, o.vlan, o.port) = o.mode
      [] o.kind = "create" -> o.vlan \in DOMAIN vlans
      [] o.kind = "delete" -> o.vlan \notin DOMAIN vlans
      [] o.kind = "setting" -> setting[o.setting] = o.value

\* Verify-after-write (writer.go:10-14): a call returns nil only when the
\* switch holds what it asked for at that moment, and WriteVerificationError is no
\* false alarm: after an applied write the read back (membershipOK, writer.go:327)
\* differs only if another write came in.
VerdictIsTrue ==
    [][\A c \in Writers :
          /\ pc[c] # "idle" /\ result'[c] = "ok" /\ pc'[c] = "idle" => Achieved(op[c])
          /\ result[c] = "none" /\ result'[c] = "mismatch" => disturbed[c]]_writerVars

\* The memberships an operation is about: of a VLAN to delete, those of the
\* VLAN its TLV names.
Target(o, v, p) ==
    \/ o.kind = "member" /\ o.vlan = v /\ o.port = p
    \/ o.kind = "delete" /\ OnWire(o.vlan) = v

\* The read-modify-write of membersAfter (writer.go:287): with nothing applied
\* since its read, a write leaves every membership its TLVs do not name alone.
WriteTouchesOnlyItsTarget ==
    [][\A w \in inFlight :
          Apply(w) /\ ~w.disturbed =>
          \A v \in WireVlans, p \in Ports :
              ~Target(w.op, v, p) => Mode(vlans', v, p) = Mode(vlans, v, p)]_writerVars

\* "VLAN IDs are always well under 65536", and "verify-after-write is the
\* runtime guard" (write_tlv.go:14-18, writer.go:690): after a deletion that
\* ends well, VLAN 1 is still there if no call ever deletes VLAN 1.
DeletionSparesOthers ==
    \A c \in Writers :
        /\ result[c] = "ok" /\ op[c].kind = "delete"
        /\ \A o \in Ops : o.kind = "delete" => o.vlan # DefaultVlan
        => DefaultVlan \in DOMAIN vlans

=============================================================================
