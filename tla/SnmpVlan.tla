-------------------------------- MODULE SnmpVlan --------------------------------
(***************************************************************************)
(* The VLAN operations of the SNMP writer (snmp/writer_vlan.go,             *)
(* snmp/writer_switchport.go, SetPVID of snmp/writer.go) against the        *)
(* virtual switch's agent (virtual/snmpface.go, virtual/state.go,           *)
(* virtual/state_switchport.go).                                            *)
(*                                                                          *)
(* An operation is a script of walks, SETs and walks.  A walk reads one     *)
(* column of a table and several walks do not make a snapshot.  Membership  *)
(* is written in one of three dialects: both port lists of the VLAN in one  *)
(* PDU, one PDU each (the S3300 untags what is added to the first), or the  *)
(* port's switchport columns, one PDU each, from which FASTPATH 12 derives  *)
(* the port's place in every VLAN.  A SET is sent again when no answer      *)
(* comes, so it may be applied twice.                                       *)
(***************************************************************************)
EXTENDS Naturals, Sequences, FiniteSets

CONSTANTS
    Callers,
    Ports,
    ProtectedPorts,  \* Writer.protectedPorts
    VlanIds,
    DefaultVlan,     \* defaultVlan, VLAN 1
    Names,           \* VLAN names
    Models,          \* the models callers may face
    Starts,          \* switchport settings ports are found in
    Ops,             \* the operations callers try
    MaxCalls,        \* bound: operations per caller
    Retries,         \* times gosnmp sends a SET again
    NoName, NoMode

Modes == {"untagged", "tagged", "excluded"}

\* How a model takes VLAN writes (model.SwitchModel).
Model == [vlanWrite : {"qbridge", "switchport"}, split : BOOLEAN, creates : BOOLEAN]

MemberOp == [kind : {"member"}, vlan : VlanIds, port : Ports, mode : Modes, force : BOOLEAN]
PvidOp == [kind : {"pvid"}, vlan : VlanIds, port : Ports, force : BOOLEAN]
CreateOp == [kind : {"create"}, vlan : VlanIds, name : Names, force : {FALSE}]
DeleteOp == [kind : {"delete"}, vlan : VlanIds, force : BOOLEAN]
Operation == MemberOp \union PvidOp \union CreateOp \union DeleteOp

\* A port's switchport row: columns 2, 3, 4, 6, and the general mode lists.
Switchport == [mode : {"access", "trunk", "general"}, access : VlanIds, native : VlanIds,
               allowed : SUBSET VlanIds, untagged : SUBSET VlanIds, tagged : SUBSET VlanIds]

ASSUME VlanAssumption ==
    /\ ProtectedPorts \subseteq Ports
    /\ DefaultVlan \in VlanIds /\ IsFiniteSet(VlanIds)
    /\ Models \subseteq Model /\ Models # {}
    /\ Starts \subseteq [Ports -> Switchport] /\ Starts # {}
    /\ Ops \subseteq Operation /\ Ops # {}
    /\ MaxCalls \in [Callers -> Nat] /\ Retries \in Nat
    /\ NoName \notin Names /\ "absent" \notin Names \union {NoName}
    /\ NoMode \notin {"access", "trunk", "general"}

VARIABLES
    model,      \* the model of the switch
    vlans,      \* the switch: its VLAN table
    pvid,       \* the switch: dot1qPvid
    port,       \* the switch: the switchport table
    op,         \* each caller's latest operation
    todo,       \* the steps of its script still to take
    seen,       \* what its walks have read
    plan,       \* the SETs it has decided on and what should be read back
    tries,      \* times the SET under way has been sent
    result,     \* what its latest operation returned
    calls,      \* operations each caller has begun
    found       \* history: the VLAN table each operation began with, or NoTable
                \* once another caller's SET has been applied since

switchVars == <<vlans, pvid, port>>
callVars == <<op, todo, seen, plan, tries, result, calls>>
vars == <<model, switchVars, callVars, found>>

Row == [name : Names \union {NoName}, member : SUBSET Ports, untagged : SUBSET Ports]

\* GetVLANs as far as it has been read, and the port's switchport mode and
\* allowed list.
View == [names : [VlanIds -> Names \union {NoName, "absent"}],
         member : [VlanIds -> SUBSET Ports], untagged : [VlanIds -> SUBSET Ports],
         mode : {"access", "trunk", "general", NoMode}, allowed : SUBSET VlanIds,
         pvid : SUBSET (Ports \X VlanIds)]
Unseen == [names |-> [v \in VlanIds |-> "absent"],
           member |-> [v \in VlanIds |-> {}], untagged |-> [v \in VlanIds |-> {}],
           mode |-> NoMode, allowed |-> {}, pvid |-> {}]

\* Varbinds; a PDU is a sequence of them.
Varbind ==
    [col : {"egress", "untagged"}, vlan : VlanIds, ports : SUBSET Ports]
        \union [col : {"allowed"}, port : Ports, vlans : SUBSET VlanIds]
        \union [col : {"native", "access", "pvid"}, port : Ports, vlan : VlanIds]
        \union [col : {"mode"}, port : Ports, mode : {"access", "trunk"}]
        \union [col : {"create", "destroy"}, vlan : VlanIds]
        \union [col : {"name"}, vlan : VlanIds, name : Names]

\* The PDUs still to send; and what a membership write expects to read back:
\* the VLAN's member and untagged ports, or the port's tagged and untagged VLANs.
Nothing == [pdus |-> <<>>, expected |-> <<{}, {}>>]

TypeOK ==
    /\ model \in Models
    /\ DOMAIN vlans \subseteq VlanIds /\ \A v \in DOMAIN vlans : vlans[v] \in Row
    /\ pvid \in [Ports -> VlanIds]
    /\ port \in [Ports -> Switchport]
    /\ op \in [Callers -> Ops]
    /\ seen \in [Callers -> View]
    /\ \A c \in Callers :
          /\ \A i \in DOMAIN plan[c].pdus : \A j \in DOMAIN plan[c].pdus[i] :
                plan[c].pdus[i][j] \in Varbind
          /\ result[c] \in {"none", "ok", "refused", "absent", "unsupported", "mismatch", "failed"}
          /\ calls[c] \in 0..MaxCalls[c]
          /\ todo[c] = <<>> => plan[c] = Nothing
    /\ tries \in [Callers -> 0..Retries]

-----------------------------------------------------------------------------
(* The agent. *)

\* applySwitchport: the VLANs a port is in, from its switchport row.
UntaggedIn(sp) ==
    CASE sp.mode = "access" -> {sp.access}
      [] sp.mode = "trunk" -> {sp.native}
      [] sp.mode = "general" -> sp.untagged
TaggedIn(sp) ==
    CASE sp.mode = "access" -> {}
      [] sp.mode = "trunk" -> sp.allowed \ {sp.native}
      [] sp.mode = "general" -> sp.tagged \ sp.untagged

Derived(table, p, sp) ==
    [v \in DOMAIN table |->
        [table[v] EXCEPT
            !.member = IF v \in UntaggedIn(sp) \union TaggedIn(sp) THEN @ \union {p} ELSE @ \ {p},
            !.untagged = IF v \in UntaggedIn(sp) THEN @ \union {p} ELSE @ \ {p}]]

DerivedPvid(old, sp) ==
    CASE sp.mode = "access" -> sp.access
      [] sp.mode = "trunk" -> sp.native
      [] sp.mode = "general" -> old

NoVlan == [name |-> NoName, member |-> {}, untagged |-> {}]
NoTable == [v \in {} |-> NoVlan]

\* A switchport model starts with its mirrors derived, any other one with
\* every port untagged in VLAN 1.
Init ==
    /\ model \in Models
    /\ port \in Starts
    /\ \E others \in SUBSET (VlanIds \ {DefaultVlan}) :
        vlans = [v \in {DefaultVlan} \union others |->
            IF model.vlanWrite = "switchport"
            THEN [name |-> NoName,
                  member |-> {p \in Ports : v \in UntaggedIn(port[p]) \union TaggedIn(port[p])},
                  untagged |-> {p \in Ports : v \in UntaggedIn(port[p])}]
            ELSE IF v = DefaultVlan THEN [NoVlan EXCEPT !.member = Ports, !.untagged = Ports]
            ELSE NoVlan]
    /\ model.vlanWrite = "switchport" =>
          \A p \in Ports : UntaggedIn(port[p]) \subseteq DOMAIN vlans
    /\ model.vlanWrite = "qbridge" => port = CHOOSE s \in Starts : TRUE
    /\ pvid = [p \in Ports |-> IF model.vlanWrite = "switchport"
                               THEN DerivedPvid(DefaultVlan, port[p]) ELSE DefaultVlan]
    /\ op = [c \in Callers |-> CHOOSE o \in Ops : TRUE]
    /\ todo = [c \in Callers |-> <<>>]
    /\ seen = [c \in Callers |-> Unseen]
    /\ plan = [c \in Callers |-> Nothing]
    /\ tries = [c \in Callers |-> 0]
    /\ result = [c \in Callers |-> "none"]
    /\ calls = [c \in Callers |-> 0]
    /\ found = [c \in Callers |-> NoTable]

\* The switch while it takes a PDU: `written` is State.PDUEgressWrites.
Switch == [vlans |-> vlans, pvid |-> pvid, port |-> port, written |-> {}]

Replug(s, p, sp) ==
    [s EXCEPT !.port[p] = sp, !.vlans = Derived(@, p, sp), !.pvid[p] = DerivedPvid(@, sp)]

ReplaceMembers(s, v, ports) ==
    IF v \notin DOMAIN s.vlans THEN s
    ELSE IF model.split
    THEN [s EXCEPT !.vlans[v].untagged = @ \union (ports \ s.vlans[v].member),
                   !.vlans[v].member = ports, !.written = @ \union {v}]
    ELSE [s EXCEPT !.vlans[v].member = ports]

ReplaceUntagged(s, v, ports) ==
    IF v \notin DOMAIN s.vlans \/ v \in s.written THEN s
    ELSE [s EXCEPT !.vlans[v].untagged = ports]

WithRow(s, v, name) ==
    [s EXCEPT !.vlans = [x \in DOMAIN @ \union {v} |->
        IF x \in DOMAIN @ THEN (IF x = v /\ name # NoName THEN [@[x] EXCEPT !.name = name] ELSE @[x])
        ELSE [NoVlan EXCEPT !.name = name]]]

\* State.ApplyWrite, one varbind.
ApplyWrite(s, vb) ==
    CASE vb.col = "egress" -> ReplaceMembers(s, vb.vlan, vb.ports)
      [] vb.col = "untagged" -> ReplaceUntagged(s, vb.vlan, vb.ports)
      [] vb.col = "allowed" -> Replug(s, vb.port, [s.port[vb.port] EXCEPT !.allowed = vb.vlans])
      [] vb.col = "native" -> Replug(s, vb.port, [s.port[vb.port] EXCEPT !.native = vb.vlan])
      [] vb.col = "access" -> Replug(s, vb.port, [s.port[vb.port] EXCEPT !.access = vb.vlan])
      [] vb.col = "mode" -> Replug(s, vb.port, [s.port[vb.port] EXCEPT !.mode = vb.mode])
      [] vb.col = "pvid" -> [s EXCEPT !.pvid[vb.port] = vb.vlan]
      [] vb.col = "create" -> WithRow(s, vb.vlan, NoName)
      [] vb.col = "name" -> WithRow(s, vb.vlan, vb.name)
      [] vb.col = "destroy" -> [s EXCEPT !.vlans = [x \in DOMAIN @ \ {vb.vlan} |-> @[x]]]

\* handleSet: all varbinds or none.  A native VLAN must exist.
Rejected(pdu) == \E i \in DOMAIN pdu : pdu[i].col = "native" /\ pdu[i].vlan \notin DOMAIN vlans
Applied(pdu) ==
    IF Len(pdu) = 1 THEN ApplyWrite(Switch, pdu[1])
    ELSE ApplyWrite(ApplyWrite(Switch, pdu[1]), pdu[2])

-----------------------------------------------------------------------------
(* The writer: what it reads, and what it decides on. *)

Membership(o) == o.kind = "member"
ViaSwitchport(o) == Membership(o) /\ model.vlanWrite = "switchport"
ViaPortLists(o) == Membership(o) /\ model.vlanWrite # "switchport"

\* The walks before the SETs whose rows an operation uses.
Before(o) ==
    CASE ViaSwitchport(o) -> <<"names", "egress", "untagged", "mode", "allowed">>
      [] ViaPortLists(o) -> <<"names", "egress", "untagged", "rawEgress", "rawUntagged">>
      [] o.kind = "delete" -> <<"names", "egress">>
      [] OTHER -> <<"names">>

After(o) ==
    CASE Membership(o) -> <<"names", "egress", "untagged">>
      [] o.kind = "pvid" -> <<"pvids">>
      [] OTHER -> <<"names">>

\* One walk.  A raw column keeps what GetVLANs decoded when the row is gone.
Walked(view, what, o) ==
    CASE what = "names" ->
            [view EXCEPT !.names = [v \in VlanIds |->
                IF v \in DOMAIN vlans THEN vlans[v].name ELSE "absent"]]
      [] what = "egress" ->
            [view EXCEPT !.member = [v \in VlanIds |->
                IF v \in DOMAIN vlans THEN vlans[v].member ELSE {}]]
      [] what = "untagged" ->
            [view EXCEPT !.untagged = [v \in VlanIds |->
                IF v \in DOMAIN vlans THEN vlans[v].untagged ELSE {}]]
      [] what = "rawEgress" ->
            IF o.vlan \in DOMAIN vlans
            THEN [view EXCEPT !.member[o.vlan] = vlans[o.vlan].member] ELSE view
      [] what = "rawUntagged" ->
            IF o.vlan \in DOMAIN vlans
            THEN [view EXCEPT !.untagged[o.vlan] = vlans[o.vlan].untagged] ELSE view
      [] what = "mode" -> [view EXCEPT !.mode = port[o.port].mode]
      [] what = "allowed" -> [view EXCEPT !.allowed = port[o.port].allowed]
      [] what = "pvids" -> [view EXCEPT !.pvid = {<<p, pvid[p]>> : p \in Ports}]

Existing(view) == {v \in VlanIds : view.names[v] # "absent"}

\* portMembership.
TaggedVlans(view, p) == {v \in Existing(view) : p \in view.member[v] \ view.untagged[v]}
UntaggedVlans(view, p) == {v \in Existing(view) : p \in view.untagged[v]}

\* MembershipBitmaps: the VLAN's two port lists with the port's bits replaced.
NewMembers(view, o) ==
    IF o.mode = "excluded" THEN view.member[o.vlan] \ {o.port}
    ELSE view.member[o.vlan] \union {o.port}
\* Faulty MembershipBitmaps: a tagged port keeps its untagged bit.
KeepsUntagged(view, o) ==
    IF o.mode = "excluded" THEN view.untagged[o.vlan] \ {o.port}
    ELSE IF o.mode = "untagged" THEN view.untagged[o.vlan] \union {o.port}
    ELSE view.untagged[o.vlan]
NewUntagged(view, o) ==
    IF o.mode = "untagged" THEN view.untagged[o.vlan] \union {o.port}
    ELSE view.untagged[o.vlan] \ {o.port}

PortLists(view, o) ==
    LET egress == [col |-> "egress", vlan |-> o.vlan, ports |-> NewMembers(view, o)]
        untagged == [col |-> "untagged", vlan |-> o.vlan, ports |-> NewUntagged(view, o)]
    IN  [pdus |-> IF model.split THEN <<<<egress>>, <<untagged>>>> ELSE <<<<egress, untagged>>>>,
         expected |-> <<egress.ports, untagged.ports>>]

\* PlanSwitchportMembership: the port's tagged and untagged VLANs to be.
WantTagged(view, o) ==
    IF o.mode = "tagged" THEN TaggedVlans(view, o.port) \union {o.vlan}
    ELSE TaggedVlans(view, o.port) \ {o.vlan}
\* Faulty plan: a port not asked to be untagged is untagged in no VLAN.
ForgetsUntagged(view, o) == IF o.mode = "untagged" THEN {o.vlan} ELSE {}
WantUntagged(view, o) ==
    IF o.mode = "untagged" THEN {o.vlan} ELSE UntaggedVlans(view, o.port) \ {o.vlan}

\* What one untagged VLAN per port cannot express.
Inexpressible(view, o) ==
    \/ Cardinality(WantUntagged(view, o)) > 1
    \/ WantUntagged(view, o) = {} /\ DefaultVlan \in WantTagged(view, o)

NativeVlan(view, o) ==
    IF WantUntagged(view, o) = {} THEN DefaultVlan
    ELSE CHOOSE v \in WantUntagged(view, o) : TRUE

AllowedVlans(view, o) ==
    LET want == WantTagged(view, o) \union {NativeVlan(view, o)}
    IN  IF view.mode = "trunk" THEN (view.allowed \ (Existing(view) \ want)) \union want
        ELSE want

\* Faulty plan: the mode selector before the columns it puts in force.
SelectsModeFirst(view, o) ==
    LET native == NativeVlan(view, o)
        set(col, v) == <<[col |-> col, port |-> o.port, vlan |-> v]>>
        mode(m) == <<[col |-> "mode", port |-> o.port, mode |-> m]>>
    IN  [pdus |-> IF WantTagged(view, o) # {}
                  THEN <<mode("trunk"), set("native", native),
                         <<[col |-> "allowed", port |-> o.port, vlans |-> AllowedVlans(view, o)]>>>>
                  ELSE <<mode("access"), set("access", native)>>,
         expected |-> <<WantTagged(view, o), {native}>>]
PlanSwitchport(view, o) ==
    LET native == NativeVlan(view, o)
        set(col, v) == <<[col |-> col, port |-> o.port, vlan |-> v]>>
        mode(m) == <<[col |-> "mode", port |-> o.port, mode |-> m]>>
    IN  [pdus |-> IF WantTagged(view, o) # {}
                  THEN <<<<[col |-> "allowed", port |-> o.port, vlans |-> AllowedVlans(view, o)]>>,
                         set("native", native), mode("trunk")>>
                  ELSE <<set("access", native), mode("access")>>,
         expected |-> <<WantTagged(view, o), {native}>>]

Plan(view, o) ==
    CASE ViaSwitchport(o) -> PlanSwitchport(view, o)
      [] ViaPortLists(o) -> PortLists(view, o)
      [] o.kind = "pvid" ->
            [Nothing EXCEPT !.pdus = <<<<[col |-> "pvid", port |-> o.port, vlan |-> o.vlan]>>>>]
      [] o.kind = "create" ->
            [Nothing EXCEPT !.pdus = <<<<[col |-> "create", vlan |-> o.vlan],
                                        [col |-> "name", vlan |-> o.vlan, name |-> o.name]>>>>]
      [] o.kind = "delete" ->
            [Nothing EXCEPT !.pdus = <<<<[col |-> "destroy", vlan |-> o.vlan]>>>>]

-----------------------------------------------------------------------------
(* An operation, step by step. *)

\* Writer.guard: membership and PVID writes of a protected port.
Guarded(o) == o.kind \in {"member", "pvid"} /\ o.port \in ProtectedPorts /\ ~o.force

\* requireSNMPVLANCreation.
CannotCreate(o) == o.kind = "create" /\ ~model.creates

Return(c, r) ==
    /\ result' = [result EXCEPT ![c] = r]
    /\ todo' = [todo EXCEPT ![c] = <<>>]
    /\ seen' = [seen EXCEPT ![c] = Unseen]
    /\ plan' = [plan EXCEPT ![c] = Nothing]
    /\ tries' = [tries EXCEPT ![c] = 0]

Begin(c, o) ==
    /\ todo[c] = <<>> /\ calls[c] < MaxCalls[c]
    /\ op' = [op EXCEPT ![c] = o]
    /\ calls' = [calls EXCEPT ![c] = @ + 1]
    /\ found' = [found EXCEPT ![c] = vlans]
    /\ IF Guarded(o) THEN Return(c, "refused")
       ELSE IF CannotCreate(o) THEN Return(c, "unsupported")
       ELSE /\ todo' = [todo EXCEPT ![c] = Before(o) \o <<"decide">>]
            /\ result' = [result EXCEPT ![c] = "none"]
            /\ UNCHANGED <<seen, plan, tries>>
    /\ UNCHANGED <<model, switchVars>>

Walk(c) ==
    /\ todo[c] # <<>> /\ plan[c].pdus = <<>> /\ Head(todo[c]) \notin {"decide", "verify"}
    /\ seen' = [seen EXCEPT ![c] = Walked(@, Head(todo[c]), op[c])]
    /\ todo' = [todo EXCEPT ![c] = Tail(@)]
    /\ UNCHANGED <<model, switchVars, op, plan, tries, result, calls, found>>

Missing(view, o) == o.kind # "create" /\ view.names[o.vlan] = "absent"
Clash(view, o) ==
    o.kind = "delete" /\ ~o.force /\ view.member[o.vlan] \intersect ProtectedPorts # {}

\* The preconditions, then the plan.
Decide(c) ==
    /\ todo[c] # <<>> /\ Head(todo[c]) = "decide"
    /\ LET o == op[c]
           view == seen[c]
       IN  IF Missing(view, o) THEN Return(c, "absent")
           ELSE IF Clash(view, o) THEN Return(c, "refused")
           ELSE IF ViaSwitchport(o) /\ Inexpressible(view, o) THEN Return(c, "unsupported")
           ELSE /\ plan' = [plan EXCEPT ![c] = Plan(view, o)]
                /\ seen' = [seen EXCEPT ![c] = Unseen]
                /\ todo' = [todo EXCEPT ![c] = After(o) \o <<"verify">>]
                /\ UNCHANGED <<tries, result>>
    /\ UNCHANGED <<model, switchVars, op, calls, found>>

Busy(c) == todo[c] # <<>>

Take(c, pdu) ==
    LET s == Applied(pdu) IN
    /\ vlans' = s.vlans /\ pvid' = s.pvid /\ port' = s.port
    /\ found' = [d \in Callers |-> IF d = c THEN found[d] ELSE NoTable]

\* The agent answers the SET.
Answered(c) ==
    /\ plan[c].pdus # <<>>
    /\ LET pdu == Head(plan[c].pdus) IN
       IF Rejected(pdu) THEN Return(c, "failed") /\ UNCHANGED <<switchVars, found>>
       ELSE /\ Take(c, pdu)
            /\ plan' = [plan EXCEPT ![c].pdus = Tail(@)]
            /\ tries' = [tries EXCEPT ![c] = 0]
            /\ UNCHANGED <<todo, seen, result>>
    /\ UNCHANGED <<model, op, calls>>

\* Faulty client: one time too many.
TriesOnceMore(c) ==
    IF tries[c] <= Retries
    THEN tries' = [tries EXCEPT ![c] = @ + 1] /\ UNCHANGED <<todo, seen, plan, result>>
    ELSE Return(c, "failed")
\* No answer in time: gosnmp sends the PDU again, or gives up.
TryAgain(c) ==
    IF tries[c] < Retries
    THEN tries' = [tries EXCEPT ![c] = @ + 1] /\ UNCHANGED <<todo, seen, plan, result>>
    ELSE Return(c, "failed")

\* The SET was lost, or its answer was.
Unanswered(c) ==
    /\ plan[c].pdus # <<>>
    /\ \/ UNCHANGED <<switchVars, found>>
       \/ ~Rejected(Head(plan[c].pdus)) /\ Take(c, Head(plan[c].pdus))
    /\ TryAgain(c)
    /\ UNCHANGED <<model, op, calls>>

ReadsBack(view, o, expected) ==
    CASE ViaSwitchport(o) ->
            view.names[o.vlan] # "absent"
            /\ expected = <<TaggedVlans(view, o.port), UntaggedVlans(view, o.port)>>
      [] ViaPortLists(o) ->
            view.names[o.vlan] # "absent"
            /\ expected = <<view.member[o.vlan], view.untagged[o.vlan]>>
      [] o.kind = "pvid" -> <<o.port, o.vlan>> \in view.pvid
      [] o.kind = "create" -> view.names[o.vlan] = o.name
      [] o.kind = "delete" -> view.names[o.vlan] = "absent"

Verify(c) ==
    /\ todo[c] = <<"verify">>
    /\ Return(c, IF ReadsBack(seen[c], op[c], plan[c].expected) THEN "ok" ELSE "mismatch")
    /\ UNCHANGED <<model, switchVars, op, calls, found>>

\* A walk that gets no answer ends the operation.
Fail(c) ==
    /\ Busy(c) /\ plan[c].pdus = <<>> /\ Head(todo[c]) \notin {"decide", "verify"}
    /\ Return(c, "failed")
    /\ UNCHANGED <<model, switchVars, op, calls, found>>

Step(c) == Walk(c) \/ Decide(c) \/ Answered(c) \/ Unanswered(c) \/ Verify(c) \/ Fail(c)

Next == \E c \in Callers : (\E o \in Ops : Begin(c, o)) \/ Step(c)

Spec == Init /\ [][Next]_vars

-----------------------------------------------------------------------------
(* Properties. *)

\* Another caller's SET has been applied since the operation began.
Disturbed(c) == found[c] = NoTable

\* How a port sits in a VLAN.
Mode(table, v, p) ==
    IF v \notin DOMAIN table \/ p \notin table[v].member THEN "excluded"
    ELSE IF p \in table[v].untagged THEN "untagged" ELSE "tagged"

Achieved(o) ==
    CASE o.kind = "member" -> o.vlan \in DOMAIN vlans /\ Mode(vlans, o.vlan, o.port) = o.mode
      [] o.kind = "pvid" -> pvid[o.port] = o.vlan
      [] o.kind = "create" -> o.vlan \in DOMAIN vlans /\ vlans[o.vlan].name = o.name
      [] o.kind = "delete" -> o.vlan \notin DOMAIN vlans

\* Excluding a switchport from its only untagged VLAN falls back to the default
\* VLAN, also when that is the VLAN to be excluded from.
FallsBackIntoIt(o, table) ==
    /\ ViaSwitchport(o) /\ o.mode = "excluded" /\ o.vlan = DefaultVlan
    /\ \A w \in DOMAIN table \ {DefaultVlan} : Mode(table, w, o.port) # "untagged"

\* Verify-after-write (writer_vlan.go:134-139): unless another caller's SET
\* came in, an operation that returns nil has left the switch as asked, or the
\* port untagged in the VLAN 1 it was to leave, which was its only untagged VLAN;
\* and what the three dialects send, SETs sent twice included, makes the switch
\* read back as planned (writer_switchport.go:341-350), so that
\* WriteVerificationError means that a port fell back to a default VLAN that has
\* been deleted.
VerdictIsTrue ==
    [][\A c \in Callers : Verify(c) /\ ~Disturbed(c) =>
          /\ result'[c] = "ok" =>
                \/ Achieved(op[c])
                \/ FallsBackIntoIt(op[c], found[c])
                   /\ Mode(vlans, DefaultVlan, op[c].port) = "untagged"
          /\ result'[c] = "mismatch" =>
                ViaSwitchport(op[c]) /\ DefaultVlan \notin DOMAIN vlans]_vars

\* "EXCLUDED V -> BOTH sets minus V" (writer_switchport.go:220): a port that an
\* undisturbed call reports excluded from a VLAN is not in it.
ExcludedIsOut ==
    [][\A c \in Callers :
          /\ Verify(c) /\ result'[c] = "ok" /\ ~Disturbed(c)
          /\ op[c].kind = "member" /\ op[c].mode = "excluded"
          => Mode(vlans, op[c].vlan, op[c].port) = "excluded"]_vars

\* "VLANs the caller never named keep their membership" (writer_switchport.go:347):
\* after an undisturbed write every port is in every VLAN as found, but the
\* port named in the VLAN named; and, a switchport being untagged in one VLAN,
\* in the one it leaves and in the default VLAN it falls back to when it would
\* be untagged in none.
WriteTouchesOnlyItsTarget ==
    [][\A c \in Callers :
          /\ Verify(c) /\ result'[c] = "ok" /\ ~Disturbed(c) /\ op[c].kind = "member"
          => LET o == op[c] IN
             \A v \in DOMAIN found[c], p \in Ports :
                \/ Mode(vlans, v, p) = Mode(found[c], v, p)
                \/ p = o.port /\ v = o.vlan
                \/ p = o.port /\ ViaSwitchport(o) /\ o.mode = "untagged"
                   /\ Mode(found[c], v, p) = "untagged" /\ Mode(vlans, v, p) = "excluded"
                \/ p = o.port /\ ViaSwitchport(o) /\ o.mode # "untagged" /\ v = DefaultVlan
                   /\ Mode(found[c], v, p) = "excluded"
                   /\ \A w \in DOMAIN found[c] \ {o.vlan} : Mode(found[c], w, p) # "untagged"]_vars


\* Where a switchport plan puts the port in a VLAN.
Planned(c, v) ==
    IF v \in plan[c].expected[2] THEN "untagged"
    ELSE IF v \in plan[c].expected[1] THEN "tagged" ELSE "excluded"

\* The caller is setting switchport columns, and nobody else's SET comes in.
Placing(c) == ViaSwitchport(op[c]) /\ plan[c] # Nothing /\ found'[c] # NoTable

AsFoundOrPlanned(c, v) == Mode(vlans', v, op[c].port) \in {Mode(found[c], v, op[c].port), Planned(c, v)}

\* "landing col6/col4 first means membership never passes through a wrong
\* intermediate state" (writer_switchport.go:315-318): after each PDU, the one
\* the call fails on included, the port is in every VLAN as found or as planned.
NoWrongPlace ==
    [][\A c \in Callers : Placing(c) => \A v \in DOMAIN vlans' : AsFoundOrPlanned(c, v)]_vars

\* What becomes of that promise: one column at a time, and wherever the call
\* fails between them, a port that is a trunk already may be tagged in the VLAN
\* it is about to be untagged in, its allowed list being in force at once, or in
\* a VLAN created since its membership was last derived that its list allowed
\* before; any other port, and every other VLAN, is only where it was found or is
\* planned to be.
WrongPlaceNeedsTrunk ==
    [][\A c \in Callers : Placing(c) => \A v \in DOMAIN vlans' :
          \/ AsFoundOrPlanned(c, v)
          \/ LET trunk == port[op[c].port]
             IN  /\ trunk.mode = "trunk" /\ v \in plan[c].expected[2] \union trunk.allowed
                 /\ Mode(vlans', v, op[c].port) = "tagged"]_vars

=============================================================================
