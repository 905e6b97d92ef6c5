------------------------------ MODULE Snmp_proofs ------------------------------
(***************************************************************************)
(* What is proved of the SNMP backend for every value of the constants.     *)
(*                                                                          *)
(* SnmpVlan, every number of callers, ports, VLANs, models, starting        *)
(* configurations and retries: type correctness; the verdict of a call      *)
(* nobody disturbed is true; such a call moves nothing but its target.  The *)
(* invariant IInv has two layers.  Shaped holds of every call: a script     *)
(* ends in its decision or its verdict, and where the switchport columns    *)
(* own membership the port lists are nobody's to write.  Undisturbed holds  *)
(* of a call during which no other call wrote: what its walks have read is  *)
(* what the switch holds, its plan is the one of its dialect for what it    *)
(* found, and the PDUs the plan no longer holds have had their effect, once *)
(* or more often.                                                           *)
(*                                                                          *)
(* SnmpRead, every table, SET, page size and number of reads: type          *)
(* correctness; between two requests the agent's state and view are made of *)
(* whole SETs; a read during which the view did not change is exact.  The   *)
(* first invariant says what is left of a SET does to the state what the    *)
(* whole was to do, the second what a walk has read so far.                 *)
(***************************************************************************)
EXTENDS SnmpVlan, SnmpRead, FiniteSetTheorems, SequenceTheorems, WellFoundedInduction, TLAPS

-----------------------------------------------------------------------------
(* The inductive invariant. *)

Results == {"none", "ok", "refused", "absent", "unsupported", "mismatch", "failed"}
Steps == {"names", "egress", "untagged", "rawEgress", "rawUntagged", "mode", "allowed",
          "pvids", "decide", "verify"}
Pdu == {s \in Seq(Varbind) : Len(s) \in {1, 2}}
Lists == (SUBSET Ports) \union (SUBSET VlanIds)
Plans == [pdus : Seq(Pdu), expected : Lists \X Lists]

IsTable(t) == DOMAIN t \subseteq VlanIds /\ t \in [DOMAIN t -> Row]

SwitchOK ==
    /\ model \in Models
    /\ IsTable(vlans)
    /\ pvid \in [Ports -> VlanIds]
    /\ port \in [Ports -> Switchport]
CallsOK ==
    /\ op \in [Callers -> Ops]
    /\ todo \in [Callers -> Seq(Steps)]
    /\ seen \in [Callers -> View]
    /\ plan \in [Callers -> Plans]
    /\ tries \in [Callers -> 0..Retries]
    /\ result \in [Callers -> Results]
    /\ calls \in [Callers -> Nat] /\ \A c \in Callers : calls[c] <= MaxCalls[c]
FoundOK == DOMAIN found = Callers /\ \A c \in Callers : IsTable(found[c])

\* A script ends in its decision or in its verdict, and has neither elsewhere.
LastStep(c) == todo[c][Len(todo[c])]
Deciding(c) == todo[c] # <<>> /\ LastStep(c) = "decide"
Decided(c) == todo[c] # <<>> /\ LastStep(c) = "verify"
Ahead(c, w) == \E i \in DOMAIN todo[c] : todo[c][i] = w

Scripted(c) ==
    /\ \A i \in DOMAIN todo[c] :
          /\ todo[c][i] \in {"decide", "verify"} <=> i = Len(todo[c])
          /\ todo[c][i] \in {"mode", "allowed"} => Membership(op[c])
    /\ ~Decided(c) => plan[c] = Nothing

\* On a model whose membership the switchport columns own nobody writes the
\* port lists, and a port untagged in a VLAN is a member of it.
Nested(t) == \A v \in DOMAIN t : t[v].untagged \subseteq t[v].member
Owned(c) ==
    \A i \in DOMAIN plan[c].pdus : \A j \in DOMAIN plan[c].pdus[i] :
        plan[c].pdus[i][j].col \notin {"egress", "untagged"}
Mirrored ==
    model.vlanWrite = "switchport" =>
        Nested(vlans) /\ \A c \in Callers : Nested(found[c]) /\ Owned(c)

Shaped == SwitchOK /\ CallsOK /\ FoundOK /\ Mirrored /\ \A c \in Callers : Scripted(c)

\* What a view holds of a VLAN table.
NamesSeen(saw, t) ==
    \A v \in VlanIds : saw.names[v] = IF v \in DOMAIN t THEN t[v].name ELSE "absent"
MembersSeen(saw, t) ==
    \A v \in VlanIds : saw.member[v] = IF v \in DOMAIN t THEN t[v].member ELSE {}
UntaggedSeen(saw, t) ==
    \A v \in VlanIds : saw.untagged[v] = IF v \in DOMAIN t THEN t[v].untagged ELSE {}
PvidsSeen(saw) == saw.pvid = {<<p, pvid[p]>> : p \in Ports}

\* What the walks taken so far have read is what the switch holds.
Read(c) ==
    /\ op[c].kind = "pvid" \/ Ahead(c, "names") \/ NamesSeen(seen[c], vlans)
    /\ Membership(op[c]) =>
          /\ Ahead(c, "egress") \/ MembersSeen(seen[c], vlans)
          /\ Ahead(c, "untagged") \/ UntaggedSeen(seen[c], vlans)
    /\ op[c].kind = "pvid" => Ahead(c, "pvids") \/ PvidsSeen(seen[c])
ReadFirst(c) ==
    /\ vlans = found[c]
    /\ Ahead(c, "names") \/ NamesSeen(seen[c], vlans)
    /\ Membership(op[c]) =>
          /\ Ahead(c, "egress") \/ MembersSeen(seen[c], vlans)
          /\ Ahead(c, "untagged") \/ UntaggedSeen(seen[c], vlans)
Unread(c) ==
    /\ op[c].kind # "pvid" => Ahead(c, "names")
    /\ Membership(op[c]) => Ahead(c, "egress") /\ Ahead(c, "untagged")
    /\ op[c].kind = "pvid" => Ahead(c, "pvids")

\* What a membership write expects to read back, dialect by dialect.
ExpectedOf(saw, o) ==
    IF ViaSwitchport(o) THEN <<WantTagged(saw, o), {NativeVlan(saw, o)}>>
    ELSE <<NewMembers(saw, o), NewUntagged(saw, o)>>

\* The view a decision was taken on.
DecidedOn(saw, c) ==
    LET o == op[c] IN
    /\ NamesSeen(saw, found[c])
    /\ Membership(o) => MembersSeen(saw, found[c]) /\ UntaggedSeen(saw, found[c])
    /\ ~Missing(saw, o)
    /\ ~(ViaSwitchport(o) /\ Inexpressible(saw, o))
    /\ Membership(o) => plan[c].expected = ExpectedOf(saw, o)

\* Every other port, and every other VLAN of a port list, is as it was found.
OthersKept(c) ==
    LET o == op[c] IN
    /\ DOMAIN vlans = DOMAIN found[c]
    /\ \A v \in DOMAIN vlans, p \in Ports :
          p # o.port \/ (~ViaSwitchport(o) /\ v # o.vlan) =>
             /\ p \in vlans[v].member <=> p \in found[c][v].member
             /\ p \in vlans[v].untagged <=> p \in found[c][v].untagged

\* The PDUs of a plan, dialect by dialect.
Egress(saw, o) == [col |-> "egress", vlan |-> o.vlan, ports |-> NewMembers(saw, o)]
Untagged(saw, o) == [col |-> "untagged", vlan |-> o.vlan, ports |-> NewUntagged(saw, o)]
Allowed(saw, o) == [col |-> "allowed", port |-> o.port, vlans |-> AllowedVlans(saw, o)]
Placed(at, saw, o) == [col |-> at, port |-> o.port, vlan |-> NativeVlan(saw, o)]
InMode(m, o) == [col |-> "mode", port |-> o.port, mode |-> m]
PlansOf(saw, o) ==
    IF ~ViaSwitchport(o)
    THEN IF model.split THEN <<<<Egress(saw, o)>>, <<Untagged(saw, o)>>>>
         ELSE <<<<Egress(saw, o), Untagged(saw, o)>>>>
    ELSE IF WantTagged(saw, o) # {}
    THEN <<<<Allowed(saw, o)>>, <<Placed("native", saw, o)>>, <<InMode("trunk", o)>>>>
    ELSE <<<<Placed("access", saw, o)>>, <<InMode("access", o)>>>>

\* The SETs still to send, and what those applied have done.
ListsWritten(c, saw) ==
    LET o == op[c]
        egress == Egress(saw, o)
        untagged == Untagged(saw, o)
    IN  \/ plan[c].pdus = <<<<egress, untagged>>>> /\ ~model.split
        \/ plan[c].pdus = <<<<egress>>, <<untagged>>>> /\ model.split
        \/ plan[c].pdus = <<<<untagged>>>> /\ vlans[o.vlan].member = NewMembers(saw, o)
        \/ plan[c].pdus = <<>> /\ vlans[o.vlan].member = NewMembers(saw, o)
              /\ vlans[o.vlan].untagged = NewUntagged(saw, o)

\* The port's row and its places in the VLANs agree.
InStep(p) ==
    \A v \in DOMAIN vlans :
        /\ p \in vlans[v].untagged <=> v \in UntaggedIn(port[p])
        /\ p \in vlans[v].member <=> v \in UntaggedIn(port[p]) \union TaggedIn(port[p])

TrunkWritten(c, saw) ==
    LET o == op[c]
        sp == port[o.port]
        native == NativeVlan(saw, o)
        allowed == AllowedVlans(saw, o)
        start == Allowed(saw, o)
        second == Placed("native", saw, o)
        third == InMode("trunk", o)
    IN  \/ plan[c].pdus = <<<<start>>, <<second>>, <<third>>>>
        \/ plan[c].pdus = <<<<second>>, <<third>>>> /\ sp.allowed = allowed
        \/ plan[c].pdus = <<<<third>>>> /\ sp.allowed = allowed /\ sp.native = native
        \/ plan[c].pdus = <<>> /\ sp.allowed = allowed /\ sp.native = native
              /\ sp.mode = "trunk" /\ InStep(o.port)
AccessWritten(c, saw) ==
    LET o == op[c]
        sp == port[o.port]
        native == NativeVlan(saw, o)
        start == Placed("access", saw, o)
        second == InMode("access", o)
    IN  \/ plan[c].pdus = <<<<start>>, <<second>>>>
        \/ plan[c].pdus = <<<<second>>>> /\ sp.access = native
        \/ plan[c].pdus = <<>> /\ sp.access = native /\ sp.mode = "access" /\ InStep(o.port)

\* The one PDU of every other operation.
OtherPdu(o) ==
    IF o.kind = "pvid" THEN <<[col |-> "pvid", port |-> o.port, vlan |-> o.vlan]>>
    ELSE IF o.kind = "create" THEN <<[col |-> "create", vlan |-> o.vlan],
                                     [col |-> "name", vlan |-> o.vlan, name |-> o.name]>>
    ELSE <<[col |-> "destroy", vlan |-> o.vlan]>>

OneWritten(c) ==
    LET o == op[c] IN
    \/ plan[c].pdus = <<OtherPdu(o)>>
    \/ plan[c].pdus = <<>> /\ Achieved(o)

Written(c, saw) ==
    LET o == op[c] IN
    /\ o.kind # "member" => OneWritten(c)
    /\ o.kind = "member" => OthersKept(c)
    /\ ViaPortLists(o) => ListsWritten(c, saw)
    /\ ViaSwitchport(o) =>
          IF WantTagged(saw, o) # {} THEN TrunkWritten(c, saw) ELSE AccessWritten(c, saw)

Undisturbed(c) ==
    /\ Deciding(c) => ReadFirst(c)
    /\ Decided(c) =>
          /\ plan[c].pdus # <<>> => Unread(c)
          /\ plan[c].pdus = <<>> => Read(c)
          /\ \E saw \in View : DecidedOn(saw, c) /\ Written(c, saw)

IInv == Shaped /\ \A c \in Callers : ~Disturbed(c) => Undisturbed(c)

-----------------------------------------------------------------------------
(* Scripts and PDUs as sequences. *)

\* Sequences of one, two and three, as the plans are.
LEMMA Single ==
    ASSUME NEW a
    PROVE  /\ Len(<<a>>) = 1 /\ <<a>>[1] = a /\ <<a>> # <<>> /\ DOMAIN <<a>> = {1}
           /\ Head(<<a>>) = a /\ Tail(<<a>>) = <<>>
OBVIOUS

\* A PDU of two varbinds, a plan of two PDUs.
LEMMA Pair ==
    ASSUME NEW a, NEW b
    PROVE  /\ Len(<<a, b>>) = 2 /\ <<a, b>>[1] = a /\ <<a, b>>[2] = b
           /\ DOMAIN <<a, b>> = {1, 2} /\ <<a, b>> # <<>>
           /\ Head(<<a, b>>) = a /\ Tail(<<a, b>>) = <<b>>
OBVIOUS

\* A plan of three PDUs (setVlanSwitchport for a trunk).
LEMMA Triple ==
    ASSUME NEW a, NEW b, NEW d
    PROVE  /\ Len(<<a, b, d>>) = 3 /\ DOMAIN <<a, b, d>> = {1, 2, 3} /\ <<a, b, d>> # <<>>
           /\ <<a, b, d>>[1] = a /\ <<a, b, d>>[2] = b /\ <<a, b, d>>[3] = d
           /\ Head(<<a, b, d>>) = a /\ Tail(<<a, b, d>>) = <<b, d>>
OBVIOUS

\* What is in a sequence without its head.
LEMMA TailHas ==
    ASSUME NEW S, NEW s \in Seq(S), s # <<>>
    PROVE  /\ Tail(s) \in Seq(S) /\ Head(s) \in S /\ Head(s) = s[1] /\ 1 \in DOMAIN s
           /\ Len(Tail(s)) = Len(s) - 1 /\ Len(s) \in Nat \ {0}
           /\ DOMAIN s = 1..Len(s) /\ DOMAIN Tail(s) = 1..(Len(s) - 1)
           /\ \A i \in DOMAIN Tail(s) : i + 1 \in DOMAIN s /\ Tail(s)[i] = s[i + 1]
           /\ \A i \in DOMAIN s : i # 1 => i - 1 \in DOMAIN Tail(s) /\ s[i] = Tail(s)[i - 1]
OBVIOUS

\* A script with one more step at its end.
LEMMA LastOf ==
    ASSUME NEW S, NEW s \in Seq(S), NEW w \in S
    PROVE  /\ s \o <<w>> \in Seq(S) /\ Len(s \o <<w>>) = Len(s) + 1
           /\ DOMAIN (s \o <<w>>) = 1..(Len(s) + 1) /\ DOMAIN s = 1..Len(s) /\ Len(s) \in Nat
           /\ (s \o <<w>>)[Len(s) + 1] = w /\ s \o <<w>> # <<>>
           /\ \A i \in DOMAIN s : (s \o <<w>>)[i] = s[i]
OBVIOUS

-----------------------------------------------------------------------------
(* The agent. *)

\* The fields an operation of each kind has.
LEMMA OpFields ==
    ASSUME NEW o \in Ops
    PROVE  /\ o.kind \in {"member", "pvid", "create", "delete"}
           /\ o.vlan \in VlanIds /\ o.force \in BOOLEAN
           /\ o.kind \in {"member", "pvid"} => o.port \in Ports
           /\ o.kind = "member" => o.mode \in Modes
           /\ o.kind = "create" => o.name \in Names
<1>1. o \in Operation
  BY VlanAssumption DEF VlanAssumption
<1>2. CASE o \in MemberOp
  BY <1>2 DEF MemberOp
<1>3. CASE o \in PvidOp
  BY <1>3 DEF PvidOp
<1>4. CASE o \in CreateOp
  BY <1>4 DEF CreateOp
<1>5. CASE o \in DeleteOp
  BY <1>5 DEF DeleteOp
<1> QED
  BY <1>1, <1>2, <1>3, <1>4, <1>5 DEF Operation

\* The fields a varbind of each column has.
LEMMA VarbindFields ==
    ASSUME NEW vb \in Varbind
    PROVE  /\ vb.col \in {"egress", "untagged", "allowed", "native", "access", "pvid", "mode",
                          "create", "destroy", "name"}
           /\ vb.col \in {"egress", "untagged"} => vb.vlan \in VlanIds /\ vb.ports \in SUBSET Ports
           /\ vb.col = "allowed" => vb.port \in Ports /\ vb.vlans \in SUBSET VlanIds
           /\ vb.col \in {"native", "access", "pvid"} => vb.port \in Ports /\ vb.vlan \in VlanIds
           /\ vb.col = "mode" => vb.port \in Ports /\ vb.mode \in {"access", "trunk"}
           /\ vb.col \in {"create", "destroy", "name"} => vb.vlan \in VlanIds
           /\ vb.col = "name" => vb.name \in Names
<1>1. CASE vb \in [col : {"egress", "untagged"}, vlan : VlanIds, ports : SUBSET Ports]
  BY <1>1
<1>2. CASE vb \in [col : {"allowed"}, port : Ports, vlans : SUBSET VlanIds]
  BY <1>2
<1>3. CASE vb \in [col : {"native", "access", "pvid"}, port : Ports, vlan : VlanIds]
  BY <1>3
<1>4. CASE vb \in [col : {"mode"}, port : Ports, mode : {"access", "trunk"}]
  BY <1>4
<1>5. CASE vb \in [col : {"create", "destroy"}, vlan : VlanIds]
  BY <1>5
<1>6. CASE vb \in [col : {"name"}, vlan : VlanIds, name : Names]
  BY <1>6
<1> QED
  BY <1>1, <1>2, <1>3, <1>4, <1>5, <1>6 DEF Varbind

\* What applySwitchport derives from each mode.
LEMMA PlacesOf ==
    ASSUME NEW sp
    PROVE  /\ sp.mode = "access" => UntaggedIn(sp) = {sp.access} /\ TaggedIn(sp) = {}
           /\ sp.mode = "trunk" => /\ UntaggedIn(sp) = {sp.native}
                                   /\ TaggedIn(sp) = sp.allowed \ {sp.native}
           /\ sp.mode = "general" => /\ UntaggedIn(sp) = sp.untagged
                                     /\ TaggedIn(sp) = sp.tagged \ sp.untagged
<1>1. /\ sp.mode = "trunk" => sp.mode # "access"
      /\ sp.mode = "general" => sp.mode # "access" /\ sp.mode # "trunk"
  OBVIOUS
<1> QED
  BY <1>1, Zenon DEF UntaggedIn, TaggedIn

\* A port's row names the VLAN its PVID follows (applySwitchport).
LEMMA DerivedPvidType ==
    ASSUME NEW old \in VlanIds, NEW sp \in Switchport
    PROVE  DerivedPvid(old, sp) \in VlanIds
<1>1. /\ sp.mode \in {"access", "trunk", "general"}
      /\ sp.access \in VlanIds /\ sp.native \in VlanIds
  BY DEF Switchport
<1>2. /\ sp.mode = "trunk" => sp.mode # "access"
      /\ sp.mode = "general" => sp.mode # "access" /\ sp.mode # "trunk"
  OBVIOUS
<1>3. DerivedPvid(old, sp) \in {sp.access, sp.native, old}
  <2>1. CASE sp.mode = "access"
    BY <2>1, Zenon DEF DerivedPvid
  <2>2. CASE sp.mode = "trunk"
    BY <1>2, <2>2, Zenon DEF DerivedPvid
  <2>3. CASE sp.mode = "general"
    BY <1>2, <2>3, Zenon DEF DerivedPvid
  <2> QED
    BY <1>1, <2>1, <2>2, <2>3
<1> QED
  BY <1>1, <1>3

\* A row of the VLAN table, field by field.
LEMMA RowFields ==
    ASSUME NEW r
    PROVE  /\ r \in Row => /\ r.name \in Names \union {NoName} /\ r.member \subseteq Ports
                           /\ r.untagged \subseteq Ports
                           /\ r = [name |-> r.name, member |-> r.member, untagged |-> r.untagged]
           /\ \A n \in Names \union {NoName}, m \in SUBSET Ports, u \in SUBSET Ports :
                 [name |-> n, member |-> m, untagged |-> u] \in Row
BY DEF Row

\* A port derived into a table: its own places change, nobody else's.
LEMMA DerivedIs ==
    ASSUME NEW t, IsTable(t), NEW p \in Ports, NEW sp
    PROVE  /\ IsTable(Derived(t, p, sp)) /\ DOMAIN Derived(t, p, sp) = DOMAIN t
           /\ \A v \in DOMAIN t, q \in Ports :
                 /\ q \in Derived(t, p, sp)[v].member <=>
                       IF q = p THEN v \in UntaggedIn(sp) \union TaggedIn(sp)
                       ELSE q \in t[v].member
                 /\ q \in Derived(t, p, sp)[v].untagged <=>
                       IF q = p THEN v \in UntaggedIn(sp) ELSE q \in t[v].untagged
<1> DEFINE U == UntaggedIn(sp)
           T == TaggedIn(sp)
           d == Derived(t, p, sp)
           m(v) == IF v \in U \union T THEN t[v].member \union {p} ELSE t[v].member \ {p}
           u(v) == IF v \in U THEN t[v].untagged \union {p} ELSE t[v].untagged \ {p}
<1>1. d = [v \in DOMAIN t |-> [t[v] EXCEPT !.member = m(v), !.untagged = u(v)]]
  BY DEF Derived
<1> HIDE DEF d, U, T
<1>2. DOMAIN t \subseteq VlanIds /\ t \in [DOMAIN t -> Row]
  BY DEF IsTable
<1>3. DOMAIN d = DOMAIN t
  BY <1>1
<1>4. ASSUME NEW v \in DOMAIN t
      PROVE  /\ d[v] \in Row /\ d[v].member = m(v) /\ d[v].untagged = u(v)
  <2>1. t[v] \in Row
    BY <1>2
  <2>2. d[v] = [t[v] EXCEPT !.member = m(v), !.untagged = u(v)]
    BY <1>1
  <2>3. m(v) \in SUBSET Ports /\ u(v) \in SUBSET Ports
    BY <2>1, RowFields
  <2> HIDE DEF m, u
  <2>4. d[v] = [name |-> t[v].name, member |-> m(v), untagged |-> u(v)]
    BY <2>1, <2>2 DEF Row
  <2> QED
    BY <2>1, <2>3, <2>4, RowFields
<1>5. IsTable(d)
  <2>1. d \in [DOMAIN t -> Row]
    BY <1>1, <1>4
  <2> QED
    BY <1>2, <1>3, <2>1 DEF IsTable
<1>6. ASSUME NEW v \in DOMAIN t, NEW q \in Ports
      PROVE  /\ q \in d[v].member <=> IF q = p THEN v \in U \union T ELSE q \in t[v].member
             /\ q \in d[v].untagged <=> IF q = p THEN v \in U ELSE q \in t[v].untagged
  BY <1>4
<1> QED
  BY <1>3, <1>5, <1>6 DEF d, U, T
\* State.ApplyWrite branches on the column.
LEMMA ApplyIs ==
    ASSUME NEW s, NEW vb
    PROVE  /\ vb.col = "egress" => ApplyWrite(s, vb) = ReplaceMembers(s, vb.vlan, vb.ports)
           /\ vb.col = "untagged" => ApplyWrite(s, vb) = ReplaceUntagged(s, vb.vlan, vb.ports)
           /\ vb.col = "allowed" => ApplyWrite(s, vb) =
                 Replug(s, vb.port, [s.port[vb.port] EXCEPT !.allowed = vb.vlans])
           /\ vb.col = "native" => ApplyWrite(s, vb) =
                 Replug(s, vb.port, [s.port[vb.port] EXCEPT !.native = vb.vlan])
           /\ vb.col = "access" => ApplyWrite(s, vb) =
                 Replug(s, vb.port, [s.port[vb.port] EXCEPT !.access = vb.vlan])
           /\ vb.col = "mode" => ApplyWrite(s, vb) =
                 Replug(s, vb.port, [s.port[vb.port] EXCEPT !.mode = vb.mode])
           /\ vb.col = "pvid" => ApplyWrite(s, vb) = [s EXCEPT !.pvid[vb.port] = vb.vlan]
           /\ vb.col = "create" => ApplyWrite(s, vb) = WithRow(s, vb.vlan, NoName)
           /\ vb.col = "name" => ApplyWrite(s, vb) = WithRow(s, vb.vlan, vb.name)
           /\ vb.col = "destroy" => ApplyWrite(s, vb) =
                 [s EXCEPT !.vlans = [x \in DOMAIN s.vlans \ {vb.vlan} |-> s.vlans[x]]]
<1> DEFINE k == vb.col
<1>1. /\ k = "untagged" => k # "egress"
      /\ k = "allowed" => k # "egress" /\ k # "untagged"
      /\ k = "native" => k # "egress" /\ k # "untagged" /\ k # "allowed"
      /\ k = "access" => k # "egress" /\ k # "untagged" /\ k # "allowed" /\ k # "native"
      /\ k = "mode" => /\ k # "egress" /\ k # "untagged" /\ k # "allowed" /\ k # "native"
                       /\ k # "access"
      /\ k = "pvid" => /\ k # "egress" /\ k # "untagged" /\ k # "allowed" /\ k # "native"
                       /\ k # "access" /\ k # "mode"
  OBVIOUS
<1>2. /\ k = "create" => /\ k # "egress" /\ k # "untagged" /\ k # "allowed" /\ k # "native"
                         /\ k # "access" /\ k # "mode" /\ k # "pvid"
      /\ k = "name" => /\ k # "egress" /\ k # "untagged" /\ k # "allowed" /\ k # "native"
                       /\ k # "access" /\ k # "mode" /\ k # "pvid" /\ k # "create"
      /\ k = "destroy" => /\ k # "egress" /\ k # "untagged" /\ k # "allowed" /\ k # "native"
                          /\ k # "access" /\ k # "mode" /\ k # "pvid" /\ k # "create"
                          /\ k # "name"
  OBVIOUS
<1>3. CASE k = "egress"
  BY <1>3, Zenon DEF ApplyWrite
<1>4. CASE k = "untagged"
  BY <1>1, <1>4, Zenon DEF ApplyWrite
<1>5. CASE k = "allowed"
  BY <1>1, <1>5, Zenon DEF ApplyWrite
<1>6. CASE k = "native"
  BY <1>1, <1>6, Zenon DEF ApplyWrite
<1>7. CASE k = "access"
  BY <1>1, <1>7, Zenon DEF ApplyWrite
<1>8. CASE k = "mode"
  BY <1>1, <1>8, Zenon DEF ApplyWrite
<1>9. CASE k = "pvid"
  BY <1>1, <1>9, Zenon DEF ApplyWrite
<1>10. CASE k = "create"
  BY <1>2, <1>10, Zenon DEF ApplyWrite
<1>11. CASE k = "name"
  BY <1>2, <1>11, Zenon DEF ApplyWrite
<1>12. CASE k = "destroy"
  BY <1>2, <1>12, Zenon DEF ApplyWrite
<1> QED
  BY <1>3, <1>4, <1>5, <1>6, <1>7, <1>8, <1>9, <1>10, <1>11, <1>12, Zenon

\* A state the switch may be in while it takes a PDU.
IsSwitch(s) ==
    /\ DOMAIN s = {"vlans", "pvid", "port", "written"}
    /\ IsTable(s.vlans)
    /\ s.pvid \in [Ports -> VlanIds]
    /\ s.port \in [Ports -> Switchport]

\* applySwitchport: one port's row, and the table that follows from it.
LEMMA ReplugIs ==
    ASSUME NEW s, IsSwitch(s), NEW p \in Ports, NEW sp \in Switchport
    PROVE  /\ IsSwitch(Replug(s, p, sp))
           /\ Replug(s, p, sp).vlans = Derived(s.vlans, p, sp)
           /\ Replug(s, p, sp).port = [s.port EXCEPT ![p] = sp]
<1> DEFINE d == Derived(s.vlans, p, sp)
           x == DerivedPvid(s.pvid[p], sp)
           r == Replug(s, p, sp)
<1>1. /\ DOMAIN s = {"vlans", "pvid", "port", "written"} /\ IsTable(s.vlans)
      /\ s.pvid \in [Ports -> VlanIds] /\ s.port \in [Ports -> Switchport]
  BY DEF IsSwitch
<1>2. r = [s EXCEPT !.port[p] = sp, !.vlans = d, !.pvid[p] = x]
  BY DEF Replug
<1>3. IsTable(d)
  BY <1>1, DerivedIs
<1>4. x \in VlanIds
  BY <1>1, DerivedPvidType
<1> HIDE DEF d, x, r
<1>5. /\ DOMAIN r = DOMAIN s /\ r.vlans = d
      /\ r.port = [s.port EXCEPT ![p] = sp] /\ r.pvid = [s.pvid EXCEPT ![p] = x]
  BY <1>1, <1>2
<1>6. r.port \in [Ports -> Switchport] /\ r.pvid \in [Ports -> VlanIds]
  BY <1>1, <1>4, <1>5
<1> QED
  BY <1>1, <1>3, <1>5, <1>6 DEF IsSwitch, d, r

\* One column of a switchport row written.
LEMMA SwitchportSet ==
    ASSUME NEW sp \in Switchport
    PROVE  /\ \A x \in SUBSET VlanIds : [sp EXCEPT !.allowed = x] \in Switchport
           /\ \A x \in VlanIds : /\ [sp EXCEPT !.native = x] \in Switchport
                                 /\ [sp EXCEPT !.access = x] \in Switchport
           /\ \A x \in {"access", "trunk"} : [sp EXCEPT !.mode = x] \in Switchport
BY DEF Switchport

\* A table with one row put in its place.
LEMMA TableSet ==
    ASSUME NEW t, IsTable(t), NEW v \in DOMAIN t, NEW r \in Row
    PROVE  /\ IsTable([t EXCEPT ![v] = r]) /\ DOMAIN [t EXCEPT ![v] = r] = DOMAIN t
           /\ [t EXCEPT ![v] = r][v] = r
           /\ \A w \in DOMAIN t : w # v => [t EXCEPT ![v] = r][w] = t[w]
BY DEF IsTable

\* A SET of the egress column: one VLAN's members, its untagged ports among them.
LEMMA MembersIs ==
    ASSUME NEW s, IsSwitch(s), NEW v, NEW ports \in SUBSET Ports,
           NEW r, r = ReplaceMembers(s, v, ports)
    PROVE  /\ IsSwitch(r) /\ DOMAIN r.vlans = DOMAIN s.vlans
           /\ r.port = s.port /\ r.pvid = s.pvid
           /\ \A w \in DOMAIN s.vlans : w # v => r.vlans[w] = s.vlans[w]
           /\ v \in DOMAIN s.vlans =>
                 /\ r.vlans[v].member = ports
                 /\ model.split =>
                       r.vlans[v].untagged = s.vlans[v].untagged \union (ports \ s.vlans[v].member)
                 /\ ~model.split =>
                       r.vlans[v].untagged = s.vlans[v].untagged /\ r.written = s.written
<1> DEFINE row == s.vlans[v]
           more == row.untagged \union (ports \ row.member)
<1>1. /\ DOMAIN s = {"vlans", "pvid", "port", "written"} /\ IsTable(s.vlans)
      /\ s.pvid \in [Ports -> VlanIds] /\ s.port \in [Ports -> Switchport]
  BY DEF IsSwitch
<1>2. CASE v \notin DOMAIN s.vlans
  <2>1. r = s
    BY <1>2 DEF ReplaceMembers
  <2> QED
    BY <1>2, <2>1
<1>3. CASE v \in DOMAIN s.vlans /\ model.split
  <2> DEFINE new == [name |-> row.name, member |-> ports, untagged |-> more]
  <2>1. row \in Row
    BY <1>1, <1>3 DEF IsTable
  <2>2. new \in Row
    BY <2>1, RowFields
  <2>3. r = [s EXCEPT !.vlans[v].untagged = more, !.vlans[v].member = ports,
                      !.written = s.written \union {v}]
    BY <1>1, <1>3 DEF ReplaceMembers
  <2> DEFINE half == [row EXCEPT !.untagged = more]
  <2> HIDE DEF more, row
  <2>4. half = [name |-> row.name, member |-> row.member, untagged |-> more]
    BY <2>1 DEF Row
  <2> HIDE DEF half
  <2>5. [half EXCEPT !.member = ports] = new
    BY <2>4
  <2>6. r.vlans = [s.vlans EXCEPT ![v] = new]
    BY <1>1, <1>3, <2>3, <2>5 DEF half, row
  <2>7. /\ DOMAIN r = DOMAIN s /\ r.port = s.port /\ r.pvid = s.pvid
    BY <1>1, <2>3
  <2> HIDE DEF new, row
  <2>8. /\ IsTable(r.vlans) /\ DOMAIN r.vlans = DOMAIN s.vlans /\ r.vlans[v] = new
        /\ \A w \in DOMAIN s.vlans : w # v => r.vlans[w] = s.vlans[w]
    BY <1>1, <1>3, <2>2, <2>6, TableSet
  <2>9. new.member = ports /\ new.untagged = more
    BY DEF new
  <2>10. IsSwitch(r)
    BY <1>1, <2>7, <2>8 DEF IsSwitch
  <2>11. model.split
    BY <1>3
  <2> QED
    BY <2>7, <2>8, <2>9, <2>10, <2>11, Zenon DEF row, more
<1>4. CASE v \in DOMAIN s.vlans /\ ~model.split
  <2> DEFINE new == [name |-> row.name, member |-> ports, untagged |-> row.untagged]
  <2>1. row \in Row
    BY <1>1, <1>4 DEF IsTable
  <2>2. new \in Row
    BY <2>1, RowFields
  <2>3. r = [s EXCEPT !.vlans[v].member = ports]
    BY <1>1, <1>4 DEF ReplaceMembers
  <2>4. [row EXCEPT !.member = ports] = new
    BY <2>1 DEF Row
  <2>5. r.vlans = [s.vlans EXCEPT ![v] = new]
    BY <1>1, <2>3, <2>4
  <2>6. DOMAIN r = DOMAIN s /\ r.port = s.port /\ r.pvid = s.pvid /\ r.written = s.written
    BY <1>1, <2>3
  <2> HIDE DEF new, row
  <2>7. /\ IsTable(r.vlans) /\ DOMAIN r.vlans = DOMAIN s.vlans /\ r.vlans[v] = new
        /\ \A w \in DOMAIN s.vlans : w # v => r.vlans[w] = s.vlans[w]
    BY <1>1, <1>4, <2>2, <2>5, TableSet
  <2>8. new.member = ports /\ new.untagged = row.untagged
    BY DEF new
  <2>9. IsSwitch(r)
    BY <1>1, <2>6, <2>7 DEF IsSwitch
  <2>10. ~model.split
    BY <1>4
  <2> QED
    BY <2>6, <2>7, <2>8, <2>9, <2>10, Zenon DEF row
<1> QED
  BY <1>2, <1>3, <1>4, Zenon

\* A SET of the untagged column: one VLAN's untagged ports.
LEMMA UntaggedIs ==
    ASSUME NEW s, IsSwitch(s), NEW v, NEW ports \in SUBSET Ports
    PROVE  LET r == ReplaceUntagged(s, v, ports) IN
           /\ IsSwitch(r) /\ DOMAIN r.vlans = DOMAIN s.vlans
           /\ r.port = s.port /\ r.pvid = s.pvid
           /\ \A w \in DOMAIN s.vlans : /\ w # v => r.vlans[w] = s.vlans[w]
                                        /\ r.vlans[w].member = s.vlans[w].member
           /\ v \in DOMAIN s.vlans /\ v \notin s.written => r.vlans[v].untagged = ports
<1> DEFINE r == ReplaceUntagged(s, v, ports)
           row == s.vlans[v]
<1>1. /\ DOMAIN s = {"vlans", "pvid", "port", "written"} /\ IsTable(s.vlans)
      /\ s.pvid \in [Ports -> VlanIds] /\ s.port \in [Ports -> Switchport]
  BY DEF IsSwitch
<1>2. CASE v \notin DOMAIN s.vlans \/ v \in s.written
  <2>1. r = s
    BY <1>2 DEF ReplaceUntagged
  <2> QED
    BY <1>2, <2>1
<1>3. CASE ~(v \notin DOMAIN s.vlans \/ v \in s.written)
  <2> DEFINE new == [name |-> row.name, member |-> row.member, untagged |-> ports]
  <2>1. row \in Row
    BY <1>1, <1>3 DEF IsTable
  <2>2. new \in Row
    BY <2>1, RowFields
  <2>3. r = [s EXCEPT !.vlans[v].untagged = ports]
    BY <1>1, <1>3 DEF ReplaceUntagged
  <2>4. [row EXCEPT !.untagged = ports] = new
    BY <2>1 DEF Row
  <2>5. r.vlans = [s.vlans EXCEPT ![v] = new]
    BY <1>1, <2>3, <2>4
  <2>6. DOMAIN r = DOMAIN s /\ r.port = s.port /\ r.pvid = s.pvid
    BY <1>1, <2>3
  <2> HIDE DEF new, r, row
  <2>7. /\ IsTable(r.vlans) /\ DOMAIN r.vlans = DOMAIN s.vlans /\ r.vlans[v] = new
        /\ \A w \in DOMAIN s.vlans : w # v => r.vlans[w] = s.vlans[w]
    BY <1>1, <1>3, <2>2, <2>5, TableSet
  <2>8. new.untagged = ports /\ new.member = row.member
    BY DEF new
  <2>9. IsSwitch(r)
    BY <1>1, <2>6, <2>7 DEF IsSwitch
  <2>10. \A w \in DOMAIN s.vlans : r.vlans[w].member = s.vlans[w].member
    BY <2>7, <2>8 DEF row
  <2> QED
    BY <2>6, <2>7, <2>8, <2>9, <2>10, Zenon DEF r, row
<1> QED
  BY <1>2, <1>3, Zenon
\* A SET of RowStatus or Name: one VLAN's row is there.
LEMMA WithRowIs ==
    ASSUME NEW s, IsSwitch(s), NEW v \in VlanIds, NEW name \in Names \union {NoName}
    PROVE  LET r == WithRow(s, v, name) IN
           /\ IsSwitch(r) /\ v \in DOMAIN r.vlans
           /\ Nested(s.vlans) => Nested(r.vlans)
           /\ name # NoName => r.vlans[v].name = name
<1> DEFINE r == WithRow(s, v, name)
           t == s.vlans
           empty == [name |-> name, member |-> {}, untagged |-> {}]
           row(x) == IF x \in DOMAIN t
                     THEN (IF x = v /\ name # NoName THEN [t[x] EXCEPT !.name = name] ELSE t[x])
                     ELSE [NoVlan EXCEPT !.name = name]
           new == [x \in DOMAIN t \union {v} |-> row(x)]
<1>1. /\ DOMAIN s = {"vlans", "pvid", "port", "written"} /\ IsTable(t)
      /\ s.pvid \in [Ports -> VlanIds] /\ s.port \in [Ports -> Switchport]
  BY DEF IsSwitch
<1>2. r = [s EXCEPT !.vlans = new]
  BY <1>1 DEF WithRow
<1>3. [NoVlan EXCEPT !.name = name] = empty
  BY DEF NoVlan
<1>4. empty \in Row /\ empty.untagged \subseteq empty.member /\ empty.name = name
  BY RowFields
<1>5. ASSUME NEW x \in DOMAIN t \union {v}
      PROVE  /\ row(x) \in Row
             /\ x = v /\ name # NoName => row(x).name = name
             /\ x \in DOMAIN t => row(x).member = t[x].member /\ row(x).untagged = t[x].untagged
             /\ x \notin DOMAIN t => row(x).untagged \subseteq row(x).member
  <2>1. CASE x \notin DOMAIN t
    BY <1>3, <1>4, <2>1
  <2>2. CASE x \in DOMAIN t
    <3>1. t[x] \in Row
      BY <1>1, <2>2 DEF IsTable
    <3>2. CASE x = v /\ name # NoName
      <4>1. row(x) = [t[x] EXCEPT !.name = name]
        BY <2>2, <3>2
      <4>2. row(x) = [name |-> name, member |-> t[x].member, untagged |-> t[x].untagged]
        BY <3>1, <4>1 DEF Row
      <4> HIDE DEF row
      <4> QED
        BY <2>2, <3>1, <4>2, RowFields
    <3>3. CASE ~(x = v /\ name # NoName)
      BY <2>2, <3>1, <3>3
    <3> QED
      BY <3>2, <3>3, Zenon
  <2> QED
    BY <2>1, <2>2, Zenon
<1> HIDE DEF row
<1>6. new \in [DOMAIN t \union {v} -> Row]
  BY <1>5
<1>7. DOMAIN new = DOMAIN t \union {v} /\ \A x \in DOMAIN new : new[x] = row(x)
  OBVIOUS
<1> HIDE DEF new, r, empty
<1>8. IsTable(new)
  BY <1>1, <1>6, <1>7 DEF IsTable
<1>9. DOMAIN r = DOMAIN s /\ r.vlans = new /\ r.port = s.port /\ r.pvid = s.pvid
  BY <1>1, <1>2
<1>10. IsSwitch(r)
  BY <1>1, <1>8, <1>9 DEF IsSwitch
<1>11. v \in DOMAIN r.vlans /\ (name # NoName => r.vlans[v].name = name)
  BY <1>5, <1>7, <1>9
<1>12. Nested(t) => Nested(new)
  BY <1>5, <1>7 DEF Nested
<1> QED
  BY <1>9, <1>10, <1>11, <1>12 DEF r, t

\* A SET of RowStatus destroy: one VLAN less.
LEMMA DestroyIs ==
    ASSUME NEW s, IsSwitch(s), NEW v
    PROVE  LET r == [s EXCEPT !.vlans = [x \in DOMAIN s.vlans \ {v} |-> s.vlans[x]]] IN
           /\ IsSwitch(r) /\ v \notin DOMAIN r.vlans
           /\ Nested(s.vlans) => Nested(r.vlans)
<1> DEFINE t == [x \in DOMAIN s.vlans \ {v} |-> s.vlans[x]]
           r == [s EXCEPT !.vlans = t]
<1>1. /\ DOMAIN s = {"vlans", "pvid", "port", "written"} /\ IsTable(s.vlans)
      /\ s.pvid \in [Ports -> VlanIds] /\ s.port \in [Ports -> Switchport]
  BY DEF IsSwitch
<1>2. IsTable(t) /\ v \notin DOMAIN t
  BY <1>1 DEF IsTable
<1>3. Nested(s.vlans) => Nested(t)
  BY DEF Nested
<1> HIDE DEF t
<1>4. DOMAIN r = DOMAIN s /\ r.vlans = t /\ r.port = s.port /\ r.pvid = s.pvid
  BY <1>1
<1> HIDE DEF r
<1>5. IsSwitch(r)
  BY <1>1, <1>2, <1>4 DEF IsSwitch
<1> QED
  BY <1>2, <1>3, <1>4, <1>5 DEF r, t

\* A SET of the PVID column.
LEMMA PvidIs ==
    ASSUME NEW s, IsSwitch(s), NEW p \in Ports, NEW v \in VlanIds
    PROVE  LET r == [s EXCEPT !.pvid[p] = v] IN
           IsSwitch(r) /\ r.vlans = s.vlans /\ r.pvid[p] = v
<1> DEFINE r == [s EXCEPT !.pvid[p] = v]
<1>1. /\ DOMAIN s = {"vlans", "pvid", "port", "written"} /\ IsTable(s.vlans)
      /\ s.pvid \in [Ports -> VlanIds] /\ s.port \in [Ports -> Switchport]
  BY DEF IsSwitch
<1>2. /\ DOMAIN r = DOMAIN s /\ r.vlans = s.vlans /\ r.port = s.port
      /\ r.pvid = [s.pvid EXCEPT ![p] = v]
  BY <1>1
<1> HIDE DEF r
<1>3. r.pvid \in [Ports -> VlanIds] /\ r.pvid[p] = v
  BY <1>1, <1>2
<1>4. IsSwitch(r)
  BY <1>1, <1>2, <1>3 DEF IsSwitch
<1> QED
  BY <1>2, <1>3, <1>4 DEF r

\* The row a switchport SET leaves behind.
SetRow(s, vb) ==
    IF vb.col = "allowed" THEN [s.port[vb.port] EXCEPT !.allowed = vb.vlans]
    ELSE IF vb.col = "native" THEN [s.port[vb.port] EXCEPT !.native = vb.vlan]
    ELSE IF vb.col = "access" THEN [s.port[vb.port] EXCEPT !.access = vb.vlan]
    ELSE [s.port[vb.port] EXCEPT !.mode = vb.mode]
Plugs(vb) == vb.col \in {"allowed", "native", "access", "mode"}

\* A SET of a switchport column: the one row of its port.
LEMMA PlugIs ==
    ASSUME NEW s, IsSwitch(s), NEW vb \in Varbind, Plugs(vb)
    PROVE  /\ ApplyWrite(s, vb) = Replug(s, vb.port, SetRow(s, vb))
           /\ vb.port \in Ports /\ SetRow(s, vb) \in Switchport
<1>1. vb.port \in Ports
  BY VarbindFields DEF Plugs
<1>2. s.port[vb.port] \in Switchport
  BY <1>1 DEF IsSwitch
<1>3. CASE vb.col = "allowed"
  <2> DEFINE row == [s.port[vb.port] EXCEPT !.allowed = vb.vlans]
  <2>1. SetRow(s, vb) = row
    BY <1>3 DEF SetRow
  <2>2. vb.vlans \in SUBSET VlanIds
    BY <1>3, VarbindFields
  <2>3. row \in Switchport
    BY <1>2, <2>2, SwitchportSet
  <2>4. ApplyWrite(s, vb) = Replug(s, vb.port, row)
    BY <1>3, ApplyIs, Zenon
  <2> HIDE DEF row
  <2> QED
    BY <1>1, <2>1, <2>3, <2>4
<1>4. CASE vb.col = "native"
  <2> DEFINE row == [s.port[vb.port] EXCEPT !.native = vb.vlan]
  <2>1. SetRow(s, vb) = row
    BY <1>4 DEF SetRow
  <2>2. vb.vlan \in VlanIds
    BY <1>4, VarbindFields
  <2>3. row \in Switchport
    BY <1>2, <2>2, SwitchportSet
  <2>4. ApplyWrite(s, vb) = Replug(s, vb.port, row)
    BY <1>4, ApplyIs, Zenon
  <2> HIDE DEF row
  <2> QED
    BY <1>1, <2>1, <2>3, <2>4
<1>5. CASE vb.col = "access"
  <2> DEFINE row == [s.port[vb.port] EXCEPT !.access = vb.vlan]
  <2>1. SetRow(s, vb) = row
    BY <1>5 DEF SetRow
  <2>2. vb.vlan \in VlanIds
    BY <1>5, VarbindFields
  <2>3. row \in Switchport
    BY <1>2, <2>2, SwitchportSet
  <2>4. ApplyWrite(s, vb) = Replug(s, vb.port, row)
    BY <1>5, ApplyIs, Zenon
  <2> HIDE DEF row
  <2> QED
    BY <1>1, <2>1, <2>3, <2>4
<1>6. CASE vb.col = "mode"
  <2> DEFINE row == [s.port[vb.port] EXCEPT !.mode = vb.mode]
  <2>1. SetRow(s, vb) = row
    BY <1>6 DEF SetRow
  <2>2. vb.mode \in {"access", "trunk"}
    BY <1>6, VarbindFields
  <2>3. row \in Switchport
    BY <1>2, <2>2, SwitchportSet
  <2>4. ApplyWrite(s, vb) = Replug(s, vb.port, row)
    BY <1>6, ApplyIs, Zenon
  <2> HIDE DEF row
  <2> QED
    BY <1>1, <2>1, <2>3, <2>4
<1> QED
  BY <1>3, <1>4, <1>5, <1>6 DEF Plugs

\* A port that is untagged in a VLAN is a member of it, derived or not.
LEMMA DerivedNested ==
    ASSUME NEW t, IsTable(t), Nested(t), NEW p \in Ports, NEW sp
    PROVE  Nested(Derived(t, p, sp))
<1> DEFINE d == Derived(t, p, sp)
<1>1. /\ IsTable(d) /\ DOMAIN d = DOMAIN t
      /\ \A v \in DOMAIN t, q \in Ports :
            /\ q \in d[v].member <=> IF q = p THEN v \in UntaggedIn(sp) \union TaggedIn(sp)
                                     ELSE q \in t[v].member
            /\ q \in d[v].untagged <=> IF q = p THEN v \in UntaggedIn(sp) ELSE q \in t[v].untagged
  BY DerivedIs, Zenon
<1> HIDE DEF d
<1>2. ASSUME NEW v \in DOMAIN d, NEW q \in d[v].untagged
      PROVE  q \in d[v].member
  <2>1. q \in Ports
    BY <1>1 DEF IsTable, Row
  <2> QED
    BY <1>1, <2>1 DEF Nested
<1> QED
  BY <1>2 DEF Nested, d

\* Whatever a varbind says, the switch stays a switch.
LEMMA ApplyKeeps ==
    ASSUME NEW s, IsSwitch(s), NEW vb \in Varbind
    PROVE  /\ IsSwitch(ApplyWrite(s, vb))
           /\ vb.col \notin {"egress", "untagged"} /\ Nested(s.vlans) =>
                 Nested(ApplyWrite(s, vb).vlans)
<1> DEFINE r == ApplyWrite(s, vb)
<1>1. IsTable(s.vlans)
  BY DEF IsSwitch
<1>2. CASE vb.col = "egress"
  <2>1. r = ReplaceMembers(s, vb.vlan, vb.ports) /\ vb.ports \in SUBSET Ports
    BY <1>2, ApplyIs, VarbindFields
  <2> HIDE DEF r
  <2>2. IsSwitch(r)
    BY <2>1, MembersIs, Zenon
  <2> QED
    BY <1>2, <2>2 DEF r
<1>3. CASE vb.col = "untagged"
  <2>1. r = ReplaceUntagged(s, vb.vlan, vb.ports) /\ vb.ports \in SUBSET Ports
    BY <1>3, ApplyIs, VarbindFields
  <2> HIDE DEF r
  <2>2. IsSwitch(r)
    BY <2>1, UntaggedIs, Zenon
  <2> QED
    BY <1>3, <2>2 DEF r
<1>4. CASE Plugs(vb)
  <2>1. /\ r = Replug(s, vb.port, SetRow(s, vb))
        /\ vb.port \in Ports /\ SetRow(s, vb) \in Switchport
    BY <1>4, PlugIs
  <2> HIDE DEF r
  <2> DEFINE p == vb.port
             sp == SetRow(s, vb)
  <2> HIDE DEF p, sp
  <2>2. r = Replug(s, p, sp) /\ p \in Ports /\ sp \in Switchport
    BY <2>1 DEF p, sp
  <2>3. IsSwitch(Replug(s, p, sp)) /\ Replug(s, p, sp).vlans = Derived(s.vlans, p, sp)
    BY <2>2, ReplugIs
  <2>4. IsSwitch(r) /\ r.vlans = Derived(s.vlans, vb.port, SetRow(s, vb))
    BY <2>2, <2>3 DEF p, sp
  <2>5. Nested(s.vlans) => Nested(r.vlans)
    BY <1>1, <2>1, <2>4, DerivedNested
  <2> QED
    BY <2>4, <2>5 DEF r
<1>5. CASE vb.col = "pvid"
  <2>1. r = [s EXCEPT !.pvid[vb.port] = vb.vlan] /\ vb.port \in Ports /\ vb.vlan \in VlanIds
    BY <1>5, ApplyIs, VarbindFields
  <2>2. IsSwitch(r) /\ r.vlans = s.vlans
    BY <2>1, PvidIs
  <2> QED
    BY <2>2
<1>6. CASE vb.col = "create"
  <2>1. r = WithRow(s, vb.vlan, NoName) /\ vb.vlan \in VlanIds
    BY <1>6, ApplyIs, VarbindFields
  <2> QED
    BY <2>1, WithRowIs
<1>7. CASE vb.col = "name"
  <2>1. r = WithRow(s, vb.vlan, vb.name) /\ vb.vlan \in VlanIds /\ vb.name \in Names
    BY <1>7, ApplyIs, VarbindFields
  <2> QED
    BY <2>1, WithRowIs
<1>8. CASE vb.col = "destroy"
  <2>1. r = [s EXCEPT !.vlans = [x \in DOMAIN s.vlans \ {vb.vlan} |-> s.vlans[x]]]
    BY <1>8, ApplyIs, Zenon
  <2> HIDE DEF r
  <2>2. IsSwitch(r) /\ (Nested(s.vlans) => Nested(r.vlans))
    BY <2>1, DestroyIs, Zenon
  <2> QED
    BY <2>2 DEF r
<1> QED
  BY <1>2, <1>3, <1>4, <1>5, <1>6, <1>7, <1>8, VarbindFields DEF Plugs

-----------------------------------------------------------------------------
(* What the writer plans. *)

\* What a decision plans, operation by operation.
LEMMA PlanIs ==
    ASSUME NEW saw, NEW o
    PROVE  /\ ViaSwitchport(o) => Plan(saw, o) = PlanSwitchport(saw, o)
           /\ ViaPortLists(o) => Plan(saw, o) = PortLists(saw, o)
           /\ o.kind = "pvid" => Plan(saw, o) =
                 [Nothing EXCEPT
                     !.pdus = <<<<[col |-> "pvid", port |-> o.port, vlan |-> o.vlan]>>>>]
           /\ o.kind = "create" => Plan(saw, o) =
                 [Nothing EXCEPT !.pdus = <<<<[col |-> "create", vlan |-> o.vlan],
                                        [col |-> "name", vlan |-> o.vlan, name |-> o.name]>>>>]
           /\ o.kind = "delete" => Plan(saw, o) =
                 [Nothing EXCEPT !.pdus = <<<<[col |-> "destroy", vlan |-> o.vlan]>>>>]
<1>1. /\ o.kind = "pvid" => o.kind # "member"
      /\ o.kind = "create" => o.kind # "member" /\ o.kind # "pvid"
      /\ o.kind = "delete" => o.kind # "member" /\ o.kind # "pvid" /\ o.kind # "create"
  OBVIOUS
<1>2. o.kind # "member" => ~ViaPortLists(o) /\ ~ViaSwitchport(o)
  BY DEF Membership, ViaSwitchport, ViaPortLists
<1>3. CASE ViaSwitchport(o)
  <2>1. o.kind = "member"
    BY <1>3 DEF ViaSwitchport, Membership
  <2>2. /\ o.kind # "pvid" /\ o.kind # "create" /\ o.kind # "delete"
        /\ ~ViaPortLists(o)
    BY <1>3, <2>1 DEF ViaPortLists, ViaSwitchport
  <2> QED
    BY <1>3, <2>2, Zenon DEF Plan
<1>4. CASE ViaPortLists(o)
  <2>1. o.kind = "member"
    BY <1>4 DEF ViaPortLists, Membership
  <2>2. /\ o.kind # "pvid" /\ o.kind # "create" /\ o.kind # "delete"
        /\ ~ViaSwitchport(o)
    BY <1>4, <2>1 DEF ViaPortLists, ViaSwitchport
  <2> QED
    BY <1>4, <2>2, Zenon DEF Plan
<1>5. CASE o.kind = "pvid"
  <2>1. o.kind # "create" /\ o.kind # "delete" /\ ~ViaPortLists(o) /\ ~ViaSwitchport(o)
    BY <1>1, <1>2, <1>5
  <2> QED
    BY <1>5, <2>1, Zenon DEF Plan
<1>6. CASE o.kind = "create"
  <2>1. o.kind # "pvid" /\ o.kind # "delete" /\ ~ViaPortLists(o) /\ ~ViaSwitchport(o)
    BY <1>1, <1>2, <1>6
  <2> QED
    BY <1>6, <2>1, Zenon DEF Plan
<1>7. CASE o.kind = "delete"
  <2>1. o.kind # "pvid" /\ o.kind # "create" /\ ~ViaPortLists(o) /\ ~ViaSwitchport(o)
    BY <1>1, <1>2, <1>7
  <2> QED
    BY <1>7, <2>1, Zenon DEF Plan
<1>8. CASE /\ ~ViaPortLists(o) /\ ~ViaSwitchport(o)
           /\ o.kind # "pvid" /\ o.kind # "create" /\ o.kind # "delete"
  BY <1>8
<1> QED
  BY <1>2, <1>3, <1>4, <1>5, <1>6, <1>7, <1>8, Zenon

\* A PDU has one varbind or two.
LEMMA PduOf ==
    ASSUME NEW a \in Varbind
    PROVE  /\ <<a>> \in Pdu
           /\ \A b \in Varbind : <<a, b>> \in Pdu
BY DEF Pdu

\* A plan of up to three PDUs is a sequence of PDUs.
LEMMA SeqOf ==
    ASSUME NEW S, NEW x \in S
    PROVE  /\ <<x>> \in Seq(S)
           /\ \A y \in S : <<x, y>> \in Seq(S)
           /\ \A y, z \in S : <<x, y, z>> \in Seq(S)
OBVIOUS

\* The varbinds the writer builds.
LEMMA VarbindOf ==
    ASSUME NEW v \in VlanIds
    PROVE  /\ \A k \in {"egress", "untagged"}, x \in SUBSET Ports :
                 [col |-> k, vlan |-> v, ports |-> x] \in Varbind
           /\ \A p \in Ports, x \in SUBSET VlanIds :
                 [col |-> "allowed", port |-> p, vlans |-> x] \in Varbind
           /\ \A k \in {"native", "access", "pvid"}, p \in Ports :
                 [col |-> k, port |-> p, vlan |-> v] \in Varbind
           /\ \A p \in Ports, m \in {"access", "trunk"} :
                 [col |-> "mode", port |-> p, mode |-> m] \in Varbind
           /\ \A k \in {"create", "destroy"} : [col |-> k, vlan |-> v] \in Varbind
           /\ \A n \in Names : [col |-> "name", vlan |-> v, name |-> n] \in Varbind
BY DEF Varbind

\* What is read and planned of a VLAN is a set of ports.
LEMMA ListsType ==
    ASSUME NEW saw \in View, NEW o \in Ops, o.kind = "member"
    PROVE  /\ NewMembers(saw, o) \in SUBSET Ports /\ NewUntagged(saw, o) \in SUBSET Ports
           /\ WantTagged(saw, o) \in SUBSET VlanIds /\ WantUntagged(saw, o) \in SUBSET VlanIds
           /\ NativeVlan(saw, o) \in VlanIds /\ AllowedVlans(saw, o) \in SUBSET VlanIds
<1>1. o.vlan \in VlanIds /\ o.port \in Ports
  BY OpFields
<1>2. saw.member[o.vlan] \in SUBSET Ports /\ saw.untagged[o.vlan] \in SUBSET Ports
  BY <1>1 DEF View
<1>3. NewMembers(saw, o) \in SUBSET Ports /\ NewUntagged(saw, o) \in SUBSET Ports
  BY <1>1, <1>2 DEF NewMembers, NewUntagged
<1>4. WantTagged(saw, o) \in SUBSET VlanIds /\ WantUntagged(saw, o) \in SUBSET VlanIds
  BY <1>1 DEF WantTagged, WantUntagged, TaggedVlans, UntaggedVlans, Existing
<1>5. NativeVlan(saw, o) \in VlanIds
  <2>1. DefaultVlan \in VlanIds
    BY VlanAssumption DEF VlanAssumption
  <2>2. CASE WantUntagged(saw, o) = {}
    BY <2>1, <2>2 DEF NativeVlan
  <2>3. CASE WantUntagged(saw, o) # {}
    <3>1. PICK x : x \in WantUntagged(saw, o)
      BY <2>3
    <3>2. (CHOOSE v \in WantUntagged(saw, o) : TRUE) \in WantUntagged(saw, o)
      BY <3>1
    <3> QED
      BY <1>4, <2>3, <3>2 DEF NativeVlan
  <2> QED
    BY <2>2, <2>3
<1>6. AllowedVlans(saw, o) \in SUBSET VlanIds
  <2>1. saw.allowed \in SUBSET VlanIds
    BY DEF View
  <2> QED
    BY <1>4, <1>5, <2>1 DEF AllowedVlans
<1> QED
  BY <1>3, <1>4, <1>5, <1>6

\* The plan of a membership write is the one of its dialect.
LEMMA MemberPlan ==
    ASSUME NEW saw, NEW o, o.kind = "member"
    PROVE  Plan(saw, o) = [pdus |-> PlansOf(saw, o), expected |-> ExpectedOf(saw, o)]
<1>1. ViaSwitchport(o) \/ ViaPortLists(o)
  BY DEF Membership, ViaSwitchport, ViaPortLists
<1>2. CASE ViaSwitchport(o)
  <2>1. Plan(saw, o) = PlanSwitchport(saw, o)
    BY <1>2, PlanIs
  <2>2. /\ PlansOf(saw, o) =
              IF WantTagged(saw, o) # {}
              THEN <<<<Allowed(saw, o)>>, <<Placed("native", saw, o)>>, <<InMode("trunk", o)>>>>
              ELSE <<<<Placed("access", saw, o)>>, <<InMode("access", o)>>>>
        /\ ExpectedOf(saw, o) = <<WantTagged(saw, o), {NativeVlan(saw, o)}>>
    BY <1>2, Zenon DEF PlansOf, ExpectedOf
  <2>3. PlanSwitchport(saw, o) = [pdus |-> PlansOf(saw, o), expected |-> ExpectedOf(saw, o)]
    BY <2>2, Zenon DEF PlanSwitchport, Allowed, Placed, InMode
  <2> QED
    BY <2>1, <2>3
<1>3. CASE ~ViaSwitchport(o)
  <2>1. Plan(saw, o) = PortLists(saw, o)
    BY <1>1, <1>3, PlanIs
  <2>2. /\ PlansOf(saw, o) =
              IF model.split THEN <<<<Egress(saw, o)>>, <<Untagged(saw, o)>>>>
              ELSE <<<<Egress(saw, o), Untagged(saw, o)>>>>
        /\ ExpectedOf(saw, o) = <<NewMembers(saw, o), NewUntagged(saw, o)>>
    BY <1>3, Zenon DEF PlansOf, ExpectedOf
  <2>3. /\ Egress(saw, o).ports = NewMembers(saw, o)
        /\ Untagged(saw, o).ports = NewUntagged(saw, o)
    BY DEF Egress, Untagged
  <2>4. PortLists(saw, o) =
           [pdus |-> IF model.split THEN <<<<Egress(saw, o)>>, <<Untagged(saw, o)>>>>
                     ELSE <<<<Egress(saw, o), Untagged(saw, o)>>>>,
            expected |-> <<Egress(saw, o).ports, Untagged(saw, o).ports>>]
    BY Zenon DEF PortLists, Egress, Untagged
  <2> QED
    BY <2>1, <2>2, <2>3, <2>4
<1> QED
  BY <1>2, <1>3
\* A plan is one or more PDUs; on a switchport model it never writes port lists.
LEMMA MemberPlanType ==
    ASSUME NEW saw \in View, NEW o \in Ops, o.kind = "member"
    PROVE  /\ PlansOf(saw, o) \in Seq(Pdu) /\ PlansOf(saw, o) # <<>>
           /\ ExpectedOf(saw, o) \in Lists \X Lists
<1>1. o.vlan \in VlanIds /\ o.port \in Ports
  BY OpFields
<1>2. /\ NewMembers(saw, o) \in SUBSET Ports /\ NewUntagged(saw, o) \in SUBSET Ports
      /\ WantTagged(saw, o) \in SUBSET VlanIds
      /\ NativeVlan(saw, o) \in VlanIds /\ AllowedVlans(saw, o) \in SUBSET VlanIds
  BY ListsType
<1>3. Egress(saw, o) \in Varbind /\ Untagged(saw, o) \in Varbind
  BY <1>1, <1>2, VarbindOf DEF Egress, Untagged
<1>4. Allowed(saw, o) \in Varbind
  BY <1>1, <1>2, VarbindOf DEF Allowed
<1>5. Placed("native", saw, o) \in Varbind /\ Placed("access", saw, o) \in Varbind
  BY <1>1, <1>2, VarbindOf DEF Placed
<1>6. InMode("trunk", o) \in Varbind /\ InMode("access", o) \in Varbind
  BY <1>1, VarbindOf DEF InMode
<1>7. PlansOf(saw, o) \in Seq(Pdu) /\ PlansOf(saw, o) # <<>>
  <2> DEFINE e == Egress(saw, o)
             u == Untagged(saw, o)
             a == Allowed(saw, o)
             n == Placed("native", saw, o)
             m == Placed("access", saw, o)
             k == InMode("trunk", o)
             x == InMode("access", o)
  <2>1. /\ <<e>> \in Pdu /\ <<u>> \in Pdu /\ <<e, u>> \in Pdu /\ <<a>> \in Pdu /\ <<n>> \in Pdu
        /\ <<m>> \in Pdu /\ <<k>> \in Pdu /\ <<x>> \in Pdu
    BY <1>3, <1>4, <1>5, <1>6, PduOf
  <2>2. PlansOf(saw, o) \in {<<<<e>>, <<u>>>>, <<<<e, u>>>>, <<<<a>>, <<n>>, <<k>>>>,
                              <<<<m>>, <<x>>>>}
    BY DEF PlansOf
  <2> DEFINE pe == <<e>>
             pu == <<u>>
             peu == <<e, u>>
             pa == <<a>>
             pn == <<n>>
             pm == <<m>>
             pk == <<k>>
             px == <<x>>
  <2>3. PlansOf(saw, o) \in {<<pe, pu>>, <<peu>>, <<pa, pn, pk>>, <<pm, px>>}
    BY <2>2
  <2>4. /\ pe \in Pdu /\ pu \in Pdu /\ peu \in Pdu /\ pa \in Pdu /\ pn \in Pdu
        /\ pm \in Pdu /\ pk \in Pdu /\ px \in Pdu
    BY <2>1
  <2> HIDE DEF pe, pu, peu, pa, pn, pm, pk, px
  <2>5. /\ <<pe, pu>> \in Seq(Pdu) /\ <<peu>> \in Seq(Pdu)
        /\ <<pa, pn, pk>> \in Seq(Pdu) /\ <<pm, px>> \in Seq(Pdu)
    BY <2>4, SeqOf
  <2>6. <<pe, pu>> # <<>> /\ <<peu>> # <<>> /\ <<pa, pn, pk>> # <<>> /\ <<pm, px>> # <<>>
    BY Single, Pair, Triple
  <2> QED
    BY <2>3, <2>5, <2>6
<1>8. ExpectedOf(saw, o) \in Lists \X Lists
  <2> DEFINE m == NewMembers(saw, o)
             u == NewUntagged(saw, o)
             w == WantTagged(saw, o)
             n == {NativeVlan(saw, o)}
  <2>1. m \in Lists /\ u \in Lists /\ w \in Lists /\ n \in Lists
    BY <1>2 DEF Lists
  <2>2. ExpectedOf(saw, o) = <<w, n>> \/ ExpectedOf(saw, o) = <<m, u>>
    BY DEF ExpectedOf
  <2> HIDE DEF m, u, w, n
  <2> QED
    BY <2>1, <2>2
<1> QED
  BY <1>7, <1>8

\* The plan of every other operation is its one PDU.
LEMMA OtherPlan ==
    ASSUME NEW saw, NEW o, o.kind \in {"pvid", "create", "delete"}
    PROVE  Plan(saw, o) = [pdus |-> <<OtherPdu(o)>>, expected |-> <<{}, {}>>]
<1> DEFINE expected == <<{}, {}>>
<1>1. ASSUME NEW x
      PROVE  [Nothing EXCEPT !.pdus = x] = [pdus |-> x, expected |-> expected]
  <2>1. Nothing = [pdus |-> <<>>, expected |-> expected]
    BY DEF Nothing
  <2> HIDE DEF expected
  <2> QED
    BY <2>1
<1>2. CASE o.kind = "pvid"
  <2>1. OtherPdu(o) = <<[col |-> "pvid", port |-> o.port, vlan |-> o.vlan]>>
    BY <1>2 DEF OtherPdu
  <2>2. Plan(saw, o) =
           [Nothing EXCEPT !.pdus = <<<<[col |-> "pvid", port |-> o.port, vlan |-> o.vlan]>>>>]
    BY <1>2, PlanIs, Zenon
  <2>3. Plan(saw, o) = [Nothing EXCEPT !.pdus = <<OtherPdu(o)>>]
    BY <2>1, <2>2, Zenon
  <2> QED
    BY <1>1, <2>3
<1>3. CASE o.kind = "create"
  <2>1. OtherPdu(o) = <<[col |-> "create", vlan |-> o.vlan],
                        [col |-> "name", vlan |-> o.vlan, name |-> o.name]>>
    BY <1>3 DEF OtherPdu
  <2>2. Plan(saw, o) =
           [Nothing EXCEPT !.pdus = <<<<[col |-> "create", vlan |-> o.vlan],
                                        [col |-> "name", vlan |-> o.vlan, name |-> o.name]>>>>]
    BY <1>3, PlanIs, Zenon
  <2>3. Plan(saw, o) = [Nothing EXCEPT !.pdus = <<OtherPdu(o)>>]
    BY <2>1, <2>2, Zenon
  <2> QED
    BY <1>1, <2>3
<1>4. CASE o.kind = "delete"
  <2>1. OtherPdu(o) = <<[col |-> "destroy", vlan |-> o.vlan]>>
    BY <1>4 DEF OtherPdu
  <2>2. Plan(saw, o) =
           [Nothing EXCEPT !.pdus = <<<<[col |-> "destroy", vlan |-> o.vlan]>>>>]
    BY <1>4, PlanIs, Zenon
  <2>3. Plan(saw, o) = [Nothing EXCEPT !.pdus = <<OtherPdu(o)>>]
    BY <2>1, <2>2, Zenon
  <2> QED
    BY <1>1, <2>3
<1> QED
  BY <1>2, <1>3, <1>4

\* That PDU is of one varbind or two.
LEMMA OtherPduType ==
    ASSUME NEW o \in Ops, o.kind \in {"pvid", "create", "delete"}
    PROVE  OtherPdu(o) \in Pdu
<1>1. CASE o.kind = "pvid"
  <2> DEFINE a == [col |-> "pvid", port |-> o.port, vlan |-> o.vlan]
  <2>1. a \in Varbind
    BY <1>1, OpFields, VarbindOf
  <2>2. OtherPdu(o) = <<a>>
    BY <1>1 DEF OtherPdu
  <2> HIDE DEF a
  <2> QED
    BY <2>1, <2>2, PduOf
<1>2. CASE o.kind = "create"
  <2> DEFINE a == [col |-> "create", vlan |-> o.vlan]
             b == [col |-> "name", vlan |-> o.vlan, name |-> o.name]
  <2>1. a \in Varbind /\ b \in Varbind
    BY <1>2, OpFields, VarbindOf
  <2>2. OtherPdu(o) = <<a, b>>
    BY <1>2 DEF OtherPdu
  <2> HIDE DEF a, b
  <2> QED
    BY <2>1, <2>2, PduOf
<1>3. CASE o.kind = "delete"
  <2> DEFINE a == [col |-> "destroy", vlan |-> o.vlan]
  <2>1. a \in Varbind
    BY <1>3, OpFields, VarbindOf
  <2>2. OtherPdu(o) = <<a>>
    BY <1>3 DEF OtherPdu
  <2> HIDE DEF a
  <2> QED
    BY <2>1, <2>2, PduOf
<1> QED
  BY <1>1, <1>2, <1>3

\* Every plan is a plan.
LEMMA PlanType ==
    ASSUME NEW saw \in View, NEW o \in Ops
    PROVE  /\ Plan(saw, o) \in Plans /\ Plan(saw, o).pdus # <<>>
<1>1. o.kind \in {"member", "pvid", "create", "delete"}
  BY OpFields
<1>2. CASE o.kind = "member"
  BY <1>2, MemberPlan, MemberPlanType DEF Plans
<1>3. CASE o.kind \in {"pvid", "create", "delete"}
  <2> DEFINE req == OtherPdu(o)
  <2>1. req \in Pdu /\ Plan(saw, o) = [pdus |-> <<req>>, expected |-> <<{}, {}>>]
    BY <1>3, OtherPlan, OtherPduType
  <2> HIDE DEF req
  <2>2. <<req>> \in Seq(Pdu) /\ <<req>> # <<>>
    BY <2>1, SeqOf, Single
  <2>3. <<{}, {}>> \in Lists \X Lists
    BY DEF Lists
  <2> DEFINE pdus == <<req>>
             expected == <<{}, {}>>
  <2>4. Plan(saw, o) = [pdus |-> pdus, expected |-> expected]
    BY <2>1
  <2> HIDE DEF pdus, expected
  <2> QED
    BY <2>2, <2>3, <2>4 DEF Plans, pdus, expected
<1> QED
  BY <1>1, <1>2, <1>3

-----------------------------------------------------------------------------
(* Types, and the shape of the scripts. *)

\* Nothing planned and nothing seen have their types.
LEMMA BlankTypes ==
    /\ Unseen \in View /\ Nothing \in Plans /\ <<>> \in Seq(Steps)
    /\ Nothing.pdus = <<>> /\ IsTable(NoTable) /\ Nested(NoTable)
<1>1. Unseen \in View
  BY DEF Unseen, View
<1>2. Nothing \in Plans
  <2> DEFINE none == <<>>
             expected == <<{}, {}>>
  <2>1. none \in Seq(Pdu) /\ expected \in Lists \X Lists
    BY DEF Lists
  <2>2. Nothing = [pdus |-> none, expected |-> expected]
    BY DEF Nothing
  <2> HIDE DEF none, expected
  <2> QED
    BY <2>1, <2>2 DEF Plans
<1>3. DOMAIN NoTable = {}
  BY DEF NoTable
<1>4. IsTable(NoTable) /\ Nested(NoTable)
  BY <1>3 DEF IsTable, Nested, NoTable
<1> QED
  BY <1>1, <1>2, <1>4 DEF Nothing

\* Only caller c's call moves.
CallMove(c) ==
    /\ CallsOK'
    /\ \A d \in Callers : d # c => /\ op'[d] = op[d] /\ todo'[d] = todo[d]
                                   /\ seen'[d] = seen[d] /\ plan'[d] = plan[d]

\* What the end of a call changes.
LEMMA ReturnMoves ==
    ASSUME CallsOK, NEW c \in Callers, NEW r \in Results, Return(c, r),
           op' \in [Callers -> Ops], \A d \in Callers : d # c => op'[d] = op[d],
           calls' \in [Callers -> Nat], \A d \in Callers : calls'[d] <= MaxCalls[d]
    PROVE  /\ CallMove(c) /\ todo'[c] = <<>> /\ plan'[c] = Nothing
<1>1. /\ result' = [result EXCEPT ![c] = r]
      /\ todo' = [todo EXCEPT ![c] = <<>>]
      /\ seen' = [seen EXCEPT ![c] = Unseen]
      /\ plan' = [plan EXCEPT ![c] = Nothing]
      /\ tries' = [tries EXCEPT ![c] = 0]
  BY DEF Return
<1>2. 0 \in 0..Retries
  BY VlanAssumption DEF VlanAssumption
<1>3. /\ todo' \in [Callers -> Seq(Steps)] /\ seen' \in [Callers -> View]
      /\ plan' \in [Callers -> Plans] /\ tries' \in [Callers -> 0..Retries]
      /\ result' \in [Callers -> Results]
  BY <1>1, <1>2, BlankTypes DEF CallsOK
<1>4. /\ todo'[c] = <<>> /\ plan'[c] = Nothing
      /\ \A d \in Callers : d # c => /\ todo'[d] = todo[d]
                                     /\ seen'[d] = seen[d] /\ plan'[d] = plan[d]
  BY <1>1 DEF CallsOK
<1> QED
  BY <1>3, <1>4 DEF CallMove, CallsOK

\* Scripts: where the decision and the verdict are.
LEMMA ScriptSteps ==
    ASSUME NEW o \in Ops
    PROVE  /\ Before(o) \in Seq(Steps) /\ After(o) \in Seq(Steps)
           /\ \A i \in DOMAIN Before(o) : Before(o)[i] \notin {"decide", "verify"}
           /\ \A i \in DOMAIN After(o) : After(o)[i] \notin {"decide", "verify", "mode", "allowed"}
           /\ \A i \in DOMAIN Before(o) : Before(o)[i] \in {"mode", "allowed"} => Membership(o)
           /\ \E i \in DOMAIN Before(o) : Before(o)[i] = "names"
           /\ Membership(o) => /\ \E i \in DOMAIN Before(o) : Before(o)[i] = "egress"
                               /\ \E i \in DOMAIN Before(o) : Before(o)[i] = "untagged"
                               /\ \E i \in DOMAIN After(o) : After(o)[i] = "egress"
                               /\ \E i \in DOMAIN After(o) : After(o)[i] = "untagged"
           /\ o.kind # "pvid" => \E i \in DOMAIN After(o) : After(o)[i] = "names"
           /\ o.kind = "pvid" => \E i \in DOMAIN After(o) : After(o)[i] = "pvids"
<1>1. /\ o.kind \in {"member", "pvid", "create", "delete"}
      /\ Membership(o) <=> o.kind = "member"
      /\ Membership(o) <=> ViaSwitchport(o) \/ ViaPortLists(o)
      /\ ~(ViaSwitchport(o) /\ ViaPortLists(o))
  BY OpFields DEF Membership, ViaSwitchport, ViaPortLists
<1>2. CASE Membership(o)
  <2>1. o.kind # "pvid" /\ o.kind # "delete"
    BY <1>1, <1>2
  <2>2. After(o) = <<"names", "egress", "untagged">>
    BY <1>2, <2>1, Zenon DEF After
  <2> DEFINE a == After(o)
  <2>3. /\ a \in Seq(Steps) /\ DOMAIN a = {1, 2, 3}
        /\ a[1] = "names" /\ a[2] = "egress" /\ a[3] = "untagged"
    BY <2>2 DEF Steps
  <2> HIDE DEF a
  <2> DEFINE b == Before(o)
  <2>4. CASE ViaSwitchport(o)
    <3>1. ~ViaPortLists(o)
      BY <1>1, <2>4
    <3>2. b = <<"names", "egress", "untagged", "mode", "allowed">>
      BY <2>1, <2>4, <3>1, Zenon DEF Before
    <3>3. /\ b \in Seq(Steps) /\ DOMAIN b = 1..5
          /\ b[1] = "names" /\ b[2] = "egress" /\ b[3] = "untagged" /\ b[4] = "mode"
          /\ b[5] = "allowed"
      BY <3>2 DEF Steps
    <3> HIDE DEF b
    <3>4. \A i \in DOMAIN b : i = 1 \/ i = 2 \/ i = 3 \/ i = 4 \/ i = 5
      BY <3>3
    <3>5. \A i \in DOMAIN b : b[i] \notin {"decide", "verify"}
      BY <3>3, <3>4
    <3> QED
      BY <1>1, <1>2, <2>1, <2>3, <3>3, <3>5 DEF a, b
  <2>5. CASE ViaPortLists(o)
    <3>1. ~ViaSwitchport(o)
      BY <1>1, <2>5
    <3>2. b = <<"names", "egress", "untagged", "rawEgress", "rawUntagged">>
      BY <2>1, <2>5, <3>1, Zenon DEF Before
    <3>3. /\ b \in Seq(Steps) /\ DOMAIN b = 1..5
          /\ b[1] = "names" /\ b[2] = "egress" /\ b[3] = "untagged" /\ b[4] = "rawEgress"
          /\ b[5] = "rawUntagged"
      BY <3>2 DEF Steps
    <3> HIDE DEF b
    <3>4. \A i \in DOMAIN b : i = 1 \/ i = 2 \/ i = 3 \/ i = 4 \/ i = 5
      BY <3>3
    <3>5. \A i \in DOMAIN b : b[i] \notin {"decide", "verify"}
      BY <3>3, <3>4
    <3> QED
      BY <1>1, <1>2, <2>1, <2>3, <3>3, <3>5 DEF a, b
  <2> QED
    BY <1>1, <1>2, <2>4, <2>5
<1>3. CASE o.kind = "delete"
  <2>1. ~Membership(o) /\ ~ViaSwitchport(o) /\ ~ViaPortLists(o) /\ o.kind # "pvid"
    BY <1>1, <1>3
  <2> DEFINE a == After(o)
             b == Before(o)
  <2>2. a = <<"names">>
    BY <2>1, Zenon DEF After
  <2>3. b = <<"names", "egress">>
    BY <1>3, <2>1, Zenon DEF Before
  <2>4. /\ a \in Seq(Steps) /\ DOMAIN a = {1} /\ a[1] = "names"
        /\ b \in Seq(Steps) /\ DOMAIN b = {1, 2} /\ b[1] = "names" /\ b[2] = "egress"
    BY <2>2, <2>3 DEF Steps
  <2> HIDE DEF a, b
  <2> QED
    BY <2>1, <2>4 DEF a, b
<1>4. CASE o.kind = "pvid"
  <2>1. ~Membership(o) /\ ~ViaSwitchport(o) /\ ~ViaPortLists(o) /\ o.kind # "delete"
    BY <1>1, <1>4
  <2> DEFINE a == After(o)
             b == Before(o)
  <2>2. a = <<"pvids">>
    BY <1>4, <2>1, Zenon DEF After
  <2>3. b = <<"names">>
    BY <2>1, Zenon DEF Before
  <2>4. /\ a \in Seq(Steps) /\ DOMAIN a = {1} /\ a[1] = "pvids"
        /\ b \in Seq(Steps) /\ DOMAIN b = {1} /\ b[1] = "names"
    BY <2>2, <2>3 DEF Steps
  <2> HIDE DEF a, b
  <2> QED
    BY <1>4, <2>1, <2>4 DEF a, b
<1>5. CASE o.kind = "create"
  <2>1. /\ ~Membership(o) /\ ~ViaSwitchport(o) /\ ~ViaPortLists(o) /\ o.kind # "delete"
        /\ o.kind # "pvid"
    BY <1>1, <1>5
  <2> DEFINE a == After(o)
             b == Before(o)
  <2>2. a = <<"names">>
    BY <2>1, Zenon DEF After
  <2>3. b = <<"names">>
    BY <2>1, Zenon DEF Before
  <2>4. /\ a \in Seq(Steps) /\ DOMAIN a = {1} /\ a[1] = "names"
        /\ b \in Seq(Steps) /\ DOMAIN b = {1} /\ b[1] = "names"
    BY <2>2, <2>3 DEF Steps
  <2> HIDE DEF a, b
  <2> QED
    BY <2>1, <2>4 DEF a, b
<1> QED
  BY <1>1, <1>2, <1>3, <1>4, <1>5
\* Setting one field of a view.
LEMMA ViewSet ==
    ASSUME NEW saw \in View
    PROVE  /\ \A x \in [VlanIds -> Names \union {NoName, "absent"}] :
                 LET w == [saw EXCEPT !.names = x] IN
                 /\ w \in View /\ w.names = x /\ w.member = saw.member
                 /\ w.untagged = saw.untagged /\ w.pvid = saw.pvid
           /\ \A x \in [VlanIds -> SUBSET Ports] :
                 LET w == [saw EXCEPT !.member = x] IN
                 /\ w \in View /\ w.names = saw.names /\ w.member = x
                 /\ w.untagged = saw.untagged /\ w.pvid = saw.pvid
           /\ \A x \in [VlanIds -> SUBSET Ports] :
                 LET w == [saw EXCEPT !.untagged = x] IN
                 /\ w \in View /\ w.names = saw.names /\ w.member = saw.member
                 /\ w.untagged = x /\ w.pvid = saw.pvid
           /\ \A x \in {"access", "trunk", "general", NoMode} :
                 LET w == [saw EXCEPT !.mode = x] IN
                 /\ w \in View /\ w.names = saw.names /\ w.member = saw.member
                 /\ w.untagged = saw.untagged /\ w.pvid = saw.pvid
           /\ \A x \in SUBSET VlanIds :
                 LET w == [saw EXCEPT !.allowed = x] IN
                 /\ w \in View /\ w.names = saw.names /\ w.member = saw.member
                 /\ w.untagged = saw.untagged /\ w.pvid = saw.pvid
           /\ \A x \in SUBSET (Ports \X VlanIds) :
                 LET w == [saw EXCEPT !.pvid = x] IN
                 /\ w \in View /\ w.names = saw.names /\ w.member = saw.member
                 /\ w.untagged = saw.untagged /\ w.pvid = x
BY DEF View

\* What a walk adds to a view, column by column.
LEMMA WalkedIs ==
    ASSUME SwitchOK, NEW saw \in View, NEW o \in Ops,
           NEW what \in Steps \ {"decide", "verify"},
           what \in {"mode", "allowed"} => Membership(o)
    PROVE  LET w == Walked(saw, what, o) IN
           /\ w \in View
           /\ IF what = "names" THEN NamesSeen(w, vlans) ELSE w.names = saw.names
           /\ IF what = "egress" THEN MembersSeen(w, vlans)
              ELSE w.member = saw.member \/ (MembersSeen(saw, vlans) => MembersSeen(w, vlans))
           /\ IF what = "untagged" THEN UntaggedSeen(w, vlans)
              ELSE w.untagged = saw.untagged
                   \/ (UntaggedSeen(saw, vlans) => UntaggedSeen(w, vlans))
           /\ IF what = "pvids" THEN PvidsSeen(w) ELSE w.pvid = saw.pvid
<1> DEFINE w == Walked(saw, what, o)
<1>1. /\ IsTable(vlans) /\ pvid \in [Ports -> VlanIds] /\ port \in [Ports -> Switchport]
      /\ \A v \in DOMAIN vlans : /\ vlans[v].name \in Names \union {NoName}
                                 /\ vlans[v].member \in SUBSET Ports
                                 /\ vlans[v].untagged \in SUBSET Ports
  BY DEF SwitchOK, IsTable, Row
<1>2. o.vlan \in VlanIds
  BY OpFields
<1>3. CASE what = "names"
  <2> DEFINE x == [v \in VlanIds |-> IF v \in DOMAIN vlans THEN vlans[v].name ELSE "absent"]
  <2>1. w = [saw EXCEPT !.names = x]
    BY <1>3, Zenon DEF Walked
  <2>2. x \in [VlanIds -> Names \union {NoName, "absent"}]
    BY <1>1
  <2>3. \A v \in VlanIds : x[v] = IF v \in DOMAIN vlans THEN vlans[v].name ELSE "absent"
    OBVIOUS
  <2> HIDE DEF x, w
  <2>4. /\ w \in View /\ w.names = x /\ w.member = saw.member
        /\ w.untagged = saw.untagged /\ w.pvid = saw.pvid
    BY <2>1, <2>2, ViewSet, Zenon
  <2>5. NamesSeen(w, vlans)
    BY <2>3, <2>4 DEF NamesSeen
  <2> QED
    BY <1>3, <2>4, <2>5 DEF w
<1>4. CASE what = "egress"
  <2> DEFINE x == [v \in VlanIds |-> IF v \in DOMAIN vlans THEN vlans[v].member ELSE {}]
  <2>1. what # "names"
    BY <1>4
  <2>2. w = [saw EXCEPT !.member = x]
    BY <1>4, <2>1, Zenon DEF Walked
  <2>3. x \in [VlanIds -> SUBSET Ports]
    BY <1>1
  <2>4. \A v \in VlanIds : x[v] = IF v \in DOMAIN vlans THEN vlans[v].member ELSE {}
    OBVIOUS
  <2> HIDE DEF x, w
  <2>5. /\ w \in View /\ w.member = x /\ w.names = saw.names
        /\ w.untagged = saw.untagged /\ w.pvid = saw.pvid
    BY <2>2, <2>3, ViewSet, Zenon
  <2>6. MembersSeen(w, vlans)
    BY <2>4, <2>5 DEF MembersSeen
  <2> QED
    BY <1>4, <2>5, <2>6 DEF w
<1>5. CASE what = "untagged"
  <2> DEFINE x == [v \in VlanIds |-> IF v \in DOMAIN vlans THEN vlans[v].untagged ELSE {}]
  <2>1. what # "names" /\ what # "egress"
    BY <1>5
  <2>2. w = [saw EXCEPT !.untagged = x]
    BY <1>5, <2>1, Zenon DEF Walked
  <2>3. x \in [VlanIds -> SUBSET Ports]
    BY <1>1
  <2>4. \A v \in VlanIds : x[v] = IF v \in DOMAIN vlans THEN vlans[v].untagged ELSE {}
    OBVIOUS
  <2> HIDE DEF x, w
  <2>5. /\ w \in View /\ w.untagged = x /\ w.names = saw.names
        /\ w.member = saw.member /\ w.pvid = saw.pvid
    BY <2>2, <2>3, ViewSet, Zenon
  <2>6. UntaggedSeen(w, vlans)
    BY <2>4, <2>5 DEF UntaggedSeen
  <2> QED
    BY <1>5, <2>5, <2>6 DEF w
<1>6. CASE what = "rawEgress"
  <2>1. what # "names" /\ what # "egress" /\ what # "untagged" /\ what # "pvids"
    BY <1>6
  <2>2. w = IF o.vlan \in DOMAIN vlans
            THEN [saw EXCEPT !.member[o.vlan] = vlans[o.vlan].member] ELSE saw
    BY <1>6, <2>1, Zenon DEF Walked
  <2>3. CASE o.vlan \notin DOMAIN vlans
    BY <2>1, <2>2, <2>3
  <2>4. CASE o.vlan \in DOMAIN vlans
    <3> DEFINE x == [saw.member EXCEPT ![o.vlan] = vlans[o.vlan].member]
    <3>1. saw.member \in [VlanIds -> SUBSET Ports]
      BY DEF View
    <3>2. x \in [VlanIds -> SUBSET Ports]
      BY <1>1, <2>4, <3>1
    <3>3. w = [saw EXCEPT !.member = x]
      BY <2>2, <2>4
    <3>4. \A v \in VlanIds : x[v] = IF v = o.vlan THEN vlans[o.vlan].member ELSE saw.member[v]
      BY <3>1
    <3> HIDE DEF x, w
    <3>5. /\ w \in View /\ w.member = x /\ w.names = saw.names
          /\ w.untagged = saw.untagged /\ w.pvid = saw.pvid
      BY <3>2, <3>3, ViewSet, Zenon
    <3>6. MembersSeen(saw, vlans) => MembersSeen(w, vlans)
      BY <2>4, <3>4, <3>5 DEF MembersSeen
    <3> QED
      BY <2>1, <3>5, <3>6 DEF w
  <2> QED
    BY <2>3, <2>4
<1>7. CASE what = "rawUntagged"
  <2>1. /\ what # "names" /\ what # "egress" /\ what # "untagged" /\ what # "pvids"
        /\ what # "rawEgress"
    BY <1>7
  <2>2. w = IF o.vlan \in DOMAIN vlans
            THEN [saw EXCEPT !.untagged[o.vlan] = vlans[o.vlan].untagged] ELSE saw
    BY <1>7, <2>1, Zenon DEF Walked
  <2>3. CASE o.vlan \notin DOMAIN vlans
    BY <2>1, <2>2, <2>3
  <2>4. CASE o.vlan \in DOMAIN vlans
    <3> DEFINE x == [saw.untagged EXCEPT ![o.vlan] = vlans[o.vlan].untagged]
    <3>1. saw.untagged \in [VlanIds -> SUBSET Ports]
      BY DEF View
    <3>2. x \in [VlanIds -> SUBSET Ports]
      BY <1>1, <2>4, <3>1
    <3>3. w = [saw EXCEPT !.untagged = x]
      BY <2>2, <2>4
    <3>4. \A v \in VlanIds : x[v] = IF v = o.vlan THEN vlans[o.vlan].untagged
                                    ELSE saw.untagged[v]
      BY <3>1
    <3> HIDE DEF x, w
    <3>5. /\ w \in View /\ w.untagged = x /\ w.names = saw.names
          /\ w.member = saw.member /\ w.pvid = saw.pvid
      BY <3>2, <3>3, ViewSet, Zenon
    <3>6. UntaggedSeen(saw, vlans) => UntaggedSeen(w, vlans)
      BY <2>4, <3>4, <3>5 DEF UntaggedSeen
    <3> QED
      BY <2>1, <3>5, <3>6 DEF w
  <2> QED
    BY <2>3, <2>4
<1>8. CASE what \in {"mode", "allowed"}
  <2>1. /\ what # "names" /\ what # "egress" /\ what # "untagged" /\ what # "pvids"
        /\ what # "rawEgress" /\ what # "rawUntagged"
    BY <1>8
  <2>2. o.port \in Ports
    BY <1>8, OpFields DEF Membership
  <2>3. port[o.port].mode \in {"access", "trunk", "general", NoMode}
        /\ port[o.port].allowed \in SUBSET VlanIds
    BY <1>1, <2>2 DEF Switchport
  <2> DEFINE m == port[o.port].mode
             a == port[o.port].allowed
  <2>4. w = [saw EXCEPT !.mode = m] \/ w = [saw EXCEPT !.allowed = a]
    <3>1. CASE what = "mode"
      BY <2>1, <3>1, Zenon DEF Walked
    <3>2. CASE what = "allowed"
      <4>1. what # "mode"
        BY <3>2
      <4> QED
        BY <2>1, <3>2, <4>1, Zenon DEF Walked
    <3> QED
      BY <1>8, <3>1, <3>2
  <2> HIDE DEF m, a, w
  <2>5. /\ w \in View /\ w.names = saw.names /\ w.member = saw.member
        /\ w.untagged = saw.untagged /\ w.pvid = saw.pvid
    <3>1. m \in {"access", "trunk", "general", NoMode} /\ a \in SUBSET VlanIds
      BY <2>3 DEF m, a
    <3>2. CASE w = [saw EXCEPT !.mode = m]
      BY <3>1, <3>2, ViewSet, Zenon
    <3>3. CASE w = [saw EXCEPT !.allowed = a]
      BY <3>1, <3>3, ViewSet, Zenon
    <3> QED
      BY <2>4, <3>2, <3>3
  <2> QED
    BY <2>1, <2>5 DEF w
<1>9. CASE what = "pvids"
  <2>1. /\ what # "names" /\ what # "egress" /\ what # "untagged" /\ what # "rawEgress"
        /\ what # "rawUntagged" /\ what # "mode" /\ what # "allowed"
    BY <1>9
  <2> DEFINE x == {<<p, pvid[p]>> : p \in Ports}
  <2>2. w = [saw EXCEPT !.pvid = x]
    BY <1>9, <2>1, Zenon DEF Walked
  <2>3. x \in SUBSET (Ports \X VlanIds)
    BY <1>1
  <2> HIDE DEF x, w
  <2>4. /\ w \in View /\ w.pvid = x /\ w.names = saw.names
        /\ w.untagged = saw.untagged /\ w.member = saw.member
    BY <2>2, <2>3, ViewSet, Zenon
  <2>5. PvidsSeen(w)
    BY <2>4 DEF PvidsSeen, x
  <2> QED
    BY <1>9, <2>1, <2>4, <2>5 DEF w
<1> QED
  BY <1>3, <1>4, <1>5, <1>6, <1>7, <1>8, <1>9 DEF Steps
\* The other calls' scripts are as they were.
LEMMA OtherScripts ==
    ASSUME NEW c \in Callers, CallMove(c), NEW d \in Callers, d # c, Scripted(d)
    PROVE  Scripted(d)'
<1>1. todo'[d] = todo[d] /\ op'[d] = op[d] /\ plan'[d] = plan[d]
  BY DEF CallMove
<1> QED
  BY <1>1 DEF Scripted, Decided, LastStep, Membership

\* A call that does not move keeps its plan, and so what the plan may write.
LEMMA OtherOwned ==
    ASSUME NEW c \in Callers, CallMove(c), NEW d \in Callers, d # c, Owned(d)
    PROVE  Owned(d)'
<1>1. plan'[d] = plan[d]
  BY DEF CallMove
<1> QED
  BY <1>1 DEF Owned

\* The shape after a step, from its parts.
LEMMA ShapedFrom ==
    ASSUME Shaped, NEW c \in Callers, CallMove(c), SwitchOK', FoundOK', model' = model,
           Scripted(c)',
           model.vlanWrite = "switchport" =>
              Nested(vlans') /\ Owned(c)' /\ \A d \in Callers : Nested(found'[d])
    PROVE  Shaped'
<1>1. \A d \in Callers : Scripted(d)'
  BY OtherScripts DEF Shaped
<1>2. ASSUME model'.vlanWrite = "switchport"
      PROVE  Nested(vlans') /\ \A d \in Callers : Nested(found'[d]) /\ Owned(d)'
  <2>1. model.vlanWrite = "switchport"
    BY <1>2
  <2>2. \A d \in Callers : Owned(d)'
    BY <2>1, OtherOwned DEF Shaped, Mirrored
  <2> QED
    BY <2>1, <2>2
<1>3. Mirrored'
  BY <1>2 DEF Mirrored, Nested
<1>4. CallsOK'
  BY DEF CallMove
<1> QED
  BY <1>1, <1>3, <1>4 DEF Shaped

\* The state the agent applies a PDU to.
LEMMA SwitchIs ==
    ASSUME SwitchOK
    PROVE  /\ IsSwitch(Switch) /\ Switch.vlans = vlans /\ Switch.pvid = pvid
           /\ Switch.port = port /\ Switch.written = {}
BY DEF SwitchOK, IsSwitch, Switch

\* A PDU applied by the agent leaves a switch (handleSet).
LEMMA AppliedKeeps ==
    ASSUME SwitchOK, NEW req \in Pdu
    PROVE  /\ IsSwitch(Applied(req))
           /\ (\A i \in DOMAIN req : req[i].col \notin {"egress", "untagged"}) /\ Nested(vlans) =>
                 Nested(Applied(req).vlans)
<1>1. IsSwitch(Switch) /\ Switch.vlans = vlans
  BY SwitchIs
<1>2. req \in Seq(Varbind) /\ Len(req) \in {1, 2}
  BY DEF Pdu
<1>3. req[1] \in Varbind /\ 1 \in DOMAIN req
  BY <1>2
<1> DEFINE one == ApplyWrite(Switch, req[1])
<1>4. /\ IsSwitch(one)
      /\ req[1].col \notin {"egress", "untagged"} /\ Nested(vlans) => Nested(one.vlans)
  BY <1>1, <1>3, ApplyKeeps, Zenon
<1> HIDE DEF one
<1>5. CASE Len(req) = 1
  <2>1. Applied(req) = one
    BY <1>5 DEF Applied, one
  <2> QED
    BY <1>3, <1>4, <2>1
<1>6. CASE Len(req) = 2
  <2>1. req[2] \in Varbind /\ 2 \in DOMAIN req
    BY <1>2, <1>6
  <2>2. Applied(req) = ApplyWrite(one, req[2])
    BY <1>6 DEF Applied, one
  <2>3. /\ IsSwitch(ApplyWrite(one, req[2]))
        /\ req[2].col \notin {"egress", "untagged"} /\ Nested(one.vlans) =>
              Nested(ApplyWrite(one, req[2]).vlans)
    BY <1>4, <2>1, ApplyKeeps, Zenon
  <2> QED
    BY <1>3, <1>4, <2>1, <2>2, <2>3
<1> QED
  BY <1>2, <1>5, <1>6

\* What the switch is after it took a PDU.
LEMMA TakeKeeps ==
    ASSUME SwitchOK, FoundOK, NEW c \in Callers, NEW req \in Pdu, Take(c, req), model' = model
    PROVE  /\ SwitchOK' /\ FoundOK'
           /\ (\A i \in DOMAIN req : req[i].col \notin {"egress", "untagged"}) /\ Nested(vlans) =>
                 Nested(vlans')
           /\ \A d \in Callers : found'[d] = IF d = c THEN found[d] ELSE NoTable
           /\ vlans' = Applied(req).vlans /\ pvid' = Applied(req).pvid
           /\ port' = Applied(req).port
<1>1. /\ vlans' = Applied(req).vlans /\ pvid' = Applied(req).pvid
      /\ port' = Applied(req).port
      /\ found' = [d \in Callers |-> IF d = c THEN found[d] ELSE NoTable]
  BY DEF Take
<1>2. /\ IsSwitch(Applied(req))
      /\ (\A i \in DOMAIN req : req[i].col \notin {"egress", "untagged"}) /\ Nested(vlans) =>
            Nested(Applied(req).vlans)
  BY AppliedKeeps
<1>3. SwitchOK'
  BY <1>1, <1>2 DEF IsSwitch, SwitchOK, IsTable
<1>4. \A d \in Callers : found'[d] = IF d = c THEN found[d] ELSE NoTable
  BY <1>1
<1>5. FoundOK'
  BY <1>1, <1>4, BlankTypes DEF FoundOK, IsTable
<1> QED
  BY <1>1, <1>2, <1>3, <1>4, <1>5

\* A step that leaves the switch alone.
LEMMA SwitchKept ==
    ASSUME SwitchOK, UNCHANGED <<model, switchVars>>
    PROVE  SwitchOK' /\ vlans' = vlans /\ pvid' = pvid /\ port' = port /\ model' = model
BY DEF SwitchOK, switchVars, IsTable

\* A call with nothing to do has no script to keep.
LEMMA IdleScripted ==
    ASSUME NEW c, todo'[c] = <<>>, plan'[c] = Nothing
    PROVE  Scripted(c)' /\ Owned(c)'
<1>1. DOMAIN todo'[c] = {} /\ DOMAIN plan'[c].pdus = {}
  BY DEF Nothing
<1> QED
  BY <1>1 DEF Scripted, Owned

\* The end of a call keeps the shape.
LEMMA ReturnShaped ==
    ASSUME Shaped, NEW c \in Callers, NEW r \in Results, Return(c, r),
           op' \in [Callers -> Ops], \A d \in Callers : d # c => op'[d] = op[d],
           calls' \in [Callers -> Nat], \A d \in Callers : calls'[d] <= MaxCalls[d],
           UNCHANGED <<model, switchVars>>, FoundOK',
           \A d \in Callers : found'[d] = found[d] \/ found'[d] = vlans \/ found'[d] = NoTable
    PROVE  Shaped'
<1>1. CallMove(c) /\ todo'[c] = <<>> /\ plan'[c] = Nothing
  BY ReturnMoves DEF Shaped
<1>2. SwitchOK' /\ vlans' = vlans /\ model' = model
  BY SwitchKept DEF Shaped
<1>3. Scripted(c)' /\ Owned(c)'
  BY <1>1, IdleScripted
<1>4. model.vlanWrite = "switchport" =>
         Nested(vlans') /\ \A d \in Callers : Nested(found'[d])
  BY <1>2, BlankTypes DEF Shaped, Mirrored
<1> QED
  BY <1>1, <1>2, <1>3, <1>4, ShapedFrom
\* On a model with switchport columns no plan writes a port list.
LEMMA PlanOwned ==
    ASSUME NEW saw, NEW o \in Ops, model.vlanWrite = "switchport",
           NEW i \in DOMAIN Plan(saw, o).pdus, NEW j \in DOMAIN Plan(saw, o).pdus[i]
    PROVE  Plan(saw, o).pdus[i][j].col \notin {"egress", "untagged"}
<1>1. o.kind \in {"member", "pvid", "create", "delete"}
  BY OpFields
<1>2. CASE o.kind = "member"
  <2> DEFINE a == Allowed(saw, o)
             n == Placed("native", saw, o)
             m == Placed("access", saw, o)
             k == InMode("trunk", o)
             x == InMode("access", o)
             pa == <<a>>
             pn == <<n>>
             pm == <<m>>
             pk == <<k>>
             px == <<x>>
             s == Plan(saw, o).pdus
  <2>1. ViaSwitchport(o)
    BY <1>2 DEF ViaSwitchport, Membership
  <2>2. s = PlansOf(saw, o)
    BY <1>2, MemberPlan
  <2>3. s = <<pa, pn, pk>> \/ s = <<pm, px>>
    BY <2>1, <2>2 DEF PlansOf
  <2>4. /\ a.col = "allowed" /\ n.col = "native" /\ m.col = "access" /\ k.col = "mode"
        /\ x.col = "mode"
    BY DEF Allowed, Placed, InMode
  <2> HIDE DEF a, n, m, k, x
  <2>5. /\ DOMAIN pa = {1} /\ DOMAIN pn = {1} /\ DOMAIN pm = {1} /\ DOMAIN pk = {1}
        /\ DOMAIN px = {1} /\ pa[1] = a /\ pn[1] = n /\ pm[1] = m /\ pk[1] = k /\ px[1] = x
    BY Single
  <2>6. i \in DOMAIN s /\ j \in DOMAIN s[i]
    OBVIOUS
  <2> HIDE DEF pa, pn, pm, pk, px, s
  <2>7. CASE s = <<pa, pn, pk>>
    <3>1. DOMAIN s = {1, 2, 3} /\ s[1] = pa /\ s[2] = pn /\ s[3] = pk
      BY <2>7, Triple
    <3>2. j = 1 /\ s[i][j] \in {a, n, k}
      BY <2>5, <2>6, <3>1
    <3>3. s[i][j].col \notin {"egress", "untagged"}
      BY <2>4, <3>2
    <3> QED
      BY <3>3 DEF s
  <2>8. CASE s = <<pm, px>>
    <3>1. DOMAIN s = {1, 2} /\ s[1] = pm /\ s[2] = px
      BY <2>8, Pair
    <3>2. j = 1 /\ s[i][j] \in {m, x}
      BY <2>5, <2>6, <3>1
    <3>3. s[i][j].col \notin {"egress", "untagged"}
      BY <2>4, <3>2
    <3> QED
      BY <3>3 DEF s
  <2> QED
    BY <2>3, <2>7, <2>8
<1>3. CASE o.kind # "member"
  <2> DEFINE s == Plan(saw, o).pdus
             p == OtherPdu(o)
             a == [col |-> "pvid", port |-> o.port, vlan |-> o.vlan]
             b == [col |-> "create", vlan |-> o.vlan]
             d == [col |-> "name", vlan |-> o.vlan, name |-> o.name]
             e == [col |-> "destroy", vlan |-> o.vlan]
  <2>1. s = <<p>>
    BY <1>1, <1>3, OtherPlan
  <2>2. p = <<a>> \/ p = <<b, d>> \/ p = <<e>>
    BY DEF OtherPdu
  <2>3. a.col = "pvid" /\ b.col = "create" /\ d.col = "name" /\ e.col = "destroy"
    OBVIOUS
  <2>4. i \in DOMAIN s /\ j \in DOMAIN s[i]
    OBVIOUS
  <2> HIDE DEF a, b, d, e, p, s
  <2>5. DOMAIN s = {1} /\ s[1] = p
    BY <2>1, Single
  <2>6. i = 1 /\ s[i] = p
    BY <2>4, <2>5
  <2>7. p[j] \in {a, b, d, e}
    BY <2>2, <2>4, <2>6, Single, Pair
  <2>8. s[i][j].col \notin {"egress", "untagged"}
    BY <2>3, <2>6, <2>7
  <2> QED
    BY <2>8 DEF s
<1> QED
  BY <1>2, <1>3

\* A new script, with its last step.
LEMMA ScriptEnds ==
    ASSUME NEW s \in Seq(Steps), NEW w \in {"decide", "verify"},
           \A i \in DOMAIN s : s[i] \notin {"decide", "verify"}
    PROVE  LET t == s \o <<w>> IN
           /\ t \in Seq(Steps) /\ t # <<>> /\ t[Len(t)] = w
           /\ \A i \in DOMAIN t : t[i] \in {"decide", "verify"} <=> i = Len(t)
           /\ \A i \in DOMAIN t : i # Len(t) => i \in DOMAIN s /\ t[i] = s[i]
           /\ \A i \in DOMAIN s : i \in DOMAIN t /\ t[i] = s[i]
<1> DEFINE t == s \o <<w>>
           n == Len(s)
<1>1. w \in Steps
  BY DEF Steps
<1>2. /\ t \in Seq(Steps) /\ Len(t) = n + 1
      /\ DOMAIN t = 1..(n + 1) /\ DOMAIN s = 1..n /\ n \in Nat
      /\ t[n + 1] = w /\ t # <<>>
      /\ \A i \in DOMAIN s : t[i] = s[i]
  BY <1>1, LastOf
<1> HIDE DEF t, n
<1>3. \A i \in DOMAIN t : i # n + 1 => i \in DOMAIN s /\ t[i] = s[i]
  BY <1>2
<1>4. \A i \in DOMAIN s : i \in DOMAIN t /\ t[i] = s[i]
  BY <1>2
<1>5. \A i \in DOMAIN t : t[i] \in {"decide", "verify"} <=> i = n + 1
  BY <1>2, <1>3
<1>6. Len(t) = n + 1 /\ t[Len(t)] = w
  BY <1>2
<1> QED
  BY <1>2, <1>3, <1>4, <1>5, <1>6 DEF t

\* What is left of a script after a walk.
LEMMA ScriptGoesOn ==
    ASSUME NEW t \in Seq(Steps), t # <<>>, Head(t) \notin {"decide", "verify"},
           \A i \in DOMAIN t : t[i] \in {"decide", "verify"} <=> i = Len(t)
    PROVE  LET u == Tail(t) IN
           /\ u \in Seq(Steps) /\ u # <<>> /\ u[Len(u)] = t[Len(t)]
           /\ \A i \in DOMAIN u : u[i] \in {"decide", "verify"} <=> i = Len(u)
           /\ \A i \in DOMAIN u : \E k \in DOMAIN t : u[i] = t[k]
           /\ \A i \in DOMAIN t : t[i] = Head(t) \/ \E k \in DOMAIN u : t[i] = u[k]
           /\ Head(t) \in Steps /\ \E i \in DOMAIN t : t[i] = Head(t)
<1> DEFINE u == Tail(t)
           n == Len(t)
           h == Head(t)
<1>1. /\ u \in Seq(Steps) /\ h \in Steps /\ h = t[1] /\ 1 \in DOMAIN t
      /\ Len(u) = n - 1 /\ n \in Nat \ {0}
      /\ DOMAIN t = 1..n /\ DOMAIN u = 1..(n - 1)
      /\ \A i \in DOMAIN u : i + 1 \in DOMAIN t /\ u[i] = t[i + 1]
      /\ \A i \in DOMAIN t : i # 1 => i - 1 \in DOMAIN u /\ t[i] = u[i - 1]
  BY TailHas, Zenon
<1>2. /\ h \notin {"decide", "verify"}
      /\ \A i \in DOMAIN t : t[i] \in {"decide", "verify"} <=> i = n
  OBVIOUS
<1> HIDE DEF u, n, h
<1>3. n # 1
  BY <1>1, <1>2
<1>4. n - 1 \in DOMAIN u /\ u[n - 1] = t[n]
  BY <1>1, <1>3
<1>5. u # <<>>
  BY <1>4
<1>6. \A i \in DOMAIN u : u[i] \in {"decide", "verify"} <=> i = n - 1
  BY <1>1, <1>2
<1>7. /\ \A i \in DOMAIN u : \E k \in DOMAIN t : u[i] = t[k]
      /\ \A i \in DOMAIN t : t[i] = h \/ \E k \in DOMAIN u : t[i] = u[k]
      /\ \E i \in DOMAIN t : t[i] = h
  BY <1>1
<1>8. u[Len(u)] = t[n] /\ \A i \in DOMAIN u : u[i] \in {"decide", "verify"} <=> i = Len(u)
  BY <1>1, <1>4, <1>6
<1> QED
  BY <1>1, <1>5, <1>7, <1>8 DEF u, n, h
\* The start of a call keeps the shape.
LEMMA BeginShaped ==
    ASSUME Shaped, NEW c \in Callers, NEW o \in Ops, Begin(c, o)
    PROVE  Shaped'
<1>1. /\ todo[c] = <<>> /\ calls[c] < MaxCalls[c]
      /\ op' = [op EXCEPT ![c] = o]
      /\ calls' = [calls EXCEPT ![c] = calls[c] + 1]
      /\ found' = [found EXCEPT ![c] = vlans]
      /\ UNCHANGED <<model, switchVars>>
  BY DEF Begin
<1>2. SwitchOK /\ CallsOK /\ FoundOK /\ Mirrored /\ Scripted(c)
  BY DEF Shaped
<1>3. MaxCalls \in [Callers -> Nat]
  BY VlanAssumption DEF VlanAssumption
<1>4. /\ op' \in [Callers -> Ops] /\ op'[c] = o
      /\ \A d \in Callers : d # c => op'[d] = op[d]
      /\ calls' \in [Callers -> Nat] /\ \A d \in Callers : calls'[d] <= MaxCalls[d]
  BY <1>1, <1>2, <1>3 DEF CallsOK
<1>5. \A d \in Callers : found'[d] = IF d = c THEN vlans ELSE found[d]
  BY <1>1, <1>2 DEF FoundOK
<1>6. DOMAIN found' = Callers
  BY <1>1, <1>2 DEF FoundOK
<1>7. FoundOK'
  BY <1>2, <1>5, <1>6 DEF FoundOK, SwitchOK, IsTable
<1>8. CASE \E r \in Results : Return(c, r)
  BY <1>1, <1>4, <1>5, <1>7, <1>8, ReturnShaped
<1>9. CASE /\ todo' = [todo EXCEPT ![c] = Before(o) \o <<"decide">>]
           /\ result' = [result EXCEPT ![c] = "none"]
           /\ UNCHANGED <<seen, plan, tries>>
  <2> DEFINE t == Before(o) \o <<"decide">>
  <2>1. /\ Before(o) \in Seq(Steps)
        /\ \A i \in DOMAIN Before(o) : Before(o)[i] \notin {"decide", "verify"}
        /\ \A i \in DOMAIN Before(o) : Before(o)[i] \in {"mode", "allowed"} => Membership(o)
    BY ScriptSteps
  <2>2. /\ t \in Seq(Steps) /\ t # <<>> /\ t[Len(t)] = "decide"
        /\ \A i \in DOMAIN t : t[i] \in {"decide", "verify"} <=> i = Len(t)
        /\ \A i \in DOMAIN t : i # Len(t) => i \in DOMAIN Before(o) /\ t[i] = Before(o)[i]
    BY <2>1, ScriptEnds
  <2> HIDE DEF t
  <2>3. todo' = [todo EXCEPT ![c] = t]
    BY <1>9 DEF t
  <2>4. /\ todo' \in [Callers -> Seq(Steps)] /\ todo'[c] = t
        /\ \A d \in Callers : d # c => todo'[d] = todo[d]
    BY <1>2, <2>2, <2>3 DEF CallsOK
  <2>5. result' \in [Callers -> Results]
    BY <1>2, <1>9 DEF CallsOK, Results
  <2>6. CallMove(c)
    BY <1>2, <1>4, <1>9, <2>4, <2>5 DEF CallMove, CallsOK
  <2>7. plan[c] = Nothing
    BY <1>1, <1>2 DEF Scripted, Decided
  <2>8. plan'[c] = Nothing
    BY <1>9, <2>7
  <2>9. Scripted(c)'
    <3>1. \A i \in DOMAIN t : t[i] \in {"mode", "allowed"} => Membership(o)
      BY <2>1, <2>2
    <3>2. Membership(op'[c]) <=> Membership(o)
      BY <1>4
    <3> QED
      BY <2>2, <2>4, <2>8, <3>1, <3>2 DEF Scripted
  <2>10. Owned(c)'
    <3>1. DOMAIN plan'[c].pdus = {}
      BY <2>8 DEF Nothing
    <3> QED
      BY <3>1 DEF Owned
  <2>11. SwitchOK' /\ vlans' = vlans /\ model' = model
    BY <1>1, <1>2, SwitchKept
  <2>12. model.vlanWrite = "switchport" =>
            Nested(vlans') /\ \A d \in Callers : Nested(found'[d])
    BY <1>2, <1>5, <2>11 DEF Mirrored
  <2> QED
    BY <1>7, <2>6, <2>9, <2>10, <2>11, <2>12, ShapedFrom
<1> QED
  <2>1. \/ Return(c, "refused") \/ Return(c, "unsupported")
        \/ /\ todo' = [todo EXCEPT ![c] = Before(o) \o <<"decide">>]
           /\ result' = [result EXCEPT ![c] = "none"]
           /\ UNCHANGED <<seen, plan, tries>>
    BY Zenon DEF Begin
  <2>2. "refused" \in Results /\ "unsupported" \in Results
    BY DEF Results
  <2> QED
    BY <1>8, <1>9, <2>1, <2>2

\* A step of a call keeps its operation, its history and its place in the count.
LEMMA WalkShaped ==
    ASSUME Shaped, NEW c \in Callers, Walk(c)
    PROVE  Shaped'
<1>1. /\ todo[c] # <<>> /\ Head(todo[c]) \notin {"decide", "verify"}
      /\ plan[c].pdus = <<>>
      /\ seen' = [seen EXCEPT ![c] = Walked(seen[c], Head(todo[c]), op[c])]
      /\ todo' = [todo EXCEPT ![c] = Tail(todo[c])]
      /\ UNCHANGED <<model, switchVars>>
      /\ op' = op /\ plan' = plan /\ tries' = tries /\ result' = result /\ calls' = calls
      /\ found' = found
  BY DEF Walk
<1>2. SwitchOK /\ CallsOK /\ FoundOK /\ Mirrored /\ Scripted(c)
  BY DEF Shaped
<1> DEFINE t == todo[c]
           u == Tail(t)
           h == Head(t)
           w == Walked(seen[c], h, op[c])
<1>3. /\ t \in Seq(Steps) /\ seen[c] \in View /\ op[c] \in Ops
      /\ \A i \in DOMAIN t : t[i] \in {"decide", "verify"} <=> i = Len(t)
      /\ \A i \in DOMAIN t : t[i] \in {"mode", "allowed"} => Membership(op[c])
  BY <1>2 DEF CallsOK, Scripted
<1> HIDE DEF t
<1>4. /\ u \in Seq(Steps) /\ u # <<>> /\ u[Len(u)] = t[Len(t)]
      /\ \A i \in DOMAIN u : u[i] \in {"decide", "verify"} <=> i = Len(u)
      /\ \A i \in DOMAIN u : \E k \in DOMAIN t : u[i] = t[k]
      /\ h \in Steps /\ \E i \in DOMAIN t : t[i] = h
  <2>1. t # <<>> /\ Head(t) \notin {"decide", "verify"}
    BY <1>1 DEF t
  <2> QED
    BY <1>3, <2>1, ScriptGoesOn
<1>5. w \in View
  <2> HIDE DEF h
  <2>1. h \in Steps \ {"decide", "verify"}
    BY <1>1, <1>4 DEF h, t
  <2>2. h \in {"mode", "allowed"} => Membership(op[c])
    BY <1>3, <1>4
  <2> QED
    BY <1>2, <1>3, <2>1, <2>2, WalkedIs, Zenon
<1>6. todo' = [todo EXCEPT ![c] = u] /\ seen' = [seen EXCEPT ![c] = w]
  BY <1>1 DEF t
<1> HIDE DEF u, h, w
<1>7. /\ todo' \in [Callers -> Seq(Steps)] /\ todo'[c] = u /\ seen' \in [Callers -> View]
      /\ \A d \in Callers : d # c => todo'[d] = todo[d] /\ seen'[d] = seen[d]
  BY <1>2, <1>4, <1>5, <1>6 DEF CallsOK
<1>8. CallMove(c)
  BY <1>1, <1>2, <1>7 DEF CallMove, CallsOK
<1>9. Scripted(c)'
  <2>1. \A i \in DOMAIN u : u[i] \in {"mode", "allowed"} => Membership(op[c])
    BY <1>3, <1>4
  <2>2. Decided(c)' <=> Decided(c)
    BY <1>1, <1>4, <1>7 DEF Decided, LastStep, t
  <2>3. ~Decided(c)' => plan'[c] = Nothing
    BY <1>1, <1>2, <2>2 DEF Scripted
  <2>4. Membership(op[c]) <=> Membership(op'[c])
    BY <1>1
  <2> QED
    BY <1>4, <1>7, <2>1, <2>3, <2>4 DEF Scripted
<1>10. SwitchOK' /\ vlans' = vlans /\ model' = model
  BY <1>1, <1>2, SwitchKept
<1>11. FoundOK'
  BY <1>1, <1>2 DEF FoundOK
<1>12. model.vlanWrite = "switchport" =>
          Nested(vlans') /\ Owned(c)' /\ \A d \in Callers : Nested(found'[d])
  BY <1>1, <1>2, <1>10 DEF Mirrored, Owned
<1> QED
  BY <1>8, <1>9, <1>10, <1>11, <1>12, ShapedFrom

\* A call that ends in its decision keeps the shape.
LEMMA CallReturns ==
    ASSUME Shaped, NEW c \in Callers, NEW r \in Results, Return(c, r),
           UNCHANGED <<model, switchVars, op, calls, found>>
    PROVE  Shaped'
<1>1. /\ op' = op /\ calls' = calls /\ found' = found
      /\ UNCHANGED <<model, switchVars>>
  OBVIOUS
<1>2. /\ op' \in [Callers -> Ops] /\ \A d \in Callers : op'[d] = op[d]
      /\ calls' \in [Callers -> Nat] /\ \A d \in Callers : calls'[d] <= MaxCalls[d]
  BY <1>1 DEF Shaped, CallsOK
<1>3. FoundOK'
  BY <1>1 DEF Shaped, FoundOK
<1> QED
  BY <1>1, <1>2, <1>3, ReturnShaped
\* The four ends of a decision.
LEMMA DecideCases ==
    ASSUME NEW c, Decide(c)
    PROVE  LET o == op[c]
               saw == seen[c]
           IN  /\ todo[c] # <<>> /\ Head(todo[c]) = "decide"
               /\ UNCHANGED <<model, switchVars, op, calls, found>>
               /\ \/ \E r \in {"absent", "refused", "unsupported"} : Return(c, r)
                  \/ /\ ~Missing(saw, o) /\ ~(ViaSwitchport(o) /\ Inexpressible(saw, o))
                     /\ plan' = [plan EXCEPT ![c] = Plan(saw, o)]
                     /\ seen' = [seen EXCEPT ![c] = Unseen]
                     /\ todo' = [todo EXCEPT ![c] = After(o) \o <<"verify">>]
                     /\ UNCHANGED <<tries, result>>
<1> DEFINE o == op[c]
           saw == seen[c]
           go == /\ plan' = [plan EXCEPT ![c] = Plan(saw, o)]
                 /\ seen' = [seen EXCEPT ![c] = Unseen]
                 /\ todo' = [todo EXCEPT ![c] = After(o) \o <<"verify">>]
                 /\ UNCHANGED <<tries, result>>
<1>1. /\ todo[c] # <<>> /\ Head(todo[c]) = "decide"
      /\ IF Missing(saw, o) THEN Return(c, "absent")
         ELSE IF Clash(saw, o) THEN Return(c, "refused")
         ELSE IF ViaSwitchport(o) /\ Inexpressible(saw, o) THEN Return(c, "unsupported")
         ELSE go
      /\ UNCHANGED <<model, switchVars, op, calls, found>>
  BY Zenon DEF Decide
<1> HIDE DEF go, o, saw
<1>2. \/ Return(c, "absent") \/ Return(c, "refused") \/ Return(c, "unsupported")
      \/ ~Missing(saw, o) /\ ~(ViaSwitchport(o) /\ Inexpressible(saw, o)) /\ go
  BY <1>1, Zenon
<1> QED
  BY <1>1, <1>2 DEF go, o, saw

\* A decision keeps the shape.
LEMMA DecideShaped ==
    ASSUME Shaped, NEW c \in Callers, Decide(c)
    PROVE  Shaped'
<1> DEFINE o == op[c]
           saw == seen[c]
<1>1. UNCHANGED <<model, switchVars, op, calls, found>>
  BY DecideCases
<1>2. SwitchOK /\ CallsOK /\ FoundOK /\ Mirrored /\ Scripted(c)
  BY DEF Shaped
<1>3. CASE \E r \in Results : Return(c, r)
  BY <1>1, <1>3, CallReturns
<1>4. CASE /\ plan' = [plan EXCEPT ![c] = Plan(saw, o)]
           /\ seen' = [seen EXCEPT ![c] = Unseen]
           /\ todo' = [todo EXCEPT ![c] = After(o) \o <<"verify">>]
           /\ UNCHANGED <<tries, result>>
  <2> DEFINE t == After(o) \o <<"verify">>
             p == Plan(saw, o)
  <2>1. o \in Ops /\ saw \in View
    BY <1>2 DEF CallsOK
  <2>2. /\ After(o) \in Seq(Steps)
        /\ \A i \in DOMAIN After(o) :
              After(o)[i] \notin {"decide", "verify", "mode", "allowed"}
    BY <2>1, ScriptSteps
  <2>3. /\ t \in Seq(Steps) /\ t # <<>> /\ t[Len(t)] = "verify"
        /\ \A i \in DOMAIN t : t[i] \in {"decide", "verify"} <=> i = Len(t)
        /\ \A i \in DOMAIN t : i # Len(t) => i \in DOMAIN After(o) /\ t[i] = After(o)[i]
    BY <2>2, ScriptEnds
  <2>4. p \in Plans
    BY <2>1, PlanType
  <2>5. model.vlanWrite = "switchport" =>
           \A i \in DOMAIN p.pdus : \A j \in DOMAIN p.pdus[i] :
               p.pdus[i][j].col \notin {"egress", "untagged"}
    BY <2>1, PlanOwned
  <2>6. plan' = [plan EXCEPT ![c] = p] /\ todo' = [todo EXCEPT ![c] = t]
    BY <1>4
  <2>7. \A i \in DOMAIN t : t[i] \notin {"mode", "allowed"}
    BY <2>2, <2>3
  <2>8. seen' = [seen EXCEPT ![c] = Unseen]
    BY <1>4
  <2> HIDE DEF t, p, o, saw
  <2>9. /\ todo' \in [Callers -> Seq(Steps)] /\ todo'[c] = t
         /\ \A d \in Callers : d # c => todo'[d] = todo[d]
    BY <1>2, <2>3, <2>6 DEF CallsOK
  <2>10. /\ plan' \in [Callers -> Plans] /\ plan'[c] = p
         /\ \A d \in Callers : d # c => plan'[d] = plan[d]
    BY <1>2, <2>4, <2>6 DEF CallsOK
  <2>11. /\ seen' \in [Callers -> View]
         /\ \A d \in Callers : d # c => seen'[d] = seen[d]
    BY <1>2, <2>8, BlankTypes DEF CallsOK
  <2>12. /\ todo' \in [Callers -> Seq(Steps)] /\ todo'[c] = t
        /\ plan' \in [Callers -> Plans] /\ plan'[c] = p
        /\ seen' \in [Callers -> View]
        /\ \A d \in Callers : d # c => /\ todo'[d] = todo[d] /\ plan'[d] = plan[d]
                                       /\ seen'[d] = seen[d]
    BY <2>9, <2>10, <2>11
  <2>13. CallMove(c)
    BY <1>1, <1>2, <1>4, <2>12 DEF CallMove, CallsOK
  <2>14. Scripted(c)'
    BY <2>3, <2>12, <2>7 DEF Scripted, Decided, LastStep
  <2>15. SwitchOK' /\ vlans' = vlans /\ model' = model /\ FoundOK'
    BY <1>1, <1>2, SwitchKept DEF FoundOK
  <2>16. model.vlanWrite = "switchport" =>
            Nested(vlans') /\ Owned(c)' /\ \A d \in Callers : Nested(found'[d])
    BY <1>1, <1>2, <2>5, <2>12, <2>15 DEF Mirrored, Owned
  <2> QED
    BY <2>13, <2>14, <2>15, <2>16, ShapedFrom
<1> QED
  <2>1. {"absent", "refused", "unsupported"} \subseteq Results
    BY DEF Results
  <2> QED
    BY <1>3, <1>4, <2>1, DecideCases

\* A plan without its first PDU.
LEMMA PlanTail ==
    ASSUME NEW p \in Plans, p.pdus # <<>>
    PROVE  LET q == [p EXCEPT !.pdus = Tail(@)] IN
           /\ q \in Plans /\ q.pdus = Tail(p.pdus) /\ q.expected = p.expected
           /\ Head(p.pdus) \in Pdu /\ 1 \in DOMAIN p.pdus /\ Head(p.pdus) = p.pdus[1]
           /\ \A i \in DOMAIN q.pdus : i + 1 \in DOMAIN p.pdus /\ q.pdus[i] = p.pdus[i + 1]
<1> DEFINE s == p.pdus
           u == Tail(s)
           q == [p EXCEPT !.pdus = u]
<1>1. s \in Seq(Pdu) /\ p = [pdus |-> s, expected |-> p.expected]
  BY DEF Plans
<1>2. /\ u \in Seq(Pdu) /\ Head(s) \in Pdu /\ Head(s) = s[1] /\ 1 \in DOMAIN s
      /\ \A i \in DOMAIN u : i + 1 \in DOMAIN s /\ u[i] = s[i + 1]
  BY <1>1, TailHas
<1> HIDE DEF u
<1>3. q \in Plans /\ q.pdus = u /\ q.expected = p.expected
  BY <1>2 DEF Plans
<1> QED
  BY <1>2, <1>3 DEF u

\* The next PDU of a plan writes what the plan may write.
LEMMA OwnedHead ==
    ASSUME Shaped, NEW c \in Callers, plan[c].pdus # <<>>, model.vlanWrite = "switchport"
    PROVE  \A i \in DOMAIN Head(plan[c].pdus) :
              Head(plan[c].pdus)[i].col \notin {"egress", "untagged"}
<1>1. plan[c] \in Plans
  BY DEF Shaped, CallsOK
<1>2. 1 \in DOMAIN plan[c].pdus /\ Head(plan[c].pdus) = plan[c].pdus[1]
  BY <1>1, PlanTail
<1>3. Owned(c)
  BY DEF Shaped, Mirrored
<1> QED
  BY <1>2, <1>3 DEF Owned

\* The switch after a SET of a call's plan.
LEMMA TakeShaped ==
    ASSUME Shaped, NEW c \in Callers, plan[c].pdus # <<>>, Take(c, Head(plan[c].pdus)),
           model' = model
    PROVE  /\ SwitchOK' /\ FoundOK'
           /\ model.vlanWrite = "switchport" =>
                 Nested(vlans') /\ \A d \in Callers : Nested(found'[d])
<1> DEFINE req == Head(plan[c].pdus)
<1>1. plan[c] \in Plans
  BY DEF Shaped, CallsOK
<1>2. req \in Pdu
  BY <1>1, PlanTail
<1>3. model.vlanWrite = "switchport" =>
          \A i \in DOMAIN req : req[i].col \notin {"egress", "untagged"}
  BY OwnedHead
<1>4. Take(c, req)
  OBVIOUS
<1> HIDE DEF req
<1>5. /\ SwitchOK' /\ FoundOK'
      /\ (\A i \in DOMAIN req : req[i].col \notin {"egress", "untagged"}) /\ Nested(vlans) =>
            Nested(vlans')
      /\ \A d \in Callers : found'[d] = IF d = c THEN found[d] ELSE NoTable
  BY <1>2, <1>4, TakeKeeps DEF Shaped
<1>6. ASSUME model.vlanWrite = "switchport"
      PROVE  Nested(vlans') /\ \A d \in Callers : Nested(found'[d])
  BY <1>3, <1>5, <1>6, BlankTypes DEF Shaped, Mirrored
<1> QED
  BY <1>5, <1>6

\* A PDU applied and answered keeps the shape.
LEMMA AnsweredShaped ==
    ASSUME Shaped, NEW c \in Callers, Answered(c)
    PROVE  Shaped'
<1> DEFINE req == Head(plan[c].pdus)
<1>1. plan[c].pdus # <<>> /\ UNCHANGED <<model, op, calls>>
  BY DEF Answered
<1>2. SwitchOK /\ CallsOK /\ FoundOK /\ Mirrored /\ Scripted(c)
  BY DEF Shaped
<1>3. CASE Return(c, "failed") /\ UNCHANGED <<switchVars, found>>
  <2>1. "failed" \in Results
    BY DEF Results
  <2> QED
    BY <1>1, <1>3, <2>1, CallReturns
<1>4. CASE /\ Take(c, req)
           /\ plan' = [plan EXCEPT ![c].pdus = Tail(@)]
           /\ tries' = [tries EXCEPT ![c] = 0]
           /\ UNCHANGED <<todo, seen, result>>
  <2>1. /\ SwitchOK' /\ FoundOK'
        /\ model.vlanWrite = "switchport" =>
              Nested(vlans') /\ \A d \in Callers : Nested(found'[d])
    BY <1>1, <1>4, TakeShaped
  <2> DEFINE p == plan[c]
             q == [p EXCEPT !.pdus = Tail(@)]
  <2>2. p \in Plans /\ p.pdus # <<>>
    BY <1>1, <1>2 DEF CallsOK
  <2>3. /\ q \in Plans /\ q.pdus = Tail(p.pdus)
        /\ \A i \in DOMAIN q.pdus : i + 1 \in DOMAIN p.pdus /\ q.pdus[i] = p.pdus[i + 1]
    BY <2>2, PlanTail
  <2>4. plan' = [plan EXCEPT ![c] = q]
    BY <1>2, <1>4 DEF CallsOK
  <2> HIDE DEF q
  <2>5. /\ plan' \in [Callers -> Plans]
        /\ plan'[c] = q
        /\ \A d \in Callers : d # c => plan'[d] = plan[d]
    BY <1>2, <2>3, <2>4 DEF CallsOK
  <2>6. tries' \in [Callers -> 0..Retries]
    <3>1. 0 \in 0..Retries
      BY VlanAssumption DEF VlanAssumption
    <3> QED
      BY <1>2, <1>4, <3>1 DEF CallsOK
  <2>7. CallMove(c)
    BY <1>1, <1>2, <1>4, <2>5, <2>6 DEF CallMove, CallsOK
  <2>8. Scripted(c)'
    <3>1. todo'[c] = todo[c] /\ op'[c] = op[c]
      BY <1>1, <1>4
    <3>2. Decided(c)
      BY <1>1, <1>2, BlankTypes DEF Scripted
    <3>3. Decided(c)'
      BY <3>1, <3>2 DEF Decided, LastStep
    <3> QED
      BY <1>2, <3>1, <3>3 DEF Scripted, Membership
  <2>9. model.vlanWrite = "switchport" => Owned(c)'
    <3>1. model.vlanWrite = "switchport" => Owned(c)
      BY <1>2 DEF Mirrored
    <3> QED
      BY <2>3, <2>5, <3>1 DEF Owned
  <2> QED
    BY <1>1, <2>1, <2>7, <2>8, <2>9, ShapedFrom
<1> QED
  <2>1. IF Rejected(req) THEN Return(c, "failed") /\ UNCHANGED <<switchVars, found>>
        ELSE /\ Take(c, req)
             /\ plan' = [plan EXCEPT ![c].pdus = Tail(@)]
             /\ tries' = [tries EXCEPT ![c] = 0]
             /\ UNCHANGED <<todo, seen, result>>
    BY Zenon DEF Answered
  <2> QED
    BY <1>3, <1>4, <2>1

\* A PDU that got no answer, applied or not, keeps the shape.
LEMMA UnansweredShaped ==
    ASSUME Shaped, NEW c \in Callers, Unanswered(c)
    PROVE  Shaped'
<1>1. /\ plan[c].pdus # <<>> /\ UNCHANGED <<model, op, calls>> /\ TryAgain(c)
      /\ \/ UNCHANGED <<switchVars, found>>
         \/ Take(c, Head(plan[c].pdus))
  BY DEF Unanswered
<1>2. SwitchOK /\ CallsOK /\ FoundOK /\ Mirrored /\ Scripted(c)
  BY DEF Shaped
<1>3. /\ SwitchOK' /\ FoundOK' /\ model' = model
      /\ model.vlanWrite = "switchport" =>
            Nested(vlans') /\ \A d \in Callers : Nested(found'[d])
  <2>1. CASE UNCHANGED <<switchVars, found>>
    BY <1>1, <1>2, <2>1, SwitchKept DEF FoundOK, Mirrored
  <2>2. CASE Take(c, Head(plan[c].pdus))
    BY <1>1, <2>2, TakeShaped
  <2> QED
    BY <1>1, <2>1, <2>2
<1>4. CASE tries[c] < Retries
  <2>1. tries' = [tries EXCEPT ![c] = tries[c] + 1] /\ UNCHANGED <<todo, seen, plan, result>>
    BY <1>1, <1>4 DEF TryAgain
  <2>2. tries' \in [Callers -> 0..Retries]
    <3>1. tries[c] + 1 \in 0..Retries
      BY <1>2, <1>4, VlanAssumption DEF CallsOK, VlanAssumption
    <3> QED
      BY <1>2, <2>1, <3>1 DEF CallsOK
  <2>3. CallMove(c)
    BY <1>1, <1>2, <2>1, <2>2 DEF CallMove, CallsOK
  <2>4. Scripted(c)'
    BY <1>1, <1>2, <2>1 DEF Scripted, Decided, LastStep, Membership
  <2>5. model.vlanWrite = "switchport" => Owned(c)'
    BY <1>2, <2>1 DEF Mirrored, Owned
  <2> QED
    BY <1>3, <2>3, <2>4, <2>5, ShapedFrom
<1>5. CASE ~(tries[c] < Retries)
  <2>1. Return(c, "failed")
    BY <1>1, <1>5 DEF TryAgain
  <2>2. "failed" \in Results
    BY DEF Results
  <2>3. /\ op' \in [Callers -> Ops] /\ \A d \in Callers : op'[d] = op[d]
        /\ calls' \in [Callers -> Nat] /\ \A d \in Callers : calls'[d] <= MaxCalls[d]
    BY <1>1, <1>2 DEF CallsOK
  <2>4. CallMove(c) /\ todo'[c] = <<>> /\ plan'[c] = Nothing
    BY <1>2, <2>1, <2>2, <2>3, ReturnMoves
  <2>5. Scripted(c)' /\ Owned(c)'
    BY <2>4, IdleScripted
  <2> QED
    BY <1>3, <2>4, <2>5, ShapedFrom
<1> QED
  BY <1>4, <1>5

\* A verdict keeps the shape.
LEMMA VerifyShaped ==
    ASSUME Shaped, NEW c \in Callers, Verify(c)
    PROVE  Shaped'
<1>1. UNCHANGED <<model, switchVars, op, calls, found>>
  BY DEF Verify
<1>2. Return(c, "ok") \/ Return(c, "mismatch")
  BY Zenon DEF Verify
<1>3. "ok" \in Results /\ "mismatch" \in Results
  BY DEF Results
<1> QED
  BY <1>1, <1>2, <1>3, CallReturns

\* A walk that fails keeps the shape.
LEMMA FailShaped ==
    ASSUME Shaped, NEW c \in Callers, Fail(c)
    PROVE  Shaped'
<1>1. UNCHANGED <<model, switchVars, op, calls, found>> /\ Return(c, "failed")
  BY DEF Fail
<1>2. "failed" \in Results
  BY DEF Results
<1> QED
  BY <1>1, <1>2, CallReturns

\* The switch as it starts has the shape.
LEMMA InitShaped ==
    ASSUME Init
    PROVE  Shaped
<1> USE VlanAssumption DEF VlanAssumption
<1>1. PICK others \in SUBSET (VlanIds \ {DefaultVlan}) :
        vlans = [v \in {DefaultVlan} \union others |->
            IF model.vlanWrite = "switchport"
            THEN [name |-> NoName,
                  member |-> {p \in Ports : v \in UntaggedIn(port[p]) \union TaggedIn(port[p])},
                  untagged |-> {p \in Ports : v \in UntaggedIn(port[p])}]
            ELSE IF v = DefaultVlan THEN [NoVlan EXCEPT !.member = Ports, !.untagged = Ports]
            ELSE NoVlan]
  BY DEF Init
<1>2. /\ model \in Models /\ port \in [Ports -> Switchport]
      /\ pvid = [p \in Ports |-> IF model.vlanWrite = "switchport"
                                 THEN DerivedPvid(DefaultVlan, port[p]) ELSE DefaultVlan]
      /\ op = [c \in Callers |-> CHOOSE o \in Ops : TRUE]
      /\ todo = [c \in Callers |-> <<>>] /\ seen = [c \in Callers |-> Unseen]
      /\ plan = [c \in Callers |-> Nothing] /\ tries = [c \in Callers |-> 0]
      /\ result = [c \in Callers |-> "none"] /\ calls = [c \in Callers |-> 0]
      /\ found = [c \in Callers |-> NoTable]
  BY DEF Init
<1>3. /\ DOMAIN vlans \subseteq VlanIds
      /\ \A v \in DOMAIN vlans : vlans[v] \in Row /\ vlans[v] = vlans[v]
      /\ vlans = [v \in DOMAIN vlans |-> vlans[v]]
  <2> DEFINE derived(v) ==
                 [name |-> NoName,
                  member |-> {p \in Ports : v \in UntaggedIn(port[p]) \union TaggedIn(port[p])},
                  untagged |-> {p \in Ports : v \in UntaggedIn(port[p])}]
  <2>1. \A v : derived(v) \in Row
    BY DEF Row
  <2>2. NoVlan \in Row /\ [NoVlan EXCEPT !.member = Ports, !.untagged = Ports] \in Row
    BY DEF Row, NoVlan
  <2> QED
    BY <1>1, <2>1, <2>2
<1>4. IsTable(vlans)
  BY <1>3 DEF IsTable
<1>5. pvid \in [Ports -> VlanIds]
  BY <1>2, DerivedPvidType
<1>6. SwitchOK
  BY <1>2, <1>4, <1>5 DEF SwitchOK
<1>7. CallsOK
  <2>1. op \in [Callers -> Ops]
    BY <1>2
  <2>2. /\ todo \in [Callers -> Seq(Steps)] /\ seen \in [Callers -> View]
        /\ plan \in [Callers -> Plans] /\ tries \in [Callers -> 0..Retries]
    BY <1>2, BlankTypes
  <2>3. result \in [Callers -> Results] /\ calls \in [Callers -> Nat]
    BY <1>2 DEF Results
  <2>4. \A c \in Callers : calls[c] <= MaxCalls[c]
    BY <1>2
  <2> QED
    BY <2>1, <2>2, <2>3, <2>4 DEF CallsOK
<1>8. FoundOK
  BY <1>2, BlankTypes DEF FoundOK
<1>9. Mirrored
  <2> SUFFICES ASSUME model.vlanWrite = "switchport"
               PROVE  Nested(vlans) /\ \A c \in Callers : Nested(found[c]) /\ Owned(c)
    BY DEF Mirrored
  <2>1. Nested(vlans)
    BY <1>1 DEF Nested
  <2>2. \A c \in Callers : DOMAIN plan[c].pdus = {}
    BY <1>2 DEF Nothing
  <2> QED
    BY <1>2, <2>1, <2>2, BlankTypes DEF Owned
<1>10. \A c \in Callers : Scripted(c)
  <2>1. \A c \in Callers : DOMAIN todo[c] = {} /\ plan[c] = Nothing
    BY <1>2
  <2> QED
    BY <2>1 DEF Scripted
<1> QED
  BY <1>6, <1>7, <1>8, <1>9, <1>10 DEF Shaped

\* Every step keeps the shape.
LEMMA StepShaped ==
    ASSUME Shaped, [Next]_vars
    PROVE  Shaped'
<1>1. CASE UNCHANGED vars
  <2>1. /\ model' = model /\ op' = op /\ todo' = todo /\ seen' = seen /\ plan' = plan
        /\ tries' = tries /\ result' = result /\ calls' = calls /\ found' = found
        /\ vlans' = vlans /\ pvid' = pvid /\ port' = port
    BY <1>1 DEF vars, callVars, switchVars
  <2>2. SwitchOK' /\ CallsOK' /\ FoundOK'
    BY <2>1 DEF Shaped, SwitchOK, CallsOK, FoundOK, IsTable
  <2>3. Mirrored' /\ \A c \in Callers : Scripted(c)'
    BY <2>1 DEF Shaped, Mirrored, Nested, Owned, Scripted, Decided, LastStep, Membership
  <2> QED
    BY <2>2, <2>3 DEF Shaped
<1>2. ASSUME NEW c \in Callers, NEW o \in Ops, Begin(c, o)
      PROVE  Shaped'
  BY <1>2, BeginShaped
<1>3. ASSUME NEW c \in Callers, Step(c)
      PROVE  Shaped'
  BY <1>3, WalkShaped, DecideShaped, AnsweredShaped, UnansweredShaped, VerifyShaped, FailShaped
     DEF Step
<1> QED
  BY <1>1, <1>2, <1>3 DEF Next

\* The VLAN writer's state keeps its types (snmp/writer_vlan.go): whatever other
\* callers write between two of its walks or SETs, an operation sends well formed
\* PDUs, and an idle caller has nothing left to send.
THEOREM TypeCorrect == Spec => []TypeOK
<1>1. Shaped => TypeOK
  <2> SUFFICES ASSUME Shaped PROVE TypeOK
    OBVIOUS
  <2>1. SwitchOK /\ CallsOK /\ \A c \in Callers : Scripted(c)
    BY DEF Shaped
  <2>2. DOMAIN vlans \subseteq VlanIds /\ \A v \in DOMAIN vlans : vlans[v] \in Row
    BY <2>1 DEF SwitchOK, IsTable
  <2>3. ASSUME NEW c \in Callers
        PROVE  \A i \in DOMAIN plan[c].pdus : \A j \in DOMAIN plan[c].pdus[i] :
                  plan[c].pdus[i][j] \in Varbind
    <3> DEFINE s == plan[c].pdus
    <3>1. s \in Seq(Pdu)
      BY <2>1 DEF CallsOK, Plans
    <3>2. \A i \in DOMAIN s : s[i] \in Seq(Varbind)
      BY <3>1 DEF Pdu
    <3> QED
      BY <3>2
  <2>4. ASSUME NEW c \in Callers
        PROVE  /\ result[c] \in {"none", "ok", "refused", "absent", "unsupported", "mismatch",
                                 "failed"}
               /\ calls[c] \in 0..MaxCalls[c]
               /\ todo[c] = <<>> => plan[c] = Nothing
    <3>1. result[c] \in Results /\ calls[c] \in Nat /\ calls[c] <= MaxCalls[c]
      BY <2>1 DEF CallsOK
    <3>2. todo[c] = <<>> => plan[c] = Nothing
      BY <2>1 DEF Scripted, Decided
    <3>3. MaxCalls[c] \in Nat
      BY VlanAssumption DEF VlanAssumption
    <3> QED
      BY <3>1, <3>2, <3>3 DEF Results
  <2> QED
    BY <2>1, <2>2, <2>3, <2>4 DEF TypeOK, SwitchOK, CallsOK
<1>2. Init => Shaped
  BY InitShaped
<1>3. Shaped /\ [Next]_vars => Shaped'
  BY StepShaped
<1> QED
  BY <1>1, <1>2, <1>3, PTL DEF Spec

-----------------------------------------------------------------------------
(* What an undisturbed call has read and written. *)

\* A decision depends on nothing of the switch but its model.
LEMMA SameDecision ==
    ASSUME NEW c, NEW saw, model' = model, op'[c] = op[c], plan'[c].expected = plan[c].expected,
           found'[c] = found[c], DecidedOn(saw, c)
    PROVE  DecidedOn(saw, c)'
BY DEF DecidedOn, ExpectedOf, ViaSwitchport, Membership, NamesSeen, MembersSeen, UntaggedSeen,
       Missing

\* What a call has written is still there after a step that leaves the switch alone.
LEMMA SameWritten ==
    ASSUME NEW c, NEW saw, model' = model, op'[c] = op[c], plan'[c] = plan[c],
           found'[c] = found[c], vlans' = vlans, pvid' = pvid, port' = port, Written(c, saw)
    PROVE  Written(c, saw)'
<1> DEFINE o == op[c]
<1>1. /\ ViaSwitchport(o)' <=> ViaSwitchport(o)
      /\ ViaPortLists(o)' <=> ViaPortLists(o)
  BY DEF ViaSwitchport, ViaPortLists, Membership
<1>2. OthersKept(c)' <=> OthersKept(c)
  BY <1>1 DEF OthersKept
<1>3. OneWritten(c)' <=> OneWritten(c)
  BY DEF OneWritten, Achieved, Mode
<1>4. ListsWritten(c, saw)' <=> ListsWritten(c, saw)
  BY DEF ListsWritten
<1>5. InStep(o.port)' <=> InStep(o.port)
  BY DEF InStep
<1>6. TrunkWritten(c, saw)' <=> TrunkWritten(c, saw)
  BY <1>5 DEF TrunkWritten
<1>7. AccessWritten(c, saw)' <=> AccessWritten(c, saw)
  BY <1>5 DEF AccessWritten
<1> QED
  BY <1>1, <1>2, <1>3, <1>4, <1>6, <1>7 DEF Written

\* A call that another caller's step leaves undisturbed.
LEMMA SameUndisturbed ==
    ASSUME NEW c, model' = model, op'[c] = op[c], todo'[c] = todo[c], seen'[c] = seen[c],
           plan'[c] = plan[c], found'[c] = found[c], vlans' = vlans, pvid' = pvid,
           port' = port, Undisturbed(c)
    PROVE  Undisturbed(c)'
<1>1. /\ Deciding(c)' <=> Deciding(c)
      /\ Decided(c)' <=> Decided(c)
  BY DEF Deciding, Decided, LastStep
<1>2. ASSUME NEW w
      PROVE  Ahead(c, w)' <=> Ahead(c, w)
  BY DEF Ahead
<1>3. Membership(op[c])' <=> Membership(op[c])
  BY DEF Membership
<1>4. /\ NamesSeen(seen[c], vlans)' <=> NamesSeen(seen[c], vlans)
      /\ MembersSeen(seen[c], vlans)' <=> MembersSeen(seen[c], vlans)
      /\ UntaggedSeen(seen[c], vlans)' <=> UntaggedSeen(seen[c], vlans)
      /\ PvidsSeen(seen[c])' <=> PvidsSeen(seen[c])
  BY DEF NamesSeen, MembersSeen, UntaggedSeen, PvidsSeen
<1>5. /\ ReadFirst(c)' <=> ReadFirst(c)
      /\ Read(c)' <=> Read(c)
      /\ Unread(c)' <=> Unread(c)
  BY <1>2, <1>3, <1>4 DEF ReadFirst, Read, Unread
<1>6. ASSUME NEW saw \in View, DecidedOn(saw, c), Written(c, saw)
      PROVE  DecidedOn(saw, c)' /\ Written(c, saw)'
  BY <1>6, SameDecision, SameWritten
<1> QED
  BY <1>1, <1>5, <1>6 DEF Undisturbed

\* A call with no script has nothing to show.
LEMMA IdleUndisturbed ==
    ASSUME NEW c, todo'[c] = <<>>
    PROVE  Undisturbed(c)'
BY DEF Undisturbed, Deciding, Decided

\* A call that ends has no script.
LEMMA ReturnIdle ==
    ASSUME Shaped, NEW c \in Callers, NEW r, Return(c, r)
    PROVE  todo'[c] = <<>>
<1>1. DOMAIN todo = Callers
  BY DEF Shaped, CallsOK
<1> QED
  BY <1>1 DEF Return

\* A call that begins has read nothing.
LEMMA BeginReads ==
    ASSUME Shaped, NEW c \in Callers, NEW o \in Ops, Begin(c, o)
    PROVE  Undisturbed(c)'
<1>1. /\ op' = [op EXCEPT ![c] = o] /\ found' = [found EXCEPT ![c] = vlans]
      /\ vlans' = vlans
  BY DEF Begin, switchVars
<1>2. DOMAIN op = Callers /\ DOMAIN todo = Callers /\ DOMAIN found = Callers
  BY DEF Shaped, CallsOK, FoundOK
<1>3. CASE Return(c, "refused") \/ Return(c, "unsupported")
  BY <1>3, ReturnIdle, IdleUndisturbed
<1>4. CASE todo' = [todo EXCEPT ![c] = Before(o) \o <<"decide">>]
  <2> DEFINE t == Before(o) \o <<"decide">>
             s == Before(o)
  <2>1. /\ s \in Seq(Steps)
        /\ \A i \in DOMAIN s : s[i] \notin {"decide", "verify"}
        /\ \E i \in DOMAIN s : s[i] = "names"
        /\ Membership(o) => /\ \E i \in DOMAIN s : s[i] = "egress"
                            /\ \E i \in DOMAIN s : s[i] = "untagged"
    BY ScriptSteps
  <2>2. /\ t # <<>> /\ t[Len(t)] = "decide"
        /\ \A i \in DOMAIN s : i \in DOMAIN t /\ t[i] = s[i]
    BY <2>1, ScriptEnds
  <2>3. todo'[c] = t /\ op'[c] = o /\ found'[c] = vlans
    BY <1>1, <1>2, <1>4
  <2> HIDE DEF t, s
  <2>4. ~Decided(c)'
    BY <2>2, <2>3 DEF Decided, LastStep
  <2>5. Ahead(c, "names")' /\ (Membership(o) => Ahead(c, "egress")' /\ Ahead(c, "untagged")')
    BY <2>1, <2>2, <2>3 DEF Ahead
  <2>6. ReadFirst(c)'
    BY <1>1, <2>3, <2>5 DEF ReadFirst, Membership
  <2> QED
    BY <2>4, <2>6 DEF Undisturbed
<1> QED
  <2>1. \/ Return(c, "refused") \/ Return(c, "unsupported")
        \/ todo' = [todo EXCEPT ![c] = Before(o) \o <<"decide">>]
    BY Zenon DEF Begin
  <2> QED
    BY <1>3, <1>4, <2>1

\* A walk reads what the switch holds.
LEMMA WalkReads ==
    ASSUME Shaped, NEW c \in Callers, Walk(c), Undisturbed(c)
    PROVE  Undisturbed(c)'
<1> DEFINE t == todo[c]
           u == Tail(t)
           h == Head(t)
           o == op[c]
           s == seen[c]
           w == Walked(s, h, o)
<1>1. /\ t # <<>> /\ h \notin {"decide", "verify"} /\ plan[c].pdus = <<>>
      /\ seen' = [seen EXCEPT ![c] = w] /\ todo' = [todo EXCEPT ![c] = u]
      /\ UNCHANGED <<model, switchVars>>
      /\ op' = op /\ plan' = plan /\ found' = found
  BY DEF Walk
<1>2. SwitchOK /\ CallsOK /\ Scripted(c)
  BY DEF Shaped
<1>3. /\ t \in Seq(Steps) /\ s \in View /\ o \in Ops
      /\ \A i \in DOMAIN t : t[i] \in {"decide", "verify"} <=> i = Len(t)
      /\ \A i \in DOMAIN t : t[i] \in {"mode", "allowed"} => Membership(o)
  BY <1>2 DEF CallsOK, Scripted
<1>4. todo'[c] = u /\ seen'[c] = w
  BY <1>1, <1>2 DEF CallsOK
<1> HIDE DEF t
<1>5. /\ u # <<>> /\ u[Len(u)] = t[Len(t)]
      /\ \A i \in DOMAIN t : t[i] = h \/ \E k \in DOMAIN u : t[i] = u[k]
      /\ h \in Steps /\ \E i \in DOMAIN t : t[i] = h
  BY <1>1, <1>3, ScriptGoesOn
<1> HIDE DEF u, h, o, s
<1>6. /\ IF h = "names" THEN NamesSeen(w, vlans) ELSE w.names = s.names
      /\ IF h = "egress" THEN MembersSeen(w, vlans)
         ELSE w.member = s.member \/ (MembersSeen(s, vlans) => MembersSeen(w, vlans))
      /\ IF h = "untagged" THEN UntaggedSeen(w, vlans)
         ELSE w.untagged = s.untagged \/ (UntaggedSeen(s, vlans) => UntaggedSeen(w, vlans))
      /\ IF h = "pvids" THEN PvidsSeen(w) ELSE w.pvid = s.pvid
  <2>1. h \in Steps \ {"decide", "verify"}
    BY <1>1, <1>5
  <2>2. h \in {"mode", "allowed"} => Membership(o)
    BY <1>3, <1>5
  <2> QED
    BY <1>2, <1>3, <2>1, <2>2, WalkedIs, Zenon
<1> HIDE DEF w
<1>7. /\ model' = model /\ vlans' = vlans /\ pvid' = pvid /\ port' = port
      /\ op'[c] = o /\ op[c] = o /\ seen[c] = s /\ plan'[c] = plan[c] /\ found'[c] = found[c]
  BY <1>1 DEF switchVars, o, s
<1>8. ASSUME NEW x, x # h, Ahead(c, x)
      PROVE  Ahead(c, x)'
  BY <1>4, <1>5, <1>8 DEF Ahead, t
<1>9. /\ Ahead(c, "names") \/ NamesSeen(s, vlans) => Ahead(c, "names")' \/ NamesSeen(w, vlans)
      /\ Ahead(c, "egress") \/ MembersSeen(s, vlans) =>
            Ahead(c, "egress")' \/ MembersSeen(w, vlans)
      /\ Ahead(c, "untagged") \/ UntaggedSeen(s, vlans) =>
            Ahead(c, "untagged")' \/ UntaggedSeen(w, vlans)
      /\ Ahead(c, "pvids") \/ PvidsSeen(s) => Ahead(c, "pvids")' \/ PvidsSeen(w)
  <2>1. Ahead(c, "names") \/ NamesSeen(s, vlans) => Ahead(c, "names")' \/ NamesSeen(w, vlans)
    BY <1>6, <1>8 DEF NamesSeen
  <2>2. Ahead(c, "egress") \/ MembersSeen(s, vlans) =>
            Ahead(c, "egress")' \/ MembersSeen(w, vlans)
    BY <1>6, <1>8 DEF MembersSeen
  <2>3. Ahead(c, "untagged") \/ UntaggedSeen(s, vlans) =>
            Ahead(c, "untagged")' \/ UntaggedSeen(w, vlans)
    BY <1>6, <1>8 DEF UntaggedSeen
  <2>4. Ahead(c, "pvids") \/ PvidsSeen(s) => Ahead(c, "pvids")' \/ PvidsSeen(w)
    BY <1>6, <1>8 DEF PvidsSeen
  <2> QED
    BY <2>1, <2>2, <2>3, <2>4
<1>10. /\ NamesSeen(seen[c], vlans)' <=> NamesSeen(w, vlans)
       /\ MembersSeen(seen[c], vlans)' <=> MembersSeen(w, vlans)
       /\ UntaggedSeen(seen[c], vlans)' <=> UntaggedSeen(w, vlans)
       /\ PvidsSeen(seen[c])' <=> PvidsSeen(w)
  BY <1>4, <1>7 DEF NamesSeen, MembersSeen, UntaggedSeen, PvidsSeen
<1>11. /\ Deciding(c)' <=> Deciding(c)
       /\ Decided(c)' <=> Decided(c)
  BY <1>1, <1>4, <1>5 DEF Deciding, Decided, LastStep, t
<1>12. Membership(op[c])' <=> Membership(op[c])
  BY <1>7 DEF Membership
<1>13. ReadFirst(c) => ReadFirst(c)'
  BY <1>7, <1>9, <1>10, <1>12 DEF ReadFirst
<1>14. Read(c) => Read(c)'
  BY <1>7, <1>9, <1>10, <1>12 DEF Read
<1>15. ASSUME NEW saw \in View, DecidedOn(saw, c), Written(c, saw)
       PROVE  DecidedOn(saw, c)' /\ Written(c, saw)'
  BY <1>7, <1>15, SameDecision, SameWritten
<1> QED
  BY <1>1, <1>7, <1>11, <1>13, <1>14, <1>15 DEF Undisturbed

\* A call about to decide has nothing else ahead.
LEMMA DecideLast ==
    ASSUME Shaped, NEW c \in Callers, todo[c] # <<>>, Head(todo[c]) \in {"decide", "verify"}
    PROVE  /\ Len(todo[c]) = 1 /\ LastStep(c) = Head(todo[c])
           /\ \A w : Ahead(c, w) => w = Head(todo[c])
<1> DEFINE t == todo[c]
           n == Len(t)
<1>1. t \in Seq(Steps) /\ \A i \in DOMAIN t : t[i] \in {"decide", "verify"} <=> i = n
  BY DEF Shaped, CallsOK, Scripted
<1> HIDE DEF t
<1>2. Head(t) = t[1] /\ 1 \in DOMAIN t /\ DOMAIN t = 1..n /\ n \in Nat \ {0}
  <2>1. t # <<>>
    BY DEF t
  <2> QED
    BY <1>1, <2>1, TailHas
<1>3. Head(t) \in {"decide", "verify"}
  BY DEF t
<1> HIDE DEF n
<1>4. n = 1
  BY <1>1, <1>2, <1>3
<1>5. \A i \in DOMAIN t : i = 1
  BY <1>2, <1>4
<1> QED
  BY <1>2, <1>4, <1>5 DEF t, n, LastStep, Ahead

\* A decision is taken on what was found.
LEMMA DecideReads ==
    ASSUME Shaped, NEW c \in Callers, Decide(c), Undisturbed(c)
    PROVE  Undisturbed(c)'
<1> DEFINE o == op[c]
           saw == seen[c]
           p == Plan(saw, o)
           s == After(o)
           t == s \o <<"verify">>
<1>1. /\ todo[c] # <<>> /\ Head(todo[c]) = "decide"
      /\ UNCHANGED <<model, switchVars, op, calls, found>>
      /\ \/ \E r \in {"absent", "refused", "unsupported"} : Return(c, r)
         \/ /\ ~Missing(saw, o) /\ ~(ViaSwitchport(o) /\ Inexpressible(saw, o))
            /\ plan' = [plan EXCEPT ![c] = p]
            /\ todo' = [todo EXCEPT ![c] = t]
  BY DecideCases
<1>2. CASE \E r \in {"absent", "refused", "unsupported"} : Return(c, r)
  BY <1>2, ReturnIdle, IdleUndisturbed
<1>3. CASE /\ ~Missing(saw, o) /\ ~(ViaSwitchport(o) /\ Inexpressible(saw, o))
           /\ plan' = [plan EXCEPT ![c] = p]
           /\ todo' = [todo EXCEPT ![c] = t]
  <2>1. /\ model' = model /\ vlans' = vlans /\ op' = op /\ found' = found
        /\ o \in Ops /\ saw \in View
    BY <1>1 DEF switchVars, Shaped, CallsOK
  <2>2. DOMAIN plan = Callers /\ DOMAIN todo = Callers
    BY DEF Shaped, CallsOK
  <2>3. plan'[c] = p /\ todo'[c] = t
    BY <1>3, <2>2
  <2>4. /\ vlans = found[c] /\ NamesSeen(saw, vlans)
        /\ Membership(o) => MembersSeen(saw, vlans) /\ UntaggedSeen(saw, vlans)
    <3>1. LastStep(c) = "decide" /\ \A w : Ahead(c, w) => w = "decide"
      BY <1>1, DecideLast
    <3>2. ReadFirst(c)
      BY <1>1, <3>1 DEF Undisturbed, Deciding
    <3>3. ~Ahead(c, "names") /\ ~Ahead(c, "egress") /\ ~Ahead(c, "untagged")
      BY <3>1
    <3> QED
      BY <3>2, <3>3 DEF ReadFirst
  <2>5. /\ s \in Seq(Steps)
        /\ \A i \in DOMAIN s : s[i] \notin {"decide", "verify", "mode", "allowed"}
        /\ Membership(o) => /\ \E i \in DOMAIN s : s[i] = "egress"
                            /\ \E i \in DOMAIN s : s[i] = "untagged"
        /\ o.kind # "pvid" => \E i \in DOMAIN s : s[i] = "names"
        /\ o.kind = "pvid" => \E i \in DOMAIN s : s[i] = "pvids"
    BY <2>1, ScriptSteps
  <2> HIDE DEF s
  <2>6. /\ t # <<>> /\ t[Len(t)] = "verify"
        /\ \A i \in DOMAIN s : i \in DOMAIN t /\ t[i] = s[i]
    BY <2>5, ScriptEnds
  <2>7. p.pdus # <<>>
    BY <2>1, PlanType
  <2> HIDE DEF t
  <2>8. ~Deciding(c)'
    BY <2>3, <2>6 DEF Deciding, LastStep
  <2>9. Unread(c)'
    BY <2>1, <2>3, <2>5, <2>6 DEF Unread, Ahead, Membership
  <2>10. o.kind \in {"member", "pvid", "create", "delete"}
    BY <2>1, OpFields
  <2>11. /\ o.kind = "member" => p.pdus = PlansOf(saw, o) /\ p.expected = ExpectedOf(saw, o)
         /\ o.kind # "member" => p.pdus = <<OtherPdu(o)>>
    BY <2>10, MemberPlan, OtherPlan
  <2> HIDE DEF p
  <2>12. ASSUME NEW x, x = saw
         PROVE  DecidedOn(x, c)'
    <3>1. /\ NamesSeen(x, found'[c])
          /\ Membership(o) => MembersSeen(x, found'[c]) /\ UntaggedSeen(x, found'[c])
          /\ ~Missing(x, o) /\ ~(ViaSwitchport(o) /\ Inexpressible(x, o))
          /\ Membership(o) => plan'[c].expected = ExpectedOf(x, o)
      BY <1>3, <2>1, <2>3, <2>4, <2>11, <2>12 DEF Membership
    <3> QED
      BY <2>1, <3>1 DEF DecidedOn, ExpectedOf, ViaSwitchport, Membership, NamesSeen, MembersSeen,
                        UntaggedSeen, Missing
  <2>13. ASSUME NEW x, x = saw
         PROVE  Written(c, x)'
    <3>1. /\ o.kind # "member" => plan'[c].pdus = <<OtherPdu(o)>>
          /\ o.kind = "member" => plan'[c].pdus = PlansOf(x, o)
      BY <2>3, <2>11, <2>13
    <3>2. OneWritten(c)' \/ o.kind = "member"
      BY <2>1, <3>1 DEF OneWritten
    <3>3. OthersKept(c)'
      BY <2>1, <2>4 DEF OthersKept
    <3>4. ViaPortLists(o) => ListsWritten(c, x)'
      BY <2>1, <3>1 DEF ListsWritten, PlansOf, ViaPortLists, ViaSwitchport, Membership
    <3>5. ViaSwitchport(o) => IF WantTagged(x, o) # {} THEN TrunkWritten(c, x)'
                              ELSE AccessWritten(c, x)'
      BY <2>1, <3>1 DEF TrunkWritten, AccessWritten, PlansOf, ViaSwitchport, Membership
    <3> QED
      BY <2>1, <3>2, <3>3, <3>4, <3>5 DEF Written, ViaPortLists, ViaSwitchport, Membership
  <2> QED
    BY <2>1, <2>3, <2>7, <2>8, <2>9, <2>12, <2>13 DEF Undisturbed
<1> QED
  BY <1>1, <1>2, <1>3

-----------------------------------------------------------------------------
(* What a SET of the call does to the switch. *)

\* The switch after a PDU was taken.
LEMMA AppliedIs ==
    ASSUME NEW a
    PROVE  /\ Applied(<<a>>) = ApplyWrite(Switch, a)
           /\ \A b : Applied(<<a, b>>) = ApplyWrite(ApplyWrite(Switch, a), b)
<1>1. Applied(<<a>>) = ApplyWrite(Switch, a)
  <2> DEFINE req == <<a>>
  <2>1. Len(req) = 1 /\ req[1] = a
    BY Single
  <2> HIDE DEF req
  <2>2. Applied(req) = ApplyWrite(Switch, a)
    BY <2>1 DEF Applied
  <2> QED
    BY <2>2 DEF req
<1>2. ASSUME NEW b
      PROVE  Applied(<<a, b>>) = ApplyWrite(ApplyWrite(Switch, a), b)
  <2> DEFINE req == <<a, b>>
  <2>1. Len(req) = 2 /\ req[1] = a /\ req[2] = b
    BY Pair
  <2> HIDE DEF req
  <2>2. Len(req) # 1
    BY <2>1
  <2>3. Applied(req) = ApplyWrite(ApplyWrite(Switch, a), b)
    BY <2>1, <2>2 DEF Applied
  <2> QED
    BY <2>3 DEF req
<1> QED
  BY <1>1, <1>2

\* What an operation asked for depends on the switch only.
LEMMA AchievedIs ==
    ASSUME NEW o
    PROVE  /\ o.kind = "member" =>
                 (Achieved(o) <=> o.vlan \in DOMAIN vlans /\ Mode(vlans, o.vlan, o.port) = o.mode)
           /\ o.kind = "pvid" => (Achieved(o) <=> pvid[o.port] = o.vlan)
           /\ o.kind = "create" =>
                 (Achieved(o) <=> o.vlan \in DOMAIN vlans /\ vlans[o.vlan].name = o.name)
           /\ o.kind = "delete" => (Achieved(o) <=> o.vlan \notin DOMAIN vlans)
BY DEF Achieved

\* What one varbind does to a PVID, a VLAN's name, a VLAN.
LEMMA OneSet ==
    ASSUME NEW s, IsSwitch(s), NEW vb \in Varbind
    PROVE  LET r == ApplyWrite(s, vb) IN
           /\ vb.col = "pvid" => r.pvid[vb.port] = vb.vlan
           /\ vb.col = "name" => vb.vlan \in DOMAIN r.vlans /\ r.vlans[vb.vlan].name = vb.name
           /\ vb.col = "destroy" => vb.vlan \notin DOMAIN r.vlans
<1> DEFINE r == ApplyWrite(s, vb)
<1>1. CASE vb.col = "pvid"
  <2>1. r = [s EXCEPT !.pvid[vb.port] = vb.vlan] /\ vb.port \in Ports /\ vb.vlan \in VlanIds
    BY <1>1, ApplyIs, VarbindFields
  <2>2. r.pvid[vb.port] = vb.vlan
    BY <2>1, PvidIs
  <2> QED
    BY <1>1, <2>2
<1>2. CASE vb.col = "name"
  <2>1. r = WithRow(s, vb.vlan, vb.name) /\ vb.vlan \in VlanIds /\ vb.name \in Names
    BY <1>2, ApplyIs, VarbindFields
  <2>2. vb.name # NoName
    BY <2>1, VlanAssumption DEF VlanAssumption
  <2>3. vb.vlan \in DOMAIN r.vlans /\ r.vlans[vb.vlan].name = vb.name
    BY <2>1, <2>2, WithRowIs
  <2> QED
    BY <1>2, <2>3
<1>3. CASE vb.col = "destroy"
  <2>1. r = [s EXCEPT !.vlans = [x \in DOMAIN s.vlans \ {vb.vlan} |-> s.vlans[x]]]
    BY <1>3, ApplyIs, Zenon
  <2> HIDE DEF r
  <2>2. vb.vlan \notin DOMAIN r.vlans
    BY <2>1, DestroyIs, Zenon
  <2> QED
    BY <1>3, <2>2 DEF r
<1> QED
  BY <1>1, <1>2, <1>3, Zenon

\* PVID writes, creation and deletion: one PDU does it.
LEMMA OneTaken ==
    ASSUME SwitchOK, NEW o \in Ops, o.kind \in {"pvid", "create", "delete"},
           vlans' = Applied(OtherPdu(o)).vlans, pvid' = Applied(OtherPdu(o)).pvid
    PROVE  Achieved(o)'
<1>1. IsSwitch(Switch)
  BY SwitchIs
<1>2. o.vlan \in VlanIds
  BY OpFields
<1>3. CASE o.kind = "pvid"
  <2> DEFINE a == [col |-> "pvid", port |-> o.port, vlan |-> o.vlan]
  <2>1. a \in Varbind
    BY <1>2, <1>3, OpFields, VarbindOf
  <2>2. Applied(OtherPdu(o)) = ApplyWrite(Switch, a)
    BY <1>3, AppliedIs DEF OtherPdu
  <2>3. a.col = "pvid" /\ a.port = o.port /\ a.vlan = o.vlan
    OBVIOUS
  <2> HIDE DEF a
  <2>4. ApplyWrite(Switch, a).pvid[a.port] = a.vlan
    BY <1>1, <2>1, <2>3, OneSet
  <2>5. pvid'[o.port] = o.vlan
    BY <2>2, <2>3, <2>4
  <2> QED
    BY <1>3, <2>5 DEF Achieved
<1>4. CASE o.kind = "create"
  <2> DEFINE a == [col |-> "create", vlan |-> o.vlan]
             b == [col |-> "name", vlan |-> o.vlan, name |-> o.name]
             half == ApplyWrite(Switch, a)
  <2>1. o.name \in Names
    BY <1>4, OpFields
  <2>2. a \in Varbind /\ b \in Varbind
    BY <1>2, <2>1, VarbindOf
  <2>3. b.col = "name" /\ b.vlan = o.vlan /\ b.name = o.name
    OBVIOUS
  <2>4. OtherPdu(o) = <<a, b>>
    BY <1>4 DEF OtherPdu
  <2> HIDE DEF a, b
  <2>5. Applied(OtherPdu(o)) = ApplyWrite(half, b)
    BY <2>4, AppliedIs
  <2>6. IsSwitch(half)
    BY <1>1, <2>2, ApplyKeeps, Zenon
  <2> HIDE DEF half
  <2>7. b.vlan \in DOMAIN ApplyWrite(half, b).vlans
        /\ ApplyWrite(half, b).vlans[b.vlan].name = b.name
    BY <2>2, <2>3, <2>6, OneSet
  <2>8. o.vlan \in DOMAIN vlans' /\ vlans'[o.vlan].name = o.name
    BY <2>3, <2>5, <2>7
  <2> QED
    BY <1>4, <2>8 DEF Achieved
<1>5. CASE o.kind = "delete"
  <2> DEFINE a == [col |-> "destroy", vlan |-> o.vlan]
  <2>1. a \in Varbind
    BY <1>2, VarbindOf
  <2>2. Applied(OtherPdu(o)) = ApplyWrite(Switch, a)
    BY <1>5, AppliedIs DEF OtherPdu
  <2>3. a.col = "destroy" /\ a.vlan = o.vlan
    OBVIOUS
  <2> HIDE DEF a
  <2>4. a.vlan \notin DOMAIN ApplyWrite(Switch, a).vlans
    BY <1>1, <2>1, <2>3, OneSet
  <2>5. o.vlan \notin DOMAIN vlans'
    BY <2>2, <2>3, <2>4
  <2> QED
    BY <1>5, <2>5 DEF Achieved
<1> QED
  BY <1>3, <1>4, <1>5

\* The first port list of a VLAN, the second, and both in one PDU.
LEMMA EgressTaken ==
    ASSUME NEW s, IsSwitch(s), NEW vb \in Varbind, vb.col = "egress", vb.vlan \in DOMAIN s.vlans
    PROVE  LET r == ApplyWrite(s, vb) IN
           /\ IsSwitch(r) /\ DOMAIN r.vlans = DOMAIN s.vlans
           /\ \A w \in DOMAIN s.vlans : w # vb.vlan => r.vlans[w] = s.vlans[w]
           /\ r.vlans[vb.vlan].member = vb.ports
           /\ model.split => r.vlans[vb.vlan].untagged =
                 s.vlans[vb.vlan].untagged \union (vb.ports \ s.vlans[vb.vlan].member)
           /\ ~model.split => r.vlans[vb.vlan].untagged = s.vlans[vb.vlan].untagged
                               /\ r.written = s.written
<1> DEFINE r == ApplyWrite(s, vb)
           v == vb.vlan
           ports == vb.ports
<1>1. r = ReplaceMembers(s, v, ports) /\ ports \in SUBSET Ports /\ v \in DOMAIN s.vlans
  BY ApplyIs, VarbindFields
<1> HIDE DEF r, v, ports
<1>2. /\ IsSwitch(r) /\ DOMAIN r.vlans = DOMAIN s.vlans
      /\ r.port = s.port /\ r.pvid = s.pvid
      /\ \A w \in DOMAIN s.vlans : w # v => r.vlans[w] = s.vlans[w]
      /\ v \in DOMAIN s.vlans =>
            /\ r.vlans[v].member = ports
            /\ model.split =>
                  r.vlans[v].untagged = s.vlans[v].untagged \union (ports \ s.vlans[v].member)
            /\ ~model.split =>
                  r.vlans[v].untagged = s.vlans[v].untagged /\ r.written = s.written
  BY <1>1, MembersIs
<1> QED
  BY <1>1, <1>2 DEF r, v, ports

\* The second PDU of a port list write: the untagged ports.
LEMMA UntaggedTaken ==
    ASSUME NEW s, IsSwitch(s), NEW vb \in Varbind, vb.col = "untagged", vb.vlan \in DOMAIN s.vlans,
           vb.vlan \notin s.written
    PROVE  LET r == ApplyWrite(s, vb) IN
           /\ DOMAIN r.vlans = DOMAIN s.vlans
           /\ \A w \in DOMAIN s.vlans : /\ w # vb.vlan => r.vlans[w] = s.vlans[w]
                                        /\ r.vlans[w].member = s.vlans[w].member
           /\ r.vlans[vb.vlan].untagged = vb.ports
<1> DEFINE v == vb.vlan
           ports == vb.ports
           r == ReplaceUntagged(s, v, ports)
<1>1. /\ ApplyWrite(s, vb) = r /\ ports \in SUBSET Ports /\ v \in DOMAIN s.vlans
      /\ v \notin s.written
  BY ApplyIs, VarbindFields
<1> HIDE DEF v, ports
<1>2. /\ DOMAIN r.vlans = DOMAIN s.vlans
      /\ \A w \in DOMAIN s.vlans : /\ w # v => r.vlans[w] = s.vlans[w]
                                   /\ r.vlans[w].member = s.vlans[w].member
      /\ r.vlans[v].untagged = ports
  BY <1>1, UntaggedIs
<1> HIDE DEF r
<1> QED
  BY <1>1, <1>2 DEF v, ports

\* Membership written as port lists (writer_vlan.go): a SET, sent twice or not,
\* brings the VLAN nearer to the plan and leaves every other place alone.
LEMMA ListsTaken ==
    ASSUME SwitchOK, NEW c, NEW o \in Ops, o = op[c], op'[c] = o, ViaPortLists(o),
           NEW saw \in View, DecidedOn(saw, c), OthersKept(c), ListsWritten(c, saw),
           plan[c].pdus # <<>>, vlans' = Applied(Head(plan[c].pdus)).vlans, model' = model,
           found'[c] = found[c], plan'[c].pdus \in {plan[c].pdus, Tail(plan[c].pdus)}
    PROVE  OthersKept(c)' /\ ListsWritten(c, saw)'
<1> DEFINE v == o.vlan
           M == NewMembers(saw, o)
           U == NewUntagged(saw, o)
           e == Egress(saw, o)
           u == Untagged(saw, o)
           t == found[c]
<1>1. o.kind = "member" /\ ~ViaSwitchport(o) /\ v \in VlanIds /\ o.port \in Ports
  BY OpFields DEF ViaPortLists, ViaSwitchport, Membership
<1>2. M \in SUBSET Ports /\ U \in SUBSET Ports
  BY <1>1, ListsType
<1>3. e \in Varbind /\ u \in Varbind
  BY <1>1, <1>2, VarbindOf DEF Egress, Untagged
<1>4. /\ e.col = "egress" /\ e.vlan = v /\ e.ports = M
      /\ u.col = "untagged" /\ u.vlan = v /\ u.ports = U
  BY DEF Egress, Untagged
<1>5. /\ DOMAIN vlans = DOMAIN t
      /\ \A w \in DOMAIN vlans, p \in Ports :
            p # o.port \/ w # v => /\ p \in vlans[w].member <=> p \in t[w].member
                                   /\ p \in vlans[w].untagged <=> p \in t[w].untagged
  BY <1>1 DEF OthersKept
<1>6. v \in DOMAIN vlans
  <2>1. NamesSeen(saw, t) /\ ~Missing(saw, o)
    BY DEF DecidedOn
  <2> QED
    BY <1>1, <1>5, <2>1 DEF NamesSeen, Missing
<1>7. \A p \in Ports : p # o.port => /\ p \in M <=> p \in t[v].member
                                     /\ p \in U <=> p \in t[v].untagged
  <2>1. MembersSeen(saw, t) /\ UntaggedSeen(saw, t)
    BY <1>1 DEF DecidedOn, Membership
  <2>2. saw.member[v] = t[v].member /\ saw.untagged[v] = t[v].untagged
    BY <1>1, <1>5, <1>6, <2>1 DEF MembersSeen, UntaggedSeen
  <2> QED
    BY <2>2 DEF NewMembers, NewUntagged
<1>8. IsSwitch(Switch) /\ Switch.vlans = vlans /\ Switch.written = {}
  BY SwitchIs
<1>9. ASSUME DOMAIN vlans' = DOMAIN vlans,
             \A w \in DOMAIN vlans : w # v => vlans'[w] = vlans[w],
             \A p \in Ports : p # o.port => /\ p \in vlans'[v].member <=> p \in t[v].member
                                            /\ p \in vlans'[v].untagged <=> p \in t[v].untagged
      PROVE  OthersKept(c)'
  <2>1. /\ DOMAIN vlans' = DOMAIN t
        /\ \A w \in DOMAIN vlans', p \in Ports :
              p # o.port \/ w # v => /\ p \in vlans'[w].member <=> p \in t[w].member
                                     /\ p \in vlans'[w].untagged <=> p \in t[w].untagged
    BY <1>5, <1>9
  <2> QED
    BY <1>1, <2>1 DEF OthersKept, ViaSwitchport, Membership
<1> HIDE DEF e, u, M, U, t, v
<1> DEFINE pe == <<e>>
           pu == <<u>>
           both == <<e, u>>
<1>10. \/ plan[c].pdus = <<both>> /\ ~model.split
       \/ plan[c].pdus = <<pe, pu>> /\ model.split
       \/ plan[c].pdus = <<pu>> /\ vlans[v].member = M
  BY DEF ListsWritten, e, u, M, U, v
<1>11. ASSUME \/ plan'[c].pdus = <<both>> /\ ~model.split
              \/ plan'[c].pdus = <<pe, pu>> /\ model.split
              \/ plan'[c].pdus = <<pu>> /\ vlans'[v].member = M
              \/ plan'[c].pdus = <<>> /\ vlans'[v].member = M /\ vlans'[v].untagged = U
       PROVE  ListsWritten(c, saw)'
  BY <1>11 DEF ListsWritten, e, u, M, U, v
<1>12. /\ Applied(pe) = ApplyWrite(Switch, e) /\ Applied(pu) = ApplyWrite(Switch, u)
       /\ Applied(both) = ApplyWrite(ApplyWrite(Switch, e), u)
  BY AppliedIs
<1> HIDE DEF pe, pu, both
<1>13. CASE plan[c].pdus = <<both>> /\ ~model.split
  <2> DEFINE half == ApplyWrite(Switch, e)
  <2>1. /\ IsSwitch(half) /\ DOMAIN half.vlans = DOMAIN vlans
        /\ \A w \in DOMAIN vlans : w # v => half.vlans[w] = vlans[w]
        /\ half.vlans[v].member = M /\ half.written = {}
    BY <1>3, <1>4, <1>6, <1>8, <1>13, EgressTaken
  <2> HIDE DEF half
  <2> DEFINE r == ApplyWrite(half, u)
  <2>2. /\ DOMAIN r.vlans = DOMAIN half.vlans
        /\ \A w \in DOMAIN half.vlans : /\ w # v => r.vlans[w] = half.vlans[w]
                                        /\ r.vlans[w].member = half.vlans[w].member
        /\ r.vlans[v].untagged = U
    BY <1>3, <1>4, <1>6, <2>1, UntaggedTaken
  <2>3. Head(plan[c].pdus) = both /\ Tail(plan[c].pdus) = <<>>
    BY <1>13, Single
  <2>4. vlans' = r.vlans
    BY <1>12, <2>3 DEF half
  <2> HIDE DEF r
  <2>5. /\ DOMAIN vlans' = DOMAIN vlans
        /\ \A w \in DOMAIN vlans : w # v => vlans'[w] = vlans[w]
        /\ vlans'[v].member = M /\ vlans'[v].untagged = U
    BY <1>6, <2>1, <2>2, <2>4
  <2>6. OthersKept(c)'
    BY <1>7, <1>9, <2>5
  <2>7. plan'[c].pdus = <<both>> \/ plan'[c].pdus = <<>>
    BY <1>13, <2>3
  <2>8. ListsWritten(c, saw)'
    BY <1>11, <1>13, <2>5, <2>7
  <2> QED
    BY <2>6, <2>8
<1>14. CASE plan[c].pdus = <<pe, pu>> /\ model.split
  <2> DEFINE r == ApplyWrite(Switch, e)
  <2>1. /\ DOMAIN r.vlans = DOMAIN vlans
        /\ \A w \in DOMAIN vlans : w # v => r.vlans[w] = vlans[w]
        /\ r.vlans[v].member = M
        /\ r.vlans[v].untagged = vlans[v].untagged \union (M \ vlans[v].member)
    BY <1>3, <1>4, <1>6, <1>8, <1>14, EgressTaken
  <2>2. Head(plan[c].pdus) = pe /\ Tail(plan[c].pdus) = <<pu>>
    BY <1>14, Pair
  <2>3. vlans' = r.vlans
    BY <1>12, <2>2
  <2> HIDE DEF r
  <2>4. \A p \in Ports : p # o.port => /\ p \in vlans'[v].member <=> p \in t[v].member
                                       /\ p \in vlans'[v].untagged <=> p \in t[v].untagged
    BY <1>5, <1>6, <1>7, <2>1, <2>3
  <2>5. OthersKept(c)'
    BY <1>9, <2>1, <2>3, <2>4
  <2>6. plan'[c].pdus = <<pe, pu>> \/ plan'[c].pdus = <<pu>>
    BY <1>14, <2>2
  <2>7. ListsWritten(c, saw)'
    BY <1>11, <1>14, <2>1, <2>3, <2>6
  <2> QED
    BY <2>5, <2>7
<1>15. CASE plan[c].pdus = <<pu>> /\ vlans[v].member = M
  <2> DEFINE r == ApplyWrite(Switch, u)
  <2>1. /\ DOMAIN r.vlans = DOMAIN vlans
        /\ \A w \in DOMAIN vlans : /\ w # v => r.vlans[w] = vlans[w]
                                   /\ r.vlans[w].member = vlans[w].member
        /\ r.vlans[v].untagged = U
    BY <1>3, <1>4, <1>6, <1>8, UntaggedTaken
  <2>2. Head(plan[c].pdus) = pu /\ Tail(plan[c].pdus) = <<>>
    BY <1>15, Single
  <2>3. vlans' = r.vlans
    BY <1>12, <2>2
  <2> HIDE DEF r
  <2>4. vlans'[v].member = M /\ vlans'[v].untagged = U
    BY <1>6, <1>15, <2>1, <2>3
  <2>5. OthersKept(c)'
    BY <1>7, <1>9, <2>1, <2>3, <2>4
  <2>6. plan'[c].pdus = <<pu>> \/ plan'[c].pdus = <<>>
    BY <1>15, <2>2
  <2>7. ListsWritten(c, saw)'
    BY <1>11, <2>4, <2>6
  <2> QED
    BY <2>5, <2>7
<1> QED
  BY <1>10, <1>13, <1>14, <1>15

\* A switchport column: the port's row, its places derived from it, and nobody else's.
LEMMA PlugTaken ==
    ASSUME SwitchOK, NEW vb \in Varbind, Plugs(vb), NEW p, p = vb.port,
           vlans' = Applied(<<vb>>).vlans, port' = Applied(<<vb>>).port
    PROVE  /\ DOMAIN vlans' = DOMAIN vlans
           /\ \A v \in DOMAIN vlans, q \in Ports : q # p =>
                 /\ q \in vlans'[v].member <=> q \in vlans[v].member
                 /\ q \in vlans'[v].untagged <=> q \in vlans[v].untagged
           /\ InStep(p)'
           /\ port'[p].allowed = IF vb.col = "allowed" THEN vb.vlans ELSE port[p].allowed
           /\ port'[p].native = IF vb.col = "native" THEN vb.vlan ELSE port[p].native
           /\ port'[p].access = IF vb.col = "access" THEN vb.vlan ELSE port[p].access
           /\ port'[p].mode = IF vb.col = "mode" THEN vb.mode ELSE port[p].mode
<1> DEFINE sp == SetRow(Switch, vb)
           s == Switch
<1>1. IsSwitch(s) /\ s.vlans = vlans /\ s.port = port /\ IsTable(vlans)
  BY SwitchIs DEF SwitchOK
<1> HIDE DEF s
<1>2. /\ Applied(<<vb>>) = Replug(s, p, sp) /\ p \in Ports /\ sp \in Switchport
  <2>1. Applied(<<vb>>) = ApplyWrite(s, vb)
    BY AppliedIs DEF s
  <2>2. /\ ApplyWrite(s, vb) = Replug(s, p, SetRow(s, vb))
        /\ p \in Ports
        /\ SetRow(s, vb) \in Switchport
    BY <1>1, PlugIs
  <2> QED
    BY <2>1, <2>2 DEF s
<1>3. port[p] \in Switchport
  BY <1>2 DEF SwitchOK
<1>4. /\ sp.allowed = IF vb.col = "allowed" THEN vb.vlans ELSE port[p].allowed
      /\ sp.native = IF vb.col = "native" THEN vb.vlan ELSE port[p].native
      /\ sp.access = IF vb.col = "access" THEN vb.vlan ELSE port[p].access
      /\ sp.mode = IF vb.col = "mode" THEN vb.mode ELSE port[p].mode
  <2> DEFINE row == port[p]
  <2>1. /\ s.port[vb.port] = row
        /\ DOMAIN row = {"mode", "access", "native", "allowed", "untagged", "tagged"}
    BY <1>1, <1>3 DEF Switchport
  <2> HIDE DEF row
  <2>2. sp = IF vb.col = "allowed" THEN [row EXCEPT !.allowed = vb.vlans]
             ELSE IF vb.col = "native" THEN [row EXCEPT !.native = vb.vlan]
             ELSE IF vb.col = "access" THEN [row EXCEPT !.access = vb.vlan]
             ELSE [row EXCEPT !.mode = vb.mode]
    BY <2>1 DEF SetRow, s
  <2> HIDE DEF sp
  <2>3. CASE vb.col = "allowed"
    BY <2>1, <2>2, <2>3 DEF row
  <2>4. CASE vb.col = "native"
    BY <2>1, <2>2, <2>4 DEF row
  <2>5. CASE vb.col = "access"
    BY <2>1, <2>2, <2>5 DEF row
  <2>6. CASE vb.col = "mode"
    BY <2>1, <2>2, <2>6 DEF row
  <2> QED
    BY <2>3, <2>4, <2>5, <2>6 DEF Plugs
<1> HIDE DEF sp
<1>5. vlans' = Derived(vlans, p, sp) /\ port' = [port EXCEPT ![p] = sp]
  <2>1. /\ Replug(s, p, sp).vlans = Derived(s.vlans, p, sp)
        /\ Replug(s, p, sp).port = [s.port EXCEPT ![p] = sp]
    BY <1>1, <1>2, ReplugIs
  <2> QED
    BY <1>1, <1>2, <2>1
<1>6. port'[p] = sp
  BY <1>2, <1>5 DEF SwitchOK
<1>7. /\ DOMAIN vlans' = DOMAIN vlans
      /\ \A v \in DOMAIN vlans, q \in Ports :
            /\ q \in vlans'[v].member <=> IF q = p THEN v \in UntaggedIn(sp) \union TaggedIn(sp)
                                          ELSE q \in vlans[v].member
            /\ q \in vlans'[v].untagged <=> IF q = p THEN v \in UntaggedIn(sp)
                                            ELSE q \in vlans[v].untagged
  BY <1>1, <1>2, <1>5, DerivedIs
<1>8. InStep(p)'
  BY <1>2, <1>6, <1>7 DEF InStep
<1> QED
  BY <1>4, <1>6, <1>7, <1>8

\* The three SETs of a trunk, one after the other.
LEMMA TrunkTaken ==
    ASSUME SwitchOK, NEW c, NEW o \in Ops, o = op[c], op'[c] = o, o.kind = "member",
           NEW saw \in View, TrunkWritten(c, saw),
           plan[c].pdus # <<>>, vlans' = Applied(Head(plan[c].pdus)).vlans,
           port' = Applied(Head(plan[c].pdus)).port,
           plan'[c].pdus \in {plan[c].pdus, Tail(plan[c].pdus)}
    PROVE  /\ TrunkWritten(c, saw)' /\ DOMAIN vlans' = DOMAIN vlans
           /\ \A v \in DOMAIN vlans, q \in Ports : q # o.port =>
                 /\ q \in vlans'[v].member <=> q \in vlans[v].member
                 /\ q \in vlans'[v].untagged <=> q \in vlans[v].untagged
<1> DEFINE p == o.port
           A == AllowedVlans(saw, o)
           N == NativeVlan(saw, o)
           a == Allowed(saw, o)
           n == Placed("native", saw, o)
           m == InMode("trunk", o)
<1>1. /\ a \in Varbind /\ n \in Varbind /\ m \in Varbind
  BY OpFields, ListsType, VarbindOf DEF Allowed, Placed, InMode
<1>2. /\ a.col = "allowed" /\ a.port = p /\ a.vlans = A
      /\ n.col = "native" /\ n.port = p /\ n.vlan = N
      /\ m.col = "mode" /\ m.port = p /\ m.mode = "trunk"
  BY DEF Allowed, Placed, InMode
<1>3. Plugs(a) /\ Plugs(n) /\ Plugs(m)
  BY <1>2 DEF Plugs
<1> HIDE DEF a, n, m, A, N, p
<1> DEFINE pa == <<a>>
           pn == <<n>>
           pm == <<m>>
<1>4. \/ plan[c].pdus = <<pa, pn, pm>>
      \/ plan[c].pdus = <<pn, pm>> /\ port[p].allowed = A
      \/ plan[c].pdus = <<pm>> /\ port[p].allowed = A /\ port[p].native = N
  BY DEF TrunkWritten, a, n, m, A, N, p
<1>5. ASSUME \/ plan'[c].pdus = <<pa, pn, pm>>
             \/ plan'[c].pdus = <<pn, pm>> /\ port'[p].allowed = A
             \/ plan'[c].pdus = <<pm>> /\ port'[p].allowed = A /\ port'[p].native = N
             \/ plan'[c].pdus = <<>> /\ port'[p].allowed = A /\ port'[p].native = N
                   /\ port'[p].mode = "trunk" /\ InStep(p)'
      PROVE  TrunkWritten(c, saw)'
  BY <1>5 DEF TrunkWritten, a, n, m, A, N, p, InStep
<1>6. ASSUME NEW vb \in Varbind, Plugs(vb), vb.port = p, Head(plan[c].pdus) = <<vb>>
      PROVE  /\ DOMAIN vlans' = DOMAIN vlans
             /\ \A v \in DOMAIN vlans, q \in Ports : q # p =>
                   /\ q \in vlans'[v].member <=> q \in vlans[v].member
                   /\ q \in vlans'[v].untagged <=> q \in vlans[v].untagged
             /\ InStep(p)'
             /\ port'[p].allowed = IF vb.col = "allowed" THEN vb.vlans ELSE port[p].allowed
             /\ port'[p].native = IF vb.col = "native" THEN vb.vlan ELSE port[p].native
             /\ port'[p].mode = IF vb.col = "mode" THEN vb.mode ELSE port[p].mode
  <2>1. vlans' = Applied(<<vb>>).vlans /\ port' = Applied(<<vb>>).port
    BY <1>6
  <2> QED
    BY <1>6, <2>1, PlugTaken
<1>7. CASE plan[c].pdus = <<pa, pn, pm>>
  <2>1. Head(plan[c].pdus) = pa /\ Tail(plan[c].pdus) = <<pn, pm>>
    BY <1>7, Triple
  <2>2. plan'[c].pdus = <<pa, pn, pm>> \/ plan'[c].pdus = <<pn, pm>>
    BY <1>7, <2>1
  <2> HIDE DEF pn, pm
  <2>3. port'[p].allowed = A
    BY <1>1, <1>2, <1>3, <1>6, <2>1
  <2> QED
    BY <1>1, <1>2, <1>3, <1>5, <1>6, <2>1, <2>2, <2>3 DEF p
<1>8. CASE plan[c].pdus = <<pn, pm>> /\ port[p].allowed = A
  <2>1. Head(plan[c].pdus) = pn /\ Tail(plan[c].pdus) = <<pm>>
    BY <1>8, Pair
  <2>2. plan'[c].pdus = <<pn, pm>> \/ plan'[c].pdus = <<pm>>
    BY <1>8, <2>1
  <2> HIDE DEF pm
  <2>3. port'[p].allowed = A /\ port'[p].native = N
    BY <1>1, <1>2, <1>3, <1>6, <1>8, <2>1
  <2> QED
    BY <1>1, <1>2, <1>3, <1>5, <1>6, <2>1, <2>2, <2>3 DEF p
<1>9. CASE plan[c].pdus = <<pm>> /\ port[p].allowed = A /\ port[p].native = N
  <2>1. Head(plan[c].pdus) = pm /\ Tail(plan[c].pdus) = <<>>
    BY <1>9, Single
  <2>2. plan'[c].pdus = <<pm>> \/ plan'[c].pdus = <<>>
    BY <1>9, <2>1
  <2>3. port'[p].allowed = A /\ port'[p].native = N /\ port'[p].mode = "trunk"
    BY <1>1, <1>2, <1>3, <1>6, <1>9, <2>1
  <2> QED
    BY <1>1, <1>2, <1>3, <1>5, <1>6, <2>1, <2>2, <2>3 DEF p
<1> QED
  BY <1>4, <1>7, <1>8, <1>9

\* The two SETs of an access port, one after the other.
LEMMA AccessTaken ==
    ASSUME SwitchOK, NEW c, NEW o \in Ops, o = op[c], op'[c] = o, o.kind = "member",
           NEW saw \in View, AccessWritten(c, saw),
           plan[c].pdus # <<>>, vlans' = Applied(Head(plan[c].pdus)).vlans,
           port' = Applied(Head(plan[c].pdus)).port,
           plan'[c].pdus \in {plan[c].pdus, Tail(plan[c].pdus)}
    PROVE  /\ AccessWritten(c, saw)' /\ DOMAIN vlans' = DOMAIN vlans
           /\ \A v \in DOMAIN vlans, q \in Ports : q # o.port =>
                 /\ q \in vlans'[v].member <=> q \in vlans[v].member
                 /\ q \in vlans'[v].untagged <=> q \in vlans[v].untagged
<1> DEFINE p == o.port
           N == NativeVlan(saw, o)
           a == Placed("access", saw, o)
           m == InMode("access", o)
<1>1. /\ a \in Varbind /\ m \in Varbind
  BY OpFields, ListsType, VarbindOf DEF Placed, InMode
<1>2. /\ a.col = "access" /\ a.port = p /\ a.vlan = N
      /\ m.col = "mode" /\ m.port = p /\ m.mode = "access"
  BY DEF Placed, InMode
<1>3. Plugs(a) /\ Plugs(m)
  BY <1>2 DEF Plugs
<1> HIDE DEF a, m, N, p
<1> DEFINE pa == <<a>>
           pm == <<m>>
<1>4. \/ plan[c].pdus = <<pa, pm>>
      \/ plan[c].pdus = <<pm>> /\ port[p].access = N
  BY DEF AccessWritten, a, m, N, p
<1>5. ASSUME \/ plan'[c].pdus = <<pa, pm>>
             \/ plan'[c].pdus = <<pm>> /\ port'[p].access = N
             \/ plan'[c].pdus = <<>> /\ port'[p].access = N
                   /\ port'[p].mode = "access" /\ InStep(p)'
      PROVE  AccessWritten(c, saw)'
  BY <1>5 DEF AccessWritten, a, m, N, p, InStep
<1>6. ASSUME NEW vb \in Varbind, Plugs(vb), vb.port = p, Head(plan[c].pdus) = <<vb>>
      PROVE  /\ DOMAIN vlans' = DOMAIN vlans
             /\ \A v \in DOMAIN vlans, q \in Ports : q # p =>
                   /\ q \in vlans'[v].member <=> q \in vlans[v].member
                   /\ q \in vlans'[v].untagged <=> q \in vlans[v].untagged
             /\ InStep(p)'
             /\ port'[p].access = IF vb.col = "access" THEN vb.vlan ELSE port[p].access
             /\ port'[p].mode = IF vb.col = "mode" THEN vb.mode ELSE port[p].mode
  <2>1. vlans' = Applied(<<vb>>).vlans /\ port' = Applied(<<vb>>).port
    BY <1>6
  <2> QED
    BY <1>6, <2>1, PlugTaken
<1>7. CASE plan[c].pdus = <<pa, pm>>
  <2>1. Head(plan[c].pdus) = pa /\ Tail(plan[c].pdus) = <<pm>>
    BY <1>7, Pair
  <2>2. plan'[c].pdus = <<pa, pm>> \/ plan'[c].pdus = <<pm>>
    BY <1>7, <2>1
  <2> HIDE DEF pm
  <2>3. port'[p].access = N
    BY <1>1, <1>2, <1>3, <1>6, <2>1
  <2> QED
    BY <1>1, <1>2, <1>3, <1>5, <1>6, <2>1, <2>2, <2>3 DEF p
<1>8. CASE plan[c].pdus = <<pm>> /\ port[p].access = N
  <2>1. Head(plan[c].pdus) = pm /\ Tail(plan[c].pdus) = <<>>
    BY <1>8, Single
  <2>2. plan'[c].pdus = <<pm>> \/ plan'[c].pdus = <<>>
    BY <1>8, <2>1
  <2>3. port'[p].access = N /\ port'[p].mode = "access"
    BY <1>1, <1>2, <1>3, <1>6, <1>8, <2>1
  <2> QED
    BY <1>1, <1>2, <1>3, <1>5, <1>6, <2>1, <2>2, <2>3 DEF p
<1> QED
  BY <1>4, <1>7, <1>8

\* Whatever the operation, a SET taken once or twice is accounted for.
LEMMA TakeWrites ==
    ASSUME SwitchOK, NEW c, op[c] \in Ops, op'[c] = op[c], NEW saw \in View,
           DecidedOn(saw, c), Written(c, saw), plan[c].pdus # <<>>,
           vlans' = Applied(Head(plan[c].pdus)).vlans, pvid' = Applied(Head(plan[c].pdus)).pvid,
           port' = Applied(Head(plan[c].pdus)).port, model' = model, found'[c] = found[c],
           plan'[c].pdus \in {plan[c].pdus, Tail(plan[c].pdus)}
    PROVE  Written(c, saw)'
<1> DEFINE o == op[c]
<1>1. o \in Ops /\ o.kind \in {"member", "pvid", "create", "delete"}
  BY OpFields
<1>2. CASE o.kind # "member"
  <2>1. OneWritten(c)
    BY <1>2 DEF Written
  <2>2. plan[c].pdus = <<OtherPdu(o)>>
    BY <2>1 DEF OneWritten
  <2>3. Head(plan[c].pdus) = OtherPdu(o) /\ Tail(plan[c].pdus) = <<>>
    BY <2>2, Single
  <2>4. plan'[c].pdus = <<OtherPdu(o)>> \/ plan'[c].pdus = <<>>
    BY <2>2, <2>3
  <2>5. ASSUME NEW x, x = o
        PROVE  Achieved(x)'
    BY <1>1, <1>2, <2>3, <2>5, OneTaken
  <2>6. Achieved(op[c])'
    BY <2>5 DEF Achieved, Mode
  <2>7. OneWritten(c)'
    BY <2>4, <2>6 DEF OneWritten
  <2> QED
    BY <1>2, <2>7 DEF Written, ViaPortLists, ViaSwitchport, Membership
<1>3. CASE ViaPortLists(o)
  <2>1. o.kind = "member" /\ ~ViaSwitchport(o)
    BY <1>3 DEF ViaPortLists, ViaSwitchport, Membership
  <2>2. OthersKept(c) /\ ListsWritten(c, saw)
    BY <1>3, <2>1 DEF Written
  <2>3. OthersKept(c)' /\ ListsWritten(c, saw)'
    BY <1>1, <1>3, <2>2, ListsTaken
  <2> QED
    BY <2>1, <2>3 DEF Written, ViaSwitchport, Membership
<1>4. CASE ViaSwitchport(o)
  <2>1. o.kind = "member" /\ ~ViaPortLists(o)
    BY <1>4 DEF ViaPortLists, ViaSwitchport, Membership
  <2>2. /\ OthersKept(c)
        /\ IF WantTagged(saw, o) # {} THEN TrunkWritten(c, saw) ELSE AccessWritten(c, saw)
    BY <1>4, <2>1 DEF Written
  <2>3. /\ IF WantTagged(saw, o) # {} THEN TrunkWritten(c, saw)' ELSE AccessWritten(c, saw)'
        /\ DOMAIN vlans' = DOMAIN vlans
        /\ \A v \in DOMAIN vlans, q \in Ports : q # o.port =>
              /\ q \in vlans'[v].member <=> q \in vlans[v].member
              /\ q \in vlans'[v].untagged <=> q \in vlans[v].untagged
    <3>1. CASE WantTagged(saw, o) # {}
      BY <1>1, <2>1, <2>2, <3>1, TrunkTaken
    <3>2. CASE WantTagged(saw, o) = {}
      BY <1>1, <2>1, <2>2, <3>2, AccessTaken
    <3> QED
      BY <3>1, <3>2
  <2>4. OthersKept(c)'
    BY <1>4, <2>2, <2>3 DEF OthersKept, ViaSwitchport, Membership
  <2> QED
    BY <1>4, <2>1, <2>3, <2>4 DEF Written, ViaPortLists, ViaSwitchport, Membership
<1> QED
  BY <1>1, <1>2, <1>3, <1>4 DEF ViaPortLists, ViaSwitchport, Membership

\* A SET the agent has taken, answered or not, leaves the call's script alone.
LEMMA TakeReads ==
    ASSUME Shaped, NEW c \in Callers, Undisturbed(c), plan[c].pdus # <<>>,
           Take(c, Head(plan[c].pdus)), model' = model, op'[c] = op[c], todo'[c] = todo[c],
           plan'[c].pdus \in {plan[c].pdus, Tail(plan[c].pdus)},
           plan'[c].expected = plan[c].expected
    PROVE  Undisturbed(c)'
<1>1. SwitchOK /\ op[c] \in Ops /\ Scripted(c)
  BY DEF Shaped, CallsOK
<1>2. Decided(c)
  BY <1>1, BlankTypes DEF Scripted
<1>3. ~Deciding(c) /\ ~Deciding(c)' /\ Decided(c)'
  BY <1>2 DEF Decided, Deciding, LastStep
<1>4. Unread(c)
  BY <1>2 DEF Undisturbed
<1>5. Unread(c)'
  BY <1>4 DEF Unread, Ahead, Membership
<1>6. Read(c)'
  BY <1>5 DEF Read, Unread, Ahead, Membership
<1>7. /\ vlans' = Applied(Head(plan[c].pdus)).vlans /\ pvid' = Applied(Head(plan[c].pdus)).pvid
      /\ port' = Applied(Head(plan[c].pdus)).port /\ found'[c] = found[c]
  BY DEF Take
<1>8. PICK saw \in View : DecidedOn(saw, c) /\ Written(c, saw)
  BY <1>2 DEF Undisturbed
<1>9. DecidedOn(saw, c)'
  BY <1>7, <1>8, SameDecision
<1>10. Written(c, saw)'
  BY <1>1, <1>7, <1>8, TakeWrites
<1> QED
  BY <1>3, <1>5, <1>6, <1>9, <1>10 DEF Undisturbed

\* A PDU applied and answered is one the plan no longer holds.
LEMMA AnsweredReads ==
    ASSUME Shaped, NEW c \in Callers, Answered(c), Undisturbed(c)
    PROVE  Undisturbed(c)'
<1> DEFINE req == Head(plan[c].pdus)
<1>1. plan[c].pdus # <<>> /\ UNCHANGED <<model, op, calls>>
  BY DEF Answered
<1>2. CASE Return(c, "failed")
  BY <1>2, ReturnIdle, IdleUndisturbed
<1>3. CASE /\ Take(c, req)
           /\ plan' = [plan EXCEPT ![c].pdus = Tail(@)]
           /\ UNCHANGED <<todo, seen, result>>
  <2> DEFINE p == plan[c]
             q == [p EXCEPT !.pdus = Tail(@)]
  <2>1. p \in Plans /\ DOMAIN plan = Callers
    BY DEF Shaped, CallsOK
  <2>2. q.pdus = Tail(p.pdus) /\ q.expected = p.expected
    BY <1>1, <2>1, PlanTail
  <2>3. plan'[c] = q
    BY <1>3, <2>1
  <2> HIDE DEF q
  <2>4. /\ plan'[c].pdus \in {plan[c].pdus, Tail(plan[c].pdus)}
        /\ plan'[c].expected = plan[c].expected
    BY <2>2, <2>3
  <2> QED
    BY <1>1, <1>3, <2>4, TakeReads
<1> QED
  <2>1. \/ Return(c, "failed")
        \/ /\ Take(c, req)
           /\ plan' = [plan EXCEPT ![c].pdus = Tail(@)]
           /\ UNCHANGED <<todo, seen, result>>
    BY Zenon DEF Answered
  <2> QED
    BY <1>2, <1>3, <2>1

\* A PDU that got no answer is sent again, and does no harm twice.
LEMMA UnansweredReads ==
    ASSUME Shaped, NEW c \in Callers, Unanswered(c), Undisturbed(c)
    PROVE  Undisturbed(c)'
<1>1. /\ plan[c].pdus # <<>> /\ UNCHANGED <<model, op, calls>>
      /\ UNCHANGED <<switchVars, found>> \/ Take(c, Head(plan[c].pdus))
      /\ UNCHANGED <<todo, seen, plan>> \/ Return(c, "failed")
  BY DEF Unanswered, TryAgain
<1>2. CASE Return(c, "failed")
  BY <1>2, ReturnIdle, IdleUndisturbed
<1>3. CASE UNCHANGED <<todo, seen, plan>> /\ UNCHANGED <<switchVars, found>>
  BY <1>1, <1>3, SameUndisturbed DEF switchVars
<1>4. CASE UNCHANGED <<todo, seen, plan>> /\ Take(c, Head(plan[c].pdus))
  BY <1>1, <1>4, TakeReads
<1> QED
  BY <1>1, <1>2, <1>3, <1>4

\* What a step of one caller does to the others.
LEMMA OthersStep ==
    ASSUME Shaped, NEW c \in Callers, (\E o \in Ops : Begin(c, o)) \/ Step(c),
           NEW d \in Callers, d # c
    PROVE  \/ found'[d] = NoTable
           \/ /\ UNCHANGED <<model, vlans, pvid, port>> /\ found'[d] = found[d]
              /\ op'[d] = op[d] /\ todo'[d] = todo[d] /\ seen'[d] = seen[d] /\ plan'[d] = plan[d]
<1>1. /\ DOMAIN op = Callers /\ DOMAIN todo = Callers /\ DOMAIN seen = Callers
      /\ DOMAIN plan = Callers /\ DOMAIN found = Callers
  BY DEF Shaped, CallsOK, FoundOK
<1>2. ASSUME NEW r, Return(c, r)
      PROVE  todo'[d] = todo[d] /\ seen'[d] = seen[d] /\ plan'[d] = plan[d]
  BY <1>1, <1>2 DEF Return
<1>3. ASSUME NEW req, Take(c, req)
      PROVE  found'[d] = NoTable
  BY <1>3 DEF Take
<1>4. ASSUME NEW o \in Ops, Begin(c, o)
      PROVE  /\ UNCHANGED <<model, vlans, pvid, port>> /\ found'[d] = found[d]
             /\ op'[d] = op[d] /\ todo'[d] = todo[d] /\ seen'[d] = seen[d] /\ plan'[d] = plan[d]
  <2>1. /\ UNCHANGED <<model, switchVars>> /\ found' = [found EXCEPT ![c] = vlans]
        /\ op' = [op EXCEPT ![c] = o]
    BY <1>4 DEF Begin
  <2>2. \/ Return(c, "refused") \/ Return(c, "unsupported")
        \/ todo' = [todo EXCEPT ![c] = Before(o) \o <<"decide">>] /\ UNCHANGED <<seen, plan>>
    BY <1>4, Zenon DEF Begin
  <2>3. todo'[d] = todo[d] /\ seen'[d] = seen[d] /\ plan'[d] = plan[d]
    BY <1>1, <1>2, <2>2
  <2> QED
    BY <1>1, <2>1, <2>3 DEF switchVars
<1>5. CASE Walk(c)
  BY <1>1, <1>5 DEF Walk, switchVars
<1>6. CASE Decide(c)
  <2>1. UNCHANGED <<model, switchVars, op, calls, found>>
    BY <1>6, DecideCases
  <2>2. \/ \E r \in {"absent", "refused", "unsupported"} : Return(c, r)
        \/ /\ plan' = [plan EXCEPT ![c] = Plan(seen[c], op[c])]
           /\ seen' = [seen EXCEPT ![c] = Unseen]
           /\ todo' = [todo EXCEPT ![c] = After(op[c]) \o <<"verify">>]
    BY <1>6, DecideCases
  <2>3. todo'[d] = todo[d] /\ seen'[d] = seen[d] /\ plan'[d] = plan[d]
    BY <1>1, <1>2, <2>2
  <2> QED
    BY <2>1, <2>3 DEF switchVars
<1>7. CASE Answered(c)
  <2>1. UNCHANGED <<model, op>>
    BY <1>7 DEF Answered
  <2>2. CASE Return(c, "failed") /\ UNCHANGED <<switchVars, found>>
    BY <1>2, <2>1, <2>2 DEF switchVars
  <2>3. CASE Take(c, Head(plan[c].pdus))
    BY <1>3, <2>3
  <2> QED
    BY <1>7, <2>2, <2>3, Zenon DEF Answered
<1>8. CASE Unanswered(c)
  <2>1. /\ UNCHANGED <<model, op>>
        /\ UNCHANGED <<switchVars, found>> \/ Take(c, Head(plan[c].pdus))
        /\ UNCHANGED <<todo, seen, plan>> \/ Return(c, "failed")
    BY <1>8 DEF Unanswered, TryAgain
  <2>2. todo'[d] = todo[d] /\ seen'[d] = seen[d] /\ plan'[d] = plan[d]
    BY <1>2, <2>1
  <2> QED
    BY <1>3, <2>1, <2>2 DEF switchVars
<1>9. CASE Verify(c)
  <2>1. UNCHANGED <<model, switchVars, op, calls, found>>
    BY <1>9 DEF Verify
  <2>2. Return(c, "ok") \/ Return(c, "mismatch")
    BY <1>9, Zenon DEF Verify
  <2> QED
    BY <1>2, <2>1, <2>2 DEF switchVars
<1>10. CASE Fail(c)
  <2>1. UNCHANGED <<model, switchVars, op, calls, found>> /\ Return(c, "failed")
    BY <1>10 DEF Fail
  <2> QED
    BY <1>2, <2>1 DEF switchVars
<1> QED
  BY <1>4, <1>5, <1>6, <1>7, <1>8, <1>9, <1>10 DEF Step

\* A step of its own keeps what a call began with.
LEMMA OwnStep ==
    ASSUME Shaped, NEW c \in Callers, Step(c)
    PROVE  found'[c] = found[c]
<1>1. ASSUME NEW req, Take(c, req)
      PROVE  found'[c] = found[c]
  BY <1>1 DEF Take
<1>2. CASE Walk(c)
  BY <1>2 DEF Walk
<1>3. CASE Decide(c)
  BY <1>3, DecideCases
<1>4. CASE Answered(c)
  <2>1. CASE UNCHANGED <<switchVars, found>>
    BY <2>1
  <2>2. CASE Take(c, Head(plan[c].pdus))
    BY <1>1, <2>2
  <2> QED
    BY <1>4, <2>1, <2>2, Zenon DEF Answered
<1>5. CASE Unanswered(c)
  BY <1>1, <1>5 DEF Unanswered
<1>6. CASE Verify(c) \/ Fail(c)
  BY <1>6 DEF Verify, Fail
<1> QED
  BY <1>2, <1>3, <1>4, <1>5, <1>6 DEF Step

\* The invariant holds at the start.
LEMMA InitInv ==
    ASSUME Init
    PROVE  IInv
<1>1. \A c \in Callers : todo[c] = <<>>
  BY DEF Init
<1>2. \A c \in Callers : Undisturbed(c)
  BY <1>1 DEF Undisturbed, Deciding, Decided
<1> QED
  BY <1>2, InitShaped DEF IInv

\* Every step keeps the invariant.
LEMMA StepInv ==
    ASSUME IInv, [Next]_vars
    PROVE  IInv'
<1>1. Shaped /\ Shaped'
  BY StepShaped DEF IInv
<1>2. ASSUME UNCHANGED vars, NEW d \in Callers, ~Disturbed(d)'
      PROVE  Undisturbed(d)'
  <2>1. Undisturbed(d)
    BY <1>2 DEF IInv, Disturbed, vars
  <2> QED
    BY <1>2, <2>1, SameUndisturbed DEF vars, switchVars, callVars
<1>3. ASSUME NEW c \in Callers, (\E o \in Ops : Begin(c, o)) \/ Step(c),
             NEW d \in Callers, d # c, ~Disturbed(d)'
      PROVE  Undisturbed(d)'
  <2>1. found'[d] # NoTable
    BY <1>3 DEF Disturbed, NoTable
  <2>2. /\ UNCHANGED <<model, vlans, pvid, port>> /\ found'[d] = found[d]
        /\ op'[d] = op[d] /\ todo'[d] = todo[d] /\ seen'[d] = seen[d] /\ plan'[d] = plan[d]
    BY <1>1, <1>3, <2>1, OthersStep
  <2>3. Undisturbed(d)
    BY <2>1, <2>2 DEF IInv, Disturbed
  <2> QED
    BY <2>2, <2>3, SameUndisturbed
<1>4. ASSUME NEW c \in Callers, NEW o \in Ops, Begin(c, o)
      PROVE  Undisturbed(c)'
  BY <1>1, <1>4, BeginReads
<1>5. ASSUME NEW c \in Callers, Step(c), ~Disturbed(c)'
      PROVE  Undisturbed(c)'
  <2>1. Undisturbed(c)
    <3>1. found'[c] # NoTable
      BY <1>5 DEF Disturbed, NoTable
    <3>2. found[c] # NoTable
      BY <1>1, <1>5, <3>1, OwnStep
    <3> QED
      BY <3>2 DEF IInv, Disturbed
  <2>2. CASE Walk(c)
    BY <1>1, <2>1, <2>2, WalkReads
  <2>3. CASE Decide(c)
    BY <1>1, <2>1, <2>3, DecideReads
  <2>4. CASE Answered(c)
    BY <1>1, <2>1, <2>4, AnsweredReads
  <2>5. CASE Unanswered(c)
    BY <1>1, <2>1, <2>5, UnansweredReads
  <2>6. CASE Verify(c)
    <3>1. Return(c, "ok") \/ Return(c, "mismatch")
      BY <2>6, Zenon DEF Verify
    <3> QED
      BY <1>1, <3>1, ReturnIdle, IdleUndisturbed
  <2>7. CASE Fail(c)
    <3>1. Return(c, "failed")
      BY <2>7 DEF Fail
    <3> QED
      BY <1>1, <3>1, ReturnIdle, IdleUndisturbed
  <2> QED
    BY <1>5, <2>2, <2>3, <2>4, <2>5, <2>6, <2>7 DEF Step
<1>6. \A d \in Callers : ~Disturbed(d)' => Undisturbed(d)'
  BY <1>2, <1>3, <1>4, <1>5 DEF Next
<1> QED
  BY <1>1, <1>6 DEF IInv

-----------------------------------------------------------------------------
(* The verdict. *)

\* A set of at most one VLAN.
LEMMA AtMostOne ==
    ASSUME NEW S, IsFiniteSet(S), ~(Cardinality(S) > 1), NEW a \in S, NEW b \in S
    PROVE  a = b
<1> SUFFICES ASSUME a # b PROVE FALSE
  OBVIOUS
<1>1. {a, b} \subseteq S /\ IsFiniteSet({a, b})
  BY FS_Subset
<1>2. Cardinality({a, b}) = 2
  <2>1. IsFiniteSet({a}) /\ Cardinality({a}) = 1
    BY FS_Singleton
  <2>2. Cardinality({a} \union {b}) = Cardinality({a}) + 1
    BY <2>1, FS_AddElement
  <2>3. {a, b} = {a} \union {b}
    OBVIOUS
  <2> QED
    BY <2>1, <2>2, <2>3
<1>3. Cardinality({a, b}) <= Cardinality(S)
  BY <1>1, FS_Subset
<1>4. Cardinality(S) \in Nat
  BY FS_CardinalityType
<1> QED
  BY <1>2, <1>3, <1>4

\* PlanSwitchportMembership: what the port's VLANs are to be.
LEMMA Wanted ==
    ASSUME NEW saw \in View, NEW o \in Ops, o.kind = "member", ~Inexpressible(saw, o),
           saw.names[o.vlan] # "absent"
    PROVE  LET W == WantTagged(saw, o)
               U == WantUntagged(saw, o)
               N == NativeVlan(saw, o)
           IN  /\ W \subseteq Existing(saw) /\ U \subseteq Existing(saw)
               /\ U = {} => N = DefaultVlan
               /\ U # {} => U = {N}
               /\ N \notin W
               /\ o.mode = "untagged" => N = o.vlan
               /\ o.mode = "tagged" => o.vlan \in W
               /\ o.mode # "tagged" => o.vlan \notin W
               /\ o.mode # "untagged" => o.vlan \notin U
               /\ \A v \in Existing(saw) : v \in AllowedVlans(saw, o) <=> v \in W \/ v = N
<1> DEFINE W == WantTagged(saw, o)
           U == WantUntagged(saw, o)
           N == NativeVlan(saw, o)
           E == Existing(saw)
           T == TaggedVlans(saw, o.port)
           V == UntaggedVlans(saw, o.port)
<1>1. o.vlan \in E /\ o.vlan \in VlanIds /\ o.mode \in Modes
  BY OpFields DEF Existing
<1>2. T \subseteq E /\ V \subseteq E /\ T \intersect V = {} /\ E \subseteq VlanIds
  BY DEF TaggedVlans, UntaggedVlans, Existing
<1>3. /\ W = IF o.mode = "tagged" THEN T \union {o.vlan} ELSE T \ {o.vlan}
      /\ U = IF o.mode = "untagged" THEN {o.vlan} ELSE V \ {o.vlan}
  BY DEF WantTagged, WantUntagged
<1>4. /\ N = IF U = {} THEN DefaultVlan ELSE CHOOSE v \in U : TRUE
      /\ ~(Cardinality(U) > 1) /\ ~(U = {} /\ DefaultVlan \in W)
  BY DEF NativeVlan, Inexpressible
<1>5. \A v \in E : v \in AllowedVlans(saw, o) <=> v \in W \/ v = N
  BY DEF AllowedVlans
<1> HIDE DEF E, T, V, W, U, N
<1>6. IsFiniteSet(U)
  <2>1. U \subseteq VlanIds
    BY <1>1, <1>2, <1>3
  <2> QED
    BY <2>1, VlanAssumption, FS_Subset DEF VlanAssumption
<1>7. U # {} => U = {N}
  <2> SUFFICES ASSUME U # {} PROVE U = {N}
    OBVIOUS
  <2>1. N \in U
    BY <1>4
  <2>2. \A a, b \in U : a = b
    BY <1>4, <1>6, AtMostOne
  <2> QED
    BY <2>1, <2>2
<1>8. N \notin W
  <2>1. CASE U = {}
    BY <1>4, <2>1
  <2>2. CASE U # {}
    <3>1. N \in U
      BY <1>7, <2>2
    <3> QED
      BY <1>1, <1>2, <1>3, <3>1 DEF Modes
  <2> QED
    BY <2>1, <2>2
<1>9. W \subseteq E /\ U \subseteq E
  BY <1>1, <1>2, <1>3
<1>10. o.mode = "untagged" => N = o.vlan
  BY <1>3, <1>7
<1>11. /\ o.mode = "tagged" => o.vlan \in W
       /\ o.mode # "tagged" => o.vlan \notin W
       /\ o.mode # "untagged" => o.vlan \notin U
  BY <1>3
<1>12. U = {} => N = DefaultVlan
  BY <1>4
<1> QED
  BY <1>5, <1>7, <1>8, <1>9, <1>10, <1>11, <1>12 DEF E, W, U, N

\* The table a decision was taken on is the one the call began with.
LEMMA FoundSeen ==
    ASSUME NEW t, IsTable(t), NEW saw \in View, NamesSeen(saw, t)
    PROVE  /\ Existing(saw) = DOMAIN t
           /\ \A v \in VlanIds : saw.names[v] # "absent" <=> v \in DOMAIN t
<1>1. \A v \in DOMAIN t : v \in VlanIds /\ t[v].name # "absent"
  BY VlanAssumption DEF IsTable, Row, VlanAssumption
<1> QED
  BY <1>1 DEF Existing, NamesSeen

\* A switchport write that has been sent: the port is untagged in one VLAN and
\* tagged in those wanted.
LEMMA PlaceWritten ==
    ASSUME FoundOK, NEW c \in Callers, NEW o \in Ops, o = op[c], ViaSwitchport(o),
           NEW saw \in View, DecidedOn(saw, c), Written(c, saw), plan[c].pdus = <<>>
    PROVE  /\ DOMAIN vlans = Existing(saw)
           /\ \A v \in DOMAIN vlans :
                 /\ o.port \in vlans[v].untagged <=> v = NativeVlan(saw, o)
                 /\ o.port \in vlans[v].member <=>
                       v = NativeVlan(saw, o) \/ v \in WantTagged(saw, o)
<1> DEFINE p == o.port
           W == WantTagged(saw, o)
           N == NativeVlan(saw, o)
           A == AllowedVlans(saw, o)
           sp == port[p]
<1>1. o.kind = "member"
  BY DEF ViaSwitchport, Membership
<1>2. OthersKept(c) /\ NamesSeen(saw, found[c]) /\ ~Missing(saw, o) /\ ~Inexpressible(saw, o)
  BY <1>1 DEF Written, DecidedOn
<1>3. DOMAIN vlans = Existing(saw)
  <2>1. IsTable(found[c])
    BY DEF FoundOK
  <2> QED
    BY <1>2, <2>1, FoundSeen DEF OthersKept
<1>4. saw.names[o.vlan] # "absent"
  BY <1>1, <1>2 DEF Missing
<1>5. \A v \in DOMAIN vlans : v \in A <=> v \in W \/ v = N
  BY <1>1, <1>2, <1>3, <1>4, Wanted
<1> HIDE DEF p, W, N, A, sp
<1>6. /\ \A v \in DOMAIN vlans :
            /\ p \in vlans[v].untagged <=> v \in UntaggedIn(sp)
            /\ p \in vlans[v].member <=> v \in UntaggedIn(sp) \union TaggedIn(sp)
      /\ \/ W # {} /\ sp.mode = "trunk" /\ sp.native = N /\ sp.allowed = A
         \/ W = {} /\ sp.mode = "access" /\ sp.access = N
  <2>1. CASE W # {}
    <3>1. TrunkWritten(c, saw)
      BY <2>1 DEF Written, W
    <3> QED
      BY <2>1, <3>1 DEF TrunkWritten, InStep, sp, p, N, A
  <2>2. CASE W = {}
    <3>1. AccessWritten(c, saw)
      BY <2>2 DEF Written, W
    <3> QED
      BY <2>2, <3>1 DEF AccessWritten, InStep, sp, p, N, A
  <2> QED
    BY <2>1, <2>2
<1>7. \A v \in DOMAIN vlans : /\ v \in UntaggedIn(sp) <=> v = N
                              /\ v \in UntaggedIn(sp) \union TaggedIn(sp) <=> v = N \/ v \in W
  <2>1. CASE W # {} /\ sp.mode = "trunk" /\ sp.native = N /\ sp.allowed = A
    <3>1. UntaggedIn(sp) = {N} /\ TaggedIn(sp) = A \ {N}
      BY <2>1, PlacesOf
    <3> QED
      BY <1>5, <3>1
  <2>2. CASE W = {} /\ sp.mode = "access" /\ sp.access = N
    <3>1. UntaggedIn(sp) = {N} /\ TaggedIn(sp) = {}
      BY <2>2, PlacesOf
    <3> QED
      BY <2>2, <3>1
  <2> QED
    BY <1>6, <2>1, <2>2
<1> QED
  BY <1>3, <1>6, <1>7 DEF p, W, N

\* At its verdict an undisturbed call has sent everything and read everything back.
LEMMA AtVerdict ==
    ASSUME IInv, NEW c \in Callers, Verify(c), ~Disturbed(c)
    PROVE  /\ op[c] \in Ops /\ seen[c] \in View /\ FoundOK /\ SwitchOK
           /\ plan[c].pdus = <<>>
           /\ op[c].kind # "pvid" => NamesSeen(seen[c], vlans)
           /\ Membership(op[c]) => MembersSeen(seen[c], vlans) /\ UntaggedSeen(seen[c], vlans)
           /\ op[c].kind = "pvid" => PvidsSeen(seen[c])
           /\ \E saw \in View : DecidedOn(saw, c) /\ Written(c, saw)
<1>1. Shaped /\ Undisturbed(c)
  BY DEF IInv
<1>2. /\ op[c] \in Ops /\ seen[c] \in View /\ FoundOK /\ SwitchOK
  BY <1>1 DEF Shaped, CallsOK
<1>3. todo[c] = <<"verify">>
  BY DEF Verify
<1>4. todo[c] # <<>> /\ Head(todo[c]) = "verify"
  BY <1>3, Single
<1>5. LastStep(c) = "verify" /\ \A w : Ahead(c, w) => w = "verify"
  BY <1>1, <1>4, DecideLast
<1>6. Decided(c)
  BY <1>4, <1>5 DEF Decided
<1>7. ~Ahead(c, "names") /\ ~Ahead(c, "egress") /\ ~Ahead(c, "untagged") /\ ~Ahead(c, "pvids")
  BY <1>5
<1>8. plan[c].pdus = <<>>
  <2> SUFFICES ASSUME plan[c].pdus # <<>> PROVE FALSE
    OBVIOUS
  <2>1. Unread(c)
    BY <1>1, <1>6 DEF Undisturbed
  <2> QED
    BY <1>7, <2>1 DEF Unread
<1>9. Read(c) /\ \E saw \in View : DecidedOn(saw, c) /\ Written(c, saw)
  BY <1>1, <1>6, <1>8 DEF Undisturbed
<1> QED
  BY <1>2, <1>7, <1>8, <1>9 DEF Read

\* Port lists that have been sent are in the table.
LEMMA ListsAtVerdict ==
    ASSUME NEW c \in Callers, NEW o \in Ops, o = op[c], ViaPortLists(o), FoundOK, NEW saw \in View,
           DecidedOn(saw, c), Written(c, saw), plan[c].pdus = <<>>
    PROVE  /\ o.vlan \in DOMAIN vlans /\ vlans[o.vlan].member = NewMembers(saw, o)
           /\ vlans[o.vlan].untagged = NewUntagged(saw, o)
<1>1. o.kind = "member" /\ o.vlan \in VlanIds
  BY OpFields DEF ViaPortLists, Membership
<1>2. /\ NamesSeen(saw, found[c]) /\ ~Missing(saw, o) /\ OthersKept(c) /\ ListsWritten(c, saw)
  BY <1>1 DEF DecidedOn, Written
<1>3. o.vlan \in DOMAIN vlans
  BY <1>1, <1>2 DEF NamesSeen, Missing, OthersKept
<1>4. ASSUME NEW a, NEW b
      PROVE  <<a>> # <<>> /\ <<a, b>> # <<>>
  OBVIOUS
<1> DEFINE e == Egress(saw, o)
           u == Untagged(saw, o)
<1>5. \/ plan[c].pdus = <<<<e, u>>>> \/ plan[c].pdus = <<<<e>>, <<u>>>> \/ plan[c].pdus = <<<<u>>>>
      \/ vlans[o.vlan].member = NewMembers(saw, o) /\ vlans[o.vlan].untagged = NewUntagged(saw, o)
  BY <1>2 DEF ListsWritten
<1> HIDE DEF e, u
<1>6. vlans[o.vlan].member = NewMembers(saw, o) /\ vlans[o.vlan].untagged = NewUntagged(saw, o)
  BY <1>4, <1>5
<1> QED
  BY <1>3, <1>6

\* The other operations at their verdict: what was sent is there.
LEMMA OneAtVerdict ==
    ASSUME NEW c, plan[c].pdus = <<>>, OneWritten(c)
    PROVE  Achieved(op[c])
<1>1. <<OtherPdu(op[c])>> # <<>>
  BY Single
<1> QED
  BY <1>1 DEF OneWritten

\* What a membership write of a switchport saw of the table it began with.
LEMMA FoundInSight ==
    ASSUME IInv, NEW c \in Callers, NEW saw \in View, FoundOK, ~Disturbed(c),
           plan[c].pdus = <<>>, DecidedOn(saw, c), Written(c, saw), ViaSwitchport(op[c]),
           op[c] \in Ops, NEW w \in DOMAIN found[c]
    PROVE  /\ w \in VlanIds /\ w \in Existing(saw)
           /\ saw.untagged[w] = found[c][w].untagged
<1>1. UntaggedSeen(saw, found[c])
  BY DEF DecidedOn, ViaSwitchport, Membership
<1>2. DOMAIN vlans = Existing(saw)
  BY PlaceWritten
<1>3. OthersKept(c)
  BY DEF Written, ViaSwitchport, Membership
<1>4. model.vlanWrite = "switchport" /\ Mirrored
  BY DEF ViaSwitchport, IInv, Shaped
<1>5. DOMAIN found[c] = DOMAIN vlans /\ IsTable(found[c])
  BY <1>3, <1>4 DEF OthersKept, FoundOK, Mirrored
<1> QED
  BY <1>1, <1>2, <1>5 DEF IsTable, UntaggedSeen

\* What was written is what was asked for, or the port has fallen back into the
\* default VLAN it was to leave.
LEMMA VerdictAchieved ==
    ASSUME IInv, NEW c \in Callers, Verify(c), ~Disturbed(c)
    PROVE  \/ Achieved(op[c])
           \/ FallsBackIntoIt(op[c], found[c])
              /\ Mode(vlans, DefaultVlan, op[c].port) = "untagged"
<1> DEFINE o == op[c]
<1>1. /\ o \in Ops /\ FoundOK /\ plan[c].pdus = <<>>
      /\ \E saw \in View : DecidedOn(saw, c) /\ Written(c, saw)
  BY AtVerdict
<1>2. PICK saw \in View : DecidedOn(saw, c) /\ Written(c, saw)
  BY <1>1
<1>3. CASE o.kind # "member"
  BY <1>1, <1>2, <1>3, OneAtVerdict DEF Written
<1>4. CASE ViaPortLists(o)
  <2>1. o.kind = "member" /\ o.mode \in Modes /\ o.port \in Ports
    BY <1>1, <1>4, OpFields DEF ViaPortLists, Membership
  <2>2. /\ o.vlan \in DOMAIN vlans /\ vlans[o.vlan].member = NewMembers(saw, o)
        /\ vlans[o.vlan].untagged = NewUntagged(saw, o)
    BY <1>1, <1>2, <1>4, ListsAtVerdict
  <2>3. Mode(vlans, o.vlan, o.port) = o.mode
    BY <2>1, <2>2 DEF Mode, Modes, NewMembers, NewUntagged
  <2> QED
    BY <2>1, <2>2, <2>3, AchievedIs
<1>5. CASE ViaSwitchport(o)
  <2>1. o.kind = "member" /\ o.mode \in Modes /\ o.port \in Ports /\ o.vlan \in VlanIds
    BY <1>1, <1>5, OpFields DEF ViaSwitchport, Membership
  <2> DEFINE W == WantTagged(saw, o)
             U == WantUntagged(saw, o)
             N == NativeVlan(saw, o)
             v == o.vlan
  <2>2. /\ DOMAIN vlans = Existing(saw)
        /\ \A x \in DOMAIN vlans :
              /\ o.port \in vlans[x].untagged <=> x = N
              /\ o.port \in vlans[x].member <=> x = N \/ x \in W
    BY <1>1, <1>2, <1>5, PlaceWritten
  <2>3. /\ NamesSeen(saw, found[c]) /\ saw.names[v] # "absent" /\ ~Inexpressible(saw, o)
    BY <1>2, <1>5, <2>1 DEF DecidedOn, Missing
  <2>4. v \in DOMAIN vlans
    BY <2>1, <2>2, <2>3 DEF Existing
  <2>5. /\ U = {} => N = DefaultVlan
        /\ U # {} => U = {N}
        /\ N \notin W
        /\ o.mode = "untagged" => N = v
        /\ o.mode = "tagged" => v \in W
        /\ o.mode # "tagged" => v \notin W
        /\ o.mode # "untagged" => v \notin U
    BY <1>1, <2>1, <2>3, Wanted
  <2>6. CASE o.mode # "excluded" \/ v # N
    <3> HIDE DEF W, U, N
    <3>1. /\ o.mode = "excluded" => o.port \notin vlans[v].member
          /\ o.mode = "tagged" => o.port \in vlans[v].member /\ o.port \notin vlans[v].untagged
          /\ o.mode = "untagged" => o.port \in vlans[v].member /\ o.port \in vlans[v].untagged
      BY <2>2, <2>4, <2>5, <2>6
    <3>2. Mode(vlans, o.vlan, o.port) = o.mode
      BY <2>1, <2>4, <3>1 DEF Mode, Modes
    <3> QED
      BY <2>1, <2>4, <3>2, AchievedIs
  <2>7. CASE o.mode = "excluded" /\ v = N
    <3>1. U = {} /\ v = DefaultVlan
      BY <2>5, <2>7
    <3>2. UntaggedVlans(saw, o.port) \subseteq {v}
      BY <2>7, <3>1 DEF WantUntagged
    <3>3. ASSUME NEW w \in DOMAIN found[c] \ {DefaultVlan}
          PROVE  Mode(found[c], w, o.port) # "untagged"
      <4>1. /\ w \in VlanIds /\ w \in Existing(saw) /\ w # v
            /\ saw.untagged[w] = found[c][w].untagged
        BY <1>1, <1>2, <1>5, <2>3, <3>1, FoundInSight
      <4>2. o.port \notin found[c][w].untagged
        BY <3>2, <4>1 DEF UntaggedVlans
      <4> QED
        BY <4>2 DEF Mode
    <3>4. Mode(vlans, DefaultVlan, o.port) = "untagged"
      <4>1. o.port \in vlans[v].untagged /\ o.port \in vlans[v].member
        BY <2>2, <2>4, <2>7
      <4> QED
        BY <2>4, <3>1, <4>1 DEF Mode
    <3> QED
      BY <1>5, <2>7, <3>1, <3>3, <3>4 DEF FallsBackIntoIt
  <2> QED
    BY <2>6, <2>7
<1> QED
  BY <1>3, <1>4, <1>5 DEF ViaPortLists, ViaSwitchport, Membership

\* What a verdict compares, dialect by dialect.
LEMMA ReadsBackIs ==
    ASSUME NEW saw, NEW o, NEW expected
    PROVE  /\ ViaSwitchport(o) => (ReadsBack(saw, o, expected) <=>
                 /\ saw.names[o.vlan] # "absent"
                 /\ expected = <<TaggedVlans(saw, o.port), UntaggedVlans(saw, o.port)>>)
           /\ ViaPortLists(o) => (ReadsBack(saw, o, expected) <=>
                 /\ saw.names[o.vlan] # "absent"
                 /\ expected = <<saw.member[o.vlan], saw.untagged[o.vlan]>>)
           /\ o.kind = "pvid" => (ReadsBack(saw, o, expected) <=> <<o.port, o.vlan>> \in saw.pvid)
           /\ o.kind = "create" => (ReadsBack(saw, o, expected) <=> saw.names[o.vlan] = o.name)
           /\ o.kind = "delete" => (ReadsBack(saw, o, expected) <=> saw.names[o.vlan] = "absent")
BY DEF ReadsBack, ViaSwitchport, ViaPortLists, Membership

\* What was written reads back, but in a default VLAN that is gone.
LEMMA VerdictReads ==
    ASSUME IInv, NEW c \in Callers, Verify(c), ~Disturbed(c),
           ~(ViaSwitchport(op[c]) /\ DefaultVlan \notin DOMAIN vlans)
    PROVE  ReadsBack(seen[c], op[c], plan[c].expected)
<1> DEFINE o == op[c]
           s == seen[c]
<1>1. /\ o \in Ops /\ s \in View /\ FoundOK /\ SwitchOK /\ plan[c].pdus = <<>>
      /\ o.kind # "pvid" => NamesSeen(s, vlans)
      /\ Membership(o) => MembersSeen(s, vlans) /\ UntaggedSeen(s, vlans)
      /\ o.kind = "pvid" => PvidsSeen(s)
      /\ \E saw \in View : DecidedOn(saw, c) /\ Written(c, saw)
  BY AtVerdict
<1>2. PICK saw \in View : DecidedOn(saw, c) /\ Written(c, saw)
  BY <1>1
<1>3. o.kind \in {"member", "pvid", "create", "delete"} /\ o.vlan \in VlanIds
  BY <1>1, OpFields
<1>4. CASE o.kind # "member"
  <2>1. Achieved(o)
    BY <1>1, <1>2, <1>4, OneAtVerdict DEF Written
  <2>2. CASE o.kind = "pvid"
    <3>1. pvid[o.port] = o.vlan /\ o.port \in Ports /\ s.pvid = {<<p, pvid[p]>> : p \in Ports}
      BY <1>1, <2>1, <2>2, AchievedIs, OpFields DEF PvidsSeen
    <3>2. <<o.port, o.vlan>> \in s.pvid
      BY <3>1
    <3> QED
      BY <2>2, <3>2, ReadsBackIs
  <2>3. CASE o.kind = "create"
    <3>1. s.names[o.vlan] = o.name
      BY <1>1, <1>3, <2>1, <2>3, AchievedIs DEF NamesSeen
    <3> QED
      BY <2>3, <3>1, ReadsBackIs
  <2>4. CASE o.kind = "delete"
    <3>1. s.names[o.vlan] = "absent"
      BY <1>1, <1>3, <2>1, <2>4, AchievedIs DEF NamesSeen
    <3> QED
      BY <2>4, <3>1, ReadsBackIs
  <2> QED
    BY <1>3, <1>4, <2>2, <2>3, <2>4
<1>5. /\ Existing(s) = DOMAIN vlans \/ o.kind = "pvid"
      /\ \A v \in VlanIds : o.kind # "pvid" => (s.names[v] # "absent" <=> v \in DOMAIN vlans)
  BY <1>1, FoundSeen DEF SwitchOK
<1>6. CASE ViaPortLists(o)
  <2>1. o.kind = "member" /\ ~ViaSwitchport(o)
    BY <1>6 DEF ViaPortLists, ViaSwitchport, Membership
  <2>2. /\ o.vlan \in DOMAIN vlans /\ vlans[o.vlan].member = NewMembers(saw, o)
        /\ vlans[o.vlan].untagged = NewUntagged(saw, o)
    BY <1>1, <1>2, <1>6, ListsAtVerdict
  <2>3. s.member[o.vlan] = NewMembers(saw, o) /\ s.untagged[o.vlan] = NewUntagged(saw, o)
    BY <1>1, <1>3, <2>1, <2>2 DEF MembersSeen, UntaggedSeen, Membership
  <2>4. plan[c].expected = <<NewMembers(saw, o), NewUntagged(saw, o)>>
    BY <1>2, <2>1 DEF DecidedOn, ExpectedOf, Membership
  <2>5. /\ s.names[o.vlan] # "absent"
        /\ plan[c].expected = <<s.member[o.vlan], s.untagged[o.vlan]>>
    BY <1>3, <1>5, <2>1, <2>2, <2>3, <2>4
  <2> QED
    BY <1>6, <2>5, ReadsBackIs, Zenon
<1>7. CASE ViaSwitchport(o)
  <2> DEFINE W == WantTagged(saw, o)
             U == WantUntagged(saw, o)
             N == NativeVlan(saw, o)
             p == o.port
  <2>1. o.kind = "member" /\ p \in Ports
    BY <1>1, <1>7, OpFields DEF ViaSwitchport, Membership
  <2>2. /\ DOMAIN vlans = Existing(saw)
        /\ \A x \in DOMAIN vlans : /\ p \in vlans[x].untagged <=> x = N
                                   /\ p \in vlans[x].member <=> x = N \/ x \in W
    BY <1>1, <1>2, <1>7, PlaceWritten
  <2>3. saw.names[o.vlan] # "absent" /\ ~Inexpressible(saw, o)
    BY <1>2, <1>7, <2>1 DEF DecidedOn, Missing
  <2>4. /\ W \subseteq DOMAIN vlans /\ U \subseteq DOMAIN vlans
        /\ U = {} => N = DefaultVlan
        /\ U # {} => U = {N}
        /\ N \notin W
    BY <1>1, <2>1, <2>2, <2>3, Wanted
  <2>5. o.vlan \in DOMAIN vlans
    BY <1>3, <2>2, <2>3 DEF Existing
  <2>6. DefaultVlan \in DOMAIN vlans
    BY <1>7
  <2>7. plan[c].expected = <<W, {N}>>
    BY <1>2, <1>7, <2>1 DEF DecidedOn, ExpectedOf, Membership
  <2>8. Existing(s) = DOMAIN vlans /\ s.names[o.vlan] # "absent"
    BY <1>3, <1>5, <2>1, <2>5
  <2>9. \A v \in DOMAIN vlans : s.member[v] = vlans[v].member /\ s.untagged[v] = vlans[v].untagged
    BY <1>1, <2>1 DEF MembersSeen, UntaggedSeen, Membership, SwitchOK, IsTable
  <2> HIDE DEF W, U, N, p, s
  <2>10. N \in DOMAIN vlans
    BY <2>4, <2>6
  <2>11. TaggedVlans(s, p) = W
    BY <2>2, <2>4, <2>8, <2>9 DEF TaggedVlans
  <2>12. UntaggedVlans(s, p) = {N}
    BY <2>2, <2>8, <2>9, <2>10 DEF UntaggedVlans
  <2>13. plan[c].expected = <<TaggedVlans(s, p), UntaggedVlans(s, p)>>
    BY <2>7, <2>11, <2>12
  <2>14. /\ seen[c].names[o.vlan] # "absent"
         /\ plan[c].expected = <<TaggedVlans(seen[c], o.port), UntaggedVlans(seen[c], o.port)>>
    BY <2>8, <2>13 DEF s, p
  <2> QED
    BY <1>7, <2>14, ReadsBackIs, Zenon
<1> QED
  BY <1>4, <1>6, <1>7 DEF ViaPortLists, ViaSwitchport, Membership

\* An undisturbed call at its verdict has moved nothing but its target.
LEMMA OnlyTarget ==
    ASSUME IInv, NEW c \in Callers, Verify(c), ~Disturbed(c), NEW o, o = op[c],
           o.kind = "member", NEW v \in DOMAIN found[c], NEW p \in Ports
    PROVE  \/ Mode(vlans, v, p) = Mode(found[c], v, p)
           \/ p = o.port /\ v = o.vlan
           \/ p = o.port /\ ViaSwitchport(o) /\ o.mode = "untagged"
              /\ Mode(found[c], v, p) = "untagged" /\ Mode(vlans, v, p) = "excluded"
           \/ p = o.port /\ ViaSwitchport(o) /\ o.mode # "untagged" /\ v = DefaultVlan
              /\ Mode(found[c], v, p) = "excluded"
              /\ \A w \in DOMAIN found[c] \ {o.vlan} : Mode(found[c], w, p) # "untagged"
<1> DEFINE t == found[c]
<1>1. /\ o \in Ops /\ FoundOK /\ plan[c].pdus = <<>>
      /\ \E saw \in View : DecidedOn(saw, c) /\ Written(c, saw)
  BY AtVerdict
<1>2. PICK saw \in View : DecidedOn(saw, c) /\ Written(c, saw)
  BY <1>1
<1>3. OthersKept(c) /\ v \in DOMAIN vlans
  BY <1>2 DEF Written, OthersKept
<1>4. CASE p # o.port \/ (~ViaSwitchport(o) /\ v # o.vlan)
  <2>1. /\ p \in vlans[v].member <=> p \in t[v].member
        /\ p \in vlans[v].untagged <=> p \in t[v].untagged
    BY <1>3, <1>4 DEF OthersKept
  <2>2. Mode(vlans, v, p) = Mode(found[c], v, p)
    BY <1>3, <2>1 DEF Mode
  <2> QED
    BY <2>2
<1>5. CASE p = o.port /\ v = o.vlan
  BY <1>5
<1>6. CASE p = o.port /\ v # o.vlan /\ ViaSwitchport(o)
  <2> DEFINE W == WantTagged(saw, o)
             U == WantUntagged(saw, o)
             N == NativeVlan(saw, o)
             T == TaggedVlans(saw, p)
             V == UntaggedVlans(saw, p)
  <2>1. o.mode \in Modes /\ o.port \in Ports /\ o.vlan \in VlanIds
    BY <1>1, OpFields
  <2>2. /\ DOMAIN vlans = Existing(saw)
        /\ \A x \in DOMAIN vlans : /\ p \in vlans[x].untagged <=> x = N
                                   /\ p \in vlans[x].member <=> x = N \/ x \in W
    BY <1>1, <1>2, <1>6, PlaceWritten
  <2>3. /\ saw.names[o.vlan] # "absent" /\ ~Inexpressible(saw, o)
        /\ MembersSeen(saw, t) /\ UntaggedSeen(saw, t)
    BY <1>2, <1>6 DEF DecidedOn, Missing, Membership
  <2>4. /\ U = {} => N = DefaultVlan
        /\ U # {} => U = {N}
        /\ N \notin W
        /\ o.mode = "untagged" => N = o.vlan
    BY <1>1, <2>1, <2>3, Wanted
  <2>5. /\ W = IF o.mode = "tagged" THEN T \union {o.vlan} ELSE T \ {o.vlan}
        /\ U = IF o.mode = "untagged" THEN {o.vlan} ELSE V \ {o.vlan}
    BY <1>6 DEF WantTagged, WantUntagged
  <2>6. DOMAIN t = DOMAIN vlans /\ IsTable(t) /\ Nested(t)
    <3>1. model.vlanWrite = "switchport"
      BY <1>6 DEF ViaSwitchport
    <3>2. Mirrored
      BY DEF IInv, Shaped
    <3> QED
      BY <1>1, <1>3, <3>1, <3>2 DEF OthersKept, FoundOK, Mirrored
  <2>7. ASSUME NEW x \in DOMAIN t
        PROVE  /\ x \in T <=> Mode(t, x, p) = "tagged"
               /\ x \in V <=> Mode(t, x, p) = "untagged"
    <3>1. x \in VlanIds /\ saw.member[x] = t[x].member /\ saw.untagged[x] = t[x].untagged
      BY <2>3, <2>6 DEF IsTable, MembersSeen, UntaggedSeen
    <3>2. x \in Existing(saw) /\ t[x].untagged \subseteq t[x].member
      BY <2>2, <2>6 DEF Nested
    <3> QED
      BY <3>1, <3>2 DEF TaggedVlans, UntaggedVlans, Mode
  <2>8. Mode(t, v, p) \in {"tagged", "untagged", "excluded"}
    BY DEF Mode
  <2> HIDE DEF W, U, N, T, V
  <2>9. /\ v = N => Mode(vlans, v, p) = "untagged"
        /\ v # N /\ v \in W => Mode(vlans, v, p) = "tagged"
        /\ v # N /\ v \notin W => Mode(vlans, v, p) = "excluded"
    BY <1>3, <2>2 DEF Mode
  <2>10. v \in W <=> Mode(t, v, p) = "tagged"
    BY <1>6, <2>5, <2>7
  <2> HIDE DEF t
  <2>11. CASE v # N /\ Mode(t, v, p) # "untagged"
    <3>1. Mode(vlans, v, p) = Mode(t, v, p)
      BY <2>8, <2>9, <2>10, <2>11
    <3> QED
      BY <3>1 DEF t
  <2>12. CASE v # N /\ Mode(t, v, p) = "untagged"
    <3>1. v \in V /\ v \notin W
      BY <2>7, <2>10, <2>12 DEF t
    <3>2. o.mode = "untagged"
      BY <1>6, <2>4, <2>5, <2>12, <3>1
    <3>3. Mode(vlans, v, p) = "excluded"
      BY <2>9, <2>12, <3>1
    <3> QED
      BY <1>6, <2>12, <3>2, <3>3 DEF t
  <2>13. CASE v = N
    <3>1. o.mode # "untagged" /\ v \notin W
      BY <1>6, <2>4, <2>13
    <3>2. CASE Mode(t, v, p) = "untagged"
      <4>1. Mode(vlans, v, p) = Mode(t, v, p)
        BY <2>9, <2>13, <3>2
      <4> QED
        BY <4>1 DEF t
    <3>3. CASE Mode(t, v, p) = "excluded"
      <4>1. v \notin V
        BY <2>7, <3>3 DEF t
      <4>2. U = {}
        BY <2>4, <2>5, <2>13, <3>1, <4>1
      <4>3. v = DefaultVlan
        BY <2>4, <2>13, <4>2
      <4>4. \A w \in DOMAIN t \ {o.vlan} : Mode(t, w, p) # "untagged"
        BY <2>5, <2>7, <3>1, <4>2
      <4> QED
        BY <1>6, <3>1, <3>3, <4>3, <4>4 DEF t
    <3> QED
      BY <2>8, <2>10, <3>1, <3>2, <3>3
  <2> QED
    BY <2>11, <2>12, <2>13
<1> QED
  BY <1>4, <1>5, <1>6

\* Verify-after-write of the SNMP writer (writer_vlan.go:134-139), whatever the
\* dialect, however often gosnmp sends a SET again, and with any number of other
\* callers reading: a VLAN operation no other caller's SET came into returns nil
\* only if the switch is as asked, and WriteVerificationError only if the port had
\* to fall back to a default VLAN that is gone.
THEOREM VerdictIsRight == Spec => VerdictIsTrue
<1> DEFINE Right ==
        \A c \in Callers : Verify(c) /\ ~Disturbed(c) =>
          /\ result'[c] = "ok" =>
                \/ Achieved(op[c])
                \/ FallsBackIntoIt(op[c], found[c])
                   /\ Mode(vlans, DefaultVlan, op[c].port) = "untagged"
          /\ result'[c] = "mismatch" =>
                ViaSwitchport(op[c]) /\ DefaultVlan \notin DOMAIN vlans
<1>1. IInv /\ [Next]_vars => Right
  <2> SUFFICES ASSUME IInv, NEW c \in Callers, Verify(c), ~Disturbed(c)
               PROVE  /\ \/ Achieved(op[c])
                         \/ FallsBackIntoIt(op[c], found[c])
                            /\ Mode(vlans, DefaultVlan, op[c].port) = "untagged"
                      /\ result'[c] = "mismatch" =>
                            ViaSwitchport(op[c]) /\ DefaultVlan \notin DOMAIN vlans
    OBVIOUS
  <2>1. \/ Achieved(op[c])
        \/ FallsBackIntoIt(op[c], found[c])
           /\ Mode(vlans, DefaultVlan, op[c].port) = "untagged"
    BY VerdictAchieved
  <2>2. ASSUME ~(ViaSwitchport(op[c]) /\ DefaultVlan \notin DOMAIN vlans)
        PROVE  result'[c] # "mismatch"
    <3>1. ReadsBack(seen[c], op[c], plan[c].expected)
      BY <2>2, VerdictReads
    <3>2. Return(c, "ok")
      BY <3>1, Zenon DEF Verify
    <3>3. DOMAIN result = Callers
      BY DEF IInv, Shaped, CallsOK
    <3> QED
      BY <3>2, <3>3 DEF Return
  <2> QED
    BY <2>1, <2>2
<1>2. Init => IInv
  BY InitInv
<1>3. IInv /\ [Next]_vars => IInv'
  BY StepInv
<1>4. VerdictIsTrue <=> [][Right]_vars
  BY DEF VerdictIsTrue
<1> HIDE DEF Right
<1> QED
  BY <1>1, <1>2, <1>3, <1>4, PTL DEF Spec

\* "VLANs the caller never named keep their membership"
\* (writer_switchport.go:347): for every switch model, every switchport setting a
\* port is found in and every VLAN table, an undisturbed membership write changes
\* the place asked for, the VLAN an untagged port leaves, and the default VLAN it
\* falls back to, and nothing else.
THEOREM OnlyTheTargetMoves == Spec => WriteTouchesOnlyItsTarget
<1> DEFINE Only ==
        \A c \in Callers :
          /\ Verify(c) /\ result'[c] = "ok" /\ ~Disturbed(c) /\ op[c].kind = "member"
          => LET o == op[c] IN
             \A v \in DOMAIN found[c], p \in Ports :
                \/ Mode(vlans, v, p) = Mode(found[c], v, p)
                \/ p = o.port /\ v = o.vlan
                \/ p = o.port /\ ViaSwitchport(o) /\ o.mode = "untagged"
                   /\ Mode(found[c], v, p) = "untagged" /\ Mode(vlans, v, p) = "excluded"
                \/ p = o.port /\ ViaSwitchport(o) /\ o.mode # "untagged" /\ v = DefaultVlan
                   /\ Mode(found[c], v, p) = "excluded"
                   /\ \A w \in DOMAIN found[c] \ {o.vlan} : Mode(found[c], w, p) # "untagged"
<1>1. IInv /\ [Next]_vars => Only
  BY OnlyTarget
<1>2. Init => IInv
  BY InitInv
<1>3. IInv /\ [Next]_vars => IInv'
  BY StepInv
<1>4. WriteTouchesOnlyItsTarget <=> [][Only]_vars
  BY DEF WriteTouchesOnlyItsTarget
<1> HIDE DEF Only
<1> QED
  BY <1>1, <1>2, <1>3, <1>4, PTL DEF Spec

-----------------------------------------------------------------------------
(* SnmpRead: the parts of the inductive invariants. *)

Varbinds(k) == [oid : Oids(k), to : Values \union {Destroy}]

\* What a SET makes of a state s when p is left of it and base is what it began with.
Outcome(k, base, s, p) ==
    IF \E n \in 1..Len(p) : Refused(k, StateAfter(k, s, p)[n - 1], p[n]) THEN base
    ELSE StateAfter(k, s, p)[Len(p)]

\* What is left of the SET in hand does to the state what the whole was to do, and
\* until it is done the view is of the state before it.
SetInHand ==
    pdu # <<>> => intended = Outcome(kind, saved, conf, pdu) /\ (behind \/ view = saved)

\* The rows of column c of a view s whose OIDs are not beyond m.
ColumnTo(s, c, m) ==
    [i \in {j \in Indices : Oid(c, j) \in DOMAIN s /\ Oid(c, j) <= m} |-> s[Oid(c, i)]]

\* A quiet walk has read the columns before its own, and of its own what comes up
\* to its last OID.
WalkedSoFar ==
    \A c \in Columns(kind) :
        /\ c < col => got[c] = Split(kind, view)[c]
        /\ c = col => got[c] = ColumnTo(view, c, pos)
        /\ c > col => got[c] = NoRows

\* What the first n varbinds of an answer add to the rows read.
Taken(a, n) ==
    LET new == {a[j] : j \in 1..n} IN
    [got EXCEPT ![col] =
        [i \in DOMAIN got[col] \union {RowOf(o) : o \in new} |->
            IF Oid(col, i) \in new THEN view[Oid(col, i)] ELSE got[col][i]]]

Quiet ==
    /\ ~moved => view = first
    /\ pc = "walk" => outcome = "none"
    /\ pc = "walk" /\ honest /\ ~moved => WalkedSoFar

-----------------------------------------------------------------------------
(* OIDs. *)

\* What may follow the column in an OID: a row number, or nothing at its head.
Tails == 0..(Width - 1)

\* An OID is its column and its row.
LEMMA OidParts ==
    ASSUME NEW c \in 1..3, NEW i \in Tails
    PROVE  /\ Oid(c, i) \in Nat /\ Oid(c, i) > 0
           /\ Col(Oid(c, i)) = c /\ RowOf(Oid(c, i)) = i
BY DEF Oid, Col, RowOf, Tails, Width

\* A row number is the tail of an OID, and not the head's.
LEMMA IndexIsTail ==
    ASSUME NEW i \in Indices
    PROVE  i \in 1..(Width - 1) /\ i \in Tails
<1>1. i \in 1..(Width - 1)
  BY SnmpReadAssumption DEF SnmpReadAssumption
<1>2. Width - 1 \in Nat
  BY DEF Width
<1> QED
  BY <1>1, <1>2 DEF Tails

\* Every OID of a table is one.
LEMMA OidsAre ==
    ASSUME NEW k \in Kinds, NEW o \in Oids(k)
    PROVE  /\ Col(o) \in Columns(k) /\ RowOf(o) \in Indices /\ o = Oid(Col(o), RowOf(o))
           /\ o \in Nat /\ o > 0 /\ Col(o) \in 1..3 /\ RowOf(o) \in Tails
           /\ Columns(k) \subseteq 1..3
<1>1. PICK c \in Columns(k), i \in Indices : o = Oid(c, i)
  BY DEF Oids
<1>2. Columns(k) \subseteq 1..3
  BY DEF Columns
<1>3. c \in 1..3
  BY <1>2
<1>4. i \in Tails
  BY IndexIsTail
<1> QED
  BY <1>1, <1>2, <1>3, <1>4, OidParts

\* The end of a walk is in no column.
LEMMA EndIsNowhere == Col(End) = 0
BY DEF Col, End, Width

\* The OIDs of a table's rows are its own, beyond the head of their column.
LEMMA OidType ==
    ASSUME NEW k \in Kinds, NEW c \in Columns(k), NEW i \in Indices
    PROVE  /\ Oid(c, i) \in Oids(k) /\ Col(Oid(c, i)) = c /\ RowOf(Oid(c, i)) = i
           /\ Oid(c, i) \in Nat /\ Oid(c, 0) \in Nat /\ Oid(c, 0) < Oid(c, i)
<1>1. c \in 1..3
  BY DEF Columns
<1>2. i \in 1..(Width - 1) /\ i \in Tails
  BY IndexIsTail
<1>3. Oid(c, 0) \in Nat /\ Oid(c, 0) < Oid(c, i)
  BY <1>1, <1>2 DEF Oid, Width
<1> QED
  BY <1>1, <1>2, <1>3, OidParts DEF Oids

-----------------------------------------------------------------------------
(* The agent's tables (ApplyWrite). *)

\* Some OIDs of a table set to a value.
LEMMA SettingIs ==
    ASSUME NEW k, NEW s, IsView(s, k), NEW os \in SUBSET Oids(k), NEW v \in Values
    PROVE  IsView(Setting(s, os, v), k)
BY DEF IsView, Setting

\* A row less.
LEMMA WithoutRowIs ==
    ASSUME NEW k, NEW s, IsView(s, k), NEW i
    PROVE  IsView(WithoutRow(k, s, i), k)
BY DEF IsView, WithoutRow

\* A varbind applied leaves a table, whatever it names.
LEMMA EffectType ==
    ASSUME NEW k \in Kinds, NEW s, IsView(s, k), NEW w \in Varbinds(k)
    PROVE  IsView(Effect(k, s, w), k)
<1> DEFINE i == RowOf(w.oid)
<1>1. /\ w.oid \in Oids(k) /\ w.to \in Values \union {Destroy}
      /\ Col(w.oid) \in Columns(k) /\ i \in Indices
  BY OidsAre DEF Varbinds
<1>2. \A c \in Columns(k) : Oid(c, i) \in Oids(k)
  BY <1>1 DEF Oids
<1>3. k = "vlans" => 2 \in Columns(k) /\ 3 \in Columns(k)
  BY DEF Columns
<1>4. 1 \in Values
  BY DEF Values
<1> HIDE DEF i
<1>5. CASE w.to = Destroy
  <2>1. Effect(k, s, w) = WithoutRow(k, s, i)
    BY <1>5, Zenon DEF Effect, i
  <2> QED
    BY <2>1, WithoutRowIs
<1>6. CASE w.to # Destroy /\ k = "vlans" /\ ~Exists(k, s, i)
  <2>1. CASE Col(w.oid) = 1
    <3> DEFINE named == Setting(s, {w.oid}, w.to)
    <3>1. Effect(k, s, w) = Setting(named, {Oid(2, i), Oid(3, i)}, 1)
      BY <1>6, <2>1, Zenon DEF Effect, i, named
    <3>2. IsView(named, k)
      BY <1>1, <1>6, SettingIs
    <3> HIDE DEF named
    <3> QED
      BY <1>2, <1>3, <1>4, <1>6, <3>1, <3>2, SettingIs
  <2>2. CASE Col(w.oid) # 1
    <3>1. Effect(k, s, w) = s
      BY <1>6, <2>2, Zenon DEF Effect, i
    <3> QED
      BY <3>1
  <2> QED
    BY <2>1, <2>2
<1>7. CASE w.to # Destroy /\ ~(k = "vlans" /\ ~Exists(k, s, i))
  <2>1. Effect(k, s, w) = Setting(s, Together(k, w) \intersect DOMAIN s, w.to)
    BY <1>7, Zenon DEF Effect, i
  <2>2. Together(k, w) \intersect DOMAIN s \in SUBSET Oids(k) /\ w.to \in Values
    BY <1>1, <1>7 DEF IsView
  <2> QED
    BY <2>1, <2>2, SettingIs
<1> QED
  BY <1>5, <1>6, <1>7

-----------------------------------------------------------------------------
(* The state after the varbinds of a SET (StateAfter), a recursive function. *)

\* A nonempty set of naturals has a least element.
LEMMA Least ==
    ASSUME NEW S \in SUBSET Nat, S # {}
    PROVE  \E i \in S : \A j \in S : i <= j
<1> DEFINE R == {p \in Nat \X Nat : p[1] < p[2]}
<1>1. OpToRel(<, Nat) = R
  BY Zenon DEF OpToRel
<1>2. IsWellFoundedOn(R, Nat)
  BY <1>1, NatLessThanWellFounded, Zenon
<1> HIDE DEF R
<1>3. PICK i \in S : \A j \in S : ~(<<j, i>> \in R)
  BY <1>2, WFMin, Zenon
<1>4. ASSUME NEW j \in S PROVE i <= j
  <2>1. ~(<<j, i>> \in R) /\ i \in Nat /\ j \in Nat
    BY <1>3
  <2> QED
    BY <2>1 DEF R
<1> QED
  BY <1>3, <1>4

\* A set of naturals that has 0 and, with a number below m, its successor, has
\* every number up to m.
LEMMA UpTo ==
    ASSUME NEW S, NEW m \in Nat, 0 \in S,
           \A n \in Nat : n < m /\ n \in S => n + 1 \in S
    PROVE  0..m \subseteq S
<1> SUFFICES ASSUME NEW x \in 0..m, x \notin S PROVE FALSE
  OBVIOUS
<1> DEFINE T == {n \in Nat : n <= m /\ n \notin S}
<1>1. T \in SUBSET Nat /\ T # {}
  OBVIOUS
<1>2. PICK i \in T : \A j \in T : i <= j
  BY <1>1, Least
<1>3. i \in Nat /\ i <= m /\ i \notin S /\ i # 0
  BY <1>2
<1>4. i - 1 \in Nat /\ i - 1 < m /\ i - 1 \notin T
  BY <1>2, <1>3
<1> QED
  BY <1>3, <1>4

\* The states after each varbind, as long as they are defined one by one.
OneByOne(k, s, p, f, m) ==
    f = [n \in 0..m |-> IF n = 0 THEN s ELSE Effect(k, f[n - 1], p[n])]

\* There are such states.
LEMMA StatesExist ==
    ASSUME NEW k, NEW s, NEW p, NEW m \in Nat
    PROVE  \E f : OneByOne(k, s, p, f, m)
<1> DEFINE S == {n \in Nat : \E f : OneByOne(k, s, p, f, n)}
<1>1. 0 \in S
  <2> DEFINE f == [n \in 0..0 |-> s]
  <2>1. OneByOne(k, s, p, f, 0)
    BY DEF OneByOne
  <2> QED
    BY <2>1
<1>2. ASSUME NEW n \in Nat, n \in S PROVE n + 1 \in S
  <2>1. PICK f : OneByOne(k, s, p, f, n)
    BY <1>2
  <2> DEFINE g == [j \in 0..(n + 1) |-> IF j = n + 1 THEN Effect(k, f[n], p[n + 1]) ELSE f[j]]
             h == [j \in 0..(n + 1) |-> IF j = 0 THEN s ELSE Effect(k, g[j - 1], p[j])]
  <2>2. \A j \in 0..n : f[j] = IF j = 0 THEN s ELSE Effect(k, f[j - 1], p[j])
    <3>1. f = [j \in 0..n |-> IF j = 0 THEN s ELSE Effect(k, f[j - 1], p[j])]
      BY <2>1 DEF OneByOne
    <3> DEFINE e(j) == IF j = 0 THEN s ELSE Effect(k, f[j - 1], p[j])
    <3>2. f = [j \in 0..n |-> e(j)]
      BY <3>1, Zenon
    <3> HIDE DEF e
    <3>3. \A j \in 0..n : f[j] = e(j)
      BY <3>2
    <3> QED
      BY <3>3 DEF e
  <2>3. ASSUME NEW j \in 0..(n + 1) PROVE g[j] = h[j]
    <3>1. CASE j = 0
      BY <2>2, <3>1
    <3>2. CASE j \in 1..n
      <4>1. g[j] = f[j] /\ g[j - 1] = f[j - 1]
        BY <3>2
      <4>2. f[j] = Effect(k, f[j - 1], p[j])
        BY <2>2, <3>2
      <4>3. h[j] = Effect(k, g[j - 1], p[j])
        BY <3>2
      <4> HIDE DEF g, h
      <4> QED
        BY <4>1, <4>2, <4>3
    <3>3. CASE j = n + 1
      <4>1. g[j - 1] = f[n] /\ g[j] = Effect(k, f[n], p[j])
        BY <3>3
      <4>2. h[j] = Effect(k, g[j - 1], p[j])
        BY <3>3
      <4> HIDE DEF g, h
      <4> QED
        BY <4>1, <4>2
    <3> QED
      BY <3>1, <3>2, <3>3
  <2>4. g = h
    BY <2>3
  <2>5. OneByOne(k, s, p, g, n + 1)
    <3>1. g = [j \in 0..(n + 1) |-> IF j = 0 THEN s ELSE Effect(k, g[j - 1], p[j])]
      BY <2>4
    <3> HIDE DEF g
    <3> QED
      BY <3>1 DEF OneByOne
  <2> QED
    BY <2>5
<1> HIDE DEF S
<1>3. 0..m \subseteq S
  BY <1>1, <1>2, UpTo
<1> QED
  BY <1>3 DEF S

\* So the function is what its definition says: s at first, and then the effect of
\* each varbind on the state before it.
LEMMA StateAfterIs ==
    ASSUME NEW k, NEW s, NEW p, Len(p) \in Nat
    PROVE  /\ StateAfter(k, s, p)[0] = s
           /\ \A n \in 1..Len(p) :
                 StateAfter(k, s, p)[n] = Effect(k, StateAfter(k, s, p)[n - 1], p[n])
<1> DEFINE f == StateAfter(k, s, p)
           m == Len(p)
<1>1. \E g : OneByOne(k, s, p, g, m)
  BY StatesExist
<1>2. f = CHOOSE g : OneByOne(k, s, p, g, m)
  BY Zenon DEF StateAfter, OneByOne
<1> HIDE DEF f, m
<1>3. OneByOne(k, s, p, f, m)
  BY <1>1, <1>2, Zenon
<1> DEFINE e(j) == IF j = 0 THEN s ELSE Effect(k, f[j - 1], p[j])
<1>4. f = [j \in 0..m |-> e(j)]
  BY <1>3, Zenon DEF OneByOne
<1> HIDE DEF e
<1>5. \A j \in 0..m : f[j] = e(j)
  BY <1>4
<1>6. m \in Nat
  BY DEF m
<1>7. 0 \in 0..m /\ \A n \in 1..m : n \in 0..m /\ n # 0
  BY <1>6
<1>8. f[0] = s /\ \A n \in 1..m : f[n] = Effect(k, f[n - 1], p[n])
  BY <1>5, <1>7 DEF e
<1> QED
  BY <1>8 DEF f, m

\* The states of a SET are, but for the one it begins with, those of what is left of
\* it after its first varbind.
LEMMA StateAfterFromFront ==
    ASSUME NEW k, NEW s, NEW B, NEW p \in Seq(B), p # <<>>, NEW n \in 0..Len(Tail(p))
    PROVE  StateAfter(k, s, p)[n + 1] = StateAfter(k, Effect(k, s, Head(p)), Tail(p))[n]
<1> DEFINE q == Tail(p)
           f == StateAfter(k, s, p)
           g == StateAfter(k, Effect(k, s, Head(p)), q)
           S == {j \in Nat : f[j + 1] = g[j]}
<1>1. /\ Len(p) \in Nat /\ Len(q) \in Nat /\ Len(p) = Len(q) + 1 /\ Head(p) = p[1]
      /\ \A j \in 1..Len(q) : q[j] = p[j + 1]
  OBVIOUS
<1>2. /\ f[0] = s
      /\ \A j \in 1..Len(p) : f[j] = Effect(k, f[j - 1], p[j])
      /\ g[0] = Effect(k, s, p[1])
      /\ \A j \in 1..Len(q) : g[j] = Effect(k, g[j - 1], q[j])
  <2>1. /\ g[0] = Effect(k, s, Head(p))
        /\ \A j \in 1..Len(q) : g[j] = Effect(k, g[j - 1], q[j])
    <3> DEFINE t == Effect(k, s, Head(p))
    <3>1. g = StateAfter(k, t, q)
      OBVIOUS
    <3> HIDE DEF q, t, g
    <3>2. /\ g[0] = t
          /\ \A j \in 1..Len(q) : g[j] = Effect(k, g[j - 1], q[j])
      BY <1>1, <3>1, StateAfterIs
    <3> QED
      BY <3>2 DEF t
  <2>2. /\ f[0] = s
        /\ \A j \in 1..Len(p) : f[j] = Effect(k, f[j - 1], p[j])
    BY <1>1, StateAfterIs
  <2> HIDE DEF f, g, q
  <2> QED
    BY <1>1, <2>1, <2>2
<1> HIDE DEF f, g, q
<1>3. f[1] = g[0]
  <2>1. 1 \in 1..Len(p) /\ 1 - 1 = 0
    BY <1>1
  <2> QED
    BY <1>2, <2>1
<1>4. ASSUME NEW j \in Nat, j < Len(q), f[j + 1] = g[j] PROVE f[j + 2] = g[j + 1]
  <2>1. /\ j + 2 \in 1..Len(p) /\ j + 1 \in 1..Len(q)
        /\ (j + 2) - 1 = j + 1 /\ (j + 1) - 1 = j /\ (j + 1) + 1 = j + 2
    BY <1>1, <1>4
  <2>2. f[j + 2] = Effect(k, f[j + 1], p[j + 2])
    BY <1>2, <2>1
  <2>3. g[j + 1] = Effect(k, g[j], q[j + 1]) /\ q[j + 1] = p[j + 2]
    BY <1>1, <1>2, <2>1
  <2> QED
    BY <1>4, <2>2, <2>3
<1>5. 0 \in S /\ \A j \in Nat : j < Len(q) /\ j \in S => j + 1 \in S
  <2>1. 0 + 1 = 1
    OBVIOUS
  <2>2. ASSUME NEW j \in Nat PROVE (j + 1) + 1 = j + 2
    OBVIOUS
  <2> QED
    BY <1>3, <1>4, <2>1, <2>2
<1> HIDE DEF S
<1>6. 0..Len(q) \subseteq S
  BY <1>1, <1>5, UpTo
<1>7. n \in S
  BY <1>6 DEF q
<1> QED
  BY <1>7 DEF S, f, g, q

\* A SET with nothing left has done what it was to do.
LEMMA OutcomeOfNone ==
    ASSUME NEW k, NEW base, NEW s
    PROVE  Outcome(k, base, s, <<>>) = s
<1>1. Len(<<>>) = 0 /\ 1..0 = {}
  OBVIOUS
<1>2. StateAfter(k, s, <<>>)[0] = s
  BY <1>1, StateAfterIs
<1> QED
  BY <1>1, <1>2 DEF Outcome

\* Its next varbind ends it or is applied.
LEMMA OutcomeFromFront ==
    ASSUME NEW k, NEW base, NEW s, NEW B, NEW p \in Seq(B), p # <<>>
    PROVE  Outcome(k, base, s, p) =
              IF Refused(k, s, Head(p)) THEN base
              ELSE Outcome(k, base, Effect(k, s, Head(p)), Tail(p))
<1> DEFINE q == Tail(p)
           t == Effect(k, s, Head(p))
           f == StateAfter(k, s, p)
           g == StateAfter(k, t, q)
           Bad == \E n \in 1..Len(p) : Refused(k, f[n - 1], p[n])
           Worse == \E n \in 1..Len(q) : Refused(k, g[n - 1], q[n])
<1>1. /\ Len(p) \in Nat /\ Len(q) \in Nat /\ Len(p) = Len(q) + 1 /\ Head(p) = p[1]
      /\ \A j \in 1..Len(q) : q[j] = p[j + 1]
  OBVIOUS
<1>2. f[0] = s
  BY <1>1, StateAfterIs
<1>3. \A n \in 0..Len(q) : f[n + 1] = g[n]
  BY StateAfterFromFront
<1>4. /\ Outcome(k, base, s, p) = IF Bad THEN base ELSE f[Len(p)]
      /\ Outcome(k, base, t, q) = IF Worse THEN base ELSE g[Len(q)]
  BY Zenon DEF Outcome
<1> HIDE DEF f, g, t, q
<1>5. f[Len(p)] = g[Len(q)]
  <2>1. Len(q) \in 0..Len(q)
    BY <1>1
  <2> QED
    BY <1>1, <1>3, <2>1
<1>6. Bad <=> Refused(k, s, Head(p)) \/ Worse
  <2>1. ASSUME NEW n \in 1..Len(p), Refused(k, f[n - 1], p[n])
        PROVE  Refused(k, s, Head(p)) \/ Worse
    <3>1. CASE n = 1
      <4>1. n - 1 = 0
        BY <3>1
      <4> QED
        BY <1>1, <1>2, <2>1, <3>1, <4>1
    <3>2. CASE n # 1
      <4> DEFINE m == n - 1
      <4>1. m \in 1..Len(q) /\ m - 1 \in 0..Len(q) /\ (m - 1) + 1 = m /\ m + 1 = n
        BY <1>1, <3>2
      <4>2. Refused(k, f[m], p[n])
        BY <2>1
      <4> HIDE DEF m
      <4>3. f[m] = g[m - 1] /\ q[m] = p[n]
        BY <1>1, <1>3, <4>1
      <4> QED
        BY <4>1, <4>2, <4>3
    <3> QED
      BY <3>1, <3>2
  <2>2. ASSUME Refused(k, s, Head(p)) PROVE Bad
    <3>1. 1 \in 1..Len(p) /\ 1 - 1 = 0
      BY <1>1
    <3> QED
      BY <1>1, <1>2, <2>2, <3>1
  <2>3. ASSUME NEW n \in 1..Len(q), Refused(k, g[n - 1], q[n]) PROVE Bad
    <3>1. n + 1 \in 1..Len(p) /\ (n + 1) - 1 = n /\ n - 1 \in 0..Len(q) /\ (n - 1) + 1 = n
      BY <1>1
    <3>2. f[n] = g[n - 1] /\ q[n] = p[n + 1]
      BY <1>1, <1>3, <3>1
    <3> QED
      BY <2>3, <3>1, <3>2
  <2> QED
    BY <2>1, <2>2, <2>3
<1> HIDE DEF Bad, Worse
<1>7. Outcome(k, base, s, p) =
        IF Refused(k, s, Head(p)) THEN base ELSE Outcome(k, base, t, q)
  BY <1>4, <1>5, <1>6, Zenon
<1> QED
  BY <1>7 DEF t, q

-----------------------------------------------------------------------------
(* A GETBULK answer (handleGetBulk): the n-th entry after an OID. *)

\* The elements of a finite set of naturals up to one of its own.
Below(T, p) == {q \in T : q <= p}

\* A finite set of naturals has an n-th element.
LEMMA Ranked ==
    ASSUME NEW T, IsFiniteSet(T), T \in SUBSET Nat, NEW n \in 1..Cardinality(T)
    PROVE  \E p \in T : Cardinality(Below(T, p)) = n
<1> DEFINE Initial(B) == \A x \in B : \A y \in T : y <= x => y \in B
           S == {m \in Nat : \E B \in SUBSET T : Cardinality(B) = m /\ Initial(B)}
<1>1. Cardinality(T) \in Nat
  BY FS_CardinalityType
<1>2. ASSUME NEW B \in SUBSET T, Cardinality(B) < Cardinality(T), Initial(B)
      PROVE  \E i \in T : /\ Below(T, i) = B \union {i} /\ Initial(B \union {i})
                          /\ Cardinality(B \union {i}) = Cardinality(B) + 1
  <2>1. T \ B # {}
    <3>1. SUFFICES ASSUME T \ B = {} PROVE FALSE
      OBVIOUS
    <3>2. B = T
      BY <3>1
    <3> QED
      BY <1>1, <1>2, <3>2
  <2>2. T \ B \in SUBSET Nat
    OBVIOUS
  <2> DEFINE R == T \ B
  <2>3. \E i \in R : \A j \in R : i <= j
    <3> HIDE DEF R
    <3>1. R \in SUBSET Nat /\ R # {}
      BY <2>1, <2>2 DEF R
    <3> QED
      BY <3>1, Least
  <2>4. PICK i \in R : \A j \in R : i <= j
    BY <2>3
  <2>5. i \in Nat /\ i \in T /\ i \notin B
    BY <2>2
  <2>6. \A y \in B : y \in Nat /\ y <= i
    <3>1. ASSUME NEW y \in B, ~(y <= i) PROVE FALSE
      <4>1. y \in Nat /\ i <= y
        BY <2>5, <3>1
      <4> QED
        BY <1>2, <2>5, <4>1
    <3> QED
      BY <3>1
  <2>7. \A y \in T : y <= i => y \in B \union {i}
    <3>1. ASSUME NEW y \in T, y <= i, y \notin B PROVE y = i
      <4>1. i <= y /\ y \in Nat
        BY <2>4, <3>1
      <4> QED
        BY <2>5, <3>1, <4>1
    <3> QED
      BY <3>1
  <2>8. Below(T, i) = B \union {i}
    <3>1. \A y \in B \union {i} : y \in T /\ y <= i
      BY <2>5, <2>6
    <3> QED
      BY <2>7, <3>1 DEF Below
  <2>9. Initial(B \union {i})
    BY <1>2, <2>7
  <2>10. Cardinality(B \union {i}) = Cardinality(B) + 1
    <3>1. IsFiniteSet(B)
      BY FS_Subset
    <3> QED
      BY <2>5, <3>1, FS_AddElement
  <2> QED
    BY <2>5, <2>8, <2>9, <2>10
<1>3. 0 \in S
  BY FS_EmptySet
<1> HIDE DEF Initial
<1>4. ASSUME NEW m \in Nat, m < Cardinality(T), m \in S PROVE m + 1 \in S
  <2>1. PICK B \in SUBSET T : Cardinality(B) = m /\ Initial(B)
    BY <1>4
  <2>2. PICK i \in T : /\ Initial(B \union {i})
                       /\ Cardinality(B \union {i}) = Cardinality(B) + 1
    BY <1>2, <1>4, <2>1
  <2>3. B \union {i} \in SUBSET T
    OBVIOUS
  <2> QED
    BY <2>1, <2>2, <2>3
<1> DEFINE l == n - 1
<1>5. l \in 0..Cardinality(T) /\ l < Cardinality(T) /\ l + 1 = n
  BY <1>1
<1> HIDE DEF S, l
<1>6. l \in S
  BY <1>1, <1>3, <1>4, <1>5, UpTo
<1>7. PICK B \in SUBSET T : Cardinality(B) = l /\ Initial(B)
  BY <1>6 DEF S
<1>8. PICK i \in T : /\ Below(T, i) = B \union {i}
                     /\ Cardinality(B \union {i}) = Cardinality(B) + 1
  BY <1>2, <1>5, <1>7
<1> QED
  BY <1>5, <1>7, <1>8

\* A later element has a higher rank, and no rank is beyond the number of elements.
LEMMA RankOrder ==
    ASSUME NEW T, IsFiniteSet(T), T \in SUBSET Nat, NEW p \in T, NEW q \in T
    PROVE  /\ Cardinality(Below(T, p)) \in 1..Cardinality(T)
           /\ p <= q <=> Cardinality(Below(T, p)) <= Cardinality(Below(T, q))
<1> DEFINE b == Below(T, p)
           d == Below(T, q)
<1>1. /\ p \in Nat /\ q \in Nat
      /\ \A x \in T : x \in Nat
  OBVIOUS
<1>2. /\ b \in SUBSET T /\ d \in SUBSET T /\ p \in b /\ q \in d
      /\ p <= q => b \subseteq d
      /\ ~(p <= q) => d \subseteq b /\ p \notin d
  <2>1. /\ b \in SUBSET T /\ d \in SUBSET T /\ p \in b /\ q \in d
    BY <1>1 DEF Below
  <2>2. ASSUME p <= q, NEW x \in T, x <= p PROVE x <= q
    BY <1>1, <2>2
  <2>3. ASSUME ~(p <= q), NEW x \in T, x <= q PROVE x <= p
    BY <1>1, <2>3
  <2> QED
    BY <2>1, <2>2, <2>3 DEF Below
<1> HIDE DEF b, d
<1>3. IsFiniteSet(b) /\ IsFiniteSet(d)
  BY <1>2, FS_Subset
<1>4. /\ Cardinality(b) \in Nat /\ Cardinality(d) \in Nat /\ Cardinality(T) \in Nat
      /\ Cardinality(b) <= Cardinality(T)
  BY <1>2, <1>3, FS_CardinalityType, FS_Subset
<1>5. Cardinality(b) # 0
  BY <1>2, <1>3, FS_EmptySet
<1>6. p <= q => Cardinality(b) <= Cardinality(d)
  BY <1>2, <1>3, FS_Subset
<1>7. ~(p <= q) => Cardinality(d) < Cardinality(b)
  <2>1. SUFFICES ASSUME ~(p <= q) PROVE Cardinality(d) < Cardinality(b)
    OBVIOUS
  <2>2. d \in SUBSET b /\ d # b
    BY <1>2, <2>1
  <2>3. Cardinality(d) <= Cardinality(b) /\ Cardinality(d) # Cardinality(b)
    BY <1>3, <2>2, FS_Subset
  <2> QED
    BY <1>4, <2>3
<1>8. Cardinality(b) \in 1..Cardinality(T)
  BY <1>4, <1>5
<1>9. p <= q <=> Cardinality(b) <= Cardinality(d)
  BY <1>4, <1>6, <1>7
<1> QED
  BY <1>8, <1>9 DEF b, d

\* The entries of a view beyond an OID.
Later(v, o) == {p \in DOMAIN v : p > o}

\* There are finitely many.
LEMMA LaterFinite ==
    ASSUME NEW k \in Kinds, NEW v, IsView(v, k), NEW o \in Nat
    PROVE  IsFiniteSet(Later(v, o)) /\ Later(v, o) \in SUBSET Nat
<1> DEFINE later == Later(v, o)
<1>1. ASSUME NEW p \in Oids(k) PROVE p \in Nat /\ p <= 4 * Width
  <2>1. p = Oid(Col(p), RowOf(p)) /\ Col(p) \in 1..3 /\ RowOf(p) \in Tails
    BY OidsAre
  <2>2. ASSUME NEW c \in 1..3, NEW i \in Tails
        PROVE  Oid(c, i) \in Nat /\ Oid(c, i) <= 4 * Width
    <3> DEFINE w == Width
    <3>1. w \in Nat /\ i \in 0..(w - 1) /\ Oid(c, i) = c * w + i
      BY DEF Oid, Tails, Width
    <3> HIDE DEF w
    <3>2. c * w + i \in Nat /\ c * w + i <= 4 * w
      BY <3>1
    <3> QED
      BY <3>1, <3>2 DEF w
  <2> QED
    BY <2>1, <2>2
<1>2. later \in SUBSET Nat /\ \A p \in later : p <= 4 * Width
  BY <1>1 DEF IsView, Later
<1> HIDE DEF later
<1>3. IsFiniteSet(later)
  <2>1. 4 * Width \in Nat
    BY DEF Width
  <2> QED
    BY <1>2, <2>1, FS_BoundedSetOfNaturals
<1> QED
  BY <1>2, <1>3 DEF later

\* The n-th varbind of the answer is the n-th entry, or the end of the view.
LEMMA FollowingIs ==
    ASSUME NEW k \in Kinds, NEW v, IsView(v, k), NEW o \in Nat,
           NEW T, T = Later(v, o), NEW a, a = Following(v, o)
    PROVE  /\ a = [n \in 1..PageSize |-> a[n]]
           /\ \A n \in 1..PageSize :
                 /\ n <= Cardinality(T) => a[n] \in T /\ Cardinality(Below(T, a[n])) = n
                 /\ ~(n <= Cardinality(T)) => a[n] = End
<1>1. IsFiniteSet(T) /\ T \in SUBSET Nat
  BY LaterFinite
<1> DEFINE Nth(n) == CHOOSE p \in T : Cardinality(Below(T, p)) = n
           e(n) == IF n <= Cardinality(T) THEN Nth(n) ELSE End
<1>2. a = [n \in 1..PageSize |-> e(n)]
  <2>1. a = [n \in 1..PageSize |->
               IF n <= Cardinality(Later(v, o))
               THEN CHOOSE p \in Later(v, o) : Cardinality(Below(Later(v, o), p)) = n
               ELSE End]
    BY Zenon DEF Following, Below, Later
  <2> QED
    BY <2>1, Zenon
<1>3. ASSUME NEW n \in 1..Cardinality(T)
      PROVE  Nth(n) \in T /\ Cardinality(Below(T, Nth(n))) = n
  BY <1>1, Ranked, Zenon
<1> HIDE DEF Nth
<1>4. ASSUME NEW n \in 1..PageSize
      PROVE  /\ n <= Cardinality(T) => a[n] \in T /\ Cardinality(Below(T, a[n])) = n
             /\ ~(n <= Cardinality(T)) => a[n] = End
  <2>1. a[n] = e(n)
    <3> HIDE DEF e
    <3> QED
      BY <1>2
  <2>2. Cardinality(T) \in Nat /\ PageSize \in Nat
    BY <1>1, FS_CardinalityType, SnmpReadAssumption DEF SnmpReadAssumption
  <2>3. CASE n <= Cardinality(T)
    <3>1. n \in 1..Cardinality(T)
      BY <2>2, <2>3
    <3>2. a[n] = Nth(n)
      BY <2>1, <2>3
    <3> QED
      BY <1>3, <2>3, <3>1, <3>2
  <2>4. CASE ~(n <= Cardinality(T))
    BY <2>1, <2>4
  <2> QED
    BY <2>3, <2>4
<1> HIDE DEF e
<1>5. a = [n \in 1..PageSize |-> a[n]]
  BY <1>2
<1> QED
  BY <1>4, <1>5

\* An honest answer: entries of the view beyond o, none left out before another.
LEMMA HonestAnswer ==
    ASSUME NEW k \in Kinds, NEW v, IsView(v, k), NEW o \in Nat,
           NEW a, a = Following(v, o)
    PROVE  /\ a \in [1..PageSize -> DOMAIN v \union {End}]
           /\ \A j \in 1..PageSize : a[j] # End => a[j] > o
           /\ \A j \in 1..PageSize, l \in 1..PageSize : j <= l /\ a[l] # End => a[j] <= a[l]
           /\ \A p \in DOMAIN v : \A l \in 1..PageSize :
                 p > o /\ (a[l] = End \/ p <= a[l]) => \E j \in 1..l : a[j] = p
<1> DEFINE T == Later(v, o)
           N == Cardinality(T)
<1>1. IsFiniteSet(T) /\ T \in SUBSET Nat /\ PageSize \in Nat
  BY LaterFinite, SnmpReadAssumption DEF SnmpReadAssumption
<1>2. /\ a = [n \in 1..PageSize |-> a[n]]
      /\ \A n \in 1..PageSize :
            /\ n <= N => a[n] \in T /\ Cardinality(Below(T, a[n])) = n
            /\ ~(n <= N) => a[n] = End
  BY FollowingIs
<1>3. \A p \in T : p \in Nat /\ p > o /\ p \in DOMAIN v /\ p # End
  BY <1>1 DEF End, Later
<1>4. N \in Nat
  BY <1>1, FS_CardinalityType
<1>5. \A p \in DOMAIN v : p > o => p \in T
  BY DEF Later
<1> HIDE DEF T
<1>6. ASSUME NEW p \in T, NEW q \in T
      PROVE  /\ Cardinality(Below(T, p)) \in 1..N
             /\ p <= q <=> Cardinality(Below(T, p)) <= Cardinality(Below(T, q))
  BY <1>1, RankOrder
<1> HIDE DEF N
<1>7. \A n \in 1..PageSize : a[n] # End <=> n <= N
  BY <1>2, <1>3
<1>8. ASSUME NEW j \in 1..PageSize, NEW l \in 1..PageSize, j <= l, a[l] # End
      PROVE  a[j] <= a[l]
  <2>1. l <= N /\ j <= N
    BY <1>1, <1>4, <1>7, <1>8
  <2>2. /\ a[j] \in T /\ Cardinality(Below(T, a[j])) = j
        /\ a[l] \in T /\ Cardinality(Below(T, a[l])) = l
    BY <1>2, <2>1
  <2> QED
    BY <1>6, <1>8, <2>2
<1>9. ASSUME NEW p \in T, NEW l \in 1..PageSize, a[l] = End \/ p <= a[l]
      PROVE  \E j \in 1..l : a[j] = p
  <2> DEFINE j == Cardinality(Below(T, p))
  <2>1. j \in 1..N
    BY <1>6
  <2>2. j <= l
    <3>1. CASE a[l] = End
      <4>1. ~(l <= N)
        BY <1>7, <3>1
      <4> HIDE DEF j
      <4> QED
        BY <1>1, <1>4, <2>1, <4>1
    <3>2. CASE a[l] # End
      <4>1. a[l] \in T /\ Cardinality(Below(T, a[l])) = l
        BY <1>2, <1>7, <3>2
      <4> QED
        BY <1>6, <1>9, <3>2, <4>1
    <3> QED
      BY <3>1, <3>2
  <2> HIDE DEF j
  <2>3. j \in 1..l /\ j \in 1..PageSize /\ j <= N
    BY <1>1, <1>4, <2>1, <2>2
  <2>4. a[j] \in T /\ Cardinality(Below(T, a[j])) = j
    BY <1>2, <2>3
  <2>5. a[j] <= p /\ p <= a[j]
    <3>1. Cardinality(Below(T, p)) = Cardinality(Below(T, a[j])) /\ j \in Nat
      BY <2>1, <2>4 DEF j
    <3>2. a[j] <= p <=> j <= j
      BY <1>6, <2>4 DEF j
    <3>3. p <= a[j] <=> j <= j
      BY <1>6, <2>4 DEF j
    <3> QED
      BY <3>1, <3>2, <3>3
  <2>6. a[j] = p
    BY <1>3, <2>4, <2>5
  <2> QED
    BY <2>3, <2>6
<1>10. \A n \in 1..PageSize : a[n] \in DOMAIN v \union {End} /\ (a[n] # End => a[n] > o)
  BY <1>2, <1>3
<1>11. a \in [1..PageSize -> DOMAIN v \union {End}]
  BY <1>2, <1>10
<1> QED
  BY <1>5, <1>8, <1>9, <1>10, <1>11

\* How much of an answer Walk takes: all up to the first varbind beyond the column.
LEMMA InsideIs ==
    ASSUME NEW a, NEW n, n = Inside(a)
    PROVE  /\ n \in 0..PageSize /\ PageSize \in Nat \ {0}
           /\ \A j \in 1..n : Col(a[j]) = col
           /\ n < PageSize => Col(a[n + 1]) # col
<1> DEFINE P(m) == /\ \A j \in 1..m : Col(a[j]) = col
                   /\ m < PageSize => Col(a[m + 1]) # col
<1>1. PageSize \in Nat \ {0}
  BY SnmpReadAssumption DEF SnmpReadAssumption
<1>2. \E m \in 0..PageSize : P(m)
  <2> DEFINE S == {m \in Nat : m < PageSize /\ Col(a[m + 1]) # col} \union {PageSize}
  <2>1. S \in SUBSET Nat /\ S # {}
    BY <1>1
  <2>2. PICK m \in S : \A j \in S : m <= j
    BY <2>1, Least
  <2>3. m \in 0..PageSize /\ (m < PageSize => Col(a[m + 1]) # col)
    BY <1>1, <2>2
  <2>4. ASSUME NEW j \in 1..m PROVE Col(a[j]) = col
    <3>1. j - 1 \in Nat /\ j - 1 < m /\ j - 1 < PageSize /\ (j - 1) + 1 = j
      BY <1>1, <2>3
    <3>2. j - 1 \notin S
      BY <2>2, <2>3, <3>1
    <3> QED
      BY <3>1, <3>2
  <2> QED
    BY <2>3, <2>4
<1>3. n = CHOOSE m \in 0..PageSize : P(m)
  BY DEF Inside
<1> HIDE DEF P
<1>4. n \in 0..PageSize /\ P(n)
  BY <1>2, <1>3
<1> QED
  BY <1>1, <1>4 DEF P

-----------------------------------------------------------------------------
(* Type correctness. *)

Typed == ReadTypeOK /\ pdu \in Seq(Varbinds(kind))

\* Where a walk is: at an OID of its column or at its head.
LEMMA WalkAt ==
    ASSUME Typed
    PROVE  /\ col \in 1..3 /\ pos \in Nat
           /\ \E i \in Tails : pos = Oid(col, i)
<1>1. col \in 1..3
  BY DEF Typed, ReadTypeOK, Columns
<1>2. kind \in Kinds
  BY DEF Typed, ReadTypeOK
<1>3. CASE pos = Oid(col, 0)
  <2>1. 0 \in Tails
    BY DEF Tails, Width
  <2> QED
    BY <1>1, <1>3, <2>1, OidParts
<1>4. CASE pos \in Oids(kind) /\ Col(pos) = col
  <2>1. pos = Oid(col, RowOf(pos)) /\ RowOf(pos) \in Tails /\ pos \in Nat
    BY <1>2, <1>4, OidsAre
  <2> QED
    BY <1>1, <2>1
<1> QED
  BY <1>3, <1>4 DEF Typed, ReadTypeOK

\* Any answer, honest or not, is made of entries of the view and its end.
LEMMA AnswerType ==
    ASSUME Typed, NEW a \in Answers(pos)
    PROVE  /\ a \in [1..PageSize -> DOMAIN view \union {End}]
           /\ honest => a = Following(view, pos)
<1>1. kind \in Kinds /\ IsView(view, kind) /\ pos \in Nat
  BY WalkAt DEF Typed, ReadTypeOK
<1>2. Following(view, pos) \in [1..PageSize -> DOMAIN view \union {End}]
  BY <1>1, HonestAnswer
<1> QED
  BY <1>2 DEF Answers

\* Every variable starts with its type.
LEMMA InitTyped ==
    ASSUME ReadInit
    PROVE  Typed
<1>1. kind \in Kinds /\ 1 \in Columns(kind)
  BY DEF ReadInit, Columns
<1>2. IsView(conf, kind) /\ view = conf /\ saved = conf
  BY <1>1, SnmpReadAssumption DEF ReadInit, SnmpReadAssumption
<1>3. pdu \in Seq(Varbinds(kind))
  BY DEF ReadInit
<1>4. reads \in 0..MaxReads /\ changes \in 0..MaxChanges
  BY SnmpReadAssumption DEF ReadInit, SnmpReadAssumption
<1>5. \A c \in Columns(kind) : DOMAIN got[c] \subseteq Indices
  BY DEF ReadInit, NoRows
<1>6. IsView(view, kind) /\ IsView(saved, kind)
  BY <1>2
<1>7. ReadTypeOK
  BY <1>1, <1>2, <1>4, <1>5, <1>6 DEF ReadInit, ReadTypeOK
<1> QED
  BY <1>3, <1>7 DEF Typed

\* A SET comes in.
LEMMA SetTyped ==
    ASSUME Typed, NEW p \in Pdus[kind], Set(p)
    PROVE  Typed'
<1>1. p \in Seq(Varbinds(kind)) /\ MaxChanges \in Nat
  BY SnmpReadAssumption DEF SnmpReadAssumption, Typed, ReadTypeOK, Varbinds
<1>2. changes' \in 0..MaxChanges
  BY <1>1 DEF Set, Typed, ReadTypeOK
<1>3. pdu' \in Seq(Varbinds(kind)) /\ kind' = kind
  BY <1>1 DEF Set
<1>4. ReadTypeOK'
  BY <1>2 DEF Set, Typed, ReadTypeOK, readerVars, IsView
<1> QED
  BY <1>3, <1>4 DEF Typed

\* A read begins.
LEMMA BeginTyped ==
    ASSUME Typed, BeginRead
    PROVE  Typed'
<1>1. 1 \in Columns(kind) /\ MaxReads \in Nat
  BY SnmpReadAssumption DEF SnmpReadAssumption, Columns
<1>2. reads' \in 0..MaxReads
  BY <1>1 DEF BeginRead, Typed, ReadTypeOK
<1>3. \A c \in Columns(kind) : DOMAIN got'[c] \subseteq Indices
  BY DEF BeginRead, NoRows
<1>4. DOMAIN got' = Columns(kind)
  BY DEF BeginRead
<1>5. ReadTypeOK'
  BY <1>1, <1>2, <1>3, <1>4 DEF BeginRead, Typed, ReadTypeOK, agentVars, IsView
<1> QED
  BY <1>5 DEF BeginRead, Typed, agentVars

\* A read fails for want of an answer.
LEMMA LostTyped ==
    ASSUME Typed, Lost
    PROVE  Typed'
<1>1. ReadTypeOK'
  BY DEF Lost, Typed, ReadTypeOK, agentVars, IsView
<1> QED
  BY <1>1 DEF Lost, Typed, agentVars

\* The next varbind of a SET.
LEMMA ApplyTyped ==
    ASSUME Typed, Apply
    PROVE  Typed'
<1>1. /\ kind \in Kinds /\ IsView(conf, kind) /\ IsView(view, kind) /\ IsView(saved, kind)
      /\ behind \in BOOLEAN /\ moved \in BOOLEAN
      /\ pdu \in Seq(Varbinds(kind)) /\ pdu # <<>> /\ kind' = kind /\ saved' = saved
  BY DEF Typed, ReadTypeOK, Apply
<1>2. Head(pdu) \in Varbinds(kind) /\ Tail(pdu) \in Seq(Varbinds(kind))
  BY <1>1
<1>3. IsView(Effect(kind, conf, Head(pdu)), kind)
  BY <1>1, <1>2, EffectType
<1>4. /\ conf' \in {saved, Effect(kind, conf, Head(pdu))}
      /\ view' \in {view, conf'}
      /\ pdu' \in {<<>>, Tail(pdu)}
  BY DEF Apply, ViewAfter
<1>5. behind' \in BOOLEAN /\ moved' \in BOOLEAN
  BY <1>1 DEF Apply
<1>6. IsView(conf', kind) /\ IsView(view', kind) /\ pdu' \in Seq(Varbinds(kind))
  <2>1. pdu' \in Seq(Varbinds(kind))
    <3>1. <<>> \in Seq(Varbinds(kind))
      OBVIOUS
    <3> QED
      BY <1>2, <1>4, <3>1, Zenon
  <2>2. IsView(conf', kind)
    BY <1>1, <1>3, <1>4 DEF IsView
  <2> QED
    BY <1>1, <1>4, <2>1, <2>2 DEF IsView
<1>7. IsView(conf, kind)' /\ IsView(view, kind)' /\ IsView(saved, kind)'
  BY <1>1, <1>6 DEF IsView
<1>8. ReadTypeOK'
  BY <1>5, <1>7 DEF Apply, Typed, ReadTypeOK, readerVars
<1> QED
  BY <1>1, <1>6, <1>8 DEF Typed

\* A row put in or taken out by another face.
LEMMA OtherFaceTyped ==
    ASSUME Typed, OtherFace
    PROVE  Typed'
<1>1. kind \in Kinds /\ IsView(conf, kind) /\ kind' = kind
  BY DEF Typed, ReadTypeOK, OtherFace
<1>2. PICK i \in Indices :
        \/ conf' = WithoutRow(kind, conf, i)
        \/ \E r \in NewRows[kind] :
            conf' = [o \in DOMAIN WithoutRow(kind, conf, i) \union {Oid(c, i) : c \in DOMAIN r} |->
                        IF RowOf(o) = i THEN r[Col(o)] ELSE conf[o]]
  BY DEF OtherFace
<1>3. IsView(WithoutRow(kind, conf, i), kind)
  BY <1>1, WithoutRowIs
<1>4. ASSUME NEW r \in NewRows[kind],
             conf' = [o \in DOMAIN WithoutRow(kind, conf, i) \union {Oid(c, i) : c \in DOMAIN r} |->
                        IF RowOf(o) = i THEN r[Col(o)] ELSE conf[o]]
      PROVE  IsView(conf', kind)
  <2> DEFINE Kept == DOMAIN WithoutRow(kind, conf, i)
             Put == {Oid(c, i) : c \in DOMAIN r}
  <2>1. DOMAIN r \subseteq Columns(kind) /\ \A c \in DOMAIN r : r[c] \in Values
    BY <1>1, SnmpReadAssumption DEF SnmpReadAssumption
  <2>2. ASSUME NEW o \in Kept PROVE o \in Oids(kind) /\ RowOf(o) # i /\ conf[o] \in Values
    <3>1. o \in DOMAIN conf /\ o \notin RowOids(kind, i)
      BY DEF WithoutRow
    <3>2. o \in Oids(kind) /\ conf[o] \in Values
      BY <1>1, <3>1 DEF IsView
    <3>3. RowOf(o) # i
      BY <1>1, <3>1, <3>2, OidsAre DEF RowOids
    <3> QED
      BY <3>2, <3>3
  <2>3. ASSUME NEW c \in DOMAIN r
        PROVE  Oid(c, i) \in Oids(kind) /\ RowOf(Oid(c, i)) = i /\ r[Col(Oid(c, i))] \in Values
    <3>1. c \in Columns(kind)
      BY <2>1
    <3> QED
      BY <1>1, <2>1, <3>1, OidType
  <2> HIDE DEF Kept
  <2>4. conf' = [o \in Kept \union Put |-> IF RowOf(o) = i THEN r[Col(o)] ELSE conf[o]]
    BY <1>4 DEF Kept
  <2>5. ASSUME NEW o \in Kept \union Put
        PROVE  o \in Oids(kind) /\ (IF RowOf(o) = i THEN r[Col(o)] ELSE conf[o]) \in Values
    BY <2>2, <2>3
  <2> HIDE DEF Put
  <2> QED
    BY <2>4, <2>5 DEF IsView
<1>5. IsView(conf', kind)
  BY <1>2, <1>3, <1>4
<1>6. changes' \in 0..MaxChanges
  BY SnmpReadAssumption DEF SnmpReadAssumption, OtherFace, Typed, ReadTypeOK
<1>7. /\ UNCHANGED <<kind, honest, view, pdu, saved, readerVars, moved>> /\ behind' = TRUE
  BY DEF OtherFace
<1>8. IsView(conf, kind)' /\ IsView(view, kind)' /\ IsView(saved, kind)'
  BY <1>5, <1>7 DEF IsView, Typed, ReadTypeOK
<1>9. ReadTypeOK'
  BY <1>6, <1>7, <1>8 DEF Typed, ReadTypeOK, readerVars
<1> QED
  BY <1>7, <1>9 DEF Typed

\* What a page of a walk changes: the rows it takes, and where the walk goes on.
PageMoves(a, n) ==
    \/ pc' = "idle" /\ outcome' = "failed" /\ UNCHANGED <<col, pos, got, table>>
    \/ /\ n = PageSize /\ got' = Taken(a, n)
       /\ pos' = a[n] /\ UNCHANGED <<pc, col, outcome, table>>
    \/ /\ n # PageSize /\ col + 1 \in Columns(kind) /\ got' = Taken(a, n)
       /\ col' = col + 1 /\ pos' = Oid(col + 1, 0) /\ UNCHANGED <<pc, outcome, table>>
    \/ /\ n # PageSize /\ col + 1 \notin Columns(kind) /\ got' = Taken(a, n)
       /\ Finish(Taken(a, n))

\* Those are the cases of a page, and all it changes.
LEMMA PageIs ==
    ASSUME Page
    PROVE  /\ pc = "walk" /\ pdu = <<>>
           /\ UNCHANGED <<kind, honest, agentVars, reads, first, moved>>
           /\ \E a \in Answers(pos) : PageMoves(a, Inside(a))
<1>1. PICK a \in Answers(pos) :
        LET n == Inside(a)
            g == Taken(a, n) IN
        IF ~Rising(a, n)
        THEN pc' = "idle" /\ outcome' = "failed" /\ UNCHANGED <<col, pos, got, table>>
        ELSE /\ got' = g
             /\ IF n = PageSize
                THEN pos' = a[n] /\ UNCHANGED <<pc, col, outcome, table>>
                ELSE IF col + 1 \in Columns(kind)
                     THEN /\ col' = col + 1 /\ pos' = Oid(col + 1, 0)
                          /\ UNCHANGED <<pc, outcome, table>>
                     ELSE Finish(g)
  BY Zenon DEF Page, Taken
<1>2. PageMoves(a, Inside(a))
  BY <1>1, Zenon DEF PageMoves
<1>3. /\ pc = "walk" /\ pdu = <<>>
      /\ UNCHANGED <<kind, honest, agentVars, reads, first, moved>>
  BY DEF Page
<1> QED
  BY <1>2, <1>3

\* The varbinds taken are entries of the column.
LEMMA TakenAre ==
    ASSUME Typed, NEW a \in Answers(pos), NEW n, n = Inside(a), NEW j \in 1..n
    PROVE  /\ j \in 1..PageSize /\ a[j] \in DOMAIN view /\ a[j] \in Oids(kind)
           /\ Col(a[j]) = col /\ RowOf(a[j]) \in Indices /\ a[j] = Oid(col, RowOf(a[j]))
<1>1. kind \in Kinds /\ IsView(view, kind) /\ col \in Columns(kind)
  BY DEF Typed, ReadTypeOK
<1>2. n \in 0..PageSize /\ PageSize \in Nat /\ Col(a[j]) = col
  BY InsideIs
<1>3. j \in 1..PageSize
  BY <1>2
<1>4. a[j] \in DOMAIN view \union {End}
  BY <1>3, AnswerType
<1>5. col # 0
  BY <1>1 DEF Columns
<1>6. a[j] \in DOMAIN view
  BY <1>2, <1>4, <1>5, EndIsNowhere
<1>7. a[j] \in Oids(kind)
  BY <1>1, <1>6 DEF IsView
<1> QED
  BY <1>1, <1>2, <1>3, <1>6, <1>7, OidsAre

\* Rows of a table are all that is read.
LEMMA TakenType ==
    ASSUME Typed, NEW a \in Answers(pos), NEW n, n = Inside(a), NEW g, g = Taken(a, n)
    PROVE  /\ DOMAIN g = Columns(kind)
           /\ \A c \in Columns(kind) : DOMAIN g[c] \subseteq Indices
           /\ \A c \in Columns(kind) : c # col => g[c] = got[c]
<1> DEFINE new == {a[j] : j \in 1..n}
           rows == [i \in DOMAIN got[col] \union {RowOf(o) : o \in new} |->
                       IF Oid(col, i) \in new THEN view[Oid(col, i)] ELSE got[col][i]]
<1>1. g = [got EXCEPT ![col] = rows]
  BY DEF Taken
<1>2. /\ DOMAIN got = Columns(kind) /\ col \in Columns(kind)
      /\ \A c \in Columns(kind) : DOMAIN got[c] \subseteq Indices
  BY DEF Typed, ReadTypeOK
<1>3. \A o \in new : RowOf(o) \in Indices
  BY TakenAre
<1>4. DOMAIN rows \subseteq Indices
  BY <1>2, <1>3
<1> HIDE DEF rows
<1> QED
  BY <1>1, <1>2, <1>4

\* A page keeps the walk inside the table.
LEMMA PageTyped ==
    ASSUME Typed, Page
    PROVE  Typed'
<1>1. PICK a \in Answers(pos) : PageMoves(a, Inside(a))
  BY PageIs
<1> DEFINE n == Inside(a)
           g == Taken(a, n)
<1>2. /\ kind' = kind /\ pdu' = pdu /\ pc = "walk"
      /\ UNCHANGED <<kind, honest, agentVars, reads, first, moved>>
  BY PageIs DEF agentVars
<1>3. /\ DOMAIN g = Columns(kind)
      /\ \A c \in Columns(kind) : DOMAIN g[c] \subseteq Indices
  BY TakenType
<1>4. n = PageSize => a[n] \in Oids(kind) /\ Col(a[n]) = col
  <2>1. SUFFICES ASSUME n = PageSize PROVE n \in 1..n
    BY TakenAre
  <2> QED
    BY <2>1, InsideIs
<1>5. PageMoves(a, n)
  BY <1>1
<1> HIDE DEF n, g
<1>6. /\ pc' \in {"idle", "walk"} /\ outcome' \in {"none", "ok", "failed"}
      /\ col' \in Columns(kind)
      /\ pos' = Oid(col', 0) \/ (pos' \in Oids(kind) /\ Col(pos') = col')
      /\ DOMAIN got' = Columns(kind)
      /\ \A c \in Columns(kind) : DOMAIN got'[c] \subseteq Indices
  BY <1>2, <1>3, <1>4, <1>5 DEF PageMoves, Finish, Typed, ReadTypeOK, g
<1>7. ReadTypeOK'
  BY <1>2, <1>6 DEF Typed, ReadTypeOK, agentVars, IsView
<1> QED
  BY <1>2, <1>7 DEF Typed

\* Every step keeps the types.
LEMMA StepTyped ==
    ASSUME Typed, [ReadNext]_readVars
    PROVE  Typed'
<1>1. CASE UNCHANGED readVars
  BY <1>1 DEF Typed, ReadTypeOK, readVars, agentVars, readerVars, IsView
<1> QED
  BY <1>1, SetTyped, BeginTyped, LostTyped, ApplyTyped, OtherFaceTyped, PageTyped DEF ReadNext

\* The type invariant of a reader and its agent (GoSNMPClient.Walk, handleSet).
THEOREM ReadTypeCorrect == ReadSpec => []ReadTypeOK
<1>1. ReadInit => Typed
  BY InitTyped
<1>2. Typed /\ [ReadNext]_readVars => Typed'
  BY StepTyped
<1>3. Typed => ReadTypeOK
  BY DEF Typed
<1> QED
  BY <1>1, <1>2, <1>3, PTL DEF ReadSpec

-----------------------------------------------------------------------------
(* Whole SETs (handleSet). *)

Committed == Typed /\ SetInHand /\ OnlyWholeSets

\* No SET is in hand at first.
LEMMA InitCommitted ==
    ASSUME ReadInit
    PROVE  Committed
BY InitTyped DEF ReadInit, Committed, SetInHand, OnlyWholeSets

\* A SET comes in: all of it is to be done to the state as it is.
LEMMA SetCommitted ==
    ASSUME Committed, NEW p \in Pdus[kind], Set(p)
    PROVE  Committed'
<1>1. Typed'
  BY SetTyped DEF Committed
<1>2. /\ pdu = <<>> /\ pdu' = p /\ saved' = conf /\ conf' = conf /\ view' = view
      /\ (behind' <=> behind) /\ kind' = kind /\ intended' = Intended(kind, conf, p)
  BY DEF Set, Committed, Typed, ReadTypeOK
<1>3. Intended(kind, conf, p) = Outcome(kind, conf, conf, p)
  BY Zenon DEF Intended, Outcome
<1>4. conf = intended /\ (behind \/ view = conf)
  BY <1>2 DEF Committed, OnlyWholeSets
<1>5. SetInHand'
  BY <1>2, <1>3, <1>4 DEF SetInHand
<1>6. OnlyWholeSets'
  <2>1. SUFFICES ASSUME p = <<>>
                 PROVE  conf = Outcome(kind, conf, conf, <<>>) /\ (behind \/ view = conf)
    BY <1>2, <1>3 DEF OnlyWholeSets
  <2> QED
    BY <1>4, OutcomeOfNone
<1> QED
  BY <1>1, <1>5, <1>6 DEF Committed

\* The next varbind: applied, and with the last one the view is rebuilt, or the whole
\* SET is undone.
LEMMA ApplyCommitted ==
    ASSUME Committed, Apply
    PROVE  Committed'
<1>1. Typed'
  BY ApplyTyped DEF Committed
<1> DEFINE w == Head(pdu)
           rest == Tail(pdu)
           next == Effect(kind, conf, w)
<1>2. /\ pdu \in Seq(Varbinds(kind)) /\ pdu # <<>>
      /\ intended = Outcome(kind, saved, conf, pdu) /\ (behind \/ view = saved)
      /\ behind \in BOOLEAN
  BY DEF Apply, Committed, Typed, ReadTypeOK, SetInHand
<1>3. /\ kind' = kind /\ saved' = saved /\ intended' = intended
      /\ IF Refused(kind, conf, w)
         THEN conf' = saved /\ pdu' = <<>> /\ view' = view /\ behind' = behind
         ELSE /\ conf' = next /\ pdu' = rest
              /\ view' = IF rest = <<>> THEN conf' ELSE view
              /\ behind' = (behind /\ rest # <<>>)
  BY DEF Apply, ViewAfter
<1>4. intended = IF Refused(kind, conf, w) THEN saved ELSE Outcome(kind, saved, next, rest)
  BY <1>2, OutcomeFromFront
<1> HIDE DEF w, rest, next
<1>5. CASE Refused(kind, conf, w)
  BY <1>1, <1>2, <1>3, <1>4, <1>5 DEF Committed, SetInHand, OnlyWholeSets
<1>6. CASE ~Refused(kind, conf, w)
  <2>1. /\ conf' = next /\ pdu' = rest
        /\ view' = IF rest = <<>> THEN conf' ELSE view
        /\ behind' = (behind /\ rest # <<>>)
    BY <1>3, <1>6
  <2>2. intended = Outcome(kind, saved, next, rest)
    BY <1>4, <1>6
  <2>3. CASE rest = <<>>
    <3>1. intended = next
      BY <2>2, <2>3, OutcomeOfNone
    <3>2. pdu' = <<>> /\ view' = conf' /\ conf' = intended'
      BY <1>3, <2>1, <2>3, <3>1
    <3> QED
      BY <1>1, <3>2 DEF Committed, SetInHand, OnlyWholeSets
  <2>4. CASE rest # <<>>
    <3>1. pdu' # <<>> /\ view' = view /\ (behind' <=> behind)
      BY <1>2, <2>1, <2>4
    <3>2. intended' = Outcome(kind', saved', conf', pdu')
      BY <1>3, <2>1, <2>2
    <3>3. behind' \/ view' = saved'
      BY <1>2, <1>3, <3>1
    <3> QED
      BY <1>1, <3>1, <3>2, <3>3 DEF Committed, SetInHand, OnlyWholeSets
  <2> QED
    BY <2>3, <2>4
<1> QED
  BY <1>5, <1>6

\* Another face changes the state between SETs only.
LEMMA OtherFaceCommitted ==
    ASSUME Committed, OtherFace
    PROVE  Committed'
<1>1. Typed'
  BY OtherFaceTyped DEF Committed
<1>2. pdu' = <<>> /\ intended' = conf' /\ behind'
  BY DEF OtherFace
<1> QED
  BY <1>1, <1>2 DEF Committed, SetInHand, OnlyWholeSets

\* The reader changes nothing of the agent.
LEMMA AgentCommitted ==
    ASSUME Committed, Typed', kind' = kind, UNCHANGED agentVars
    PROVE  Committed'
BY DEF Committed, SetInHand, OnlyWholeSets, agentVars

\* Every step keeps it.
LEMMA StepCommitted ==
    ASSUME Committed, [ReadNext]_readVars
    PROVE  Committed'
<1>1. Typed'
  BY StepTyped DEF Committed
<1>2. ASSUME BeginRead \/ Page \/ Lost \/ UNCHANGED readVars
      PROVE  kind' = kind /\ UNCHANGED agentVars
  BY <1>2, PageIs DEF BeginRead, Lost, readVars
<1> QED
  BY <1>1, <1>2, AgentCommitted, SetCommitted, ApplyCommitted, OtherFaceCommitted
  DEF ReadNext, Committed

\* Between two requests the agent's state and view are made of whole SETs, whatever
\* the SETs hold and wherever one of their varbinds is refused (handleSet).
THEOREM SetsAreWhole == ReadSpec => []OnlyWholeSets
<1>1. ReadInit => Committed
  BY InitCommitted
<1>2. Committed /\ [ReadNext]_readVars => Committed'
  BY StepCommitted
<1>3. Committed => OnlyWholeSets
  BY DEF Committed
<1> QED
  BY <1>1, <1>2, <1>3, PTL DEF ReadSpec

-----------------------------------------------------------------------------
(* Quiet reads (GoSNMPClient.Walk). *)

\* What a column of a view holds: the rows it has an OID for.
ColumnOf(s, c) ==
    [i \in {j \in Indices : Oid(c, j) \in DOMAIN s} |-> s[Oid(c, i)]]

\* That is what the view is split into.
LEMMA SplitIs ==
    ASSUME NEW k \in Kinds, NEW s, IsView(s, k), NEW c \in Columns(k)
    PROVE  Split(k, s)[c] = ColumnOf(s, c)
<1> DEFINE A == {RowOf(o) : o \in {p \in DOMAIN s : Col(p) = c}}
           B == {j \in Indices : Oid(c, j) \in DOMAIN s}
<1>1. ASSUME NEW p \in DOMAIN s, Col(p) = c PROVE RowOf(p) \in B
  <2>1. p \in Oids(k)
    BY DEF IsView
  <2>2. p = Oid(c, RowOf(p)) /\ RowOf(p) \in Indices
    BY <1>1, <2>1, OidsAre
  <2> QED
    BY <2>2
<1>2. ASSUME NEW j \in B PROVE j \in A
  <2>1. Col(Oid(c, j)) = c /\ RowOf(Oid(c, j)) = j
    BY OidType
  <2> QED
    BY <2>1
<1>3. A = B
  BY <1>1, <1>2
<1>4. Split(k, s)[c] = [i \in A |-> s[Oid(c, i)]]
  BY DEF Split
<1> HIDE DEF A
<1> QED
  BY <1>3, <1>4 DEF ColumnOf

\* Nothing of a column comes up to its head.
LEMMA NothingYet ==
    ASSUME NEW k \in Kinds, NEW c \in Columns(k), NEW s
    PROVE  ColumnTo(s, c, Oid(c, 0)) = NoRows
<1>1. ASSUME NEW j \in Indices PROVE ~(Oid(c, j) <= Oid(c, 0))
  BY OidType
<1>2. {j \in Indices : Oid(c, j) \in DOMAIN s /\ Oid(c, j) <= Oid(c, 0)} = {}
  BY <1>1
<1> QED
  BY <1>2 DEF ColumnTo, NoRows

\* A column's OIDs, its head included, come before those of the next one.
LEMMA HeadsInOrder ==
    ASSUME NEW a \in 1..3, NEW i \in Tails, NEW b \in 1..3, NEW j \in Tails,
           Oid(a, i) <= Oid(b, j)
    PROVE  a <= b
<1> DEFINE w == Width
<1>1. w \in Nat
  BY DEF Width
<1>2. i \in 0..(w - 1) /\ j \in 0..(w - 1)
  BY DEF Tails
<1>3. a * w + i <= b * w + j
  BY DEF Oid
<1> HIDE DEF w
<1>4. CASE b = 1
  <2>1. w + j < 2 * w + i /\ w + j < 3 * w + i
    BY <1>1, <1>2
  <2> QED
    BY <1>1, <1>2, <1>3, <1>4, <2>1
<1>5. CASE b = 2
  BY <1>1, <1>2, <1>3, <1>5
<1>6. CASE b = 3
  BY <1>6
<1> QED
  BY <1>4, <1>5, <1>6

\* What a page takes of its column: all entries beyond the last OID, up to the end
\* of the page or of the column.
LEMMA PageTakes ==
    ASSUME Typed, NEW a, a \in Answers(pos), honest, NEW n, n = Inside(a),
           NEW i \in Indices, NEW o, o = Oid(col, i)
    PROVE  (\E j \in 1..n : a[j] = o) <=>
              o \in DOMAIN view /\ o > pos /\ (n = PageSize => o <= a[n])
<1>1. kind \in Kinds /\ IsView(view, kind) /\ col \in Columns(kind) /\ pos \in Nat
  BY WalkAt DEF Typed, ReadTypeOK
<1>2. o \in Oids(kind) /\ Col(o) = col /\ o \in Nat /\ o > 0 /\ i \in Tails
  BY <1>1, OidType, OidsAre
<1>3. n \in 0..PageSize /\ PageSize \in Nat \ {0} /\ (n < PageSize => Col(a[n + 1]) # col)
  BY InsideIs
<1>4. a = Following(view, pos)
  BY AnswerType
<1>5. /\ a \in [1..PageSize -> DOMAIN view \union {End}]
      /\ \A j \in 1..PageSize : a[j] # End => a[j] > pos
      /\ \A j \in 1..PageSize, l \in 1..PageSize : j <= l /\ a[l] # End => a[j] <= a[l]
      /\ \A p \in DOMAIN view : \A l \in 1..PageSize :
            p > pos /\ (a[l] = End \/ p <= a[l]) => \E j \in 1..l : a[j] = p
  BY <1>1, <1>4, HonestAnswer
<1>6. \A j \in 1..n : j \in 1..PageSize /\ a[j] \in DOMAIN view /\ a[j] \in Oids(kind)
  BY TakenAre
<1>7. \A p \in Oids(kind) : p # End
  BY <1>1, OidsAre DEF End
<1>8. ASSUME NEW j \in 1..n, a[j] = o
      PROVE  o \in DOMAIN view /\ o > pos /\ (n = PageSize => o <= a[n])
  <2>1. o \in DOMAIN view /\ o > pos
    BY <1>2, <1>5, <1>6, <1>7, <1>8
  <2>2. ASSUME n = PageSize PROVE o <= a[n]
    <3>1. n \in 1..PageSize /\ n \in 1..n /\ j \in 1..PageSize /\ j <= n
      BY <1>3, <2>2
    <3> QED
      BY <1>5, <1>6, <1>7, <1>8, <3>1
  <2> QED
    BY <2>1, <2>2
<1>9. ASSUME o \in DOMAIN view, o > pos, n = PageSize, o <= a[n]
      PROVE  \E j \in 1..n : a[j] = o
  <2>1. n \in 1..PageSize
    BY <1>3, <1>9
  <2> QED
    BY <1>5, <1>9, <2>1
<1>10. ASSUME o \in DOMAIN view, o > pos, n # PageSize
       PROVE  \E j \in 1..n : a[j] = o
  <2> DEFINE m == n + 1
  <2>1. m \in 1..PageSize /\ Col(a[m]) # col
    BY <1>3, <1>10
  <2> HIDE DEF m
  <2>2. a[m] = End \/ o <= a[m]
    <3>1. SUFFICES ASSUME a[m] # End, ~(o <= a[m]) PROVE FALSE
      OBVIOUS
    <3>2. a[m] \in Oids(kind) /\ a[m] > pos
      BY <1>1, <1>5, <2>1, <3>1 DEF IsView
    <3>3. /\ a[m] = Oid(Col(a[m]), RowOf(a[m])) /\ Col(a[m]) \in 1..3 /\ RowOf(a[m]) \in Tails
          /\ a[m] \in Nat
      BY <1>1, <3>2, OidsAre
    <3>4. PICK x \in Tails : pos = Oid(col, x)
      BY WalkAt
    <3>5. col \in 1..3
      BY WalkAt
    <3>6. col <= Col(a[m])
      <4>1. Oid(col, x) <= Oid(Col(a[m]), RowOf(a[m]))
        BY <1>1, <3>2, <3>3, <3>4
      <4> QED
        BY <3>3, <3>5, <4>1, HeadsInOrder
    <3>7. Col(a[m]) <= col
      <4>1. Oid(Col(a[m]), RowOf(a[m])) <= Oid(col, i)
        BY <1>2, <3>1, <3>3
      <4> QED
        BY <1>2, <3>3, <3>5, <4>1, HeadsInOrder
    <3> QED
      BY <2>1, <3>3, <3>5, <3>6, <3>7
  <2>3. PICK j \in 1..m : a[j] = o
    BY <1>5, <1>10, <2>1, <2>2
  <2>4. j # m
    BY <1>2, <2>1, <2>3
  <2>5. j \in 1..n
    BY <1>3, <2>3, <2>4 DEF m
  <2> QED
    BY <2>3, <2>5
<1> QED
  BY <1>8, <1>9, <1>10

\* So the rows read are those of the column up to where the walk has come, or all.
LEMMA TakenColumn ==
    ASSUME Typed, NEW a, a \in Answers(pos), honest, NEW n, n = Inside(a),
           got[col] = ColumnTo(view, col, pos)
    PROVE  /\ n = PageSize => Taken(a, n)[col] = ColumnTo(view, col, a[n])
           /\ n # PageSize => Taken(a, n)[col] = Split(kind, view)[col]
<1> DEFINE new == {a[j] : j \in 1..n}
           D == DOMAIN got[col] \union {RowOf(o) : o \in new}
           e(i) == IF Oid(col, i) \in new THEN view[Oid(col, i)] ELSE got[col][i]
           In(i) == Oid(col, i) \in DOMAIN view /\ (n = PageSize => Oid(col, i) <= a[n])
<1>1. /\ kind \in Kinds /\ IsView(view, kind) /\ col \in Columns(kind) /\ pos \in Nat
      /\ DOMAIN got = Columns(kind)
  BY WalkAt DEF Typed, ReadTypeOK
<1>2. Taken(a, n)[col] = [i \in D |-> e(i)]
  BY <1>1 DEF Taken
<1>3. \A i \in Indices : Oid(col, i) \in Nat /\ RowOf(Oid(col, i)) = i
  BY <1>1, OidType
<1>4. \A i \in Indices : Oid(col, i) \in new <=> In(i) /\ Oid(col, i) > pos
  <2>1. ASSUME NEW i \in Indices
        PROVE  (\E j \in 1..n : a[j] = Oid(col, i)) <=> In(i) /\ Oid(col, i) > pos
    BY PageTakes
  <2> HIDE DEF In
  <2> QED
    BY <2>1
<1>5. /\ DOMAIN got[col] = {j \in Indices : Oid(col, j) \in DOMAIN view /\ Oid(col, j) <= pos}
      /\ \A i \in DOMAIN got[col] : got[col][i] = view[Oid(col, i)]
  BY DEF ColumnTo
<1>6. \A o \in new : RowOf(o) \in Indices /\ o = Oid(col, RowOf(o))
  BY TakenAre
<1>7. n = PageSize => a[n] \in Nat /\ pos < a[n]
  <2>1. SUFFICES ASSUME n = PageSize PROVE a[n] \in Nat /\ pos < a[n]
    OBVIOUS
  <2>2. n \in 1..n
    BY <2>1, InsideIs
  <2>3. a[n] \in Oids(kind) /\ a[n] \in new
    BY <2>2, TakenAre
  <2>4. a[n] = Oid(col, RowOf(a[n])) /\ RowOf(a[n]) \in Indices
    BY <1>6, <2>3
  <2> HIDE DEF new, In
  <2>5. Oid(col, RowOf(a[n])) > pos /\ Oid(col, RowOf(a[n])) \in Nat
    BY <1>3, <1>4, <2>3, <2>4
  <2> QED
    BY <1>1, <2>4, <2>5
<1>8. \A i \in Indices : i \in D <=> In(i)
  <2>1. ASSUME NEW i \in Indices, i \in DOMAIN got[col] PROVE In(i)
    <3>1. Oid(col, i) \in DOMAIN view /\ Oid(col, i) <= pos
      BY <1>5, <2>1
    <3> QED
      BY <1>1, <1>3, <1>7, <3>1
  <2>2. ASSUME NEW o \in new PROVE In(RowOf(o))
    <3> HIDE DEF In, new
    <3> QED
      BY <1>4, <1>6, <2>2
  <2>3. ASSUME NEW i \in Indices, In(i) PROVE i \in D
    <3>1. CASE Oid(col, i) <= pos
      BY <1>5, <2>3, <3>1
    <3>2. CASE Oid(col, i) > pos
      <4>1. Oid(col, i) \in new /\ RowOf(Oid(col, i)) = i
        BY <1>3, <1>4, <2>3, <3>2
      <4> HIDE DEF new
      <4> QED
        BY <4>1
    <3> QED
      BY <1>1, <1>3, <3>1, <3>2
  <2> HIDE DEF In, new
  <2> QED
    BY <2>1, <2>2, <2>3
<1>9. D \subseteq Indices
  <2> HIDE DEF new
  <2> QED
    BY <1>5, <1>6
<1>10. \A i \in D : e(i) = view[Oid(col, i)]
  <2>1. ASSUME NEW i \in D, Oid(col, i) \notin new PROVE i \in DOMAIN got[col]
    <3>1. ASSUME NEW o \in new, i = RowOf(o) PROVE FALSE
      BY <1>6, <2>1, <3>1
    <3> HIDE DEF new
    <3> QED
      BY <2>1, <3>1
  <2> HIDE DEF new
  <2> QED
    BY <1>5, <2>1
<1> HIDE DEF e
<1>11. D = {i \in Indices : In(i)}
  <2> HIDE DEF In, D
  <2> QED
    BY <1>8, <1>9
<1> HIDE DEF D
<1>12. Taken(a, n)[col] = [i \in {j \in Indices : In(j)} |-> view[Oid(col, i)]]
  BY <1>2, <1>10, <1>11
<1>13. ASSUME n = PageSize PROVE Taken(a, n)[col] = ColumnTo(view, col, a[n])
  <2>1. {j \in Indices : In(j)}
          = {j \in Indices : Oid(col, j) \in DOMAIN view /\ Oid(col, j) <= a[n]}
    BY <1>13
  <2> HIDE DEF In
  <2> QED
    BY <1>12, <2>1 DEF ColumnTo
<1>14. ASSUME n # PageSize PROVE Taken(a, n)[col] = ColumnOf(view, col)
  <2>1. {j \in Indices : In(j)} = {j \in Indices : Oid(col, j) \in DOMAIN view}
    BY <1>14
  <2> HIDE DEF In
  <2> QED
    BY <1>12, <2>1 DEF ColumnOf
<1> QED
  BY <1>1, <1>13, <1>14, SplitIs

\* What is kept of a read: its walk so far, and what it reports.
Exact == Typed /\ Quiet /\ QuietReadIsExact

\* Nothing is read at first.
LEMMA InitExact ==
    ASSUME ReadInit
    PROVE  Exact
BY InitTyped DEF ReadInit, Exact, Quiet, QuietReadIsExact

\* A read begins with no rows, at the head of the first column.
LEMMA BeginExact ==
    ASSUME Exact, BeginRead
    PROVE  Exact'
<1>1. Typed'
  BY BeginTyped DEF Exact
<1>2. /\ kind \in Kinds /\ kind' = kind /\ view' = view /\ first' = view
      /\ col' = 1 /\ pos' = Oid(1, 0) /\ outcome' = "none"
      /\ got' = [c \in Columns(kind) |-> NoRows]
  BY DEF BeginRead, agentVars, Exact, Typed, ReadTypeOK
<1>3. \A c \in Columns(kind) : c \in 1..3 /\ ColumnTo(view, c, Oid(c, 0)) = NoRows
  BY <1>2, NothingYet DEF Columns
<1>4. \A c \in Columns(kind) :
         /\ c < 1 => got'[c] = Split(kind, view)[c]
         /\ c = 1 => got'[c] = ColumnTo(view, c, Oid(1, 0))
         /\ c > 1 => got'[c] = NoRows
  BY <1>2, <1>3
<1>5. WalkedSoFar'
  BY <1>2, <1>4 DEF WalkedSoFar
<1> QED
  BY <1>1, <1>2, <1>5 DEF Exact, Quiet, QuietReadIsExact

\* A step that leaves the reader alone: either the view is left too, or the read is
\* no longer quiet.
LEMMA ReaderExact ==
    ASSUME Exact, Typed', kind' = kind, honest' = honest, UNCHANGED readerVars,
           moved' \/ (view' = view /\ (moved' <=> moved))
    PROVE  Exact'
<1>1. CASE moved'
  BY <1>1 DEF Exact, Quiet, QuietReadIsExact, readerVars
<1>2. CASE view' = view /\ (moved' <=> moved)
  BY <1>2 DEF Exact, Quiet, QuietReadIsExact, readerVars, WalkedSoFar
<1> QED
  BY <1>1, <1>2

\* A read whose request goes unanswered fails.
LEMMA LostExact ==
    ASSUME Exact, Lost
    PROVE  Exact'
<1>1. Typed'
  BY LostTyped DEF Exact
<1> QED
  BY <1>1 DEF Lost, Exact, Quiet, QuietReadIsExact, agentVars

\* A page of a quiet walk: it takes the next entries of its column; at the end of the
\* last one the rows read are those of the view.
LEMMA PageExact ==
    ASSUME Exact, Page
    PROVE  Exact'
<1>1. Typed /\ Typed'
  BY PageTyped DEF Exact
<1>2. PICK a \in Answers(pos) : PageMoves(a, Inside(a))
  BY PageIs
<1> DEFINE n == Inside(a)
           g == Taken(a, n)
<1>3. /\ kind' = kind /\ view' = view /\ honest' = honest /\ (moved' <=> moved) /\ first' = first
      /\ pc = "walk" /\ kind \in Kinds /\ IsView(view, kind) /\ col \in Columns(kind)
  BY <1>1, PageIs DEF agentVars, Typed, ReadTypeOK
<1>4. /\ ~moved => view = first
      /\ outcome = "none"
      /\ honest /\ ~moved => WalkedSoFar
  BY <1>3 DEF Exact, Quiet
<1>5. PageMoves(a, n)
  BY <1>2
<1>6. pc' = "walk" => outcome' = "none"
  BY <1>3, <1>4, <1>5 DEF PageMoves, Finish
<1>7. CASE moved \/ ~honest \/ outcome' = "failed"
  BY <1>1, <1>3, <1>4, <1>6, <1>7 DEF Exact, Quiet, QuietReadIsExact
<1>8. CASE ~moved /\ honest /\ outcome' # "failed"
  <2>1. WalkedSoFar
    BY <1>4, <1>8
  <2>2. /\ n = PageSize => g[col] = ColumnTo(view, col, a[n])
        /\ n # PageSize => g[col] = Split(kind, view)[col]
    BY <1>1, <1>3, <1>8, <2>1, TakenColumn DEF WalkedSoFar
  <2>3. /\ DOMAIN g = Columns(kind)
        /\ \A c \in Columns(kind) : c # col => g[c] = got[c]
    BY <1>1, TakenType
  <2>4. \A c \in Columns(kind) :
           /\ c \in 1..3
           /\ c < col => g[c] = Split(kind, view)[c]
           /\ c > col => g[c] = NoRows
    BY <1>3, <2>1, <2>3 DEF WalkedSoFar, Columns
  <2>5. g = [c \in Columns(kind) |-> g[c]]
    BY <1>1, <2>3 DEF Taken, Typed, ReadTypeOK
  <2>6. col \in 1..3
    BY <1>1, WalkAt
  <2> HIDE DEF n, g
  <2>7. CASE n = PageSize
    <3>1. /\ pc' = pc /\ col' = col /\ outcome' = "none" /\ pos' = a[n] /\ got' = g
      BY <1>3, <1>4, <1>5, <1>8, <2>7 DEF PageMoves, g
    <3>2. WalkedSoFar'
      BY <1>3, <2>2, <2>4, <2>7, <3>1 DEF WalkedSoFar
    <3> QED
      BY <1>1, <1>3, <1>4, <3>1, <3>2 DEF Exact, Quiet, QuietReadIsExact
  <2>8. CASE n # PageSize /\ col + 1 \in Columns(kind)
    <3>1. /\ pc' = pc /\ col' = col + 1 /\ outcome' = "none" /\ pos' = Oid(col + 1, 0)
          /\ got' = g
      BY <1>3, <1>4, <1>5, <1>8, <2>8 DEF PageMoves, g
    <3>2. ColumnTo(view, col + 1, Oid(col + 1, 0)) = NoRows
      BY <1>3, <2>8, NothingYet
    <3>3. ASSUME NEW c \in Columns(kind)
          PROVE  /\ c < col + 1 => g[c] = Split(kind, view)[c]
                 /\ c = col + 1 => g[c] = ColumnTo(view, c, Oid(col + 1, 0))
                 /\ c > col + 1 => g[c] = NoRows
      <4>1. c \in 1..3
        BY <2>4
      <4>2. /\ c < col + 1 => c < col \/ c = col
            /\ c = col + 1 => c > col
            /\ c > col + 1 => c > col
        BY <2>6, <4>1
      <4> QED
        BY <2>2, <2>4, <2>8, <3>2, <4>2
    <3>4. WalkedSoFar'
      BY <1>3, <3>1, <3>3 DEF WalkedSoFar
    <3> QED
      BY <1>1, <1>3, <1>4, <3>1, <3>4 DEF Exact, Quiet, QuietReadIsExact
  <2>9. CASE n # PageSize /\ col + 1 \notin Columns(kind)
    <3>1. Finish(g)
      BY <1>3, <1>4, <1>5, <1>8, <2>9 DEF PageMoves, g
    <3>2. table' = Joined(kind, g) /\ pc' = "idle"
      BY <1>8, <3>1 DEF Finish
    <3>3. ASSUME NEW c \in Columns(kind) PROVE g[c] = Split(kind, view)[c]
      <4>1. c \in 1..3 /\ c <= col
        BY <1>3, <2>9 DEF Columns
      <4>2. c < col \/ c = col
        BY <2>6, <4>1
      <4> QED
        BY <2>2, <2>4, <2>9, <4>2
    <3>4. Split(kind, view) = [c \in Columns(kind) |-> Split(kind, view)[c]]
      BY DEF Split
    <3>5. g = Split(kind, view)
      BY <2>5, <3>3, <3>4
    <3>6. table' = Joined(kind', Split(kind', first'))
      BY <1>3, <1>4, <1>8, <3>2, <3>5
    <3> QED
      BY <1>1, <1>3, <1>4, <3>2, <3>6 DEF Exact, Quiet, QuietReadIsExact
  <2> QED
    BY <2>7, <2>8, <2>9
<1> QED
  BY <1>7, <1>8

\* Every step keeps it.
LEMMA StepExact ==
    ASSUME Exact, [ReadNext]_readVars
    PROVE  Exact'
<1>1. Typed /\ Typed'
  BY StepTyped DEF Exact
<1>2. CASE Apply
  <2>1. kind' = kind /\ honest' = honest /\ UNCHANGED readerVars
    BY <1>2 DEF Apply
  <2>2. moved' = (moved \/ view' # view)
    BY <1>2 DEF Apply
  <2> QED
    BY <1>1, <2>1, <2>2, ReaderExact DEF Typed, ReadTypeOK
<1>3. CASE OtherFace \/ UNCHANGED readVars \/ \E p \in Pdus[kind] : Set(p)
  <2>1. /\ kind' = kind /\ honest' = honest /\ UNCHANGED readerVars
        /\ view' = view /\ (moved' <=> moved)
    BY <1>3 DEF OtherFace, Set, readVars, agentVars
  <2> QED
    BY <1>1, <2>1, ReaderExact
<1> QED
  BY <1>2, <1>3, BeginExact, PageExact, LostExact DEF ReadNext

\* A read during which the agent's view did not change reports exactly the rows of
\* that view, wherever the pages of its columns end (GoSNMPClient.Walk).
THEOREM QuietReadExact == ReadSpec => []QuietReadIsExact
<1>1. ReadInit => Exact
  BY InitExact
<1>2. Exact /\ [ReadNext]_readVars => Exact'
  BY StepExact
<1>3. Exact => QuietReadIsExact
  BY DEF Exact
<1> QED
  BY <1>1, <1>2, <1>3, PTL DEF ReadSpec

=============================================================================
