----------------------------- MODULE WebVlan_proofs -----------------------------
(***************************************************************************)
(* What WebVlan does for every number of callers, VLANs, ports and changes: *)
(* type correctness; a PVID names a missing VLAN only after a deletion; a   *)
(* call nobody interferes with makes exactly the change it was asked for;   *)
(* and a membership write harms another cell only from an overtaken page.   *)
(***************************************************************************)
EXTENDS WebVlan, WellFoundedInduction, TLAPS

\* Both tables of the switch.
Tabs == [vlans |-> vlans, pvid |-> pvid]

Rows == UNION {[S -> [Ports -> Modes]] : S \in SUBSET VlanIds}
Snapshot == [vlans : Rows, pvid : [Ports -> VlanIds]]

\* The factory VLAN is never deleted, so there is always a lowest VLAN.
SwitchOK ==
    /\ dialect \in Dialects
    /\ vlans \in Rows /\ Default \in Existing
    /\ pvid \in [Ports -> VlanIds]
    /\ deleted \subseteq VlanIds

CallsOK ==
    /\ calls \in 0..MaxCalls /\ moves \in 0..MaxMoves
    /\ op \in [Callers -> Ops]
    /\ pc \in [Callers -> {"idle", "check", "read", "select", "write", "verify", "reselect"}]
    /\ seen \in [Callers -> [Ports -> Modes]]
    /\ result \in [Callers -> {"none", "ok", "mismatch", "missing", "protected",
                               "unsupported", "refused", "failed"}]

HistoryOK ==
    /\ start \in [Callers -> Snapshot]
    /\ disturbed \in [Callers -> BOOLEAN] /\ stale \in [Callers -> BOOLEAN]

StatesOK == SwitchOK /\ CallsOK /\ HistoryOK

\* A VLAN that exists, or did before it was deleted.
Once(v) == v \in Existing \union deleted

\* guard has let the call through.
Allowed(c) == pc[c] # "idle" => ~Guarded(op[c])

\* requireVlanExists and requireFastpathMembershipFor have seen the VLAN.
VlanSeen(c) ==
    \/ op[c].kind = "pvid" /\ pc[c] \in {"read", "select", "write"}
    \/ op[c].kind = "member" /\ dialect = "fastpath" /\ pc[c] = "write"
    => Once(op[c].vlan)

\* A page nobody has overtaken shows the VLAN as it still is.
PageFresh(c) ==
    pc[c] = "write" /\ op[c].kind = "member" /\ ~stale[c]
    => /\ seen[c] = Rendered(op[c].vlan)
       /\ dialect = "fastpath" => op[c].vlan \in Existing

\* A call nobody has disturbed finds the tables as they were before its write,
\* and leaves what it was asked for after it.
Alone(c) ==
    pc[c] # "idle" /\ ~disturbed[c]
    => /\ ~stale[c]
       /\ IF pc[c] \in {"verify", "reselect"} THEN Tabs = Asked(start[c], op[c])
          ELSE start[c] = Tabs

CallInv(c) == Allowed(c) /\ VlanSeen(c) /\ PageFresh(c) /\ Alone(c)

IInv == StatesOK /\ DanglingNeedsDelete /\ \A c \in Callers : CallInv(c)

-----------------------------------------------------------------------------
(* The lowest VLAN. *)

\* A set of numbers has a least element.
LEMMA LeastExists ==
    ASSUME NEW S \in SUBSET Nat, S # {}
    PROVE  \E i \in S : \A j \in S : i <= j
<1> DEFINE R == OpToRel(<, Nat)
<1>1. R = OpToRel(<, Nat)
  OBVIOUS
<1>2. IsWellFoundedOn(R, Nat)
  BY <1>1, NatLessThanWellFounded, Zenon
<1>5. \A x, y \in Nat : <<x, y>> \in R <=> x < y
  BY Zenon DEF OpToRel
<1> HIDE DEF R
<1>3. PICK i \in S : \A j \in S : ~(<<j, i>> \in R)
  BY <1>2, WFMin, Zenon
<1>4. ASSUME NEW j \in S PROVE i <= j
  <2>1. ~(<<j, i>> \in R) /\ i \in Nat /\ j \in Nat
    BY <1>3
  <2> QED
    BY <1>5, <2>1
<1> QED
  BY <1>4

\* Min of such a set is that element.
LEMMA MinIsLeast ==
    ASSUME NEW S \in SUBSET Nat, S # {}
    PROVE  Min(S) \in S /\ \A j \in S : Min(S) <= j
<1>1. \E i \in S : \A j \in S : i <= j
  BY LeastExists
<1> QED
  BY <1>1 DEF Min

\* fastpathVlanShownVlan (web_fastpath_vlan.go): the lowest VLAN is the factory VLAN.
LEMMA LowestIsDefault ==
    ASSUME SwitchOK
    PROVE  /\ Default \in VlanIds /\ Min(Existing) = Default
           /\ \A v \in VlanIds : Shown(v) \in Existing
<1>1. VlanIds \in SUBSET Nat /\ VlanIds # {}
  BY WebVlanAssumption DEF WebVlanAssumption
<1>2. Default \in VlanIds /\ \A v \in VlanIds : Default <= v
  BY <1>1, MinIsLeast DEF Default
<1>3. Existing \subseteq VlanIds /\ Default \in Existing
  BY DEF SwitchOK, Rows, Existing
<1>4. Existing \in SUBSET Nat /\ Existing # {}
  BY <1>1, <1>3
<1>5. Min(Existing) \in Existing /\ Min(Existing) <= Default
  BY <1>3, <1>4, MinIsLeast
<1>6. Default <= Min(Existing) /\ Default \in Nat /\ Min(Existing) \in Nat
  BY <1>1, <1>2, <1>3, <1>5
<1>7. Min(Existing) = Default
  BY <1>5, <1>6
<1> QED
  BY <1>2, <1>3, <1>7 DEF Shown

-----------------------------------------------------------------------------
(* Tables, and what becomes of them. *)

\* VLANs and ports of a table (State.Vlans).
LEMMA RowsType ==
    ASSUME NEW t \in Rows
    PROVE  /\ DOMAIN t \subseteq VlanIds
           /\ \A v \in DOMAIN t : t[v] \in [Ports -> Modes]
           /\ t = [v \in DOMAIN t |-> t[v]]
BY DEF Rows

LEMMA RowsIntro ==
    ASSUME NEW S \in SUBSET VlanIds, NEW t, t = [v \in S |-> t[v]],
           \A v \in S : t[v] \in [Ports -> Modes]
    PROVE  t \in Rows /\ DOMAIN t = S
<1>1. t \in [S -> [Ports -> Modes]]
  OBVIOUS
<1> QED
  BY <1>1 DEF Rows

\* A VLAN put in, taken out or given another row leaves a table of VLANs.
LEMMA WithType ==
    ASSUME NEW t \in Rows, NEW v \in VlanIds, NEW row \in [Ports -> Modes]
    PROVE  /\ With(t, v, row) \in Rows /\ DOMAIN With(t, v, row) = DOMAIN t \union {v}
           /\ With(t, v, row)[v] = row
           /\ \A u \in DOMAIN t \ {v} : With(t, v, row)[u] = t[u]
<1> DEFINE w == With(t, v, row)
           S == DOMAIN t \union {v}
<1>1. S \in SUBSET VlanIds /\ \A u \in DOMAIN t : t[u] \in [Ports -> Modes]
  BY RowsType
<1>2. w = [u \in S |-> IF u = v THEN row ELSE t[u]]
  BY DEF With
<1> HIDE DEF w
<1>3. w = [u \in S |-> w[u]] /\ w[v] = row /\ \A u \in S \ {v} : w[u] = t[u]
  BY <1>2
<1>4. \A u \in S : w[u] \in [Ports -> Modes]
  BY <1>1, <1>3
<1>5. w \in Rows /\ DOMAIN w = S
  BY <1>1, <1>3, <1>4, RowsIntro
<1> QED
  BY <1>3, <1>5 DEF w

LEMMA WithoutType ==
    ASSUME NEW t \in Rows, NEW v
    PROVE  /\ Without(t, v) \in Rows /\ DOMAIN Without(t, v) = DOMAIN t \ {v}
           /\ \A u \in DOMAIN t \ {v} : Without(t, v)[u] = t[u]
<1> DEFINE w == Without(t, v)
           S == DOMAIN t \ {v}
<1>1. S \in SUBSET VlanIds /\ \A u \in S : t[u] \in [Ports -> Modes]
  BY RowsType
<1>2. w = [u \in S |-> t[u]]
  BY DEF Without
<1> HIDE DEF w
<1>3. w = [u \in S |-> w[u]] /\ \A u \in S : w[u] = t[u]
  BY <1>2
<1>4. w \in Rows /\ DOMAIN w = S
  BY <1>1, <1>3, RowsIntro
<1> QED
  BY <1>3, <1>4 DEF w

LEMMA ExceptType ==
    ASSUME NEW t \in Rows, NEW v \in DOMAIN t, NEW row \in [Ports -> Modes]
    PROVE  /\ [t EXCEPT ![v] = row] \in Rows /\ DOMAIN [t EXCEPT ![v] = row] = DOMAIN t
           /\ [t EXCEPT ![v] = row][v] = row
           /\ \A u \in DOMAIN t \ {v} : [t EXCEPT ![v] = row][u] = t[u]
<1> DEFINE w == [t EXCEPT ![v] = row]
<1>1. DOMAIN t \in SUBSET VlanIds /\ \A u \in DOMAIN t : t[u] \in [Ports -> Modes]
  BY RowsType
<1>2. w = [u \in DOMAIN t |-> IF u = v THEN row ELSE t[u]]
  OBVIOUS
<1> HIDE DEF w
<1>3. w = [u \in DOMAIN t |-> w[u]] /\ w[v] = row /\ \A u \in DOMAIN t \ {v} : w[u] = t[u]
  BY <1>2
<1>4. \A u \in DOMAIN t : w[u] \in [Ports -> Modes]
  BY <1>1, <1>3
<1>5. w \in Rows /\ DOMAIN w = DOMAIN t
  BY <1>1, <1>3, <1>4, RowsIntro
<1> QED
  BY <1>3, <1>5 DEF w

\* A page with every port excluded is a row.
LEMMA ExcludedType == Excluded \in [Ports -> Modes]
BY DEF Excluded, Modes

\* What a table a change may leave is like.
Possible(t) ==
    /\ t.vlans \in Rows /\ Default \in DOMAIN t.vlans
    /\ t.pvid \in [Ports -> VlanIds]

\* Everybody but c finds the tables as they were, or is marked as overtaken.
OthersTold(c) ==
    \A d \in Callers \ {c} : pc[d] # "idle" =>
        \/ stale'[d] /\ disturbed'[d]
        \/ /\ vlans' = vlans /\ pvid' = pvid
           /\ stale'[d] = stale[d] /\ disturbed'[d] = disturbed[d]

\* A change of the tables keeps them tables, forgets no VLAN and tells the others.
LEMMA BecomesOK ==
    ASSUME StatesOK, NEW c, NEW t, Possible(t), Becomes(t, c), dialect' = dialect
    PROVE  /\ SwitchOK'
           /\ disturbed' \in [Callers -> BOOLEAN] /\ stale' \in [Callers -> BOOLEAN]
           /\ \A v : Once(v) => Once(v)'
           /\ OthersTold(c)
           /\ c \in Callers => disturbed'[c] = disturbed[c] /\ stale'[c] = stale[c]
<1> DEFINE touched(d) == d # c /\ pc[d] # "idle" /\ t # [vlans |-> vlans, pvid |-> pvid]
<1>1. /\ vlans' = t.vlans /\ pvid' = t.pvid
      /\ deleted' = deleted \union (DOMAIN vlans \ DOMAIN t.vlans)
      /\ disturbed' = [d \in Callers |-> disturbed[d] \/ touched(d)]
      /\ stale' = [d \in Callers |-> stale[d] \/ touched(d)]
  BY DEF Becomes, Existing
<1>2. \A d \in Callers : touched(d) \in BOOLEAN
  OBVIOUS
<1>3. /\ disturbed \in [Callers -> BOOLEAN] /\ stale \in [Callers -> BOOLEAN]
      /\ vlans \in Rows /\ deleted \subseteq VlanIds /\ dialect \in Dialects
  BY DEF StatesOK, HistoryOK, SwitchOK
<1>4. t # [vlans |-> vlans, pvid |-> pvid] \/ (t.vlans = vlans /\ t.pvid = pvid)
  OBVIOUS
<1>5. disturbed' \in [Callers -> BOOLEAN] /\ stale' \in [Callers -> BOOLEAN]
  BY <1>1
<1>6. SwitchOK'
  <2>1. DOMAIN vlans \subseteq VlanIds
    BY <1>3, RowsType
  <2> QED
    BY <1>1, <1>3, <2>1 DEF Possible, SwitchOK, Existing
<1>7. \A v : Once(v) => Once(v)'
  BY <1>1 DEF Once, Existing
<1>8. ASSUME NEW d \in Callers, d # c, pc[d] # "idle"
      PROVE  \/ stale'[d] /\ disturbed'[d]
             \/ /\ vlans' = vlans /\ pvid' = pvid
                /\ stale'[d] = stale[d] /\ disturbed'[d] = disturbed[d]
  <2>1. disturbed'[d] = (disturbed[d] \/ touched(d)) /\ stale'[d] = (stale[d] \/ touched(d))
    BY <1>1, <1>8
  <2>2. disturbed[d] \in BOOLEAN /\ stale[d] \in BOOLEAN
    BY <1>3
  <2>3. CASE t # [vlans |-> vlans, pvid |-> pvid]
    <3>1. touched(d)
      BY <1>8, <2>3
    <3> QED
      BY <2>1, <3>1
  <2>4. CASE t = [vlans |-> vlans, pvid |-> pvid]
    <3>1. ~touched(d)
      BY <2>4
    <3>2. stale'[d] = stale[d] /\ disturbed'[d] = disturbed[d]
      BY <2>1, <2>2, <3>1
    <3> QED
      BY <1>1, <2>4, <3>2
  <2> QED
    BY <2>3, <2>4
<1>9. ASSUME c \in Callers PROVE disturbed'[c] = disturbed[c] /\ stale'[c] = stale[c]
  <2>1. ~touched(c)
    OBVIOUS
  <2>2. disturbed'[c] = (disturbed[c] \/ touched(c)) /\ stale'[c] = (stale[c] \/ touched(c))
    BY <1>1, <1>9
  <2>3. disturbed[c] \in BOOLEAN /\ stale[c] \in BOOLEAN
    BY <1>3, <1>9
  <2> QED
    BY <2>1, <2>2, <2>3
<1> QED
  BY <1>5, <1>6, <1>7, <1>8, <1>9 DEF OthersTold

-----------------------------------------------------------------------------
(* What a write makes of the tables. *)

\* An operation names a VLAN, and where it has one a port and a mode.
LEMMA OpType ==
    ASSUME NEW o \in Ops
    PROVE  /\ o.kind \in {"member", "pvid", "create", "delete"} /\ o.vlan \in VlanIds
           /\ o.kind \in {"member", "pvid"} => o.port \in Ports
           /\ o.kind = "member" => o.mode \in Modes
           /\ o.kind = "delete" => o.vlan # Default
BY WebVlanAssumption DEF WebVlanAssumption

\* The page a membership write sends (MembershipHiddenMem) is a row that differs
\* from the page read at the port of the call only.
LEMMA PageType ==
    ASSUME StatesOK, NEW c \in Callers, op[c].kind = "member"
    PROVE  /\ WholePage(c) \in [Ports -> Modes]
           /\ WholePage(c)[op[c].port] = op[c].mode
           /\ \A p \in Ports \ {op[c].port} : WholePage(c)[p] = seen[c][p]
<1>1. seen[c] \in [Ports -> Modes] /\ op[c] \in Ops
  BY DEF StatesOK, CallsOK
<1>2. op[c].port \in Ports /\ op[c].mode \in Modes
  BY <1>1, OpType
<1> QED
  BY <1>1, <1>2 DEF WholePage

\* The row a membership write changes, and what it becomes: every port of the
\* page in the page dialects, one port in the GoAhead dialect.
LEMMA MemberEffect ==
    ASSUME StatesOK, NEW c \in Callers, op[c].kind = "member"
    PROVE  \/ MemberApplied(c) = vlans
           \/ /\ dialect = "standard" /\ op[c].vlan \in Existing
              /\ MemberApplied(c) = [vlans EXCEPT ![op[c].vlan] = WholePage(c)]
           \/ /\ dialect = "goahead" /\ op[c].vlan \in Existing
              /\ MemberApplied(c) = [vlans EXCEPT ![op[c].vlan][op[c].port] = op[c].mode]
           \/ /\ dialect = "fastpath"
              /\ MemberApplied(c) = [vlans EXCEPT ![Shown(op[c].vlan)] = WholePage(c)]
<1>1. dialect \in {"standard", "fastpath", "goahead"}
  BY WebVlanAssumption DEF WebVlanAssumption, StatesOK, SwitchOK
<1>2. CASE dialect = "standard"
  BY <1>2 DEF MemberApplied
<1>3. CASE dialect = "goahead"
  BY <1>3 DEF MemberApplied
<1>4. CASE dialect = "fastpath"
  BY <1>4 DEF MemberApplied
<1> QED
  BY <1>1, <1>2, <1>3, <1>4

\* The row of one port changed is a row.
LEMMA OnePortType ==
    ASSUME NEW row \in [Ports -> Modes], NEW p \in Ports, NEW m \in Modes
    PROVE  /\ [row EXCEPT ![p] = m] \in [Ports -> Modes]
           /\ [row EXCEPT ![p] = m][p] = m
           /\ \A q \in Ports \ {p} : [row EXCEPT ![p] = m][q] = row[q]
OBVIOUS

\* A membership write leaves a table with the same VLANs, and changes one row of
\* it at most.
LEMMA MemberType ==
    ASSUME StatesOK, NEW c \in Callers, op[c].kind = "member"
    PROVE  /\ MemberApplied(c) \in Rows /\ DOMAIN MemberApplied(c) = Existing
           /\ \A u \in Existing :
                  u # (IF dialect = "fastpath" THEN Shown(op[c].vlan) ELSE op[c].vlan)
                  => MemberApplied(c)[u] = vlans[u]
           /\ \A p \in Ports : dialect = "goahead" /\ p # op[c].port =>
                  \A u \in Existing : MemberApplied(c)[u][p] = vlans[u][p]
           /\ \A u \in Existing : dialect # "goahead" =>
                  MemberApplied(c)[u] \in {vlans[u], WholePage(c)}
<1> DEFINE v == op[c].vlan
           m == MemberApplied(c)
<1>1. /\ vlans \in Rows /\ op[c] \in Ops /\ SwitchOK
  BY DEF StatesOK, SwitchOK, CallsOK
<1>2. v \in VlanIds /\ op[c].port \in Ports /\ op[c].mode \in Modes
  BY <1>1, OpType
<1>3. Shown(v) \in DOMAIN vlans
  BY <1>1, <1>2, LowestIsDefault DEF Existing
<1>4. WholePage(c) \in [Ports -> Modes]
  BY PageType
<1>5. \A u \in DOMAIN vlans : vlans[u] \in [Ports -> Modes]
  BY <1>1, RowsType
<1> HIDE DEF v, m
<1>6. ASSUME m = vlans
      PROVE  /\ m \in Rows /\ DOMAIN m = DOMAIN vlans
             /\ \A u \in DOMAIN vlans : m[u] = vlans[u]
  BY <1>1, <1>6
<1>7. ASSUME NEW u \in DOMAIN vlans, m = [vlans EXCEPT ![u] = WholePage(c)]
      PROVE  /\ m \in Rows /\ DOMAIN m = DOMAIN vlans
             /\ m[u] = WholePage(c)
             /\ \A w \in DOMAIN vlans : w # u => m[w] = vlans[w]
  BY <1>1, <1>4, <1>7, ExceptType
<1>8. ASSUME v \in DOMAIN vlans, m = [vlans EXCEPT ![v][op[c].port] = op[c].mode]
      PROVE  /\ m \in Rows /\ DOMAIN m = DOMAIN vlans
             /\ \A w \in DOMAIN vlans : w # v => m[w] = vlans[w]
             /\ \A w \in DOMAIN vlans, p \in Ports : p # op[c].port => m[w][p] = vlans[w][p]
  <2> DEFINE row == [vlans[v] EXCEPT ![op[c].port] = op[c].mode]
  <2>1. row \in [Ports -> Modes] /\ \A q \in Ports \ {op[c].port} : row[q] = vlans[v][q]
    BY <1>2, <1>5, <1>8, OnePortType
  <2>2. m = [vlans EXCEPT ![v] = row]
    BY <1>8
  <2> HIDE DEF row
  <2>3. /\ [vlans EXCEPT ![v] = row] \in Rows
        /\ DOMAIN [vlans EXCEPT ![v] = row] = DOMAIN vlans
        /\ [vlans EXCEPT ![v] = row][v] = row
        /\ \A w \in DOMAIN vlans \ {v} : [vlans EXCEPT ![v] = row][w] = vlans[w]
    BY <1>1, <1>8, <2>1, ExceptType
  <2> QED
    BY <2>1, <2>2, <2>3
<1>9. \/ m = vlans
      \/ dialect = "standard" /\ v \in DOMAIN vlans /\ m = [vlans EXCEPT ![v] = WholePage(c)]
      \/ dialect = "goahead" /\ v \in DOMAIN vlans
            /\ m = [vlans EXCEPT ![v][op[c].port] = op[c].mode]
      \/ dialect = "fastpath" /\ m = [vlans EXCEPT ![Shown(v)] = WholePage(c)]
  BY MemberEffect DEF m, v, Existing
<1>10. /\ m \in Rows /\ DOMAIN m = DOMAIN vlans
       /\ \A u \in DOMAIN vlans :
              u # (IF dialect = "fastpath" THEN Shown(v) ELSE v) => m[u] = vlans[u]
       /\ \A p \in Ports : dialect = "goahead" /\ p # op[c].port =>
              \A u \in DOMAIN vlans : m[u][p] = vlans[u][p]
       /\ \A u \in DOMAIN vlans : dialect # "goahead" => m[u] \in {vlans[u], WholePage(c)}
  <2>1. CASE m = vlans
    BY <1>6, <2>1
  <2>2. CASE dialect = "standard" /\ v \in DOMAIN vlans /\ m = [vlans EXCEPT ![v] = WholePage(c)]
    BY <1>7, <2>2
  <2>3. CASE dialect = "goahead" /\ v \in DOMAIN vlans
                /\ m = [vlans EXCEPT ![v][op[c].port] = op[c].mode]
    BY <1>8, <2>3
  <2>4. CASE dialect = "fastpath" /\ m = [vlans EXCEPT ![Shown(v)] = WholePage(c)]
    BY <1>3, <1>7, <2>4
  <2> QED
    BY <1>9, <2>1, <2>2, <2>3, <2>4
<1> QED
  BY <1>10 DEF m, v, Existing

\* What a call's write makes of the tables is possible.
LEMMA WrittenPossible ==
    ASSUME StatesOK, NEW c \in Callers
    PROVE  Possible(Written(c))
<1>1. /\ vlans \in Rows /\ Default \in DOMAIN vlans /\ pvid \in [Ports -> VlanIds]
      /\ op[c] \in Ops /\ Excluded \in [Ports -> Modes]
  BY ExcludedType DEF StatesOK, SwitchOK, CallsOK, Existing
<1>2. op[c].kind \in {"member", "pvid", "create", "delete"} /\ op[c].vlan \in VlanIds
  BY <1>1, OpType
<1>3. CASE op[c].kind = "member"
  <2>1. MemberApplied(c) \in Rows /\ DOMAIN MemberApplied(c) = DOMAIN vlans
    BY <1>3, MemberType DEF Existing
  <2>2. Written(c) = [vlans |-> MemberApplied(c), pvid |-> pvid]
    BY <1>3 DEF Written
  <2> QED
    BY <1>1, <2>1, <2>2 DEF Possible
<1>4. CASE op[c].kind = "pvid"
  <2>1. Written(c) = [vlans |-> vlans, pvid |-> [pvid EXCEPT ![op[c].port] = op[c].vlan]]
    BY <1>4 DEF Written
  <2>2. op[c].port \in Ports
    BY <1>1, <1>4, OpType
  <2> QED
    BY <1>1, <1>2, <2>1, <2>2 DEF Possible
<1>5. CASE op[c].kind = "create"
  <2> DEFINE w(v) == With(vlans, v, Excluded)
  <2>0. \A v \in VlanIds : w(v) \in Rows /\ DOMAIN w(v) = DOMAIN vlans \union {v}
    BY <1>1, WithType
  <2>1. w(op[c].vlan) \in Rows /\ DOMAIN w(op[c].vlan) = DOMAIN vlans \union {op[c].vlan}
    BY <1>2, <2>0
  <2>2. /\ Written(c).vlans \in {vlans, With(vlans, op[c].vlan, Excluded)}
        /\ Written(c).pvid = pvid
    BY <1>5 DEF Written
  <2> QED
    BY <1>1, <2>1, <2>2 DEF Possible
<1>6. CASE op[c].kind = "delete"
  <2>1. /\ Without(vlans, op[c].vlan) \in Rows
        /\ DOMAIN Without(vlans, op[c].vlan) = DOMAIN vlans \ {op[c].vlan}
    BY <1>1, WithoutType
  <2>2. op[c].vlan # Default
    BY <1>1, <1>6, OpType
  <2>3. Written(c) = [vlans |-> Without(vlans, op[c].vlan), pvid |-> pvid]
    BY <1>6 DEF Written
  <2> QED
    BY <1>1, <2>1, <2>2, <2>3 DEF Possible
<1> QED
  BY <1>2, <1>3, <1>4, <1>5, <1>6

\* A write built from a page nobody has overtaken makes of the tables exactly
\* what the call was asked for (SetVlanMembership, SetPVID, CreateVlan, DeleteVlan).
LEMMA WrittenIsAsked ==
    ASSUME StatesOK, NEW c \in Callers, ~ApplyRefused(c),
           op[c].kind = "member" =>
               /\ seen[c] = Rendered(op[c].vlan)
               /\ dialect = "fastpath" => op[c].vlan \in Existing
    PROVE  Written(c) = Asked(Tabs, op[c])
<1> DEFINE o == op[c]
           v == op[c].vlan
<1>1. o.kind \in {"member", "pvid", "create", "delete"}
  BY OpType DEF StatesOK, CallsOK
<1>2. dialect \in {"standard", "fastpath", "goahead"}
  BY WebVlanAssumption DEF WebVlanAssumption, StatesOK, SwitchOK
<1>3. Tabs.vlans = vlans /\ Tabs.pvid = pvid
  BY DEF Tabs
<1>4. CASE o.kind = "member"
  <2>1. /\ Written(c) = [vlans |-> MemberApplied(c), pvid |-> pvid]
        /\ v \in DOMAIN vlans => seen[c] = vlans[v]
    BY <1>4 DEF Written, Rendered, Existing
  <2>2. CASE v \notin DOMAIN vlans
    <3>1. MemberApplied(c) = vlans
      BY <1>2, <1>4, <2>2 DEF MemberApplied, ApplyRefused, Existing
    <3>2. Asked(Tabs, o) = Tabs
      BY <1>3, <1>4, <2>2 DEF Asked
    <3> QED
      BY <2>1, <3>1, <3>2 DEF Tabs
  <2>3. CASE v \in DOMAIN vlans
    <3>1. Asked(Tabs, o) = [Tabs EXCEPT !.vlans[v][o.port] = o.mode]
      BY <1>3, <1>4, <2>3 DEF Asked
    <3>2. [Tabs EXCEPT !.vlans[v][o.port] = o.mode] =
          [vlans |-> [vlans EXCEPT ![v][o.port] = o.mode], pvid |-> pvid]
      BY DEF Tabs
    <3>3. WholePage(c) = [vlans[v] EXCEPT ![o.port] = o.mode]
      BY <2>1, <2>3 DEF WholePage
    <3>4. Shown(v) = v
      BY <2>3 DEF Shown, Existing
    <3>5. MemberApplied(c) = [vlans EXCEPT ![v][o.port] = o.mode]
      <4>1. CASE dialect = "standard"
        BY <2>3, <3>3, <4>1 DEF MemberApplied, Existing
      <4>2. CASE dialect = "goahead"
        BY <2>3, <4>2 DEF MemberApplied, Existing
      <4>3. CASE dialect = "fastpath"
        <5>1. ~Locked(Shown(v), WholePage(c))
          BY <1>4, <4>3 DEF ApplyRefused
        <5>2. MemberApplied(c) = [vlans EXCEPT ![v] = WholePage(c)]
          BY <3>4, <4>3, <5>1 DEF MemberApplied
        <5> QED
          BY <3>3, <5>2
      <4> QED
        BY <1>2, <4>1, <4>2, <4>3
    <3> QED
      BY <2>1, <3>1, <3>2, <3>5
  <2> QED
    BY <2>2, <2>3
<1>5. CASE o.kind = "pvid"
  <2>1. Asked(Tabs, o) = [Tabs EXCEPT !.pvid[o.port] = v]
    BY <1>5 DEF Asked
  <2>2. Written(c) = [vlans |-> vlans, pvid |-> [pvid EXCEPT ![o.port] = v]]
    BY <1>5 DEF Written
  <2> QED
    BY <2>1, <2>2 DEF Tabs
<1>6. CASE o.kind = "create"
  <2>1. Asked(Tabs, o) = IF v \in DOMAIN vlans THEN Tabs
                         ELSE [Tabs EXCEPT !.vlans = With(vlans, v, Excluded)]
    BY <1>3, <1>6 DEF Asked
  <2>2. Written(c) = [vlans |-> IF v \in DOMAIN vlans THEN vlans
                                ELSE With(vlans, v, Excluded), pvid |-> pvid]
    BY <1>6 DEF Written, Existing
  <2> QED
    BY <2>1, <2>2 DEF Tabs
<1>7. CASE o.kind = "delete"
  <2>1. Asked(Tabs, o) = [Tabs EXCEPT !.vlans = Without(vlans, v)]
    BY <1>3, <1>7 DEF Asked
  <2>2. Written(c) = [vlans |-> Without(vlans, v), pvid |-> pvid]
    BY <1>7 DEF Written
  <2> QED
    BY <2>1, <2>2 DEF Tabs
<1> QED
  BY <1>1, <1>4, <1>5, <1>6, <1>7

-----------------------------------------------------------------------------
(* The invariant, step by step. *)

\* A caller that takes no step keeps its part, whatever becomes of the tables:
\* it is told, or finds them as they were.
LEMMA OtherKept ==
    ASSUME NEW d, CallInv(d), dialect' = dialect,
           pc'[d] = pc[d], op'[d] = op[d], seen'[d] = seen[d], start'[d] = start[d],
           \A v : Once(v) => Once(v)',
           pc[d] # "idle" =>
               \/ stale'[d] /\ disturbed'[d]
               \/ /\ vlans' = vlans /\ pvid' = pvid
                  /\ stale'[d] = stale[d] /\ disturbed'[d] = disturbed[d]
    PROVE  CallInv(d)'
<1>1. Allowed(d) /\ VlanSeen(d) /\ PageFresh(d) /\ Alone(d)
  BY DEF CallInv
<1>2. Allowed(d)'
  BY <1>1 DEF Allowed, Guarded
<1>3. VlanSeen(d)'
  BY <1>1 DEF VlanSeen
<1>4. PageFresh(d)' /\ Alone(d)'
  <2>1. CASE pc[d] = "idle"
    BY <2>1 DEF PageFresh, Alone
  <2>2. CASE stale'[d] /\ disturbed'[d]
    BY <2>2 DEF PageFresh, Alone
  <2>3. CASE /\ vlans' = vlans /\ pvid' = pvid
             /\ stale'[d] = stale[d] /\ disturbed'[d] = disturbed[d]
    <3>1. PageFresh(d)'
      BY <1>1, <2>3 DEF PageFresh, Rendered, Existing
    <3>2. Tabs' = Tabs
      BY <2>3 DEF Tabs
    <3>3. Alone(d)'
      BY <1>1, <2>3, <3>2 DEF Alone, Asked
    <3> QED
      BY <3>1, <3>3
  <2> QED
    BY <2>1, <2>2, <2>3
<1> QED
  BY <1>2, <1>3, <1>4 DEF CallInv

\* A call that has returned has nothing left to keep.
LEMMA IdleKept ==
    ASSUME NEW c, pc'[c] = "idle"
    PROVE  CallInv(c)'
BY DEF CallInv, Allowed, VlanSeen, PageFresh, Alone

\* A caller that goes on, or returns, keeps the types of the calls.
LEMMA GoesOn ==
    ASSUME StatesOK, NEW c \in Callers,
           NEW l \in {"idle", "check", "read", "select", "write", "verify", "reselect"},
           NEW page \in [Ports -> Modes],
           NEW r \in {"none", "ok", "mismatch", "missing", "protected",
                      "unsupported", "refused", "failed"},
           pc' = [pc EXCEPT ![c] = l],
           seen' = [seen EXCEPT ![c] = page] \/ seen' = seen,
           result' = [result EXCEPT ![c] = r] \/ result' = result,
           UNCHANGED <<calls, moves, op>>
    PROVE  /\ CallsOK' /\ pc'[c] = l /\ op'[c] = op[c]
           /\ \A d \in Callers \ {c} : pc'[d] = pc[d] /\ op'[d] = op[d] /\ seen'[d] = seen[d]
<1>1. CallsOK
  BY DEF StatesOK
<1>2. pc \in [Callers -> {"idle", "check", "read", "select", "write", "verify", "reselect"}]
  BY <1>1 DEF CallsOK
<1>3. /\ pc' \in [Callers -> {"idle", "check", "read", "select", "write", "verify", "reselect"}]
      /\ pc'[c] = l /\ \A d \in Callers \ {c} : pc'[d] = pc[d]
  BY <1>2
<1>4. seen \in [Callers -> [Ports -> Modes]]
  BY <1>1 DEF CallsOK
<1>5. seen' \in [Callers -> [Ports -> Modes]] /\ \A d \in Callers \ {c} : seen'[d] = seen[d]
  BY <1>4
<1>6. result' \in [Callers -> {"none", "ok", "mismatch", "missing", "protected",
                               "unsupported", "refused", "failed"}]
  BY <1>1 DEF CallsOK
<1> QED
  BY <1>1, <1>3, <1>5, <1>6 DEF CallsOK

\* So does a caller that reads a page (Take); its page is no longer overtaken.
LEMMA Unstale ==
    ASSUME HistoryOK, NEW c \in Callers,
           stale' = [stale EXCEPT ![c] = FALSE] \/ stale' = stale,
           UNCHANGED <<start, disturbed>>
    PROVE  HistoryOK' /\ \A d \in Callers \ {c} : stale'[d] = stale[d]
<1>1. stale \in [Callers -> BOOLEAN]
  BY DEF HistoryOK
<1>2. stale' \in [Callers -> BOOLEAN] /\ \A d \in Callers \ {c} : stale'[d] = stale[d]
  BY <1>1
<1> QED
  BY <1>2 DEF HistoryOK

\* A step of c that leaves the switch alone keeps the invariant if it keeps the
\* part of c.
LEMMA QuietStep ==
    ASSUME IInv, NEW c \in Callers, dialect' = dialect, UNCHANGED switchVars,
           deleted' = deleted, CallsOK', HistoryOK', CallInv(c)',
           \A d \in Callers \ {c} :
               /\ pc'[d] = pc[d] /\ op'[d] = op[d] /\ seen'[d] = seen[d]
               /\ start'[d] = start[d]
               /\ disturbed'[d] = disturbed[d] /\ stale'[d] = stale[d]
    PROVE  IInv'
<1>1. vlans' = vlans /\ pvid' = pvid
  BY DEF switchVars
<1>2. \A v : Once(v) => Once(v)'
  BY <1>1 DEF Once, Existing
<1>3. StatesOK'
  BY <1>1 DEF IInv, StatesOK, SwitchOK, Existing
<1>4. DanglingNeedsDelete'
  BY <1>1 DEF IInv, DanglingNeedsDelete, Existing
<1>5. ASSUME NEW d \in Callers, d # c PROVE CallInv(d)'
  <2>1. CallInv(d)
    BY DEF IInv
  <2>2. /\ pc'[d] = pc[d] /\ op'[d] = op[d] /\ seen'[d] = seen[d] /\ start'[d] = start[d]
        /\ disturbed'[d] = disturbed[d] /\ stale'[d] = stale[d]
    BY <1>5
  <2> QED
    BY <1>1, <1>2, <2>1, <2>2, OtherKept
<1>6. \A d \in Callers : CallInv(d)'
  BY <1>5
<1> QED
  BY <1>3, <1>4, <1>6 DEF IInv

\* A step of c, or of an operator, that changes the tables keeps the invariant
\* if it keeps the part of c and sets no PVID to a VLAN that never was.
LEMMA LoudStep ==
    ASSUME IInv, NEW c, NEW t, Possible(t), Becomes(t, c), dialect' = dialect,
           start' = start, CallsOK',
           \A d \in Callers \ {c} : pc'[d] = pc[d] /\ op'[d] = op[d] /\ seen'[d] = seen[d],
           c \in Callers => CallInv(c)',
           \A p \in Ports : t.pvid[p] = pvid[p] \/ Once(t.pvid[p])
    PROVE  IInv'
<1>1. /\ SwitchOK'
      /\ disturbed' \in [Callers -> BOOLEAN] /\ stale' \in [Callers -> BOOLEAN]
      /\ \A v : Once(v) => Once(v)'
      /\ OthersTold(c)
  BY BecomesOK DEF IInv
<1>2. StatesOK'
  BY <1>1 DEF IInv, StatesOK, HistoryOK
<1>3. DanglingNeedsDelete'
  <2>1. \A p \in Ports : Once(pvid[p])
    BY DEF IInv, DanglingNeedsDelete, Once
  <2>2. \A p \in Ports : Once(t.pvid[p])
    BY <2>1
  <2>3. \A p \in Ports : Once(t.pvid[p])'
    <3>0. t' = t
      OBVIOUS
    <3>1. TAKE p \in Ports
    <3>2. Once(t.pvid[p])
      BY <2>2
    <3> QED
      BY <1>1, <3>2
  <2>4. pvid' = t.pvid
    BY DEF Becomes
  <2> QED
    BY <2>3, <2>4 DEF DanglingNeedsDelete, Once
<1>4. ASSUME NEW d \in Callers, d # c PROVE CallInv(d)'
  <2>1. CallInv(d)
    BY DEF IInv
  <2>2. /\ pc'[d] = pc[d] /\ op'[d] = op[d] /\ seen'[d] = seen[d] /\ start'[d] = start[d]
    BY <1>4
  <2>3. pc[d] # "idle" =>
            \/ stale'[d] /\ disturbed'[d]
            \/ /\ vlans' = vlans /\ pvid' = pvid
               /\ stale'[d] = stale[d] /\ disturbed'[d] = disturbed[d]
    BY <1>1, <1>4 DEF OthersTold
  <2> QED
    BY <1>1, <2>1, <2>2, <2>3, OtherKept
<1>5. \A d \in Callers : CallInv(d)'
  BY <1>4
<1> QED
  BY <1>2, <1>3, <1>5 DEF IInv
\* A call that returns without having touched the switch.
LEMMA ReturnKept ==
    ASSUME IInv, NEW c \in Callers,
           NEW r \in {"ok", "mismatch", "missing", "protected",
                      "unsupported", "refused", "failed"},
           Return(c, r),
           UNCHANGED <<dialect, switchVars, calls, moves, op, historyVars>>
    PROVE  IInv'
<1>1. StatesOK /\ HistoryOK
  BY DEF IInv, StatesOK
<1>2. /\ pc' = [pc EXCEPT ![c] = "idle"]
      /\ result' = [result EXCEPT ![c] = r]
      /\ seen' = [seen EXCEPT ![c] = Excluded]
  BY DEF Return
<1>3. /\ CallsOK' /\ pc'[c] = "idle"
      /\ \A d \in Callers \ {c} : pc'[d] = pc[d] /\ op'[d] = op[d] /\ seen'[d] = seen[d]
  BY <1>1, <1>2, ExcludedType, GoesOn
<1>4. start' = start /\ disturbed' = disturbed /\ stale' = stale /\ deleted' = deleted
  BY DEF historyVars
<1>5. HistoryOK'
  BY <1>1, <1>4 DEF HistoryOK
<1>6. CallInv(c)'
  BY <1>3, IdleKept
<1> QED
  BY <1>3, <1>4, <1>5, <1>6, QuietStep

\* A call that goes on without having touched the switch keeps the invariant if
\* its place asks no more of it than the one before.
LEMMA GotoKept ==
    ASSUME IInv, NEW c \in Callers,
           NEW l \in {"read", "select", "verify", "reselect"},
           Goto(c, l),
           UNCHANGED <<dialect, switchVars, calls, moves, op, historyVars>>,
           pc[c] # "idle",
           pc[c] = "verify" <=> l = "reselect", pc[c] # "reselect", l # "verify",
           op[c].kind = "pvid" /\ l \in {"read", "select"} => Once(op[c].vlan)
    PROVE  IInv'
<1>1. StatesOK /\ HistoryOK /\ Allowed(c) /\ Alone(c)
  BY DEF IInv, StatesOK, CallInv
<1>2. pc' = [pc EXCEPT ![c] = l] /\ result' = result /\ seen' = seen
  BY DEF Goto
<1>3. /\ CallsOK' /\ pc'[c] = l /\ op'[c] = op[c]
      /\ \A d \in Callers \ {c} : pc'[d] = pc[d] /\ op'[d] = op[d] /\ seen'[d] = seen[d]
  BY <1>1, <1>2, ExcludedType, GoesOn
<1>4. start' = start /\ disturbed' = disturbed /\ stale' = stale /\ deleted' = deleted
  BY DEF historyVars
<1>5. HistoryOK'
  BY <1>1, <1>4 DEF HistoryOK
<1>6. vlans' = vlans /\ pvid' = pvid /\ dialect' = dialect
  BY DEF switchVars
<1>7. CallInv(c)'
  <2>1. Allowed(c)'
    BY <1>1, <1>3 DEF Allowed, Guarded
  <2>2. VlanSeen(c)'
    BY <1>3, <1>4, <1>6 DEF VlanSeen, Once, Existing
  <2>3. PageFresh(c)'
    BY <1>3 DEF PageFresh
  <2>4. Tabs' = Tabs
    BY <1>6 DEF Tabs
  <2>5. Alone(c)'
    BY <1>1, <1>3, <1>4, <2>4 DEF Alone, Asked
  <2> QED
    BY <2>1, <2>2, <2>3, <2>5 DEF CallInv
<1> QED
  BY <1>3, <1>4, <1>5, <1>6, <1>7, QuietStep

\* readFastpathMembership, getForm: a page read shows the VLAN as it is, and on a
\* fastpath switch shows a VLAN that exists.
LEMMA TakeKept ==
    ASSUME IInv, NEW c \in Callers, NEW page \in [Ports -> Modes], Take(c, page),
           UNCHANGED <<dialect, switchVars, calls, moves, op, start, disturbed, deleted>>,
           pc[c] \in {"read", "select"},
           op[c].kind = "member" =>
               /\ page = Rendered(op[c].vlan)
               /\ dialect = "fastpath" => op[c].vlan \in Existing
    PROVE  IInv'
<1>1. StatesOK /\ HistoryOK /\ Allowed(c) /\ Alone(c) /\ VlanSeen(c)
  BY DEF IInv, StatesOK, CallInv
<1>2. /\ pc' = [pc EXCEPT ![c] = "write"] /\ seen' = [seen EXCEPT ![c] = page]
      /\ stale' = [stale EXCEPT ![c] = FALSE] /\ result' = result
  BY DEF Take
<1>3. /\ CallsOK' /\ pc'[c] = "write" /\ op'[c] = op[c]
      /\ \A d \in Callers \ {c} : pc'[d] = pc[d] /\ op'[d] = op[d] /\ seen'[d] = seen[d]
  BY <1>1, <1>2, GoesOn
<1>4. seen'[c] = page /\ ~stale'[c]
  <2>1. seen \in [Callers -> [Ports -> Modes]] /\ stale \in [Callers -> BOOLEAN]
    BY <1>1 DEF StatesOK, CallsOK, HistoryOK
  <2> QED
    BY <1>2, <2>1
<1>5. HistoryOK' /\ \A d \in Callers \ {c} : stale'[d] = stale[d]
  BY <1>1, <1>2, Unstale
<1>6. /\ vlans' = vlans /\ pvid' = pvid /\ dialect' = dialect
      /\ start' = start /\ disturbed' = disturbed /\ deleted' = deleted
  BY DEF switchVars
<1>7. CallInv(c)'
  <2>1. Allowed(c)'
    BY <1>1, <1>3 DEF Allowed, Guarded
  <2>2. VlanSeen(c)'
    BY <1>1, <1>3, <1>6 DEF VlanSeen, Once, Existing
  <2>3. PageFresh(c)'
    BY <1>3, <1>4, <1>6 DEF PageFresh, Rendered, Existing
  <2>4. Tabs' = Tabs
    BY <1>6 DEF Tabs
  <2>5. Alone(c)'
    BY <1>1, <1>3, <1>4, <1>6, <2>4 DEF Alone
  <2> QED
    BY <2>1, <2>2, <2>3, <2>5 DEF CallInv
<1> QED
  BY <1>3, <1>5, <1>6, <1>7, QuietStep
-----------------------------------------------------------------------------
(* The actions. *)

\* A call begins: it may be refused at once, and otherwise remembers the tables.
LEMMA BeginKept ==
    ASSUME IInv, NEW c \in Callers, NEW o \in Ops, Begin(c, o)
    PROVE  IInv'
<1>1. StatesOK /\ CallsOK /\ HistoryOK /\ SwitchOK
  BY DEF IInv, StatesOK
<1>2. /\ calls < MaxCalls /\ calls' = calls + 1 /\ moves' = moves
      /\ op' = [op EXCEPT ![c] = o]
      /\ start' = [start EXCEPT ![c] = Tabs]
      /\ disturbed' = [disturbed EXCEPT ![c] = FALSE]
      /\ stale' = [stale EXCEPT ![c] = FALSE]
      /\ vlans' = vlans /\ pvid' = pvid /\ dialect' = dialect /\ deleted' = deleted
  BY DEF Begin, switchVars, Tabs
<1>3. \/ /\ pc' = [pc EXCEPT ![c] = "idle"]
         /\ result' = [result EXCEPT ![c] = "protected"]
               \/ result' = [result EXCEPT ![c] = "unsupported"]
         /\ seen' = [seen EXCEPT ![c] = Excluded]
      \/ /\ ~Guarded(o)
         /\ pc' = [pc EXCEPT ![c] = IF o.kind = "pvid" THEN "check" ELSE "read"]
         /\ result' = [result EXCEPT ![c] = "none"]
         /\ seen' = seen
  BY DEF Begin, Return
<1>4. \A d \in Callers \ {c} :
          /\ pc'[d] = pc[d] /\ op'[d] = op[d] /\ seen'[d] = seen[d]
          /\ start'[d] = start[d]
          /\ disturbed'[d] = disturbed[d] /\ stale'[d] = stale[d]
  <2>1. \A d \in Callers \ {c} : pc'[d] = pc[d]
    BY <1>1, <1>3 DEF CallsOK
  <2>2. \A d \in Callers \ {c} : seen'[d] = seen[d]
    BY <1>1, <1>3 DEF CallsOK
  <2>3. \A d \in Callers \ {c} : op'[d] = op[d]
    BY <1>1, <1>2 DEF CallsOK
  <2>4. \A d \in Callers \ {c} :
            start'[d] = start[d] /\ disturbed'[d] = disturbed[d] /\ stale'[d] = stale[d]
    BY <1>1, <1>2 DEF HistoryOK
  <2> QED
    BY <2>1, <2>2, <2>3, <2>4
<1>5. CallsOK'
  <2>1. op' \in [Callers -> Ops]
    BY <1>1, <1>2 DEF CallsOK
  <2>2. pc' \in [Callers -> {"idle", "check", "read", "select", "write", "verify", "reselect"}]
    BY <1>1, <1>3 DEF CallsOK
  <2>3. seen' \in [Callers -> [Ports -> Modes]]
    BY <1>1, <1>3, ExcludedType DEF CallsOK
  <2>4. result' \in [Callers -> {"none", "ok", "mismatch", "missing", "protected",
                                 "unsupported", "refused", "failed"}]
    BY <1>1, <1>3 DEF CallsOK
  <2>5. calls' \in 0..MaxCalls /\ moves' \in 0..MaxMoves
    BY <1>1, <1>2, WebVlanAssumption DEF CallsOK, WebVlanAssumption
  <2> QED
    BY <2>1, <2>2, <2>3, <2>4, <2>5 DEF CallsOK
<1>6. HistoryOK'
  <2>1. Tabs \in Snapshot
    BY <1>1 DEF Tabs, Snapshot, SwitchOK
  <2> QED
    BY <1>1, <1>2, <2>1 DEF HistoryOK
<1>7. CallInv(c)'
  <2>1. CASE pc'[c] = "idle"
    BY <2>1, IdleKept
  <2>2. ASSUME pc'[c] # "idle" PROVE CallInv(c)'
    <3>0. pc \in [Callers -> {"idle", "check", "read", "select", "write", "verify", "reselect"}]
      BY <1>1 DEF CallsOK
    <3>1. /\ ~Guarded(o) /\ pc'[c] \in {"check", "read"}
          /\ o.kind = "pvid" => pc'[c] = "check"
      BY <1>3, <2>2, <3>0
    <3>2. op'[c] = o
      BY <1>1, <1>2 DEF CallsOK
    <3>3. start'[c] = Tabs /\ ~disturbed'[c] /\ ~stale'[c]
      BY <1>1, <1>2 DEF HistoryOK
    <3>4. Tabs' = Tabs
      BY <1>2 DEF Tabs
    <3>5. Allowed(c)' /\ VlanSeen(c)' /\ PageFresh(c)'
      BY <3>1, <3>2 DEF Allowed, Guarded, VlanSeen, PageFresh
    <3>6. Alone(c)'
      BY <3>1, <3>3, <3>4 DEF Alone
    <3> QED
      BY <3>5, <3>6 DEF CallInv
  <2> QED
    BY <2>1, <2>2
<1> QED
  BY <1>2, <1>4, <1>5, <1>6, <1>7, QuietStep DEF switchVars

\* requireVlanExists.
LEMMA CheckKept ==
    ASSUME IInv, NEW c \in Callers, Check(c)
    PROVE  IInv'
<1>1. UNCHANGED <<dialect, switchVars, calls, moves, op, historyVars>> /\ pc[c] = "check"
  BY DEF Check
<1>2. ASSUME Goto(c, "read"), Known(op[c].vlan) PROVE IInv'
  <2>1. Once(op[c].vlan)
    BY <1>2 DEF Known, Once
  <2> QED
    BY <1>1, <1>2, <2>1, GotoKept
<1>3. ASSUME Return(c, "missing") PROVE IInv'
  BY <1>1, <1>3, ReturnKept
<1> QED
  BY <1>2, <1>3 DEF Check

\* The page read before the write: a fastpath GET shows the lowest VLAN.
LEMMA ReadKept ==
    ASSUME IInv, NEW c \in Callers, Read(c)
    PROVE  IInv'
<1> DEFINE o == op[c]
           page == IF o.kind = "member" THEN Rendered(o.vlan) ELSE Excluded
<1>1. /\ UNCHANGED <<dialect, switchVars, calls, moves, op, start, disturbed, deleted>>
      /\ pc[c] = "read"
  BY DEF Read
<1>2. StatesOK /\ SwitchOK /\ VlanSeen(c) /\ op[c] \in Ops
  BY DEF IInv, StatesOK, CallInv, CallsOK
<1>3. ASSUME stale' = stale
      PROVE  UNCHANGED <<dialect, switchVars, calls, moves, op, historyVars>>
  BY <1>1, <1>3 DEF historyVars
<1>4. ASSUME Goto(c, "select"), stale' = stale, o.kind = "member" PROVE IInv'
  BY <1>1, <1>3, <1>4, GotoKept
<1>5. ASSUME Return(c, "failed"), stale' = stale PROVE IInv'
  BY <1>1, <1>3, <1>5, ReturnKept
<1>6. ASSUME Take(c, page), ~(o.kind = "member" /\ dialect = "fastpath" /\ Min(Existing) # o.vlan)
      PROVE  IInv'
  <2>1. Rendered(o.vlan) \in [Ports -> Modes]
    BY <1>2, RowsType, ExcludedType DEF Rendered, SwitchOK, Existing
  <2>2. page \in [Ports -> Modes]
    BY <2>1, ExcludedType
  <2>3. Min(Existing) = Default /\ Default \in Existing
    BY <1>2, LowestIsDefault DEF SwitchOK
  <2>4. o.kind = "member" =>
            /\ page = Rendered(o.vlan)
            /\ dialect = "fastpath" => o.vlan \in Existing
    BY <1>6, <2>3
  <2> HIDE DEF page
  <2> QED
    BY <1>1, <1>6, <2>2, <2>4, TakeKept
<1> QED
  BY <1>4, <1>5, <1>6 DEF Read

\* readFastpathMembership: the page asked for must show its VLAN.
LEMMA SelectKept ==
    ASSUME IInv, NEW c \in Callers, Select(c)
    PROVE  IInv'
<1>1. /\ UNCHANGED <<dialect, switchVars, calls, moves, op, start, disturbed, deleted>>
      /\ pc[c] = "select"
  BY DEF Select
<1>2. StatesOK /\ SwitchOK /\ op[c] \in Ops
  BY DEF IInv, StatesOK, CallsOK
<1>3. ASSUME Return(c, "failed"), stale' = stale PROVE IInv'
  <2>1. UNCHANGED <<dialect, switchVars, calls, moves, op, historyVars>>
    BY <1>1, <1>3 DEF historyVars
  <2> QED
    BY <1>3, <2>1, ReturnKept
<1>4. ASSUME ShowsItsVlan(op[c].vlan), Take(c, Rendered(Shown(op[c].vlan))) PROVE IInv'
  <2>1. Shown(op[c].vlan) = op[c].vlan
    BY <1>4 DEF ShowsItsVlan
  <2>2. op[c].vlan \in Existing
    BY <1>2, <2>1, OpType, LowestIsDefault
  <2>3. Rendered(op[c].vlan) \in [Ports -> Modes]
    BY <1>2, RowsType, ExcludedType DEF Rendered, SwitchOK, Existing
  <2>4. Take(c, Rendered(op[c].vlan))
    BY <1>4, <2>1
  <2> DEFINE page == Rendered(op[c].vlan)
  <2>5. /\ page \in [Ports -> Modes] /\ Take(c, page)
        /\ op[c].kind = "member" => page = Rendered(op[c].vlan)
    BY <2>3, <2>4
  <2> HIDE DEF page
  <2> QED
    BY <1>1, <2>2, <2>5, TakeKept
<1> QED
  BY <1>3, <1>4 DEF Select

\* The write, served: what the tables become is possible, a PVID names a VLAN
\* that was there, and alone the call has made exactly what it was asked for.
LEMMA WriteKept ==
    ASSUME IInv, NEW c \in Callers, Write(c)
    PROVE  IInv'
<1>1. pc[c] = "write" /\ UNCHANGED <<dialect, calls, moves, op>>
  BY DEF Write
<1>2. /\ StatesOK /\ SwitchOK /\ CallsOK /\ HistoryOK /\ op[c] \in Ops
      /\ Allowed(c) /\ VlanSeen(c) /\ PageFresh(c) /\ Alone(c)
  BY DEF IInv, StatesOK, CallInv, CallsOK
<1>3. ASSUME Return(c, "refused"), UNCHANGED <<switchVars, historyVars>> PROVE IInv'
  <2>1. UNCHANGED <<dialect, switchVars, calls, moves, op, historyVars>>
    BY <1>1, <1>3
  <2> QED
    BY <1>3, <2>1, ReturnKept
<1>4. ASSUME Becomes(Written(c), c), Goto(c, "verify") \/ Return(c, "failed"),
             start' = start, ~ApplyRefused(c)
      PROVE  IInv'
  <2> DEFINE t == Written(c)
  <2>1. Possible(t) /\ Becomes(t, c)
    BY <1>2, <1>4, WrittenPossible
  <2>2. PICK l \in {"verify", "idle"} : pc' = [pc EXCEPT ![c] = l]
    BY <1>4 DEF Goto, Return
  <2>3. /\ seen' = [seen EXCEPT ![c] = Excluded] \/ seen' = seen
        /\ result' = [result EXCEPT ![c] = "failed"] \/ result' = result
    BY <1>4 DEF Goto, Return
  <2>4. /\ CallsOK' /\ pc'[c] = l /\ op'[c] = op[c]
        /\ \A d \in Callers \ {c} : pc'[d] = pc[d] /\ op'[d] = op[d] /\ seen'[d] = seen[d]
    BY <1>1, <1>2, <2>2, <2>3, ExcludedType, GoesOn
  <2>5. \A p \in Ports : t.pvid[p] = pvid[p] \/ Once(t.pvid[p])
    <3>1. CASE op[c].kind = "pvid"
      <4>1. t.pvid = [pvid EXCEPT ![op[c].port] = op[c].vlan]
        BY <3>1 DEF Written
      <4>2. Once(op[c].vlan)
        BY <1>1, <1>2, <3>1 DEF VlanSeen
      <4>3. op[c].port \in Ports /\ pvid \in [Ports -> VlanIds]
        BY <1>2, <3>1, OpType DEF SwitchOK
      <4> HIDE DEF t
      <4>4. \A p \in Ports : t.pvid[p] = pvid[p] \/ t.pvid[p] = op[c].vlan
        BY <4>1, <4>3
      <4> QED
        BY <4>2, <4>4
    <3>2. CASE op[c].kind # "pvid"
      <4>1. t.pvid = pvid
        BY <1>2, <3>2, OpType DEF Written
      <4> QED
        BY <4>1
    <3> QED
      BY <3>1, <3>2
  <2>6. dialect' = dialect
    BY <1>1
  <2>7. disturbed'[c] = disturbed[c] /\ stale'[c] = stale[c]
    <3> HIDE DEF t
    <3> QED
      BY <1>2, <2>1, <2>6, BecomesOK
  <2>8. CallInv(c)'
    <3>1. CASE l = "idle"
      BY <2>4, <3>1, IdleKept
    <3>2. ASSUME l = "verify" PROVE CallInv(c)'
      <4>1. Allowed(c)' /\ VlanSeen(c)' /\ PageFresh(c)'
        BY <1>1, <1>2, <2>4, <3>2 DEF Allowed, Guarded, VlanSeen, PageFresh
      <4>2. ASSUME ~disturbed'[c] PROVE ~stale'[c] /\ Tabs' = Asked(start[c], op[c])
        <5>1. ~stale[c] /\ start[c] = Tabs
          BY <1>1, <1>2, <2>7, <4>2 DEF Alone
        <5>2. op[c].kind = "member" =>
                  /\ seen[c] = Rendered(op[c].vlan)
                  /\ dialect = "fastpath" => op[c].vlan \in Existing
          BY <1>1, <1>2, <5>1 DEF PageFresh
        <5>3. t = Asked(Tabs, op[c])
          BY <1>2, <1>4, <5>2, WrittenIsAsked
        <5>4. vlans' = t.vlans /\ pvid' = t.pvid
          BY <2>1 DEF Becomes
        <5>5. t \in [vlans : {t.vlans}, pvid : {t.pvid}]
          BY <1>2, OpType DEF Written
        <5>6. Tabs' = t
          <6> HIDE DEF t
          <6> QED
            BY <5>4, <5>5 DEF Tabs
        <5> QED
          BY <2>7, <5>1, <5>3, <5>6
      <4>3. Alone(c)'
        <5>1. start'[c] = start[c] /\ op'[c] = op[c] /\ pc'[c] = "verify"
          BY <1>4, <2>4, <3>2
        <5> QED
          BY <4>2, <5>1 DEF Alone, Asked
      <4> QED
        BY <4>1, <4>3 DEF CallInv
    <3> QED
      BY <3>1, <3>2
  <2> HIDE DEF t
  <2> QED
    BY <1>4, <2>1, <2>4, <2>5, <2>6, <2>8, LoudStep
<1> QED
  BY <1>3, <1>4 DEF Write

\* The page read after the write (requireFastpathMembershipFor on a fastpath switch).
LEMMA VerifyKept ==
    ASSUME IInv, NEW c \in Callers, Verify(c) \/ Reselect(c) \/ Fail(c)
    PROVE  IInv'
<1>1. /\ UNCHANGED <<dialect, switchVars, calls, moves, op, historyVars>>
      /\ pc[c] # "idle"
  BY DEF Verify, Reselect, Fail
<1>2. ASSUME NEW r \in {"ok", "mismatch", "failed"}, Return(c, r) PROVE IInv'
  BY <1>1, <1>2, ReturnKept
<1>3. ASSUME Goto(c, "reselect"), pc[c] = "verify" PROVE IInv'
  BY <1>1, <1>3, GotoKept
<1> QED
  BY <1>2, <1>3 DEF Verify, Reselect, Fail

\* Another management interface makes one possible change, and touches no PVID.
LEMMA MoveKept ==
    ASSUME IInv, Move
    PROVE  IInv'
<1>1. /\ moves < MaxMoves /\ moves' = moves + 1
      /\ UNCHANGED <<dialect, calls, op, pc, seen, result, start>>
  BY DEF Move
<1>2. /\ StatesOK /\ SwitchOK /\ CallsOK
      /\ vlans \in Rows /\ Default \in DOMAIN vlans /\ pvid \in [Ports -> VlanIds]
  BY DEF IInv, StatesOK, SwitchOK, Existing
<1>3. CallsOK'
  BY <1>1, <1>2, WebVlanAssumption DEF CallsOK, WebVlanAssumption
<1>4. ASSUME NEW rows \in Rows, Default \in DOMAIN rows,
             Becomes([vlans |-> rows, pvid |-> pvid], "operator")
      PROVE  IInv'
  <2> DEFINE t == [vlans |-> rows, pvid |-> pvid]
  <2>1. Possible(t) /\ Becomes(t, "operator") /\ t.pvid = pvid
    BY <1>2, <1>4 DEF Possible
  <2>2. "operator" \notin Callers
    BY WebVlanAssumption DEF WebVlanAssumption
  <2> HIDE DEF t
  <2> QED
    BY <1>1, <1>3, <2>1, <2>2, LoudStep
<1>5. ASSUME NEW v \in VlanIds, v \notin Existing,
             Becomes([vlans |-> With(vlans, v, Excluded), pvid |-> pvid], "operator")
      PROVE  IInv'
  <2> DEFINE rows == With(vlans, v, Excluded)
  <2>1. rows \in Rows /\ DOMAIN rows = DOMAIN vlans \union {v}
    BY <1>2, ExcludedType, WithType
  <2> HIDE DEF rows
  <2>2. Becomes([vlans |-> rows, pvid |-> pvid], "operator")
    BY <1>5 DEF rows
  <2> QED
    BY <1>2, <1>4, <2>1, <2>2
<1>6. ASSUME NEW v \in Existing \ {Default},
             Becomes([vlans |-> Without(vlans, v), pvid |-> pvid], "operator")
      PROVE  IInv'
  <2> DEFINE rows == Without(vlans, v)
  <2>1. rows \in Rows /\ DOMAIN rows = DOMAIN vlans \ {v}
    BY <1>2, WithoutType
  <2> HIDE DEF rows
  <2>2. Becomes([vlans |-> rows, pvid |-> pvid], "operator")
    BY <1>6 DEF rows
  <2> QED
    BY <1>2, <1>4, <1>6, <2>1, <2>2
<1>7. ASSUME NEW v \in Existing, NEW p \in Ports, NEW m \in Modes,
             Becomes([vlans |-> [vlans EXCEPT ![v][p] = m], pvid |-> pvid], "operator")
      PROVE  IInv'
  <2> DEFINE row == [vlans[v] EXCEPT ![p] = m]
             rows == [vlans EXCEPT ![v] = row]
  <2>1. vlans[v] \in [Ports -> Modes] /\ v \in DOMAIN vlans
    BY <1>2, RowsType DEF Existing
  <2>2. row \in [Ports -> Modes]
    BY <2>1, OnePortType
  <2> HIDE DEF row
  <2>3. rows \in Rows /\ DOMAIN rows = DOMAIN vlans
    BY <1>2, <2>1, <2>2, ExceptType
  <2>4. [vlans EXCEPT ![v][p] = m] = rows
    BY DEF row
  <2>5. Becomes([vlans |-> rows, pvid |-> pvid], "operator")
    BY <1>7, <2>4
  <2> HIDE DEF rows
  <2> QED
    BY <1>2, <1>4, <2>3, <2>5
<1> QED
  BY <1>5, <1>6, <1>7 DEF Move

LEMMA InitOK == Init => IInv
<1> SUFFICES ASSUME Init PROVE IInv
  OBVIOUS
<1>1. vlans \in Rows /\ Default \in DOMAIN vlans
  <2>1. vlans \in Tables
    BY WebVlanAssumption DEF Init, WebVlanAssumption
  <2> QED
    BY <2>1 DEF Tables, Rows
<1>2. /\ pvid = [p \in Ports |-> Default] /\ dialect \in Dialects /\ deleted = {}
      /\ calls = 0 /\ moves = 0
      /\ op = [c \in Callers |-> CHOOSE o \in Ops : TRUE]
      /\ pc = [c \in Callers |-> "idle"] /\ seen = [c \in Callers |-> Excluded]
      /\ result = [c \in Callers |-> "none"] /\ start = [c \in Callers |-> Tabs]
      /\ disturbed = [c \in Callers |-> FALSE] /\ stale = [c \in Callers |-> FALSE]
  BY DEF Init, Default, Tabs
<1>3. Default \in VlanIds
  BY MinIsLeast, WebVlanAssumption DEF Default, WebVlanAssumption
<1>4. SwitchOK
  BY <1>1, <1>2, <1>3 DEF SwitchOK, Existing
<1>5. CallsOK
  <2>1. (CHOOSE o \in Ops : TRUE) \in Ops
    BY WebVlanAssumption DEF WebVlanAssumption
  <2>2. 0 \in 0..MaxCalls /\ 0 \in 0..MaxMoves
    BY WebVlanAssumption DEF WebVlanAssumption
  <2> QED
    BY <1>2, <2>1, <2>2, ExcludedType DEF CallsOK
<1>6. HistoryOK
  BY <1>2, <1>4 DEF HistoryOK, Tabs, Snapshot, SwitchOK
<1>7. DanglingNeedsDelete
  BY <1>1, <1>2 DEF DanglingNeedsDelete, Existing
<1>8. \A c \in Callers : CallInv(c)
  BY <1>2 DEF CallInv, Allowed, VlanSeen, PageFresh, Alone
<1> QED
  BY <1>4, <1>5, <1>6, <1>7, <1>8 DEF IInv, StatesOK

LEMMA StutterKept ==
    ASSUME IInv, UNCHANGED vars
    PROVE  IInv'
<1>1. /\ dialect' = dialect /\ vlans' = vlans /\ pvid' = pvid
      /\ calls' = calls /\ moves' = moves /\ op' = op /\ pc' = pc /\ seen' = seen
      /\ result' = result /\ start' = start /\ disturbed' = disturbed
      /\ stale' = stale /\ deleted' = deleted
  BY DEF vars, switchVars, historyVars
<1>2. StatesOK'
  BY <1>1 DEF IInv, StatesOK, SwitchOK, CallsOK, HistoryOK, Existing
<1>3. DanglingNeedsDelete'
  BY <1>1 DEF IInv, DanglingNeedsDelete, Existing
<1>4. ASSUME NEW c \in Callers PROVE CallInv(c)'
  <2>1. CallInv(c) /\ \A v : Once(v) => Once(v)'
    BY <1>1 DEF IInv, Once, Existing
  <2> QED
    BY <1>1, <2>1, OtherKept
<1> QED
  BY <1>2, <1>3, <1>4 DEF IInv

LEMMA StepKept == IInv /\ [Next]_vars => IInv'
<1> SUFFICES ASSUME IInv, [Next]_vars PROVE IInv'
  OBVIOUS
<1>1. CASE UNCHANGED vars
  BY <1>1, StutterKept
<1>2. CASE Move
  BY <1>2, MoveKept
<1>3. ASSUME NEW c \in Callers, NEW o \in Ops, Begin(c, o) PROVE IInv'
  BY <1>3, BeginKept
<1>4. ASSUME NEW c \in Callers, Step(c) PROVE IInv'
  <2>1. CASE Check(c)
    BY <2>1, CheckKept
  <2>2. CASE Read(c)
    BY <2>2, ReadKept
  <2>3. CASE Select(c)
    BY <2>3, SelectKept
  <2>4. CASE Write(c)
    BY <2>4, WriteKept
  <2>5. CASE Verify(c) \/ Reselect(c) \/ Fail(c)
    BY <2>5, VerifyKept
  <2> QED
    BY <1>4, <2>1, <2>2, <2>3, <2>4, <2>5 DEF Step
<1> QED
  BY <1>1, <1>2, <1>3, <1>4 DEF Next

LEMMA InvariantHolds == Spec => []IInv
BY InitOK, StepKept, PTL DEF Spec

-----------------------------------------------------------------------------
(* The theorems. *)

\* Every variable stays in its type: no page or request of any dialect leaves a
\* table that is not one (virtual/httpface.go).
THEOREM TypeCorrect == Spec => []TypeOK
<1>1. IInv => TypeOK
  <2> SUFFICES ASSUME IInv PROVE TypeOK
    OBVIOUS
  <2>1. SwitchOK /\ CallsOK /\ HistoryOK
    BY DEF IInv, StatesOK
  <2>2. Existing \subseteq VlanIds /\ vlans \in [Existing -> [Ports -> Modes]]
    BY <2>1 DEF SwitchOK, Rows, Existing
  <2>3. \A c \in Callers :
            DOMAIN start[c].vlans \subseteq VlanIds /\ start[c].pvid \in [Ports -> VlanIds]
    BY <2>1, RowsType DEF HistoryOK, Snapshot
  <2> QED
    BY <2>1, <2>2, <2>3 DEF TypeOK, SwitchOK, CallsOK, HistoryOK
<1> QED
  BY <1>1, InvariantHolds, PTL

\* A PVID names a VLAN that does not exist only after somebody has deleted it:
\* requireVlanExists has seen the VLAN before SetPVID writes, whoever else writes.
THEOREM DanglingOnlyAfterDelete == Spec => []DanglingNeedsDelete
<1>1. IInv => DanglingNeedsDelete
  BY DEF IInv
<1> QED
  BY <1>1, InvariantHolds, PTL

\* A caller's place changes only by a step of its own.
LEMMA OwnStep ==
    ASSUME IInv, [Next]_vars, NEW c \in Callers, pc'[c] # pc[c]
    PROVE  Step(c) \/ \E o \in Ops : Begin(c, o)
<1>1. pc \in [Callers -> {"idle", "check", "read", "select", "write", "verify", "reselect"}]
  BY DEF IInv, StatesOK, CallsOK
<1>2. ASSUME NEW d \in Callers, Step(d) \/ \E o \in Ops : Begin(d, o)
      PROVE  \E l : pc' = [pc EXCEPT ![d] = l]
  BY <1>2 DEF Step, Begin, Check, Read, Select, Write, Verify, Reselect, Fail,
              Goto, Return, Take
<1>3. pc' # pc
  OBVIOUS
<1>4. PICK d \in Callers : Step(d) \/ \E o \in Ops : Begin(d, o)
  BY <1>3 DEF Next, Move, vars
<1>5. PICK l : pc' = [pc EXCEPT ![d] = l]
  BY <1>2, <1>4
<1>6. d = c
  BY <1>1, <1>5
<1> QED
  BY <1>4, <1>6

\* A call nobody interferes with that reports success has changed the tables by
\* exactly what it was asked for, in every dialect (SetVlanMembership, SetPVID,
\* CreateVlan, DeleteVlan of webui/writer.go).
THEOREM AloneIsExact == Spec => ExactWhenAlone
<1>1. ASSUME IInv, [Next]_vars, NEW c \in Callers, Answers(c, "ok"), ~disturbed[c]
      PROVE  Tabs = Asked(start[c], op[c])
  <2>1. pc[c] # "idle" /\ pc'[c] = "idle" /\ result'[c] = "ok"
    BY <1>1 DEF Answers
  <2>2. Step(c)
    BY <1>1, <2>1, OwnStep DEF Begin
  <2>3. /\ pc \in [Callers -> {"idle", "check", "read", "select", "write", "verify", "reselect"}]
        /\ result \in [Callers -> {"none", "ok", "mismatch", "missing", "protected",
                                   "unsupported", "refused", "failed"}]
    BY <1>1 DEF IInv, StatesOK, CallsOK
  <2>4. ASSUME NEW r, Return(c, r) PROVE r = "ok"
    BY <2>1, <2>3, <2>4 DEF Return
  <2>5. ASSUME NEW l, Goto(c, l) PROVE l = "idle"
    BY <2>1, <2>3, <2>5 DEF Goto
  <2>6. ASSUME NEW page, Take(c, page) PROVE FALSE
    BY <2>1, <2>3, <2>6 DEF Take
  <2>7. Verify(c) \/ Reselect(c)
    BY <2>2, <2>4, <2>5, <2>6 DEF Step, Check, Read, Select, Write, Fail
  <2>8. pc[c] \in {"verify", "reselect"}
    BY <2>7 DEF Verify, Reselect
  <2> QED
    BY <1>1, <2>8 DEF IInv, CallInv, Alone
<1>2. IInv /\ [Next]_vars =>
          [\A c \in Callers : Answers(c, "ok") /\ ~disturbed[c]
               => [vlans |-> vlans, pvid |-> pvid] = Asked(start[c], op[c])]_vars
  BY <1>1 DEF Tabs
<1> QED
  BY <1>2, InvariantHolds, PTL DEF Spec, ExactWhenAlone

\* What a write changes outside its target: one row of a page dialect, from an
\* overtaken page, and another VLAN's row only when its own has been deleted.
LEMMA Collateral ==
    ASSUME IInv, NEW c \in Callers, pc[c] = "write",
           NEW v \in VlanIds, NEW p \in Ports, <<v, p>> \notin Target(op[c]),
           NEW w, w = Written(c).vlans,
           (IF v \in DOMAIN vlans THEN vlans[v][p] ELSE "none")
             # (IF v \in DOMAIN w THEN w[v][p] ELSE "none")
    PROVE  /\ stale[c] /\ dialect # "goahead"
           /\ v # op[c].vlan => dialect = "fastpath" /\ op[c].vlan \in deleted
<1> DEFINE o == op[c]
<1>1. /\ StatesOK /\ SwitchOK /\ vlans \in Rows /\ o \in Ops
      /\ Allowed(c) /\ VlanSeen(c) /\ PageFresh(c) /\ stale[c] \in BOOLEAN
  BY DEF IInv, StatesOK, SwitchOK, CallsOK, HistoryOK, CallInv
<1>2. o.kind \in {"member", "pvid", "create", "delete"} /\ o.vlan \in VlanIds
  BY <1>1, OpType
<1>3. ~Guarded(o)
  BY <1>1 DEF Allowed
<1>4. o.kind = "member"
  <2>1. ASSUME o.kind = "pvid" PROVE FALSE
    BY <2>1 DEF Written
  <2>2. ASSUME o.kind = "create" PROVE FALSE
    <3>1. v # o.vlan
      BY <2>2 DEF Target
    <3> DEFINE x == With(vlans, o.vlan, Excluded)
    <3>2. DOMAIN x = DOMAIN vlans \union {o.vlan} /\ \A z \in DOMAIN vlans \ {o.vlan} : x[z] = vlans[z]
      BY DEF With
    <3>3. w = vlans \/ w = x
      BY <2>2 DEF Written
    <3> HIDE DEF x
    <3> QED
      BY <1>2, <3>1, <3>2, <3>3
  <2>3. ASSUME o.kind = "delete" PROVE FALSE
    <3>1. v # o.vlan
      BY <2>3 DEF Target
    <3>2. w = Without(vlans, o.vlan)
      BY <2>3 DEF Written
    <3>3. /\ DOMAIN Without(vlans, o.vlan) = DOMAIN vlans \ {o.vlan}
          /\ \A u \in DOMAIN vlans \ {o.vlan} : Without(vlans, o.vlan)[u] = vlans[u]
      BY <1>1, WithoutType, Zenon
    <3> QED
      BY <3>1, <3>2, <3>3
  <2> QED
    BY <1>2, <2>1, <2>2, <2>3
<1>5. Target(o) = {<<o.vlan, o.port>>}
  BY <1>3, <1>4 DEF Target, Guarded
<1>6. w = MemberApplied(c)
  BY <1>4 DEF Written
<1> DEFINE s == IF dialect = "fastpath" THEN Shown(o.vlan) ELSE o.vlan
<1>7. /\ DOMAIN w = DOMAIN vlans
      /\ \A u \in DOMAIN vlans : u # s => w[u] = vlans[u]
      /\ \A q \in Ports : dialect = "goahead" /\ q # o.port =>
             \A u \in DOMAIN vlans : w[u][q] = vlans[u][q]
      /\ \A u \in DOMAIN vlans : dialect # "goahead" => w[u] \in {vlans[u], WholePage(c)}
  BY <1>1, <1>4, <1>6, MemberType DEF Existing
<1>8. v \in DOMAIN vlans /\ w[v][p] # vlans[v][p]
  BY <1>7
<1>9. v = s
  BY <1>7, <1>8
<1>10. v # o.vlan \/ p # o.port
  BY <1>5
<1>11. dialect # "goahead"
  BY <1>7, <1>8, <1>9, <1>10
<1>12. w[v] = WholePage(c)
  BY <1>7, <1>8, <1>11
<1>13. \A q \in Ports \ {o.port} : WholePage(c)[q] = seen[c][q]
  BY <1>1, <1>4, PageType
<1>14. ASSUME v = o.vlan PROVE stale[c]
  <2>1. p # o.port
    BY <1>10, <1>14
  <2>2. w[v][p] = seen[c][p]
    BY <1>12, <1>13, <2>1
  <2>3. ~stale[c] => seen[c] = vlans[v]
    BY <1>1, <1>4, <1>8, <1>14 DEF PageFresh, Rendered, Existing
  <2> QED
    BY <1>8, <2>2, <2>3
<1>15. ASSUME v # o.vlan
       PROVE  stale[c] /\ dialect = "fastpath" /\ o.vlan \in deleted
  <2>1. dialect = "fastpath" /\ v = Shown(o.vlan)
    BY <1>9, <1>15
  <2>2. o.vlan \notin Existing
    BY <1>15, <2>1 DEF Shown
  <2>3. o.vlan \in deleted
    BY <1>1, <1>4, <2>1, <2>2 DEF VlanSeen, Once
  <2>4. stale[c]
    BY <1>1, <1>4, <2>1, <2>2 DEF PageFresh
  <2> QED
    BY <2>1, <2>3, <2>4
<1> QED
  BY <1>11, <1>14, <1>15

\* A membership write that changes a cell of another port or VLAN was built from
\* a page somebody's change had overtaken; of another VLAN, only on a fastpath
\* switch whose own VLAN had been deleted (MembershipHiddenMem, fastpathVlanShownVlan).
THEOREM CollateralIsStale == Spec => CollateralNeedsStalePage
<1> DEFINE cell(t, v, p) == IF v \in DOMAIN t THEN t[v][p] ELSE "none"
           Harmless(c) ==
               pc[c] = "write" =>
               \A v \in VlanIds, p \in Ports :
                   cell(vlans, v, p) # cell(vlans', v, p)
                   /\ <<v, p>> \notin Target(op[c]) /\ pc'[c] # "write"
                   => /\ stale[c] /\ dialect # "goahead"
                      /\ v # op[c].vlan => dialect = "fastpath" /\ op[c].vlan \in deleted
<1>1. ASSUME IInv, [Next]_vars, NEW c \in Callers PROVE Harmless(c)
  <2> SUFFICES ASSUME pc[c] = "write", NEW v \in VlanIds, NEW p \in Ports,
                      cell(vlans, v, p) # cell(vlans', v, p),
                      <<v, p>> \notin Target(op[c]), pc'[c] # "write"
               PROVE  /\ stale[c] /\ dialect # "goahead"
                      /\ v # op[c].vlan => dialect = "fastpath" /\ op[c].vlan \in deleted
    OBVIOUS
  <2>1. Step(c)
    BY <1>1, OwnStep DEF Begin
  <2>2. Write(c) \/ Fail(c)
    BY <2>1 DEF Step, Check, Read, Select, Verify, Reselect
  <2>3. vlans' # vlans
    OBVIOUS
  <2>4. Becomes(Written(c), c)
    BY <2>2, <2>3 DEF Write, Fail, switchVars
  <2>5. vlans' = Written(c).vlans
    BY <2>4 DEF Becomes
  <2> DEFINE w == Written(c).vlans
  <2>6. cell(vlans, v, p) # cell(w, v, p)
    BY <2>5
  <2> HIDE DEF w
  <2>7. w = Written(c).vlans
    BY DEF w
  <2> QED
    BY <1>1, <2>6, <2>7, Collateral
<1>2. IInv /\ [Next]_vars => [\A c \in Callers : Harmless(c)]_vars
  BY <1>1
<1> QED
  BY <1>2, InvariantHolds, PTL DEF Spec, CollateralNeedsStalePage
=============================================================================
