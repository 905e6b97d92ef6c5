-------------------------------- MODULE WebVlan --------------------------------
(***************************************************************************)
(* The VLAN writes of the web UI writer (webui/writer.go) in the three page *)
(* dialects that have them, against the switch of the virtual web faces     *)
(* (virtual/httpface.go, web_fastpath_vlan.go).                             *)
(*                                                                          *)
(*   "standard"  a page shows one VLAN; applying it sends the mode of every *)
(*               port of that VLAN back (gs305ep, gs105pe)                  *)
(*   "fastpath"  the same, but a page asked for a VLAN that does not exist  *)
(*               shows, and applies to, the lowest one (M4300, XE, S3300)   *)
(*   "goahead"   a request names one port of one VLAN (gs728tpp)            *)
(*                                                                          *)
(* Each HTTP request is atomic: the face serves it under the lock of the    *)
(* switch state.  Between the requests of a call other calls run, and other *)
(* management interfaces change the same tables.                            *)
(***************************************************************************)
EXTENDS Naturals, FiniteSets, FiniteSetsExt

CONSTANTS
    Callers,
    Dialects,
    VlanIds, Ports,
    ProtectedPorts,  \* Writer.protectedPorts
    LockedPorts,     \* VlanMembershipLockedPorts: in access or trunk mode, refused on fastpath
    Starts,          \* initial VLAN tables
    Ops,
    MaxCalls,        \* bound: calls of all callers
    MaxMoves         \* bound: changes over other management interfaces

Modes == {"untagged", "tagged", "excluded"}
Excluded == [p \in Ports |-> "excluded"]
Default == Min(VlanIds)    \* the factory VLAN, which is never deleted
Tables == UNION {[S -> [Ports -> Modes]] : S \in {T \in SUBSET VlanIds : Default \in T}}

ASSUME WebVlanAssumption ==
    /\ Dialects \subseteq {"standard", "fastpath", "goahead"} /\ Dialects # {}
    /\ VlanIds \subseteq Nat \ {0} /\ IsFiniteSet(VlanIds) /\ VlanIds # {}
    /\ ProtectedPorts \subseteq Ports /\ LockedPorts \subseteq Ports
    /\ Starts \subseteq Tables /\ Starts # {}
    /\ Ops # {}
    /\ \A o \in Ops :
        /\ o.kind \in {"member", "pvid", "create", "delete"}
        /\ o.vlan \in VlanIds /\ o.force \in BOOLEAN
        /\ o.kind \in {"member", "pvid"} => o.port \in Ports
        /\ o.kind = "member" => o.mode \in Modes
        /\ o.kind = "delete" => o.vlan # Default
    /\ MaxCalls \in Nat /\ MaxMoves \in Nat
    /\ "operator" \notin Callers    \* who a Move is by

VARIABLES
    dialect,
    vlans,       \* State.Vlans: the modes of the ports, per VLAN that exists
    pvid,        \* State.Pvids
    calls, moves,
    op, pc,
    seen,        \* the page a membership write is built from: a mode per port
    result,
    start,       \* history: the tables when the call began
    disturbed,   \* history: somebody else changed a table since the call began
    stale,       \* history: somebody else changed a table since the page was read
    deleted      \* history: VLANs that have been deleted

switchVars == <<vlans, pvid>>
historyVars == <<start, disturbed, stale, deleted>>
vars == <<dialect, switchVars, calls, moves, op, pc, seen, result, historyVars>>

Existing == DOMAIN vlans

TypeOK ==
    /\ dialect \in Dialects
    /\ Existing \subseteq VlanIds /\ vlans \in [Existing -> [Ports -> Modes]]
    /\ pvid \in [Ports -> VlanIds]
    /\ calls \in 0..MaxCalls /\ moves \in 0..MaxMoves
    /\ op \in [Callers -> Ops]
    /\ pc \in [Callers -> {"idle", "check", "read", "select", "write", "verify", "reselect"}]
    /\ seen \in [Callers -> [Ports -> Modes]]
    /\ result \in [Callers -> {"none", "ok", "mismatch", "missing", "protected",
                               "unsupported", "refused", "failed"}]
    /\ \A c \in Callers :
        DOMAIN start[c].vlans \subseteq VlanIds /\ start[c].pvid \in [Ports -> VlanIds]
    /\ disturbed \in [Callers -> BOOLEAN] /\ stale \in [Callers -> BOOLEAN]
    /\ deleted \subseteq VlanIds

Init ==
    /\ dialect \in Dialects
    /\ vlans \in Starts
    /\ pvid = [p \in Ports |-> Min(VlanIds)]
    /\ calls = 0 /\ moves = 0
    /\ op = [c \in Callers |-> CHOOSE o \in Ops : TRUE]
    /\ pc = [c \in Callers |-> "idle"]
    /\ seen = [c \in Callers |-> Excluded]
    /\ result = [c \in Callers |-> "none"]
    /\ start = [c \in Callers |-> [vlans |-> vlans, pvid |-> pvid]]
    /\ disturbed = [c \in Callers |-> FALSE]
    /\ stale = [c \in Callers |-> FALSE]
    /\ deleted = {}

-----------------------------------------------------------------------------
(* The switch. *)

\* What a page that shows VLAN v renders; renderMembership shows a VLAN that
\* does not exist with every port excluded.
Rendered(v) == IF v \in Existing THEN vlans[v] ELSE Excluded

\* fastpathVlanShownVlan: the VLAN asked for, or the lowest there is.
Shown(v) == IF v \in Existing THEN v ELSE Min(Existing)

\* Faulty With: the ports of the new VLAN are left without a mode.
WithNil(t, v, row) ==
    [u \in DOMAIN t \union {v} |-> IF u = v THEN [p \in Ports |-> "nil"] ELSE t[u]]

With(t, v, row) == [u \in DOMAIN t \union {v} |-> IF u = v THEN row ELSE t[u]]
Without(t, v) == [u \in DOMAIN t \ {v} |-> t[u]]

\* Faulty WholePage: only the port itself is put on the page.
OnePortPage(c) == [Excluded EXCEPT ![op[c].port] = op[c].mode]

\* MembershipHiddenMem and FastpathHiddenMemWith: the page as it was read, with
\* the one port set.
WholePage(c) == [seen[c] EXCEPT ![op[c].port] = op[c].mode]

\* FastpathVlanRefusal: a page that changes a LAG member is refused as a whole.
Locked(v, page) == \E p \in LockedPorts : page[p] # vlans[v][p]

\* What applying a membership page makes of the table: applyMembership,
\* applyGoAheadVLANMembership and ApplyFastpathVlanMembership.
MemberApplied(c) ==
    LET v == op[c].vlan IN
    CASE dialect = "standard" ->
            IF v \in Existing THEN [vlans EXCEPT ![v] = WholePage(c)] ELSE vlans
      [] dialect = "goahead" ->
            IF v \in Existing
            THEN [vlans EXCEPT ![v][op[c].port] = op[c].mode] ELSE vlans
      [] dialect = "fastpath" ->
            IF Locked(Shown(v), WholePage(c)) THEN vlans
            ELSE [vlans EXCEPT ![Shown(v)] = WholePage(c)]

\* The requests answered with an error: err_flag, or a status that is not 0.
ApplyRefused(c) ==
    /\ op[c].kind = "member"
    /\ \/ dialect = "goahead" /\ op[c].vlan \notin Existing
       \/ dialect = "fastpath" /\ Locked(Shown(op[c].vlan), WholePage(c))

\* The tables after the switch has served the call's write.  Neither a PVID nor
\* the deletion of a VLAN looks at the other table.
Written(c) ==
    LET o == op[c] IN
    CASE o.kind = "member" -> [vlans |-> MemberApplied(c), pvid |-> pvid]
      [] o.kind = "pvid" -> [vlans |-> vlans, pvid |-> [pvid EXCEPT ![o.port] = o.vlan]]
      [] o.kind = "create" ->
            [vlans |-> IF o.vlan \in Existing THEN vlans ELSE With(vlans, o.vlan, Excluded),
             pvid |-> pvid]
      [] o.kind = "delete" -> [vlans |-> Without(vlans, o.vlan), pvid |-> pvid]

\* The switch takes on the tables t; everybody but c may be caught out by it.
Becomes(t, c) ==
    LET touched(d) == d # c /\ pc[d] # "idle" /\ t # [vlans |-> vlans, pvid |-> pvid] IN
    /\ vlans' = t.vlans /\ pvid' = t.pvid
    /\ deleted' = deleted \union (Existing \ DOMAIN t.vlans)
    /\ disturbed' = [d \in Callers |-> disturbed[d] \/ touched(d)]
    /\ stale' = [d \in Callers |-> stale[d] \/ touched(d)]

\* Another management interface changes one thing.
Move ==
    /\ moves < MaxMoves /\ moves' = moves + 1
    /\ \E v \in VlanIds :
        \/ /\ v \notin Existing
           /\ Becomes([vlans |-> With(vlans, v, Excluded), pvid |-> pvid], "operator")
        \/ /\ v \in Existing \ {Default}
           /\ Becomes([vlans |-> Without(vlans, v), pvid |-> pvid], "operator")
        \/ /\ v \in Existing
           /\ \E p \in Ports, m \in Modes :
                Becomes([vlans |-> [vlans EXCEPT ![v][p] = m], pvid |-> pvid], "operator")
    /\ UNCHANGED <<dialect, calls, op, pc, seen, result, start>>

-----------------------------------------------------------------------------
(* The writer. *)

Return(c, r) ==
    /\ pc' = [pc EXCEPT ![c] = "idle"]
    /\ result' = [result EXCEPT ![c] = r]
    /\ seen' = [seen EXCEPT ![c] = Excluded]

Goto(c, l) == pc' = [pc EXCEPT ![c] = l] /\ UNCHANGED <<result, seen>>

\* The page is read: what it shows is what the write will be built from.
Take(c, page) ==
    /\ pc' = [pc EXCEPT ![c] = "write"]
    /\ seen' = [seen EXCEPT ![c] = page]
    /\ stale' = [stale EXCEPT ![c] = FALSE]
    /\ UNCHANGED result

Guarded(o) == o.kind \in {"member", "pvid"} /\ o.port \in ProtectedPorts /\ ~o.force

\* requireCSRFDialect: fastpath pages carry no token, so nothing that needs one
\* is written there.
Unsupported(o) == dialect = "fastpath" /\ o.kind \in {"create", "delete"}

Begin(c, o) ==
    /\ pc[c] = "idle" /\ calls < MaxCalls
    /\ calls' = calls + 1
    /\ op' = [op EXCEPT ![c] = o]
    /\ start' = [start EXCEPT ![c] = [vlans |-> vlans, pvid |-> pvid]]
    /\ disturbed' = [disturbed EXCEPT ![c] = FALSE]
    /\ stale' = [stale EXCEPT ![c] = FALSE]
    /\ IF Guarded(o) THEN Return(c, "protected")
       ELSE IF Unsupported(o) THEN Return(c, "unsupported")
       ELSE /\ pc' = [pc EXCEPT ![c] = IF o.kind = "pvid" THEN "check" ELSE "read"]
            /\ result' = [result EXCEPT ![c] = "none"]
            /\ UNCHANGED seen
    /\ UNCHANGED <<dialect, switchVars, moves, deleted>>

\* Faulty Known: a PVID is set without looking whether its VLAN exists.
AnyVlan(v) == TRUE

\* requireVlanExists.
Known(v) == v \in Existing

Check(c) ==
    /\ pc[c] = "check"
    /\ IF Known(op[c].vlan) THEN Goto(c, "read") ELSE Return(c, "missing")
    /\ UNCHANGED <<dialect, switchVars, calls, moves, op, historyVars>>

\* The page read before the write.  A fastpath GET shows the lowest VLAN, and
\* has no token for a PVID; a standard deletion needs its VLAN on the page.
Read(c) ==
    LET o == op[c] IN
    /\ pc[c] = "read"
    /\ IF o.kind = "member" /\ dialect = "fastpath" /\ Min(Existing) # o.vlan
       THEN Goto(c, "select") /\ UNCHANGED stale
       ELSE IF \/ o.kind = "pvid" /\ dialect = "fastpath"
               \/ o.kind = "delete" /\ dialect = "standard" /\ o.vlan \notin Existing
       THEN Return(c, "failed") /\ UNCHANGED stale
       ELSE Take(c, IF o.kind = "member" THEN Rendered(o.vlan) ELSE Excluded)
    /\ UNCHANGED <<dialect, switchVars, calls, moves, op, start, disturbed, deleted>>

\* Faulty ShowsItsVlan: any membership page will do.
AnyPage(v) == TRUE

\* requireFastpathMembershipFor.
ShowsItsVlan(v) == Shown(v) = v

\* readFastpathMembership: the page is asked for the VLAN, and must show it.
Select(c) ==
    /\ pc[c] = "select"
    /\ IF ShowsItsVlan(op[c].vlan)
       THEN Take(c, Rendered(Shown(op[c].vlan)))
       ELSE Return(c, "failed") /\ UNCHANGED stale
    /\ UNCHANGED <<dialect, switchVars, calls, moves, op, start, disturbed, deleted>>

\* The write, served; its answer may be lost.
Write(c) ==
    /\ pc[c] = "write"
    /\ IF ApplyRefused(c) THEN Return(c, "refused") /\ UNCHANGED <<switchVars, historyVars>>
       ELSE /\ Becomes(Written(c), c)
            /\ Goto(c, "verify") \/ Return(c, "failed")
            /\ UNCHANGED start
    /\ UNCHANGED <<dialect, calls, moves, op>>

\* What the page read after the write shows.
ReadsBack(o) ==
    CASE o.kind = "member" -> Rendered(o.vlan)[o.port] = o.mode
      [] o.kind = "pvid" -> pvid[o.port] = o.vlan
      [] o.kind = "create" -> o.vlan \in Existing
      [] o.kind = "delete" -> o.vlan \notin Existing

Verify(c) ==
    /\ pc[c] = "verify"
    /\ IF op[c].kind = "member" /\ dialect = "fastpath" /\ Min(Existing) # op[c].vlan
       THEN Goto(c, "reselect")
       ELSE Return(c, IF ReadsBack(op[c]) THEN "ok" ELSE "mismatch")
    /\ UNCHANGED <<dialect, switchVars, calls, moves, op, historyVars>>

Reselect(c) ==
    /\ pc[c] = "reselect"
    /\ Return(c, IF ~ShowsItsVlan(op[c].vlan) THEN "failed"
                 ELSE IF ReadsBack(op[c]) THEN "ok" ELSE "mismatch")
    /\ UNCHANGED <<dialect, switchVars, calls, moves, op, historyVars>>

\* Any request may fail before the switch serves it.
Fail(c) ==
    /\ pc[c] # "idle" /\ Return(c, "failed")
    /\ UNCHANGED <<dialect, switchVars, calls, moves, op, historyVars>>

Step(c) ==
    \/ Check(c) \/ Read(c) \/ Select(c) \/ Write(c) \/ Verify(c) \/ Reselect(c) \/ Fail(c)

Next == Move \/ \E c \in Callers : Step(c) \/ \E o \in Ops : Begin(c, o)

Spec == Init /\ [][Next]_vars

-----------------------------------------------------------------------------

\* What the call was asked to make of the tables it began with.
Asked(s, o) ==
    CASE o.kind = "member" ->
            IF o.vlan \in DOMAIN s.vlans
            THEN [s EXCEPT !.vlans[o.vlan][o.port] = o.mode] ELSE s
      [] o.kind = "pvid" -> [s EXCEPT !.pvid[o.port] = o.vlan]
      [] o.kind = "create" ->
            IF o.vlan \in DOMAIN s.vlans THEN s
            ELSE [s EXCEPT !.vlans = With(s.vlans, o.vlan, Excluded)]
      [] o.kind = "delete" -> [s EXCEPT !.vlans = Without(s.vlans, o.vlan)]

Answers(c, r) == pc[c] # "idle" /\ pc'[c] = "idle" /\ result'[c] = r

\* A call nobody interferes with that reports success has made exactly the
\* change it was asked for, and nothing else in either table; the page that
\* rewrites a whole VLAN keeps the other ports (SetVlanMembership).
ExactWhenAlone ==
    [][\A c \in Callers :
        Answers(c, "ok") /\ ~disturbed[c]
            => [vlans |-> vlans, pvid |-> pvid] = Asked(start[c], op[c])]_vars

\* The cells a call may change: never those of a protected port without force,
\* except by deleting their VLAN.
Target(o) ==
    CASE o.kind = "member" ->
            IF o.port \in ProtectedPorts /\ ~o.force THEN {} ELSE {<<o.vlan, o.port>>}
      [] o.kind = "pvid" -> {}
      [] OTHER -> {o.vlan} \X Ports

\* A membership write that changes any other cell, of another port or of another
\* VLAN, was built from a page somebody else's change had overtaken; it changes
\* another VLAN only on a fastpath switch whose own VLAN has been deleted, and a
\* GoAhead write never does either (MembershipHiddenMem, fastpathVlanShownVlan).
CollateralNeedsStalePage ==
    [][\A c \in Callers : pc[c] = "write" =>
        \A v \in VlanIds, p \in Ports :
            LET cell(t) == IF v \in DOMAIN t THEN t[v][p] ELSE "none" IN
            cell(vlans) # cell(vlans') /\ <<v, p>> \notin Target(op[c]) /\ pc'[c] # "write"
                => /\ stale[c] /\ dialect # "goahead"
                   /\ v # op[c].vlan => dialect = "fastpath" /\ op[c].vlan \in deleted]_vars

\* A PVID names a VLAN that does not exist only if that VLAN has been deleted:
\* the switch does not look, so the writer has to (requireVlanExists).
DanglingNeedsDelete == \A p \in Ports : pvid[p] \in Existing \union deleted

=============================================================================
