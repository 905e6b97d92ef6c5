-------------------------------- MODULE PoeCycle --------------------------------
(***************************************************************************)
(* PoE power on one port: SetPoE, CyclePoE and ClearPoEFault of the writers *)
(* (snmp/writer.go, snmp/writer_cycle.go, webui/writer.go,                  *)
(* fastpath/writer.go), run over the management stacks of one switch by     *)
(* callers that do not know of each other.                                  *)
(*                                                                          *)
(*   "snmp"     a cycle is two SETs with a wait for darkness between them    *)
(*   "goahead"  a cycle is two verified page writes, with no such wait       *)
(*   "cli"      the device has one command for it; the writer waits          *)
(*   "xui"      a button of the page; nothing is read back                   *)
(*   "plus"     likewise                                                     *)
(*                                                                          *)
(* Every request is atomic on the switch, may be lost on its way, and its    *)
(* answer may be lost on the way back.                                       *)
(***************************************************************************)
EXTENDS Naturals

CONSTANTS
    Callers,
    Switches,        \* the sets of stacks that one switch has
    IsProtected,     \* whether the port is in the writers' protectedPorts
    MaxCalls,        \* bound: calls of all callers
    MaxEvents        \* bound: faults, and devices plugged in or out

Stacks == {"snmp", "goahead", "cli", "xui", "plus"}
Kinds == {"on", "off", "cycle", "clear"}
Detects == {"disabled", "searching", "delivering", "fault"}   \* model.PoEDetect
Ops == [kind : Kinds, stack : Stacks, force : BOOLEAN]

ASSUME PoeAssumption ==
    /\ Switches \subseteq SUBSET Stacks /\ Switches # {} /\ {} \notin Switches
    /\ IsProtected \in BOOLEAN /\ MaxCalls \in Nat /\ MaxEvents \in Nat

VARIABLES
    stacks,      \* the stacks of the switch
    admin,       \* PoeSim.Admin
    detect,      \* PoeSim.Detect
    lag,         \* PoeSim.CliStatusLagReads
    link,        \* PortSim.Link of the port
    attached,    \* a device that draws power is plugged in (PowerMw)
    calls, events,
    op, pc,
    before,      \* the detection status read first
    result,
    \* history, of the call each caller is in:
    dark,        \* it switched the power off, and nobody has switched it on since
    wasOff,      \* at some moment of it the switch powered the port down
    disturbed,   \* another call changed the port during it
    surprised    \* a fault or a plug event happened during it

switchVars == <<admin, detect, lag, link, attached>>
historyVars == <<dark, wasOff, disturbed, surprised>>
vars == <<stacks, switchVars, calls, events, op, pc, before, result, historyVars>>

SwitchOK ==
    /\ stacks \in Switches /\ calls \in 0..MaxCalls /\ events \in 0..MaxEvents
    /\ admin \in BOOLEAN /\ detect \in Detects /\ lag \in 0..1
    /\ link \in BOOLEAN /\ attached \in BOOLEAN

CallsOK ==
    /\ op \in [Callers -> Ops]
    /\ pc \in [Callers -> {"idle", "before", "set", "check", "cut", "cut?", "dark?", "link?",
                           "restore", "restore?", "reset", "back?"}]
    /\ before \in [Callers -> Detects]
    /\ result \in [Callers -> {"none", "ok", "mismatch", "protected", "failed"}]

HistoryOK ==
    /\ dark \in [Callers -> BOOLEAN] /\ wasOff \in [Callers -> BOOLEAN]
    /\ disturbed \in [Callers -> BOOLEAN] /\ surprised \in [Callers -> BOOLEAN]

TypeOK == SwitchOK /\ CallsOK /\ HistoryOK

Nowhere == [c \in Callers |-> FALSE]

Init ==
    /\ stacks \in Switches
    /\ attached \in BOOLEAN /\ admin \in BOOLEAN /\ link = (admin /\ attached) /\ lag = 0
    /\ detect = IF ~admin THEN "disabled" ELSE IF attached THEN "delivering" ELSE "searching"
    /\ calls = 0 /\ events = 0
    /\ op = [c \in Callers |-> [kind |-> "on", stack |-> "snmp", force |-> FALSE]]
    /\ pc = [c \in Callers |-> "idle"]
    /\ before = [c \in Callers |-> "disabled"]
    /\ result = [c \in Callers |-> "none"]
    /\ dark = Nowhere /\ wasOff = Nowhere /\ disturbed = Nowhere /\ surprised = Nowhere

-----------------------------------------------------------------------------
(* The switch: what a request over a stack does to the port. *)

PortIs(a, d, g, l) == admin' = a /\ detect' = d /\ lag' = g /\ link' = l

\* ApplyPoeAdmin, which SNMP and CLI share; the web faces have one each.
AdminOff(stack) ==
    PortIs(FALSE, "disabled", lag, IF stack \in {"snmp", "cli"} THEN FALSE ELSE link)

\* Faulty AdminOn: the lag grows with every enable.
LagsMore(stack) == PortIs(TRUE, "delivering", lag + 1, link)

AdminOn(stack) ==
    \/ /\ stack \in {"snmp", "cli"}
       /\ PortIs(TRUE, "delivering", IF admin THEN lag ELSE 1, link)
    \/ stack = "goahead" /\ PortIs(TRUE, "searching", lag, link)
    \/ stack = "plus" /\ PortIs(TRUE, "delivering", lag, link)
    \/ /\ stack = "xui"
       /\ PortIs(TRUE, IF detect = "disabled" THEN "searching" ELSE detect, lag, link)

\* A reset is over before the request returns.  The CLI command enables the
\* port; the page buttons leave its admin state alone.
Reset(stack) ==
    LET found == IF attached THEN "delivering" ELSE "searching" IN
    \/ stack = "cli" /\ PortIs(TRUE, found, lag, link)
    \/ stack = "xui" /\ PortIs(admin, found, lag, link)
    \/ /\ stack = "plus"
       /\ PortIs(admin, IF admin THEN "delivering" ELSE "disabled", lag, link)

\* cliPoeStatusText: the table lags one read behind an enable, and has no column
\* for the admin state: whatever is not "Disabled" is on.
CliDetect == IF lag > 0 \/ ~admin THEN "disabled" ELSE detect
Status(stack) == IF stack = "cli" THEN CliDetect ELSE detect
ReadsAdmin(stack) == IF stack = "cli" THEN CliDetect # "disabled" ELSE admin

\* Reading the table uses the lag up.
Reads(stack) ==
    /\ lag' = IF stack = "cli" THEN 0 ELSE lag
    /\ UNCHANGED <<admin, detect, link, attached>>

\* What a step of c that reaches the switch means to the other calls.
Noted(c) ==
    /\ dark' = [d \in Callers |-> IF admin' THEN FALSE ELSE dark[d] \/ (d = c /\ pc[c] = "cut")]
    /\ wasOff' = [d \in Callers |-> wasOff[d] \/ ~admin' \/ (pc[c] = "reset" /\ admin)]
    /\ disturbed' = [d \in Callers |-> disturbed[d] \/ (d # c /\ pc[d] # "idle")]
    /\ UNCHANGED <<attached, surprised>>

\* The port's own events: a device is plugged in or out, a fault, and detection,
\* which takes its time.
Surprise ==
    /\ events < MaxEvents /\ events' = events + 1
    /\ \/ /\ attached' = ~attached
          /\ detect' = IF ~admin THEN detect ELSE "searching"
          /\ link' = FALSE
       \/ admin /\ detect' = "fault" /\ UNCHANGED <<attached, link>>
    /\ surprised' = [c \in Callers |-> surprised[c] \/ pc[c] # "idle"]
    /\ UNCHANGED <<stacks, admin, lag, calls, op, pc, before, result, dark, wasOff, disturbed>>

Settle ==
    /\ admin
    /\ \/ detect = "searching" /\ attached /\ detect' = "delivering" /\ UNCHANGED link
       \/ detect = "delivering" /\ ~attached /\ detect' = "searching" /\ link' = FALSE
       \/ detect = "delivering" /\ attached /\ link' = TRUE /\ UNCHANGED detect
    /\ UNCHANGED <<stacks, admin, lag, attached, calls, events, op, pc, before, result,
                   historyVars>>

-----------------------------------------------------------------------------
(* The writers. *)

Rearms(c) == op[c].kind \in {"cycle", "clear"}

Goto(c, l) == pc' = [pc EXCEPT ![c] = l] /\ UNCHANGED result
Return(c, r) == pc' = [pc EXCEPT ![c] = "idle"] /\ result' = [result EXCEPT ![c] = r]

\* guard: the page writers ask even when power is to be switched on.
Guarded(o) ==
    /\ IsProtected /\ ~o.force
    /\ o.kind = "on" => o.stack \in {"goahead", "xui", "plus"}

Begin(c, o) ==
    /\ pc[c] = "idle" /\ calls < MaxCalls /\ o.stack \in stacks
    /\ calls' = calls + 1
    /\ op' = [op EXCEPT ![c] = o]
    /\ dark' = [dark EXCEPT ![c] = FALSE]
    /\ wasOff' = [wasOff EXCEPT ![c] = ~admin]
    /\ disturbed' = [disturbed EXCEPT ![c] = FALSE]
    /\ surprised' = [surprised EXCEPT ![c] = FALSE]
    /\ IF Guarded(o) THEN Return(c, "protected")
       ELSE pc' = [pc EXCEPT ![c] = "before"] /\ result' = [result EXCEPT ![c] = "none"]
    /\ UNCHANGED <<stacks, switchVars, events, before>>

\* The port is read first (or the page the button is on).
Before(c) ==
    LET s == op[c].stack IN
    /\ pc[c] = "before"
    /\ before' = [before EXCEPT ![c] = Status(s)]
    /\ Reads(s)
    /\ Goto(c, IF ~Rearms(c) THEN "set" ELSE IF s \in {"snmp", "goahead"} THEN "cut" ELSE "reset")
    /\ UNCHANGED <<stacks, calls, events, op, historyVars>>

\* A write that the switch serves: its answer arrives, or is lost.
Done(c, l) ==
    /\ Noted(c)
    /\ (IF l = "idle" THEN Return(c, "ok") ELSE Goto(c, l)) \/ Return(c, "failed")
    /\ UNCHANGED <<stacks, calls, events, op, before>>

Set(c) ==
    /\ pc[c] = "set"
    /\ IF op[c].kind = "on" THEN AdminOn(op[c].stack) ELSE AdminOff(op[c].stack)
    /\ Done(c, "check")

Cut(c) ==
    /\ pc[c] = "cut"
    /\ AdminOff(op[c].stack)
    /\ Done(c, IF op[c].stack = "snmp" THEN "dark?" ELSE "cut?")

Restore(c) ==
    /\ pc[c] = "restore"
    /\ AdminOn(op[c].stack)
    /\ Done(c, IF op[c].stack = "snmp" THEN "back?" ELSE "restore?")

\* The page buttons are not read back.
Press(c) ==
    /\ pc[c] = "reset"
    /\ Reset(op[c].stack)
    /\ Done(c, IF op[c].stack = "cli" THEN "back?" ELSE "idle")

\* Faulty Overdue: a wait that runs out of time is not an error.
Lenient(c) == "ok"

\* What the deadline of a wait comes to.
Overdue(c) == "mismatch"

\* A read of the port: on success the call goes on to l, otherwise it reads
\* again, or its deadline has passed.  A wait that is cancelled is a Fail.
Await(c, done, l, patient) ==
    /\ Reads(op[c].stack)
    /\ \/ done /\ (IF l = "idle" THEN Return(c, "ok") ELSE Goto(c, l))
       \/ ~done /\ Return(c, Overdue(c))
       \/ ~done /\ patient /\ UNCHANGED <<pc, result>>
    /\ UNCHANGED <<stacks, calls, events, op, before, historyVars>>

\* A single read decides, except in the CLI writer, which waits.
Check(c) ==
    /\ pc[c] = "check"
    /\ Await(c, ReadsAdmin(op[c].stack) = (op[c].kind = "on"), "idle", op[c].stack = "cli")

\* goaheadPoEAdmin verifies each half of a cycle by a single read.
CheckHalf(c) ==
    /\ pc[c] \in {"cut?", "restore?"}
    /\ Await(c, admin = (pc[c] = "restore?"),
             IF pc[c] = "cut?" THEN "restore" ELSE "back?", FALSE)

\* The status half of poeIsOff.
IsOff == detect \in {"disabled", "searching"}

\* poeRearm reads the status, then the link, in one turn of its loop.
AwaitDark(c) ==
    /\ pc[c] = "dark?"
    /\ Goto(c, IF IsOff THEN "link?" ELSE "dark?") \/ (~IsOff /\ Return(c, Overdue(c)))
    /\ UNCHANGED <<stacks, switchVars, calls, events, op, before, historyVars>>

AwaitLink(c) ==
    /\ pc[c] = "link?"
    /\ IF ~link THEN Goto(c, "restore") ELSE Goto(c, "dark?") \/ Return(c, Overdue(c))
    /\ UNCHANGED <<stacks, switchVars, calls, events, op, before, historyVars>>

\* Faulty Recovered: the state before the cycle does not matter.
AnyRecovery(c, now) == now \in {"delivering", "searching"}

\* PoeCycleComplete, poeRecovered and the predicates of the CLI writer.
Recovered(c, now) ==
    \/ now = "delivering"
    \/ /\ now = "searching"
       /\ \/ op[c].stack = "goahead" /\ before[c] # "delivering"
          \/ op[c].stack = "snmp" /\ (op[c].kind = "clear" \/ before[c] # "delivering")
          \/ op[c].stack = "cli" /\ op[c].kind = "clear"

AwaitBack(c) ==
    /\ pc[c] = "back?"
    /\ Await(c, Recovered(c, Status(op[c].stack)), "idle", TRUE)

\* Any request may fail before the switch serves it, and any wait be cancelled.
Fail(c) ==
    /\ pc[c] # "idle" /\ Return(c, "failed")
    /\ UNCHANGED <<stacks, switchVars, calls, events, op, before, historyVars>>

Step(c) ==
    \/ Before(c) \/ Set(c) \/ Check(c) \/ Cut(c) \/ CheckHalf(c) \/ AwaitDark(c)
    \/ AwaitLink(c) \/ Restore(c) \/ Press(c) \/ AwaitBack(c) \/ Fail(c)

Next ==
    \/ \E c \in Callers : Step(c) \/ \E o \in Ops : Begin(c, o)
    \/ Surprise \/ Settle

Spec == Init /\ [][Next]_vars

-----------------------------------------------------------------------------

Answers(c, r) == pc[c] # "idle" /\ pc'[c] = "idle" /\ result'[c] = r

\* A port that a re-arm switched off, and that nobody has switched on since, is
\* one whose call is still at work or has reported an error: the only trace that
\* poeRearm leaves when it stops between its two SETs.
LeftDarkIsReported ==
    \A c \in Callers : dark[c] /\ pc[c] = "idle" => result[c] \in {"failed", "mismatch"}

\* The verdict of a re-arm (poeRearm, goaheadPoERearm, poeReset).  One that waits
\* reports success of a cycle of a port that was delivering only when it delivers
\* again and, if nobody interferes, of any port only when it has been off during the
\* call and is enabled now.  Nothing but the state of the port fails one nobody
\* interferes with: when no fault or plug event happens during it, the port was
\* delivering before and is slow to come back, or the CLI writer cycles a port with
\* no device, which its predicate never accepts (PoeCycleComplete, CyclePoE).
CycleVerdictIsTrue ==
    [][\A c \in Callers : Rearms(c) =>
        /\ Answers(c, "ok") /\ op[c].stack \in {"snmp", "goahead", "cli"}
            => /\ ~disturbed[c] => wasOff[c] /\ admin
               /\ op[c].kind = "cycle" /\ before[c] = "delivering" => detect = "delivering"
        /\ Answers(c, "mismatch") /\ ~disturbed[c] /\ ~surprised[c]
            => \/ before[c] = "delivering"
               \/ op[c].stack = "cli" /\ op[c].kind = "cycle" /\ ~attached]_vars

=============================================================================
