---------------------------- MODULE PoeCycle_proofs ----------------------------
(***************************************************************************)
(* What PoeCycle does for every number of callers, any set of switches and  *)
(* any number of faults: type correctness, and its two properties.          *)
(*                                                                          *)
(* A property of a call is kept by its own steps, looked at action by       *)
(* action, and by those of any other call, which can do to it only what     *)
(* OthersStep says.                                                         *)
(***************************************************************************)
EXTENDS PoeCycle, TLAPS

\* Which writer runs which step: the page buttons and the CLI command are one
\* step, poeRearm is SNMP's, and only a re-arm leaves the port read behind.
Routed(c) ==
    /\ pc[c] \in {"set", "check"} => ~Rearms(c)
    /\ pc[c] \in {"cut", "restore"} => op[c].stack \in {"snmp", "goahead"}
    /\ pc[c] \in {"dark?", "link?"} => op[c].stack = "snmp"
    /\ pc[c] \in {"cut?", "restore?"} => op[c].stack = "goahead"
    /\ pc[c] = "reset" => op[c].stack \in {"cli", "xui", "plus"}
    /\ pc[c] = "back?" => op[c].stack \in {"snmp", "goahead", "cli"}
RoutedInv == \A c \in Callers : Routed(c)

\* Between its two halves a cycle waits, and holds the port dark unless
\* somebody else switches it on.
Between == {"cut?", "dark?", "link?", "restore"}

\* A call that has left the port dark is still between its halves, or has
\* reported an error.
Dark(c) ==
    dark[c] => /\ ~admin
               /\ \/ pc[c] \in Between
                  \/ pc[c] = "idle" /\ result[c] \in {"failed", "mismatch"}
DarkInv == \A c \in Callers : Dark(c)

\* No power-off escapes the history of a call in progress; and a call that is
\* alone finds the port as its own last request left it.
Alone(c) ==
    /\ pc[c] # "idle" /\ ~admin => wasOff[c]
    /\ ~disturbed[c] /\ pc[c] \in Between => ~admin
    /\ ~disturbed[c] /\ pc[c] \in {"restore?", "back?"} => admin /\ wasOff[c]
AloneInv == \A c \in Callers : Alone(c)

\* What the port shows a call that nothing and nobody interferes with.
Quiet(c) ==
    ~disturbed[c] /\ ~surprised[c] =>
        /\ pc[c] \in {"dark?", "link?"} => detect = "disabled" /\ ~link
        /\ pc[c] \in {"restore?", "back?"} => detect \in {"searching", "delivering"}
        /\ pc[c] \in {"reset", "back?"} /\ op[c].stack = "cli" => lag = 0
        /\ pc[c] = "back?" /\ op[c].stack = "cli" /\ attached => detect = "delivering"
QuietInv == \A c \in Callers : Quiet(c)

\* The inductive invariant: neither property is kept by a step without knowing
\* which step the call is at and what it may take the port to be.
IInv == TypeOK /\ RoutedInv /\ DarkInv /\ AloneInv /\ QuietInv

-----------------------------------------------------------------------------
(* What a request does to the port. *)

\* ApplyPoeAdmin and its web twins: power is off, whatever the stack.
LEMMA OffEffect ==
    ASSUME SwitchOK, NEW s, AdminOff(s)
    PROVE  /\ ~admin' /\ admin' \in BOOLEAN /\ detect' = "disabled"
           /\ lag' \in 0..1 /\ link' \in BOOLEAN
           /\ s = "snmp" => ~link'
  BY DEF SwitchOK, AdminOff, PortIs

\* Power is on, and the port delivers or looks for a device.
LEMMA OnEffect ==
    ASSUME SwitchOK, NEW s \in Stacks, AdminOn(s)
    PROVE  /\ admin' /\ admin' \in BOOLEAN /\ lag' \in 0..1 /\ link' = link
           /\ detect' \in Detects
           /\ s \in {"snmp", "goahead"} => detect' \in {"searching", "delivering"}
<1> USE DEF SwitchOK, AdminOn, PortIs, Stacks
<1>1. admin' /\ admin' \in BOOLEAN
  OBVIOUS
<1>2. lag' \in 0..1 /\ link' = link
  OBVIOUS
<1>3. detect' \in Detects
  BY DEF Detects
<1>4. s \in {"snmp", "goahead"} => detect' \in {"searching", "delivering"}
  OBVIOUS
<1> QED
  BY <1>1, <1>2, <1>3, <1>4

\* A reset leaves the port in a state detection can be in, and the CLI command
\* leaves it powered.
LEMMA ResetEffect ==
    ASSUME SwitchOK, NEW s \in {"cli", "xui", "plus"}, Reset(s)
    PROVE  /\ admin' \in BOOLEAN /\ detect' \in Detects /\ lag' = lag /\ link' = link
           /\ s = "cli" => /\ admin' /\ detect' \in {"searching", "delivering"}
                           /\ attached => detect' = "delivering"
<1> USE DEF SwitchOK, Reset, PortIs
<1>1. admin' \in BOOLEAN /\ lag' = lag /\ link' = link
  OBVIOUS
<1>2. detect' \in Detects
  BY DEF Detects
<1>3. s = "cli" => admin' /\ detect' \in {"searching", "delivering"}
  OBVIOUS
<1>4. s = "cli" /\ attached => detect' = "delivering"
  OBVIOUS
<1> QED
  BY <1>1, <1>2, <1>3, <1>4

\* A read changes nothing but the lag it uses up.
LEMMA ReadsEffect ==
    ASSUME SwitchOK, NEW s, Reads(s)
    PROVE  /\ UNCHANGED <<admin, detect, link, attached>>
           /\ lag' \in {lag, 0} /\ lag' \in 0..1
           /\ s = "cli" => lag' = 0
  BY DEF SwitchOK, Reads

-----------------------------------------------------------------------------
(* Type correctness. *)

\* A step of a call leaves a port that exists.
LEMMA StepKeepsSwitch ==
    ASSUME TypeOK, NEW c \in Callers, Routed(c), Step(c)
    PROVE  SwitchOK'
<1>0. op[c].stack \in Stacks
  BY DEF TypeOK, CallsOK, Ops
<1> USE <1>0 DEF TypeOK, SwitchOK
<1>1. CASE Before(c)
  BY <1>1, ReadsEffect DEF Before
<1>2. CASE Set(c)
  <2>1. /\ UNCHANGED <<stacks, attached, calls, events>>
        /\ AdminOn(op[c].stack) \/ AdminOff(op[c].stack)
    BY <1>2 DEF Set, Done, Noted
  <2>2. admin' \in BOOLEAN /\ detect' \in Detects /\ lag' \in 0..1 /\ link' \in BOOLEAN
    BY <2>1, OnEffect, OffEffect DEF Detects
  <2> QED
    BY <2>1, <2>2
<1>3. CASE Check(c)
  BY <1>3, ReadsEffect DEF Check, Await
<1>4. CASE Cut(c)
  <2>1. UNCHANGED <<stacks, attached, calls, events>> /\ AdminOff(op[c].stack)
    BY <1>4 DEF Cut, Done, Noted
  <2>2. admin' \in BOOLEAN /\ detect' \in Detects /\ lag' \in 0..1 /\ link' \in BOOLEAN
    BY <2>1, OffEffect DEF Detects
  <2> QED
    BY <2>1, <2>2
<1>5. CASE CheckHalf(c)
  BY <1>5, ReadsEffect DEF CheckHalf, Await
<1>6. CASE AwaitDark(c)
  BY <1>6 DEF AwaitDark, switchVars
<1>7. CASE AwaitLink(c)
  BY <1>7 DEF AwaitLink, switchVars
<1>8. CASE Restore(c)
  BY <1>8, OnEffect DEF Restore, Done, Noted
<1>9. CASE Press(c)
  BY <1>9, ResetEffect DEF Press, Done, Noted, Routed
<1>10. CASE AwaitBack(c)
  BY <1>10, ReadsEffect DEF AwaitBack, Await
<1>11. CASE Fail(c)
  BY <1>11 DEF Fail, switchVars
<1> QED
  BY <1>1, <1>2, <1>3, <1>4, <1>5, <1>6, <1>7, <1>8, <1>9, <1>10, <1>11 DEF Step

\* The labels, the verdicts and the status a call keeps.
LEMMA StepKeepsCalls ==
    ASSUME TypeOK, NEW c \in Callers, Step(c)
    PROVE  CallsOK'
<1> USE DEF TypeOK, CallsOK
<1>1. CASE Before(c)
  BY <1>1 DEF Before, Goto, Status, CliDetect, SwitchOK, Detects
<1>2. CASE Set(c)
  BY <1>2 DEF Set, Done, Goto, Return
<1>3. CASE Check(c)
  BY <1>3 DEF Check, Await, Overdue, Goto, Return
<1>4. CASE Cut(c)
  BY <1>4 DEF Cut, Done, Goto, Return
<1>5. CASE CheckHalf(c)
  BY <1>5 DEF CheckHalf, Await, Overdue, Goto, Return
<1>6. CASE AwaitDark(c)
  BY <1>6 DEF AwaitDark, Overdue, Goto, Return
<1>7. CASE AwaitLink(c)
  BY <1>7 DEF AwaitLink, Overdue, Goto, Return
<1>8. CASE Restore(c)
  BY <1>8 DEF Restore, Done, Goto, Return
<1>9. CASE Press(c)
  BY <1>9 DEF Press, Done, Goto, Return
<1>10. CASE AwaitBack(c)
  BY <1>10 DEF AwaitBack, Await, Overdue, Goto, Return
<1>11. CASE Fail(c)
  BY <1>11 DEF Fail, Return
<1> QED
  BY <1>1, <1>2, <1>3, <1>4, <1>5, <1>6, <1>7, <1>8, <1>9, <1>10, <1>11 DEF Step

\* The history of every call.
LEMMA StepKeepsHistory ==
    ASSUME TypeOK, NEW c \in Callers, Step(c)
    PROVE  HistoryOK'
<1> USE DEF TypeOK, HistoryOK
<1>1. CASE Before(c)
  BY <1>1 DEF Before, historyVars
<1>2. CASE Set(c)
  BY <1>2 DEF Set, Done, Noted
<1>3. CASE Check(c)
  BY <1>3 DEF Check, Await, historyVars
<1>4. CASE Cut(c)
  BY <1>4 DEF Cut, Done, Noted
<1>5. CASE CheckHalf(c)
  BY <1>5 DEF CheckHalf, Await, historyVars
<1>6. CASE AwaitDark(c)
  BY <1>6 DEF AwaitDark, historyVars
<1>7. CASE AwaitLink(c)
  BY <1>7 DEF AwaitLink, historyVars
<1>8. CASE Restore(c)
  BY <1>8 DEF Restore, Done, Noted
<1>9. CASE Press(c)
  BY <1>9 DEF Press, Done, Noted
<1>10. CASE AwaitBack(c)
  BY <1>10 DEF AwaitBack, Await, historyVars
<1>11. CASE Fail(c)
  BY <1>11 DEF Fail, historyVars
<1> QED
  BY <1>1, <1>2, <1>3, <1>4, <1>5, <1>6, <1>7, <1>8, <1>9, <1>10, <1>11 DEF Step

-----------------------------------------------------------------------------
(* What a step of one call does to the others. *)

\* The history is kept for every call at once (Noted).
LEMMA NotedEffect ==
    ASSUME TypeOK, NEW c \in Callers, NEW d \in Callers, Noted(c)
    PROVE  /\ dark'[d] => ~admin' /\ (dark[d] \/ (d = c /\ pc[c] = "cut"))
           /\ wasOff[d] \/ ~admin' \/ (pc[c] = "reset" /\ admin) => wasOff'[d]
           /\ disturbed[d] \/ (d # c /\ pc[d] # "idle") => disturbed'[d]
           /\ disturbed'[c] = disturbed[c]
           /\ UNCHANGED <<attached, surprised>>
<1> USE DEF Noted, TypeOK, HistoryOK
<1>1. dark'[d] => ~admin' /\ (dark[d] \/ (d = c /\ pc[c] = "cut"))
  OBVIOUS
<1>2. wasOff[d] \/ ~admin' \/ (pc[c] = "reset" /\ admin) => wasOff'[d]
  OBVIOUS
<1>3. disturbed[d] \/ (d # c /\ pc[d] # "idle") => disturbed'[d]
  OBVIOUS
<1>4. disturbed'[c] = disturbed[c]
  OBVIOUS
<1> QED
  BY <1>1, <1>2, <1>3, <1>4 DEF Noted

\* A call is moved by its own steps only, and stays the same call.
LEMMA CallsAreTheirOwn ==
    ASSUME TypeOK, NEW c \in Callers, NEW d \in Callers, Step(c)
    PROVE  op' = op /\ (d # c => pc'[d] = pc[d] /\ result'[d] = result[d] /\ before'[d] = before[d])
<1> USE DEF TypeOK, CallsOK
<1>1. CASE Before(c)
  BY <1>1 DEF Before, Goto
<1>2. CASE Set(c)
  BY <1>2 DEF Set, Done, Goto, Return
<1>3. CASE Check(c)
  BY <1>3 DEF Check, Await, Overdue, Goto, Return
<1>4. CASE Cut(c)
  BY <1>4 DEF Cut, Done, Goto, Return
<1>5. CASE CheckHalf(c)
  BY <1>5 DEF CheckHalf, Await, Overdue, Goto, Return
<1>6. CASE AwaitDark(c)
  BY <1>6 DEF AwaitDark, Overdue, Goto, Return
<1>7. CASE AwaitLink(c)
  BY <1>7 DEF AwaitLink, Overdue, Goto, Return
<1>8. CASE Restore(c)
  BY <1>8 DEF Restore, Done, Goto, Return
<1>9. CASE Press(c)
  BY <1>9 DEF Press, Done, Goto, Return
<1>10. CASE AwaitBack(c)
  BY <1>10 DEF AwaitBack, Await, Overdue, Goto, Return
<1>11. CASE Fail(c)
  BY <1>11 DEF Fail, Return
<1> QED
  BY <1>1, <1>2, <1>3, <1>4, <1>5, <1>6, <1>7, <1>8, <1>9, <1>10, <1>11 DEF Step

\* A step that is not noted changes at most the lag.
LEMMA ReadsOrIsNoted ==
    ASSUME TypeOK, NEW c \in Callers, Step(c)
    PROVE  \/ Noted(c)
           \/ UNCHANGED <<admin, detect, link, attached, historyVars>> /\ lag' \in {lag, 0}
<1>1. CASE Before(c)
  BY <1>1 DEF Before, Reads
<1>2. CASE Set(c)
  BY <1>2 DEF Set, Done
<1>3. CASE Check(c)
  BY <1>3 DEF Check, Await, Reads
<1>4. CASE Cut(c)
  BY <1>4 DEF Cut, Done
<1>5. CASE CheckHalf(c)
  BY <1>5 DEF CheckHalf, Await, Reads
<1>6. CASE AwaitDark(c)
  BY <1>6 DEF AwaitDark, switchVars
<1>7. CASE AwaitLink(c)
  BY <1>7 DEF AwaitLink, switchVars
<1>8. CASE Restore(c)
  BY <1>8 DEF Restore, Done
<1>9. CASE Press(c)
  BY <1>9 DEF Press, Done
<1>10. CASE AwaitBack(c)
  BY <1>10 DEF AwaitBack, Await, Reads
<1>11. CASE Fail(c)
  BY <1>11 DEF Fail, switchVars
<1> QED
  BY <1>1, <1>2, <1>3, <1>4, <1>5, <1>6, <1>7, <1>8, <1>9, <1>10, <1>11 DEF Step

-----------------------------------------------------------------------------
(* Another call keeps what is known of this one. *)

\* A step of c keeps the four invariants of any other call d.
LEMMA OthersKept ==
    ASSUME TypeOK, NEW c \in Callers, NEW d \in Callers, d # c, Step(c),
           Routed(d), Dark(d), Alone(d), Quiet(d)
    PROVE  Routed(d)' /\ Dark(d)' /\ Alone(d)' /\ Quiet(d)'
<1>1. op' = op /\ pc'[d] = pc[d] /\ result'[d] = result[d]
  BY CallsAreTheirOwn
<1>2. Routed(d)'
  BY <1>1 DEF Routed, Rearms
<1>3. CASE Noted(c)
  <2>1. /\ dark'[d] => ~admin' /\ dark[d]
        /\ wasOff[d] \/ ~admin' => wasOff'[d]
        /\ disturbed[d] \/ pc[d] # "idle" => disturbed'[d]
    BY <1>3, NotedEffect
  <2>2. Dark(d)'
    BY <1>1, <2>1 DEF Dark, Between
  <2>3. Alone(d)'
    BY <1>1, <2>1 DEF Alone, Between
  <2>4. Quiet(d)'
    BY <1>1, <2>1 DEF Quiet
  <2> QED
    BY <1>2, <2>2, <2>3, <2>4
<1>4. CASE UNCHANGED <<admin, detect, link, attached, historyVars>> /\ lag' \in {lag, 0}
  <2>1. Dark(d)'
    BY <1>1, <1>4 DEF Dark, Between, historyVars
  <2>2. Alone(d)'
    BY <1>1, <1>4 DEF Alone, Between, historyVars
  <2>3. Quiet(d)'
    BY <1>1, <1>4 DEF Quiet, historyVars
  <2> QED
    BY <1>2, <2>1, <2>2, <2>3
<1> QED
  BY <1>3, <1>4, ReadsOrIsNoted

-----------------------------------------------------------------------------
(* A call's own steps. *)

\* Each label hands on to one the same writer runs.
LEMMA OwnRoute ==
    ASSUME TypeOK, NEW c \in Callers, Routed(c), Step(c)
    PROVE  Routed(c)'
<1>0. op[c].stack \in Stacks
  BY DEF TypeOK, CallsOK, Ops
<1> USE <1>0 DEF TypeOK, CallsOK, Stacks, Routed
<1>1. CASE Before(c)
  BY <1>1 DEF Before, Goto, Rearms
<1>2. CASE Set(c)
  BY <1>2 DEF Set, Done, Goto, Return, Rearms
<1>3. CASE Check(c)
  BY <1>3 DEF Check, Await, Goto, Return, Rearms
<1>4. CASE Cut(c)
  BY <1>4 DEF Cut, Done, Goto, Return
<1>5. CASE CheckHalf(c)
  BY <1>5 DEF CheckHalf, Await, Goto, Return
<1>6. CASE AwaitDark(c)
  BY <1>6 DEF AwaitDark, Goto, Return
<1>7. CASE AwaitLink(c)
  BY <1>7 DEF AwaitLink, Goto, Return
<1>8. CASE Restore(c)
  BY <1>8 DEF Restore, Done, Goto, Return
<1>9. CASE Press(c)
  BY <1>9 DEF Press, Done, Goto, Return
<1>10. CASE AwaitBack(c)
  BY <1>10 DEF AwaitBack, Await, Goto, Return
<1>11. CASE Fail(c)
  BY <1>11 DEF Fail, Return
<1> QED
  BY <1>1, <1>2, <1>3, <1>4, <1>5, <1>6, <1>7, <1>8, <1>9, <1>10, <1>11 DEF Step

\* Power is cut at one label; every way out of the wait after it restores it, or
\* reports an error.
LEMMA OwnDark ==
    ASSUME TypeOK, NEW c \in Callers, Routed(c), Dark(c), Step(c)
    PROVE  Dark(c)'
<1>0. op[c].stack \in Stacks
  BY DEF TypeOK, CallsOK, Ops
<1> USE <1>0 DEF TypeOK, CallsOK, Dark, Between
<1>1. CASE Before(c)
  BY <1>1 DEF Before, Goto, Reads, historyVars
<1>2. CASE Set(c)
  BY <1>2, NotedEffect DEF Set, Done, Goto, Return
<1>3. CASE Check(c)
  BY <1>3 DEF Check, Await, Goto, Return, Reads, historyVars, Overdue
<1>4. CASE Cut(c)
  BY <1>4, NotedEffect DEF Cut, Done, Goto, Return
<1>5. CASE CheckHalf(c)
  BY <1>5 DEF CheckHalf, Await, Goto, Return, Reads, historyVars, Overdue
<1>6. CASE AwaitDark(c)
  BY <1>6 DEF AwaitDark, Goto, Return, Overdue, switchVars, historyVars
<1>7. CASE AwaitLink(c)
  BY <1>7 DEF AwaitLink, Goto, Return, Overdue, switchVars, historyVars
<1>8. CASE Restore(c)
  BY <1>8, NotedEffect, OnEffect DEF Restore, Done, Goto, Return
<1>9. CASE Press(c)
  BY <1>9, NotedEffect DEF Press, Done, Goto, Return
<1>10. CASE AwaitBack(c)
  BY <1>10 DEF AwaitBack, Await, Goto, Return, Reads, historyVars, Overdue
<1>11. CASE Fail(c)
  BY <1>11 DEF Fail, Return, Overdue, switchVars, historyVars
<1> QED
  BY <1>1, <1>2, <1>3, <1>4, <1>5, <1>6, <1>7, <1>8, <1>9, <1>10, <1>11 DEF Step

\* What a request of its own leaves is what a call alone on the switch finds.
LEMMA OwnAlone ==
    ASSUME TypeOK, NEW c \in Callers, Routed(c), Alone(c), Step(c)
    PROVE  Alone(c)'
<1>0. op[c].stack \in Stacks
  BY DEF TypeOK, CallsOK, Ops
<1> USE <1>0 DEF TypeOK, CallsOK, Alone, Between
<1>1. CASE Before(c)
  BY <1>1 DEF Before, Goto, Reads, historyVars
<1>2. CASE Set(c)
  BY <1>2, NotedEffect DEF Set, Done, Goto, Return
<1>3. CASE Check(c)
  BY <1>3 DEF Check, Await, Goto, Return, Reads, historyVars, Overdue
<1>4. CASE Cut(c)
  BY <1>4, NotedEffect, OffEffect DEF Cut, Done, Goto, Return
<1>5. CASE CheckHalf(c)
  BY <1>5 DEF CheckHalf, Await, Goto, Return, Reads, historyVars, Overdue
<1>6. CASE AwaitDark(c)
  BY <1>6 DEF AwaitDark, Goto, Return, Overdue, switchVars, historyVars
<1>7. CASE AwaitLink(c)
  BY <1>7 DEF AwaitLink, Goto, Return, Overdue, switchVars, historyVars
<1>8. CASE Restore(c)
  BY <1>8, NotedEffect, OnEffect DEF Restore, Done, Goto, Return
<1>9. CASE Press(c)
  BY <1>9, NotedEffect, ResetEffect DEF Press, Done, Goto, Return, Routed
<1>10. CASE AwaitBack(c)
  BY <1>10 DEF AwaitBack, Await, Goto, Return, Reads, historyVars, Overdue
<1>11. CASE Fail(c)
  BY <1>11 DEF Fail, Return, Overdue, switchVars, historyVars
<1> QED
  BY <1>1, <1>2, <1>3, <1>4, <1>5, <1>6, <1>7, <1>8, <1>9, <1>10, <1>11 DEF Step

\* Likewise for the status, the link and the lag of the CLI table.
LEMMA OwnQuiet ==
    ASSUME TypeOK, NEW c \in Callers, Routed(c), Alone(c), Quiet(c), Step(c)
    PROVE  Quiet(c)'
<1>0. op[c].stack \in Stacks
  BY DEF TypeOK, CallsOK, Ops
<1> USE <1>0 DEF TypeOK, CallsOK, Quiet
<1>1. CASE Before(c)
  BY <1>1 DEF Before, Goto, Reads, historyVars, Routed
<1>2. CASE Set(c)
  BY <1>2, NotedEffect DEF Set, Done, Goto, Return, Routed
<1>3. CASE Check(c)
  BY <1>3 DEF Check, Await, Goto, Return, Reads, historyVars, Overdue, Routed
<1>4. CASE Cut(c)
  BY <1>4, NotedEffect, OffEffect DEF Cut, Done, Goto, Return, Routed
<1>5. CASE CheckHalf(c)
  BY <1>5 DEF CheckHalf, Await, Goto, Return, Reads, historyVars, Overdue, Routed
<1>6. CASE AwaitDark(c)
  BY <1>6 DEF AwaitDark, Goto, Return, Overdue, switchVars, historyVars, Routed
<1>7. CASE AwaitLink(c)
  BY <1>7 DEF AwaitLink, Goto, Return, Overdue, switchVars, historyVars, Routed
<1>8. CASE Restore(c)
  BY <1>8, NotedEffect, OnEffect DEF Restore, Done, Goto, Return, Routed
<1>9. CASE Press(c)
  BY <1>9, NotedEffect, ResetEffect DEF Press, Done, Goto, Return, Routed
<1>10. CASE AwaitBack(c)
  BY <1>10 DEF AwaitBack, Await, Goto, Return, Reads, historyVars, Overdue, Routed
<1>11. CASE Fail(c)
  BY <1>11 DEF Fail, Return, Overdue, switchVars, historyVars, Routed
<1> QED
  BY <1>1, <1>2, <1>3, <1>4, <1>5, <1>6, <1>7, <1>8, <1>9, <1>10, <1>11 DEF Step

-----------------------------------------------------------------------------
(* The invariant. *)

\* Everything a call is known by, in one.
Known(d) == Routed(d) /\ Dark(d) /\ Alone(d) /\ Quiet(d)

\* A call begins with an empty history, and takes note of a port that is off.
LEMMA BeginKeeps ==
    ASSUME TypeOK, NEW c \in Callers, NEW o \in Ops, Begin(c, o),
           NEW d \in Callers, Known(d)
    PROVE  Known(d)'
<1> USE DEF TypeOK, CallsOK, HistoryOK, Begin, Return, switchVars
<1>1. CASE d = c
  <2> USE <1>1
  <2>1. Routed(d)'
    BY DEF Routed
  <2>2. Dark(d)'
    BY DEF Dark
  <2>3. Alone(d)'
    BY DEF Alone, Between
  <2>4. Quiet(d)'
    BY DEF Quiet
  <2> QED
    BY <2>1, <2>2, <2>3, <2>4 DEF Known
<1>2. CASE d # c
  <2>1. /\ op'[d] = op[d] /\ pc'[d] = pc[d] /\ result'[d] = result[d]
        /\ dark'[d] = dark[d] /\ wasOff'[d] = wasOff[d]
        /\ disturbed'[d] = disturbed[d] /\ surprised'[d] = surprised[d]
        /\ UNCHANGED <<admin, detect, lag, link, attached>>
    BY <1>2
  <2> QED
    BY <2>1 DEF Known, Routed, Rearms, Dark, Alone, Between, Quiet
<1> QED
  BY <1>1, <1>2

\* A call in progress notes a fault and a plug; detection finds a device that is
\* attached, and leaves a port that is off alone.
LEMMA PortKeeps ==
    ASSUME TypeOK, Surprise \/ Settle, NEW d \in Callers, Known(d)
    PROVE  Known(d)'
<1>1. UNCHANGED <<admin, lag, op, pc, result, dark, wasOff, disturbed>>
  BY DEF Surprise, Settle, historyVars
<1>2. Routed(d)' /\ Dark(d)' /\ Alone(d)'
  BY <1>1 DEF Known, Routed, Rearms, Dark, Alone, Between
<1>3. CASE Surprise
  <2>1. pc[d] # "idle" => surprised'[d]
    BY <1>3 DEF Surprise
  <2> QED
    BY <1>1, <1>2, <2>1 DEF Known, Quiet
<1>4. CASE Settle
  <2>1. Quiet(d)'
    BY <1>4 DEF Known, Alone, Between, Quiet, Settle, historyVars
  <2> QED
    BY <1>2, <2>1 DEF Known
<1> QED
  BY <1>3, <1>4

\* Every step keeps the types.
LEMMA TypesKept ==
    ASSUME TypeOK, RoutedInv, [Next]_vars
    PROVE  TypeOK'
<1>1. ASSUME NEW c \in Callers, Step(c) PROVE TypeOK'
  BY <1>1, StepKeepsSwitch, StepKeepsCalls, StepKeepsHistory DEF RoutedInv, TypeOK
<1>2. ASSUME NEW c \in Callers, NEW o \in Ops, Begin(c, o) PROVE TypeOK'
  <2> USE <1>2, PoeAssumption DEF PoeAssumption, TypeOK, Begin
  <2>1. SwitchOK'
    BY DEF SwitchOK, switchVars
  <2>2. CallsOK'
    BY DEF CallsOK, Return
  <2>3. HistoryOK'
    BY DEF HistoryOK
  <2> QED
    BY <2>1, <2>2, <2>3
<1>3. CASE Surprise
  <2> USE <1>3, PoeAssumption DEF PoeAssumption, TypeOK, Surprise
  <2>1. SwitchOK'
    <3> USE DEF SwitchOK
    <3>1. detect' \in Detects
      BY DEF Detects
    <3>2. attached' \in BOOLEAN /\ link' \in BOOLEAN
      OBVIOUS
    <3>3. events' \in 0..MaxEvents
      OBVIOUS
    <3> QED
      BY <3>1, <3>2, <3>3
  <2>2. CallsOK' /\ HistoryOK'
    BY DEF CallsOK, HistoryOK
  <2> QED
    BY <2>1, <2>2
<1>4. CASE Settle
  <2> USE <1>4 DEF TypeOK, Settle
  <2>1. SwitchOK'
    BY DEF SwitchOK, Detects
  <2>2. CallsOK' /\ HistoryOK'
    BY DEF CallsOK, HistoryOK, historyVars
  <2> QED
    BY <2>1, <2>2
<1>5. CASE UNCHANGED vars
  BY <1>5 DEF vars, switchVars, historyVars, TypeOK, SwitchOK, CallsOK, HistoryOK
<1> QED
  BY <1>1, <1>2, <1>3, <1>4, <1>5 DEF Next

LEMMA InitHolds == Init => IInv
<1> SUFFICES ASSUME Init PROVE IInv
  OBVIOUS
<1> USE PoeAssumption DEF PoeAssumption, Init, Nowhere
<1>1. SwitchOK
  BY DEF SwitchOK, Detects
<1>2. CallsOK
  BY DEF CallsOK, Ops, Kinds, Stacks, Detects
<1>3. HistoryOK
  BY DEF HistoryOK
<1>4. RoutedInv
  BY DEF RoutedInv, Routed
<1>5. DarkInv
  BY DEF DarkInv, Dark
<1>6. AloneInv
  BY DEF AloneInv, Alone, Between
<1>7. QuietInv
  BY DEF QuietInv, Quiet
<1> QED
  BY <1>1, <1>2, <1>3, <1>4, <1>5, <1>6, <1>7 DEF IInv, TypeOK

LEMMA StepKeepsInvariant == IInv /\ [Next]_vars => IInv'
<1> SUFFICES ASSUME IInv, [Next]_vars PROVE IInv'
  OBVIOUS
<1>1. TypeOK'
  BY TypesKept DEF IInv
<1>2. ASSUME NEW d \in Callers PROVE Known(d)'
  <2>1. Known(d)
    BY DEF IInv, RoutedInv, DarkInv, AloneInv, QuietInv, Known
  <2>2. ASSUME NEW c \in Callers, Step(c) PROVE Known(d)'
    <3>1. CASE d = c
      BY <2>1, <2>2, <3>1, OwnRoute, OwnDark, OwnAlone, OwnQuiet DEF IInv, Known
    <3>2. CASE d # c
      BY <2>1, <2>2, <3>2, OthersKept DEF IInv, Known
    <3> QED
      BY <3>1, <3>2
  <2>3. ASSUME NEW c \in Callers, NEW o \in Ops, Begin(c, o) PROVE Known(d)'
    BY <2>1, <2>3, BeginKeeps DEF IInv
  <2>4. CASE Surprise \/ Settle
    BY <2>1, <2>4, PortKeeps DEF IInv
  <2>5. CASE UNCHANGED vars
    BY <2>1, <2>5 DEF vars, switchVars, historyVars, Known, Routed, Rearms, Dark, Alone,
       Between, Quiet
  <2> QED
    BY <2>2, <2>3, <2>4, <2>5 DEF Next
<1> QED
  BY <1>1, <1>2 DEF IInv, Known, RoutedInv, DarkInv, AloneInv, QuietInv

THEOREM InvariantHolds == Spec => []IInv
  BY InitHolds, StepKeepsInvariant, PTL DEF Spec

-----------------------------------------------------------------------------
(* The theorems. *)

\* The type invariant of the port and of the calls that work on it, SetPoE,
\* CyclePoE and ClearPoEFault.
THEOREM TypeCorrect == Spec => []TypeOK
<1>1. IInv => TypeOK
  BY DEF IInv
<1> QED
  BY <1>1, InvariantHolds, PTL

\* A port that a cycle switched off (poeRearm, goaheadPoERearm) and nobody has
\* switched on since belongs to a call still at work or one that failed.
THEOREM DarkPortIsReported == Spec => []LeftDarkIsReported
<1>1. IInv => LeftDarkIsReported
  BY DEF IInv, DarkInv, Dark, Between, LeftDarkIsReported
<1> QED
  BY <1>1, InvariantHolds, PTL

-----------------------------------------------------------------------------
(* The verdict of a re-arm. *)

\* A re-arm that waits reports success at the end of its wait, and nowhere else.
LEMMA OkIsFromTheWait ==
    ASSUME TypeOK, NEW c \in Callers, Routed(c), Rearms(c), Step(c),
           Answers(c, "ok"), op[c].stack \in {"snmp", "goahead", "cli"}
    PROVE  AwaitBack(c)
<1> USE DEF TypeOK, CallsOK, Answers
<1>1. CASE Before(c)
  BY <1>1 DEF Before, Goto
<1>2. CASE Set(c)
  BY <1>2 DEF Set, Done, Goto, Return, Routed
<1>3. CASE Check(c)
  BY <1>3 DEF Check, Await, Goto, Return, Routed
<1>4. CASE Cut(c)
  BY <1>4 DEF Cut, Done, Goto, Return
<1>5. CASE CheckHalf(c)
  BY <1>5 DEF CheckHalf, Await, Overdue, Goto, Return
<1>6. CASE AwaitDark(c)
  BY <1>6 DEF AwaitDark, Overdue, Goto, Return
<1>7. CASE AwaitLink(c)
  BY <1>7 DEF AwaitLink, Overdue, Goto, Return
<1>8. CASE Restore(c)
  BY <1>8 DEF Restore, Done, Goto, Return
<1>9. CASE Press(c)
  BY <1>9 DEF Press, Done, Goto, Return, Routed
<1>10. CASE AwaitBack(c)
  BY <1>10 DEF AwaitBack
<1>11. CASE Fail(c)
  BY <1>11 DEF Fail, Return
<1> QED
  BY <1>1, <1>2, <1>3, <1>4, <1>5, <1>6, <1>7, <1>8, <1>9, <1>10, <1>11 DEF Step

\* A re-arm reports a mismatch only after a read of the port.
LEMMA MismatchIsFromARead ==
    ASSUME TypeOK, NEW c \in Callers, Routed(c), Rearms(c), Step(c),
           Answers(c, "mismatch")
    PROVE  CheckHalf(c) \/ AwaitDark(c) \/ AwaitLink(c) \/ AwaitBack(c)
<1> USE DEF TypeOK, CallsOK, Answers
<1>1. CASE Before(c)
  BY <1>1 DEF Before, Goto
<1>2. CASE Set(c)
  BY <1>2 DEF Set, Done, Goto, Return, Routed
<1>3. CASE Check(c)
  BY <1>3 DEF Check, Await, Goto, Return, Routed
<1>4. CASE Cut(c)
  BY <1>4 DEF Cut, Done, Goto, Return
<1>5. CASE CheckHalf(c)
  BY <1>5 DEF CheckHalf
<1>6. CASE AwaitDark(c)
  BY <1>6 DEF AwaitDark
<1>7. CASE AwaitLink(c)
  BY <1>7 DEF AwaitLink
<1>8. CASE Restore(c)
  BY <1>8 DEF Restore, Done, Goto, Return
<1>9. CASE Press(c)
  BY <1>9 DEF Press, Done, Goto, Return
<1>10. CASE AwaitBack(c)
  BY <1>10 DEF AwaitBack
<1>11. CASE Fail(c)
  BY <1>11 DEF Fail, Return
<1> QED
  BY <1>1, <1>2, <1>3, <1>4, <1>5, <1>6, <1>7, <1>8, <1>9, <1>10, <1>11 DEF Step

\* What success says of the port (the first half of CycleVerdictIsTrue).
LEMMA OkIsTrue ==
    ASSUME IInv, NEW c \in Callers, Rearms(c), Step(c), Answers(c, "ok"),
           op[c].stack \in {"snmp", "goahead", "cli"}
    PROVE  /\ ~disturbed[c] => wasOff[c] /\ admin
           /\ op[c].kind = "cycle" /\ before[c] = "delivering" => detect = "delivering"
<1>1. TypeOK /\ Routed(c) /\ Alone(c)
  BY DEF IInv, RoutedInv, AloneInv
<1>2. AwaitBack(c)
  BY <1>1, OkIsFromTheWait
<1>3. pc[c] = "back?"
  BY <1>2 DEF AwaitBack
<1>4. ~disturbed[c] => wasOff[c] /\ admin
  BY <1>1, <1>3 DEF Alone
<1>5. Recovered(c, Status(op[c].stack))
  BY <1>1, <1>2, <1>3 DEF AwaitBack, Await, Overdue, Return, Answers, TypeOK, CallsOK
<1>6. ASSUME op[c].kind = "cycle", before[c] = "delivering" PROVE detect = "delivering"
  BY <1>5, <1>6 DEF Recovered, Status, CliDetect
<1> QED
  BY <1>4, <1>6

\* What a mismatch says of it (the second half).
LEMMA MismatchIsTrue ==
    ASSUME IInv, NEW c \in Callers, Rearms(c), Step(c), Answers(c, "mismatch"),
           ~disturbed[c], ~surprised[c]
    PROVE  \/ before[c] = "delivering"
           \/ op[c].stack = "cli" /\ op[c].kind = "cycle" /\ ~attached
<1>1. TypeOK /\ Routed(c) /\ Alone(c) /\ Quiet(c)
  BY DEF IInv, RoutedInv, AloneInv, QuietInv
<1> USE <1>1 DEF Answers, TypeOK, CallsOK
<1>2. CASE CheckHalf(c)
  <2>1. (pc[c] = "cut?" /\ ~admin) \/ (pc[c] = "restore?" /\ admin)
    BY <1>2 DEF CheckHalf, Alone, Between
  <2>2. admin = (pc[c] = "restore?")
    BY <2>1 DEF SwitchOK
  <2> QED
    BY <1>2, <2>2 DEF CheckHalf, Await, Goto, Return
<1>3. CASE AwaitDark(c)
  BY <1>3 DEF AwaitDark, IsOff, Goto, Quiet
<1>4. CASE AwaitLink(c)
  BY <1>4 DEF AwaitLink, Goto, Quiet
<1>5. CASE AwaitBack(c)
  <2>1. pc[c] = "back?" /\ ~Recovered(c, Status(op[c].stack))
    BY <1>5 DEF AwaitBack, Await, Return
  <2>2. /\ admin /\ detect \in {"searching", "delivering"}
        /\ op[c].stack = "cli" => lag = 0 /\ (attached => detect = "delivering")
    BY <2>1 DEF Alone, Quiet
  <2>3. Status(op[c].stack) = detect
    BY <2>2 DEF Status, CliDetect
  <2>4. op[c].stack \in {"snmp", "goahead", "cli"} /\ op[c].kind \in {"cycle", "clear"}
    BY <2>1 DEF Routed, Rearms
  <2> QED
    BY <2>1, <2>2, <2>3, <2>4 DEF Recovered
<1> QED
  BY <1>2, <1>3, <1>4, <1>5, MismatchIsFromARead

\* The verdict a re-arm returns (CyclePoE, ClearPoEFault) says what the port has
\* been through, whoever else works on it.
THEOREM CycleVerdicts == Spec => CycleVerdictIsTrue
<1> DEFINE Verdict(c) ==
      Rearms(c) =>
        /\ Answers(c, "ok") /\ op[c].stack \in {"snmp", "goahead", "cli"}
            => /\ ~disturbed[c] => wasOff[c] /\ admin
               /\ op[c].kind = "cycle" /\ before[c] = "delivering" => detect = "delivering"
        /\ Answers(c, "mismatch") /\ ~disturbed[c] /\ ~surprised[c]
            => \/ before[c] = "delivering"
               \/ op[c].stack = "cli" /\ op[c].kind = "cycle" /\ ~attached
<1>1. ASSUME IInv, Next PROVE \A c \in Callers : Verdict(c)
  <2> SUFFICES ASSUME NEW c \in Callers PROVE Verdict(c)
    OBVIOUS
  <2>1. CASE Step(c)
    BY <1>1, <2>1, OkIsTrue, MismatchIsTrue
  <2>2. CASE ~Step(c)
    <3>1. pc[c] = "idle" \/ pc'[c] = pc[c]
      BY <1>1, <2>2, CallsAreTheirOwn DEF IInv, TypeOK, CallsOK, Next, Begin, Return,
         Surprise, Settle
    <3> QED
      BY <3>1 DEF Answers
  <2> QED
    BY <2>1, <2>2
<1>2. IInv /\ [Next]_vars => [\A c \in Callers : Verdict(c)]_vars
  BY <1>1
<1> QED
  BY <1>2, InvariantHolds, PTL DEF Spec, CycleVerdictIsTrue

=============================================================================
