------------------------------ MODULE WriteCalls ------------------------------
(***************************************************************************)
(* What nsdp.WriteClient promises its callers, without datagrams, schemes   *)
(* or salts.  A call makes attempts; an attempt that carries a write is in  *)
(* transit until the switch applies it or it is dropped; it is applied at   *)
(* most once, and acknowledged once.  A call reports success only by taking *)
(* an acknowledgement, which no other call can take again: that of its own  *)
(* last attempt when answers find their way (OwnAnswers), and otherwise     *)
(* that of any applied attempt.  A call that reports failure promises       *)
(* nothing: its write may have been, or may still be applied.               *)
(***************************************************************************)
CONSTANTS Callers, Ids,
          OwnAnswers  \* an answer reaches the attempt it answers and no other

VARIABLES
    busy,      \* callers with a call in progress
    attempt,   \* each caller's latest attempt
    inTransit, \* attempts that carry a write the switch has not seen
    applied,   \* attempts whose write the switch has applied
    acks,      \* applied attempts whose acknowledgement is on its way
    result     \* what each caller's latest call reported

vars == <<busy, attempt, inTransit, applied, acks, result>>

Init ==
    /\ busy = {} /\ inTransit = {} /\ applied = {} /\ acks = {}
    /\ attempt \in [Callers -> Ids]
    /\ result = [c \in Callers |-> "none"]

Fresh(i) == i \notin inTransit \union applied

Attempt(c) ==
    /\ busy' = busy \union {c}
    /\ result' = [result EXCEPT ![c] = "none"]
    /\ attempt'[c] \in Ids /\ Fresh(attempt'[c])
    /\ attempt' = [attempt EXCEPT ![c] = attempt'[c]]
    /\ inTransit' \in {inTransit, inTransit \union {attempt'[c]}}
    /\ UNCHANGED <<applied, acks>>

Report(c, r) ==
    /\ c \in busy
    /\ busy' = busy \ {c}
    /\ result' = [result EXCEPT ![c] = r]
    /\ UNCHANGED <<attempt, inTransit, applied>>

Succeed(c) ==
    /\ Report(c, "written")
    /\ \E i \in acks :
        /\ OwnAnswers => i = attempt[c]
        /\ acks' = acks \ {i}

\* An acknowledgement may be taken in vain.
Fail(c) ==
    /\ Report(c, "other")
    /\ \/ UNCHANGED acks
       \/ \E i \in acks : acks' = acks \ {i}

Apply(i) ==
    /\ inTransit' = inTransit \ {i}
    /\ applied' = applied \union {i}
    /\ acks' = acks \union {i}
    /\ UNCHANGED <<busy, attempt, result>>

Drop(i) ==
    /\ inTransit' = inTransit \ {i}
    /\ UNCHANGED <<busy, attempt, applied, acks, result>>

DropAck(i) ==
    /\ acks' = acks \ {i}
    /\ UNCHANGED <<busy, attempt, inTransit, applied, result>>

Next ==
    \/ \E c \in Callers : Attempt(c) \/ Succeed(c) \/ Fail(c)
    \/ \E i \in inTransit : Apply(i) \/ Drop(i)
    \/ \E i \in acks : DropAck(i)

Spec == Init /\ [][Next]_vars

=============================================================================
