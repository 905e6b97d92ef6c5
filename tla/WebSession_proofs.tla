--------------------------- MODULE WebSession_proofs ---------------------------
(***************************************************************************)
(* What WebSession does for every number of callers, any retry limit and    *)
(* any set of login schemes: type correctness, and its three properties.    *)
(*                                                                          *)
(* A step of caller c is looked at twice: OthersStay and OthersCut say what *)
(* it may do to another caller d, so that each invariant is proved for d in *)
(* one step, and action by action for c alone.                              *)
(***************************************************************************)
EXTENDS WebSession, TLAPS

\* A call in progress has reported nothing yet; a read never posts, an upload
\* only posts.
CallFits(c) ==
    /\ pc[c] # "idle" => result[c] = "none"
    /\ op[c] = "read" => verb[c] = "GET"
    /\ op[c] = "upload" => verb[c] = "POST"
CallFitsInv == \A c \in Callers : CallFits(c)

\* Only a POST takes effect, once, and only until its answer has been handled.
Applied(c) ==
    /\ applied[c] <= 1
    /\ applied[c] # 0 => verb[c] = "POST" /\ pc[c] \in {"data", "dropped", "error", "idle"}
    /\ pc[c] = "data" /\ verb[c] = "POST" => applied[c] = 1
AppliedInv == \A c \in Callers : Applied(c)

\* What WriteSentOnce says of a call that has ended.
SentOnce(c) ==
    /\ result[c] = "auth" => applied[c] = 0
    /\ scheme = "xml" /\ result[c] = "ok" /\ op[c] # "read" => applied[c] = 1
SentOnceInv == \A c \in Callers : SentOnce(c)

LoginPhases == {"login", "authenticate", "adopt", "mark"}

\* Only a GoAhead read logs in again, and its call remembers it to its end.
Relogin(c) ==
    relogged[c] =>
        /\ scheme = "xml" /\ op[c] # "upload" /\ pc[c] # "idle"
        /\ pc[c] = "ensure" => verb[c] = "POST"
ReloginInv == \A c \in Callers : Relogin(c)

\* A form or token client stays logged in, and its update does not log in
\* between its read and its POST.
FormFlag(c) ==
    /\ scheme # "xml" /\ pc[c] \in {"send"} \union Answers => loggedIn
    /\ scheme # "xml" /\ verb[c] = "POST" /\ op[c] = "update" /\ pc[c] # "idle"
        => loggedIn /\ pc[c] \notin LoginPhases
FormFlagInv == \A c \in Callers : FormFlag(c)

\* Either the call has been cut off, or the client's session is honoured.
Sure(c) == cut[c] \/ cred \in live

\* The call has proof of a session: its read was served, or it logged in again.
Proven(c) == (verb[c] = "POST" /\ op[c] = "update") \/ relogged[c]

\* Where a call stands on its own proof of a session, until it is cut off.
Stands(c) ==
    /\ scheme = "xml" /\ pc[c] = "adopt" => cut[c] \/ sid[c] \in live
    /\ scheme = "xml" /\ pc[c] = "mark" => Sure(c)
    /\ pc[c] = "data" /\ verb[c] = "GET" => Sure(c)
    /\ pc[c] = "ensure" /\ verb[c] = "POST" /\ op[c] = "update" => Sure(c)
    /\ pc[c] \in {"send", "dropped"} /\ Proven(c) => Sure(c)
    /\ pc[c] = "login page" /\ Proven(c) => cut[c]
StandsInv == \A c \in Callers : Stands(c)

\* What the two session properties say of a call that has ended.
Explained(c) ==
    /\ scheme = "xml" /\ result[c] = "auth" /\ op[c] # "upload" => cut[c]
    /\ result[c] = "ok" /\ op[c] # "read" /\ applied[c] = 0
        => scheme # "xml" /\ op[c] = "update" /\ cut[c]
ExplainedInv == \A c \in Callers : Explained(c)

\* The inductive invariant: what a write may have done, and what a call may take
\* its session to be.
IInv ==
    /\ TypeOK /\ CallFitsInv /\ AppliedInv /\ SentOnceInv
    /\ ReloginInv /\ FormFlagInv /\ StandsInv /\ ExplainedInv

-----------------------------------------------------------------------------
(* Type correctness. *)

\* The login flag and the per-call flags stay Booleans (HTTPClient.loggedIn,
\* GetPage's one login).
LEMMA FlagsPreserved ==
    ASSUME TypeOK, [Next]_vars
    PROVE  FlagsOK'
<1> USE WebAssumption DEF WebAssumption, TypeOK, FlagsOK, SessionsOK, CallsOK, CountsOK, Sessions,
        Kinds, Answers, clientVars, switchVars, callVars
<1>1. ASSUME NEW c \in Callers, Step(c) PROVE FlagsOK'
  <2>1. CASE Ensure(c)
    BY <2>1 DEF Ensure, Goto
  <2>2. CASE LoginPage(c)
    <3>1. cut' \in [Callers -> BOOLEAN]
      BY <2>2 DEF LoginPage, CutOthers
    <3>2. relogged' \in [Callers -> BOOLEAN] /\ loggedIn' = loggedIn
      BY <2>2 DEF LoginPage, Goto, Return
    <3> QED
      BY <3>1, <3>2
  <2>3. CASE Accepted(c)
    BY <2>3 DEF Accepted, Goto, CutOthers
  <2>4. CASE Refused(c)
    BY <2>4 DEF Refused, Goto, Return
  <2>5. CASE Adopt(c)
    BY <2>5 DEF Adopt, Goto, CutOthers
  <2>6. CASE Mark(c)
    BY <2>6 DEF Mark, Goto, CutOthers
  <2>7. CASE Send(c)
    BY <2>7 DEF Send, Serve, Goto
  <2>8. CASE Repeat(c)
    BY <2>8 DEF Repeat, Repeatable
  <2>9. CASE GiveUp(c)
    BY <2>9 DEF GiveUp, Return
  <2>10. CASE Served(c)
    BY <2>10 DEF Served, Goto, Return
  <2>11. CASE LogInAgain(c)
    BY <2>11 DEF LogInAgain
  <2>12. CASE LoggedOut(c)
    BY <2>12 DEF LoggedOut, Return, Verdict
  <2> QED
    BY <1>1, <2>1, <2>2, <2>3, <2>4, <2>5, <2>6, <2>7, <2>8, <2>9, <2>10,
       <2>11, <2>12 DEF Step
<1>2. ASSUME NEW c \in Callers, NEW k \in Kinds, Begin(c, k) PROVE FlagsOK'
  BY <1>2 DEF Begin
<1>3. CASE Expire
  BY <1>3 DEF Expire
<1>4. CASE UNCHANGED vars
  BY <1>4 DEF vars
<1> QED
  BY <1>1, <1>2, <1>3, <1>4 DEF Next

\* Jar, token and the session a login carries name sessions that were made.
LEMMA SessionsPreserved ==
    ASSUME TypeOK, [Next]_vars
    PROVE  SessionsOK'
<1> USE WebAssumption DEF WebAssumption, TypeOK, SessionsOK, Sessions, clientVars, switchVars,
        callVars
<1>1. ASSUME NEW c \in Callers, Step(c) PROVE SessionsOK'
  <2>1. CASE Ensure(c)
    BY <2>1 DEF Ensure, Goto
  <2>2. CASE LoginPage(c)
    BY <2>2 DEF LoginPage, Goto, Return
  <2>3. CASE Accepted(c)
    BY <2>3 DEF Accepted, Goto
  <2>4. CASE Refused(c)
    BY <2>4 DEF Refused, Goto, Return
  <2>5. CASE Adopt(c)
    BY <2>5 DEF Adopt, Goto
  <2>6. CASE Mark(c)
    BY <2>6 DEF Mark, Goto
  <2>7. CASE Send(c)
    BY <2>7 DEF Send, Serve, Goto
  <2>8. CASE Repeat(c)
    BY <2>8 DEF Repeat, Repeatable
  <2>9. CASE GiveUp(c)
    BY <2>9 DEF GiveUp, Return
  <2>10. CASE Served(c)
    BY <2>10 DEF Served, Goto, Return
  <2>11. CASE LogInAgain(c)
    BY <2>11 DEF LogInAgain
  <2>12. CASE LoggedOut(c)
    BY <2>12 DEF LoggedOut, Return, Verdict
  <2> QED
    BY <1>1, <2>1, <2>2, <2>3, <2>4, <2>5, <2>6, <2>7, <2>8, <2>9, <2>10,
       <2>11, <2>12 DEF Step
<1>2. ASSUME NEW c \in Callers, NEW k \in Kinds, Begin(c, k) PROVE SessionsOK'
  BY <1>2 DEF Begin
<1>3. CASE Expire
  BY <1>3 DEF Expire
<1>4. CASE UNCHANGED vars
  BY <1>4 DEF vars
<1> QED
  BY <1>1, <1>2, <1>3, <1>4 DEF Next

\* The counters stay in range: getWithRetry never passes its limit.
LEMMA CountsPreserved ==
    ASSUME TypeOK, [Next]_vars
    PROVE  CountsOK'
<1> USE WebAssumption DEF WebAssumption, TypeOK, CountsOK, clientVars, switchVars, callVars
<1>1. ASSUME NEW c \in Callers, Step(c) PROVE CountsOK'
  <2>1. CASE Ensure(c)
    BY <2>1 DEF Ensure, Goto
  <2>2. CASE LoginPage(c)
    BY <2>2 DEF LoginPage, Goto, Return
  <2>3. CASE Accepted(c)
    BY <2>3 DEF Accepted, Goto
  <2>4. CASE Refused(c)
    BY <2>4 DEF Refused, Goto, Return
  <2>5. CASE Adopt(c)
    BY <2>5 DEF Adopt, Goto
  <2>6. CASE Mark(c)
    BY <2>6 DEF Mark, Goto
  <2>7. CASE Send(c)
    <3>1. applied' = applied \/ applied' = [applied EXCEPT ![c] = @ + 1]
      BY <2>7 DEF Send, Serve
    <3>2. UNCHANGED <<calls, attempt>>
      BY <2>7 DEF Send, Goto
    <3> QED
      BY <3>1, <3>2
  <2>8. CASE Repeat(c)
    BY <2>8 DEF Repeat, Repeatable
  <2>9. CASE GiveUp(c)
    BY <2>9 DEF GiveUp, Return
  <2>10. CASE Served(c)
    BY <2>10 DEF Served, Goto, Return
  <2>11. CASE LogInAgain(c)
    <3>1. attempt' = [attempt EXCEPT ![c] = 0] /\ UNCHANGED <<calls, applied>>
      BY <2>11 DEF LogInAgain
    <3> QED
      BY <3>1
  <2>12. CASE LoggedOut(c)
    <3>1. attempt' = [attempt EXCEPT ![c] = 0] /\ UNCHANGED <<calls, applied>>
      BY <2>12 DEF LoggedOut, Return
    <3> QED
      BY <3>1
  <2> QED
    BY <1>1, <2>1, <2>2, <2>3, <2>4, <2>5, <2>6, <2>7, <2>8, <2>9, <2>10,
       <2>11, <2>12 DEF Step
<1>2. ASSUME NEW c \in Callers, NEW k \in Kinds, Begin(c, k) PROVE CountsOK'
  BY <1>2 DEF Begin
<1>3. CASE Expire
  BY <1>3 DEF Expire
<1>4. CASE UNCHANGED vars
  BY <1>4 DEF vars
<1> QED
  BY <1>1, <1>2, <1>3, <1>4 DEF Next

\* A call stays at one of its places and reports one of its results.
LEMMA CallsPreserved ==
    ASSUME TypeOK, [Next]_vars
    PROVE  CallsOK'
<1> USE DEF TypeOK, CallsOK, Kinds, Answers, clientVars, switchVars, callVars
<1>1. ASSUME NEW c \in Callers, Step(c) PROVE CallsOK'
  <2>1. CASE Ensure(c)
    BY <2>1 DEF Ensure, Goto
  <2>2. CASE LoginPage(c)
    BY <2>2 DEF LoginPage, Goto, Return
  <2>3. CASE Accepted(c)
    BY <2>3 DEF Accepted, Goto
  <2>4. CASE Refused(c)
    BY <2>4 DEF Refused, Goto, Return
  <2>5. CASE Adopt(c)
    BY <2>5 DEF Adopt, Goto
  <2>6. CASE Mark(c)
    BY <2>6 DEF Mark, Goto
  <2>7. CASE Send(c)
    <3>1. \E l \in Answers : Goto(c, l)
      BY <2>7 DEF Send
    <3>2. UNCHANGED <<op, verb>>
      BY <2>7 DEF Send
    <3> QED
      BY <3>1, <3>2 DEF Goto
  <2>8. CASE Repeat(c)
    BY <2>8 DEF Repeat, Repeatable
  <2>9. CASE GiveUp(c)
    BY <2>9 DEF GiveUp, Return
  <2>10. CASE Served(c)
    BY <2>10 DEF Served, Goto, Return
  <2>11. CASE LogInAgain(c)
    BY <2>11 DEF LogInAgain
  <2>12. CASE LoggedOut(c)
    BY <2>12 DEF LoggedOut, Return, Verdict
  <2> QED
    BY <1>1, <2>1, <2>2, <2>3, <2>4, <2>5, <2>6, <2>7, <2>8, <2>9, <2>10,
       <2>11, <2>12 DEF Step
<1>2. ASSUME NEW c \in Callers, NEW k \in Kinds, Begin(c, k) PROVE CallsOK'
  BY <1>2 DEF Begin
<1>3. CASE Expire
  BY <1>3 DEF Expire
<1>4. CASE UNCHANGED vars
  BY <1>4 DEF vars
<1> QED
  BY <1>1, <1>2, <1>3, <1>4 DEF Next

\* Init is well formed (NewHTTPClient).
LEMMA InitTyped == Init => TypeOK
<1> SUFFICES ASSUME Init PROVE TypeOK
  OBVIOUS
<1>1. FlagsOK
  BY DEF Init, FlagsOK
<1>2. SessionsOK
  BY WebAssumption DEF WebAssumption, Init, SessionsOK, Sessions
<1>3. CountsOK
  BY WebAssumption DEF WebAssumption, Init, CountsOK
<1>4. CallsOK
  BY DEF Init, CallsOK, Kinds
<1> QED
  BY <1>1, <1>2, <1>3, <1>4 DEF TypeOK

\* Every step of Next keeps the state well formed.
LEMMA TypePreserved == TypeOK /\ [Next]_vars => TypeOK'
BY FlagsPreserved, SessionsPreserved, CountsPreserved, CallsPreserved DEF TypeOK

\* Every reachable state of the client is well formed, for any number of callers
\* and any login scheme (client.go's HTTPClient and the calls on it).
THEOREM TypeCorrect == Spec => []TypeOK
BY InitTyped, TypePreserved, PTL DEF Spec

-----------------------------------------------------------------------------
(* A step and the other callers. *)

\* A caller's step leaves the calls of the others where they are.
LEMMA OthersStay ==
    ASSUME TypeOK, NEW c \in Callers, Step(c), NEW d \in Callers, d # c
    PROVE  /\ pc'[d] = pc[d] /\ op'[d] = op[d] /\ verb'[d] = verb[d]
           /\ sid'[d] = sid[d] /\ result'[d] = result[d] /\ applied'[d] = applied[d]
           /\ scheme' = scheme /\ live \subseteq live'
<1> USE DEF TypeOK, SessionsOK, CountsOK, CallsOK, clientVars, switchVars, callVars
<1>1. CASE Ensure(c)
  BY <1>1 DEF Ensure, Goto
<1>2. CASE LoginPage(c)
  BY <1>2 DEF LoginPage, Goto, Return
<1>3. CASE Accepted(c)
  BY <1>3 DEF Accepted, Goto
<1>4. CASE Refused(c)
  BY <1>4 DEF Refused, Goto, Return
<1>5. CASE Adopt(c)
  BY <1>5 DEF Adopt, Goto
<1>6. CASE Mark(c)
  BY <1>6 DEF Mark, Goto
<1>7. CASE Send(c)
  BY <1>7 DEF Send, Serve, Goto
<1>8. CASE Repeat(c)
  BY <1>8 DEF Repeat, Repeatable
<1>9. CASE GiveUp(c)
  BY <1>9 DEF GiveUp, Return
<1>10. CASE Served(c)
  BY <1>10 DEF Served, Goto, Return
<1>11. CASE LogInAgain(c)
  BY <1>11 DEF LogInAgain
<1>12. CASE LoggedOut(c)
  BY <1>12 DEF LoggedOut, Return, Verdict
<1> QED
  BY <1>1, <1>2, <1>3, <1>4, <1>5, <1>6, <1>7, <1>8, <1>9, <1>10, <1>11, <1>12 DEF Step

\* It logs in again for itself only; a form or token client it never marks logged
\* out.  Where it changes the jar (CutOthers), the others are cut off.
LEMMA OthersCut ==
    ASSUME TypeOK, NEW c \in Callers, Step(c), NEW d \in Callers, d # c
    PROVE  /\ relogged'[d] = relogged[d]
           /\ cut[d] => cut'[d]
           /\ scheme # "xml" /\ loggedIn => loggedIn'
           /\ cred' = cred \/ cut'[d] \/ pc[d] = "idle"
<1> USE DEF TypeOK, FlagsOK, clientVars, switchVars, callVars
<1>1. CASE Ensure(c)
  BY <1>1 DEF Ensure, Goto
<1>2. CASE LoginPage(c)
  BY <1>2 DEF LoginPage, Goto, Return, CutOthers
<1>3. CASE Accepted(c)
  BY <1>3 DEF Accepted, Goto, CutOthers
<1>4. CASE Refused(c)
  BY <1>4 DEF Refused, Goto, Return
<1>5. CASE Adopt(c)
  BY <1>5 DEF Adopt, Goto, CutOthers
<1>6. CASE Mark(c)
  BY <1>6 DEF Mark, Goto, CutOthers
<1>7. CASE Send(c)
  BY <1>7 DEF Send, Serve, Goto
<1>8. CASE Repeat(c)
  BY <1>8 DEF Repeat, Repeatable
<1>9. CASE GiveUp(c)
  BY <1>9 DEF GiveUp, Return
<1>10. CASE Served(c)
  BY <1>10 DEF Served, Goto, Return
<1>11. CASE LogInAgain(c)
  BY <1>11 DEF LogInAgain, SessionLost
<1>12. CASE LoggedOut(c)
  BY <1>12 DEF LoggedOut, Return, Verdict, SessionLost
<1> QED
  BY <1>1, <1>2, <1>3, <1>4, <1>5, <1>6, <1>7, <1>8, <1>9, <1>10, <1>11, <1>12 DEF Step

\* A step keeps CallFits: a call reports only when it returns (Return), and only
\* Served turns a read into a write.
LEMMA CallFitsPreserved ==
    ASSUME TypeOK, CallFitsInv, [Next]_vars
    PROVE  CallFitsInv'
<1>1. ASSUME NEW c \in Callers, Step(c) PROVE CallFits(c)'
  <2> USE DEF TypeOK, CallsOK, Answers, Kinds, clientVars, switchVars, callVars, CallFits,
        CallFitsInv
  <2>1. CASE Ensure(c)
    BY <2>1 DEF Ensure, Goto
  <2>2. CASE LoginPage(c)
    BY <2>2 DEF LoginPage, Goto, Return
  <2>3. CASE Accepted(c)
    BY <2>3 DEF Accepted, Goto
  <2>4. CASE Refused(c)
    BY <2>4 DEF Refused, Goto, Return
  <2>5. CASE Adopt(c)
    BY <2>5 DEF Adopt, Goto
  <2>6. CASE Mark(c)
    BY <2>6 DEF Mark, Goto
  <2>7. CASE Send(c)
    BY <2>7 DEF Send, Serve, Goto
  <2>8. CASE Repeat(c)
    BY <2>8 DEF Repeat, Repeatable
  <2>9. CASE GiveUp(c)
    BY <2>9 DEF GiveUp, Return
  <2>10. CASE Served(c)
    BY <2>10 DEF Served, Goto, Return
  <2>11. CASE LogInAgain(c)
    BY <2>11 DEF LogInAgain
  <2>12. CASE LoggedOut(c)
    BY <2>12 DEF LoggedOut, Return, Verdict
  <2> QED
    BY <1>1, <2>1, <2>2, <2>3, <2>4, <2>5, <2>6, <2>7, <2>8, <2>9, <2>10,
       <2>11, <2>12 DEF Step
<1>2. ASSUME NEW c \in Callers, Step(c), NEW d \in Callers, d # c PROVE CallFits(d)'
  <2>1. /\ pc'[d] = pc[d] /\ result'[d] = result[d] /\ op'[d] = op[d] /\ verb'[d] = verb[d]
    BY <1>2, OthersStay
  <2> QED
    BY <2>1 DEF CallFits, CallFitsInv
<1>3. ASSUME NEW c \in Callers, NEW k \in Kinds, Begin(c, k) PROVE CallFitsInv'
  BY <1>3 DEF Begin, CallFitsInv, TypeOK, CallsOK, Answers, Kinds, clientVars, switchVars,
        callVars, CallFits, CallFitsInv
<1>4. CASE Expire
  BY <1>4 DEF Expire, CallFitsInv, TypeOK, CallsOK, Answers, Kinds, clientVars,
        switchVars, callVars, CallFits, CallFitsInv
<1>5. CASE UNCHANGED vars
  BY <1>5 DEF vars, CallFitsInv, TypeOK, CallsOK, Answers, Kinds, clientVars, switchVars,
        callVars, CallFits, CallFitsInv
<1> QED
  BY <1>1, <1>2, <1>3, <1>4, <1>5 DEF Next, CallFitsInv

\* A served POST takes effect once (Serve).
LEMMA ServeApplies ==
    ASSUME TypeOK, NEW c \in Callers, Serve(c), applied[c] = 0
    PROVE  \/ applied' = applied /\ (cred \in live => verb[c] # "POST")
           \/ applied' = [applied EXCEPT ![c] = 1] /\ verb[c] = "POST"
BY DEF Serve, TypeOK, CountsOK

\* A call whose write just took effect fits Applied.
LEMMA AppliedOnce ==
    ASSUME NEW c \in Callers, applied'[c] = 1, verb'[c] = "POST",
           pc'[c] \in {"data", "dropped", "error"}
    PROVE  Applied(c)'
BY DEF Applied

\* A step keeps Applied: postOnce has no loop, and getWithRetry repeats GETs only.
LEMMA AppliedPreserved ==
    ASSUME TypeOK, AppliedInv, [Next]_vars
    PROVE  AppliedInv'
<1>1. ASSUME NEW c \in Callers, Step(c) PROVE Applied(c)'
  <2> USE DEF TypeOK, CountsOK, CallsOK, Answers, Kinds, clientVars, switchVars, callVars,
        Applied, AppliedInv
  <2>1. CASE Ensure(c)
    BY <2>1 DEF Ensure, Goto
  <2>2. CASE LoginPage(c)
    BY <2>2 DEF LoginPage, Goto, Return
  <2>3. CASE Accepted(c)
    BY <2>3 DEF Accepted, Goto
  <2>4. CASE Refused(c)
    BY <2>4 DEF Refused, Goto, Return
  <2>5. CASE Adopt(c)
    BY <2>5 DEF Adopt, Goto
  <2>6. CASE Mark(c)
    BY <2>6 DEF Mark, Goto
  <2>7. CASE Send(c)
    <3>1. pc[c] = "send" /\ applied[c] = 0 /\ verb' = verb
      BY <2>7 DEF Send
    <3>2. PICK l \in Answers : pc' = [pc EXCEPT ![c] = l]
      BY <2>7 DEF Send, Goto
    <3>3. \/ applied' = applied /\ (l = "data" => verb[c] # "POST")
          \/ applied' = [applied EXCEPT ![c] = 1] /\ verb[c] = "POST" /\ l # "login page"
      <4>0. Serve(c) => \/ applied' = applied /\ (cred \in live => verb[c] # "POST")
                        \/ applied' = [applied EXCEPT ![c] = 1] /\ verb[c] = "POST"
        BY <3>1, ServeApplies
      <4>1. CASE Serve(c) /\ cred \in live /\ l = "data"
        BY <4>0, <4>1
      <4>2. CASE Serve(c) /\ cred \notin live /\ l = "login page"
        BY <4>2 DEF Serve
      <4>3. CASE Serve(c) /\ l \in {"dropped", "error"}
        BY <4>0, <4>3
      <4>4. CASE UNCHANGED <<applied, cut>> /\ l \in {"dropped", "error"}
        BY <4>4
      <4> QED
        BY <2>7, <3>2, <4>1, <4>2, <4>3, <4>4 DEF Send, Goto
    <3>4. CASE applied' = applied /\ (l = "data" => verb[c] # "POST")
      <4>1. applied'[c] = 0 /\ verb'[c] = verb[c] /\ pc'[c] = l
        BY <3>1, <3>2, <3>4
      <4> QED
        BY <3>4, <4>1
    <3>5. CASE applied' = [applied EXCEPT ![c] = 1] /\ verb[c] = "POST" /\ l # "login page"
      <4>1. applied'[c] = 1 /\ verb'[c] = "POST" /\ pc'[c] = l
        BY <3>1, <3>2, <3>5
      <4>2. l \in {"data", "dropped", "error"}
        BY <3>5
      <4> QED
        BY <4>1, <4>2, AppliedOnce
    <3> QED
      BY <3>3, <3>4, <3>5
  <2>8. CASE Repeat(c)
    BY <2>8 DEF Repeat, Repeatable
  <2>9. CASE GiveUp(c)
    BY <2>9 DEF GiveUp, Return
  <2>10. CASE Served(c)
    BY <2>10 DEF Served, Goto, Return
  <2>11. CASE LogInAgain(c)
    BY <2>11 DEF LogInAgain
  <2>12. CASE LoggedOut(c)
    BY <2>12 DEF LoggedOut, Return, Verdict
  <2> QED
    BY <1>1, <2>1, <2>2, <2>3, <2>4, <2>5, <2>6, <2>7, <2>8, <2>9, <2>10,
       <2>11, <2>12 DEF Step
<1>2. ASSUME NEW c \in Callers, Step(c), NEW d \in Callers, d # c PROVE Applied(d)'
  <2>1. /\ pc'[d] = pc[d] /\ applied'[d] = applied[d] /\ verb'[d] = verb[d]
    BY <1>2, OthersStay
  <2> QED
    BY <2>1 DEF Applied, AppliedInv
<1>3. ASSUME NEW c \in Callers, NEW k \in Kinds, Begin(c, k) PROVE AppliedInv'
  <2>1. /\ verb' = [verb EXCEPT ![c] = IF k = "upload" THEN "POST" ELSE "GET"]
        /\ pc' = [pc EXCEPT ![c] = "ensure"] /\ applied' = [applied EXCEPT ![c] = 0]
    BY <1>3 DEF Begin
  <2> QED
    BY <2>1 DEF TypeOK, CallsOK, CountsOK, Applied, AppliedInv
<1>4. CASE Expire
  BY <1>4 DEF Expire, AppliedInv, TypeOK, CountsOK, CallsOK, Answers, Kinds, clientVars,
        switchVars, callVars, Applied, AppliedInv
<1>5. CASE UNCHANGED vars
  BY <1>5 DEF vars, AppliedInv, TypeOK, CountsOK, CallsOK, Answers, Kinds, clientVars,
        switchVars, callVars, Applied, AppliedInv
<1> QED
  BY <1>1, <1>2, <1>3, <1>4, <1>5 DEF Next, AppliedInv

\* A step keeps SentOnce: PostXML reports a lost session without sending again.
LEMMA SentOncePreserved ==
    ASSUME TypeOK, CallFitsInv, AppliedInv, SentOnceInv, [Next]_vars
    PROVE  SentOnceInv'
<1>1. ASSUME NEW c \in Callers, Step(c) PROVE SentOnce(c)'
  <2>0. CallFits(c) /\ Applied(c) /\ SentOnce(c)
    BY <1>1 DEF CallFitsInv, AppliedInv, SentOnceInv
  <2> USE <2>0 DEF TypeOK, CountsOK, CallsOK, Answers, Kinds, clientVars, switchVars, callVars,
        CallFits, Applied, SentOnce
  <2>1. CASE Ensure(c)
    BY <2>1 DEF Ensure, Goto
  <2>2. CASE LoginPage(c)
    BY <2>2 DEF LoginPage, Goto, Return
  <2>3. CASE Accepted(c)
    BY <2>3 DEF Accepted, Goto
  <2>4. CASE Refused(c)
    BY <2>4 DEF Refused, Goto, Return
  <2>5. CASE Adopt(c)
    BY <2>5 DEF Adopt, Goto
  <2>6. CASE Mark(c)
    BY <2>6 DEF Mark, Goto
  <2>7. CASE Send(c)
    BY <2>7 DEF Send, Serve, Goto
  <2>8. CASE Repeat(c)
    BY <2>8 DEF Repeat, Repeatable
  <2>9. CASE GiveUp(c)
    BY <2>9 DEF GiveUp, Return
  <2>10. CASE Served(c)
    BY <2>10 DEF Served, Goto, Return
  <2>11. CASE LogInAgain(c)
    BY <2>11 DEF LogInAgain, SessionLost
  <2>12. CASE LoggedOut(c)
    BY <2>12 DEF LoggedOut, Return, Verdict, SessionLost
  <2> QED
    BY <1>1, <2>1, <2>2, <2>3, <2>4, <2>5, <2>6, <2>7, <2>8, <2>9, <2>10,
       <2>11, <2>12 DEF Step
<1>2. ASSUME NEW c \in Callers, Step(c), NEW d \in Callers, d # c PROVE SentOnce(d)'
  <2>1. /\ result'[d] = result[d] /\ applied'[d] = applied[d] /\ op'[d] = op[d] /\ scheme' = scheme
    BY <1>2, OthersStay
  <2> QED
    BY <2>1 DEF SentOnce, SentOnceInv
<1>3. ASSUME NEW c \in Callers, NEW k \in Kinds, Begin(c, k) PROVE SentOnceInv'
  BY <1>3 DEF Begin, SentOnceInv, TypeOK, CountsOK, CallsOK, Answers, Kinds, clientVars,
        switchVars, callVars, CallFits, CallFitsInv, Applied, AppliedInv, SentOnceInv,
        SentOnce
<1>4. CASE Expire
  BY <1>4 DEF Expire, SentOnceInv, TypeOK, CountsOK, CallsOK, Answers, Kinds, clientVars,
        switchVars, callVars, CallFits, CallFitsInv, Applied, AppliedInv, SentOnceInv,
        SentOnce
<1>5. CASE UNCHANGED vars
  BY <1>5 DEF vars, SentOnceInv, TypeOK, CountsOK, CallsOK, Answers, Kinds, clientVars,
        switchVars, callVars, CallFits, CallFitsInv, Applied, AppliedInv, SentOnceInv,
        SentOnce
<1> QED
  BY <1>1, <1>2, <1>3, <1>4, <1>5 DEF Next, SentOnceInv

\* A step keeps Relogin: only GetPage logs in again, and only on a GoAhead switch.
LEMMA ReloginPreserved ==
    ASSUME TypeOK, CallFitsInv, ReloginInv, [Next]_vars
    PROVE  ReloginInv'
<1>1. ASSUME NEW c \in Callers, Step(c) PROVE Relogin(c)'
  <2>0. CallFits(c) /\ Relogin(c)
    BY <1>1 DEF CallFitsInv, ReloginInv
  <2> USE <2>0 DEF TypeOK, FlagsOK, CallsOK, Answers, Kinds, clientVars, switchVars, callVars,
        CallFits, Relogin
  <2>1. CASE Ensure(c)
    BY <2>1 DEF Ensure, Goto
  <2>2. CASE LoginPage(c)
    BY <2>2 DEF LoginPage, Goto, Return
  <2>3. CASE Accepted(c)
    BY <2>3 DEF Accepted, Goto
  <2>4. CASE Refused(c)
    BY <2>4 DEF Refused, Goto, Return
  <2>5. CASE Adopt(c)
    BY <2>5 DEF Adopt, Goto
  <2>6. CASE Mark(c)
    BY <2>6 DEF Mark, Goto
  <2>7. CASE Send(c)
    BY <2>7 DEF Send, Serve, Goto
  <2>8. CASE Repeat(c)
    BY <2>8 DEF Repeat, Repeatable
  <2>9. CASE GiveUp(c)
    BY <2>9 DEF GiveUp, Return
  <2>10. CASE Served(c)
    BY <2>10 DEF Served, Goto, Return
  <2>11. CASE LogInAgain(c)
    BY <2>11 DEF LogInAgain, SessionLost
  <2>12. CASE LoggedOut(c)
    BY <2>12 DEF LoggedOut, Return, Verdict, SessionLost
  <2> QED
    BY <1>1, <2>1, <2>2, <2>3, <2>4, <2>5, <2>6, <2>7, <2>8, <2>9, <2>10,
       <2>11, <2>12 DEF Step
<1>2. ASSUME NEW c \in Callers, Step(c), NEW d \in Callers, d # c PROVE Relogin(d)'
  <2>1. /\ pc'[d] = pc[d] /\ op'[d] = op[d] /\ verb'[d] = verb[d] /\ scheme' = scheme
    BY <1>2, OthersStay
  <2>2. /\ relogged'[d] = relogged[d]
    BY <1>2, OthersCut
  <2> QED
    BY <2>1, <2>2 DEF Relogin, ReloginInv
<1>3. ASSUME NEW c \in Callers, NEW k \in Kinds, Begin(c, k) PROVE ReloginInv'
  BY <1>3 DEF Begin, ReloginInv, TypeOK, FlagsOK, CallsOK, Answers, Kinds, clientVars,
        switchVars, callVars, CallFits, CallFitsInv, Relogin, ReloginInv
<1>4. CASE Expire
  BY <1>4 DEF Expire, ReloginInv, TypeOK, FlagsOK, CallsOK, Answers, Kinds, clientVars,
        switchVars, callVars, CallFits, CallFitsInv, Relogin, ReloginInv
<1>5. CASE UNCHANGED vars
  BY <1>5 DEF vars, ReloginInv, TypeOK, FlagsOK, CallsOK, Answers, Kinds, clientVars,
        switchVars, callVars, CallFits, CallFitsInv, Relogin, ReloginInv
<1> QED
  BY <1>1, <1>2, <1>3, <1>4, <1>5 DEF Next, ReloginInv

\* A step keeps FormFlag: nothing but LogInAgain takes the loggedIn flag down.
LEMMA FormFlagPreserved ==
    ASSUME TypeOK, FormFlagInv, [Next]_vars
    PROVE  FormFlagInv'
<1>1. ASSUME NEW c \in Callers, Step(c) PROVE FormFlag(c)'
  <2>0. FormFlag(c)
    BY <1>1 DEF FormFlagInv
  <2> USE <2>0 DEF TypeOK, FlagsOK, CallsOK, Answers, Kinds, clientVars, switchVars, callVars,
        LoginPhases, FormFlag
  <2>1. CASE Ensure(c)
    BY <2>1 DEF Ensure, Goto
  <2>2. CASE LoginPage(c)
    BY <2>2 DEF LoginPage, Goto, Return
  <2>3. CASE Accepted(c)
    BY <2>3 DEF Accepted, Goto
  <2>4. CASE Refused(c)
    BY <2>4 DEF Refused, Goto, Return
  <2>5. CASE Adopt(c)
    BY <2>5 DEF Adopt, Goto
  <2>6. CASE Mark(c)
    BY <2>6 DEF Mark, Goto
  <2>7. CASE Send(c)
    BY <2>7 DEF Send, Serve, Goto
  <2>8. CASE Repeat(c)
    BY <2>8 DEF Repeat, Repeatable
  <2>9. CASE GiveUp(c)
    BY <2>9 DEF GiveUp, Return
  <2>10. CASE Served(c)
    BY <2>10 DEF Served, Goto, Return
  <2>11. CASE LogInAgain(c)
    BY <2>11 DEF LogInAgain, SessionLost
  <2>12. CASE LoggedOut(c)
    BY <2>12 DEF LoggedOut, Return, Verdict, SessionLost
  <2> QED
    BY <1>1, <2>1, <2>2, <2>3, <2>4, <2>5, <2>6, <2>7, <2>8, <2>9, <2>10,
       <2>11, <2>12 DEF Step
<1>2. ASSUME NEW c \in Callers, Step(c), NEW d \in Callers, d # c PROVE FormFlag(d)'
  <2>1. /\ pc'[d] = pc[d] /\ op'[d] = op[d] /\ verb'[d] = verb[d] /\ scheme' = scheme
    BY <1>2, OthersStay
  <2>2. scheme # "xml" /\ loggedIn => loggedIn'
    BY <1>2, OthersCut
  <2> QED
    BY <2>1, <2>2 DEF FormFlag, FormFlagInv, Answers
<1>3. ASSUME NEW c \in Callers, NEW k \in Kinds, Begin(c, k) PROVE FormFlagInv'
  BY <1>3 DEF Begin, FormFlagInv, TypeOK, FlagsOK, CallsOK, Answers, Kinds, clientVars,
        switchVars, callVars, FormFlagInv, LoginPhases, FormFlag
<1>4. CASE Expire
  BY <1>4 DEF Expire, FormFlagInv, TypeOK, FlagsOK, CallsOK, Answers, Kinds, clientVars,
        switchVars, callVars, FormFlagInv, LoginPhases, FormFlag
<1>5. CASE UNCHANGED vars
  BY <1>5 DEF vars, FormFlagInv, TypeOK, FlagsOK, CallsOK, Answers, Kinds, clientVars,
        switchVars, callVars, FormFlagInv, LoginPhases, FormFlag
<1> QED
  BY <1>1, <1>2, <1>3, <1>4, <1>5 DEF Next, FormFlagInv

\* A step keeps Stands: a session proven by a served read, or by a login of the
\* call's own, is lost only by an event that cuts the call off.
LEMMA StandsPreserved ==
    ASSUME TypeOK, FormFlagInv, CallFitsInv, ReloginInv, StandsInv, [Next]_vars
    PROVE  StandsInv'
<1>1. ASSUME NEW c \in Callers, Step(c) PROVE Stands(c)'
  <2>0. CallFits(c) /\ Relogin(c) /\ FormFlag(c) /\ Stands(c)
    BY <1>1 DEF CallFitsInv, ReloginInv, FormFlagInv, StandsInv
  <2> USE <2>0 DEF TypeOK, FlagsOK, CallsOK, SessionsOK, Sessions, Answers, Kinds, clientVars,
        switchVars, callVars, CallFits, Relogin, LoginPhases, FormFlag, Stands, Sure, Proven
  <2>1. CASE Ensure(c)
    <3>1. CASE loggedIn
      BY <2>1, <3>1 DEF Ensure, Goto
    <3>2. CASE ~loggedIn
      BY <2>1, <3>2 DEF Ensure, Goto
    <3> QED
      BY <3>1, <3>2
  <2>2. CASE LoginPage(c)
    BY <2>2 DEF LoginPage, Goto, Return, CutOthers
  <2>3. CASE Accepted(c)
    BY <2>3 DEF Accepted, Goto, CutOthers
  <2>4. CASE Refused(c)
    BY <2>4 DEF Refused, Goto, Return
  <2>5. CASE Adopt(c)
    BY <2>5 DEF Adopt, Goto, CutOthers
  <2>6. CASE Mark(c)
    BY <2>6 DEF Mark, Goto, CutOthers
  <2>7. CASE Send(c)
    <3>1. /\ pc[c] = "send" /\ \E l \in Answers : pc' = [pc EXCEPT ![c] = l]
          /\ UNCHANGED <<scheme, cred, live, op, verb, relogged, sid>>
      BY <2>7 DEF Send, Goto
    <3>2. pc'[c] = "login page" => cred \notin live /\ cut' = cut
      BY <2>7 DEF Send, Goto, Serve
    <3>3. pc'[c] = "data" => cred \in live
      BY <2>7 DEF Send, Goto
    <3>4. cut' = cut \/ cred \in live
      BY <2>7 DEF Send, Serve
    <3>5. Proven(c) <=> Proven(c)'
      BY <3>1
    <3>6. Sure(c) => Sure(c)'
      BY <3>1, <3>4
    <3>7. pc'[c] \in Answers
      BY <3>1
    <3> QED
      BY <3>1, <3>2, <3>3, <3>5, <3>6, <3>7
  <2>8. CASE Repeat(c)
    BY <2>8 DEF Repeat, Repeatable
  <2>9. CASE GiveUp(c)
    BY <2>9 DEF GiveUp, Return
  <2>10. CASE Served(c)
    <3>1. CASE op[c] = "update" /\ verb[c] = "GET"
      <4>1. pc'[c] = "ensure" /\ verb'[c] = "POST" /\ Sure(c)
        BY <2>10, <3>1 DEF Served, Goto
      <4>2. UNCHANGED <<cut, cred, live>>
        BY <2>10 DEF Served
      <4> QED
        BY <4>1, <4>2
    <3>2. CASE ~(op[c] = "update" /\ verb[c] = "GET")
      <4>1. pc'[c] = "idle"
        BY <2>10, <3>2 DEF Served, Return
      <4> QED
        BY <4>1
    <3> QED
      BY <3>1, <3>2
  <2>11. CASE LogInAgain(c)
    BY <2>11 DEF LogInAgain, SessionLost
  <2>12. CASE LoggedOut(c)
    BY <2>12 DEF LoggedOut, Return, Verdict, SessionLost
  <2> QED
    BY <1>1, <2>1, <2>2, <2>3, <2>4, <2>5, <2>6, <2>7, <2>8, <2>9, <2>10,
       <2>11, <2>12 DEF Step
<1>2. ASSUME NEW c \in Callers, Step(c), NEW d \in Callers, d # c PROVE Stands(d)'
  <2>1. /\ pc'[d] = pc[d] /\ op'[d] = op[d] /\ verb'[d] = verb[d] /\ sid'[d] = sid[d]
        /\ scheme' = scheme /\ live \subseteq live'
    BY <1>2, OthersStay
  <2>2. /\ relogged'[d] = relogged[d]
        /\ cut[d] => cut'[d]
        /\ cred' = cred \/ cut'[d] \/ pc[d] = "idle"
    BY <1>2, OthersCut
  <2>3. Sure(d) /\ pc[d] # "idle" => Sure(d)'
    BY <2>1, <2>2 DEF Sure
  <2>4. Proven(d)' <=> Proven(d)
    BY <2>1, <2>2 DEF Proven
  <2> QED
    BY <2>1, <2>2, <2>3, <2>4 DEF Stands, StandsInv
<1>3. ASSUME NEW c \in Callers, NEW k \in Kinds, Begin(c, k), NEW d \in Callers
      PROVE  Stands(d)'
  <2>1. UNCHANGED <<scheme, cred, live, relogged, sid>>
    BY <1>3 DEF Begin, clientVars, switchVars
  <2>2. CASE d = c
    <3>1. /\ pc'[d] = "ensure" /\ op'[d] = k
          /\ verb'[d] = IF k = "upload" THEN "POST" ELSE "GET"
      BY <1>3, <2>2 DEF Begin, TypeOK, CallsOK
    <3> QED
      BY <3>1 DEF Stands
  <2>3. CASE d # c
    <3>1. pc'[d] = pc[d] /\ op'[d] = op[d] /\ verb'[d] = verb[d] /\ cut'[d] = cut[d]
      BY <1>3, <2>3 DEF Begin, TypeOK, CallsOK, FlagsOK
    <3> QED
      BY <2>1, <3>1 DEF Stands, StandsInv, Sure, Proven
  <2> QED
    BY <2>2, <2>3
<1>4. ASSUME Expire, NEW d \in Callers PROVE Stands(d)'
  <2>1. /\ UNCHANGED <<scheme, cred, op, verb, pc, relogged, sid>>
        /\ pc[d] # "idle" => cut'[d]
    BY <1>4 DEF Expire, TypeOK, FlagsOK, clientVars, callVars
  <2>2. pc[d] = "idle" => pc'[d] = "idle"
    BY <2>1
  <2> QED
    BY <2>1, <2>2 DEF Stands, Sure, Proven
<1>5. CASE UNCHANGED vars
  BY <1>5 DEF vars, StandsInv, TypeOK, FlagsOK, CallsOK, SessionsOK, Sessions, Answers,
        Kinds, clientVars, switchVars, callVars, CallFits, CallFitsInv, Relogin,
        ReloginInv, FormFlagInv, LoginPhases, FormFlag, Stands, StandsInv, Sure, Proven
<1> QED
  BY <1>1, <1>2, <1>3, <1>4, <1>5 DEF Next, StandsInv

\* A step keeps Explained: validateResponse and PostForm give their verdict on a
\* login page, and a call that gets one was cut off.
LEMMA ExplainedPreserved ==
    ASSUME TypeOK, AppliedInv, CallFitsInv, StandsInv, ExplainedInv, [Next]_vars
    PROVE  ExplainedInv'
<1>1. ASSUME NEW c \in Callers, Step(c) PROVE Explained(c)'
  <2>0. Applied(c) /\ CallFits(c) /\ Stands(c) /\ Explained(c)
    BY <1>1 DEF AppliedInv, CallFitsInv, StandsInv, ExplainedInv
  <2> USE <2>0 DEF TypeOK, FlagsOK, CallsOK, Answers, Kinds, clientVars, switchVars, callVars,
        Applied, CallFits, Stands, Explained, Proven
  <2>1. CASE Ensure(c)
    BY <2>1 DEF Ensure, Goto
  <2>2. CASE LoginPage(c)
    BY <2>2 DEF LoginPage, Goto, Return, CutOthers
  <2>3. CASE Accepted(c)
    BY <2>3 DEF Accepted, Goto, CutOthers
  <2>4. CASE Refused(c)
    BY <2>4 DEF Refused, Goto, Return
  <2>5. CASE Adopt(c)
    BY <2>5 DEF Adopt, Goto, CutOthers
  <2>6. CASE Mark(c)
    BY <2>6 DEF Mark, Goto, CutOthers
  <2>7. CASE Send(c)
    BY <2>7 DEF Send, Serve, Goto
  <2>8. CASE Repeat(c)
    BY <2>8 DEF Repeat, Repeatable
  <2>9. CASE GiveUp(c)
    BY <2>9 DEF GiveUp, Return
  <2>10. CASE Served(c)
    <3>1. CASE op[c] = "update" /\ verb[c] = "GET"
      BY <2>10, <3>1 DEF Served, Goto
    <3>2. CASE ~(op[c] = "update" /\ verb[c] = "GET")
      <4>1. /\ pc[c] = "data" /\ result'[c] = "ok"
            /\ UNCHANGED <<scheme, op, verb, applied>>
        BY <2>10, <3>2 DEF Served, Return
      <4>2. op[c] # "read" => verb[c] = "POST"
        BY <3>2
      <4>3. op[c] # "read" => applied[c] = 1
        BY <4>1, <4>2
      <4>4. result'[c] = "ok" /\ op'[c] = op[c] /\ applied'[c] = applied[c]
        BY <4>1
      <4>5. op'[c] # "read" => applied'[c] # 0
        BY ONLY <4>3, <4>4
      <4> QED
        BY <4>4, <4>5
    <3> QED
      BY <3>1, <3>2
  <2>11. CASE LogInAgain(c)
    BY <2>11 DEF LogInAgain, SessionLost
  <2>12. CASE LoggedOut(c)
    BY <2>12 DEF LoggedOut, Return, Verdict, SessionLost
  <2> QED
    BY <1>1, <2>1, <2>2, <2>3, <2>4, <2>5, <2>6, <2>7, <2>8, <2>9, <2>10,
       <2>11, <2>12 DEF Step
<1>2. ASSUME NEW c \in Callers, Step(c), NEW d \in Callers, d # c PROVE Explained(d)'
  <2>1. /\ result'[d] = result[d] /\ applied'[d] = applied[d] /\ op'[d] = op[d] /\ scheme' = scheme
    BY <1>2, OthersStay
  <2>2. cut[d] => cut'[d]
    BY <1>2, OthersCut
  <2> QED
    BY <2>1, <2>2 DEF Explained, ExplainedInv
<1>3. ASSUME NEW c \in Callers, NEW k \in Kinds, Begin(c, k) PROVE ExplainedInv'
  <2>1. /\ result' = [result EXCEPT ![c] = "none"] /\ cut' = [cut EXCEPT ![c] = FALSE]
        /\ op' = [op EXCEPT ![c] = k] /\ applied' = [applied EXCEPT ![c] = 0] /\ scheme' = scheme
    BY <1>3 DEF Begin
  <2>2. ASSUME NEW d \in Callers, d # c PROVE Explained(d)'
    BY <2>1, <2>2 DEF TypeOK, FlagsOK, CallsOK, CountsOK, Explained, ExplainedInv
  <2>3. result'[c] = "none"
    BY <2>1 DEF TypeOK, CallsOK
  <2> QED
    BY <2>2, <2>3 DEF Explained, ExplainedInv
<1>4. CASE Expire
  BY <1>4 DEF Expire, ExplainedInv, TypeOK, FlagsOK, CallsOK, Answers, Kinds, clientVars,
        switchVars, callVars, Applied, AppliedInv, CallFits, CallFitsInv, StandsInv,
        ExplainedInv, Stands, Explained, Proven
<1>5. CASE UNCHANGED vars
  BY <1>5 DEF vars, ExplainedInv, TypeOK, FlagsOK, CallsOK, Answers, Kinds, clientVars,
        switchVars, callVars, Applied, AppliedInv, CallFits, CallFitsInv, StandsInv,
        ExplainedInv, Stands, Explained, Proven
<1> QED
  BY <1>1, <1>2, <1>3, <1>4, <1>5 DEF Next, ExplainedInv

-----------------------------------------------------------------------------
(* The theorems. *)

\* The inductive invariant holds of every reachable state.
LEMMA Inductive == Spec => []IInv
<1>1. Init => IInv
  <2> SUFFICES ASSUME Init PROVE IInv
    OBVIOUS
  <2>1. TypeOK
    BY InitTyped
  <2>2. CallFitsInv /\ AppliedInv /\ SentOnceInv
    BY DEF Init, CallFits, CallFitsInv, Applied, AppliedInv, SentOnce, SentOnceInv
  <2>3. ReloginInv /\ FormFlagInv /\ StandsInv /\ ExplainedInv
    BY DEF Init, Relogin, ReloginInv, FormFlag, FormFlagInv, Answers, Stands, StandsInv,
           Explained, ExplainedInv
  <2> QED
    BY <2>1, <2>2, <2>3 DEF IInv
<1>2. IInv /\ [Next]_vars => IInv'
  BY TypePreserved, CallFitsPreserved, AppliedPreserved, SentOncePreserved, ReloginPreserved,
     FormFlagPreserved, StandsPreserved, ExplainedPreserved DEF IInv
<1> QED
  BY <1>1, <1>2, PTL DEF Spec

\* A write takes effect at most once per call, not at all when the call reports the
\* session lost, and exactly once when a GoAhead write succeeds (postOnce, PostXML).
THEOREM WritesSentOnce == Spec => []WriteSentOnce
<1>1. IInv => WriteSentOnce
  BY DEF IInv, AppliedInv, Applied, SentOnceInv, SentOnce, WriteSentOnce
<1> QED
  BY <1>1, Inductive, PTL

\* A GoAhead call with proof of a session reports it lost only when it was ended or
\* replaced since (GetPage, PostXML).
THEOREM AuthExplained == Spec => []AuthNeedsCause
<1>1. IInv => AuthNeedsCause
  BY DEF IInv, ExplainedInv, Explained, AuthNeedsCause
<1> QED
  BY <1>1, Inductive, PTL

\* The only write that reports success without effect is a form write whose session
\* went away between its read and its POST (PostForm).
THEOREM SilentWriteExplained == Spec => []SilentWriteNeedsLoss
<1>1. IInv => SilentWriteNeedsLoss
  BY DEF IInv, ExplainedInv, Explained, SilentWriteNeedsLoss
<1> QED
  BY <1>1, Inductive, PTL

================================================================================
