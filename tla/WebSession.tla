------------------------------- MODULE WebSession -------------------------------
(***************************************************************************)
(* The web UI client (webui/client.go): one HTTPClient that every call of a *)
(* Switch shares.  It logs in when its loggedIn flag is down, carries the   *)
(* session in a cookie jar or a token, repeats a GET whose connection was   *)
(* dropped, and logs in again when a GoAhead read is answered with the      *)
(* "unauthenticated" status.  A write is sent once, whatever comes back.    *)
(*                                                                          *)
(* Flag, jar and token are locked one by one, never together: a login and   *)
(* the requests of other goroutines interleave between their steps.  The    *)
(* switch keeps sessions and may end them at any time.  It serves a request *)
(* in the step that reads the jar to send it: what other goroutines do to   *)
(* the client in between does not reach the switch.                         *)
(***************************************************************************)
EXTENDS Naturals

CONSTANTS
    Callers,
    Schemes,         \* the LoginScheme families tried: "xml", "cookie", "token"
    Retries,         \* droppedConnectionRetries
    MaxCalls,        \* bound: calls of all callers
    MaxLosses,       \* bound: times the switch ends its sessions
    None

ASSUME WebAssumption ==
    /\ Schemes \subseteq {"xml", "cookie", "token"} /\ Schemes # {}
    /\ Retries \in Nat /\ MaxCalls \in Nat /\ MaxLosses \in Nat
    /\ None \notin Nat

\* GetPage; GetPage then PostForm or PostXML (a write of writer.go that does
\* not read back); PostMultipart or PostXML alone (UploadCertificate).
Kinds == {"read", "update", "upload"}

\* What a request may come back with.
Answers == {"data", "login page", "dropped", "error"}

VARIABLES
    scheme,      \* spec.Scheme
    loggedIn,    \* HTTPClient.loggedIn
    cred,        \* the session cookie in the jar, or the token; None without one
    live,        \* the sessions the switch honours
    minted,      \* sessions made so far
    losses,      \* times the switch has ended its sessions
    calls,
    op,          \* each caller's latest call
    verb,        \* the request it is at: "GET" or "POST"
    pc,
    attempt,     \* getWithRetry's attempt
    relogged,    \* GetPage has logged in again in this call
    sid,         \* the session the caller's login obtained, not yet in the jar
    result,
    applied,     \* history: times the call's write took effect
    cut          \* history: since the call's own latest proof of a session, the
                 \* switch ended its sessions or another call changed the jar

clientVars == <<loggedIn, cred>>
switchVars == <<live, minted, losses>>
callVars == <<calls, op, verb, attempt, relogged, sid, result>>
vars == <<scheme, clientVars, switchVars, callVars, pc, applied, cut>>

Sessions == 1..minted

FlagsOK ==
    /\ loggedIn \in BOOLEAN
    /\ relogged \in [Callers -> BOOLEAN] /\ cut \in [Callers -> BOOLEAN]

SessionsOK ==
    /\ scheme \in Schemes
    /\ minted \in Nat /\ losses \in 0..MaxLosses
    /\ live \subseteq Sessions /\ cred \in Sessions \union {None}
    /\ sid \in [Callers -> Sessions \union {None}]

CountsOK ==
    /\ calls \in 0..MaxCalls
    /\ attempt \in [Callers -> 0..Retries]
    /\ applied \in [Callers -> Nat]

CallsOK ==
    /\ op \in [Callers -> Kinds]
    /\ verb \in [Callers -> {"GET", "POST"}]
    /\ pc \in [Callers -> {"idle", "ensure", "login", "authenticate", "adopt", "mark",
                           "send"} \union Answers]
    /\ result \in [Callers -> {"none", "ok", "auth", "refused", "failed"}]

TypeOK == FlagsOK /\ SessionsOK /\ CountsOK /\ CallsOK

Init ==
    /\ scheme \in Schemes
    /\ loggedIn = FALSE /\ cred = None
    /\ live = {} /\ minted = 0 /\ losses = 0 /\ calls = 0
    /\ op = [c \in Callers |-> "read"]
    /\ verb = [c \in Callers |-> "GET"]
    /\ pc = [c \in Callers |-> "idle"]
    /\ attempt = [c \in Callers |-> 0]
    /\ relogged = [c \in Callers |-> FALSE]
    /\ sid = [c \in Callers |-> None]
    /\ result = [c \in Callers |-> "none"]
    /\ applied = [c \in Callers |-> 0]
    /\ cut = [c \in Callers |-> FALSE]

-----------------------------------------------------------------------------
(* A call, and the login it may need. *)

Begin(c, k) ==
    /\ pc[c] = "idle" /\ calls < MaxCalls
    /\ calls' = calls + 1
    /\ op' = [op EXCEPT ![c] = k]
    /\ verb' = [verb EXCEPT ![c] = IF k = "upload" THEN "POST" ELSE "GET"]
    /\ pc' = [pc EXCEPT ![c] = "ensure"]
    /\ result' = [result EXCEPT ![c] = "none"]
    /\ applied' = [applied EXCEPT ![c] = 0]
    /\ cut' = [cut EXCEPT ![c] = FALSE]
    /\ UNCHANGED <<scheme, clientVars, switchVars, attempt, relogged, sid>>

Goto(c, l) == pc' = [pc EXCEPT ![c] = l] /\ UNCHANGED <<attempt, relogged, result>>

Return(c, r) ==
    /\ pc' = [pc EXCEPT ![c] = "idle"]
    /\ attempt' = [attempt EXCEPT ![c] = 0]
    /\ relogged' = [relogged EXCEPT ![c] = FALSE]
    /\ result' = [result EXCEPT ![c] = r]

\* ensureLoggedIn: the flag decides, not the session.
Ensure(c) ==
    /\ pc[c] = "ensure"
    /\ Goto(c, IF loggedIn THEN "send" ELSE "login")
    /\ UNCHANGED <<scheme, clientVars, switchVars, calls, op, verb, sid, applied, cut>>

CutOthers(c) == [d \in Callers |-> (d = c /\ cut[d]) \/ (d # c /\ pc[d] # "idle") \/ cut[d]]

\* The login page: a GoAhead login first deletes the cookies it finds.
LoginPage(c) ==
    /\ pc[c] = "login"
    /\ IF scheme = "xml"
       THEN cred' = None /\ cut' = [CutOthers(c) EXCEPT ![c] = FALSE]
       ELSE UNCHANGED <<cred, cut>>
    /\ Goto(c, "authenticate") \/ Return(c, "failed")
    /\ UNCHANGED <<scheme, loggedIn, switchVars, calls, op, verb, sid, applied>>

\* The switch accepts the password: a Set-Cookie goes straight into the jar.
Accepted(c) ==
    /\ pc[c] = "authenticate"
    /\ minted' = minted + 1
    /\ live' = live \union {minted + 1}
    /\ sid' = [sid EXCEPT ![c] = minted + 1]
    /\ IF scheme = "cookie"
       THEN cred' = minted + 1 /\ cut' = [CutOthers(c) EXCEPT ![c] = FALSE]
       ELSE UNCHANGED <<cred, cut>>
    /\ Goto(c, IF scheme = "xml" THEN "adopt" ELSE "mark")
    /\ UNCHANGED <<scheme, loggedIn, losses, calls, op, verb, applied>>

\* It refuses it (locked out), or the exchange fails.  A refused cookie login
\* only looks whether the jar holds a cookie, one of another login included.
Refused(c) ==
    /\ pc[c] = "authenticate"
    /\ \/ scheme = "cookie" /\ cred # None /\ Goto(c, "mark")
       \/ ~(scheme = "cookie" /\ cred # None) /\ Return(c, "refused")
       \/ Return(c, "failed")
    /\ UNCHANGED <<scheme, clientVars, switchVars, calls, op, verb, sid, applied, cut>>

\* loginXMLAPI puts the session into the jar itself, then marks the client.
Adopt(c) ==
    /\ pc[c] = "adopt"
    /\ cred' = sid[c]
    /\ cut' = CutOthers(c)
    /\ Goto(c, "mark")
    /\ UNCHANGED <<scheme, loggedIn, switchVars, calls, op, verb, sid, applied>>

\* setLoggedIn, which also stores the token of a token login.
Mark(c) ==
    /\ pc[c] = "mark"
    /\ loggedIn' = TRUE
    /\ IF scheme = "token"
       THEN cred' = sid[c] /\ cut' = [CutOthers(c) EXCEPT ![c] = sid[c] \notin live]
       ELSE UNCHANGED <<cred, cut>>
    /\ sid' = [sid EXCEPT ![c] = None]
    /\ Goto(c, "send")
    /\ UNCHANGED <<scheme, switchVars, calls, op, verb, applied>>

-----------------------------------------------------------------------------
(* Requests. *)

\* What the switch does with the request: serves it, or shows its login page.
Serve(c) ==
    IF cred \in live
    THEN /\ applied' = IF verb[c] = "POST" THEN [applied EXCEPT ![c] = @ + 1] ELSE applied
         /\ cut' = IF verb[c] = "GET" THEN [cut EXCEPT ![c] = FALSE] ELSE cut
    ELSE UNCHANGED <<applied, cut>>

\* attemptGet and postOnce: the request may be lost, or the answer to it.
Send(c) ==
    /\ pc[c] = "send"
    /\ \/ Serve(c) /\ Goto(c, IF cred \in live THEN "data" ELSE "login page")
       \/ Serve(c) /\ \E a \in {"dropped", "error"} : Goto(c, a)
       \/ UNCHANGED <<applied, cut>> /\ \E a \in {"dropped", "error"} : Goto(c, a)
    /\ UNCHANGED <<scheme, clientVars, switchVars, calls, op, verb, sid>>

\* Faulty Repeatable: repeats a write whose connection was dropped.
RepeatsWrites(c) == attempt[c] < Retries

\* Faulty Repeatable: one attempt more than the limit.
RepeatsOnceMore(c) == verb[c] = "GET" /\ attempt[c] <= Retries

\* getWithRetry repeats a GET; a POST is never sent again.
Repeatable(c) == verb[c] = "GET" /\ attempt[c] < Retries

Repeat(c) ==
    /\ pc[c] = "dropped" /\ Repeatable(c)
    /\ attempt' = [attempt EXCEPT ![c] = @ + 1]
    /\ pc' = [pc EXCEPT ![c] = "send"]
    /\ UNCHANGED <<scheme, clientVars, switchVars, calls, op, verb, relogged, sid, result,
                   applied, cut>>

GiveUp(c) ==
    /\ pc[c] = "error" \/ (pc[c] = "dropped" /\ ~Repeatable(c))
    /\ Return(c, "failed")
    /\ UNCHANGED <<scheme, clientVars, switchVars, calls, op, verb, sid, applied, cut>>

\* A served request ends the call, or leads from the read to the write.
Served(c) ==
    /\ pc[c] = "data"
    /\ IF op[c] = "update" /\ verb[c] = "GET"
       THEN verb' = [verb EXCEPT ![c] = "POST"] /\ Goto(c, "ensure")
       ELSE Return(c, "ok") /\ UNCHANGED verb
    /\ UNCHANGED <<scheme, clientVars, switchVars, calls, op, sid, applied, cut>>

\* Faulty SessionLost: a read that finds its session ended is not repeated.
NeverAgain(c) == FALSE

\* xmlAPISessionLost on a read that has not logged in again yet.
SessionLost(c) == scheme = "xml" /\ verb[c] = "GET" /\ ~relogged[c]

\* GetPage logs in again, whatever session the client has by now.
LogInAgain(c) ==
    /\ pc[c] = "login page" /\ SessionLost(c)
    /\ loggedIn' = FALSE
    /\ relogged' = [relogged EXCEPT ![c] = TRUE]
    /\ attempt' = [attempt EXCEPT ![c] = 0]
    /\ pc' = [pc EXCEPT ![c] = "login"]
    /\ UNCHANGED <<scheme, cred, switchVars, calls, op, verb, sid, result, applied, cut>>

\* Faulty Verdict: an unauthenticated answer to a write passes for success.
TrustsPosts(c) == IF verb[c] = "POST" THEN "ok" ELSE "auth"

\* What any other answer from the login page comes to.  PostForm does not look
\* for it; checkMultipartCertResponse misses its success marker.
Verdict(c) ==
    IF verb[c] = "GET" \/ scheme = "xml" THEN "auth"
    ELSE IF op[c] = "upload" THEN "failed"
    ELSE "ok"

LoggedOut(c) ==
    /\ pc[c] = "login page" /\ ~SessionLost(c)
    /\ Return(c, Verdict(c))
    /\ UNCHANGED <<scheme, clientVars, switchVars, calls, op, verb, sid, applied, cut>>

\* The switch ends its sessions: an idle timeout, a reboot.
Expire ==
    /\ losses < MaxLosses /\ live # {}
    /\ losses' = losses + 1
    /\ live' = {}
    /\ cut' = [d \in Callers |-> cut[d] \/ pc[d] # "idle"]
    /\ UNCHANGED <<scheme, clientVars, minted, callVars, pc, applied>>

Step(c) ==
    \/ Ensure(c) \/ LoginPage(c) \/ Accepted(c) \/ Refused(c) \/ Adopt(c) \/ Mark(c)
    \/ Send(c) \/ Repeat(c) \/ GiveUp(c) \/ Served(c) \/ LogInAgain(c) \/ LoggedOut(c)

Next ==
    \/ \E c \in Callers : Step(c) \/ \E k \in Kinds : Begin(c, k)
    \/ Expire

Spec == Init /\ [][Next]_vars

-----------------------------------------------------------------------------

\* A write takes effect at most once per call, not at all when the call reports
\* the session lost, and exactly once when a GoAhead write reports success
\* (postOnce, PostXML: "this write was NOT re-sent").
WriteSentOnce ==
    \A c \in Callers :
        /\ applied[c] <= 1
        /\ result[c] = "auth" => applied[c] = 0
        /\ scheme = "xml" /\ result[c] = "ok" /\ op[c] # "read" => applied[c] = 1

\* A GoAhead call that logs in again, or reads before it writes, reports the
\* session lost only when the switch ended it, or another call's login replaced
\* it, after this call's own login or read (GetPage, PostXML).
AuthNeedsCause ==
    \A c \in Callers :
        scheme = "xml" /\ result[c] = "auth" /\ op[c] # "upload" => cut[c]

\* A write that reports success without having taken effect is a form write
\* whose session ended, or was replaced, between its read and its POST: the one
\* case PostForm cannot tell from success.
SilentWriteNeedsLoss ==
    \A c \in Callers :
        result[c] = "ok" /\ op[c] # "read" /\ applied[c] = 0
            => scheme # "xml" /\ op[c] = "update" /\ cut[c]

=============================================================================
