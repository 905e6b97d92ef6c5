------------------------------ MODULE NsdpClient ------------------------------
(***************************************************************************)
(* The NSDP transport (nsdp/client.go): UDPClient.Read and UDPClient.Write  *)
(* as called by several goroutines, the UDP datagrams between them and one  *)
(* switch, and the switch's own answers (virtual/nsdpface.go).              *)
(*                                                                          *)
(* A Write is up to three exchanges: the AUTH_V2_ENCPASS read that detects  *)
(* the authentication scheme, a fresh AUTH_V2_SALT read when the scheme is  *)
(* v2, and the authenticated WRITE_REQUEST.  An exchange opens a socket,    *)
(* sends one datagram, waits for one datagram until a deadline, and closes  *)
(* the socket.  Nothing compares the reply's sequence number or tags with   *)
(* the request's: only the op-code is checked.                              *)
(*                                                                          *)
(* A datagram may be lost, delayed past the exchange that sent it and       *)
(* reordered.  Which sockets a delayed reply can still reach depends on the *)
(* local port: every exchange binds the same port (63321) by default, so a  *)
(* late reply reaches any later or concurrent exchange (FixedPort = TRUE);  *)
(* with ClientPort 0 each exchange has a port of its own.                   *)
(***************************************************************************)
EXTENDS Naturals

CONSTANTS
    Callers,      \* goroutines calling Read and Write
    Clients,      \* UDPClient values
    ClientOf,     \* the UDPClient each caller uses
    AuthScheme,   \* each client's configured scheme: "auto", "v1" or "v2"
    GoodPassword, \* the callers whose password is the switch's
    DeviceScheme, \* the scheme the switch's firmware accepts: "v1" or "v2"
    FixedPort,    \* TRUE: ClientPort = 63321; FALSE: ClientPort = 0
    SeqMod,       \* the sequence counter's modulus (65536 in the code)
    MaxSeq,       \* bound: exchanges one client makes in a behaviour
    EscalateAt,   \* v2EscalateAt: failures answered "bad password"
    SilenceAt,    \* v2SilenceAt: failures answered at all
    NoSalt        \* the switch has issued no salt yet

\* An exchange is named by its client and its sequence number.
Ids == Clients \X Nat

ASSUME ClientAssumption ==
    /\ ClientOf \in [Callers -> Clients]
    /\ AuthScheme \in [Clients -> {"auto", "v1", "v2"}]
    /\ GoodPassword \subseteq Callers
    /\ DeviceScheme \in {"v1", "v2"}
    /\ FixedPort \in BOOLEAN
    /\ SeqMod \in Nat /\ MaxSeq \in Nat /\ MaxSeq < SeqMod
    /\ EscalateAt \in Nat /\ SilenceAt \in Nat /\ EscalateAt <= SilenceAt
    /\ NoSalt \notin Ids

VARIABLES
    sequence,       \* UDPClient.sequence
    resolvedScheme, \* UDPClient.resolvedScheme, "" before the first resolve
    waiting,        \* what each caller's open socket waits for, or "nothing"
    current,        \* the id of each caller's latest exchange
    token,          \* the salt the caller's latest v2 token was folded with
    outcome,        \* what each caller's latest call returned
    stray,          \* history: that result was read off another exchange's reply
    requests,       \* request datagrams on their way to the switch
    replies,        \* reply datagrams on their way back
    salt,           \* NsdpFace.salt: named by the exchange it was issued to
    authFailures,   \* NsdpFace.authFailures
    applied         \* the write exchanges whose TLVs the switch has applied

clientVars == <<sequence, resolvedScheme, waiting, current, token, outcome, stray>>
deviceVars == <<salt, authFailures, applied>>
vars == <<clientVars, requests, replies, deviceVars>>

Schemes == {"v1", "v2"}
Awaited == {"data", "encpass", "salt", "write"}
Results == {"success", "badPassword", "locked"}
Auth == [scheme : Schemes, good : BOOLEAN, salt : Ids \union {NoSalt}]

NoAuth == [scheme |-> "v1", good |-> FALSE, salt |-> NoSalt]

Request == [id : Ids, tag : Awaited, auth : Auth]
Reply == [id : Ids, tag : Awaited, result : Results]

TypeOK ==
    /\ sequence \in [Clients -> Nat]
    /\ resolvedScheme \in [Clients -> Schemes \union {""}]
    /\ waiting \in [Callers -> Awaited \union {"nothing"}]
    /\ current \in [Callers -> Ids]
    /\ token \in [Callers -> Ids \union {NoSalt}]
    /\ outcome \in [Callers -> {"none", "read", "written", "rejected", "failed"}]
    /\ stray \in [Callers -> BOOLEAN]
    /\ requests \subseteq Request
    /\ replies \subseteq Reply
    /\ salt \in Ids \union {NoSalt}
    /\ authFailures \in Nat
    /\ applied \subseteq Ids

Init ==
    /\ sequence = [k \in Clients |-> 0]
    /\ resolvedScheme = [k \in Clients |-> ""]
    /\ waiting = [c \in Callers |-> "nothing"]
    /\ current = [c \in Callers |-> <<ClientOf[c], 0>>]
    /\ token = [c \in Callers |-> NoSalt]
    /\ outcome = [c \in Callers |-> "none"]
    /\ stray = [c \in Callers |-> FALSE]
    /\ requests = {} /\ replies = {}
    /\ salt = NoSalt /\ authFailures = 0 /\ applied = {}

-----------------------------------------------------------------------------
(* The client. *)

\* nextSeq: pre-incremented under the client's lock, so the first id is 1.
NextSeq(k) == (sequence[k] + 1) % SeqMod

\* exchange, up to its recv: encode, open the socket, send.
Send(c, tag, auth) ==
    LET k == ClientOf[c] IN
    /\ sequence[k] < MaxSeq
    /\ sequence' = [sequence EXCEPT ![k] = NextSeq(k)]
    /\ current' = [current EXCEPT ![c] = <<k, NextSeq(k)>>]
    /\ waiting' = [waiting EXCEPT ![c] = tag]
    /\ stray' = [stray EXCEPT ![c] = FALSE]
    /\ requests' = requests \union {[id |-> <<k, NextSeq(k)>>, tag |-> tag, auth |-> auth]}

\* The call returns to its caller; the socket, if any, is closed.
Return(c, result) ==
    /\ waiting' = [waiting EXCEPT ![c] = "nothing"]
    /\ outcome' = [outcome EXCEPT ![c] = result]
    /\ UNCHANGED <<sequence, current, token, requests>>

\* Faulty buildAuthWrite: the token is folded with the last call's salt.
CachedSalt(c, scheme, issued) ==
    [scheme |-> scheme, good |-> c \in GoodPassword, salt |-> token[c]]

\* What the password TLV carries: AuthV2Password folds the password with the
\* salt just read, EncodePasswordV1 uses no salt.
Credential(c, scheme, issued) ==
    [scheme |-> scheme, good |-> c \in GoodPassword, salt |-> issued]

\* buildAuthWrite with a resolved scheme: v2 needs a fresh salt first, v1
\* sends the write with the XOR password at once.
BuildAuthWrite(c, scheme) ==
    /\ outcome' = [outcome EXCEPT ![c] = "none"]
    /\ token' = [token EXCEPT ![c] = NoSalt]
    /\ IF scheme = "v2"
       THEN Send(c, "salt", NoAuth)
       ELSE Send(c, "write", Credential(c, "v1", NoSalt))

\* Faulty EncpassIsV2: the comparison is inverted.
InvertedScheme(m) ==
    IF m.tag = "encpass" THEN CHOOSE s \in Schemes : s # DeviceScheme ELSE "v1"

\* EncpassIsV2 on the first ENCPASS TLV of the reply, v1 when it has none.
SchemeIn(m) == IF m.tag = "encpass" THEN DeviceScheme ELSE "v1"

\* Read: one exchange for configuration tags.
Read(c) ==
    /\ waiting[c] = "nothing"
    /\ Send(c, "data", NoAuth)
    /\ outcome' = [outcome EXCEPT ![c] = "none"]
    /\ UNCHANGED <<resolvedScheme, token, replies, deviceVars>>

\* Write with the scheme cached or forced: no ENCPASS read is made.
WriteResolved(c) ==
    LET k == ClientOf[c]
        scheme == IF resolvedScheme[k] # "" THEN resolvedScheme[k] ELSE AuthScheme[k]
    IN  /\ waiting[c] = "nothing"
        /\ scheme \in Schemes
        /\ resolvedScheme' = [resolvedScheme EXCEPT ![k] = scheme]
        /\ BuildAuthWrite(c, scheme)
        /\ UNCHANGED <<replies, deviceVars>>

\* Write with nothing cached and "auto": the lock is released before the
\* ENCPASS read, so another caller may find nothing cached as well.
WriteUnresolved(c) ==
    LET k == ClientOf[c] IN
    /\ waiting[c] = "nothing"
    /\ resolvedScheme[k] = "" /\ AuthScheme[k] = "auto"
    /\ Send(c, "encpass", NoAuth)
    /\ outcome' = [outcome EXCEPT ![c] = "none"]
    /\ token' = [token EXCEPT ![c] = NoSalt]
    /\ UNCHANGED <<resolvedScheme, replies, deviceVars>>

\* A reply datagram reaches the caller's socket when the ports match.
Reaches(m, c) ==
    /\ waiting[c] # "nothing"
    /\ FixedPort \/ m.id = current[c]

\* Read and Write compare the reply's op-code and nothing else.
ExpectedOp(m, c) == (m.tag = "write") <=> (waiting[c] = "write")

Take(m) == replies' = replies \ {m} /\ UNCHANGED deviceVars

ReceiveUnexpected(c, m) ==
    /\ Reaches(m, c) /\ ~ExpectedOp(m, c)
    /\ Take(m) /\ Return(c, "failed")
    /\ UNCHANGED <<resolvedScheme, stray>>

ReceiveData(c, m) ==
    /\ Reaches(m, c) /\ ExpectedOp(m, c) /\ waiting[c] = "data"
    /\ Take(m) /\ Return(c, "read")
    /\ UNCHANGED <<resolvedScheme, stray>>

\* resolveScheme after its read: cache the scheme and go on with the write.
ReceiveEncpass(c, m) ==
    /\ Reaches(m, c) /\ ExpectedOp(m, c) /\ waiting[c] = "encpass"
    /\ Take(m)
    /\ resolvedScheme' = [resolvedScheme EXCEPT ![ClientOf[c]] = SchemeIn(m)]
    /\ BuildAuthWrite(c, SchemeIn(m))

\* The token is folded with the salt of the reply: the one issued to m.id.
ReceiveSalt(c, m) ==
    /\ Reaches(m, c) /\ ExpectedOp(m, c) /\ waiting[c] = "salt"
    /\ m.tag = "salt"
    /\ Take(m)
    /\ token' = [token EXCEPT ![c] = m.id]
    /\ Send(c, "write", Credential(c, "v2", m.id))
    /\ UNCHANGED <<resolvedScheme, outcome>>

\* "advertised v2 auth but returned no AUTH_V2_SALT".
ReceiveNoSalt(c, m) ==
    /\ Reaches(m, c) /\ ExpectedOp(m, c) /\ waiting[c] = "salt"
    /\ m.tag # "salt"
    /\ Take(m) /\ Return(c, "failed")
    /\ UNCHANGED <<resolvedScheme, stray>>

\* Faulty CheckResult: the result byte is handed on, or never looked at.
RawResult(m) == m.result
AnyResponse(m) == "written"

\* CheckResult on the WRITE_RESPONSE.
CheckResult(m) == IF m.result = "success" THEN "written" ELSE "rejected"

ReceiveWritten(c, m) ==
    /\ Reaches(m, c) /\ ExpectedOp(m, c) /\ waiting[c] = "write"
    /\ Take(m) /\ Return(c, CheckResult(m))
    /\ stray' = [stray EXCEPT ![c] = m.id # current[c]]
    /\ UNCHANGED resolvedScheme

Receive(c) ==
    \E m \in replies :
        \/ ReceiveUnexpected(c, m) \/ ReceiveData(c, m) \/ ReceiveEncpass(c, m)
        \/ ReceiveSalt(c, m) \/ ReceiveNoSalt(c, m) \/ ReceiveWritten(c, m)

\* recv fails: the read deadline min(Timeout, ctx deadline), or a socket error.
Timeout(c) ==
    /\ waiting[c] # "nothing"
    /\ Return(c, "failed")
    /\ UNCHANGED <<resolvedScheme, stray, replies, deviceVars>>

-----------------------------------------------------------------------------
(* The network and the switch. *)

Lose ==
    /\ \/ \E m \in requests : requests' = requests \ {m} /\ UNCHANGED replies
       \/ \E m \in replies : replies' = replies \ {m} /\ UNCHANGED requests
    /\ UNCHANGED <<clientVars, deviceVars>>

Answer(m, result) ==
    /\ requests' = requests \ {m}
    /\ replies' = replies \union {[id |-> m.id, tag |-> m.tag, result |-> result]}
    /\ UNCHANGED clientVars

\* readResponse: a salt read rotates the challenge.
DeviceRead(m) ==
    /\ m.tag # "write"
    /\ Answer(m, "success")
    /\ salt' = IF m.tag = "salt" THEN m.id ELSE salt
    /\ UNCHANGED <<authFailures, applied>>

\* The credential check of writeResponse: the v2 token must be folded with
\* the right password and the salt issued last.
Authentic(auth) ==
    /\ auth.scheme = DeviceScheme
    /\ auth.good
    /\ DeviceScheme = "v2" => salt # NoSalt /\ auth.salt = salt

Silent == DeviceScheme = "v2" /\ authFailures > SilenceAt

DeviceWrite(m) ==
    /\ m.tag = "write" /\ ~Silent
    /\ Authentic(m.auth)
    /\ Answer(m, "success")
    /\ applied' = applied \union {m.id}
    /\ authFailures' = 0
    /\ UNCHANGED salt

\* Only the v2 path counts failures.
Failures == IF DeviceScheme = "v2" THEN authFailures + 1 ELSE authFailures

DeviceReject(m) ==
    /\ m.tag = "write" /\ ~Silent
    /\ ~Authentic(m.auth)
    /\ authFailures' = Failures
    /\ Answer(m, IF DeviceScheme = "v2" /\ Failures > EscalateAt THEN "locked" ELSE "badPassword")
    /\ UNCHANGED <<salt, applied>>

\* Past the silence threshold a write gets no reply at all.
DeviceIgnore(m) ==
    /\ m.tag = "write" /\ Silent
    /\ requests' = requests \ {m}
    /\ UNCHANGED <<clientVars, replies, deviceVars>>

Device ==
    \E m \in requests :
        DeviceRead(m) \/ DeviceWrite(m) \/ DeviceReject(m) \/ DeviceIgnore(m)

-----------------------------------------------------------------------------
Call(c) == Read(c) \/ WriteResolved(c) \/ WriteUnresolved(c)

Next ==
    \/ \E c \in Callers : Call(c) \/ Receive(c) \/ Timeout(c)
    \/ Device
    \/ Lose

Spec == Init /\ [][Next]_vars

-----------------------------------------------------------------------------
(* Properties. *)

\* The comment on Write (client.go:388-395): a stray datagram "must not
\* silently pass as a successful write", so success means that the write of
\* this call was applied.  Only the op-code keeps a stray out, and a late
\* WRITE_RESPONSE has the right one.
WriteOkApplied ==
    \A c \in Callers : outcome[c] = "written" => current[c] \in applied

\* The comment on AuthV2Unsupported (auth.go:16-18): v1 is what an "auto"
\* client speaks only to a switch that wants it, so the error "fires ONLY when
\* a caller has explicitly FORCED v1".
V1OnlyWhenForced ==
    \A k \in Clients :
        resolvedScheme[k] \in Schemes \ {DeviceScheme} => AuthScheme[k] # "auto"

\* resolveScheme (client.go:431): whatever two calls that resolve at once do to
\* the cache, an "auto" client takes up the scheme the switch does not want
\* only by reading v1 out of another exchange's read response.
WrongSchemeFromStray ==
    [][\A k \in Clients :
        /\ AuthScheme[k] = "auto"
        /\ resolvedScheme'[k] # resolvedScheme[k]
        /\ resolvedScheme'[k] # DeviceScheme
        => /\ resolvedScheme'[k] = "v1"
           /\ \E c \in Callers : \E m \in replies \ replies' :
                /\ ClientOf[c] = k /\ waiting[c] = "encpass"
                /\ m.id # current[c] /\ m.tag \in {"data", "salt"}]_vars

\* The credential of the caller's latest write is of the other scheme.
OtherScheme(c) == (token[c] = NoSalt) <=> (DeviceScheme = "v2")

\* buildAuthWrite (client.go:465) reads a fresh salt for every v2 write, so a
\* caller with the right password is turned away only when the scheme was
\* wrong, when the switch has issued a salt to another exchange since the one
\* in this write's token, or when the rejection was another write's.
RejectionHasCause ==
    \A c \in GoodPassword :
        outcome[c] = "rejected" =>
            \/ stray[c]
            \/ OtherScheme(c)
            \/ DeviceScheme = "v2" /\ salt # token[c]

\* The client keeps the promise of WriteCalls: each WRITE_REQUEST (client.go:395)
\* is applied at most once, and each success reported is the acknowledgement
\* of one applied write and of no other success: of the call's own write when
\* each exchange has a port of its own, of any write on the default port.
Reported(o) == IF o \in {"none", "written"} THEN o ELSE "other"

Promise == INSTANCE WriteCalls WITH
    OwnAnswers <- ~FixedPort,
    busy <- {c \in Callers : waiting[c] # "nothing"},
    attempt <- current,
    inTransit <- {m.id : m \in {r \in requests : r.tag = "write"}},
    acks <- {m.id : m \in {r \in replies : r.tag = "write" /\ r.result = "success"}},
    result <- [c \in Callers |-> Reported(outcome[c])]

KeepsPromise == Promise!Spec

=============================================================================
