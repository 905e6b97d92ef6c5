------------------------------ MODULE Nsdp_proofs ------------------------------
(***************************************************************************)
(* What NsdpClient and NsdpWriter do for every value of their constants.    *)
(*                                                                          *)
(* NsdpClient, on the default port and on ports of their own alike: type    *)
(* correctness, and                                                         *)
(*   - an "auto" client takes up the scheme the switch does not want only   *)
(*     from another exchange's reply (IInv);                                *)
(*   - the client implements WriteCalls (DatagramInv: ids are used once, a  *)
(*     request is answered once);                                           *)
(*   - a refusal of the right password has one of three causes (AuthInv).   *)
(*                                                                          *)
(* NsdpWriter (WriterInv): type correctness; the verdict of a write is      *)
(* true; a write nothing has come before leaves every other membership      *)
(* alone.                                                                   *)
(***************************************************************************)
EXTENDS NsdpClient, NsdpWriter, TLAPS

\* A sequence number nextSeq has handed out.
Issued(i) == i[2] <= sequence[i[1]]

\* Every id in use was handed out, so the next one is new.
IdsIssued ==
    /\ \A c \in Callers : Issued(current[c])
    /\ \A m \in requests \union replies : Issued(m.id)

\* A datagram of the exchange a socket waits for carries the tag it waits for.
TagsAgree ==
    \A m \in requests \union replies : \A c \in Callers :
        m.id = current[c] /\ waiting[c] # "nothing" => m.tag = waiting[c]

\* The switch says success only after applying.
SuccessApplied ==
    \A m \in replies : m.tag = "write" /\ m.result = "success" => m.id \in applied

\* A call in progress has reported nothing yet.
BusyIsSilent == \A c \in Callers : waiting[c] # "nothing" => outcome[c] = "none"

\* The first layer of the inductive invariant.
IInv == TypeOK /\ IdsIssued /\ TagsAgree /\ SuccessApplied /\ BusyIsSilent

-----------------------------------------------------------------------------
(* Type correctness. *)

\* nextSeq (client.go:300): below the bound the counter does not wrap.
LEMMA NextSeqIsNext ==
    ASSUME TypeOK, NEW k \in Clients, sequence[k] < MaxSeq
    PROVE  NextSeq(k) = sequence[k] + 1 /\ NextSeq(k) \in Nat
<1>1. MaxSeq \in Nat /\ SeqMod \in Nat /\ MaxSeq < SeqMod
  BY ClientAssumption DEF ClientAssumption
<1>2. sequence[k] \in Nat
  BY DEF TypeOK
<1>3. \A n, m \in Nat : n < m => n % m = n
  OBVIOUS
<1> QED
  BY <1>1, <1>2, <1>3 DEF NextSeq

\* exchange (client.go:338) sends one well-formed datagram.
LEMMA SendType ==
    ASSUME TypeOK, NEW c \in Callers, NEW tag \in Awaited, NEW auth \in Auth,
           Send(c, tag, auth)
    PROVE  /\ sequence' \in [Clients -> Nat]
           /\ waiting' \in [Callers -> Awaited \union {"nothing"}]
           /\ current' \in [Callers -> Ids]
           /\ stray' \in [Callers -> BOOLEAN]
           /\ requests' \subseteq Request
<1> DEFINE k == ClientOf[c]
<1>1. k \in Clients
  BY ClientAssumption DEF ClientAssumption
<1>2. NextSeq(k) \in Nat
  BY <1>1, NextSeqIsNext DEF Send
<1>3. <<k, NextSeq(k)>> \in Ids
  BY <1>1, <1>2 DEF Ids
<1>4. [id |-> <<k, NextSeq(k)>>, tag |-> tag, auth |-> auth] \in Request
  BY <1>3 DEF Request
<1> QED
  BY <1>1, <1>2, <1>3, <1>4 DEF TypeOK, Send

\* CheckResult, a deadline and a mismatched op-code all return an outcome.
LEMMA ReturnType ==
    ASSUME TypeOK, NEW c \in Callers, NEW said \in {"read", "written", "rejected", "failed"},
           Return(c, said)
    PROVE  /\ sequence' \in [Clients -> Nat]
           /\ waiting' \in [Callers -> Awaited \union {"nothing"}]
           /\ current' \in [Callers -> Ids]
           /\ token' \in [Callers -> Ids \union {NoSalt}]
           /\ outcome' \in [Callers -> {"none", "read", "written", "rejected", "failed"}]
           /\ requests' \subseteq Request
BY DEF TypeOK, Return

\* What a datagram carries before and after authentication.
LEMMA AuthType ==
    ASSUME NEW c \in Callers, NEW scheme \in Schemes, NEW issued \in Ids \union {NoSalt}
    PROVE  NoAuth \in Auth /\ Credential(c, scheme, issued) \in Auth
BY DEF NoAuth, Credential, Auth, Schemes

\* buildAuthWrite (client.go:465) leaves a well-typed client.
LEMMA BuildType ==
    ASSUME TypeOK, NEW c \in Callers, NEW scheme \in Schemes, BuildAuthWrite(c, scheme)
    PROVE  /\ sequence' \in [Clients -> Nat]
           /\ waiting' \in [Callers -> Awaited \union {"nothing"}]
           /\ current' \in [Callers -> Ids]
           /\ token' \in [Callers -> Ids \union {NoSalt}]
           /\ outcome' \in [Callers -> {"none", "read", "written", "rejected", "failed"}]
           /\ stray' \in [Callers -> BOOLEAN]
           /\ requests' \subseteq Request
<1>1. NoAuth \in Auth /\ Credential(c, "v1", NoSalt) \in Auth
  BY AuthType DEF Schemes
<1>2. PICK tag \in Awaited, auth \in Auth : Send(c, tag, auth)
  BY <1>1 DEF BuildAuthWrite, Awaited
<1>3. token' \in [Callers -> Ids \union {NoSalt}]
  BY DEF BuildAuthWrite, TypeOK
<1>4. outcome' \in [Callers -> {"none", "read", "written", "rejected", "failed"}]
  BY DEF BuildAuthWrite, TypeOK
<1> QED
  BY <1>2, <1>3, <1>4, SendType

\* A reply that reaches a socket is a Reply, and so names an exchange.
LEMMA ReplyType ==
    ASSUME TypeOK, NEW m \in replies
    PROVE  m \in Reply /\ m.id \in Ids /\ m.tag \in Awaited /\ SchemeIn(m) \in Schemes
BY ClientAssumption DEF ClientAssumption, TypeOK, Reply, SchemeIn, Schemes

\* A step of the client's calls (client.go:376-411) keeps the type invariant.
LEMMA CallType ==
    ASSUME TypeOK, NEW c \in Callers, Call(c)
    PROVE  TypeOK'
<1> USE DEF TypeOK
<1> DEFINE k == ClientOf[c]
<1>1. k \in Clients
  BY ClientAssumption DEF ClientAssumption
<1>2. NoAuth \in Auth
  BY DEF NoAuth, Auth, Schemes
<1>3. CASE Read(c)
  BY <1>2, <1>3, SendType DEF Read, Awaited, deviceVars
<1>4. CASE WriteResolved(c)
  <2>1. PICK scheme \in Schemes :
            /\ resolvedScheme' = [resolvedScheme EXCEPT ![k] = scheme]
            /\ BuildAuthWrite(c, scheme)
    BY <1>4 DEF WriteResolved
  <2>2. resolvedScheme' \in [Clients -> Schemes \union {""}]
    BY <2>1
  <2> QED
    BY <1>4, <2>1, <2>2, BuildType DEF WriteResolved, deviceVars
<1>5. CASE WriteUnresolved(c)
  BY <1>2, <1>5, SendType DEF WriteUnresolved, Awaited, deviceVars
<1> QED
  BY <1>3, <1>4, <1>5 DEF Call

\* So does a reply (client.go:376-494), or its absence (client.go:338).
LEMMA ReceiveType ==
    ASSUME TypeOK, NEW c \in Callers, Receive(c) \/ Timeout(c)
    PROVE  TypeOK'
<1> USE DEF TypeOK
<1>1. CASE Timeout(c)
  BY <1>1, ReturnType DEF Timeout, deviceVars
<1>2. CASE Receive(c)
  <2>1. PICK m \in replies :
            \/ ReceiveUnexpected(c, m) \/ ReceiveData(c, m) \/ ReceiveEncpass(c, m)
            \/ ReceiveSalt(c, m) \/ ReceiveNoSalt(c, m) \/ ReceiveWritten(c, m)
    BY <1>2 DEF Receive
  <2>2. m.id \in Ids /\ SchemeIn(m) \in Schemes
    BY ReplyType
  <2>3. CheckResult(m) \in {"read", "written", "rejected", "failed"}
    BY DEF CheckResult
  <2>4. CASE ReceiveUnexpected(c, m)
    BY <2>4, ReturnType DEF ReceiveUnexpected, Take, deviceVars
  <2>5. CASE ReceiveData(c, m)
    BY <2>5, ReturnType DEF ReceiveData, Take, deviceVars
  <2>6. CASE ReceiveEncpass(c, m)
    <3>1. resolvedScheme' \in [Clients -> Schemes \union {""}]
      BY <2>2, <2>6, ClientAssumption DEF ClientAssumption, ReceiveEncpass
    <3> QED
      BY <2>2, <2>6, <3>1, BuildType DEF ReceiveEncpass, Take, deviceVars
  <2>7. CASE ReceiveSalt(c, m)
    <3>1. Credential(c, "v2", m.id) \in Auth
      BY <2>2, AuthType DEF Schemes
    <3>2. token' \in [Callers -> Ids \union {NoSalt}]
      BY <2>2, <2>7 DEF ReceiveSalt
    <3> QED
      BY <2>7, <3>1, <3>2, SendType DEF ReceiveSalt, Take, Awaited, deviceVars
  <2>8. CASE ReceiveNoSalt(c, m)
    BY <2>8, ReturnType DEF ReceiveNoSalt, Take, deviceVars
  <2>9. CASE ReceiveWritten(c, m)
    <3>1. stray' \in [Callers -> BOOLEAN]
      BY <2>9 DEF ReceiveWritten
    <3> QED
      BY <2>3, <2>9, <3>1, ReturnType DEF ReceiveWritten, Take, deviceVars
  <2> QED
    BY <2>1, <2>4, <2>5, <2>6, <2>7, <2>8, <2>9
<1> QED
  BY <1>1, <1>2

\* The failure counter (nsdpface.go:339) stays a number.
LEMMA FailuresType ==
    ASSUME TypeOK
    PROVE  Failures \in Nat
<1>1. authFailures \in Nat
  BY DEF TypeOK
<1>2. authFailures + 1 \in Nat
  BY <1>1
<1> QED
  BY <1>1, <1>2 DEF Failures

\* The switch's answers (nsdpface.go:217-386) and a lost datagram keep it too.
LEMMA DeviceType ==
    ASSUME TypeOK, Device \/ Lose
    PROVE  TypeOK'
<1> USE DEF TypeOK
<1>1. CASE Lose
  BY <1>1 DEF Lose, clientVars, deviceVars
<1>2. ASSUME NEW m \in requests, NEW said \in Results, Answer(m, said)
      PROVE  requests' \subseteq Request /\ replies' \subseteq Reply /\ m.id \in Ids
  <2>1. m.id \in Ids /\ m.tag \in Awaited
    BY DEF Request
  <2>2. [id |-> m.id, tag |-> m.tag, result |-> said] \in Reply
    BY <2>1 DEF Reply
  <2> QED
    BY <1>2, <2>1, <2>2 DEF Answer
<1>3. Failures \in Nat
  BY FailuresType
<1>4. CASE Device
  <2>1. PICK m \in requests :
            DeviceRead(m) \/ DeviceWrite(m) \/ DeviceReject(m) \/ DeviceIgnore(m)
    BY <1>4 DEF Device
  <2>2. CASE DeviceRead(m)
    <3>1. Answer(m, "success")
      BY <2>2 DEF DeviceRead
    <3> QED
      BY <1>2, <2>2, <3>1 DEF DeviceRead, Answer, Results, clientVars
  <2>3. CASE DeviceWrite(m)
    <3>1. Answer(m, "success")
      BY <2>3 DEF DeviceWrite
    <3> QED
      BY <1>2, <2>3, <3>1 DEF DeviceWrite, Answer, Results, clientVars
  <2>4. CASE DeviceReject(m)
    <3>1. PICK said \in Results : Answer(m, said)
      BY <2>4 DEF DeviceReject, Results
    <3>2. authFailures' \in Nat
      BY <1>3, <2>4 DEF DeviceReject
    <3> QED
      BY <1>2, <2>4, <3>1, <3>2 DEF DeviceReject, Answer, clientVars
  <2>5. CASE DeviceIgnore(m)
    BY <2>5 DEF DeviceIgnore, clientVars, deviceVars
  <2> QED
    BY <2>1, <2>2, <2>3, <2>4, <2>5
<1> QED
  BY <1>1, <1>4

\* NewUDPClient (client.go:268) and a switch just started are well-typed.
LEMMA InitType == Init => TypeOK
<1> SUFFICES ASSUME Init PROVE TypeOK
  OBVIOUS
<1>1. \A c \in Callers : <<ClientOf[c], 0>> \in Ids
  BY ClientAssumption DEF ClientAssumption, Ids
<1> QED
  BY <1>1 DEF Init, TypeOK

\* The variables keep their types whatever the callers, the network and the
\* switch do (client.go, nsdpface.go).
THEOREM TypeCorrect == Spec => []TypeOK
<1>1. Init => TypeOK
  BY InitType
<1>2. TypeOK /\ [Next]_vars => TypeOK'
  <2> SUFFICES ASSUME TypeOK, [Next]_vars PROVE TypeOK'
    OBVIOUS
  <2>1. CASE UNCHANGED vars
    BY <2>1 DEF TypeOK, vars, clientVars, deviceVars
  <2>2. CASE Next
    BY <2>2, CallType, ReceiveType, DeviceType DEF Next
  <2> QED
    BY <2>1, <2>2
<1> QED
  BY <1>1, <1>2, PTL DEF Spec

-----------------------------------------------------------------------------
(* The first layer is inductive, whatever the port. *)

\* The part of IInv a new exchange could break.
Exchanges == IdsIssued /\ TagsAgree /\ SuccessApplied

\* nextSeq (client.go:300) makes the id of a new exchange larger than every
\* id in use, so sending disturbs no other exchange.
LEMMA SendKeeps ==
    ASSUME IInv, NEW c \in Callers, NEW tag \in Awaited, NEW auth, Send(c, tag, auth),
           replies' \subseteq replies, applied' = applied
    PROVE  Exchanges'
<1> DEFINE k == ClientOf[c]
           new == <<k, sequence[k] + 1>>
<1>1. TypeOK /\ k \in Clients /\ sequence \in [Clients -> Nat] /\ sequence[k] < MaxSeq
  BY ClientAssumption DEF ClientAssumption, IInv, TypeOK, Send
<1>2. NextSeq(k) = sequence[k] + 1
  BY <1>1, NextSeqIsNext
<1>3. /\ sequence' = [sequence EXCEPT ![k] = sequence[k] + 1]
      /\ current' = [current EXCEPT ![c] = new]
      /\ waiting' = [waiting EXCEPT ![c] = tag]
      /\ requests' = requests \union {[id |-> new, tag |-> tag, auth |-> auth]}
  BY <1>2 DEF Send
<1>4. \A i \in Ids : Issued(i) => i[2] <= sequence'[i[1]] /\ i # new
  BY <1>1, <1>3 DEF Ids, Issued
<1>5. new[2] <= sequence'[new[1]]
  BY <1>1, <1>3
<1>6. /\ \A d \in Callers : current[d] \in Ids /\ Issued(current[d])
      /\ \A m \in requests \union replies : m.id \in Ids /\ Issued(m.id)
  BY <1>1 DEF IInv, IdsIssued, TypeOK, Request, Reply
<1>7. \A d \in Callers : d # c => current'[d] = current[d] /\ waiting'[d] = waiting[d]
  BY <1>1, <1>3 DEF TypeOK
<1>8. current'[c] = new /\ waiting'[c] = tag
  BY <1>1, <1>3 DEF TypeOK
<1>9. IdsIssued'
  <2>1. \A d \in Callers : current'[d][2] <= sequence'[current'[d][1]]
    BY <1>4, <1>5, <1>6, <1>7, <1>8
  <2>2. \A m \in requests' \union replies' : m.id[2] <= sequence'[m.id[1]]
    <3> SUFFICES ASSUME NEW m \in requests' \union replies'
                 PROVE  m.id[2] <= sequence'[m.id[1]]
      OBVIOUS
    <3>1. CASE m \in requests \union replies
      BY <1>4, <1>6, <3>1
    <3>2. CASE m \notin requests \union replies
      <4>1. m.id = new
        BY <1>3, <3>2
      <4> QED
        BY <1>5, <4>1
    <3> QED
      BY <3>1, <3>2
  <2> QED
    BY <2>1, <2>2 DEF IdsIssued, Issued
<1>10. TagsAgree'
  BY <1>3, <1>4, <1>6, <1>7, <1>8 DEF IInv, TagsAgree
<1>11. SuccessApplied'
  BY DEF IInv, SuccessApplied
<1> QED
  BY <1>9, <1>10, <1>11 DEF Exchanges

\* A call that returns (client.go:376-411) leaves one exchange fewer.
LEMMA ReturnKeeps ==
    ASSUME IInv, NEW c \in Callers,
           NEW said \in {"read", "written", "rejected", "failed"}, Return(c, said),
           replies' \subseteq replies, applied' = applied
    PROVE  Exchanges' /\ BusyIsSilent'
<1>1. /\ waiting' = [waiting EXCEPT ![c] = "nothing"]
      /\ outcome' = [outcome EXCEPT ![c] = said]
      /\ UNCHANGED <<sequence, current, requests>>
  BY DEF Return
<1>2. TypeOK
  BY DEF IInv
<1>3. waiting'[c] = "nothing"
  BY <1>1, <1>2 DEF TypeOK
<1>4. \A d \in Callers : d # c => waiting'[d] = waiting[d] /\ outcome'[d] = outcome[d]
  BY <1>1, <1>2 DEF TypeOK
<1>5. IdsIssued'
  BY <1>1 DEF IInv, IdsIssued, Issued
<1>6. TagsAgree'
  BY <1>1, <1>3, <1>4 DEF IInv, TagsAgree
<1>7. SuccessApplied'
  BY DEF IInv, SuccessApplied
<1>8. BusyIsSilent'
  BY <1>3, <1>4 DEF IInv, BusyIsSilent
<1> QED
  BY <1>5, <1>6, <1>7, <1>8 DEF Exchanges

\* buildAuthWrite (client.go:465) starts an exchange and reports nothing.
LEMMA BuildKeeps ==
    ASSUME IInv, NEW c \in Callers, NEW scheme \in Schemes, BuildAuthWrite(c, scheme),
           replies' \subseteq replies, applied' = applied
    PROVE  Exchanges' /\ BusyIsSilent'
<1>1. PICK tag \in Awaited : \E auth : Send(c, tag, auth)
  BY DEF BuildAuthWrite, Awaited
<1>2. outcome' = [outcome EXCEPT ![c] = "none"]
  BY DEF BuildAuthWrite
<1>3. PICK auth : Send(c, tag, auth)
  BY <1>1
<1>4. BusyIsSilent'
  BY <1>2, <1>3 DEF IInv, TypeOK, BusyIsSilent, Send
<1> QED
  BY <1>3, <1>4, SendKeeps

\* A call that begins (client.go:376, 395) keeps the layer.
LEMMA CallKeeps ==
    ASSUME IInv, NEW c \in Callers, Call(c)
    PROVE  IInv'
<1>1. TypeOK
  BY DEF IInv
<1>2. TypeOK'
  BY <1>1, CallType
<1>3. Exchanges' /\ BusyIsSilent'
  <2>1. CASE Read(c)
    <3>1. Exchanges'
      BY <2>1, SendKeeps DEF Read, Awaited, deviceVars
    <3>2. BusyIsSilent'
      BY <1>1, <2>1 DEF Read, Send, IInv, TypeOK, BusyIsSilent
    <3> QED
      BY <3>1, <3>2
  <2>2. CASE WriteResolved(c)
    <3>1. PICK scheme \in Schemes : BuildAuthWrite(c, scheme)
      BY <2>2 DEF WriteResolved
    <3> QED
      BY <2>2, <3>1, BuildKeeps DEF WriteResolved, deviceVars
  <2>3. CASE WriteUnresolved(c)
    <3>1. Exchanges'
      BY <2>3, SendKeeps DEF WriteUnresolved, Awaited, deviceVars
    <3>2. BusyIsSilent'
      BY <1>1, <2>3 DEF WriteUnresolved, Send, IInv, TypeOK, BusyIsSilent
    <3> QED
      BY <3>1, <3>2
  <2> QED
    BY <2>1, <2>2, <2>3 DEF Call
<1> QED
  BY <1>2, <1>3 DEF IInv, Exchanges

\* So does a reply, whichever exchange it answers (client.go:376-494).
LEMMA ReceiveKeeps ==
    ASSUME IInv, NEW c \in Callers, Receive(c)
    PROVE  IInv'
<1>1. TypeOK
  BY DEF IInv
<1>2. TypeOK'
  BY <1>1, ReceiveType
<1>3. PICK m \in replies :
          \/ ReceiveUnexpected(c, m) \/ ReceiveData(c, m) \/ ReceiveEncpass(c, m)
          \/ ReceiveSalt(c, m) \/ ReceiveNoSalt(c, m) \/ ReceiveWritten(c, m)
  BY DEF Receive
<1>4. Reaches(m, c) /\ Take(m)
  BY <1>3 DEF ReceiveUnexpected, ReceiveData, ReceiveEncpass, ReceiveSalt,
              ReceiveNoSalt, ReceiveWritten
<1>5. replies' \subseteq replies /\ applied' = applied
  BY <1>4 DEF Take, deviceVars
<1>6. Exchanges' /\ BusyIsSilent'
  <2>1. ASSUME \/ ReceiveUnexpected(c, m) \/ ReceiveData(c, m)
               \/ ReceiveNoSalt(c, m) \/ ReceiveWritten(c, m)
        PROVE  Exchanges' /\ BusyIsSilent'
    <3>1. PICK said \in {"read", "written", "rejected", "failed"} : Return(c, said)
      BY <2>1 DEF ReceiveUnexpected, ReceiveData, ReceiveNoSalt, ReceiveWritten, CheckResult
    <3> QED
      BY <1>5, <3>1, ReturnKeeps
  <2>2. CASE ReceiveEncpass(c, m)
    <3>1. SchemeIn(m) \in Schemes /\ BuildAuthWrite(c, SchemeIn(m))
      BY <1>1, <2>2, ReplyType DEF ReceiveEncpass
    <3> QED
      BY <1>5, <3>1, BuildKeeps
  <2>3. CASE ReceiveSalt(c, m)
    <3>1. outcome[c] = "none" /\ outcome' = outcome
      BY <1>4, <2>3 DEF Reaches, IInv, BusyIsSilent, ReceiveSalt
    <3>2. Exchanges'
      BY <1>5, <2>3, SendKeeps DEF ReceiveSalt, Awaited
    <3>3. BusyIsSilent'
      BY <1>1, <2>3, <3>1 DEF ReceiveSalt, Send, IInv, TypeOK, BusyIsSilent
    <3> QED
      BY <3>2, <3>3
  <2> QED
    BY <1>3, <2>1, <2>2, <2>3
<1> QED
  BY <1>2, <1>6 DEF IInv, Exchanges

\* The switch keeps it (nsdpface.go:217-386): a reply repeats its request's id
\* and tag, and says success to a write only when it has applied it.
LEMMA DeviceKeeps ==
    ASSUME IInv, Device \/ Lose
    PROVE  IInv'
<1>1. TypeOK'
  BY DeviceType DEF IInv
<1>2. UNCHANGED clientVars
  BY DEF Device, DeviceRead, DeviceWrite, DeviceReject, DeviceIgnore, Answer, Lose
<1>3. BusyIsSilent'
  BY <1>2 DEF clientVars, IInv, BusyIsSilent
<1>4. applied \subseteq applied'
  BY DEF Device, DeviceRead, DeviceWrite, DeviceReject, DeviceIgnore, Lose, deviceVars
<1>5. requests' \subseteq requests
  BY DEF Device, DeviceRead, DeviceWrite, DeviceReject, DeviceIgnore, Answer, Lose
<1>6. \A r \in replies' :
          \/ r \in replies
          \/ \E m \in requests : r.id = m.id /\ r.tag = m.tag
                 /\ (r.tag = "write" /\ r.result = "success" => r.id \in applied')
  <2>1. CASE Lose
    BY <2>1 DEF Lose
  <2>2. CASE Device
    <3>1. PICK m \in requests :
              DeviceRead(m) \/ DeviceWrite(m) \/ DeviceReject(m) \/ DeviceIgnore(m)
      BY <2>2 DEF Device
    <3>2. CASE DeviceRead(m)
      BY <3>2 DEF DeviceRead, Answer
    <3>3. CASE DeviceWrite(m)
      BY <3>3 DEF DeviceWrite, Answer
    <3>4. CASE DeviceReject(m)
      BY <3>4 DEF DeviceReject, Answer
    <3>5. CASE DeviceIgnore(m)
      BY <3>5 DEF DeviceIgnore
    <3> QED
      BY <3>1, <3>2, <3>3, <3>4, <3>5
  <2> QED
    BY <2>1, <2>2
<1>7. IdsIssued' /\ TagsAgree'
  BY <1>2, <1>5, <1>6 DEF clientVars, IInv, IdsIssued, Issued, TagsAgree
<1>8. SuccessApplied'
  BY <1>4, <1>6 DEF IInv, SuccessApplied
<1> QED
  BY <1>1, <1>3, <1>7, <1>8 DEF IInv

\* IInv is inductive.
LEMMA Inductive == Spec => []IInv
<1>1. Init => IInv
  <2> SUFFICES ASSUME Init PROVE IInv
    OBVIOUS
  <2>1. TypeOK
    BY InitType
  <2>2. IdsIssued
    <3>1. ASSUME NEW c \in Callers
          PROVE  current[c][1] = ClientOf[c] /\ current[c][2] = 0 /\ sequence[ClientOf[c]] = 0
      BY ClientAssumption DEF ClientAssumption, Init
    <3>2. \A c \in Callers : current[c][2] <= sequence[current[c][1]]
      <4> SUFFICES ASSUME NEW c \in Callers PROVE current[c][2] <= sequence[current[c][1]]
        OBVIOUS
      <4>1. current[c][2] = 0 /\ sequence[current[c][1]] = 0
        BY <3>1
      <4> QED
        BY <4>1
    <3>3. requests = {} /\ replies = {}
      BY DEF Init
    <3> QED
      BY <3>2, <3>3 DEF IdsIssued, Issued
  <2>3. TagsAgree /\ SuccessApplied /\ BusyIsSilent
    BY DEF Init, TagsAgree, SuccessApplied, BusyIsSilent
  <2> QED
    BY <2>1, <2>2, <2>3 DEF IInv
<1>2. IInv /\ [Next]_vars => IInv'
  <2> SUFFICES ASSUME IInv, [Next]_vars PROVE IInv'
    OBVIOUS
  <2>1. CASE UNCHANGED vars
    BY <2>1 DEF vars, clientVars, deviceVars, IInv, TypeOK, IdsIssued, Issued, TagsAgree,
       SuccessApplied, BusyIsSilent
  <2>2. ASSUME NEW c \in Callers, Call(c) PROVE IInv'
    BY <2>2, CallKeeps
  <2>3. ASSUME NEW c \in Callers, Receive(c) PROVE IInv'
    BY <2>3, ReceiveKeeps
  <2>4. ASSUME NEW c \in Callers, Timeout(c) PROVE IInv'
    <3>1. TypeOK'
      BY <2>4, ReceiveType DEF IInv
    <3>2. Exchanges' /\ BusyIsSilent'
      BY <2>4, ReturnKeeps DEF Timeout, deviceVars
    <3> QED
      BY <3>1, <3>2 DEF IInv, Exchanges
  <2>5. CASE Device \/ Lose
    BY <2>5, DeviceKeeps
  <2> QED
    BY <2>1, <2>2, <2>3, <2>4, <2>5 DEF Next
<1> QED
  BY <1>1, <1>2, PTL DEF Spec

\* A cached scheme changes only when a caller of that client reads ENCPASS or
\* writes under the scheme that is cached or forced (client.go:431-457).
LEMMA CacheChanges ==
    ASSUME TypeOK, [Next]_vars, NEW k \in Clients, AuthScheme[k] = "auto",
           resolvedScheme'[k] # resolvedScheme[k]
    PROVE  \E c \in Callers : \E m \in replies :
               ClientOf[c] = k /\ ReceiveEncpass(c, m) /\ resolvedScheme'[k] = SchemeIn(m)
<1>1. resolvedScheme \in [Clients -> Schemes \union {""}]
  BY DEF TypeOK
<1>2. resolvedScheme' # resolvedScheme
  OBVIOUS
<1>3. ~(Device \/ Lose) /\ ~UNCHANGED vars
  BY <1>2 DEF Device, DeviceRead, DeviceWrite, DeviceReject, DeviceIgnore, Answer, Lose,
              vars, clientVars
<1>4. PICK c \in Callers : Call(c) \/ Receive(c) \/ Timeout(c)
  BY <1>3 DEF Next
<1>5. ASSUME WriteResolved(c) PROVE FALSE
  <2> DEFINE scheme == IF resolvedScheme[ClientOf[c]] # "" THEN resolvedScheme[ClientOf[c]]
                       ELSE AuthScheme[ClientOf[c]]
  <2>1. /\ scheme \in Schemes
        /\ resolvedScheme' = [resolvedScheme EXCEPT ![ClientOf[c]] = scheme]
    BY <1>5 DEF WriteResolved
  <2>2. ClientOf[c] = k /\ resolvedScheme'[k] = scheme
    BY <1>1, <2>1
  <2>3. scheme = "auto"
    BY <2>2
  <2> QED
    BY <2>1, <2>3 DEF Schemes
<1>6. PICK m \in replies : ReceiveEncpass(c, m)
  <2>1. Receive(c)
    BY <1>2, <1>4, <1>5 DEF Call, Read, WriteUnresolved, Timeout
  <2> QED
    BY <1>2, <2>1 DEF Receive, ReceiveUnexpected, ReceiveData, ReceiveSalt, ReceiveNoSalt,
                      ReceiveWritten
<1>7. resolvedScheme' = [resolvedScheme EXCEPT ![ClientOf[c]] = SchemeIn(m)]
  BY <1>6 DEF ReceiveEncpass
<1>8. ClientOf[c] = k /\ resolvedScheme'[k] = SchemeIn(m)
  BY <1>1, <1>7
<1> QED
  BY <1>6, <1>8

\* resolveScheme (client.go:431), for any number of callers and clients that
\* resolve at once: the answer to a caller's own ENCPASS read names the scheme
\* of the switch, so a wrong one comes from another exchange's read response.
THEOREM WrongSchemeIsStray == Spec => WrongSchemeFromStray
<1>1. ASSUME IInv, [Next]_vars, NEW k \in Clients, AuthScheme[k] = "auto",
             resolvedScheme'[k] # resolvedScheme[k], resolvedScheme'[k] # DeviceScheme
      PROVE  /\ resolvedScheme'[k] = "v1"
             /\ \E c \in Callers : \E m \in replies \ replies' :
                  /\ ClientOf[c] = k /\ waiting[c] = "encpass"
                  /\ m.id # current[c] /\ m.tag \in {"data", "salt"}
  <2>1. TypeOK
    BY <1>1 DEF IInv
  <2>2. PICK c \in Callers, m \in replies :
            ClientOf[c] = k /\ ReceiveEncpass(c, m) /\ resolvedScheme'[k] = SchemeIn(m)
    BY <1>1, <2>1, CacheChanges
  <2>3. resolvedScheme'[k] = "v1" /\ m.tag # "encpass"
    BY <1>1, <2>2 DEF SchemeIn
  <2>4. waiting[c] = "encpass" /\ m.tag # "write" /\ m \notin replies'
    BY <2>2 DEF ReceiveEncpass, ExpectedOp, Take
  <2>5. m.tag \in {"data", "salt"}
    BY <2>1, <2>3, <2>4, ReplyType DEF Awaited
  <2>6. m.id # current[c]
    BY <1>1, <2>3, <2>4 DEF IInv, TagsAgree
  <2> QED
    BY <2>2, <2>3, <2>4, <2>5, <2>6
<1>2. IInv /\ [Next]_vars =>
          [\A k \in Clients :
              /\ AuthScheme[k] = "auto"
              /\ resolvedScheme'[k] # resolvedScheme[k]
              /\ resolvedScheme'[k] # DeviceScheme
              => /\ resolvedScheme'[k] = "v1"
                 /\ \E c \in Callers : \E m \in replies \ replies' :
                      /\ ClientOf[c] = k /\ waiting[c] = "encpass"
                      /\ m.id # current[c] /\ m.tag \in {"data", "salt"}]_vars
  BY <1>1
<1> QED
  BY <1>2, Inductive, PTL DEF Spec, WrongSchemeFromStray

-----------------------------------------------------------------------------
(* Datagrams and history: the second layer of the invariant. *)

\* Every applied write and every salt a token was folded with is an id handed out.
HistoryIssued ==
    /\ \A i \in applied : Issued(i)
    /\ \A c \in Callers : token[c] # NoSalt => Issued(token[c])

\* No two datagrams of a direction belong to one exchange.
OneRequest == \A m, n \in requests : m.id = n.id => m = n
OneReply == \A r, s \in replies : r.id = s.id => r = s

\* A request that has been answered is no longer under way.
AnsweredOnce == \A m \in requests : \A r \in replies : m.id # r.id

\* A salt that a token was folded with is never issued again.
TokensSpent == \A m \in requests : \A c \in Callers : m.id # token[c]

DatagramInv == HistoryIssued /\ OneRequest /\ OneReply /\ AnsweredOnce /\ TokensSpent

\* nextSeq (client.go:300) hands out an id no datagram, caller or write has had.
LEMMA SendIsFresh ==
    ASSUME TypeOK, NEW c \in Callers, NEW tag \in Awaited, NEW auth, Send(c, tag, auth)
    PROVE  \E new \in Ids :
              /\ Issued(new)'
              /\ current' = [current EXCEPT ![c] = new]
              /\ waiting' = [waiting EXCEPT ![c] = tag]
              /\ requests' = requests \union {[id |-> new, tag |-> tag, auth |-> auth]}
              /\ \A i \in Ids : Issued(i) => i # new /\ Issued(i)'
<1> DEFINE k == ClientOf[c]
           new == <<k, sequence[k] + 1>>
<1>1. k \in Clients /\ sequence \in [Clients -> Nat] /\ sequence[k] < MaxSeq
  BY ClientAssumption DEF ClientAssumption, TypeOK, Send
<1>2. NextSeq(k) = sequence[k] + 1 /\ NextSeq(k) \in Nat
  BY <1>1, NextSeqIsNext
<1>3. new \in Ids
  BY <1>1, <1>2 DEF Ids
<1>4. sequence' = [sequence EXCEPT ![k] = sequence[k] + 1]
  BY <1>2 DEF Send
<1>5. new[2] <= sequence'[new[1]]
  BY <1>1, <1>4
<1>6. ASSUME NEW i \in Ids, Issued(i)
      PROVE  i # new /\ i[2] <= sequence'[i[1]]
  <2>1. i[1] \in Clients /\ i[2] \in Nat /\ i[2] <= sequence[i[1]]
    BY <1>6 DEF Ids, Issued
  <2>2. /\ sequence[i[1]] \in Nat /\ sequence'[i[1]] \in Nat
        /\ sequence[i[1]] <= sequence'[i[1]]
    BY <1>1, <1>4, <2>1
  <2>3. i[2] <= sequence'[i[1]]
    BY <2>1, <2>2
  <2>4. ~(i[1] = k /\ i[2] = sequence[k] + 1)
    BY <1>1, <2>1
  <2> QED
    BY <2>3, <2>4
<1>7. /\ current' = [current EXCEPT ![c] = new]
      /\ waiting' = [waiting EXCEPT ![c] = tag]
      /\ requests' = requests \union {[id |-> new, tag |-> tag, auth |-> auth]}
  BY <1>2 DEF Send
<1> QED
  BY <1>3, <1>5, <1>6, <1>7 DEF Issued

\* Everything a datagram, a caller or the switch's history names is an id.
LEMMA NamesAreIssued ==
    ASSUME IInv, DatagramInv
    PROVE  /\ \A m \in requests \union replies : m.id \in Ids /\ Issued(m.id)
           /\ \A c \in Callers : current[c] \in Ids /\ Issued(current[c])
           /\ \A c \in Callers : token[c] # NoSalt => token[c] \in Ids /\ Issued(token[c])
           /\ \A i \in applied : i \in Ids /\ Issued(i)
BY DEF IInv, TypeOK, IdsIssued, DatagramInv, HistoryIssued, Request, Reply

\* A send disturbs none of it: its id is new, and the salt its token is folded
\* with, if any, is the one of a reply already received (client.go:465).
LEMMA SendKeepsDatagrams ==
    ASSUME IInv, DatagramInv, NEW c \in Callers, NEW tag \in Awaited, NEW auth,
           Send(c, tag, auth), replies' \subseteq replies, applied' = applied,
           \A d \in Callers : \/ token'[d] \in {token[d], NoSalt}
                              \/ \E r \in replies : token'[d] = r.id
    PROVE  DatagramInv'
<1>1. TypeOK
  BY DEF IInv
<1>2. PICK new \in Ids :
          /\ Issued(new)'
          /\ requests' = requests \union {[id |-> new, tag |-> tag, auth |-> auth]}
          /\ \A i \in Ids : Issued(i) => i # new /\ Issued(i)'
  BY <1>1, SendIsFresh
<1>3. /\ \A m \in requests \union replies : m.id \in Ids /\ Issued(m.id)
      /\ \A d \in Callers : token[d] # NoSalt => token[d] \in Ids /\ Issued(token[d])
      /\ \A i \in applied : i \in Ids /\ Issued(i)
  BY NamesAreIssued
<1>4. \A m \in requests' : m \in requests \/ m = [id |-> new, tag |-> tag, auth |-> auth]
  BY <1>2
<1>5. ASSUME NEW d \in Callers, token'[d] # NoSalt
      PROVE  /\ token'[d] \in Ids /\ Issued(token'[d])
             /\ \A m \in requests : m.id # token'[d]
  <2>1. CASE token'[d] = token[d]
    BY <1>3, <1>5, <2>1 DEF DatagramInv, TokensSpent
  <2>2. CASE \E r \in replies : token'[d] = r.id
    BY <1>3, <2>2 DEF DatagramInv, AnsweredOnce
  <2> QED
    BY <1>5, <2>1, <2>2
<1>6. HistoryIssued'
  <2>1. \A i \in applied' : Issued(i)'
    BY <1>2, <1>3
  <2>2. ASSUME NEW d \in Callers, token'[d] # NoSalt
        PROVE  token'[d][2] <= sequence'[token'[d][1]]
    <3>1. token'[d] \in Ids /\ Issued(token'[d])
      BY <1>5, <2>2
    <3> QED
      BY <1>2, <3>1 DEF Issued
  <2> QED
    BY <2>1, <2>2 DEF HistoryIssued, Issued
<1>7. OneRequest' /\ OneReply'
  BY <1>2, <1>3, <1>4 DEF DatagramInv, OneRequest, OneReply
<1>8. AnsweredOnce'
  BY <1>2, <1>3, <1>4 DEF DatagramInv, AnsweredOnce
<1>9. TokensSpent'
  <2>1. NoSalt \notin Ids
    BY ClientAssumption DEF ClientAssumption
  <2> SUFFICES ASSUME NEW m \in requests', NEW d \in Callers
               PROVE  m.id # token'[d]
    BY DEF TokensSpent
  <2>2. m.id \in Ids
    BY <1>2, <1>3, <1>4
  <2>3. CASE token'[d] = NoSalt
    BY <2>1, <2>2, <2>3
  <2>4. CASE token'[d] # NoSalt
    BY <1>2, <1>4, <1>5, <2>4
  <2> QED
    BY <2>3, <2>4
<1> QED
  BY <1>6, <1>7, <1>8, <1>9 DEF DatagramInv

\* Nor does a step that sends no request: a reply comes from a request that is
\* gone with it (nsdpface.go:217-386).
LEMMA OthersKeepDatagrams ==
    ASSUME IInv, DatagramInv, sequence' = sequence, token' = token,
           requests' \subseteq requests,
           \A i \in applied' : i \in applied \/ \E m \in requests : i = m.id,
           \A r \in replies' : r \in replies \/ \E m \in requests \ requests' : r.id = m.id,
           \A r, s \in replies' : r \notin replies /\ s \notin replies => r = s
    PROVE  DatagramInv'
<1>1. /\ \A m \in requests \union replies : m.id \in Ids /\ Issued(m.id)
      /\ \A i \in applied : i \in Ids /\ Issued(i)
  BY NamesAreIssued
<1>2. HistoryIssued'
  BY <1>1 DEF DatagramInv, HistoryIssued, Issued
<1>3. OneRequest'
  BY DEF DatagramInv, OneRequest
<1>4. OneReply'
  BY DEF DatagramInv, OneReply, AnsweredOnce
<1>5. AnsweredOnce'
  BY DEF DatagramInv, OneRequest, AnsweredOnce
<1>6. TokensSpent'
  BY DEF DatagramInv, TokensSpent
<1> QED
  BY <1>2, <1>3, <1>4, <1>5, <1>6 DEF DatagramInv

-----------------------------------------------------------------------------
(* What a step is to the callers and their writes: a send, a return, the end *)
(* of a request, or a lost reply.                                            *)

IsAck(r) == r.tag = "write" /\ r.result = "success"

Sends(c) ==
    /\ \E tag \in Awaited, auth \in Auth : Send(c, tag, auth)
    /\ outcome' = [outcome EXCEPT ![c] = "none"]
    /\ token' \in {token, [token EXCEPT ![c] = NoSalt]}
                  \union {[token EXCEPT ![c] = r.id] : r \in replies}
    /\ replies' = replies \/ \E r \in replies : replies' = replies \ {r} /\ ~IsAck(r)
    /\ applied' = applied

Returns(c) ==
    /\ waiting[c] # "nothing"
    /\ \E said \in {"read", "written", "rejected", "failed"} :
        /\ Return(c, said)
        /\ \/ replies' = replies /\ said # "written"
           \/ \E r \in replies :
                /\ replies' = replies \ {r}
                /\ said = "written" => IsAck(r)
                /\ FixedPort \/ r.id = current[c]
    /\ applied' = applied

Ends(m) ==
    /\ requests' = requests \ {m}
    /\ \/ replies' = replies /\ applied' = applied
       \/ \E r \in Reply :
            /\ replies' = replies \union {r} /\ r.id = m.id /\ r.tag = m.tag
            /\ applied' = IF IsAck(r) THEN applied \union {m.id} ELSE applied
    /\ UNCHANGED clientVars

LosesReply ==
    /\ requests' = requests
    /\ \E r \in replies : replies' = replies \ {r}
    /\ applied' = applied
    /\ UNCHANGED clientVars

\* buildAuthWrite (client.go:465) sends once, whatever the scheme.
LEMMA BuildSends ==
    ASSUME TypeOK, NEW c \in Callers, NEW scheme \in Schemes, BuildAuthWrite(c, scheme),
           replies' = replies \/ \E r \in replies : replies' = replies \ {r} /\ ~IsAck(r),
           applied' = applied
    PROVE  Sends(c)
<1>1. NoAuth \in Auth /\ Credential(c, "v1", NoSalt) \in Auth
  BY AuthType DEF Schemes
<1>2. \E tag \in Awaited, auth \in Auth : Send(c, tag, auth)
  BY <1>1 DEF BuildAuthWrite, Awaited
<1>3. /\ outcome' = [outcome EXCEPT ![c] = "none"]
      /\ token' = [token EXCEPT ![c] = NoSalt]
  BY DEF BuildAuthWrite
<1> QED
  BY <1>2, <1>3 DEF Sends

\* A call begins with a send (client.go:376, 395).
LEMMA CallSends ==
    ASSUME IInv, NEW c \in Callers, Call(c)
    PROVE  Sends(c)
<1>1. TypeOK /\ ClientOf[c] \in Clients
  BY ClientAssumption DEF ClientAssumption, IInv
<1>2. NoAuth \in Auth
  BY DEF NoAuth, Auth, Schemes
<1>3. ASSUME Read(c) PROVE Sends(c)
  <2>1. Send(c, "data", NoAuth) /\ outcome' = [outcome EXCEPT ![c] = "none"]
    BY <1>3 DEF Read
  <2>2. token' = token /\ replies' = replies /\ applied' = applied
    BY <1>3 DEF Read, deviceVars
  <2> QED
    BY <1>2, <2>1, <2>2 DEF Sends, Awaited
<1>4. ASSUME WriteResolved(c) PROVE Sends(c)
  <2>1. PICK scheme \in Schemes : BuildAuthWrite(c, scheme)
    BY <1>4 DEF WriteResolved
  <2>2. replies' = replies /\ applied' = applied
    BY <1>4 DEF WriteResolved, deviceVars
  <2> QED
    BY <1>1, <2>1, <2>2, BuildSends
<1>5. ASSUME WriteUnresolved(c) PROVE Sends(c)
  <2>1. Send(c, "encpass", NoAuth) /\ outcome' = [outcome EXCEPT ![c] = "none"]
    BY <1>5 DEF WriteUnresolved
  <2>2. token' = [token EXCEPT ![c] = NoSalt] /\ replies' = replies /\ applied' = applied
    BY <1>5 DEF WriteUnresolved, deviceVars
  <2> QED
    BY <1>2, <2>1, <2>2 DEF Sends, Awaited
<1> QED
  BY <1>3, <1>4, <1>5 DEF Call

\* A reply makes the call go on with its next exchange or return
\* (client.go:376-494); a call that returns success takes an acknowledgement
\* with it, and a call that goes on takes none.
LEMMA ReceiveSendsOrReturns ==
    ASSUME IInv, NEW c \in Callers, Receive(c)
    PROVE  Sends(c) \/ Returns(c)
<1>1. TypeOK
  BY DEF IInv
<1>2. PICK m \in replies :
          \/ ReceiveUnexpected(c, m) \/ ReceiveData(c, m) \/ ReceiveEncpass(c, m)
          \/ ReceiveSalt(c, m) \/ ReceiveNoSalt(c, m) \/ ReceiveWritten(c, m)
  BY DEF Receive
<1>3. Reaches(m, c) /\ Take(m)
  BY <1>2 DEF ReceiveUnexpected, ReceiveData, ReceiveEncpass, ReceiveSalt,
              ReceiveNoSalt, ReceiveWritten
<1>4. /\ waiting[c] # "nothing" /\ outcome[c] = "none"
      /\ FixedPort \/ m.id = current[c]
  BY <1>3 DEF IInv, BusyIsSilent, Reaches
<1>5. replies' = replies \ {m} /\ applied' = applied
  BY <1>3 DEF Take, deviceVars
<1>6. ASSUME ReceiveUnexpected(c, m) \/ ReceiveNoSalt(c, m) \/ ReceiveData(c, m)
      PROVE  Returns(c)
  <2>1. PICK said \in {"failed", "read"} : Return(c, said)
    BY <1>6 DEF ReceiveUnexpected, ReceiveNoSalt, ReceiveData
  <2>2. said # "written" /\ said \in {"read", "written", "rejected", "failed"}
    BY <2>1
  <2> QED
    BY <1>4, <1>5, <2>1, <2>2 DEF Returns
<1>7. ASSUME ReceiveWritten(c, m) PROVE Returns(c)
  <2>1. Return(c, CheckResult(m)) /\ m.tag = "write"
    BY <1>7 DEF ReceiveWritten, ExpectedOp
  <2>2. CheckResult(m) \in {"read", "written", "rejected", "failed"}
    BY DEF CheckResult
  <2>3. CheckResult(m) = "written" => IsAck(m)
    BY <2>1 DEF CheckResult, IsAck
  <2> QED
    BY <1>4, <1>5, <2>1, <2>2, <2>3 DEF Returns
<1>8. ASSUME ReceiveEncpass(c, m) PROVE Sends(c)
  <2>1. SchemeIn(m) \in Schemes
    BY <1>1, ReplyType
  <2>2. BuildAuthWrite(c, SchemeIn(m)) /\ ~IsAck(m)
    BY <1>8 DEF ReceiveEncpass, ExpectedOp, IsAck
  <2> QED
    BY <1>1, <1>5, <2>1, <2>2, BuildSends
<1>9. ASSUME ReceiveSalt(c, m) PROVE Sends(c)
  <2>1. m.id \in Ids
    BY <1>1, ReplyType
  <2>2. Credential(c, "v2", m.id) \in Auth
    BY <2>1, AuthType DEF Schemes
  <2>3. /\ Send(c, "write", Credential(c, "v2", m.id)) /\ token' = [token EXCEPT ![c] = m.id]
        /\ ~IsAck(m)
    BY <1>9 DEF ReceiveSalt, IsAck
  <2>4. outcome' = [outcome EXCEPT ![c] = "none"]
    BY <1>1, <1>4, <1>9 DEF ReceiveSalt, TypeOK
  <2> QED
    BY <1>5, <2>2, <2>3, <2>4 DEF Sends, Awaited
<1> QED
  BY <1>2, <1>6, <1>7, <1>8, <1>9

\* A deadline ends the call (client.go:338).
LEMMA TimeoutReturns ==
    ASSUME NEW c \in Callers, Timeout(c)
    PROVE  Returns(c)
<1>1. waiting[c] # "nothing" /\ Return(c, "failed") /\ replies' = replies /\ applied' = applied
  BY DEF Timeout, deviceVars
<1> QED
  BY <1>1 DEF Returns

\* The switch ends a request, and acknowledges it when it applies it
\* (nsdpface.go:217-386); the network ends a datagram.
LEMMA DeviceEnds ==
    ASSUME TypeOK, Device \/ Lose
    PROVE  LosesReply \/ \E m \in requests : Ends(m)
<1>1. ASSUME NEW m \in requests, NEW said \in Results, Answer(m, said),
             applied' = IF m.tag = "write" /\ said = "success"
                        THEN applied \union {m.id} ELSE applied
      PROVE  Ends(m)
  <2> DEFINE r == [id |-> m.id, tag |-> m.tag, result |-> said]
  <2>1. r \in Reply
    BY DEF TypeOK, Request, Reply
  <2>2. requests' = requests \ {m} /\ replies' = replies \union {r} /\ UNCHANGED clientVars
    BY <1>1 DEF Answer
  <2>3. r.id = m.id /\ r.tag = m.tag /\ applied' = IF IsAck(r) THEN applied \union {m.id} ELSE applied
    BY <1>1 DEF IsAck
  <2> HIDE DEF r
  <2> QED
    BY <2>1, <2>2, <2>3 DEF Ends
<1>2. ASSUME NEW m \in requests, DeviceRead(m) PROVE Ends(m)
  BY <1>1, <1>2 DEF DeviceRead, Results
<1>3. ASSUME NEW m \in requests, DeviceWrite(m) PROVE Ends(m)
  BY <1>1, <1>3 DEF DeviceWrite, Results
<1>4. ASSUME NEW m \in requests, DeviceReject(m) PROVE Ends(m)
  <2>1. PICK said \in {"locked", "badPassword"} : Answer(m, said)
    BY <1>4 DEF DeviceReject
  <2>2. said \in Results /\ said # "success"
    BY <2>1 DEF Results
  <2> QED
    BY <1>1, <1>4, <2>1, <2>2 DEF DeviceReject
<1>5. ASSUME NEW m \in requests, DeviceIgnore(m) PROVE Ends(m)
  BY <1>5 DEF DeviceIgnore, Ends, deviceVars
<1>6. ASSUME Lose PROVE LosesReply \/ \E m \in requests : Ends(m)
  <2>1. UNCHANGED clientVars /\ applied' = applied
    BY <1>6 DEF Lose, deviceVars
  <2>2. ASSUME NEW m \in requests, requests' = requests \ {m}, replies' = replies
        PROVE  Ends(m)
    BY <2>1, <2>2 DEF Ends
  <2>3. ASSUME NEW m \in replies, replies' = replies \ {m}, requests' = requests
        PROVE  LosesReply
    BY <2>1, <2>3 DEF LosesReply
  <2> QED
    BY <1>6, <2>2, <2>3 DEF Lose
<1> QED
  BY <1>2, <1>3, <1>4, <1>5, <1>6 DEF Device

\* So every step is one of the four.
LEMMA StepKinds ==
    ASSUME IInv, Next
    PROVE  \/ \E c \in Callers : Sends(c) \/ Returns(c)
           \/ \E m \in requests : Ends(m)
           \/ LosesReply
BY CallSends, ReceiveSendsOrReturns, TimeoutReturns, DeviceEnds DEF Next, IInv

\* The second layer is invariant as well.
LEMMA DatagramsHold == Spec => [](IInv /\ DatagramInv)
<1>1. Init => DatagramInv
  BY DEF Init, DatagramInv, HistoryIssued, OneRequest, OneReply, AnsweredOnce, TokensSpent
<1>2. IInv /\ DatagramInv /\ [Next]_vars => DatagramInv'
  <2> SUFFICES ASSUME IInv, DatagramInv, [Next]_vars PROVE DatagramInv'
    OBVIOUS
  <2>1. ASSUME UNCHANGED vars PROVE DatagramInv'
    BY <2>1, OthersKeepDatagrams DEF vars, clientVars, deviceVars
  <2>2. ASSUME NEW c \in Callers, Sends(c) PROVE DatagramInv'
    <3>1. PICK tag \in Awaited, auth \in Auth : Send(c, tag, auth)
      BY <2>2 DEF Sends
    <3>2. replies' \subseteq replies /\ applied' = applied
      BY <2>2 DEF Sends
    <3>3. ASSUME NEW d \in Callers
          PROVE  token'[d] \in {token[d], NoSalt} \/ \E r \in replies : token'[d] = r.id
      <4>1. token \in [Callers -> Ids \union {NoSalt}]
        BY DEF IInv, TypeOK
      <4>2. \/ token' = token \/ token' = [token EXCEPT ![c] = NoSalt]
            \/ \E r \in replies : token' = [token EXCEPT ![c] = r.id]
        BY <2>2 DEF Sends
      <4> QED
        BY <4>1, <4>2
    <3> QED
      BY <3>1, <3>2, <3>3, SendKeepsDatagrams
  <2>3. ASSUME NEW c \in Callers, Returns(c) PROVE DatagramInv'
    <3>1. sequence' = sequence /\ token' = token /\ requests' = requests
      BY <2>3 DEF Returns, Return
    <3>2. replies' \subseteq replies /\ applied' = applied
      BY <2>3 DEF Returns
    <3> QED
      BY <3>1, <3>2, OthersKeepDatagrams
  <2>4. ASSUME NEW m \in requests, Ends(m) PROVE DatagramInv'
    <3>1. sequence' = sequence /\ token' = token /\ requests' = requests \ {m}
      BY <2>4 DEF Ends, clientVars
    <3>2. \A i \in applied' : i \in applied \/ i = m.id
      BY <2>4 DEF Ends
    <3>3. /\ \A r \in replies' : r \in replies \/ r.id = m.id
          /\ \A r, s \in replies' : r \notin replies /\ s \notin replies => r = s
      BY <2>4 DEF Ends
    <3> QED
      BY <3>1, <3>2, <3>3, OthersKeepDatagrams
  <2>5. ASSUME LosesReply PROVE DatagramInv'
    BY <2>5, OthersKeepDatagrams DEF LosesReply, clientVars
  <2> QED
    BY <2>1, <2>2, <2>3, <2>4, <2>5, StepKinds
<1> QED
  BY <1>1, <1>2, Inductive, PTL DEF Spec


-----------------------------------------------------------------------------
(* The client implements WriteCalls.                                         *)

\* The writes under way and the acknowledgements on their way back.
InTransit == {m.id : m \in {r \in requests : r.tag = "write"}}
Acks == {m.id : m \in {r \in replies : r.tag = "write" /\ r.result = "success"}}

\* A reply that is read or lost takes at most its own acknowledgement along:
\* no two replies have one id.
LEMMA OneReplyLess ==
    ASSUME DatagramInv, NEW r \in replies, replies' = replies \ {r}
    PROVE  /\ IsAck(r) => r.id \in Acks /\ Acks' = Acks \ {r.id}
           /\ ~IsAck(r) => Acks' = Acks
<1>1. \A s \in replies : s.id = r.id => s = r
  BY DEF DatagramInv, OneReply
<1>2. ASSUME IsAck(r) PROVE r.id \in Acks /\ Acks' = Acks \ {r.id}
  BY <1>1, <1>2 DEF Acks, IsAck
<1>3. ASSUME ~IsAck(r) PROVE Acks' = Acks
  BY <1>3 DEF Acks, IsAck
<1> QED
  BY <1>2, <1>3

\* A send is an attempt under an id the specification has not seen.
LEMMA SendAttempts ==
    ASSUME IInv, DatagramInv, NEW c \in Callers, Sends(c)
    PROVE  Promise!Attempt(c)
<1>1. PICK tag \in Awaited, auth \in Auth : Send(c, tag, auth)
  BY DEF Sends
<1>2. TypeOK
  BY DEF IInv
<1>3. PICK new \in Ids :
          /\ current' = [current EXCEPT ![c] = new]
          /\ waiting' = [waiting EXCEPT ![c] = tag]
          /\ requests' = requests \union {[id |-> new, tag |-> tag, auth |-> auth]}
          /\ \A i \in Ids : Issued(i) => i # new
  BY <1>1, <1>2, SendIsFresh
<1>4. /\ waiting \in [Callers -> Awaited \union {"nothing"}]
      /\ current \in [Callers -> Ids]
      /\ outcome \in [Callers -> {"none", "read", "written", "rejected", "failed"}]
  BY <1>2 DEF TypeOK
<1>5. current'[c] = new
  BY <1>3, <1>4
<1>6. {d \in Callers : waiting'[d] # "nothing"} =
      {d \in Callers : waiting[d] # "nothing"} \union {c}
  BY <1>3, <1>4 DEF Awaited
<1>7. [d \in Callers |-> Reported(outcome'[d])] =
      [[d \in Callers |-> Reported(outcome[d])] EXCEPT ![c] = "none"]
  <2>1. outcome' = [outcome EXCEPT ![c] = "none"]
    BY DEF Sends
  <2> QED
    BY <1>4, <2>1 DEF Reported
<1>8. ASSUME new \in InTransit \union applied
      PROVE  FALSE
  BY <1>3, <1>8, NamesAreIssued DEF InTransit
<1>9. InTransit' \in {InTransit, InTransit \union {new}}
  <2> DEFINE sent == [id |-> new, tag |-> tag, auth |-> auth]
  <2>1. sent.id = new /\ sent.tag = tag /\ requests' = requests \union {sent}
    BY <1>3
  <2> HIDE DEF sent
  <2>2. CASE tag = "write"
    BY <2>1, <2>2 DEF InTransit
  <2>3. CASE tag # "write"
    BY <2>1, <2>3 DEF InTransit
  <2> QED
    BY <2>2, <2>3
<1>10. applied' = applied
  BY DEF Sends
<1>11. Acks' = Acks
  <2>1. CASE replies' = replies
    BY <2>1 DEF Acks
  <2>2. CASE replies' # replies
    <3>1. PICK r \in replies : replies' = replies \ {r} /\ ~IsAck(r)
      BY <2>2 DEF Sends
    <3> QED
      BY <3>1, OneReplyLess
  <2> QED
    BY <2>1, <2>2
<1>12. current' = [current EXCEPT ![c] = current'[c]]
  BY <1>3, <1>5
<1> QED
  BY <1>5, <1>6, <1>7, <1>8, <1>9, <1>10, <1>11, <1>12
  DEF Promise!Attempt, Promise!Fresh, InTransit, Acks

\* A return reports success only with an acknowledgement taken.
LEMMA ReturnReports ==
    ASSUME IInv, DatagramInv, NEW c \in Callers, Returns(c)
    PROVE  Promise!Succeed(c) \/ Promise!Fail(c)
<1>1. PICK said \in {"read", "written", "rejected", "failed"} :
          /\ Return(c, said)
          /\ \/ replies' = replies /\ said # "written"
             \/ \E r \in replies :
                  /\ replies' = replies \ {r}
                  /\ said = "written" => IsAck(r)
                  /\ FixedPort \/ r.id = current[c]
  BY DEF Returns
<1>2. /\ waiting' = [waiting EXCEPT ![c] = "nothing"]
      /\ outcome' = [outcome EXCEPT ![c] = said]
      /\ current' = current /\ requests' = requests /\ applied' = applied
  BY <1>1 DEF Return, Returns
<1>3. /\ waiting \in [Callers -> Awaited \union {"nothing"}]
      /\ outcome \in [Callers -> {"none", "read", "written", "rejected", "failed"}]
      /\ waiting[c] # "nothing"
  BY DEF IInv, TypeOK, Returns
<1>4. {d \in Callers : waiting'[d] # "nothing"} =
      {d \in Callers : waiting[d] # "nothing"} \ {c}
  BY <1>2, <1>3
<1>5. [d \in Callers |-> Reported(outcome'[d])] =
      [[d \in Callers |-> Reported(outcome[d])] EXCEPT ![c] = Reported(said)]
  BY <1>2, <1>3
<1>6. Promise!Report(c, Reported(said))
  BY <1>2, <1>3, <1>4, <1>5 DEF Promise!Report
<1>7. CASE said = "written"
  <2>1. PICK r \in replies :
            replies' = replies \ {r} /\ IsAck(r) /\ (FixedPort \/ r.id = current[c])
    BY <1>1, <1>7
  <2>2. r.id \in Acks /\ Acks' = Acks \ {r.id}
    BY <2>1, OneReplyLess
  <2>3. \E i \in Acks : (~FixedPort => i = current[c]) /\ Acks' = Acks \ {i}
    BY <2>1, <2>2
  <2>4. Promise!Report(c, "written")
    BY <1>6, <1>7 DEF Reported
  <2> QED
    BY <2>3, <2>4 DEF Promise!Succeed, Acks
<1>8. CASE said # "written"
  <2>1. Reported(said) = "other"
    BY <1>8 DEF Reported
  <2>2. Acks' = Acks \/ \E i \in Acks : Acks' = Acks \ {i}
    <3>1. CASE replies' = replies
      BY <3>1 DEF Acks
    <3>2. CASE \E r \in replies : replies' = replies \ {r}
      BY <3>2, OneReplyLess
    <3> QED
      BY <1>1, <3>1, <3>2
  <2> QED
    BY <1>6, <2>1, <2>2 DEF Promise!Fail, Acks
<1> QED
  BY <1>7, <1>8

\* The end of a write request applies or drops its attempt, and no other: two
\* requests never have one id.
LEMMA EndAppliesOrDrops ==
    ASSUME IInv, DatagramInv, NEW m \in requests, Ends(m)
    PROVE  [Promise!Next]_Promise!vars
<1>1. /\ requests' = requests \ {m}
      /\ waiting' = waiting /\ current' = current /\ outcome' = outcome
  BY DEF Ends, clientVars
<1>2. \A n \in requests : n.id = m.id => n = m
  BY DEF DatagramInv, OneRequest
<1>3. \/ Acks' = Acks /\ applied' = applied
      \/ m.tag = "write" /\ Acks' = Acks \union {m.id} /\ applied' = applied \union {m.id}
  <2>1. CASE replies' = replies /\ applied' = applied
    BY <2>1 DEF Acks
  <2>2. CASE \E r \in Reply :
                /\ replies' = replies \union {r} /\ r.id = m.id /\ r.tag = m.tag
                /\ applied' = IF IsAck(r) THEN applied \union {m.id} ELSE applied
    <3>1. PICK r \in Reply :
              /\ replies' = replies \union {r} /\ r.id = m.id /\ r.tag = m.tag
              /\ applied' = IF IsAck(r) THEN applied \union {m.id} ELSE applied
      BY <2>2
    <3>2. CASE IsAck(r)
      BY <3>1, <3>2 DEF Acks, IsAck
    <3>3. CASE ~IsAck(r)
      BY <3>1, <3>3 DEF Acks, IsAck
    <3> QED
      BY <3>2, <3>3
  <2> QED
    BY <2>1, <2>2 DEF Ends
<1>4. CASE m.tag = "write"
  <2>1. m.id \in InTransit
    BY <1>4 DEF InTransit
  <2>2. InTransit' = InTransit \ {m.id}
    BY <1>1, <1>2 DEF InTransit
  <2>3. Promise!Apply(m.id) \/ Promise!Drop(m.id)
    BY <1>1, <1>3, <2>2 DEF Promise!Apply, Promise!Drop, InTransit, Acks
  <2> QED
    BY <2>1, <2>3 DEF Promise!Next, InTransit
<1>5. CASE m.tag # "write"
  <2>1. InTransit' = InTransit
    BY <1>1, <1>5 DEF InTransit
  <2>2. Acks' = Acks /\ applied' = applied
    BY <1>3, <1>5
  <2> QED
    BY <1>1, <2>1, <2>2 DEF Promise!vars, InTransit, Acks
<1> QED
  BY <1>4, <1>5

\* A lost reply drops an acknowledgement or nothing.
LEMMA LossDropsAck ==
    ASSUME DatagramInv, LosesReply
    PROVE  [Promise!Next]_Promise!vars
<1>1. PICK r \in replies : replies' = replies \ {r}
  BY DEF LosesReply
<1>2. /\ requests' = requests /\ applied' = applied
      /\ waiting' = waiting /\ current' = current /\ outcome' = outcome
  BY DEF LosesReply, clientVars
<1>3. CASE IsAck(r)
  <2>1. r.id \in Acks /\ Acks' = Acks \ {r.id}
    BY <1>1, <1>3, OneReplyLess
  <2>2. Promise!DropAck(r.id)
    BY <1>2, <2>1 DEF Promise!DropAck, Acks
  <2> QED
    BY <2>1, <2>2 DEF Promise!Next, Acks
<1>4. CASE ~IsAck(r)
  <2>1. Acks' = Acks
    BY <1>1, <1>4, OneReplyLess
  <2> QED
    BY <1>2, <2>1 DEF Promise!vars, Acks
<1> QED
  BY <1>3, <1>4

\* The abstract specification (WriteCalls) is implemented on every port: a write
\* is applied at most once and acknowledged once (client.go:395), and a success
\* takes one acknowledgement: its own write's when each exchange has a port of
\* its own, some write's when all bind the default port (client.go:271).
THEOREM PromiseKept == Spec => KeepsPromise
<1>1. Init => Promise!Init
  <2> SUFFICES ASSUME Init PROVE Promise!Init
    OBVIOUS
  <2>1. current \in [Callers -> Ids]
    BY InitType DEF TypeOK
  <2> QED
    BY <2>1 DEF Init, Promise!Init, Reported
<1>2. IInv /\ DatagramInv /\ [Next]_vars => [Promise!Next]_Promise!vars
  <2> SUFFICES ASSUME IInv, DatagramInv, [Next]_vars
               PROVE  [Promise!Next]_Promise!vars
    OBVIOUS
  <2>1. ASSUME UNCHANGED vars PROVE UNCHANGED Promise!vars
    BY <2>1 DEF vars, clientVars, deviceVars, Promise!vars
  <2>2. ASSUME LosesReply PROVE [Promise!Next]_Promise!vars
    BY <2>2, LossDropsAck
  <2>3. ASSUME NEW c \in Callers, Sends(c) PROVE Promise!Next
    BY <2>3, SendAttempts DEF Promise!Next
  <2>4. ASSUME NEW c \in Callers, Returns(c) PROVE Promise!Next
    BY <2>4, ReturnReports DEF Promise!Next
  <2>5. ASSUME NEW m \in requests, Ends(m) PROVE [Promise!Next]_Promise!vars
    BY <2>5, EndAppliesOrDrops
  <2> QED
    BY <2>1, <2>2, <2>3, <2>4, <2>5, StepKinds
<1> QED
  BY <1>1, <1>2, DatagramsHold, PTL DEF Spec, KeepsPromise, Promise!Spec

-----------------------------------------------------------------------------
(* Rejections: the third layer of the invariant. *)

\* What the password TLV of a caller's write carries: a token folded with the
\* salt the caller has just read, or none.
Carries(c, auth) ==
    /\ c \in GoodPassword => auth.good
    /\ auth.scheme = IF token[c] = NoSalt THEN "v1" ELSE "v2"
    /\ token[c] # NoSalt => auth.salt = token[c]

OwnWrite(c) ==
    \A m \in requests : m.id = current[c] /\ waiting[c] = "write" => Carries(c, m.auth)

\* What makes the switch refuse the right password.
Cause(c) == OtherScheme(c) \/ (DeviceScheme = "v2" /\ salt # token[c])

\* A refusal of the caller's own write, returned or still on its way, has a cause.
Explained(c) ==
    c \in GoodPassword =>
        /\ outcome[c] = "rejected" => stray[c] \/ Cause(c)
        /\ \A r \in replies :
               r.id = current[c] /\ waiting[c] = "write" /\ r.result # "success" => Cause(c)

AuthInv == \A c \in Callers : OwnWrite(c) /\ Explained(c)

\* A send (client.go:338) keeps it when a write it sends carries the right
\* password TLV: the other callers' exchanges and the switch's salt stay.
LEMMA SendKeepsAuth ==
    ASSUME IInv, DatagramInv, AuthInv, NEW c \in Callers, NEW tag \in Awaited, NEW auth,
           Send(c, tag, auth), outcome' = [outcome EXCEPT ![c] = "none"],
           replies' \subseteq replies, salt' = salt,
           \A d \in Callers \ {c} : token'[d] = token[d],
           tag = "write" => Carries(c, auth)'
    PROVE  AuthInv'
<1>1. TypeOK
  BY DEF IInv
<1>2. /\ waiting \in [Callers -> Awaited \union {"nothing"}]
      /\ current \in [Callers -> Ids]
      /\ stray \in [Callers -> BOOLEAN]
      /\ outcome \in [Callers -> {"none", "read", "written", "rejected", "failed"}]
  BY <1>1 DEF TypeOK
<1>3. PICK new \in Ids :
          /\ current' = [current EXCEPT ![c] = new]
          /\ waiting' = [waiting EXCEPT ![c] = tag]
          /\ requests' = requests \union {[id |-> new, tag |-> tag, auth |-> auth]}
          /\ \A i \in Ids : Issued(i) => i # new
  BY <1>1, SendIsFresh
<1>4. /\ \A m \in requests \union replies : m.id # new
      /\ \A d \in Callers : current[d] # new
  BY <1>3, NamesAreIssued
<1>5. \A m \in requests' : m \in requests \/ (m.id = new /\ m.auth = auth)
  BY <1>3
<1>6. stray' = [stray EXCEPT ![c] = FALSE]
  BY DEF Send
<1>7. ASSUME NEW d \in Callers \ {c}
      PROVE  OwnWrite(d)' /\ Explained(d)'
  <2>1. /\ waiting'[d] = waiting[d] /\ current'[d] = current[d]
        /\ outcome'[d] = outcome[d] /\ token'[d] = token[d]
    BY <1>2, <1>3
  <2>2. stray'[d] = stray[d]
    BY <1>2, <1>6
  <2>3. OwnWrite(d) /\ Explained(d)
    BY DEF AuthInv
  <2>4. OwnWrite(d)'
    BY <1>4, <1>5, <2>1, <2>3 DEF OwnWrite, Carries
  <2>5. Explained(d)'
    BY <2>1, <2>2, <2>3 DEF Explained, Cause, OtherScheme
  <2> QED
    BY <2>4, <2>5
<1>8. waiting'[c] = tag /\ current'[c] = new /\ outcome'[c] = "none"
  BY <1>2, <1>3
<1>9. OwnWrite(c)'
  BY <1>4, <1>5, <1>8 DEF OwnWrite
<1>10. Explained(c)'
  BY <1>4, <1>8 DEF Explained
<1> QED
  BY <1>7, <1>9, <1>10 DEF AuthInv

\* buildAuthWrite (client.go:465): v1 sends the write at once, with a token
\* folded with nothing; v2 asks for a salt first.
LEMMA BuildKeepsAuth ==
    ASSUME IInv, DatagramInv, AuthInv, NEW c \in Callers, NEW scheme \in Schemes,
           BuildAuthWrite(c, scheme), replies' \subseteq replies, salt' = salt
    PROVE  AuthInv'
<1>1. token \in [Callers -> Ids \union {NoSalt}]
  BY DEF IInv, TypeOK
<1>2. /\ outcome' = [outcome EXCEPT ![c] = "none"]
      /\ token'[c] = NoSalt
      /\ \A d \in Callers \ {c} : token'[d] = token[d]
  BY <1>1 DEF BuildAuthWrite
<1>3. CASE scheme = "v2"
  <2>1. Send(c, "salt", NoAuth)
    BY <1>3 DEF BuildAuthWrite
  <2> QED
    BY <1>2, <2>1, SendKeepsAuth DEF Awaited
<1>4. CASE scheme # "v2"
  <2>1. Send(c, "write", Credential(c, "v1", NoSalt))
    BY <1>4 DEF BuildAuthWrite
  <2>2. Carries(c, Credential(c, "v1", NoSalt))'
    BY <1>2 DEF Carries, Credential
  <2> QED
    BY <1>2, <2>1, <2>2, SendKeepsAuth DEF Awaited
<1> QED
  BY <1>3, <1>4

\* A return (client.go:338, 376, 395) keeps it when a refusal it reports is
\* another write's or has its cause.
LEMMA ReturnKeepsAuth ==
    ASSUME IInv, AuthInv, NEW c \in Callers, NEW said, Return(c, said),
           replies' \subseteq replies, salt' = salt,
           \A d \in Callers \ {c} : stray'[d] = stray[d],
           c \in GoodPassword /\ said = "rejected" => stray'[c] \/ Cause(c)
    PROVE  AuthInv'
<1>1. /\ waiting \in [Callers -> Awaited \union {"nothing"}]
      /\ outcome \in [Callers -> {"none", "read", "written", "rejected", "failed"}]
  BY DEF IInv, TypeOK
<1>2. /\ waiting' = [waiting EXCEPT ![c] = "nothing"]
      /\ outcome' = [outcome EXCEPT ![c] = said]
      /\ current' = current /\ token' = token /\ requests' = requests
  BY DEF Return
<1>3. SUFFICES ASSUME NEW d \in Callers
               PROVE  OwnWrite(d)' /\ Explained(d)'
  BY DEF AuthInv
<1>4. OwnWrite(d) /\ Explained(d)
  BY DEF AuthInv
<1>5. waiting'[d] \in {waiting[d], "nothing"}
  BY <1>1, <1>2
<1>6. OwnWrite(d)'
  BY <1>2, <1>4, <1>5 DEF OwnWrite, Carries
<1>7. Explained(d)'
  <2>1. CASE d = c
    <3>1. outcome'[d] = said /\ waiting'[d] = "nothing"
      BY <1>1, <1>2, <2>1
    <3> QED
      BY <1>2, <2>1, <3>1 DEF Explained, Cause, OtherScheme
  <2>2. CASE d # c
    <3>1. outcome'[d] = outcome[d] /\ waiting'[d] = waiting[d] /\ stray'[d] = stray[d]
      BY <1>1, <1>2, <2>2
    <3> QED
      BY <1>2, <1>4, <3>1 DEF Explained, Cause, OtherScheme
  <2> QED
    BY <2>1, <2>2
<1> QED
  BY <1>6, <1>7

\* A call that begins keeps it (client.go:376, 395), with any scheme.
LEMMA CallKeepsAuth ==
    ASSUME IInv, DatagramInv, AuthInv, NEW c \in Callers, Call(c)
    PROVE  AuthInv'
<1>1. token \in [Callers -> Ids \union {NoSalt}]
  BY DEF IInv, TypeOK
<1>2. ASSUME Read(c) PROVE AuthInv'
  <2>1. /\ Send(c, "data", NoAuth) /\ outcome' = [outcome EXCEPT ![c] = "none"]
        /\ token' = token /\ replies' = replies /\ salt' = salt
    BY <1>2 DEF Read, deviceVars
  <2> QED
    BY <2>1, SendKeepsAuth DEF Awaited
<1>3. ASSUME WriteUnresolved(c) PROVE AuthInv'
  <2>1. /\ Send(c, "encpass", NoAuth) /\ outcome' = [outcome EXCEPT ![c] = "none"]
        /\ token' = [token EXCEPT ![c] = NoSalt]
        /\ replies' = replies /\ salt' = salt
    BY <1>3 DEF WriteUnresolved, deviceVars
  <2>2. \A d \in Callers \ {c} : token'[d] = token[d]
    BY <1>1, <2>1
  <2> QED
    BY <2>1, <2>2, SendKeepsAuth DEF Awaited
<1>4. ASSUME WriteResolved(c) PROVE AuthInv'
  <2>1. PICK scheme \in Schemes : BuildAuthWrite(c, scheme)
    BY <1>4 DEF WriteResolved
  <2>2. replies' = replies /\ salt' = salt
    BY <1>4 DEF WriteResolved, deviceVars
  <2> QED
    BY <2>1, <2>2, BuildKeepsAuth
<1> QED
  BY <1>2, <1>3, <1>4 DEF Call

\* A reply keeps it (client.go:376-494): the token is folded with the salt just
\* read, whoever asked for it, and a refusal is of the write just sent or read
\* off another write's reply.
LEMMA ReceiveKeepsAuth ==
    ASSUME IInv, DatagramInv, AuthInv, NEW c \in Callers, Receive(c)
    PROVE  AuthInv'
<1>1. /\ TypeOK /\ NoSalt \notin Ids
      /\ outcome \in [Callers -> {"none", "read", "written", "rejected", "failed"}]
      /\ token \in [Callers -> Ids \union {NoSalt}]
      /\ stray \in [Callers -> BOOLEAN]
  BY ClientAssumption DEF ClientAssumption, IInv, TypeOK
<1>2. PICK m \in replies :
          \/ ReceiveUnexpected(c, m) \/ ReceiveData(c, m) \/ ReceiveEncpass(c, m)
          \/ ReceiveSalt(c, m) \/ ReceiveNoSalt(c, m) \/ ReceiveWritten(c, m)
  BY DEF Receive
<1>3. Reaches(m, c) /\ Take(m)
  BY <1>2 DEF ReceiveUnexpected, ReceiveData, ReceiveEncpass, ReceiveSalt,
              ReceiveNoSalt, ReceiveWritten
<1>4. outcome[c] = "none" /\ m.id \in Ids /\ SchemeIn(m) \in Schemes
  BY <1>1, <1>3, ReplyType DEF IInv, BusyIsSilent, Reaches
<1>5. replies' \subseteq replies /\ salt' = salt
  BY <1>3 DEF Take, deviceVars
<1>6. ASSUME ReceiveUnexpected(c, m) \/ ReceiveNoSalt(c, m) \/ ReceiveData(c, m)
      PROVE  AuthInv'
  <2>1. PICK said \in {"failed", "read"} : Return(c, said) /\ stray' = stray
    BY <1>6 DEF ReceiveUnexpected, ReceiveNoSalt, ReceiveData
  <2>2. said # "rejected"
    BY <2>1
  <2> QED
    BY <1>5, <2>1, <2>2, ReturnKeepsAuth
<1>7. ASSUME ReceiveWritten(c, m) PROVE AuthInv'
  <2>1. /\ Return(c, CheckResult(m)) /\ waiting[c] = "write"
        /\ stray' = [stray EXCEPT ![c] = m.id # current[c]]
    BY <1>7 DEF ReceiveWritten
  <2>2. CheckResult(m) = "rejected" => m.result # "success"
    BY DEF CheckResult
  <2>3. c \in GoodPassword /\ CheckResult(m) = "rejected" => stray'[c] \/ Cause(c)
    <3>1. CASE m.id = current[c]
      BY <2>1, <2>2, <3>1 DEF AuthInv, Explained
    <3>2. CASE m.id # current[c]
      BY <1>1, <2>1, <3>2
    <3> QED
      BY <3>1, <3>2
  <2>4. \A d \in Callers \ {c} : stray'[d] = stray[d]
    BY <1>1, <2>1
  <2> QED
    BY <1>5, <2>1, <2>3, <2>4, ReturnKeepsAuth
<1>8. ASSUME ReceiveEncpass(c, m) PROVE AuthInv'
  <2>1. BuildAuthWrite(c, SchemeIn(m))
    BY <1>8 DEF ReceiveEncpass
  <2> QED
    BY <1>4, <1>5, <2>1, BuildKeepsAuth
<1>9. ASSUME ReceiveSalt(c, m) PROVE AuthInv'
  <2>1. /\ outcome' = outcome /\ token' = [token EXCEPT ![c] = m.id]
        /\ Send(c, "write", Credential(c, "v2", m.id))
    BY <1>9 DEF ReceiveSalt
  <2>2. outcome' = [outcome EXCEPT ![c] = "none"]
    BY <1>1, <1>4, <2>1
  <2>3. token'[c] = m.id /\ \A d \in Callers \ {c} : token'[d] = token[d]
    BY <1>1, <2>1
  <2>4. Carries(c, Credential(c, "v2", m.id))'
    BY <1>1, <1>4, <2>3 DEF Carries, Credential
  <2> QED
    BY <1>5, <2>1, <2>2, <2>3, <2>4, SendKeepsAuth DEF Awaited
<1> QED
  BY <1>2, <1>6, <1>7, <1>8, <1>9

\* The switch keeps it (nsdpface.go:217-386): a new salt is none a token was
\* folded with, and a refused write of a good caller is of the other scheme or
\* was folded with an old salt.
LEMMA DeviceKeepsAuth ==
    ASSUME IInv, DatagramInv, AuthInv, Device \/ Lose
    PROVE  AuthInv'
<1>1. UNCHANGED clientVars /\ requests' \subseteq requests
  BY DEF Device, DeviceRead, DeviceWrite, DeviceReject, DeviceIgnore, Answer, Lose
<1>2. \A c \in Callers : Cause(c) => Cause(c)'
  <2>1. salt' = salt \/ \E m \in requests : salt' = m.id
    BY DEF Device, DeviceRead, DeviceWrite, DeviceReject, DeviceIgnore, Lose, deviceVars
  <2>2. \A m \in requests : \A c \in Callers : m.id # token[c]
    BY DEF DatagramInv, TokensSpent
  <2> QED
    BY <1>1, <2>1, <2>2 DEF Cause, OtherScheme, clientVars
<1>3. ASSUME NEW c \in Callers, NEW r \in replies', r \notin replies,
             c \in GoodPassword,
             r.id = current[c], waiting[c] = "write", r.result # "success"
      PROVE  Cause(c)'
  <2>1. PICK m \in requests : DeviceReject(m) /\ r.id = m.id
    <3>1. ~Lose
      BY <1>3 DEF Lose
    <3>2. PICK m \in requests :
              DeviceRead(m) \/ DeviceWrite(m) \/ DeviceReject(m) \/ DeviceIgnore(m)
      BY <3>1 DEF Device
    <3>3. ~DeviceIgnore(m)
      BY <1>3 DEF DeviceIgnore
    <3>4. ASSUME NEW said, Answer(m, said) PROVE r.id = m.id /\ r.result = said
      BY <1>3, <3>4 DEF Answer
    <3>5. ~DeviceRead(m) /\ ~DeviceWrite(m)
      BY <1>3, <3>4 DEF DeviceRead, DeviceWrite
    <3>6. DeviceReject(m)
      BY <3>2, <3>3, <3>5
    <3>7. r.id = m.id
      BY <3>4, <3>6 DEF DeviceReject
    <3> QED
      BY <3>6, <3>7
  <2>2. ~Authentic(m.auth)
    BY <2>1 DEF DeviceReject
  <2>3. Carries(c, m.auth)
    BY <1>3, <2>1 DEF AuthInv, OwnWrite
  <2>4. DeviceScheme \in {"v1", "v2"}
    BY ClientAssumption DEF ClientAssumption
  <2>5. Cause(c)
    BY <1>3, <2>2, <2>3, <2>4 DEF Authentic, Carries, Cause, OtherScheme
  <2> QED
    BY <1>2, <2>5
<1>4. \A c \in Callers : OwnWrite(c)'
  BY <1>1 DEF AuthInv, OwnWrite, Carries, clientVars
<1>5. ASSUME NEW c \in Callers PROVE Explained(c)'
  <2>1. Explained(c) /\ (Cause(c) => Cause(c)')
    BY <1>2 DEF AuthInv
  <2>2. outcome' = outcome /\ waiting' = waiting /\ current' = current /\ stray' = stray
    BY <1>1 DEF clientVars
  <2> QED
    BY <1>3, <2>1, <2>2 DEF Explained
<1> QED
  BY <1>4, <1>5 DEF AuthInv

\* On every port, the right password is refused only when the write went out
\* under the other scheme, when a salt was issued to another exchange after its
\* own (client.go:465), or when the refusal was another write's.
THEOREM RejectionExplained == Spec => []RejectionHasCause
<1>1. Init => AuthInv
  BY DEF Init, AuthInv, OwnWrite, Explained
<1>2. IInv /\ DatagramInv /\ AuthInv /\ [Next]_vars => AuthInv'
  <2> SUFFICES ASSUME IInv, DatagramInv, AuthInv, [Next]_vars PROVE AuthInv'
    OBVIOUS
  <2>1. ASSUME UNCHANGED vars PROVE AuthInv'
    BY <2>1 DEF vars, clientVars, deviceVars, AuthInv, OwnWrite, Explained, Carries,
                Cause, OtherScheme
  <2>2. ASSUME NEW c \in Callers, Timeout(c) PROVE AuthInv'
    <3>1. Return(c, "failed") /\ replies' = replies /\ salt' = salt /\ stray' = stray
      BY <2>2 DEF Timeout, deviceVars
    <3> QED
      BY <3>1, ReturnKeepsAuth
  <2> QED
    BY <2>1, <2>2, CallKeepsAuth, ReceiveKeepsAuth, DeviceKeepsAuth DEF Next
<1>3. AuthInv => RejectionHasCause
  BY ClientAssumption DEF ClientAssumption, AuthInv, Explained, RejectionHasCause, Cause
<1> QED
  BY <1>1, <1>2, <1>3, DatagramsHold, PTL DEF Spec

-----------------------------------------------------------------------------
(* NsdpWriter: the inductive invariant. *)

\* A TLV does what its operation asks (writer.go's TLV builders, membersAfter).
CarriesOut(t, o) ==
    \/ o.kind = "pvid" /\ t.tag = "pvid" /\ t.port = o.port /\ t.vlan = o.vlan
    \/ /\ o.kind = "member" /\ t.tag = "members" /\ t.vlan = o.vlan
       /\ o.port \in t.member <=> o.mode # "excluded"
       /\ o.port \in t.tagged <=> o.mode = "tagged"
    \/ o.kind = "create" /\ t.tag = "members" /\ t.vlan = o.vlan
    \/ o.kind = "delete" /\ t.tag = "destroy" /\ t.vlan = OnWire(o.vlan)
    \/ o.kind = "setting" /\ t.tag = "setting" /\ t.setting = o.setting /\ t.value = o.value

\* A write in flight is of its caller's latest call, which has read already, or
\* of an earlier one.
IssuedWrite(w) ==
    /\ w.call <= calls[w.caller]
    /\ w.call = calls[w.caller] => w.op = op[w.caller] /\ pc[w.caller] # "before"

\* Unless another write has been applied since its read, it is what its operation
\* would send now.
Fresh(w) == ~w.disturbed => w.tlv = Tlv(w.op) /\ ~AlreadyThere(w.op)

FlightInv(w) == IssuedWrite(w) /\ CarriesOut(w.tlv, w.op) /\ Fresh(w)

\* A call whose write has been applied, and no other since, reads back well.
CallInv(c) ==
    /\ pc[c] = "before" => ~acked[c]
    /\ pc[c] = "await" /\ acked[c] /\ ~disturbed[c] => ReadsBack(op[c])

WriterInv ==
    /\ WriterTypeOK
    /\ \A w \in inFlight : FlightInv(w)
    /\ \A c \in Writers : CallInv(c)

-----------------------------------------------------------------------------
(* Operations and TLVs. *)

\* uint16 (write_tlv.go:18): the ids on the wire are those of 16 bits, and an id
\* that has them already travels as it is.
LEMMA WireIds ==
    /\ \A v \in VlanIds : OnWire(v) \in WireVlans
    /\ \A v \in VlanIds : v < Uint16 => OnWire(v) = v
    /\ \A v \in WireVlans : v \in Nat /\ v < Uint16
<1>1. \A v \in Nat : v % 65536 \in Nat /\ v % 65536 < 65536 /\ (v < 65536 => v % 65536 = v)
  OBVIOUS
<1>2. VlanIds \subseteq Nat
  BY WriterAssumption DEF WriterAssumption
<1>3. \A v \in VlanIds : OnWire(v) \in WireVlans
  BY Zenon DEF WireVlans
<1>4. Uint16 = 65536
  BY DEF Uint16
<1>5. \A v \in VlanIds : OnWire(v) = v % Uint16
  BY Zenon DEF OnWire
<1>6. \A v \in VlanIds : v % Uint16 \in Nat /\ v % Uint16 < Uint16 /\ (v < Uint16 => v % Uint16 = v)
  <2>1. TAKE v \in VlanIds
  <2>2. v \in Nat
    BY <1>2
  <2>3. v % 65536 \in Nat /\ v % 65536 < 65536 /\ (v < 65536 => v % 65536 = v)
    BY <1>1, <2>2
  <2> QED
    BY <1>4, <2>3
<1>7. \A v \in VlanIds : OnWire(v) \in Nat /\ OnWire(v) < Uint16
  BY <1>5, <1>6
<1>8. \A v \in VlanIds : v < Uint16 => OnWire(v) = v
  BY <1>5, <1>6
<1>9. \A v \in WireVlans : v \in Nat /\ v < Uint16
  BY <1>7, Zenon DEF WireVlans
<1> QED
  BY <1>3, <1>8, <1>9, Zenon

\* The fields an operation of each kind has.
LEMMA OpFields ==
    ASSUME NEW o \in Ops
    PROVE  /\ o.kind \in {"pvid", "member", "create", "delete", "setting"}
           /\ o.kind \in {"pvid", "member"} => o.port \in Ports
           /\ o.kind # "setting" => o.vlan \in VlanIds
           /\ o.kind = "member" => o.mode \in Modes
           /\ o.kind = "setting" => o.setting \in Settings /\ o.value \in Values
<1>1. o \in Operation
  BY WriterAssumption DEF WriterAssumption
<1>2. CASE o \in PvidOp
  BY <1>2 DEF PvidOp
<1>3. CASE o \in MemberOp
  BY <1>3 DEF MemberOp
<1>4. CASE o \in CreateOp
  BY <1>4 DEF CreateOp
<1>5. CASE o \in DeleteOp
  BY <1>5 DEF DeleteOp
<1>6. CASE o \in SettingOp
  BY <1>6 DEF SettingOp
<1> QED
  BY <1>1, <1>2, <1>3, <1>4, <1>5, <1>6 DEF Operation

\* The fields a TLV of each tag has.
LEMMA TlvFields ==
    ASSUME NEW t \in Tlvs
    PROVE  /\ t.tag \in {"pvid", "members", "destroy", "setting"}
           /\ t.tag = "pvid" => t.port \in Ports
           /\ t.tag # "setting" => t.vlan \in WireVlans
           /\ t.tag = "members" => t.member \in SUBSET Ports /\ t.tagged \in SUBSET Ports
           /\ t.tag = "setting" => t.setting \in Settings /\ t.value \in Values
           /\ t.tag = "setting" /\ t.setting \in DeviceSettings => t.value \notin BadValues
<1>1. \A s \in DOMAIN PortSettings : s \notin DeviceSettings
  BY WriterAssumption DEF WriterAssumption
<1> QED
  BY <1>1 DEF Tlvs, Settings

\* A VLAN as read has members among the ports, and tagged ports among its members.
LEMMA CurrentType ==
    ASSUME WriterTypeOK, NEW v
    PROVE  /\ Current(v).member \in SUBSET Ports /\ Current(v).tagged \in SUBSET Ports
           /\ Current(v).tagged \subseteq Current(v).member
<1>1. CASE v \in DOMAIN vlans
  BY <1>1 DEF WriterTypeOK, Current, Vlan
<1>2. CASE v \notin DOMAIN vlans
  BY <1>2 DEF Current, NoMembers
<1> QED
  BY <1>1, <1>2

\* membersAfter puts the port where it was asked to be.
LEMMA MembersAfterType ==
    ASSUME NEW cur, cur.member \in SUBSET Ports, cur.tagged \in SUBSET Ports,
           cur.tagged \subseteq cur.member, NEW p \in Ports, NEW mode \in Modes
    PROVE  /\ MembersAfter(cur, p, mode).member \in SUBSET Ports
           /\ MembersAfter(cur, p, mode).tagged \in SUBSET Ports
           /\ p \in MembersAfter(cur, p, mode).member <=> mode # "excluded"
           /\ p \in MembersAfter(cur, p, mode).tagged <=> mode = "tagged"
           /\ \A q \in Ports \ {p} :
                  /\ q \in MembersAfter(cur, p, mode).member <=> q \in cur.member
                  /\ q \in MembersAfter(cur, p, mode).tagged <=> q \in cur.tagged
BY DEF MembersAfter, Modes

\* The TLV built for an operation can be sent, and does what was asked.
LEMMA TlvOK ==
    ASSUME WriterTypeOK, NEW o \in Ops, Encodable(o)
    PROVE  Tlv(o) \in Tlvs /\ CarriesOut(Tlv(o), o)
<1>1. o.kind \in {"pvid", "member", "create", "delete", "setting"}
  BY OpFields
<1>2. CASE o.kind = "pvid"
  <2>1. Tlv(o) = [tag |-> "pvid", port |-> o.port, vlan |-> o.vlan]
    BY <1>2 DEF Tlv
  <2>2. o.port \in Ports /\ o.vlan \in WireVlans
    BY <1>2, OpFields, WireIds DEF Encodable
  <2> QED
    BY <1>2, <2>1, <2>2 DEF Tlvs, CarriesOut
<1>3. CASE o.kind = "member"
  <2> DEFINE after == MembersAfter(Current(o.vlan), o.port, o.mode)
  <2>1. Tlv(o) = [tag |-> "members", vlan |-> o.vlan,
                  member |-> after.member, tagged |-> after.tagged]
    BY <1>3 DEF Tlv
  <2>2. o.port \in Ports /\ o.mode \in Modes /\ o.vlan \in WireVlans
    BY <1>3, OpFields, WireIds DEF Encodable
  <2>3. /\ Current(o.vlan).member \in SUBSET Ports /\ Current(o.vlan).tagged \in SUBSET Ports
        /\ Current(o.vlan).tagged \subseteq Current(o.vlan).member
    BY CurrentType
  <2>4. /\ after.member \in SUBSET Ports /\ after.tagged \in SUBSET Ports
        /\ o.port \in after.member <=> o.mode # "excluded"
        /\ o.port \in after.tagged <=> o.mode = "tagged"
    BY <2>2, <2>3, MembersAfterType
  <2> HIDE DEF after
  <2> QED
    BY <1>3, <2>1, <2>2, <2>4 DEF Tlvs, CarriesOut
<1>4. CASE o.kind = "create"
  <2>1. Tlv(o) = [tag |-> "members", vlan |-> o.vlan, member |-> {}, tagged |-> {}]
    BY <1>4 DEF Tlv
  <2>2. o.vlan \in WireVlans
    BY <1>4, OpFields, WireIds DEF Encodable
  <2> QED
    BY <1>4, <2>1, <2>2 DEF Tlvs, CarriesOut
<1>5. CASE o.kind = "delete"
  <2>1. Tlv(o) = [tag |-> "destroy", vlan |-> OnWire(o.vlan)]
    BY <1>5 DEF Tlv
  <2>2. OnWire(o.vlan) \in WireVlans
    BY <1>5, OpFields, WireIds
  <2> QED
    BY <1>5, <2>1, <2>2 DEF Tlvs, CarriesOut
<1>6. CASE o.kind = "setting"
  <2>1. Tlv(o) = [tag |-> "setting", setting |-> o.setting, value |-> o.value]
    BY <1>6 DEF Tlv
  <2>2. /\ o.setting \in DeviceSettings \union DOMAIN PortSettings /\ o.value \in Values
        /\ o.setting \in DeviceSettings => o.value \notin BadValues
    BY <1>6, OpFields DEF Encodable, Settings
  <2>3. Tlv(o) \in Tlvs
    <3>1. CASE o.setting \in DeviceSettings
      BY <2>1, <2>2, <3>1 DEF Tlvs
    <3>2. CASE o.setting \in DOMAIN PortSettings
      BY <2>1, <2>2, <3>2 DEF Tlvs
    <3> QED
      BY <2>2, <3>1, <3>2
  <2> QED
    BY <1>6, <2>1, <2>3 DEF CarriesOut
<1> QED
  BY <1>1, <1>2, <1>3, <1>4, <1>5, <1>6

-----------------------------------------------------------------------------
(* A TLV applied (State.ApplyNsdpWrite). *)

\* The tables of the switch are tables.
SwitchOK ==
    /\ DOMAIN vlans \subseteq WireVlans
    /\ \A v \in DOMAIN vlans : vlans[v] \in Vlan /\ vlans[v].tagged \subseteq vlans[v].member
    /\ pvid \in [Ports -> WireVlans]
    /\ setting \in [Settings -> Values]
    /\ \A s \in DeviceSettings : setting[s] \notin BadValues

\* What each TLV makes of the tables.
LEMMA ApplyEffect ==
    ASSUME NEW t \in Tlvs, ApplyTlv(t)
    PROVE  \/ /\ t.tag = "pvid" /\ pvid' = [pvid EXCEPT ![t.port] = t.vlan]
              /\ vlans' = vlans /\ setting' = setting
           \/ /\ t.tag = "members" /\ pvid' = pvid /\ setting' = setting
              /\ DOMAIN vlans' = DOMAIN vlans \union {t.vlan}
              /\ vlans'[t.vlan] = [member |-> t.member, tagged |-> t.member \intersect t.tagged]
              /\ \A v \in DOMAIN vlans \ {t.vlan} : vlans'[v] = vlans[v]
           \/ /\ t.tag = "destroy" /\ setting' = setting
              /\ DOMAIN vlans' = DOMAIN vlans \ {t.vlan}
              /\ \A v \in DOMAIN vlans \ {t.vlan} : vlans'[v] = vlans[v]
              /\ pvid' = [p \in Ports |-> IF t.vlan \in DOMAIN vlans /\ pvid[p] = t.vlan
                                          THEN DefaultVlan ELSE pvid[p]]
           \/ /\ t.tag = "setting" /\ setting' = [setting EXCEPT ![t.setting] = t.value]
              /\ vlans' = vlans /\ pvid' = pvid
<1>1. t.tag \in {"pvid", "members", "destroy", "setting"}
  BY TlvFields
<1>2. CASE t.tag = "pvid"
  BY <1>2 DEF ApplyTlv
<1>3. CASE t.tag = "members"
  BY <1>3 DEF ApplyTlv
<1>4. CASE t.tag = "destroy"
  BY <1>4 DEF ApplyTlv
<1>5. CASE t.tag = "setting"
  BY <1>5 DEF ApplyTlv
<1> QED
  BY <1>1, <1>2, <1>3, <1>4, <1>5

\* The tables stay tables.
LEMMA ApplyTypes ==
    ASSUME SwitchOK, NEW t \in Tlvs, ApplyTlv(t)
    PROVE  SwitchOK'
<1>1. /\ t.tag = "pvid" => t.port \in Ports
      /\ t.tag # "setting" => t.vlan \in WireVlans
      /\ t.tag = "members" => t.member \in SUBSET Ports /\ t.tagged \in SUBSET Ports
      /\ t.tag = "setting" => t.setting \in Settings /\ t.value \in Values
      /\ t.tag = "setting" /\ t.setting \in DeviceSettings => t.value \notin BadValues
      /\ DefaultVlan \in WireVlans
  BY TlvFields, WriterAssumption DEF WriterAssumption
<1>2. CASE /\ t.tag = "pvid" /\ pvid' = [pvid EXCEPT ![t.port] = t.vlan]
           /\ vlans' = vlans /\ setting' = setting
  BY <1>1, <1>2 DEF SwitchOK
<1>3. ASSUME t.tag = "members", pvid' = pvid, setting' = setting,
             DOMAIN vlans' = DOMAIN vlans \union {t.vlan},
             vlans'[t.vlan] = [member |-> t.member, tagged |-> t.member \intersect t.tagged],
             \A v \in DOMAIN vlans \ {t.vlan} : vlans'[v] = vlans[v]
      PROVE  SwitchOK'
  <2> DEFINE row == [member |-> t.member, tagged |-> t.member \intersect t.tagged]
  <2>1. row \in Vlan /\ row.tagged \subseteq row.member
    BY <1>1, <1>3 DEF Vlan
  <2>2. \A v \in DOMAIN vlans' :
            vlans'[v] \in Vlan /\ vlans'[v].tagged \subseteq vlans'[v].member
    <3> HIDE DEF row
    <3>1. vlans'[t.vlan] = row
      BY <1>3 DEF row
    <3> QED
      BY <1>3, <2>1, <3>1 DEF SwitchOK
  <2> QED
    BY <1>1, <1>3, <2>2 DEF SwitchOK
<1>4. ASSUME t.tag = "destroy", setting' = setting,
             DOMAIN vlans' = DOMAIN vlans \ {t.vlan},
             \A v \in DOMAIN vlans \ {t.vlan} : vlans'[v] = vlans[v],
             pvid' = [p \in Ports |-> IF t.vlan \in DOMAIN vlans /\ pvid[p] = t.vlan
                                      THEN DefaultVlan ELSE pvid[p]]
      PROVE  SwitchOK'
  <2>1. pvid' \in [Ports -> WireVlans]
    BY <1>1, <1>4 DEF SwitchOK
  <2>2. \A v \in DOMAIN vlans' :
            vlans'[v] \in Vlan /\ vlans'[v].tagged \subseteq vlans'[v].member
    BY <1>4 DEF SwitchOK
  <2> QED
    BY <1>4, <2>1, <2>2 DEF SwitchOK
<1>5. CASE /\ t.tag = "setting" /\ setting' = [setting EXCEPT ![t.setting] = t.value]
           /\ vlans' = vlans /\ pvid' = pvid
  <2>1. setting' \in [Settings -> Values]
    BY <1>1, <1>5 DEF SwitchOK
  <2>2. ASSUME NEW s \in DeviceSettings PROVE setting'[s] \notin BadValues
    BY <1>1, <1>5, <2>2 DEF SwitchOK, Settings
  <2> QED
    BY <1>5, <2>1, <2>2 DEF SwitchOK
<1> QED
  BY <1>2, <1>3, <1>4, <1>5, ApplyEffect

\* The row a VLAN_MEMBERS record leaves.
LEMMA MembersEffect ==
    ASSUME NEW t \in Tlvs, t.tag = "members", ApplyTlv(t), NEW v, v = t.vlan
    PROVE  /\ DOMAIN vlans' = DOMAIN vlans \union {v}
           /\ vlans'[v].member = t.member
           /\ vlans'[v].tagged = t.member \intersect t.tagged
           /\ \A u \in DOMAIN vlans \ {v} : vlans'[u] = vlans[u]
<1>1. /\ DOMAIN vlans' = DOMAIN vlans \union {t.vlan}
      /\ vlans'[t.vlan] = [member |-> t.member, tagged |-> t.member \intersect t.tagged]
      /\ \A u \in DOMAIN vlans \ {t.vlan} : vlans'[u] = vlans[u]
  BY DEF ApplyTlv
<1> QED
  BY <1>1

\* A write applied has done what its operation asked (membershipOK and the other
\* comparisons of verify-after-write).
LEMMA ApplyAchieves ==
    ASSUME SwitchOK, NEW t \in Tlvs, NEW o \in Ops, CarriesOut(t, o), ApplyTlv(t)
    PROVE  ReadsBack(o)'
<1>1. CASE o.kind = "pvid"
  <2>1. t.tag = "pvid" /\ t.port = o.port /\ t.vlan = o.vlan /\ o.port \in Ports
    BY <1>1, OpFields DEF CarriesOut
  <2>2. pvid' = [pvid EXCEPT ![o.port] = o.vlan]
    BY <2>1, ApplyEffect
  <2>3. pvid'[o.port] = o.vlan
    BY <2>1, <2>2 DEF SwitchOK
  <2> QED
    BY <1>1, <2>3 DEF ReadsBack
<1>2. CASE o.kind = "member"
  <2>1. /\ t.tag = "members" /\ t.vlan = o.vlan
        /\ o.port \in t.member <=> o.mode # "excluded"
        /\ o.port \in t.tagged <=> o.mode = "tagged"
    BY <1>2 DEF CarriesOut
  <2>2. /\ o.vlan \in DOMAIN vlans' /\ vlans'[o.vlan].member = t.member
        /\ vlans'[o.vlan].tagged = t.member \intersect t.tagged
    BY <2>1, MembersEffect
  <2>3. MembershipOK(o.vlan, o.port, o.mode)'
    BY <2>1, <2>2 DEF MembershipOK
  <2> QED
    BY <1>2, <2>3 DEF ReadsBack
<1>3. CASE o.kind = "create"
  <2>1. t.tag = "members" /\ t.vlan = o.vlan
    BY <1>3 DEF CarriesOut
  <2>2. o.vlan \in DOMAIN vlans'
    BY <2>1, ApplyEffect
  <2> QED
    BY <1>3, <2>2 DEF ReadsBack
<1>4. CASE o.kind = "delete"
  <2>1. t.tag = "destroy" /\ t.vlan = OnWire(o.vlan) /\ o.vlan \in VlanIds
    BY <1>4, OpFields DEF CarriesOut
  <2>2. DOMAIN vlans' = DOMAIN vlans \ {OnWire(o.vlan)} /\ DOMAIN vlans \subseteq WireVlans
    BY <2>1, ApplyEffect DEF SwitchOK
  <2>3. o.vlan \notin DOMAIN vlans'
    BY <2>1, <2>2, WireIds
  <2> QED
    BY <1>4, <2>3 DEF ReadsBack
<1>5. CASE o.kind = "setting"
  <2>1. t.tag = "setting" /\ t.setting = o.setting /\ t.value = o.value /\ o.setting \in Settings
    BY <1>5, OpFields DEF CarriesOut
  <2>2. setting' = [setting EXCEPT ![o.setting] = o.value]
    BY <2>1, ApplyEffect
  <2>3. setting'[o.setting] = o.value
    BY <2>1, <2>2 DEF SwitchOK
  <2> QED
    BY <1>5, <2>3 DEF ReadsBack
<1> QED
  BY <1>1, <1>2, <1>3, <1>4, <1>5, OpFields

\* A write built from the VLAN as it is changes no membership but its target
\* (membersAfter; an empty member list only where there is no VLAN yet).
LEMMA ApplyOnTarget ==
    ASSUME SwitchOK, NEW o \in Ops, NEW t \in Tlvs, t = Tlv(o), ~AlreadyThere(o),
           ApplyTlv(t), NEW v, NEW p \in Ports, ~Target(o, v, p)
    PROVE  Mode(vlans', v, p) = Mode(vlans, v, p)
<1>1. o.kind \in {"pvid", "member", "create", "delete", "setting"}
  BY OpFields
<1>2. CASE o.kind \in {"pvid", "setting"}
  <2>1. t.tag \in {"pvid", "setting"}
    BY <1>2 DEF Tlv
  <2>2. vlans' = vlans
    BY <2>1, ApplyEffect
  <2> QED
    BY <2>2 DEF Mode
<1>3. CASE o.kind = "create"
  <2>1. t.tag = "members" /\ t.vlan = o.vlan /\ t.member = {}
    BY <1>3 DEF Tlv
  <2>2. /\ DOMAIN vlans' = DOMAIN vlans \union {o.vlan}
        /\ vlans'[o.vlan].member = {}
        /\ \A u \in DOMAIN vlans \ {o.vlan} : vlans'[u] = vlans[u]
    BY <2>1, MembersEffect
  <2>3. o.vlan \notin DOMAIN vlans
    BY <1>3 DEF AlreadyThere
  <2> QED
    BY <2>2, <2>3 DEF Mode
<1>4. CASE o.kind = "delete"
  <2> DEFINE gone == OnWire(o.vlan)
  <2>1. t.tag = "destroy" /\ t.vlan = gone /\ v # gone
    BY <1>4 DEF Tlv, Target
  <2>2. /\ DOMAIN vlans' = DOMAIN vlans \ {gone}
        /\ \A u \in DOMAIN vlans \ {gone} : vlans'[u] = vlans[u]
    BY <2>1, ApplyEffect
  <2> QED
    BY <2>1, <2>2 DEF Mode
<1>5. CASE o.kind = "member"
  <2> DEFINE cur == Current(o.vlan)
             after == MembersAfter(cur, o.port, o.mode)
  <2>1. t.tag = "members" /\ t.vlan = o.vlan /\ t.member = after.member /\ t.tagged = after.tagged
    BY <1>5 DEF Tlv
  <2>2. /\ DOMAIN vlans' = DOMAIN vlans \union {o.vlan}
        /\ vlans'[o.vlan].member = after.member
        /\ vlans'[o.vlan].tagged = after.member \intersect after.tagged
        /\ \A u \in DOMAIN vlans \ {o.vlan} : vlans'[u] = vlans[u]
    <3> HIDE DEF after
    <3> QED
      BY <2>1, MembersEffect
  <2>3. CASE v # o.vlan
    BY <2>2, <2>3 DEF Mode
  <2>4. CASE v = o.vlan
    <3>1. p # o.port
      BY <1>5, <2>4 DEF Target
    <3>2. (p \in after.member <=> p \in cur.member) /\ (p \in after.tagged <=> p \in cur.tagged)
      BY <3>1 DEF MembersAfter
    <3>3. CASE v \in DOMAIN vlans
      <4>1. cur = vlans[v]
        BY <2>4, <3>3 DEF Current
      <4> HIDE DEF after, cur
      <4> QED
        BY <2>2, <2>4, <3>2, <3>3, <4>1 DEF Mode
    <3>4. CASE v \notin DOMAIN vlans
      <4>1. p \notin cur.member
        BY <2>4, <3>4 DEF Current, NoMembers
      <4> HIDE DEF after, cur
      <4> QED
        BY <2>2, <2>4, <3>2, <3>4, <4>1 DEF Mode
    <3> QED
      BY <3>3, <3>4
  <2> QED
    BY <2>3, <2>4
<1> QED
  BY <1>1, <1>2, <1>3, <1>4, <1>5

-----------------------------------------------------------------------------
(* The invariant, step by step. *)

FlightRec == [caller : Writers, call : Nat, op : Ops, tlv : Tlvs, disturbed : BOOLEAN]

\* The variables of the calls stay in their types.
CallsOK ==
    /\ pc \in [Writers -> {"idle", "before", "await"}]
    /\ op \in [Writers -> Ops]
    /\ calls \in [Writers -> Nat]
    /\ acked \in [Writers -> BOOLEAN]
    /\ result \in [Writers -> {"none", "ok", "refused", "absent", "invalid",
                               "mismatch", "failed"}]
    /\ disturbed \in [Writers -> BOOLEAN]

LEMMA TypeParts == WriterTypeOK <=> CallsOK /\ inFlight \subseteq FlightRec /\ SwitchOK
BY DEF WriterTypeOK, CallsOK, FlightRec, SwitchOK

\* A write stays issued, and what its operation would send, while the switch is
\* left alone and no caller goes back to reading for the same call.
LEMMA FlightKept ==
    ASSUME NEW w, FlightInv(w), vlans' = vlans,
           \/ /\ calls'[w.caller] = calls[w.caller] /\ op'[w.caller] = op[w.caller]
              /\ pc'[w.caller] = pc[w.caller] \/ pc'[w.caller] # "before"
           \/ /\ w.call \in Nat /\ calls[w.caller] \in Nat
              /\ calls'[w.caller] = calls[w.caller] + 1
    PROVE  FlightInv(w)'
<1>1. IssuedWrite(w) /\ CarriesOut(w.tlv, w.op) /\ Fresh(w)
  BY DEF FlightInv
<1>2. IssuedWrite(w)'
  BY <1>1 DEF IssuedWrite
<1>3. CarriesOut(w.tlv, w.op)'
  BY <1>1 DEF CarriesOut
<1>4. Fresh(w)'
  BY <1>1 DEF Fresh, Tlv, AlreadyThere, Current, NoMembers, MembersAfter
<1> QED
  BY <1>2, <1>3, <1>4 DEF FlightInv

\* A caller that takes no step keeps its part while the switch is left alone.
LEMMA CallKept ==
    ASSUME NEW d, CallInv(d), UNCHANGED switchVars,
           pc'[d] = pc[d], op'[d] = op[d], acked'[d] = acked[d], disturbed'[d] = disturbed[d]
    PROVE  CallInv(d)'
<1>1. vlans' = vlans /\ pvid' = pvid /\ setting' = setting
  BY DEF switchVars
<1> QED
  BY <1>1 DEF CallInv, ReadsBack, MembershipOK

\* A step of c that sends nothing and leaves the switch alone.
LEMMA QuietStep ==
    ASSUME WriterInv, NEW c \in Writers, CallsOK', inFlight' = inFlight, UNCHANGED switchVars,
           \A d \in Writers \ {c} :
               /\ pc'[d] = pc[d] /\ op'[d] = op[d] /\ calls'[d] = calls[d]
               /\ acked'[d] = acked[d] /\ disturbed'[d] = disturbed[d]
           ,
           \/ calls'[c] = calls[c] /\ op'[c] = op[c] /\ pc'[c] # "before"
           \/ calls'[c] = calls[c] + 1,
           CallInv(c)'
    PROVE  WriterInv'
<1>1. vlans' = vlans /\ pvid' = pvid /\ setting' = setting
  BY DEF switchVars
<1>2. CallsOK /\ inFlight \subseteq FlightRec /\ SwitchOK
  BY TypeParts DEF WriterInv
<1>3. WriterTypeOK'
  <2>1. SwitchOK'
    BY <1>1, <1>2 DEF SwitchOK
  <2>2. inFlight' \subseteq FlightRec
    BY <1>2
  <2> QED
    BY <2>1, <2>2 DEF WriterTypeOK, CallsOK, SwitchOK, FlightRec
<1>4. ASSUME NEW w \in inFlight PROVE FlightInv(w)'
  <2>1. w.caller \in Writers /\ w.call \in Nat /\ FlightInv(w)
    BY <1>2 DEF FlightRec, WriterInv
  <2>2. calls[w.caller] \in Nat
    BY <1>2, <2>1 DEF CallsOK
  <2>3. CASE w.caller = c
    BY <1>1, <2>1, <2>2, <2>3, FlightKept
  <2>4. CASE w.caller # c
    <3>1. /\ calls'[w.caller] = calls[w.caller] /\ op'[w.caller] = op[w.caller]
          /\ pc'[w.caller] = pc[w.caller]
      BY <2>1, <2>4
    <3> QED
      BY <1>1, <2>1, <3>1, FlightKept
  <2> QED
    BY <2>3, <2>4
<1>5. ASSUME NEW d \in Writers, d # c PROVE CallInv(d)'
  <2>1. CallInv(d)
    BY DEF WriterInv
  <2>2. /\ pc'[d] = pc[d] /\ op'[d] = op[d]
        /\ acked'[d] = acked[d] /\ disturbed'[d] = disturbed[d]
    BY <1>5
  <2> QED
    BY <2>1, <2>2, CallKept
<1>6. \A d \in Writers : CallInv(d)'
  BY <1>5
<1> QED
  BY <1>3, <1>4, <1>6 DEF WriterInv

\* A call that returns.
LEMMA ReturnKept ==
    ASSUME WriterInv, NEW c \in Writers,
           NEW r \in {"ok", "absent", "invalid", "mismatch", "failed"}, Finish(c, r),
           UNCHANGED <<op, calls, acked, inFlight, switchVars, disturbed>>
    PROVE  WriterInv'
<1>1. CallsOK
  BY TypeParts DEF WriterInv
<1>2. pc' = [pc EXCEPT ![c] = "idle"] /\ result' = [result EXCEPT ![c] = r]
  BY DEF Finish
<1>3. op' = op /\ calls' = calls /\ acked' = acked /\ inFlight' = inFlight /\ disturbed' = disturbed
  OBVIOUS
<1>4. pc \in [Writers -> {"idle", "before", "await"}]
  BY <1>1 DEF CallsOK
<1>5. pc'[c] = "idle" /\ \A d \in Writers \ {c} : pc'[d] = pc[d]
  BY <1>2, <1>4
<1>6. CallsOK'
  <2>1. pc' \in [Writers -> {"idle", "before", "await"}]
    BY <1>2, <1>4
  <2>2. result' \in [Writers -> {"none", "ok", "refused", "absent", "invalid",
                                 "mismatch", "failed"}]
    BY <1>1, <1>2 DEF CallsOK
  <2> QED
    BY <1>1, <1>3, <2>1, <2>2 DEF CallsOK
<1>7. CallInv(c)'
  BY <1>5 DEF CallInv
<1> QED
  BY <1>3, <1>5, <1>6, <1>7, QuietStep

\* A call begins: it has sent nothing yet.
LEMMA BeginKept ==
    ASSUME WriterInv, NEW c \in Writers, NEW o \in Ops, Begin(c, o)
    PROVE  WriterInv'
<1>1. CallsOK
  BY TypeParts DEF WriterInv
<1>2. /\ op' = [op EXCEPT ![c] = o] /\ calls' = [calls EXCEPT ![c] = @ + 1]
      /\ acked' = [acked EXCEPT ![c] = FALSE] /\ disturbed' = [disturbed EXCEPT ![c] = FALSE]
      /\ inFlight' = inFlight /\ UNCHANGED switchVars
  BY DEF Begin
<1>3. PICK l \in {"idle", "before"}, r \in {"refused", "invalid", "none"} :
          pc' = [pc EXCEPT ![c] = l] /\ result' = [result EXCEPT ![c] = r]
  BY DEF Begin, Finish
<1>4. CallsOK'
  BY <1>1, <1>2, <1>3 DEF CallsOK
<1>5. calls'[c] = calls[c] + 1 /\ ~acked'[c]
  BY <1>1, <1>2 DEF CallsOK
<1>6. \A d \in Writers \ {c} :
          /\ pc'[d] = pc[d] /\ op'[d] = op[d] /\ calls'[d] = calls[d]
          /\ acked'[d] = acked[d] /\ disturbed'[d] = disturbed[d]
  BY <1>1, <1>2, <1>3 DEF CallsOK
<1>7. CallInv(c)'
  BY <1>5 DEF CallInv
<1> QED
  BY <1>2, <1>4, <1>5, <1>6, <1>7, QuietStep

\* The first read, and the write built from it.
LEMMA SendKept ==
    ASSUME WriterInv, NEW c \in Writers, ReadAndSend(c)
    PROVE  WriterInv'
<1> DEFINE new == [caller |-> c, call |-> calls[c], op |-> op[c], tlv |-> Tlv(op[c]),
                   disturbed |-> FALSE]
<1>1. CallsOK /\ inFlight \subseteq FlightRec /\ SwitchOK /\ WriterTypeOK
  BY TypeParts DEF WriterInv
<1>2. /\ pc[c] = "before" /\ ~AlreadyThere(op[c]) /\ Encodable(op[c])
      /\ pc' = [pc EXCEPT ![c] = "await"] /\ inFlight' = inFlight \union {new}
      /\ disturbed' = [disturbed EXCEPT ![c] = FALSE]
      /\ op' = op /\ calls' = calls /\ acked' = acked /\ result' = result
      /\ vlans' = vlans /\ pvid' = pvid /\ setting' = setting
  BY DEF ReadAndSend, switchVars
<1>3. /\ pc'[c] = "await" /\ ~disturbed'[c]
      /\ \A d \in Writers \ {c} : pc'[d] = pc[d] /\ disturbed'[d] = disturbed[d]
  BY <1>1, <1>2 DEF CallsOK
<1>4. op[c] \in Ops /\ calls[c] \in Nat
  BY <1>1 DEF CallsOK
<1>5. Tlv(op[c]) \in Tlvs /\ CarriesOut(Tlv(op[c]), op[c])
  BY <1>1, <1>2, <1>4, TlvOK
<1>6. new \in FlightRec
  BY <1>4, <1>5 DEF FlightRec
<1>7. WriterTypeOK'
  <2>1. CallsOK'
    BY <1>1, <1>2 DEF CallsOK
  <2>2. SwitchOK'
    BY <1>1, <1>2 DEF SwitchOK
  <2>3. inFlight' \subseteq FlightRec
    BY <1>1, <1>2, <1>6
  <2> QED
    BY <2>1, <2>2, <2>3 DEF WriterTypeOK, CallsOK, SwitchOK, FlightRec
<1>8. ASSUME NEW w \in inFlight PROVE FlightInv(w)'
  <2>1. FlightInv(w) /\ w.caller \in Writers
    BY <1>1 DEF WriterInv, FlightRec
  <2>2. pc'[w.caller] = pc[w.caller] \/ pc'[w.caller] # "before"
    BY <1>3, <2>1
  <2> QED
    BY <1>2, <2>1, <2>2, FlightKept
<1>9. ASSUME NEW w, w = new PROVE FlightInv(w)'
  <2>1. /\ w.caller = c /\ w.call = calls[c] /\ w.op = op[c] /\ w.tlv = Tlv(op[c])
        /\ w.disturbed = FALSE
    BY <1>9
  <2>2. IssuedWrite(w)'
    BY <1>2, <1>3, <1>4, <2>1 DEF IssuedWrite
  <2>3. CarriesOut(w.tlv, w.op)'
    BY <1>5, <2>1 DEF CarriesOut
  <2>4. Fresh(w)'
    <3>1. w.tlv = Tlv(w.op) /\ ~AlreadyThere(w.op)
      BY <1>2, <2>1
    <3>2. w.tlv = Tlv(w.op)' /\ ~AlreadyThere(w.op)'
      BY <1>2, <3>1 DEF Tlv, AlreadyThere, Current, NoMembers, MembersAfter
    <3> QED
      BY <3>2 DEF Fresh
  <2> QED
    BY <2>2, <2>3, <2>4 DEF FlightInv
<1>10. \A w \in inFlight' : FlightInv(w)'
  <2> HIDE DEF new
  <2> QED
    BY <1>2, <1>8, <1>9
<1>11. ASSUME NEW d \in Writers PROVE CallInv(d)'
  <2>1. CallInv(d)
    BY DEF WriterInv
  <2>2. CASE d = c
    BY <1>2, <1>3, <2>1, <2>2 DEF CallInv
  <2>3. CASE d # c
    <3>1. /\ pc'[d] = pc[d] /\ op'[d] = op[d] /\ acked'[d] = acked[d]
          /\ disturbed'[d] = disturbed[d] /\ UNCHANGED switchVars
      BY <1>2, <1>3, <2>3 DEF switchVars
    <3> QED
      BY <2>1, <3>1, CallKept
  <2> QED
    BY <2>2, <2>3
<1> QED
  BY <1>7, <1>10, <1>11 DEF WriterInv

\* A write is applied: it does what its call asked, and every other call and
\* write is marked as disturbed.
LEMMA ApplyKept ==
    ASSUME WriterInv, NEW w \in inFlight, Apply(w)
    PROVE  WriterInv'
<1> DEFINE own(c) == c = w.caller /\ calls[c] = w.call
<1>1. CallsOK /\ inFlight \subseteq FlightRec /\ SwitchOK /\ WriterTypeOK
  BY TypeParts DEF WriterInv
<1>2. /\ ApplyTlv(w.tlv)
      /\ inFlight' = {[x EXCEPT !.disturbed = TRUE] : x \in inFlight \ {w}}
      /\ acked' = [c \in Writers |-> acked[c] \/ own(c)]
      /\ disturbed' = [c \in Writers |-> disturbed[c] \/ ~own(c)]
      /\ pc' = pc /\ op' = op /\ calls' = calls /\ result' = result
  BY DEF Apply
<1>3. w.tlv \in Tlvs /\ w.op \in Ops /\ w.caller \in Writers /\ w.call \in Nat
  BY <1>1 DEF FlightRec
<1>4. IssuedWrite(w) /\ CarriesOut(w.tlv, w.op)
  BY DEF WriterInv, FlightInv
<1>5. ASSUME NEW x \in inFlight, NEW y, y = [x EXCEPT !.disturbed = TRUE]
      PROVE  y \in FlightRec /\ FlightInv(y)'
  <2>1. x \in FlightRec /\ IssuedWrite(x) /\ CarriesOut(x.tlv, x.op)
    BY <1>1 DEF WriterInv, FlightInv
  <2>2. /\ y \in FlightRec /\ y.caller = x.caller /\ y.call = x.call /\ y.op = x.op
        /\ y.tlv = x.tlv /\ y.disturbed = TRUE
    BY <1>5, <2>1 DEF FlightRec
  <2>3. IssuedWrite(y)' /\ CarriesOut(y.tlv, y.op)' /\ Fresh(y)'
    BY <1>2, <2>1, <2>2 DEF IssuedWrite, CarriesOut, Fresh
  <2> QED
    BY <2>2, <2>3 DEF FlightInv
<1>6. WriterTypeOK'
  <2>1. SwitchOK'
    BY <1>1, <1>2, <1>3, ApplyTypes
  <2>2. inFlight' \subseteq FlightRec
    BY <1>2, <1>5
  <2>3. acked' \in [Writers -> BOOLEAN] /\ disturbed' \in [Writers -> BOOLEAN]
    BY <1>1, <1>2 DEF CallsOK
  <2>4. CallsOK'
    BY <1>1, <1>2, <2>3 DEF CallsOK
  <2> QED
    BY <2>1, <2>2, <2>4 DEF WriterTypeOK, CallsOK, SwitchOK, FlightRec
<1>7. \A y \in inFlight' : FlightInv(y)'
  BY <1>2, <1>5
<1>8. ASSUME NEW d \in Writers PROVE CallInv(d)'
  <2>1. (acked'[d] <=> acked[d] \/ own(d)) /\ (disturbed'[d] <=> disturbed[d] \/ ~own(d))
    BY <1>1, <1>2 DEF CallsOK
  <2>2. CASE own(d)
    <3>1. w.op = op[d] /\ pc[d] # "before"
      BY <1>4, <2>2 DEF IssuedWrite
    <3>2. ReadsBack(w.op)'
      BY <1>1, <1>2, <1>3, <1>4, ApplyAchieves
    <3>3. ReadsBack(op[d])'
      BY <1>2, <3>1, <3>2 DEF ReadsBack, MembershipOK
    <3> QED
      BY <1>2, <3>1, <3>3 DEF CallInv
  <2>3. CASE ~own(d)
    <3>1. disturbed'[d] /\ (acked'[d] <=> acked[d])
      BY <2>1, <2>3
    <3>2. pc[d] = "before" => ~acked[d]
      BY DEF WriterInv, CallInv
    <3> QED
      BY <1>2, <3>1, <3>2 DEF CallInv
  <2> QED
    BY <2>2, <2>3
<1> QED
  BY <1>6, <1>7, <1>8 DEF WriterInv

\* A write lost, or nothing at all: what remains keeps its part.
LEMMA LoseKept ==
    ASSUME WriterInv, inFlight' \subseteq inFlight, UNCHANGED <<callVars, switchVars, disturbed>>
    PROVE  WriterInv'
<1>1. CallsOK /\ inFlight \subseteq FlightRec /\ SwitchOK
  BY TypeParts DEF WriterInv
<1>2. /\ pc' = pc /\ op' = op /\ calls' = calls /\ acked' = acked /\ result' = result
      /\ disturbed' = disturbed /\ UNCHANGED switchVars
      /\ vlans' = vlans /\ pvid' = pvid /\ setting' = setting
  BY DEF callVars, switchVars
<1>3. CallsOK'
  BY <1>1, <1>2 DEF CallsOK
<1>4. SwitchOK'
  BY <1>1, <1>2 DEF SwitchOK
<1>5. WriterTypeOK'
  BY <1>1, <1>3, <1>4 DEF WriterTypeOK, CallsOK, SwitchOK, FlightRec
<1>6. \A w \in inFlight' : FlightInv(w)'
  BY <1>2, FlightKept DEF WriterInv
<1>7. \A d \in Writers : CallInv(d)'
  BY <1>2, CallKept DEF WriterInv
<1> QED
  BY <1>5, <1>6, <1>7 DEF WriterInv

LEMMA InitOK == WriterInit => WriterInv
<1> SUFFICES ASSUME WriterInit PROVE WriterInv
  OBVIOUS
<1>1. (CHOOSE o \in Ops : TRUE) \in Ops
  BY WriterAssumption DEF WriterAssumption
<1>2. (CHOOSE x \in Values : x \notin BadValues) \in Values \ BadValues
  BY WriterAssumption DEF WriterAssumption
<1>3. CallsOK
  BY <1>1 DEF WriterInit, CallsOK
<1>4. SwitchOK
  <2>1. setting \in [Settings -> Values] /\ \A s \in DeviceSettings : setting[s] \notin BadValues
    BY <1>2 DEF WriterInit, Settings
  <2> QED
    BY <2>1, WriterAssumption DEF WriterInit, SwitchOK, Vlan, WriterAssumption
<1>5. inFlight = {} /\ \A c \in Writers : pc[c] = "idle"
  BY DEF WriterInit
<1>6. WriterTypeOK
  BY <1>3, <1>4, <1>5, TypeParts
<1> QED
  BY <1>5, <1>6 DEF WriterInv, CallInv

LEMMA StepKept == WriterInv /\ [WriterNext]_writerVars => WriterInv'
<1> SUFFICES ASSUME WriterInv, [WriterNext]_writerVars PROVE WriterInv'
  OBVIOUS
<1>1. ASSUME NEW c \in Writers, NEW o \in Ops, Begin(c, o) PROVE WriterInv'
  BY <1>1, BeginKept
<1>2. ASSUME NEW c \in Writers, ReadAndSend(c) PROVE WriterInv'
  BY <1>2, SendKept
<1>3. ASSUME NEW c \in Writers, ReadOnly(c) \/ Verify(c) \/ Fail(c) PROVE WriterInv'
  <2>1. UNCHANGED <<op, calls, acked, inFlight, switchVars, disturbed>>
    BY <1>3 DEF ReadOnly, Verify, Fail
  <2>2. \E r \in {"ok", "absent", "invalid", "mismatch", "failed"} : Finish(c, r)
    BY <1>3 DEF ReadOnly, Verify, Fail
  <2> QED
    BY <2>1, <2>2, ReturnKept
<1>4. ASSUME NEW w \in inFlight, Apply(w) PROVE WriterInv'
  BY <1>4, ApplyKept
<1>5. CASE LoseWrite
  <2>1. inFlight' \subseteq inFlight /\ UNCHANGED <<callVars, switchVars, disturbed>>
    BY <1>5 DEF LoseWrite
  <2> QED
    BY <2>1, LoseKept
<1>6. CASE UNCHANGED writerVars
  <2>1. inFlight' \subseteq inFlight /\ UNCHANGED <<callVars, switchVars, disturbed>>
    BY <1>6 DEF writerVars
  <2> QED
    BY <2>1, LoseKept
<1> QED
  BY <1>1, <1>2, <1>3, <1>4, <1>5, <1>6 DEF WriterNext

LEMMA InvariantHolds == WriterSpec => []WriterInv
BY InitOK, StepKept, PTL DEF WriterSpec

-----------------------------------------------------------------------------
(* The theorems. *)

\* Only ids a uint16 holds, VLANDestroyTLV's truncated ones among them, and host
\* names and addresses a TLV encodes reach the wire and the switch (write_tlv.go).
THEOREM WriterTypeCorrect == WriterSpec => []WriterTypeOK
<1>1. WriterInv => WriterTypeOK
  BY DEF WriterInv
<1> QED
  BY <1>1, InvariantHolds, PTL

\* What verify-after-write reads back is what was asked for: membershipOK tells
\* every mode from the others.
LEMMA ReadBackAchieved ==
    ASSUME NEW o \in Ops, ReadsBack(o)
    PROVE  Achieved(o)
<1>1. CASE o.kind = "member"
  <2>1. MembershipOK(o.vlan, o.port, o.mode) /\ o.mode \in Modes
    BY <1>1, OpFields DEF ReadsBack
  <2>2. Mode(vlans, o.vlan, o.port) = o.mode
    BY <2>1 DEF MembershipOK, Mode, Modes
  <2> QED
    BY <1>1, <2>2 DEF Achieved
<1>2. CASE o.kind # "member"
  BY <1>2, OpFields DEF ReadsBack, Achieved
<1> QED
  BY <1>1, <1>2

\* How a step ends a call of c with "ok" or "mismatch".
LEMMA Verdicts ==
    ASSUME WriterInv, [WriterNext]_writerVars, NEW c \in Writers,
           pc'[c] # pc[c] \/ result'[c] # result[c]
    PROVE  \/ \E o \in Ops : Begin(c, o)
           \/ ReadOnly(c) \/ ReadAndSend(c) \/ Verify(c) \/ Fail(c)
<1>1. /\ pc \in [Writers -> {"idle", "before", "await"}]
      /\ result \in [Writers -> {"none", "ok", "refused", "absent", "invalid",
                                 "mismatch", "failed"}]
  BY DEF WriterInv, WriterTypeOK
<1>2. ASSUME NEW d \in Writers,
             \/ \E o \in Ops : Begin(d, o)
             \/ ReadOnly(d) \/ ReadAndSend(d) \/ Verify(d) \/ Fail(d)
      PROVE  \E l, r : /\ pc' = [pc EXCEPT ![d] = l]
                       /\ result' = [result EXCEPT ![d] = r] \/ result' = result
  BY <1>2 DEF Begin, ReadOnly, ReadAndSend, Verify, Fail, Finish
<1>3. pc' # pc \/ result' # result
  OBVIOUS
<1>4. PICK d \in Writers :
          \/ \E o \in Ops : Begin(d, o)
          \/ ReadOnly(d) \/ ReadAndSend(d) \/ Verify(d) \/ Fail(d)
  BY <1>3 DEF WriterNext, Apply, LoseWrite, writerVars, callVars
<1>5. PICK l, r : /\ pc' = [pc EXCEPT ![d] = l]
                  /\ result' = [result EXCEPT ![d] = r] \/ result' = result
  BY <1>2, <1>4
<1>6. d = c
  BY <1>1, <1>5
<1> QED
  BY <1>4, <1>6

\* Verify-after-write tells the truth for any number of callers whose exchanges
\* interleave, whose writes are lost or applied after their call has given up:
\* nil means the switch holds what was asked for, WriteVerificationError that
\* another write came in (writer.go:10-14, membershipOK).
THEOREM VerdictTrue == WriterSpec => VerdictIsTrue
<1> DEFINE True(c) ==
        /\ pc[c] # "idle" /\ result'[c] = "ok" /\ pc'[c] = "idle" => Achieved(op[c])
        /\ result[c] = "none" /\ result'[c] = "mismatch" => disturbed[c]
<1>1. ASSUME WriterInv, [WriterNext]_writerVars, NEW c \in Writers PROVE True(c)
  <2>1. /\ result \in [Writers -> {"none", "ok", "refused", "absent", "invalid",
                                   "mismatch", "failed"}]
        /\ op[c] \in Ops
    BY <1>1 DEF WriterInv, WriterTypeOK
  <2>2. ASSUME pc[c] # "idle", result'[c] = "ok", pc'[c] = "idle" PROVE Achieved(op[c])
    <3>1. ReadOnly(c) \/ Verify(c) \/ Fail(c)
      <4>1. ~ReadAndSend(c)
        BY <1>1, <2>2 DEF ReadAndSend, WriterInv, WriterTypeOK
      <4> QED
        BY <1>1, <2>2, <4>1, Verdicts DEF Begin
    <3>2. ASSUME NEW r, Finish(c, r) PROVE r = "ok"
      BY <2>1, <2>2, <3>2 DEF Finish
    <3>3. AlreadyThere(op[c]) \/ ReadsBack(op[c])
      BY <3>1, <3>2 DEF ReadOnly, Verify, Fail
    <3>4. AlreadyThere(op[c]) => ReadsBack(op[c])
      BY DEF AlreadyThere, ReadsBack
    <3> QED
      BY <2>1, <3>3, <3>4, ReadBackAchieved
  <2>3. ASSUME result[c] = "none", result'[c] = "mismatch" PROVE disturbed[c]
    <3>1. ASSUME NEW r, Finish(c, r) PROVE r = "mismatch"
      BY <2>1, <2>3, <3>1 DEF Finish
    <3>2. ASSUME NEW o \in Ops, Begin(c, o) PROVE FALSE
      BY <2>1, <2>3, <3>2 DEF Begin, Finish
    <3>3. ~ReadAndSend(c)
      BY <2>3 DEF ReadAndSend
    <3>4. Verify(c)
      BY <1>1, <2>3, <3>1, <3>2, <3>3, Verdicts DEF ReadOnly, Fail
    <3>5. pc[c] = "await" /\ acked[c] /\ ~ReadsBack(op[c])
      BY <3>1, <3>4 DEF Verify
    <3> QED
      BY <1>1, <3>5 DEF WriterInv, CallInv
  <2> QED
    BY <2>2, <2>3
<1>2. WriterInv /\ [WriterNext]_writerVars => [\A c \in Writers : True(c)]_writerVars
  BY <1>1
<1> QED
  BY <1>2, InvariantHolds, PTL DEF WriterSpec, VerdictIsTrue

\* The read-modify-write of a VLAN loses nobody else's port unless another write
\* is applied in between (membersAfter), and a deletion takes only the memberships
\* of the VLAN its TLV names: for any ports, VLAN ids and callers.
THEOREM OnlyItsTarget == WriterSpec => WriteTouchesOnlyItsTarget
<1>1. ASSUME WriterInv, NEW w \in inFlight, Apply(w), ~w.disturbed,
             NEW v \in WireVlans, NEW p \in Ports, ~Target(w.op, v, p)
      PROVE  Mode(vlans', v, p) = Mode(vlans, v, p)
  <2>1. SwitchOK /\ w \in FlightRec
    BY <1>1, TypeParts DEF WriterInv
  <2>2. w.tlv = Tlv(w.op) /\ ~AlreadyThere(w.op)
    BY <1>1 DEF WriterInv, FlightInv, Fresh
  <2>3. w.tlv \in Tlvs /\ w.op \in Ops
    BY <2>1 DEF FlightRec
  <2>4. ApplyTlv(w.tlv)
    BY <1>1 DEF Apply
  <2> QED
    BY <1>1, <2>1, <2>2, <2>3, <2>4, ApplyOnTarget
<1>2. WriterInv /\ [WriterNext]_writerVars =>
          [\A w \in inFlight :
              Apply(w) /\ ~w.disturbed =>
              \A v \in WireVlans, p \in Ports :
                  ~Target(w.op, v, p) => Mode(vlans', v, p) = Mode(vlans, v, p)]_writerVars
  BY <1>1
<1> QED
  BY <1>2, InvariantHolds, PTL DEF WriterSpec, WriteTouchesOnlyItsTarget
=============================================================================
