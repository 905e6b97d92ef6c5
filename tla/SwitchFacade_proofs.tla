-------------------------- MODULE SwitchFacade_proofs --------------------------
(***************************************************************************)
(* What SwitchFacade does for every number of callers, every preference     *)
(* order and every set of declared backends: type correctness, no silent    *)
(* substitution of a backend, and one session per transport.                *)
(***************************************************************************)
EXTENDS SwitchFacade, TLAPS, WellFoundedInduction, SequenceTheorems

\* A call at work has a part to do, one that builds has a session to build, and one
\* at rest has reached nothing.
AtWork(c) ==
    /\ at[c] # "idle" => todo[c] # <<>>
    /\ at[c] = "build" => handle[c] # NoCell
    /\ at[c] = "idle" => ran[c] = {}
AtWorkInv == \A c \in Callers : AtWork(c)

\* Every part that has run did so on the backend the call resolves to.
ResolvedInv == \A c \in Callers : \A b \in ran[c] : b = ResolveBackend(op[c])

\* Until Close, the session cache knows every session that was ever made.
CachedInv == closing = "no" => \A i \in Cells : cached[cells[i].kind] = i

\* The inductive invariant.
IInv == TypeOK /\ AtWorkInv /\ ResolvedInv /\ CachedInv

-----------------------------------------------------------------------------
(* Which backend a call resolves to. *)

\* A nonempty set of positions has a first one.
LEMMA FirstPosition ==
    ASSUME NEW S \in SUBSET Nat, S # {}
    PROVE  \E i \in S : \A j \in S : i <= j
<1> DEFINE R == {p \in Nat \X Nat : p[1] < p[2]}
<1>1. OpToRel(<, Nat) = R
  BY Zenon DEF OpToRel
<1>2. IsWellFoundedOn(R, Nat)
  BY <1>1, NatLessThanWellFounded, Zenon
<1> HIDE DEF R
<1>3. PICK i \in S : \A j \in S : ~(<<j, i>> \in R)
  BY <1>2, WFMin, Zenon
<1>4. ASSUME NEW j \in S PROVE i <= j
  <2>1. ~(<<j, i>> \in R) /\ i \in Nat /\ j \in Nat
    BY <1>3
  <2> QED
    BY <2>1 DEF R
<1> QED
  BY <1>4

\* The first declared backend comes before the other declared ones.
LEMMA FirstIsPreferred ==
    ASSUME NEW S \in SUBSET Backends, S # {}
    PROVE  /\ First(S) \in S
           /\ \E i \in DOMAIN Preference :
                /\ Preference[i] = First(S)
                /\ \A j \in DOMAIN Preference : Preference[j] \in S => i <= j
<1> DEFINE T == {i \in DOMAIN Preference : Preference[i] \in S}
           IsFirst(i) == /\ Preference[i] \in S
                         /\ \A j \in 1..(i - 1) : Preference[j] \notin S
<1>1. DOMAIN Preference = 1..Len(Preference) /\ Len(Preference) \in Nat
  BY FacadeAssumption DEF FacadeAssumption
<1>2. T \in SUBSET Nat /\ T # {}
  BY <1>1 DEF Backends
<1>3. PICK m \in T : \A j \in T : m <= j
  BY <1>2, FirstPosition
<1>4. m \in DOMAIN Preference /\ IsFirst(m)
  BY <1>1, <1>3
<1>5. \A i \in DOMAIN Preference : IsFirst(i) => i = m
  BY <1>1, <1>3
<1>6. (CHOOSE i \in DOMAIN Preference : IsFirst(i)) = m
  BY <1>4, <1>5
<1>7. First(S) = Preference[m]
  BY <1>6 DEF First
<1> QED
  BY <1>3, <1>4, <1>7

\* A backend that a call resolves to is declared (resolveBackend), and is the one
\* asked for, the one pinned, or the first declared, in that order.
LEMMA ResolvesAsAsked ==
    ASSUME NEW o \in Ops, ResolveBackend(o) \in Backends
    PROVE  LET b == ResolveBackend(o) IN
           /\ b \in Declared
           /\ o.backend # NoBackend => b = o.backend
           /\ o.backend = NoBackend /\ Pinned # NoBackend => b = Pinned
           /\ o.backend = NoBackend /\ Pinned = NoBackend =>
                \E i \in DOMAIN Preference :
                    /\ Preference[i] = b
                    /\ \A j \in DOMAIN Preference : Preference[j] \in Declared => i <= j
<1> USE FacadeAssumption DEF FacadeAssumption
<1>1. CASE Requested(o) # NoBackend
  BY <1>1 DEF ResolveBackend, Requested
<1>2. CASE Requested(o) = NoBackend
  <2>1. o.backend = NoBackend /\ Pinned = NoBackend
    BY <1>2 DEF Requested
  <2>2. ResolveBackend(o) = First(Declared)
    BY <1>2 DEF ResolveBackend
  <2>3. Declared # {}
    BY <2>2 DEF First
  <2>4. Declared \in SUBSET Backends
    OBVIOUS
  <2> QED
    BY <2>1, <2>2, <2>3, <2>4, FirstIsPreferred
<1> QED
  BY <1>1, <1>2

-----------------------------------------------------------------------------
(* What the pieces of a step do. *)

Results == {"none", "ok", "unsupported", "failed"}
Session == [kind : SessionKinds, state : {"unbuilt", "building", "open", "closed"}]

\* The fields of the calls after a step: typed, with something to do for a call at
\* work, and with no new backend reached.
Progress ==
    /\ at' \in [Callers -> {"idle", "dispatch", "use", "build"}]
    /\ todo' \in [Callers -> Seq(ReadParts \union WriteParts)]
    /\ ran' \in [Callers -> SUBSET Backends]
    /\ result' \in [Callers -> Results]
    /\ handle' \in [Callers -> Cells \union {NoCell}]
    /\ \A d \in Callers : /\ at'[d] # "idle" => todo'[d] # <<>>
                          /\ at'[d] = "build" => handle'[d] # NoCell
                          /\ at'[d] = "idle" => ran'[d] = {}
                          /\ ran'[d] \subseteq ran[d]

\* What is left after a part that is not the last.
LEMMA TailIsLeft ==
    ASSUME NEW T, NEW s \in Seq(T), s # <<>>, Len(s) # 1
    PROVE  Tail(s) \in Seq(T) /\ Tail(s) # <<>>
<1>1. Len(s) \in Nat /\ Len(s) # 0
  BY EmptySeq
<1>2. Tail(s) \in Seq(T) /\ Len(Tail(s)) = Len(s) - 1
  BY HeadTailProperties
<1>3. Tail(s) # <<>>
  <2> DEFINE t == Tail(s)
  <2>1. t = <<>> => Len(t) = 0
    BY EmptySeq
  <2>2. Len(t) # 0
    BY <1>1, <1>2
  <2> HIDE DEF t
  <2>3. t # <<>>
    BY <2>1, <2>2
  <2> QED
    BY <2>3 DEF t
<1> QED
  BY <1>2, <1>3

\* A session has a kind.
LEMMA CellsAreSessions ==
    ASSUME TypeOK, NEW i \in Cells
    PROVE  cells[i] \in Session /\ cells[i].kind \in SessionKinds
<1>1. cells \in Seq(Session)
  BY DEF TypeOK, SessionsOK, Session
<1>2. cells[i] \in Session
  BY <1>1, ElementOfSeq DEF Cells
<1> QED
  BY <1>2 DEF Session

\* A call that ends forgets its parts, its session and what it reached.
LEMMA FinishMoves ==
    ASSUME TypeOK, AtWorkInv, NEW c \in Callers, NEW r \in Results, Finish(c, r)
    PROVE  Progress
<1> USE DEF TypeOK, CallsOK, CachesOK, Results, Finish
<1>1. /\ at' \in [Callers -> {"idle", "dispatch", "use", "build"}]
      /\ todo' \in [Callers -> Seq(ReadParts \union WriteParts)]
      /\ result' \in [Callers -> Results]
  OBVIOUS
<1>2. ran' \in [Callers -> SUBSET Backends] /\ handle' \in [Callers -> Cells \union {NoCell}]
  OBVIOUS
<1>3. ASSUME NEW d \in Callers
      PROVE  /\ at'[d] # "idle" => todo'[d] # <<>>
             /\ at'[d] = "build" => handle'[d] # NoCell
             /\ at'[d] = "idle" => ran'[d] = {}
             /\ ran'[d] \subseteq ran[d]
  BY DEF AtWorkInv, AtWork
<1> QED
  BY <1>1, <1>2, <1>3 DEF Progress

\* The end of a part is the end of the call, or leaves it parts to do.
LEMMA PartMoves ==
    ASSUME TypeOK, AtWorkInv, NEW c \in Callers, at[c] # "idle", PartDone(c)
    PROVE  Progress
<1>1. CASE Len(todo[c]) = 1
  BY <1>1, FinishMoves DEF PartDone, Results
<1>2. CASE Len(todo[c]) # 1
  <2> USE DEF TypeOK, CallsOK, CachesOK
  <2>1. /\ todo' = [todo EXCEPT ![c] = Tail(todo[c])]
        /\ at' = [at EXCEPT ![c] = "dispatch"]
        /\ handle' = [handle EXCEPT ![c] = NoCell]
        /\ UNCHANGED <<ran, result>>
    BY <1>2 DEF PartDone
  <2>2. todo[c] \in Seq(ReadParts \union WriteParts) /\ todo[c] # <<>>
    BY DEF AtWorkInv, AtWork
  <2>3. Tail(todo[c]) \in Seq(ReadParts \union WriteParts) /\ Tail(todo[c]) # <<>>
    BY <1>2, <2>2, TailIsLeft
  <2>4. /\ at' \in [Callers -> {"idle", "dispatch", "use", "build"}]
        /\ todo' \in [Callers -> Seq(ReadParts \union WriteParts)]
        /\ handle' \in [Callers -> Cells \union {NoCell}]
    BY <2>1, <2>3
  <2>5. ASSUME NEW d \in Callers
        PROVE  /\ at'[d] # "idle" => todo'[d] # <<>>
               /\ at'[d] = "build" => handle'[d] # NoCell
               /\ at'[d] = "idle" => ran'[d] = {}
               /\ ran'[d] \subseteq ran[d]
    BY <2>1, <2>3 DEF AtWorkInv, AtWork
  <2> QED
    BY <2>1, <2>4, <2>5 DEF Progress, Results
<1> QED
  BY <1>1, <1>2

\* A capability gap ends the call or the part.
LEMMA GapMoves ==
    ASSUME TypeOK, AtWorkInv, NEW c \in Callers, at[c] # "idle", Unsupported(c)
    PROVE  Progress
  BY FinishMoves, PartMoves DEF Unsupported, Results

\* A builder takes the cached session of its kind, or makes one and caches it.
LEMMA BuildMoves ==
    ASSUME TypeOK, NEW b, Build(b)
    PROVE  /\ cells' \in Seq(Session)
           /\ Cells \subseteq Cells' /\ \A i \in Cells : cells'[i] = cells[i]
           /\ cached' \in [SessionKinds -> Cells' \union {NoCell}]
           /\ CellAfter(b) \in Cells' \union {NoCell}
           /\ closing = "no" /\ CachedInv => \A i \in Cells' : cached'[cells'[i].kind] = i
<1> USE DEF TypeOK, CachesOK, SessionsOK, Session, Cells
<1>1. CASE b \in SessionKinds /\ cached[b] = NoCell
  <2>1. /\ cells' = Append(cells, [kind |-> b, state |-> "unbuilt"])
        /\ cached' = [cached EXCEPT ![b] = Len(cells) + 1]
    BY <1>1 DEF Build, SharedCell
  <2>2. /\ cells' \in Seq(Session) /\ Len(cells') = Len(cells) + 1 /\ Len(cells) \in Nat
        /\ \A i \in 1..Len(cells) : cells'[i] = cells[i]
        /\ cells'[Len(cells) + 1].kind = b
    BY <1>1, <2>1
  <2>3. cached' \in [SessionKinds -> Cells' \union {NoCell}]
    BY <2>1, <2>2
  <2>4. CellAfter(b) \in Cells' \union {NoCell}
    BY <1>1, <2>3 DEF CellAfter
  <2>5. ASSUME closing = "no", CachedInv, NEW i \in Cells' PROVE cached'[cells'[i].kind] = i
    <3>1. CASE i = Len(cells) + 1
      BY <1>1, <2>1, <2>2, <3>1
    <3>2. CASE i \in 1..Len(cells)
      <4>1. cached[cells[i].kind] = i /\ i # NoCell
        BY <2>2, <2>5, <3>2, FacadeAssumption DEF CachedInv, FacadeAssumption
      <4>2. cells[i].kind # b /\ cells[i].kind \in SessionKinds
        BY <1>1, <3>2, <4>1, CellsAreSessions
      <4> QED
        BY <2>1, <2>2, <3>2, <4>1, <4>2
    <3> QED
      BY <2>2, <2>5, <3>1, <3>2
  <2> QED
    BY <2>2, <2>3, <2>4, <2>5
<1>2. CASE ~(b \in SessionKinds /\ cached[b] = NoCell)
  <2>1. UNCHANGED <<cells, cached>>
    BY <1>2 DEF Build, SharedCell
  <2> QED
    BY <2>1 DEF CellAfter, CachedInv
<1> QED
  BY <1>1, <1>2

\* A session that changes state stays the session of its kind.
LEMMA CellMoves ==
    ASSUME TypeOK, NEW i \in Cells, NEW s \in {"unbuilt", "building", "open", "closed"},
           cells' = [cells EXCEPT ![i].state = s]
    PROVE  /\ cells' \in Seq(Session) /\ Cells' = Cells
           /\ \A j \in Cells : cells'[j].kind = cells[j].kind
<1> DEFINE cell == [cells[i] EXCEPT !.state = s]
<1>1. cells \in Seq(Session)
  BY DEF TypeOK, SessionsOK, Session
<1>2. cell \in Session /\ cell.kind = cells[i].kind
  BY CellsAreSessions DEF Session
<1>3. cells' = [cells EXCEPT ![i] = cell]
  OBVIOUS
<1> HIDE DEF cell
<1>4. /\ cells' \in Seq(Session) /\ Len(cells') = Len(cells)
      /\ \A j \in Cells : cells'[j] = IF j = i THEN cell ELSE cells[j]
  BY <1>1, <1>2, <1>3, ExceptSeq DEF Cells
<1> QED
  BY <1>2, <1>4 DEF Cells

-----------------------------------------------------------------------------
(* The steps. *)

\* The call invariants follow from Progress when no call changes what it asks for.
LEMMA ProgressKeeps ==
    ASSUME IInv, Progress, UNCHANGED <<op, calls>>
    PROVE  CallsOK' /\ AtWorkInv' /\ ResolvedInv'
<1>1. CallsOK'
  BY DEF IInv, TypeOK, CallsOK, Progress, Results
<1>2. AtWorkInv'
  BY DEF AtWorkInv, AtWork, Progress
<1>3. ResolvedInv'
  BY DEF IInv, ResolvedInv, Progress, ResolveBackend, Requested
<1> QED
  BY <1>1, <1>2, <1>3

\* A step that touches no session and no cache.
LEMMA QuietStepKeeps ==
    ASSUME IInv, Progress, UNCHANGED <<op, calls, cacheVars, cells, closeVars>>
    PROVE  IInv'
<1>1. CallsOK' /\ AtWorkInv' /\ ResolvedInv'
  BY ProgressKeeps
<1>2. CachesOK'
  BY DEF IInv, TypeOK, CachesOK, cacheVars, Cells, Progress
<1>3. SessionsOK'
  BY DEF IInv, TypeOK, SessionsOK, closeVars, Cells
<1>4. CachedInv'
  BY DEF IInv, CachedInv, cacheVars, closeVars, Cells
<1> QED
  BY <1>1, <1>2, <1>3, <1>4 DEF IInv, TypeOK

\* readerFor and writerFor: what they cache belongs to a declared backend past
\* its gate, and names a session that exists.
LEMMA ObtainMoves ==
    ASSUME TypeOK, NEW c \in Callers, NEW b, b \in Declared,
           b \in Gate(Head(todo[c])), Obtain(c, b)
    PROVE  /\ cells' \in Seq(Session) /\ Cells \subseteq Cells'
           /\ cached' \in [SessionKinds -> Cells' \union {NoCell}]
           /\ DOMAIN readers' \subseteq Readable \intersect Declared
           /\ DOMAIN writers' \subseteq Writable \intersect Declared
           /\ \A x \in DOMAIN readers' : readers'[x] \in Cells' \union {NoCell}
           /\ \A x \in DOMAIN writers' : writers'[x] \in Cells' \union {NoCell}
           /\ b \in IF Head(todo[c]) \in ReadParts THEN DOMAIN readers' ELSE DOMAIN writers'
           /\ closing = "no" /\ CachedInv => \A i \in Cells' : cached'[cells'[i].kind] = i
<1> DEFINE cache == IF Head(todo[c]) \in ReadParts THEN readers ELSE writers
<1>1. CASE b \in DOMAIN cache
  <2>1. UNCHANGED <<readers, writers, cells, cached>>
    BY <1>1 DEF Obtain
  <2> QED
    BY <1>1, <2>1 DEF TypeOK, CachesOK, SessionsOK, Session, CachedInv, Cells
<1>2. CASE b \notin DOMAIN cache
  <2>1. Build(b)
    BY <1>2 DEF Obtain
  <2>2. /\ cells' \in Seq(Session) /\ Cells \subseteq Cells'
        /\ cached' \in [SessionKinds -> Cells' \union {NoCell}]
        /\ CellAfter(b) \in Cells' \union {NoCell}
        /\ closing = "no" /\ CachedInv => \A i \in Cells' : cached'[cells'[i].kind] = i
    BY <2>1, BuildMoves
  <2>3. CASE Head(todo[c]) \in ReadParts
    <3>1. /\ readers' = [x \in DOMAIN readers \union {b} |->
                            IF x = b THEN CellAfter(b) ELSE readers[x]]
          /\ UNCHANGED writers
      BY <1>2, <2>3 DEF Obtain
    <3>2. b \in Readable
      BY <2>3 DEF Gate
    <3> QED
      BY <2>2, <2>3, <3>1, <3>2 DEF TypeOK, CachesOK
  <2>4. CASE Head(todo[c]) \notin ReadParts
    <3>1. /\ writers' = [x \in DOMAIN writers \union {b} |->
                            IF x = b THEN CellAfter(b) ELSE writers[x]]
          /\ UNCHANGED readers
      BY <1>2, <2>4 DEF Obtain
    <3>2. b \in Writable
      BY <2>4 DEF Gate
    <3> QED
      BY <2>2, <2>4, <3>1, <3>2 DEF TypeOK, CachesOK
  <2> QED
    BY <2>3, <2>4
<1> QED
  BY <1>1, <1>2

\* A part that reaches its backend.
LEMMA ReachKeeps ==
    ASSUME IInv, NEW c \in Callers, Reach(c)
    PROVE  IInv'
<1> DEFINE b == ResolveBackend(op[c])
<1>1. /\ at[c] = "dispatch" /\ b \in Gate(Head(todo[c])) /\ Obtain(c, b)
      /\ UNCHANGED <<op, calls, closeVars>>
  BY DEF Reach
<1>2. b \in Backends /\ op[c] \in Ops
  BY <1>1, FacadeAssumption DEF FacadeAssumption, Gate, IInv, TypeOK, CallsOK
<1>3. b \in Declared
  BY <1>2, ResolvesAsAsked
<1> HIDE DEF b
<1>4. /\ cells' \in Seq(Session) /\ Cells \subseteq Cells'
      /\ cached' \in [SessionKinds -> Cells' \union {NoCell}]
      /\ DOMAIN readers' \subseteq Readable \intersect Declared
      /\ DOMAIN writers' \subseteq Writable \intersect Declared
      /\ \A x \in DOMAIN readers' : readers'[x] \in Cells' \union {NoCell}
      /\ \A x \in DOMAIN writers' : writers'[x] \in Cells' \union {NoCell}
      /\ b \in IF Head(todo[c]) \in ReadParts THEN DOMAIN readers' ELSE DOMAIN writers'
      /\ closing = "no" /\ CachedInv => \A i \in Cells' : cached'[cells'[i].kind] = i
  BY <1>1, <1>3, ObtainMoves DEF IInv
<1>5. SessionsOK'
  BY <1>1, <1>4 DEF IInv, TypeOK, SessionsOK, Session, closeVars
<1>6. CachedInv'
  BY <1>1, <1>4 DEF IInv, CachedInv, closeVars
<1>7. CASE Unsupported(c)
  <2>1. Progress
    BY <1>1, <1>7, GapMoves DEF IInv
  <2>2. CallsOK' /\ AtWorkInv' /\ ResolvedInv'
    BY <1>1, <2>1, ProgressKeeps
  <2>3. CachesOK'
    BY <1>4, <2>1 DEF CachesOK, Progress
  <2> QED
    BY <1>5, <1>6, <2>2, <2>3 DEF IInv, TypeOK
<1>8. CASE ~Unsupported(c)
  <2>1. /\ at' = [at EXCEPT ![c] = "use"]
        /\ handle' = [handle EXCEPT ![c] =
                         IF Head(todo[c]) \in ReadParts THEN readers'[b] ELSE writers'[b]]
        /\ ran' = [ran EXCEPT ![c] = ran[c] \union {b}]
        /\ UNCHANGED <<todo, result>>
    BY <1>8 DEF Reach, b
  <2>2. CallsOK'
    BY <1>1, <1>2, <2>1 DEF IInv, TypeOK, CallsOK
  <2>3. handle' \in [Callers -> Cells' \union {NoCell}]
    BY <1>4, <2>1 DEF IInv, TypeOK, CachesOK
  <2>4. CachesOK'
    BY <1>4, <2>3 DEF CachesOK
  <2>5. AtWorkInv'
    BY <1>1, <2>1 DEF IInv, TypeOK, CallsOK, CachesOK, AtWorkInv, AtWork
  <2>6. ASSUME NEW d \in Callers, NEW x \in ran'[d] PROVE x = ResolveBackend(op[d])
    BY <2>1, <2>6 DEF IInv, TypeOK, CallsOK, ResolvedInv, b
  <2>7. ResolvedInv'
    BY <1>1, <2>6 DEF ResolvedInv, ResolveBackend, Requested
  <2> QED
    BY <1>5, <1>6, <2>2, <2>4, <2>5, <2>7 DEF IInv, TypeOK
<1> QED
  BY <1>7, <1>8

\* The other steps of a call that touch no session.
LEMMA OtherCallSteps ==
    ASSUME IInv, NEW c \in Callers,
           Refuse(c) \/ DispatchFails(c) \/ Use(c) \/ UseFails(c)
    PROVE  IInv'
<1>1. Progress /\ UNCHANGED <<op, calls, cacheVars, cells, closeVars>>
  <2>1. CASE Refuse(c)
    BY <2>1, GapMoves DEF IInv, Refuse
  <2>2. CASE DispatchFails(c)
    BY <2>2, FinishMoves DEF IInv, DispatchFails, Results
  <2>3. CASE Use(c)
    BY <2>3, PartMoves DEF IInv, Use
  <2>4. CASE UseFails(c)
    BY <2>4, FinishMoves DEF IInv, UseFails, Results
  <2> QED
    BY <2>1, <2>2, <2>3, <2>4
<1> QED
  BY <1>1, QuietStepKeeps

\* A step that only moves a session to another state.
LEMMA CellStepKeeps ==
    ASSUME IInv, Progress, UNCHANGED <<op, calls, cacheVars, closing>>,
           NEW i \in Cells, NEW s \in {"unbuilt", "building", "open", "closed"},
           cells' = [cells EXCEPT ![i].state = s],
           detached' \subseteq Cells, found' \subseteq Cells
    PROVE  IInv'
<1>1. CallsOK' /\ AtWorkInv' /\ ResolvedInv'
  BY ProgressKeeps
<1>2. /\ cells' \in Seq(Session) /\ Cells' = Cells
      /\ \A j \in Cells : cells'[j].kind = cells[j].kind
  BY CellMoves DEF IInv
<1>3. CachesOK'
  BY <1>2 DEF IInv, TypeOK, CachesOK, cacheVars, Progress
<1>4. SessionsOK'
  BY <1>2 DEF IInv, TypeOK, SessionsOK, Session
<1>5. CachedInv'
  BY <1>2 DEF IInv, CachedInv, cacheVars
<1> QED
  BY <1>1, <1>3, <1>4, <1>5 DEF IInv, TypeOK

\* A call moves between using a session and building it.
LEMMA ChangeOfPlace ==
    ASSUME IInv, NEW c \in Callers, NEW l \in {"use", "build"}, at[c] \in {"use", "build"},
           handle[c] # NoCell, at' = [at EXCEPT ![c] = l],
           UNCHANGED <<todo, handle, ran, result>>
    PROVE  Progress
<1> USE DEF IInv, TypeOK, CallsOK, CachesOK
<1>1. ASSUME NEW d \in Callers
      PROVE  /\ at'[d] # "idle" => todo'[d] # <<>>
             /\ at'[d] = "build" => handle'[d] # NoCell
             /\ at'[d] = "idle" => ran'[d] = {}
             /\ ran'[d] \subseteq ran[d]
  BY DEF AtWorkInv, AtWork
<1>2. at' \in [Callers -> {"idle", "dispatch", "use", "build"}]
  OBVIOUS
<1> QED
  BY <1>1, <1>2 DEF Progress, Results

\* A build begins, succeeds or fails, holding the cell.
LEMMA BuildSteps ==
    ASSUME IInv, NEW c \in Callers, StartBuild(c) \/ Built(c) \/ BuildFails(c)
    PROVE  IInv'
<1>1. at[c] \in {"use", "build"} /\ handle[c] # NoCell
  BY DEF StartBuild, Built, BuildFails, IInv, AtWorkInv, AtWork
<1>2. handle[c] \in Cells
  BY <1>1 DEF IInv, TypeOK, CachesOK
<1>3. detached \subseteq Cells /\ found \subseteq Cells
  BY DEF IInv, TypeOK, SessionsOK
<1>4. CASE StartBuild(c)
  <2>1. Progress
    BY <1>1, <1>4, ChangeOfPlace DEF StartBuild
  <2> QED
    BY <1>2, <1>3, <1>4, <2>1, CellStepKeeps DEF StartBuild, SetCell, closeVars
<1>5. CASE Built(c)
  <2>1. Progress
    BY <1>1, <1>5, ChangeOfPlace DEF Built
  <2> QED
    BY <1>2, <1>3, <1>5, <2>1, CellStepKeeps DEF Built, SetCell, closeVars
<1>6. CASE BuildFails(c)
  <2>1. Progress
    BY <1>6, FinishMoves DEF IInv, BuildFails, Results
  <2>2. detached' \subseteq Cells /\ found' \subseteq Cells
    BY <1>3, <1>6 DEF BuildFails
  <2> QED
    BY <1>2, <1>6, <2>1, <2>2, CellStepKeeps DEF BuildFails, SetCell
<1> QED
  BY <1>4, <1>5, <1>6

\* A new call has a part to do, and has reached nothing yet.
LEMMA BeginKeeps ==
    ASSUME IInv, NEW c \in Callers, NEW o \in Ops, Begin(c, o)
    PROVE  IInv'
<1>1. Parts(o) \in Seq(ReadParts \union WriteParts) /\ Parts(o) # <<>>
  <2>1. o.kind \in Kinds
    BY FacadeAssumption DEF FacadeAssumption, Call
  <2>2. \/ Parts(o) = <<"vlans">>
        \/ Parts(o) = <<"set">>
        \/ Parts(o) = <<"vlans", "delete">>
        \/ Parts(o) = <<"vlans", "poe">>
    BY <2>1, Zenon DEF Kinds, Parts
  <2>3. Parts(o) # <<>>
    BY <2>2
  <2>4. {"vlans", "poe", "delete", "set"} = ReadParts \union WriteParts
    BY DEF ReadParts, WriteParts
  <2>5. Parts(o) \in Seq({"vlans", "poe", "delete", "set"})
    <3> DEFINE P == {"vlans", "poe", "delete", "set"}
    <3>1. /\ <<"vlans">> \in Seq(P) /\ <<"set">> \in Seq(P)
          /\ <<"vlans", "delete">> \in Seq(P) /\ <<"vlans", "poe">> \in Seq(P)
      OBVIOUS
    <3> HIDE DEF P
    <3>2. Parts(o) \in Seq(P)
      BY <2>2, <3>1, Zenon
    <3> QED
      BY <3>2 DEF P
  <2> QED
    BY <2>3, <2>4, <2>5
<1>2. calls' \in 0..MaxCalls
  BY FacadeAssumption DEF FacadeAssumption, Begin, IInv, TypeOK, CallsOK
<1>3. CallsOK'
  BY <1>1, <1>2 DEF Begin, IInv, TypeOK, CallsOK
<1>4. CachesOK' /\ SessionsOK' /\ CachedInv'
  BY DEF Begin, IInv, TypeOK, CachesOK, SessionsOK, CachedInv, cacheVars, closeVars, Cells
<1>5. AtWorkInv'
  BY <1>1 DEF Begin, IInv, TypeOK, CallsOK, AtWorkInv, AtWork
<1>6. ASSUME NEW d \in Callers, NEW b \in ran'[d] PROVE b = ResolveBackend(op'[d])
  <2>1. d # c
    BY <1>6 DEF Begin, IInv, AtWorkInv, AtWork
  <2>2. op'[d] = op[d] /\ b \in ran[d]
    BY <1>6, <2>1 DEF Begin, IInv, TypeOK, CallsOK
  <2> QED
    BY <2>2 DEF IInv, ResolvedInv
<1>7. ResolvedInv'
  BY <1>6 DEF ResolvedInv, ResolveBackend, Requested
<1> QED
  BY <1>3, <1>4, <1>5, <1>7 DEF IInv, TypeOK

\* Close takes sessions out of the cache, and closes those that are up.
LEMMA CloseKeeps ==
    ASSUME IInv, Close
    PROVE  IInv'
<1>1. UNCHANGED callVars
  BY DEF Close, CloseHttp, CloseCli, CloseReturns, CloseCell, Detach
<1>2. CallsOK' /\ AtWorkInv' /\ ResolvedInv'
  BY <1>1 DEF callVars, IInv, TypeOK, CallsOK, AtWorkInv, AtWork, ResolvedInv,
     ResolveBackend, Requested
<1> USE DEF IInv, TypeOK, CachesOK, SessionsOK
<1>3. ASSUME NEW K \in SUBSET SessionKinds, Detach(K),
             closing' \in {"http", "cli"}
      PROVE  IInv'
  <2>1. InCache(K) \subseteq Cells
    BY <1>3 DEF InCache
  <2>2. cached' \in [SessionKinds -> Cells \union {NoCell}]
    BY <1>3 DEF Detach
  <2>3. detached' \subseteq Cells /\ found' \subseteq Cells
    BY <1>3, <2>1 DEF Detach
  <2>4. /\ Cells' = Cells /\ cells' \in Seq(Session)
        /\ UNCHANGED <<readers, writers>>
    BY <1>3 DEF Detach, Cells, Session
  <2> QED
    BY <1>1, <1>2, <1>3, <2>2, <2>3, <2>4 DEF callVars, CachedInv, Session
<1>4. CASE CloseHttp
  BY <1>3, <1>4 DEF CloseHttp, SessionKinds
<1>5. CASE CloseCli
  BY <1>3, <1>5 DEF CloseCli, SessionKinds
<1>6. CASE CloseReturns
  BY <1>1, <1>2, <1>6 DEF CloseReturns, callVars, cacheVars, Cells, CachedInv
<1>7. ASSUME NEW i \in detached, CloseCell(i) PROVE IInv'
  <2>1. i \in Cells /\ detached' \subseteq Cells /\ found' \subseteq Cells
    BY <1>7 DEF CloseCell
  <2>2. /\ Cells' = Cells /\ cells' \in Seq(Session)
        /\ \A j \in Cells : cells'[j].kind = cells[j].kind
    <3>1. CASE cells' = [cells EXCEPT ![i].state = "closed"]
      BY <2>1, <3>1, CellMoves
    <3>2. CASE cells' = cells
      BY <3>2 DEF Cells, Session
    <3> QED
      BY <1>7, <3>1, <3>2 DEF CloseCell
  <2>3. SessionsOK' /\ CachedInv'
    BY <1>7, <2>1, <2>2 DEF CloseCell, CachedInv, cacheVars, Session
  <2>4. CachesOK'
    BY <1>1, <1>7, <2>2 DEF CloseCell, cacheVars, callVars
  <2> QED
    BY <1>2, <2>3, <2>4
<1> QED
  BY <1>4, <1>5, <1>6, <1>7 DEF Close

-----------------------------------------------------------------------------
(* The invariant. *)

LEMMA InitHolds == Init => IInv
<1> SUFFICES ASSUME Init PROVE IInv
  OBVIOUS
<1> USE FacadeAssumption DEF FacadeAssumption, Init
<1>1. CallsOK
  BY DEF CallsOK
<1>2. CachesOK
  BY DEF CachesOK, Nothing
<1>3. SessionsOK
  BY DEF SessionsOK
<1>4. AtWorkInv /\ ResolvedInv
  BY DEF AtWorkInv, AtWork, ResolvedInv
<1>5. CachedInv
  BY DEF CachedInv, Cells
<1> QED
  BY <1>1, <1>2, <1>3, <1>4, <1>5 DEF IInv, TypeOK

LEMMA StepKeepsInvariant == IInv /\ [Next]_vars => IInv'
<1> SUFFICES ASSUME IInv, [Next]_vars PROVE IInv'
  OBVIOUS
<1>1. ASSUME NEW c \in Callers, NEW o \in Ops, Begin(c, o) PROVE IInv'
  BY <1>1, BeginKeeps
<1>2. ASSUME NEW c \in Callers, Step(c) PROVE IInv'
  BY <1>2, ReachKeeps, OtherCallSteps, BuildSteps DEF Step
<1>3. CASE Close
  BY <1>3, CloseKeeps
<1>4. CASE UNCHANGED vars
  BY <1>4 DEF vars, callVars, cacheVars, closeVars, IInv, TypeOK, CallsOK, CachesOK,
     SessionsOK, AtWorkInv, AtWork, ResolvedInv, ResolveBackend, Requested, CachedInv, Cells
<1> QED
  BY <1>1, <1>2, <1>3, <1>4 DEF Next

THEOREM InvariantHolds == Spec => []IInv
  BY InitHolds, StepKeepsInvariant, PTL DEF Spec

-----------------------------------------------------------------------------
(* The theorems. *)

\* The type invariant of a Switch: its calls, its caches and its lazy sessions.
THEOREM TypeCorrect == Spec => []TypeOK
<1>1. IInv => TypeOK
  BY DEF IInv
<1> QED
  BY <1>1, InvariantHolds, PTL

\* resolveBackend's "no silent substitution": each part of a call runs on the
\* backend asked for, else the pinned one, else the first declared.
THEOREM BackendsNotSubstituted == Spec => []NoSubstitution
<1>1. IInv => NoSubstitution
  <2> SUFFICES ASSUME IInv, NEW c \in Callers, NEW b \in ran[c]
               PROVE  /\ b \in Declared
                      /\ op[c].backend # NoBackend => b = op[c].backend
                      /\ op[c].backend = NoBackend /\ Pinned # NoBackend => b = Pinned
                      /\ op[c].backend = NoBackend /\ Pinned = NoBackend =>
                            \E i \in DOMAIN Preference :
                                /\ Preference[i] = b
                                /\ \A j \in DOMAIN Preference :
                                      Preference[j] \in Declared => i <= j
    BY DEF NoSubstitution
  <2>1. b = ResolveBackend(op[c]) /\ b \in Backends /\ op[c] \in Ops
    BY DEF IInv, ResolvedInv, TypeOK, CallsOK
  <2> QED
    BY <2>1, ResolvesAsAsked
<1> QED
  BY <1>1, InvariantHolds, PTL

\* Readers and writers of one transport share one session until Close
\* (httpSession, cliSession).
THEOREM SessionsShared == Spec => []OneSessionPerKind
<1>1. IInv => OneSessionPerKind
  BY DEF IInv, CachedInv, OneSessionPerKind
<1> QED
  BY <1>1, InvariantHolds, PTL

=============================================================================
