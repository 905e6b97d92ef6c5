------------------------------ MODULE SwitchFacade ------------------------------
(***************************************************************************)
(* The Switch facade (switch.go, dispatch.go, write_dispatch.go,            *)
(* switch_write.go, snapshot.go): which backend a call runs on, the caches  *)
(* of readers and writers, the sessions they share, and Close.              *)
(*                                                                          *)
(* A call is one or more parts, each a readVia or a writeVia.  A part picks *)
(* a backend, takes the backend's reader or writer from the cache or builds *)
(* it under Switch.mu, and uses it.  HTTP and CLI readers and writers hold  *)
(* a lazy session: a cell with a mutex of its own that builds the session   *)
(* (password, dial, login) at its first use.  Close takes the cells out of  *)
(* the session cache and closes the sessions in them; the reader and writer *)
(* caches keep theirs.                                                      *)
(***************************************************************************)
EXTENDS Naturals, Sequences, FiniteSets

CONSTANTS
    Callers,
    Preference,      \* backendPreference, a sequence of backends
    Declared,        \* the backends the model declares
    Pinned,          \* Switch.backend (WithBackend), or NoBackend
    HttpKinds,       \* {BackendHTTP}: the session kinds Close releases first
    CliKinds,        \* the CLI transports, released next
    Readable,        \* backends whose reader builder passes its gate
    Writable,        \* backends whose writer builder passes its gate
    Serves,          \* per backend, the parts its reader and writer implement
    Ops,             \* the calls callers try
    MaxCalls,        \* bound: calls of all callers
    CallsAfterClose, \* FALSE: no call begins once Close has
    NoBackend, NoCell

SessionKinds == HttpKinds \union CliKinds
Backends == {Preference[i] : i \in DOMAIN Preference}
ReadParts == {"vlans", "poe"}
WriteParts == {"delete", "set"}

\* A read (GetPorts, GetVLANs, ... differ in what they read), a setter, DeleteVlan
\* without force, and Snapshot.
Kinds == {"get", "set", "delete", "snapshot"}
\* A call, and the backend asked for, if any (readOptions).
Call == [kind : Kinds, backend : Declared \union Backends \union {NoBackend}]

ASSUME FacadeAssumption ==
    /\ Preference \in Seq(Backends)
    /\ Declared \subseteq Backends
    /\ Pinned \in Backends \union {NoBackend}
    /\ SessionKinds \subseteq Backends
    /\ Readable \subseteq Backends /\ Writable \subseteq Backends
    /\ Serves \in [Backends -> SUBSET (ReadParts \union WriteParts)]
    /\ Ops \subseteq Call /\ Ops # {}
    /\ MaxCalls \in Nat /\ CallsAfterClose \in BOOLEAN
    /\ NoBackend \notin Backends /\ NoCell \notin Nat

VARIABLES
    op,        \* each caller's latest call
    calls,     \* calls begun
    at,        \* "idle", "dispatch", "use" or "build"
    todo,      \* the parts of the call still to do
    handle,    \* the cell behind the reader or writer in use, or NoCell
    ran,       \* history: the backends the running call's parts reached
    result,    \* what the latest call returned
    readers,   \* Switch.readerCache: backend |-> its cell or NoCell
    writers,   \* Switch.writerCache
    cells,     \* the lazy sessions made so far, in order
    cached,    \* httpSessionCache and cliSessionCache: kind |-> cell or NoCell
    closing,   \* Close: "no", "http", "cli" or "done"
    detached,  \* the cells Close has taken out and not closed yet
    found      \* history: the cells whose session was up, or coming up, at Close

callVars == <<op, calls, at, todo, handle, ran, result>>
\* The fields of a Switch that its calls change, but for the lazy sessions.
cacheVars == <<readers, writers, cached>>
closeVars == <<closing, detached, found>>
vars == <<callVars, cacheVars, cells, closeVars>>

Cells == 1..Len(cells)

CallsOK ==
    /\ op \in [Callers -> Ops]
    /\ calls \in 0..MaxCalls
    /\ at \in [Callers -> {"idle", "dispatch", "use", "build"}]
    /\ todo \in [Callers -> Seq(ReadParts \union WriteParts)]
    /\ ran \in [Callers -> SUBSET Backends]
    /\ result \in [Callers -> {"none", "ok", "unsupported", "failed"}]

CachesOK ==
    /\ DOMAIN readers \subseteq Readable \intersect Declared
    /\ DOMAIN writers \subseteq Writable \intersect Declared
    /\ \A b \in DOMAIN readers : readers[b] \in Cells \union {NoCell}
    /\ \A b \in DOMAIN writers : writers[b] \in Cells \union {NoCell}
    /\ cached \in [SessionKinds -> Cells \union {NoCell}]
    /\ handle \in [Callers -> Cells \union {NoCell}]

SessionsOK ==
    /\ cells \in Seq([kind : SessionKinds, state : {"unbuilt", "building", "open", "closed"}])
    /\ closing \in {"no", "http", "cli", "done"}
    /\ detached \subseteq Cells /\ found \subseteq Cells

TypeOK == CallsOK /\ CachesOK /\ SessionsOK

Nothing == [b \in {} |-> NoCell]

Init ==
    /\ op = [c \in Callers |-> CHOOSE o \in Ops : TRUE]
    /\ calls = 0
    /\ at = [c \in Callers |-> "idle"]
    /\ todo = [c \in Callers |-> <<>>]
    /\ handle = [c \in Callers |-> NoCell]
    /\ ran = [c \in Callers |-> {}]
    /\ result = [c \in Callers |-> "none"]
    /\ readers = Nothing /\ writers = Nothing
    /\ cells = <<>>
    /\ cached = [k \in SessionKinds |-> NoCell]
    /\ closing = "no" /\ detached = {} /\ found = {}

-----------------------------------------------------------------------------
(* readVia and writeVia. *)

Parts(o) ==
    CASE o.kind = "get" -> <<"vlans">>
      [] o.kind = "set" -> <<"set">>
      [] o.kind = "delete" -> <<"vlans", "delete">>
      [] o.kind = "snapshot" -> <<"vlans", "poe">>

Requested(o) == IF o.backend # NoBackend THEN o.backend ELSE Pinned

First(S) ==
    IF S = {} THEN NoBackend
    ELSE Preference[CHOOSE i \in DOMAIN Preference :
                        /\ Preference[i] \in S
                        /\ \A j \in 1..(i - 1) : Preference[j] \notin S]

\* Faulty resolveBackend: falls through to a backend that can serve the call.
Fallback(o) ==
    LET able == {b \in Declared : \A i \in DOMAIN Parts(o) : Parts(o)[i] \in Serves[b]} IN
    IF Requested(o) # NoBackend
    THEN IF Requested(o) \in Declared THEN Requested(o) ELSE NoBackend
    ELSE First(able)

\* resolveBackend: the requested backend if declared, else the first declared.
ResolveBackend(o) ==
    IF Requested(o) # NoBackend
    THEN IF Requested(o) \in Declared THEN Requested(o) ELSE NoBackend
    ELSE First(Declared)

Begin(c, o) ==
    /\ at[c] = "idle" /\ calls < MaxCalls
    /\ closing = "no" \/ CallsAfterClose
    /\ op' = [op EXCEPT ![c] = o]
    /\ calls' = calls + 1
    /\ todo' = [todo EXCEPT ![c] = Parts(o)]
    /\ at' = [at EXCEPT ![c] = "dispatch"]
    /\ result' = [result EXCEPT ![c] = "none"]
    /\ UNCHANGED <<handle, ran, cacheVars, cells, closeVars>>

Finish(c, r) ==
    /\ at' = [at EXCEPT ![c] = "idle"]
    /\ todo' = [todo EXCEPT ![c] = <<>>]
    /\ result' = [result EXCEPT ![c] = r]
    /\ handle' = [handle EXCEPT ![c] = NoCell]
    /\ ran' = [ran EXCEPT ![c] = {}]

PartDone(c) ==
    IF Len(todo[c]) = 1 THEN Finish(c, "ok")
    ELSE /\ todo' = [todo EXCEPT ![c] = Tail(@)]
         /\ at' = [at EXCEPT ![c] = "dispatch"]
         /\ handle' = [handle EXCEPT ![c] = NoCell]
         /\ UNCHANGED <<ran, result>>

\* A capability gap degrades a snapshot's field, and guardVLANDeleteMembers's
\* read, to nothing; it is the error of any other part.
Degrades(c) ==
    \/ op[c].kind = "snapshot"
    \/ op[c].kind = "delete" /\ Head(todo[c]) = "vlans"

Unsupported(c) == IF Degrades(c) THEN PartDone(c) ELSE Finish(c, "unsupported")

\* Faulty cliSession: a lazy session for every reader and writer.
FreshCell(b) == NoCell

\* httpSession, cliSession: the kind's cached cell.
SharedCell(b) == cached[b]

\* readerFor or writerFor, on a cache miss: the builder, under Switch.mu.
Build(b) ==
    IF b \in SessionKinds /\ SharedCell(b) = NoCell
    THEN /\ cells' = Append(cells, [kind |-> b, state |-> "unbuilt"])
         /\ cached' = [cached EXCEPT ![b] = Len(cells) + 1]
    ELSE UNCHANGED <<cells, cached>>

CellAfter(b) == IF b \in SessionKinds THEN cached'[b] ELSE NoCell

\* Faulty buildCLIWriter: without cliWritesSupported.
OneGate(part) == Readable

\* The gate at the top of a builder: cliReadsSupported, cliWritesSupported,
\* httpReadsSupported, HasBackend.
Gate(part) == IF part \in ReadParts THEN Readable ELSE Writable

\* The cache of the part's kind answers, or is filled by the builder.
Obtain(c, b) ==
    LET cache == IF Head(todo[c]) \in ReadParts THEN readers ELSE writers
        added == [x \in DOMAIN cache \union {b} |-> IF x = b THEN CellAfter(b) ELSE cache[x]]
    IN  IF b \in DOMAIN cache THEN UNCHANGED <<readers, writers, cells, cached>>
        ELSE /\ Build(b)
             /\ IF Head(todo[c]) \in ReadParts
                THEN readers' = added /\ UNCHANGED writers
                ELSE writers' = added /\ UNCHANGED readers

\* The backend is declared and past the gate: its reader or writer is called,
\* and refuses the parts it does not implement.
Reach(c) ==
    LET b == ResolveBackend(op[c]) IN
    /\ at[c] = "dispatch"
    /\ b \in Gate(Head(todo[c]))
    /\ Obtain(c, b)
    /\ IF Head(todo[c]) \in Serves[b]
       THEN /\ at' = [at EXCEPT ![c] = "use"]
            /\ handle' = [handle EXCEPT ![c] =
                             IF Head(todo[c]) \in ReadParts THEN readers'[b] ELSE writers'[b]]
            /\ ran' = [ran EXCEPT ![c] = @ \union {b}]
            /\ UNCHANGED <<todo, result>>
       ELSE Unsupported(c)
    /\ UNCHANGED <<op, calls, closeVars>>

\* resolveBackend or the builder's gate refuses; nothing is cached.
Refuse(c) ==
    /\ at[c] = "dispatch"
    /\ ResolveBackend(op[c]) \notin Gate(Head(todo[c]))
    /\ Unsupported(c)
    /\ UNCHANGED <<op, calls, cacheVars, cells, closeVars>>

\* The call's context has ended, or an SNMP or NSDP builder finds no credential.
DispatchFails(c) ==
    /\ at[c] = "dispatch"
    /\ Finish(c, "failed")
    /\ UNCHANGED <<op, calls, cacheVars, cells, closeVars>>

-----------------------------------------------------------------------------
(* Lazy sessions. *)

SetCell(i, s) == cells' = [cells EXCEPT ![i].state = s]

\* resolve finds nothing built: build, holding the cell's mutex.
StartBuild(c) ==
    /\ at[c] = "use" /\ handle[c] # NoCell
    /\ cells[handle[c]].state = "unbuilt"
    /\ SetCell(handle[c], "building")
    /\ at' = [at EXCEPT ![c] = "build"]
    /\ UNCHANGED <<op, calls, todo, handle, ran, result, cacheVars, closeVars>>

Built(c) ==
    /\ at[c] = "build"
    /\ SetCell(handle[c], "open")
    /\ at' = [at EXCEPT ![c] = "use"]
    /\ UNCHANGED <<op, calls, todo, handle, ran, result, cacheVars, closeVars>>

\* Faulty resolve: the error path leaves the mutex locked.
StaysLocked(c) ==
    /\ at[c] = "build"
    /\ Finish(c, "failed")
    /\ UNCHANGED <<op, calls, cells, cacheVars, closeVars>>

\* No password, no connection, no login: the failure is not cached.
BuildFails(c) ==
    /\ at[c] = "build"
    /\ SetCell(handle[c], "unbuilt")
    /\ found' = found \ {handle[c]}
    /\ Finish(c, "failed")
    /\ UNCHANGED <<op, calls, cacheVars, closing, detached>>

\* HTTPClient.Close drops idle connections; a later request opens another.
Usable(i) == cells[i].state = "open" \/ (cells[i].state = "closed" /\ cells[i].kind \in HttpKinds)

\* The part runs on a session that is up, or on a client that keeps none
\* (SNMP, NSDP).
Use(c) ==
    /\ at[c] = "use"
    /\ handle[c] # NoCell => Usable(handle[c])
    /\ PartDone(c)
    /\ UNCHANGED <<op, calls, cells, cacheVars, closeVars>>

\* Any other error of the part, the use of a closed session among them.
UseFails(c) ==
    /\ at[c] = "use"
    /\ handle[c] # NoCell => cells[handle[c]].state \in {"open", "closed"}
    /\ Finish(c, "failed")
    /\ UNCHANGED <<op, calls, cells, cacheVars, closeVars>>

-----------------------------------------------------------------------------
(* Switch.Close. *)

InCache(kinds) == {cached[k] : k \in kinds} \ {NoCell}

Detach(kinds) ==
    /\ detached' = InCache(kinds)
    /\ found' = found \union {i \in InCache(kinds) : cells[i].state \in {"open", "building"}}
    /\ cached' = [k \in SessionKinds |-> IF k \in kinds THEN NoCell ELSE cached[k]]
    /\ UNCHANGED <<callVars, readers, writers, cells>>

CloseHttp == closing = "no" /\ closing' = "http" /\ Detach(HttpKinds)

CloseCli == closing = "http" /\ detached = {} /\ closing' = "cli" /\ Detach(CliKinds)

\* builtSession waits for a build in progress; what it returns is closed.
CloseCell(i) ==
    /\ cells[i].state # "building"
    /\ cells' = IF cells[i].state = "open" THEN [cells EXCEPT ![i].state = "closed"] ELSE cells
    /\ detached' = detached \ {i}
    /\ UNCHANGED <<callVars, cacheVars, closing, found>>

CloseReturns ==
    /\ closing = "cli" /\ detached = {}
    /\ closing' = "done"
    /\ UNCHANGED <<callVars, cacheVars, cells, detached, found>>

Close == CloseHttp \/ CloseCli \/ CloseReturns \/ \E i \in detached : CloseCell(i)

Step(c) ==
    \/ Reach(c) \/ Refuse(c) \/ DispatchFails(c)
    \/ StartBuild(c) \/ Built(c) \/ BuildFails(c)
    \/ Use(c) \/ UseFails(c)

Next ==
    \/ \E c \in Callers : (\E o \in Ops : Begin(c, o)) \/ Step(c)
    \/ Close

Spec == Init /\ [][Next]_vars

\* Goroutines run, Go's mutexes are fair, and a build ends: the dial, the login
\* and Setup have deadlines.
FairSpec ==
    /\ Spec
    /\ \A c \in Callers : WF_vars(Step(c))
    /\ WF_vars(CloseCli \/ CloseReturns \/ \E i \in detached : CloseCell(i))

-----------------------------------------------------------------------------
(* Properties. *)

\* resolveBackend "no silent substitution" (dispatch.go:215-250): every part
\* of a call, DeleteVlan's guard read and each field of a Snapshot included,
\* runs on the backend named, else the one pinned, else the first declared.
NoSubstitution ==
    \A c \in Callers : \A b \in ran[c] :
        /\ b \in Declared
        /\ op[c].backend # NoBackend => b = op[c].backend
        /\ op[c].backend = NoBackend /\ Pinned # NoBackend => b = Pinned
        /\ op[c].backend = NoBackend /\ Pinned = NoBackend =>
              \E i \in DOMAIN Preference :
                  /\ Preference[i] = b
                  /\ \A j \in DOMAIN Preference : Preference[j] \in Declared => i <= j

\* "the reader and the writer for a given transport share ONE interactive
\* shell" (backend_cli.go:186-188): one login per session kind until Close.
OneSessionPerKind ==
    closing = "no" =>
    \A i, j \in Cells :
        /\ i # j
        => cells[i].kind # cells[j].kind \/ cells[i].state = "unbuilt"
                                         \/ cells[j].state = "unbuilt"

\* Calls return and Close returns, though they wait for each other's builds, and
\* Close (switch.go:502) leaves closed every session that was up or coming up
\* when it reached its cache.
EverybodyReturns ==
    /\ \A c \in Callers : at[c] # "idle" ~> at[c] = "idle"
    /\ closing = "http"
       ~> closing = "done" /\ \A i \in found : cells[i].state \notin {"open", "building"}

=============================================================================
