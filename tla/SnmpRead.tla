-------------------------------- MODULE SnmpRead --------------------------------
(***************************************************************************)
(* Reads over SNMP (snmp/reader.go): a table is walked column by column,   *)
(* each column by GETBULK pages (GoSNMPClient.Walk, snmp/gosnmp.go), and   *)
(* the columns are joined afterwards (snmp/parse.go).  Nothing holds the  *)
(* agent still in between.                                                  *)
(*                                                                          *)
(* The agent is the virtual switch's (virtual/snmpface.go): it answers from *)
(* a view (virtual/mibview.go) that a SET rebuilds once all its varbinds    *)
(* have been applied; the other faces change the state behind it.  A real   *)
(* agent may also answer a GETBULK with an OID it gave before: "honest" is   *)
(* FALSE then.                                                              *)
(***************************************************************************)
EXTENDS Naturals, Sequences, FiniteSets

CONSTANTS
    Kinds,        \* the tables read: a subset of AllKinds
    Tables,       \* kind -> the contents a table may begin with
    NewRows,      \* kind -> the rows another face may put in: column -> value
    Pdus,         \* kind -> SET requests: sequences of [oid, to]
    Indices,      \* row numbers, below Width
    PageSize,     \* bulkMaxRepetitions
    MaxReads,     \* bound: reads of the reader
    MaxChanges    \* bound: SETs and changes by other faces

AllKinds == {"syslog", "vlans", "ports", "poe", "macs"}
Up == 1
Down == 2
Ethernet == 6        \* ifType
Destroy == 7         \* RowStatus
Values == 1..6       \* states, types, bridge ports; any number stands for a text
None == 0            \* a nil or empty field of a model struct
End == 0             \* the EndOfMibView varbind

\* The columns of a table, and the numbers that stand for OIDs: column by column,
\* the rows of a column in order.
Columns(k) == IF k \in {"poe", "macs"} THEN 1..2 ELSE 1..3
Width == 10000      \* more than the rows of any table
Oid(c, i) == c * Width + i
Col(o) == o \div Width
RowOf(o) == o % Width
Oids(k) == {Oid(c, i) : c \in Columns(k), i \in Indices}
IsView(s, k) == DOMAIN s \subseteq Oids(k) /\ \A o \in DOMAIN s : s[o] \in Values

ASSUME SnmpReadAssumption ==
    /\ Kinds \subseteq AllKinds /\ Kinds # {}
    /\ Indices \subseteq 1..(Width - 1)
    /\ \A k \in Kinds :
          /\ \A t \in Tables[k] : IsView(t, k)
          /\ \A r \in NewRows[k] :
                DOMAIN r \subseteq Columns(k) /\ \A c \in DOMAIN r : r[c] \in Values
          /\ Pdus[k] \subseteq Seq([oid : Oids(k), to : Values \union {Destroy}])
    /\ PageSize \in Nat \ {0} /\ MaxReads \in Nat /\ MaxChanges \in Nat

VARIABLES
    kind, honest,   \* the table of this behaviour; whether the agent advances
    conf,           \* State, as OIDMap shows it: OID -> value
    view,           \* MibView.entries
    pdu,            \* what is left of the SET being handled; the state is locked meanwhile
    saved,          \* its SnapshotState
    pc, col, pos,   \* the reader: "idle" or "walk", the column and the last OID accepted
    got,            \* column -> row -> value: the rows of each Walk
    outcome,        \* "none", "ok", "failed"
    table,          \* what the parser made of them: row -> tuple of fields
    reads, changes,
    intended,       \* history: the state by whole SETs and changes only
    behind,         \* history: another face changed the state since the last rebuild
    first, moved    \* history: the view when the read began; it has changed since

agentVars == <<conf, view, pdu, saved, changes, intended, behind>>
readerVars == <<pc, col, pos, got, outcome, table, reads, first>>
readVars == <<kind, honest, agentVars, readerVars, moved>>

NoRows == [x \in {} |-> None]   \* no rows, no columns

ReadTypeOK ==
    /\ kind \in Kinds /\ honest \in BOOLEAN
    /\ IsView(conf, kind) /\ IsView(view, kind) /\ IsView(saved, kind)
    /\ pc \in {"idle", "walk"} /\ col \in Columns(kind)
    /\ pos = Oid(col, 0) \/ (pos \in Oids(kind) /\ Col(pos) = col)
    /\ DOMAIN got = Columns(kind)
    /\ \A c \in Columns(kind) : DOMAIN got[c] \subseteq Indices
    /\ outcome \in {"none", "ok", "failed"}
    /\ reads \in 0..MaxReads /\ changes \in 0..MaxChanges
    /\ behind \in BOOLEAN /\ moved \in BOOLEAN

ReadInit ==
    /\ kind \in Kinds /\ honest \in BOOLEAN
    /\ conf \in Tables[kind] /\ view = conf
    /\ pdu = <<>> /\ saved = conf
    /\ pc = "idle" /\ col = 1 /\ pos = Oid(1, 0)
    /\ got = [c \in Columns(kind) |-> NoRows]
    /\ outcome = "none" /\ table = NoRows
    /\ reads = 0 /\ changes = 0
    /\ intended = conf /\ behind = FALSE /\ first = view /\ moved = FALSE

-----------------------------------------------------------------------------
(* The agent. *)

\* Columns a SET may name.
WritableColumns(k) ==
    CASE k = "syslog" -> {3} [] k = "vlans" -> {1, 2} [] k \in {"ports", "poe"} -> {1}
      [] OTHER -> {}

RowOids(k, i) == {Oid(c, i) : c \in Columns(k)}
Exists(k, s, i) == RowOids(k, i) \intersect DOMAIN s # {}

\* A varbind that ends the request: not writable, or the row status of a
\* collector that is not there.
Refused(k, s, w) ==
    \/ Col(w.oid) \notin WritableColumns(k)
    \/ k = "syslog" /\ ~Exists(k, s, RowOf(w.oid))

Setting(s, os, v) == [o \in DOMAIN s \union os |-> IF o \in os THEN v ELSE s[o]]
WithoutRow(k, s, i) == [o \in DOMAIN s \ RowOids(k, i) |-> s[o]]

\* Faulty Effect: a destroyed row is blanked, and stays.
Blanks(k, s, w) ==
    IF w.to = Destroy THEN Setting(s, RowOids(k, RowOf(w.oid)), None)
    ELSE Setting(s, {w.oid}, w.to)

\* The OIDs that change together: the ports of a VLAN are its current ones too, a port
\* that is switched off loses its link, a PoE port its power.
Together(k, w) ==
    {w.oid} \union {Oid(c, RowOf(w.oid)) :
        c \in IF k = "vlans" /\ Col(w.oid) = 2 THEN {3}
              ELSE IF k \in {"ports", "poe"} /\ w.to = Down THEN {2} ELSE {}}

\* ApplyWrite: naming a VLAN creates it without ports; nothing else makes a row.
Effect(k, s, w) ==
    LET i == RowOf(w.oid) IN
    IF w.to = Destroy THEN WithoutRow(k, s, i)
    ELSE IF k = "vlans" /\ ~Exists(k, s, i)
         THEN IF Col(w.oid) = 1
              THEN Setting(Setting(s, {w.oid}, w.to), {Oid(2, i), Oid(3, i)}, 1)
              ELSE s
    ELSE Setting(s, Together(k, w) \intersect DOMAIN s, w.to)

\* What the varbinds of a SET, taken one after the other, make of the state: n |-> the
\* state after the first n.
StateAfter(k, s, p) ==
    LET after[n \in 0..Len(p)] == IF n = 0 THEN s ELSE Effect(k, after[n - 1], p[n]) IN after

\* What a SET request as a whole is to make of the state.
Intended(k, s, p) ==
    LET after == StateAfter(k, s, p) IN
    IF \E n \in 1..Len(p) : Refused(k, after[n - 1], p[n]) THEN s ELSE after[Len(p)]

Set(p) ==
    /\ pdu = <<>> /\ changes < MaxChanges
    /\ changes' = changes + 1
    /\ pdu' = p /\ saved' = conf
    /\ intended' = Intended(kind, conf, p)
    /\ UNCHANGED <<kind, honest, conf, view, behind, readerVars, moved>>

\* Faulty ViewAfter: each varbind is applied by ApplyWrite, which rebuilds the view.
RebuildsEach(s, last) == s

\* Only the last varbind rebuilds the view.
ViewAfter(s, last) == IF last THEN s ELSE view

\* The next varbind of the SET in hand: the last one commits, a refused one puts
\* the state back, all of it (RestoreState).
Apply ==
    /\ pdu # <<>>
    /\ LET w == Head(pdu) IN
       IF Refused(kind, conf, w)
       THEN conf' = saved /\ pdu' = <<>> /\ UNCHANGED <<view, behind>>
       ELSE /\ conf' = Effect(kind, conf, w)
            /\ pdu' = Tail(pdu)
            /\ view' = ViewAfter(conf', Tail(pdu) = <<>>)
            /\ behind' = (behind /\ Tail(pdu) # <<>>)
    /\ moved' = (moved \/ view' # view)
    /\ UNCHANGED <<kind, honest, saved, changes, intended, readerVars>>

\* Another face puts a row in or takes one out, unless the state is locked.
OtherFace ==
    /\ pdu = <<>> /\ changes < MaxChanges
    /\ changes' = changes + 1
    /\ \E i \in Indices :
        \/ conf' = WithoutRow(kind, conf, i)
        \/ \E r \in NewRows[kind] :
            conf' = [o \in DOMAIN WithoutRow(kind, conf, i) \union {Oid(c, i) : c \in DOMAIN r} |->
                        IF RowOf(o) = i THEN r[Col(o)] ELSE conf[o]]
    /\ conf' # conf
    /\ intended' = conf' /\ behind' = TRUE
    /\ UNCHANGED <<kind, honest, view, pdu, saved, readerVars, moved>>

\* The varbinds that answer a GETBULK for what follows o: the next PageSize
\* entries, then EndOfMibView.
Following(v, o) ==
    LET later == {p \in DOMAIN v : p > o}
        Nth(n) == CHOOSE p \in later : Cardinality({q \in later : q <= p}) = n IN
    [n \in 1..PageSize |-> IF n <= Cardinality(later) THEN Nth(n) ELSE End]

\* An agent that does not advance answers with OIDs of the column in any order.
Answers(o) ==
    IF honest THEN {Following(view, o)}
    ELSE {Following(view, o)} \union [1..PageSize -> {p \in DOMAIN view : Col(p) = col}]

-----------------------------------------------------------------------------
(* The reader. *)

BeginRead ==
    /\ pc = "idle" /\ reads < MaxReads
    /\ reads' = reads + 1
    /\ pc' = "walk" /\ col' = 1 /\ pos' = Oid(1, 0)
    /\ got' = [c \in Columns(kind) |-> NoRows]
    /\ outcome' = "none" /\ table' = NoRows
    /\ first' = view /\ moved' = FALSE
    /\ UNCHANGED <<kind, honest, agentVars>>

\* Ports that are no physical interfaces are left out, unless the agent has no
\* type column at all.
Physical(g) ==
    IF g[3] = NoRows THEN Indices ELSE {i \in DOMAIN g[3] : g[3][i] = Ethernet}

Field(g, c, i) == IF i \in DOMAIN g[c] THEN g[c][i] ELSE None

\* The rows a parser reports: collectors have an address, VLANs a name or a
\* current membership, the others any of their columns.
Reported(k, g) ==
    CASE k \in {"syslog", "macs"} -> DOMAIN g[1]
      [] k = "vlans" -> DOMAIN g[1] \union DOMAIN g[3]
      [] k = "ports" -> (DOMAIN g[1] \union DOMAIN g[2]) \intersect Physical(g)
      [] k = "poe" -> DOMAIN g[1] \union DOMAIN g[2]

\* ... and their fields; a VLAN with a name takes its ports from the static table,
\* a MAC entry its port through the bridge port table, if it is there.
Fields(k, g, i) ==
    CASE k = "syslog" -> <<g[1][i], Field(g, 2, i), Field(g, 3, i)>>
      [] k = "vlans" ->
            <<Field(g, 1, i), IF i \in DOMAIN g[1] THEN Field(g, 2, i) ELSE g[3][i]>>
      [] k \in {"ports", "poe"} -> <<Field(g, 1, i), Field(g, 2, i)>>
      [] k = "macs" -> <<IF g[1][i] \in DOMAIN g[2] THEN g[2][g[1][i]] ELSE g[1][i]>>

Joined(k, g) == [i \in Reported(k, g) |-> Fields(k, g, i)]

\* A PoE port without one of its two columns is an error.
Unjoinable(k, g) == k = "poe" /\ DOMAIN g[1] # DOMAIN g[2]

\* Faulty Rising: any OID of the column is accepted.
AnyOrder(a, n) == TRUE

\* The OIDs of an answer increase, up to its n-th one.
Rising(a, n) == \A j \in 1..n : a[j] > (IF j = 1 THEN pos ELSE a[j - 1])

\* Faulty Inside: a page with an entry beyond the column is left out.
WholePages(a) == IF \E j \in 1..PageSize : Col(a[j]) # col THEN 0 ELSE PageSize

\* How many varbinds of an answer come before the first one beyond the column.
Inside(a) ==
    CHOOSE n \in 0..PageSize :
        /\ \A j \in 1..n : Col(a[j]) = col
        /\ n < PageSize => Col(a[n + 1]) # col

Finish(g) ==
    /\ pc' = "idle"
    /\ outcome' = IF Unjoinable(kind, g) THEN "failed" ELSE "ok"
    /\ table' = IF Unjoinable(kind, g) THEN NoRows ELSE Joined(kind, g)
    /\ UNCHANGED <<col, pos>>

\* One page of a Walk: an OID that does not increase is an error; a page all
\* inside the column is followed by the next one, any other ends the column.
Page ==
    /\ pc = "walk" /\ pdu = <<>>
    /\ \E a \in Answers(pos) :
        LET n == Inside(a)
            new == {a[j] : j \in 1..n}
            g == [got EXCEPT ![col] =
                    [i \in DOMAIN got[col] \union {RowOf(o) : o \in new} |->
                        IF Oid(col, i) \in new THEN view[Oid(col, i)] ELSE got[col][i]]] IN
        IF ~Rising(a, n)
        THEN pc' = "idle" /\ outcome' = "failed" /\ UNCHANGED <<col, pos, got, table>>
        ELSE /\ got' = g
             /\ IF n = PageSize
                THEN pos' = a[n] /\ UNCHANGED <<pc, col, outcome, table>>
                ELSE IF col + 1 \in Columns(kind)
                     THEN /\ col' = col + 1 /\ pos' = Oid(col + 1, 0)
                          /\ UNCHANGED <<pc, outcome, table>>
                     ELSE Finish(g)
    /\ UNCHANGED <<kind, honest, agentVars, reads, first, moved>>

\* A request, with its retries, goes unanswered.
Lost ==
    /\ pc = "walk"
    /\ pc' = "idle" /\ outcome' = "failed"
    /\ UNCHANGED <<kind, honest, agentVars, col, pos, got, table, reads, first, moved>>

ReadNext ==
    \/ BeginRead \/ Page \/ Lost \/ Apply \/ OtherFace
    \/ \E p \in Pdus[kind] : Set(p)

\* The agent handles a SET without waiting, and answers, or the client gives up
\* (WithTimeout, WithRetries).
Fairness == WF_readVars(Apply) /\ WF_readVars(Page)

ReadSpec == ReadInit /\ [][ReadNext]_readVars /\ Fairness

-----------------------------------------------------------------------------

\* The columns of a view.
Split(k, s) ==
    [c \in Columns(k) |->
        [i \in {RowOf(o) : o \in {p \in DOMAIN s : Col(p) = c}} |-> s[Oid(c, i)]]]

\* A read during which the agent's view did not change reports exactly the rows of
\* that view, joined: wherever the pages of its columns end, none is missed,
\* repeated or taken from the next column (GoSNMPClient.Walk).  A torn row needs
\* a commit between two pages.
QuietReadIsExact ==
    honest /\ outcome = "ok" /\ ~moved
        => table = Joined(kind, Split(kind, first))

\* Between two requests the state is made of whole SETs and of the changes of other
\* faces only, and so is the view, unless it lags behind such a change
\* (handleSet, RestoreState, Rebuild).
OnlyWholeSets ==
    pdu = <<>> => conf = intended /\ (behind \/ view = conf)

\* Every read comes to an end, whatever an agent answers: one whose OIDs do not
\* increase is found out (Walk's OID-monotonicity guard).
ReadReturns == pc = "walk" ~> pc = "idle"

=============================================================================
