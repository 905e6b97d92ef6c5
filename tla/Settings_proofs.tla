---------------------------- MODULE Settings_proofs ----------------------------
(***************************************************************************)
(* What holds of Settings for every set of callers, switches, collectors    *)
(* and operations: types, what a successful call has done, what a write     *)
(* may alter besides, and who is told of an address set by halves.          *)
(***************************************************************************)
EXTENDS Settings, WellFoundedInduction, TLAPS

States == [conf : [Fields -> Values], rows : Tables]

Labels == {"idle", "read", "write", "rest", "verify"}
Results == {"none", "ok", "mismatch", "protected", "unsupported", "refused", "failed"}

StatesOK ==
    /\ TypeOK
    /\ view \in States
    /\ seen \in [Callers -> States] /\ start \in [Callers -> States]

\* Where a call can be: on a stack its switch has; past the read a removal knows
\* a row of its host; only the command line sets an address in two commands.
CallFits(c) ==
    /\ pc[c] # "idle" => op[c].stack \in switch.stacks
    /\ pc[c] = "write" /\ op[c].kind = "remove" => Named(seen[c].rows, op[c].host) # {}
    /\ pc[c] = "rest" => op[c].kind = "address" /\ op[c].stack = "cli" /\ switch.pair

\* The GS110EMX page finds address and gateway of one call, and puts them back as such.
Whole(s) == s.conf.address = s.conf.gateway
PageWhole ==
    "emx" \in switch.stacks =>
        Whole(State) /\ \A c \in Callers : op[c].stack = "emx" => Whole(seen[c])

\* The caller is between the two commands and its verdict.
Pending(c) == op[c].kind = "address" /\ op[c].stack = "cli" /\ pc[c] \in {"rest", "verify"}

\* An address and a gateway of different calls: somebody was told, or a command
\* line writer is still between its commands and its verdict.
SplitIsPending == ~Whole(State) /\ ~told => \E c \in Callers : Pending(c)

\* What a call has made of the state s; a removal takes out one row of its host.
Made(s, o, t) ==
    IF o.kind = "remove"
    THEN /\ t.conf = s.conf
         /\ \/ t.rows = s.rows
            \/ \E i \in Named(s.rows, o.host) : t.rows = WithoutRow(s.rows, i)
    ELSE t = Asked(s, o)

\* The call has read the state it began with; SNMP may have read an old view.
Fresh(c) == seen[c] = start[c]

\* A call nobody disturbs finds the state as it left it.
Alone(c) ==
    ~disturbed[c] =>
        /\ pc[c] \in {"read", "write"} => State = start[c]
        /\ pc[c] # "idle" /\ op[c].stack # "snmp" => Fresh(c)
        /\ pc[c] = "rest" => State = [start[c] EXCEPT !.conf.address = op[c].to]
        /\ pc[c] = "verify" /\ op[c].stack = "snmp" => view = State
        /\ pc[c] = "verify" /\ Fresh(c) => Made(start[c], op[c], State)

IInv ==
    /\ StatesOK /\ PageWhole /\ SplitIsPending
    /\ \A c \in Callers : CallFits(c) /\ Alone(c)

-----------------------------------------------------------------------------
(* Numbers and tables. *)

\* A set of numbers has a least element.
LEMMA LeastExists ==
    ASSUME NEW S \in SUBSET Nat, S # {}
    PROVE  \E i \in S : \A j \in S : i <= j
<1> DEFINE R == OpToRel(<, Nat)
<1>1. R = OpToRel(<, Nat)
  OBVIOUS
<1>2. IsWellFoundedOn(R, Nat)
  BY <1>1, NatLessThanWellFounded, Zenon
<1>3. \A x, y \in Nat : <<x, y>> \in R <=> x < y
  BY Zenon DEF OpToRel
<1> HIDE DEF R
<1>4. PICK i \in S : \A j \in S : ~(<<j, i>> \in R)
  BY <1>2, WFMin, Zenon
<1>5. ASSUME NEW j \in S PROVE i <= j
  <2>1. ~(<<j, i>> \in R) /\ i \in Nat /\ j \in Nat
    BY <1>4
  <2> QED
    BY <1>3, <2>1
<1> QED
  BY <1>5

\* Min of such a set is that element.
LEMMA MinIsIn ==
    ASSUME NEW S \in SUBSET Nat, S # {}
    PROVE  Min(S) \in S
<1>1. \E i \in S : \A j \in S : i <= j
  BY LeastExists
<1> QED
  BY <1>1 DEF Min

\* A bounded set of numbers has a greatest element, which Max yields.
LEMMA MaxIsIn ==
    ASSUME NEW n \in Nat, NEW S \in SUBSET (1..n), S # {}
    PROVE  Max(S) \in S /\ \A y \in S : Max(S) >= y
<1> DEFINE Above(u) == \A j \in S : j <= u
<1> DEFINE U == {u \in Nat : Above(u)}
<1>1. n \in U
  OBVIOUS
<1>2. PICK u \in U : \A v \in U : u <= v
  <2>1. U \in SUBSET Nat /\ U # {}
    BY <1>1
  <2> HIDE DEF U
  <2> QED
    BY <2>1, LeastExists
<1>3. u \in Nat /\ \A j \in S : j \in Nat /\ 1 <= j /\ j <= u
  BY <1>2
<1>4. u \in S
  <2> SUFFICES ASSUME u \notin S PROVE FALSE
    OBVIOUS
  <2>1. 1 <= u
    <3>1. PICK j : j \in S
      OBVIOUS
    <3> QED
      BY <1>3, <3>1
  <2>2. u - 1 \in Nat
    BY <1>3, <2>1
  <2>3. ASSUME NEW j \in S PROVE j <= u - 1
    <3>1. j \in Nat /\ j <= u /\ j # u
      BY <1>3
    <3> QED
      BY <1>3, <3>1
  <2>4. u - 1 \in U
    BY <2>2, <2>3
  <2>5. u <= u - 1
    BY <1>2, <2>4
  <2> QED
    BY <1>3, <2>5
<1>5. \E x \in S : \A y \in S : x >= y
  BY <1>3, <1>4
<1> QED
  BY <1>5 DEF Max

\* Indexes and hosts of a collector table.
LEMMA TableType ==
    ASSUME NEW t \in Tables
    PROVE  /\ DOMAIN t \in SUBSET (1..MaxRows) /\ t \in [DOMAIN t -> Hosts]
           /\ \A h : Named(t, h) \in SUBSET Nat /\ Named(t, h) \subseteq DOMAIN t
<1>1. PICK S \in SUBSET (1..MaxRows) : t \in [S -> Hosts]
  BY DEF Tables
<1>2. DOMAIN t = S
  BY <1>1
<1>3. DOMAIN t \in SUBSET (1..MaxRows) /\ t \in [DOMAIN t -> Hosts]
  BY <1>1, <1>2
<1>4. DOMAIN t \subseteq Nat
  BY <1>3
<1>5. ASSUME NEW h PROVE Named(t, h) \in SUBSET Nat /\ Named(t, h) \subseteq DOMAIN t
  BY <1>4 DEF Named
<1> QED
  BY <1>3, <1>5

\* A function from indexes to hosts is a table.
LEMMA TableIs ==
    ASSUME NEW S \in SUBSET (1..MaxRows), NEW t \in [S -> Hosts]
    PROVE  t \in Tables
<1> QED
  BY DEF Tables

\* The index after the highest one in use is a new one.
LEMMA NextIndexType ==
    ASSUME rows \in Tables
    PROVE  NextIndex \in Nat \ {0} /\ NextIndex \notin DOMAIN rows
<1>1. DOMAIN rows \in SUBSET (1..MaxRows) /\ MaxRows \in Nat
  BY TableType, SettingsAssumption DEF SettingsAssumption
<1>2. CASE DOMAIN rows = {}
  BY <1>2 DEF NextIndex
<1>3. CASE DOMAIN rows # {}
  <2>1. /\ Max(DOMAIN rows) \in DOMAIN rows
        /\ \A y \in DOMAIN rows : Max(DOMAIN rows) >= y
    BY <1>1, <1>3, MaxIsIn
  <2>2. NextIndex = Max(DOMAIN rows) + 1
    BY <1>3 DEF NextIndex
  <2> DEFINE m == Max(DOMAIN rows)
  <2>3. m \in Nat
    BY <1>1, <2>1
  <2>4. (m + 1) \notin DOMAIN rows
    <3> SUFFICES ASSUME (m + 1) \in DOMAIN rows PROVE FALSE
      OBVIOUS
    <3>1. m >= m + 1
      BY <2>1
    <3> HIDE DEF m
    <3> QED
      BY <2>3, <3>1
  <2> HIDE DEF m
  <2>5. m + 1 \in Nat \ {0}
    BY <2>3
  <2> QED
    BY <2>2, <2>4, <2>5 DEF m
<1> QED
  BY <1>2, <1>3

-----------------------------------------------------------------------------
(* States of the switch, and what a write makes of them. *)

\* A state of the switch is its settings and its collectors.
LEMMA StatesType ==
    ASSUME NEW s \in States
    PROVE  /\ s.conf \in [Fields -> Values] /\ s.rows \in Tables
           /\ s = [conf |-> s.conf, rows |-> s.rows]
<1> QED
  BY DEF States

\* The state the switch is in.
LEMMA StateType ==
    ASSUME StatesOK
    PROVE  State \in States /\ State.conf = conf /\ State.rows = rows
<1> QED
  BY DEF StatesOK, TypeOK, State, States

\* Operations are as SettingsAssumption has them.
LEMMA OpsType ==
    ASSUME NEW o \in Ops
    PROVE  /\ o.kind \in Kinds /\ o.kind # "gateway" /\ o.stack \in Stacks
           /\ o.kind \in {"add", "remove"} => o.host \in Hosts
           /\ ~(o.kind \in {"add", "remove"}) => o.to \in Values /\ o.kind \in Fields
<1>1. /\ o.kind \in Kinds /\ o.stack \in Stacks
      /\ IF o.kind \in {"add", "remove"} THEN o.host \in Hosts ELSE o.to \in Values
  BY SettingsAssumption DEF SettingsAssumption
<1>2. o.kind # "gateway"
  BY <1>1 DEF Kinds, Fields
<1>3. o.kind \in Fields \/ o.kind \in {"add", "remove"}
  BY <1>1 DEF Kinds
<1> QED
  BY <1>1, <1>2, <1>3

\* The row of a new collector (AddSyslogCollector).
LEMMA WrittenAdd ==
    ASSUME NEW c \in Callers, op[c].kind = "add"
    PROVE  /\ Written(c).conf = conf
           /\ Written(c).rows = [i \in DOMAIN rows \union {NextIndex} |->
                                    IF i = NextIndex THEN op[c].host ELSE rows[i]]
           /\ Written(c) = Asked(State, op[c])
<1> DEFINE t == [i \in DOMAIN rows \union {NextIndex} |->
                    IF i = NextIndex THEN op[c].host ELSE rows[i]]
<1>1. op[c].kind # "remove" /\ op[c].kind # "address"
  BY Zenon
<1>2. Written(c) = [State EXCEPT !.rows = t]
  BY <1>1, Zenon DEF Written
<1>3. State.rows = rows /\ State.conf = conf
  BY DEF State
<1>4. Asked(State, op[c]) =
        [State EXCEPT !.rows =
            LET n == IF DOMAIN State.rows = {} THEN 1 ELSE Max(DOMAIN State.rows) + 1 IN
            [i \in DOMAIN State.rows \union {n} |-> IF i = n THEN op[c].host ELSE State.rows[i]]]
  BY <1>1, Zenon DEF Asked
<1>5. Asked(State, op[c]) = [State EXCEPT !.rows = t]
  BY <1>3, <1>4, Zenon DEF NextIndex
<1>6. /\ [State EXCEPT !.rows = t].conf = conf
      /\ [State EXCEPT !.rows = t].rows = t
  <2> HIDE DEF t
  <2> QED
    BY DEF State
<1> QED
  BY <1>2, <1>5, <1>6, Zenon

\* The table without the row that a removal hits (RemoveSyslogCollector).
LEMMA WrittenRemove ==
    ASSUME NEW c \in Callers, op[c].kind = "remove"
    PROVE  /\ Written(c).conf = conf
           /\ Written(c).rows = IF Victim(c) = {} THEN rows
                                ELSE WithoutRow(rows, CHOOSE i \in Victim(c) : TRUE)
           /\ Written(c) = [conf |-> Written(c).conf, rows |-> Written(c).rows]
<1> DEFINE t == IF Victim(c) = {} THEN rows
                ELSE WithoutRow(rows, CHOOSE i \in Victim(c) : TRUE)
<1>1. op[c].kind # "add"
  BY Zenon
<1>2. Written(c) = [State EXCEPT !.rows = t]
  BY <1>1, Zenon DEF Written
<1> HIDE DEF t
<1>3. [State EXCEPT !.rows = t] = [conf |-> conf, rows |-> t]
  BY DEF State
<1>4. [State EXCEPT !.rows = t].conf = conf /\ [State EXCEPT !.rows = t].rows = t
  BY <1>3
<1> QED
  BY <1>2, <1>3, <1>4, Zenon DEF t

\* The settings of a request take its values, the others stay.
LEMMA WrittenSettings ==
    ASSUME NEW c \in Callers, ~(op[c].kind \in {"add", "remove"})
    PROVE  /\ Written(c).rows = rows
           /\ Written(c).conf = [f \in Fields |->
                                    IF f \in DOMAIN Sent(c) THEN Sent(c)[f] ELSE conf[f]]
           /\ Written(c) = [conf |-> Written(c).conf, rows |-> Written(c).rows]
<1> DEFINE n == [f \in Fields |-> IF f \in DOMAIN Sent(c) THEN Sent(c)[f] ELSE conf[f]]
<1>1. op[c].kind # "add" /\ op[c].kind # "remove"
  OBVIOUS
<1>2. Written(c) = [State EXCEPT !.conf = n]
  BY <1>1, Zenon DEF Written
<1> HIDE DEF n
<1>3. [State EXCEPT !.conf = n] = [conf |-> n, rows |-> rows]
  BY DEF State
<1>4. [State EXCEPT !.conf = n].conf = n /\ [State EXCEPT !.conf = n].rows = rows
  BY <1>3
<1> QED
  BY <1>2, <1>3, <1>4, Zenon DEF n

\* Both settings of the address at once, or the address alone.
LEMMA SentAddress ==
    ASSUME NEW c \in Callers, conf \in [Fields -> Values], op[c].kind = "address"
    PROVE  Written(c).conf =
                IF switch.pair /\ op[c].stack = "cli"
                THEN [conf EXCEPT !.address = op[c].to]
                ELSE [conf EXCEPT !.address = op[c].to, !.gateway = op[c].to]
<1> DEFINE D == IF switch.pair /\ op[c].stack = "cli" THEN {"address"} ELSE {"address", "gateway"}
<1>1. ~(op[c].kind \in {"add", "remove"}) /\ op[c].kind # "hostname"
  OBVIOUS
<1>2. Sent(c) = [f \in D |-> op[c].to]
  BY <1>1, Zenon DEF Sent
<1>3. Written(c).conf = [f \in Fields |-> IF f \in D THEN op[c].to ELSE conf[f]]
  BY <1>1, <1>2, WrittenSettings
<1> QED
  BY <1>3 DEF Fields

\* The GS110EMX page sends the address and the gateway as the call has read them.
LEMMA SentPage ==
    ASSUME NEW c \in Callers, conf \in [Fields -> Values],
           op[c].kind = "hostname", op[c].stack = "emx"
    PROVE  Written(c).conf = [conf EXCEPT !.hostname = op[c].to,
                                          !.address = seen[c].conf.address,
                                          !.gateway = seen[c].conf.gateway]
<1> DEFINE D == {"hostname", "address", "gateway"}
<1> DEFINE v(f) == IF f = "hostname" THEN op[c].to ELSE seen[c].conf[f]
<1>1. ~(op[c].kind \in {"add", "remove"}) /\ op[c].kind # "address"
  OBVIOUS
<1>2. Sent(c) = [f \in D |-> v(f)]
  BY <1>1, Zenon DEF Sent
<1>3. Written(c).conf = [f \in Fields |-> IF f \in D THEN v(f) ELSE conf[f]]
  BY <1>1, <1>2, WrittenSettings
<1> QED
  BY <1>3 DEF Fields

\* Every other request sets the setting it is named for.
LEMMA SentOne ==
    ASSUME NEW c \in Callers, conf \in [Fields -> Values],
           ~(op[c].kind \in {"add", "remove", "address"}),
           ~(op[c].kind = "hostname" /\ op[c].stack = "emx")
    PROVE  Written(c).conf = [conf EXCEPT ![op[c].kind] = op[c].to]
<1>1. ~(op[c].kind \in {"add", "remove"}) /\ op[c].kind # "address"
  OBVIOUS
<1>2. Sent(c) = [f \in {op[c].kind} |-> op[c].to]
  BY <1>1, Zenon DEF Sent
<1>3. Written(c).conf = [f \in Fields |-> IF f \in {op[c].kind} THEN op[c].to ELSE conf[f]]
  BY <1>1, <1>2, WrittenSettings
<1> QED
  BY <1>3

\* The row a removal takes out is one of the table: of the host asked for, if the
\* page names it or the table is as it was read.
LEMMA VictimIs ==
    ASSUME StatesOK, NEW c \in Callers, CallFits(c), pc[c] = "write", op[c].kind = "remove",
           NEW i \in Victim(c)
    PROVE  /\ i \in DOMAIN rows
           /\ op[c].stack = "xui" \/ seen[c].rows = rows => i \in Named(rows, op[c].host)
<1> DEFINE h == op[c].host
<1>1. /\ seen[c].rows \in Tables /\ rows \in Tables
      /\ Named(seen[c].rows, h) # {}
  BY StatesType DEF StatesOK, TypeOK, CallFits
<1>2. Named(rows, h) \in SUBSET Nat /\ Named(rows, h) \subseteq DOMAIN rows
  BY <1>1, TableType
<1>3. Named(seen[c].rows, h) \in SUBSET Nat
  BY <1>1, TableType
<1>4. CASE op[c].stack = "xui"
  <2>1. Victim(c) = IF Named(rows, h) = {} THEN {} ELSE {Min(Named(rows, h))}
    BY <1>4 DEF Victim
  <2>2. Named(rows, h) # {} /\ i = Min(Named(rows, h))
    BY <2>1
  <2> HIDE DEF h
  <2>3. i \in Named(rows, h)
    BY <1>2, <2>2, MinIsIn
  <2> QED
    BY <1>2, <2>3 DEF h
<1>5. CASE op[c].stack # "xui"
  <2>1. Victim(c) = {Min(Named(seen[c].rows, h))} \intersect DOMAIN rows
    BY <1>5 DEF Victim
  <2>2. i = Min(Named(seen[c].rows, h)) /\ i \in DOMAIN rows
    BY <2>1
  <2> HIDE DEF h
  <2>3. i \in Named(seen[c].rows, h)
    BY <1>1, <1>3, <2>2, MinIsIn
  <2> QED
    BY <1>5, <2>2, <2>3 DEF h
<1> QED
  BY <1>4, <1>5

\* A removal leaves the table as it is, or without one of its rows.
LEMMA RemoveTakesOne ==
    ASSUME StatesOK, NEW c \in Callers, CallFits(c), pc[c] = "write", op[c].kind = "remove"
    PROVE  \/ Written(c).rows = rows
           \/ \E i \in Victim(c) : i \in DOMAIN rows /\ Written(c).rows = WithoutRow(rows, i)
<1>1. Written(c).rows = IF Victim(c) = {} THEN rows
                        ELSE WithoutRow(rows, CHOOSE i \in Victim(c) : TRUE)
  BY WrittenRemove
<1>2. CASE Victim(c) = {}
  BY <1>1, <1>2
<1>3. CASE Victim(c) # {}
  <2>1. PICK i : i = CHOOSE j \in Victim(c) : TRUE
    OBVIOUS
  <2>2. i \in Victim(c)
    BY <1>3, <2>1
  <2>3. i \in DOMAIN rows
    BY <2>2, VictimIs
  <2>4. Written(c).rows = WithoutRow(rows, i)
    BY <1>1, <1>3, <2>1
  <2> QED
    BY <2>2, <2>3, <2>4
<1> QED
  BY <1>2, <1>3

\* The table without one of its rows.
LEMMA WithoutRowType ==
    ASSUME NEW t \in Tables, NEW i \in DOMAIN t
    PROVE  /\ WithoutRow(t, i) \in Tables
           /\ DOMAIN WithoutRow(t, i) = DOMAIN t \ {i}
           /\ \A j \in DOMAIN t \ {i} : WithoutRow(t, i)[j] = t[j]
<1>1. DOMAIN t \in SUBSET (1..MaxRows) /\ t \in [DOMAIN t -> Hosts]
  BY TableType
<1>2. DOMAIN t \ {i} \in SUBSET (1..MaxRows)
  BY <1>1
<1>3. WithoutRow(t, i) \in [DOMAIN t \ {i} -> Hosts]
  BY <1>1 DEF WithoutRow
<1>4. WithoutRow(t, i) \in Tables
  BY <1>2, <1>3, TableIs
<1> QED
  BY <1>3, <1>4 DEF WithoutRow

\* A write leaves a state of the switch.
LEMMA WrittenType ==
    ASSUME StatesOK, NEW c \in Callers, CallFits(c), pc[c] = "write",
           op[c].kind = "add" => NextIndex <= MaxRows
    PROVE  Written(c) \in States
<1>1. /\ op[c] \in Ops /\ rows \in Tables /\ conf \in [Fields -> Values]
      /\ seen[c] \in States
  BY DEF StatesOK, TypeOK
<1>2. CASE op[c].kind = "add"
  <2> DEFINE n == NextIndex
  <2>1. n \in Nat \ {0} /\ n <= MaxRows /\ MaxRows \in Nat
    BY <1>1, <1>2, NextIndexType, SettingsAssumption DEF SettingsAssumption
  <2>2. DOMAIN rows \in SUBSET (1..MaxRows) /\ rows \in [DOMAIN rows -> Hosts]
    BY <1>1, TableType
  <2>3. op[c].host \in Hosts
    BY <1>1, <1>2, OpsType
  <2>4. Written(c) = Asked(State, op[c]) /\ Written(c).conf = conf
    BY <1>2, WrittenAdd
  <2>5. Written(c).rows = [i \in DOMAIN rows \union {n} |-> IF i = n THEN op[c].host ELSE rows[i]]
    BY <1>2, WrittenAdd
  <2> HIDE DEF n
  <2>6. n \in 1..MaxRows
    BY <2>1
  <2>7. DOMAIN rows \union {n} \in SUBSET (1..MaxRows)
    BY <2>2, <2>6
  <2>8. Written(c).rows \in [DOMAIN rows \union {n} -> Hosts]
    BY <2>2, <2>3, <2>5
  <2>9. Written(c).rows \in Tables
    BY <2>7, <2>8, TableIs
  <2>10. Written(c) = [conf |-> Written(c).conf, rows |-> Written(c).rows]
    <3>1. \E t : Written(c) = [State EXCEPT !.rows = t]
      BY <1>2, Zenon DEF Written
    <3>2. PICK t : Written(c) = [State EXCEPT !.rows = t]
      BY <3>1
    <3>3. Written(c) = [conf |-> conf, rows |-> t]
      BY <3>2 DEF State
    <3> QED
      BY <3>3
  <2> QED
    BY <1>1, <2>4, <2>9, <2>10 DEF States
<1>3. CASE op[c].kind = "remove"
  <2>1. Written(c).conf = conf /\ Written(c) = [conf |-> Written(c).conf, rows |-> Written(c).rows]
    BY <1>3, WrittenRemove
  <2>2. Written(c).rows \in Tables
    BY <1>1, <1>3, RemoveTakesOne, WithoutRowType
  <2> QED
    BY <1>1, <2>1, <2>2 DEF States
<1>4. CASE ~(op[c].kind \in {"add", "remove"})
  <2>1. op[c].to \in Values /\ op[c].kind \in Fields
    BY <1>1, <1>4, OpsType
  <2>2. seen[c].conf \in [Fields -> Values]
    BY <1>1, StatesType
  <2>3. /\ Written(c).rows = rows
        /\ Written(c) = [conf |-> Written(c).conf, rows |-> Written(c).rows]
    BY <1>4, WrittenSettings
  <2>4. Written(c).conf \in [Fields -> Values]
    <3>1. CASE op[c].kind = "address"
      BY <1>1, <2>1, <3>1, SentAddress
    <3>2. CASE op[c].kind = "hostname" /\ op[c].stack = "emx"
      <4>1. seen[c].conf.address \in Values /\ seen[c].conf.gateway \in Values
        BY <2>2 DEF Fields
      <4> QED
        BY <1>1, <2>1, <3>2, <4>1, SentPage
    <3>3. CASE /\ ~(op[c].kind = "hostname" /\ op[c].stack = "emx")
               /\ op[c].kind # "address"
      BY <1>1, <1>4, <2>1, <3>3, SentOne
    <3> QED
      BY <3>1, <3>2, <3>3
  <2> QED
    BY <1>1, <2>3, <2>4 DEF States
<1> QED
  BY <1>2, <1>3, <1>4

\* The switch takes a state on as it is.
LEMMA BecomesIs ==
    ASSUME StatesOK, NEW c \in Callers, NEW s \in States, Becomes(s, c)
    PROVE  /\ State' = s
           /\ view' = IF op[c].stack = "snmp" THEN s ELSE view
           /\ \A d \in Callers : d # c /\ pc[d] # "idle" /\ ~disturbed'[d] => s = State
           /\ disturbed'[c] <=> disturbed[c]
           /\ \A d \in Callers : ~disturbed'[d] => ~disturbed[d]
           /\ conf' \in [Fields -> Values] /\ rows' \in Tables /\ view' \in States
           /\ disturbed' \in [Callers -> BOOLEAN]
<1>1. conf' = s.conf /\ rows' = s.rows
  BY DEF Becomes
<1>2. s.conf \in [Fields -> Values] /\ s.rows \in Tables /\ s = [conf |-> s.conf, rows |-> s.rows]
  BY StatesType
<1>3. State' = s
  BY <1>1, <1>2 DEF State
<1>4. view' = IF op[c].stack = "snmp" THEN s ELSE view
  BY DEF Becomes
<1>5. view' \in States
  BY <1>4 DEF StatesOK
<1>6. disturbed' = [d \in Callers |->
        disturbed[d] \/ (d # c /\ pc[d] # "idle" /\ s # State)]
  BY DEF Becomes
<1>7. disturbed \in [Callers -> BOOLEAN]
  BY DEF StatesOK, TypeOK
<1>8. \A d \in Callers : ~disturbed'[d] =>
        ~disturbed[d] /\ (d # c /\ pc[d] # "idle" => s = State)
  BY <1>6, Zenon
<1>9. disturbed'[c] <=> disturbed[c]
  <2>1. disturbed'[c] <=> (disturbed[c] \/ (c # c /\ pc[c] # "idle" /\ s # State))
    BY <1>6, Zenon
  <2> QED
    BY <2>1, Zenon
<1>10. disturbed' \in [Callers -> BOOLEAN]
  BY <1>6, Zenon
<1> QED
  BY <1>1, <1>2, <1>3, <1>4, <1>5, <1>8, <1>9, <1>10, Zenon

-----------------------------------------------------------------------------
(* What the steps leave alone, and types. *)

\* The caller takes a step of its own.
Acts(c) == Step(c) \/ \E o \in Ops : Begin(c, o)

\* What a read shows is a state.
LEMMA ShowsType ==
    ASSUME StatesOK, NEW k
    PROVE  Shows(k) \in States
<1> QED
  BY StateType DEF StatesOK, Shows

\* A call ends: nobody else moves, and who was told stays told.
LEMMA ReturnType ==
    ASSUME StatesOK, NEW c \in Callers, NEW r \in Results, Return(c, r)
    PROVE  /\ pc' \in [Callers -> Labels] /\ result' \in [Callers -> Results]
           /\ told' \in BOOLEAN /\ (told => told')
           /\ pc'[c] = "idle" /\ result'[c] = r
           /\ \A d \in Callers : d # c => pc'[d] = pc[d]
<1>1. pc \in [Callers -> Labels] /\ result \in [Callers -> Results]
  BY DEF StatesOK, TypeOK, Labels, Results
<1>2. pc' = [pc EXCEPT ![c] = "idle"] /\ result' = [result EXCEPT ![c] = r]
  BY DEF Return
<1>3. "idle" \in Labels
  BY DEF Labels
<1>4. told' = (told \/ (op[c].kind = "address" /\ r \in {"failed", "mismatch"}))
  BY DEF Return
<1>5. told' \in BOOLEAN /\ (told => told')
  BY <1>4, Zenon
<1>6. pc' \in [Callers -> Labels] /\ pc'[c] = "idle"
  BY <1>1, <1>2, <1>3
<1>7. result' \in [Callers -> Results] /\ result'[c] = r
  BY <1>1, <1>2
<1>8. \A d \in Callers : d # c => pc'[d] = pc[d]
  BY <1>1, <1>2
<1> QED
  BY <1>5, <1>6, <1>7, <1>8

\* A call goes on: nobody else moves, and nobody is told.
LEMMA GotoType ==
    ASSUME StatesOK, NEW c \in Callers, NEW l \in Labels, Goto(c, l)
    PROVE  /\ pc' \in [Callers -> Labels] /\ result' \in [Callers -> Results]
           /\ told' \in BOOLEAN /\ told' = told
           /\ pc'[c] = l
           /\ \A d \in Callers : d # c => pc'[d] = pc[d]
<1>1. pc \in [Callers -> Labels] /\ result \in [Callers -> Results] /\ told \in BOOLEAN
  BY DEF StatesOK, TypeOK, Labels, Results
<1>2. pc' = [pc EXCEPT ![c] = l] /\ result' = result /\ told' = told
  BY DEF Goto
<1> QED
  BY <1>1, <1>2

\* A step of one caller leaves the calls of the others where they are.
LEMMA OthersStay ==
    ASSUME StatesOK, NEW c \in Callers, Acts(c), NEW d \in Callers, d # c
    PROVE  /\ pc'[d] = pc[d] /\ op'[d] = op[d]
           /\ seen'[d] = seen[d] /\ start'[d] = start[d]
<1>1. /\ pc \in [Callers -> Labels] /\ op \in [Callers -> Ops]
      /\ seen \in [Callers -> States] /\ start \in [Callers -> States]
  BY DEF StatesOK, TypeOK, Labels
<1>2. CASE Read(c)
  BY <1>1, <1>2 DEF Read, Return, Goto
<1>3. CASE Write(c)
  BY <1>1, <1>3 DEF Write, Return, Goto
<1>4. CASE Rest(c)
  BY <1>1, <1>4 DEF Rest, Return, Goto
<1>5. CASE Verify(c)
  BY <1>1, <1>5 DEF Verify, Return
<1>6. CASE Fail(c)
  BY <1>1, <1>6 DEF Fail, Return
<1>7. CASE \E o \in Ops : Begin(c, o)
  BY <1>1, <1>7 DEF Begin
<1> QED
  BY <1>2, <1>3, <1>4, <1>5, <1>6, <1>7 DEF Acts, Step

\* A call that goes on undisturbed finds the switch as it was, but for the view.
Kept(d) ==
    pc[d] # "idle" /\ ~disturbed'[d] =>
        ~disturbed[d] /\ State' = State /\ (view' = view \/ view' = State')

\* What an undisturbed call knows survives the steps of the others.
LEMMA OthersAlone ==
    ASSUME StatesOK, NEW c \in Callers, Acts(c), NEW d \in Callers, d # c, Alone(d), Kept(d)
    PROVE  Alone(d)'
<1>1. /\ pc'[d] = pc[d] /\ op'[d] = op[d]
      /\ seen'[d] = seen[d] /\ start'[d] = start[d]
  BY OthersStay
<1>2. CASE pc[d] = "idle"
  BY <1>1, <1>2 DEF Alone
<1>3. CASE disturbed'[d]
  BY <1>3 DEF Alone
<1>4. CASE pc[d] # "idle" /\ ~disturbed'[d]
  <2>1. ~disturbed[d] /\ State' = State /\ (view' = view \/ view' = State')
    BY <1>4 DEF Kept
  <2>2. Fresh(d)' = Fresh(d)
    BY <1>1 DEF Fresh
  <2>3. Made(start[d], op[d], State)' = Made(start[d], op[d], State)
    <3>1. PICK s, o, t : s = start[d] /\ o = op[d] /\ t = State
      OBVIOUS
    <3>2. start[d]' = s /\ op[d]' = o /\ State' = t
      BY <1>1, <2>1, <3>1
    <3> QED
      BY <3>1, <3>2
  <2>4. pc[d] \in {"read", "write"} => State' = start'[d]
    BY <1>1, <2>1 DEF Alone
  <2>5. pc[d] # "idle" /\ op[d].stack # "snmp" => Fresh(d)'
    BY <2>1, <2>2 DEF Alone
  <2>6. pc[d] = "rest" => State' = [start'[d] EXCEPT !.conf.address = op'[d].to]
    BY <1>1, <2>1 DEF Alone
  <2>7. pc[d] = "verify" /\ op[d].stack = "snmp" => view' = State'
    BY <2>1 DEF Alone
  <2>8. pc[d] = "verify" /\ Fresh(d)' => Made(start[d], op[d], State)'
    BY <2>1, <2>2, <2>3 DEF Alone
  <2> QED
    BY <1>1, <2>4, <2>5, <2>6, <2>7, <2>8 DEF Alone
<1> QED
  BY <1>2, <1>3, <1>4

\* Where a call is does not depend on the others.
LEMMA OthersFit ==
    ASSUME StatesOK, NEW c \in Callers, Acts(c), NEW d \in Callers, d # c,
           CallFits(d), switch' = switch
    PROVE  CallFits(d)'
<1> QED
  BY OthersStay DEF CallFits

\* The calls do not change which switch it is.
LEMMA SwitchStays ==
    ASSUME NEW c \in Callers, Acts(c)
    PROVE  switch' = switch
<1> QED
  BY DEF Acts, Step, Begin, Read, Write, Rest, Verify, Fail

-----------------------------------------------------------------------------
(* The steps of a call keep the types, and what it knows of the switch. *)

\* The part of the invariant that is about c, and what the others may rely on.
Own(c) == StatesOK /\ CallFits(c) /\ Alone(c)
Keeps(c) == Own(c)' /\ \A d \in Callers : d # c => Kept(d)

\* The guard: the call starts from the state as it is.
LEMMA BeginKeeps ==
    ASSUME StatesOK, NEW c \in Callers, NEW o \in Ops, Begin(c, o)
    PROVE  Keeps(c)
<1> DEFINE l == IF Supported(o) /\ ~Guarded(o) THEN "read" ELSE "idle"
<1> DEFINE r == IF ~Supported(o) THEN "unsupported"
                ELSE IF Guarded(o) THEN "protected" ELSE "none"
<1>1. /\ pc \in [Callers -> Labels] /\ op \in [Callers -> Ops]
      /\ seen \in [Callers -> States] /\ start \in [Callers -> States]
      /\ result \in [Callers -> Results] /\ disturbed \in [Callers -> BOOLEAN]
      /\ State \in States
  BY StateType DEF StatesOK, TypeOK, Labels, Results
<1>2. /\ op' = [op EXCEPT ![c] = o] /\ start' = [start EXCEPT ![c] = State]
      /\ disturbed' = [disturbed EXCEPT ![c] = FALSE]
      /\ seen' = [seen EXCEPT ![c] = State]
      /\ pc' = [pc EXCEPT ![c] = l] /\ result' = [result EXCEPT ![c] = r]
      /\ pc[c] = "idle" /\ o.stack \in switch.stacks
  BY DEF Begin
<1>3. l \in Labels /\ r \in Results /\ l \in {"idle", "read"}
  BY DEF Labels, Results
<1> HIDE DEF l, r
<1>4. /\ switch' = switch /\ conf' = conf /\ rows' = rows /\ view' = view /\ told' = told
      /\ State' = State
  BY DEF Begin, switchVars, State
<1>5. calls' \in 0..MaxCalls
  <2>1. calls \in 0..MaxCalls /\ calls < MaxCalls /\ calls' = calls + 1 /\ MaxCalls \in Nat
    BY SettingsAssumption DEF SettingsAssumption, StatesOK, TypeOK, Begin
  <2> QED
    BY <2>1
<1>6. /\ pc' \in [Callers -> Labels] /\ op' \in [Callers -> Ops]
      /\ result' \in [Callers -> Results]
  BY <1>1, <1>2, <1>3
<1>7. disturbed' \in [Callers -> BOOLEAN]
  BY <1>1, <1>2
<1>8. seen' \in [Callers -> States] /\ start' \in [Callers -> States]
  BY <1>1, <1>2
<1>9. StatesOK'
  BY <1>4, <1>5, <1>6, <1>7, <1>8 DEF StatesOK, TypeOK, Labels, Results
<1>10. pc'[c] = l /\ op'[c] = o /\ seen'[c] = State /\ start'[c] = State
  BY <1>1, <1>2
<1>11. CallFits(c)'
  <2>1. op'[c].stack \in switch'.stacks
    BY <1>2, <1>4, <1>10
  <2>2. pc'[c] # "write" /\ pc'[c] # "rest"
    BY <1>3, <1>10
  <2> QED
    BY <2>1, <2>2 DEF CallFits
<1>12. Alone(c)'
  <2>1. pc'[c] # "write" /\ pc'[c] # "rest" /\ pc'[c] # "verify"
    BY <1>3, <1>10
  <2>2. State' = start'[c] /\ Fresh(c)'
    BY <1>4, <1>10 DEF Fresh
  <2> QED
    BY <2>1, <2>2 DEF Alone
<1>13. ASSUME NEW d \in Callers, d # c PROVE Kept(d)
  <2>1. disturbed'[d] = disturbed[d]
    BY <1>1, <1>2, <1>13
  <2> QED
    BY <1>4, <2>1 DEF Kept
<1> QED
  BY <1>9, <1>11, <1>12, <1>13 DEF Keeps, Own

\* Steps that leave the switch alone, and the call's operation.
LEMMA QuietKeeps ==
    ASSUME StatesOK, NEW c \in Callers, Acts(c),
           UNCHANGED <<switch, switchVars, calls, op, start, disturbed>>,
           seen' \in [Callers -> States],
           pc' \in [Callers -> Labels], result' \in [Callers -> Results], told' \in BOOLEAN
    PROVE  StatesOK' /\ State' = State /\ \A d \in Callers : d # c => Kept(d)
<1>1. /\ conf' = conf /\ rows' = rows /\ view' = view /\ switch' = switch /\ calls' = calls
      /\ op' = op /\ start' = start /\ disturbed' = disturbed
  BY DEF switchVars
<1>2. State' = State
  BY <1>1 DEF State
<1>3. StatesOK'
  BY <1>1 DEF StatesOK, TypeOK, Labels, Results
<1> QED
  BY <1>1, <1>2, <1>3 DEF Kept

\* The first read, and its refusals.
LEMMA ReadKeeps ==
    ASSUME NEW c \in Callers, Own(c), Read(c)
    PROVE  Keeps(c)
<1> DEFINE s == Shows(op[c].stack)
<1>1. StatesOK /\ CallFits(c) /\ Alone(c) /\ pc[c] = "read" /\ Acts(c)
  BY DEF Own, Read, Acts, Step
<1>2. s \in States
  BY <1>1, ShowsType
<1>3. /\ seen' = [seen EXCEPT ![c] = s]
      /\ IF Refuses(op[c], s) THEN Return(c, "refused") ELSE Goto(c, "write")
      /\ UNCHANGED <<switch, switchVars, calls, op, start, disturbed>>
  BY DEF Read
<1>4. op[c].stack # "snmp" => s = State
  BY DEF Shows
<1> HIDE DEF s
<1>5. seen \in [Callers -> States]
  BY <1>1 DEF StatesOK
<1>6. seen' \in [Callers -> States] /\ seen'[c] = s
  BY <1>2, <1>3, <1>5
<1>7. CASE Refuses(op[c], s)
  <2>1. Return(c, "refused") /\ "refused" \in Results
    BY <1>3, <1>7 DEF Results
  <2>2. /\ pc' \in [Callers -> Labels] /\ result' \in [Callers -> Results] /\ told' \in BOOLEAN
        /\ pc'[c] = "idle"
    BY <1>1, <2>1, ReturnType
  <2>3. StatesOK' /\ \A d \in Callers : d # c => Kept(d)
    BY <1>1, <1>3, <1>6, <2>2, QuietKeeps
  <2> QED
    BY <2>2, <2>3 DEF Keeps, Own, CallFits, Alone
<1>8. CASE ~Refuses(op[c], s)
  <2>1. Goto(c, "write") /\ "write" \in Labels
    BY <1>3, <1>8 DEF Labels
  <2>2. /\ pc' \in [Callers -> Labels] /\ result' \in [Callers -> Results] /\ told' \in BOOLEAN
        /\ pc'[c] = "write"
    BY <1>1, <2>1, GotoType
  <2>3. StatesOK' /\ State' = State /\ \A d \in Callers : d # c => Kept(d)
    BY <1>1, <1>3, <1>6, <2>2, QuietKeeps
  <2>4. op' = op /\ start' = start /\ disturbed' = disturbed /\ switch' = switch
    BY <1>3
  <2>5. op[c].kind = "remove" => Named(s.rows, op[c].host) # {}
    <3> SUFFICES ASSUME op[c].kind = "remove" PROVE Named(s.rows, op[c].host) # {}
      OBVIOUS
    <3>1. op[c].kind # "add"
      OBVIOUS
    <3>2. Refuses(op[c], s) <=> Named(s.rows, op[c].host) = {}
      BY <3>1, Zenon DEF Refuses
    <3> QED
      BY <1>8, <3>2
  <2>6. CallFits(c)'
    <3>1. op'[c].stack \in switch'.stacks
      BY <1>1, <2>4 DEF CallFits
    <3>2. op'[c].kind = "remove" => Named(seen'[c].rows, op'[c].host) # {}
      BY <1>6, <2>4, <2>5
    <3> QED
      BY <2>2, <3>1, <3>2 DEF CallFits
  <2>7. Alone(c)'
    <3> SUFFICES ASSUME ~disturbed'[c] PROVE Alone(c)'
      BY DEF Alone
    <3>1. State = start[c]
      BY <1>1, <2>4 DEF Alone
    <3>2. State' = start'[c]
      BY <2>3, <2>4, <3>1
    <3>3. op'[c].stack # "snmp" => Fresh(c)'
      BY <1>4, <1>6, <2>4, <3>1 DEF Fresh
    <3> QED
      BY <2>2, <3>2, <3>3 DEF Alone
  <2> QED
    BY <2>3, <2>6, <2>7 DEF Keeps, Own
<1> QED
  BY <1>7, <1>8

\* An answer without a request: a verdict, or an error.
LEMMA EndKeeps ==
    ASSUME NEW c \in Callers, Own(c), Acts(c), NEW r \in Results, Return(c, r),
           UNCHANGED <<switch, switchVars, calls, op, seen, start, disturbed>>
    PROVE  Keeps(c) /\ State' = State
<1>1. StatesOK /\ seen \in [Callers -> States] /\ seen' = seen
  BY DEF Own, StatesOK
<1>2. /\ pc' \in [Callers -> Labels] /\ result' \in [Callers -> Results] /\ told' \in BOOLEAN
      /\ pc'[c] = "idle"
  BY <1>1, ReturnType
<1>3. StatesOK' /\ State' = State /\ \A d \in Callers : d # c => Kept(d)
  BY <1>1, <1>2, QuietKeeps
<1> QED
  BY <1>2, <1>3 DEF Keeps, Own, CallFits, Alone

\* Steps in which the switch serves a request of c.
LEMMA ServedKeeps ==
    ASSUME NEW c \in Callers, StatesOK, Acts(c), NEW s \in States, Becomes(s, c),
           UNCHANGED <<switch, calls, op, seen, start>>,
           pc' \in [Callers -> Labels], result' \in [Callers -> Results], told' \in BOOLEAN
    PROVE  /\ StatesOK' /\ State' = s
           /\ view' = (IF op[c].stack = "snmp" THEN s ELSE view)
           /\ disturbed'[c] <=> disturbed[c]
           /\ \A d \in Callers : d # c => Kept(d)
<1>1. /\ State' = s
      /\ view' = IF op[c].stack = "snmp" THEN s ELSE view
      /\ \A d \in Callers : d # c /\ pc[d] # "idle" /\ ~disturbed'[d] => s = State
      /\ disturbed'[c] <=> disturbed[c]
      /\ \A d \in Callers : ~disturbed'[d] => ~disturbed[d]
      /\ conf' \in [Fields -> Values] /\ rows' \in Tables /\ view' \in States
      /\ disturbed' \in [Callers -> BOOLEAN]
  BY BecomesIs, Zenon
<1>2. StatesOK'
  <2>1. view'.conf \in [Fields -> Values] /\ view'.rows \in Tables
    BY <1>1, StatesType
  <2> QED
    BY <1>1, <2>1 DEF StatesOK, TypeOK, Labels, Results
<1>3. ASSUME NEW d \in Callers, d # c PROVE Kept(d)
  <2> SUFFICES ASSUME pc[d] # "idle", ~disturbed'[d]
               PROVE  ~disturbed[d] /\ State' = State /\ (view' = view \/ view' = State')
    BY Zenon DEF Kept
  <2>1. ~disturbed[d] /\ s = State
    BY <1>1, <1>3, Zenon
  <2>2. State' = State
    BY <1>1, <2>1
  <2>3. view' = view \/ view' = State'
    BY <1>1
  <2> QED
    BY <2>1, <2>2, <2>3
<1> QED
  BY <1>1, <1>2, <1>3

\* The state with other settings.
LEMMA StateSets ==
    ASSUME NEW f, NEW v
    PROVE  [State EXCEPT !.conf[f] = v] = [conf |-> [conf EXCEPT ![f] = v], rows |-> rows]
<1> QED
  BY DEF State

\* The same for address and gateway together.
LEMMA StateSetsBoth ==
    ASSUME NEW v, NEW w
    PROVE  [State EXCEPT !.conf.address = v, !.conf.gateway = w]
                    = [conf |-> [conf EXCEPT !.address = v, !.gateway = w], rows |-> rows]
<1> DEFINE k == [conf EXCEPT !.address = v]
<1>1. [State EXCEPT !.conf.address = v] = [conf |-> k, rows |-> rows]
  BY DEF State
<1>2. [State EXCEPT !.conf.address = v, !.conf.gateway = w]
            = [[State EXCEPT !.conf.address = v] EXCEPT !.conf.gateway = w]
  OBVIOUS
<1>3. [conf EXCEPT !.address = v, !.gateway = w] = [k EXCEPT !.gateway = w]
  OBVIOUS
<1> HIDE DEF k
<1>4. [[conf |-> k, rows |-> rows] EXCEPT !.conf.gateway = w]
            = [conf |-> [k EXCEPT !.gateway = w], rows |-> rows]
  OBVIOUS
<1> QED
  BY <1>1, <1>2, <1>3, <1>4, Zenon

\* A write from a fresh read makes what was asked for, in one request.
LEMMA WriteMakes ==
    ASSUME NEW c \in Callers, StatesOK, CallFits(c), pc[c] = "write", seen[c] = State,
           ~(op[c].kind = "address" /\ op[c].stack = "cli" /\ switch.pair)
    PROVE  Made(State, op[c], Written(c))
<1>1. /\ op[c] \in Ops /\ conf \in [Fields -> Values]
      /\ State.conf = conf /\ State.rows = rows
  BY DEF StatesOK, TypeOK, State
<1>2. CASE op[c].kind = "add"
  BY <1>2, WrittenAdd DEF Made
<1>3. CASE op[c].kind = "remove"
  <2>1. Written(c).conf = State.conf
    BY <1>1, <1>3, WrittenRemove
  <2>2. \/ Written(c).rows = State.rows
        \/ \E i \in Named(State.rows, op[c].host) : Written(c).rows = WithoutRow(State.rows, i)
    <3>1. CASE Written(c).rows = rows
      BY <1>1, <3>1
    <3>2. CASE \E i \in Victim(c) : i \in DOMAIN rows /\ Written(c).rows = WithoutRow(rows, i)
      <4>1. PICK i \in Victim(c) : Written(c).rows = WithoutRow(rows, i)
        BY <3>2
      <4>2. seen[c].rows = rows
        BY <1>1
      <4>3. i \in Named(rows, op[c].host)
        BY <1>3, <4>2, VictimIs
      <4> QED
        BY <1>1, <4>1, <4>3
    <3> QED
      BY <1>3, <3>1, <3>2, RemoveTakesOne
  <2> QED
    BY <1>3, <2>1, <2>2 DEF Made
<1>4. CASE op[c].kind = "address"
  <2>1. op[c].kind # "add" /\ op[c].kind # "remove" /\ ~(op[c].kind \in {"add", "remove"})
    BY <1>4
  <2>2. Asked(State, op[c])
            = [State EXCEPT !.conf.address = op[c].to, !.conf.gateway = op[c].to]
    BY <1>4, <2>1, Zenon DEF Asked
  <2>3. Written(c) = [conf |-> [conf EXCEPT !.address = op[c].to, !.gateway = op[c].to],
                      rows |-> rows]
    BY <1>1, <1>4, <2>1, SentAddress, WrittenSettings
  <2>4. Written(c) = Asked(State, op[c])
    BY <2>2, <2>3, StateSetsBoth
  <2> QED
    BY <2>1, <2>4 DEF Made
<1>5. CASE ~(op[c].kind \in {"add", "remove", "address"})
  <2>1. /\ op[c].kind # "add" /\ op[c].kind # "remove" /\ op[c].kind # "address"
        /\ ~(op[c].kind \in {"add", "remove"})
    BY <1>5
  <2>2. Asked(State, op[c]) = [State EXCEPT !.conf[op[c].kind] = op[c].to]
    BY <2>1, Zenon DEF Asked
  <2>3. Written(c).conf = [conf EXCEPT ![op[c].kind] = op[c].to]
    <3>1. CASE op[c].kind = "hostname" /\ op[c].stack = "emx"
      <4>1. Written(c).conf = [conf EXCEPT !.hostname = op[c].to,
                                           !.address = seen[c].conf.address,
                                           !.gateway = seen[c].conf.gateway]
        BY <1>1, <3>1, SentPage
      <4>2. seen[c].conf = conf
        BY <1>1
      <4> QED
        BY <1>1, <3>1, <4>1, <4>2 DEF Fields
    <3>2. CASE ~(op[c].kind = "hostname" /\ op[c].stack = "emx")
      BY <1>1, <1>5, <3>2, SentOne
    <3> QED
      BY <3>1, <3>2
  <2>4. Written(c) = [conf |-> Written(c).conf, rows |-> rows]
    BY <2>1, WrittenSettings
  <2>5. Written(c) = Asked(State, op[c])
    <3>1. [State EXCEPT !.conf[op[c].kind] = op[c].to]
            = [conf |-> [conf EXCEPT ![op[c].kind] = op[c].to], rows |-> rows]
      BY StateSets
    <3> QED
      BY <2>2, <2>3, <2>4, <3>1, Zenon
  <2> QED
    BY <2>1, <2>5 DEF Made
<1> QED
  BY <1>2, <1>3, <1>4, <1>5

\* The write, served or rejected, answered or not.
LEMMA WriteKeeps ==
    ASSUME NEW c \in Callers, Own(c), Write(c)
    PROVE  Keeps(c)
<1> DEFINE s == Written(c)
<1> DEFINE pair == op[c].kind = "address" /\ op[c].stack = "cli" /\ switch.pair
<1> DEFINE l == IF pair THEN "rest" ELSE "verify"
<1>1. StatesOK /\ CallFits(c) /\ Alone(c) /\ pc[c] = "write" /\ Acts(c)
  BY DEF Own, Write, Acts, Step
<1>2. CASE Rejected(c)
  <2>1. /\ Return(c, "failed") /\ "failed" \in Results
        /\ UNCHANGED <<switch, switchVars, calls, op, seen, start, disturbed>>
    BY <1>2 DEF Write, Results
  <2> QED
    BY <1>1, <2>1, EndKeeps
<1>3. CASE ~Rejected(c)
  <2>1. /\ op[c].kind = "add" => NextIndex <= MaxRows
        /\ Becomes(s, c) /\ UNCHANGED <<switch, calls, op, seen, start>>
        /\ Return(c, "failed") \/ Goto(c, l)
    BY <1>3 DEF Write
  <2>2. s \in States
    BY <1>1, <2>1, WrittenType
  <2>3. l \in Labels /\ "failed" \in Results
    BY DEF Labels, Results
  <2>4. CASE Return(c, "failed")
    <3>1. /\ pc' \in [Callers -> Labels] /\ result' \in [Callers -> Results]
          /\ told' \in BOOLEAN /\ pc'[c] = "idle"
      BY <1>1, <2>3, <2>4, ReturnType
    <3> HIDE DEF s
    <3>2. StatesOK' /\ \A d \in Callers : d # c => Kept(d)
      BY <1>1, <2>1, <2>2, <3>1, ServedKeeps
    <3> QED
      BY <3>1, <3>2 DEF Keeps, Own, CallFits, Alone
  <2>5. CASE Goto(c, l)
    <3> HIDE DEF l
    <3>1. /\ pc' \in [Callers -> Labels] /\ result' \in [Callers -> Results]
          /\ told' \in BOOLEAN /\ pc'[c] = l
      BY <1>1, <2>3, <2>5, GotoType
    <3>2. /\ StatesOK' /\ State' = s
          /\ view' = (IF op[c].stack = "snmp" THEN s ELSE view)
          /\ disturbed'[c] <=> disturbed[c]
          /\ \A d \in Callers : d # c => Kept(d)
      <4> HIDE DEF s
      <4> QED
        BY <1>1, <2>1, <2>2, <3>1, ServedKeeps
    <3>3. op' = op /\ seen' = seen /\ start' = start /\ switch' = switch
      BY <2>1
    <3>4. \/ l = "rest" /\ pair
          \/ l = "verify" /\ ~pair
      <4> HIDE DEF pair
      <4> QED
        BY Zenon DEF l
    <3>5. CallFits(c)'
      <4>1. op'[c].stack \in switch'.stacks
        BY <1>1, <3>3 DEF CallFits
      <4>2. pc'[c] # "write"
        BY <3>1, <3>4
      <4>3. pc'[c] = "rest" => op'[c].kind = "address" /\ op'[c].stack = "cli" /\ switch'.pair
        BY <3>1, <3>3, <3>4
      <4> QED
        BY <4>1, <4>2, <4>3 DEF CallFits
    <3>6. Alone(c)'
      <4> SUFFICES ASSUME ~disturbed'[c] PROVE Alone(c)'
        BY DEF Alone
      <4>1. /\ State = start[c] /\ start'[c] = start[c]
            /\ op[c].stack # "snmp" => Fresh(c)
        BY <1>1, <3>2, <3>3 DEF Alone
      <4>2. op'[c].stack # "snmp" => Fresh(c)'
        BY <3>3, <4>1 DEF Fresh
      <4>3. CASE l = "rest" /\ pair
        <5>1. s.conf = [conf EXCEPT !.address = op[c].to] /\ s.rows = rows
          <6>1. conf \in [Fields -> Values] /\ ~(op[c].kind \in {"add", "remove"})
            BY <1>1, <4>3 DEF StatesOK, TypeOK
          <6> QED
            BY <4>3, <6>1, SentAddress, WrittenSettings
        <5>2. s = [State EXCEPT !.conf.address = op[c].to]
          <6>1. s = [conf |-> s.conf, rows |-> s.rows]
            BY <2>2, StatesType
          <6> HIDE DEF s
          <6> QED
            BY <5>1, <6>1 DEF State
        <5>3. State' = [start'[c] EXCEPT !.conf.address = op'[c].to]
          BY <3>2, <3>3, <4>1, <5>2, Zenon
        <5>4. pc'[c] = "rest"
          BY <3>1, <4>3
        <5> QED
          BY <4>2, <5>3, <5>4 DEF Alone
      <4>4. CASE l = "verify" /\ ~pair
        <5>1. pc'[c] = "verify"
          BY <3>1, <4>4
        <5>2. op'[c].stack = "snmp" => view' = State'
          BY <3>2, <3>3
        <5>3. Fresh(c)' => Made(start[c], op[c], State)'
          <6> SUFFICES ASSUME Fresh(c)' PROVE Made(start[c], op[c], State)'
            OBVIOUS
          <6>1. seen[c] = State
            BY <3>3, <4>1 DEF Fresh
          <6>2. Made(State, op[c], Written(c))
            BY <1>1, <4>4, <6>1, WriteMakes
          <6>3. PICK z, o, t : z = State /\ o = op[c] /\ t = Written(c)
            OBVIOUS
          <6>4. start[c]' = z /\ op[c]' = o /\ State' = t
            BY <3>2, <3>3, <4>1, <6>3
          <6> QED
            BY <6>2, <6>3, <6>4
        <5> QED
          BY <4>2, <5>1, <5>2, <5>3 DEF Alone
      <4> QED
        BY <3>4, <4>3, <4>4
    <3> QED
      BY <3>2, <3>5, <3>6 DEF Keeps, Own
  <2> QED
    BY <2>1, <2>4, <2>5
<1> QED
  BY <1>2, <1>3

\* The second command of the pair.
LEMMA RestKeeps ==
    ASSUME NEW c \in Callers, Own(c), Rest(c)
    PROVE  Keeps(c)
<1> DEFINE s == [State EXCEPT !.conf.gateway = op[c].to]
<1>1. /\ StatesOK /\ CallFits(c) /\ Alone(c) /\ pc[c] = "rest" /\ Acts(c)
      /\ op[c] \in Ops /\ conf \in [Fields -> Values] /\ rows \in Tables
  BY DEF Own, Rest, Acts, Step, StatesOK, TypeOK
<1>2. op[c].kind = "address" /\ op[c].stack = "cli"
  BY <1>1 DEF CallFits
<1>3. op[c].to \in Values
  BY <1>1, <1>2, OpsType
<1>4. s = [conf |-> [conf EXCEPT !.gateway = op[c].to], rows |-> rows]
  BY DEF State
<1>5. s \in States
  BY <1>1, <1>3, <1>4 DEF States
<1>6. /\ Becomes(s, c) /\ UNCHANGED <<switch, calls, op, seen, start>>
      /\ Goto(c, "verify") \/ Return(c, "failed")
  BY DEF Rest
<1>7. "verify" \in Labels /\ "failed" \in Results
  BY DEF Labels, Results
<1>8. CASE Return(c, "failed")
  <2>1. /\ pc' \in [Callers -> Labels] /\ result' \in [Callers -> Results]
        /\ told' \in BOOLEAN /\ pc'[c] = "idle"
    BY <1>1, <1>7, <1>8, ReturnType
  <2> HIDE DEF s
  <2>2. StatesOK' /\ \A d \in Callers : d # c => Kept(d)
    BY <1>1, <1>5, <1>6, <2>1, ServedKeeps
  <2> QED
    BY <2>1, <2>2 DEF Keeps, Own, CallFits, Alone
<1>9. CASE Goto(c, "verify")
  <2>1. /\ pc' \in [Callers -> Labels] /\ result' \in [Callers -> Results]
        /\ told' \in BOOLEAN /\ pc'[c] = "verify"
    BY <1>1, <1>7, <1>9, GotoType
  <2>2. /\ StatesOK' /\ State' = s
        /\ disturbed'[c] <=> disturbed[c]
        /\ \A d \in Callers : d # c => Kept(d)
    <3> HIDE DEF s
    <3> QED
      BY <1>1, <1>5, <1>6, <2>1, ServedKeeps
  <2>3. op' = op /\ seen' = seen /\ start' = start /\ switch' = switch
    BY <1>6
  <2>4. CallFits(c)'
    BY <1>1, <2>1, <2>3 DEF CallFits
  <2>5. Alone(c)'
    <3> SUFFICES ASSUME ~disturbed'[c] PROVE Alone(c)'
      BY DEF Alone
    <3>1. Fresh(c)' /\ State = [start[c] EXCEPT !.conf.address = op[c].to]
      BY <1>1, <1>2, <2>2, <2>3 DEF Alone, Fresh
    <3>2. s = [start[c] EXCEPT !.conf.address = op[c].to, !.conf.gateway = op[c].to]
      BY <3>1
    <3>3. Asked(start[c], op[c]) = s
      <4>1. op[c].kind # "add" /\ op[c].kind # "remove"
        BY <1>2
      <4>2. Asked(start[c], op[c])
                = [start[c] EXCEPT !.conf.address = op[c].to, !.conf.gateway = op[c].to]
        BY <1>2, <4>1, Zenon DEF Asked
      <4> QED
        BY <3>2, <4>2, Zenon
    <3>4. Made(start[c], op[c], State)'
      <4>1. PICK z, o, t : z = start[c] /\ o = op[c] /\ t = s
        OBVIOUS
      <4>2. start[c]' = z /\ op[c]' = o /\ State' = t
        BY <2>2, <2>3, <4>1
      <4>3. Made(z, o, t)
        BY <1>2, <3>3, <4>1 DEF Made
      <4> QED
        BY <4>2, <4>3
    <3>5. op'[c].stack # "snmp"
      BY <1>2, <2>3
    <3> QED
      BY <2>1, <3>1, <3>4, <3>5 DEF Alone
  <2> QED
    BY <2>2, <2>4, <2>5 DEF Keeps, Own
<1> QED
  BY <1>6, <1>8, <1>9

\* Every step of a call.
LEMMA ActsKeeps ==
    ASSUME NEW c \in Callers, Own(c), Acts(c)
    PROVE  Keeps(c)
<1>1. CASE Read(c)
  BY <1>1, ReadKeeps
<1>2. CASE Write(c)
  BY <1>2, WriteKeeps
<1>3. CASE Rest(c)
  BY <1>3, RestKeeps
<1>4. CASE Verify(c)
  <2>1. PICK r \in Results : Return(c, r)
    BY <1>4 DEF Verify, Results
  <2> QED
    BY <1>4, <2>1, EndKeeps DEF Verify
<1>5. CASE Fail(c)
  <2>1. Return(c, "failed") /\ "failed" \in Results
    BY <1>5 DEF Fail, Results
  <2> QED
    BY <1>5, <2>1, EndKeeps DEF Fail
<1>6. CASE \E o \in Ops : Begin(c, o)
  BY <1>6, BeginKeeps DEF Own
<1> QED
  BY <1>1, <1>2, <1>3, <1>4, <1>5, <1>6 DEF Acts, Step

-----------------------------------------------------------------------------
(* Address and gateway. *)

\* Address and gateway of the switch, before and after a step.
LEMMA WholeIs ==
    /\ Whole(State) <=> conf.address = conf.gateway
    /\ Whole(State)' <=> conf'.address = conf'.gateway
<1> QED
  BY DEF Whole, State

\* A switch with the emx page is not written over a command line.
LEMMA NoPairBesidePage ==
    ASSUME StatesOK, NEW c \in Callers, CallFits(c), pc[c] # "idle", "emx" \in switch.stacks
    PROVE  op[c].stack # "cli"
<1>1. switch \in Switches /\ op[c].stack \in switch.stacks
  BY DEF StatesOK, TypeOK, CallFits
<1>2. ~({"emx", "cli"} \subseteq switch.stacks)
  BY <1>1, SettingsAssumption DEF SettingsAssumption
<1> QED
  BY <1>1, <1>2

\* Address and gateway part only at the first of two commands.
LEMMA WrittenWhole ==
    ASSUME StatesOK, NEW c \in Callers, Whole(State),
           ~(op[c].kind = "address" /\ op[c].stack = "cli" /\ switch.pair),
           op[c].stack = "emx" => Whole(seen[c])
    PROVE  Written(c).conf.address = Written(c).conf.gateway
<1>1. op[c] \in Ops /\ conf \in [Fields -> Values] /\ conf.address = conf.gateway
  BY WholeIs DEF StatesOK, TypeOK
<1>2. CASE op[c].kind = "add"
  BY <1>1, <1>2, WrittenAdd
<1>3. CASE op[c].kind = "remove"
  BY <1>1, <1>3, WrittenRemove
<1>4. CASE op[c].kind = "address"
  <2>1. Written(c).conf = [conf EXCEPT !.address = op[c].to, !.gateway = op[c].to]
    BY <1>1, <1>4, SentAddress
  <2> QED
    BY <1>1, <2>1 DEF Fields
<1>5. CASE op[c].kind = "hostname" /\ op[c].stack = "emx"
  <2>1. Written(c).conf = [conf EXCEPT !.hostname = op[c].to,
                                       !.address = seen[c].conf.address,
                                       !.gateway = seen[c].conf.gateway]
    BY <1>1, <1>5, SentPage
  <2>2. seen[c].conf.address = seen[c].conf.gateway
    BY <1>5 DEF Whole
  <2> QED
    BY <1>1, <2>1, <2>2 DEF Fields
<1>6. CASE /\ ~(op[c].kind \in {"add", "remove", "address"})
           /\ ~(op[c].kind = "hostname" /\ op[c].stack = "emx")
  <2>1. Written(c).conf = [conf EXCEPT ![op[c].kind] = op[c].to]
    BY <1>1, <1>6, SentOne
  <2>2. op[c].kind # "address" /\ op[c].kind # "gateway"
    BY <1>1, <1>6, OpsType
  <2> QED
    BY <1>1, <2>1, <2>2 DEF Fields
<1> QED
  BY <1>2, <1>3, <1>4, <1>5, <1>6

\* What the switch takes on.
LEMMA BecomesConf ==
    ASSUME NEW c, NEW s, Becomes(s, c)
    PROVE  conf' = s.conf /\ rows' = s.rows
<1> QED
  BY DEF Becomes

\* The steps keep a split address somebody's business.
LEMMA SplitKept ==
    ASSUME StatesOK, NEW c \in Callers, Acts(c), PageWhole, SplitIsPending,
           CallFits(c)
    PROVE  SplitIsPending'
<1> SUFFICES ASSUME ~Whole(State)', ~told' PROVE \E d \in Callers : Pending(d)'
  BY DEF SplitIsPending
<1>1. conf'.address # conf'.gateway
  BY WholeIs
<1>2. pc \in [Callers -> Labels] /\ op \in [Callers -> Ops]
  BY DEF StatesOK, TypeOK, Labels
<1>3. ASSUME NEW d \in Callers, d # c, Pending(d) PROVE Pending(d)'
  BY <1>3, OthersStay DEF Pending
<1>4. ASSUME ~Whole(State), ~told, ~Pending(c) PROVE \E d \in Callers : Pending(d)'
  <2>1. PICK d \in Callers : Pending(d)
    BY <1>4 DEF SplitIsPending
  <2>2. d # c
    BY <1>4, <2>1
  <2> QED
    BY <1>3, <2>1, <2>2
<1>5. ASSUME NEW r, Return(c, r)
      PROVE  ~told /\ ~(op[c].kind = "address" /\ r \in {"failed", "mismatch"})
  BY <1>5, Zenon DEF Return
<1>6. ASSUME NEW l, Goto(c, l) PROVE ~told /\ pc'[c] = l
  BY <1>2, <1>6 DEF Goto
<1>7. ASSUME conf' = conf PROVE ~Whole(State)
  BY <1>1, <1>7, WholeIs
<1>8. CASE Read(c)
  <2>1. conf' = conf /\ pc[c] = "read" /\ ((\E r : Return(c, r)) \/ (\E l : Goto(c, l)))
    BY <1>8 DEF Read, switchVars
  <2> QED
    BY <1>4, <1>5, <1>6, <1>7, <2>1 DEF Pending
<1>9. CASE Write(c)
  <2>1. pc[c] = "write" /\ ~Pending(c)
    BY <1>9 DEF Write, Pending
  <2>2. CASE Rejected(c)
    <3>1. conf' = conf /\ Return(c, "failed")
      BY <1>9, <2>2 DEF Write, switchVars
    <3> QED
      BY <1>4, <1>5, <1>7, <2>1, <3>1
  <2>3. CASE ~Rejected(c)
    <3> DEFINE pair == op[c].kind = "address" /\ op[c].stack = "cli" /\ switch.pair
    <3>1. /\ Becomes(Written(c), c) /\ op' = op
          /\ Return(c, "failed") \/ Goto(c, IF pair THEN "rest" ELSE "verify")
      BY <1>9, <2>3 DEF Write
    <3>2. ~told
      BY <1>5, <1>6, <3>1
    <3>3. CASE pair
      <4>1. op[c].kind = "address" /\ op[c].stack = "cli"
        BY <3>3
      <4>2. Goto(c, IF pair THEN "rest" ELSE "verify")
        BY <1>5, <3>1, <4>1
      <4>3. (IF pair THEN "rest" ELSE "verify") = "rest"
        <5> HIDE DEF pair
        <5> QED
          BY <3>3, Zenon
      <4>4. pc'[c] = "rest"
        BY <1>6, <4>2, <4>3
      <4> QED
        BY <3>1, <4>1, <4>4 DEF Pending
    <3>4. CASE ~pair
      <4>1. op[c].stack = "emx" => Whole(seen[c])
        BY <2>1 DEF CallFits, PageWhole
      <4>2. ~Whole(State)
        <5> SUFFICES ASSUME Whole(State) PROVE FALSE
          OBVIOUS
        <5>1. Written(c).conf.address = Written(c).conf.gateway
          BY <3>4, <4>1, WrittenWhole
        <5>2. conf' = Written(c).conf
          BY <3>1, BecomesConf
        <5> QED
          BY <1>1, <5>1, <5>2
      <4> QED
        BY <1>4, <2>1, <3>2, <4>2
    <3> QED
      BY <3>3, <3>4
  <2> QED
    BY <2>2, <2>3
<1>10. CASE Rest(c)
  <2>1. op[c].kind = "address" /\ op[c].stack = "cli"
    BY <1>10 DEF Rest, CallFits
  <2>2. op' = op /\ (Goto(c, "verify") \/ Return(c, "failed"))
    BY <1>10 DEF Rest
  <2>3. Goto(c, "verify")
    BY <1>5, <2>1, <2>2
  <2>4. pc'[c] = "verify"
    BY <1>6, <2>3
  <2> QED
    BY <2>1, <2>2, <2>4 DEF Pending
<1>11. CASE Verify(c)
  <2>1. /\ conf' = conf
        /\ Return(c, IF ReadsBack(c, Shows(op[c].stack)) THEN "ok" ELSE "mismatch")
    BY <1>11 DEF Verify, switchVars
  <2>2. ~told /\ ~Whole(State)
    BY <1>5, <1>7, <2>1
  <2>3. ASSUME Pending(c) PROVE FALSE
    <3>1. op[c].kind = "address" /\ op[c].stack = "cli"
      BY <2>3 DEF Pending
    <3>2. Shows(op[c].stack) = State
      BY <3>1 DEF Shows
    <3>3. ReadsBack(c, State)
      <4> SUFFICES ASSUME ~ReadsBack(c, State) PROVE FALSE
        OBVIOUS
      <4>1. Return(c, "mismatch")
        BY <2>1, <3>2
      <4> QED
        BY <1>5, <3>1, <4>1
    <3>4. op[c].kind # "add" /\ op[c].kind # "remove"
      BY <3>1
    <3>5. State.conf.address = op[c].to /\ State.conf.gateway = op[c].to
      BY <3>1, <3>3, <3>4, Zenon DEF ReadsBack
    <3> QED
      BY <2>2, <3>5 DEF Whole
  <2> QED
    BY <1>4, <2>2, <2>3
<1>12. CASE Fail(c)
  <2>1. conf' = conf /\ Return(c, "failed")
    BY <1>12 DEF Fail, switchVars
  <2>2. ~told /\ ~Whole(State) /\ ~Pending(c)
    BY <1>5, <1>7, <2>1 DEF Pending
  <2> QED
    BY <1>4, <2>2
<1>13. CASE \E o \in Ops : Begin(c, o)
  <2>1. conf' = conf /\ told' = told /\ pc[c] = "idle"
    BY <1>13 DEF Begin, switchVars
  <2> QED
    BY <1>4, <1>7, <2>1 DEF Pending
<1> QED
  BY <1>8, <1>9, <1>10, <1>11, <1>12, <1>13 DEF Acts, Step

\* On a switch with the emx page address and gateway never part.
LEMMA PageKept ==
    ASSUME StatesOK, NEW c \in Callers, Acts(c), PageWhole, CallFits(c)
    PROVE  PageWhole'
<1> SUFFICES ASSUME "emx" \in switch.stacks
             PROVE  Whole(State)' /\ \A d \in Callers : op'[d].stack = "emx" => Whole(seen'[d])
  <2>1. switch' = switch
    BY SwitchStays
  <2> QED
    BY <2>1 DEF PageWhole, Whole
<1>1. /\ Whole(State) /\ conf.address = conf.gateway
      /\ \A d \in Callers : op[d].stack = "emx" => Whole(seen[d])
  BY WholeIs DEF PageWhole
<1>2. op \in [Callers -> Ops] /\ seen \in [Callers -> States]
  BY DEF StatesOK, TypeOK
<1>3. pc[c] # "idle" => op[c].stack # "cli"
  BY NoPairBesidePage
<1>4. conf'.address = conf'.gateway
  <2>1. CASE conf' = conf
    BY <1>1, <2>1
  <2>2. CASE Write(c) /\ ~Rejected(c)
    <3>1. Becomes(Written(c), c) /\ op[c].stack # "cli"
      BY <1>3, <2>2 DEF Write
    <3>2. conf' = Written(c).conf
      BY <3>1, BecomesConf
    <3> QED
      BY <1>1, <3>1, <3>2, WrittenWhole
  <2>3. CASE Rest(c)
    BY <1>3, <2>3 DEF Rest, CallFits
  <2>4. conf' = conf \/ (Write(c) /\ ~Rejected(c)) \/ Rest(c)
    BY DEF Acts, Step, Read, Write, Verify, Fail, Begin, switchVars
  <2> QED
    BY <2>1, <2>2, <2>3, <2>4
<1>5. Whole(State)'
  BY <1>4, WholeIs
<1>6. ASSUME NEW d \in Callers, op'[d].stack = "emx" PROVE Whole(seen'[d])
  <2>1. CASE d # c
    BY <1>1, <1>6, <2>1, OthersStay
  <2>2. CASE d = c
    <3>1. CASE \E o \in Ops : Begin(c, o)
      <4>1. seen'[c] = State
        BY <1>2, <3>1 DEF Begin
      <4> QED
        BY <1>1, <2>2, <4>1
    <3>2. CASE Read(c)
      <4>1. op' = op /\ seen'[c] = Shows(op[c].stack)
        BY <1>2, <3>2 DEF Read
      <4>2. seen'[c] = State
        BY <1>6, <2>2, <4>1 DEF Shows
      <4> QED
        BY <1>1, <2>2, <4>2
    <3>3. CASE Write(c) \/ Rest(c) \/ Verify(c) \/ Fail(c)
      <4>1. op' = op /\ seen' = seen
        BY <3>3 DEF Write, Rest, Verify, Fail
      <4> QED
        BY <1>1, <1>6, <4>1
    <3> QED
      BY <3>1, <3>2, <3>3 DEF Acts, Step
  <2> QED
    BY <2>1, <2>2
<1> QED
  BY <1>5, <1>6

-----------------------------------------------------------------------------
(* The invariant. *)

\* The switch at rest, before the first call.
LEMMA InitOK == Init => IInv
<1> SUFFICES ASSUME Init PROVE IInv
  OBVIOUS
<1>1. /\ switch \in Switches /\ conf = [f \in Fields |-> 0] /\ rows \in Tables
      /\ view = State /\ calls = 0
      /\ op = [c \in Callers |-> CHOOSE o \in Ops : TRUE]
      /\ pc = [c \in Callers |-> "idle"]
      /\ seen = [c \in Callers |-> State] /\ start = [c \in Callers |-> State]
      /\ result = [c \in Callers |-> "none"]
      /\ disturbed = [c \in Callers |-> FALSE] /\ told = FALSE
  BY DEF Init
<1>2. conf \in [Fields -> Values] /\ Whole(State)
  <2>1. 0 \in Values
    BY DEF Values
  <2> QED
    BY <1>1, <2>1, WholeIs DEF Fields
<1>3. State \in States
  BY <1>1, <1>2 DEF State, States
<1>4. op \in [Callers -> Ops] /\ calls \in 0..MaxCalls
  BY <1>1, SettingsAssumption DEF SettingsAssumption
<1>5. /\ pc \in [Callers -> Labels] /\ result \in [Callers -> Results]
      /\ disturbed \in [Callers -> BOOLEAN] /\ told \in BOOLEAN
  BY <1>1 DEF Labels, Results
<1>6. /\ seen \in [Callers -> States] /\ start \in [Callers -> States]
      /\ \A c \in Callers : Whole(seen[c])
  BY <1>1, <1>2, <1>3
<1>7. view \in States /\ view.conf \in [Fields -> Values] /\ view.rows \in Tables
  BY <1>1, <1>3, StatesType
<1>8. StatesOK
  BY <1>1, <1>2, <1>4, <1>5, <1>6, <1>7 DEF StatesOK, TypeOK, Labels, Results
<1>9. PageWhole /\ SplitIsPending
  BY <1>2, <1>6 DEF PageWhole, SplitIsPending
<1>10. \A c \in Callers : CallFits(c) /\ Alone(c)
  BY <1>1 DEF CallFits, Alone
<1> QED
  BY <1>8, <1>9, <1>10 DEF IInv

\* A stutter changes nothing.
LEMMA StutterKept ==
    ASSUME IInv, UNCHANGED vars
    PROVE  IInv'
<1>1. /\ switch' = switch /\ conf' = conf /\ rows' = rows /\ view' = view /\ calls' = calls
      /\ op' = op /\ pc' = pc /\ seen' = seen /\ result' = result
      /\ start' = start /\ disturbed' = disturbed /\ told' = told
  BY DEF vars, switchVars, historyVars
<1>2. State' = State
  BY <1>1 DEF State
<1>3. StatesOK'
  BY <1>1 DEF IInv, StatesOK, TypeOK
<1>4. PageWhole' /\ SplitIsPending'
  BY <1>1, <1>2 DEF IInv, PageWhole, SplitIsPending, Pending, Whole
<1>5. ASSUME NEW c \in Callers PROVE CallFits(c)'
  BY <1>1 DEF IInv, CallFits
<1>6. ASSUME NEW c \in Callers PROVE Alone(c)'
  <2>1. Alone(c)
    BY DEF IInv
  <2>2. Fresh(c)' = Fresh(c)
    BY <1>1 DEF Fresh
  <2>3. Made(start[c], op[c], State)' = Made(start[c], op[c], State)
    <3>1. PICK s, o, t : s = start[c] /\ o = op[c] /\ t = State
      OBVIOUS
    <3>2. start[c]' = s /\ op[c]' = o /\ State' = t
      BY <1>1, <1>2, <3>1
    <3> QED
      BY <3>1, <3>2
  <2> QED
    BY <1>1, <1>2, <2>1, <2>2, <2>3 DEF Alone
<1> QED
  BY <1>3, <1>4, <1>5, <1>6 DEF IInv

\* Every step keeps the invariant.
LEMMA StepKept == IInv /\ [Next]_vars => IInv'
<1> SUFFICES ASSUME IInv, [Next]_vars PROVE IInv'
  OBVIOUS
<1>1. CASE UNCHANGED vars
  BY <1>1, StutterKept
<1>2. ASSUME NEW c \in Callers, Acts(c) PROVE IInv'
  <2>1. StatesOK /\ PageWhole /\ SplitIsPending /\ Own(c)
    BY DEF IInv, Own
  <2>2. Own(c)' /\ \A d \in Callers : d # c => Kept(d)
    BY <1>2, <2>1, ActsKeeps DEF Keeps
  <2>3. PageWhole' /\ SplitIsPending'
    BY <1>2, <2>1, PageKept, SplitKept DEF Own
  <2>4. switch' = switch
    BY <1>2, SwitchStays
  <2>5. ASSUME NEW d \in Callers PROVE CallFits(d)' /\ Alone(d)'
    <3>1. CASE d = c
      BY <2>2, <3>1 DEF Own
    <3>2. CASE d # c
      <4>1. CallFits(d) /\ Alone(d) /\ Kept(d)
        BY <2>2, <3>2 DEF IInv
      <4>2. CallFits(d)'
        BY <1>2, <2>1, <2>4, <3>2, <4>1, OthersFit
      <4>3. Alone(d)'
        BY <1>2, <2>1, <3>2, <4>1, OthersAlone
      <4> QED
        BY <4>2, <4>3
    <3> QED
      BY <3>1, <3>2
  <2> QED
    BY <2>2, <2>3, <2>5 DEF IInv, Own
<1> QED
  BY <1>1, <1>2 DEF Next, Acts

\* So it holds in every state of every behaviour.
LEMMA InvariantHolds == Spec => []IInv
<1> QED
  BY InitOK, StepKept, PTL DEF Spec

-----------------------------------------------------------------------------
(* The theorems. *)

\* Every state is one the program can be in: settings of their range, a collector
\* table within its bounds, calls between guard and verdict.
THEOREM TypeCorrect == Spec => []TypeOK
<1>1. IInv => TypeOK
  BY DEF IInv, StatesOK
<1> QED
  BY <1>1, InvariantHolds, PTL

\* Address and gateway of different calls are found on a switch at rest only after
\* a call that set the address has ended in an error (SetMgmtIP of the CLI writer).
THEOREM SplitReported == Spec => []SplitAddressIsReported
<1>1. ASSUME IInv PROVE SplitAddressIsReported
  <2> SUFFICES ASSUME \A c \in Callers : pc[c] = "idle", conf.address # conf.gateway, ~told
               PROVE  FALSE
    BY DEF SplitAddressIsReported
  <2>1. ~Whole(State) /\ SplitIsPending
    BY <1>1, WholeIs DEF IInv
  <2>2. PICK c \in Callers : pc[c] \in {"rest", "verify"}
    BY <2>1 DEF SplitIsPending, Pending
  <2> QED
    BY <2>2
<1> QED
  BY <1>1, InvariantHolds, PTL

\* A step that changes where a call is, is one of that call.
LEMMA OwnStep ==
    ASSUME StatesOK, [Next]_vars, NEW c \in Callers, pc'[c] # pc[c], pc[c] # "idle"
    PROVE  Step(c)
<1>1. Next
  BY DEF vars
<1>2. PICK d \in Callers : Acts(d)
  BY <1>1 DEF Next, Acts
<1>3. d = c
  BY <1>2, OthersStay
<1> QED
  BY <1>2, <1>3 DEF Acts, Begin

\* A table in which one removal leaves no row of the host had one such row.
LEMMA RemovedAll ==
    ASSUME NEW s \in States, NEW t \in States, NEW o, o.kind = "remove",
           Made(s, o, t), Named(t.rows, o.host) = {}
    PROVE  t = Asked(s, o)
<1> DEFINE h == o.host
<1> DEFINE D == DOMAIN s.rows \ Named(s.rows, h)
<1> DEFINE left == [i \in D |-> s.rows[i]]
<1>1. /\ s.rows \in Tables /\ t = [conf |-> t.conf, rows |-> t.rows]
      /\ s = [conf |-> s.conf, rows |-> s.rows]
  BY StatesType
<1>2. s.rows \in [DOMAIN s.rows -> Hosts]
  BY <1>1, TableType
<1>3. Asked(s, o) = [s EXCEPT !.rows = left]
  <2>1. o.kind # "add"
    OBVIOUS
  <2> QED
    BY <2>1, Zenon DEF Asked
<1>4. Asked(s, o) = [conf |-> s.conf, rows |-> left]
  <2> HIDE DEF left
  <2> QED
    BY <1>1, <1>3
<1>5. /\ t.conf = s.conf
      /\ \/ t.rows = s.rows
         \/ \E i \in Named(s.rows, h) : t.rows = WithoutRow(s.rows, i)
  BY DEF Made
<1>6. t.rows = left
  <2>1. CASE t.rows = s.rows
    <3>1. D = DOMAIN s.rows
      BY <2>1
    <3> QED
      BY <1>2, <2>1, <3>1
  <2>2. CASE \E i \in Named(s.rows, h) : t.rows = WithoutRow(s.rows, i)
    <3>1. PICK i \in Named(s.rows, h) : t.rows = WithoutRow(s.rows, i)
      BY <2>2
    <3>2. i \in DOMAIN s.rows
      BY <3>1 DEF Named
    <3>3. /\ DOMAIN t.rows = DOMAIN s.rows \ {i}
          /\ \A j \in DOMAIN s.rows \ {i} : t.rows[j] = s.rows[j]
      <4>1. /\ DOMAIN WithoutRow(s.rows, i) = DOMAIN s.rows \ {i}
            /\ \A j \in DOMAIN s.rows \ {i} : WithoutRow(s.rows, i)[j] = s.rows[j]
        BY <1>1, <3>2, WithoutRowType, Zenon
      <4>2. PICK w : w = WithoutRow(s.rows, i)
        OBVIOUS
      <4>3. t.rows = w
        BY <3>1, <4>2
      <4> QED
        BY <4>1, <4>2, <4>3
    <3>4. ASSUME NEW j \in Named(s.rows, h), j # i PROVE FALSE
      <4>1. j \in DOMAIN s.rows \ {i} /\ s.rows[j] = h
        BY <3>4 DEF Named
      <4>2. j \in Named(t.rows, h)
        BY <3>3, <4>1 DEF Named
      <4> QED
        BY <4>2
    <3>5. D = DOMAIN s.rows \ {i}
      BY <3>1, <3>4
    <3>6. t.rows = [j \in DOMAIN s.rows \ {i} |-> s.rows[j]]
      BY <3>1 DEF WithoutRow
    <3> QED
      BY <3>5, <3>6
  <2> QED
    BY <1>5, <2>1, <2>2
<1> QED
  BY <1>1, <1>4, <1>5, <1>6

\* A call nobody disturbs that answers ok has made exactly the change it was asked
\* for (the writes of the four writers, each with its read and its verdict).
THEOREM AloneIsExact == Spec => ExactWhenAlone
<1> DEFINE Exact(c) ==
        Answers(c, "ok") /\ ~disturbed[c] /\ (op[c].stack = "snmp" => seen[c] = start[c])
            => State = Asked(start[c], op[c])
<1>1. ASSUME IInv, [Next]_vars, NEW c \in Callers PROVE Exact(c)
  <2> SUFFICES ASSUME Answers(c, "ok"), ~disturbed[c], op[c].stack = "snmp" => seen[c] = start[c]
               PROVE  State = Asked(start[c], op[c])
    OBVIOUS
  <2>1. StatesOK /\ CallFits(c) /\ Alone(c)
    BY <1>1 DEF IInv
  <2>2. pc[c] # "idle" /\ pc'[c] = "idle" /\ result'[c] = "ok"
    BY DEF Answers
  <2>3. Step(c)
    BY <1>1, <2>1, <2>2, OwnStep
  <2>4. /\ result \in [Callers -> Results] /\ pc \in [Callers -> Labels]
        /\ start \in [Callers -> States] /\ State \in States
    BY <2>1, StateType DEF StatesOK, TypeOK, Results, Labels
  <2>5. ASSUME NEW r, Return(c, r) PROVE r = "ok"
    <3>1. result' = [result EXCEPT ![c] = r]
      BY <2>5 DEF Return
    <3> QED
      BY <2>2, <2>4, <3>1
  <2>6. ASSUME NEW l, Goto(c, l) PROVE l = "idle"
    <3>1. pc' = [pc EXCEPT ![c] = l]
      BY <2>6 DEF Goto
    <3> QED
      BY <2>2, <2>4, <3>1
  <2>7. Verify(c)
    <3>1. ~Read(c)
      BY <2>5, <2>6 DEF Read
    <3>2. ~Write(c)
      <4>1. ASSUME Write(c) PROVE Return(c, "failed") \/ Goto(c, "rest") \/ Goto(c, "verify")
        BY <4>1, Zenon DEF Write
      <4> QED
        BY <2>5, <2>6, <4>1
    <3>3. ~Rest(c)
      BY <2>5, <2>6 DEF Rest
    <3>4. ~Fail(c)
      BY <2>5 DEF Fail
    <3> QED
      BY <2>3, <3>1, <3>2, <3>3, <3>4 DEF Step
  <2>8. ReadsBack(c, Shows(op[c].stack)) /\ pc[c] = "verify"
    <3>1. Return(c, IF ReadsBack(c, Shows(op[c].stack)) THEN "ok" ELSE "mismatch")
      BY <2>7 DEF Verify
    <3>2. (IF ReadsBack(c, Shows(op[c].stack)) THEN "ok" ELSE "mismatch") = "ok"
      BY <2>5, <3>1
    <3>3. "ok" # "mismatch"
      OBVIOUS
    <3> QED
      BY <2>7, <3>2, <3>3, Zenon DEF Verify
  <2>9. Fresh(c) /\ Made(start[c], op[c], State)
    BY <2>1, <2>8 DEF Alone, Fresh
  <2>10. Shows(op[c].stack) = State
    BY <2>1, <2>8 DEF Shows, Alone
  <2>11. CASE op[c].kind # "remove"
    BY <2>9, <2>11 DEF Made
  <2>12. CASE op[c].kind = "remove"
    <3>1. op[c].kind # "add"
      BY <2>12
    <3>2. Named(State.rows, op[c].host) = {}
      BY <2>8, <2>10, <2>12, <3>1, Zenon DEF ReadsBack
    <3> QED
      BY <2>4, <2>9, <2>12, <3>2, RemovedAll
  <2> QED
    BY <2>11, <2>12
<1>2. IInv /\ [Next]_vars => [\A c \in Callers : Exact(c)]_vars
  BY <1>1
<1> QED
  BY <1>2, InvariantHolds, PTL DEF Spec, ExactWhenAlone

\* The settings a request changes.
LEMMA ChangedSettings ==
    ASSUME StatesOK, NEW c \in Callers, NEW f \in Fields, Written(c).conf[f] # conf[f]
    PROVE  \/ f = op[c].kind
           \/ f = "gateway" /\ op[c].kind = "address"
           \/ op[c].stack = "emx" /\ op[c].kind = "hostname" /\ seen[c].conf[f] # conf[f]
<1>1. conf \in [Fields -> Values]
  BY DEF StatesOK, TypeOK
<1>2. CASE op[c].kind = "add"
  BY <1>2, WrittenAdd
<1>3. CASE op[c].kind = "remove"
  BY <1>3, WrittenRemove
<1>4. CASE op[c].kind = "address"
  <2>1. f = "address" \/ f = "gateway"
    BY <1>1, <1>4, SentAddress
  <2> QED
    BY <1>4, <2>1
<1>5. CASE op[c].kind = "hostname" /\ op[c].stack = "emx"
  <2>1. Written(c).conf = [conf EXCEPT !.hostname = op[c].to,
                                       !.address = seen[c].conf.address,
                                       !.gateway = seen[c].conf.gateway]
    BY <1>1, <1>5, SentPage
  <2>2. f = "hostname" \/ Written(c).conf[f] = seen[c].conf[f]
    BY <1>1, <2>1
  <2> QED
    BY <1>5, <2>2
<1>6. CASE /\ ~(op[c].kind \in {"add", "remove", "address"})
           /\ ~(op[c].kind = "hostname" /\ op[c].stack = "emx")
  BY <1>1, <1>6, SentOne
<1> QED
  BY <1>2, <1>3, <1>4, <1>5, <1>6

\* The collectors a request removes.
LEMMA ChangedRows ==
    ASSUME StatesOK, NEW c \in Callers, CallFits(c), pc[c] = "write",
           NEW i \in DOMAIN rows \ DOMAIN Written(c).rows, rows[i] # op[c].host
    PROVE  seen[c].rows # rows /\ op[c].stack # "xui" /\ op[c].kind = "remove"
<1>1. rows \in Tables
  BY DEF StatesOK, TypeOK
<1>2. CASE op[c].kind = "add"
  BY <1>2, WrittenAdd
<1>3. CASE op[c].kind = "remove"
  <2>1. PICK j \in Victim(c) : j \in DOMAIN rows /\ Written(c).rows = WithoutRow(rows, j)
    BY <1>3, RemoveTakesOne
  <2>2. DOMAIN Written(c).rows = DOMAIN rows \ {j}
    BY <1>1, <2>1, WithoutRowType
  <2>3. i = j
    BY <2>2
  <2>4. j \notin Named(rows, op[c].host)
    BY <2>3 DEF Named
  <2> QED
    BY <1>3, <2>1, <2>4, VictimIs
<1>4. CASE ~(op[c].kind \in {"add", "remove"})
  BY <1>4, WrittenSettings
<1> QED
  BY <1>2, <1>3, <1>4

\* A write touches a setting or a collector it was not asked about only when the
\* switch no longer was as the call had read it (setGS110EMXHostname,
\* RemoveSyslogCollector).
THEOREM CollateralIsStale == Spec => CollateralNeedsStaleRead
<1> DEFINE Settled(c) ==
        \A f \in Fields :
            conf'[f] # conf[f] =>
                \/ f = op[c].kind
                \/ f = "gateway" /\ op[c].kind = "address"
                \/ op[c].stack = "emx" /\ op[c].kind = "hostname" /\ seen[c].conf[f] # conf[f]
<1> DEFINE Removed(c) ==
        \A i \in DOMAIN rows \ DOMAIN rows' :
            rows[i] # op[c].host =>
                /\ seen[c].rows # rows
                /\ op[c].stack # "xui" /\ op[c].kind = "remove"
<1>1. ASSUME IInv, [Next]_vars, NEW c \in Callers, pc[c] = "write", pc'[c] # "write"
      PROVE  Settled(c) /\ Removed(c)
  <2>1. StatesOK /\ CallFits(c)
    BY <1>1 DEF IInv
  <2>2. Step(c)
    BY <1>1, <2>1, OwnStep
  <2>3. Write(c) \/ Fail(c)
    BY <1>1, <2>2 DEF Step, Read, Rest, Verify
  <2>4. CASE conf' = conf /\ rows' = rows
    BY <2>4
  <2>5. CASE Becomes(Written(c), c)
    <3>1. conf' = Written(c).conf /\ rows' = Written(c).rows
      BY <2>5, BecomesConf
    <3>2. Settled(c)
      BY <2>1, <3>1, ChangedSettings
    <3>3. Removed(c)
      BY <1>1, <2>1, <3>1, ChangedRows
    <3> QED
      BY <3>2, <3>3
  <2> QED
    BY <2>3, <2>4, <2>5 DEF Write, Fail, switchVars
<1> DEFINE Harmless(c) ==
        pc[c] = "write" /\ pc'[c] # "write" =>
            /\ Settled(c)
            /\ Removed(c)
<1>2. IInv /\ [Next]_vars => [\A c \in Callers : Harmless(c)]_vars
  BY <1>1
<1> QED
  BY <1>2, InvariantHolds, PTL DEF Spec, CollateralNeedsStaleRead
=============================================================================
