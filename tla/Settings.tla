-------------------------------- MODULE Settings --------------------------------
(***************************************************************************)
(* The remaining writes of the writers (snmp/writer.go, snmp/writer_vlan.go,*)
(* webui/writer.go, fastpath/writer.go, nsdp/writer.go): single settings of *)
(* the switch and of a port, and the table of syslog collectors, over the   *)
(* management stacks of one switch.                                         *)
(*                                                                          *)
(* All have one shape: guard, read, write, read back, compare.  They differ *)
(* in what the write carries besides the setting asked for:                 *)
(*   - the GS110EMX page ("emx") sends the management address along with the*)
(*     host name, as it was read;                                           *)
(*   - the M4300 CLI sets address and gateway by two commands;              *)
(*   - SNMP and CLI name the collector to remove by the index read earlier; *)
(*   - the SNMP agent of the virtual switch answers from a view that only   *)
(*     SNMP writes rebuild (virtual/mibview.go).                            *)
(***************************************************************************)
EXTENDS Naturals, FiniteSets, FiniteSetsExt

CONSTANTS
    Callers,
    Switches,        \* records: the stacks, viewed (SNMP reads a view), pair (two commands)
    IsProtected,     \* whether the port is in the writers' protectedPorts
    Hosts,           \* syslog collectors
    MaxRows,         \* bound: rows of the collector table
    Ops,
    MaxCalls         \* bound: calls of all callers

Stacks == {"snmp", "cli", "goahead", "emx", "xui", "nsdp"}
Fields == {"hostname", "address", "gateway", "admin", "descr", "speed", "flow", "logging"}
Kinds == (Fields \ {"gateway"}) \union {"add", "remove"}
Values == {0, 1}     \* of any setting; 1 is a port switched off
Tables == UNION {[S -> Hosts] : S \in SUBSET (1..MaxRows)}   \* index -> host

\* The switch with the emx page has no command line (model/registry.go).
ASSUME SettingsAssumption ==
    /\ \A s \in Switches :
        /\ s.stacks \subseteq Stacks /\ s.stacks # {} /\ s.viewed \in BOOLEAN /\ s.pair \in BOOLEAN
        /\ ~({"emx", "cli"} \subseteq s.stacks)
    /\ Switches # {} /\ IsProtected \in BOOLEAN /\ Hosts # {} /\ Ops # {}
    /\ \A o \in Ops :
        /\ o.kind \in Kinds /\ o.stack \in Stacks /\ o.force \in BOOLEAN
        /\ IF o.kind \in {"add", "remove"} THEN o.host \in Hosts ELSE o.to \in Values
    /\ MaxRows \in Nat /\ MaxCalls \in Nat

VARIABLES
    switch,
    conf,        \* the settings: State.Hostname, Mgmt, Ports[p], Syslog.AdminMode
    rows,        \* State.Syslog.Collectors: index -> host
    view,        \* MibView.entries
    calls,
    op, pc,
    seen,        \* what the call read first
    result,
    start,       \* history: the state when the call began
    disturbed,   \* history: another call changed the state during the call
    told         \* history: some call that sets the address has ended in an error

State == [conf |-> conf, rows |-> rows]
switchVars == <<conf, rows, view>>
historyVars == <<start, disturbed, told>>
vars == <<switch, switchVars, calls, op, pc, seen, result, historyVars>>

TypeOK ==
    /\ switch \in Switches
    /\ conf \in [Fields -> Values] /\ rows \in Tables
    /\ view.conf \in [Fields -> Values] /\ view.rows \in Tables
    /\ calls \in 0..MaxCalls
    /\ op \in [Callers -> Ops]
    /\ pc \in [Callers -> {"idle", "read", "write", "rest", "verify"}]
    /\ result \in [Callers -> {"none", "ok", "mismatch", "protected", "unsupported",
                               "refused", "failed"}]
    /\ disturbed \in [Callers -> BOOLEAN] /\ told \in BOOLEAN

Init ==
    /\ switch \in Switches
    /\ conf = [f \in Fields |-> 0]
    /\ rows \in {t \in Tables : DOMAIN t = {1}}
    /\ view = State
    /\ calls = 0
    /\ op = [c \in Callers |-> CHOOSE o \in Ops : TRUE]
    /\ pc = [c \in Callers |-> "idle"]
    /\ seen = [c \in Callers |-> State]
    /\ result = [c \in Callers |-> "none"]
    /\ start = [c \in Callers |-> State]
    /\ disturbed = [c \in Callers |-> FALSE] /\ told = FALSE

-----------------------------------------------------------------------------
(* The switch. *)

\* What a read over a stack shows.
Shows(stack) == IF stack = "snmp" /\ switch.viewed THEN view ELSE State

Named(t, h) == {i \in DOMAIN t : t[i] = h}

\* Faulty WithoutRow: the rows after the removed one move up.
MovesUp(t, i) ==
    [j \in 1..(Cardinality(DOMAIN t) - 1) |->
        LET k == IF j < i THEN j ELSE j + 1 IN IF k \in DOMAIN t THEN t[k] ELSE t[i]]

WithoutRow(t, i) == [j \in DOMAIN t \ {i} |-> t[j]]

\* Faulty NextIndex: the first free index counts from zero.
FromZero == IF DOMAIN rows = {} THEN 0 ELSE Max(DOMAIN rows) + 1

\* A new collector gets the index after the highest one in use.
NextIndex == IF DOMAIN rows = {} THEN 1 ELSE Max(DOMAIN rows) + 1

\* The switch takes on the state s by c's write; SNMP writes rebuild the view.
Becomes(s, c) ==
    /\ conf' = s.conf /\ rows' = s.rows
    /\ view' = IF op[c].stack = "snmp" THEN s ELSE view
    /\ disturbed' = [d \in Callers |->
        disturbed[d] \/ (d # c /\ pc[d] # "idle" /\ s # State)]

-----------------------------------------------------------------------------
(* The writers. *)

Return(c, r) ==
    /\ pc' = [pc EXCEPT ![c] = "idle"]
    /\ result' = [result EXCEPT ![c] = r]
    /\ told' = (told \/ (op[c].kind = "address" /\ r \in {"failed", "mismatch"}))
Goto(c, l) == pc' = [pc EXCEPT ![c] = l] /\ UNCHANGED <<result, told>>

\* The writes each stack has.
Supported(o) ==
    CASE o.kind = "admin" -> o.stack # "nsdp"
      [] o.kind = "hostname" -> o.stack # "xui"
      [] o.kind = "address" -> o.stack \in {"snmp", "cli", "xui", "nsdp"}
      [] o.kind = "remove" -> o.stack \in {"snmp", "cli", "xui"}
      [] o.kind = "descr" -> o.stack \in {"snmp", "cli", "goahead", "nsdp"}
      [] o.kind = "speed" -> o.stack \in {"cli", "goahead"}
      [] o.kind = "logging" -> o.stack \in {"snmp", "cli"}
      [] o.kind \in {"flow", "add"} -> o.stack = "cli"

Web == {"goahead", "emx", "xui"}

\* guard, and the force that SetMgmtIP demands of everybody: SNMP and CLI ask only
\* before they switch a port off.
Guarded(o) ==
    /\ ~o.force
    /\ \/ o.kind = "address"
       \/ IsProtected /\ o.kind \in {"descr", "speed", "flow"}
       \/ IsProtected /\ o.kind = "admin" /\ (o.to = 1 \/ o.stack \in Web)

Begin(c, o) ==
    /\ pc[c] = "idle" /\ calls < MaxCalls /\ o.stack \in switch.stacks
    /\ calls' = calls + 1
    /\ op' = [op EXCEPT ![c] = o]
    /\ start' = [start EXCEPT ![c] = State]
    /\ disturbed' = [disturbed EXCEPT ![c] = FALSE]
    /\ seen' = [seen EXCEPT ![c] = State]
    /\ pc' = [pc EXCEPT ![c] = IF Supported(o) /\ ~Guarded(o) THEN "read" ELSE "idle"]
    /\ result' = [result EXCEPT ![c] =
        IF ~Supported(o) THEN "unsupported" ELSE IF Guarded(o) THEN "protected" ELSE "none"]
    /\ UNCHANGED <<switch, switchVars, told>>

\* AddSyslogCollector refuses a second row for a host, RemoveSyslogCollector a
\* host without a row; nothing is sent.
Refuses(o, s) ==
    CASE o.kind = "add" -> Named(s.rows, o.host) # {}
      [] o.kind = "remove" -> Named(s.rows, o.host) = {}
      [] OTHER -> FALSE

Read(c) ==
    /\ pc[c] = "read"
    /\ seen' = [seen EXCEPT ![c] = Shows(op[c].stack)]
    /\ IF Refuses(op[c], Shows(op[c].stack)) THEN Return(c, "refused") ELSE Goto(c, "write")
    /\ UNCHANGED <<switch, switchVars, calls, op, start, disturbed>>

\* The settings a request sets: of a port or the system, with their new values.
Sent(c) ==
    LET o == op[c] IN
    CASE o.kind = "address" ->
            [f \in IF switch.pair /\ o.stack = "cli" THEN {"address"} ELSE {"address", "gateway"}
                |-> o.to]
      [] o.kind = "hostname" /\ o.stack = "emx" ->
            [f \in {"hostname", "address", "gateway"} |->
                IF f = "hostname" THEN o.to ELSE seen[c].conf[f]]
      [] OTHER -> [f \in {o.kind} |-> o.to]

\* Faulty Victim: the row's position in the table is taken for its index.
AtPosition(c) ==
    LET i == Min(Named(seen[c].rows, op[c].host)) IN
    {Cardinality({j \in DOMAIN seen[c].rows : j <= i})} \intersect DOMAIN rows

\* The row a removal takes out, if there is one: the page names the host, SNMP
\* and CLI the index that the host had.
Victim(c) ==
    IF op[c].stack = "xui"
    THEN IF Named(rows, op[c].host) = {} THEN {} ELSE {Min(Named(rows, op[c].host))}
    ELSE {Min(Named(seen[c].rows, op[c].host))} \intersect DOMAIN rows

\* The state after the switch has served the call's write.
Written(c) ==
    LET o == op[c] IN
    CASE o.kind = "add" ->
            [State EXCEPT !.rows = [i \in DOMAIN rows \union {NextIndex} |->
                                        IF i = NextIndex THEN o.host ELSE rows[i]]]
      [] o.kind = "remove" ->
            [State EXCEPT !.rows =
                IF Victim(c) = {} THEN rows ELSE WithoutRow(rows, CHOOSE i \in Victim(c) : TRUE)]
      [] OTHER ->
            [State EXCEPT !.conf = [f \in Fields |->
                                        IF f \in DOMAIN Sent(c) THEN Sent(c)[f] ELSE conf[f]]]

\* A row that is not there is an error, except to the page, whose refusal the
\* writer does not look at.
Rejected(c) == op[c].kind = "remove" /\ op[c].stack # "xui" /\ Victim(c) = {}

\* The write, served; its answer may be lost.
Write(c) ==
    /\ pc[c] = "write"
    /\ op[c].kind = "add" => NextIndex <= MaxRows
    /\ IF Rejected(c) THEN Return(c, "failed") /\ UNCHANGED <<switchVars, disturbed>>
       ELSE /\ Becomes(Written(c), c)
            /\ \/ Return(c, "failed")
               \/ Goto(c, IF op[c].kind = "address" /\ op[c].stack = "cli" /\ switch.pair
                          THEN "rest" ELSE "verify")
    /\ UNCHANGED <<switch, calls, op, seen, start>>

\* The second command of the pair: ip default-gateway.
Rest(c) ==
    /\ pc[c] = "rest"
    /\ Becomes([State EXCEPT !.conf.gateway = op[c].to], c)
    /\ Goto(c, "verify") \/ Return(c, "failed")
    /\ UNCHANGED <<switch, calls, op, seen, start>>

\* Faulty ReadsBack: addressing is not looked at again, the session may be gone.
TrustsAddress(c, s) ==
    CASE op[c].kind = "add" -> Named(s.rows, op[c].host) # {}
      [] op[c].kind = "remove" -> Named(s.rows, op[c].host) = {}
      [] op[c].kind = "address" -> TRUE
      [] OTHER -> s.conf[op[c].kind] = op[c].to

\* What the read after the write shows.
ReadsBack(c, s) ==
    LET o == op[c] IN
    CASE o.kind = "add" -> Named(s.rows, o.host) # {}
      [] o.kind = "remove" -> Named(s.rows, o.host) = {}
      [] o.kind = "address" -> s.conf.address = o.to /\ s.conf.gateway = o.to
      [] o.kind = "hostname" /\ o.stack = "emx" ->
            /\ s.conf.hostname = o.to
            /\ \A f \in {"address", "gateway"} : s.conf[f] = seen[c].conf[f]
      [] OTHER -> s.conf[o.kind] = o.to

Verify(c) ==
    /\ pc[c] = "verify"
    /\ Return(c, IF ReadsBack(c, Shows(op[c].stack)) THEN "ok" ELSE "mismatch")
    /\ UNCHANGED <<switch, switchVars, calls, op, seen, start, disturbed>>

\* Any request may fail before the switch serves it.
Fail(c) ==
    /\ pc[c] # "idle" /\ Return(c, "failed")
    /\ UNCHANGED <<switch, switchVars, calls, op, seen, start, disturbed>>

Step(c) == Read(c) \/ Write(c) \/ Rest(c) \/ Verify(c) \/ Fail(c)
Next == \E c \in Callers : Step(c) \/ \E o \in Ops : Begin(c, o)

Spec == Init /\ [][Next]_vars

-----------------------------------------------------------------------------

Answers(c, r) == pc[c] # "idle" /\ pc'[c] = "idle" /\ result'[c] = r

\* What the call was asked to make of the state s.
Asked(s, o) ==
    CASE o.kind = "add" ->
            [s EXCEPT !.rows =
                LET n == IF DOMAIN s.rows = {} THEN 1 ELSE Max(DOMAIN s.rows) + 1 IN
                [i \in DOMAIN s.rows \union {n} |-> IF i = n THEN o.host ELSE s.rows[i]]]
      [] o.kind = "remove" ->
            [s EXCEPT !.rows = [i \in DOMAIN s.rows \ Named(s.rows, o.host) |-> s.rows[i]]]
      [] o.kind = "address" -> [s EXCEPT !.conf.address = o.to, !.conf.gateway = o.to]
      [] OTHER -> [s EXCEPT !.conf[o.kind] = o.to]

\* A call nobody interferes with that reports success has made exactly the change
\* it was asked for, whatever its page or its index named; over SNMP, provided the
\* agent's view was up to date when the call began.
ExactWhenAlone ==
    [][\A c \in Callers :
        Answers(c, "ok") /\ ~disturbed[c]
            /\ (op[c].stack = "snmp" => seen[c] = start[c])
            => State = Asked(start[c], op[c])]_vars

\* A write changes a setting or a collector it was not asked about only when the
\* switch no longer was as the call had read it: the host name page puts an older
\* address back, or the index of a removal has passed to another collector.  The
\* collector page never hits another host (setGS110EMXHostname,
\* RemoveSyslogCollector).
CollateralNeedsStaleRead ==
    [][\A c \in Callers : pc[c] = "write" /\ pc'[c] # "write" =>
        /\ \A f \in Fields :
            conf'[f] # conf[f] =>
                \/ f = op[c].kind
                \/ f = "gateway" /\ op[c].kind = "address"
                \/ op[c].stack = "emx" /\ op[c].kind = "hostname" /\ seen[c].conf[f] # conf[f]
        /\ \A i \in DOMAIN rows \ DOMAIN rows' :
            rows[i] # op[c].host =>
                /\ seen[c].rows # rows
                /\ op[c].stack # "xui" /\ op[c].kind = "remove"]_vars

\* A switch at rest whose address and gateway come from different calls is one
\* whose operator has been told: some call that set them ended in an error
\* (SetMgmtIP of the CLI writer, between its two commands).
SplitAddressIsReported ==
    (\A c \in Callers : pc[c] = "idle") /\ conf.address # conf.gateway => told

=============================================================================
