-------------------------------- MODULE Readings --------------------------------
(***************************************************************************)
(* The readers of ten management interfaces, against a switch that other    *)
(* interfaces change between the requests of a read.  A read is one request  *)
(* or several; each is answered under the lock of the switch state, so each  *)
(* page is true when it is served, and nothing relates one page to the next. *)
(*                                                                           *)
(* The pages and parsers are in CliPages, XuiPages, PlusPages, GoAheadPages,  *)
(* NsdpPages and SnmpPages; here are the steps of a read, and what its result *)
(* has to do with the switch, stated once for all interfaces.  The SNMP agent *)
(* shows a change with the next SET (SnmpRead): for it, a change of this      *)
(* model is one that a SET follows.                                           *)
(***************************************************************************)
EXTENDS CliPages, PlusPages, GoAheadPages, NsdpPages, SnmpPages

Xui == {"xe", "s3300", "m4300"}
Plus == {"standard", "gs105pe", "gs110emx"}
AllVias == {"cli", "goahead", "nsdp", "snmp"} \union Xui \union Plus

CONSTANTS
    Vias,        \* the interfaces read
    Start,       \* via -> field -> what the table holds at first
    Contents,    \* via -> field -> what other management interfaces may make of it
    MaxReads,    \* bound: reads
    MaxMoves     \* bound: changes over other management interfaces

ASSUME ReadingsAssumption ==
    /\ Vias \subseteq AllVias
    /\ \A v \in Vias : \A f \in Fields :
          IsTable(f, Start[v][f]) /\ \A t \in Contents[v][f] : IsTable(f, t)
    /\ MaxReads \in Nat /\ MaxMoves \in Nat

VARIABLES
    sw,           \* virtual.State
    via, op,      \* the interface and the read
    pc,           \* "idle" or "ask"
    todo,         \* the requests still to make
    got,          \* the requests made, with their pages
    result,       \* "none", "ok", "refused", "failed"
    rows,         \* what the read returned, as facts
    reads, moves,
    since         \* history: the states the switch was in since the read began

vars == <<sw, via, op, pc, todo, got, result, rows, reads, moves, since>>

\* The reads an interface offers.
Ops(t) == CASE t = "cli" -> CliOps [] t \in Xui -> XuiOps(t) [] t \in Plus -> PlusOps(t)
            [] t = "goahead" -> GoAheadOps [] t = "nsdp" -> NsdpOps [] t = "snmp" -> SnmpOps

\* The requests of a read.
First(t, o) ==
    CASE t = "cli" -> CliFirst(o) [] t \in Xui -> XuiFirst(o) [] t \in Plus -> PlusFirst(t, o)
      [] t = "goahead" -> GoAheadFirst(o) [] t = "nsdp" -> <<Q(o, 0)>>
      [] t = "snmp" -> SnmpFirst(o)

\* The requests a page gives rise to.
More(t, o, q, page, before) ==
    CASE t = "cli" -> CliMore(o, q, page)
      [] t \in Xui -> XuiMore(t, q, page, before)
      [] t \in Plus -> PlusMore(t, q, page, before)
      [] t \in {"goahead", "nsdp", "snmp"} -> <<>>

Page(t, q, s) ==
    CASE t = "cli" -> CliScreen(q, s) [] t \in Xui -> XuiPage(t, q, s)
      [] t \in Plus -> PlusPage(t, q, s) [] t = "goahead" -> GoAheadPage(q, s)
      [] t = "nsdp" -> NsdpResponse(q, s) [] t = "snmp" -> SnmpColumn(q, s)

\* What serving a page leaves of the switch.
Leaves(t, q, s) == IF t = "cli" THEN CliLeaves(q, s) ELSE s

Refuses(t, q, page, before) ==
    CASE t = "cli" -> CliRefuses(q, page) [] t \in Xui -> XuiRefuses(q, page)
      [] t \in Plus -> PlusRefuses(t, q, page) [] t = "goahead" -> GoAheadRefuses(q, page)
      [] t = "nsdp" -> FALSE [] t = "snmp" -> SnmpRefuses(q, page, before)

Parse(t, o, g) ==
    CASE t = "cli" -> CliParse(o, g) [] t \in Xui -> XuiParse(t, o, g)
      [] t \in Plus -> PlusParse(t, o, g) [] t = "goahead" -> GoAheadParse(o, g)
      [] t = "nsdp" -> NsdpParse(o, g) [] t = "snmp" -> SnmpParse(o, g)

\* The tables a read depends on.
Concerns(o) ==
    CASE o \in {"ports", "stats"} -> {"port"}
      [] o = "vlans" -> {"vlan"}
      [] o = "pvids" -> {"pvid"}
      [] o = "services" -> {"service"}
      [] OTHER -> {o}

Init ==
    /\ via \in Vias /\ op \in Ops(via)
    /\ sw = Start[via]
    /\ pc = "idle" /\ todo = <<>> /\ got = <<>>
    /\ result = "none" /\ rows = {} /\ reads = 0 /\ moves = 0 /\ since = {Start[via]}

-----------------------------------------------------------------------------
(* The steps of a read. *)

Become(s) == sw' = s /\ since' = since \union {s}

\* Another management interface gives one table other contents.
Move ==
    /\ moves < MaxMoves /\ moves' = moves + 1
    /\ \E f \in Concerns(op) : \E t \in Contents[via][f] :
        t # sw[f] /\ Become([sw EXCEPT ![f] = t])
    /\ UNCHANGED <<via, op, pc, todo, got, result, rows, reads>>

Begin ==
    /\ pc = "idle" /\ reads < MaxReads
    /\ pc' = "ask" /\ reads' = reads + 1
    /\ todo' = First(via, op) /\ got' = <<>>
    /\ since' = {sw}
    /\ UNCHANGED <<sw, via, op, result, rows, moves>>

Return(r, facts) ==
    /\ pc' = "idle" /\ result' = r /\ rows' = facts
    /\ todo' = <<>> /\ got' = <<>>
    /\ UNCHANGED <<via, op, reads, moves>>

\* One request is served; the last page completes the read.
Ask ==
    /\ pc = "ask"
    /\ LET q == Head(todo)
           page == Page(via, q, sw)
           next == Tail(todo) \o More(via, op, q, page, got)
           pages == Append(got, [ask |-> q, page |-> page]) IN
       /\ Become(Leaves(via, q, sw))
       /\ IF Refuses(via, q, page, got) THEN Return("refused", {})
          ELSE IF next = <<>> THEN Return("ok", Parse(via, op, pages))
          ELSE /\ todo' = next /\ got' = pages
               /\ UNCHANGED <<via, op, pc, result, rows, reads, moves>>

\* A request fails; what was read before is dropped.
Fail == pc = "ask" /\ Return("failed", {}) /\ UNCHANGED <<sw, since>>

Next == Begin \/ Ask \/ Fail \/ Move

Spec == Init /\ [][Next]_vars

-----------------------------------------------------------------------------
(* What there is to know of a switch, stated without regard to any page. *)

DetectWord(q) ==
    CASE q.detect = 1 -> "disabled" [] q.detect = Searching -> "searching"
      [] q.detect = Delivering -> "delivering" [] OTHER -> "fault"

AddressFacts(m) == {<<"box", "address", m.address>>, <<"box", "gateway", m.gateway>>}

Facts(o, s) ==
    CASE o \in {"ports", "stats"} -> UNION
            {{<<p, "admin", s.port[p].admin>>, <<p, "link", s.port[p].link>>,
              <<p, "flow", s.port[p].flow>>, <<p, "mode", s.port[p].mode>>,
              <<p, "rx", s.port[p].octets>>, <<p, "tx", s.port[p].sent>>,
              <<p, "frames", s.port[p].frames>>}
             \union {<<p, "speed", n>> : n \in IF s.port[p].link THEN {s.port[p].speed} ELSE {}}
             : p \in Physical}
      [] o = "vlans" -> UNION
            {{<<v, "exists", TRUE>>, <<v, "name", s.vlan[v].name>>} \union
             {<<v, s.vlan[v].mode[p], p>> : p \in {p \in Physical : s.vlan[v].mode[p] # "excluded"}}
             : v \in DOMAIN s.vlan}
      [] o = "pvids" -> {<<p, "pvid", s.pvid[p]>> : p \in Physical}
      [] o = "macs" -> {<<<<m.mac, m.vlan>>, "port",
                          IF m.bridge \in DOMAIN s.bridge THEN s.bridge[m.bridge] ELSE m.bridge>>
                        : m \in s.macs}
      [] o = "lldp" -> UNION
            {{<<<<n.port, n.chassis>>, "chassis", n.chassis>>,
              <<<<n.port, n.chassis>>, "portid", n.portid>>,
              <<<<n.port, n.chassis>>, "sysname", n.name>>} : n \in s.lldp}
      [] o = "poe" -> UNION
            {{<<p, "enabled", s.poe[p].admin>>, <<p, "power", s.poe[p].power>>,
              <<p, "detect", DetectWord(s.poe[p])>>} : p \in DOMAIN s.poe}
      [] o = "sensors" -> UNION
            {{<<<<q.kind, q.name>>, "value", n>> : n \in IF via = "cli" /\ q.kind = "power" THEN {1} ELSE q.raw}
             \union {<<<<q.kind, q.name>>, "healthy", w = "OK">> : w \in
                        IF q.kind = "temperature" THEN {} ELSE {q.state} \ {"N/A"}} : q \in s.sensors}
      [] o = "mgmt" -> {<<"box", "mode", s.mgmt.mode>>, <<"box", "mac", s.mac>>} \union AddressFacts(s.mgmt)
      [] o = "host" -> {<<"box", "host", s.host>>}
      [] o = "syslog" -> {<<0, "enabled", s.syslog.admin>>, <<0, "port", s.syslog.port>>} \union
            UNION {{<<c.index, "host", c.host>>, <<c.index, "severity", c.severity>>,
                    <<c.index, "port", c.port>>, <<c.index, "active", c.active>>}
                   : c \in s.syslog.collectors}
      [] o = "users" -> UNION
            {LET access == IF via = "cli" THEN u.cli ELSE u.http IN
             {<<u.name, "access", access>>} \union
             {<<u.name, "privileged", b>> : b \in Privileged(access)} : u \in s.users}
      [] o = "services" -> UNION
            {{<<w, "enabled", s.service[w].enabled>>} \union
             {<<w, "cliport", n>> : n \in s.service[w].cliport} \union
             {<<w, "webport", n>> : n \in s.service[w].port} : w \in ServiceNames}

\* The attributes an interface has no place for.
Lacks(t, o) ==
    CASE o = "ports" -> {"rx", "tx", "frames"} \union
            IF t = "cli" THEN {} ELSE {"mode"} \union IF t = "goahead" THEN {} ELSE {"flow"}
      [] o = "stats" -> {"admin", "link", "flow", "mode", "speed"} \union
            (CASE t \in Xui -> {"rx", "tx"} [] t = "snmp" -> {} [] OTHER -> {"frames"})
      [] o = "vlans" -> IF t \in Plus \union {"nsdp"} THEN {"name"} ELSE {}
      [] o = "sensors" -> IF t \in {"cli", "snmp"} THEN {"healthy"} ELSE {}
      [] o = "mgmt" -> IF t = "goahead" THEN {"mode"} ELSE {}
      [] o = "services" -> IF t = "cli" THEN {"webport"} ELSE {"cliport"}
      [] OTHER -> {}

\* An empty text is no fact where the parser makes it nil.
DropsBlank(t, attribute) ==
    CASE attribute = "name" -> t # "cli"
      [] attribute \in {"address", "gateway"} -> t \notin Plus
      [] attribute \in {"chassis", "portid", "sysname"} -> TRUE
      [] OTHER -> FALSE

\* Facts an interface leaves out by the value they have.
Omits(t, o, f, s) ==
    \/ DropsBlank(t, f[2]) /\ f[3] = Blank
    \/ o = "lldp" /\ t = "cli" /\ f[1][2] = Blank
    \/ o = "macs" /\ t = "s3300" /\ f[3] \notin Physical
    \/ o = "sensors" /\ t \notin {"cli", "snmp"} /\ f[2] = "value" /\ f[1][1] # "temperature"
    \/ o = "sensors" /\ t = "goahead" /\ f[2] = "value" /\ f[3] = 0
    \/ o = "services" /\ t = "xe" /\ f[2] = "webport" /\ f[1] \in {"http", "telnet"}
    \/ o = "services" /\ t = "m4300" /\ f[2] = "webport" /\ f[1] = "telnet"

\* An M4300 states power in tens of milliwatts.
Rounded(t, o, f) ==
    IF t = "m4300" /\ f[2] = "power" THEN <<f[1], f[2], 10 * ((f[3] + 5) \div 10)>> ELSE f

Reported(t, o, s) ==
    {Rounded(t, o, f) : f \in {f \in Facts(o, s) : f[2] \notin Lacks(t, o) /\ ~Omits(t, o, f, s)}}

\* Known untruths.  The CLI reports a port that has been switched on as disabled
\* once more; a GS105PE and NSDP have no admin state, and their readers say
\* enabled; NSDP has no code for some speeds, and takes such a link for down.
Lagging(t, o, s) == {p \in DOMAIN s.poe : o = "poe" /\ t = "cli" /\ s.poe[p].lag > 0}
Uncoded(t, o, s) ==
    {p \in Physical : o = "ports" /\ t = "nsdp" /\ s.port[p].link
                      /\ s.port[p].speed \notin {10, 100, 1000, 10000}}

Untrue(t, o, s) ==
    {<<p, "enabled", FALSE>> : p \in Lagging(t, o, s)} \union
    {<<p, "detect", "disabled">> : p \in Lagging(t, o, s)} \union
    {<<p, "link", FALSE>> : p \in Uncoded(t, o, s)} \union
    {<<p, "admin", TRUE>> : p \in IF o = "ports" /\ t \in {"gs105pe", "nsdp"} THEN Physical ELSE {}}

\* A fact that an untrue one may stand in for.
Doubtful(t, o, f, s) ==
    \/ \E u \in Untrue(t, o, s) : u[1] = f[1] /\ u[2] = f[2]
    \/ f[2] = "speed" /\ f[1] \in Uncoded(t, o, s)

Certain(s) == {f \in Reported(via, op, s) : ~Doubtful(via, op, f, s)}

Answered == pc = "idle" /\ result = "ok"

\* A switch that no reader of this interface can read: an empty forwarding table or
\* user list of a FASTPATH page, a severity that is no word, no sensor at all, no address at all.
Unreadable(s) ==
    \/ via \in Xui /\ op = "macs" /\ s.macs = {}
    \/ via \in Xui /\ op = "users" /\ s.users = {}
    \/ via = "snmp" /\ op = "sensors" /\ s.sensors = {}
    \/ op = "syslog" /\ \E c \in s.syslog.collectors : c.severity \notin 0..7
    \/ via = "goahead" /\ op = "mgmt" /\ s.mgmt.address = Blank /\ s.mgmt.gateway = Blank

-----------------------------------------------------------------------------
(* Properties. *)

\* Whatever a read returns was true of the switch at some moment of the read,
\* however many pages it was put together from and whatever changed in between;
\* the exceptions are the known untruths (fastpath/parse.go, webui/parse_*.go,
\* nsdp/parse.go).
NothingInvented == Answered =>
    rows \subseteq UNION {Reported(via, op, s) \union Untrue(via, op, s) : s \in since}

\* What was true all through a read, and has a place on the interface, is in its
\* result: no page drops, misplaces or merges rows.  And there is a result, unless
\* the switch changed during the read or is one the interface cannot show
\* (checkFastpathMembershipIsFor, SyslogSeverity, ParseXEMacs,
\* ParseGoAheadMgmtIP, GetSensors).
NothingLost ==
    /\ Answered => {f \in Certain(sw) : \A s \in since : f \in Certain(s)} \subseteq rows
    /\ pc = "idle" /\ result = "refused" =>
            Cardinality(since) > 1 \/ \E s \in since : Unreadable(s)

=============================================================================
