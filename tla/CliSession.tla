------------------------------- MODULE CliSession -------------------------------
(***************************************************************************)
(* The FASTPATH command line: ShellDriver.Run and inMode                    *)
(* (fastpath/session.go), the VLAN operations of fastpath/writer.go that    *)
(* run on them, and the switch's modal shell (virtual/cliface.go).          *)
(*                                                                          *)
(* One interactive shell is shared by every caller of a Switch.  Run types  *)
(* a line and reads until the output so far ends in a prompt; nothing       *)
(* serialises callers, and nothing matches output with the command that     *)
(* caused it.  A write is a script: a `show`, the commands that enter a     *)
(* configuration mode, the commands in it, one `exit` per level entered,    *)
(* and a `show` to verify.  The shell applies a command to whatever mode    *)
(* and port it is in at that moment.                                        *)
(*                                                                          *)
(* The switch may be slower than Run's read deadline.  Over SSH a deadline  *)
(* that fires takes the connection down (ssh.go's Read); over telnet the    *)
(* session lives on and the late output stays in it.                        *)
(***************************************************************************)
EXTENDS Naturals, Sequences

CONSTANTS
    Callers,
    Ports,
    ProtectedPorts,   \* Writer.protectedPorts
    AccessPorts,      \* ports found in `switchport mode access`
    Ops,              \* the operations callers try
    MaxCalls,         \* bound: operations of each caller
    Refusable,        \* commands the firmware may refuse in their own mode
    Inert,            \* commands it may accept and not carry out
    CancelPhases,     \* the phases of a call in which its context may be cancelled
    DeadlineCloses,   \* TRUE: SSH; FALSE: telnet and the console
    NoPort, NoCommand

Modes == {"untagged", "tagged", "excluded"}

\* The writer's operations on one VLAN, and a read of it.
ReadOp == [kind : {"read"}]
CreateOp == [kind : {"create"}]
DeleteOp == [kind : {"delete"}, force : BOOLEAN]
MemberOp == [kind : {"member"}, port : Ports, mode : Modes, force : BOOLEAN]
PvidOp == [kind : {"pvid"}, port : Ports, force : BOOLEAN]
Operation == ReadOp \union CreateOp \union DeleteOp \union MemberOp \union PvidOp

EnterNames == {"configure", "interface", "vlan database"}
DbNames == {"vlan", "vlan name", "no vlan"}
PortNames == {"general", "include", "exclude", "tagging", "no tagging", "pvid"}
Command == [name : EnterNames \union DbNames \union PortNames \union {"show", "exit"},
            port : Ports \union {NoPort}]

ASSUME SessionAssumption ==
    /\ ProtectedPorts \subseteq Ports /\ AccessPorts \subseteq Ports
    /\ Ops \subseteq Operation /\ Ops # {}
    /\ MaxCalls \in Nat
    /\ Refusable \subseteq EnterNames \union DbNames \union PortNames
    /\ Inert \subseteq DbNames \union PortNames
    /\ CancelPhases \subseteq {"before", "enter", "body", "unwind", "after"}
    /\ DeadlineCloses \in BOOLEAN
    /\ NoPort \notin Ports /\ NoCommand \notin Command
    /\ Ports \intersect {"exec", "configure", "vlan database"} = {}

VARIABLES
    op,        \* the operation of each caller's latest call
    phase,     \* where its script is, "idle" between calls
    position,  \* commands of the phase already answered
    entered,   \* inMode's count of levels to leave
    failed,    \* inMode has failed: return its error once unwound
    sent,      \* the command whose output Run is reading, or NoCommand
    cancelled, \* the call's context is done
    result,    \* what each caller's latest call returned
    calls,     \* calls each caller has begun
    alive,     \* the connection is up
    typed,     \* lines on their way to the shell
    output,    \* what the shell has printed and nobody has read
    modes,     \* the shell's mode stack, innermost last
    vlan,      \* the switch: the VLAN's ports, name and port settings
    access,    \* the switch: ports in access mode
    ignored    \* history: the switch has accepted a command and ignored it

callVars == <<op, phase, position, entered, failed, sent, cancelled, result, calls>>
switchVars == <<modes, vlan, access, ignored>>
vars == <<callVars, alive, typed, output, switchVars>>

Table == [state : {"absent", "unnamed", "named"}, member : SUBSET Ports,
          untagged : SUBSET Ports, pvid : SUBSET Ports]
Line == [cmd : Command, for : Operation]
Answer == [cmd : Command, accepted : BOOLEAN, table : Table]

\* The modes the FASTPATH shell can be in: a port stands for its interface mode.
ModeStack == {<<>>, <<"vlan database">>, <<"configure">>}
                \union {<<"configure", p>> : p \in Ports}

TypeOK ==
    /\ op \in [Callers -> Ops]
    /\ phase \in [Callers -> {"idle", "before", "enter", "body", "unwind", "after"}]
    /\ position \in [Callers -> 0..3]
    /\ entered \in [Callers -> 0..2]
    /\ failed \in [Callers -> BOOLEAN]
    /\ sent \in [Callers -> Command \union {NoCommand}]
    /\ cancelled \in [Callers -> BOOLEAN]
    /\ result \in [Callers -> {"none", "ok", "refused", "absent", "mismatch", "failed"}]
    /\ calls \in [Callers -> 0..MaxCalls]
    /\ alive \in BOOLEAN
    /\ \A i \in DOMAIN typed : typed[i] \in Line
    /\ \A i \in DOMAIN output : output[i] \in Answer
    /\ modes \in ModeStack
    /\ vlan \in Table
    /\ access \subseteq Ports
    /\ ignored \in BOOLEAN

NoVlan == [state |-> "absent", member |-> {}, untagged |-> {}, pvid |-> {}]

Init ==
    /\ op = [c \in Callers |-> CHOOSE o \in Ops : TRUE]
    /\ phase = [c \in Callers |-> "idle"]
    /\ position = [c \in Callers |-> 0]
    /\ entered = [c \in Callers |-> 0]
    /\ failed = [c \in Callers |-> FALSE]
    /\ sent = [c \in Callers |-> NoCommand]
    /\ cancelled = [c \in Callers |-> FALSE]
    /\ result = [c \in Callers |-> "none"]
    /\ calls = [c \in Callers |-> 0]
    /\ alive = TRUE /\ typed = <<>> /\ output = <<>>
    /\ modes = <<>>
    /\ vlan \in {NoVlan, [NoVlan EXCEPT !.state = "named"]}
    /\ access = AccessPorts
    /\ ignored = FALSE

-----------------------------------------------------------------------------
(* The scripts of fastpath/writer.go. *)

Plain(name) == [name |-> name, port |-> NoPort]

Enter(o) ==
    CASE o.kind \in {"create", "delete"} -> <<Plain("vlan database")>>
      [] o.kind \in {"member", "pvid"} ->
            <<Plain("configure"), [name |-> "interface", port |-> o.port]>>
      [] OTHER -> <<>>

Body(o) ==
    CASE o.kind = "create" -> <<Plain("vlan"), Plain("vlan name")>>
      [] o.kind = "delete" -> <<Plain("no vlan")>>
      [] o.kind = "pvid" -> <<Plain("general"), Plain("pvid")>>
      [] o.kind = "member" /\ o.mode = "excluded" -> <<Plain("general"), Plain("exclude")>>
      [] o.kind = "member" /\ o.mode # "excluded" ->
            <<Plain("general"), Plain("include"),
              Plain(IF o.mode = "tagged" THEN "tagging" ELSE "no tagging")>>
      [] OTHER -> <<>>

\* Writer.guard, the one refusal before any command.
Refused(o) == o.kind \in {"member", "pvid"} /\ o.port \in ProtectedPorts /\ ~o.force

\* What the first `show` can end a write with: a missing VLAN, and for
\* DeleteVLAN a protected member.
Missing(o, table) == o.kind \in {"member", "pvid", "delete"} /\ table.state = "absent"
Clash(o, table) ==
    o.kind = "delete" /\ ~o.force /\ table.member \intersect ProtectedPorts # {}

PortMode(table, p) ==
    IF p \notin table.member THEN "excluded"
    ELSE IF p \in table.untagged THEN "untagged" ELSE "tagged"

\* Faulty verification: any membership will do.
ReadsMember(o, table) ==
    CASE o.kind = "create" -> table.state # "absent"
      [] o.kind = "member" -> o.port \in table.member <=> o.mode # "excluded"
      [] OTHER -> TRUE

\* The comparisons of verify-after-write.
ReadsBack(o, table) ==
    CASE o.kind = "create" -> table.state = "named"
      [] o.kind = "delete" -> table.state = "absent"
      [] o.kind = "pvid" -> o.port \in table.pvid
      [] o.kind = "member" -> table.state # "absent" /\ PortMode(table, o.port) = o.mode
      [] OTHER -> TRUE

Begin(c, o) ==
    /\ phase[c] = "idle" /\ calls[c] < MaxCalls
    /\ op' = [op EXCEPT ![c] = o]
    /\ calls' = [calls EXCEPT ![c] = @ + 1]
    /\ cancelled' = [cancelled EXCEPT ![c] = FALSE]
    /\ failed' = [failed EXCEPT ![c] = FALSE]
    /\ phase' = [phase EXCEPT ![c] = IF Refused(o) THEN "idle" ELSE "before"]
    /\ result' = [result EXCEPT ![c] = IF Refused(o) THEN "refused" ELSE "none"]
    /\ UNCHANGED <<position, entered, sent, alive, typed, output, switchVars>>

Cancel(c) ==
    /\ phase[c] \in CancelPhases /\ ~cancelled[c]
    /\ cancelled' = [cancelled EXCEPT ![c] = TRUE]
    /\ UNCHANGED <<op, phase, position, entered, failed, sent, result, calls,
                   alive, typed, output, switchVars>>

-----------------------------------------------------------------------------
(* ShellDriver.Run. *)

NextCommand(c) ==
    CASE phase[c] \in {"before", "after"} -> Plain("show")
      [] phase[c] = "enter" -> Enter(op[c])[position[c] + 1]
      [] phase[c] = "body" -> Body(op[c])[position[c] + 1]
      [] phase[c] = "unwind" -> Plain("exit")

\* Run's ctx.Err() check, then writeLine.
Type(c) ==
    /\ phase[c] # "idle" /\ sent[c] = NoCommand
    /\ ~cancelled[c] /\ alive
    /\ sent' = [sent EXCEPT ![c] = NextCommand(c)]
    /\ typed' = Append(typed, [cmd |-> NextCommand(c), for |-> op[c]])
    /\ UNCHANGED <<op, phase, position, entered, failed, cancelled, result, calls,
                   alive, output, switchVars>>

GoTo(c, where) ==
    /\ phase' = [phase EXCEPT ![c] = where]
    /\ position' = [position EXCEPT ![c] = 0]

Return(c, r) ==
    /\ GoTo(c, "idle")
    /\ result' = [result EXCEPT ![c] = r]
    /\ UNCHANGED <<entered, failed>>

\* After the last body command, or an error: leave what was entered.
Leave(c, levels, error) ==
    /\ failed' = [failed EXCEPT ![c] = error]
    /\ entered' = [entered EXCEPT ![c] = levels]
    /\ IF levels > 0 THEN GoTo(c, "unwind") /\ UNCHANGED result
       ELSE /\ GoTo(c, IF error THEN "idle" ELSE "after")
            /\ result' = [result EXCEPT ![c] = IF error THEN "failed" ELSE @]

\* Faulty inMode: a level counts from when its command is sent.
LevelsOnSend(c) == entered[c] + 1
\* Faulty inMode: no exit for the innermost level.
LevelsButOne(c) == IF entered[c] = 0 THEN 0 ELSE entered[c] - 1

\* The levels inMode leaves after an error: those entered with success.
Levels(c) == entered[c]

\* The script goes on after a Run that returned an error, or whose output
\* `run` took for a rejection.  Errors of `exit` are discarded.
OnError(c) ==
    CASE phase[c] \in {"before", "after"} -> Return(c, "failed")
      [] phase[c] \in {"enter", "body"} -> Leave(c, Levels(c), TRUE)
      [] phase[c] = "unwind" -> Leave(c, entered[c] - 1, failed[c])

OnAccepted(c) ==
    CASE phase[c] = "enter" ->
            /\ entered' = [entered EXCEPT ![c] = @ + 1]
            /\ IF position[c] + 1 < Len(Enter(op[c]))
               THEN position' = [position EXCEPT ![c] = @ + 1] /\ UNCHANGED phase
               ELSE GoTo(c, "body")
            /\ UNCHANGED <<failed, result>>
      [] phase[c] = "body" /\ position[c] + 1 < Len(Body(op[c])) ->
            /\ position' = [position EXCEPT ![c] = @ + 1]
            /\ UNCHANGED <<phase, entered, failed, result>>
      [] phase[c] = "body" /\ position[c] + 1 = Len(Body(op[c])) ->
            Leave(c, Levels(c), FALSE)
      [] phase[c] = "unwind" -> Leave(c, entered[c] - 1, failed[c])

\* A `show` before the write, or the whole of a read.
OnTable(c, table) ==
    LET o == op[c] IN
    IF phase[c] = "after" THEN Return(c, IF ReadsBack(o, table) THEN "ok" ELSE "mismatch")
    ELSE IF Missing(o, table) THEN Return(c, "absent")
    ELSE IF Clash(o, table) THEN Return(c, "refused")
    ELSE IF o.kind = "read" THEN Return(c, "ok")
    ELSE /\ GoTo(c, "enter") /\ entered' = [entered EXCEPT ![c] = 0]
         /\ UNCHANGED <<failed, result>>

\* cleanOutput and run: a command was accepted when nothing is left of the
\* output but its own echo and a prompt.
AcceptedBy(text, cmd) == Len(text) = 1 /\ text[1].cmd = cmd /\ text[1].accepted

\* What the parsers make of a `show`: the first table printed, or none.
TableIn(text) ==
    LET shows == {i \in DOMAIN text : text[i].cmd.name = "show"}
    IN  IF shows = {} THEN NoVlan
        ELSE text[CHOOSE i \in shows : \A j \in shows : i <= j].table

\* readUntil returns once the output read so far ends in a prompt: after one
\* answer, or after several that arrived together.
Receive(c) ==
    /\ sent[c] # NoCommand /\ output # <<>> /\ alive
    /\ \E n \in 1..Len(output) :
        LET text == SubSeq(output, 1, n) IN
        /\ output' = SubSeq(output, n + 1, Len(output))
        /\ IF sent[c].name = "show" THEN OnTable(c, TableIn(text))
           ELSE IF AcceptedBy(text, sent[c]) \/ sent[c].name = "exit" THEN OnAccepted(c)
           ELSE OnError(c)
    /\ sent' = [sent EXCEPT ![c] = NoCommand]
    /\ UNCHANGED <<op, cancelled, calls, alive, typed, switchVars>>

\* Run returns an error without typing anything.
Abort(c) ==
    /\ phase[c] # "idle" /\ sent[c] = NoCommand
    /\ cancelled[c] \/ ~alive
    /\ OnError(c)
    /\ UNCHANGED <<op, sent, cancelled, calls, alive, typed, output, switchVars>>

\* Faulty transport: the session survives its deadline.
LateOutput(c) ==
    /\ sent[c] # NoCommand
    /\ OnError(c)
    /\ sent' = [sent EXCEPT ![c] = NoCommand]
    /\ UNCHANGED <<op, cancelled, calls, alive, typed, output, switchVars>>

\* The read deadline fires: the switch was too slow, or the connection is down.
Timeout(c) ==
    /\ sent[c] # NoCommand
    /\ OnError(c)
    /\ sent' = [sent EXCEPT ![c] = NoCommand]
    /\ alive' = (alive /\ ~DeadlineCloses)
    /\ output' = IF DeadlineCloses THEN <<>> ELSE output
    /\ UNCHANGED <<op, cancelled, calls, typed, switchVars>>

-----------------------------------------------------------------------------
(* The switch's shell: CliFace.run. *)

Mode == IF modes = <<>> THEN "exec" ELSE modes[Len(modes)]

\* The mode a command belongs to.  `show` and `exit` are taken in any mode.
InItsMode(cmd) ==
    CASE cmd.name \in {"configure", "vlan database"} -> Mode = "exec"
      [] cmd.name = "interface" -> Mode = "configure"
      [] cmd.name \in DbNames -> Mode = "vlan database"
      [] cmd.name \in PortNames -> Mode \in Ports
      [] OTHER -> TRUE

NeedsVlan(cmd) == cmd.name \in {"vlan name", "no vlan"} \union (PortNames \ {"general"})

Taken(cmd) == InItsMode(cmd) /\ (NeedsVlan(cmd) => vlan.state # "absent")

\* interfaceCommand: in access mode VLAN commands are accepted and inert.
SetPort(cmd, p) ==
    /\ access' = IF cmd.name = "general" THEN access \ {p} ELSE access
    /\ vlan' =
        IF p \in access THEN vlan
        ELSE CASE cmd.name = "include" ->
                    [vlan EXCEPT !.member = @ \union {p}, !.untagged = @ \union {p}]
               [] cmd.name = "exclude" ->
                    [vlan EXCEPT !.member = @ \ {p}, !.untagged = @ \ {p}]
               [] cmd.name = "tagging" -> [vlan EXCEPT !.untagged = @ \ {p}]
               [] cmd.name = "no tagging" -> [vlan EXCEPT !.untagged = @ \union {p}]
               [] cmd.name = "pvid" -> [vlan EXCEPT !.pvid = @ \union {p}]
               [] OTHER -> vlan

\* vlanDBCommand: deleting the VLAN takes its PVIDs back to VLAN 1.
SetVlan(cmd) ==
    /\ vlan' = CASE cmd.name = "vlan" /\ vlan.state = "absent" ->
                        [NoVlan EXCEPT !.state = "unnamed"]
                 [] cmd.name = "vlan name" -> [vlan EXCEPT !.state = "named"]
                 [] cmd.name = "no vlan" -> NoVlan
                 [] OTHER -> vlan
    /\ UNCHANGED access

Apply(cmd) ==
    CASE cmd.name \in {"configure", "vlan database"} ->
            modes' = Append(modes, cmd.name) /\ UNCHANGED <<vlan, access>>
      [] cmd.name = "interface" ->
            modes' = Append(modes, cmd.port) /\ UNCHANGED <<vlan, access>>
      [] cmd.name = "exit" ->
            /\ modes' = IF modes = <<>> THEN modes ELSE SubSeq(modes, 1, Len(modes) - 1)
            /\ UNCHANGED <<vlan, access>>
      [] cmd.name \in PortNames -> SetPort(cmd, Mode) /\ UNCHANGED modes
      [] cmd.name \in DbNames -> SetVlan(cmd) /\ UNCHANGED modes
      [] OTHER -> UNCHANGED <<modes, vlan, access>>

Prompt(cmd, accepted) ==
    output' = IF alive THEN Append(output, [cmd |-> cmd, accepted |-> accepted, table |-> vlan])
              ELSE output

Execute ==
    /\ typed # <<>>
    /\ LET cmd == Head(typed).cmd IN
       /\ Taken(cmd)
       /\ Apply(cmd) /\ Prompt(cmd, TRUE)
    /\ typed' = Tail(typed)
    /\ UNCHANGED <<callVars, alive, ignored>>

\* "accepted, but non-functional" (writer.go:218).
Ignore ==
    /\ typed # <<>>
    /\ LET cmd == Head(typed).cmd IN
       /\ Taken(cmd) /\ cmd.name \in Inert
       /\ Prompt(cmd, TRUE)
    /\ typed' = Tail(typed)
    /\ ignored' = TRUE
    /\ UNCHANGED <<callVars, alive, modes, vlan, access>>

Refuse ==
    /\ typed # <<>>
    /\ LET cmd == Head(typed).cmd IN
       /\ ~Taken(cmd) \/ cmd.name \in Refusable
       /\ Prompt(cmd, FALSE)
    /\ typed' = Tail(typed)
    /\ UNCHANGED <<callVars, alive, switchVars>>

\* The shell of a dropped connection ends, whatever it was still to read.
Hangup ==
    /\ ~alive /\ <<typed, modes>> # <<<<>>, <<>>>>
    /\ typed' = <<>> /\ modes' = <<>>
    /\ UNCHANGED <<callVars, alive, output, vlan, access, ignored>>

Step(c) == Type(c) \/ Abort(c) \/ Timeout(c)

Next ==
    \/ \E c \in Callers :
          \/ \E o \in Ops : Begin(c, o)
          \/ Cancel(c) \/ Step(c) \/ Receive(c)
    \/ Execute \/ Ignore \/ Refuse \/ Hangup

Spec == Init /\ [][Next]_vars

-----------------------------------------------------------------------------
(* Properties. *)

\* inMode (session.go:477-493) "ALWAYS unwinds with one exitCmd per level
\* ACTUALLY entered": between calls the shared shell is back in EXEC mode.
Unwound ==
    /\ alive /\ typed = <<>>
    /\ \A c \in Callers : phase[c] = "idle"
    => modes = <<>>

\* ShellDriver's framing (session.go:226): what Run reads was printed by the
\* command it typed; a finished call leaves nothing behind to be read as the
\* next one's output.
InStep ==
    alive /\ (\A c \in Callers : sent[c] = NoCommand)
    => typed = <<>> /\ output = <<>>

\* What each operation asks of the switch.
Achieved(o) ==
    /\ o.kind = "create" => vlan.state = "named"
    /\ o.kind = "delete" => vlan.state = "absent"
    /\ o.kind = "pvid" => o.port \in vlan.pvid
    /\ o.kind = "member" => PortMode(vlan, o.port) = o.mode

\* Verify-after-write tells the truth (CreateVLAN writer.go:314 to SetPVID
\* writer.go:490): a write returns nil only when the switch holds what it asked
\* for, and WriteVerificationError is no false alarm: thanks to the "MANDATORY
\* prelude" (writer.go:215-222) an access-mode port does not swallow its VLAN
\* commands, so a mismatch means the switch ignored one it had accepted.
VerdictIsTrue ==
    [][\A c \in Callers :
          phase[c] # "idle" /\ phase'[c] = "idle"
          => /\ result'[c] = "ok" => Achieved(op[c])
             /\ result'[c] = "mismatch" => ignored]_vars

=============================================================================
