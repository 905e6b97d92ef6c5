--------------------------- MODULE CliSession_proofs ---------------------------
(***************************************************************************)
(* What holds of CliSession for every set of ports and operations, and      *)
(* whatever the firmware refuses or ignores.  For any number of callers and *)
(* either kind of transport: types, and the shape of each call's script     *)
(* (Shape), which inMode's bookkeeping keeps.  For one caller over SSH      *)
(* whose context is not cancelled inside a configuration mode               *)
(* (OneDialogue): the shell is back in EXEC mode between calls, output      *)
(* stays in step with commands, and the verdict of a write is true.         *)
(*                                                                          *)
(* The second layer of the invariant, Dialogue, ties the shell to the       *)
(* script: at most one line or one answer is under way, the mode stack is   *)
(* the one the levels entered call for, and unless the switch has ignored a *)
(* command the VLAN is where the commands so far were to bring it.          *)
(***************************************************************************)
EXTENDS CliSession, SequenceTheorems, TLAPS

\* The variables of a call that its script moves, in their types.
ScriptOK ==
    /\ phase \in [Callers -> {"idle", "before", "enter", "body", "unwind", "after"}]
    /\ position \in [Callers -> 0..3]
    /\ entered \in [Callers -> 0..2]
    /\ failed \in [Callers -> BOOLEAN]
    /\ result \in [Callers -> {"none", "ok", "refused", "absent", "mismatch", "failed"}]

CallOK ==
    /\ op \in [Callers -> Ops]
    /\ sent \in [Callers -> Command \union {NoCommand}]
    /\ cancelled \in [Callers -> BOOLEAN]
    /\ calls \in [Callers -> 0..MaxCalls]

\* `interface` always names a port.
Proper(cmd) == cmd.name = "interface" => cmd.port \in Ports
ProperLine == {l \in Line : Proper(l.cmd)}

ShellOK ==
    /\ alive \in BOOLEAN
    /\ typed \in Seq(ProperLine) /\ output \in Seq(Answer)
    /\ modes \in ModeStack
    /\ vlan \in Table /\ access \subseteq Ports /\ ignored \in BOOLEAN

StatesOK == ScriptOK /\ CallOK /\ ShellOK

\* Where the script of a call can be: inMode counts the levels it has entered,
\* and what Run is reading for is the next command of the script.
Shape(c) ==
    /\ phase[c] \in {"idle", "before", "after"} => entered[c] = 0
    /\ phase[c] = "enter" => entered[c] = position[c] /\ position[c] < Len(Enter(op[c]))
    /\ phase[c] = "body" => entered[c] = Len(Enter(op[c])) /\ position[c] < Len(Body(op[c]))
    /\ phase[c] = "unwind" => entered[c] > 0 /\ entered[c] <= Len(Enter(op[c]))
    /\ phase[c] = "idle" => sent[c] = NoCommand
    /\ sent[c] # NoCommand => sent[c] = NextCommand(c)

Shaped == StatesOK /\ \A c \in Callers : Shape(c)

-----------------------------------------------------------------------------
(* The scripts. *)

LEMMA OpFields ==
    ASSUME NEW o \in Ops
    PROVE  /\ o.kind \in {"read", "create", "delete", "member", "pvid"}
           /\ o.kind \in {"member", "pvid"} => o.port \in Ports
           /\ o.kind = "member" => o.mode \in Modes
<1>1. o \in Operation
  BY SessionAssumption DEF SessionAssumption
<1>2. CASE o \in ReadOp
  BY <1>2 DEF ReadOp
<1>3. CASE o \in CreateOp
  BY <1>3 DEF CreateOp
<1>4. CASE o \in DeleteOp
  BY <1>4 DEF DeleteOp
<1>5. CASE o \in MemberOp
  BY <1>5 DEF MemberOp
<1>6. CASE o \in PvidOp
  BY <1>6 DEF PvidOp
<1> QED
  BY <1>1, <1>2, <1>3, <1>4, <1>5, <1>6 DEF Operation

LEMMA PlainType ==
    ASSUME NEW n \in EnterNames \union DbNames \union PortNames \union {"show", "exit"}
    PROVE  Plain(n) \in Command /\ Plain(n).name = n
BY DEF Plain, Command

LEMMA Single == ASSUME NEW a PROVE Len(<<a>>) = 1 /\ <<a>>[1] = a
OBVIOUS

LEMMA Pair ==
    ASSUME NEW a, NEW b
    PROVE  Len(<<a, b>>) = 2 /\ <<a, b>>[1] = a /\ <<a, b>>[2] = b
OBVIOUS

LEMMA Triple ==
    ASSUME NEW a, NEW b, NEW d
    PROVE  /\ Len(<<a, b, d>>) = 3
           /\ <<a, b, d>>[1] = a /\ <<a, b, d>>[2] = b /\ <<a, b, d>>[3] = d
OBVIOUS

\* The operations that work in the VLAN database, and those at a port.
Database(o) == o.kind \in {"create", "delete"}
Interface(o) == o.kind \in {"member", "pvid"}

\* The scripts of each kind, a read having none.
LEMMA ReadScripts ==
    ASSUME NEW o, o.kind = "read"
    PROVE  Len(Enter(o)) = 0 /\ Len(Body(o)) = 0
<1>1. /\ o.kind \notin {"create", "delete"} /\ o.kind \notin {"member", "pvid"}
      /\ o.kind # "create" /\ o.kind # "delete" /\ o.kind # "pvid" /\ o.kind # "member"
  OBVIOUS
<1>2. Enter(o) = <<>>
  BY <1>1, Zenon DEF Enter
<1>3. Body(o) = <<>>
  BY <1>1, Zenon DEF Body
<1> QED
  BY <1>2, <1>3

LEMMA EnterDatabase ==
    ASSUME NEW o, Database(o)
    PROVE  /\ Len(Enter(o)) = 1
           /\ Enter(o)[1] = Plain("vlan database")
<1> DEFINE a == Plain("vlan database")
<1>1. Enter(o) = <<a>>
  BY Zenon DEF Enter, Database
<1>2. a = Plain("vlan database")
  OBVIOUS
<1> HIDE DEF a
<1>3. Len(<<a>>) = 1 /\ <<a>>[1] = a
  BY Single
<1> QED
  BY <1>1, <1>2, <1>3

LEMMA EnterPort ==
    ASSUME NEW o, Interface(o)
    PROVE  /\ Len(Enter(o)) = 2
           /\ Enter(o)[1] = Plain("configure")
           /\ Enter(o)[2] = [name |-> "interface", port |-> o.port]
<1> DEFINE a == Plain("configure")
           b == [name |-> "interface", port |-> o.port]
<1>1. o.kind \in {"member", "pvid"} /\ o.kind \notin {"create", "delete"}
  BY DEF Interface
<1>2. Enter(o) = <<a, b>>
  BY <1>1, Zenon DEF Enter
<1>3. a = Plain("configure") /\ b = [name |-> "interface", port |-> o.port]
  OBVIOUS
<1> HIDE DEF a, b
<1>4. /\ Len(<<a, b>>) = 2
      /\ <<a, b>>[1] = a /\ <<a, b>>[2] = b
  BY Pair
<1> QED
  BY <1>2, <1>3, <1>4

LEMMA CreateBody ==
    ASSUME NEW o, o.kind = "create"
    PROVE  /\ Len(Body(o)) = 2
           /\ Body(o)[1] = Plain("vlan") /\ Body(o)[2] = Plain("vlan name")
<1> DEFINE a == Plain("vlan")
           b == Plain("vlan name")
<1>1. Body(o) = <<a, b>>
  BY Zenon DEF Body
<1>2. a = Plain("vlan") /\ b = Plain("vlan name")
  OBVIOUS
<1> HIDE DEF a, b
<1>3. /\ Len(<<a, b>>) = 2
      /\ <<a, b>>[1] = a /\ <<a, b>>[2] = b
  BY Pair
<1> QED
  BY <1>1, <1>2, <1>3

LEMMA DeleteBody ==
    ASSUME NEW o, o.kind = "delete"
    PROVE  /\ Len(Body(o)) = 1
           /\ Body(o)[1] = Plain("no vlan")
<1> DEFINE a == Plain("no vlan")
<1>1. o.kind # "create"
  OBVIOUS
<1>2. Body(o) = <<a>>
  BY <1>1, Zenon DEF Body
<1>3. a = Plain("no vlan")
  OBVIOUS
<1> HIDE DEF a
<1>4. Len(<<a>>) = 1 /\ <<a>>[1] = a
  BY Single
<1> QED
  BY <1>2, <1>3, <1>4

LEMMA PvidBody ==
    ASSUME NEW o, o.kind = "pvid"
    PROVE  /\ Len(Body(o)) = 2
           /\ Body(o)[1] = Plain("general") /\ Body(o)[2] = Plain("pvid")
<1> DEFINE a == Plain("general")
           b == Plain("pvid")
<1>1. o.kind # "create" /\ o.kind # "delete"
  OBVIOUS
<1>2. Body(o) = <<a, b>>
  BY <1>1, Zenon DEF Body
<1>3. a = Plain("general") /\ b = Plain("pvid")
  OBVIOUS
<1> HIDE DEF a, b
<1>4. /\ Len(<<a, b>>) = 2
      /\ <<a, b>>[1] = a /\ <<a, b>>[2] = b
  BY Pair
<1> QED
  BY <1>2, <1>3, <1>4

LEMMA ExcludeBody ==
    ASSUME NEW o, o.kind = "member", o.mode = "excluded"
    PROVE  /\ Len(Body(o)) = 2
           /\ Body(o)[1] = Plain("general") /\ Body(o)[2] = Plain("exclude")
<1> DEFINE a == Plain("general")
           b == Plain("exclude")
<1>1. o.kind # "create" /\ o.kind # "delete" /\ o.kind # "pvid"
  OBVIOUS
<1>2. Body(o) = <<a, b>>
  BY <1>1, Zenon DEF Body
<1>3. a = Plain("general") /\ b = Plain("exclude")
  OBVIOUS
<1> HIDE DEF a, b
<1>4. /\ Len(<<a, b>>) = 2
      /\ <<a, b>>[1] = a /\ <<a, b>>[2] = b
  BY Pair
<1> QED
  BY <1>2, <1>3, <1>4

LEMMA IncludeBody ==
    ASSUME NEW o, o.kind = "member", o.mode # "excluded"
    PROVE  /\ Len(Body(o)) = 3
           /\ Body(o)[1] = Plain("general") /\ Body(o)[2] = Plain("include")
           /\ Body(o)[3] = Plain(IF o.mode = "tagged" THEN "tagging" ELSE "no tagging")
<1> DEFINE a == Plain("general")
           b == Plain("include")
           d == Plain(IF o.mode = "tagged" THEN "tagging" ELSE "no tagging")
<1>1. o.kind # "create" /\ o.kind # "delete" /\ o.kind # "pvid"
  OBVIOUS
<1>2. Body(o) = <<a, b, d>>
  BY <1>1, Zenon DEF Body
<1>3. /\ a = Plain("general") /\ b = Plain("include")
      /\ d = Plain(IF o.mode = "tagged" THEN "tagging" ELSE "no tagging")
  OBVIOUS
<1> HIDE DEF a, b, d
<1>4. /\ Len(<<a, b, d>>) = 3
      /\ <<a, b, d>>[1] = a /\ <<a, b, d>>[2] = b /\ <<a, b, d>>[3] = d
  BY Triple
<1> QED
  BY <1>2, <1>3, <1>4

\* How long scripts are.
LEMMA ScriptLengths ==
    ASSUME NEW o \in Ops
    PROVE  /\ Len(Enter(o)) \in 0..2 /\ Len(Body(o)) \in 0..3
           /\ o.kind # "read" => Len(Enter(o)) > 0 /\ Len(Body(o)) > 0
<1>1. o.kind \in {"read", "create", "delete", "member", "pvid"}
  BY OpFields
<1> DEFINE e == Len(Enter(o))
           b == Len(Body(o))
<1>2. CASE o.kind = "read"
  <2>1. e = 0 /\ b = 0
    BY <1>2, ReadScripts, Zenon
  <2> QED
    BY <1>2, <2>1
<1>3. CASE o.kind = "create"
  <2>1. Database(o)
    BY <1>3 DEF Database
  <2>2. e = 1 /\ b = 2
    BY <1>3, <2>1, EnterDatabase, CreateBody, Zenon
  <2> QED
    BY <2>2
<1>4. CASE o.kind = "delete"
  <2>1. Database(o)
    BY <1>4 DEF Database
  <2>2. e = 1 /\ b = 1
    BY <1>4, <2>1, EnterDatabase, DeleteBody, Zenon
  <2> QED
    BY <2>2
<1>5. CASE o.kind = "pvid"
  <2>1. Interface(o)
    BY <1>5 DEF Interface
  <2>2. e = 2 /\ b = 2
    BY <1>5, <2>1, EnterPort, PvidBody, Zenon
  <2> QED
    BY <2>2
<1>6. CASE o.kind = "member"
  <2>1. Interface(o)
    BY <1>6 DEF Interface
  <2>2. e = 2
    BY <1>6, <2>1, EnterPort, Zenon
  <2>3. b \in {2, 3}
    BY <1>6, ExcludeBody, IncludeBody, Zenon
  <2> QED
    BY <2>2, <2>3
<1> QED
  BY <1>1, <1>2, <1>3, <1>4, <1>5, <1>6

\* The commands of a script are commands, and `interface` names a port.
LEMMA EnterCommands ==
    ASSUME NEW o \in Ops, NEW i \in 1..Len(Enter(o))
    PROVE  /\ Enter(o)[i] \in Command /\ Proper(Enter(o)[i])
           /\ Enter(o)[i].name \in EnterNames
<1>1. /\ o.kind \in {"read", "create", "delete", "member", "pvid"}
      /\ o.kind \in {"member", "pvid"} => o.port \in Ports
  BY OpFields
<1> DEFINE e == Len(Enter(o))
<1>2. ASSUME NEW n \in {"configure", "vlan database"}
      PROVE  Plain(n) \in Command /\ Proper(Plain(n)) /\ Plain(n).name \in EnterNames
  BY DEF Plain, Command, Proper, EnterNames
<1>3. CASE o.kind = "read"
  <2>1. e = 0
    BY <1>3, ReadScripts, Zenon
  <2> QED
    BY <2>1
<1>4. CASE o.kind \in {"create", "delete"}
  <2>1. Database(o)
    BY <1>4 DEF Database
  <2>2. e = 1
    BY <2>1, EnterDatabase, Zenon
  <2>3. Enter(o)[1] = Plain("vlan database")
    BY <2>1, EnterDatabase, Zenon
  <2>4. i = 1
    BY <2>2
  <2> QED
    BY <1>2, <2>3, <2>4
<1>5. CASE o.kind \in {"member", "pvid"}
  <2> DEFINE b == [name |-> "interface", port |-> o.port]
  <2>1. Interface(o)
    BY <1>5 DEF Interface
  <2>2. e = 2
    BY <2>1, EnterPort, Zenon
  <2>3. Enter(o)[1] = Plain("configure") /\ Enter(o)[2] = b
    BY <2>1, EnterPort, Zenon
  <2>4. b \in Command /\ Proper(b) /\ b.name \in EnterNames
    BY <1>1, <1>5 DEF Command, Proper, EnterNames
  <2> HIDE DEF b
  <2>5. i = 1 \/ i = 2
    BY <2>2
  <2> QED
    BY <1>2, <2>3, <2>4, <2>5
<1> QED
  BY <1>1, <1>3, <1>4, <1>5

LEMMA BodyCommands ==
    ASSUME NEW o \in Ops, NEW i \in 1..Len(Body(o))
    PROVE  /\ Body(o)[i] \in Command /\ Proper(Body(o)[i])
           /\ Body(o)[i].name \in DbNames \union PortNames
<1>1. o.kind \in {"read", "create", "delete", "member", "pvid"}
  BY OpFields
<1> DEFINE b == Len(Body(o))
<1>2. ASSUME NEW n \in DbNames \union PortNames
      PROVE  Plain(n) \in Command /\ Proper(Plain(n)) /\ Plain(n).name \in DbNames \union PortNames
  BY DEF Plain, Command, Proper, EnterNames, DbNames, PortNames
<1>3. /\ {"vlan", "vlan name", "no vlan"} \subseteq DbNames \union PortNames
      /\ {"general", "include", "exclude", "tagging", "no tagging", "pvid"}
             \subseteq DbNames \union PortNames
  BY DEF DbNames, PortNames
<1>4. CASE o.kind = "read"
  <2>1. b = 0
    BY <1>4, ReadScripts, Zenon
  <2> QED
    BY <2>1
<1>5. CASE o.kind = "create"
  <2>1. b = 2
    BY <1>5, CreateBody, Zenon
  <2>2. Body(o)[1] = Plain("vlan") /\ Body(o)[2] = Plain("vlan name")
    BY <1>5, CreateBody, Zenon
  <2>3. i = 1 \/ i = 2
    BY <2>1
  <2> QED
    BY <1>3, <1>2, <2>2, <2>3
<1>6. CASE o.kind = "delete"
  <2>1. b = 1
    BY <1>6, DeleteBody, Zenon
  <2>2. Body(o)[1] = Plain("no vlan")
    BY <1>6, DeleteBody, Zenon
  <2>3. i = 1
    BY <2>1
  <2> QED
    BY <1>3, <1>2, <2>2, <2>3
<1>7. CASE o.kind = "pvid"
  <2>1. b = 2
    BY <1>7, PvidBody, Zenon
  <2>2. Body(o)[1] = Plain("general") /\ Body(o)[2] = Plain("pvid")
    BY <1>7, PvidBody, Zenon
  <2>3. i = 1 \/ i = 2
    BY <2>1
  <2> QED
    BY <1>3, <1>2, <2>2, <2>3
<1>8. CASE o.kind = "member" /\ o.mode = "excluded"
  <2>1. b = 2
    BY <1>8, ExcludeBody, Zenon
  <2>2. Body(o)[1] = Plain("general") /\ Body(o)[2] = Plain("exclude")
    BY <1>8, ExcludeBody, Zenon
  <2>3. i = 1 \/ i = 2
    BY <2>1
  <2> QED
    BY <1>3, <1>2, <2>2, <2>3
<1>9. CASE o.kind = "member" /\ o.mode # "excluded"
  <2> DEFINE n == IF o.mode = "tagged" THEN "tagging" ELSE "no tagging"
  <2>1. b = 3
    BY <1>9, IncludeBody, Zenon
  <2>2. Body(o)[1] = Plain("general") /\ Body(o)[2] = Plain("include")
        /\ Body(o)[3] = Plain(n)
    BY <1>9, IncludeBody, Zenon
  <2>3. n \in {"tagging", "no tagging"}
    OBVIOUS
  <2> HIDE DEF n
  <2>4. i = 1 \/ i = 2 \/ i = 3
    BY <2>1
  <2> QED
    BY <1>3, <1>2, <2>2, <2>3, <2>4
<1> QED
  BY <1>1, <1>4, <1>5, <1>6, <1>7, <1>8, <1>9

\* What Run types next, by the phase of the call.
LEMMA NextIs ==
    ASSUME StatesOK, NEW c \in Callers, Shape(c), phase[c] # "idle"
    PROVE  /\ NextCommand(c) \in Command /\ Proper(NextCommand(c))
           /\ phase[c] \in {"before", "after"} => NextCommand(c).name = "show"
           /\ phase[c] = "enter" => NextCommand(c).name \in EnterNames
           /\ phase[c] = "body" => NextCommand(c).name \in DbNames \union PortNames
           /\ phase[c] = "unwind" => NextCommand(c).name = "exit"
<1> DEFINE n == position[c] + 1
<1>1. /\ phase[c] \in {"idle", "before", "enter", "body", "unwind", "after"}
      /\ position[c] \in 0..3 /\ n \in 1..4 /\ op[c] \in Ops
  BY DEF StatesOK, ScriptOK, CallOK
<1>2. Len(Enter(op[c])) \in 0..2 /\ Len(Body(op[c])) \in 0..3
  BY <1>1, ScriptLengths
<1>3. ASSUME NEW name \in {"show", "exit"}
      PROVE  Plain(name) \in Command /\ Proper(Plain(name)) /\ Plain(name).name = name
  BY DEF Plain, Command, Proper
<1>4. CASE phase[c] \in {"before", "after"}
  <2>1. NextCommand(c) = Plain("show")
    BY <1>4, Zenon DEF NextCommand
  <2> QED
    BY <1>3, <1>4, <2>1
<1>5. CASE phase[c] = "enter"
  <2>1. phase[c] \notin {"before", "after"} /\ phase[c] # "body" /\ phase[c] # "unwind"
    BY <1>5
  <2>2. NextCommand(c) = Enter(op[c])[n]
    BY <1>5, <2>1, Zenon DEF NextCommand
  <2>3. position[c] < Len(Enter(op[c]))
    BY <1>5 DEF Shape
  <2>4. n \in 1..Len(Enter(op[c]))
    BY <1>1, <1>2, <2>3
  <2> HIDE DEF n
  <2>5. /\ Enter(op[c])[n] \in Command /\ Proper(Enter(op[c])[n])
        /\ Enter(op[c])[n].name \in EnterNames
    BY <1>1, <2>4, EnterCommands, Zenon
  <2> QED
    BY <1>5, <2>2, <2>5
<1>6. CASE phase[c] = "body"
  <2>1. phase[c] \notin {"before", "after"} /\ phase[c] # "enter" /\ phase[c] # "unwind"
    BY <1>6
  <2>2. NextCommand(c) = Body(op[c])[n]
    BY <1>6, <2>1, Zenon DEF NextCommand
  <2>3. position[c] < Len(Body(op[c]))
    BY <1>6 DEF Shape
  <2>4. n \in 1..Len(Body(op[c]))
    BY <1>1, <1>2, <2>3
  <2> HIDE DEF n
  <2>5. /\ Body(op[c])[n] \in Command /\ Proper(Body(op[c])[n])
        /\ Body(op[c])[n].name \in DbNames \union PortNames
    BY <1>1, <2>4, BodyCommands, Zenon
  <2> QED
    BY <1>6, <2>2, <2>5
<1>7. CASE phase[c] = "unwind"
  <2>1. phase[c] \notin {"before", "after"} /\ phase[c] # "enter" /\ phase[c] # "body"
    BY <1>7
  <2>2. NextCommand(c) = Plain("exit")
    BY <1>7, <2>1, Zenon DEF NextCommand
  <2> QED
    BY <1>3, <1>7, <2>2
<1> QED
  BY <1>1, <1>4, <1>5, <1>6, <1>7

-----------------------------------------------------------------------------
(* What Run's result does to the script of the call. *)

\* The calls of all other callers are as they were.
OthersKept(c) ==
    \A d \in Callers \ {c} :
        /\ op'[d] = op[d] /\ phase'[d] = phase[d] /\ position'[d] = position[d]
        /\ entered'[d] = entered[d] /\ failed'[d] = failed[d] /\ sent'[d] = sent[d]
        /\ cancelled'[d] = cancelled[d] /\ result'[d] = result[d]

ScriptsKept(c) ==
    \A d \in Callers \ {c} :
        /\ phase'[d] = phase[d] /\ position'[d] = position[d]
        /\ entered'[d] = entered[d] /\ failed'[d] = failed[d] /\ result'[d] = result[d]

Errors == {"ok", "refused", "absent", "mismatch", "failed"}

Returned(c, r) ==
    /\ phase'[c] = "idle" /\ result'[c] = r
    /\ entered'[c] = entered[c] /\ failed'[c] = failed[c]

Left(c, levels, error) ==
    /\ entered'[c] = levels /\ failed'[c] = error
    /\ levels > 0 => phase'[c] = "unwind" /\ result'[c] = result[c]
    /\ levels = 0 /\ error => phase'[c] = "idle" /\ result'[c] = "failed"
    /\ levels = 0 /\ ~error => phase'[c] = "after" /\ result'[c] = result[c]

LEMMA ReturnMoves ==
    ASSUME ScriptOK, NEW c \in Callers, NEW r \in Errors, Return(c, r)
    PROVE  ScriptOK' /\ ScriptsKept(c) /\ Returned(c, r)
<1>1. /\ phase' = [phase EXCEPT ![c] = "idle"] /\ position' = [position EXCEPT ![c] = 0]
      /\ result' = [result EXCEPT ![c] = r] /\ entered' = entered /\ failed' = failed
  BY DEF Return, GoTo
<1>2. r \in {"none", "ok", "refused", "absent", "mismatch", "failed"}
  BY DEF Errors
<1>3. ScriptOK'
  BY <1>1, <1>2 DEF ScriptOK
<1>4. ScriptsKept(c)
  BY <1>1 DEF ScriptOK, ScriptsKept
<1>5. Returned(c, r)
  BY <1>1 DEF ScriptOK, Returned
<1> QED
  BY <1>3, <1>4, <1>5

LEMMA LeaveMoves ==
    ASSUME ScriptOK, NEW c \in Callers, NEW n \in 0..2, NEW error \in BOOLEAN,
           Leave(c, n, error)
    PROVE  ScriptOK' /\ ScriptsKept(c) /\ Left(c, n, error)
<1>1. failed' = [failed EXCEPT ![c] = error] /\ entered' = [entered EXCEPT ![c] = n]
  BY DEF Leave
<1>2. CASE n > 0
  <2>1. /\ phase' = [phase EXCEPT ![c] = "unwind"] /\ position' = [position EXCEPT ![c] = 0]
        /\ result' = result
    BY <1>2 DEF Leave, GoTo
  <2>2. ScriptOK'
    BY <1>1, <2>1 DEF ScriptOK
  <2>3. ScriptsKept(c)
    BY <1>1, <2>1 DEF ScriptOK, ScriptsKept
  <2>4. Left(c, n, error)
    BY <1>1, <1>2, <2>1 DEF ScriptOK, Left
  <2> QED
    BY <2>2, <2>3, <2>4
<1>3. CASE ~(n > 0) /\ error
  <2>1. /\ phase' = [phase EXCEPT ![c] = "idle"] /\ position' = [position EXCEPT ![c] = 0]
        /\ result' = [result EXCEPT ![c] = "failed"]
    BY <1>3 DEF Leave, GoTo
  <2>2. ScriptOK'
    BY <1>1, <2>1 DEF ScriptOK
  <2>3. ScriptsKept(c)
    BY <1>1, <2>1 DEF ScriptOK, ScriptsKept
  <2>4. Left(c, n, error)
    BY <1>1, <1>3, <2>1 DEF ScriptOK, Left
  <2> QED
    BY <2>2, <2>3, <2>4
<1>4. CASE ~(n > 0) /\ ~error
  <2>1. /\ phase' = [phase EXCEPT ![c] = "after"] /\ position' = [position EXCEPT ![c] = 0]
        /\ result' = [result EXCEPT ![c] = result[c]]
    BY <1>4 DEF Leave, GoTo
  <2>2. ScriptOK'
    BY <1>1, <2>1 DEF ScriptOK
  <2>3. ScriptsKept(c)
    BY <1>1, <2>1 DEF ScriptOK, ScriptsKept
  <2>4. Left(c, n, error)
    BY <1>1, <1>4, <2>1 DEF ScriptOK, Left
  <2> QED
    BY <2>2, <2>3, <2>4
<1> QED
  BY <1>2, <1>3, <1>4

LEMMA ErrorMoves ==
    ASSUME ScriptOK, NEW c \in Callers, Shape(c), phase[c] # "idle", OnError(c)
    PROVE  /\ ScriptOK' /\ ScriptsKept(c)
           /\ phase[c] \in {"before", "after"} => Returned(c, "failed")
           /\ phase[c] \in {"enter", "body"} => Left(c, entered[c], TRUE)
           /\ phase[c] = "unwind" => Left(c, entered[c] - 1, failed[c])
<1>1. /\ phase[c] \in {"idle", "before", "enter", "body", "unwind", "after"}
      /\ entered[c] \in 0..2 /\ failed[c] \in BOOLEAN
  BY DEF ScriptOK
<1>2. CASE phase[c] \in {"before", "after"}
  <2>1. phase[c] \notin {"enter", "body"} /\ phase[c] # "unwind"
    BY <1>2
  <2>2. Return(c, "failed")
    BY <1>2, <2>1, Zenon DEF OnError
  <2> QED
    BY <2>1, <2>2, ReturnMoves DEF Errors
<1>3. CASE phase[c] \in {"enter", "body"}
  <2>1. phase[c] \notin {"before", "after"} /\ phase[c] # "unwind"
    BY <1>3
  <2>2. Leave(c, entered[c], TRUE)
    BY <1>3, <2>1, Zenon DEF OnError, Levels
  <2> QED
    BY <1>1, <2>1, <2>2, LeaveMoves
<1>4. CASE phase[c] = "unwind"
  <2> DEFINE n == entered[c] - 1
  <2>1. phase[c] \notin {"before", "after"} /\ phase[c] \notin {"enter", "body"}
    BY <1>4
  <2>2. Leave(c, n, failed[c])
    BY <1>4, <2>1, Zenon DEF OnError
  <2>3. n \in 0..2
    BY <1>1, <1>4 DEF Shape
  <2> HIDE DEF n
  <2>4. ScriptOK' /\ ScriptsKept(c) /\ Left(c, n, failed[c])
    BY <1>1, <2>2, <2>3, LeaveMoves
  <2> QED
    BY <2>1, <2>4 DEF n
<1> QED
  BY <1>1, <1>2, <1>3, <1>4

\* An accepted command takes the script one step on, or out of its mode.
Advanced(c) ==
    /\ failed'[c] = failed[c] /\ result'[c] = result[c]
    /\ phase[c] = "enter" =>
          /\ entered'[c] = entered[c] + 1
          /\ \/ phase'[c] = "enter" /\ position'[c] = position[c] + 1
                /\ position[c] + 1 < Len(Enter(op[c]))
             \/ phase'[c] = "body" /\ position'[c] = 0
                /\ ~(position[c] + 1 < Len(Enter(op[c])))
    /\ phase[c] = "body" =>
          /\ entered'[c] = entered[c]
          /\ phase'[c] = "body" /\ position'[c] = position[c] + 1
          /\ position[c] + 1 < Len(Body(op[c]))

LEMMA AcceptedMoves ==
    ASSUME StatesOK, NEW c \in Callers, Shape(c),
           phase[c] \in {"enter", "body", "unwind"}, OnAccepted(c)
    PROVE  /\ ScriptOK' /\ ScriptsKept(c)
           /\ phase[c] = "enter" => Advanced(c)
           /\ phase[c] = "body" =>
                 \/ Advanced(c)
                 \/ Left(c, entered[c], FALSE) /\ position[c] + 1 = Len(Body(op[c]))
           /\ phase[c] = "unwind" => Left(c, entered[c] - 1, failed[c])
<1> DEFINE e == Len(Enter(op[c]))
           b == Len(Body(op[c]))
<1>1. /\ entered[c] \in 0..2 /\ position[c] \in 0..3 /\ failed[c] \in BOOLEAN
      /\ op[c] \in Ops /\ ScriptOK
  BY DEF StatesOK, ScriptOK, CallOK
<1>2. e \in 0..2 /\ b \in 0..3
  BY <1>1, ScriptLengths
<1>3. CASE phase[c] = "enter"
  <2>1. phase[c] # "body" /\ phase[c] # "unwind"
    BY <1>3
  <2>2. /\ entered' = [entered EXCEPT ![c] = @ + 1]
        /\ IF position[c] + 1 < e
           THEN position' = [position EXCEPT ![c] = @ + 1] /\ UNCHANGED phase
           ELSE GoTo(c, "body")
        /\ UNCHANGED <<failed, result>>
    BY <1>3, <2>1, Zenon DEF OnAccepted
  <2>3. entered[c] = position[c] /\ position[c] < e
    BY <1>3 DEF Shape
  <2>4. entered[c] + 1 \in 0..2
    <3> HIDE DEF e
    <3> QED
      BY <1>1, <1>2, <2>3
  <2>5. CASE position[c] + 1 < e
    <3>1. position' = [position EXCEPT ![c] = @ + 1] /\ phase' = phase
      BY <2>2, <2>5
    <3>2. position[c] + 1 \in 0..3
      <4> HIDE DEF e, b
      <4> QED
        BY <1>1, <1>2, <2>5
    <3>3. ScriptOK'
      BY <1>1, <2>2, <2>4, <3>1, <3>2 DEF ScriptOK
    <3>4. ScriptsKept(c)
      BY <1>1, <2>2, <3>1 DEF ScriptOK, ScriptsKept
    <3>5. Advanced(c)
      BY <1>1, <1>3, <2>2, <2>5, <3>1 DEF ScriptOK, Advanced
    <3> QED
      BY <1>3, <3>3, <3>4, <3>5
  <2>6. CASE ~(position[c] + 1 < e)
    <3>1. position' = [position EXCEPT ![c] = 0] /\ phase' = [phase EXCEPT ![c] = "body"]
      BY <2>2, <2>6 DEF GoTo
    <3>2. ScriptOK'
      BY <1>1, <2>2, <2>4, <3>1 DEF ScriptOK
    <3>3. ScriptsKept(c)
      BY <1>1, <2>2, <3>1 DEF ScriptOK, ScriptsKept
    <3>4. Advanced(c)
      BY <1>1, <1>3, <2>2, <2>6, <3>1 DEF ScriptOK, Advanced
    <3> QED
      BY <1>3, <3>2, <3>3, <3>4
  <2> QED
    BY <2>5, <2>6
<1>4. CASE phase[c] = "body"
  <2>1. phase[c] # "enter" /\ phase[c] # "unwind"
    BY <1>4
  <2>2. position[c] < b
    BY <1>4 DEF Shape
  <2>3. CASE position[c] + 1 < b
    <3>1. position[c] + 1 # b
      <4> HIDE DEF b
      <4> QED
        BY <1>1, <1>2, <2>3
    <3>2. /\ position' = [position EXCEPT ![c] = @ + 1]
          /\ phase' = phase /\ entered' = entered /\ failed' = failed /\ result' = result
      BY <1>4, <2>1, <2>3, <3>1, Zenon DEF OnAccepted
    <3>3. position[c] + 1 \in 0..3
      <4> HIDE DEF e, b
      <4> QED
        BY <1>1, <1>2, <2>3
    <3>4. ScriptOK'
      BY <1>1, <3>2, <3>3 DEF ScriptOK
    <3>5. ScriptsKept(c)
      BY <1>1, <3>2 DEF ScriptOK, ScriptsKept
    <3>6. Advanced(c)
      BY <1>1, <1>4, <2>3, <3>2 DEF ScriptOK, Advanced
    <3> QED
      BY <1>4, <3>4, <3>5, <3>6
  <2>4. CASE position[c] + 1 = b
    <3>1. ~(position[c] + 1 < b)
      <4> HIDE DEF b
      <4> QED
        BY <1>1, <1>2, <2>4
    <3>2. Leave(c, entered[c], FALSE)
      BY <1>4, <2>1, <2>4, <3>1, Zenon DEF OnAccepted, Levels
    <3> QED
      BY <1>1, <1>4, <2>4, <3>2, LeaveMoves
  <2>5. position[c] + 1 < b \/ position[c] + 1 = b
    <3> HIDE DEF b
    <3> QED
      BY <1>1, <1>2, <2>2
  <2> QED
    BY <2>3, <2>4, <2>5
<1>5. CASE phase[c] = "unwind"
  <2> DEFINE n == entered[c] - 1
  <2>1. phase[c] # "enter" /\ phase[c] # "body"
    BY <1>5
  <2>2. Leave(c, n, failed[c])
    BY <1>5, <2>1, Zenon DEF OnAccepted
  <2>3. n \in 0..2
    BY <1>1, <1>5 DEF Shape
  <2> HIDE DEF n
  <2>4. ScriptOK' /\ ScriptsKept(c) /\ Left(c, n, failed[c])
    BY <1>1, <2>2, <2>3, LeaveMoves
  <2> QED
    BY <1>5, <2>1, <2>4 DEF n
<1> QED
  BY <1>3, <1>4, <1>5

\* A `show` ends the call, or begins the write.
Began(c) ==
    /\ phase'[c] = "enter" /\ position'[c] = 0 /\ entered'[c] = 0
    /\ failed'[c] = failed[c] /\ result'[c] = result[c]

LEMMA TableMoves ==
    ASSUME ScriptOK, NEW c \in Callers, phase[c] \in {"before", "after"},
           NEW table, OnTable(c, table)
    PROVE  /\ ScriptOK' /\ ScriptsKept(c)
           /\ phase[c] = "after" =>
                 Returned(c, IF ReadsBack(op[c], table) THEN "ok" ELSE "mismatch")
           /\ phase[c] = "before" =>
                 \/ Returned(c, "absent") \/ Returned(c, "refused")
                 \/ Returned(c, "ok") /\ op[c].kind = "read"
                 \/ Began(c) /\ op[c].kind # "read"
<1>1. CASE phase[c] = "after"
  <2> DEFINE r == IF ReadsBack(op[c], table) THEN "ok" ELSE "mismatch"
  <2>1. Return(c, r)
    BY <1>1, Zenon DEF OnTable
  <2>2. r \in Errors
    BY DEF Errors
  <2>3. phase[c] # "before"
    BY <1>1
  <2> HIDE DEF r
  <2>4. ScriptOK' /\ ScriptsKept(c) /\ Returned(c, r)
    BY <2>1, <2>2, ReturnMoves
  <2> QED
    BY <2>3, <2>4 DEF r
<1>2. CASE phase[c] = "before"
  <2>1. phase[c] # "after"
    BY <1>2
  <2>2. "absent" \in Errors /\ "refused" \in Errors /\ "ok" \in Errors
    BY DEF Errors
  <2>3. \/ Return(c, "absent") \/ Return(c, "refused")
        \/ Return(c, "ok") /\ op[c].kind = "read"
        \/ /\ GoTo(c, "enter") /\ entered' = [entered EXCEPT ![c] = 0]
           /\ UNCHANGED <<failed, result>> /\ op[c].kind # "read"
    BY <2>1, Zenon DEF OnTable
  <2>4. ASSUME Return(c, "absent") PROVE ScriptOK' /\ ScriptsKept(c) /\ Returned(c, "absent")
    BY <2>2, <2>4, ReturnMoves
  <2>5. ASSUME Return(c, "refused") PROVE ScriptOK' /\ ScriptsKept(c) /\ Returned(c, "refused")
    BY <2>2, <2>5, ReturnMoves
  <2>6. ASSUME Return(c, "ok") PROVE ScriptOK' /\ ScriptsKept(c) /\ Returned(c, "ok")
    BY <2>2, <2>6, ReturnMoves
  <2>7. ASSUME GoTo(c, "enter"), entered' = [entered EXCEPT ![c] = 0],
               UNCHANGED <<failed, result>>
        PROVE  ScriptOK' /\ ScriptsKept(c) /\ Began(c)
    <3>1. /\ phase' = [phase EXCEPT ![c] = "enter"] /\ position' = [position EXCEPT ![c] = 0]
          /\ entered' = [entered EXCEPT ![c] = 0] /\ failed' = failed /\ result' = result
      BY <2>7 DEF GoTo
    <3>2. ScriptOK'
      BY <3>1 DEF ScriptOK
    <3>3. ScriptsKept(c)
      BY <3>1 DEF ScriptOK, ScriptsKept
    <3>4. Began(c)
      BY <3>1 DEF ScriptOK, Began
    <3> QED
      BY <3>2, <3>3, <3>4
  <2> QED
    BY <2>1, <2>3, <2>4, <2>5, <2>6, <2>7, Zenon
<1> QED
  BY <1>1, <1>2

-----------------------------------------------------------------------------
(* The shell. *)

LEMMA OnlySingle ==
    ASSUME NEW S, NEW s \in Seq(S), Len(s) = 1
    PROVE  s[1] \in S /\ s = <<s[1]>>
<1>1. s[1] \in S
  BY ElementOfSeq
<1> DEFINE a == s[1]
           t == <<a>>
<1>2. t \in Seq(S) /\ Len(t) = 1 /\ t[1] = s[1]
  BY <1>1, Single
<1>3. \A i \in 1..Len(s) : s[i] = t[i]
  BY <1>2
<1> HIDE DEF t
<1>4. s = t
  BY <1>2, <1>3, SeqEqual
<1> QED
  BY <1>1, <1>4 DEF t

LEMMA OnlyPair ==
    ASSUME NEW S, NEW s \in Seq(S), NEW a \in S, NEW b \in S,
           Len(s) = 2, s[1] = a, s[2] = b
    PROVE  s = <<a, b>>
<1> DEFINE t == <<a, b>>
<1>1. t \in Seq(S) /\ Len(t) = 2 /\ t[1] = a /\ t[2] = b
  BY Pair
<1> HIDE DEF t
<1>2. \A i \in 1..Len(s) : s[i] = t[i]
  BY <1>1
<1>3. s = t
  BY <1>1, <1>2, SeqEqual
<1> QED
  BY <1>3 DEF t

LEMMA AppendSecond ==
    ASSUME NEW S, NEW s \in Seq(S), NEW a \in S, NEW b \in S
    PROVE  Len(s) = 1 /\ s[1] = a => Append(s, b) = <<a, b>>
<1> DEFINE t == Append(s, b)
<1>1. t \in Seq(S)
  BY AppendProperties
<1>2. Len(t) = Len(s) + 1
  BY AppendProperties
<1>3. \A i \in 1..Len(s) : t[i] = s[i]
  BY AppendProperties
<1>4. t[Len(s) + 1] = b
  BY AppendProperties
<1> HIDE DEF t
<1>5. Len(s) = 1 /\ s[1] = a => Len(t) = 2 /\ t[1] = a /\ t[2] = b
  BY <1>2, <1>3, <1>4
<1>6. Len(s) = 1 /\ s[1] = a => t = <<a, b>>
  BY <1>1, <1>5, OnlyPair
<1> QED
  BY <1>6 DEF t

LEMMA PushPop ==
    ASSUME NEW a, NEW b
    PROVE  /\ Append(<<>>, a) = <<a>> /\ Append(<<a>>, b) = <<a, b>>
           /\ SubSeq(<<a>>, 1, 0) = <<>> /\ SubSeq(<<a, b>>, 1, 1) = <<a>>
           /\ <<a>> # <<>> /\ <<a, b>> # <<>> /\ <<a, b>> # <<a>>
<1> DEFINE S == {a, b}
           s == <<a>>
           t == <<a, b>>
<1>1. Append(<<>>, a) = <<a>>
  OBVIOUS
<1>2. a \in S /\ b \in S
  OBVIOUS
<1>3. s \in Seq(S) /\ Len(s) = 1 /\ s[1] = a
  BY Single
<1>4. t \in Seq(S) /\ Len(t) = 2 /\ t[1] = a /\ t[2] = b
  BY Pair
<1>5. Len(<<>>) = 0
  OBVIOUS
<1>6. s # <<>> /\ t # <<>> /\ t # s
  BY <1>3, <1>4, <1>5
<1>7. SubSeq(s, 1, 0) = <<>>
  OBVIOUS
<1> HIDE DEF S, s, t
<1>8. Append(s, b) = <<a, b>>
  BY <1>2, <1>3, AppendSecond
<1>9. SubSeq(t, 1, 1) = <<a>>
  <2> DEFINE u == SubSeq(t, 1, 1)
  <2>1. \A i \in 1..1 : t[i] \in S
    BY <1>2, <1>4
  <2>2. /\ u \in Seq(S) /\ Len(u) = IF 1 <= 1 THEN 1 - 1 + 1 ELSE 0
        /\ \A i \in 1..1 - 1 + 1 : u[i] = t[1 + i - 1]
    BY <2>1, SubSeqProperties
  <2>3. Len(u) = 1 /\ u[1] = a
    BY <1>4, <2>2
  <2> HIDE DEF u
  <2>4. u = <<u[1]>>
    BY <2>2, <2>3, OnlySingle
  <2> QED
    BY <2>3, <2>4 DEF u
<1> QED
  BY <1>1, <1>6, <1>7, <1>8, <1>9, Zenon DEF s, t

\* The innermost mode tells the whole stack, a port being no name of a mode.
LEMMA ModeIs ==
    ASSUME modes \in ModeStack
    PROVE  /\ modes = <<>> => Mode = "exec"
           /\ modes = <<"vlan database">> => Mode = "vlan database"
           /\ modes = <<"configure">> => Mode = "configure"
           /\ \A p \in Ports : modes = <<"configure", p>> => Mode = p
           /\ \/ modes = <<>> \/ modes = <<"vlan database">> \/ modes = <<"configure">>
              \/ \E p \in Ports : modes = <<"configure", p>>
<1>1. modes = <<>> => Mode = "exec"
  BY Zenon DEF Mode
<1>2. ASSUME NEW a, modes = <<a>> PROVE Mode = a
  <2>1. modes # <<>> /\ Len(modes) = 1 /\ modes[1] = a
    BY <1>2, PushPop, Single
  <2>2. Mode = modes[Len(modes)]
    BY <2>1, Zenon DEF Mode
  <2> QED
    BY <2>1, <2>2
<1>3. ASSUME NEW p \in Ports, modes = <<"configure", p>> PROVE Mode = p
  <2>1. modes # <<>> /\ Len(modes) = 2 /\ modes[2] = p
    BY <1>3, PushPop, Pair
  <2>2. Mode = modes[Len(modes)]
    BY <2>1, Zenon DEF Mode
  <2> QED
    BY <2>1, <2>2
<1>4. \/ modes = <<>> \/ modes = <<"vlan database">> \/ modes = <<"configure">>
      \/ \E p \in Ports : modes = <<"configure", p>>
  BY DEF ModeStack
<1>5. modes = <<"vlan database">> => Mode = "vlan database"
  BY <1>2, Zenon
<1>6. modes = <<"configure">> => Mode = "configure"
  BY <1>2, Zenon
<1> QED
  BY <1>1, <1>3, <1>4, <1>5, <1>6, Zenon

LEMMA StackOf ==
    ASSUME modes \in ModeStack
    PROVE  /\ Mode = "exec" => modes = <<>>
           /\ Mode = "configure" => modes = <<"configure">>
           /\ Mode = "vlan database" => modes = <<"vlan database">>
           /\ Mode \in Ports => modes = <<"configure", Mode>>
<1>1. \A p \in Ports : p # "exec" /\ p # "configure" /\ p # "vlan database"
  BY SessionAssumption DEF SessionAssumption
<1>2. CASE modes = <<>>
  <2>1. Mode = "exec"
    BY <1>2, ModeIs, Zenon
  <2> QED
    BY <1>1, <1>2, <2>1
<1>3. CASE modes = <<"vlan database">>
  <2>1. Mode = "vlan database"
    BY <1>3, ModeIs, Zenon
  <2> QED
    BY <1>1, <1>3, <2>1
<1>4. CASE modes = <<"configure">>
  <2>1. Mode = "configure"
    BY <1>4, ModeIs, Zenon
  <2> QED
    BY <1>1, <1>4, <2>1
<1>5. ASSUME NEW p \in Ports, modes = <<"configure", p>>
      PROVE  Mode = p
  BY <1>5, ModeIs, Zenon
<1>6. \/ modes = <<>> \/ modes = <<"vlan database">> \/ modes = <<"configure">>
      \/ \E p \in Ports : modes = <<"configure", p>>
  BY ModeIs, Zenon
<1>7. CASE \E p \in Ports : modes = <<"configure", p>>
  <2>1. PICK p \in Ports : modes = <<"configure", p>>
    BY <1>7
  <2>2. Mode = p
    BY <1>5, <2>1, Zenon
  <2>3. p # "exec" /\ p # "configure" /\ p # "vlan database"
    BY <1>1
  <2> QED
    BY <2>1, <2>2, <2>3, Zenon
<1> QED
  BY <1>2, <1>3, <1>4, <1>6, <1>7, Zenon

\* The kinds of commands exclude each other.
LEMMA NameKinds ==
    ASSUME NEW cmd \in Command
    PROVE  /\ \/ cmd.name \in {"configure", "vlan database"} \/ cmd.name = "interface"
              \/ cmd.name \in DbNames \/ cmd.name \in PortNames
              \/ cmd.name = "show" \/ cmd.name = "exit"
           /\ cmd.name \in {"configure", "vlan database"}
              => /\ cmd.name # "interface" /\ cmd.name # "exit"
                 /\ cmd.name \notin DbNames /\ cmd.name \notin PortNames
           /\ cmd.name \in {"interface", "show", "exit"}
              => /\ cmd.name \notin {"configure", "vlan database"}
                 /\ cmd.name \notin DbNames /\ cmd.name \notin PortNames
           /\ cmd.name \in DbNames
              => /\ cmd.name \notin {"configure", "vlan database"}
                 /\ cmd.name # "interface" /\ cmd.name # "exit" /\ cmd.name # "show"
                 /\ cmd.name \notin PortNames
           /\ cmd.name \in PortNames
              => /\ cmd.name \notin {"configure", "vlan database"}
                 /\ cmd.name # "interface" /\ cmd.name # "exit" /\ cmd.name # "show"
                 /\ cmd.name \notin DbNames
           /\ cmd.port \in Ports \union {NoPort}
BY DEF Command, EnterNames, DbNames, PortNames

\* enableCommand, globalConfigCommand: the commands that enter a mode.
LEMMA ModeApplies ==
    ASSUME NEW cmd \in Command, cmd.name \in {"configure", "vlan database"},
           modes \in ModeStack, Taken(cmd), Apply(cmd)
    PROVE  modes = <<>> /\ modes' = <<cmd.name>> /\ vlan' = vlan /\ access' = access
<1>1. /\ cmd.name # "interface" /\ cmd.name # "exit"
      /\ cmd.name \notin DbNames /\ cmd.name \notin PortNames
  BY NameKinds
<1>2. Mode = "exec"
  BY <1>1, Zenon DEF Taken, InItsMode
<1>3. modes' = Append(modes, cmd.name) /\ vlan' = vlan /\ access' = access
  BY <1>1, Zenon DEF Apply
<1>4. modes = <<>>
  BY <1>2, StackOf, Zenon
<1> QED
  BY <1>3, <1>4, PushPop, Zenon

LEMMA InterfaceApplies ==
    ASSUME NEW cmd \in Command, cmd.name = "interface", modes \in ModeStack,
           Taken(cmd), Apply(cmd)
    PROVE  /\ modes = <<"configure">> /\ modes' = <<"configure", cmd.port>>
           /\ vlan' = vlan /\ access' = access
<1>1. /\ cmd.name \notin {"configure", "vlan database"} /\ cmd.name # "exit"
      /\ cmd.name \notin DbNames /\ cmd.name \notin PortNames
  BY NameKinds
<1>2. Mode = "configure"
  BY <1>1, Zenon DEF Taken, InItsMode
<1>3. modes' = Append(modes, cmd.port) /\ vlan' = vlan /\ access' = access
  BY <1>1, Zenon DEF Apply
<1>4. modes = <<"configure">>
  BY <1>2, StackOf, Zenon
<1> QED
  BY <1>3, <1>4, PushPop, Zenon

LEMMA ExitApplies ==
    ASSUME NEW cmd \in Command, cmd.name = "exit", modes \in ModeStack, Apply(cmd)
    PROVE  /\ modes' \in ModeStack /\ vlan' = vlan /\ access' = access
           /\ modes = <<"vlan database">> => modes' = <<>>
           /\ modes = <<"configure">> => modes' = <<>>
           /\ \A p \in Ports : modes = <<"configure", p>> => modes' = <<"configure">>
<1>1. /\ cmd.name \notin {"configure", "vlan database"} /\ cmd.name # "interface"
      /\ cmd.name \notin DbNames /\ cmd.name \notin PortNames
  BY NameKinds
<1>2. /\ modes' = IF modes = <<>> THEN modes ELSE SubSeq(modes, 1, Len(modes) - 1)
      /\ UNCHANGED <<vlan, access>>
  BY <1>1, Zenon DEF Apply
<1>3. ASSUME NEW a, modes = <<a>> PROVE modes' = <<>>
  <2>1. modes # <<>> /\ Len(modes) - 1 = 0
    BY <1>3, PushPop, Single
  <2>2. modes' = SubSeq(<<a>>, 1, 0)
    BY <1>2, <1>3, <2>1
  <2> QED
    BY <2>2, PushPop, Zenon
<1>4. ASSUME NEW p \in Ports, modes = <<"configure", p>> PROVE modes' = <<"configure">>
  <2>1. modes # <<>> /\ Len(modes) - 1 = 1
    BY <1>4, PushPop, Pair
  <2>2. modes' = SubSeq(<<"configure", p>>, 1, 1)
    BY <1>2, <1>4, <2>1
  <2> QED
    BY <2>2, PushPop, Zenon
<1>5. \/ modes = <<>> \/ modes = <<"vlan database">> \/ modes = <<"configure">>
      \/ \E p \in Ports : modes = <<"configure", p>>
  BY ModeIs, Zenon
<1>6. modes' = <<>> \/ modes' = <<"configure">>
  BY <1>2, <1>3, <1>4, <1>5, Zenon
<1>7. modes' \in ModeStack
  BY <1>6 DEF ModeStack
<1> QED
  BY <1>2, <1>3, <1>4, <1>7, Zenon

LEMMA ShowApplies ==
    ASSUME NEW cmd \in Command, cmd.name = "show", Apply(cmd)
    PROVE  modes' = modes /\ vlan' = vlan /\ access' = access
<1>1. /\ cmd.name \notin {"configure", "vlan database"} /\ cmd.name # "interface"
      /\ cmd.name # "exit" /\ cmd.name \notin DbNames /\ cmd.name \notin PortNames
  BY NameKinds
<1> QED
  BY <1>1, Zenon DEF Apply

LEMMA DatabaseApplies ==
    ASSUME NEW cmd \in Command, cmd.name \in DbNames, Taken(cmd), Apply(cmd)
    PROVE  modes' = modes /\ SetVlan(cmd) /\ access' = access
<1>1. /\ cmd.name \notin {"configure", "vlan database"} /\ cmd.name # "interface"
      /\ cmd.name # "exit" /\ cmd.name \notin PortNames
  BY NameKinds
<1> QED
  BY <1>1, Zenon DEF Apply, SetVlan

LEMMA PortApplies ==
    ASSUME NEW cmd \in Command, cmd.name \in PortNames, Taken(cmd), Apply(cmd)
    PROVE  modes' = modes /\ SetPort(cmd, Mode) /\ Mode \in Ports
<1>1. /\ cmd.name \notin {"configure", "vlan database"} /\ cmd.name # "interface"
      /\ cmd.name # "exit" /\ cmd.name \notin DbNames
  BY NameKinds
<1>2. Mode \in Ports
  BY <1>1, Zenon DEF Taken, InItsMode
<1> QED
  BY <1>1, <1>2, Zenon DEF Apply

\* vlanDBCommand and interfaceCommand, one command at a time.
LEMMA VlanSet ==
    ASSUME NEW cmd, SetVlan(cmd)
    PROVE  /\ cmd.name = "vlan" /\ vlan.state = "absent"
                 => vlan' = [NoVlan EXCEPT !.state = "unnamed"]
           /\ cmd.name = "vlan" /\ vlan.state # "absent" => vlan' = vlan
           /\ cmd.name = "vlan name" => vlan' = [vlan EXCEPT !.state = "named"]
           /\ cmd.name = "no vlan" => vlan' = NoVlan
<1>1. CASE cmd.name = "vlan" /\ vlan.state = "absent"
  <2>1. cmd.name # "vlan name" /\ cmd.name # "no vlan"
    BY <1>1
  <2> QED
    BY <1>1, <2>1, Zenon DEF SetVlan
<1>2. CASE cmd.name = "vlan" /\ vlan.state # "absent"
  <2>1. cmd.name # "vlan name" /\ cmd.name # "no vlan"
    BY <1>2
  <2> QED
    BY <1>2, <2>1, Zenon DEF SetVlan
<1>3. CASE cmd.name = "vlan name"
  <2>1. cmd.name # "vlan" /\ cmd.name # "no vlan"
    BY <1>3
  <2> QED
    BY <1>3, <2>1, Zenon DEF SetVlan
<1>4. CASE cmd.name = "no vlan"
  <2>1. cmd.name # "vlan" /\ cmd.name # "vlan name"
    BY <1>4
  <2> QED
    BY <1>4, <2>1, Zenon DEF SetVlan
<1> QED
  BY <1>1, <1>2, <1>3, <1>4, Zenon

LEMMA PortSet ==
    ASSUME NEW cmd, NEW p \in Ports, SetPort(cmd, p), cmd.name \in PortNames
    PROVE  /\ access' = IF cmd.name = "general" THEN access \ {p} ELSE access
           /\ p \in access => vlan' = vlan
           /\ cmd.name = "general" => vlan' = vlan
           /\ p \notin access =>
                 /\ cmd.name = "include" => vlan' =
                       [vlan EXCEPT !.member = @ \union {p}, !.untagged = @ \union {p}]
                 /\ cmd.name = "exclude" => vlan' =
                       [vlan EXCEPT !.member = @ \ {p}, !.untagged = @ \ {p}]
                 /\ cmd.name = "tagging" => vlan' = [vlan EXCEPT !.untagged = @ \ {p}]
                 /\ cmd.name = "no tagging" => vlan' = [vlan EXCEPT !.untagged = @ \union {p}]
                 /\ cmd.name = "pvid" => vlan' = [vlan EXCEPT !.pvid = @ \union {p}]
<1>1. access' = IF cmd.name = "general" THEN access \ {p} ELSE access
  BY Zenon DEF SetPort
<1>2. p \in access => vlan' = vlan
  BY Zenon DEF SetPort
<1>3. cmd.name = "general" => vlan' = vlan
  <2>1. SUFFICES ASSUME cmd.name = "general" PROVE vlan' = vlan
    OBVIOUS
  <2>2. /\ cmd.name # "include" /\ cmd.name # "exclude" /\ cmd.name # "tagging"
        /\ cmd.name # "no tagging" /\ cmd.name # "pvid"
    BY <2>1
  <2> QED
    BY <2>2, Zenon DEF SetPort
<1>4. p \notin access => vlan' =
        CASE cmd.name = "include" ->
                    [vlan EXCEPT !.member = @ \union {p}, !.untagged = @ \union {p}]
               [] cmd.name = "exclude" ->
                    [vlan EXCEPT !.member = @ \ {p}, !.untagged = @ \ {p}]
               [] cmd.name = "tagging" -> [vlan EXCEPT !.untagged = @ \ {p}]
               [] cmd.name = "no tagging" -> [vlan EXCEPT !.untagged = @ \union {p}]
               [] cmd.name = "pvid" -> [vlan EXCEPT !.pvid = @ \union {p}]
               [] OTHER -> vlan
  BY Zenon DEF SetPort
<1>5. p \notin access /\ cmd.name = "include" => vlan' =
          [vlan EXCEPT !.member = @ \union {p}, !.untagged = @ \union {p}]
  <2>1. cmd.name = "include" => /\ cmd.name # "exclude" /\ cmd.name # "tagging"
                                /\ cmd.name # "no tagging" /\ cmd.name # "pvid"
    OBVIOUS
  <2> QED
    BY <1>4, <2>1, Zenon
<1>6. p \notin access /\ cmd.name = "exclude" => vlan' =
          [vlan EXCEPT !.member = @ \ {p}, !.untagged = @ \ {p}]
  <2>1. cmd.name = "exclude" => /\ cmd.name # "include" /\ cmd.name # "tagging"
                                /\ cmd.name # "no tagging" /\ cmd.name # "pvid"
    OBVIOUS
  <2> QED
    BY <1>4, <2>1, Zenon
<1>7. p \notin access /\ cmd.name = "tagging" => vlan' = [vlan EXCEPT !.untagged = @ \ {p}]
  <2>1. cmd.name = "tagging" => /\ cmd.name # "include" /\ cmd.name # "exclude"
                                /\ cmd.name # "no tagging" /\ cmd.name # "pvid"
    OBVIOUS
  <2> QED
    BY <1>4, <2>1, Zenon
<1>8. p \notin access /\ cmd.name = "no tagging"
      => vlan' = [vlan EXCEPT !.untagged = @ \union {p}]
  <2>1. cmd.name = "no tagging" => /\ cmd.name # "include" /\ cmd.name # "exclude"
                                   /\ cmd.name # "tagging" /\ cmd.name # "pvid"
    OBVIOUS
  <2> QED
    BY <1>4, <2>1, Zenon
<1>9. p \notin access /\ cmd.name = "pvid" => vlan' = [vlan EXCEPT !.pvid = @ \union {p}]
  <2>1. cmd.name = "pvid" => /\ cmd.name # "include" /\ cmd.name # "exclude"
                             /\ cmd.name # "tagging" /\ cmd.name # "no tagging"
    OBVIOUS
  <2> QED
    BY <1>4, <2>1, Zenon
<1> QED
  BY <1>1, <1>2, <1>3, <1>5, <1>6, <1>7, <1>8, <1>9, Zenon

-----------------------------------------------------------------------------
(* Types. *)

LEMMA ApplyTypes ==
    ASSUME StatesOK, NEW cmd \in Command, Proper(cmd), Taken(cmd), Apply(cmd)
    PROVE  modes' \in ModeStack /\ vlan' \in Table /\ access' \subseteq Ports
<1>1. modes \in ModeStack /\ vlan \in Table /\ access \subseteq Ports
  BY DEF StatesOK, ShellOK
<1>2. CASE cmd.name \in {"configure", "vlan database"}
  <2>1. modes' = <<cmd.name>> /\ vlan' = vlan /\ access' = access
    BY <1>1, <1>2, ModeApplies
  <2>2. modes' = <<"configure">> \/ modes' = <<"vlan database">>
    BY <1>2, <2>1
  <2>3. modes' \in ModeStack
    BY <2>2 DEF ModeStack
  <2> QED
    BY <1>1, <2>1, <2>3
<1>3. CASE cmd.name = "interface"
  <2>1. modes' = <<"configure", cmd.port>> /\ vlan' = vlan /\ access' = access
    BY <1>1, <1>3, InterfaceApplies, Zenon
  <2>2. cmd.port \in Ports
    BY <1>3 DEF Proper
  <2>3. modes' \in ModeStack
    BY <2>1, <2>2 DEF ModeStack
  <2> QED
    BY <1>1, <2>1, <2>3
<1>4. CASE cmd.name = "exit"
  BY <1>1, <1>4, ExitApplies
<1>5. CASE cmd.name = "show"
  BY <1>1, <1>5, ShowApplies
<1>6. CASE cmd.name \in DbNames
  <2>1. modes' = modes /\ SetVlan(cmd) /\ access' = access
    BY <1>6, DatabaseApplies
  <2>2. cmd.name \in {"vlan", "vlan name", "no vlan"}
    BY <1>6 DEF DbNames
  <2>3. \/ vlan' = [NoVlan EXCEPT !.state = "unnamed"] \/ vlan' = vlan
        \/ vlan' = [vlan EXCEPT !.state = "named"] \/ vlan' = NoVlan
    BY <2>1, <2>2, VlanSet
  <2>4. NoVlan \in Table /\ [NoVlan EXCEPT !.state = "unnamed"] \in Table
    BY DEF NoVlan, Table
  <2>5. [vlan EXCEPT !.state = "named"] \in Table
    BY <1>1 DEF Table
  <2>6. vlan' \in Table
    BY <1>1, <2>3, <2>4, <2>5, Zenon
  <2> QED
    BY <1>1, <2>1, <2>6
<1>7. CASE cmd.name \in PortNames
  <2> DEFINE p == Mode
  <2>1. modes' = modes /\ SetPort(cmd, p) /\ p \in Ports
    BY <1>7, PortApplies
  <2> HIDE DEF p
  <2>2. /\ cmd.name \in {"general", "include", "exclude", "tagging", "no tagging", "pvid"}
    BY <1>7 DEF PortNames
  <2>3. access' = access \/ access' = access \ {p}
    BY <1>7, <2>1, PortSet
  <2>4. \/ vlan' = vlan
        \/ vlan' = [vlan EXCEPT !.member = @ \union {p}, !.untagged = @ \union {p}]
        \/ vlan' = [vlan EXCEPT !.member = @ \ {p}, !.untagged = @ \ {p}]
        \/ vlan' = [vlan EXCEPT !.untagged = @ \ {p}]
        \/ vlan' = [vlan EXCEPT !.untagged = @ \union {p}]
        \/ vlan' = [vlan EXCEPT !.pvid = @ \union {p}]
    BY <1>7, <2>1, <2>2, PortSet, Zenon
  <2>5. [vlan EXCEPT !.member = @ \union {p}, !.untagged = @ \union {p}] \in Table
    BY <1>1, <2>1 DEF Table
  <2>6. [vlan EXCEPT !.member = @ \ {p}, !.untagged = @ \ {p}] \in Table
    BY <1>1, <2>1 DEF Table
  <2>7. [vlan EXCEPT !.untagged = @ \ {p}] \in Table
    BY <1>1, <2>1 DEF Table
  <2>8. [vlan EXCEPT !.untagged = @ \union {p}] \in Table
    BY <1>1, <2>1 DEF Table
  <2>9. [vlan EXCEPT !.pvid = @ \union {p}] \in Table
    BY <1>1, <2>1 DEF Table
  <2>10. vlan' \in Table
    BY <1>1, <2>4, <2>5, <2>6, <2>7, <2>8, <2>9, Zenon
  <2> QED
    BY <1>1, <2>1, <2>3, <2>10
<1> QED
  BY <1>2, <1>3, <1>4, <1>5, <1>6, <1>7, NameKinds

\* The line the shell reads next.
LEMMA HeadOK ==
    ASSUME StatesOK, typed # <<>>
    PROVE  /\ Head(typed).cmd \in Command /\ Proper(Head(typed).cmd)
           /\ Tail(typed) \in Seq(ProperLine)
<1>1. typed \in Seq(ProperLine)
  BY DEF StatesOK, ShellOK
<1>2. Head(typed) \in ProperLine /\ Tail(typed) \in Seq(ProperLine)
  BY <1>1, HeadTailProperties
<1> QED
  BY <1>2 DEF ProperLine, Line

LEMMA PromptType ==
    ASSUME StatesOK, NEW cmd \in Command, NEW accepted \in BOOLEAN, Prompt(cmd, accepted)
    PROVE  output' \in Seq(Answer)
<1> DEFINE a == [cmd |-> cmd, accepted |-> accepted, table |-> vlan]
<1>1. output \in Seq(Answer) /\ vlan \in Table
  BY DEF StatesOK, ShellOK
<1>2. a \in Answer
  BY <1>1 DEF Answer
<1>3. output' = output \/ output' = Append(output, a)
  BY DEF Prompt
<1> HIDE DEF a
<1>4. Append(output, a) \in Seq(Answer)
  BY <1>1, <1>2, AppendProperties
<1> QED
  BY <1>1, <1>3, <1>4

\* The steps of the switch leave the calls alone.
LEMMA ShellSteps ==
    ASSUME StatesOK, Execute \/ Ignore \/ Refuse \/ Hangup
    PROVE  StatesOK' /\ callVars' = callVars /\ alive' = alive
<1>1. callVars' = callVars /\ alive' = alive
  BY Zenon DEF Execute, Ignore, Refuse, Hangup
<1>2. ScriptOK' /\ CallOK'
  BY <1>1 DEF StatesOK, ScriptOK, CallOK, callVars
<1>3. /\ alive \in BOOLEAN /\ modes \in ModeStack /\ vlan \in Table
      /\ access \subseteq Ports /\ ignored \in BOOLEAN /\ typed \in Seq(ProperLine)
      /\ output \in Seq(Answer)
  BY DEF StatesOK, ShellOK
<1> DEFINE cmd == Head(typed).cmd
<1>4. ASSUME Execute PROVE ShellOK'
  <2>1. /\ typed # <<>> /\ Taken(cmd) /\ Apply(cmd) /\ Prompt(cmd, TRUE)
        /\ typed' = Tail(typed) /\ ignored' = ignored
    BY <1>4 DEF Execute
  <2>2. cmd \in Command /\ Proper(cmd) /\ typed' \in Seq(ProperLine)
    BY <2>1, HeadOK
  <2> HIDE DEF cmd
  <2>3. modes' \in ModeStack /\ vlan' \in Table /\ access' \subseteq Ports
    BY <2>1, <2>2, ApplyTypes
  <2>4. output' \in Seq(Answer)
    BY <2>1, <2>2, PromptType
  <2> QED
    BY <1>1, <1>3, <2>1, <2>2, <2>3, <2>4 DEF ShellOK
<1>5. ASSUME Ignore PROVE ShellOK'
  <2>1. /\ typed # <<>> /\ Prompt(cmd, TRUE) /\ typed' = Tail(typed) /\ ignored' = TRUE
        /\ modes' = modes /\ vlan' = vlan /\ access' = access
    BY <1>5 DEF Ignore
  <2>2. cmd \in Command /\ Proper(cmd) /\ typed' \in Seq(ProperLine)
    BY <2>1, HeadOK
  <2> HIDE DEF cmd
  <2>3. output' \in Seq(Answer)
    BY <2>1, <2>2, PromptType
  <2> QED
    BY <1>1, <1>3, <2>1, <2>2, <2>3 DEF ShellOK
<1>6. ASSUME Refuse PROVE ShellOK'
  <2>1. /\ typed # <<>> /\ Prompt(cmd, FALSE) /\ typed' = Tail(typed)
        /\ modes' = modes /\ vlan' = vlan /\ access' = access /\ ignored' = ignored
    BY <1>6 DEF Refuse, switchVars
  <2>2. cmd \in Command /\ Proper(cmd) /\ typed' \in Seq(ProperLine)
    BY <2>1, HeadOK
  <2> HIDE DEF cmd
  <2>3. output' \in Seq(Answer)
    BY <2>1, <2>2, PromptType
  <2> QED
    BY <1>1, <1>3, <2>1, <2>2, <2>3 DEF ShellOK
<1>7. ASSUME Hangup PROVE ShellOK'
  <2>1. /\ typed' = <<>> /\ modes' = <<>> /\ output' = output /\ vlan' = vlan
        /\ access' = access /\ ignored' = ignored
    BY <1>7 DEF Hangup
  <2>2. <<>> \in ModeStack /\ <<>> \in Seq(ProperLine)
    BY DEF ModeStack
  <2> QED
    BY <1>1, <1>3, <2>1, <2>2 DEF ShellOK
<1> QED
  BY <1>1, <1>2, <1>4, <1>5, <1>6, <1>7 DEF StatesOK

\* A call whose variables do not change keeps its shape.
LEMMA ShapeKept ==
    ASSUME NEW c \in Callers, Shape(c), op'[c] = op[c], phase'[c] = phase[c],
           position'[c] = position[c], entered'[c] = entered[c], sent'[c] = sent[c]
    PROVE  Shape(c)'
<1>1. NextCommand(c)' = NextCommand(c)
  BY Zenon DEF NextCommand
<1> QED
  BY <1>1 DEF Shape

-----------------------------------------------------------------------------
(* The shape of a call, step by step. *)

\* What Run's result can do to a script.
Moved(c) ==
    \/ phase[c] \in {"before", "after"} /\ \E r \in Errors : Returned(c, r)
    \/ phase[c] = "before" /\ Began(c) /\ op[c].kind # "read"
    \/ phase[c] \in {"enter", "body"} /\ Advanced(c)
    \/ phase[c] \in {"enter", "body"} /\ \E e \in BOOLEAN : Left(c, entered[c], e)
    \/ phase[c] = "unwind" /\ Left(c, entered[c] - 1, failed[c])

LEMMA MovedShape ==
    ASSUME StatesOK, ScriptOK', NEW c \in Callers, Shape(c), Moved(c), op' = op,
           sent'[c] = NoCommand
    PROVE  Shape(c)'
<1> DEFINE e == Len(Enter(op[c]))
           b == Len(Body(op[c]))
<1>1. /\ phase[c] \in {"idle", "before", "enter", "body", "unwind", "after"}
      /\ entered[c] \in 0..2 /\ position[c] \in 0..3 /\ failed[c] \in BOOLEAN /\ op[c] \in Ops
      /\ entered'[c] \in 0..2
  BY DEF StatesOK, ScriptOK, CallOK
<1>2. e \in 0..2 /\ b \in 0..3 /\ (op[c].kind # "read" => e > 0 /\ b > 0)
  BY <1>1, ScriptLengths
<1>3. Len(Enter(op[c]))' = e /\ Len(Body(op[c]))' = b
  OBVIOUS
<1>4. /\ phase[c] \in {"idle", "before", "after"} => entered[c] = 0
      /\ phase[c] = "enter" => entered[c] = position[c] /\ position[c] < e
      /\ phase[c] = "body" => entered[c] = e /\ position[c] < b
      /\ phase[c] = "unwind" => entered[c] > 0 /\ entered[c] <= e
  BY DEF Shape
<1> SUFFICES /\ phase'[c] \in {"idle", "before", "after"} => entered'[c] = 0
             /\ phase'[c] = "enter" => entered'[c] = position'[c] /\ position'[c] < e
             /\ phase'[c] = "body" => entered'[c] = e /\ position'[c] < b
             /\ phase'[c] = "unwind" => entered'[c] > 0 /\ entered'[c] <= e
  BY <1>3 DEF Shape
<1>5. ASSUME NEW n \in 0..2, NEW error \in BOOLEAN, Left(c, n, error), n <= e
      PROVE  /\ entered'[c] = n
             /\ n > 0 => phase'[c] = "unwind"
             /\ n = 0 => phase'[c] \in {"idle", "after"}
  BY <1>5 DEF Left
<1>6. CASE phase[c] \in {"before", "after"} /\ \E r \in Errors : Returned(c, r)
  BY <1>4, <1>6 DEF Returned
<1>7. CASE phase[c] = "before" /\ Began(c) /\ op[c].kind # "read"
  <2> HIDE DEF e, b
  <2> QED
    BY <1>2, <1>7 DEF Began
<1>8. CASE phase[c] = "enter" /\ Advanced(c)
  <2>1. /\ entered'[c] = entered[c] + 1
        /\ \/ phase'[c] = "enter" /\ position'[c] = position[c] + 1 /\ position[c] + 1 < e
           \/ phase'[c] = "body" /\ position'[c] = 0 /\ ~(position[c] + 1 < e)
    BY <1>8 DEF Advanced
  <2>2. entered[c] > 0 \/ e > 0 => op[c].kind # "read"
    BY <1>2, ReadScripts, <1>1, <1>4, <1>8
  <2> HIDE DEF e, b
  <2> QED
    BY <1>1, <1>2, <1>4, <1>8, <2>1, <2>2
<1>9. CASE phase[c] = "body" /\ Advanced(c)
  <2>1. /\ entered'[c] = entered[c] /\ phase'[c] = "body"
        /\ position'[c] = position[c] + 1 /\ position[c] + 1 < b
    BY <1>9 DEF Advanced
  <2> HIDE DEF e, b
  <2> QED
    BY <1>1, <1>2, <1>4, <1>9, <2>1
<1>10. CASE phase[c] \in {"enter", "body"} /\ \E x \in BOOLEAN : Left(c, entered[c], x)
  <2>1. entered[c] <= e
    <3> HIDE DEF e, b
    <3> QED
      BY <1>1, <1>2, <1>4, <1>10
  <2>2. /\ entered'[c] = entered[c]
        /\ entered[c] > 0 => phase'[c] = "unwind"
        /\ entered[c] = 0 => phase'[c] \in {"idle", "after"}
    BY <1>1, <1>5, <1>10, <2>1
  <2> HIDE DEF e, b
  <2> QED
    BY <1>1, <2>1, <2>2
<1>11. CASE phase[c] = "unwind" /\ Left(c, entered[c] - 1, failed[c])
  <2> DEFINE n == entered[c] - 1
  <2>1. n \in 0..2 /\ n <= e
    <3> HIDE DEF e, b
    <3> QED
      BY <1>1, <1>2, <1>4, <1>11
  <2>2. Left(c, n, failed[c])
    BY <1>11
  <2> HIDE DEF n
  <2>3. /\ entered'[c] = n
        /\ n > 0 => phase'[c] = "unwind"
        /\ n = 0 => phase'[c] \in {"idle", "after"}
    BY <1>1, <1>5, <2>1, <2>2
  <2> HIDE DEF e, b
  <2> QED
    BY <1>1, <2>1, <2>3
<1> QED
  BY <1>6, <1>7, <1>8, <1>9, <1>10, <1>11 DEF Moved

\* What is true of every step a call takes: the types, the other calls, its shape.
Steady(c) == StatesOK' /\ OthersKept(c) /\ Shape(c)'

LEMMA BeginSteady ==
    ASSUME StatesOK, NEW c \in Callers, Shape(c), NEW o \in Ops, Begin(c, o)
    PROVE  Steady(c)
<1>1. /\ phase[c] = "idle" /\ op' = [op EXCEPT ![c] = o]
      /\ calls[c] < MaxCalls /\ calls' = [calls EXCEPT ![c] = @ + 1]
      /\ cancelled' = [cancelled EXCEPT ![c] = FALSE] /\ failed' = [failed EXCEPT ![c] = FALSE]
      /\ phase' = [phase EXCEPT ![c] = IF Refused(o) THEN "idle" ELSE "before"]
      /\ result' = [result EXCEPT ![c] = IF Refused(o) THEN "refused" ELSE "none"]
      /\ position' = position /\ entered' = entered /\ sent' = sent
  BY DEF Begin
<1>2. ShellOK'
  BY DEF Begin, switchVars, StatesOK, ShellOK
<1>3. \E ph \in {"idle", "before"}, r \in {"refused", "none"} :
        phase' = [phase EXCEPT ![c] = ph] /\ result' = [result EXCEPT ![c] = r]
  BY <1>1
<1>4. PICK ph \in {"idle", "before"}, r \in {"refused", "none"} :
        phase' = [phase EXCEPT ![c] = ph] /\ result' = [result EXCEPT ![c] = r]
  BY <1>3
<1>5. ScriptOK'
  BY <1>1, <1>4 DEF StatesOK, ScriptOK
<1>6. CallOK'
  <2>1. calls[c] \in 0..MaxCalls /\ MaxCalls \in Nat
    BY SessionAssumption DEF SessionAssumption, StatesOK, CallOK
  <2>2. calls[c] + 1 \in 0..MaxCalls
    BY <1>1, <2>1
  <2> QED
    BY <1>1, <2>2 DEF StatesOK, CallOK
<1>7. OthersKept(c)
  BY <1>1, <1>4 DEF OthersKept, StatesOK, ScriptOK, CallOK
<1>8. entered[c] = 0 /\ sent[c] = NoCommand
  BY <1>1 DEF Shape
<1>9. phase'[c] \in {"idle", "before"} /\ entered'[c] = 0 /\ sent'[c] = NoCommand
  BY <1>1, <1>4, <1>8 DEF StatesOK, ScriptOK
<1>10. Shape(c)'
  BY <1>9 DEF Shape
<1> QED
  BY <1>2, <1>5, <1>6, <1>7, <1>10 DEF Steady, StatesOK

LEMMA CancelSteady ==
    ASSUME StatesOK, NEW c \in Callers, Shape(c), Cancel(c)
    PROVE  Steady(c)
<1>1. /\ cancelled' = [cancelled EXCEPT ![c] = TRUE]
      /\ op' = op /\ phase' = phase /\ position' = position /\ entered' = entered
      /\ failed' = failed /\ sent' = sent /\ result' = result /\ calls' = calls
  BY DEF Cancel
<1>2. ShellOK'
  BY DEF Cancel, switchVars, StatesOK, ShellOK
<1>3. ScriptOK' /\ CallOK'
  BY <1>1 DEF StatesOK, ScriptOK, CallOK
<1>4. OthersKept(c)
  BY <1>1 DEF OthersKept, StatesOK, CallOK
<1>5. Shape(c)'
  BY <1>1, ShapeKept
<1> QED
  BY <1>2, <1>3, <1>4, <1>5 DEF Steady, StatesOK

LEMMA TypeSteady ==
    ASSUME StatesOK, NEW c \in Callers, Shape(c), Type(c)
    PROVE  Steady(c) /\ sent'[c] = NextCommand(c)
<1> DEFINE n == NextCommand(c)
           l == [cmd |-> n, for |-> op[c]]
<1>1. /\ phase[c] # "idle" /\ sent' = [sent EXCEPT ![c] = n] /\ typed' = Append(typed, l)
      /\ op' = op /\ phase' = phase /\ position' = position /\ entered' = entered
      /\ failed' = failed /\ cancelled' = cancelled /\ result' = result /\ calls' = calls
      /\ alive' = alive /\ output' = output /\ switchVars' = switchVars
  BY DEF Type
<1>2. n \in Command /\ Proper(n)
  BY <1>1, NextIs
<1>3. op[c] \in Operation /\ typed \in Seq(ProperLine)
  BY SessionAssumption DEF SessionAssumption, StatesOK, CallOK, ShellOK
<1>4. n' = n
  BY <1>1, Zenon DEF NextCommand
<1> HIDE DEF n
<1>5. l \in ProperLine
  BY <1>2, <1>3 DEF ProperLine, Line
<1> HIDE DEF l
<1>6. typed' \in Seq(ProperLine)
  BY <1>1, <1>3, <1>5, AppendProperties
<1>7. ShellOK'
  BY <1>1, <1>6 DEF StatesOK, ShellOK, switchVars
<1>8. ScriptOK' /\ CallOK'
  BY <1>1, <1>2 DEF StatesOK, ScriptOK, CallOK
<1>9. OthersKept(c)
  BY <1>1 DEF OthersKept, StatesOK, CallOK
<1>10. sent'[c] = n
  BY <1>1 DEF StatesOK, CallOK
<1>11. Shape(c)'
  <2>1. sent'[c] = NextCommand(c)'
    BY <1>4, <1>10 DEF n
  <2> QED
    BY <1>1, <2>1 DEF Shape
<1> QED
  BY <1>7, <1>8, <1>9, <1>10, <1>11 DEF Steady, StatesOK, n

\* A step that moves the script and leaves Run nothing to wait for.
LEMMA MoveSteady ==
    ASSUME StatesOK, NEW c \in Callers, Shape(c), ScriptOK', ShellOK', ScriptsKept(c), Moved(c),
           sent' = [sent EXCEPT ![c] = NoCommand], UNCHANGED <<op, cancelled, calls>>
    PROVE  Steady(c)
<1>1. CallOK'
  BY DEF StatesOK, CallOK
<1>2. OthersKept(c)
  BY DEF OthersKept, ScriptsKept, StatesOK, CallOK
<1>3. sent'[c] = NoCommand
  BY DEF StatesOK, CallOK
<1>4. Shape(c)'
  BY <1>3, MovedShape
<1> QED
  BY <1>1, <1>2, <1>4 DEF Steady, StatesOK

LEMMA ErrorIsMove ==
    ASSUME StatesOK, NEW c \in Callers, Shape(c), phase[c] # "idle", OnError(c)
    PROVE  ScriptOK' /\ ScriptsKept(c) /\ Moved(c)
<1>1. ScriptOK /\ phase[c] \in {"before", "enter", "body", "unwind", "after"}
  BY DEF StatesOK, ScriptOK
<1>2. /\ ScriptOK' /\ ScriptsKept(c)
      /\ phase[c] \in {"before", "after"} => Returned(c, "failed")
      /\ phase[c] \in {"enter", "body"} => Left(c, entered[c], TRUE)
      /\ phase[c] = "unwind" => Left(c, entered[c] - 1, failed[c])
  BY <1>1, ErrorMoves
<1>3. Moved(c)
  BY <1>1, <1>2 DEF Moved, Errors
<1> QED
  BY <1>2, <1>3

LEMMA AbortSteady ==
    ASSUME StatesOK, NEW c \in Callers, Shape(c), Abort(c)
    PROVE  Steady(c)
<1>1. /\ phase[c] # "idle" /\ sent[c] = NoCommand /\ OnError(c)
      /\ op' = op /\ sent' = sent /\ cancelled' = cancelled /\ calls' = calls
  BY DEF Abort
<1>2. ShellOK'
  BY DEF Abort, switchVars, StatesOK, ShellOK
<1>3. ScriptOK' /\ ScriptsKept(c) /\ Moved(c)
  BY <1>1, ErrorIsMove
<1>4. sent' = [sent EXCEPT ![c] = NoCommand]
  BY <1>1 DEF StatesOK, CallOK
<1> QED
  BY <1>1, <1>2, <1>3, <1>4, MoveSteady

LEMMA TimeoutSteady ==
    ASSUME StatesOK, NEW c \in Callers, Shape(c), Timeout(c)
    PROVE  Steady(c)
<1>1. /\ sent[c] # NoCommand /\ OnError(c) /\ sent' = [sent EXCEPT ![c] = NoCommand]
      /\ op' = op /\ cancelled' = cancelled /\ calls' = calls
      /\ alive' = (alive /\ ~DeadlineCloses) /\ typed' = typed /\ switchVars' = switchVars
      /\ output' = <<>> \/ output' = output
  BY DEF Timeout
<1>2. ShellOK'
  <2>1. output' \in Seq(Answer)
    <3>1. output \in Seq(Answer) /\ <<>> \in Seq(Answer)
      BY DEF StatesOK, ShellOK
    <3> QED
      BY <1>1, <3>1, Zenon
  <2>2. alive' \in BOOLEAN
    BY <1>1
  <2> QED
    BY <1>1, <2>1, <2>2 DEF switchVars, StatesOK, ShellOK
<1>3. phase[c] # "idle"
  BY <1>1 DEF Shape
<1>4. ScriptOK' /\ ScriptsKept(c) /\ Moved(c)
  BY <1>1, <1>3, ErrorIsMove
<1> QED
  BY <1>1, <1>2, <1>4, MoveSteady

\* A `show` is only read for before a write and after it.
LEMMA ReadsFor ==
    ASSUME StatesOK, NEW c \in Callers, Shape(c), sent[c] # NoCommand
    PROVE  /\ sent[c] \in Command
           /\ phase[c] # "idle"
           /\ sent[c].name = "show" => phase[c] \in {"before", "after"}
           /\ sent[c].name # "show" => phase[c] \in {"enter", "body", "unwind"}
           /\ sent[c].name = "exit" <=> phase[c] = "unwind"
<1>1. phase[c] \in {"idle", "before", "enter", "body", "unwind", "after"}
  BY DEF StatesOK, ScriptOK
<1>2. phase[c] # "idle" /\ sent[c] = NextCommand(c)
  BY DEF Shape
<1>3. /\ sent[c] \in Command
      /\ phase[c] \in {"before", "after"} => sent[c].name = "show"
      /\ phase[c] = "enter" => sent[c].name \in EnterNames
      /\ phase[c] = "body" => sent[c].name \in DbNames \union PortNames
      /\ phase[c] = "unwind" => sent[c].name = "exit"
  BY <1>2, NextIs
<1>4. /\ "show" \notin EnterNames /\ "show" \notin DbNames \union PortNames
      /\ "exit" \notin EnterNames /\ "exit" \notin DbNames \union PortNames
  BY DEF EnterNames, DbNames, PortNames
<1> QED
  BY <1>1, <1>2, <1>3, <1>4

LEMMA AcceptedIsMove ==
    ASSUME StatesOK, NEW c \in Callers, Shape(c), phase[c] \in {"enter", "body", "unwind"},
           OnAccepted(c)
    PROVE  ScriptOK' /\ ScriptsKept(c) /\ Moved(c)
<1>1. /\ ScriptOK' /\ ScriptsKept(c)
      /\ phase[c] = "enter" => Advanced(c)
      /\ phase[c] = "body" => Advanced(c) \/ Left(c, entered[c], FALSE)
      /\ phase[c] = "unwind" => Left(c, entered[c] - 1, failed[c])
  BY AcceptedMoves
<1>2. Moved(c)
  BY <1>1 DEF Moved
<1> QED
  BY <1>1, <1>2

LEMMA TableIsMove ==
    ASSUME StatesOK, NEW c \in Callers, Shape(c), phase[c] \in {"before", "after"},
           NEW table, OnTable(c, table)
    PROVE  ScriptOK' /\ ScriptsKept(c) /\ Moved(c)
<1>1. ScriptOK
  BY DEF StatesOK
<1> DEFINE r == IF ReadsBack(op[c], table) THEN "ok" ELSE "mismatch"
<1>2. /\ ScriptOK' /\ ScriptsKept(c)
      /\ phase[c] = "after" => Returned(c, r)
      /\ phase[c] = "before" =>
            \/ Returned(c, "absent") \/ Returned(c, "refused") \/ Returned(c, "ok")
            \/ Began(c) /\ op[c].kind # "read"
  BY <1>1, TableMoves
<1>3. r \in Errors
  BY DEF Errors
<1> HIDE DEF r
<1>4. "absent" \in Errors /\ "refused" \in Errors /\ "ok" \in Errors
  BY DEF Errors
<1>5. Moved(c)
  BY <1>2, <1>3, <1>4, Zenon DEF Moved
<1> QED
  BY <1>2, <1>5

LEMMA ReceiveSteady ==
    ASSUME StatesOK, NEW c \in Callers, Shape(c), Receive(c)
    PROVE  Steady(c)
<1>1. /\ sent[c] # NoCommand /\ sent' = [sent EXCEPT ![c] = NoCommand]
      /\ op' = op /\ cancelled' = cancelled /\ calls' = calls /\ alive' = alive
      /\ typed' = typed /\ switchVars' = switchVars
  BY DEF Receive
<1>2. PICK n \in 1..Len(output) :
        /\ output' = SubSeq(output, n + 1, Len(output))
        /\ IF sent[c].name = "show" THEN OnTable(c, TableIn(SubSeq(output, 1, n)))
           ELSE IF AcceptedBy(SubSeq(output, 1, n), sent[c]) \/ sent[c].name = "exit"
                THEN OnAccepted(c)
           ELSE OnError(c)
  BY Zenon DEF Receive
<1>3. output' \in Seq(Answer)
  <2>1. output \in Seq(Answer)
    BY DEF StatesOK, ShellOK
  <2>2. Len(output) \in Nat /\ \A i \in n + 1 .. Len(output) : output[i] \in Answer
    BY <2>1, ElementOfSeq, LenProperties
  <2>3. SubSeq(output, n + 1, Len(output)) \in Seq(Answer)
    BY <2>2, SubSeqProperties
  <2> QED
    BY <1>2, <2>3
<1>4. ShellOK'
  BY <1>1, <1>3 DEF StatesOK, ShellOK, switchVars
<1>5. /\ phase[c] # "idle"
      /\ sent[c].name = "show" => phase[c] \in {"before", "after"}
      /\ sent[c].name # "show" => phase[c] \in {"enter", "body", "unwind"}
  BY <1>1, ReadsFor
<1>6. OnError(c) => ScriptOK' /\ ScriptsKept(c) /\ Moved(c)
  BY <1>5, ErrorIsMove
<1>7. sent[c].name # "show" /\ OnAccepted(c) => ScriptOK' /\ ScriptsKept(c) /\ Moved(c)
  BY <1>5, AcceptedIsMove
<1>8. ASSUME NEW table, sent[c].name = "show", OnTable(c, table)
      PROVE  ScriptOK' /\ ScriptsKept(c) /\ Moved(c)
  BY <1>5, <1>8, TableIsMove
<1>9. ScriptOK' /\ ScriptsKept(c) /\ Moved(c)
  BY <1>2, <1>6, <1>7, <1>8, Zenon
<1> QED
  BY <1>1, <1>4, <1>9, MoveSteady

\* The first layer of the invariant holds.
LEMMA InitShaped == Init => Shaped
<1> SUFFICES ASSUME Init PROVE Shaped
  OBVIOUS
<1>1. ScriptOK
  BY DEF Init, ScriptOK
<1>2. CallOK
  <2>1. Ops # {} /\ MaxCalls \in Nat
    BY SessionAssumption DEF SessionAssumption
  <2>2. (CHOOSE o \in Ops : TRUE) \in Ops
    BY <2>1
  <2> QED
    BY <2>1, <2>2 DEF Init, CallOK
<1>3. ShellOK
  <2>1. vlan = NoVlan \/ vlan = [NoVlan EXCEPT !.state = "named"]
    BY DEF Init
  <2>2. NoVlan \in Table /\ [NoVlan EXCEPT !.state = "named"] \in Table
    BY DEF NoVlan, Table
  <2>3. vlan \in Table
    BY <2>1, <2>2, Zenon
  <2>4. AccessPorts \subseteq Ports
    BY SessionAssumption DEF SessionAssumption
  <2>5. <<>> \in ModeStack
    BY DEF ModeStack
  <2>6. /\ alive = TRUE /\ typed = <<>> /\ output = <<>> /\ modes = <<>>
        /\ access = AccessPorts /\ ignored = FALSE
    BY DEF Init
  <2>7. typed \in Seq(ProperLine) /\ output \in Seq(Answer)
    BY <2>6
  <2> QED
    BY <2>3, <2>4, <2>5, <2>6, <2>7 DEF ShellOK
<1>4. ASSUME NEW c \in Callers PROVE Shape(c)
  <2>1. phase[c] = "idle" /\ entered[c] = 0 /\ sent[c] = NoCommand
    BY DEF Init
  <2> QED
    BY <2>1 DEF Shape
<1> QED
  BY <1>1, <1>2, <1>3, <1>4 DEF Shaped, StatesOK

LEMMA StepShaped == Shaped /\ [Next]_vars => Shaped'
<1> SUFFICES ASSUME Shaped, [Next]_vars PROVE Shaped'
  OBVIOUS
<1>1. StatesOK /\ \A c \in Callers : Shape(c)
  BY DEF Shaped
<1>2. ASSUME NEW c \in Callers, Steady(c) PROVE Shaped'
  <2>1. ASSUME NEW d \in Callers \ {c} PROVE Shape(d)'
    <3>1. /\ op'[d] = op[d] /\ phase'[d] = phase[d] /\ position'[d] = position[d]
          /\ entered'[d] = entered[d] /\ sent'[d] = sent[d]
      BY <1>2 DEF Steady, OthersKept
    <3> QED
      BY <1>1, <3>1, ShapeKept
  <2> QED
    BY <1>2, <2>1 DEF Steady, Shaped
<1>3. ASSUME NEW c \in Callers, \/ \E o \in Ops : Begin(c, o)
                                \/ Cancel(c) \/ Step(c) \/ Receive(c)
      PROVE  Shaped'
  <2>1. ASSUME NEW o \in Ops, Begin(c, o) PROVE Steady(c)
    BY <1>1, <2>1, BeginSteady
  <2>2. Cancel(c) => Steady(c)
    BY <1>1, CancelSteady
  <2>3. Type(c) => Steady(c)
    BY <1>1, TypeSteady
  <2>4. Abort(c) => Steady(c)
    BY <1>1, AbortSteady
  <2>5. Timeout(c) => Steady(c)
    BY <1>1, TimeoutSteady
  <2>6. Receive(c) => Steady(c)
    BY <1>1, ReceiveSteady
  <2>7. Steady(c)
    BY <1>3, <2>1, <2>2, <2>3, <2>4, <2>5, <2>6 DEF Step
  <2> QED
    BY <1>2, <2>7
<1>4. ASSUME callVars' = callVars, StatesOK' PROVE Shaped'
  <2>1. op' = op /\ phase' = phase /\ position' = position /\ entered' = entered /\ sent' = sent
    BY <1>4 DEF callVars
  <2>2. ASSUME NEW d \in Callers PROVE Shape(d)'
    BY <1>1, <2>1, ShapeKept
  <2> QED
    BY <1>4, <2>2 DEF Shaped
<1>5. ASSUME Execute \/ Ignore \/ Refuse \/ Hangup PROVE Shaped'
  BY <1>1, <1>4, <1>5, ShellSteps
<1>6. ASSUME UNCHANGED vars PROVE Shaped'
  <2>1. callVars' = callVars /\ StatesOK'
    BY <1>1, <1>6 DEF vars, callVars, switchVars, StatesOK, ScriptOK, CallOK, ShellOK
  <2> QED
    BY <1>4, <2>1
<1> QED
  BY <1>3, <1>5, <1>6 DEF Next

LEMMA ShapedHolds == Spec => []Shaped
BY InitShaped, StepShaped, PTL DEF Spec

\* ShellDriver.Run and inMode keep their counters in range, and CliFace's shell is
\* always in a mode it has: for any number of callers and either kind of transport.
THEOREM TypeCorrect == Spec => []TypeOK
<1>1. Shaped => TypeOK
  <2> SUFFICES ASSUME Shaped PROVE TypeOK
    OBVIOUS
  <2>1. typed \in Seq(ProperLine) /\ output \in Seq(Answer)
    BY DEF Shaped, StatesOK, ShellOK
  <2>2. ASSUME NEW i \in DOMAIN typed PROVE typed[i] \in Line
    <3>1. i \in 1..Len(typed)
      BY <2>1, LenProperties
    <3>2. typed[i] \in ProperLine
      BY <2>1, <3>1, ElementOfSeq
    <3> QED
      BY <3>2 DEF ProperLine
  <2>3. ASSUME NEW i \in DOMAIN output PROVE output[i] \in Answer
    <3>1. i \in 1..Len(output)
      BY <2>1, LenProperties
    <3> QED
      BY <2>1, <3>1, ElementOfSeq
  <2> QED
    BY <2>2, <2>3 DEF Shaped, StatesOK, ScriptOK, CallOK, ShellOK, TypeOK
<1> QED
  BY <1>1, ShapedHolds, PTL

-----------------------------------------------------------------------------
(* One caller over SSH: the second layer of the invariant. *)

\* The mode stack of a call that has entered n levels.
Stack(o, n) ==
    IF n = 0 THEN <<>>
    ELSE IF Database(o) THEN <<"vlan database">>
    ELSE IF n = 1 THEN <<"configure">>
    ELSE <<"configure", o.port>>

\* The shell has answered the command Run is waiting for, and accepted it.
Answered(c) == sent[c] # NoCommand /\ output # <<>>
Accepted(c) == Answered(c) /\ output[1].accepted

\* The levels the shell is in, which is ahead of inMode's count while the answer
\* is on its way.
Reached(c) ==
    IF phase[c] = "enter" /\ Accepted(c) THEN entered[c] + 1
    ELSE IF phase[c] = "unwind" /\ Answered(c) THEN entered[c] - 1
    ELSE entered[c]

\* Either the line Run has typed is on its way, or its answer, and nothing else.
Framed(c) ==
    IF sent[c] = NoCommand THEN typed = <<>> /\ output = <<>>
    ELSE \/ typed = <<[cmd |-> sent[c], for |-> op[c]]>> /\ output = <<>>
         \/ /\ typed = <<>> /\ Len(output) = 1 /\ output[1].cmd = sent[c]
            /\ sent[c].name = "show" => output[1].table = vlan

\* A context cancelled before the dialogue stops the call before it enters a mode.
CancelledOutside(c) ==
    cancelled[c] => \/ phase[c] \in {"idle", "before", "after"}
                    \/ phase[c] = "enter" /\ entered[c] = 0 /\ sent[c] = NoCommand

\* What the first n commands of a body have done to the switch.
Progress(o, n) ==
    /\ o.kind = "create" /\ n >= 1 => vlan.state # "absent"
    /\ o.kind = "create" /\ n >= 2 => vlan.state = "named"
    /\ o.kind = "delete" /\ n >= 1 => vlan.state = "absent"
    /\ Interface(o) /\ n >= 1 => o.port \notin access
    /\ o.kind = "pvid" /\ n >= 2 => o.port \in vlan.pvid
    /\ o.kind = "member" /\ n >= 2 => /\ vlan.state # "absent"
                                      /\ o.port \in vlan.member <=> o.mode # "excluded"
    /\ o.kind = "member" /\ n >= 3 => (o.port \in vlan.untagged <=> o.mode = "untagged")

CarriedOut(c) == IF Accepted(c) THEN position[c] + 1 ELSE position[c]

\* A switch that ignores nothing is where the script wants it.
Obeyed(c) ==
    ~ignored =>
        /\ phase[c] = "body" => Progress(op[c], CarriedOut(c))
        /\ phase[c] = "unwind" /\ ~failed[c] => ReadsBack(op[c], vlan)
        /\ phase[c] = "after" => ReadsBack(op[c], vlan)

Dialogue(c) ==
    alive => /\ Framed(c) /\ modes = Stack(op[c], Reached(c))
             /\ CancelledOutside(c) /\ Obeyed(c)

\* ReadsBack, one kind of operation at a time.
LEMMA ReadsBackIs ==
    ASSUME NEW o, NEW t
    PROVE  /\ o.kind = "create" => (ReadsBack(o, t) <=> t.state = "named")
           /\ o.kind = "delete" => (ReadsBack(o, t) <=> t.state = "absent")
           /\ o.kind = "pvid" => (ReadsBack(o, t) <=> o.port \in t.pvid)
           /\ o.kind = "member" =>
                 (ReadsBack(o, t) <=> t.state # "absent" /\ PortMode(t, o.port) = o.mode)
<1>1. CASE o.kind = "create"
  <2>1. o.kind # "delete" /\ o.kind # "pvid" /\ o.kind # "member"
    BY <1>1
  <2> QED
    BY <1>1, <2>1, Zenon DEF ReadsBack
<1>2. CASE o.kind = "delete"
  <2>1. o.kind # "create" /\ o.kind # "pvid" /\ o.kind # "member"
    BY <1>2
  <2> QED
    BY <1>2, <2>1, Zenon DEF ReadsBack
<1>3. CASE o.kind = "pvid"
  <2>1. o.kind # "create" /\ o.kind # "delete" /\ o.kind # "member"
    BY <1>3
  <2> QED
    BY <1>3, <2>1, Zenon DEF ReadsBack
<1>4. CASE o.kind = "member"
  <2>1. o.kind # "create" /\ o.kind # "delete" /\ o.kind # "pvid"
    BY <1>4
  <2> QED
    BY <1>4, <2>1, Zenon DEF ReadsBack
<1> QED
  BY <1>1, <1>2, <1>3, <1>4, Zenon

\* A body that has been carried out to its end is what the verification asks for.
LEMMA ProgressDone ==
    ASSUME NEW o \in Ops, o.kind # "read", Progress(o, Len(Body(o)))
    PROVE  ReadsBack(o, vlan)
<1> DEFINE b == Len(Body(o))
<1>1. /\ o.kind \in {"create", "delete", "member", "pvid"}
      /\ o.kind = "member" => o.mode \in Modes
  BY OpFields
<1>2. Progress(o, b)
  OBVIOUS
<1>3. CASE o.kind = "create"
  <2>1. b = 2
    BY <1>3, CreateBody, Zenon
  <2> HIDE DEF b
  <2>2. vlan.state = "named"
    BY <1>2, <1>3, <2>1 DEF Progress
  <2> QED
    BY <1>3, <2>2, ReadsBackIs, Zenon
<1>4. CASE o.kind = "delete"
  <2>1. b = 1
    BY <1>4, DeleteBody, Zenon
  <2> HIDE DEF b
  <2>2. vlan.state = "absent"
    BY <1>2, <1>4, <2>1 DEF Progress
  <2> QED
    BY <1>4, <2>2, ReadsBackIs, Zenon
<1>5. CASE o.kind = "pvid"
  <2>1. b = 2
    BY <1>5, PvidBody, Zenon
  <2> HIDE DEF b
  <2>2. o.port \in vlan.pvid
    BY <1>2, <1>5, <2>1 DEF Progress
  <2> QED
    BY <1>5, <2>2, ReadsBackIs, Zenon
<1>6. CASE o.kind = "member" /\ o.mode = "excluded"
  <2>1. b = 2
    BY <1>6, ExcludeBody, Zenon
  <2> HIDE DEF b
  <2>2. vlan.state # "absent" /\ o.port \notin vlan.member
    BY <1>2, <1>6, <2>1 DEF Progress
  <2>3. PortMode(vlan, o.port) = o.mode
    BY <1>6, <2>2 DEF PortMode
  <2> QED
    BY <1>6, <2>2, <2>3, ReadsBackIs, Zenon
<1>7. CASE o.kind = "member" /\ o.mode # "excluded"
  <2>1. b = 3
    BY <1>7, IncludeBody, Zenon
  <2> HIDE DEF b
  <2>2. /\ vlan.state # "absent" /\ o.port \in vlan.member
        /\ o.port \in vlan.untagged <=> o.mode = "untagged"
    BY <1>2, <1>7, <2>1 DEF Progress
  <2>3. PortMode(vlan, o.port) = o.mode
    BY <1>1, <1>7, <2>2 DEF PortMode, Modes
  <2> QED
    BY <1>7, <2>2, <2>3, ReadsBackIs, Zenon
<1> QED
  BY <1>1, <1>3, <1>4, <1>5, <1>6, <1>7

\* The stack of an operation at each depth.
LEMMA StackIs ==
    ASSUME NEW o
    PROVE  /\ Stack(o, 0) = <<>>
           /\ Database(o) => Stack(o, 1) = <<"vlan database">> /\ ~Interface(o)
           /\ Interface(o) => /\ Stack(o, 1) = <<"configure">>
                              /\ Stack(o, 2) = <<"configure", o.port>> /\ ~Database(o)
<1>1. Database(o) => ~Interface(o)
  BY DEF Database, Interface
<1>2. Stack(o, 0) = <<>>
  BY DEF Stack
<1>3. 1 # 0 /\ 2 # 0 /\ 2 # 1
  OBVIOUS
<1>4. Database(o) => Stack(o, 1) = <<"vlan database">>
  BY <1>3, Zenon DEF Stack
<1>5. Interface(o) => Stack(o, 1) = <<"configure">>
  BY <1>1, <1>3, Zenon DEF Stack
<1>6. Interface(o) => Stack(o, 2) = <<"configure", o.port>>
  BY <1>1, <1>3, Zenon DEF Stack
<1> QED
  BY <1>1, <1>2, <1>4, <1>5, <1>6, Zenon

\* A command that enters a mode takes the stack one level on.
LEMMA EnterExecuted ==
    ASSUME StatesOK, NEW o \in Ops, NEW n \in 0..1, n < Len(Enter(o)), modes = Stack(o, n),
           Taken(Enter(o)[n + 1]), Apply(Enter(o)[n + 1])
    PROVE  modes' = Stack(o, n + 1) /\ vlan' = vlan /\ access' = access
<1> DEFINE e == Len(Enter(o))
           cmd == Enter(o)[n + 1]
<1>1. o.kind \in {"read", "create", "delete", "member", "pvid"} /\ modes \in ModeStack
  BY OpFields DEF StatesOK, ShellOK
<1>2. n < e /\ Taken(cmd) /\ Apply(cmd)
  OBVIOUS
<1>3. ~(o.kind = "read")
  <2> SUFFICES ASSUME o.kind = "read" PROVE FALSE
    OBVIOUS
  <2>1. e = 0
    BY ReadScripts, Zenon
  <2> HIDE DEF e
  <2> QED
    BY <1>2, <2>1
<1>4. CASE o.kind \in {"create", "delete"}
  <2>1. Database(o)
    BY <1>4 DEF Database
  <2>2. e = 1
    BY <2>1, EnterDatabase, Zenon
  <2>3. Enter(o)[1] = Plain("vlan database")
    BY <2>1, EnterDatabase, Zenon
  <2>4. n = 0
    <3> HIDE DEF e, cmd
    <3> QED
      BY <1>2, <2>2
  <2>5. n + 1 = 1
    BY <2>4
  <2>6. cmd = Plain("vlan database")
    BY <2>3, <2>5, Zenon
  <2>7. cmd \in Command /\ cmd.name = "vlan database"
    BY <2>6, PlainType DEF EnterNames
  <2> HIDE DEF cmd
  <2>8. modes' = <<cmd.name>> /\ vlan' = vlan /\ access' = access
    BY <1>2, <1>1, <2>7, ModeApplies
  <2>9. Stack(o, 1) = <<"vlan database">>
    BY <2>1, StackIs, Zenon
  <2> QED
    BY <2>5, <2>7, <2>8, <2>9
<1>5. CASE o.kind \in {"member", "pvid"} /\ n = 0
  <2>1. Interface(o)
    BY <1>5 DEF Interface
  <2>2. Enter(o)[1] = Plain("configure")
    BY <2>1, EnterPort, Zenon
  <2>3. cmd = Plain("configure")
    BY <1>5, <2>2
  <2>4. cmd \in Command /\ cmd.name = "configure"
    BY <2>3, PlainType DEF EnterNames
  <2> HIDE DEF cmd
  <2>5. modes' = <<cmd.name>> /\ vlan' = vlan /\ access' = access
    BY <1>2, <1>1, <2>4, ModeApplies
  <2>6. Stack(o, 1) = <<"configure">>
    BY <2>1, StackIs, Zenon
  <2> QED
    BY <1>5, <2>4, <2>5, <2>6
<1>6. CASE o.kind \in {"member", "pvid"} /\ n = 1
  <2>1. Interface(o) /\ o.port \in Ports
    BY <1>6, OpFields DEF Interface
  <2>2. Enter(o)[2] = [name |-> "interface", port |-> o.port]
    BY <2>1, EnterPort, Zenon
  <2>3. cmd = [name |-> "interface", port |-> o.port]
    BY <1>6, <2>2
  <2>4. cmd \in Command /\ cmd.name = "interface" /\ cmd.port = o.port
    BY <2>1, <2>3 DEF Command, EnterNames
  <2> HIDE DEF cmd
  <2>5. modes' = <<"configure", cmd.port>> /\ vlan' = vlan /\ access' = access
    BY <1>2, <1>1, <2>4, InterfaceApplies, Zenon
  <2>6. Stack(o, 2) = <<"configure", o.port>>
    BY <2>1, StackIs, Zenon
  <2> QED
    BY <1>6, <2>4, <2>5, <2>6
<1> QED
  BY <1>1, <1>3, <1>4, <1>5, <1>6

\* exit takes it one level back.
LEMMA ExitExecuted ==
    ASSUME StatesOK, NEW o \in Ops, NEW n \in 1..2, n <= Len(Enter(o)), modes = Stack(o, n),
           NEW cmd \in Command, cmd.name = "exit", Apply(cmd)
    PROVE  modes' = Stack(o, n - 1) /\ vlan' = vlan /\ access' = access
<1> DEFINE e == Len(Enter(o))
<1>1. o.kind \in {"read", "create", "delete", "member", "pvid"} /\ modes \in ModeStack
  BY OpFields DEF StatesOK, ShellOK
<1>2. /\ vlan' = vlan /\ access' = access
      /\ modes = <<"vlan database">> => modes' = <<>>
      /\ modes = <<"configure">> => modes' = <<>>
      /\ \A p \in Ports : modes = <<"configure", p>> => modes' = <<"configure">>
  BY <1>1, ExitApplies, Zenon
<1>3. n <= e
  OBVIOUS
<1>4. ~(o.kind = "read")
  <2> SUFFICES ASSUME o.kind = "read" PROVE FALSE
    OBVIOUS
  <2>1. e = 0
    BY ReadScripts, Zenon
  <2> HIDE DEF e
  <2> QED
    BY <1>3, <2>1
<1>5. CASE o.kind \in {"create", "delete"}
  <2>1. Database(o)
    BY <1>5 DEF Database
  <2>2. e = 1
    BY <2>1, EnterDatabase, Zenon
  <2>3. n = 1
    <3> HIDE DEF e
    <3> QED
      BY <1>3, <2>2
  <2>4. Stack(o, 1) = <<"vlan database">> /\ Stack(o, 0) = <<>>
    BY <2>1, StackIs, Zenon
  <2>5. modes' = <<>>
    BY <1>2, <2>3, <2>4, Zenon
  <2>6. n - 1 = 0
    BY <2>3
  <2> QED
    BY <1>2, <2>4, <2>5, <2>6
<1>6. CASE o.kind \in {"member", "pvid"} /\ n = 1
  <2>1. Interface(o)
    BY <1>6 DEF Interface
  <2>2. Stack(o, 1) = <<"configure">> /\ Stack(o, 0) = <<>>
    BY <2>1, StackIs, Zenon
  <2>3. modes' = <<>>
    BY <1>2, <1>6, <2>2, Zenon
  <2> QED
    BY <1>2, <1>6, <2>2, <2>3
<1>7. CASE o.kind \in {"member", "pvid"} /\ n = 2
  <2>1. Interface(o) /\ o.port \in Ports
    BY <1>7, OpFields DEF Interface
  <2>2. Stack(o, 2) = <<"configure", o.port>> /\ Stack(o, 1) = <<"configure">>
    BY <2>1, StackIs, Zenon
  <2>3. modes' = <<"configure">>
    BY <1>2, <1>7, <2>1, <2>2, Zenon
  <2>4. n - 1 = 1
    BY <1>7
  <2> QED
    BY <1>2, <2>2, <2>3, <2>4
<1> QED
  BY <1>1, <1>4, <1>5, <1>6, <1>7

\* A command of a port dialogue, at the operation's port.
LEMMA PortCommand ==
    ASSUME StatesOK, NEW o \in Ops, Interface(o), modes = Stack(o, Len(Enter(o))),
           NEW name \in PortNames, Taken(Plain(name)), Apply(Plain(name))
    PROVE  /\ modes' = modes /\ o.port \in Ports
           /\ access' \subseteq access
           /\ name = "general" => o.port \notin access' /\ vlan' = vlan
           /\ name # "general" => vlan.state # "absent"
           /\ o.port \notin access =>
                 /\ name = "include" => vlan' = [vlan EXCEPT !.member = @ \union {o.port},
                                                             !.untagged = @ \union {o.port}]
                 /\ name = "exclude" => vlan' = [vlan EXCEPT !.member = @ \ {o.port},
                                                             !.untagged = @ \ {o.port}]
                 /\ name = "tagging" => vlan' = [vlan EXCEPT !.untagged = @ \ {o.port}]
                 /\ name = "no tagging" => vlan' = [vlan EXCEPT !.untagged = @ \union {o.port}]
                 /\ name = "pvid" => vlan' = [vlan EXCEPT !.pvid = @ \union {o.port}]
<1> DEFINE cmd == Plain(name)
           e == Len(Enter(o))
           p == o.port
<1>1. cmd \in Command /\ cmd.name = name
  BY PlainType
<1>2. Taken(cmd) /\ Apply(cmd) /\ modes = Stack(o, e)
  OBVIOUS
<1>3. p \in Ports /\ modes \in ModeStack
  BY OpFields DEF Interface, StatesOK, ShellOK
<1>4. e = 2
  BY EnterPort, Zenon
<1> HIDE DEF e, cmd
<1>5. modes = <<"configure", o.port>>
  <2>1. modes = Stack(o, 2)
    BY <1>2, <1>4, Zenon
  <2> QED
    BY <2>1, StackIs, Zenon
<1>6. Mode = p
  BY <1>3, <1>5, ModeIs, Zenon
<1>7. modes' = modes /\ SetPort(cmd, p)
  BY <1>2, <1>1, <1>6, PortApplies
<1>8. name # "general" => vlan.state # "absent"
  <2> SUFFICES ASSUME name # "general" PROVE vlan.state # "absent"
    OBVIOUS
  <2>1. NeedsVlan(cmd)
    BY <1>1 DEF NeedsVlan
  <2> QED
    BY <1>2, <2>1 DEF Taken
<1> HIDE DEF p
<1>9. /\ access' = IF name = "general" THEN access \ {p} ELSE access
      /\ name = "general" => vlan' = vlan
      /\ p \notin access =>
            /\ name = "include" => vlan' =
                   [vlan EXCEPT !.member = @ \union {p}, !.untagged = @ \union {p}]
            /\ name = "exclude" => vlan' =
                   [vlan EXCEPT !.member = @ \ {p}, !.untagged = @ \ {p}]
            /\ name = "tagging" => vlan' = [vlan EXCEPT !.untagged = @ \ {p}]
            /\ name = "no tagging" => vlan' = [vlan EXCEPT !.untagged = @ \union {p}]
            /\ name = "pvid" => vlan' = [vlan EXCEPT !.pvid = @ \union {p}]
  BY <1>1, <1>3, <1>7, PortSet, Zenon
<1>10. /\ access' \subseteq access
      /\ name = "general" => p \notin access'
  BY <1>9
<1> QED
  BY <1>3, <1>7, <1>8, <1>9, <1>10, Zenon DEF p

\* A command of a VLAN database dialogue.
LEMMA DatabaseCommand ==
    ASSUME NEW name \in DbNames, Taken(Plain(name)), Apply(Plain(name))
    PROVE  /\ modes' = modes /\ access' = access
           /\ name = "vlan" /\ vlan.state = "absent"
                 => vlan' = [NoVlan EXCEPT !.state = "unnamed"]
           /\ name = "vlan" /\ vlan.state # "absent" => vlan' = vlan
           /\ name = "vlan name" => vlan' = [vlan EXCEPT !.state = "named"]
           /\ name = "no vlan" => vlan' = NoVlan
<1> DEFINE cmd == Plain(name)
<1>1. cmd \in Command /\ cmd.name = name
  BY PlainType
<1>2. Taken(cmd) /\ Apply(cmd)
  OBVIOUS
<1> HIDE DEF cmd
<1>3. modes' = modes /\ SetVlan(cmd) /\ access' = access
  BY <1>1, <1>2, DatabaseApplies
<1> QED
  BY <1>1, <1>3, VlanSet, Zenon

\* The n-th command of a body is one of these.
LEMMA BodyKind ==
    ASSUME NEW o \in Ops, NEW n \in 0..2, n < Len(Body(o))
    PROVE  \/ o.kind = "create" /\ n = 0 /\ Body(o)[n + 1] = Plain("vlan")
           \/ o.kind = "create" /\ n = 1 /\ Body(o)[n + 1] = Plain("vlan name")
           \/ o.kind = "delete" /\ n = 0 /\ Body(o)[n + 1] = Plain("no vlan")
           \/ Interface(o) /\ n = 0 /\ Body(o)[n + 1] = Plain("general")
           \/ o.kind = "pvid" /\ n = 1 /\ Body(o)[n + 1] = Plain("pvid")
           \/ /\ o.kind = "member" /\ o.mode = "excluded" /\ n = 1
              /\ Body(o)[n + 1] = Plain("exclude")
           \/ /\ o.kind = "member" /\ o.mode # "excluded" /\ n = 1
              /\ Body(o)[n + 1] = Plain("include")
           \/ /\ o.kind = "member" /\ o.mode = "tagged" /\ n = 2
              /\ Body(o)[n + 1] = Plain("tagging")
           \/ /\ o.kind = "member" /\ o.mode = "untagged" /\ n = 2
              /\ Body(o)[n + 1] = Plain("no tagging")
<1> DEFINE b == Len(Body(o))
<1>1. o.kind \in {"read", "create", "delete", "member", "pvid"}
  BY OpFields
<1>2. n < b
  OBVIOUS
<1>3. /\ n = 0 => n + 1 = 1
      /\ n = 1 => n + 1 = 2
      /\ n = 2 => n + 1 = 3
      /\ n = 0 \/ n = 1 \/ n = 2
  OBVIOUS
<1>4. ~(o.kind = "read")
  <2> SUFFICES ASSUME o.kind = "read" PROVE FALSE
    OBVIOUS
  <2>1. b = 0
    BY ReadScripts, Zenon
  <2> HIDE DEF b
  <2> QED
    BY <1>2, <2>1
<1>5. CASE o.kind = "create"
  <2>1. b = 2
    BY <1>5, CreateBody, Zenon
  <2>2. Body(o)[1] = Plain("vlan") /\ Body(o)[2] = Plain("vlan name")
    BY <1>5, CreateBody, Zenon
  <2>3. n # 2
    <3> HIDE DEF b
    <3> QED
      BY <1>2, <2>1
  <2> QED
    BY <1>3, <1>5, <2>2, <2>3, Zenon
<1>6. CASE o.kind = "delete"
  <2>1. b = 1
    BY <1>6, DeleteBody, Zenon
  <2>2. Body(o)[1] = Plain("no vlan")
    BY <1>6, DeleteBody, Zenon
  <2>3. n = 0
    <3> HIDE DEF b
    <3> QED
      BY <1>2, <2>1
  <2> QED
    BY <1>3, <1>6, <2>2, <2>3, Zenon
<1>7. CASE o.kind = "pvid"
  <2>1. b = 2
    BY <1>7, PvidBody, Zenon
  <2>2. Body(o)[1] = Plain("general") /\ Body(o)[2] = Plain("pvid")
    BY <1>7, PvidBody, Zenon
  <2>3. n # 2
    <3> HIDE DEF b
    <3> QED
      BY <1>2, <2>1
  <2>4. Interface(o)
    BY <1>7 DEF Interface
  <2> QED
    BY <1>3, <1>7, <2>2, <2>3, <2>4, Zenon
<1>8. CASE o.kind = "member" /\ o.mode = "excluded"
  <2>1. b = 2
    BY <1>8, ExcludeBody, Zenon
  <2>2. Body(o)[1] = Plain("general") /\ Body(o)[2] = Plain("exclude")
    BY <1>8, ExcludeBody, Zenon
  <2>3. n # 2
    <3> HIDE DEF b
    <3> QED
      BY <1>2, <2>1
  <2>4. Interface(o)
    BY <1>8 DEF Interface
  <2> QED
    BY <1>3, <1>8, <2>2, <2>3, <2>4, Zenon
<1>9. CASE o.kind = "member" /\ o.mode # "excluded"
  <2> DEFINE last == IF o.mode = "tagged" THEN "tagging" ELSE "no tagging"
  <2>1. Body(o)[1] = Plain("general") /\ Body(o)[2] = Plain("include") /\ Body(o)[3] = Plain(last)
    BY <1>9, IncludeBody, Zenon
  <2>2. o.mode = "tagged" \/ o.mode = "untagged"
    BY <1>9, OpFields DEF Modes
  <2>3. /\ o.mode = "tagged" => last = "tagging"
        /\ o.mode = "untagged" => last = "no tagging"
    OBVIOUS
  <2>4. Interface(o)
    BY <1>9 DEF Interface
  <2> HIDE DEF last
  <2>5. CASE n = 0
    BY <1>3, <1>9, <2>1, <2>4, <2>5, Zenon
  <2>6. CASE n = 1
    BY <1>3, <1>9, <2>1, <2>6, Zenon
  <2>7. CASE n = 2
    <3>1. Body(o)[n + 1] = Plain(last)
      BY <1>3, <2>1, <2>7, Zenon
    <3> QED
      BY <1>9, <2>2, <2>3, <2>7, <3>1, Zenon
  <2> QED
    BY <1>3, <2>5, <2>6, <2>7, Zenon
<1> QED
  BY <1>1, <1>4, <1>5, <1>6, <1>7, <1>8, <1>9, Zenon

\* A command of a body that the shell carries out takes the operation one step on.
LEMMA BodyExecuted ==
    ASSUME StatesOK, NEW o \in Ops, NEW n \in 0..2, n < Len(Body(o)),
           modes = Stack(o, Len(Enter(o))), Taken(Body(o)[n + 1]), Apply(Body(o)[n + 1])
    PROVE  modes' = modes /\ (Progress(o, n) => Progress(o, n + 1)')
<1> DEFINE cmd == Body(o)[n + 1]
           Does(name) == cmd = Plain(name)
           on == modes = Stack(o, Len(Enter(o)))
<1>1. Taken(cmd) /\ Apply(cmd) /\ on
  OBVIOUS
<1>2. vlan \in Table
  BY DEF StatesOK, ShellOK
<1>3. /\ Database(o) <=> o.kind \in {"create", "delete"}
      /\ Interface(o) <=> o.kind \in {"member", "pvid"}
  BY DEF Database, Interface
<1>4. \/ o.kind = "create" /\ n = 0 /\ Does("vlan")
      \/ o.kind = "create" /\ n = 1 /\ Does("vlan name")
      \/ o.kind = "delete" /\ n = 0 /\ Does("no vlan")
      \/ Interface(o) /\ n = 0 /\ Does("general")
      \/ o.kind = "pvid" /\ n = 1 /\ Does("pvid")
      \/ o.kind = "member" /\ o.mode = "excluded" /\ n = 1 /\ Does("exclude")
      \/ o.kind = "member" /\ o.mode # "excluded" /\ n = 1 /\ Does("include")
      \/ o.kind = "member" /\ o.mode = "tagged" /\ n = 2 /\ Does("tagging")
      \/ o.kind = "member" /\ o.mode = "untagged" /\ n = 2 /\ Does("no tagging")
  BY BodyKind, Zenon
<1>5. ASSUME NEW name \in DbNames, Does(name)
      PROVE  Taken(Plain(name)) /\ Apply(Plain(name))
  BY <1>1, <1>5, Zenon
<1>6. ASSUME NEW name \in PortNames, Does(name), Interface(o)
      PROVE  Taken(Plain(name)) /\ Apply(Plain(name))
  BY <1>1, <1>6, Zenon
<1> HIDE DEF cmd
<1>7. CASE o.kind = "create" /\ n = 0 /\ Does("vlan")
  <2>1. /\ modes' = modes /\ access' = access
        /\ vlan.state = "absent" => vlan' = [NoVlan EXCEPT !.state = "unnamed"]
        /\ vlan.state # "absent" => vlan' = vlan
    <3>1. "vlan" \in DbNames
      BY DEF DbNames
    <3> QED
      BY <1>5, <1>7, <3>1, DatabaseCommand, Zenon
  <2>2. vlan'.state # "absent"
    BY <2>1 DEF NoVlan
  <2> QED
    BY <1>3, <1>7, <2>1, <2>2 DEF Progress
<1>8. CASE o.kind = "create" /\ n = 1 /\ Does("vlan name")
  <2>1. modes' = modes /\ access' = access /\ vlan' = [vlan EXCEPT !.state = "named"]
    <3>1. "vlan name" \in DbNames
      BY DEF DbNames
    <3> QED
      BY <1>5, <1>8, <3>1, DatabaseCommand, Zenon
  <2>2. vlan'.state = "named"
    BY <1>2, <2>1 DEF Table
  <2> QED
    BY <1>3, <1>8, <2>1, <2>2 DEF Progress
<1>9. CASE o.kind = "delete" /\ n = 0 /\ Does("no vlan")
  <2>1. modes' = modes /\ access' = access /\ vlan' = NoVlan
    <3>1. "no vlan" \in DbNames
      BY DEF DbNames
    <3> QED
      BY <1>5, <1>9, <3>1, DatabaseCommand, Zenon
  <2>2. vlan'.state = "absent"
    BY <2>1 DEF NoVlan
  <2> QED
    BY <1>3, <1>9, <2>1, <2>2 DEF Progress
<1>10. CASE Interface(o) /\ n = 0 /\ Does("general")
  <2>1. modes' = modes /\ o.port \notin access'
    <3>1. "general" \in PortNames
      BY DEF PortNames
    <3> QED
      BY <1>6, <1>10, <3>1, PortCommand, Zenon
  <2> QED
    BY <1>3, <1>10, <2>1 DEF Progress
<1>11. ASSUME NEW name \in PortNames, name # "general", Does(name), Interface(o)
      PROVE  /\ modes' = modes /\ access' \subseteq access /\ vlan.state # "absent"
             /\ o.port \notin access =>
                   /\ name = "include" => vlan' = [vlan EXCEPT !.member = @ \union {o.port},
                                                               !.untagged = @ \union {o.port}]
                   /\ name = "exclude" => vlan' = [vlan EXCEPT !.member = @ \ {o.port},
                                                               !.untagged = @ \ {o.port}]
                   /\ name = "tagging" => vlan' = [vlan EXCEPT !.untagged = @ \ {o.port}]
                   /\ name = "no tagging" => vlan' = [vlan EXCEPT !.untagged = @ \union {o.port}]
                   /\ name = "pvid" => vlan' = [vlan EXCEPT !.pvid = @ \union {o.port}]
  <2>1. Taken(Plain(name)) /\ Apply(Plain(name))
    BY <1>6, <1>11
  <2> QED
    BY <1>11, <2>1, PortCommand, Zenon
<1>12. ASSUME Interface(o), n = 1 \/ n = 2, Progress(o, n) PROVE o.port \notin access
  BY <1>12 DEF Progress
<1>13. CASE o.kind = "pvid" /\ n = 1 /\ Does("pvid")
  <2>1. "pvid" \in PortNames /\ Interface(o)
    BY <1>3, <1>13 DEF PortNames
  <2>2. /\ modes' = modes /\ access' \subseteq access
        /\ o.port \notin access => vlan' = [vlan EXCEPT !.pvid = @ \union {o.port}]
    BY <1>11, <1>13, <2>1
  <2>3. ASSUME Progress(o, n) PROVE Progress(o, n + 1)'
    <3>1. o.port \notin access'
      BY <1>12, <1>13, <2>1, <2>2, <2>3
    <3>2. o.port \in vlan'.pvid
      BY <1>2, <1>12, <1>13, <2>1, <2>2, <2>3 DEF Table
    <3> QED
      BY <1>13, <3>1, <3>2 DEF Progress
  <2> QED
    BY <2>2, <2>3
<1>14. CASE o.kind = "member" /\ o.mode = "excluded" /\ n = 1 /\ Does("exclude")
  <2>1. "exclude" \in PortNames /\ Interface(o)
    BY <1>3, <1>14 DEF PortNames
  <2>2. /\ modes' = modes /\ access' \subseteq access /\ vlan.state # "absent"
        /\ o.port \notin access => vlan' = [vlan EXCEPT !.member = @ \ {o.port},
                                                        !.untagged = @ \ {o.port}]
    BY <1>11, <1>14, <2>1
  <2>3. ASSUME Progress(o, n) PROVE Progress(o, n + 1)'
    <3>1. o.port \notin access
      BY <1>12, <1>14, <2>1, <2>3, Zenon
    <3>2. o.port \notin access'
      BY <2>2, <3>1
    <3>3. vlan' = [vlan EXCEPT !.member = @ \ {o.port}, !.untagged = @ \ {o.port}]
      BY <2>2, <3>1
    <3>4. vlan'.state # "absent" /\ o.port \notin vlan'.member
      BY <1>2, <2>2, <3>3 DEF Table
    <3> QED
      BY <1>14, <3>2, <3>4 DEF Progress
  <2> QED
    BY <2>2, <2>3
<1>15. CASE o.kind = "member" /\ o.mode # "excluded" /\ n = 1 /\ Does("include")
  <2>1. "include" \in PortNames /\ Interface(o)
    BY <1>3, <1>15 DEF PortNames
  <2>2. /\ modes' = modes /\ access' \subseteq access /\ vlan.state # "absent"
        /\ o.port \notin access => vlan' = [vlan EXCEPT !.member = @ \union {o.port},
                                                        !.untagged = @ \union {o.port}]
    BY <1>11, <1>15, <2>1
  <2>3. ASSUME Progress(o, n) PROVE Progress(o, n + 1)'
    <3>1. o.port \notin access
      BY <1>12, <1>15, <2>1, <2>3, Zenon
    <3>2. o.port \notin access'
      BY <2>2, <3>1
    <3>3. vlan' = [vlan EXCEPT !.member = @ \union {o.port}, !.untagged = @ \union {o.port}]
      BY <2>2, <3>1
    <3>4. vlan'.state # "absent" /\ o.port \in vlan'.member
      BY <1>2, <2>2, <3>3 DEF Table
    <3> QED
      BY <1>15, <3>2, <3>4 DEF Progress
  <2> QED
    BY <2>2, <2>3
<1>16. CASE o.kind = "member" /\ o.mode = "tagged" /\ n = 2 /\ Does("tagging")
  <2>1. "tagging" \in PortNames /\ Interface(o)
    BY <1>3, <1>16 DEF PortNames
  <2>2. /\ modes' = modes /\ access' \subseteq access /\ vlan.state # "absent"
        /\ o.port \notin access => vlan' = [vlan EXCEPT !.untagged = @ \ {o.port}]
    BY <1>11, <1>16, <2>1
  <2>3. ASSUME Progress(o, n) PROVE Progress(o, n + 1)'
    <3>1. o.port \notin access
      BY <1>12, <1>16, <2>1, <2>3, Zenon
    <3>2. vlan' = [vlan EXCEPT !.untagged = @ \ {o.port}] /\ o.port \notin access'
      BY <2>2, <3>1
    <3>3. n >= 2 /\ o.mode # "excluded"
      BY <1>16
    <3>4. o.port \in vlan.member
      BY <1>16, <2>3, <3>3 DEF Progress
    <3>5. vlan'.state # "absent" /\ o.port \in vlan'.member /\ o.port \notin vlan'.untagged
      BY <1>2, <2>2, <3>2, <3>4 DEF Table
    <3> QED
      BY <1>16, <3>2, <3>5 DEF Progress
  <2> QED
    BY <2>2, <2>3
<1>17. CASE o.kind = "member" /\ o.mode = "untagged" /\ n = 2 /\ Does("no tagging")
  <2>1. "no tagging" \in PortNames /\ Interface(o)
    BY <1>3, <1>17 DEF PortNames
  <2>2. /\ modes' = modes /\ access' \subseteq access /\ vlan.state # "absent"
        /\ o.port \notin access => vlan' = [vlan EXCEPT !.untagged = @ \union {o.port}]
    BY <1>11, <1>17, <2>1
  <2>3. ASSUME Progress(o, n) PROVE Progress(o, n + 1)'
    <3>1. o.port \notin access
      BY <1>12, <1>17, <2>1, <2>3, Zenon
    <3>2. vlan' = [vlan EXCEPT !.untagged = @ \union {o.port}] /\ o.port \notin access'
      BY <2>2, <3>1
    <3>3. n = 2 /\ o.mode = "untagged"
      BY <1>17, Zenon
    <3>4. n >= 2 /\ o.mode # "excluded"
      BY <3>3
    <3>5. o.port \in vlan.member
      BY <1>17, <2>3, <3>4 DEF Progress
    <3>6. vlan'.state # "absent" /\ o.port \in vlan'.member /\ o.port \in vlan'.untagged
      BY <1>2, <2>2, <3>2, <3>5 DEF Table
    <3> QED
      BY <1>17, <3>2, <3>6 DEF Progress
  <2> QED
    BY <2>2, <2>3
<1> QED
  BY <1>4, <1>7, <1>8, <1>9, <1>10, <1>13, <1>14, <1>15, <1>16, <1>17, Zenon

\* The answers of the shell to the line Run has typed.
LEMMA LineTyped ==
    ASSUME StatesOK, NEW c \in Callers, Framed(c), typed # <<>>
    PROVE  /\ sent[c] # NoCommand /\ output = <<>>
           /\ Head(typed).cmd = sent[c] /\ Tail(typed) = <<>>
<1> DEFINE l == [cmd |-> sent[c], for |-> op[c]]
<1>1. sent[c] # NoCommand /\ typed = <<l>> /\ output = <<>>
  BY Zenon DEF Framed
<1>2. l.cmd = sent[c]
  OBVIOUS
<1> HIDE DEF l
<1>3. Head(<<l>>) = l /\ Tail(<<l>>) = <<>>
  OBVIOUS
<1> QED
  BY <1>1, <1>2, <1>3

LEMMA Answers ==
    ASSUME alive, output = <<>>, NEW cmd, NEW accepted, Prompt(cmd, accepted)
    PROVE  /\ output' # <<>> /\ Len(output') = 1 /\ output'[1].cmd = cmd
           /\ output'[1].accepted = accepted /\ output'[1].table = vlan
<1> DEFINE a == [cmd |-> cmd, accepted |-> accepted, table |-> vlan]
<1>1. output' = Append(<<>>, a)
  BY DEF Prompt
<1>2. a.cmd = cmd /\ a.accepted = accepted /\ a.table = vlan
  OBVIOUS
<1> HIDE DEF a
<1>3. output' = <<a>>
  BY <1>1, PushPop, Zenon
<1>4. output' # <<>> /\ Len(output') = 1 /\ output'[1] = a
  BY <1>3, PushPop, Single, Zenon
<1> QED
  BY <1>2, <1>4, Zenon

\* When the answer comes, Run is still waiting for it.
LEMMA AnswerFramed ==
    ASSUME StatesOK, NEW c \in Callers, Framed(c), alive, typed # <<>>, callVars' = callVars,
           typed' = Tail(typed), NEW accepted \in BOOLEAN, Prompt(Head(typed).cmd, accepted),
           sent[c].name = "show" => vlan' = vlan
    PROVE  /\ Framed(c)' /\ ~Answered(c) /\ Answered(c)' /\ (Accepted(c)' <=> accepted)
           /\ Reached(c) = entered[c]
<1>1. /\ sent[c] # NoCommand /\ output = <<>>
      /\ Head(typed).cmd = sent[c] /\ Tail(typed) = <<>>
  BY LineTyped
<1>2. /\ output' # <<>> /\ Len(output') = 1 /\ output'[1].cmd = sent[c]
      /\ output'[1].accepted = accepted /\ output'[1].table = vlan
  BY <1>1, Answers, Zenon
<1>3. sent'[c] = sent[c] /\ phase'[c] = phase[c] /\ entered'[c] = entered[c]
  BY DEF callVars
<1>4. Framed(c)'
  BY <1>1, <1>2, <1>3 DEF Framed
<1>5. ~Answered(c) /\ ~Accepted(c)
  BY <1>1 DEF Answered, Accepted
<1>6. Answered(c)'
  BY <1>1, <1>2, <1>3 DEF Answered
<1>7. Accepted(c)' <=> accepted
  BY <1>2, <1>6 DEF Accepted
<1>8. Reached(c) = entered[c]
  BY <1>5 DEF Reached
<1> QED
  BY <1>4, <1>5, <1>6, <1>7, <1>8

LEMMA NextOf ==
    ASSUME NEW c
    PROVE  /\ phase[c] = "enter" => NextCommand(c) = Enter(op[c])[position[c] + 1]
           /\ phase[c] = "body" => NextCommand(c) = Body(op[c])[position[c] + 1]
<1>1. phase[c] = "enter" =>
         phase[c] \notin {"before", "after"} /\ phase[c] # "body" /\ phase[c] # "unwind"
  OBVIOUS
<1>2. phase[c] = "body" =>
         phase[c] \notin {"before", "after"} /\ phase[c] # "enter" /\ phase[c] # "unwind"
  OBVIOUS
<1>3. phase[c] = "enter" => NextCommand(c) = Enter(op[c])[position[c] + 1]
  BY <1>1, Zenon DEF NextCommand
<1>4. phase[c] = "body" => NextCommand(c) = Body(op[c])[position[c] + 1]
  BY <1>2, Zenon DEF NextCommand
<1> QED
  BY <1>3, <1>4

\* The shell carries out a line.
LEMMA ExecuteKeeps ==
    ASSUME StatesOK, NEW c \in Callers, Shape(c), Dialogue(c), alive, Execute
    PROVE  Dialogue(c)'
<1> DEFINE cmd == sent[c]
           o == op[c]
           e == Len(Enter(o))
           b == Len(Body(o))
<1>1. /\ Framed(c) /\ modes = Stack(o, Reached(c)) /\ CancelledOutside(c) /\ Obeyed(c)
  BY DEF Dialogue
<1>2. /\ typed # <<>> /\ Taken(Head(typed).cmd) /\ Apply(Head(typed).cmd)
      /\ Prompt(Head(typed).cmd, TRUE) /\ typed' = Tail(typed)
      /\ callVars' = callVars /\ alive' = alive /\ ignored' = ignored
  BY DEF Execute
<1>3. sent[c] # NoCommand /\ Head(typed).cmd = cmd
  BY <1>1, <1>2, LineTyped
<1>4. /\ phase[c] \in {"before", "enter", "body", "unwind", "after"}
      /\ entered[c] \in 0..2 /\ position[c] \in 0..3 /\ o \in Ops
      /\ failed[c] \in BOOLEAN /\ ignored \in BOOLEAN
  BY <1>3, ReadsFor DEF StatesOK, ScriptOK, CallOK, ShellOK
<1>5. /\ cmd \in Command /\ cmd = NextCommand(c)
      /\ cmd.name = "show" <=> phase[c] \in {"before", "after"}
      /\ cmd.name = "exit" <=> phase[c] = "unwind"
  BY <1>3, <1>4, ReadsFor DEF Shape
<1>6. Taken(cmd) /\ Apply(cmd)
  BY <1>2, <1>3, Zenon
<1>7. e \in 0..2 /\ b \in 0..3
  BY <1>4, ScriptLengths
<1>8. /\ op'[c] = o /\ phase'[c] = phase[c] /\ position'[c] = position[c]
      /\ entered'[c] = entered[c] /\ failed'[c] = failed[c] /\ sent'[c] = sent[c]
      /\ cancelled'[c] = cancelled[c]
  BY <1>2 DEF callVars
<1>9. cmd.name = "show" => modes' = modes /\ vlan' = vlan /\ access' = access
  BY <1>5, <1>6, ShowApplies
<1>10. /\ Framed(c)' /\ ~Answered(c) /\ Answered(c)' /\ Accepted(c)'
       /\ Reached(c) = entered[c]
  BY <1>1, <1>2, <1>3, <1>9, AnswerFramed
<1>11. modes = Stack(o, entered[c])
  BY <1>1, <1>10
<1>12. /\ phase[c] = "enter" => entered[c] = position[c] /\ position[c] < e
       /\ phase[c] = "body" => entered[c] = e /\ position[c] < b
       /\ phase[c] = "unwind" => entered[c] > 0 /\ entered[c] <= e
  BY DEF Shape
<1>13. /\ phase[c] = "enter" => Reached(c)' = entered[c] + 1
       /\ phase[c] = "unwind" => Reached(c)' = entered[c] - 1
       /\ phase[c] \in {"before", "body", "after"} => Reached(c)' = entered[c]
  BY <1>8, <1>10 DEF Reached
<1>14. CancelledOutside(c)'
  BY <1>1, <1>8 DEF CancelledOutside
<1> HIDE DEF cmd, e, b
<1>15. CASE phase[c] \in {"before", "after"}
  <2>1. modes' = modes /\ vlan' = vlan /\ access' = access
    BY <1>5, <1>9, <1>15
  <2>2. modes' = Stack(o, Reached(c)')
    BY <1>11, <1>13, <1>15, <2>1
  <2>3. Obeyed(c)'
    BY <1>1, <1>2, <1>8, <1>15, <2>1 DEF Obeyed
  <2> QED
    BY <1>8, <1>10, <1>14, <2>2, <2>3 DEF Dialogue
<1>16. CASE phase[c] = "enter"
  <2> DEFINE n == position[c]
  <2>1. n \in 0..1 /\ n < e
    BY <1>4, <1>7, <1>12, <1>16
  <2>2. cmd = Enter(o)[n + 1] /\ modes = Stack(o, n)
    BY <1>5, <1>11, <1>12, <1>16, NextOf
  <2> HIDE DEF n
  <2>3. Taken(Enter(o)[n + 1]) /\ Apply(Enter(o)[n + 1])
    BY <1>6, <2>2, Zenon
  <2>4. modes' = Stack(o, n + 1)
    BY <1>4, <2>1, <2>2, <2>3, EnterExecuted DEF e
  <2>5. modes' = Stack(o, Reached(c)')
    BY <1>12, <1>13, <1>16, <2>4 DEF n
  <2>6. Obeyed(c)'
    BY <1>8, <1>16 DEF Obeyed
  <2> QED
    BY <1>8, <1>10, <1>14, <2>5, <2>6 DEF Dialogue
<1>17. CASE phase[c] = "body"
  <2>1. PICK k \in Ops : k = o
    BY <1>4
  <2>2. PICK n \in 0..3 : n = position[c]
    BY <1>4
  <2>3. n \in 0..2 /\ n < b
    BY <1>4, <1>7, <1>12, <1>17, <2>2
  <2>4. cmd = Body(k)[n + 1] /\ modes = Stack(k, e)
    BY <1>5, <1>11, <1>12, <1>17, <2>1, <2>2, NextOf
  <2>5. CarriedOut(c) = n /\ CarriedOut(c)' = n + 1
    BY <1>8, <1>10, <2>2 DEF CarriedOut, Accepted
  <2>6. Taken(Body(k)[n + 1]) /\ Apply(Body(k)[n + 1])
    BY <1>6, <2>4, Zenon
  <2>7. n < Len(Body(k)) /\ modes = Stack(k, Len(Enter(k)))
    BY <2>1, <2>3, <2>4 DEF b, e
  <2>8. modes' = modes /\ (Progress(k, n) => Progress(k, n + 1)')
    BY <2>3, <2>6, <2>7, BodyExecuted, Zenon
  <2>9. modes' = Stack(o, Reached(c)')
    BY <1>11, <1>13, <1>17, <2>8
  <2>10. ~ignored => Progress(k, n)
    BY <1>1, <1>17, <2>1, <2>5 DEF Obeyed
  <2>11. Obeyed(c)'
    <3>1. SUFFICES ASSUME ~ignored' PROVE Progress(op[c], CarriedOut(c))'
      BY <1>8, <1>17, Zenon DEF Obeyed
    <3>2. Progress(k, n + 1)'
      BY <1>2, <2>8, <2>10, <3>1, Zenon
    <3>3. k = op'[c] /\ CarriedOut(c)' = n + 1
      BY <1>8, <2>1, <2>5
    <3> QED
      BY <3>2, <3>3
  <2> QED
    BY <1>8, <1>10, <1>14, <2>9, <2>11 DEF Dialogue
<1>18. CASE phase[c] = "unwind"
  <2> DEFINE n == entered[c]
  <2>1. n \in 1..2 /\ n <= e
    BY <1>4, <1>7, <1>12, <1>18
  <2>2. cmd.name = "exit" /\ modes = Stack(o, n)
    BY <1>5, <1>11, <1>18
  <2> HIDE DEF n
  <2>3. modes' = Stack(o, n - 1) /\ vlan' = vlan /\ access' = access
    BY <1>4, <1>5, <1>6, <2>1, <2>2, ExitExecuted DEF e
  <2>4. modes' = Stack(o, Reached(c)')
    BY <1>13, <1>18, <2>3 DEF n
  <2>5. Obeyed(c)'
    BY <1>1, <1>2, <1>8, <1>18, <2>3 DEF Obeyed
  <2> QED
    BY <1>8, <1>10, <1>14, <2>4, <2>5 DEF Dialogue
<1> QED
  BY <1>4, <1>15, <1>16, <1>17, <1>18

\* With the switch as it was, a call that has not moved on is obeyed as before.
LEMMA ObeyedKept ==
    ASSUME NEW c \in Callers, Obeyed(c), op'[c] = op[c], phase'[c] = phase[c],
           failed'[c] = failed[c], CarriedOut(c)' = CarriedOut(c),
           vlan' = vlan, access' = access, ignored' = ignored
    PROVE  Obeyed(c)'
<1>1. Progress(op[c], CarriedOut(c)) => Progress(op[c], CarriedOut(c))'
  BY DEF Progress
<1>2. ReadsBack(op[c], vlan) => ReadsBack(op[c], vlan)'
  BY Zenon
<1> QED
  BY <1>1, <1>2, Zenon DEF Obeyed

\* The shell accepts a line and does nothing.
LEMMA IgnoreKeeps ==
    ASSUME StatesOK, NEW c \in Callers, Shape(c), Dialogue(c), alive, Ignore
    PROVE  Dialogue(c)'
<1>1. /\ Framed(c) /\ modes = Stack(op[c], Reached(c)) /\ CancelledOutside(c)
  BY DEF Dialogue
<1>2. /\ typed # <<>> /\ Head(typed).cmd.name \in Inert
      /\ Prompt(Head(typed).cmd, TRUE) /\ typed' = Tail(typed)
      /\ callVars' = callVars /\ alive' = alive /\ ignored' = TRUE
      /\ modes' = modes /\ vlan' = vlan
  BY DEF Ignore
<1>3. sent[c] # NoCommand /\ Head(typed).cmd = sent[c]
  BY <1>1, <1>2, LineTyped
<1>4. sent[c].name \in DbNames \union PortNames
  BY <1>2, <1>3, SessionAssumption DEF SessionAssumption
<1>5. phase[c] = "body"
  <2>1. /\ sent[c] = NextCommand(c) /\ phase[c] # "idle"
        /\ phase[c] \in {"idle", "before", "enter", "body", "unwind", "after"}
    BY <1>3 DEF Shape, StatesOK, ScriptOK
  <2>2. /\ phase[c] \in {"before", "after"} => sent[c].name = "show"
        /\ phase[c] = "enter" => sent[c].name \in EnterNames
        /\ phase[c] = "unwind" => sent[c].name = "exit"
    BY <2>1, NextIs
  <2> QED
    BY <1>4, <2>1, <2>2 DEF EnterNames, DbNames, PortNames
<1>6. /\ op'[c] = op[c] /\ phase'[c] = phase[c] /\ entered'[c] = entered[c]
      /\ sent'[c] = sent[c] /\ cancelled'[c] = cancelled[c]
  BY <1>2 DEF callVars
<1>7. Framed(c)' /\ Reached(c) = entered[c]
  BY <1>1, <1>2, AnswerFramed
<1>8. Reached(c)' = entered[c]
  BY <1>5, <1>6 DEF Reached
<1>9. modes' = Stack(op'[c], Reached(c)')
  BY <1>1, <1>2, <1>6, <1>7, <1>8
<1>10. CancelledOutside(c)'
  BY <1>1, <1>6 DEF CancelledOutside
<1>11. Obeyed(c)'
  BY <1>2 DEF Obeyed
<1> QED
  BY <1>7, <1>9, <1>10, <1>11 DEF Dialogue

\* The shell refuses a line: an `exit` or a `show` it never does.
LEMMA RefuseKeeps ==
    ASSUME StatesOK, NEW c \in Callers, Shape(c), Dialogue(c), alive, Refuse
    PROVE  Dialogue(c)'
<1> DEFINE cmd == sent[c]
<1>1. Framed(c) /\ modes = Stack(op[c], Reached(c)) /\ CancelledOutside(c) /\ Obeyed(c)
  BY DEF Dialogue
<1>2. /\ Prompt(Head(typed).cmd, FALSE) /\ typed' = Tail(typed)
      /\ callVars' = callVars /\ alive' = alive /\ ignored' = ignored
      /\ modes' = modes /\ vlan' = vlan /\ access' = access
  BY DEF Refuse, switchVars
<1>3. cmd # NoCommand /\ Head(typed).cmd = cmd /\ typed # <<>>
  <2>1. typed # <<>>
    BY DEF Refuse
  <2> QED
    BY <1>1, <2>1, LineTyped
<1>4. /\ cmd \in Command
      /\ cmd.name = "show" <=> phase[c] \in {"before", "after"}
      /\ cmd.name = "exit" <=> phase[c] = "unwind"
  BY <1>3, ReadsFor
<1>5. ~Taken(cmd) \/ cmd.name \in Refusable
  BY <1>3 DEF Refuse
<1>6. /\ op'[c] = op[c] /\ phase'[c] = phase[c] /\ position'[c] = position[c]
      /\ entered'[c] = entered[c] /\ failed'[c] = failed[c]
      /\ sent'[c] = sent[c] /\ cancelled'[c] = cancelled[c]
  BY <1>2 DEF callVars
<1> HIDE DEF cmd
<1>7. cmd.name # "exit"
  <2> SUFFICES ASSUME cmd.name = "exit" PROVE FALSE
    OBVIOUS
  <2>1. /\ cmd.name \notin {"configure", "vlan database"} /\ cmd.name # "interface"
        /\ cmd.name \notin DbNames /\ cmd.name \notin PortNames
    BY <1>4, NameKinds
  <2>2. InItsMode(cmd)
    BY <2>1, Zenon DEF InItsMode
  <2>3. ~NeedsVlan(cmd)
    BY DEF NeedsVlan, PortNames
  <2>4. cmd.name \notin Refusable
    BY SessionAssumption DEF SessionAssumption, EnterNames, DbNames, PortNames
  <2> QED
    BY <1>5, <2>2, <2>3, <2>4 DEF Taken
<1>8. /\ Framed(c)' /\ ~Answered(c) /\ ~Accepted(c)' /\ Reached(c) = entered[c]
  BY <1>1, <1>2, <1>3, AnswerFramed
<1>9. ~Accepted(c)
  BY <1>8 DEF Accepted
<1>10. Reached(c)' = entered[c]
  BY <1>4, <1>6, <1>7, <1>8 DEF Reached
<1>11. modes' = Stack(op'[c], Reached(c)')
  BY <1>1, <1>2, <1>6, <1>8, <1>10
<1>12. CancelledOutside(c)'
  BY <1>1, <1>6 DEF CancelledOutside
<1>13. CarriedOut(c)' = CarriedOut(c)
  BY <1>6, <1>8, <1>9 DEF CarriedOut
<1>14. Obeyed(c)'
  BY <1>1, <1>2, <1>6, <1>13, ObeyedKept
<1> QED
  BY <1>8, <1>11, <1>12, <1>14 DEF Dialogue

\* Run types a line: the stream was empty.
LEMMA TypeKeeps ==
    ASSUME StatesOK, NEW c \in Callers, Shape(c), Dialogue(c), Type(c)
    PROVE  Dialogue(c)'
<1> DEFINE n == NextCommand(c)
           l == [cmd |-> n, for |-> op[c]]
<1>1. /\ alive /\ Framed(c) /\ modes = Stack(op[c], Reached(c)) /\ CancelledOutside(c)
      /\ Obeyed(c) /\ ~cancelled[c]
  BY DEF Dialogue, Type
<1>2. /\ phase[c] # "idle" /\ sent[c] = NoCommand /\ typed' = Append(typed, l)
      /\ op' = op /\ phase' = phase /\ position' = position /\ entered' = entered
      /\ failed' = failed /\ cancelled' = cancelled
      /\ output' = output /\ modes' = modes /\ vlan' = vlan /\ access' = access
      /\ ignored' = ignored
  BY DEF Type, switchVars
<1>3. typed = <<>> /\ output = <<>>
  BY <1>1, <1>2 DEF Framed
<1>4. sent'[c] = n
  BY TypeSteady
<1>5. n # NoCommand
  BY <1>2, NextIs, SessionAssumption DEF SessionAssumption
<1>6. typed' = <<[cmd |-> sent'[c], for |-> op'[c]]>>
  <2>1. l = [cmd |-> sent'[c], for |-> op'[c]]
    BY <1>2, <1>4
  <2> HIDE DEF l
  <2>2. typed' = <<l>>
    BY <1>2, <1>3, PushPop, Zenon
  <2> QED
    BY <2>1, <2>2, Zenon
<1> HIDE DEF n, l
<1>7. Framed(c)'
  BY <1>2, <1>3, <1>4, <1>5, <1>6 DEF Framed
<1>8. ~Answered(c) /\ ~Answered(c)' /\ ~Accepted(c) /\ ~Accepted(c)'
  BY <1>2, <1>3 DEF Answered, Accepted
<1>9. Reached(c)' = Reached(c) /\ CarriedOut(c)' = CarriedOut(c)
  BY <1>2, <1>8 DEF Reached, CarriedOut
<1>10. modes' = Stack(op'[c], Reached(c)')
  BY <1>1, <1>2, <1>9
<1>11. CancelledOutside(c)'
  BY <1>1, <1>2 DEF CancelledOutside
<1>12. Obeyed(c)'
  BY <1>1, <1>2, <1>9, ObeyedKept
<1> QED
  BY <1>7, <1>10, <1>11, <1>12 DEF Dialogue

\* The caller begins a call, or its context is cancelled outside the dialogue.
LEMMA BeginKeeps ==
    ASSUME StatesOK, NEW c \in Callers, Shape(c), Dialogue(c), NEW o \in Ops, Begin(c, o)
    PROVE  Dialogue(c)'
<1> SUFFICES ASSUME alive' PROVE Dialogue(c)'
  BY DEF Dialogue
<1>1. /\ phase[c] = "idle" /\ op' = [op EXCEPT ![c] = o]
      /\ cancelled' = [cancelled EXCEPT ![c] = FALSE]
      /\ phase' = [phase EXCEPT ![c] = IF Refused(o) THEN "idle" ELSE "before"]
      /\ entered' = entered /\ sent' = sent /\ alive' = alive
      /\ typed' = typed /\ output' = output /\ modes' = modes
  BY DEF Begin, switchVars
<1>2. alive /\ Framed(c) /\ modes = Stack(op[c], Reached(c))
  BY <1>1 DEF Dialogue
<1>3. entered[c] = 0 /\ sent[c] = NoCommand
  BY <1>1 DEF Shape
<1>4. typed = <<>> /\ output = <<>> /\ Reached(c) = 0
  BY <1>1, <1>2, <1>3 DEF Framed, Reached
<1>5. /\ phase'[c] \in {"idle", "before"} /\ entered'[c] = 0 /\ sent'[c] = NoCommand
      /\ ~cancelled'[c]
  BY <1>1, <1>3 DEF StatesOK, ScriptOK, CallOK
<1>6. Framed(c)'
  BY <1>1, <1>4, <1>5 DEF Framed
<1>7. Reached(c)' = 0
  BY <1>5 DEF Reached
<1>8. modes' = Stack(op'[c], Reached(c)')
  <2>1. modes = <<>>
    BY <1>2, <1>4, StackIs, Zenon
  <2> QED
    BY <1>1, <1>7, <2>1 DEF Stack
<1>9. CancelledOutside(c)' /\ Obeyed(c)'
  BY <1>5 DEF CancelledOutside, Obeyed
<1> QED
  BY <1>6, <1>8, <1>9 DEF Dialogue

LEMMA CancelKeeps ==
    ASSUME StatesOK, NEW c \in Callers, Shape(c), Dialogue(c), Cancel(c),
           CancelPhases \subseteq {"before", "after"}
    PROVE  Dialogue(c)'
<1> SUFFICES ASSUME alive' PROVE Dialogue(c)'
  BY DEF Dialogue
<1>1. /\ phase[c] \in {"before", "after"} /\ op' = op /\ phase' = phase
      /\ position' = position /\ entered' = entered /\ failed' = failed /\ sent' = sent
      /\ alive' = alive /\ typed' = typed /\ output' = output /\ modes' = modes
      /\ vlan' = vlan /\ access' = access /\ ignored' = ignored
  BY DEF Cancel, switchVars
<1>2. /\ Framed(c) /\ modes = Stack(op[c], Reached(c)) /\ Obeyed(c)
  BY <1>1 DEF Dialogue
<1>3. Framed(c)'
  BY <1>1, <1>2 DEF Framed
<1>4. Reached(c)' = Reached(c) /\ CarriedOut(c)' = CarriedOut(c)
  BY <1>1 DEF Reached, CarriedOut, Accepted, Answered
<1>5. modes' = Stack(op'[c], Reached(c)')
  BY <1>1, <1>2, <1>4
<1>6. CancelledOutside(c)'
  BY <1>1 DEF CancelledOutside
<1>7. Obeyed(c)'
  BY <1>1, <1>2, <1>4, ObeyedKept
<1> QED
  BY <1>3, <1>5, <1>6, <1>7 DEF Dialogue

\* Run returns an error: nothing was typed, or the connection is down.
LEMMA AbortKeeps ==
    ASSUME StatesOK, NEW c \in Callers, Shape(c), Dialogue(c), Abort(c)
    PROVE  Dialogue(c)'
<1> SUFFICES ASSUME alive' PROVE Dialogue(c)'
  BY DEF Dialogue
<1>1. /\ OnError(c) /\ op' = op /\ sent' = sent /\ cancelled' = cancelled /\ alive' = alive
      /\ typed' = typed /\ output' = output /\ modes' = modes
  BY DEF Abort, switchVars
<1>2. phase[c] # "idle" /\ sent[c] = NoCommand /\ cancelled[c]
  BY <1>1 DEF Abort
<1>3. /\ Framed(c) /\ modes = Stack(op[c], Reached(c)) /\ CancelledOutside(c)
  BY <1>1 DEF Dialogue
<1>4. typed = <<>> /\ output = <<>> /\ Reached(c) = entered[c]
  BY <1>2, <1>3 DEF Framed, Reached, Accepted, Answered
<1>5. phase[c] \in {"before", "after"} \/ (phase[c] = "enter" /\ entered[c] = 0)
  BY <1>2, <1>3 DEF CancelledOutside
<1>6. entered[c] = 0
  BY <1>5 DEF Shape
<1>7. /\ phase[c] \in {"before", "after"} => Returned(c, "failed")
      /\ phase[c] \in {"enter", "body"} => Left(c, entered[c], TRUE)
  BY <1>1, <1>2, ErrorMoves DEF StatesOK
<1>8. phase'[c] = "idle" /\ entered'[c] = 0
  BY <1>5, <1>6, <1>7 DEF Returned, Left
<1>9. Framed(c)' /\ Reached(c)' = 0
  BY <1>1, <1>2, <1>4, <1>8 DEF Framed, Reached
<1>10. modes' = Stack(op'[c], Reached(c)')
  BY <1>1, <1>3, <1>4, <1>6, <1>9
<1>11. CancelledOutside(c)' /\ Obeyed(c)'
  BY <1>8 DEF CancelledOutside, Obeyed
<1> QED
  BY <1>9, <1>10, <1>11 DEF Dialogue

\* What Run reads is the answer to the command it typed.
LEMMA AnswerRead ==
    ASSUME StatesOK, NEW c \in Callers, Shape(c), Framed(c), Receive(c)
    PROVE  /\ sent[c] # NoCommand /\ Answered(c)
           /\ typed' = <<>> /\ output' = <<>> /\ sent'[c] = NoCommand
           /\ sent[c].name = "show" => OnTable(c, vlan)
           /\ sent[c].name # "show" /\ (Accepted(c) \/ sent[c].name = "exit") => OnAccepted(c)
           /\ sent[c].name # "show" /\ ~Accepted(c) /\ sent[c].name # "exit" => OnError(c)
<1>1. /\ sent[c] # NoCommand /\ output # <<>> /\ sent' = [sent EXCEPT ![c] = NoCommand]
      /\ typed' = typed
  BY DEF Receive
<1>2. PICK n \in 1..Len(output) :
        /\ output' = SubSeq(output, n + 1, Len(output))
        /\ IF sent[c].name = "show" THEN OnTable(c, TableIn(SubSeq(output, 1, n)))
           ELSE IF AcceptedBy(SubSeq(output, 1, n), sent[c]) \/ sent[c].name = "exit"
                THEN OnAccepted(c)
           ELSE OnError(c)
  BY Zenon DEF Receive
<1>3. /\ typed = <<>> /\ Len(output) = 1 /\ output[1].cmd = sent[c]
      /\ sent[c].name = "show" => output[1].table = vlan
  BY <1>1 DEF Framed
<1>4. n = 1
  BY <1>3
<1>5. output \in Seq(Answer)
  BY DEF StatesOK, ShellOK
<1> DEFINE a == output[1]
<1>6. output = <<a>>
  BY <1>3, <1>5, OnlySingle
<1>7. SubSeq(output, 1, n) = output
  <2>1. \A i \in 1..1 : output[i] \in Answer
    BY <1>3, <1>5, ElementOfSeq
  <2> DEFINE u == SubSeq(output, 1, 1)
  <2>2. /\ u \in Seq(Answer) /\ Len(u) = IF 1 <= 1 THEN 1 - 1 + 1 ELSE 0
        /\ \A i \in 1..1 - 1 + 1 : u[i] = output[1 + i - 1]
    BY <2>1, SubSeqProperties
  <2>3. Len(u) = 1 /\ u[1] = a
    BY <2>2
  <2> HIDE DEF u
  <2>4. u = <<u[1]>>
    BY <2>2, <2>3, OnlySingle
  <2>5. u = output
    BY <1>6, <2>3, <2>4
  <2> QED
    BY <1>4, <2>5 DEF u
<1>8. output' = <<>>
  <2>1. output' = SubSeq(output, 2, 1)
    BY <1>2, <1>3, <1>4
  <2>2. SubSeq(output, 2, 1) = <<>>
    BY <1>5
  <2> QED
    BY <2>1, <2>2
<1>9. AcceptedBy(output, sent[c]) <=> output[1].accepted
  BY <1>3 DEF AcceptedBy
<1>10. sent[c].name = "show" => TableIn(output) = vlan
  <2> SUFFICES ASSUME sent[c].name = "show" PROVE TableIn(output) = vlan
    OBVIOUS
  <2> DEFINE shows == {i \in DOMAIN output : output[i].cmd.name = "show"}
             first == CHOOSE i \in shows : \A j \in shows : i <= j
  <2>1. DOMAIN output = {1}
    BY <1>3, <1>5
  <2>2. output[1].cmd.name = "show"
    BY <1>3
  <2>3. shows = {1}
    BY <2>1, <2>2
  <2>4. TableIn(output) = IF shows = {} THEN NoVlan ELSE output[first].table
    BY Zenon DEF TableIn
  <2> HIDE DEF shows
  <2>5. 1 \in shows /\ \A j \in shows : 1 <= j
    BY <2>3
  <2>6. first \in shows
    BY <2>5
  <2>7. first = 1
    BY <2>3, <2>6
  <2> HIDE DEF first
  <2>8. TableIn(output) = output[1].table
    BY <2>3, <2>4, <2>7
  <2> QED
    BY <1>3, <2>8
<1>11. /\ sent[c].name = "show" => OnTable(c, TableIn(output))
       /\ sent[c].name # "show" /\ (AcceptedBy(output, sent[c]) \/ sent[c].name = "exit")
             => OnAccepted(c)
       /\ sent[c].name # "show" /\ ~AcceptedBy(output, sent[c]) /\ sent[c].name # "exit"
             => OnError(c)
  BY <1>2, <1>7, Zenon
<1>12. Answered(c) /\ (Accepted(c) <=> output[1].accepted)
  BY <1>1 DEF Answered, Accepted
<1>13. sent'[c] = NoCommand
  BY <1>1 DEF StatesOK, CallOK
<1>14. sent[c].name = "show" => OnTable(c, vlan)
  BY <1>10, <1>11, Zenon
<1> QED
  BY <1>1, <1>3, <1>8, <1>9, <1>11, <1>12, <1>13, <1>14, Zenon

\* A call that has read its answer goes on from the mode the shell is in.
LEMMA ReadOn ==
    ASSUME NEW c \in Callers, typed' = <<>>, output' = <<>>, sent'[c] = NoCommand,
           op' = op, modes' = modes, modes = Stack(op[c], entered'[c]),
           cancelled' = cancelled,
           cancelled[c] => \/ phase'[c] \in {"idle", "before", "after"}
                           \/ phase'[c] = "enter" /\ entered'[c] = 0,
           Obeyed(c)'
    PROVE  Dialogue(c)'
<1>1. Framed(c)'
  BY DEF Framed
<1>2. Reached(c)' = entered'[c]
  BY DEF Reached, Accepted, Answered
<1>3. CancelledOutside(c)'
  BY DEF CancelledOutside
<1> QED
  BY <1>1, <1>2, <1>3 DEF Dialogue

\* Nothing of a body has been carried out before its first command.
LEMMA ProgressBegins == ASSUME NEW o PROVE Progress(o, 0)
BY DEF Progress

LEMMA ReceiveKeeps ==
    ASSUME StatesOK, NEW c \in Callers, Shape(c), Dialogue(c), Receive(c)
    PROVE  Dialogue(c)'
<1> DEFINE o == op[c]
           e == Len(Enter(o))
           b == Len(Body(o))
<1>1. /\ Framed(c) /\ modes = Stack(o, Reached(c)) /\ CancelledOutside(c) /\ Obeyed(c)
  BY DEF Dialogue, Receive
<1>2. /\ sent[c] # NoCommand /\ Answered(c)
      /\ typed' = <<>> /\ output' = <<>> /\ sent'[c] = NoCommand
      /\ sent[c].name = "show" => OnTable(c, vlan)
      /\ sent[c].name # "show" /\ (Accepted(c) \/ sent[c].name = "exit") => OnAccepted(c)
      /\ sent[c].name # "show" /\ ~Accepted(c) /\ sent[c].name # "exit" => OnError(c)
  BY <1>1, AnswerRead
<1>3. /\ op' = op /\ cancelled' = cancelled /\ modes' = modes
      /\ vlan' = vlan /\ access' = access /\ ignored' = ignored
  BY DEF Receive, switchVars
<1>4. /\ phase[c] \in {"before", "enter", "body", "unwind", "after"}
      /\ sent[c].name = "show" => phase[c] \in {"before", "after"}
      /\ sent[c].name # "show" => phase[c] \in {"enter", "body", "unwind"}
      /\ sent[c].name = "exit" <=> phase[c] = "unwind"
  BY <1>2, ReadsFor DEF StatesOK, ScriptOK
<1>5. /\ entered[c] \in 0..2 /\ position[c] \in 0..3 /\ failed[c] \in BOOLEAN /\ o \in Ops
      /\ ScriptOK
  BY DEF StatesOK, ScriptOK, CallOK
<1>6. cancelled[c] => phase[c] \in {"before", "after"}
  BY <1>1, <1>2, <1>4 DEF CancelledOutside
<1>7. ASSUME phase'[c] = "idle" \/ phase'[c] = "enter" PROVE Obeyed(c)'
  BY <1>7 DEF Obeyed
<1>8. ASSUME phase'[c] \in {"idle", "unwind"}, failed'[c] PROVE Obeyed(c)'
  BY <1>8 DEF Obeyed
<1>9. ASSUME phase'[c] \in {"unwind", "after"}, ~ignored => ReadsBack(o, vlan)
      PROVE  Obeyed(c)'
  <2>1. ReadsBack(o, vlan) => ReadsBack(o, vlan)'
    BY <1>3, Zenon
  <2>2. phase'[c] # "body"
    BY <1>9
  <2> QED
    BY <1>3, <1>9, <2>1, <2>2, Zenon DEF Obeyed
<1>10. ASSUME NEW n \in 0..2, NEW error \in BOOLEAN, Left(c, n, error)
       PROVE  /\ entered'[c] = n /\ failed'[c] = error
              /\ phase'[c] \in {"idle", "unwind", "after"}
              /\ error => phase'[c] \in {"idle", "unwind"}
              /\ ~error => phase'[c] \in {"unwind", "after"}
  BY <1>10 DEF Left
<1>11. ASSUME phase[c] \in {"before", "after"} PROVE Dialogue(c)'
  <2>1. OnTable(c, vlan)
    BY <1>2, <1>4, <1>11
  <2>2. \/ phase'[c] = "idle" /\ entered'[c] = entered[c]
        \/ phase'[c] = "enter" /\ entered'[c] = 0
    BY <1>5, <1>11, <2>1, TableMoves DEF Returned, Began
  <2>3. entered[c] = 0 /\ entered'[c] = 0
    BY <1>11, <2>2 DEF Shape
  <2>4. Reached(c) = 0
    BY <1>11, <2>3 DEF Reached
  <2>5. Obeyed(c)'
    BY <1>7, <2>2
  <2> QED
    BY <1>1, <1>2, <1>3, <2>2, <2>3, <2>4, <2>5, ReadOn
<1>12. ASSUME phase[c] = "enter", Accepted(c) PROVE Dialogue(c)'
  <2>1. Advanced(c)
    BY <1>2, <1>4, <1>12, AcceptedMoves
  <2>2. /\ entered'[c] = entered[c] + 1
        /\ phase'[c] = "enter" \/ (phase'[c] = "body" /\ position'[c] = 0)
    BY <1>12, <2>1 DEF Advanced
  <2>3. Reached(c) = entered'[c]
    BY <1>12, <2>2 DEF Reached
  <2>4. Obeyed(c)'
    <3>1. ASSUME phase'[c] = "body", position'[c] = 0 PROVE Obeyed(c)'
      <4>1. CarriedOut(c)' = 0
        BY <1>2, <3>1 DEF CarriedOut, Accepted, Answered
      <4>2. Progress(op[c], CarriedOut(c))'
        BY <4>1 DEF Progress
      <4> QED
        BY <3>1, <4>2 DEF Obeyed
    <3> QED
      BY <1>7, <2>2, <3>1
  <2> QED
    BY <1>1, <1>2, <1>3, <1>6, <1>12, <2>3, <2>4, ReadOn
<1>13. ASSUME phase[c] \in {"enter", "body"}, ~Accepted(c) PROVE Dialogue(c)'
  <2>1. Left(c, entered[c], TRUE)
    BY <1>2, <1>4, <1>5, <1>13, ErrorMoves
  <2>2. entered'[c] = entered[c] /\ failed'[c] = TRUE /\ phase'[c] \in {"idle", "unwind"}
    BY <1>5, <1>10, <2>1
  <2>3. Reached(c) = entered'[c]
    BY <1>13, <2>2 DEF Reached
  <2>4. Obeyed(c)'
    BY <1>8, <2>2
  <2> QED
    BY <1>1, <1>2, <1>3, <1>6, <1>13, <2>3, <2>4, ReadOn
<1>14. ASSUME phase[c] = "body", Accepted(c) PROVE Dialogue(c)'
  <2>1. \/ Advanced(c)
        \/ Left(c, entered[c], FALSE) /\ position[c] + 1 = b
    BY <1>2, <1>4, <1>14, AcceptedMoves
  <2>2. Reached(c) = entered[c]
    BY <1>14 DEF Reached
  <2>3. CarriedOut(c) = position[c] + 1
    BY <1>14 DEF CarriedOut
  <2>4. ~ignored => Progress(o, CarriedOut(c))
    BY <1>1, <1>14, Zenon DEF Obeyed
  <2>5. ASSUME Advanced(c) PROVE Dialogue(c)'
    <3>1. entered'[c] = entered[c] /\ phase'[c] = "body" /\ position'[c] = position[c] + 1
      BY <1>14, <2>5 DEF Advanced
    <3>2. CarriedOut(c)' = CarriedOut(c)
      BY <1>2, <2>3, <3>1 DEF CarriedOut, Accepted, Answered
    <3>3. Progress(op[c], CarriedOut(c)) => Progress(op[c], CarriedOut(c))'
      BY <1>3, <3>2 DEF Progress
    <3>4. Obeyed(c)'
      BY <1>3, <2>4, <3>1, <3>3, Zenon DEF Obeyed
    <3> QED
      BY <1>1, <1>2, <1>3, <1>6, <1>14, <2>2, <3>1, <3>4, ReadOn
  <2>6. ASSUME Left(c, entered[c], FALSE), position[c] + 1 = b PROVE Dialogue(c)'
    <3>1. /\ entered'[c] = entered[c] /\ failed'[c] = FALSE
          /\ phase'[c] \in {"unwind", "after"}
      BY <1>5, <1>10, <2>6
    <3>2. o.kind # "read"
      <4>1. b > 0
        BY <1>5, <2>6
      <4> QED
        BY <4>1, ReadScripts
    <3>3. ~ignored => ReadsBack(o, vlan)
      <4> SUFFICES ASSUME ~ignored PROVE ReadsBack(o, vlan)
        OBVIOUS
      <4>1. Progress(o, Len(Body(o)))
        BY <2>3, <2>4, <2>6, Zenon
      <4> QED
        BY <1>5, <3>2, <4>1, ProgressDone, Zenon
    <3>4. Obeyed(c)'
      BY <1>9, <3>1, <3>3
    <3> QED
      BY <1>1, <1>2, <1>3, <1>6, <1>14, <2>2, <3>1, <3>4, ReadOn
  <2> QED
    BY <2>1, <2>5, <2>6
<1>15. ASSUME phase[c] = "unwind" PROVE Dialogue(c)'
  <2> DEFINE n == entered[c] - 1
  <2>1. n \in 0..2
    BY <1>5, <1>15 DEF Shape
  <2>2. Left(c, n, failed[c])
    BY <1>2, <1>4, <1>15, AcceptedMoves
  <2>3. Reached(c) = n
    BY <1>2, <1>15 DEF Reached
  <2> HIDE DEF n
  <2>4. /\ entered'[c] = n /\ failed'[c] = failed[c]
        /\ failed[c] => phase'[c] \in {"idle", "unwind"}
        /\ ~failed[c] => phase'[c] \in {"unwind", "after"}
    BY <1>5, <1>10, <2>1, <2>2
  <2>5. Obeyed(c)'
    <3>1. ASSUME ~failed[c] PROVE ~ignored => ReadsBack(o, vlan)
      BY <1>1, <1>15, <3>1, Zenon DEF Obeyed
    <3> QED
      BY <1>8, <1>9, <2>4, <3>1
  <2> QED
    BY <1>1, <1>2, <1>3, <1>6, <1>15, <2>3, <2>4, <2>5, ReadOn
<1> QED
  BY <1>4, <1>11, <1>12, <1>13, <1>14, <1>15

-----------------------------------------------------------------------------
(* The invariant of one dialogue, and what follows from it. *)

\* One caller at a time over SSH, its context cancelled in no configuration mode.
OneDialogue ==
    /\ \E g : Callers = {g}
    /\ DeadlineCloses
    /\ CancelPhases \subseteq {"before", "after"}

Settled == Shaped /\ \A c \in Callers : Dialogue(c)

LEMMA InitSettled == Init => Settled
<1> SUFFICES ASSUME Init PROVE Settled
  OBVIOUS
<1>1. Shaped
  BY InitShaped
<1>2. ASSUME NEW c \in Callers PROVE Dialogue(c)
  <2>1. /\ phase[c] = "idle" /\ entered[c] = 0 /\ sent[c] = NoCommand /\ cancelled[c] = FALSE
        /\ typed = <<>> /\ output = <<>> /\ modes = <<>>
    BY DEF Init
  <2>2. Reached(c) = 0
    BY <2>1 DEF Reached
  <2>3. modes = Stack(op[c], Reached(c))
    BY <2>1, <2>2 DEF Stack
  <2>4. Framed(c) /\ CancelledOutside(c) /\ Obeyed(c)
    BY <2>1 DEF Framed, CancelledOutside, Obeyed
  <2> QED
    BY <2>3, <2>4 DEF Dialogue
<1> QED
  BY <1>1, <1>2 DEF Settled

LEMMA StepSettled == ASSUME OneDialogue PROVE Settled /\ [Next]_vars => Settled'
<1> SUFFICES ASSUME Settled, [Next]_vars PROVE Settled'
  OBVIOUS
<1>1. Shaped /\ StatesOK /\ \A c \in Callers : Shape(c) /\ Dialogue(c)
  BY DEF Settled, Shaped
<1>2. Shaped'
  BY <1>1, StepShaped
<1>3. PICK g : Callers = {g}
  BY DEF OneDialogue
<1> SUFFICES Dialogue(g)'
  BY <1>2, <1>3 DEF Settled
<1>4. g \in Callers /\ Shape(g) /\ Dialogue(g)
  BY <1>1, <1>3
<1>5. ASSUME NEW o \in Ops, Begin(g, o) PROVE Dialogue(g)'
  BY <1>1, <1>4, <1>5, BeginKeeps
<1>6. Cancel(g) => Dialogue(g)'
  BY <1>1, <1>4, CancelKeeps DEF OneDialogue
<1>7. Type(g) => Dialogue(g)'
  BY <1>1, <1>4, TypeKeeps
<1>8. Abort(g) => Dialogue(g)'
  BY <1>1, <1>4, AbortKeeps
<1>9. Timeout(g) => Dialogue(g)'
  BY DEF OneDialogue, Timeout, Dialogue
<1>10. Receive(g) => Dialogue(g)'
  BY <1>1, <1>4, ReceiveKeeps
<1>11. ASSUME ~alive, alive' = alive PROVE Dialogue(g)'
  BY <1>11 DEF Dialogue
<1>12. Execute => Dialogue(g)'
  BY <1>1, <1>4, <1>11, ShellSteps, ExecuteKeeps
<1>13. Ignore => Dialogue(g)'
  BY <1>1, <1>4, <1>11, ShellSteps, IgnoreKeeps
<1>14. Refuse => Dialogue(g)'
  BY <1>1, <1>4, <1>11, ShellSteps, RefuseKeeps
<1>15. Hangup => Dialogue(g)'
  BY <1>11 DEF Hangup
<1>16. UNCHANGED vars => Dialogue(g)'
  <2> SUFFICES ASSUME UNCHANGED vars PROVE Dialogue(g)'
    OBVIOUS
  <2>1. /\ op' = op /\ phase' = phase /\ position' = position /\ entered' = entered
        /\ failed' = failed /\ sent' = sent /\ cancelled' = cancelled /\ alive' = alive
        /\ typed' = typed /\ output' = output /\ modes' = modes /\ vlan' = vlan
        /\ access' = access /\ ignored' = ignored
    BY DEF vars, callVars, switchVars
  <2> SUFFICES ASSUME alive PROVE Dialogue(g)'
    BY <2>1 DEF Dialogue
  <2>2. Reached(g)' = Reached(g) /\ CarriedOut(g)' = CarriedOut(g)
    BY <2>1 DEF Reached, CarriedOut, Accepted, Answered
  <2>3. Framed(g)' /\ CancelledOutside(g)'
    BY <1>4, <2>1 DEF Dialogue, Framed, CancelledOutside
  <2>4. Obeyed(g)'
    BY <1>4, <2>1, <2>2, ObeyedKept DEF Dialogue
  <2>5. modes' = Stack(op'[g], Reached(g)')
    BY <1>4, <2>1, <2>2 DEF Dialogue
  <2> QED
    BY <2>3, <2>4, <2>5 DEF Dialogue
<1> QED
  BY <1>3, <1>5, <1>6, <1>7, <1>8, <1>9, <1>10, <1>12, <1>13, <1>14, <1>15, <1>16
  DEF Next, Step

LEMMA SettledHolds == ASSUME OneDialogue PROVE Spec => []Settled
<1>1. Init => Settled
  BY InitSettled
<1>2. Settled /\ [Next]_vars => Settled'
  BY StepSettled
<1> QED
  BY <1>1, <1>2, PTL DEF Spec

\* inMode gives back the mode it took: whatever the firmware refuses, ignores or
\* does not answer, the shared shell is in EXEC mode between calls.
THEOREM ShellUnwound == ASSUME OneDialogue PROVE Spec => []Unwound
<1>1. Settled => Unwound
  <2> SUFFICES ASSUME Settled, alive, \A c \in Callers : phase[c] = "idle" PROVE modes = <<>>
    BY DEF Unwound
  <2>1. PICK g : Callers = {g}
    BY DEF OneDialogue
  <2>2. phase[g] = "idle" /\ Shape(g) /\ Dialogue(g)
    BY <2>1 DEF Settled, Shaped
  <2>3. Reached(g) = 0
    BY <2>2 DEF Shape, Reached
  <2>4. modes = Stack(op[g], 0)
    BY <2>2, <2>3 DEF Dialogue
  <2> QED
    BY <2>4, StackIs, Zenon
<1>2. Spec => []Settled
  BY SettledHolds
<1> QED
  BY <1>1, <1>2, PTL

\* A comparison that succeeds is what the operation asked for.
LEMMA ReadBackAchieves ==
    ASSUME NEW o, ReadsBack(o, vlan)
    PROVE  Achieved(o)
<1>1. /\ o.kind = "create" => vlan.state = "named"
      /\ o.kind = "delete" => vlan.state = "absent"
      /\ o.kind = "pvid" => o.port \in vlan.pvid
      /\ o.kind = "member" => PortMode(vlan, o.port) = o.mode
  BY ReadsBackIs, Zenon
<1> QED
  BY <1>1, Zenon DEF Achieved

\* An error that ends a call says so.
LEMMA ErrorReported ==
    ASSUME StatesOK, NEW c \in Callers, Shape(c), phase[c] # "idle", OnError(c),
           phase'[c] = "idle"
    PROVE  result'[c] = "failed"
<1>1. /\ phase[c] \in {"before", "enter", "body", "unwind", "after"}
      /\ entered[c] \in 0..2 /\ failed[c] \in BOOLEAN
  BY DEF StatesOK, ScriptOK
<1>2. /\ phase[c] \in {"before", "after"} => Returned(c, "failed")
      /\ phase[c] \in {"enter", "body"} => Left(c, entered[c], TRUE)
      /\ phase[c] = "unwind" => Left(c, entered[c] - 1, failed[c])
  BY ErrorMoves DEF StatesOK
<1>3. phase[c] = "unwind" => entered[c] - 1 \in 0..2
  BY <1>1 DEF Shape
<1>4. ASSUME NEW n \in 0..2, NEW error \in BOOLEAN, Left(c, n, error)
      PROVE  result'[c] = "failed"
  BY <1>4 DEF Left
<1> QED
  BY <1>1, <1>2, <1>3, <1>4 DEF Returned

\* The same of an accepted command, which ends a call only after a failure.
LEMMA AcceptanceReported ==
    ASSUME StatesOK, NEW c \in Callers, Shape(c), phase[c] \in {"enter", "body", "unwind"},
           OnAccepted(c), phase'[c] = "idle"
    PROVE  result'[c] = "failed"
<1>1. entered[c] \in 0..2 /\ failed[c] \in BOOLEAN
  BY DEF StatesOK, ScriptOK
<1>2. /\ phase[c] = "enter" => Advanced(c)
      /\ phase[c] = "body" => Advanced(c) \/ Left(c, entered[c], FALSE)
      /\ phase[c] = "unwind" => Left(c, entered[c] - 1, failed[c])
  BY AcceptedMoves
<1>3. phase[c] = "unwind" => entered[c] - 1 \in 0..2
  BY <1>1 DEF Shape
<1>4. ASSUME NEW n \in 0..2, NEW error \in BOOLEAN, Left(c, n, error)
      PROVE  result'[c] = "failed"
  BY <1>4 DEF Left
<1>5. phase[c] \in {"enter", "body"} => ~Advanced(c)
  BY DEF Advanced
<1> QED
  BY <1>1, <1>2, <1>3, <1>4, <1>5

\* Verify-after-write tells the truth: success means that the switch holds what
\* was asked, and a verification error that the switch ignored a command.
THEOREM VerdictHolds == ASSUME OneDialogue PROVE Spec => VerdictIsTrue
<1> DEFINE True(c) == phase[c] # "idle" /\ phase'[c] = "idle"
                      => /\ result'[c] = "ok" => Achieved(op[c])
                         /\ result'[c] = "mismatch" => ignored
<1>1. ASSUME Settled, [Next]_vars PROVE [\A c \in Callers : True(c)]_vars
  <2> SUFFICES ASSUME Next, NEW c \in Callers, phase[c] # "idle", phase'[c] = "idle"
               PROVE  /\ result'[c] = "ok" => Achieved(op[c])
                      /\ result'[c] = "mismatch" => ignored
    BY <1>1
  <2>1. PICK g : Callers = {g}
    BY DEF OneDialogue
  <2>2. StatesOK /\ Shape(c) /\ Dialogue(c) /\ c = g
    BY <1>1, <2>1 DEF Settled, Shaped
  <2>3. phase[c] \in {"before", "enter", "body", "unwind", "after"}
    BY <2>2 DEF StatesOK, ScriptOK
  <2>4. phase' # phase
    OBVIOUS
  <2>5. Abort(c) \/ Timeout(c) \/ Receive(c)
    <3>1. ASSUME NEW o \in Ops, Begin(c, o) PROVE FALSE
      BY <3>1 DEF Begin
    <3>2. ~Cancel(c) /\ ~Type(c)
      BY <2>4 DEF Cancel, Type
    <3>3. ~Execute /\ ~Ignore /\ ~Refuse /\ ~Hangup
      BY <2>4 DEF Execute, Ignore, Refuse, Hangup, callVars
    <3> QED
      BY <2>1, <2>2, <3>1, <3>2, <3>3 DEF Next, Step
  <2>6. CASE Abort(c) \/ Timeout(c)
    <3>1. OnError(c)
      BY <2>6 DEF Abort, Timeout
    <3>2. result'[c] = "failed"
      BY <2>2, <3>1, ErrorReported
    <3> QED
      BY <3>2
  <2>7. CASE Receive(c)
    <3>1. Framed(c) /\ Obeyed(c)
      BY <2>2, <2>7 DEF Dialogue, Receive
    <3>2. /\ sent[c] # NoCommand
          /\ sent[c].name = "show" => OnTable(c, vlan)
          /\ sent[c].name # "show" => OnAccepted(c) \/ OnError(c)
      BY <2>2, <2>7, <3>1, AnswerRead
    <3>3. /\ sent[c].name = "show" => phase[c] \in {"before", "after"}
          /\ sent[c].name # "show" => phase[c] \in {"enter", "body", "unwind"}
      BY <2>2, <3>2, ReadsFor
    <3>4. sent[c].name # "show" => result'[c] = "failed"
      BY <2>2, <3>2, <3>3, ErrorReported, AcceptanceReported
    <3>5. ASSUME sent[c].name = "show", phase[c] = "before"
          PROVE  \/ result'[c] = "absent" \/ result'[c] = "refused"
                 \/ result'[c] = "ok" /\ op[c].kind = "read"
      BY <2>2, <3>2, <3>3, <3>5, TableMoves DEF StatesOK, Returned, Began
    <3>6. ASSUME sent[c].name = "show", phase[c] = "after"
          PROVE  result'[c] = IF ReadsBack(op[c], vlan) THEN "ok" ELSE "mismatch"
      BY <2>2, <3>2, <3>3, <3>6, TableMoves DEF StatesOK, Returned
    <3>7. ASSUME phase[c] = "after", ~ReadsBack(op[c], vlan) PROVE ignored
      BY <3>1, <3>7, Zenon DEF Obeyed
    <3>8. ReadsBack(op[c], vlan) => Achieved(op[c])
      BY ReadBackAchieves, Zenon
    <3>9. op[c].kind = "read" => Achieved(op[c])
      BY DEF Achieved
    <3>10. CASE sent[c].name # "show"
      BY <3>4, <3>10
    <3>11. CASE sent[c].name = "show" /\ phase[c] = "before"
      BY <3>5, <3>9, <3>11
    <3>12. CASE sent[c].name = "show" /\ phase[c] = "after"
      <4>1. result'[c] = "ok" => ReadsBack(op[c], vlan)
        BY <3>6, <3>12
      <4>2. result'[c] = "mismatch" => ~ReadsBack(op[c], vlan)
        BY <3>6, <3>12
      <4> QED
        BY <3>7, <3>8, <3>12, <4>1, <4>2, Zenon
    <3> QED
      BY <3>3, <3>10, <3>11, <3>12
  <2> QED
    BY <2>5, <2>6, <2>7
<1>2. Spec => []Settled
  BY SettledHolds
<1>3. Spec => [][\A c \in Callers : True(c)]_vars
  BY <1>1, <1>2, PTL DEF Spec
<1> QED
  BY <1>3 DEF VerdictIsTrue

=============================================================================
