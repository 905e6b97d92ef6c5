# Formal models of go-netgear-switch-library

The library reads and configures Netgear switches over five transports (SNMP,
NSDP, the web UI, and the FASTPATH command line over SSH, telnet or a serial
console) behind one `Switch` facade, and ships a virtual switch that plays the
other side in its tests. These modules model the parts in which order,
failure and sharing matter: what a write may change, what its success and its
errors mean, and how calls on one `Switch` get along. The models are written
from the Go sources; the switch's side comes from `virtual/`, which is the
repository's own account of the hardware.

## 1. Inventory

| component | state | operations | talks to |
|---|---|---|---|
| NSDP client (`nsdp/client.go`, `auth.go`, `write.go`) | sequence counter, cached auth scheme, one socket per exchange | `Read`, `Write` (ENCPASS read, salt read, write) | the switch by UDP datagrams; goroutines share one client |
| NSDP writer (`nsdp/writer.go`) | protected ports | `SetPVID`, `SetVlanMembership`, `CreateVlan`, `DeleteVlan`, settings | NSDP client: read, write, read back |
| FASTPATH session (`fastpath/session.go`) | the shell, its unread output | `Run`, `inMode` | a transport; every caller of a `Switch` shares it |
| FASTPATH writer (`fastpath/writer.go`) | protected ports | VLAN, PVID, port, syslog, PoE, reboot dialogues | the session |
| FASTPATH transports (`ssh.go`, `telnet.go`, `serial.go`) | connection | read with deadline, send | the switch |
| facade (`switch.go`, `dispatch.go`, `write_dispatch.go`, `backend_*.go`) | reader, writer and session caches under `Switch.mu`; per-session mutexes | `readVia`, `writeVia`, `Close`, `Snapshot`, guarded deletes | all backends |
| SNMP writer (`snmp/writer*.go`) | protected ports | memberships in three dialects, PVIDs, VLANs, PoE, system settings | SNMP client: walks, SETs, walks |
| SNMP client (`snmp/gosnmp.go`) | none between calls | `Get`, `Walk`, `SetMany` with retries | the agent by UDP |
| SNMP reader (`snmp/reader.go`, `parse.go`) | none | walks of several columns, joined into rows | SNMP client |
| web UI client (`webui/client.go`) | logged-in flag, cookie jar or token, session path, each under a lock of its own | login in five schemes, `GetPage` with retry and re-login, `PostForm`, `PostXML`, `PostMultipart` | HTTP servers of seven firmware families |
| web UI writer (`webui/writer.go`) | protected ports | page read-modify-write: VLANs, PVIDs, PoE, ports, system | web UI client; every call of a `Switch` shares it |
| readers and parsers (`fastpath/reader.go`, `webui/reader.go`, `nsdp/reader.go`, `snmp/reader.go`, `parse*.go`) | none | a read is one request or several, whose pages are parsed and joined | sessions and clients of the five transports |
| virtual switch (`virtual/`) | one `State` with a lock; a derived MIB view; web sessions | a face per protocol; start, stop | the readers and writers under test |
| capability tables, data model, commands, scripts | none | pure functions, argument parsing | the facade |

Where the components meet: the facade hands one cached writer (and below it
one NSDP client or one CLI session) to every goroutine; each writer's operation
is several exchanges with the switch, and other callers' exchanges come in
between; each exchange can fail after the switch has acted.

What makes each component correct, and hard:

* **NSDP client.** A success reported stands for one applied write, if possible the
  call's own; a wrong scheme, and the refusal of a correct password, has a cause. Hard
  because only the op-code of a reply is checked, replies may be late, and salts rotate.
* **Writers.** Success means the device holds what was asked; a verification
  error is not a false alarm; nothing but the target changes; protected ports
  move only by force. Hard because the whole list is read, edited and written
  back, and because SETs are retried.
* **CLI session.** The shell is in EXEC mode between calls, no `exit` is typed
  beyond the levels entered, and output belongs to the command that is waited
  for. Hard because of refusals, deadlines and cancelled contexts inside a mode.
* **Web UI client.** A write is sent once; a lost session is reported when it
  was lost and not otherwise; a write without effect does not pass for done.
  Hard because goroutines share flag, jar and token without a common lock and
  the switch may drop the session between any two requests.
* **Web UI writer.** A page is a snapshot of many settings and applying it writes
  them all: what else changes, and when. Hard because of the time between the
  read and the POST, and because a page may show another VLAN than asked for.
* **PoE cycle.** A port whose power was cut is powered again or the caller knows.
  Hard because the two halves are separate requests with waits in between.
* **SNMP reader and agent.** Rows are joined from columns that belong together;
  a SET takes effect as a whole. Hard because of pages, columns and retries.
* **Readers.** What a read returns was true of the switch, and what was true all
  through the read is in it. Hard because ten page families say the same thing in
  different words, because a table is put together from pages that other callers'
  changes come between, and because a membership page may show another VLAN.
* **Facade.** A backend is never substituted, one session exists per kind,
  `Close` closes all, and nobody waits for ever. Hard because sessions are built
  lazily under locks of their own while `Close` runs.

PROJECT.json lists these per source file, with the hazards at their lines.

## 2. Modules

| module | models | extended by |
|---|---|---|
| `NsdpClient` | `UDPClient.Read`/`Write`, the network, the NSDP face | `MCNsdpClient`, `Nsdp_proofs` |
| `WriteCalls` | abstract: what a write call promises | `NsdpClient` instantiates it as `Promise` |
| `NsdpWriter` | the NSDP write operations, each answered by its own exchange | `MCNsdpWriter`, `Nsdp_proofs` |
| `CliSession` | `Run`, `inMode`, the VLAN and port dialogues, the modal shell | `MCCliSession`, `CliSession_proofs` |
| `SwitchFacade` | dispatch, caches, lazy sessions, `Close`, `Snapshot` | `MCSwitchFacade`, `SwitchFacade_proofs` |
| `SnmpVlan` | SNMP VLAN operations in three dialects, and the agent | `MCSnmpVlan`, `Snmp_proofs` |
| `SnmpRead` | `Walk`, the readers' joins, the agent's pages, SETs and view | `MCSnmpRead`, `Snmp_proofs` |
| `WebSession` | `webui.HTTPClient` and the switch's sessions | `MCWebSession`, `WebSession_proofs` |
| `WebVlan` | VLAN writes of `webui.Writer` and the pages behind them | `MCWebVlan`, `WebVlan_proofs` |
| `PoeCycle` | `SetPoE`, `CyclePoE`, `ClearPoEFault` of the SNMP, CLI and web writers | `MCPoeCycle`, `PoeCycle_proofs` |
| `Settings` | the single settings and the collector table, over six stacks | `MCSettings`, `Settings_proofs` |
| `SwitchState` | the tables of `virtual.State` that the interfaces show | the page modules |
| `CliPages` | the show screens of `virtual/cliface_render.go`, `fastpath/parse.go`, `reader.go` | `Readings` |
| `XuiPages` | the FASTPATH web pages of the XE, S3300 and M4300 models and their parsers | `PlusPages` |
| `PlusPages` | the pages of the Plus models (GS305EP, GS105PE, GS110EMX) and their parsers | `Readings` |
| `GoAheadPages` | the XML documents of the GS728TPP and their parsers | `Readings` |
| `NsdpPages` | the TLVs of an NSDP read, `nsdp/parse.go`, `reader.go` | `Readings` |
| `SnmpPages` | the agent's columns (`OIDMap`), `snmp/parse.go`, `reader.go` | `Readings` |
| `Readings` | a read through any of these interfaces while the switch changes | `MCReadings` |

### NsdpClient

An exchange is named by its client and sequence number. `sequence` and
`resolvedScheme` are the fields of `UDPClient`; `waiting`, `current`, `token`
and `outcome` are a call's local state (`waiting` is what its open socket is
for). `requests` and `replies` are the datagrams in flight: a set, so they may be
reordered, and `Lose` drops any of them. `salt`, `authFailures` and `applied` are
the switch's. `Read`, `WriteResolved` and `WriteUnresolved` begin calls;
`Receive*` take the next step of one on a reply, whichever exchange the reply was
for, as far as the local port lets it through (`Reaches`): on the default port
63321, the one every run uses, any late reply does; with `ClientPort` 0
(`FixedPort = FALSE`), which only tests set, the exchange's own reply alone.
`stray` is a history variable: the call's result was read off the reply to another
exchange. `Timeout` is the read deadline. `Device` answers, and `DeviceWrite` applies
each write at most once.

`WriteCalls` is the contract a caller of `nsdp.WriteClient` has: an attempt is
applied at most once and acknowledged once, and each success reported takes one such
acknowledgement, which no other success can take again. Which one depends on
`OwnAnswers`: with a port per exchange it is that of the call's own attempt, on the default
port that of any applied attempt. `KeepsPromise` is `Promise!Spec`, under the
mapping given there (`OwnAnswers <- ~FixedPort`). The stronger promise, that success
on the default port means the call's own write, is `WriteOkApplied`, and the code
breaks it.

### NsdpWriter

Each operation is guard, first read (`Begin`, `Send`), a write in flight, and a
read-back (`Verify`) or an error (`Fail`). `inFlight` holds the writes sent and not yet
applied, so a write whose call has ended may still land. An id travels as a uint16:
`Encodable` are the builders' range checks, which `VLANDestroyTLV` and `PortNameTLV`
do not have, and `OnWire` is what the former makes of an id. `disturbed` is a
history variable: another write was applied since the operation's first read.
Properties that could not hold under interference are stated for undisturbed
operations only, and `VerdictIsTrue` says that interference is the only
excuse. The verdict is about the id the caller gave, which is what the code looks up; what a
truncated deletion does to another VLAN is `DeletionSparesOthers`. Answers are those of
the exchange that waits for them; what strays is `NsdpClient`'s subject.

### CliSession

A call is a script in phases (before, enter, body, unwind, after). `typed` and
`output` are the two directions of the shell; `modes` is the shell's mode stack.
`Execute`, `Ignore`, `Refuse` are what the switch does with a line; `Receive`
matches the prompt; `Timeout` is the deadline, which closes an SSH connection and
leaves a telnet one open with the late output in it; `Cancel` ends the caller's
context, with which `Run` refuses to type. `Levels` is `inMode`'s count
of levels to leave.

### SwitchFacade

`cells` are the lazy sessions; `readers`, `writers` and the two session caches
point to them. A part of a call dispatches (`Obtain`, under `Switch.mu`), may build
(`StartBuild`/`Built`/`BuildFails`, under the cell's mutex), and uses. `Close` is
`Detach` under the lock, then the HTTP session, then each CLI cell.
HTTP and NSDP differ from the CLI kinds in what a closed session still serves
(`Usable`).

### SnmpVlan

`model` is drawn from the registry's three kinds. `todo` is the script of walks
and decisions an operation has left, `seen` what it has read; each column is a
walk of its own, so reads tear. `plan` holds the PDUs to send and the membership to
read back. `Answered` is a SET with its answer; `Unanswered` loses the request or
the answer, after which `TryAgain` sends the PDU again or gives up. The agent is
`ApplyWrite`: all varbinds of a PDU or none, the S3300's auto-untag
(`Switch.written`), and FASTPATH 12's derivation of membership from the switchport
row (`Derived`). `found` remembers the VLAN table an operation began with, until
another caller's SET comes in. `VerdictIsTrue` speaks of the end of a call;
`WrongPlaceNeedsTrunk` and `NoWrongPlace` of every PDU before it, and so of the membership
a call leaves that fails between two columns.

### SnmpRead

`conf` is `State` as `OIDMap` shows it, `view` the entries of `MibView`; an OID is a
number, column by column. `Set` takes a PDU in, `Apply` handles one varbind of it
(the state is locked meanwhile, so `OtherFace` and `Page` wait), and the last one
rebuilds the view; a refused varbind restores `saved`. `Page` is one GETBULK of a
`Walk`, `Finish` the parser: `Reported` and `Fields` say for each table which rows
it makes and from which columns. `honest = FALSE` is an agent that answers with any
OIDs of the column, which `Walk`'s monotonicity check is there for.

### WebSession

`loggedIn` and `cred` are the client's flag and its jar or token; `live` are the
sessions the switch honours. A call is `Begin`, `Ensure` (the flag, not the
session, decides), the login in up to four steps (`LoginPage`, `Accepted` or
`Refused`, `Adopt`, `Mark`), `Send`, and what comes of the answer: `Repeat` or
`GiveUp` after a dropped connection, `Served`, `LogInAgain` for a GoAhead read,
`LoggedOut` otherwise. The five `LoginScheme`s are three families here: "xml"
(GoAhead), "cookie" (merge-hash and both Cheetah schemes) and "token" (Gambit).
`cut[c]` is a history variable: since c's latest proof of a session (its login, or
a served read) the switch ended its sessions or another login changed the jar.

### WebVlan

One request of the web writer is one step of the switch. `seen` is the page a
membership write is built from, `WholePage` what is sent back; `Shown` is the
fastpath switch's habit of showing the lowest VLAN when asked for one that is not
there, and `Select` the writer's check of it. `Move` is any other management
interface. `stale[c]` says that somebody else changed a table after c read its
page.

### PoeCycle

`admin`, `detect`, `lag` and `link` are the port; `attached` says whether a device
is. `Set` and `Check` are `SetPoE`; `Cut`, `AwaitDark`, `AwaitLink`, `Restore`,
`AwaitBack` are `poeRearm`, and with `CheckHalf` for the waits `goaheadPoERearm`;
`Press` is the command or button that resets a port in one request. What each stack
does to the port differs (`AdminOn`, `Reset`): the virtual faces' own code is
followed. `Surprise` and `Settle` are the device and PoE detection.
`dark[c]` remembers that c cut the power and nobody has restored it since.

### Settings

`conf` are the single settings with two values each, `rows` the collector table by
index, `view` the SNMP agent's copy. Every operation of every stack is `Begin`
(guard), `Read`, `Write`, `Verify`; `Sent` says what the request carries, `Victim`
which row a removal takes out, `Rest` is the second command of the CLI's address
pair. `Switches` lists which stacks one switch has.

### Readings

`sw` is the state of the virtual switch (tables of `SwitchState`). A read (`via`, `op`)
is a list of requests, `First`; a page may give rise to `More`, such as the page of
each VLAN of a list. `Ask` serves one request under the state's lock (`Page`) and, with
the last one, parses what was read (`Parse`); `Refuses` are the checks that end a
read, `Fail` is a request without an answer. `Move` is a change through another
management interface. A page is modelled by the cells and words it carries, and a
parser by what it makes of them, so that the two are independent: the words of a port's
speed, the bitmaps of a VLAN, the LAG interfaces in a table, the two halves of a
64-bit counter, the codes of PoE detection.

The page modules meet in one specification of a reader. `Facts` says what there is to
know of a switch, as triples (whose, which attribute, what value), without regard to any
page. `Lacks` and `Omits` say what an interface has no place for. `NothingInvented`: every
fact returned was true at some moment of the read. `NothingLost`: a fact that held all
through the read is returned, and a read is refused only if the switch changed under
it or is one the interface cannot show (`Unreadable`). `Untrue` lists the untruths the
readers are known for.

## 3. Runs

| run | expects | shows |
|---|---|---|
| `nsdp_client` | pass | on the default port: a wrong scheme comes from a stray reply, a refusal has a cause, and `NsdpClient` implements `WriteCalls` |
| `nsdp_writer` | pass | what NSDP writes achieve and leave alone, two callers, an id beyond 16 bits |
| `cli_session` | pass | the mode stack, the verdicts of calls, late output; one caller, SSH |
| `cli_unwind` | violation of `Unwound` | a context cancelled inside a mode strands the shell there |
| `switch_facade` | pass | dispatch, session sharing and `Close` under concurrency; everybody returns |
| `snmp_vlan` | pass | SNMP VLAN writes in three dialects, retries and torn reads, two callers |
| `snmp_read` | pass | a quiet read is exact, SETs are whole, walks end |
| `web_session` | pass | writes are sent once, and lost sessions are reported for a reason, two goroutines |
| `web_vlan` | pass | what a page written back changes besides its port, and when |
| `poe_cycle` | pass | dark ports are reported, success means a cycle, five stacks |
| `settings` | pass | a lone call changes one thing; collateral changes need a stale read |
| `readings` | pass | ten interfaces: nothing a read returns is invented, nothing that held is lost |

The violation run is the finding of PROJECT.json: the exits of a dialogue run with the
caller's context (`fastpath/session.go:497`), which may be done. It is not needed to
read the passing runs, which state what the code does achieve.

**Counterexamples.** Five more configurations each have one property, of something a
comment says that the code does not do. TLC refutes them within seconds
(`tlc -config NsdpScheme.cfg MCNsdpClient`); they are kept for their traces, and a change
of the code that makes one pass is a change of the model.

| configuration | of | refuted | what TLC finds |
|---|---|---|---|
| `NsdpScheme.cfg` | `MCNsdpClient` | `V1OnlyWhenForced` | the late answer of another read decides the scheme (`nsdp/client.go:446`): an auto-detecting client speaks v1 to a v2 switch, though `nsdp/auth.go:16-18` says "ONLY when a caller has explicitly FORCED v1" |
| `NsdpLateReply.cfg` | `MCNsdpClient` | `WriteOkApplied` | the WRITE_RESPONSE of an earlier write ends this one (`:404`), which was not applied, though a stray datagram "must not silently pass as a successful write" (`:391-392`) |
| `NsdpTruncation.cfg` | `MCNsdpWriter` | `DeletionSparesOthers` | `VLANDestroyTLV` cuts the id (`nsdp/write_tlv.go:18`: "VLAN IDs are always well under 65536"): deleting 65537 destroys VLAN 1, and the verification, which looks for 65537, is content |
| `SnmpHalfway.cfg` | `MCSnmpVlan` | `NoWrongPlace` | the columns are set one PDU at a time (`snmp/writer_switchport.go:319`); the allowed list of a port that is a trunk already is in force at once, so a port to be untagged in a VLAN is tagged in it first, and stays so if the second SET fails, though "membership never passes through a wrong intermediate state" (`:315-318`) |
| `SnmpExclusion.cfg` | `MCSnmpVlan` | `ExcludedIsOut` | a port excluded from VLAN 1, its only untagged VLAN, falls back into it (`:279`); the plan is verified, not the request, and the call returns no error, though "EXCLUDED V -> BOTH sets minus V" (`:220`) |

The first two are on the default port 63321 (`nsdp/client.go:271`, which `backend_nsdp.go`
leaves as it is), where a late reply reaches any exchange. The passing runs are on the same
port and instance, and say what is left of each promise: `WrongSchemeFromStray`,
`KeepsPromise`, the `Target` of `WriteTouchesOnlyItsTarget` in `NsdpWriter`,
`WrongPlaceNeedsTrunk`, and the exception named in `VerdictIsTrue` of `SnmpVlan`.

**Divergences met while modelling**, which no run repeats:

* `resolveScheme` caches its result "so at most one ENCPASS read ever happens"
  (`nsdp/client.go:426`); it reads without its lock, and two callers that find nothing
  cached make two.
* `CreateVlan` of the NSDP writer says it "moves no port" (`nsdp/writer.go:647`); when
  another caller creates and fills the VLAN between its read and its write, the
  members are gone.
* Two goroutines that write through one shell interleave their dialogues
  (`fastpath/session.go:292`), while `switch.go:215` allows a `Switch` to be used by
  several: with two `Callers` in `CliSession.cfg` `Unwound` fails.
* A call that obtained its CLI cell before `Close` and builds its session after it
  leaves an open shell that no later `Close` reaches (`switch.go:524`).
* The readers disagree about one switch. An empty forwarding table or user list is an
  error on the FASTPATH pages and an empty list elsewhere; a neighbour without a chassis
  is dropped by the CLI and reported by the others; one collector with an unknown
  severity word spoils the whole logging read; the M4300 pages give power in steps of
  10 mW; the M4300 and GoAhead forwarding tables show bridge ports, which only SNMP and
  the other pages translate; a GoAhead temperature of 0 is taken for no reading. The
  GS105PE and NSDP have no admin state and their readers say "enabled"; an NSDP link
  at a speed without a code (2.5G) reads as down; a PoE port just switched on reads as
  disabled on the next CLI screen. `Readings` states each in `Omits`, `Rounded` or
  `Untrue`.
* The virtual GS305EP has the words of the PoE detection codes 1 and 2 swapped
  (`virtual/httpface.go:1756`): a searching port would be shown as disabled. Nothing
  puts a port of that model into the searching state.

**Bounds.** Two callers everywhere but in `cli_session`: the races of interest are
between a call and one other. `NsdpClient`: `MaxSeq = 5` exchanges of a shared client,
enough for a full v2 write (three) beside another caller's two; salts and replies
of every earlier exchange are in play. `NsdpWriter`: two operations for one caller
and one for the other, two ports of which one is protected, VLANs 1, 2 and the id
65537, to create and to delete, which 16 bits make VLAN 1. `CliSession`: three consecutive calls, so that what the first
leaves behind meets a second and a third; two ports, one in access mode, one protected.
The refusable commands are one of each level. `SwitchFacade`: three calls over three
backends, so that two goroutines can share a session while a third closes.
`SnmpVlan`: one operation per caller, three VLANs (target, default and a bystander),
two ports, which start in access and general mode, as a trunk of all VLANs or of two,
or as an access port of a VLAN that the other caller may delete; and one retry, gosnmp's default. `SnmpRead`:
tables of at most three rows and pages of two, so that columns end inside a page, at
its end and with the view; two reads and three changes, so that a read meets a SET in hand, a commit between two columns and a
view left behind by another face. `WebSession`: three calls and two losses, so that a
call can lose its session twice while another logs in. `WebVlan`: two calls and one
other change are enough for a page to go stale and for its VLAN to be deleted and
made again; two ports of which one is protected and one in a mode that refuses memberships. `PoeCycle`: two
calls and one plug event or fault on one port. `Settings`: three calls, so that a
row can be removed and its index reused between a third call's read and write; four
kinds of switch. `Readings`: two ports and, where the model has one, a LAG; two VLANs; two
reads and three changes, so that a change can come between any two pages and be
taken back; each table has two or three values besides the first, chosen for the words
and codes that differ; a counter is shown in two digits to the base `Half = 4`, so that
it carries. `EscalateAt = SilenceAt = 0` in `nsdp_client`
makes the face answer "locked" to the first bad password and nothing after it (3 and
5 in the code), so that the whole escalation fits into `MaxSeq` exchanges.

**Fairness** is assumed in the two runs with a liveness property.
`SwitchFacade` (`FairSpec`): goroutines run, mutexes are granted, and dial, login
and `Setup` end, as their deadlines see to. `SnmpRead`: the agent goes on with a SET it
has begun, and a request is answered or given up (`WithTimeout`, `WithRetries`). In
neither is the switch required to answer. The other modules state safety only.

`CHECK_DEADLOCK FALSE` everywhere: when every caller has used up its calls the
system rests.

Every property of a passing run has a mutant: a bug of the kind the code could
have (a guard gone, a stale salt, the allowed list of an access port carried
over), defined beside the operator it replaces and marked "Faulty".

## 4. Proofs

`Nsdp_proofs` proves of `NsdpClient`, for any callers, clients, schemes and bounds and
either kind of port, from `ClientAssumption` alone (the constants' types, and that no
client makes more exchanges than the 16-bit counter has values):

* `TypeCorrect`: `Spec => []TypeOK`.
* `WrongSchemeIsStray`: `Spec => WrongSchemeFromStray`, an action property.
* `PromiseKept`: `Spec => KeepsPromise`, the refinement of `WriteCalls`.
* `RejectionExplained`: `Spec => []RejectionHasCause`.

The argument has three layers. `IInv`: every id in flight or in use has been issued
(`IdsIssued`), so a new exchange's id is fresh; a reply carries the tag of the exchange it
answers (`TagsAgree`), so an answer to a caller's own ENCPASS read names the switch's
scheme, and a wrong scheme comes from elsewhere; a success reply's write has been applied
(`SuccessApplied`); a caller that waits has reported nothing (`BusyIsSilent`).
`DatagramInv` follows the datagrams: an exchange has one request under way or one
answer, never both, and ids of the past (applied writes, salts that tokens were folded
with) were handed out. So a write the switch takes is one it has not taken before, and an
answer a caller takes is gone for all others, which is what `WriteCalls` asks; `StepKinds`
says which abstract step, or none, each step is. `AuthInv` carries the credential: a write
carries the password TLV its scheme and token make (`OwnWrite`), and a refusal of a
caller's own write, on its way or returned, has a cause (`Explained`): the other scheme, or
a salt issued since. A refusal that was another write's is marked by `stray`.
What is not needed is an assumption about ports: that is why the theorems hold
of the default one, and why none of them says that success means the call's own write.
Lemmas come in rows, one per kind of step: `*Type`, `*Keeps`, `*KeepsDatagrams` and
`*KeepsAuth`. TLC checked each layer on the instance of `nsdp_client` first.

`Nsdp_proofs` proves of `NsdpWriter`, for any writers, ports, VLANs, settings and
operations, from `WriterAssumption` (the constants' types) alone:

* `WriterTypeCorrect`: `WriterSpec => []WriterTypeOK`.
* `VerdictTrue`: `WriterSpec => VerdictIsTrue`, an action property.
* `OnlyItsTarget`: `WriterSpec => WriteTouchesOnlyItsTarget`, an action property.

The argument. A write may land after its call has ended, so the invariant `WriterInv`
speaks of the writes in flight, not of the calls: `IssuedWrite` (it belongs to its
caller's present call, after its read, or to an earlier one), `CarriesOut` (its TLV does
what its operation asks) and `Fresh` (with no other write applied since its read, it is
the TLV its operation would build from the switch as it is now). `Fresh` gives
`OnlyItsTarget`: such a TLV differs from the table at its target only
(`MembersAfterType`). The target of a deletion is the VLAN its TLV names, which is the id
modulo 65536: that it is the VLAN asked for is not provable, since it is false
(`NsdpTruncation.cfg`). `WireIds` has what is needed of the truncation. For the verdict, `CallInv` says that a call whose own write was the
last to be applied reads back what it asked for. TLC checked `WriterInv` on the instance
of `nsdp_writer` first.

`CliSession_proofs` proves, for any callers, ports, operations and either kind of
transport, from `SessionAssumption` (the constants' types; no port is called like a
mode):

* `TypeCorrect`: `Spec => []TypeOK`, the shapes of the mode stack included.

and for any ports and operations, whatever the firmware refuses or ignores, under
`OneDialogue`:

* `ShellUnwound`: `Spec => []Unwound`.
* `VerdictHolds`: `Spec => VerdictIsTrue`, an action property.

`OneDialogue` says: one caller, a transport that its deadline closes, and a context
cancelled before or after the configuration commands only. The instance of
`cli_session` satisfies it, and each part is needed: two callers type into each other's
mode (`Run` takes no lock), over telnet the late output of a command is read as the
next one's, and a context cancelled inside a mode strands the shell there
(`cli_unwind`).

The argument has two layers. `Shape`, for every caller: the levels entered and the
position fit the phase of the script, and what Run waits for is the script's next
command. It bounds the counters, and with `ModeStack` it gives the types: a command
taken in its mode leads to a mode the shell has. `Dialogue`, for the one caller:
`Framed` (one line or one answer under way at most, the answer being that of the
command awaited), the mode stack is the one of the levels `Reached`, which is ahead of
`inMode`'s count by the answer under way, `CancelledOutside`, and `Obeyed`: unless the
switch has ignored a command, the VLAN is where the commands so far were to bring it
(`Progress`), with the port out of access mode since the first. At the end of a
body `Progress` is what the verification compares (`ProgressDone`). A step of the shell
is `ExecuteKeeps`, by the kind of command; a step of `Run` is `ReceiveKeeps`, by phase.
TLC checked `Shape` and `Dialogue` on the instance of `cli_session` first.

`WebSession_proofs` proves, for any callers, login families, retry limit and bounds,
from `WebAssumption` (the constants' types) alone:

* `TypeCorrect`: `Spec => []TypeOK`.
* `WritesSentOnce`: `Spec => []WriteSentOnce`.
* `AuthExplained`: `Spec => []AuthNeedsCause`.
* `SilentWriteExplained`: `Spec => []SilentWriteNeedsLoss`.

The argument. None of the last three is inductive. `IInv` adds `CallFitsInv` (a
call in progress has no result, a read never posts), `AppliedInv` (only a POST
takes effect, and only while its answer is on its way), `ReloginInv` (only a
GoAhead read logs in again), `FormFlagInv` (a form client never goes back to the
login between its read and its POST, because nothing lowers its flag) and
`StandsInv`: at each place where the call has just proved its session, by its own
login or a served read, that session is still the one in the jar and alive, or
`cut` is set. So a request after such a place that meets the login page has a cause
on record, which `ExplainedInv` carries to the result. A step of a caller c is
looked at twice: what it does to another caller d follows from two frame lemmas,
`OthersStay` and `OthersCut`, and only c's own state needs the step action by action.
`IInv` was checked by TLC on the instance of `web_session` before it was proved.

`WebVlan_proofs` proves, for any callers, VLANs, ports, dialects and bounds, from
`WebVlanAssumption` (the constants' types, a VLAN list that is not empty, and that the
operator of `Move` is none of the callers):

* `TypeCorrect`: `Spec => []TypeOK`.
* `DanglingOnlyAfterDelete`: `Spec => []DanglingNeedsDelete`.
* `AloneIsExact`: `Spec => ExactWhenAlone`, an action property.
* `CollateralIsStale`: `Spec => CollateralNeedsStalePage`, an action property.

The argument. `Allowed`: `guard` has let the call through. `VlanSeen`: after its check
the VLAN exists or has been deleted since, so a PVID written later dangles only after a
deletion. `PageFresh`: a page nobody has overtaken shows the VLAN as it still is; on
the fastpath pages, which show the lowest VLAN when asked for a missing one
(`LowestIsDefault`), the writer's selector check is what gives that. `Alone`: until its
write, a call nobody has disturbed finds the tables as at its start, and after it those
tables with the change it was asked for. That the whole page sent back amounts to one
changed cell is the core of it. The lowest VLAN is a least element, taken
from the well-foundedness of the naturals. TLC checked `IInv` on the instance of
`web_vlan` first.

`PoeCycle_proofs` proves, for any callers, sets of stacks and bounds, from
`PoeAssumption` (the constants' types) alone:

* `TypeCorrect`: `Spec => []TypeOK`.
* `DarkPortIsReported`: `Spec => []LeftDarkIsReported`.
* `CycleVerdicts`: `Spec => CycleVerdictIsTrue`, an action property.

The argument. `IInv` says of each call where it is and what it may take the port to
be. `RoutedInv`: which writer runs which step (only SNMP waits for darkness in two
reads, only the CLI command and the page buttons are one request). `DarkInv`: a call
that has left the port dark is between its halves or has reported an error; every
other way on goes through the SET that restores power. `AloneInv`: no power-off
escapes the history, and a call nobody disturbs finds the admin state its last request
left. `QuietInv`: with no fault or plug event either, it finds the status, the link
and the CLI table's lag as that request left them, up to what detection does. The
last two are what the verdict needs: a wait that runs out then has one of the causes
the property names. The effect of a request on the port (`OffEffect`, `OnEffect`,
`ResetEffect`, `ReadsEffect`) is proved once per request; `OthersKept` disposes of the
steps of other calls, which either change at most the lag or are noted in the history.

`SwitchFacade_proofs` proves, for any callers, preference order, declared backends
and bounds, from `FacadeAssumption` (the constants' types):

* `TypeCorrect`: `Spec => []TypeOK`.
* `BackendsNotSubstituted`: `Spec => []NoSubstitution`.
* `SessionsShared`: `Spec => []OneSessionPerKind`.

The argument. `ResolvedInv`: a part has run only on the backend its call resolves to.
That this backend is the one asked for, the pinned one or the first declared is a fact
of `ResolveBackend` alone (`ResolvesAsAsked`); for the last case `FirstIsPreferred`
needs a least position, taken from the well-foundedness of the naturals. `CachedInv`:
until `Close` begins, the session cache names every session made so far as the one of
its kind, so two of one kind are the same. `AtWorkInv` says that a call at work has a
part to do and one that builds a session to build, without which the steps have no
types. Both invariants were checked by TLC on the instances of `poe_cycle` and
`switch_facade` before they were proved.

`Settings_proofs` proves, for any callers, switches, collectors, operations and bounds,
from `SettingsAssumption` (the constants' types, and that no switch has both the
GS110EMX page and a command line, as `model/registry.go` has it):

* `TypeCorrect`: `Spec => []TypeOK`.
* `SplitReported`: `Spec => []SplitAddressIsReported`.
* `AloneIsExact`: `Spec => ExactWhenAlone`, an action property.
* `CollateralIsStale`: `Spec => CollateralNeedsStaleRead`, an action property.

The argument. `SplitIsPending`: where address and gateway come from different calls,
either somebody has been told or a command line writer is between its two commands and
its verdict, and that verdict looks at both. The one other request that sets the two
apart would be the host name page, which sends them back as read; `PageWhole` says that
on a switch with that page they never differ, and this is what needs the assumption
about the command line: a page read between the two commands would keep the halves apart
with nobody told. `Alone`: until its write a call nobody disturbs finds the state as
at its start, after it that state with its change (`Made`), and SNMP's view in step. A
removal takes out one row, the lowest of its host; that no row of the host is left is
what its read-back shows, so there was one only (`RemovedAll`). `CallFits`:
a removal that has come to its write knows a row of its host, so `Victim` is a row and,
from an up-to-date table, one of that host (`VictimIs`). What each request makes of the
settings is proved once per form (`SentAddress`, `SentPage`, `SentOne`). The parts of
`IInv` were checked by TLC on the instance of `settings` first.

`Snmp_proofs` proves of `SnmpVlan`, for any callers, ports, finite set of VLANs, models
of the three dialects, starting configurations and number of retries, from
`VlanAssumption` (the constants' types; a VLAN that is not there reads as `"absent"`,
which is no VLAN's name):

* `TypeCorrect`: `Spec => []TypeOK`.
* `VerdictIsRight`: `Spec => VerdictIsTrue`, an action property.
* `OnlyTheTargetMoves`: `Spec => WriteTouchesOnlyItsTarget`, an action property.

The argument. `Shaped` holds of every call: its script ends in `decide` or `verify` and
has neither elsewhere, and on a switchport model nobody writes the port lists, so that
the lists go on mirroring the switchport rows (`Mirrored`). `Undisturbed` holds of
a call during which no other caller's SET came in. Until it decides, what its walks
have read is what the switch holds. After that there is one view it decided on, from which
`ExpectedOf` says what it will compare and `Written` what it has sent: for each dialect, by
how many PDUs the plan still holds, the tables are the ones found with those PDUs
applied. A SET applied twice, after a lost answer, leaves the tables of `Written`, which
is why retries need no case of their own. At an empty plan `Written` is the whole
change, and what is read back is what was expected; so a mismatch has no cause but the one
`VerdictIsTrue` names. The plan is what was asked for but in one case, which falls out of
`Wanted`: if the VLAN to leave is the one the port ends up untagged in, that is the
default VLAN and the port had no other untagged VLAN (`FallsBackIntoIt`). Two things came out of the attempt. A mismatch is possible: a port
that is to be untagged nowhere falls back to the default VLAN, and when that has been deleted
the row reads back without it. And a port in access mode whose VLAN has been
deleted falls back likewise, so `WriteTouchesOnlyItsTarget` names the default VLAN for every
mode but untagged. The instance was given both (`Guest`, the deletion of VLAN 1), and TLC
checked `IInv` on it.

`Snmp_proofs` proves of `SnmpRead`, for any tables of up to `Width - 1` rows, sets of SETs of
any length, rows put in by other faces, page size and bounds, from `SnmpReadAssumption`
(the constants' types):

* `ReadTypeCorrect`: `ReadSpec => []ReadTypeOK`.
* `SetsAreWhole`: `ReadSpec => []OnlyWholeSets`.
* `QuietReadExact`: `ReadSpec => []QuietReadIsExact`.

The argument. `SetInHand`: the varbinds left of a SET would make of the state as it is
what the whole SET was to make of the state saved, `Outcome`, and until the last of
them the view is of the saved state. `StateAfter` is a recursive function; that it
is what its definition says, and that it can be unfolded from the front, a varbind at
a time (`StateAfterFromFront`, `OutcomeFromFront`), is shown with least elements, taken
from the well-foundedness of the naturals, because the induction theorems cannot be
used. `WalkedSoFar`: with an honest agent and a view that has not changed, the columns
before the present one are read whole, and the present one up to the walk's last
OID (`ColumnTo`). One page takes exactly the column's entries between that OID and the
page's last varbind, or all that are left (`PageTakes`, `TakenColumn`); under it is that
a finite set of naturals has an n-th element and that its rank orders it
(`Ranked`, `RankOrder`), which is what a GETBULK answer is made of. TLC checked the parts
on the instance of `snmp_read` first. `Effect` had two overlapping cases in a
CASE, a VLAN column and a port switched off; they are exclusive now, without which its
value would not have been determined.

Checked by TLC only: liveness (`EverybodyReturns`, `ReadReturns`), which the prover
cannot do under fairness; `InStep` of `CliSession` and `WrongPlaceNeedsTrunk` of
`SnmpVlan`; and the properties of `Readings`, which say of ten interfaces
what parsing a page that was rendered from a state returns: rendering and parsing are
folds over rows and TLVs, and what a fold returns for every input is an induction over
data, out of reach here.

## 5. What is abstracted and what is left out

* Bytes. TLVs, BER, PortLists, the v1 XOR and the v2 digest are replaced by the
  facts they carry. A VLAN id too wide for a TLV is refused or truncated as in the code
  (`Encodable`, `OnWire`).
* `NsdpClient`: the counter's wrap-around, excluded by `MaxSeq < SeqMod`.
* `NsdpWriter`: answers of other exchanges, which `NsdpClient` has; ports beyond a
  byte; operations that only return an unsupported error.
* `CliSession`: login, pager set-up, the SCP dialogue, `write memory`, reboot, and
  the text of `show` output. Its PoE, syslog and address dialogues are in
  `PoeCycle` and `Settings`, where a dialogue is one step.
* `SwitchFacade`: credentials, host resolution, how a field's error enters a
  `Snapshot`, and what `guardVLANDeleteMembers` decides (it is a read part only).
* `SnmpVlan`: switchport models' Q-BRIDGE writes by other managers, walks of the
  interface table.
* `SnmpRead`: the tables of single columns, which are in `SnmpPages`, the vendor
  columns, and texts, which are numbers. A request that is retried is a stutter.
* `WebSession`: hashes and encodings, the session path of the GoAhead login (it
  changes with the session), redirects to the login page as text.
* `WebVlan`: the default VLAN is never deleted; LAG slots of a page; names; the
  "configured only" rows of a GoAhead table; the CSRF token. The GS110EMX has no
  VLAN writes.
* `PoeCycle`: power budgets, classes and the numbers of a status.
* `Settings`: the two GETs of a web removal are one, the walks of an SNMP read are one
  (`SnmpRead` tears them), the netmask goes with the address, values are 0 and 1.
* `Readings` and the page modules: markup, column positions and wrapped cells; port
  names and descriptions, error counters, sensors of the M4300 pages, ENTITY-MIB
  sensors, the host name on FASTPATH pages. Assumed of a state: its VLAN list is not
  empty, a port with a link has a speed, texts fit their columns, an SNMP table fits one
  GETBULK (longer ones are `SnmpRead`'s), an agent has an address, and of the octets of a
  neighbour's ids one can tell an address from a name. A change reaches the SNMP view
  with the SET that follows it; that it does not before is in `SnmpRead`.
* Not modelled: rebooting, certificate deployment, the virtual server's start and
  stop, detection and inventory. Not worth a model: markup,
  capability tables, data types, commands (tests with captured data cover them).

## 6. Plan

What is left, in order of what the system risks:

1. `CliLifecycle`: `SwitchFacade` composed with `CliSession` through an abstract
   session (open, dead, closed): the dead SSH session in a live cell, reconnects,
   reboot and `write memory`, the SCP dialogue with its HTTPS switch.
2. `VirtualServer`: start and stop of the faces.
3. `Snapshot` degradation and `guardVLANDeleteMembers` in `SwitchFacade`.
4. A common abstract specification of a verified write, implemented by
   `NsdpWriter`, `CliSession`, `SnmpVlan` and `WebVlan`.
