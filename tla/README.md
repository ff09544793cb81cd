# chik in TLA+

A verification project for [chik](../src/README.md), a Go framework for home automation: applications are a set of
*handlers* around a message bus, and devices talk to each other through a relay server. The modules here model that
core and every handler that keeps state, TLC checks them on small instances, and TLAPS proves, for every value of
the constants, each safety property that the passing runs check.

Contents: 1 inventory, 2 modules and how they correspond to the code, 3 runs, 4 fairness, 5 proofs, 6 finding, 7
disagreements met and not kept as runs, 8 what is left out, 9 plan. To reproduce: `tlc -config Status_flow.cfg
MCStatus.tla` for a run (section 3 names the module of each), `tlapm RelayProofs.tla` for a proof.

## 1. Inventory

| component | source | state it keeps | operations | interacts with |
|---|---|---|---|---|
| Controller | `controller.go` | identity, bus, WaitGroup; per handler run: context, channel, two goroutines | Start, executeHandler, runHandler, Pub/PubMessage/Sub/Unsub/Reply | starts every handler; carries every message |
| bus | `cskr/pubsub` (library) | topics, subscribers, buffered channels | Sub, TryPub, Unsub, Shutdown, all served by one goroutine | Controller only |
| Handler, StatusHolder | `handler.go` | last status of a module | Set, Edit, emitStatusChanged | publishes status updates |
| Message | `messaging.go` | sender, receiver, command | ParseMessage, Bytes | framing on a connection |
| Remote | `remote.go` | connection, three goroutines, context | send, receive, StartRemote | bus at one end, TCP/TLS at the other |
| router | `handlers/router` | identity of the connection's client, table of peers shared by all connections | HandleMessage, Teardown | forwards from one Controller's bus to another's |
| heartbeat | `handlers/heartbeat` | missed beats, first sender | timer, beat | stops a Remote |
| status | `handlers/status` | last status of every module, remote listeners with their last contact | subscribe, get, update | StatusHolders, remote devices |
| actor | `handlers/actor` | previous status, rules | edge-triggered actions on status changes | status, io |
| io and buses | `handlers/io`, `handlers/io/bus/*` | devices, their status, worker goroutines, change channels | digital/analog commands, device changes, Teardown | StatusHolder, hardware |
| datetime, heating, badge, snapcast, telegram, systemd, version | `handlers/*` | own status | timers, external events, commands | bus, external services |
| configuration | `config/config.go` | parsed tree, path | ParseConfig, Get, Set, Sync | NewController, handlers |
| TLS bootstrap | `config/tls.go` | certificate, renewal | TLSConfig | files, network |
| commands and data types | `types/*` | command types, TimeIndication | parsing and comparing | everywhere |

**How they interact.** Everything inside an application is a message on the Controller's bus: a command for the
application is published on the topic of its type, one for another device on the topic `AnyOutgoing`, which the
Remote subscribes. Publication never waits for a subscriber: each subscription is a channel of a fixed capacity and
what does not fit is dropped. Handlers run in a goroutine each and are otherwise without locks. What is shared by
goroutines, and so is delicate: the WaitGroup and contexts of the Controller, the connection and errgroup of a
Remote, the router's table, the devices of an io bus, the configuration tree.

**What is hard, and what makes each component correct.**

| component | hard behaviour | correctness |
|---|---|---|
| Controller | a handler fails, sleeps and is executed again while the user cancels; Start shuts the bus down while goroutines still use it; channels of old runs stay registered | the WaitGroup is exact, no supervisor outlives the bus, runs of a handler exclude each other, messages are handled in order and once, failed handlers come back, Start returns, loops end |
| Remote | errors, timeouts, cancellation and stop commands race in three goroutines; frames can be left half written | close last, stop is final, order and framing, every way to end it ends it |
| router | several connections of one device; a table entry used after it was read; Teardown without ownership | entries have a living owner, messages reach their receiver in order, one connection forwards per device, entries go away |
| status, actor | three lossy channels in a row; start in any order; edge triggering against a remembered snapshot, which is anything that arrives on one topic | nothing the status handler tells goes back in time, a rule runs once per change it tells, undropped changes arrive |
| io, buses | worker goroutines and handler wait for each other over bounded channels; Teardown and restart; status set before or after the write | no cyclic wait, Teardown returns, the io status ends up equal to the device's |
| heartbeat | the stop command of a dead connection, the identity it is sent to | a silent peer's connection ends, although the stop may be dropped behind the beat |
| configuration | crash between the system calls of Sync, errors of them that are ignored; maps read outside the lock | what the user wrote stays on the disk, what was saved is what the next start reads |
| heating | decisions on stale snapshots, two time bounds | the valve follows the temperature with hysteresis |
| datetime, TimeIndication | ten-second ticks against a ten-second tolerance | a rule at a time fires once |
| messages | length-prefixed frames | parsing inverts encoding |
| telegram, badge, snapcast, TLS | external libraries call back or are called with the handler's goroutine waiting | handler and library do not wait for each other |
| systemd | a state is read, and a job asked for that runs later, while others do the same | the last request wins |

`PROJECT.json` lists the main hazards one by one with their lines and the properties that cover them. Lesser ones:
send spins on a channel the bus closed until its context ends (`remote.go:36`); a zero timeout means no deadline for
reads and an expired one for writes (`remote.go:50`); `range` over a stopped ticker never ends (`unipibus.go:217`,
`w1bus.go:127`); the first heartbeat's sender is kept for ever (`heartbeat.go:36`); maps of the configuration are
read outside its lock (`config.go:184`); a stop command of the heartbeat ends whatever connection reads it first
(`heartbeat.go:52`).

## 2. The modules

One module per component; an `MC` module declares the model values of the instances where a module needs more than
numbers, or puts several small components side by side; a `Proofs` module holds the theorems.

| module | models | abstracts |
|---|---|---|
| `Bus` | a subscription's channel: `Offer` drops when full, `TryPub` offers to a set of channels | topics; the bus goroutine |
| `Controller` | `controller.go`: Start, supervisors, loops, restarts, Shutdown | what callbacks do: they take time, publish, succeed or fail; the length of the sleep |
| `Link` | what a Remote promises: an abstract lossy link | |
| `Remote` | `remote.go`: send, receive, the goroutine of StartRemote | bytes: a message is a number, or a frame torn or not; deadlines may fire at any time |
| `Relay` | `handlers/router` with one Controller and one Remote per connection, as the test server builds them | the Controller's and Remote's life, to what a router can notice of it (below) |
| `Status` | StatusHolder, the status handler, the actor | a status is a version number; a rule is a conjunction of queries over boolean fields |
| `Devices` | what the io handler and every bus share | |
| `SoftBus`, `GpioBus`, `UnipiBus`, `W1Bus`, `Modbus`, `SnapcastBus` | the six buses | files, pins, serial frames, RPC; values are 0, 1 or small |
| `IO` | `handlers/io` on top of all the buses of a platform | decoding, time stamps |
| `ConfigTree`, `Startup` | `config/config.go`, `config/tls.go`, NewController: files, faults, crashes | contents of files, to absent, torn or complete; the authority |
| `Heating` | the control loop through io, global status and back | temperatures, to differences from the target; minutes, to ticks |
| `Schedule` | datetime, TimeIndication, and the actor's rules on the time of day | the length of a day |
| `Heartbeat`, `Telegram`, `Badge`, `SnapcastHandler`, `Systemd` | those handlers with the faults of what they talk to | the connection, bot, reader, server and service manager, to what the handler notices |
| `Codec` | `messaging.go`: Bytes and ParseMessage over a stream cut anywhere | a uuid and a length are one cell; JSON |

### Bus
`pubsub` is a library and is modelled from its use in `controller.go`. `BufferSize` is a constant; the code's value
is its capacity. A publication on a bus that was shut down waits for ever: the goroutine that served it is gone.
Each module that publishes models that case with its own `bus` or `ctrl` variable.

### Controller
A *run* `<<h, n>>` is the n-th execution of handler h. Per run, `sup` is the program counter of `executeHandler`
(with the head of `runHandler`) and `loop` that of the goroutine of `runHandler`:

| actions | code |
|---|---|
| `LaunchHandler`, `AllLaunched`, `WaitReturns`, `Shutdown` | Start (186-195) |
| `SetupSucceeds`, `SetupFails`, `Subscribe` | runHandler before the goroutine (105-113) |
| `Park`, `SeeContextDone`, `SeeRunDone`, `Respawn`, `SupervisorReturns` | executeHandler (162-183) |
| `BeginLoop`, `TakeContextDone`, `TakeMessage`, `TakeChannelClosed`, `TakeInterrupt`, `Callback...` | the loop (122-156) |
| `TearDown` | the deferred function (115-120), except `ticker.Stop` |
| `Cancel`, `OthersPublish` | the user; a Remote's receiver |

A `select` whose cases are ready together may take any of them: `SeeRunDone` is enabled after a cancellation too.
`Park` separates a supervisor that already waits from one that arrives later: closing the parent's channel wakes the
former first with `ctx.Done()`. The last run of the bound never fails, so that restarts end only because the bound
says so.

### Remote and Link
`snd`, `rcv`, `waiter` are the three goroutines. `failed` is the errgroup's state: its context is done when `ctx` is
or a goroutine returned an error; the deferred `Unsub` of send comes *before* that. `HasTimeout` is FALSE for
`readTimeout = 0`: no read deadline, and writes that fail at once. `Link` keeps the wire, the deliveries, the
connection and the context, and says: messages leave in order and at most once, nothing follows a torn frame, the
peer's messages arrive in order and without gaps, and the context ends by itself only after the connection was
closed. A message of the peer that has no command ends the process (`ReceiverPanics`). `Remote` refines it with
`wire` for `written` and its own variables for the others.

### Relay
Composes what the two modules above establish, reduced to what routers see: `ctrl[c]` goes from `up` to `stopping`
when the Remote ends, and to `shut` when the supervisors are gone *without* waiting for the router's goroutine
(`Controller`: `BusOutlivesSupervisors`, `LoopsSettle`); a router that failed is executed again
(`FailedHandlerRestarts`) on a new channel, with `LateSelect` even after the context ended (`SeeRunDone`).
HandleMessage is cut where other goroutines can interfere: `Identify` is one step up to and including the atomic
LoadOrStore, `Drop` the publication of the stop command, `Lookup` the Load, `Forward` the publication on the *other*
Controller. The table is `peers`. `ForeignSenders` are the senders that messages may name besides the device itself:
none (`Remote.send` fills in the own id), nobody, or anyone. `stale` is history: connections that lost their entry
to a Teardown and may be executed again.

### Status
`holder` is what a module's StatusHolder holds, then in order of flow: `queue` (channel of the status handler),
`current` (its global status), `outbox` (channel of the Remote) and `known` (what a device was told), `snapshots`
(channel of the actor) and `previous`. HandleMessage for an update is cut at its publications: `HandleUpdate`
merges, one `Notify` per listener in any order (Go maps), `FinishUpdate` prunes idle subscribers and publishes the
snapshot. Since a status is a version, "goes back" is "becomes smaller". The actor takes whatever arrives on its
topic for the global status: a command from inside the application (sender `Nil`) is replied to there, with the one
module that was asked for, and `ForeignNotification` is one of another device, with any content. History: `lost` and
`missed` are what was dropped on the way, `told` is what the status handler's snapshots told the actor of each
module, `strays` the modules whose previous state is something else, and `misled` whether another device ever told
the actor that the rule matches.

### Devices, the buses and IO
`Devices` declares the variables that the handler's goroutine (`todo`, `target`, `reported`, `changes`, `phase`),
the forwarder (`pend`) and the bus (`status`, `hw`, `worker`, `own`) have between them; each bus module adds the
steps of its own goroutines and of its device methods, and `IO` those of `io.go`. `own` is a record whose fields
depend on the bus. A command is the sequence `todo` of the calls its execution makes, because a poll, a fade, the
worker of modbus or a callback of the server can run between two of them; PUSH is two, a modbus TurnOn a send and
then an assignment. A poll is cut between remembering the old value and reading the new one (`BeginRead`,
`EndRead`). `Init` chooses the platform and the bus that has the devices; the other buses matter in `Teardown`,
where modbus and snapcast may have no worker or client (`opened`). What the code lets happen and a property has to
talk about is kept: `panic` of Teardown without a ticker and of a soft device without a value, a shared register
that is written as a whole from memory, a fade that starts from the status and not from the output, notifications
lost with a connection. The hardware is in any state at the start, and an output that modbus did not write yet, or
whose write failed, is `unsure`; a Unipi's first read may fail; commands go to inputs as well as to outputs; coil
inputs are not polled; a temperature below zero is not understood (`BelowZero`) and one of fewer than three digits
panics (`W1Panics`).

### ConfigTree and Startup
`pc` walks through a start: ParseConfig, the two repairs of NewController, TLSConfig, and the steps within it;
`sync` is what is left of a Sync, cut at its system calls. A crash may come anywhere, and a power failure before the
flush also takes what was written. Errors that the code ignores are steps that go on: a file that could not be
renamed is cut to nothing where it is, and a key that could not be written is the old one or torn (`TornKey`), which
is taken for a key. `hist` is history: directories where the user had a file, those whose torn file a later Sync put
in the place of `.old` (`buried`), those whose file could not be renamed (`stuck`), whether a Sync was cut
(`broken`), what the last complete one saved, and whether a pair was left in half.

### Heating and Schedule
`Heating` has the io handler and the status handler in it, as far as they carry temperatures and valves: commands
and snapshots pass channels that drop, and a dropped io status is only repeated at the next change. `Setup` closes
the valves one after the other and `Subscribes` comes after the last of them; HandleMessage takes a snapshot into
`handled`, and `Decides` is the body of its loop for the room whose `turn` it is, since the io handler executes
commands between two rooms. `season` is history: for each valve, whether its room was hot and cold again since it
opened. In `Schedule` time passes by the second; the ticker of datetime starts at any phase and fires up to `Late`
seconds late, a status may wait `MaxWait` seconds for the actor. `executed` is pruned of times that are over. A
request removes the rule at the place where its id was found (`Has`), as the code does.

### The smaller handlers and Codec
`Heartbeat` sees a connection that goes up and down; its `Sends` is the head of Remote's sender that ends at a stop.
`Telegram` has the bot's goroutines, which wait for a channel that all executions of the handler share, and answer
each word through the bot there is: without one (`bot`) the goroutine panics, and whether the library recovers or
the process ends is left open. `Badge` has a decoder whose reads return what has arrived, so that a field may be
cut, and tags with bytes that equal the mark (`Marked`), which a decoder that seeks behind a cut takes for one
(`misled`). `SnapcastHandler` has a status of two types, as in the code, and the type assertions that panic on the
wrong one. `Systemd` cuts HandleMessage at its calls over D-Bus; the jobs of systemd run between them, and `excused`
is history: what besides the handler decided the state of the service. `Codec` writes messages into a stream the
network carries piecewise and may close anywhere.

## 3. Runs

Eleven runs hold and one is violated. They take seconds to three minutes each. Those that hold visit between 37
thousand (`services_faults`) and 4.4 million (`relay_reconnections`) distinct states.

| run | question | instance and bounds | result |
|---|---|---|---|
| `controller_safety` | accounting, exclusion, order of handling | 2 handlers, one with topics; 2 runs each; 2 messages; channels of 1 | holds |
| `controller_liveness` | restarts, Start returns, loops settle | 1 handler, 3 runs, 1 message | holds |
| `remote_safety` | refinement of Link, close last, ends when asked or left | 2 messages each way, one without a command possible, channel of 1, timeout, bus may shut | holds |
| `relay_faults` | release of entries | 2 devices, 2 connections, 2 messages, any senders, late restarts | holds |
| `relay_reconnections` | routing, order, one forwarder, owner deletes | 2 devices, 3 connections, 3 messages, some without a sender, late restarts, channels of 2, symmetry (no liveness there) | holds |
| `relay_blocked` | does the router of a live connection keep working? | 2 connections | **violated** |
| `status_flow` | order of views, once per change, catching up | 2 modules (3 changes and 1), rule on one, 1 command of a device, of this device's own name or from inside, or 1 notification of another device, channels of 2, failing actor | holds |
| `io_buses` | is the io status current, are registers and fades right? | every bus of every platform, any hardware at the start, 5 devices, 2 commands, 2 changes of the hardware, 1 of the server | holds |
| `io_progress` | do commands, inputs and Teardown come to their end? | 4 devices, the output a coil, 1 command, 2 changes of the hardware, 1 of the server | holds |
| `startup_crashes` | what do crashes, failed renames and failed writes leave? | 2 directories, 3 faults, 2 values set by handlers | holds |
| `climate_house` | does the heating settle, does a rule fire once a day? | 2 rooms, one with a missing device; 2 days of a minute, a rule, 1 request | holds |
| `services_faults` | do the smaller handlers survive their faults? | heartbeat, telegram, badge, snapcast, systemd, codec in turn | holds |

**Why the bounds are enough to mean something.** Each bound is the smallest at which every case of the code occurs.
`MaxRuns`: a second run overlaps, or not, with the first. `BufferSize`: a channel that is full with one or two
messages drops the next. Three connections let a device be connected twice while a third one receives. `MaxVersion`:
three changes give a rule a match, a mismatch and a second match with a possible loss in between. `ChangesCap = 1`
fills deviceChanges with a single id; `MaxCommands = 2` lets a command meet what another left behind, and PUSH alone
is two calls; `MaxEvents` and `MaxServerEvents` count changes and faults of the hardware and the server together;
`MaxAttempts = 2` stands for five tries. `MaxFaults = 3` allows a crash in a start, another in the repair of what it
left, and a refusal between. `Day = 60` seconds has room for six ticks, so that every phase of ticks and rule
occurs; `Late` and `MaxWait` are the delays at which a rule may be seen twice or not at all; `Short` and `Minimum`
are the two bounds of a heating's age. `MaxErrors` stands for 300 missed beats, counted no further. `Words`,
`MaxNotes`, `MaxData`, `MaxMessages` are the smallest with a second item behind the first; one of three tags has a
byte that equals the mark. `MaxCommands = 1` in `status_flow` is one stray snapshot beside those of four changes;
what several do is left to the proofs. The proofs (section 5) remove the bounds for the properties they cover.
Deadlock checking is off everywhere: applications stop, and the finite numbers of messages, runs and faults end
every behaviour.

The type invariants of `IO`, `Startup`, `Heating`, `Schedule` and the smaller handlers are asserted of every step of
their runs (`Assert(TypeOK', ...)` in the next-state relation of the MC module); all but those of `IO` and
`Heartbeat` are part of the invariants proved.

Every property of a passing run is violated by at least one seeded error of the model, listed in `PROJECT.json`
under "mutants"; each mutant is defined next to the action it distorts.

## 4. Fairness

- `Controller`: weak fairness of the starter, of supervisors, of teardown, and of the *return* of callbacks.
  Goroutines that can run do run in Go; that Setup and callbacks return is an assumption about handlers that do not
  block (those that may are modelled with the handler). Strong fairness of `TakeContextDone`: a `select` chooses
  uniformly among its ready cases, so it does not avoid a case for ever. Nothing makes the user cancel, a handler
  fail, or anyone publish.
- `Remote`: weak fairness of each goroutine, of writes (which have a deadline) and of reads that have a deadline or
  something to read; strong fairness of `SenderSeesDone`, as above. No fairness for the peer, the publishers or the
  bus.
- `Relay`: weak fairness of each router and supervisor step, strong for noticing the end of the context.
- `Status`: weak fairness of subscriptions, of the status handler, and of the actor. Delivery to devices is not
  fair: no property needs it.
- `IO`: weak fairness of the handler, the forwarder, and the bus's goroutines; strong fairness of the poll of each
  device, since a poll visits all of them in turn, and of `ModbusTakes`, a `select` beside the poll. Nothing makes
  anyone command, the hardware change, or the handler end.
- `Startup`: weak fairness of the program going on, or being started again. Faults are finitely many.
- `Heating`: weak fairness of handlers and of the republication of the global status (datetime changes it every ten
  seconds); strong fairness of `Tick`, since channels are empty again and again when minutes pass.
- `MCServices`: weak fairness of tickers, goroutines, the network, and of the jobs of systemd; strong fairness where
  a `select` or a channel is contended: the heartbeat's tick that finds a free channel (other publishers do not fill
  it before every tick), a telegram goroutine that waits for a place in the channel, and the handler that empties
  it.

## 5. Proofs

`Bus` assumes `BufferSize` is a positive natural number; the other assumptions are typing of the constants.

**ControllerProofs** (`TypeCorrect`, `WaitGroupIsExact`, `BusOutlives`, `RunsExclude`, `MessagesHandledInOrder`).
WaitGroupExact is not inductive: that Respawn adds exactly one supervisor needs the next run to be idle before,
hence `RunsInSequence` (runs start one after another) and `LoopAfterSetup`/`CancelledIsQuiet` (where the two
goroutines of a run can be relative to each other); that the set counted is finite is part of the induction.
`StarterProgress` ties Start to the supervisors and contains `BusOutlivesSupervisors`; `GoneOnlyCancelled` gives the
exclusion: as long as the user does not cancel, a supervisor leaves only a run that was torn down. For the messages
`OrderInv` is added: until the user cancels, what waits in the channel of a run that goes on is newer than all its
handler was given, by that run or an earlier one (`QueueIsNewer`). A later run has received nothing before it
subscribes (`NothingBeforeSub`), and by then the earlier one takes nothing any more.

**RemoteProofs** (`TypeCorrect`, `ConnectionClosedLast`, `StopFinal`, `RemoteImplementsLink`). `WaiterInv` says what
the waiting goroutine knows, `StopInv` that send leaves its loop after a stop or a torn frame, `OrderInv` that wire,
message in hand and channel are increasing, `InboxInv` that deliveries and inbox are one gapless sequence. With them
each step of Remote is a step of Link or leaves its variables alone.

**RelayProofs** (`TypeCorrect`, `EntriesAreOwned`, `MessagesReachTheirReceiver`, `OneForwarder`,
`OnlyOwnerDeletesEntry`, `MessagesDeliveredInOrder`). The invariant follows a message: `EntryOwned` for the table,
`Targeted` for what a router read from it, which stays true however old, since a connection never changes its id,
and `Addressed` for what is in the channels. None of the theorems assumes anything of senders or late restarts. A
router can be torn down twice, and its second Teardown deletes a newer connection's entry: `HeldOrStale` says that a
connection that registered a device has its entry or lost it to a Teardown (`stale`), which gives `OneForwarder` for
the connections that did not, and in `OnlyOwnerDeletesEntry` names the only ones that may delete another's.
`OrderInv` says of each connection that a message behind (in the router's channel, then in its hands) is newer than
every message of that connection ahead, in any Remote's channel or in what a device received (`Passed`), and of each
device that what its current connection holds is newer than what it received (`Delivering`); a new connection starts
with an empty channel (`OnlyUp`).

**StatusProofs** (`TypeCorrect`, `NoViewGoesBack`, `NotTwiceForOneChange`). TypeOK alone is not inductive: a
notification has the type of a status only while an update is handled (`HandlingInv`). That no view goes back needs
the order of everything still under way: the versions of a module are sorted from the global status through the
status handler's channel to the holder (`QueueInv`), from what the actor was told through its channel to the global
status (`SnapInv`), and from what a device knows through the Remote's channel to the global status (`OutInv`). A
channel that drops or is emptied keeps them sorted, and so does what else comes through the actor's: replies from
inside are parts of the global status, and what other devices send tells nothing (`Tells`). `ExecInv` says that the
previous state is what was told, but for the strays, and that the rule only ran for statuses no newer than that; a
run by a trigger that is no stray needs one that differs from the previous state and exists, hence one that is
newer.

**StartupProofs** (`UserDataIsKept`, `SavedIsRead`, `PairsMatch`, `TypeCorrect`, `Invariance`). UserDataKept says
what is in the files and not what the program is about to write there, so it is not inductive. `KeepInv` adds for
its first half (`Kept`): a whole file has the user's part or needs no completion (`FileInv`), the file in use is the
last one there is (`CurrentIsLast`), what is in memory is the user's whenever it is going to be saved (`DataInv`),
and what each step of Sync finds on the disk (`DiskInv`): the user's file under its name until the rename, under
`.old` from then on, where the rename went well. Where it did not, the file may hold an older tree than the memory,
and nothing else keeps it; but as long as no Sync is cut short the file has the user's part (`Unbroken`, the second
half), because what was read from it has (`ReadInv`). `SavedInv` carries the saved tree from the last Sync to the
parse of the next start. The bounds in TypeOK need `IdentityInv` and `KeyInv`: an identity or a key is only made up
where the last one was lost to a fault, each of which is counted. `PairInv` follows the key from memory to its file
while the certificate is requested. Which file a start finds is a least number with a property; `LeastNumber` gets
it from the well-foundedness of `<` instead of an induction, which the provers cannot be given.

**IOProofs** (`NothingForgotten`, `OutputsFollow`, `FadesEnd`, `TypeCorrect`). `Shape` says what the variables of
each bus can hold: queues of ids (`QueuesTyped`), the fields of `own` (`OwnTyped`), a worker that polls inputs and
sensors only and still knows the status it began with (`WorkerInv`), and a command that has no calls but those of
its device and ends with a publication (`TodoInv`); the last two are what makes "its id is on the way" inductive,
since otherwise the worker could announce a change against an old value, or a command could end without a word. From
it `ToldNext` follows each step, bus by bus: none leaves the io status behind a device that it was not behind
before, but `PollUndoesCommand` (section 7, 6). Nothing is assumed of the hardware at the start or of which devices
commands go to. `ModbusGood` follows an output from its command to its coil: `SendInv` and `AssignInv` say in which
order TurnOn and Toggle send the action and store the status, and `ActionsFollow` that an output whose coil differs,
and that was written since the start, has an action in the queue, in the worker's hands or in the half of a command.
`FadeGood` says that a faded output has at most one fade, waiting or writing, heading for its status, unless fades
crossed.

**ClimateProofs** (`ValvesDoNotChatter`, `RulesFireOnce`, `RulesFireEachDay`, `HeatingInvariance`,
`ScheduleInvariance`). For a valve all that is under way is one stream of words open, close and none: the commands
in the io handler's channel, then what would be decided to the snapshot in hand, to those in the channel, to the
global status, and to the present state of the room. Every action takes words from the stream, repeats one, or adds
one at its end; `Fits` says for each season and position of the valve which words may be in it and in which order,
so that an opened valve has no second "open" before its room was hot and cold. `SetupOnlyCloses` is the phase before
the handler subscribed, and `HotIsNotCold` ties the season to the temperature. For the rules `InOrder` says that the
actor is told the times in their order, `InTime` that a tick is at most `Late` after its period, and `NearItsTime`
that an execution is near the time it was for; two of one rule for one time need two ticks within ten seconds.
`Current` gives the other direction: unless the last tick was dropped, the time is on its way to the actor, or known
to it and the rules near it were executed. `RulesFireEachDay` assumes `Late < Period`: two ticks in one second would
be one time, and hide a rule that is added between them. The assumptions on the constants (`ClimateAssumption`) are
types, a channel of at least one place, and rules whose minute ends before the day does.

**ServicesProofs** (`StreamShown`, `SnapcastTypeCorrect`, `TagsArePresented`, `BadgeInvariance`,
`MessagesAsWritten`, `CodecTypeCorrect`, `RequestsAreUnderway`, `WordsAreKept`, `PartsKeepApart`). `StatusFollows`
needs that every notification that waits is about the stream that plays (`NotesAreCurrent`) and that a status which
differs has one (`ShownOrNotified`). For the badge reader, each mark among the bytes that arrived or will arrive is
followed by the bytes of one tag, and what the decoder has of a field is their beginning (`MarksFollowed`,
`TagReadInOrder`): no cut makes a tag of pieces until a byte is taken for a mark. That this only happens to a tag
that came in pieces is `LedInv`: the bytes of a whole tag lie behind its mark, which the decoder takes first and
then reads them as fields, so that it never seeks among them. The codec's invariant (`CodecInv`) numbers the cells
of the connection: `Lies` says where each written message lies, carried or not, `Aligned` how far in which of them
the reader is. The messages' places are bound by the invariant, and not computed from their lengths, so that no
induction is needed. In systemd, what a request read must still lead to what it asks for when its call is made,
whatever the jobs did meanwhile (`RequestsStand`). For telegram, the published commands, the channel and the
goroutine that waits are one sequence of the words of a text, without gaps or repetitions, up to the word whose
answer found no bot; only a goroutine that is through was cut short there (`CutAtTheEnd`). These theorems are about
each handler's own specification; `PartsKeepApart` and `StreamShown` carry them over to the composition that TLC
runs. `ServicesAssumption` only gives the bounds and `Marked` their types.

Only model-checked: all liveness (fairness and ENABLED are outside the prover's reach), that is `StartReturns`,
`FailedHandlerRestarts`, `LoopsSettle`, `EndsWhenAsked`, `EntryReleased`, `StatusCatchesUp`, `EachChangeExecutes`,
`CommandCompletes`, `InputsReported`, `TeardownReturns`, `BootstrapSucceeds`, `ValvesFollow`, `DeadPeerDropped`,
`Reconnects`, and the second halves of `WholeTagsShown`, `EachMessageParsed`, `LastRequestWins` and
`EveryWordIsPublished`; the bounds of values and queues in the TypeOK of `IO` (`Shape` has their types), and the
types of `Heartbeat`.

## 6. Finding

`router.go:81`: forwarding to a connection whose Controller has just terminated blocks the router of the *sending*
device for ever, and its table entry with it (`relay_blocked`). The README of the code says that the router "allows
to route messages between two devices" (`src/README.md:19`).

## 7. Disagreements met that are not runs

The models contain what follows; the properties that would be violated were stated and found violated while the
models were written, and are left out of the runs, or excluded by the named part of a property, to keep one run per
question.

1. `controller.go:113`: ended runs never unsubscribe (the FIXME of the code); each restart leaks a channel.
2. `remote.go:27`: a Remote cancelled after its Controller terminated waits for the bus in Sub or Unsub and never
   closes its connection. `EndsWhenAsked` assumes the bus was not shut first.
3. `router.go:51`: after one message of another sender the restarted router keeps its id and not its entry: the
   device can send and not be reached. A supervisor that restarts the router after the context ended (`LateSelect`)
   leads to a second Teardown, which deletes the entry of a newer connection of the device. Both relay runs have it,
   `stale` in `SoleForwarder` and `OnlyOwnerDeletes` names the connections concerned.
4. `handler.go:82`: a status dropped once (before the status handler subscribed, or by a full channel) is not
   published again until it changes, so that the global status is not "comphrensive of every handler state"
   (`src/README.md:20`). `lost` in `StatusCatchesUp` stands for it.
5. `status.go:82`: a subscription to everything (the empty query) is answered and never notified: updates look
   listeners up by module (`status.go:106`).
6. `io.go:128`: commands are accepted for inputs too. On a Unipi the write fails and the status changes all the
   same, until the next poll reads the input again. A poll that began before the command finds its old value and
   takes it for no change (`unipibus.go:219-225`), so that the io status keeps the commanded one:
   `PollUndoesCommand` in `ReportedIsCurrent` is this step.
7. `snapcast.go:92`, `snapcast.go:166`: the status may be of two types and is asserted to be of one; the assertion
   panics after an update of the whole server. A reconnection compares the status with itself and so keeps an old
   one, against the comment at `snapcast.go:93`. `Reconnects` and `StatusFollows` name both.
8. `io.go:222`: on every platform but `soft` and `raspberrypi` Teardown waits for channels no one closes.
   `TeardownReturns` is about the others.
9. `config.go:169`: what a torn file replaces in `.old` is gone; nothing ever reads `.old`. `buried` in
   `UserDataKept` stands for it. The error of the rename is ignored, and the file it leaves is then cut to nothing
   (`config.go:174`): if the rest of that Sync fails or a crash comes, what the user wrote is lost (`stuck`).
   `tls.go:57` ignores an error too, and leaves a torn key that is taken for one.
10. `systemd.go:88`: a service is taken for active while the job that stops it waits to begin, so that a request to
    start it calls nothing and is replied to with "active", and the other way round at `systemd.go:94`. `Unnoticed`
    in `LastRequestWins` stands for it. Errors of the calls are not returned to the Controller, which therefore does
    not start the handler again when the connection to D-Bus breaks.
11. `remote.go:83`: a message without data, or whose data is JSON's null, has no command, and the receiver panics on
    it. `rcv = "panic"` in `EndsWhenAsked` stands for it. `Relay` has no such message.
12. `actor.go:93`: the actor takes every status notification for the global status. The reply to a command from
    inside for one module (`status.go:87`, `controller.go:241`) leaves the others out of its previous state, and
    another device may send any status (`remote.go:83`): the rule is then executed again for a status that did not
    change. `strays` and `misled` name these.
13. `modbus.go:125`: outputs are neither read nor written at the start. One that a previous run left on has the
    status off, and a command to turn it off is ignored (`modbus.go:79`). `unsure` in `RegistersFollow` stands for
    it.
14. `modbus.go:240`: inputs that are coils are not polled. `w1bus.go:22`: temperatures below zero are not
    understood; `w1bus.go:61`: those of fewer than three digits end the program. `OutOfSight` in `InputsReported`
    names the first two.
15. `telegram.go:89`, `telegram.go:126`: while no bot can be made, a goroutine of the last one answers through none
    and panics; the words behind are lost. `reach` and "panic" in `EveryWordIsPublished` stand for it.
16. `icm522.go:30`: after a field was cut, a byte of the rest of the tag that equals the mark is taken for one; a
    tag is made of pieces, or the whole one behind is lost. `misled` in `WholeTagsShown` stands for it.

## 8. Not modelled

- `handlers/systemd/dbusInterface.go` (over a third of the repository's lines) is generated; four of its methods are
  steps of `Systemd`. `handlers/version`: one constant status, an instance of `SetStatus`. Logging and formats.
- Details inside modelled components: Remote fills in the sender id; the actor's expression language (a library); a
  StatusHolder's forced publication of an equal status; the ten minutes of idleness, which may pass at any moment;
  sunrise and sunset; commands of users to heating valves; a second run of the io handler; JSON; SetConfigFileName.
- Status updates of other devices: any device can send them, and the status handler would take them for a handler's
  of this application. Nothing in the repository does; notifications, which a status handler sends, are modelled.
- What libraries do when a callback waits: the notifications of `jrpc2` may hold up the calls of the same client
  while `snapcast.go` waits for a channel. The library is not in the repository; `TeardownReturns` and
  `CommandCompletes` assume that calls return.

## 9. Plan

What is left, in this order: an abstract specification of a device register that `IO` refines per bus, from the
invariants of `IOProofs`; the bounds of IO's TypeOK as a theorem; one of the global status (each view is a prefix of
the changes) that `Status` refines; `Heartbeat` composed with `Remote` itself instead of a connection that goes up
and down; the io handler executed again after an error (deviceChanges is closed by then).
