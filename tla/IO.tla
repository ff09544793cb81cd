---------------------------------- MODULE IO ----------------------------------
(***************************************************************************)
(* The io handler (handlers/io/io.go) with the buses of its platform.  Its   *)
(* loop (runHandler) handles commands and device changes one by one and ends *)
(* with Teardown; a forwarder per bus moves ids from the bus's channel to    *)
(* deviceChanges.  Many commands are executed by several calls, in which     *)
(* goroutines of the bus interfere: `todo' is what is left of them.          *)
(*                                                                           *)
(* The devices are on one bus, chosen at the start with the platform; the    *)
(* others of the platform have none, and matter when the handler ends.       *)
(***************************************************************************)
EXTENDS SoftBus, GpioBus, UnipiBus, W1Bus, Modbus, SnapcastBus

CONSTANT MaxCommands         \* bound: commands for io

ASSUME IOAssumption == MaxCommands \in Nat

DevicesOn(b) ==
    CASE b = "soft" -> SoftDevices
      [] b = "gpio" -> Outputs
      [] b = "unipi" -> Inputs \cup Outputs \cup Levels
      [] b = "w1" -> Sensors
      [] b = "modbus" -> Digital
      [] b = "snapcast" -> ClientDevices

(* getDevice finds it. *)
Known(d) == IF bus = "snapcast" THEN SnapcastKnows(d) ELSE d \in DevicesOn(bus)

(* Description, as far as the io status shows it. *)
Shown(d) ==
    CASE bus = "soft" -> SoftShown(d)
      [] bus = "gpio" -> GpioShown(d)
      [] OTHER -> status[d]

TypeOK ==
    /\ plat \in {"soft", "raspberrypi", "unipi_neuron"} /\ bus \in BusesOf(plat)
    /\ opened \subseteq {"modbus", "snapcast"} \cap BusesOf(plat)
    /\ status \in [Devs -> Values] /\ hw \in [Devs -> Values] /\ reported \in [Devs -> Values]
    /\ worker.pc \in {"idle", "read", "write", "send"} /\ worker.dev \in Devs /\ worker.val \in Values
    /\ pend \in Seq(Devs) /\ Len(pend) <= 2
    /\ changes \in Seq(Devs) /\ Len(changes) <= ChangesCap
    /\ phase \in {"setup", "describe", "running", "closing", "ended", "panic"}
    /\ Len(todo) <= 4 /\ target \in Devs
    /\ commands \in 0..MaxCommands /\ events \in 0..MaxEvents

(* The hardware is as the last run of the program, or somebody else, left   *)
(* it; New makes the rest.                                                  *)
Init ==
    /\ plat \in {"soft", "raspberrypi", "unipi_neuron"} /\ bus \in BusesOf(plat)
    /\ opened \in SUBSET ({"modbus"} \cap {bus})
    /\ status = [d \in Devs |-> Unset]
    /\ \E before \in SUBSET (IF bus = "soft" THEN {} ELSE DevicesOn(bus)) :
          hw = [d \in Devs |-> IF d \in before THEN 1 ELSE 0]
    /\ reported = [d \in Devs |-> Unset]
    /\ own = <<>> /\ worker = [pc |-> "idle", dev |-> CHOOSE d \in Devs : TRUE, val |-> 0]
    /\ pend = <<>> /\ changes = <<>>
    /\ phase = "setup" /\ todo = <<>> /\ target = CHOOSE d \in Devs : TRUE
    /\ commands = 0 /\ events = 0

-------------------------------------------------------------------------------
(* Setup: Initialize of the buses, whose goroutines start, ...              *)
Initialize ==
    /\ phase = "setup" /\ phase' = "describe"
    /\ CASE bus = "soft" -> SoftInitialize /\ UNCHANGED <<hw, own, events>>
         [] bus = "gpio" -> GpioInitialize /\ UNCHANGED <<status, events>>
         [] bus = "unipi" -> UnipiInitialize /\ UNCHANGED hw
         [] bus = "w1" -> W1Initialize /\ UNCHANGED <<hw, own, events>>
         [] bus = "modbus" -> ModbusInitialize /\ UNCHANGED <<hw, events>>
         [] bus = "snapcast" -> SnapcastInitialize /\ UNCHANGED <<hw, events>>
    /\ UNCHANGED <<confVars, opened, worker, pend, changes, todo, target, reported, commands>>

(* ... and the first status, of the devices that are known by then.         *)
Describe ==
    /\ phase = "describe" /\ phase' = "running"
    /\ reported' = [d \in Devs |-> IF Known(d) THEN Shown(d) ELSE Unset]
    /\ UNCHANGED <<confVars, opened, status, hw, own, worker, pend, changes, todo, target, commands, events>>

(* Mutant: the forwarders start when unipi has no channel yet. *)
ForwardFromChannelsMadeInNew ==
    /\ bus # "unipi" /\ phase \in {"describe", "running", "closing"}
    /\ pend # <<>> /\ Len(changes) < ChangesCap
    /\ changes' = Append(changes, Head(pend)) /\ pend' = Tail(pend)
    /\ UNCHANGED <<confVars, opened, status, hw, own, worker, handlerVars, events>>

(* Mutant: the forwarders end when the handler does. *)
ForwardWhileRunning ==
    /\ phase \in {"describe", "running"}
    /\ pend # <<>> /\ Len(changes) < ChangesCap
    /\ changes' = Append(changes, Head(pend)) /\ pend' = Tail(pend)
    /\ UNCHANGED <<confVars, opened, status, hw, own, worker, handlerVars, events>>

(* listenForDeviceChanges: a forwarder. *)
Forward ==
    /\ phase \in {"describe", "running", "closing"}
    /\ pend # <<>> /\ Len(changes) < ChangesCap
    /\ changes' = Append(changes, Head(pend)) /\ pend' = Tail(pend)
    /\ UNCHANGED <<confVars, opened, status, hw, own, worker, handlerVars, events>>

Publish == Call("publish", 0)

(* Mutant: TOGGLE returns without setStatus. *)
ToggleUnpublished(action) ==
    CASE action = "SET" -> <<Call("switch", 1), Publish>>
      [] action = "RESET" -> <<Call("switch", 0), Publish>>
      [] action = "PUSH" -> <<Call("switch", 1), Call("switch", 0), Publish>>
      [] action = "TOGGLE" -> <<Call("toggle", 0)>>
      [] action = "GET" -> <<Publish>>

(* executeDigitalCommand, then setStatus; other actions call nothing.       *)
DigitalCalls(action) ==
    (CASE action = "SET" -> <<Call("switch", 1)>>
       [] action = "RESET" -> <<Call("switch", 0)>>
       [] action = "PUSH" -> <<Call("switch", 1), Call("switch", 0)>>
       [] action = "TOGGLE" -> <<Call("toggle", 0)>>
       [] action = "GET" -> <<>>) \o <<Publish>>

Loop == phase = "running" /\ todo = <<>>

(* parseDigitalCommand: a device that is not known, or not digital, is      *)
(* only logged.                                                             *)
DigitalCommand(d, action) ==
    /\ Loop /\ commands < MaxCommands
    /\ commands' = commands + 1
    /\ IF Known(d) /\ d \in Digital
       THEN target' = d /\ todo' = DigitalCalls(action)
       ELSE UNCHANGED <<target, todo>>
    /\ UNCHANGED <<confVars, opened, status, hw, own, worker, pend, changes, phase, reported, events>>

(* parseAnalogCommand: SetValue or AddValue.                                *)
AnalogCommand(d, op, v) ==
    /\ Loop /\ commands < MaxCommands
    /\ op = "add" /\ Known(d) => Shown(d) + v \in (IF bus = "soft" THEN 0 ELSE -1)..MaxLevel  \* bound
    /\ commands' = commands + 1
    /\ IF Known(d) /\ d \in Levels
       THEN target' = d /\ todo' = <<Call(op, v), Publish>>
       ELSE UNCHANGED <<target, todo>>
    /\ UNCHANGED <<confVars, opened, status, hw, own, worker, pend, changes, phase, reported, events>>

(* setStatus: what is published is what the device shows now.               *)
SetStatus(d) == reported' = IF Known(d) THEN [reported EXCEPT ![d] = Shown(d)] ELSE reported

CommandEnds ==
    /\ At("publish")
    /\ SetStatus(target)
    /\ Instead(<<>>)
    /\ UNCHANGED <<confVars, opened, status, hw, own, worker, pend, changes, phase, target, commands, events>>

(* HandleChannelEvent. *)
HandleChange ==
    /\ Loop /\ changes # <<>>
    /\ SetStatus(Head(changes))
    /\ changes' = Tail(changes)
    /\ UNCHANGED <<confVars, opened, status, hw, own, worker, pend, phase, todo, target, commands, events>>

(* Deinitialize of modbus uses the ticker of its worker, that of snapcast   *)
(* its client; they may have neither, whether they have devices or not.     *)
Needing == {"modbus", "snapcast"}

Teardown ==
    /\ Loop
    /\ \E others \in SUBSET (Needing \ {bus}) :
          phase' = IF Needing \cap BusesOf(plat) \subseteq opened \cup others
                   THEN "closing" ELSE "panic"
    /\ UNCHANGED <<confVars, opened, status, hw, own, worker, pend, changes, todo, target, reported, commands, events>>

(* Only soft and gpio close their channel; the goroutines of unipi and w1   *)
(* would after their ticker's channel is closed, which Stop does not do.    *)
Closing == {"soft", "gpio"}

(* wg.Wait returns when each forwarder drained a closed channel.            *)
TeardownEnds ==
    /\ phase = "closing"
    /\ BusesOf(plat) \subseteq Closing /\ pend = <<>> /\ (bus = "gpio" => own.edges = <<>>)
    /\ phase' = "ended"
    /\ UNCHANGED <<confVars, opened, status, hw, own, worker, pend, changes, todo, target, reported, commands, events>>

-------------------------------------------------------------------------------
Setup == Initialize \/ Describe

Commands ==
    \/ \E d \in Devs, action \in {"SET", "RESET", "PUSH", "TOGGLE", "GET"} : DigitalCommand(d, action)
    \/ \E d \in Devs, v \in 0..MaxLevel : AnalogCommand(d, "set", v)
    \/ \E d \in Devs, v \in {-1, 1} : AnalogCommand(d, "add", v)

Executes ==
    \/ SoftCall \/ GpioCall \/ UnipiCall \/ ModbusCall \/ SnapcastCall
    \/ ModbusSends \/ ModbusAssigns
    \/ (\E ok, left \in BOOLEAN : SnapcastRequests(ok, left)) \/ SnapcastNotifies
    \/ CommandEnds

Polls(d) == UnipiPolls(d) \/ W1Polls(d) \/ ModbusPolls(d)

WorkerGoesOn ==
    \/ \E ok \in BOOLEAN : UnipiReads(ok) \/ W1Reads(ok) \/ ModbusReads(ok)
    \/ W1Panics
    \/ UnipiAnnounces \/ W1Announces \/ ModbusAnnounces
    \/ \E ok, reached \in BOOLEAN : ModbusWrites(ok, reached)

Fades == (\E i \in 1..MaxCommands : FadeStarts(i)) \/ \E d \in Levels : FadeWrites(d)

Next ==
    \/ Setup \/ Commands \/ Executes \/ HandleChange \/ Forward
    \/ Teardown \/ TeardownEnds
    \/ (\E d \in Devs : Polls(d)) \/ WorkerGoesOn \/ ModbusTakes
    \/ GpioAnnounces \/ Fades
    \/ (\E ok, left \in BOOLEAN : SnapcastPolls(ok, left))
    \/ LoopAnnounces \/ Notification \/ CallbackAnnounces
    \/ \E d \in Devs, v \in BelowZero..MaxLevel :
          \/ d \in (Inputs \cup Sensors) \cap DevicesOn(bus) /\ (d \in Inputs => v \in {0, 1}) /\ HardwareChanges(d, v)
          \/ v >= 0 /\ (d \in Outputs => v <= 1) /\ ServerChanges(d, v)

Spec == Init /\ [][Next]_vars

(* Goroutines that can run do run.  A poll visits the devices in turn, so    *)
(* that none is left out for ever, and the worker's select takes an action   *)
(* in the end.  Nobody has to command, to change anything, or to end.        *)
Fairness ==
    /\ WF_vars(Setup) /\ WF_vars(Executes) /\ WF_vars(HandleChange)
    /\ WF_vars(Forward) /\ WF_vars(TeardownEnds)
    /\ \A d \in Devs : SF_vars(Polls(d))
    /\ WF_vars(WorkerGoesOn) /\ SF_vars(ModbusTakes)
    /\ WF_vars(GpioAnnounces) /\ WF_vars(LoopAnnounces) /\ WF_vars(CallbackAnnounces)

FairSpec == Spec /\ Fairness
-------------------------------------------------------------------------------
(* Properties. *)

(* Ids that some goroutine has still to pass on. *)
Queued(q, d) == \E i \in DOMAIN q : q[i] = d
UnderWay(d) ==
    \/ Queued(pend, d) \/ Queued(changes, d)
    \/ worker.pc = "send" /\ worker.dev = d
    \/ bus = "snapcast" /\ phase # "setup" /\ (Queued(own.loop, d) \/ Queued(own.callback, d))

(* The io status shows another value of d than d itself, no goroutine has   *)
(* its id to pass on, and no command about it is being executed.            *)
LeftBehind(d) ==
    /\ phase = "running" /\ Known(d) /\ reported[d] # Shown(d)
    /\ ~UnderWay(d) /\ ~(todo # <<>> /\ target = d)

(* A poll of an input of a Unipi, which began before a command stored a     *)
(* value, stores the one it compares with: to the poll nothing changed.     *)
PollUndoesCommand(d) ==
    /\ bus = "unipi" /\ d \in Inputs /\ worker.pc = "read" /\ worker.dev = d
    /\ status[d] # worker.val /\ hw[d] = worker.val

(* Whatever goroutine changes a device, its value in the io status is the   *)
(* one it shows, or its id is on the way to the handler, or a command about *)
(* it is being executed: no change is published from an old value and then  *)
(* forgotten (io.go:69-84).  There is one step in which that goes wrong: io *)
(* accepts commands for inputs (io.go:128), and a poll of a Unipi's input   *)
(* can undo one unnoticed (unipibus.go:219-225).                            *)
ReportedIsCurrent ==
    [][\A d \in Devs : LeftBehind(d)' => LeftBehind(d) \/ PollUndoesCommand(d)]_vars

(* Once the worker of modbus has nothing to do, the hardware has the values *)
(* of all outputs that were written since the start and whose last action   *)
(* was not given up (modbus.go:181-228): an action that is written while    *)
(* the status of another device is being stored does not undo it.  (Nothing *)
(* is written or read at the start, modbus.go:125-152: until its first      *)
(* action an output may be on while its status says off.)                   *)
RegistersFollow ==
    bus = "modbus" /\ phase = "running" /\ todo = <<>> /\ own.actions = <<>> /\ worker.pc # "write" =>
        \A d \in Outputs \ own.unsure : hw[d] = status[d]

(* A PWM output ends at the value asked for last, unless fades overlapped   *)
(* (unipibus.go:163-180, 190), which the mutex serves in any order, or it   *)
(* could not be read at the start and was not asked for another value yet.  *)
FadesConverge ==
    bus = "unipi" /\ phase = "running" =>
        \A d \in Levels \ own.crossed : Fading(d) \/ FadesOf(d) # {} \/ hw[d] = status[d]

(* The goroutine of the handler waits for the worker of modbus, or for      *)
(* itself, with everything in between full.                                 *)
Full == ~CanSend /\ Len(changes) = ChangesCap
Standstill ==
    \/ bus = "modbus" /\ At("send") /\ own.actions # <<>>
       /\ (~HasWorker \/ (worker.pc = "send" /\ Full))
    \/ bus = "snapcast" /\ At("notify") /\ Full

(* A command is executed to its end, unless those queues are full           *)
(* (modbus.go:69, snapcast.go:57) or a soft device has no value to change.  *)
CommandCompletes == (todo # <<>>) ~> (todo = <<>> \/ Standstill \/ phase = "panic")

(* Inputs that nobody polls, values that nobody can read, and changes that  *)
(* a poll undid unnoticed (see ReportedIsCurrent).                          *)
OutOfSight(d) ==
    \/ bus \in {"soft", "gpio"} \/ ~Known(d)
    \/ bus = "modbus" /\ (~HasWorker \/ d \in Coils)
    \/ bus = "w1" /\ hw[d] = BelowZero
    \/ bus = "unipi" /\ LeftBehind(d)

(* What the hardware of an input or a sensor ends up with is what the io    *)
(* status ends up with, through worker, forwarder and handler, unless it is *)
(* out of sight: a coil is not polled (modbus.go:240), a temperature below  *)
(* zero is not understood (w1bus.go:22).  One of less than a tenth of a     *)
(* degree ends the program (w1bus.go:61).                                   *)
InputsReported ==
    \A d \in Inputs \cup Sensors :
        <>[](phase # "running" \/ Standstill \/ OutOfSight(d) \/ reported[d] = hw[d])

(* Where every bus closes its channel Teardown returns, unless more changes *)
(* are waiting than deviceChanges takes: nobody reads it any more (io.go:   *)
(* 222-228).                                                                *)
TeardownReturns ==
    (phase = "closing" /\ BusesOf(plat) \subseteq Closing) ~>
        (phase = "ended" \/ (pend # <<>> /\ Len(changes) = ChangesCap))
===============================================================================
