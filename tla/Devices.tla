------------------------------- MODULE Devices -------------------------------
(***************************************************************************)
(* What the io handler shares with its buses (handlers/io/bus/bus.go):     *)
(* devices with a status in memory and a state in the hardware, and the    *)
(* channel on which a bus announces the ids of the devices that changed.   *)
(*                                                                         *)
(* A platform has several buses; the devices are on one of them.  Its      *)
(* modules add their steps to this state: `own' is the record of what only *)
(* that bus has, `worker' its goroutine.  A digital value is 0 or 1.       *)
(***************************************************************************)
EXTENDS Integers, Sequences, FiniteSets

CONSTANTS Inputs, Outputs,   \* digital devices
          Levels, Sensors,   \* analog outputs and inputs
          MaxLevel,          \* bound: values of an analog device
          ChangesCap,        \* capacity of io's deviceChanges
          MaxEvents          \* bound: changes and faults of the hardware

ASSUME DevicesAssumption ==
    /\ MaxLevel \in Nat \ {0} /\ ChangesCap \in Nat \ {0} /\ MaxEvents \in Nat
    /\ Inputs \cap Outputs = {} /\ Inputs \cap Levels = {} /\ Inputs \cap Sensors = {}
    /\ Outputs \cap Levels = {} /\ Outputs \cap Sensors = {} /\ Levels \cap Sensors = {}

Devs == Inputs \cup Outputs \cup Levels \cup Sensors
Digital == Inputs \cup Outputs
Unset == -1                  \* no value: not configured, or not in the io status
Values == {Unset} \cup 0..MaxLevel

VARIABLES
    plat,      \* the platform the program was built for
    bus,       \* the bus the devices are on
    opened,    \* buses that have a connection: a serial port, a server
    status,    \* per device, the value its bus remembers
    hw,        \* per device, the value of the hardware
    own,       \* what only this bus keeps
    worker,    \* the goroutine that polls or writes: place, device, value
    pend,      \* ids in the bus's channel and in the hand of io's forwarder
    changes,   \* io's deviceChanges
    phase,     \* of the io handler
    todo,      \* calls the handler's goroutine has still to make
    target,    \* the device they are about
    reported,  \* per device, its value in the io status
    commands,  \* commands received so far
    events     \* changes and faults so far

confVars == <<plat, bus>>
handlerVars == <<phase, todo, target, reported, commands>>
vars == <<confVars, opened, status, hw, own, worker, pend, changes, handlerVars, events>>

BusesOf(p) ==
    CASE p = "soft" -> {"soft"}
      [] p = "raspberrypi" -> {"soft", "gpio"}
      [] p = "unipi_neuron" -> {"soft", "unipi", "w1", "modbus", "snapcast"}

(* The goroutines of the buses run from Initialize to Deinitialize. *)
Works(b) == bus = b /\ phase \in {"describe", "running"}

(* The channels of soft, gpio and modbus have no buffer, the others one      *)
(* place; one more id is in the hand of the forwarder.                       *)
CanSend == Len(pend) <= IF bus \in {"unipi", "w1", "snapcast"} THEN 1 ELSE 0

(* A method of a device, called by the handler's goroutine. *)
Call(op, arg) == [op |-> op, arg |-> arg]
Turn(b) == Works(b) /\ todo # <<>> /\ Head(todo).op \in {"switch", "toggle", "set", "add"}
At(op) == phase = "running" /\ todo # <<>> /\ Head(todo).op = op
Instead(calls) == todo' = calls \o Tail(todo)
Result(v, c) ==
    CASE c.op \in {"switch", "set"} -> c.arg
      [] c.op = "toggle" -> 1 - v
      [] c.op = "add" -> v + c.arg

(* A poll reads a device: the old value is remembered, the new one is read  *)
(* and announced if it differs from it.                                     *)
BeginRead(d) ==
    /\ worker.pc = "idle"
    /\ worker' = [pc |-> "read", dev |-> d, val |-> status[d]]
    /\ UNCHANGED <<confVars, opened, status, hw, own, pend, changes, handlerVars, events>>

ReadsValue ==
    /\ worker.pc = "read"
    /\ LET now == hw[worker.dev] IN
       /\ status' = [status EXCEPT ![worker.dev] = now]
       /\ worker' = [worker EXCEPT !.pc = IF now # worker.val THEN "send" ELSE "idle"]
    /\ UNCHANGED <<confVars, opened, hw, own, pend, changes, handlerVars, events>>

(* What is read is no value: the device is left as it is.                   *)
ReadsNothing ==
    /\ worker.pc = "read"
    /\ worker' = [worker EXCEPT !.pc = "idle"]
    /\ UNCHANGED <<confVars, opened, status, hw, own, pend, changes, handlerVars>>

EndRead(ok) ==
    IF ok THEN ReadsValue
    ELSE events < MaxEvents /\ events' = events + 1 /\ ReadsNothing

Announce ==
    /\ worker.pc = "send" /\ CanSend
    /\ pend' = Append(pend, worker.dev)
    /\ worker' = [worker EXCEPT !.pc = "idle"]
    /\ UNCHANGED <<confVars, opened, status, hw, own, changes, handlerVars, events>>

(* The world changes an input or a sensor. *)
HardwareChanges(d, v) ==
    /\ events < MaxEvents /\ phase = "running" /\ v # hw[d]
    /\ hw' = [hw EXCEPT ![d] = v]
    /\ events' = events + 1
    /\ UNCHANGED <<confVars, opened, status, own, worker, pend, changes, handlerVars>>
==============================================================================
