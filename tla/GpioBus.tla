------------------------------- MODULE GpioBus -------------------------------
(***************************************************************************)
(* Pins of the processor (handlers/io/bus/gpiobus): the status is read from *)
(* the pin, and a watcher (a library) announces its edges in the order they *)
(* happen.  own.edges is the watcher's channel.                             *)
(***************************************************************************)
EXTENDS Devices

CONSTANT Inverted        \* pins that are low when the device is on

Pin(d, v) == IF d \in Inverted THEN 1 - v ELSE v

(* Every pin starts low; that of an inverted device is then driven high.    *)
GpioInitialize ==
    /\ hw' = [d \in Devs |-> IF d \in Outputs THEN Pin(d, 0) ELSE 0]
    /\ own' = [edges |-> <<>>]

GpioShown(d) == Pin(d, hw[d])

GpioCall ==
    /\ Turn("gpio")
    /\ LET level == Pin(target, Result(GpioShown(target), Head(todo))) IN
       /\ hw' = [hw EXCEPT ![target] = level]
       /\ own' = IF level = hw[target] THEN own ELSE [own EXCEPT !.edges = Append(@, target)]
    /\ Instead(<<>>)
    /\ UNCHANGED <<confVars, opened, status, worker, pend, changes, phase, target, reported, commands, events>>

(* The goroutine of DeviceChanges. *)
GpioAnnounces ==
    /\ bus = "gpio" /\ phase \in {"running", "closing"} /\ own.edges # <<>> /\ CanSend
    /\ pend' = Append(pend, Head(own.edges))
    /\ own' = [own EXCEPT !.edges = Tail(@)]
    /\ UNCHANGED <<confVars, opened, status, hw, worker, changes, handlerVars, events>>
==============================================================================
