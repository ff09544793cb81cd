------------------------------- MODULE SoftBus -------------------------------
(***************************************************************************)
(* Pure software devices (handlers/io/bus/softbus): the configuration may   *)
(* give them a value, no goroutine runs, nothing is ever announced.         *)
(***************************************************************************)
EXTENDS Devices

SoftDevices == Inputs \cup Outputs \cup Levels

SoftInitialize == \E v \in {Unset, 0} :
    status' = [d \in Devs |-> IF d \in SoftDevices THEN v ELSE Unset]

(* Description: a device without a value is shown as off, or zero. *)
SoftShown(d) == IF status[d] = Unset THEN 0 ELSE status[d]

(* Inputs reject every method; Toggle and AddValue read the value as what   *)
(* it should be, and there may be none.                                     *)
SoftCall ==
    /\ Turn("soft")
    /\ LET c == Head(todo) IN
       IF target \in Inputs
       THEN Instead(<<>>) /\ UNCHANGED <<status, phase>>
       ELSE IF c.op \in {"toggle", "add"} /\ status[target] = Unset
       THEN phase' = "panic" /\ UNCHANGED <<status, todo>>
       ELSE /\ status' = [status EXCEPT ![target] = Result(@, c)]
            /\ Instead(<<>>) /\ UNCHANGED phase
    /\ UNCHANGED <<confVars, opened, hw, own, worker, pend, changes, target, reported, commands, events>>
==============================================================================
