-------------------------------- MODULE Modbus --------------------------------
(***************************************************************************)
(* Devices on a serial line (handlers/io/bus/modbus).  The handler's        *)
(* goroutine queues an action; the worker writes it, and polls the inputs   *)
(* in between.  Outputs that are no coils share one register, which is      *)
(* written as a whole from the statuses in memory.  Nobody reads an output, *)
(* or an input that is a coil.                                              *)
(* own.actions is devicesActions; own.unsure (history) are the outputs that *)
(* were not written since the start, or whose last action was given up.     *)
(* Without a serial port no worker runs.                                    *)
(***************************************************************************)
EXTENDS Devices

CONSTANTS Coils,         \* digital devices with a coil of their own
          MaxAttempts    \* tries per action

ASSUME ModbusAssumption == MaxAttempts \in Nat \ {0}

HasWorker == Works("modbus") /\ "modbus" \in opened
Registered == Outputs \ Coils

ModbusInitialize ==
    /\ status' = [d \in Devs |-> IF d \in Digital THEN 0 ELSE Unset]
    /\ own' = [actions |-> <<>>, unsure |-> Outputs]

(* TurnOn, TurnOff: queue the action, then store the status.  Toggle: the   *)
(* other way round.  A device that is as wanted is left alone.              *)
ModbusCall ==
    /\ Turn("modbus")
    /\ LET c == Head(todo)
           v == Result(status[target], c) IN
       CASE target \in Inputs \/ (c.op = "switch" /\ v = status[target]) ->
              Instead(<<>>) /\ UNCHANGED status
         [] target \in Outputs /\ c.op = "switch" /\ v # status[target] ->
              Instead(<<Call("send", v), Call("assign", v)>>) /\ UNCHANGED status
         [] target \in Outputs /\ c.op = "toggle" ->
              /\ status' = [status EXCEPT ![target] = v]
              /\ Instead(<<Call("send", v)>>)
    /\ UNCHANGED <<confVars, opened, hw, own, worker, pend, changes, phase, target, reported, commands, events>>

ModbusSends ==
    /\ bus = "modbus" /\ At("send") /\ own.actions = <<>>
    /\ own' = [own EXCEPT !.actions = <<[dev |-> target, val |-> Head(todo).arg]>>]
    /\ Instead(<<>>)
    /\ UNCHANGED <<confVars, opened, status, hw, worker, pend, changes, phase, target, reported, commands, events>>

ModbusAssigns ==
    /\ bus = "modbus" /\ At("assign")
    /\ status' = [status EXCEPT ![target] = Head(todo).arg]
    /\ Instead(<<>>)
    /\ UNCHANGED <<confVars, opened, hw, own, worker, pend, changes, phase, target, reported, commands, events>>

(* Mutant: only the actions on the register are taken. *)
ModbusTakesRegistered ==
    /\ HasWorker /\ worker.pc = "idle" /\ own.actions # <<>> /\ own.actions[1].dev \in Registered
    /\ worker' = [pc |-> "write", dev |-> own.actions[1].dev, val |-> own.actions[1].val, tries |-> 1]
    /\ own' = [own EXCEPT !.actions = <<>>]
    /\ UNCHANGED <<confVars, opened, status, hw, pend, changes, handlerVars, events>>

ModbusTakes ==
    /\ HasWorker /\ worker.pc = "idle" /\ own.actions # <<>>
    /\ worker' = [pc |-> "write", dev |-> own.actions[1].dev, val |-> own.actions[1].val, tries |-> 1]
    /\ own' = [own EXCEPT !.actions = <<>>]
    /\ UNCHANGED <<confVars, opened, status, hw, pend, changes, handlerVars, events>>

(* Mutant: the register is composed of the statuses alone. *)
WrittenFromStatus(d, v) ==
    [e \in Devs |-> IF e = d \/ (d \in Registered /\ e \in Registered) THEN status[e] ELSE hw[e]]

(* writeCoil writes one output, writeRegister all those of the register,    *)
(* this one with the value of the action.                                   *)
Written(d, v) ==
    [e \in Devs |-> IF e = d THEN v
                    ELSE IF d \in Registered /\ e \in Registered THEN status[e] ELSE hw[e]]

(* sendAction: a write that reports an error may have reached the hardware. *)
(* The last error is only logged.                                           *)
ModbusWrites(ok, reached) ==
    /\ HasWorker /\ worker.pc = "write"
    /\ hw' = IF ok \/ reached THEN Written(worker.dev, worker.val) ELSE hw
    /\ LET over == ok \/ worker.tries = MaxAttempts
           done == IF worker.dev \in Registered THEN Registered ELSE {worker.dev} IN
       /\ worker' = IF over THEN [pc |-> "idle", dev |-> worker.dev, val |-> 0]
                            ELSE [worker EXCEPT !.tries = @ + 1]
       /\ own' = [own EXCEPT !.unsure = IF ok THEN @ \ done ELSE IF over THEN @ \cup {worker.dev} ELSE @]
    /\ UNCHANGED <<confVars, opened, status, pend, changes, handlerVars, events>>

ModbusPolls(d) == HasWorker /\ d \in Inputs \ Coils /\ BeginRead(d)
ModbusReads(ok) == HasWorker /\ EndRead(ok)
ModbusAnnounces == HasWorker /\ Announce
===============================================================================
