------------------------------- MODULE UnipiBus -------------------------------
(***************************************************************************)
(* The lines of a Unipi controller, which are files (handlers/io/bus/       *)
(* unipibus): inputs are polled, outputs are written at once, but a PWM     *)
(* output goes to its new value in steps, in a goroutine of its own that    *)
(* waits for the mutex of the device.  own.pwm are the analog outputs of    *)
(* that kind, own.waiting the fades that wait, own.fade the one that holds  *)
(* the mutex of a device, and own.crossed (history) are the outputs whose   *)
(* last fade that writes found another one under way, and those that could  *)
(* not be read at the start.                                                *)
(***************************************************************************)
EXTENDS Devices

NoFade == [at |-> 0, to |-> 0]
FadesOf(d) == {i \in DOMAIN own.waiting : own.waiting[i].dev = d}
Fading(d) == own.fade[d] # NoFade

(* initialize opens the file of a device and fetches its value; the bus     *)
(* goes on with zero when it cannot be read.                                *)
Initialized(d, unread) == IF d \in Sensors THEN Unset ELSE IF d \in unread THEN 0 ELSE hw[d]

UnipiInitialize ==
    \E unread \in SUBSET {d \in Digital \cup Levels : hw[d] # 0}, pwm \in SUBSET Levels :
       /\ events' = events + Cardinality(unread) /\ events' <= MaxEvents
       /\ status' = [d \in Devs |-> Initialized(d, unread)]
       /\ own' = [pwm |-> pwm, waiting |-> <<>>, fade |-> [d \in Levels |-> NoFade],
                  crossed |-> unread \cap Levels]

(* Mutant: a fade starts from nothing. *)
FadeFromZero(d, from, to) == [dev |-> d, from |-> 0, to |-> to]

NewFade(d, from, to) == [dev |-> d, from |-> from, to |-> to]

(* A fade that finds another one may write in between; one that writes and  *)
(* finds none decides alone.                                                *)
CrossedAfter(d, v) ==
    IF Fading(d) \/ FadesOf(d) # {} THEN own.crossed \cup {d}
    ELSE IF v # status[d] THEN own.crossed \ {d} ELSE own.crossed

Clipped(v) == IF v < 0 THEN 0 ELSE v

(* The file of an input is opened for reading: writing it fails, and the    *)
(* status changes all the same.  SetValue and AddValue fade a PWM output    *)
(* and write another one; AddValue stops at zero.                           *)
UnipiCall ==
    /\ Turn("unipi")
    /\ LET v == Clipped(Result(status[target], Head(todo))) IN
       /\ status' = [status EXCEPT ![target] = v]
       /\ hw' = IF target \in Outputs \cup (Levels \ own.pwm) THEN [hw EXCEPT ![target] = v] ELSE hw
       /\ own' = IF target \in own.pwm
                 THEN [own EXCEPT !.waiting = Append(@, NewFade(target, status[target], v)),
                                  !.crossed = CrossedAfter(target, v)]
                 ELSE [own EXCEPT !.crossed = @ \ {target}]
    /\ Instead(<<>>)
    /\ UNCHANGED <<confVars, opened, worker, pend, changes, phase, target, reported, commands, events>>

(* One of the waiting fades gets the mutex.  Once Deinitialize closed the   *)
(* files no fade writes.                                                    *)
FadeStarts(i) ==
    /\ Works("unipi") /\ i \in DOMAIN own.waiting /\ ~Fading(own.waiting[i].dev)
    /\ LET f == own.waiting[i] IN
       own' = [own EXCEPT !.waiting = [j \in 1..Len(@) - 1 |-> IF j < i THEN @[j] ELSE @[j + 1]],
                          !.fade[f.dev] = IF f.from = f.to THEN NoFade ELSE [at |-> f.from, to |-> f.to]]
    /\ UNCHANGED <<confVars, opened, status, hw, worker, pend, changes, handlerVars, events>>

FadeWrites(d) ==
    /\ Works("unipi") /\ Fading(d)
    /\ LET f == own.fade[d]
           next == IF f.at < f.to THEN f.at + 1 ELSE f.at - 1 IN
       /\ hw' = [hw EXCEPT ![d] = next]
       /\ own' = [own EXCEPT !.fade[d] = IF next = f.to THEN NoFade ELSE [f EXCEPT !.at = next]]
    /\ UNCHANGED <<confVars, opened, status, worker, pend, changes, handlerVars, events>>

UnipiPolls(d) == Works("unipi") /\ d \in Inputs /\ BeginRead(d)
UnipiReads(ok) == Works("unipi") /\ EndRead(ok)
UnipiAnnounces == Works("unipi") /\ Announce
==============================================================================
