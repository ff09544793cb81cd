------------------------------- MODULE IOProofs -------------------------------
(***************************************************************************)
(* Proofs about IO, for any devices, bounds and capacities: no change of a  *)
(* device is published from an old value and forgotten, the outputs of      *)
(* modbus follow their statuses, and a fade ends at the value asked for.    *)
(***************************************************************************)
EXTENDS IO, SequenceTheorems, TLAPS

Ops == {"switch", "toggle", "set", "add", "publish", "send", "assign", "request", "notify"}
Calls == [op : Ops, arg : Int]
FadeCalls == [dev : Levels, from : Int, to : Int]
Actions == [dev : Outputs, val : Int]
Notes == [mute : Int, percent : Int]
Phases == {"setup", "describe", "running", "closing", "ended", "panic"}

GpioOwn == [edges : Seq(Devs)]
UnipiOwn == [pwm : SUBSET Levels, waiting : Seq(FadeCalls),
             fade : [Levels -> [at : Int, to : Int]], crossed : SUBSET Levels]
ModbusOwn == [actions : Seq(Actions), unsure : SUBSET Outputs]
SnapcastOwn == [known : BOOLEAN, notes : Seq(Notes), loop : Seq(Devs), callback : Seq(Devs)]

ValuesTyped == status \in [Devs -> Int] /\ hw \in [Devs -> Int] /\ reported \in [Devs -> Int]
QueuesTyped == pend \in Seq(Devs) /\ changes \in Seq(Devs)
PlaceTyped ==
    /\ bus \in {"soft", "gpio", "unipi", "w1", "modbus", "snapcast"}
    /\ phase \in Phases /\ target \in Devs

(* What each bus keeps, from Initialize on. *)
OwnTyped ==
    phase # "setup" =>
        /\ bus = "gpio" => own \in GpioOwn
        /\ bus = "unipi" => own \in UnipiOwn
        /\ bus = "modbus" => own \in ModbusOwn /\ Len(own.actions) <= 1
        /\ bus = "snapcast" => own \in SnapcastOwn

(* The goroutine of a bus reads inputs and sensors, and nobody else changes *)
(* their statuses in between, except for the inputs of a Unipi.             *)
WorkerInv ==
    /\ worker.pc \in {"idle", "read", "write", "send"}
    /\ worker.dev \in Devs /\ worker.val \in Int /\ {"pc", "dev", "val"} \subseteq DOMAIN worker
    /\ phase = "setup" => worker.pc = "idle"
    /\ worker.pc = "read" =>
           /\ bus \in {"unipi", "w1", "modbus"} /\ worker.dev \in Inputs \cup Sensors
           /\ bus # "unipi" => worker.val = status[worker.dev]
    /\ worker.pc = "write" => bus = "modbus" /\ worker.dev \in Outputs

(* A command is about a device of the bus, and each of its calls is one     *)
(* that the device has.                                                     *)
GoodCall(c, b, d) ==
    /\ c.op \in {"switch", "toggle"} => d \in Digital
    /\ c.op \in {"set", "add"} => d \in Levels
    /\ c.op \in {"send", "assign"} => b = "modbus" /\ d \in Outputs
    /\ c.op \in {"request", "notify"} => b = "snapcast"

(* It ends with its publication. *)
GoodCalls(q, b, d) ==
    /\ q \in Seq(Calls)
    /\ q # <<>> => q[Len(q)].op = "publish"
    /\ \A i \in DOMAIN q : GoodCall(q[i], b, d)

TodoInv ==
    /\ GoodCalls(todo, bus, target)
    /\ todo # <<>> => phase \in {"running", "panic"} /\ target \in DevicesOn(bus)

Shape == ValuesTyped /\ QueuesTyped /\ PlaceTyped /\ OwnTyped /\ WorkerInv /\ TodoInv

(* Modbus: what is on its way to an output.                                 *)
InQueue(d) == own.actions # <<>> /\ own.actions[1].dev = d
Writing(d) == worker.pc = "write" /\ worker.dev = d
Half(op) == todo # <<>> /\ Head(todo).op = op
Pending(d) == target = d /\ (Half("send") \/ Half("assign"))

ActionsFollow ==
    /\ \A d \in Outputs \ own.unsure : hw[d] = status[d] \/ InQueue(d) \/ Writing(d) \/ Pending(d)
    /\ worker.pc = "write" =>
           \/ status[worker.dev] = worker.val
           \/ InQueue(worker.dev) \/ Pending(worker.dev)
    /\ own.actions # <<>> =>
           \/ status[own.actions[1].dev] = own.actions[1].val
           \/ Pending(own.actions[1].dev)

(* An action is queued before the status is stored, or after it, ...        *)
SendInv ==
    /\ \A i \in DOMAIN todo :
           /\ todo[i].op = "send" => i = 1
           /\ todo[i].op = "assign" => i = 1 \/ (i = 2 /\ todo[1].op = "send")
    /\ Half("send") =>
           IF Len(todo) > 1 /\ todo[2].op = "assign" THEN todo[2].arg = todo[1].arg
           ELSE status[target] = todo[1].arg

(* ... and the worker has no other action until then.                       *)
AssignInv ==
    Half("assign") =>
        \/ own.actions = <<[dev |-> target, val |-> todo[1].arg]>>
        \/ own.actions = <<>> /\ Writing(target) /\ worker.val = todo[1].arg
        \/ own.actions = <<>> /\ worker.pc # "write" /\ (hw[target] = todo[1].arg \/ target \in own.unsure)

ModbusGood == ActionsFollow /\ SendInv /\ AssignInv
ModbusInv == bus = "modbus" /\ phase # "setup" => ModbusGood

(* Unipi: outputs that are not faded are as their status; one that is has a *)
(* single fade, to its status, unless fades overlapped.                     *)
FadeGood ==
    /\ \A i \in DOMAIN own.waiting : own.waiting[i].dev \in own.pwm
    /\ \A d \in Levels : Fading(d) => d \in own.pwm
    /\ \A d \in Levels \ own.crossed :
           /\ Fading(d) \/ FadesOf(d) # {} \/ hw[d] = status[d]
           /\ Fading(d) => own.fade[d].to = status[d] /\ own.fade[d].at # own.fade[d].to
           /\ \A i \in FadesOf(d) :
                  /\ ~Fading(d) /\ FadesOf(d) = {i}
                  /\ own.waiting[i].to = status[d]
                  /\ own.waiting[i].from # own.waiting[i].to \/ hw[d] = own.waiting[i].to
FadeInv == bus = "unipi" /\ phase # "setup" => FadeGood

-------------------------------------------------------------------------------
(* Sequences.                                                               *)

(* The first element of a queue and the rest of it.                         *)
LEMMA Rest ==
    ASSUME NEW S, NEW q \in Seq(S), q # <<>>
    PROVE  /\ Len(q) \in Nat \ {0} /\ Head(q) = q[1] /\ Head(q) \in S
           /\ Tail(q) \in Seq(S) /\ Len(Tail(q)) = Len(q) - 1
           /\ \A i \in 1..Len(q) - 1 : Tail(q)[i] = q[i + 1]
OBVIOUS

(* Who waits in a queue after an arrival, ...                               *)
LEMMA QueuedAppend ==
    ASSUME NEW S, NEW q \in Seq(S), NEW e \in S, NEW d, Queued(q, d) \/ e = d
    PROVE  Queued(Append(q, e), d)
<1>1. /\ DOMAIN Append(q, e) = 1..Len(q) + 1 /\ DOMAIN q = 1..Len(q) /\ Len(q) \in Nat
      /\ Append(q, e)[Len(q) + 1] = e /\ \A i \in 1..Len(q) : Append(q, e)[i] = q[i]
  OBVIOUS
<1>. QED BY <1>1 DEF Queued

(* ... and after a departure.                                               *)
LEMMA QueuedTail ==
    ASSUME NEW S, NEW q \in Seq(S), q # <<>>, NEW d, Queued(q, d)
    PROVE  Head(q) = d \/ Queued(Tail(q), d)
<1>1. PICK i \in 1..Len(q) : q[i] = d
  BY DEF Queued
<1>2. CASE i = 1
  BY <1>1, <1>2, Rest
<1>3. CASE i # 1
  <2>1. i - 1 \in 1..Len(q) - 1 /\ (i - 1) + 1 = i
    BY <1>3
  <2>2. Tail(q)[i - 1] = d /\ i - 1 \in DOMAIN Tail(q)
    BY <1>1, <2>1, Rest
  <2>. QED BY <2>2 DEF Queued
<1>. QED BY <1>2, <1>3

LEMMA QueuedPair == \A a, b : Queued(<<a, b>>, a) /\ Queued(<<a, b>>, b)
<1>. TAKE a, b
<1>1. DOMAIN <<a, b>> = 1..2 /\ <<a, b>>[1] = a /\ <<a, b>>[2] = b
  OBVIOUS
<1>. QED BY <1>1 DEF Queued

(* A call is over; the last one is the publication.                        *)
LEMMA CallOver ==
    ASSUME NEW b, NEW e, NEW q, GoodCalls(q, b, e), q # <<>>
    PROVE  GoodCalls(Tail(q), b, e) /\ (Head(q).op # "publish" => Tail(q) # <<>>)
<1>1. q \in Seq(Calls) /\ q[Len(q)].op = "publish" /\ \A i \in DOMAIN q : GoodCall(q[i], b, e)
  BY DEF GoodCalls
<1>2. Len(q) \in Nat \ {0} /\ DOMAIN q = 1..Len(q) /\ (Head(q).op # "publish" => Len(q) # 1)
  BY <1>1, Rest
<1>3. /\ Tail(q) \in Seq(Calls) /\ Len(Tail(q)) = Len(q) - 1
      /\ \A i \in 1..Len(q) - 1 : Tail(q)[i] = q[i + 1]
  BY <1>1, Rest
<1>4. /\ (Len(q) - 1) + 1 = Len(q) /\ (Len(q) # 1 => Len(q) - 1 \in 1..Len(q) - 1)
      /\ \A i \in 1..Len(q) - 1 : i + 1 \in 1..Len(q)
  BY <1>2
<1>5. DOMAIN Tail(q) = 1..Len(q) - 1 /\ DOMAIN <<>> = {}
  <2>1. DOMAIN Tail(q) = 1..Len(Tail(q)) BY <1>3
  <2>2. DOMAIN <<>> = {} OBVIOUS
  <2>. QED BY <2>1, <2>2, <1>3
<1>6. Len(q) # 1 => Tail(q) # <<>> /\ Tail(q)[Len(Tail(q))].op = "publish"
  BY <1>1, <1>3, <1>4, <1>5
<1>7. Len(q) = 1 => Tail(q) = <<>>
  <2>1. Len(q) = 1 => Len(Tail(q)) = 0 BY <1>3
  <2>2. \A s \in Seq(Calls) : Len(s) = 0 => s = <<>> BY EmptySeq
  <2>. QED BY <1>3, <2>1, <2>2
<1>8. \A i \in DOMAIN Tail(q) : GoodCall(Tail(q)[i], b, e)
  BY <1>1, <1>2, <1>3, <1>4, <1>5
<1>. QED BY <1>2, <1>3, <1>6, <1>7, <1>8 DEF GoodCalls

(* Further calls come before those that are left: one, ...                  *)
LEMMA CallBefore ==
    ASSUME NEW b, NEW e, NEW q, GoodCalls(q, b, e), q # <<>>, NEW c \in Calls, GoodCall(c, b, e)
    PROVE  GoodCalls(<<c>> \o q, b, e) /\ <<c>> \o q # <<>>
<1>1. q \in Seq(Calls) /\ q[Len(q)].op = "publish" /\ \A i \in DOMAIN q : GoodCall(q[i], b, e)
  BY DEF GoodCalls
<1>2. Len(q) \in Nat \ {0} /\ DOMAIN q = 1..Len(q)
  BY <1>1, Rest
<1>. DEFINE r == <<c>> \o q
<1>3. /\ r \in Seq(Calls) /\ Len(r) = Len(q) + 1 /\ r[1] = c /\ DOMAIN r = 1..Len(q) + 1
      /\ \A i \in 2..Len(q) + 1 : r[i] = q[i - 1]
  BY <1>1, <1>2
<1>4. \A i \in 2..Len(q) + 1 : i - 1 \in 1..Len(q)
  BY <1>2
<1>5. r[Len(r)].op = "publish"
  BY <1>1, <1>2, <1>3
<1>6. \A i \in DOMAIN r : GoodCall(r[i], b, e)
  BY <1>1, <1>2, <1>3, <1>4
<1>7. r # <<>>
  BY <1>2, <1>3
<1>. QED BY <1>3, <1>5, <1>6, <1>7 DEF GoodCalls

(* ... or two.                                                              *)
LEMMA CallsBefore ==
    ASSUME NEW b, NEW e, NEW q, GoodCalls(q, b, e), q # <<>>,
           NEW c \in Calls, GoodCall(c, b, e), NEW d \in Calls, GoodCall(d, b, e)
    PROVE  GoodCalls(<<c, d>> \o q, b, e) /\ <<c, d>> \o q # <<>>
<1>1. q \in Seq(Calls) /\ q[Len(q)].op = "publish" /\ \A i \in DOMAIN q : GoodCall(q[i], b, e)
  BY DEF GoodCalls
<1>2. Len(q) \in Nat \ {0} /\ DOMAIN q = 1..Len(q)
  BY <1>1, Rest
<1>. DEFINE r == <<c, d>> \o q
<1>3. /\ r \in Seq(Calls) /\ Len(r) = Len(q) + 2 /\ r[1] = c /\ r[2] = d
      /\ DOMAIN r = 1..Len(q) + 2
      /\ \A i \in 3..Len(q) + 2 : r[i] = q[i - 2]
  BY <1>1, <1>2
<1>4. \A i \in 3..Len(q) + 2 : i - 2 \in 1..Len(q)
  BY <1>2
<1>5. r[Len(r)].op = "publish"
  BY <1>1, <1>2, <1>3
<1>6. \A i \in DOMAIN r : GoodCall(r[i], b, e)
  <2>1. \A i \in 1..Len(q) + 2 : i = 1 \/ i = 2 \/ i \in 3..Len(q) + 2
    BY <1>2
  <2>. QED BY <1>1, <1>2, <1>3, <1>4, <2>1
<1>7. r # <<>>
  BY <1>2, <1>3
<1>. QED BY <1>3, <1>5, <1>6, <1>7 DEF GoodCalls

(* The call that is next, and what comes after it.                          *)
LEMMA CallNext ==
    ASSUME NEW b, NEW e, NEW q, GoodCalls(q, b, e), q # <<>>
    PROVE  /\ Head(q) \in Calls /\ Head(q) = q[1] /\ GoodCall(Head(q), b, e)
           /\ <<>> \o Tail(q) = Tail(q)
<1>1. q \in Seq(Calls) /\ \A i \in DOMAIN q : GoodCall(q[i], b, e)
  BY DEF GoodCalls
<1>2. Head(q) \in Calls /\ Head(q) = q[1] /\ 1 \in DOMAIN q /\ Tail(q) \in Seq(Calls)
  BY <1>1, Rest
<1>3. <<>> \o Tail(q) = Tail(q)
  BY <1>2
<1>. QED BY <1>1, <1>2, <1>3

(* The value a call asks for.                                               *)
LEMMA ResultTyped ==
    ASSUME NEW v \in Int, NEW c \in Calls, c.op \in {"switch", "toggle", "set", "add"}
    PROVE  Result(v, c) \in Int
<1>. c.arg \in Int BY DEF Calls
<1>1. CASE c.op \in {"switch", "set"} BY <1>1 DEF Result
<1>2. CASE c.op = "toggle" BY <1>2 DEF Result
<1>3. CASE c.op = "add" BY <1>3 DEF Result
<1>. QED BY <1>1, <1>2, <1>3

-------------------------------------------------------------------------------
(* Shape: the types of everything, and which calls a command consists of.   *)

LEMMA DevicesDiffer ==
    /\ Mute \in Outputs /\ Volume \in Levels
    /\ Mute \in Devs /\ Volume \in Devs /\ Devs # {}
    /\ \A d \in Inputs : d \in Devs /\ d \notin Outputs /\ d \notin Levels /\ d \notin Sensors
    /\ \A d \in Outputs : d \in Devs /\ d \notin Inputs /\ d \notin Levels /\ d \notin Sensors
    /\ \A d \in Levels : d \in Devs /\ d \notin Inputs /\ d \notin Outputs /\ d \notin Sensors
    /\ \A d \in Sensors : d \in Devs /\ d \notin Inputs /\ d \notin Outputs /\ d \notin Levels
BY DevicesAssumption, SnapcastAssumption DEF Devs

LEMMA ShownTyped ==
    ASSUME ValuesTyped, PlaceTyped, NEW d \in Devs
    PROVE  Shown(d) \in Int
<1>1. status[d] \in Int /\ hw[d] \in Int
  BY DEF ValuesTyped
<1>2. CASE bus = "soft"
  BY <1>1, <1>2 DEF Shown, SoftShown
<1>3. CASE bus = "gpio"
  BY <1>1, <1>3 DEF Shown, GpioShown, Pin
<1>4. CASE bus \notin {"soft", "gpio"}
  BY <1>1, <1>4 DEF Shown
<1>. QED BY <1>2, <1>3, <1>4

(* After a call the rest of the command is left, or what the call turned    *)
(* out to be is done first.                                                 *)
LEMMA Replaced ==
    ASSUME TodoInv, todo # <<>>, Head(todo).op # "publish", UNCHANGED <<bus, target, phase>>,
           \/ Instead(<<>>)
           \/ \E c \in Calls : GoodCall(c, bus, target) /\ Instead(<<c>>)
           \/ \E c, d \in Calls : GoodCall(c, bus, target) /\ GoodCall(d, bus, target) /\ Instead(<<c, d>>)
    PROVE  TodoInv' /\ todo' # <<>>
<1>1. GoodCalls(todo, bus, target)
  BY DEF TodoInv
<1>2. GoodCalls(Tail(todo), bus, target) /\ Tail(todo) # <<>> /\ <<>> \o Tail(todo) = Tail(todo)
  BY <1>1, CallOver, CallNext
<1>3. GoodCalls(todo', bus, target) /\ todo' # <<>>
  <2>1. CASE Instead(<<>>)
    BY <2>1, <1>2 DEF Instead
  <2>2. CASE \E c \in Calls : GoodCall(c, bus, target) /\ Instead(<<c>>)
    BY <2>2, <1>2, CallBefore DEF Instead
  <2>3. CASE \E c, d \in Calls : GoodCall(c, bus, target) /\ GoodCall(d, bus, target) /\ Instead(<<c, d>>)
    BY <2>3, <1>2, CallsBefore DEF Instead
  <2>. QED BY <2>1, <2>2, <2>3
<1>4. GoodCalls(todo, bus, target)'
  BY <1>3 DEF GoodCalls, GoodCall
<1>. QED BY <1>3, <1>4 DEF TodoInv

(* The call the handler makes is one of its device.                         *)
LEMMA Turns ==
    ASSUME TodoInv, todo # <<>>
    PROVE  /\ Head(todo) \in Calls /\ Head(todo).op \in Ops /\ Head(todo).arg \in Int
           /\ GoodCall(Head(todo), bus, target) /\ target \in DevicesOn(bus)
<1>1. GoodCalls(todo, bus, target)
  BY DEF TodoInv
<1>. QED BY <1>1, CallNext DEF TodoInv, Calls

LEMMA ShapeInit == Init => Shape
<1>. SUFFICES ASSUME Init PROVE Shape
  OBVIOUS
<1>. USE DEF Init
<1>1. target \in Devs /\ worker.dev \in Devs
  BY DevicesDiffer
<1>2. ValuesTyped
  BY DEF ValuesTyped, Unset
<1>3. QueuesTyped
  BY DEF QueuesTyped
<1>4. PlaceTyped
  BY <1>1 DEF PlaceTyped, Phases, BusesOf
<1>5. OwnTyped
  BY DEF OwnTyped
<1>6. WorkerInv
  BY <1>1 DEF WorkerInv
<1>7. TodoInv
  BY DEF TodoInv, GoodCalls
<1>. QED BY <1>2, <1>3, <1>4, <1>5, <1>6, <1>7 DEF Shape

LEMMA ShapeStutters == Shape /\ UNCHANGED vars => Shape'
BY DEF Shape, ValuesTyped, QueuesTyped, PlaceTyped, OwnTyped, WorkerInv, TodoInv, GoodCalls, GoodCall,
       vars, confVars, handlerVars

LEMMA TodoKept ==
    ASSUME TodoInv, UNCHANGED <<bus, target, phase, todo>>
    PROVE  TodoInv'
BY DEF TodoInv, GoodCalls, GoodCall

(* Initialize of unipi: what cannot be read is zero, or not sure.           *)
LEMMA UnipiStarts ==
    ASSUME UnipiInitialize
    PROVE  \E pwm \in SUBSET Levels, unread \in SUBSET Devs :
              /\ status' = [d \in Devs |-> Initialized(d, unread)]
              /\ own' = [pwm |-> pwm, waiting |-> <<>>, fade |-> [d \in Levels |-> NoFade],
                         crossed |-> unread \cap Levels]
<1>1. PICK unread \in SUBSET {d \in Digital \cup Levels : hw[d] # 0}, pwm \in SUBSET Levels :
         /\ status' = [d \in Devs |-> Initialized(d, unread)]
         /\ own' = [pwm |-> pwm, waiting |-> <<>>, fade |-> [d \in Levels |-> NoFade],
                    crossed |-> unread \cap Levels]
  BY DEF UnipiInitialize
<1>2. unread \in SUBSET Devs
  BY DEF Digital, Devs
<1>. QED BY <1>1, <1>2

LEMMA ShapeInitialize == Shape /\ Initialize => Shape'
<1>. SUFFICES ASSUME Shape, Initialize PROVE Shape'
  OBVIOUS
<1>1. /\ phase = "setup" /\ phase' = "describe"
      /\ UNCHANGED <<bus, worker, pend, changes, todo, target, reported>>
  BY DEF Initialize, confVars
<1>2. ValuesTyped /\ QueuesTyped /\ PlaceTyped /\ WorkerInv /\ TodoInv
  BY DEF Shape
<1>3. ValuesTyped' /\ OwnTyped'
  <2>1. CASE bus = "soft"
    <3>1. SoftInitialize /\ UNCHANGED <<hw, own>>
      BY <2>1 DEF Initialize
    <3>. QED BY <1>1, <1>2, <2>1, <3>1 DEF SoftInitialize, ValuesTyped, OwnTyped, Unset
  <2>2. CASE bus = "gpio"
    <3>1. GpioInitialize /\ UNCHANGED status
      BY <2>2 DEF Initialize
    <3>. QED BY <1>1, <1>2, <2>2, <3>1 DEF GpioInitialize, ValuesTyped, OwnTyped, Pin, GpioOwn
  <2>3. CASE bus = "unipi"
    <3>1. UnipiInitialize /\ UNCHANGED hw
      BY <2>3 DEF Initialize
    <3>2. status' \in [Devs -> Int]
      <4>1. PICK unread \in SUBSET Devs : status' = [d \in Devs |-> Initialized(d, unread)]
        BY <3>1, UnipiStarts
      <4>2. hw \in [Devs -> Int]
        BY <1>2 DEF ValuesTyped
      <4>3. \A d \in Devs : Initialized(d, unread) \in Int
        BY <4>2 DEF Initialized, Unset
      <4>. QED BY <4>1, <4>3
    <3>3. PICK pwm \in SUBSET Levels :
              \E crossed \in SUBSET Levels :
                 own' = [pwm |-> pwm, waiting |-> <<>>, fade |-> [d \in Levels |-> NoFade], crossed |-> crossed]
      <4>1. PICK pwm \in SUBSET Levels, unread \in SUBSET Devs :
                own' = [pwm |-> pwm, waiting |-> <<>>, fade |-> [d \in Levels |-> NoFade],
                        crossed |-> unread \cap Levels]
        BY <3>1, UnipiStarts
      <4>2. unread \cap Levels \in SUBSET Levels
        OBVIOUS
      <4>. QED BY <4>1, <4>2
    <3>4. own' \in UnipiOwn
      BY <3>3 DEF UnipiOwn, NoFade
    <3>. QED BY <1>1, <1>2, <2>3, <3>1, <3>2, <3>4 DEF ValuesTyped, OwnTyped
  <2>4. CASE bus = "w1"
    <3>1. W1Initialize /\ UNCHANGED <<hw, own>>
      BY <2>4 DEF Initialize
    <3>. QED BY <1>1, <1>2, <2>4, <3>1 DEF W1Initialize, ValuesTyped, OwnTyped, Unset
  <2>5. CASE bus = "modbus"
    <3>1. ModbusInitialize /\ UNCHANGED hw
      BY <2>5 DEF Initialize
    <3>2. own' \in ModbusOwn /\ Len(own.actions)' = 0
      BY <3>1 DEF ModbusInitialize, ModbusOwn
    <3>3. status' \in [Devs -> Int]
      BY <3>1 DEF ModbusInitialize, Unset
    <3>. QED BY <1>1, <1>2, <2>5, <3>1, <3>2, <3>3 DEF ValuesTyped, OwnTyped
  <2>6. CASE bus = "snapcast"
    <3>1. SnapcastInitialize /\ UNCHANGED hw
      BY <2>6 DEF Initialize
    <3>2. own' \in SnapcastOwn
      BY <3>1 DEF SnapcastInitialize, SnapcastOwn
    <3>3. status' \in [Devs -> Int]
      BY <3>1 DEF SnapcastInitialize, Unset
    <3>. QED BY <1>1, <1>2, <2>6, <3>1, <3>2, <3>3 DEF ValuesTyped, OwnTyped
  <2>. QED BY <1>2, <2>1, <2>2, <2>3, <2>4, <2>5, <2>6 DEF PlaceTyped
<1>4. QueuesTyped' /\ PlaceTyped'
  BY <1>1, <1>2 DEF QueuesTyped, PlaceTyped, Phases
<1>5. WorkerInv'
  BY <1>1, <1>2 DEF WorkerInv
<1>6. TodoInv'
  BY <1>1, <1>2 DEF TodoInv, GoodCalls, GoodCall
<1>. QED BY <1>3, <1>4, <1>5, <1>6 DEF Shape

LEMMA ShapeDescribe == Shape /\ Describe => Shape'
<1>. SUFFICES ASSUME Shape, Describe PROVE Shape'
  OBVIOUS
<1>1. /\ phase = "describe" /\ phase' = "running"
      /\ UNCHANGED <<bus, status, hw, own, worker, pend, changes, todo, target>>
      /\ reported' = [d \in Devs |-> IF Known(d) THEN Shown(d) ELSE Unset]
  BY DEF Describe, confVars
<1>2. ValuesTyped /\ QueuesTyped /\ PlaceTyped /\ OwnTyped /\ WorkerInv /\ TodoInv
  BY DEF Shape
<1>3. ValuesTyped'
  BY <1>1, <1>2, ShownTyped DEF ValuesTyped, Unset
<1>4. QueuesTyped' /\ PlaceTyped'
  BY <1>1, <1>2 DEF QueuesTyped, PlaceTyped, Phases
<1>5. OwnTyped'
  BY <1>1, <1>2 DEF OwnTyped
<1>6. WorkerInv'
  BY <1>1, <1>2 DEF WorkerInv
<1>7. TodoInv'
  BY <1>1, <1>2 DEF TodoInv, GoodCalls, GoodCall
<1>. QED BY <1>3, <1>4, <1>5, <1>6, <1>7 DEF Shape

(* What a command consists of when it starts.                               *)
LEMMA DigitalCallsGood ==
    ASSUME NEW action \in {"SET", "RESET", "PUSH", "TOGGLE", "GET"},
           NEW b, NEW e \in Digital
    PROVE  GoodCalls(DigitalCalls(action), b, e) /\ DigitalCalls(action) # <<>>
<1>. DEFINE P == Call("publish", 0)
            On == Call("switch", 1)
            Off == Call("switch", 0)
            Flip == Call("toggle", 0)
<1>1. /\ P \in Calls /\ On \in Calls /\ Off \in Calls /\ Flip \in Calls
      /\ P.op = "publish" /\ On.op = "switch" /\ Off.op = "switch" /\ Flip.op = "toggle"
  BY DEF Call, Calls, Ops
<1>2. GoodCall(P, b, e) /\ GoodCall(On, b, e) /\ GoodCall(Off, b, e) /\ GoodCall(Flip, b, e)
  BY <1>1 DEF GoodCall
<1>3. GoodCalls(<<P>>, b, e) /\ <<P>> # <<>>
  BY <1>1, <1>2 DEF GoodCalls
<1>4. \A c \in Calls : GoodCall(c, b, e) => GoodCalls(<<c>> \o <<P>>, b, e) /\ <<c>> \o <<P>> # <<>>
  BY <1>3, CallBefore
<1>5. GoodCalls(<<On, Off>> \o <<P>>, b, e) /\ <<On, Off>> \o <<P>> # <<>>
  BY <1>1, <1>2, <1>3, CallsBefore
<1>6. <<>> \o <<P>> = <<P>>
  OBVIOUS
<1>7. CASE action = "SET"
  BY <1>1, <1>2, <1>4, <1>7 DEF DigitalCalls, Publish
<1>8. CASE action = "RESET"
  BY <1>1, <1>2, <1>4, <1>8 DEF DigitalCalls, Publish
<1>9. CASE action = "PUSH"
  BY <1>5, <1>9 DEF DigitalCalls, Publish
<1>10. CASE action = "TOGGLE"
  BY <1>1, <1>2, <1>4, <1>10 DEF DigitalCalls, Publish
<1>11. CASE action = "GET"
  BY <1>3, <1>6, <1>11 DEF DigitalCalls, Publish
<1>. QED BY <1>7, <1>8, <1>9, <1>10, <1>11

LEMMA KnownOnBus == \A d : Known(d) => d \in DevicesOn(bus)
BY DEF Known, SnapcastKnows, DevicesOn

(* The frame of an action that only gives the handler something to do.      *)
LEMMA ShapeOfTodo ==
    ASSUME Shape, UNCHANGED <<bus, status, hw, reported, own, worker, pend, changes, phase>>,
           target' \in Devs, TodoInv'
    PROVE  Shape'
<1>1. ValuesTyped' /\ QueuesTyped' /\ PlaceTyped' /\ OwnTyped' /\ WorkerInv'
  BY DEF Shape, ValuesTyped, QueuesTyped, PlaceTyped, OwnTyped, WorkerInv
<1>. QED BY <1>1 DEF Shape

LEMMA ShapeDigital ==
    ASSUME Shape, NEW d \in Devs, NEW action \in {"SET", "RESET", "PUSH", "TOGGLE", "GET"},
           DigitalCommand(d, action)
    PROVE  Shape'
<1>1. /\ phase = "running"
      /\ UNCHANGED <<bus, status, hw, reported, own, worker, pend, changes, phase>>
      /\ IF Known(d) /\ d \in Digital
         THEN target' = d /\ todo' = DigitalCalls(action)
         ELSE UNCHANGED <<target, todo>>
  BY DEF DigitalCommand, Loop, confVars
<1>2. TodoInv /\ target \in Devs
  BY DEF Shape, PlaceTyped
<1>3. CASE Known(d) /\ d \in Digital
  <2>1. target' = d /\ todo' = DigitalCalls(action)
    BY <1>1, <1>3
  <2>4. GoodCalls(todo, bus, target)'
    BY <1>1, <1>3, <2>1, DigitalCallsGood
  <2>5. TodoInv'
    BY <1>1, <1>3, <2>1, <2>4, KnownOnBus DEF TodoInv
  <2>. QED BY <1>1, <2>1, <2>5, ShapeOfTodo
<1>4. CASE ~(Known(d) /\ d \in Digital)
  BY <1>1, <1>2, <1>4, ShapeOfTodo, TodoKept
<1>. QED BY <1>3, <1>4

LEMMA ShapeAnalog ==
    ASSUME Shape, NEW d \in Devs, NEW op \in {"set", "add"}, NEW v \in Int, AnalogCommand(d, op, v)
    PROVE  Shape'
<1>1. /\ phase = "running"
      /\ UNCHANGED <<bus, status, hw, reported, own, worker, pend, changes, phase>>
      /\ IF Known(d) /\ d \in Levels
         THEN target' = d /\ todo' = <<Call(op, v), Publish>>
         ELSE UNCHANGED <<target, todo>>
  BY DEF AnalogCommand, Loop, confVars
<1>2. TodoInv /\ target \in Devs
  BY DEF Shape, PlaceTyped
<1>3. CASE Known(d) /\ d \in Levels
  <2>1. target' = d /\ todo' = <<Call(op, v), Publish>>
    BY <1>1, <1>3
  <2>2. /\ Call(op, v) \in Calls /\ Publish \in Calls /\ Publish.op = "publish" /\ Call(op, v).op = op
    BY DEF Call, Publish, Calls, Ops
  <2>3. GoodCall(Call(op, v), bus, d) /\ GoodCall(Publish, bus, d)
    BY <1>3, <2>1, <2>2 DEF GoodCall, Call, Publish
  <2>4. GoodCalls(todo, bus, target)'
    <3>1. /\ todo' \in Seq(Calls) /\ Len(todo') = 2 /\ DOMAIN todo' = 1..2
          /\ todo'[1] = Call(op, v) /\ todo'[2] = Publish
      BY <2>1, <2>2
    <3>2. \A i \in DOMAIN todo' : i = 1 \/ i = 2
      BY <3>1
    <3>. QED BY <1>1, <2>1, <2>2, <2>3, <3>1, <3>2 DEF GoodCalls
  <2>5. TodoInv'
    BY <1>1, <1>3, <2>1, <2>4, KnownOnBus, DevicesDiffer DEF TodoInv
  <2>. QED BY <1>1, <2>1, <2>5, ShapeOfTodo
<1>4. CASE ~(Known(d) /\ d \in Levels)
  BY <1>1, <1>2, <1>4, ShapeOfTodo, TodoKept
<1>. QED BY <1>3, <1>4

-------------------------------------------------------------------------------
(* The calls of a command.                                                  *)

(* A method is not the last call, and asks for a number.                    *)
LEMMA TurnFacts ==
    ASSUME Shape, NEW b, Turn(b)
    PROVE  /\ bus = b /\ phase \in {"describe", "running"} /\ todo # <<>>
           /\ Head(todo) \in Calls /\ Head(todo).op # "publish"
           /\ GoodCall(Head(todo), bus, target)
           /\ target \in Devs /\ target \in DevicesOn(bus)
           /\ status[target] \in Int /\ hw[target] \in Int
           /\ \A v \in Int : Result(v, Head(todo)) \in Int
<1>1. /\ bus = b /\ phase \in {"describe", "running"} /\ todo # <<>>
      /\ Head(todo).op \in {"switch", "toggle", "set", "add"}
  BY DEF Turn, Works
<1>2. TodoInv /\ target \in Devs /\ status[target] \in Int /\ hw[target] \in Int
  BY DEF Shape, PlaceTyped, ValuesTyped
<1>3. /\ Head(todo) \in Calls /\ GoodCall(Head(todo), bus, target)
      /\ target \in DevicesOn(bus)
  BY <1>1, <1>2, Turns
<1>4. \A v \in Int : Result(v, Head(todo)) \in Int
  BY <1>1, <1>3, ResultTyped
<1>. QED BY <1>1, <1>2, <1>3, <1>4

LEMMA AtFacts ==
    ASSUME Shape, NEW op \in {"send", "assign", "request", "notify"}, At(op)
    PROVE  /\ phase = "running" /\ todo # <<>> /\ Head(todo).op = op
           /\ Head(todo) \in Calls /\ Head(todo).op # "publish" /\ Head(todo).arg \in Int
           /\ GoodCall(Head(todo), bus, target) /\ target \in Devs /\ target \in DevicesOn(bus)
<1>1. phase = "running" /\ todo # <<>> /\ Head(todo).op = op
  BY DEF At
<1>2. TodoInv /\ target \in Devs
  BY DEF Shape, PlaceTyped
<1>. QED BY <1>1, <1>2, Turns

LEMMA WorkerKept ==
    ASSUME WorkerInv, UNCHANGED <<worker, phase, bus>>,
           worker.pc = "read" => bus = "unipi" \/ status'[worker.dev] = status[worker.dev]
    PROVE  WorkerInv'
BY DEF WorkerInv

LEMMA ShapeSoftCall == Shape /\ SoftCall => Shape'
<1>. SUFFICES ASSUME Shape, SoftCall PROVE Shape'
  OBVIOUS
<1>. DEFINE c == Head(todo)
<1>1. Turn("soft") /\ UNCHANGED <<bus, hw, own, worker, pend, changes, target, reported>>
  BY DEF SoftCall, confVars
<1>2. /\ ValuesTyped /\ QueuesTyped /\ PlaceTyped /\ OwnTyped /\ WorkerInv /\ TodoInv
      /\ worker.pc # "read"
  BY <1>1, TurnFacts DEF Shape, WorkerInv
<1>3. \/ Instead(<<>>) /\ UNCHANGED <<status, phase>>
      \/ phase' = "panic" /\ UNCHANGED <<status, todo>>
      \/ status' = [status EXCEPT ![target] = Result(@, c)] /\ Instead(<<>>) /\ UNCHANGED phase
  BY DEF SoftCall
<1>4. ValuesTyped'
  <2>1. status' \in [Devs -> Int]
    BY <1>1, <1>2, <1>3, TurnFacts DEF ValuesTyped
  <2>. QED BY <1>1, <1>2, <2>1 DEF ValuesTyped
<1>5. TodoInv'
  <2>1. CASE Instead(<<>>) /\ UNCHANGED phase
    BY <1>1, <1>2, <2>1, TurnFacts, Replaced
  <2>2. CASE phase' = "panic" /\ UNCHANGED todo
    BY <1>1, <1>2, <2>2 DEF TodoInv
  <2>. QED BY <1>3, <2>1, <2>2
<1>6. QueuesTyped' /\ PlaceTyped' /\ OwnTyped'
  BY <1>1, <1>2, <1>3, TurnFacts DEF QueuesTyped, PlaceTyped, OwnTyped, Phases
<1>7. WorkerInv'
  BY <1>1, <1>2, <1>3, TurnFacts DEF WorkerInv
<1>. QED BY <1>4, <1>5, <1>6, <1>7 DEF Shape

LEMMA ShapeGpioCall == Shape /\ GpioCall => Shape'
<1>. SUFFICES ASSUME Shape, GpioCall PROVE Shape'
  OBVIOUS
<1>. DEFINE level == Pin(target, Result(GpioShown(target), Head(todo)))
<1>1. /\ Turn("gpio") /\ Instead(<<>>)
      /\ UNCHANGED <<bus, status, worker, pend, changes, phase, target, reported>>
      /\ hw' = [hw EXCEPT ![target] = level]
      /\ own' = IF level = hw[target] THEN own ELSE [own EXCEPT !.edges = Append(@, target)]
  BY DEF GpioCall, confVars
<1>2. ValuesTyped /\ QueuesTyped /\ PlaceTyped /\ OwnTyped /\ WorkerInv /\ TodoInv
  BY DEF Shape
<1>3. level \in Int
  <2>1. GpioShown(target) \in Int
    BY <1>1, TurnFacts DEF GpioShown, Pin
  <2>2. Result(GpioShown(target), Head(todo)) \in Int
    BY <1>1, <2>1, TurnFacts
  <2>. QED BY <2>2 DEF Pin
<1>4. ValuesTyped'
  BY <1>1, <1>2, <1>3 DEF ValuesTyped
<1>5. OwnTyped'
  <2>1. own \in GpioOwn /\ target \in Devs /\ bus = "gpio"
    BY <1>1, <1>2, TurnFacts DEF OwnTyped
  <2>2. Append(own.edges, target) \in Seq(Devs)
    BY <2>1 DEF GpioOwn
  <2>3. own' \in GpioOwn
    <3>1. CASE level = hw[target]
      BY <1>1, <2>1, <3>1
    <3>2. CASE level # hw[target]
      <4>1. own' = [own EXCEPT !.edges = Append(own.edges, target)]
        BY <1>1, <3>2
      <4>. QED BY <4>1, <2>1, <2>2 DEF GpioOwn
    <3>. QED BY <3>1, <3>2
  <2>. QED BY <1>1, <2>1, <2>3 DEF OwnTyped
<1>6. QueuesTyped' /\ PlaceTyped'
  BY <1>1, <1>2 DEF QueuesTyped, PlaceTyped
<1>7. WorkerInv'
  BY <1>1, <1>2, WorkerKept
<1>8. TodoInv'
  BY <1>1, <1>2, TurnFacts, Replaced
<1>. QED BY <1>4, <1>5, <1>6, <1>7, <1>8 DEF Shape

LEMMA ShapeUnipiCall == Shape /\ UnipiCall => Shape'
<1>. SUFFICES ASSUME Shape, UnipiCall PROVE Shape'
  OBVIOUS
<1>. DEFINE v == Clipped(Result(status[target], Head(todo)))
            f == NewFade(target, status[target], v)
<1>1. /\ Turn("unipi") /\ Instead(<<>>)
      /\ UNCHANGED <<bus, worker, pend, changes, phase, target, reported>>
      /\ status' = [status EXCEPT ![target] = v]
      /\ hw' = IF target \in Outputs \cup (Levels \ own.pwm) THEN [hw EXCEPT ![target] = v] ELSE hw
  BY DEF UnipiCall, confVars
<1>2. \/ target \notin own.pwm /\ own' = [own EXCEPT !.crossed = @ \ {target}]
      \/ /\ target \in own.pwm
         /\ own' = [own EXCEPT !.waiting = Append(@, f), !.crossed = CrossedAfter(target, v)]
  BY DEF UnipiCall
<1>3. /\ ValuesTyped /\ QueuesTyped /\ PlaceTyped /\ OwnTyped /\ WorkerInv /\ TodoInv
      /\ own \in UnipiOwn /\ target \in Devs /\ bus = "unipi" /\ phase # "setup"
  BY <1>1, TurnFacts DEF Shape, OwnTyped
<1>4. v \in Int /\ status[target] \in Int
  BY <1>1, TurnFacts DEF Clipped
<1>5. ValuesTyped'
  BY <1>1, <1>3, <1>4 DEF ValuesTyped
<1>6. OwnTyped'
  <2>1. CASE target \in own.pwm
    <3>1. f \in FadeCalls
      BY <1>3, <1>4, <2>1 DEF NewFade, FadeCalls, UnipiOwn
    <3>2. own' = [own EXCEPT !.waiting = Append(@, f), !.crossed = CrossedAfter(target, v)]
      BY <1>2, <2>1
    <3>3. CrossedAfter(target, v) \in SUBSET Levels /\ Append(own.waiting, f) \in Seq(FadeCalls)
      BY <1>3, <2>1, <3>1 DEF UnipiOwn, CrossedAfter
    <3>4. own' \in UnipiOwn
      BY <1>3, <3>2, <3>3 DEF UnipiOwn
    <3>. QED BY <1>1, <1>3, <3>4 DEF OwnTyped
  <2>2. CASE target \notin own.pwm
    <3>1. own' \in UnipiOwn
      BY <1>2, <1>3, <2>2 DEF UnipiOwn
    <3>. QED BY <1>1, <1>3, <3>1 DEF OwnTyped
  <2>. QED BY <2>1, <2>2
<1>7. QueuesTyped' /\ PlaceTyped'
  BY <1>1, <1>3 DEF QueuesTyped, PlaceTyped
<1>8. WorkerInv'
  BY <1>1, <1>3, WorkerKept
<1>9. TodoInv'
  BY <1>1, <1>3, TurnFacts, Replaced
<1>. QED BY <1>5, <1>6, <1>7, <1>8, <1>9 DEF Shape

(* What a call of a modbus device turns out to be.                          *)
LEMMA ModbusCallKinds ==
    ASSUME Shape, ModbusCall
    PROVE  LET c == Head(todo)
               v == Result(status[target], c) IN
           /\ Turn("modbus") /\ v \in Int
           /\ UNCHANGED <<bus, hw, own, worker, pend, changes, phase, target, reported>>
           /\ \/ Instead(<<>>) /\ UNCHANGED status
              \/ /\ target \in Outputs /\ v # status[target]
                 /\ Instead(<<Call("send", v), Call("assign", v)>>) /\ UNCHANGED status
              \/ /\ target \in Outputs
                 /\ status' = [status EXCEPT ![target] = v] /\ Instead(<<Call("send", v)>>)
<1>. DEFINE c == Head(todo)
            v == Result(status[target], c)
<1>1. Turn("modbus") /\ UNCHANGED <<bus, hw, own, worker, pend, changes, phase, target, reported>>
  BY DEF ModbusCall, confVars
<1>2. v \in Int /\ target \in Digital /\ c.op \in {"switch", "toggle"}
  <2>1. target \in Digital /\ c.op \in {"switch", "toggle", "set", "add"}
    BY <1>1, TurnFacts DEF DevicesOn, Turn
  <2>2. c.op \notin {"set", "add"}
    BY <1>1, <2>1, TurnFacts, DevicesDiffer DEF GoodCall, Digital
  <2>. QED BY <1>1, <2>1, <2>2, TurnFacts
<1>3. CASE target \in Inputs \/ (c.op = "switch" /\ v = status[target])
  <2>1. Instead(<<>>) /\ UNCHANGED status
    BY <1>3, DevicesDiffer DEF ModbusCall
  <2>. QED BY <1>1, <1>2, <2>1
<1>4. CASE target \in Outputs /\ c.op = "switch" /\ v # status[target]
  <2>1. Instead(<<Call("send", v), Call("assign", v)>>) /\ UNCHANGED status
    BY <1>4, DevicesDiffer DEF ModbusCall
  <2>. QED BY <1>1, <1>2, <1>4, <2>1
<1>5. CASE target \in Outputs /\ c.op = "toggle"
  <2>1. status' = [status EXCEPT ![target] = v] /\ Instead(<<Call("send", v)>>)
    BY <1>5, DevicesDiffer DEF ModbusCall
  <2>. QED BY <1>1, <1>2, <1>5, <2>1
<1>. QED BY <1>2, <1>3, <1>4, <1>5 DEF Digital

LEMMA ShapeModbusCall == Shape /\ ModbusCall => Shape'
<1>. SUFFICES ASSUME Shape, ModbusCall PROVE Shape'
  OBVIOUS
<1>. DEFINE v == Result(status[target], Head(todo))
            send == Call("send", v)
            assign == Call("assign", v)
<1>1. /\ Turn("modbus") /\ v \in Int
      /\ UNCHANGED <<bus, hw, own, worker, pend, changes, phase, target, reported>>
  BY ModbusCallKinds
<1>2. \/ Instead(<<>>) /\ UNCHANGED status
      \/ target \in Outputs /\ Instead(<<send, assign>>) /\ UNCHANGED status
      \/ target \in Outputs /\ status' = [status EXCEPT ![target] = v] /\ Instead(<<send>>)
  BY ModbusCallKinds
<1>3. /\ ValuesTyped /\ QueuesTyped /\ PlaceTyped /\ OwnTyped /\ WorkerInv /\ TodoInv
      /\ bus = "modbus"
  BY <1>1, TurnFacts DEF Shape
<1>4. ValuesTyped'
  <2>1. status' \in [Devs -> Int]
    BY <1>1, <1>2, <1>3 DEF ValuesTyped
  <2>. QED BY <1>1, <1>3, <2>1 DEF ValuesTyped
<1>5. QueuesTyped' /\ PlaceTyped' /\ OwnTyped'
  BY <1>1, <1>3 DEF QueuesTyped, PlaceTyped, OwnTyped
<1>6. WorkerInv'
  <2>1. CASE UNCHANGED status
    BY <1>1, <1>3, <2>1, WorkerKept
  <2>2. CASE target \in Outputs /\ status' = [status EXCEPT ![target] = v]
    <3>1. worker.pc = "read" => worker.dev # target
      BY <1>3, <2>2, DevicesDiffer DEF WorkerInv
    <3>2. \A d \in Devs : d # target => status'[d] = status[d]
      BY <2>2, <1>3 DEF ValuesTyped
    <3>. QED BY <1>1, <1>3, <3>1, <3>2, WorkerKept DEF WorkerInv
  <2>. QED BY <1>2, <2>1, <2>2
<1>7. TodoInv'
  <2>1. target \in Outputs => GoodCall(send, bus, target) /\ GoodCall(assign, bus, target)
    BY <1>3 DEF GoodCall, Call
  <2>2. send \in Calls /\ assign \in Calls
    BY <1>1 DEF Call, Calls, Ops
  <2>3. \/ Instead(<<>>)
        \/ \E a \in Calls : GoodCall(a, bus, target) /\ Instead(<<a>>)
        \/ \E a, b \in Calls : GoodCall(a, bus, target) /\ GoodCall(b, bus, target) /\ Instead(<<a, b>>)
    BY <1>2, <2>1, <2>2
  <2>. QED BY <1>1, <1>3, <2>3, TurnFacts, Replaced
<1>. QED BY <1>4, <1>5, <1>6, <1>7 DEF Shape

LEMMA ShapeSnapcastCall == Shape /\ SnapcastCall => Shape'
<1>. SUFFICES ASSUME Shape, SnapcastCall PROVE Shape'
  OBVIOUS
<1>. DEFINE v == Within(Result(status[target], Head(todo)))
            request == Call("request", 0)
            notify == Call("notify", 0)
<1>1. /\ Turn("snapcast")
      /\ UNCHANGED <<bus, hw, own, worker, pend, changes, phase, target, reported>>
      /\ \/ Instead(<<>>) /\ UNCHANGED status
         \/ status' = [status EXCEPT ![target] = v] /\ Instead(<<request, notify>>)
  BY DEF SnapcastCall, confVars
<1>2. /\ ValuesTyped /\ QueuesTyped /\ PlaceTyped /\ OwnTyped /\ WorkerInv /\ TodoInv
      /\ bus = "snapcast" /\ worker.pc # "read"
  <2>1. bus = "snapcast"
    BY <1>1, TurnFacts
  <2>. QED BY <2>1 DEF Shape, WorkerInv
<1>3. v \in Int
  BY <1>1, TurnFacts, DevicesAssumption DEF Within
<1>4. ValuesTyped'
  BY <1>1, <1>2, <1>3 DEF ValuesTyped
<1>5. QueuesTyped' /\ PlaceTyped' /\ OwnTyped' /\ WorkerInv'
  BY <1>1, <1>2 DEF QueuesTyped, PlaceTyped, OwnTyped, WorkerInv
<1>6. TodoInv'
  <2>1. /\ request \in Calls /\ notify \in Calls
        /\ GoodCall(request, bus, target) /\ GoodCall(notify, bus, target)
    BY <1>2 DEF Call, Calls, Ops, GoodCall
  <2>. QED BY <1>1, <1>2, <2>1, TurnFacts, Replaced
<1>. QED BY <1>4, <1>5, <1>6 DEF Shape

LEMMA ModbusOwnFacts ==
    ASSUME Shape, bus = "modbus", phase # "setup"
    PROVE  /\ own \in ModbusOwn /\ Len(own.actions) <= 1
           /\ own.actions # <<>> =>
                 /\ own.actions[1] \in Actions /\ own.actions[1].dev \in Outputs
                 /\ own.actions[1].val \in Int
<1>1. own \in ModbusOwn /\ Len(own.actions) <= 1
  BY DEF Shape, OwnTyped
<1>2. own.actions \in Seq(Actions)
  BY <1>1 DEF ModbusOwn
<1>3. own.actions # <<>> => own.actions[1] \in Actions
  BY <1>2, Rest
<1>. QED BY <1>1, <1>3 DEF Actions

LEMMA ShapeModbusSends == Shape /\ ModbusSends => Shape'
<1>. SUFFICES ASSUME Shape, ModbusSends PROVE Shape'
  OBVIOUS
<1>. DEFINE a == [dev |-> target, val |-> Head(todo).arg]
<1>1. /\ bus = "modbus" /\ At("send") /\ Instead(<<>>)
      /\ own' = [own EXCEPT !.actions = <<a>>]
      /\ UNCHANGED <<bus, status, hw, worker, pend, changes, phase, target, reported>>
  BY DEF ModbusSends, confVars
<1>2. ValuesTyped /\ QueuesTyped /\ PlaceTyped /\ OwnTyped /\ WorkerInv /\ TodoInv
  BY DEF Shape
<1>3. OwnTyped'
  <2>1. own \in ModbusOwn /\ target \in Outputs /\ Head(todo).arg \in Int
    BY <1>1, AtFacts, ModbusOwnFacts DEF GoodCall
  <2>2. a \in Actions
    BY <2>1 DEF Actions
  <2>3. <<a>> \in Seq(Actions) /\ Len(<<a>>) = 1
    BY <2>2
  <2>4. own' \in ModbusOwn /\ own'.actions = <<a>>
    BY <1>1, <2>1, <2>3 DEF ModbusOwn
  <2>. QED BY <1>1, <2>3, <2>4 DEF OwnTyped
<1>4. ValuesTyped' /\ QueuesTyped' /\ PlaceTyped' /\ WorkerInv'
  BY <1>1, <1>2 DEF ValuesTyped, QueuesTyped, PlaceTyped, WorkerInv
<1>5. TodoInv'
  BY <1>1, <1>2, AtFacts, Replaced
<1>. QED BY <1>3, <1>4, <1>5 DEF Shape

LEMMA ShapeModbusAssigns == Shape /\ ModbusAssigns => Shape'
<1>. SUFFICES ASSUME Shape, ModbusAssigns PROVE Shape'
  OBVIOUS
<1>1. /\ bus = "modbus" /\ At("assign") /\ Instead(<<>>)
      /\ status' = [status EXCEPT ![target] = Head(todo).arg]
      /\ UNCHANGED <<bus, hw, own, worker, pend, changes, phase, target, reported>>
  BY DEF ModbusAssigns, confVars
<1>2. /\ ValuesTyped /\ QueuesTyped /\ PlaceTyped /\ OwnTyped /\ WorkerInv /\ TodoInv
      /\ target \in Outputs /\ Head(todo).arg \in Int
  BY <1>1, AtFacts DEF Shape, GoodCall
<1>3. ValuesTyped'
  BY <1>1, <1>2 DEF ValuesTyped
<1>4. QueuesTyped' /\ PlaceTyped' /\ OwnTyped'
  BY <1>1, <1>2 DEF QueuesTyped, PlaceTyped, OwnTyped
<1>5. WorkerInv'
  <2>1. worker.pc = "read" => worker.dev # target
    BY <1>2, DevicesDiffer DEF WorkerInv
  <2>2. \A d \in Devs : d # target => status'[d] = status[d]
    BY <1>1, <1>2 DEF ValuesTyped
  <2>. QED BY <1>1, <1>2, <2>1, <2>2, WorkerKept DEF WorkerInv
<1>6. TodoInv'
  BY <1>1, <1>2, AtFacts, Replaced
<1>. QED BY <1>3, <1>4, <1>5, <1>6 DEF Shape

(* A connection that was left has no notifications.                         *)
LEMMA AfterRequestTyped ==
    ASSUME own \in SnapcastOwn, NEW ok \in BOOLEAN, NEW left \in BOOLEAN
    PROVE  /\ AfterRequest(ok, left) \in SnapcastOwn
           /\ AfterRequest(ok, left).known = own.known
           /\ AfterRequest(ok, left).loop = own.loop
           /\ AfterRequest(ok, left).callback = own.callback
<1>1. CASE AfterRequest(ok, left) = own
  BY <1>1
<1>2. CASE AfterRequest(ok, left) = [own EXCEPT !.notes = <<>>]
  <2>1. <<>> \in Seq(Notes) OBVIOUS
  <2>. QED BY <1>2, <2>1 DEF SnapcastOwn
<1>. QED BY <1>1, <1>2 DEF AfterRequest

LEMMA ShapeSnapcastRequests ==
    ASSUME Shape, NEW ok \in BOOLEAN, NEW left \in BOOLEAN, SnapcastRequests(ok, left)
    PROVE  Shape'
<1>1. /\ bus = "snapcast" /\ At("request") /\ Instead(<<>>)
      /\ own' = AfterRequest(ok, left)
      /\ hw' = IF ok THEN WithVolume(hw, status) ELSE hw
      /\ UNCHANGED <<bus, status, worker, pend, changes, phase, target, reported>>
  BY DEF SnapcastRequests, Works, confVars
<1>2. ValuesTyped /\ QueuesTyped /\ PlaceTyped /\ OwnTyped /\ WorkerInv /\ TodoInv
  BY DEF Shape
<1>3. ValuesTyped'
  BY <1>1, <1>2, DevicesDiffer DEF ValuesTyped, WithVolume
<1>4. OwnTyped'
  BY <1>1, <1>2, AtFacts, AfterRequestTyped DEF OwnTyped
<1>5. QueuesTyped' /\ PlaceTyped' /\ WorkerInv'
  BY <1>1, <1>2 DEF QueuesTyped, PlaceTyped, WorkerInv
<1>6. TodoInv'
  BY <1>1, <1>2, AtFacts, Replaced
<1>. QED BY <1>3, <1>4, <1>5, <1>6 DEF Shape

LEMMA ShapeSnapcastNotifies == Shape /\ SnapcastNotifies => Shape'
<1>. SUFFICES ASSUME Shape, SnapcastNotifies PROVE Shape'
  OBVIOUS
<1>1. /\ At("notify") /\ Instead(<<>>) /\ pend' = Append(pend, target)
      /\ UNCHANGED <<bus, status, hw, own, worker, changes, phase, target, reported>>
  BY DEF SnapcastNotifies, confVars
<1>2. ValuesTyped /\ QueuesTyped /\ PlaceTyped /\ OwnTyped /\ WorkerInv /\ TodoInv
  BY DEF Shape
<1>3. ValuesTyped' /\ PlaceTyped' /\ OwnTyped' /\ WorkerInv' /\ QueuesTyped'
  BY <1>1, <1>2 DEF ValuesTyped, QueuesTyped, PlaceTyped, OwnTyped, WorkerInv
<1>4. TodoInv'
  BY <1>1, <1>2, AtFacts, Replaced
<1>. QED BY <1>3, <1>4 DEF Shape

LEMMA SetStatusTyped ==
    ASSUME ValuesTyped, PlaceTyped, NEW d \in Devs, SetStatus(d)
    PROVE  reported' \in [Devs -> Int]
BY ShownTyped DEF SetStatus, ValuesTyped

LEMMA ShapeCommandEnds == Shape /\ CommandEnds => Shape'
<1>. SUFFICES ASSUME Shape, CommandEnds PROVE Shape'
  OBVIOUS
<1>1. /\ At("publish") /\ SetStatus(target) /\ Instead(<<>>)
      /\ UNCHANGED <<bus, status, hw, own, worker, pend, changes, phase, target>>
  BY DEF CommandEnds, confVars
<1>2. ValuesTyped /\ QueuesTyped /\ PlaceTyped /\ OwnTyped /\ WorkerInv /\ TodoInv
  BY DEF Shape
<1>3. ValuesTyped'
  BY <1>1, <1>2, SetStatusTyped DEF ValuesTyped, PlaceTyped
<1>4. QueuesTyped' /\ PlaceTyped' /\ OwnTyped' /\ WorkerInv'
  BY <1>1, <1>2 DEF QueuesTyped, PlaceTyped, OwnTyped, WorkerInv
<1>5. TodoInv'
  <2>1. GoodCalls(todo, bus, target) /\ todo # <<>>
    BY <1>1, <1>2 DEF TodoInv, At
  <2>2. GoodCalls(Tail(todo), bus, target) /\ todo' = Tail(todo)
    BY <1>1, <2>1, CallOver, CallNext DEF Instead
  <2>. QED BY <1>1, <1>2, <2>1, <2>2 DEF TodoInv
<1>. QED BY <1>3, <1>4, <1>5 DEF Shape

-------------------------------------------------------------------------------
(* The steps of the goroutines of the buses, of the forwarder and the loop. *)

LEMMA ShapeOfBus ==
    ASSUME Shape, UNCHANGED <<bus, phase, target, todo, reported>>,
           status' \in [Devs -> Int], hw' \in [Devs -> Int], pend' \in Seq(Devs), changes' \in Seq(Devs),
           OwnTyped', WorkerInv'
    PROVE  Shape'
<1>1. ValuesTyped' /\ QueuesTyped' /\ PlaceTyped' /\ TodoInv'
  BY TodoKept DEF Shape, ValuesTyped, QueuesTyped, PlaceTyped
<1>. QED BY <1>1 DEF Shape

LEMMA ShapeParts ==
    ASSUME Shape
    PROVE  /\ status \in [Devs -> Int] /\ hw \in [Devs -> Int] /\ reported \in [Devs -> Int]
           /\ pend \in Seq(Devs) /\ changes \in Seq(Devs) /\ OwnTyped /\ WorkerInv /\ TodoInv
           /\ target \in Devs /\ worker.dev \in Devs /\ worker.val \in Int
BY DEF Shape, ValuesTyped, QueuesTyped, PlaceTyped, WorkerInv

(* The handler changes its status, or its phase.                            *)
LEMMA ShapeHandleChange == Shape /\ HandleChange => Shape'
<1>. SUFFICES ASSUME Shape, HandleChange PROVE Shape'
  OBVIOUS
<1>1. /\ changes # <<>> /\ SetStatus(Head(changes)) /\ changes' = Tail(changes)
      /\ UNCHANGED <<bus, status, hw, own, worker, pend, phase, todo, target>>
  BY DEF HandleChange, confVars
<1>2. ValuesTyped /\ QueuesTyped /\ PlaceTyped /\ OwnTyped /\ WorkerInv /\ TodoInv
  BY DEF Shape
<1>3. Head(changes) \in Devs /\ Tail(changes) \in Seq(Devs)
  BY <1>1, <1>2, Rest DEF QueuesTyped
<1>4. ValuesTyped'
  BY <1>1, <1>2, <1>3, SetStatusTyped DEF ValuesTyped
<1>5. QueuesTyped' /\ PlaceTyped' /\ OwnTyped' /\ WorkerInv' /\ TodoInv'
  BY <1>1, <1>2, <1>3, TodoKept DEF QueuesTyped, PlaceTyped, OwnTyped, WorkerInv
<1>. QED BY <1>4, <1>5 DEF Shape

LEMMA ShapeForward == Shape /\ Forward => Shape'
<1>. SUFFICES ASSUME Shape, Forward PROVE Shape'
  OBVIOUS
<1>1. /\ pend # <<>> /\ changes' = Append(changes, Head(pend)) /\ pend' = Tail(pend)
      /\ UNCHANGED <<bus, status, hw, own, worker, phase, todo, target, reported>>
  BY DEF Forward, confVars, handlerVars
<1>2. Head(pend) \in Devs /\ pend' \in Seq(Devs) /\ changes' \in Seq(Devs)
  BY <1>1, ShapeParts, Rest
<1>3. OwnTyped' /\ WorkerInv'
  BY <1>1, ShapeParts DEF OwnTyped, WorkerInv
<1>. QED BY <1>1, <1>2, <1>3, ShapeParts, ShapeOfBus

LEMMA ShapeTeardown == Shape /\ (Teardown \/ TeardownEnds \/ W1Panics) => Shape'
<1>. SUFFICES ASSUME Shape, Teardown \/ TeardownEnds \/ W1Panics PROVE Shape'
  OBVIOUS
<1>1. /\ phase \in {"describe", "running", "closing"} /\ phase' \in {"closing", "panic", "ended"}
      /\ todo # <<>> => phase' = "panic" \/ phase = "closing"
      /\ UNCHANGED <<bus, status, hw, own, worker, pend, changes, todo, target, reported>>
  BY DEF Teardown, TeardownEnds, W1Panics, Works, Loop, confVars
<1>2. ValuesTyped /\ QueuesTyped /\ PlaceTyped /\ OwnTyped /\ WorkerInv /\ TodoInv
  BY DEF Shape
<1>3. todo # <<>> => phase' = "panic"
  BY <1>1, <1>2 DEF TodoInv
<1>4. ValuesTyped' /\ QueuesTyped' /\ PlaceTyped' /\ OwnTyped' /\ WorkerInv'
  BY <1>1, <1>2 DEF ValuesTyped, QueuesTyped, PlaceTyped, OwnTyped, WorkerInv, Phases
<1>5. TodoInv'
  BY <1>1, <1>2, <1>3 DEF TodoInv, GoodCalls
<1>. QED BY <1>4, <1>5 DEF Shape

(* Polls. *)
LEMMA ShapeBeginRead ==
    ASSUME Shape, phase # "setup", bus \in {"unipi", "w1", "modbus"},
           NEW d \in Inputs \cup Sensors, BeginRead(d)
    PROVE  Shape'
<1>1. /\ worker' = [pc |-> "read", dev |-> d, val |-> status[d]]
      /\ UNCHANGED <<bus, status, hw, own, pend, changes, phase, todo, target, reported>>
  BY DEF BeginRead, confVars, handlerVars
<1>2. OwnTyped'
  BY <1>1, ShapeParts DEF OwnTyped
<1>3. WorkerInv'
  BY <1>1, ShapeParts, DevicesDiffer DEF WorkerInv
<1>. QED BY <1>1, <1>2, <1>3, ShapeParts, ShapeOfBus

(* A read changes one device, and if it does, the device is announced.      *)
LEMMA ReadsFacts ==
    ASSUME Shape, phase # "setup", ReadsValue \/ ReadsNothing
    PROVE  /\ worker.pc = "read"
           /\ \/ /\ status' = [status EXCEPT ![worker.dev] = hw[worker.dev]]
                 /\ worker'.pc = IF hw[worker.dev] # worker.val THEN "send" ELSE "idle"
              \/ status' = status /\ worker'.pc = "idle"
           /\ worker'.dev = worker.dev /\ worker'.val = worker.val /\ DOMAIN worker' = DOMAIN worker
           /\ UNCHANGED <<bus, hw, own, pend, changes, phase, todo, target, reported>>
<1>1. {"pc", "dev", "val"} \subseteq DOMAIN worker
  BY ShapeParts DEF WorkerInv
<1>2. CASE ReadsValue
  <2>. DEFINE place == IF hw[worker.dev] # worker.val THEN "send" ELSE "idle"
  <2>1. /\ worker.pc = "read"
        /\ status' = [status EXCEPT ![worker.dev] = hw[worker.dev]]
        /\ worker' = [worker EXCEPT !.pc = place]
        /\ UNCHANGED <<bus, hw, own, pend, changes, phase, todo, target, reported>>
    BY <1>2 DEF ReadsValue, confVars, handlerVars
  <2>2. /\ worker'.pc = place /\ worker'.dev = worker.dev /\ worker'.val = worker.val
        /\ DOMAIN worker' = DOMAIN worker
    BY <1>1, <2>1
  <2>. QED BY <2>1, <2>2
<1>3. CASE ReadsNothing
  <2>1. /\ worker.pc = "read"
        /\ worker' = [worker EXCEPT !.pc = "idle"]
        /\ UNCHANGED <<bus, status, hw, own, pend, changes, phase, todo, target, reported>>
    BY <1>3 DEF ReadsNothing, confVars, handlerVars
  <2>. QED BY <1>1, <2>1
<1>. QED BY <1>2, <1>3

LEMMA ShapeReads ==
    ASSUME Shape, phase # "setup", ReadsValue \/ ReadsNothing
    PROVE  Shape'
<1>1. /\ status' \in [Devs -> Int] /\ worker'.pc \in {"send", "idle"}
      /\ worker'.dev = worker.dev /\ worker'.val = worker.val /\ DOMAIN worker' = DOMAIN worker
      /\ UNCHANGED <<bus, hw, own, pend, changes, phase, todo, target, reported>>
  BY ReadsFacts, ShapeParts
<1>2. OwnTyped' /\ WorkerInv'
  BY <1>1, ShapeParts DEF OwnTyped, WorkerInv
<1>. QED BY <1>1, <1>2, ShapeParts, ShapeOfBus

LEMMA AnnounceFacts ==
    ASSUME Shape, Announce
    PROVE  /\ worker.pc = "send" /\ worker.dev \in Devs /\ pend' = Append(pend, worker.dev)
           /\ worker'.pc = "idle" /\ worker'.dev = worker.dev /\ worker'.val = worker.val
           /\ DOMAIN worker' = DOMAIN worker
           /\ UNCHANGED <<bus, status, hw, own, changes, phase, todo, target, reported>>
<1>1. /\ worker.pc = "send" /\ pend' = Append(pend, worker.dev)
      /\ worker' = [worker EXCEPT !.pc = "idle"]
      /\ UNCHANGED <<bus, status, hw, own, changes, phase, todo, target, reported>>
  BY DEF Announce, confVars, handlerVars
<1>2. {"pc", "dev", "val"} \subseteq DOMAIN worker /\ worker.dev \in Devs
  BY ShapeParts DEF WorkerInv
<1>. QED BY <1>1, <1>2

LEMMA ShapeAnnounce == Shape /\ phase # "setup" /\ Announce => Shape'
<1>. SUFFICES ASSUME Shape, phase # "setup", Announce PROVE Shape'
  OBVIOUS
<1>1. UNCHANGED <<bus, status, hw, own, changes, phase, todo, target, reported>>
  BY AnnounceFacts
<1>3. pend' \in Seq(Devs)
  <2>1. pend \in Seq(Devs) /\ worker.dev \in Devs /\ pend' = Append(pend, worker.dev)
    BY AnnounceFacts, ShapeParts
  <2>. QED BY <2>1
<1>2. OwnTyped' /\ WorkerInv'
  BY <1>1, AnnounceFacts, ShapeParts DEF OwnTyped, WorkerInv
<1>. QED BY <1>1, <1>2, <1>3, ShapeParts, ShapeOfBus

LEMMA ShapeHardwareChanges ==
    ASSUME Shape, NEW d \in Devs, NEW v \in Int, HardwareChanges(d, v)
    PROVE  Shape'
<1>1. /\ hw' = [hw EXCEPT ![d] = v]
      /\ UNCHANGED <<bus, status, own, worker, pend, changes, phase, todo, target, reported>>
  BY DEF HardwareChanges, confVars, handlerVars
<1>2. OwnTyped' /\ WorkerInv' /\ hw' \in [Devs -> Int]
  BY <1>1, ShapeParts DEF OwnTyped, WorkerInv
<1>. QED BY <1>1, <1>2, ShapeParts, ShapeOfBus

LEMMA ShapeModbusTakes == Shape /\ ModbusTakes => Shape'
<1>. SUFFICES ASSUME Shape, ModbusTakes PROVE Shape'
  OBVIOUS
<1>1. /\ bus = "modbus" /\ phase \in {"describe", "running"} /\ own.actions # <<>>
      /\ worker' = [pc |-> "write", dev |-> own.actions[1].dev, val |-> own.actions[1].val, tries |-> 1]
      /\ own' = [own EXCEPT !.actions = <<>>]
      /\ UNCHANGED <<bus, status, hw, pend, changes, phase, todo, target, reported>>
  BY DEF ModbusTakes, HasWorker, Works, confVars, handlerVars
<1>2. OwnTyped'
  <2>1. own \in ModbusOwn
    BY <1>1, ModbusOwnFacts
  <2>2. <<>> \in Seq(Actions)
    OBVIOUS
  <2>3. own' \in ModbusOwn /\ own'.actions = <<>>
    BY <1>1, <2>1, <2>2 DEF ModbusOwn
  <2>. QED BY <1>1, <2>3 DEF OwnTyped
<1>3. WorkerInv'
  <2>1. own.actions[1].dev \in Outputs /\ own.actions[1].val \in Int
    BY <1>1, ModbusOwnFacts
  <2>. QED BY <1>1, <2>1, DevicesDiffer DEF WorkerInv
<1>. QED BY <1>1, <1>2, <1>3, ShapeParts, ShapeOfBus

LEMMA ModbusWritesFacts ==
    ASSUME Shape, NEW ok \in BOOLEAN, NEW reached \in BOOLEAN, ModbusWrites(ok, reached)
    PROVE  LET over == ok \/ worker.tries = MaxAttempts
               done == IF worker.dev \in Registered THEN Registered ELSE {worker.dev} IN
           /\ bus = "modbus" /\ phase \in {"describe", "running"} /\ worker.pc = "write"
           /\ worker.dev \in Outputs /\ worker.val \in Int /\ own \in ModbusOwn /\ own' \in ModbusOwn
           /\ hw' = IF ok \/ reached THEN Written(worker.dev, worker.val) ELSE hw
           /\ own'.actions = own.actions
           /\ own'.unsure = IF ok THEN own.unsure \ done
                            ELSE IF over THEN own.unsure \cup {worker.dev} ELSE own.unsure
           /\ worker'.dev = worker.dev /\ worker'.val \in Int
           /\ {"pc", "dev", "val"} \subseteq DOMAIN worker'
           /\ IF over THEN worker'.pc = "idle" ELSE worker'.pc = "write" /\ worker'.val = worker.val
           /\ UNCHANGED <<bus, status, pend, changes, phase, todo, target, reported>>
<1>. DEFINE over == ok \/ worker.tries = MaxAttempts
            done == IF worker.dev \in Registered THEN Registered ELSE {worker.dev}
            failed == IF ok THEN own.unsure \ done
                      ELSE IF over THEN own.unsure \cup {worker.dev} ELSE own.unsure
<1>1. /\ bus = "modbus" /\ phase \in {"describe", "running"} /\ worker.pc = "write"
      /\ hw' = IF ok \/ reached THEN Written(worker.dev, worker.val) ELSE hw
      /\ UNCHANGED <<bus, status, pend, changes, phase, todo, target, reported>>
  BY DEF ModbusWrites, HasWorker, Works, confVars, handlerVars
<1>2. /\ worker' = IF over THEN [pc |-> "idle", dev |-> worker.dev, val |-> 0]
                            ELSE [worker EXCEPT !.tries = @ + 1]
      /\ own' = [own EXCEPT !.unsure = failed]
  BY DEF ModbusWrites
<1>3. /\ worker.dev \in Outputs /\ worker.val \in Int /\ own \in ModbusOwn
      /\ {"pc", "dev", "val"} \subseteq DOMAIN worker
  BY <1>1, ShapeParts, ModbusOwnFacts DEF WorkerInv
<1>4. own' \in ModbusOwn /\ own'.actions = own.actions /\ own'.unsure = failed
  BY <1>2, <1>3 DEF ModbusOwn
<1>5. CASE over
  <2>1. worker' = [pc |-> "idle", dev |-> worker.dev, val |-> 0]
    BY <1>2, <1>5
  <2>. QED BY <1>1, <1>3, <1>4, <1>5, <2>1
<1>6. CASE ~over
  <2>1. worker' = [worker EXCEPT !.tries = @ + 1]
    BY <1>2, <1>6
  <2>2. /\ worker'.dev = worker.dev /\ worker'.val = worker.val /\ worker'.pc = "write"
        /\ DOMAIN worker' = DOMAIN worker
    BY <1>1, <1>3, <2>1
  <2>. QED BY <1>1, <1>3, <1>4, <1>6, <2>2
<1>. QED BY <1>5, <1>6

LEMMA ShapeModbusWrites ==
    ASSUME Shape, NEW ok \in BOOLEAN, NEW reached \in BOOLEAN, ModbusWrites(ok, reached)
    PROVE  Shape'
<1>1. /\ bus = "modbus" /\ phase \in {"describe", "running"}
      /\ worker.dev \in Outputs /\ worker.val \in Int /\ own' \in ModbusOwn
      /\ hw' = IF ok \/ reached THEN Written(worker.dev, worker.val) ELSE hw
      /\ own'.actions = own.actions
      /\ worker'.dev = worker.dev /\ worker'.val \in Int /\ worker'.pc \in {"idle", "write"}
      /\ {"pc", "dev", "val"} \subseteq DOMAIN worker'
      /\ UNCHANGED <<bus, status, pend, changes, phase, todo, target, reported>>
  BY ModbusWritesFacts
<1>2. hw' \in [Devs -> Int]
  BY <1>1, ShapeParts DEF Written
<1>3. OwnTyped'
  BY <1>1, ModbusOwnFacts DEF OwnTyped
<1>4. WorkerInv'
  BY <1>1, DevicesDiffer DEF WorkerInv
<1>. QED BY <1>1, <1>2, <1>3, <1>4, ShapeParts, ShapeOfBus

(* The edges of pins.                                                       *)
LEMMA GpioAnnouncesFacts ==
    ASSUME Shape, GpioAnnounces
    PROVE  /\ bus = "gpio" /\ phase # "setup" /\ pend' \in Seq(Devs)
           /\ pend' = Append(pend, Head(own.edges)) /\ Head(own.edges) \in Devs /\ own' \in GpioOwn
           /\ UNCHANGED <<bus, status, hw, worker, changes, phase, todo, target, reported>>
<1>1. /\ bus = "gpio" /\ phase # "setup" /\ own.edges # <<>>
      /\ pend' = Append(pend, Head(own.edges))
      /\ own' = [own EXCEPT !.edges = Tail(@)]
      /\ UNCHANGED <<bus, status, hw, worker, changes, phase, todo, target, reported>>
  BY DEF GpioAnnounces, confVars, handlerVars
<1>2. own \in GpioOwn /\ own.edges \in Seq(Devs)
  BY <1>1, ShapeParts DEF OwnTyped, GpioOwn
<1>3. Head(own.edges) \in Devs /\ Tail(own.edges) \in Seq(Devs)
  BY <1>1, <1>2, Rest
<1>4. own' \in GpioOwn
  BY <1>1, <1>2, <1>3 DEF GpioOwn
<1>5. pend' \in Seq(Devs)
  <2>. pend \in Seq(Devs) BY ShapeParts
  <2>. QED BY <1>1, <1>3
<1>. QED BY <1>1, <1>3, <1>4, <1>5

LEMMA ShapeGpioAnnounces == Shape /\ GpioAnnounces => Shape'
<1>. SUFFICES ASSUME Shape, GpioAnnounces PROVE Shape'
  OBVIOUS
<1>1. OwnTyped' /\ WorkerInv'
  BY GpioAnnouncesFacts, ShapeParts DEF OwnTyped, WorkerInv
<1>. QED BY <1>1, GpioAnnouncesFacts, ShapeParts, ShapeOfBus

(* Fades: where the elements of a queue are once the i-th one has left.     *)
Skip(i, j) == IF j < i THEN j ELSE j + 1
LEMMA Without ==
    ASSUME NEW S, NEW q \in Seq(S), NEW i \in DOMAIN q
    PROVE  LET r == [j \in 1..Len(q) - 1 |-> IF j < i THEN q[j] ELSE q[j + 1]] IN
           /\ r \in Seq(S) /\ DOMAIN r = 1..Len(q) - 1
           /\ \A j \in DOMAIN r : Skip(i, j) \in DOMAIN q /\ Skip(i, j) # i /\ r[j] = q[Skip(i, j)]
           /\ \A j, k \in DOMAIN r : Skip(i, j) = Skip(i, k) => j = k
           /\ \A k \in DOMAIN q : k # i => \E j \in DOMAIN r : Skip(i, j) = k
<1>. DEFINE r == [j \in 1..Len(q) - 1 |-> IF j < i THEN q[j] ELSE q[j + 1]]
<1>1. DOMAIN q = 1..Len(q) /\ Len(q) \in Nat /\ Len(q) - 1 \in Nat /\ i \in 1..Len(q)
  OBVIOUS
<1>2. \A j \in 1..Len(q) - 1 : j \in 1..Len(q) /\ j + 1 \in 1..Len(q) /\ q[j] \in S /\ q[j + 1] \in S
  BY <1>1
<1>3. r \in Seq(S)
  <2>1. r \in [1..Len(q) - 1 -> S]
    BY <1>2
  <2>. QED BY <1>1, <2>1
<1>4. \A j \in DOMAIN r : Skip(i, j) \in DOMAIN q /\ Skip(i, j) # i /\ r[j] = q[Skip(i, j)]
  <2>. TAKE j \in DOMAIN r
  <2>1. CASE j < i
    BY <2>1, <1>1, <1>2 DEF Skip
  <2>2. CASE ~(j < i)
    BY <2>2, <1>1, <1>2 DEF Skip
  <2>. QED BY <2>1, <2>2
<1>5. \A j, k \in DOMAIN r : Skip(i, j) = Skip(i, k) => j = k
  BY <1>1 DEF Skip
<1>6. \A k \in DOMAIN q : k # i => \E j \in DOMAIN r : Skip(i, j) = k
  <2>. SUFFICES ASSUME NEW k \in 1..Len(q), k # i PROVE \E j \in DOMAIN r : Skip(i, j) = k
    BY <1>1
  <2>1. CASE k < i
    <3>1. k \in 1..Len(q) - 1 /\ Skip(i, k) = k BY <2>1, <1>1 DEF Skip
    <3>. QED BY <3>1
  <2>2. CASE k > i
    <3>1. k - 1 \in 1..Len(q) - 1 /\ Skip(i, k - 1) = k BY <2>2, <1>1 DEF Skip
    <3>. QED BY <3>1
  <2>. QED BY <2>1, <2>2, <1>1
<1>. QED BY <1>1, <1>3, <1>4, <1>5, <1>6

LEMMA UnipiOwnFacts ==
    ASSUME Shape, bus = "unipi", phase # "setup"
    PROVE  /\ own \in UnipiOwn /\ own.waiting \in Seq(FadeCalls) /\ own.pwm \subseteq Levels
           /\ own.fade \in [Levels -> [at : Int, to : Int]]
           /\ \A d \in Levels : own.fade[d].at \in Int /\ own.fade[d].to \in Int
           /\ \A i \in DOMAIN own.waiting :
                 /\ own.waiting[i] \in FadeCalls
                 /\ own.waiting[i].dev \in Levels
                 /\ own.waiting[i].from \in Int /\ own.waiting[i].to \in Int
<1>1. own \in UnipiOwn
  BY ShapeParts DEF OwnTyped
<1>2. /\ own.waiting \in Seq(FadeCalls) /\ own.pwm \subseteq Levels
      /\ own.fade \in [Levels -> [at : Int, to : Int]]
  BY <1>1 DEF UnipiOwn
<1>3. \A i \in DOMAIN own.waiting : own.waiting[i] \in FadeCalls
  BY <1>2
<1>. QED BY <1>1, <1>2, <1>3 DEF FadeCalls

LEMMA FadeStartsFacts ==
    ASSUME Shape, NEW i, FadeStarts(i)
    PROVE  LET f == own.waiting[i]
               next == IF f.from = f.to THEN NoFade ELSE [at |-> f.from, to |-> f.to] IN
           /\ bus = "unipi" /\ phase # "setup" /\ i \in DOMAIN own.waiting /\ ~Fading(f.dev)
           /\ f.dev \in Levels /\ own' \in UnipiOwn
           /\ own'.pwm = own.pwm /\ own'.crossed = own.crossed
           /\ own'.waiting = [j \in 1..Len(own.waiting) - 1 |->
                                 IF j < i THEN own.waiting[j] ELSE own.waiting[j + 1]]
           /\ own'.fade = [own.fade EXCEPT ![f.dev] = next]
           /\ UNCHANGED <<bus, status, hw, worker, pend, changes, phase, todo, target, reported>>
<1>. DEFINE f == own.waiting[i]
            next == IF f.from = f.to THEN NoFade ELSE [at |-> f.from, to |-> f.to]
            rest == [j \in 1..Len(own.waiting) - 1 |->
                        IF j < i THEN own.waiting[j] ELSE own.waiting[j + 1]]
<1>1. /\ bus = "unipi" /\ phase # "setup" /\ i \in DOMAIN own.waiting /\ ~Fading(f.dev)
      /\ own' = [own EXCEPT !.waiting = rest, !.fade[f.dev] = next]
      /\ UNCHANGED <<bus, status, hw, worker, pend, changes, phase, todo, target, reported>>
  BY DEF FadeStarts, Works, confVars, handlerVars
<1>2. /\ own \in UnipiOwn /\ f.dev \in Levels /\ next \in [at : Int, to : Int]
      /\ own.waiting \in Seq(FadeCalls) /\ own.fade \in [Levels -> [at : Int, to : Int]]
  BY <1>1, UnipiOwnFacts DEF NoFade
<1>3. rest \in Seq(FadeCalls)
  BY <1>1, <1>2, Without, SMTT(40)
<1>. DEFINE fade == [own.fade EXCEPT ![f.dev] = next]
<1>4. fade \in [Levels -> [at : Int, to : Int]]
  BY <1>2
<1>5. own' = [own EXCEPT !.waiting = rest, !.fade = fade]
  <2>. HIDE DEF f, next, rest
  <2>1. own' = [own EXCEPT !.waiting = rest, !.fade[f.dev] = next]
    BY <1>1
  <2>. QED BY <1>2, <2>1 DEF UnipiOwn
<1>6. /\ own' \in UnipiOwn /\ own'.pwm = own.pwm /\ own'.crossed = own.crossed
      /\ own'.waiting = rest /\ own'.fade = fade
  <2>. HIDE DEF fade, rest
  <2>. QED BY <1>2, <1>3, <1>4, <1>5 DEF UnipiOwn
<1>. QED BY <1>1, <1>2, <1>6

LEMMA FadeWritesFacts ==
    ASSUME Shape, NEW d \in Levels, FadeWrites(d)
    PROVE  LET f == own.fade[d]
               next == IF f.at < f.to THEN f.at + 1 ELSE f.at - 1 IN
           /\ bus = "unipi" /\ phase # "setup" /\ Fading(d) /\ next \in Int
           /\ hw' = [hw EXCEPT ![d] = next] /\ own' \in UnipiOwn
           /\ own'.pwm = own.pwm /\ own'.crossed = own.crossed /\ own'.waiting = own.waiting
           /\ own'.fade = [own.fade EXCEPT ![d] = IF next = f.to THEN NoFade
                                                  ELSE [at |-> next, to |-> f.to]]
           /\ UNCHANGED <<bus, status, worker, pend, changes, phase, todo, target, reported>>
<1>. DEFINE f == own.fade[d]
            next == IF f.at < f.to THEN f.at + 1 ELSE f.at - 1
            g == IF next = f.to THEN NoFade ELSE [f EXCEPT !.at = next]
            h == IF next = f.to THEN NoFade ELSE [at |-> next, to |-> f.to]
            fade == [own.fade EXCEPT ![d] = h]
<1>1. /\ bus = "unipi" /\ phase # "setup" /\ Fading(d)
      /\ hw' = [hw EXCEPT ![d] = next]
      /\ own' = [own EXCEPT !.fade[d] = g]
      /\ UNCHANGED <<bus, status, worker, pend, changes, phase, todo, target, reported>>
  BY DEF FadeWrites, Works, confVars, handlerVars
<1>2. own \in UnipiOwn /\ own.fade \in [Levels -> [at : Int, to : Int]]
  BY <1>1, UnipiOwnFacts
<1>3. f \in [at : Int, to : Int] /\ f.at \in Int /\ f.to \in Int
  BY <1>2
<1>4. next \in Int
  <2>. HIDE DEF f
  <2>. QED BY <1>3
<1>5. g = h /\ h \in [at : Int, to : Int]
  <2>. HIDE DEF f, next
  <2>. QED BY <1>3, <1>4 DEF NoFade
<1>6. fade \in [Levels -> [at : Int, to : Int]]
  <2>. HIDE DEF h
  <2>. QED BY <1>2, <1>5
<1>7. own' = [own EXCEPT !.fade = fade]
  <2>1. own' = [own EXCEPT !.fade[d] = h]
    BY <1>1, <1>5
  <2>. HIDE DEF h
  <2>. QED BY <1>2, <2>1 DEF UnipiOwn
<1>8. /\ own' \in UnipiOwn /\ own'.pwm = own.pwm /\ own'.crossed = own.crossed
      /\ own'.waiting = own.waiting /\ own'.fade = fade
  <2>. HIDE DEF fade
  <2>. QED BY <1>2, <1>6, <1>7 DEF UnipiOwn
<1>. QED BY <1>1, <1>4, <1>8

LEMMA ShapeFadeStarts ==
    ASSUME Shape, NEW i, FadeStarts(i)
    PROVE  Shape'
<1>1. /\ bus = "unipi" /\ phase # "setup" /\ own' \in UnipiOwn
      /\ UNCHANGED <<bus, status, hw, worker, pend, changes, phase, todo, target, reported>>
  BY FadeStartsFacts
<1>2. OwnTyped' /\ WorkerInv'
  BY <1>1, ShapeParts DEF OwnTyped, WorkerInv
<1>. QED BY <1>1, <1>2, ShapeParts, ShapeOfBus

LEMMA ShapeFadeWrites ==
    ASSUME Shape, NEW d \in Levels, FadeWrites(d)
    PROVE  Shape'
<1>1. /\ bus = "unipi" /\ phase # "setup" /\ own' \in UnipiOwn
      /\ UNCHANGED <<bus, status, worker, pend, changes, phase, todo, target, reported>>
  BY FadeWritesFacts
<1>2. hw' \in [Devs -> Int]
  BY FadeWritesFacts, ShapeParts
<1>3. OwnTyped' /\ WorkerInv'
  BY <1>1, ShapeParts DEF OwnTyped, WorkerInv
<1>. QED BY <1>1, <1>2, <1>3, ShapeParts, ShapeOfBus

(* Snapcast. *)
LEMMA SnapcastOwnFacts ==
    ASSUME Shape, bus = "snapcast", phase # "setup"
    PROVE  /\ own \in SnapcastOwn /\ own.known \in BOOLEAN /\ own.notes \in Seq(Notes)
           /\ own.loop \in Seq(Devs) /\ own.callback \in Seq(Devs)
BY ShapeParts DEF OwnTyped, SnapcastOwn

LEMMA SnapcastPollsFacts ==
    ASSUME Shape, NEW ok \in BOOLEAN, NEW left \in BOOLEAN, SnapcastPolls(ok, left)
    PROVE  LET new == ok /\ ~own.known IN
           /\ bus = "snapcast" /\ phase # "setup" /\ own \in SnapcastOwn /\ own' \in SnapcastOwn
           /\ own.loop = <<>> /\ own'.callback = own.callback
           /\ IF new THEN own'.known /\ own'.loop = <<Mute, Volume>>
                     ELSE own'.known = own.known /\ own'.loop = own.loop
           /\ status' = IF new THEN WithVolume(status, hw) ELSE status
           /\ UNCHANGED <<bus, hw, worker, pend, changes, phase, todo, target, reported>>
<1>. DEFINE new == ok /\ ~own.known
            asked == AfterRequest(ok, left)
<1>1. /\ bus = "snapcast" /\ phase # "setup" /\ own.loop = <<>>
      /\ own' = IF new THEN [asked EXCEPT !.known = TRUE, !.loop = <<Mute, Volume>>] ELSE asked
      /\ status' = IF new THEN WithVolume(status, hw) ELSE status
      /\ UNCHANGED <<bus, hw, worker, pend, changes, phase, todo, target, reported>>
  BY DEF SnapcastPolls, Works, confVars, handlerVars
<1>2. own \in SnapcastOwn
  BY <1>1, SnapcastOwnFacts
<1>3. /\ asked \in SnapcastOwn /\ asked.known = own.known /\ asked.loop = own.loop
      /\ asked.callback = own.callback
  BY <1>2, AfterRequestTyped
<1>4. <<Mute, Volume>> \in Seq(Devs)
  BY DevicesDiffer
<1>5. CASE new
  <2>1. own' = [asked EXCEPT !.known = TRUE, !.loop = <<Mute, Volume>>]
    BY <1>1, <1>5
  <2>2. /\ own' \in SnapcastOwn /\ own'.known /\ own'.loop = <<Mute, Volume>>
        /\ own'.callback = asked.callback
    <3>. HIDE DEF asked
    <3>. QED BY <1>3, <1>4, <2>1 DEF SnapcastOwn
  <2>. QED BY <1>1, <1>2, <1>3, <1>5, <2>2
<1>6. CASE ~new
  BY <1>1, <1>2, <1>3, <1>6
<1>. QED BY <1>5, <1>6

LEMMA ShapeSnapcastPolls ==
    ASSUME Shape, NEW ok \in BOOLEAN, NEW left \in BOOLEAN, SnapcastPolls(ok, left)
    PROVE  Shape'
<1>1. /\ bus = "snapcast" /\ phase # "setup" /\ own' \in SnapcastOwn
      /\ status' = IF ok /\ ~own.known THEN WithVolume(status, hw) ELSE status
      /\ UNCHANGED <<bus, hw, worker, pend, changes, phase, todo, target, reported>>
  BY SnapcastPollsFacts
<1>2. status' \in [Devs -> Int]
  BY <1>1, ShapeParts, DevicesDiffer DEF WithVolume
<1>3. OwnTyped' /\ WorkerInv'
  BY <1>1, ShapeParts DEF OwnTyped, WorkerInv
<1>. QED BY <1>1, <1>2, <1>3, ShapeParts, ShapeOfBus

LEMMA LoopAnnouncesFacts ==
    ASSUME Shape, LoopAnnounces
    PROVE  /\ bus = "snapcast" /\ phase # "setup" /\ own.loop # <<>> /\ own.loop \in Seq(Devs)
           /\ Head(own.loop) \in Devs /\ pend' = Append(pend, Head(own.loop)) /\ pend' \in Seq(Devs)
           /\ own' \in SnapcastOwn /\ own'.known = own.known /\ own'.callback = own.callback
           /\ own'.loop = Tail(own.loop)
           /\ UNCHANGED <<bus, status, hw, worker, changes, phase, todo, target, reported>>
<1>1. /\ bus = "snapcast" /\ phase # "setup" /\ own.loop # <<>>
      /\ pend' = Append(pend, Head(own.loop))
      /\ own' = [own EXCEPT !.loop = Tail(@)]
      /\ UNCHANGED <<bus, status, hw, worker, changes, phase, todo, target, reported>>
  BY DEF LoopAnnounces, Works, confVars, handlerVars
<1>2. own \in SnapcastOwn /\ own.loop \in Seq(Devs) /\ pend \in Seq(Devs)
  BY <1>1, SnapcastOwnFacts, ShapeParts
<1>3. Head(own.loop) \in Devs /\ Tail(own.loop) \in Seq(Devs)
  BY <1>1, <1>2, Rest
<1>4. pend' \in Seq(Devs)
  BY <1>1, <1>2, <1>3
<1>5. /\ own' \in SnapcastOwn /\ own'.known = own.known /\ own'.callback = own.callback
      /\ own'.loop = Tail(own.loop)
  BY <1>1, <1>2, <1>3 DEF SnapcastOwn
<1>. QED BY <1>1, <1>2, <1>3, <1>4, <1>5

LEMMA CallbackAnnouncesFacts ==
    ASSUME Shape, CallbackAnnounces
    PROVE  /\ bus = "snapcast" /\ phase # "setup" /\ own.callback # <<>> /\ own.callback \in Seq(Devs)
           /\ Head(own.callback) \in Devs /\ pend' = Append(pend, Head(own.callback))
           /\ pend' \in Seq(Devs)
           /\ own' \in SnapcastOwn /\ own'.known = own.known /\ own'.loop = own.loop
           /\ own'.callback = Tail(own.callback)
           /\ UNCHANGED <<bus, status, hw, worker, changes, phase, todo, target, reported>>
<1>1. /\ bus = "snapcast" /\ phase # "setup" /\ own.callback # <<>>
      /\ pend' = Append(pend, Head(own.callback))
      /\ own' = [own EXCEPT !.callback = Tail(@)]
      /\ UNCHANGED <<bus, status, hw, worker, changes, phase, todo, target, reported>>
  BY DEF CallbackAnnounces, Works, confVars, handlerVars
<1>2. own \in SnapcastOwn /\ own.callback \in Seq(Devs) /\ pend \in Seq(Devs)
  BY <1>1, SnapcastOwnFacts, ShapeParts
<1>3. Head(own.callback) \in Devs /\ Tail(own.callback) \in Seq(Devs)
  BY <1>1, <1>2, Rest
<1>4. pend' \in Seq(Devs)
  BY <1>1, <1>2, <1>3
<1>5. /\ own' \in SnapcastOwn /\ own'.known = own.known /\ own'.loop = own.loop
      /\ own'.callback = Tail(own.callback)
  BY <1>1, <1>2, <1>3 DEF SnapcastOwn
<1>. QED BY <1>1, <1>2, <1>3, <1>4, <1>5

LEMMA ShapeAnnouncesClient == Shape /\ (LoopAnnounces \/ CallbackAnnounces) => Shape'
<1>. SUFFICES ASSUME Shape, LoopAnnounces \/ CallbackAnnounces PROVE Shape'
  OBVIOUS
<1>1. /\ bus = "snapcast" /\ phase # "setup" /\ pend' \in Seq(Devs) /\ own' \in SnapcastOwn
      /\ UNCHANGED <<bus, status, hw, worker, changes, phase, todo, target, reported>>
  BY LoopAnnouncesFacts, CallbackAnnouncesFacts
<1>2. OwnTyped' /\ WorkerInv'
  BY <1>1, ShapeParts DEF OwnTyped, WorkerInv
<1>. QED BY <1>1, <1>2, ShapeParts, ShapeOfBus

LEMMA ServerChangesFacts ==
    ASSUME Shape, NEW d \in Devs, NEW v \in Int, ServerChanges(d, v)
    PROVE  /\ bus = "snapcast" /\ phase # "setup" /\ hw' = [hw EXCEPT ![d] = v]
           /\ own' \in SnapcastOwn /\ own'.known = own.known /\ own'.loop = own.loop
           /\ own'.callback = own.callback
           /\ UNCHANGED <<bus, status, worker, pend, changes, phase, todo, target, reported>>
<1>. DEFINE new == [hw EXCEPT ![d] = v]
            n == [mute |-> new[Mute], percent |-> new[Volume]]
<1>1. /\ bus = "snapcast" /\ phase # "setup" /\ hw' = new
      /\ own' = IF "snapcast" \in opened THEN [own EXCEPT !.notes = Append(@, n)] ELSE own
      /\ UNCHANGED <<bus, status, worker, pend, changes, phase, todo, target, reported>>
  BY DEF ServerChanges, Works, confVars, handlerVars
<1>2. own \in SnapcastOwn /\ own.notes \in Seq(Notes)
  BY <1>1, SnapcastOwnFacts
<1>3. n \in Notes
  <2>1. new \in [Devs -> Int]
    BY ShapeParts
  <2>2. new[Mute] \in Int /\ new[Volume] \in Int
    <3>. HIDE DEF new
    <3>. QED BY <2>1, DevicesDiffer
  <2>. HIDE DEF new
  <2>. QED BY <2>2 DEF Notes
<1>4. Append(own.notes, n) \in Seq(Notes)
  <2>. HIDE DEF n
  <2>. QED BY <1>2, <1>3
<1>5. /\ own' \in SnapcastOwn /\ own'.known = own.known /\ own'.loop = own.loop
      /\ own'.callback = own.callback
  <2>1. CASE "snapcast" \in opened
    <3>1. own' = [own EXCEPT !.notes = Append(own.notes, n)]
      BY <1>1, <2>1
    <3>. HIDE DEF n
    <3>. QED BY <1>2, <1>4, <3>1 DEF SnapcastOwn
  <2>. QED BY <1>1, <1>2, <2>1
<1>. QED BY <1>1, <1>5

LEMMA ShapeServerChanges ==
    ASSUME Shape, NEW d \in Devs, NEW v \in Int, ServerChanges(d, v)
    PROVE  Shape'
<1>1. /\ bus = "snapcast" /\ phase # "setup" /\ hw' = [hw EXCEPT ![d] = v] /\ own' \in SnapcastOwn
      /\ UNCHANGED <<bus, status, worker, pend, changes, phase, todo, target, reported>>
  BY ServerChangesFacts
<1>2. OwnTyped' /\ WorkerInv' /\ hw' \in [Devs -> Int]
  BY <1>1, ShapeParts DEF OwnTyped, WorkerInv
<1>. QED BY <1>1, <1>2, ShapeParts, ShapeOfBus

LEMMA NotificationFacts ==
    ASSUME Shape, Notification
    PROVE  /\ bus = "snapcast" /\ phase # "setup" /\ own.callback = <<>> /\ own \in SnapcastOwn
           /\ own' \in SnapcastOwn /\ own'.known /\ own'.loop = own.loop
           /\ own'.callback = <<Mute, Volume>>
           /\ \E mute, percent \in Int : status' = [status EXCEPT ![Mute] = mute, ![Volume] = percent]
           /\ UNCHANGED <<bus, hw, worker, pend, changes, phase, todo, target, reported>>
<1>. DEFINE n == Head(own.notes)
<1>1. /\ bus = "snapcast" /\ phase # "setup" /\ own.notes # <<>> /\ own.callback = <<>>
      /\ status' = [status EXCEPT ![Mute] = n.mute, ![Volume] = n.percent]
      /\ own' = [own EXCEPT !.notes = Tail(@), !.known = TRUE, !.callback = <<Mute, Volume>>]
      /\ UNCHANGED <<bus, hw, worker, pend, changes, phase, todo, target, reported>>
  BY DEF Notification, Works, confVars, handlerVars
<1>2. own \in SnapcastOwn /\ own.notes \in Seq(Notes)
  BY <1>1, SnapcastOwnFacts
<1>3. n \in Notes /\ Tail(own.notes) \in Seq(Notes)
  BY <1>1, <1>2, Rest
<1>4. n.mute \in Int /\ n.percent \in Int
  <2>. HIDE DEF n
  <2>. QED BY <1>3 DEF Notes
<1>5. <<Mute, Volume>> \in Seq(Devs)
  BY DevicesDiffer
<1>6. /\ own' \in SnapcastOwn /\ own'.known /\ own'.loop = own.loop
      /\ own'.callback = <<Mute, Volume>>
  BY <1>1, <1>2, <1>3, <1>5 DEF SnapcastOwn
<1>. QED BY <1>1, <1>2, <1>4, <1>6

LEMMA ShapeNotification == Shape /\ Notification => Shape'
<1>. SUFFICES ASSUME Shape, Notification PROVE Shape'
  OBVIOUS
<1>1. /\ bus = "snapcast" /\ phase # "setup" /\ own' \in SnapcastOwn
      /\ UNCHANGED <<bus, hw, worker, pend, changes, phase, todo, target, reported>>
  BY NotificationFacts
<1>2. status' \in [Devs -> Int]
  BY NotificationFacts, ShapeParts, DevicesDiffer
<1>3. OwnTyped' /\ WorkerInv'
  <2>1. worker.pc # "read"
    BY <1>1, ShapeParts DEF WorkerInv
  <2>. QED BY <1>1, <2>1, ShapeParts DEF OwnTyped, WorkerInv
<1>. QED BY <1>1, <1>2, <1>3, ShapeParts, ShapeOfBus

(* Every step is one of these.                                              *)
LEMMA Steps ==
    ASSUME Next
    PROVE  \/ Initialize \/ Describe
           \/ \E d \in Devs, action \in {"SET", "RESET", "PUSH", "TOGGLE", "GET"} : DigitalCommand(d, action)
           \/ \E d \in Devs, op \in {"set", "add"}, v \in Int : AnalogCommand(d, op, v)
           \/ SoftCall \/ GpioCall \/ UnipiCall \/ ModbusCall \/ SnapcastCall
           \/ ModbusSends \/ ModbusAssigns
           \/ \E ok, left \in BOOLEAN : SnapcastRequests(ok, left)
           \/ SnapcastNotifies \/ CommandEnds
           \/ HandleChange \/ Forward \/ Teardown \/ TeardownEnds \/ W1Panics
           \/ phase # "setup" /\ bus \in {"unipi", "w1", "modbus"} /\ \E d \in Inputs \cup Sensors : BeginRead(d)
           \/ phase # "setup" /\ bus \in {"unipi", "w1", "modbus"} /\ (ReadsValue \/ ReadsNothing)
           \/ phase # "setup" /\ Announce
           \/ \E ok, reached \in BOOLEAN : ModbusWrites(ok, reached)
           \/ ModbusTakes \/ GpioAnnounces
           \/ \E i \in Nat : FadeStarts(i)
           \/ \E d \in Levels : FadeWrites(d)
           \/ \E ok, left \in BOOLEAN : SnapcastPolls(ok, left)
           \/ LoopAnnounces \/ Notification \/ CallbackAnnounces
           \/ \E d \in (Inputs \cup Sensors) \cap DevicesOn(bus), v \in Int : HardwareChanges(d, v)
           \/ \E d \in Devs, v \in Int : ServerChanges(d, v)
<1>. USE DEF Works, HasWorker
<1>1. CASE Setup
  BY <1>1 DEF Setup
<1>2. CASE Commands
  <2>1. 0..MaxLevel \subseteq Int /\ {-1, 1} \subseteq Int
    BY DevicesAssumption
  <2>. QED BY <1>2, <2>1 DEF Commands
<1>3. CASE Executes
  BY <1>3 DEF Executes
<1>4. CASE HandleChange \/ Forward \/ Teardown \/ TeardownEnds \/ W1Panics
  BY <1>4
<1>5. CASE \E d \in Devs : Polls(d)
  BY <1>5 DEF Polls, UnipiPolls, W1Polls, ModbusPolls
<1>6. CASE WorkerGoesOn
  <2>1. CASE \E ok \in BOOLEAN : UnipiReads(ok) \/ W1Reads(ok) \/ ModbusReads(ok)
    BY <2>1 DEF UnipiReads, W1Reads, ModbusReads, EndRead
  <2>2. CASE W1Panics
    BY <2>2
  <2>3. CASE UnipiAnnounces \/ W1Announces \/ ModbusAnnounces
    BY <2>3 DEF UnipiAnnounces, W1Announces, ModbusAnnounces
  <2>4. CASE \E ok, reached \in BOOLEAN : ModbusWrites(ok, reached)
    BY <2>4
  <2>. QED BY <1>6, <2>1, <2>2, <2>3, <2>4 DEF WorkerGoesOn
<1>7. CASE ModbusTakes \/ GpioAnnounces \/ LoopAnnounces \/ Notification \/ CallbackAnnounces
  BY <1>7
<1>8. CASE Fades
  <2>1. \A i \in 1..MaxCommands : i \in Nat
    BY IOAssumption
  <2>. QED BY <1>8, <2>1 DEF Fades
<1>9. CASE \E ok, left \in BOOLEAN : SnapcastPolls(ok, left)
  BY <1>9
<1>10. CASE \E d \in Devs, v \in 0..MaxLevel :
                \/ d \in (Inputs \cup Sensors) \cap DevicesOn(bus) /\ (d \in Inputs => v <= 1) /\ HardwareChanges(d, v)
                \/ (d \in Outputs => v <= 1) /\ ServerChanges(d, v)
  <2>1. 0..MaxLevel \subseteq Int
    BY DevicesAssumption
  <2>. QED BY <1>10, <2>1
<1>. QED BY <1>1, <1>2, <1>3, <1>4, <1>5, <1>6, <1>7, <1>8, <1>9, <1>10 DEF Next

LEMMA ShapeNext == Shape /\ [Next]_vars => Shape'
<1>. SUFFICES ASSUME Shape, Next PROVE Shape'
  BY ShapeStutters
<1>1. CASE Initialize
  BY <1>1, ShapeInitialize
<1>2. CASE Describe
  BY <1>2, ShapeDescribe
<1>3. CASE \E d \in Devs, action \in {"SET", "RESET", "PUSH", "TOGGLE", "GET"} : DigitalCommand(d, action)
  BY <1>3, ShapeDigital
<1>4. CASE \E d \in Devs, op \in {"set", "add"}, v \in Int : AnalogCommand(d, op, v)
  BY <1>4, ShapeAnalog
<1>5. CASE SoftCall \/ GpioCall \/ UnipiCall \/ ModbusCall \/ SnapcastCall
  BY <1>5, ShapeSoftCall, ShapeGpioCall, ShapeUnipiCall, ShapeModbusCall, ShapeSnapcastCall
<1>6. CASE ModbusSends \/ ModbusAssigns
  BY <1>6, ShapeModbusSends, ShapeModbusAssigns
<1>7. CASE \E ok, left \in BOOLEAN : SnapcastRequests(ok, left)
  BY <1>7, ShapeSnapcastRequests
<1>8. CASE SnapcastNotifies \/ CommandEnds
  BY <1>8, ShapeSnapcastNotifies, ShapeCommandEnds
<1>9. CASE HandleChange \/ Forward \/ Teardown \/ TeardownEnds \/ W1Panics
  BY <1>9, ShapeHandleChange, ShapeForward, ShapeTeardown
<1>10. CASE phase # "setup" /\ bus \in {"unipi", "w1", "modbus"} /\ \E d \in Inputs \cup Sensors : BeginRead(d)
  BY <1>10, ShapeBeginRead
<1>11. CASE phase # "setup" /\ bus \in {"unipi", "w1", "modbus"} /\ (ReadsValue \/ ReadsNothing)
  BY <1>11, ShapeReads
<1>12. CASE phase # "setup" /\ Announce
  BY <1>12, ShapeAnnounce
<1>13. CASE \E ok, reached \in BOOLEAN : ModbusWrites(ok, reached)
  BY <1>13, ShapeModbusWrites
<1>14. CASE ModbusTakes \/ GpioAnnounces
  BY <1>14, ShapeModbusTakes, ShapeGpioAnnounces
<1>15. CASE \E i \in Nat : FadeStarts(i)
  BY <1>15, ShapeFadeStarts
<1>16. CASE \E d \in Levels : FadeWrites(d)
  BY <1>16, ShapeFadeWrites
<1>17. CASE \E ok, left \in BOOLEAN : SnapcastPolls(ok, left)
  BY <1>17, ShapeSnapcastPolls
<1>18. CASE LoopAnnounces \/ Notification \/ CallbackAnnounces
  BY <1>18, ShapeAnnouncesClient, ShapeNotification
<1>19. CASE \E d \in (Inputs \cup Sensors) \cap DevicesOn(bus), v \in Int : HardwareChanges(d, v)
  BY <1>19, ShapeHardwareChanges, DevicesDiffer
<1>20. CASE \E d \in Devs, v \in Int : ServerChanges(d, v)
  BY <1>20, ShapeServerChanges
<1>. QED BY <1>1, <1>2, <1>3, <1>4, <1>5, <1>6, <1>7, <1>8, <1>9, <1>10, <1>11, <1>12, <1>13, <1>14,
            <1>15, <1>16, <1>17, <1>18, <1>19, <1>20, Steps

-------------------------------------------------------------------------------
(* What is published is not forgotten.                                      *)
Client(d) == bus = "snapcast" /\ phase # "setup" /\ (Queued(own.loop, d) \/ Queued(own.callback, d))
Told(d) ==
    Known(d) => reported[d] = Shown(d) \/ UnderWay(d) \/ (todo # <<>> /\ target = d)
ToldIn(X) == phase = "running" => \A d \in X : Told(d)

LEMMA ToldMeans == \A d : LeftBehind(d) <=> ~ToldIn({d})
BY DEF ToldIn, Told, LeftBehind

(* A device about which nothing changes, except where its id is.            *)
LEMMA ToldSame ==
    ASSUME NEW d \in Devs, Told(d), UNCHANGED bus,
           bus = "snapcast" => own'.known = own.known,
           bus = "gpio" => hw'[d] = hw[d],
           bus # "gpio" => status'[d] = status[d],
           reported'[d] = reported[d],
           UnderWay(d) => UnderWay(d)',
           todo # <<>> /\ target = d => todo' # <<>> /\ target' = d
    PROVE  Told(d)'
<1>1. Known(d)' = Known(d)
  <2>1. CASE bus = "snapcast"
    BY <2>1 DEF Known, SnapcastKnows
  <2>2. CASE bus # "snapcast"
    BY <2>2 DEF Known
  <2>. QED BY <2>1, <2>2
<1>2. Shown(d)' = Shown(d)
  <2>1. CASE bus = "gpio"
    BY <2>1 DEF Shown, GpioShown, Pin
  <2>2. CASE bus = "soft"
    BY <2>2 DEF Shown, SoftShown
  <2>3. CASE bus \notin {"gpio", "soft"}
    BY <2>3 DEF Shown
  <2>. QED BY <2>1, <2>2, <2>3
<1>. QED BY <1>1, <1>2 DEF Told

(* Where the ids are.                                                       *)
LEMMA UnderWayMeans ==
    \A d : UnderWay(d) <=>
              \/ Queued(pend, d) \/ Queued(changes, d)
              \/ worker.pc = "send" /\ worker.dev = d
              \/ Client(d)
BY DEF UnderWay, Client

LEMMA UnderWaySame ==
    ASSUME NEW d, UNCHANGED <<bus, phase, pend, changes, worker>>,
           bus = "snapcast" => own'.loop = own.loop /\ own'.callback = own.callback
    PROVE  UnderWay(d)' = UnderWay(d)
BY DEF UnderWay

(* An id that arrives in the bus's channel.                                 *)
LEMMA Arrives ==
    ASSUME Shape, NEW e \in Devs, pend' = Append(pend, e), NEW d
    PROVE  Queued(pend, d) \/ e = d => Queued(pend', d)
BY ShapeParts, QueuedAppend

(* A call of the handler: the command is about the only device that changes.*)
LEMMA ToldCall ==
    ASSUME Shape, NEW X \in SUBSET Devs, phase = "running" => \A d \in X : Told(d), todo # <<>>,
           UNCHANGED <<bus, worker, changes, target, reported>>,
           phase' = phase, todo' # <<>>,
           \A d \in Devs : Queued(pend, d) => Queued(pend', d),
           bus = "snapcast" => own'.known = own.known /\ own'.loop = own.loop /\ own'.callback = own.callback,
           \A d \in Devs : d # target => status'[d] = status[d] /\ (bus = "gpio" => hw'[d] = hw[d])
    PROVE  ToldIn(X)'
<1>. SUFFICES ASSUME phase = "running", NEW d \in X PROVE Told(d)'
  BY DEF ToldIn
<1>1. CASE target = d
  BY <1>1 DEF Told
<1>2. CASE target # d
  <2>1. UnderWay(d) => UnderWay(d)'
    BY DEF UnderWay
  <2>. QED BY <1>2, <2>1, ToldSame
<1>. QED BY <1>1, <1>2

(* The calls: each leaves something to do.                                  *)
LEMMA TodoLeft ==
    ASSUME Shape, todo # <<>>, Head(todo).op # "publish",
           NEW calls, calls = <<>> \/ (\E c : calls = <<c>>) \/ (\E c, d : calls = <<c, d>>)
    PROVE  calls \o Tail(todo) # <<>>
<1>1. GoodCalls(todo, bus, target)
  BY ShapeParts DEF TodoInv
<1>2. Tail(todo) # <<>> /\ Tail(todo) \in Seq(Calls)
  BY <1>1, CallOver DEF GoodCalls
<1>3. CASE calls = <<>>
  BY <1>2, <1>3
<1>4. CASE \E c : calls = <<c>>
  <2>1. PICK c : calls = <<c>> BY <1>4
  <2>2. Len(calls \o Tail(todo)) = 1 + Len(Tail(todo)) /\ Len(Tail(todo)) \in Nat
    BY <2>1, <1>2
  <2>. QED BY <2>2
<1>5. CASE \E c, d : calls = <<c, d>>
  <2>1. PICK c, d : calls = <<c, d>> BY <1>5
  <2>2. Len(calls \o Tail(todo)) = 2 + Len(Tail(todo)) /\ Len(Tail(todo)) \in Nat
    BY <2>1, <1>2
  <2>. QED BY <2>2
<1>. QED BY <1>3, <1>4, <1>5

LEMMA ToldOfCall ==
    ASSUME Shape, NEW X \in SUBSET Devs, ToldIn(X), SoftCall \/ GpioCall \/ UnipiCall \/ ModbusCall \/ SnapcastCall
    PROVE  ToldIn(X)'
<1>. USE DEF ToldIn
<1>. DEFINE Left(calls) == calls = <<>> \/ (\E c : calls = <<c>>) \/ (\E c, d : calls = <<c, d>>)
<1>1. ASSUME NEW calls, Left(calls), todo # <<>>, Head(todo).op # "publish", Instead(calls)
      PROVE  todo' # <<>>
  BY <1>1, TodoLeft DEF Instead
<1>2. /\ Left(<<>>)
      /\ \A c : Left(<<c>>)
      /\ \A c, d : Left(<<c, d>>)
  OBVIOUS
<1>. HIDE DEF Left
<1>3. CASE SoftCall
  <2>1. Turn("soft") /\ UNCHANGED <<bus, hw, own, worker, pend, changes, target, reported>>
    BY <1>3 DEF SoftCall, confVars
  <2>2. \/ Instead(<<>>) /\ UNCHANGED <<status, phase>>
        \/ phase' = "panic"
        \/ status' = [status EXCEPT ![target] = Result(@, Head(todo))] /\ Instead(<<>>) /\ UNCHANGED phase
    BY <1>3 DEF SoftCall
  <2>3. CASE phase' = "panic"
    BY <2>3
  <2>4. CASE Instead(<<>>) /\ UNCHANGED phase
    <3>1. \A d \in Devs : d # target => status'[d] = status[d]
      BY <2>1, <2>2, <2>4, TurnFacts, ShapeParts
    <3>2. todo' # <<>>
      BY <1>1, <1>2, <2>1, <2>4, TurnFacts
    <3>. QED BY <2>1, <2>4, <3>1, <3>2, TurnFacts, ToldCall
  <2>. QED BY <2>2, <2>3, <2>4
<1>4. CASE GpioCall
  <2>1. /\ Turn("gpio") /\ Instead(<<>>)
        /\ UNCHANGED <<bus, status, worker, pend, changes, phase, target, reported>>
        /\ \E level : hw' = [hw EXCEPT ![target] = level]
    BY <1>4 DEF GpioCall, confVars
  <2>2. \A d \in Devs : d # target => hw'[d] = hw[d]
    BY <2>1, ShapeParts
  <2>3. todo' # <<>>
    BY <1>1, <1>2, <2>1, TurnFacts
  <2>. QED BY <2>1, <2>2, <2>3, TurnFacts, ToldCall
<1>5. CASE UnipiCall
  <2>1. /\ Turn("unipi") /\ Instead(<<>>)
        /\ UNCHANGED <<bus, worker, pend, changes, phase, target, reported>>
        /\ \E v : status' = [status EXCEPT ![target] = v]
    BY <1>5 DEF UnipiCall, confVars
  <2>2. \A d \in Devs : d # target => status'[d] = status[d]
    BY <2>1, ShapeParts
  <2>3. todo' # <<>>
    BY <1>1, <1>2, <2>1, TurnFacts
  <2>. QED BY <2>1, <2>2, <2>3, TurnFacts, ToldCall
<1>6. CASE ModbusCall
  <2>. DEFINE v == Result(status[target], Head(todo))
  <2>1. /\ Turn("modbus") /\ UNCHANGED <<bus, hw, own, worker, pend, changes, phase, target, reported>>
        /\ \/ Instead(<<>>) /\ UNCHANGED status
           \/ Instead(<<Call("send", v), Call("assign", v)>>) /\ UNCHANGED status
           \/ status' = [status EXCEPT ![target] = v] /\ Instead(<<Call("send", v)>>)
    BY <1>6, ModbusCallKinds
  <2>2. \A d \in Devs : d # target => status'[d] = status[d]
    BY <2>1, ShapeParts
  <2>3. todo' # <<>>
    BY <1>1, <1>2, <2>1, TurnFacts
  <2>. QED BY <2>1, <2>2, <2>3, TurnFacts, ToldCall
<1>7. CASE SnapcastCall
  <2>1. /\ Turn("snapcast") /\ UNCHANGED <<bus, hw, own, worker, pend, changes, phase, target, reported>>
        /\ \/ Instead(<<>>) /\ UNCHANGED status
           \/ /\ \E v : status' = [status EXCEPT ![target] = v]
              /\ Instead(<<Call("request", 0), Call("notify", 0)>>)
    BY <1>7 DEF SnapcastCall, confVars
  <2>2. \A d \in Devs : d # target => status'[d] = status[d]
    BY <2>1, ShapeParts
  <2>3. todo' # <<>>
    BY <1>1, <1>2, <2>1, TurnFacts
  <2>. QED BY <2>1, <2>2, <2>3, TurnFacts, ToldCall
<1>. QED BY <1>3, <1>4, <1>5, <1>6, <1>7

(* The halves of a call. *)
LEMMA ToldOfHalf ==
    ASSUME Shape, NEW X \in SUBSET Devs, ToldIn(X),
           \/ ModbusSends \/ ModbusAssigns \/ SnapcastNotifies
           \/ \E ok, left \in BOOLEAN : SnapcastRequests(ok, left)
    PROVE  ToldIn(X)'
<1>. USE DEF ToldIn
<1>1. ASSUME NEW op \in {"send", "assign", "request", "notify"}, At(op), Instead(<<>>)
      PROVE  todo # <<>> /\ todo' # <<>>
  BY <1>1, AtFacts, TodoLeft DEF Instead
<1>2. CASE ModbusSends
  <2>1. /\ bus = "modbus" /\ At("send") /\ Instead(<<>>)
        /\ UNCHANGED <<bus, status, hw, worker, pend, changes, phase, target, reported>>
    BY <1>2 DEF ModbusSends, confVars
  <2>2. todo # <<>> /\ todo' # <<>>
    BY <1>1, <2>1
  <2>. QED BY <2>1, <2>2, ToldCall
<1>3. CASE ModbusAssigns
  <2>1. /\ bus = "modbus" /\ At("assign") /\ Instead(<<>>)
        /\ status' = [status EXCEPT ![target] = Head(todo).arg]
        /\ UNCHANGED <<bus, hw, own, worker, pend, changes, phase, target, reported>>
    BY <1>3 DEF ModbusAssigns, confVars
  <2>2. \A d \in Devs : d # target => status'[d] = status[d]
    BY <2>1, ShapeParts
  <2>3. todo # <<>> /\ todo' # <<>>
    BY <1>1, <2>1
  <2>. QED BY <2>1, <2>2, <2>3, ToldCall
<1>4. CASE SnapcastNotifies
  <2>1. /\ bus = "snapcast" /\ At("notify") /\ Instead(<<>>) /\ pend' = Append(pend, target)
        /\ UNCHANGED <<bus, status, hw, own, worker, changes, phase, target, reported>>
    BY <1>4 DEF SnapcastNotifies, Works, confVars
  <2>2. todo # <<>> /\ todo' # <<>>
    BY <1>1, <2>1
  <2>3. \A d \in Devs : Queued(pend, d) => Queued(pend', d)
    BY <2>1, ShapeParts, Arrives
  <2>. QED BY <2>1, <2>2, <2>3, ToldCall
<1>5. ASSUME NEW ok \in BOOLEAN, NEW left \in BOOLEAN, SnapcastRequests(ok, left)
      PROVE  ToldIn(X)'
  <2>1. /\ bus = "snapcast" /\ At("request") /\ Instead(<<>>) /\ own' = AfterRequest(ok, left)
        /\ UNCHANGED <<bus, status, worker, pend, changes, phase, target, reported>>
    BY <1>5 DEF SnapcastRequests, Works, confVars
  <2>2. own'.known = own.known /\ own'.loop = own.loop /\ own'.callback = own.callback
    BY <2>1, AtFacts, SnapcastOwnFacts, AfterRequestTyped
  <2>3. todo # <<>> /\ todo' # <<>>
    BY <1>1, <2>1
  <2>. QED BY <2>1, <2>2, <2>3, ToldCall
<1>. QED BY <1>2, <1>3, <1>4, <1>5

(* Nothing that is shown or told changes.                                   *)
LEMMA ToldFrame ==
    ASSUME Shape, NEW X \in SUBSET Devs, ToldIn(X), UNCHANGED <<bus, reported, phase>>,
           todo = <<>> \/ UNCHANGED <<todo, target>>,
           bus = "snapcast" => own'.known = own.known,
           bus = "gpio" => \A d \in Devs : hw'[d] = hw[d],
           bus # "gpio" => \A d \in Devs : status'[d] = status[d],
           phase # "setup" => \A d \in Devs : UnderWay(d) => UnderWay(d)'
    PROVE  ToldIn(X)'
<1>. SUFFICES ASSUME phase = "running", NEW d \in X PROVE Told(d)'
  BY DEF ToldIn
<1>1. Told(d)
  BY DEF ToldIn
<1>. QED BY <1>1, ToldSame

LEMMA ToldStutters ==
    ASSUME Shape, NEW X \in SUBSET Devs, ToldIn(X), UNCHANGED vars
    PROVE  ToldIn(X)'
<1>1. UNCHANGED <<bus, status, hw, own, worker, pend, changes, phase, todo, target, reported>>
  BY DEF vars, confVars, handlerVars
<1>2. \A d \in Devs : UnderWay(d) => UnderWay(d)'
  BY <1>1, UnderWaySame
<1>. QED BY <1>1, <1>2, ToldFrame

(* The handler tells what the device shows.                                 *)
LEMMA ToldBySetStatus ==
    ASSUME Shape, NEW X \in SUBSET Devs, ToldIn(X), NEW e \in Devs, SetStatus(e),
           UNCHANGED <<bus, status, hw, own, phase>>,
           \A d \in Devs \ {e} : UnderWay(d) => UnderWay(d)',
           todo = <<>> \/ target = e
    PROVE  ToldIn(X)'
<1>. SUFFICES ASSUME phase = "running", NEW d \in X PROVE Told(d)'
  BY DEF ToldIn
<1>1. Known(d)' = Known(d) /\ Shown(d)' = Shown(d)
  BY DEF Known, SnapcastKnows, Shown, SoftShown, GpioShown, Pin
<1>2. reported' = IF Known(e) THEN [reported EXCEPT ![e] = Shown(e)] ELSE reported
  BY DEF SetStatus
<1>3. CASE d = e
  BY <1>1, <1>2, <1>3, ShapeParts DEF Told
<1>4. CASE d # e
  <2>1. reported'[d] = reported[d]
    BY <1>2, <1>4, ShapeParts
  <2>. QED BY <1>1, <1>4, <2>1 DEF Told, ToldIn
<1>. QED BY <1>3, <1>4

LEMMA ToldOfHandler ==
    ASSUME Shape, NEW X \in SUBSET Devs, ToldIn(X),
           \/ Initialize \/ Describe \/ CommandEnds \/ HandleChange \/ Forward
           \/ Teardown \/ TeardownEnds \/ W1Panics
           \/ \E d \in Devs, action \in {"SET", "RESET", "PUSH", "TOGGLE", "GET"} : DigitalCommand(d, action)
           \/ \E d \in Devs, op \in {"set", "add"}, v \in Int : AnalogCommand(d, op, v)
    PROVE  ToldIn(X)'
<1>1. CASE Initialize \/ Teardown \/ TeardownEnds \/ W1Panics
  <2>1. phase' # "running"
    BY <1>1 DEF Initialize, Teardown, TeardownEnds, W1Panics
  <2>. QED BY <2>1 DEF ToldIn
<1>2. CASE Describe
  <2>. SUFFICES ASSUME NEW d \in X PROVE Told(d)'
    BY DEF ToldIn
  <2>1. /\ UNCHANGED <<bus, status, hw, own>> /\ phase = "describe" /\ phase' = "running"
        /\ reported' = [e \in Devs |-> IF Known(e) THEN Shown(e) ELSE Unset]
    BY <1>2 DEF Describe, confVars
  <2>2. Known(d)' = Known(d) /\ Shown(d)' = Shown(d)
    BY <2>1 DEF Known, SnapcastKnows, Shown, SoftShown, GpioShown, Pin
  <2>. QED BY <2>1, <2>2 DEF Told
<1>3. CASE CommandEnds
  <2>1. /\ SetStatus(target) /\ UNCHANGED <<bus, status, hw, own, worker, pend, changes, phase, target>>
    BY <1>3 DEF CommandEnds, confVars
  <2>2. \A d \in Devs : UnderWay(d)' = UnderWay(d)
    BY <2>1, UnderWaySame
  <2>. QED BY <2>1, <2>2, ShapeParts, ToldBySetStatus
<1>4. CASE HandleChange
  <2>1. /\ todo = <<>> /\ changes # <<>> /\ SetStatus(Head(changes)) /\ changes' = Tail(changes)
        /\ UNCHANGED <<bus, status, hw, own, worker, pend, phase, todo, target>>
    BY <1>4 DEF HandleChange, Loop, confVars
  <2>2. Head(changes) \in Devs
    BY <2>1, ShapeParts, Rest
  <2>3. \A d : Queued(changes, d) => Head(changes) = d \/ Queued(changes', d)
    BY <2>1, ShapeParts, QueuedTail
  <2>4. \A d \in Devs \ {Head(changes)} : UnderWay(d) => UnderWay(d)'
    BY <2>1, <2>3 DEF UnderWay
  <2>. QED BY <2>1, <2>2, <2>4, ToldBySetStatus
<1>5. CASE Forward
  <2>1. /\ pend # <<>> /\ changes' = Append(changes, Head(pend)) /\ pend' = Tail(pend)
        /\ UNCHANGED <<bus, status, hw, own, worker, phase, todo, target, reported>>
    BY <1>5 DEF Forward, confVars, handlerVars
  <2>2. Head(pend) \in Devs
    BY <2>1, ShapeParts, Rest
  <2>3. \A d : Queued(changes, d) \/ d = Head(pend) => Queued(changes', d)
    BY <2>1, <2>2, ShapeParts, QueuedAppend
  <2>4. \A d : Queued(pend, d) => Head(pend) = d \/ Queued(pend', d)
    BY <2>1, ShapeParts, QueuedTail
  <2>5. \A d \in Devs : UnderWay(d) => UnderWay(d)'
    BY <2>1, <2>3, <2>4 DEF UnderWay
  <2>. QED BY <2>1, <2>5, ToldFrame
<1>6. CASE \/ \E d \in Devs, action \in {"SET", "RESET", "PUSH", "TOGGLE", "GET"} : DigitalCommand(d, action)
           \/ \E d \in Devs, op \in {"set", "add"}, v \in Int : AnalogCommand(d, op, v)
  <2>1. todo = <<>> /\ UNCHANGED <<bus, status, hw, own, worker, pend, changes, phase, reported>>
    BY <1>6 DEF DigitalCommand, AnalogCommand, Loop, confVars
  <2>2. \A d \in Devs : UnderWay(d) => UnderWay(d)'
    BY <2>1, UnderWaySame
  <2>. QED BY <2>1, <2>2, ToldFrame
<1>. QED BY <1>1, <1>2, <1>3, <1>4, <1>5, <1>6

(* The goroutine of a bus: what it changed is announced, by its own value   *)
(* before, which nobody else has changed.                                   *)
LEMMA ToldOfWorker ==
    ASSUME Shape, NEW X \in SUBSET Devs, ToldIn(X), \A d \in X : ~PollUndoesCommand(d), phase # "setup",
           \/ bus \in {"unipi", "w1", "modbus"} /\ \E d \in Inputs \cup Sensors : BeginRead(d)
           \/ bus \in {"unipi", "w1", "modbus"} /\ (ReadsValue \/ ReadsNothing)
           \/ Announce
    PROVE  ToldIn(X)'
<1>1. CASE \E d \in Inputs \cup Sensors : BeginRead(d)
  <2>1. /\ worker.pc = "idle"
        /\ UNCHANGED <<bus, status, hw, own, pend, changes, phase, todo, target, reported>>
    BY <1>1 DEF BeginRead, confVars, handlerVars
  <2>2. \A d \in Devs : UnderWay(d) => UnderWay(d)'
    BY <2>1 DEF UnderWay
  <2>. QED BY <2>1, <2>2, ToldFrame
<1>2. ASSUME bus \in {"unipi", "w1", "modbus"}, ReadsValue \/ ReadsNothing PROVE ToldIn(X)'
  <2>. DEFINE e == worker.dev
              now == hw[worker.dev]
  <2>1. /\ worker.pc = "read" /\ worker'.dev = e
        /\ \/ /\ status' = [status EXCEPT ![e] = now]
              /\ worker'.pc = IF now # worker.val THEN "send" ELSE "idle"
           \/ status' = status
        /\ UNCHANGED <<bus, hw, own, pend, changes, phase, todo, target, reported>>
    BY <1>2, ReadsFacts
  <2>2. e \in Inputs \cup Sensors /\ (bus # "unipi" => worker.val = status[e])
    BY <2>1, ShapeParts DEF WorkerInv
  <2>. SUFFICES ASSUME phase = "running", NEW d \in X PROVE Told(d)'
    BY <2>1 DEF ToldIn
  <2>3. CASE status'[d] = status[d]
    <3>1. UnderWay(d) => UnderWay(d)'
      BY <2>1 DEF UnderWay
    <3>. QED BY <1>2, <2>1, <2>3, <3>1, ToldSame DEF ToldIn
  <2>4. CASE status'[d] # status[d]
    <3>1. d = e /\ status'[d] = now /\ now # status[d]
      BY <2>1, <2>4, ShapeParts
    <3>2. Known(d) => d \notin Sensors \/ bus # "unipi"
      BY KnownOnBus, DevicesDiffer DEF DevicesOn
    <3>3. Known(d) => now # worker.val
      BY <2>1, <2>2, <3>1, <3>2 DEF PollUndoesCommand
    <3>4. Known(d) => UnderWay(d)'
      BY <2>1, <2>4, <3>1, <3>3 DEF UnderWay
    <3>5. Known(d)' = Known(d)
      BY <1>2, <2>1 DEF Known
    <3>. QED BY <3>4, <3>5 DEF Told
  <2>. QED BY <2>3, <2>4
<1>3. CASE Announce
  <2>1. /\ worker.pc = "send" /\ worker.dev \in Devs /\ pend' = Append(pend, worker.dev)
        /\ UNCHANGED <<bus, status, hw, own, changes, phase, todo, target, reported>>
    BY <1>3, AnnounceFacts
  <2>2. \A d : Queued(pend, d) \/ worker.dev = d => Queued(pend', d)
    BY <2>1, Arrives
  <2>3. \A d \in Devs : UnderWay(d) => UnderWay(d)'
    BY <2>1, <2>2 DEF UnderWay
  <2>. QED BY <2>1, <2>3, ToldFrame
<1>. QED BY <1>1, <1>2, <1>3

LEMMA ToldOfBus ==
    ASSUME Shape, NEW X \in SUBSET Devs, ToldIn(X),
           \/ \E ok, reached \in BOOLEAN : ModbusWrites(ok, reached)
           \/ ModbusTakes \/ GpioAnnounces
           \/ \E i \in Nat : FadeStarts(i)
           \/ \E d \in Levels : FadeWrites(d)
           \/ \E d \in (Inputs \cup Sensors) \cap DevicesOn(bus), v \in Int : HardwareChanges(d, v)
    PROVE  ToldIn(X)'
<1>1. ASSUME NEW ok \in BOOLEAN, NEW reached \in BOOLEAN, ModbusWrites(ok, reached) PROVE ToldIn(X)'
  <2>1. /\ bus = "modbus" /\ worker.pc = "write"
        /\ UNCHANGED <<bus, status, pend, changes, phase, todo, target, reported>>
    BY <1>1, ModbusWritesFacts
  <2>2. \A d \in Devs : UnderWay(d) => UnderWay(d)'
    BY <2>1 DEF UnderWay
  <2>. QED BY <2>1, <2>2, ToldFrame
<1>2. CASE ModbusTakes
  <2>1. /\ bus = "modbus" /\ worker.pc = "idle"
        /\ UNCHANGED <<bus, status, hw, pend, changes, phase, todo, target, reported>>
    BY <1>2 DEF ModbusTakes, HasWorker, Works, confVars, handlerVars
  <2>2. \A d \in Devs : UnderWay(d) => UnderWay(d)'
    BY <2>1 DEF UnderWay
  <2>. QED BY <2>1, <2>2, ToldFrame
<1>3. CASE GpioAnnounces
  <2>1. /\ bus = "gpio" /\ pend' = Append(pend, Head(own.edges)) /\ Head(own.edges) \in Devs
        /\ UNCHANGED <<bus, status, hw, worker, changes, phase, todo, target, reported>>
    BY <1>3, GpioAnnouncesFacts
  <2>2. \A d : Queued(pend, d) => Queued(pend', d)
    BY <2>1, Arrives
  <2>3. \A d \in Devs : UnderWay(d) => UnderWay(d)'
    BY <2>1, <2>2 DEF UnderWay
  <2>. QED BY <2>1, <2>3, ToldFrame
<1>4. CASE (\E i \in Nat : FadeStarts(i)) \/ \E d \in Levels : FadeWrites(d)
  <2>1. /\ bus = "unipi"
        /\ UNCHANGED <<bus, status, worker, pend, changes, phase, todo, target, reported>>
    BY <1>4, FadeStartsFacts, FadeWritesFacts
  <2>2. \A d \in Devs : UnderWay(d) => UnderWay(d)'
    BY <2>1 DEF UnderWay
  <2>. QED BY <2>1, <2>2, ToldFrame
<1>5. ASSUME NEW d \in (Inputs \cup Sensors) \cap DevicesOn(bus), NEW v \in Int, HardwareChanges(d, v)
      PROVE  ToldIn(X)'
  <2>1. UNCHANGED <<bus, status, own, worker, pend, changes, phase, todo, target, reported>>
    BY <1>5 DEF HardwareChanges, confVars, handlerVars
  <2>2. bus # "gpio"
    BY DevicesDiffer DEF DevicesOn
  <2>3. \A e \in Devs : UnderWay(e) => UnderWay(e)'
    BY <2>1, UnderWaySame
  <2>. QED BY <2>1, <2>2, <2>3, ToldFrame
<1>. QED BY <1>1, <1>2, <1>3, <1>4, <1>5

(* The loop and the callback of snapcast announce both devices of a client  *)
(* whose volume they stored.                                                *)
LEMMA ToldOfClient ==
    ASSUME Shape, NEW X \in SUBSET Devs, ToldIn(X),
           \/ \E ok, left \in BOOLEAN : SnapcastPolls(ok, left)
           \/ LoopAnnounces \/ Notification \/ CallbackAnnounces
           \/ \E d \in Devs, v \in Int : ServerChanges(d, v)
    PROVE  ToldIn(X)'
<1>1. ASSUME NEW ok \in BOOLEAN, NEW left \in BOOLEAN, SnapcastPolls(ok, left) PROVE ToldIn(X)'
  <2>. DEFINE new == ok /\ ~own.known
  <2>1. /\ bus = "snapcast" /\ phase # "setup"
        /\ own.loop = <<>> /\ own'.callback = own.callback
        /\ IF new THEN own'.known /\ own'.loop = <<Mute, Volume>>
                  ELSE own'.known = own.known /\ own'.loop = own.loop
        /\ status' = IF new THEN WithVolume(status, hw) ELSE status
        /\ UNCHANGED <<bus, hw, worker, pend, changes, phase, todo, target, reported>>
    BY <1>1, SnapcastPollsFacts
  <2>2. CASE new
    <3>. SUFFICES ASSUME phase = "running", NEW d \in X PROVE Told(d)'
      BY <2>1 DEF ToldIn
    <3>1. CASE d \in {Mute, Volume}
      <4>1. Queued(own'.loop, d)
        BY <2>1, <2>2, <3>1, QueuedPair
      <4>2. UnderWay(d)'
        BY <2>1, <4>1 DEF UnderWay
      <4>. QED BY <4>2 DEF Told
    <3>2. CASE d \notin {Mute, Volume}
      <4>1. ~Known(d)'
        BY <2>1, <3>2 DEF Known, SnapcastKnows, ClientDevices
      <4>. QED BY <4>1 DEF Told
    <3>. QED BY <3>1, <3>2
  <2>3. CASE ~new
    <3>1. \A d \in Devs : UnderWay(d) => UnderWay(d)'
      BY <2>1, <2>3 DEF UnderWay
    <3>. QED BY <2>1, <2>3, <3>1, ToldFrame
  <2>. QED BY <2>2, <2>3
<1>2. CASE LoopAnnounces
  <2>1. /\ bus = "snapcast" /\ phase # "setup" /\ own.loop # <<>> /\ own.loop \in Seq(Devs)
        /\ Head(own.loop) \in Devs /\ pend' = Append(pend, Head(own.loop))
        /\ own'.known = own.known /\ own'.callback = own.callback /\ own'.loop = Tail(own.loop)
        /\ UNCHANGED <<bus, status, hw, worker, changes, phase, todo, target, reported>>
    BY <1>2, LoopAnnouncesFacts
  <2>2. \A d : Queued(pend, d) \/ Head(own.loop) = d => Queued(pend', d)
    BY <2>1, Arrives
  <2>3. \A d : Queued(own.loop, d) => Head(own.loop) = d \/ Queued(own'.loop, d)
    BY <2>1, QueuedTail
  <2>4. \A d \in Devs : UnderWay(d) => UnderWay(d)'
    BY <2>1, <2>2, <2>3 DEF UnderWay
  <2>. QED BY <2>1, <2>4, ToldFrame
<1>3. CASE CallbackAnnounces
  <2>1. /\ bus = "snapcast" /\ phase # "setup" /\ own.callback # <<>> /\ own.callback \in Seq(Devs)
        /\ Head(own.callback) \in Devs /\ pend' = Append(pend, Head(own.callback))
        /\ own'.known = own.known /\ own'.loop = own.loop /\ own'.callback = Tail(own.callback)
        /\ UNCHANGED <<bus, status, hw, worker, changes, phase, todo, target, reported>>
    BY <1>3, CallbackAnnouncesFacts
  <2>2. \A d : Queued(pend, d) \/ Head(own.callback) = d => Queued(pend', d)
    BY <2>1, Arrives
  <2>3. \A d : Queued(own.callback, d) => Head(own.callback) = d \/ Queued(own'.callback, d)
    BY <2>1, QueuedTail
  <2>4. \A d \in Devs : UnderWay(d) => UnderWay(d)'
    BY <2>1, <2>2, <2>3 DEF UnderWay
  <2>. QED BY <2>1, <2>4, ToldFrame
<1>4. CASE Notification
  <2>1. /\ bus = "snapcast" /\ phase # "setup" /\ own'.callback = <<Mute, Volume>>
        /\ UNCHANGED <<bus, phase>>
    BY <1>4, NotificationFacts
  <2>. SUFFICES ASSUME NEW d \in X PROVE Told(d)'
    BY DEF ToldIn
  <2>2. CASE d \in {Mute, Volume}
    <3>1. Queued(own'.callback, d)
      BY <2>1, <2>2, QueuedPair
    <3>2. UnderWay(d)'
      BY <2>1, <3>1 DEF UnderWay
    <3>. QED BY <3>2 DEF Told
  <2>3. CASE d \notin {Mute, Volume}
    <3>1. ~Known(d)'
      BY <2>1, <2>3 DEF Known, SnapcastKnows, ClientDevices
    <3>. QED BY <3>1 DEF Told
  <2>. QED BY <2>2, <2>3
<1>5. ASSUME NEW d \in Devs, NEW v \in Int, ServerChanges(d, v) PROVE ToldIn(X)'
  <2>1. /\ bus = "snapcast" /\ own'.known = own.known /\ own'.loop = own.loop
        /\ own'.callback = own.callback
        /\ UNCHANGED <<bus, status, worker, pend, changes, phase, todo, target, reported>>
    BY <1>5, ServerChangesFacts
  <2>2. \A e \in Devs : UnderWay(e) => UnderWay(e)'
    BY <2>1, UnderWaySame
  <2>. QED BY <2>1, <2>2, ToldFrame
<1>. QED BY <1>1, <1>2, <1>3, <1>4, <1>5

LEMMA ToldNext ==
    ASSUME Shape, NEW X \in SUBSET Devs, ToldIn(X), \A d \in X : ~PollUndoesCommand(d), [Next]_vars
    PROVE  ToldIn(X)'
<1>. SUFFICES ASSUME Next PROVE ToldIn(X)'
  BY ToldStutters
<1>1. CASE \/ Initialize \/ Describe \/ CommandEnds \/ HandleChange \/ Forward
           \/ Teardown \/ TeardownEnds \/ W1Panics
           \/ \E d \in Devs, action \in {"SET", "RESET", "PUSH", "TOGGLE", "GET"} : DigitalCommand(d, action)
           \/ \E d \in Devs, op \in {"set", "add"}, v \in Int : AnalogCommand(d, op, v)
  BY <1>1, ToldOfHandler
<1>2. CASE SoftCall \/ GpioCall \/ UnipiCall \/ ModbusCall \/ SnapcastCall
  BY <1>2, ToldOfCall
<1>3. CASE \/ ModbusSends \/ ModbusAssigns \/ SnapcastNotifies
           \/ \E ok, left \in BOOLEAN : SnapcastRequests(ok, left)
  BY <1>3, ToldOfHalf
<1>4. CASE \/ phase # "setup" /\ bus \in {"unipi", "w1", "modbus"} /\ \E d \in Inputs \cup Sensors : BeginRead(d)
           \/ phase # "setup" /\ bus \in {"unipi", "w1", "modbus"} /\ (ReadsValue \/ ReadsNothing)
           \/ phase # "setup" /\ Announce
  BY <1>4, ToldOfWorker
<1>5. CASE \/ \E ok, reached \in BOOLEAN : ModbusWrites(ok, reached)
           \/ ModbusTakes \/ GpioAnnounces
           \/ \E i \in Nat : FadeStarts(i)
           \/ \E d \in Levels : FadeWrites(d)
           \/ \E d \in (Inputs \cup Sensors) \cap DevicesOn(bus), v \in Int : HardwareChanges(d, v)
  BY <1>5, ToldOfBus
<1>6. CASE \/ \E ok, left \in BOOLEAN : SnapcastPolls(ok, left)
           \/ LoopAnnounces \/ Notification \/ CallbackAnnounces
           \/ \E d \in Devs, v \in Int : ServerChanges(d, v)
  BY <1>6, ToldOfClient
<1>. QED BY <1>1, <1>2, <1>3, <1>4, <1>5, <1>6, Steps

(* What each variable can hold: ids of devices in every queue, actions of   *)
(* modbus for outputs only, one at a time, polls of inputs and sensors, and *)
(* commands that the device has, with their publication at the end - for    *)
(* any devices, bounds and capacities.                                      *)
THEOREM TypeCorrect == Spec => []Shape
  BY ShapeInit, ShapeNext, PTL DEF Spec

(* Whatever goroutine changes a device, its value in the io status is the   *)
(* one it shows, or its id is on the way to the handler, or a command about *)
(* it is being executed (io.go:69-84); only the poll of a Unipi's input     *)
(* that undoes a command ends that (unipibus.go:219-225) - for any devices  *)
(* on any bus, commands and capacities.                                     *)
THEOREM NothingForgotten == Spec => ReportedIsCurrent
<1>1. Shape /\ [Next]_vars =>
         [\A d \in Devs : LeftBehind(d)' => LeftBehind(d) \/ PollUndoesCommand(d)]_vars
  <2>. SUFFICES ASSUME Shape, [Next]_vars, NEW d \in Devs, ~LeftBehind(d), ~PollUndoesCommand(d)
                PROVE  ~LeftBehind(d)'
    OBVIOUS
  <2>1. ToldIn({d})
    BY ToldMeans
  <2>2. ToldIn({d})'
    BY <2>1, ToldNext
  <2>. QED BY <2>2 DEF ToldIn, Told, LeftBehind
<1>2. Spec => []Shape
  BY TypeCorrect
<1>. QED BY <1>1, <1>2, PTL DEF Spec, ReportedIsCurrent

-------------------------------------------------------------------------------
(* The outputs of modbus follow their statuses.                             *)

LEMMA SetupOver == Next => phase' # "setup"
<1>. SUFFICES ASSUME Next PROVE phase' # "setup"
  OBVIOUS
<1>. USE DEF Works, HasWorker, confVars, handlerVars
<1>1. CASE \/ Initialize \/ Describe \/ HandleChange \/ Forward \/ Teardown \/ TeardownEnds \/ W1Panics \/ CommandEnds
           \/ \E d \in Devs, action \in {"SET", "RESET", "PUSH", "TOGGLE", "GET"} : DigitalCommand(d, action)
           \/ \E d \in Devs, op \in {"set", "add"}, v \in Int : AnalogCommand(d, op, v)
  BY <1>1 DEF Initialize, Describe, HandleChange, Forward, Teardown, TeardownEnds, W1Panics, CommandEnds, At, Loop,
              DigitalCommand, AnalogCommand
<1>2. CASE SoftCall \/ GpioCall \/ UnipiCall \/ ModbusCall \/ SnapcastCall
  BY <1>2 DEF SoftCall, GpioCall, UnipiCall, ModbusCall, SnapcastCall, Turn
<1>3. CASE \/ ModbusSends \/ ModbusAssigns \/ SnapcastNotifies
           \/ \E ok, left \in BOOLEAN : SnapcastRequests(ok, left)
  BY <1>3 DEF ModbusSends, ModbusAssigns, SnapcastNotifies, SnapcastRequests, At
<1>4. CASE \/ phase # "setup" /\ bus \in {"unipi", "w1", "modbus"} /\ \E d \in Inputs \cup Sensors : BeginRead(d)
           \/ phase # "setup" /\ bus \in {"unipi", "w1", "modbus"} /\ (ReadsValue \/ ReadsNothing)
           \/ phase # "setup" /\ Announce
  BY <1>4 DEF BeginRead, ReadsValue, ReadsNothing, Announce
<1>5. CASE \/ \E ok, reached \in BOOLEAN : ModbusWrites(ok, reached)
           \/ ModbusTakes \/ GpioAnnounces
           \/ \E i \in Nat : FadeStarts(i)
           \/ \E d \in Levels : FadeWrites(d)
           \/ \E d \in (Inputs \cup Sensors) \cap DevicesOn(bus), v \in Int : HardwareChanges(d, v)
  BY <1>5 DEF ModbusWrites, ModbusTakes, GpioAnnounces, FadeStarts, FadeWrites, HardwareChanges
<1>6. CASE \/ \E ok, left \in BOOLEAN : SnapcastPolls(ok, left)
           \/ LoopAnnounces \/ Notification \/ CallbackAnnounces
           \/ \E d \in Devs, v \in Int : ServerChanges(d, v)
  BY <1>6 DEF SnapcastPolls, LoopAnnounces, Notification, CallbackAnnounces, ServerChanges
<1>. QED BY <1>1, <1>2, <1>3, <1>4, <1>5, <1>6, Steps

(* What is left of a command, call by call.                                 *)
LEMMA LeftAlone ==
    ASSUME Shape, todo # <<>>, Instead(<<>>)
    PROVE  \A i \in DOMAIN todo' : i \in Nat \ {0} /\ i + 1 \in DOMAIN todo /\ todo'[i] = todo[i + 1]
<1>1. todo \in Seq(Calls)
  BY ShapeParts DEF TodoInv, GoodCalls
<1>2. /\ Len(todo) \in Nat \ {0} /\ Tail(todo) \in Seq(Calls) /\ Len(Tail(todo)) = Len(todo) - 1
      /\ \A i \in 1..Len(todo) - 1 : Tail(todo)[i] = todo[i + 1]
  BY <1>1, Rest
<1>3. todo' = Tail(todo)
  BY <1>2 DEF Instead
<1>4. DOMAIN todo = 1..Len(todo) /\ DOMAIN todo' = 1..Len(todo) - 1
  <2>1. DOMAIN Tail(todo) = 1..Len(Tail(todo))
    BY <1>2
  <2>. QED BY <2>1, <1>1, <1>2, <1>3
<1>. QED BY <1>2, <1>3, <1>4

LEMMA LeftWithOne ==
    ASSUME Shape, todo # <<>>, NEW c \in Calls, Instead(<<c>>)
    PROVE  /\ todo' # <<>> /\ todo'[1] = c /\ Head(todo') = c
           /\ \A i \in DOMAIN todo' : i = 1 \/ (i \in Nat \ {0, 1} /\ i \in DOMAIN todo /\ todo'[i] = todo[i])
<1>. DEFINE n == Len(todo)
<1>1. todo \in Seq(Calls)
  BY ShapeParts DEF TodoInv, GoodCalls
<1>2. /\ n \in Nat \ {0} /\ Tail(todo) \in Seq(Calls) /\ Len(Tail(todo)) = n - 1
      /\ \A i \in 1..n - 1 : Tail(todo)[i] = todo[i + 1]
  BY <1>1, Rest
<1>3. /\ todo' \in Seq(Calls) /\ Len(todo') = n /\ DOMAIN todo' = 1..n /\ DOMAIN todo = 1..n
      /\ todo'[1] = c /\ \A i \in 2..n : todo'[i] = Tail(todo)[i - 1]
  <2>1. todo' = <<c>> \o Tail(todo)
    BY DEF Instead
  <2>. QED BY <1>1, <1>2, <2>1
<1>4. \A i \in 2..n : i - 1 \in 1..n - 1 /\ (i - 1) + 1 = i
  BY <1>2
<1>5. \A i \in 1..n : i = 1 \/ i \in 2..n
  BY <1>2
<1>6. \A i \in DOMAIN todo' : i = 1 \/ (i \in Nat \ {0, 1} /\ i \in DOMAIN todo /\ todo'[i] = todo[i])
  BY <1>2, <1>3, <1>4, <1>5
<1>7. todo' # <<>>
  BY <1>2, <1>3
<1>8. Head(todo') = todo'[1]
  BY <1>3, <1>7, Rest
<1>. QED BY <1>3, <1>6, <1>7, <1>8

LEMMA LeftWithTwo ==
    ASSUME Shape, todo # <<>>, NEW c \in Calls, NEW d \in Calls, Instead(<<c, d>>)
    PROVE  /\ todo' # <<>> /\ todo'[1] = c /\ Head(todo') = c /\ todo'[2] = d /\ Len(todo') > 1
           /\ \A i \in DOMAIN todo' : \/ i = 1 \/ i = 2
                                      \/ i - 1 \in DOMAIN todo /\ i - 1 \in Nat \ {0, 1} /\ todo'[i] = todo[i - 1]
<1>. DEFINE n == Len(todo)
<1>1. todo \in Seq(Calls)
  BY ShapeParts DEF TodoInv, GoodCalls
<1>2. /\ n \in Nat \ {0} /\ Tail(todo) \in Seq(Calls) /\ Len(Tail(todo)) = n - 1
      /\ \A i \in 1..n - 1 : Tail(todo)[i] = todo[i + 1]
  BY <1>1, Rest
<1>3. /\ todo' \in Seq(Calls) /\ Len(todo') = n + 1 /\ DOMAIN todo' = 1..n + 1 /\ DOMAIN todo = 1..n
      /\ todo'[1] = c /\ todo'[2] = d /\ \A i \in 3..n + 1 : todo'[i] = Tail(todo)[i - 2]
  <2>1. todo' = <<c, d>> \o Tail(todo)
    BY DEF Instead
  <2>. QED BY <1>1, <1>2, <2>1
<1>4. \A i \in 3..n + 1 : i - 2 \in 1..n - 1 /\ (i - 2) + 1 = i - 1 /\ i - 1 \in 1..n /\ i - 1 \in Nat \ {0, 1}
  BY <1>2
<1>5. \A i \in 1..n + 1 : i = 1 \/ i = 2 \/ i \in 3..n + 1
  BY <1>2
<1>6. \A i \in DOMAIN todo' : \/ i = 1 \/ i = 2
                              \/ i - 1 \in DOMAIN todo /\ i - 1 \in Nat \ {0, 1} /\ todo'[i] = todo[i - 1]
  BY <1>2, <1>3, <1>4, <1>5
<1>7. todo' # <<>> /\ Len(todo') > 1
  BY <1>2, <1>3
<1>8. Head(todo') = todo'[1]
  BY <1>3, <1>7, Rest
<1>. QED BY <1>3, <1>6, <1>7, <1>8

(* The first call of a list, and of a list that has none.                   *)
LEMMA Halves ==
    ASSUME Shape
    PROVE  /\ todo # <<>> => Head(todo) = todo[1] /\ 1 \in DOMAIN todo /\ Head(todo) \in Calls
           /\ \A op \in {"send", "assign"} : Half(op) => bus = "modbus" /\ target \in Outputs
<1>1. GoodCalls(todo, bus, target)
  BY ShapeParts DEF TodoInv
<1>2. todo # <<>> => Head(todo) = todo[1] /\ Head(todo) \in Calls /\ GoodCall(Head(todo), bus, target)
  BY <1>1, CallNext
<1>3. todo # <<>> => 1 \in DOMAIN todo
  <2>1. todo \in Seq(Calls) BY <1>1 DEF GoodCalls
  <2>. QED BY <2>1, Rest
<1>. QED BY <1>2, <1>3 DEF Half, GoodCall

(* Steps that leave outputs, actions and calls alone.                       *)
LEMMA ModbusFrame ==
    ASSUME Shape, bus = "modbus", phase # "setup", ModbusGood, UNCHANGED <<todo, target, own>>,
           \A d \in Outputs : hw'[d] = hw[d] /\ status'[d] = status[d],
           UNCHANGED worker \/ (worker.pc # "write" /\ worker'.pc # "write")
    PROVE  ModbusGood'
<1>1. \A op \in {"send", "assign"} : Half(op)' = Half(op) /\ (Half(op) => target \in Outputs)
  BY Halves DEF Half
<1>2. \A d : InQueue(d)' = InQueue(d) /\ Pending(d)' = Pending(d) /\ Writing(d)' = Writing(d)
  BY <1>1 DEF InQueue, Pending, Writing, Half
<1>3. /\ own.actions # <<>> => own.actions[1].dev \in Outputs
      /\ worker.pc = "write" => worker.dev \in Outputs
  BY ModbusOwnFacts, ShapeParts DEF WorkerInv
<1>4. ActionsFollow'
  BY <1>2, <1>3 DEF ModbusGood, ActionsFollow
<1>5. SendInv'
  BY <1>1 DEF ModbusGood, SendInv
<1>6. AssignInv'
  <2>1. CASE UNCHANGED worker
    BY <1>1, <2>1 DEF ModbusGood, AssignInv, Writing
  <2>2. CASE worker.pc # "write" /\ worker'.pc # "write"
    BY <1>1, <2>2 DEF ModbusGood, AssignInv, Writing
  <2>. QED BY <2>1, <2>2
<1>. QED BY <1>4, <1>5, <1>6 DEF ModbusGood

(* The calls of a command start, or turn out to be an action to be queued   *)
(* and a status to be stored.                                               *)
LEMMA ModbusOfCall == Shape /\ ModbusGood /\ ModbusCall => ModbusGood'
<1>. SUFFICES ASSUME Shape, ModbusGood, ModbusCall PROVE ModbusGood'
  OBVIOUS
<1>. DEFINE v == Result(status[target], Head(todo))
            send == Call("send", v)
            assign == Call("assign", v)
<1>1. /\ Turn("modbus") /\ v \in Int
      /\ UNCHANGED <<bus, hw, own, worker, pend, changes, phase, target, reported>>
  BY ModbusCallKinds
<1>2. \/ Instead(<<>>) /\ UNCHANGED status
      \/ target \in Outputs /\ Instead(<<send, assign>>) /\ UNCHANGED status
      \/ target \in Outputs /\ status' = [status EXCEPT ![target] = v] /\ Instead(<<send>>)
  BY ModbusCallKinds
<1>3. /\ todo # <<>> /\ Head(todo) = todo[1] /\ Head(todo).op \notin {"send", "assign"}
      /\ bus = "modbus" /\ phase # "setup"
  BY <1>1, TurnFacts, Halves DEF Turn
<1>4. \A i \in DOMAIN todo : todo[i].op \notin {"send", "assign"}
  BY <1>3 DEF ModbusGood, SendInv
<1>5. /\ send \in Calls /\ send.op = "send" /\ send.arg = v
      /\ assign \in Calls /\ assign.op = "assign" /\ assign.arg = v
  BY <1>1 DEF Call, Calls, Ops
<1>6. \A d : ~Pending(d)
  BY <1>3 DEF Pending, Half
<1>7. /\ own.actions # <<>> => own.actions[1].dev \in Outputs
      /\ worker.pc = "write" => worker.dev \in Outputs
  BY <1>3, ModbusOwnFacts, ShapeParts DEF WorkerInv
<1>8. CASE Instead(<<>>) /\ UNCHANGED status
  <2>1. \A i \in DOMAIN todo' : todo'[i].op \notin {"send", "assign"}
    BY <1>3, <1>4, <1>8, LeftAlone
  <2>2. todo' # <<>> => Head(todo') = todo'[1] /\ 1 \in DOMAIN todo'
    <3>1. todo' = Tail(todo) /\ todo' \in Seq(Calls)
      BY <1>3, <1>8, ShapeParts, CallOver, CallNext DEF Instead, TodoInv, GoodCalls
    <3>. QED BY <3>1, Rest
  <2>3. ~Half("send")' /\ ~Half("assign")'
    BY <2>1, <2>2 DEF Half
  <2>4. ActionsFollow'
    BY <1>1, <1>6, <1>7, <1>8 DEF ModbusGood, ActionsFollow, InQueue, Writing
  <2>. QED BY <2>1, <2>3, <2>4 DEF ModbusGood, SendInv, AssignInv
<1>9. CASE target \in Outputs /\ Instead(<<send, assign>>) /\ UNCHANGED status
  <2>1. /\ todo' # <<>> /\ todo'[1] = send /\ Head(todo') = send /\ todo'[2] = assign /\ Len(todo') > 1
        /\ \A i \in DOMAIN todo' : i \in {1, 2} \/ todo'[i].op \notin {"send", "assign"}
    <3>. HIDE DEF send, assign
    <3>. QED BY <1>3, <1>4, <1>5, <1>9, LeftWithTwo
  <2>2. Half("send")' /\ ~Half("assign")'
    BY <1>5, <2>1 DEF Half
  <2>3. ActionsFollow'
    BY <1>1, <1>6, <1>7, <1>9 DEF ModbusGood, ActionsFollow, InQueue, Writing
  <2>4. SendInv'
    <3>. HIDE DEF send, assign
    <3>1. \A i \in DOMAIN todo' : (todo'[i].op = "send" => i = 1) /\ (todo'[i].op = "assign" => i = 2)
      BY <1>5, <2>1
    <3>. QED BY <1>5, <2>1, <3>1 DEF SendInv
  <2>. QED BY <2>2, <2>3, <2>4 DEF ModbusGood, AssignInv
<1>10. CASE target \in Outputs /\ status' = [status EXCEPT ![target] = v] /\ Instead(<<send>>)
  <2>1. /\ todo' # <<>> /\ todo'[1] = send /\ Head(todo') = send
        /\ \A i \in DOMAIN todo' : i = 1 \/ todo'[i].op \notin {"send", "assign"}
        /\ 2 \in DOMAIN todo' => todo'[2].op # "assign"
    <3>1. /\ todo' # <<>> /\ todo'[1] = send /\ Head(todo') = send
          /\ \A i \in DOMAIN todo' : i = 1 \/ todo'[i].op \notin {"send", "assign"}
      <4>. HIDE DEF send
      <4>. QED BY <1>3, <1>4, <1>5, <1>10, LeftWithOne
    <3>. QED BY <3>1
  <2>2. Len(todo') > 1 => todo'[2].op # "assign"
    <3>1. todo' \in Seq(Calls)
      BY ShapeModbusCall, ShapeParts DEF Shape, TodoInv, GoodCalls
    <3>2. Len(todo') > 1 => 2 \in DOMAIN todo'
      BY <3>1
    <3>. QED BY <2>1, <3>2
  <2>3. Half("send")' /\ ~Half("assign")' /\ Pending(target)'
    BY <1>1, <1>5, <2>1 DEF Half, Pending
  <2>4. \A d \in Outputs : d # target => status'[d] = status[d]
    BY <1>10, ShapeParts, DevicesDiffer
  <2>5. status'[target] = v
    BY <1>10, ShapeParts
  <2>6. ActionsFollow'
    BY <1>1, <1>6, <1>7, <2>3, <2>4 DEF ModbusGood, ActionsFollow, InQueue, Writing
  <2>7. SendInv'
    <3>. HIDE DEF send, v
    <3>1. \A i \in DOMAIN todo' : (todo'[i].op = "send" => i = 1) /\ todo'[i].op # "assign"
      BY <1>5, <2>1
    <3>. QED BY <1>1, <1>5, <2>1, <2>2, <2>5, <3>1 DEF SendInv
  <2>. QED BY <2>3, <2>6, <2>7 DEF ModbusGood, AssignInv
<1>. QED BY <1>2, <1>8, <1>9, <1>10

(* The action is queued; what its call had stored, or has still to store,   *)
(* is what the action writes.                                               *)
LEMMA ModbusOfSends == Shape /\ ModbusGood /\ ModbusSends => ModbusGood'
<1>. SUFFICES ASSUME Shape, ModbusGood, ModbusSends PROVE ModbusGood'
  OBVIOUS
<1>. DEFINE v == Head(todo).arg
            a == [dev |-> target, val |-> v]
<1>1. /\ bus = "modbus" /\ At("send") /\ own.actions = <<>> /\ Instead(<<>>)
      /\ own' = [own EXCEPT !.actions = <<a>>]
      /\ UNCHANGED <<bus, status, hw, worker, pend, changes, phase, target, reported>>
  BY DEF ModbusSends, confVars
<1>2. /\ phase = "running" /\ todo # <<>> /\ Head(todo).op = "send" /\ Head(todo) = todo[1]
      /\ target \in Outputs /\ Half("send") /\ own \in ModbusOwn
  BY <1>1, AtFacts, Halves, ModbusOwnFacts DEF GoodCall, Half
<1>3. /\ own'.actions = <<a>> /\ own'.actions # <<>> /\ own'.unsure = own.unsure
      /\ own'.actions[1] = a /\ a.dev = target /\ a.val = v
  BY <1>1, <1>2 DEF ModbusOwn
<1>4. \A i \in DOMAIN todo' : i \in Nat \ {0} /\ i + 1 \in DOMAIN todo /\ todo'[i] = todo[i + 1]
  BY <1>1, <1>2, LeftAlone
<1>5. todo' # <<>> => Head(todo') = todo'[1] /\ 1 \in DOMAIN todo' /\ todo'[1] = todo[2] /\ 2 \in DOMAIN todo
  <2>1. todo' \in Seq(Calls)
    BY ShapeModbusSends, ShapeParts DEF Shape, TodoInv, GoodCalls
  <2>2. todo' # <<>> => Head(todo') = todo'[1] /\ 1 \in DOMAIN todo'
    BY <2>1, Rest
  <2>. QED BY <2>2, <1>4
<1>6. \A i \in DOMAIN todo' : todo'[i].op # "send" /\ (todo'[i].op = "assign" => i = 1)
  <2>. SUFFICES ASSUME NEW i \in DOMAIN todo'
                PROVE  todo'[i].op # "send" /\ (todo'[i].op = "assign" => i = 1)
    OBVIOUS
  <2>1. i \in Nat \ {0} /\ i + 1 \in DOMAIN todo /\ todo'[i] = todo[i + 1]
    BY <1>4
  <2>2. todo[i + 1].op = "send" => i + 1 = 1
    BY <2>1 DEF ModbusGood, SendInv
  <2>3. todo[i + 1].op = "assign" => i + 1 \in {1, 2}
    BY <2>1 DEF ModbusGood, SendInv
  <2>. QED BY <2>1, <2>2, <2>3
<1>7. ~Half("send")'
  BY <1>5, <1>6 DEF Half
<1>8. Half("assign")' <=> todo' # <<>> /\ todo'[1].op = "assign"
  BY <1>5 DEF Half
<1>9. todo' # <<>> => Len(todo) > 1
  <2>1. todo \in Seq(Calls)
    BY ShapeParts DEF TodoInv, GoodCalls
  <2>. QED BY <1>5, <2>1
<1>10. IF Half("assign")' THEN todo'[1].arg = v ELSE status[target] = v
  <2>1. IF Len(todo) > 1 /\ todo[2].op = "assign" THEN todo[2].arg = v ELSE status[target] = v
    BY <1>2 DEF ModbusGood, SendInv
  <2>2. CASE Half("assign")'
    BY <1>5, <1>8, <1>9, <2>1, <2>2
  <2>3. CASE ~Half("assign")'
    <3>1. ~(Len(todo) > 1 /\ todo[2].op = "assign")
      <4>. SUFFICES ASSUME Len(todo) > 1 PROVE todo[2].op # "assign"
        OBVIOUS
      <4>1. todo' # <<>> /\ todo'[1] = todo[2]
        <5>1. todo \in Seq(Calls)
          BY ShapeParts DEF TodoInv, GoodCalls
        <5>2. todo' = Tail(todo) /\ Len(Tail(todo)) = Len(todo) - 1 /\ Tail(todo) \in Seq(Calls)
          BY <5>1, <1>1, <1>2, Rest DEF Instead
        <5>3. Len(todo') > 0
          BY <5>1, <5>2
        <5>4. todo' # <<>>
          BY <5>3
        <5>. QED BY <5>4, <1>5
      <4>. QED BY <2>3, <4>1, <1>8
    <3>. QED BY <2>1, <2>3, <3>1
  <2>. QED BY <2>2, <2>3
<1>11. InQueue(target)' /\ \A d : d # target => ~InQueue(d)' /\ ~InQueue(d) /\ ~Pending(d)
  BY <1>1, <1>3 DEF InQueue, Pending
<1>12. ActionsFollow'
  <2>. HIDE DEF a, v
  <2>1. \A d \in Outputs \ own'.unsure : hw'[d] = status'[d] \/ InQueue(d)' \/ Writing(d)' \/ Pending(d)'
    BY <1>1, <1>3, <1>11 DEF ModbusGood, ActionsFollow, Writing
  <2>2. (worker.pc = "write")' =>
            status'[worker'.dev] = worker'.val \/ InQueue(worker.dev)' \/ Pending(worker.dev)'
    BY <1>1, <1>11 DEF ModbusGood, ActionsFollow
  <2>3. status'[own'.actions[1].dev] = own'.actions[1].val \/ Pending(own.actions[1].dev)'
    <3>1. CASE Half("assign")'
      BY <1>1, <1>3, <3>1 DEF Pending
    <3>2. CASE ~Half("assign")'
      BY <1>1, <1>3, <1>10, <3>2
    <3>. QED BY <3>1, <3>2
  <2>. QED BY <2>1, <2>2, <2>3 DEF ActionsFollow
<1>13. SendInv'
  BY <1>6, <1>7 DEF SendInv
<1>14. AssignInv'
  BY <1>1, <1>3, <1>10 DEF AssignInv
<1>. QED BY <1>12, <1>13, <1>14 DEF ModbusGood

(* The status is stored, while the action waits, is written, or was.        *)
LEMMA ModbusOfAssigns == Shape /\ ModbusGood /\ ModbusAssigns => ModbusGood'
<1>. SUFFICES ASSUME Shape, ModbusGood, ModbusAssigns PROVE ModbusGood'
  OBVIOUS
<1>. DEFINE v == Head(todo).arg
<1>1. /\ bus = "modbus" /\ At("assign") /\ Instead(<<>>)
      /\ status' = [status EXCEPT ![target] = v]
      /\ UNCHANGED <<bus, hw, own, worker, pend, changes, phase, target, reported>>
  BY DEF ModbusAssigns, confVars
<1>2. /\ phase = "running" /\ todo # <<>> /\ Head(todo).op = "assign" /\ Head(todo) = todo[1]
      /\ target \in Outputs /\ Half("assign")
  BY <1>1, AtFacts, Halves DEF GoodCall, Half
<1>3. status'[target] = v /\ \A d \in Devs : d # target => status'[d] = status[d]
  BY <1>1, ShapeParts
<1>4. \A i \in DOMAIN todo' : todo'[i].op \notin {"send", "assign"}
  <2>. SUFFICES ASSUME NEW i \in DOMAIN todo' PROVE todo'[i].op \notin {"send", "assign"}
    OBVIOUS
  <2>1. i \in Nat \ {0} /\ i + 1 \in DOMAIN todo /\ todo'[i] = todo[i + 1]
    BY <1>1, <1>2, LeftAlone
  <2>2. todo[i + 1].op = "send" => i + 1 = 1
    BY <2>1 DEF ModbusGood, SendInv
  <2>3. todo[i + 1].op # "assign"
    BY <1>2, <2>1 DEF ModbusGood, SendInv
  <2>. QED BY <2>1, <2>2, <2>3
<1>5. ~Half("send")' /\ ~Half("assign")'
  <2>1. todo' \in Seq(Calls)
    BY ShapeModbusAssigns, ShapeParts DEF Shape, TodoInv, GoodCalls
  <2>2. todo' # <<>> => Head(todo') = todo'[1] /\ 1 \in DOMAIN todo'
    BY <2>1, Rest
  <2>. QED BY <2>2, <1>4 DEF Half
<1>6. \/ own.actions = <<[dev |-> target, val |-> v]>>
      \/ own.actions = <<>> /\ Writing(target) /\ worker.val = v
      \/ own.actions = <<>> /\ worker.pc # "write" /\ (hw[target] = v \/ target \in own.unsure)
  BY <1>2 DEF ModbusGood, AssignInv
<1>7. /\ own.actions # <<>> => own.actions[1].dev = target /\ own.actions[1].val = v
      /\ own.actions # <<>> => InQueue(target)
  BY <1>6 DEF InQueue
<1>8. \A d : d # target => ~Pending(d)
  BY DEF Pending
<1>9. worker.pc = "write" => worker.dev \in Outputs
  BY ShapeParts DEF WorkerInv
<1>10. ActionsFollow'
  <2>. HIDE DEF v
  <2>1. \A d \in Outputs \ own.unsure : hw[d] = status'[d] \/ InQueue(d) \/ Writing(d)
    BY <1>3, <1>6, <1>7, <1>8, DevicesDiffer DEF ModbusGood, ActionsFollow
  <2>2. worker.pc = "write" => status'[worker.dev] = worker.val \/ InQueue(worker.dev)
    <3>. SUFFICES ASSUME worker.pc = "write"
                  PROVE  status'[worker.dev] = worker.val \/ InQueue(worker.dev)
      OBVIOUS
    <3>1. CASE worker.dev = target
      BY <1>3, <1>6, <1>7, <3>1
    <3>2. CASE worker.dev # target
      BY <1>3, <1>8, <1>9, <3>2, DevicesDiffer DEF ModbusGood, ActionsFollow
    <3>. QED BY <3>1, <3>2
  <2>3. own.actions # <<>> => status'[own.actions[1].dev] = own.actions[1].val
    BY <1>3, <1>7
  <2>. QED BY <1>1, <2>1, <2>2, <2>3 DEF ActionsFollow, InQueue, Writing
<1>. QED BY <1>4, <1>5, <1>10 DEF ModbusGood, SendInv, AssignInv

(* The worker takes the action out of the queue ...                         *)
LEMMA ModbusOfTakes == Shape /\ ModbusGood /\ ModbusTakes => ModbusGood'
<1>. SUFFICES ASSUME Shape, ModbusGood, ModbusTakes PROVE ModbusGood'
  OBVIOUS
<1>. DEFINE a == own.actions[1]
<1>1. /\ bus = "modbus" /\ phase \in {"describe", "running"} /\ worker.pc = "idle" /\ own.actions # <<>>
      /\ worker' = [pc |-> "write", dev |-> a.dev, val |-> a.val, tries |-> 1]
      /\ own' = [own EXCEPT !.actions = <<>>]
      /\ UNCHANGED <<bus, status, hw, pend, changes, phase, todo, target, reported>>
  BY DEF ModbusTakes, HasWorker, Works, confVars, handlerVars
<1>2. own \in ModbusOwn
  BY <1>1, ModbusOwnFacts
<1>3. own'.actions = <<>> /\ own'.unsure = own.unsure
  BY <1>1, <1>2 DEF ModbusOwn
<1>4. worker'.pc = "write" /\ worker'.dev = a.dev /\ worker'.val = a.val
  BY <1>1
<1>5. \A d : Pending(d)' = Pending(d) /\ (Writing(d)' <=> InQueue(d)) /\ ~Writing(d)
  BY <1>1, <1>4 DEF Pending, Half, Writing, InQueue
<1>6. \A op : Half(op)' = Half(op)
  BY <1>1 DEF Half
<1>7. ActionsFollow'
  <2>1. \A d \in Outputs \ own'.unsure : hw'[d] = status'[d] \/ InQueue(d)' \/ Writing(d)' \/ Pending(d)'
    BY <1>1, <1>3, <1>5 DEF ModbusGood, ActionsFollow
  <2>2. status'[worker'.dev] = worker'.val \/ Pending(worker.dev)'
    BY <1>1, <1>4, <1>5 DEF ModbusGood, ActionsFollow
  <2>. QED BY <1>3, <2>1, <2>2 DEF ActionsFollow
<1>8. SendInv'
  BY <1>1, <1>6 DEF ModbusGood, SendInv
<1>9. AssignInv'
  <2>. SUFFICES ASSUME Half("assign") PROVE Writing(target)' /\ worker'.val = todo[1].arg
    BY <1>1, <1>3, <1>6 DEF AssignInv
  <2>1. own.actions = <<[dev |-> target, val |-> todo[1].arg]>>
    BY <1>1 DEF ModbusGood, AssignInv
  <2>2. a.dev = target /\ a.val = todo[1].arg
    BY <2>1
  <2>. QED BY <1>1, <1>4, <2>2 DEF Writing
<1>. QED BY <1>7, <1>8, <1>9 DEF ModbusGood

(* ... and writes it: the other outputs of the register get their statuses. *)
LEMMA ModbusOfWrites ==
    ASSUME Shape, ModbusGood, NEW ok \in BOOLEAN, NEW reached \in BOOLEAN, ModbusWrites(ok, reached)
    PROVE  ModbusGood'
<1>. DEFINE over == ok \/ worker.tries = MaxAttempts
            done == IF worker.dev \in Registered THEN Registered ELSE {worker.dev}
            e == worker.dev
<1>1. /\ bus = "modbus" /\ phase \in {"describe", "running"} /\ worker.pc = "write"
      /\ e \in Outputs
      /\ hw' = IF ok \/ reached THEN Written(e, worker.val) ELSE hw
      /\ own'.actions = own.actions
      /\ own'.unsure = IF ok THEN own.unsure \ done
                       ELSE IF over THEN own.unsure \cup {e} ELSE own.unsure
      /\ worker'.dev = e
      /\ IF over THEN worker'.pc = "idle" ELSE worker'.pc = "write" /\ worker'.val = worker.val
      /\ UNCHANGED <<bus, status, pend, changes, phase, todo, target, reported>>
  BY ModbusWritesFacts
<1>2. \A op : Half(op)' = Half(op)
  BY <1>1 DEF Half
<1>3. \A d : Pending(d)' = Pending(d) /\ InQueue(d)' = InQueue(d) /\ (Writing(d) <=> d = e)
  BY <1>1 DEF Pending, Half, Writing, InQueue
<1>4. \A d \in Outputs : d # e =>
          hw'[d] = hw[d] \/ (hw'[d] = status[d] /\ e \in Registered /\ d \in Registered)
  <2>1. CASE ok \/ reached
    BY <1>1, <2>1, DevicesDiffer DEF Written
  <2>2. CASE ~(ok \/ reached)
    BY <1>1, <2>2
  <2>. QED BY <2>1, <2>2
<1>5. ok => /\ hw'[e] = worker.val
            /\ \A d \in done : d # e => hw'[d] = status[d]
  <2>1. done \subseteq Outputs /\ (\A d \in done : d # e => d \in Registered /\ e \in Registered)
    BY <1>1 DEF Registered
  <2>. QED BY <1>1, <2>1, DevicesDiffer DEF Written
<1>6. ActionsFollow'
  <2>1. ASSUME NEW d \in Outputs \ own'.unsure
        PROVE  hw'[d] = status'[d] \/ InQueue(d)' \/ Writing(d)' \/ Pending(d)'
    <3>1. CASE d = e /\ ok
      <4>1. status[e] = worker.val \/ InQueue(e) \/ Pending(e)
        BY <1>1 DEF ModbusGood, ActionsFollow
      <4>. QED BY <1>1, <1>3, <1>5, <3>1, <4>1
    <3>2. CASE d = e /\ ~ok
      <4>1. ~over
        BY <1>1, <3>2
      <4>. QED BY <1>1, <3>2, <4>1 DEF Writing
    <3>3. CASE d # e /\ d \in own.unsure
      <4>1. ok /\ d \in done
        BY <1>1, <3>3
      <4>. QED BY <1>1, <1>5, <3>3, <4>1
    <3>4. CASE d # e /\ d \notin own.unsure
      <4>1. hw[d] = status[d] \/ InQueue(d) \/ Pending(d)
        BY <1>3, <3>4 DEF ModbusGood, ActionsFollow
      <4>. QED BY <1>1, <1>3, <1>4, <3>4, <4>1
    <3>. QED BY <3>1, <3>2, <3>3, <3>4
  <2>2. (worker.pc = "write")' =>
            status'[worker'.dev] = worker'.val \/ InQueue(worker.dev)' \/ Pending(worker.dev)'
    <3>. SUFFICES ASSUME worker'.pc = "write"
                  PROVE  status[e] = worker'.val \/ InQueue(worker.dev)' \/ Pending(worker.dev)'
      BY <1>1
    <3>1. worker'.val = worker.val
      BY <1>1
    <3>2. status[e] = worker.val \/ InQueue(e) \/ Pending(e)
      BY <1>1 DEF ModbusGood, ActionsFollow
    <3>. QED BY <1>1, <1>3, <3>1, <3>2 DEF InQueue, Pending, Half
  <2>3. own'.actions # <<>> =>
            status'[own'.actions[1].dev] = own'.actions[1].val \/ Pending(own.actions[1].dev)'
    BY <1>1, <1>3 DEF ModbusGood, ActionsFollow, Pending, Half
  <2>. QED BY <2>1, <2>2, <2>3 DEF ActionsFollow
<1>7. SendInv'
  BY <1>1, <1>2 DEF ModbusGood, SendInv
<1>8. AssignInv'
  <2>. SUFFICES ASSUME Half("assign")
                PROVE  \/ own'.actions = <<[dev |-> target', val |-> todo'[1].arg]>>
                       \/ own'.actions = <<>> /\ Writing(target)' /\ worker'.val = todo'[1].arg
                       \/ own'.actions = <<>> /\ worker'.pc # "write"
                          /\ (hw'[target'] = todo'[1].arg \/ target' \in own'.unsure)
    BY <1>2 DEF AssignInv
  <2>1. CASE own.actions = <<[dev |-> target, val |-> todo[1].arg]>>
    BY <1>1, <2>1
  <2>2. CASE own.actions = <<>> /\ Writing(target) /\ worker.val = todo[1].arg
    <3>1. target = e
      BY <1>3, <2>2
    <3>2. CASE ok
      BY <1>1, <1>5, <2>2, <3>1, <3>2
    <3>3. CASE ~ok /\ over
      BY <1>1, <2>2, <3>1, <3>3
    <3>4. CASE ~over
      BY <1>1, <2>2, <3>1, <3>4 DEF Writing
    <3>. QED BY <3>2, <3>3, <3>4
  <2>3. CASE own.actions = <<>> /\ worker.pc # "write"
    BY <1>1, <2>3
  <2>. QED BY <2>1, <2>2, <2>3 DEF ModbusGood, AssignInv
<1>. QED BY <1>6, <1>7, <1>8 DEF ModbusGood

LEMMA ModbusOfCommandEnds ==
    Shape /\ bus = "modbus" /\ ModbusGood /\ CommandEnds => ModbusGood'
<1>. SUFFICES ASSUME Shape, bus = "modbus", ModbusGood, CommandEnds PROVE ModbusGood'
  OBVIOUS
<1>1. /\ phase = "running" /\ todo # <<>> /\ Head(todo).op = "publish" /\ Instead(<<>>)
      /\ UNCHANGED <<bus, status, hw, own, worker, pend, changes, phase, target>>
  BY DEF CommandEnds, At, confVars
<1>2. Head(todo) = todo[1] /\ \A d : ~Pending(d)
  BY <1>1, Halves DEF Pending, Half
<1>3. \A i \in DOMAIN todo' : todo'[i].op \notin {"send", "assign"}
  <2>. SUFFICES ASSUME NEW i \in DOMAIN todo' PROVE todo'[i].op \notin {"send", "assign"}
    OBVIOUS
  <2>1. i \in Nat \ {0} /\ i + 1 \in DOMAIN todo /\ todo'[i] = todo[i + 1]
    BY <1>1, LeftAlone
  <2>2. todo[i + 1].op # "send" /\ todo[i + 1].op # "assign"
    BY <1>1, <1>2, <2>1 DEF ModbusGood, SendInv
  <2>. QED BY <2>1, <2>2
<1>4. ~Half("send")' /\ ~Half("assign")'
  <2>1. todo' \in Seq(Calls)
    BY ShapeCommandEnds, ShapeParts DEF Shape, TodoInv, GoodCalls
  <2>2. todo' # <<>> => Head(todo') = todo'[1] /\ 1 \in DOMAIN todo'
    BY <2>1, Rest
  <2>. QED BY <2>2, <1>3 DEF Half
<1>5. /\ own.actions # <<>> => own.actions[1].dev \in Outputs
      /\ worker.pc = "write" => worker.dev \in Outputs
  BY <1>1, ModbusOwnFacts, ShapeParts DEF WorkerInv
<1>6. ActionsFollow'
  BY <1>1, <1>2, <1>5 DEF ModbusGood, ActionsFollow, InQueue, Writing
<1>. QED BY <1>3, <1>4, <1>6 DEF ModbusGood, SendInv, AssignInv

LEMMA Elements ==
    ASSUME NEW S, NEW p \in Seq(S), NEW q \in Seq(S), NEW i \in DOMAIN (p \o q)
    PROVE  \/ \E j \in DOMAIN p : (p \o q)[i] = p[j]
           \/ \E j \in DOMAIN q : (p \o q)[i] = q[j]
<1>1. i \in 1..Len(p) + Len(q) /\ Len(p) \in Nat /\ Len(q) \in Nat
  OBVIOUS
<1>2. CASE i <= Len(p)
  BY <1>1, <1>2
<1>3. CASE i > Len(p)
  <2>1. i - Len(p) \in DOMAIN q /\ (p \o q)[i] = q[i - Len(p)]
    BY <1>1, <1>3
  <2>. QED BY <2>1
<1>. QED BY <1>1, <1>2, <1>3

(* A command starts with calls of methods.                                  *)
LEMMA DigitalCallsPlain ==
    ASSUME NEW action \in {"SET", "RESET", "PUSH", "TOGGLE", "GET"}
    PROVE  \A i \in DOMAIN DigitalCalls(action) : DigitalCalls(action)[i].op \notin {"send", "assign"}
<1>. DEFINE p == CASE action = "SET" -> <<Call("switch", 1)>>
                   [] action = "RESET" -> <<Call("switch", 0)>>
                   [] action = "PUSH" -> <<Call("switch", 1), Call("switch", 0)>>
                   [] action = "TOGGLE" -> <<Call("toggle", 0)>>
                   [] action = "GET" -> <<>>
            q == <<Publish>>
            Plain(r) == r \in Seq(Calls) /\ \A j \in DOMAIN r : r[j].op \notin {"send", "assign"}
<1>1. /\ Publish \in Calls /\ Call("switch", 1) \in Calls /\ Call("switch", 0) \in Calls
      /\ Call("toggle", 0) \in Calls
  BY DEF Call, Calls, Ops, Publish
<1>2. Plain(q)
  BY <1>1 DEF Publish, Call
<1>3. Plain(<<Call("switch", 1)>>) /\ Plain(<<Call("switch", 0)>>) /\ Plain(<<Call("toggle", 0)>>) /\ Plain(<<>>)
  BY <1>1 DEF Call
<1>4. Plain(<<Call("switch", 1), Call("switch", 0)>>)
  BY <1>1 DEF Call
<1>5. Plain(p)
  <2>. HIDE DEF Plain
  <2>. QED BY <1>3, <1>4
<1>6. DigitalCalls(action) = p \o q
  BY DEF DigitalCalls
<1>. HIDE DEF p, q
<1>. QED BY <1>2, <1>5, <1>6, Elements

LEMMA ModbusOfCommands ==
    ASSUME Shape, bus = "modbus", ModbusGood,
           \/ \E d \in Devs, action \in {"SET", "RESET", "PUSH", "TOGGLE", "GET"} : DigitalCommand(d, action)
           \/ \E d \in Devs, op \in {"set", "add"}, v \in Int : AnalogCommand(d, op, v)
    PROVE  ModbusGood'
<1>1. /\ phase = "running" /\ todo = <<>>
      /\ UNCHANGED <<bus, status, hw, own, worker, pend, changes, phase, reported>>
  BY DEF DigitalCommand, AnalogCommand, Loop, confVars
<1>2. \A d : ~Pending(d)
  BY <1>1 DEF Pending, Half
<1>3. /\ todo' \in Seq(Calls)
      /\ \A i \in DOMAIN todo' : todo'[i].op \notin {"send", "assign"}
  <2>1. todo' \in Seq(Calls)
    BY ShapeDigital, ShapeAnalog, ShapeParts DEF Shape, TodoInv, GoodCalls
  <2>2. \A i \in DOMAIN todo : todo[i].op \notin {"send", "assign"}
    BY <1>1
  <2>3. ASSUME NEW d \in Devs, NEW action \in {"SET", "RESET", "PUSH", "TOGGLE", "GET"}, DigitalCommand(d, action)
        PROVE  \A i \in DOMAIN todo' : todo'[i].op \notin {"send", "assign"}
    <3>1. todo' = DigitalCalls(action) \/ todo' = todo
      BY <2>3 DEF DigitalCommand
    <3>. QED BY <2>2, <3>1, DigitalCallsPlain
  <2>4. ASSUME NEW d \in Devs, NEW op \in {"set", "add"}, NEW v \in Int, AnalogCommand(d, op, v)
        PROVE  \A i \in DOMAIN todo' : todo'[i].op \notin {"send", "assign"}
    <3>1. todo' = <<Call(op, v), Publish>> \/ todo' = todo
      BY <2>4 DEF AnalogCommand
    <3>. QED BY <2>2, <3>1 DEF Call, Publish
  <2>. QED BY <2>1, <2>3, <2>4
<1>4. ~Half("send")' /\ ~Half("assign")'
  <2>1. todo' # <<>> => Head(todo') = todo'[1] /\ 1 \in DOMAIN todo'
    BY <1>3, Rest
  <2>. QED BY <2>1, <1>3 DEF Half
<1>5. /\ own.actions # <<>> => own.actions[1].dev \in Outputs
      /\ worker.pc = "write" => worker.dev \in Outputs
  BY <1>1, ModbusOwnFacts, ShapeParts DEF WorkerInv
<1>6. ActionsFollow'
  BY <1>1, <1>2, <1>5 DEF ModbusGood, ActionsFollow, InQueue, Writing
<1>. QED BY <1>3, <1>4, <1>6 DEF ModbusGood, SendInv, AssignInv

LEMMA ModbusStarts ==
    ASSUME Shape, bus = "modbus", Initialize
    PROVE  ModbusGood'
<1>1. /\ phase = "setup" /\ own' = [actions |-> <<>>, unsure |-> Outputs]
      /\ UNCHANGED <<hw, worker, todo, target, bus>>
  BY DEF Initialize, ModbusInitialize, confVars
<1>2. todo = <<>> /\ worker.pc = "idle"
  BY <1>1, ShapeParts DEF TodoInv, WorkerInv
<1>3. own'.actions = <<>> /\ Outputs \ own'.unsure = {}
  BY <1>1
<1>4. ActionsFollow'
  BY <1>1, <1>2, <1>3 DEF ActionsFollow
<1>5. ~Half("send")' /\ ~Half("assign")' /\ DOMAIN todo' = {}
  BY <1>1, <1>2 DEF Half
<1>. QED BY <1>4, <1>5 DEF ModbusGood, SendInv, AssignInv

(* The other steps on this bus are about inputs, ids and phases.            *)
LEMMA ModbusOfOthers ==
    ASSUME Shape, bus = "modbus", phase # "setup", ModbusGood,
           \/ Describe \/ HandleChange \/ Forward \/ Teardown \/ TeardownEnds \/ W1Panics
           \/ \E d \in Inputs \cup Sensors : BeginRead(d)
           \/ ReadsValue \/ ReadsNothing
           \/ Announce
           \/ \E d \in (Inputs \cup Sensors) \cap DevicesOn(bus), v \in Int : HardwareChanges(d, v)
    PROVE  ModbusGood'
<1>1. CASE Describe \/ HandleChange \/ Forward \/ Teardown \/ TeardownEnds \/ W1Panics
  <2>1. UNCHANGED <<status, hw, own, worker, todo, target>>
    BY <1>1 DEF Describe, HandleChange, Forward, Teardown, TeardownEnds, W1Panics, handlerVars
  <2>. QED BY <2>1, ModbusFrame
<1>2. CASE \E d \in Inputs \cup Sensors : BeginRead(d)
  <2>1. UNCHANGED <<status, hw, own, todo, target>> /\ worker.pc = "idle" /\ worker'.pc = "read"
    BY <1>2 DEF BeginRead, handlerVars
  <2>. QED BY <2>1, ModbusFrame
<1>3. CASE ReadsValue \/ ReadsNothing
  <2>1. /\ worker.pc = "read" /\ worker'.pc # "write"
        /\ status' = status \/ status' = [status EXCEPT ![worker.dev] = hw[worker.dev]]
        /\ UNCHANGED <<hw, own, todo, target>>
    BY <1>3, ReadsFacts
  <2>2. worker.dev \in Inputs \cup Sensors
    BY <2>1, ShapeParts DEF WorkerInv
  <2>3. \A d \in Outputs : status'[d] = status[d]
    <3>1. status \in [Devs -> Int]
      BY ShapeParts DEF ValuesTyped
    <3>2. \A d \in Outputs : d # worker.dev /\ d \in Devs
      BY <2>2, DevicesDiffer DEF Devs
    <3>. QED BY <2>1, <3>1, <3>2
  <2>. QED BY <2>1, <2>3, ModbusFrame
<1>4. CASE Announce
  <2>1. /\ worker.pc = "send" /\ worker'.pc = "idle"
        /\ UNCHANGED <<status, hw, own, todo, target>>
    BY <1>4, AnnounceFacts
  <2>. QED BY <2>1, ModbusFrame
<1>5. ASSUME NEW d \in (Inputs \cup Sensors) \cap DevicesOn(bus), NEW v \in Int, HardwareChanges(d, v)
      PROVE  ModbusGood'
  <2>1. hw' = [hw EXCEPT ![d] = v] /\ UNCHANGED <<status, own, worker, todo, target>>
    BY <1>5 DEF HardwareChanges, handlerVars
  <2>2. \A e \in Outputs : hw'[e] = hw[e]
    BY <2>1, ShapeParts, DevicesDiffer
  <2>. QED BY <2>1, <2>2, ModbusFrame
<1>. QED BY <1>1, <1>2, <1>3, <1>4, <1>5

(* The bus stays the same, and setup starts with Initialize.                *)
LEMMA SameBus == Next => bus' = bus
<1>. SUFFICES ASSUME Next PROVE bus' = bus
  OBVIOUS
<1>. USE DEF confVars
<1>1. CASE \/ Initialize \/ Describe \/ HandleChange \/ Forward \/ Teardown \/ TeardownEnds \/ W1Panics \/ CommandEnds
           \/ \E d \in Devs, action \in {"SET", "RESET", "PUSH", "TOGGLE", "GET"} : DigitalCommand(d, action)
           \/ \E d \in Devs, op \in {"set", "add"}, v \in Int : AnalogCommand(d, op, v)
  BY <1>1 DEF Initialize, Describe, HandleChange, Forward, Teardown, TeardownEnds, W1Panics, CommandEnds,
              DigitalCommand, AnalogCommand
<1>2. CASE SoftCall \/ GpioCall \/ UnipiCall \/ ModbusCall \/ SnapcastCall
  BY <1>2 DEF SoftCall, GpioCall, UnipiCall, ModbusCall, SnapcastCall
<1>3. CASE \/ ModbusSends \/ ModbusAssigns \/ SnapcastNotifies
           \/ \E ok, left \in BOOLEAN : SnapcastRequests(ok, left)
  BY <1>3 DEF ModbusSends, ModbusAssigns, SnapcastNotifies, SnapcastRequests
<1>4. CASE \/ phase # "setup" /\ bus \in {"unipi", "w1", "modbus"} /\ \E d \in Inputs \cup Sensors : BeginRead(d)
           \/ phase # "setup" /\ bus \in {"unipi", "w1", "modbus"} /\ (ReadsValue \/ ReadsNothing)
           \/ phase # "setup" /\ Announce
  BY <1>4 DEF BeginRead, ReadsValue, ReadsNothing, Announce
<1>5. CASE \/ \E ok, reached \in BOOLEAN : ModbusWrites(ok, reached)
           \/ ModbusTakes \/ GpioAnnounces
           \/ \E i \in Nat : FadeStarts(i)
           \/ \E d \in Levels : FadeWrites(d)
           \/ \E d \in (Inputs \cup Sensors) \cap DevicesOn(bus), v \in Int : HardwareChanges(d, v)
  BY <1>5 DEF ModbusWrites, ModbusTakes, GpioAnnounces, FadeStarts, FadeWrites, HardwareChanges
<1>6. CASE \/ \E ok, left \in BOOLEAN : SnapcastPolls(ok, left)
           \/ LoopAnnounces \/ Notification \/ CallbackAnnounces
           \/ \E d \in Devs, v \in Int : ServerChanges(d, v)
  BY <1>6 DEF SnapcastPolls, LoopAnnounces, Notification, CallbackAnnounces, ServerChanges
<1>. QED BY <1>1, <1>2, <1>3, <1>4, <1>5, <1>6, Steps

LEMMA SetupSteps ==
    ASSUME Next, phase = "setup"
    PROVE  Initialize
<1>. USE DEF Works, HasWorker
<1>1. ~(\/ Describe \/ HandleChange \/ Forward \/ Teardown \/ TeardownEnds \/ W1Panics \/ CommandEnds
        \/ \E d \in Devs, action \in {"SET", "RESET", "PUSH", "TOGGLE", "GET"} : DigitalCommand(d, action)
        \/ \E d \in Devs, op \in {"set", "add"}, v \in Int : AnalogCommand(d, op, v))
  BY DEF Describe, HandleChange, Forward, Teardown, TeardownEnds, W1Panics, CommandEnds, DigitalCommand, AnalogCommand,
         Loop, At
<1>2. ~(SoftCall \/ GpioCall \/ UnipiCall \/ ModbusCall \/ SnapcastCall)
  BY DEF SoftCall, GpioCall, UnipiCall, ModbusCall, SnapcastCall, Turn
<1>3. ~(\/ ModbusSends \/ ModbusAssigns \/ SnapcastNotifies
        \/ \E ok, left \in BOOLEAN : SnapcastRequests(ok, left))
  BY DEF ModbusSends, ModbusAssigns, SnapcastNotifies, SnapcastRequests, At
<1>4. ~(\/ \E ok, reached \in BOOLEAN : ModbusWrites(ok, reached)
        \/ ModbusTakes \/ GpioAnnounces
        \/ \E i \in Nat : FadeStarts(i)
        \/ \E d \in Levels : FadeWrites(d)
        \/ \E d \in (Inputs \cup Sensors) \cap DevicesOn(bus), v \in Int : HardwareChanges(d, v))
  BY DEF ModbusWrites, ModbusTakes, GpioAnnounces, FadeStarts, FadeWrites, HardwareChanges
<1>5. ~(\/ \E ok, left \in BOOLEAN : SnapcastPolls(ok, left)
        \/ LoopAnnounces \/ Notification \/ CallbackAnnounces
        \/ \E d \in Devs, v \in Int : ServerChanges(d, v))
  BY DEF SnapcastPolls, LoopAnnounces, Notification, CallbackAnnounces, ServerChanges
<1>. QED BY <1>1, <1>2, <1>3, <1>4, <1>5, Steps

LEMMA ModbusNext == Shape /\ ModbusInv /\ [Next]_vars => ModbusInv'
<1>1. Shape /\ ModbusInv /\ UNCHANGED vars => ModbusInv'
  BY DEF ModbusInv, ModbusGood, ActionsFollow, SendInv, AssignInv, InQueue, Writing, Pending, Half,
         vars, confVars, handlerVars
<1>. SUFFICES ASSUME Shape, ModbusInv, Next, bus' = "modbus" PROVE ModbusGood'
  BY <1>1 DEF ModbusInv
<1>2. bus = "modbus"
  BY SameBus
<1>3. CASE Initialize
  BY <1>2, <1>3, ModbusStarts
<1>4. CASE phase # "setup"
  <2>1. ModbusGood
    BY <1>2, <1>4 DEF ModbusInv
  <2>2. CASE ModbusCall \/ ModbusSends \/ ModbusAssigns \/ ModbusTakes \/ CommandEnds
    BY <1>2, <2>1, <2>2, ModbusOfCall, ModbusOfSends, ModbusOfAssigns, ModbusOfTakes, ModbusOfCommandEnds
  <2>3. CASE \E ok, reached \in BOOLEAN : ModbusWrites(ok, reached)
    BY <2>1, <2>3, ModbusOfWrites
  <2>4. CASE \/ \E d \in Devs, action \in {"SET", "RESET", "PUSH", "TOGGLE", "GET"} : DigitalCommand(d, action)
             \/ \E d \in Devs, op \in {"set", "add"}, v \in Int : AnalogCommand(d, op, v)
    BY <1>2, <2>1, <2>4, ModbusOfCommands
  <2>5. CASE \/ Describe \/ HandleChange \/ Forward \/ Teardown \/ TeardownEnds \/ W1Panics
             \/ \E d \in Inputs \cup Sensors : BeginRead(d)
             \/ ReadsValue \/ ReadsNothing
             \/ Announce
             \/ \E d \in (Inputs \cup Sensors) \cap DevicesOn(bus), v \in Int : HardwareChanges(d, v)
    BY <1>2, <1>4, <2>1, <2>5, ModbusOfOthers
  <2>6. ~(\/ SoftCall \/ GpioCall \/ UnipiCall \/ SnapcastCall \/ SnapcastNotifies \/ GpioAnnounces
          \/ \E ok, left \in BOOLEAN : SnapcastRequests(ok, left)
          \/ \E i \in Nat : FadeStarts(i)
          \/ \E d \in Levels : FadeWrites(d)
          \/ \E ok, left \in BOOLEAN : SnapcastPolls(ok, left)
          \/ LoopAnnounces \/ Notification \/ CallbackAnnounces
          \/ \E d \in Devs, v \in Int : ServerChanges(d, v))
    BY <1>2 DEF SoftCall, GpioCall, UnipiCall, SnapcastCall, SnapcastNotifies, GpioAnnounces, SnapcastRequests,
                FadeStarts, FadeWrites, SnapcastPolls, LoopAnnounces, Notification, CallbackAnnounces,
                ServerChanges, Turn, Works
  <2>. QED BY <1>4, <2>2, <2>3, <2>4, <2>5, <2>6, Steps DEF Initialize
<1>5. phase = "setup" => Initialize
  BY SetupSteps
<1>. QED BY <1>3, <1>4, <1>5

(* Once the worker of modbus has nothing to do, the hardware has the values *)
(* of all outputs that were written since the start and whose last action   *)
(* was not given up (modbus.go:181-228), whatever the hardware was before,  *)
(* for any number of outputs, coils, tries and commands: an action that is  *)
(* written while the status of another device is being stored does not undo *)
(* it.                                                                      *)
THEOREM OutputsFollow == Spec => []RegistersFollow
<1>1. Init => Shape /\ ModbusInv
  <2>1. Init => ModbusInv
    BY DEF Init, ModbusInv
  <2>. QED BY <2>1, ShapeInit
<1>2. Shape /\ ModbusInv /\ [Next]_vars => (Shape /\ ModbusInv)'
  BY ShapeNext, ModbusNext
<1>3. Shape /\ ModbusInv => RegistersFollow
  BY DEF ModbusInv, ModbusGood, ActionsFollow, InQueue, Writing, Pending, Half, RegistersFollow
<1>. QED BY <1>1, <1>2, <1>3, PTL DEF Spec

-------------------------------------------------------------------------------
(* A fade ends at the value asked for.                                      *)

(* What is asked of one output.                                             *)
Converging(d) ==
    /\ Fading(d) \/ FadesOf(d) # {} \/ hw[d] = status[d]
    /\ Fading(d) => own.fade[d].to = status[d] /\ own.fade[d].at # own.fade[d].to
    /\ \A i \in FadesOf(d) :
           /\ ~Fading(d) /\ FadesOf(d) = {i}
           /\ own.waiting[i].to = status[d]
           /\ own.waiting[i].from # own.waiting[i].to \/ hw[d] = own.waiting[i].to
Dimmed ==
    /\ \A i \in DOMAIN own.waiting : own.waiting[i].dev \in own.pwm
    /\ \A d \in Levels : Fading(d) => d \in own.pwm

LEMMA FadeMeans == FadeGood <=> Dimmed /\ \A d \in Levels \ own.crossed : Converging(d)
BY DEF FadeGood, Dimmed, Converging

LEMMA FadesOfMeans == \A d, i : i \in FadesOf(d) <=> i \in DOMAIN own.waiting /\ own.waiting[i].dev = d
BY DEF FadesOf

(* An output whose fades and values stay as they are.                       *)
LEMMA ConvergingSame ==
    ASSUME NEW d, Converging(d), hw'[d] = hw[d], status'[d] = status[d], own'.fade[d] = own.fade[d],
           own'.waiting = own.waiting
    PROVE  Converging(d)'
BY DEF Converging, Fading, FadesOf

LEMMA FadeFrame ==
    ASSUME FadeGood, UNCHANGED own, \A d \in Levels : hw'[d] = hw[d] /\ status'[d] = status[d]
    PROVE  FadeGood'
<1>1. Dimmed'
  BY FadeMeans DEF Dimmed, Fading
<1>2. \A d \in Levels \ own.crossed : Converging(d)'
  BY FadeMeans, ConvergingSame
<1>. QED BY <1>1, <1>2 DEF FadeGood, Dimmed, Converging

(* A call writes an output at once, or starts a fade.                       *)
LEMMA FadeOfCall == Shape /\ FadeGood /\ UnipiCall => FadeGood'
<1>. SUFFICES ASSUME Shape, FadeGood, UnipiCall PROVE FadeGood'
  OBVIOUS
<1>. DEFINE v == Clipped(Result(status[target], Head(todo)))
            f == NewFade(target, status[target], v)
<1>1. /\ Turn("unipi") /\ UNCHANGED target
      /\ status' = [status EXCEPT ![target] = v]
      /\ hw' = IF target \in Outputs \cup (Levels \ own.pwm) THEN [hw EXCEPT ![target] = v] ELSE hw
  BY DEF UnipiCall
<1>2. \/ target \notin own.pwm /\ own' = [own EXCEPT !.crossed = @ \ {target}]
      \/ /\ target \in own.pwm
         /\ own' = [own EXCEPT !.waiting = Append(@, f), !.crossed = CrossedAfter(target, v)]
  BY DEF UnipiCall
<1>3. /\ target \in Devs /\ bus = "unipi" /\ phase # "setup" /\ own \in UnipiOwn
      /\ own.pwm \subseteq Levels /\ own.waiting \in Seq(FadeCalls)
  BY <1>1, TurnFacts, UnipiOwnFacts
<1>4. /\ status'[target] = v
      /\ \A d \in Levels : d # target => status'[d] = status[d] /\ hw'[d] = hw[d]
  BY <1>1, ShapeParts, DevicesDiffer
<1>5. CASE target \notin own.pwm
  <2>1. /\ own'.pwm = own.pwm /\ own'.fade = own.fade /\ own'.waiting = own.waiting
        /\ own'.crossed = own.crossed \ {target}
    BY <1>2, <1>3, <1>5 DEF UnipiOwn
  <2>2. Dimmed'
    BY <2>1, FadeMeans DEF Dimmed, Fading
  <2>3. ASSUME NEW d \in Levels \ own'.crossed PROVE Converging(d)'
    <3>1. CASE d # target
      BY <1>4, <2>1, <2>3, <3>1, FadeMeans, ConvergingSame
    <3>2. CASE d = target
      <4>1. hw'[d] = v /\ status'[d] = v
        BY <1>1, <1>3, <1>4, <1>5, <3>2, ShapeParts
      <4>2. ~Fading(d) /\ FadesOf(d) = {}
        BY <1>5, <3>2, FadeMeans, FadesOfMeans DEF Dimmed
      <4>3. ~Fading(d)' /\ FadesOf(d)' = {}
        BY <2>1, <4>2 DEF Fading, FadesOf
      <4>. QED BY <4>1, <4>3 DEF Converging
    <3>. QED BY <3>1, <3>2
  <2>. QED BY <2>1, <2>2, <2>3 DEF FadeGood, Dimmed, Converging
<1>6. CASE target \in own.pwm
  <2>. DEFINE n == Len(own.waiting)
              crossed == CrossedAfter(target, v)
  <2>1. own' = [own EXCEPT !.waiting = Append(@, f), !.crossed = crossed]
    BY <1>2, <1>6
  <2>2. /\ own'.pwm = own.pwm /\ own'.fade = own.fade /\ own'.waiting = Append(own.waiting, f)
        /\ own'.crossed = crossed
    <3>. HIDE DEF f, crossed
    <3>. QED BY <1>3, <2>1 DEF UnipiOwn
  <2>3. f.dev = target /\ f.from = status[target] /\ f.to = v
    BY DEF NewFade
  <2>4. /\ n \in Nat /\ DOMAIN own.waiting = 1..n /\ DOMAIN own'.waiting = 1..n + 1
        /\ own'.waiting[n + 1] = f /\ \A i \in 1..n : own'.waiting[i] = own.waiting[i]
    <3>. HIDE DEF f
    <3>. QED BY <1>3, <2>2
  <2>5. \A i \in 1..n + 1 : i \in 1..n \/ i = n + 1
    BY <2>4
  <2>6. Dimmed'
    <3>. HIDE DEF f
    <3>1. \A i \in DOMAIN own'.waiting : own'.waiting[i].dev \in own'.pwm
      BY <1>6, <2>2, <2>3, <2>4, <2>5, FadeMeans DEF Dimmed
    <3>. QED BY <2>2, <3>1, FadeMeans DEF Dimmed, Fading
  <2>7. ASSUME NEW d \in Levels \ crossed PROVE Converging(d)'
    <3>1. CASE d # target
      <4>1. d \notin own.crossed
        BY <2>7, <3>1 DEF CrossedAfter
      <4>2. Fading(d)' = Fading(d) /\ own'.fade[d] = own.fade[d]
        BY <2>2 DEF Fading
      <4>3. \A i : i \in FadesOf(d)' <=> i \in FadesOf(d)
        <5>. HIDE DEF f
        <5>1. \A i : i \in FadesOf(d)' <=> i \in DOMAIN own'.waiting /\ own'.waiting[i].dev = d
          BY DEF FadesOf
        <5>2. n + 1 \notin 1..n
          BY <2>4
        <5>. QED BY <5>1, <5>2, <2>3, <2>4, <2>5, <3>1, FadesOfMeans
      <4>4. FadesOf(d)' = FadesOf(d) /\ \A i \in FadesOf(d) : own'.waiting[i] = own.waiting[i]
        BY <4>3, <2>4, FadesOfMeans
      <4>. HIDE DEF f
      <4>. QED BY <1>4, <3>1, <4>1, <4>2, <4>4, FadeMeans DEF Converging
    <3>2. CASE d = target
      <4>1. ~Fading(d) /\ FadesOf(d) = {} /\ (v = status[d] => d \notin own.crossed)
        BY <2>7, <3>2 DEF CrossedAfter
      <4>2. ~Fading(d)'
        BY <2>2, <4>1 DEF Fading
      <4>3. FadesOf(d)' = {n + 1}
        <5>. HIDE DEF f
        <5>1. \A i : i \in FadesOf(d)' <=> i \in DOMAIN own'.waiting /\ own'.waiting[i].dev = d
          BY DEF FadesOf
        <5>2. \A i \in 1..n : own.waiting[i].dev # d
          BY <4>1, <2>4, FadesOfMeans
        <5>3. n + 1 \in 1..n + 1
          BY <2>4
        <5>. QED BY <5>1, <5>2, <5>3, <2>3, <2>4, <2>5, <3>2
      <4>4. own'.waiting[n + 1].to = v /\ own'.waiting[n + 1].from = status[d] /\ status'[d] = v
        BY <1>4, <2>3, <2>4, <3>2
      <4>5. v # status[d] \/ hw'[d] = v
        <5>. SUFFICES ASSUME v = status[d] PROVE hw'[d] = v
          OBVIOUS
        <5>1. hw[d] = status[d]
          BY <4>1, FadeMeans DEF Converging
        <5>2. hw' = hw
          BY <1>1, <1>3, <1>6, DevicesDiffer
        <5>. QED BY <5>1, <5>2
      <4>. HIDE DEF f, v
      <4>. QED BY <4>2, <4>3, <4>4, <4>5 DEF Converging
    <3>. QED BY <3>1, <3>2
  <2>. QED BY <2>2, <2>6, <2>7 DEF FadeGood, Dimmed, Converging
<1>. QED BY <1>5, <1>6

(* The same of a queue r that is known by its elements.                     *)
LEMMA LeftOver ==
    ASSUME NEW S, NEW q \in Seq(S), NEW i \in DOMAIN q, NEW r,
           r = [j \in 1..Len(q) - 1 |-> IF j < i THEN q[j] ELSE q[j + 1]]
    PROVE  /\ \A j \in DOMAIN r : Skip(i, j) \in DOMAIN q /\ Skip(i, j) # i /\ r[j] = q[Skip(i, j)]
           /\ \A j, k \in DOMAIN r : Skip(i, j) = Skip(i, k) => j = k
           /\ \A k \in DOMAIN q : k # i => \E j \in DOMAIN r : Skip(i, j) = k
  BY Without

(* A fade leaves the queue: it is the only one of its output, and either    *)
(* goes somewhere or has nothing to do.                                     *)
LEMMA FadeOfStarts ==
    ASSUME Shape, FadeGood, NEW i, FadeStarts(i)
    PROVE  FadeGood'
<1>. DEFINE f == own.waiting[i]
            e == own.waiting[i].dev
            next == IF f.from = f.to THEN NoFade ELSE [at |-> f.from, to |-> f.to]
            rest == [j \in 1..Len(own.waiting) - 1 |->
                        IF j < i THEN own.waiting[j] ELSE own.waiting[j + 1]]
<1>1. /\ bus = "unipi" /\ phase # "setup" /\ i \in DOMAIN own.waiting /\ ~Fading(e)
      /\ e \in Levels
      /\ own'.pwm = own.pwm /\ own'.crossed = own.crossed
      /\ own'.waiting = rest
      /\ own'.fade = [own.fade EXCEPT ![e] = next]
      /\ UNCHANGED <<status, hw>>
  BY FadeStartsFacts
<1>2. /\ own.fade \in [Levels -> [at : Int, to : Int]] /\ own.waiting \in Seq(FadeCalls)
      /\ f.from \in Int /\ f.to \in Int
  BY <1>1, UnipiOwnFacts
<1>3. /\ \A j \in DOMAIN rest : /\ Skip(i, j) \in DOMAIN own.waiting /\ Skip(i, j) # i
                                /\ rest[j] = own.waiting[Skip(i, j)]
      /\ \A j, k \in DOMAIN rest : Skip(i, j) = Skip(i, k) => j = k
      /\ \A k \in DOMAIN own.waiting : k # i => \E j \in DOMAIN rest : Skip(i, j) = k
  <2>. DEFINE q == own.waiting
  <2>1. q \in Seq(FadeCalls) /\ i \in DOMAIN q
    BY <1>1, <1>2
  <2>2. rest = [j \in 1..Len(q) - 1 |-> IF j < i THEN q[j] ELSE q[j + 1]]
    OBVIOUS
  <2>. HIDE DEF q, rest
  <2>3. /\ \A j \in DOMAIN rest : Skip(i, j) \in DOMAIN q /\ Skip(i, j) # i /\ rest[j] = q[Skip(i, j)]
        /\ \A j, k \in DOMAIN rest : Skip(i, j) = Skip(i, k) => j = k
        /\ \A k \in DOMAIN q : k # i => \E j \in DOMAIN rest : Skip(i, j) = k
    BY <2>1, <2>2, LeftOver, SMTT(40)
  <2>. USE DEF q
  <2>. QED BY <2>3
<1>4. /\ own'.fade[e] = next
      /\ \A d \in Levels : d # e => own'.fade[d] = own.fade[d]
  <2>. HIDE DEF e, next
  <2>. QED BY <1>1, <1>2
<1>5. e \in own.pwm
  BY <1>1, FadeMeans DEF Dimmed
<1>6. \A d, j : j \in FadesOf(d)' <=> j \in DOMAIN rest /\ Skip(i, j) \in FadesOf(d)
  <2>. HIDE DEF rest
  <2>1. \A d, j : j \in FadesOf(d)' <=> j \in DOMAIN rest /\ rest[j].dev = d
    BY <1>1 DEF FadesOf
  <2>. QED BY <2>1, <1>3, FadesOfMeans
<1>7. Dimmed'
  <2>1. \A j \in DOMAIN rest : rest[j].dev \in own.pwm
    <3>. HIDE DEF rest
    <3>. QED BY <1>3, FadeMeans DEF Dimmed
  <2>2. \A d \in Levels : Fading(d)' => d \in own.pwm
    <3>. HIDE DEF e, next
    <3>. QED BY <1>4, <1>5, FadeMeans DEF Dimmed, Fading
  <2>. HIDE DEF rest
  <2>. QED BY <1>1, <2>1, <2>2 DEF Dimmed
<1>8. ASSUME NEW d \in Levels \ own.crossed PROVE Converging(d)'
  <2>1. Converging(d)
    BY FadeMeans
  <2>2. CASE d = e
    <3>1. i \in FadesOf(d)
      BY <1>1, <2>2, FadesOfMeans
    <3>2. /\ FadesOf(d) = {i} /\ f.to = status[d] /\ (f.from # f.to \/ hw[d] = f.to)
      BY <2>1, <3>1 DEF Converging
    <3>3. FadesOf(d)' = {}
      <4>. HIDE DEF rest
      <4>. QED BY <1>3, <1>6, <3>2
    <3>4. CASE f.from = f.to
      <4>. HIDE DEF f, e
      <4>. QED BY <1>1, <3>2, <3>3, <3>4, <1>4, <2>2 DEF Converging, Fading
    <3>5. CASE f.from # f.to
      <4>1. own'.fade[d] = [at |-> f.from, to |-> f.to]
        BY <1>4, <2>2, <3>5
      <4>2. own'.fade[d].at = f.from /\ own'.fade[d].to = f.to
        <5>. HIDE DEF f
        <5>. QED BY <4>1
      <4>3. own'.fade[d] # NoFade
        <5>. HIDE DEF f
        <5>. QED BY <3>5, <4>2 DEF NoFade
      <4>. HIDE DEF f, e
      <4>. QED BY <1>1, <3>2, <3>3, <3>5, <4>2, <4>3 DEF Converging, Fading
    <3>. QED BY <3>4, <3>5
  <2>3. CASE d # e
    <3>. HIDE DEF e, next, rest
    <3>1. Fading(d)' = Fading(d) /\ own'.fade[d] = own.fade[d]
      BY <1>4, <2>3 DEF Fading
    <3>2. i \notin FadesOf(d)
      BY <2>3, FadesOfMeans DEF e
    <3>3. FadesOf(d) # {} => FadesOf(d)' # {}
      <4>. SUFFICES ASSUME NEW k \in FadesOf(d) PROVE \E j : j \in FadesOf(d)'
        OBVIOUS
      <4>1. k \in DOMAIN own.waiting /\ k # i
        BY <3>2, FadesOfMeans
      <4>. QED BY <4>1, <1>3, <1>6
    <3>4. ASSUME NEW j \in FadesOf(d)'
          PROVE  /\ ~Fading(d)' /\ FadesOf(d)' = {j}
                 /\ own'.waiting[j].to = status'[d]
                 /\ own'.waiting[j].from # own'.waiting[j].to \/ hw'[d] = own'.waiting[j].to
      <4>1. j \in DOMAIN rest /\ Skip(i, j) \in FadesOf(d) /\ own'.waiting[j] = own.waiting[Skip(i, j)]
        BY <1>1, <1>3, <1>6
      <4>2. /\ ~Fading(d) /\ FadesOf(d) = {Skip(i, j)}
            /\ own.waiting[Skip(i, j)].to = status[d]
            /\ \/ own.waiting[Skip(i, j)].from # own.waiting[Skip(i, j)].to
               \/ hw[d] = own.waiting[Skip(i, j)].to
        BY <2>1, <4>1 DEF Converging
      <4>3. \A k \in FadesOf(d)' : k = j
        BY <1>3, <1>6, <4>1, <4>2
      <4>. QED BY <1>1, <3>1, <4>1, <4>2, <4>3
    <3>. QED BY <1>1, <2>1, <3>1, <3>3, <3>4 DEF Converging
  <2>. QED BY <2>2, <2>3
<1>. QED BY <1>1, <1>7, <1>8 DEF FadeGood, Dimmed, Converging

(* A fade comes closer, and ends at its value.                              *)
LEMMA FadeOfWrites ==
    ASSUME Shape, FadeGood, NEW e \in Levels, FadeWrites(e)
    PROVE  FadeGood'
<1>. DEFINE to == own.fade[e].to
            next == IF own.fade[e].at < to THEN own.fade[e].at + 1 ELSE own.fade[e].at - 1
            fade == IF next = to THEN NoFade ELSE [at |-> next, to |-> to]
<1>1. /\ bus = "unipi" /\ phase # "setup" /\ Fading(e)
      /\ hw' = [hw EXCEPT ![e] = next] /\ UNCHANGED status
      /\ own'.pwm = own.pwm /\ own'.crossed = own.crossed /\ own'.waiting = own.waiting
      /\ own'.fade = [own.fade EXCEPT ![e] = fade]
  BY FadeWritesFacts
<1>2. own.fade \in [Levels -> [at : Int, to : Int]] /\ e \in Devs
  BY <1>1, UnipiOwnFacts, DevicesDiffer
<1>. HIDE DEF to, next, fade
<1>3. /\ own'.fade[e] = fade /\ hw'[e] = next
      /\ \A d \in Levels : d # e => own'.fade[d] = own.fade[d] /\ hw'[d] = hw[d]
  BY <1>1, <1>2, ShapeParts, DevicesDiffer
<1>4. Dimmed'
  BY <1>1, <1>3, FadeMeans DEF Dimmed, Fading
<1>5. ASSUME NEW d \in Levels \ own.crossed PROVE Converging(d)'
  <2>1. Converging(d)
    BY FadeMeans
  <2>2. CASE d # e
    BY <1>1, <1>3, <2>1, <2>2, ConvergingSame
  <2>3. CASE d = e
    <3>1. to = status[d] /\ FadesOf(d) = {}
      BY <1>1, <2>1, <2>3 DEF Converging, to
    <3>2. FadesOf(d)' = {}
      BY <1>1, <3>1 DEF FadesOf
    <3>3. CASE next = to
      BY <1>1, <1>3, <2>3, <3>1, <3>2, <3>3 DEF Converging, Fading, fade
    <3>4. CASE next # to
      <4>1. fade.at = next /\ fade.to = to /\ fade # NoFade
        BY <3>4 DEF fade, NoFade
      <4>. QED BY <1>1, <1>3, <2>3, <3>1, <3>2, <3>4, <4>1 DEF Converging, Fading
    <3>. QED BY <3>3, <3>4
  <2>. QED BY <2>2, <2>3
<1>. QED BY <1>1, <1>4, <1>5 DEF FadeGood, Dimmed, Converging

LEMMA FadeInitialized ==
    ASSUME Shape, bus = "unipi", Initialize
    PROVE  FadeGood'
<1>1. UnipiInitialize /\ UNCHANGED hw
  BY DEF Initialize
<1>2. PICK pwm \in SUBSET Levels, unread \in SUBSET Devs :
          /\ status' = [d \in Devs |-> Initialized(d, unread)]
          /\ own' = [pwm |-> pwm, waiting |-> <<>>, fade |-> [d \in Levels |-> NoFade],
                     crossed |-> unread \cap Levels]
  BY <1>1, UnipiStarts
<1>3. /\ own'.waiting = <<>> /\ own'.crossed = unread \cap Levels
      /\ \A d \in Levels : own'.fade[d] = NoFade
  BY <1>2
<1>4. \A d \in Levels \ own'.crossed : status'[d] = hw'[d]
  BY <1>1, <1>2, <1>3, DevicesDiffer DEF Initialized
<1>5. \A d \in Levels : ~Fading(d)' /\ FadesOf(d)' = {}
  BY <1>3 DEF Fading, FadesOf
<1>6. DOMAIN own'.waiting = {}
  BY <1>3
<1>. QED BY <1>4, <1>5, <1>6 DEF FadeGood

LEMMA FadeOfOthers ==
    ASSUME Shape, bus = "unipi", phase # "setup", FadeGood,
           \/ Describe \/ HandleChange \/ Forward \/ Teardown \/ TeardownEnds \/ W1Panics \/ CommandEnds
           \/ \E d \in Devs, action \in {"SET", "RESET", "PUSH", "TOGGLE", "GET"} : DigitalCommand(d, action)
           \/ \E d \in Devs, op \in {"set", "add"}, v \in Int : AnalogCommand(d, op, v)
           \/ \E d \in Inputs \cup Sensors : BeginRead(d)
           \/ ReadsValue \/ ReadsNothing
           \/ Announce
           \/ \E d \in (Inputs \cup Sensors) \cap DevicesOn(bus), v \in Int : HardwareChanges(d, v)
    PROVE  FadeGood'
<1>1. CASE \/ Describe \/ HandleChange \/ Forward \/ Teardown \/ TeardownEnds \/ W1Panics \/ CommandEnds
           \/ \E d \in Devs, action \in {"SET", "RESET", "PUSH", "TOGGLE", "GET"} : DigitalCommand(d, action)
           \/ \E d \in Devs, op \in {"set", "add"}, v \in Int : AnalogCommand(d, op, v)
           \/ \E d \in Inputs \cup Sensors : BeginRead(d)
           \/ Announce
  <2>1. UNCHANGED <<status, hw, own>>
    BY <1>1 DEF Describe, HandleChange, Forward, Teardown, TeardownEnds, W1Panics, CommandEnds, DigitalCommand,
                AnalogCommand, BeginRead, Announce
  <2>. QED BY <2>1, FadeFrame
<1>2. CASE ReadsValue \/ ReadsNothing
  <2>1. /\ worker.pc = "read" /\ UNCHANGED <<hw, own>>
        /\ status' = status \/ status' = [status EXCEPT ![worker.dev] = hw[worker.dev]]
    BY <1>2, ReadsFacts
  <2>2. worker.dev \in Inputs \cup Sensors
    BY <2>1, ShapeParts DEF WorkerInv
  <2>3. \A d \in Levels : status'[d] = status[d]
    <3>1. status \in [Devs -> Int]
      BY ShapeParts DEF ValuesTyped
    <3>2. \A d \in Levels : d # worker.dev /\ d \in Devs
      BY <2>2, DevicesDiffer DEF Devs
    <3>. QED BY <2>1, <3>1, <3>2
  <2>. QED BY <2>1, <2>3, FadeFrame
<1>3. ASSUME NEW d \in (Inputs \cup Sensors) \cap DevicesOn(bus), NEW v \in Int, HardwareChanges(d, v)
      PROVE  FadeGood'
  <2>1. hw' = [hw EXCEPT ![d] = v] /\ UNCHANGED <<status, own>>
    BY <1>3 DEF HardwareChanges
  <2>2. \A e \in Levels : hw'[e] = hw[e]
    BY <2>1, ShapeParts, DevicesDiffer
  <2>. QED BY <2>1, <2>2, FadeFrame
<1>. QED BY <1>1, <1>2, <1>3

LEMMA FadeNext == Shape /\ FadeInv /\ [Next]_vars => FadeInv'
<1>1. Shape /\ FadeInv /\ UNCHANGED vars => FadeInv'
  <2>. SUFFICES ASSUME FadeInv, UNCHANGED vars, bus' = "unipi" /\ phase' # "setup" PROVE FadeGood'
    BY DEF FadeInv
  <2>. QED BY FadeFrame DEF FadeInv, vars, confVars, handlerVars
<1>. SUFFICES ASSUME Shape, FadeInv, Next, bus' = "unipi" PROVE FadeGood'
  BY <1>1 DEF FadeInv
<1>2. bus = "unipi"
  BY SameBus
<1>3. CASE phase = "setup"
  BY <1>2, <1>3, SetupSteps, FadeInitialized
<1>4. CASE phase # "setup"
  <2>1. FadeGood
    BY <1>2, <1>4 DEF FadeInv
  <2>2. CASE UnipiCall
    BY <2>1, <2>2, FadeOfCall
  <2>3. CASE \E i \in Nat : FadeStarts(i)
    BY <2>1, <2>3, FadeOfStarts
  <2>4. CASE \E d \in Levels : FadeWrites(d)
    BY <2>1, <2>4, FadeOfWrites
  <2>5. CASE \/ Describe \/ HandleChange \/ Forward \/ Teardown \/ TeardownEnds \/ W1Panics \/ CommandEnds
             \/ \E d \in Devs, action \in {"SET", "RESET", "PUSH", "TOGGLE", "GET"} : DigitalCommand(d, action)
             \/ \E d \in Devs, op \in {"set", "add"}, v \in Int : AnalogCommand(d, op, v)
             \/ \E d \in Inputs \cup Sensors : BeginRead(d)
             \/ ReadsValue \/ ReadsNothing
             \/ Announce
             \/ \E d \in (Inputs \cup Sensors) \cap DevicesOn(bus), v \in Int : HardwareChanges(d, v)
    BY <1>2, <1>4, <2>1, <2>5, FadeOfOthers
  <2>6. ~(\/ SoftCall \/ GpioCall \/ ModbusCall \/ ModbusSends \/ ModbusAssigns \/ SnapcastCall
          \/ SnapcastNotifies \/ GpioAnnounces \/ ModbusTakes
          \/ \E ok, reached \in BOOLEAN : ModbusWrites(ok, reached)
          \/ \E ok, left \in BOOLEAN : SnapcastRequests(ok, left)
          \/ \E ok, left \in BOOLEAN : SnapcastPolls(ok, left)
          \/ LoopAnnounces \/ Notification \/ CallbackAnnounces
          \/ \E d \in Devs, v \in Int : ServerChanges(d, v))
    BY <1>2 DEF SoftCall, GpioCall, ModbusCall, ModbusSends, ModbusAssigns, SnapcastCall, SnapcastNotifies,
                GpioAnnounces, ModbusTakes, ModbusWrites, SnapcastRequests, SnapcastPolls, LoopAnnounces,
                Notification, CallbackAnnounces, ServerChanges, Turn, Works, HasWorker
  <2>. QED BY <1>4, <2>2, <2>3, <2>4, <2>5, <2>6, Steps DEF Initialize
<1>. QED BY <1>3, <1>4

(* A PWM output ends at the value asked for last, unless fades overlapped   *)
(* (unipibus.go:163-180, 190), for any number of outputs and any commands:  *)
(* what the fades that wait and the one that writes are heading for is the  *)
(* status.                                                                  *)
THEOREM FadesEnd == Spec => []FadesConverge
<1>1. Init => Shape /\ FadeInv
  <2>1. Init => FadeInv
    BY DEF Init, FadeInv
  <2>. QED BY <2>1, ShapeInit
<1>2. Shape /\ FadeInv /\ [Next]_vars => (Shape /\ FadeInv)'
  BY ShapeNext, FadeNext
<1>3. Shape /\ FadeInv => FadesConverge
  BY DEF FadeInv, FadeGood, FadesConverge
<1>. QED BY <1>1, <1>2, <1>3, PTL DEF Spec
===============================================================================
