----------------------------- MODULE StatusProofs -----------------------------
(***************************************************************************)
(* Proofs about Status: types, that no view of a status goes back, and that *)
(* the rule is not executed twice for one change.                           *)
(***************************************************************************)
EXTENDS Status, SequenceTheorems, TLAPS

(* Updates wait in the order of their versions, between the global status   *)
(* and the holders.                                                         *)
IsUpdate(i) == i \in 1..Len(queue) /\ queue[i].kind = "update"
QueueInv ==
    /\ \A m \in Modules : current[m] <= holder[m]
    /\ \A i \in 1..Len(queue) : IsUpdate(i) =>
          current[queue[i].module] <= queue[i].version /\ queue[i].version <= holder[queue[i].module]
    /\ \A i, j \in 1..Len(queue) :
          i < j /\ IsUpdate(i) /\ IsUpdate(j) /\ queue[i].module = queue[j].module
             => queue[i].version <= queue[j].version

(* What a snapshot tells the actor of a module.                             *)
Tells(s, m) == s.own /\ s.status[m] # 0

(* What the snapshots tell waits in order, between what the actor was told  *)
(* before and the global status.                                            *)
SnapInv ==
    /\ \A m \in Modules : told[m] <= current[m]
    /\ \A i \in 1..Len(snapshots), m \in Modules : Tells(snapshots[i], m) =>
          told[m] <= snapshots[i].status[m] /\ snapshots[i].status[m] <= current[m]
    /\ \A i, j \in 1..Len(snapshots), m \in Modules :
          i < j /\ Tells(snapshots[i], m) /\ Tells(snapshots[j], m)
             => snapshots[i].status[m] <= snapshots[j].status[m]

(* So do the notifications of each device. *)
OutInv ==
    /\ \A r \in Remotes, m \in Modules : known[r][m] <= current[m]
    /\ \A i \in 1..Len(outbox) : \A m \in DOMAIN outbox[i].note :
          known[outbox[i].to][m] <= outbox[i].note[m] /\ outbox[i].note[m] <= current[m]
    /\ \A i, j \in 1..Len(outbox) : i < j /\ outbox[i].to = outbox[j].to =>
          \A m \in DOMAIN outbox[i].note \cap DOMAIN outbox[j].note :
              outbox[i].note[m] <= outbox[j].note[m]

(* The previous state is what was told, but for the strays, and the rule    *)
(* ran for statuses no newer than what was told.                            *)
ExecInv ==
    /\ \A m \in Modules \ strays : previous[m] = told[m]
    /\ \A e \in executed, m \in Triggers : e[m] <= told[m]

(* Listeners are told of the module whose update is handled.                *)
HandlingInv == toNotify # {} => handling # All

IInv == TypeOK /\ HandlingInv /\ QueueInv /\ SnapInv /\ OutInv /\ ExecInv

(* What the three channels carry. *)
Requests == Updates \cup Commands
Mails == [to : Remotes, note : Notes]

-------------------------------------------------------------------------------
(* A channel that holds what it held and maybe one more message.            *)
Grown(after, q, e) ==
    /\ Len(q) \in Nat /\ Len(after) \in {Len(q), Len(q) + 1}
    /\ \A i \in 1..Len(q) : after[i] = q[i]
    /\ Len(after) = Len(q) + 1 => after[Len(q) + 1] = e

(* A channel after an offer holds what it held and maybe the message.       *)
LEMMA OfferElements ==
    ASSUME NEW S, NEW q \in Seq(S), NEW e \in S, Len(q) <= BufferSize
    PROVE  /\ Offer(q, e) \in Seq(S) /\ Len(Offer(q, e)) <= BufferSize
           /\ Grown(Offer(q, e), q, e)
<1>0. BufferSize \in Nat
  BY BufferAssumption
<1>1. Len(q) \in Nat
  BY LenProperties
<1>2. CASE Len(q) < BufferSize
  <2>1. Offer(q, e) = Append(q, e)
    BY <1>2 DEF Offer
  <2> QED
    BY <1>0, <1>1, <1>2, <2>1, AppendProperties DEF Grown
<1>3. CASE ~(Len(q) < BufferSize)
  BY <1>0, <1>1, <1>3 DEF Offer, Grown
<1> QED
  BY <1>2, <1>3

LEMMA TailElements ==
    ASSUME NEW S, NEW q \in Seq(S), q # <<>>
    PROVE  /\ Len(q) \in Nat \ {0} /\ Head(q) = q[1] /\ Head(q) \in S
           /\ Tail(q) \in Seq(S) /\ Len(Tail(q)) = Len(q) - 1
           /\ \A i \in 1..Len(Tail(q)) : Tail(q)[i] = q[i + 1]
BY HeadTailProperties, EmptySeq

(* Versions are natural numbers, and the successors of those that are not   *)
(* the last are versions.                                                   *)
LEMMA VersionFacts ==
    /\ Versions \subseteq Nat
    /\ \A m \in Modules : 0..MaxVersion[m] \subseteq Versions
    /\ Nothing \in [Modules -> Nat]
    /\ Modules # {} => 0 \in Versions
BY StatusAssumption DEF Versions, Nothing

(* A note is a status of some modules. *)
LEMMA NoteFacts ==
    ASSUME NEW n \in Notes
    PROVE  DOMAIN n \subseteq Modules /\ \A m \in DOMAIN n : n[m] \in Versions
BY DEF Notes

LEMMA IsNote ==
    ASSUME NEW S \in SUBSET Modules, NEW f \in [S -> Versions]
    PROVE  f \in Notes
BY DEF Notes

-------------------------------------------------------------------------------
(* Types. *)
LEMMA InitTypes == Init => TypeOK
<1> SUFFICES ASSUME Init PROVE TypeOK
  OBVIOUS
<1>1. Nothing \in [Modules -> Versions]
  BY VersionFacts DEF Nothing
<1>2. \A S : <<>> \in Seq(S) /\ Len(<<>>) = 0
  BY EmptySeq
<1>3. MaxCommands \in Nat /\ BufferSize \in Nat
  BY StatusAssumption, BufferAssumption
<1>4. /\ holder \in [Modules -> Versions] /\ current \in [Modules -> Versions]
      /\ previous \in [Modules -> Versions] /\ told \in [Modules -> Versions] /\ known \in [Remotes -> [Modules -> Versions]]
      /\ listeners \in [Remotes -> SUBSET Queries]
  BY <1>1 DEF Init
<1>5. /\ queue \in Seq(Updates \cup Commands) /\ Len(queue) <= BufferSize
      /\ outbox \in Seq([to : Remotes, note : Notes]) /\ Len(outbox) <= BufferSize
      /\ snapshots \in Seq(Snapshots) /\ Len(snapshots) <= BufferSize
  BY <1>2, <1>3 DEF Init
<1>6. /\ ready \subseteq {"status", "actor"} /\ idle \subseteq Remotes /\ toNotify \subseteq Remotes
      /\ inactive \subseteq Remotes /\ handling \in Queries /\ executed \subseteq [Triggers -> Versions]
      /\ lost \subseteq Modules /\ missed \in BOOLEAN /\ misled \in BOOLEAN /\ strays \subseteq Modules
  BY DEF Init, Queries
<1>7. commands \in 0..MaxCommands
  BY <1>3 DEF Init
<1> QED
  BY <1>4, <1>5, <1>6, <1>7 DEF TypeOK

LEMMA SetStatusTypes ==
    ASSUME TypeOK, NEW m \in Modules, SetStatus(m)
    PROVE  TypeOK'
<1>0. holder[m] \in Nat /\ MaxVersion[m] \in Nat /\ holder[m] < MaxVersion[m]
  BY VersionFacts, StatusAssumption DEF TypeOK, SetStatus
<1>1. holder[m] + 1 \in Versions
  <2>1. holder[m] + 1 \in 0..MaxVersion[m]
    BY <1>0
  <2> QED
    BY <2>1, VersionFacts
<1>2. holder' \in [Modules -> Versions]
  BY <1>1 DEF TypeOK, SetStatus
<1>3. queue' \in Seq(Updates \cup Commands) /\ Len(queue') <= BufferSize
  <2>1. [kind |-> "update", module |-> m, version |-> holder[m] + 1] \in Updates \cup Commands
    BY <1>1 DEF Updates
  <2> QED
    BY <2>1, OfferElements DEF TypeOK, SetStatus
<1>4. lost' \subseteq Modules /\ missed' \in BOOLEAN
  BY DEF TypeOK, SetStatus
<1> QED
  BY <1>2, <1>3, <1>4 DEF TypeOK, SetStatus, statusVars, remoteVars, actorVars, memory

LEMMA CommandTypes ==
    ASSUME TypeOK, NEW r \in Remotes \cup {Nil}, NEW kind \in {"subscribe", "get"}, NEW query \in Queries,
           Command(r, kind, query)
    PROVE  TypeOK'
<1>1. [kind |-> kind, from |-> r, query |-> query] \in Updates \cup Commands
  BY DEF Commands
<1>2. queue' \in Seq(Updates \cup Commands) /\ Len(queue') <= BufferSize
  BY <1>1, OfferElements DEF TypeOK, Command
<1>3. commands' \in 0..MaxCommands
  BY StatusAssumption DEF TypeOK, Command
<1> QED
  BY <1>2, <1>3 DEF TypeOK, Command, statusVars, remoteVars, actorVars, memory

LEMMA ForeignTypes ==
    ASSUME TypeOK, NEW status \in [Modules -> Versions], ForeignNotification(status)
    PROVE  TypeOK'
<1>1. [own |-> FALSE, status |-> status] \in Snapshots
  BY DEF Snapshots
<1>2. snapshots' \in Seq(Snapshots) /\ Len(snapshots') <= BufferSize
  BY <1>1, OfferElements DEF TypeOK, ForeignNotification
<1>3. commands' \in 0..MaxCommands /\ misled' \in BOOLEAN
  BY StatusAssumption DEF TypeOK, ForeignNotification
<1> QED
  BY <1>2, <1>3 DEF TypeOK, ForeignNotification, statusVars, remoteVars, memory

LEMMA DeliversTypes ==
    ASSUME TypeOK, Delivers
    PROVE  TypeOK'
<1> DEFINE n == Head(outbox)
           view == [m \in Modules |-> IF m \in DOMAIN n.note THEN n.note[m] ELSE known[n.to][m]]
<1>0. outbox \in Seq(Mails) /\ outbox # <<>> /\ Len(outbox) <= BufferSize /\ outbox' = Tail(outbox)
  BY DEF TypeOK, Delivers, Mails
<1>1. n \in Mails /\ outbox' \in Seq(Mails) /\ Len(outbox') <= BufferSize
  BY <1>0, TailElements, BufferAssumption
<1>2. n.to \in Remotes /\ n.note \in Notes
  BY <1>1 DEF Mails
<1>3. view \in [Modules -> Versions]
  BY <1>2, NoteFacts DEF TypeOK
<1>4. known' = [known EXCEPT ![n.to] = view]
  BY DEF Delivers, TypeOK
<1>5. known' \in [Remotes -> [Modules -> Versions]]
  BY <1>2, <1>3, <1>4 DEF TypeOK
<1> QED
  BY <1>1, <1>5 DEF TypeOK, Delivers, Mails, statusVars, actorVars, memory

(* What a status command is answered, and what a listener is told. *)
LEMMA Answers ==
    ASSUME TypeOK, NEW query \in Queries
    PROVE  /\ StatusOf(query) \in Notes
           /\ \A m \in DOMAIN StatusOf(query) : m \in Modules /\ StatusOf(query)[m] = current[m]
<1> DEFINE S == {x \in (IF query = All THEN Modules ELSE {query}) : current[x] # 0}
<1>1. S \in SUBSET Modules
  BY DEF Queries
<1>2. StatusOf(query) = [m \in S |-> current[m]]
  BY DEF StatusOf
<1>3. [m \in S |-> current[m]] \in [S -> Versions]
  BY <1>1 DEF TypeOK
<1>4. StatusOf(query) \in Notes
  BY <1>1, <1>2, <1>3, IsNote
<1> QED
  BY <1>1, <1>2, <1>4

LEMMA Notifications ==
    ASSUME TypeOK, handling \in Modules
    PROVE  LET n == [m \in {handling} |-> current[m]] IN
           n \in Notes /\ \A m \in DOMAIN n : m \in Modules /\ n[m] = current[m]
<1> DEFINE n == [m \in {handling} |-> current[m]]
<1>1. {handling} \in SUBSET Modules /\ n \in [{handling} -> Versions]
  BY DEF TypeOK
<1>2. n \in Notes
  BY <1>1, IsNote
<1> QED
  BY <1>2

(* A command from inside gives the actor a snapshot that tells nothing but  *)
(* the global status.                                                       *)
LEMMA InsideAnswers ==
    ASSUME TypeOK, NEW query \in Queries
    PROVE  /\ [own |-> TRUE, status |-> Told(StatusOf(query))] \in Snapshots
           /\ \A m \in Modules : Told(StatusOf(query))[m] \in {0, current[m]}
<1>1. StatusOf(query) \in Notes
  BY Answers
<1>2. \A m \in DOMAIN StatusOf(query) : StatusOf(query)[m] \in Versions /\ StatusOf(query)[m] = current[m]
  BY <1>1, Answers, NoteFacts
<1>3. \A m \in Modules : 0 \in Versions
  BY VersionFacts
<1>4. Told(StatusOf(query)) \in [Modules -> Versions]
  BY <1>2, <1>3 DEF Told
<1>5. \A m \in Modules : Told(StatusOf(query))[m] \in {0, current[m]}
  BY <1>2 DEF Told
<1> QED
  BY <1>4, <1>5 DEF Snapshots

(* Who sent a command, and what it asks for. *)
LEMMA CommandFacts ==
    ASSUME TypeOK, HandleCommand
    PROVE  /\ Head(queue).from \in Remotes \cup {Nil} /\ Head(queue).query \in Queries
           /\ queue' \in Seq(Requests) /\ Len(queue') <= BufferSize
<1> DEFINE c == Head(queue)
<1>0. /\ queue \in Seq(Requests) /\ queue # <<>> /\ Len(queue) <= BufferSize
      /\ queue' = Tail(queue) /\ BufferSize \in Nat
  BY BufferAssumption DEF TypeOK, HandleCommand, Requests
<1>1. c \in Requests /\ queue' \in Seq(Requests) /\ Len(queue') <= BufferSize
  BY <1>0, TailElements
<1>2. c \in Commands
  BY <1>1 DEF HandleCommand, Updates, Requests
<1> QED
  BY <1>1, <1>2 DEF Commands

LEMMA HandleCommandTypes ==
    ASSUME TypeOK, HandleCommand
    PROVE  TypeOK'
<1> DEFINE c == Head(queue)
           mail == [to |-> c.from, note |-> StatusOf(c.query)]
           snapshot == [own |-> TRUE, status |-> Told(StatusOf(c.query))]
<1>1. c.from \in Remotes \cup {Nil} /\ c.query \in Queries
  BY CommandFacts
<1>2. queue' \in Seq(Updates \cup Commands) /\ Len(queue') <= BufferSize
  BY CommandFacts DEF Requests
<1>3. c.from # Nil => mail \in Mails
  BY <1>1, Answers DEF Mails
<1>4. snapshot \in Snapshots
  BY <1>1, InsideAnswers
<1>5. /\ outbox' = outbox \/ (c.from # Nil /\ outbox' = Offer(outbox, mail))
      /\ snapshots' = snapshots \/ snapshots' = Offer(snapshots, snapshot)
  BY DEF HandleCommand
<1>6. /\ outbox \in Seq(Mails) /\ Len(outbox) <= BufferSize
      /\ snapshots \in Seq(Snapshots) /\ Len(snapshots) <= BufferSize
  BY DEF TypeOK, Mails
<1> HIDE DEF mail, snapshot
<1>7. outbox' \in Seq([to : Remotes, note : Notes]) /\ Len(outbox') <= BufferSize
  BY <1>3, <1>5, <1>6, OfferElements DEF Mails
<1>8. snapshots' \in Seq(Snapshots) /\ Len(snapshots') <= BufferSize
  BY <1>4, <1>5, <1>6, OfferElements
<1>9. listeners' \in [Remotes -> SUBSET Queries] /\ idle' \subseteq Remotes
  BY <1>1 DEF TypeOK, HandleCommand
<1> QED
  BY <1>2, <1>7, <1>8, <1>9 DEF TypeOK, HandleCommand, memory

LEMMA HandleUpdateTypes ==
    ASSUME TypeOK, HandleUpdate
    PROVE  TypeOK' /\ HandlingInv'
<1> DEFINE u == Head(queue)
<1>0. /\ queue \in Seq(Requests) /\ queue # <<>> /\ Len(queue) <= BufferSize
      /\ queue' = Tail(queue)
  BY DEF TypeOK, HandleUpdate, Requests
<1>1. u \in Requests /\ queue' \in Seq(Requests) /\ Len(queue') <= BufferSize
  BY <1>0, TailElements, BufferAssumption
<1>2. u \in Updates
  BY <1>1 DEF HandleUpdate, Requests, Commands
<1>3. u.module \in Modules /\ u.version \in Versions
  BY <1>2 DEF Updates
<1>4. current' \in [Modules -> Versions]
  BY <1>3 DEF TypeOK, HandleUpdate
<1>5. handling' \in Queries /\ handling' # All
  BY <1>3, StatusAssumption DEF HandleUpdate, Queries
<1>6. toNotify' \subseteq Remotes /\ inactive' \subseteq Remotes
  BY DEF TypeOK, HandleUpdate
<1> QED
  BY <1>1, <1>4, <1>5, <1>6 DEF TypeOK, HandlingInv, HandleUpdate, Requests, remoteVars, actorVars, memory

LEMMA NotifyTypes ==
    ASSUME TypeOK, HandlingInv, NEW r \in Remotes, Notify(r)
    PROVE  TypeOK' /\ HandlingInv'
<1> DEFINE n == [m \in {handling} |-> current[m]]
<1>1. handling \in Modules
  BY DEF TypeOK, HandlingInv, Notify, Queries
<1>2. n \in Notes
  BY <1>1, Notifications
<1>3. [to |-> r, note |-> n] \in [to : Remotes, note : Notes]
  BY <1>2
<1>4. outbox' \in Seq([to : Remotes, note : Notes]) /\ Len(outbox') <= BufferSize
  <2>1. /\ outbox' = Offer(outbox, [to |-> r, note |-> n])
        /\ outbox \in Seq([to : Remotes, note : Notes]) /\ Len(outbox) <= BufferSize
    BY DEF TypeOK, Notify
  <2> QED
    BY <1>3, <2>1, OfferElements
<1> QED
  BY <1>4 DEF TypeOK, HandlingInv, Notify, actorVars, memory

LEMMA FinishUpdateTypes ==
    ASSUME TypeOK, FinishUpdate
    PROVE  TypeOK' /\ HandlingInv'
<1>1. snapshots' \in Seq(Snapshots) /\ Len(snapshots') <= BufferSize
  <2> DEFINE s == [own |-> TRUE, status |-> current]
  <2>1. snapshots \in Seq(Snapshots) /\ Len(snapshots) <= BufferSize /\ s \in Snapshots
    BY DEF TypeOK, Snapshots
  <2>2. snapshots' = Offer(snapshots, s) \/ snapshots' = snapshots
    BY DEF FinishUpdate
  <2> QED
    BY <2>1, <2>2, OfferElements
<1>2. listeners' \in [Remotes -> SUBSET Queries]
  BY DEF TypeOK, FinishUpdate
<1>3. missed' \in BOOLEAN
  BY DEF TypeOK, FinishUpdate
<1> QED
  BY <1>1, <1>2, <1>3 DEF TypeOK, HandlingInv, FinishUpdate, Queries, remoteVars, memory

LEMMA ActorHandlesTypes ==
    ASSUME TypeOK, ActorHandles
    PROVE  TypeOK'
<1> DEFINE s == Head(snapshots)
<1>0. /\ snapshots \in Seq(Snapshots) /\ snapshots # <<>> /\ Len(snapshots) <= BufferSize
      /\ snapshots' = Tail(snapshots)
  BY DEF TypeOK, ActorHandles
<1>1. /\ s \in Snapshots /\ snapshots' \in Seq(Snapshots)
      /\ Len(snapshots') <= BufferSize
  BY <1>0, TailElements, BufferAssumption
<1>2. s.status \in [Modules -> Versions]
  BY <1>1 DEF Snapshots
<1>3. [m \in Triggers |-> s.status[m]] \in [Triggers -> Versions]
  BY <1>2, StatusAssumption
<1>4. executed' \subseteq [Triggers -> Versions]
  BY <1>3 DEF TypeOK, ActorHandles, Executes
<1>5. Heard(s) \in [Modules -> Versions]
  BY <1>2 DEF TypeOK, Heard
<1>6. told' = Heard(s) /\ previous' = s.status /\ strays' \subseteq Modules
  BY DEF ActorHandles, Remembers
<1> QED
  BY <1>1, <1>2, <1>4, <1>5, <1>6 DEF TypeOK, ActorHandles, statusVars, remoteVars

LEMMA ActorFailsTypes ==
    ASSUME TypeOK, ActorFails
    PROVE  TypeOK'
<1>1. snapshots' \in Seq(Snapshots) /\ Len(snapshots') <= BufferSize
  BY EmptySeq, BufferAssumption DEF ActorFails
<1>2. missed' \in BOOLEAN
  BY DEF TypeOK, ActorFails
<1> QED
  BY <1>1, <1>2 DEF TypeOK, ActorFails, statusVars, remoteVars, memory

(* Each step keeps the types, and the listeners waiting for a module.       *)
LEMMA StepTypes ==
    ASSUME TypeOK, HandlingInv, [Next]_vars
    PROVE  TypeOK' /\ HandlingInv'
<1>1. CASE UNCHANGED vars
  BY <1>1 DEF TypeOK, HandlingInv, vars, statusVars, remoteVars, actorVars, memory
<1>2. ASSUME NEW h \in {"status", "actor"}, Subscribes(h) PROVE TypeOK' /\ HandlingInv'
  BY <1>2 DEF TypeOK, HandlingInv, Subscribes, statusVars, remoteVars, actorVars, memory
<1>3. ASSUME NEW m \in Modules, SetStatus(m) PROVE TypeOK' /\ HandlingInv'
  BY <1>3, SetStatusTypes DEF HandlingInv, SetStatus, statusVars
<1>4. ASSUME NEW r \in Remotes \cup {Nil}, NEW kind \in {"subscribe", "get"}, NEW query \in Queries,
             Command(r, kind, query)
      PROVE  TypeOK' /\ HandlingInv'
  BY <1>4, CommandTypes DEF HandlingInv, Command, statusVars
<1>5. ASSUME NEW r \in Remotes, BecomesIdle(r) PROVE TypeOK' /\ HandlingInv'
  BY <1>5 DEF TypeOK, HandlingInv, BecomesIdle, statusVars, remoteVars, actorVars, memory
<1>6. CASE Delivers
  BY <1>6, DeliversTypes DEF HandlingInv, Delivers, statusVars
<1>7. CASE HandleCommand
  BY <1>7, HandleCommandTypes DEF HandlingInv, HandleCommand
<1>8. CASE HandleUpdate
  BY <1>8, HandleUpdateTypes
<1>9. CASE FinishUpdate
  BY <1>9, FinishUpdateTypes
<1>10. ASSUME NEW r \in Remotes, Notify(r) PROVE TypeOK' /\ HandlingInv'
  BY <1>10, NotifyTypes
<1>11. CASE ActorHandles
  BY <1>11, ActorHandlesTypes DEF HandlingInv, ActorHandles, statusVars
<1>12. CASE ActorFails
  BY <1>12, ActorFailsTypes DEF HandlingInv, ActorFails, statusVars
<1>13. ASSUME NEW status \in [Modules -> Versions], ForeignNotification(status)
       PROVE  TypeOK' /\ HandlingInv'
  BY <1>13, ForeignTypes DEF HandlingInv, ForeignNotification, statusVars
<1> QED
  BY <1>1, <1>2, <1>3, <1>4, <1>5, <1>6, <1>7, <1>8, <1>9, <1>10, <1>11, <1>12, <1>13
     DEF Next, StatusHandles

(* The state of the status handler, the actor and the devices has the types *)
(* the code gives it, and no channel holds more than its capacity           *)
(* (status.go, actor.go, handler.go).                                       *)
THEOREM TypeCorrect == Spec => []TypeOK
<1>1. Init => TypeOK /\ HandlingInv
  BY InitTypes DEF Init, HandlingInv
<1>2. TypeOK /\ HandlingInv /\ [Next]_vars => TypeOK' /\ HandlingInv'
  BY StepTypes
<1> QED
  BY <1>1, <1>2, PTL DEF Spec
-------------------------------------------------------------------------------
(* Everything that is compared is a number. *)
LEMMA Numbers ==
    ASSUME TypeOK
    PROVE  /\ \A m \in Modules : current[m] \in Nat /\ holder[m] \in Nat /\ told[m] \in Nat
           /\ \A r \in Remotes, m \in Modules : known[r][m] \in Nat
           /\ Len(queue) \in Nat /\ Len(snapshots) \in Nat /\ Len(outbox) \in Nat
           /\ \A i \in 1..Len(queue) : queue[i].kind = "update" =>
                 queue[i] \in Updates /\ queue[i].module \in Modules /\ queue[i].version \in Nat
           /\ \A i \in 1..Len(snapshots), m \in Modules : snapshots[i].status[m] \in Nat
           /\ \A i \in 1..Len(outbox) : outbox[i].to \in Remotes /\ outbox[i].note \in Notes
<1>1. /\ queue \in Seq(Requests) /\ snapshots \in Seq(Snapshots) /\ outbox \in Seq(Mails)
  BY DEF TypeOK, Requests, Mails
<1>2. \A S : \A q \in Seq(S) : Len(q) \in Nat /\ \A i \in 1..Len(q) : q[i] \in S
  BY ElementOfSeq, LenProperties
<1>3. /\ \A i \in 1..Len(queue) : queue[i] \in Requests
      /\ \A i \in 1..Len(snapshots) : snapshots[i] \in Snapshots
      /\ \A i \in 1..Len(outbox) : outbox[i] \in Mails
      /\ Len(queue) \in Nat /\ Len(snapshots) \in Nat /\ Len(outbox) \in Nat
  BY <1>1, <1>2
<1>4. \A i \in 1..Len(queue) : queue[i].kind = "update" =>
          queue[i] \in Updates /\ queue[i].module \in Modules /\ queue[i].version \in Nat
  BY <1>3, VersionFacts DEF Requests, Updates, Commands
<1>5. \A i \in 1..Len(snapshots), m \in Modules : snapshots[i].status[m] \in Nat
  BY <1>3, VersionFacts DEF Snapshots
<1>6. \A i \in 1..Len(outbox) : outbox[i].to \in Remotes /\ outbox[i].note \in Notes
  BY <1>3 DEF Mails
<1>7. \A m \in Modules : current[m] \in Nat /\ holder[m] \in Nat /\ told[m] \in Nat
  BY VersionFacts DEF TypeOK
<1>8. \A r \in Remotes, m \in Modules : known[r][m] \in Nat
  <2>1. known \in [Remotes -> [Modules -> Versions]]
    BY DEF TypeOK
  <2>2. ASSUME NEW r \in Remotes, NEW m \in Modules PROVE known[r][m] \in Nat
    <3>1. known[r] \in [Modules -> Versions]
      BY <2>1
    <3>2. known[r][m] \in Versions
      BY <3>1
    <3> QED
      BY <3>2, VersionFacts
  <2> QED
    BY <2>2
<1> QED
  BY <1>3, <1>4, <1>5, <1>6, <1>7, <1>8

(* The channel of the status handler. *)
LEMMA SetStatusQueue ==
    ASSUME TypeOK, QueueInv, NEW m \in Modules, SetStatus(m)
    PROVE  QueueInv'
<1> DEFINE e == [kind |-> "update", module |-> m, version |-> holder[m] + 1]
<1>1. /\ current' = current /\ \A x \in Modules : holder'[x] = IF x = m THEN holder[x] + 1 ELSE holder[x]
  BY DEF SetStatus, TypeOK, statusVars
<1>2. \A x \in Modules : current[x] \in Nat /\ holder[x] \in Nat /\ holder[x] <= holder'[x]
  BY <1>1, Numbers
<1>3. \A x \in Modules : current'[x] <= holder'[x]
  BY <1>1, <1>2 DEF QueueInv
<1>4. \A i \in 1..Len(queue) : queue[i].kind = "update" =>
          /\ queue[i].module \in Modules /\ queue[i].version \in Nat
          /\ current'[queue[i].module] <= queue[i].version /\ queue[i].version <= holder[queue[i].module]
          /\ queue[i].version <= holder'[queue[i].module]
  <2>1. TAKE i \in 1..Len(queue)
  <2>2. HAVE queue[i].kind = "update"
  <2>3. queue[i].module \in Modules /\ queue[i].version \in Nat
    BY <2>2, Numbers
  <2>4. current[queue[i].module] <= queue[i].version /\ queue[i].version <= holder[queue[i].module]
    BY <2>2 DEF QueueInv, IsUpdate
  <2> HIDE DEF e
  <2>5. holder[queue[i].module] <= holder'[queue[i].module]
        /\ holder[queue[i].module] \in Nat /\ holder'[queue[i].module] \in Nat
    BY <1>1, <1>2, <2>3
  <2> QED
    BY <1>1, <2>3, <2>4, <2>5
<1>5. /\ e \in Requests /\ e.kind = "update" /\ e.module = m /\ e.version = holder'[m]
      /\ queue \in Seq(Requests) /\ Len(queue) <= BufferSize
  <2>1. holder'[m] \in Versions
    BY SetStatusTypes DEF TypeOK
  <2> QED
    BY <1>1, <2>1 DEF TypeOK, Requests, Updates
<1>6. queue' = queue \/ queue' = Offer(queue, e)
  BY DEF SetStatus
<1> HIDE DEF e
<1>7. CASE queue' = queue
  BY <1>3, <1>4, <1>7 DEF QueueInv, IsUpdate
<1>8. CASE queue' = Offer(queue, e)
  <2>2. /\ Len(queue) \in Nat /\ Len(queue') \in {Len(queue), Len(queue) + 1}
        /\ \A i \in 1..Len(queue) : queue'[i] = queue[i]
        /\ Len(queue') = Len(queue) + 1 => queue'[Len(queue) + 1] = e
    <3>1. Grown(Offer(queue, e), queue, e)
      BY <1>5, OfferElements
    <3> QED
      BY <1>8, <3>1 DEF Grown
  <2>3. \A i \in 1..Len(queue') : i \in 1..Len(queue) \/ (i = Len(queue) + 1 /\ queue'[i] = e)
    BY <2>2
  <2>4. current'[m] <= holder'[m] /\ holder[m] <= holder'[m] /\ holder[m] \in Nat /\ holder'[m] \in Nat
    BY <1>1, <1>2, <1>3
  <2>5. \A i \in 1..Len(queue') : queue'[i].kind = "update" =>
            current'[queue'[i].module] <= queue'[i].version /\ queue'[i].version <= holder'[queue'[i].module]
    BY <1>4, <1>5, <2>2, <2>3, <2>4
  <2>6. \A i, j \in 1..Len(queue') :
            i < j /\ queue'[i].kind = "update" /\ queue'[j].kind = "update"
                  /\ queue'[i].module = queue'[j].module
              => queue'[i].version <= queue'[j].version
    <3>1. TAKE i, j \in 1..Len(queue')
    <3>2. CASE i \in 1..Len(queue) /\ j \in 1..Len(queue)
      BY <2>2, <3>2 DEF QueueInv, IsUpdate
    <3>3. CASE i \in 1..Len(queue) /\ queue'[j] = e
      BY <1>4, <1>5, <2>2, <2>4, <3>3
    <3>4. CASE i = Len(queue) + 1
      BY <2>2, <3>4
    <3> QED
      BY <2>3, <3>2, <3>3, <3>4
  <2> QED
    BY <1>3, <2>5, <2>6 DEF QueueInv, IsUpdate
<1> QED
  BY <1>6, <1>7, <1>8

LEMMA CommandQueue ==
    ASSUME TypeOK, QueueInv, NEW r \in Remotes \cup {Nil}, NEW kind \in {"subscribe", "get"}, NEW query \in Queries,
           Command(r, kind, query)
    PROVE  QueueInv'
<1> DEFINE e == [kind |-> kind, from |-> r, query |-> query]
<1>1. current' = current /\ holder' = holder
  BY DEF Command, statusVars
<1>2. /\ e \in Requests /\ e.kind # "update" /\ queue \in Seq(Requests) /\ Len(queue) <= BufferSize
  BY DEF TypeOK, Requests, Commands
<1>3. queue' = queue \/ queue' = Offer(queue, e)
  BY DEF Command
<1> HIDE DEF e
<1>4. CASE queue' = queue
  BY <1>1, <1>4 DEF QueueInv, IsUpdate
<1>5. CASE queue' = Offer(queue, e)
  <2>2. /\ Len(queue) \in Nat /\ Len(queue') \in {Len(queue), Len(queue) + 1}
        /\ \A i \in 1..Len(queue) : queue'[i] = queue[i]
        /\ Len(queue') = Len(queue) + 1 => queue'[Len(queue) + 1] = e
    <3>1. Grown(Offer(queue, e), queue, e)
      BY <1>2, OfferElements
    <3> QED
      BY <1>5, <3>1 DEF Grown
  <2>3. \A i \in 1..Len(queue') : queue'[i].kind = "update" => i \in 1..Len(queue) /\ queue'[i] = queue[i]
    BY <1>2, <2>2
  <2> QED
    BY <1>1, <2>3 DEF QueueInv, IsUpdate
<1> QED
  BY <1>3, <1>4, <1>5

(* A message leaves the channel. *)
LEMMA QueueTail ==
    ASSUME TypeOK, queue # <<>>, queue' = Tail(queue)
    PROVE  /\ Len(queue) \in Nat \ {0} /\ Head(queue) = queue[1] /\ Len(queue') = Len(queue) - 1
           /\ \A i \in 1..Len(queue') : queue'[i] = queue[i + 1] /\ i + 1 \in 1..Len(queue)
<1>1. queue \in Seq(Requests)
  BY DEF TypeOK, Requests
<1>2. /\ Len(queue) \in Nat \ {0} /\ Head(queue) = queue[1]
      /\ Len(queue') = Len(queue) - 1 /\ \A i \in 1..Len(queue') : queue'[i] = queue[i + 1]
  BY <1>1, TailElements
<1> QED
  BY <1>2

LEMMA HandleCommandQueue ==
    ASSUME TypeOK, QueueInv, HandleCommand
    PROVE  QueueInv'
<1>1. current' = current /\ holder' = holder
  BY DEF HandleCommand
<1>2. /\ Len(queue) \in Nat \ {0} /\ Len(queue') = Len(queue) - 1
      /\ \A i \in 1..Len(queue') : queue'[i] = queue[i + 1] /\ i + 1 \in 1..Len(queue)
  BY QueueTail DEF HandleCommand
<1>3. \A i, j \in 1..Len(queue') : i < j => i + 1 < j + 1
  BY <1>2
<1>4. \A m \in Modules : current'[m] <= holder'[m]
  BY <1>1 DEF QueueInv
<1>5. ASSUME NEW i \in 1..Len(queue'), queue'[i].kind = "update"
      PROVE  /\ current'[queue'[i].module] <= queue'[i].version
             /\ queue'[i].version <= holder'[queue'[i].module]
  <2>1. i + 1 \in 1..Len(queue) /\ queue'[i] = queue[i + 1]
    BY <1>2
  <2>2. IsUpdate(i + 1)
    BY <1>5, <2>1 DEF IsUpdate
  <2>3. /\ current[queue[i + 1].module] <= queue[i + 1].version
        /\ queue[i + 1].version <= holder[queue[i + 1].module]
    BY <2>1, <2>2 DEF QueueInv
  <2> QED
    BY <1>1, <2>1, <2>3
<1>6. ASSUME NEW i \in 1..Len(queue'), NEW j \in 1..Len(queue'), i < j,
             queue'[i].kind = "update", queue'[j].kind = "update", queue'[i].module = queue'[j].module
      PROVE  queue'[i].version <= queue'[j].version
  <2>1. /\ i + 1 \in 1..Len(queue) /\ queue'[i] = queue[i + 1]
        /\ j + 1 \in 1..Len(queue) /\ queue'[j] = queue[j + 1] /\ i + 1 < j + 1
    BY <1>2, <1>3, <1>6
  <2>2. IsUpdate(i + 1) /\ IsUpdate(j + 1)
    BY <1>6, <2>1 DEF IsUpdate
  <2>3. queue[i + 1].version <= queue[j + 1].version
    BY <1>6, <2>1, <2>2 DEF QueueInv
  <2> QED
    BY <2>1, <2>3
<1> QED
  BY <1>4, <1>5, <1>6 DEF QueueInv, IsUpdate

(* The global status grows. *)
LEMMA UpdateGrows ==
    ASSUME TypeOK, QueueInv, HandleUpdate
    PROVE  /\ Head(queue).module \in Modules /\ Head(queue).version \in Nat
           /\ \A m \in Modules :
                 current'[m] = IF m = Head(queue).module THEN Head(queue).version ELSE current[m]
           /\ \A m \in Modules : current[m] \in Nat /\ current'[m] \in Nat /\ current[m] <= current'[m]
<1>1. /\ Len(queue) \in Nat \ {0} /\ Head(queue) = queue[1]
  BY QueueTail DEF HandleUpdate
<1>2. 1 \in 1..Len(queue) /\ queue[1].kind = "update"
  BY <1>1 DEF HandleUpdate
<1>3. queue[1].module \in Modules /\ queue[1].version \in Nat
  BY <1>2, Numbers
<1>4. current[queue[1].module] <= queue[1].version
  BY <1>2 DEF QueueInv, IsUpdate
<1>5. \A m \in Modules :
          current'[m] = IF m = Head(queue).module THEN Head(queue).version ELSE current[m]
  BY DEF HandleUpdate, TypeOK
<1>6. \A m \in Modules : current[m] \in Nat
  BY Numbers
<1> QED
  BY <1>1, <1>3, <1>4, <1>5, <1>6

LEMMA HandleUpdateQueue ==
    ASSUME TypeOK, QueueInv, HandleUpdate
    PROVE  QueueInv'
<1> DEFINE u == queue[1]
<1>1. holder' = holder
  BY DEF HandleUpdate
<1>2. /\ Len(queue) \in Nat \ {0} /\ Head(queue) = u /\ Len(queue') = Len(queue) - 1
      /\ \A i \in 1..Len(queue') : queue'[i] = queue[i + 1] /\ i + 1 \in 1..Len(queue)
  BY QueueTail DEF HandleUpdate
<1>3. /\ u.module \in Modules /\ 1 \in 1..Len(queue) /\ u.kind = "update"
      /\ \A m \in Modules : current'[m] = IF m = u.module THEN u.version ELSE current[m]
  BY <1>2, UpdateGrows DEF HandleUpdate
<1>4. u.version <= holder[u.module]
  BY <1>3 DEF QueueInv, IsUpdate
<1>5. \A m \in Modules : current'[m] <= holder'[m]
  BY <1>1, <1>3, <1>4 DEF QueueInv
<1>6. \A i \in 1..Len(queue) : i > 1 /\ queue[i].kind = "update" =>
          /\ queue[i].module \in Modules
          /\ current[queue[i].module] <= queue[i].version /\ queue[i].version <= holder[queue[i].module]
          /\ queue[i].module = u.module => u.version <= queue[i].version
  BY <1>3, Numbers DEF QueueInv, IsUpdate
<1>7. \A i \in 1..Len(queue') : i + 1 > 1
  BY <1>2
<1>8. \A i \in 1..Len(queue') : queue'[i].kind = "update" =>
          current'[queue'[i].module] <= queue'[i].version /\ queue'[i].version <= holder'[queue'[i].module]
  BY <1>1, <1>2, <1>3, <1>6, <1>7
<1>9. \A i, j \in 1..Len(queue') : i < j => i + 1 < j + 1
  BY <1>2
<1>10. \A i, j \in 1..Len(queue') :
            i < j /\ queue'[i].kind = "update" /\ queue'[j].kind = "update"
                  /\ queue'[i].module = queue'[j].module
              => queue'[i].version <= queue'[j].version
  BY <1>2, <1>9 DEF QueueInv, IsUpdate
<1> QED
  BY <1>5, <1>8, <1>10 DEF QueueInv, IsUpdate

-------------------------------------------------------------------------------
(* The channel of the actor. *)
LEMMA SnapshotsWhenCurrentGrows ==
    ASSUME TypeOK, SnapInv, UNCHANGED <<snapshots, told>>,
           \A m \in Modules : current[m] \in Nat /\ current'[m] \in Nat /\ current[m] <= current'[m]
    PROVE  SnapInv'
<1>1. \A m \in Modules : told[m] \in Nat /\ told[m] <= current'[m]
  BY Numbers DEF SnapInv
<1>2. \A i \in 1..Len(snapshots), m \in Modules : Tells(snapshots[i], m) =>
          snapshots[i].status[m] \in Nat /\ snapshots[i].status[m] <= current'[m]
  BY Numbers DEF SnapInv
<1> QED
  BY <1>1, <1>2 DEF SnapInv

(* Whatever is offered to the actor tells it nothing but the global status. *)
LEMMA SnapshotsOffer ==
    ASSUME TypeOK, SnapInv, UNCHANGED <<told, current>>, NEW s \in Snapshots,
           \A m \in Modules : Tells(s, m) => s.status[m] = current[m],
           snapshots' = Offer(snapshots, s)
    PROVE  SnapInv'
<1>1. snapshots \in Seq(Snapshots) /\ Len(snapshots) <= BufferSize
  BY DEF TypeOK
<1>2. Grown(Offer(snapshots, s), snapshots, s)
  BY <1>1, OfferElements
<1>3. \A i \in 1..Len(snapshots') :
          \/ i \in 1..Len(snapshots) /\ snapshots'[i] = snapshots[i]
          \/ i = Len(snapshots) + 1 /\ snapshots'[i] = s
  BY <1>2 DEF Grown
<1>4. \A m \in Modules : told[m] <= current[m] /\ current[m] <= current[m]
  BY Numbers DEF SnapInv
<1>5. \A i \in 1..Len(snapshots'), m \in Modules : Tells(snapshots'[i], m) =>
          told[m] <= snapshots'[i].status[m] /\ snapshots'[i].status[m] <= current[m]
  BY <1>3, <1>4 DEF SnapInv
<1>6. ASSUME NEW i \in 1..Len(snapshots'), NEW j \in 1..Len(snapshots'), NEW m \in Modules,
             i < j, Tells(snapshots'[i], m), Tells(snapshots'[j], m)
      PROVE  snapshots'[i].status[m] <= snapshots'[j].status[m]
  <2>1. i \in 1..Len(snapshots) /\ snapshots'[i] = snapshots[i]
    BY <1>2, <1>3, <1>6
  <2>2. CASE j \in 1..Len(snapshots) /\ snapshots'[j] = snapshots[j]
    BY <1>6, <2>1, <2>2 DEF SnapInv
  <2>3. CASE snapshots'[j] = s
    <3>1. s.status[m] = current[m]
      BY <1>6, <2>3
    <3>2. snapshots[i].status[m] <= current[m]
      BY <1>6, <2>1 DEF SnapInv
    <3> QED
      BY <2>1, <2>3, <3>1, <3>2
  <2> QED
    BY <1>3, <2>2, <2>3
<1> QED
  BY <1>4, <1>5, <1>6 DEF SnapInv

LEMMA FinishUpdateSnapshots ==
    ASSUME TypeOK, SnapInv, FinishUpdate
    PROVE  SnapInv'
<1> DEFINE s == [own |-> TRUE, status |-> current]
<1>1. current' = current /\ told' = told
  BY DEF FinishUpdate, memory
<1>2. CASE snapshots' = snapshots
  BY <1>1, <1>2 DEF SnapInv
<1>3. CASE snapshots' = Offer(snapshots, s)
  <2>1. s \in Snapshots /\ s.status = current
    BY DEF TypeOK, Snapshots
  <2> HIDE DEF s
  <2> QED
    BY <1>1, <1>3, <2>1, SnapshotsOffer
<1> QED
  BY <1>2, <1>3 DEF FinishUpdate

LEMMA HandleCommandSnapshots ==
    ASSUME TypeOK, SnapInv, HandleCommand
    PROVE  SnapInv'
<1> DEFINE s == [own |-> TRUE, status |-> Told(StatusOf(Head(queue).query))]
<1>1. current' = current /\ told' = told
  BY DEF HandleCommand, memory
<1>2. CASE snapshots' = snapshots
  BY <1>1, <1>2 DEF SnapInv
<1>3. CASE snapshots' = Offer(snapshots, s)
  <2>1. s \in Snapshots /\ \A m \in Modules : s.status[m] \in {0, current[m]}
    BY CommandFacts, InsideAnswers
  <2>2. \A m \in Modules : Tells(s, m) => s.status[m] = current[m]
    BY <2>1 DEF Tells
  <2> HIDE DEF s
  <2> QED
    BY <1>1, <1>3, <2>1, <2>2, SnapshotsOffer
<1> QED
  BY <1>2, <1>3 DEF HandleCommand

LEMMA ForeignSnapshots ==
    ASSUME TypeOK, SnapInv, NEW status \in [Modules -> Versions], ForeignNotification(status)
    PROVE  SnapInv'
<1> DEFINE s == [own |-> FALSE, status |-> status]
<1>1. current' = current /\ told' = told
  BY DEF ForeignNotification, statusVars, memory
<1>2. CASE snapshots' = snapshots
  BY <1>1, <1>2 DEF SnapInv
<1>3. CASE snapshots' = Offer(snapshots, s)
  <2>1. s \in Snapshots /\ \A m \in Modules : ~Tells(s, m)
    BY DEF Snapshots, Tells
  <2> HIDE DEF s
  <2> QED
    BY <1>1, <1>3, <2>1, SnapshotsOffer
<1> QED
  BY <1>2, <1>3 DEF ForeignNotification

(* What the actor takes from its channel. *)
LEMMA SnapshotsTail ==
    ASSUME TypeOK, SnapInv, ActorHandles
    PROVE  /\ Len(snapshots) \in Nat \ {0} /\ Head(snapshots) = snapshots[1]
           /\ Len(snapshots') = Len(snapshots) - 1
           /\ \A i \in 1..Len(snapshots') : snapshots'[i] = snapshots[i + 1] /\ i + 1 \in 1..Len(snapshots)
           /\ \A m \in Modules :
                 told'[m] = IF Tells(snapshots[1], m) THEN snapshots[1].status[m] ELSE told[m]
           /\ \A m \in Modules : told[m] \in Nat /\ told'[m] \in Nat /\ told[m] <= told'[m]
<1>1. snapshots \in Seq(Snapshots) /\ snapshots # <<>> /\ snapshots' = Tail(snapshots)
  BY DEF TypeOK, ActorHandles
<1>2. /\ Len(snapshots) \in Nat \ {0} /\ Head(snapshots) = snapshots[1]
      /\ Len(snapshots') = Len(snapshots) - 1
      /\ \A i \in 1..Len(snapshots') : snapshots'[i] = snapshots[i + 1]
  BY <1>1, TailElements
<1>3. \A m \in Modules :
          told'[m] = IF Tells(snapshots[1], m) THEN snapshots[1].status[m] ELSE told[m]
  BY <1>2 DEF ActorHandles, Remembers, Heard, Tells
<1>4. 1 \in 1..Len(snapshots)
  BY <1>2
<1>5. \A m \in Modules : told[m] \in Nat /\ told'[m] \in Nat /\ told[m] <= told'[m]
  BY <1>3, <1>4, Numbers DEF SnapInv
<1> QED
  BY <1>2, <1>3, <1>5

LEMMA ActorHandlesSnapshots ==
    ASSUME TypeOK, SnapInv, ActorHandles
    PROVE  SnapInv'
<1>1. /\ Len(snapshots) \in Nat \ {0} /\ Len(snapshots') = Len(snapshots) - 1
      /\ \A i \in 1..Len(snapshots') : snapshots'[i] = snapshots[i + 1] /\ i + 1 \in 1..Len(snapshots)
      /\ \A m \in Modules :
            told'[m] = IF Tells(snapshots[1], m) THEN snapshots[1].status[m] ELSE told[m]
      /\ current' = current
  BY SnapshotsTail DEF ActorHandles, statusVars
<1>2. 1 \in 1..Len(snapshots) /\ \A i \in 1..Len(snapshots') : 1 < i + 1
  BY <1>1
<1>3. \A m \in Modules : told'[m] <= current'[m]
  BY <1>1, <1>2 DEF SnapInv
<1>4. ASSUME NEW i \in 1..Len(snapshots'), NEW m \in Modules, Tells(snapshots'[i], m)
      PROVE  told'[m] <= snapshots'[i].status[m] /\ snapshots'[i].status[m] <= current'[m]
  <2>1. snapshots'[i] = snapshots[i + 1] /\ i + 1 \in 1..Len(snapshots) /\ 1 < i + 1
    BY <1>1, <1>2
  <2>2. told[m] <= snapshots'[i].status[m] /\ snapshots'[i].status[m] <= current[m]
    BY <1>4, <2>1 DEF SnapInv
  <2>3. Tells(snapshots[1], m) => snapshots[1].status[m] <= snapshots'[i].status[m]
    BY <1>2, <1>4, <2>1 DEF SnapInv
  <2> QED
    BY <1>1, <2>2, <2>3
<1>5. ASSUME NEW i \in 1..Len(snapshots'), NEW j \in 1..Len(snapshots'), NEW m \in Modules,
             i < j, Tells(snapshots'[i], m), Tells(snapshots'[j], m)
      PROVE  snapshots'[i].status[m] <= snapshots'[j].status[m]
  <2>1. /\ snapshots'[i] = snapshots[i + 1] /\ i + 1 \in 1..Len(snapshots)
        /\ snapshots'[j] = snapshots[j + 1] /\ j + 1 \in 1..Len(snapshots) /\ i + 1 < j + 1
    BY <1>1, <1>5
  <2> QED
    BY <1>5, <2>1 DEF SnapInv
<1> QED
  BY <1>3, <1>4, <1>5 DEF SnapInv

LEMMA ActorHandlesRuns ==
    ASSUME TypeOK, SnapInv, ExecInv, ActorHandles
    PROVE  ExecInv'
<1> DEFINE s == Head(snapshots)
<1>1. /\ s = snapshots[1]
      /\ \A m \in Modules : told[m] \in Nat /\ told'[m] \in Nat /\ told[m] <= told'[m]
      /\ \A m \in Modules : told'[m] = IF Tells(s, m) THEN s.status[m] ELSE told[m]
  BY SnapshotsTail
<1>2. previous' = s.status /\ told' = Heard(s) /\ strays' = {m \in Modules : s.status[m] # Heard(s)[m]}
  BY DEF ActorHandles, Remembers
<1>3. \A m \in Modules \ strays' : previous'[m] = told'[m]
  BY <1>2
<1>4. ASSUME NEW e \in executed', NEW m \in Triggers
      PROVE  e[m] <= told'[m]
  <2>1. m \in Modules /\ m \in Watched
    BY StatusAssumption
  <2>2. CASE e \in executed
    <3>1. e[m] <= told[m] /\ e[m] \in Nat
      BY <2>2, VersionFacts DEF ExecInv, TypeOK
    <3> QED
      BY <1>1, <2>1, <3>1
  <2>3. CASE e \notin executed
    <3>1. s.own /\ Runs(previous, s.status) /\ e = [x \in Triggers |-> s.status[x]]
      BY <1>4, <2>3 DEF ActorHandles, Executes
    <3>2. s.status[m] # 0 /\ e[m] = s.status[m]
      BY <2>1, <3>1 DEF Runs
    <3>3. told'[m] = s.status[m]
      BY <1>1, <2>1, <3>1, <3>2 DEF Tells
    <3> QED
      BY <1>1, <2>1, <3>2, <3>3
  <2> QED
    BY <2>2, <2>3
<1> QED
  BY <1>3, <1>4 DEF ExecInv

LEMMA ActorFailsSnapshots ==
    ASSUME TypeOK, SnapInv, ActorFails
    PROVE  SnapInv'
<1>1. snapshots' = <<>> /\ Len(<<>>) = 0 /\ told' = told /\ current' = current
  BY EmptySeq DEF ActorFails, statusVars, memory
<1> QED
  BY <1>1 DEF SnapInv

-------------------------------------------------------------------------------
(* The channel of the Remote. *)
LEMMA OutboxWhenCurrentGrows ==
    ASSUME TypeOK, OutInv, UNCHANGED remoteVars,
           \A m \in Modules : current[m] \in Nat /\ current'[m] \in Nat /\ current[m] <= current'[m]
    PROVE  OutInv'
<1>1. \A r \in Remotes, m \in Modules : known[r][m] \in Nat /\ known[r][m] <= current'[m]
  BY Numbers DEF OutInv
<1>2. \A i \in 1..Len(outbox) : \A m \in DOMAIN outbox[i].note :
          outbox[i].note[m] <= current'[m]
  <2>1. TAKE i \in 1..Len(outbox)
  <2>2. TAKE m \in DOMAIN outbox[i].note
  <2>3. m \in Modules /\ outbox[i].note[m] \in Nat
    BY Numbers, NoteFacts, VersionFacts
  <2>4. outbox[i].note[m] <= current[m]
    BY DEF OutInv
  <2> QED
    BY <2>3, <2>4
<1> QED
  BY <1>1, <1>2 DEF OutInv, remoteVars

LEMMA OutboxOffer ==
    ASSUME NEW e \in Mails, outbox \in Seq(Mails), Len(outbox) <= BufferSize
    PROVE  Grown(Offer(outbox, e), outbox, e)
BY OfferElements

(* Whatever is sent says what the global status says. *)
LEMMA OutboxOffers ==
    ASSUME TypeOK, OutInv, UNCHANGED <<known, current>>,
           NEW e \in Mails, \A m \in DOMAIN e.note : m \in Modules /\ e.note[m] = current[m],
           outbox' = Offer(outbox, e)
    PROVE  OutInv'
<1>1. outbox \in Seq(Mails) /\ Len(outbox) <= BufferSize
  BY DEF TypeOK, Mails
<1>2. Grown(Offer(outbox, e), outbox, e)
  BY <1>1, OutboxOffer
<1>3. \A i \in 1..Len(outbox') :
          \/ i \in 1..Len(outbox) /\ outbox'[i] = outbox[i]
          \/ i = Len(outbox) + 1 /\ outbox'[i] = e
  BY <1>2 DEF Grown
<1>4. e.to \in Remotes
  BY DEF Mails
<1>5. \A m \in DOMAIN e.note : known[e.to][m] <= e.note[m] /\ e.note[m] <= current[m]
  BY <1>4, Numbers DEF OutInv
<1>6. \A i \in 1..Len(outbox') : \A m \in DOMAIN outbox'[i].note :
          known[outbox'[i].to][m] <= outbox'[i].note[m] /\ outbox'[i].note[m] <= current[m]
  BY <1>3, <1>5 DEF OutInv
<1>7. \A i, j \in 1..Len(outbox') : i < j /\ outbox'[i].to = outbox'[j].to =>
          \A m \in DOMAIN outbox'[i].note \cap DOMAIN outbox'[j].note :
              outbox'[i].note[m] <= outbox'[j].note[m]
  <2>1. TAKE i, j \in 1..Len(outbox')
  <2>2. HAVE i < j /\ outbox'[i].to = outbox'[j].to
  <2>3. i \in 1..Len(outbox) /\ outbox'[i] = outbox[i]
    BY <1>2, <1>3, <2>2
  <2>4. CASE j \in 1..Len(outbox) /\ outbox'[j] = outbox[j]
    BY <2>2, <2>3, <2>4 DEF OutInv
  <2>5. CASE outbox'[j] = e
    BY <2>3, <2>5 DEF OutInv
  <2> QED
    BY <1>3, <2>4, <2>5
<1> QED
  BY <1>6, <1>7 DEF OutInv

LEMMA HandleCommandOutbox ==
    ASSUME TypeOK, OutInv, HandleCommand
    PROVE  OutInv'
<1> DEFINE c == Head(queue)
           e == [to |-> c.from, note |-> StatusOf(c.query)]
<1>1. c.from \in Remotes \cup {Nil} /\ c.query \in Queries
  BY CommandFacts
<1>2. /\ StatusOf(c.query) \in Notes
      /\ \A m \in DOMAIN StatusOf(c.query) : m \in Modules /\ StatusOf(c.query)[m] = current[m]
  BY <1>1, Answers
<1>3. known' = known /\ current' = current
  BY DEF HandleCommand
<1>4. CASE outbox' = outbox
  BY <1>3, <1>4 DEF OutInv
<1>5. CASE c.from # Nil /\ outbox' = Offer(outbox, e)
  <2>1. e \in Mails /\ e.note = StatusOf(c.query)
    BY <1>1, <1>2, <1>5 DEF Mails
  <2> HIDE DEF e
  <2> QED
    BY <1>2, <1>3, <1>5, <2>1, OutboxOffers
<1> QED
  BY <1>4, <1>5 DEF HandleCommand

LEMMA NotifyOutbox ==
    ASSUME TypeOK, HandlingInv, OutInv, NEW r \in Remotes, Notify(r)
    PROVE  OutInv'
<1> DEFINE n == [m \in {handling} |-> current[m]]
           e == [to |-> r, note |-> n]
<1>1. handling \in Modules
  BY DEF TypeOK, HandlingInv, Notify, Queries
<1>2. n \in Notes /\ \A m \in DOMAIN n : m \in Modules /\ n[m] = current[m]
  BY <1>1, Notifications
<1>3. e \in Mails /\ e.note = n
  BY <1>2 DEF Mails
<1>4. outbox' = Offer(outbox, e) /\ known' = known /\ current' = current
  BY DEF Notify
<1> HIDE DEF e, n
<1> QED
  BY <1>2, <1>3, <1>4, OutboxOffers

(* What a device knows grows. *)
LEMMA DeliveryGrows ==
    ASSUME TypeOK, OutInv, Delivers
    PROVE  /\ Len(outbox) \in Nat \ {0} /\ Len(outbox') = Len(outbox) - 1
           /\ \A i \in 1..Len(outbox') : outbox'[i] = outbox[i + 1] /\ i + 1 \in 1..Len(outbox)
           /\ outbox[1].to \in Remotes /\ outbox[1].note \in Notes
           /\ \A r \in Remotes, m \in Modules :
                 known'[r][m] = IF r = outbox[1].to /\ m \in DOMAIN outbox[1].note
                                THEN outbox[1].note[m] ELSE known[r][m]
           /\ \A r \in Remotes, m \in Modules : known[r][m] <= known'[r][m]
<1>1. outbox \in Seq(Mails) /\ outbox # <<>> /\ outbox' = Tail(outbox)
  BY DEF TypeOK, Mails, Delivers
<1>2. /\ Len(outbox) \in Nat \ {0} /\ Head(outbox) = outbox[1] /\ Len(outbox') = Len(outbox) - 1
      /\ \A i \in 1..Len(outbox') : outbox'[i] = outbox[i + 1]
  BY <1>1, TailElements
<1>3. 1 \in 1..Len(outbox) /\ outbox[1].to \in Remotes /\ outbox[1].note \in Notes
  BY <1>2, Numbers
<1>4. known' = [known EXCEPT ![outbox[1].to] =
          [m \in Modules |-> IF m \in DOMAIN outbox[1].note THEN outbox[1].note[m] ELSE known[outbox[1].to][m]]]
  BY <1>2 DEF Delivers, TypeOK
<1>5. \A r \in Remotes, m \in Modules :
          known'[r][m] = IF r = outbox[1].to /\ m \in DOMAIN outbox[1].note
                         THEN outbox[1].note[m] ELSE known[r][m]
  BY <1>3, <1>4 DEF TypeOK
<1>6. \A m \in DOMAIN outbox[1].note : known[outbox[1].to][m] <= outbox[1].note[m]
  BY <1>3 DEF OutInv
<1>7. \A r \in Remotes, m \in Modules : known[r][m] <= known'[r][m]
  BY <1>5, <1>6, Numbers
<1> QED
  BY <1>2, <1>3, <1>5, <1>7

LEMMA DeliversOutbox ==
    ASSUME TypeOK, OutInv, Delivers
    PROVE  OutInv'
<1> DEFINE n == outbox[1]
<1>1. /\ Len(outbox) \in Nat \ {0} /\ Len(outbox') = Len(outbox) - 1
      /\ \A i \in 1..Len(outbox') : outbox'[i] = outbox[i + 1] /\ i + 1 \in 1..Len(outbox)
      /\ n.to \in Remotes /\ n.note \in Notes
      /\ \A r \in Remotes, m \in Modules :
            known'[r][m] = IF r = n.to /\ m \in DOMAIN n.note THEN n.note[m] ELSE known[r][m]
  BY DeliveryGrows
<1>2. current' = current
  BY DEF Delivers, statusVars
<1>3. 1 \in 1..Len(outbox) /\ \A i \in 1..Len(outbox') : 1 < i + 1
  BY <1>1
<1> HIDE DEF n
<1>4. \A m \in DOMAIN n.note : known[n.to][m] <= n.note[m] /\ n.note[m] <= current[m]
  BY <1>3 DEF OutInv, n
<1>5. \A r \in Remotes, m \in Modules : known'[r][m] <= current'[m]
  BY <1>1, <1>2, <1>4 DEF OutInv
<1>6. \A i \in 1..Len(outbox') : \A m \in DOMAIN outbox'[i].note :
          known'[outbox'[i].to][m] <= outbox'[i].note[m] /\ outbox'[i].note[m] <= current'[m]
  <2>1. TAKE i \in 1..Len(outbox')
  <2>2. TAKE m \in DOMAIN outbox'[i].note
  <2>3. outbox'[i] = outbox[i + 1] /\ i + 1 \in 1..Len(outbox) /\ 1 < i + 1
    BY <1>1, <1>3
  <2>4. outbox[i + 1].to \in Remotes /\ m \in Modules
    BY <2>3, Numbers, NoteFacts
  <2>5. known[outbox[i + 1].to][m] <= outbox[i + 1].note[m] /\ outbox[i + 1].note[m] <= current[m]
    BY <2>3 DEF OutInv
  <2>6. n.to = outbox[i + 1].to /\ m \in DOMAIN n.note => n.note[m] <= outbox[i + 1].note[m]
    BY <1>3, <2>3 DEF OutInv, n
  <2> QED
    BY <1>1, <1>2, <2>3, <2>4, <2>5, <2>6
<1>7. \A i, j \in 1..Len(outbox') : i < j => i + 1 < j + 1
  BY <1>1
<1>8. \A i, j \in 1..Len(outbox') : i < j /\ outbox'[i].to = outbox'[j].to =>
          \A m \in DOMAIN outbox'[i].note \cap DOMAIN outbox'[j].note :
              outbox'[i].note[m] <= outbox'[j].note[m]
  <2>1. TAKE i, j \in 1..Len(outbox')
  <2>2. HAVE i < j /\ outbox'[i].to = outbox'[j].to
  <2>3. /\ outbox'[i] = outbox[i + 1] /\ i + 1 \in 1..Len(outbox)
        /\ outbox'[j] = outbox[j + 1] /\ j + 1 \in 1..Len(outbox) /\ i + 1 < j + 1
    BY <1>1, <1>7, <2>2
  <2>4. outbox[i + 1].to = outbox[j + 1].to
    BY <2>2, <2>3
  <2>5. \A m \in DOMAIN outbox[i + 1].note \cap DOMAIN outbox[j + 1].note :
            outbox[i + 1].note[m] <= outbox[j + 1].note[m]
    BY <2>3, <2>4 DEF OutInv
  <2> QED
    BY <2>3, <2>5
<1> QED
  BY <1>5, <1>6, <1>8 DEF OutInv

-------------------------------------------------------------------------------
(* The invariant. *)
LEMMA InvariantHolds == Init => IInv
<1> SUFFICES ASSUME Init PROVE IInv
  OBVIOUS
<1>1. TypeOK
  BY InitTypes
<1>2. Len(<<>>) = 0 /\ \A m \in Modules : Nothing[m] = 0
  BY EmptySeq DEF Nothing
<1>3. HandlingInv /\ ExecInv
  BY DEF Init, HandlingInv, ExecInv
<1>4. QueueInv
  BY <1>2 DEF Init, QueueInv, IsUpdate
<1>5. SnapInv
  BY <1>2 DEF Init, SnapInv
<1>6. OutInv
  BY <1>2 DEF Init, OutInv
<1> QED
  BY <1>1, <1>3, <1>4, <1>5, <1>6 DEF IInv

(* Each part of the invariant only depends on these variables. *)
LEMMA PartsUnchanged ==
    /\ QueueInv /\ UNCHANGED <<holder, current, queue>> => QueueInv'
    /\ SnapInv /\ UNCHANGED <<snapshots, told, current>> => SnapInv'
    /\ OutInv /\ UNCHANGED <<known, outbox, current>> => OutInv'
    /\ ExecInv /\ UNCHANGED memory => ExecInv'
<1>1. QueueInv /\ UNCHANGED <<holder, current, queue>> => QueueInv'
  BY DEF QueueInv, IsUpdate
<1>2. SnapInv /\ UNCHANGED <<snapshots, told, current>> => SnapInv'
  BY DEF SnapInv
<1>3. OutInv /\ UNCHANGED <<known, outbox, current>> => OutInv'
  BY DEF OutInv
<1>4. ExecInv /\ UNCHANGED memory => ExecInv'
  BY DEF ExecInv, memory
<1> QED
  BY <1>1, <1>2, <1>3, <1>4

LEMMA InvariantKept ==
    ASSUME IInv, [Next]_vars
    PROVE  IInv'
<1>1. TypeOK /\ HandlingInv /\ QueueInv /\ SnapInv /\ OutInv /\ ExecInv
  BY DEF IInv
<1>2. TypeOK' /\ HandlingInv'
  BY <1>1, StepTypes
<1> DEFINE Rest == QueueInv /\ SnapInv /\ OutInv /\ ExecInv
<1> SUFFICES Rest'
  BY <1>2 DEF IInv
<1>3. CASE UNCHANGED vars
  BY <1>1, <1>3, PartsUnchanged DEF vars, statusVars, remoteVars, actorVars, memory
<1>4. ASSUME NEW h \in {"status", "actor"}, Subscribes(h) PROVE Rest'
  BY <1>1, <1>4, PartsUnchanged DEF Subscribes, statusVars, remoteVars, actorVars, memory
<1>5. ASSUME NEW m \in Modules, SetStatus(m) PROVE Rest'
  BY <1>1, <1>5, SetStatusQueue, PartsUnchanged DEF SetStatus, statusVars, remoteVars, actorVars, memory
<1>6. ASSUME NEW r \in Remotes \cup {Nil}, NEW kind \in {"subscribe", "get"}, NEW query \in Queries,
             Command(r, kind, query)
      PROVE  Rest'
  BY <1>1, <1>6, CommandQueue, PartsUnchanged DEF Command, statusVars, remoteVars, actorVars, memory
<1>7. ASSUME NEW r \in Remotes, BecomesIdle(r) PROVE Rest'
  BY <1>1, <1>7, PartsUnchanged DEF BecomesIdle, statusVars, remoteVars, actorVars, memory
<1>8. CASE Delivers
  BY <1>1, <1>8, DeliversOutbox, PartsUnchanged DEF Delivers, statusVars, actorVars, memory
<1>9. CASE HandleCommand
  BY <1>1, <1>9, HandleCommandQueue, HandleCommandOutbox, HandleCommandSnapshots, PartsUnchanged
     DEF HandleCommand
<1>10. CASE HandleUpdate
  <2>1. \A m \in Modules : current[m] \in Nat /\ current'[m] \in Nat /\ current[m] <= current'[m]
    BY <1>1, <1>10, UpdateGrows
  <2>2. UNCHANGED <<snapshots, told>> /\ UNCHANGED remoteVars /\ UNCHANGED memory
    BY <1>10 DEF HandleUpdate, actorVars, memory
  <2> QED
    BY <1>1, <1>10, <2>1, <2>2, HandleUpdateQueue, SnapshotsWhenCurrentGrows,
       OutboxWhenCurrentGrows, PartsUnchanged
<1>11. CASE FinishUpdate
  BY <1>1, <1>11, FinishUpdateSnapshots, PartsUnchanged DEF FinishUpdate, remoteVars, memory
<1>12. ASSUME NEW r \in Remotes, Notify(r) PROVE Rest'
  BY <1>1, <1>12, NotifyOutbox, PartsUnchanged DEF Notify, actorVars, memory
<1>13. CASE ActorHandles
  BY <1>1, <1>13, ActorHandlesSnapshots, ActorHandlesRuns, PartsUnchanged DEF ActorHandles, statusVars, remoteVars
<1>14. CASE ActorFails
  BY <1>1, <1>14, ActorFailsSnapshots, PartsUnchanged DEF ActorFails, statusVars, remoteVars, memory
<1>15. ASSUME NEW status \in [Modules -> Versions], ForeignNotification(status) PROVE Rest'
  BY <1>1, <1>15, ForeignSnapshots, PartsUnchanged
     DEF ForeignNotification, statusVars, remoteVars, memory
<1> QED
  BY <1>3, <1>4, <1>5, <1>6, <1>7, <1>8, <1>9, <1>10, <1>11, <1>12, <1>13, <1>14, <1>15
     DEF Next, StatusHandles

LEMMA Invariance == Spec => []IInv
<1>1. Init => IInv
  BY InvariantHolds
<1>2. IInv /\ [Next]_vars => IInv'
  BY InvariantKept
<1> QED
  BY <1>1, <1>2, PTL DEF Spec

-------------------------------------------------------------------------------
(* The properties. *)

(* Only these three actions change what is seen of a module. *)
LEMMA ViewsGrow ==
    ASSUME IInv, [Next]_vars
    PROVE  \A m \in Modules :
               /\ current[m] <= current'[m] /\ told[m] <= told'[m]
               /\ \A r \in Remotes : known[r][m] <= known'[r][m]
<1>1. TypeOK /\ HandlingInv /\ QueueInv /\ SnapInv /\ OutInv /\ ExecInv
  BY DEF IInv
<1>2. \A m \in Modules :
          /\ current[m] <= current[m] /\ told[m] <= told[m]
          /\ \A r \in Remotes : known[r][m] <= known[r][m]
  BY <1>1, Numbers
<1>3. CASE HandleUpdate
  <2>1. told' = told /\ known' = known
    BY <1>3 DEF HandleUpdate, remoteVars, actorVars, memory
  <2> QED
    BY <1>1, <1>2, <1>3, <2>1, UpdateGrows
<1>4. CASE ActorHandles
  <2>1. current' = current /\ known' = known
    BY <1>4 DEF ActorHandles, remoteVars, statusVars
  <2> QED
    BY <1>1, <1>2, <1>4, <2>1, SnapshotsTail
<1>5. CASE Delivers
  <2>1. current' = current /\ told' = told
    BY <1>5 DEF Delivers, statusVars, actorVars, memory
  <2> QED
    BY <1>1, <1>2, <1>5, <2>1, DeliveryGrows
<1>6. CASE ~(HandleUpdate \/ ActorHandles \/ Delivers)
  <2>1. current' = current /\ told' = told /\ known' = known
    BY <1>6 DEF Next, StatusHandles, Subscribes, SetStatus, Command, BecomesIdle, HandleCommand,
                ForeignNotification, FinishUpdate, Notify, ActorFails, vars, statusVars, remoteVars, actorVars, memory
  <2> QED
    BY <1>2, <2>1
<1> QED
  BY <1>3, <1>4, <1>5, <1>6

(* No view of a module's status goes back: neither the global status, nor   *)
(* what a device or the actor was told by the status handler, whatever was  *)
(* dropped on the way and whatever else the actor received                  *)
(* (status.go:87-117).                                                      *)
THEOREM NoViewGoesBack == Spec => NeverGoesBack
<1>1. IInv /\ [Next]_vars => [\A m \in Modules :
          /\ current[m] <= current'[m] /\ told[m] <= told'[m]
          /\ \A r \in Remotes : known[r][m] <= known'[r][m]]_vars
  BY ViewsGrow
<1> QED
  BY <1>1, Invariance, PTL DEF Spec, NeverGoesBack

(* A rule that runs by a trigger that is no stray has one the actor had not *)
(* been told before.                                                        *)
LEMMA RunIsNew ==
    ASSUME TypeOK, SnapInv, ExecInv, ActorHandles, Head(snapshots).own,
           Runs(previous, Head(snapshots).status),
           NEW m \in Triggers \ strays, Changed(previous[m], Head(snapshots).status[m])
    PROVE  [t \in Triggers |-> Head(snapshots).status[t]] \notin executed
<1> DEFINE s == Head(snapshots)
           e == [t \in Triggers |-> s.status[t]]
<1>1. SUFFICES ASSUME e \in executed PROVE FALSE
  OBVIOUS
<1>2. m \in Watched /\ m \in Modules /\ m \in Triggers
  BY StatusAssumption
<1>3. s.status[m] # 0 /\ Tells(s, m)
  BY <1>2 DEF Runs, Tells
<1>4. told'[m] = s.status[m] /\ told[m] \in Nat /\ told'[m] \in Nat /\ told[m] <= told'[m]
  BY <1>2, <1>3, SnapshotsTail
<1>5. s.status[m] <= told[m]
  <2>1. e[m] <= told[m] /\ e[m] = s.status[m]
    BY <1>1, <1>2 DEF ExecInv
  <2> QED
    BY <2>1
<1>6. previous[m] = told[m]
  BY <1>2 DEF ExecInv
<1>7. s.status[m] = previous[m]
  BY <1>4, <1>5, <1>6
<1> QED
  BY <1>3, <1>7 DEF Changed

(* The rule is not executed twice for the same statuses of its triggers by  *)
(* one whose previous state the status handler had told: what the actor was *)
(* told of it is never behind a status it acted upon (actor.go:43-97).      *)
THEOREM NotTwiceForOneChange == Spec => ExecutesOncePerChange
<1>1. IInv /\ [Next]_vars => [LET s == Head(snapshots) IN
          (/\ ActorHandles /\ s.own /\ Runs(previous, s.status)
           /\ \E m \in Triggers \ strays : Changed(previous[m], s.status[m]))
              => [m \in Triggers |-> s.status[m]] \notin executed]_vars
  BY RunIsNew DEF IInv
<1> QED
  BY <1>1, Invariance, PTL DEF Spec, ExecutesOncePerChange
=============================================================================
