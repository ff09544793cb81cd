-------------------------------- MODULE Status --------------------------------
(***************************************************************************)
(* The path of a status change inside an application: a handler stores its *)
(* status in a StatusHolder (handler.go), which publishes it to the status *)
(* handler (handlers/status/status.go), which merges it in the global       *)
(* status, notifies the remote devices that listen and publishes the whole  *)
(* status to the actor (handlers/actor), which executes a rule when its     *)
(* queries match and one of them is triggered by a change.                  *)
(*                                                                          *)
(* A status is its version: how often it changed.  Version 0 is no status   *)
(* at all, odd versions are those that the queries match.                   *)
(*                                                                          *)
(* The actor takes every status notification on its topic for the global    *)
(* status: also the status handler's replies to commands published inside   *)
(* the application, which hold one module only when one was asked for, and  *)
(* the notifications that other devices send.                               *)
(***************************************************************************)
EXTENDS Bus, Integers, FiniteSets

CONSTANTS Modules,    \* handlers that hold a status
          Remotes,    \* identities under which status commands arrive
          Own,        \* that of this device
          Nil,        \* the sender of messages published inside the application
          All,        \* the empty query
          Watched,    \* modules in the queries of the rule
          Triggers,   \* those whose query triggers on change
          MaxVersion, \* bound: changes of each status
          MaxCommands \* bound: status commands and notifications of others

ASSUME StatusAssumption ==
    /\ IsFiniteSet(Modules) /\ All \notin Modules /\ Nil \notin Remotes
    /\ Watched \subseteq Modules /\ Triggers \subseteq Watched
    /\ MaxVersion \in [Modules -> Nat] /\ MaxCommands \in Nat

Versions == UNION {0..MaxVersion[m] : m \in Modules}

(* The field that queries compare is a boolean of the status.               *)
Matches(v) == v % 2 = 1
Queries == Modules \cup {All}
Nothing == [m \in Modules |-> 0]

(* Status handler's messages, and what it publishes. *)
Updates == [kind : {"update"}, module : Modules, version : Versions]
Commands == [kind : {"subscribe", "get"}, from : Remotes \cup {Nil}, query : Queries]
Notes == UNION {[S -> Versions] : S \in SUBSET Modules}

(* What the actor takes for the global status, and whether the status       *)
(* handler of this application published it.                                *)
Snapshots == [own : BOOLEAN, status : [Modules -> Versions]]

VARIABLES
    holder,      \* per module, the version in its StatusHolder
    ready,       \* handlers that subscribed: "status", "actor"
    queue,       \* channel of the status handler
    current,     \* currentStatus of the status handler
    listeners,   \* per device, the queries it subscribed to
    idle,        \* devices whose last contact is more than ten minutes ago
    handling,    \* the module whose update is being handled, or All for none
    toNotify,    \* listeners that were not notified of it yet
    inactive,    \* subscribers to be deleted after it
    outbox,      \* channel of the Remote: notifications on their way out
    known,       \* per device, what it was told of each module
    snapshots,   \* channel of the actor
    previous,    \* previousState of the actor
    commands,    \* status commands and notifications of others so far
    told,        \* history: what the status handler last told the actor of each module
    strays,      \* history: modules of which the last snapshot said something else
    executed,    \* history: versions of the triggers told at which the rule ran
    lost,        \* history: modules whose last update was dropped
    missed,      \* history: the actor missed an update or a snapshot
    misled       \* history: another device sent a status of a trigger that matches

statusVars == <<current, listeners, handling, toNotify, inactive>>
remoteVars == <<outbox, known>>
memory == <<previous, told, strays, executed>>
actorVars == <<snapshots, memory>>
vars == <<holder, ready, queue, statusVars, idle, remoteVars, actorVars,
          commands, lost, missed, misled>>

TypeOK ==
    /\ holder \in [Modules -> Versions] /\ current \in [Modules -> Versions]
    /\ ready \subseteq {"status", "actor"}
    /\ queue \in Seq(Updates \cup Commands) /\ Len(queue) <= BufferSize
    /\ listeners \in [Remotes -> SUBSET Queries]
    /\ idle \subseteq Remotes /\ toNotify \subseteq Remotes /\ inactive \subseteq Remotes
    /\ handling \in Queries
    /\ outbox \in Seq([to : Remotes, note : Notes]) /\ Len(outbox) <= BufferSize
    /\ known \in [Remotes -> [Modules -> Versions]]
    /\ snapshots \in Seq(Snapshots) /\ Len(snapshots) <= BufferSize
    /\ previous \in [Modules -> Versions] /\ told \in [Modules -> Versions]
    /\ strays \subseteq Modules
    /\ commands \in 0..MaxCommands
    /\ executed \subseteq [Triggers -> Versions]
    /\ lost \subseteq Modules /\ missed \in BOOLEAN /\ misled \in BOOLEAN

Init ==
    /\ holder = Nothing /\ current = Nothing /\ previous = Nothing /\ told = Nothing
    /\ ready = {}
    /\ queue = <<>> /\ outbox = <<>> /\ snapshots = <<>>
    /\ listeners = [r \in Remotes |-> {}] /\ idle = {}
    /\ handling = All /\ toNotify = {} /\ inactive = {}
    /\ known = [r \in Remotes |-> Nothing]
    /\ commands = 0
    /\ executed = {} /\ strays = {} /\ lost = {} /\ missed = FALSE /\ misled = FALSE

-------------------------------------------------------------------------------
(* The rest of the application, and the devices. *)

(* Start launches the handlers in any order: each subscribes some time. *)
Subscribes(h) ==
    /\ h \notin ready
    /\ ready' = ready \cup {h}
    /\ UNCHANGED <<holder, queue, statusVars, idle, remoteVars, actorVars, commands, lost, missed, misled>>

(* A StatusHolder stores a status that differs and publishes it; an equal   *)
(* one changes nothing.                                                     *)
SetStatus(m) ==
    /\ holder[m] < MaxVersion[m]
    /\ holder' = [holder EXCEPT ![m] = @ + 1]
    /\ IF "status" \in ready /\ Len(queue) < BufferSize
       THEN /\ queue' = Offer(queue, [kind |-> "update", module |-> m, version |-> holder[m] + 1])
            /\ lost' = lost \ {m} /\ UNCHANGED missed
       ELSE /\ lost' = lost \cup {m} /\ missed' = TRUE
            /\ UNCHANGED queue
    /\ UNCHANGED <<ready, statusVars, idle, remoteVars, actorVars, commands, misled>>

(* A status command, from another device, in this device's name or from     *)
(* inside.                                                                  *)
Command(r, kind, query) ==
    /\ commands < MaxCommands
    /\ commands' = commands + 1
    /\ queue' = IF "status" \in ready
                THEN Offer(queue, [kind |-> kind, from |-> r, query |-> query]) ELSE queue
    /\ UNCHANGED <<holder, ready, statusVars, idle, remoteVars, actorVars, lost, missed, misled>>

(* The Remote publishes a notification another device sent, on the topic    *)
(* the actor listens to; modules have the same names everywhere.            *)
ForeignNotification(status) ==
    /\ commands < MaxCommands
    /\ commands' = commands + 1
    /\ snapshots' = IF "actor" \in ready
                    THEN Offer(snapshots, [own |-> FALSE, status |-> status]) ELSE snapshots
    /\ misled' = (misled \/ (snapshots' # snapshots /\ \E m \in Triggers : Matches(status[m])))
    /\ UNCHANGED <<holder, ready, queue, statusVars, idle, remoteVars, memory, lost, missed>>

(* Ten minutes pass without a subscription of r. *)
BecomesIdle(r) ==
    /\ listeners[r] # {} /\ r \notin idle
    /\ idle' = idle \cup {r}
    /\ UNCHANGED <<holder, ready, queue, statusVars, remoteVars, actorVars, commands, lost, missed, misled>>

(* The Remote sends a notification. *)
Delivers ==
    /\ outbox # <<>>
    /\ LET n == Head(outbox) IN
       known' = [known EXCEPT ![n.to] = [m \in Modules |-> IF m \in DOMAIN n.note THEN n.note[m] ELSE @[m]]]
    /\ outbox' = Tail(outbox)
    /\ UNCHANGED <<holder, ready, queue, statusVars, idle, actorVars, commands, lost, missed, misled>>

-------------------------------------------------------------------------------
(* HandleMessage of the status handler. *)

(* getStatus; modules without a status are not in it. *)
StatusOf(query) ==
    LET asked == IF query = All THEN Modules ELSE {query}
    IN  [m \in {x \in asked : current[x] # 0} |-> current[m]]

(* What the actor makes of it: modules that are not in it have no status.   *)
Told(note) == [m \in Modules |-> IF m \in DOMAIN note THEN note[m] ELSE 0]

(* Other devices are subscribed, and answered through the Remote.  A        *)
(* command from inside is answered inside, on the topic of the actor.       *)
HandleCommand ==
    /\ handling = All /\ queue # <<>> /\ Head(queue).kind # "update"
    /\ LET c == Head(queue) IN
       /\ IF c.kind = "subscribe" /\ c.from \notin {Nil, Own}
          THEN /\ listeners' = [listeners EXCEPT ![c.from] = @ \cup {c.query}]
               /\ idle' = idle \ {c.from}
          ELSE UNCHANGED <<listeners, idle>>
       /\ \/ /\ c.from = Nil /\ "actor" \in ready
             /\ snapshots' = Offer(snapshots, [own |-> TRUE, status |-> Told(StatusOf(c.query))])
             /\ UNCHANGED outbox
          \/ /\ c.from = Nil /\ "actor" \notin ready
             /\ UNCHANGED <<snapshots, outbox>>
          \/ /\ c.from # Nil
             /\ outbox' = Offer(outbox, [to |-> c.from, note |-> StatusOf(c.query)])
             /\ UNCHANGED snapshots
    /\ queue' = Tail(queue)
    /\ UNCHANGED <<holder, ready, current, handling, toNotify, inactive, known, memory,
                   commands, lost, missed, misled>>

(* Mutant: the newest message of the channel is handled first. *)
HandleNewestUpdate ==
    /\ handling = All /\ queue # <<>> /\ queue[Len(queue)].kind = "update"
    /\ LET u == queue[Len(queue)] IN
       /\ current' = [current EXCEPT ![u.module] = u.version]
       /\ handling' = u.module
       /\ toNotify' = {r \in Remotes : u.module \in listeners[r]}
       /\ inactive' = {r \in idle : listeners[r] # {}}
    /\ queue' = SubSeq(queue, 1, Len(queue) - 1)
    /\ UNCHANGED <<holder, ready, listeners, idle, remoteVars, actorVars, commands, lost, missed, misled>>

(* Mutant: only modules that are already in the status are updated. *)
HandleKnownUpdate ==
    /\ handling = All /\ queue # <<>> /\ Head(queue).kind = "update"
    /\ LET u == Head(queue) IN
       /\ current' = IF current[u.module] = 0 THEN current ELSE [current EXCEPT ![u.module] = u.version]
       /\ handling' = u.module
       /\ toNotify' = {r \in Remotes : u.module \in listeners[r]}
       /\ inactive' = {r \in idle : listeners[r] # {}}
    /\ queue' = Tail(queue)
    /\ UNCHANGED <<holder, ready, listeners, idle, remoteVars, actorVars, commands, lost, missed, misled>>

HandleUpdate ==
    /\ handling = All /\ queue # <<>> /\ Head(queue).kind = "update"
    /\ LET u == Head(queue) IN
       /\ current' = [current EXCEPT ![u.module] = u.version]
       /\ handling' = u.module
       /\ toNotify' = {r \in Remotes : u.module \in listeners[r]}
       /\ inactive' = {r \in idle : listeners[r] # {}}
    /\ queue' = Tail(queue)
    /\ UNCHANGED <<holder, ready, listeners, idle, remoteVars, actorVars, commands, lost, missed, misled>>

(* One notification per listener, in any order. *)
Notify(r) ==
    /\ r \in toNotify
    /\ toNotify' = toNotify \ {r}
    /\ outbox' = Offer(outbox, [to |-> r, note |-> [m \in {handling} |-> current[m]]])
    /\ UNCHANGED <<holder, ready, queue, current, listeners, handling, inactive, idle, known,
                   actorVars, commands, lost, missed, misled>>

(* Idle subscribers go, and the whole status is published. *)
FinishUpdate ==
    /\ handling # All /\ toNotify = {}
    /\ listeners' = [r \in Remotes |-> IF r \in inactive THEN {} ELSE listeners[r]]
    /\ idle' = idle \ inactive
    /\ IF "actor" \in ready /\ Len(snapshots) < BufferSize
       THEN snapshots' = Offer(snapshots, [own |-> TRUE, status |-> current]) /\ UNCHANGED missed
       ELSE missed' = TRUE /\ UNCHANGED snapshots
    /\ handling' = All /\ inactive' = {}
    /\ UNCHANGED <<holder, ready, queue, current, toNotify, remoteVars, memory, commands, lost, misled>>

-------------------------------------------------------------------------------
(* The actor. *)

(* GetFieldDescriptor: the value of a query changed between two statuses,   *)
(* also when the earlier one has no such module.                            *)
Changed(before, after) == before = 0 \/ Matches(before) # Matches(after)

(* executeActions for the rule. *)
Runs(before, after) ==
    /\ \A m \in Watched : after[m] # 0 /\ Matches(after[m])
    /\ \E m \in Triggers : Changed(before[m], after[m])

(* What the status handler has told the actor, and the modules of which the *)
(* snapshot says something else: those it leaves out or that came from      *)
(* another device.                                                          *)
Heard(s) == [m \in Modules |-> IF s.own /\ s.status[m] # 0 THEN s.status[m] ELSE told[m]]
Remembers(s) ==
    /\ told' = Heard(s)
    /\ strays' = {m \in Modules : s.status[m] # Heard(s)[m]}

(* The rule is executed; only runs for what was told are recorded. *)
Executes(s, before) ==
    executed' = IF s.own /\ Runs(before, s.status)
                THEN executed \cup {[m \in Triggers |-> s.status[m]]} ELSE executed

(* Mutant: the previous state is not remembered. *)
ActorForgets ==
    /\ snapshots # <<>>
    /\ Executes(Head(snapshots), previous) /\ Remembers(Head(snapshots))
    /\ snapshots' = Tail(snapshots)
    /\ UNCHANGED <<holder, ready, queue, statusVars, idle, remoteVars, previous, commands, lost, missed, misled>>

(* Mutant: the previous state is overwritten before the rule is evaluated. *)
ActorOverwritesFirst ==
    /\ snapshots # <<>>
    /\ LET s == Head(snapshots) IN
       Executes(s, s.status) /\ Remembers(s) /\ previous' = s.status
    /\ snapshots' = Tail(snapshots)
    /\ UNCHANGED <<holder, ready, queue, statusVars, idle, remoteVars, commands, lost, missed, misled>>

ActorHandles ==
    /\ snapshots # <<>>
    /\ LET s == Head(snapshots) IN
       Executes(s, previous) /\ Remembers(s) /\ previous' = s.status
    /\ snapshots' = Tail(snapshots)
    /\ UNCHANGED <<holder, ready, queue, statusVars, idle, remoteVars, commands, lost, missed, misled>>

(* A request that cannot be decoded makes the actor fail: it is executed    *)
(* again with a new channel, and the state it had.                          *)
ActorFails ==
    /\ "actor" \in ready
    /\ ready' = ready \ {"actor"}
    /\ snapshots' = <<>>
    /\ missed' = (missed \/ snapshots # <<>>)
    /\ UNCHANGED <<holder, queue, statusVars, idle, remoteVars, memory, commands, lost, misled>>

-------------------------------------------------------------------------------
StatusHandles == HandleCommand \/ HandleUpdate \/ FinishUpdate \/ \E r \in Remotes : Notify(r)

Next ==
    \/ \E h \in {"status", "actor"} : Subscribes(h)
    \/ \E m \in Modules : SetStatus(m)
    \/ \E status \in [Modules -> Versions] : ForeignNotification(status)
    \/ \E r \in Remotes \cup {Nil}, kind \in {"subscribe", "get"}, query \in Queries : Command(r, kind, query)
    \/ \E r \in Remotes : BecomesIdle(r)
    \/ Delivers \/ StatusHandles \/ ActorHandles \/ ActorFails

Spec == Init /\ [][Next]_vars

(* The supervisors of the two handlers subscribe them, and their loops go   *)
(* on.  No status has to change, no device has to speak, nothing has to be  *)
(* sent.                                                                    *)
Fairness ==
    /\ \A h \in {"status", "actor"} : WF_vars(Subscribes(h))
    /\ WF_vars(StatusHandles) /\ WF_vars(ActorHandles)

FairSpec == Spec /\ Fairness

-------------------------------------------------------------------------------
(* Properties. *)

(* Neither the global status nor what the status handler told a device or   *)
(* the actor of a module ever goes back to an earlier status, whatever is   *)
(* dropped (status.go:87-117).  The actor's previousState does: a reply to  *)
(* a command from inside may leave modules out, and another device may      *)
(* send any status (strays).                                                *)
NeverGoesBack == [][\A m \in Modules :
    /\ current[m] <= current'[m] /\ told[m] <= told'[m]
    /\ \A r \in Remotes : known[r][m] <= known'[r][m]]_vars

(* The rule is not executed twice for the same statuses of its triggers,    *)
(* however often they are published meanwhile, when it is triggered by one  *)
(* whose previous state the status handler had told (actor.go:43-97).  A    *)
(* stray trigger may execute it again.                                      *)
ExecutesOncePerChange == [][
    LET s == Head(snapshots) IN
    (/\ ActorHandles /\ s.own /\ Runs(previous, s.status)
     /\ \E m \in Triggers \ strays : Changed(previous[m], s.status[m]))
        => [m \in Triggers |-> s.status[m]] \notin executed]_vars

(* A status that reached the status handler's channel ends up in the global *)
(* status, unless a later one of the module is dropped (status.go:100-103). *)
StatusCatchesUp == \A m \in Modules :
    (m \notin lost) ~> (current[m] = holder[m] \/ m \in lost)

(* The rule is executed each time its single query starts to match, unless  *)
(* something was dropped or another device already told the actor that it   *)
(* matches (actor.go:43-97).                                                *)
EachChangeExecutes == \A m \in Triggers : \A v \in 1..MaxVersion[m] :
    (Watched = {m} /\ Matches(v) /\ holder[m] >= v)
        ~> (missed \/ misled \/ \E s \in executed : s[m] = v)

==============================================================================
