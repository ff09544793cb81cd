-------------------------------- MODULE Relay --------------------------------
(***************************************************************************)
(* The relay server: one Controller, one Remote and one router handler per  *)
(* connection (handlers/test/handlers_test.go, CreateServer), and the table *)
(* of peers that the routers of all connections share                       *)
(* (handlers/router/router.go).                                             *)
(*                                                                          *)
(* The life of the Controllers and Remotes is reduced to what the routers   *)
(* notice of it (see the modules Controller and Remote): a Remote that ends *)
(* cancels the Controller's context; the bus is shut down when the          *)
(* supervisors are gone, without waiting for the router's goroutine; and a  *)
(* router whose run ended is executed again, with a new channel, unless its *)
(* supervisor sees the cancellation first.  A Remote subscribes some time   *)
(* after it started and unsubscribes some time before it ends: a message    *)
(* for it may be lost although the connection is up.                        *)
(***************************************************************************)
EXTENDS Bus, Integers, FiniteSets

CONSTANTS Clients,        \* identities of the devices
          Conns,          \* connections, each used once
          Nobody,         \* the nil UUID, as a sender, and as a router's id
          Server,         \* the identity of the server's Controllers
          Absent,         \* no Controller in the table, no connection
          Receivers,      \* bound: who messages are for
          MaxMsgs,        \* bound: messages sent by the devices
          ForeignSenders, \* senders that devices may name besides themselves
          LateSelect      \* a supervisor may miss the cancellation

ASSUME RelayAssumption ==
    /\ Nobody \notin Clients \cup {Server} /\ Server \notin Clients
    /\ Absent \notin Conns
    /\ Receivers \subseteq Clients \cup {Server, Nobody}
    /\ MaxMsgs \in Nat
    /\ ForeignSenders \subseteq Clients \cup {Nobody} /\ LateSelect \in BOOLEAN

(* A message has a number and, for the properties, the connection that      *)
(* brought it.                                                              *)
Messages == [from : Clients \cup {Nobody}, to : Receivers, n : 1..MaxMsgs, via : Conns]

(* The RemoteStop command: a message that concerns no device. *)
Stop == [from |-> Nobody, to |-> Nobody, n |-> 0, via |-> Absent]

VARIABLES
    owner,    \* per connection, the device that opened it, or Nobody
    current,  \* per device, the connection it uses, or Absent
    ctrl,     \* per connection: "off", "up", "stopping" (context done), "shut" (bus shut down)
    router,   \* per connection, where the router's goroutine is
    id,       \* per connection, the router's id
    inbox,    \* per connection, the router's channel
    msg,      \* per connection, the message its router works on
    target,   \* per connection, the connection its router found in the table
    outbox,   \* per connection, the channel of its Remote
    peers,    \* the table: device -> connection of its Controller, or Absent
    stale,    \* history: connections whose entry was deleted
    sent,     \* messages sent so far
    log       \* history, per device: messages it received

linkVars == <<owner, current, ctrl>>
routerVars == <<id, msg, target>>
vars == <<linkVars, router, routerVars, inbox, outbox, peers, stale, sent, log>>

RouterStates == {"off", "starting", "select", "drop", "lookup", "forward",
                 "blocked", "teardown", "ended"}

TypeOK ==
    /\ owner \in [Conns -> Clients \cup {Nobody}]
    /\ current \in [Clients -> Conns \cup {Absent}]
    /\ ctrl \in [Conns -> {"off", "up", "stopping", "shut"}]
    /\ router \in [Conns -> RouterStates]
    /\ id \in [Conns -> Clients \cup {Nobody}]
    /\ inbox \in [Conns -> Seq(Messages)]
    /\ \A c \in Conns : Len(inbox[c]) <= BufferSize
    /\ msg \in [Conns -> Messages \cup {Stop}]
    /\ target \in [Conns -> Conns \cup {Absent}]
    /\ outbox \in [Conns -> Seq(Messages \cup {Stop})]
    /\ \A c \in Conns : Len(outbox[c]) <= BufferSize
    /\ peers \in [Clients -> Conns \cup {Absent}]
    /\ stale \subseteq Conns
    /\ sent \in 0..MaxMsgs
    /\ log \in [Clients -> Seq(Messages)]

Init ==
    /\ owner = [c \in Conns |-> Nobody]
    /\ current = [d \in Clients |-> Absent]
    /\ ctrl = [c \in Conns |-> "off"]
    /\ router = [c \in Conns |-> "off"]
    /\ id = [c \in Conns |-> Nobody]
    /\ inbox = [c \in Conns |-> <<>>]
    /\ msg = [c \in Conns |-> Stop]
    /\ target = [c \in Conns |-> Absent]
    /\ outbox = [c \in Conns |-> <<>>]
    /\ peers = [d \in Clients |-> Absent]
    /\ stale = {}
    /\ sent = 0
    /\ log = [d \in Clients |-> <<>>]

Go(c, place) == router' = [router EXCEPT ![c] = place]

(* A callback returns: its local variables are gone. *)
Return(c, place) ==
    /\ Go(c, place)
    /\ msg' = [msg EXCEPT ![c] = Stop]
    /\ target' = [target EXCEPT ![c] = Absent]

-------------------------------------------------------------------------------
(* Devices. *)

(* A device opens a connection, the first one or after it lost another one. *)
(* The server may learn of the loss much later.                             *)
Connect(d, c) ==
    /\ ctrl[c] = "off"
    /\ owner' = [owner EXCEPT ![c] = d]
    /\ current' = [current EXCEPT ![d] = c]
    /\ ctrl' = [ctrl EXCEPT ![c] = "up"]
    /\ Go(c, "starting")
    /\ UNCHANGED <<routerVars, inbox, outbox, peers, stale, sent, log>>

(* A message reaches the server, which publishes it to the router, if the   *)
(* router is subscribed.                                                    *)
Send(d, from, to) ==
    LET c == current[d] IN
    /\ c # Absent /\ sent < MaxMsgs
    /\ ctrl[c] = "up"
    /\ from = d \/ from \in ForeignSenders
    /\ sent' = sent + 1
    /\ inbox' = IF router[c] \in {"starting", "ended"} THEN inbox
                ELSE TryPub(inbox, {c}, [from |-> from, to |-> to, n |-> sent + 1, via |-> c])
    /\ UNCHANGED <<linkVars, router, routerVars, outbox, peers, stale, log>>

-------------------------------------------------------------------------------
(* The Remote and the Controller of a connection. *)

(* The Remote ends, at any time, and cancels the Controller's context. *)
RemoteEnds(c) ==
    /\ ctrl[c] = "up"
    /\ ctrl' = [ctrl EXCEPT ![c] = "stopping"]
    /\ outbox' = [outbox EXCEPT ![c] = <<>>]
    /\ UNCHANGED <<owner, current, router, routerVars, inbox, peers, stale, sent, log>>

(* The Remote sends a message to the device, or obeys the stop command. *)
RemoteSends(c) ==
    /\ outbox[c] # <<>> /\ Head(outbox[c]) # Stop
    /\ outbox' = [outbox EXCEPT ![c] = Tail(@)]
    /\ log' = IF current[owner[c]] = c
              THEN [log EXCEPT ![owner[c]] = Append(@, Head(outbox[c]))]
              ELSE log
    /\ UNCHANGED <<linkVars, router, routerVars, inbox, peers, stale, sent>>

RemoteStops(c) ==
    /\ outbox[c] # <<>> /\ Head(outbox[c]) = Stop
    /\ RemoteEnds(c)

(* Start returns: no supervisor is left, not even a sleeping one. *)
BusShuts(c) ==
    /\ ctrl[c] = "stopping" /\ router[c] # "starting"
    /\ ctrl' = [ctrl EXCEPT ![c] = "shut"]
    /\ UNCHANGED <<owner, current, router, routerVars, inbox, outbox, peers, stale, sent, log>>

-------------------------------------------------------------------------------
(* The router of a connection. *)

(* Mutant: Store instead of LoadOrStore. *)
IdentifyStore(c) ==
    /\ router[c] = "select" /\ inbox[c] # <<>>
    /\ LET m == Head(inbox[c]) IN
       /\ msg' = [msg EXCEPT ![c] = m]
       /\ \/ /\ m.from = Nobody \/ id[c] \notin {Nobody, m.from}
             /\ Go(c, "teardown")
             /\ UNCHANGED <<id, peers>>
          \/ /\ m.from # Nobody /\ id[c] \in {Nobody, m.from}
             /\ peers' = [peers EXCEPT ![m.from] = c]
             /\ id' = [id EXCEPT ![c] = m.from]
             /\ Go(c, "lookup")
    /\ inbox' = [inbox EXCEPT ![c] = Tail(@)]
    /\ UNCHANGED <<linkVars, target, outbox, stale, sent, log>>

(* Mutant: the id is written before the table is looked at. *)
IdentifyBeforeTable(c) ==
    /\ router[c] = "select" /\ inbox[c] # <<>>
    /\ LET m == Head(inbox[c]) IN
       /\ msg' = [msg EXCEPT ![c] = m]
       /\ id' = [id EXCEPT ![c] = m.from]
       /\ IF m.from = Nobody \/ peers[m.from] \notin {Absent, c}
          THEN Go(c, "drop") /\ UNCHANGED peers
          ELSE Go(c, "lookup") /\ peers' = [peers EXCEPT ![m.from] = c]
    /\ inbox' = [inbox EXCEPT ![c] = Tail(@)]
    /\ UNCHANGED <<linkVars, target, outbox, stale, sent, log>>

(* HandleMessage up to the table: who sends, and is this its connection?    *)
Identify(c) ==
    /\ router[c] = "select" /\ inbox[c] # <<>>
    /\ LET m == Head(inbox[c]) IN
       \/ /\ m.from = Nobody \/ id[c] \notin {Nobody, m.from}
          /\ Go(c, "teardown")
          /\ UNCHANGED <<id, msg, peers>>
       \/ /\ m.from # Nobody /\ id[c] = Nobody /\ peers[m.from] # Absent
          /\ Go(c, "drop")
          /\ UNCHANGED <<id, msg, peers>>
       \/ /\ m.from # Nobody /\ id[c] = Nobody /\ peers[m.from] = Absent
          /\ peers' = [peers EXCEPT ![m.from] = c]
          /\ id' = [id EXCEPT ![c] = m.from]
          /\ msg' = [msg EXCEPT ![c] = m]
          /\ Go(c, "lookup")
       \/ /\ m.from # Nobody /\ id[c] = m.from
          /\ msg' = [msg EXCEPT ![c] = m]
          /\ Go(c, "lookup")
          /\ UNCHANGED <<id, peers>>
    /\ inbox' = [inbox EXCEPT ![c] = Tail(@)]
    /\ UNCHANGED <<linkVars, target, outbox, stale, sent, log>>

(* The outboxes after m was published on the bus of t, whose Remote may be  *)
(* unsubscribed.                                                            *)
Offered(t, m) == {outbox} \cup (IF ctrl[t] = "up" THEN {TryPub(outbox, {t}, m)} ELSE {})

(* Another connection holds the entry: publish a stop on the own bus, fail. *)
Drop(c) ==
    /\ router[c] = "drop"
    /\ IF ctrl[c] = "shut"
       THEN Go(c, "blocked") /\ UNCHANGED outbox
       ELSE /\ Go(c, "teardown")
            /\ outbox' \in Offered(c, Stop)
    /\ UNCHANGED <<linkVars, routerVars, inbox, peers, stale, sent, log>>

(* Mutant: a message for a device that is not connected is published again. *)
LookupRetries(c) ==
    /\ router[c] = "lookup"
    /\ LET to == msg[c].to IN
       IF to \in {Nobody, id[c], Server} \/ peers[to] = Absent
       THEN Return(c, "select")
       ELSE Go(c, "forward") /\ target' = [target EXCEPT ![c] = peers[to]] /\ UNCHANGED msg
    /\ inbox' = IF msg[c].to \in Clients /\ peers[msg[c].to] = Absent
                THEN TryPub(inbox, {c}, msg[c]) ELSE inbox
    /\ UNCHANGED <<linkVars, id, outbox, peers, stale, sent, log>>

(* Mutant: the message goes to whatever connection the sender has. *)
LookupSender(c) ==
    /\ router[c] = "lookup"
    /\ IF msg[c].to \in {Nobody, id[c], Server} \/ peers[id[c]] = Absent
       THEN Return(c, "select")
       ELSE Go(c, "forward") /\ target' = [target EXCEPT ![c] = peers[id[c]]] /\ UNCHANGED msg
    /\ UNCHANGED <<linkVars, id, inbox, outbox, peers, stale, sent, log>>

(* HandleMessage after the registration: no receiver, the sender or the     *)
(* server itself, or a device that may be in the table.                     *)
Lookup(c) ==
    /\ router[c] = "lookup"
    /\ LET to == msg[c].to IN
       IF to \in {Nobody, id[c], Server} \/ peers[to] = Absent
       THEN Return(c, "select")
       ELSE Go(c, "forward") /\ target' = [target EXCEPT ![c] = peers[to]] /\ UNCHANGED msg
    /\ UNCHANGED <<linkVars, id, inbox, outbox, peers, stale, sent, log>>

(* PubMessage on the bus of the other connection. *)
Forward(c) ==
    /\ router[c] = "forward"
    /\ LET t == target[c] IN
       IF ctrl[t] = "shut"
       THEN Go(c, "blocked") /\ UNCHANGED <<msg, target, outbox>>
       ELSE /\ Return(c, "select")
            /\ outbox' \in Offered(t, msg[c])
    /\ UNCHANGED <<linkVars, id, inbox, peers, stale, sent, log>>

NoticeEnd(c) ==
    /\ router[c] = "select" /\ ctrl[c] # "up"
    /\ Go(c, "teardown")
    /\ UNCHANGED <<linkVars, routerVars, inbox, outbox, peers, stale, sent, log>>

(* Mutant: the entry stays. *)
TeardownKeeps(c) ==
    /\ router[c] = "teardown"
    /\ Go(c, "ended")
    /\ UNCHANGED <<linkVars, routerVars, inbox, outbox, peers, stale, sent, log>>

(* Teardown deletes the entry of the router's id, whoever wrote it. *)
Teardown(c) ==
    /\ router[c] = "teardown"
    /\ peers' = IF id[c] = Nobody THEN peers ELSE [peers EXCEPT ![id[c]] = Absent]
    /\ stale' = stale \cup {x \in Conns : id[c] # Nobody /\ peers[id[c]] = x}
    /\ Go(c, "ended")
    /\ UNCHANGED <<linkVars, routerVars, inbox, outbox, sent, log>>

(* The supervisor finds that the run is over, and sleeps.  When the context *)
(* is done too it may choose either.                                        *)
Respawn(c) ==
    /\ router[c] = "ended"
    /\ ctrl[c] = "up" \/ (LateSelect /\ ctrl[c] = "stopping")
    /\ Go(c, "starting")
    /\ UNCHANGED <<linkVars, routerVars, inbox, outbox, peers, stale, sent, log>>

(* Setup does nothing: the id is still the one of the run before. *)
Begin(c) ==
    /\ router[c] = "starting"
    /\ Go(c, "select")
    /\ inbox' = [inbox EXCEPT ![c] = <<>>]
    /\ UNCHANGED <<linkVars, routerVars, outbox, peers, stale, sent, log>>

-------------------------------------------------------------------------------
ConnNext(c) ==
    \/ RemoteEnds(c) \/ RemoteSends(c) \/ RemoteStops(c) \/ BusShuts(c)
    \/ Identify(c) \/ Drop(c) \/ Lookup(c) \/ Forward(c)
    \/ NoticeEnd(c) \/ Teardown(c) \/ Respawn(c) \/ Begin(c)

Next ==
    \/ \E c \in Conns : ConnNext(c)
    \/ \E d \in Clients, c \in Conns : Connect(d, c)
    \/ \E d \in Clients, from \in Clients \cup {Nobody}, to \in Receivers :
          Send(d, from, to)

Spec == Init /\ [][Next]_vars

(* The goroutines of the routers and supervisors go on when they can; the   *)
(* select of a router does not ignore the context for ever.  Nothing makes  *)
(* devices connect or send, Remotes end, or buses shut.                     *)
Fairness == \A c \in Conns :
    /\ WF_vars(Identify(c)) /\ WF_vars(Drop(c)) /\ WF_vars(Lookup(c)) /\ WF_vars(Forward(c))
    /\ SF_vars(NoticeEnd(c)) /\ WF_vars(Teardown(c))
    /\ WF_vars(Respawn(c)) /\ WF_vars(Begin(c))

FairSpec == Spec /\ Fairness

-------------------------------------------------------------------------------
(* Properties. *)

(* An entry of the table belongs to a connection whose router registered    *)
(* that very device and still runs (or is blocked): it will be deleted      *)
(* (router.go:43-50, 86-89).                                                *)
EntryOwned == \A d \in Clients, c \in Conns :
    peers[d] = c => id[c] = d /\ router[c] \in {"select", "lookup", "forward", "blocked", "teardown"}

(* What is forwarded to a connection is meant for the device that its       *)
(* router registered, even when the table was read long before              *)
(* (router.go:75-81).                                                       *)
RoutedToReceiver == \A c \in Conns : \A i \in DOMAIN outbox[c] :
    outbox[c][i] = Stop \/ outbox[c][i].to = id[c]

(* A device receives what came by one connection of another device in the   *)
(* order in which it was sent, at most once each, across reconnections and  *)
(* full buffers (router.go:75-81, controller.go:133-144).                   *)
DeliveredInOrder == \A d \in Clients : \A i, j \in DOMAIN log[d] :
    (i < j /\ log[d][i].via = log[d][j].via) => log[d][i].n < log[d][j].n

(* A router that works for a device holds the device's entry, unless it     *)
(* lost it to a Teardown: two connections of one device do not forward at   *)
(* the same time (router.go:43-50), but for those of which one is executed  *)
(* again, with its old id, after it was torn down (controller.go:171-179),   *)
(* or had its entry deleted by such a one.                                  *)
SoleForwarder == \A c \in Conns \ stale :
    (id[c] # Nobody /\ router[c] \in {"select", "lookup", "forward", "blocked"}) => peers[id[c]] = c

(* The entry of a connection is never overwritten, and only deleted by that *)
(* connection's own Teardown or by one that is not the first: Teardown      *)
(* deletes by id (router.go:88), so that a router that lost its entry and   *)
(* was executed again deletes a newer connection's.  A router that never    *)
(* had an entry, since another connection held it, deletes none.            *)
OnlyOwnerDeletes == [][\A d \in Clients, c \in Conns :
    (peers[d] = c /\ peers'[d] # c) =>
        \E x \in {c} \cup stale : router[x] = "teardown" /\ router'[x] = "ended"]_vars

(* When a connection ends its device can register again: the entry goes     *)
(* away, unless the router waits for a bus that was shut down               *)
(* (router.go:86-89).                                                       *)
EntryReleased == \A d \in Clients, c \in Conns :
    (peers[d] = c /\ ctrl[c] # "up") ~> (peers[d] # c \/ router[c] = "blocked")

(* README.md:19, the router routes messages between two devices: the router *)
(* of a connection that is up keeps working.                                *)
RouterKeepsWorking == \A c \in Conns : ctrl[c] = "up" => router[c] # "blocked"

==============================================================================
