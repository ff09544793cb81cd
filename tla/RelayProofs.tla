----------------------------- MODULE RelayProofs -----------------------------
(***************************************************************************)
(* Proofs about Relay: entries of the table belong to running routers,     *)
(* messages go to the device they are meant for, in their order, at most   *)
(* one connection of a device forwards and only it deletes the entry,      *)
(* unless its entry was deleted before.                                    *)
(***************************************************************************)
EXTENDS Relay, SequenceTheorems, TLAPS

(* Before it is opened a connection has no router, no id and no message. *)
Life == \A c \in Conns :
    ctrl[c] = "off" => router[c] = "off" /\ id[c] = Nobody /\ inbox[c] = <<>>

(* A router forwards to a connection whose id is the receiver's. *)
Targeted == \A c \in Conns : router[c] = "forward" =>
    target[c] \in Conns /\ msg[c].to \in Clients /\ id[target[c]] = msg[c].to

(* RoutedToReceiver, for connections whose id is known only. *)
Addressed == \A c \in Conns : \A i \in DOMAIN outbox[c] :
    outbox[c][i] = Stop \/ (outbox[c][i].to \in Clients /\ outbox[c][i].to = id[c])

IInv == TypeOK /\ Life /\ EntryOwned /\ Targeted /\ Addressed

Elements == Messages \cup {Stop}

-------------------------------------------------------------------------------
(* What a bounded channel holds after a message was offered to it. *)
LEMMA OfferElements ==
    ASSUME NEW S, NEW q \in Seq(S), NEW m \in S, Len(q) <= BufferSize
    PROVE  /\ Offer(q, m) \in Seq(S) /\ Len(Offer(q, m)) <= BufferSize
           /\ \A i \in DOMAIN Offer(q, m) :
                 Offer(q, m)[i] = m \/ (i \in DOMAIN q /\ Offer(q, m)[i] = q[i])
<1>1. BufferSize \in Nat /\ Len(q) \in Nat
  BY BufferAssumption, LenProperties
<1>2. /\ Append(q, m) \in Seq(S) /\ Len(Append(q, m)) = Len(q) + 1
      /\ \A i \in 1..Len(q) : Append(q, m)[i] = q[i]
      /\ Append(q, m)[Len(q) + 1] = m
  BY AppendProperties
<1>3. DOMAIN q = 1..Len(q) /\ DOMAIN Append(q, m) = 1..(Len(q) + 1)
  BY <1>2, LenProperties
<1>4. CASE Len(q) < BufferSize
  BY <1>1, <1>2, <1>3, <1>4 DEF Offer
<1>5. CASE ~(Len(q) < BufferSize)
  BY <1>5 DEF Offer
<1> QED
  BY <1>4, <1>5

(* What a channel holds after its first message was taken. *)
LEMMA TailElements ==
    ASSUME NEW S, NEW q \in Seq(S), q # <<>>
    PROVE  /\ Head(q) \in S /\ Tail(q) \in Seq(S)
           /\ Len(Tail(q)) <= Len(q) /\ Len(q) \in Nat
           /\ 1 \in DOMAIN q /\ Head(q) = q[1]
           /\ \A i \in DOMAIN Tail(q) : i + 1 \in DOMAIN q /\ Tail(q)[i] = q[i + 1]
<1>1. /\ Len(q) \in Nat \ {0} /\ Head(q) = q[1] /\ Head(q) \in S
      /\ Tail(q) \in Seq(S) /\ Len(Tail(q)) = Len(q) - 1
      /\ \A i \in 1..Len(Tail(q)) : Tail(q)[i] = q[i + 1]
  BY HeadTailProperties, EmptySeq
<1>2. DOMAIN q = 1..Len(q) /\ DOMAIN Tail(q) = 1..Len(Tail(q))
  BY <1>1, LenProperties
<1> QED
  BY <1>1, <1>2

(* A message offered to one connection of a function of channels. *)
LEMMA TryPubToOne ==
    ASSUME NEW q, DOMAIN q = Conns, NEW t \in Conns, NEW m
    PROVE  TryPub(q, {t}, m) = [c \in Conns |-> IF c = t THEN Offer(q[t], m) ELSE q[c]]
BY DEF TryPub

(* What may be in the outboxes after a publication to t. *)
LEMMA OfferedElements ==
    ASSUME TypeOK, NEW t \in Conns, NEW m \in Elements, outbox' \in Offered(t, m)
    PROVE  /\ outbox' \in [Conns -> Seq(Elements)]
           /\ \A c \in Conns : Len(outbox'[c]) <= BufferSize
           /\ \A c \in Conns : c # t => outbox'[c] = outbox[c]
           /\ \A i \in DOMAIN outbox'[t] :
                 outbox'[t][i] = m \/ (i \in DOMAIN outbox[t] /\ outbox'[t][i] = outbox[t][i])
<1>1. outbox \in [Conns -> Seq(Elements)] /\ \A c \in Conns : Len(outbox[c]) <= BufferSize
  BY DEF TypeOK, Elements
<1>2. outbox' = outbox \/ outbox' = TryPub(outbox, {t}, m)
  BY DEF Offered
<1>3. CASE outbox' = outbox
  BY <1>1, <1>3
<1>4. CASE outbox' = TryPub(outbox, {t}, m)
  <2>1. outbox' = [c \in Conns |-> IF c = t THEN Offer(outbox[t], m) ELSE outbox[c]]
    BY <1>1, <1>4, TryPubToOne
  <2>2. /\ Offer(outbox[t], m) \in Seq(Elements) /\ Len(Offer(outbox[t], m)) <= BufferSize
        /\ \A i \in DOMAIN Offer(outbox[t], m) :
              \/ Offer(outbox[t], m)[i] = m
              \/ i \in DOMAIN outbox[t] /\ Offer(outbox[t], m)[i] = outbox[t][i]
    BY <1>1, OfferElements
  <2> QED
    BY <1>1, <2>1, <2>2
<1> QED
  BY <1>2, <1>3, <1>4

(* The initial states satisfy the invariant. *)
LEMMA InitIInv == Init => IInv
<1> SUFFICES ASSUME Init PROVE IInv
  OBVIOUS
<1>1. /\ \A S : <<>> \in Seq(S) /\ Len(<<>>) = 0 /\ DOMAIN <<>> = {}
      /\ BufferSize \in Nat /\ MaxMsgs \in Nat
  BY EmptySeq, BufferAssumption, RelayAssumption
<1>2. TypeOK
  BY <1>1 DEF Init, TypeOK, RouterStates
<1>3. Life /\ EntryOwned /\ Targeted /\ Addressed
  BY <1>1, RelayAssumption DEF Init, Life, EntryOwned, Targeted, Addressed
<1> QED
  BY <1>2, <1>3 DEF IInv

-------------------------------------------------------------------------------
(* Facts that the proofs of the steps share. *)
LEMMA Facts ==
    ASSUME IInv
    PROVE  /\ Nobody \notin Clients /\ Server \notin Clients /\ Absent \notin Conns
           /\ Stop.to = Nobody /\ Stop \in Elements /\ Messages \subseteq Elements
           /\ \A m \in Messages : m.to \in Clients \cup {Server, Nobody} /\ m.from \in Clients \cup {Nobody}
           /\ owner \in [Conns -> Clients \cup {Nobody}] /\ ctrl \in [Conns -> {"off", "up", "stopping", "shut"}]
           /\ router \in [Conns -> RouterStates] /\ id \in [Conns -> Clients \cup {Nobody}]
           /\ msg \in [Conns -> Elements] /\ target \in [Conns -> Conns \cup {Absent}]
           /\ peers \in [Clients -> Conns \cup {Absent}]
BY RelayAssumption DEF IInv, TypeOK, Messages, Stop, Elements

(* Connections come up, end and are shut down. *)
LEMMA LinkSteps ==
    ASSUME IInv, NEW c \in Conns,
           \/ \E d \in Clients : Connect(d, c)
           \/ RemoteEnds(c) \/ BusShuts(c)
    PROVE  IInv'
<1> USE Facts
<1>1. CASE \E d \in Clients : Connect(d, c)
  <2> PICK d \in Clients : Connect(d, c)
    BY <1>1
  <2>1. TypeOK'
    BY DEF IInv, TypeOK, Connect, Go, routerVars, RouterStates
  <2>2. /\ \A x \in Conns : router'[x] = IF x = c THEN "starting" ELSE router[x]
        /\ \A x \in Conns : ctrl'[x] = IF x = c THEN "up" ELSE ctrl[x]
        /\ ctrl[c] = "off" /\ UNCHANGED <<id, msg, target, inbox, outbox, peers>>
    BY DEF Connect, Go, routerVars
  <2>3. router[c] = "off" /\ id[c] = Nobody
    BY <2>2 DEF IInv, Life
  <2>4. Life' /\ EntryOwned' /\ Targeted' /\ Addressed'
    BY <2>2, <2>3 DEF IInv, Life, EntryOwned, Targeted, Addressed
  <2> QED
    BY <2>1, <2>4 DEF IInv
<1>2. CASE RemoteEnds(c)
  <2>0. <<>> \in Seq(Elements) /\ Len(<<>>) <= BufferSize /\ DOMAIN <<>> = {}
    BY EmptySeq, BufferAssumption
  <2>1. TypeOK'
    BY <1>2, <2>0 DEF IInv, TypeOK, RemoteEnds, routerVars, Elements
  <2>2. /\ \A x \in Conns : ctrl'[x] = IF x = c THEN "stopping" ELSE ctrl[x]
        /\ \A x \in Conns : outbox'[x] = IF x = c THEN <<>> ELSE outbox[x]
        /\ UNCHANGED <<router, id, msg, target, inbox, peers>>
    BY <1>2 DEF RemoteEnds, routerVars, IInv, TypeOK
  <2>3. Life' /\ EntryOwned' /\ Targeted' /\ Addressed'
    BY <2>0, <2>2 DEF IInv, Life, EntryOwned, Targeted, Addressed
  <2> QED
    BY <2>1, <2>3 DEF IInv
<1>3. CASE BusShuts(c)
  <2>1. TypeOK'
    BY <1>3 DEF IInv, TypeOK, BusShuts, routerVars
  <2>2. /\ \A x \in Conns : ctrl'[x] = IF x = c THEN "shut" ELSE ctrl[x]
        /\ UNCHANGED <<router, id, msg, target, inbox, outbox, peers>>
    BY <1>3 DEF BusShuts, routerVars
  <2>3. Life' /\ EntryOwned' /\ Targeted' /\ Addressed'
    BY <2>2 DEF IInv, Life, EntryOwned, Targeted, Addressed
  <2> QED
    BY <2>1, <2>3 DEF IInv
<1> QED
  BY <1>1, <1>2, <1>3

(* A message comes in. *)
LEMMA SendStep ==
    ASSUME IInv, NEW d \in Clients, NEW from \in Clients \cup {Nobody}, NEW to \in Receivers,
           Send(d, from, to)
    PROVE  IInv'
<1> DEFINE c == current[d]
<1> DEFINE m == [from |-> from, to |-> to, n |-> sent + 1, via |-> c]
<1>1. /\ c \in Conns /\ sent + 1 \in 1..MaxMsgs /\ sent' = sent + 1 /\ ctrl[c] = "up"
      /\ inbox' = inbox \/ inbox' = TryPub(inbox, {c}, m)
      /\ UNCHANGED <<owner, current, ctrl, router, id, msg, target, outbox, peers, stale, log>>
  BY RelayAssumption DEF IInv, TypeOK, Send, linkVars, routerVars
<1>2. m \in Messages
  BY <1>1 DEF Messages
<1>3. /\ inbox' \in [Conns -> Seq(Messages)] /\ \A x \in Conns : Len(inbox'[x]) <= BufferSize
      /\ \A x \in Conns : x # c => inbox'[x] = inbox[x]
  <2>1. inbox \in [Conns -> Seq(Messages)] /\ \A x \in Conns : Len(inbox[x]) <= BufferSize
    BY DEF IInv, TypeOK
  <2> HIDE DEF m, c
  <2>2. CASE inbox' = TryPub(inbox, {c}, m)
    <3>1. inbox' = [x \in Conns |-> IF x = c THEN Offer(inbox[c], m) ELSE inbox[x]]
      BY <1>1, <2>1, <2>2, TryPubToOne
    <3>2. Offer(inbox[c], m) \in Seq(Messages) /\ Len(Offer(inbox[c], m)) <= BufferSize
      BY <1>1, <1>2, <2>1, OfferElements
    <3> QED
      BY <2>1, <3>1, <3>2
  <2> QED
    BY <1>1, <2>1, <2>2
<1> HIDE DEF m, c
<1>4. TypeOK'
  BY <1>1, <1>3 DEF IInv, TypeOK
<1>5. Life' /\ EntryOwned' /\ Targeted' /\ Addressed'
  BY <1>1, <1>3 DEF IInv, Life, EntryOwned, Targeted, Addressed
<1> QED
  BY <1>4, <1>5 DEF IInv

(* A message goes out. *)
LEMMA RemoteSendsStep ==
    ASSUME IInv, NEW c \in Conns, RemoteSends(c)
    PROVE  IInv'
<1> DEFINE q == outbox[c]
<1>1. /\ q \in Seq(Elements) /\ q # <<>> /\ Head(q) # Stop /\ Len(q) <= BufferSize
      /\ outbox \in [Conns -> Seq(Elements)]
      /\ \A x \in Conns : outbox'[x] = IF x = c THEN Tail(q) ELSE outbox[x]
      /\ outbox' = [outbox EXCEPT ![c] = Tail(q)]
      /\ UNCHANGED <<owner, current, ctrl, router, id, msg, target, inbox, peers, stale, sent>>
  BY DEF IInv, TypeOK, RemoteSends, linkVars, routerVars, Elements
<1>2. /\ Head(q) \in Messages /\ Tail(q) \in Seq(Elements) /\ Len(Tail(q)) <= BufferSize
      /\ \A i \in DOMAIN Tail(q) : i + 1 \in DOMAIN q /\ Tail(q)[i] = q[i + 1]
  <2>1. /\ Head(q) \in Elements /\ Tail(q) \in Seq(Elements) /\ Len(Tail(q)) <= Len(q)
        /\ Len(q) \in Nat /\ Len(Tail(q)) \in Nat
        /\ \A i \in DOMAIN Tail(q) : i + 1 \in DOMAIN q /\ Tail(q)[i] = q[i + 1]
    <3> HIDE DEF q
    <3> QED
      BY <1>1, TailElements, LenProperties
  <2> QED
    BY <1>1, <2>1, BufferAssumption DEF Elements
<1>3. log' \in [Clients -> Seq(Messages)]
  <2>1. \A d \in Clients : Append(log[d], Head(q)) \in Seq(Messages)
    BY <1>2, AppendProperties DEF IInv, TypeOK
  <2>2. log' = log \/ log' = [log EXCEPT ![owner[c]] = Append(@, Head(q))]
    BY DEF RemoteSends
  <2>3. log \in [Clients -> Seq(Messages)]
    BY DEF IInv, TypeOK
  <2>4. CASE owner[c] \in Clients
    BY <2>1, <2>2, <2>3, <2>4
  <2>5. CASE owner[c] \notin Clients
    BY <2>2, <2>3, <2>5
  <2> QED
    BY <2>4, <2>5
<1>4. TypeOK'
  <2>1. /\ outbox' \in [Conns -> Seq(Messages \cup {Stop})]
        /\ \A x \in Conns : Len(outbox'[x]) <= BufferSize
    BY <1>1, <1>2 DEF Elements, IInv, TypeOK
  <2> QED
    BY <1>1, <1>3, <2>1 DEF IInv, TypeOK
<1>5. Addressed'
  BY <1>1, <1>2 DEF IInv, Addressed
<1>6. Life' /\ EntryOwned' /\ Targeted'
  BY <1>1 DEF IInv, Life, EntryOwned, Targeted
<1> QED
  BY <1>4, <1>5, <1>6 DEF IInv

-------------------------------------------------------------------------------
(* The router takes a message. *)
LEMMA IdentifyStep ==
    ASSUME IInv, NEW c \in Conns, Identify(c)
    PROVE  IInv'
<1> USE Facts
<1> DEFINE m == Head(inbox[c])
<1>1. /\ m \in Messages /\ inbox' \in [Conns -> Seq(Messages)]
      /\ \A x \in Conns : Len(inbox'[x]) <= BufferSize
      /\ \A x \in Conns : x # c => inbox'[x] = inbox[x]
  <2>1. /\ inbox \in [Conns -> Seq(Messages)] /\ \A x \in Conns : Len(inbox[x]) <= BufferSize
        /\ inbox[c] # <<>> /\ inbox' = [inbox EXCEPT ![c] = Tail(inbox[c])]
    BY DEF IInv, TypeOK, Identify
  <2>2. /\ Head(inbox[c]) \in Messages /\ Tail(inbox[c]) \in Seq(Messages)
        /\ Len(Tail(inbox[c])) <= Len(inbox[c]) /\ Len(inbox[c]) \in Nat /\ Len(Tail(inbox[c])) \in Nat
    BY <2>1, TailElements, LenProperties
  <2> QED
    BY <2>1, <2>2, BufferAssumption
<1>2. /\ router[c] = "select" /\ inbox[c] # <<>>
      /\ UNCHANGED <<owner, current, ctrl, target, outbox, stale, sent, log>>
      /\ \/ /\ router' = [router EXCEPT ![c] = "teardown"]
            /\ UNCHANGED <<id, msg, peers>>
         \/ /\ id[c] = Nobody /\ router' = [router EXCEPT ![c] = "drop"]
            /\ UNCHANGED <<id, msg, peers>>
         \/ /\ m.from # Nobody /\ id[c] = Nobody /\ peers[m.from] = Absent
            /\ peers' = [peers EXCEPT ![m.from] = c]
            /\ id' = [id EXCEPT ![c] = m.from]
            /\ msg' = [msg EXCEPT ![c] = m]
            /\ router' = [router EXCEPT ![c] = "lookup"]
         \/ /\ msg' = [msg EXCEPT ![c] = m]
            /\ router' = [router EXCEPT ![c] = "lookup"]
            /\ UNCHANGED <<id, peers>>
  BY DEF Identify, Go, linkVars
<1> HIDE DEF m
<1>3. ctrl[c] # "off"
  BY <1>2 DEF IInv, Life
<1>m. m \in Elements /\ m.from \in Clients \cup {Nobody}
  BY <1>1
<1>4. TypeOK'
  <2>1. id' \in [Conns -> Clients \cup {Nobody}] /\ peers' \in [Clients -> Conns \cup {Absent}]
    BY <1>2, <1>m
  <2>2. router' \in [Conns -> RouterStates] /\ msg' \in [Conns -> Elements]
    BY <1>2, <1>m DEF RouterStates
  <2> QED
    BY <1>1, <1>2, <2>1, <2>2 DEF IInv, TypeOK, Elements
<1>5. Life'
  BY <1>1, <1>2, <1>3 DEF IInv, Life
<1>6. EntryOwned'
  <2> SUFFICES ASSUME NEW d \in Clients, NEW x \in Conns, peers'[d] = x
               PROVE  id'[x] = d /\ router'[x] \in {"select", "lookup", "forward", "blocked", "teardown"}
    BY DEF EntryOwned
  <2>1. peers[d] = x \/ (x = c /\ id[c] = Nobody /\ id'[c] = d /\ router'[c] = "lookup")
    BY <1>2, <1>m
  <2>2. peers[d] = x => id[x] = d /\ router[x] \in {"select", "lookup", "forward", "blocked", "teardown"}
    BY DEF IInv, EntryOwned
  <2>3. CASE peers[d] = x /\ x # c
    BY <1>2, <2>2, <2>3
  <2>4. CASE peers[d] = x /\ x = c
    BY <1>2, <2>2, <2>4
  <2> QED
    BY <2>1, <2>3, <2>4
<1>7. Targeted'
  BY <1>1, <1>2 DEF IInv, Targeted
<1>8. Addressed'
  BY <1>1, <1>2 DEF IInv, Addressed
<1> QED
  BY <1>4, <1>5, <1>6, <1>7, <1>8 DEF IInv

(* The router asks its own Remote to stop. *)
LEMMA DropStep ==
    ASSUME IInv, NEW c \in Conns, Drop(c)
    PROVE  IInv'
<1> USE Facts
<1>1. /\ router[c] = "drop" /\ UNCHANGED <<owner, current, ctrl, id, msg, target, inbox, peers, stale, sent, log>>
      /\ \/ router' = [router EXCEPT ![c] = "blocked"] /\ outbox' = outbox
         \/ router' = [router EXCEPT ![c] = "teardown"] /\ outbox' \in Offered(c, Stop)
  BY DEF Drop, Go, linkVars, routerVars
<1>2. /\ outbox' \in [Conns -> Seq(Elements)]
      /\ \A x \in Conns : Len(outbox'[x]) <= BufferSize
      /\ \A x \in Conns : x # c => outbox'[x] = outbox[x]
      /\ \A i \in DOMAIN outbox'[c] :
            outbox'[c][i] = Stop \/ (i \in DOMAIN outbox[c] /\ outbox'[c][i] = outbox[c][i])
  <2>1. CASE outbox' = outbox
    BY <2>1 DEF IInv, TypeOK, Elements
  <2>2. CASE outbox' \in Offered(c, Stop)
    BY <2>2, OfferedElements DEF IInv
  <2> QED
    BY <1>1, <2>1, <2>2
<1>3. TypeOK'
  <2>1. router' \in [Conns -> RouterStates]
    BY <1>1 DEF RouterStates
  <2>. QED BY <1>1, <1>2, <2>1 DEF IInv, TypeOK, Elements
<1>4. Life' /\ EntryOwned' /\ Targeted'
  BY <1>1 DEF IInv, Life, EntryOwned, Targeted
<1>5. Addressed'
  BY <1>1, <1>2 DEF IInv, Addressed
<1> QED
  BY <1>3, <1>4, <1>5 DEF IInv

(* The router looks the receiver up. *)
LEMMA LookupStep ==
    ASSUME IInv, NEW c \in Conns, Lookup(c)
    PROVE  IInv'
<1> USE Facts
<1> DEFINE to == msg[c].to
<1>1. /\ router[c] = "lookup" /\ UNCHANGED <<owner, current, ctrl, id, inbox, outbox, peers, stale, sent, log>>
      /\ \/ /\ router' = [router EXCEPT ![c] = "select"]
            /\ msg' = [msg EXCEPT ![c] = Stop] /\ target' = [target EXCEPT ![c] = Absent]
         \/ /\ to \notin {Nobody, id[c], Server} /\ peers[to] # Absent
            /\ router' = [router EXCEPT ![c] = "forward"]
            /\ target' = [target EXCEPT ![c] = peers[to]] /\ msg' = msg
  BY DEF Lookup, Return, Go, linkVars
<1>2. to \notin {Nobody, Server} /\ peers[to] # Absent =>
        to \in Clients /\ peers[to] \in Conns /\ id[peers[to]] = to
  <2>1. to \in Clients \cup {Server, Nobody}
    BY DEF Elements
  <2> HIDE DEF to
  <2> QED
    BY <2>1 DEF IInv, EntryOwned
<1>3. TypeOK'
  <2>1. router' \in [Conns -> RouterStates]
    BY <1>1 DEF RouterStates
  <2>. QED BY <1>1, <1>2, <2>1 DEF IInv, TypeOK, Elements
<1>4. Life' /\ EntryOwned' /\ Addressed'
  BY <1>1 DEF IInv, Life, EntryOwned, Addressed
<1>5. Targeted'
  BY <1>1, <1>2 DEF IInv, Targeted
<1> QED
  BY <1>3, <1>4, <1>5 DEF IInv

(* The router publishes on the bus of the connection it found. *)
LEMMA ForwardStep ==
    ASSUME IInv, NEW c \in Conns, Forward(c)
    PROVE  IInv'
<1> USE Facts
<1> DEFINE t == target[c]
<1>1. /\ router[c] = "forward" /\ UNCHANGED <<owner, current, ctrl, id, inbox, peers, stale, sent, log>>
      /\ \/ /\ router' = [router EXCEPT ![c] = "blocked"] /\ UNCHANGED <<msg, target, outbox>>
         \/ /\ router' = [router EXCEPT ![c] = "select"]
            /\ msg' = [msg EXCEPT ![c] = Stop] /\ target' = [target EXCEPT ![c] = Absent]
            /\ outbox' \in Offered(t, msg[c])
  BY DEF Forward, Return, Go, linkVars
<1>2. t \in Conns /\ msg[c].to \in Clients /\ id[t] = msg[c].to
  BY <1>1 DEF IInv, Targeted
<1>3. /\ outbox' \in [Conns -> Seq(Elements)]
      /\ \A x \in Conns : Len(outbox'[x]) <= BufferSize
      /\ \A x \in Conns : x # t => outbox'[x] = outbox[x]
      /\ \A i \in DOMAIN outbox'[t] :
            outbox'[t][i] = msg[c] \/ (i \in DOMAIN outbox[t] /\ outbox'[t][i] = outbox[t][i])
  <2> HIDE DEF t
  <2>1. CASE outbox' = outbox
    BY <1>2, <2>1 DEF IInv, TypeOK, Elements
  <2>2. CASE outbox' \in Offered(t, msg[c])
    BY <1>2, <2>2, OfferedElements DEF IInv
  <2> QED
    BY <1>1, <2>1, <2>2
<1> HIDE DEF t
<1>4. TypeOK'
  <2>1. router' \in [Conns -> RouterStates]
    BY <1>1 DEF RouterStates
  <2>2. msg' \in [Conns -> Elements] /\ target' \in [Conns -> Conns \cup {Absent}]
    BY <1>1
  <2>. QED BY <1>1, <1>3, <2>1, <2>2 DEF IInv, TypeOK, Elements
<1>5. Life' /\ EntryOwned' /\ Targeted'
  BY <1>1 DEF IInv, Life, EntryOwned, Targeted
<1>6. Addressed'
  <2> SUFFICES ASSUME NEW x \in Conns, NEW i \in DOMAIN outbox'[x]
               PROVE  outbox'[x][i] = Stop \/ (outbox'[x][i].to \in Clients /\ outbox'[x][i].to = id[x])
    BY <1>1 DEF Addressed
  <2>1. CASE x = t
    <3>1. CASE outbox'[t][i] = msg[c]
      BY <1>1, <1>2, <2>1, <3>1
    <3>2. CASE i \in DOMAIN outbox[t] /\ outbox'[t][i] = outbox[t][i]
      BY <1>1, <1>2, <2>1, <3>2 DEF IInv, Addressed
    <3> QED
      BY <1>3, <2>1, <3>1, <3>2
  <2>2. CASE x # t
    <3>1. outbox'[x] = outbox[x]
      BY <1>3, <2>2
    <3>2. i \in DOMAIN outbox[x]
      BY <3>1
    <3> QED
      BY <3>1, <3>2 DEF IInv, Addressed
  <2> QED
    BY <2>1, <2>2
<1> QED
  BY <1>4, <1>5, <1>6 DEF IInv

(* The loop ends, its goroutine tears down, and the supervisor starts again. *)
LEMMA RunSteps ==
    ASSUME IInv, NEW c \in Conns,
           NoticeEnd(c) \/ Teardown(c) \/ Respawn(c) \/ Begin(c)
    PROVE  IInv'
<1> USE Facts
<1>1. CASE NoticeEnd(c)
  <2>1. /\ router[c] = "select" /\ router' = [router EXCEPT ![c] = "teardown"] /\ ctrl[c] # "up"
        /\ UNCHANGED <<owner, current, ctrl, id, msg, target, inbox, outbox, peers, stale, sent, log>>
    BY <1>1 DEF NoticeEnd, Go, linkVars, routerVars
  <2>2. TypeOK'
    BY <2>1 DEF IInv, TypeOK, RouterStates
  <2>3. Life' /\ EntryOwned' /\ Targeted' /\ Addressed'
    BY <2>1 DEF IInv, Life, EntryOwned, Targeted, Addressed
  <2> QED
    BY <2>2, <2>3 DEF IInv
<1>2. CASE Teardown(c)
  <2>1. /\ router[c] = "teardown" /\ router' = [router EXCEPT ![c] = "ended"]
        /\ peers' = IF id[c] = Nobody THEN peers ELSE [peers EXCEPT ![id[c]] = Absent]
        /\ UNCHANGED <<owner, current, ctrl, id, msg, target, inbox, outbox, sent, log>>
        /\ stale' = stale \cup {x \in Conns : id[c] # Nobody /\ peers[id[c]] = x}
    BY <1>2 DEF Teardown, Go, linkVars, routerVars
  <2>2. TypeOK'
    BY <2>1 DEF IInv, TypeOK, RouterStates
  <2>3. Life' /\ Targeted' /\ Addressed'
    BY <2>1 DEF IInv, Life, Targeted, Addressed
  <2>4. EntryOwned'
    <3>1. \A d \in Clients : peers'[d] = IF d = id[c] THEN Absent ELSE peers[d]
      BY <2>1
    <3> QED
      BY <2>1, <3>1 DEF IInv, EntryOwned
  <2> QED
    BY <2>2, <2>3, <2>4 DEF IInv
<1>3. CASE Respawn(c)
  <2>1. /\ router[c] = "ended" /\ router' = [router EXCEPT ![c] = "starting"]
        /\ UNCHANGED <<owner, current, ctrl, id, msg, target, inbox, outbox, peers, stale, sent, log>>
    BY <1>3 DEF Respawn, Go, linkVars, routerVars
  <2>2. TypeOK'
    BY <2>1 DEF IInv, TypeOK, RouterStates
  <2>3. Life' /\ EntryOwned' /\ Targeted' /\ Addressed'
    BY <2>1 DEF IInv, Life, EntryOwned, Targeted, Addressed
  <2> QED
    BY <2>2, <2>3 DEF IInv
<1>4. CASE Begin(c)
  <2>1. /\ router[c] = "starting" /\ router' = [router EXCEPT ![c] = "select"]
        /\ inbox' = [inbox EXCEPT ![c] = <<>>]
        /\ UNCHANGED <<owner, current, ctrl, id, msg, target, outbox, peers, stale, sent, log>>
    BY <1>4 DEF Begin, Go, linkVars, routerVars
  <2>2. <<>> \in Seq(Messages) /\ Len(<<>>) <= BufferSize
    BY EmptySeq, BufferAssumption
  <2>3. TypeOK'
    BY <2>1, <2>2 DEF IInv, TypeOK, RouterStates
  <2>4. Life' /\ EntryOwned' /\ Targeted' /\ Addressed'
    BY <2>1 DEF IInv, Life, EntryOwned, Targeted, Addressed
  <2> QED
    BY <2>3, <2>4 DEF IInv
<1> QED
  BY <1>1, <1>2, <1>3, <1>4

(* Every step preserves the invariant. *)
LEMMA NextIInv == IInv /\ [Next]_vars => IInv'
<1> SUFFICES ASSUME IInv, [Next]_vars PROVE IInv'
  OBVIOUS
<1>1. ASSUME NEW c \in Conns, ConnNext(c) PROVE IInv'
  <2>1. RemoteStops(c) => RemoteEnds(c)
    BY DEF RemoteStops
  <2> QED
    BY <1>1, <2>1, LinkSteps, RemoteSendsStep, IdentifyStep, DropStep, LookupStep, ForwardStep,
       RunSteps DEF ConnNext
<1>2. ASSUME NEW d \in Clients, NEW c \in Conns, Connect(d, c) PROVE IInv'
  BY <1>2, LinkSteps
<1>3. CASE UNCHANGED vars
  BY <1>3 DEF vars, linkVars, routerVars, IInv, TypeOK, Life, EntryOwned, Targeted, Addressed
<1> QED
  BY <1>1, <1>2, <1>3, SendStep DEF Next

(* The invariant holds in every reachable state. *)
THEOREM Invariance == Spec => []IInv
BY InitIInv, NextIInv, PTL DEF Spec

(* Type correctness, the capacity of the channels included. *)
THEOREM TypeCorrect == Spec => []TypeOK
<1>1. IInv => TypeOK
  BY DEF IInv
<1> QED
  BY <1>1, Invariance, PTL

(* An entry belongs to a connection whose router will delete it, or is      *)
(* blocked (router.go:43-50, 86-89).                                        *)
THEOREM EntriesAreOwned == Spec => []EntryOwned
<1>1. IInv => EntryOwned
  BY DEF IInv
<1> QED
  BY <1>1, Invariance, PTL

(* Messages are forwarded to the device they are for (router.go:75-81).     *)
THEOREM MessagesReachTheirReceiver == Spec => []RoutedToReceiver
<1>1. IInv => RoutedToReceiver
  BY DEF IInv, Addressed, RoutedToReceiver
<1> QED
  BY <1>1, Invariance, PTL

-------------------------------------------------------------------------------
(* Who holds an entry, when routers are executed again after their Teardown *)
(* and devices send what they like.                                         *)

(* A router that knows its device holds the entry, or lost it.  Ids are     *)
(* never forgotten.                                                         *)
HeldOrStale == \A c \in Conns : id[c] # Nobody => peers[id[c]] = c \/ c \in stale

HInv == IInv /\ HeldOrStale

LEMMA InitHInv == Init => HInv
<1> SUFFICES ASSUME Init PROVE HInv
  OBVIOUS
<1>1. IInv
  BY InitIInv
<1>2. HeldOrStale
  BY DEF Init, HeldOrStale
<1> QED
  BY <1>1, <1>2 DEF HInv

(* A router registers its device where there is no entry: whoever has the   *)
(* same id is stale.                                                        *)
LEMMA IdentifyHolds ==
    ASSUME HInv, NEW c \in Conns, Identify(c)
    PROVE  HeldOrStale'
<1> USE Facts DEF HInv
<1>1. inbox[c] \in Seq(Messages) /\ inbox[c] # <<>> /\ stale' = stale
  BY DEF Identify, IInv, TypeOK
<1>2. Head(inbox[c]) \in Messages
  BY <1>1, TailElements
<1>3. \/ id' = id /\ peers' = peers
      \/ \E d \in Clients : /\ id[c] = Nobody /\ peers[d] = Absent
                            /\ id' = [id EXCEPT ![c] = d] /\ peers' = [peers EXCEPT ![d] = c]
  BY <1>2 DEF Identify
<1>4. CASE id' = id /\ peers' = peers
  BY <1>1, <1>4 DEF HeldOrStale
<1>5. ASSUME NEW d \in Clients, id[c] = Nobody, peers[d] = Absent,
             id' = [id EXCEPT ![c] = d], peers' = [peers EXCEPT ![d] = c]
      PROVE  HeldOrStale'
  <2> SUFFICES ASSUME NEW x \in Conns, id'[x] # Nobody PROVE peers'[id'[x]] = x \/ x \in stale'
    BY DEF HeldOrStale
  <2>1. CASE x = c
    BY <1>5, <2>1
  <2>2. CASE x # c
    <3>1. id'[x] = id[x] /\ id[x] \in Clients
      BY <1>5, <2>2
    <3>2. peers[id[x]] = x \/ x \in stale
      BY <3>1 DEF HeldOrStale
    <3> QED
      BY <1>1, <1>5, <3>1, <3>2
  <2> QED
    BY <2>1, <2>2
<1> QED
  BY <1>3, <1>4, <1>5

(* The connection whose entry a Teardown deletes is stale from then on.     *)
LEMMA TeardownHolds ==
    ASSUME HInv, NEW c \in Conns, Teardown(c)
    PROVE  HeldOrStale'
<1> USE Facts DEF HInv
<1>1. /\ id' = id
      /\ peers' = IF id[c] = Nobody THEN peers ELSE [peers EXCEPT ![id[c]] = Absent]
      /\ stale' = stale \cup {x \in Conns : id[c] # Nobody /\ peers[id[c]] = x}
  BY DEF Teardown, routerVars
<1> SUFFICES ASSUME NEW x \in Conns, id[x] # Nobody PROVE peers'[id[x]] = x \/ x \in stale'
  BY <1>1 DEF HeldOrStale
<1>2. peers[id[x]] = x \/ x \in stale
  BY DEF HeldOrStale
<1>3. CASE x \in stale
  BY <1>1, <1>3
<1>4. CASE peers[id[x]] = x /\ id[c] = id[x]
  BY <1>1, <1>4
<1>5. CASE peers[id[x]] = x /\ id[c] # id[x]
  BY <1>1, <1>5
<1> QED
  BY <1>2, <1>3, <1>4, <1>5

LEMMA NextHInv == HInv /\ [Next]_vars => HInv'
<1> SUFFICES ASSUME HInv, [Next]_vars PROVE HeldOrStale'
  BY NextIInv DEF HInv
<1>1. ASSUME NEW c \in Conns, ConnNext(c) PROVE HeldOrStale'
  <2>1. CASE Identify(c)
    BY <2>1, IdentifyHolds
  <2>2. CASE Teardown(c)
    BY <2>2, TeardownHolds
  <2>3. CASE ~Identify(c) /\ ~Teardown(c)
    <3>1. UNCHANGED <<id, peers, stale>>
      BY <1>1, <2>3 DEF ConnNext, RemoteEnds, RemoteStops, RemoteSends, BusShuts, Drop, Lookup, Forward,
         NoticeEnd, Respawn, Begin, routerVars
    <3> QED
      BY <3>1 DEF HInv, HeldOrStale
  <2> QED
    BY <2>1, <2>2, <2>3
<1>2. CASE ~\E c \in Conns : ConnNext(c)
  <2>1. UNCHANGED <<id, peers, stale>>
    BY <1>2 DEF Next, Connect, Send, vars, routerVars
  <2> QED
    BY <2>1 DEF HInv, HeldOrStale
<1> QED
  BY <1>1, <1>2

LEMMA HeldAlways == Spec => []HInv
BY InitHInv, NextHInv, PTL DEF Spec

(* At most one connection of a device works for it, of those whose entry    *)
(* was not deleted (router.go:43-50).                                       *)
THEOREM OneForwarder == Spec => []SoleForwarder
<1>1. HInv => SoleForwarder
  BY DEF HInv, HeldOrStale, SoleForwarder
<1> QED
  BY <1>1, HeldAlways, PTL

(* An entry is deleted by the Teardown of its connection, or of one that    *)
(* lost its own before, and overwritten by nobody (router.go:43, 88).       *)
THEOREM OnlyOwnerDeletesEntry == Spec => OnlyOwnerDeletes
<1> DEFINE Step == \A d \in Clients, c \in Conns :
              (peers[d] = c /\ peers'[d] # c) =>
                  \E x \in {c} \cup stale : router[x] = "teardown" /\ router'[x] = "ended"
<1>1. ASSUME HInv, [Next]_vars PROVE [Step]_vars
  <2>1. SUFFICES ASSUME Next, NEW d \in Clients, NEW c \in Conns, peers[d] = c, peers'[d] # c
                 PROVE  \E x \in {c} \cup stale : router[x] = "teardown" /\ router'[x] = "ended"
    BY <1>1
  <2> USE Facts, <1>1 DEF HInv
  <2>2. ASSUME NEW x \in Conns, ConnNext(x)
        PROVE  \E y \in {c} \cup stale : router[y] = "teardown" /\ router'[y] = "ended"
    <3>1. CASE Identify(x)
      <4>1. peers' = peers \/ \E e \in Clients : peers[e] = Absent /\ peers' = [peers EXCEPT ![e] = x]
        <5>1. Head(inbox[x]) \in Messages
          BY <3>1, TailElements DEF Identify, IInv, TypeOK
        <5> QED
          BY <3>1, <5>1 DEF Identify
      <4> QED
        BY <4>1, <2>1
    <3>2. CASE Teardown(x)
      <4>1. /\ router[x] = "teardown" /\ router' = [router EXCEPT ![x] = "ended"] /\ id[x] = d
        BY <2>1, <3>2 DEF Teardown, Go
      <4>2. peers[d] = x \/ x \in stale
        BY <4>1 DEF HeldOrStale
      <4>3. x \in {c} \cup stale
        BY <2>1, <4>2
      <4> QED
        BY <4>1, <4>3
    <3>3. CASE ~Identify(x) /\ ~Teardown(x)
      <4>1. peers' = peers
        BY <2>2, <3>3 DEF ConnNext, RemoteEnds, RemoteStops, RemoteSends, BusShuts, Drop, Lookup, Forward,
           NoticeEnd, Respawn, Begin, linkVars, routerVars
      <4> QED
        BY <2>1, <4>1
    <3> QED
      BY <3>1, <3>2, <3>3
  <2>3. CASE ~\E x \in Conns : ConnNext(x)
    <3>1. peers' = peers
      BY <2>1, <2>3 DEF Next, Connect, Send
    <3> QED
      BY <2>1, <3>1
  <2> QED
    BY <2>2, <2>3
<1> QED
  BY <1>1, HeldAlways, PTL DEF Spec, OnlyOwnerDeletes

-------------------------------------------------------------------------------
(* Order: a message overtakes no other that came by the same connection,    *)
(* whatever the router, the buffers and the reconnections do.               *)

Working(c) == router[c] \in {"lookup", "forward"}

(* Everything in q that came by the connection of m is older than m. *)
Older(q, m) == \A i \in DOMAIN q : q[i].via = m.via => q[i].n < m.n

InOrder(q) == \A i, j \in DOMAIN q :
    (i < j /\ q[i].via = q[j].via /\ q[j].via \in Conns) => q[i].n < q[j].n

(* Only the Remote of a connection that is up is subscribed. *)
OnlyUp == \A c \in Conns : outbox[c] # <<>> => ctrl[c] = "up"

(* Messages are numbered as they come in; a router works on its own ones. *)
Counted ==
    /\ \A c \in Conns : \A i \in DOMAIN inbox[c] : inbox[c][i].via = c /\ inbox[c][i].n <= sent
    /\ \A c \in Conns : \A i \in DOMAIN outbox[c] : outbox[c][i].n <= sent
    /\ \A d \in Clients : \A i \in DOMAIN log[d] : log[d][i].n <= sent
    /\ \A c \in Conns : Working(c) => msg[c] \in Messages /\ msg[c].via = c /\ msg[c].n <= sent

(* What a router works on is older than what waits for it. *)
Waiting == \A c \in Conns :
    /\ \A i, j \in DOMAIN inbox[c] : i < j => inbox[c][i].n < inbox[c][j].n
    /\ Working(c) => \A i \in DOMAIN inbox[c] : msg[c].n < inbox[c][i].n

(* What left the router of c is older than what is still there. *)
Behind(c, q) ==
    /\ \A i \in DOMAIN inbox[c] : Older(q, inbox[c][i])
    /\ Working(c) => Older(q, msg[c])

Passed ==
    /\ \A c \in Conns, t \in Conns : Behind(c, outbox[t])
    /\ \A c \in Conns, d \in Clients : Behind(c, log[d])

Sorted == (\A t \in Conns : InOrder(outbox[t])) /\ (\A d \in Clients : InOrder(log[d]))

(* What a device received is older than what waits for it. *)
Delivering == \A d \in Clients, t \in Conns : current[d] = t =>
    \A j \in DOMAIN outbox[t] : outbox[t][j] # Stop => Older(log[d], outbox[t][j])

OrderInv == OnlyUp /\ Counted /\ Waiting /\ Passed /\ Sorted /\ Delivering

(* The channels and the histories hold messages. *)
LEMMA Contents ==
    ASSUME IInv
    PROVE  /\ sent \in Nat
           /\ \A c \in Conns : /\ inbox[c] \in Seq(Messages) /\ outbox[c] \in Seq(Elements)
                               /\ \A i \in DOMAIN inbox[c] : inbox[c][i] \in Messages
                               /\ \A i \in DOMAIN outbox[c] : outbox[c][i] \in Elements
           /\ \A d \in Clients : /\ log[d] \in Seq(Messages)
                                 /\ \A i \in DOMAIN log[d] : log[d][i] \in Messages
<1>1. /\ sent \in Nat
      /\ \A c \in Conns : inbox[c] \in Seq(Messages) /\ outbox[c] \in Seq(Elements)
      /\ \A d \in Clients : log[d] \in Seq(Messages)
  BY RelayAssumption DEF IInv, TypeOK, Elements
<1>2. ASSUME NEW S, NEW q \in Seq(S) PROVE \A i \in DOMAIN q : q[i] \in S
  BY ElementOfSeq, LenProperties
<1> QED
  BY <1>1, <1>2

LEMMA MessageFacts ==
    /\ \A m \in Messages : m.n \in Nat /\ m.via \in Conns /\ m # Stop /\ m \in Elements
    /\ Stop.n = 0 /\ Stop.via \notin Conns
    /\ \A m \in Elements : m.n \in Nat /\ (m = Stop \/ m \in Messages)
<1>1. \A m \in Messages : m.n \in Nat /\ m.via \in Conns
  BY RelayAssumption DEF Messages
<1>2. Stop.n = 0 /\ Stop.via \notin Conns
  BY RelayAssumption DEF Stop
<1> QED
  BY <1>1, <1>2 DEF Elements

(* A sequence that holds one more element. *)
Extended(after, q, m) ==
    /\ Len(q) \in Nat /\ DOMAIN q = 1..Len(q)
    /\ DOMAIN after = 1..(Len(q) + 1)
    /\ \A i \in 1..Len(q) : after[i] = q[i]
    /\ after[Len(q) + 1] = m

LEMMA AppendExtends ==
    ASSUME NEW S, NEW q \in Seq(S), NEW m \in S
    PROVE  Extended(Append(q, m), q, m)
<1>1. Len(q) \in Nat /\ DOMAIN q = 1..Len(q)
  BY LenProperties
<1>2. /\ Append(q, m) \in Seq(S) /\ Len(Append(q, m)) = Len(q) + 1
      /\ \A i \in 1..Len(q) : Append(q, m)[i] = q[i]
      /\ Append(q, m)[Len(q) + 1] = m
  BY AppendProperties
<1>3. DOMAIN Append(q, m) = 1..(Len(q) + 1)
  BY <1>2, LenProperties
<1> QED
  BY <1>1, <1>2, <1>3 DEF Extended

LEMMA OfferExtends ==
    ASSUME NEW S, NEW q \in Seq(S), NEW m \in S
    PROVE  Offer(q, m) = q \/ Extended(Offer(q, m), q, m)
BY AppendExtends DEF Offer

(* The element added is the last one, the others keep their places. *)
LEMMA ExtendedElements ==
    ASSUME NEW after, NEW q, NEW m, Extended(after, q, m)
    PROVE  /\ \A i \in DOMAIN after : after[i] = m \/ (i \in DOMAIN q /\ after[i] = q[i])
           /\ \A i, j \in DOMAIN after : i < j =>
                 /\ i \in DOMAIN q /\ after[i] = q[i]
                 /\ after[j] = m \/ (j \in DOMAIN q /\ after[j] = q[j])
BY DEF Extended

(* To extend a sequence by something newer keeps it in order. *)
LEMMA ExtendedInOrder ==
    ASSUME NEW after, NEW q, NEW m, Extended(after, q, m), InOrder(q), m.via \in Conns => Older(q, m)
    PROVE  InOrder(after)
<1> SUFFICES ASSUME NEW i \in DOMAIN after, NEW j \in DOMAIN after,
                    i < j, after[i].via = after[j].via, after[j].via \in Conns
             PROVE  after[i].n < after[j].n
  BY DEF InOrder
<1>1. /\ i \in DOMAIN q /\ after[i] = q[i]
      /\ after[j] = m \/ (j \in DOMAIN q /\ after[j] = q[j])
  BY ExtendedElements
<1> QED
  BY <1>1 DEF InOrder, Older

LEMMA InitOrder == Init => OrderInv
<1> SUFFICES ASSUME Init PROVE OrderInv
  OBVIOUS
<1>1. DOMAIN <<>> = {}
  BY EmptySeq
<1> QED
  BY <1>1 DEF Init, OrderInv, OnlyUp, Counted, Waiting, Passed, Behind, Sorted, Delivering,
     Working, Older, InOrder

(* Steps that move no message, or drop what a channel holds. *)
LEMMA QuietKeepsOrder ==
    ASSUME IInv, OrderInv, UNCHANGED <<log, sent>>,
           \A c \in Conns : /\ inbox'[c] = inbox[c] \/ inbox'[c] = <<>>
                            /\ outbox'[c] = outbox[c] \/ outbox'[c] = <<>>
                            /\ outbox'[c] # <<>> => ctrl'[c] = "up"
                            /\ Working(c)' => Working(c) /\ msg'[c] = msg[c],
           \A d \in Clients, t \in Conns : current'[d] = t => current[d] = t \/ outbox'[t] = <<>>
    PROVE  OrderInv'
<1>1. DOMAIN <<>> = {}
  BY EmptySeq
<1>2. OnlyUp'
  BY DEF OnlyUp
<1>3. Counted'
  BY <1>1 DEF OrderInv, Counted
<1>4. Waiting'
  BY <1>1 DEF OrderInv, Waiting
<1>5. Passed'
  BY <1>1 DEF OrderInv, Passed, Behind, Older
<1>6. Sorted'
  BY <1>1 DEF OrderInv, Sorted, InOrder
<1>7. Delivering'
  BY <1>1 DEF OrderInv, Delivering
<1> QED
  BY <1>2, <1>3, <1>4, <1>5, <1>6, <1>7 DEF OrderInv

(* A message comes in: it is newer than all others. *)
LEMMA SendKeepsOrder ==
    ASSUME IInv, OrderInv, NEW d \in Clients, NEW from \in Clients \cup {Nobody}, NEW to \in Receivers,
           Send(d, from, to)
    PROVE  OrderInv'
<1> USE Contents, MessageFacts
<1> DEFINE c == current[d]
           m == [from |-> from, to |-> to, n |-> sent + 1, via |-> c]
<1>1. /\ c \in Conns /\ sent + 1 \in 1..MaxMsgs /\ sent' = sent + 1
      /\ inbox' = inbox \/ inbox' = TryPub(inbox, {c}, m)
      /\ UNCHANGED <<current, ctrl, router, msg, outbox, log>>
  BY RelayAssumption DEF IInv, TypeOK, Send, linkVars, routerVars
<1>2. m \in Messages /\ m.n = sent + 1 /\ m.via = c
  BY <1>1 DEF Messages
<1> HIDE DEF m, c
<1>3. /\ \A x \in Conns : x # c => inbox'[x] = inbox[x]
      /\ inbox'[c] = inbox[c] \/ Extended(inbox'[c], inbox[c], m)
  <2>1. CASE inbox' = inbox
    BY <2>1
  <2>2. CASE inbox' = TryPub(inbox, {c}, m)
    <3>1. inbox' = [x \in Conns |-> IF x = c THEN Offer(inbox[c], m) ELSE inbox[x]]
      <4>1. DOMAIN inbox = Conns
        BY DEF IInv, TypeOK
      <4> QED
        BY <1>1, <2>2, <4>1, TryPubToOne
    <3>2. Offer(inbox[c], m) = inbox[c] \/ Extended(Offer(inbox[c], m), inbox[c], m)
      BY <1>1, <1>2, OfferExtends
    <3> QED
      BY <1>1, <3>1, <3>2
  <2> QED
    BY <1>1, <2>1, <2>2
<1>4. /\ \A x \in Conns : \A i \in DOMAIN inbox'[x] :
            (x = c /\ inbox'[x][i] = m) \/ (i \in DOMAIN inbox[x] /\ inbox'[x][i] = inbox[x][i])
      /\ \A x \in Conns : \A i, j \in DOMAIN inbox'[x] : i < j =>
            /\ i \in DOMAIN inbox[x] /\ inbox'[x][i] = inbox[x][i]
            /\ (x = c /\ inbox'[x][j] = m) \/ (j \in DOMAIN inbox[x] /\ inbox'[x][j] = inbox[x][j])
  <2> SUFFICES ASSUME NEW x \in Conns
               PROVE  /\ \A i \in DOMAIN inbox'[x] :
                            (x = c /\ inbox'[x][i] = m) \/ (i \in DOMAIN inbox[x] /\ inbox'[x][i] = inbox[x][i])
                      /\ \A i, j \in DOMAIN inbox'[x] : i < j =>
                            /\ i \in DOMAIN inbox[x] /\ inbox'[x][i] = inbox[x][i]
                            /\ (x = c /\ inbox'[x][j] = m) \/ (j \in DOMAIN inbox[x] /\ inbox'[x][j] = inbox[x][j])
    OBVIOUS
  <2>1. CASE inbox'[x] = inbox[x]
    BY <2>1
  <2>2. CASE x = c /\ Extended(inbox'[c], inbox[c], m)
    BY <2>2, ExtendedElements
  <2> QED
    BY <1>3, <2>1, <2>2
<1>5. OnlyUp' /\ Sorted' /\ Delivering'
  BY <1>1 DEF OrderInv, OnlyUp, Sorted, Delivering
<1>6. Counted'
  <2>1. /\ \A x \in Conns : \A i \in DOMAIN inbox[x] : inbox[x][i].via = x /\ inbox[x][i].n <= sent + 1
        /\ \A x \in Conns : \A i \in DOMAIN outbox[x] : outbox[x][i].n <= sent + 1
        /\ \A e \in Clients : \A i \in DOMAIN log[e] : log[e][i].n <= sent + 1
        /\ \A x \in Conns : Working(x) => msg[x] \in Messages /\ msg[x].via = x /\ msg[x].n <= sent + 1
    BY DEF OrderInv, Counted
  <2>2. \A x \in Conns : \A i \in DOMAIN inbox'[x] : inbox'[x][i].via = x /\ inbox'[x][i].n <= sent + 1
    BY <1>2, <1>4, <2>1
  <2> QED
    BY <1>1, <2>1, <2>2 DEF Counted, Working
<1>7. Waiting'
  <2>1. \A x \in Conns : \A i \in DOMAIN inbox[x] : inbox[x][i].n < sent + 1
    BY DEF OrderInv, Counted
  <2>2. \A x \in Conns : Working(x) => msg[x].n < sent + 1
    BY DEF OrderInv, Counted
  <2>3. \A x \in Conns : \A i, j \in DOMAIN inbox'[x] : i < j => inbox'[x][i].n < inbox'[x][j].n
    BY <1>2, <1>4, <2>1 DEF OrderInv, Waiting
  <2>4. \A x \in Conns : Working(x) => \A i \in DOMAIN inbox'[x] : msg[x].n < inbox'[x][i].n
    BY <1>2, <1>4, <2>2 DEF OrderInv, Waiting
  <2> QED
    BY <1>1, <2>3, <2>4 DEF Waiting, Working
<1>8. Passed'
  <2>1. \A x \in Conns : Older(outbox[x], m)
    BY <1>2 DEF OrderInv, Counted, Older
  <2>2. \A e \in Clients : Older(log[e], m)
    BY <1>2 DEF OrderInv, Counted, Older
  <2> QED
    <3>1. ASSUME NEW q, \A x \in Conns : Behind(x, q), Older(q, m)
          PROVE  \A x \in Conns : /\ \A i \in DOMAIN inbox'[x] : Older(q, inbox'[x][i])
                                  /\ Working(x) => Older(q, msg[x])
      BY <1>4, <3>1 DEF Behind
    <3>2. \A x \in Conns, t \in Conns : /\ \A i \in DOMAIN inbox'[x] : Older(outbox[t], inbox'[x][i])
                                        /\ Working(x) => Older(outbox[t], msg[x])
      BY <2>1, <3>1 DEF OrderInv, Passed
    <3>3. \A x \in Conns, e \in Clients : /\ \A i \in DOMAIN inbox'[x] : Older(log[e], inbox'[x][i])
                                          /\ Working(x) => Older(log[e], msg[x])
      BY <2>2, <3>1 DEF OrderInv, Passed
    <3> QED
      BY <1>1, <3>2, <3>3 DEF Passed, Behind, Working, Older
<1> QED
  BY <1>5, <1>6, <1>7, <1>8 DEF OrderInv

(* A router takes the first message. *)
LEMMA IdentifyKeepsOrder ==
    ASSUME IInv, OrderInv, NEW c \in Conns, Identify(c)
    PROVE  OrderInv'
<1> USE Contents, MessageFacts
<1>1. /\ inbox[c] # <<>> /\ UNCHANGED <<current, ctrl, outbox, sent, log>>
      /\ \A x \in Conns : inbox'[x] = IF x = c THEN Tail(inbox[c]) ELSE inbox[x]
      /\ \A x \in Conns : x # c => (Working(x)' <=> Working(x)) /\ msg'[x] = msg[x]
      /\ Working(c)' => msg'[c] = Head(inbox[c])
  BY DEF Identify, Go, linkVars, Working, IInv, TypeOK
<1>2. /\ 1 \in DOMAIN inbox[c] /\ Head(inbox[c]) = inbox[c][1] /\ DOMAIN Tail(inbox[c]) \subseteq Nat \ {0}
      /\ \A i \in DOMAIN Tail(inbox[c]) : i + 1 \in DOMAIN inbox[c] /\ Tail(inbox[c])[i] = inbox[c][i + 1]
  <2>1. inbox[c] \in Seq(Messages) /\ inbox[c] # <<>>
    BY <1>1
  <2>2. DOMAIN Tail(inbox[c]) \subseteq Nat \ {0}
    BY <2>1, HeadTailProperties, LenProperties
  <2> QED
    BY <2>1, <2>2, TailElements
<1>3. OnlyUp' /\ Sorted' /\ Delivering'
  BY <1>1 DEF OrderInv, OnlyUp, Sorted, Delivering
<1>4. Counted'
  <2>1. \A x \in Conns : \A i \in DOMAIN inbox'[x] : inbox'[x][i].via = x /\ inbox'[x][i].n <= sent
    <3>1. \A i \in DOMAIN Tail(inbox[c]) : Tail(inbox[c])[i].via = c /\ Tail(inbox[c])[i].n <= sent
      BY <1>2 DEF OrderInv, Counted
    <3>2. \A x \in Conns : \A i \in DOMAIN inbox[x] : inbox[x][i].via = x /\ inbox[x][i].n <= sent
      BY DEF OrderInv, Counted
    <3>3. ASSUME NEW x \in Conns
          PROVE  \A i \in DOMAIN inbox'[x] : inbox'[x][i].via = x /\ inbox'[x][i].n <= sent
      <4>1. CASE x = c
        <5>1. inbox'[x] = Tail(inbox[c])
          BY <1>1, <4>1
        <5> QED
          BY <3>1, <4>1, <5>1
      <4>2. CASE x # c
        <5>1. inbox'[x] = inbox[x]
          BY <1>1, <4>2
        <5> QED
          BY <3>2, <5>1
      <4> QED
        BY <4>1, <4>2
    <3> QED
      BY <3>3
  <2>2. \A x \in Conns : Working(x)' => msg'[x] \in Messages /\ msg'[x].via = x /\ msg'[x].n <= sent
    <3>1. inbox[c][1] \in Messages /\ inbox[c][1].via = c /\ inbox[c][1].n <= sent
      BY <1>2 DEF OrderInv, Counted
    <3> QED
      BY <1>1, <1>2, <3>1 DEF OrderInv, Counted
  <2> QED
    BY <1>1, <2>1, <2>2 DEF OrderInv, Counted
<1>5. Waiting'
  <2>1. \A i, j \in DOMAIN Tail(inbox[c]) : i < j => Tail(inbox[c])[i].n < Tail(inbox[c])[j].n
    <3> SUFFICES ASSUME NEW i \in DOMAIN Tail(inbox[c]), NEW j \in DOMAIN Tail(inbox[c]), i < j
                 PROVE  Tail(inbox[c])[i].n < Tail(inbox[c])[j].n
      OBVIOUS
    <3>1. i \in Nat /\ j \in Nat /\ i + 1 < j + 1
      BY <1>2
    <3> QED
      BY <1>2, <3>1 DEF OrderInv, Waiting
  <2>2. \A i \in DOMAIN Tail(inbox[c]) : Head(inbox[c]).n < Tail(inbox[c])[i].n
    <3> SUFFICES ASSUME NEW i \in DOMAIN Tail(inbox[c])
                 PROVE  Head(inbox[c]).n < Tail(inbox[c])[i].n
      OBVIOUS
    <3>1. i \in Nat /\ 1 < i + 1
      BY <1>2
    <3> QED
      BY <1>2, <3>1 DEF OrderInv, Waiting
  <2> QED
    BY <1>1, <2>1, <2>2 DEF OrderInv, Waiting
<1>6. Passed'
  <2>1. ASSUME NEW q, \A x \in Conns : Behind(x, q)
        PROVE  \A x \in Conns : /\ \A i \in DOMAIN inbox'[x] : Older(q, inbox'[x][i])
                                /\ Working(x)' => Older(q, msg'[x])
    <3>1. \A i \in DOMAIN Tail(inbox[c]) : Older(q, Tail(inbox[c])[i])
      BY <1>2, <2>1 DEF Behind
    <3>2. Older(q, Head(inbox[c]))
      BY <1>2, <2>1 DEF Behind
    <3>3. \A x \in Conns : x # c => (Working(x)' => Older(q, msg'[x]))
      BY <1>1, <2>1 DEF Behind
    <3>4. Working(c)' => Older(q, msg'[c])
      BY <1>1, <3>2
    <3>5. \A x \in Conns : \A i \in DOMAIN inbox'[x] : Older(q, inbox'[x][i])
      BY <1>1, <2>1, <3>1 DEF Behind
    <3> QED
      BY <3>3, <3>4, <3>5
  <2>2. \A x \in Conns, t \in Conns : Behind(x, outbox[t])
    BY DEF OrderInv, Passed
  <2>3. \A x \in Conns, d \in Clients : Behind(x, log[d])
    BY DEF OrderInv, Passed
  <2> QED
    BY <1>1, <2>1, <2>2, <2>3 DEF Passed, Behind, Older
<1> QED
  BY <1>3, <1>4, <1>5, <1>6 DEF OrderInv

(* A router publishes on the bus of a connection: a stop, or its message,   *)
(* which passes those that wait for the router.                             *)
LEMMA PublishKeepsOrder ==
    ASSUME IInv, OrderInv, NEW c \in Conns, NEW t \in Conns, NEW m \in Elements,
           m = Stop \/ (Working(c) /\ m = msg[c] /\ ~Working(c)'),
           outbox' \in Offered(t, m),
           UNCHANGED <<current, ctrl, inbox, sent, log>>,
           \A x \in Conns : Working(x)' => Working(x) /\ msg'[x] = msg[x]
    PROVE  OrderInv'
<1> USE Contents, MessageFacts
<1>1. /\ \A x \in Conns : x # t => outbox'[x] = outbox[x]
      /\ outbox'[t] = outbox[t] \/ (ctrl[t] = "up" /\ Extended(outbox'[t], outbox[t], m))
  <2>1. outbox' = outbox \/ (ctrl[t] = "up" /\ outbox' = TryPub(outbox, {t}, m))
    BY DEF Offered
  <2>2. CASE outbox' = outbox
    BY <2>2
  <2>3. CASE ctrl[t] = "up" /\ outbox' = TryPub(outbox, {t}, m)
    <3>1. outbox' = [x \in Conns |-> IF x = t THEN Offer(outbox[t], m) ELSE outbox[x]]
      <4>1. DOMAIN outbox = Conns
        BY DEF IInv, TypeOK
      <4>2. TryPub(outbox, {t}, m) = [x \in Conns |-> IF x = t THEN Offer(outbox[t], m) ELSE outbox[x]]
        BY <4>1 DEF TryPub
      <4> QED
        BY <2>3, <4>2
    <3>2. Offer(outbox[t], m) = outbox[t] \/ Extended(Offer(outbox[t], m), outbox[t], m)
      BY OfferExtends
    <3> QED
      BY <2>3, <3>1, <3>2
  <2> QED
    BY <2>1, <2>2, <2>3
<1>2. \A x \in Conns : \A i \in DOMAIN outbox'[x] :
          (x = t /\ outbox'[x][i] = m) \/ (i \in DOMAIN outbox[x] /\ outbox'[x][i] = outbox[x][i])
  <2> SUFFICES ASSUME NEW x \in Conns
               PROVE  \A i \in DOMAIN outbox'[x] :
                        (x = t /\ outbox'[x][i] = m) \/ (i \in DOMAIN outbox[x] /\ outbox'[x][i] = outbox[x][i])
    OBVIOUS
  <2>1. CASE outbox'[x] = outbox[x]
    BY <2>1
  <2>2. CASE x = t /\ Extended(outbox'[t], outbox[t], m)
    BY <2>2, ExtendedElements
  <2> QED
    BY <1>1, <2>1, <2>2
<1>3. m # Stop => m.via = c /\ m.n <= sent /\ Working(c) /\ m = msg[c]
  BY DEF OrderInv, Counted
<1>4. OnlyUp'
  BY <1>1 DEF OrderInv, OnlyUp
<1>5. Counted'
  <2>1. m.n <= sent
    BY <1>3
  <2>2. \A x \in Conns : \A i \in DOMAIN outbox'[x] : outbox'[x][i].n <= sent
    BY <1>2, <2>1, SMTT(40) DEF OrderInv, Counted
  <2> QED
    BY <2>2 DEF OrderInv, Counted
<1>6. Waiting'
  BY DEF OrderInv, Waiting
<1>7. Passed'
  <2>1. \A x \in Conns : \A i \in DOMAIN inbox[x] : m.via = inbox[x][i].via => m.n < inbox[x][i].n
    BY <1>3 DEF OrderInv, Counted, Waiting
  <2>2. \A x \in Conns : Working(x)' => m.via # msg[x].via
    BY <1>3 DEF OrderInv, Counted
  <2>3. \A x \in Conns, y \in Conns : \A i \in DOMAIN inbox[x] : Older(outbox'[y], inbox[x][i])
    <3> SUFFICES ASSUME NEW x \in Conns, NEW y \in Conns, NEW i \in DOMAIN inbox[x], NEW k \in DOMAIN outbox'[y],
                        outbox'[y][k].via = inbox[x][i].via
                 PROVE  outbox'[y][k].n < inbox[x][i].n
      BY DEF Older
    <3>1. CASE outbox'[y][k] = m
      BY <2>1, <3>1
    <3>2. CASE k \in DOMAIN outbox[y] /\ outbox'[y][k] = outbox[y][k]
      BY <3>2 DEF OrderInv, Passed, Behind, Older
    <3> QED
      BY <1>2, <3>1, <3>2
  <2>4. \A x \in Conns, y \in Conns : Working(x)' => Older(outbox'[y], msg[x])
    <3> SUFFICES ASSUME NEW x \in Conns, NEW y \in Conns, Working(x)', NEW k \in DOMAIN outbox'[y],
                        outbox'[y][k].via = msg[x].via
                 PROVE  outbox'[y][k].n < msg[x].n
      BY DEF Older
    <3>1. k \in DOMAIN outbox[y] /\ outbox'[y][k] = outbox[y][k]
      <4>1. outbox'[y][k].via # m.via
        BY <2>2
      <4> QED
        BY <1>2, <4>1
    <3> QED
      BY <3>1 DEF OrderInv, Passed, Behind, Older
  <2>5. \A x \in Conns, d \in Clients : Behind(x, log[d])'
    <3> SUFFICES ASSUME NEW x \in Conns, NEW d \in Clients PROVE Behind(x, log[d])'
      OBVIOUS
    <3>1. Behind(x, log[d])
      BY DEF OrderInv, Passed
    <3> QED
      BY <3>1 DEF Behind, Older
  <2> QED
    BY <2>3, <2>4, <2>5 DEF Passed, Behind, Older
<1>8. Sorted'
  <2>1. InOrder(outbox'[t])
    <3>1. m.via \in Conns => Older(outbox[t], m)
      BY <1>3 DEF OrderInv, Passed, Behind
    <3>2. InOrder(outbox[t])
      BY DEF OrderInv, Sorted
    <3> QED
      BY <1>1, <3>1, <3>2, ExtendedInOrder
  <2>2. \A x \in Conns : InOrder(outbox'[x])
    BY <1>1, <2>1 DEF OrderInv, Sorted
  <2> QED
    BY <2>2 DEF OrderInv, Sorted, InOrder
<1>9. Delivering'
  <2>1. m # Stop => \A d \in Clients : Older(log[d], m)
    BY <1>3 DEF OrderInv, Passed, Behind
  <2> QED
    <3> SUFFICES ASSUME NEW d \in Clients, NEW x \in Conns, current[d] = x, NEW j \in DOMAIN outbox'[x],
                        outbox'[x][j] # Stop
                 PROVE  Older(log[d], outbox'[x][j])
      BY DEF Delivering, Older
    <3>1. CASE outbox'[x][j] = m
      BY <2>1, <3>1
    <3>2. CASE j \in DOMAIN outbox[x] /\ outbox'[x][j] = outbox[x][j]
      BY <3>2 DEF OrderInv, Delivering
    <3> QED
      BY <1>2, <3>1, <3>2
<1> QED
  BY <1>4, <1>5, <1>6, <1>7, <1>8, <1>9 DEF OrderInv

(* A message reaches its device. *)
LEMMA DeliveryKeepsOrder ==
    ASSUME IInv, OrderInv, NEW c \in Conns, RemoteSends(c)
    PROVE  OrderInv'
<1> USE Contents, MessageFacts
<1> DEFINE q == outbox[c]
           m == Head(q)
<1>1. /\ q \in Seq(Elements) /\ q # <<>> /\ m # Stop
      /\ \A x \in Conns : outbox'[x] = IF x = c THEN Tail(q) ELSE outbox[x]
      /\ UNCHANGED <<current, ctrl, router, msg, inbox, sent>>
  BY DEF RemoteSends, linkVars, routerVars, IInv, TypeOK
<1>2. /\ 1 \in DOMAIN q /\ m = q[1] /\ m \in Messages /\ DOMAIN Tail(q) \subseteq Nat \ {0}
      /\ \A i \in DOMAIN Tail(q) : i + 1 \in DOMAIN q /\ Tail(q)[i] = q[i + 1]
  <2>1. /\ 1 \in DOMAIN q /\ Head(q) = q[1] /\ Head(q) \in Elements
        /\ \A i \in DOMAIN Tail(q) : i + 1 \in DOMAIN q /\ Tail(q)[i] = q[i + 1]
    <3> HIDE DEF q
    <3> QED
      BY <1>1, TailElements
  <2>2. DOMAIN Tail(q) \subseteq Nat \ {0}
    <3> HIDE DEF q
    <3> QED
      BY <1>1, HeadTailProperties, LenProperties
  <2> QED
    BY <1>1, <2>1, <2>2
<1>3. \A d \in Clients : log'[d] = log[d] \/ (current[d] = c /\ Extended(log'[d], log[d], m))
  <2>1. \A d \in Clients : Extended(Append(log[d], m), log[d], m)
    BY <1>2, AppendExtends
  <2>2. log' = log \/ (current[owner[c]] = c /\ log' = [log EXCEPT ![owner[c]] = Append(@, m)])
    BY DEF RemoteSends
  <2>3. DOMAIN log = Clients
    BY DEF IInv, TypeOK
  <2> HIDE DEF m
  <2> QED
    BY <2>1, <2>2, <2>3
<1> HIDE DEF m
<1>4. \A d \in Clients : \A i \in DOMAIN log'[d] :
          (current[d] = c /\ log'[d][i] = m) \/ (i \in DOMAIN log[d] /\ log'[d][i] = log[d][i])
  <2> SUFFICES ASSUME NEW d \in Clients
               PROVE  \A i \in DOMAIN log'[d] :
                        (current[d] = c /\ log'[d][i] = m) \/ (i \in DOMAIN log[d] /\ log'[d][i] = log[d][i])
    OBVIOUS
  <2>1. CASE log'[d] = log[d]
    BY <2>1
  <2>2. CASE current[d] = c /\ Extended(log'[d], log[d], m)
    BY <2>2, ExtendedElements
  <2> QED
    BY <1>3, <2>1, <2>2
<1>5. OnlyUp'
  BY <1>1 DEF OrderInv, OnlyUp
<1>6. Waiting'
  BY <1>1 DEF OrderInv, Waiting, Working
<1>7. Counted'
  <2>1. m.n <= sent
    BY <1>2 DEF OrderInv, Counted
  <2>2. \A d \in Clients : \A i \in DOMAIN log'[d] : log'[d][i].n <= sent
    BY <1>4, <2>1 DEF OrderInv, Counted
  <2>3. \A x \in Conns : \A i \in DOMAIN outbox'[x] : outbox'[x][i].n <= sent
    <3>1. \A i \in DOMAIN Tail(q) : Tail(q)[i].n <= sent
      BY <1>2 DEF OrderInv, Counted
    <3> QED
      BY <1>1, <3>1 DEF OrderInv, Counted
  <2> QED
    BY <1>1, <2>2, <2>3 DEF OrderInv, Counted, Working
<1>8. Passed'
  <2>1. ASSUME NEW e, \A i \in DOMAIN q : e.via = q[i].via => q[i].n < e.n
        PROVE  \A i \in DOMAIN Tail(q) : e.via = Tail(q)[i].via => Tail(q)[i].n < e.n
    BY <1>2, <2>1
  <2>2. ASSUME NEW e, \A y \in Conns : Older(outbox[y], e), \A d \in Clients : Older(log[d], e)
        PROVE  (\A y \in Conns : Older(outbox'[y], e)) /\ (\A d \in Clients : Older(log'[d], e))
    <3>1. Older(q, e)
      BY <2>2
    <3>2. Older(Tail(q), e) /\ (m.via = e.via => m.n < e.n)
      BY <1>2, <3>1 DEF Older
    <3>3. \A y \in Conns : Older(outbox'[y], e)
      BY <1>1, <2>2, <3>2
    <3>4. \A d \in Clients : Older(log'[d], e)
      BY <1>4, <2>2, <3>2 DEF Older
    <3> QED
      BY <3>3, <3>4
  <2>3. \A x \in Conns : \A i \in DOMAIN inbox[x] :
            (\A y \in Conns : Older(outbox'[y], inbox[x][i])) /\ (\A d \in Clients : Older(log'[d], inbox[x][i]))
    BY <2>2 DEF OrderInv, Passed, Behind
  <2>4. \A x \in Conns : Working(x) =>
            (\A y \in Conns : Older(outbox'[y], msg[x])) /\ (\A d \in Clients : Older(log'[d], msg[x]))
    BY <2>2 DEF OrderInv, Passed, Behind
  <2> QED
    BY <1>1, <2>3, <2>4 DEF Passed, Behind, Working, Older
<1>9. Sorted'
  <2>1. InOrder(Tail(q))
    <3> SUFFICES ASSUME NEW i \in DOMAIN Tail(q), NEW j \in DOMAIN Tail(q), i < j,
                        Tail(q)[i].via = Tail(q)[j].via, Tail(q)[j].via \in Conns
                 PROVE  Tail(q)[i].n < Tail(q)[j].n
      BY DEF InOrder
    <3>1. i \in Nat /\ j \in Nat /\ i + 1 < j + 1
      BY <1>2
    <3>2. InOrder(q)
      BY DEF OrderInv, Sorted
    <3>3. /\ i + 1 \in DOMAIN q /\ Tail(q)[i] = q[i + 1]
          /\ j + 1 \in DOMAIN q /\ Tail(q)[j] = q[j + 1]
      BY <1>2
    <3> HIDE DEF q
    <3> QED
      BY <3>1, <3>2, <3>3 DEF InOrder
  <2>2. \A d \in Clients : current[d] = c => Older(log[d], m)
    <3>1. 1 \in DOMAIN outbox[c] /\ outbox[c][1] = m /\ m # Stop
      BY <1>2
    <3> QED
      BY <3>1 DEF OrderInv, Delivering
  <2>3. \A d \in Clients : InOrder(log'[d])
    BY <1>3, <2>2, ExtendedInOrder DEF OrderInv, Sorted
  <2>4. \A x \in Conns : InOrder(outbox'[x])
    BY <1>1, <2>1 DEF OrderInv, Sorted
  <2> QED
    BY <2>3, <2>4 DEF Sorted, InOrder
<1>10. Delivering'
  <2> SUFFICES ASSUME NEW d \in Clients, NEW t \in Conns, current[d] = t, NEW j \in DOMAIN outbox'[t],
                      outbox'[t][j] # Stop
               PROVE  Older(log'[d], outbox'[t][j])
    BY <1>1 DEF Delivering, Older
  <2>1. CASE t # c
    BY <1>1, <1>3, <2>1 DEF OrderInv, Delivering
  <2>2. CASE t = c
    <3>1. outbox'[t][j] = q[j + 1] /\ j + 1 \in DOMAIN q /\ 1 < j + 1
      <4>1. outbox'[t] = Tail(q)
        BY <1>1, <2>2
      <4>2. j \in DOMAIN Tail(q) /\ outbox'[t][j] = Tail(q)[j]
        BY <4>1
      <4>3. j \in Nat \ {0}
        BY <1>2, <4>2
      <4> QED
        BY <1>2, <4>2, <4>3
    <3>2. Older(log[d], q[j + 1])
      BY <2>2, <3>1 DEF OrderInv, Delivering
    <3>3. m.via = q[j + 1].via => m.n < q[j + 1].n
      BY <1>2, <3>1 DEF OrderInv, Sorted, InOrder
    <3> QED
      BY <1>4, <3>1, <3>2, <3>3 DEF Older
  <2> QED
    BY <2>1, <2>2
<1> QED
  BY <1>5, <1>6, <1>7, <1>8, <1>9, <1>10 DEF OrderInv

LEMMA NextKeepsOrder == IInv /\ OrderInv /\ [Next]_vars => OrderInv'
<1> SUFFICES ASSUME IInv, OrderInv, [Next]_vars PROVE OrderInv'
  OBVIOUS
<1> USE Facts
<1>1. ASSUME NEW c \in Conns, ConnNext(c) PROVE OrderInv'
  <2>1. CASE RemoteEnds(c) \/ RemoteStops(c)
    <3>1. /\ UNCHANGED <<current, router, msg, inbox, log, sent>>
          /\ \A x \in Conns : outbox'[x] = IF x = c THEN <<>> ELSE outbox[x]
          /\ \A x \in Conns : x # c => ctrl'[x] = ctrl[x]
      BY <2>1 DEF RemoteEnds, RemoteStops, routerVars, IInv, TypeOK
    <3> QED
      BY <3>1, QuietKeepsOrder DEF Working, OrderInv, OnlyUp
  <2>2. CASE BusShuts(c) \/ Lookup(c) \/ NoticeEnd(c) \/ Teardown(c) \/ Respawn(c) \/ Begin(c)
    <3>1. /\ UNCHANGED <<current, outbox, log, sent>>
          /\ \A x \in Conns : inbox'[x] = inbox[x] \/ inbox'[x] = <<>>
          /\ \A x \in Conns : ctrl'[x] = ctrl[x] \/ ctrl[x] # "up"
          /\ \A x \in Conns : Working(x)' => Working(x) /\ msg'[x] = msg[x]
      BY <2>2 DEF BusShuts, Lookup, NoticeEnd, Teardown, Respawn, Begin, Return, Go, Working,
         linkVars, routerVars, IInv, TypeOK
    <3> QED
      BY <3>1, QuietKeepsOrder DEF OrderInv, OnlyUp
  <2>3. CASE Drop(c)
    <3>1. /\ UNCHANGED <<current, ctrl, inbox, sent, log, msg>>
          /\ outbox' = outbox \/ outbox' \in Offered(c, Stop)
          /\ \A x \in Conns : Working(x)' => Working(x)
      BY <2>3 DEF Drop, Go, Working, linkVars, routerVars
    <3>2. outbox' \in Offered(c, Stop)
      BY <3>1 DEF Offered
    <3> QED
      BY <3>1, <3>2, PublishKeepsOrder
  <2>4. CASE Forward(c)
    <3>1. CASE ctrl[target[c]] = "shut"
      <4>1. /\ UNCHANGED <<current, ctrl, inbox, outbox, sent, log, msg>>
            /\ \A x \in Conns : Working(x)' => Working(x)
        BY <2>4, <3>1 DEF Forward, Go, Working, linkVars
      <4> QED
        BY <4>1, QuietKeepsOrder DEF OrderInv, OnlyUp
    <3>2. CASE ctrl[target[c]] # "shut"
      <4>1. /\ UNCHANGED <<current, ctrl, inbox, sent, log>>
            /\ Working(c) /\ ~Working(c)' /\ outbox' \in Offered(target[c], msg[c])
            /\ \A x \in Conns : x # c => (Working(x)' <=> Working(x)) /\ msg'[x] = msg[x]
        BY <2>4, <3>2 DEF Forward, Return, Go, Working, linkVars
      <4>2. target[c] \in Conns /\ msg[c] \in Elements
        BY <2>4 DEF Forward, IInv, Targeted
      <4> QED
        BY <4>1, <4>2, PublishKeepsOrder
    <3> QED
      BY <3>1, <3>2
  <2> QED
    BY <1>1, <2>1, <2>2, <2>3, <2>4, DeliveryKeepsOrder, IdentifyKeepsOrder DEF ConnNext
<1>2. ASSUME NEW d \in Clients, NEW c \in Conns, Connect(d, c) PROVE OrderInv'
  <2>1. /\ UNCHANGED <<inbox, outbox, log, sent, msg>> /\ ctrl[c] = "off"
        /\ \A x \in Conns : x # c => ctrl'[x] = ctrl[x]
        /\ \A e \in Clients : current'[e] = current[e] \/ current'[e] = c
        /\ \A x \in Conns : Working(x)' => Working(x)
    BY <1>2 DEF Connect, Go, Working, routerVars, IInv, TypeOK
  <2>2. outbox[c] = <<>>
    BY <2>1 DEF OrderInv, OnlyUp
  <2> QED
    BY <2>1, <2>2, QuietKeepsOrder DEF OrderInv, OnlyUp
<1>3. CASE UNCHANGED vars
  BY <1>3, QuietKeepsOrder DEF vars, linkVars, routerVars, OrderInv, OnlyUp, Working
<1> QED
  BY <1>1, <1>2, <1>3, SendKeepsOrder DEF Next

(* A device receives what came by one connection in the order in which it   *)
(* was sent, at most once, whoever sends what, however often connections    *)
(* come and go, for every buffer (router.go:75-81, controller.go:133-144).  *)
THEOREM MessagesDeliveredInOrder == Spec => []DeliveredInOrder
<1>1. IInv /\ OrderInv => DeliveredInOrder
  <2> SUFFICES ASSUME IInv, OrderInv PROVE DeliveredInOrder
    OBVIOUS
  <2>1. \A d \in Clients : \A i \in DOMAIN log[d] : log[d][i].via \in Conns
    BY Contents, MessageFacts
  <2> QED
    BY <2>1 DEF OrderInv, Sorted, InOrder, DeliveredInOrder
<1> QED
  BY <1>1, Invariance, InitOrder, NextKeepsOrder, PTL DEF Spec
==============================================================================
