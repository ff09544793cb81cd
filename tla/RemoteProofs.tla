---------------------------- MODULE RemoteProofs ----------------------------
(***************************************************************************)
(* Proofs about Remote: the connection is closed last, a stop command is   *)
(* final, and the Remote implements the abstract Link.                     *)
(***************************************************************************)
EXTENDS Remote, SequenceTheorems, TLAPS

(* What the waiter knows when it closes the connection. *)
WaiterInv ==
    /\ conn = "open" <=> waiter \in {"wait", "close"}
    /\ waiter # "wait" => snd = "over" /\ rcv = "over"
    /\ snd \in {"start", "over"} => ~subscribed

(* send leaves its loop after a stop command or a torn frame. *)
StopInv ==
    /\ taken <= published /\ stops \subseteq 1..published
    /\ snd = "write" => taken # 0
    /\ taken \in stops => snd \in {"unsub", "over", "panic"}
    /\ torn => snd \in {"unsub", "over", "panic"}

(* The channel holds later messages than the one in hand, in order, and the *)
(* wire earlier ones.                                                       *)
OrderInv ==
    /\ \A i \in 1..Len(out) : taken < out[i] /\ out[i] <= published
    /\ \A i, j \in 1..Len(out) : i < j => out[i] < out[j]
    /\ \A i \in 1..Len(wire) : wire[i] <= taken
    /\ snd = "write" => \A i \in 1..Len(wire) : wire[i] < taken

(* The inbox goes on where the deliveries stopped. *)
InboxInv ==
    /\ \A i \in 1..Len(inbox) : inbox[i] = Len(delivered) + i
    /\ Len(delivered) + Len(inbox) = sent
    /\ rcv = "publish" => inbox # <<>>

IInv == TypeOK /\ WaiterInv /\ StopInv /\ OrderInv /\ InboxInv

(* The steps of Next that are not a goroutine's. *)
Environment ==
    \/ UserCancels \/ BusShuts \/ PeerCloses
    \/ (\E b \in BOOLEAN : Publish(b)) \/ \E kind \in {"good", "malformed", "bare"} : PeerSends(kind)

-------------------------------------------------------------------------------
(* The elements of Head, Tail and Append, index by index. *)
LEMMA TailElements ==
    ASSUME NEW S, NEW q \in Seq(S), q # <<>>
    PROVE  /\ Len(q) \in Nat \ {0} /\ Head(q) = q[1] /\ Head(q) \in S
           /\ Tail(q) \in Seq(S) /\ Len(Tail(q)) = Len(q) - 1
           /\ \A i \in 1..Len(Tail(q)) : Tail(q)[i] = q[i + 1]
BY HeadTailProperties, EmptySeq

LEMMA AppendElements ==
    ASSUME NEW S, NEW q \in Seq(S), NEW e \in S
    PROVE  /\ Append(q, e) \in Seq(S) /\ Len(Append(q, e)) = Len(q) + 1 /\ Len(q) \in Nat
           /\ \A i \in 1..Len(q) : Append(q, e)[i] = q[i]
           /\ Append(q, e)[Len(q) + 1] = e
BY AppendProperties, LenProperties

(* The initial states satisfy the invariant. *)
LEMMA InitIInv == Init => IInv
<1> SUFFICES ASSUME Init PROVE IInv
  OBVIOUS
<1>1. TypeOK
  <2>1. \A S : <<>> \in Seq(S) /\ Len(<<>>) = 0
    BY EmptySeq
  <2>2. MaxOut \in Nat /\ MaxIn \in Nat /\ BufferSize \in Nat
    BY RemoteAssumption, BufferAssumption
  <2>3. /\ out \in Seq(1..MaxOut) /\ Len(out) <= BufferSize /\ wire \in Seq(1..MaxOut)
        /\ inbox \in Seq(1..MaxIn) /\ delivered \in Seq(1..MaxIn)
    BY <2>1, <2>2 DEF Init
  <2>4. taken \in 0..MaxOut /\ published \in 0..MaxOut /\ sent \in 0..MaxIn
    BY <2>2 DEF Init
  <2> QED
    BY <2>3, <2>4 DEF Init, TypeOK
<1>2. WaiterInv /\ StopInv
  BY DEF Init, WaiterInv, StopInv
<1>3. OrderInv /\ InboxInv
  BY DEF Init, OrderInv, InboxInv
<1> QED
  BY <1>1, <1>2, <1>3 DEF IInv

LEMMA SenderKeepsIInv ==
    ASSUME IInv,
           SenderSubscribes \/ SenderSeesDone \/ SenderTakes \/ SenderWriteReturns \/ SenderReturns
    PROVE  IInv'
<1> USE DEF IInv, userVars, groupVars, busVars, rcvVars, peerVars
<1>0. MaxOut \in Nat /\ MaxIn \in Nat /\ BufferSize \in Nat
  BY RemoteAssumption, BufferAssumption
<1>1. CASE SenderSubscribes
  <2>1. TypeOK' /\ WaiterInv'
    BY <1>1 DEF SenderSubscribes, TypeOK, WaiterInv
  <2>2. StopInv' /\ OrderInv' /\ InboxInv'
    BY <1>1 DEF SenderSubscribes, StopInv, OrderInv, InboxInv
  <2> QED
    BY <2>1, <2>2
<1>6. CASE SenderSeesDone
  <2>1. TypeOK' /\ WaiterInv'
    BY <1>6 DEF SenderSeesDone, TypeOK, WaiterInv
  <2>2. StopInv' /\ OrderInv' /\ InboxInv'
    BY <1>6 DEF SenderSeesDone, StopInv, OrderInv, InboxInv
  <2> QED
    BY <2>1, <2>2
<1>2. CASE SenderTakes
  <2>1. /\ Head(out) = out[1] /\ Head(out) \in 1..MaxOut
        /\ Tail(out) \in Seq(1..MaxOut) /\ Len(Tail(out)) = Len(out) - 1 /\ Len(out) \in Nat \ {0}
        /\ \A i \in 1..Len(Tail(out)) : Tail(out)[i] = out[i + 1]
    BY <1>2, TailElements DEF SenderTakes, TypeOK
  <2>2. TypeOK'
    <3>1. taken' \in 0..MaxOut /\ out' \in Seq(1..MaxOut) /\ Len(out') <= BufferSize
      BY <1>0, <1>2, <2>1 DEF SenderTakes, TypeOK
    <3>2. snd' \in {"start", "select", "write", "unsub", "over"} /\ sndErr' \in BOOLEAN
      BY <1>2 DEF SenderTakes, TypeOK
    <3> QED
      BY <1>2, <3>1, <3>2 DEF SenderTakes, TypeOK
  <2>3. WaiterInv' /\ InboxInv'
    BY <1>2 DEF SenderTakes, WaiterInv, InboxInv
  <2>4. taken < out[1] /\ out[1] <= published
    BY <2>1 DEF OrderInv, TypeOK
  <2>5. StopInv'
    BY <1>2, <2>1, <2>4 DEF SenderTakes, StopInv
  <2>6. \A i \in 1..Len(wire) : wire[i] < out[1]
    <3>1. \A i \in 1..Len(wire) : wire[i] \in 1..MaxOut
      BY ElementOfSeq DEF TypeOK
    <3> QED
      BY <2>1, <2>4, <3>1 DEF OrderInv, TypeOK
  <2>7. \A i \in 1..Len(Tail(out)) : out[1] < Tail(out)[i] /\ Tail(out)[i] <= published
    BY <2>1 DEF OrderInv
  <2>8. \A i, j \in 1..Len(Tail(out)) : i < j => Tail(out)[i] < Tail(out)[j]
    BY <2>1 DEF OrderInv
  <2>9. OrderInv'
    <3>1. taken' = out[1] /\ out' = Tail(out) /\ wire' = wire /\ published' = published
      BY <1>2, <2>1 DEF SenderTakes
    <3>2. \A i \in 1..Len(wire) : wire[i] <= out[1]
      <4>1. \A i \in 1..Len(wire) : wire[i] \in 1..MaxOut
        BY ElementOfSeq DEF TypeOK
      <4> QED
        BY <2>1, <2>6, <4>1
    <3> QED
      BY <3>1, <3>2, <2>6, <2>7, <2>8 DEF OrderInv
  <2> QED
    BY <2>2, <2>3, <2>5, <2>9
<1>3. CASE SenderWrites
  <2>1. taken \in 1..MaxOut
    BY <1>3 DEF SenderWrites, StopInv, TypeOK
  <2>2. /\ Append(wire, taken) \in Seq(1..MaxOut)
        /\ Len(Append(wire, taken)) = Len(wire) + 1 /\ Len(wire) \in Nat
        /\ \A i \in 1..Len(wire) : Append(wire, taken)[i] = wire[i]
        /\ Append(wire, taken)[Len(wire) + 1] = taken
    BY <2>1, AppendElements DEF TypeOK
  <2>3. TypeOK' /\ WaiterInv' /\ InboxInv'
    BY <1>3, <2>2 DEF SenderWrites, TypeOK, WaiterInv, InboxInv
  <2>4. StopInv'
    BY <1>3 DEF SenderWrites, StopInv
  <2>5. \A i \in 1..Len(wire') : wire'[i] <= taken
    BY <1>3, <2>1, <2>2 DEF SenderWrites, OrderInv
  <2>6. OrderInv'
    BY <1>3, <2>5 DEF SenderWrites, OrderInv
  <2> QED
    BY <2>3, <2>4, <2>6
<1>4. CASE SenderCannotEncode
  <2>1. TypeOK' /\ WaiterInv'
    BY <1>4 DEF SenderCannotEncode, TypeOK, WaiterInv
  <2>2. StopInv' /\ OrderInv' /\ InboxInv'
    BY <1>4 DEF SenderCannotEncode, StopInv, OrderInv, InboxInv
  <2> QED
    BY <2>1, <2>2
<1>7. CASE WriteFails
  <2>1. TypeOK' /\ WaiterInv'
    BY <1>7 DEF WriteFails, TypeOK, WaiterInv
  <2>2. StopInv' /\ OrderInv' /\ InboxInv'
    BY <1>7 DEF WriteFails, StopInv, OrderInv, InboxInv
  <2> QED
    BY <2>1, <2>2
<1>5. CASE SenderReturns
  <2>1. /\ out' = <<>> /\ Len(out') = 0 /\ out' \in Seq(1..MaxOut)
        /\ UNCHANGED <<published, taken, wire>> /\ snd' = "over"
    BY <1>5, EmptySeq DEF SenderReturns, Unsub
  <2>2. TypeOK'
    <3>1. failed' \in BOOLEAN /\ Len(out') <= BufferSize
      BY <1>0, <1>5, <2>1 DEF SenderReturns, Unsub, TypeOK
    <3>2. subscribed' \in BOOLEAN
      BY <1>5 DEF SenderReturns, Unsub, TypeOK
    <3>3. /\ UNCHANGED <<ctx, asked, waiter, conn, sndErr, torn, taken, wire>>
          /\ UNCHANGED <<bus, published, stops, rcv, inbox, delivered, peer, sent, malformed, bare>>
      BY <1>5 DEF SenderReturns, Unsub, peerVars
    <3> QED
      BY <2>1, <3>1, <3>2, <3>3 DEF TypeOK
  <2>5. WaiterInv'
    BY <1>5, <2>1 DEF SenderReturns, Unsub, WaiterInv
  <2>3. StopInv' /\ InboxInv'
    BY <1>5 DEF SenderReturns, Unsub, StopInv, InboxInv
  <2>4. OrderInv'
    BY <2>1 DEF OrderInv
  <2> QED
    BY <2>2, <2>3, <2>4, <2>5
<1> QED
  BY <1>1, <1>2, <1>3, <1>4, <1>5, <1>6, <1>7 DEF SenderWriteReturns

LEMMA ReceiverKeepsIInv ==
    ASSUME IInv, ReceiverChecks \/ ReceiverReads \/ ReceiverFails \/ ReceiverPublishes \/ ReceiverPanics
    PROVE  IInv'
<1> USE DEF IInv, userVars, groupVars, sndVars, busVars, peerVars
<1>0. MaxOut \in Nat /\ MaxIn \in Nat
  BY RemoteAssumption
<1>1. CASE ReceiverChecks
  <2>1. TypeOK' /\ WaiterInv'
    BY <1>1 DEF ReceiverChecks, TypeOK, WaiterInv
  <2>2. StopInv' /\ OrderInv' /\ InboxInv'
    BY <1>1 DEF ReceiverChecks, StopInv, OrderInv, InboxInv
  <2> QED
    BY <2>1, <2>2
<1>2. CASE ReceiverReads
  <2>1. TypeOK' /\ WaiterInv'
    BY <1>2 DEF ReceiverReads, TypeOK, WaiterInv
  <2>2. StopInv' /\ OrderInv' /\ InboxInv'
    BY <1>2 DEF ReceiverReads, StopInv, OrderInv, InboxInv
  <2> QED
    BY <2>1, <2>2
<1>3. CASE ReceiverFails
  <2>1. TypeOK' /\ WaiterInv'
    BY <1>3 DEF ReceiverFails, TypeOK, WaiterInv
  <2>2. StopInv' /\ OrderInv' /\ InboxInv'
    BY <1>3 DEF ReceiverFails, StopInv, OrderInv, InboxInv
  <2> QED
    BY <2>1, <2>2
<1>4. CASE ReceiverPublishes
  <2>1. /\ Head(inbox) = inbox[1] /\ Head(inbox) \in 1..MaxIn
        /\ Tail(inbox) \in Seq(1..MaxIn) /\ Len(Tail(inbox)) = Len(inbox) - 1
        /\ Len(inbox) \in Nat \ {0}
        /\ \A i \in 1..Len(Tail(inbox)) : Tail(inbox)[i] = inbox[i + 1]
    BY <1>4, TailElements DEF ReceiverPublishes, InboxInv, TypeOK
  <2>2. /\ Append(delivered, Head(inbox)) \in Seq(1..MaxIn)
        /\ Len(Append(delivered, Head(inbox))) = Len(delivered) + 1 /\ Len(delivered) \in Nat
    BY <2>1, AppendElements DEF TypeOK
  <2>3. TypeOK' /\ WaiterInv'
    BY <1>4, <2>1, <2>2 DEF ReceiverPublishes, TypeOK, WaiterInv
  <2>4. StopInv' /\ OrderInv'
    BY <1>4 DEF ReceiverPublishes, StopInv, OrderInv
  <2>5. \A i \in 1..Len(Tail(inbox)) : Tail(inbox)[i] = Len(delivered) + 1 + i
    BY <2>1, <2>2 DEF InboxInv
  <2>6. InboxInv'
    BY <1>4, <2>1, <2>2, <2>5 DEF ReceiverPublishes, InboxInv
  <2> QED
    BY <2>3, <2>4, <2>6
<1>5. CASE ReceiverPanics
  <2>1. TypeOK' /\ WaiterInv'
    BY <1>5 DEF ReceiverPanics, TypeOK, WaiterInv
  <2>2. StopInv' /\ OrderInv' /\ InboxInv'
    BY <1>5 DEF ReceiverPanics, StopInv, OrderInv, InboxInv
  <2> QED
    BY <2>1, <2>2
<1> QED
  BY <1>1, <1>2, <1>3, <1>4, <1>5

LEMMA WaiterKeepsIInv ==
    ASSUME IInv, WaitReturns \/ CloseConn \/ CancelContext
    PROVE  IInv'
<1> USE DEF IInv, userVars, sndVars, busVars, rcvVars, peerVars
<1>1. CASE WaitReturns
  <2>1. TypeOK' /\ WaiterInv'
    BY <1>1 DEF WaitReturns, TypeOK, WaiterInv
  <2>2. StopInv' /\ OrderInv' /\ InboxInv'
    BY <1>1 DEF WaitReturns, StopInv, OrderInv, InboxInv
  <2> QED
    BY <2>1, <2>2
<1>2. CASE CloseConn
  <2>1. TypeOK' /\ WaiterInv'
    BY <1>2 DEF CloseConn, TypeOK, WaiterInv
  <2>2. StopInv' /\ OrderInv' /\ InboxInv'
    BY <1>2 DEF CloseConn, StopInv, OrderInv, InboxInv
  <2> QED
    BY <2>1, <2>2
<1>3. CASE CancelContext
  <2>1. TypeOK' /\ WaiterInv'
    BY <1>3 DEF CancelContext, TypeOK, WaiterInv
  <2>2. StopInv' /\ OrderInv' /\ InboxInv'
    BY <1>3 DEF CancelContext, StopInv, OrderInv, InboxInv
  <2> QED
    BY <2>1, <2>2
<1> QED
  BY <1>1, <1>2, <1>3

LEMMA EnvironmentKeepsIInv ==
    ASSUME IInv, Environment \/ UNCHANGED vars
    PROVE  IInv'
<1> USE DEF IInv, userVars, groupVars, sndVars, busVars, rcvVars, peerVars
<1>0. MaxOut \in Nat /\ MaxIn \in Nat /\ BufferSize \in Nat
  BY RemoteAssumption, BufferAssumption
<1>1. CASE UserCancels
  <2>1. TypeOK' /\ WaiterInv'
    BY <1>1 DEF UserCancels, TypeOK, WaiterInv
  <2>2. StopInv' /\ OrderInv' /\ InboxInv'
    BY <1>1 DEF UserCancels, StopInv, OrderInv, InboxInv
  <2> QED
    BY <2>1, <2>2
<1>2. CASE BusShuts
  <2>1. TypeOK' /\ WaiterInv'
    BY <1>2 DEF BusShuts, TypeOK, WaiterInv
  <2>2. StopInv' /\ OrderInv' /\ InboxInv'
    BY <1>2 DEF BusShuts, StopInv, OrderInv, InboxInv
  <2> QED
    BY <2>1, <2>2
<1>3. CASE PeerCloses
  <2>1. TypeOK' /\ WaiterInv'
    BY <1>3 DEF PeerCloses, TypeOK, WaiterInv
  <2>2. StopInv' /\ OrderInv' /\ InboxInv'
    BY <1>3 DEF PeerCloses, StopInv, OrderInv, InboxInv
  <2> QED
    BY <2>1, <2>2
<1>4. CASE UNCHANGED vars
  <2>1. TypeOK' /\ WaiterInv'
    BY <1>4 DEF vars, TypeOK, WaiterInv
  <2>2. StopInv' /\ OrderInv' /\ InboxInv'
    BY <1>4 DEF vars, StopInv, OrderInv, InboxInv
  <2> QED
    BY <2>1, <2>2
<1>5. ASSUME NEW b \in BOOLEAN, Publish(b) PROVE IInv'
  <2>1. published + 1 \in 1..MaxOut /\ published' = published + 1 /\ published \in Nat
    BY <1>0, <1>5 DEF Publish, TypeOK
  <2>2. \A x \in stops' : x \in stops \/ x = published + 1
    BY <1>5 DEF Publish
  <2>3. /\ UNCHANGED <<snd, taken, wire, torn, subscribed, inbox, delivered, sent, rcv>>
        /\ out' = out \/ (subscribed /\ Len(out) < BufferSize /\ out' = Append(out, published + 1))
    BY <1>5 DEF Publish, Offer
  <2>4. /\ Append(out, published + 1) \in Seq(1..MaxOut)
        /\ Len(Append(out, published + 1)) = Len(out) + 1 /\ Len(out) \in Nat
        /\ \A i \in 1..Len(out) : Append(out, published + 1)[i] = out[i]
        /\ Append(out, published + 1)[Len(out) + 1] = published + 1
    BY <2>1, AppendElements DEF TypeOK
  <2>10. \A i \in 1..Len(out) : out[i] \in 1..MaxOut
    BY ElementOfSeq DEF TypeOK
  <2>11. /\ out \in Seq(1..MaxOut) /\ Len(out) <= BufferSize
         /\ stops \subseteq 1..MaxOut /\ published \in 0..MaxOut
    BY DEF TypeOK
  <2>5. out' \in Seq(1..MaxOut) /\ Len(out') <= BufferSize
    <3>1. CASE out' = out
      BY <2>11, <3>1
    <3>2. CASE Len(out) < BufferSize /\ out' = Append(out, published + 1)
      BY <1>0, <2>4, <3>2
    <3> QED
      BY <2>3, <3>1, <3>2
  <2>6. stops' \subseteq 1..MaxOut /\ published' \in 0..MaxOut
    <3>1. \A x \in stops' : x \in 1..MaxOut
      BY <2>1, <2>2, <2>11
    <3> QED
      BY <1>0, <2>1, <3>1
  <2>7. TypeOK' /\ WaiterInv'
    BY <1>5, <2>5, <2>6 DEF Publish, TypeOK, WaiterInv
  <2>8. StopInv'
    <3>1. taken \in Nat /\ taken <= published
      BY DEF TypeOK, StopInv
    <3>4. \A x \in stops : x \in Int /\ 1 <= x /\ x <= published
      BY <2>1 DEF StopInv
    <3>5. \A x \in stops' : x \in 1..published'
      BY <2>1, <2>2, <3>4
    <3>2. taken <= published' /\ stops' \subseteq 1..published'
      BY <2>1, <3>1, <3>5
    <3>3. taken \in stops' => taken \in stops
      BY <2>1, <2>2, <3>1
    <3> QED
      BY <2>3, <3>2, <3>3 DEF StopInv
  <2>9. OrderInv' /\ InboxInv'
    <3>1. taken \in Nat /\ taken <= published
      BY DEF TypeOK, StopInv
    <3>6. \A i \in 1..Len(out) : taken < out[i] /\ out[i] < published + 1 /\ out[i] \in Nat
      BY <2>1, <2>10 DEF OrderInv
    <3>2. \A i \in 1..Len(out') : taken < out'[i] /\ out'[i] <= published'
      BY <2>1, <2>3, <2>4, <3>1, <3>6
    <3>4. \A i, j \in 1..Len(out) : i < j => out[i] < out[j]
      BY DEF OrderInv
    <3>5. \A i \in 1..Len(out) : out[i] < published + 1
      BY <2>1, <2>10 DEF OrderInv
    <3>3. \A i, j \in 1..Len(out') : i < j => out'[i] < out'[j]
      BY <2>3, <2>4, <3>4, <3>5
    <3> QED
      BY <2>3, <3>2, <3>3 DEF OrderInv, InboxInv
  <2> QED
    BY <2>7, <2>8, <2>9
<1>6. ASSUME NEW kind \in {"good", "malformed", "bare"}, PeerSends(kind) PROVE IInv'
  <2>1. sent + 1 \in 1..MaxIn /\ sent' = sent + 1 /\ sent \in Nat
    BY <1>0, <1>6 DEF PeerSends, TypeOK
  <2>2. /\ Append(inbox, sent + 1) \in Seq(1..MaxIn)
        /\ Len(Append(inbox, sent + 1)) = Len(inbox) + 1 /\ Len(inbox) \in Nat
        /\ \A i \in 1..Len(inbox) : Append(inbox, sent + 1)[i] = inbox[i]
        /\ Append(inbox, sent + 1)[Len(inbox) + 1] = sent + 1
    BY <2>1, AppendElements DEF TypeOK
  <2>3. malformed' \subseteq 1..MaxIn /\ bare' \subseteq 1..MaxIn
    BY <1>6, <2>1 DEF PeerSends, TypeOK
  <2>4. TypeOK' /\ WaiterInv'
    BY <1>0, <1>6, <2>1, <2>2, <2>3 DEF PeerSends, TypeOK, WaiterInv
  <2>5. StopInv' /\ OrderInv'
    BY <1>6 DEF PeerSends, StopInv, OrderInv
  <2>6. Len(delivered) \in Nat
    BY LenProperties DEF TypeOK
  <2>7. InboxInv'
    <3>1. inbox' = Append(inbox, sent + 1) /\ delivered' = delivered /\ rcv' = rcv
      BY <1>6 DEF PeerSends
    <3>2. \A i \in 1..Len(inbox') : inbox'[i] = Len(delivered) + i
      <4> SUFFICES ASSUME NEW i \in 1..Len(inbox') PROVE inbox'[i] = Len(delivered) + i
        OBVIOUS
      <4>1. CASE i \in 1..Len(inbox)
        BY <2>2, <3>1, <4>1 DEF InboxInv
      <4>2. CASE i = Len(inbox) + 1
        <5>1. Len(delivered) + Len(inbox) = sent
          BY DEF InboxInv
        <5>2. inbox'[i] = sent + 1
          BY <2>2, <3>1, <4>2
        <5> QED
          BY <2>1, <2>2, <2>6, <4>2, <5>1, <5>2
      <4> QED
        BY <2>2, <3>1, <4>1, <4>2
    <3>4. inbox' # <<>>
      BY <2>1, <3>1, AppendProperties DEF TypeOK
    <3>5. Len(delivered) + Len(inbox) = sent
      BY DEF InboxInv
    <3>3. inbox' # <<>> /\ Len(delivered) + Len(inbox') = sent'
      BY <2>1, <2>2, <2>6, <3>1, <3>4, <3>5
    <3> QED
      BY <3>1, <3>2, <3>3 DEF InboxInv
  <2> QED
    BY <2>4, <2>5, <2>7
<1> QED
  BY <1>1, <1>2, <1>3, <1>4, <1>5, <1>6 DEF Environment

-------------------------------------------------------------------------------
(* The invariant holds in every reachable state. *)
THEOREM Invariance == Spec => []IInv
<1>1. IInv /\ [Next]_vars => IInv'
  BY SenderKeepsIInv, ReceiverKeepsIInv, WaiterKeepsIInv, EnvironmentKeepsIInv
     DEF Next, Environment
<1> QED
  BY <1>1, InitIInv, PTL DEF Spec

(* Every variable keeps its type; the channel never exceeds its capacity. *)
THEOREM TypeCorrect == Spec => []TypeOK
BY Invariance, PTL DEF IInv

(* The connection is closed only when both goroutines are over and the      *)
(* subscription was given back (remote.go:104), whatever the bounds.        *)
THEOREM ConnectionClosedLast == Spec => []ClosedLast
<1>1. IInv => ClosedLast
  BY DEF IInv, TypeOK, WaiterInv, ClosedLast
<1> QED
  BY <1>1, Invariance, PTL

(* After a stop command send neither takes nor writes a message (remote.go: *)
(* 42-45).                                                                  *)
THEOREM StopFinal == Spec => StopIsFinal
<1>1. IInv /\ [Next]_vars => [(taken \in stops) => UNCHANGED <<taken, wire>>]_vars
  <2> SUFFICES ASSUME IInv, Next, taken \in stops PROVE UNCHANGED <<taken, wire>>
    OBVIOUS
  <2>1. snd \in {"unsub", "over", "panic"}
    BY DEF IInv, StopInv
  <2>2. CASE SenderSubscribes \/ SenderSeesDone \/ SenderTakes \/ SenderWriteReturns \/ SenderReturns
    BY <2>1, <2>2 DEF SenderSubscribes, SenderSeesDone, SenderTakes, SenderWriteReturns,
                      SenderWrites, SenderCannotEncode, WriteFails, SenderReturns, Unsub
  <2>3. CASE ReceiverChecks \/ ReceiverReads \/ ReceiverFails \/ ReceiverPublishes \/ ReceiverPanics
    BY <2>3 DEF ReceiverChecks, ReceiverReads, ReceiverFails, ReceiverPublishes, ReceiverPanics, sndVars
  <2>4. CASE WaitReturns \/ CloseConn \/ CancelContext
    BY <2>4 DEF WaitReturns, CloseConn, CancelContext, sndVars
  <2>5. CASE Environment
    BY <2>5 DEF Environment, UserCancels, BusShuts, PeerCloses, Publish, PeerSends, sndVars
  <2> QED
    BY <2>2, <2>3, <2>4, <2>5 DEF Next, Environment
<1> QED
  BY <1>1, Invariance, PTL DEF Spec, StopIsFinal

-------------------------------------------------------------------------------
(* The Remote implements the Link: every step of a goroutine is a step of   *)
(* the Link or leaves what the Link shows unchanged.                        *)
LEMMA SenderRefines ==
    ASSUME IInv,
           SenderSubscribes \/ SenderSeesDone \/ SenderTakes \/ SenderWriteReturns \/ SenderReturns
    PROVE  L!Next \/ UNCHANGED L!vars
<1> USE DEF userVars, groupVars, rcvVars, L!vars, L!Next
<1>1. CASE SenderSubscribes \/ SenderSeesDone \/ SenderTakes \/ SenderCannotEncode \/ SenderReturns
  BY <1>1 DEF SenderSubscribes, SenderSeesDone, SenderTakes, SenderCannotEncode, SenderReturns, Unsub
<1>2. snd = "write" => conn = "open" /\ torn # TRUE
  BY DEF IInv, TypeOK, WaiterInv, StopInv
<1>3. CASE SenderWrites
  <2>1. taken \in 1..MaxOut
    BY <1>3 DEF SenderWrites, IInv, TypeOK, StopInv
  <2>2. \A i \in DOMAIN wire : wire[i] < taken
    BY <1>3, LenProperties DEF SenderWrites, IInv, TypeOK, OrderInv
  <2>3. L!Write
    BY <1>2, <1>3, <2>1, <2>2 DEF SenderWrites, L!Write
  <2> QED
    BY <2>3
<1>4. CASE WriteFails
  <2>1. CASE torn' = TRUE
    BY <1>2, <1>4, <2>1 DEF WriteFails, L!Tear
  <2>2. CASE torn' = FALSE
    <3>1. torn = FALSE
      BY <1>2, <1>4 DEF WriteFails, IInv, TypeOK
    <3> QED
      BY <1>4, <2>2, <3>1 DEF WriteFails
  <2> QED
    BY <1>4, <2>1, <2>2 DEF WriteFails
<1> QED
  BY <1>1, <1>3, <1>4 DEF SenderWriteReturns

LEMMA OthersRefine ==
    ASSUME IInv,
           \/ ReceiverChecks \/ ReceiverReads \/ ReceiverFails \/ ReceiverPublishes \/ ReceiverPanics
           \/ WaitReturns \/ CloseConn \/ CancelContext
           \/ Environment \/ UNCHANGED vars
    PROVE  L!Next \/ UNCHANGED L!vars
<1> USE DEF userVars, groupVars, sndVars, rcvVars, L!vars, L!Next
<1>1. CASE ReceiverChecks \/ ReceiverReads \/ ReceiverFails \/ ReceiverPanics \/ WaitReturns \/ UNCHANGED vars
  BY <1>1 DEF ReceiverChecks, ReceiverReads, ReceiverFails, ReceiverPanics, WaitReturns, vars
<1>2. CASE ReceiverPublishes
  <2>1. conn = "open"
    BY <1>2 DEF ReceiverPublishes, IInv, TypeOK, WaiterInv
  <2>2. Head(inbox) = Len(delivered) + 1
    <3>1. inbox # <<>> /\ inbox \in Seq(1..MaxIn)
      BY <1>2 DEF ReceiverPublishes, IInv, TypeOK, InboxInv
    <3>2. Head(inbox) = inbox[1] /\ Len(inbox) \in Nat \ {0}
      BY <3>1, TailElements
    <3> QED
      BY <3>2 DEF IInv, InboxInv
  <2>3. L!Deliver
    BY <1>2, <2>1, <2>2 DEF ReceiverPublishes, L!Deliver
  <2> QED
    BY <2>3
<1>3. CASE CloseConn
  <2>1. L!Close
    BY <1>3 DEF CloseConn, IInv, WaiterInv, L!Close
  <2> QED
    BY <2>1
<1>4. CASE CancelContext
  <2>1. conn = "closed"
    BY <1>4 DEF CancelContext, IInv, TypeOK, WaiterInv
  <2>2. CASE ctx = "live"
    BY <1>4, <2>1, <2>2 DEF CancelContext, L!End
  <2>3. CASE ctx = "done"
    BY <1>4, <2>3 DEF CancelContext
  <2> QED
    BY <2>2, <2>3 DEF IInv, TypeOK
<1>5. CASE Environment
  <2>1. CASE UserCancels
    BY <2>1 DEF UserCancels, L!Ask
  <2>2. CASE \/ BusShuts \/ PeerCloses \/ \E b \in BOOLEAN : Publish(b)
             \/ \E kind \in {"good", "malformed", "bare"} : PeerSends(kind)
    BY <2>2 DEF BusShuts, PeerCloses, Publish, PeerSends
  <2> QED
    BY <1>5, <2>1, <2>2 DEF Environment
<1> QED
  BY <1>1, <1>2, <1>3, <1>4, <1>5

(* A Remote is a Link (see Link), for any bounds, timeout or shutdown.      *)
THEOREM RemoteImplementsLink == Spec => ImplementsLink
<1>1. Init => L!Init
  BY DEF Init, L!Init
<1>2. IInv /\ [Next]_vars => [L!Next]_(L!vars)
  BY SenderRefines, OthersRefine DEF Next, Environment
<1> QED
  BY <1>1, <1>2, Invariance, PTL DEF Spec, ImplementsLink, L!Spec
==============================================================================
