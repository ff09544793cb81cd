-------------------------------- MODULE Remote --------------------------------
(***************************************************************************)
(* A Remote (remote.go): the goroutine that sends the messages of the bus   *)
(* on the connection, the one that publishes on the bus what the connection *)
(* brings, and the one that waits for both, closes the connection and ends  *)
(* the context that StartRemote returned.                                   *)
(*                                                                          *)
(* A message is its id: its place in the order of publication on the bus    *)
(* (outgoing), or in the order in which the peer sent it (incoming).        *)
(***************************************************************************)
EXTENDS Bus, Integers, SequencesExt

CONSTANTS HasTimeout,   \* readTimeout of StartRemote is not zero
          BusMayShut,   \* the Controller may terminate before the Remote
          MaxOut,       \* bound: messages published for the peer
          MaxIn         \* bound: messages of the peer

ASSUME RemoteAssumption ==
    /\ HasTimeout \in BOOLEAN /\ BusMayShut \in BOOLEAN
    /\ MaxOut \in Nat
    /\ MaxIn \in Nat

VARIABLES
    ctx,        \* context returned by StartRemote: "live" or "done"
    asked,      \* history: the user called the cancel function
    failed,     \* a goroutine of the errgroup returned an error
    snd,        \* where send is
    sndErr,     \* send is about to return an error
    rcv,        \* where receive is
    waiter,     \* where the goroutine that calls g.Wait is
    conn,       \* "open" or "closed"
    bus,        \* "open" or "shut" (see Bus)
    out,        \* channel of send's subscription
    subscribed, \* the channel is registered in the bus
    published,  \* messages published on the topics of send: 1..published
    stops,      \* those that are RemoteStop commands
    taken,      \* id of the message send works on, or worked on last
    peer,       \* "open" or "closed"
    sent,       \* messages sent by the peer: 1..sent
    malformed,  \* those that ParseMessage refuses
    bare,       \* those that have no command: no data, or null
    inbox,      \* messages of the peer not yet read
    wire,       \* history: messages completely written, in order
    torn,       \* history: a frame was left incomplete
    delivered   \* history: messages of the peer published on the bus

userVars == <<ctx, asked>>
groupVars == <<failed, waiter, conn>>
sndVars == <<snd, sndErr, out, subscribed, taken, wire, torn>>
busVars == <<bus, published, stops>>
rcvVars == <<rcv, inbox, delivered>>
peerVars == <<peer, sent, malformed, bare>>
vars == <<userVars, groupVars, sndVars, busVars, rcvVars, peerVars>>

TypeOK ==
    /\ ctx \in {"live", "done"} /\ asked \in BOOLEAN
    /\ failed \in BOOLEAN
    /\ waiter \in {"wait", "close", "cancel", "over"}
    /\ conn \in {"open", "closed"}
    /\ snd \in {"start", "select", "write", "unsub", "over", "panic"}
    /\ sndErr \in BOOLEAN /\ torn \in BOOLEAN
    /\ out \in Seq(1..MaxOut) /\ Len(out) <= BufferSize
    /\ subscribed \in BOOLEAN
    /\ taken \in 0..MaxOut
    /\ wire \in Seq(1..MaxOut)
    /\ bus \in {"open", "shut"} /\ published \in 0..MaxOut /\ stops \subseteq 1..MaxOut
    /\ rcv \in {"check", "read", "publish", "over", "panic"}
    /\ inbox \in Seq(1..MaxIn) /\ delivered \in Seq(1..MaxIn)
    /\ peer \in {"open", "closed"} /\ sent \in 0..MaxIn /\ malformed \subseteq 1..MaxIn /\ bare \subseteq 1..MaxIn

Init ==
    /\ ctx = "live" /\ asked = FALSE
    /\ failed = FALSE /\ waiter = "wait" /\ conn = "open"
    /\ snd = "start" /\ sndErr = FALSE /\ out = <<>> /\ subscribed = FALSE
    /\ taken = 0 /\ wire = <<>> /\ torn = FALSE
    /\ bus = "open" /\ published = 0 /\ stops = {}
    /\ rcv = "check" /\ inbox = <<>> /\ delivered = <<>>
    /\ peer = "open" /\ sent = 0 /\ malformed = {} /\ bare = {}

(* The errgroup's context: child of ctx, cancelled by the first error. *)
InnerDone == ctx = "done" \/ failed

-------------------------------------------------------------------------------
(* send *)

SenderSubscribes ==
    /\ snd = "start" /\ bus = "open"
    /\ subscribed' = TRUE
    /\ snd' = "select"
    /\ UNCHANGED <<sndErr, out, taken, wire, torn>>
    /\ UNCHANGED <<userVars, groupVars, busVars, rcvVars, peerVars>>

SenderSeesDone ==
    /\ snd = "select" /\ InnerDone
    /\ snd' = "unsub"
    /\ UNCHANGED <<sndErr, out, subscribed, taken, wire, torn>>
    /\ UNCHANGED <<userVars, groupVars, busVars, rcvVars, peerVars>>

(* On a channel that the bus closed send receives nil for ever: no step. *)
SenderTakes ==
    /\ snd = "select" /\ out # <<>>
    /\ taken' = Head(out)
    /\ out' = Tail(out)
    /\ IF Head(out) \in stops
       THEN snd' = "unsub" /\ sndErr' = TRUE
       ELSE snd' = "write" /\ UNCHANGED sndErr
    /\ UNCHANGED <<subscribed, wire, torn>>
    /\ UNCHANGED <<userVars, groupVars, busVars, rcvVars, peerVars>>

(* The write deadline is now + timeout: without timeout no write succeeds. *)
SenderWrites ==
    /\ snd = "write" /\ HasTimeout
    /\ wire' = Append(wire, taken)
    /\ snd' = "select"
    /\ UNCHANGED <<sndErr, out, subscribed, taken, torn>>
    /\ UNCHANGED <<userVars, groupVars, busVars, rcvVars, peerVars>>

(* A command that cannot be encoded is logged, and zero bytes are written. *)
SenderCannotEncode ==
    /\ snd = "write" /\ HasTimeout
    /\ snd' = "select"
    /\ UNCHANGED <<sndErr, out, subscribed, taken, wire, torn>>
    /\ UNCHANGED <<userVars, groupVars, busVars, rcvVars, peerVars>>

(* Timeout or broken connection, possibly in the middle of the frame. *)
WriteFails ==
    /\ snd = "write"
    /\ torn' \in BOOLEAN
    /\ sndErr' = TRUE
    /\ snd' = "unsub"
    /\ UNCHANGED <<out, subscribed, taken, wire>>
    /\ UNCHANGED <<userVars, groupVars, busVars, rcvVars, peerVars>>

(* The Controller's: a goroutine empties the channel until the bus, which   *)
(* is waited for, has removed it.                                           *)
Unsub == bus = "open" /\ subscribed' = FALSE /\ out' = <<>>

(* It is deferred, and comes before the errgroup learns of the error.       *)
SenderReturns ==
    /\ snd = "unsub" /\ Unsub
    /\ failed' = (failed \/ sndErr)
    /\ snd' = "over"
    /\ UNCHANGED <<sndErr, taken, wire, torn, waiter, conn>>
    /\ UNCHANGED <<userVars, busVars, rcvVars, peerVars>>

-------------------------------------------------------------------------------
(* receive *)

ReceiverChecks ==
    /\ rcv = "check"
    /\ rcv' = IF InnerDone THEN "over" ELSE "read"
    /\ UNCHANGED <<inbox, delivered>>
    /\ UNCHANGED <<userVars, groupVars, sndVars, busVars, peerVars>>

ReceiverReads ==
    /\ rcv = "read" /\ inbox # <<>> /\ Head(inbox) \notin malformed
    /\ rcv' = "publish"
    /\ UNCHANGED <<inbox, delivered>>
    /\ UNCHANGED <<userVars, groupVars, sndVars, busVars, peerVars>>

(* Mutant: the read deadline is never set. *)
ReceiverFailsNoDeadline ==
    /\ rcv = "read" /\ inbox = <<>> /\ peer = "closed"
    /\ rcv' = "over"
    /\ failed' = TRUE
    /\ UNCHANGED <<inbox, delivered, waiter, conn>>
    /\ UNCHANGED <<userVars, sndVars, busVars, peerVars>>

(* ParseMessage fails: a malformed message, the end of the stream, or the   *)
(* read deadline, which is only set when there is a timeout.                *)
ReceiverFails ==
    /\ rcv = "read"
    /\ \/ inbox # <<>> /\ Head(inbox) \in malformed
       \/ inbox = <<>> /\ peer = "closed"
       \/ HasTimeout
    /\ rcv' = "over"
    /\ failed' = TRUE
    /\ UNCHANGED <<inbox, delivered, waiter, conn>>
    /\ UNCHANGED <<userVars, sndVars, busVars, peerVars>>

ReceiverPublishes ==
    /\ rcv = "publish" /\ Head(inbox) \notin bare /\ bus = "open"
    /\ delivered' = Append(delivered, Head(inbox))
    /\ inbox' = Tail(inbox)
    /\ rcv' = "check"
    /\ UNCHANGED <<userVars, groupVars, sndVars, busVars, peerVars>>

(* There is no command to take the topic from: the program ends.            *)
ReceiverPanics ==
    /\ rcv = "publish" /\ Head(inbox) \in bare
    /\ rcv' = "panic" /\ snd' = "panic"
    /\ UNCHANGED <<inbox, delivered, sndErr, out, subscribed, taken, wire, torn>>
    /\ UNCHANGED <<userVars, groupVars, busVars, peerVars>>

-------------------------------------------------------------------------------
(* The goroutine of StartRemote, after g.Wait. *)

(* Mutant: the first goroutine that returns is enough. *)
WaitReturnsEarly ==
    /\ waiter = "wait" /\ (snd = "over" \/ rcv = "over")
    /\ waiter' = "close"
    /\ UNCHANGED <<failed, conn>>
    /\ UNCHANGED <<userVars, sndVars, busVars, rcvVars, peerVars>>

(* Mutant: the connection is not closed. *)
WaitReturnsNoClose ==
    /\ waiter = "wait" /\ snd = "over" /\ rcv = "over"
    /\ waiter' = "cancel"
    /\ UNCHANGED <<failed, conn>>
    /\ UNCHANGED <<userVars, sndVars, busVars, rcvVars, peerVars>>

WaitReturns ==
    /\ waiter = "wait" /\ snd = "over" /\ rcv = "over"
    /\ waiter' = "close"
    /\ UNCHANGED <<failed, conn>>
    /\ UNCHANGED <<userVars, sndVars, busVars, rcvVars, peerVars>>

CloseConn ==
    /\ waiter = "close"
    /\ conn' = "closed"
    /\ waiter' = "cancel"
    /\ UNCHANGED failed
    /\ UNCHANGED <<userVars, sndVars, busVars, rcvVars, peerVars>>

CancelContext ==
    /\ waiter = "cancel"
    /\ ctx' = "done"
    /\ waiter' = "over"
    /\ UNCHANGED <<asked, failed, conn>>
    /\ UNCHANGED <<sndVars, busVars, rcvVars, peerVars>>

-------------------------------------------------------------------------------
(* The rest of the program, and the peer. *)

UserCancels ==
    /\ ~asked
    /\ asked' = TRUE
    /\ ctx' = "done"
    /\ UNCHANGED <<groupVars, sndVars, busVars, rcvVars, peerVars>>

Publish(isStop) ==
    /\ bus = "open" /\ published < MaxOut
    /\ published' = published + 1
    /\ stops' = IF isStop THEN stops \cup {published + 1} ELSE stops
    /\ out' = IF subscribed THEN Offer(out, published + 1) ELSE out
    /\ UNCHANGED <<bus, snd, sndErr, subscribed, taken, wire, torn>>
    /\ UNCHANGED <<userVars, groupVars, rcvVars, peerVars>>

(* Start of the Controller returns. *)
BusShuts ==
    /\ BusMayShut /\ bus = "open"
    /\ bus' = "shut"
    /\ UNCHANGED <<published, stops>>
    /\ UNCHANGED <<userVars, groupVars, sndVars, rcvVars, peerVars>>

PeerSends(kind) ==
    /\ peer = "open" /\ conn = "open" /\ sent < MaxIn
    /\ sent' = sent + 1
    /\ malformed' = IF kind = "malformed" THEN malformed \cup {sent + 1} ELSE malformed
    /\ bare' = IF kind = "bare" THEN bare \cup {sent + 1} ELSE bare
    /\ inbox' = Append(inbox, sent + 1)
    /\ UNCHANGED <<peer, rcv, delivered>>
    /\ UNCHANGED <<userVars, groupVars, sndVars, busVars>>

PeerCloses ==
    /\ peer = "open"
    /\ peer' = "closed"
    /\ UNCHANGED <<sent, malformed, bare>>
    /\ UNCHANGED <<userVars, groupVars, sndVars, busVars, rcvVars>>

SenderWriteReturns == SenderWrites \/ SenderCannotEncode \/ WriteFails

Next ==
    \/ SenderSubscribes \/ SenderSeesDone \/ SenderTakes
    \/ SenderWriteReturns \/ SenderReturns
    \/ ReceiverChecks \/ ReceiverReads \/ ReceiverFails \/ ReceiverPublishes \/ ReceiverPanics
    \/ WaitReturns \/ CloseConn \/ CancelContext
    \/ rcv # "panic" /\ (UserCancels \/ BusShuts \/ \E isStop \in BOOLEAN : Publish(isStop))
    \/ PeerCloses \/ \E kind \in {"good", "malformed", "bare"} : PeerSends(kind)

Spec == Init /\ [][Next]_vars

(* The three goroutines go on when they can, a read with a deadline or with *)
(* something to read returns, and select does not ignore the context for    *)
(* ever.  Nobody has to publish, to cancel or to close.                     *)
Fairness ==
    /\ WF_vars(SenderSubscribes) /\ SF_vars(SenderSeesDone) /\ WF_vars(SenderTakes)
    /\ WF_vars(SenderWriteReturns) /\ WF_vars(SenderReturns)
    /\ WF_vars(ReceiverChecks) /\ WF_vars(ReceiverReads \/ ReceiverFails)
    /\ WF_vars(ReceiverPublishes) /\ WF_vars(ReceiverPanics)
    /\ WF_vars(WaitReturns) /\ WF_vars(CloseConn) /\ WF_vars(CancelContext)

FairSpec == Spec /\ Fairness

-------------------------------------------------------------------------------
(* Properties. *)

L == INSTANCE Link WITH Messages <- 1..MaxOut, written <- wire

(* A Remote implements a Link: outgoing messages in order, at most once,    *)
(* nothing after a torn frame; incoming ones in order and without gaps; the *)
(* context ends by itself only after the connection was closed              *)
(* (remote.go:99-106).                                                      *)
ImplementsLink == L!Spec

(* When the connection is closed nobody uses it any more and the            *)
(* subscription was given back (remote.go:26-29, 104-106).                  *)
ClosedLast == conn = "closed" => snd = "over" /\ rcv = "over" /\ ~subscribed

(* A stop command that reaches send is the last thing it takes: whatever    *)
(* is queued behind it never leaves (remote.go:42-45).                      *)
StopIsFinal == [][(taken \in stops) => UNCHANGED <<taken, wire>>]_vars

Ended == conn = "closed" /\ ctx = "done"

(* As long as the Controller runs, the cancel function, an error of either  *)
(* goroutine, a stop command or a peer that closes its side closes the      *)
(* connection and ends the context (remote.go:88-89).  A message without a  *)
(* command ends the whole program instead (remote.go:83).                   *)
EndsWhenAsked ==
    (asked \/ failed \/ sndErr \/ peer = "closed") ~> (Ended \/ bus = "shut" \/ rcv = "panic")
==============================================================================
