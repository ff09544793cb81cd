--------------------------------- MODULE Bus ---------------------------------
(***************************************************************************)
(* The publish/subscribe bus behind a Controller (github.com/cskr/pubsub,   *)
(* a library), as Controller.PubMessage, Sub, Unsub and Start use it: one   *)
(* buffered channel per subscription, non-blocking publication.             *)
(*                                                                          *)
(* pubsub serves its commands one by one in a goroutine.  TryPub offers the *)
(* message to each subscribed channel and drops it where the buffer is full.*)
(* Shutdown ends that goroutine and closes every subscribed channel: from   *)
(* then on a Pub, Sub or Unsub waits for ever, since nobody takes commands. *)
(***************************************************************************)
EXTENDS Naturals, Sequences

CONSTANT BufferSize       \* capacity of each subscription's channel

ASSUME BufferAssumption == BufferSize \in Nat \ {0}

(* One channel after message m was offered to it. *)
Offer(q, m) == IF Len(q) < BufferSize THEN Append(q, m) ELSE q

(* All channels after message m was offered to those in the set `to'. *)
TryPub(queue, to, m) ==
    [s \in DOMAIN queue |-> IF s \in to THEN Offer(queue[s], m) ELSE queue[s]]
==============================================================================
