------------------------------ MODULE Heartbeat ------------------------------
(***************************************************************************)
(* The heartbeat handler (handlers/heartbeat/heartbeat.go) beside a remote  *)
(* connection: it sends a beat at every tick to the device that first sent  *)
(* it one, and has the connection stopped when beats were missing too long. *)
(* The connection itself is modelled in Remote; here it is up or down, and  *)
(* its sender reads the channel of outgoing messages.                       *)
(***************************************************************************)
EXTENDS Bus

CONSTANTS Peers,      \* devices that send beats
          Nobody,     \* uuid.Nil
          MaxErrors

VARIABLES
    connected,
    answering,  \* peers that send beats
    errors, remoteID,
    beats,      \* channel of the handler
    outgoing    \* channel of the sender of the connection

vars == <<connected, answering, errors, remoteID, beats, outgoing>>

Beat == "beat"
Stop == "stop"
Counts == 0..MaxErrors + 1      \* bound: more is as many
More(n) == IF n > MaxErrors THEN n ELSE n + 1

TypeOK ==
    /\ connected \in BOOLEAN /\ answering \subseteq Peers
    /\ errors \in Counts /\ remoteID \in Peers \cup {Nobody}
    /\ beats \in Seq(Peers) /\ Len(beats) <= BufferSize
    /\ outgoing \in Seq({Beat, Stop}) /\ Len(outgoing) <= BufferSize

Init ==
    /\ connected = FALSE /\ answering = Peers
    /\ errors = 0 /\ remoteID = Nobody /\ beats = <<>> /\ outgoing = <<>>

-------------------------------------------------------------------------------
(* The other end. *)
Connects ==
    /\ ~connected /\ connected' = TRUE
    /\ UNCHANGED <<answering, errors, remoteID, beats, outgoing>>

Breaks ==
    /\ connected /\ connected' = FALSE /\ outgoing' = <<>>
    /\ UNCHANGED <<answering, errors, remoteID, beats>>

Changes(p) ==
    /\ answering' = IF p \in answering THEN answering \ {p} ELSE answering \cup {p}
    /\ UNCHANGED <<connected, errors, remoteID, beats, outgoing>>

Beats(p) ==
    /\ connected /\ p \in answering /\ Len(beats) < BufferSize
    /\ beats' = Offer(beats, p)
    /\ UNCHANGED <<connected, answering, errors, remoteID, outgoing>>

(* The sender ends at the first command to stop, whatever its receiver; its *)
(* channel is a new one when the connection is.                             *)
Sends ==
    /\ connected /\ outgoing # <<>>
    /\ IF Head(outgoing) = Stop
       THEN connected' = FALSE /\ outgoing' = <<>>
       ELSE UNCHANGED connected /\ outgoing' = Tail(outgoing)
    /\ UNCHANGED <<answering, errors, remoteID, beats>>

-------------------------------------------------------------------------------
HandleMessage ==
    /\ beats # <<>> /\ beats' = Tail(beats)
    /\ remoteID' = IF remoteID = Nobody THEN Head(beats) ELSE remoteID
    /\ errors' = 0
    /\ UNCHANGED <<connected, answering, outgoing>>

(* Mutant: the stop is published once. *)
ExceedsOnce(n) == n = MaxErrors

Exceeds(n) == n >= MaxErrors

(* A tick is more than a minute: what was queued at the last one is read by  *)
(* then, or the connection broke.  Before this one other handlers may have   *)
(* published n messages.                                                     *)
HandleTimerEvent(n) ==
    /\ beats = <<>> /\ outgoing = <<>>
    /\ errors' = More(errors)
    /\ outgoing' = IF ~connected THEN <<>>
                   ELSE LET sent == Offer([i \in 1..n |-> Beat], Beat) IN
                        IF Exceeds(errors') THEN Offer(sent, Stop) ELSE sent
    /\ UNCHANGED <<connected, answering, remoteID, beats>>

Next ==
    \/ Connects \/ Breaks \/ Sends \/ HandleMessage
    \/ \E n \in 0..BufferSize : HandleTimerEvent(n)
    \/ \E p \in Peers : Changes(p) \/ Beats(p)

-------------------------------------------------------------------------------
(* Properties. *)

(* A connection over which no one sends beats ends, even if commands to     *)
(* stop are dropped (heartbeat.go:52).                                      *)
DeadPeerDropped == (connected /\ answering = {}) ~> (~connected \/ answering # {})
===============================================================================
