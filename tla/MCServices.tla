------------------------------ MODULE MCServices ------------------------------
(***************************************************************************)
(* The smaller handlers and the codec of messages for TLC.  They share      *)
(* nothing, so each behaviour is one of one of them, and the others stand   *)
(* still.                                                                   *)
(***************************************************************************)
EXTENDS Naturals, Sequences, TLC

CONSTANTS BufferSize, Peers, Nobody, MaxErrors,
          Texts, Words, AllowedUsers, NotificationsCap,
          Tags, Marked, Streams, MaxNotes, MaxFaults,
          Ids, MaxData, MaxMessages

ASSUME ServicesAssumption ==
    /\ MaxFaults \in Nat /\ MaxData \in Nat /\ MaxMessages \in Nat
    /\ Words \in Nat \ {0} /\ AllowedUsers \in Nat /\ NotificationsCap \in Nat
    /\ Marked \subseteq Tags \X (1..3)

VARIABLES
    part,
    connected, answering, errors, remoteID, beats, outgoing,
    phase, bot, told, received, waiting, replying, reach, notifications, published, failures,
    plugged, serial, later, field, tag, events, status, presented, whole, misled,
    server, stream, client, linked, notes, kept, panicked, astray, faults,
    sent, cells, partial, closed, length, message, parsed, ended,
    step, connection, command, activeState, asked, unit, job, excused

heartbeatVars == <<connected, answering, errors, remoteID, beats, outgoing>>
telegramVars == <<phase, bot, told, received, waiting, replying, reach, notifications, published, failures>>
badgeVars == <<plugged, serial, later, field, tag, events, status, presented, whole, misled>>
snapcastVars == <<server, stream, client, linked, notes, kept, panicked, astray, faults>>
codecVars == <<sent, cells, partial, closed, length, message, parsed, ended>>
systemdVars == <<step, connection, command, activeState, asked, unit, job, excused>>
vars == <<part, heartbeatVars, telegramVars, badgeVars, snapcastVars, codecVars, systemdVars>>

Heartbeat == INSTANCE Heartbeat
Telegram == INSTANCE Telegram
Badge == INSTANCE Badge
Snapcast == INSTANCE SnapcastHandler
Codec == INSTANCE Codec
Systemd == INSTANCE Systemd

(* One tag has the value of the mark in its first and its last byte.        *)
SomeMarked == LET t == CHOOSE t \in Tags : TRUE IN {<<t, 1>>, <<t, 3>>}

Init ==
    /\ part \in {"heartbeat", "telegram", "badge", "snapcast", "codec", "systemd"}
    /\ Heartbeat!Init /\ Telegram!Init /\ Badge!Init /\ Snapcast!Init /\ Codec!Init
    /\ Systemd!Init
    /\ part # "snapcast" => ~server /\ stream = CHOOSE s \in Streams : TRUE
    /\ part # "systemd" => unit = "inactive"

Of(p, A) == part = p /\ A /\ UNCHANGED part
OfHeartbeat(A) ==
    Of("heartbeat", A) /\ UNCHANGED <<telegramVars, badgeVars, snapcastVars, codecVars, systemdVars>>
OfTelegram(A) ==
    Of("telegram", A) /\ UNCHANGED <<heartbeatVars, badgeVars, snapcastVars, codecVars, systemdVars>>
OfBadge(A) ==
    Of("badge", A) /\ UNCHANGED <<heartbeatVars, telegramVars, snapcastVars, codecVars, systemdVars>>
OfSnapcast(A) ==
    Of("snapcast", A) /\ UNCHANGED <<heartbeatVars, telegramVars, badgeVars, codecVars, systemdVars>>
OfCodec(A) ==
    Of("codec", A) /\ UNCHANGED <<heartbeatVars, telegramVars, badgeVars, snapcastVars, systemdVars>>
OfSystemd(A) ==
    Of("systemd", A) /\ UNCHANGED <<heartbeatVars, telegramVars, badgeVars, snapcastVars, codecVars>>

TypeOK == Heartbeat!TypeOK /\ Telegram!TypeOK /\ Badge!TypeOK /\ Snapcast!TypeOK
          /\ Codec!TypeOK /\ Systemd!TypeOK

(* Types and bounds are asserted of every step. *)
Next ==
    /\ \/ OfHeartbeat(Heartbeat!Next) \/ OfTelegram(Telegram!Next) \/ OfBadge(Badge!Next)
       \/ OfSnapcast(Snapcast!Next) \/ OfCodec(Codec!Next) \/ OfSystemd(Systemd!Next)
    /\ Assert(TypeOK', "a type or a bound")

Spec == Init /\ [][Next]_vars

(* Tickers fire, goroutines go on, bytes that arrived are read.  No device  *)
(* has to send, no request has to succeed for the first time; now and then   *)
(* a tick of the heartbeat finds a free channel.                            *)
FairSpec ==
    /\ Spec
    /\ SF_vars(OfHeartbeat(Heartbeat!HandleTimerEvent(0))) /\ WF_vars(OfHeartbeat(Heartbeat!HandleMessage))
    /\ WF_vars(OfHeartbeat(Heartbeat!Sends))
    /\ WF_vars(OfTelegram(Telegram!Start(TRUE))) /\ WF_vars(OfTelegram(Telegram!SendMessage(TRUE)))
    /\ SF_vars(OfTelegram(Telegram!HandleChannelEvent))
    /\ \A t \in Texts : SF_vars(OfTelegram(Telegram!ExecAction(t))) /\ WF_vars(OfTelegram(Telegram!Answers(t)))
    /\ WF_vars(OfBadge(Badge!Works))
    /\ WF_vars(OfSnapcast(Snapcast!HandleTimerEvent(TRUE, TRUE)))
    /\ WF_vars(OfCodec(Codec!Reads)) /\ WF_vars(OfCodec(\E n \in 1..MaxData + 3 : Codec!Carries(n)))
    /\ WF_vars(OfSystemd(Systemd!Answers)) /\ WF_vars(OfSystemd(Systemd!JobRuns))

(* A connection without beats ends. *)
DeadPeerDropped == Heartbeat!DeadPeerDropped

(* Every device that a text names gets its command. *)
EveryWordIsPublished == Telegram!EveryWordIsPublished

(* The status has the tags that arrive whole, and no other. *)
WholeTagsShown == Badge!WholeTagsShown

(* The snapcast handler connects again. *)
Reconnects == Snapcast!Reconnects

(* The stream in the status is the one that plays. *)
StatusFollows == Snapcast!StatusFollows

(* Every message is parsed, as it was written. *)
EachMessageParsed == Codec!EachMessageParsed

(* The last request to start or to stop a service wins. *)
LastRequestWins == Systemd!LastRequestWins
===============================================================================
