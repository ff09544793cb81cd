--------------------------- MODULE SnapcastHandler ---------------------------
(***************************************************************************)
(* The snapcast handler (handlers/snapcast/snapcast.go): a JSON-RPC client  *)
(* of a server that plays a stream to a group.  Requests are made by the     *)
(* handler's goroutine; a notification of the server is a call back in a     *)
(* goroutine of the library, which waits until the handler takes it.         *)
(*                                                                           *)
(* The status is of one of two types: "simplified" as getServerStatus stores *)
(* it, "whole" as Server.OnUpdate and a GET do.  An assertion of the first   *)
(* panics on the second.                                                     *)
(***************************************************************************)
EXTENDS Integers, FiniteSets

CONSTANTS Streams,
          MaxNotes,   \* bound: notifications that wait
          MaxFaults   \* bound: times the server goes, and requests that fail

VARIABLES
    server,    \* the server is up
    stream,    \* what it plays
    client,    \* h.client: none, open or closed
    linked,    \* its connection works
    notes,     \* notifications waiting in callbacks
    kept,      \* the status
    panicked,
    astray,    \* history: a change was missed, or raced another
    faults

vars == <<server, stream, client, linked, notes, kept, panicked, astray, faults>>

None == [type |-> "none"]
Simplified(s) == [type |-> "simplified", stream |-> s]
Whole(s) == [type |-> "whole", stream |-> s]
Update(s) == [method |-> "Server.OnUpdate", stream |-> s]
StreamChanged(s) == [method |-> "Group.OnStreamChanged", stream |-> s]

TypeOK ==
    /\ server \in BOOLEAN /\ stream \in Streams
    /\ client \in {"none", "open", "closed"} /\ linked \in BOOLEAN
    /\ linked => server /\ client = "open"
    /\ notes \subseteq {Update(s) : s \in Streams} \cup {StreamChanged(s) : s \in Streams}
    /\ kept \in {None} \cup {Simplified(s) : s \in Streams} \cup {Whole(s) : s \in Streams}
    /\ panicked \in BOOLEAN /\ astray \in BOOLEAN /\ faults \in 0..MaxFaults

Init ==
    /\ server \in BOOLEAN /\ stream \in Streams
    /\ client = "none" /\ linked = FALSE /\ notes = {} /\ kept = None
    /\ panicked = FALSE /\ astray = FALSE /\ faults = 0

-------------------------------------------------------------------------------
(* The server, and other users of it. *)
Room == linked => Cardinality(notes) < MaxNotes

StreamChanges(s) ==
    /\ server /\ s # stream /\ Room
    /\ stream' = s
    /\ notes' = IF linked THEN notes \cup {StreamChanged(s)} ELSE notes
    /\ astray' = (astray \/ ~linked \/ notes # {})
    /\ UNCHANGED <<server, client, linked, kept, panicked, faults>>

Updates ==
    /\ linked /\ Room
    /\ notes' = notes \cup {Update(stream)}
    /\ UNCHANGED <<server, stream, client, linked, kept, panicked, astray, faults>>

Goes ==
    /\ server /\ faults < MaxFaults
    /\ server' = FALSE /\ linked' = FALSE /\ faults' = faults + 1
    /\ UNCHANGED <<stream, client, notes, kept, panicked, astray>>

Comes ==
    /\ ~server /\ server' = TRUE
    /\ UNCHANGED <<stream, client, linked, notes, kept, panicked, astray, faults>>

-------------------------------------------------------------------------------
Fails(ok) == IF ok THEN UNCHANGED faults ELSE faults < MaxFaults /\ faults' = faults + 1

(* getServerStatus: the first status is stored; of a later one nothing is   *)
(* used, since the current status is compared with itself.                  *)
GotServerStatus(k) == IF k = None THEN Simplified(stream) ELSE k

(* connect: a client is closed before a new one is made, if the server can  *)
(* be dialled; `ok' says if the request for its status is answered.         *)
Connect(ok) ==
    IF server
    THEN /\ client' = "open" /\ linked' = TRUE
         /\ kept' = IF ok THEN GotServerStatus(kept) ELSE kept
         /\ panicked' = (ok /\ kept.type = "whole")
    ELSE /\ client' = IF client = "none" THEN "none" ELSE "closed"
         /\ UNCHANGED <<linked, kept, panicked>>

(* Mutant: a client that was made once is not made again. *)
NeedsConnection(alive) == client = "none"

NotAlive(alive) == ~linked \/ ~alive

(* Every three seconds. *)
HandleTimerEvent(alive, ok) ==
    /\ Fails(alive /\ ok)
    /\ IF NotAlive(alive) THEN Connect(ok) ELSE UNCHANGED <<client, linked, kept, panicked>>
    /\ UNCHANGED <<server, stream, notes, astray>>

(* Mutant: the change is not stored. *)
UnchangedStream(s) == UNCHANGED <<kept, panicked>>

(* handleGroupStreamChanged *)
GroupStreamChanged(s) ==
    IF kept.type = "simplified" THEN kept' = Simplified(s) /\ UNCHANGED panicked
    ELSE panicked' = TRUE /\ UNCHANGED kept

HandleChannelEvent(n) ==
    /\ n \in notes /\ notes' = notes \ {n}
    /\ IF n.method = "Server.OnUpdate" THEN kept' = Whole(n.stream) /\ UNCHANGED panicked
       ELSE GroupStreamChanged(n.stream)
    /\ UNCHANGED <<server, stream, client, linked, astray, faults>>

(* A command about a client makes a connection if there is none; whether    *)
(* its request succeeds then is not looked at, and nothing here is changed. *)
ClientCommand(ok) ==
    /\ client = "none" /\ Fails(ok) /\ Connect(ok)
    /\ UNCHANGED <<server, stream, notes, astray>>

(* One about the group begins like that too, but an error of its request    *)
(* ends the handler, which Teardown leaves without a client.                *)
GroupCommandFails(ok) ==
    /\ client # "none" /\ (~linked \/ ~ok) /\ Fails(ok)
    /\ client' = "none" /\ linked' = FALSE
    /\ UNCHANGED <<server, stream, notes, kept, panicked, astray>>

SetStream(s) ==
    /\ linked
    /\ stream' = s
    /\ GroupStreamChanged(s)
    /\ astray' = (astray \/ notes # {})
    /\ UNCHANGED <<server, client, linked, notes, faults>>

GetStatus ==
    /\ linked
    /\ kept' = Whole(stream)
    /\ UNCHANGED <<server, stream, client, linked, notes, panicked, astray, faults>>

Next ==
    /\ ~panicked
    /\ \/ Updates \/ Goes \/ Comes \/ GetStatus
       \/ \E s \in Streams : StreamChanges(s) \/ SetStream(s)
       \/ \E alive, ok \in BOOLEAN : HandleTimerEvent(alive, ok)
       \/ \E n \in notes : HandleChannelEvent(n)
       \/ \E ok \in BOOLEAN : ClientCommand(ok) \/ GroupCommandFails(ok)

Spec == Init /\ [][Next]_vars
-------------------------------------------------------------------------------
(* Properties. *)

(* While the server is up the handler gets a connection to it again,        *)
(* whatever failed before (snapcast.go:117-157).                            *)
Reconnects == server ~> (linked \/ ~server \/ panicked)

(* The stream in the status is the one that plays, whoever changed it,      *)
(* unless it was changed while there was no connection, or twice at a time  *)
(* (snapcast.go:164-176, 241-254).                                          *)
StatusFollows ==
    kept.type = "simplified" /\ linked /\ notes = {} /\ ~astray => kept.stream = stream

===============================================================================
