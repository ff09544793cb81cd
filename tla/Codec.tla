--------------------------------- MODULE Codec ---------------------------------
(***************************************************************************)
(* Messages in the bytes of a connection (messaging.go): Bytes prefixes a   *)
(* message with its length, ParseMessage reads what the length says, field  *)
(* by field, as bytes arrive.  A uuid and the length are one cell here, the *)
(* data of a command some cells; other programs may send none.              *)
(***************************************************************************)
EXTENDS Naturals, Sequences

CONSTANTS Ids,
          MaxData,      \* bound: cells of a command
          MaxMessages   \* bound: messages written

VARIABLES
    sent,      \* history: messages written, the last one maybe in part
    cells,     \* what was written and not read
    partial,   \* cells of the last message still to be written
    closed,    \* nothing more is written
    length,    \* of the message being read, 0 if it is still to be read
    message,   \* as far as it was read
    parsed,    \* messages returned
    ended      \* ParseMessage returned an error, which ends the connection

vars == <<sent, cells, partial, closed, length, message, parsed, ended>>

Header == 2       \* 16*2 bytes
Data == UNION {[1..n -> {[data |-> 0]}] : n \in 0..MaxData}
Messages == [sender : Ids, receiver : Ids, data : Data]
Length(n) == [length |-> n]

TypeOK ==
    /\ sent \in Seq(Messages) /\ Len(sent) <= MaxMessages
    /\ closed \in BOOLEAN /\ ended \in BOOLEAN
    /\ length \in 0..Header + MaxData
    /\ Len(message) <= length /\ Len(parsed) <= MaxMessages

Init ==
    /\ sent = <<>> /\ cells = <<>> /\ partial = <<>> /\ closed = FALSE
    /\ length = 0 /\ message = <<>> /\ parsed = <<>> /\ ended = FALSE

-------------------------------------------------------------------------------
Fields(m) == <<[id |-> m.sender], [id |-> m.receiver]>> \o m.data

Bytes(m) == <<Length(Len(Fields(m)))>> \o Fields(m)

Write(m) ==
    /\ ~closed /\ partial = <<>> /\ Len(sent) < MaxMessages
    /\ sent' = Append(sent, m)
    /\ partial' = Bytes(m)
    /\ UNCHANGED <<cells, closed, length, message, parsed, ended>>

(* The network carries some of it; ... *)
Carries(n) ==
    /\ ~closed /\ n \in 1..Len(partial)
    /\ cells' = cells \o SubSeq(partial, 1, n)
    /\ partial' = SubSeq(partial, n + 1, Len(partial))
    /\ UNCHANGED <<sent, closed, length, message, parsed, ended>>

(* ... the connection may end anywhere. *)
Closes ==
    /\ ~closed /\ closed' = TRUE
    /\ UNCHANGED <<sent, cells, partial, length, message, parsed, ended>>

-------------------------------------------------------------------------------
(* ParseMessage: a length, ...                                              *)
LengthOf(cell) == IF "length" \in DOMAIN cell THEN cell.length ELSE 0

(* Mutant: a message without data is too short. *)
TooShortWithoutData(n) == n <= Header

TooShort(n) == n < Header

ReadsLength ==
    /\ ~ended /\ length = 0 /\ cells # <<>>
    /\ LET n == LengthOf(Head(cells)) IN
       /\ ended' = TooShort(n)
       /\ length' = IF TooShort(n) THEN 0 ELSE n
    /\ cells' = Tail(cells)
    /\ UNCHANGED <<sent, partial, closed, message, parsed>>

(* ... the fields, waiting for each, ... *)
ReadsField ==
    /\ ~ended /\ length # 0 /\ cells # <<>>
    /\ LET m == Append(message, Head(cells)) IN
       IF Len(m) = length
       THEN parsed' = Append(parsed, m) /\ length' = 0 /\ message' = <<>>
       ELSE message' = m /\ UNCHANGED <<parsed, length>>
    /\ cells' = Tail(cells)
    /\ UNCHANGED <<sent, partial, closed, ended>>

(* ... or an error at the end of the connection.                            *)
ReadsEnd ==
    /\ ~ended /\ closed /\ cells = <<>>
    /\ ended' = TRUE
    /\ UNCHANGED <<sent, cells, partial, closed, length, message, parsed>>

Reads == ReadsLength \/ ReadsField \/ ReadsEnd

Next ==
    \/ Reads \/ Closes
    \/ (\E m \in Messages : Write(m))
    \/ \E n \in 1..Header + MaxData + 1 : Carries(n)

Spec == Init /\ [][Next]_vars
-------------------------------------------------------------------------------
(* Properties. *)

(* What is returned are the messages, as they were written and in their     *)
(* order, and never the fragment of one.                                    *)
AsWritten == \A k \in 1..Len(parsed) : k <= Len(sent) /\ parsed[k] = Fields(sent[k])

(* Every message that was written in full is returned, as it was written,   *)
(* one without data too, wherever the network cuts the bytes and also when  *)
(* the connection ends after it (messaging.go:31-68).                       *)
EachMessageParsed ==
    /\ []AsWritten
    /\ \A k \in 1..MaxMessages :
        (Len(sent) > k \/ (Len(sent) = k /\ partial = <<>>)) ~> Len(parsed) >= k
===============================================================================
