-------------------------------- MODULE Badge --------------------------------
(***************************************************************************)
(* The badge handler (handlers/badge/badge.go) and its decoder              *)
(* (rfid/icm522.go): a goroutine seeks a mark in the bytes of a serial port *)
(* and reads the fields of a tag after it, each by one read that returns    *)
(* what has arrived.  Fields are shorter here: one byte and two.  A byte is *)
(* known by its tag and its place there, and those that are `Marked' have   *)
(* the value of the mark.                                                   *)
(***************************************************************************)
EXTENDS Integers, Sequences

CONSTANTS Tags,      \* tags presented, each once
          Marked     \* bytes of tags that equal the mark

VARIABLES
    plugged,    \* the serial port delivers
    serial,     \* bytes that have arrived
    later,      \* bytes of the same tag that have not
    field,      \* of the decoder: 0 seeking, 1, 2 the field to read, 3 done, 4 ended
    tag,        \* bytes it has read
    events,     \* channel of the handler
    status,     \* tags in the status
    presented, whole,   \* history: tags presented, and those in one piece
    misled      \* history: the decoder took a byte of a tag for the mark

vars == <<plugged, serial, later, field, tag, events, status, presented, whole, misled>>

(* The bytes a reader sends: a mark, and those of the tag. *)
Byte(t, i) == <<t, i>>
Content(t) == <<Byte(t, 1), Byte(t, 2), Byte(t, 3)>>
Record(t) == <<Byte(t, 0)>> \o Content(t)
IsMark(b) == b[2] = 0 \/ b \in Marked
FieldLength(f) == f
Bytes == Tags \X (0..3)

TypeOK ==
    /\ plugged \in BOOLEAN
    /\ serial \in Seq(Bytes) /\ later \in Seq(Bytes) /\ Len(later) <= 3
    /\ field \in 0..4 /\ tag \in Seq(Bytes) /\ Len(tag) <= 3
    /\ Len(events) <= 1
    /\ presented \subseteq Tags /\ whole \subseteq presented /\ misled \in BOOLEAN

Init ==
    /\ plugged = TRUE /\ serial = <<>> /\ later = <<>> /\ field = 0 /\ tag = <<>>
    /\ events = <<>> /\ status = {} /\ presented = {} /\ whole = {}
    /\ misled = FALSE

-------------------------------------------------------------------------------
(* The reader: the bytes of a tag arrive at once, or in two pieces.         *)
Presents(t, n) ==
    /\ plugged /\ t \notin presented /\ later = <<>>
    /\ presented' = presented \cup {t}
    /\ whole' = IF n = 4 THEN whole \cup {t} ELSE whole
    /\ serial' = serial \o SubSeq(Record(t), 1, n)
    /\ later' = SubSeq(Record(t), n + 1, 4)
    /\ UNCHANGED <<plugged, field, tag, events, status, misled>>

Arrives ==
    /\ plugged /\ later # <<>>
    /\ serial' = serial \o later /\ later' = <<>>
    /\ UNCHANGED <<plugged, field, tag, events, status, presented, whole, misled>>

Unplugged ==
    /\ plugged /\ plugged' = FALSE
    /\ UNCHANGED <<serial, later, field, tag, events, status, presented, whole, misled>>

-------------------------------------------------------------------------------
(* Decode: bytes are skipped up to a mark; ...                              *)
Seeks ==
    /\ plugged /\ field = 0 /\ serial # <<>>
    /\ field' = IF IsMark(Head(serial)) THEN 1 ELSE 0
    /\ misled' = (misled \/ Head(serial) \in Marked)
    /\ tag' = <<>> /\ serial' = Tail(serial)
    /\ UNCHANGED <<plugged, later, events, status, presented, whole>>

Least(m, n) == IF m < n THEN m ELSE n

(* Mutant: a field is what was read. *)
AfterAnyRead(n) == field + 1

(* Mutant: incomplete data ends the goroutine. *)
AfterReadOrNothing(n) == IF n = FieldLength(field) THEN field + 1 ELSE 4

(* ... a field that is not complete is an error, after which the goroutine  *)
(* decodes the next tag; ...                                                *)
AfterRead(n) == IF n = FieldLength(field) THEN field + 1 ELSE 0

ReadsField ==
    /\ plugged /\ field \in {1, 2} /\ serial # <<>>
    /\ LET n == Least(FieldLength(field), Len(serial)) IN
       /\ tag' = tag \o SubSeq(serial, 1, n)
       /\ serial' = SubSeq(serial, n + 1, Len(serial))
       /\ field' = AfterRead(n)
    /\ UNCHANGED <<plugged, later, events, status, presented, whole, misled>>

(* ... a complete tag goes to the handler, ...                              *)
SendsTag ==
    /\ field = 3 /\ events = <<>>
    /\ events' = <<tag>> /\ field' = 0
    /\ UNCHANGED <<plugged, serial, later, tag, status, presented, whole, misled>>

(* ... and the goroutine ends with the port.                                *)
Ends ==
    /\ ~plugged /\ field \in 0..2
    /\ field' = 4
    /\ UNCHANGED <<plugged, serial, later, tag, events, status, presented, whole, misled>>

(* The handler keeps the last time of each in its status, those it knows.   *)
HandleChannelEvent ==
    /\ events # <<>>
    /\ status' = status \cup {events[1]} /\ events' = <<>>
    /\ UNCHANGED <<plugged, serial, later, field, tag, presented, whole, misled>>

Works == Seeks \/ ReadsField \/ SendsTag \/ Ends \/ HandleChannelEvent

Next ==
    \/ Works \/ Arrives \/ Unplugged
    \/ \E t \in Tags, n \in 1..4 : Presents(t, n)

Spec == Init /\ [][Next]_vars
-------------------------------------------------------------------------------
(* Properties. *)

(* The status only has tags that were presented, and no tag is made of the  *)
(* pieces of others, wherever a read cuts the bytes of one. Moreover, a tag *)
(* whose bytes arrive together gets in it, whatever was cut before, as long *)
(* as the port delivers (icm522.go:38-50, badge.go:64-77).  Except after a  *)
(* byte of a tag was taken for the mark: that only happens behind a cut in  *)
(* a tag that has such a byte.                                              *)
HasMark(t) == \E i \in 1..3 : Byte(t, i) \in Marked
WholeTagsShown ==
    /\ [](misled \/ \A s \in status : \E t \in presented : s = Content(t))
    /\ [](misled => \E t \in presented \ whole : HasMark(t))
    /\ \A t \in Tags : (t \in whole) ~> (Content(t) \in status \/ ~plugged \/ misled)
===============================================================================
