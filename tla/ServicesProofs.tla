----------------------------- MODULE ServicesProofs -----------------------------
(***************************************************************************)
(* Proofs about the smaller handlers and the codec: the stream that         *)
(* snapcast's status shows, the tags that badge's shows, the messages that  *)
(* come out of a connection, however its bytes are cut, the job of the last *)
(* request to systemd, and the commands of a text to the telegram bot.      *)
(***************************************************************************)
EXTENDS MCServices, SequenceTheorems, TLAPS

(* As long as nothing went astray, a notification is about the stream that  *)
(* plays, and the status shows it or is yet to be notified.                 *)
NotesAreCurrent == ~astray => \A s \in Streams : Snapcast!StreamChanged(s) \in notes => s = stream
ShownOrNotified ==
    ~astray /\ kept.type = "simplified"
        => kept.stream = stream \/ Snapcast!StreamChanged(stream) \in notes
SnapcastInv == Snapcast!TypeOK /\ NotesAreCurrent /\ ShownOrNotified

(* What was written and not yet read, with what is written later.           *)
Rest == cells \o partial

(* The messages ms lie in the cells of a connection one after the other:    *)
(* from[k] cells come before message k + 1; `read' cells were read, and q   *)
(* are those after them.                                                    *)
Lies(q, ms, from, read) ==
    /\ from \in [0..Len(ms) -> Nat] /\ read \in Nat
    /\ from[0] = 0 /\ from[Len(ms)] = read + Len(q)
    /\ \A k \in 1..Len(ms) :
          /\ from[k] = from[k - 1] + 1 + Len(Codec!Fields(ms[k]))
          /\ from[k] <= from[Len(ms)]
          /\ \A j \in 1..1 + Len(Codec!Fields(ms[k])) :
                from[k - 1] + j > read => q[from[k - 1] + j - read] = Codec!Bytes(ms[k])[j]

(* How far the message is read that comes after those returned.             *)
Aligned(from, read) ==
    IF length = 0 THEN message = <<>> /\ read = from[Len(parsed)]
    ELSE /\ Len(parsed) < Len(sent)
         /\ LET f == Codec!Fields(sent[Len(parsed) + 1]) IN
            /\ length = Len(f) /\ Len(message) < Len(f)
            /\ message = SubSeq(f, 1, Len(message))
            /\ read = from[Len(parsed)] + 1 + Len(message)

Cells == {[id |-> i] : i \in Ids} \cup {[data |-> 0]} \cup {[length |-> n] : n \in Nat}
CodecTyped ==
    /\ sent \in Seq(Codec!Messages) /\ Len(sent) <= MaxMessages
    /\ closed \in BOOLEAN /\ ended \in BOOLEAN
    /\ cells \in Seq(Cells) /\ partial \in Seq(Cells) /\ message \in Seq(Cells)
    /\ parsed \in Seq(Seq(Cells)) /\ Len(parsed) <= Len(sent)
CodecInv ==
    /\ CodecTyped /\ Codec!AsWritten
    /\ \E from, read : Lies(Rest, sent, from, read) /\ Aligned(from, read)

(* A mark is followed by the bytes of a tag, which the decoder reads, until *)
(* it takes another byte for a mark.                                        *)
Follows(q, t, i) ==
    i + 3 <= Len(q) /\ \A j \in 1..3 : q[i + j] = Badge!Byte(t, j)
MarksIn(q, p) ==
    \A i \in 1..Len(q), t \in Tags : q[i] = Badge!Byte(t, 0) => t \in p /\ Follows(q, t, i)
Arriving == serial \o later
MarksFollowed == MarksIn(Arriving, presented)
TagLength == (field = 1 => tag = <<>>) /\ (field = 2 => Len(tag) = 1)
TagReadInOrder ==
    \/ misled
    \/ /\ field = 1 => tag = <<>> /\ \E t \in presented : Follows(Arriving, t, 0)
       /\ field = 2 => \E t \in presented :
                          /\ tag = <<Badge!Byte(t, 1)>> /\ 2 <= Len(Arriving)
                          /\ Arriving[1] = Badge!Byte(t, 2) /\ Arriving[2] = Badge!Byte(t, 3)
       /\ field = 3 => \E t \in presented : tag = Badge!Content(t)
EventsInOrder == misled \/ events = <<>> \/ \E t \in presented : events = <<Badge!Content(t)>>
OnlyPresented == misled \/ \A s \in status : \E t \in presented : s = Badge!Content(t)
BadgeInv ==
    /\ Badge!TypeOK /\ MarksFollowed /\ TagLength /\ TagReadInOrder /\ EventsInOrder /\ OnlyPresented

(* The bytes of a whole tag lie behind its mark, which the decoder takes    *)
(* first; a byte of a tag that it takes for a mark is one of a tag in       *)
(* pieces.                                                                  *)
Led(q, i, t, j, f) ==
    \/ i > j /\ q[i - j] = Badge!Byte(t, 0)
    \/ f = 1 /\ i = j
    \/ f = 2 /\ i + 1 = j
AllLed(q, f, w) ==
    \A i \in 1..Len(q), t \in w, j \in 1..3 : q[i] = Badge!Byte(t, j) => Led(q, i, t, j, f)
BytesPresented(q, p) == \A i \in 1..Len(q), t \in Tags, j \in 0..3 : q[i] = Badge!Byte(t, j) => t \in p
NoneOf(q, w) == \A i \in 1..Len(q), t \in w, j \in 0..3 : q[i] # Badge!Byte(t, j)
MisledInPieces == misled => \E t \in presented \ whole : Badge!HasMark(t)
LedInv ==
    /\ BytesPresented(Arriving, presented) /\ NoneOf(later, whole)
    /\ misled \/ field = 4 \/ AllLed(Arriving, field, whole)
    /\ MisledInPieces

(* While a request is executed, what it reads and calls leads to what it    *)
(* asks for, if nothing goes astray; before and after, so did the last one. *)
RequestsStand ==
    /\ step \in {"setup", "idle", "ended"} => command = "GET"
    /\ asked # "GET" /\ command = "GET" /\ ~excused => Systemd!Underway(asked)
    /\ step = "read" /\ command # "GET" /\ ~excused /\ Systemd!JobFor(command, activeState) = "none"
          => Systemd!Underway(command)
    /\ step = "called" /\ command # "GET" /\ ~excused => Systemd!Underway(command)
SystemdInv == Systemd!TypeOK /\ RequestsStand

(* The words of a text come one after the other in the channel too, and     *)
(* after those that are published; the one that waits comes next.           *)
Before(v, w) == v.text = w.text => v.word < w.word
WordsInOrder ==
    /\ \A k, l \in 1..Len(notifications) : k < l => Before(notifications[k], notifications[l])
    /\ \A k \in 1..Len(published), l \in 1..Len(notifications) : Before(published[k], notifications[l])
Told(w, r, next) == w.text \in r /\ (next[w.text] # 0 => w.word < next[w.text])
WordsAreTold ==
    /\ \A k \in 1..Len(notifications) : Told(notifications[k], received, waiting)
    /\ \A k \in 1..Len(published) : Told(published[k], received, waiting)
    /\ \A t \in Texts : waiting[t] # 0 => t \in received
(* Only a goroutine that is through can have been cut short.                *)
CutAtTheEnd ==
    /\ replying \subseteq received
    /\ \A t \in Texts : reach[t] # Words => t \in received \ replying /\ waiting[t] = 0
TelegramInv ==
    /\ Telegram!TypeOK /\ published \in Seq([text : Texts, word : 1..Words])
    /\ Telegram!PublishedInOrder /\ Telegram!NoneIsLost /\ WordsInOrder /\ WordsAreTold
    /\ CutAtTheEnd

-------------------------------------------------------------------------------
(* The snapcast handler.                                                    *)

LEMMA SnapcastTypes ==
    /\ MaxFaults \in Nat
    /\ \A s : /\ Snapcast!Simplified(s).type = "simplified" /\ Snapcast!Simplified(s).stream = s
              /\ Snapcast!Whole(s).type = "whole" /\ Snapcast!StreamChanged(s).method = "Group.OnStreamChanged"
              /\ Snapcast!StreamChanged(s).stream = s
              /\ Snapcast!Update(s).method = "Server.OnUpdate"
    /\ Snapcast!None.type = "none"
    /\ \A s, s2 : Snapcast!StreamChanged(s) = Snapcast!StreamChanged(s2) => s = s2
    /\ \A s, s2 : Snapcast!StreamChanged(s) # Snapcast!Update(s2)
  BY ServicesAssumption DEF Snapcast!Simplified, Snapcast!Whole, Snapcast!None, Snapcast!Update,
                            Snapcast!StreamChanged

(* Making a connection, or not, keeps the status or stores the stream.      *)
LEMMA Connected ==
    ASSUME Snapcast!TypeOK, NEW ok \in BOOLEAN, Snapcast!Connect(ok)
    PROVE  /\ client' \in {"none", "open", "closed"} /\ linked' \in BOOLEAN
           /\ linked' => server /\ client' = "open"
           /\ panicked' \in BOOLEAN
           /\ kept' = kept \/ kept' = Snapcast!Simplified(stream)
<1>1. CASE server
  BY <1>1 DEF Snapcast!Connect, Snapcast!GotServerStatus, Snapcast!TypeOK
<1>2. CASE ~server
  BY <1>2 DEF Snapcast!Connect, Snapcast!TypeOK
<1>. QED BY <1>1, <1>2

LEMMA Failed ==
    ASSUME Snapcast!TypeOK, NEW ok \in BOOLEAN, Snapcast!Fails(ok)
    PROVE  faults' \in 0..MaxFaults
  BY SnapcastTypes DEF Snapcast!Fails, Snapcast!TypeOK

LEMMA SnapcastNext == SnapcastInv /\ [Snapcast!Next]_Snapcast!vars => SnapcastInv'
<1>. SUFFICES ASSUME SnapcastInv, [Snapcast!Next]_Snapcast!vars PROVE SnapcastInv'
  OBVIOUS
<1>. USE SnapcastTypes
<1>0. Snapcast!TypeOK /\ NotesAreCurrent /\ ShownOrNotified
  BY DEF SnapcastInv
<1>t. /\ server \in BOOLEAN /\ stream \in Streams /\ astray \in BOOLEAN /\ panicked \in BOOLEAN
      /\ client \in {"none", "open", "closed"} /\ linked \in BOOLEAN
      /\ linked => server /\ client = "open"
      /\ notes \subseteq {Snapcast!Update(s) : s \in Streams} \cup {Snapcast!StreamChanged(s) : s \in Streams}
      /\ kept \in {Snapcast!None} \cup {Snapcast!Simplified(s) : s \in Streams}
                    \cup {Snapcast!Whole(s) : s \in Streams}
      /\ faults \in 0..MaxFaults
  BY <1>0 DEF Snapcast!TypeOK
<1>1. CASE UNCHANGED Snapcast!vars
  BY <1>1 DEF SnapcastInv, NotesAreCurrent, ShownOrNotified, Snapcast!TypeOK, Snapcast!vars
<1>2. ASSUME NEW s \in Streams, Snapcast!StreamChanges(s) PROVE SnapcastInv'
  <2>1. /\ server /\ stream' = s
        /\ notes' = IF linked THEN notes \cup {Snapcast!StreamChanged(s)} ELSE notes
        /\ astray' = (astray \/ ~linked \/ notes # {})
        /\ UNCHANGED <<server, client, linked, kept, panicked, faults>>
    BY <1>2 DEF Snapcast!StreamChanges
  <2>2. Snapcast!TypeOK'
    <3>1. notes' \subseteq {Snapcast!Update(x) : x \in Streams} \cup {Snapcast!StreamChanged(x) : x \in Streams}
      BY <1>t, <2>1
    <3>2. astray' \in BOOLEAN
      BY <1>t, <2>1
    <3>. QED BY <1>t, <2>1, <3>1, <3>2 DEF Snapcast!TypeOK
  <2>3. ~astray' => ~astray /\ linked /\ notes = {} /\ notes' = {Snapcast!StreamChanged(s)}
    BY <1>t, <2>1
  <2>. QED BY <2>1, <2>2, <2>3 DEF SnapcastInv, NotesAreCurrent, ShownOrNotified
<1>3. CASE Snapcast!Updates
  <2>1. /\ notes' = notes \cup {Snapcast!Update(stream)}
        /\ UNCHANGED <<server, stream, client, linked, kept, panicked, astray, faults>>
    BY <1>3 DEF Snapcast!Updates
  <2>2. Snapcast!TypeOK'
    BY <1>t, <2>1 DEF Snapcast!TypeOK
  <2>. QED BY <1>0, <2>1, <2>2 DEF SnapcastInv, NotesAreCurrent, ShownOrNotified
<1>4. CASE Snapcast!Goes \/ Snapcast!Comes
  <2>1. UNCHANGED <<stream, client, notes, kept, panicked, astray>>
    BY <1>4 DEF Snapcast!Goes, Snapcast!Comes
  <2>2. \/ server' = FALSE /\ linked' = FALSE /\ faults' \in 0..MaxFaults
        \/ server' = TRUE /\ linked' = linked /\ faults' = faults
    BY <1>t, <1>4 DEF Snapcast!Goes, Snapcast!Comes
  <2>3. Snapcast!TypeOK'
    <3>1. CASE server' = FALSE /\ linked' = FALSE /\ faults' \in 0..MaxFaults
      BY <1>t, <2>1, <3>1 DEF Snapcast!TypeOK
    <3>2. CASE server' = TRUE /\ linked' = linked /\ faults' = faults
      BY <1>t, <2>1, <3>2 DEF Snapcast!TypeOK
    <3>. QED BY <2>2, <3>1, <3>2
  <2>. QED BY <1>0, <2>1, <2>3 DEF SnapcastInv, NotesAreCurrent, ShownOrNotified
<1>5. ASSUME NEW alive \in BOOLEAN, NEW ok \in BOOLEAN, Snapcast!HandleTimerEvent(alive, ok)
      PROVE  SnapcastInv'
  <2>1. /\ Snapcast!Fails(alive /\ ok)
        /\ Snapcast!Connect(ok) \/ UNCHANGED <<client, linked, kept, panicked>>
        /\ UNCHANGED <<server, stream, notes, astray>>
    BY <1>5 DEF Snapcast!HandleTimerEvent
  <2>2. faults' \in 0..MaxFaults
    BY <1>0, <2>1, Failed
  <2>3. /\ client' \in {"none", "open", "closed"} /\ linked' \in BOOLEAN
        /\ linked' => server /\ client' = "open"
        /\ panicked' \in BOOLEAN
        /\ kept' = kept \/ kept' = Snapcast!Simplified(stream)
    BY <1>0, <1>t, <2>1, Connected
  <2>4. Snapcast!TypeOK'
    BY <1>t, <2>1, <2>2, <2>3 DEF Snapcast!TypeOK
  <2>. QED BY <1>0, <2>1, <2>3, <2>4 DEF SnapcastInv, NotesAreCurrent, ShownOrNotified
<1>6. ASSUME NEW n \in notes, Snapcast!HandleChannelEvent(n) PROVE SnapcastInv'
  <2>1. /\ notes' = notes \ {n}
        /\ IF n.method = "Server.OnUpdate" THEN kept' = Snapcast!Whole(n.stream) /\ UNCHANGED panicked
           ELSE Snapcast!GroupStreamChanged(n.stream)
        /\ UNCHANGED <<server, stream, client, linked, astray, faults>>
    BY <1>6 DEF Snapcast!HandleChannelEvent
  <2>2. CASE \E s \in Streams : n = Snapcast!Update(s)
    <3>1. PICK s \in Streams : n = Snapcast!Update(s)
      BY <2>2
    <3>2. n.method = "Server.OnUpdate" /\ n.stream = s
      BY <3>1 DEF Snapcast!Update
    <3>3. kept' = Snapcast!Whole(s) /\ panicked' = panicked
      BY <2>1, <3>2
    <3>4. Snapcast!TypeOK'
      BY <1>t, <2>1, <3>3 DEF Snapcast!TypeOK
    <3>. QED BY <1>0, <2>1, <3>3, <3>4 DEF SnapcastInv, NotesAreCurrent, ShownOrNotified
  <2>3. CASE \E s \in Streams : n = Snapcast!StreamChanged(s)
    <3>1. PICK s \in Streams : n = Snapcast!StreamChanged(s)
      BY <2>3
    <3>2. n.method # "Server.OnUpdate" /\ n.stream = s
      BY <3>1
    <3>3. \/ kept' = Snapcast!Simplified(s) /\ panicked' = panicked
          \/ kept' = kept /\ kept.type # "simplified" /\ panicked' = TRUE
      BY <2>1, <3>2 DEF Snapcast!GroupStreamChanged
    <3>4. Snapcast!TypeOK'
      BY <1>t, <2>1, <3>3 DEF Snapcast!TypeOK
    <3>5. ~astray => s = stream
      BY <1>0, <3>1 DEF NotesAreCurrent
    <3>6. NotesAreCurrent'
      BY <1>0, <2>1 DEF NotesAreCurrent
    <3>7. ShownOrNotified'
      BY <2>1, <3>3, <3>5 DEF ShownOrNotified
    <3>. QED BY <3>4, <3>6, <3>7 DEF SnapcastInv
  <2>. QED BY <1>t, <2>2, <2>3
<1>7. ASSUME NEW ok \in BOOLEAN, Snapcast!ClientCommand(ok) PROVE SnapcastInv'
  <2>1. /\ Snapcast!Fails(ok) /\ Snapcast!Connect(ok)
        /\ UNCHANGED <<server, stream, notes, astray>>
    BY <1>7 DEF Snapcast!ClientCommand
  <2>2. faults' \in 0..MaxFaults
    BY <1>0, <2>1, Failed
  <2>3. /\ client' \in {"none", "open", "closed"} /\ linked' \in BOOLEAN
        /\ linked' => server /\ client' = "open"
        /\ panicked' \in BOOLEAN
        /\ kept' = kept \/ kept' = Snapcast!Simplified(stream)
    BY <1>0, <2>1, Connected
  <2>4. Snapcast!TypeOK'
    BY <1>t, <2>1, <2>2, <2>3 DEF Snapcast!TypeOK
  <2>. QED BY <1>0, <2>1, <2>3, <2>4 DEF SnapcastInv, NotesAreCurrent, ShownOrNotified
<1>8. ASSUME NEW ok \in BOOLEAN, Snapcast!GroupCommandFails(ok) PROVE SnapcastInv'
  <2>1. /\ Snapcast!Fails(ok) /\ client' = "none" /\ linked' = FALSE
        /\ UNCHANGED <<server, stream, notes, kept, panicked, astray>>
    BY <1>8 DEF Snapcast!GroupCommandFails
  <2>2. faults' \in 0..MaxFaults
    BY <1>0, <2>1, Failed
  <2>3. Snapcast!TypeOK'
    BY <1>t, <2>1, <2>2 DEF Snapcast!TypeOK
  <2>. QED BY <1>0, <2>1, <2>3 DEF SnapcastInv, NotesAreCurrent, ShownOrNotified
<1>9. ASSUME NEW s \in Streams, Snapcast!SetStream(s) PROVE SnapcastInv'
  <2>1. /\ stream' = s /\ Snapcast!GroupStreamChanged(s)
        /\ astray' = (astray \/ notes # {})
        /\ UNCHANGED <<server, client, linked, notes, faults>>
    BY <1>9 DEF Snapcast!SetStream
  <2>2. \/ kept' = Snapcast!Simplified(s) /\ panicked' = panicked
        \/ kept' = kept /\ kept.type # "simplified" /\ panicked' = TRUE
    BY <2>1 DEF Snapcast!GroupStreamChanged
  <2>3. Snapcast!TypeOK'
    BY <1>t, <2>1, <2>2 DEF Snapcast!TypeOK
  <2>4. ~astray' => notes' = {}
    BY <1>t, <2>1
  <2>. QED BY <2>1, <2>2, <2>3, <2>4 DEF SnapcastInv, NotesAreCurrent, ShownOrNotified
<1>10. CASE Snapcast!GetStatus
  <2>1. /\ kept' = Snapcast!Whole(stream)
        /\ UNCHANGED <<server, stream, client, linked, notes, panicked, astray, faults>>
    BY <1>10 DEF Snapcast!GetStatus
  <2>2. Snapcast!TypeOK'
    BY <1>t, <2>1 DEF Snapcast!TypeOK
  <2>. QED BY <1>0, <2>1, <2>2 DEF SnapcastInv, NotesAreCurrent, ShownOrNotified
<1>. QED BY <1>1, <1>2, <1>3, <1>4, <1>5, <1>6, <1>7, <1>8, <1>9, <1>10 DEF Snapcast!Next

LEMMA SnapcastStarts == Snapcast!Init => SnapcastInv
<1>. SUFFICES ASSUME Snapcast!Init PROVE SnapcastInv
  OBVIOUS
<1>1. /\ server \in BOOLEAN /\ stream \in Streams /\ client = "none" /\ linked = FALSE /\ notes = {}
      /\ kept = Snapcast!None /\ panicked = FALSE /\ astray = FALSE /\ faults \in 0..MaxFaults
  BY SnapcastTypes DEF Snapcast!Init
<1>2. Snapcast!TypeOK
  BY <1>1 DEF Snapcast!TypeOK
<1>. QED BY <1>1, <1>2, SnapcastTypes DEF SnapcastInv, NotesAreCurrent, ShownOrNotified

LEMMA StreamShownAlone == Snapcast!Spec => []StatusFollows
<1>1. SnapcastInv => StatusFollows
  BY DEF SnapcastInv, ShownOrNotified, StatusFollows, Snapcast!StatusFollows
<1>. QED BY <1>1, SnapcastStarts, SnapcastNext, PTL DEF Snapcast!Spec

(* The types and the bounds of the snapcast handler.                        *)
THEOREM SnapcastTypeCorrect == Snapcast!Spec => []Snapcast!TypeOK
<1>1. SnapcastInv => Snapcast!TypeOK
  BY DEF SnapcastInv
<1>. QED BY <1>1, SnapcastStarts, SnapcastNext, PTL DEF Snapcast!Spec

-------------------------------------------------------------------------------
(* Sequences that are cut and put together.                                 *)

LEMMA Joined ==
    ASSUME NEW S, NEW s \in Seq(S), NEW t \in Seq(S)
    PROVE  /\ s \o t \in Seq(S) /\ Len(s \o t) = Len(s) + Len(t)
           /\ \A i \in 1..Len(s) : (s \o t)[i] = s[i]
           /\ \A i \in 1..Len(t) : (s \o t)[Len(s) + i] = t[i]
<1>1. Len(s) \in Nat /\ Len(t) \in Nat
  OBVIOUS
<1>2. s \o t \in Seq(S) /\ Len(s \o t) = Len(s) + Len(t)
  BY ConcatProperties
<1>3. \A i \in 1..Len(s) + Len(t) : (s \o t)[i] = IF i <= Len(s) THEN s[i] ELSE t[i - Len(s)]
  BY ConcatProperties
<1>. QED BY <1>1, <1>2, <1>3

Rejoins(p, b, s, t) == p \o b = s \o t

LEMMA Carried ==
    ASSUME NEW S, NEW s \in Seq(S), NEW t \in Seq(S), NEW n \in 1..Len(t),
           NEW p, p = s \o SubSeq(t, 1, n)
    PROVE  /\ p \in Seq(S) /\ SubSeq(t, n + 1, Len(t)) \in Seq(S)
           /\ Len(SubSeq(t, n + 1, Len(t))) = Len(t) - n
           /\ Rejoins(p, SubSeq(t, n + 1, Len(t)), s, t)
<1>. DEFINE a == SubSeq(t, 1, n)
            b == SubSeq(t, n + 1, Len(t))
<1>1. /\ a \in Seq(S) /\ Len(a) = n /\ \A i \in 1..n : a[i] = t[i]
      /\ b \in Seq(S) /\ Len(b) = Len(t) - n /\ \A i \in 1..Len(t) - n : b[i] = t[n + i]
  OBVIOUS
<1>. HIDE DEF a, b
<1>2. a \o b = t
  BY ConcatAdjacentSubSeq, SubSeqFull DEF a, b
<1>3. (s \o a) \o b = s \o (a \o b)
  <2>1. /\ s \o a \in Seq(S) /\ Len(s \o a) = Len(s) + n
        /\ a \o b \in Seq(S) /\ Len(a \o b) = Len(t)
    BY <1>1, <1>2, ConcatProperties
  <2>2. /\ (s \o a) \o b \in Seq(S) /\ Len((s \o a) \o b) = Len(s) + Len(t)
        /\ s \o (a \o b) \in Seq(S) /\ Len(s \o (a \o b)) = Len(s) + Len(t)
    <3>. DEFINE x == s \o a
                y == a \o b
    <3>1. x \in Seq(S) /\ Len(x) = Len(s) + n /\ y \in Seq(S) /\ Len(y) = Len(t)
      BY <2>1
    <3>. HIDE DEF x, y
    <3>2. x \o b \in Seq(S) /\ Len(x \o b) = Len(x) + Len(b)
      BY <1>1, <3>1, ConcatProperties
    <3>3. s \o y \in Seq(S) /\ Len(s \o y) = Len(s) + Len(y)
      BY <3>1, ConcatProperties
    <3>4. Len(x \o b) = Len(s) + Len(t)
      BY <1>1, <3>1, <3>2
    <3>. QED BY <3>1, <3>2, <3>3, <3>4 DEF x, y
  <2>3. ASSUME NEW i \in 1..Len(s) + Len(t)
        PROVE  ((s \o a) \o b)[i] = (s \o (a \o b))[i]
    <3>1. ((s \o a) \o b)[i] = IF i <= Len(s) + n THEN (s \o a)[i] ELSE b[i - (Len(s) + n)]
      <4>. DEFINE x == s \o a
      <4>1. x \in Seq(S) /\ Len(x) = Len(s) + n /\ i \in 1..Len(x) + Len(b)
        BY <1>1, <2>1
      <4>. HIDE DEF x
      <4>2. (x \o b)[i] = IF i <= Len(x) THEN x[i] ELSE b[i - Len(x)]
        BY <1>1, <4>1, ConcatProperties, SMTT(20)
      <4>. QED BY <4>1, <4>2 DEF x
    <3>2. (s \o (a \o b))[i] = IF i <= Len(s) THEN s[i] ELSE (a \o b)[i - Len(s)]
      <4>. DEFINE y == a \o b
      <4>1. y \in Seq(S) /\ i \in 1..Len(s) + Len(y)
        BY <2>1
      <4>. HIDE DEF y
      <4>2. (s \o y)[i] = IF i <= Len(s) THEN s[i] ELSE y[i - Len(s)]
        BY <4>1, ConcatProperties
      <4>. QED BY <4>2 DEF y
    <3>3. CASE i <= Len(s)
      BY <1>1, <3>1, <3>2, <3>3, ConcatProperties
    <3>4. CASE Len(s) < i /\ i <= Len(s) + n
      <4>1. i - Len(s) \in 1..n
        BY <3>4
      <4>2. (s \o a)[i] = a[i - Len(s)] /\ (a \o b)[i - Len(s)] = a[i - Len(s)]
        BY <1>1, <3>4, <4>1, ConcatProperties
      <4>. QED BY <3>1, <3>2, <3>4, <4>2
    <3>5. CASE Len(s) + n < i
      <4>1. i - Len(s) \in 1..Len(t) /\ i - Len(s) > n /\ i - Len(s) - n = i - (Len(s) + n)
        BY <3>5
      <4>. DEFINE j == i - Len(s)
      <4>3. /\ j \in 1..Len(a) + Len(b) /\ ~(j <= Len(a)) /\ j - Len(a) = j - n
            /\ a \in Seq(S) /\ b \in Seq(S)
        BY <1>1, <4>1
      <4>. HIDE DEF j
      <4>4. (a \o b)[j] = b[j - Len(a)]
        BY <4>3, ConcatProperties
      <4>2. (a \o b)[i - Len(s)] = b[i - Len(s) - n]
        BY <4>3, <4>4 DEF j
      <4>. QED BY <1>1, <3>1, <3>2, <3>5, <4>1, <4>2
    <3>6. i <= Len(s) \/ (Len(s) < i /\ i <= Len(s) + n) \/ Len(s) + n < i
      BY Len(s) \in Nat, n \in Nat
    <3>. QED BY <3>3, <3>4, <3>5, <3>6
  <2>. QED BY <2>2, <2>3, SeqEqual
<1>4. s \o a \in Seq(S)
  BY <1>1
<1>. QED BY <1>1, <1>2, <1>3, <1>4 DEF a, b, Rejoins

LEMMA Beyond ==
    ASSUME NEW l \in Nat, NEW n \in Nat, NEW i \in Nat, NEW k, k = l - n, ~(i <= k)
    PROVE  i - k = n + i - l /\ ~(n + i <= l)
  OBVIOUS

LEMMA TakenFromFront ==
    ASSUME NEW S, NEW s \in Seq(S), NEW t \in Seq(S), NEW n \in 0..Len(s),
           NEW b, b = SubSeq(s, n + 1, Len(s))
    PROVE  /\ b \in Seq(S) /\ b \o t \in Seq(S)
           /\ Len(b \o t) = Len(s \o t) - n
           /\ \A i \in 1..Len(s \o t) - n : (b \o t)[i] = (s \o t)[n + i]
<1>1. b \in Seq(S) /\ Len(b) = Len(s) - n /\ \A i \in 1..Len(s) - n : b[i] = s[n + i]
  OBVIOUS
<1>2. b \o t \in Seq(S) /\ Len(b \o t) = Len(s) - n + Len(t) /\ Len(s \o t) = Len(s) + Len(t)
  BY <1>1, ConcatProperties
<1>3. ASSUME NEW i \in 1..Len(s) + Len(t) - n PROVE (b \o t)[i] = (s \o t)[n + i]
  <2>1. i \in 1..Len(b) + Len(t) /\ n + i \in 1..Len(s) + Len(t)
    BY <1>1
  <2>2. (b \o t)[i] = IF i <= Len(b) THEN b[i] ELSE t[i - Len(b)]
    BY <1>1, <2>1, ConcatProperties
  <2>3. (s \o t)[n + i] = IF n + i <= Len(s) THEN s[n + i] ELSE t[n + i - Len(s)]
    BY <2>1, ConcatProperties
  <2>4. CASE i <= Len(b)
    BY <1>1, <2>1, <2>2, <2>3, <2>4
  <2>5. CASE ~(i <= Len(b))
    <3>1. Len(s) \in Nat /\ n \in Nat /\ i \in Nat
      BY <2>1
    <3>2. i - Len(b) = n + i - Len(s) /\ ~(n + i <= Len(s))
      BY <1>1, <2>5, <3>1, Beyond
    <3>. QED BY <2>2, <2>3, <2>5, <3>2
  <2>. QED BY <2>4, <2>5
<1>. QED BY <1>1, <1>2, <1>3

FromFront(b, q, n) == \A i \in 1..Len(q) - n : b[i] = q[n + i]

LEMMA FrontTaken ==
    ASSUME NEW S, NEW s \in Seq(S), NEW t \in Seq(S), NEW n \in 0..Len(s),
           NEW b, b = SubSeq(s, n + 1, Len(s))
    PROVE  FromFront(b \o t, s \o t, n)
<1>1. \A i \in 1..Len(s \o t) - n : (b \o t)[i] = (s \o t)[n + i]
  BY TakenFromFront
<1>. QED BY <1>1 DEF FromFront

LEMMA HeadTaken ==
    ASSUME NEW S, NEW s \in Seq(S), NEW t \in Seq(S), s # <<>>
    PROVE  /\ Tail(s) \in Seq(S) /\ Head(s) \in S
           /\ s \o t \in Seq(S) /\ Tail(s) \o t \in Seq(S)
           /\ Len(s \o t) >= 1 /\ Head(s) = (s \o t)[1]
           /\ Len(Tail(s) \o t) = Len(s \o t) - 1
           /\ \A i \in 1..Len(s \o t) - 1 : (Tail(s) \o t)[i] = (s \o t)[1 + i]
<1>1. Tail(s) = SubSeq(s, 1 + 1, Len(s)) /\ 1 \in 0..Len(s)
  BY TailIsSubSeq
<1>2. Head(s) \in S /\ Head(s) = s[1] /\ Len(s) >= 1
  OBVIOUS
<1>3. /\ s \o t \in Seq(S) /\ Len(s \o t) = Len(s) + Len(t)
      /\ (s \o t)[1] = s[1]
  BY <1>2, ConcatProperties
<1>. QED BY <1>1, <1>2, <1>3, TakenFromFront

-------------------------------------------------------------------------------
(* The badge handler.                                                       *)

LEMMA BytesDiffer ==
    /\ \A t, u, i, j : Badge!Byte(t, i) = Badge!Byte(u, j) => t = u /\ i = j
    /\ \A b \in Badge!Bytes : b[1] \in Tags /\ b[2] \in 0..3 /\ b = Badge!Byte(b[1], b[2])
    /\ \A t \in Tags, i \in 0..3 : Badge!Byte(t, i) \in Badge!Bytes
  BY DEF Badge!Byte, Badge!Bytes

LEMMA BytesOf ==
    ASSUME NEW t \in Tags
    PROVE  /\ Badge!Content(t) \in Seq(Badge!Bytes) /\ Len(Badge!Content(t)) = 3
           /\ \A i \in 1..3 : Badge!Content(t)[i] = Badge!Byte(t, i)
           /\ Badge!Record(t) \in Seq(Badge!Bytes) /\ Len(Badge!Record(t)) = 4
           /\ \A i \in 0..3 : Badge!Record(t)[1 + i] = Badge!Byte(t, i)
<1>1. \A i \in 0..3 : Badge!Byte(t, i) \in Badge!Bytes
  BY BytesDiffer
<1>. DEFINE m == <<Badge!Byte(t, 0)>>
            c == Badge!Content(t)
            r == Badge!Record(t)
<1>3. c \in Seq(Badge!Bytes) /\ Len(c) = 3 /\ \A i \in 1..3 : c[i] = Badge!Byte(t, i)
  BY <1>1 DEF Badge!Content
<1>4. m \in Seq(Badge!Bytes) /\ Len(m) = 1 /\ m[1] = Badge!Byte(t, 0) /\ r = m \o c
  BY <1>1 DEF Badge!Record
<1>. HIDE DEF m, c, r
<1>5. ASSUME NEW x \in Seq(Badge!Bytes), NEW y \in Seq(Badge!Bytes), Len(x) = 1, Len(y) = 3
      PROVE  /\ x \o y \in Seq(Badge!Bytes) /\ Len(x \o y) = 4
             /\ (x \o y)[1] = x[1] /\ \A i \in 1..3 : (x \o y)[1 + i] = y[i]
  <2>1. Len(x) = 1 /\ Len(y) = 3
    BY <1>5
  <2>2. x \o y \in Seq(Badge!Bytes) /\ Len(x \o y) = Len(x) + Len(y)
    BY Joined
  <2>3. \A i \in 1..Len(x) : (x \o y)[i] = x[i]
    BY Joined
  <2>4. \A i \in 1..Len(y) : (x \o y)[Len(x) + i] = y[i]
    BY Joined
  <2>. QED BY <2>1, <2>2, <2>3, <2>4
<1>6. r \in Seq(Badge!Bytes) /\ Len(r) = 4 /\ r[1] = m[1] /\ \A i \in 1..3 : r[1 + i] = c[i]
  BY <1>3, <1>4, <1>5
<1>7. \A i \in 0..3 : r[1 + i] = Badge!Byte(t, i)
  <2>1. r[1 + 0] = Badge!Byte(t, 0)
    BY <1>4, <1>6
  <2>2. \A i \in 1..3 : r[1 + i] = Badge!Byte(t, i)
    BY <1>3, <1>6
  <2>3. \A i \in 0..3 : i = 0 \/ i \in 1..3
    OBVIOUS
  <2>. QED BY <2>1, <2>2, <2>3
<1>. QED BY <1>3, <1>6, <1>7 DEF c, r

(* What follows the marks in a sequence that begins n bytes later.          *)
LEMMA MarksLater ==
    ASSUME NEW S, NEW q \in Seq(S), NEW b \in Seq(S), NEW n \in Nat, NEW p,
           Len(b) = Len(q) - n, \A i \in 1..Len(q) - n : b[i] = q[n + i]
    PROVE  /\ \A t : \A i \in Nat : Follows(q, t, n + i) => Follows(b, t, i)
           /\ MarksIn(q, p) => MarksIn(b, p)
<1>1. ASSUME NEW t, NEW i \in Nat, Follows(q, t, n + i) PROVE Follows(b, t, i)
  <2>1. n + i + 3 <= Len(q) /\ Len(q) \in Nat
    BY <1>1 DEF Follows
  <2>2. ASSUME NEW j \in 1..3 PROVE b[i + j] = Badge!Byte(t, j)
    <3>1. i + j \in 1..Len(q) - n /\ n + (i + j) = n + i + j
      BY <2>1
    <3>. QED BY <1>1, <3>1 DEF Follows
  <2>. QED BY <2>1, <2>2 DEF Follows
<1>2. ASSUME MarksIn(q, p), NEW i \in 1..Len(b), NEW t \in Tags, b[i] = Badge!Byte(t, 0)
      PROVE  t \in p /\ Follows(b, t, i)
  <2>1. n + i \in 1..Len(q) /\ i \in 1..Len(q) - n /\ Len(q) \in Nat
    BY Len(q) \in Nat
  <2>2. t \in p /\ Follows(q, t, n + i)
    BY <1>2, <2>1 DEF MarksIn
  <2>. QED BY <1>1, <2>1, <2>2
<1>3. \A t : \A i \in Nat : Follows(q, t, n + i) => Follows(b, t, i)
  BY <1>1
<1>4. MarksIn(q, p) => MarksIn(b, p)
  BY <1>2 DEF MarksIn
<1>. QED BY <1>3, <1>4

RecordBehind(b, q, t) ==
    /\ b \in Seq(Badge!Bytes) /\ Len(b) = Len(q) + 4 /\ Len(q) \in Nat
    /\ \A i \in 1..Len(q) : b[i] = q[i]
    /\ \A j \in 0..3 : b[Len(q) + 1 + j] = Badge!Byte(t, j)

LEMMA RecordJoined ==
    ASSUME NEW q \in Seq(Badge!Bytes), NEW t \in Tags
    PROVE  RecordBehind(q \o Badge!Record(t), q, t)
<1>1. Badge!Record(t) \in Seq(Badge!Bytes) /\ Len(Badge!Record(t)) = 4
  BY BytesOf
<1>2. ASSUME NEW r \in Seq(Badge!Bytes), Len(r) = 4, \A j \in 0..3 : r[1 + j] = Badge!Byte(t, j)
      PROVE  RecordBehind(q \o r, q, t)
  <2>1. q \o r \in Seq(Badge!Bytes) /\ Len(q \o r) = Len(q) + Len(r)
    BY Joined
  <2>2. \A i \in 1..Len(q) : (q \o r)[i] = q[i]
    BY Joined
  <2>3. \A i \in 1..Len(r) : (q \o r)[Len(q) + i] = r[i]
    BY Joined
  <2>4. Len(q) \in Nat
    OBVIOUS
  <2>5. ASSUME NEW j \in 0..3 PROVE (q \o r)[Len(q) + 1 + j] = Badge!Byte(t, j)
    <3>1. 1 + j \in 1..Len(r) /\ Len(q) + 1 + j = Len(q) + (1 + j)
      BY <1>2, <2>4
    <3>. QED BY <1>2, <2>3, <3>1
  <2>. QED BY <1>2, <2>1, <2>2, <2>4, <2>5 DEF RecordBehind
<1>. QED BY <1>1, <1>2, BytesOf

(* A tag is presented: its mark is followed by its bytes.                   *)
LEMMA MarksMore ==
    ASSUME NEW q \in Seq(Badge!Bytes), NEW p, NEW t \in Tags, MarksIn(q, p)
    PROVE  MarksIn(q \o Badge!Record(t), p \cup {t})
<1>. DEFINE b == q \o Badge!Record(t)
<1>0. RecordBehind(b, q, t)
  BY RecordJoined
<1>. HIDE DEF b
<1>1. /\ b \in Seq(Badge!Bytes) /\ Len(b) = Len(q) + 4 /\ Len(q) \in Nat
      /\ \A i \in 1..Len(q) : b[i] = q[i]
      /\ \A j \in 0..3 : b[Len(q) + 1 + j] = Badge!Byte(t, j)
  BY <1>0 DEF RecordBehind
<1>2. ASSUME NEW i \in 1..Len(b), NEW u \in Tags, b[i] = Badge!Byte(u, 0)
      PROVE  u \in p \cup {t} /\ Follows(b, u, i)
  <2>1. CASE i <= Len(q)
    <3>1. u \in p /\ Follows(q, u, i)
      BY <1>1, <1>2, <2>1 DEF MarksIn
    <3>2. Follows(b, u, i)
      <4>1. i + 3 <= Len(q) /\ i \in Nat /\ \A j \in 1..3 : q[i + j] = Badge!Byte(u, j)
        BY <1>1, <3>1 DEF Follows
      <4>2. \A j \in 1..3 : i + j \in 1..Len(q)
        BY <1>1, <2>1, <4>1
      <4>3. \A j \in 1..3 : b[i + j] = Badge!Byte(u, j)
        BY <1>1, <4>1, <4>2
      <4>4. i + 3 <= Len(b)
        BY <1>1, <4>1
      <4>. QED BY <4>3, <4>4 DEF Follows
    <3>. QED BY <3>1, <3>2
  <2>2. CASE ~(i <= Len(q))
    <3>. DEFINE k == i - Len(q) - 1
    <3>1. k \in 0..3 /\ Len(q) + 1 + k = i
      BY <1>1, <2>2
    <3>2. u = t /\ k = 0
      BY <1>1, <1>2, <3>1, BytesDiffer
    <3>3. i = Len(q) + 1
      BY <1>1, <3>1, <3>2
    <3>4. \A j \in 1..3 : b[i + j] = Badge!Byte(t, j)
      BY <1>1, <3>3
    <3>5. i + 3 <= Len(b)
      BY <1>1, <3>3
    <3>. QED BY <3>2, <3>4, <3>5 DEF Follows
  <2>. QED BY <2>1, <2>2
<1>3. MarksIn(b, p \cup {t})
  BY <1>2 DEF MarksIn
<1>. QED BY <1>3 DEF b

(* What was read of a tag, with more tags presented and bytes arriving.     *)
LEMMA TagKept ==
    ASSUME TagReadInOrder, field' = field, tag' = tag, misled' = misled, presented \subseteq presented',
           Len(Arriving) \in Nat, Len(Arriving') \in Nat, Len(Arriving) <= Len(Arriving'),
           \A i \in 1..Len(Arriving) : Arriving'[i] = Arriving[i]
    PROVE  TagReadInOrder'
<1>. SUFFICES ASSUME ~misled PROVE TagReadInOrder'
  BY DEF TagReadInOrder
<1>1. ASSUME NEW t, Follows(Arriving, t, 0) PROVE Follows(Arriving', t, 0)
  <2>1. 3 <= Len(Arriving) /\ \A j \in 1..3 : Arriving[0 + j] = Badge!Byte(t, j)
    BY <1>1 DEF Follows
  <2>2. 3 <= Len(Arriving') /\ \A j \in 1..3 : 0 + j \in 1..Len(Arriving)
    BY <2>1
  <2>. QED BY <2>1, <2>2 DEF Follows
<1>2. field' = 1 => tag' = <<>> /\ \E t \in presented' : Follows(Arriving', t, 0)
  BY <1>1 DEF TagReadInOrder
<1>3. ASSUME field' = 2
      PROVE  \E t \in presented' : /\ tag' = <<Badge!Byte(t, 1)>> /\ 2 <= Len(Arriving')
                                   /\ Arriving'[1] = Badge!Byte(t, 2) /\ Arriving'[2] = Badge!Byte(t, 3)
  <2>1. PICK t \in presented : /\ tag = <<Badge!Byte(t, 1)>> /\ 2 <= Len(Arriving)
                               /\ Arriving[1] = Badge!Byte(t, 2) /\ Arriving[2] = Badge!Byte(t, 3)
    BY <1>3 DEF TagReadInOrder
  <2>2. 1 \in 1..Len(Arriving) /\ 2 \in 1..Len(Arriving) /\ 2 <= Len(Arriving')
    BY <2>1
  <2>. QED BY <2>1, <2>2
<1>4. field' = 3 => \E t \in presented' : tag' = Badge!Content(t)
  BY DEF TagReadInOrder
<1>. QED BY <1>2, <1>3, <1>4 DEF TagReadInOrder

LEMMA BadgeTyped ==
    ASSUME BadgeInv
    PROVE  /\ serial \in Seq(Badge!Bytes) /\ later \in Seq(Badge!Bytes) /\ Len(later) <= 3
           /\ plugged \in BOOLEAN /\ field \in 0..4 /\ tag \in Seq(Badge!Bytes) /\ Len(tag) <= 3
           /\ Len(events) <= 1 /\ presented \subseteq Tags /\ whole \subseteq presented
           /\ misled \in BOOLEAN
           /\ Arriving \in Seq(Badge!Bytes) /\ Len(Arriving) = Len(serial) + Len(later)
           /\ Len(Arriving) \in Nat
           /\ MarksIn(Arriving, presented) /\ TagLength /\ TagReadInOrder /\ EventsInOrder /\ OnlyPresented
<1>1. /\ serial \in Seq(Badge!Bytes) /\ later \in Seq(Badge!Bytes) /\ Len(later) <= 3
      /\ plugged \in BOOLEAN /\ field \in 0..4 /\ tag \in Seq(Badge!Bytes) /\ Len(tag) <= 3
      /\ Len(events) <= 1 /\ presented \subseteq Tags /\ whole \subseteq presented
      /\ misled \in BOOLEAN
  BY DEF BadgeInv, Badge!TypeOK
<1>2. Arriving \in Seq(Badge!Bytes) /\ Len(Arriving) = Len(serial) + Len(later)
  BY <1>1, Joined DEF Arriving
<1>3. Len(Arriving) \in Nat
  BY <1>2
<1>. QED BY <1>1, <1>2, <1>3 DEF BadgeInv, MarksFollowed

LEMMA PresentsArrive ==
    ASSUME BadgeInv, NEW t \in Tags, NEW n \in 1..4, Badge!Presents(t, n)
    PROVE  /\ later = <<>> /\ presented' = presented \cup {t} /\ t \notin presented
           /\ whole' = (IF n = 4 THEN whole \cup {t} ELSE whole)
           /\ UNCHANGED <<plugged, field, tag, events, status, misled>>
           /\ serial \in Seq(Badge!Bytes) /\ Arriving = serial
           /\ serial' \in Seq(Badge!Bytes) /\ later' \in Seq(Badge!Bytes) /\ Len(later') = 4 - n
           /\ later' = SubSeq(Badge!Record(t), n + 1, 4)
           /\ Arriving' = serial \o Badge!Record(t)
<1>. DEFINE r == Badge!Record(t)
<1>1. /\ later = <<>> /\ presented' = presented \cup {t} /\ t \notin presented
      /\ whole' = (IF n = 4 THEN whole \cup {t} ELSE whole)
      /\ serial' = serial \o SubSeq(r, 1, n) /\ later' = SubSeq(r, n + 1, 4)
      /\ UNCHANGED <<plugged, field, tag, events, status, misled>>
  BY DEF Badge!Presents
<1>2. r \in Seq(Badge!Bytes) /\ Len(r) = 4
  BY BytesOf
<1>3. serial \in Seq(Badge!Bytes) /\ Arriving = serial
  BY <1>1, BadgeTyped, ConcatEmptySeq DEF Arriving
<1>. HIDE DEF r
<1>4. /\ serial' \in Seq(Badge!Bytes) /\ later' \in Seq(Badge!Bytes) /\ Len(later') = 4 - n
      /\ serial' \o later' = serial \o r
  <2>0. serial' = serial \o SubSeq(r, 1, n)
    BY <1>1
  <2>1. n \in 1..Len(r)
    BY <1>2
  <2>2. Rejoins(serial', SubSeq(r, n + 1, Len(r)), serial, r)
    BY <1>2, <1>3, <2>0, <2>1, Carried
  <2>3. serial' \in Seq(Badge!Bytes)
    BY <1>2, <1>3, <2>0, <2>1, Carried
  <2>4. /\ SubSeq(r, n + 1, Len(r)) \in Seq(Badge!Bytes)
        /\ Len(SubSeq(r, n + 1, Len(r))) = Len(r) - n
    <3>1. SubSeq(r, n + 1, Len(r)) \in Seq(Badge!Bytes)
      BY <1>2, <1>3, <2>0, <2>1, Carried
    <3>2. Len(SubSeq(r, n + 1, Len(r))) = Len(r) - n
      BY <1>2, <1>3, <2>0, <2>1, Carried
    <3>. QED BY <3>1, <3>2
  <2>5. SubSeq(r, n + 1, Len(r)) = later'
    BY <1>1, <1>2
  <2>. QED BY <1>2, <2>2, <2>3, <2>4, <2>5 DEF Rejoins
<1>5. Arriving' = serial \o r
  BY <1>4 DEF Arriving
<1>. QED BY <1>1, <1>3, <1>4, <1>5 DEF r

LEMMA BadgePresents ==
    ASSUME BadgeInv, NEW t \in Tags, NEW n \in 1..4, Badge!Presents(t, n)
    PROVE  BadgeInv'
<1>. DEFINE r == Badge!Record(t)
<1>2. r \in Seq(Badge!Bytes) /\ Len(r) = 4
  BY BytesOf
<1>. HIDE DEF r
<1>1. /\ later = <<>> /\ presented' = presented \cup {t}
      /\ whole' = (IF n = 4 THEN whole \cup {t} ELSE whole)
      /\ UNCHANGED <<plugged, field, tag, events, status, misled>>
  BY PresentsArrive
<1>3. serial \in Seq(Badge!Bytes) /\ Arriving = serial
  BY PresentsArrive
<1>4. serial' \in Seq(Badge!Bytes) /\ later' \in Seq(Badge!Bytes) /\ Len(later') = 4 - n
  BY PresentsArrive
<1>5. Arriving' = serial \o r
  BY PresentsArrive DEF r
<1>6. Badge!TypeOK'
  BY <1>1, <1>4, BadgeTyped DEF Badge!TypeOK
<1>7. MarksFollowed'
  BY <1>1, <1>3, <1>5, BadgeTyped, MarksMore DEF MarksFollowed, r
<1>8. TagReadInOrder'
  <2>1. /\ Len(serial) \in Nat /\ Len(serial \o r) \in Nat /\ Len(serial) <= Len(serial \o r)
        /\ \A i \in 1..Len(serial) : (serial \o r)[i] = serial[i]
    BY <1>2, <1>3, Joined
  <2>2. /\ Len(Arriving) \in Nat /\ Len(Arriving') \in Nat /\ Len(Arriving) <= Len(Arriving')
        /\ \A i \in 1..Len(Arriving) : Arriving'[i] = Arriving[i]
    BY <1>3, <1>5, <2>1
  <2>. QED BY <1>1, <2>2, BadgeTyped, TagKept
<1>9. TagLength' /\ EventsInOrder' /\ OnlyPresented'
  BY <1>1, BadgeTyped DEF TagLength, EventsInOrder, OnlyPresented
<1>. QED BY <1>6, <1>7, <1>8, <1>9 DEF BadgeInv

(* The first byte is skipped.                                               *)
LEMMA BadgeSeeks == BadgeInv /\ Badge!Seeks => BadgeInv'
<1>. SUFFICES ASSUME BadgeInv, Badge!Seeks PROVE BadgeInv'
  OBVIOUS
<1>1. /\ field = 0 /\ serial # <<>> /\ serial' = Tail(serial) /\ tag' = <<>>
      /\ field' = (IF Badge!IsMark(Head(serial)) THEN 1 ELSE 0)
      /\ misled' = (misled \/ Head(serial) \in Marked)
      /\ UNCHANGED <<plugged, later, events, status, presented, whole>>
  BY DEF Badge!Seeks
<1>2. /\ serial' \in Seq(Badge!Bytes) /\ Arriving' \in Seq(Badge!Bytes)
      /\ Len(Arriving') = Len(Arriving) - 1 /\ Len(Arriving) \in Nat /\ Len(Arriving) >= 1
      /\ \A i \in 1..Len(Arriving) - 1 : Arriving'[i] = Arriving[1 + i]
      /\ Head(serial) = Arriving[1] /\ Head(serial) \in Badge!Bytes
  BY <1>1, BadgeTyped, HeadTaken DEF Arriving
<1>3. MarksIn(Arriving', presented)
  BY <1>2, BadgeTyped, MarksLater
<1>4. ASSUME Badge!IsMark(Head(serial)), Head(serial) \notin Marked
      PROVE  \E t \in presented : Follows(Arriving', t, 0)
  <2>1. PICK t \in Tags : Arriving[1] = Badge!Byte(t, 0)
    BY <1>2, <1>4, BytesDiffer DEF Badge!IsMark
  <2>2. t \in presented /\ Follows(Arriving, t, 1 + 0)
    <3>1. 1 \in 1..Len(Arriving)
      BY <1>2
    <3>. QED BY <2>1, <3>1, BadgeTyped DEF MarksIn
  <2>3. Follows(Arriving', t, 0)
    BY <1>2, <2>2, BadgeTyped, MarksLater
  <2>. QED BY <2>2, <2>3
<1>5. Badge!TypeOK'
  <2>1. misled' \in BOOLEAN /\ field' \in 0..4
    BY <1>1, BadgeTyped
  <2>. QED BY <1>1, <1>2, <2>1, BadgeTyped DEF Badge!TypeOK
<1>6. TagLength' /\ TagReadInOrder'
  <2>1. TagLength'
    BY <1>1 DEF TagLength
  <2>2. CASE Head(serial) \in Marked
    <3>1. misled'
      BY <1>1, <2>2
    <3>. QED BY <2>1, <3>1 DEF TagReadInOrder
  <2>3. CASE Head(serial) \notin Marked /\ Badge!IsMark(Head(serial))
    <3>1. field' = 1 /\ tag' = <<>> /\ presented' = presented
      BY <1>1, <2>3
    <3>2. \E t \in presented' : Follows(Arriving', t, 0)
      BY <1>4, <2>3, <3>1
    <3>. QED BY <2>1, <3>1, <3>2 DEF TagReadInOrder
  <2>4. CASE ~Badge!IsMark(Head(serial))
    <3>1. field' = 0
      BY <1>1, <2>4
    <3>. QED BY <2>1, <3>1 DEF TagReadInOrder
  <2>. QED BY <2>1, <2>2, <2>3, <2>4
<1>7. EventsInOrder' /\ OnlyPresented'
  BY <1>1, BadgeTyped DEF EventsInOrder, OnlyPresented
<1>. QED BY <1>1, <1>3, <1>5, <1>6, <1>7 DEF BadgeInv, MarksFollowed

(* A field is read, in whole or in part.                                    *)
Taken(n) ==
    /\ n \in 1..field /\ n <= Len(serial) /\ (n = field \/ n = Len(serial))
    /\ tag' = tag \o SubSeq(serial, 1, n)
    /\ field' = IF n = field THEN field + 1 ELSE 0
    /\ serial' \in Seq(Badge!Bytes) /\ Arriving' \in Seq(Badge!Bytes)
    /\ Len(Arriving') = Len(Arriving) - n
    /\ \A i \in 1..Len(Arriving) - n : Arriving'[i] = Arriving[n + i]

LEMMA ReadsArrive ==
    ASSUME BadgeInv, Badge!ReadsField
    PROVE  /\ field \in {1, 2} /\ serial # <<>>
           /\ UNCHANGED <<plugged, later, events, status, presented, whole, misled>>
           /\ \E n \in 1..2 : Taken(n)
<1>. DEFINE n == Badge!Least(Badge!FieldLength(field), Len(serial))
<1>1. /\ field \in {1, 2} /\ serial # <<>>
      /\ tag' = tag \o SubSeq(serial, 1, n)
      /\ serial' = SubSeq(serial, n + 1, Len(serial))
      /\ field' = (IF n = Badge!FieldLength(field) THEN field + 1 ELSE 0)
      /\ UNCHANGED <<plugged, later, events, status, presented, whole, misled>>
  BY DEF Badge!ReadsField, Badge!AfterRead
<1>2. serial \in Seq(Badge!Bytes) /\ Len(serial) \in Nat /\ Len(serial) >= 1
  BY <1>1, BadgeTyped
<1>3. n \in 1..field /\ n <= Len(serial) /\ (n = Badge!FieldLength(field) <=> n = field)
      /\ (n = field \/ n = Len(serial))
  BY <1>1, <1>2 DEF Badge!Least, Badge!FieldLength
<1>. HIDE DEF n
<1>4. /\ serial' \in Seq(Badge!Bytes) /\ Arriving' \in Seq(Badge!Bytes)
      /\ Len(Arriving') = Len(Arriving) - n /\ Len(Arriving) \in Nat
      /\ \A i \in 1..Len(Arriving) - n : Arriving'[i] = Arriving[n + i]
  <2>1. n \in 0..Len(serial) /\ serial' = SubSeq(serial, n + 1, Len(serial)) /\ later' = later
    BY <1>1, <1>2, <1>3
  <2>2. later \in Seq(Badge!Bytes) /\ Len(Arriving) \in Nat
    BY BadgeTyped
  <2>3. serial' \in Seq(Badge!Bytes) /\ serial' \o later \in Seq(Badge!Bytes)
    BY <1>2, <2>1, <2>2, TakenFromFront
  <2>5. Len(serial' \o later) = Len(serial \o later) - n
    <3>1. serial \in Seq(Badge!Bytes) /\ Len(serial') = Len(serial) - n
      BY <1>2, <2>1
    <3>2. Len(serial' \o later) = Len(serial') + Len(later)
      BY <2>2, <2>3, ConcatProperties
    <3>3. Len(serial \o later) = Len(serial) + Len(later)
      BY <2>2, <3>1, ConcatProperties
    <3>4. Len(serial') \in Nat /\ Len(serial) \in Nat /\ Len(later) \in Nat
      BY <2>2, <2>3, <3>1
    <3>. QED BY <2>1, <3>1, <3>2, <3>3, <3>4
  <2>4. \A i \in 1..Len(serial \o later) - n : (serial' \o later)[i] = (serial \o later)[n + i]
    <3>1. FromFront(serial' \o later, serial \o later, n)
      BY <1>2, <2>1, <2>2, FrontTaken
    <3>. QED BY <3>1 DEF FromFront
  <2>. QED BY <2>1, <2>2, <2>3, <2>4, <2>5 DEF Arriving
<1>5. Taken(n) /\ n \in 1..2
  BY <1>1, <1>3, <1>4 DEF Taken
<1>. QED BY <1>1, <1>5

LEMMA BadgeReads == BadgeInv /\ Badge!ReadsField => BadgeInv'
<1>. SUFFICES ASSUME BadgeInv, Badge!ReadsField PROVE BadgeInv'
  OBVIOUS
<1>0. PICK n \in 1..2 : Taken(n)
  BY ReadsArrive
<1>1. /\ field \in {1, 2} /\ serial # <<>>
      /\ tag' = tag \o SubSeq(serial, 1, n)
      /\ field' = (IF n = field THEN field + 1 ELSE 0)
      /\ UNCHANGED <<plugged, later, events, status, presented, whole, misled>>
  BY <1>0, ReadsArrive DEF Taken
<1>2. serial \in Seq(Badge!Bytes) /\ Len(serial) \in Nat /\ Len(serial) >= 1
  BY <1>1, BadgeTyped
<1>3. n \in 1..field /\ n <= Len(serial)
  BY <1>0 DEF Taken
<1>4. /\ serial' \in Seq(Badge!Bytes) /\ Arriving' \in Seq(Badge!Bytes)
      /\ Len(Arriving') = Len(Arriving) - n /\ Len(Arriving) \in Nat
      /\ \A i \in 1..Len(Arriving) - n : Arriving'[i] = Arriving[n + i]
  BY <1>0, BadgeTyped DEF Taken
<1>5. MarksIn(Arriving', presented)
  <2>1. n \in Nat /\ Arriving \in Seq(Badge!Bytes) /\ MarksIn(Arriving, presented)
    BY <1>3, BadgeTyped
  <2>. QED BY <1>4, <2>1, MarksLater
<1>6. /\ SubSeq(serial, 1, n) \in Seq(Badge!Bytes) /\ Len(SubSeq(serial, 1, n)) = n
      /\ \A i \in 1..n : SubSeq(serial, 1, n)[i] = Arriving[i]
  <2>1. \A i \in 1..Len(serial) : Arriving[i] = serial[i]
    BY BadgeTyped, Joined DEF Arriving
  <2>2. /\ SubSeq(serial, 1, n) \in Seq(Badge!Bytes) /\ Len(SubSeq(serial, 1, n)) = n
        /\ \A i \in 1..n : SubSeq(serial, 1, n)[i] = serial[i]
    BY <1>2, <1>3
  <2>. QED BY <1>2, <1>3, <2>1, <2>2
<1>. DEFINE r == SubSeq(serial, 1, n)
<1>. HIDE DEF r
<1>j. ASSUME NEW x \in Seq(Badge!Bytes), NEW y \in Seq(Badge!Bytes), Len(x) = 1
      PROVE  /\ x \o y \in Seq(Badge!Bytes) /\ Len(x \o y) = 1 + Len(y) /\ (x \o y)[1] = x[1]
             /\ \A i \in 1..Len(y) : (x \o y)[1 + i] = y[i]
  <2>1. Len(x) = 1 /\ Len(y) \in Nat
    BY <1>j
  <2>2. x \o y \in Seq(Badge!Bytes) /\ Len(x \o y) = Len(x) + Len(y)
    BY Joined
  <2>3. /\ \A i \in 1..Len(x) : (x \o y)[i] = x[i]
        /\ \A i \in 1..Len(y) : (x \o y)[Len(x) + i] = y[i]
    BY Joined
  <2>. QED BY <2>1, <2>2, <2>3
<1>r. r \in Seq(Badge!Bytes) /\ Len(r) = n /\ tag' = tag \o r /\ \A i \in 1..n : r[i] = Arriving[i]
  BY <1>1, <1>6 DEF r
<1>7. CASE field = 1
  <2>1. n = 1 /\ field' = 2 /\ tag' = r
    <3>1. n = 1 /\ field' = 2 /\ tag = <<>>
      BY <1>1, <1>3, <1>7, BadgeTyped DEF TagLength
    <3>. QED BY <1>r, <3>1, ConcatEmptySeq
  <2>2. TagReadInOrder'
    <3>. SUFFICES ASSUME ~misled PROVE TagReadInOrder'
      BY <1>1 DEF TagReadInOrder
    <3>1. PICK t \in presented : Follows(Arriving, t, 0)
      BY <1>7, BadgeTyped DEF TagReadInOrder
    <3>2. 3 <= Len(Arriving) /\ \A j \in 1..3 : Arriving[j] = Badge!Byte(t, j)
      BY <3>1 DEF Follows
    <3>3. tag' = <<Badge!Byte(t, 1)>>
      <4>1. r \in Seq(Badge!Bytes) /\ Len(r) = 1 /\ r[1] = Badge!Byte(t, 1)
        BY <1>r, <2>1, <3>2
      <4>. QED BY <2>1, <4>1
    <3>4. 2 <= Len(Arriving') /\ Arriving'[1] = Badge!Byte(t, 2) /\ Arriving'[2] = Badge!Byte(t, 3)
      <4>1. 1 \in 1..Len(Arriving) - n /\ 2 \in 1..Len(Arriving) - n /\ n + 1 = 2 /\ n + 2 = 3
        BY <1>4, <2>1, <3>2
      <4>. QED BY <1>4, <3>2, <4>1
    <3>5. t \in presented' /\ field' # 1 /\ field' # 3
      BY <1>1, <2>1
    <3>. QED BY <3>3, <3>4, <3>5 DEF TagReadInOrder
  <2>3. TagLength' /\ tag' \in Seq(Badge!Bytes) /\ Len(tag') <= 3 /\ field' \in 0..4
    <3>1. tag' \in Seq(Badge!Bytes) /\ Len(tag') = 1 /\ field' = 2
      BY <1>r, <2>1
    <3>. QED BY <3>1 DEF TagLength
  <2>4. Badge!TypeOK'
    BY <1>1, <1>4, <2>3, BadgeTyped DEF Badge!TypeOK
  <2>5. EventsInOrder' /\ OnlyPresented'
    BY <1>1, BadgeTyped DEF EventsInOrder, OnlyPresented
  <2>. QED BY <1>1, <1>5, <2>2, <2>3, <2>4, <2>5 DEF BadgeInv, MarksFollowed
<1>8. CASE field = 2
  <2>1. tag \in Seq(Badge!Bytes) /\ Len(tag) = 1
    BY <1>8, BadgeTyped DEF TagLength
  <2>2. /\ tag' \in Seq(Badge!Bytes) /\ Len(tag') = 1 + n /\ tag'[1] = tag[1]
        /\ \A i \in 1..n : tag'[1 + i] = Arriving[i]
    <3>1. /\ tag' \in Seq(Badge!Bytes) /\ Len(tag') = 1 + Len(r) /\ tag'[1] = tag[1]
          /\ \A i \in 1..Len(r) : tag'[1 + i] = r[i]
      BY <1>j, <1>r, <2>1
    <3>. QED BY <1>r, <3>1
  <2>3. TagReadInOrder'
    <3>. SUFFICES ASSUME ~misled PROVE TagReadInOrder'
      BY <1>1 DEF TagReadInOrder
    <3>1. PICK t \in presented : /\ tag = <<Badge!Byte(t, 1)>> /\ 2 <= Len(Arriving)
                                 /\ Arriving[1] = Badge!Byte(t, 2) /\ Arriving[2] = Badge!Byte(t, 3)
      BY <1>8, BadgeTyped DEF TagReadInOrder
    <3>2. CASE n = 2
      <4>1. field' = 3
        BY <1>1, <1>3, <1>8, <3>2
      <4>2. Len(tag') = 3 /\ tag'[1] = Badge!Byte(t, 1) /\ tag'[2] = Badge!Byte(t, 2) /\ tag'[3] = Badge!Byte(t, 3)
        <5>1. 1 \in 1..n /\ 2 \in 1..n /\ 1 + 1 = 2 /\ 1 + 2 = 3
          BY <3>2
        <5>2. tag[1] = Badge!Byte(t, 1)
          BY <3>1
        <5>. QED BY <2>2, <3>1, <3>2, <5>1, <5>2
      <4>3. tag' = Badge!Content(t)
        <5>1. t \in Tags
          BY BadgeTyped
        <5>2. \A i \in 1..3 : tag'[i] = Badge!Byte(t, i)
          BY <4>2
        <5>3. /\ Badge!Content(t) \in Seq(Badge!Bytes) /\ Len(Badge!Content(t)) = 3
              /\ \A i \in 1..3 : Badge!Content(t)[i] = Badge!Byte(t, i)
          BY <5>1, BytesOf
        <5>. QED BY <2>2, <4>2, <5>2, <5>3, SeqEqual
      <4>4. t \in presented'
        BY <1>1
      <4>. QED BY <4>1, <4>3, <4>4 DEF TagReadInOrder
    <3>3. CASE n # 2
      BY <1>1, <1>3, <1>8, <3>3 DEF TagReadInOrder
    <3>. QED BY <3>2, <3>3
  <2>4. Len(tag') <= 3 /\ field' \in {0, 3}
    BY <1>1, <1>3, <1>8, <2>2
  <2>5. Badge!TypeOK' /\ TagLength'
    <3>1. TagLength' /\ field' \in 0..4
      BY <2>4 DEF TagLength
    <3>2. Badge!TypeOK'
      BY <1>1, <1>4, <2>2, <2>4, <3>1, BadgeTyped DEF Badge!TypeOK
    <3>. QED BY <3>1, <3>2
  <2>6. EventsInOrder' /\ OnlyPresented'
    BY <1>1, BadgeTyped DEF EventsInOrder, OnlyPresented
  <2>. QED BY <1>1, <1>5, <2>3, <2>5, <2>6 DEF BadgeInv, MarksFollowed
<1>9. field = 1 \/ field = 2
  BY <1>1
<1>. QED BY <1>7, <1>8, <1>9

LEMMA BadgeNext == BadgeInv /\ [Badge!Next]_Badge!vars => BadgeInv'
<1>. SUFFICES ASSUME BadgeInv, [Badge!Next]_Badge!vars PROVE BadgeInv'
  OBVIOUS
<1>1. CASE UNCHANGED Badge!vars
  <2>1. UNCHANGED <<plugged, serial, later, field, tag, events, status, presented, whole, misled>>
    BY <1>1 DEF Badge!vars
  <2>2. Arriving' = Arriving
    BY <2>1 DEF Arriving
  <2>3. Badge!TypeOK'
    BY <2>1, BadgeTyped DEF Badge!TypeOK
  <2>4. TagReadInOrder'
    BY <2>1, <2>2, BadgeTyped DEF TagReadInOrder
  <2>. QED BY <2>1, <2>2, <2>3, <2>4, BadgeTyped DEF BadgeInv, MarksFollowed, EventsInOrder, OnlyPresented, TagLength
<1>2. CASE Badge!Arrives
  <2>1. /\ serial' = serial \o later /\ later' = <<>>
        /\ UNCHANGED <<plugged, field, tag, events, status, presented, whole, misled>>
    BY <1>2 DEF Badge!Arrives
  <2>2. serial' \in Seq(Badge!Bytes) /\ Arriving' = serial' /\ serial' = Arriving
    BY <2>1, BadgeTyped, ConcatEmptySeq DEF Arriving
  <2>3. Badge!TypeOK'
    BY <2>1, <2>2, BadgeTyped DEF Badge!TypeOK
  <2>4. TagReadInOrder'
    BY <2>1, <2>2, BadgeTyped, TagKept
  <2>. QED BY <2>1, <2>2, <2>3, <2>4, BadgeTyped DEF BadgeInv, MarksFollowed, EventsInOrder, OnlyPresented, TagLength
<1>3. CASE Badge!Unplugged \/ Badge!Ends
  <2>1. /\ plugged' \in BOOLEAN /\ field' \in {field, 4}
        /\ UNCHANGED <<serial, later, tag, events, status, presented, whole, misled>>
    BY <1>3, BadgeTyped DEF Badge!Unplugged, Badge!Ends
  <2>2. Arriving' = Arriving
    BY <2>1 DEF Arriving
  <2>3. Badge!TypeOK'
    BY <2>1, BadgeTyped DEF Badge!TypeOK
  <2>4. TagReadInOrder'
    BY <2>1, <2>2, BadgeTyped DEF TagReadInOrder
  <2>. QED BY <2>1, <2>2, <2>3, <2>4, BadgeTyped DEF BadgeInv, MarksFollowed, EventsInOrder, OnlyPresented, TagLength
<1>4. CASE Badge!SendsTag
  <2>1. /\ field = 3 /\ events' = <<tag>> /\ field' = 0
        /\ UNCHANGED <<plugged, serial, later, tag, status, presented, whole, misled>>
    BY <1>4 DEF Badge!SendsTag
  <2>2. EventsInOrder' /\ TagReadInOrder' /\ Arriving' = Arriving
    BY <2>1, BadgeTyped DEF EventsInOrder, TagReadInOrder, Arriving
  <2>3. Badge!TypeOK'
    BY <2>1, BadgeTyped DEF Badge!TypeOK
  <2>. QED BY <2>1, <2>2, <2>3, BadgeTyped DEF BadgeInv, MarksFollowed, OnlyPresented, TagLength
<1>5. CASE Badge!HandleChannelEvent
  <2>1. /\ events # <<>> /\ status' = status \cup {events[1]} /\ events' = <<>>
        /\ UNCHANGED <<plugged, serial, later, field, tag, presented, whole, misled>>
    BY <1>5 DEF Badge!HandleChannelEvent
  <2>2. misled \/ \E t \in presented : events[1] = Badge!Content(t)
    BY <2>1, BadgeTyped DEF EventsInOrder
  <2>3. OnlyPresented'
    BY <2>1, <2>2, BadgeTyped DEF OnlyPresented, TagLength
  <2>4. EventsInOrder' /\ Arriving' = Arriving
    BY <2>1 DEF EventsInOrder, Arriving
  <2>5. TagReadInOrder'
    BY <2>1, <2>4, BadgeTyped DEF TagReadInOrder
  <2>6. Badge!TypeOK'
    BY <2>1, BadgeTyped DEF Badge!TypeOK
  <2>. QED BY <2>1, <2>3, <2>4, <2>5, <2>6, BadgeTyped DEF BadgeInv, MarksFollowed, TagLength
<1>. QED BY <1>1, <1>2, <1>3, <1>4, <1>5, BadgePresents, BadgeSeeks, BadgeReads DEF Badge!Next, Badge!Works

LEMMA LedTyped ==
    ASSUME LedInv
    PROVE  /\ BytesPresented(Arriving, presented) /\ NoneOf(later, whole)
           /\ misled \/ field = 4 \/ AllLed(Arriving, field, whole)
           /\ MisledInPieces
  BY DEF LedInv

(* A tag is presented: its bytes lie behind its mark.                       *)
LEMMA LedPresents ==
    ASSUME BadgeInv, LedInv, NEW t \in Tags, NEW n \in 1..4, Badge!Presents(t, n)
    PROVE  LedInv'
<1>. DEFINE q == Arriving
            b == Arriving'
<1>1. /\ q \in Seq(Badge!Bytes) /\ b = q \o Badge!Record(t)
      /\ presented' = presented \cup {t} /\ t \notin presented
      /\ whole' = (IF n = 4 THEN whole \cup {t} ELSE whole) /\ field' = field /\ misled' = misled
      /\ later' = SubSeq(Badge!Record(t), n + 1, 4) /\ Len(later') = 4 - n
  BY PresentsArrive
<1>. HIDE DEF q, b
<1>2. /\ b \in Seq(Badge!Bytes) /\ Len(b) = Len(q) + 4 /\ Len(q) \in Nat
      /\ \A i \in 1..Len(q) : b[i] = q[i]
      /\ \A j \in 0..3 : b[Len(q) + 1 + j] = Badge!Byte(t, j)
  <2>1. RecordBehind(b, q, t)
    BY <1>1, RecordJoined
  <2>. QED BY <2>1 DEF RecordBehind
<1>3. BytesPresented(q, presented) /\ whole \subseteq presented /\ presented \subseteq Tags
  BY LedTyped, BadgeTyped DEF q
<1>4. ASSUME NEW i \in 1..Len(b), ~(i <= Len(q)), NEW u, NEW j, b[i] = Badge!Byte(u, j)
      PROVE  u = t /\ i = Len(q) + 1 + j
  <2>. DEFINE k == i - Len(q) - 1
  <2>1. k \in 0..3 /\ i = Len(q) + 1 + k
    <3>1. i \in Int /\ i <= Len(q) + 4 /\ ~(i <= Len(q))
      BY <1>2, <1>4
    <3>. QED BY <1>2, <3>1
  <2>. HIDE DEF k
  <2>2. b[i] = Badge!Byte(t, k)
    BY <1>2, <2>1
  <2>. QED BY <1>4, <2>1, <2>2, BytesDiffer
<1>5. BytesPresented(b, presented')
  <2>1. ASSUME NEW i \in 1..Len(b), NEW u \in Tags, NEW j \in 0..3, b[i] = Badge!Byte(u, j)
        PROVE  u \in presented \cup {t}
    <3>1. CASE i <= Len(q)
      BY <1>2, <1>3, <2>1, <3>1 DEF BytesPresented
    <3>2. CASE ~(i <= Len(q))
      BY <1>4, <2>1, <3>2
    <3>. QED BY <3>1, <3>2
  <2>. QED BY <1>1, <2>1 DEF BytesPresented
<1>6. NoneOf(later', whole')
  <2>1. ASSUME NEW i \in 1..Len(later'), NEW u \in whole', NEW j \in 0..3, later'[i] = Badge!Byte(u, j)
        PROVE  FALSE
    <3>. DEFINE r == Badge!Record(t)
                k == n + i - 1
    <3>1. r \in Seq(Badge!Bytes) /\ Len(r) = 4 /\ later' = SubSeq(r, n + 1, 4) /\ i \in 1..4 - n
      BY <1>1, <2>1, BytesOf
    <3>2. k \in 0..3 /\ n + i = 1 + k /\ n # 4
      BY <3>1
    <3>3. r[1 + k] = Badge!Byte(t, k)
      BY <3>2, BytesOf
    <3>. HIDE DEF r
    <3>4. later'[i] = r[n + i]
      BY <3>1
    <3>. HIDE DEF k
    <3>5. u = t
      <4>1. Badge!Byte(u, j) = Badge!Byte(t, k)
        BY <2>1, <3>2, <3>3, <3>4
      <4>. QED BY <4>1, BytesDiffer
    <3>. QED BY <1>1, <1>3, <2>1, <3>2, <3>5
  <2>. QED BY <2>1 DEF NoneOf
<1>7. ASSUME AllLed(q, field, whole) PROVE AllLed(b, field', whole')
  <2>1. ASSUME NEW i \in 1..Len(b), NEW u \in whole', NEW j \in 1..3, b[i] = Badge!Byte(u, j)
        PROVE  Led(b, i, u, j, field)
    <3>1. CASE i <= Len(q)
      <4>1. i \in 1..Len(q) /\ q[i] = Badge!Byte(u, j) /\ j \in 0..3
        BY <1>2, <2>1, <3>1
      <4>2. u \in Tags
        BY <1>1, <1>3, <2>1
      <4>3. u \in whole
        BY <1>1, <1>3, <2>1, <4>1, <4>2 DEF BytesPresented
      <4>4. Led(q, i, u, j, field)
        BY <1>7, <4>1, <4>3 DEF AllLed
      <4>5. i > j => i - j \in 1..Len(q)
        BY <1>2, <3>1
      <4>. QED BY <1>2, <4>4, <4>5 DEF Led
    <3>2. CASE ~(i <= Len(q))
      <4>1. u = t /\ i = Len(q) + 1 + j
        BY <1>4, <2>1, <3>2
      <4>2. i > j /\ i - j = Len(q) + 1 + 0
        BY <1>2, <4>1
      <4>3. b[i - j] = Badge!Byte(t, 0)
        BY <1>2, <4>2
      <4>. QED BY <4>1, <4>2, <4>3 DEF Led
    <3>. QED BY <3>1, <3>2
  <2>. QED BY <1>1, <2>1 DEF AllLed
<1>8. MisledInPieces'
  <2>1. ASSUME misled PROVE \E u \in presented' \ whole' : Badge!HasMark(u)
    <3>1. PICK u \in presented \ whole : Badge!HasMark(u)
      BY <2>1, LedTyped DEF MisledInPieces
    <3>2. u \in presented' \ whole'
      BY <1>1, <3>1
    <3>. QED BY <3>1, <3>2
  <2>. QED BY <1>1, <2>1 DEF MisledInPieces
<1>9. misled' \/ field' = 4 \/ AllLed(b, field', whole')
  BY <1>1, <1>7, LedTyped DEF q
<1>. QED BY <1>5, <1>6, <1>8, <1>9 DEF LedInv, b

LEMMA PresentedLater ==
    ASSUME NEW S, NEW q \in Seq(S), NEW b \in Seq(S), NEW n \in Nat, NEW p,
           Len(b) = Len(q) - n, \A i \in 1..Len(q) - n : b[i] = q[n + i], BytesPresented(q, p)
    PROVE  BytesPresented(b, p)
<1>1. ASSUME NEW i \in 1..Len(b), NEW t \in Tags, NEW j \in 0..3, b[i] = Badge!Byte(t, j)
      PROVE  t \in p
  <2>1. n + i \in 1..Len(q) /\ i \in 1..Len(q) - n
    BY Len(q) \in Nat
  <2>2. q[n + i] = Badge!Byte(t, j)
    BY <1>1, <2>1
  <2>. QED BY <2>1, <2>2 DEF BytesPresented
<1>. QED BY <1>1 DEF BytesPresented

(* The first byte is skipped: if it is taken for a mark and is none, its    *)
(* tag did not come whole.                                                  *)
LEMMA LedSeeks == ASSUME BadgeInv, LedInv, Badge!Seeks PROVE LedInv'
<1>. DEFINE q == Arriving
            b == Arriving'
<1>1. /\ field = 0 /\ serial # <<>> /\ serial' = Tail(serial)
      /\ field' = (IF Badge!IsMark(Head(serial)) THEN 1 ELSE 0)
      /\ misled' = (misled \/ Head(serial) \in Marked)
      /\ UNCHANGED <<later, presented, whole>>
  BY DEF Badge!Seeks
<1>2. /\ q \in Seq(Badge!Bytes) /\ b \in Seq(Badge!Bytes)
      /\ Len(b) = Len(q) - 1 /\ Len(q) \in Nat /\ Len(q) >= 1
      /\ \A i \in 1..Len(q) - 1 : b[i] = q[1 + i]
      /\ Head(serial) = q[1]
  BY <1>1, BadgeTyped, HeadTaken DEF Arriving
<1>. HIDE DEF q, b
<1>3. BytesPresented(q, presented) /\ whole \subseteq presented /\ presented \subseteq Tags
  BY LedTyped, BadgeTyped DEF q
<1>4. BytesPresented(b, presented')
  BY <1>1, <1>2, <1>3, PresentedLater
<1>5. misled \/ AllLed(q, 0, whole)
  BY <1>1, LedTyped DEF q
<1>6. MisledInPieces'
  <2>1. CASE misled
    BY <1>1, <2>1, LedTyped DEF MisledInPieces
  <2>2. CASE ~misled /\ Head(serial) \in Marked
    <3>1. PICK t \in Tags, j \in 1..3 : q[1] = Badge!Byte(t, j)
      <4>1. q[1] \in Tags \X (1..3)
        BY <1>2, <2>2, ServicesAssumption
      <4>. QED BY <4>1 DEF Badge!Byte
    <3>2. t \in presented
      <4>1. 1 \in 1..Len(q) /\ j \in 0..3
        BY <1>2
      <4>. QED BY <1>3, <3>1, <4>1 DEF BytesPresented
    <3>3. t \notin whole
      <4>1. SUFFICES ASSUME t \in whole PROVE FALSE
        OBVIOUS
      <4>2. Led(q, 1, t, j, 0)
        <5>1. 1 \in 1..Len(q) /\ AllLed(q, 0, whole)
          BY <1>2, <1>5, <2>2
        <5>. QED BY <3>1, <4>1, <5>1 DEF AllLed
      <4>. QED BY <4>2 DEF Led
    <3>4. Badge!HasMark(t)
      BY <1>2, <2>2, <3>1 DEF Badge!HasMark
    <3>. QED BY <1>1, <3>2, <3>3, <3>4 DEF MisledInPieces
  <2>3. CASE ~misled /\ Head(serial) \notin Marked
    BY <1>1, <2>3 DEF MisledInPieces
  <2>. QED BY <2>1, <2>2, <2>3
<1>7. ASSUME ~misled, Head(serial) \notin Marked PROVE AllLed(b, field', whole')
  <2>1. ASSUME NEW i \in 1..Len(b), NEW u \in whole, NEW j \in 1..3, b[i] = Badge!Byte(u, j)
        PROVE  Led(b, i, u, j, field')
    <3>1. 1 + i \in 1..Len(q) /\ i \in 1..Len(q) - 1 /\ q[1 + i] = Badge!Byte(u, j)
      BY <1>2, <2>1
    <3>2. Led(q, 1 + i, u, j, 0)
      BY <1>5, <1>7, <3>1 DEF AllLed
    <3>3. 1 + i > j /\ q[1 + i - j] = Badge!Byte(u, 0)
      BY <3>2 DEF Led
    <3>4. CASE i > j
      <4>1. i - j \in 1..Len(q) - 1 /\ 1 + (i - j) = 1 + i - j
        BY <3>1, <3>4
      <4>. QED BY <1>2, <3>3, <3>4, <4>1 DEF Led
    <3>5. CASE ~(i > j)
      <4>1. i = j /\ 1 + i - j = 1
        BY <3>3, <3>5
      <4>2. Head(serial) = Badge!Byte(u, 0)
        BY <1>2, <3>3, <4>1
      <4>3. Badge!IsMark(Head(serial))
        BY <4>2 DEF Badge!IsMark, Badge!Byte
      <4>. QED BY <1>1, <4>1, <4>3 DEF Led
    <3>. QED BY <3>4, <3>5
  <2>. QED BY <1>1, <2>1 DEF AllLed
<1>8. NoneOf(later', whole')
  BY <1>1, LedTyped DEF NoneOf
<1>9. misled' \/ field' = 4 \/ AllLed(b, field', whole')
  BY <1>1, <1>7
<1>. QED BY <1>4, <1>6, <1>8, <1>9 DEF LedInv, b

(* A field is read: the bytes that stay are as far behind their mark.       *)
LEMMA LedReads == ASSUME BadgeInv, LedInv, Badge!ReadsField PROVE LedInv'
<1>. DEFINE q == Arriving
            b == Arriving'
<1>0. PICK n \in 1..2 : Taken(n)
  BY ReadsArrive
<1>1. /\ field \in {1, 2} /\ n <= field /\ (n = field \/ n = Len(serial))
      /\ field' = (IF n = field THEN field + 1 ELSE 0)
      /\ UNCHANGED <<later, presented, whole, misled>>
  BY <1>0, ReadsArrive DEF Taken
<1>2. /\ q \in Seq(Badge!Bytes) /\ b \in Seq(Badge!Bytes)
      /\ Len(b) = Len(q) - n /\ Len(q) \in Nat
      /\ \A i \in 1..Len(q) - n : b[i] = q[n + i]
  BY <1>0, BadgeTyped DEF Taken
<1>3. /\ Len(q) = Len(serial) + Len(later) /\ Len(serial) \in Nat /\ Len(later) \in Nat
      /\ \A i \in 1..Len(later) : q[Len(serial) + i] = later[i]
  BY BadgeTyped, Joined DEF Arriving
<1>. HIDE DEF q, b
<1>4. BytesPresented(b, presented')
  <2>1. BytesPresented(q, presented)
    BY LedTyped DEF q
  <2>. QED BY <1>1, <1>2, <2>1, PresentedLater
<1>5. NoneOf(later', whole') /\ NoneOf(later, whole)
  BY <1>1, LedTyped DEF NoneOf
<1>6. MisledInPieces'
  BY <1>1, LedTyped DEF MisledInPieces
<1>7. ASSUME ~misled PROVE AllLed(b, field', whole')
  <2>2. ASSUME NEW u, NEW i \in 1..n PROVE q[i] # Badge!Byte(u, 0)
    <3>1. CASE field = 1
      <4>1. PICK t \in presented : Follows(q, t, 0)
        BY <1>7, <3>1, BadgeTyped DEF TagReadInOrder, q
      <4>2. q[0 + 1] = Badge!Byte(t, 1)
        BY <4>1 DEF Follows
      <4>3. i = 0 + 1
        BY <1>1, <2>2, <3>1
      <4>. QED BY <4>2, <4>3, BytesDiffer
    <3>2. CASE field = 2
      <4>1. PICK t \in presented : q[1] = Badge!Byte(t, 2) /\ q[2] = Badge!Byte(t, 3)
        BY <1>7, <3>2, BadgeTyped DEF TagReadInOrder, q
      <4>2. i = 1 \/ i = 2
        BY <2>2
      <4>. QED BY <4>1, <4>2, BytesDiffer
    <3>. QED BY <1>1, <3>1, <3>2
  <2>3. ASSUME NEW i \in 1..Len(b), NEW u \in whole, NEW j \in 1..3, b[i] = Badge!Byte(u, j)
        PROVE  Led(b, i, u, j, field')
    <3>1. n + i \in 1..Len(q) /\ i \in 1..Len(q) - n /\ q[n + i] = Badge!Byte(u, j)
      BY <1>2, <2>3
    <3>2. Led(q, n + i, u, j, field)
      <4>1. AllLed(q, field, whole)
        BY <1>1, <1>7, LedTyped DEF q
      <4>. QED BY <3>1, <4>1 DEF AllLed
    <3>3. CASE n + i > j /\ q[n + i - j] = Badge!Byte(u, 0)
      <4>1. n + i - j \notin 1..n
        BY <2>2, <3>3
      <4>2. i > j /\ i - j \in 1..Len(q) - n /\ n + (i - j) = n + i - j
        BY <3>1, <3>3, <4>1
      <4>3. b[i - j] = Badge!Byte(u, 0)
        BY <1>2, <3>3, <4>2
      <4>. QED BY <4>2, <4>3 DEF Led
    <3>4. CASE field = 1 /\ n + i = j
      BY <1>1, <3>4 DEF Led
    <3>5. CASE field = 2 /\ n + i + 1 = j
      <4>1. n = 1 /\ i = 1 /\ j = 3 /\ Len(serial) = 1
        <5>1. i \in Nat /\ i >= 1 /\ n \in 1..2 /\ j \in 1..3
          BY <3>1
        <5>2. n = 1 /\ i = 1 /\ j = 3
          BY <3>5, <5>1
        <5>. QED BY <1>1, <3>5, <5>2
      <4>2. 1 \in 1..Len(later) /\ later[1] = q[2]
        BY <1>3, <3>1, <4>1
      <4>3. later[1] = Badge!Byte(u, 3)
        BY <3>1, <4>1, <4>2
      <4>. QED BY <1>5, <4>2, <4>3 DEF NoneOf
    <3>. QED BY <3>2, <3>3, <3>4, <3>5 DEF Led
  <2>. QED BY <1>1, <2>3 DEF AllLed
<1>8. misled' \/ field' = 4 \/ AllLed(b, field', whole')
  BY <1>1, <1>7
<1>. QED BY <1>4, <1>5, <1>6, <1>8 DEF LedInv, b

LEMMA LedNext == BadgeInv /\ LedInv /\ [Badge!Next]_Badge!vars => LedInv'
<1>. SUFFICES ASSUME BadgeInv, LedInv, [Badge!Next]_Badge!vars PROVE LedInv'
  OBVIOUS
<1>1. ASSUME Arriving' = Arriving, UNCHANGED <<presented, whole, misled>>,
             later' = later \/ later' = <<>>,
             field' = field \/ field' = 4 \/ (field = 3 /\ field' = 0)
      PROVE  LedInv'
  <2>1. AllLed(Arriving, 3, whole) => AllLed(Arriving, 0, whole)
    BY DEF AllLed, Led
  <2>2. misled' \/ field' = 4 \/ AllLed(Arriving', field', whole')
    BY <1>1, <2>1, LedTyped
  <2>3. NoneOf(later', whole')
    BY <1>1, LedTyped DEF NoneOf
  <2>. QED BY <1>1, <2>2, <2>3, LedTyped DEF LedInv, MisledInPieces
<1>2. CASE Badge!Arrives
  <2>1. serial' = serial \o later /\ later' = <<>> /\ UNCHANGED <<field, presented, whole, misled>>
    BY <1>2 DEF Badge!Arrives
  <2>2. Arriving' = Arriving
    BY <2>1, BadgeTyped, ConcatEmptySeq DEF Arriving
  <2>. QED BY <1>1, <2>1, <2>2
<1>3. CASE Badge!Unplugged \/ Badge!Ends \/ Badge!SendsTag \/ Badge!HandleChannelEvent
  BY <1>1, <1>3 DEF Badge!Unplugged, Badge!Ends, Badge!SendsTag, Badge!HandleChannelEvent, Arriving
<1>4. CASE UNCHANGED Badge!vars
  BY <1>1, <1>4 DEF Badge!vars, Arriving
<1>. QED BY <1>2, <1>3, <1>4, LedPresents, LedSeeks, LedReads DEF Badge!Next, Badge!Works

LEMMA BadgeStarts == Badge!Init => BadgeInv /\ LedInv
<1>. SUFFICES ASSUME Badge!Init PROVE BadgeInv /\ LedInv
  OBVIOUS
<1>1. /\ plugged = TRUE /\ serial = <<>> /\ later = <<>> /\ field = 0 /\ tag = <<>>
      /\ events = <<>> /\ status = {} /\ presented = {} /\ whole = {} /\ misled = FALSE
  BY DEF Badge!Init
<1>2. Badge!TypeOK
  <2>1. Len(<<>>) = 0 /\ TRUE \in BOOLEAN /\ FALSE \in BOOLEAN
    OBVIOUS
  <2>2. plugged \in BOOLEAN /\ misled \in BOOLEAN
    BY <1>1
  <2>. QED BY <1>1, <2>1, <2>2 DEF Badge!TypeOK
<1>3. Arriving = <<>>
  BY <1>1 DEF Arriving
<1>4. BadgeInv
  BY <1>1, <1>2, <1>3
  DEF BadgeInv, MarksFollowed, MarksIn, TagLength, TagReadInOrder, EventsInOrder, OnlyPresented
<1>5. LedInv
  BY <1>1, <1>3 DEF LedInv, BytesPresented, NoneOf, AllLed, MisledInPieces
<1>. QED BY <1>4, <1>5

(* The status only has tags that were presented, and no tag is made of the  *)
(* pieces of others, wherever a read cuts the bytes of one, until a byte of *)
(* a tag is taken for the mark, which only happens to one that came in      *)
(* pieces (icm522.go:26-50), for any tags: the half of WholeTagsShown that  *)
(* is about safety.                                                         *)
THEOREM TagsArePresented ==
    Badge!Spec => /\ [](misled \/ \A s \in status : \E t \in presented : s = Badge!Content(t))
                  /\ [](misled => \E t \in presented \ whole : Badge!HasMark(t))
<1>1. BadgeInv => (misled \/ \A s \in status : \E t \in presented : s = Badge!Content(t))
  BY DEF BadgeInv, OnlyPresented
<1>2. LedInv => (misled => \E t \in presented \ whole : Badge!HasMark(t))
  BY DEF LedInv, MisledInPieces
<1>. QED BY <1>1, <1>2, BadgeStarts, BadgeNext, LedNext, PTL DEF Badge!Spec

(* The types of the badge handler, what it reads after a mark, and where    *)
(* the bytes of whole tags lie: the inductive invariant.                    *)
THEOREM BadgeInvariance == Badge!Spec => [](BadgeInv /\ LedInv)
  BY BadgeStarts, BadgeNext, LedNext, PTL DEF Badge!Spec

-------------------------------------------------------------------------------
(* The codec.                                                               *)

LEMMA FieldsOf ==
    ASSUME NEW m \in Codec!Messages
    PROVE  /\ Codec!Fields(m) \in Seq(Cells) /\ Len(Codec!Fields(m)) \in 2..2 + MaxData
           /\ Codec!Bytes(m) \in Seq(Cells) /\ Len(Codec!Bytes(m)) = 1 + Len(Codec!Fields(m))
           /\ Codec!Bytes(m)[1] = Codec!Length(Len(Codec!Fields(m)))
           /\ \A j \in 1..Len(Codec!Fields(m)) : Codec!Bytes(m)[1 + j] = Codec!Fields(m)[j]
<1>. DEFINE h == <<[id |-> m.sender], [id |-> m.receiver]>>
            d == m.data
            l == <<Codec!Length(Len(Codec!Fields(m)))>>
            f == Codec!Fields(m)
<1>1. d \in Seq(Cells) /\ Len(d) \in 0..MaxData
  <2>1. d \in Codec!Data
    BY DEF Codec!Messages
  <2>2. PICK n \in 0..MaxData : d \in [1..n -> {[data |-> 0]}]
    BY <2>1 DEF Codec!Data
  <2>3. [data |-> 0] \in Cells /\ n \in Nat
    BY ServicesAssumption DEF Cells
  <2>4. d \in [1..n -> Cells]
    BY <2>2, <2>3
  <2>. HIDE DEF d
  <2>5. d \in Seq(Cells) /\ Len(d) = n
    BY <2>3, <2>4
  <2>. QED BY <2>5
<1>2. h \in Seq(Cells) /\ Len(h) = 2
  <2>1. m.sender \in Ids /\ m.receiver \in Ids
    BY DEF Codec!Messages
  <2>2. [id |-> m.sender] \in Cells /\ [id |-> m.receiver] \in Cells
    BY <2>1 DEF Cells
  <2>. QED BY <2>2
<1>3. f = h \o d
  BY DEF Codec!Fields
<1>. HIDE DEF h, d
<1>4. f \in Seq(Cells) /\ Len(f) = 2 + Len(d)
  <2>1. h \o d \in Seq(Cells) /\ Len(h \o d) = Len(h) + Len(d)
    BY <1>1, <1>2, Joined
  <2>. QED BY <1>2, <1>3, <2>1
<1>. HIDE DEF f
<1>5. Len(f) \in 2..2 + MaxData
  BY <1>1, <1>4, ServicesAssumption
<1>6. l \in Seq(Cells) /\ Len(l) = 1 /\ l[1] = Codec!Length(Len(f))
  <2>1. Codec!Length(Len(f)) \in Cells
    BY <1>5, ServicesAssumption DEF Codec!Length, Cells
  <2>. QED BY <2>1 DEF f
<1>7. Codec!Bytes(m) = l \o f
  BY DEF Codec!Bytes, f
<1>. HIDE DEF l
<1>8. /\ l \o f \in Seq(Cells) /\ Len(l \o f) = 1 + Len(f)
      /\ (l \o f)[1] = l[1] /\ \A j \in 1..Len(f) : (l \o f)[1 + j] = f[j]
  BY <1>4, <1>6, Joined, SMTT(40)
<1>. QED BY <1>4, <1>5, <1>6, <1>7, <1>8 DEF f

(* A cell that is read is taken off the front; ...                          *)
LEMMA LiesOneLess ==
    ASSUME NEW ms \in Seq(Codec!Messages), NEW q \in Seq(Cells), NEW from, NEW read,
           Lies(q, ms, from, read),
           NEW r \in Seq(Cells), Len(q) >= 1, Len(r) = Len(q) - 1,
           \A i \in 1..Len(q) - 1 : r[i] = q[1 + i]
    PROVE  Lies(r, ms, from, read + 1)
<1>1. /\ from \in [0..Len(ms) -> Nat] /\ read \in Nat /\ Len(q) \in Nat /\ Len(ms) \in Nat
      /\ from[0] = 0 /\ from[Len(ms)] = read + Len(q)
  BY DEF Lies
<1>2. ASSUME NEW k \in 1..Len(ms), NEW j \in 1..1 + Len(Codec!Fields(ms[k])),
             from[k - 1] + j > read + 1
      PROVE  r[from[k - 1] + j - (read + 1)] = Codec!Bytes(ms[k])[j]
  <2>1. /\ from[k] = from[k - 1] + 1 + Len(Codec!Fields(ms[k]))
        /\ from[k] <= from[Len(ms)]
    BY DEF Lies
  <2>2. from[k - 1] \in Nat /\ Len(Codec!Fields(ms[k])) \in Nat
    <3>1. k - 1 \in 0..Len(ms) /\ ms[k] \in Codec!Messages
      BY <1>1
    <3>2. from[k - 1] \in Nat
      BY <1>1, <3>1
    <3>3. Len(Codec!Fields(ms[k])) \in 2..2 + MaxData
      BY <3>1, FieldsOf
    <3>. QED BY <3>2, <3>3
  <2>3. q[from[k - 1] + j - read] = Codec!Bytes(ms[k])[j]
    <3>1. from[k - 1] + j > read
      BY <1>1, <1>2, <2>2
    <3>. QED BY <3>1 DEF Lies
  <2>. DEFINE i == from[k - 1] + j - (read + 1)
  <2>4. i \in 1..Len(q) - 1 /\ 1 + i = from[k - 1] + j - read
    <3>. DEFINE x == from[k - 1]
    <3>1. x + j <= from[Len(ms)] /\ x \in Nat /\ j \in Nat
      BY <1>1, <2>1, <2>2
    <3>2. x + j <= read + Len(q) /\ x + j > read + 1
      BY <1>1, <1>2, <3>1
    <3>. HIDE DEF x
    <3>3. x + j - (read + 1) \in 1..Len(q) - 1 /\ 1 + (x + j - (read + 1)) = x + j - read
      BY <1>1, <3>1, <3>2
    <3>. QED BY <3>3 DEF x
  <2>. QED BY <2>3, <2>4
<1>3. from[Len(ms)] = (read + 1) + Len(r)
  BY <1>1
<1>4. \A k \in 1..Len(ms) : /\ from[k] = from[k - 1] + 1 + Len(Codec!Fields(ms[k]))
                            /\ from[k] <= from[Len(ms)]
  BY DEF Lies
<1>. QED BY <1>1, <1>2, <1>3, <1>4 DEF Lies

(* ... and it is the one that the message being read says.                  *)
LEMMA NextCell ==
    ASSUME NEW ms, NEW q, NEW from, NEW read, Lies(q, ms, from, read),
           NEW k \in 1..Len(ms), NEW j \in 1..1 + Len(Codec!Fields(ms[k])),
           from[k - 1] \in Nat, read = from[k - 1] + j - 1
    PROVE  q[1] = Codec!Bytes(ms[k])[j]
<1>1. from[k - 1] + j > read /\ from[k - 1] + j - read = 1
  OBVIOUS
<1>. QED BY <1>1 DEF Lies

(* A message that is written comes after the others.                        *)
LiesAfter(q, ms, from, read, n) ==
    \E after : Lies(q, ms, after, read) /\ \A k \in 0..n : after[k] = from[k]

LEMMA LiesOneMore ==
    ASSUME NEW ms \in Seq(Codec!Messages), NEW q \in Seq(Cells), NEW from, NEW read,
           Lies(q, ms, from, read), NEW m \in Codec!Messages,
           NEW r \in Seq(Cells), r = q \o Codec!Bytes(m),
           NEW ns \in Seq(Codec!Messages), ns = Append(ms, m)
    PROVE  LiesAfter(r, ns, from, read, Len(ms))
<1>. DEFINE b == Codec!Bytes(m)
            l == 1 + Len(Codec!Fields(m))
            end == from[Len(ms)]
            after == [k \in 0..Len(ms) + 1 |-> IF k <= Len(ms) THEN from[k] ELSE end + l]
<1>1. b \in Seq(Cells) /\ Len(b) = l /\ l \in Nat /\ l >= 1
  BY FieldsOf
<1>2. /\ from \in [0..Len(ms) -> Nat] /\ read \in Nat /\ Len(q) \in Nat /\ Len(ms) \in Nat
      /\ from[0] = 0 /\ end = read + Len(q)
  BY DEF Lies
<1>3. Len(ns) = Len(ms) + 1 /\ ns[Len(ms) + 1] = m /\ \A k \in 1..Len(ms) : ns[k] = ms[k]
  BY <1>2
<1>4. /\ after \in [0..Len(ms) + 1 -> Nat] /\ \A k \in 0..Len(ms) : after[k] = from[k]
      /\ after[Len(ms) + 1] = end + l
  <2>1. end \in Nat /\ end + l \in Nat
    BY <1>1, <1>2
  <2>2. ASSUME NEW k \in 0..Len(ms) + 1 PROVE (IF k <= Len(ms) THEN from[k] ELSE end + l) \in Nat
    <3>1. CASE k <= Len(ms)
      <4>1. k \in 0..Len(ms)
        BY <1>2, <3>1
      <4>2. from[k] \in Nat
        BY <1>2, <4>1
      <4>. QED BY <3>1, <4>2
    <3>2. CASE ~(k <= Len(ms))
      BY <2>1, <3>2
    <3>. QED BY <3>1, <3>2
  <2>3. \A k \in 0..Len(ms) : k \in 0..Len(ms) + 1 /\ k <= Len(ms)
    BY <1>2
  <2>4. Len(ms) + 1 \in 0..Len(ms) + 1 /\ ~(Len(ms) + 1 <= Len(ms))
    BY <1>2
  <2>. QED BY <2>2, <2>3, <2>4
<1>5. /\ r \in Seq(Cells) /\ Len(r) = Len(q) + l
      /\ \A i \in 1..Len(q) : r[i] = q[i]
      /\ \A i \in 1..l : r[Len(q) + i] = b[i]
  <2>1. /\ q \o b \in Seq(Cells) /\ Len(q \o b) = Len(q) + Len(b)
    BY <1>1, Joined
  <2>2. \A i \in 1..Len(q) : (q \o b)[i] = q[i]
    BY <1>1, Joined
  <2>3. \A i \in 1..Len(b) : (q \o b)[Len(q) + i] = b[i]
    BY <1>1, Joined
  <2>. QED BY <1>1, <2>1, <2>2, <2>3
<1>. HIDE DEF after
<1>6. ASSUME NEW k \in 1..Len(ms)
      PROVE  /\ after[k] = after[k - 1] + 1 + Len(Codec!Fields(ns[k]))
             /\ after[k] <= after[Len(ns)]
             /\ \A j \in 1..1 + Len(Codec!Fields(ns[k])) :
                   after[k - 1] + j > read => r[after[k - 1] + j - read] = Codec!Bytes(ns[k])[j]
  <2>1. k - 1 \in 0..Len(ms) /\ k \in 0..Len(ms) /\ ns[k] = ms[k] /\ ms[k] \in Codec!Messages
    BY <1>2, <1>3
  <2>2. after[k] = from[k] /\ after[k - 1] = from[k - 1] /\ from[k - 1] \in Nat /\ from[k] \in Nat
    BY <1>2, <1>4, <2>1
  <2>3. from[k] = from[k - 1] + 1 + Len(Codec!Fields(ms[k])) /\ from[k] <= end
    BY DEF Lies
  <2>4. Len(Codec!Fields(ms[k])) \in Nat
    BY <2>1, FieldsOf
  <2>5. ASSUME NEW j \in 1..1 + Len(Codec!Fields(ms[k])), from[k - 1] + j > read
        PROVE  r[from[k - 1] + j - read] = Codec!Bytes(ms[k])[j]
    <3>1. q[from[k - 1] + j - read] = Codec!Bytes(ms[k])[j]
      BY <2>5 DEF Lies
    <3>2. from[k - 1] + j - read \in 1..Len(q)
      <4>. DEFINE x == from[k - 1]
            y == Len(Codec!Fields(ms[k]))
            z == from[k]
      <4>0. x \in Nat /\ y \in Nat /\ z \in Nat /\ z = x + 1 + y /\ z <= end /\ j \in 1..1 + y
        BY <2>2, <2>3, <2>4
      <4>1. x + j <= end /\ x \in Nat /\ j \in Nat
        <5>. HIDE DEF x, y, z
        <5>1. x + j <= z
          BY <4>0
        <5>. QED BY <1>2, <4>0, <5>1
      <4>2. x + j > read /\ x + j <= read + Len(q)
        BY <1>2, <2>5, <4>1
      <4>. HIDE DEF x
      <4>3. x + j - read \in 1..Len(q)
        BY <1>2, <4>1, <4>2
      <4>. QED BY <4>3 DEF x
    <3>. QED BY <1>5, <3>1, <3>2
  <2>6. after[k] <= after[Len(ns)]
    BY <1>1, <1>2, <1>3, <1>4, <2>2, <2>3
  <2>. QED BY <2>1, <2>2, <2>3, <2>5, <2>6
<1>7. LET k == Len(ms) + 1 IN
      /\ after[k] = after[k - 1] + 1 + Len(Codec!Fields(ns[k]))
      /\ after[k] <= after[Len(ns)]
      /\ \A j \in 1..1 + Len(Codec!Fields(ns[k])) :
            after[k - 1] + j > read => r[after[k - 1] + j - read] = Codec!Bytes(ns[k])[j]
  <2>1. (Len(ms) + 1) - 1 = Len(ms) /\ Len(ms) \in 0..Len(ms)
    BY <1>2
  <2>2. after[Len(ms)] = end /\ after[Len(ms) + 1] = end + l /\ end + l \in Nat /\ end \in Nat
    BY <1>1, <1>2, <1>4, <2>1
  <2>3. after[Len(ms) + 1] = after[(Len(ms) + 1) - 1] + 1 + Len(Codec!Fields(ns[Len(ms) + 1]))
    <3>1. Len(Codec!Fields(m)) \in Nat
      BY FieldsOf
    <3>2. end + l = end + 1 + Len(Codec!Fields(m))
      <4>. DEFINE x == Len(Codec!Fields(m))
      <4>1. x \in Nat /\ end \in Nat
        BY <2>2, <3>1
      <4>. HIDE DEF x, end
      <4>2. end + (1 + x) = end + 1 + x
        BY <4>1
      <4>. QED BY <4>2 DEF x
    <3>3. ns[Len(ms) + 1] = m
      BY <1>3
    <3>. HIDE DEF end, l
    <3>. QED BY <2>1, <2>2, <3>2, <3>3
  <2>4. ASSUME NEW j \in 1..l PROVE r[end + j - read] = b[j]
    <3>1. end + j - read = Len(q) + j
      BY <1>1, <1>2
    <3>. QED BY <1>5, <3>1
  <2>5. after[Len(ms) + 1] <= after[Len(ns)]
    BY <1>3, <2>2
  <2>6. ASSUME NEW j \in 1..1 + Len(Codec!Fields(ns[Len(ms) + 1]))
        PROVE  r[after[(Len(ms) + 1) - 1] + j - read] = Codec!Bytes(ns[Len(ms) + 1])[j]
    <3>1. ns[Len(ms) + 1] = m
      BY <1>3
    <3>2. j \in 1..l
      BY <3>1
    <3>3. r[end + j - read] = b[j]
      BY <2>4, <3>2
    <3>. QED BY <2>1, <2>2, <3>1, <3>3
  <2>. QED BY <2>3, <2>5, <2>6
<1>8. after[0] = 0 /\ after[Len(ns)] = read + Len(r) /\ after \in [0..Len(ns) -> Nat]
  <2>1. 0 \in 0..Len(ms)
    BY <1>2
  <2>. QED BY <1>1, <1>2, <1>3, <1>4, <1>5, <2>1
<1>9. Lies(r, ns, after, read)
  <2>1. \A k \in 1..Len(ns) : k \in 1..Len(ms) \/ k = Len(ms) + 1
    BY <1>2, <1>3
  <2>. QED BY <1>2, <1>6, <1>7, <1>8, <2>1 DEF Lies
<1>. QED BY <1>4, <1>9 DEF LiesAfter

LEMMA CodecStarts == Codec!Init => CodecInv
<1>. SUFFICES ASSUME Codec!Init PROVE CodecInv
  OBVIOUS
<1>1. /\ sent = <<>> /\ cells = <<>> /\ partial = <<>> /\ closed = FALSE
      /\ length = 0 /\ message = <<>> /\ parsed = <<>> /\ ended = FALSE
  BY DEF Codec!Init
<1>2. CodecTyped /\ Codec!AsWritten
  <2>1. Len(sent) = 0 /\ Len(parsed) = 0
    BY <1>1
  <2>2. /\ sent \in Seq(Codec!Messages) /\ parsed \in Seq(Seq(Cells))
        /\ cells \in Seq(Cells) /\ partial \in Seq(Cells) /\ message \in Seq(Cells)
    BY <1>1
  <2>3. CodecTyped
    <3>1. closed \in BOOLEAN /\ ended \in BOOLEAN
      BY <1>1
    <3>2. Len(sent) <= MaxMessages /\ Len(parsed) <= Len(sent)
      BY <2>1, ServicesAssumption
    <3>. QED BY <2>2, <3>1, <3>2 DEF CodecTyped
  <2>4. Codec!AsWritten
    BY <2>1 DEF Codec!AsWritten
  <2>. QED BY <2>3, <2>4
<1>. DEFINE from == [k \in 0..0 |-> 0]
<1>3. Len(Rest) = 0
  <2>1. <<>> \in Seq(Cells)
    OBVIOUS
  <2>2. cells \o partial = <<>>
    BY <1>1, <2>1, ConcatEmptySeq
  <2>. QED BY <2>2 DEF Rest
<1>4. from \in [0..0 -> Nat] /\ from[0] = 0
  OBVIOUS
<1>. HIDE DEF from
<1>5. Lies(Rest, sent, from, 0)
  BY <1>1, <1>3, <1>4 DEF Lies
<1>6. Aligned(from, 0)
  BY <1>1, <1>4 DEF Aligned
<1>. QED BY <1>2, <1>5, <1>6 DEF CodecInv

(* What is not read stays the same when the network carries some of it, and *)
(* is what is in the connection once a message was carried in full.         *)
LEMMA CodecWrites ==
    ASSUME CodecInv, NEW m \in Codec!Messages, Codec!Write(m)
    PROVE  CodecInv'
<1>1. /\ partial = <<>> /\ Len(sent) < MaxMessages
      /\ sent' = Append(sent, m) /\ partial' = Codec!Bytes(m)
      /\ UNCHANGED <<cells, closed, length, message, parsed, ended>>
  BY DEF Codec!Write
<1>2. CodecTyped /\ Codec!AsWritten
  BY DEF CodecInv
<1>3. /\ Len(sent') = Len(sent) + 1 /\ Len(sent) \in Nat /\ sent' \in Seq(Codec!Messages)
      /\ \A k \in 1..Len(sent) : sent'[k] = sent[k]
  BY <1>1, <1>2 DEF CodecTyped
<1>4. Codec!Bytes(m) \in Seq(Cells)
  BY FieldsOf
<1>5. CodecTyped'
  BY <1>1, <1>2, <1>3, <1>4, ServicesAssumption DEF CodecTyped
<1>6. Len(parsed) \in Nat /\ Len(parsed) <= Len(sent)
  BY <1>2 DEF CodecTyped
<1>7. Codec!AsWritten'
  BY <1>1, <1>2, <1>3, <1>6 DEF Codec!AsWritten
<1>8. PICK from, read : Lies(Rest, sent, from, read) /\ Aligned(from, read)
  BY DEF CodecInv
<1>9. Rest = cells /\ Rest' = cells \o Codec!Bytes(m)
  BY <1>1, <1>2, ConcatEmptySeq DEF Rest, CodecTyped
<1>10. PICK after : Lies(Rest', sent', after, read) /\ \A k \in 0..Len(sent) : after[k] = from[k]
  <2>1. sent \in Seq(Codec!Messages) /\ cells \in Seq(Cells)
    BY <1>2 DEF CodecTyped
  <2>2. Rest \in Seq(Cells)
    BY <1>9, <2>1
  <2>3. Rest' = Rest \o Codec!Bytes(m)
    BY <1>9
  <2>. DEFINE r == Rest'
              ns == sent'
  <2>4. /\ r \in Seq(Cells) /\ r = Rest \o Codec!Bytes(m)
        /\ ns \in Seq(Codec!Messages) /\ ns = Append(sent, m)
    <3>1. Rest \o Codec!Bytes(m) \in Seq(Cells)
      BY <1>4, <2>2, Joined
    <3>. QED BY <1>1, <1>3, <2>3, <3>1
  <2>. HIDE DEF r, ns
  <2>5. LiesAfter(r, ns, from, read, Len(sent))
    BY <1>8, <2>1, <2>2, <2>4, LiesOneMore
  <2>. QED BY <2>5 DEF r, ns, LiesAfter
<1>11. Aligned(after, read)'
  <2>1. after[Len(parsed)] = from[Len(parsed)]
    BY <1>3, <1>6, <1>10
  <2>2. CASE length = 0
    BY <1>1, <1>8, <2>1, <2>2 DEF Aligned
  <2>3. CASE length # 0
    <3>1. Len(parsed) < Len(sent)
      BY <1>8, <2>3 DEF Aligned
    <3>2. sent'[Len(parsed) + 1] = sent[Len(parsed) + 1] /\ Len(parsed) < Len(sent')
      BY <1>3, <1>6, <3>1
    <3>. QED BY <1>1, <1>8, <2>1, <2>3, <3>2 DEF Aligned
  <2>. QED BY <2>2, <2>3
<1>. QED BY <1>5, <1>7, <1>10, <1>11 DEF CodecInv

LEMMA CodecCarries ==
    ASSUME CodecInv, NEW n, Codec!Carries(n)
    PROVE  CodecInv'
<1>1. /\ n \in 1..Len(partial)
      /\ cells' = cells \o SubSeq(partial, 1, n)
      /\ partial' = SubSeq(partial, n + 1, Len(partial))
      /\ UNCHANGED <<sent, closed, length, message, parsed, ended>>
  BY DEF Codec!Carries
<1>2. CodecTyped /\ Codec!AsWritten
  BY DEF CodecInv
<1>3. cells \in Seq(Cells) /\ partial \in Seq(Cells)
  BY <1>2 DEF CodecTyped
<1>4. cells' \in Seq(Cells) /\ partial' \in Seq(Cells) /\ Rejoins(cells', partial', cells, partial)
  <2>1. cells' \in Seq(Cells)
    BY <1>1, <1>3, Carried
  <2>2. SubSeq(partial, n + 1, Len(partial)) \in Seq(Cells)
    BY <1>1, <1>3, Carried
  <2>3. Rejoins(cells', SubSeq(partial, n + 1, Len(partial)), cells, partial)
    BY <1>1, <1>3, Carried
  <2>. QED BY <1>1, <2>1, <2>2, <2>3
<1>5. Rest' = Rest
  BY <1>4 DEF Rest, Rejoins
<1>6. CodecTyped' /\ Codec!AsWritten'
  BY <1>1, <1>2, <1>4 DEF CodecTyped, Codec!AsWritten
<1>7. PICK from, read : Lies(Rest, sent, from, read) /\ Aligned(from, read)
  BY DEF CodecInv
<1>8. Lies(Rest', sent', from, read) /\ Aligned(from, read)'
  BY <1>1, <1>5, <1>7 DEF Aligned
<1>. QED BY <1>6, <1>8 DEF CodecInv

(* A read takes the next cell.                                              *)
LEMMA CellTaken ==
    ASSUME CodecTyped, cells # <<>>, cells' = Tail(cells), partial' = partial
    PROVE  /\ cells' \in Seq(Cells) /\ Rest \in Seq(Cells) /\ Rest' \in Seq(Cells)
           /\ Len(Rest) \in Nat /\ Len(Rest) >= 1 /\ Head(cells) = Rest[1] /\ Head(cells) \in Cells
           /\ Len(Rest') = Len(Rest) - 1
           /\ \A i \in 1..Len(Rest) - 1 : Rest'[i] = Rest[1 + i]
<1>1. cells \in Seq(Cells) /\ partial \in Seq(Cells) /\ Rest' = Tail(cells) \o partial
  BY DEF CodecTyped, Rest
<1>2. cells' \in Seq(Cells) /\ Head(cells) \in Cells
  BY <1>1
<1>3. Rest \in Seq(Cells) /\ Rest' \in Seq(Cells)
  <2>1. cells \o partial \in Seq(Cells)
    BY <1>1, HeadTaken
  <2>2. Tail(cells) \o partial \in Seq(Cells)
    BY <1>1, HeadTaken
  <2>. QED BY <1>1, <2>1, <2>2 DEF Rest
<1>4. Len(Rest) >= 1 /\ Head(cells) = Rest[1]
  <2>1. Len(cells \o partial) >= 1
    BY <1>1, HeadTaken
  <2>2. Head(cells) = (cells \o partial)[1]
    BY <1>1, HeadTaken
  <2>. QED BY <2>1, <2>2 DEF Rest
<1>5. Len(Rest') = Len(Rest) - 1
  <2>1. Len(Tail(cells) \o partial) = Len(Tail(cells)) + Len(partial)
    BY <1>1, <1>2, ConcatProperties
  <2>2. Len(cells \o partial) = Len(cells) + Len(partial)
    BY <1>1, ConcatProperties
  <2>3. Len(Tail(cells)) = Len(cells) - 1 /\ Len(cells) \in Nat /\ Len(partial) \in Nat
    BY <1>1
  <2>. QED BY <1>1, <2>1, <2>2, <2>3 DEF Rest
<1>6. \A i \in 1..Len(cells \o partial) - 1 : (Tail(cells) \o partial)[i] = (cells \o partial)[1 + i]
  BY <1>1, HeadTaken
<1>7. \A i \in 1..Len(Rest) - 1 : Rest'[i] = Rest[1 + i]
  BY <1>1, <1>6 DEF Rest
<1>8. Len(Rest) \in Nat
  BY <1>3
<1>. HIDE DEF Rest
<1>. QED BY <1>2, <1>3, <1>4, <1>5, <1>7, <1>8

LEMMA CodecReadsLength == ASSUME CodecInv, Codec!ReadsLength PROVE CodecInv'
<1>1. /\ length = 0 /\ cells # <<>> /\ cells' = Tail(cells)
      /\ UNCHANGED <<sent, partial, closed, message, parsed>>
  BY DEF Codec!ReadsLength
<1>2. CodecTyped /\ Codec!AsWritten
  BY DEF CodecInv
<1>3. PICK from, read : Lies(Rest, sent, from, read) /\ Aligned(from, read)
  BY DEF CodecInv
<1>4. message = <<>> /\ read = from[Len(parsed)]
  BY <1>1, <1>3 DEF Aligned
<1>5. /\ from \in [0..Len(sent) -> Nat] /\ read \in Nat /\ from[Len(sent)] = read + Len(Rest)
  BY <1>3 DEF Lies
<1>6. sent \in Seq(Codec!Messages) /\ Len(sent) \in Nat /\ Len(parsed) \in Nat /\ Len(parsed) <= Len(sent)
  BY <1>2 DEF CodecTyped
<1>7. Len(Rest) \in Nat /\ Len(Rest) >= 1 /\ Head(cells) = Rest[1] /\ cells' \in Seq(Cells)
  BY <1>1, <1>2, CellTaken
<1>8. Len(parsed) < Len(sent)
  BY <1>4, <1>5, <1>6, <1>7
<1>. DEFINE k == Len(parsed) + 1
            f == Codec!Fields(sent[k])
<1>9. k \in 1..Len(sent) /\ sent[k] \in Codec!Messages /\ k - 1 = Len(parsed) /\ k - 1 \in 0..Len(sent)
  BY <1>6, <1>8
<1>10. Len(f) \in 2..2 + MaxData /\ f \in Seq(Cells)
  BY <1>9, FieldsOf
<1>11. Head(cells) = Codec!Length(Len(f))
  <2>1. read = from[k - 1] + 1 - 1 /\ from[k - 1] \in Nat /\ 1 \in 1..1 + Len(f)
    BY <1>4, <1>5, <1>9, <1>10
  <2>2. Rest[1] = Codec!Bytes(sent[k])[1]
    BY <1>3, <1>9, <2>1, NextCell
  <2>3. Codec!Bytes(sent[k])[1] = Codec!Length(Len(f))
    BY <1>9, FieldsOf
  <2>. QED BY <1>7, <2>2, <2>3
<1>12. Codec!LengthOf(Head(cells)) = Len(f) /\ ~Codec!TooShort(Len(f))
  BY <1>10, <1>11, ServicesAssumption DEF Codec!LengthOf, Codec!Length, Codec!TooShort, Codec!Header
<1>13. length' = Len(f) /\ ended' = FALSE
  BY <1>12 DEF Codec!ReadsLength
<1>14. Lies(Rest', sent', from, read + 1)
  <2>1. Rest \in Seq(Cells) /\ Rest' \in Seq(Cells) /\ Len(Rest') = Len(Rest) - 1
    BY <1>1, <1>2, CellTaken
  <2>2. \A i \in 1..Len(Rest) - 1 : Rest'[i] = Rest[1 + i]
    BY <1>1, <1>2, CellTaken
  <2>3. Lies(Rest', sent, from, read + 1)
    BY <1>3, <1>6, <1>7, <2>1, <2>2, LiesOneLess
  <2>. QED BY <1>1, <2>3
<1>15. Aligned(from, read + 1)'
  <2>1. message' = <<>> /\ Len(message') = 0 /\ parsed' = parsed /\ sent' = sent /\ length' # 0
    BY <1>1, <1>4, <1>10, <1>13, ServicesAssumption
  <2>2. SubSeq(f, 1, 0) = <<>> /\ 0 < Len(f) /\ read + 1 = from[Len(parsed)] + 1 + 0
    BY <1>4, <1>5, <1>10, ServicesAssumption
  <2>. QED BY <1>8, <1>13, <2>1, <2>2 DEF Aligned
<1>16. CodecTyped' /\ Codec!AsWritten'
  BY <1>1, <1>2, <1>7, <1>13 DEF CodecTyped, Codec!AsWritten
<1>. QED BY <1>14, <1>15, <1>16 DEF CodecInv

LEMMA CodecReadsField == ASSUME CodecInv, Codec!ReadsField PROVE CodecInv'
<1>. DEFINE m == Append(message, Head(cells))
<1>1. /\ length # 0 /\ cells # <<>> /\ cells' = Tail(cells)
      /\ IF Len(m) = length
         THEN parsed' = Append(parsed, m) /\ length' = 0 /\ message' = <<>>
         ELSE message' = m /\ parsed' = parsed /\ length' = length
      /\ UNCHANGED <<sent, partial, closed, ended>>
  BY DEF Codec!ReadsField
<1>2. CodecTyped /\ Codec!AsWritten
  BY DEF CodecInv
<1>3. PICK from, read : Lies(Rest, sent, from, read) /\ Aligned(from, read)
  BY DEF CodecInv
<1>. DEFINE k == Len(parsed) + 1
            f == Codec!Fields(sent[k])
            c == Len(message)
<1>4. /\ Len(parsed) < Len(sent) /\ length = Len(f) /\ c < Len(f)
      /\ message = SubSeq(f, 1, c) /\ read = from[Len(parsed)] + 1 + c
  BY <1>1, <1>3 DEF Aligned
<1>5. from \in [0..Len(sent) -> Nat] /\ read \in Nat
  BY <1>3 DEF Lies
<1>6. /\ sent \in Seq(Codec!Messages) /\ Len(sent) \in Nat /\ message \in Seq(Cells) /\ c \in Nat
      /\ parsed \in Seq(Seq(Cells)) /\ Len(parsed) \in Nat
  BY <1>2 DEF CodecTyped
<1>7. k \in 1..Len(sent) /\ sent[k] \in Codec!Messages /\ k - 1 = Len(parsed) /\ k - 1 \in 0..Len(sent)
  BY <1>4, <1>6
<1>8. Len(f) \in Nat /\ Len(f) >= 2 /\ f \in Seq(Cells)
  <2>1. Len(f) \in 2..2 + MaxData /\ f \in Seq(Cells)
    BY <1>7, FieldsOf
  <2>. QED BY <2>1, ServicesAssumption
<1>. DEFINE x == from[Len(parsed)]
<1>9. x \in Nat /\ from[k - 1] = x /\ read = x + 1 + c /\ c + 1 <= Len(f)
  BY <1>4, <1>5, <1>6, <1>7, <1>8
<1>. HIDE DEF x, c
<1>10. Head(cells) = f[c + 1] /\ Head(cells) \in Cells /\ cells' \in Seq(Cells)
  <2>1. /\ c + 2 \in 1..1 + Len(f) /\ from[k - 1] \in Nat /\ read = from[k - 1] + (c + 2) - 1
        /\ c + 1 \in 1..Len(f) /\ c + 2 = 1 + (c + 1)
    BY <1>6, <1>8, <1>9
  <2>2. Rest[1] = Codec!Bytes(sent[k])[c + 2]
    <3>. DEFINE j == c + 2
    <3>1. j \in 1..1 + Len(f) /\ from[k - 1] \in Nat /\ read = from[k - 1] + j - 1
      BY <2>1
    <3>. HIDE DEF j, k
    <3>2. Rest[1] = Codec!Bytes(sent[k])[j]
      BY <1>3, <1>7, <3>1, NextCell
    <3>. QED BY <3>2 DEF j
  <2>3. \A j \in 1..Len(f) : Codec!Bytes(sent[k])[1 + j] = f[j]
    BY <1>7, FieldsOf
  <2>4. Head(cells) = Rest[1] /\ Head(cells) \in Cells /\ cells' \in Seq(Cells)
    BY <1>1, <1>2, CellTaken
  <2>. QED BY <2>1, <2>2, <2>3, <2>4
<1>. HIDE DEF f
<1>11. /\ m \in Seq(Cells) /\ Len(m) = c + 1 /\ m = SubSeq(f, 1, c + 1)
       /\ c + 1 = Len(f) => m = f
  <2>1. m \in Seq(Cells) /\ Len(m) = c + 1 /\ m[c + 1] = f[c + 1] /\ \A i \in 1..c : m[i] = message[i]
    BY <1>6, <1>10 DEF c
  <2>2. \A i \in 1..c : message[i] = f[i]
    <3>1. \A i \in 1..c : SubSeq(f, 1, c)[i] = f[i]
      BY <1>4, <1>6, <1>8
    <3>. QED BY <1>4, <3>1
  <2>3. \A i \in 1..c + 1 : m[i] = f[i]
    BY <1>6, <2>1, <2>2
  <2>4. /\ SubSeq(f, 1, c + 1) \in Seq(Cells) /\ Len(SubSeq(f, 1, c + 1)) = c + 1
        /\ \A i \in 1..c + 1 : SubSeq(f, 1, c + 1)[i] = f[i]
    BY <1>4, <1>6, <1>8
  <2>. HIDE DEF m
  <2>5. m = SubSeq(f, 1, c + 1)
    BY <2>1, <2>3, <2>4, SeqEqual
  <2>6. ASSUME c + 1 = Len(f) PROVE m = f
    BY <1>8, <2>1, <2>3, <2>6, SeqEqual
  <2>. QED BY <2>1, <2>5, <2>6
<1>. HIDE DEF m
<1>12. Lies(Rest', sent', from, read + 1)
  <2>1. /\ Rest \in Seq(Cells) /\ Rest' \in Seq(Cells) /\ Len(Rest') = Len(Rest) - 1
        /\ Len(Rest) >= 1
    BY <1>1, <1>2, CellTaken
  <2>2. \A i \in 1..Len(Rest) - 1 : Rest'[i] = Rest[1 + i]
    BY <1>1, <1>2, CellTaken
  <2>3. Lies(Rest', sent, from, read + 1)
    BY <1>3, <1>6, <2>1, <2>2, LiesOneLess
  <2>. QED BY <1>1, <2>3
<1>13. CASE c + 1 = Len(f)
  <2>1. parsed' = Append(parsed, f) /\ length' = 0 /\ message' = <<>>
    BY <1>1, <1>4, <1>11, <1>13
  <2>2. /\ Len(parsed') = k /\ parsed' \in Seq(Seq(Cells)) /\ parsed'[k] = f
        /\ \A i \in 1..Len(parsed) : parsed'[i] = parsed[i]
    BY <1>6, <1>8, <2>1
  <2>3. read + 1 = from[k]
    <3>1. from[k] = from[k - 1] + 1 + Len(f)
      BY <1>3, <1>7 DEF Lies, f
    <3>2. from[k] = x + 1 + Len(f)
      BY <1>9, <3>1
    <3>3. read + 1 = x + 1 + (c + 1)
      BY <1>6, <1>9
    <3>. QED BY <1>13, <3>2, <3>3
  <2>4. Aligned(from, read + 1)'
    BY <2>1, <2>2, <2>3 DEF Aligned
  <2>5. Codec!AsWritten'
    <3>1. ASSUME NEW i \in 1..k PROVE i <= Len(sent) /\ parsed'[i] = Codec!Fields(sent[i])
      <4>1. CASE i = k
        BY <1>7, <2>2, <4>1 DEF f
      <4>2. CASE i # k
        <5>1. i \in 1..Len(parsed)
          BY <1>6, <4>2
        <5>. QED BY <1>2, <2>2, <5>1 DEF Codec!AsWritten
      <4>. QED BY <4>1, <4>2
    <3>. QED BY <1>1, <2>2, <3>1 DEF Codec!AsWritten
  <2>6. CodecTyped'
    <3>1. Len(parsed') <= Len(sent)
      BY <1>7, <2>2
    <3>2. message' \in Seq(Cells)
      BY <2>1
    <3>. QED BY <1>1, <1>2, <1>10, <2>2, <3>1, <3>2 DEF CodecTyped
  <2>. QED BY <1>12, <2>4, <2>5, <2>6 DEF CodecInv
<1>14. CASE c + 1 # Len(f)
  <2>1. message' = m /\ parsed' = parsed /\ length' = length
    BY <1>1, <1>4, <1>11, <1>14
  <2>2. Len(message') = c + 1 /\ c + 1 < Len(f) /\ message' = SubSeq(f, 1, c + 1)
    BY <1>4, <1>6, <1>8, <1>11, <1>14, <2>1
  <2>3. read + 1 = from[Len(parsed)] + 1 + (c + 1)
    <3>1. read + 1 = x + 1 + (c + 1)
      BY <1>6, <1>9
    <3>. QED BY <3>1 DEF x
  <2>4. Aligned(from, read + 1)'
    BY <1>1, <1>4, <2>1, <2>2, <2>3 DEF Aligned, f
  <2>5. CodecTyped' /\ Codec!AsWritten'
    BY <1>1, <1>2, <1>10, <1>11, <2>1 DEF CodecTyped, Codec!AsWritten
  <2>. QED BY <1>12, <2>4, <2>5 DEF CodecInv
<1>. QED BY <1>13, <1>14

LEMMA CodecNext == CodecInv /\ [Codec!Next]_Codec!vars => CodecInv'
<1>. SUFFICES ASSUME CodecInv, [Codec!Next]_Codec!vars PROVE CodecInv'
  OBVIOUS
<1>1. CodecTyped /\ Codec!AsWritten
  BY DEF CodecInv
<1>2. PICK from, read : Lies(Rest, sent, from, read) /\ Aligned(from, read)
  BY DEF CodecInv
<1>3. CASE UNCHANGED <<sent, cells, partial, length, message, parsed>> /\ closed' \in BOOLEAN /\ ended' \in BOOLEAN
  <2>1. Rest' = Rest /\ sent' = sent
    BY <1>3 DEF Rest
  <2>2. Lies(Rest', sent', from, read)
    BY <1>2, <2>1
  <2>3. Aligned(from, read)'
    BY <1>2, <1>3 DEF Aligned
  <2>4. CodecTyped' /\ Codec!AsWritten'
    BY <1>1, <1>3 DEF CodecTyped, Codec!AsWritten
  <2>. QED BY <2>2, <2>3, <2>4 DEF CodecInv
<1>4. CASE UNCHANGED Codec!vars \/ Codec!Closes \/ Codec!ReadsEnd
  BY <1>1, <1>3, <1>4 DEF CodecTyped, Codec!vars, Codec!Closes, Codec!ReadsEnd
<1>. QED BY <1>4, CodecWrites, CodecCarries, CodecReadsLength, CodecReadsField DEF Codec!Next, Codec!Reads

(* What ParseMessage returns are the messages that were written, whole and  *)
(* in their order, wherever the network cuts the bytes and the connection   *)
(* ends (messaging.go:31-68), for any number of messages of any size: the   *)
(* half of EachMessageParsed that is about safety.                          *)
THEOREM MessagesAsWritten == Codec!Spec => []Codec!AsWritten
<1>1. CodecInv => Codec!AsWritten
  BY DEF CodecInv
<1>. QED BY <1>1, CodecStarts, CodecNext, PTL DEF Codec!Spec

(* The types of the codec: a length is never more than a message has, and   *)
(* no more than that is read for it.                                        *)
THEOREM CodecTypeCorrect == Codec!Spec => []Codec!TypeOK
<1>1. CodecInv => Codec!TypeOK
  <2>. SUFFICES ASSUME CodecInv PROVE Codec!TypeOK
    OBVIOUS
  <2>1. CodecTyped
    BY DEF CodecInv
  <2>2. Len(sent) \in Nat /\ Len(parsed) \in Nat /\ Len(message) \in Nat /\ Len(sent) <= MaxMessages /\ Len(parsed) <= Len(sent)
    BY <2>1 DEF CodecTyped
  <2>3. length \in 0..Codec!Header + MaxData /\ Len(message) <= length
    <3>1. PICK from, read : Aligned(from, read)
      BY DEF CodecInv
    <3>2. CASE length = 0
      BY <3>1, <3>2, ServicesAssumption DEF Aligned, Codec!Header
    <3>3. CASE length # 0
      <4>. DEFINE k == Len(parsed) + 1
      <4>1. Len(parsed) < Len(sent) /\ length = Len(Codec!Fields(sent[k])) /\ Len(message) < length
        BY <3>1, <3>3 DEF Aligned
      <4>2. sent[k] \in Codec!Messages
        <5>1. k \in 1..Len(sent)
          BY <2>2, <4>1
        <5>. QED BY <2>1, <5>1 DEF CodecTyped
      <4>3. length \in 2..2 + MaxData
        BY <4>1, <4>2, FieldsOf
      <4>. QED BY <2>2, <4>1, <4>3, ServicesAssumption DEF Codec!Header
    <3>. QED BY <3>2, <3>3
  <2>. QED BY <2>1, <2>2, <2>3, ServicesAssumption DEF CodecTyped, Codec!TypeOK
<1>. QED BY <1>1, CodecStarts, CodecNext, PTL DEF Codec!Spec

-------------------------------------------------------------------------------
(* The systemd handler.                                                     *)

LEMMA SystemdStarts == Systemd!Init => SystemdInv
  BY DEF Systemd!Init, SystemdInv, Systemd!TypeOK, RequestsStand, Systemd!Actions, Systemd!States

LEMMA SystemdTypes == SystemdInv /\ [Systemd!Next]_Systemd!vars => Systemd!TypeOK'
<1>. SUFFICES ASSUME SystemdInv, [Systemd!Next]_Systemd!vars PROVE Systemd!TypeOK'
  OBVIOUS
<1>. USE DEF SystemdInv, Systemd!TypeOK, Systemd!Actions, Systemd!States
<1>1. CASE UNCHANGED Systemd!vars
  BY <1>1 DEF Systemd!vars
<1>2. CASE Systemd!JobRuns
  BY <1>2 DEF Systemd!JobRuns
<1>3. CASE Systemd!ConnectionBreaks \/ Systemd!Setup \/ Systemd!Teardown
  BY <1>3 DEF Systemd!ConnectionBreaks, Systemd!Setup, Systemd!Teardown, Systemd!serviceVars
<1>4. ASSUME NEW ok \in BOOLEAN, Systemd!GetActiveState(ok) PROVE Systemd!TypeOK'
  BY <1>4 DEF Systemd!GetActiveState, Systemd!serviceVars, Systemd!Unnoticed
<1>5. ASSUME NEW ok \in BOOLEAN, NEW done \in BOOLEAN, Systemd!Call(ok, done) PROVE Systemd!TypeOK'
  BY <1>5 DEF Systemd!Call, Systemd!JobFor
<1>6. CASE Systemd!NoCall \/ Systemd!Reply
  BY <1>6 DEF Systemd!NoCall, Systemd!Reply, Systemd!serviceVars
<1>7. ASSUME NEW s \in {"inactive", "failed"}, Systemd!ServiceEnds(s) PROVE Systemd!TypeOK'
  BY <1>7 DEF Systemd!ServiceEnds
<1>8. ASSUME NEW j \in {"start", "stop"}, Systemd!OthersCall(j) PROVE Systemd!TypeOK'
  BY <1>8 DEF Systemd!OthersCall
<1>9. ASSUME NEW action \in Systemd!Actions, Systemd!GetUnit(action) PROVE Systemd!TypeOK'
  BY <1>9 DEF Systemd!GetUnit, Systemd!serviceVars
<1>. QED BY <1>1, <1>2, <1>3, <1>4, <1>5, <1>6, <1>7, <1>8, <1>9 DEF Systemd!Next, Systemd!Answers

(* What systemd does by itself gets it on with what was asked for.          *)
LEMMA JobsGoOn ==
    ASSUME Systemd!TypeOK, Systemd!JobRuns, NEW action, Systemd!Underway(action)
    PROVE  Systemd!Underway(action)'
  BY DEF Systemd!TypeOK, Systemd!States, Systemd!JobRuns, Systemd!Underway

LEMMA SystemdNext == SystemdInv /\ [Systemd!Next]_Systemd!vars => SystemdInv'
<1>. SUFFICES ASSUME SystemdInv, [Systemd!Next]_Systemd!vars PROVE SystemdInv'
  OBVIOUS
<1>0. Systemd!TypeOK /\ Systemd!TypeOK' /\ RequestsStand
  BY SystemdTypes DEF SystemdInv
<1>. SUFFICES RequestsStand'
  BY <1>0 DEF SystemdInv
<1>1. CASE UNCHANGED Systemd!vars
  BY <1>0, <1>1 DEF Systemd!vars, RequestsStand, Systemd!Underway
<1>2. CASE Systemd!JobRuns
  <2>1. UNCHANGED <<step, connection, command, activeState, asked, excused>>
    BY <1>2 DEF Systemd!JobRuns
  <2>2. \A action : Systemd!Underway(action) => Systemd!Underway(action)'
    BY <1>0, <1>2, JobsGoOn
  <2>. QED BY <1>0, <2>1, <2>2 DEF RequestsStand
<1>3. CASE Systemd!ConnectionBreaks \/ Systemd!Setup \/ Systemd!Teardown
  BY <1>0, <1>3 DEF Systemd!ConnectionBreaks, Systemd!Setup, Systemd!Teardown, Systemd!serviceVars,
                    RequestsStand, Systemd!Underway
<1>4. ASSUME NEW ok \in BOOLEAN, Systemd!GetActiveState(ok) PROVE RequestsStand'
  <2>1. /\ step = "found" /\ step' = "read"
        /\ activeState' = IF ok THEN unit ELSE "unknown"
        /\ excused' = IF command = "GET" THEN excused ELSE ~ok \/ Systemd!Unnoticed
        /\ UNCHANGED <<command, asked, unit, job>>
    BY <1>4 DEF Systemd!GetActiveState, Systemd!serviceVars
  <2>2. CASE command = "GET"
    BY <1>0, <2>1, <2>2 DEF RequestsStand, Systemd!Underway
  <2>3. CASE command # "GET"
    BY <1>0, <2>1, <2>3 DEF RequestsStand, Systemd!Underway, Systemd!Unnoticed, Systemd!JobFor,
                            Systemd!TypeOK, Systemd!Actions, Systemd!States
  <2>. QED BY <2>2, <2>3
<1>5. ASSUME NEW ok \in BOOLEAN, NEW done \in BOOLEAN, Systemd!Call(ok, done) PROVE RequestsStand'
  <2>. DEFINE needed == Systemd!JobFor(command, activeState)
  <2>1. /\ step = "read" /\ step' = "called" /\ (ok => done) /\ needed # "none"
        /\ job' = (IF done THEN needed ELSE job) /\ excused' = (excused \/ ~ok)
        /\ UNCHANGED <<command, asked, unit>>
    BY <1>5 DEF Systemd!Call
  <2>2. /\ command = "SET" => needed \in {"start", "none"}
        /\ command = "RESET" => needed \in {"stop", "none"}
        /\ command = "GET" => needed = "none"
    BY DEF Systemd!JobFor
  <2>3. command \in {"SET", "RESET"}
    BY <1>0, <2>1, <2>2 DEF Systemd!TypeOK, Systemd!Actions
  <2>. HIDE DEF needed
  <2>4. ~excused' => Systemd!Underway(command)'
    BY <2>1, <2>2, <2>3 DEF Systemd!Underway
  <2>. QED BY <2>1, <2>3, <2>4 DEF RequestsStand
<1>6. CASE Systemd!NoCall
  BY <1>0, <1>6 DEF Systemd!NoCall, Systemd!serviceVars, RequestsStand, Systemd!Underway
<1>7. CASE Systemd!Reply
  BY <1>0, <1>7 DEF Systemd!Reply, Systemd!serviceVars, RequestsStand, Systemd!Underway
<1>8. ASSUME excused' = TRUE, UNCHANGED <<step, command>> PROVE RequestsStand'
  BY <1>0, <1>8 DEF RequestsStand
<1>9. CASE \/ \E s \in {"inactive", "failed"} : Systemd!ServiceEnds(s)
           \/ \E j \in {"start", "stop"} : Systemd!OthersCall(j)
  BY <1>8, <1>9 DEF Systemd!ServiceEnds, Systemd!OthersCall
<1>10. ASSUME NEW action \in Systemd!Actions, Systemd!GetUnit(action) PROVE RequestsStand'
  BY <1>0, <1>10 DEF Systemd!GetUnit, Systemd!serviceVars, RequestsStand, Systemd!Underway
<1>. QED BY <1>1, <1>2, <1>3, <1>4, <1>5, <1>6, <1>7, <1>9, <1>10 DEF Systemd!Next, Systemd!Answers

(* When a request to start or to stop was replied to, systemd does or has   *)
(* done what it asked for, unless a call failed, others interfered or a job *)
(* that had not begun was overlooked (systemd.go:80-97): the half of        *)
(* LastRequestWins that is about safety.                                    *)
THEOREM RequestsAreUnderway ==
    Systemd!Spec => [](step = "idle" /\ asked # "GET" /\ ~excused => Systemd!Underway(asked))
<1>1. SystemdInv => (step = "idle" /\ asked # "GET" /\ ~excused => Systemd!Underway(asked))
  BY DEF SystemdInv, RequestsStand
<1>. QED BY <1>1, SystemdStarts, SystemdNext, PTL DEF Systemd!Spec

-------------------------------------------------------------------------------
(* The telegram handler.                                                    *)

AllWords == [text : Texts, word : 1..Words]

LEMMA TelegramTyped ==
    ASSUME TelegramInv
    PROVE  /\ Telegram!TypeOK /\ notifications \in Seq(AllWords) /\ published \in Seq(AllWords)
           /\ waiting \in [Texts -> 0..Words] /\ reach \in [Texts -> 0..Words]
           /\ Telegram!PublishedInOrder /\ Telegram!NoneIsLost /\ WordsInOrder /\ WordsAreTold
           /\ CutAtTheEnd
  BY DEF TelegramInv, Telegram!TypeOK, AllWords

LEMMA TelegramStarts == Telegram!Init => TelegramInv
<1>. SUFFICES ASSUME Telegram!Init PROVE TelegramInv
  OBVIOUS
<1>1. /\ phase = "ended" /\ bot = FALSE /\ told = 0
      /\ received = {} /\ waiting = [t \in Texts |-> 0]
      /\ replying = {} /\ reach = [t \in Texts |-> Words]
      /\ notifications = <<>> /\ published = <<>> /\ failures = 0
  BY DEF Telegram!Init
<1>2. /\ waiting \in [Texts -> 0..Words] /\ \A t \in Texts : waiting[t] = 0
      /\ reach \in [Texts -> 0..Words] /\ \A t \in Texts : reach[t] = Words
  BY <1>1, ServicesAssumption
<1>3. Len(notifications) = 0 /\ Len(published) = 0
  BY <1>1
<1>4. Telegram!TypeOK
  <2>0. bot \in BOOLEAN
    BY <1>1
  <2>1. bot \in BOOLEAN /\ told \in 0..AllowedUsers /\ failures \in 0..MaxFaults
    <3>1. told \in 0..AllowedUsers /\ failures \in 0..MaxFaults
      BY <1>1, ServicesAssumption
    <3>. QED BY <2>0, <3>1
  <2>2. notifications \in Seq(AllWords) /\ Len(notifications) <= NotificationsCap
    BY <1>1, <1>3, ServicesAssumption
  <2>. QED BY <1>1, <1>2, <2>1, <2>2 DEF Telegram!TypeOK, AllWords
<1>5. Telegram!PublishedInOrder /\ Telegram!NoneIsLost /\ WordsInOrder /\ WordsAreTold /\ CutAtTheEnd
  BY <1>1, <1>2, <1>3
  DEF Telegram!PublishedInOrder, Telegram!NoneIsLost, WordsInOrder, WordsAreTold, CutAtTheEnd
<1>. QED BY <1>1, <1>4, <1>5 DEF TelegramInv

(* What does not touch texts and commands. *)
LEMMA TelegramKept ==
    ASSUME TelegramInv, Telegram!TypeOK',
           UNCHANGED <<received, waiting, replying, reach, notifications, published>>
    PROVE  TelegramInv'
  BY DEF TelegramInv, Telegram!PublishedInOrder, Telegram!NoneIsLost, WordsInOrder, WordsAreTold, Told,
         CutAtTheEnd

LEMMA TextReceived == ASSUME TelegramInv, NEW t \in Texts, Telegram!Receives(t) PROVE TelegramInv'
<1>1. /\ t \notin received /\ received' = received \cup {t} /\ waiting' = [waiting EXCEPT ![t] = 1]
      /\ UNCHANGED <<phase, bot, told, replying, reach, notifications, published, failures>>
  BY DEF Telegram!Receives
<1>2. /\ waiting' \in [Texts -> 0..Words] /\ waiting'[t] = 1
      /\ \A u \in Texts : u # t => waiting'[u] = waiting[u]
  BY <1>1, TelegramTyped, ServicesAssumption
<1>3. Telegram!TypeOK'
  BY <1>1, <1>2, TelegramTyped DEF Telegram!TypeOK
<1>4. ASSUME NEW w \in AllWords, Told(w, received, waiting) PROVE Told(w, received', waiting')
  BY <1>1, <1>2, <1>4 DEF Told, AllWords
<1>5. WordsAreTold'
  <2>1. \A k \in 1..Len(notifications) : notifications[k] \in AllWords
    BY TelegramTyped
  <2>2. \A k \in 1..Len(published) : published[k] \in AllWords
    BY TelegramTyped
  <2>3. \A k \in 1..Len(notifications) : Told(notifications[k], received', waiting')
    BY <1>1, <1>4, <2>1, TelegramTyped DEF WordsAreTold
  <2>4. \A k \in 1..Len(published) : Told(published[k], received', waiting')
    BY <1>1, <1>4, <2>2, TelegramTyped DEF WordsAreTold
  <2>5. \A u \in Texts : waiting'[u] # 0 => u \in received'
    BY <1>1, <1>2, TelegramTyped DEF WordsAreTold
  <2>. QED BY <1>1, <2>3, <2>4, <2>5 DEF WordsAreTold
<1>6. Telegram!NoneIsLost'
  <2>1. ASSUME NEW u \in received', NEW i \in 1..reach[u]
        PROVE  \/ waiting'[u] \in 1..i
               \/ \E k \in 1..Len(notifications) : notifications[k] = Telegram!Word(u, i)
               \/ \E k \in 1..Len(published) : published[k] = Telegram!Word(u, i)
    <3>1. CASE u = t
      BY <1>2, <3>1, TelegramTyped
    <3>2. CASE u # t
      <4>1. u \in received /\ u \in Texts
        BY <1>1, <3>2, TelegramTyped DEF Telegram!TypeOK
      <4>. QED BY <1>2, <3>2, <4>1, TelegramTyped DEF Telegram!NoneIsLost
    <3>. QED BY <3>1, <3>2
  <2>. QED BY <1>1, <2>1 DEF Telegram!NoneIsLost
<1>7. Telegram!PublishedInOrder' /\ WordsInOrder'
  BY <1>1, TelegramTyped DEF Telegram!PublishedInOrder, WordsInOrder
<1>8. CutAtTheEnd'
  BY <1>1, <1>2, TelegramTyped DEF CutAtTheEnd
<1>. QED BY <1>1, <1>3, <1>5, <1>6, <1>7, <1>8, TelegramTyped DEF TelegramInv, AllWords

LEMMA WordWaits == ASSUME TelegramInv, NEW t \in Texts, Telegram!ExecAction(t) PROVE TelegramInv'
<1>. DEFINE n == waiting[t]
            w == Telegram!Word(t, n)
            m == Len(notifications)
<1>1. /\ n # 0 /\ m < NotificationsCap /\ notifications' = Append(notifications, w)
      /\ waiting' = [waiting EXCEPT ![t] = IF @ < Words THEN @ + 1 ELSE 0]
      /\ replying' = replying \cup {t}
      /\ UNCHANGED <<phase, bot, told, received, reach, published, failures>>
  BY DEF Telegram!ExecAction
<1>2. n \in 1..Words /\ w \in AllWords /\ w.text = t /\ w.word = n
  BY <1>1, TelegramTyped, ServicesAssumption DEF Telegram!Word, AllWords
<1>3. /\ waiting' \in [Texts -> 0..Words]
      /\ waiting'[t] = IF n < Words THEN n + 1 ELSE 0
      /\ \A u \in Texts : u # t => waiting'[u] = waiting[u]
  BY <1>1, <1>2, TelegramTyped, ServicesAssumption
<1>4. /\ notifications' \in Seq(AllWords) /\ Len(notifications') = m + 1 /\ m \in Nat
      /\ notifications'[m + 1] = w /\ \A k \in 1..m : notifications'[k] = notifications[k]
  BY <1>1, <1>2, TelegramTyped
<1>. HIDE DEF w
<1>5. Telegram!TypeOK'
  <2>1. Len(notifications') <= NotificationsCap
    BY <1>1, <1>4, ServicesAssumption
  <2>2. replying' \subseteq Texts
    BY <1>1, TelegramTyped DEF Telegram!TypeOK
  <2>. QED BY <1>1, <1>3, <1>4, <2>1, <2>2, TelegramTyped DEF Telegram!TypeOK, AllWords
<1>6. ASSUME NEW v \in AllWords, Told(v, received, waiting) PROVE Before(v, w) /\ Told(v, received', waiting')
  <2>1. v.text \in Texts /\ v.word \in 1..Words /\ v.text \in received /\ (waiting[v.text] # 0 => v.word < waiting[v.text])
    BY <1>6 DEF Told, AllWords
  <2>2. CASE v.text = t
    BY <1>1, <1>2, <1>3, <2>1, <2>2, ServicesAssumption DEF Told, Before
  <2>3. CASE v.text # t
    BY <1>1, <1>2, <1>3, <2>1, <2>3 DEF Told, Before
  <2>. QED BY <2>2, <2>3
<1>7. /\ \A k \in 1..m : notifications[k] \in AllWords /\ Told(notifications[k], received, waiting)
      /\ \A k \in 1..Len(published) : published[k] \in AllWords /\ Told(published[k], received, waiting)
  <2>1. \A k \in 1..m : notifications[k] \in AllWords
    BY TelegramTyped
  <2>2. \A k \in 1..Len(published) : published[k] \in AllWords
    BY TelegramTyped
  <2>3. WordsAreTold
    BY TelegramTyped
  <2>. QED BY <2>1, <2>2, <2>3 DEF WordsAreTold
<1>8. Told(w, received', waiting')
  <2>1. t \in received
    BY <1>1, TelegramTyped DEF WordsAreTold
  <2>. QED BY <1>1, <1>2, <1>3, <2>1, ServicesAssumption DEF Told
<1>9. WordsAreTold'
  <2>1. ASSUME NEW k \in 1..m + 1 PROVE Told(notifications'[k], received', waiting')
    <3>1. CASE k = m + 1
      BY <1>4, <1>8, <3>1
    <3>2. CASE k \in 1..m
      BY <1>4, <1>6, <1>7, <3>2
    <3>. QED BY <1>4, <3>1, <3>2
  <2>2. \A k \in 1..Len(published) : Told(published[k], received', waiting')
    BY <1>1, <1>6, <1>7
  <2>3. \A u \in Texts : waiting'[u] # 0 => u \in received'
    BY <1>1, <1>3, TelegramTyped DEF WordsAreTold
  <2>. QED BY <1>1, <1>4, <2>1, <2>2, <2>3 DEF WordsAreTold
<1>10. WordsInOrder'
  <2>1. ASSUME NEW k \in 1..m + 1, NEW l \in 1..m + 1, k < l PROVE Before(notifications'[k], notifications'[l])
    <3>1. k \in 1..m /\ notifications'[k] = notifications[k]
      BY <1>4, <2>1
    <3>2. CASE l = m + 1
      BY <1>4, <1>6, <1>7, <3>1, <3>2
    <3>3. CASE l \in 1..m
      BY <1>4, <2>1, <3>1, <3>3, TelegramTyped DEF WordsInOrder
    <3>. QED BY <1>4, <3>2, <3>3
  <2>2. ASSUME NEW k \in 1..Len(published), NEW l \in 1..m + 1 PROVE Before(published[k], notifications'[l])
    <3>1. CASE l = m + 1
      BY <1>4, <1>6, <1>7, <3>1
    <3>2. CASE l \in 1..m
      BY <1>4, <3>2, TelegramTyped DEF WordsInOrder
    <3>. QED BY <1>4, <3>1, <3>2
  <2>. QED BY <1>1, <1>4, <2>1, <2>2 DEF WordsInOrder
<1>11. Telegram!NoneIsLost'
  <2>1. ASSUME NEW u \in received, NEW i \in 1..reach[u]
        PROVE  \/ waiting'[u] \in 1..i
               \/ \E k \in 1..m + 1 : notifications'[k] = Telegram!Word(u, i)
               \/ \E k \in 1..Len(published) : published[k] = Telegram!Word(u, i)
    <3>0. u \in Texts /\ reach[u] \in 0..Words /\ i \in 1..Words
      <4>1. u \in Texts
        BY TelegramTyped DEF Telegram!TypeOK
      <4>. QED BY <4>1, TelegramTyped, ServicesAssumption
    <3>1. CASE \E k \in 1..m : notifications[k] = Telegram!Word(u, i)
      BY <1>4, <3>1
    <3>2. CASE \E k \in 1..Len(published) : published[k] = Telegram!Word(u, i)
      BY <3>2
    <3>3. CASE waiting[u] \in 1..i /\ u # t
      BY <1>3, <3>0, <3>3
    <3>4. CASE waiting[u] \in 1..i /\ u = t
      <4>1. CASE n = i
        <5>1. notifications'[m + 1] = Telegram!Word(u, i) /\ m + 1 \in 1..m + 1
          BY <1>4, <3>4, <4>1 DEF w
        <5>. QED BY <5>1
      <4>2. CASE n < i
        BY <1>2, <1>3, <3>0, <3>4, <4>2, ServicesAssumption
      <4>. QED BY <1>2, <3>4, <4>1, <4>2
    <3>. QED BY <3>1, <3>2, <3>3, <3>4, TelegramTyped DEF Telegram!NoneIsLost
  <2>. QED BY <1>1, <1>4, <2>1 DEF Telegram!NoneIsLost
<1>12. Telegram!PublishedInOrder'
  BY <1>1, TelegramTyped DEF Telegram!PublishedInOrder
<1>13. CutAtTheEnd'
  <2>1. t \in received /\ reach[t] = Words
    BY <1>1, TelegramTyped DEF CutAtTheEnd, WordsAreTold
  <2>2. replying' \subseteq received'
    BY <1>1, <2>1, TelegramTyped DEF CutAtTheEnd
  <2>3. ASSUME NEW u \in Texts, reach'[u] # Words PROVE u \in received' \ replying' /\ waiting'[u] = 0
    BY <1>1, <1>3, <2>1, <2>3, TelegramTyped DEF CutAtTheEnd
  <2>. QED BY <2>2, <2>3 DEF CutAtTheEnd
<1>. QED BY <1>1, <1>5, <1>9, <1>10, <1>11, <1>12, <1>13, TelegramTyped DEF TelegramInv, AllWords

LEMMA WordAnswered == ASSUME TelegramInv, NEW t \in Texts, Telegram!Answers(t) PROVE TelegramInv'
<1>1. /\ t \in replying /\ replying' = replying \ {t}
      /\ UNCHANGED <<bot, told, received, notifications, published, failures>>
      /\ \/ UNCHANGED <<phase, waiting, reach>>
         \/ /\ phase' \in {phase, "panic"}
            /\ reach' = [reach EXCEPT ![t] = IF waiting[t] = 0 THEN Words ELSE waiting[t] - 1]
            /\ waiting' = [waiting EXCEPT ![t] = 0]
  BY DEF Telegram!Answers
<1>2. replying \subseteq received /\ t \in received /\ reach[t] = Words
  BY <1>1, TelegramTyped DEF CutAtTheEnd
<1>3. /\ waiting' \in [Texts -> 0..Words] /\ reach' \in [Texts -> 0..Words]
      /\ \A u \in Texts : u # t => waiting'[u] = waiting[u] /\ reach'[u] = reach[u]
      /\ \/ waiting'[t] = waiting[t] /\ reach'[t] = reach[t]
         \/ waiting'[t] = 0 /\ reach'[t] = IF waiting[t] = 0 THEN Words ELSE waiting[t] - 1
  <2>1. waiting[t] \in 0..Words /\ (IF waiting[t] = 0 THEN Words ELSE waiting[t] - 1) \in 0..Words
    BY TelegramTyped, ServicesAssumption
  <2>2. CASE waiting' = waiting /\ reach' = reach
    BY <2>2, TelegramTyped
  <2>3. CASE /\ reach' = [reach EXCEPT ![t] = IF waiting[t] = 0 THEN Words ELSE waiting[t] - 1]
             /\ waiting' = [waiting EXCEPT ![t] = 0]
    <3>. DEFINE c == IF waiting[t] = 0 THEN Words ELSE waiting[t] - 1
    <3>0. /\ waiting \in [Texts -> 0..Words] /\ reach \in [Texts -> 0..Words]
          /\ c \in 0..Words /\ 0 \in 0..Words
          /\ waiting' = [waiting EXCEPT ![t] = 0] /\ reach' = [reach EXCEPT ![t] = c]
      BY <2>1, <2>3, TelegramTyped, ServicesAssumption
    <3>. HIDE DEF c
    <3>1. /\ waiting' \in [Texts -> 0..Words] /\ waiting'[t] = 0
          /\ \A u \in Texts : u # t => waiting'[u] = waiting[u]
      BY <3>0
    <3>2. /\ reach' \in [Texts -> 0..Words] /\ reach'[t] = c
          /\ \A u \in Texts : u # t => reach'[u] = reach[u]
      BY <3>0
    <3>. USE DEF c
    <3>. QED BY <3>1, <3>2
  <2>. QED BY <1>1, <2>2, <2>3
<1>4. Telegram!TypeOK'
  BY <1>1, <1>3, TelegramTyped DEF Telegram!TypeOK
<1>5. Telegram!PublishedInOrder' /\ WordsInOrder'
  BY <1>1, TelegramTyped DEF Telegram!PublishedInOrder, WordsInOrder
<1>6. WordsAreTold'
  <2>1. ASSUME NEW w \in AllWords, Told(w, received, waiting) PROVE Told(w, received', waiting')
    <3>1. w.text \in Texts
      BY DEF AllWords
    <3>2. CASE w.text = t
      BY <1>1, <1>3, <2>1, <3>2 DEF Told
    <3>3. CASE w.text # t
      BY <1>1, <1>3, <2>1, <3>1, <3>3 DEF Told
    <3>. QED BY <3>2, <3>3
  <2>2. \A k \in 1..Len(notifications) : notifications[k] \in AllWords
    BY TelegramTyped
  <2>3. \A k \in 1..Len(published) : published[k] \in AllWords
    BY TelegramTyped
  <2>4. \A k \in 1..Len(notifications) : Told(notifications[k], received', waiting')
    BY <2>1, <2>2, TelegramTyped DEF WordsAreTold
  <2>5. \A k \in 1..Len(published) : Told(published[k], received', waiting')
    BY <2>1, <2>3, TelegramTyped DEF WordsAreTold
  <2>6. \A u \in Texts : waiting'[u] # 0 => u \in received'
    BY <1>1, <1>2, <1>3, TelegramTyped DEF WordsAreTold
  <2>. QED BY <1>1, <2>4, <2>5, <2>6 DEF WordsAreTold
<1>7. Telegram!NoneIsLost'
  <2>1. ASSUME NEW u \in received, NEW i \in 1..reach'[u]
        PROVE  \/ waiting'[u] \in 1..i
               \/ \E k \in 1..Len(notifications) : notifications[k] = Telegram!Word(u, i)
               \/ \E k \in 1..Len(published) : published[k] = Telegram!Word(u, i)
    <3>0. u \in Texts
      BY TelegramTyped DEF Telegram!TypeOK
    <3>1. i \in 1..reach[u]
      <4>1. reach'[u] \in 0..Words /\ reach[u] \in 0..Words
        BY <1>3, <3>0, TelegramTyped
      <4>2. u = t => reach'[u] <= reach[u]
        BY <1>2, <4>1, ServicesAssumption
      <4>3. u # t => reach'[u] = reach[u]
        BY <1>3, <3>0
      <4>. QED BY <4>1, <4>2, <4>3, ServicesAssumption
    <3>2. waiting[u] \in 1..i => waiting'[u] = waiting[u]
      <4>1. waiting[u] \in 0..Words
        BY <3>0, TelegramTyped
      <4>2. CASE u = t
        BY <1>3, <2>1, <4>1, <4>2, ServicesAssumption
      <4>3. CASE u # t
        BY <1>3, <3>0, <4>3
      <4>. QED BY <4>2, <4>3
    <3>. QED BY <3>1, <3>2, TelegramTyped DEF Telegram!NoneIsLost
  <2>. QED BY <1>1, <2>1 DEF Telegram!NoneIsLost
<1>8. CutAtTheEnd'
  <2>1. replying' \subseteq received'
    BY <1>1, <1>2
  <2>2. ASSUME NEW u \in Texts, reach'[u] # Words PROVE u \in received' \ replying' /\ waiting'[u] = 0
    <3>1. CASE u = t
      BY <1>1, <1>2, <1>3, <2>2, <3>1
    <3>2. CASE u # t
      BY <1>1, <1>3, <2>2, <3>2, TelegramTyped DEF CutAtTheEnd
    <3>. QED BY <3>1, <3>2
  <2>. QED BY <2>1, <2>2 DEF CutAtTheEnd
<1>. QED BY <1>1, <1>4, <1>5, <1>6, <1>7, <1>8, TelegramTyped DEF TelegramInv, AllWords

LEMMA WordPublished == ASSUME TelegramInv, Telegram!HandleChannelEvent PROVE TelegramInv'
<1>. DEFINE w == Head(notifications)
            m == Len(notifications)
            p == Len(published)
<1>1. /\ notifications # <<>> /\ published' = Append(published, w) /\ notifications' = Tail(notifications)
      /\ UNCHANGED <<phase, bot, told, received, waiting, replying, reach, failures>>
  BY DEF Telegram!HandleChannelEvent, Telegram!texts
<1>2. /\ w = notifications[1] /\ w \in AllWords /\ m \in Nat /\ m >= 1 /\ Len(notifications') = m - 1
      /\ notifications' \in Seq(AllWords) /\ \A k \in 1..m - 1 : notifications'[k] = notifications[k + 1]
  BY <1>1, TelegramTyped
<1>. HIDE DEF w
<1>3. /\ published' \in Seq(AllWords) /\ Len(published') = p + 1 /\ p \in Nat
      /\ published'[p + 1] = w /\ \A k \in 1..p : published'[k] = published[k]
  BY <1>1, <1>2, TelegramTyped
<1>4. Telegram!TypeOK'
  <2>1. Len(notifications') <= NotificationsCap
    BY <1>2, TelegramTyped, ServicesAssumption DEF Telegram!TypeOK
  <2>. QED BY <1>1, <1>2, <2>1, TelegramTyped DEF Telegram!TypeOK, AllWords
<1>5. Telegram!PublishedInOrder'
  <2>1. ASSUME NEW k \in 1..p + 1, NEW l \in 1..p + 1, k < l PROVE Before(published'[k], published'[l])
    <3>1. k \in 1..p /\ published'[k] = published[k]
      BY <1>3, <2>1
    <3>2. CASE l = p + 1
      <4>1. Before(published[k], notifications[1])
        BY <1>2, <3>1, TelegramTyped DEF WordsInOrder
      <4>. QED BY <1>2, <1>3, <3>1, <3>2, <4>1
    <3>3. CASE l \in 1..p
      BY <1>3, <2>1, <3>1, <3>3, TelegramTyped DEF Telegram!PublishedInOrder, Before
    <3>. QED BY <1>3, <3>2, <3>3
  <2>. QED BY <1>3, <2>1 DEF Telegram!PublishedInOrder, Before
<1>6. WordsInOrder'
  <2>1. ASSUME NEW k \in 1..m - 1, NEW l \in 1..m - 1, k < l PROVE Before(notifications'[k], notifications'[l])
    <3>1. k + 1 \in 1..m /\ l + 1 \in 1..m /\ k + 1 < l + 1
      BY <1>2, <2>1
    <3>2. Before(notifications[k + 1], notifications[l + 1])
      BY <3>1, TelegramTyped DEF WordsInOrder
    <3>. QED BY <1>2, <3>2
  <2>2. ASSUME NEW k \in 1..p + 1, NEW l \in 1..m - 1 PROVE Before(published'[k], notifications'[l])
    <3>1. l + 1 \in 1..m /\ 1 \in 1..m /\ 1 < l + 1 /\ notifications'[l] = notifications[l + 1]
      BY <1>2
    <3>2. CASE k = p + 1
      <4>1. Before(notifications[1], notifications[l + 1])
        BY <3>1, TelegramTyped DEF WordsInOrder
      <4>. QED BY <1>2, <1>3, <3>1, <3>2, <4>1
    <3>3. CASE k \in 1..p
      <4>1. Before(published[k], notifications[l + 1])
        BY <3>1, <3>3, TelegramTyped DEF WordsInOrder
      <4>. QED BY <1>3, <3>1, <3>3, <4>1
    <3>. QED BY <1>3, <3>2, <3>3
  <2>. QED BY <1>2, <1>3, <2>1, <2>2 DEF WordsInOrder
<1>7. WordsAreTold'
  <2>1. ASSUME NEW v, Told(v, received, waiting) PROVE Told(v, received', waiting')
    BY <1>1, <2>1 DEF Told
  <2>2. \A k \in 1..m : Told(notifications[k], received, waiting)
    BY TelegramTyped DEF WordsAreTold
  <2>3. ASSUME NEW k \in 1..m - 1 PROVE Told(notifications'[k], received', waiting')
    <3>1. k + 1 \in 1..m
      BY <1>2
    <3>. QED BY <1>2, <2>1, <2>2, <3>1
  <2>4. ASSUME NEW k \in 1..p + 1 PROVE Told(published'[k], received', waiting')
    <3>1. CASE k = p + 1
      BY <1>2, <1>3, <2>1, <2>2, <3>1
    <3>2. CASE k \in 1..p
      BY <1>3, <2>1, <3>2, TelegramTyped DEF WordsAreTold
    <3>. QED BY <1>3, <3>1, <3>2
  <2>. QED BY <1>1, <1>2, <1>3, <2>3, <2>4, TelegramTyped DEF WordsAreTold
<1>8. Telegram!NoneIsLost'
  <2>1. ASSUME NEW u \in received, NEW i \in 1..reach[u]
        PROVE  \/ waiting[u] \in 1..i
               \/ \E k \in 1..m - 1 : notifications'[k] = Telegram!Word(u, i)
               \/ \E k \in 1..p + 1 : published'[k] = Telegram!Word(u, i)
    <3>1. CASE waiting[u] \in 1..i
      BY <3>1
    <3>2. CASE \E k \in 1..p : published[k] = Telegram!Word(u, i)
      BY <1>3, <3>2
    <3>3. ASSUME NEW k \in 1..m, notifications[k] = Telegram!Word(u, i)
          PROVE  \/ \E l \in 1..m - 1 : notifications'[l] = Telegram!Word(u, i)
                 \/ \E l \in 1..p + 1 : published'[l] = Telegram!Word(u, i)
      <4>1. CASE k = 1
        <5>1. published'[p + 1] = Telegram!Word(u, i) /\ p + 1 \in 1..p + 1
          BY <1>2, <1>3, <3>3, <4>1
        <5>. QED BY <5>1
      <4>2. CASE k # 1
        <5>1. k - 1 \in 1..m - 1 /\ (k - 1) + 1 = k
          BY <1>2, <4>2
        <5>2. notifications'[k - 1] = Telegram!Word(u, i)
          BY <1>2, <3>3, <5>1
        <5>. QED BY <5>1, <5>2
      <4>. QED BY <4>1, <4>2
    <3>. QED BY <3>1, <3>2, <3>3, TelegramTyped DEF Telegram!NoneIsLost
  <2>. QED BY <1>1, <1>2, <1>3, <2>1 DEF Telegram!NoneIsLost
<1>9. CutAtTheEnd'
  BY <1>1, TelegramTyped DEF CutAtTheEnd
<1>. QED BY <1>3, <1>4, <1>5, <1>6, <1>7, <1>8, <1>9 DEF TelegramInv, AllWords

LEMMA TelegramNext == TelegramInv /\ [Telegram!Next]_Telegram!vars => TelegramInv'
<1>. SUFFICES ASSUME TelegramInv, [Telegram!Next]_Telegram!vars PROVE TelegramInv'
  OBVIOUS
<1>1. CASE UNCHANGED Telegram!vars
  BY <1>1, TelegramTyped, TelegramKept DEF Telegram!vars, Telegram!texts, Telegram!TypeOK
<1>2. ASSUME NEW ok \in BOOLEAN, Telegram!Start(ok) PROVE TelegramInv'
  BY <1>2, TelegramTyped, TelegramKept, ServicesAssumption
  DEF Telegram!Start, Telegram!texts, Telegram!Fails, Telegram!TypeOK
<1>3. ASSUME NEW ok \in BOOLEAN, Telegram!SendMessage(ok) PROVE TelegramInv'
  BY <1>3, TelegramTyped, TelegramKept, ServicesAssumption
  DEF Telegram!SendMessage, Telegram!texts, Telegram!Fails, Telegram!TypeOK
<1>4. CASE Telegram!HandleMessage
  BY <1>4, TelegramTyped, TelegramKept, ServicesAssumption
  DEF Telegram!HandleMessage, Telegram!texts, Telegram!TypeOK
<1>. QED BY <1>1, <1>2, <1>3, <1>4, TextReceived, WordWaits, WordAnswered, WordPublished
         DEF Telegram!Next, Telegram!Works

(* The commands of a text are published once, in the order of its words,    *)
(* and none is lost while the handler ends and comes back (telegram.go:52,  *)
(* 71-85, 126, 179-187), but for the words behind one that is answered      *)
(* while there is no bot, for any texts, of any length, and any channel:    *)
(* the half of EveryWordIsPublished that is about safety.                   *)
THEOREM WordsAreKept == Telegram!Spec => [](Telegram!PublishedInOrder /\ Telegram!NoneIsLost)
<1>1. TelegramInv => Telegram!PublishedInOrder /\ Telegram!NoneIsLost
  BY TelegramTyped
<1>. QED BY <1>1, TelegramStarts, TelegramNext, PTL DEF Telegram!Spec

-------------------------------------------------------------------------------
(* Beside the others, each part behaves as it does alone.                   *)

LEMMA AloneStarts ==
    Init => Snapcast!Init /\ Badge!Init /\ Codec!Init /\ Telegram!Init /\ Systemd!Init
  BY DEF Init

LEMMA AloneSteps ==
    [Next]_vars => /\ [Snapcast!Next]_Snapcast!vars /\ [Badge!Next]_Badge!vars /\ [Codec!Next]_Codec!vars
                   /\ [Telegram!Next]_Telegram!vars /\ [Systemd!Next]_Systemd!vars
<1>. SUFFICES ASSUME [Next]_vars
              PROVE  /\ [Snapcast!Next]_Snapcast!vars /\ [Badge!Next]_Badge!vars /\ [Codec!Next]_Codec!vars
                     /\ [Telegram!Next]_Telegram!vars /\ [Systemd!Next]_Systemd!vars
  OBVIOUS
<1>1. CASE UNCHANGED vars
  BY <1>1 DEF vars, snapcastVars, badgeVars, codecVars, telegramVars, systemdVars,
              Snapcast!vars, Badge!vars, Codec!vars, Telegram!vars, Telegram!texts, Systemd!vars
<1>2. CASE Next
  <2>1. \/ Snapcast!Next \/ UNCHANGED snapcastVars
    BY <1>2 DEF Next, OfHeartbeat, OfTelegram, OfBadge, OfSnapcast, OfCodec, OfSystemd, Of
  <2>2. \/ Badge!Next \/ UNCHANGED badgeVars
    BY <1>2 DEF Next, OfHeartbeat, OfTelegram, OfBadge, OfSnapcast, OfCodec, OfSystemd, Of
  <2>3. \/ Codec!Next \/ UNCHANGED codecVars
    BY <1>2 DEF Next, OfHeartbeat, OfTelegram, OfBadge, OfSnapcast, OfCodec, OfSystemd, Of
  <2>4. \/ Telegram!Next \/ UNCHANGED telegramVars
    BY <1>2 DEF Next, OfHeartbeat, OfTelegram, OfBadge, OfSnapcast, OfCodec, OfSystemd, Of
  <2>5. \/ Systemd!Next \/ UNCHANGED systemdVars
    BY <1>2 DEF Next, OfHeartbeat, OfTelegram, OfBadge, OfSnapcast, OfCodec, OfSystemd, Of
  <2>. QED BY <2>1, <2>2, <2>3, <2>4, <2>5
           DEF snapcastVars, badgeVars, codecVars, telegramVars, systemdVars,
               Snapcast!vars, Badge!vars, Codec!vars, Telegram!vars, Telegram!texts, Systemd!vars
<1>. QED BY <1>1, <1>2

(* The stream in the status is the one that plays, whoever changed it,      *)
(* unless it was changed while there was no connection, or twice at a time  *)
(* (snapcast.go:164-176, 241-254), for any streams, faults and number of    *)
(* notifications that wait, whatever else the device does.                  *)
THEOREM StreamShown == Spec => []StatusFollows
<1>1. Spec => Snapcast!Spec
  BY AloneStarts, AloneSteps, PTL DEF Spec, Snapcast!Spec
<1>. QED BY <1>1, StreamShownAlone, PTL

(* What the theorems say of each part also holds of all of them together.   *)
THEOREM PartsKeepApart ==
    Spec => Snapcast!Spec /\ Badge!Spec /\ Codec!Spec /\ Telegram!Spec /\ Systemd!Spec
  BY AloneStarts, AloneSteps, PTL DEF Spec, Snapcast!Spec, Badge!Spec, Codec!Spec, Telegram!Spec, Systemd!Spec
===============================================================================
