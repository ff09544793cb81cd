------------------------------ MODULE ClimateProofs ------------------------------
(***************************************************************************)
(* Proofs about Heating and Schedule, for any rooms, rules and capacities:  *)
(* a valve does not chatter, and a rule is executed once when its time      *)
(* comes.                                                                   *)
(***************************************************************************)
EXTENDS MCClimate, SequenceTheorems, TLAPS

(* What is on its way to a valve: the commands that wait, then the ones     *)
(* that the snapshots will be decided to, in the order in which they reach  *)
(* the io handler, and last what its present state would be decided to.     *)
CommandSays(r, c) == IF c.room # r THEN "none" ELSE IF c.open THEN "open" ELSE "close"
Says(t, v) ==
    IF Heating!Cold(t) /\ ~v THEN "open" ELSE IF Heating!Hot(t) /\ v THEN "close" ELSE "none"
SnapshotSays(r, s) == IF r \in DOMAIN s THEN Says(s[r].temp, s[r].valve) ELSE "none"

Words == {"open", "close", "none"}
StreamOf(r, c, h, q, k, last) ==
    [p \in 1..Len(c) + Len(q) + 3 |->
        IF p <= Len(c) THEN CommandSays(r, c[p])
        ELSE IF p = Len(c) + 1 THEN SnapshotSays(r, h)
        ELSE IF p < Len(c) + Len(q) + 2 THEN SnapshotSays(r, q[p - Len(c) - 1])
        ELSE IF p = Len(c) + Len(q) + 2 THEN SnapshotSays(r, k)
        ELSE last]
Stream(r) == StreamOf(r, cmds, handled, snapshots, known, Says(temp[r], valve[r]))

Never(s, a) == \A p \in DOMAIN s : s[p] # a
NoneAfter(s, a, b) == \A p, q \in DOMAIN s : p < q /\ s[p] = a => s[q] # b

(* How the stream of a room goes with its valve and with what its           *)
(* temperature was since it was opened.                                     *)
Fits(v, now_, s) ==
    /\ now_ = "open" => v /\ Never(s, "close")
    /\ now_ = "start" /\ v => Never(s, "open")
    /\ now_ = "hot" /\ ~v => Never(s, "open")
    /\ now_ \in {"hot", "cold"} /\ v => NoneAfter(s, "close", "open")
    /\ now_ \in {"start", "cold"} /\ ~v => NoneAfter(s, "open", "close")

SetupOnlyCloses ==
    ~up => /\ snapshots = <<>> /\ \A r \in Heating!Real : season[r] = "start"
           /\ \A i \in DOMAIN cmds : ~cmds[i].open
HotIsNotCold == \A r \in Heating!Real : season[r] = "hot" => ~Heating!Cold(temp[r])
StreamsFit == \A r \in Heating!Real : Fits(valve[r], season[r], Stream(r))

HeatingInv ==
    /\ Heating!TypeOK /\ SetupOnlyCloses
    /\ HotIsNotCold /\ StreamsFit

-------------------------------------------------------------------------------
(* The statuses in the channel of the actor are in the order of their       *)
(* times, after the one that it knows.                                      *)
TimeAt(q, i) == "time" \in DOMAIN q[i]
InOrder ==
    /\ previous <= time
    /\ \A i \in 1..Len(queue) : TimeAt(queue, i) => previous <= queue[i].time /\ queue[i].time <= time
    /\ \A i, j \in 1..Len(queue) :
          i < j /\ TimeAt(queue, i) /\ TimeAt(queue, j) => queue[i].time <= queue[j].time

(* A tick is late by at most Late, and the next one is a period later.      *)
InTime ==
    /\ next > 0 /\ now <= next + Late
    /\ IF time = 0 THEN next <= Schedule!Period
       ELSE next - Schedule!Period <= time /\ time <= next - Schedule!Period + Late

(* What was executed, was executed near its time.                           *)
NearItsTime == \A e \in executed : e.at <= previous /\ e.for - Schedule!Period < e.at

ScheduleInv == Schedule!TypeOK /\ InOrder /\ InTime /\ NearItsTime

(* When the actor knows the time, the rules whose time is near were         *)
(* executed for it; else the time is on its way to the actor.               *)
Executed(rule) ==
    \E e \in executed : e.rule = rule /\ e.for = Schedule!ParseTimeIndication(rule.at)
NearIsExecuted ==
    \A i \in 1..Len(rules) :
        time > Schedule!ParseTimeIndication(rules[i].at) - Schedule!Period => Executed(rules[i])
OnItsWay == \E i \in 1..Len(queue) : TimeAt(queue, i) /\ queue[i].time = time
Current ==
    ~excused /\ time # 0 => IF previous = time THEN NearIsExecuted ELSE OnItsWay

-------------------------------------------------------------------------------
(* Streams.                                                                 *)

(* Elements may leave a stream, and be repeated next to each other.         *)
LEMMA Thinner ==
    ASSUME NEW s, NEW t, NEW f \in [DOMAIN t -> DOMAIN s], NEW v, NEW now_, Fits(v, now_, s),
           \A p \in DOMAIN t : t[p] = "none" \/ t[p] = s[f[p]],
           \A p, q \in DOMAIN t : p < q => f[p] < f[q] \/ f[p] = f[q]
    PROVE  Fits(v, now_, t)
<1>1. ASSUME NEW a \in {"open", "close"}, Never(s, a) PROVE Never(t, a)
  BY <1>1 DEF Never
<1>2. ASSUME NEW a \in {"open", "close"}, NEW b \in {"open", "close"}, a # b, NoneAfter(s, a, b)
      PROVE  NoneAfter(t, a, b)
  <2>. SUFFICES ASSUME NEW p \in DOMAIN t, NEW q \in DOMAIN t, p < q, t[p] = a, t[q] = b PROVE FALSE
    BY DEF NoneAfter
  <2>1. s[f[p]] = a /\ s[f[q]] = b
    OBVIOUS
  <2>2. f[p] < f[q]
    BY <2>1, <1>2
  <2>. QED BY <2>1, <2>2, <1>2 DEF NoneAfter
<1>. QED BY <1>1, <1>2 DEF Fits

(* The present state of a room is the last of its stream.                   *)
LEMMA LastOfStream ==
    ASSUME NEW c, NEW q, Len(c) \in Nat, Len(q) \in Nat, NEW r, NEW h, NEW k, NEW a
    PROVE  /\ DOMAIN StreamOf(r, c, h, q, k, a) = 1..Len(c) + Len(q) + 3
           /\ StreamOf(r, c, h, q, k, a)[Len(c) + Len(q) + 3] = a
  BY DEF StreamOf

LEMMA RestOfStream ==
    ASSUME NEW c, NEW q, Len(c) \in Nat, Len(q) \in Nat, NEW r, NEW h, NEW k, NEW a, NEW b,
           NEW p \in 1..Len(c) + Len(q) + 3, p # Len(c) + Len(q) + 3
    PROVE  StreamOf(r, c, h, q, k, a)[p] = StreamOf(r, c, h, q, k, b)[p]
<1>1. CASE p <= Len(c)
  BY <1>1 DEF StreamOf
<1>2. CASE p = Len(c) + 1
  BY <1>2 DEF StreamOf
<1>3. CASE Len(c) + 1 < p /\ p < Len(c) + Len(q) + 2
  BY <1>3 DEF StreamOf
<1>4. CASE p = Len(c) + Len(q) + 2
  BY <1>4 DEF StreamOf
<1>. QED BY <1>1, <1>2, <1>3, <1>4

(* It changes: nothing of the rest does.                                    *)
Changes(s, t, b) ==
    \A x, y \in Words :
        /\ Never(s, x) /\ b # x => Never(t, x)
        /\ NoneAfter(s, x, y) /\ b # y => NoneAfter(t, x, y)
        /\ Never(s, x) => NoneAfter(t, x, y)

LEMMA LastChanges ==
    ASSUME NEW c, NEW q, Len(c) \in Nat, Len(q) \in Nat, NEW r, NEW h, NEW k, NEW a, NEW b
    PROVE  Changes(StreamOf(r, c, h, q, k, a), StreamOf(r, c, h, q, k, b), b)
<1>. DEFINE s == StreamOf(r, c, h, q, k, a)
            t == StreamOf(r, c, h, q, k, b)
            n == Len(c) + Len(q) + 3
<1>1. DOMAIN s = 1..n /\ DOMAIN t = 1..n /\ n \in Nat /\ t[n] = b
  BY LastOfStream
<1>2. \A p \in 1..n : p # n => s[p] = t[p]
  BY RestOfStream
<1>. HIDE DEF s, t, n
<1>3. \A p, p2 \in 1..n : p < p2 => p # n
  BY <1>1
<1>4. ASSUME NEW x \in Words, NEW y \in Words
      PROVE  /\ Never(s, x) /\ b # x => Never(t, x)
             /\ NoneAfter(s, x, y) /\ b # y => NoneAfter(t, x, y)
             /\ Never(s, x) => NoneAfter(t, x, y)
  <2>1. Never(s, x) /\ b # x => Never(t, x)
    BY <1>1, <1>2 DEF Never
  <2>2. NoneAfter(s, x, y) /\ b # y => NoneAfter(t, x, y)
    BY <1>1, <1>2, <1>3 DEF NoneAfter
  <2>3. Never(s, x) => NoneAfter(t, x, y)
    BY <1>1, <1>2, <1>3 DEF Never, NoneAfter
  <2>. QED BY <2>1, <2>2, <2>3
<1>5. Changes(s, t, b)
  BY <1>4 DEF Changes
<1>. QED BY <1>5 DEF s, t

(* Where each element of a stream comes from.                               *)
IsStream(s, r, c, h, q, k, a) ==
    /\ DOMAIN s = 1..Len(c) + Len(q) + 3
    /\ \A p \in 1..Len(c) : s[p] = CommandSays(r, c[p])
    /\ s[Len(c) + 1] = SnapshotSays(r, h)
    /\ \A j \in 1..Len(q) : s[Len(c) + 1 + j] = SnapshotSays(r, q[j])
    /\ s[Len(c) + Len(q) + 2] = SnapshotSays(r, k)
    /\ s[Len(c) + Len(q) + 3] = a
    /\ \A p \in DOMAIN s :
           \/ p \in 1..Len(c) \/ p = Len(c) + 1
           \/ \E j \in 1..Len(q) : p = Len(c) + 1 + j
           \/ p = Len(c) + Len(q) + 2 \/ p = Len(c) + Len(q) + 3

LEMMA Elements ==
    ASSUME NEW c, NEW q, Len(c) \in Nat, Len(q) \in Nat, NEW r, NEW h, NEW k, NEW a,
           NEW s, s = StreamOf(r, c, h, q, k, a)
    PROVE  IsStream(s, r, c, h, q, k, a)
<1>1. \A j \in 1..Len(q) : s[Len(c) + 1 + j] = SnapshotSays(r, q[j])
  <2>. TAKE j \in 1..Len(q)
  <2>. DEFINE p == Len(c) + 1 + j
  <2>1. /\ p \in 1..Len(c) + Len(q) + 3 /\ ~(p <= Len(c)) /\ p # Len(c) + 1 /\ p < Len(c) + Len(q) + 2
        /\ p - Len(c) - 1 = j
    OBVIOUS
  <2>. HIDE DEF p
  <2>2. s[p] = SnapshotSays(r, q[p - Len(c) - 1])
    BY <2>1 DEF StreamOf
  <2>. QED BY <2>1, <2>2 DEF p
<1>2. DOMAIN s = 1..Len(c) + Len(q) + 3
  BY DEF StreamOf
<1>3. ASSUME NEW p \in DOMAIN s, p > Len(c) + 1, p < Len(c) + Len(q) + 2
      PROVE  \E j \in 1..Len(q) : p = Len(c) + 1 + j
  <2>1. p - Len(c) - 1 \in 1..Len(q) /\ p = Len(c) + 1 + (p - Len(c) - 1)
    BY <1>2, <1>3
  <2>. QED BY <2>1
<1>4. \A p \in 1..Len(c) : s[p] = CommandSays(r, c[p])
  BY DEF StreamOf
<1>5. /\ s[Len(c) + 1] = SnapshotSays(r, h) /\ s[Len(c) + Len(q) + 2] = SnapshotSays(r, k)
      /\ s[Len(c) + Len(q) + 3] = a
  BY DEF StreamOf
<1>6. \A p \in DOMAIN s : \/ p \in 1..Len(c) \/ p = Len(c) + 1
                          \/ p > Len(c) + 1 /\ p < Len(c) + Len(q) + 2
                          \/ p = Len(c) + Len(q) + 2 \/ p = Len(c) + Len(q) + 3
  BY <1>2
<1>. QED BY <1>1, <1>2, <1>3, <1>4, <1>5, <1>6 DEF IsStream

(* The io handler takes a command.                                          *)
LEMMA CommandLeaves ==
    ASSUME NEW C, NEW c \in Seq(C), c # <<>>, NEW q, Len(q) \in Nat, NEW r, NEW h, NEW k, NEW a,
           NEW v, NEW w, Fits(v, w, StreamOf(r, c, h, q, k, a))
    PROVE  Fits(v, w, StreamOf(r, Tail(c), h, q, k, a))
<1>. DEFINE s == StreamOf(r, c, h, q, k, a)
            d == Tail(c)
            t == StreamOf(r, d, h, q, k, a)
            f == [p \in DOMAIN t |-> p + 1]
<1>1. /\ Len(c) \in Nat /\ Len(d) \in Nat /\ Len(c) = Len(d) + 1
      /\ \A i \in 1..Len(d) : d[i] = c[i + 1]
  OBVIOUS
<1>2. Fits(v, w, s)
  OBVIOUS
<1>. HIDE DEF d
<1>3. IsStream(s, r, c, h, q, k, a) /\ IsStream(t, r, d, h, q, k, a)
  BY <1>1, Elements
<1>. HIDE DEF s, t
<1>4. f \in [DOMAIN t -> DOMAIN s] /\ \A p, p2 \in DOMAIN t : p < p2 => f[p] < f[p2]
  BY <1>1, <1>3 DEF IsStream
<1>5. ASSUME NEW p \in DOMAIN t PROVE t[p] = s[p + 1]
  <2>1. CASE p \in 1..Len(d)
    BY <2>1, <1>1, <1>3 DEF IsStream
  <2>2. CASE \E j \in 1..Len(q) : p = Len(d) + 1 + j
    <3>1. PICK j \in 1..Len(q) : p = Len(d) + 1 + j
      BY <2>2
    <3>2. p + 1 = Len(c) + 1 + j
      BY <3>1, <1>1
    <3>. QED BY <3>1, <3>2, <1>3 DEF IsStream
  <2>3. CASE p \in {Len(d) + 1, Len(d) + Len(q) + 2, Len(d) + Len(q) + 3}
    BY <2>3, <1>1, <1>3 DEF IsStream
  <2>. QED BY <2>1, <2>2, <2>3, <1>3 DEF IsStream
<1>6. \A p \in DOMAIN t : t[p] = s[f[p]]
  BY <1>5
<1>. HIDE DEF f
<1>7. Fits(v, w, t)
  BY <1>2, <1>4, <1>6, Thinner
<1>. QED BY <1>7 DEF t, d

(* The heating handler decides about a room, and about none of them any     *)
(* more.                                                                    *)
LEMMA CommandDecided ==
    ASSUME NEW C, NEW c \in Seq(C), NEW e \in C, NEW q, Len(q) \in Nat, NEW r, NEW h, NEW g, NEW k, NEW a,
           NEW v, NEW w, Fits(v, w, StreamOf(r, c, h, q, k, a)),
           CommandSays(r, e) \in {"none", SnapshotSays(r, h)},
           SnapshotSays(r, g) \in {"none", SnapshotSays(r, h)}
    PROVE  Fits(v, w, StreamOf(r, Append(c, e), g, q, k, a))
<1>. DEFINE s == StreamOf(r, c, h, q, k, a)
            d == Append(c, e)
            t == StreamOf(r, d, g, q, k, a)
            f == [p \in DOMAIN t |-> IF p <= Len(c) + 1 THEN p ELSE p - 1]
<1>1. /\ Len(c) \in Nat /\ Len(d) \in Nat /\ Len(d) = Len(c) + 1
      /\ \A i \in 1..Len(c) : d[i] = c[i]
      /\ d[Len(d)] = e
  OBVIOUS
<1>2. Fits(v, w, s)
  OBVIOUS
<1>. HIDE DEF d
<1>3. IsStream(s, r, c, h, q, k, a) /\ IsStream(t, r, d, g, q, k, a)
  BY <1>1, Elements
<1>. HIDE DEF s, t
<1>4. /\ f \in [DOMAIN t -> DOMAIN s]
      /\ \A p, p2 \in DOMAIN t : p < p2 => f[p] < f[p2] \/ f[p] = f[p2]
  BY <1>1, <1>3 DEF IsStream
<1>5. ASSUME NEW p \in DOMAIN t PROVE t[p] = "none" \/ t[p] = s[f[p]]
  <2>1. CASE p \in 1..Len(c)
    <3>1. t[p] = CommandSays(r, d[p]) /\ s[p] = CommandSays(r, c[p]) /\ d[p] = c[p]
      BY <2>1, <1>1, <1>3 DEF IsStream
    <3>. QED BY <2>1, <3>1, <1>1
  <2>2. CASE \E j \in 1..Len(q) : p = Len(d) + 1 + j
    <3>1. PICK j \in 1..Len(q) : p = Len(d) + 1 + j
      BY <2>2
    <3>2. f[p] = Len(c) + 1 + j
      BY <3>1, <1>1
    <3>. QED BY <3>1, <3>2, <1>3 DEF IsStream
  <2>3. CASE p = Len(d)
    <3>1. t[p] = CommandSays(r, e) /\ s[f[p]] = SnapshotSays(r, h)
      BY <2>3, <1>1, <1>3 DEF IsStream
    <3>. QED BY <3>1
  <2>4. CASE p = Len(d) + 1
    <3>1. t[p] = SnapshotSays(r, g) /\ s[f[p]] = SnapshotSays(r, h)
      BY <2>4, <1>1, <1>3 DEF IsStream
    <3>. QED BY <3>1
  <2>5. CASE p \in {Len(d) + Len(q) + 2, Len(d) + Len(q) + 3}
    BY <2>5, <1>1, <1>3 DEF IsStream
  <2>6. p \in 1..Len(d) => p \in 1..Len(c) \/ p = Len(d)
    BY <1>1
  <2>. QED BY <2>1, <2>2, <2>3, <2>4, <2>5, <2>6, <1>3 DEF IsStream
<1>. HIDE DEF f
<1>6. Fits(v, w, t)
  BY <1>2, <1>4, <1>5, Thinner
<1>. QED BY <1>6 DEF t, d

LEMMA RoomDecided ==
    ASSUME NEW c, Len(c) \in Nat, NEW q, Len(q) \in Nat, NEW r, NEW h, NEW g, NEW k, NEW a,
           NEW v, NEW w, Fits(v, w, StreamOf(r, c, h, q, k, a)),
           SnapshotSays(r, g) \in {"none", SnapshotSays(r, h)}
    PROVE  Fits(v, w, StreamOf(r, c, g, q, k, a))
<1>. DEFINE s == StreamOf(r, c, h, q, k, a)
            t == StreamOf(r, c, g, q, k, a)
            f == [p \in DOMAIN t |-> p]
<1>1. IsStream(s, r, c, h, q, k, a) /\ IsStream(t, r, c, g, q, k, a) /\ Fits(v, w, s)
  BY Elements
<1>. HIDE DEF s, t
<1>2. f \in [DOMAIN t -> DOMAIN s] /\ \A p, p2 \in DOMAIN t : p < p2 => f[p] < f[p2]
  BY <1>1 DEF IsStream
<1>3. ASSUME NEW p \in DOMAIN t PROVE t[p] = "none" \/ t[p] = s[p]
  <2>1. CASE p = Len(c) + 1
    BY <2>1, <1>1 DEF IsStream
  <2>2. CASE p # Len(c) + 1
    BY <2>2, <1>1 DEF IsStream
  <2>. QED BY <2>1, <2>2
<1>4. \A p \in DOMAIN t : t[p] = "none" \/ t[p] = s[f[p]]
  BY <1>3
<1>. HIDE DEF f
<1>5. Fits(v, w, t)
  BY <1>1, <1>2, <1>4, Thinner
<1>. QED BY <1>5 DEF t

(* It takes the next snapshot.                                              *)
LEMMA SnapshotTaken ==
    ASSUME NEW Q, NEW q \in Seq(Q), q # <<>>, NEW c, Len(c) \in Nat, NEW r, NEW h, NEW k, NEW a,
           NEW v, NEW w, Fits(v, w, StreamOf(r, c, h, q, k, a))
    PROVE  Fits(v, w, StreamOf(r, c, Head(q), Tail(q), k, a))
<1>. DEFINE s == StreamOf(r, c, h, q, k, a)
            g == Head(q)
            u == Tail(q)
            t == StreamOf(r, c, g, u, k, a)
            f == [p \in DOMAIN t |-> IF p <= Len(c) THEN p ELSE p + 1]
<1>1. /\ Len(q) \in Nat /\ Len(u) \in Nat /\ Len(q) = Len(u) + 1 /\ g = q[1]
      /\ \A i \in 1..Len(u) : u[i] = q[i + 1]
  OBVIOUS
<1>2. Fits(v, w, s)
  OBVIOUS
<1>. HIDE DEF g, u
<1>3. IsStream(s, r, c, h, q, k, a) /\ IsStream(t, r, c, g, u, k, a)
  BY <1>1, Elements
<1>. HIDE DEF s, t
<1>4. f \in [DOMAIN t -> DOMAIN s] /\ \A p, p2 \in DOMAIN t : p < p2 => f[p] < f[p2]
  BY <1>1, <1>3 DEF IsStream
<1>5. ASSUME NEW p \in DOMAIN t PROVE t[p] = s[f[p]]
  <2>1. CASE p \in 1..Len(c)
    <3>1. f[p] = p
      BY <2>1
    <3>. QED BY <2>1, <3>1, <1>3 DEF IsStream
  <2>2. CASE \E j \in 1..Len(u) : p = Len(c) + 1 + j
    <3>1. PICK j \in 1..Len(u) : p = Len(c) + 1 + j
      BY <2>2
    <3>2. f[p] = Len(c) + 1 + (j + 1) /\ j + 1 \in 1..Len(q)
      BY <3>1, <1>1
    <3>3. s[f[p]] = SnapshotSays(r, q[j + 1])
      BY <3>2, <1>3 DEF IsStream
    <3>4. t[p] = SnapshotSays(r, u[j])
      BY <3>1, <1>3 DEF IsStream
    <3>. QED BY <3>3, <3>4, <1>1
  <2>3. CASE p = Len(c) + 1
    <3>1. f[p] = Len(c) + 1 + 1 /\ 1 \in 1..Len(q)
      BY <2>3, <1>1
    <3>2. s[f[p]] = SnapshotSays(r, q[1])
      BY <3>1, <1>3 DEF IsStream
    <3>3. t[p] = SnapshotSays(r, g)
      BY <2>3, <1>3 DEF IsStream
    <3>. QED BY <3>2, <3>3, <1>1
  <2>4. CASE p \in {Len(c) + Len(u) + 2, Len(c) + Len(u) + 3}
    BY <2>4, <1>1, <1>3 DEF IsStream
  <2>. QED BY <2>1, <2>2, <2>3, <2>4, <1>3 DEF IsStream
<1>. HIDE DEF f
<1>6. Fits(v, w, t)
  BY <1>2, <1>4, <1>5, Thinner
<1>. QED BY <1>6 DEF t, g, u

(* The io handler publishes the present state of the room.                  *)
LEMMA StatePublished ==
    ASSUME NEW Q, NEW q \in Seq(Q), NEW k, NEW n \in Q, NEW u \in {q, Append(q, n)},
           NEW c, Len(c) \in Nat, NEW r, NEW h,
           NEW v, NEW w, Fits(v, w, StreamOf(r, c, h, q, k, SnapshotSays(r, n)))
    PROVE  Fits(v, w, StreamOf(r, c, h, u, n, SnapshotSays(r, n)))
<1>. DEFINE a == SnapshotSays(r, n)
            s == StreamOf(r, c, h, q, k, a)
            t == StreamOf(r, c, h, u, n, a)
            f == [p \in DOMAIN t |-> IF p <= Len(c) + Len(q) + 1 THEN p ELSE Len(c) + Len(q) + 3]
<1>1. /\ Len(q) \in Nat /\ Len(u) \in Nat /\ Len(u) \in {Len(q), Len(q) + 1}
      /\ \A i \in 1..Len(q) : u[i] = q[i]
      /\ Len(u) = Len(q) + 1 => u[Len(q) + 1] = n
  OBVIOUS
<1>2. Fits(v, w, s)
  OBVIOUS
<1>3. IsStream(s, r, c, h, q, k, a) /\ IsStream(t, r, c, h, u, n, a)
  BY <1>1, Elements
<1>. HIDE DEF s, t
<1>4. /\ f \in [DOMAIN t -> DOMAIN s]
      /\ \A p, p2 \in DOMAIN t : p < p2 => f[p] < f[p2] \/ f[p] = f[p2]
  BY <1>1, <1>3 DEF IsStream
<1>5. ASSUME NEW p \in DOMAIN t PROVE t[p] = s[f[p]]
  <2>1. CASE p \in 1..Len(c) \/ p = Len(c) + 1
    <3>1. f[p] = p
      BY <2>1, <1>1
    <3>. QED BY <2>1, <3>1, <1>3 DEF IsStream
  <2>2. ASSUME NEW j \in 1..Len(u), p = Len(c) + 1 + j PROVE t[p] = s[f[p]]
    <3>1. t[p] = SnapshotSays(r, u[j])
      BY <2>2, <1>3 DEF IsStream
    <3>2. CASE j \in 1..Len(q)
      <4>1. f[p] = Len(c) + 1 + j
        BY <3>2, <2>2, <1>1
      <4>2. s[f[p]] = SnapshotSays(r, q[j])
        BY <3>2, <4>1, <1>3 DEF IsStream
      <4>. QED BY <3>1, <3>2, <4>2, <1>1
    <3>3. CASE j \notin 1..Len(q)
      <4>1. j = Len(q) + 1 /\ u[j] = n /\ f[p] = Len(c) + Len(q) + 3
        BY <3>3, <2>2, <1>1
      <4>2. s[f[p]] = a
        BY <4>1, <1>3 DEF IsStream
      <4>. QED BY <3>1, <4>1, <4>2
    <3>. QED BY <3>2, <3>3
  <2>3. CASE p \in {Len(c) + Len(u) + 2, Len(c) + Len(u) + 3}
    <3>1. f[p] = Len(c) + Len(q) + 3
      BY <2>3, <1>1
    <3>. QED BY <2>3, <3>1, <1>3 DEF IsStream
  <2>. QED BY <2>1, <2>2, <2>3, <1>3 DEF IsStream
<1>. HIDE DEF f
<1>6. Fits(v, w, t)
  BY <1>2, <1>4, <1>5, Thinner
<1>. QED BY <1>6 DEF t

(* The status that is known is published again.                             *)
LEMMA StatusRepeated ==
    ASSUME NEW Q, NEW q \in Seq(Q), NEW k \in Q, NEW u \in {q, Append(q, k)},
           NEW c, Len(c) \in Nat, NEW r, NEW h, NEW a,
           NEW v, NEW w, Fits(v, w, StreamOf(r, c, h, q, k, a))
    PROVE  Fits(v, w, StreamOf(r, c, h, u, k, a))
<1>. SUFFICES ASSUME u = Append(q, k) PROVE Fits(v, w, StreamOf(r, c, h, u, k, a))
  OBVIOUS
<1>. DEFINE s == StreamOf(r, c, h, q, k, a)
            t == StreamOf(r, c, h, u, k, a)
            f == [p \in DOMAIN t |-> IF p <= Len(c) + Len(q) + 2 THEN p ELSE p - 1]
<1>1. /\ Len(q) \in Nat /\ Len(u) \in Nat /\ Len(u) = Len(q) + 1
      /\ \A i \in 1..Len(q) : u[i] = q[i]
      /\ u[Len(q) + 1] = k
  OBVIOUS
<1>2. Fits(v, w, s)
  OBVIOUS
<1>3. IsStream(s, r, c, h, q, k, a) /\ IsStream(t, r, c, h, u, k, a)
  BY <1>1, Elements
<1>. HIDE DEF s, t
<1>4. /\ f \in [DOMAIN t -> DOMAIN s]
      /\ \A p, p2 \in DOMAIN t : p < p2 => f[p] < f[p2] \/ f[p] = f[p2]
  BY <1>1, <1>3 DEF IsStream
<1>5. ASSUME NEW p \in DOMAIN t PROVE t[p] = s[f[p]]
  <2>1. CASE p \in 1..Len(c) \/ p = Len(c) + 1
    <3>1. f[p] = p
      BY <2>1, <1>1
    <3>. QED BY <2>1, <3>1, <1>3 DEF IsStream
  <2>2. ASSUME NEW j \in 1..Len(u), p = Len(c) + 1 + j PROVE t[p] = s[f[p]]
    <3>1. t[p] = SnapshotSays(r, u[j])
      BY <2>2, <1>3 DEF IsStream
    <3>2. CASE j \in 1..Len(q)
      <4>1. f[p] = Len(c) + 1 + j
        BY <3>2, <2>2, <1>1
      <4>2. s[f[p]] = SnapshotSays(r, q[j])
        BY <3>2, <4>1, <1>3 DEF IsStream
      <4>. QED BY <3>1, <3>2, <4>2, <1>1
    <3>3. CASE j \notin 1..Len(q)
      <4>1. j = Len(q) + 1 /\ u[j] = k /\ f[p] = Len(c) + Len(q) + 2
        BY <3>3, <2>2, <1>1
      <4>2. s[f[p]] = SnapshotSays(r, k)
        BY <4>1, <1>3 DEF IsStream
      <4>. QED BY <3>1, <4>1, <4>2
    <3>. QED BY <3>2, <3>3
  <2>3. CASE p = Len(c) + Len(u) + 2
    <3>1. f[p] = Len(c) + Len(q) + 2
      BY <2>3, <1>1
    <3>. QED BY <2>3, <3>1, <1>3 DEF IsStream
  <2>4. CASE p = Len(c) + Len(u) + 3
    <3>1. f[p] = Len(c) + Len(q) + 3
      BY <2>4, <1>1
    <3>. QED BY <2>4, <3>1, <1>3 DEF IsStream
  <2>. QED BY <2>1, <2>2, <2>3, <2>4, <1>3 DEF IsStream
<1>. HIDE DEF f
<1>6. Fits(v, w, t)
  BY <1>2, <1>4, <1>5, Thinner
<1>. QED BY <1>6 DEF t

-------------------------------------------------------------------------------
(* Types.                                                                   *)

LEMMA Offered ==
    ASSUME NEW S, NEW q \in Seq(S), NEW m \in S
    PROVE  /\ Heating!Offer(q, m) \in {q, Append(q, m)} /\ Heating!Offer(q, m) \in Seq(S)
           /\ Len(q) <= BufferSize => Len(Heating!Offer(q, m)) <= BufferSize
<1>1. BufferSize \in Nat
  BY ClimateAssumption
<1>2. Append(q, m) \in Seq(S) /\ Len(Append(q, m)) = Len(q) + 1 /\ Len(q) \in Nat
  OBVIOUS
<1>. QED BY <1>1, <1>2 DEF Heating!Offer

LEMMA Taken ==
    ASSUME NEW S, NEW q \in Seq(S), q # <<>>, Len(q) <= BufferSize
    PROVE  Head(q) \in S /\ Tail(q) \in Seq(S) /\ Len(Tail(q)) <= BufferSize
<1>1. BufferSize \in Nat
  BY ClimateAssumption
<1>2. Head(q) \in S /\ Tail(q) \in Seq(S) /\ Len(Tail(q)) = Len(q) - 1 /\ Len(q) \in Nat
  OBVIOUS
<1>. QED BY <1>1, <1>2

LEMMA TurnFacts ==
    /\ Heating!Done \in Nat /\ 1 \in 1..Heating!Done
    /\ \A i \in 1..Heating!Done : i # Heating!Done =>
           /\ i + 1 \in 1..Heating!Done /\ Rooms[i] \in Heating!All
           /\ Rooms[i] \notin Missing => Rooms[i] \in Heating!Real
<1>1. Len(Rooms) \in Nat
  BY ClimateAssumption
<1>. QED BY <1>1 DEF Heating!Done, Heating!All, Heating!Real

LEMMA AgeFacts ==
    0 \in Heating!Ages /\ \A a \in Heating!Ages : Heating!Older(a) \in Heating!Ages
BY ClimateAssumption DEF Heating!Ages, Heating!Older

LEMMA PublishesTyped ==
    ASSUME Heating!TypeOK, NEW t \in [Heating!Real -> Temps], NEW v \in [Heating!Real -> BOOLEAN],
           NEW a \in [Heating!Real -> Heating!Ages], Heating!Publishes(t, v, a)
    PROVE  /\ known' = Heating!Unknown \/ known' \in [Heating!Real -> Heating!RoomStates]
           /\ snapshots' \in Seq([Heating!Real -> Heating!RoomStates]) /\ Len(snapshots') <= BufferSize
           /\ lost' \in BOOLEAN
<1>1. CASE UNCHANGED <<known, snapshots>> /\ lost' = TRUE
  BY <1>1 DEF Heating!TypeOK
<1>2. CASE /\ known' = [r \in Heating!Real |-> [temp |-> t[r], valve |-> v[r], age |-> a[r]]]
           /\ snapshots' = IF up THEN Heating!Offer(snapshots, known') ELSE snapshots
           /\ lost' = FALSE
  <2>1. known' \in [Heating!Real -> Heating!RoomStates]
    BY <1>2 DEF Heating!RoomStates
  <2>2. snapshots \in Seq([Heating!Real -> Heating!RoomStates]) /\ Len(snapshots) <= BufferSize
    BY DEF Heating!TypeOK
  <2>. QED BY <1>2, <2>1, <2>2, Offered
<1>. QED BY <1>1, <1>2 DEF Heating!Publishes

LEMMA HeatingTyped == Heating!TypeOK /\ [Heating!Next]_Heating!vars => Heating!TypeOK'
<1>. SUFFICES ASSUME Heating!TypeOK, [Heating!Next]_Heating!vars PROVE Heating!TypeOK'
  OBVIOUS
<1>1. CASE UNCHANGED Heating!vars
  BY <1>1 DEF Heating!vars, Heating!TypeOK
<1>2. CASE Heating!Republished
  <2>1. known \in [Heating!Real -> Heating!RoomStates]
    BY <1>2 DEF Heating!Republished, Heating!TypeOK
  <2>2. snapshots \in Seq([Heating!Real -> Heating!RoomStates]) /\ Len(snapshots) <= BufferSize
    BY DEF Heating!TypeOK
  <2>3. snapshots' \in Seq([Heating!Real -> Heating!RoomStates]) /\ Len(snapshots') <= BufferSize
    BY <1>2, <2>1, <2>2, Offered DEF Heating!Republished
  <2>. QED BY <1>2, <2>3 DEF Heating!Republished, Heating!TypeOK
<1>3. CASE Heating!Executes
  <2>1. cmds \in Seq(Heating!Commands) /\ Len(cmds) <= BufferSize /\ cmds # <<>>
    BY <1>3 DEF Heating!Executes, Heating!TypeOK
  <2>2. /\ Head(cmds) \in Heating!Commands /\ cmds' \in Seq(Heating!Commands)
        /\ Len(cmds') <= BufferSize
    BY <1>3, <2>1, Taken DEF Heating!Executes
  <2>3. CASE Head(cmds).room \in Missing
    BY <1>3, <2>2, <2>3 DEF Heating!Executes, Heating!TypeOK
  <2>4. CASE Head(cmds).room \notin Missing
    <3>. DEFINE r == Head(cmds).room
                open == Head(cmds).open
    <3>1. r \in Heating!Real /\ open \in BOOLEAN
      BY <2>2, <2>4 DEF Heating!Commands, Heating!Real
    <3>2. /\ valve' = [valve EXCEPT ![r] = open] /\ age' = [age EXCEPT ![r] = 0]
          /\ season' = [season EXCEPT ![r] = IF ~open \/ valve[r] THEN @
                                             ELSE IF Heating!Hot(temp[r]) THEN "hot" ELSE "open"]
          /\ Heating!Publishes(temp, valve', age') /\ UNCHANGED <<temp, up, turn, handled>>
      BY <1>3, <2>4 DEF Heating!Executes
    <3>. HIDE DEF r, open
    <3>3. valve' \in [Heating!Real -> BOOLEAN] /\ age' \in [Heating!Real -> Heating!Ages]
      BY <3>1, <3>2, AgeFacts DEF Heating!TypeOK
    <3>4. season' \in [Heating!Real -> {"start", "open", "hot", "cold"}]
      BY <3>1, <3>2 DEF Heating!TypeOK
    <3>5. temp \in [Heating!Real -> Temps]
      BY DEF Heating!TypeOK
    <3>6. /\ known' = Heating!Unknown \/ known' \in [Heating!Real -> Heating!RoomStates]
          /\ snapshots' \in Seq([Heating!Real -> Heating!RoomStates]) /\ Len(snapshots') <= BufferSize
          /\ lost' \in BOOLEAN
      BY <3>2, <3>3, <3>5, PublishesTyped
    <3>. QED BY <2>2, <3>2, <3>3, <3>4, <3>6 DEF Heating!TypeOK
  <2>. QED BY <2>3, <2>4
<1>4. CASE Heating!Tick
  <2>1. age' = [r \in Heating!Real |-> Heating!Older(age[r])]
    BY <1>4 DEF Heating!Tick
  <2>2. age' \in [Heating!Real -> Heating!Ages]
    BY <2>1, AgeFacts DEF Heating!TypeOK
  <2>3. known' = Heating!Unknown \/ known' \in [Heating!Real -> Heating!RoomStates]
    <3>1. CASE known = Heating!Unknown
      BY <1>4, <3>1 DEF Heating!Tick
    <3>2. CASE known # Heating!Unknown
      <4>1. known' = [r \in Heating!Real |-> [known[r] EXCEPT !.age = Heating!Older(@)]]
        BY <1>4, <3>2 DEF Heating!Tick
      <4>2. \A r \in Heating!Real : known[r] \in Heating!RoomStates
        BY <3>2 DEF Heating!TypeOK
      <4>3. \A r \in Heating!Real : [known[r] EXCEPT !.age = Heating!Older(@)] \in Heating!RoomStates
        BY <4>2, AgeFacts DEF Heating!RoomStates
      <4>. QED BY <4>1, <4>3
    <3>. QED BY <3>1, <3>2
  <2>. QED BY <1>4, <2>2, <2>3 DEF Heating!Tick, Heating!TypeOK
<1>5. CASE Heating!Setup
  <2>1. turn \in 1..Heating!Done /\ turn # Heating!Done /\ ~up
    BY <1>5 DEF Heating!Setup, Heating!TypeOK
  <2>2. Heating!Command(Rooms[turn], FALSE) \in Heating!Commands
    BY <2>1, TurnFacts DEF Heating!Command, Heating!Commands
  <2>3. cmds \in Seq(Heating!Commands) /\ Len(cmds) <= BufferSize
    BY DEF Heating!TypeOK
  <2>4. cmds' \in Seq(Heating!Commands) /\ Len(cmds') <= BufferSize
    BY <1>5, <2>2, <2>3, Offered DEF Heating!Setup
  <2>5. turn' \in 1..Heating!Done
    BY <1>5, <2>1, TurnFacts DEF Heating!Setup
  <2>. QED BY <1>5, <2>1, <2>4, <2>5 DEF Heating!Setup, Heating!TypeOK
<1>6. CASE Heating!Subscribes
  BY <1>6 DEF Heating!Subscribes, Heating!TypeOK
<1>7. CASE Heating!HandleMessage
  <2>1. /\ snapshots \in Seq([Heating!Real -> Heating!RoomStates]) /\ Len(snapshots) <= BufferSize
        /\ snapshots # <<>>
    BY <1>7 DEF Heating!HandleMessage, Heating!TypeOK
  <2>2. /\ handled' \in [Heating!Real -> Heating!RoomStates]
        /\ snapshots' \in Seq([Heating!Real -> Heating!RoomStates]) /\ Len(snapshots') <= BufferSize
    BY <1>7, <2>1, Taken DEF Heating!HandleMessage
  <2>3. CASE turn' # Heating!Done
    BY <1>7, <2>2, <2>3, TurnFacts DEF Heating!HandleMessage, Heating!TypeOK
  <2>4. CASE turn' = Heating!Done
    <3>1. Len(Rooms) = 0 /\ Heating!Real = {}
      <4>1. Len(Rooms) \in Nat /\ Len(Rooms) + 1 = 1
        BY <1>7, <2>4, ClimateAssumption DEF Heating!HandleMessage, Heating!Done
      <4>. QED BY <4>1 DEF Heating!Real, Heating!All
    <3>2. handled' \in [1..0 -> Heating!RoomStates]
      BY <2>2, <3>1
    <3>3. handled' = <<>>
      <4>1. handled' \in Seq(Heating!RoomStates) /\ Len(handled') = 0
        BY <3>2
      <4>. QED BY <4>1
    <3>. QED BY <1>7, <2>2, <2>4, <3>3, TurnFacts DEF Heating!HandleMessage, Heating!TypeOK, Heating!Unknown
  <2>. QED BY <2>3, <2>4
<1>8. CASE Heating!Decides
  <2>1. turn \in 1..Heating!Done /\ turn # Heating!Done /\ up
    BY <1>8 DEF Heating!Decides, Heating!TypeOK
  <2>2. turn' = turn + 1 /\ turn' \in 1..Heating!Done
    BY <1>8, <2>1, TurnFacts DEF Heating!Decides, Heating!NextRoom
  <2>3. cmds' \in Seq(Heating!Commands) /\ Len(cmds') <= BufferSize
    <3>1. \A b \in BOOLEAN : Heating!Command(Rooms[turn], b) \in Heating!Commands
      BY <2>1, TurnFacts DEF Heating!Command, Heating!Commands
    <3>2. cmds \in Seq(Heating!Commands) /\ Len(cmds) <= BufferSize
      BY DEF Heating!TypeOK
    <3>. DEFINE opened == Heating!Offer(cmds, Heating!Command(Rooms[turn], TRUE))
                closed == Heating!Offer(cmds, Heating!Command(Rooms[turn], FALSE))
    <3>3. cmds' \in {cmds, opened, closed}
      BY <1>8 DEF Heating!Decides
    <3>4. opened \in Seq(Heating!Commands) /\ Len(opened) <= BufferSize
      BY <3>1, <3>2, Offered
    <3>5. closed \in Seq(Heating!Commands) /\ Len(closed) <= BufferSize
      BY <3>1, <3>2, Offered
    <3>. HIDE DEF opened, closed
    <3>. QED BY <3>2, <3>3, <3>4, <3>5
  <2>. QED BY <1>8, <2>1, <2>2, <2>3 DEF Heating!Decides, Heating!TypeOK
<1>9. ASSUME NEW r \in Heating!Real, NEW t \in Temps, Heating!TemperatureChanges(r, t)
      PROVE  Heating!TypeOK'
  <2>1. temp' = [temp EXCEPT ![r] = t] /\ temp' \in [Heating!Real -> Temps]
    BY <1>9 DEF Heating!TemperatureChanges, Heating!TypeOK
  <2>2. season' \in [Heating!Real -> {"start", "open", "hot", "cold"}]
    BY <1>9 DEF Heating!TemperatureChanges, Heating!TypeOK
  <2>3. valve \in [Heating!Real -> BOOLEAN] /\ age \in [Heating!Real -> Heating!Ages]
    BY DEF Heating!TypeOK
  <2>4. /\ known' = Heating!Unknown \/ known' \in [Heating!Real -> Heating!RoomStates]
        /\ snapshots' \in Seq([Heating!Real -> Heating!RoomStates]) /\ Len(snapshots') <= BufferSize
        /\ lost' \in BOOLEAN
    BY <1>9, <2>1, <2>3, PublishesTyped DEF Heating!TemperatureChanges
  <2>. QED BY <1>9, <2>1, <2>2, <2>4 DEF Heating!TemperatureChanges, Heating!TypeOK
<1>. QED BY <1>1, <1>2, <1>3, <1>4, <1>5, <1>6, <1>7, <1>8, <1>9 DEF Heating!Next

-------------------------------------------------------------------------------
(* Heating: what each step does to the streams.                             *)

LEMMA QueuesOf ==
    ASSUME Heating!TypeOK
    PROVE  /\ cmds \in Seq(Heating!Commands) /\ Len(cmds) \in Nat
           /\ snapshots \in Seq([Heating!Real -> Heating!RoomStates]) /\ Len(snapshots) \in Nat
           /\ temp \in [Heating!Real -> Temps] /\ valve \in [Heating!Real -> BOOLEAN]
           /\ season \in [Heating!Real -> {"start", "open", "hot", "cold"}]
  BY DEF Heating!TypeOK

(* Publishing what is known changes nothing about what will be decided.     *)
LEMMA Published ==
    ASSUME Heating!TypeOK, NEW t \in [Heating!Real -> Temps], NEW v \in [Heating!Real -> BOOLEAN],
           NEW a \in [Heating!Real -> Heating!Ages], Heating!Publishes(t, v, a),
           NEW c, Len(c) \in Nat, NEW h, NEW r \in Heating!Real, NEW w,
           Fits(v[r], w, StreamOf(r, c, h, snapshots, known, Says(t[r], v[r])))
    PROVE  Fits(v[r], w, StreamOf(r, c, h, snapshots', known', Says(t[r], v[r])))
<1>1. CASE UNCHANGED <<known, snapshots>>
  BY <1>1
<1>2. CASE /\ known' = [x \in Heating!Real |-> [temp |-> t[x], valve |-> v[x], age |-> a[x]]]
           /\ snapshots' = IF up THEN Heating!Offer(snapshots, known') ELSE snapshots
  <2>. DEFINE n == known'
  <2>1. SnapshotSays(r, n) = Says(t[r], v[r])
    BY <1>2 DEF SnapshotSays
  <2>2. n \in [Heating!Real -> Heating!RoomStates]
    BY <1>2 DEF Heating!RoomStates
  <2>3. snapshots \in Seq([Heating!Real -> Heating!RoomStates])
    BY QueuesOf
  <2>4. snapshots' \in {snapshots, Append(snapshots, n)}
    BY <1>2, <2>2, <2>3, Offered
  <2>. HIDE DEF n
  <2>5. Fits(v[r], w, StreamOf(r, c, h, snapshots', n, SnapshotSays(r, n)))
    BY <2>1, <2>2, <2>3, <2>4, StatePublished
  <2>. QED BY <2>1, <2>5 DEF n
<1>. QED BY <1>1, <1>2 DEF Heating!Publishes

LEMMA SaysFacts ==
    /\ \A t, v : Says(t, v) \in Words
    /\ \A t : Says(t, TRUE) # "open" /\ Says(t, FALSE) # "close"
    /\ \A t : ~Heating!Hot(t) => Says(t, TRUE) # "close"
    /\ \A t : ~Heating!Cold(t) => Says(t, FALSE) # "open"
BY DEF Says, Words

LEMMA HotOrCold == \A t \in Temps : ~(Heating!Hot(t) /\ Heating!Cold(t))
BY ClimateAssumption DEF Heating!Hot, Heating!Cold

SeasonAfter(w, t) ==
    CASE w = "open" /\ Heating!Hot(t) -> "hot"
      [] w = "hot" /\ Heating!Cold(t) -> "cold"
      [] OTHER -> w

(* The temperature of the room changes.                                     *)
LEMMA StateChanges ==
    ASSUME NEW c, NEW q, Len(c) \in Nat, Len(q) \in Nat, NEW r, NEW h, NEW k,
           NEW a, NEW t \in Temps, NEW v \in BOOLEAN, NEW w \in {"start", "open", "hot", "cold"},
           Fits(v, w, StreamOf(r, c, h, q, k, a))
    PROVE  Fits(v, SeasonAfter(w, t), StreamOf(r, c, h, q, k, Says(t, v)))
<1>. DEFINE s == StreamOf(r, c, h, q, k, a)
            u == StreamOf(r, c, h, q, k, Says(t, v))
<1>1. Changes(s, u, Says(t, v)) /\ Fits(v, w, s)
  BY LastChanges
<1>. SUFFICES Fits(v, SeasonAfter(w, t), u)
  OBVIOUS
<1>. HIDE DEF s, u
<1>2. Fits(v, w, s)
  BY <1>1
<1>3. "open" \in Words /\ "close" \in Words
  BY DEF Words
<1>4. CASE v = TRUE
  <2>1. Says(t, v) # "open" /\ (~Heating!Hot(t) => Says(t, v) # "close")
    BY <1>4, SaysFacts
  <2>2. CASE w = "open" /\ Heating!Hot(t)
    BY <1>1, <1>2, <1>3, <1>4, <2>1, <2>2 DEF Fits, SeasonAfter, Changes
  <2>3. CASE w = "open" /\ ~Heating!Hot(t)
    BY <1>1, <1>2, <1>3, <1>4, <2>1, <2>3 DEF Fits, SeasonAfter, Changes
  <2>4. CASE w = "start"
    BY <1>1, <1>2, <1>3, <1>4, <2>1, <2>4 DEF Fits, SeasonAfter, Changes
  <2>5. CASE w \in {"hot", "cold"}
    <3>1. SeasonAfter(w, t) \in {"hot", "cold"}
      BY <2>5 DEF SeasonAfter
    <3>. QED BY <1>1, <1>2, <1>3, <1>4, <2>1, <2>5, <3>1 DEF Fits, Changes
  <2>. QED BY <2>2, <2>3, <2>4, <2>5
<1>5. CASE v = FALSE
  <2>1. Says(t, v) # "close" /\ (~Heating!Cold(t) => Says(t, v) # "open")
    BY <1>5, SaysFacts
  <2>2. w # "open"
    BY <1>2, <1>5 DEF Fits
  <2>3. CASE w = "hot" /\ Heating!Cold(t)
    BY <1>1, <1>2, <1>3, <1>5, <2>1, <2>3 DEF Fits, SeasonAfter, Changes
  <2>4. CASE w = "hot" /\ ~Heating!Cold(t)
    BY <1>1, <1>2, <1>3, <1>5, <2>1, <2>4 DEF Fits, SeasonAfter, Changes
  <2>5. CASE w \in {"start", "cold"}
    <3>1. SeasonAfter(w, t) = w
      BY <2>5 DEF SeasonAfter
    <3>. QED BY <1>1, <1>2, <1>3, <1>5, <2>1, <2>5, <3>1 DEF Fits, Changes
  <2>. QED BY <2>2, <2>3, <2>4, <2>5
<1>. QED BY <1>4, <1>5

(* What the first command of a stream says about the rest of it.            *)
LEMMA FirstCommand ==
    ASSUME NEW C, NEW c \in Seq(C), c # <<>>, NEW q, Len(q) \in Nat, NEW r, NEW h, NEW k, NEW a, NEW y
    PROVE  /\ Never(StreamOf(r, c, h, q, k, a), y) => CommandSays(r, Head(c)) # y
           /\ Never(StreamOf(r, c, h, q, k, a), y) => Never(StreamOf(r, Tail(c), h, q, k, a), y)
           /\ NoneAfter(StreamOf(r, c, h, q, k, a), CommandSays(r, Head(c)), y)
                  => Never(StreamOf(r, Tail(c), h, q, k, a), y)
<1>. DEFINE s == StreamOf(r, c, h, q, k, a)
            d == Tail(c)
            t == StreamOf(r, d, h, q, k, a)
            x == CommandSays(r, Head(c))
<1>1. /\ Len(c) \in Nat /\ Len(d) \in Nat /\ Len(c) = Len(d) + 1
      /\ \A i \in 1..Len(d) : d[i] = c[i + 1]
      /\ Head(c) = c[1]
  OBVIOUS
<1>. HIDE DEF d
<1>2. IsStream(s, r, c, h, q, k, a) /\ IsStream(t, r, d, h, q, k, a)
  BY <1>1, Elements
<1>. HIDE DEF s, t
<1>3. 1 \in DOMAIN s /\ s[1] = x /\ \A p \in DOMAIN t : p + 1 \in DOMAIN s /\ 1 < p + 1
  BY <1>1, <1>2 DEF IsStream
<1>4. ASSUME NEW p \in DOMAIN t PROVE t[p] = s[p + 1]
  <2>1. CASE p \in 1..Len(d)
    BY <2>1, <1>1, <1>2 DEF IsStream
  <2>2. CASE \E j \in 1..Len(q) : p = Len(d) + 1 + j
    <3>1. PICK j \in 1..Len(q) : p = Len(d) + 1 + j
      BY <2>2
    <3>2. p + 1 = Len(c) + 1 + j
      BY <3>1, <1>1
    <3>. QED BY <3>1, <3>2, <1>2 DEF IsStream
  <2>3. CASE p \in {Len(d) + 1, Len(d) + Len(q) + 2, Len(d) + Len(q) + 3}
    BY <2>3, <1>1, <1>2 DEF IsStream
  <2>. QED BY <2>1, <2>2, <2>3, <1>2 DEF IsStream
<1>. HIDE DEF x
<1>5. /\ Never(s, y) => x # y
      /\ Never(s, y) => Never(t, y)
      /\ NoneAfter(s, x, y) => Never(t, y)
  BY <1>3, <1>4 DEF Never, NoneAfter
<1>. QED BY <1>5 DEF s, t, d, x

(* The io handler opens or closes the valve of the room.                    *)
LEMMA ValveChanges ==
    ASSUME NEW C, NEW c \in Seq(C), c # <<>>, NEW q, Len(q) \in Nat, NEW r, NEW h, NEW k,
           NEW a, NEW t \in Temps, NEW v \in BOOLEAN, NEW w \in {"start", "open", "hot", "cold"},
           Fits(v, w, StreamOf(r, c, h, q, k, a)), w = "hot" => ~Heating!Cold(t),
           NEW open \in BOOLEAN, CommandSays(r, Head(c)) = IF open THEN "open" ELSE "close",
           v = (~open)
    PROVE  /\ open => w \in {"start", "cold"}
           /\ Fits(open, IF ~open THEN w ELSE IF Heating!Hot(t) THEN "hot" ELSE "open",
                   StreamOf(r, Tail(c), h, q, k, Says(t, open)))
<1>. DEFINE s == StreamOf(r, c, h, q, k, a)
            d == Tail(c)
            s2 == StreamOf(r, d, h, q, k, a)
            u == StreamOf(r, d, h, q, k, Says(t, open))
            x == CommandSays(r, Head(c))
<1>1. Len(d) \in Nat
  OBVIOUS
<1>2. \A y : /\ Never(s, y) => x # y
             /\ Never(s, y) => Never(s2, y)
             /\ NoneAfter(s, x, y) => Never(s2, y)
  BY FirstCommand
<1>4. Fits(v, w, s) /\ x = IF open THEN "open" ELSE "close"
  OBVIOUS
<1>. SUFFICES /\ open => w \in {"start", "cold"}
              /\ Fits(open, IF ~open THEN w ELSE IF Heating!Hot(t) THEN "hot" ELSE "open", u)
  OBVIOUS
<1>. HIDE DEF d
<1>3. Changes(s2, u, Says(t, open))
  BY <1>1, LastChanges
<1>. HIDE DEF s, s2, u, x
<1>5. "open" \in Words /\ "close" \in Words
  BY DEF Words
<1>6. CASE open = TRUE
  <2>1. w \in {"start", "cold"}
    BY <1>2, <1>4, <1>6 DEF Fits
  <2>2. Never(s2, "close")
    BY <1>2, <1>4, <1>6, <2>1 DEF Fits
  <2>3. ~Heating!Hot(t) => Says(t, open) # "close"
    BY <1>6, SaysFacts
  <2>4. CASE Heating!Hot(t)
    BY <1>3, <1>5, <1>6, <2>1, <2>2, <2>4 DEF Fits, Changes
  <2>5. CASE ~Heating!Hot(t)
    BY <1>3, <1>5, <1>6, <2>1, <2>2, <2>3, <2>5 DEF Fits, Changes
  <2>. QED BY <2>4, <2>5
<1>7. CASE open = FALSE
  <2>1. w # "open"
    BY <1>2, <1>4, <1>7 DEF Fits
  <2>2. Never(s2, "open")
    BY <1>2, <1>4, <1>7, <2>1 DEF Fits
  <2>3. ~Heating!Cold(t) => Says(t, open) # "open"
    BY <1>7, SaysFacts
  <2>. QED BY <1>3, <1>5, <1>7, <2>1, <2>2, <2>3 DEF Fits, Changes
<1>. QED BY <1>6, <1>7

LEMMA ValveOpens ==
    ASSUME NEW C, NEW c \in Seq(C), c # <<>>, NEW q, Len(q) \in Nat, NEW r, NEW h, NEW k,
           NEW a, NEW t \in Temps, NEW w \in {"start", "open", "hot", "cold"},
           Fits(FALSE, w, StreamOf(r, c, h, q, k, a)), w = "hot" => ~Heating!Cold(t),
           CommandSays(r, Head(c)) = "open"
    PROVE  /\ w \in {"start", "cold"}
           /\ Fits(TRUE, IF Heating!Hot(t) THEN "hot" ELSE "open",
                   StreamOf(r, Tail(c), h, q, k, Says(t, TRUE)))
<1>1. CommandSays(r, Head(c)) = IF TRUE THEN "open" ELSE "close"
  OBVIOUS
<1>2. FALSE = (~TRUE) /\ TRUE \in BOOLEAN /\ FALSE \in BOOLEAN
  OBVIOUS
<1>. QED BY <1>1, <1>2, ValveChanges

LEMMA ValveCloses ==
    ASSUME NEW C, NEW c \in Seq(C), c # <<>>, NEW q, Len(q) \in Nat, NEW r, NEW h, NEW k,
           NEW a, NEW t \in Temps, NEW w \in {"start", "open", "hot", "cold"},
           Fits(TRUE, w, StreamOf(r, c, h, q, k, a)), w = "hot" => ~Heating!Cold(t),
           CommandSays(r, Head(c)) = "close"
    PROVE  Fits(FALSE, w, StreamOf(r, Tail(c), h, q, k, Says(t, FALSE)))
<1>1. CommandSays(r, Head(c)) = IF FALSE THEN "open" ELSE "close"
  OBVIOUS
<1>2. TRUE = (~FALSE) /\ TRUE \in BOOLEAN /\ FALSE \in BOOLEAN
  OBVIOUS
<1>. QED BY <1>1, <1>2, ValveChanges

-------------------------------------------------------------------------------
(* Heating: the invariant.                                                  *)

LEMMA HeatingStarts == Heating!Init => HeatingInv
<1>. SUFFICES ASSUME Heating!Init PROVE HeatingInv
  OBVIOUS
<1>1. /\ cmds = <<>> /\ snapshots = <<>> /\ ~up /\ handled = <<>> /\ turn = 1
      /\ temp \in [Heating!Real -> Temps] /\ valve \in [Heating!Real -> BOOLEAN]
      /\ season = [r \in Heating!Real |-> "start"] /\ age = [r \in Heating!Real |-> 0]
      /\ \/ known = <<>>
         \/ known = [r \in Heating!Real |-> [temp |-> temp[r], valve |-> valve[r], age |-> 0]]
  BY DEF Heating!Init, Heating!Unknown
<1>2. known = <<>> \/ known \in [Heating!Real -> Heating!RoomStates]
  BY <1>1, AgeFacts DEF Heating!RoomStates
<1>3. Heating!TypeOK
  <2>1. age \in [Heating!Real -> Heating!Ages] /\ lost \in BOOLEAN
    BY <1>1, AgeFacts DEF Heating!Init
  <2>2. Len(snapshots) <= BufferSize /\ Len(cmds) <= BufferSize
    BY <1>1, ClimateAssumption
  <2>3. cmds \in Seq(Heating!Commands) /\ snapshots \in Seq([Heating!Real -> Heating!RoomStates])
    BY <1>1
  <2>4. turn \in 1..Heating!Done
    BY <1>1, TurnFacts
  <2>5. season \in [Heating!Real -> {"start", "open", "hot", "cold"}] /\ up \in BOOLEAN
    BY <1>1 DEF Heating!Init
  <2>. QED BY <1>1, <1>2, <2>1, <2>2, <2>3, <2>4, <2>5 DEF Heating!TypeOK, Heating!Unknown
<1>4. ASSUME NEW r \in Heating!Real PROVE Fits(valve[r], season[r], Stream(r))
  <2>. DEFINE s == Stream(r)
              b == Says(temp[r], valve[r])
  <2>1. IsStream(s, r, cmds, handled, snapshots, known, b)
    BY <1>3, QueuesOf, Elements DEF Stream
  <2>2. Len(cmds) = 0 /\ Len(snapshots) = 0
    BY <1>1
  <2>3. SnapshotSays(r, handled) = "none" /\ SnapshotSays(r, known) \in {"none", b}
    BY <1>1 DEF SnapshotSays
  <2>. HIDE DEF s, b
  <2>4. \A p \in DOMAIN s : s[p] \in {"none", b}
    BY <2>1, <2>2, <2>3 DEF IsStream
  <2>5. valve[r] \in BOOLEAN /\ season[r] = "start"
    BY <1>1
  <2>6. CASE valve[r] = TRUE
    <3>1. b # "open"
      BY <2>6, SaysFacts DEF b
    <3>. QED BY <2>4, <2>5, <2>6, <3>1 DEF Fits, Never, s
  <2>7. CASE valve[r] = FALSE
    <3>1. b # "close"
      BY <2>7, SaysFacts DEF b
    <3>. QED BY <2>4, <2>5, <2>7, <3>1 DEF Fits, NoneAfter, s
  <2>. QED BY <2>5, <2>6, <2>7
<1>5. StreamsFit
  BY <1>4 DEF StreamsFit
<1>6. SetupOnlyCloses /\ HotIsNotCold
  BY <1>1 DEF SetupOnlyCloses, HotIsNotCold
<1>. QED BY <1>3, <1>5, <1>6 DEF HeatingInv

(* Setup: nothing else was decided before.                                  *)
LEMMA HeatingSetup == HeatingInv /\ Heating!Setup => HeatingInv'
<1>. SUFFICES ASSUME HeatingInv, Heating!Setup PROVE HeatingInv'
  OBVIOUS
<1>1. /\ ~up /\ UNCHANGED <<temp, valve, age, known, lost, snapshots, up, handled, season>>
      /\ cmds' = Heating!Offer(cmds, Heating!Command(Rooms[turn], FALSE)) \/ cmds' = cmds
  BY DEF Heating!Setup
<1>2. Heating!TypeOK /\ Heating!TypeOK'
  BY HeatingTyped DEF HeatingInv, Heating!Next
<1>. DEFINE e == Heating!Command(Rooms[turn], FALSE)
<1>3. ~e.open /\ e \in Heating!Commands
  <2>1. turn \in 1..Heating!Done /\ turn # Heating!Done
    BY <1>2 DEF Heating!Setup, Heating!TypeOK
  <2>. QED BY <2>1, TurnFacts DEF Heating!Command, Heating!Commands
<1>. HIDE DEF e
<1>4. cmds' = cmds \/ cmds' = Append(cmds, e)
  BY <1>1, <1>2, <1>3, QueuesOf, Offered DEF e
<1>5. /\ snapshots = <<>> /\ handled = <<>> /\ \A r \in Heating!Real : season[r] = "start"
      /\ \A i \in DOMAIN cmds : ~cmds[i].open
  BY <1>1, <1>2 DEF HeatingInv, SetupOnlyCloses, Heating!TypeOK, Heating!Unknown
<1>6. \A i \in DOMAIN cmds' : ~cmds'[i].open
  <2>. cmds \in Seq(Heating!Commands) BY <1>2, QueuesOf
  <2>. QED BY <1>3, <1>4, <1>5
<1>7. ASSUME NEW r \in Heating!Real PROVE Fits(valve[r], season[r], Stream(r)')
  <2>. DEFINE b == Says(temp[r], valve[r])
              s == Stream(r)
              t == StreamOf(r, cmds', <<>>, <<>>, known, b)
  <2>0. Stream(r)' = t /\ s = StreamOf(r, cmds, <<>>, <<>>, known, b)
    BY <1>1, <1>5 DEF Stream
  <2>1. Len(cmds') \in Nat /\ Len(cmds) \in Nat
    BY <1>2 DEF Heating!TypeOK
  <2>2. /\ IsStream(t, r, cmds', <<>>, <<>>, known, b)
        /\ IsStream(s, r, cmds, <<>>, <<>>, known, b)
    <3>. HIDE DEF s, t, b
    <3>1. Len(<<>>) \in Nat
      OBVIOUS
    <3>2. t = StreamOf(r, cmds', <<>>, <<>>, known, b)
      BY DEF t
    <3>. QED BY <2>0, <2>1, <3>1, <3>2, Elements
  <2>3. SnapshotSays(r, <<>>) = "none" /\ Len(<<>>) = 0
    BY DEF SnapshotSays
  <2>. HIDE DEF b, s, t
  <2>4. \A i \in 1..Len(cmds') : CommandSays(r, cmds'[i]) # "open"
    <3>. cmds' \in Seq(Heating!Commands) BY <1>2 DEF Heating!TypeOK
    <3>. QED BY <1>6 DEF CommandSays
  <2>5. Fits(valve[r], season[r], s) /\ season[r] = "start" /\ valve[r] \in BOOLEAN
    BY <1>2, <1>5 DEF HeatingInv, StreamsFit, s, Heating!TypeOK
  <2>6. CASE valve[r] = TRUE
    <3>1. Never(s, "open")
      BY <2>5, <2>6 DEF Fits
    <3>2. SnapshotSays(r, known) # "open" /\ b # "open"
      BY <2>1, <2>2, <2>3, <3>1 DEF Never, IsStream
    <3>3. \A p \in DOMAIN t : t[p] # "open"
      BY <2>1, <2>2, <2>3, <2>4, <3>2 DEF IsStream
    <3>. QED BY <2>0, <2>5, <2>6, <3>3 DEF Fits, Never
  <2>7. CASE valve[r] = FALSE
    <3>1. b # "close"
      BY <2>7, SaysFacts DEF b
    <3>2. ASSUME NEW p \in DOMAIN t, NEW p2 \in DOMAIN t, p < p2, t[p] = "open" PROVE t[p2] # "close"
      <4>1. p = Len(cmds') + 2 \/ p = Len(cmds') + 3
        BY <3>2, <2>1, <2>2, <2>3, <2>4 DEF IsStream
      <4>2. p2 = Len(cmds') + 3
        BY <4>1, <3>2, <2>1, <2>2, <2>3 DEF IsStream
      <4>. QED BY <4>2, <3>1, <2>2, <2>3 DEF IsStream
    <3>. QED BY <2>0, <2>5, <2>7, <3>2 DEF Fits, NoneAfter
  <2>. QED BY <2>5, <2>6, <2>7
<1>8. StreamsFit'
  BY <1>1, <1>7 DEF StreamsFit
<1>9. SetupOnlyCloses' /\ HotIsNotCold'
  BY <1>1, <1>5, <1>6 DEF HeatingInv, SetupOnlyCloses, HotIsNotCold
<1>. QED BY <1>2, <1>8, <1>9 DEF HeatingInv

LEMMA HeatingTemperature ==
    ASSUME HeatingInv, NEW r0 \in Heating!Real, NEW t0 \in Temps, Heating!TemperatureChanges(r0, t0)
    PROVE  HeatingInv'
<1>1. /\ temp' = [temp EXCEPT ![r0] = t0]
      /\ Heating!Publishes(temp', valve, age)
      /\ season' = [season EXCEPT ![r0] = SeasonAfter(@, t0)]
      /\ UNCHANGED <<valve, age, cmds, up, turn, handled>>
  BY DEF Heating!TemperatureChanges, SeasonAfter
<1>2. Heating!TypeOK /\ Heating!TypeOK'
  BY HeatingTyped DEF HeatingInv, Heating!Next
<1>3. /\ temp \in [Heating!Real -> Temps] /\ temp' \in [Heating!Real -> Temps]
      /\ valve \in [Heating!Real -> BOOLEAN] /\ age \in [Heating!Real -> Heating!Ages]
      /\ season \in [Heating!Real -> {"start", "open", "hot", "cold"}]
      /\ Len(cmds) \in Nat /\ Len(snapshots) \in Nat
  BY <1>2 DEF Heating!TypeOK
<1>4. /\ temp'[r0] = t0 /\ season'[r0] = SeasonAfter(season[r0], t0)
      /\ \A r \in Heating!Real : r # r0 => temp'[r] = temp[r] /\ season'[r] = season[r]
  BY <1>1, <1>3
<1>5. ASSUME NEW r \in Heating!Real PROVE Fits(valve'[r], season'[r], Stream(r)')
  <2>1. Fits(valve[r], season[r], StreamOf(r, cmds, handled, snapshots, known, Says(temp[r], valve[r])))
    BY DEF HeatingInv, StreamsFit, Stream
  <2>2. Fits(valve[r], season'[r], StreamOf(r, cmds, handled, snapshots, known, Says(temp'[r], valve[r])))
    <3>1. CASE r = r0
      <4>1. valve[r] \in BOOLEAN /\ season[r] \in {"start", "open", "hot", "cold"}
        BY <1>3
      <4>. QED BY <1>3, <1>4, <2>1, <3>1, <4>1, StateChanges
    <3>2. CASE r # r0
      BY <1>4, <2>1, <3>2
    <3>. QED BY <3>1, <3>2
  <2>3. Fits(valve[r], season'[r], StreamOf(r, cmds, handled, snapshots', known', Says(temp'[r], valve[r])))
    BY <1>1, <1>2, <1>3, <2>2, Published
  <2>. QED BY <1>1, <2>3 DEF Stream
<1>6. StreamsFit'
  BY <1>5 DEF StreamsFit
<1>7. SetupOnlyCloses'
  <2>. SUFFICES ASSUME ~up PROVE SetupOnlyCloses'
    BY <1>1 DEF SetupOnlyCloses
  <2>1. snapshots = <<>> /\ \A r \in Heating!Real : season[r] = "start"
    BY DEF HeatingInv, SetupOnlyCloses
  <2>2. \A r \in Heating!Real : season'[r] = "start"
    BY <1>4, <2>1 DEF SeasonAfter
  <2>3. snapshots' = <<>>
    BY <1>1, <2>1 DEF Heating!Publishes
  <2>. QED BY <1>1, <2>2, <2>3 DEF HeatingInv, SetupOnlyCloses
<1>8. HotIsNotCold'
  <2>1. SeasonAfter(season[r0], t0) = "hot" => ~Heating!Cold(t0)
    BY HotOrCold DEF SeasonAfter
  <2>. QED BY <1>4, <2>1 DEF HeatingInv, HotIsNotCold
<1>. QED BY <1>2, <1>6, <1>7, <1>8 DEF HeatingInv

(* The io handler executes the first command; a valve is opened only where  *)
(* the temperature asks for it.                                             *)
LEMMA HeatingExecutes ==
    ASSUME HeatingInv, Heating!Executes
    PROVE  /\ HeatingInv'
           /\ \A r \in Heating!Real : Heating!Opens(r) => season[r] \in {"start", "cold"}
<1>. DEFINE r0 == Head(cmds).room
            open == Head(cmds).open
<1>1. Heating!TypeOK /\ Heating!TypeOK'
  BY HeatingTyped DEF HeatingInv, Heating!Next
<1>2. /\ cmds \in Seq(Heating!Commands) /\ cmds # <<>> /\ cmds' = Tail(cmds)
      /\ UNCHANGED <<temp, up, turn, handled>>
      /\ snapshots \in Seq([Heating!Real -> Heating!RoomStates]) /\ Len(snapshots) \in Nat
      /\ temp \in [Heating!Real -> Temps] /\ valve \in [Heating!Real -> BOOLEAN]
      /\ season \in [Heating!Real -> {"start", "open", "hot", "cold"}]
  BY <1>1, QueuesOf DEF Heating!Executes
<1>3. open \in BOOLEAN /\ r0 \in Heating!All /\ Len(cmds') \in Nat
  <2>1. Head(cmds) \in Heating!Commands /\ Tail(cmds) \in Seq(Heating!Commands)
    BY <1>2
  <2>. QED BY <1>2, <2>1 DEF Heating!Commands
<1>4. \A r \in Heating!Real :
          CommandSays(r, Head(cmds)) = IF r # r0 THEN "none" ELSE IF open THEN "open" ELSE "close"
  BY DEF CommandSays
<1>5. ASSUME NEW r \in Heating!Real
      PROVE  /\ Fits(valve[r], season[r], StreamOf(r, cmds, handled, snapshots, known, Says(temp[r], valve[r])))
             /\ Fits(valve[r], season[r], StreamOf(r, cmds', handled, snapshots, known, Says(temp[r], valve[r])))
  <2>1. Fits(valve[r], season[r], StreamOf(r, cmds, handled, snapshots, known, Says(temp[r], valve[r])))
    BY DEF HeatingInv, StreamsFit, Stream
  <2>. QED BY <1>2, <2>1, CommandLeaves
<1>6. SetupOnlyCloses' <=> (~up => /\ snapshots' = <<>> /\ \A r \in Heating!Real : season'[r] = "start"
                                   /\ \A i \in DOMAIN cmds' : ~cmds'[i].open)
  BY <1>2 DEF SetupOnlyCloses
<1>7. ~up => /\ snapshots = <<>> /\ \A r \in Heating!Real : season[r] = "start"
             /\ ~open /\ \A i \in DOMAIN cmds' : ~cmds'[i].open
  BY <1>2 DEF HeatingInv, SetupOnlyCloses
<1>. HIDE DEF r0, open
<1>8. CASE r0 \in Missing
  <2>1. UNCHANGED <<known, snapshots, season, valve>>
    BY <1>8 DEF Heating!Executes, r0
  <2>2. StreamsFit'
    BY <1>2, <1>5, <2>1 DEF StreamsFit, Stream
  <2>3. SetupOnlyCloses' /\ HotIsNotCold'
    BY <1>2, <1>6, <1>7, <2>1 DEF HeatingInv, HotIsNotCold
  <2>. QED BY <1>1, <2>1, <2>2, <2>3 DEF HeatingInv, Heating!Opens
<1>9. CASE r0 \notin Missing
  <2>. DEFINE after == IF ~open \/ valve[r0] THEN season[r0] ELSE IF Heating!Hot(temp[r0]) THEN "hot" ELSE "open"
  <2>1. /\ valve' = [valve EXCEPT ![r0] = open] /\ age' = [age EXCEPT ![r0] = 0]
        /\ season' = [season EXCEPT ![r0] = after]
        /\ Heating!Publishes(temp, valve', age')
    BY <1>9 DEF Heating!Executes, r0, open
  <2>2. r0 \in Heating!Real
    BY <1>3, <1>9 DEF Heating!Real
  <2>. HIDE DEF after
  <2>3. /\ valve'[r0] = open /\ season'[r0] = after
        /\ \A r \in Heating!Real : r # r0 => valve'[r] = valve[r] /\ season'[r] = season[r]
    BY <1>2, <2>1, <2>2
  <2>4. valve' \in [Heating!Real -> BOOLEAN] /\ age' \in [Heating!Real -> Heating!Ages]
    BY <1>1 DEF Heating!TypeOK
  <2>5. /\ (~valve[r0] /\ open) => season[r0] \in {"start", "cold"}
        /\ Fits(open, after, StreamOf(r0, cmds', handled, snapshots, known, Says(temp[r0], open)))
    <3>0. valve[r0] \in BOOLEAN /\ season[r0] \in {"start", "open", "hot", "cold"} /\ temp[r0] \in Temps
      BY <1>2, <2>2
    <3>1. CASE valve[r0] = open
      BY <1>3, <1>5, <2>2, <3>0, <3>1 DEF after
    <3>2. /\ Fits(valve[r0], season[r0],
                  StreamOf(r0, cmds, handled, snapshots, known, Says(temp[r0], valve[r0])))
          /\ season[r0] = "hot" => ~Heating!Cold(temp[r0])
          /\ CommandSays(r0, Head(cmds)) = IF open THEN "open" ELSE "close"
      BY <1>4, <1>5, <2>2 DEF HeatingInv, HotIsNotCold
    <3>. DEFINE w == season[r0]
                t == temp[r0]
                a == Says(t, valve[r0])
    <3>. HIDE DEF w, t, a
    <3>3. w \in {"start", "open", "hot", "cold"} /\ t \in Temps /\ (w = "hot" => ~Heating!Cold(t))
      BY <3>0, <3>2 DEF w, t
    <3>4. CASE valve[r0] = FALSE /\ open = TRUE
      <4>1. Fits(FALSE, w, StreamOf(r0, cmds, handled, snapshots, known, a))
        BY <3>2, <3>4 DEF w, a, t
      <4>2. CommandSays(r0, Head(cmds)) = "open"
        BY <3>2, <3>4
      <4>3. /\ w \in {"start", "cold"}
            /\ Fits(TRUE, IF Heating!Hot(t) THEN "hot" ELSE "open",
                    StreamOf(r0, Tail(cmds), handled, snapshots, known, Says(t, TRUE)))
        BY <1>2, <3>3, <4>1, <4>2, ValveOpens
      <4>4. after = IF Heating!Hot(t) THEN "hot" ELSE "open"
        BY <3>4 DEF after, t
      <4>. QED BY <1>2, <3>4, <4>3, <4>4 DEF w, t
    <3>5. CASE valve[r0] = TRUE /\ open = FALSE
      <4>1. Fits(TRUE, w, StreamOf(r0, cmds, handled, snapshots, known, a))
        BY <3>2, <3>5 DEF w, a, t
      <4>2. CommandSays(r0, Head(cmds)) = "close"
        BY <3>2, <3>5
      <4>3. Fits(FALSE, w, StreamOf(r0, Tail(cmds), handled, snapshots, known, Says(t, FALSE)))
        BY <1>2, <3>3, <4>1, <4>2, ValveCloses
      <4>4. after = w
        BY <3>5 DEF after, w
      <4>. QED BY <1>2, <3>5, <4>3, <4>4 DEF w, t
    <3>. QED BY <1>3, <3>0, <3>1, <3>4, <3>5
  <2>6. ASSUME NEW r \in Heating!Real PROVE Fits(valve'[r], season'[r], Stream(r)')
    <3>1. Fits(valve'[r], season'[r], StreamOf(r, cmds', handled, snapshots, known, Says(temp[r], valve'[r])))
      <4>1. CASE r = r0
        BY <2>3, <2>5, <4>1
      <4>2. CASE r # r0
        BY <1>5, <2>3, <4>2
      <4>. QED BY <4>1, <4>2
    <3>2. Fits(valve'[r], season'[r], StreamOf(r, cmds', handled, snapshots', known', Says(temp[r], valve'[r])))
      BY <1>1, <1>2, <1>3, <2>1, <2>4, <3>1, Published
    <3>. QED BY <1>2, <3>2 DEF Stream
  <2>7. StreamsFit'
    BY <2>6 DEF StreamsFit
  <2>8. HotIsNotCold'
    <3>1. after = "hot" => ~Heating!Cold(temp[r0])
      BY <1>2, <2>2, HotOrCold DEF after, HeatingInv, HotIsNotCold
    <3>. QED BY <1>2, <2>3, <3>1 DEF HeatingInv, HotIsNotCold
  <2>9. SetupOnlyCloses'
    <3>1. ~up => snapshots' = <<>>
      BY <1>7, <2>1 DEF Heating!Publishes
    <3>2. ~up => \A r \in Heating!Real : season'[r] = "start"
      BY <1>7, <2>2, <2>3 DEF after
    <3>. QED BY <1>6, <1>7, <3>1, <3>2
  <2>10. ASSUME NEW r \in Heating!Real, Heating!Opens(r) PROVE season[r] \in {"start", "cold"}
    <3>1. ~valve[r] /\ valve'[r]
      BY <2>10 DEF Heating!Opens
    <3>2. CASE r # r0
      BY <2>3, <3>1, <3>2
    <3>3. CASE r = r0
      BY <2>3, <2>5, <3>1, <3>3
    <3>. QED BY <3>2, <3>3
  <2>. QED BY <1>1, <2>7, <2>8, <2>9, <2>10 DEF HeatingInv
<1>. QED BY <1>8, <1>9

(* A decision about a room is the one that its snapshot says, or none.      *)
LEMMA HeatingDecides == HeatingInv /\ Heating!Decides => HeatingInv'
<1>. SUFFICES ASSUME HeatingInv, Heating!Decides PROVE HeatingInv'
  OBVIOUS
<1>1. Heating!TypeOK /\ Heating!TypeOK'
  BY HeatingTyped DEF HeatingInv, Heating!Next
<1>. DEFINE r0 == Rooms[turn]
            s0 == handled[r0]
            e == IF Heating!MustOpen(s0) THEN Heating!Command(r0, TRUE) ELSE Heating!Command(r0, FALSE)
<1>2. /\ up /\ turn \in 1..Heating!Done /\ turn # Heating!Done
      /\ handled \in [Heating!Real -> Heating!RoomStates]
      /\ handled' = handled \/ handled' = <<>>
      /\ UNCHANGED <<temp, valve, age, known, lost, snapshots, up, season>>
  BY <1>1 DEF Heating!Decides, Heating!TypeOK, Heating!Unknown
<1>3. /\ cmds \in Seq(Heating!Commands) /\ Len(cmds) \in Nat /\ Len(snapshots) \in Nat
      /\ e \in Heating!Commands
  BY <1>1, <1>2, QueuesOf, TurnFacts DEF Heating!Commands, Heating!Command
<1>4. \/ cmds' = cmds
      \/ /\ cmds' = Append(cmds, e) /\ r0 \in Heating!Real
         /\ Heating!MustOpen(s0) \/ Heating!MustClose(s0)
  <2>1. CASE cmds' = cmds
    BY <2>1
  <2>2. CASE cmds' # cmds
    <3>1. /\ r0 \notin Missing
          /\ Heating!MustOpen(s0) \/ Heating!MustClose(s0)
          /\ cmds' = Heating!Offer(cmds, e)
      BY <2>2 DEF Heating!Decides
    <3>2. cmds' = Append(cmds, e)
      BY <1>3, <2>2, <3>1, Offered
    <3>. QED BY <1>2, <2>2, <3>1, <3>2, TurnFacts DEF Heating!Decides
  <2>. QED BY <2>1, <2>2
<1>5. ASSUME NEW r \in Heating!Real PROVE Fits(valve[r], season[r], Stream(r)')
  <2>1. Fits(valve[r], season[r], StreamOf(r, cmds, handled, snapshots, known, Says(temp[r], valve[r])))
    BY DEF HeatingInv, StreamsFit, Stream
  <2>2. SnapshotSays(r, handled') \in {"none", SnapshotSays(r, handled)}
    BY <1>2 DEF SnapshotSays
  <2>3. Fits(valve[r], season[r], StreamOf(r, cmds', handled', snapshots, known, Says(temp[r], valve[r])))
    <3>1. CASE cmds' = cmds
      BY <1>3, <2>1, <2>2, <3>1, RoomDecided
    <3>2. CASE cmds' # cmds
      <4>1. /\ cmds' = Append(cmds, e) /\ r0 \in Heating!Real
            /\ Heating!MustOpen(s0) \/ Heating!MustClose(s0)
        BY <1>4, <3>2
      <4>2. CommandSays(r, e) \in {"none", SnapshotSays(r, handled)}
        <5>1. CASE r # r0
          BY <5>1 DEF CommandSays, Heating!Command
        <5>2. CASE r = r0
          <6>1. SnapshotSays(r, handled) = Says(s0.temp, s0.valve)
            BY <1>2, <4>1, <5>2 DEF SnapshotSays
          <6>2. CommandSays(r, e) = IF Heating!MustOpen(s0) THEN "open" ELSE "close"
            BY <5>2 DEF CommandSays, Heating!Command
          <6>. QED BY <4>1, <6>1, <6>2 DEF Says, Heating!MustOpen, Heating!MustClose
        <5>. QED BY <5>1, <5>2
      <4>. HIDE DEF e
      <4>. QED BY <1>3, <2>1, <2>2, <4>1, <4>2, CommandDecided
    <3>. QED BY <3>1, <3>2
  <2>. QED BY <1>2, <2>3 DEF Stream
<1>6. StreamsFit'
  BY <1>2, <1>5 DEF StreamsFit
<1>. QED BY <1>1, <1>2, <1>6 DEF HeatingInv, SetupOnlyCloses, HotIsNotCold

LEMMA HeatingNext == HeatingInv /\ [Heating!Next]_Heating!vars => HeatingInv'
<1>. SUFFICES ASSUME HeatingInv, [Heating!Next]_Heating!vars PROVE HeatingInv'
  OBVIOUS
<1>1. Heating!TypeOK /\ Heating!TypeOK'
  BY HeatingTyped DEF HeatingInv
<1>2. \A r \in Heating!Real :
          Fits(valve[r], season[r], StreamOf(r, cmds, handled, snapshots, known, Says(temp[r], valve[r])))
  BY DEF HeatingInv, StreamsFit, Stream
<1>3. /\ cmds \in Seq(Heating!Commands) /\ Len(cmds) \in Nat /\ Len(snapshots) \in Nat
      /\ snapshots \in Seq([Heating!Real -> Heating!RoomStates])
  BY <1>1, QueuesOf
<1>4. CASE UNCHANGED Heating!vars
  BY <1>4 DEF Heating!vars, HeatingInv, Heating!TypeOK, SetupOnlyCloses, HotIsNotCold, StreamsFit, Stream
<1>5. CASE Heating!Republished
  <2>1. /\ known \in [Heating!Real -> Heating!RoomStates] /\ up
        /\ UNCHANGED <<temp, valve, age, known, lost, cmds, up, turn, handled, season>>
        /\ snapshots' = Heating!Offer(snapshots, known)
    BY <1>1, <1>5 DEF Heating!Republished, Heating!TypeOK
  <2>2. snapshots' \in {snapshots, Append(snapshots, known)}
    BY <1>3, <2>1, Offered
  <2>3. \A r \in Heating!Real :
            Fits(valve[r], season[r], StreamOf(r, cmds, handled, snapshots', known, Says(temp[r], valve[r])))
    <3>. TAKE r \in Heating!Real
    <3>. DEFINE a == Says(temp[r], valve[r])
                v == valve[r]
                w == season[r]
    <3>1. Fits(v, w, StreamOf(r, cmds, handled, snapshots, known, a))
      BY <1>2
    <3>. HIDE DEF a, v, w
    <3>2. Fits(v, w, StreamOf(r, cmds, handled, snapshots', known, a))
      BY <1>3, <2>1, <2>2, <3>1, StatusRepeated
    <3>. QED BY <3>2 DEF a, v, w
  <2>4. StreamsFit'
    BY <2>1, <2>3 DEF StreamsFit, Stream
  <2>. QED BY <1>1, <2>1, <2>4 DEF HeatingInv, SetupOnlyCloses, HotIsNotCold
<1>6. CASE Heating!Tick
  <2>1. UNCHANGED <<temp, valve, lost, snapshots, cmds, up, turn, handled, season>>
    BY <1>6 DEF Heating!Tick
  <2>2. ASSUME NEW r \in Heating!Real PROVE SnapshotSays(r, known') = SnapshotSays(r, known)
    <3>1. CASE known = Heating!Unknown
      BY <1>6, <3>1 DEF Heating!Tick
    <3>2. CASE known # Heating!Unknown
      <4>1. known \in [Heating!Real -> Heating!RoomStates]
        BY <1>1, <3>2 DEF Heating!TypeOK
      <4>2. known' = [x \in Heating!Real |-> [known[x] EXCEPT !.age = Heating!Older(@)]]
        BY <1>6, <3>2 DEF Heating!Tick
      <4>3. known[r] \in Heating!RoomStates
        BY <4>1
      <4>4. known'[r].temp = known[r].temp /\ known'[r].valve = known[r].valve
        BY <4>2, <4>3 DEF Heating!RoomStates
      <4>. QED BY <4>1, <4>2, <4>4 DEF SnapshotSays
    <3>. QED BY <3>1, <3>2
  <2>3. \A r \in Heating!Real : Stream(r)' = Stream(r)
    BY <2>1, <2>2 DEF Stream, StreamOf
  <2>4. StreamsFit'
    BY <2>1, <2>3 DEF HeatingInv, StreamsFit
  <2>. QED BY <1>1, <2>1, <2>4 DEF HeatingInv, SetupOnlyCloses, HotIsNotCold
<1>7. CASE Heating!Subscribes
  <2>1. UNCHANGED <<temp, valve, known, snapshots, cmds, handled, season>> /\ up'
    BY <1>7 DEF Heating!Subscribes
  <2>2. StreamsFit'
    BY <1>2, <2>1 DEF StreamsFit, Stream
  <2>. QED BY <1>1, <2>1, <2>2 DEF HeatingInv, SetupOnlyCloses, HotIsNotCold
<1>8. CASE Heating!HandleMessage
  <2>1. /\ up /\ snapshots # <<>> /\ handled' = Head(snapshots) /\ snapshots' = Tail(snapshots)
        /\ UNCHANGED <<temp, valve, age, known, lost, cmds, up, season>>
    BY <1>8 DEF Heating!HandleMessage
  <2>2. \A r \in Heating!Real :
            Fits(valve[r], season[r], StreamOf(r, cmds, handled', snapshots', known, Says(temp[r], valve[r])))
    <3>. TAKE r \in Heating!Real
    <3>. DEFINE a == Says(temp[r], valve[r])
                v == valve[r]
                w == season[r]
    <3>1. Fits(v, w, StreamOf(r, cmds, handled, snapshots, known, a))
      BY <1>2
    <3>. HIDE DEF a, v, w
    <3>2. Fits(v, w, StreamOf(r, cmds, handled', snapshots', known, a))
      BY <1>3, <2>1, <3>1, SnapshotTaken
    <3>. QED BY <3>2 DEF a, v, w
  <2>3. StreamsFit'
    BY <2>1, <2>2 DEF StreamsFit, Stream
  <2>. QED BY <1>1, <2>1, <2>3 DEF HeatingInv, SetupOnlyCloses, HotIsNotCold
<1>. QED BY <1>4, <1>5, <1>6, <1>7, <1>8, HeatingSetup, HeatingDecides, HeatingExecutes, HeatingTemperature
         DEF Heating!Next

(* The valve of a room that was opened is not opened again before the room  *)
(* was hot and then cold (heating.go:127-133), for any rooms, temperatures  *)
(* and capacity of the channels, however late the snapshots and commands,   *)
(* which are lost or repeated: commands reach the io handler in the order   *)
(* in which its states asked for them.                                      *)
THEOREM ValvesDoNotChatter == Heating!Spec => NoChatter
<1>1. HeatingInv /\ [Heating!Next]_Heating!vars
          => [\A r \in Heating!Real : Heating!Opens(r) => season[r] \in {"start", "cold"}]_Heating!vars
  <2>. SUFFICES ASSUME HeatingInv, Heating!Next, NEW r \in Heating!Real, Heating!Opens(r)
                PROVE  season[r] \in {"start", "cold"}
    OBVIOUS
  <2>1. CASE Heating!Executes
    BY <2>1, HeatingExecutes
  <2>2. CASE ~Heating!Executes
    BY <2>2 DEF Heating!Next, Heating!Opens, Heating!Republished, Heating!Tick, Heating!Setup,
                Heating!Subscribes, Heating!HandleMessage, Heating!Decides, Heating!TemperatureChanges
  <2>. QED BY <2>1, <2>2
<1>. QED BY <1>1, HeatingStarts, HeatingNext, PTL DEF Heating!Spec, NoChatter, Heating!NoChatter

(* Types and bounds of Heating, and what is on its way to each valve: the   *)
(* inductive invariant.                                                     *)
THEOREM HeatingInvariance == Heating!Spec => []HeatingInv
  BY HeatingStarts, HeatingNext, PTL DEF Heating!Spec

-------------------------------------------------------------------------------
(* Schedule: types.                                                         *)

LEMMA Division ==
    ASSUME NEW n \in Nat, NEW d \in Nat \ {0}
    PROVE  /\ n \div d \in Nat
           /\ (n \div d) * d <= n /\ n < (n \div d) * d + d
  OBVIOUS

LEMMA ScheduleConstants ==
    /\ Day \in Nat \ {0} /\ Days \in Nat /\ Late \in Nat /\ MaxEdits \in Nat
    /\ BufferSize \in Nat \ {0}
    /\ \A m \in RuleTimes : m \in Nat /\ 60 * m + 59 < Day
  BY ClimateAssumption

LEMMA ParseFacts ==
    ASSUME NEW m \in RuleTimes, now \in Nat
    PROVE  /\ Schedule!ParseTimeIndication(m) \in Nat
           /\ Schedule!ParseTimeIndication(m) >= now
           /\ Schedule!ParseTimeIndication(m) >= 59
  <1>. DEFINE d == (now \div Day) * Day
  <1>1. d \in Nat /\ d <= now /\ now < d + Day
    BY ScheduleConstants, Division
  <1>2. m \in Nat /\ Day \in Nat
    BY ScheduleConstants
  <1>. HIDE DEF d
  <1>. QED BY <1>1, <1>2 DEF Schedule!ParseTimeIndication, d

(* What the channel of the actor holds.                                     *)
LEMMA Messages ==
    ASSUME Schedule!TypeOK, NEW i \in 1..Len(queue)
    PROVE  /\ "time" \in DOMAIN queue[i] => queue[i].time \in 0..now
           /\ "request" \in DOMAIN queue[i] => queue[i].request \in Schedule!Requests
           /\ "time" \in DOMAIN queue[i] <=> ~("request" \in DOMAIN queue[i])
<1>1. queue[i] \in [time : 0..now] \cup [request : Schedule!Requests]
  BY DEF Schedule!TypeOK
<1>2. CASE queue[i] \in [time : 0..now]
  BY <1>2
<1>3. CASE queue[i] \in [request : Schedule!Requests]
  BY <1>3
<1>. QED BY <1>1, <1>2, <1>3

LEMMA QueueOffered ==
    ASSUME NEW S, NEW q \in Seq(S), Len(q) <= BufferSize, NEW m \in S
    PROVE  /\ Schedule!Offer(q, m) \in Seq(S) /\ Len(Schedule!Offer(q, m)) <= BufferSize
           /\ Len(q) = BufferSize => Schedule!Offer(q, m) = q
           /\ Len(q) # BufferSize => Schedule!Offer(q, m) = Append(q, m)
  BY ScheduleConstants DEF Schedule!Offer

UniqueIds(s) == \A i, j \in 1..Len(s) : s[i].id = s[j].id => i = j

LEMMA StoredTyped ==
    ASSUME NEW r \in Schedule!Rules, rules \in Seq(Schedule!Rules), UniqueIds(rules)
    PROVE  Schedule!Stored(r) \in Seq(Schedule!Rules) /\ UniqueIds(Schedule!Stored(r))
<1>1. CASE Schedule!Has(r.id)
  <2>. DEFINE s == [i \in 1..Len(rules) |-> IF rules[i].id = r.id THEN r ELSE rules[i]]
  <2>1. Schedule!Stored(r) = s
    BY <1>1 DEF Schedule!Stored
  <2>2. s \in Seq(Schedule!Rules) /\ Len(s) = Len(rules)
    OBVIOUS
  <2>3. \A i \in 1..Len(rules) : s[i].id = rules[i].id
    OBVIOUS
  <2>. HIDE DEF s
  <2>. QED BY <2>1, <2>2, <2>3 DEF UniqueIds
<1>2. CASE ~Schedule!Has(r.id)
  <2>1. Schedule!Stored(r) = Append(rules, r)
    BY <1>2 DEF Schedule!Stored
  <2>2. \A i \in 1..Len(rules) : rules[i].id # r.id
    BY <1>2 DEF Schedule!Has
  <2>3. /\ Append(rules, r) \in Seq(Schedule!Rules) /\ Len(Append(rules, r)) = Len(rules) + 1
        /\ \A i \in 1..Len(rules) : Append(rules, r)[i] = rules[i]
        /\ Append(rules, r)[Len(rules) + 1] = r
    OBVIOUS
  <2>4. ASSUME NEW i \in 1..Len(rules) + 1 PROVE i \in 1..Len(rules) \/ i = Len(rules) + 1
    BY Len(rules) \in Nat
  <2>. QED BY <2>1, <2>2, <2>3, <2>4 DEF UniqueIds
<1>. QED BY <1>1, <1>2

LEMMA RemovedTyped ==
    ASSUME NEW r \in Schedule!Rules, rules \in Seq(Schedule!Rules), UniqueIds(rules)
    PROVE  Schedule!Removed(r) \in Seq(Schedule!Rules) /\ UniqueIds(Schedule!Removed(r))
<1>1. CASE ~Schedule!Has(r.id)
  BY <1>1 DEF Schedule!Removed
<1>2. CASE Schedule!Has(r.id)
  <2>. DEFINE n == CHOOSE i \in 1..Len(rules) : rules[i].id = r.id
              s == SubSeq(rules, 1, n - 1)
              t == SubSeq(rules, n + 1, Len(rules))
  <2>1. n \in 1..Len(rules) /\ Len(rules) \in Nat
    BY <1>2 DEF Schedule!Has
  <2>2. Schedule!Removed(r) = s \o t
    BY <1>2 DEF Schedule!Removed
  <2>. HIDE DEF n
  <2>3. s \in Seq(Schedule!Rules) /\ Len(s) = n - 1 /\ \A i \in 1..Len(s) : s[i] = rules[i]
    BY <2>1
  <2>4. t \in Seq(Schedule!Rules) /\ Len(t) = Len(rules) - n /\ \A i \in 1..Len(t) : t[i] = rules[n + i]
    BY <2>1
  <2>. HIDE DEF s, t
  <2>5. s \o t \in Seq(Schedule!Rules) /\ Len(s \o t) = Len(rules) - 1
    <3>1. s \o t \in Seq(Schedule!Rules)
      BY <2>3, <2>4
    <3>2. Len(s \o t) = Len(s) + Len(t)
      BY <2>3, <2>4, ConcatProperties
    <3>. QED BY <2>1, <2>3, <2>4, <3>1, <3>2
  <2>6. ASSUME NEW i \in 1..Len(rules) - 1 PROVE (s \o t)[i] = rules[IF i < n THEN i ELSE i + 1]
    <3>1. CASE i < n
      <4>1. i \in 1..Len(s)
        BY <2>1, <2>3, <3>1
      <4>2. (s \o t)[i] = s[i]
        BY <2>1, <2>3, <2>4, <4>1
      <4>. QED BY <2>3, <3>1, <4>1, <4>2
    <3>2. CASE ~(i < n)
      <4>1. i > Len(s) /\ i - Len(s) \in 1..Len(t) /\ i - Len(s) = i + 1 - n
        BY <2>1, <2>3, <2>4, <3>2
      <4>2. (s \o t)[i] = t[i - Len(s)]
        BY <2>1, <2>3, <2>4, <4>1
      <4>3. n + (i - Len(s)) = i + 1
        BY <2>1, <4>1
      <4>. QED BY <2>4, <3>2, <4>1, <4>2, <4>3
    <3>. QED BY <3>1, <3>2
  <2>7. ASSUME NEW i \in 1..Len(rules) - 1, NEW j \in 1..Len(rules) - 1, (s \o t)[i].id = (s \o t)[j].id
        PROVE  i = j
    <3>. DEFINE x(k) == IF k < n THEN k ELSE k + 1
    <3>1. x(i) \in 1..Len(rules) /\ x(j) \in 1..Len(rules) /\ (x(i) = x(j) => i = j)
      BY <2>1
    <3>2. rules[x(i)].id = rules[x(j)].id
      BY <2>6, <2>7
    <3>. QED BY <3>1, <3>2 DEF UniqueIds
  <2>. QED BY <2>2, <2>5, <2>7 DEF UniqueIds
<1>. QED BY <1>1, <1>2

(* What is executed for a time, and the rules that it is near to.           *)
LEMMA MatchFacts ==
    ASSUME Schedule!TypeOK, NEW t \in Nat, t <= now, NEW r \in Schedule!Rules
    PROVE  /\ Schedule!ParseTimeIndication(r.at) \in Nat
           /\ Schedule!ParseTimeIndication(r.at) >= now
           /\ Schedule!Matches(t, r) <=> t > Schedule!ParseTimeIndication(r.at) - Schedule!Period
<1>1. now \in Nat /\ r.at \in RuleTimes
  BY ScheduleConstants DEF Schedule!TypeOK, Schedule!Rules, Schedule!Rule
<1>2. /\ Schedule!ParseTimeIndication(r.at) \in Nat
      /\ Schedule!ParseTimeIndication(r.at) >= now
  BY <1>1, ParseFacts
<1>. QED BY <1>1, <1>2 DEF Schedule!Matches, Schedule!Compare, Schedule!Period

LEMMA DueFacts ==
    ASSUME Schedule!TypeOK, NEW t \in Nat, t <= now
    PROVE  /\ Schedule!Due(t) \subseteq Schedule!Runs
           /\ \A e \in Schedule!Due(t) :
                  e.at = t /\ t # previous /\ e.for - Schedule!Period < t /\ t <= e.for
<1>. SUFFICES ASSUME NEW e \in Schedule!Due(t)
              PROVE  /\ e \in Schedule!Runs
                     /\ e.at = t /\ t # previous /\ e.for - Schedule!Period < t /\ t <= e.for
  OBVIOUS
<1>1. PICK i \in 1..Len(rules) :
          /\ Schedule!Matches(t, rules[i]) /\ t # previous
          /\ e = [rule |-> rules[i], for |-> Schedule!ParseTimeIndication(rules[i].at), at |-> t]
  BY DEF Schedule!Due, Schedule!Changed
<1>2. rules[i] \in Schedule!Rules /\ now \in Nat
  BY ScheduleConstants DEF Schedule!TypeOK
<1>3. /\ Schedule!ParseTimeIndication(rules[i].at) \in Nat
      /\ Schedule!ParseTimeIndication(rules[i].at) >= now
      /\ t > Schedule!ParseTimeIndication(rules[i].at) - Schedule!Period
  BY <1>1, <1>2, MatchFacts
<1>. QED BY <1>1, <1>2, <1>3 DEF Schedule!Runs, Schedule!Period

(* Each action, for the channel.                                            *)
Message == [time : 0..now] \cup [request : Schedule!Requests]

LEMMA ScheduleTyped == Schedule!TypeOK /\ [Schedule!Next]_Schedule!vars => Schedule!TypeOK'
<1>. SUFFICES ASSUME Schedule!TypeOK, [Schedule!Next]_Schedule!vars PROVE Schedule!TypeOK'
  OBVIOUS
<1>0. /\ now \in 0..Day * Days /\ now \in Nat /\ next \in Nat /\ time \in 0..now /\ previous \in 0..now
      /\ queue \in Seq(Message) /\ Len(queue) <= BufferSize
      /\ rules \in Seq(Schedule!Rules) /\ UniqueIds(rules)
      /\ edits \in 0..MaxEdits /\ executed \subseteq Schedule!Runs /\ excused \in BOOLEAN
  BY ScheduleConstants DEF Schedule!TypeOK, UniqueIds, Message
<1>1. CASE UNCHANGED Schedule!vars
  BY <1>1 DEF Schedule!TypeOK, Schedule!vars
<1>2. CASE Schedule!Passes
  <2>1. now < Day * Days /\ now' = now + 1
        /\ UNCHANGED <<next, time, queue, previous, rules, edits, executed, excused>>
    BY <1>2 DEF Schedule!Passes
  <2>2. Day * Days \in Nat
    BY ScheduleConstants
  <2>3. now' \in 0..Day * Days /\ 0..now \subseteq 0..now'
    BY <1>0, <2>1, <2>2
  <2>4. queue \in Seq(Message')
    <3>1. Message \subseteq Message'
      BY <2>3 DEF Message
    <3>. QED BY <1>0, <3>1
  <2>5. UniqueIds(rules)'
    BY <1>0, <2>1 DEF UniqueIds
  <2>. QED BY <1>0, <2>1, <2>3, <2>4, <2>5 DEF Schedule!TypeOK, UniqueIds, Message
<1>3. CASE Schedule!HandleTimerEvent
  <2>1. /\ next' = next + Schedule!Period /\ time' = now
        /\ queue' = Schedule!Offer(queue, [time |-> now]) /\ excused' \in BOOLEAN
        /\ UNCHANGED <<now, previous, rules, edits, executed>>
    BY <1>3 DEF Schedule!HandleTimerEvent
  <2>2. [time |-> now] \in Message
    BY <1>0 DEF Message
  <2>3. queue' \in Seq(Message) /\ Len(queue') <= BufferSize
    BY <1>0, <2>1, <2>2, QueueOffered
  <2>4. queue' \in Seq(Message') /\ UniqueIds(rules') /\ next' \in Nat /\ time' \in 0..now
    BY <1>0, <2>1, <2>3 DEF Message, Schedule!Period
  <2>. QED BY <1>0, <2>1, <2>3, <2>4 DEF Schedule!TypeOK, UniqueIds, Message
<1>4. CASE Schedule!Republished
  <2>1. /\ queue' = Schedule!Offer(queue, [time |-> time])
        /\ UNCHANGED <<now, next, time, previous, rules, edits, executed, excused>>
    BY <1>4 DEF Schedule!Republished
  <2>2. [time |-> time] \in Message
    BY <1>0 DEF Message
  <2>3. queue' \in Seq(Message) /\ Len(queue') <= BufferSize
    BY <1>0, <2>1, <2>2, QueueOffered
  <2>4. queue' \in Seq(Message') /\ UniqueIds(rules')
    BY <1>0, <2>1, <2>3 DEF Message
  <2>. QED BY <1>0, <2>1, <2>3, <2>4 DEF Schedule!TypeOK, UniqueIds, Message
<1>5. ASSUME NEW q \in Schedule!Requests, Schedule!Request(q) PROVE Schedule!TypeOK'
  <2>1. /\ edits < MaxEdits /\ edits' = edits + 1
        /\ queue' = Schedule!Offer(queue, [request |-> q])
        /\ UNCHANGED <<now, next, time, previous, rules, executed, excused>>
    BY <1>5 DEF Schedule!Request
  <2>2. [request |-> q] \in Message
    BY DEF Message
  <2>3. queue' \in Seq(Message) /\ Len(queue') <= BufferSize
    BY <1>0, <2>1, <2>2, QueueOffered
  <2>4. queue' \in Seq(Message') /\ UniqueIds(rules')
    BY <1>0, <2>1, <2>3 DEF Message
  <2>5. edits' \in 0..MaxEdits
    BY <1>0, <2>1, ScheduleConstants
  <2>. QED BY <1>0, <2>1, <2>3, <2>4, <2>5 DEF Schedule!TypeOK, UniqueIds, Message
<1>6. CASE Schedule!HandleStatus
  <2>. DEFINE t == Head(queue).time
  <2>1. /\ queue # <<>> /\ "time" \in DOMAIN queue[1] /\ t = queue[1].time
        /\ executed' = {e \in executed : e.for >= now} \cup Schedule!Due(t)
        /\ previous' = t /\ queue' = Tail(queue)
        /\ UNCHANGED <<now, next, time, rules, edits, excused>>
    BY <1>6 DEF Schedule!HandleStatus
  <2>2. 1 \in 1..Len(queue)
    BY <1>0, <2>1
  <2>3. t \in 0..now
    BY <2>1, <2>2, Messages
  <2>. HIDE DEF t
  <2>4. Schedule!Due(t) \subseteq Schedule!Runs
    BY <1>0, <2>3, DueFacts
  <2>5. queue' \in Seq(Message) /\ Len(queue') <= BufferSize
    BY <1>0, <2>1, <2>2, ScheduleConstants
  <2>6. queue' \in Seq(Message') /\ UniqueIds(rules') /\ executed' \subseteq Schedule!Runs
    BY <1>0, <2>1, <2>4, <2>5 DEF Message
  <2>. QED BY <1>0, <2>1, <2>3, <2>5, <2>6 DEF Schedule!TypeOK, UniqueIds, Message
<1>7. CASE Schedule!HandleRequest
  <2>. DEFINE q == Head(queue).request
  <2>1. /\ queue # <<>> /\ "request" \in DOMAIN queue[1] /\ q = queue[1].request
        /\ rules' = (IF q.action = "SET" THEN Schedule!Stored(q.rule) ELSE Schedule!Removed(q.rule))
        /\ queue' = Tail(queue) /\ excused' = TRUE
        /\ UNCHANGED <<now, next, time, previous, edits, executed>>
    BY <1>7 DEF Schedule!HandleRequest
  <2>2. 1 \in 1..Len(queue)
    BY <1>0, <2>1
  <2>3. q.rule \in Schedule!Rules
    BY <2>1, <2>2, Messages DEF Schedule!Requests
  <2>. HIDE DEF q
  <2>4. rules' \in Seq(Schedule!Rules) /\ UniqueIds(rules')
    BY <1>0, <2>1, <2>3, StoredTyped, RemovedTyped
  <2>5. queue' \in Seq(Message) /\ Len(queue') <= BufferSize
    BY <1>0, <2>1, <2>2, ScheduleConstants
  <2>6. queue' \in Seq(Message')
    BY <2>1, <2>5 DEF Message
  <2>. QED BY <1>0, <2>1, <2>4, <2>5, <2>6 DEF Schedule!TypeOK, UniqueIds, Message
<1>. QED BY <1>1, <1>2, <1>3, <1>4, <1>5, <1>6, <1>7 DEF Schedule!Next

(* How the channel changes: a message is appended, ...                      *)
LEMMA QueueGrows ==
    ASSUME NEW S, NEW q \in Seq(S), Len(q) <= BufferSize, NEW m \in S,
           NEW i \in 1..Len(Schedule!Offer(q, m))
    PROVE  \/ i \in 1..Len(q) /\ Schedule!Offer(q, m)[i] = q[i]
           \/ i = Len(q) + 1 /\ Schedule!Offer(q, m)[i] = m
<1>1. Len(q) \in Nat
  OBVIOUS
<1>2. CASE Len(q) = BufferSize
  BY <1>2, QueueOffered
<1>3. CASE Len(q) # BufferSize
  <2>1. Schedule!Offer(q, m) = Append(q, m)
    BY <1>3, QueueOffered
  <2>. QED BY <1>1, <2>1
<1>. QED BY <1>2, <1>3

LEMMA QueueKept ==
    ASSUME NEW S, NEW q \in Seq(S), Len(q) <= BufferSize, NEW m \in S
    PROVE  /\ \A i \in 1..Len(q) : i \in 1..Len(Schedule!Offer(q, m)) /\ Schedule!Offer(q, m)[i] = q[i]
           /\ Len(q) # BufferSize
                => /\ Len(q) + 1 \in 1..Len(Schedule!Offer(q, m))
                   /\ Schedule!Offer(q, m)[Len(q) + 1] = m
<1>1. Len(q) \in Nat
  OBVIOUS
<1>2. CASE Len(q) = BufferSize
  BY <1>2, QueueOffered
<1>3. CASE Len(q) # BufferSize
  <2>1. Schedule!Offer(q, m) = Append(q, m)
    BY <1>3, QueueOffered
  <2>. QED BY <1>1, <1>3, <2>1
<1>. QED BY <1>2, <1>3

(* ... or the first is taken.                                               *)
LEMMA QueueTaken ==
    ASSUME NEW S, NEW q \in Seq(S), q # <<>>
    PROVE  /\ 1 \in 1..Len(q) /\ Head(q) = q[1]
           /\ \A i \in 1..Len(Tail(q)) : i + 1 \in 1..Len(q) /\ Tail(q)[i] = q[i + 1]
           /\ \A i \in 1..Len(q) : i # 1 => i - 1 \in 1..Len(Tail(q)) /\ Tail(q)[i - 1] = q[i]
  OBVIOUS

LEMMA QueueTyped ==
    ASSUME Schedule!TypeOK
    PROVE  /\ queue \in Seq(Message) /\ Len(queue) <= BufferSize /\ Len(queue) \in Nat
           /\ now \in Nat /\ next \in Nat /\ time \in 0..now /\ previous \in 0..now
           /\ \A i \in 1..Len(queue) : TimeAt(queue, i) => queue[i].time \in 0..now
<1>1. /\ queue \in Seq(Message) /\ Len(queue) <= BufferSize
      /\ now \in Nat /\ next \in Nat /\ time \in 0..now /\ previous \in 0..now
  BY ScheduleConstants DEF Schedule!TypeOK, Message
<1>2. \A i \in 1..Len(queue) : TimeAt(queue, i) => queue[i].time \in 0..now
  BY Messages DEF TimeAt
<1>. QED BY <1>1, <1>2

(* A status with the time of the last tick is offered: the order is kept.   *)
LEMMA OrderKept ==
    ASSUME Schedule!TypeOK, InOrder, NEW m \in Message, queue' = Schedule!Offer(queue, m),
           "time" \in DOMAIN m => m.time = time', time' \in Nat, time <= time', previous' = previous
    PROVE  InOrder'
<1>. DEFINE n == Len(queue)
<1>0. /\ queue \in Seq(Message) /\ n <= BufferSize /\ n \in Nat
      /\ previous \in Nat /\ time \in Nat
      /\ \A i \in 1..n : TimeAt(queue, i) => queue[i].time \in Nat
  BY QueueTyped
<1>1. \A i \in 1..Len(queue') : \/ i \in 1..n /\ queue'[i] = queue[i]
                                \/ i = n + 1 /\ queue'[i] = m
  BY <1>0, QueueGrows
<1>2. previous' <= time'
  BY <1>0 DEF InOrder
<1>3. ASSUME NEW i \in 1..Len(queue'), TimeAt(queue', i)
      PROVE  previous' <= queue'[i].time /\ queue'[i].time <= time'
  <2>1. CASE i \in 1..n /\ queue'[i] = queue[i]
    BY <1>0, <1>3, <2>1 DEF InOrder, TimeAt
  <2>2. CASE i = n + 1 /\ queue'[i] = m
    BY <1>0, <1>2, <1>3, <2>2 DEF TimeAt
  <2>. QED BY <1>1, <2>1, <2>2
<1>4. ASSUME NEW i \in 1..Len(queue'), NEW j \in 1..Len(queue'), i < j,
             TimeAt(queue', i), TimeAt(queue', j)
      PROVE  queue'[i].time <= queue'[j].time
  <2>1. CASE j = n + 1 /\ queue'[j] = m
    BY <1>3, <1>4, <2>1 DEF TimeAt
  <2>2. CASE j \in 1..n /\ queue'[j] = queue[j]
    <3>1. i \in 1..n /\ queue'[i] = queue[i]
      BY <1>0, <1>1, <1>4, <2>2
    <3>. QED BY <1>4, <2>2, <3>1 DEF InOrder, TimeAt
  <2>. QED BY <1>1, <2>1, <2>2
<1>. QED BY <1>2, <1>3, <1>4 DEF InOrder

(* The first message leaves: the order is kept, if the actor knows its time.*)
LEMMA OrderTaken ==
    ASSUME Schedule!TypeOK, InOrder, queue # <<>>, queue' = Tail(queue), time' = time,
           IF TimeAt(queue, 1) THEN previous' = queue[1].time ELSE previous' = previous
    PROVE  InOrder'
<1>0. /\ queue \in Seq(Message) /\ Len(queue) \in Nat
      /\ previous \in Nat /\ time \in Nat
      /\ \A i \in 1..Len(queue) : TimeAt(queue, i) => queue[i].time \in Nat
  BY QueueTyped
<1>1. /\ 1 \in 1..Len(queue)
      /\ \A i \in 1..Len(queue') : i + 1 \in 1..Len(queue) /\ queue'[i] = queue[i + 1]
  BY <1>0, QueueTaken
<1>2. previous' <= time'
  BY <1>0, <1>1 DEF InOrder
<1>3. \A i \in 1..Len(queue') : TimeAt(queue', i) => TimeAt(queue, i + 1)
  BY <1>1 DEF TimeAt
<1>4. ASSUME NEW i \in 1..Len(queue'), TimeAt(queue', i)
      PROVE  previous' <= queue'[i].time /\ queue'[i].time <= time'
  <2>1. i + 1 \in 1..Len(queue) /\ queue'[i] = queue[i + 1] /\ TimeAt(queue, i + 1) /\ 1 < i + 1
    BY <1>1, <1>3, <1>4
  <2>2. TimeAt(queue, 1) => queue[1].time <= queue[i + 1].time
    BY <1>1, <2>1 DEF InOrder
  <2>. QED BY <2>1, <2>2 DEF InOrder
<1>5. ASSUME NEW i \in 1..Len(queue'), NEW j \in 1..Len(queue'), i < j,
             TimeAt(queue', i), TimeAt(queue', j)
      PROVE  queue'[i].time <= queue'[j].time
  <2>1. /\ i + 1 \in 1..Len(queue) /\ queue'[i] = queue[i + 1] /\ TimeAt(queue, i + 1)
        /\ j + 1 \in 1..Len(queue) /\ queue'[j] = queue[j + 1] /\ TimeAt(queue, j + 1)
    BY <1>1, <1>3, <1>5
  <2>2. i + 1 < j + 1
    BY <1>5
  <2>. QED BY <2>1, <2>2 DEF InOrder
<1>. QED BY <1>2, <1>4, <1>5 DEF InOrder

-------------------------------------------------------------------------------
(* Schedule: a rule is executed once for a time.                            *)

LEMMA ScheduleStarts == Schedule!Init => ScheduleInv
<1>. SUFFICES ASSUME Schedule!Init PROVE ScheduleInv
  OBVIOUS
<1>1. /\ next \in 1..Schedule!Period /\ now = 0 /\ time = 0 /\ queue = <<>> /\ previous = 0
      /\ edits = 0 /\ executed = {} /\ excused = FALSE
  BY DEF Schedule!Init
<1>2. PICK r \in Schedule!Rules : rules = <<r>>
  BY DEF Schedule!Init
<1>3. rules \in Seq(Schedule!Rules) /\ Len(rules) = 1
  BY <1>2
<1>4. UniqueIds(rules)
  BY <1>3 DEF UniqueIds
<1>5. now \in 0..Day * Days
  BY <1>1, ScheduleConstants
<1>6. /\ queue \in Seq([time : 0..now] \cup [request : Schedule!Requests]) /\ Len(queue) <= BufferSize
      /\ next \in Nat /\ time \in 0..now /\ previous \in 0..now /\ edits \in 0..MaxEdits
  BY <1>1, ScheduleConstants DEF Schedule!Period
<1>7. Schedule!TypeOK
  BY <1>1, <1>3, <1>4, <1>5, <1>6 DEF Schedule!TypeOK, UniqueIds
<1>. QED BY <1>1, <1>7, ScheduleConstants DEF ScheduleInv, InOrder, InTime, NearItsTime, Schedule!Period

LEMMA ScheduleNext == ScheduleInv /\ [Schedule!Next]_Schedule!vars => ScheduleInv'
<1>. SUFFICES ASSUME ScheduleInv, [Schedule!Next]_Schedule!vars PROVE ScheduleInv'
  OBVIOUS
<1>0. Schedule!TypeOK /\ InOrder /\ InTime /\ NearItsTime /\ Schedule!TypeOK'
  BY ScheduleTyped DEF ScheduleInv
<1>t. /\ queue \in Seq(Message) /\ Len(queue) \in Nat
      /\ now \in Nat /\ next \in Nat /\ time \in 0..now /\ previous \in 0..now /\ Late \in Nat
      /\ \A i \in 1..Len(queue) : TimeAt(queue, i) => queue[i].time \in 0..now
  BY <1>0, QueueTyped, ScheduleConstants
<1>e. \A e \in executed : e.at \in Nat /\ e.for \in Nat
  BY <1>0 DEF Schedule!TypeOK, Schedule!Runs
<1>1. CASE UNCHANGED Schedule!vars
  BY <1>0, <1>1 DEF ScheduleInv, InOrder, InTime, NearItsTime, TimeAt, Schedule!vars
<1>2. CASE Schedule!Passes
  <2>1. /\ now < next + Late /\ now' = now + 1
        /\ UNCHANGED <<next, time, queue, previous, rules, edits, executed, excused>>
    BY <1>2 DEF Schedule!Passes
  <2>2. InTime'
    BY <1>0, <1>t, <2>1 DEF InTime
  <2>3. InOrder' /\ NearItsTime'
    BY <1>0, <2>1 DEF InOrder, NearItsTime, TimeAt
  <2>. QED BY <1>0, <2>2, <2>3 DEF ScheduleInv
<1>3. CASE Schedule!HandleTimerEvent
  <2>1. /\ now >= next /\ next' = next + Schedule!Period /\ time' = now
        /\ queue' = Schedule!Offer(queue, [time |-> now])
        /\ UNCHANGED <<now, previous, rules, edits, executed>>
    BY <1>3 DEF Schedule!HandleTimerEvent
  <2>2. InTime'
    BY <1>0, <1>t, <2>1 DEF InTime, Schedule!Period
  <2>3. InOrder'
    <3>1. [time |-> now] \in Message /\ time <= now
      BY <1>t DEF Message
    <3>2. time' \in Nat /\ time <= time'
      BY <1>t, <2>1
    <3>. QED BY <1>0, <2>1, <3>1, <3>2, OrderKept
  <2>4. NearItsTime'
    BY <1>0, <2>1 DEF NearItsTime
  <2>. QED BY <1>0, <2>2, <2>3, <2>4 DEF ScheduleInv
<1>4. CASE Schedule!Republished
  <2>1. /\ queue' = Schedule!Offer(queue, [time |-> time])
        /\ UNCHANGED <<now, next, time, previous, rules, edits, executed, excused>>
    BY <1>4 DEF Schedule!Republished
  <2>2. [time |-> time] \in Message /\ time' \in Nat /\ time <= time'
    BY <1>t, <2>1 DEF Message
  <2>3. InOrder'
    BY <1>0, <2>1, <2>2, OrderKept
  <2>. QED BY <1>0, <2>1, <2>3 DEF ScheduleInv, InTime, NearItsTime
<1>5. ASSUME NEW q \in Schedule!Requests, Schedule!Request(q) PROVE ScheduleInv'
  <2>1. /\ queue' = Schedule!Offer(queue, [request |-> q])
        /\ UNCHANGED <<now, next, time, previous, rules, executed, excused>>
    BY <1>5 DEF Schedule!Request
  <2>2. [request |-> q] \in Message /\ ~("time" \in DOMAIN [request |-> q])
    BY DEF Message
  <2>3. time' \in Nat /\ time <= time'
    BY <1>t, <2>1
  <2>4. InOrder'
    BY <1>0, <2>1, <2>2, <2>3, OrderKept
  <2>. QED BY <1>0, <2>1, <2>4 DEF ScheduleInv, InTime, NearItsTime
<1>6. CASE Schedule!HandleStatus
  <2>. DEFINE t == Head(queue).time
  <2>1. /\ queue # <<>> /\ TimeAt(queue, 1) /\ t = queue[1].time
        /\ executed' = {e \in executed : e.for >= now} \cup Schedule!Due(t)
        /\ previous' = t /\ queue' = Tail(queue)
        /\ UNCHANGED <<now, next, time, rules, edits, excused>>
    BY <1>6 DEF Schedule!HandleStatus, TimeAt
  <2>2. 1 \in 1..Len(queue)
    BY <1>t, <2>1
  <2>3. InOrder'
    BY <1>0, <2>1, OrderTaken
  <2>4. t \in 0..now /\ previous <= t
    BY <1>0, <1>t, <2>1, <2>2 DEF InOrder
  <2>. HIDE DEF t
  <2>5. \A e \in Schedule!Due(t) : e.at = t /\ e.for - Schedule!Period < t
    BY <1>0, <1>t, <2>4, DueFacts
  <2>6. \A e \in executed : e.at <= t /\ e.for - Schedule!Period < e.at
    BY <1>0, <1>t, <1>e, <2>4 DEF NearItsTime
  <2>7. NearItsTime'
    BY <2>1, <2>4, <2>5, <2>6 DEF NearItsTime
  <2>. QED BY <1>0, <2>1, <2>3, <2>7 DEF ScheduleInv, InTime
<1>7. CASE Schedule!HandleRequest
  <2>1. /\ queue # <<>> /\ "request" \in DOMAIN queue[1] /\ queue' = Tail(queue)
        /\ UNCHANGED <<now, next, time, previous, edits, executed>>
    BY <1>7 DEF Schedule!HandleRequest
  <2>2. ~TimeAt(queue, 1)
    BY <1>0, <1>t, <2>1, Messages DEF TimeAt
  <2>3. InOrder'
    BY <1>0, <2>1, <2>2, OrderTaken
  <2>. QED BY <1>0, <2>1, <2>3 DEF ScheduleInv, InTime, NearItsTime
<1>. QED BY <1>1, <1>2, <1>3, <1>4, <1>5, <1>6, <1>7 DEF Schedule!Next

(* However many statuses carry a time, a rule is executed once for it, but  *)
(* for ticks less than ten seconds apart (datetime.go:66, types.go:28), for *)
(* any rules, length of the day, delays and requests.                       *)
THEOREM RulesFireOnce == Schedule!Spec => FiresOnce
<1>. DEFINE Once == Schedule!HandleStatus =>
                \A e \in Schedule!Due(Head(queue).time), f \in executed :
                    e.rule = f.rule /\ e.for = f.for => f.at < e.at /\ e.at < f.at + Schedule!Period
<1>1. ScheduleInv /\ [Schedule!Next]_Schedule!vars => [Once]_Schedule!vars
  <2>. SUFFICES ASSUME ScheduleInv, Schedule!HandleStatus,
                       NEW e \in Schedule!Due(Head(queue).time), NEW f \in executed, e.for = f.for
                PROVE  f.at < e.at /\ e.at < f.at + Schedule!Period
    OBVIOUS
  <2>. DEFINE t == Head(queue).time
  <2>1. Schedule!TypeOK /\ InOrder /\ NearItsTime
    BY DEF ScheduleInv
  <2>2. queue # <<>> /\ TimeAt(queue, 1) /\ t = queue[1].time
    BY DEF Schedule!HandleStatus, TimeAt
  <2>3. queue \in Seq(Message) /\ now \in Nat /\ previous \in Nat
    BY <2>1, QueueTyped
  <2>4. 1 \in 1..Len(queue)
    BY <2>2, <2>3
  <2>5. t \in 0..now /\ previous <= t
    BY <2>1, <2>2, <2>4, QueueTyped DEF InOrder
  <2>6. e \in Schedule!Due(t)
    OBVIOUS
  <2>. HIDE DEF t
  <2>7. e.at = t /\ t # previous /\ t <= e.for
    BY <2>1, <2>3, <2>5, <2>6, DueFacts
  <2>8. f.at \in Nat /\ f.for \in Nat /\ f.at <= previous /\ f.for - Schedule!Period < f.at
    BY <2>1 DEF Schedule!TypeOK, Schedule!Runs, NearItsTime
  <2>. QED BY <2>3, <2>5, <2>7, <2>8 DEF Schedule!Period
<1>. QED BY <1>1, ScheduleStarts, ScheduleNext, PTL DEF Schedule!Spec, FiresOnce, Schedule!FiresOnce

-------------------------------------------------------------------------------
(* Schedule: a rule is executed when its time comes.                        *)

LEMMA Monotonic ==
    ASSUME NEW j \in Nat, NEW k \in Nat, NEW d \in Nat, j < k
    PROVE  j * d + d <= k * d
<1>1. PICK x \in Nat : k = j + 1 + x
  BY k - j - 1 \in Nat, k = j + 1 + (k - j - 1)
<1>2. k * d = j * d + d + x * d /\ x * d \in Nat
  BY <1>1
<1>3. j * d \in Nat
  OBVIOUS
<1>. QED BY <1>2, <1>3

LEMMA NextDivision ==
    ASSUME NEW n \in Nat, NEW d \in Nat \ {0}
    PROVE  ((n + 1) \div d) * d = IF n + 1 = (n \div d) * d + d THEN n + 1 ELSE (n \div d) * d
<1>. DEFINE j == n \div d
            k == (n + 1) \div d
<1>1. /\ j \in Nat /\ j * d <= n /\ n < j * d + d
      /\ k \in Nat /\ k * d <= n + 1 /\ n + 1 < k * d + d
  BY Division, n + 1 \in Nat
<1>. HIDE DEF j, k
<1>2. j * d \in Nat /\ k * d \in Nat
  BY <1>1
<1>3. k < j => FALSE
  BY <1>1, <1>2, Monotonic
<1>4. CASE k = j
  BY <1>1, <1>2, <1>4 DEF j, k
<1>5. CASE j < k
  <2>1. j * d + d <= k * d
    BY <1>1, <1>5, Monotonic
  <2>2. n + 1 = j * d + d /\ k * d = n + 1
    BY <1>1, <1>2, <2>1
  <2>. QED BY <2>2 DEF j, k
<1>. QED BY <1>1, <1>3, <1>4, <1>5

(* The time of a rule, a second later: it is the same until it passed.      *)
LEMMA ParseStep ==
    ASSUME NEW m \in RuleTimes, now \in Nat, now' = now + 1
    PROVE  Schedule!ParseTimeIndication(m)' =
               IF Schedule!ParseTimeIndication(m) = now THEN now + Day
               ELSE Schedule!ParseTimeIndication(m)
<1>. DEFINE d == (now \div Day) * Day
            e == ((now + 1) \div Day) * Day
<1>1. /\ d \in Nat /\ d <= now /\ now < d + Day
      /\ e = IF now + 1 = d + Day THEN now + 1 ELSE d
  <2>1. Day \in Nat \ {0}
    BY ScheduleConstants
  <2>2. d \in Nat /\ d <= now /\ now < d + Day
    BY <2>1, Division
  <2>3. ((now + 1) \div Day) * Day
            = IF now + 1 = (now \div Day) * Day + Day THEN now + 1 ELSE (now \div Day) * Day
    BY <2>1, NextDivision
  <2>. QED BY <2>2, <2>3
<1>2. m \in Nat /\ Day \in Nat /\ 60 * m + 59 < Day
  BY ScheduleConstants
<1>3. Schedule!ParseTimeIndication(m) = IF d + 60 * m + 59 < now THEN d + 60 * m + 59 + Day ELSE d + 60 * m + 59
  BY DEF Schedule!ParseTimeIndication
<1>4. Schedule!ParseTimeIndication(m)' =
          IF e + 60 * m + 59 < now + 1 THEN e + 60 * m + 59 + Day ELSE e + 60 * m + 59
  BY DEF Schedule!ParseTimeIndication
<1>. HIDE DEF d, e
<1>5. CASE now + 1 = d + Day
  BY <1>1, <1>2, <1>3, <1>4, <1>5
<1>6. CASE now + 1 # d + Day
  BY <1>1, <1>2, <1>3, <1>4, <1>6
<1>. QED BY <1>5, <1>6

LEMMA CurrentPasses == ScheduleInv /\ Current /\ Schedule!Passes => Current'
<1>. SUFFICES ASSUME ScheduleInv, Current, Schedule!Passes PROVE Current'
  OBVIOUS
<1>1. now' = now + 1 /\ UNCHANGED <<next, time, queue, previous, rules, executed, excused>>
  BY DEF Schedule!Passes
<1>2. Schedule!TypeOK /\ now \in Nat /\ time \in 0..now /\ Day \in Nat
  BY QueueTyped, ScheduleConstants DEF ScheduleInv
<1>3. OnItsWay' = OnItsWay
  BY <1>1 DEF OnItsWay, TimeAt
<1>4. ASSUME NearIsExecuted PROVE NearIsExecuted'
  <2>. SUFFICES ASSUME NEW i \in 1..Len(rules),
                       time > Schedule!ParseTimeIndication(rules[i].at)' - Schedule!Period
                PROVE  Executed(rules[i])'
    BY <1>1 DEF NearIsExecuted
  <2>1. rules[i] \in Schedule!Rules
    BY <1>2 DEF Schedule!TypeOK
  <2>2. PICK m \in RuleTimes : m = rules[i].at
    BY <2>1 DEF Schedule!Rules, Schedule!Rule
  <2>3. m \in Nat /\ 60 * m + 59 < Day
    BY ScheduleConstants
  <2>4. Schedule!ParseTimeIndication(rules[i].at)' = Schedule!ParseTimeIndication(m)'
    BY <1>1, <2>2 DEF Schedule!ParseTimeIndication
  <2>5. Schedule!ParseTimeIndication(m)' = Schedule!ParseTimeIndication(m)
    <3>1. CASE Schedule!ParseTimeIndication(m) = now
      <4>1. Schedule!ParseTimeIndication(m)' = now + Day
        BY <1>1, <1>2, <3>1, ParseStep
      <4>2. Schedule!ParseTimeIndication(rules[i].at)' = now + Day
        BY <2>4, <4>1
      <4>. QED BY <1>2, <2>3, <4>2 DEF Schedule!Period
    <3>2. CASE Schedule!ParseTimeIndication(m) # now
      BY <1>1, <1>2, <3>2, ParseStep
    <3>. QED BY <3>1, <3>2
  <2>6. Executed(rules[i])
    BY <1>4, <2>2, <2>4, <2>5 DEF NearIsExecuted
  <2>. QED BY <1>1, <2>2, <2>4, <2>5, <2>6 DEF Executed
<1>. QED BY <1>1, <1>3, <1>4 DEF Current

LEMMA CurrentHandleStatus == ScheduleInv /\ Current /\ Schedule!HandleStatus => Current'
<1>. SUFFICES ASSUME ScheduleInv, Current, Schedule!HandleStatus, ~excused', time' # 0
              PROVE  IF previous' = time' THEN NearIsExecuted' ELSE OnItsWay'
  BY DEF Current
<1>. DEFINE t == Head(queue).time
<1>1. /\ queue # <<>> /\ TimeAt(queue, 1) /\ t = queue[1].time
      /\ executed' = {e \in executed : e.for >= now} \cup Schedule!Due(t)
      /\ previous' = t /\ queue' = Tail(queue)
      /\ UNCHANGED <<now, next, time, rules, edits, excused>>
  BY DEF Schedule!HandleStatus, TimeAt
<1>2. /\ Schedule!TypeOK /\ InOrder /\ now \in Nat /\ time \in 0..now /\ previous \in Nat
      /\ queue \in Seq(Message)
  BY QueueTyped DEF ScheduleInv
<1>3. /\ 1 \in 1..Len(queue)
      /\ \A i \in 1..Len(queue) : i # 1 => i - 1 \in 1..Len(queue') /\ queue'[i - 1] = queue[i]
  BY <1>1, <1>2, QueueTaken
<1>4. t \in 0..now /\ previous <= t /\ t <= time
  BY <1>1, <1>2, <1>3, QueueTyped DEF InOrder
<1>. HIDE DEF t
<1>5. \A i \in 1..Len(rules) : rules[i] \in Schedule!Rules
  BY <1>2 DEF Schedule!TypeOK
<1>p. \A r : Schedule!ParseTimeIndication(r)' = Schedule!ParseTimeIndication(r)
  BY <1>1 DEF Schedule!ParseTimeIndication
<1>6. CASE previous = time
  <2>1. t = time /\ NearIsExecuted
    BY <1>1, <1>2, <1>4, <1>6 DEF Current
  <2>2. ASSUME NEW i \in 1..Len(rules),
               time > Schedule!ParseTimeIndication(rules[i].at) - Schedule!Period
        PROVE  \E e \in executed' : e.rule = rules[i] /\ e.for = Schedule!ParseTimeIndication(rules[i].at)
    <3>1. PICK e \in executed : e.rule = rules[i] /\ e.for = Schedule!ParseTimeIndication(rules[i].at)
      BY <2>1, <2>2 DEF NearIsExecuted, Executed
    <3>2. e.for >= now
      BY <1>2, <1>4, <1>5, <3>1, MatchFacts
    <3>. QED BY <1>1, <3>1, <3>2
  <2>3. NearIsExecuted'
    BY <1>1, <1>p, <2>2 DEF NearIsExecuted, Executed
  <2>. QED BY <1>1, <2>1, <2>3
<1>7. CASE previous # time /\ t = time
  <2>1. ASSUME NEW i \in 1..Len(rules),
               time > Schedule!ParseTimeIndication(rules[i].at) - Schedule!Period
        PROVE  \E e \in executed' : e.rule = rules[i] /\ e.for = Schedule!ParseTimeIndication(rules[i].at)
    <3>1. Schedule!Matches(t, rules[i]) /\ Schedule!Changed(previous, t)
      BY <1>2, <1>4, <1>5, <1>7, <2>1, MatchFacts DEF Schedule!Changed
    <3>. DEFINE e == [rule |-> rules[i], for |-> Schedule!ParseTimeIndication(rules[i].at), at |-> t]
    <3>2. e \in Schedule!Due(t)
      BY <3>1 DEF Schedule!Due
    <3>3. e.rule = rules[i] /\ e.for = Schedule!ParseTimeIndication(rules[i].at)
      OBVIOUS
    <3>. HIDE DEF e
    <3>. QED BY <1>1, <3>2, <3>3
  <2>2. NearIsExecuted'
    BY <1>1, <1>p, <2>1 DEF NearIsExecuted, Executed
  <2>. QED BY <1>1, <1>7, <2>2
<1>8. CASE previous # time /\ t # time
  <2>1. PICK i \in 1..Len(queue) : TimeAt(queue, i) /\ queue[i].time = time
    BY <1>1, <1>8 DEF Current, OnItsWay
  <2>2. i # 1
    BY <1>1, <1>8, <2>1
  <2>3. i - 1 \in 1..Len(queue') /\ queue'[i - 1] = queue[i]
    BY <1>3, <2>2
  <2>4. OnItsWay'
    BY <1>1, <2>1, <2>3 DEF OnItsWay, TimeAt
  <2>. QED BY <1>1, <1>8, <2>4
<1>. QED BY <1>6, <1>7, <1>8

(* A tick that is late by less than a period finds another time.            *)
LEMMA CurrentNext ==
    ASSUME Late < Schedule!Period
    PROVE  ScheduleInv /\ Current /\ [Schedule!Next]_Schedule!vars => Current'
<1>. SUFFICES ASSUME ScheduleInv, Current, [Schedule!Next]_Schedule!vars PROVE Current'
  OBVIOUS
<1>t. /\ queue \in Seq(Message) /\ Len(queue) \in Nat /\ Len(queue) <= BufferSize
      /\ now \in Nat /\ next \in Nat /\ time \in 0..now /\ previous \in 0..now /\ Late \in Nat
      /\ Schedule!TypeOK /\ InOrder /\ InTime
  BY QueueTyped, ScheduleConstants DEF ScheduleInv
<1>1. CASE UNCHANGED Schedule!vars
  BY <1>1 DEF Current, NearIsExecuted, Executed, OnItsWay, TimeAt, Schedule!ParseTimeIndication,
              Schedule!vars
<1>2. CASE Schedule!HandleTimerEvent
  <2>1. /\ now >= next /\ time' = now
        /\ queue' = Schedule!Offer(queue, [time |-> now]) /\ excused' = (Len(queue) = BufferSize)
        /\ previous' = previous
    BY <1>2 DEF Schedule!HandleTimerEvent
  <2>2. previous # now
    BY <1>t, <2>1 DEF InOrder, InTime, Schedule!Period
  <2>3. ASSUME Len(queue) # BufferSize PROVE OnItsWay'
    <3>1. [time |-> now] \in Message
      BY <1>t DEF Message
    <3>2. Len(queue) + 1 \in 1..Len(queue') /\ queue'[Len(queue) + 1] = [time |-> now]
      BY <1>t, <2>1, <2>3, <3>1, QueueKept
    <3>3. TimeAt(queue', Len(queue) + 1) /\ queue'[Len(queue) + 1].time = now
      BY <3>2 DEF TimeAt
    <3>. QED BY <2>1, <3>2, <3>3 DEF OnItsWay
  <2>. QED BY <2>1, <2>2, <2>3 DEF Current
<1>3. ASSUME NEW m \in Message, queue' = Schedule!Offer(queue, m),
             UNCHANGED <<now, time, previous, rules, executed, excused>>
      PROVE  Current'
  <2>1. OnItsWay => OnItsWay'
    <3>1. \A i \in 1..Len(queue) : i \in 1..Len(queue') /\ queue'[i] = queue[i]
      BY <1>t, <1>3, QueueKept
    <3>. QED BY <1>3, <3>1 DEF OnItsWay, TimeAt
  <2>2. NearIsExecuted => NearIsExecuted'
    BY <1>3 DEF NearIsExecuted, Executed, Schedule!ParseTimeIndication
  <2>. QED BY <1>3, <2>1, <2>2 DEF Current
<1>4. CASE Schedule!Republished
  <2>1. /\ queue' = Schedule!Offer(queue, [time |-> time])
        /\ UNCHANGED <<now, time, previous, rules, executed, excused>>
    BY <1>4 DEF Schedule!Republished
  <2>2. [time |-> time] \in Message
    BY <1>t DEF Message
  <2>. QED BY <1>3, <2>1, <2>2
<1>5. ASSUME NEW q \in Schedule!Requests, Schedule!Request(q) PROVE Current'
  <2>1. /\ queue' = Schedule!Offer(queue, [request |-> q])
        /\ UNCHANGED <<now, time, previous, rules, executed, excused>>
    BY <1>5 DEF Schedule!Request
  <2>2. [request |-> q] \in Message
    BY DEF Message
  <2>. QED BY <1>3, <2>1, <2>2
<1>6. CASE Schedule!HandleRequest
  BY <1>6 DEF Schedule!HandleRequest, Current
<1>. QED BY <1>1, <1>2, <1>4, <1>5, <1>6, CurrentPasses, CurrentHandleStatus DEF Schedule!Next

(* When the time of a rule passes it was executed, unless the last tick was *)
(* dropped, is late, or is still in the channel (datetime.go:69,            *)
(* types.go:37-55): for any rules and times of day, whatever the second at  *)
(* which the program was started, if ticks are late by less than a period.  *)
THEOREM RulesFireEachDay ==
    ASSUME Late < Schedule!Period
    PROVE  Schedule!Spec => FiresEachDay
<1>. DEFINE Passed == \A i \in 1..Len(rules) :
                now' > now /\ now = Schedule!ParseTimeIndication(rules[i].at)
                   => \/ \E e \in executed : e.rule = rules[i] /\ e.for = now
                      \/ excused \/ next <= now \/ queue # <<>>
<1>1. ScheduleInv /\ Current /\ [Schedule!Next]_Schedule!vars => [Passed]_Schedule!vars
  <2>. SUFFICES ASSUME ScheduleInv, Current, NEW i \in 1..Len(rules),
                       now = Schedule!ParseTimeIndication(rules[i].at),
                       ~excused, ~(next <= now), queue = <<>>
                PROVE  \E e \in executed : e.rule = rules[i] /\ e.for = now
    OBVIOUS
  <2>1. /\ Schedule!TypeOK /\ InTime /\ now \in Nat /\ next \in Nat /\ time \in 0..now
    BY QueueTyped DEF ScheduleInv
  <2>2. rules[i] \in Schedule!Rules
    BY <2>1 DEF Schedule!TypeOK
  <2>3. now >= 59
    BY <2>1, <2>2, ParseFacts DEF Schedule!Rules, Schedule!Rule
  <2>4. time # 0 /\ time > now - Schedule!Period
    BY <2>1, <2>3 DEF InTime, Schedule!Period
  <2>5. ~OnItsWay
    BY DEF OnItsWay
  <2>6. NearIsExecuted
    BY <2>4, <2>5 DEF Current
  <2>. QED BY <2>4, <2>6 DEF NearIsExecuted, Executed
<1>2. Schedule!Init => Current
  BY DEF Schedule!Init, Current
<1>. QED BY <1>1, <1>2, ScheduleStarts, ScheduleNext, CurrentNext, PTL
         DEF Schedule!Spec, FiresEachDay, Schedule!FiresEachDay

(* Types and bounds of Schedule, and the order of what its actor is told.   *)
THEOREM ScheduleInvariance == Schedule!Spec => []ScheduleInv
  BY ScheduleStarts, ScheduleNext, PTL DEF Schedule!Spec
===============================================================================
