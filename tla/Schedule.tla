------------------------------- MODULE Schedule -------------------------------
(***************************************************************************)
(* Rules on the time of day: datetime publishes the time every ten seconds  *)
(* (handlers/datetime), the actor compares it with the time of a rule       *)
(* whenever it gets a status (handlers/actor), where times less than ten    *)
(* seconds apart are equal and a time of day that is past is tomorrow's     *)
(* (types/types.go).  Rules are added, changed and removed while it runs.   *)
(*                                                                          *)
(* Times are seconds; a day is shorter, for TLC.                            *)
(***************************************************************************)
EXTENDS Bus, Integers

CONSTANTS Day,        \* seconds of a day, a number of minutes
          Days,       \* bound: days
          Late,       \* a tick comes up to this many seconds late
          MaxWait,    \* bound: seconds that the newest status waits for the actor
          RuleTimes,  \* times of day of rules, in minutes
          RuleIds,
          MaxEdits    \* bound: requests to change the rules

VARIABLES
    now,
    next,      \* when the ticker of datetime fires
    time,      \* datetime's Time, 0 before the first tick
    queue,     \* channel of the actor: statuses, by their time, and requests
    previous,  \* the time in previousState, 0 if none
    rules,     \* actions of the actor
    edits,
    executed,  \* history: what was executed, when, and for what time
    excused    \* history: the last tick was dropped, or a rule is newer than it

vars == <<now, next, time, queue, previous, rules, edits, executed, excused>>

Period == 10
Rule(i, m) == [id |-> i, at |-> m]
Rules == {Rule(i, m) : i \in RuleIds, m \in RuleTimes}
Requests == [action : {"SET", "RESET"}, rule : Rules]
Runs == [rule : Rules, for : Nat, at : Nat]

TypeOK ==
    /\ now \in 0..Day * Days /\ next \in Nat /\ time \in 0..now /\ previous \in 0..now
    /\ queue \in Seq([time : 0..now] \cup [request : Requests]) /\ Len(queue) <= BufferSize
    /\ rules \in Seq(Rules) /\ \A i, j \in 1..Len(rules) : rules[i].id = rules[j].id => i = j
    /\ edits \in 0..MaxEdits /\ executed \subseteq Runs /\ excused \in BOOLEAN

Init ==
    /\ next \in 1..Period             \* the program starts at any second
    /\ now = 0 /\ time = 0
    /\ queue = <<>> /\ previous = 0
    /\ rules \in {<<r>> : r \in Rules}
    /\ edits = 0 /\ executed = {} /\ excused = FALSE

-------------------------------------------------------------------------------
(* A second passes, unless the ticker is already as late as it gets.        *)
Passes ==
    /\ now < Day * Days /\ now < next + Late
    /\ \A i \in 1..Len(queue) : "time" \in DOMAIN queue[i] /\ now < queue[i].time + MaxWait
    /\ now' = now + 1
    /\ UNCHANGED <<next, time, queue, previous, rules, edits, executed, excused>>

(* HandleTimerEvent of datetime; sunrise and sunset are left out. *)
HandleTimerEvent ==
    /\ now >= next
    /\ next' = next + Period
    /\ time' = now
    /\ queue' = Offer(queue, [time |-> now])
    /\ excused' = (Len(queue) = BufferSize)
    /\ UNCHANGED <<now, previous, rules, edits, executed>>

(* Another handler changes its status, the whole is published again.        *)
Republished ==
    /\ time # 0 /\ queue = <<>>
    /\ queue' = Offer(queue, [time |-> time])
    /\ UNCHANGED <<now, next, time, previous, rules, edits, executed, excused>>

Request(q) ==
    /\ edits < MaxEdits
    /\ edits' = edits + 1
    /\ queue' = Offer(queue, [request |-> q])
    /\ UNCHANGED <<now, next, time, previous, rules, executed, excused>>

-------------------------------------------------------------------------------
(* ParseTimeIndication: the end of a minute, of today or of tomorrow.       *)
ParseTimeIndication(m) ==
    LET today == (now \div Day) * Day + 60 * m + 59
    IN  IF today < now THEN today + Day ELSE today

(* Mutant: ten seconds are equal as well. *)
CompareTen(t, other) ==
    LET diff == t - other IN
    IF diff \in -Period..Period THEN 0 ELSE IF diff > 0 THEN 1 ELSE -1

(* Mutant: five seconds are equal. *)
CompareFive(t, other) ==
    LET diff == t - other IN
    IF diff \in -4..4 THEN 0 ELSE IF diff > 0 THEN 1 ELSE -1

Compare(t, other) ==
    LET diff == t - other IN
    IF diff \in 1 - Period..Period - 1 THEN 0 ELSE IF diff > 0 THEN 1 ELSE -1

(* GetFieldDescriptor: the time of the rule is evaluated twice, for the     *)
(* previous state and the current one, and is the same.                     *)
Changed(before, after) == before # after

(* Execute, for a query that the time equals that of the rule.              *)
Matches(t, rule) == Compare(t, ParseTimeIndication(rule.at)) = 0

(* executeActions *)
Due(t) ==
    {[rule |-> rules[i], for |-> ParseTimeIndication(rules[i].at), at |-> t] :
        i \in {j \in 1..Len(rules) : Matches(t, rules[j]) /\ Changed(previous, t)}}

HandleStatus ==
    /\ queue # <<>> /\ "time" \in DOMAIN Head(queue)
    /\ LET t == Head(queue).time IN
       /\ executed' = {e \in executed : e.for >= now} \cup Due(t)
       /\ previous' = t
    /\ queue' = Tail(queue)
    /\ UNCHANGED <<now, next, time, rules, edits, excused>>

(* SET replaces the rule of the id, or adds one; ... *)
Has(id) == \E i \in 1..Len(rules) : rules[i].id = id
Stored(rule) ==
    IF Has(rule.id)
    THEN [i \in 1..Len(rules) |-> IF rules[i].id = rule.id THEN rule ELSE rules[i]]
    ELSE Append(rules, rule)

(* ... RESET removes it, ids are unique; GET changes nothing. *)
Removed(rule) ==
    LET n == CHOOSE i \in 1..Len(rules) : rules[i].id = rule.id IN
    IF Has(rule.id) THEN SubSeq(rules, 1, n - 1) \o SubSeq(rules, n + 1, Len(rules)) ELSE rules

HandleRequest ==
    /\ queue # <<>> /\ "request" \in DOMAIN Head(queue)
    /\ LET q == Head(queue).request IN
       rules' = IF q.action = "SET" THEN Stored(q.rule) ELSE Removed(q.rule)
    /\ queue' = Tail(queue)
    /\ excused' = TRUE
    /\ UNCHANGED <<now, next, time, previous, edits, executed>>

Next ==
    \/ Passes \/ HandleTimerEvent \/ Republished
    \/ (\E q \in Requests : Request(q))
    \/ HandleStatus \/ HandleRequest

Spec == Init /\ [][Next]_vars
-------------------------------------------------------------------------------
(* Properties. *)

(* However many statuses carry a time, a rule is executed once for it, but  *)
(* for ticks that came less than ten seconds apart (datetime.go:66,         *)
(* types.go:28): the first of them was late.                                *)
FiresOnce ==
    [][HandleStatus =>
          \A e \in Due(Head(queue).time), f \in executed :
              e.rule = f.rule /\ e.for = f.for => f.at < e.at /\ e.at < f.at + Period]_vars

(* README.md:21: an action can be executed at a certain time.  When the     *)
(* time of a rule passes it was executed, whatever the second at which the  *)
(* program was started, unless a tick was dropped, is late or still in the  *)
(* channel (datetime.go:69, types.go:37-55).                                *)
FiresEachDay ==
    [][\A i \in 1..Len(rules) :
          now' > now /\ now = ParseTimeIndication(rules[i].at)
             => \/ \E e \in executed : e.rule = rules[i] /\ e.for = now
                \/ excused \/ next <= now \/ queue # <<>>]_vars
===============================================================================
