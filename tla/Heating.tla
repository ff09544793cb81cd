------------------------------- MODULE Heating -------------------------------
(***************************************************************************)
(* The heating handler (handlers/heating/heating.go) in the loop it closes: *)
(* it reads the temperatures and valves of its rooms in the global status    *)
(* and publishes commands that the io handler executes.  Status and commands *)
(* go through channels that drop what they cannot hold.                      *)
(*                                                                           *)
(* A temperature is its difference from the target.  Time passes in ticks;   *)
(* an age is the number of ticks since the io handler last published a       *)
(* valve, which the code takes for its last change.                          *)
(***************************************************************************)
EXTENDS Bus, Integers

CONSTANTS Rooms,     \* the configured rooms, in this order
          Missing,   \* rooms with a device that does not exist
          Temps,     \* temperatures
          Threshold,
          Short,     \* a heating this young may be stopped (15 minutes), ...
          Minimum    \* ... or one older than this (MinimumRunningTime)

VARIABLES
    temp, valve,  \* what the io handler knows of each room
    age,          \* ticks since its valve was published
    known,        \* the io status in the global status, or Unknown
    lost,         \* the last update of the io status was dropped
    snapshots,    \* channel of the heating handler
    cmds,         \* channel of the io handler
    up,           \* the heating handler was set up
    turn,         \* the room whose turn it is in Setup or HandleMessage
    handled,      \* the snapshot that HandleMessage decodes
    season        \* history: per room, what it was since its valve opened

vars == <<temp, valve, age, known, lost, snapshots, cmds, up, turn, handled, season>>

All == {Rooms[i] : i \in 1..Len(Rooms)}
Real == All \ Missing
Ages == 0..Minimum + 1          \* bound: older is as old
Older(a) == IF a > Minimum THEN a ELSE a + 1

Done == Len(Rooms) + 1          \* the turn of none
Unknown == <<>>
RoomStates == [temp : Temps, valve : BOOLEAN, age : Ages]
Commands == [room : All, open : BOOLEAN]

TypeOK ==
    /\ temp \in [Real -> Temps] /\ valve \in [Real -> BOOLEAN]
    /\ age \in [Real -> Ages]
    /\ known = Unknown \/ known \in [Real -> RoomStates]
    /\ turn \in 1..Done
    /\ IF up /\ turn # Done THEN handled \in [Real -> RoomStates] ELSE handled = Unknown
    /\ lost \in BOOLEAN /\ up \in BOOLEAN
    /\ snapshots \in Seq([Real -> RoomStates]) /\ Len(snapshots) <= BufferSize
    /\ cmds \in Seq(Commands) /\ Len(cmds) <= BufferSize
    /\ season \in [Real -> {"start", "open", "hot", "cold"}]

Init ==
    /\ temp \in [Real -> Temps] /\ valve \in [Real -> BOOLEAN]
    /\ age = [r \in Real |-> 0]
    /\ lost \in BOOLEAN         \* the first status of the io handler arrived or not
    /\ known = IF lost THEN Unknown ELSE [r \in Real |-> [temp |-> temp[r], valve |-> valve[r], age |-> 0]]
    /\ snapshots = <<>> /\ cmds = <<>> /\ up = FALSE
    /\ turn = 1 /\ handled = Unknown
    /\ season = [r \in Real |-> "start"]

-------------------------------------------------------------------------------
(* The global status: the io handler publishes its own, ...                 *)
Publishes(t, v, a) ==
    \/ /\ known' = [r \in Real |-> [temp |-> t[r], valve |-> v[r], age |-> a[r]]]
       /\ snapshots' = IF up THEN Offer(snapshots, known') ELSE snapshots
       /\ lost' = FALSE
    \/ lost' = TRUE /\ UNCHANGED <<known, snapshots>>

(* ... and any other handler, datetime for one, has the whole sent again,   *)
(* not so often that the channel would never be empty.                      *)
Republished ==
    /\ up /\ known # Unknown /\ snapshots = <<>> /\ turn = Done
    /\ snapshots' = Offer(snapshots, known)
    /\ UNCHANGED <<temp, valve, age, known, lost, cmds, up, turn, handled, season>>

Cold(t) == t < 0 - Threshold
Hot(t) == t > Threshold

TemperatureChanges(r, t) ==
    /\ t # temp[r]
    /\ temp' = [temp EXCEPT ![r] = t]
    /\ Publishes(temp', valve, age)
    /\ season' = [season EXCEPT ![r] =
          CASE @ = "open" /\ Hot(t) -> "hot"
            [] @ = "hot" /\ Cold(t) -> "cold"
            [] OTHER -> @]
    /\ UNCHANGED <<valve, age, cmds, up, turn, handled>>

(* The io handler executes a command, and publishes the valve as of now.    *)
Executes ==
    /\ cmds # <<>>
    /\ cmds' = Tail(cmds)
    /\ LET r == Head(cmds).room
           open == Head(cmds).open IN
       IF r \in Missing THEN UNCHANGED <<temp, valve, age, known, lost, snapshots, season>>
       ELSE /\ valve' = [valve EXCEPT ![r] = open]
            /\ age' = [age EXCEPT ![r] = 0]
            /\ season' = [season EXCEPT ![r] = IF ~open \/ valve[r] THEN @
                                               ELSE IF Hot(temp[r]) THEN "hot" ELSE "open"]
            /\ Publishes(temp, valve', age')
            /\ UNCHANGED temp
    /\ UNCHANGED <<up, turn, handled>>

(* A tick is minutes, so that channels are empty when it comes.             *)
Tick ==
    /\ snapshots = <<>> /\ cmds = <<>> /\ up /\ turn = Done
    /\ LET Aged(f) == [r \in Real |-> Older(f[r])] IN
       /\ age' = Aged(age)
       /\ known' = IF known = Unknown THEN known
                   ELSE [r \in Real |-> [known[r] EXCEPT !.age = Older(@)]]
    /\ UNCHANGED <<temp, valve, lost, snapshots, cmds, up, turn, handled, season>>

-------------------------------------------------------------------------------
Command(r, open) == [room |-> r, open |-> open]

(* Setup closes the valves, one after the other, as far as the io handler   *)
(* is there to hear it; the handler subscribes to the status after that.    *)
Setup ==
    /\ ~up /\ turn # Done
    /\ turn' = turn + 1
    /\ cmds' = Offer(cmds, Command(Rooms[turn], FALSE)) \/ UNCHANGED cmds
    /\ UNCHANGED <<temp, valve, age, known, lost, snapshots, up, handled, season>>

Subscribes ==
    /\ ~up /\ turn = Done /\ up' = TRUE
    /\ UNCHANGED <<temp, valve, age, known, lost, snapshots, cmds, turn, handled, season>>

(* Mutant: a room within the threshold is cold. *)
MustOpenEarly(s) == s.temp < Threshold /\ ~s.valve

MustOpen(s) == Cold(s.temp) /\ ~s.valve

MustClose(s) == Hot(s.temp) /\ s.valve /\ (s.age < Short \/ s.age > Minimum)

HandleMessage ==
    /\ up /\ turn = Done /\ snapshots # <<>>
    /\ handled' = Head(snapshots) /\ snapshots' = Tail(snapshots) /\ turn' = 1
    /\ UNCHANGED <<temp, valve, age, known, lost, cmds, up, season>>

(* Mutant: a room that is not in the status hides those after it. *)
NoneAfterMissing(i) == IF Rooms[i] \in Missing THEN Done ELSE i + 1

NextRoom(i) == i + 1

(* A room that is not in the status is left out; for any other at most one  *)
(* command is published before it is the turn of the next one.              *)
Decides ==
    /\ up /\ turn # Done
    /\ turn' = NextRoom(turn)
    /\ handled' = IF turn' = Done THEN Unknown ELSE handled
    /\ LET r == Rooms[turn] IN
       cmds' = IF r \in Missing THEN cmds
               ELSE IF MustOpen(handled[r]) THEN Offer(cmds, Command(r, TRUE))
               ELSE IF MustClose(handled[r]) THEN Offer(cmds, Command(r, FALSE))
               ELSE cmds
    /\ UNCHANGED <<temp, valve, age, known, lost, snapshots, up, season>>

Next ==
    \/ Republished \/ Executes \/ Tick \/ Setup \/ Subscribes \/ HandleMessage \/ Decides
    \/ \E r \in Real, t \in Temps : TemperatureChanges(r, t)

Spec == Init /\ [][Next]_vars

-------------------------------------------------------------------------------
(* Properties. *)

Opens(r) == ~valve[r] /\ valve'[r]

(* Between two openings of a valve its room was hot, and then cold again,   *)
(* however often a decision is taken on an old snapshot                     *)
(* (heating.go:127-133).                                                    *)
NoChatter == [][\A r \in Real : Opens(r) => season[r] \in {"start", "cold"}]_vars

(* A room that stays cold is heated, and one that stays hot is not, in the  *)
(* end, although commands and snapshots are dropped: later snapshots repeat *)
(* them.  A dropped update of the io status is not repeated                 *)
(* (heating.go:101-143).                                                    *)
ValvesFollow == \A r \in Real :
    /\ Cold(temp[r]) ~> (valve[r] \/ ~Cold(temp[r]) \/ lost)
    /\ Hot(temp[r]) ~> (~valve[r] \/ ~Hot(temp[r]) \/ lost)
===============================================================================
