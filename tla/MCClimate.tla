------------------------------ MODULE MCClimate ------------------------------
(***************************************************************************)
(* Heating and Schedule for TLC: what the time and the temperatures of a    *)
(* house make the program do.  The two share nothing, so each behaviour is  *)
(* one of the first or one of the second, and the other stands still.       *)
(***************************************************************************)
EXTENDS Integers, Sequences, TLC

CONSTANTS BufferSize,
          Rooms, Missing, Temps, Threshold, Short, Minimum, r1, r2,
          Day, Days, Late, MaxWait, RuleTimes, RuleIds, MaxEdits

ASSUME ClimateAssumption ==
    /\ BufferSize \in Nat \ {0}
    /\ Rooms \in Seq({Rooms[i] : i \in 1..Len(Rooms)})
    /\ Temps \subseteq Int /\ Threshold \in Nat /\ Short \in Nat /\ Minimum \in Nat
    /\ Day \in Nat \ {0} /\ RuleTimes \subseteq {m \in Nat : 60 * m + 59 < Day}
    /\ Days \in Nat /\ Late \in Nat /\ MaxEdits \in Nat

VARIABLES
    part,
    temp, valve, age, known, lost, snapshots, cmds, up, turn, handled, season,
    now, next, time, queue, previous, rules, edits, executed, excused

heatingVars == <<temp, valve, age, known, lost, snapshots, cmds, up, turn, handled, season>>
scheduleVars == <<now, next, time, queue, previous, rules, edits, executed, excused>>
vars == <<part, heatingVars, scheduleVars>>

Heating == INSTANCE Heating
Schedule == INSTANCE Schedule

MissingFirst == <<r1, r2>>
ColdToHot == {-2, 0, 2}

Init ==
    /\ part \in {"heating", "schedule"} /\ Heating!Init /\ Schedule!Init
    /\ part = "heating" => next = 1 /\ rules[1].id = CHOOSE i \in RuleIds : TRUE
    /\ part = "schedule" => lost /\ \A r \in Heating!Real : temp[r] = 0 /\ ~valve[r]

OfHeating(A) == part = "heating" /\ A /\ UNCHANGED <<part, scheduleVars>>
OfSchedule(A) == part = "schedule" /\ A /\ UNCHANGED <<part, heatingVars>>

TypeOK == Heating!TypeOK /\ Schedule!TypeOK

(* Types and bounds are asserted of every step. *)
Next ==
    /\ OfHeating(Heating!Next) \/ OfSchedule(Schedule!Next)
    /\ Assert(TypeOK', "a type or a bound")

Spec == Init /\ [][Next]_vars

(* The handlers handle what is in their channels, other handlers have the   *)
(* status published again, and time passes.                                 *)
FairSpec ==
    /\ Spec
    /\ WF_vars(OfHeating(Heating!Setup \/ Heating!Subscribes))
    /\ WF_vars(OfHeating(Heating!HandleMessage \/ Heating!Decides))
    /\ WF_vars(OfHeating(Heating!Executes)) /\ WF_vars(OfHeating(Heating!Republished))
    /\ SF_vars(OfHeating(Heating!Tick))

(* A valve does not open again before its room was hot and cold again. *)
NoChatter == Heating!NoChatter

(* A valve follows the temperature of its room in the end. *)
ValvesFollow == Heating!ValvesFollow

(* A rule is executed once for each time. *)
FiresOnce == Schedule!FiresOnce

(* A rule is executed when its time comes. *)
FiresEachDay == Schedule!FiresEachDay
==============================================================================
