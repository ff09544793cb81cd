-------------------------------- MODULE W1Bus --------------------------------
(***************************************************************************)
(* Thermometers on a 1-wire bus (handlers/io/bus/w1bus): read at the start  *)
(* and every minute, announced when the value differs.  A temperature is    *)
(* cut out of the text "t=23125", by position: it has to be a number of at   *)
(* least three digits.                                                      *)
(***************************************************************************)
EXTENDS Devices

BelowZero == -1      \* a temperature with a sign, "t=-1250"
NearZero == 0        \* one of fewer than three digits, "t=62"

W1Initialize == status' = [d \in Devs |-> IF d \in Sensors THEN 0 ELSE Unset]

W1Polls(d) == Works("w1") /\ d \in Sensors /\ BeginRead(d)
(* The expression that looks for the number finds none behind a sign, ...   *)
W1Reads(ok) ==
    /\ Works("w1")
    /\ IF ok /\ hw[worker.dev] = BelowZero THEN ReadsNothing /\ UNCHANGED events
       ELSE (ok => hw[worker.dev] # NearZero) /\ EndRead(ok)

(* ... and the slice of a number that is too short panics.                  *)
W1Panics ==
    /\ Works("w1") /\ worker.pc = "read" /\ hw[worker.dev] = NearZero
    /\ phase' = "panic"
    /\ UNCHANGED <<confVars, opened, status, hw, own, worker, pend, changes,
                   todo, target, reported, commands, events>>
W1Announces == Works("w1") /\ Announce
==============================================================================
