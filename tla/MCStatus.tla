------------------------------- MODULE MCStatus -------------------------------
(* Instances of Status for TLC. *)
EXTENDS Status, TLC

CONSTANTS m1, m2

Often == (m1 :> 3) @@ (m2 :> 1)
==============================================================================
