--------------------------------- MODULE MCIO ---------------------------------
(* IO for TLC. *)
EXTENDS IO, TLC

(* Types and bounds are asserted of every step. *)
TypedNext == Next /\ Assert(TypeOK', "a type or a bound")
TypedSpec == Init /\ [][TypedNext]_vars
===============================================================================
