------------------------------ MODULE MCStartup ------------------------------
(* Instances of Startup for TLC. *)
EXTENDS Startup

TwoPaths == <<"etc", "home">>
NestedKeys == {<<"rules">>, <<"rules", "list">>, <<"rules", "more">>}

(* Types and bounds are asserted of every step. *)
TypedNext == Next /\ Assert(TypeOK', "a type or a bound")
TypedSpec == Init /\ [][TypedNext]_vars /\ WF_vars(Goes)
==============================================================================
