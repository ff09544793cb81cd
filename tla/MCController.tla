---------------------------- MODULE MCController ----------------------------
(* Instances of Controller for TLC. *)
EXTENDS Controller, TLC

CONSTANTS h1, h2

Symmetric == Permutations({h1, h2})
==============================================================================
