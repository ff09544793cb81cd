------------------------------ MODULE ConfigTree ------------------------------
(***************************************************************************)
(* The configuration in memory (config/config.go): maps of names to values, *)
(* which may be maps again.  A key is the sequence of names that the code   *)
(* gets by splitting at the dots, and a configuration says of each key      *)
(* that leads somewhere what is there: with a key, those above it.          *)
(***************************************************************************)
EXTENDS Sequences, Naturals, TLC

Empty == <<>>
Leaf(v) == [kind |-> "leaf", val |-> v]
Map == [kind |-> "map"]
Nil == [kind |-> "nil"]

(* Get: the value of a name that is not there, or under a leaf, is nil.     *)
Get(t, key) == IF key \in DOMAIN t THEN t[key] ELSE Nil

(* The maps that a key goes through. *)
Above(key) == {SubSeq(key, 1, n) : n \in 1..Len(key) - 1}

(* Set makes the maps on the way; a leaf on the way is a panic. *)
SetPanics(t, key) == \E k \in Above(key) : Get(t, k).kind = "leaf"

(* What was under the key goes with the value that is replaced. *)
Set(t, key, v) ==
    [k \in {k \in DOMAIN t : key \notin Above(k)} \cup Above(key) \cup {key} |->
        IF k = key THEN v ELSE IF k \in DOMAIN t THEN t[k] ELSE Map]
================================================================================
