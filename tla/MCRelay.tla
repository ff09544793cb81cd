------------------------------- MODULE MCRelay -------------------------------
(* Instances of Relay for TLC: devices are interchangeable, and so are      *)
(* connections.                                                             *)
EXTENDS Relay, TLC

CONSTANTS a, b, server

OnlyDevices == {a, b}
Everybody == {a, b, server}
Anyone == {a, b, Nobody}

Interchangeable == Permutations(Clients) \cup Permutations(Conns)
==============================================================================
