---------------------------- MODULE MCRealtimeHub ----------------------------
(* Instances of RealtimeHub for TLC. *)
EXTENDS RealtimeHub, TLC

CONSTANTS p1, p2

TwoPages == {p1, p2}

\* Pages are interchangeable.
Symmetric == Permutations(TwoPages)
=============================================================================
