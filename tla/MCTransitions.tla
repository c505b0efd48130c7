---------------------------- MODULE MCTransitions ----------------------------
(* Small instances of Transitions for TLC. *)
EXTENDS Transitions

CONSTANTS c1, c2
ClientSymmetry == Permutations({c1, c2})
=============================================================================
