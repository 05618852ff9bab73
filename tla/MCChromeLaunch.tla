--------------------------- MODULE MCChromeLaunch ---------------------------
(* A small instance of ChromeLaunch for TLC. *)
EXTENDS ChromeLaunch, TLC

Symmetry == Permutations(Request)
=============================================================================
