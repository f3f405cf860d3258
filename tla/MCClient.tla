------------------------------ MODULE MCClient ------------------------------
(* An instance of Client for TLC: goroutines that overlap while tokens     *)
(* expire several times.                                                   *)
EXTENDS Client, TLC

Symmetry == Permutations(Callers)
=============================================================================
