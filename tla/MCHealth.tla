------------------------------ MODULE MCHealth -------------------------------
(* HealthHistory on a small instance.                                      *)
EXTENDS HealthHistory, TLC

CONSTANTS r1, r2

Symmetry == Permutations(Calls)
=============================================================================
