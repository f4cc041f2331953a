----------------------------- MODULE MCOperator -----------------------------
(* Instances of Operator for TLC. *)
EXTENDS Operator, TLC

CONSTANTS m1, m2, w1, s1, s2, none

SystemSymmetry == Permutations(Systems)
=============================================================================
