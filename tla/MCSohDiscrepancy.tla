---------------------------- MODULE MCSohDiscrepancy ----------------------------
(* Small instances of SohDiscrepancy for TLC. *)
EXTENDS SohDiscrepancy, TLC

(* Around the tolerance of 200 units, and stock that has gone below zero. *)
SomeQty == {-1, 0, 199, 200, 201}

UserSymmetry == Permutations(User)
===============================================================================
