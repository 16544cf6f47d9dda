---------------------------- MODULE MCKpiDashboard ----------------------------
(* KpiDashboard on a small instance: pickings and products can be exchanged. *)
EXTENDS KpiDashboard, TLC

Symmetry == Permutations(Picking) \union Permutations(Product)
===============================================================================
