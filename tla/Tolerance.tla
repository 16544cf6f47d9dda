------------------------------- MODULE Tolerance -------------------------------
(***************************************************************************)
(* The tolerance for stock on hand, ira_tolerance: the inventory report     *)
(* compares quantities with it, the dashboard a rounded percentage.         *)
(***************************************************************************)
EXTENDS Integers

CONSTANT TolerancePerMille      \* stock_3pl_mainfreight.ira_tolerance * 1000

ASSUME ToleranceAssumption == TolerancePerMille \in Nat

Abs(n) == IF n < 0 THEN -n ELSE n

(* variance > odoo_qty * tolerance *)
BugDriftsAtThreshold(mf, odoo) ==   \* seeded fault: >= for >
    Abs(mf - odoo) * 1000 >= odoo * TolerancePerMille
Drifts(mf, odoo) == Abs(mf - odoo) * 1000 > odoo * TolerancePerMille

(* _compute_variance_pct, in the ten-thousandths of a percent it is rounded to. *)
VariancePct(odoo, mf) ==
    IF odoo = 0 THEN IF mf = 0 THEN 0 ELSE 1000000
    ELSE (2000000 * Abs(mf - odoo) + odoo) \div (2 * odoo)

(* variance_pct > tolerance * 100 *)
Exceeds(odoo, mf) == VariancePct(odoo, mf) > 1000 * TolerancePerMille
===============================================================================
