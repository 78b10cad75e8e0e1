------------------------------- MODULE Totals -------------------------------
(***************************************************************************)
(* The sum of a column over the rows of a table.  Tables are functions on  *)
(* 1..n, in the order their rows were inserted, as SELECT sum(...) sees    *)
(* them.  The sum is a recursive function rather than a fold over a set    *)
(* so that its unfolding can be proved (CommonProofs).                     *)
(***************************************************************************)
EXTENDS Integers

(***************************************************************************)
(* RunningTotal(f, n)[k] is f[1] + ... + f[k].                             *)
(***************************************************************************)
RunningTotal(f, n) ==
  LET acc[k \in 0..n] == IF k = 0 THEN 0 ELSE acc[k - 1] + f[k]
  IN  acc

Total(f, n) == RunningTotal(f, n)[n]
=============================================================================
