----------------------------- MODULE MCFunding -----------------------------
(***************************************************************************)
(* Funding on a small instance: interchangeable settlements of one unit.   *)
(***************************************************************************)
EXTENDS Funding, TLC

OneUnitEach == [s \in Settlements |-> 1]

(***************************************************************************)
(* Evidence that matches, and evidence that fails in one thing only.       *)
(***************************************************************************)
Matching == [verified |-> TRUE, currency |-> "same", facility |-> "unstated", amount |-> "expected"]

OneFlaw ==
  {Matching, [Matching EXCEPT !.verified = FALSE], [Matching EXCEPT !.currency = "other"],
   [Matching EXCEPT !.facility = "other"], [Matching EXCEPT !.amount = "under"]}

SettlementSymmetry == Permutations(Settlements)
=============================================================================
