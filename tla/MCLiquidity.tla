---------------------------- MODULE MCLiquidity ----------------------------
(***************************************************************************)
(* Liquidity on a small instance: settlements are interchangeable.         *)
(***************************************************************************)
EXTENDS Liquidity, TLC

SettlementSymmetry == Permutations(Settlements)
=============================================================================
