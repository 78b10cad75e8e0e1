--------------------------- MODULE MCPreparation ---------------------------
(* Preparation with one advisory reference rule and two kinds of requests. *)
EXTENDS Preparation

MCRules == << rule("large_settlement_review", "advisory", "contact_support", [large |-> TRUE]) >>

MCPricing ==
  [source   |-> "treasury_approved",
   feeRules |-> << [code |-> 2, kind |-> "basis_points", value |-> 35],
                   [code |-> 1, kind |-> "flat", value |-> 1] >>]

MCRequests ==
  {[amount |-> 2, purpose |-> TRUE,  named |-> q,    creator |-> "maker"] : q \in Quotes}
  \cup {[amount |-> 2, purpose |-> FALSE, named |-> NONE, creator |-> "api_key"]}
=============================================================================
