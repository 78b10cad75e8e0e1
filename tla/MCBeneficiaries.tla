-------------------------- MODULE MCBeneficiaries --------------------------
(* Beneficiaries with two account holders, and a provider that finds the   *)
(* holder under an initial, another person, or no account.                 *)
EXTENDS Beneficiaries

Aarti  == token("AARTI", "A")
Sharma == token("SHARMA", "S")

Evidence(asserted, score, name) == [asserted |-> asserted, score |-> score, registryName |-> name]

MCDetails == {[name |-> <<Aarti, Sharma>>], [name |-> <<token("VIKRAM", "V")>>]}

MCPolicies ==
  {[kind |-> "registry_name", minimum |-> 80]}

Confirmed(deferred) ==
  [result |-> "account_confirmed", deferred |-> deferred,
   evidence |-> Evidence("match", 100, <<Aarti, initial("R"), Sharma>>)]

MCAnswers ==
  {Confirmed(TRUE), Confirmed(FALSE),
   [result |-> "failed", deferred |-> TRUE, evidence |-> Evidence("none", 0 - 1, << >>)]}
=============================================================================
