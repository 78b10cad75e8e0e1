------------------------------ MODULE Preflight ------------------------------
(***************************************************************************)
(* The preflight engine (packages/domain/src/preflight/rules.ts): which    *)
(* requirements the compiled policy rules and the loaded reference rules   *)
(* raise about a subject.  A condition is a record of facts and the value  *)
(* each must have: every policy rule is a conjunction of eq and is_null    *)
(* comparisons.  Copy, tokens and the order of the output are left out;    *)
(* the outcome is a set of requirements.                                   *)
(***************************************************************************)
EXTENDS Naturals, Sequences

CONSTANT ReferenceRules   \* the active rule set's own rules, in file order

VerificationStatuses == {"unverified", "verifying", "verified", "failed"}

(***************************************************************************)
(* destination is "none" without a usable destination: the facts about a   *)
(* destination are null then.  large stands for the comparisons of the     *)
(* amount with a rule's threshold.                                         *)
(***************************************************************************)
Facts == {"destination", "beneficiary_status", "purpose", "live", "facility", "large"}

rule(code, severity, action, when) ==
  [code |-> code, severity |-> severity, action |-> action, when |-> when]

POLICY_RULES == <<
  rule("payout_destination_required", "blocking", "add_payout_destination",
       [destination |-> "none"]),
  rule("beneficiary_account_unverified", "blocking", "verify_beneficiary",
       [destination |-> "unverified"]),
  rule("beneficiary_account_verification_failed", "blocking", "edit_beneficiary",
       [destination |-> "failed"]),
  rule("beneficiary_verification_in_progress", "blocking", "verify_beneficiary",
       [destination |-> "verifying"]),
  rule("beneficiary_rejected", "blocking", "contact_support",
       [beneficiary_status |-> "rejected"]),
  rule("beneficiary_disabled", "blocking", "edit_beneficiary",
       [beneficiary_status |-> "disabled"]),
  rule("purpose_required", "blocking", "select_purpose",
       [purpose |-> FALSE]),
  rule("liquidity_facility_required", "blocking", "set_up_liquidity_facility",
       [live |-> TRUE, facility |-> FALSE]) >>

REQUIREMENT_ACTION_TYPES ==
  {"verify_beneficiary", "edit_beneficiary", "add_payout_destination", "upload_document",
   "select_purpose", "contact_support", "set_up_liquidity_facility"}

(***************************************************************************)
(* A requirement names one action the customer can be offered (its code,   *)
(* title and detail are copy).                                             *)
(***************************************************************************)
inspectRequirement(r) == r.action \in REQUIREMENT_ACTION_TYPES

evaluateCondition(when, subject) == \A fact \in DOMAIN when : subject[fact] = when[fact]

(***************************************************************************)
(* A verify_beneficiary action names a destination version, so the rule is *)
(* dropped, before its code is marked as seen, when there is none.         *)
(***************************************************************************)
materialises(r, subject) == r.action = "verify_beneficiary" => subject["destination"] # "none"

Rules == POLICY_RULES \o ReferenceRules

Raised(i, subject) == /\ evaluateCondition(Rules[i].when, subject)
                      /\ materialises(Rules[i], subject)

(***************************************************************************)
(* runPreflight: of the rules with one code, the first that fires wins.    *)
(***************************************************************************)
runPreflight(subject) ==
  {Rules[i] : i \in {j \in DOMAIN Rules :
     /\ Raised(j, subject)
     /\ \A k \in 1..(j - 1) : Rules[k].code = Rules[j].code => ~Raised(k, subject)}}

Blocking(requirements) == {r \in requirements : r.severity = "blocking"}

(***************************************************************************)
(* validateRules: codes are unique over policy and reference rules, facts  *)
(* are known, and a verify action is guarded by a fact of the destination. *)
(***************************************************************************)
validateRuleSet ==
  /\ \A i, j \in DOMAIN Rules : Rules[i].code = Rules[j].code => i = j
  /\ \A i \in DOMAIN Rules :
       /\ Rules[i].severity \in {"blocking", "advisory"}
       /\ inspectRequirement(Rules[i])
       /\ DOMAIN Rules[i].when \subseteq Facts
       /\ Rules[i].action = "verify_beneficiary" => /\ "destination" \in DOMAIN Rules[i].when
                                                   /\ Rules[i].when["destination"] # "none"

ASSUME RuleSetIsValid == validateRuleSet
=============================================================================
