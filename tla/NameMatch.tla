----------------------------- MODULE NameMatch -----------------------------
(***************************************************************************)
(* Whether the name a provider reports is good enough                      *)
(* (packages/domain/src/beneficiaries/name-match.ts).                      *)
(*                                                                         *)
(* A name is the sequence of tokens normaliseName leaves of it, a token    *)
(* its text and its first letter; an initial is a token that is its own    *)
(* first letter.  Evidence a provider did not send is "none", 0 - 1 or     *)
(* << >>.                                                                  *)
(***************************************************************************)
EXTENDS Integers, Sequences, FiniteSets

token(text, first) == [text |-> text, first |-> first]
initial(first)     == token(first, first)

isName(tokens) == Len(tokens) \in Nat /\ DOMAIN tokens = 1..Len(tokens)

IsInitial(t) == t.text = t.first

(***************************************************************************)
(* compareNames: tokens of the shorter name, in order, each take one token *)
(* of the longer name, an equal one before one that agrees in the initial. *)
(***************************************************************************)
Agrees(t, p) == (IsInitial(t) \/ IsInitial(p)) /\ t.first = p.first

First(hits) == CHOOSE i \in hits : \A j \in hits : i <= j

taking(t, longer, before) ==             \* the positions of the longer name taken so far
  LET free  == DOMAIN longer \ before
      exact == {i \in free : longer[i] = t}
      hits  == IF exact # {} THEN exact ELSE {i \in free : Agrees(t, longer[i])}
  IN  before \cup (IF hits = {} THEN {} ELSE {First(hits)})

taken(shorter, longer) ==                \* by the first n tokens of the shorter name
  LET acc[n \in 0..Len(shorter)] == IF n = 0 THEN {} ELSE taking(shorter[n], longer, acc[n - 1])
  IN  acc

compareNames(a, b) ==
  LET shorter == IF Len(a) <= Len(b) THEN a ELSE b
      longer  == IF Len(a) <= Len(b) THEN b ELSE a
      matched == Cardinality(taken(shorter, longer)[Len(shorter)])
  IN  IF shorter = << >> THEN 0
      ELSE (200 * matched + Len(shorter)) \div (2 * Len(shorter))

-----------------------------------------------------------------------------
(* Policies *)

inspectPolicy(policy) ==
  CASE policy.kind = "not_required"       -> policy.reasoned
    [] policy.kind = "provider_assertion" -> TRUE
    [] policy.kind = "numeric_score"      -> policy.scaleMax > 0 /\ policy.minimum \in 0..policy.scaleMax
    [] policy.kind = "registry_name"      -> policy.minimum \in 0..100

Verdict(met) == IF met THEN "satisfied" ELSE "mismatch"

decideNameMatch(policy, evidence, expected) ==
  CASE policy.kind = "not_required" -> "satisfied"
    [] policy.kind = "provider_assertion" ->
         IF evidence.asserted = "none" THEN "insufficient_evidence"
         ELSE Verdict(evidence.asserted = "match")
    [] policy.kind = "numeric_score" ->
         IF evidence.score < 0
         THEN IF policy.allowMissing THEN "satisfied" ELSE "insufficient_evidence"
         ELSE IF evidence.score > policy.scaleMax THEN "insufficient_evidence"
         ELSE Verdict(evidence.score >= policy.minimum)
    [] policy.kind = "registry_name" ->
         IF evidence.registryName = << >> THEN "insufficient_evidence"
         ELSE Verdict(compareNames(expected, evidence.registryName) >= policy.minimum)
    [] OTHER -> "insufficient_evidence"       \* no policy is registered
=============================================================================
