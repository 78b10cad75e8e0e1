-------------------------- MODULE PreparationProofs --------------------------
(***************************************************************************)
(* What an authorization freezes and spends, for every set of settlements  *)
(* and quotes, every rate and fee table, every number of concurrent calls  *)
(* and every length of the clock.                                          *)
(***************************************************************************)
EXTENDS Preparation, CommonProofs

-----------------------------------------------------------------------------
(* Prices *)

(***************************************************************************)
(* The quotient is the largest number whose multiple does not exceed the   *)
(* dividend.                                                               *)
(***************************************************************************)
LEMMA DivisionBounds ==
  ASSUME NEW a \in Nat, NEW b \in Nat \ {0}
  PROVE  /\ a \div b \in Nat
         /\ (a \div b) * b <= a
         /\ a < (a \div b) * b + b
OBVIOUS

(***************************************************************************)
(* verifyRecipientFirst and verifySourceFirst never refuse a price that    *)
(* priceQuote computes, whatever the rate.                                 *)
(***************************************************************************)
LEMMA PricesAreExact ==
  ASSUME NEW direction, NEW amount \in Nat
  PROVE  /\ PriceIsExact(direction, priceQuote(direction, amount))
         /\ priceQuote(direction, amount).fees = computeFees(priceQuote(direction, amount).funding)
<1> DEFINE N == RateNumerator
           D == RateDenominator
<1>0. N \in Nat \ {0} /\ D \in Nat \ {0}
  BY PricingAssumption
<1> HIDE DEF N, D
<1>1. CASE direction = "RECIPIENT_FIRST"
  <2>1. PICK x : x = amount * D + N - 1
    OBVIOUS
  <2>2. PICK f : f = x \div N
    OBVIOUS
  <2>3. amount * D \in Nat /\ x \in Nat
    BY <1>0, <2>1
  <2>4. f \in Nat /\ f * N <= x /\ x < f * N + N
    BY <1>0, <2>2, <2>3, DivisionBounds
  <2>5. f * N \in Nat /\ (f - 1) * N = f * N - N
    BY <1>0, <2>4
  <2>6. f * N >= amount * D /\ (f - 1) * N < amount * D
    BY <1>0, <2>1, <2>3, <2>4, <2>5
  <2>7. /\ priceQuote(direction, amount).funding = f
        /\ priceQuote(direction, amount).recipient = amount
        /\ priceQuote(direction, amount).fees = computeFees(f)
    BY <1>1, <2>1, <2>2 DEF priceQuote, fundingForRecipient, ceilDiv, N, D
  <2> QED
    BY <1>1, <2>6, <2>7 DEF PriceIsExact, N, D
<1>2. CASE direction # "RECIPIENT_FIRST"
  <2>1. PICK x : x = amount * N
    OBVIOUS
  <2>2. PICK r : r = x \div D
    OBVIOUS
  <2>3. x \in Nat
    BY <1>0, <2>1
  <2>4. r \in Nat /\ r * D <= x /\ x < r * D + D
    BY <1>0, <2>2, <2>3, DivisionBounds
  <2>5. (r + 1) * D = r * D + D /\ r * D \in Nat
    BY <1>0, <2>4
  <2>6. r * D <= amount * N /\ (r + 1) * D > amount * N
    BY <1>0, <2>1, <2>3, <2>4, <2>5
  <2>7. /\ priceQuote(direction, amount).funding = amount
        /\ priceQuote(direction, amount).recipient = r
        /\ priceQuote(direction, amount).fees = computeFees(amount)
    BY <1>2, <2>1, <2>2 DEF priceQuote, recipientForFunding, floorDiv, N, D
  <2> QED
    BY <1>2, <2>6, <2>7 DEF PriceIsExact, N, D
<1> QED
  BY <1>1, <1>2

-----------------------------------------------------------------------------
(* Digests *)

(***************************************************************************)
(* Fees with different codes can be put in order: insertion sort, by       *)
(* induction on how many of them are in order already.                     *)
(***************************************************************************)
LEMMA SortingExists ==
  ASSUME NEW n \in Nat, NEW f, DOMAIN f = 1..n,
         \A i \in 1..n : f[i].code \in Nat,
         \A i, j \in 1..n : f[i].code = f[j].code => i = j
  PROVE  \E g \in [1..n -> Range(f)] :
           /\ Range(g) = Range(f)
           /\ \A i, j \in 1..n : i < j => g[i].code < g[j].code
<1> DEFINE Sorts(g, m) == /\ g \in [1..m -> Range(f)]
                          /\ \A i \in 1..m : \E j \in 1..m : g[i] = f[j]
                          /\ \A j \in 1..m : \E i \in 1..m : g[i] = f[j]
                          /\ \A i, j \in 1..m : i < j => g[i].code < g[j].code
           G == {m \in 0..n : \E g : Sorts(g, m)}
<1>1. 0 \in G
  <2>1. 1..0 = {}
    OBVIOUS
  <2>2. PICK g : g = [i \in 1..0 |-> f[1]]
    OBVIOUS
  <2>3. g \in [1..0 -> Range(f)]
    BY <2>1, <2>2
  <2>4. Sorts(g, 0)
    BY <2>1, <2>3
  <2> HIDE DEF Sorts
  <2> QED
    BY <2>4
<1>2. ASSUME NEW m \in 1..n, m - 1 \in G PROVE m \in G
  <2>0. PICK g : Sorts(g, m - 1)
    <3> HIDE DEF Sorts
    <3> QED
      BY <1>2
  <2>1. /\ g \in [1..(m - 1) -> Range(f)]
        /\ \A i \in 1..(m - 1) : \E j \in 1..(m - 1) : g[i] = f[j]
        /\ \A j \in 1..(m - 1) : \E i \in 1..(m - 1) : g[i] = f[j]
        /\ \A i, j \in 1..(m - 1) : i < j => g[i].code < g[j].code
    BY <2>0
  <2> HIDE DEF G, Sorts
  <2>2. m - 1 \in Nat /\ m \in Nat
    OBVIOUS
  <2> DEFINE c == f[m].code
             T == {i \in 1..m : i = m \/ g[i].code > c}
  <2>3. PICK p \in T : \A y \in T : ~(y < p)
    <3>1. T \in SUBSET Nat /\ T # {}
      OBVIOUS
    <3> QED
      BY <3>1, LeastNatural
  <2>4. \A i \in 1..(m - 1) : g[i].code \in Nat /\ g[i].code # c /\ g[i] \in Range(f)
    <3> TAKE i \in 1..(m - 1)
    <3>1. PICK j \in 1..(m - 1) : g[i] = f[j]
      BY <2>1
    <3>2. j \in 1..n /\ m \in 1..n /\ j # m
      OBVIOUS
    <3> QED
      BY <2>1, <3>1, <3>2
  <2>5. \A i \in 1..m : i < p => i \in 1..(m - 1) /\ g[i].code < c
    BY <2>2, <2>3, <2>4
  <2>6. \A i \in 1..m : i > p => i - 1 \in 1..(m - 1) /\ g[i - 1].code > c
    <3> TAKE i \in 1..m
    <3> HAVE i > p
    <3>1. p \in 1..(m - 1) /\ i - 1 \in 1..(m - 1) /\ g[p].code > c
      BY <2>2, <2>3
    <3>2. c \in Nat /\ g[p].code \in Nat /\ g[i - 1].code \in Nat
      BY <2>4, <3>1
    <3>3. p = i - 1 \/ g[p].code < g[i - 1].code
      BY <2>1, <2>2, <3>1
    <3> HIDE DEF c
    <3> QED
      BY <3>1, <3>2, <3>3
  <2> DEFINE h == [i \in 1..m |-> IF i < p THEN g[i] ELSE IF i = p THEN f[m] ELSE g[i - 1]]
  <2>7. p \in 1..m
    BY <2>3
  <2>8. \A i \in 1..m : /\ i < p => h[i] = g[i]
                        /\ i = p => h[i] = f[m]
                        /\ i > p => h[i] = g[i - 1]
    BY <2>7
  <2>14. c = f[m].code /\ c \in Nat
    OBVIOUS
  <2> HIDE DEF c
  <2>9. h \in [1..m -> Range(f)]
    <3>1. f[m] \in Range(f)
      BY DEF Range
    <3>2. \A i \in 1..m : h[i] \in Range(f)
      BY <2>4, <2>5, <2>6, <2>7, <2>8, <3>1
    <3> QED
      BY <3>2
  <2> HIDE DEF h, T
  <2>10. \A i \in 1..m : \E j \in 1..m : h[i] = f[j]
    <3> TAKE i \in 1..m
    <3>1. CASE i = p
      BY <2>8, <3>1
    <3>2. CASE i < p
      <4>1. i \in 1..(m - 1) /\ h[i] = g[i]
        BY <2>5, <2>8, <3>2
      <4>2. PICK j \in 1..(m - 1) : g[i] = f[j]
        BY <2>1, <4>1
      <4> QED
        BY <4>1, <4>2
    <3>3. CASE i > p
      <4>1. i - 1 \in 1..(m - 1) /\ h[i] = g[i - 1]
        BY <2>6, <2>8, <3>3
      <4>2. PICK j \in 1..(m - 1) : g[i - 1] = f[j]
        BY <2>1, <4>1
      <4> QED
        BY <4>1, <4>2
    <3> QED
      BY <2>7, <3>1, <3>2, <3>3
  <2>11. ASSUME NEW j \in 1..m PROVE \E i \in 1..m : h[i] = f[j]
    <3>1. CASE j = m
      BY <3>1, <2>7, <2>8
    <3>2. CASE j # m
      <4>0. j \in 1..(m - 1)
        BY <3>2
      <4>1. PICK i \in 1..(m - 1) : g[i] = f[j]
        BY <2>1, <4>0
      <4>2. CASE i < p
        BY <4>1, <4>2, <2>2, <2>8
      <4>3. CASE i >= p
        <5>1. i + 1 \in 1..m /\ i + 1 > p /\ (i + 1) - 1 = i
          BY <4>3, <2>2, <2>7
        <5> QED
          BY <4>1, <5>1, <2>8
      <4> QED
        BY <4>2, <4>3, <2>2, <2>7
    <3> QED
      BY <3>1, <3>2
  <2>12. ASSUME NEW i \in 1..m, NEW j \in 1..m, i < j PROVE h[i].code < h[j].code
    <3>1. CASE j < p
      <4>1. h[i] = g[i] /\ h[j] = g[j] /\ i \in 1..(m - 1) /\ j \in 1..(m - 1)
        BY <2>5, <2>7, <2>8, <2>12, <3>1
      <4> QED
        BY <2>1, <2>12, <4>1
    <3>2. CASE j = p
      BY <2>5, <2>7, <2>8, <2>12, <2>14, <3>2
    <3>3. CASE j > p /\ i < p
      <4>1. h[i] = g[i] /\ g[i].code < c /\ i \in 1..(m - 1)
        BY <2>5, <2>8, <3>3
      <4>2. h[j] = g[j - 1] /\ g[j - 1].code > c /\ j - 1 \in 1..(m - 1)
        BY <2>6, <2>8, <3>3
      <4> QED
        BY <2>4, <2>14, <4>1, <4>2
    <3>4. CASE j > p /\ i = p
      <4>1. h[i].code = c /\ h[j] = g[j - 1] /\ g[j - 1].code > c /\ j - 1 \in 1..(m - 1)
        BY <2>6, <2>8, <2>14, <3>4
      <4> QED
        BY <2>4, <2>14, <4>1
    <3>5. CASE j > p /\ i > p
      <4>1. /\ h[i] = g[i - 1] /\ h[j] = g[j - 1]
            /\ i - 1 \in 1..(m - 1) /\ j - 1 \in 1..(m - 1) /\ i - 1 < j - 1
        BY <2>6, <2>7, <2>8, <2>12, <3>5
      <4> QED
        BY <2>1, <4>1
    <3> QED
      BY <3>1, <3>2, <3>3, <3>4, <3>5, <2>7
  <2>13. Sorts(h, m)
    BY <2>9, <2>10, <2>11, <2>12 DEF Sorts
  <2> QED
    BY <2>13 DEF G
<1>3. \A k \in 0..n : k \in G
  <2> HIDE DEF G
  <2>1. \A k \in 1..n : k - 1 \in G => k \in G
    BY <1>2
  <2> QED
    BY <1>1, <2>1, IntervalInduction
<1>4. PICK g : Sorts(g, n)
  <2>1. n \in G
    <3> HIDE DEF G
    <3> QED
      BY <1>3
  <2> HIDE DEF Sorts
  <2> QED
    BY <2>1
<1>5. DOMAIN g = 1..n
  BY <1>4
<1>6. Range(g) = Range(f)
  <2>1. \A i \in 1..n : g[i] \in Range(f)
    BY <1>4
  <2>2. \A j \in 1..n : \E i \in 1..n : g[i] = f[j]
    BY <1>4
  <2>3. Range(g) \subseteq Range(f)
    BY <1>5, <2>1 DEF Range
  <2>4. ASSUME NEW x \in Range(f) PROVE x \in Range(g)
    <3>1. PICK j \in 1..n : x = f[j]
      BY DEF Range
    <3>2. PICK i \in 1..n : g[i] = f[j]
      BY <2>2
    <3> QED
      BY <1>5, <3>1, <3>2 DEF Range
  <2> QED
    BY <2>3, <2>4
<1> QED
  BY <1>4, <1>6

(***************************************************************************)
(* Sorting fees that are in order changes nothing.                         *)
(***************************************************************************)
LEMMA SortingTwice ==
  ASSUME NEW n \in Nat, NEW f, DOMAIN f = 1..n,
         \A i \in 1..n : f[i].code \in Nat,
         \A i, j \in 1..n : f[i].code = f[j].code => i = j
  PROVE  sortedByCode(sortedByCode(f)) = sortedByCode(f)
<1> DEFINE P(g, r) == /\ Range(g) = r
                      /\ \A i, j \in 1..n : i < j => g[i].code < g[j].code
           t == sortedByCode(f)
<1>1. t = CHOOSE g \in [1..n -> Range(f)] : P(g, Range(f))
  BY DEF sortedByCode
<1>2. \E g \in [1..n -> Range(f)] : P(g, Range(f))
  BY SortingExists
<1>3. t \in [1..n -> Range(f)] /\ P(t, Range(f))
  <2> HIDE DEF P, t
  <2> QED
    BY <1>1, <1>2
<1>4. DOMAIN t = 1..n /\ Range(t) = Range(f)
  BY <1>3
<1>5. sortedByCode(t) = CHOOSE g \in [1..n -> Range(f)] : P(g, Range(f))
  <2> HIDE DEF t
  <2> QED
    BY <1>4 DEF sortedByCode
<1> QED
  BY <1>1, <1>5

(***************************************************************************)
(* No two fee rules have the same code (validatePricingConfig).            *)
(***************************************************************************)
LEMMA FeeCodesDiffer ==
  \A k, l \in DOMAIN PricingConfig.feeRules :
    PricingConfig.feeRules[k].code = PricingConfig.feeRules[l].code => k = l
<1>1. validatePricingConfig(PricingConfig)
  BY PricingAssumption, Zenon
<1>2. codesAreUnique(PricingConfig.feeRules)
  BY <1>1, Zenon DEF validatePricingConfig
<1> QED
  BY <1>2, Zenon DEF codesAreUnique

(***************************************************************************)
(* What is stored hashes to the digest that was taken with it.             *)
(***************************************************************************)
LEMMA StoredMatchesHash ==
  ASSUME NEW i, NEW funding,
         i = [column \in DOMAIN i |-> i[column]],
         "fees" \in DOMAIN i, i.fees = computeFees(funding)
  PROVE  instructionMatchesHash(canonicalInstructionObject(i), authorizedTermsHash(i))
<1>1. PICK n \in Nat : /\ DOMAIN PricingConfig.feeRules = 1..n
                       /\ \A k \in 1..n : PricingConfig.feeRules[k].code \in Nat
  <2> DEFINE FeeRule == [code : Nat, kind : {"flat", "basis_points"}, value : Nat]
  <2>1. PricingConfig.feeRules \in Seq(FeeRule)
    BY PricingAssumption
  <2>2. \A r \in FeeRule : r.code \in Nat
    OBVIOUS
  <2> HIDE DEF FeeRule
  <2>3. PICK rules \in Seq(FeeRule) : rules = PricingConfig.feeRules
    BY <2>1
  <2>4. /\ Len(rules) \in Nat /\ DOMAIN rules = 1..Len(rules)
        /\ \A k \in 1..Len(rules) : rules[k] \in FeeRule
    OBVIOUS
  <2> QED
    BY <2>2, <2>3, <2>4
<1>2. PICK f : f = i.fees
  OBVIOUS
<1>3. /\ DOMAIN f = 1..n
      /\ \A k \in 1..n : f[k].code = PricingConfig.feeRules[k].code
  BY <1>1, <1>2 DEF computeFees
<1>5. \A k, l \in 1..n :
        PricingConfig.feeRules[k].code = PricingConfig.feeRules[l].code => k = l
  BY <1>1, FeeCodesDiffer
<1>6. sortedByCode(sortedByCode(f)) = sortedByCode(f)
  <2>1. DOMAIN f = 1..n
    BY <1>3
  <2>2. \A k \in 1..n : f[k].code \in Nat
    BY <1>1, <1>3
  <2>3. \A k, l \in 1..n : f[k].code = f[l].code => k = l
    BY <1>3, <1>5
  <2> QED
    BY <2>1, <2>2, <2>3, SortingTwice
<1>7. PICK t : t = canonicalInstructionObject(i)
  OBVIOUS
<1>8. PICK g : g = sortedByCode(f)
  OBVIOUS
<1>9. t = [i EXCEPT !.fees = g]
  BY <1>2, <1>7, <1>8 DEF canonicalInstructionObject
<1>10. /\ DOMAIN t = DOMAIN i /\ t.fees = g
       /\ t = [column \in DOMAIN t |-> t[column]]
  BY <1>9
<1>11. canonicalInstructionObject(t) = t
  <2>1. canonicalInstructionObject(t) = [t EXCEPT !.fees = sortedByCode(t.fees)]
    BY DEF canonicalInstructionObject
  <2>2. canonicalInstructionObject(t) = [t EXCEPT !.fees = g]
    BY <1>6, <1>8, <1>10, <2>1
  <2> QED
    BY <1>10, <2>2
<1> QED
  BY <1>7, <1>10, <1>11 DEF instructionMatchesHash, authorizedTermsHash

-----------------------------------------------------------------------------
(* The inductive invariant *)

RowIsTyped(s) ==
  /\ "status" \in DOMAIN row[s]
  /\ row[s].status \in {"NONE", "DRAFT", "PREFLIGHTING", "ACTION_REQUIRED", "READY",
                        "QUOTED", "AUTHORIZED", "CANCELLED"}
  /\ DOMAIN instruction[s] = DOMAIN NoInstruction
  /\ instruction[s].quote \in Quotes \cup {NONE}
  /\ instruction[s].quote # NONE => row[s].status # "NONE"
  /\ row[s].status = "QUOTED" => instruction[s].quote # NONE
  /\ row[s].status = "AUTHORIZED" <=> instruction[s].terms # NoTerms

(***************************************************************************)
(* A quote that was created has an exact price, and its consumer if it is  *)
(* consumed.                                                               *)
(***************************************************************************)
QuoteIsPriced(q) ==
  /\ DOMAIN quotes[q] = DOMAIN NoQuote
  /\ quotes[q].status \in {"NONE", "ACTIVE", "LOCKED", "CONSUMED", "EXPIRED"}
  /\ quotes[q].status = "CONSUMED" <=> quotes[q].consumedBy # NONE
  /\ quotes[q].status # "NONE" =>
       /\ PriceIsExact(quotes[q].direction, quotes[q])
       /\ quotes[q].fees = computeFees(quotes[q].funding)

(***************************************************************************)
(* Terms for settlement s, in a call that will write them or on its row.   *)
(***************************************************************************)
TermsAreFrozen(s, frozen) ==
  LET terms == frozen.stored
  IN  /\ frozen.by \in Principals /\ frozen.via \in {"api", "batch"}
      /\ terms.quote \in Quotes /\ quotes[terms.quote].status # "NONE"
      /\ terms.recipient = instruction[s].amount
      /\ terms.funding = quotes[terms.quote].funding
      /\ PriceIsExact(terms.direction, terms)
      /\ instructionMatchesHash(terms, frozen.hash)
      /\ terms.version \in Versions
      /\ destination.verification[terms.version] = "verified"

(***************************************************************************)
(* A call names a settlement that exists and, if it is to write a quote, a *)
(* quote that exists.                                                      *)
(***************************************************************************)
CallIsSound(call) ==
  /\ call.op \in {"attach", "expire", "authorize"}
  /\ call.settlement \in Settlements /\ row[call.settlement].status # "NONE"
  /\ call.op \in {"attach", "expire"} => call.quote \in Quotes
  /\ call.op = "authorize" => TermsAreFrozen(call.settlement, call.frozen)

QuoteIsSpent(s) ==
  LET terms == instruction[s].terms
      quote == quotes[terms.stored.quote]
  IN  \/ quote.status = "CONSUMED" /\ quote.consumedBy = s
      \/ terms.via = "batch" /\ quote.status \in {"EXPIRED", "CONSUMED"}

ConsumerFroze(q) ==
  quotes[q].status = "CONSUMED" =>
    /\ quotes[q].consumedBy \in Authorized
    /\ instruction[quotes[q].consumedBy].terms.stored.quote = q

TablesAreTyped ==
  /\ DOMAIN row = Settlements /\ DOMAIN instruction = Settlements /\ DOMAIN quotes = Quotes
  /\ \A s \in Settlements : RowIsTyped(s)
  /\ \A q \in Quotes : QuoteIsPriced(q)
  /\ DOMAIN destination = {"current", "verification"}
  /\ destination.current \in 0..MaxVersion /\ DOMAIN destination.verification = Versions

PreparationIInv ==
  /\ TablesAreTyped
  /\ \A call \in calls : CallIsSound(call)
  /\ \A s \in Authorized : TermsAreFrozen(s, instruction[s].terms) /\ QuoteIsSpent(s)
  /\ \A q \in Quotes : ConsumerFroze(q)

-----------------------------------------------------------------------------
(* What the steps have in common *)

(***************************************************************************)
(* The rows of the table that preparation takes.                           *)
(***************************************************************************)
PreparationRow(t) ==
  /\ t.trigger = "run_preflight"     => t.from = {"DRAFT"} /\ t.to = "PREFLIGHTING"
  /\ t.trigger = "preflight_passed"  => t.from = {"PREFLIGHTING"} /\ t.to = "READY"
  /\ t.trigger = "preflight_blocked" => t.from = {"PREFLIGHTING"} /\ t.to = "ACTION_REQUIRED"
  /\ t.trigger = "attach_quote"      => t.from = {"READY"} /\ t.to = "QUOTED"
  /\ t.trigger = "quote_expired"     => t.from = {"QUOTED"} /\ t.to = "READY"
  /\ t.trigger = "authorize"         => t.from = {"QUOTED"} /\ t.to = "AUTHORIZED"
  /\ t.trigger = "cancel" =>
       t.from = {"DRAFT", "READY", "QUOTED", "ACTION_REQUIRED"} /\ t.to = "CANCELLED"

(***************************************************************************)
(* They hold of every row of the table.                                    *)
(***************************************************************************)
LEMMA PreparationRows == \A t \in Transitions : PreparationRow(t)
<1>1. \A t \in PreparationTransitions : PreparationRow(t)
  BY DEF PreparationTransitions, Transition, PreparationRow
<1>2. \A t \in FundingTransitions : PreparationRow(t)
  BY DEF FundingTransitions, Transition, PreparationRow
<1>3. \A t \in PayoutTransitions : PreparationRow(t)
  BY DEF PayoutTransitions, Transition, PreparationRow
<1>4. \A t \in ResolutionTransitions : PreparationRow(t)
  BY DEF ResolutionTransitions, Transition, PreparationRow
<1>5. \A t \in CancellationTransitions : PreparationRow(t)
  BY DEF CancellationTransitions, Transition, PreparationRow
<1>6. \A t \in SweeperTransitions : PreparationRow(t)
  BY DEF SweeperTransitions, Transition, PreparationRow
<1> QED
  BY <1>1, <1>2, <1>3, <1>4, <1>5, <1>6 DEF Transitions

(***************************************************************************)
(* The status an accepted transition leaves and the one it writes.         *)
(***************************************************************************)
LEMMA MovedStatus ==
  ASSUME NEW s \in Settlements, NEW trigger, NEW answers, Moves(s, trigger, answers)
  PROVE  LET old == row[s].status
             new == Moved(s, trigger, answers).status
         IN  /\ "status" \in DOMAIN Moved(s, trigger, answers)
             /\ trigger = "run_preflight"     => old = "DRAFT" /\ new = "PREFLIGHTING"
             /\ trigger = "preflight_passed"  => old = "PREFLIGHTING" /\ new = "READY"
             /\ trigger = "preflight_blocked" => old = "PREFLIGHTING" /\ new = "ACTION_REQUIRED"
             /\ trigger = "attach_quote"      => old = "READY" /\ new = "QUOTED"
             /\ trigger = "quote_expired"     => old = "QUOTED" /\ new = "READY"
             /\ trigger = "authorize"         => old = "QUOTED" /\ new = "AUTHORIZED"
             /\ trigger = "cancel" =>
                  old \in {"DRAFT", "READY", "QUOTED", "ACTION_REQUIRED"} /\ new = "CANCELLED"
<1>1. PICK t : t = CHOOSE u \in Permitted(row[s], trigger, answers) : TRUE
  OBVIOUS
<1>2. t \in Permitted(row[s], trigger, answers)
  BY <1>1 DEF Moves, Refused
<1>3. t \in Transitions /\ t.trigger = trigger /\ row[s].status \in t.from
  BY <1>2 DEF Permitted
<1>4. PreparationRow(t)
  BY <1>3, PreparationRows
<1>5. Moved(s, trigger, answers) = Applied(row[s], t)
  BY <1>1 DEF Moved
<1>6. /\ "status" \in DOMAIN Moved(s, trigger, answers)
      /\ Moved(s, trigger, answers).status = Destination(row[s], t)
  BY <1>5 DEF Applied
<1> QED
  BY <1>3, <1>4, <1>6 DEF PreparationRow, Destination

(***************************************************************************)
(* What no step takes back: a price, the end of a quote, the amount and    *)
(* the creator of a settlement, the terms of an authorized one, and a      *)
(* verification.                                                           *)
(***************************************************************************)
QuotesAreKept ==
  \A q \in Quotes :
    /\ quotes[q].status # "NONE" =>
         quotes'[q].status # "NONE" /\ quotes'[q].funding = quotes[q].funding
    /\ quotes[q].status \in {"CONSUMED", "EXPIRED"} =>
         quotes'[q].status = quotes[q].status /\ quotes'[q].consumedBy = quotes[q].consumedBy

SettlementsAreKept ==
  \A s \in Settlements :
    /\ row[s].status # "NONE" =>
         /\ row'[s].status # "NONE"
         /\ instruction'[s].amount = instruction[s].amount
         /\ instruction'[s].creator = instruction[s].creator
    /\ row[s].status = "AUTHORIZED" =>
         row'[s].status = "AUTHORIZED" /\ instruction'[s].terms = instruction[s].terms

VerificationsAreKept ==
  \A v \in Versions :
    destination.verification[v] = "verified" => destination'.verification[v] = "verified"

Kept == QuotesAreKept /\ SettlementsAreKept /\ VerificationsAreKept

(***************************************************************************)
(* Where an authorization comes from: a call that separation of duties let *)
(* through, whose terms the settlement gets.                               *)
(***************************************************************************)
Called ==
  /\ \A call \in calls' : \/ call \in calls
                          \/ call.op # "authorize"
                          \/ policy => call.frozen.by \in People \ {instruction'[call.settlement].creator}
  /\ \A s \in Settlements : row'[s].status = "AUTHORIZED" /\ row[s].status # "AUTHORIZED" =>
       \E call \in calls : /\ call.op = "authorize" /\ call.settlement = s
                           /\ instruction'[s].terms = call.frozen

(***************************************************************************)
(* Frozen terms stay sound.                                                *)
(***************************************************************************)
LEMMA FrozenIsKept ==
  ASSUME NEW s \in Settlements, NEW frozen, row[s].status # "NONE",
         TermsAreFrozen(s, frozen), Kept
  PROVE  TermsAreFrozen(s, frozen)'
<1>1. PICK terms : terms = frozen.stored
  OBVIOUS
<1>2. /\ frozen.by \in Principals /\ frozen.via \in {"api", "batch"}
      /\ terms.quote \in Quotes /\ quotes[terms.quote].status # "NONE"
      /\ terms.recipient = instruction[s].amount
      /\ terms.funding = quotes[terms.quote].funding
      /\ PriceIsExact(terms.direction, terms)
      /\ instructionMatchesHash(terms, frozen.hash)
      /\ terms.version \in Versions
      /\ destination.verification[terms.version] = "verified"
  BY <1>1 DEF TermsAreFrozen
<1>3. quotes'[terms.quote].status # "NONE" /\ terms.funding = quotes'[terms.quote].funding
  BY <1>2 DEF Kept, QuotesAreKept
<1>4. terms.recipient = instruction'[s].amount
  BY <1>2 DEF Kept, SettlementsAreKept
<1>5. destination'.verification[terms.version] = "verified"
  BY <1>2 DEF Kept, VerificationsAreKept
<1> QED
  BY <1>1, <1>2, <1>3, <1>4, <1>5 DEF TermsAreFrozen

(***************************************************************************)
(* A step keeps the invariant when it keeps the tables typed, takes        *)
(* nothing back, and the calls it starts, the settlement it authorizes and *)
(* the quote it consumes are sound.                                        *)
(***************************************************************************)
LEMMA StepKeepsInvariant ==
  ASSUME PreparationIInv, Kept, TablesAreTyped',
         \A call \in calls' : call \in calls \/ CallIsSound(call)',
         \A s \in Settlements : row'[s].status = "AUTHORIZED" /\ row[s].status # "AUTHORIZED" =>
           TermsAreFrozen(s, instruction[s].terms)' /\ QuoteIsSpent(s)',
         \A q \in Quotes : quotes'[q].status = "CONSUMED" /\ quotes[q].status # "CONSUMED" =>
           ConsumerFroze(q)'
  PROVE  PreparationIInv'
<1>1. ASSUME NEW call \in calls' PROVE CallIsSound(call)'
  <2> SUFFICES ASSUME call \in calls PROVE CallIsSound(call)'
    OBVIOUS
  <2>1. CallIsSound(call)
    BY DEF PreparationIInv
  <2>2. row'[call.settlement].status # "NONE"
    BY <2>1 DEF CallIsSound, Kept, SettlementsAreKept
  <2>3. CASE call.op # "authorize"
    BY <2>1, <2>2, <2>3 DEF CallIsSound
  <2>4. CASE call.op = "authorize"
    <3>1. TermsAreFrozen(call.settlement, call.frozen)'
      BY <2>1, <2>4, FrozenIsKept DEF CallIsSound
    <3> QED
      BY <2>1, <2>2, <3>1 DEF CallIsSound
  <2> QED
    BY <2>3, <2>4
<1>2. ASSUME NEW s \in Settlements, row'[s].status = "AUTHORIZED"
      PROVE  TermsAreFrozen(s, instruction[s].terms)' /\ QuoteIsSpent(s)'
  <2> SUFFICES ASSUME row[s].status = "AUTHORIZED"
               PROVE  TermsAreFrozen(s, instruction[s].terms)' /\ QuoteIsSpent(s)'
    BY <1>2
  <2>1. PICK terms : terms = instruction[s].terms
    OBVIOUS
  <2>2. TermsAreFrozen(s, terms) /\ QuoteIsSpent(s)
    BY <2>1 DEF PreparationIInv, Authorized
  <2>3. instruction'[s].terms = terms
    BY <2>1 DEF Kept, SettlementsAreKept
  <2>4. TermsAreFrozen(s, terms)'
    BY <2>2, FrozenIsKept
  <2>5. terms.stored.quote \in Quotes
    BY <2>2 DEF TermsAreFrozen
  <2>6. QuoteIsSpent(s)'
    BY <2>1, <2>2, <2>3, <2>5 DEF QuoteIsSpent, Kept, QuotesAreKept
  <2> QED
    BY <2>3, <2>4, <2>6
<1>3. ASSUME NEW q \in Quotes PROVE ConsumerFroze(q)'
  <2> SUFFICES ASSUME quotes[q].status = "CONSUMED" PROVE ConsumerFroze(q)'
    BY DEF ConsumerFroze
  <2>1. /\ quotes[q].consumedBy \in Authorized
        /\ instruction[quotes[q].consumedBy].terms.stored.quote = q
    BY DEF PreparationIInv, ConsumerFroze
  <2>2. PICK s : s = quotes[q].consumedBy
    OBVIOUS
  <2>3. quotes'[q].consumedBy = s
    BY <2>2 DEF Kept, QuotesAreKept
  <2>4. s \in Settlements /\ row'[s].status = "AUTHORIZED"
        /\ instruction'[s].terms = instruction[s].terms
    BY <2>1, <2>2 DEF Kept, SettlementsAreKept, Authorized
  <2> QED
    BY <2>1, <2>2, <2>3, <2>4 DEF ConsumerFroze, Authorized
<1> QED
  BY <1>1, <1>2, <1>3 DEF PreparationIInv, Authorized

-----------------------------------------------------------------------------
(* The steps *)

(***************************************************************************)
(* The clock, the policy, the jobs and the destination: only the           *)
(* destination matters, and no verification is taken back.                 *)
(***************************************************************************)
LEMMA EnvironmentKeepsInvariant ==
  ASSUME PreparationIInv, UNCHANGED <<row, instruction, quotes, calls>>,
         \/ UNCHANGED destination
         \/ editDestination
         \/ \E v \in Versions, answer \in {"verified", "failed"} : verifyDestination(v, answer)
  PROVE  PreparationIInv' /\ Kept /\ Called
<1>0. TablesAreTyped
  BY DEF PreparationIInv
<1>1. /\ VerificationsAreKept
      /\ DOMAIN destination' = {"current", "verification"}
      /\ destination'.current \in 0..MaxVersion /\ DOMAIN destination'.verification = Versions
  <2>1. CASE UNCHANGED destination
    BY <1>0, <2>1 DEF TablesAreTyped, VerificationsAreKept
  <2>2. CASE editDestination
    BY <1>0, <2>2, PreparationAssumption DEF TablesAreTyped, VerificationsAreKept, editDestination
  <2>3. ASSUME NEW v \in Versions, NEW answer \in {"verified", "failed"},
               verifyDestination(v, answer)
        PROVE  /\ VerificationsAreKept
               /\ DOMAIN destination' = {"current", "verification"}
               /\ destination'.current \in 0..MaxVersion
               /\ DOMAIN destination'.verification = Versions
    <3>1. /\ destination' = [destination EXCEPT !.verification[v] = answer]
          /\ destination.verification[v] # "verified"
      BY <2>3 DEF verifyDestination
    <3> QED
      BY <1>0, <3>1 DEF TablesAreTyped, VerificationsAreKept
  <2> QED
    BY <2>1, <2>2, <2>3
<1>2. Kept
  BY <1>1 DEF Kept, QuotesAreKept, SettlementsAreKept
<1>3. TablesAreTyped'
  <2>1. \A s \in Settlements : RowIsTyped(s)'
    BY <1>0 DEF TablesAreTyped, RowIsTyped
  <2>2. \A q \in Quotes : QuoteIsPriced(q)'
    BY <1>0 DEF TablesAreTyped, QuoteIsPriced
  <2> QED
    BY <1>0, <1>1, <2>1, <2>2 DEF TablesAreTyped
<1>4. Called
  BY DEF Called
<1> QED
  BY <1>2, <1>3, <1>4, StepKeepsInvariant

(***************************************************************************)
(* A settlement that moves without being quoted or authorized.             *)
(***************************************************************************)
LEMMA MoveKeepsInvariant ==
  ASSUME PreparationIInv, NEW s \in Settlements, NEW new,
         row' = [row EXCEPT ![s] = new], "status" \in DOMAIN new,
         row[s].status \notin {"NONE", "AUTHORIZED"},
         new.status \in {"PREFLIGHTING", "ACTION_REQUIRED", "READY", "CANCELLED"},
         UNCHANGED <<instruction, quotes, destination, calls>>
  PROVE  PreparationIInv' /\ Kept /\ Called
<1>0. TablesAreTyped
  BY DEF PreparationIInv
<1>1. \A t \in Settlements : row'[t] = IF t = s THEN new ELSE row[t]
  BY <1>0 DEF TablesAreTyped
<1>2. Kept
  BY <1>1 DEF Kept, QuotesAreKept, SettlementsAreKept, VerificationsAreKept
<1>3. TablesAreTyped'
  <2>1. \A t \in Settlements : RowIsTyped(t)'
    BY <1>0, <1>1 DEF TablesAreTyped, RowIsTyped
  <2>2. \A q \in Quotes : QuoteIsPriced(q)'
    BY <1>0 DEF TablesAreTyped, QuoteIsPriced
  <2> QED
    BY <1>0, <2>1, <2>2 DEF TablesAreTyped
<1>4. Called
  BY <1>1 DEF Called
<1> QED
  BY <1>1, <1>2, <1>3, <1>4, StepKeepsInvariant

(***************************************************************************)
(* T01 writes the row and a fresh instruction.                             *)
(***************************************************************************)
LEMMA CreateKeepsInvariant ==
  ASSUME PreparationIInv, NEW s \in Settlements, NEW request \in Requests,
         createSettlementHandler(s, request)
  PROVE  PreparationIInv' /\ Kept /\ Called
<1>0. TablesAreTyped
  BY DEF PreparationIInv
<1> DEFINE new == [NoInstruction EXCEPT !.amount = request.amount, !.purpose = request.purpose,
                                        !.creator = request.creator, !.named = request.named]
<1>1. /\ row[s].status = "NONE"
      /\ row' = [row EXCEPT ![s].status = "DRAFT"]
      /\ instruction' = [instruction EXCEPT ![s] = new]
      /\ UNCHANGED <<quotes, destination, calls>>
  BY DEF createSettlementHandler, createSettlement
<1>2. DOMAIN new = DOMAIN NoInstruction /\ new.quote = NONE /\ new.terms = NoTerms
  BY DEF NoInstruction
<1> HIDE DEF new
<1>3. /\ \A t \in Settlements \ {s} : row'[t] = row[t] /\ instruction'[t] = instruction[t]
      /\ row'[s].status = "DRAFT" /\ "status" \in DOMAIN row'[s] /\ instruction'[s] = new
  BY <1>0, <1>1 DEF TablesAreTyped, RowIsTyped
<1>4. Kept
  BY <1>1, <1>3 DEF Kept, QuotesAreKept, SettlementsAreKept, VerificationsAreKept
<1>5. TablesAreTyped'
  <2>1. \A t \in Settlements : RowIsTyped(t)'
    <3>1. RowIsTyped(s)'
      BY <1>2, <1>3 DEF RowIsTyped
    <3>2. \A t \in Settlements \ {s} : RowIsTyped(t)'
      BY <1>0, <1>3 DEF TablesAreTyped, RowIsTyped
    <3> QED
      BY <3>1, <3>2
  <2>2. \A q \in Quotes : QuoteIsPriced(q)'
    BY <1>0, <1>1 DEF TablesAreTyped, QuoteIsPriced
  <2> QED
    BY <1>0, <1>1, <2>1, <2>2 DEF TablesAreTyped
<1>6. Called
  BY <1>1, <1>3 DEF Called
<1> QED
  BY <1>1, <1>3, <1>4, <1>5, <1>6, StepKeepsInvariant

(***************************************************************************)
(* Q01 prices a new quote.                                                 *)
(***************************************************************************)
LEMMA CreateQuoteKeepsInvariant ==
  ASSUME PreparationIInv, NEW q \in Quotes, NEW direction, NEW amount \in QuoteAmounts,
         createQuote(q, direction, amount)
  PROVE  PreparationIInv' /\ Kept /\ Called
<1>0. TablesAreTyped
  BY DEF PreparationIInv
<1>1. PICK price : price = priceQuote(direction, amount)
  OBVIOUS
<1> DEFINE new == [status |-> "ACTIVE", direction |-> direction, recipient |-> price.recipient,
                   funding |-> price.funding, fees |-> price.fees,
                   expiresAt |-> clock + QuoteTTL, consumedBy |-> NONE]
<1>2. /\ quotes[q].status = "NONE"
      /\ quotes' = [quotes EXCEPT ![q] = new]
      /\ UNCHANGED <<row, instruction, destination, calls>>
  BY <1>1 DEF createQuote
<1>3. \A p \in Quotes : quotes'[p] = IF p = q THEN new ELSE quotes[p]
  BY <1>0, <1>2 DEF TablesAreTyped
<1>4. /\ PriceIsExact(direction, price)
      /\ price.fees = computeFees(price.funding)
  BY <1>1, PricesAreExact, PreparationAssumption
<1>5. /\ DOMAIN new = DOMAIN NoQuote /\ new.status = "ACTIVE" /\ new.consumedBy = NONE
      /\ new.direction = direction /\ new.funding = price.funding /\ new.recipient = price.recipient
      /\ new.fees = price.fees
  BY DEF NoQuote
<1> HIDE DEF new
<1>6. PriceIsExact(new.direction, new) /\ new.fees = computeFees(new.funding)
  BY <1>4, <1>5 DEF PriceIsExact
<1>7. Kept
  BY <1>2, <1>3 DEF Kept, QuotesAreKept, SettlementsAreKept, VerificationsAreKept
<1>8. TablesAreTyped'
  <2>1. \A t \in Settlements : RowIsTyped(t)'
    BY <1>0, <1>2 DEF TablesAreTyped, RowIsTyped
  <2>2. \A p \in Quotes : QuoteIsPriced(p)'
    BY <1>0, <1>3, <1>5, <1>6 DEF TablesAreTyped, QuoteIsPriced
  <2> QED
    BY <1>0, <1>2, <2>1, <2>2 DEF TablesAreTyped
<1>9. Called
  BY <1>2 DEF Called
<1> QED
  BY <1>2, <1>3, <1>5, <1>7, <1>8, <1>9, StepKeepsInvariant

(***************************************************************************)
(* transitionQuote keeps the price and the end of a quote.                 *)
(***************************************************************************)
LEMMA TransitionedQuote ==
  ASSUME NEW old, DOMAIN old = DOMAIN NoQuote, NEW trigger, NEW consumer,
         old.status \in {"NONE", "ACTIVE", "LOCKED", "CONSUMED", "EXPIRED"}
  PROVE  LET new == transitionQuote(old, trigger, consumer)
         IN  /\ DOMAIN new = DOMAIN NoQuote
             /\ \A column \in {"direction", "recipient", "funding", "fees"} :
                  new[column] = old[column]
             /\ trigger = "lock" =>
                  /\ new.status = IF old.status = "ACTIVE" THEN "LOCKED" ELSE old.status
                  /\ new.consumedBy = old.consumedBy
             /\ trigger = "expire" =>
                  /\ new.status = IF old.status \in {"ACTIVE", "LOCKED"} THEN "EXPIRED"
                                                                        ELSE old.status
                  /\ new.consumedBy = old.consumedBy
             /\ trigger = "consume" =>
                  IF old.status \in {"ACTIVE", "LOCKED"}
                    THEN new.status = "CONSUMED" /\ new.consumedBy = consumer
                    ELSE new.status = old.status /\ new.consumedBy = old.consumedBy
<1>1. /\ \A column \in {"status", "direction", "recipient", "funding", "fees", "consumedBy"} :
           column \in DOMAIN old
  BY DEF NoQuote
<1>2. CASE QuoteRefused(old, trigger)
  <2>1. transitionQuote(old, trigger, consumer) = old
    BY <1>2 DEF transitionQuote
  <2>2. /\ trigger = "lock" => old.status # "ACTIVE"
        /\ trigger \in {"expire", "consume"} => old.status \notin {"ACTIVE", "LOCKED"}
    BY <1>2 DEF QuoteRefused, QuoteTransitions
  <2> QED
    BY <2>1, <2>2
<1>3. CASE ~QuoteRefused(old, trigger)
  <2>1. PICK t : t = CHOOSE u \in QuoteTransitions : u.trigger = trigger /\ old.status \in u.from
    OBVIOUS
  <2>2. t \in QuoteTransitions /\ t.trigger = trigger /\ old.status \in t.from
    BY <1>3, <2>1 DEF QuoteRefused
  <2>3. /\ trigger = "lock" => old.status = "ACTIVE" /\ t.to = "LOCKED"
        /\ trigger = "expire" => old.status \in {"ACTIVE", "LOCKED"} /\ t.to = "EXPIRED"
        /\ trigger = "consume" => old.status \in {"ACTIVE", "LOCKED"} /\ t.to = "CONSUMED"
    BY <2>2 DEF QuoteTransitions
  <2>4. transitionQuote(old, trigger, consumer) =
          [old EXCEPT !.status = t.to,
                      !.consumedBy = IF t.to = "CONSUMED" THEN consumer ELSE @]
    BY <1>3, <2>1 DEF transitionQuote
  <2> QED
    BY <1>1, <2>3, <2>4
<1> QED
  BY <1>2, <1>3

(***************************************************************************)
(* A quote that is locked, or expired, or consumed, stays priced.          *)
(***************************************************************************)
LEMMA TransitionedIsPriced ==
  ASSUME TablesAreTyped, NEW q \in Quotes, NEW trigger \in {"lock", "expire", "consume"},
         NEW consumer, trigger = "consume" => consumer # NONE,
         quotes' = [quotes EXCEPT ![q] = transitionQuote(@, trigger, consumer)]
  PROVE  /\ DOMAIN quotes' = Quotes
         /\ \A p \in Quotes : QuoteIsPriced(p)'
         /\ QuotesAreKept
         /\ \A p \in Quotes \ {q} : quotes'[p] = quotes[p]
         /\ quotes'[q] = transitionQuote(quotes[q], trigger, consumer)
<1>1. /\ DOMAIN quotes' = Quotes
      /\ \A p \in Quotes \ {q} : quotes'[p] = quotes[p]
      /\ quotes'[q] = transitionQuote(quotes[q], trigger, consumer)
  BY DEF TablesAreTyped
<1>2. PICK old : old = quotes[q]
  OBVIOUS
<1>3. PICK new : new = transitionQuote(old, trigger, consumer)
  OBVIOUS
<1>4. /\ DOMAIN old = DOMAIN NoQuote
      /\ old.status \in {"NONE", "ACTIVE", "LOCKED", "CONSUMED", "EXPIRED"}
      /\ old.status = "CONSUMED" <=> old.consumedBy # NONE
      /\ old.status # "NONE" => /\ PriceIsExact(old.direction, old)
                                /\ old.fees = computeFees(old.funding)
  BY <1>2 DEF TablesAreTyped, QuoteIsPriced
<1>5. /\ DOMAIN new = DOMAIN NoQuote
      /\ new.direction = old.direction /\ new.recipient = old.recipient
      /\ new.funding = old.funding /\ new.fees = old.fees
  BY <1>3, <1>4, TransitionedQuote
<1>6. /\ new.status \in {"NONE", "ACTIVE", "LOCKED", "CONSUMED", "EXPIRED"}
      /\ new.status = "CONSUMED" <=> new.consumedBy # NONE
      /\ new.status = "NONE" <=> old.status = "NONE"
      /\ old.status \in {"CONSUMED", "EXPIRED"} =>
           new.status = old.status /\ new.consumedBy = old.consumedBy
  BY <1>3, <1>4, TransitionedQuote
<1>7. PriceIsExact(old.direction, old) => PriceIsExact(new.direction, new)
  BY <1>5 DEF PriceIsExact
<1>8. quotes'[q] = new
  BY <1>1, <1>2, <1>3
<1>9. \A p \in Quotes : QuoteIsPriced(p)'
  <2>1. QuoteIsPriced(q)'
    BY <1>4, <1>5, <1>6, <1>7, <1>8 DEF QuoteIsPriced
  <2>2. \A p \in Quotes \ {q} : QuoteIsPriced(p)'
    BY <1>1 DEF TablesAreTyped, QuoteIsPriced
  <2> QED
    BY <2>1, <2>2
<1>10. QuotesAreKept
  BY <1>1, <1>2, <1>5, <1>6, <1>8 DEF QuotesAreKept
<1> QED
  BY <1>1, <1>9, <1>10

(***************************************************************************)
(* Q04, by the sweep.                                                      *)
(***************************************************************************)
LEMMA SweepKeepsInvariant ==
  ASSUME PreparationIInv, expireDueQuotes
  PROVE  PreparationIInv' /\ Kept /\ Called
<1>0. TablesAreTyped
  BY DEF PreparationIInv
<1>1. /\ quotes' = [q \in Quotes |-> IF q \in Due THEN [quotes[q] EXCEPT !.status = "EXPIRED"]
                                                  ELSE quotes[q]]
      /\ UNCHANGED <<row, instruction, destination, calls>>
  BY DEF expireDueQuotes
<1>2. \A q \in Due : q \in Quotes /\ quotes[q].status \in {"ACTIVE", "LOCKED"}
  BY DEF Due
<1>3. DOMAIN quotes' = Quotes /\ \A q \in Quotes \ Due : quotes'[q] = quotes[q]
  BY <1>1
<1>4. \A q \in Due : /\ DOMAIN quotes'[q] = DOMAIN NoQuote /\ quotes'[q].status = "EXPIRED"
                     /\ quotes'[q].consumedBy = quotes[q].consumedBy
                     /\ quotes'[q].direction = quotes[q].direction
                     /\ quotes'[q].recipient = quotes[q].recipient
                     /\ quotes'[q].funding = quotes[q].funding
                     /\ quotes'[q].fees = quotes[q].fees
  BY <1>0, <1>1, <1>2 DEF TablesAreTyped, QuoteIsPriced, NoQuote
<1>5. Kept
  BY <1>1, <1>2, <1>3, <1>4 DEF Kept, QuotesAreKept, SettlementsAreKept, VerificationsAreKept
<1>6. TablesAreTyped'
  <2>1. \A t \in Settlements : RowIsTyped(t)'
    BY <1>0, <1>1 DEF TablesAreTyped, RowIsTyped
  <2>2. \A q \in Quotes \ Due : QuoteIsPriced(q)'
    BY <1>0, <1>3 DEF TablesAreTyped, QuoteIsPriced
  <2>3. ASSUME NEW q \in Due PROVE QuoteIsPriced(q)'
    <3>1. quotes[q].consumedBy = NONE
      BY <1>0, <1>2 DEF TablesAreTyped, QuoteIsPriced
    <3>2. /\ PriceIsExact(quotes[q].direction, quotes[q])
          /\ quotes[q].fees = computeFees(quotes[q].funding)
      BY <1>0, <1>2 DEF TablesAreTyped, QuoteIsPriced
    <3>3. PriceIsExact(quotes'[q].direction, quotes'[q])
      BY <1>4, <3>2 DEF PriceIsExact
    <3> QED
      BY <1>4, <3>1, <3>2, <3>3 DEF QuoteIsPriced
  <2> QED
    BY <1>0, <1>1, <1>3, <2>1, <2>2, <2>3 DEF TablesAreTyped
<1>7. \A q \in Quotes : quotes'[q].status = "CONSUMED" => quotes[q].status = "CONSUMED"
  BY <1>3, <1>4
<1>8. Called
  BY <1>1 DEF Called
<1> QED
  BY <1>1, <1>5, <1>6, <1>7, <1>8, StepKeepsInvariant

(***************************************************************************)
(* A call that starts is one more call; its number does not matter.        *)
(***************************************************************************)
LEMMA StartedCall ==
  ASSUME PreparationIInv, NEW call, StartCall(call),
         \A n : CallIsSound([call EXCEPT !.no = n]),
         \A n : LET c == [call EXCEPT !.no = n]
                IN  c.op = "authorize" /\ policy =>
                      c.frozen.by \in People \ {instruction[c.settlement].creator},
         UNCHANGED <<row, instruction, quotes, destination>>
  PROVE  PreparationIInv' /\ Kept /\ Called
<1>0. TablesAreTyped
  BY DEF PreparationIInv
<1>1. PICK n : calls' = calls \cup {[call EXCEPT !.no = n]}
  BY DEF StartCall
<1>2. Kept
  BY DEF Kept, QuotesAreKept, SettlementsAreKept, VerificationsAreKept
<1>3. TablesAreTyped'
  <2>1. \A t \in Settlements : RowIsTyped(t)'
    BY <1>0 DEF TablesAreTyped, RowIsTyped
  <2>2. \A q \in Quotes : QuoteIsPriced(q)'
    BY <1>0 DEF TablesAreTyped, QuoteIsPriced
  <2> QED
    BY <1>0, <2>1, <2>2 DEF TablesAreTyped
<1>4. \A c : CallIsSound(c) => CallIsSound(c)'
  BY DEF CallIsSound, TermsAreFrozen
<1>5. \A c \in calls' : c \in calls \/ CallIsSound(c)'
  BY <1>1, <1>4
<1>6. Called
  BY <1>1 DEF Called
<1> QED
  BY <1>2, <1>3, <1>5, <1>6, StepKeepsInvariant

(***************************************************************************)
(* The unlocked reads of attachQuote and expireAttachedQuote.              *)
(***************************************************************************)
LEMMA ReadsKeepInvariant ==
  ASSUME PreparationIInv, NEW s \in Settlements,
         (\E q \in Quotes : readForAttach(s, q)) \/ readForExpiry(s)
  PROVE  PreparationIInv' /\ Kept /\ Called
<1>0. TablesAreTyped
  BY DEF PreparationIInv
<1>1. ASSUME NEW q \in Quotes, readForAttach(s, q) PROVE PreparationIInv' /\ Kept /\ Called
  <2> DEFINE call == [no |-> 0, op |-> "attach", settlement |-> s, quote |-> q]
  <2>1. StartCall(call) /\ row[s].status # "NONE" /\ UNCHANGED <<row, instruction, quotes, destination>>
    BY <1>1 DEF readForAttach
  <2>2. \A n : /\ CallIsSound([call EXCEPT !.no = n])
               /\ [call EXCEPT !.no = n].op = "attach"
    BY <2>1 DEF CallIsSound
  <2> HIDE DEF call
  <2> QED
    BY <2>1, <2>2, StartedCall
<1>2. ASSUME readForExpiry(s) PROVE PreparationIInv' /\ Kept /\ Called
  <2>1. PICK q : q = instruction[s].quote
    OBVIOUS
  <2> DEFINE call == [no |-> 0, op |-> "expire", settlement |-> s, quote |-> q]
  <2>2. StartCall(call) /\ row[s].status = "QUOTED" /\ UNCHANGED <<row, instruction, quotes, destination>>
    BY <1>2, <2>1 DEF readForExpiry
  <2>3. q \in Quotes
    BY <1>0, <2>1, <2>2 DEF TablesAreTyped, RowIsTyped
  <2>4. \A n : /\ CallIsSound([call EXCEPT !.no = n])
               /\ [call EXCEPT !.no = n].op = "expire"
    BY <2>2, <2>3 DEF CallIsSound
  <2> HIDE DEF call
  <2> QED
    BY <2>2, <2>4, StartedCall
<1> QED
  BY <1>1, <1>2

(***************************************************************************)
(* The unlocked reads of authorizeSettlement: what they accept is exact,   *)
(* verified and judged, and it is frozen with its digest.                  *)
(***************************************************************************)
LEMMA AuthorizationReadKeepsInvariant ==
  ASSUME PreparationIInv, NEW s \in Settlements, NEW actor \in Principals,
         NEW via \in {"api", "batch"}, NEW facility,
         readForAuthorization(s, actor, via, facility)
  PROVE  PreparationIInv' /\ Kept /\ Called
<1>0. TablesAreTyped
  BY DEF PreparationIInv
<1>1. PICK i : i = freezeInstruction(s)
  OBVIOUS
<1>2. PICK stored : stored = canonicalInstructionObject(i)
  OBVIOUS
<1>3. PICK hash : hash = authorizedTermsHash(i)
  OBVIOUS
<1> DEFINE frozen == [stored |-> stored, hash |-> hash, by |-> actor, via |-> via]
           call == [no |-> 0, op |-> "authorize", settlement |-> s, frozen |-> frozen]
<1>4. /\ instruction[s].quote # NONE /\ quoteValid(s) /\ destinationVerified
      /\ evaluateSeparationOfDuties(s, actor)
      /\ StartCall(call)
      /\ UNCHANGED <<row, instruction, quotes, destination>>
  BY <1>1, <1>2, <1>3 DEF readForAuthorization
<1>5. PICK q \in Quotes : q = instruction[s].quote
  BY <1>0, <1>4 DEF TablesAreTyped, RowIsTyped
<1>6. /\ quotes[q].status \in {"ACTIVE", "LOCKED"}
      /\ quotes[q].recipient = instruction[s].amount
  BY <1>4, <1>5 DEF quoteValid
<1>7. row[s].status # "NONE"
  BY <1>0, <1>4 DEF TablesAreTyped, RowIsTyped
<1>8. /\ PriceIsExact(quotes[q].direction, quotes[q])
      /\ quotes[q].fees = computeFees(quotes[q].funding)
  BY <1>0, <1>6 DEF TablesAreTyped, QuoteIsPriced
<1>9. /\ destination.current \in Versions
      /\ destination.verification[destination.current] = "verified"
  BY <1>0, <1>4, PreparationAssumption DEF TablesAreTyped, destinationVerified, Versions
<1>10. i = [quote |-> q, recipient |-> quotes[q].recipient, funding |-> quotes[q].funding,
            direction |-> quotes[q].direction, fees |-> quotes[q].fees,
            version |-> destination.current]
  BY <1>1, <1>5 DEF freezeInstruction
<1>11. /\ i = [column \in DOMAIN i |-> i[column]]
       /\ "fees" \in DOMAIN i /\ i.fees = computeFees(i.funding)
  BY <1>8, <1>10
<1>12. instructionMatchesHash(stored, hash)
  BY <1>2, <1>3, <1>11, StoredMatchesHash
<1>13. PICK fees : stored = [i EXCEPT !.fees = fees]
  BY <1>2 DEF canonicalInstructionObject
<1>14. /\ stored.quote = q /\ stored.recipient = quotes[q].recipient
       /\ stored.funding = quotes[q].funding /\ stored.direction = quotes[q].direction
       /\ stored.version = destination.current
  BY <1>10, <1>13
<1>15. PriceIsExact(stored.direction, stored)
  BY <1>8, <1>14 DEF PriceIsExact
<1>16. TermsAreFrozen(s, frozen)
  <2>1. frozen.stored = stored /\ frozen.hash = hash /\ frozen.by = actor /\ frozen.via = via
    OBVIOUS
  <2> HIDE DEF frozen
  <2> QED
    BY <1>6, <1>9, <1>12, <1>14, <1>15, <2>1 DEF TermsAreFrozen
<1>17. policy => actor \in People \ {instruction[s].creator}
  BY <1>4 DEF evaluateSeparationOfDuties
<1>18. frozen.by = actor
  OBVIOUS
<1> HIDE DEF frozen
<1>19. \A n : LET c == [call EXCEPT !.no = n]
              IN  c.op = "authorize" /\ c.settlement = s /\ c.frozen = frozen
  OBVIOUS
<1> HIDE DEF call
<1>20. \A n : CallIsSound([call EXCEPT !.no = n])
  BY <1>7, <1>16, <1>19 DEF CallIsSound
<1>21. \A n : LET c == [call EXCEPT !.no = n]
              IN  c.op = "authorize" /\ policy =>
                    c.frozen.by \in People \ {instruction[c.settlement].creator}
  BY <1>17, <1>18, <1>19
<1> QED
  BY <1>4, <1>20, <1>21, StartedCall

(***************************************************************************)
(* T06: whatever became of the quote since it was read, locking it takes   *)
(* nothing back.                                                           *)
(***************************************************************************)
LEMMA AttachKeepsInvariant ==
  ASSUME PreparationIInv, NEW call \in calls, call.op = "attach", attachQuote(call)
  PROVE  PreparationIInv' /\ Kept /\ Called
<1>0. TablesAreTyped /\ CallIsSound(call)
  BY DEF PreparationIInv
<1>1. PICK s \in Settlements, q \in Quotes : s = call.settlement /\ q = call.quote
  BY <1>0 DEF CallIsSound
<1>2. calls' \subseteq calls /\ UNCHANGED destination
  BY DEF attachQuote
<1>3. CASE UNCHANGED <<row, instruction, quotes>>
  <2>1. Kept /\ Called
    BY <1>2, <1>3 DEF Kept, QuotesAreKept, SettlementsAreKept, VerificationsAreKept, Called
  <2>2. TablesAreTyped'
    BY <1>0, <1>2, <1>3 DEF TablesAreTyped, RowIsTyped, QuoteIsPriced
  <2> QED
    BY <1>2, <1>3, <2>1, <2>2, StepKeepsInvariant
<1>4. CASE ~UNCHANGED <<row, instruction, quotes>>
  <2>1. PICK new : new = Moved(s, "attach_quote", {"quote_attachable"})
    OBVIOUS
  <2>2. /\ Moves(s, "attach_quote", {"quote_attachable"})
        /\ row' = [row EXCEPT ![s] = new]
        /\ instruction' = [instruction EXCEPT ![s].quote = q]
        /\ quotes' = [quotes EXCEPT ![q] = transitionQuote(@, "lock", NONE)]
    BY <1>1, <1>4, <2>1 DEF attachQuote
  <2>3. "status" \in DOMAIN new /\ row[s].status = "READY" /\ new.status = "QUOTED"
    BY <2>1, <2>2, MovedStatus
  <2>4. /\ DOMAIN quotes' = Quotes /\ \A p \in Quotes : QuoteIsPriced(p)'
        /\ QuotesAreKept
        /\ \A p \in Quotes \ {q} : quotes'[p] = quotes[p]
        /\ quotes'[q] = transitionQuote(quotes[q], "lock", NONE)
    BY <1>0, <2>2, TransitionedIsPriced
  <2>5. quotes'[q].status = "CONSUMED" => quotes[q].status = "CONSUMED"
    BY <1>0, <2>4, TransitionedQuote DEF TablesAreTyped, QuoteIsPriced
  <2>6. /\ DOMAIN row' = Settlements /\ DOMAIN instruction' = Settlements
        /\ \A t \in Settlements \ {s} : row'[t] = row[t] /\ instruction'[t] = instruction[t]
        /\ row'[s] = new /\ instruction'[s] = [instruction[s] EXCEPT !.quote = q]
    BY <1>0, <2>2 DEF TablesAreTyped
  <2>7. /\ DOMAIN instruction'[s] = DOMAIN NoInstruction /\ instruction'[s].quote = q
        /\ instruction'[s].amount = instruction[s].amount
        /\ instruction'[s].creator = instruction[s].creator
        /\ instruction'[s].terms = instruction[s].terms
    BY <1>0, <2>6 DEF TablesAreTyped, RowIsTyped, NoInstruction
  <2>8. Kept
    BY <1>2, <2>3, <2>4, <2>6, <2>7 DEF Kept, SettlementsAreKept, VerificationsAreKept
  <2>9. TablesAreTyped'
    <3>1. RowIsTyped(s)'
      <4>1. instruction[s].terms = NoTerms
        BY <1>0, <2>3 DEF TablesAreTyped, RowIsTyped
      <4>2. q # NONE
        BY PreparationAssumption
      <4> QED
        BY <2>3, <2>6, <2>7, <4>1, <4>2 DEF RowIsTyped
    <3>2. \A t \in Settlements \ {s} : RowIsTyped(t)'
      BY <1>0, <2>6 DEF TablesAreTyped, RowIsTyped
    <3> QED
      BY <1>0, <1>2, <2>4, <2>6, <3>1, <3>2 DEF TablesAreTyped
  <2>10. \A t \in Settlements : row'[t].status = "AUTHORIZED" => row[t].status = "AUTHORIZED"
    BY <2>3, <2>6
  <2>11. \A p \in Quotes : quotes'[p].status = "CONSUMED" => quotes[p].status = "CONSUMED"
    BY <2>4, <2>5
  <2>12. Called
    BY <1>2, <2>10 DEF Called
  <2> QED
    BY <1>2, <2>8, <2>9, <2>10, <2>11, <2>12, StepKeepsInvariant
<1> QED
  BY <1>3, <1>4

(***************************************************************************)
(* T07: the settlement loses whatever quote it cites by now, and the quote *)
(* that was read is expired.                                               *)
(***************************************************************************)
LEMMA ExpireKeepsInvariant ==
  ASSUME PreparationIInv, NEW call \in calls, call.op = "expire", expireAttachedQuote(call)
  PROVE  PreparationIInv' /\ Kept /\ Called
<1>0. TablesAreTyped /\ CallIsSound(call)
  BY DEF PreparationIInv
<1>1. PICK s \in Settlements, q \in Quotes : s = call.settlement /\ q = call.quote
  BY <1>0 DEF CallIsSound
<1>2. calls' \subseteq calls /\ UNCHANGED destination
  BY DEF expireAttachedQuote
<1>3. CASE UNCHANGED <<row, instruction, quotes>>
  <2>1. Kept /\ Called
    BY <1>2, <1>3 DEF Kept, QuotesAreKept, SettlementsAreKept, VerificationsAreKept, Called
  <2>2. TablesAreTyped'
    BY <1>0, <1>2, <1>3 DEF TablesAreTyped, RowIsTyped, QuoteIsPriced
  <2> QED
    BY <1>2, <1>3, <2>1, <2>2, StepKeepsInvariant
<1>4. CASE ~UNCHANGED <<row, instruction, quotes>>
  <2>1. PICK new : new = Moved(s, "quote_expired", {"quote_expired_by_server_clock"})
    OBVIOUS
  <2>2. /\ Moves(s, "quote_expired", {"quote_expired_by_server_clock"})
        /\ row' = [row EXCEPT ![s] = new]
        /\ instruction' = [instruction EXCEPT ![s].quote = NONE]
        /\ quotes' = [quotes EXCEPT ![q] = transitionQuote(@, "expire", NONE)]
    BY <1>1, <1>4, <2>1 DEF expireAttachedQuote
  <2>3. "status" \in DOMAIN new /\ row[s].status = "QUOTED" /\ new.status = "READY"
    BY <2>1, <2>2, MovedStatus
  <2>4. /\ DOMAIN quotes' = Quotes /\ \A p \in Quotes : QuoteIsPriced(p)'
        /\ QuotesAreKept
        /\ \A p \in Quotes \ {q} : quotes'[p] = quotes[p]
        /\ quotes'[q] = transitionQuote(quotes[q], "expire", NONE)
    BY <1>0, <2>2, TransitionedIsPriced
  <2>5. quotes'[q].status = "CONSUMED" => quotes[q].status = "CONSUMED"
    BY <1>0, <2>4, TransitionedQuote DEF TablesAreTyped, QuoteIsPriced
  <2>6. /\ DOMAIN row' = Settlements /\ DOMAIN instruction' = Settlements
        /\ \A t \in Settlements \ {s} : row'[t] = row[t] /\ instruction'[t] = instruction[t]
        /\ row'[s] = new /\ instruction'[s] = [instruction[s] EXCEPT !.quote = NONE]
    BY <1>0, <2>2 DEF TablesAreTyped
  <2>7. /\ DOMAIN instruction'[s] = DOMAIN NoInstruction /\ instruction'[s].quote = NONE
        /\ instruction'[s].amount = instruction[s].amount
        /\ instruction'[s].creator = instruction[s].creator
        /\ instruction'[s].terms = instruction[s].terms
    BY <1>0, <2>6 DEF TablesAreTyped, RowIsTyped, NoInstruction
  <2>8. Kept
    BY <1>2, <2>3, <2>4, <2>6, <2>7 DEF Kept, SettlementsAreKept, VerificationsAreKept
  <2>9. TablesAreTyped'
    <3>1. RowIsTyped(s)'
      <4>1. instruction[s].terms = NoTerms
        BY <1>0, <2>3 DEF TablesAreTyped, RowIsTyped
      <4> QED
        BY <2>3, <2>6, <2>7, <4>1 DEF RowIsTyped
    <3>2. \A t \in Settlements \ {s} : RowIsTyped(t)'
      BY <1>0, <2>6 DEF TablesAreTyped, RowIsTyped
    <3> QED
      BY <1>0, <1>2, <2>4, <2>6, <3>1, <3>2 DEF TablesAreTyped
  <2>10. \A t \in Settlements : row'[t].status = "AUTHORIZED" => row[t].status = "AUTHORIZED"
    BY <2>3, <2>6
  <2>11. \A p \in Quotes : quotes'[p].status = "CONSUMED" => quotes[p].status = "CONSUMED"
    BY <2>4, <2>5
  <2>12. Called
    BY <1>2, <2>10 DEF Called
  <2> QED
    BY <1>2, <2>8, <2>9, <2>10, <2>11, <2>12, StepKeepsInvariant
<1> QED
  BY <1>3, <1>4

(***************************************************************************)
(* T08 and the consumption: the settlement gets the terms of the call, and *)
(* the quote they name is consumed by it, or the call is a batch's and the *)
(* quote had reached its end before.                                       *)
(***************************************************************************)
LEMMA AuthorizeKeepsInvariant ==
  ASSUME PreparationIInv, NEW call \in calls, call.op = "authorize", authorizeSettlement(call)
  PROVE  PreparationIInv' /\ Kept /\ Called
<1>0. TablesAreTyped /\ CallIsSound(call)
  BY DEF PreparationIInv
<1>1. PICK s \in Settlements : s = call.settlement
  BY <1>0 DEF CallIsSound
<1>2. PICK frozen : frozen = call.frozen
  OBVIOUS
<1>3. row[s].status # "NONE" /\ TermsAreFrozen(s, frozen)
  BY <1>0, <1>1, <1>2 DEF CallIsSound
<1>4. PICK q \in Quotes : q = frozen.stored.quote
  BY <1>3 DEF TermsAreFrozen
<1>5. calls' \subseteq calls /\ UNCHANGED destination
  BY DEF authorizeSettlement
<1>6. CASE UNCHANGED <<row, instruction, quotes>>
  <2>1. Kept /\ Called
    BY <1>5, <1>6 DEF Kept, QuotesAreKept, SettlementsAreKept, VerificationsAreKept, Called
  <2>2. TablesAreTyped'
    BY <1>0, <1>5, <1>6 DEF TablesAreTyped, RowIsTyped, QuoteIsPriced
  <2> QED
    BY <1>5, <1>6, <2>1, <2>2, StepKeepsInvariant
<1>7. CASE ~UNCHANGED <<row, instruction, quotes>>
  <2>1. PICK new : new = Moved(s, "authorize", AuthorizationAnswers)
    OBVIOUS
  <2>2. /\ Moves(s, "authorize", AuthorizationAnswers)
        /\ QuoteRefused(quotes[q], "consume") => frozen.via # "api"
        /\ row' = [row EXCEPT ![s] = new]
        /\ instruction' = [instruction EXCEPT ![s].terms = frozen]
        /\ quotes' = [quotes EXCEPT ![q] = transitionQuote(@, "consume", s)]
    BY <1>1, <1>2, <1>4, <1>7, <2>1 DEF authorizeSettlement, frozenAsRead, commitsRefusal
  <2>3. "status" \in DOMAIN new /\ row[s].status = "QUOTED" /\ new.status = "AUTHORIZED"
    BY <2>1, <2>2, MovedStatus
  <2>4. s # NONE
    BY PreparationAssumption
  <2>5. /\ DOMAIN quotes' = Quotes /\ \A p \in Quotes : QuoteIsPriced(p)'
        /\ QuotesAreKept
        /\ \A p \in Quotes \ {q} : quotes'[p] = quotes[p]
        /\ quotes'[q] = transitionQuote(quotes[q], "consume", s)
    BY <1>0, <2>2, <2>4, TransitionedIsPriced
  <2>6. IF quotes[q].status \in {"ACTIVE", "LOCKED"}
          THEN quotes'[q].status = "CONSUMED" /\ quotes'[q].consumedBy = s
          ELSE quotes'[q].status = quotes[q].status /\ quotes'[q].consumedBy = quotes[q].consumedBy
    BY <1>0, <2>5, TransitionedQuote DEF TablesAreTyped, QuoteIsPriced
  <2>7. /\ DOMAIN row' = Settlements /\ DOMAIN instruction' = Settlements
        /\ \A t \in Settlements \ {s} : row'[t] = row[t] /\ instruction'[t] = instruction[t]
        /\ row'[s] = new /\ instruction'[s] = [instruction[s] EXCEPT !.terms = frozen]
    BY <1>0, <2>2 DEF TablesAreTyped
  <2>8. /\ DOMAIN instruction'[s] = DOMAIN NoInstruction /\ instruction'[s].terms = frozen
        /\ instruction'[s].amount = instruction[s].amount
        /\ instruction'[s].creator = instruction[s].creator
        /\ instruction'[s].quote = instruction[s].quote
    BY <1>0, <2>7 DEF TablesAreTyped, RowIsTyped, NoInstruction
  <2>9. Kept
    BY <1>5, <2>3, <2>5, <2>7, <2>8 DEF Kept, SettlementsAreKept, VerificationsAreKept
  <2>10. TablesAreTyped'
    <3>1. RowIsTyped(s)'
      <4>1. frozen # NoTerms
        BY <1>3 DEF TermsAreFrozen, NoTerms
      <4>2. instruction[s].quote \in Quotes \cup {NONE}
        BY <1>0 DEF TablesAreTyped, RowIsTyped
      <4> QED
        BY <2>3, <2>7, <2>8, <4>1, <4>2 DEF RowIsTyped
    <3>2. \A t \in Settlements \ {s} : RowIsTyped(t)'
      BY <1>0, <2>7 DEF TablesAreTyped, RowIsTyped
    <3> QED
      BY <1>0, <1>5, <2>5, <2>7, <3>1, <3>2 DEF TablesAreTyped
  <2>11. TermsAreFrozen(s, instruction[s].terms)'
    <3>1. TermsAreFrozen(s, frozen)'
      BY <1>3, <2>9, FrozenIsKept
    <3> QED
      BY <2>8, <3>1
  <2>12. QuoteIsSpent(s)'
    <3>1. instruction'[s].terms.stored.quote = q /\ instruction'[s].terms.via = frozen.via
      BY <1>4, <2>8
    <3>2. CASE quotes[q].status \in {"ACTIVE", "LOCKED"}
      BY <2>6, <3>1, <3>2 DEF QuoteIsSpent
    <3>3. CASE quotes[q].status \notin {"ACTIVE", "LOCKED"}
      <4>1. quotes[q].status \in {"CONSUMED", "EXPIRED"}
        BY <1>0, <1>3, <1>4, <3>3 DEF TablesAreTyped, QuoteIsPriced, TermsAreFrozen
      <4>2. QuoteRefused(quotes[q], "consume")
        BY <4>1 DEF QuoteRefused, QuoteTransitions
      <4>3. frozen.via = "batch"
        BY <1>3, <2>2, <4>2 DEF TermsAreFrozen
      <4> QED
        BY <2>6, <3>1, <3>3, <4>1, <4>3 DEF QuoteIsSpent
    <3> QED
      BY <3>2, <3>3
  <2>13. \A t \in Settlements : row'[t].status = "AUTHORIZED" /\ row[t].status # "AUTHORIZED" =>
           TermsAreFrozen(t, instruction[t].terms)' /\ QuoteIsSpent(t)'
    BY <2>7, <2>11, <2>12
  <2>14. \A p \in Quotes : quotes'[p].status = "CONSUMED" /\ quotes[p].status # "CONSUMED" =>
           ConsumerFroze(p)'
    <3>1. quotes'[q].status = "CONSUMED" /\ quotes[q].status # "CONSUMED" => ConsumerFroze(q)'
      BY <1>4, <2>3, <2>6, <2>7, <2>8 DEF ConsumerFroze, Authorized
    <3> QED
      BY <2>5, <3>1
  <2>15. Called
    <3>1. \A t \in Settlements : row'[t].status = "AUTHORIZED" /\ row[t].status # "AUTHORIZED" => t = s
      BY <2>7
    <3>2. call \in calls /\ call.op = "authorize" /\ call.settlement = s /\ instruction'[s].terms = call.frozen
      BY <1>1, <1>2, <2>8
    <3> QED
      BY <1>5, <3>1, <3>2 DEF Called
  <2> QED
    BY <1>5, <2>9, <2>10, <2>13, <2>14, <2>15, StepKeepsInvariant
<1> QED
  BY <1>6, <1>7

-----------------------------------------------------------------------------
(* The theorems *)

(***************************************************************************)
(* Init establishes the invariant.                                         *)
(***************************************************************************)
LEMMA InitIsSound == PreparationInit => PreparationIInv
<1> SUFFICES ASSUME PreparationInit PROVE PreparationIInv
  OBVIOUS
<1>1. \A s \in Settlements : RowIsTyped(s)
  BY DEF PreparationInit, RowIsTyped, NoRow, NoInstruction
<1>2. \A q \in Quotes : QuoteIsPriced(q) /\ quotes[q].status = "NONE"
  BY DEF PreparationInit, QuoteIsPriced, NoQuote
<1>3. TablesAreTyped
  BY <1>1, <1>2, PreparationAssumption DEF PreparationInit, TablesAreTyped
<1>4. Authorized = {}
  BY DEF PreparationInit, Authorized, NoRow
<1> QED
  BY <1>2, <1>3, <1>4 DEF PreparationInit, PreparationIInv, ConsumerFroze

(***************************************************************************)
(* Every step keeps the invariant and takes nothing back.                  *)
(***************************************************************************)
LEMMA NextIsSound ==
  ASSUME PreparationIInv, [PreparationNext]_prepVars
  PROVE  PreparationIInv' /\ Kept /\ Called
<1> DEFINE Goal == PreparationIInv' /\ Kept /\ Called
<1> SUFFICES Goal
  OBVIOUS
<1>1. CASE UNCHANGED prepVars
  BY <1>1, EnvironmentKeepsInvariant DEF prepVars
<1>2. ASSUME NEW q \in Quotes, NEW direction \in {"RECIPIENT_FIRST", "SOURCE_FIRST"},
             NEW a \in QuoteAmounts, createQuote(q, direction, a)
      PROVE  Goal
  BY <1>2, CreateQuoteKeepsInvariant
<1>3. CASE expireDueQuotes
  BY <1>3, SweepKeepsInvariant
<1>4. CASE tick
  BY <1>4, EnvironmentKeepsInvariant DEF tick
<1>5. CASE editDestination
  <2>1. UNCHANGED <<row, instruction, quotes, calls>>
    BY <1>5 DEF editDestination
  <2> QED
    BY <1>5, <2>1, EnvironmentKeepsInvariant
<1>6. ASSUME NEW v \in Versions, NEW answer \in {"verified", "failed"}, verifyDestination(v, answer)
      PROVE  Goal
  <2>1. UNCHANGED <<row, instruction, quotes, calls>>
    BY <1>6 DEF verifyDestination
  <2> QED
    BY <1>6, <2>1, EnvironmentKeepsInvariant
<1>7. ASSUME NEW enabled \in BOOLEAN, setSeparationOfDuties(enabled) PROVE Goal
  <2>1. UNCHANGED <<row, instruction, quotes, calls, destination>>
    BY <1>7 DEF setSeparationOfDuties
  <2> QED
    BY <2>1, EnvironmentKeepsInvariant
<1>8. ASSUME NEW s \in Settlements, NEW request \in Requests, createSettlementHandler(s, request)
      PROVE  Goal
  BY <1>8, CreateKeepsInvariant
<1>9. ASSUME NEW s \in Settlements, takeJob(s) \/ crashWorker(s) \/ attachIsRefused(s)
      PROVE  Goal
  <2>1. UNCHANGED <<row, instruction, quotes, calls, destination>>
    BY <1>9 DEF takeJob, crashWorker, attachIsRefused
  <2> QED
    BY <2>1, EnvironmentKeepsInvariant
<1>10. ASSUME NEW s \in Settlements, startPreflight(s) PROVE Goal
  <2>1. UNCHANGED <<instruction, quotes, calls, destination>>
    BY <1>10 DEF startPreflight
  <2>2. CASE UNCHANGED row
    BY <2>1, <2>2, EnvironmentKeepsInvariant
  <2>3. CASE ~UNCHANGED row
    <3>1. PICK answers : /\ Moves(s, "run_preflight", answers)
                         /\ row' = [row EXCEPT ![s] = Moved(s, "run_preflight", answers)]
      BY <1>10, <2>3 DEF startPreflight
    <3>2. PICK new : new = Moved(s, "run_preflight", answers)
      OBVIOUS
    <3>3. "status" \in DOMAIN new /\ row[s].status = "DRAFT" /\ new.status = "PREFLIGHTING"
      BY <3>1, <3>2, MovedStatus
    <3> QED
      BY <2>1, <3>1, <3>2, <3>3, MoveKeepsInvariant
  <2> QED
    BY <2>2, <2>3
<1>11. ASSUME NEW s \in Settlements, NEW facility \in BOOLEAN, completePreflight(s, facility)
       PROVE  Goal
  <2>1. UNCHANGED <<instruction, quotes, calls, destination>>
    BY <1>11 DEF completePreflight
  <2> DEFINE trigger == IF Passes(s, facility) THEN "preflight_passed" ELSE "preflight_blocked"
             answers == IF Passes(s, facility) THEN {"no_blocking_requirements"}
                                               ELSE {"has_blocking_requirements"}
  <2>2. /\ trigger \in {"preflight_passed", "preflight_blocked"}
        /\ Moves(s, trigger, answers)
        /\ row' = [row EXCEPT ![s] = Moved(s, trigger, answers)]
    BY <1>11 DEF completePreflight
  <2> HIDE DEF trigger, answers
  <2>3. PICK new : new = Moved(s, trigger, answers)
    OBVIOUS
  <2>4. /\ "status" \in DOMAIN new /\ row[s].status = "PREFLIGHTING"
        /\ new.status \in {"READY", "ACTION_REQUIRED"}
    BY <2>2, <2>3, MovedStatus
  <2> QED
    BY <2>1, <2>2, <2>3, <2>4, MoveKeepsInvariant
<1>12. ASSUME NEW s \in Settlements, cancelSettlement(s) PROVE Goal
  <2>1. /\ UNCHANGED <<instruction, quotes, calls, destination>>
        /\ Moves(s, "cancel", {"actor_may_cancel"})
        /\ row' = [row EXCEPT ![s] = Moved(s, "cancel", {"actor_may_cancel"})]
    BY <1>12 DEF cancelSettlement
  <2>2. PICK new : new = Moved(s, "cancel", {"actor_may_cancel"})
    OBVIOUS
  <2>3. /\ "status" \in DOMAIN new
        /\ row[s].status \in {"DRAFT", "READY", "QUOTED", "ACTION_REQUIRED"}
        /\ new.status = "CANCELLED"
    BY <2>1, <2>2, MovedStatus
  <2> QED
    BY <2>1, <2>2, <2>3, MoveKeepsInvariant
<1>13. ASSUME NEW s \in Settlements, (\E q \in Quotes : readForAttach(s, q)) \/ readForExpiry(s)
       PROVE  Goal
  BY <1>13, ReadsKeepInvariant
<1>14. ASSUME NEW s \in Settlements, NEW p \in Principals, NEW via \in {"api", "batch"},
              NEW facility \in BOOLEAN, readForAuthorization(s, p, via, facility)
       PROVE  Goal
  BY <1>14, AuthorizationReadKeepsInvariant
<1>15. ASSUME NEW call \in CallsOf("attach"), attachQuote(call) PROVE Goal
  BY <1>15, AttachKeepsInvariant DEF CallsOf
<1>16. ASSUME NEW call \in CallsOf("expire"), expireAttachedQuote(call) PROVE Goal
  BY <1>16, ExpireKeepsInvariant DEF CallsOf
<1>17. ASSUME NEW call \in CallsOf("authorize"), authorizeSettlement(call) PROVE Goal
  BY <1>17, AuthorizeKeepsInvariant DEF CallsOf
<1> HIDE DEF Goal
<1>18. ASSUME NEW s \in Settlements,
              \/ \E request \in Requests : createSettlementHandler(s, request)
              \/ worker(s) \/ crashWorker(s) \/ cancelSettlement(s)
              \/ \E q \in Quotes : readForAttach(s, q)
              \/ attachIsRefused(s) \/ readForExpiry(s)
              \/ \E p \in Principals, via \in {"api", "batch"}, facility \in BOOLEAN :
                   readForAuthorization(s, p, via, facility)
       PROVE  Goal
  BY <1>8, <1>9, <1>10, <1>11, <1>12, <1>13, <1>14, <1>18, Zenon DEF worker
<1>19. CASE PreparationNext
  BY <1>2, <1>3, <1>4, <1>5, <1>6, <1>7, <1>15, <1>16, <1>17, <1>18, <1>19, Zenon DEF PreparationNext
<1> QED
  BY <1>1, <1>19

(***************************************************************************)
(* The tables stay typed, calls in flight carry what they read about rows  *)
(* that exist, and authorized settlements have sound terms and a spent     *)
(* quote: the inductive invariant of the preparation.                      *)
(***************************************************************************)
THEOREM PreparationInvariant == PreparationSpec => []PreparationIInv
<1>1. PreparationIInv /\ [PreparationNext]_prepVars => PreparationIInv'
  BY NextIsSound
<1> QED
  BY <1>1, InitIsSound, PTL DEF PreparationSpec

(***************************************************************************)
(* A quote is spent once, and by the settlement it priced, whatever the    *)
(* number of quotes, settlements and interleaved calls of attachQuote,     *)
(* expireAttachedQuote and authorizeSettlement.                            *)
(***************************************************************************)
THEOREM QuotesAreSpentOnce == PreparationSpec => []QuoteIsSpentOnce
<1>1. ASSUME PreparationIInv PROVE QuoteIsSpentOnce
  <2>0. TablesAreTyped
    BY <1>1 DEF PreparationIInv
  <2>1. PreparationTypeOK
    BY <2>0 DEF TablesAreTyped, RowIsTyped, QuoteIsPriced, PreparationTypeOK
  <2>2. \A s \in Authorized : TermsAreFrozen(s, instruction[s].terms) /\ QuoteIsSpent(s)
    BY <1>1 DEF PreparationIInv
  <2>3. AuthorizedQuoteIsSpent
    BY <2>2 DEF AuthorizedQuoteIsSpent, QuoteIsSpent
  <2>4. \A q \in Quotes : ConsumerFroze(q)
    BY <1>1 DEF PreparationIInv
  <2>5. ASSUME NEW s \in Authorized, NEW t \in Authorized,
               instruction[s].terms.stored.quote = instruction[t].terms.stored.quote,
               "batch" \notin {instruction[s].terms.via, instruction[t].terms.via}
        PROVE  s = t
    BY <2>2, <2>5 DEF QuoteIsSpent
  <2>6. OneSettlementPerQuote
    BY <2>4, <2>5 DEF OneSettlementPerQuote, ConsumerFroze
  <2> QED
    BY <2>1, <2>3, <2>6 DEF QuoteIsSpentOnce
<1> QED
  BY <1>1, PreparationInvariant, PTL

(***************************************************************************)
(* The terms an authorization froze deliver the amount at an exact price,  *)
(* hash to their digest and name a verified destination, for every rate,   *)
(* fee table and history of edits and verifications.                       *)
(***************************************************************************)
THEOREM FrozenTermsAreSound == PreparationSpec => []FrozenTermsHold
<1>1. ASSUME PreparationIInv PROVE FrozenTermsHold
  <2>1. \A s \in Authorized : TermsAreFrozen(s, instruction[s].terms)
    BY <1>1 DEF PreparationIInv
  <2> QED
    BY <2>1 DEF FrozenTermsHold, FrozenPriceDelivers, FrozenVersionIsVerified, TermsAreFrozen
<1> QED
  BY <1>1, PreparationInvariant, PTL

(***************************************************************************)
(* While the policy is on, who authorizes or is about to did not create    *)
(* the settlement.                                                         *)
(***************************************************************************)
OtherEyes ==
  /\ \A call \in calls : call.op = "authorize" =>
       call.frozen.by \in People \ {instruction[call.settlement].creator}
  /\ \A s \in Authorized : instruction[s].terms.by \in People \ {instruction[s].creator}

(***************************************************************************)
(* As long as the workspace keeps separation of duties on, nobody          *)
(* authorizes what they created, and no API key authorizes at all, however *)
(* late the call writes what it read.                                      *)
(***************************************************************************)
THEOREM SeparationHolds == PreparationSpec => FourEyes
<1> DEFINE Eyes == \A s \in Authorized : instruction[s].terms.by \in People \ {instruction[s].creator}
<1>1. PreparationInit => OtherEyes
  BY DEF PreparationInit, OtherEyes, Authorized, NoRow
<1>2. PreparationIInv /\ policy /\ OtherEyes /\ [PreparationNext]_prepVars => OtherEyes'
  <2> SUFFICES ASSUME PreparationIInv, policy, OtherEyes, [PreparationNext]_prepVars
               PROVE  OtherEyes'
    OBVIOUS
  <2>1. Kept /\ Called
    BY NextIsSound
  <2>2. ASSUME NEW call \in calls', call.op = "authorize"
        PROVE  call.frozen.by \in People \ {instruction'[call.settlement].creator}
    <3>1. CASE call \in calls
      <4>1. call.settlement \in Settlements /\ row[call.settlement].status # "NONE"
        BY <3>1 DEF PreparationIInv, CallIsSound
      <4> QED
        BY <2>1, <2>2, <3>1, <4>1 DEF OtherEyes, Kept, SettlementsAreKept
    <3>2. CASE call \notin calls
      BY <2>1, <2>2, <3>2 DEF Called
    <3> QED
      BY <3>1, <3>2
  <2>3. ASSUME NEW s \in Settlements, row'[s].status = "AUTHORIZED"
        PROVE  instruction'[s].terms.by \in People \ {instruction'[s].creator}
    <3>1. CASE row[s].status = "AUTHORIZED"
      BY <2>1, <3>1 DEF OtherEyes, Kept, SettlementsAreKept, Authorized
    <3>2. CASE row[s].status # "AUTHORIZED"
      <4>1. PICK call \in calls : /\ call.op = "authorize" /\ call.settlement = s
                                  /\ instruction'[s].terms = call.frozen
        BY <2>1, <2>3, <3>2 DEF Called
      <4>2. row[s].status # "NONE"
        BY <4>1 DEF PreparationIInv, CallIsSound
      <4> QED
        BY <2>1, <4>1, <4>2 DEF OtherEyes, Kept, SettlementsAreKept
    <3> QED
      BY <3>1, <3>2
  <2> QED
    BY <2>2, <2>3 DEF OtherEyes, Authorized
<1>3. OtherEyes => Eyes
  BY DEF OtherEyes
<1>4. FourEyes <=> ([]policy => []Eyes)
  BY DEF FourEyes
<1> HIDE DEF Eyes
<1> QED
  BY <1>1, <1>2, <1>3, <1>4, PreparationInvariant, PTL DEF PreparationSpec
=============================================================================
