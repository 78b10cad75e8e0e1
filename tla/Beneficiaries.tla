--------------------------- MODULE Beneficiaries ---------------------------
(***************************************************************************)
(* A beneficiary, the versions of its payout destinations, and their       *)
(* verification (packages/app/src/beneficiary.service.ts and               *)
(* verification.service.ts).                                               *)
(*                                                                         *)
(* The transactions run at READ COMMITTED and lock little:                 *)
(* openVerification and ingestVerificationCallback check a status they     *)
(* later rely on, and every change ends by deriving the beneficiary's      *)
(* summary status from what was committed then.  So such a call is a read  *)
(* (in `reads`), then a transaction that has written and not committed (in *)
(* `writes`), then its commit.  The verification provider answers one      *)
(* request the same way each time; its callbacks are repeated, reordered,  *)
(* misrouted, unreadable and fail to authenticate.                         *)
(***************************************************************************)
EXTENDS NameMatch

CONSTANTS
  Destinations, Checks,
  Details,        \* bound: payout details; `name` is the account holder
  Policies,       \* the registered name-match policies, one of which applies
  Answers,        \* bound: what a provider can find, and whether it says so later
  MaxVersion,     \* bound: versions of a destination
  MaxCalls,       \* bound: concurrent calls
  MaxCrashes,     \* bound: transactions and jobs a dying process loses
  NONE

ASSUME BeneficiariesAssumption ==
  /\ \A p \in Policies : inspectPolicy(p)
  /\ MaxVersion \in Nat \ {0} /\ MaxCalls \in Nat \ {0} /\ MaxCrashes \in Nat
  /\ NONE \notin Destinations \cup Checks \cup Details \cup Answers
  /\ NONE \notin {"draft", "pending_verification", "verified", "rejected", "disabled"}
  /\ \A p \in Policies : p.kind = "numeric_score" => p.scaleMax \in Nat
  /\ \A d \in Details : isName(d.name)
  /\ \A a \in Answers : isName(a.evidence.registryName) /\ a.evidence.score \in Int

VARIABLES
  beneficiary,    \* beneficiaries: status, disabled_at and default_destination_id
  versions,       \* payout_destination_versions: the details of each, by destination
  checks,         \* destination_verifications
  queue,          \* beneficiary.verify jobs not yet done
  provider,       \* what the provider decided for each request, and how it says it
  events,         \* provider_events: the results stored, and whether authenticated
  policy,         \* the name-match policy of the installed provider and method
  reads,          \* calls that have checked and not written
  writes,         \* transactions that have written and not committed
  crashes

benVars == <<beneficiary, versions, checks, queue, provider, events, policy, reads, writes, crashes>>

Positions == Destinations \X (1..MaxVersion)
DetailsAt(at) == versions[at[1]][at[2]]

NoCheck == [status |-> "NONE", at |-> NONE]

Room == Cardinality(reads) + Cardinality(writes) < MaxCalls

-----------------------------------------------------------------------------
(* The summary status *)

(***************************************************************************)
(* verificationsForVersions: verified outranks failed outranks in flight.  *)
(***************************************************************************)
rank(status) == CASE status = "verified" -> 3 [] status = "failed" -> 2 [] OTHER -> 1

verificationOf(at, cs) ==
  LET about == {c \in Checks : cs[c].at = at}
  IN  IF about = {} THEN "unverified"
      ELSE cs[CHOOSE c \in about : \A d \in about : rank(cs[c].status) >= rank(cs[d].status)].status

CurrentVersions(vs) == {<<d, Len(vs[d])>> : d \in {e \in Destinations : vs[e] # << >>}}

deriveFromAnyVersion(b, vs, cs) ==          \* mutant: superseded versions count
  IF b.disabled THEN "disabled"
  ELSE IF b.status = "rejected" THEN "rejected"
  ELSE IF CurrentVersions(vs) = {} THEN "draft"
  ELSE IF \E c \in Checks : cs[c].status = "verified" THEN "verified"
  ELSE "pending_verification"

deriveBeneficiaryStatus(b, vs, cs) ==
  IF b.disabled THEN "disabled"
  ELSE IF b.status = "rejected" THEN "rejected"
  ELSE IF CurrentVersions(vs) = {} THEN "draft"
  ELSE IF \E at \in CurrentVersions(vs) : verificationOf(at, cs) = "verified" THEN "verified"
  ELSE "pending_verification"

(***************************************************************************)
(* refreshBeneficiaryStatus: the status it is about to write, if another.  *)
(***************************************************************************)
refreshed(vs, cs) ==
  LET status == deriveBeneficiaryStatus(beneficiary, vs, cs)
  IN  IF status = beneficiary.status THEN NONE ELSE status

NoWrite == [kind |-> "NONE", dest |-> NONE, details |-> NONE, default |-> FALSE,
            check |-> NONE, status |-> NONE, event |-> NONE, summary |-> NONE,
            raced |-> FALSE]

(***************************************************************************)
(* Its commit.  `raced` marks the transactions that read before it.        *)
(***************************************************************************)
Appended(d, details) == [versions EXCEPT ![d] = Append(@, details)]
Ended(c, status)     == [checks EXCEPT ![c].status = status]

commitVersion(w) ==
  /\ versions' = Appended(w.dest, w.details)
  /\ UNCHANGED checks

commitOutcome(w) ==
  /\ checks' = Ended(w.check, w.status)
  /\ UNCHANGED versions

commit(w) ==
  /\ \/ w.kind = "version" /\ commitVersion(w)
     \/ w.kind = "outcome" /\ commitOutcome(w)
  /\ beneficiary' = [beneficiary EXCEPT
       !.status  = IF w.summary = NONE THEN @ ELSE w.summary,
       !.default = IF w.default THEN w.dest ELSE @]
  /\ writes' = {[o EXCEPT !.raced = TRUE] : o \in writes \ {w}}
  /\ UNCHANGED <<queue, provider, events, policy, reads, crashes>>

-----------------------------------------------------------------------------
(* Destinations *)

(***************************************************************************)
(* addPayoutDestination and editPayoutDestination.  The edit stamps the    *)
(* version it read as superseded; a second edit that waited for that row   *)
(* raises on the write-once column, so edits of one destination exclude    *)
(* each other.                                                             *)
(***************************************************************************)
appendVersion(d, details, default) ==
  writes' = writes \cup {[NoWrite EXCEPT
    !.kind = "version", !.dest = d, !.details = details, !.default = default,
    !.summary = refreshed(Appended(d, details), checks)]}

Appending(d) == \E w \in writes : w.dest = d

addPayoutDestination(d, details, makeDefault) ==
  /\ Room /\ versions[d] = << >> /\ ~Appending(d)
  /\ appendVersion(d, details, makeDefault \/ beneficiary.default = NONE)
  /\ UNCHANGED <<beneficiary, versions, checks, queue, provider, events, policy, reads, crashes>>

editPayoutDestination(d, details) ==
  /\ Room /\ versions[d] # << >> /\ Len(versions[d]) < MaxVersion /\ ~Appending(d)
  /\ DetailsAt(<<d, Len(versions[d])>>) # details      \* equal fingerprints: no version
  /\ appendVersion(d, details, FALSE)
  /\ UNCHANGED <<beneficiary, versions, checks, queue, provider, events, policy, reads, crashes>>

disableBeneficiary ==
  /\ ~beneficiary.disabled
  /\ beneficiary' = [beneficiary EXCEPT !.disabled = TRUE, !.status = "disabled"]
  /\ writes' = {[w EXCEPT !.raced = TRUE] : w \in writes}
  /\ UNCHANGED <<versions, checks, queue, provider, events, policy, reads, crashes>>

-----------------------------------------------------------------------------
(* Verification *)

NoRead == [op |-> "NONE", at |-> NONE, check |-> NONE, answer |-> NONE, event |-> NONE]

InFlight(at) == \E c \in Checks : checks[c].at = at /\ checks[c].status = "verifying"

(***************************************************************************)
(* POST .../verify: openVerification of the default destination's current  *)
(* version, and the beneficiary.verify job, in one transaction; the unique *)
(* index on checks in flight refuses a second one.                         *)
(***************************************************************************)
FreshChecks == {c \in Checks : checks[c] = NoCheck /\ ~\E r \in reads : r.check = c}

readForOpen ==
  /\ Room /\ beneficiary.default # NONE
  /\ FreshChecks # {}
  /\ LET at == <<beneficiary.default, Len(versions[beneficiary.default])>>
     IN  /\ ~\E c \in Checks : checks[c].at = at /\ checks[c].status \in {"verified", "verifying"}
         /\ reads' = reads \cup {[NoRead EXCEPT !.op = "open", !.at = at,
                                        !.check = CHOOSE c \in FreshChecks : TRUE]}
  /\ UNCHANGED <<beneficiary, versions, checks, queue, provider, events, policy, writes, crashes>>

openedAlone(c) == queue                        \* mutant: recorded and not scheduled

enqueueBeneficiaryVerify(c) == queue \cup {c}

openVerification(r) ==
  /\ r.op = "open"
  /\ reads' = reads \ {r}
  /\ \/ /\ InFlight(r.at)                                \* unique_violation: rolled back
        /\ UNCHANGED <<checks, queue>>
     \/ /\ ~InFlight(r.at)
        /\ checks' = [checks EXCEPT ![r.check] = [NoCheck EXCEPT !.status = "verifying", !.at = r.at]]
        /\ queue' = enqueueBeneficiaryVerify(r.check)
  /\ UNCHANGED <<beneficiary, versions, provider, events, policy, writes, crashes>>

(***************************************************************************)
(* The provider decides on a request once; it answers at once, or takes    *)
(* the request and answers in a callback.                                  *)
(***************************************************************************)
verify(c, answer) ==
  /\ provider[c] \in {NONE, answer}
  /\ provider' = [provider EXCEPT ![c] = answer]

loadJob(c) ==
  /\ Room /\ c \in queue
  /\ ~\E r \in reads : r.op = "job" /\ r.check = c       \* one worker holds a job
  /\ IF checks[c].status = "verifying"
     THEN /\ \E answer \in Answers :
               /\ verify(c, answer)
               /\ reads' = reads \cup {[NoRead EXCEPT !.op = "job", !.at = checks[c].at,
                                        !.check = c, !.answer = IF answer.deferred THEN NONE ELSE answer]}
          /\ UNCHANGED queue
     ELSE /\ queue' = queue \ {c}                         \* already_resolved
          /\ UNCHANGED <<provider, reads>>
  /\ UNCHANGED <<beneficiary, versions, checks, events, policy, writes, crashes>>

(***************************************************************************)
(* applyOutcome: the provider confirms the account, the policy the name.   *)
(* It updates the check whatever its status, waiting for a transaction     *)
(* that holds the row.                                                     *)
(***************************************************************************)
resolved(answer, at) ==
  IF /\ answer.result = "account_confirmed"
     /\ decideNameMatch(policy, answer.evidence, DetailsAt(at).name) = "satisfied"
  THEN "verified" ELSE "failed"

applyOutcome(c, status, event) ==
  /\ ~\E w \in writes : w.check = c
  /\ writes' = writes \cup {[NoWrite EXCEPT
       !.kind = "outcome", !.check = c, !.status = status, !.event = event,
       !.summary = refreshed(versions, Ended(c, status))]}

recordTakenAsFailure(c) ==                               \* mutant: no answer is a failure
  checks' = [checks EXCEPT ![c].status = "failed"]

recordTaken(c) == UNCHANGED checks                      \* the reference only: nothing reads it

runBeneficiaryVerifyJob(r) ==
  /\ r.op = "job"
  /\ reads' = reads \ {r}
  /\ \/ r.answer = NONE /\ recordTaken(r.check) /\ UNCHANGED writes
     \/ r.answer # NONE /\ applyOutcome(r.check, resolved(r.answer, r.at), NONE) /\ UNCHANGED checks
  /\ queue' = queue \ {r.check}
  /\ UNCHANGED <<beneficiary, versions, provider, events, policy, crashes>>

-----------------------------------------------------------------------------
(* Callbacks *)

(***************************************************************************)
(* What arrives under one event id: the result of a request, once or many  *)
(* times; a report that it is still running; a result that names another   *)
(* version; a payload interpret cannot read; and what no provider signed.  *)
(***************************************************************************)
EventId(c, payload) == <<c, payload>>
Stored == {e.id : e \in events}

acceptedUnsigned(valid) == TRUE                          \* mutant: stored means believed
accepted(valid) == valid

(***************************************************************************)
(* ingestVerificationCallback: persist, authenticate, interpret, then      *)
(* compare with the check as committed now.  A duplicate changes nothing;  *)
(* of the events that are stored and change nothing else, none is kept.    *)
(***************************************************************************)
ingestVerificationCallback(c, payload, answer, valid) ==
  LET id == EventId(c, payload)
  IN  /\ Room /\ id \notin Stored
      /\ ~\E r \in reads \cup writes : r.event = id       \* waits on the unique index
      /\ events' = IF payload = "result" THEN events \cup {[id |-> id, trusted |-> valid]}
                                          ELSE events
      /\ IF /\ accepted(valid)
            /\ payload \in {"result", "unsigned"}           \* readable, this version, final
            /\ checks[c].status = "verifying"
         THEN reads' = reads \cup {[NoRead EXCEPT !.op = "callback", !.at = checks[c].at,
                                   !.check = c, !.answer = answer, !.event = id]}
         ELSE UNCHANGED reads
      /\ UNCHANGED <<beneficiary, versions, checks, queue, provider, policy, writes, crashes>>

applyCallback(r) ==
  /\ r.op = "callback"
  /\ reads' = reads \ {r}
  /\ applyOutcome(r.check, resolved(r.answer, r.at), r.event)
  /\ UNCHANGED <<beneficiary, versions, checks, queue, provider, events, policy, crashes>>

(***************************************************************************)
(* A process dies: what its transaction wrote is rolled back, the event of *)
(* a callback too (of an edit nothing is left at all); a job whose answer  *)
(* is not recorded, or that was done and not acknowledged, is delivered    *)
(* again.                                                                  *)
(***************************************************************************)
crash(call) ==
  /\ crashes < MaxCrashes /\ call.check # NONE
  /\ crashes' = crashes + 1
  /\ reads' = reads \ {call}
  /\ writes' = writes \ {call}
  /\ events' = {e \in events : e.id # call.event}
  /\ queue' = queue \cup {c \in Checks : call.check = c /\ call.event = NONE /\ checks[c] # NoCheck}
  /\ UNCHANGED <<beneficiary, versions, checks, provider, policy>>

redeliverJob(c) ==
  /\ crashes < MaxCrashes
  /\ crashes' = crashes + 1
  /\ checks[c].status = "verifying" /\ provider[c] # NONE /\ c \notin queue
  /\ queue' = queue \cup {c}
  /\ UNCHANGED <<beneficiary, versions, checks, provider, events, policy, reads, writes>>

-----------------------------------------------------------------------------
BeneficiariesInit ==
  /\ beneficiary = [status |-> "draft", disabled |-> FALSE, default |-> NONE]
  /\ versions = [d \in Destinations |-> << >>]
  /\ checks = [c \in Checks |-> NoCheck]
  /\ queue = {} /\ events = {} /\ reads = {} /\ writes = {} /\ crashes = 0
  /\ provider = [c \in Checks |-> NONE]
  /\ policy \in Policies

deliverResult(c) ==
  /\ provider[c] # NONE
  /\ \E valid \in BOOLEAN : ingestVerificationCallback(c, "result", provider[c], valid)

deliverOther(c) ==
  /\ checks[c].status = "verifying"
  /\ \/ \E answer \in Answers : ingestVerificationCallback(c, "unsigned", answer, FALSE)
     \/ \E payload \in {"progress", "misrouted", "unreadable"} :
          /\ provider[c] # NONE
          /\ ingestVerificationCallback(c, payload, provider[c], TRUE)

BeneficiariesNext ==
  \/ \E d \in Destinations, details \in Details :
       \/ \E makeDefault \in BOOLEAN : addPayoutDestination(d, details, makeDefault)
       \/ editPayoutDestination(d, details)
  \/ disableBeneficiary \/ readForOpen
  \/ \E c \in Checks :
       \/ loadJob(c) \/ redeliverJob(c)
       \/ deliverResult(c) \/ deliverOther(c)
  \/ \E r \in reads : openVerification(r) \/ runBeneficiaryVerifyJob(r) \/ applyCallback(r) \/ crash(r)
  \/ \E w \in writes : commit(w) \/ crash(w)

(***************************************************************************)
(* A transaction that has begun goes on; graphile-worker delivers a job    *)
(* until it is done; the provider repeats a result until it is stored.     *)
(* Each such step happens finitely often, so that one of them happens as   *)
(* long as there is one to do is fairness enough.                          *)
(***************************************************************************)
progress ==
  \/ \E r \in reads : openVerification(r) \/ runBeneficiaryVerifyJob(r) \/ applyCallback(r)
  \/ \E w \in writes : commit(w)
  \/ \E c \in Checks : loadJob(c) \/ deliverResult(c)

BeneficiariesSpec ==
  BeneficiariesInit /\ [][BeneficiariesNext]_benVars /\ WF_benVars(progress)

-----------------------------------------------------------------------------
(* Properties *)

Status == {"draft", "pending_verification", "verified", "rejected", "disabled"}

(***************************************************************************)
(* Types, and the unique index: one check in flight for a version.         *)
(***************************************************************************)
BeneficiariesTypeOK ==
  /\ beneficiary \in [status : Status, disabled : BOOLEAN, default : Destinations \cup {NONE}]
  /\ \A d \in Destinations : Len(versions[d]) <= MaxVersion /\ \A n \in DOMAIN versions[d] : versions[d][n] \in Details
  /\ checks \in [Checks -> [status : {"NONE", "verifying", "verified", "failed"},
                            at : Positions \cup {NONE}]]
  /\ \A c, e \in Checks :
       (/\ checks[c].status = "verifying" /\ checks[e].status = "verifying"
        /\ checks[c].at = checks[e].at) => c = e
  /\ provider \in [Checks -> Answers \cup {NONE}]
  /\ queue \subseteq Checks /\ crashes \in 0..MaxCrashes

(***************************************************************************)
(* The most tokens of the shorter name that can each have a token of the   *)
(* longer one to itself, however they are ordered.                         *)
(***************************************************************************)
BestMatch(a, b) ==
  LET pairs == {p \in (DOMAIN a) \X (DOMAIN b) : a[p[1]] = b[p[2]] \/ Agrees(a[p[1]], b[p[2]])}
      sets  == {m \in SUBSET pairs : \A p, q \in m : (p[1] = q[1] \/ p[2] = q[2]) => p = q}
      sizes == {Cardinality(m) : m \in sets}
  IN  CHOOSE n \in sizes : \A k \in sizes : k <= n

Shorter(a, b) == IF Len(a) <= Len(b) THEN Len(a) ELSE Len(b)

NameSupported(evidence, name) ==
  CASE policy.kind = "registry_name" ->
         /\ evidence.registryName # << >>
         /\ 200 * BestMatch(name, evidence.registryName) + Shorter(name, evidence.registryName)
              >= 2 * policy.minimum * Shorter(name, evidence.registryName)   \* a percentage, rounded
    [] policy.kind = "provider_assertion" -> evidence.asserted = "match"
    [] policy.kind = "numeric_score" ->
         \/ evidence.score \in policy.minimum..policy.scaleMax
         \/ policy.allowMissing /\ evidence.score < 0
    [] OTHER -> TRUE

(***************************************************************************)
(* A version counts as verified only if the provider itself, asked about   *)
(* that version, confirmed the account, and what it reported supports the  *)
(* holder's name under the registered policy: whatever callbacks arrive    *)
(* unsigned, misrouted, unreadable, twice or after an edit (INV-45).       *)
(***************************************************************************)
VerifiedOnEvidence ==
  /\ BeneficiariesTypeOK
  /\ \A c \in Checks : checks[c].status = "verified" =>
      /\ provider[c] # NONE
      /\ provider[c].result = "account_confirmed"
      /\ NameSupported(provider[c].evidence, DetailsAt(checks[c].at).name)

(***************************************************************************)
(* A check that ended keeps its verdict: a job's late answer, a repeated   *)
(* callback or a redelivered job cannot turn it (runBeneficiaryVerifyJob   *)
(* records its answer without looking at the status again).                *)
(***************************************************************************)
VerdictIsFinal ==
  [][\A c \in Checks : checks[c].status \in {"verified", "failed"} =>
       checks'[c].status = checks[c].status]_benVars

(***************************************************************************)
(* A transaction no other one overlapped leaves a summary status that says *)
(* verified exactly when the beneficiary is enabled and the current        *)
(* version of some destination is, however wrong races had left it before  *)
(* (refreshBeneficiaryStatus).                                             *)
(***************************************************************************)
RefreshHeals ==
  [][\A w \in writes : (commit(w) /\ ~w.raced) =>
       (beneficiary'.status = "verified" <=>
          /\ ~beneficiary.disabled
          /\ \E c \in Checks, d \in Destinations :
               checks'[c].status = "verified" /\ checks'[c].at = <<d, Len(versions'[d])>>)]_benVars

(***************************************************************************)
(* Every check ends, although workers die and callbacks are late: the one  *)
(* way to lose it is a result whose first copy did not authenticate, which *)
(* makes every good copy a duplicate.                                      *)
(***************************************************************************)
EveryCheckEnds ==
  \A c \in Checks : checks[c].status = "verifying" ~>
    \/ checks[c].status \in {"verified", "failed"}
    \/ [id |-> EventId(c, "result"), trusted |-> FALSE] \in events
=============================================================================
