------------------------------ MODULE Batches ------------------------------
(***************************************************************************)
(* Batches (packages/app/src/batch.service.ts): the import of a file into  *)
(* one settlement per row, the counters derived from the rows, the         *)
(* authorization of every row, and the close.                              *)
(*                                                                         *)
(* A batch is a container, not a transaction: the import is a transaction  *)
(* per row, and so is the authorization; the refresh reads the rows and    *)
(* writes what it derived without a lock, and the close decides on rows it *)
(* listed before.  The settlements live their own lives meanwhile.  A      *)
(* batch is known here by the import that created it, a settlement by its  *)
(* batch and line.                                                         *)
(***************************************************************************)
EXTENDS Csv

CONSTANTS
  Imports,        \* bound: requests to import, by API rows or CSV
  Callers,        \* bound: calls of authorizeBatch and closeBatch at once
  Authorizers,    \* bound: the callers that may authorize
  Closers,        \* bound: the callers that may close
  MaxCalls,       \* bound: those calls in all
  MaxCrashes,     \* bound: imports a dying process abandons
  MaxRows,        \* rows a file may have (csv.ts)
  Characters,     \* what rows are written in
  Files,          \* what can be imported: sequences of at least one row
  Keys,           \* idempotency keys
  Asks,           \* bound: the file and key pairs each import may be asked for
  Exceptions,     \* bound: the exception codes settlements run into
  PoolSizes,      \* connections a process may have (createClient: max, or 10)
  References,     \* bound: the free text RowsSurviveCsv is checked on
  NONE

(***************************************************************************)
(* What createBatchFromRows is given: rows of two cells.                   *)
(***************************************************************************)
FileRows == [instr : Characters, ref : Seq(Characters)]

ASSUME BatchesAssumption ==
  /\ PoolSizes \subseteq Nat \ {0}
  /\ Authorizers \cup Closers \subseteq Callers
  /\ Imports \cap Callers = {}
  /\ MaxCalls \in Nat /\ MaxCrashes \in Nat
  /\ NONE \notin Imports \cup Callers \cup Keys
  /\ NONE \notin {"SETTLED", "ACTION_REQUIRED", "CANCELLED"}
  /\ MaxRows \in Nat
  /\ Files \subseteq Seq(FileRows) /\ \A f \in Files : Len(f) \in 1..MaxRows
  /\ References \subseteq Seq(Characters)
  /\ Asks \in [Imports -> SUBSET (Files \X (Keys \cup {NONE}))]

VARIABLES
  pool,           \* the process's connections: chosen at the start, never changed
  requests,       \* each import request: its file, the rows parsed from it, its key
  imports,        \* how far each import has got
  batches,        \* batches, by the import that created them
  rows,           \* batch_rows: the outcome recorded for each line
  settlements,    \* the settlement each line became
  claims,         \* idempotency_claims written in a container transaction
  calls,          \* authorizeBatch and closeBatch calls, and every refresh
  started, crashes

batchVars == <<pool, requests, imports, batches, rows, settlements, claims, calls, started, crashes>>

Actors == Imports \cup Callers
Parsed(i) == requests[i].rows
Lines == 1..MaxRows

NoBatch == [status |-> "none", file |-> << >>, counts |-> NONE]
NoCall == [op |-> "none", phase |-> "idle", batch |-> NONE, line |-> 0,
           seen |-> "none", read |-> << >>, done |-> 0]

-----------------------------------------------------------------------------
(* The batch machine and what it derives from the rows *)

BatchTransitions ==
  {[from |-> "VALIDATING", trigger |-> "validated",            to |-> "READY"],
   [from |-> "READY",      trigger |-> "begin_execution",      to |-> "EXECUTING"],
   [from |-> "EXECUTING",  trigger |-> "all_rows_resolved",    to |-> "COMPLETED"],
   [from |-> "EXECUTING",  trigger |-> "some_rows_unresolved", to |-> "PARTIALLY_COMPLETED"]}

Evaluated(b, trigger) ==
  {t \in BatchTransitions : t.from = batches[b].status /\ t.trigger = trigger}

(***************************************************************************)
(* advanceBatch, under the batch's row lock: refused unless the table has  *)
(* the transition.                                                         *)
(***************************************************************************)
advanceBatch(b, trigger) ==
  IF Evaluated(b, trigger) = {} THEN UNCHANGED batches
  ELSE batches' = [batches EXCEPT ![b].status = (CHOOSE t \in Evaluated(b, trigger) : TRUE).to]

(***************************************************************************)
(* The closed taxonomy: the codes the customer can do something about, and *)
(* the others.  A settlement in EXCEPTION is named by its open code here.  *)
(***************************************************************************)
ActionableCodes == {"PAYOUT_REJECTED_DESTINATION", "PAYOUT_REJECTED_COMPLIANCE"}

EXCEPTION_CODES ==
  ActionableCodes \cup
  {"LIQUIDITY_UNAVAILABLE", "FACILITY_SUSPENDED", "DRAWDOWN_FAILED", "DRAWDOWN_STATUS_UNKNOWN",
   "PAYOUT_REJECTED_PROVIDER", "PAYOUT_STATUS_UNKNOWN", "RECONCILIATION_MISMATCH",
   "FINALITY_EVIDENCE_MISSING"}

ASSUME ExceptionsAssumption == Exceptions \subseteq EXCEPTION_CODES

isCustomerActionable(code) == code \in ActionableCodes

(***************************************************************************)
(* projectCustomerStatus: SETTLING is the whole execution span, and an     *)
(* exception that only delays it.                                          *)
(***************************************************************************)
projectCustomerStatus(status) ==
  CASE status = "DRAFT"                    -> NONE
    [] status \in EXCEPTION_CODES         -> IF isCustomerActionable(status) THEN "ACTION_REQUIRED"
                                                                            ELSE "SETTLING"
    [] status \in {"FAILED", "CANCELLED"} -> "CANCELLED"
    [] OTHER                              -> status

rowOutcomeFromCustomerStatus(status) ==
  CASE status = "NONE"   -> "INVALID"
    [] status = "FAILED" -> "FAILED"
    [] OTHER -> LET seen == projectCustomerStatus(status)
                IN  IF seen \in {"SETTLED", "ACTION_REQUIRED", "CANCELLED"} THEN seen ELSE "ACCEPTED"

resolvedOrWaiting(outcome) ==                            \* mutant: a stopped row counts
  outcome \in {"SETTLED", "FAILED", "CANCELLED", "INVALID", "ACTION_REQUIRED"}

isResolvedOutcome(outcome) == outcome \in {"SETTLED", "FAILED", "CANCELLED", "INVALID"}

needsAttention(outcome) == outcome \in {"INVALID", "ACTION_REQUIRED"}

Recorded(rs) == {l \in DOMAIN rs : rs[l] # "none"}
CountOf(rs, outcomes) == Cardinality({l \in DOMAIN rs : rs[l] \in outcomes})

aggregate(rs) ==
  [row |-> Cardinality(Recorded(rs)), valid |-> CountOf(rs, {"ACCEPTED", "ACTION_REQUIRED", "SETTLED", "FAILED", "CANCELLED"}),
   actionRequired |-> CountOf(rs, {"ACTION_REQUIRED"}), settled |-> CountOf(rs, {"SETTLED"}),
   failed |-> CountOf(rs, {"FAILED"})]

terminalOutcome(rs) ==
  IF Recorded(rs) = {} \/ \E l \in Recorded(rs) : ~isResolvedOutcome(rs[l]) THEN NONE
  ELSE IF \E l \in Recorded(rs) : needsAttention(rs[l]) THEN "some_rows_unresolved"
  ELSE "all_rows_resolved"

-----------------------------------------------------------------------------
(* refreshBatchAggregates: a snapshot of the rows and their settlements,   *)
(* and later the outcomes and the counters written from it.                *)

resolved(b, l) ==
  IF rows[b][l] \in {"none", "INVALID"} THEN rows[b][l]
  ELSE rowOutcomeFromCustomerStatus(settlements[b][l])

refreshRead(a, b) ==
  calls' = [calls EXCEPT ![a] = [@ EXCEPT !.phase = "refreshing", !.batch = b, !.read =
    [l \in Lines |-> resolved(b, l)]]]

refreshWrite(a) ==
  LET b == calls[a].batch
      read == calls[a].read
  IN  /\ rows' = [rows EXCEPT ![b] = [l \in Lines |-> IF read[l] = "none" THEN @[l] ELSE read[l]]]
      /\ batches' = [batches EXCEPT ![b].counts = aggregate(read)]

-----------------------------------------------------------------------------
(* Import *)

Running == {i \in Imports : imports[i].phase \notin {"idle", "created", "replayed", "refused", "dead"}}

needsTwo == Cardinality(Running) + 2 <= pool             \* mutant: another connection per step

(***************************************************************************)
(* Every import under way holds the connection of its request's own        *)
(* transaction, open until the handler returns, and takes another for each *)
(* transaction of its own.  Nothing bounds the imports by the pool: when   *)
(* they hold all of it, they wait on each other.                           *)
(***************************************************************************)
connectionFree == Cardinality(Running) + 1 <= pool

At(i, phase) == imports[i].phase = phase /\ connectionFree

goTo(i, phase, line) == imports' = [imports EXCEPT ![i] = [phase |-> phase, line |-> line]]

batchOf(file) == {b \in Imports : batches[b].status # "none" /\ batches[b].file = file}

(***************************************************************************)
(* POST /v1/batches: the request's transaction opens, the file is parsed;  *)
(* the import is of a file and may carry a key.                            *)
(***************************************************************************)
createBatchHandler(i, file, key) ==
  /\ <<file, key>> \in Asks[i]
  /\ imports[i].phase = "idle" /\ connectionFree
  /\ requests' = [requests EXCEPT ![i] =
       [file |-> file, rows |-> parseBatchCsv(render(file)), key |-> key]]
  /\ goTo(i, "lookup", 0)
  /\ UNCHANGED <<batches, rows, settlements, claims, calls, started, crashes>>

(***************************************************************************)
(* The courtesy read, and the container: the unique indices on the         *)
(* fingerprint and on the claim.  A 23505 reads again and replays, or      *)
(* raises when the file is not there (the key was used for another file).  *)
(***************************************************************************)
lookup(i) ==
  /\ At(i, "lookup")
  /\ goTo(i, IF batchOf(requests[i].file) # {} THEN "replayed" ELSE "container", 0)
  /\ UNCHANGED <<requests, batches, rows, settlements, claims, calls, started, crashes>>

takenKeyOnly(i) == requests[i].key \in claims            \* mutant: no index on the fingerprint

taken(i) == requests[i].key \in claims \/ batchOf(requests[i].file) # {}

container(i) ==
  /\ At(i, "container")
  /\ \/ /\ ~taken(i)
        /\ batches' = [batches EXCEPT ![i] =
             [status |-> "VALIDATING", file |-> requests[i].file, counts |-> NONE]]
        /\ claims' = claims \cup ({requests[i].key} \ {NONE})
        /\ goTo(i, "rows", 1)
     \/ /\ taken(i)
        /\ goTo(i, IF batchOf(requests[i].file) # {} THEN "replayed" ELSE "refused", 0)
        /\ UNCHANGED <<batches, claims>>
  /\ UNCHANGED <<requests, rows, settlements, calls, started, crashes>>

(***************************************************************************)
(* One row, one transaction: INVALID, or a settlement in DRAFT.  A row     *)
(* that cannot be created (`creates` false: an unknown beneficiary) rolls  *)
(* back, and is recorded INVALID in a transaction of its own.              *)
(***************************************************************************)
Next_(i, l) == IF l < Len(Parsed(i)) THEN l + 1 ELSE 0

invalidRow(i, l) ==
  /\ rows' = [rows EXCEPT ![i][l] = "INVALID"]
  /\ UNCHANGED settlements

importRow(i, creates) ==
  LET l == imports[i].line
  IN  /\ At(i, "rows")
      /\ \/ /\ Parsed(i)[l].ok /\ creates
            /\ rows' = [rows EXCEPT ![i][l] = "ACCEPTED"]
            /\ settlements' = [settlements EXCEPT ![i][l] = "DRAFT"]
         \/ /\ ~(Parsed(i)[l].ok /\ creates)
            /\ invalidRow(i, l)
      /\ IF Next_(i, l) = 0 THEN goTo(i, "preflight", 1) ELSE goTo(i, "rows", l + 1)
      /\ UNCHANGED <<requests, batches, claims, calls, started, crashes>>

(***************************************************************************)
(* runSettlementPreflight of each created row; whatever it throws or       *)
(* refuses is dropped.                                                     *)
(***************************************************************************)
preflightRow(i, verdict) ==
  LET l == imports[i].line
  IN  /\ At(i, "preflight")
      /\ settlements' = [settlements EXCEPT ![i][l] = IF @ = "DRAFT" THEN verdict ELSE @]
      /\ IF Next_(i, l) = 0 THEN goTo(i, "validated", 0) ELSE goTo(i, "preflight", l + 1)
      /\ UNCHANGED <<requests, batches, rows, claims, calls, started, crashes>>

validated(i) ==
  /\ At(i, "validated")
  /\ advanceBatch(i, "validated")
  /\ goTo(i, "refresh", 0)
  /\ UNCHANGED <<requests, rows, settlements, claims, calls, started, crashes>>

importRefreshRead(i) ==
  /\ At(i, "refresh")
  /\ refreshRead(i, i)
  /\ goTo(i, "refreshing", 0)
  /\ UNCHANGED <<requests, batches, rows, settlements, claims, started, crashes>>

importRefreshWrite(i) ==
  /\ At(i, "refreshing")
  /\ refreshWrite(i)
  /\ calls' = [calls EXCEPT ![i] = NoCall]
  /\ goTo(i, "created", 0)
  /\ UNCHANGED <<requests, settlements, claims, started, crashes>>

crash(i) ==
  /\ i \in Running /\ crashes < MaxCrashes
  /\ crashes' = crashes + 1
  /\ calls' = [calls EXCEPT ![i] = NoCall]
  /\ goTo(i, "dead", 0)
  /\ UNCHANGED <<requests, batches, rows, settlements, claims, started>>

-----------------------------------------------------------------------------
(* authorizeBatch and closeBatch *)

Idling(c) == calls[c].phase = "idle" /\ started < MaxCalls

(***************************************************************************)
(* authorizeBatch: the batch was READY when read; then each row with a     *)
(* settlement goes through authorizeSettlement (`agrees`: its guards       *)
(* hold) in a transaction of its own.                                      *)
(***************************************************************************)
authorizeBatch(c, b) ==
  /\ Idling(c) /\ batches[b].status = "READY"
  /\ calls' = [calls EXCEPT ![c] = [NoCall EXCEPT !.op = "authorize", !.phase = "rows", !.batch = b, !.line = 1]]
  /\ started' = started + 1
  /\ UNCHANGED <<requests, imports, batches, rows, settlements, claims, crashes>>

authorizeRow(c, agrees) ==
  LET b == calls[c].batch
      l == calls[c].line
      ok == agrees /\ settlements[b][l] = "READY"
  IN  /\ calls[c].phase = "rows"
      /\ settlements' = IF ok THEN [settlements EXCEPT ![b][l] = "SETTLING"] ELSE settlements
      /\ calls' = [calls EXCEPT ![c] = [calls[c] EXCEPT
           !.done = IF ok THEN @ + 1 ELSE @,
           !.line = Next_(b, l),
           !.phase = IF Next_(b, l) = 0 THEN "begin" ELSE "rows"]]
      /\ UNCHANGED <<requests, imports, batches, rows, claims, started, crashes>>

authorizedRows(c) ==
  /\ calls[c].op = "authorize" /\ calls[c].phase = "begin"
  /\ IF calls[c].done > 0 THEN advanceBatch(calls[c].batch, "begin_execution") ELSE UNCHANGED batches
  /\ calls' = [calls EXCEPT ![c].phase = "refresh"]
  /\ UNCHANGED <<requests, imports, rows, settlements, claims, started, crashes>>

(***************************************************************************)
(* closeBatch: refresh, list the rows, decide, and advance.  Nothing is    *)
(* read again before it advances.                                          *)
(***************************************************************************)
closeBatch(c, b) ==
  /\ Idling(c) /\ batches[b].status # "none"
  /\ calls' = [calls EXCEPT ![c] = [NoCall EXCEPT !.op = "close", !.phase = "refresh", !.batch = b]]
  /\ started' = started + 1
  /\ UNCHANGED <<requests, imports, batches, rows, settlements, claims, crashes>>

callRefreshRead(c) ==
  /\ calls[c].phase = "refresh"
  /\ refreshRead(c, calls[c].batch)
  /\ UNCHANGED <<requests, imports, batches, rows, settlements, claims, started, crashes>>

callRefreshWrite(c) ==
  /\ calls[c].phase = "refreshing"
  /\ refreshWrite(c)
  /\ calls' = [calls EXCEPT ![c] =
       IF @.op = "authorize" THEN NoCall
       ELSE [@ EXCEPT !.phase = "decide", !.read = << >>, !.seen = batches[calls[c].batch].status]]
  /\ UNCHANGED <<requests, imports, settlements, claims, started, crashes>>

decide(c) ==
  LET trigger == terminalOutcome(rows[calls[c].batch])
  IN  /\ calls[c].phase = "decide"
      /\ calls' = [calls EXCEPT ![c] =
           IF trigger = NONE THEN NoCall
           ELSE [@ EXCEPT !.phase = IF calls[c].seen = "READY" THEN "begin" ELSE "finish", !.read = <<trigger>>]]
      /\ UNCHANGED <<requests, imports, batches, rows, settlements, claims, started, crashes>>

closeBegins(c) ==
  /\ calls[c].op = "close" /\ calls[c].phase = "begin"
  /\ advanceBatch(calls[c].batch, "begin_execution")
  /\ calls' = [calls EXCEPT ![c] =
       IF Evaluated(@.batch, "begin_execution") = {} THEN NoCall ELSE [@ EXCEPT !.phase = "finish"]]
  /\ UNCHANGED <<requests, imports, rows, settlements, claims, started, crashes>>

closeFinishes(c) ==
  /\ calls[c].phase = "finish"
  /\ advanceBatch(calls[c].batch, calls[c].read[1])
  /\ calls' = [calls EXCEPT ![c] = NoCall]
  /\ UNCHANGED <<requests, imports, rows, settlements, claims, started, crashes>>

-----------------------------------------------------------------------------
(* What the settlements do by themselves (SettlementMachine, as projected) *)

SettlementMoves ==
  {<<"DRAFT", "READY">>, <<"DRAFT", "ACTION_REQUIRED">>, <<"ACTION_REQUIRED", "DRAFT">>,
   <<"DRAFT", "CANCELLED">>, <<"READY", "CANCELLED">>, <<"ACTION_REQUIRED", "CANCELLED">>,
   <<"READY", "SETTLING">>, <<"SETTLING", "SETTLED">>, <<"SETTLING", "CANCELLED">>}
  \cup ({"SETTLING"} \X Exceptions) \cup (Exceptions \X {"SETTLING", "FAILED", "CANCELLED"})

settlementMoves(b, l) ==
  \E move \in SettlementMoves :
    /\ settlements[b][l] = move[1]
    /\ settlements' = [settlements EXCEPT ![b][l] = move[2]]
    /\ UNCHANGED <<requests, imports, batches, rows, claims, calls, started, crashes>>

-----------------------------------------------------------------------------
BatchesInit ==
  /\ pool \in PoolSizes
  /\ requests = [i \in Imports |-> [file |-> << >>, rows |-> << >>, key |-> NONE]]
  /\ imports = [i \in Imports |-> [phase |-> "idle", line |-> 0]]
  /\ batches = [i \in Imports |-> NoBatch]
  /\ rows = [i \in Imports |-> [l \in Lines |-> "none"]]
  /\ settlements = [i \in Imports |-> [l \in Lines |-> "NONE"]]
  /\ claims = {}
  /\ calls = [a \in Actors |-> NoCall]
  /\ started = 0 /\ crashes = 0

Importing ==
  \E i \in Imports :
    \/ lookup(i)
    \/ container(i)
    \/ \E creates \in BOOLEAN : importRow(i, creates)
    \/ \E verdict \in {"READY", "ACTION_REQUIRED", "DRAFT"} : preflightRow(i, verdict)
    \/ validated(i)
    \/ importRefreshRead(i)
    \/ importRefreshWrite(i)

Calling ==
  \E c \in Callers :
    \/ \E b \in Imports : c \in Authorizers /\ authorizeBatch(c, b)
    \/ \E b \in Imports : c \in Closers /\ closeBatch(c, b)
    \/ \E agrees \in BOOLEAN : authorizeRow(c, agrees)
    \/ authorizedRows(c)
    \/ callRefreshRead(c)
    \/ callRefreshWrite(c)
    \/ decide(c)
    \/ closeBegins(c)
    \/ closeFinishes(c)

BatchesNext ==
  /\ UNCHANGED pool
  /\ \/ \E i \in Imports, file \in Files, key \in Keys \cup {NONE} : createBatchHandler(i, file, key)
     \/ Importing
     \/ Calling
     \/ \E i \in Imports : crash(i)
     \/ \E i \in Imports, l \in Lines : settlementMoves(i, l)

(***************************************************************************)
(* A running import goes on with its next transaction.                     *)
(***************************************************************************)
BatchesSpec == BatchesInit /\ [][BatchesNext]_batchVars /\ WF_batchVars(Importing /\ UNCHANGED pool)

-----------------------------------------------------------------------------
(* Properties *)

Terminal == {"SETTLED", "FAILED", "CANCELLED"}

(***************************************************************************)
(* Types, and the constraint that a row is INVALID exactly when it became  *)
(* no settlement (batch_row_invalid_has_errors_and_no_settlement): no      *)
(* refresh, however late, turns one into the other.                        *)
(***************************************************************************)
BatchesTypeOK ==
  /\ \A i \in Imports : batches[i].status \in
       {"none", "VALIDATING", "READY", "EXECUTING", "COMPLETED", "PARTIALLY_COMPLETED"}
  /\ \A i \in Imports, l \in Lines :
       /\ rows[i][l] \in {"none", "INVALID", "ACCEPTED", "ACTION_REQUIRED"} \cup Terminal
       /\ rows[i][l] \in {"none", "INVALID"} <=> settlements[i][l] = "NONE"
  /\ claims \subseteq Keys

(***************************************************************************)
(* The same file is imported once, and one idempotency key imports one     *)
(* file, though the requests race, repeat, or die half way: no two batches *)
(* share the file or the key, so no row is paid twice.                     *)
(***************************************************************************)
ImportedOnce ==
  \A i, j \in {b \in Imports : batches[b].status # "none"} :
    i # j => /\ requests[i].file # requests[j].file
             /\ requests[i].key = requests[j].key => requests[i].key = NONE

(***************************************************************************)
(* A batch that is READY or further has an answer for every line of its    *)
(* file, whatever row was unreadable or failed (INV-30), and every line    *)
(* without a settlement says so.                                           *)
(***************************************************************************)
EveryRowIsAnswered ==
  \A i \in Imports : batches[i].status \notin {"none", "VALIDATING"} =>
    \A l \in 1..Len(requests[i].file) :
      /\ rows[i][l] # "none"
      /\ requests[i].file[l].instr # VALID => rows[i][l] = "INVALID"

(***************************************************************************)
(* A close that found the batch validated completes it only when every row *)
(* is really over: COMPLETED means each line has a settlement that is      *)
(* SETTLED, FAILED or CANCELLED, PARTIALLY_COMPLETED that the others never *)
(* became one.  It holds although the close decides on a list it read      *)
(* earlier, while refreshes with older snapshots overwrite the rows.       *)
(***************************************************************************)
CompletedIsDone ==
  [][\A c \in Callers :
       LET b == calls[c].batch
       IN  calls[c].phase = "finish" /\ calls'[c].phase = "idle" /\ calls[c].seen # "VALIDATING"
           /\ batches'[b].status # batches[b].status =>
             \A l \in 1..Len(requests[b].file) :
               \/ settlements[b][l] \in Terminal
               \/ settlements[b][l] = "NONE" /\ batches'[b].status = "PARTIALLY_COMPLETED"]_batchVars

(***************************************************************************)
(* What createBatchFromRows is given is what the importer reads: the       *)
(* rendered text of a file, whatever quotes, commas, line feeds, carriage  *)
(* returns and byte-order marks the free text of its first and last row    *)
(* has, parses back into as many rows, with the verdict and the trimmed    *)
(* free text of each.  Parsing remembers nothing, so the texts are tried   *)
(* once, when the first import comes.                                      *)
(***************************************************************************)
asGiven(file) ==
  [l \in 1..Len(file) |-> [ok |-> file[l].instr = VALID, ref |-> trim(file[l].ref)]]

withText(file, ref) == [file EXCEPT ![1].ref = ref, ![Len(file)].ref = ref]

RowsSurviveCsv ==
  [][\A i \in Imports : (\A j \in Imports : imports[j].phase = "idle") /\ imports'[i].phase # "idle" =>
       \A ref \in References \cup {requests'[i].file[1].ref} :
         LET file == withText(requests'[i].file, ref)
         IN  parseBatchCsv(render(file)) = asGiven(file)]_batchVars

(***************************************************************************)
(* An import that began ends: it created its batch, answered with the one  *)
(* that was there, was refused, or its process died.  One thing alone can  *)
(* keep imports from ending: that they hold every connection of the pool   *)
(* and wait for one more, for ever (createBatchHandler, importBatchCsv),   *)
(* which takes as many imports at once as there are connections.  (Imports *)
(* are finitely many, so they are all over again and again.)               *)
(***************************************************************************)
EveryImportEnds ==
  \/ []<>(Running = {})
  \/ <>[](Cardinality(Running) = pool)

(***************************************************************************)
(* Every file becomes one batch, and every line of it one answer           *)
(* (importBatchCsv).                                                       *)
(***************************************************************************)
ImportIsExact ==
  /\ BatchesTypeOK
  /\ ImportedOnce
  /\ EveryRowIsAnswered
=============================================================================
