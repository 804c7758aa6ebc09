# collmind.backend in TLA+

A verification project for the backend (`src/src`, NestJS + TypeORM +
PostgreSQL): its budget workflows, its actuals, its KPI engine and the life of
its database schema. It models the services statement by statement and the
migrations DDL statement by DDL statement, checks small instances with TLC, and
proves properties for instances of any size with TLAPS.

Paths below are relative to `src/src/modules/` unless they start with `src/`.

## 1. The system

Trade-spend management for one or more tenants. Two modes share a budget:

* *actuals-first*: a sales user files an **agreement** with a cap; an approver
  approves it, which reserves the cap from a budget envelope; invoices then
  consume it.
* *planning-first*: a planner builds a **plan** from forecasting units and
  tactics, whose spend is calculated; it is submitted, reviewed and approved,
  which commits the spend in an envelope.

Every operation is one HTTP request. **No handler opens a transaction and none
takes a lock that works**: every `await` is a statement of its own that commits
at once, so two requests interleave between any two statements, and a crash or
an exception leaves what was written so far. What keeps the data consistent is
the order of the statements, the status checks at the start of each handler
(stale by the time of the writes), and the unique indexes on
`(tenantId, idempotencyKey)`. That is what the models are about.

### Inventory

| component | state | operations | what makes it correct |
|---|---|---|---|
| budget ledger (`shared/budget/budget.service.ts`) | `budget_envelopes`, append-only `budget_transactions`, the view `v_budget_summary` | `createEnvelope`, `reserveForAgreement`, `releaseForAgreement`, `reserveForPlan`, `releaseForPlan`, `getBudgetStatus` | a document holds budget once and frees once, what it held, where it held it; an envelope never holds more than it was allocated |
| approval requests (`shared/approval`) | `approval_requests` | `createRequest`, `approve`, `reject`, `cancel` | one pending request per document; nobody decides their own |
| agreement workflow (`modes/actuals-first/agreement`) | `agreements` | `create`, `update`, `submit`, `approve`, `reject`, `cancel`, `delete` | status, request and reservation tell one story |
| plan workflow (`modes/planning-first/plan`) | `plans`, `plan_fus`, `plan_skus`, `plan_approval_history` | editing, `submit`, `approve`, `reject`, `delete` of `PlanService`; `submitForApproval`, `reviewPlan`, `escalateToFinance` of `ApprovalWorkflowService` | the two services agree on the lifecycle; what is approved is committed, what is returned is freed |
| off-invoice transactions (`agreement-transaction`) | `agreement_transactions` | `create`, `batchImport` | invoices stay within the cap and follow a reservation; each is recorded once and charged at most once |
| ledger (`ledger`) | `ledger_entries` | `createEntry`, `createFromAgreementTransaction` | one entry per source row |
| on-invoice batches (`on-invoice`) | `on_invoice_batches`, `on_invoice_entries` | `uploadAndValidateFile`, `validateBatch`, `processBatch` | a row is recorded once; the status of a batch tells the truth about its entries; a batch that started ends |
| KPI engine (`shared/kpi-engine`, `master-data/kpi`) | `kpis`; in memory the list cache with its timers and the formula cache | `create`, `update`, `remove` of definitions; `calculateSku`, `calculateFu`, `calculatePlan` | what is calculated follows the definitions, at most a TTL behind |
| schema and migrations (`src/src/database`, `src/entrypoint.sh`, `src/package.json`) | the tables, keys, enum types and the `migrations` history | `migration:run`, `migration:revert`, deployment | every migration applies from wherever the database is; in the end the entities find their columns |
| budget allocations (`shared/budget/budget-allocation.service.ts`) | counters per allocation | `createAllocation`, `reserveBudget`, `commitBudget`, `releaseBudget` | counters equal the sum of their reservations |
| long-term agreements (`shared/lta`) | `lta_agreements` | create, activate, calculate | no overlapping active periods |
| spend calculation (`shared/spend-calculation`) | breakdowns | distribution, validation | parts add up to the whole |
| file parsing, reporting, master data, tenants and users, notifications, authentication, seeds | tables of their own | single-statement CRUD, queries, framework configuration | nothing that interleaves |

Interactions: the workflows call `ApprovalService` and `BudgetService` directly
(synchronous awaits); `ApprovalController` changes a request without the
workflow; the invoice modules read agreements and write `ledger_entries`, which
the budget view reads; the recalculation of a plan asks the KPI engine, whose
caches all requests of a process share. Nothing is sent as a message and there
are no queues; the only timers are those of the KPI cache.

Hard behaviours: two approvals of different documents racing for one envelope;
two calls on one document; retries after a half-way crash; the best matching
envelope changing between reserve and release; a request decided behind the
workflow; NUMERIC columns compared as text; two services writing one status;
invoices of one agreement racing under one cap, with amounts that come as text; a batch validated while it is
processed; late answers and overlapping timers in a cache; migrations released,
raced and reverted out of the order of their timestamps.
`PROJECT.json` lists each hazard with its line and the properties that cover it.

## 2. Modules

```
Documents ─┬─ BudgetService (DecimalText) ─┬─ AgreementService ─┬─ MCAgreementService
           │                               │                    ├─ AgreementServiceProofs ── AgreementSerialProofs
           │                               │                    └─ AgreementTransactionService
           ├─ ApprovalService ─────────────┤                          ├─ MCAgreementTransactionService
           │                               │                          └─ AgreementTransactionServiceProofs
           │                               └─ PlanWorkflow ─┬─ MCPlanWorkflow
           │                                                └─ PlanWorkflowProofs ── PlanSerialProofs
           ├─ Reservation   (abstract; refined by AgreementService and PlanWorkflow)
           └─ Posting       (abstract; refined by AgreementTransactionService)

(AgreementTransactionServiceProofs also extends AgreementSerialProofs.)

OnInvoice ── OnInvoiceProofs
KpiEngine ─┬─ MCKpiEngine
           └─ KpiEngineProofs
Schema, Tables ── Migrations ─┬─ MigrationRunner ─┬─ MCMigrationRunner
Entities ─────────────────────┘                   └─ SchemaProofs
```

* **DecimalText**: `>=` between two decimal strings, which is what
  `checkBudgetAvailability` computes when both sides come from NUMERIC columns.
* **BudgetService**: the three tables, their queries, and the INSERTs with the
  unique index. `envelopes` is the sequence of ACTIVE envelopes with the match
  that `findEnvelopeByDimensions` returns last; `AvailableAmount` is the column
  of the view, with RESERVE and RELEASE but without COMMIT, as the SQL has it.
* **ApprovalService**: `approval_requests`. A decision is a guarded read
  (`MayDecide`) and, a statement later, an unguarded UPDATE (`WriteDecision`).
* **Reservation**: the abstract promise: `none -> held -> freed`, one envelope.
* **AgreementService**: the seven operations, the three direct endpoints of
  `ApprovalController`, envelope creation and failure.
* **PlanWorkflow**: both plan services. Steps that several operations share
  (`reserve`, `release`, `request`) are modelled once; `op` remembers which
  operation a call belongs to.
* **Posting**: the abstract promise of the actuals: an invoice is recorded once
  for one amount and charged at most once, to one envelope, for that amount.
* **AgreementTransactionService**: `create` and `batchImport`, composed with
  the whole of `AgreementService`, so that an agreement is created, approved and
  cancelled beside the invoices. A *poster* is a request with the rows it has
  still to do. A row comes through a validated endpoint, with a positive number,
  or through `validate-and-import`, whose body has an inline type that the
  `ValidationPipe` leaves alone: with any number, or with text (`form`), which
  `currentTotal + dto.amount` appends to the sum. The comparison with the cap
  then depends on how the amount is written (3.5 and `"9"` make 3.59, 3 and
  `" 9"` make `NaN`, 3 and `"9"` make 39) and may have either outcome in the
  model (`ExceedsCap`). `unchecked` is a history variable: the agreements of
  which an invoice was inserted that no check of the sum it makes has let pass,
  because another invoice came between its check and its insert or because its
  amount was text.
* **OnInvoice**: batches and entries; one action per `await`, the `try` blocks
  as `Throw` and `WriteFailed`. `abandoned` remembers the batches a call died
  on. The `DATE` column of an entry is text when it comes back from the driver,
  so `entry.invoiceDate.toISOString()` throws: `SettleEntry` and
  `ValidateEntries` do what the code does then.
* **KpiEngine**: definitions, the two caches of one process, the timers, and
  the recalculations (`callers`) that share them. Time passes in ticks; a due
  timer fires, and a due answer is received, before time goes on. `had` and
  `quiet` are history: what the table ever held, and since when it is unchanged.
* **Tables**: what each `CREATE TABLE` of the migrations gives: the columns
  that an INSERT must give a value, the others, the foreign keys.
  **Migrations**: `up` and `down` of the 33 migrations as sequences of
  statements. **Schema**: those statements as data, and their effect, including
  what PostgreSQL refuses. **Entities**: the columns of the TypeORM entities,
  the list `database.module.ts` registers, and the enum values the program
  writes.
* **MigrationRunner**: builds that carry more migrations are deployed
  (`Release`), processes run what they find pending (`Start`, then `Apply` or
  `Rollback`), an operator reverts the last one, the program inserts rows.

### How state and actions correspond to the code

A *handler* is a request in flight. `calls[h]` holds what the handler has read
into local variables and `at`, the statement it runs next; `"op.name"` is
statement `name` of operation `op`. One action is one `await` on the database
(or a read with the checks that follow it, up to the next `await`). `Return`
stands for the answer, success or exception. A read that cannot let the call go
on (wrong status, not found) changes nothing, so it is not an action: the guards
of `XxxRead` are the handler's checks. Rows are records with the columns some
decision depends on. A soft-deleted row stays in the table with `deleted` set;
`findById` does not find it but an UPDATE by id does, as in TypeORM. In
`PlanWorkflow`, `Forget` clears local variables the rest of the handler does not
use.

A definition under a comment `\* Mutant: ...` is a plausible bug in the
definition below it. It is in no specification; replacing the definition by it
must break the property that `PROJECT.json` lists beside it.

### Abstractions

* One tenant: every query filters on it.
* All documents of an instance ask for the same channel and period and all
  envelopes match them; which envelope matches best changes as envelopes are
  created. Moving a draft to another period (`update`) is thereby left out.
* Envelopes are ACTIVE from their creation and the allocated amount is fixed:
  no operation closes an envelope or changes its allocation.
* Amounts are whole units of one currency. They keep their text comparison.
* Codes, dates, KPI values, comments and `plan_approval_history` are left out;
  no operation reads them to decide anything.
* No caller passes `approvalLevels`, so a request has one level.
* Users have every role; what the code itself checks (own request, own
  submission) is modelled.
* The `reserveBudget` endpoint of `BudgetService` asks for a pessimistic lock
  outside a transaction, which TypeORM refuses: it never changes anything.
* On-invoice: the result of the checks on master data is a choice; a row is
  its idempotency key. Batch codes are taken to be different: two uploads in the
  same millisecond of a second share the code, and the second is refused.
* Schema: column types, lengths, defaults, indexes and ON DELETE rules are left
  out, and so are the enum types no later migration changes. A run takes effect
  at its commit: TypeORM runs what is pending in one transaction, whose DDL
  locks put two runs one after the other. Deployments and reverts wait for the
  runs in progress, as the pipeline (`gcloud run jobs execute --wait`) does.

## 3. Runs

| run | instance | checks | result |
|---|---|---|---|
| `agreement_concurrent` | 1 agreement, 2 handlers, 2 users, 2 envelopes, 2 requests, failures, all operations | `TypeOK`, `OneReservation`, `ReleaseBacked`, `ApprovedIsReserved`, `CancelledIsReleased`, `NoSelfDecision`, `RequestOnFile`, the inductive `Inv`, refinement of `Reservation` | hold |
| `agreement_serial` | 2 agreements, 2 handlers that keep apart (`Apart`, `TestsApart`), 2 envelopes, 3 requests, failures, all but direct decisions | `NoOvercommitment`, `ReleaseEqualsReserve`, `StatusMatchesRequest`, `ApprovedRequestIsReserved`, `LifecycleMoves` | hold |
| `agreement_race` | 2 agreements, 2 handlers, 1 envelope | `NoOvercommitment` | **violated**: both read the availability before either inserts |
| `agreement_text` | 1 agreement, 1 handler, allocation 9, cap 10 | `NoOvercommitment` | **violated**: `"9.00" >= "10.00"` as text |
| `agreement_own_approval` | 1 agreement, 1 handler, no failures | `RejectedHoldsNothing` | **violated**: the reservation precedes the EA-001 check, and reject does not release |
| `plan_concurrent` | 1 plan, 2 handlers, 2 users, 2 envelopes, 1 request, no failures, all but direct decisions and the escalation | `TypeOK`, `ReleaseBacked`, `RequestOnFile`, refinement of `Reservation` per (plan, envelope) | hold |
| `plan_serial` | 1 plan, 1 handler, 2 users, 2 envelopes, 2 requests, failures, all operations | `StatusMatchesRequest`, `OnePendingRequest`, `OneCommitment`, `LifecycleMoves`, `ReviewGivesBack` | hold |
| `plan_commitment` | 1 plan with on- and off-invoice spend, 1 handler, review route | `ApprovedIsCommitted` | **violated**: only the on-invoice amount is committed |
| `invoices` | 1 agreement with cap 4, 2 posters, 2 invoice numbers of amount 3, which comes as a number or as text, batches of up to 2 rows, 1 workflow call, failures | `PostingTypeOK`, `CapKept`, `InvoicedIsReserved`, refinement of `Posting` | hold |
| `on_invoice` | 2 handlers, one of which may die, 2 batches, 2 rows | `OnInvoiceTypeOK`, `OneEntryPerRow`, `ValidatedIsWhole`, `CompletedIsSettled`; under fairness `BatchSettles` | hold |
| `kpi_engine` | 1 KPI, 2 levels, 2 texts, 2 types, 2 recalculations, TTL 1 tick, queries of at most 1 tick, 2 timers | `KpiTypeOK`, `SettledIsCurrent`, `SettledFormula` | hold |
| `schema` | 33 migrations, the first 20 as the first build, 2 runners, rows in 3 tables | `SchemaTypeOK`, `EntitiesServed`, `RunNeverRefused`, `RecordedOnce`, `RevertThenRun` | hold |

Properties of the *concurrent* runs hold however calls overlap; those of the
*serial* runs hold only when calls on one document do not, which is worth
knowing: otherwise a late `approve` overwrites `REJECTED`, a stale `update`
changes a cap that is reserved already, and so on. In `agreement_serial` the
two handlers overlap on different agreements; the state constraints `Apart` and
`TestsApart` (section 4) cut off the behaviours in which they meet on one.
`plan_serial` has one handler, because two are too many states for a short run;
that the same condition is enough for plans is proved. `OneCommitment` is one of them: two
calls that find different envelopes commit one plan twice, because the key of a
commitment names the envelope; per envelope the promise is kept.

What the later runs show, and what they do not:

* `invoices`: the cap is broken only by a race between two checks or by an amount
  that came as text. `CapKept` says so in terms of `unchecked`; with only the
  races in it (`JoinsText` left out of `InsertRow`) TLC shows two invoices of 3,
  the second a text, under a cap of 4. An invoice never precedes a reservation,
  though the agreement may be cancelled before its ledger entry is written. A
  charge may never come: a crash between the two rows, a missing envelope or a deleted
  channel leaves the invoice recorded and uncharged, and the retry returns it as
  done. `Posting` allows that because the code has no step that would make up
  for it.
* `on_invoice`: all batches end with every entry in `ERROR`, because of the
  dates. The life cycle is sound all the same.
* `schema`: with two exceptions, which the properties name. Nothing creates the
  table of `UserScope`. `UpdateBudgetAllocationStructure` drops columns that
  only the younger `AddSpendManagementTables` creates, so it was written against
  a database on which that had run; on a fresh one, in timestamp order, the
  column `metadata` of `BudgetAllocation` is missing at the end. Rows stop the
  two restructuring migrations, whose new NOT NULL columns have no default.
  The migrations whose every statement looks before it changes anything
  (`LookFirst`) may be recorded twice by two runs. In timestamp order
  `AddSpendManagementTables` cannot be reverted: it drops `budget_allocations`, to which
  `budget_transaction_logs`, a table of the older migration, still refers.

### Bounds

* `Handlers`: two overlapping calls are enough for every race named in the
  hazards; the read of one call is separated from its write by any number of
  steps of the other, and with one document they always conflict.
* `Documents`: one where the property is about one document, two where
  documents compete.
* `Envelopes`: two, so that the best match changes between two lookups.
* `Users`: two, a requester and somebody else; symmetric.
* `MaxRequests`: bounds the rows of `approval_requests` (guard of
  `SubmitInsert`). Two or three allow a repeated submission; the concurrent
  plan run has one, and what a second request adds is in the serial run.
* `Caps`, `Edits`: one or two amounts, so that two documents do not fit in an
  envelope, and for plans a spend of both kinds and a plan emptied again.
* `CallsFail`: failures at every step. In `plan_concurrent` they are off, which
  is a bound for the sake of its size: a call that stops for good looks to the
  other like one that is slow.
* `MaxDigits` (4): the longest amount `DecimalText` can compare.
* `MaxRows` (2), `InvoiceNumbers` (2): a batch that goes on after a row that
  threw, and an invoice that is repeated within and across batches. One invoice
  fits under the cap, two do not. `Periods`: the agreement's, or one that no
  envelope matches. `RowsAsked`: which rows clients send. In `invoices` numbers
  are for the agreement's period and texts for the other, because all
  combinations are too many states for a short run. Negative amounts are for the
  proofs only; rows of amount 0 change no sum and are left out.
* `RowKeys`, `BatchIds` (2 each): two files that share all, some or no rows.
  `Mortal`: one call that may die is enough for a batch to be abandoned, and the
  other shows that what merely throws is not.
* `Ttl`, `MaxQuery` (1 tick each): a list may be stored a tick after it was
  read and lives for another. `Settled` is tight: with one tick less the runs
  fail. `MaxTimers` (2) bounds the timers at one instant: two stores.
* `Baseline` (the 20 migrations with hand-made timestamps) is one release;
  `MaxBehind` (3) and `MaxRepeats` (1) bound how far the database lags behind
  the build and how often a name is recorded again. Two runners race.
  `Populated`: the table whose rows a migration deletes and the two tables that
  are restructured.
* `Operations`: the endpoints in use; violation runs keep to those they need.

`CHECK_DEADLOCK FALSE` everywhere: when every document is decided or deleted,
every request or batch is used and every bound reached, the clients really have
nothing left to do.

Fairness: only `OnInvoice` assumes any. `FairSpec` is weak fairness, for each
handler, of `Continue \/ Throw`: the next statement of a call that is in
progress is executed or throws. The event loop of Node.js resumes every call
whose `await` has settled, without anybody asking for it, and the database
answers or the driver gives up. No fairness of arrivals is assumed, and a call
that dies is excused. The other models have none: nothing in that code retries a
request or finishes one that died, so no workflow has a liveness property that
its scheduling would justify.

## 4. Proofs

Eight modules hold theorems and lemmas; all theorems are of the form
`Spec => []P` or, where noted, `Spec => [][A]_vars`, for every value of the
constants. Several theorems have a condition besides the assumptions on the
constants. The first two below are conditions on behaviours: no code makes them
hold, so `Spec /\ []Apart => []P` speaks of the behaviours in which calls happen
to keep apart, and tells what a lock would be good for.

* `Apart`: no two calls rely on the same document. A call relies on an agreement
  from the statement that reads it to the one that writes its status
  (`RelyingSteps`), on a plan while it decides, submits or escalates
  (`Relying`). Calls on different documents interleave freely, and so do calls
  that rely on nothing: deletions and direct decisions of agreements, edits,
  recalculations and deletions of plans. One handler is the special case in
  which nothing overlaps at all. The properties `Apart` goes with are those of
  the serial runs; section 3 says how each fails without it.
* `TestsApart`: no two calls have found the same envelope sufficient and have
  yet to reserve.
* `NoDirectDecision`: the decision endpoints of `ApprovalController` are not in
  `Operations`. They approve a request and leave its agreement alone.
* `TextRefuses`: for the caps in use, an amount whose text is not less than
  the text of the cap is not less than the cap. Lemma `OneDigitRefuses` shows it
  of caps of one digit; the run `agreement_text` shows a cap it fails for.

### AgreementServiceProofs

For any sets of handlers, documents, users and envelopes, any number of
requests, and calls that may die anywhere:

| theorem | states |
|---|---|
| `Invariance` | `Spec => []Inv` |
| `TypeCorrect` | `Spec => []TypeOK` |
| `ReservesOnce` | `Spec => []OneReservation` |
| `ApprovedReserved` | `Spec => []ApprovedIsReserved` |
| `CancelledReleased` | `Spec => []CancelledIsReleased` |
| `ReleasesBacked` | `Spec => []ReleaseBacked` |
| `SegregationOfDuties` | `Spec => []NoSelfDecision` |
| `RequestsFiled` | `Spec => []RequestOnFile` |
| `Refinement` | `Spec => ImplementsReservation` |
| `DecidedByWorkflow` | `NoDirectDecision`: `Spec => []WorkflowDecides` |
| `ApprovedRequestReserved` | `NoDirectDecision`: `Spec => []ApprovedRequestIsReserved` |

Assumptions: `UserAssumption`, `EnvelopeAssumption`, `AgreementAssumption`
(the null values are not in the sets they complete; caps are positive numbers).

The argument. None of the properties is inductive. `Inv` adds what a call in
flight may rely on between its statements: `CallValid` (what it has read is of
the right kind), `CallBacked` (what it has done is still there: after
`approve.reserve` there is a RESERVE row, a call in `cancel` has one too) and
`CallEntitled` (its user may decide its request); `KeysInv` (a row of
`budget_transactions` and its key determine each other); `RequestsInv` (what
`approvalRequestId` refers to). These survive the steps of *other* calls because
`transactions` and `requests` only grow and neither the requester nor the entity
of a request ever changes; the growth lemmas say so once, then each part of
`Inv` has a lemma over all steps. `OneReservation` follows from `KeysInv` and
`ReleaseBacked`: two RESERVE rows of a document have the same key, and two
RELEASE rows name the envelope of that one reservation. `Refinement` then shows
that an inserted RESERVE or RELEASE row is a step of `Reservation` and every
other statement a stutter. `ApprovedRequestReserved` was in the serial run and
turned out to need no turns: a call that is about to approve a request has
passed `approve.reserve` (`CallBacked`), whoever else is at work, and only the
direct endpoints approve without that.

### AgreementSerialProofs

For any sets of handlers, documents, users, envelopes, caps and requests, with
calls that may die anywhere:

| theorem | states |
|---|---|
| `SerialInvariance` | `Spec /\ []Apart => []SerialInv` |
| `ReleasedAsReserved` | `Spec /\ []Apart => []ReleaseEqualsReserve` |
| `Lifecycle` | `Spec /\ []Apart => LifecycleMoves` (an action property) |
| `SameStory` | also `NoDirectDecision`: `Spec /\ []Apart => []StatusMatchesRequest` |
| `WithinAllocation` | also `TextRefuses`: `Spec /\ []Apart /\ []TestsApart => []NoOvercommitment` |

What they say of the code, which has no lock: one lock per agreement, held from
the read to the last write, would give all of them but the last, and it needs to
be neither taken by a deletion nor shared with other agreements. The last one
asks in addition for a lock per envelope from the availability test to the
reservation, the "Same envelope: Serialized (one at a time, pessimistic lock)"
of the budget criteria (`.cursordocs`, quoted in the finding of
`agreement_race`). The counterexample of that run approves two agreements: it
keeps `Apart` and breaks `TestsApart`.

The argument. `CallCurrent` says that what a call has read of its agreement is
still so when it writes: its status, its request and its cap. A step that
changes the record of a call is the call's own (`OwnStep`), and each of the
call's own statements keeps what it has read until the last. Of the others, a
call that writes a status, a request number or a cap relies on the agreement it
writes, so that is another one; a deletion and a creation touch none of the three
(`OthersKeep`). `RowCurrent` says that whatever was reserved or released is the cap of the
agreement, which has left DRAFT and cannot change any more (`CapStays`): hence
`ReleasedAsReserved`, and hence `Lifecycle`, as every write of a status
is made by a call that has seen the status before it. `SameStory` adds
`CallDecided`: between the decision and the write of the status the request is
decided the way the status is about to be. A call that dies in between leaves a
PENDING agreement with a decided request, which `StatusMatchesRequest` allows
and nobody can finish (a hazard). `WithinAllocation` adds `CallAffords`: between the
availability test and the INSERT the cap still fits, because what is available
in an envelope becomes less only when somebody reserves in it (`AvailableStep`),
and whoever does has passed the test of the same envelope; a RESERVE row then
adds the cap to the reserved amount and a RELEASE row lowers it. The theorem is
about the workflow alone, which posts nothing to the ledger: an entry of a
negative amount, which an unvalidated invoice can leave there, would make more
available than was allocated.

The sums over the rows of a table (`Total` of no rows, of one row, of a row more,
and that it depends on nothing but the amounts) are the lemmas of the second
section. The community modules define `MapThenSumSet` by a recursive function
over subsets, and the induction theorems of the library are out of the provers'
reach (they take an operator); the lemmas use a smallest counterexample instead:
a set of subsets of a finite set that is not empty has a minimal member
(`MinimalSubset`), so a function that is defined on all smaller subsets exists on
this one, and an equation that fails somewhere fails at a set all of whose proper
subsets satisfy it.

### AgreementTransactionServiceProofs

For any sets of posters, invoice numbers and amounts, batches of any length,
beside any number of workflow calls, all of which may die:

| theorem | states |
|---|---|
| `PostingInvariance` | `PostingSpec => []PostingInv` |
| `PostingTypeCorrect` | `PostingSpec => []PostingTypeOK` |
| `InvoicesReserved` | `PostingSpec => []InvoicedIsReserved` |
| `PostingRefinement` | `PostingSpec => ImplementsPosting` |
| `CapIsKept` | `PostingSpec /\ []Apart => []CapKept` |

Assumptions: those of `AgreementServiceProofs` and `InvoiceAssumption` (amounts
are whole numbers other than 0, of either sign).

The argument. The module extends `AgreementServiceProofs` and takes `Inv` and the
growth of `transactions` from there: when a poster reads an APPROVED agreement
there is a reservation (`ApprovedIsReserved`), and no step of anybody removes
it, so the invoice that is inserted any number of statements later follows one
although the status may be CANCELLED by then. `PosterTrusts` says that of a poster
under way; `PostersInv` adds that an invoice belongs to the call that inserted
it, so no two calls post the same one, and the check of `ReadEntry` is never
needed. `InvoicesInv` and `LedgerInv` say that rows and keys determine each other;
then every sum of the refinement is over at most one row (`OneOfEach`).
`CapIsKept` is about any number of rows. `PosterSees`: a poster between the check
and the INSERT whose row is a number and whose agreement is not `unchecked` has a
row that still fits under the cap, and an INSERT adds exactly its amount (`InsertAdds`). The cap
that was read is the cap that counts, because an agreement with a reservation has
left DRAFT; that is `RowCurrent` of the workflow, so the condition is that of
*workflow* calls. Posters race as they like, also with the approval and the
cancellation of their agreement.

### PlanWorkflowProofs

For any sets of handlers, plans, users and envelopes, any contents of plans, any
number of requests, and calls that may die anywhere:

| theorem | states |
|---|---|
| `Invariance` | `Spec => []Inv` |
| `TypeCorrect` | `Spec => []TypeOK` |
| `ReleasesBacked` | `Spec => []ReleaseBacked` |
| `RequestsFiled` | `Spec => []RequestOnFile` |
| `Refinement` | `Spec => ImplementsReservation` |

Assumptions: `UserAssumption`, `EnvelopeAssumption`, `PlanAssumption`.

The argument. Calls at 30 kinds of step share one record, so the invariant speaks of
a call as a record: `Trusts(c)` is what the call relies on. `Fits`: which
operations reach a shared statement. `Sound`: what it has read is of the right
kind, and an amount is due as long as it reserves. `Backed`: the request it
filed, the COMMIT rows it is about to release and the request number of the plan
it decides are still there. Each action shows `Trusts` of the call it moves
(the `Moves` lemmas), and `TrustStays` shows once that no step of anybody takes
away what a call trusts in, because tables only grow and a plan never loses its
request number. `KeysInv` and `ReleaseBacked` then give, for one plan and one
envelope, at most one row of either type (`OneRowEach`), which is the refinement.
`OneCommitment`, over all envelopes, is false when calls overlap (section 3).

### PlanSerialProofs

For any sets of handlers, plans, users and envelopes, any contents and any number
of requests, all operations of both services and the direct decisions included,
with calls that may die anywhere:

| theorem | states |
|---|---|
| `SerialInvariance` | `Spec /\ []Apart => []SerialInv` |
| `SameStory` | `Spec /\ []Apart => []StatusMatchesRequest` |
| `OneToDecide` | `Spec /\ []Apart => []OnePendingRequest` |
| `CommittedOnce` | `Spec /\ []Apart => []OneCommitment` |
| `Lifecycle` | `Spec /\ []Apart => LifecycleMoves` (an action property) |
| `ReviewsGiveBack` | `Spec /\ []Apart => ReviewGivesBack` (an action property) |

So one lock per plan, held by what decides, submits and escalates, would be
enough for all of them; editing, recalculating and deleting need not take it,
though a deletion releases budget and may do so in the middle of a review of the
same plan.

The argument. `Seen(h)` is what a call has read and nobody has changed since, in
three parts. `StatusSeen`: the status and the request number of its plan.
`RequestSeen`: before it files a request none can be decided, before it decides
one that one can, and before it writes a status the request has the outcome of
that status. `BudgetSeen`: between `findTransactionsBySource` and the INSERT
of a commitment the plan has none; and a review that is giving back has, for
every COMMIT row of the plan, released it or still holds it in the list it works
through, so that the list is empty only when all is back. `NewestPending` (only the newest
request of a plan can be decided) makes the lookup of the newest request
sufficient: when that is decided, none is pending. `StatusMatchesRequest` and
`CommitsOnce` are conjuncts themselves: they and `Seen` keep each other. The
steps of other calls are one lemma (`OthersSee`): whoever moves the status of a
plan (`Moves`), files or decides a request or inserts a COMMIT row relies on the
plan concerned, which by `Apart` is not the plan in hand, and a request belongs
to one plan only; the RELEASE rows a deletion inserts can only add to what is
given back.

### OnInvoiceProofs

For any number of handlers, any of them mortal, any batches and any finite set
of rows:

| theorem | states |
|---|---|
| `Invariance` | `OnInvoiceSpec => []Inv` |
| `TypeCorrect` | `OnInvoiceSpec => []OnInvoiceTypeOK` |
| `RecordedOnce` | `OnInvoiceSpec => []OneEntryPerRow` |
| `ValidatedWhole` | `OnInvoiceSpec => []ValidatedIsWhole` |
| `CompletedSettled` | `OnInvoiceSpec => []CompletedIsSettled` |

Assumption: `OnInvoiceAssumption` (a batch id is never the null value, a file
has finitely many rows, only handlers die).

The argument. Nothing locks a batch, so the invariant says who may be at work on
one. `UploadAlone`: until the upload that created a batch has written VALIDATED,
nobody else uploads or processes it (only `validateBatch` may get at it, once
its entries give its id away), because `processBatch` asks for VALIDATED and
nothing but that upload writes it; and its entries are exactly those the upload
has inserted. `SettlesAll`: a call that has read the entries and not yet written
COMPLETED has in its work list every entry of the batch that is still PENDING.
It survives a second `processBatch` (which only settles more), a
`validateBatch` in between (which touches no entry and can only end in FAILED)
and a crash (the work list dies with the call).
An action is first rewritten as a lemma about
what it does to the four variables, then each part of the invariant has a frame
lemma, which says when a step cannot disturb it, and the few actions that can
are proved by hand.

### KpiEngineProofs

For any definitions, callers, TTL, duration of a query and number of timers:

| theorem | states |
|---|---|
| `Invariance` | `Spec => []Inv` |
| `TypeCorrect` | `Spec => []KpiTypeOK` |
| `Current` | `Spec => SettledIsCurrent` (an action property) |
| `FormulaOfDefinition` | `Spec => SettledFormula` (an action property) |

Assumption: `KpiAssumption` (the TTL is positive, the set of formula types is
finite, the null type is not in it, a definition has a level).

The argument counts down. `LateAnswers`: an answer that is older than the last
change is still on its way only while the change is younger than a query can
last. `StaleIsDropped`: a stored list that is older than the change has a timer
that fires before the change is as old as a query and the TTL together. It need
not be the list's own timer, since every store starts one and none is ever
cleared, so the witness of the invariant changes when another timer fires first.
Together they leave no stale list once `quiet` is `Settled`, which is
`SettledIsCurrent`. `AllHeld` (whatever is cached was in the table once) gives
`SettledFormula`: two types for one text would have to be two rows of `had`.

### SchemaProofs

For any first build, any order of release that `Late` allows, any number of
processes that run migrations, any number of repeated rows, and whatever is
refused or reverted:

| theorem | states |
|---|---|
| `TypeCorrect` | `Spec => []SchemaTypeOK` |
| `HistoryTold` | `Spec => []Told` |
| `NeverTwice` | `Spec => []RecordedOnce` |
| `GiftsKept` | `Spec => []Served` |
| `SchemaServes` | `Spec => []EntitiesServed` |

Assumptions: `MigrationAssumption` (the timeline names exactly the migrations,
the constants are sets of names and numbers), and for the last two theorems
`OrderAssumption`: the first build has no gap but for the migrations of `Late`
(a build is a state of one repository, so it has every file that was there
before), and a late migration is one of `LookFirst`. The code bears out the
second part for the only one that can have been late,
`UpdateBudgetAllocationStructure`, which looks for what it alters because on some
databases the younger migration had run.

The 33 migrations are data of the model, so their statements are looked at one by
one; the number and order in which they run is not bounded, so what a run does
is an induction over its statements and a second one over its migrations (in
the form of a smallest counterexample: `ExecuteCourse`, `AfterPassage`).

`TypeCorrect`: a schema is `Sound` if no foreign key dangles, nor the view, rows
are in tables, NULLs in rows, and a required column is there and holds no NULL.
Each kind of statement keeps it so (`EffectSound`) if the statement is
`WellFormed`, which those of the migrations are.

`NeverTwice`: a migration that does not look first brings a column that was not
there, its `Mark`, and is refused where the mark is already (`UpMarks`). So it
cannot be recorded twice, provided the mark stays as long as the row of the
history does. No `up` takes a mark away. A `down` takes its own, and dropping a
table takes those of the migrations that added columns to it (`Own`); these must
not be in the history any more. `Recorded` therefore also says that a
migration comes after the one that creates its table (`Needs`): when an operator
reverts the last row there is nothing after it, and so nothing that needs it.
That in turn holds because a table of `Bases` is there only while its creation
is recorded: only that migration creates it (`UpFounds`), and its `down` drops it
(`DownFounds`). The nine migrations of `LookFirst` leave nothing that
would stop a second run; `MaxRepeats` lets the run `schema` record one twice.

`SchemaServes`: each migration gives the entities something, 59 `Gifts` in
all: a table, columns of a table that is there, columns that lose their NOT NULL
or are dropped, labels of an enum type. `Served` says that every gift of a
recorded migration is there; this suffices, for between them the gifts and what
a table has since it was created (`Core`, kept by `Shape`) are all that the
entities read and write (`ServedEntities`). `up` brings the gifts
of its migration, whether it finds the work done or does it, and takes none;
`down` takes its own and those of the migrations that alter the tables it drops
(`Upon`). So what a revert takes must not be recorded any more. Those upon
another migration are younger than it (`UponYounger`), and the invariant says
that whoever is recorded comes after every older migration that does not look
first (`InOrder`), hence nothing upon the last row is recorded before it. It is
kept because what is released, and so what a run finds pending, is in that order
(`Ordered`), and while a run is under way the history can only grow. One pair is not in the order of the timestamps:
`UpdateBudgetAllocationStructure` is older than `AddSpendManagementTables`, whose
table it alters. There it is the foreign key of `budget_transaction_logs` that
saves the gift: while the older one is recorded its table of logs is there, and
PostgreSQL refuses to drop the allocations.

Two definitions of MigrationRunner are recursive functions for the sake of the
proofs, where folds of the community modules would do for TLC: `After` (a run
executes one migration after the other) and `Kept` (the rows a revert leaves).

### What is only model-checked

* `RunNeverRefused` and `RevertThenRun`: the one says that no statement of any
  pending migration meets something in its way, which depends on every column
  and every NULL of the schema and not only on what the entities need; the other
  compares the whole schema with the one before.
* Liveness (`BatchSettles`), for it and ENABLED are out of the prover's reach.
* The violations, which are TLC's by nature.

All other properties of the runs have a theorem.

## 5. Findings

Four runs show the code disagreeing with the repository's own documents; each is
described with its quotation in `PROJECT.json`: over-commitment by racing
approvals, over-commitment by text comparison, budget held by rejected
agreements, and off-invoice spend of plans that is never committed.

Two more disagreements have no run. The glossary
(`src/.cursordocs/01_Main_BRD/Section_12_Glossary.md:129`) says "Once the cap is
reached, no further spend can be tracked against that agreement", but the check
of `agreement-transaction.service.ts:66` neither keeps racing invoices apart nor
adds an amount that comes as text through `validate-and-import`
(`agreement-transaction.controller.ts:343`); both are in the run `invoices`,
and `CapKept` names them as its exceptions. And `v_budget_summary` deducts
RESERVE rows but knows no COMMIT, so the commitments of plans never lower what
is available (`src/src/database/entities/budget-summary.view-entity.ts:51`), where the
glossary (`src/.cursordocs/01_Main_BRD/Section_12_Glossary.md:115`) says
"**Available:** Allocated - (Reserved + Committed + Consumed)". The view is
modelled as the SQL has it.

Also met while modelling and listed as hazards: `requestChanges` and a rolled
back submission leave the request PENDING, so that the plan cannot be submitted
again; a decision that dies before the status is written cannot be repeated; a
plan released and submitted again commits nothing. `DATE` columns are text when
they come back (`on-invoice.service.ts:386`, `budget-allocation.service.ts:275`),
so on-invoice spend never reaches the ledger and allocations cannot be reserved.
`PlanApprovalHistory` is not in the `entities` of `database.module.ts`, though
`plan.module.ts` asks for its repository. `KpiEngineService.clearCache` says
"call after KPI updates" and nothing calls it.

## 6. Not modelled, and what could follow

* `update` of a plan or a draft agreement to another channel or period: all
  documents of an instance match the same envelopes.
* **Budget allocations.** Nothing lives past `createAllocation`: `reserveBudget`
  calls `toISOString` on a `DATE` column and throws before it changes a counter,
  so `commitBudget` and `adjustUtilization` never find a reservation and
  `releaseBudget` only warns. The log entity maps `created_by` twice, so the
  INSERT of a log row names the column twice and PostgreSQL refuses it.
* **Long-term agreements.** Single-row operations and one query for overlaps,
  whose parameter `:expiryDate` has no type at its first use (`IS NOT NULL`);
  whether it runs at all is up to the driver, so there is no behaviour of the
  code to be faithful to.
* **Spend calculation** is floating-point arithmetic; saving a breakdown writes
  the id of an `Sku` into a foreign key to `plan_skus`, which PostgreSQL refuses.
* **Notifications**: `createNotification` has no caller.
* File formats, reporting, master data, tenants and users, authentication,
  seeds: single statements, queries and configuration.

Worth doing next: an instance of `PlanWorkflow` with two periods, for `update`;
a proof that every migration can be run in timestamp order on a schema without
rows, which is the part of `RunNeverRefused` that no constant decides.
