------------------------------ MODULE OnInvoice ------------------------------
(***************************************************************************)
(* On-invoice actuals: files of invoice rows become batches and entries.   *)
(* uploadAndValidateFile creates the batch, validates every row and stores *)
(* the valid ones; processBatch settles the entries of a validated batch;  *)
(* validateBatch is open to any batch at any time.  Every await is a       *)
(* statement of its own and nothing spans two of them.                     *)
(*                                                                         *)
(* A DATE column reaches the code as text, not as a Date: the driver of    *)
(* TypeORM converts it and no column has a transformer.  So                *)
(* `invoiceDate.toISOString()` of a stored entry throws, in processBatch   *)
(* before its ledger entry is created and in validateBatch before its rows *)
(* are validated.  The code behind these calls is never reached, and what  *)
(* reaches them does what follows here.                                    *)
(***************************************************************************)
EXTENDS Integers, FiniteSets

CONSTANTS Handlers,     \* calls in flight at one time
          BatchIds,     \* batches, each with a batch code of its own
          NoBatch,      \* the batch of an idle handler
          RowKeys,      \* customer|invoice|date|sku|row number of a row
          Mortal        \* handlers whose call may die between two statements

ASSUME OnInvoiceAssumption == /\ NoBatch \notin BatchIds
                              /\ IsFiniteSet(RowKeys)
                              /\ Mortal \subseteq Handlers

VARIABLES batches,      \* rows of on_invoice_batches
          entries,      \* rows of on_invoice_entries
          calls,        \* handler -> the call it executes
          abandoned     \* batches a call died on (history)

onInvoiceVars == <<batches, entries, calls, abandoned>>

\* ABSENT: no row yet.
BatchStatuses == {"ABSENT", "PENDING", "VALIDATING", "VALIDATED", "PROCESSING",
                  "COMPLETED", "FAILED"}

\* known: some client has been told the id, by its upload or by GET /entries.
Batches == [status : BatchStatuses, validRows : 0..Cardinality(RowKeys),
            known : BOOLEAN]

\* Nothing posts an entry: see the header.
Entries == [key : RowKeys, batch : BatchIds, status : {"PENDING", "ERROR"}]

Steps == {"idle", "upload.validating", "upload.rows", "upload.insert",
          "upload.validated", "validate.validating", "validate.entries",
          "process.processing", "process.load", "process.entries",
          "process.completed", "failed"}

\* Steps within the try block of an operation.
Guarded == Steps \ {"idle", "upload.validating", "validate.validating",
                    "process.processing", "failed"}

\* todo: the rows to validate or the entries to settle; valid: rows found so.
Calls == [at : Steps, batch : BatchIds \cup {NoBatch},
          todo : SUBSET RowKeys, valid : SUBSET RowKeys]

Idle == [at |-> "idle", batch |-> NoBatch, todo |-> {}, valid |-> {}]

OnInvoiceTypeOK == /\ batches \in [BatchIds -> Batches]
                   /\ entries \subseteq Entries
                   /\ calls \in [Handlers -> Calls]
                   /\ abandoned \subseteq BatchIds

OnInvoiceInit ==
    /\ batches = [b \in BatchIds |-> [status |-> "ABSENT", validRows |-> 0,
                                      known |-> FALSE]]
    /\ entries = {}
    /\ calls = [h \in Handlers |-> Idle]
    /\ abandoned = {}

-----------------------------------------------------------------------------
(* Statements of the repository and moves of a call.                       *)

FindByIdempotencyKey(key) == {e \in entries : e.key = key}

FindEntriesByBatchId(b) == {e \in entries : e.batch = b}

At(h, step) == calls[h].at = step

Proceed(h, step) == calls' = [calls EXCEPT ![h].at = step]

Return(h) == calls' = [calls EXCEPT ![h] = Idle]

UpdateStatus(h, status) ==
    batches' = [batches EXCEPT ![calls[h].batch].status = status]

-----------------------------------------------------------------------------
(* uploadAndValidateFile.                                                  *)

\* createBatch: the rows of the file are those of one fiscal period.
Upload(h, b, rows) ==
    /\ calls[h] = Idle
    /\ batches[b].status = "ABSENT"
    /\ batches' = [batches EXCEPT ![b].status = "PENDING"]
    /\ calls' = [calls EXCEPT ![h] = [Idle EXCEPT !.at = "upload.validating",
                                                  !.batch = b, !.todo = rows]]
    /\ UNCHANGED <<entries, abandoned>>

UploadValidating(h) == /\ At(h, "upload.validating")
                       /\ UpdateStatus(h, "VALIDATING")
                       /\ Proceed(h, "upload.rows")
                       /\ UNCHANGED <<entries, abandoned>>

\* validateRow: a row that is recorded already is an error, and so is one that
\* fails another check; master data decides about those.
ValidateRow(h, key) ==
    /\ At(h, "upload.rows")
    /\ key \in calls[h].todo
    /\ \E ok \in BOOLEAN :
         calls' = [calls EXCEPT
                     ![h].todo = @ \ {key},
                     ![h].valid = IF ok /\ FindByIdempotencyKey(key) = {}
                                    THEN @ \cup {key} ELSE @]
    /\ UNCHANGED <<batches, entries, abandoned>>

RowsValidated(h) ==
    /\ At(h, "upload.rows")
    /\ calls[h].todo = {}
    /\ Proceed(h, IF calls[h].valid = {} THEN "upload.validated"
                                         ELSE "upload.insert")
    /\ UNCHANGED <<batches, entries, abandoned>>

NewEntries(h, keys) ==
    [key : keys, batch : {calls[h].batch}, status : {"PENDING"}]

Recorded(keys) == {key \in keys : FindByIdempotencyKey(key) # {}}

\* Mutant: no unique index on the key.
InsertEntriesUnindexed(h) ==
    /\ At(h, "upload.insert")
    /\ entries' = entries \cup NewEntries(h, calls[h].valid)
    /\ batches' = [batches EXCEPT ![calls[h].batch].known = TRUE]
    /\ Proceed(h, "upload.validated")
    /\ UNCHANGED abandoned

\* Mutant: rows in conflict with the index are skipped.
InsertEntriesSkipping(h) ==
    /\ At(h, "upload.insert")
    /\ entries' = entries \cup
                    NewEntries(h, calls[h].valid \ Recorded(calls[h].valid))
    /\ batches' = [batches EXCEPT ![calls[h].batch].known = TRUE]
    /\ Proceed(h, "upload.validated")
    /\ UNCHANGED abandoned

\* createEntriesBatch: one transaction, so all of the rows or, when the unique
\* index refuses one of them, none (Throw).
InsertEntries(h) ==
    /\ At(h, "upload.insert")
    /\ Recorded(calls[h].valid) = {}
    /\ entries' = entries \cup NewEntries(h, calls[h].valid)
    /\ batches' = [batches EXCEPT ![calls[h].batch].known = TRUE]
    /\ Proceed(h, "upload.validated")
    /\ UNCHANGED abandoned

UploadValidated(h) ==
    /\ At(h, "upload.validated")
    /\ batches' = [batches EXCEPT
                     ![calls[h].batch] =
                       [status |-> "VALIDATED", known |-> TRUE,
                        validRows |-> Cardinality(calls[h].valid)]]
    /\ Return(h)
    /\ UNCHANGED <<entries, abandoned>>

-----------------------------------------------------------------------------
(* validateBatch: no status is refused, no outcome but FAILED is reached.  *)

ValidateBatch(h, b) ==
    /\ calls[h] = Idle
    /\ batches[b].known
    /\ calls' = [calls EXCEPT ![h] = [Idle EXCEPT !.at = "validate.validating",
                                                  !.batch = b]]
    /\ UNCHANGED <<batches, entries, abandoned>>

ValidateValidating(h) == /\ At(h, "validate.validating")
                         /\ UpdateStatus(h, "VALIDATING")
                         /\ Proceed(h, "validate.entries")
                         /\ UNCHANGED <<entries, abandoned>>

\* Without entries "lütfen dosyayı tekrar yükleyin", with entries their date.
ValidateEntries(h) == /\ At(h, "validate.entries")
                      /\ Proceed(h, "failed")
                      /\ UNCHANGED <<batches, entries, abandoned>>

-----------------------------------------------------------------------------
(* processBatch.                                                           *)

ProcessBatch(h, b) ==
    /\ calls[h] = Idle
    /\ batches[b].known
    /\ batches[b].status = "VALIDATED"
    /\ calls' = [calls EXCEPT ![h] = [Idle EXCEPT !.at = "process.processing",
                                                  !.batch = b]]
    /\ UNCHANGED <<batches, entries, abandoned>>

ProcessProcessing(h) == /\ At(h, "process.processing")
                        /\ UpdateStatus(h, "PROCESSING")
                        /\ Proceed(h, "process.load")
                        /\ UNCHANGED <<entries, abandoned>>

LoadEntries(h) ==
    /\ At(h, "process.load")
    /\ calls' = [calls EXCEPT
                   ![h].at = "process.entries",
                   ![h].todo = {e.key : e \in {e \in entries :
                                  /\ e.batch = calls[h].batch
                                  /\ e.status = "PENDING"}}]
    /\ UNCHANGED <<batches, entries, abandoned>>

\* Mutant: an entry that throws is only logged.
SettleEntryUnmarked(h, key) ==
    /\ At(h, "process.entries")
    /\ key \in calls[h].todo
    /\ calls' = [calls EXCEPT ![h].todo = @ \ {key}]
    /\ UNCHANGED <<batches, entries, abandoned>>

\* Without an envelope the entry is marked, with one its date throws and the
\* catch marks it.
SettleEntry(h, key) ==
    /\ At(h, "process.entries")
    /\ key \in calls[h].todo
    /\ entries' = {IF e.key = key /\ e.batch = calls[h].batch
                     THEN [e EXCEPT !.status = "ERROR"] ELSE e : e \in entries}
    /\ calls' = [calls EXCEPT ![h].todo = @ \ {key}]
    /\ UNCHANGED <<batches, abandoned>>

EntriesSettled(h) == /\ At(h, "process.entries")
                     /\ calls[h].todo = {}
                     /\ Proceed(h, "process.completed")
                     /\ UNCHANGED <<batches, entries, abandoned>>

\* Mutant: the counter goes down by what was there, once per call.
ProcessCompletedCounting(h) ==
    /\ At(h, "process.completed")
    /\ batches' =
         [batches EXCEPT
            ![calls[h].batch].status = "COMPLETED",
            ![calls[h].batch].validRows =
                @ - Cardinality(FindEntriesByBatchId(calls[h].batch))]
    /\ Return(h)
    /\ UNCHANGED <<entries, abandoned>>

\* validRows becomes the number of entries this call has posted.
ProcessCompleted(h) ==
    /\ At(h, "process.completed")
    /\ batches' = [batches EXCEPT ![calls[h].batch].status = "COMPLETED",
                                  ![calls[h].batch].validRows = 0]
    /\ Return(h)
    /\ UNCHANGED <<entries, abandoned>>

-----------------------------------------------------------------------------
(* Exceptions and crashes.                                                 *)

\* A statement of a try block throws: a violated index, a database error.
Throw(h) == /\ calls[h].at \in Guarded
            /\ Proceed(h, "failed")
            /\ UNCHANGED <<batches, entries, abandoned>>

\* Mutant: the catch only throws on.
WriteFailedNot(h) == /\ At(h, "failed")
                     /\ Return(h)
                     /\ UNCHANGED <<batches, entries, abandoned>>

\* The catch marks the batch, whatever its status is by now, and throws on.
WriteFailed(h) == /\ At(h, "failed")
                  /\ UpdateStatus(h, "FAILED")
                  /\ Return(h)
                  /\ UNCHANGED <<entries, abandoned>>

\* The process dies, or a statement outside the try block throws.
Die(h) == /\ h \in Mortal
          /\ calls[h] # Idle
          /\ abandoned' = abandoned \cup {calls[h].batch}
          /\ Return(h)
          /\ UNCHANGED <<batches, entries>>

-----------------------------------------------------------------------------

Arrive(h) == \E b \in BatchIds :
                \/ \E rows \in SUBSET RowKeys \ {{}} : Upload(h, b, rows)
                \/ ValidateBatch(h, b)
                \/ ProcessBatch(h, b)

\* The statement a call runs next, if it does not fail.
Continue(h) ==
    \/ UploadValidating(h) \/ RowsValidated(h) \/ InsertEntries(h)
    \/ UploadValidated(h)
    \/ ValidateValidating(h) \/ ValidateEntries(h)
    \/ ProcessProcessing(h) \/ LoadEntries(h) \/ EntriesSettled(h)
    \/ ProcessCompleted(h)
    \/ WriteFailed(h)
    \/ \E key \in RowKeys : ValidateRow(h, key) \/ SettleEntry(h, key)

OnInvoiceNext == \E h \in Handlers : \/ Arrive(h) \/ Continue(h)
                                     \/ Throw(h) \/ Die(h)

OnInvoiceSpec == OnInvoiceInit /\ [][OnInvoiceNext]_onInvoiceVars

\* The event loop goes on with every call that awaits; nobody has to call.
FairSpec == /\ OnInvoiceSpec
            /\ \A h \in Handlers : WF_onInvoiceVars(Continue(h) \/ Throw(h))

-----------------------------------------------------------------------------
(* Properties.                                                             *)

\* A row of an invoice is recorded once, though two uploads of the same file
\* each find that the other has not recorded it yet.
OneEntryPerRow ==
    \A e, f \in entries : e.key = f.key => e = f

\* A batch offered for processing holds every row its summary counts as valid,
\* each still to be settled: what validation read may be stale when the
\* entries are inserted, and another call may be at work on the batch.
ValidatedIsWhole ==
    \A b \in BatchIds : batches[b].status = "VALIDATED" =>
        /\ batches[b].validRows = Cardinality(FindEntriesByBatchId(b))
        /\ \A e \in FindEntriesByBatchId(b) : e.status = "PENDING"

\* A completed batch has nothing left to settle, though two calls may process
\* it at once and a third may validate it meanwhile.
CompletedIsSettled ==
    \A b \in BatchIds : batches[b].status = "COMPLETED" =>
        \A e \in FindEntriesByBatchId(b) : e.status # "PENDING"

\* No batch stays under way unless a call died on it: whatever throws, the
\* catch takes the batch out of VALIDATING and PROCESSING.
BatchSettles ==
    \A b \in BatchIds :
        batches[b].status \in {"VALIDATING", "PROCESSING"} ~>
            \/ batches[b].status \notin {"VALIDATING", "PROCESSING"}
            \/ b \in abandoned

=============================================================================
