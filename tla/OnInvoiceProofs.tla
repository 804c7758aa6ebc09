--------------------------- MODULE OnInvoiceProofs ---------------------------
(***************************************************************************)
(* Proofs about OnInvoice for any number of calls, batches and rows, and   *)
(* whatever throws or dies.  Who uploads a batch has it for itself until   *)
(* the batch is VALIDATED, and from the first processBatch on nothing      *)
(* makes it VALIDATED again: that is what the invariant says.              *)
(***************************************************************************)
EXTENDS OnInvoice, FiniteSetTheorems, TLAPS

Uploading == {"upload.validating", "upload.rows", "upload.insert",
              "upload.validated"}

Processing == {"process.processing", "process.load", "process.entries",
               "process.completed"}

\* A call works on a batch that has a row; nobody knows one that has not.
BatchOnFile ==
    /\ \A h \in Handlers : calls[h] # Idle =>
         /\ calls[h].at # "idle"
         /\ calls[h].batch \in BatchIds
         /\ batches[calls[h].batch].status # "ABSENT"
    /\ \A b \in BatchIds : batches[b].status = "ABSENT" =>
         /\ ~batches[b].known
         /\ FindEntriesByBatchId(b) = {}

Settling == Processing \ {"process.processing"}

\* Until its upload ends, nobody else uploads or processes the batch, and it
\* holds nothing but what the upload has inserted.
Alone(h) ==
    LET b == calls[h].batch
    IN /\ batches[b].status \in {"PENDING", "VALIDATING", "FAILED"}
       /\ \A g \in Handlers \ {h} :
            calls[g].batch = b => calls[g].at \notin Uploading \cup Processing
       /\ FindEntriesByBatchId(b) = IF calls[h].at = "upload.validated"
                                      THEN NewEntries(h, calls[h].valid) ELSE {}

UploadAlone == \A h \in Handlers : calls[h].at \in Uploading => Alone(h)

\* A call that settles entries has all that are still to be settled.
HasAll(h) ==
    LET b == calls[h].batch
    IN /\ batches[b].status # "VALIDATED"
       /\ \A e \in FindEntriesByBatchId(b) : e.status = "PENDING" =>
            /\ calls[h].at # "process.completed"
            /\ calls[h].at = "process.entries" => e.key \in calls[h].todo

SettlesAll == \A h \in Handlers : calls[h].at \in Settling => HasAll(h)

Inv == /\ OnInvoiceTypeOK
       /\ BatchOnFile
       /\ UploadAlone
       /\ SettlesAll
       /\ OneEntryPerRow
       /\ ValidatedIsWhole
       /\ CompletedIsSettled

LEMMA InvInit == OnInvoiceInit => Inv
<1> SUFFICES ASSUME OnInvoiceInit PROVE Inv
  OBVIOUS
<1> USE DEF OnInvoiceInit
<1>1. Cardinality(RowKeys) \in Nat
  BY OnInvoiceAssumption, FS_CardinalityType
<1>2. OnInvoiceTypeOK
  BY <1>1 DEF OnInvoiceTypeOK, Batches, BatchStatuses, Calls, Steps, Idle
<1>3. BatchOnFile /\ UploadAlone /\ SettlesAll
  BY DEF BatchOnFile, UploadAlone, SettlesAll, FindEntriesByBatchId, Idle,
         Uploading, Processing, Settling
<1>4. OneEntryPerRow /\ ValidatedIsWhole /\ CompletedIsSettled
  BY DEF OneEntryPerRow, ValidatedIsWhole, CompletedIsSettled
<1>5. QED
  BY <1>2, <1>3, <1>4 DEF Inv

-----------------------------------------------------------------------------
(* What the moves of a call write, without EXCEPT.                          *)

Becomes(h, call) == /\ calls' \in [Handlers -> Calls]
                    /\ calls'[h] = call
                    /\ \A g \in Handlers \ {h} : calls'[g] = calls[g]

Sets(b, row) == /\ batches' \in [BatchIds -> Batches]
                /\ batches'[b] = row
                /\ \A c \in BatchIds \ {b} : batches'[c] = batches[c]

LEMMA ProceedEffect ==
    ASSUME OnInvoiceTypeOK, NEW h \in Handlers, NEW step \in Steps,
           Proceed(h, step)
    PROVE  Becomes(h, [at |-> step, batch |-> calls[h].batch,
                       todo |-> calls[h].todo, valid |-> calls[h].valid])
BY DEF OnInvoiceTypeOK, Calls, Proceed, Becomes

LEMMA ReturnEffect ==
    ASSUME OnInvoiceTypeOK, NEW h \in Handlers, Return(h)
    PROVE  Becomes(h, Idle)
BY DEF OnInvoiceTypeOK, Return, Becomes, Calls, Idle, Steps

LEMMA UpdateStatusEffect ==
    ASSUME OnInvoiceTypeOK, NEW h \in Handlers, NEW status \in BatchStatuses,
           calls[h].batch \in BatchIds, UpdateStatus(h, status)
    PROVE  Sets(calls[h].batch,
                [status |-> status,
                 validRows |-> batches[calls[h].batch].validRows,
                 known |-> batches[calls[h].batch].known])
BY DEF OnInvoiceTypeOK, Batches, UpdateStatus, Sets

\* A call that is not idle has a batch.
LEMMA BusyHasBatch ==
    ASSUME OnInvoiceTypeOK, BatchOnFile, NEW h \in Handlers,
           calls[h].at # "idle"
    PROVE  calls[h].batch \in BatchIds
BY DEF BatchOnFile, Idle

LEMMA UploadEffect ==
    ASSUME OnInvoiceTypeOK, NEW h \in Handlers, NEW b \in BatchIds,
           NEW rows \in SUBSET RowKeys, Upload(h, b, rows)
    PROVE  /\ Becomes(h, [at |-> "upload.validating", batch |-> b,
                          todo |-> rows, valid |-> {}])
           /\ Sets(b, [status |-> "PENDING", validRows |-> batches[b].validRows,
                       known |-> batches[b].known])
<1>1. Becomes(h, [at |-> "upload.validating", batch |-> b, todo |-> rows,
                  valid |-> {}])
  BY DEF OnInvoiceTypeOK, Upload, Idle, Becomes, Calls, Steps
<1>2. Sets(b, [status |-> "PENDING", validRows |-> batches[b].validRows,
               known |-> batches[b].known])
  BY DEF OnInvoiceTypeOK, Upload, Sets, Batches, BatchStatuses
<1>3. QED
  BY <1>1, <1>2

LEMMA RevisitEffect ==
    ASSUME OnInvoiceTypeOK, NEW h \in Handlers, NEW b \in BatchIds,
           NEW step \in Steps,
           calls' = [calls EXCEPT ![h] = [Idle EXCEPT !.at = step, !.batch = b]]
    PROVE  Becomes(h, [at |-> step, batch |-> b, todo |-> {}, valid |-> {}])
BY DEF OnInvoiceTypeOK, Idle, Becomes, Calls

LEMMA ValidateRowEffect ==
    ASSUME OnInvoiceTypeOK, NEW h \in Handlers, NEW key \in RowKeys,
           ValidateRow(h, key)
    PROVE  \E valid \in SUBSET RowKeys :
             Becomes(h, [at |-> "upload.rows", batch |-> calls[h].batch,
                         todo |-> calls[h].todo \ {key}, valid |-> valid])
<1>1. PICK valid \in SUBSET RowKeys :
        calls' = [calls EXCEPT ![h].todo = @ \ {key}, ![h].valid = valid]
  <2>1. calls[h].valid \in SUBSET RowKeys
    BY DEF OnInvoiceTypeOK, Calls
  <2>2. PICK ok \in BOOLEAN :
          calls' = [calls EXCEPT
                      ![h].todo = @ \ {key},
                      ![h].valid = IF ok /\ FindByIdempotencyKey(key) = {}
                                     THEN @ \cup {key} ELSE @]
    BY DEF ValidateRow
  <2>3. CASE ok /\ FindByIdempotencyKey(key) = {}
    <3>1. calls' = [calls EXCEPT ![h].todo = @ \ {key},
                                 ![h].valid = calls[h].valid \cup {key}]
      BY <2>2, <2>3 DEF OnInvoiceTypeOK, Calls
    <3>2. QED
      BY <2>1, <3>1
  <2>4. CASE ~(ok /\ FindByIdempotencyKey(key) = {})
    <3>1. calls' = [calls EXCEPT ![h].todo = @ \ {key},
                                 ![h].valid = calls[h].valid]
      BY <2>2, <2>4 DEF OnInvoiceTypeOK, Calls
    <3>2. QED
      BY <2>1, <3>1
  <2>5. QED
    BY <2>3, <2>4
<1>2. Becomes(h, [at |-> calls[h].at, batch |-> calls[h].batch,
                  todo |-> calls[h].todo \ {key}, valid |-> valid])
  BY <1>1 DEF OnInvoiceTypeOK, Becomes, Calls
<1>3. calls[h].at = "upload.rows"
  BY DEF ValidateRow, At
<1>4. QED
  BY <1>2, <1>3

LEMMA InsertEntriesEffect ==
    ASSUME OnInvoiceTypeOK, BatchOnFile, NEW h \in Handlers, InsertEntries(h)
    PROVE  /\ calls[h].batch \in BatchIds
           /\ calls[h].valid \subseteq RowKeys
           /\ Becomes(h, [at |-> "upload.validated", batch |-> calls[h].batch,
                          todo |-> calls[h].todo, valid |-> calls[h].valid])
           /\ Sets(calls[h].batch,
                   [status |-> batches[calls[h].batch].status,
                    validRows |-> batches[calls[h].batch].validRows,
                    known |-> TRUE])
<1>1. calls[h].batch \in BatchIds /\ calls[h].valid \subseteq RowKeys
  BY BusyHasBatch DEF InsertEntries, At, OnInvoiceTypeOK, Calls
<1>2. Proceed(h, "upload.validated") /\ "upload.validated" \in Steps
  BY DEF InsertEntries, Steps
<1>3. Sets(calls[h].batch,
           [status |-> batches[calls[h].batch].status,
            validRows |-> batches[calls[h].batch].validRows, known |-> TRUE])
  BY <1>1 DEF InsertEntries, OnInvoiceTypeOK, Batches, Sets
<1>4. QED
  BY <1>1, <1>2, <1>3, ProceedEffect

LEMMA UploadValidatedEffect ==
    ASSUME OnInvoiceTypeOK, BatchOnFile, NEW h \in Handlers, UploadValidated(h)
    PROVE  /\ calls[h].batch \in BatchIds
           /\ Becomes(h, Idle)
           /\ Sets(calls[h].batch,
                   [status |-> "VALIDATED", known |-> TRUE,
                    validRows |-> Cardinality(calls[h].valid)])
<1>1. calls[h].batch \in BatchIds
  BY BusyHasBatch DEF UploadValidated, At
<1>2. Cardinality(calls[h].valid) \in 0..Cardinality(RowKeys)
  <2>1. calls[h].valid \subseteq RowKeys
    BY DEF OnInvoiceTypeOK, Calls
  <2>2. QED
    BY <2>1, OnInvoiceAssumption, FS_Subset, FS_CardinalityType
<1>3. Sets(calls[h].batch, [status |-> "VALIDATED", known |-> TRUE,
                            validRows |-> Cardinality(calls[h].valid)])
  BY <1>1, <1>2 DEF UploadValidated, OnInvoiceTypeOK, Batches, BatchStatuses, Sets
<1>4. QED
  BY <1>1, <1>3, ReturnEffect DEF UploadValidated

LEMMA LoadEntriesEffect ==
    ASSUME OnInvoiceTypeOK, NEW h \in Handlers, LoadEntries(h)
    PROVE  Becomes(h, [at |-> "process.entries", batch |-> calls[h].batch,
                       todo |-> {e.key : e \in {e \in entries :
                                   /\ e.batch = calls[h].batch
                                   /\ e.status = "PENDING"}},
                       valid |-> calls[h].valid])
<1> DEFINE found == {e.key : e \in {e \in entries :
                        /\ e.batch = calls[h].batch
                        /\ e.status = "PENDING"}}
<1>1. found \in SUBSET RowKeys
  BY DEF OnInvoiceTypeOK, Entries
<1>2. calls' = [calls EXCEPT ![h].at = "process.entries", ![h].todo = found]
  BY DEF LoadEntries
<1> HIDE DEF found
<1>3. Becomes(h, [at |-> "process.entries", batch |-> calls[h].batch,
                  todo |-> found, valid |-> calls[h].valid])
  BY <1>1, <1>2 DEF OnInvoiceTypeOK, Becomes, Calls, Steps
<1>4. QED
  BY <1>3 DEF found

LEMMA SettleEntryEffect ==
    ASSUME OnInvoiceTypeOK, NEW h \in Handlers, NEW key \in RowKeys,
           SettleEntry(h, key)
    PROVE  Becomes(h, [at |-> "process.entries", batch |-> calls[h].batch,
                       todo |-> calls[h].todo \ {key},
                       valid |-> calls[h].valid])
<1>1. Becomes(h, [at |-> calls[h].at, batch |-> calls[h].batch,
                  todo |-> calls[h].todo \ {key}, valid |-> calls[h].valid])
  BY DEF SettleEntry, OnInvoiceTypeOK, Becomes, Calls
<1>2. calls[h].at = "process.entries"
  BY DEF SettleEntry, At
<1>3. QED
  BY <1>1, <1>2

LEMMA ProcessCompletedEffect ==
    ASSUME OnInvoiceTypeOK, BatchOnFile, NEW h \in Handlers, ProcessCompleted(h)
    PROVE  /\ calls[h].batch \in BatchIds
           /\ Becomes(h, Idle)
           /\ Sets(calls[h].batch,
                   [status |-> "COMPLETED", validRows |-> 0,
                    known |-> batches[calls[h].batch].known])
<1>1. calls[h].batch \in BatchIds
  BY BusyHasBatch DEF ProcessCompleted, At
<1>2. 0 \in 0..Cardinality(RowKeys)
  BY OnInvoiceAssumption, FS_CardinalityType
<1>3. Sets(calls[h].batch, [status |-> "COMPLETED", validRows |-> 0,
                            known |-> batches[calls[h].batch].known])
  BY <1>1, <1>2 DEF ProcessCompleted, OnInvoiceTypeOK, Batches, BatchStatuses, Sets
<1>4. QED
  BY <1>1, <1>3, ReturnEffect DEF ProcessCompleted

-----------------------------------------------------------------------------
(* Each part of the invariant, over all steps.                              *)

LEMMA TypeStep ==
    ASSUME OnInvoiceTypeOK, BatchOnFile, [OnInvoiceNext]_onInvoiceVars
    PROVE  OnInvoiceTypeOK'
<1>1. ASSUME NEW h \in Handlers, NEW b \in BatchIds,
             \E rows \in SUBSET RowKeys \ {{}} : Upload(h, b, rows)
      PROVE  OnInvoiceTypeOK'
  BY <1>1, UploadEffect DEF Upload, OnInvoiceTypeOK, Becomes, Sets
<1>2. ASSUME NEW h \in Handlers, NEW b \in BatchIds,
             ValidateBatch(h, b) \/ ProcessBatch(h, b)
      PROVE  OnInvoiceTypeOK'
  <2>1. Becomes(h, [at |-> "validate.validating", batch |-> b, todo |-> {},
                    valid |-> {}])
        \/ Becomes(h, [at |-> "process.processing", batch |-> b, todo |-> {},
                       valid |-> {}])
    BY <1>2, RevisitEffect DEF ValidateBatch, ProcessBatch, Steps
  <2>2. QED
    BY <1>2, <2>1 DEF ValidateBatch, ProcessBatch, OnInvoiceTypeOK, Becomes
<1>3. ASSUME NEW h \in Handlers,
             \/ UploadValidating(h) \/ ValidateValidating(h)
             \/ ProcessProcessing(h)
      PROVE  OnInvoiceTypeOK'
  <2>1. /\ calls[h].batch \in BatchIds
        /\ UNCHANGED <<entries, abandoned>>
        /\ \E status \in BatchStatuses : UpdateStatus(h, status)
        /\ \E step \in Steps : Proceed(h, step)
    BY <1>3, BusyHasBatch DEF UploadValidating, ValidateValidating,
         ProcessProcessing, At, BatchStatuses, Steps
  <2>2. QED
    BY <2>1, UpdateStatusEffect, ProceedEffect DEF OnInvoiceTypeOK, Becomes, Sets
<1>4. ASSUME NEW h \in Handlers,
             \/ RowsValidated(h) \/ ValidateEntries(h) \/ EntriesSettled(h)
             \/ Throw(h)
      PROVE  OnInvoiceTypeOK'
  <2>1. /\ UNCHANGED <<batches, entries, abandoned>>
        /\ \E step \in Steps : Proceed(h, step)
    BY <1>4 DEF RowsValidated, ValidateEntries, EntriesSettled, Throw, Steps
  <2>2. QED
    BY <2>1, ProceedEffect DEF OnInvoiceTypeOK, Becomes
<1>5. ASSUME NEW h \in Handlers, NEW key \in RowKeys, ValidateRow(h, key)
      PROVE  OnInvoiceTypeOK'
  BY <1>5, ValidateRowEffect DEF ValidateRow, OnInvoiceTypeOK, Becomes
<1>6. ASSUME NEW h \in Handlers, InsertEntries(h)
      PROVE  OnInvoiceTypeOK'
  <2>1. NewEntries(h, calls[h].valid) \subseteq Entries
    BY <1>6, InsertEntriesEffect DEF NewEntries, Entries
  <2>2. QED
    BY <1>6, <2>1, InsertEntriesEffect
       DEF InsertEntries, OnInvoiceTypeOK, Becomes, Sets
<1>7. ASSUME NEW h \in Handlers, UploadValidated(h)
      PROVE  OnInvoiceTypeOK'
  BY <1>7, UploadValidatedEffect
     DEF UploadValidated, OnInvoiceTypeOK, Becomes, Sets
<1>8. ASSUME NEW h \in Handlers, LoadEntries(h)
      PROVE  OnInvoiceTypeOK'
  BY <1>8, LoadEntriesEffect DEF LoadEntries, OnInvoiceTypeOK, Becomes
<1>9. ASSUME NEW h \in Handlers, NEW key \in RowKeys, SettleEntry(h, key)
      PROVE  OnInvoiceTypeOK'
  <2>1. entries' \subseteq Entries
    BY <1>9 DEF SettleEntry, OnInvoiceTypeOK, Entries
  <2>2. QED
    BY <1>9, <2>1, SettleEntryEffect DEF SettleEntry, OnInvoiceTypeOK, Becomes
<1>10. ASSUME NEW h \in Handlers, ProcessCompleted(h)
       PROVE  OnInvoiceTypeOK'
  BY <1>10, ProcessCompletedEffect
     DEF ProcessCompleted, OnInvoiceTypeOK, Becomes, Sets
<1>11. ASSUME NEW h \in Handlers, WriteFailed(h)
       PROVE  OnInvoiceTypeOK'
  <2>1. calls[h].batch \in BatchIds /\ "FAILED" \in BatchStatuses
    BY <1>11, BusyHasBatch DEF WriteFailed, At, BatchStatuses
  <2>2. QED
    BY <1>11, <2>1, UpdateStatusEffect, ReturnEffect
       DEF WriteFailed, OnInvoiceTypeOK, Becomes, Sets
<1>12. ASSUME NEW h \in Handlers, Die(h)
       PROVE  OnInvoiceTypeOK'
  BY <1>12, ReturnEffect DEF Die, BatchOnFile, OnInvoiceTypeOK, Becomes
<1>13. CASE UNCHANGED onInvoiceVars
  BY <1>13 DEF onInvoiceVars, OnInvoiceTypeOK
<1>14. QED
  BY <1>1, <1>2, <1>3, <1>4, <1>5, <1>6, <1>7, <1>8, <1>9, <1>10, <1>11,
     <1>12, <1>13 DEF OnInvoiceNext, Arrive, Continue

\* What a step must show of the call h it runs for BatchOnFile to survive.
LEMMA OnFileFrame ==
    ASSUME BatchOnFile, NEW h \in Handlers,
           \A g \in Handlers \ {h} : calls'[g] = calls[g],
           calls'[h] # Idle => /\ calls'[h].at # "idle"
                               /\ calls'[h].batch \in BatchIds
                               /\ batches'[calls'[h].batch].status # "ABSENT",
           \A b \in BatchIds : batches'[b].status = "ABSENT" =>
             /\ batches[b].status = "ABSENT"
             /\ batches'[b].known = batches[b].known
             /\ FindEntriesByBatchId(b) = {} => FindEntriesByBatchId(b)' = {}
    PROVE  BatchOnFile'
<1>1. \A g \in Handlers : calls'[g] # Idle =>
        /\ calls'[g].at # "idle"
        /\ calls'[g].batch \in BatchIds
        /\ batches'[calls'[g].batch].status # "ABSENT"
  BY DEF BatchOnFile
<1>2. \A b \in BatchIds : batches'[b].status = "ABSENT" =>
        ~batches'[b].known /\ FindEntriesByBatchId(b)' = {}
  BY DEF BatchOnFile
<1>3. Idle' = Idle
  BY DEF Idle
<1>4. QED
  BY <1>1, <1>2, <1>3 DEF BatchOnFile

LEMMA OnFileStep ==
    ASSUME OnInvoiceTypeOK, BatchOnFile, [OnInvoiceNext]_onInvoiceVars
    PROVE  BatchOnFile'
<1>0. ASSUME UNCHANGED entries
      PROVE  \A b : FindEntriesByBatchId(b)' = FindEntriesByBatchId(b)
  BY <1>0 DEF FindEntriesByBatchId
<1>1. ASSUME NEW h \in Handlers, NEW b \in BatchIds,
             NEW rows \in SUBSET RowKeys, Upload(h, b, rows)
      PROVE  BatchOnFile'
  <2>1. UNCHANGED entries
    BY <1>1 DEF Upload
  <2>2. /\ Becomes(h, [at |-> "upload.validating", batch |-> b,
                       todo |-> rows, valid |-> {}])
        /\ Sets(b, [status |-> "PENDING", validRows |-> batches[b].validRows,
                    known |-> batches[b].known])
    BY <1>1, UploadEffect
  <2>3. QED
    BY <1>0, <2>1, <2>2, OnFileFrame DEF Becomes, Sets
<1>2. ASSUME NEW h \in Handlers, NEW b \in BatchIds,
             ValidateBatch(h, b) \/ ProcessBatch(h, b)
      PROVE  BatchOnFile'
  <2>1. PICK step \in {"validate.validating", "process.processing"} :
          Becomes(h, [at |-> step, batch |-> b, todo |-> {}, valid |-> {}])
    BY <1>2, RevisitEffect DEF ValidateBatch, ProcessBatch, Steps
  <2>2. batches[b].status # "ABSENT" /\ UNCHANGED <<batches, entries>>
    BY <1>2 DEF ValidateBatch, ProcessBatch, BatchOnFile
  <2>3. QED
    BY <1>0, <2>1, <2>2, OnFileFrame DEF Becomes
<1>3. ASSUME NEW h \in Handlers,
             \/ UploadValidating(h) \/ ValidateValidating(h)
             \/ ProcessProcessing(h)
      PROVE  BatchOnFile'
  <2>1. PICK status \in BatchStatuses \ {"ABSENT"}, step \in Steps \ {"idle"} :
          /\ calls[h].batch \in BatchIds
          /\ calls[h].at # "idle"
          /\ UNCHANGED entries
          /\ UpdateStatus(h, status)
          /\ Proceed(h, step)
    BY <1>3, BusyHasBatch DEF UploadValidating, ValidateValidating,
         ProcessProcessing, At, BatchStatuses, Steps
  <2>2. /\ Becomes(h, [at |-> step, batch |-> calls[h].batch,
                       todo |-> calls[h].todo, valid |-> calls[h].valid])
        /\ Sets(calls[h].batch,
                [status |-> status,
                 validRows |-> batches[calls[h].batch].validRows,
                 known |-> batches[calls[h].batch].known])
    BY <2>1, UpdateStatusEffect, ProceedEffect
  <2>3. QED
    BY <1>0, <2>1, <2>2, OnFileFrame DEF Becomes, Sets
<1>4. ASSUME NEW h \in Handlers,
             \/ RowsValidated(h) \/ ValidateEntries(h) \/ EntriesSettled(h)
             \/ Throw(h)
      PROVE  BatchOnFile'
  <2>1. PICK step \in Steps \ {"idle"} :
          /\ UNCHANGED <<batches, entries>>
          /\ calls[h] # Idle
          /\ Proceed(h, step)
    BY <1>4 DEF RowsValidated, ValidateEntries, EntriesSettled, Throw, Steps,
                At, Guarded, Idle
  <2>2. Becomes(h, [at |-> step, batch |-> calls[h].batch,
                    todo |-> calls[h].todo, valid |-> calls[h].valid])
    BY <2>1, ProceedEffect
  <2>3. calls[h].batch \in BatchIds
        /\ batches[calls[h].batch].status # "ABSENT"
    BY <2>1 DEF BatchOnFile
  <2>4. QED
    BY <1>0, <2>1, <2>2, <2>3, OnFileFrame DEF Becomes
<1>5. ASSUME NEW h \in Handlers, NEW key \in RowKeys, ValidateRow(h, key)
      PROVE  BatchOnFile'
  <2>1. /\ calls[h] # Idle
        /\ UNCHANGED <<batches, entries>>
    BY <1>5 DEF ValidateRow, At, Idle
  <2>2. calls[h].batch \in BatchIds
        /\ batches[calls[h].batch].status # "ABSENT"
    BY <2>1 DEF BatchOnFile
  <2>3. PICK todo, valid : Becomes(h, [at |-> "upload.rows",
                                       batch |-> calls[h].batch,
                                       todo |-> todo, valid |-> valid])
    BY <1>5, ValidateRowEffect
  <2>4. QED
    BY <1>0, <2>1, <2>2, <2>3, OnFileFrame DEF Becomes
<1>6. ASSUME NEW h \in Handlers, InsertEntries(h)
      PROVE  BatchOnFile'
  <2>1. /\ calls[h] # Idle
        /\ entries' = entries \cup NewEntries(h, calls[h].valid)
    BY <1>6 DEF InsertEntries, At, Idle
  <2>2. calls[h].batch \in BatchIds
        /\ batches[calls[h].batch].status # "ABSENT"
    BY <2>1 DEF BatchOnFile
  <2>3. \A b \in BatchIds \ {calls[h].batch} :
          FindEntriesByBatchId(b)' = FindEntriesByBatchId(b)
    BY <2>1 DEF FindEntriesByBatchId, NewEntries
  <2>4. /\ Becomes(h, [at |-> "upload.validated", batch |-> calls[h].batch,
                       todo |-> calls[h].todo, valid |-> calls[h].valid])
        /\ Sets(calls[h].batch,
                [status |-> batches[calls[h].batch].status,
                 validRows |-> batches[calls[h].batch].validRows,
                 known |-> TRUE])
    BY <1>6, InsertEntriesEffect
  <2>5. QED
    BY <2>2, <2>3, <2>4, OnFileFrame DEF Becomes, Sets
<1>7. ASSUME NEW h \in Handlers, UploadValidated(h)
      PROVE  BatchOnFile'
  <2>1. UNCHANGED entries
    BY <1>7 DEF UploadValidated
  <2>2. /\ calls[h].batch \in BatchIds
        /\ Becomes(h, Idle)
        /\ Sets(calls[h].batch,
                [status |-> "VALIDATED", known |-> TRUE,
                 validRows |-> Cardinality(calls[h].valid)])
    BY <1>7, UploadValidatedEffect
  <2>3. QED
    BY <1>0, <2>1, <2>2, OnFileFrame DEF Becomes, Sets
<1>8. ASSUME NEW h \in Handlers, LoadEntries(h)
      PROVE  BatchOnFile'
  <2>1. calls[h] # Idle /\ UNCHANGED <<batches, entries>>
    BY <1>8 DEF LoadEntries, At, Idle
  <2>2. calls[h].batch \in BatchIds
        /\ batches[calls[h].batch].status # "ABSENT"
    BY <2>1 DEF BatchOnFile
  <2>3. PICK todo : Becomes(h, [at |-> "process.entries",
                                batch |-> calls[h].batch, todo |-> todo,
                                valid |-> calls[h].valid])
    BY <1>8, LoadEntriesEffect
  <2>4. QED
    BY <1>0, <2>1, <2>2, <2>3, OnFileFrame DEF Becomes
<1>9. ASSUME NEW h \in Handlers, NEW key \in RowKeys, SettleEntry(h, key)
      PROVE  BatchOnFile'
  <2>1. \A b \in BatchIds : FindEntriesByBatchId(b) = {} =>
          FindEntriesByBatchId(b)' = {}
    BY <1>9 DEF SettleEntry, OnInvoiceTypeOK, Entries, FindEntriesByBatchId
  <2>2. calls[h] # Idle /\ UNCHANGED batches
    BY <1>9 DEF SettleEntry, At, Idle
  <2>3. calls[h].batch \in BatchIds
        /\ batches[calls[h].batch].status # "ABSENT"
    BY <2>2 DEF BatchOnFile
  <2>4. Becomes(h, [at |-> "process.entries", batch |-> calls[h].batch,
                    todo |-> calls[h].todo \ {key},
                    valid |-> calls[h].valid])
    BY <1>9, SettleEntryEffect
  <2>5. QED
    BY <2>1, <2>2, <2>3, <2>4, OnFileFrame DEF Becomes
<1>10. ASSUME NEW h \in Handlers, ProcessCompleted(h)
       PROVE  BatchOnFile'
  <2>1. UNCHANGED entries
    BY <1>10 DEF ProcessCompleted
  <2>2. /\ calls[h].batch \in BatchIds
        /\ Becomes(h, Idle)
        /\ Sets(calls[h].batch,
                [status |-> "COMPLETED", validRows |-> 0,
                 known |-> batches[calls[h].batch].known])
    BY <1>10, ProcessCompletedEffect
  <2>3. QED
    BY <1>0, <2>1, <2>2, OnFileFrame DEF Becomes, Sets
<1>11. ASSUME NEW h \in Handlers, WriteFailed(h)
       PROVE  BatchOnFile'
  <2>1. /\ calls[h].batch \in BatchIds
        /\ UpdateStatus(h, "FAILED")
        /\ Return(h)
        /\ UNCHANGED entries
    BY <1>11, BusyHasBatch DEF WriteFailed, At
  <2>2. Sets(calls[h].batch, [status |-> "FAILED",
             validRows |-> batches[calls[h].batch].validRows,
             known |-> batches[calls[h].batch].known])
    BY <2>1, UpdateStatusEffect DEF BatchStatuses
  <2>3. Becomes(h, Idle)
    BY <2>1, ReturnEffect
  <2>4. QED
    BY <1>0, <2>1, <2>2, <2>3, OnFileFrame DEF Becomes, Sets
<1>12. ASSUME NEW h \in Handlers, Die(h)
       PROVE  BatchOnFile'
  <2>1. Becomes(h, Idle) /\ UNCHANGED <<batches, entries>>
    BY <1>12, ReturnEffect DEF Die
  <2>2. QED
    BY <1>0, <2>1, OnFileFrame DEF Becomes
<1>13. CASE UNCHANGED onInvoiceVars
  BY <1>13 DEF onInvoiceVars, BatchOnFile, Idle, FindEntriesByBatchId
<1>14. QED
  BY <1>1, <1>2, <1>3, <1>4, <1>5, <1>6, <1>7, <1>8, <1>9, <1>10, <1>11,
     <1>12, <1>13 DEF OnInvoiceNext, Arrive, Continue

\* What a step of the call h, which works on b, must show for UploadAlone to
\* survive: the other uploads of b are not disturbed, its own goes on.
LEMMA AloneFrame ==
    ASSUME UploadAlone, NEW h \in Handlers, NEW b \in BatchIds,
           \A g \in Handlers \ {h} : calls'[g] = calls[g],
           calls'[h].at \in Uploading \cup Processing => calls'[h].batch = b,
           \A c \in BatchIds \ {b} :
             /\ batches'[c].status = batches[c].status
             /\ FindEntriesByBatchId(c)' = FindEntriesByBatchId(c),
           BatchOnFile,
           \A g \in Handlers \ {h} :
             calls[g].at \in Uploading /\ calls[g].batch = b =>
               /\ batches'[b].status \in {"PENDING", "VALIDATING", "FAILED"}
               /\ FindEntriesByBatchId(b)' = FindEntriesByBatchId(b)
               /\ calls'[h].at \notin Uploading \cup Processing,
           calls'[h].at \in Uploading => Alone(h)'
    PROVE  UploadAlone'
<1> SUFFICES ASSUME NEW g \in Handlers \ {h}, calls[g].at \in Uploading
             PROVE  Alone(g)'
  BY DEF UploadAlone
<1>1. Alone(g) /\ calls'[g] = calls[g] /\ calls[g].batch \in BatchIds
  BY DEF UploadAlone, BatchOnFile, Idle, Uploading
<1>2. NewEntries(g, calls[g].valid)' = NewEntries(g, calls[g].valid)
  BY <1>1 DEF NewEntries
<1>3. \A f \in Handlers \ {g} : calls'[f].batch = calls[g].batch =>
        calls'[f].at \notin Uploading \cup Processing
  BY <1>1 DEF Alone
<1>4. /\ batches'[calls[g].batch].status \in {"PENDING", "VALIDATING", "FAILED"}
      /\ FindEntriesByBatchId(calls[g].batch)' =
           FindEntriesByBatchId(calls[g].batch)
  BY <1>1 DEF Alone
<1>5. QED
  BY <1>1, <1>2, <1>3, <1>4 DEF Alone, FindEntriesByBatchId

LEMMA UploadAloneStep ==
    ASSUME OnInvoiceTypeOK, BatchOnFile, UploadAlone,
           [OnInvoiceNext]_onInvoiceVars
    PROVE  UploadAlone'
<1> USE DEF Becomes
<1>0. ASSUME UNCHANGED entries
      PROVE  \A b : FindEntriesByBatchId(b)' = FindEntriesByBatchId(b)
  BY <1>0 DEF FindEntriesByBatchId
\* Whoever uploads or processes a batch meets no other upload of it.
<1>a. ASSUME NEW h \in Handlers, calls[h].at \in Uploading \cup Processing,
             NEW g \in Handlers \ {h}, calls[g].at \in Uploading,
             calls[g].batch = calls[h].batch
      PROVE  FALSE
  BY <1>a DEF UploadAlone, Alone
<1>b. \A g \in Handlers : calls[g].at \in Uploading =>
        batches[calls[g].batch].status \in {"PENDING", "VALIDATING", "FAILED"}
  BY DEF UploadAlone, Alone
<1>1. ASSUME NEW h \in Handlers, NEW b \in BatchIds,
             NEW rows \in SUBSET RowKeys, Upload(h, b, rows)
      PROVE  UploadAlone'
  <2>1. UNCHANGED entries /\ batches[b].status = "ABSENT"
    BY <1>1 DEF Upload
  <2>2. /\ Becomes(h, [at |-> "upload.validating", batch |-> b,
                       todo |-> rows, valid |-> {}])
        /\ Sets(b, [status |-> "PENDING", validRows |-> batches[b].validRows,
                    known |-> batches[b].known])
    BY <1>1, UploadEffect
  <2>3. \A g \in Handlers : calls[g].batch = b =>
          calls[g].at \notin Uploading \cup Processing
    BY <2>1 DEF BatchOnFile, Idle, Uploading, Processing
  <2>4. Alone(h)'
    BY <1>0, <2>1, <2>2, <2>3 DEF Alone, Sets, BatchOnFile
  <2>5. QED
    BY <1>0, <2>1, <2>2, <2>3, <2>4, AloneFrame DEF Sets
<1>2. ASSUME NEW h \in Handlers, NEW b \in BatchIds,
             ValidateBatch(h, b) \/ ProcessBatch(h, b)
      PROVE  UploadAlone'
  <2>1. UNCHANGED <<batches, entries>>
    BY <1>2 DEF ValidateBatch, ProcessBatch
  <2>2. PICK step \in {"validate.validating", "process.processing"} :
          /\ Becomes(h, [at |-> step, batch |-> b, todo |-> {}, valid |-> {}])
          /\ step = "process.processing" => batches[b].status = "VALIDATED"
    BY <1>2, RevisitEffect DEF ValidateBatch, ProcessBatch, Steps
  <2>3. \A g \in Handlers : calls[g].at \in Uploading /\ calls[g].batch = b =>
          /\ batches[b].status \in {"PENDING", "VALIDATING", "FAILED"}
          /\ step \notin Uploading \cup Processing
    BY <2>2 DEF UploadAlone, Alone, Uploading, Processing
  <2>4. step \notin Uploading
    BY <2>2 DEF Uploading
  <2>5. QED
    BY <1>0, <2>1, <2>2, <2>3, <2>4, AloneFrame
<1>3. ASSUME NEW h \in Handlers, UploadValidating(h)
      PROVE  UploadAlone'
  <2>1. /\ calls[h].batch \in BatchIds
        /\ calls[h].at = "upload.validating"
        /\ UNCHANGED entries
        /\ UpdateStatus(h, "VALIDATING")
        /\ Proceed(h, "upload.rows")
    BY <1>3, BusyHasBatch DEF UploadValidating, At
  <2>2. /\ Becomes(h, [at |-> "upload.rows", batch |-> calls[h].batch,
                       todo |-> calls[h].todo, valid |-> calls[h].valid])
        /\ Sets(calls[h].batch,
                [status |-> "VALIDATING",
                 validRows |-> batches[calls[h].batch].validRows,
                 known |-> batches[calls[h].batch].known])
    BY <2>1, UpdateStatusEffect, ProceedEffect DEF BatchStatuses, Steps
  <2>3. calls[h].at \in Uploading
    BY <2>1 DEF Uploading
  <2>4. Alone(h)'
    BY <1>0, <2>1, <2>2, <2>3 DEF UploadAlone, Alone, Sets
  <2>5. QED
    BY <1>0, <1>a, <2>1, <2>2, <2>3, <2>4, AloneFrame DEF Sets
<1>4. ASSUME NEW h \in Handlers, ValidateValidating(h)
      PROVE  UploadAlone'
  <2>1. /\ calls[h].batch \in BatchIds
        /\ UNCHANGED entries
        /\ UpdateStatus(h, "VALIDATING")
        /\ Proceed(h, "validate.entries")
    BY <1>4, BusyHasBatch DEF ValidateValidating, At
  <2>2. /\ Becomes(h, [at |-> "validate.entries", batch |-> calls[h].batch,
                       todo |-> calls[h].todo, valid |-> calls[h].valid])
        /\ Sets(calls[h].batch,
                [status |-> "VALIDATING",
                 validRows |-> batches[calls[h].batch].validRows,
                 known |-> batches[calls[h].batch].known])
    BY <2>1, UpdateStatusEffect, ProceedEffect DEF BatchStatuses, Steps
  <2>3. "validate.entries" \notin Uploading \cup Processing
    BY DEF Uploading, Processing
  <2>4. QED
    BY <1>0, <2>1, <2>2, <2>3, AloneFrame DEF Sets
<1>5. ASSUME NEW h \in Handlers, ProcessProcessing(h)
      PROVE  UploadAlone'
  <2>1. /\ calls[h].batch \in BatchIds
        /\ calls[h].at = "process.processing"
        /\ UNCHANGED entries
        /\ UpdateStatus(h, "PROCESSING")
        /\ Proceed(h, "process.load")
    BY <1>5, BusyHasBatch DEF ProcessProcessing, At
  <2>2. /\ Becomes(h, [at |-> "process.load", batch |-> calls[h].batch,
                       todo |-> calls[h].todo, valid |-> calls[h].valid])
        /\ Sets(calls[h].batch,
                [status |-> "PROCESSING",
                 validRows |-> batches[calls[h].batch].validRows,
                 known |-> batches[calls[h].batch].known])
    BY <2>1, UpdateStatusEffect, ProceedEffect DEF BatchStatuses, Steps
  <2>3. calls[h].at \in Processing /\ "process.load" \notin Uploading
    BY <2>1 DEF Uploading, Processing
  <2>4. QED
    BY <1>0, <1>a, <2>1, <2>2, <2>3, AloneFrame DEF Sets
<1>6. ASSUME NEW h \in Handlers, RowsValidated(h)
      PROVE  UploadAlone'
  <2>1. PICK step \in {"upload.validated", "upload.insert"} :
          /\ calls[h].at = "upload.rows"
          /\ step = "upload.validated" => calls[h].valid = {}
          /\ UNCHANGED <<batches, entries>>
          /\ Proceed(h, step)
    BY <1>6 DEF RowsValidated, At
  <2>2. Becomes(h, [at |-> step, batch |-> calls[h].batch,
                    todo |-> calls[h].todo, valid |-> calls[h].valid])
    BY <2>1, ProceedEffect DEF Steps
  <2>3. calls[h].at \in Uploading /\ calls[h].batch \in BatchIds
    BY <2>1, BusyHasBatch DEF Uploading
  <2>4. step = "upload.validated" => NewEntries(h, calls[h].valid)' = {}
    BY <2>1, <2>2 DEF NewEntries
  <2>5. Alone(h)'
    <3>1. Alone(h) /\ FindEntriesByBatchId(calls[h].batch) = {}
      BY <2>1, <2>3 DEF UploadAlone, Alone
    <3>2. CASE step = "upload.validated"
      <4>1. calls'[h].batch = calls[h].batch
        BY <2>2
      <4>2. FindEntriesByBatchId(calls[h].batch)' =
              NewEntries(h, calls[h].valid)'
        <5>1. {e \in entries : e.batch = calls[h].batch} = {}
          BY <3>1 DEF FindEntriesByBatchId
        <5>2. QED
          BY <2>1, <2>4, <3>2, <4>1, <5>1 DEF FindEntriesByBatchId
      <4>3. /\ batches'[calls'[h].batch].status
                 \in {"PENDING", "VALIDATING", "FAILED"}
            /\ \A g \in Handlers \ {h} : calls'[g].batch = calls'[h].batch =>
                 calls'[g].at \notin Uploading \cup Processing
        BY <2>1, <2>2, <3>1, <4>1 DEF Alone
      <4>4. calls'[h].at = "upload.validated"
        BY <2>2, <3>2
      <4>5. QED
        BY <4>2, <4>3, <4>4 DEF Alone
    <3>3. CASE step = "upload.insert"
      <4>1. calls'[h].at # "upload.validated"
            /\ calls'[h].batch = calls[h].batch
        BY <2>2, <3>3
      <4>2. QED
        BY <1>0, <2>1, <2>2, <3>1, <4>1 DEF Alone
    <3>4. QED
      BY <3>2, <3>3
  <2>6. QED
    BY <1>0, <1>a, <2>1, <2>2, <2>3, <2>5, AloneFrame
<1>7. ASSUME NEW h \in Handlers,
             ValidateEntries(h) \/ EntriesSettled(h) \/ Throw(h)
      PROVE  UploadAlone'
  <2>1. PICK step \in {"failed", "process.completed"} :
          /\ calls[h].at # "idle"
          /\ step = "process.completed" => calls[h].at \in Processing
          /\ UNCHANGED <<batches, entries>>
          /\ Proceed(h, step)
    BY <1>7 DEF ValidateEntries, EntriesSettled, Throw, Guarded, At, Processing
  <2>2. Becomes(h, [at |-> step, batch |-> calls[h].batch,
                    todo |-> calls[h].todo, valid |-> calls[h].valid])
    BY <2>1, ProceedEffect DEF Steps
  <2>3. /\ calls[h].batch \in BatchIds
        /\ step \notin Uploading
        /\ step \in Processing => calls[h].at \in Processing
    BY <2>1, BusyHasBatch DEF Uploading, Processing
  <2>4. QED
    BY <1>0, <1>a, <1>b, <2>1, <2>2, <2>3, AloneFrame
<1>8. ASSUME NEW h \in Handlers, NEW key \in RowKeys, ValidateRow(h, key)
      PROVE  UploadAlone'
  <2>1. calls[h].at = "upload.rows" /\ UNCHANGED <<batches, entries>>
    BY <1>8 DEF ValidateRow, At
  <2>2. PICK valid \in SUBSET RowKeys :
          Becomes(h, [at |-> "upload.rows", batch |-> calls[h].batch,
                      todo |-> calls[h].todo \ {key}, valid |-> valid])
    BY <1>8, ValidateRowEffect
  <2>3. calls[h].at \in Uploading /\ calls[h].batch \in BatchIds
    BY <2>1, BusyHasBatch DEF Uploading
  <2>4. Alone(h)'
    BY <1>0, <2>1, <2>2, <2>3 DEF UploadAlone, Alone
  <2>5. QED
    BY <1>0, <1>a, <2>1, <2>2, <2>3, <2>4, AloneFrame
<1>9. ASSUME NEW h \in Handlers, InsertEntries(h)
      PROVE  UploadAlone'
  <2>1. /\ calls[h].at = "upload.insert"
        /\ entries' = entries \cup NewEntries(h, calls[h].valid)
    BY <1>9 DEF InsertEntries, At
  <2>2. /\ calls[h].batch \in BatchIds
        /\ Becomes(h, [at |-> "upload.validated", batch |-> calls[h].batch,
                       todo |-> calls[h].todo, valid |-> calls[h].valid])
        /\ Sets(calls[h].batch,
                [status |-> batches[calls[h].batch].status,
                 validRows |-> batches[calls[h].batch].validRows,
                 known |-> TRUE])
    BY <1>9, InsertEntriesEffect
  <2>3. calls[h].at \in Uploading
    BY <2>1 DEF Uploading
  <2>4. \A b \in BatchIds \ {calls[h].batch} :
          FindEntriesByBatchId(b)' = FindEntriesByBatchId(b)
    BY <2>1 DEF FindEntriesByBatchId, NewEntries
  <2>5. Alone(h)'
    <3>1. Alone(h)
      BY <2>3 DEF UploadAlone
    <3>2. FindEntriesByBatchId(calls[h].batch) = {}
      BY <2>1, <3>1 DEF Alone
    <3>3. FindEntriesByBatchId(calls[h].batch)' =
            NewEntries(h, calls[h].valid)
      <4>1. \A e \in NewEntries(h, calls[h].valid) : e.batch = calls[h].batch
        BY DEF NewEntries
      <4>2. calls'[h].batch = calls[h].batch
        BY <2>2
      <4>3. QED
        BY <2>1, <3>2, <4>1, <4>2 DEF FindEntriesByBatchId
    <3>4. NewEntries(h, calls[h].valid)' = NewEntries(h, calls[h].valid)
      <4>1. /\ calls'[h].batch = calls[h].batch
            /\ calls'[h].valid = calls[h].valid
        BY <2>2
      <4>2. QED
        BY <4>1 DEF NewEntries
    <3>5. QED
      BY <2>2, <3>1, <3>3, <3>4 DEF Alone, Sets, FindEntriesByBatchId
  <2>6. QED
    BY <1>a, <2>2, <2>3, <2>4, <2>5, AloneFrame DEF Sets
<1>10. ASSUME NEW h \in Handlers, UploadValidated(h)
       PROVE  UploadAlone'
  <2>1. UNCHANGED entries /\ calls[h].at \in Uploading
    BY <1>10 DEF UploadValidated, At, Uploading
  <2>2. /\ calls[h].batch \in BatchIds
        /\ Becomes(h, Idle)
        /\ Sets(calls[h].batch,
                [status |-> "VALIDATED", known |-> TRUE,
                 validRows |-> Cardinality(calls[h].valid)])
    BY <1>10, UploadValidatedEffect
  <2>3. Idle.at \notin Uploading \cup Processing
    BY DEF Idle, Uploading, Processing
  <2>4. QED
    BY <1>0, <1>a, <2>1, <2>2, <2>3, AloneFrame DEF Sets
<1>11. ASSUME NEW h \in Handlers, LoadEntries(h)
       PROVE  UploadAlone'
  <2>1. calls[h].at = "process.load" /\ UNCHANGED <<batches, entries>>
    BY <1>11 DEF LoadEntries, At
  <2>2. PICK todo : Becomes(h, [at |-> "process.entries",
                                batch |-> calls[h].batch, todo |-> todo,
                                valid |-> calls[h].valid])
    BY <1>11, LoadEntriesEffect
  <2>3. /\ calls[h].at \in Processing /\ calls[h].batch \in BatchIds
        /\ "process.entries" \notin Uploading
    BY <2>1, BusyHasBatch DEF Processing, Uploading
  <2>4. QED
    BY <1>0, <1>a, <2>1, <2>2, <2>3, AloneFrame
<1>12. ASSUME NEW h \in Handlers, NEW key \in RowKeys, SettleEntry(h, key)
       PROVE  UploadAlone'
  <2>1. calls[h].at = "process.entries" /\ UNCHANGED batches
    BY <1>12 DEF SettleEntry, At
  <2>2. Becomes(h, [at |-> "process.entries", batch |-> calls[h].batch,
                    todo |-> calls[h].todo \ {key},
                    valid |-> calls[h].valid])
    BY <1>12, SettleEntryEffect
  <2>3. /\ calls[h].at \in Processing /\ calls[h].batch \in BatchIds
        /\ "process.entries" \notin Uploading
    BY <2>1, BusyHasBatch DEF Processing, Uploading
  <2>4. \A b \in BatchIds \ {calls[h].batch} :
          FindEntriesByBatchId(b)' = FindEntriesByBatchId(b)
    BY <1>12 DEF SettleEntry, FindEntriesByBatchId, OnInvoiceTypeOK, Entries
  <2>5. QED
    BY <1>a, <2>1, <2>2, <2>3, <2>4, AloneFrame
<1>13. ASSUME NEW h \in Handlers, ProcessCompleted(h)
       PROVE  UploadAlone'
  <2>1. UNCHANGED entries /\ calls[h].at \in Processing
    BY <1>13 DEF ProcessCompleted, At, Processing
  <2>2. /\ calls[h].batch \in BatchIds
        /\ Becomes(h, Idle)
        /\ Sets(calls[h].batch,
                [status |-> "COMPLETED", validRows |-> 0,
                 known |-> batches[calls[h].batch].known])
    BY <1>13, ProcessCompletedEffect
  <2>3. Idle.at \notin Uploading \cup Processing
    BY DEF Idle, Uploading, Processing
  <2>4. QED
    BY <1>0, <1>a, <2>1, <2>2, <2>3, AloneFrame DEF Sets
<1>14. ASSUME NEW h \in Handlers, WriteFailed(h)
       PROVE  UploadAlone'
  <2>1. /\ calls[h].batch \in BatchIds
        /\ UpdateStatus(h, "FAILED")
        /\ Return(h)
        /\ UNCHANGED entries
    BY <1>14, BusyHasBatch DEF WriteFailed, At
  <2>2. /\ Becomes(h, Idle)
        /\ Sets(calls[h].batch, [status |-> "FAILED",
                validRows |-> batches[calls[h].batch].validRows,
                known |-> batches[calls[h].batch].known])
    BY <2>1, UpdateStatusEffect, ReturnEffect DEF BatchStatuses
  <2>3. Idle.at \notin Uploading \cup Processing
    BY DEF Idle, Uploading, Processing
  <2>4. QED
    BY <1>0, <2>1, <2>2, <2>3, AloneFrame DEF Sets
<1>15. ASSUME NEW h \in Handlers, Die(h)
       PROVE  UploadAlone'
  <2>1. /\ calls[h].batch \in BatchIds
        /\ Becomes(h, Idle)
        /\ UNCHANGED <<batches, entries>>
    BY <1>15, ReturnEffect DEF Die, BatchOnFile
  <2>2. Idle.at \notin Uploading \cup Processing
    BY DEF Idle, Uploading, Processing
  <2>3. QED
    BY <1>0, <1>b, <2>1, <2>2, AloneFrame
<1>16. CASE UNCHANGED onInvoiceVars
  BY <1>16 DEF onInvoiceVars, UploadAlone, Alone, FindEntriesByBatchId,
               NewEntries
<1>17. QED
  BY <1>1, <1>2, <1>3, <1>4, <1>5, <1>6, <1>7, <1>8, <1>9, <1>10, <1>11,
     <1>12, <1>13, <1>14, <1>15, <1>16 DEF OnInvoiceNext, Arrive, Continue

\* A step of h that leaves the entries alone and neither makes nor changes a
\* VALIDATED or COMPLETED batch: most of them.
Quiet(h) ==
    /\ \A g \in Handlers \ {h} : calls'[g] = calls[g]
    /\ UNCHANGED entries
    /\ \A b \in BatchIds : batches'[b].status \in {"VALIDATED", "COMPLETED"} =>
         /\ batches'[b].status = batches[b].status
         /\ batches'[b].validRows = batches[b].validRows

LEMMA ArriveQuiet ==
    ASSUME OnInvoiceTypeOK, BatchOnFile, NEW h \in Handlers, Arrive(h)
    PROVE  Quiet(h) /\ calls'[h].at \notin Settling
<1>1. ASSUME NEW b \in BatchIds, NEW rows \in SUBSET RowKeys, Upload(h, b, rows)
      PROVE  Quiet(h) /\ calls'[h].at \notin Settling
  <2>1. /\ Becomes(h, [at |-> "upload.validating", batch |-> b,
                       todo |-> rows, valid |-> {}])
        /\ Sets(b, [status |-> "PENDING", validRows |-> batches[b].validRows,
                    known |-> batches[b].known])
    BY <1>1, UploadEffect
  <2>2. UNCHANGED entries
    BY <1>1 DEF Upload
  <2>3. QED
    BY <2>1, <2>2 DEF Quiet, Becomes, Sets, Settling, Processing
<1>2. ASSUME NEW b \in BatchIds, ValidateBatch(h, b) \/ ProcessBatch(h, b)
      PROVE  Quiet(h) /\ calls'[h].at \notin Settling
  <2>1. UNCHANGED <<batches, entries>>
    BY <1>2 DEF ValidateBatch, ProcessBatch
  <2>2. PICK step \in {"validate.validating", "process.processing"} :
          Becomes(h, [at |-> step, batch |-> b, todo |-> {}, valid |-> {}])
    BY <1>2, RevisitEffect DEF ValidateBatch, ProcessBatch, Steps
  <2>3. step \notin Settling
    BY DEF Settling, Processing
  <2>4. QED
    BY <2>1, <2>2, <2>3 DEF Quiet, Becomes
<1>3. QED
  BY <1>1, <1>2 DEF Arrive

LEMMA StatusQuiet ==
    ASSUME OnInvoiceTypeOK, BatchOnFile, NEW h \in Handlers,
           \/ UploadValidating(h) \/ ValidateValidating(h)
           \/ ProcessProcessing(h) \/ WriteFailed(h)
    PROVE  /\ Quiet(h)
           /\ ~ProcessProcessing(h) => calls'[h].at \notin Settling
<1>1. PICK status \in {"VALIDATING", "PROCESSING", "FAILED"} :
        /\ calls[h].batch \in BatchIds
        /\ UpdateStatus(h, status)
        /\ UNCHANGED entries
  BY BusyHasBatch DEF UploadValidating, ValidateValidating, ProcessProcessing,
                      WriteFailed, At
<1>2. Sets(calls[h].batch, [status |-> status,
           validRows |-> batches[calls[h].batch].validRows,
           known |-> batches[calls[h].batch].known])
  BY <1>1, UpdateStatusEffect DEF BatchStatuses
<1>3. \/ \E step \in {"upload.rows", "validate.entries", "process.load"} :
           /\ Proceed(h, step)
           /\ step = "process.load" => ProcessProcessing(h)
      \/ Return(h)
  BY DEF UploadValidating, ValidateValidating, ProcessProcessing, WriteFailed
<1>4. PICK call : /\ Becomes(h, call)
                  /\ call.at \in {"upload.rows", "validate.entries",
                                  "process.load", "idle"}
                  /\ call.at = "process.load" => ProcessProcessing(h)
  <2>1. ASSUME NEW step \in {"upload.rows", "validate.entries", "process.load"},
               Proceed(h, step),
               step = "process.load" => ProcessProcessing(h)
        PROVE  \E call : /\ Becomes(h, call)
                         /\ call.at \in {"upload.rows", "validate.entries",
                                         "process.load", "idle"}
                         /\ call.at = "process.load" => ProcessProcessing(h)
    <3>1. Becomes(h, [at |-> step, batch |-> calls[h].batch,
                      todo |-> calls[h].todo, valid |-> calls[h].valid])
      BY <2>1, ProceedEffect DEF Steps
    <3>2. QED
      BY <2>1, <3>1
  <2>2. ASSUME Return(h)
        PROVE  \E call : /\ Becomes(h, call)
                         /\ call.at \in {"upload.rows", "validate.entries",
                                         "process.load", "idle"}
                         /\ call.at = "process.load" => ProcessProcessing(h)
    BY <2>2, ReturnEffect DEF Idle
  <2>3. QED
    BY <1>3, <2>1, <2>2
<1>5. QED
  BY <1>1, <1>2, <1>4 DEF Quiet, Becomes, Sets, Settling, Processing

\* The batches stay as they are.
LEMMA CallQuiet ==
    ASSUME OnInvoiceTypeOK, NEW h \in Handlers,
           \/ RowsValidated(h) \/ ValidateEntries(h) \/ LoadEntries(h)
           \/ EntriesSettled(h) \/ Throw(h) \/ Die(h)
           \/ \E key \in RowKeys : ValidateRow(h, key)
    PROVE  /\ Quiet(h)
           /\ LoadEntries(h) \/ EntriesSettled(h) \/ calls'[h].at \notin Settling
<1>1. UNCHANGED <<batches, entries>>
  BY DEF RowsValidated, ValidateEntries, LoadEntries, EntriesSettled, Throw,
         Die, ValidateRow
<1>2. ASSUME \E call : Becomes(h, call) /\ call.at \notin Settling
      PROVE  Quiet(h) /\ calls'[h].at \notin Settling
  BY <1>1, <1>2 DEF Quiet, Becomes
<1>3. CASE RowsValidated(h) \/ ValidateEntries(h) \/ Throw(h)
  <2>1. PICK step \in {"upload.validated", "upload.insert", "failed"} :
          Proceed(h, step)
    BY <1>3 DEF RowsValidated, ValidateEntries, Throw
  <2>2. Becomes(h, [at |-> step, batch |-> calls[h].batch,
                    todo |-> calls[h].todo, valid |-> calls[h].valid])
    BY <2>1, ProceedEffect DEF Steps
  <2>3. step \notin Settling
    BY DEF Settling, Processing
  <2>4. QED
    BY <1>2, <2>2, <2>3
<1>4. CASE LoadEntries(h) \/ EntriesSettled(h)
  <2>1. \E call : Becomes(h, call)
    BY <1>4, LoadEntriesEffect, ProceedEffect DEF EntriesSettled, Steps
  <2>2. QED
    BY <1>1, <1>4, <2>1 DEF Quiet, Becomes
<1>5. CASE Die(h)
  <2>1. Becomes(h, Idle) /\ Idle.at \notin Settling
    BY <1>5, ReturnEffect DEF Die, Idle, Settling, Processing
  <2>2. QED
    BY <1>2, <2>1
<1>6. ASSUME NEW key \in RowKeys, ValidateRow(h, key)
      PROVE  Quiet(h) /\ calls'[h].at \notin Settling
  <2>1. PICK valid \in SUBSET RowKeys :
          Becomes(h, [at |-> "upload.rows", batch |-> calls[h].batch,
                      todo |-> calls[h].todo \ {key}, valid |-> valid])
    BY <1>6, ValidateRowEffect
  <2>2. "upload.rows" \notin Settling
    BY DEF Settling, Processing
  <2>3. QED
    BY <1>2, <2>1, <2>2
<1>7. QED
  BY <1>3, <1>4, <1>5, <1>6

\* The steps that are left for the properties of entries and batches.
LEMMA StepCases ==
    ASSUME OnInvoiceTypeOK, BatchOnFile, OnInvoiceNext
    PROVE  \E h \in Handlers :
             \/ Quiet(h) /\ calls'[h].at \notin Settling
             \/ ProcessProcessing(h) \/ LoadEntries(h) \/ EntriesSettled(h)
             \/ InsertEntries(h) \/ UploadValidated(h) \/ ProcessCompleted(h)
             \/ \E key \in RowKeys : SettleEntry(h, key)
<1>1. PICK h \in Handlers : Arrive(h) \/ Continue(h) \/ Throw(h) \/ Die(h)
  BY DEF OnInvoiceNext
<1>2. CASE Arrive(h)
  BY <1>2, ArriveQuiet
<1>3. CASE UploadValidating(h) \/ ValidateValidating(h) \/ WriteFailed(h)
  BY <1>3, StatusQuiet
<1>4. CASE \/ RowsValidated(h) \/ ValidateEntries(h) \/ Throw(h) \/ Die(h)
           \/ \E key \in RowKeys : ValidateRow(h, key)
  BY <1>4, CallQuiet
<1>5. CASE \/ ProcessProcessing(h) \/ LoadEntries(h) \/ EntriesSettled(h)
           \/ InsertEntries(h) \/ UploadValidated(h) \/ ProcessCompleted(h)
           \/ \E key \in RowKeys : SettleEntry(h, key)
  BY <1>5
<1>6. QED
  BY <1>1, <1>2, <1>3, <1>4, <1>5 DEF Continue

\* What settling an entry does to the entries.
LEMMA SettledEntries ==
    ASSUME OnInvoiceTypeOK, NEW h \in Handlers, NEW key \in RowKeys,
           SettleEntry(h, key)
    PROVE  /\ \A f \in entries' : \E e \in entries :
                /\ f.key = e.key /\ f.batch = e.batch
                /\ f.status = "PENDING" =>
                     f = e /\ ~(e.key = key /\ e.batch = calls[h].batch)
           /\ \A f \in entries' : f.batch # calls[h].batch => f \in entries
           /\ \A e \in entries : e.batch # calls[h].batch => e \in entries'
BY DEF SettleEntry, OnInvoiceTypeOK, Entries

\* What a step of h must show for SettlesAll to survive.
LEMMA HasAllFrame ==
    ASSUME BatchOnFile, SettlesAll, NEW h \in Handlers,
           \A g \in Handlers \ {h} : calls'[g] = calls[g],
           \A g \in Handlers \ {h} : calls[g].at \in Settling =>
             /\ batches'[calls[g].batch].status # "VALIDATED"
             /\ \A e \in entries' :
                  /\ e.batch = calls[g].batch
                  /\ e.status = "PENDING"
                  => e \in entries,
           calls'[h].at \in Settling => HasAll(h)'
    PROVE  SettlesAll'
<1> SUFFICES ASSUME NEW g \in Handlers \ {h}, calls[g].at \in Settling
             PROVE  HasAll(g)'
  BY DEF SettlesAll
<1>1. HasAll(g) /\ calls'[g] = calls[g]
  BY DEF SettlesAll
<1>2. QED
  BY <1>1 DEF HasAll, FindEntriesByBatchId

LEMMA SettlesAllStep ==
    ASSUME OnInvoiceTypeOK, BatchOnFile, UploadAlone, SettlesAll,
           [OnInvoiceNext]_onInvoiceVars
    PROVE  SettlesAll'
\* Whoever uploads a batch meets nobody who settles it.
<1>a. ASSUME NEW h \in Handlers, calls[h].at \in Uploading,
             NEW g \in Handlers \ {h}, calls[g].at \in Settling
      PROVE  calls[g].batch # calls[h].batch
  BY <1>a DEF UploadAlone, Alone, Settling
<1>b. \A g \in Handlers : calls[g].at \in Settling =>
        /\ batches[calls[g].batch].status # "VALIDATED"
        /\ calls[g].batch \in BatchIds
  BY DEF SettlesAll, HasAll, BatchOnFile, Settling, Processing, Idle
<1>c. ASSUME NEW h \in Handlers, Quiet(h),
             calls'[h].at \in Settling => HasAll(h)'
      PROVE  SettlesAll'
  BY <1>b, <1>c, HasAllFrame DEF Quiet
<1>1. ASSUME NEW h \in Handlers, ProcessProcessing(h)
      PROVE  SettlesAll'
  <2>1. /\ calls[h].batch \in BatchIds
        /\ UpdateStatus(h, "PROCESSING")
        /\ Proceed(h, "process.load")
    BY <1>1, BusyHasBatch DEF ProcessProcessing, At
  <2>2. /\ Becomes(h, [at |-> "process.load", batch |-> calls[h].batch,
                       todo |-> calls[h].todo, valid |-> calls[h].valid])
        /\ Sets(calls[h].batch,
                [status |-> "PROCESSING",
                 validRows |-> batches[calls[h].batch].validRows,
                 known |-> batches[calls[h].batch].known])
    BY <2>1, UpdateStatusEffect, ProceedEffect DEF BatchStatuses, Steps
  <2>3. HasAll(h)'
    BY <2>2 DEF HasAll, Becomes, Sets
  <2>4. QED
    BY <1>c, <1>1, <2>3, StatusQuiet
<1>2. ASSUME NEW h \in Handlers, LoadEntries(h)
      PROVE  SettlesAll'
  <2>1. /\ UNCHANGED <<batches, entries>>
        /\ calls[h].at = "process.load"
    BY <1>2 DEF LoadEntries, At
  <2>2. Becomes(h, [at |-> "process.entries", batch |-> calls[h].batch,
                    todo |-> {e.key : e \in {e \in entries :
                                /\ e.batch = calls[h].batch
                                /\ e.status = "PENDING"}},
                    valid |-> calls[h].valid])
    BY <1>2, LoadEntriesEffect
  <2>3. batches[calls[h].batch].status # "VALIDATED"
    BY <1>b, <2>1 DEF Settling, Processing
  <2>4. HasAll(h)'
    BY <2>1, <2>2, <2>3 DEF HasAll, Becomes, FindEntriesByBatchId
  <2>5. QED
    BY <1>c, <1>2, <2>4, CallQuiet
<1>3. ASSUME NEW h \in Handlers, EntriesSettled(h)
      PROVE  SettlesAll'
  <2>1. /\ UNCHANGED <<batches, entries>>
        /\ calls[h].at = "process.entries"
        /\ calls[h].todo = {}
        /\ Proceed(h, "process.completed")
    BY <1>3 DEF EntriesSettled, At
  <2>2. Becomes(h, [at |-> "process.completed", batch |-> calls[h].batch,
                    todo |-> calls[h].todo, valid |-> calls[h].valid])
    BY <2>1, ProceedEffect DEF Steps
  <2>3. HasAll(h)
    BY <2>1 DEF SettlesAll, Settling, Processing
  <2>4. HasAll(h)'
    BY <2>1, <2>2, <2>3 DEF HasAll, Becomes, FindEntriesByBatchId
  <2>5. QED
    BY <1>c, <1>3, <2>4, CallQuiet
<1>4. ASSUME NEW h \in Handlers, InsertEntries(h)
      PROVE  SettlesAll'
  <2>1. /\ calls[h].at \in Uploading
        /\ entries' = entries \cup NewEntries(h, calls[h].valid)
    BY <1>4 DEF InsertEntries, At, Uploading
  <2>2. /\ calls[h].batch \in BatchIds
        /\ Becomes(h, [at |-> "upload.validated", batch |-> calls[h].batch,
                       todo |-> calls[h].todo, valid |-> calls[h].valid])
        /\ Sets(calls[h].batch,
                [status |-> batches[calls[h].batch].status,
                 validRows |-> batches[calls[h].batch].validRows,
                 known |-> TRUE])
    BY <1>4, InsertEntriesEffect
  <2>3. \A e \in NewEntries(h, calls[h].valid) : e.batch = calls[h].batch
    BY DEF NewEntries
  <2>4. "upload.validated" \notin Settling
    BY DEF Settling, Processing
  <2>5. QED
    BY <1>a, <1>b, <2>1, <2>2, <2>3, <2>4, HasAllFrame DEF Becomes, Sets
<1>5. ASSUME NEW h \in Handlers, UploadValidated(h)
      PROVE  SettlesAll'
  <2>1. calls[h].at \in Uploading /\ UNCHANGED entries
    BY <1>5 DEF UploadValidated, At, Uploading
  <2>2. /\ calls[h].batch \in BatchIds
        /\ Becomes(h, Idle)
        /\ Sets(calls[h].batch,
                [status |-> "VALIDATED", known |-> TRUE,
                 validRows |-> Cardinality(calls[h].valid)])
    BY <1>5, UploadValidatedEffect
  <2>3. Idle.at \notin Settling
    BY DEF Idle, Settling, Processing
  <2>4. QED
    BY <1>a, <1>b, <2>1, <2>2, <2>3, HasAllFrame DEF Becomes, Sets
<1>6. ASSUME NEW h \in Handlers, ProcessCompleted(h)
      PROVE  SettlesAll'
  <2>1. UNCHANGED entries
    BY <1>6 DEF ProcessCompleted
  <2>2. /\ calls[h].batch \in BatchIds
        /\ Becomes(h, Idle)
        /\ Sets(calls[h].batch,
                [status |-> "COMPLETED", validRows |-> 0,
                 known |-> batches[calls[h].batch].known])
    BY <1>6, ProcessCompletedEffect
  <2>3. Idle.at \notin Settling
    BY DEF Idle, Settling, Processing
  <2>4. QED
    BY <1>b, <2>1, <2>2, <2>3, HasAllFrame DEF Becomes, Sets
<1>7. ASSUME NEW h \in Handlers, NEW key \in RowKeys, SettleEntry(h, key)
      PROVE  SettlesAll'
  <2>1. /\ UNCHANGED batches
        /\ calls[h].at = "process.entries"
    BY <1>7 DEF SettleEntry, At
  <2>2. Becomes(h, [at |-> "process.entries", batch |-> calls[h].batch,
                    todo |-> calls[h].todo \ {key},
                    valid |-> calls[h].valid])
    BY <1>7, SettleEntryEffect
  <2>3. \A f \in entries' : f.status = "PENDING" =>
          f \in entries /\ ~(f.key = key /\ f.batch = calls[h].batch)
    BY <1>7, SettledEntries
  <2>4. HasAll(h)
    BY <2>1 DEF SettlesAll, Settling, Processing
  <2>5. HasAll(h)'
    BY <2>1, <2>2, <2>3, <2>4 DEF HasAll, Becomes, FindEntriesByBatchId
  <2>6. QED
    BY <1>b, <2>1, <2>2, <2>3, <2>5, HasAllFrame DEF Becomes
<1>8. CASE UNCHANGED onInvoiceVars
  BY <1>8 DEF onInvoiceVars, SettlesAll, HasAll, FindEntriesByBatchId
<1>9. QED
  BY <1>c, <1>1, <1>2, <1>3, <1>4, <1>5, <1>6, <1>7, <1>8, StepCases

LEMMA OneEntryStep ==
    ASSUME OnInvoiceTypeOK, BatchOnFile, OneEntryPerRow,
           [OnInvoiceNext]_onInvoiceVars
    PROVE  OneEntryPerRow'
<1>1. CASE UNCHANGED entries
  BY <1>1 DEF OneEntryPerRow
<1>2. ASSUME NEW h \in Handlers, InsertEntries(h)
      PROVE  OneEntryPerRow'
  <2>1. /\ \A key \in calls[h].valid : \A e \in entries : e.key # key
        /\ entries' = entries \cup NewEntries(h, calls[h].valid)
    BY <1>2 DEF InsertEntries, Recorded, FindByIdempotencyKey
  <2>2. \A e, f \in NewEntries(h, calls[h].valid) :
          e.key \in calls[h].valid /\ (e.key = f.key => e = f)
    BY DEF NewEntries
  <2>3. QED
    BY <2>1, <2>2 DEF OneEntryPerRow
<1>3. ASSUME NEW h \in Handlers, NEW key \in RowKeys, SettleEntry(h, key)
      PROVE  OneEntryPerRow'
  <2>1. SUFFICES ASSUME NEW f1 \in entries', NEW f2 \in entries',
                        f1.key = f2.key
                 PROVE  f1 = f2
    BY DEF OneEntryPerRow
  <2> DEFINE Settled(e) == IF e.key = key /\ e.batch = calls[h].batch
                             THEN [e EXCEPT !.status = "ERROR"] ELSE e
  <2>2. PICK e1 \in entries, e2 \in entries :
          f1 = Settled(e1) /\ f2 = Settled(e2)
    BY <1>3, <2>1 DEF SettleEntry
  <2>3. e1.key = f1.key /\ e2.key = f2.key
    BY <2>2 DEF OnInvoiceTypeOK, Entries
  <2>4. e1 = e2
    BY <2>1, <2>3 DEF OneEntryPerRow
  <2>5. QED
    BY <2>2, <2>4
<1>4. QED
  BY <1>1, <1>2, <1>3, StepCases
     DEF Quiet, ProcessProcessing, LoadEntries, EntriesSettled,
         UploadValidated, ProcessCompleted, onInvoiceVars

\* A row is one entry.
LEMMA NewEntriesCardinality ==
    ASSUME NEW h \in Handlers, NEW keys \in SUBSET RowKeys
    PROVE  Cardinality(NewEntries(h, keys)) = Cardinality(keys)
<1> DEFINE entry == [key \in keys |-> [key |-> key, batch |-> calls[h].batch,
                                       status |-> "PENDING"]]
<1>1. entry \in [keys -> NewEntries(h, keys)]
  BY DEF NewEntries
<1>2. \A k1, k2 \in keys : entry[k1] = entry[k2] => k1 = k2
  OBVIOUS
<1>3. \A e \in NewEntries(h, keys) : \E k \in keys : entry[k] = e
  BY DEF NewEntries
<1> HIDE DEF entry
<1>4. ExistsBijection(keys, NewEntries(h, keys))
  BY <1>1, <1>2, <1>3
     DEF ExistsBijection, Bijection, Injection, Surjection, IsInjective
<1>5. IsFiniteSet(keys)
  BY OnInvoiceAssumption, FS_Subset
<1>6. QED
  BY <1>4, <1>5, FS_Bijection

LEMMA ValidatedIsWholeStep ==
    ASSUME OnInvoiceTypeOK, BatchOnFile, UploadAlone, SettlesAll,
           ValidatedIsWhole, [OnInvoiceNext]_onInvoiceVars
    PROVE  ValidatedIsWhole'
\* Enough: a VALIDATED batch is as before, or it is whole now.
<1>a. ASSUME \A b \in BatchIds : batches'[b].status = "VALIDATED" =>
               \/ /\ batches'[b].status = batches[b].status
                  /\ batches'[b].validRows = batches[b].validRows
                  /\ FindEntriesByBatchId(b)' = FindEntriesByBatchId(b)
               \/ /\ batches'[b].validRows =
                       Cardinality(FindEntriesByBatchId(b)')
                  /\ \A e \in FindEntriesByBatchId(b)' : e.status = "PENDING"
      PROVE  ValidatedIsWhole'
  <2>1. SUFFICES ASSUME NEW b \in BatchIds, batches'[b].status = "VALIDATED"
                 PROVE  /\ batches'[b].validRows =
                             Cardinality(FindEntriesByBatchId(b)')
                        /\ \A e \in FindEntriesByBatchId(b)' :
                             e.status = "PENDING"
    BY DEF ValidatedIsWhole
  <2>2. QED
    BY <1>a, <2>1 DEF ValidatedIsWhole
<1>b. ASSUME UNCHANGED entries
      PROVE  \A b : FindEntriesByBatchId(b)' = FindEntriesByBatchId(b)
  BY <1>b DEF FindEntriesByBatchId
<1>1. ASSUME NEW h \in Handlers, Quiet(h)
      PROVE  ValidatedIsWhole'
  BY <1>a, <1>b, <1>1 DEF Quiet
<1>2. ASSUME NEW h \in Handlers, InsertEntries(h)
      PROVE  ValidatedIsWhole'
  <2>1. /\ calls[h].at \in Uploading
        /\ entries' = entries \cup NewEntries(h, calls[h].valid)
    BY <1>2 DEF InsertEntries, At, Uploading
  <2>2. /\ calls[h].batch \in BatchIds
        /\ Sets(calls[h].batch,
                [status |-> batches[calls[h].batch].status,
                 validRows |-> batches[calls[h].batch].validRows,
                 known |-> TRUE])
    BY <1>2, InsertEntriesEffect
  <2>3. batches[calls[h].batch].status # "VALIDATED"
    BY <2>1 DEF UploadAlone, Alone
  <2>4. \A b \in BatchIds \ {calls[h].batch} :
          FindEntriesByBatchId(b)' = FindEntriesByBatchId(b)
    BY <2>1 DEF FindEntriesByBatchId, NewEntries
  <2>5. QED
    BY <1>a, <2>2, <2>3, <2>4 DEF Sets
<1>3. ASSUME NEW h \in Handlers, UploadValidated(h)
      PROVE  ValidatedIsWhole'
  <2>1. calls[h].at = "upload.validated" /\ UNCHANGED entries
    BY <1>3 DEF UploadValidated, At
  <2>2. /\ calls[h].batch \in BatchIds
        /\ Sets(calls[h].batch,
                [status |-> "VALIDATED", known |-> TRUE,
                 validRows |-> Cardinality(calls[h].valid)])
    BY <1>3, UploadValidatedEffect
  <2>3. FindEntriesByBatchId(calls[h].batch) = NewEntries(h, calls[h].valid)
    BY <2>1 DEF UploadAlone, Alone, Uploading
  <2>4. Cardinality(NewEntries(h, calls[h].valid)) = Cardinality(calls[h].valid)
    BY NewEntriesCardinality DEF OnInvoiceTypeOK, Calls
  <2>5. \A e \in NewEntries(h, calls[h].valid) : e.status = "PENDING"
    BY DEF NewEntries
  <2>6. QED
    BY <1>a, <1>b, <2>1, <2>2, <2>3, <2>4, <2>5 DEF Sets
<1>4. ASSUME NEW h \in Handlers, ProcessCompleted(h)
      PROVE  ValidatedIsWhole'
  <2>1. UNCHANGED entries
    BY <1>4 DEF ProcessCompleted
  <2>2. /\ calls[h].batch \in BatchIds
        /\ Sets(calls[h].batch,
                [status |-> "COMPLETED", validRows |-> 0,
                 known |-> batches[calls[h].batch].known])
    BY <1>4, ProcessCompletedEffect
  <2>3. QED
    BY <1>a, <1>b, <2>1, <2>2 DEF Sets
<1>5. ASSUME NEW h \in Handlers, NEW key \in RowKeys, SettleEntry(h, key)
      PROVE  ValidatedIsWhole'
  <2>1. UNCHANGED batches /\ calls[h].at = "process.entries"
    BY <1>5 DEF SettleEntry, At
  <2>2. batches[calls[h].batch].status # "VALIDATED"
    BY <2>1 DEF SettlesAll, HasAll, Settling, Processing
  <2>3. \A b \in BatchIds \ {calls[h].batch} :
          FindEntriesByBatchId(b)' = FindEntriesByBatchId(b)
    BY <1>5 DEF SettleEntry, FindEntriesByBatchId, OnInvoiceTypeOK, Entries
  <2>4. QED
    BY <1>a, <2>1, <2>2, <2>3
<1>6. CASE UNCHANGED onInvoiceVars
  BY <1>6 DEF onInvoiceVars, ValidatedIsWhole, FindEntriesByBatchId
<1>7. QED
  BY <1>1, <1>2, <1>3, <1>4, <1>5, <1>6, StepCases, StatusQuiet, CallQuiet

LEMMA CompletedIsSettledStep ==
    ASSUME OnInvoiceTypeOK, BatchOnFile, UploadAlone, SettlesAll,
           CompletedIsSettled, [OnInvoiceNext]_onInvoiceVars
    PROVE  CompletedIsSettled'
\* Enough: a COMPLETED batch has no new entry to settle, or none at all.
<1>a. ASSUME \A b \in BatchIds : batches'[b].status = "COMPLETED" =>
               \/ /\ batches'[b].status = batches[b].status
                  /\ \A e \in entries' : e.batch = b /\ e.status = "PENDING"
                       => e \in entries
               \/ \A e \in entries' : e.batch = b => e.status # "PENDING"
      PROVE  CompletedIsSettled'
  BY <1>a DEF CompletedIsSettled, FindEntriesByBatchId
<1>1. ASSUME NEW h \in Handlers, Quiet(h)
      PROVE  CompletedIsSettled'
  BY <1>a, <1>1 DEF Quiet
<1>2. ASSUME NEW h \in Handlers, InsertEntries(h)
      PROVE  CompletedIsSettled'
  <2>1. /\ calls[h].at \in Uploading
        /\ entries' = entries \cup NewEntries(h, calls[h].valid)
    BY <1>2 DEF InsertEntries, At, Uploading
  <2>2. /\ calls[h].batch \in BatchIds
        /\ Sets(calls[h].batch,
                [status |-> batches[calls[h].batch].status,
                 validRows |-> batches[calls[h].batch].validRows,
                 known |-> TRUE])
    BY <1>2, InsertEntriesEffect
  <2>3. batches[calls[h].batch].status # "COMPLETED"
    BY <2>1 DEF UploadAlone, Alone
  <2>4. \A e \in NewEntries(h, calls[h].valid) : e.batch = calls[h].batch
    BY DEF NewEntries
  <2>5. QED
    BY <1>a, <2>1, <2>2, <2>3, <2>4 DEF Sets
<1>3. ASSUME NEW h \in Handlers, UploadValidated(h)
      PROVE  CompletedIsSettled'
  <2>1. UNCHANGED entries
    BY <1>3 DEF UploadValidated
  <2>2. /\ calls[h].batch \in BatchIds
        /\ Sets(calls[h].batch,
                [status |-> "VALIDATED", known |-> TRUE,
                 validRows |-> Cardinality(calls[h].valid)])
    BY <1>3, UploadValidatedEffect
  <2>3. QED
    BY <1>a, <2>1, <2>2 DEF Sets
<1>4. ASSUME NEW h \in Handlers, ProcessCompleted(h)
      PROVE  CompletedIsSettled'
  <2>1. UNCHANGED entries /\ calls[h].at = "process.completed"
    BY <1>4 DEF ProcessCompleted, At
  <2>2. /\ calls[h].batch \in BatchIds
        /\ Sets(calls[h].batch,
                [status |-> "COMPLETED", validRows |-> 0,
                 known |-> batches[calls[h].batch].known])
    BY <1>4, ProcessCompletedEffect
  <2>3. \A e \in entries : e.batch = calls[h].batch => e.status # "PENDING"
    BY <2>1 DEF SettlesAll, HasAll, Settling, Processing, FindEntriesByBatchId
  <2>4. QED
    BY <1>a, <2>1, <2>2, <2>3 DEF Sets
<1>5. ASSUME NEW h \in Handlers, NEW key \in RowKeys, SettleEntry(h, key)
      PROVE  CompletedIsSettled'
  <2>1. \A f \in entries' : f.status = "PENDING" => f \in entries
    BY <1>5, SettledEntries
  <2>2. UNCHANGED batches
    BY <1>5 DEF SettleEntry
  <2>3. QED
    BY <1>a, <2>1, <2>2
<1>6. CASE UNCHANGED onInvoiceVars
  BY <1>6 DEF onInvoiceVars, CompletedIsSettled, FindEntriesByBatchId
<1>7. QED
  BY <1>1, <1>2, <1>3, <1>4, <1>5, <1>6, StepCases, StatusQuiet, CallQuiet

-----------------------------------------------------------------------------
(* The theorems.                                                           *)

\* The inductive invariant: uploads have their batch for themselves, and calls
\* that settle entries have all that are still to be settled.
THEOREM Invariance == OnInvoiceSpec => []Inv
<1>1. Inv /\ [OnInvoiceNext]_onInvoiceVars => Inv'
  BY TypeStep, OnFileStep, UploadAloneStep, SettlesAllStep, OneEntryStep,
     ValidatedIsWholeStep, CompletedIsSettledStep DEF Inv
<1>2. QED
  BY InvInit, <1>1, PTL DEF OnInvoiceSpec

\* Batches, entries and calls keep their types: on_invoice_batches and
\* on_invoice_entries hold what their columns allow.
THEOREM TypeCorrect == OnInvoiceSpec => []OnInvoiceTypeOK
<1>1. Inv => OnInvoiceTypeOK
  BY DEF Inv
<1>2. QED
  BY Invariance, <1>1, PTL

\* However many uploads race with the same rows, the unique index and the
\* transaction of createEntriesBatch leave one entry for each row.
THEOREM RecordedOnce == OnInvoiceSpec => []OneEntryPerRow
<1>1. Inv => OneEntryPerRow
  BY DEF Inv
<1>2. QED
  BY Invariance, <1>1, PTL

\* A VALIDATED batch holds all of its valid rows, each still to be settled,
\* whatever other calls validated, processed, failed or died meanwhile.
THEOREM ValidatedWhole == OnInvoiceSpec => []ValidatedIsWhole
<1>1. Inv => ValidatedIsWhole
  BY DEF Inv
<1>2. QED
  BY Invariance, <1>1, PTL

\* A COMPLETED batch has nothing left to settle, whoever processed it and
\* however many at once.
THEOREM CompletedSettled == OnInvoiceSpec => []CompletedIsSettled
<1>1. Inv => CompletedIsSettled
  BY DEF Inv
<1>2. QED
  BY Invariance, <1>1, PTL

=============================================================================
