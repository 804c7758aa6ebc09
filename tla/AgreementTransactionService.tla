--------------------- MODULE AgreementTransactionService ---------------------
(***************************************************************************)
(* Off-invoice actuals: the invoices recorded against approved agreements, *)
(* each posted to the ledger, where it consumes budget.  The workflow of   *)
(* AgreementService.tla goes on beside it: an agreement may be cancelled   *)
(* between two statements of a call that records an invoice for it.        *)
(*                                                                         *)
(* create is a call of one row; batchImport runs the statements of create  *)
(* for each of its rows, in order, and catches what they throw.  It is     *)
(* behind POST batch, whose rows the ValidationPipe validates, and behind  *)
(* POST validate-and-import, whose rows it does not: there an amount may   *)
(* come as text, and may be negative.                                      *)
(***************************************************************************)
EXTENDS AgreementService

CONSTANTS Posters,          \* calls of create and batchImport in flight
          InvoiceNumbers,   \* an invoice number together with its date
          InvoiceAmounts,   \* amounts an instance uses
          Periods,          \* values of dto.fiscalPeriod
          NoPeriod,         \* the field is not given
          RowsAsked,        \* rows that the clients of an instance send
          MaxRows           \* bound on the rows of one batch

\* What dto.amount is.  The INSERT makes the same amount of both.
Forms == {"number", "text"}

\* One row of a request: CreateAgreementTransactionDto.
Rows == [agreement : Documents, number : InvoiceNumbers,
         amount : InvoiceAmounts, form : Forms, period : Periods]

\* A row of amount 0 changes no sum and is left out.
ASSUME InvoiceAssumption == /\ InvoiceAmounts \subseteq Int \ {0}
                            /\ RowsAsked \subseteq Rows
                            /\ MaxRows \in Nat \ {0}

VARIABLES invoices,     \* rows of agreement_transactions, the id is the position
          posters,      \* poster -> the call it executes
          unchecked     \* agreements with an invoice that no check of the sum
                        \* it makes has let pass (history)

postingVars == <<invoices, posters, unchecked>>
workflowVars == <<envelopes, transactions, requests, agreements, calls>>

InvoiceRows == [agreement : Documents, number : InvoiceNumbers,
                amount : InvoiceAmounts]

PosterSteps == {"idle", "agreement", "existing", "total", "insert",
                "envelope", "entry", "post"}

\* rows: what is left to do, the row in hand first.
PosterCalls == [at : PosterSteps, rows : Seq(Rows), cap : Nat, invoice : Nat,
                envelope : Envelopes \cup {NoEnvelope}]

NoPosting == [at |-> "idle", rows |-> <<>>, cap |-> 0, invoice |-> 0,
              envelope |-> NoEnvelope]

PostingTypeOK == /\ TypeOK
                 /\ invoices \in Seq(InvoiceRows)
                 /\ posters \in [Posters -> PosterCalls]
                 /\ unchecked \subseteq Documents

PostingInit == /\ Init
               /\ invoices = <<>>
               /\ posters = [p \in Posters |-> NoPosting]
               /\ unchecked = {}

-----------------------------------------------------------------------------
(* Queries of AgreementTransactionRepository and LedgerRepository.         *)

\* findByIdempotencyKey of `agreement|number|date`; rows are never deleted.
FindInvoice(a, number) ==
    {i \in DOMAIN invoices : /\ invoices[i].agreement = a
                             /\ invoices[i].number = number}

\* sumByAgreementId.
CurrentTotal(a) ==
    Total(invoices, {i \in DOMAIN invoices : invoices[i].agreement = a})

\* `LEDGER|AGREEMENT|agreement|row`: the row names its agreement.
FindEntry(row) == {i \in DOMAIN ledger : ledger[i].source = row}

\* The period of the DTO, or else the one of the agreement, which is the one
\* of the envelopes of the instance.  The last resort, the period of the
\* invoice date, is dead: periodMonth is a required column.
InBudgetPeriod(row) == row.period = NoPeriod

-----------------------------------------------------------------------------
(* How a call moves through its rows.                                      *)

PosterAt(p, step) == posters[p].at = step

Row(p) == Head(posters[p].rows)

PosterGoes(p, step) == posters' = [posters EXCEPT ![p].at = step]

\* The row in hand is done, or has thrown and batchImport has caught it.
NextRow(p) ==
    posters' = [posters EXCEPT
                  ![p] = IF Len(posters[p].rows) = 1
                           THEN NoPosting
                           ELSE [NoPosting EXCEPT !.at = "agreement",
                                    !.rows = Tail(posters[p].rows)]]

Import(p, rows) ==
    /\ posters[p] = NoPosting
    /\ posters' = [posters EXCEPT ![p] = [NoPosting EXCEPT !.at = "agreement",
                                                           !.rows = rows]]
    /\ UNCHANGED <<invoices, unchecked, ledger>>

\* Mutant: the status of the agreement is not checked.
ReadAgreementAnyStatus(p) ==
    /\ PosterAt(p, "agreement")
    /\ posters' = [posters EXCEPT ![p].at = "existing",
                                  ![p].cap = agreements[Row(p).agreement].cap]
    /\ UNCHANGED <<invoices, unchecked, ledger>>

\* The status, and the invoice date within the agreement period: a date out of
\* it is a row that is not modelled, it throws here.
ReadAgreement(p) ==
    /\ PosterAt(p, "agreement")
    /\ IF Found(Row(p).agreement, "APPROVED")
         THEN posters' = [posters EXCEPT
                            ![p].at = "existing",
                            ![p].cap = agreements[Row(p).agreement].cap]
         ELSE NextRow(p)
    /\ UNCHANGED <<invoices, unchecked, ledger>>

\* "Idempotent: return existing", whatever became of its ledger entry.
ReadExisting(p) ==
    /\ PosterAt(p, "existing")
    /\ IF FindInvoice(Row(p).agreement, Row(p).number) # {}
         THEN NextRow(p)
         ELSE PosterGoes(p, "total")
    /\ UNCHANGED <<invoices, unchecked, ledger>>

\* `currentTotal + dto.amount > Number(capTotalAmount)`: what it can say.  A text
\* is appended to the sum, so the outcome depends on how the amount is written
\* and tells nothing of the new sum: 3.5 and "9" make 3.59, 3 and " 9" make NaN,
\* which exceeds nothing, 3 and "9" make 39.
ExceedsCap(row, cap) ==
    IF row.form = "text"
      THEN BOOLEAN
      ELSE {CurrentTotal(row.agreement) + row.amount > cap}

\* Mutant: the cap is checked against the row alone.
ReadTotalRowOnly(p) ==
    /\ PosterAt(p, "total")
    /\ IF Row(p).amount > posters[p].cap
         THEN NextRow(p)
         ELSE PosterGoes(p, "insert")
    /\ UNCHANGED <<invoices, unchecked, ledger>>

\* Validate that the cap is not exceeded.
ReadTotal(p) ==
    /\ PosterAt(p, "total")
    /\ \E exceeds \in ExceedsCap(Row(p), posters[p].cap) :
         IF exceeds THEN NextRow(p) ELSE PosterGoes(p, "insert")
    /\ UNCHANGED <<invoices, unchecked, ledger>>

\* Another call is about to insert on the strength of an older sum.
Overtakes(p) ==
    {Row(q).agreement : q \in {q \in Posters \ {p} : PosterAt(q, "insert")}}
        \cap {Row(p).agreement}

\* What the check of the row in hand has compared was not a sum.
JoinsText(p) == IF Row(p).form = "text" THEN {Row(p).agreement} ELSE {}

InsertRow(p) ==
    /\ invoices' = Append(invoices, [agreement |-> Row(p).agreement,
                                     number |-> Row(p).number,
                                     amount |-> Row(p).amount])
    /\ posters' = [posters EXCEPT ![p].at = "envelope",
                                  ![p].invoice = Len(invoices) + 1]
    /\ unchecked' = unchecked \cup Overtakes(p) \cup JoinsText(p)
    /\ UNCHANGED ledger

\* Mutant: no unique index on the idempotency key.
InsertUnindexed(p) == /\ PosterAt(p, "insert")
                      /\ InsertRow(p)

Insert(p) == /\ PosterAt(p, "insert")
             /\ FindInvoice(Row(p).agreement, Row(p).number) = {}
             /\ InsertRow(p)

\* The unique index refuses the row.
InsertDuplicate(p) ==
    /\ PosterAt(p, "insert")
    /\ FindInvoice(Row(p).agreement, Row(p).number) # {}
    /\ NextRow(p)
    /\ UNCHANGED <<invoices, unchecked, ledger>>

\* Mutant: a missing envelope is not looked for.
FindEnvelopeUnchecked(p) ==
    /\ PosterAt(p, "envelope")
    /\ posters' = [posters EXCEPT ![p].at = "entry",
                                  ![p].envelope = IF InBudgetPeriod(Row(p))
                                                    THEN FindEnvelopeByDimensions
                                                    ELSE NoEnvelope]
    /\ UNCHANGED <<invoices, unchecked, ledger>>

\* The envelope of the period, not the one that holds the reservation; without
\* one the invoice stays recorded and is never posted.
FindEnvelope(p) ==
    /\ PosterAt(p, "envelope")
    /\ IF InBudgetPeriod(Row(p)) /\ FindEnvelopeByDimensions # NoEnvelope
         THEN posters' = [posters EXCEPT
                            ![p].at = "entry",
                            ![p].envelope = FindEnvelopeByDimensions]
         ELSE NextRow(p)
    /\ UNCHANGED <<invoices, unchecked, ledger>>

\* The channel of the agreement was soft-deleted: thrown after the insert.
ChannelMissing(p) ==
    /\ PosterAt(p, "envelope")
    /\ NextRow(p)
    /\ UNCHANGED <<invoices, unchecked, ledger>>

ReadEntry(p) ==
    /\ PosterAt(p, "entry")
    /\ IF FindEntry(posters[p].invoice) # {}
         THEN NextRow(p)
         ELSE PosterGoes(p, "post")
    /\ UNCHANGED <<invoices, unchecked, ledger>>

Post(p) ==
    /\ PosterAt(p, "post")
    /\ ledger' = Append(ledger, [source |-> posters[p].invoice,
                                 envelope |-> posters[p].envelope,
                                 amount |-> Row(p).amount])
    /\ NextRow(p)
    /\ UNCHANGED <<invoices, unchecked>>

\* A statement throws: the row is lost half-way, a batch goes on with the next.
RowFails(p) == /\ CallsFail
               /\ posters[p].at # "idle"
               /\ NextRow(p)
               /\ UNCHANGED <<invoices, unchecked, ledger>>

\* The process dies: the rest of the batch is lost too.
PosterDies(p) == /\ CallsFail
                 /\ posters[p] # NoPosting
                 /\ posters' = [posters EXCEPT ![p] = NoPosting]
                 /\ UNCHANGED <<invoices, unchecked, ledger>>

Batches == UNION {[1..n -> RowsAsked] : n \in 1..MaxRows}

CreateInvoice(p) ==
    \/ ReadAgreement(p) \/ ReadExisting(p) \/ ReadTotal(p)
    \/ Insert(p) \/ InsertDuplicate(p) \/ FindEnvelope(p)
    \/ ChannelMissing(p) \/ ReadEntry(p) \/ Post(p)

PosterNext(p) == \/ \E rows \in Batches : Import(p, rows)
                 \/ CreateInvoice(p)
                 \/ RowFails(p) \/ PosterDies(p)

PostingNext == \/ (\E p \in Posters : PosterNext(p)) /\ UNCHANGED workflowVars
               \/ Next /\ UNCHANGED postingVars

PostingSpec == PostingInit /\ [][PostingNext]_<<vars, postingVars>>

-----------------------------------------------------------------------------
(* Properties.                                                             *)

\* The invoices of an agreement stay within its cap unless one of them was
\* inserted between the check and the insert of another (create reads the sum
\* and inserts in two statements), or came with its amount as text: then the
\* check compares a number that is not the sum, or none.
CapKept ==
    \A a \in Documents \ unchecked : CurrentTotal(a) <= agreements[a].cap

\* Whatever is invoiced was reserved for before, and the invoice consumes from
\* an envelope: also when the agreement is cancelled under the call.
InvoicedIsReserved ==
    \A i \in DOMAIN invoices : Reserved(invoices[i].agreement)

InvoiceKeys == Documents \X InvoiceNumbers

RecordedAmount ==
    [k \in InvoiceKeys |-> Total(invoices, FindInvoice(k[1], k[2]))]

EntriesOf(k) == UNION {FindEntry(i) : i \in FindInvoice(k[1], k[2])}

ChargedAmount == [k \in InvoiceKeys |-> Total(ledger, EntriesOf(k))]

ChargedEnvelopes ==
    [k \in InvoiceKeys |-> {ledger[j].envelope : j \in EntriesOf(k)}]

Books == INSTANCE Posting WITH Invoices <- InvoiceKeys,
                               Amounts <- InvoiceAmounts,
                               recorded <- RecordedAmount,
                               charged <- ChargedAmount,
                               chargedTo <- ChargedEnvelopes

\* agreement_transactions and ledger_entries, written by calls that race, die
\* and are repeated, implement the books a client believes in.
ImplementsPosting == Books!PostingSpec

=============================================================================
