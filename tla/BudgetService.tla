---------------------------- MODULE BudgetService ----------------------------
(***************************************************************************)
(* The event-sourced budget: envelopes, the append-only table              *)
(* budget_transactions with its unique idempotency key, the table          *)
(* ledger_entries, and the view v_budget_summary computed from both.       *)
(* BudgetService keeps no other state; its multi-statement operations are  *)
(* steps of the calls of AgreementService.tla and PlanWorkflow.tla.         *)
(* All envelopes of an instance match the same channel and period.         *)
(***************************************************************************)
EXTENDS Integers, Sequences, FiniteSetsExt, DecimalText, Documents

CONSTANTS Envelopes,    \* envelope identifiers
          NoEnvelope,   \* not an envelope: no match, or no envelope in a key
          Allocated     \* envelope -> allocated_amount

ASSUME EnvelopeAssumption == /\ NoEnvelope \notin Envelopes
                             /\ Allocated \in [Envelopes -> Nat]

VARIABLES envelopes,    \* ACTIVE envelopes, the best match of the dimensions last
          transactions, \* POSTED rows of budget_transactions, oldest first
          ledger        \* rows of ledger_entries (all DEBIT)

budgetVars == <<envelopes, transactions, ledger>>

TxTypes == {"RESERVE", "RELEASE", "COMMIT"}

\* `RESERVE|AGREEMENT|id` has no envelope, the other keys end in one.
TxKeys == [type : TxTypes, source : Documents,
           envelope : Envelopes \cup {NoEnvelope}]

Transactions == [type : TxTypes, source : Documents, envelope : Envelopes,
                 amount : Nat, key : TxKeys]

\* source: the row (of agreement_transactions) the entry was posted for, which
\* its key `LEDGER|AGREEMENT|agreement|row` names.  Nothing keeps the amount of
\* such a row from being negative.
LedgerEntries == [source : Nat, envelope : Envelopes, amount : Int]

BudgetTypeOK == /\ envelopes \in Seq(Envelopes)
                /\ transactions \in Seq(Transactions)
                /\ ledger \in Seq(LedgerEntries)

BudgetInit == /\ envelopes = <<>>
              /\ transactions = <<>>
              /\ ledger = <<>>

Key(type, source, envelope) ==
    [type |-> type, source |-> source, envelope |-> envelope]

-----------------------------------------------------------------------------
(* Queries of BudgetRepository, one SQL statement each.                    *)

\* The best match of the channel and period, if any: of the envelopes that
\* match by their columns the newest.
FindEnvelopeByDimensions ==
    IF envelopes = <<>> THEN NoEnvelope ELSE envelopes[Len(envelopes)]

FindByIdempotencyKey(key) ==
    {i \in DOMAIN transactions : transactions[i].key = key}

\* Rows of one source and type, as positions in the table.
FindBySource(type, source) ==
    {i \in DOMAIN transactions : /\ transactions[i].type = type
                                 /\ transactions[i].source = source}

\* What `.find` returns of rows ordered by creation, newest first.
Newest(rows) == CHOOSE i \in rows : \A j \in rows : j <= i

\* SUM(amount) over some rows of a table.
Total(table, rows) == MapThenSumSet(LAMBDA i : table[i].amount, rows)

\* Rows of one type that an envelope has, as positions in the table.
RowsOf(type, e) == {i \in DOMAIN transactions : /\ transactions[i].type = type
                                                /\ transactions[i].envelope = e}

\* Sum of one column of the view over an envelope.
Posted(type, e) == Total(transactions, RowsOf(type, e))

ReservedAmount(e) == Posted("RESERVE", e) - Posted("RELEASE", e)

ConsumedAmount(e) ==
    Total(ledger, {i \in DOMAIN ledger : ledger[i].envelope = e})

\* The column available_amount of v_budget_summary.
AvailableAmount(e) == Allocated[e] - ReservedAmount(e) - ConsumedAmount(e)

\* Mutant: what is reserved or consumed already is not deducted.
SufficientForAllocated(e, amount) == TextGeq(Allocated[e], amount)

\* checkBudgetAvailability with an amount read from the database ...
SufficientForText(e, amount) == TextGeq(AvailableAmount(e), amount)

\* ... and with a number from the request body, which converts the text.
SufficientForNumber(e, amount) == AvailableAmount(e) >= amount

-----------------------------------------------------------------------------
(* Statements that change the tables.                                      *)

\* The unique index (tenantId, idempotencyKey).
KeyIsFree(key) == FindByIdempotencyKey(key) = {}

\* INSERT INTO budget_transactions; the caller handles a violated index.
PostTransaction(type, source, envelope, amount, key) ==
    /\ KeyIsFree(key)
    /\ transactions' = Append(transactions,
                              [type |-> type, source |-> source,
                               envelope |-> envelope, amount |-> amount,
                               key |-> key])
    /\ UNCHANGED <<envelopes, ledger>>

\* createEnvelope: an ACTIVE envelope with a code not used before.
CreateEnvelope(e) ==
    /\ \A i \in DOMAIN envelopes : envelopes[i] # e
    /\ envelopes' = Append(envelopes, e)
    /\ UNCHANGED <<transactions, ledger>>

=============================================================================
