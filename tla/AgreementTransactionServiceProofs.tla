------------------ MODULE AgreementTransactionServiceProofs ------------------
(***************************************************************************)
(* Proofs about AgreementTransactionService for any number of posters,     *)
(* invoices and rows, beside any number of calls of the workflow.  They    *)
(* rest on the invariant of AgreementServiceProofs: an APPROVED agreement  *)
(* holds budget, and a reservation is never taken out of the table.  That  *)
(* the cap is kept rests on AgreementSerialProofs besides: the cap of an   *)
(* agreement that holds budget is not changed any more.                    *)
(***************************************************************************)
EXTENDS AgreementTransactionService, AgreementSerialProofs

-----------------------------------------------------------------------------
(* The inductive invariant.                                                *)

Recording == {"envelope", "entry", "post"}
Checked == {"existing", "total", "insert"} \cup Recording

\* What a call that has the row in hand relies on: the agreement holds budget,
\* and once the invoice is recorded it is this row's and nothing is charged
\* for it.
PosterTrusts(c) ==
    /\ c.at # "idle" => c.rows # <<>>
    /\ c.at \in Checked => Reserved(Head(c.rows).agreement)
    /\ c.at \in {"entry", "post"} => c.envelope \in Envelopes
    /\ c.at \in Recording =>
         /\ c.invoice \in DOMAIN invoices
         /\ invoices[c.invoice].amount = Head(c.rows).amount
         /\ FindEntry(c.invoice) = {}

\* An invoice belongs to the call that inserted it.
PostersInv ==
    /\ \A p \in Posters : PosterTrusts(posters[p])
    /\ \A p, q \in Posters :
         /\ posters[p].at \in Recording /\ posters[q].at \in Recording
         /\ posters[p].invoice = posters[q].invoice
         => p = q

\* A row of agreement_transactions and its idempotency key determine each
\* other.
InvoicesInv ==
    \A i, j \in DOMAIN invoices :
        /\ invoices[i].agreement = invoices[j].agreement
        /\ invoices[i].number = invoices[j].number
        => i = j

\* So do an entry and the invoice it was posted for.
LedgerInv ==
    /\ \A j \in DOMAIN ledger :
         /\ ledger[j].source \in DOMAIN invoices
         /\ ledger[j].amount = invoices[ledger[j].source].amount
    /\ \A j, k \in DOMAIN ledger : ledger[j].source = ledger[k].source => j = k

PostingInv == /\ Inv
              /\ PostingTypeOK
              /\ PostersInv
              /\ InvoicesInv
              /\ LedgerInv
              /\ InvoicedIsReserved

-----------------------------------------------------------------------------
(* What is left of a batch.                                                *)

\* A batch with more than the row in hand goes on with the rest.
LEMMA RowsLeft ==
    ASSUME NEW s \in Seq(Rows), s # <<>>
    PROVE  /\ Head(s) \in Rows
           /\ Len(s) # 1 => Tail(s) \in Seq(Rows) /\ Tail(s) # <<>>
<1>1. Head(s) \in Rows /\ Tail(s) \in Seq(Rows) /\ Len(Tail(s)) = Len(s) - 1
  BY HeadTailProperties
<1>2. PICK n : n = Len(s)
  OBVIOUS
<1>3. n \in Nat /\ n # 0
  BY <1>2, LenProperties, EmptySeq
<1>4. n # 1 => n - 1 # 0
  BY <1>3
<1>5. Len(s) # 1 => Len(Tail(s)) # 0
  BY <1>1, <1>2, <1>4
<1>6. Len(<<>>) = 0
  OBVIOUS
<1>7. QED
  BY <1>1, <1>5, <1>6

LEMMA BatchRows ==
    ASSUME NEW rows \in Batches
    PROVE  rows \in Seq(Rows) /\ rows # <<>>
<1>1. PICK n \in 1..MaxRows : rows \in [1..n -> RowsAsked]
  BY DEF Batches
<1>2. n \in Nat /\ 1 \in DOMAIN rows
  BY <1>1, InvoiceAssumption
<1>3. rows \in Seq(Rows)
  BY <1>1, <1>2, InvoiceAssumption, SeqDef
<1>4. QED
  BY <1>2, <1>3

-----------------------------------------------------------------------------
(* The workflow keeps its invariant beside the posters, and they theirs    *)
(* beside it.                                                              *)

\* A step of a poster writes none of the tables the workflow relies on.
LEMMA WorkflowKept ==
    ASSUME Inv, UNCHANGED workflowVars, ledger' \in Seq(LedgerEntries)
    PROVE  Inv'
<1> USE DEF workflowVars
<1>1. TypeOK'
  BY DEF Inv, TypeOK, BudgetTypeOK, ApprovalTypeOK, Transactions, TxTypes,
         TxKeys, LedgerEntries, Requests, RequestStatuses, Agreements,
         AgreementStatuses, Calls, Steps
<1>2. \A a : /\ (Reserved(a)' <=> Reserved(a)) /\ (Released(a)' <=> Released(a))
             /\ \A e : ReservedOn(a, e)' <=> ReservedOn(a, e)
             /\ \A r : Filed(a, r)' <=> Filed(a, r)
  BY DEF Reserved, Released, ReservedOn, Filed, FindBySource
<1>3. CallsInv'
  BY <1>2 DEF Inv, CallsInv, CallValid, CallBacked, CallEntitled
<1>4. KeysInv'
  BY DEF Inv, KeysInv, Key
<1>5. RequestsInv' /\ ApprovedIsReserved' /\ CancelledIsReleased'
  BY <1>2 DEF Inv, RequestsInv, ApprovedIsReserved, CancelledIsReleased, NoRequest
<1>6. ReleaseBacked'
  BY DEF Inv, ReleaseBacked
<1>7. NoSelfDecision'
  BY DEF Inv, NoSelfDecision
<1>8. QED
  BY <1>1, <1>3, <1>4, <1>5, <1>6, <1>7 DEF Inv

\* Neither takes a reservation away.
LEMMA ReservedStays ==
    ASSUME PostingInv, [PostingNext]_<<vars, postingVars>>, NEW a, Reserved(a)
    PROVE  Reserved(a)'
<1>1. CASE UNCHANGED transactions
  BY <1>1 DEF Reserved, FindBySource
<1>2. CASE Next
  BY <1>2, TransactionsGrow DEF PostingInv, Reserved, FindBySource
<1>3. QED
  BY <1>1, <1>2 DEF PostingNext, workflowVars, vars

-----------------------------------------------------------------------------
(* How a poster moves, without EXCEPT.                                     *)

PosterMoved(p) == /\ posters' \in [Posters -> PosterCalls]
                  /\ \A q \in Posters \ {p} : posters'[q] = posters[q]

\* The call is where it may be, and records no other invoice than before.
PosterGood(p) ==
    /\ PosterMoved(p)
    /\ PosterTrusts(posters'[p])
    /\ posters'[p].at \in Recording =>
         /\ posters[p].at \in Recording
         /\ posters'[p].invoice = posters[p].invoice

LEMMA PosterGoesTo ==
    ASSUME PostingInv, NEW p \in Posters, NEW c \in PosterCalls,
           posters' = [posters EXCEPT ![p] = c]
    PROVE  PosterMoved(p) /\ posters'[p] = c
BY DEF PostingInv, PostingTypeOK, PosterMoved

LEMMA StartsAnew ==
    ASSUME NEW rows \in Seq(Rows)
    PROVE  LET c == [NoPosting EXCEPT !.at = "agreement", !.rows = rows]
           IN  /\ c \in PosterCalls /\ c.at = "agreement" /\ c.rows = rows
               /\ NoPosting \in PosterCalls /\ NoPosting.at = "idle"
BY EmptySeq DEF NoPosting, PosterCalls, PosterSteps

LEMMA NextRowMoves ==
    ASSUME PostingInv, NEW p \in Posters, posters[p].at # "idle", NextRow(p)
    PROVE  PosterGood(p) /\ posters'[p].at \notin Recording
<1>1. posters[p] \in PosterCalls /\ posters[p].rows # <<>>
  BY DEF PostingInv, PostingTypeOK, PostersInv, PosterTrusts
<1>2. PICK rows : rows = posters[p].rows
  OBVIOUS
<1>3. rows \in Seq(Rows) /\ rows # <<>>
  BY <1>1, <1>2 DEF PosterCalls
<1>4. CASE Len(rows) = 1
  <2>1. posters' = [posters EXCEPT ![p] = NoPosting]
    BY <1>2, <1>4 DEF NextRow
  <2>2. PosterMoved(p) /\ posters'[p] = NoPosting /\ NoPosting.at = "idle"
    BY <1>3, <2>1, StartsAnew, PosterGoesTo
  <2>3. QED
    BY <2>2 DEF PosterGood, PosterTrusts, Checked, Recording
<1>5. CASE Len(rows) # 1
  <2>1. PICK rest \in Seq(Rows) : rest = Tail(rows) /\ rest # <<>>
    BY <1>3, <1>5, RowsLeft
  <2> DEFINE c == [NoPosting EXCEPT !.at = "agreement", !.rows = rest]
  <2>2. posters' = [posters EXCEPT ![p] = c]
    BY <1>2, <1>5, <2>1 DEF NextRow
  <2>3. c \in PosterCalls /\ c.at = "agreement" /\ c.rows = rest
    BY StartsAnew
  <2> HIDE DEF c
  <2>4. PosterMoved(p) /\ posters'[p] = c
    BY <2>2, <2>3, PosterGoesTo
  <2>5. QED
    BY <2>1, <2>3, <2>4 DEF PosterGood, PosterTrusts, Checked, Recording
<1>6. QED
  BY <1>4, <1>5

LEMMA PosterGoesMoves ==
    ASSUME PostingInv, NEW p \in Posters, NEW step \in PosterSteps,
           PosterGoes(p, step)
    PROVE  /\ PosterMoved(p) /\ posters'[p].at = step
           /\ posters'[p].rows = posters[p].rows
           /\ posters'[p].cap = posters[p].cap
           /\ posters'[p].invoice = posters[p].invoice
           /\ posters'[p].envelope = posters[p].envelope
<1> DEFINE c == [posters[p] EXCEPT !.at = step]
<1>1. posters[p] \in PosterCalls
  BY DEF PostingInv, PostingTypeOK
<1>2. /\ c \in PosterCalls /\ c.at = step /\ c.rows = posters[p].rows
      /\ c.cap = posters[p].cap /\ c.invoice = posters[p].invoice
      /\ c.envelope = posters[p].envelope
  BY <1>1 DEF PosterCalls
<1>3. posters' = [posters EXCEPT ![p] = c]
  BY DEF PosterGoes, PostingInv, PostingTypeOK
<1> HIDE DEF c
<1>4. QED
  BY <1>2, <1>3, PosterGoesTo

\* All statements of create but the two inserts.
LEMMA QuietMoves ==
    ASSUME PostingInv, NEW p \in Posters,
           \/ \E rows \in Batches : Import(p, rows)
           \/ ReadAgreement(p) \/ ReadExisting(p) \/ ReadTotal(p)
           \/ InsertDuplicate(p) \/ FindEnvelope(p) \/ ChannelMissing(p)
           \/ ReadEntry(p) \/ RowFails(p) \/ PosterDies(p)
    PROVE  PosterGood(p) /\ UNCHANGED <<invoices, unchecked, ledger>>
<1>1. /\ posters[p] \in PosterCalls /\ PosterTrusts(posters[p])
      /\ posters \in [Posters -> PosterCalls]
  BY DEF PostingInv, PostingTypeOK, PostersInv
<1>2. ASSUME NEW step \in PosterSteps, PosterGoes(p, step),
             posters[p].at # "idle", step \in Checked => posters[p].at \in Checked,
             step \in Recording => posters[p].at \in Recording,
             step \in {"entry", "post"} => posters[p].at \in {"entry", "post"}
      PROVE  PosterGood(p)
  BY <1>1, <1>2, PosterGoesMoves DEF PosterGood, PosterTrusts
<1>3. ASSUME NEW rows \in Batches, Import(p, rows)
      PROVE  PosterGood(p)
  <2> DEFINE c == [NoPosting EXCEPT !.at = "agreement", !.rows = rows]
  <2>1. rows \in Seq(Rows) /\ rows # <<>>
    BY BatchRows
  <2>2. posters' = [posters EXCEPT ![p] = c]
    BY <1>3 DEF Import
  <2>3. c \in PosterCalls /\ c.at = "agreement" /\ c.rows = rows
    BY <2>1, StartsAnew
  <2> HIDE DEF c
  <2>4. PosterMoved(p) /\ posters'[p] = c
    BY <2>2, <2>3, PosterGoesTo
  <2>5. QED
    BY <2>1, <2>3, <2>4 DEF PosterGood, PosterTrusts, Checked, Recording
<1>4. ASSUME ReadAgreement(p)
      PROVE  PosterGood(p)
  <2>1. CASE ~Found(Row(p).agreement, "APPROVED")
    BY <1>4, <2>1, NextRowMoves DEF ReadAgreement, PosterAt
  <2>2. CASE Found(Row(p).agreement, "APPROVED")
    <3> DEFINE a == Row(p).agreement
               cap == agreements[a].cap
               c == [posters[p] EXCEPT !.at = "existing", !.cap = cap]
    <3>1. posters[p].rows \in Seq(Rows) /\ posters[p].rows # <<>>
      BY <1>1, <1>4 DEF ReadAgreement, PosterAt, PosterTrusts, PosterCalls
    <3>2. Row(p) \in Rows
      BY <3>1, RowsLeft DEF Row
    <3>3. a \in Documents
      BY <3>2 DEF Rows
    <3>4. agreements[a].status = "APPROVED" /\ agreements[a] \in Agreements
      BY <2>2, <3>3 DEF Found, PostingInv, Inv, TypeOK
    <3>5. Reserved(a) /\ cap \in Nat
      BY <3>3, <3>4, AgreementAssumption
      DEF PostingInv, Inv, ApprovedIsReserved, Agreements
    <3>6. posters' = [posters EXCEPT ![p] = c]
      BY <1>1, <1>4, <2>2 DEF ReadAgreement
    <3>7. Head(posters[p].rows).agreement = a
      BY DEF Row
    <3> HIDE DEF a, cap
    <3>8. c \in PosterCalls /\ c.at = "existing" /\ c.rows = posters[p].rows
      BY <1>1, <3>5 DEF PosterCalls, PosterSteps
    <3> HIDE DEF c
    <3>9. PosterMoved(p) /\ posters'[p] = c
      BY <3>6, <3>8, PosterGoesTo
    <3>10. QED
      BY <3>1, <3>5, <3>7, <3>8, <3>9 DEF PosterGood, PosterTrusts, Checked, Recording
  <2>3. QED
    BY <2>1, <2>2
<1>5. ASSUME ReadExisting(p) \/ ReadTotal(p) \/ ReadEntry(p)
      PROVE  PosterGood(p)
  <2>1. posters[p].at \in {"existing", "total", "entry"}
    BY <1>5 DEF ReadExisting, ReadTotal, ReadEntry, PosterAt
  <2>2. \/ NextRow(p)
        \/ posters[p].at = "existing" /\ PosterGoes(p, "total")
        \/ posters[p].at = "total" /\ PosterGoes(p, "insert")
        \/ posters[p].at = "entry" /\ PosterGoes(p, "post")
    BY <1>5 DEF ReadExisting, ReadTotal, ReadEntry, PosterAt
  <2>3. CASE NextRow(p)
    BY <2>1, <2>3, NextRowMoves
  <2>4. CASE posters[p].at = "existing" /\ PosterGoes(p, "total")
    BY <1>2, <2>4 DEF PosterSteps, Checked, Recording
  <2>5. CASE posters[p].at = "total" /\ PosterGoes(p, "insert")
    BY <1>2, <2>5 DEF PosterSteps, Checked, Recording
  <2>6. CASE posters[p].at = "entry" /\ PosterGoes(p, "post")
    BY <1>2, <2>6 DEF PosterSteps, Checked, Recording
  <2>7. QED
    BY <2>2, <2>3, <2>4, <2>5, <2>6
<1>6. ASSUME FindEnvelope(p)
      PROVE  PosterGood(p)
  <2>1. posters[p].at = "envelope"
    BY <1>6 DEF FindEnvelope, PosterAt
  <2>2. CASE NextRow(p)
    BY <2>1, <2>2, NextRowMoves
  <2>3. CASE ~NextRow(p)
    <3> DEFINE e == FindEnvelopeByDimensions
               c == [posters[p] EXCEPT !.at = "entry", !.envelope = e]
    <3>1. e # NoEnvelope
      BY <1>6, <2>3 DEF FindEnvelope
    <3>2. posters' = [posters EXCEPT ![p] = c]
      BY <1>1, <1>6, <2>3 DEF FindEnvelope
    <3>3. e \in Envelopes
      <4>1. envelopes \in Seq(Envelopes) /\ envelopes # <<>>
        BY <3>1 DEF PostingInv, Inv, TypeOK, BudgetTypeOK, FindEnvelopeByDimensions
      <4>2. PICK n : n = Len(envelopes)
        OBVIOUS
      <4>3. n \in Nat /\ n # 0
        BY <4>1, <4>2, LenProperties, EmptySeq
      <4>4. n \in 1..n
        BY <4>3
      <4>5. envelopes[n] \in Envelopes
        BY <4>1, <4>2, <4>4, ElementOfSeq
      <4>6. QED
        BY <4>1, <4>2, <4>5 DEF FindEnvelopeByDimensions
    <3> HIDE DEF e
    <3>4. /\ c \in PosterCalls /\ c.at = "entry" /\ c.envelope = e
          /\ c.rows = posters[p].rows /\ c.invoice = posters[p].invoice
      BY <1>1, <3>3 DEF PosterCalls, PosterSteps
    <3> HIDE DEF c
    <3>5. PosterMoved(p) /\ posters'[p] = c
      BY <3>2, <3>4, PosterGoesTo
    <3>6. QED
      BY <1>1, <2>1, <3>3, <3>4, <3>5
      DEF PosterGood, PosterTrusts, Checked, Recording
  <2>4. QED
    BY <2>2, <2>3
<1>7. ASSUME InsertDuplicate(p) \/ ChannelMissing(p) \/ RowFails(p)
      PROVE  PosterGood(p)
  <2>1. posters[p].at # "idle" /\ NextRow(p)
    BY <1>7 DEF InsertDuplicate, ChannelMissing, RowFails, PosterAt
  <2>2. QED
    BY <2>1, NextRowMoves
<1>8. ASSUME PosterDies(p)
      PROVE  PosterGood(p)
  <2>1. posters' = [posters EXCEPT ![p] = NoPosting]
    BY <1>8 DEF PosterDies
  <2>2. NoPosting \in PosterCalls /\ NoPosting.at = "idle"
    BY EmptySeq DEF NoPosting, PosterCalls, PosterSteps
  <2>3. PosterMoved(p) /\ posters'[p] = NoPosting
    BY <2>1, <2>2, PosterGoesTo
  <2>4. QED
    BY <2>2, <2>3 DEF PosterGood, PosterTrusts, Checked, Recording
<1>9. UNCHANGED <<invoices, unchecked, ledger>>
  BY DEF Import, ReadAgreement, ReadExisting, ReadTotal, InsertDuplicate,
         FindEnvelope, ChannelMissing, ReadEntry, RowFails, PosterDies
<1>10. QED
  BY <1>3, <1>4, <1>5, <1>6, <1>7, <1>8, <1>9

\* A row appended to a table comes after the others, which stay as they are.
LEMMA RowAppended ==
    ASSUME NEW S, NEW s \in Seq(S), NEW row \in S
    PROVE  LET t == Append(s, row)
           IN  \E n \in Nat \ {0} :
                 /\ n = Len(s) + 1 /\ n \notin DOMAIN s
                 /\ DOMAIN t = DOMAIN s \cup {n}
                 /\ t \in Seq(S) /\ t[n] = row
                 /\ \A i \in DOMAIN s : t[i] = s[i]
<1>1. Len(s) \in Nat /\ DOMAIN s = 1..Len(s)
  BY LenProperties
<1>2. PICK t : t = Append(s, row)
  OBVIOUS
<1>3. /\ t \in Seq(S) /\ Len(t) = Len(s) + 1 /\ DOMAIN t = 1..Len(t)
      /\ t[Len(s) + 1] = row /\ \A i \in 1..Len(s) : t[i] = s[i]
  BY <1>2, AppendProperties, LenProperties
<1>4. PICK n \in Nat \ {0} : n = Len(s) + 1
  BY <1>1
<1>5. Len(s) = n - 1
  BY <1>1, <1>4
<1>6. QED
  BY <1>1, <1>2, <1>3, <1>4, <1>5

\* What the INSERT into agreement_transactions does.
LEMMA InsertEffect ==
    ASSUME PostingInv, NEW p \in Posters, Insert(p)
    PROVE  \E n \in Nat \ {0}, row \in InvoiceRows :
             /\ n \notin DOMAIN invoices
             /\ DOMAIN invoices' = DOMAIN invoices \cup {n}
             /\ invoices' \in Seq(InvoiceRows) /\ invoices'[n] = row
             /\ \A i \in DOMAIN invoices : invoices'[i] = invoices[i]
             /\ FindInvoice(row.agreement, row.number) = {}
             /\ Reserved(row.agreement)
             /\ row.amount = Head(posters'[p].rows).amount
             /\ row.agreement = Head(posters'[p].rows).agreement
             /\ PosterMoved(p) /\ posters'[p].rows # <<>>
             /\ posters'[p].at = "envelope" /\ posters'[p].invoice = n
             /\ ledger' = ledger /\ unchecked' \subseteq Documents
<1>1. /\ posters[p] \in PosterCalls /\ PosterTrusts(posters[p])
      /\ posters \in [Posters -> PosterCalls] /\ posters[p].at = "insert"
      /\ invoices \in Seq(InvoiceRows) /\ unchecked \subseteq Documents
  BY DEF PostingInv, PostingTypeOK, PostersInv, Insert, PosterAt
<1>2. PICK rows : rows = posters[p].rows
  OBVIOUS
<1>3. rows \in Seq(Rows) /\ rows # <<>> /\ Reserved(Head(rows).agreement)
  BY <1>1, <1>2 DEF PosterTrusts, PosterCalls, Checked
<1>4. PICK r \in Rows : r = Head(rows)
  BY <1>3, RowsLeft
<1>5. PICK row : row = [agreement |-> r.agreement, number |-> r.number,
                        amount |-> r.amount]
  OBVIOUS
<1>6. /\ row \in InvoiceRows /\ row.agreement = r.agreement
      /\ row.number = r.number /\ row.amount = r.amount
  BY <1>5 DEF InvoiceRows, Rows
<1>7. invoices' = Append(invoices, row)
  BY <1>2, <1>4, <1>5 DEF Insert, InsertRow, Row
<1>8. PICK n \in Nat \ {0} :
             /\ n = Len(invoices) + 1 /\ n \notin DOMAIN invoices
             /\ DOMAIN invoices' = DOMAIN invoices \cup {n}
             /\ invoices' \in Seq(InvoiceRows) /\ invoices'[n] = row
             /\ \A i \in DOMAIN invoices : invoices'[i] = invoices[i]
  BY <1>1, <1>6, <1>7, RowAppended
<1>9. /\ FindInvoice(row.agreement, row.number) = {}
      /\ Reserved(row.agreement)
  BY <1>2, <1>3, <1>4, <1>6 DEF Insert, Row
<1>10. /\ PosterMoved(p) /\ posters'[p].rows = rows
       /\ posters'[p].at = "envelope" /\ posters'[p].invoice = n
  <2> DEFINE c == [posters[p] EXCEPT !.at = "envelope", !.invoice = n]
  <2>1. posters' = [posters EXCEPT ![p] = c]
    BY <1>1, <1>8 DEF Insert, InsertRow
  <2>2. /\ c \in PosterCalls /\ c.at = "envelope" /\ c.invoice = n
        /\ c.rows = rows
    BY <1>1, <1>2 DEF PosterCalls, PosterSteps
  <2> HIDE DEF c
  <2>3. QED
    BY <2>1, <2>2, PosterGoesTo
<1>11. ledger' = ledger /\ unchecked' \subseteq Documents
  <2>1. Overtakes(p) \cup JoinsText(p) \subseteq {Row(p).agreement}
    BY DEF Overtakes, JoinsText
  <2>2. Row(p).agreement \in Documents
    BY <1>2, <1>4 DEF Row, Rows
  <2>3. QED
    BY <1>1, <2>1, <2>2 DEF Insert, InsertRow
<1>12. QED
  BY <1>3, <1>4, <1>6, <1>8, <1>9, <1>10, <1>11

\* What the INSERT into ledger_entries does.
LEMMA PostEffect ==
    ASSUME PostingInv, NEW p \in Posters, Post(p)
    PROVE  \E m \in Nat \ {0}, entry \in LedgerEntries :
             /\ m \notin DOMAIN ledger
             /\ DOMAIN ledger' = DOMAIN ledger \cup {m}
             /\ ledger' \in Seq(LedgerEntries) /\ ledger'[m] = entry
             /\ \A j \in DOMAIN ledger : ledger'[j] = ledger[j]
             /\ entry.source = posters[p].invoice
             /\ entry.source \in DOMAIN invoices
             /\ entry.amount = invoices[entry.source].amount
             /\ FindEntry(entry.source) = {}
             /\ posters[p].at \in Recording
             /\ PosterGood(p) /\ posters'[p].at \notin Recording
             /\ UNCHANGED <<invoices, unchecked>>
<1>1. /\ posters[p] \in PosterCalls /\ PosterTrusts(posters[p])
      /\ posters[p].at = "post" /\ ledger \in Seq(LedgerEntries)
  BY DEF PostingInv, PostingTypeOK, PostersInv, Post, PosterAt, Inv, TypeOK,
         BudgetTypeOK
<1>2. PICK i, e, rows : /\ i = posters[p].invoice /\ e = posters[p].envelope
                        /\ rows = posters[p].rows
  OBVIOUS
<1>3. /\ rows \in Seq(Rows) /\ rows # <<>> /\ i \in Nat /\ e \in Envelopes
      /\ i \in DOMAIN invoices /\ invoices[i].amount = Head(rows).amount
      /\ FindEntry(i) = {} /\ posters[p].at \in Recording
  BY <1>1, <1>2 DEF PosterTrusts, PosterCalls, Recording
<1>4. PICK r \in Rows : r = Head(rows)
  BY <1>3, RowsLeft
<1>5. PICK entry : entry = [source |-> i, envelope |-> e, amount |-> r.amount]
  OBVIOUS
<1>6. /\ entry \in LedgerEntries /\ entry.source = i
      /\ entry.amount = invoices[i].amount
  BY <1>3, <1>4, <1>5, InvoiceAssumption DEF LedgerEntries, Rows
<1>7. ledger' = Append(ledger, entry)
  BY <1>2, <1>4, <1>5 DEF Post, Row
<1>8. PICK m \in Nat \ {0} :
             /\ m \notin DOMAIN ledger
             /\ DOMAIN ledger' = DOMAIN ledger \cup {m}
             /\ ledger' \in Seq(LedgerEntries) /\ ledger'[m] = entry
             /\ \A j \in DOMAIN ledger : ledger'[j] = ledger[j]
  BY <1>1, <1>6, <1>7, RowAppended
<1>9. /\ PosterGood(p) /\ posters'[p].at \notin Recording
      /\ UNCHANGED <<invoices, unchecked>>
  BY <1>1, NextRowMoves DEF Post
<1>10. QED
  BY <1>2, <1>3, <1>6, <1>8, <1>9

-----------------------------------------------------------------------------
(* The invariant is kept.                                                  *)

\* What a poster trusts in stays true, as long as its own invoice is not
\* charged by another.
LEMMA PosterTrustStays ==
    ASSUME PostingInv, [PostingNext]_<<vars, postingVars>>,
           \A i \in DOMAIN invoices : /\ i \in DOMAIN invoices'
                                      /\ invoices'[i] = invoices[i],
           NEW c, PosterTrusts(c),
           c.at \in Recording => FindEntry(c.invoice)' = {}
    PROVE  PosterTrusts(c)'
<1>1. Reserved(Head(c.rows).agreement) => Reserved(Head(c.rows).agreement)'
  BY ReservedStays
<1>2. QED
  BY <1>1 DEF PosterTrusts

\* Three things can happen to the tables of the posters.
LEMMA PostingSteps ==
    ASSUME PostingInv, [PostingNext]_<<vars, postingVars>>
    PROVE  \/ \E p \in Posters :
                \/ PosterGood(p) /\ UNCHANGED <<invoices, unchecked, ledger>>
                \/ Insert(p) \/ Post(p)
           \/ UNCHANGED <<invoices, unchecked, ledger, posters>>
<1>1. ASSUME NEW p \in Posters, PosterNext(p)
      PROVE  \/ PosterGood(p) /\ UNCHANGED <<invoices, unchecked, ledger>>
             \/ Insert(p) \/ Post(p)
  BY <1>1, QuietMoves DEF PosterNext, CreateInvoice
<1>2. CASE Next /\ UNCHANGED postingVars
  BY <1>2, EnvelopeChanges DEF postingVars
<1>3. CASE UNCHANGED <<vars, postingVars>>
  BY <1>3 DEF vars, postingVars
<1>4. QED
  BY <1>1, <1>2, <1>3 DEF PostingNext

LEMMA PostersStep ==
    ASSUME PostingInv, [PostingNext]_<<vars, postingVars>>
    PROVE  PostersInv' /\ posters' \in [Posters -> PosterCalls]
<1>1. /\ posters \in [Posters -> PosterCalls]
      /\ \A q \in Posters : PosterTrusts(posters[q])
      /\ \A q, r \in Posters :
           /\ posters[q].at \in Recording /\ posters[r].at \in Recording
           /\ posters[q].invoice = posters[r].invoice
           => q = r
  BY DEF PostingInv, PostingTypeOK, PostersInv
<1> DEFINE OneEach == \A q, r \in Posters :
                        /\ posters'[q].at \in Recording
                        /\ posters'[r].at \in Recording
                        /\ posters'[q].invoice = posters'[r].invoice
                        => q = r
           Trusted(q) == \E c : c = posters'[q] /\ PosterTrusts(c)'
<1>2. ASSUME posters' \in [Posters -> PosterCalls], OneEach,
             \A q \in Posters : Trusted(q)
      PROVE  PostersInv' /\ posters' \in [Posters -> PosterCalls]
  <2>1. ASSUME NEW q \in Posters
        PROVE  PosterTrusts(posters[q])'
    <3>1. PICK c : c = posters'[q] /\ PosterTrusts(c)'
      BY <1>2
    <3>2. QED
      BY <3>1 DEF PosterTrusts, Reserved, FindBySource, FindEntry
  <2>2. QED
    BY <1>2, <2>1 DEF PostersInv
<1> HIDE DEF Trusted
<1>3. ASSUME NEW p \in Posters, PosterGood(p),
             UNCHANGED <<invoices, unchecked, ledger>>
      PROVE  posters' \in [Posters -> PosterCalls] /\ OneEach
             /\ \A q \in Posters : Trusted(q)
  <2>1. /\ posters' \in [Posters -> PosterCalls] /\ PosterTrusts(posters'[p])
        /\ \A q \in Posters \ {p} : posters'[q] = posters[q]
        /\ posters'[p].at \in Recording =>
             /\ posters[p].at \in Recording
             /\ posters'[p].invoice = posters[p].invoice
    BY <1>3 DEF PosterGood, PosterMoved
  <2>2. ASSUME NEW q \in Posters
        PROVE  Trusted(q)
    <3>1. PICK c : c = posters'[q]
      OBVIOUS
    <3>2. PosterTrusts(c)
      BY <1>1, <2>1, <3>1
    <3>3. c.at \in Recording => FindEntry(c.invoice)' = {}
      BY <1>3, <3>2 DEF PosterTrusts, FindEntry
    <3>4. PosterTrusts(c)'
      BY <1>3, <3>2, <3>3, PosterTrustStays
    <3>5. QED
      BY <3>1, <3>4 DEF Trusted
  <2>3. OneEach
    BY <1>1, <2>1
  <2>4. QED
    BY <2>1, <2>2, <2>3
<1>4. ASSUME NEW p \in Posters, Insert(p)
      PROVE  posters' \in [Posters -> PosterCalls] /\ OneEach
             /\ \A q \in Posters : Trusted(q)
  <2>1. PICK n \in Nat \ {0}, row \in InvoiceRows :
             /\ n \notin DOMAIN invoices
             /\ DOMAIN invoices' = DOMAIN invoices \cup {n}
             /\ invoices'[n] = row
             /\ \A i \in DOMAIN invoices : invoices'[i] = invoices[i]
             /\ Reserved(row.agreement)
             /\ row.amount = Head(posters'[p].rows).amount
             /\ row.agreement = Head(posters'[p].rows).agreement
             /\ PosterMoved(p) /\ posters'[p].rows # <<>>
             /\ posters'[p].at = "envelope" /\ posters'[p].invoice = n
             /\ ledger' = ledger
    BY <1>4, InsertEffect
  <2>2. /\ posters' \in [Posters -> PosterCalls]
        /\ \A q \in Posters \ {p} : posters'[q] = posters[q]
    BY <2>1 DEF PosterMoved
  <2>3. ASSUME NEW q \in Posters, q # p
        PROVE  Trusted(q)
    <3>1. PICK c : c = posters[q]
      OBVIOUS
    <3>2. PosterTrusts(c)
      BY <1>1, <3>1
    <3>3. c.at \in Recording => FindEntry(c.invoice)' = {}
      BY <2>1, <3>2 DEF PosterTrusts, FindEntry
    <3>4. PosterTrusts(c)'
      BY <2>1, <3>2, <3>3, PosterTrustStays
    <3>5. QED
      BY <2>2, <2>3, <3>1, <3>4 DEF Trusted
  <2>4. Trusted(p)
    <3>1. PICK c : c = posters'[p]
      OBVIOUS
    <3>2. Reserved(Head(c.rows).agreement)'
      BY <2>1, <3>1, ReservedStays
    <3>3. FindEntry(n)' = {}
      BY <2>1 DEF FindEntry, PostingInv, LedgerInv
    <3>4. PosterTrusts(c)'
      BY <2>1, <3>1, <3>2, <3>3 DEF PosterTrusts
    <3>5. QED
      BY <3>1, <3>4 DEF Trusted
  <2>5. \A q \in Posters : posters[q].at \in Recording => posters[q].invoice # n
    BY <1>1, <2>1 DEF PosterTrusts
  <2>6. OneEach
    BY <1>1, <2>1, <2>2, <2>5
  <2>7. QED
    BY <2>2, <2>3, <2>4, <2>6
<1>5. ASSUME NEW p \in Posters, Post(p)
      PROVE  posters' \in [Posters -> PosterCalls] /\ OneEach
             /\ \A q \in Posters : Trusted(q)
  <2>1. PICK m \in Nat \ {0}, entry \in LedgerEntries :
             /\ m \notin DOMAIN ledger
             /\ DOMAIN ledger' = DOMAIN ledger \cup {m}
             /\ ledger' \in Seq(LedgerEntries) /\ ledger'[m] = entry
             /\ \A j \in DOMAIN ledger : ledger'[j] = ledger[j]
             /\ entry.source = posters[p].invoice
             /\ entry.source \in DOMAIN invoices
             /\ entry.amount = invoices[entry.source].amount
             /\ FindEntry(entry.source) = {}
             /\ posters[p].at \in Recording
             /\ PosterGood(p) /\ posters'[p].at \notin Recording
             /\ UNCHANGED <<invoices, unchecked>>
    BY <1>5, PostEffect
  <2>2. /\ posters' \in [Posters -> PosterCalls] /\ PosterTrusts(posters'[p])
        /\ \A q \in Posters \ {p} : posters'[q] = posters[q]
    BY <2>1 DEF PosterGood, PosterMoved
  <2>3. ASSUME NEW q \in Posters
        PROVE  Trusted(q)
    <3>1. PICK c : c = posters'[q]
      OBVIOUS
    <3>2. PosterTrusts(c)
      BY <1>1, <2>2, <3>1
    <3>3. ASSUME c.at \in Recording
          PROVE  FindEntry(c.invoice)' = {}
      <4>1. q # p /\ c = posters[q]
        BY <2>1, <2>2, <3>1, <3>3
      <4>2. c.invoice # entry.source
        BY <1>1, <2>1, <3>3, <4>1
      <4>3. FindEntry(c.invoice) = {}
        BY <3>2, <3>3 DEF PosterTrusts
      <4>4. QED
        BY <2>1, <4>2, <4>3 DEF FindEntry
    <3>4. PosterTrusts(c)'
      BY <2>1, <3>2, <3>3, PosterTrustStays
    <3>5. QED
      BY <3>1, <3>4 DEF Trusted
  <2>4. OneEach
    BY <1>1, <2>1, <2>2
  <2>5. QED
    BY <2>2, <2>3, <2>4
<1>6. ASSUME UNCHANGED <<invoices, unchecked, ledger, posters>>
      PROVE  posters' \in [Posters -> PosterCalls] /\ OneEach
             /\ \A q \in Posters : Trusted(q)
  <2>1. ASSUME NEW q \in Posters
        PROVE  Trusted(q)
    <3>1. PICK c : c = posters[q]
      OBVIOUS
    <3>2. PosterTrusts(c)
      BY <1>1, <3>1
    <3>3. c.at \in Recording => FindEntry(c.invoice)' = {}
      BY <1>6, <3>2 DEF PosterTrusts, FindEntry
    <3>4. PosterTrusts(c)'
      BY <1>6, <3>2, <3>3, PosterTrustStays
    <3>5. QED
      BY <1>6, <3>1, <3>4 DEF Trusted
  <2>2. QED
    BY <1>1, <1>6, <2>1
<1>7. QED
  <2> HIDE DEF OneEach
  <2>1. QED
    BY <1>2, <1>3, <1>4, <1>5, <1>6, PostingSteps

LEMMA InvoicesStep ==
    ASSUME PostingInv, [PostingNext]_<<vars, postingVars>>
    PROVE  /\ InvoicesInv' /\ InvoicedIsReserved'
           /\ invoices' \in Seq(InvoiceRows) /\ unchecked' \subseteq Documents
<1>1. /\ InvoicesInv /\ InvoicedIsReserved
      /\ invoices \in Seq(InvoiceRows) /\ unchecked \subseteq Documents
  BY DEF PostingInv, PostingTypeOK
<1>2. ASSUME NEW p \in Posters, Insert(p)
      PROVE  /\ InvoicesInv' /\ InvoicedIsReserved'
             /\ invoices' \in Seq(InvoiceRows) /\ unchecked' \subseteq Documents
  <2>1. PICK n \in Nat \ {0}, row \in InvoiceRows :
             /\ n \notin DOMAIN invoices
             /\ DOMAIN invoices' = DOMAIN invoices \cup {n}
             /\ invoices' \in Seq(InvoiceRows) /\ invoices'[n] = row
             /\ \A i \in DOMAIN invoices : invoices'[i] = invoices[i]
             /\ FindInvoice(row.agreement, row.number) = {}
             /\ Reserved(row.agreement)
             /\ unchecked' \subseteq Documents
    BY <1>2, InsertEffect
  <2>2. \A i \in DOMAIN invoices : ~(/\ invoices[i].agreement = row.agreement
                                     /\ invoices[i].number = row.number)
    BY <2>1 DEF FindInvoice
  <2>3. InvoicesInv'
    BY <1>1, <2>1, <2>2 DEF InvoicesInv
  <2>4. ASSUME NEW i \in DOMAIN invoices'
        PROVE  Reserved(invoices[i].agreement)'
    <3>1. PICK a : a = invoices'[i].agreement
      OBVIOUS
    <3>2. Reserved(a)
      BY <1>1, <2>1, <3>1 DEF InvoicedIsReserved
    <3>3. Reserved(a)'
      BY <3>2, ReservedStays
    <3>4. QED
      BY <3>1, <3>3 DEF Reserved, FindBySource
  <2>5. QED
    BY <2>1, <2>3, <2>4 DEF InvoicedIsReserved
<1>3. ASSUME UNCHANGED <<invoices, unchecked>>
      PROVE  /\ InvoicesInv' /\ InvoicedIsReserved'
             /\ invoices' \in Seq(InvoiceRows) /\ unchecked' \subseteq Documents
  <2>1. InvoicesInv'
    BY <1>1, <1>3 DEF InvoicesInv
  <2>2. ASSUME NEW i \in DOMAIN invoices'
        PROVE  Reserved(invoices[i].agreement)'
    <3>1. PICK a : a = invoices[i].agreement
      OBVIOUS
    <3>2. Reserved(a)'
      BY <1>1, <1>3, <3>1, ReservedStays DEF InvoicedIsReserved
    <3>3. QED
      BY <1>3, <3>1, <3>2 DEF Reserved, FindBySource
  <2>3. QED
    BY <1>1, <1>3, <2>1, <2>2 DEF InvoicedIsReserved
<1>4. QED
  BY <1>2, <1>3, PostingSteps, PostEffect

LEMMA LedgerStep ==
    ASSUME PostingInv, [PostingNext]_<<vars, postingVars>>
    PROVE  LedgerInv' /\ ledger' \in Seq(LedgerEntries)
<1>1. LedgerInv /\ ledger \in Seq(LedgerEntries)
  BY DEF PostingInv, Inv, TypeOK, BudgetTypeOK
<1>2. ASSUME NEW p \in Posters, Insert(p)
      PROVE  LedgerInv' /\ ledger' \in Seq(LedgerEntries)
  <2>1. PICK n \in Nat \ {0}, row \in InvoiceRows :
             /\ DOMAIN invoices' = DOMAIN invoices \cup {n}
             /\ \A i \in DOMAIN invoices : invoices'[i] = invoices[i]
             /\ ledger' = ledger
    BY <1>2, InsertEffect
  <2>2. QED
    BY <1>1, <2>1 DEF LedgerInv
<1>3. ASSUME NEW p \in Posters, Post(p)
      PROVE  LedgerInv' /\ ledger' \in Seq(LedgerEntries)
  <2>1. PICK m \in Nat \ {0}, entry \in LedgerEntries :
             /\ m \notin DOMAIN ledger
             /\ DOMAIN ledger' = DOMAIN ledger \cup {m}
             /\ ledger' \in Seq(LedgerEntries) /\ ledger'[m] = entry
             /\ \A j \in DOMAIN ledger : ledger'[j] = ledger[j]
             /\ entry.source \in DOMAIN invoices
             /\ entry.amount = invoices[entry.source].amount
             /\ FindEntry(entry.source) = {}
             /\ UNCHANGED <<invoices, unchecked>>
    BY <1>3, PostEffect
  <2>2. \A j \in DOMAIN ledger : ledger[j].source # entry.source
    BY <2>1 DEF FindEntry
  <2>3. QED
    BY <1>1, <2>1, <2>2 DEF LedgerInv
<1>4. ASSUME UNCHANGED <<invoices, ledger>>
      PROVE  LedgerInv' /\ ledger' \in Seq(LedgerEntries)
  BY <1>1, <1>4 DEF LedgerInv
<1>5. QED
  BY <1>2, <1>3, <1>4, PostingSteps

LEMMA PostingInvStep ==
    ASSUME PostingInv, [PostingNext]_<<vars, postingVars>>
    PROVE  PostingInv'
<1>1. Inv'
  <2>1. CASE UNCHANGED workflowVars
    BY <2>1, WorkflowKept, LedgerStep DEF PostingInv
  <2>2. CASE Next
    BY <2>2, InvStep DEF PostingInv
  <2>3. QED
    BY <2>1, <2>2 DEF PostingNext, vars, workflowVars
<1>2. TypeOK'
  BY <1>1 DEF Inv
<1>3. PostingTypeOK'
  BY <1>2, PostersStep, InvoicesStep
  DEF PostingTypeOK, PosterCalls, PosterSteps, Rows, InvoiceRows
<1>4. QED
  BY <1>1, <1>3, PostersStep, InvoicesStep, LedgerStep DEF PostingInv

LEMMA PostingInvInit ==
    ASSUME PostingInit
    PROVE  PostingInv
<1>1. Inv
  BY InvInit DEF PostingInit
<1>2. /\ DOMAIN invoices = {} /\ DOMAIN ledger = {}
      /\ \A p \in Posters : posters[p] = NoPosting
  BY DEF PostingInit, Init, BudgetInit
<1>3. NoPosting \in PosterCalls /\ NoPosting.at = "idle"
  BY EmptySeq DEF NoPosting, PosterCalls, PosterSteps
<1>4. PostingTypeOK
  BY <1>1, <1>3, EmptySeq DEF PostingInit, PostingTypeOK, Inv
<1>5. PostersInv
  BY <1>2, <1>3 DEF PostersInv, PosterTrusts, Checked, Recording
<1>6. InvoicesInv /\ LedgerInv /\ InvoicedIsReserved
  BY <1>2 DEF InvoicesInv, LedgerInv, InvoicedIsReserved
<1>7. QED
  BY <1>1, <1>4, <1>5, <1>6 DEF PostingInv

-----------------------------------------------------------------------------
(* Theorems.                                                               *)

\* In every reachable state the workflow keeps its invariant and every call
\* that records an invoice can rely on what it has read and written.
THEOREM PostingInvariance == PostingSpec => []PostingInv
<1>1. PostingInit => PostingInv
  BY PostingInvInit
<1>2. PostingInv /\ [PostingNext]_<<vars, postingVars>> => PostingInv'
  BY PostingInvStep
<1>3. QED
  BY <1>1, <1>2, PTL DEF PostingSpec

\* Invoices, entries and the calls that record them keep their types.
THEOREM PostingTypeCorrect == PostingSpec => []PostingTypeOK
<1>1. PostingInv => PostingTypeOK
  BY DEF PostingInv
<1>2. QED
  BY <1>1, PostingInvariance, PTL

\* No invoice is recorded for an agreement that never reserved budget.
THEOREM InvoicesReserved == PostingSpec => []InvoicedIsReserved
<1>1. PostingInv => InvoicedIsReserved
  BY DEF PostingInv
<1>2. QED
  BY <1>1, PostingInvariance, PTL

-----------------------------------------------------------------------------
(* The two tables implement Posting.                                       *)

\* An invoice has at most one row, and a row at most one entry.
LEMMA OneOfEach ==
    ASSUME PostingInv, NEW k
    PROVE  /\ \/ FindInvoice(k[1], k[2]) = {} /\ EntriesOf(k) = {}
              \/ \E i \in DOMAIN invoices :
                   /\ FindInvoice(k[1], k[2]) = {i} /\ EntriesOf(k) = FindEntry(i)
                   /\ invoices[i].amount \in InvoiceAmounts
                   /\ invoices[i].agreement = k[1] /\ invoices[i].number = k[2]
           /\ \/ EntriesOf(k) = {}
              \/ \E j \in DOMAIN ledger :
                   EntriesOf(k) = {j} /\ ledger[j].amount \in Int
<1>1. InvoicesInv /\ LedgerInv
  BY DEF PostingInv
<1>2. /\ \A i \in DOMAIN invoices : invoices[i] \in InvoiceRows
      /\ \A j \in DOMAIN ledger : ledger[j] \in LedgerEntries
  BY ElementOfSeq, LenProperties
  DEF PostingInv, PostingTypeOK, TypeOK, BudgetTypeOK
<1>3. CASE FindInvoice(k[1], k[2]) = {}
  BY <1>3 DEF EntriesOf
<1>4. CASE FindInvoice(k[1], k[2]) # {}
  <2>1. PICK i : i \in FindInvoice(k[1], k[2])
    BY <1>4
  <2>2. /\ i \in DOMAIN invoices
        /\ invoices[i].agreement = k[1] /\ invoices[i].number = k[2]
    BY <2>1 DEF FindInvoice
  <2>3. FindInvoice(k[1], k[2]) = {i}
    BY <1>1, <2>2 DEF InvoicesInv, FindInvoice
  <2>4. EntriesOf(k) = FindEntry(i)
    BY <2>3 DEF EntriesOf
  <2>5. invoices[i].amount \in InvoiceAmounts
    BY <1>2, <2>2 DEF InvoiceRows
  <2>6. FindEntry(i) = {} \/ \E j \in DOMAIN ledger :
                                FindEntry(i) = {j} /\ ledger[j].amount \in Int
    <3>1. CASE FindEntry(i) # {}
      <4>1. PICK j : j \in FindEntry(i)
        BY <3>1
      <4>2. j \in DOMAIN ledger /\ ledger[j].source = i
        BY <4>1 DEF FindEntry
      <4>3. FindEntry(i) = {j}
        BY <1>1, <4>2 DEF LedgerInv, FindEntry
      <4>4. QED
        BY <1>2, <4>2, <4>3 DEF LedgerEntries
    <3>2. QED
      BY <3>1
  <2>7. QED
    BY <2>2, <2>3, <2>4, <2>5, <2>6
<1>5. QED
  BY <1>3, <1>4

\* A sum over the only row, or none, does not change while the row stays.
LEMMA SameTotal ==
    ASSUME NEW f, NEW g, NEW S,
           S = {} \/ \E i : S = {i} /\ f[i].amount \in Int /\ g[i] = f[i]
    PROVE  Total(g, S) = Total(f, S)
<1>1. CASE S = {}
  BY <1>1, TotalOfNone
<1>2. ASSUME NEW i, S = {i}, f[i].amount \in Int, g[i] = f[i]
      PROVE  Total(g, S) = Total(f, S)
  <2>1. Total(f, {i}) = f[i].amount /\ Total(g, {i}) = g[i].amount
    BY <1>2, TotalOfOne
  <2>2. QED
    BY <1>2, <2>1
<1>3. QED
  BY <1>1, <1>2

\* The books are functions, whatever their values.
LEMMA BooksAreFunctions ==
    /\ RecordedAmount = [k \in InvoiceKeys |-> RecordedAmount[k]]
    /\ RecordedAmount' = [k \in InvoiceKeys |-> RecordedAmount'[k]]
    /\ ChargedAmount = [k \in InvoiceKeys |-> ChargedAmount[k]]
    /\ ChargedAmount' = [k \in InvoiceKeys |-> ChargedAmount'[k]]
    /\ ChargedEnvelopes = [k \in InvoiceKeys |-> ChargedEnvelopes[k]]
    /\ ChargedEnvelopes' = [k \in InvoiceKeys |-> ChargedEnvelopes'[k]]
BY DEF RecordedAmount, ChargedAmount, ChargedEnvelopes, InvoiceKeys

\* An inserted invoice is recorded, for its amount.
LEMMA InsertRecords ==
    ASSUME PostingInv, NEW p \in Posters, Insert(p)
    PROVE  \E k \in InvoiceKeys, amount \in InvoiceAmounts :
             Books!Record(k, amount)
<1>1. PICK n \in Nat \ {0}, row \in InvoiceRows :
             /\ n \notin DOMAIN invoices
             /\ DOMAIN invoices' = DOMAIN invoices \cup {n}
             /\ invoices'[n] = row
             /\ \A i \in DOMAIN invoices : invoices'[i] = invoices[i]
             /\ FindInvoice(row.agreement, row.number) = {}
             /\ ledger' = ledger
  BY InsertEffect
<1>2. PICK a, num, k : /\ a = row.agreement /\ num = row.number
                       /\ k = <<a, num>>
  OBVIOUS
<1>3. /\ k \in InvoiceKeys /\ k[1] = a /\ k[2] = num
      /\ row.amount \in InvoiceAmounts /\ row.amount \in Int
  BY <1>2, InvoiceAssumption DEF InvoiceRows, InvoiceKeys
<1>4. FindInvoice(a, num) = {} /\ FindInvoice(a, num)' = {n}
  BY <1>1, <1>2 DEF FindInvoice
<1>5. EntriesOf(k) = {} /\ EntriesOf(k)' = {}
  <2>1. FindEntry(n)' = {}
    BY <1>1 DEF FindEntry, PostingInv, LedgerInv
  <2>2. QED
    BY <1>3, <1>4, <2>1 DEF EntriesOf, FindEntry
<1>6. ASSUME NEW q \in InvoiceKeys, q # k
      PROVE  /\ FindInvoice(q[1], q[2])' = FindInvoice(q[1], q[2])
             /\ EntriesOf(q)' = EntriesOf(q)
  <2>1. ~(a = q[1] /\ num = q[2])
    BY <1>2, <1>6 DEF InvoiceKeys
  <2>2. FindInvoice(q[1], q[2])' = FindInvoice(q[1], q[2])
    BY <1>1, <1>2, <2>1 DEF FindInvoice
  <2>3. QED
    BY <1>1, <2>2 DEF EntriesOf, FindEntry
<1>7. \A q \in InvoiceKeys : /\ ChargedAmount'[q] = ChargedAmount[q]
                             /\ ChargedEnvelopes'[q] = ChargedEnvelopes[q]
  BY <1>1, <1>5, <1>6 DEF ChargedAmount, ChargedEnvelopes
<1>8. ASSUME NEW q \in InvoiceKeys, q # k
      PROVE  RecordedAmount'[q] = RecordedAmount[q]
  <2>1. PICK f, g, S : /\ f = invoices /\ g = invoices'
                       /\ S = FindInvoice(q[1], q[2])
    OBVIOUS
  <2>2. S = {} \/ \E i : S = {i} /\ f[i].amount \in Int /\ g[i] = f[i]
    BY <1>1, <2>1, OneOfEach, InvoiceAssumption
  <2>3. Total(g, S) = Total(f, S)
    BY <2>2, SameTotal
  <2>4. QED
    BY <1>6, <1>8, <2>1, <2>3 DEF RecordedAmount
<1>9. RecordedAmount[k] = 0
  BY <1>3, <1>4, TotalOfNone DEF RecordedAmount
<1>10. RecordedAmount'[k] = row.amount
  <2>1. PICK g : g = invoices'
    OBVIOUS
  <2>2. Total(g, {n}) = row.amount
    BY <1>1, <1>3, <2>1, TotalOfOne
  <2>3. QED
    BY <1>3, <1>4, <2>1, <2>2 DEF RecordedAmount
<1>11. Books!Record(k, row.amount)
  <2>1. /\ RecordedAmount' = [RecordedAmount EXCEPT ![k] = row.amount]
        /\ ChargedAmount' = ChargedAmount
        /\ ChargedEnvelopes' = ChargedEnvelopes
    BY <1>3, <1>7, <1>8, <1>10, BooksAreFunctions
  <2>2. QED
    BY <1>9, <2>1 DEF Books!Record
<1>12. QED
  BY <1>3, <1>11

\* An inserted entry charges an invoice that is recorded and not charged.
LEMMA PostCharges ==
    ASSUME PostingInv, NEW p \in Posters, Post(p)
    PROVE  \E k \in InvoiceKeys, e \in Envelopes : Books!Charge(k, e)
<1>1. PICK m \in Nat \ {0}, entry \in LedgerEntries :
             /\ m \notin DOMAIN ledger
             /\ DOMAIN ledger' = DOMAIN ledger \cup {m}
             /\ ledger' \in Seq(LedgerEntries) /\ ledger'[m] = entry
             /\ \A j \in DOMAIN ledger : ledger'[j] = ledger[j]
             /\ entry.source \in DOMAIN invoices
             /\ entry.amount = invoices[entry.source].amount
             /\ FindEntry(entry.source) = {}
             /\ UNCHANGED <<invoices, unchecked>>
  BY PostEffect
<1>2. PICK i, k : /\ i = entry.source
                  /\ k = <<invoices[i].agreement, invoices[i].number>>
  OBVIOUS
<1>3. invoices[i] \in InvoiceRows
  BY <1>1, <1>2, ElementOfSeq, LenProperties DEF PostingInv, PostingTypeOK
<1>4. /\ k \in InvoiceKeys /\ k[1] = invoices[i].agreement
      /\ k[2] = invoices[i].number /\ i \in DOMAIN invoices
      /\ entry.envelope \in Envelopes /\ entry.amount \in Int
      /\ entry.amount # 0
  BY <1>1, <1>2, <1>3, InvoiceAssumption
  DEF InvoiceRows, InvoiceKeys, LedgerEntries
<1>5. FindInvoice(k[1], k[2]) = {i}
  BY <1>4 DEF PostingInv, InvoicesInv, FindInvoice
<1>6. EntriesOf(k) = {} /\ EntriesOf(k)' = {m}
  <2>1. FindEntry(i)' = {m}
    BY <1>1, <1>2 DEF FindEntry
  <2>2. FindInvoice(k[1], k[2])' = {i}
    BY <1>1, <1>5 DEF FindInvoice
  <2>3. EntriesOf(k) = FindEntry(i) /\ EntriesOf(k)' = FindEntry(i)'
    BY <1>5, <2>2, ZenonT(60) DEF EntriesOf
  <2>4. QED
    BY <1>1, <1>2, <2>1, <2>3
<1>7. ASSUME NEW q \in InvoiceKeys, q # k
      PROVE  EntriesOf(q)' = EntriesOf(q)
  <2>1. ~(k[1] = q[1] /\ k[2] = q[2])
    BY <1>2, <1>4, <1>7 DEF InvoiceKeys
  <2>2. i \notin FindInvoice(q[1], q[2])
    BY <1>4, <2>1 DEF FindInvoice
  <2>3. \A r : r # i => FindEntry(r)' = FindEntry(r)
    BY <1>1, <1>2 DEF FindEntry
  <2>4. FindInvoice(q[1], q[2])' = FindInvoice(q[1], q[2])
    BY <1>1 DEF FindInvoice
  <2>5. QED
    BY <2>2, <2>3, <2>4 DEF EntriesOf
<1>8. ASSUME NEW q \in InvoiceKeys, q # k
      PROVE  /\ ChargedAmount'[q] = ChargedAmount[q]
             /\ ChargedEnvelopes'[q] = ChargedEnvelopes[q]
  <2>1. PICK f, g, S : f = ledger /\ g = ledger' /\ S = EntriesOf(q)
    OBVIOUS
  <2>2. S = {} \/ \E j \in DOMAIN f :
                     S = {j} /\ f[j].amount \in Int /\ g[j] = f[j]
    BY <1>1, <2>1, OneOfEach
  <2>3. Total(g, S) = Total(f, S)
    BY <2>2, SameTotal
  <2>4. ChargedAmount'[q] = ChargedAmount[q]
    BY <1>7, <1>8, <2>1, <2>3 DEF ChargedAmount
  <2>5. \A j \in EntriesOf(q) : ledger'[j] = ledger[j]
    BY <2>1, <2>2
  <2>6. QED
    BY <1>7, <1>8, <2>4, <2>5 DEF ChargedEnvelopes
<1>9. RecordedAmount' = RecordedAmount
  BY <1>1 DEF RecordedAmount, FindInvoice, InvoiceKeys
<1>10. RecordedAmount[k] = entry.amount
  <2>1. Total(invoices, {i}) = entry.amount
    BY <1>1, <1>2, <1>4, TotalOfOne
  <2>2. QED
    BY <1>4, <1>5, <2>1 DEF RecordedAmount
<1>11. ChargedEnvelopes[k] = {} /\ ChargedEnvelopes'[k] = {entry.envelope}
  BY <1>1, <1>4, <1>6 DEF ChargedEnvelopes
<1>12. ChargedAmount'[k] = entry.amount
  <2>1. PICK g : g = ledger'
    OBVIOUS
  <2>2. Total(g, {m}) = entry.amount
    BY <1>1, <1>4, <2>1, TotalOfOne
  <2>3. QED
    BY <1>4, <1>6, <2>1, <2>2 DEF ChargedAmount
<1>13. Books!Charge(k, entry.envelope)
  <2>1. /\ ChargedAmount' = [ChargedAmount EXCEPT ![k] = RecordedAmount[k]]
        /\ ChargedEnvelopes' =
             [ChargedEnvelopes EXCEPT ![k] = {entry.envelope}]
    BY <1>4, <1>8, <1>10, <1>11, <1>12, BooksAreFunctions
  <2>2. QED
    BY <1>4, <1>9, <1>10, <1>11, <2>1 DEF Books!Charge
<1>14. QED
  BY <1>4, <1>13

\* agreement_transactions and ledger_entries, written by any number of calls
\* that race, die and are repeated beside the workflow, implement the books: an
\* invoice is recorded once, for one amount, and charged at most once.
THEOREM PostingRefinement == PostingSpec => ImplementsPosting
<1>1. PostingInit => Books!PostingInit
  <2>1. SUFFICES ASSUME PostingInit PROVE Books!PostingInit
    OBVIOUS
  <2>2. DOMAIN invoices = {}
    BY <2>1 DEF PostingInit
  <2>3. \A k : FindInvoice(k[1], k[2]) = {} /\ EntriesOf(k) = {}
    BY <2>2 DEF FindInvoice, EntriesOf
  <2>4. QED
    BY <2>3, TotalOfNone
    DEF Books!PostingInit, RecordedAmount, ChargedAmount, ChargedEnvelopes
<1>2. PostingInv /\ [PostingNext]_<<vars, postingVars>>
        => [Books!PostingNext]_<<RecordedAmount, ChargedAmount, ChargedEnvelopes>>
  <2>1. SUFFICES ASSUME PostingInv, [PostingNext]_<<vars, postingVars>>
                 PROVE  \/ Books!PostingNext
                        \/ UNCHANGED <<RecordedAmount, ChargedAmount,
                                       ChargedEnvelopes>>
    OBVIOUS
  <2>2. ASSUME UNCHANGED <<invoices, ledger>>
        PROVE  UNCHANGED <<RecordedAmount, ChargedAmount, ChargedEnvelopes>>
    BY <2>2 DEF RecordedAmount, ChargedAmount, ChargedEnvelopes, EntriesOf,
                FindInvoice, FindEntry, InvoiceKeys
  <2>3. QED
    BY <2>2, InsertRecords, PostCharges, PostingSteps, <2>1 DEF Books!PostingNext
<1>3. QED
  BY <1>1, <1>2, PostingInvariance, PTL
  DEF PostingSpec, Books!PostingSpec, ImplementsPosting

-----------------------------------------------------------------------------
(* The cap of an agreement.                                                *)

\* What a call that has the row in hand has read of the agreement is still so,
\* and the sum it has checked as well, unless another call inserted after it.
PosterSees(c) ==
    LET a == Head(c.rows).agreement
    IN  /\ c.at \in {"existing", "total", "insert"} => c.cap = agreements[a].cap
        /\ c.at = "insert" /\ Head(c.rows).form # "text"
           /\ a \notin unchecked =>
               CurrentTotal(a) + Head(c.rows).amount <= c.cap

CapInv == (\A p \in Posters : PosterSees(posters[p])) /\ CapKept

\* The sum over the invoices of an agreement.
LEMMA CurrentTotals ==
    ASSUME PostingInv, NEW a
    PROVE  /\ CurrentTotal(a) \in Int
           /\ IsFiniteSet({i \in DOMAIN invoices : invoices[i].agreement = a})
           /\ \A i \in DOMAIN invoices : invoices[i].amount \in Int
<1> DEFINE S == {i \in DOMAIN invoices : invoices[i].agreement = a}
<1>1. /\ invoices \in Seq(InvoiceRows) /\ Len(invoices) \in Nat
      /\ DOMAIN invoices = 1..Len(invoices)
  BY LenProperties DEF PostingInv, PostingTypeOK
<1>2. IsFiniteSet(S)
  <2>1. IsFiniteSet(1..Len(invoices))
    BY <1>1, FS_Interval
  <2>2. S \subseteq 1..Len(invoices)
    BY <1>1
  <2>3. QED
    BY <2>1, <2>2, FS_Subset
<1>3. \A i \in DOMAIN invoices : invoices[i].amount \in Int
  <2>1. \A i \in DOMAIN invoices : invoices[i] \in InvoiceRows
    BY <1>1, ElementOfSeq
  <2>2. QED
    BY <2>1, InvoiceAssumption DEF InvoiceRows
<1>4. Total(invoices, S) \in Int
  <2>1. \A i \in S : invoices[i].amount \in Int
    BY <1>3
  <2> HIDE DEF S
  <2>2. QED
    BY <1>2, <2>1, TotalInInt
<1>5. QED
  BY <1>2, <1>3, <1>4 DEF CurrentTotal

\* What the INSERT adds to it.
LEMMA InsertAdds ==
    ASSUME PostingInv, NEW p \in Posters, Insert(p)
    PROVE  \E r \in Rows :
             /\ r = Row(p) /\ r.amount \in Int
             /\ \A a : IF a = r.agreement
                        THEN CurrentTotal(a)' = CurrentTotal(a) + r.amount
                        ELSE CurrentTotal(a)' = CurrentTotal(a)
<1>1. /\ invoices \in Seq(InvoiceRows) /\ posters[p] \in PosterCalls
      /\ PosterTrusts(posters[p]) /\ posters[p].at = "insert"
  BY DEF PostingInv, PostingTypeOK, PostersInv, Insert, PosterAt
<1>2. posters[p].rows \in Seq(Rows) /\ posters[p].rows # <<>>
  BY <1>1 DEF PosterTrusts, PosterCalls
<1>3. PICK r \in Rows : r = Row(p)
  BY <1>2, RowsLeft DEF Row
<1>4. PICK row : row = [agreement |-> r.agreement, number |-> r.number,
                        amount |-> r.amount]
  OBVIOUS
<1>5. /\ row \in InvoiceRows /\ row.agreement = r.agreement
      /\ row.amount = r.amount
  BY <1>4 DEF InvoiceRows, Rows
<1>6. invoices' = Append(invoices, row)
  BY <1>3, <1>4 DEF Insert, InsertRow
<1>7. PICK f, g : f = invoices /\ g = invoices'
  OBVIOUS
<1>8. PICK n \in Nat \ {0} :
             /\ n \notin DOMAIN f /\ DOMAIN g = DOMAIN f \cup {n}
             /\ g[n] = row /\ \A i \in DOMAIN f : g[i] = f[i]
  BY <1>1, <1>5, <1>6, <1>7, RowAppended
<1>9. row.amount \in Int
  BY <1>5, InvoiceAssumption DEF InvoiceRows
<1>10. ASSUME NEW b
      PROVE  /\ b = r.agreement =>
                   CurrentTotal(b)' = CurrentTotal(b) + r.amount
             /\ b # r.agreement => CurrentTotal(b)' = CurrentTotal(b)
  <2> DEFINE S == {i \in DOMAIN f : f[i].agreement = b}
             T == {i \in DOMAIN g : g[i].agreement = b}
  <2>1. CurrentTotal(b) = Total(f, S) /\ CurrentTotal(b)' = Total(g, T)
    BY <1>7 DEF CurrentTotal
  <2>2. IsFiniteSet(S) /\ \A i \in S : f[i].amount \in Int
    BY <1>7, CurrentTotals
  <2>3. n \notin S /\ \A i \in S : g[i] = f[i]
    BY <1>8
  <2>4. T = IF b = r.agreement THEN S \cup {n} ELSE S
    BY <1>5, <1>8
  <2> HIDE DEF S, T
  <2>5. Total(f, S) \in Int /\ Total(f, S) = Total(g, S)
    BY <2>2, <2>3, TotalInInt, TotalSame
  <2>6. Total(g, S \cup {n}) = row.amount + Total(g, S)
    <3>1. \A i \in S \cup {n} : g[i].amount \in Int
      BY <1>8, <1>9, <2>2, <2>3
    <3>2. QED
      BY <2>2, <2>3, <3>1, <1>8, TotalPlus
  <2>7. QED
    BY <1>5, <1>9, <2>1, <2>4, <2>5, <2>6
<1>11. r.amount \in Int
  BY <1>5, <1>9
<1>12. QED
  BY <1>3, <1>10, <1>11

\* The cap that a call has read is the cap, and so is the one invoices were
\* checked against: their agreement holds budget.
LEMMA CapsOfReserved ==
    ASSUME PostingInv, SerialInv, [PostingNext]_<<vars, postingVars>>,
           NEW a \in Documents, Reserved(a)
    PROVE  agreements'[a].cap = agreements[a].cap
<1>1. CASE UNCHANGED agreements
  BY <1>1
<1>2. CASE Next
  <2>1. PICK i \in DOMAIN transactions : transactions[i].source = a
    BY DEF Reserved, FindBySource
  <2>2. agreements[a].status \notin {"ABSENT", "DRAFT"}
    BY <2>1 DEF SerialInv, RowCurrent
  <2>3. QED
    BY <1>2, <2>2, CapStays DEF PostingInv
<1>3. QED
  BY <1>1, <1>2 DEF PostingNext, workflowVars, vars

\* The workflow keeps its second invariant beside the posters as well.
LEMMA SerialBeside ==
    ASSUME Apart, PostingInv, SerialInv, [PostingNext]_<<vars, postingVars>>
    PROVE  SerialInv'
<1>1. CASE UNCHANGED workflowVars
  BY <1>1 DEF workflowVars, SerialInv, CallCurrent, RowCurrent
<1>2. CASE Next
  BY <1>2, SerialStep DEF PostingInv
<1>3. QED
  BY <1>1, <1>2 DEF PostingNext, workflowVars, vars

\* A call that is done with a row has seen nothing of the next.
LEMMA NextRowSees ==
    ASSUME PostingInv, NEW p \in Posters, NextRow(p)
    PROVE  posters'[p].at \in {"idle", "agreement"}
<1>1. posters \in [Posters -> PosterCalls]
  BY DEF PostingInv, PostingTypeOK
<1>2. \/ posters'[p] = NoPosting
      \/ posters'[p] = [NoPosting EXCEPT !.at = "agreement",
                                         !.rows = Tail(posters[p].rows)]
  BY <1>1 DEF NextRow
<1>3. CASE posters'[p] = NoPosting
  BY <1>3 DEF NoPosting
<1>4. PICK rest : rest = Tail(posters[p].rows)
  OBVIOUS
<1>5. [NoPosting EXCEPT !.at = "agreement", !.rows = rest].at = "agreement"
  BY DEF NoPosting
<1>6. QED
  BY <1>2, <1>3, <1>4, <1>5

\* The statements of create that write no table keep what the call has seen;
\* the cap check is what establishes it.
LEMMA QuietSees ==
    ASSUME PostingInv, CapInv, NEW p \in Posters,
           \/ \E rows \in Batches : Import(p, rows)
           \/ ReadAgreement(p) \/ ReadExisting(p) \/ ReadTotal(p)
           \/ InsertDuplicate(p) \/ FindEnvelope(p) \/ ChannelMissing(p)
           \/ ReadEntry(p) \/ RowFails(p) \/ PosterDies(p)
    PROVE  PosterSees(posters'[p])
<1>1. /\ posters[p] \in PosterCalls /\ PosterSees(posters[p])
      /\ posters \in [Posters -> PosterCalls] /\ PosterTrusts(posters[p])
  BY DEF PostingInv, PostingTypeOK, CapInv, PostersInv
<1>2. ASSUME NEW c, c.at \notin {"existing", "total", "insert"}
      PROVE  PosterSees(c)
  BY <1>2 DEF PosterSees
<1>3. NoPosting.at = "idle"
      /\ \A rows : [NoPosting EXCEPT !.at = "agreement", !.rows = rows].at
                     = "agreement"
  BY DEF NoPosting
<1>4. ASSUME NextRow(p)
      PROVE  PosterSees(posters'[p])
  BY <1>2, <1>4, NextRowSees
<1>5. ASSUME NEW step \in PosterSteps, PosterGoes(p, step)
      PROVE  /\ posters'[p].at = step
             /\ posters'[p].rows = posters[p].rows
             /\ posters'[p].cap = posters[p].cap
  BY <1>5, PosterGoesMoves
<1>6. CASE ReadAgreement(p)
  <2>1. CASE Found(Row(p).agreement, "APPROVED")
    <3>1. PICK cap : cap = agreements[Row(p).agreement].cap
      OBVIOUS
    <3>2. posters' = [posters EXCEPT ![p].at = "existing", ![p].cap = cap]
      BY <1>6, <2>1, <3>1 DEF ReadAgreement
    <3>3. /\ posters'[p].at = "existing" /\ posters'[p].cap = cap
          /\ posters'[p].rows = posters[p].rows
      BY <1>1, <3>2 DEF PosterCalls
    <3>4. QED
      BY <3>1, <3>3 DEF PosterSees, Row
  <2>2. QED
    BY <1>4, <1>6, <2>1 DEF ReadAgreement
<1>7. CASE ReadExisting(p)
  <2>1. CASE PosterGoes(p, "total")
    BY <1>1, <1>5, <1>7, <2>1
    DEF ReadExisting, PosterAt, PosterSees, PosterSteps
  <2>2. QED
    BY <1>4, <1>7, <2>1 DEF ReadExisting
<1>8. CASE ReadTotal(p)
  <2>1. posters[p].rows \in Seq(Rows) /\ posters[p].rows # <<>>
    BY <1>1, <1>8 DEF ReadTotal, PosterAt, PosterTrusts, PosterCalls
  <2>2. PICK r \in Rows : r = Head(posters[p].rows)
    BY <2>1, RowsLeft
  <2>3. /\ CurrentTotal(r.agreement) \in Int /\ r.amount \in Int
        /\ posters[p].cap \in Nat
    BY <1>1, CurrentTotals, InvoiceAssumption DEF Rows, PosterCalls
  <2>4. PICK exceeds \in ExceedsCap(r, posters[p].cap) :
               IF exceeds THEN NextRow(p) ELSE PosterGoes(p, "insert")
    BY <1>8, <2>2 DEF ReadTotal, Row
  <2>5. CASE exceeds
    BY <1>4, <2>4, <2>5
  <2>6. CASE ~exceeds
    <3>1. PosterGoes(p, "insert")
      BY <2>4, <2>6
    <3>2. ASSUME r.form # "text"
          PROVE  CurrentTotal(r.agreement) + r.amount <= posters[p].cap
      <4>1. exceeds \in {CurrentTotal(r.agreement) + r.amount > posters[p].cap}
        BY <2>4, <3>2, Zenon DEF ExceedsCap
      <4>2. ~(CurrentTotal(r.agreement) + r.amount > posters[p].cap)
        BY <2>6, <4>1, Zenon
      <4>3. QED
        BY <2>3, <4>2
    <3>3. QED
      BY <1>1, <1>5, <1>8, <2>2, <3>1, <3>2
      DEF ReadTotal, PosterAt, PosterSees, PosterSteps
  <2>7. QED
    BY <2>5, <2>6
<1>9. CASE FindEnvelope(p)
  <2>1. ASSUME NEW e, posters' = [posters EXCEPT ![p].at = "entry",
                                                 ![p].envelope = e]
        PROVE  PosterSees(posters'[p])
    <3>1. posters'[p].at = "entry"
      BY <1>1, <2>1 DEF PosterCalls
    <3>2. QED
      BY <1>2, <3>1
  <2>2. QED
    BY <1>4, <1>9, <2>1 DEF FindEnvelope
<1>10. CASE ReadEntry(p)
  <2>1. CASE PosterGoes(p, "post")
    BY <1>2, <1>5, <2>1 DEF PosterSteps
  <2>2. QED
    BY <1>4, <1>10, <2>1 DEF ReadEntry
<1>11. ASSUME NEW rows \in Batches, Import(p, rows)
       PROVE  PosterSees(posters'[p])
  <2>1. posters'[p] = [NoPosting EXCEPT !.at = "agreement", !.rows = rows]
    BY <1>1, <1>11 DEF Import
  <2>2. QED
    BY <1>2, <1>3, <2>1
<1>12. CASE PosterDies(p)
  <2>1. posters'[p] = NoPosting
    BY <1>1, <1>12 DEF PosterDies
  <2>2. QED
    BY <1>2, <1>3, <2>1
<1>13. CASE InsertDuplicate(p) \/ ChannelMissing(p) \/ RowFails(p)
  BY <1>4, <1>13 DEF InsertDuplicate, ChannelMissing, RowFails
<1>14. QED
  BY <1>6, <1>7, <1>8, <1>9, <1>10, <1>11, <1>12, <1>13

LEMMA CapStep ==
    ASSUME PostingInv, SerialInv, CapInv, [PostingNext]_<<vars, postingVars>>
    PROVE  CapInv'
<1>1. /\ posters \in [Posters -> PosterCalls]
      /\ \A q \in Posters : PosterTrusts(posters[q]) /\ PosterSees(posters[q])
      /\ agreements' \in [Documents -> Agreements]
  BY PostingInvStep DEF PostingInv, PostingTypeOK, PostersInv, CapInv, Inv, TypeOK
<1>2. ASSUME NEW q \in Posters, posters[q].at \in {"existing", "total", "insert"}
      PROVE  LET a == Head(posters[q].rows).agreement
             IN  a \in Documents /\ agreements'[a].cap = agreements[a].cap
  <2>1. /\ posters[q].rows \in Seq(Rows) /\ posters[q].rows # <<>>
        /\ Reserved(Head(posters[q].rows).agreement)
    BY <1>1, <1>2 DEF PosterTrusts, PosterCalls, Checked
  <2>2. PICK r \in Rows : r = Head(posters[q].rows)
    BY <2>1, RowsLeft
  <2>3. r.agreement \in Documents
    BY <2>2 DEF Rows
  <2>4. QED
    BY <2>1, <2>2, <2>3, CapsOfReserved
<1>3. ASSUME NEW a \in Documents, CurrentTotal(a)' = CurrentTotal(a),
             a \notin unchecked
      PROVE  CurrentTotal(a)' <= agreements'[a].cap
  <2>1. CASE Reserved(a)
    BY <1>3, <2>1, CapsOfReserved DEF CapInv, CapKept
  <2>2. CASE ~Reserved(a)
    <3>1. {i \in DOMAIN invoices : invoices[i].agreement = a} = {}
      BY <2>2 DEF PostingInv, InvoicedIsReserved
    <3>2. CurrentTotal(a) = 0
      BY <3>1, TotalOfNone DEF CurrentTotal
    <3>3. QED
      BY <1>1, <1>3, <3>2 DEF Agreements
  <2>3. QED
    BY <2>1, <2>2
<1>4. CASE UNCHANGED <<invoices, posters, unchecked>>
  <2>1. \A a : CurrentTotal(a)' = CurrentTotal(a)
    BY <1>4 DEF CurrentTotal
  <2>2. CapKept'
    BY <1>3, <1>4, <2>1 DEF CapKept
  <2>3. ASSUME NEW q \in Posters
        PROVE  PosterSees(posters[q])'
    BY <1>1, <1>2, <1>4, <2>1 DEF PosterSees
  <2>4. QED
    BY <2>2, <2>3 DEF CapInv
<1>5. ASSUME NEW p \in Posters, UNCHANGED <<agreements, invoices, unchecked>>,
             PosterSees(posters'[p]),
             \A q \in Posters \ {p} : posters'[q] = posters[q]
      PROVE  CapInv'
  <2>1. \A a : CurrentTotal(a)' = CurrentTotal(a)
    BY <1>5 DEF CurrentTotal
  <2>2. \A q \in Posters : PosterSees(posters'[q])
    BY <1>1, <1>5
  <2>3. \A q \in Posters : PosterSees(posters[q])'
    BY <1>5, <2>1, <2>2 DEF PosterSees
  <2>4. QED
    BY <1>3, <1>5, <2>1, <2>3 DEF CapInv, CapKept
<1>6. ASSUME NEW p \in Posters, Insert(p), UNCHANGED agreements
      PROVE  CapInv'
  <2>1. /\ posters'[p].at = "envelope"
        /\ \A q \in Posters \ {p} : posters'[q] = posters[q]
    BY <1>6, InsertEffect DEF PosterMoved
  <2>2. PICK r \in Rows :
               /\ r = Row(p) /\ r.amount \in Int
               /\ \A a : IF a = r.agreement
                          THEN CurrentTotal(a)' = CurrentTotal(a) + r.amount
                          ELSE CurrentTotal(a)' = CurrentTotal(a)
    BY <1>6, InsertAdds
  <2>3. /\ unchecked' = unchecked \cup Overtakes(p) \cup JoinsText(p)
        /\ posters[p].at = "insert"
        /\ r.form = "text" => r.agreement \in unchecked'
    BY <1>6, <2>2 DEF Insert, InsertRow, PosterAt, JoinsText
  <2>4. ASSUME NEW q \in Posters \ {p}, posters[q].at = "insert",
               Head(posters[q].rows).agreement = r.agreement
        PROVE  r.agreement \in unchecked'
    BY <2>2, <2>3, <2>4 DEF Overtakes, PosterAt, Row
  <2>5. ASSUME NEW q \in Posters
        PROVE  PosterSees(posters[q])'
    <3>1. CASE q = p
      BY <2>1, <3>1 DEF PosterSees
    <3>2. CASE q # p
      BY <1>1, <1>6, <2>1, <2>2, <2>3, <2>4, <3>2 DEF PosterSees
    <3>3. QED
      BY <3>1, <3>2
  <2>6. ASSUME NEW a \in Documents, a \notin unchecked'
        PROVE  CurrentTotal(a)' <= agreements'[a].cap
    <3>1. CASE a = r.agreement
      BY <1>1, <1>6, <2>2, <2>3, <2>6, <3>1 DEF PosterSees, Row
    <3>2. CASE a # r.agreement
      BY <1>3, <2>2, <2>3, <2>6, <3>2
    <3>3. QED
      BY <3>1, <3>2
  <2>7. QED
    BY <2>5, <2>6 DEF CapInv, CapKept
<1>7. ASSUME NEW p \in Posters, PosterNext(p), UNCHANGED agreements
      PROVE  CapInv'
  <2>1. CASE Insert(p)
    BY <1>6, <1>7, <2>1
  <2>2. CASE Post(p)
    <3>1. posters'[p].at \in {"idle", "agreement"}
      BY <2>2, NextRowSees DEF Post
    <3>2. PosterSees(posters'[p])
      BY <3>1 DEF PosterSees
    <3>3. QED
      BY <1>5, <1>7, <2>2, <3>2, PostEffect DEF PosterGood, PosterMoved
  <2>3. CASE ~Insert(p) /\ ~Post(p)
    <3>1. /\ PosterSees(posters'[p]) /\ PosterGood(p)
          /\ UNCHANGED <<invoices, unchecked, ledger>>
      BY <1>7, <2>3, QuietSees, QuietMoves DEF PosterNext, CreateInvoice
    <3>2. QED
      BY <1>5, <1>7, <3>1 DEF PosterGood, PosterMoved
  <2>4. QED
    BY <2>1, <2>2, <2>3
<1>8. QED
  BY <1>4, <1>7 DEF PostingNext, workflowVars, postingVars, vars

\* The invoices of an agreement stay within its cap, unless one of them was
\* inserted between the check and the insert of another or came with its amount
\* as text: whatever else the calls that record invoices do, whatever the
\* amounts, beside workflow calls that keep apart.
THEOREM CapIsKept == PostingSpec /\ []Apart => []CapKept
<1>1. PostingInit => SerialInv
  BY SerialInit DEF PostingInit
<1>2. PostingInit => CapInv
  <2>1. SUFFICES ASSUME PostingInit PROVE CapInv
    OBVIOUS
  <2>2. /\ \A p \in Posters : posters[p].at = "idle"
        /\ DOMAIN invoices = {}
        /\ \A a \in Documents : agreements[a].cap = 0
    BY <2>1 DEF PostingInit, NoPosting, Init
  <2>3. \A a : CurrentTotal(a) = 0
    <3>1. \A a : {i \in DOMAIN invoices : invoices[i].agreement = a} = {}
      BY <2>2
    <3>2. QED
      BY <3>1, TotalOfNone DEF CurrentTotal
  <2>4. QED
    BY <2>2, <2>3 DEF CapInv, CapKept, PosterSees
<1>3. /\ Apart /\ PostingInv /\ SerialInv
      /\ [PostingNext]_<<vars, postingVars>>
      => SerialInv'
  BY SerialBeside
<1>4. /\ PostingInv /\ SerialInv /\ CapInv
      /\ [PostingNext]_<<vars, postingVars>>
      => CapInv'
  BY CapStep
<1>5. CapInv => CapKept
  BY DEF CapInv
<1>6. QED
  BY <1>1, <1>2, <1>3, <1>4, <1>5, PostingInvariance, PTL DEF PostingSpec

=============================================================================
