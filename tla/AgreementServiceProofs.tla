------------------------ MODULE AgreementServiceProofs ------------------------
(***************************************************************************)
(* Proofs about AgreementService for any number of handlers, agreements,   *)
(* users and envelopes and whatever calls fail.  Inv is inductive; what    *)
(* the calls rely on are tables that only grow, so the growth lemmas come  *)
(* first, then one lemma per part of Inv, then the theorems.               *)
(***************************************************************************)
EXTENDS AgreementService, SequenceTheorems, TLAPS

-----------------------------------------------------------------------------
(* The idempotency keys.                                                   *)

\* The two parts of a key that say which row it belongs to.
LEMMA KeyOfRow ==
    ASSUME KeysInv, NEW i \in DOMAIN transactions
    PROVE  /\ transactions[i].key.type = transactions[i].type
           /\ transactions[i].key.source = transactions[i].source
<1>1. transactions[i].key =
        Key(transactions[i].type, transactions[i].source,
            IF transactions[i].type = "RESERVE"
              THEN NoEnvelope ELSE transactions[i].envelope)
  BY DEF KeysInv
<1>2. QED
  BY <1>1 DEF Key

\* Two reservations of one agreement have one key, hence are one row; and two
\* releases have, because both name the envelope of that reservation.
LEMMA OneRowOfType ==
    ASSUME Inv
    PROVE  OneReservation
<1> SUFFICES ASSUME NEW type \in TxTypes,
                    NEW i \in DOMAIN transactions, NEW j \in DOMAIN transactions,
                    transactions[i].type = type, transactions[j].type = type,
                    transactions[i].source = transactions[j].source
             PROVE  i = j
  BY DEF OneReservation
<1>1. KeysInv /\ ReleaseBacked
  BY DEF Inv
<1>2. ASSUME NEW k \in DOMAIN transactions, NEW l \in DOMAIN transactions,
             transactions[k].type = "RESERVE", transactions[l].type = "RESERVE",
             transactions[k].source = transactions[l].source
      PROVE  k = l
  <2>1. transactions[k].key = transactions[l].key
    BY <1>1, <1>2 DEF KeysInv
  <2>2. QED
    BY <1>1, <2>1 DEF KeysInv
<1>3. type = "RESERVE" \/ type = "RELEASE"
  BY <1>1 DEF KeysInv
<1>4. CASE type = "RESERVE"
  BY <1>2, <1>4
<1>5. CASE type = "RELEASE"
  <2>1. PICK k \in 1..(i - 1) :
               /\ transactions[k].type = "RESERVE"
               /\ transactions[k].source = transactions[i].source
               /\ transactions[k].envelope = transactions[i].envelope
    BY <1>1, <1>5 DEF ReleaseBacked
  <2>2. PICK l \in 1..(j - 1) :
               /\ transactions[l].type = "RESERVE"
               /\ transactions[l].source = transactions[j].source
               /\ transactions[l].envelope = transactions[j].envelope
    BY <1>1, <1>5 DEF ReleaseBacked
  <2>3. k \in DOMAIN transactions /\ l \in DOMAIN transactions
    BY <2>1, <2>2, LenProperties DEF Inv, TypeOK, BudgetTypeOK
  <2>4. k = l
    BY <1>2, <2>1, <2>2, <2>3
  <2>5. transactions[i].envelope = transactions[j].envelope
    BY <2>1, <2>2, <2>4
  <2>6. transactions[i].key = transactions[j].key
    BY <1>1, <1>5, <2>5 DEF KeysInv
  <2>7. QED
    BY <1>1, <2>6 DEF KeysInv
<1>6. QED
  BY <1>3, <1>4, <1>5

-----------------------------------------------------------------------------
(* Which actions touch which table.                                        *)

\* Only approve and cancel write budget_transactions.
LEMMA TransactionSteps ==
    ASSUME [Next]_vars
    PROVE  \/ \E h \in Handlers : ApproveReserve(h) \/ CancelRelease(h)
           \/ UNCHANGED transactions
<1>1. CASE UNCHANGED vars
  BY <1>1 DEF vars
<1>2. CASE \E a \in Documents, cap \in Caps : Create(a, cap)
  BY <1>2 DEF Create
<1>3. CASE \E e \in Envelopes : OpenEnvelope(e)
  BY <1>3 DEF OpenEnvelope, CreateEnvelope
<1>4. ASSUME NEW h \in Handlers, Arrive(h)
      PROVE  UNCHANGED transactions
  BY <1>4 DEF Arrive, UpdateRead, DeleteRead, SubmitRead, ApproveRead,
              RejectRead, CancelRead
<1>5. ASSUME NEW h \in Handlers,
             UpdateWrite(h) \/ DeleteWrite(h) \/ Submit(h) \/ Fail(h)
      PROVE  UNCHANGED transactions
  BY <1>5 DEF UpdateWrite, DeleteWrite, Submit, SubmitLatest, SubmitInsert,
              SubmitWrite, Fail
<1>6. ASSUME NEW h \in Handlers, Approve(h)
      PROVE  ApproveReserve(h) \/ UNCHANGED transactions
  BY <1>6 DEF Approve, ApproveLookup, ApproveFind, ApproveAvailable, ApproveKey,
              ApproveReserveDuplicate, ApproveRequest, ApproveDecide,
              ApproveWrite
<1>7. ASSUME NEW h \in Handlers, Reject(h)
      PROVE  UNCHANGED transactions
  BY <1>7 DEF Reject, RejectRequest, RejectDecide, RejectWrite
<1>8. ASSUME NEW h \in Handlers, Cancel(h)
      PROVE  CancelRelease(h) \/ UNCHANGED transactions
  BY <1>8 DEF Cancel, CancelLookup, CancelKey, CancelReleaseDuplicate,
              CancelWrite
<1>9. ASSUME NEW h \in Handlers, Direct(h)
      PROVE  UNCHANGED transactions
  BY <1>9 DEF Direct, DirectApproveRead, DirectRejectRead, DirectWithdrawRead,
              DirectRead, DirectApproveWrite, DirectRejectWrite,
              DirectWithdrawWrite, DirectWrite
<1>10. QED
  BY <1>1, <1>2, <1>3, <1>4, <1>5, <1>6, <1>7, <1>8, <1>9 DEF Next

\* Only submit inserts into approval_requests, and only decisions update it.
LEMMA RequestChanges ==
    ASSUME [Next]_vars
    PROVE  \/ \E h \in Handlers :
                \/ SubmitInsert(h) \/ ApproveDecide(h) \/ RejectDecide(h)
                \/ DirectApproveWrite(h) \/ DirectRejectWrite(h)
                \/ DirectWithdrawWrite(h)
           \/ UNCHANGED requests
<1>1. CASE UNCHANGED vars
  BY <1>1 DEF vars
<1>2. CASE \E a \in Documents, cap \in Caps : Create(a, cap)
  BY <1>2 DEF Create
<1>3. CASE \E e \in Envelopes : OpenEnvelope(e)
  BY <1>3 DEF OpenEnvelope
<1>4. ASSUME NEW h \in Handlers, Arrive(h)
      PROVE  UNCHANGED requests
  BY <1>4 DEF Arrive, UpdateRead, DeleteRead, SubmitRead, ApproveRead,
              RejectRead, CancelRead
<1>5. ASSUME NEW h \in Handlers,
             UpdateWrite(h) \/ DeleteWrite(h) \/ Submit(h) \/ Fail(h)
      PROVE  SubmitInsert(h) \/ UNCHANGED requests
  BY <1>5 DEF UpdateWrite, DeleteWrite, Submit, SubmitLatest, SubmitWrite, Fail
<1>6. ASSUME NEW h \in Handlers, Approve(h)
      PROVE  ApproveDecide(h) \/ UNCHANGED requests
  BY <1>6 DEF Approve, ApproveLookup, ApproveFind, ApproveAvailable, ApproveKey,
              ApproveReserve, ApproveReserveDuplicate, ApproveRequest,
              ApproveWrite
<1>7. ASSUME NEW h \in Handlers, Reject(h)
      PROVE  RejectDecide(h) \/ UNCHANGED requests
  BY <1>7 DEF Reject, RejectRequest, RejectWrite
<1>8. ASSUME NEW h \in Handlers, Cancel(h)
      PROVE  UNCHANGED requests
  BY <1>8 DEF Cancel, CancelLookup, CancelKey, CancelRelease,
              CancelReleaseDuplicate, CancelWrite
<1>9. ASSUME NEW h \in Handlers, Direct(h)
      PROVE  \/ DirectApproveWrite(h) \/ DirectRejectWrite(h)
             \/ DirectWithdrawWrite(h)
             \/ UNCHANGED requests
  BY <1>9 DEF Direct, DirectApproveRead, DirectRejectRead, DirectWithdrawRead,
              DirectRead
<1>10. QED
  BY <1>1, <1>2, <1>3, <1>4, <1>5, <1>6, <1>7, <1>8, <1>9 DEF Next

\* The writes to agreements.
LEMMA AgreementChanges ==
    ASSUME [Next]_vars
    PROVE  \/ \E a \in Documents, cap \in Caps : Create(a, cap)
           \/ \E h \in Handlers :
                \/ UpdateWrite(h) \/ DeleteWrite(h) \/ SubmitWrite(h)
                \/ ApproveWrite(h) \/ RejectWrite(h) \/ CancelWrite(h)
           \/ UNCHANGED agreements
<1>1. CASE UNCHANGED vars
  BY <1>1 DEF vars
<1>2. CASE \E e \in Envelopes : OpenEnvelope(e)
  BY <1>2 DEF OpenEnvelope
<1>3. ASSUME NEW h \in Handlers, Arrive(h) \/ Fail(h)
      PROVE  UNCHANGED agreements
  BY <1>3 DEF Arrive, UpdateRead, DeleteRead, SubmitRead, ApproveRead,
              RejectRead, CancelRead, Fail
<1>4. ASSUME NEW h \in Handlers, Submit(h)
      PROVE  SubmitWrite(h) \/ UNCHANGED agreements
  BY <1>4 DEF Submit, SubmitLatest, SubmitInsert
<1>5. ASSUME NEW h \in Handlers, Approve(h)
      PROVE  ApproveWrite(h) \/ UNCHANGED agreements
  BY <1>5 DEF Approve, ApproveLookup, ApproveFind, ApproveAvailable, ApproveKey,
              ApproveReserve, ApproveReserveDuplicate, ApproveRequest,
              ApproveDecide
<1>6. ASSUME NEW h \in Handlers, Reject(h)
      PROVE  RejectWrite(h) \/ UNCHANGED agreements
  BY <1>6 DEF Reject, RejectRequest, RejectDecide
<1>7. ASSUME NEW h \in Handlers, Cancel(h)
      PROVE  CancelWrite(h) \/ UNCHANGED agreements
  BY <1>7 DEF Cancel, CancelLookup, CancelKey, CancelRelease,
              CancelReleaseDuplicate
<1>8. ASSUME NEW h \in Handlers, Direct(h)
      PROVE  UNCHANGED agreements
  BY <1>8 DEF Direct, DirectApproveRead, DirectRejectRead, DirectWithdrawRead,
              DirectRead, DirectApproveWrite, DirectRejectWrite,
              DirectWithdrawWrite, DirectWrite
<1>9. QED
  BY <1>1, <1>2, <1>3, <1>4, <1>5, <1>6, <1>7, <1>8 DEF Next

\* Envelopes are only opened, and no step of the workflow writes the ledger.
LEMMA EnvelopeChanges ==
    ASSUME [Next]_vars
    PROVE  /\ UNCHANGED ledger
           /\ \/ \E e \in Envelopes : OpenEnvelope(e)
              \/ UNCHANGED envelopes
<1> DEFINE Same == UNCHANGED <<envelopes, ledger>>
<1>1. CASE UNCHANGED vars
  BY <1>1 DEF vars
<1>2. CASE \E a \in Documents, cap \in Caps : Create(a, cap)
  BY <1>2 DEF Create
<1>3. CASE \E e \in Envelopes : OpenEnvelope(e)
  BY <1>3 DEF OpenEnvelope, CreateEnvelope
<1>4. ASSUME NEW h \in Handlers, Arrive(h)
      PROVE  Same
  BY <1>4 DEF Arrive, UpdateRead, DeleteRead, SubmitRead, ApproveRead,
              RejectRead, CancelRead
<1>5. ASSUME NEW h \in Handlers,
             UpdateWrite(h) \/ DeleteWrite(h) \/ Submit(h) \/ Fail(h)
      PROVE  Same
  BY <1>5 DEF UpdateWrite, DeleteWrite, Submit, SubmitLatest, SubmitInsert,
              SubmitWrite, Fail
<1>6. ASSUME NEW h \in Handlers, Approve(h)
      PROVE  Same
  BY <1>6 DEF Approve, ApproveLookup, ApproveFind, ApproveAvailable, ApproveKey,
              ApproveReserve, ApproveReserveDuplicate, ApproveRequest,
              ApproveDecide, ApproveWrite, PostTransaction
<1>7. ASSUME NEW h \in Handlers, Reject(h)
      PROVE  Same
  BY <1>7 DEF Reject, RejectRequest, RejectDecide, RejectWrite
<1>8. ASSUME NEW h \in Handlers, Cancel(h)
      PROVE  Same
  BY <1>8 DEF Cancel, CancelLookup, CancelKey, CancelRelease,
              CancelReleaseDuplicate, CancelWrite, PostTransaction
<1>9. ASSUME NEW h \in Handlers, Direct(h)
      PROVE  Same
  BY <1>9 DEF Direct, DirectApproveRead, DirectRejectRead, DirectWithdrawRead,
              DirectRead, DirectApproveWrite, DirectRejectWrite,
              DirectWithdrawWrite, DirectWrite
<1>10. QED
  BY <1>1, <1>2, <1>3, <1>4, <1>5, <1>6, <1>7, <1>8, <1>9 DEF Next

-----------------------------------------------------------------------------
(* The tables grow: a row keeps its place, and what identifies it.         *)

\* budget_transactions is append-only, and the row is what the call holds.
LEMMA TransactionsGrow ==
    ASSUME Inv, [Next]_vars
    PROVE  /\ transactions' \in Seq(Transactions)
           /\ Len(transactions) <= Len(transactions')
           /\ \A i \in DOMAIN transactions : /\ i \in DOMAIN transactions'
                                            /\ transactions'[i] = transactions[i]
<1>1. transactions \in Seq(Transactions) /\ Len(transactions) \in Nat
  BY LenProperties DEF Inv, TypeOK, BudgetTypeOK
<1>2. ASSUME NEW h \in Handlers, ApproveReserve(h) \/ CancelRelease(h)
      PROVE  \E row \in Transactions : transactions' = Append(transactions, row)
  <2>1. /\ calls[h].agreement \in Documents
        /\ calls[h].envelope \in Envelopes
        /\ calls[h].cap \in Nat
    BY <1>2 DEF Inv, TypeOK, Calls, CallsInv, CallValid, ApproveReserve,
                CancelRelease, At, EnvelopeSteps
  <2>2. CASE ApproveReserve(h)
    BY <2>1, <2>2 DEF ApproveReserve, PostTransaction, ReserveKey, Key,
                      Transactions, TxKeys, TxTypes
  <2>3. CASE CancelRelease(h)
    BY <2>1, <2>3 DEF CancelRelease, PostTransaction, ReleaseKey, Key,
                      Transactions, TxKeys, TxTypes
  <2>4. QED
    BY <1>2, <2>2, <2>3
<1>3. CASE UNCHANGED transactions
  BY <1>1, <1>3
<1>4. ASSUME NEW row \in Transactions, transactions' = Append(transactions, row)
      PROVE  /\ transactions' \in Seq(Transactions)
             /\ Len(transactions) <= Len(transactions')
             /\ \A i \in DOMAIN transactions :
                   /\ i \in DOMAIN transactions'
                   /\ transactions'[i] = transactions[i]
  BY <1>1, <1>4, AppendProperties, LenProperties
<1>5. QED
  BY <1>2, <1>3, <1>4, TransactionSteps

\* A request keeps its entity and its requester for ever.
LEMMA RequestsGrow ==
    ASSUME Inv, [Next]_vars
    PROVE  /\ requests' \in Seq(Requests)
           /\ \A r \in DOMAIN requests :
                /\ r \in DOMAIN requests'
                /\ requests'[r].entity = requests[r].entity
                /\ requests'[r].requester = requests[r].requester
<1>1. requests \in Seq(Requests) /\ Len(requests) \in Nat
  BY LenProperties DEF Inv, TypeOK, ApprovalTypeOK
<1>2. ASSUME NEW h \in Handlers, SubmitInsert(h)
      PROVE  \E row \in Requests : requests' = Append(requests, row)
  <2>1. calls[h].agreement \in Documents /\ calls[h].user \in Users
    BY <1>2 DEF Inv, CallsInv, CallValid, SubmitInsert, At, UserSteps
  <2>2. QED
    BY <1>2, <2>1 DEF SubmitInsert, InsertRequest, Requests, RequestStatuses
<1>3. ASSUME NEW row \in Requests, requests' = Append(requests, row)
      PROVE  /\ requests' \in Seq(Requests)
             /\ \A r \in DOMAIN requests :
                  r \in DOMAIN requests' /\ requests'[r] = requests[r]
  BY <1>1, <1>3, AppendProperties, LenProperties
<1>4. ASSUME NEW r \in DOMAIN requests, NEW user \in Users,
             NEW status \in RequestStatuses, WriteDecision(r, status, user)
      PROVE  /\ requests' \in Seq(Requests)
             /\ DOMAIN requests' = DOMAIN requests
             /\ \A q \in DOMAIN requests :
                  /\ requests'[q].entity = requests[q].entity
                  /\ requests'[q].requester = requests[q].requester
  <2> DEFINE row == [requests[r] EXCEPT !.status = status, !.decidedBy = user]
  <2>1. r \in 1..Len(requests) /\ requests[r] \in Requests
    BY <1>1, LenProperties, ElementOfSeq
  <2>2. row \in Requests
    BY <2>1 DEF Requests
  <2>3. requests' = [requests EXCEPT ![r] = row]
    BY <1>1, <1>4, LenProperties DEF WriteDecision
  <2>4. /\ [requests EXCEPT ![r] = row] \in Seq(Requests)
        /\ Len([requests EXCEPT ![r] = row]) = Len(requests)
    BY <1>1, <2>1, <2>2, ExceptSeq
  <2>5. row.entity = requests[r].entity /\ row.requester = requests[r].requester
    BY <2>1 DEF Requests
  <2>6. QED
    BY <1>1, <2>1, <2>3, <2>4, <2>5, LenProperties
<1>5. ASSUME NEW h \in Handlers,
             \/ ApproveDecide(h) \/ RejectDecide(h) \/ DirectApproveWrite(h)
             \/ DirectRejectWrite(h) \/ DirectWithdrawWrite(h)
      PROVE  \E r \in DOMAIN requests, user \in Users, status \in RequestStatuses :
                WriteDecision(r, status, user)
  BY <1>5 DEF ApproveDecide, RejectDecide, DirectApproveWrite, DirectRejectWrite,
              DirectWithdrawWrite, DirectWrite, At, Inv, CallsInv, CallValid,
              UserSteps, RequestSteps, ApproveSteps, RejectSteps, DirectSteps,
              ReservedSteps, Filed, RequestStatuses
<1>6. CASE UNCHANGED requests
  BY <1>1, <1>6
<1>7. QED
  BY <1>2, <1>3, <1>4, <1>5, <1>6, RequestChanges

\* An agreement that has a request id never loses it.
LEMMA RequestIdStays ==
    ASSUME Inv, [Next]_vars, NEW a \in Documents,
           agreements[a].request # NoRequest
    PROVE  agreements'[a].request # NoRequest
<1>1. agreements \in [Documents -> Agreements]
  BY DEF Inv, TypeOK
<1>2. CASE \E b \in Documents, cap \in Caps : Create(b, cap)
  BY <1>1, <1>2 DEF Create, Agreements
<1>3. ASSUME NEW h \in Handlers, UpdateWrite(h) \/ DeleteWrite(h)
      PROVE  agreements'[a].request # NoRequest
  BY <1>1, <1>3 DEF UpdateWrite, DeleteWrite, Agreements
<1>4. ASSUME NEW h \in Handlers,
             ApproveWrite(h) \/ RejectWrite(h) \/ CancelWrite(h)
      PROVE  agreements'[a].request # NoRequest
  BY <1>1, <1>4 DEF ApproveWrite, RejectWrite, CancelWrite, SetStatus, Agreements
<1>5. ASSUME NEW h \in Handlers, SubmitWrite(h)
      PROVE  agreements'[a].request # NoRequest
  <2>1. calls[h].request \in DOMAIN requests
    BY <1>5 DEF SubmitWrite, At, Inv, CallsInv, CallValid, RequestSteps, Filed
  <2>2. calls[h].request # NoRequest
    BY <2>1, LenProperties DEF Inv, TypeOK, ApprovalTypeOK, NoRequest
  <2>3. QED
    BY <1>1, <1>5, <2>2 DEF SubmitWrite, Agreements
<1>6. CASE UNCHANGED agreements
  BY <1>6
<1>7. QED
  BY <1>2, <1>3, <1>4, <1>5, <1>6, AgreementChanges

-----------------------------------------------------------------------------
(* Calls in flight.                                                        *)

CallOK(h) == CallValid(h) /\ CallBacked(h) /\ CallEntitled(h)

\* A call that makes no step keeps what it relies on.
LEMMA OtherCalls ==
    ASSUME Inv, [Next]_vars, NEW k \in Handlers, calls'[k] = calls[k]
    PROVE  CallOK(k)'
<1> DEFINE call == calls[k]
<1>1. CallOK(k)
  BY DEF Inv, CallsInv, CallOK
<1>2. CallValid(k)'
  BY <1>1, RequestsGrow DEF CallOK, CallValid, Filed
<1>3. ASSUME NEW a, Reserved(a)
      PROVE  Reserved(a)'
  BY <1>3, TransactionsGrow DEF Reserved, FindBySource
<1>4. ASSUME NEW a, Released(a)
      PROVE  Released(a)'
  BY <1>4, TransactionsGrow DEF Released, FindBySource
<1>5. ASSUME NEW a, NEW e, ReservedOn(a, e)
      PROVE  ReservedOn(a, e)'
  BY <1>5, TransactionsGrow DEF ReservedOn
<1>6. CallBacked(k)'
  <2>1. call.at \in ApproveSteps \cup RejectSteps \cup CancelSteps =>
            agreements'[call.agreement].request # NoRequest
    BY <1>1, RequestIdStays DEF CallOK, CallValid, CallBacked, ApproveSteps,
                                ReservedSteps, RejectSteps, CancelSteps
  <2>2. QED
    BY <1>1, <1>3, <1>4, <1>5, <2>1 DEF CallOK, CallBacked
<1>7. CallEntitled(k)'
  <2>1. call.at \in {"approve.decide", "reject.decide", "direct.approve",
                    "direct.reject", "direct.withdraw"} =>
            call.request \in DOMAIN requests
    BY <1>1 DEF CallOK, CallValid, RequestSteps, ApproveSteps, ReservedSteps,
                RejectSteps, DirectSteps, Filed
  <2>2. QED
    BY <1>1, <2>1, RequestsGrow DEF CallOK, CallEntitled
<1>8. QED
  BY <1>2, <1>6, <1>7 DEF CallOK

\* A step of one call leaves the others where they are.
Moves(h) == /\ calls' \in [Handlers -> Calls]
            /\ \A k \in Handlers \ {h} : calls'[k] = calls[k]
            /\ CallOK(h)'

LEMMA Returns ==
    ASSUME TypeOK, NEW h \in Handlers, Return(h)
    PROVE  Moves(h)
<1>1. Idle \in Calls
  BY DEF Idle, Calls, Steps, NoRequest
<1>2. calls' \in [Handlers -> Calls] /\ calls'[h] = Idle
  BY <1>1 DEF Return, TypeOK
<1>3. \A k \in Handlers \ {h} : calls'[k] = calls[k]
  BY DEF Return, TypeOK
<1>4. calls'[h].at = "idle"
  BY <1>2 DEF Idle
<1>5. CallOK(h)'
  BY <1>4 DEF CallOK, CallValid, CallBacked, CallEntitled, UserSteps,
              EnvelopeSteps, RequestSteps, ApproveSteps, ReservedSteps,
              RejectSteps, DirectSteps, CancelSteps
<1>6. QED
  BY <1>2, <1>3, <1>5 DEF Moves

\* Proceed changes the next statement of one call and nothing else of it.
LEMMA Proceeds ==
    ASSUME TypeOK, NEW h \in Handlers, NEW step \in Steps, Proceed(h, step)
    PROVE  /\ calls' \in [Handlers -> Calls]
           /\ \A k \in Handlers \ {h} : calls'[k] = calls[k]
           /\ calls'[h].at = step
           /\ calls'[h].user = calls[h].user
           /\ calls'[h].agreement = calls[h].agreement
           /\ calls'[h].request = calls[h].request
           /\ calls'[h].cap = calls[h].cap
           /\ calls'[h].envelope = calls[h].envelope
BY DEF Proceed, TypeOK, Calls

\* A read that opens a call: the record is what Begin was given.
LEMMA Begins ==
    ASSUME TypeOK, NEW h \in Handlers, NEW op, NEW call \in Calls,
           Begin(h, op, call)
    PROVE  /\ calls' \in [Handlers -> Calls]
           /\ \A k \in Handlers \ {h} : calls'[k] = calls[k]
           /\ calls'[h] = call
BY DEF Begin, TypeOK

LEMMA ArriveMoves ==
    ASSUME Inv, NEW h \in Handlers, Arrive(h)
    PROVE  Moves(h)
<1> USE DEF CallOK, CallValid, CallBacked, CallEntitled, UserSteps,
            EnvelopeSteps, RequestSteps, ApproveSteps, ReservedSteps,
            RejectSteps, DirectSteps, CancelSteps
<1>1. TypeOK /\ agreements \in [Documents -> Agreements]
  BY DEF Inv, TypeOK
<1>2. /\ Idle \in Calls
      /\ Idle = [at |-> "idle", user |-> NoUser, agreement |-> NoDocument,
                 request |-> NoRequest, cap |-> 0, envelope |-> NoEnvelope]
  BY DEF Idle, Calls, Steps, NoRequest
<1>3. ASSUME NEW a \in Documents, DeleteRead(h, a)
      PROVE  Moves(h)
  <2> DEFINE call == [Idle EXCEPT !.at = "delete.write", !.agreement = a]
  <2>1. call \in Calls
    BY <1>2 DEF Calls, Steps
  <2>2. /\ calls' \in [Handlers -> Calls]
        /\ \A k \in Handlers \ {h} : calls'[k] = calls[k]
        /\ calls'[h] = call
    BY <1>1, <1>3, <2>1, Begins DEF DeleteRead
  <2>3. call.at = "delete.write" /\ call.agreement = a
    BY <1>2
  <2>4. QED
    BY <2>2, <2>3 DEF Moves
<1>4. ASSUME NEW a \in Documents, NEW cap \in Caps, UpdateRead(h, a, cap)
      PROVE  Moves(h)
  <2> DEFINE call == [Idle EXCEPT !.at = "update.write", !.agreement = a,
                                  !.cap = cap]
  <2>1. call \in Calls
    BY <1>2, AgreementAssumption DEF Calls, Steps
  <2>2. /\ calls' \in [Handlers -> Calls]
        /\ \A k \in Handlers \ {h} : calls'[k] = calls[k]
        /\ calls'[h] = call
    BY <1>1, <1>4, <2>1, Begins DEF UpdateRead
  <2>3. call.at = "update.write" /\ call.agreement = a
    BY <1>2
  <2>4. QED
    BY <2>2, <2>3 DEF Moves
<1>5. ASSUME NEW a \in Documents, NEW user \in Users, SubmitRead(h, a, user)
      PROVE  Moves(h)
  <2> DEFINE call == [Idle EXCEPT !.at = "submit.latest", !.user = user,
                                  !.agreement = a]
  <2>1. call \in Calls
    BY <1>2 DEF Calls, Steps
  <2>2. /\ calls' \in [Handlers -> Calls]
        /\ \A k \in Handlers \ {h} : calls'[k] = calls[k]
        /\ calls'[h] = call
    BY <1>1, <1>5, <2>1, Begins DEF SubmitRead
  <2>3. call.at = "submit.latest" /\ call.agreement = a /\ call.user = user
    BY <1>2
  <2>4. QED
    BY <2>2, <2>3 DEF Moves
<1>6. ASSUME NEW a \in Documents, agreements[a].request # NoRequest
      PROVE  Filed(a, agreements[a].request) /\ agreements[a].request \in Nat
  BY <1>1, <1>6 DEF Inv, RequestsInv, Agreements
<1>7. ASSUME NEW a \in Documents, NEW user \in Users, ApproveRead(h, a, user)
      PROVE  Moves(h)
  <2> DEFINE call == [Idle EXCEPT !.at = "approve.lookup", !.user = user,
                                  !.agreement = a,
                                  !.request = agreements[a].request,
                                  !.cap = agreements[a].cap]
  <2>1. call \in Calls
    BY <1>1, <1>2 DEF Calls, Steps, Agreements
  <2>2. /\ calls' \in [Handlers -> Calls]
        /\ \A k \in Handlers \ {h} : calls'[k] = calls[k]
        /\ calls'[h] = call
    BY <1>1, <1>7, <2>1, Begins DEF ApproveRead
  <2>3. /\ call.at = "approve.lookup" /\ call.agreement = a
        /\ call.user = user /\ call.request = agreements[a].request
    BY <1>2
  <2>4. UNCHANGED <<requests, agreements>> /\ agreements[a].request # NoRequest
    BY <1>7 DEF ApproveRead
  <2>5. QED
    BY <1>6, <2>2, <2>3, <2>4 DEF Moves, Filed
<1>8. ASSUME NEW a \in Documents, NEW user \in Users, RejectRead(h, a, user)
      PROVE  Moves(h)
  <2> DEFINE call == [Idle EXCEPT !.at = "reject.request", !.user = user,
                                  !.agreement = a,
                                  !.request = agreements[a].request]
  <2>1. call \in Calls
    BY <1>1, <1>2 DEF Calls, Steps, Agreements
  <2>2. /\ calls' \in [Handlers -> Calls]
        /\ \A k \in Handlers \ {h} : calls'[k] = calls[k]
        /\ calls'[h] = call
    BY <1>1, <1>8, <2>1, Begins DEF RejectRead
  <2>3. /\ call.at = "reject.request" /\ call.agreement = a
        /\ call.user = user /\ call.request = agreements[a].request
    BY <1>2
  <2>4. UNCHANGED <<requests, agreements>> /\ agreements[a].request # NoRequest
    BY <1>8 DEF RejectRead
  <2>5. QED
    BY <1>6, <2>2, <2>3, <2>4 DEF Moves, Filed
<1>9. ASSUME NEW a \in Documents, CancelRead(h, a)
      PROVE  Moves(h)
  <2> DEFINE call == [Idle EXCEPT !.at = "cancel.lookup", !.agreement = a,
                                  !.cap = agreements[a].cap]
  <2>1. call \in Calls
    BY <1>1, <1>2 DEF Calls, Steps, Agreements
  <2>2. /\ calls' \in [Handlers -> Calls]
        /\ \A k \in Handlers \ {h} : calls'[k] = calls[k]
        /\ calls'[h] = call
    BY <1>1, <1>9, <2>1, Begins DEF CancelRead
  <2>3. call.at = "cancel.lookup" /\ call.agreement = a
    BY <1>2
  <2>4. UNCHANGED <<transactions, agreements>> /\ agreements[a].status = "APPROVED"
    BY <1>9 DEF CancelRead, Found
  <2>5. Reserved(a) /\ agreements[a].request # NoRequest
    BY <2>4 DEF Inv, ApprovedIsReserved, RequestsInv
  <2>6. Reserved(a)'
    BY <2>4, <2>5 DEF Reserved, FindBySource
  <2>7. QED
    BY <2>2, <2>3, <2>4, <2>5, <2>6 DEF Moves
<1>10. QED
  BY <1>3, <1>4, <1>5, <1>7, <1>8, <1>9 DEF Arrive

LEMMA SubmitMoves ==
    ASSUME Inv, NEW h \in Handlers, Submit(h)
    PROVE  Moves(h)
<1> USE DEF CallOK, CallValid, CallBacked, CallEntitled, UserSteps,
            EnvelopeSteps, RequestSteps, ApproveSteps, ReservedSteps,
            RejectSteps, DirectSteps, CancelSteps
<1>1. TypeOK /\ CallOK(h)
  BY DEF Inv, CallsInv
<1>2. CASE SubmitLatest(h)
  <2>1. CASE Return(h)
    BY <1>1, <2>1, Returns
  <2>2. CASE Proceed(h, "submit.insert")
    BY <1>1, <1>2, <2>2, Proceeds DEF SubmitLatest, Moves, At, Steps
  <2>3. QED
    BY <1>2, <2>1, <2>2 DEF SubmitLatest
<1>3. CASE SubmitInsert(h)
  <2>1. requests \in Seq(Requests) /\ Len(requests) \in Nat
    BY <1>1, LenProperties DEF TypeOK, ApprovalTypeOK
  <2>2. calls' = [calls EXCEPT ![h].at = "submit.write",
                               ![h].request = Len(requests) + 1]
    BY <1>3 DEF SubmitInsert
  <2>3. /\ calls' \in [Handlers -> Calls]
        /\ \A k \in Handlers \ {h} : calls'[k] = calls[k]
        /\ calls'[h].at = "submit.write"
        /\ calls'[h].request = Len(requests) + 1
        /\ calls'[h].agreement = calls[h].agreement
        /\ calls'[h].user = calls[h].user
    <3> DEFINE n == Len(requests) + 1
    <3>1. n \in Nat
      BY <2>1
    <3>2. calls' = [calls EXCEPT ![h].at = "submit.write", ![h].request = n]
      BY <2>2
    <3> HIDE DEF n
    <3> DEFINE call == [calls[h] EXCEPT !.at = "submit.write", !.request = n]
    <3>3. call \in Calls /\ calls' = [calls EXCEPT ![h] = call]
      BY <1>1, <3>1, <3>2 DEF TypeOK, Calls, Steps
    <3>4. /\ call.at = "submit.write" /\ call.request = n
          /\ call.agreement = calls[h].agreement /\ call.user = calls[h].user
      BY <1>1 DEF TypeOK, Calls
    <3>5. QED
      BY <1>1, <3>3, <3>4 DEF n, TypeOK
  <2>4. calls[h].agreement \in Documents /\ calls[h].user \in Users
    BY <1>1, <1>3 DEF SubmitInsert, At
  <2>5. PICK row \in Requests : /\ row.entity = calls[h].agreement
                                /\ requests' = Append(requests, row)
    BY <1>3, <2>4 DEF SubmitInsert, InsertRequest, Requests, RequestStatuses
  <2>6. Filed(calls[h].agreement, calls[h].request)'
    <3>1. /\ requests' \in Seq(Requests)
          /\ Len(requests') = Len(requests) + 1
          /\ requests'[Len(requests) + 1] = row
      BY <2>1, <2>5, AppendProperties
    <3>2. Len(requests) + 1 \in DOMAIN requests'
      BY <2>1, <3>1, LenProperties
    <3>3. requests'[Len(requests) + 1].entity = calls[h].agreement
      BY <2>5, <3>1
    <3>4. QED
      BY <2>3, <3>2, <3>3 DEF Filed
  <2>7. QED
    BY <2>3, <2>4, <2>6 DEF Moves
<1>4. CASE SubmitWrite(h)
  BY <1>1, <1>4, Returns DEF SubmitWrite
<1>5. QED
  BY <1>2, <1>3, <1>4 DEF Submit

\* The row that PostTransaction appends is in the table afterwards.
LEMMA PostedRow ==
    ASSUME Inv, [Next]_vars, NEW row \in Transactions,
           transactions' = Append(transactions, row)
    PROVE  \E i \in DOMAIN transactions' : transactions'[i] = row
<1>1. transactions \in Seq(Transactions) /\ Len(transactions) \in Nat
  BY LenProperties DEF Inv, TypeOK, BudgetTypeOK
<1>2. /\ transactions' \in Seq(Transactions)
      /\ Len(transactions') = Len(transactions) + 1
      /\ transactions'[Len(transactions) + 1] = row
  BY <1>1, AppendProperties
<1>3. Len(transactions) + 1 \in DOMAIN transactions'
  BY <1>1, <1>2, LenProperties
<1>4. QED
  BY <1>2, <1>3

\* The two rows the workflow posts.
ReserveRow(h) == [type |-> "RESERVE", source |-> calls[h].agreement,
                  envelope |-> calls[h].envelope, amount |-> calls[h].cap,
                  key |-> ReserveKey(h)]
ReleaseRow(h) == [type |-> "RELEASE", source |-> calls[h].agreement,
                  envelope |-> calls[h].envelope, amount |-> calls[h].cap,
                  key |-> ReleaseKey(h)]

LEMMA PostedRows ==
    ASSUME Inv, NEW h \in Handlers
    PROVE  /\ ApproveReserve(h) =>
                 /\ ReserveRow(h) \in Transactions
                 /\ transactions' = Append(transactions, ReserveRow(h))
           /\ CancelRelease(h) =>
                 /\ ReleaseRow(h) \in Transactions
                 /\ transactions' = Append(transactions, ReleaseRow(h))
<1>1. ASSUME ApproveReserve(h) \/ CancelRelease(h)
      PROVE  /\ calls[h].agreement \in Documents
             /\ calls[h].envelope \in Envelopes
             /\ calls[h].cap \in Nat
  BY <1>1 DEF Inv, TypeOK, Calls, CallsInv, CallValid, ApproveReserve,
              CancelRelease, At, EnvelopeSteps
<1>2. QED
  BY <1>1 DEF ApproveReserve, CancelRelease, PostTransaction, ReserveKey,
              ReleaseKey, ReserveRow, ReleaseRow, Key, Transactions, TxKeys,
              TxTypes

LEMMA ApproveMoves ==
    ASSUME Inv, [Next]_vars, NEW h \in Handlers, Approve(h)
    PROVE  Moves(h)
<1> USE DEF CallOK, CallValid, CallBacked, CallEntitled, UserSteps,
            EnvelopeSteps, RequestSteps, ApproveSteps, ReservedSteps,
            RejectSteps, DirectSteps, CancelSteps
<1>1. TypeOK /\ CallOK(h)
  BY DEF Inv, CallsInv
<1>2. CASE Return(h)
  BY <1>1, <1>2, Returns
<1>3. CASE ApproveLookup(h) /\ ~Return(h)
  <2>1. CASE /\ FindBySource("RESERVE", calls[h].agreement) # {}
             /\ Proceed(h, "approve.request")
    <3>1. UNCHANGED <<transactions, requests, agreements>>
      BY <1>3 DEF ApproveLookup
    <3>2. Reserved(calls[h].agreement)
      BY <2>1 DEF Reserved
    <3>3. calls'[h].agreement = calls[h].agreement
      BY <1>1, <2>1, Proceeds DEF Steps
    <3>4. Reserved(calls[h].agreement)'
      BY <3>1, <3>2, <3>3 DEF Reserved, FindBySource
    <3>5. QED
      BY <1>1, <1>3, <2>1, <3>1, <3>4, Proceeds
         DEF ApproveLookup, Moves, At, Steps, Filed
  <2>2. CASE Proceed(h, "approve.find")
    BY <1>1, <1>3, <2>2, Proceeds DEF ApproveLookup, Moves, At, Steps, Filed
  <2>3. QED
    BY <1>3, <2>1, <2>2 DEF ApproveLookup
<1>4. CASE ApproveFind(h) /\ ~Return(h)
  <2> DEFINE call == [calls[h] EXCEPT !.at = "approve.available",
                                      !.envelope = FindEnvelopeByDimensions]
  <2>1. FindEnvelopeByDimensions # NoEnvelope
    BY <1>4 DEF ApproveFind
  <2>2. FindEnvelopeByDimensions \in Envelopes
    <3>1. envelopes \in Seq(Envelopes) /\ envelopes # <<>>
      BY <1>1, <2>1 DEF TypeOK, BudgetTypeOK, FindEnvelopeByDimensions
    <3>2. Len(envelopes) \in 1..Len(envelopes)
      BY <3>1, EmptySeq
    <3>3. QED
      BY <3>1, <3>2, ElementOfSeq DEF FindEnvelopeByDimensions
  <2>3. call \in Calls /\ calls' = [calls EXCEPT ![h] = call]
    BY <1>1, <1>4, <2>1, <2>2 DEF ApproveFind, TypeOK, Calls, Steps
  <2>4. /\ call.at = "approve.available" /\ call.request = calls[h].request
        /\ call.agreement = calls[h].agreement /\ call.user = calls[h].user
        /\ call.envelope \in Envelopes
    BY <1>1, <2>2 DEF TypeOK, Calls
  <2>5. /\ UNCHANGED <<requests, agreements>>
        /\ calls[h].at = "approve.find"
    BY <1>4 DEF ApproveFind, At
  <2>6. QED
    BY <1>1, <2>3, <2>4, <2>5 DEF TypeOK, Moves, Filed
<1>5. CASE ApproveAvailable(h) /\ ~Return(h)
  BY <1>1, <1>5, Proceeds DEF ApproveAvailable, Moves, At, Steps, Filed
<1>6. CASE ApproveKey(h)
  <2>1. CASE Proceed(h, "approve.reserve")
    BY <1>1, <1>6, <2>1, Proceeds DEF ApproveKey, Moves, At, Steps, Filed
  <2>2. CASE ~KeyIsFree(ReserveKey(h)) /\ Proceed(h, "approve.request")
    <3>1. PICK i \in DOMAIN transactions : transactions[i].key = ReserveKey(h)
      BY <2>2 DEF KeyIsFree, FindByIdempotencyKey
    <3>2. /\ transactions[i].type = "RESERVE"
          /\ transactions[i].source = calls[h].agreement
      BY <3>1, KeyOfRow DEF Inv, ReserveKey, Key
    <3>3. Reserved(calls[h].agreement)
      BY <3>2 DEF Reserved, FindBySource
    <3>4. /\ UNCHANGED <<transactions, requests, agreements>>
          /\ calls'[h].agreement = calls[h].agreement
      BY <1>1, <1>6, <2>2, Proceeds DEF ApproveKey, Steps
    <3>5. Reserved(calls[h].agreement)'
      BY <3>3, <3>4 DEF Reserved, FindBySource
    <3>6. QED
      BY <1>1, <1>6, <2>2, <3>4, <3>5, Proceeds
         DEF ApproveKey, Moves, At, Steps, Filed
  <2>3. QED
    BY <1>6, <2>1, <2>2 DEF ApproveKey
<1>7. CASE ApproveReserve(h)
  <2>1. PICK i \in DOMAIN transactions' : transactions'[i] = ReserveRow(h)
    BY <1>7, PostedRows, PostedRow
  <2>2. calls'[h].agreement = calls[h].agreement
    BY <1>1, <1>7, Proceeds DEF ApproveReserve, Steps
  <2>3. Reserved(calls[h].agreement)'
    BY <2>1, <2>2 DEF Reserved, FindBySource, ReserveRow
  <2>4. QED
    BY <1>1, <1>7, <2>3, Proceeds DEF ApproveReserve, Moves, At, Steps, Filed
<1>8. CASE ApproveRequest(h) /\ ~Return(h)
  <2>1. /\ UNCHANGED <<transactions, requests, agreements>>
        /\ calls[h].at = "approve.request" /\ Proceed(h, "approve.decide")
        /\ calls[h].user # requests[calls[h].request].requester
    BY <1>8 DEF ApproveRequest, At, MayDecide
  <2>2. calls'[h].agreement = calls[h].agreement
    BY <1>1, <2>1, Proceeds DEF Steps
  <2>3. Reserved(calls[h].agreement)'
    BY <1>1, <2>1, <2>2 DEF Reserved, FindBySource
  <2>4. QED
    BY <1>1, <2>1, <2>3, Proceeds DEF Moves, Steps, Filed
<1>9. CASE ApproveDecide(h)
  <2>1. /\ UNCHANGED <<transactions, agreements>>
        /\ calls[h].at = "approve.decide" /\ Proceed(h, "approve.write")
    BY <1>9 DEF ApproveDecide, At
  <2>2. calls'[h].agreement = calls[h].agreement
    BY <1>1, <2>1, Proceeds DEF Steps
  <2>3. Reserved(calls[h].agreement)'
    BY <1>1, <2>1, <2>2 DEF Reserved, FindBySource
  <2>4. QED
    BY <1>1, <2>1, <2>3, Proceeds, RequestsGrow DEF Moves, Steps, Filed
<1>10. QED
  BY <1>2, <1>3, <1>4, <1>5, <1>6, <1>7, <1>8, <1>9
     DEF Approve, ApproveReserveDuplicate, ApproveWrite

LEMMA RejectMoves ==
    ASSUME Inv, [Next]_vars, NEW h \in Handlers, Reject(h)
    PROVE  Moves(h)
<1> USE DEF CallOK, CallValid, CallBacked, CallEntitled, UserSteps,
            EnvelopeSteps, RequestSteps, ApproveSteps, ReservedSteps,
            RejectSteps, DirectSteps, CancelSteps
<1>1. TypeOK /\ CallOK(h)
  BY DEF Inv, CallsInv
<1>2. CASE Return(h)
  BY <1>1, <1>2, Returns
<1>3. CASE RejectRequest(h) /\ ~Return(h)
  BY <1>1, <1>3, Proceeds DEF RejectRequest, MayDecide, At, Moves, Steps, Filed
<1>4. CASE RejectDecide(h)
  BY <1>1, <1>4, Proceeds, RequestsGrow DEF RejectDecide, At, Moves, Steps, Filed
<1>5. QED
  BY <1>2, <1>3, <1>4 DEF Reject, RejectWrite

LEMMA NewestRow ==
    ASSUME NEW rows, \E i \in rows : \A j \in rows : j <= i
    PROVE  Newest(rows) \in rows
BY Zenon DEF Newest

LEMMA CancelMoves ==
    ASSUME Inv, [Next]_vars, NEW h \in Handlers, Cancel(h)
    PROVE  Moves(h)
<1> USE DEF CallOK, CallValid, CallBacked, CallEntitled, UserSteps,
            EnvelopeSteps, RequestSteps, ApproveSteps, ReservedSteps,
            RejectSteps, DirectSteps, CancelSteps
<1>1. TypeOK /\ CallOK(h)
  BY DEF Inv, CallsInv
<1>2. CASE Return(h)
  BY <1>1, <1>2, Returns
<1>3. CASE CancelLookup(h)
  <2> DEFINE reserves == FindBySource("RESERVE", calls[h].agreement)
             row == Newest(reserves)
             call == [calls[h] EXCEPT !.at = "cancel.key",
                                      !.envelope = transactions[row].envelope]
  <2>1. /\ calls[h].at = "cancel.lookup" /\ reserves # {}
        /\ UNCHANGED <<transactions, agreements>>
        /\ calls' = [calls EXCEPT ![h].at = "cancel.key",
                                  ![h].envelope = transactions[row].envelope]
    BY <1>1, <1>3 DEF CancelLookup, At, Reserved
  <2>2. row \in reserves
    <3>1. reserves \subseteq Nat
      BY <1>1, LenProperties DEF TypeOK, BudgetTypeOK, FindBySource
    <3>2. \A i, j \in reserves : i = j
      BY OneRowOfType DEF OneReservation, TxTypes, FindBySource
    <3>3. \E i \in reserves : \A j \in reserves : j <= i
      BY <2>1, <3>1, <3>2
    <3>4. QED
      BY <3>3, NewestRow
  <2> HIDE DEF row
  <2>3. /\ row \in DOMAIN transactions
        /\ transactions[row].type = "RESERVE"
        /\ transactions[row].source = calls[h].agreement
    BY <2>2 DEF FindBySource
  <2>4. transactions[row].envelope \in Envelopes
    <3>1. transactions \in Seq(Transactions)
      BY <1>1 DEF TypeOK, BudgetTypeOK
    <3>2. transactions[row] \in Transactions
      BY <2>3, <3>1, ElementOfSeq, LenProperties
    <3>3. QED
      BY <3>2 DEF Transactions
  <2>5. call \in Calls /\ calls' = [calls EXCEPT ![h] = call]
    BY <1>1, <2>1, <2>4 DEF TypeOK, Calls, Steps
  <2>6. /\ call.at = "cancel.key" /\ call.agreement = calls[h].agreement
        /\ call.envelope = transactions[row].envelope
    BY <1>1 DEF TypeOK, Calls
  <2>7. /\ calls' \in [Handlers -> Calls]
        /\ \A k \in Handlers \ {h} : calls'[k] = calls[k]
        /\ calls'[h].at = "cancel.key"
        /\ calls'[h].agreement = calls[h].agreement
        /\ calls'[h].envelope = transactions[row].envelope
    BY <1>1, <2>5, <2>6 DEF TypeOK
  <2>8. Reserved(calls[h].agreement)'
    BY <2>1, <2>2, <2>7 DEF Reserved, FindBySource
  <2>9. ReservedOn(calls[h].agreement, calls[h].envelope)'
    BY <2>1, <2>3, <2>7 DEF ReservedOn
  <2>10. QED
    BY <1>1, <2>1, <2>4, <2>7, <2>8, <2>9 DEF Moves
<1>4. CASE CancelKey(h)
  <2>1. /\ calls[h].at = "cancel.key"
        /\ UNCHANGED <<transactions, agreements>>
    BY <1>4 DEF CancelKey, At
  <2>2. ASSUME NEW step \in Steps, Proceed(h, step)
        PROVE  /\ Reserved(calls[h].agreement)'
               /\ ReservedOn(calls[h].agreement, calls[h].envelope)'
    <3>1. /\ calls'[h].agreement = calls[h].agreement
          /\ calls'[h].envelope = calls[h].envelope
      BY <1>1, <2>2, Proceeds
    <3>2. QED
      BY <1>1, <2>1, <3>1 DEF Reserved, FindBySource, ReservedOn
  <2>3. CASE Proceed(h, "cancel.release")
    BY <1>1, <2>1, <2>2, <2>3, Proceeds DEF Moves, Steps
  <2>4. CASE ~KeyIsFree(ReleaseKey(h)) /\ Proceed(h, "cancel.write")
    <3>1. PICK i \in DOMAIN transactions : transactions[i].key = ReleaseKey(h)
      BY <2>4 DEF KeyIsFree, FindByIdempotencyKey
    <3>2. /\ transactions[i].type = "RELEASE"
          /\ transactions[i].source = calls[h].agreement
      BY <3>1, KeyOfRow DEF Inv, ReleaseKey, Key
    <3>3. calls'[h].agreement = calls[h].agreement
      BY <1>1, <2>4, Proceeds DEF Steps
    <3>4. Released(calls[h].agreement)'
      BY <2>1, <3>2, <3>3 DEF Released, FindBySource
    <3>5. QED
      BY <1>1, <2>1, <2>2, <2>4, <3>4, Proceeds DEF Moves, Steps
  <2>5. QED
    BY <1>4, <2>3, <2>4 DEF CancelKey
<1>5. CASE CancelRelease(h)
  <2>1. PICK i \in DOMAIN transactions' : transactions'[i] = ReleaseRow(h)
    BY <1>5, PostedRows, PostedRow
  <2>2. /\ calls[h].at = "cancel.release" /\ UNCHANGED agreements
        /\ Proceed(h, "cancel.write")
    BY <1>5 DEF CancelRelease, At
  <2>3. calls'[h].agreement = calls[h].agreement
    BY <1>1, <2>2, Proceeds DEF Steps
  <2>4. Released(calls[h].agreement)'
    BY <2>1, <2>3 DEF Released, FindBySource, ReleaseRow
  <2>5. Reserved(calls[h].agreement)'
    BY <1>1, <2>2, <2>3, TransactionsGrow DEF Reserved, FindBySource
  <2>6. QED
    BY <1>1, <2>2, <2>4, <2>5, Proceeds DEF Moves, Steps
<1>6. QED
  BY <1>2, <1>3, <1>4, <1>5 DEF Cancel, CancelReleaseDuplicate, CancelWrite

LEMMA DirectMoves ==
    ASSUME Inv, [Next]_vars, NEW h \in Handlers, Direct(h)
    PROVE  Moves(h)
<1> USE DEF CallOK, CallValid, CallBacked, CallEntitled, UserSteps,
            EnvelopeSteps, RequestSteps, ApproveSteps, ReservedSteps,
            RejectSteps, DirectSteps, CancelSteps
<1>1. TypeOK /\ CallOK(h)
  BY DEF Inv, CallsInv
<1>2. CASE Return(h)
  BY <1>1, <1>2, Returns
<1>3. ASSUME NEW r \in DOMAIN requests, NEW user \in Users,
             NEW step \in DirectSteps, DirectRead(h, r, user, step),
             IF step = "direct.withdraw" THEN user = requests[r].requester
                                         ELSE user # requests[r].requester
      PROVE  Moves(h)
  <2> DEFINE call == [Idle EXCEPT !.at = step, !.user = user,
                                  !.agreement = requests[r].entity,
                                  !.request = r]
  <2>1. r \in Nat /\ requests[r] \in Requests
    BY <1>1, ElementOfSeq, LenProperties DEF TypeOK, ApprovalTypeOK
  <2>2. call \in Calls
    BY <2>1 DEF Idle, Calls, Steps, NoRequest, Requests
  <2>3. /\ calls' \in [Handlers -> Calls]
        /\ \A k \in Handlers \ {h} : calls'[k] = calls[k]
        /\ calls'[h] = call
    BY <1>1, <1>3, <2>2, Begins DEF DirectRead
  <2>4. /\ call.at = step /\ call.user = user
        /\ call.agreement = requests[r].entity /\ call.request = r
    BY DEF Idle
  <2>5. UNCHANGED requests
    BY <1>3 DEF DirectRead
  <2>6. requests[r].entity \in Documents
    BY <2>1 DEF Requests
  <2> HIDE DEF call
  <2>7. QED
    BY <1>3, <2>3, <2>4, <2>5, <2>6 DEF Moves, Filed
<1>4. QED
  BY <1>2, <1>3 DEF Direct, DirectApproveRead, DirectRejectRead,
                    DirectWithdrawRead, MayDecide, MayWithdraw,
                    DirectApproveWrite, DirectRejectWrite, DirectWithdrawWrite,
                    DirectWrite

-----------------------------------------------------------------------------
(* Inv is inductive, one part at a time.                                   *)

LEMMA CallsStep ==
    ASSUME Inv, [Next]_vars
    PROVE  (calls \in [Handlers -> Calls] /\ CallsInv)'
<1>1. SUFFICES \/ \E h \in Handlers : Moves(h)
               \/ UNCHANGED calls
  <2>1. CASE UNCHANGED calls
    <3>1. calls' \in [Handlers -> Calls]
      BY <2>1 DEF Inv, TypeOK
    <3>2. \A k \in Handlers : CallOK(k)'
      BY <2>1, OtherCalls
    <3>3. QED
      BY <3>1, <3>2 DEF CallsInv, CallOK
  <2>2. ASSUME NEW h \in Handlers, Moves(h)
        PROVE  (calls \in [Handlers -> Calls] /\ CallsInv)'
    <3>1. \A k \in Handlers \ {h} : CallOK(k)'
      BY <2>2, OtherCalls DEF Moves
    <3>2. QED
      BY <2>2, <3>1 DEF Moves, CallsInv, CallOK
  <2>3. QED
    BY <2>1, <2>2
<1>2. TypeOK
  BY DEF Inv
<1>3. CASE UNCHANGED vars
  BY <1>3 DEF vars
<1>4. CASE \E a \in Documents, cap \in Caps : Create(a, cap)
  BY <1>4 DEF Create
<1>5. CASE \E e \in Envelopes : OpenEnvelope(e)
  BY <1>5 DEF OpenEnvelope
<1>6. ASSUME NEW h \in Handlers, UpdateWrite(h) \/ DeleteWrite(h) \/ Fail(h)
      PROVE  Moves(h)
  BY <1>2, <1>6, Returns DEF UpdateWrite, DeleteWrite, Fail
<1>7. QED
  BY <1>3, <1>4, <1>5, <1>6, ArriveMoves, SubmitMoves, ApproveMoves, RejectMoves,
     CancelMoves, DirectMoves DEF Next

\* Both posts check the unique index, so the keys stay unique.
LEMMA KeysStep ==
    ASSUME Inv, [Next]_vars
    PROVE  KeysInv'
<1>1. transactions \in Seq(Transactions) /\ Len(transactions) \in Nat
  BY LenProperties DEF Inv, TypeOK, BudgetTypeOK
<1>2. KeysInv
  BY DEF Inv
<1>3. ASSUME NEW row \in Transactions, transactions' = Append(transactions, row),
             KeyIsFree(row.key), row.type \in {"RESERVE", "RELEASE"},
             row.key = Key(row.type, row.source,
                           IF row.type = "RESERVE" THEN NoEnvelope
                                                   ELSE row.envelope)
      PROVE  KeysInv'
  <2>1. /\ DOMAIN transactions = 1..Len(transactions)
        /\ DOMAIN transactions' = 1..(Len(transactions) + 1)
        /\ transactions'[Len(transactions) + 1] = row
        /\ \A i \in 1..Len(transactions) : transactions'[i] = transactions[i]
    BY <1>1, <1>3, AppendProperties, LenProperties
  <2>2. \A i \in DOMAIN transactions' :
           i \in DOMAIN transactions \/ i = Len(transactions) + 1
    BY <1>1, <2>1
  <2>3. \A i \in DOMAIN transactions : transactions[i].key # row.key
    BY <1>3 DEF KeyIsFree, FindByIdempotencyKey
  <2>4. ASSUME NEW i \in DOMAIN transactions'
        PROVE  /\ transactions'[i].type \in {"RESERVE", "RELEASE"}
               /\ transactions'[i].key =
                    Key(transactions'[i].type, transactions'[i].source,
                        IF transactions'[i].type = "RESERVE" THEN NoEnvelope
                                            ELSE transactions'[i].envelope)
    BY <1>2, <1>3, <2>1, <2>2 DEF KeysInv
  <2>5. ASSUME NEW i \in DOMAIN transactions', NEW j \in DOMAIN transactions',
               transactions'[i].key = transactions'[j].key
        PROVE  i = j
    BY <1>2, <2>1, <2>2, <2>3, <2>5 DEF KeysInv
  <2>6. QED
    BY <2>4, <2>5 DEF KeysInv
<1>4. ASSUME NEW h \in Handlers, ApproveReserve(h)
      PROVE  KeysInv'
  <2>1. /\ ReserveRow(h) \in Transactions
        /\ transactions' = Append(transactions, ReserveRow(h))
    BY <1>4, PostedRows
  <2>2. KeyIsFree(ReserveRow(h).key)
    BY <1>4 DEF ApproveReserve, PostTransaction, ReserveRow
  <2>3. QED
    BY <1>3, <2>1, <2>2 DEF ReserveRow, ReserveKey
<1>5. ASSUME NEW h \in Handlers, CancelRelease(h)
      PROVE  KeysInv'
  <2>1. /\ ReleaseRow(h) \in Transactions
        /\ transactions' = Append(transactions, ReleaseRow(h))
    BY <1>5, PostedRows
  <2>2. KeyIsFree(ReleaseRow(h).key)
    BY <1>5 DEF CancelRelease, PostTransaction, ReleaseRow
  <2>3. QED
    BY <1>3, <2>1, <2>2 DEF ReleaseRow, ReleaseKey
<1>6. CASE UNCHANGED transactions
  BY <1>2, <1>6 DEF KeysInv
<1>7. QED
  BY <1>4, <1>5, <1>6, TransactionSteps

LEMMA ReleaseBackedStep ==
    ASSUME Inv, [Next]_vars
    PROVE  ReleaseBacked'
<1>1. transactions \in Seq(Transactions) /\ Len(transactions) \in Nat
  BY LenProperties DEF Inv, TypeOK, BudgetTypeOK
<1>2. ReleaseBacked
  BY DEF Inv
<1>3. ASSUME NEW row \in Transactions, transactions' = Append(transactions, row),
             row.type = "RELEASE" => ReservedOn(row.source, row.envelope)
      PROVE  ReleaseBacked'
  <2>1. /\ DOMAIN transactions = 1..Len(transactions)
        /\ DOMAIN transactions' = 1..(Len(transactions) + 1)
        /\ transactions'[Len(transactions) + 1] = row
        /\ \A i \in 1..Len(transactions) : transactions'[i] = transactions[i]
    BY <1>1, <1>3, AppendProperties, LenProperties
  <2>2. ASSUME NEW i \in DOMAIN transactions', transactions'[i].type = "RELEASE"
        PROVE  \E j \in 1..(i - 1) :
                 /\ transactions'[j].type = "RESERVE"
                 /\ transactions'[j].source = transactions'[i].source
                 /\ transactions'[j].envelope = transactions'[i].envelope
    <3>1. CASE i \in 1..Len(transactions)
      <4>1. transactions[i].type = "RELEASE"
        BY <2>1, <2>2, <3>1
      <4>2. PICK j \in 1..(i - 1) :
                   /\ transactions[j].type = "RESERVE"
                   /\ transactions[j].source = transactions[i].source
                   /\ transactions[j].envelope = transactions[i].envelope
        BY <1>2, <2>1, <3>1, <4>1 DEF ReleaseBacked
      <4>3. j \in 1..Len(transactions)
        BY <1>1, <3>1
      <4>4. QED
        BY <2>1, <3>1, <4>2, <4>3
    <3>2. CASE i = Len(transactions) + 1
      <4>1. PICK j \in DOMAIN transactions :
                   /\ transactions[j].type = "RESERVE"
                   /\ transactions[j].source = row.source
                   /\ transactions[j].envelope = row.envelope
        BY <1>3, <2>1, <2>2, <3>2 DEF ReservedOn
      <4>2. QED
        BY <1>1, <2>1, <3>2, <4>1
    <3>3. QED
      BY <1>1, <2>1, <3>1, <3>2
  <2>3. QED
    BY <2>2 DEF ReleaseBacked
<1>4. ASSUME NEW h \in Handlers, ApproveReserve(h)
      PROVE  ReleaseBacked'
  BY <1>3, <1>4, PostedRows DEF ReserveRow
<1>5. ASSUME NEW h \in Handlers, CancelRelease(h)
      PROVE  ReleaseBacked'
  <2>1. ReservedOn(calls[h].agreement, calls[h].envelope)
    BY <1>5 DEF Inv, CallsInv, CallBacked, CancelRelease, At
  <2>2. QED
    BY <1>3, <1>5, <2>1, PostedRows DEF ReleaseRow
<1>6. CASE UNCHANGED transactions
  BY <1>2, <1>6 DEF ReleaseBacked
<1>7. QED
  BY <1>4, <1>5, <1>6, TransactionSteps

\* The statuses of agreements, with the facts each status write relies on.
LEMMA StatusStep ==
    ASSUME Inv, [Next]_vars
    PROVE  RequestsInv' /\ ApprovedIsReserved' /\ CancelledIsReleased'
<1> DEFINE Facts(a) ==
      /\ agreements[a].request # NoRequest => Filed(a, agreements[a].request)
      /\ agreements[a].status \notin {"ABSENT", "DRAFT"} =>
             agreements[a].request # NoRequest
      /\ agreements[a].status \in {"APPROVED", "CANCELLED"} => Reserved(a)
      /\ agreements[a].status = "CANCELLED" => Released(a)
<1>1. /\ agreements \in [Documents -> Agreements]
      /\ \A a \in Documents : Facts(a)
  BY DEF Inv, TypeOK, RequestsInv, ApprovedIsReserved, CancelledIsReleased
<1>2. \A r : \A a \in Documents : Filed(a, r) => Filed(a, r)'
  BY RequestsGrow DEF Filed
<1>3. /\ \A a \in Documents : Reserved(a) => Reserved(a)'
      /\ \A a \in Documents : Released(a) => Released(a)'
  BY TransactionsGrow DEF Reserved, Released, FindBySource
<1>4. ASSUME NEW a \in Documents, agreements'[a].request = agreements[a].request,
             agreements'[a].status = agreements[a].status
      PROVE  Facts(a)'
  BY <1>1, <1>2, <1>3, <1>4 DEF Filed, Reserved, Released, FindBySource
<1>5. SUFFICES ASSUME NEW a \in Documents PROVE Facts(a)'
  BY DEF RequestsInv, ApprovedIsReserved, CancelledIsReleased
<1>6. CASE \E b \in Documents, cap \in Caps : Create(b, cap)
  <2>1. PICK b \in Documents, cap \in Caps : Create(b, cap)
    BY <1>6
  <2>2. agreements'[a].request = agreements[a].request
    BY <1>1, <2>1 DEF Create, Agreements
  <2>3. CASE a = b
    <3>1. agreements'[a].status = "DRAFT"
      BY <1>1, <2>1, <2>3 DEF Create, Agreements
    <3>2. QED
      BY <1>1, <1>2, <2>2, <3>1 DEF Filed
  <2>4. CASE a # b
    BY <1>1, <1>4, <2>1, <2>2, <2>4 DEF Create
  <2>5. QED
    BY <2>3, <2>4
<1>7. ASSUME NEW h \in Handlers, UpdateWrite(h) \/ DeleteWrite(h)
      PROVE  Facts(a)'
  <2>1. /\ agreements'[a].request = agreements[a].request
        /\ agreements'[a].status = agreements[a].status
    BY <1>1, <1>7 DEF UpdateWrite, DeleteWrite, Agreements
  <2>2. QED
    BY <1>4, <2>1
<1>8. ASSUME NEW h \in Handlers, SubmitWrite(h)
      PROVE  Facts(a)'
  <2>1. Filed(calls[h].agreement, calls[h].request)
    BY <1>8 DEF SubmitWrite, At, Inv, CallsInv, CallValid, RequestSteps
  <2>2. calls[h].request # NoRequest
    BY <2>1, LenProperties DEF Filed, Inv, TypeOK, ApprovalTypeOK, NoRequest
  <2>3. CASE a = calls[h].agreement
    <3>1. /\ agreements'[a].request = calls[h].request
          /\ agreements'[a].status = "PENDING"
      BY <1>1, <1>8, <2>3 DEF SubmitWrite, Agreements
    <3>2. QED
      BY <1>2, <2>1, <2>2, <2>3, <3>1 DEF Filed
  <2>4. CASE a # calls[h].agreement
    BY <1>1, <1>4, <1>8, <2>4 DEF SubmitWrite
  <2>5. QED
    BY <2>3, <2>4
<1>9. ASSUME NEW h \in Handlers, NEW status, SetStatus(h, status),
             agreements[calls[h].agreement].request # NoRequest,
             status \in {"APPROVED", "CANCELLED"} => Reserved(calls[h].agreement),
             status = "CANCELLED" => Released(calls[h].agreement)
      PROVE  Facts(a)'
  <2>1. agreements'[a].request = agreements[a].request
    BY <1>1, <1>9 DEF SetStatus, Agreements
  <2>2. CASE a = calls[h].agreement
    <3>1. agreements'[a].status = status
      BY <1>1, <1>9, <2>2 DEF SetStatus, Agreements
    <3>2. QED
      BY <1>1, <1>2, <1>3, <1>9, <2>1, <2>2, <3>1
         DEF Filed, Reserved, Released, FindBySource
  <2>3. CASE a # calls[h].agreement
    BY <1>1, <1>4, <1>9, <2>3 DEF SetStatus
  <2>4. QED
    BY <2>2, <2>3
<1>10. ASSUME NEW h \in Handlers,
              ApproveWrite(h) \/ RejectWrite(h) \/ CancelWrite(h)
       PROVE  Facts(a)'
  <2>1. CallBacked(h)
    BY DEF Inv, CallsInv
  <2>2. agreements[calls[h].agreement].request # NoRequest
    BY <1>10, <2>1 DEF CallBacked, ApproveWrite, RejectWrite, CancelWrite, At,
                       ApproveSteps, ReservedSteps, RejectSteps, CancelSteps
  <2>3. CASE ApproveWrite(h)
    BY <1>9, <2>1, <2>2, <2>3 DEF CallBacked, ApproveWrite, At, ReservedSteps
  <2>4. CASE RejectWrite(h)
    BY <1>9, <2>2, <2>4 DEF RejectWrite
  <2>5. CASE CancelWrite(h)
    BY <1>9, <2>1, <2>2, <2>5 DEF CallBacked, CancelWrite, At, CancelSteps
  <2>6. QED
    BY <1>10, <2>3, <2>4, <2>5
<1>11. CASE UNCHANGED agreements
  BY <1>4, <1>11
<1>12. QED
  BY <1>6, <1>7, <1>8, <1>10, <1>11, AgreementChanges

LEMMA NoSelfDecisionStep ==
    ASSUME Inv, [Next]_vars
    PROVE  NoSelfDecision'
<1> DEFINE Fair(request) ==
      /\ request.status \in {"APPROVED", "REJECTED"} =>
             request.decidedBy \notin {request.requester, NoUser}
      /\ request.status = "CANCELLED" => request.decidedBy = request.requester
<1>1. /\ requests \in Seq(Requests) /\ Len(requests) \in Nat
      /\ DOMAIN requests = 1..Len(requests)
      /\ \A r \in DOMAIN requests : Fair(requests[r])
  BY LenProperties DEF Inv, TypeOK, ApprovalTypeOK, NoSelfDecision
<1>2. SUFFICES ASSUME NEW r \in DOMAIN requests' PROVE Fair(requests'[r])
  BY DEF NoSelfDecision
<1>3. ASSUME NEW h \in Handlers, SubmitInsert(h)
      PROVE  Fair(requests'[r])
  <2> DEFINE row == [entity |-> calls[h].agreement, requester |-> calls[h].user,
                     status |-> "PENDING", decidedBy |-> NoUser]
  <2>1. calls[h].agreement \in Documents /\ calls[h].user \in Users
    BY <1>3 DEF Inv, CallsInv, CallValid, SubmitInsert, At, UserSteps
  <2>2. row \in Requests /\ requests' = Append(requests, row)
    BY <1>3, <2>1 DEF SubmitInsert, InsertRequest, Requests, RequestStatuses
  <2>3. Fair(row)
    OBVIOUS
  <2> HIDE DEF row, Fair
  <2>4. /\ DOMAIN requests' = 1..(Len(requests) + 1)
        /\ requests'[Len(requests) + 1] = row
        /\ \A q \in 1..Len(requests) : requests'[q] = requests[q]
    BY <1>1, <2>2, AppendProperties, LenProperties
  <2>5. r \in 1..Len(requests) \/ r = Len(requests) + 1
    BY <1>1, <2>4
  <2>6. QED
    BY <1>1, <2>3, <2>4, <2>5
<1>4. ASSUME NEW q \in DOMAIN requests, NEW status, NEW user \in Users,
             WriteDecision(q, status, user),
             status \in {"APPROVED", "REJECTED"} => user # requests[q].requester,
             status = "CANCELLED" => user = requests[q].requester
      PROVE  Fair(requests'[r])
  <2>1. requests[q] \in Requests /\ DOMAIN requests' = DOMAIN requests
    BY <1>1, <1>4, ElementOfSeq DEF WriteDecision
  <2>2. CASE r = q
    <3>1. /\ requests'[q].status = status /\ requests'[q].decidedBy = user
          /\ requests'[q].requester = requests[q].requester
      BY <1>1, <1>4, <2>1 DEF WriteDecision, Requests
    <3>2. QED
      BY <1>4, <2>2, <3>1, UserAssumption
  <2>3. CASE r # q
    <3>1. requests'[r] = requests[r]
      BY <1>1, <1>4, <2>1, <2>3 DEF WriteDecision
    <3>2. QED
      BY <1>1, <2>1, <3>1
  <2>4. QED
    BY <2>2, <2>3
<1>5. ASSUME NEW h \in Handlers,
             \/ ApproveDecide(h) \/ RejectDecide(h) \/ DirectApproveWrite(h)
             \/ DirectRejectWrite(h) \/ DirectWithdrawWrite(h)
      PROVE  Fair(requests'[r])
  <2>1. CallValid(h) /\ CallEntitled(h)
    BY DEF Inv, CallsInv
  <2>2. calls[h].request \in DOMAIN requests /\ calls[h].user \in Users
    BY <1>5, <2>1 DEF ApproveDecide, RejectDecide, DirectApproveWrite,
              DirectRejectWrite, DirectWithdrawWrite, DirectWrite, At, CallValid,
              UserSteps, RequestSteps, ApproveSteps, RejectSteps, DirectSteps,
              ReservedSteps, Filed
  <2>3. \E status :
           /\ WriteDecision(calls[h].request, status, calls[h].user)
           /\ status \in {"APPROVED", "REJECTED"} =>
                  calls[h].user # requests[calls[h].request].requester
           /\ status = "CANCELLED" =>
                  calls[h].user = requests[calls[h].request].requester
    BY <1>5, <2>1 DEF ApproveDecide, RejectDecide, DirectApproveWrite,
              DirectRejectWrite, DirectWithdrawWrite, DirectWrite, At,
              CallEntitled
  <2>4. QED
    BY <1>4, <2>2, <2>3
<1>6. CASE UNCHANGED requests
  BY <1>1, <1>2, <1>6
<1>7. QED
  BY <1>3, <1>5, <1>6, RequestChanges

LEMMA TypeStep ==
    ASSUME Inv, [Next]_vars
    PROVE  TypeOK'
<1>1. TypeOK /\ BudgetTypeOK
  BY DEF Inv, TypeOK
<1>2. envelopes' \in Seq(Envelopes)
  <2>1. envelopes \in Seq(Envelopes)
    BY <1>1 DEF BudgetTypeOK
  <2>2. CASE \E e \in Envelopes : OpenEnvelope(e)
    BY <2>1, <2>2, AppendProperties DEF OpenEnvelope, CreateEnvelope
  <2>3. CASE UNCHANGED envelopes
    BY <2>1, <2>3
  <2>4. QED
    BY <2>2, <2>3, EnvelopeChanges
<1>3. ledger' \in Seq(LedgerEntries)
  BY <1>1, EnvelopeChanges DEF BudgetTypeOK
<1>4. agreements' \in [Documents -> Agreements]
  <2>1. agreements \in [Documents -> Agreements]
    BY <1>1 DEF TypeOK
  <2>2. ASSUME NEW a \in Documents, NEW cap \in Caps, Create(a, cap)
        PROVE  agreements' \in [Documents -> Agreements]
    <3>1. cap \in Nat
      BY AgreementAssumption
    <3>2. agreements' = [agreements EXCEPT ![a].status = "DRAFT", ![a].cap = cap]
      BY <2>2 DEF Create
    <3> DEFINE row == [agreements[a] EXCEPT !.status = "DRAFT", !.cap = cap]
    <3>3. row \in Agreements /\ agreements' = [agreements EXCEPT ![a] = row]
      BY <2>1, <3>1, <3>2 DEF Agreements, AgreementStatuses
    <3>4. QED
      BY <2>1, <3>3
  <2>3. ASSUME NEW h \in Handlers, UpdateWrite(h) \/ DeleteWrite(h)
        PROVE  agreements' \in [Documents -> Agreements]
    <3>1. calls[h].cap \in Nat
      BY <1>1 DEF TypeOK, Calls
    <3>2. QED
      BY <2>1, <2>3, <3>1 DEF UpdateWrite, DeleteWrite, Agreements
  <2>4. ASSUME NEW h \in Handlers, SubmitWrite(h)
        PROVE  agreements' \in [Documents -> Agreements]
    <3>1. calls[h].request \in Nat
      BY <1>1 DEF TypeOK, Calls
    <3>2. QED
      BY <2>1, <2>4, <3>1 DEF SubmitWrite, Agreements, AgreementStatuses
  <2>5. ASSUME NEW h \in Handlers,
               ApproveWrite(h) \/ RejectWrite(h) \/ CancelWrite(h)
        PROVE  agreements' \in [Documents -> Agreements]
    BY <2>1, <2>5 DEF ApproveWrite, RejectWrite, CancelWrite, SetStatus,
                      Agreements, AgreementStatuses
  <2>6. CASE UNCHANGED agreements
    BY <2>1, <2>6
  <2>7. QED
    BY <2>2, <2>3, <2>4, <2>5, <2>6, AgreementChanges
<1>5. QED
  BY <1>2, <1>3, <1>4, TransactionsGrow, RequestsGrow, CallsStep
     DEF TypeOK, BudgetTypeOK, ApprovalTypeOK

LEMMA InvInit ==
    ASSUME Init
    PROVE  Inv
<1>1. /\ envelopes = <<>> /\ transactions = <<>> /\ ledger = <<>>
      /\ requests = <<>>
  BY DEF Init, BudgetInit, ApprovalInit
<1>2. DOMAIN transactions = {} /\ DOMAIN requests = {}
  BY <1>1
<1>3. /\ \A a \in Documents : /\ agreements[a].status = "ABSENT"
                            /\ agreements[a].request = NoRequest
      /\ \A h \in Handlers : calls[h] = Idle
  BY DEF Init
<1>4. TypeOK
  <2>1. Idle \in Calls
    BY DEF Idle, Calls, Steps, NoRequest
  <2>2. BudgetTypeOK /\ ApprovalTypeOK
    BY <1>1, EmptySeq DEF BudgetTypeOK, ApprovalTypeOK
  <2>3. agreements \in [Documents -> Agreements]
    BY DEF Init, Agreements, AgreementStatuses, NoRequest
  <2>4. calls \in [Handlers -> Calls]
    BY <2>1 DEF Init
  <2>5. QED
    BY <2>2, <2>3, <2>4 DEF TypeOK
<1>5. CallsInv
  <2>1. Idle.at = "idle"
    BY DEF Idle
  <2>2. QED
    BY <1>3, <2>1 DEF CallsInv, CallValid, CallBacked, CallEntitled, UserSteps,
       EnvelopeSteps, RequestSteps, ApproveSteps, ReservedSteps, RejectSteps,
       DirectSteps, CancelSteps
<1>6. KeysInv /\ ReleaseBacked /\ NoSelfDecision
  BY <1>2 DEF KeysInv, ReleaseBacked, NoSelfDecision
<1>7. RequestsInv /\ ApprovedIsReserved /\ CancelledIsReleased
  BY <1>3 DEF RequestsInv, ApprovedIsReserved, CancelledIsReleased
<1>8. QED
  BY <1>4, <1>5, <1>6, <1>7 DEF Inv

LEMMA InvStep ==
    ASSUME Inv, [Next]_vars
    PROVE  Inv'
BY TypeStep, CallsStep, KeysStep, ReleaseBackedStep, StatusStep,
   NoSelfDecisionStep DEF Inv

-----------------------------------------------------------------------------
(* Theorems.                                                               *)

\* In every reachable state the inductive invariant holds: calls in flight
\* can rely on what they read, whatever other calls did or failed to do.
THEOREM Invariance == Spec => []Inv
<1>1. Init => Inv
  BY InvInit
<1>2. Inv /\ [Next]_vars => Inv'
  BY InvStep
<1>3. QED
  BY <1>1, <1>2, PTL DEF Spec

\* The tables and the calls keep their types.
THEOREM TypeCorrect == Spec => []TypeOK
<1>1. Inv => TypeOK
  BY DEF Inv
<1>2. QED
  BY <1>1, Invariance, PTL

\* An agreement reserves its budget at most once and releases it at most once.
THEOREM ReservesOnce == Spec => []OneReservation
<1>1. Inv => OneReservation
  BY OneRowOfType
<1>2. QED
  BY <1>1, Invariance, PTL

\* No agreement is approved without a reservation.
THEOREM ApprovedReserved == Spec => []ApprovedIsReserved
<1>1. Inv => ApprovedIsReserved
  BY DEF Inv
<1>2. QED
  BY <1>1, Invariance, PTL

\* No agreement is cancelled without a release.
THEOREM CancelledReleased == Spec => []CancelledIsReleased
<1>1. Inv => CancelledIsReleased
  BY DEF Inv
<1>2. QED
  BY <1>1, Invariance, PTL

\* Every release gives back to the envelope that the agreement reserved from
\* before.
THEOREM ReleasesBacked == Spec => []ReleaseBacked
<1>1. Inv => ReleaseBacked
  BY DEF Inv
<1>2. QED
  BY <1>1, Invariance, PTL

\* Nobody decides a request of their own.
THEOREM SegregationOfDuties == Spec => []NoSelfDecision
<1>1. Inv => NoSelfDecision
  BY DEF Inv
<1>2. QED
  BY <1>1, Invariance, PTL

\* An agreement that left DRAFT names a request filed for it.
THEOREM RequestsFiled == Spec => []RequestOnFile
<1>1. Inv => RequestOnFile
  BY DEF Inv, RequestsInv, RequestOnFile, Filed
<1>2. QED
  BY <1>1, Invariance, PTL

-----------------------------------------------------------------------------
(* The table of transactions implements Reservation.                       *)

\* A row appended to the table is found under its own source and type only.
LEMMA FindAfterPost ==
    ASSUME Inv, NEW row \in Transactions,
           transactions' = Append(transactions, row), NEW type, NEW a
    PROVE  /\ FindBySource(type, a)' =
                FindBySource(type, a) \cup
                  (IF row.type = type /\ row.source = a
                     THEN {Len(transactions) + 1} ELSE {})
           /\ \A i \in FindBySource(type, a) : transactions'[i] = transactions[i]
           /\ transactions'[Len(transactions) + 1] = row
<1>1. transactions \in Seq(Transactions) /\ Len(transactions) \in Nat
  BY LenProperties DEF Inv, TypeOK, BudgetTypeOK
<1>2. /\ DOMAIN transactions = 1..Len(transactions)
      /\ DOMAIN transactions' = 1..(Len(transactions) + 1)
      /\ transactions'[Len(transactions) + 1] = row
      /\ \A i \in 1..Len(transactions) : transactions'[i] = transactions[i]
  BY <1>1, AppendProperties, LenProperties
<1>3. DOMAIN transactions' = DOMAIN transactions \cup {Len(transactions) + 1}
  BY <1>1, <1>2
<1>4. QED
  BY <1>2, <1>3 DEF FindBySource

\* approve posts a reservation only for an agreement that has none ...
LEMMA FirstReservation ==
    ASSUME Inv, NEW h \in Handlers, ApproveReserve(h)
    PROVE  ~Reserved(calls[h].agreement) /\ ~Released(calls[h].agreement)
<1>1. KeysInv /\ ReleaseBacked
  BY DEF Inv
<1>2. ASSUME NEW i \in DOMAIN transactions, transactions[i].type = "RESERVE",
             transactions[i].source = calls[h].agreement
      PROVE  FALSE
  <2>1. transactions[i].key = ReserveKey(h)
    BY <1>1, <1>2 DEF KeysInv, ReserveKey
  <2>2. KeyIsFree(ReserveKey(h))
    BY DEF ApproveReserve, PostTransaction
  <2>3. QED
    BY <2>1, <2>2 DEF KeyIsFree, FindByIdempotencyKey
<1>3. ASSUME NEW i \in DOMAIN transactions, transactions[i].type = "RELEASE",
             transactions[i].source = calls[h].agreement
      PROVE  FALSE
  <2>1. PICK j \in 1..(i - 1) :
               /\ transactions[j].type = "RESERVE"
               /\ transactions[j].source = transactions[i].source
    BY <1>1, <1>3 DEF ReleaseBacked
  <2>2. j \in DOMAIN transactions
    BY <1>3, <2>1, LenProperties DEF Inv, TypeOK, BudgetTypeOK
  <2>3. QED
    BY <1>2, <1>3, <2>1, <2>2
<1>4. QED
  BY <1>2, <1>3 DEF Reserved, Released, FindBySource

\* ... and cancel a release only for one that holds its reservation.
LEMMA FirstRelease ==
    ASSUME Inv, NEW h \in Handlers, CancelRelease(h)
    PROVE  Reserved(calls[h].agreement) /\ ~Released(calls[h].agreement)
<1>1. KeysInv /\ ReleaseBacked /\ OneReservation
  BY OneRowOfType DEF Inv
<1>2. CallBacked(h) /\ calls[h].at = "cancel.release"
  BY DEF Inv, CallsInv, CancelRelease, At
<1>3. Reserved(calls[h].agreement)
  BY <1>2 DEF CallBacked, CancelSteps
<1>4. PICK k \in DOMAIN transactions :
             /\ transactions[k].type = "RESERVE"
             /\ transactions[k].source = calls[h].agreement
             /\ transactions[k].envelope = calls[h].envelope
  BY <1>2 DEF CallBacked, ReservedOn
<1>5. ASSUME NEW i \in DOMAIN transactions, transactions[i].type = "RELEASE",
             transactions[i].source = calls[h].agreement
      PROVE  FALSE
  <2>1. PICK j \in 1..(i - 1) :
               /\ transactions[j].type = "RESERVE"
               /\ transactions[j].source = transactions[i].source
               /\ transactions[j].envelope = transactions[i].envelope
    BY <1>1, <1>5 DEF ReleaseBacked
  <2>2. j \in DOMAIN transactions
    BY <1>5, <2>1, LenProperties DEF Inv, TypeOK, BudgetTypeOK
  <2>3. j = k
    BY <1>1, <1>4, <1>5, <2>1, <2>2 DEF OneReservation, TxTypes
  <2>4. transactions[i].key = ReleaseKey(h)
    BY <1>1, <1>4, <1>5, <2>1, <2>3 DEF KeysInv, ReleaseKey
  <2>5. KeyIsFree(ReleaseKey(h))
    BY DEF CancelRelease, PostTransaction
  <2>6. QED
    BY <2>4, <2>5 DEF KeyIsFree, FindByIdempotencyKey
<1>6. QED
  BY <1>3, <1>5 DEF Released, FindBySource

\* Every step of the table is a step of Reservation, or none.
LEMMA PromiseStep ==
    ASSUME Inv, [Next]_vars
    PROVE  [Promise!Next]_<<Phase, HeldFrom>>
<1> DEFINE Rows(a) == FindBySource("RESERVE", a)
<1>0. Len(transactions) \in Nat
  BY LenProperties DEF Inv, TypeOK, BudgetTypeOK
<1>n. ASSUME NEW b, Reserved(b)
      PROVE  Newest(Rows(b)) \in Rows(b)
  <2>1. Rows(b) \subseteq Nat
    BY LenProperties DEF Inv, TypeOK, BudgetTypeOK, FindBySource
  <2>2. \A i, j \in Rows(b) : i = j
    BY OneRowOfType DEF OneReservation, TxTypes, FindBySource
  <2>3. \E i \in Rows(b) : \A j \in Rows(b) : j <= i
    BY <1>n, <2>1, <2>2 DEF Reserved
  <2>4. QED
    BY <2>3, NewestRow
<1>1. ASSUME NEW h \in Handlers, ApproveReserve(h)
      PROVE  Promise!Reserve(calls[h].agreement, calls[h].envelope)
  <2> DEFINE a == calls[h].agreement
  <2>1. a \in Documents
    BY <1>1 DEF Inv, CallsInv, CallValid, ApproveReserve, At
  <2>2. ~Reserved(a) /\ ~Released(a)
    BY <1>1, FirstReservation
  <2>3. /\ ReserveRow(h) \in Transactions
        /\ transactions' = Append(transactions, ReserveRow(h))
    BY <1>1, PostedRows
  <2>4. /\ ReserveRow(h).type = "RESERVE" /\ ReserveRow(h).source = a
        /\ ReserveRow(h).envelope = calls[h].envelope
    BY DEF ReserveRow
  <2> DEFINE n == Len(transactions) + 1
  <2>5. ASSUME NEW b
        PROVE  /\ FindBySource("RELEASE", b)' = FindBySource("RELEASE", b)
               /\ Rows(b)' = IF b = a THEN Rows(b) \cup {n} ELSE Rows(b)
               /\ \A i \in Rows(b) : transactions'[i] = transactions[i]
               /\ transactions'[n] = ReserveRow(h)
    <3>1. FindBySource("RESERVE", b)' = FindBySource("RESERVE", b) \cup
            (IF ReserveRow(h).type = "RESERVE" /\ ReserveRow(h).source = b
               THEN {n} ELSE {})
      BY <2>3, FindAfterPost
    <3>2. FindBySource("RELEASE", b)' = FindBySource("RELEASE", b) \cup
            (IF ReserveRow(h).type = "RELEASE" /\ ReserveRow(h).source = b
               THEN {n} ELSE {})
      BY <2>3, FindAfterPost
    <3>3. /\ \A i \in FindBySource("RESERVE", b) : transactions'[i] = transactions[i]
          /\ transactions'[n] = ReserveRow(h)
      BY <2>3, FindAfterPost
    <3>4. QED
      BY <2>4, <3>1, <3>2, <3>3
  <2> HIDE DEF a, n
  <2>6. Rows(a) = {}
    BY <2>2 DEF Reserved
  <2>7. Phase[a] = "none"
    BY <2>1, <2>2 DEF Phase
  <2>8. Phase' = [Phase EXCEPT ![a] = "held"]
    BY <2>1, <2>2, <2>5 DEF Phase, Reserved, Released
  <2>9. HeldFrom' = [HeldFrom EXCEPT ![a] = calls[h].envelope]
    <3>1. ASSUME NEW b \in Documents
          PROVE  HeldFrom'[b] = IF b = a THEN calls[h].envelope ELSE HeldFrom[b]
      <4>1. CASE b = a
        <5>1. Rows(b)' = {n}
          BY <2>5, <2>6, <4>1
        <5>2. Newest({n}) \in {n}
          <6>1. \E i \in {n} : \A j \in {n} : j <= i
            BY <1>0 DEF n
          <6>2. QED
            BY <6>1, NewestRow
        <5>3. transactions'[Newest(Rows(b)')] = ReserveRow(h)
          BY <2>5, <5>1, <5>2
        <5>4. QED
          BY <2>4, <4>1, <5>1, <5>3 DEF HeldFrom, Reserved
      <4>2. CASE b # a
        BY <1>n, <2>5, <4>2 DEF HeldFrom, Reserved
      <4>3. QED
        BY <4>1, <4>2
    <3>2. QED
      BY <3>1 DEF HeldFrom
  <2>10. QED
    BY <2>7, <2>8, <2>9 DEF Promise!Reserve, a
<1>2. ASSUME NEW h \in Handlers, CancelRelease(h)
      PROVE  Promise!Release(calls[h].agreement)
  <2> DEFINE a == calls[h].agreement
  <2>1. a \in Documents
    BY <1>2 DEF Inv, CallsInv, CallValid, CancelRelease, At
  <2>2. Reserved(a) /\ ~Released(a)
    BY <1>2, FirstRelease
  <2>3. /\ ReleaseRow(h) \in Transactions
        /\ transactions' = Append(transactions, ReleaseRow(h))
    BY <1>2, PostedRows
  <2>4. ReleaseRow(h).type = "RELEASE" /\ ReleaseRow(h).source = a
    BY DEF ReleaseRow
  <2> DEFINE n == Len(transactions) + 1
  <2>5. ASSUME NEW b
        PROVE  /\ Rows(b)' = Rows(b)
               /\ FindBySource("RELEASE", b)' =
                    IF b = a THEN FindBySource("RELEASE", b) \cup {n}
                             ELSE FindBySource("RELEASE", b)
               /\ \A i \in Rows(b) : transactions'[i] = transactions[i]
    <3>1. FindBySource("RESERVE", b)' = FindBySource("RESERVE", b) \cup
            (IF ReleaseRow(h).type = "RESERVE" /\ ReleaseRow(h).source = b
               THEN {n} ELSE {})
      BY <2>3, FindAfterPost
    <3>2. FindBySource("RELEASE", b)' = FindBySource("RELEASE", b) \cup
            (IF ReleaseRow(h).type = "RELEASE" /\ ReleaseRow(h).source = b
               THEN {n} ELSE {})
      BY <2>3, FindAfterPost
    <3>3. /\ \A i \in FindBySource("RESERVE", b) : transactions'[i] = transactions[i]
          /\ transactions'[n] = ReleaseRow(h)
      BY <2>3, FindAfterPost
    <3>4. QED
      BY <2>4, <3>1, <3>2, <3>3
  <2> HIDE DEF a, n
  <2>6. Phase[a] = "held"
    BY <2>1, <2>2 DEF Phase
  <2>7. Phase' = [Phase EXCEPT ![a] = "freed"]
    BY <2>1, <2>2, <2>5 DEF Phase, Reserved, Released
  <2>8. HeldFrom' = HeldFrom
    BY <1>n, <2>5 DEF HeldFrom, Reserved
  <2>9. QED
    BY <2>6, <2>7, <2>8 DEF Promise!Release, a
<1>3. CASE UNCHANGED transactions
  BY <1>3 DEF Phase, HeldFrom, Reserved, Released, FindBySource
<1>4. ASSUME NEW h \in Handlers, ApproveReserve(h) \/ CancelRelease(h)
      PROVE  calls[h].agreement \in Documents /\ calls[h].envelope \in Envelopes
  BY <1>4 DEF Inv, CallsInv, CallValid, ApproveReserve, CancelRelease, At,
              EnvelopeSteps
<1>5. QED
  BY <1>1, <1>2, <1>3, <1>4, TransactionSteps DEF Promise!Next

\* budget_transactions, as the racing and failing calls of the workflow write
\* it, implements the reservation protocol: take once, keep, give back once.
THEOREM Refinement == Spec => ImplementsReservation
<1>1. Init => Promise!Init
  <2>1. SUFFICES ASSUME Init PROVE Promise!Init
    OBVIOUS
  <2>2. DOMAIN transactions = {}
    BY <2>1 DEF Init, BudgetInit
  <2>3. \A a \in Documents : ~Reserved(a) /\ ~Released(a)
    BY <2>2 DEF Reserved, Released, FindBySource
  <2>4. QED
    BY <2>3 DEF Promise!Init, Phase, HeldFrom
<1>2. Inv /\ [Next]_vars => [Promise!Next]_<<Phase, HeldFrom>>
  BY PromiseStep
<1>3. QED
  BY <1>1, <1>2, Invariance, PTL DEF Spec, Promise!Spec, ImplementsReservation

-----------------------------------------------------------------------------
(* When nobody decides a request through ApprovalController.               *)

\* The endpoints of ApprovalController are not used.
NoDirectDecision == "direct" \notin Operations

\* The statements whose entry says nothing of what the call did before.
PlainSteps == Steps \ (DirectSteps \cup {"update.write", "approve.key",
                       "approve.reserve", "approve.write", "reject.write"})

\* How a call may reach the other statements.
Reaches(h) == \/ calls'[h] = calls[h]
              \/ calls'[h].at \in PlainSteps
              \/ \E a \in Documents, cap \in Caps : UpdateRead(h, a, cap)
              \/ ApproveAvailable(h) \/ ApproveKey(h) \/ ApproveDecide(h)
              \/ RejectDecide(h) \/ Direct(h)

LEMMA ReachesSteps ==
    ASSUME TypeOK, [Next]_vars, NEW h \in Handlers
    PROVE  Reaches(h)
<1> USE DEF PlainSteps, Steps, DirectSteps
<1>1. calls \in [Handlers -> Calls]
  BY DEF TypeOK
<1>2. CASE UNCHANGED calls
  BY <1>2 DEF Reaches
<1>3. ASSUME NEW k \in Handlers, calls' = [calls EXCEPT ![k] = calls'[k]],
             calls'[k].at \in PlainSteps
      PROVE  Reaches(h)
  <2>1. CASE h = k
    BY <1>3, <2>1 DEF Reaches
  <2>2. CASE h # k
    BY <1>1, <1>3, <2>2 DEF Reaches
  <2>3. QED
    BY <2>1, <2>2
<1>4. ASSUME NEW k \in Handlers, Return(k)
      PROVE  Reaches(h)
  <2>1. calls' = [calls EXCEPT ![k] = calls'[k]] /\ calls'[k] = Idle
    BY <1>1, <1>4 DEF Return
  <2>2. calls'[k].at = "idle"
    BY <2>1 DEF Idle
  <2>3. QED
    BY <1>3, <2>1, <2>2
<1>5. ASSUME NEW k \in Handlers, NEW step \in PlainSteps, Proceed(k, step)
      PROVE  Reaches(h)
  <2>1. calls' = [calls EXCEPT ![k] = calls'[k]] /\ calls'[k].at = step
    BY <1>1, <1>5 DEF Proceed, Calls
  <2>2. QED
    BY <1>3, <2>1
<1>6. ASSUME NEW k \in Handlers, NEW step \in PlainSteps, NEW e,
             calls' = [calls EXCEPT ![k].at = step, ![k].envelope = e]
      PROVE  Reaches(h)
  <2>1. /\ calls' = [calls EXCEPT ![k] = calls'[k]]
        /\ calls'[k] = [calls[k] EXCEPT !.at = step, !.envelope = e]
    BY <1>1, <1>6
  <2>2. calls'[k].at = step
    BY <1>1, <2>1 DEF Calls
  <2>3. QED
    BY <1>3, <2>1, <2>2
<1>7. ASSUME NEW k \in Handlers, Arrive(k)
      PROVE  Reaches(h)
  <2> DEFINE opened == /\ calls' = [calls EXCEPT ![k] = calls'[k]]
                       /\ calls'[k].at \in PlainSteps
  <2>1. ASSUME NEW a \in Documents, DeleteRead(k, a) \/ CancelRead(k, a)
        PROVE  opened
    BY <1>1, <2>1 DEF DeleteRead, CancelRead, Begin, Idle
  <2>2. ASSUME NEW a \in Documents, NEW cap \in Caps, UpdateRead(k, a, cap)
        PROVE  Reaches(h)
    <3>1. CASE h = k
      BY <2>2, <3>1 DEF Reaches
    <3>2. CASE h # k
      BY <1>1, <2>2, <3>2 DEF Reaches, UpdateRead, Begin
    <3>3. QED
      BY <3>1, <3>2
  <2>3. ASSUME NEW a \in Documents, NEW user \in Users,
               SubmitRead(k, a, user) \/ ApproveRead(k, a, user)
                 \/ RejectRead(k, a, user)
        PROVE  opened
    <3>1. CASE SubmitRead(k, a, user)
      BY <1>1, <3>1 DEF SubmitRead, Begin, Idle
    <3>2. CASE ApproveRead(k, a, user)
      BY <1>1, <3>2 DEF ApproveRead, Begin, Idle
    <3>3. CASE RejectRead(k, a, user)
      BY <1>1, <3>3 DEF RejectRead, Begin, Idle
    <3>4. QED
      BY <2>3, <3>1, <3>2, <3>3
  <2>4. QED
    BY <1>3, <1>7, <2>1, <2>2, <2>3 DEF Arrive
<1>8. ASSUME NEW k \in Handlers, Submit(k)
      PROVE  Reaches(h)
  <2>1. CASE SubmitInsert(k)
    <3>1. PICK n : calls' = [calls EXCEPT ![k].at = "submit.write",
                                          ![k].request = n]
      BY <2>1 DEF SubmitInsert
    <3>2. /\ calls' = [calls EXCEPT ![k] = calls'[k]]
          /\ calls'[k] = [calls[k] EXCEPT !.at = "submit.write", !.request = n]
      BY <1>1, <3>1
    <3>3. calls'[k].at = "submit.write"
      BY <1>1, <3>2 DEF Calls
    <3>4. QED
      BY <1>3, <3>2, <3>3
  <2>2. QED
    BY <1>4, <1>5, <1>8, <2>1 DEF Submit, SubmitLatest, SubmitWrite
<1>9. ASSUME NEW k \in Handlers, Approve(k)
       PROVE  Reaches(h)
  <2>1. CASE ApproveAvailable(k) \/ ApproveKey(k) \/ ApproveDecide(k)
    <3>1. CASE h = k
      BY <2>1, <3>1 DEF Reaches
    <3>2. CASE h # k
      BY <1>1, <2>1, <3>2
      DEF Reaches, ApproveAvailable, ApproveKey, ApproveDecide, Proceed, Return
    <3>3. QED
      BY <3>1, <3>2
  <2>2. CASE ApproveFind(k)
    BY <1>4, <1>6, <2>2 DEF ApproveFind
  <2>3. QED
    BY <1>4, <1>5, <1>9, <2>1, <2>2
    DEF Approve, ApproveLookup, ApproveReserve, ApproveReserveDuplicate,
        ApproveRequest, ApproveWrite
<1>10. ASSUME NEW k \in Handlers, Reject(k)
       PROVE  Reaches(h)
  <2>1. CASE RejectDecide(k)
    <3>1. CASE h = k
      BY <2>1, <3>1 DEF Reaches
    <3>2. CASE h # k
      BY <1>1, <2>1, <3>2 DEF Reaches, RejectDecide, Proceed
    <3>3. QED
      BY <3>1, <3>2
  <2>2. QED
    BY <1>4, <1>5, <1>10, <2>1 DEF Reject, RejectRequest, RejectWrite
<1>11. ASSUME NEW k \in Handlers, Cancel(k)
       PROVE  Reaches(h)
  <2>1. CASE CancelLookup(k)
    BY <1>5, <1>6, <2>1 DEF CancelLookup
  <2>2. QED
    BY <1>4, <1>5, <1>11, <2>1
    DEF Cancel, CancelKey, CancelRelease, CancelReleaseDuplicate, CancelWrite
<1>12. ASSUME NEW k \in Handlers, Direct(k)
       PROVE  Reaches(h)
  <2>1. CASE h = k
    BY <1>12, <2>1 DEF Reaches
  <2>2. CASE h # k
    BY <1>1, <1>12, <2>2
    DEF Reaches, Direct, DirectApproveRead, DirectRejectRead,
        DirectWithdrawRead, DirectRead, Begin, DirectApproveWrite,
        DirectRejectWrite, DirectWithdrawWrite, DirectWrite, Return
  <2>3. QED
    BY <2>1, <2>2
<1>13. ASSUME NEW k \in Handlers, UpdateWrite(k) \/ DeleteWrite(k) \/ Fail(k)
       PROVE  Reaches(h)
  BY <1>4, <1>13 DEF UpdateWrite, DeleteWrite, Fail
<1>14. QED
  BY <1>2, <1>7, <1>8, <1>9, <1>10, <1>11, <1>12, <1>13
  DEF Next, vars, Create, OpenEnvelope

\* No call decides a request directly, and every approved request is backed.
WorkflowDecides == /\ \A h \in Handlers : calls[h].at \notin DirectSteps
                   /\ ApprovedRequestIsReserved

LEMMA NoDirectStep ==
    ASSUME NoDirectDecision, Inv, WorkflowDecides, [Next]_vars,
           NEW h \in Handlers
    PROVE  calls'[h].at \notin DirectSteps /\ ~Direct(h)
<1>1. TypeOK /\ calls[h].at \notin DirectSteps
  BY DEF Inv, WorkflowDecides
<1>2. ~Direct(h)
  BY <1>1 DEF Direct, DirectApproveWrite, DirectRejectWrite,
              DirectWithdrawWrite, DirectWrite, At, DirectSteps,
              DirectApproveRead, DirectRejectRead, DirectWithdrawRead,
              DirectRead, Begin, NoDirectDecision
<1>3. CASE calls'[h] = calls[h] \/ calls'[h].at \in PlainSteps
  BY <1>1, <1>2, <1>3 DEF PlainSteps
<1>4. CASE \E a \in Documents, cap \in Caps : UpdateRead(h, a, cap)
  <2>1. calls'[h].at = "update.write"
    BY <1>1, <1>4 DEF UpdateRead, Begin, Idle, TypeOK
  <2>2. QED
    BY <1>2, <2>1 DEF DirectSteps
<1>5. CASE \/ ApproveAvailable(h) \/ ApproveKey(h) \/ ApproveDecide(h)
           \/ RejectDecide(h)
  <2>1. ASSUME NEW step \in Steps \ DirectSteps, Proceed(h, step)
        PROVE  calls'[h].at \notin DirectSteps
    BY <1>1, <2>1, Proceeds
  <2>2. ASSUME Return(h)
        PROVE  calls'[h].at \notin DirectSteps
    BY <1>1, <2>2 DEF Return, Idle, DirectSteps, TypeOK
  <2>3. QED
    BY <1>2, <1>5, <2>1, <2>2 DEF ApproveAvailable, ApproveKey, ApproveDecide,
       RejectDecide, Steps, DirectSteps
<1>6. QED
  BY <1>1, <1>2, <1>3, <1>4, <1>5, ReachesSteps DEF Reaches

\* The request a call decides is the one filed for its agreement, and a call
\* that approves has reserved, or has found the reservation of another call.
LEMMA WorkflowDecidesStep ==
    ASSUME NoDirectDecision, Inv, WorkflowDecides, [Next]_vars
    PROVE  WorkflowDecides'
<1>1. /\ requests \in Seq(Requests) /\ Len(requests) \in Nat
      /\ DOMAIN requests = 1..Len(requests)
  BY LenProperties DEF Inv, TypeOK, ApprovalTypeOK
<1>2. ASSUME NEW a, Reserved(a)
      PROVE  Reserved(a)'
  BY <1>2, TransactionsGrow DEF Reserved, FindBySource
<1>3. SUFFICES ASSUME NEW r \in DOMAIN requests',
                      requests'[r].status = "APPROVED"
               PROVE  Reserved(requests[r].entity)'
  BY NoDirectStep DEF WorkflowDecides, ApprovedRequestIsReserved
<1>4. ASSUME r \in DOMAIN requests, requests[r].status = "APPROVED"
      PROVE  Reserved(requests[r].entity)'
  BY <1>2, <1>4, RequestsGrow DEF WorkflowDecides, ApprovedRequestIsReserved
<1>5. ASSUME NEW h \in Handlers, SubmitInsert(h)
      PROVE  Reserved(requests[r].entity)'
  <2> DEFINE row == [entity |-> calls[h].agreement, requester |-> calls[h].user,
                     status |-> "PENDING", decidedBy |-> NoUser]
  <2>1. calls[h].agreement \in Documents /\ calls[h].user \in Users
    BY <1>5 DEF Inv, CallsInv, CallValid, SubmitInsert, At, UserSteps
  <2>2. row \in Requests /\ requests' = Append(requests, row)
    BY <1>5, <2>1 DEF SubmitInsert, InsertRequest, Requests, RequestStatuses
  <2>3. row.status # "APPROVED"
    OBVIOUS
  <2> HIDE DEF row
  <2>4. /\ DOMAIN requests' = 1..(Len(requests) + 1)
        /\ requests'[Len(requests) + 1] = row
        /\ \A q \in 1..Len(requests) : requests'[q] = requests[q]
    BY <1>1, <2>2, AppendProperties, LenProperties
  <2>5. r \in 1..Len(requests) /\ requests'[r] = requests[r]
    BY <1>1, <1>3, <2>3, <2>4
  <2>6. QED
    BY <1>1, <1>3, <1>4, <2>5
<1>6. ASSUME NEW h \in Handlers, NEW status,
             WriteDecision(calls[h].request, status, calls[h].user),
             Filed(calls[h].agreement, calls[h].request),
             status = "APPROVED" => Reserved(calls[h].agreement)
      PROVE  Reserved(requests[r].entity)'
  <2>1. r \in DOMAIN requests /\ requests[r] \in Requests
    BY <1>1, <1>3, <1>6, ElementOfSeq DEF WriteDecision
  <2>2. requests'[r].entity = requests[r].entity
    BY <2>1, RequestsGrow
  <2>3. CASE r = calls[h].request
    <3>1. requests'[r].status = status
      BY <1>1, <1>6, <2>1, <2>3 DEF WriteDecision, Requests
    <3>2. QED
      BY <1>2, <1>3, <1>6, <2>2, <2>3, <3>1 DEF Filed
  <2>4. CASE r # calls[h].request
    <3>1. requests'[r] = requests[r]
      BY <1>1, <1>6, <2>1, <2>4 DEF WriteDecision
    <3>2. QED
      BY <1>3, <1>4, <2>1, <3>1
  <2>5. QED
    BY <2>3, <2>4
<1>7. ASSUME NEW h \in Handlers, ApproveDecide(h)
      PROVE  Reserved(requests[r].entity)'
  BY <1>6, <1>7 DEF ApproveDecide, At, Inv, CallsInv, CallValid, CallBacked,
                    RequestSteps, ApproveSteps, ReservedSteps
<1>8. ASSUME NEW h \in Handlers, RejectDecide(h)
      PROVE  Reserved(requests[r].entity)'
  BY <1>6, <1>8 DEF RejectDecide, At, Inv, CallsInv, CallValid, RequestSteps,
                    RejectSteps
<1>9. \A h \in Handlers : /\ ~DirectApproveWrite(h) /\ ~DirectRejectWrite(h)
                          /\ ~DirectWithdrawWrite(h)
  BY NoDirectStep DEF Direct
<1>10. CASE UNCHANGED requests
  BY <1>3, <1>4, <1>10
<1>11. QED
  BY <1>5, <1>7, <1>8, <1>9, <1>10, RequestChanges

\* Without direct decisions the workflow takes all of them.
THEOREM DecidedByWorkflow ==
    ASSUME NoDirectDecision
    PROVE  Spec => []WorkflowDecides
<1>1. Init => WorkflowDecides
  BY DEF Init, Idle, ApprovalInit, WorkflowDecides, DirectSteps,
         ApprovedRequestIsReserved
<1>2. Inv /\ WorkflowDecides /\ [Next]_vars => WorkflowDecides'
  BY WorkflowDecidesStep
<1>3. QED
  BY <1>1, <1>2, Invariance, PTL DEF Spec

\* An approval request is marked approved only for an agreement that has its
\* reservation, however the calls of the workflow race and wherever they die.
THEOREM ApprovedRequestReserved ==
    ASSUME NoDirectDecision
    PROVE  Spec => []ApprovedRequestIsReserved
<1>1. WorkflowDecides => ApprovedRequestIsReserved
  BY DEF WorkflowDecides
<1>2. QED
  BY <1>1, DecidedByWorkflow, PTL

=============================================================================
