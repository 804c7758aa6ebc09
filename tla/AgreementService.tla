--------------------------- MODULE AgreementService ---------------------------
(***************************************************************************)
(* The agreement workflow of the actuals-first mode: AgreementService with *)
(* the ApprovalService and BudgetService calls its handlers make, and the  *)
(* three endpoints of ApprovalController that decide a request directly.   *)
(*                                                                         *)
(* A handler is one HTTP request.  It opens no transaction: every await is *)
(* a statement of its own, so a call is a record of what it has read and   *)
(* the next statement it will run, and any two calls interleave between    *)
(* statements.  A step `calls[h].at = "op.name"` means that the statement  *)
(* `name` of operation `op` comes next.                                    *)
(***************************************************************************)
EXTENDS BudgetService, ApprovalService

CONSTANTS Handlers,     \* requests in flight at one time
          Caps,         \* values a client may give for capTotalAmount
          NoDocument,   \* the agreement of an idle handler
          Operations,   \* the endpoints the clients of an instance use
          MaxRequests,  \* bound on the rows of approval_requests
          CallsFail     \* whether a call may die between two statements

ASSUME AgreementAssumption ==
    /\ NoDocument \notin Documents
    /\ Caps \subseteq Nat \ {0}
    /\ MaxRequests \in Nat
    /\ CallsFail \in BOOLEAN

VARIABLES agreements,   \* rows of the table agreements
          calls         \* handler -> the call it executes

vars == <<envelopes, transactions, ledger, requests, agreements, calls>>

\* ABSENT: no row yet.  No operation writes the statuses ACTIVE and CLOSED.
AgreementStatuses ==
    {"ABSENT", "DRAFT", "PENDING", "APPROVED", "REJECTED", "CANCELLED"}

Agreements == [status : AgreementStatuses, deleted : BOOLEAN, cap : Nat,
               request : Nat]

Steps == {"idle", "update.write", "delete.write",
          "submit.latest", "submit.insert", "submit.write",
          "approve.lookup", "approve.find", "approve.available", "approve.key",
          "approve.reserve", "approve.request", "approve.decide",
          "approve.write",
          "reject.request", "reject.decide", "reject.write",
          "cancel.lookup", "cancel.key", "cancel.release", "cancel.write",
          "direct.approve", "direct.reject", "direct.withdraw"}

Calls == [at : Steps, user : Users \cup {NoUser},
          agreement : Documents \cup {NoDocument}, request : Nat, cap : Nat,
          envelope : Envelopes \cup {NoEnvelope}]

Idle == [at |-> "idle", user |-> NoUser, agreement |-> NoDocument,
         request |-> NoRequest, cap |-> 0, envelope |-> NoEnvelope]

TypeOK == /\ BudgetTypeOK
          /\ ApprovalTypeOK
          /\ agreements \in [Documents -> Agreements]
          /\ calls \in [Handlers -> Calls]

Init == /\ BudgetInit
        /\ ApprovalInit
        /\ agreements = [a \in Documents |->
                           [status |-> "ABSENT", deleted |-> FALSE, cap |-> 0,
                            request |-> NoRequest]]
        /\ calls = [h \in Handlers |-> Idle]

-----------------------------------------------------------------------------
(* How calls move.                                                         *)

\* findById finds the row: soft-deleted rows are filtered out.
Found(a, status) == /\ agreements[a].status = status
                    /\ ~agreements[a].deleted

\* An idle handler takes a call and its first statement lets it go on.
Begin(h, op, call) == /\ op \in Operations
                      /\ calls[h] = Idle
                      /\ calls' = [calls EXCEPT ![h] = call]

At(h, step) == calls[h].at = step

Proceed(h, step) == calls' = [calls EXCEPT ![h].at = step]

\* The call answers its client, with a result or with an exception.
Return(h) == calls' = [calls EXCEPT ![h] = Idle]

SetStatus(h, status) ==
    agreements' = [agreements EXCEPT ![calls[h].agreement].status = status]

-----------------------------------------------------------------------------
(* create, update, delete.                                                 *)

Create(a, cap) ==
    /\ "create" \in Operations
    /\ agreements[a].status = "ABSENT"
    /\ agreements' = [agreements EXCEPT ![a].status = "DRAFT", ![a].cap = cap]
    /\ UNCHANGED <<envelopes, transactions, ledger, requests, calls>>

\* Mutant: the status of the agreement is not checked.
UpdateReadAnyStatus(h, a, cap) ==
    /\ agreements[a].status # "ABSENT"
    /\ Begin(h, "update", [Idle EXCEPT !.at = "update.write", !.agreement = a,
                                       !.cap = cap])
    /\ UNCHANGED <<envelopes, transactions, ledger, requests, agreements>>

UpdateRead(h, a, cap) ==
    /\ Found(a, "DRAFT")
    /\ Begin(h, "update", [Idle EXCEPT !.at = "update.write", !.agreement = a,
                                       !.cap = cap])
    /\ UNCHANGED <<envelopes, transactions, ledger, requests, agreements>>

UpdateWrite(h) ==
    /\ At(h, "update.write")
    /\ agreements' =
         [agreements EXCEPT ![calls[h].agreement].cap = calls[h].cap]
    /\ Return(h)
    /\ UNCHANGED <<envelopes, transactions, ledger, requests>>

DeleteRead(h, a) ==
    /\ Found(a, "DRAFT")
    /\ Begin(h, "delete", [Idle EXCEPT !.at = "delete.write", !.agreement = a])
    /\ UNCHANGED <<envelopes, transactions, ledger, requests, agreements>>

DeleteWrite(h) ==
    /\ At(h, "delete.write")
    /\ agreements' = [agreements EXCEPT ![calls[h].agreement].deleted = TRUE]
    /\ Return(h)
    /\ UNCHANGED <<envelopes, transactions, ledger, requests>>

-----------------------------------------------------------------------------
(* submit: createRequest, then the status and the request id.              *)

SubmitRead(h, a, user) ==
    /\ Found(a, "DRAFT")
    /\ Begin(h, "submit", [Idle EXCEPT !.at = "submit.latest", !.user = user,
                                       !.agreement = a])
    /\ UNCHANGED <<envelopes, transactions, ledger, requests, agreements>>

SubmitLatest(h) ==
    /\ At(h, "submit.latest")
    /\ IF HasPendingRequest(calls[h].agreement)
         THEN Return(h)
         ELSE Proceed(h, "submit.insert")
    /\ UNCHANGED <<envelopes, transactions, ledger, requests, agreements>>

SubmitInsert(h) ==
    /\ At(h, "submit.insert")
    /\ Len(requests) < MaxRequests
    /\ InsertRequest(calls[h].agreement, calls[h].user)
    /\ calls' = [calls EXCEPT ![h].at = "submit.write",
                              ![h].request = Len(requests) + 1]
    /\ UNCHANGED <<envelopes, transactions, ledger, agreements>>

\* Mutant: the id of the request is not stored.
SubmitWriteStatusOnly(h) ==
    /\ At(h, "submit.write")
    /\ SetStatus(h, "PENDING")
    /\ Return(h)
    /\ UNCHANGED <<envelopes, transactions, ledger, requests>>

SubmitWrite(h) ==
    /\ At(h, "submit.write")
    /\ agreements' =
         [agreements EXCEPT ![calls[h].agreement].status = "PENDING",
                            ![calls[h].agreement].request = calls[h].request]
    /\ Return(h)
    /\ UNCHANGED <<envelopes, transactions, ledger, requests>>

-----------------------------------------------------------------------------
(* approve: reserveForAgreement, then the request, then the agreement.     *)

ApproveRead(h, a, user) ==
    /\ Found(a, "PENDING")
    /\ agreements[a].request # NoRequest
    /\ Begin(h, "approve", [Idle EXCEPT !.at = "approve.lookup", !.user = user,
                                        !.agreement = a,
                                        !.request = agreements[a].request,
                                        !.cap = agreements[a].cap])
    /\ UNCHANGED <<envelopes, transactions, ledger, requests, agreements>>

\* Mutant: the key names the envelope, as the key of a release does.
ReserveKeyPerEnvelope(h) ==
    Key("RESERVE", calls[h].agreement, calls[h].envelope)

\* The idempotency key of reserveForAgreement names no envelope.
ReserveKey(h) == Key("RESERVE", calls[h].agreement, NoEnvelope)

ApproveLookup(h) ==
    /\ At(h, "approve.lookup")
    /\ IF FindBySource("RESERVE", calls[h].agreement) # {}
         THEN Proceed(h, "approve.request")
         ELSE Proceed(h, "approve.find")
    /\ UNCHANGED <<envelopes, transactions, ledger, requests, agreements>>

\* Mutant: an agreement without an envelope is approved all the same.
ApproveFindOptional(h) ==
    /\ At(h, "approve.find")
    /\ IF FindEnvelopeByDimensions = NoEnvelope
         THEN Proceed(h, "approve.request")
         ELSE calls' = [calls EXCEPT ![h].at = "approve.available",
                                     ![h].envelope = FindEnvelopeByDimensions]
    /\ UNCHANGED <<envelopes, transactions, ledger, requests, agreements>>

ApproveFind(h) ==
    /\ At(h, "approve.find")
    /\ IF FindEnvelopeByDimensions = NoEnvelope
         THEN Return(h)
         ELSE calls' = [calls EXCEPT ![h].at = "approve.available",
                                     ![h].envelope = FindEnvelopeByDimensions]
    /\ UNCHANGED <<envelopes, transactions, ledger, requests, agreements>>

ApproveAvailable(h) ==
    /\ At(h, "approve.available")
    /\ IF SufficientForText(calls[h].envelope, calls[h].cap)
         THEN Proceed(h, "approve.key")
         ELSE Return(h)
    /\ UNCHANGED <<envelopes, transactions, ledger, requests, agreements>>

ApproveKey(h) ==
    /\ At(h, "approve.key")
    /\ IF KeyIsFree(ReserveKey(h))
         THEN Proceed(h, "approve.reserve")
         ELSE Proceed(h, "approve.request")
    /\ UNCHANGED <<envelopes, transactions, ledger, requests, agreements>>

ApproveReserve(h) ==
    /\ At(h, "approve.reserve")
    /\ PostTransaction("RESERVE", calls[h].agreement, calls[h].envelope,
                       calls[h].cap, ReserveKey(h))
    /\ Proceed(h, "approve.request")
    /\ UNCHANGED <<requests, agreements>>

\* The unique index refuses the row: "Budget reservation failed".
ApproveReserveDuplicate(h) ==
    /\ At(h, "approve.reserve")
    /\ ~KeyIsFree(ReserveKey(h))
    /\ Return(h)
    /\ UNCHANGED <<envelopes, transactions, ledger, requests, agreements>>

\* Mutant: the request is read and never decided.
ApproveRequestUndecided(h) ==
    /\ At(h, "approve.request")
    /\ IF MayDecide(calls[h].request, calls[h].user)
         THEN Proceed(h, "approve.write")
         ELSE Return(h)
    /\ UNCHANGED <<envelopes, transactions, ledger, requests, agreements>>

ApproveRequest(h) ==
    /\ At(h, "approve.request")
    /\ IF MayDecide(calls[h].request, calls[h].user)
         THEN Proceed(h, "approve.decide")
         ELSE Return(h)
    /\ UNCHANGED <<envelopes, transactions, ledger, requests, agreements>>

ApproveDecide(h) ==
    /\ At(h, "approve.decide")
    /\ WriteDecision(calls[h].request, "APPROVED", calls[h].user)
    /\ Proceed(h, "approve.write")
    /\ UNCHANGED <<envelopes, transactions, ledger, agreements>>

ApproveWrite(h) ==
    /\ At(h, "approve.write")
    /\ SetStatus(h, "APPROVED")
    /\ Return(h)
    /\ UNCHANGED <<envelopes, transactions, ledger, requests>>

-----------------------------------------------------------------------------
(* reject: the request, then the agreement; the budget is not touched.     *)

RejectRead(h, a, user) ==
    /\ Found(a, "PENDING")
    /\ agreements[a].request # NoRequest
    /\ Begin(h, "reject", [Idle EXCEPT !.at = "reject.request", !.user = user,
                                       !.agreement = a,
                                       !.request = agreements[a].request])
    /\ UNCHANGED <<envelopes, transactions, ledger, requests, agreements>>

RejectRequest(h) ==
    /\ At(h, "reject.request")
    /\ IF MayDecide(calls[h].request, calls[h].user)
         THEN Proceed(h, "reject.decide")
         ELSE Return(h)
    /\ UNCHANGED <<envelopes, transactions, ledger, requests, agreements>>

RejectDecide(h) ==
    /\ At(h, "reject.decide")
    /\ WriteDecision(calls[h].request, "REJECTED", calls[h].user)
    /\ Proceed(h, "reject.write")
    /\ UNCHANGED <<envelopes, transactions, ledger, agreements>>

RejectWrite(h) ==
    /\ At(h, "reject.write")
    /\ SetStatus(h, "REJECTED")
    /\ Return(h)
    /\ UNCHANGED <<envelopes, transactions, ledger, requests>>

-----------------------------------------------------------------------------
(* cancel: release what the newest RESERVE holds, then the agreement.      *)

\* Mutant: the status of the agreement is not checked.
CancelReadAnyStatus(h, a) ==
    /\ agreements[a].status # "ABSENT"
    /\ Begin(h, "cancel", [Idle EXCEPT !.at = "cancel.lookup", !.agreement = a,
                                       !.cap = agreements[a].cap])
    /\ UNCHANGED <<envelopes, transactions, ledger, requests, agreements>>

CancelRead(h, a) ==
    /\ Found(a, "APPROVED")
    /\ Begin(h, "cancel", [Idle EXCEPT !.at = "cancel.lookup", !.agreement = a,
                                       !.cap = agreements[a].cap])
    /\ UNCHANGED <<envelopes, transactions, ledger, requests, agreements>>

\* Mutant: the envelope is looked up by dimensions once more.
CancelLookupByDimensions(h) ==
    /\ At(h, "cancel.lookup")
    /\ IF FindEnvelopeByDimensions = NoEnvelope
         THEN Proceed(h, "cancel.write")
         ELSE calls' = [calls EXCEPT ![h].at = "cancel.key",
                                     ![h].envelope = FindEnvelopeByDimensions]
    /\ UNCHANGED <<envelopes, transactions, ledger, requests, agreements>>

CancelLookup(h) ==
    LET reserves == FindBySource("RESERVE", calls[h].agreement)
    IN  /\ At(h, "cancel.lookup")
        /\ IF reserves = {}
             THEN Proceed(h, "cancel.write")
             ELSE calls' = [calls EXCEPT
                              ![h].at = "cancel.key",
                              ![h].envelope =
                                transactions[Newest(reserves)].envelope]
        /\ UNCHANGED <<envelopes, transactions, ledger, requests, agreements>>

ReleaseKey(h) == Key("RELEASE", calls[h].agreement, calls[h].envelope)

\* Mutant: the duplicate check finds the reservation itself.
CancelKeyOfReserve(h) ==
    /\ At(h, "cancel.key")
    /\ IF FindBySource("RESERVE", calls[h].agreement) = {}
         THEN Proceed(h, "cancel.release")
         ELSE Proceed(h, "cancel.write")
    /\ UNCHANGED <<envelopes, transactions, ledger, requests, agreements>>

CancelKey(h) ==
    /\ At(h, "cancel.key")
    /\ IF KeyIsFree(ReleaseKey(h))
         THEN Proceed(h, "cancel.release")
         ELSE Proceed(h, "cancel.write")
    /\ UNCHANGED <<envelopes, transactions, ledger, requests, agreements>>

\* Mutant: a release is booked as a negative amount.
CancelReleaseNegative(h) ==
    /\ At(h, "cancel.release")
    /\ PostTransaction("RELEASE", calls[h].agreement, calls[h].envelope,
                       -calls[h].cap, ReleaseKey(h))
    /\ Proceed(h, "cancel.write")
    /\ UNCHANGED <<requests, agreements>>

CancelRelease(h) ==
    /\ At(h, "cancel.release")
    /\ PostTransaction("RELEASE", calls[h].agreement, calls[h].envelope,
                       calls[h].cap, ReleaseKey(h))
    /\ Proceed(h, "cancel.write")
    /\ UNCHANGED <<requests, agreements>>

\* The unique index refuses the row: "Budget release failed".
CancelReleaseDuplicate(h) ==
    /\ At(h, "cancel.release")
    /\ ~KeyIsFree(ReleaseKey(h))
    /\ Return(h)
    /\ UNCHANGED <<envelopes, transactions, ledger, requests, agreements>>

CancelWrite(h) ==
    /\ At(h, "cancel.write")
    /\ SetStatus(h, "CANCELLED")
    /\ Return(h)
    /\ UNCHANGED <<envelopes, transactions, ledger, requests>>

-----------------------------------------------------------------------------
(* ApprovalController: a request decided without its agreement.            *)

DirectRead(h, r, user, step) ==
    /\ Begin(h, "direct", [Idle EXCEPT !.at = step, !.user = user,
                                       !.agreement = requests[r].entity,
                                       !.request = r])
    /\ UNCHANGED <<envelopes, transactions, ledger, requests, agreements>>

DirectApproveRead(h, r, user) ==
    MayDecide(r, user) /\ DirectRead(h, r, user, "direct.approve")

DirectRejectRead(h, r, user) ==
    MayDecide(r, user) /\ DirectRead(h, r, user, "direct.reject")

DirectWithdrawRead(h, r, user) ==
    MayWithdraw(r, user) /\ DirectRead(h, r, user, "direct.withdraw")

DirectWrite(h, step, status) ==
    /\ At(h, step)
    /\ WriteDecision(calls[h].request, status, calls[h].user)
    /\ Return(h)
    /\ UNCHANGED <<envelopes, transactions, ledger, agreements>>

DirectApproveWrite(h) == DirectWrite(h, "direct.approve", "APPROVED")
DirectRejectWrite(h) == DirectWrite(h, "direct.reject", "REJECTED")
DirectWithdrawWrite(h) == DirectWrite(h, "direct.withdraw", "CANCELLED")

-----------------------------------------------------------------------------
(* The environment.                                                        *)

OpenEnvelope(e) == /\ "envelope" \in Operations
                   /\ CreateEnvelope(e)
                   /\ UNCHANGED <<requests, agreements, calls>>

\* A statement throws or the process dies: nothing is rolled back.
Fail(h) == /\ CallsFail
           /\ calls[h] # Idle
           /\ Return(h)
           /\ UNCHANGED <<envelopes, transactions, ledger, requests, agreements>>

Approve(h) == \/ ApproveLookup(h) \/ ApproveFind(h) \/ ApproveAvailable(h)
              \/ ApproveKey(h) \/ ApproveReserve(h) \/ ApproveReserveDuplicate(h)
              \/ ApproveRequest(h) \/ ApproveDecide(h) \/ ApproveWrite(h)

Reject(h) == RejectRequest(h) \/ RejectDecide(h) \/ RejectWrite(h)

Cancel(h) == \/ CancelLookup(h) \/ CancelKey(h) \/ CancelRelease(h)
             \/ CancelReleaseDuplicate(h) \/ CancelWrite(h)

Submit(h) == SubmitLatest(h) \/ SubmitInsert(h) \/ SubmitWrite(h)

Direct(h) ==
    \/ DirectApproveWrite(h) \/ DirectRejectWrite(h) \/ DirectWithdrawWrite(h)
    \/ \E r \in DOMAIN requests, user \in Users :
         \/ DirectApproveRead(h, r, user)
         \/ DirectRejectRead(h, r, user)
         \/ DirectWithdrawRead(h, r, user)

Arrive(h) ==
    \E a \in Documents :
        \/ DeleteRead(h, a) \/ CancelRead(h, a)
        \/ \E cap \in Caps : UpdateRead(h, a, cap)
        \/ \E user \in Users : \/ SubmitRead(h, a, user)
                               \/ ApproveRead(h, a, user)
                               \/ RejectRead(h, a, user)

Next == \/ \E a \in Documents, cap \in Caps : Create(a, cap)
        \/ \E e \in Envelopes : OpenEnvelope(e)
        \/ \E h \in Handlers : \/ Arrive(h) \/ UpdateWrite(h) \/ DeleteWrite(h)
                               \/ Submit(h) \/ Approve(h) \/ Reject(h)
                               \/ Cancel(h) \/ Direct(h) \/ Fail(h)

Spec == Init /\ [][Next]_vars

-----------------------------------------------------------------------------
(* What holds however the calls interleave and wherever they die.          *)

Reserved(a) == FindBySource("RESERVE", a) # {}
Released(a) == FindBySource("RELEASE", a) # {}

\* An agreement reserves budget at most once and releases it at most once,
\* though no call locks anything and two calls may find different envelopes:
\* the idempotency keys of reserveForAgreement and releaseForAgreement.
OneReservation ==
    \A type \in TxTypes : \A i, j \in DOMAIN transactions :
        /\ transactions[i].type = type /\ transactions[j].type = type
        /\ transactions[i].source = transactions[j].source
        => i = j

\* A release frees the envelope the same agreement reserved before, also when
\* a newer envelope has become the match of its dimensions (cancel).
ReleaseBacked ==
    \A i \in DOMAIN transactions : transactions[i].type = "RELEASE" =>
        \E j \in 1..(i - 1) :
            /\ transactions[j].type = "RESERVE"
            /\ transactions[j].source = transactions[i].source
            /\ transactions[j].envelope = transactions[i].envelope

\* No agreement is approved without a reservation, whichever stale call wrote
\* its status (approve reserves before it decides).
ApprovedIsReserved ==
    \A a \in Documents :
        agreements[a].status \in {"APPROVED", "CANCELLED"} => Reserved(a)

\* A cancelled agreement has released its budget (cancel releases first).
CancelledIsReleased ==
    \A a \in Documents : agreements[a].status = "CANCELLED" => Released(a)

\* Nobody decides a request of their own and nobody withdraws another's, even
\* when a stale call overwrites the decision of another (EA-001).
NoSelfDecision ==
    \A r \in DOMAIN requests :
        LET request == requests[r]
        IN  /\ request.status \in {"APPROVED", "REJECTED"} =>
                   request.decidedBy \notin {request.requester, NoUser}
            /\ request.status = "CANCELLED" =>
                   request.decidedBy = request.requester

\* An agreement out of DRAFT names a request that was filed for it: the
\* comment of approve, "PENDING agreements should always have
\* approvalRequestId from submit() flow".
RequestOnFile ==
    \A a \in Documents :
        agreements[a].status \notin {"ABSENT", "DRAFT"} =>
            /\ agreements[a].request \in DOMAIN requests
            /\ requests[agreements[a].request].entity = a

-----------------------------------------------------------------------------
(* What holds when calls that work on one agreement do not overlap (Apart  *)
(* and TestsApart, below), wherever they die.                              *)

\* The lifecycle of an agreement: each step of its status is one of these.
LifecycleMoves ==
    [][\A a \in Documents :
         agreements'[a].status # agreements[a].status =>
           <<agreements[a].status, agreements'[a].status>> \in
             {<<"ABSENT", "DRAFT">>, <<"DRAFT", "PENDING">>,
              <<"PENDING", "APPROVED">>, <<"PENDING", "REJECTED">>,
              <<"APPROVED", "CANCELLED">>}]_vars

\* What cancel releases is what approve reserved: cancel takes the amount
\* from the agreement and not from the reservation, which is right as long as
\* the cap cannot change after the agreement has left DRAFT.
ReleaseEqualsReserve ==
    \A i, j \in DOMAIN transactions :
        /\ transactions[i].type = "RESERVE" /\ transactions[j].type = "RELEASE"
        /\ transactions[i].source = transactions[j].source
        => transactions[i].amount = transactions[j].amount

\* The agreement and its request tell the same story: a decided agreement has
\* a request decided alike, and a draft has none that is decided.
StatusMatchesRequest ==
    \A a \in Documents :
        LET status == agreements[a].status
            request == agreements[a].request
        IN  /\ status \in {"APPROVED", "CANCELLED"} =>
                   requests[request].status = "APPROVED"
            /\ status = "REJECTED" => requests[request].status = "REJECTED"
            /\ status \in {"ABSENT", "DRAFT"} =>
                   \A r \in DOMAIN requests :
                       requests[r].entity = a => requests[r].status = "PENDING"

\* The comment of approve: "ensures approval request is only marked approved
\* if budget reservation succeeded".  It is the workflow's, not the request's:
\* it needs that nobody decides through ApprovalController.
ApprovedRequestIsReserved ==
    \A r \in DOMAIN requests :
        requests[r].status = "APPROVED" => Reserved(requests[r].entity)

\* Sprint_0_Mandatory_Items, MC-001: "Zero overcommitment (critical!)".
NoOvercommitment == \A e \in Envelopes : ReservedAmount(e) <= Allocated[e]

\* Glossary, Section_12: "Reserved: Amount locked by approved Actuals-First
\* agreements".
\* Once no call is under way, a rejected agreement holds no budget.
RejectedHoldsNothing ==
    (\A h \in Handlers : calls[h] = Idle) =>
        \A a \in Documents :
            Reserved(a) /\ ~Released(a) => agreements[a].status # "REJECTED"

-----------------------------------------------------------------------------
(* The promise of the budget to the workflow.                              *)

Phase == [a \in Documents |-> IF Released(a) THEN "freed"
                              ELSE IF Reserved(a) THEN "held" ELSE "none"]

HeldFrom == [a \in Documents |->
               IF Reserved(a)
                 THEN transactions[Newest(FindBySource("RESERVE", a))].envelope
                 ELSE NoEnvelope]

Promise == INSTANCE Reservation WITH phase <- Phase, from <- HeldFrom

\* The rows of budget_transactions, appended by calls that race and die,
\* implement the reservation a client of BudgetService believes in.
ImplementsReservation == Promise!Spec

-----------------------------------------------------------------------------
(* The inductive invariant behind the properties that survive concurrency: *)
(* what a call in flight may rely on, in every state between its steps.    *)

ReservedSteps == {"approve.request", "approve.decide", "approve.write"}
CancelSteps == {"cancel.lookup", "cancel.key", "cancel.release", "cancel.write"}
EnvelopeSteps == {"approve.available", "approve.key", "approve.reserve",
                  "cancel.key", "cancel.release"}
ApproveSteps == {"approve.lookup", "approve.find", "approve.available",
                 "approve.key", "approve.reserve"} \cup ReservedSteps
RejectSteps == {"reject.request", "reject.decide", "reject.write"}
DirectSteps == {"direct.approve", "direct.reject", "direct.withdraw"}
RequestSteps == ApproveSteps \cup RejectSteps \cup DirectSteps
                  \cup {"submit.write"}
UserSteps == RequestSteps \cup {"submit.latest", "submit.insert"}

Filed(a, r) == r \in DOMAIN requests /\ requests[r].entity = a

ReservedOn(a, e) == \E i \in DOMAIN transactions :
                        /\ transactions[i].type = "RESERVE"
                        /\ transactions[i].source = a
                        /\ transactions[i].envelope = e

\* What a call has read is of the right kind.
CallValid(h) ==
    LET call == calls[h]
    IN  /\ call.at # "idle" => call.agreement \in Documents
        /\ call.at \in UserSteps => call.user \in Users
        /\ call.at \in EnvelopeSteps => call.envelope \in Envelopes
        /\ call.at \in RequestSteps => Filed(call.agreement, call.request)

\* What a call did, or read and nothing undoes, is still there.
CallBacked(h) ==
    LET call == calls[h]
    IN  /\ call.at \in ReservedSteps \cup CancelSteps => Reserved(call.agreement)
        /\ call.at \in {"cancel.key", "cancel.release"} =>
               ReservedOn(call.agreement, call.envelope)
        /\ call.at = "cancel.write" => Released(call.agreement)
        /\ call.at \in ApproveSteps \cup RejectSteps \cup CancelSteps =>
               agreements[call.agreement].request # NoRequest

\* The user of a call that decides a request may still decide it.
CallEntitled(h) ==
    LET call == calls[h]
        requester == requests[call.request].requester
    IN  /\ call.at \in {"approve.decide", "reject.decide", "direct.approve",
                        "direct.reject"} => call.user # requester
        /\ call.at = "direct.withdraw" => call.user = requester

CallsInv == \A h \in Handlers : CallValid(h) /\ CallBacked(h) /\ CallEntitled(h)

\* A row of the table and its idempotency key determine each other.
KeysInv ==
    /\ \A i \in DOMAIN transactions :
          LET row == transactions[i]
          IN  /\ row.type \in {"RESERVE", "RELEASE"}
              /\ row.key = Key(row.type, row.source,
                               IF row.type = "RESERVE" THEN NoEnvelope
                                                       ELSE row.envelope)
    /\ \A i, j \in DOMAIN transactions :
          transactions[i].key = transactions[j].key => i = j

RequestsInv ==
    \A a \in Documents :
        /\ agreements[a].request # NoRequest => Filed(a, agreements[a].request)
        /\ agreements[a].status \notin {"ABSENT", "DRAFT"} =>
               agreements[a].request # NoRequest

Inv == /\ TypeOK
       /\ CallsInv
       /\ KeysInv
       /\ RequestsInv
       /\ ReleaseBacked
       /\ ApprovedIsReserved
       /\ CancelledIsReleased
       /\ NoSelfDecision

-----------------------------------------------------------------------------
(* Calls that keep apart.  No code makes them: these are the conditions    *)
(* under which the second group of properties holds.                       *)

DraftSteps == {"update.write", "submit.latest", "submit.insert", "submit.write"}

\* The steps of a call that has read its agreement and relies on what it read;
\* a deletion and a decision outside the workflow rely on nothing.
RelyingSteps == DraftSteps \cup ApproveSteps \cup RejectSteps \cup CancelSteps

\* No two calls rely on the same agreement: a lock per agreement.
Apart ==
    \A g, h \in Handlers :
        /\ calls[g].at \in RelyingSteps /\ calls[h].at \in RelyingSteps
        /\ calls[g].agreement = calls[h].agreement
        => g = h

TestedSteps == {"approve.key", "approve.reserve"}

\* No two calls have found the same envelope sufficient and not yet reserved:
\* a lock per envelope, from the availability test to the reservation.
TestsApart ==
    \A g, h \in Handlers :
        /\ calls[g].at \in TestedSteps /\ calls[h].at \in TestedSteps
        /\ calls[g].envelope = calls[h].envelope
        => g = h

=============================================================================
