----------------------------- MODULE PlanWorkflow -----------------------------
(***************************************************************************)
(* The plan workflow of the planning-first mode.  Two services drive one   *)
(* status: PlanService (submit, approve, reject, delete) and               *)
(* ApprovalWorkflowService (submitForApproval, reviewPlan,                 *)
(* escalateToFinance), both exposed by PlanController.  The first commits  *)
(* budget when a plan is approved, the second when it is submitted.        *)
(*                                                                         *)
(* As in AgreementService, a handler is one HTTP request, every await is a *)
(* statement of its own and calls interleave between statements.  The      *)
(* statements several operations share (steps reserve, release, request)   *)
(* are modelled once; `op` tells where a call goes on from there.          *)
(* Descriptive columns and plan_approval_history, which no operation reads *)
(* back, are left out.                                                     *)
(***************************************************************************)
EXTENDS BudgetService, ApprovalService

CONSTANTS Handlers,     \* requests in flight at one time
          Edits,        \* values the contents of a plan may take
          NoDocument,   \* the plan of an idle handler
          PlanEnvelope, \* the envelope whose code autoCreateBudget uses
          Operations,   \* the endpoints the clients of an instance use
          MaxRequests,  \* bound on the rows of approval_requests
          CallsFail     \* whether a call may die between two statements

\* The contents of a plan: whether it has forecasting units, all with tactics
\* or some bare, and the on-invoice and off-invoice spend of the tactics.
Contents == [fus : {"none", "bare", "tactics"}, on : Nat, off : Nat]

Empty == [fus |-> "none", on |-> 0, off |-> 0]

ASSUME PlanAssumption ==
    /\ NoDocument \notin Documents
    /\ Edits \subseteq Contents
    /\ \A edit \in Edits : edit.fus = "none" => edit = Empty
    /\ PlanEnvelope \in Envelopes
    /\ MaxRequests \in Nat
    /\ CallsFail \in BOOLEAN

VARIABLES plans,        \* rows of the table plans
          calls         \* handler -> the call it executes

vars == <<envelopes, transactions, ledger, requests, plans, calls>>

PlanStatuses == {"ABSENT", "DRAFT", "PENDING_APPROVAL",
                 "PENDING_FINANCE_REVIEW", "APPROVED", "REJECTED"}

\* totalSpend is what the last recalculation stored; onInvoiceSpend and
\* offInvoiceSpend are what the last submitForApproval stored.
Plans == [status : PlanStatuses, deleted : BOOLEAN, request : Nat,
          submittedBy : Users \cup {NoUser}, contents : Contents,
          totalSpend : Nat, onInvoiceSpend : Nat, offInvoiceSpend : Nat]

Approvals == {"approve", "reviewApprove"}
Rejections == {"reject", "reviewReject"}
Submissions == {"submit", "submitForApproval"}
Ops == Approvals \cup Rejections \cup Submissions
         \cup {"none", "edit", "delete", "reviewChanges", "escalate", "direct"}

Steps == {"idle", "edit.write", "edit.recalculate", "edit.total",
          "submit.find", "submit.status", "submit.check", "submit.latest",
          "submit.insert", "submit.write", "submit.reread", "submit.rollback",
          "approve.find", "approve.create",
          "reserve.lookup", "reserve.find", "reserve.available",
          "reserve.insert", "release.lookup", "release.check",
          "release.insert", "request.read", "request.write", "status.write",
          "escalate.read", "escalate.write", "delete.write",
          "direct.approve", "direct.reject", "direct.withdraw"}

\* due: the amounts reserveForPlan is still to be called with; commits: the
\* rows releaseForPlan has still to look at.
Calls == [op : Ops, at : Steps, user : Users \cup {NoUser},
          plan : Documents \cup {NoDocument}, request : Nat,
          contents : Contents, due : Seq(Nat), commits : SUBSET Nat,
          envelope : Envelopes \cup {NoEnvelope}]

Idle == [op |-> "none", at |-> "idle", user |-> NoUser, plan |-> NoDocument,
         request |-> NoRequest, contents |-> Empty, due |-> <<>>,
         commits |-> {}, envelope |-> NoEnvelope]

TypeOK == /\ BudgetTypeOK
          /\ ApprovalTypeOK
          /\ plans \in [Documents -> Plans]
          /\ calls \in [Handlers -> Calls]

Init == /\ BudgetInit
        /\ ApprovalInit
        /\ plans = [p \in Documents |->
                      [status |-> "ABSENT", deleted |-> FALSE,
                       request |-> NoRequest, submittedBy |-> NoUser,
                       contents |-> Empty, totalSpend |-> 0,
                       onInvoiceSpend |-> 0, offInvoiceSpend |-> 0]]
        /\ calls = [h \in Handlers |-> Idle]

-----------------------------------------------------------------------------
(* How calls move.                                                         *)

\* findById finds the row in one of the statuses; deleted rows are hidden.
Found(p, statuses) == plans[p].status \in statuses /\ ~plans[p].deleted

\* An idle handler takes a call and its first statement lets it go on.
Begin(h, call) == /\ call.op \in Operations
                  /\ calls[h] = Idle
                  /\ calls' = [calls EXCEPT ![h] = call]
                  /\ UNCHANGED <<envelopes, transactions, ledger, requests,
                                 plans>>

At(h, step) == calls[h].at = step

Proceed(h, step) == calls' = [calls EXCEPT ![h].at = step]

\* ... and what it read of budgets and contents is not used again.
Forget(h, step) == calls' = [calls EXCEPT ![h] =
                               [@ EXCEPT !.at = step, !.contents = Empty,
                                         !.due = <<>>, !.commits = {},
                                         !.envelope = NoEnvelope]]

\* The call answers its client, with a result or with an exception.
Return(h) == calls' = [calls EXCEPT ![h] = Idle]

\* A statement that only reads.
Reads == UNCHANGED <<envelopes, transactions, ledger, requests, plans>>

\* A statement that only writes the row of a plan.
WritesPlan == UNCHANGED <<envelopes, transactions, ledger, requests>>

SetStatus(h, status) == plans' = [plans EXCEPT ![calls[h].plan].status = status]

-----------------------------------------------------------------------------
(* create, the editing endpoints, recalculate.                             *)

Create(p) == /\ "create" \in Operations
             /\ plans[p].status = "ABSENT"
             /\ plans' = [plans EXCEPT ![p].status = "DRAFT"]
             /\ UNCHANGED calls
             /\ WritesPlan

\* addFu, updateFuTactic, updateSkuVolume and removeFu.
EditRead(h, p, contents) ==
    /\ Found(p, {"DRAFT"})
    /\ Begin(h, [Idle EXCEPT !.op = "edit", !.at = "edit.write", !.plan = p,
                             !.contents = contents])

EditWrite(h) ==
    /\ At(h, "edit.write")
    /\ plans' = [plans EXCEPT ![calls[h].plan].contents = calls[h].contents]
    /\ Forget(h, "edit.recalculate")
    /\ WritesPlan

\* recalculatePlanWithKpiEngine as an endpoint of its own: in any status.
Recalculate(h, p) ==
    /\ Found(p, PlanStatuses \ {"ABSENT"})
    /\ Begin(h, [Idle EXCEPT !.op = "edit", !.at = "edit.recalculate",
                             !.plan = p])

RecalculateRead(h) ==
    /\ At(h, "edit.recalculate")
    /\ IF plans[calls[h].plan].deleted \/ plans[calls[h].plan].contents.fus = "none"
         THEN Return(h)
         ELSE calls' = [calls EXCEPT
                          ![h].at = "edit.total",
                          ![h].contents = plans[calls[h].plan].contents]
    /\ Reads

Spend(contents) == contents.on + contents.off

RecalculateWrite(h) ==
    /\ At(h, "edit.total")
    /\ plans' = [plans EXCEPT
                   ![calls[h].plan].totalSpend = Spend(calls[h].contents)]
    /\ Return(h)
    /\ WritesPlan

-----------------------------------------------------------------------------
(* reserveForPlan: one COMMIT row for a plan, whatever the amount of it.   *)

AfterReserve(h) == IF calls[h].op = "submitForApproval"
                     THEN Return(h)
                     ELSE Forget(h, "request.read")

\* The reservation of the first amount due is there; on to the next.
ReserveNext(h) == IF Len(calls[h].due) > 1
                    THEN calls' = [calls EXCEPT ![h].at = "reserve.lookup",
                                                ![h].due = Tail(@),
                                                ![h].envelope = NoEnvelope]
                    ELSE AfterReserve(h)

\* reserveForPlan throws: submitForApproval takes the status back.
ReserveFailed(h) == IF calls[h].op = "submitForApproval"
                      THEN Forget(h, "submit.rollback")
                      ELSE Return(h)

\* Mutant: only a row of the envelope in hand counts as an earlier commit.
ReserveLookupInEnvelope(h) ==
    /\ At(h, "reserve.lookup")
    /\ IF \E i \in FindBySource("COMMIT", calls[h].plan) :
            transactions[i].envelope = FindEnvelopeByDimensions
         THEN ReserveNext(h)
         ELSE Proceed(h, "reserve.find")
    /\ Reads

ReserveLookup(h) ==
    /\ At(h, "reserve.lookup")
    /\ IF FindBySource("COMMIT", calls[h].plan) # {}
         THEN ReserveNext(h)
         ELSE Proceed(h, "reserve.find")
    /\ Reads

ReserveFind(h) ==
    /\ At(h, "reserve.find")
    /\ IF FindEnvelopeByDimensions = NoEnvelope
         THEN ReserveFailed(h)
         ELSE calls' = [calls EXCEPT ![h].at = "reserve.available",
                                     ![h].envelope = FindEnvelopeByDimensions]
    /\ Reads

\* submitForApproval computes its amounts; the others read them as text.
Sufficient(h) ==
    IF calls[h].op = "submitForApproval"
      THEN SufficientForNumber(calls[h].envelope, Head(calls[h].due))
      ELSE SufficientForText(calls[h].envelope, Head(calls[h].due))

ReserveAvailable(h) ==
    /\ At(h, "reserve.available")
    /\ IF Sufficient(h) THEN Proceed(h, "reserve.insert") ELSE ReserveFailed(h)
    /\ Reads

\* Mutant: the key of a commitment names the operation that made it.
CommitKeyPerOperation(h) ==
    [type |-> calls[h].op, source |-> calls[h].plan,
     envelope |-> calls[h].envelope]

CommitKey(h) == Key("COMMIT", calls[h].plan, calls[h].envelope)

ReserveInsert(h) ==
    /\ At(h, "reserve.insert")
    /\ PostTransaction("COMMIT", calls[h].plan, calls[h].envelope,
                       Head(calls[h].due), CommitKey(h))
    /\ ReserveNext(h)
    /\ UNCHANGED <<requests, plans>>

\* The unique index refuses the row.
ReserveInsertDuplicate(h) ==
    /\ At(h, "reserve.insert")
    /\ ~KeyIsFree(CommitKey(h))
    /\ ReserveFailed(h)
    /\ Reads

-----------------------------------------------------------------------------
(* releaseForPlan: one RELEASE for each COMMIT row, newest first.          *)

AfterRelease(h) ==
    Forget(h, CASE calls[h].op = "delete" -> "delete.write"
                [] calls[h].op = "reviewReject" -> "request.read"
                [] calls[h].op = "reviewChanges" -> "status.write")

ReleaseLookup(h) ==
    LET commits == FindBySource("COMMIT", calls[h].plan)
    IN  /\ At(h, "release.lookup")
        /\ IF commits = {}
             THEN AfterRelease(h)
             ELSE calls' = [calls EXCEPT ![h].at = "release.check",
                                         ![h].commits = commits]
        /\ Reads

\* The row in hand is done with.
ReleaseNext(h) ==
    IF Cardinality(calls[h].commits) > 1
      THEN calls' = [calls EXCEPT ![h].at = "release.check",
                                  ![h].commits = @ \ {Newest(@)}]
      ELSE AfterRelease(h)

CommitInHand(h) == transactions[Newest(calls[h].commits)]

ReleaseKey(h) == Key("RELEASE", calls[h].plan, CommitInHand(h).envelope)

ReleaseCheck(h) ==
    /\ At(h, "release.check")
    /\ IF KeyIsFree(ReleaseKey(h))
         THEN Proceed(h, "release.insert")
         ELSE ReleaseNext(h)
    /\ Reads

\* Mutant: a release is booked as a negative amount.
ReleaseInsertNegative(h) ==
    /\ At(h, "release.insert")
    /\ PostTransaction("RELEASE", calls[h].plan, CommitInHand(h).envelope,
                       -CommitInHand(h).amount, ReleaseKey(h))
    /\ ReleaseNext(h)
    /\ UNCHANGED <<requests, plans>>

\* Mutant: what the plan costs by now is released.
ReleaseInsertSpend(h) ==
    /\ At(h, "release.insert")
    /\ PostTransaction("RELEASE", calls[h].plan, CommitInHand(h).envelope,
                       plans[calls[h].plan].totalSpend, ReleaseKey(h))
    /\ ReleaseNext(h)
    /\ UNCHANGED <<requests, plans>>

ReleaseInsert(h) ==
    /\ At(h, "release.insert")
    /\ PostTransaction("RELEASE", calls[h].plan, CommitInHand(h).envelope,
                       CommitInHand(h).amount, ReleaseKey(h))
    /\ ReleaseNext(h)
    /\ UNCHANGED <<requests, plans>>

ReleaseInsertDuplicate(h) ==
    /\ At(h, "release.insert")
    /\ ~KeyIsFree(ReleaseKey(h))
    /\ Return(h)
    /\ Reads

-----------------------------------------------------------------------------
(* submit and submitForApproval.                                           *)

SubmitRead(h, p, user) ==
    /\ Found(p, {"DRAFT"})
    /\ plans[p].contents.fus # "none"
    /\ Begin(h, [Idle EXCEPT !.op = "submit", !.at = "submit.latest",
                             !.user = user, !.plan = p])

SubmitForApprovalRead(h, p, user) ==
    /\ Found(p, {"DRAFT"})
    /\ plans[p].contents.fus = "tactics"
    /\ Begin(h, [Idle EXCEPT !.op = "submitForApproval", !.at = "submit.find",
                             !.user = user, !.plan = p,
                             !.contents = plans[p].contents])

SubmitFind(h) ==
    /\ At(h, "submit.find")
    /\ IF FindEnvelopeByDimensions = NoEnvelope
         THEN Return(h)
         ELSE Proceed(h, "submit.status")
    /\ Reads

\* getBudgetStatus looks the envelope up once more.
SubmitStatus(h) ==
    /\ At(h, "submit.status")
    /\ calls' = [calls EXCEPT ![h].at = "submit.check",
                              ![h].envelope = FindEnvelopeByDimensions]
    /\ Reads

SubmitCheck(h) ==
    /\ At(h, "submit.check")
    /\ IF SufficientForNumber(calls[h].envelope, Spend(calls[h].contents))
         THEN calls' = [calls EXCEPT ![h].at = "submit.latest",
                                     ![h].envelope = NoEnvelope]
         ELSE Return(h)
    /\ Reads

\* Mutant: the request the plan names is looked at, not the newest on file.
SubmitLatestNamed(h) ==
    /\ At(h, "submit.latest")
    /\ IF \E r \in DOMAIN requests : /\ r = plans[calls[h].plan].request
                                    /\ requests[r].status = "PENDING"
         THEN Return(h)
         ELSE Proceed(h, "submit.insert")
    /\ Reads

SubmitLatest(h) ==
    /\ At(h, "submit.latest")
    /\ IF HasPendingRequest(calls[h].plan)
         THEN Return(h)
         ELSE Proceed(h, "submit.insert")
    /\ Reads

SubmitInsert(h) ==
    /\ At(h, "submit.insert")
    /\ Len(requests) < MaxRequests
    /\ InsertRequest(calls[h].plan, calls[h].user)
    /\ calls' = [calls EXCEPT ![h].at = "submit.write",
                              ![h].request = Len(requests) + 1]
    /\ UNCHANGED <<envelopes, transactions, ledger, plans>>

\* Mutant: the id of the request is not stored.
SubmitWriteStatusOnly(h) ==
    /\ At(h, "submit.write")
    /\ calls[h].op = "submit"
    /\ SetStatus(h, "PENDING_APPROVAL")
    /\ Return(h)
    /\ WritesPlan

SubmitWrite(h) ==
    /\ At(h, "submit.write")
    /\ calls[h].op = "submit"
    /\ plans' = [plans EXCEPT ![calls[h].plan].status = "PENDING_APPROVAL",
                              ![calls[h].plan].request = calls[h].request]
    /\ Return(h)
    /\ WritesPlan

\* The amounts above zero among the on-invoice and the off-invoice spend.
Due(on, off) == (IF on > 0 THEN <<on>> ELSE <<>>)
                  \o (IF off > 0 THEN <<off>> ELSE <<>>)

SubmitForApprovalWrite(h) ==
    LET contents == calls[h].contents
        due == Due(contents.on, contents.off)
    IN  /\ At(h, "submit.write")
        /\ calls[h].op = "submitForApproval"
        /\ plans' = [plans EXCEPT ![calls[h].plan] =
                       [@ EXCEPT !.status = "PENDING_APPROVAL",
                                 !.request = calls[h].request,
                                 !.submittedBy = calls[h].user,
                                 !.onInvoiceSpend = contents.on,
                                 !.offInvoiceSpend = contents.off]]
        /\ IF due = <<>>
             THEN Return(h)
             ELSE calls' = [calls EXCEPT ![h].at = "submit.reread",
                                         ![h].contents = Empty,
                                         ![h].due = due]
        /\ WritesPlan

\* The repository reads back what it wrote, and throws if it is deleted.
SubmitReread(h) ==
    /\ At(h, "submit.reread")
    /\ IF plans[calls[h].plan].deleted
         THEN Return(h)
         ELSE Proceed(h, "reserve.lookup")
    /\ Reads

\* The reservation failed: the status goes back, the request stays PENDING.
SubmitRollback(h) ==
    /\ At(h, "submit.rollback")
    /\ SetStatus(h, "DRAFT")
    /\ Return(h)
    /\ WritesPlan

-----------------------------------------------------------------------------
(* approve and reject of PlanService, delete.                              *)

ApproveRead(h, p, user) ==
    /\ Found(p, {"PENDING_APPROVAL"})
    /\ plans[p].request # NoRequest
    /\ Begin(h, [Idle EXCEPT !.op = "approve", !.at = "approve.find",
                             !.user = user, !.plan = p,
                             !.request = plans[p].request,
                             !.due = <<plans[p].totalSpend>>])

\* Without an envelope the client's autoCreateBudget decides.
ApproveFind(h) ==
    /\ At(h, "approve.find")
    /\ IF FindEnvelopeByDimensions # NoEnvelope
         THEN Proceed(h, "reserve.lookup")
         ELSE Return(h) \/ Proceed(h, "approve.create")
    /\ Reads

\* createEnvelope is told no channel and stores 'UNKNOWN'.  The envelope then
\* matches by its metadata, after every envelope that matches by its column.
ApproveCreate(h) ==
    /\ At(h, "approve.create")
    /\ \A i \in DOMAIN envelopes : envelopes[i] # PlanEnvelope
    /\ envelopes' = <<PlanEnvelope>> \o envelopes
    /\ Proceed(h, "reserve.lookup")
    /\ UNCHANGED <<transactions, ledger, requests, plans>>

\* "Budget envelope with this code already exists".
ApproveCreateConflict(h) ==
    /\ At(h, "approve.create")
    /\ \E i \in DOMAIN envelopes : envelopes[i] = PlanEnvelope
    /\ Return(h)
    /\ Reads

\* Mutant: the status of the plan is not checked.
RejectReadAnyStatus(h, p, user) ==
    /\ plans[p].request # NoRequest
    /\ Begin(h, [Idle EXCEPT !.op = "reject", !.at = "request.read",
                             !.user = user, !.plan = p,
                             !.request = plans[p].request])

RejectRead(h, p, user) ==
    /\ Found(p, {"PENDING_APPROVAL"})
    /\ plans[p].request # NoRequest
    /\ Begin(h, [Idle EXCEPT !.op = "reject", !.at = "request.read",
                             !.user = user, !.plan = p,
                             !.request = plans[p].request])

DeleteRead(h, p) ==
    /\ Found(p, {"DRAFT"})
    /\ Begin(h, [Idle EXCEPT !.op = "delete", !.plan = p,
                             !.at = IF plans[p].totalSpend > 0
                                      THEN "release.lookup"
                                      ELSE "delete.write"])

DeleteWrite(h) ==
    /\ At(h, "delete.write")
    /\ plans' = [plans EXCEPT ![calls[h].plan].deleted = TRUE]
    /\ Return(h)
    /\ WritesPlan

-----------------------------------------------------------------------------
(* reviewPlan and escalateToFinance.                                       *)

\* What reviewPlan reads and refuses before it looks at the decision.
MayReview(p, user) ==
    /\ Found(p, {"PENDING_APPROVAL", "PENDING_FINANCE_REVIEW"})
    /\ plans[p].submittedBy # user

Review(h, p, user, op, step) ==
    /\ MayReview(p, user)
    /\ Begin(h, [Idle EXCEPT !.op = op, !.at = step, !.user = user, !.plan = p,
                             !.request = plans[p].request])

\* Commits what submitForApproval stored, if it is above zero.
ReviewApprove(h, p, user) ==
    LET due == Due(plans[p].onInvoiceSpend, plans[p].offInvoiceSpend)
    IN  /\ MayReview(p, user)
        /\ Begin(h, [Idle EXCEPT !.op = "reviewApprove", !.user = user,
                                 !.plan = p, !.request = plans[p].request,
                                 !.due = due,
                                 !.at = IF due = <<>> THEN "request.read"
                                                      ELSE "reserve.lookup"])

ReviewReject(h, p, user) == Review(h, p, user, "reviewReject", "release.lookup")

\* Mutant: the plan goes back to its author with the budget it holds.
ReviewChangesUnreleased(h, p, user) ==
    Review(h, p, user, "reviewChanges", "status.write")

ReviewChanges(h, p, user) ==
    Review(h, p, user, "reviewChanges", "release.lookup")

ReviewEscalate(h, p, user) == Review(h, p, user, "escalate", "escalate.read")

\* The endpoint escalate-to-finance starts with the read reviewPlan repeats.
Escalate(h, p, user) ==
    /\ Found(p, {"PENDING_APPROVAL"})
    /\ Begin(h, [Idle EXCEPT !.op = "escalate", !.at = "escalate.write",
                             !.user = user, !.plan = p])

EscalateRead(h) ==
    /\ At(h, "escalate.read")
    /\ IF Found(calls[h].plan, {"PENDING_APPROVAL"})
         THEN Proceed(h, "escalate.write")
         ELSE Return(h)
    /\ Reads

EscalateWrite(h) ==
    /\ At(h, "escalate.write")
    /\ SetStatus(h, "PENDING_FINANCE_REVIEW")
    /\ Return(h)
    /\ WritesPlan

-----------------------------------------------------------------------------
(* What a decision ends with: the request, then the status of the plan.    *)

\* Mutant: the request is read and never decided.
RequestReadUndecided(h) ==
    /\ At(h, "request.read")
    /\ IF MayDecide(calls[h].request, calls[h].user)
         THEN Proceed(h, "status.write")
         ELSE Return(h)
    /\ Reads

RequestRead(h) ==
    /\ At(h, "request.read")
    /\ IF MayDecide(calls[h].request, calls[h].user)
         THEN Proceed(h, "request.write")
         ELSE Return(h)
    /\ Reads

RequestWrite(h) ==
    /\ At(h, "request.write")
    /\ WriteDecision(calls[h].request,
                     IF calls[h].op \in Approvals THEN "APPROVED" ELSE "REJECTED",
                     calls[h].user)
    /\ Proceed(h, "status.write")
    /\ UNCHANGED <<envelopes, transactions, ledger, plans>>

StatusWrite(h) ==
    /\ At(h, "status.write")
    /\ SetStatus(h, CASE calls[h].op \in Approvals -> "APPROVED"
                      [] calls[h].op \in Rejections -> "REJECTED"
                      [] calls[h].op = "reviewChanges" -> "DRAFT")
    /\ Return(h)
    /\ WritesPlan

-----------------------------------------------------------------------------
(* ApprovalController: a request decided without its plan.                 *)

DirectRead(h, r, user, step) ==
    Begin(h, [Idle EXCEPT !.op = "direct", !.at = step, !.user = user,
                          !.plan = requests[r].entity, !.request = r])

DirectApproveRead(h, r, user) ==
    MayDecide(r, user) /\ DirectRead(h, r, user, "direct.approve")

DirectRejectRead(h, r, user) ==
    MayDecide(r, user) /\ DirectRead(h, r, user, "direct.reject")

DirectWithdrawRead(h, r, user) ==
    MayWithdraw(r, user) /\ DirectRead(h, r, user, "direct.withdraw")

DirectWrite(h, step, status) ==
    /\ At(h, step)
    /\ WriteDecision(calls[h].request, status, calls[h].user)
    /\ Return(h)
    /\ UNCHANGED <<envelopes, transactions, ledger, plans>>

-----------------------------------------------------------------------------
(* The environment.                                                        *)

OpenEnvelope(e) == /\ "envelope" \in Operations
                   /\ CreateEnvelope(e)
                   /\ UNCHANGED <<requests, plans, calls>>

ReserveSteps == {"reserve.lookup", "reserve.find", "reserve.available",
                 "reserve.insert"}

\* The process dies, or a statement throws: nothing but the status of a
\* submission that was reserving is put back.
Fail(h) == /\ CallsFail
           /\ calls[h] # Idle
           /\ Return(h) \/ (calls[h].at \in ReserveSteps /\ ReserveFailed(h))
           /\ Reads

Arrive(h) ==
    \E p \in Documents :
        \/ \E contents \in Edits : EditRead(h, p, contents)
        \/ Recalculate(h, p) \/ DeleteRead(h, p)
        \/ \E user \in Users :
             \/ SubmitRead(h, p, user) \/ SubmitForApprovalRead(h, p, user)
             \/ ApproveRead(h, p, user) \/ RejectRead(h, p, user)
             \/ ReviewApprove(h, p, user) \/ ReviewReject(h, p, user)
             \/ ReviewChanges(h, p, user) \/ ReviewEscalate(h, p, user)
             \/ Escalate(h, p, user)

Edit(h) == EditWrite(h) \/ RecalculateRead(h) \/ RecalculateWrite(h)

Submit(h) == \/ SubmitFind(h) \/ SubmitStatus(h) \/ SubmitCheck(h)
             \/ SubmitLatest(h) \/ SubmitInsert(h) \/ SubmitWrite(h)
             \/ SubmitForApprovalWrite(h) \/ SubmitReread(h)
             \/ SubmitRollback(h)

Reserve(h) == \/ ApproveFind(h) \/ ApproveCreate(h) \/ ApproveCreateConflict(h)
              \/ ReserveLookup(h) \/ ReserveFind(h) \/ ReserveAvailable(h)
              \/ ReserveInsert(h) \/ ReserveInsertDuplicate(h)

Release(h) == \/ ReleaseLookup(h) \/ ReleaseCheck(h) \/ ReleaseInsert(h)
              \/ ReleaseInsertDuplicate(h)

Decide(h) == \/ RequestRead(h) \/ RequestWrite(h) \/ StatusWrite(h)
             \/ EscalateRead(h) \/ EscalateWrite(h) \/ DeleteWrite(h)

Direct(h) ==
    \/ DirectWrite(h, "direct.approve", "APPROVED")
    \/ DirectWrite(h, "direct.reject", "REJECTED")
    \/ DirectWrite(h, "direct.withdraw", "CANCELLED")
    \/ \E r \in DOMAIN requests, user \in Users :
         \/ DirectApproveRead(h, r, user)
         \/ DirectRejectRead(h, r, user)
         \/ DirectWithdrawRead(h, r, user)

Next == \/ \E p \in Documents : Create(p)
        \/ \E e \in Envelopes : OpenEnvelope(e)
        \/ \E h \in Handlers : \/ Arrive(h) \/ Edit(h) \/ Submit(h)
                               \/ Reserve(h) \/ Release(h) \/ Decide(h)
                               \/ Direct(h) \/ Fail(h)

Spec == Init /\ [][Next]_vars

-----------------------------------------------------------------------------
(* What holds however the calls interleave and wherever they die.          *)

CommitsOf(p, e) == {i \in FindBySource("COMMIT", p) :
                      transactions[i].envelope = e}
ReleasesOf(p, e) == {i \in FindBySource("RELEASE", p) :
                       transactions[i].envelope = e}

\* A release gives back what the same plan committed to the same envelope
\* before, to the last unit, though the spend of the plan and the match of
\* its dimensions change meanwhile (releaseForPlan).
ReleaseBacked ==
    \A i \in DOMAIN transactions : transactions[i].type = "RELEASE" =>
        \E j \in 1..(i - 1) :
            /\ transactions[j].type = "COMMIT"
            /\ transactions[j].source = transactions[i].source
            /\ transactions[j].envelope = transactions[i].envelope
            /\ transactions[j].amount = transactions[i].amount

\* A plan out of DRAFT names a request that was filed for it, whichever of
\* the two services submitted it and whichever stale call wrote its status:
\* approve and reject refuse a plan without one ("Approval request not found").
RequestOnFile ==
    \A p \in Documents :
        plans[p].status \notin {"ABSENT", "DRAFT"} =>
            /\ plans[p].request \in DOMAIN requests
            /\ requests[plans[p].request].entity = p

Pairs == Documents \X Envelopes

\* Any other number of rows has no place in the promise.
Phase == [pair \in Pairs |->
            LET rows == <<Cardinality(CommitsOf(pair[1], pair[2])),
                          Cardinality(ReleasesOf(pair[1], pair[2]))>>
            IN  CASE rows = <<0, 0>> -> "none"
                  [] rows = <<1, 0>> -> "held"
                  [] rows = <<1, 1>> -> "freed"
                  [] OTHER -> "broken"]

HeldFrom == [pair \in Pairs |-> IF CommitsOf(pair[1], pair[2]) = {}
                                  THEN NoEnvelope ELSE pair[2]]

Promise == INSTANCE Reservation
               WITH Documents <- Pairs, phase <- Phase, from <- HeldFrom

\* For each envelope the promise of BudgetService holds: a plan commits budget
\* of it once and gives it back once, afterwards.  Only two calls that find
\* different envelopes can commit twice for one plan.
ImplementsReservation == Promise!Spec

-----------------------------------------------------------------------------
(* What holds when calls do not overlap, wherever they die.                *)

Pending == {"PENDING_APPROVAL", "PENDING_FINANCE_REVIEW"}

\* The lifecycle both services keep to: each step of a plan's status is one
\* of these.  A plan goes back to DRAFT and never comes out of a decision.
LifecycleMoves ==
    [][\A p \in Documents :
         plans'[p].status # plans[p].status =>
           \/ plans[p].status = "ABSENT" /\ plans'[p].status = "DRAFT"
           \/ plans[p].status = "DRAFT" /\ plans'[p].status = "PENDING_APPROVAL"
           \/ plans[p].status = "PENDING_APPROVAL" /\ plans'[p].status # "ABSENT"
           \/ /\ plans[p].status = "PENDING_FINANCE_REVIEW"
              /\ plans'[p].status \in {"DRAFT", "APPROVED", "REJECTED"}]_vars

\* A decided plan has a request decided alike, after any number of
\* submissions, returns and attempts that died.
StatusMatchesRequest ==
    \A p \in Documents : plans[p].status \in {"APPROVED", "REJECTED"} =>
        requests[plans[p].request].status = plans[p].status

\* createRequest: a document never has two requests that can be decided.
OnePendingRequest ==
    \A i, j \in DOMAIN requests :
        /\ requests[i].entity = requests[j].entity
        /\ requests[i].status = "PENDING" /\ requests[j].status = "PENDING"
        => i = j

\* The comment of reserveForPlan, "true idempotency": one COMMIT row for a
\* plan, whatever envelopes appear between submission, approval and retries.
OneCommitment == \A p \in Documents : Cardinality(FindBySource("COMMIT", p)) <= 1

\* The envelopes whose budget a plan holds.
Held(p) == {e \in Envelopes : CommitsOf(p, e) # {} /\ ReleasesOf(p, e) = {}}

\* A review that sends a plan back or turns it down leaves it no budget
\* (rejectPlan, requestChanges).  Not so the rollback of a submission, which
\* keeps a first commitment, and reject of PlanService, which releases none.
ReviewGivesBack ==
    [][\A p \in Documents :
         /\ plans[p].status \in Pending
         /\ plans'[p].status \in {"DRAFT", "REJECTED"}
         /\ \E h \in Handlers :
              calls[h].plan = p /\ calls[h].op \in {"reviewReject", "reviewChanges"}
         => Held(p) = {}]_vars

-----------------------------------------------------------------------------
(* What the documents say and the code does not keep.                      *)

HeldAmount(p, e) == IF e \in Held(p)
                      THEN MapThenSumSet(LAMBDA i : transactions[i].amount,
                                         CommitsOf(p, e))
                      ELSE 0

\* Glossary, Section_12: "Committed: Amount locked by approved Planning-First
\* plans".  What an approved plan holds is what it spends.
ApprovedIsCommitted ==
    \A p \in Documents : plans[p].status = "APPROVED" =>
        MapThenSumSet(LAMBDA e : HeldAmount(p, e), Envelopes) = plans[p].totalSpend

=============================================================================
