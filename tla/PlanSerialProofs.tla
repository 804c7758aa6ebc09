--------------------------- MODULE PlanSerialProofs ---------------------------
(***************************************************************************)
(* Proofs about PlanWorkflow when its calls keep apart, wherever they die: *)
(* as long as no two of them rely on the same plan (Apart), what a call    *)
(* has read of its plan, of the request and of the budget is still so when *)
(* it writes.  Calls on different plans interleave freely, and share       *)
(* requests, envelopes and the table of transactions; the endpoints of     *)
(* ApprovalController are in use as well.                                  *)
(***************************************************************************)
EXTENDS PlanWorkflowProofs

-----------------------------------------------------------------------------
(* Calls that keep apart.  No code makes them: this is the condition under *)
(* which the second group of properties of PlanWorkflow holds.             *)

Reviews == {"reviewReject", "reviewChanges"}
Decisions == Approvals \cup Rejections \cup {"reviewChanges"}
QuietSteps == {"idle", "edit.write", "edit.recalculate", "edit.total",
               "delete.write", "escalate.read"} \cup Releasing

\* A call that decides, submits or escalates relies on what it has read of its
\* plan; an edit, a recalculation and a deletion rely on nothing.
Relying(h) == calls[h].op \in Decisions \/ calls[h].at \notin QuietSteps

\* No two calls rely on the same plan: a lock per plan.
Apart ==
    \A g, h \in Handlers :
        /\ Relying(g) /\ Relying(h)
        /\ calls[g].plan = calls[h].plan
        => g = h

-----------------------------------------------------------------------------
(* The inductive invariant.                                                *)

DecisionSteps == {"approve.find", "approve.create", "request.read",
                  "request.write", "status.write"}
                   \cup ReserveSteps \cup Releasing
SubmittedSteps == {"submit.reread", "submit.rollback"}

\* Where a call is that decides about a plan, and the status it has seen.
StatusSeen(h) ==
    LET call == calls[h]
        plan == plans[call.plan]
    IN  /\ call.op \in Decisions =>
             /\ call.at \in DecisionSteps
             /\ plan.status \in Pending
             /\ plan.request = call.request
        /\ call.at \in Submitting \cup {"submit.write"} => plan.status = "DRAFT"
        /\ call.at \in SubmittedSteps \cup {"escalate.write"} =>
             plan.status = "PENDING_APPROVAL"
        /\ call.at \in ReserveSteps /\ call.op = "submitForApproval" =>
             plan.status = "PENDING_APPROVAL"

\* No request that can be decided is on file for the plan.
NonePending(p) ==
    \A r \in DOMAIN requests : requests[r].entity = p =>
                                 requests[r].status # "PENDING"

\* What a call has seen, or made, of the request.
RequestSeen(h) ==
    LET call == calls[h]
    IN  /\ call.at = "submit.insert" => NonePending(call.plan)
        /\ call.at \in {"request.write"} \cup DirectSteps =>
             /\ call.request \in DOMAIN requests
             /\ requests[call.request].status = "PENDING"
        /\ call.at \in DirectSteps => requests[call.request].entity = call.plan
        /\ call.at = "status.write" =>
             /\ call.op \in Approvals =>
                  requests[call.request].status = "APPROVED"
             /\ call.op \in Rejections =>
                  requests[call.request].status = "REJECTED"

CommitFor(i, p) == transactions[i].type = "COMMIT" /\ transactions[i].source = p

NothingCommitted(p) == \A i \in DOMAIN transactions : ~CommitFor(i, p)

\* The budget of row i was given back.
GivenBack(i) ==
    \E j \in DOMAIN transactions :
        /\ transactions[j].type = "RELEASE"
        /\ transactions[j].source = transactions[i].source
        /\ transactions[j].envelope = transactions[i].envelope

\* What a call has seen, or given back, of the budget.
BudgetSeen(h) ==
    LET call == calls[h]
    IN  /\ call.at \in {"reserve.find", "reserve.available", "reserve.insert"} =>
             NothingCommitted(call.plan)
        /\ call.op \in Reviews /\ call.at # "release.lookup" =>
             \A i \in DOMAIN transactions :
                CommitFor(i, call.plan) =>
                  \/ GivenBack(i)
                  \/ /\ call.at \in {"release.check", "release.insert"}
                     /\ i \in call.commits

Seen(h) == StatusSeen(h) /\ RequestSeen(h) /\ BudgetSeen(h)

\* Only the newest request of a plan can be decided.
NewestPending ==
    \A i, j \in DOMAIN requests :
        /\ requests[i].entity = requests[j].entity
        /\ requests[i].status = "PENDING"
        => j <= i

CommitsOnce ==
    \A p \in Documents : \A i, j \in DOMAIN transactions :
        CommitFor(i, p) /\ CommitFor(j, p) => i = j

SerialInv == /\ \A h \in Handlers : Seen(h)
             /\ NewestPending
             /\ StatusMatchesRequest
             /\ CommitsOnce

-----------------------------------------------------------------------------
(* What the statements between the first and the last of a call see.       *)

\* A call that decides nothing and is not submitting relies on nothing.
LEMMA QuietSeen ==
    ASSUME NEW h \in Handlers, calls'[h].op \notin Decisions,
           calls'[h].at \in QuietSteps
    PROVE  Seen(h)'
BY DEF QuietSteps, Releasing, Seen, StatusSeen, RequestSeen, BudgetSeen,
       Decisions, Reviews, Rejections, Submitting, SubmittedSteps, ReserveSteps,
       DirectSteps

LEMMA ReturnSeen ==
    ASSUME TypeOK, NEW h \in Handlers, Return(h)
    PROVE  Seen(h)'
<1>1. calls'[h].at = "idle" /\ calls'[h].op = "none"
  BY DEF Return, TypeOK, Idle
<1>2. QED
  BY <1>1, QuietSeen
  DEF QuietSteps, Decisions, Approvals, Rejections

\* A statement that only reads, of a call that decides nothing and has nothing
\* to do with budget yet.
LEMMA SubmittingSeen ==
    ASSUME NEW h \in Handlers, StatusSeen(h), UNCHANGED plans,
           calls[h].op \notin Decisions, calls'[h].op = calls[h].op,
           calls'[h].plan = calls[h].plan,
           calls[h].at \in Submitting, calls'[h].at \in Submitting,
           calls'[h].at = "submit.insert" => NonePending(calls[h].plan)'
    PROVE  Seen(h)'
BY DEF Seen, StatusSeen, RequestSeen, BudgetSeen, Decisions, Reviews,
       Rejections, Submitting, SubmittedSteps, ReserveSteps, DirectSteps

\* A step of reserveForPlan that changes no table but budget_transactions.
LEMMA ReservingSeen ==
    ASSUME NEW h \in Handlers, StatusSeen(h), UNCHANGED <<requests, plans>>,
           calls'[h].op = calls[h].op, calls'[h].plan = calls[h].plan,
           calls'[h].request = calls[h].request,
           calls[h].op \in Approvals \cup {"submitForApproval"},
           calls[h].op = "submitForApproval" =>
             calls[h].at \in ReserveSteps \cup {"submit.reread"},
           calls'[h].at \in ReserveSteps \cup {"approve.create", "request.read"},
           calls[h].op = "submitForApproval" => calls'[h].at \in ReserveSteps,
           calls'[h].at \in ReserveSteps \ {"reserve.lookup"} =>
             NothingCommitted(calls[h].plan)'
    PROVE  Seen(h)'
<1> USE DEF Approvals, Rejections, ReserveSteps
<1>1. StatusSeen(h)'
  BY DEF StatusSeen, Decisions, DecisionSteps, Submitting, SubmittedSteps
<1>2. RequestSeen(h)'
  BY DEF RequestSeen, DirectSteps
<1>3. BudgetSeen(h)'
  BY DEF BudgetSeen, Reviews
<1>4. QED
  BY <1>1, <1>2, <1>3 DEF Seen

LEMMA EditSeen ==
    ASSUME Inv, NEW h \in Handlers, Seen(h), Edit(h)
    PROVE  Seen(h)'
<1>1. TypeOK /\ calls \in [Handlers -> Calls]
  BY DEF Inv, TypeOK
<1>2. calls[h].at \in QuietSteps => calls[h].op \notin Decisions
                                   \/ calls[h].at \in Releasing
  BY DEF Seen, StatusSeen, DecisionSteps, ReserveSteps, QuietSteps
<1>3. CASE EditWrite(h)
  <2>1. GoesTo(h, "edit.recalculate")
    BY <1>1, <1>3, ForgetMoves DEF EditWrite, Steps
  <2>2. QED
    BY <1>2, <1>3, <2>1, QuietSeen
    DEF GoesTo, EditWrite, At, QuietSteps, Releasing
<1>4. CASE RecalculateRead(h)
  <2>1. CASE Return(h)
    BY <1>1, <2>1, ReturnSeen
  <2>2. ASSUME NEW contents,
               calls' = [calls EXCEPT ![h].at = "edit.total",
                                      ![h].contents = contents]
        PROVE  Seen(h)'
    <3>1. calls'[h].at = "edit.total" /\ calls'[h].op = calls[h].op
      BY <1>1, <2>2 DEF Calls
    <3>2. QED
      BY <1>2, <1>4, <3>1, QuietSeen
      DEF RecalculateRead, At, QuietSteps, Releasing
  <2>3. QED
    BY <1>4, <2>1, <2>2 DEF RecalculateRead
<1>5. CASE RecalculateWrite(h)
  BY <1>1, <1>5, ReturnSeen DEF RecalculateWrite
<1>6. QED
  BY <1>3, <1>4, <1>5 DEF Edit

\* The newest request of a plan cannot be decided, so none of them can.
LEMMA NonePendingSeen ==
    ASSUME Inv, NewestPending, NEW p, ~HasPendingRequest(p)
    PROVE  NonePending(p)
<1>1. DOMAIN requests \subseteq Nat
  BY LenProperties DEF Inv, TypeOK, ApprovalTypeOK
<1>2. QED
  BY <1>1 DEF NewestPending, HasPendingRequest, NonePending

LEMMA SubmitSeen ==
    ASSUME Inv, SerialInv, NEW h \in Handlers, Submit(h)
    PROVE  Seen(h)'
<1>1. /\ TypeOK /\ calls \in [Handlers -> Calls] /\ Seen(h) /\ StatusSeen(h)
      /\ Trusts(calls[h])
  BY DEF Inv, TypeOK, CallsInv, SerialInv, Seen
<1>2. calls[h].at \in Submitting \cup {"submit.write"} \cup SubmittedSteps
        => calls[h].op \notin Decisions
  BY <1>1 DEF StatusSeen, DecisionSteps, ReserveSteps, Releasing, Submitting,
     SubmittedSteps
<1>3. Return(h) => Seen(h)'
  BY <1>1, ReturnSeen
<1>4. CASE SubmitFind(h)
  <2>1. CASE Proceed(h, "submit.status")
    <3>1. GoesTo(h, "submit.status")
      BY <1>1, <2>1, ProceedMoves DEF Steps
    <3>2. QED
      BY <1>1, <1>2, <1>4, <3>1, SubmittingSeen
      DEF GoesTo, SubmitFind, At, Submitting, Reads
  <2>2. QED
    BY <1>3, <1>4, <2>1 DEF SubmitFind
<1>5. ASSUME NEW step \in {"submit.check", "submit.latest"}, NEW e,
             calls[h].at \in Submitting, UNCHANGED plans,
             calls' = [calls EXCEPT ![h].at = step, ![h].envelope = e]
      PROVE  Seen(h)'
  <2>1. /\ calls'[h].at = step /\ calls'[h].op = calls[h].op
        /\ calls'[h].plan = calls[h].plan
    BY <1>1, <1>5 DEF Calls
  <2>2. QED
    BY <1>1, <1>2, <1>5, <2>1, SubmittingSeen DEF Submitting
<1>6. CASE SubmitStatus(h)
  <2>1. PICK e : e = FindEnvelopeByDimensions
    OBVIOUS
  <2>2. calls' = [calls EXCEPT ![h].at = "submit.check", ![h].envelope = e]
    BY <1>6, <2>1 DEF SubmitStatus
  <2>3. calls[h].at \in Submitting /\ UNCHANGED plans
    BY <1>6 DEF SubmitStatus, At, Submitting, Reads
  <2>4. QED
    BY <1>5, <2>2, <2>3
<1>7. CASE SubmitCheck(h)
  <2>1. calls[h].at \in Submitting /\ UNCHANGED plans
    BY <1>7 DEF SubmitCheck, At, Submitting, Reads
  <2>2. CASE calls' = [calls EXCEPT ![h].at = "submit.latest",
                                    ![h].envelope = NoEnvelope]
    BY <1>5, <2>1, <2>2
  <2>3. QED
    BY <1>3, <1>7, <2>2 DEF SubmitCheck
<1>8. CASE SubmitLatest(h)
  <2>1. CASE Proceed(h, "submit.insert") /\ ~HasPendingRequest(calls[h].plan)
    <3>1. GoesTo(h, "submit.insert")
      BY <1>1, <2>1, ProceedMoves DEF Steps
    <3>2. NonePending(calls[h].plan)
      BY <2>1, NonePendingSeen DEF SerialInv
    <3>3. NonePending(calls[h].plan)'
      BY <1>8, <3>1, <3>2 DEF SubmitLatest, Reads, NonePending, GoesTo
    <3>4. QED
      BY <1>1, <1>2, <1>8, <3>1, <3>3, SubmittingSeen
      DEF GoesTo, SubmitLatest, At, Submitting, Reads
  <2>2. QED
    BY <1>3, <1>8, <2>1 DEF SubmitLatest
<1>9. CASE SubmitInsert(h)
  <2>1. PICK n : calls' = [calls EXCEPT ![h].at = "submit.write",
                                        ![h].request = n]
    BY <1>9 DEF SubmitInsert
  <2>2. /\ calls'[h].at = "submit.write" /\ calls'[h].op = calls[h].op
        /\ calls'[h].plan = calls[h].plan
    BY <1>1, <2>1 DEF Calls
  <2>3. plans' = plans /\ calls[h].at = "submit.insert"
    BY <1>9 DEF SubmitInsert, At
  <2>4. QED
    BY <1>1, <1>2, <2>2, <2>3
    DEF Seen, StatusSeen, RequestSeen, BudgetSeen, Decisions, Reviews,
        Rejections, Submitting, SubmittedSteps, ReserveSteps, DirectSteps
<1>10. CASE SubmitWrite(h) \/ SubmitRollback(h)
  BY <1>3, <1>10 DEF SubmitWrite, SubmitRollback
<1>11. CASE SubmitForApprovalWrite(h)
  <2>1. PICK due : due = Due(calls[h].contents.on, calls[h].contents.off)
    OBVIOUS
  <2>2. CASE calls' = [calls EXCEPT ![h].at = "submit.reread",
                                    ![h].contents = Empty, ![h].due = due]
    <3>1. /\ calls'[h].at = "submit.reread" /\ calls'[h].op = calls[h].op
          /\ calls'[h].plan = calls[h].plan
      BY <1>1, <2>2 DEF Calls
    <3>2. calls[h].plan \in Documents
      BY <1>1, <1>11 DEF SubmitForApprovalWrite, At, Trusts, Sound
    <3>3. plans \in [Documents -> Plans]
      BY <1>1 DEF TypeOK
    <3>4. plans'[calls[h].plan].status = "PENDING_APPROVAL"
      BY <1>11, <3>2, <3>3 DEF SubmitForApprovalWrite, Plans
    <3>5. calls[h].op \notin Decisions
      BY <1>2, <1>11 DEF SubmitForApprovalWrite, At
    <3>6. QED
      BY <3>1, <3>4, <3>5
      DEF Seen, StatusSeen, RequestSeen, BudgetSeen, Decisions, Reviews,
          Rejections, Submitting, SubmittedSteps, ReserveSteps, DirectSteps
  <2>3. QED
    BY <1>3, <1>11, <2>1, <2>2 DEF SubmitForApprovalWrite
<1>12. CASE SubmitReread(h)
  <2>1. CASE Proceed(h, "reserve.lookup")
    <3>1. GoesTo(h, "reserve.lookup") /\ Keeps(h)
      BY <1>1, <2>1, ProceedMoves DEF Steps
    <3>2. calls[h].op = "submitForApproval"
      BY <1>1, <1>12 DEF SubmitReread, At, Trusts, Fits
    <3>3. QED
      BY <1>1, <1>12, <3>1, <3>2, ReservingSeen
      DEF GoesTo, Keeps, SubmitReread, At, ReserveSteps, Reads
  <2>2. QED
    BY <1>3, <1>12, <2>1 DEF SubmitReread
<1>13. QED
  BY <1>4, <1>6, <1>7, <1>8, <1>9, <1>10, <1>11, <1>12 DEF Submit

\* The reservation of a submission fails.
LEMMA ReserveFailedSeen ==
    ASSUME Inv, SerialInv, NEW h \in Handlers, calls[h].at \in ReserveSteps,
           ReserveFailed(h), UNCHANGED plans
    PROVE  Seen(h)'
<1>1. TypeOK /\ StatusSeen(h)
  BY DEF Inv, SerialInv, Seen
<1>2. CASE Forget(h, "submit.rollback") /\ calls[h].op = "submitForApproval"
  <2>1. GoesTo(h, "submit.rollback")
    BY <1>1, <1>2, ForgetMoves DEF Steps
  <2>2. QED
    BY <1>1, <1>2, <2>1
    DEF GoesTo, Seen, StatusSeen, RequestSeen, BudgetSeen, Decisions, Reviews,
        Approvals, Rejections, Submitting, SubmittedSteps, ReserveSteps,
        DirectSteps
<1>3. CASE Return(h)
  BY <1>1, <1>3, ReturnSeen
<1>4. QED
  BY <1>2, <1>3 DEF ReserveFailed

\* A reservation is there, and the call goes on.
LEMMA ReserveNextSeen ==
    ASSUME Inv, SerialInv, NEW h \in Handlers, calls[h].at \in ReserveSteps,
           ReserveNext(h), UNCHANGED <<requests, plans>>
    PROVE  Seen(h)'
<1>1. /\ TypeOK /\ StatusSeen(h) /\ calls \in [Handlers -> Calls]
      /\ calls[h].op \in Approvals \cup {"submitForApproval"}
  BY DEF Inv, SerialInv, Seen, TypeOK, CallsInv, Trusts, Fits
<1>2. CASE calls' = [calls EXCEPT ![h].at = "reserve.lookup",
                                  ![h].due = Tail(@),
                                  ![h].envelope = NoEnvelope]
  <2>1. /\ calls'[h].at = "reserve.lookup" /\ calls'[h].op = calls[h].op
        /\ calls'[h].plan = calls[h].plan
        /\ calls'[h].request = calls[h].request
    BY <1>1, <1>2 DEF Calls
  <2>2. QED
    BY <1>1, <2>1, ReservingSeen DEF ReserveSteps
<1>3. CASE Forget(h, "request.read") /\ calls[h].op # "submitForApproval"
  <2>1. GoesTo(h, "request.read") /\ calls'[h].request = calls[h].request
    BY <1>1, <1>3, ForgetMoves DEF Steps
  <2>2. QED
    BY <1>1, <1>3, <2>1, ReservingSeen DEF GoesTo, ReserveSteps
<1>4. CASE Return(h)
  BY <1>1, <1>4, ReturnSeen
<1>5. QED
  BY <1>2, <1>3, <1>4 DEF ReserveNext, AfterReserve

LEMMA ReserveSeen ==
    ASSUME Inv, SerialInv, NEW h \in Handlers, Reserve(h)
    PROVE  Seen(h)'
<1>1. /\ TypeOK /\ calls \in [Handlers -> Calls] /\ StatusSeen(h)
      /\ BudgetSeen(h) /\ Trusts(calls[h])
  BY DEF Inv, TypeOK, CallsInv, SerialInv, Seen
<1>2. Return(h) => Seen(h)'
  BY <1>1, ReturnSeen
<1>3. CASE ApproveFind(h) \/ ApproveCreate(h)
  <2>1. ASSUME NEW step \in {"approve.create", "reserve.lookup"},
               Proceed(h, step)
        PROVE  Seen(h)'
    <3>1. GoesTo(h, step) /\ Keeps(h)
      BY <1>1, <2>1, ProceedMoves DEF Steps
    <3>2. calls[h].op = "approve" /\ UNCHANGED <<requests, plans>>
      BY <1>1, <1>3 DEF ApproveFind, ApproveCreate, At, Trusts, Fits, Reads
    <3>3. QED
      BY <1>1, <3>1, <3>2, ReservingSeen
      DEF GoesTo, Keeps, ReserveSteps, Approvals
  <2>2. QED
    BY <1>2, <1>3, <2>1 DEF ApproveFind, ApproveCreate
<1>4. CASE ApproveCreateConflict(h)
  BY <1>2, <1>4 DEF ApproveCreateConflict
<1>5. calls[h].at \in ReserveSteps =>
        calls[h].op \in Approvals \cup {"submitForApproval"}
  BY <1>1 DEF Trusts, Fits
<1>6. CASE ReserveLookup(h)
  <2>1. calls[h].at \in ReserveSteps /\ UNCHANGED <<transactions, requests, plans>>
    BY <1>6 DEF ReserveLookup, At, ReserveSteps, Reads
  <2>2. CASE Proceed(h, "reserve.find") /\ FindBySource("COMMIT", calls[h].plan) = {}
    <3>1. GoesTo(h, "reserve.find") /\ Keeps(h)
      BY <1>1, <2>2, ProceedMoves DEF Steps
    <3>2. NothingCommitted(calls[h].plan)
      BY <2>2 DEF FindBySource, NothingCommitted, CommitFor
    <3>3. NothingCommitted(calls[h].plan)'
      BY <2>1, <3>1, <3>2 DEF GoesTo, NothingCommitted, CommitFor
    <3>4. QED
      BY <1>1, <1>5, <2>1, <3>1, <3>3, ReservingSeen
      DEF GoesTo, Keeps, ReserveSteps
  <2>3. QED
    BY <1>6, <2>1, <2>2, ReserveNextSeen DEF ReserveLookup
<1>7. ASSUME NEW step \in {"reserve.available", "reserve.insert"},
             NothingCommitted(calls[h].plan), Reads,
             calls[h].at \in ReserveSteps,
             calls'[h].at = step, calls'[h].op = calls[h].op,
             calls'[h].plan = calls[h].plan,
             calls'[h].request = calls[h].request
      PROVE  Seen(h)'
  <2>1. NothingCommitted(calls[h].plan)'
    BY <1>7 DEF Reads, NothingCommitted, CommitFor
  <2>2. QED
    BY <1>1, <1>5, <1>7, <2>1, ReservingSeen DEF ReserveSteps, Reads
<1>8. calls[h].at \in {"reserve.find", "reserve.available"} =>
        NothingCommitted(calls[h].plan)
  BY <1>1 DEF BudgetSeen
<1>9. CASE ReserveFind(h)
  <2>1. calls[h].at = "reserve.find" /\ Reads
    BY <1>9 DEF ReserveFind, At
  <2>2. CASE ReserveFailed(h)
    BY <2>1, <2>2, ReserveFailedSeen DEF ReserveSteps, Reads
  <2>3. ASSUME NEW e, calls' = [calls EXCEPT ![h].at = "reserve.available",
                                             ![h].envelope = e]
        PROVE  Seen(h)'
    <3>1. /\ calls'[h].at = "reserve.available" /\ calls'[h].op = calls[h].op
          /\ calls'[h].plan = calls[h].plan
          /\ calls'[h].request = calls[h].request
      BY <1>1, <2>3 DEF Calls
    <3>2. QED
      BY <1>7, <1>8, <2>1, <3>1 DEF ReserveSteps
  <2>4. QED
    BY <1>9, <2>2, <2>3 DEF ReserveFind
<1>10. CASE ReserveAvailable(h)
  <2>1. calls[h].at = "reserve.available" /\ Reads
    BY <1>10 DEF ReserveAvailable, At
  <2>2. CASE ReserveFailed(h)
    BY <2>1, <2>2, ReserveFailedSeen DEF ReserveSteps, Reads
  <2>3. CASE Proceed(h, "reserve.insert")
    <3>1. GoesTo(h, "reserve.insert") /\ Keeps(h)
      BY <1>1, <2>3, ProceedMoves DEF Steps
    <3>2. QED
      BY <1>7, <1>8, <2>1, <3>1 DEF GoesTo, Keeps, ReserveSteps
  <2>4. QED
    BY <1>10, <2>2, <2>3 DEF ReserveAvailable
<1>11. CASE ReserveInsert(h)
  BY <1>11, ReserveNextSeen DEF ReserveInsert, At, ReserveSteps
<1>12. CASE ReserveInsertDuplicate(h)
  BY <1>12, ReserveFailedSeen
  DEF ReserveInsertDuplicate, At, ReserveSteps, Reads
<1>13. QED
  BY <1>3, <1>4, <1>6, <1>9, <1>10, <1>11, <1>12 DEF Reserve

LEMMA FailSeen ==
    ASSUME Inv, SerialInv, NEW h \in Handlers, Fail(h)
    PROVE  Seen(h)'
<1>1. CASE Return(h)
  BY <1>1, ReturnSeen DEF Inv
<1>2. CASE calls[h].at \in ReserveSteps /\ ReserveFailed(h)
  BY <1>2, ReserveFailedSeen DEF Fail, Reads
<1>3. QED
  BY <1>1, <1>2 DEF Fail

LEMMA DecideSeen ==
    ASSUME Inv, SerialInv, NEW h \in Handlers, Decide(h)
    PROVE  Seen(h)'
<1>1. /\ TypeOK /\ calls \in [Handlers -> Calls] /\ Seen(h)
      /\ Trusts(calls[h]) /\ PlansInv
  BY DEF Inv, TypeOK, CallsInv, SerialInv
<1>2. Return(h) => Seen(h)'
  BY <1>1, ReturnSeen
<1> USE DEF Decisions, DecisionSteps, Reviews, Approvals, Rejections,
            Submitting, SubmittedSteps, ReserveSteps, DirectSteps
<1>3. CASE RequestRead(h)
  <2>1. CASE Proceed(h, "request.write") /\ MayDecide(calls[h].request, calls[h].user)
    <3>1. GoesTo(h, "request.write") /\ Keeps(h)
      BY <1>1, <2>1, ProceedMoves DEF Steps
    <3>2. /\ calls[h].at = "request.read" /\ calls[h].op \in Decisions
          /\ UNCHANGED <<transactions, requests, plans>>
      BY <1>1, <1>3 DEF RequestRead, At, Reads, Trusts, Fits
    <3>3. /\ calls[h].request \in DOMAIN requests
          /\ requests[calls[h].request].status = "PENDING"
      BY <1>1, <2>1, <3>2
      DEF Seen, StatusSeen, Trusts, Backed, Deciding, PlansInv, Filed, MayDecide
    <3>4. StatusSeen(h)'
      BY <1>1, <3>1, <3>2 DEF Seen, StatusSeen, GoesTo, Keeps
    <3>5. RequestSeen(h)'
      BY <3>1, <3>2, <3>3 DEF RequestSeen, GoesTo, Keeps
    <3>6. BudgetSeen(h)'
      BY <1>1, <3>1, <3>2 DEF Seen, BudgetSeen, GoesTo, Keeps, CommitFor, GivenBack
    <3>7. QED
      BY <3>4, <3>5, <3>6 DEF Seen
  <2>2. QED
    BY <1>2, <1>3, <2>1 DEF RequestRead
<1>4. CASE RequestWrite(h)
  <2>1. GoesTo(h, "status.write") /\ Keeps(h)
    BY <1>1, <1>4, ProceedMoves DEF Steps, RequestWrite
  <2>2. /\ calls[h].at = "request.write" /\ calls[h].op \in Approvals \cup Rejections
        /\ UNCHANGED <<transactions, plans>>
    BY <1>1, <1>4 DEF RequestWrite, At, Trusts, Fits
  <2>3. requests \in Seq(Requests) /\ calls[h].request \in DOMAIN requests
    BY <1>1, <2>2 DEF TypeOK, ApprovalTypeOK, Seen, RequestSeen
  <2>4. \A r \in DOMAIN requests : requests[r] \in Requests
    BY <2>3, ElementOfSeq, LenProperties
  <2>5. requests'[calls[h].request].status =
          IF calls[h].op \in Approvals THEN "APPROVED" ELSE "REJECTED"
    BY <1>4, <2>3, <2>4 DEF RequestWrite, WriteDecision, Requests
  <2>6. StatusSeen(h)'
    BY <1>1, <2>1, <2>2 DEF Seen, StatusSeen, GoesTo, Keeps
  <2>7. RequestSeen(h)'
    BY <2>1, <2>2, <2>5 DEF RequestSeen, GoesTo, Keeps
  <2>8. BudgetSeen(h)'
    BY <1>1, <2>1, <2>2 DEF Seen, BudgetSeen, GoesTo, Keeps, CommitFor, GivenBack
  <2>9. QED
    BY <2>6, <2>7, <2>8 DEF Seen
<1>5. CASE EscalateRead(h)
  <2>1. CASE /\ Proceed(h, "escalate.write")
             /\ Found(calls[h].plan, {"PENDING_APPROVAL"})
    <3>1. GoesTo(h, "escalate.write")
      BY <1>1, <2>1, ProceedMoves DEF Steps
    <3>2. calls[h].op = "escalate" /\ UNCHANGED plans
      BY <1>1, <1>5 DEF EscalateRead, At, Reads, Trusts, Fits
    <3>3. QED
      BY <2>1, <3>1, <3>2
      DEF Seen, StatusSeen, RequestSeen, BudgetSeen, GoesTo, Found
  <2>2. QED
    BY <1>2, <1>5, <2>1 DEF EscalateRead
<1>6. CASE StatusWrite(h) \/ EscalateWrite(h) \/ DeleteWrite(h)
  BY <1>2, <1>6 DEF StatusWrite, EscalateWrite, DeleteWrite
<1>7. QED
  BY <1>3, <1>4, <1>5, <1>6 DEF Decide

-----------------------------------------------------------------------------
(* What is given back.                                                     *)

\* All that was committed for the plan was given back.
AllGivenBack(p) ==
    \A i \in DOMAIN transactions : CommitFor(i, p) => GivenBack(i)

\* releaseForPlan is done, and has given back what was committed.
LEMMA AfterReleaseSeen ==
    ASSUME Inv, SerialInv, NEW h \in Handlers, calls[h].at \in Releasing,
           AfterRelease(h), UNCHANGED <<requests, plans>>,
           calls[h].op \in Reviews => AllGivenBack(calls[h].plan)'
    PROVE  Seen(h)'
<1>1. /\ TypeOK /\ StatusSeen(h)
      /\ calls[h].op \in {"delete", "reviewReject", "reviewChanges"}
  BY DEF Inv, CallsInv, Trusts, Fits, SerialInv, Seen
<1> USE DEF Decisions, DecisionSteps, Reviews, Approvals, Rejections
<1>2. CASE calls[h].op = "delete"
  <2>1. GoesTo(h, "delete.write")
    BY <1>1, <1>2, ForgetMoves DEF AfterRelease, Steps
  <2>2. QED
    BY <1>2, <2>1, QuietSeen DEF GoesTo, QuietSteps
<1>3. ASSUME NEW step \in {"request.read", "status.write"},
             calls[h].op \in Reviews, Forget(h, step),
             step = "status.write" => calls[h].op = "reviewChanges"
      PROVE  Seen(h)'
  <2>1. GoesTo(h, step) /\ calls'[h].request = calls[h].request
    BY <1>1, <1>3, ForgetMoves DEF Steps
  <2>2. StatusSeen(h)'
    BY <1>1, <1>3, <2>1
    DEF StatusSeen, GoesTo, Submitting, SubmittedSteps, ReserveSteps
  <2>3. RequestSeen(h)'
    BY <1>3, <2>1 DEF RequestSeen, GoesTo, DirectSteps
  <2>4. BudgetSeen(h)'
    BY <1>3, <2>1 DEF BudgetSeen, AllGivenBack, GoesTo
  <2>5. QED
    BY <2>2, <2>3, <2>4 DEF Seen
<1>4. CASE calls[h].op = "reviewReject"
  BY <1>3, <1>4 DEF AfterRelease
<1>5. CASE calls[h].op = "reviewChanges"
  BY <1>3, <1>5 DEF AfterRelease
<1>6. QED
  BY <1>1, <1>2, <1>4, <1>5

\* A set of commitments with no more than one has just the newest.
LEMMA LastInHand ==
    ASSUME Inv, NEW h \in Handlers,
           calls[h].at \in {"release.check", "release.insert"},
           ~(Cardinality(calls[h].commits) > 1)
    PROVE  calls[h].commits \subseteq {Newest(calls[h].commits)}
<1>1. Len(transactions) \in Nat /\ DOMAIN transactions = 1..Len(transactions)
  BY LenProperties DEF Inv, TypeOK, BudgetTypeOK
<1>2. /\ calls[h].commits # {}
      /\ calls[h].commits \subseteq FindBySource("COMMIT", calls[h].plan)
  BY DEF Inv, CallsInv, Trusts, Backed
<1>3. PICK S : S = calls[h].commits
  OBVIOUS
<1>4. S \in SUBSET (0..Len(transactions)) /\ S # {}
  BY <1>1, <1>2, <1>3 DEF FindBySource
<1>5. PICK m : m = Newest(S) /\ m \in S
  BY <1>1, <1>4, NewestOf
<1>6. IsFiniteSet(S)
  <2>1. IsFiniteSet(0..Len(transactions))
    BY <1>1, FS_Interval
  <2>2. QED
    BY <1>4, <2>1, FS_Subset
<1>7. /\ Cardinality(S \ {m}) = Cardinality(S) - 1
      /\ IsFiniteSet(S \ {m}) /\ Cardinality(S) \in Nat
      /\ Cardinality(S \ {m}) \in Nat
  <2>1. IsFiniteSet(S \ {m}) /\ Cardinality(S \ {m}) = Cardinality(S) - 1
    BY <1>5, <1>6, FS_RemoveElement
  <2>2. QED
    BY <1>6, <2>1, FS_CardinalityType
<1>8. Cardinality(S \ {m}) = 0
  BY <1>3, <1>7
<1>9. S \ {m} = {}
  BY <1>7, <1>8, FS_EmptySet
<1>10. QED
  BY <1>3, <1>5, <1>9

\* The row in hand is given back; those still to come are in hand.
LEMMA ReleaseNextSeen ==
    ASSUME Inv, SerialInv, [Next]_vars, NEW h \in Handlers,
           calls[h].at \in {"release.check", "release.insert"},
           ReleaseNext(h), UNCHANGED <<requests, plans>>,
           NEW m, m = Newest(calls[h].commits), GivenBack(m)',
           \A i \in DOMAIN transactions' \ DOMAIN transactions :
              transactions'[i].type # "COMMIT"
    PROVE  Seen(h)'
<1>1. /\ TypeOK /\ StatusSeen(h) /\ BudgetSeen(h)
      /\ calls \in [Handlers -> Calls]
      /\ calls[h].op \in {"delete", "reviewReject", "reviewChanges"}
  BY DEF Inv, TypeOK, CallsInv, Trusts, Fits, Releasing, SerialInv, Seen
<1> USE DEF Decisions, DecisionSteps, Reviews, Approvals, Rejections, Releasing
<1>2. PICK p, S : p = calls[h].plan /\ S = calls[h].commits
  OBVIOUS
<1>3. m = Newest(S)
  BY <1>2
<1>4. ASSUME NEW i \in DOMAIN transactions', CommitFor(i, p)',
             calls[h].op \in Reviews
      PROVE  GivenBack(i)' \/ i \in S \ {m}
  <2>1. i \in DOMAIN transactions /\ CommitFor(i, p)
    BY <1>4, TransactionsGrow DEF CommitFor
  <2>2. GivenBack(i) \/ i \in S
    BY <1>1, <1>2, <1>4, <2>1 DEF BudgetSeen
  <2>3. GivenBack(i) => GivenBack(i)'
    BY <2>1, TransactionsGrow DEF GivenBack
  <2>4. i = m => GivenBack(i)'
    BY <1>2, <1>3 DEF GivenBack
  <2>5. QED
    BY <2>2, <2>3, <2>4
<1>5. CASE Cardinality(S) > 1
  <2>1. PICK rest : rest = S \ {m}
    OBVIOUS
  <2>2. calls' = [calls EXCEPT ![h].at = "release.check", ![h].commits = rest]
    BY <1>2, <1>3, <1>5, <2>1 DEF ReleaseNext
  <2>3. /\ calls'[h].at = "release.check" /\ calls'[h].commits = rest
        /\ calls'[h].op = calls[h].op /\ calls'[h].plan = p
        /\ calls'[h].request = calls[h].request
    BY <1>1, <1>2, <2>2 DEF Calls
  <2>4. StatusSeen(h)'
    BY <1>1, <1>2, <2>3
    DEF StatusSeen, Submitting, SubmittedSteps, ReserveSteps
  <2>5. RequestSeen(h)'
    BY <2>3 DEF RequestSeen, DirectSteps
  <2>6. BudgetSeen(h)'
    BY <1>4, <2>1, <2>3 DEF BudgetSeen
  <2>7. QED
    BY <2>4, <2>5, <2>6 DEF Seen
<1>6. CASE ~(Cardinality(S) > 1)
  <2>1. AfterRelease(h)
    BY <1>2, <1>6 DEF ReleaseNext
  <2>2. S \subseteq {m}
    BY <1>2, <1>3, <1>6, LastInHand
  <2>3. AllGivenBack(p)' \/ calls[h].op \notin Reviews
    BY <1>4, <2>2 DEF AllGivenBack
  <2>4. AllGivenBack(calls[h].plan)' \/ calls[h].op \notin Reviews
    <3>1. calls'[h].plan = calls[h].plan
      BY <1>1, <2>1 DEF AfterRelease, Forget, Calls
    <3>2. QED
      BY <1>2, <2>3, <3>1 DEF AllGivenBack, CommitFor, GivenBack
  <2>5. QED
    BY <2>1, <2>4, AfterReleaseSeen
<1>7. QED
  BY <1>5, <1>6

LEMMA ReleaseSeen ==
    ASSUME Inv, SerialInv, [Next]_vars, NEW h \in Handlers, Release(h)
    PROVE  Seen(h)'
<1>1. /\ TypeOK /\ StatusSeen(h) /\ BudgetSeen(h)
      /\ calls \in [Handlers -> Calls] /\ KeysInv
      /\ calls[h].at \in Releasing =>
           calls[h].op \in {"delete", "reviewReject", "reviewChanges"}
  BY DEF Inv, TypeOK, CallsInv, Trusts, Fits, SerialInv, Seen
<1> USE DEF Decisions, DecisionSteps, Reviews, Approvals, Rejections, Releasing
<1>2. CASE ReleaseLookup(h)
  <2>1. PICK S : S = FindBySource("COMMIT", calls[h].plan)
    OBVIOUS
  <2>2. calls[h].at = "release.lookup" /\ Reads
    BY <1>2 DEF ReleaseLookup, At
  <2>3. CASE S = {} /\ AfterRelease(h)
    <3>1. calls'[h].plan = calls[h].plan
      BY <1>1, <2>2, <2>3 DEF AfterRelease, Forget, Calls
    <3>2. AllGivenBack(calls[h].plan)'
      BY <2>1, <2>2, <2>3, <3>1
      DEF Reads, FindBySource, AllGivenBack, CommitFor
    <3>3. QED
      BY <2>2, <2>3, <3>2, AfterReleaseSeen DEF Reads
  <2>4. CASE calls' = [calls EXCEPT ![h].at = "release.check", ![h].commits = S]
    <3>1. /\ calls'[h].at = "release.check" /\ calls'[h].commits = S
          /\ calls'[h].op = calls[h].op /\ calls'[h].plan = calls[h].plan
          /\ calls'[h].request = calls[h].request
      BY <1>1, <2>4 DEF Calls
    <3>2. StatusSeen(h)'
      BY <1>1, <2>2, <3>1
      DEF StatusSeen, Reads, Submitting, SubmittedSteps, ReserveSteps
    <3>3. RequestSeen(h)'
      BY <3>1 DEF RequestSeen, DirectSteps
    <3>4. BudgetSeen(h)'
      BY <2>1, <2>2, <3>1 DEF BudgetSeen, Reads, CommitFor, FindBySource
    <3>5. QED
      BY <3>2, <3>3, <3>4 DEF Seen
  <2>5. QED
    BY <1>2, <2>1, <2>3, <2>4 DEF ReleaseLookup
<1>3. CASE ReleaseCheck(h)
  <2>1. calls[h].at = "release.check" /\ Reads
    BY <1>3 DEF ReleaseCheck, At
  <2>2. CASE Proceed(h, "release.insert")
    <3>1. GoesTo(h, "release.insert") /\ Keeps(h)
      BY <1>1, <2>2, ProceedMoves DEF Steps
    <3>2. StatusSeen(h)'
      BY <1>1, <2>1, <3>1
      DEF StatusSeen, GoesTo, Keeps, Reads, Submitting, SubmittedSteps,
          ReserveSteps
    <3>3. RequestSeen(h)'
      BY <3>1 DEF RequestSeen, GoesTo, DirectSteps
    <3>4. BudgetSeen(h)'
      BY <1>1, <2>1, <3>1
      DEF BudgetSeen, GoesTo, Keeps, Reads, CommitFor, GivenBack
    <3>5. QED
      BY <3>2, <3>3, <3>4 DEF Seen
  <2>3. CASE ReleaseNext(h) /\ ~KeyIsFree(ReleaseKey(h))
    <3>1. PICK m : m = Newest(calls[h].commits)
      OBVIOUS
    <3>2. m \in DOMAIN transactions /\ transactions[m].source = calls[h].plan
      BY <2>1, <3>1, InHand DEF FindBySource
    <3>3. PICK j \in DOMAIN transactions :
            transactions[j].key =
              Key("RELEASE", calls[h].plan, transactions[m].envelope)
      BY <2>3, <3>1
      DEF KeyIsFree, FindByIdempotencyKey, ReleaseKey, CommitInHand
    <3>4. /\ transactions[j].type = "RELEASE"
          /\ transactions[j].source = transactions[m].source
          /\ transactions[j].envelope = transactions[m].envelope
      <4>1. ASSUME NEW type, NEW source, NEW envelope, NEW key,
                   key = Key(type, source, envelope)
            PROVE  /\ key.type = type /\ key.source = source
                   /\ key.envelope = envelope
        BY <4>1 DEF Key
      <4>2. transactions[j].key = Key(transactions[j].type,
                                      transactions[j].source,
                                      transactions[j].envelope)
        BY <1>1 DEF KeysInv
      <4>3. QED
        BY <3>2, <3>3, <4>1, <4>2
    <3>5. GivenBack(m)
      BY <3>4 DEF GivenBack
    <3>6. GivenBack(m)'
      BY <2>1, <3>5 DEF GivenBack, Reads
    <3>7. QED
      BY <2>1, <2>3, <3>1, <3>6, ReleaseNextSeen DEF Reads
  <2>4. QED
    BY <1>3, <2>2, <2>3 DEF ReleaseCheck
<1>4. CASE ReleaseInsert(h)
  <2>1. calls[h].at = "release.insert" /\ ReleaseNext(h)
        /\ UNCHANGED <<requests, plans>>
    BY <1>4 DEF ReleaseInsert, At
  <2>2. PICK m : m = Newest(calls[h].commits)
    OBVIOUS
  <2>3. m \in DOMAIN transactions /\ transactions[m].source = calls[h].plan
    BY <2>1, <2>2, InHand DEF FindBySource
  <2>4. PICK row \in Transactions :
          /\ transactions' = Append(transactions, row)
          /\ row.type = "RELEASE" /\ row.source = calls[h].plan
          /\ row.envelope = transactions[m].envelope
    BY <1>4, <2>2, ReleasePosted DEF ReleaseRow, CommitInHand
  <2>5. PICK n \in Nat \ {0} :
          /\ DOMAIN transactions' = DOMAIN transactions \cup {n}
          /\ transactions'[n] = row
          /\ \A i \in DOMAIN transactions : transactions'[i] = transactions[i]
    BY <2>4, Appended
  <2>6. GivenBack(m)'
    BY <2>3, <2>4, <2>5 DEF GivenBack
  <2>7. \A i \in DOMAIN transactions' \ DOMAIN transactions :
           transactions'[i].type # "COMMIT"
    BY <2>4, <2>5
  <2>8. QED
    BY <2>1, <2>2, <2>6, <2>7, ReleaseNextSeen
<1>5. CASE ReleaseInsertDuplicate(h)
  BY <1>1, <1>5, ReturnSeen DEF ReleaseInsertDuplicate
<1>6. QED
  BY <1>2, <1>3, <1>4, <1>5 DEF Release

-----------------------------------------------------------------------------
(* What a call begins with.                                                *)

LEMMA BeginSeen ==
    ASSUME TypeOK, NEW h \in Handlers, NEW c \in Calls, Begin(h, c),
           \/ c.op \notin Decisions /\ c.at \in QuietSteps
           \/ /\ c.op \in {"submit", "submitForApproval"}
              /\ c.at \in {"submit.find", "submit.latest"}
              /\ plans[c.plan].status = "DRAFT"
           \/ /\ c.op = "escalate" /\ c.at = "escalate.write"
              /\ plans[c.plan].status = "PENDING_APPROVAL"
           \/ /\ c.op \in Decisions
              /\ c.at \in {"approve.find", "request.read", "reserve.lookup",
                           "release.lookup"}
              /\ c.op \in Reviews => c.at = "release.lookup"
              /\ plans[c.plan].status \in Pending
              /\ plans[c.plan].request = c.request
    PROVE  Seen(h)'
<1>1. calls'[h] = c /\ UNCHANGED plans
  BY BeginMoves DEF Reads
<1> USE DEF Decisions, DecisionSteps, Reviews, Approvals, Rejections,
            Submitting, SubmittedSteps, ReserveSteps, Releasing, DirectSteps
<1>2. CASE c.op \notin Decisions /\ c.at \in QuietSteps
  BY <1>1, <1>2, QuietSeen
<1>3. CASE ~(c.op \notin Decisions /\ c.at \in QuietSteps)
  <2>1. StatusSeen(h)'
    BY <1>1, <1>3 DEF StatusSeen
  <2>2. RequestSeen(h)'
    BY <1>1, <1>3 DEF RequestSeen
  <2>3. BudgetSeen(h)'
    BY <1>1, <1>3 DEF BudgetSeen
  <2>4. QED
    BY <2>1, <2>2, <2>3 DEF Seen
<1>4. QED
  BY <1>2, <1>3

LEMMA ArriveSeen ==
    ASSUME Inv, NEW h \in Handlers, Arrive(h)
    PROVE  Seen(h)'
<1>0. TypeOK /\ Idle \in Calls
  BY IdleCall DEF Inv
<1>i. Idle.op = "none" /\ Idle.at = "idle"
  BY DEF Idle
<1> PICK p \in Documents :
       \/ \E contents \in Edits : EditRead(h, p, contents)
       \/ Recalculate(h, p) \/ DeleteRead(h, p)
       \/ \E user \in Users :
            \/ SubmitRead(h, p, user) \/ SubmitForApprovalRead(h, p, user)
            \/ ApproveRead(h, p, user) \/ RejectRead(h, p, user)
            \/ ReviewApprove(h, p, user) \/ ReviewReject(h, p, user)
            \/ ReviewChanges(h, p, user) \/ ReviewEscalate(h, p, user)
            \/ Escalate(h, p, user)
  BY DEF Arrive
<1>p. /\ plans[p].contents \in Contents /\ plans[p].request \in Nat
      /\ plans[p].totalSpend \in Nat /\ plans[p].onInvoiceSpend \in Nat
      /\ plans[p].offInvoiceSpend \in Nat
  BY <1>0 DEF TypeOK, Plans
<1> USE DEF Decisions, Reviews, Approvals, Rejections, QuietSteps, Releasing
<1>1. ASSUME NEW contents \in Edits, EditRead(h, p, contents)
      PROVE  Seen(h)'
  <2> DEFINE c == [Idle EXCEPT !.op = "edit", !.at = "edit.write", !.plan = p,
                               !.contents = contents]
  <2>1. c \in Calls /\ c.op = "edit" /\ c.at = "edit.write"
    BY <1>0, PlanAssumption DEF Calls, Ops, Steps
  <2>2. Begin(h, c)
    BY <1>1 DEF EditRead
  <2> HIDE DEF c
  <2>3. QED
    BY <1>0, <2>1, <2>2, BeginSeen
<1>2. CASE Recalculate(h, p)
  <2> DEFINE c == [Idle EXCEPT !.op = "edit", !.at = "edit.recalculate",
                               !.plan = p]
  <2>1. c \in Calls /\ c.op = "edit" /\ c.at = "edit.recalculate"
    BY <1>0 DEF Calls, Ops, Steps
  <2>2. Begin(h, c)
    BY <1>2 DEF Recalculate
  <2> HIDE DEF c
  <2>3. QED
    BY <1>0, <2>1, <2>2, BeginSeen
<1>3. CASE DeleteRead(h, p)
  <2> DEFINE at == IF plans[p].totalSpend > 0 THEN "release.lookup"
                                              ELSE "delete.write"
             c == [Idle EXCEPT !.op = "delete", !.plan = p, !.at = at]
  <2>1. at \in {"release.lookup", "delete.write"}
    OBVIOUS
  <2>2. Begin(h, c)
    BY <1>3 DEF DeleteRead
  <2> HIDE DEF at
  <2>3. c \in Calls /\ c.op = "delete" /\ c.at = at
    BY <1>0, <2>1 DEF Calls, Ops, Steps
  <2> HIDE DEF c
  <2>4. QED
    BY <1>0, <2>1, <2>2, <2>3, BeginSeen
<1>4. ASSUME NEW user \in Users, SubmitRead(h, p, user)
      PROVE  Seen(h)'
  <2> DEFINE c == [Idle EXCEPT !.op = "submit", !.at = "submit.latest",
                               !.user = user, !.plan = p]
  <2>1. c \in Calls /\ c.op = "submit" /\ c.at = "submit.latest" /\ c.plan = p
    BY <1>0 DEF Calls, Ops, Submissions, Steps
  <2>2. Begin(h, c) /\ plans[p].status = "DRAFT"
    BY <1>4 DEF SubmitRead, Found
  <2> HIDE DEF c
  <2>3. QED
    BY <1>0, <2>1, <2>2, BeginSeen
<1>5. ASSUME NEW user \in Users, SubmitForApprovalRead(h, p, user)
      PROVE  Seen(h)'
  <2> DEFINE c == [Idle EXCEPT !.op = "submitForApproval", !.at = "submit.find",
                               !.user = user, !.plan = p,
                               !.contents = plans[p].contents]
  <2>1. /\ c \in Calls /\ c.op = "submitForApproval" /\ c.at = "submit.find"
        /\ c.plan = p
    BY <1>0, <1>p DEF Calls, Ops, Submissions, Steps
  <2>2. Begin(h, c) /\ plans[p].status = "DRAFT"
    BY <1>5 DEF SubmitForApprovalRead, Found
  <2> HIDE DEF c
  <2>3. QED
    BY <1>0, <2>1, <2>2, BeginSeen
<1>6. ASSUME NEW user \in Users, ApproveRead(h, p, user)
      PROVE  Seen(h)'
  <2> DEFINE r == plans[p].request
             due == <<plans[p].totalSpend>>
             c == [Idle EXCEPT !.op = "approve", !.at = "approve.find",
                               !.user = user, !.plan = p, !.request = r,
                               !.due = due]
  <2>1. r \in Nat /\ due \in Seq(Nat)
    BY <1>p
  <2>2. Begin(h, c) /\ plans[p].status = "PENDING_APPROVAL"
        /\ plans[p].request = r
    BY <1>6 DEF ApproveRead, Found
  <2> HIDE DEF r, due
  <2>3. /\ c \in Calls /\ c.op = "approve" /\ c.at = "approve.find"
        /\ c.plan = p /\ c.request = r
    BY <1>0, <2>1 DEF Calls, Ops, Steps
  <2> HIDE DEF c
  <2>4. QED
    BY <1>0, <2>2, <2>3, BeginSeen DEF Pending
<1>7. ASSUME NEW user \in Users, RejectRead(h, p, user)
      PROVE  Seen(h)'
  <2> DEFINE r == plans[p].request
             c == [Idle EXCEPT !.op = "reject", !.at = "request.read",
                               !.user = user, !.plan = p, !.request = r]
  <2>1. Begin(h, c) /\ plans[p].status = "PENDING_APPROVAL" /\ r \in Nat
        /\ plans[p].request = r
    BY <1>7, <1>p DEF RejectRead, Found
  <2> HIDE DEF r
  <2>2. /\ c \in Calls /\ c.op = "reject" /\ c.at = "request.read"
        /\ c.plan = p /\ c.request = r
    BY <1>0, <2>1 DEF Calls, Ops, Steps
  <2> HIDE DEF c
  <2>3. QED
    BY <1>0, <2>1, <2>2, BeginSeen DEF Pending
<1>8. ASSUME NEW user \in Users, ReviewApprove(h, p, user)
      PROVE  Seen(h)'
  <2> DEFINE r == plans[p].request
             due == Due(plans[p].onInvoiceSpend, plans[p].offInvoiceSpend)
             at == IF due = <<>> THEN "request.read" ELSE "reserve.lookup"
             c == [Idle EXCEPT !.op = "reviewApprove", !.user = user, !.plan = p,
                               !.request = r, !.due = due, !.at = at]
  <2>1. due \in Seq(Nat) /\ r \in Nat
    BY <1>p, DueAmounts
  <2>2. Begin(h, c) /\ plans[p].status \in Pending /\ plans[p].request = r
    BY <1>8 DEF ReviewApprove, MayReview, Found, Pending
  <2>3. at \in {"request.read", "reserve.lookup"}
    OBVIOUS
  <2> HIDE DEF due, at, r
  <2>4. /\ c \in Calls /\ c.op = "reviewApprove" /\ c.at = at /\ c.plan = p
        /\ c.request = r
    BY <1>0, <2>1, <2>3 DEF Calls, Ops, Steps
  <2> HIDE DEF c
  <2>5. QED
    BY <1>0, <2>2, <2>3, <2>4, BeginSeen
<1>9. ASSUME NEW user \in Users,
             NEW op \in {"reviewReject", "reviewChanges", "escalate"},
             NEW at \in {"release.lookup", "escalate.read"},
             op = "escalate" <=> at = "escalate.read",
             Review(h, p, user, op, at)
      PROVE  Seen(h)'
  <2> DEFINE r == plans[p].request
             c == [Idle EXCEPT !.op = op, !.at = at, !.user = user, !.plan = p,
                               !.request = r]
  <2>1. /\ Begin(h, c) /\ plans[p].status \in Pending /\ r \in Nat
        /\ plans[p].request = r
    BY <1>9, <1>p DEF Review, MayReview, Found, Pending
  <2> HIDE DEF r
  <2>2. op \in Ops /\ at \in Steps
    BY DEF Ops, Steps
  <2>3. c \in Calls /\ c.op = op /\ c.at = at /\ c.plan = p /\ c.request = r
    BY <1>0, <2>1, <2>2 DEF Calls
  <2> HIDE DEF c
  <2>4. CASE op = "escalate"
    <3>1. c.op \notin Decisions /\ c.at \in QuietSteps
      BY <1>9, <2>3, <2>4
    <3>2. QED
      BY <1>0, <2>1, <2>3, <3>1, BeginSeen
  <2>5. CASE op # "escalate"
    <3>1. c.op \in Decisions /\ c.at = "release.lookup"
      BY <1>9, <2>3, <2>5
    <3>2. QED
      BY <1>0, <2>1, <2>3, <3>1, BeginSeen
  <2>6. QED
    BY <2>4, <2>5
<1>10. ASSUME NEW user \in Users, Escalate(h, p, user)
       PROVE  Seen(h)'
  <2> DEFINE c == [Idle EXCEPT !.op = "escalate", !.at = "escalate.write",
                               !.user = user, !.plan = p]
  <2>1. /\ c \in Calls /\ c.op = "escalate" /\ c.at = "escalate.write"
        /\ c.plan = p
    BY <1>0 DEF Calls, Ops, Steps
  <2>2. Begin(h, c) /\ plans[p].status = "PENDING_APPROVAL"
    BY <1>10 DEF Escalate, Found
  <2> HIDE DEF c
  <2>3. QED
    BY <1>0, <2>1, <2>2, BeginSeen
<1>11. QED
  BY <1>1, <1>2, <1>3, <1>4, <1>5, <1>6, <1>7, <1>8, <1>9, <1>10
     DEF ReviewReject, ReviewChanges, ReviewEscalate

LEMMA DirectSeen ==
    ASSUME Inv, NEW h \in Handlers, Direct(h)
    PROVE  Seen(h)'
<1>1. TypeOK /\ Idle \in Calls /\ calls \in [Handlers -> Calls]
  BY IdleCall DEF Inv, TypeOK
<1>2. ASSUME NEW step, NEW status, DirectWrite(h, step, status)
      PROVE  Seen(h)'
  BY <1>1, <1>2, ReturnSeen DEF DirectWrite
<1>3. ASSUME NEW r \in DOMAIN requests, NEW user \in Users,
             NEW step \in DirectSteps, requests[r].status = "PENDING",
             DirectRead(h, r, user, step)
      PROVE  Seen(h)'
  <2> DEFINE c == [Idle EXCEPT !.op = "direct", !.at = step, !.user = user,
                               !.plan = requests[r].entity, !.request = r]
  <2>1. calls'[h] = c /\ UNCHANGED requests
    BY <1>1, <1>3 DEF DirectRead, Begin
  <2>2. /\ c.op = "direct" /\ c.at = step /\ c.request = r
        /\ c.plan = requests[r].entity
    BY <1>1 DEF Calls
  <2> HIDE DEF c
  <2>3. QED
    BY <1>3, <2>1, <2>2
    DEF Seen, StatusSeen, RequestSeen, BudgetSeen, DirectSteps, Decisions,
        Reviews, Approvals, Rejections, Submitting, SubmittedSteps, ReserveSteps
<1>4. QED
  BY <1>2, <1>3
  DEF Direct, DirectApproveRead, DirectRejectRead, DirectWithdrawRead,
      DirectSteps, MayDecide, MayWithdraw

-----------------------------------------------------------------------------
(* Each part of the invariant is kept.                                     *)

\* Filing a request leaves the others as they are.
LEMMA InsertKeeps ==
    ASSUME Inv, NEW h \in Handlers, SubmitInsert(h), NEW r \in DOMAIN requests
    PROVE  requests'[r] = requests[r]
<1> DEFINE row == [entity |-> calls[h].plan, requester |-> calls[h].user,
                   status |-> "PENDING", decidedBy |-> NoUser]
<1>1. /\ requests \in Seq(Requests) /\ r \in 1..Len(requests)
      /\ requests' = Append(requests, row)
  BY LenProperties DEF Inv, TypeOK, ApprovalTypeOK, SubmitInsert, InsertRequest
<1>2. calls[h].plan \in Documents /\ calls[h].user \in Users
  BY DEF SubmitInsert, At, Inv, CallsInv, Trusts, Sound, Submitting
<1>3. row \in Requests
  BY <1>2 DEF Requests, RequestStatuses
<1> HIDE DEF row
<1>4. QED
  BY <1>1, <1>3, AppendProperties

\* A request is filed while no other of its plan can be decided, or a request
\* that can be decided is decided.
LEMMA RequestWrites ==
    ASSUME Inv, SerialInv, [Next]_vars
    PROVE  \/ \E h \in Handlers : SubmitInsert(h)
           \/ \E h \in Handlers, status \in {"APPROVED", "REJECTED", "CANCELLED"} :
                /\ calls[h].at \in {"request.write"} \cup DirectSteps
                /\ calls'[h] # calls[h]
                /\ WriteDecision(calls[h].request, status, calls[h].user)
           \/ UNCHANGED requests
<1>0. calls \in [Handlers -> Calls] /\ Idle.at = "idle"
  BY DEF Inv, TypeOK, Idle
<1>1. CASE UNCHANGED vars
  BY <1>1 DEF vars
<1>2. CASE \E p \in Documents : Create(p)
  BY <1>2 DEF Create, WritesPlan
<1>3. CASE \E e \in Envelopes : OpenEnvelope(e)
  BY <1>3 DEF OpenEnvelope
<1>4. ASSUME NEW h \in Handlers, Arrive(h)
      PROVE  UNCHANGED requests
  BY <1>4, ArriveMoves DEF Reads
<1>5. ASSUME NEW h \in Handlers, Edit(h) \/ Submit(h) \/ Fail(h)
      PROVE  SubmitInsert(h) \/ UNCHANGED requests
  BY <1>5 DEF Edit, EditWrite, RecalculateRead, RecalculateWrite, Submit,
              SubmitFind, SubmitStatus, SubmitCheck, SubmitLatest,
              SubmitWrite, SubmitForApprovalWrite, SubmitReread, SubmitRollback,
              Fail, Reads, WritesPlan
<1>6. ASSUME NEW h \in Handlers, Reserve(h) \/ Release(h)
      PROVE  UNCHANGED requests
  BY <1>6 DEF Reserve, ApproveFind, ApproveCreate, ApproveCreateConflict,
              ReserveLookup, ReserveFind, ReserveAvailable, ReserveInsert,
              ReserveInsertDuplicate, Release, ReleaseLookup, ReleaseCheck,
              ReleaseInsert, ReleaseInsertDuplicate, Reads
<1>7. ASSUME NEW h \in Handlers, Decide(h)
      PROVE  \/ \E status \in {"APPROVED", "REJECTED", "CANCELLED"} :
                  /\ calls[h].at = "request.write"
                  /\ calls'[h] # calls[h]
                  /\ WriteDecision(calls[h].request, status, calls[h].user)
             \/ UNCHANGED requests
  <2>1. CASE RequestWrite(h)
    BY <1>0, <2>1 DEF RequestWrite, At, Proceed, Calls
  <2>2. CASE ~RequestWrite(h)
    BY <1>7, <2>2 DEF Decide, RequestRead, StatusWrite, EscalateRead,
                      EscalateWrite, DeleteWrite, Reads, WritesPlan
  <2>3. QED
    BY <2>1, <2>2
<1>8. ASSUME NEW h \in Handlers, Direct(h)
      PROVE  \/ \E status \in {"APPROVED", "REJECTED", "CANCELLED"} :
                  /\ calls[h].at \in DirectSteps
                  /\ calls'[h] # calls[h]
                  /\ WriteDecision(calls[h].request, status, calls[h].user)
             \/ UNCHANGED requests
  <2>1. ASSUME NEW step \in DirectSteps, NEW status, DirectWrite(h, step, status)
        PROVE  /\ calls[h].at \in DirectSteps
               /\ calls'[h] # calls[h]
               /\ WriteDecision(calls[h].request, status, calls[h].user)
    BY <1>0, <2>1 DEF DirectWrite, At, Return, DirectSteps
  <2>2. ASSUME NEW r \in DOMAIN requests, NEW user \in Users,
               \/ DirectApproveRead(h, r, user) \/ DirectRejectRead(h, r, user)
               \/ DirectWithdrawRead(h, r, user)
        PROVE  UNCHANGED requests
    BY <2>2 DEF DirectApproveRead, DirectRejectRead, DirectWithdrawRead,
                DirectRead, Begin
  <2>3. /\ "direct.approve" \in DirectSteps /\ "direct.reject" \in DirectSteps
        /\ "direct.withdraw" \in DirectSteps
    BY DEF DirectSteps
  <2>4. QED
    BY <1>8, <2>1, <2>2, <2>3 DEF Direct
<1>9. QED
  BY <1>1, <1>2, <1>3, <1>4, <1>5, <1>6, <1>7, <1>8 DEF Next

\* A decided request stays as it is, and nothing becomes pending again.
LEMMA RequestRows ==
    ASSUME Inv, SerialInv, [Next]_vars
    PROVE  /\ \A r \in DOMAIN requests :
                \/ requests'[r].status = requests[r].status
                \/ /\ requests[r].status = "PENDING"
                   /\ requests'[r].status # "PENDING"
           /\ \A r \in DOMAIN requests' \ DOMAIN requests :
                /\ r = Len(requests) + 1
                /\ NonePending(requests'[r].entity)
                /\ \E g \in Handlers : /\ SubmitInsert(g)
                                       /\ requests'[r].entity = calls[g].plan
<1>1. /\ requests \in Seq(Requests) /\ Len(requests) \in Nat
      /\ DOMAIN requests = 1..Len(requests)
      /\ \A r \in DOMAIN requests : requests[r] \in Requests
  BY LenProperties, ElementOfSeq DEF Inv, TypeOK, ApprovalTypeOK
<1>2. ASSUME NEW h \in Handlers, SubmitInsert(h)
      PROVE  /\ \A r \in DOMAIN requests : requests'[r] = requests[r]
             /\ \A r \in DOMAIN requests' \ DOMAIN requests :
                  /\ r = Len(requests) + 1
                  /\ NonePending(requests'[r].entity)
                  /\ requests'[r].entity = calls[h].plan
  <2> DEFINE row == [entity |-> calls[h].plan, requester |-> calls[h].user,
                     status |-> "PENDING", decidedBy |-> NoUser]
  <2>1. calls[h].at = "submit.insert" /\ requests' = Append(requests, row)
    BY <1>2 DEF SubmitInsert, At, InsertRequest
  <2>2. NonePending(calls[h].plan)
    BY <2>1 DEF SerialInv, Seen, RequestSeen
  <2>3. calls[h].plan \in Documents /\ calls[h].user \in Users
    BY <2>1 DEF Inv, CallsInv, Trusts, Sound, Submitting
  <2>4. row \in Requests /\ row.entity = calls[h].plan
    BY <2>3 DEF Requests, RequestStatuses
  <2> HIDE DEF row
  <2>5. /\ Len(requests') = Len(requests) + 1
        /\ requests' \in Seq(Requests)
        /\ \A i \in 1..Len(requests) : requests'[i] = requests[i]
        /\ requests'[Len(requests) + 1] = row
    BY <1>1, <2>1, <2>4, AppendProperties
  <2>6. DOMAIN requests' = 1..(Len(requests) + 1)
    BY <2>5, LenProperties
  <2>7. QED
    BY <1>1, <2>2, <2>4, <2>5, <2>6
<1>3. ASSUME NEW h \in Handlers,
             NEW status \in {"APPROVED", "REJECTED", "CANCELLED"},
             calls[h].at \in {"request.write"} \cup DirectSteps,
             WriteDecision(calls[h].request, status, calls[h].user)
      PROVE  /\ DOMAIN requests' = DOMAIN requests
             /\ \A r \in DOMAIN requests :
                  \/ requests'[r].status = requests[r].status
                  \/ /\ requests[r].status = "PENDING"
                     /\ requests'[r].status # "PENDING"
  <2>1. PICK q, user : q = calls[h].request /\ user = calls[h].user
    OBVIOUS
  <2>2. q \in DOMAIN requests /\ requests[q].status = "PENDING"
    BY <1>3, <2>1 DEF SerialInv, Seen, RequestSeen
  <2>3. requests' = [requests EXCEPT ![q] =
                       [@ EXCEPT !.status = status, !.decidedBy = user]]
    BY <1>1, <1>3, <2>1 DEF WriteDecision
  <2>4. DOMAIN requests' = DOMAIN requests
    BY <2>3
  <2>5. requests'[q].status = status
    BY <1>1, <2>2, <2>3 DEF Requests
  <2>6. \A r \in DOMAIN requests \ {q} : requests'[r] = requests[r]
    BY <2>3
  <2>7. QED
    BY <2>2, <2>4, <2>5, <2>6
<1>4. QED
  BY <1>2, <1>3, RequestWrites

LEMMA NewestPendingStep ==
    ASSUME Inv, SerialInv, [Next]_vars
    PROVE  NewestPending'
<1>1. DOMAIN requests = 1..Len(requests) /\ Len(requests) \in Nat
  BY LenProperties DEF Inv, TypeOK, ApprovalTypeOK
<1>2. ASSUME NEW i \in DOMAIN requests', NEW j \in DOMAIN requests',
             requests'[i].entity = requests'[j].entity,
             requests'[i].status = "PENDING"
      PROVE  j <= i
  <2>1. CASE i \in DOMAIN requests /\ j \in DOMAIN requests
    <3>1. /\ requests[i].status = "PENDING"
          /\ requests[i].entity = requests[j].entity
      BY <1>2, <2>1, RequestRows, RequestsGrow
    <3>2. QED
      BY <2>1, <3>1 DEF SerialInv, NewestPending
  <2>2. CASE i \in DOMAIN requests /\ j \notin DOMAIN requests
    <3>1. requests[i].status = "PENDING" /\ NonePending(requests'[j].entity)
      BY <1>2, <2>2, RequestRows
    <3>2. requests[i].entity = requests'[j].entity
      BY <1>2, <2>2, RequestsGrow
    <3>3. QED
      BY <2>2, <3>1, <3>2 DEF NonePending
  <2>3. CASE i \notin DOMAIN requests
    <3>1. i = Len(requests) + 1
      BY <2>3, RequestRows
    <3>2. j \in DOMAIN requests \/ j = Len(requests) + 1
      BY RequestRows
    <3>3. QED
      BY <1>1, <3>1, <3>2
  <2>4. QED
    BY <2>1, <2>2, <2>3
<1>3. QED
  BY <1>2 DEF NewestPending

\* What a statement makes of the status of a plan, and which call it is.
Moves(p, h) ==
    /\ calls[h].plan = p
    /\ calls'[h] # calls[h]
    /\ \/ /\ calls[h].at = "submit.write"
          /\ plans'[p].status = "PENDING_APPROVAL"
       \/ /\ calls[h].at = "submit.rollback"
          /\ plans'[p].status = "DRAFT"
       \/ /\ calls[h].at = "escalate.write"
          /\ plans'[p].status = "PENDING_FINANCE_REVIEW"
       \/ /\ calls[h].at = "status.write"
          /\ plans'[p].request = plans[p].request
          /\ \/ calls[h].op \in Approvals /\ plans'[p].status = "APPROVED"
             \/ calls[h].op \in Rejections /\ plans'[p].status = "REJECTED"
             \/ calls[h].op = "reviewChanges" /\ plans'[p].status = "DRAFT"

LEMMA PlanMoves ==
    ASSUME Inv, [Next]_vars, NEW p \in Documents
    PROVE  \/ /\ plans'[p].status = plans[p].status
              /\ plans'[p].request = plans[p].request
           \/ /\ plans[p].status = "ABSENT"
              /\ plans'[p].status = "DRAFT"
           \/ \E h \in Handlers : Moves(p, h)
<1>1. plans \in [Documents -> Plans] /\ calls \in [Handlers -> Calls]
  BY DEF Inv, TypeOK
<1> DEFINE Same == /\ plans'[p].status = plans[p].status
                   /\ plans'[p].request = plans[p].request
<1>2. ASSUME NEW q \in Documents, Create(q)
      PROVE  \/ Same
             \/ plans[p].status = "ABSENT" /\ plans'[p].status = "DRAFT"
  BY <1>1, <1>2 DEF Create, Plans
<1>3. ASSUME NEW h \in Handlers,
             EditWrite(h) \/ RecalculateWrite(h) \/ DeleteWrite(h)
      PROVE  Same
  <2>1. PICK contents, total : /\ contents = calls[h].contents
                               /\ total = Spend(calls[h].contents)
    OBVIOUS
  <2>2. CASE plans' = [plans EXCEPT ![calls[h].plan].contents = contents]
    BY <1>1, <2>2 DEF Plans
  <2>3. CASE plans' = [plans EXCEPT ![calls[h].plan].totalSpend = total]
    BY <1>1, <2>3 DEF Plans
  <2>4. CASE plans' = [plans EXCEPT ![calls[h].plan].deleted = TRUE]
    BY <1>1, <2>4 DEF Plans
  <2>5. QED
    BY <1>3, <2>1, <2>2, <2>3, <2>4
    DEF EditWrite, RecalculateWrite, DeleteWrite
<1>4. ASSUME NEW h \in Handlers, calls[h].plan # p,
             \/ SubmitWrite(h) \/ SubmitForApprovalWrite(h)
             \/ SubmitRollback(h) \/ StatusWrite(h) \/ EscalateWrite(h)
      PROVE  Same
  <2>1. PICK row : plans' = [plans EXCEPT ![calls[h].plan] = row]
    BY <1>1, <1>4
    DEF SubmitWrite, SubmitForApprovalWrite, SubmitRollback, StatusWrite,
        EscalateWrite, SetStatus
  <2>2. QED
    BY <1>1, <1>4, <2>1
<1>5. ASSUME NEW h \in Handlers, calls[h].plan = p, NEW status,
             SetStatus(h, status)
      PROVE  plans'[p].status = status /\ plans'[p].request = plans[p].request
  BY <1>1, <1>5 DEF SetStatus, Plans
<1>r. ASSUME NEW h \in Handlers, calls[h].at # "idle", Return(h)
      PROVE  calls'[h] # calls[h]
  BY <1>1, <1>r DEF Return, Idle
<1>6. ASSUME NEW h \in Handlers, calls[h].plan = p,
             SubmitWrite(h) \/ SubmitForApprovalWrite(h)
      PROVE  Moves(p, h)
  <2>1. calls[h].at = "submit.write"
    BY <1>6 DEF SubmitWrite, SubmitForApprovalWrite, At
  <2>c. calls'[h] # calls[h]
    <3>1. PICK due : due = Due(calls[h].contents.on, calls[h].contents.off)
      OBVIOUS
    <3>2. CASE calls' = [calls EXCEPT ![h].at = "submit.reread",
                                      ![h].contents = Empty, ![h].due = due]
      BY <1>1, <2>1, <3>2 DEF Calls
    <3>3. CASE Return(h)
      BY <1>r, <2>1, <3>3
    <3>4. QED
      BY <1>6, <3>1, <3>2, <3>3 DEF SubmitWrite, SubmitForApprovalWrite
  <2>2. PICK r, user, on, off :
          /\ r = calls[h].request /\ user = calls[h].user
          /\ on = calls[h].contents.on /\ off = calls[h].contents.off
    OBVIOUS
  <2>3. CASE plans' = [plans EXCEPT ![p].status = "PENDING_APPROVAL",
                                    ![p].request = r]
    BY <1>1, <1>6, <2>1, <2>c, <2>3 DEF Moves, Plans
  <2>4. CASE plans' = [plans EXCEPT ![p] =
                         [@ EXCEPT !.status = "PENDING_APPROVAL",
                                   !.request = r, !.submittedBy = user,
                                   !.onInvoiceSpend = on,
                                   !.offInvoiceSpend = off]]
    BY <1>1, <1>6, <2>1, <2>c, <2>4 DEF Moves, Plans
  <2>5. QED
    BY <1>6, <2>2, <2>3, <2>4 DEF SubmitWrite, SubmitForApprovalWrite
<1>7. ASSUME NEW h \in Handlers, calls[h].plan = p,
             SubmitRollback(h) \/ EscalateWrite(h)
      PROVE  Moves(p, h)
  BY <1>5, <1>7, <1>r DEF SubmitRollback, EscalateWrite, At, Moves
<1>8. ASSUME NEW h \in Handlers, calls[h].plan = p, StatusWrite(h)
      PROVE  Moves(p, h)
  <2>1. /\ calls[h].at = "status.write"
        /\ calls[h].op \in Approvals \cup Rejections \cup {"reviewChanges"}
    BY <1>8 DEF StatusWrite, At, Inv, CallsInv, Trusts, Fits
  <2>c. calls'[h] # calls[h]
    BY <1>8, <1>r, <2>1 DEF StatusWrite
  <2>2. CASE calls[h].op \in Approvals
    BY <1>5, <1>8, <2>1, <2>c, <2>2 DEF StatusWrite, Moves
  <2>3. CASE calls[h].op \in Rejections
    BY <1>5, <1>8, <2>1, <2>c, <2>3 DEF StatusWrite, Moves, Approvals, Rejections
  <2>4. CASE calls[h].op = "reviewChanges"
    BY <1>5, <1>8, <2>1, <2>c, <2>4 DEF StatusWrite, Moves, Approvals, Rejections
  <2>5. QED
    BY <2>1, <2>2, <2>3, <2>4
<1>9. QED
  BY <1>2, <1>3, <1>4, <1>6, <1>7, <1>8, PlanChanges

\* A COMMIT row is inserted by a call that reserves, and goes on.
LEMMA CommitRows ==
    ASSUME Inv, [Next]_vars, NEW i \in DOMAIN transactions' \ DOMAIN transactions,
           transactions'[i].type = "COMMIT"
    PROVE  \E g \in Handlers : /\ calls[g].at = "reserve.insert"
                               /\ calls'[g] # calls[g]
                               /\ transactions'[i].source = calls[g].plan
<1>1. calls \in [Handlers -> Calls]
  BY DEF Inv, TypeOK
<1>2. PICK g \in Handlers : ReserveInsert(g) \/ ReleaseInsert(g)
  BY TransactionSteps
<1>3. CASE ReleaseInsert(g)
  <2>1. PICK row \in Transactions : /\ transactions' = Append(transactions, row)
                                    /\ row.type = "RELEASE"
    BY <1>3, ReleasePosted DEF ReleaseRow
  <2>2. transactions'[i] = row
    BY <2>1, Appended
  <2>3. QED
    BY <2>1, <2>2
<1>4. CASE ReserveInsert(g)
  <2>1. PICK row \in Transactions : /\ transactions' = Append(transactions, row)
                                    /\ row.source = calls[g].plan
    BY <1>4, CommitPosted DEF CommitRow
  <2>2. transactions'[i] = row
    BY <2>1, Appended
  <2>3. calls[g].at = "reserve.insert" /\ ReserveNext(g)
    BY <1>4 DEF ReserveInsert, At
  <2>4. calls'[g].at # "reserve.insert"
    <3>1. CASE calls' = [calls EXCEPT ![g].at = "reserve.lookup",
                                      ![g].due = Tail(@),
                                      ![g].envelope = NoEnvelope]
      BY <1>1, <3>1 DEF Calls
    <3>2. CASE Return(g)
      BY <1>1, <3>2 DEF Return, Idle
    <3>3. CASE Forget(g, "request.read")
      <4>1. TypeOK /\ "request.read" \in Steps
        BY DEF Inv, Steps
      <4>2. QED
        BY <3>3, <4>1, ForgetMoves DEF GoesTo
    <3>4. QED
      BY <2>3, <3>1, <3>2, <3>3 DEF ReserveNext, AfterReserve
  <2>5. QED
    BY <2>1, <2>2, <2>3, <2>4
<1>5. QED
  BY <1>2, <1>3, <1>4

\* Whoever takes a step, it is one of the steps of the call that it changes.
LEMMA OwnStep ==
    ASSUME Inv, [Next]_vars, NEW h \in Handlers, calls'[h] # calls[h]
    PROVE  \/ Arrive(h) \/ Edit(h) \/ Submit(h) \/ Reserve(h) \/ Release(h)
           \/ Decide(h) \/ Direct(h) \/ Fail(h)
<1>1. ASSUME NEW g \in Handlers,
             \/ Arrive(g) \/ Edit(g) \/ Submit(g) \/ Reserve(g) \/ Release(g)
             \/ Decide(g) \/ Direct(g) \/ Fail(g)
      PROVE  g = h
  <2>1. CASE SubmitInsert(g)
    BY <2>1 DEF SubmitInsert, Inv, TypeOK
  <2>2. CASE ~SubmitInsert(g)
    <3>1. Moved(g)
      BY <1>1, <2>2, ArriveMoves, EditMoves, SubmitMoves, ReserveMoves,
         ReleaseMoves, DecideMoves, DirectMoves, FailMoves
    <3>2. QED
      BY <3>1 DEF Moved
  <2>3. QED
    BY <2>1, <2>2
<1>2. \E g \in Handlers :
        \/ Arrive(g) \/ Edit(g) \/ Submit(g) \/ Reserve(g) \/ Release(g)
        \/ Decide(g) \/ Direct(g) \/ Fail(g)
  BY DEF Next, vars, Create, OpenEnvelope
<1>3. QED
  BY <1>1, <1>2

\* What a call relies on is left alone by the calls it keeps apart from, and by
\* those that rely on nothing.
LEMMA OthersSee ==
    ASSUME Apart, Inv, SerialInv, [Next]_vars, NEW h \in Handlers,
           calls'[h] = calls[h], Relying(h)
    PROVE  Seen(h)'
<1>1. Seen(h) /\ Trusts(calls[h]) /\ calls[h] \in Calls
  BY DEF Inv, TypeOK, CallsInv, SerialInv
<1>2. PICK p \in Documents : p = calls[h].plan
  <2>1. calls[h].at # "idle"
    BY <1>1 DEF Relying, Seen, StatusSeen, DecisionSteps, ReserveSteps, Releasing,
                QuietSteps
  <2>2. QED
    BY <1>1, <2>1 DEF Trusts, Sound
<1>3. ASSUME NEW g \in Handlers, Relying(g), calls'[g] # calls[g]
      PROVE  calls[g].plan # p
  BY <1>2, <1>3 DEF Apart
<1>4. ASSUME NEW g \in Handlers
      PROVE  ~Moves(p, g)
  BY <1>3 DEF Moves, Relying, QuietSteps, Releasing
<1>5. StatusSeen(h)'
  <2>1. CASE /\ plans'[p].status = plans[p].status
             /\ plans'[p].request = plans[p].request
    BY <1>1, <1>2, <2>1 DEF Seen, StatusSeen
  <2>2. CASE plans[p].status = "ABSENT"
    BY <1>1, <1>2, <2>2 DEF Seen, StatusSeen, Pending
  <2>3. QED
    BY <1>4, <2>1, <2>2, PlanMoves
<1>6. ASSUME NEW g \in Handlers,
             calls[g].at \in {"request.write"} \cup DirectSteps
      PROVE  Filed(calls[g].plan, calls[g].request)
  <2>1. Seen(g) /\ Trusts(calls[g])
    BY DEF SerialInv, Inv, CallsInv
  <2>2. CASE calls[g].at \in DirectSteps
    BY <2>1, <2>2 DEF Seen, RequestSeen, Filed
  <2>3. CASE calls[g].at = "request.write"
    <3>1. calls[g].op \in Decisions /\ calls[g].plan \in Documents
      BY <2>1, <2>3 DEF Trusts, Fits, Sound, Decisions
    <3>2. QED
      BY <2>1, <3>1 DEF Seen, StatusSeen, Inv, PlansInv, Pending
  <2>4. QED
    BY <1>6, <2>2, <2>3
<1>7. RequestSeen(h)'
  <2>1. CASE calls[h].at = "submit.insert"
    <3>1. ASSUME NEW r \in DOMAIN requests', requests'[r].entity = p
          PROVE  requests'[r].status # "PENDING"
      <4>1. CASE r \in DOMAIN requests
        <5>1. requests[r].entity = p /\ requests[r].status # "PENDING"
          BY <1>1, <1>2, <2>1, <3>1, <4>1, RequestsGrow
          DEF Seen, RequestSeen, NonePending
        <5>2. QED
          BY <4>1, <5>1, RequestRows
      <4>2. CASE r \notin DOMAIN requests
        <5>1. PICK g \in Handlers : /\ SubmitInsert(g)
                                    /\ requests'[r].entity = calls[g].plan
          BY <4>2, RequestRows
        <5>2. Relying(g) /\ calls'[g] # calls[g]
          BY <5>1 DEF SubmitInsert, At, Relying, QuietSteps, Releasing, Inv,
                      TypeOK, Calls
        <5>3. QED
          BY <1>3, <3>1, <5>1, <5>2
      <4>3. QED
        BY <4>1, <4>2
    <3>2. NonePending(p)'
      BY <3>1 DEF NonePending
    <3>3. QED
      BY <1>2, <2>1, <3>2 DEF RequestSeen, NonePending, DirectSteps
  <2>2. CASE calls[h].at \in {"request.write"} \cup DirectSteps
    <3>1. PICK r \in DOMAIN requests : /\ r = calls[h].request
                                       /\ requests[r].entity = p
                                       /\ requests[r].status = "PENDING"
      BY <1>1, <1>2, <1>6, <2>2 DEF Seen, RequestSeen, Filed
    <3>2. requests'[r] = requests[r]
      <4>1. ASSUME NEW g \in Handlers, NEW status,
                   calls[g].at \in {"request.write"} \cup DirectSteps,
                   calls'[g] # calls[g],
                   WriteDecision(calls[g].request, status, calls[g].user)
            PROVE  requests'[r] = requests[r]
        <5>1. Relying(g)
          BY <4>1 DEF Relying, QuietSteps, Releasing, DirectSteps
        <5>2. calls[g].request # r
          BY <1>3, <1>6, <3>1, <4>1, <5>1 DEF Filed
        <5>3. QED
          BY <3>1, <4>1, <5>2 DEF WriteDecision
      <4>2. ASSUME NEW g \in Handlers, SubmitInsert(g)
            PROVE  requests'[r] = requests[r]
        BY <3>1, <4>2, InsertKeeps
      <4>3. QED
        BY <4>1, <4>2, RequestWrites
    <3>3. r \in DOMAIN requests'
      BY <3>1, RequestsGrow
    <3>4. QED
      BY <1>2, <2>2, <3>1, <3>2, <3>3 DEF RequestSeen, DirectSteps
  <2>3. CASE calls[h].at = "status.write"
    <3>1. calls[h].request \in DOMAIN requests
      <4>1. calls[h].op \in Decisions
        BY <1>1, <2>3 DEF Trusts, Fits, Decisions
      <4>2. QED
        BY <1>1, <1>2, <4>1 DEF Seen, StatusSeen, Inv, PlansInv, Filed, Pending
    <3>2. QED
      BY <1>1, <2>3, <3>1, RequestRows DEF Seen, RequestSeen, DirectSteps
  <2>4. QED
    BY <2>1, <2>2, <2>3 DEF RequestSeen
<1>8. ASSUME NEW i \in DOMAIN transactions', CommitFor(i, p)'
      PROVE  i \in DOMAIN transactions /\ CommitFor(i, p)
  <2>1. i \in DOMAIN transactions
    <3>1. ASSUME i \notin DOMAIN transactions
          PROVE  FALSE
      <4>1. PICK g \in Handlers : /\ calls[g].at = "reserve.insert"
                                  /\ calls'[g] # calls[g]
                                  /\ transactions'[i].source = calls[g].plan
        BY <1>8, <3>1, CommitRows DEF CommitFor
      <4>2. Relying(g)
        BY <4>1 DEF Relying, QuietSteps, Releasing
      <4>3. QED
        BY <1>3, <1>8, <4>1, <4>2 DEF CommitFor
    <3>2. QED
      BY <3>1
  <2>2. QED
    BY <1>8, <2>1, TransactionsGrow DEF CommitFor
<1>9. ASSUME NEW i \in DOMAIN transactions, GivenBack(i)
      PROVE  GivenBack(i)'
  BY <1>9, TransactionsGrow DEF GivenBack
<1>10. BudgetSeen(h)'
  BY <1>1, <1>2, <1>8, <1>9 DEF Seen, BudgetSeen, NothingCommitted
<1>11. QED
  BY <1>5, <1>7, <1>10 DEF Seen

\* What a call has seen stays so, whichever call takes the step.
LEMMA SeenStep ==
    ASSUME Apart, Inv, SerialInv, [Next]_vars, NEW h \in Handlers
    PROVE  Seen(h)'
<1>1. Seen(h)
  BY DEF SerialInv
<1>2. CASE calls'[h] = calls[h]
  <2>1. CASE ~Relying(h)
    BY <1>2, <2>1, QuietSeen DEF Relying
  <2>2. QED
    BY <1>2, <2>1, OthersSee
<1>3. CASE calls'[h] # calls[h]
  BY <1>1, <1>3, OwnStep, ArriveSeen, EditSeen, SubmitSeen, ReserveSeen,
     ReleaseSeen, DecideSeen, DirectSeen, FailSeen
<1>4. QED
  BY <1>2, <1>3

LEMMA StatusMatchesStep ==
    ASSUME Inv, SerialInv, [Next]_vars
    PROVE  StatusMatchesRequest'
<1>1. ASSUME NEW p \in Documents, NEW r \in DOMAIN requests,
             r = plans'[p].request, requests[r].status = plans'[p].status,
             plans'[p].status \in {"APPROVED", "REJECTED"}
      PROVE  requests'[plans'[p].request].status = plans'[p].status
  BY <1>1, RequestRows
<1>2. ASSUME NEW p \in Documents,
             plans'[p].status \in {"APPROVED", "REJECTED"}
      PROVE  requests'[plans'[p].request].status = plans'[p].status
  <2>1. plans[p].status \in {"APPROVED", "REJECTED"} \cup Pending =>
          plans[p].request \in DOMAIN requests
    BY DEF Inv, PlansInv, Filed, Pending
  <2>2. CASE /\ plans'[p].status = plans[p].status
             /\ plans'[p].request = plans[p].request
    BY <1>1, <1>2, <2>1, <2>2 DEF SerialInv, StatusMatchesRequest
  <2>3. CASE \E h \in Handlers : Moves(p, h)
    <3>1. PICK h \in Handlers :
            /\ calls[h].plan = p /\ calls[h].at = "status.write"
            /\ plans'[p].request = plans[p].request
            /\ \/ calls[h].op \in Approvals /\ plans'[p].status = "APPROVED"
               \/ calls[h].op \in Rejections /\ plans'[p].status = "REJECTED"
      BY <1>2, <2>3 DEF Moves
    <3>2. /\ plans[p].status \in Pending /\ plans[p].request = calls[h].request
          /\ requests[calls[h].request].status = plans'[p].status
      BY <3>1 DEF SerialInv, Seen, StatusSeen, RequestSeen, Decisions
    <3>3. QED
      BY <1>1, <1>2, <2>1, <3>1, <3>2
  <2>4. QED
    BY <1>2, <2>2, <2>3, PlanMoves
<1>3. QED
  BY <1>2 DEF StatusMatchesRequest

LEMMA CommitsOnceStep ==
    ASSUME Inv, SerialInv, [Next]_vars
    PROVE  CommitsOnce'
<1>1. CASE UNCHANGED transactions
  BY <1>1 DEF SerialInv, CommitsOnce, CommitFor
<1>2. ASSUME NEW h \in Handlers, ReserveInsert(h) \/ ReleaseInsert(h)
      PROVE  CommitsOnce'
  <2>1. PICK row \in Transactions :
          /\ transactions' = Append(transactions, row)
          /\ row.type = "COMMIT" =>
               calls[h].at = "reserve.insert" /\ row.source = calls[h].plan
    BY <1>2, CommitPosted, ReleasePosted
    DEF CommitRow, ReleaseRow, ReserveInsert, At
  <2>2. PICK n \in Nat \ {0} :
          /\ DOMAIN transactions' = DOMAIN transactions \cup {n}
          /\ transactions'[n] = row
          /\ \A i \in DOMAIN transactions : transactions'[i] = transactions[i]
    BY <2>1, Appended
  <2>3. row.type = "COMMIT" => NothingCommitted(row.source)
    BY <2>1 DEF SerialInv, Seen, BudgetSeen
  <2>4. QED
    BY <2>2, <2>3 DEF SerialInv, CommitsOnce, NothingCommitted, CommitFor
<1>3. QED
  BY <1>1, <1>2, TransactionSteps

LEMMA SerialInit ==
    ASSUME Init
    PROVE  SerialInv
<1>1. DOMAIN transactions = {} /\ DOMAIN requests = {}
  BY DEF Init, BudgetInit, ApprovalInit
<1>2. \A h \in Handlers : calls[h].op = "none" /\ calls[h].at = "idle"
  BY DEF Init, Idle
<1>3. ASSUME NEW h \in Handlers
      PROVE  Seen(h)
  BY <1>2
  DEF Seen, StatusSeen, RequestSeen, BudgetSeen, Decisions, Reviews, Approvals,
      Rejections, Submitting, SubmittedSteps, ReserveSteps, DirectSteps
<1>4. NewestPending /\ CommitsOnce
  BY <1>1 DEF NewestPending, CommitsOnce
<1>5. StatusMatchesRequest
  BY DEF Init, StatusMatchesRequest
<1>6. QED
  BY <1>3, <1>4, <1>5 DEF SerialInv

LEMMA SerialStep ==
    ASSUME Apart, Inv, SerialInv, [Next]_vars
    PROVE  SerialInv'
BY SeenStep, NewestPendingStep, StatusMatchesStep, CommitsOnceStep
DEF SerialInv

-----------------------------------------------------------------------------
(* Theorems.                                                               *)

\* As long as no two calls rely on the same plan, what a call has read of its plan, of the
\* request and of the budget is so until it answers or dies, wherever the calls
\* before it died.
THEOREM SerialInvariance == Spec /\ []Apart => []SerialInv
<1>1. Init => SerialInv
  BY SerialInit
<1>2. Apart /\ Inv /\ SerialInv /\ [Next]_vars => SerialInv'
  BY SerialStep
<1>3. QED
  BY <1>1, <1>2, Invariance, PTL DEF Spec

\* A decided plan has a request decided alike, after any number of
\* submissions, returns, attempts that died and requests decided without their
\* plan (approve, reject, reviewPlan, ApprovalController).
THEOREM SameStory == Spec /\ []Apart => []StatusMatchesRequest
<1>1. SerialInv => StatusMatchesRequest
  BY DEF SerialInv
<1>2. QED
  BY <1>1, SerialInvariance, PTL

\* A plan never has two requests that can be decided (createRequest).
THEOREM OneToDecide == Spec /\ []Apart => []OnePendingRequest
<1>1. ASSUME Inv, SerialInv
      PROVE  OnePendingRequest
  <2>1. DOMAIN requests \subseteq Nat
    BY <1>1, LenProperties DEF Inv, TypeOK, ApprovalTypeOK
  <2>2. QED
    BY <1>1, <2>1 DEF SerialInv, NewestPending, OnePendingRequest
<1>2. QED
  BY <1>1, Invariance, SerialInvariance, PTL

\* A plan has at most one COMMIT row, whatever envelopes appear between
\* submission, approval and retries (reserveForPlan).
THEOREM CommittedOnce == Spec /\ []Apart => []OneCommitment
<1>1. ASSUME SerialInv, NEW p \in Documents
      PROVE  Cardinality(FindBySource("COMMIT", p)) <= 1
  <2>1. \A i, j \in FindBySource("COMMIT", p) : i = j
    BY <1>1 DEF SerialInv, CommitsOnce, CommitFor, FindBySource
  <2>2. PICK C : C = FindBySource("COMMIT", p)
    OBVIOUS
  <2>3. CASE C = {}
    BY <2>2, <2>3, FS_EmptySet
  <2>4. CASE C # {}
    <3>1. PICK i : i \in C
      BY <2>4
    <3>2. C = {i}
      BY <2>1, <2>2, <3>1
    <3>3. Cardinality({i}) = 1
      BY FS_Singleton
    <3>4. QED
      BY <2>2, <3>2, <3>3
  <2>5. QED
    BY <2>3, <2>4
<1>2. SerialInv => OneCommitment
  BY <1>1 DEF OneCommitment
<1>3. QED
  BY <1>2, SerialInvariance, PTL

\* The status of a plan moves only as the lifecycle of the two services lets
\* it: a plan goes back to DRAFT and never comes out of a decision.
THEOREM Lifecycle == Spec /\ []Apart => LifecycleMoves
<1> DEFINE Lawful(p) ==
             plans'[p].status # plans[p].status =>
               \/ plans[p].status = "ABSENT" /\ plans'[p].status = "DRAFT"
               \/ plans[p].status = "DRAFT" /\ plans'[p].status = "PENDING_APPROVAL"
               \/ plans[p].status = "PENDING_APPROVAL" /\ plans'[p].status # "ABSENT"
               \/ /\ plans[p].status = "PENDING_FINANCE_REVIEW"
                  /\ plans'[p].status \in {"DRAFT", "APPROVED", "REJECTED"}
<1>1. ASSUME Inv, SerialInv, [Next]_vars, NEW p \in Documents
      PROVE  Lawful(p)
  <2>1. ASSUME NEW h \in Handlers, Moves(p, h)
        PROVE  Lawful(p)
    <3>1. StatusSeen(h)
      BY <1>1 DEF SerialInv, Seen
    <3>2. QED
      BY <2>1, <3>1
      DEF Moves, StatusSeen, SubmittedSteps, Decisions, Pending
  <2>2. QED
    BY <1>1, <2>1, PlanMoves
<1>2. Inv /\ SerialInv /\ [Next]_vars => [\A p \in Documents : Lawful(p)]_vars
  BY <1>1
<1>3. QED
  BY <1>2, Invariance, SerialInvariance, PTL DEF Spec, LifecycleMoves

\* A review that sends a plan back or turns it down leaves the plan no budget
\* of any envelope (rejectPlan, requestChanges).
THEOREM ReviewsGiveBack == Spec /\ []Apart => ReviewGivesBack
<1> DEFINE Back(p) ==
             /\ plans[p].status \in Pending
             /\ plans'[p].status \in {"DRAFT", "REJECTED"}
             /\ \E h \in Handlers :
                  calls[h].plan = p /\ calls[h].op \in {"reviewReject", "reviewChanges"}
             => Held(p) = {}
<1>1. ASSUME Apart, Inv, SerialInv, [Next]_vars, NEW p \in Documents,
             plans[p].status \in Pending,
             plans'[p].status \in {"DRAFT", "REJECTED"},
             NEW h \in Handlers, calls[h].plan = p, calls[h].op \in Reviews
      PROVE  Held(p) = {}
  <2>1. PICK g \in Handlers : Moves(p, g)
    BY <1>1, PlanMoves DEF Pending
  <2>2. g = h
    BY <1>1, <2>1
    DEF Apart, Moves, Relying, Reviews, Decisions, Rejections, QuietSteps,
        Releasing
  <2>3. calls[h].at = "status.write"
    BY <1>1, <2>1, <2>2
    DEF Moves, SerialInv, Seen, StatusSeen, Decisions, DecisionSteps, Reviews,
        Rejections, ReserveSteps, Releasing
  <2>4. \A i \in DOMAIN transactions : CommitFor(i, p) => GivenBack(i)
    BY <1>1, <2>3 DEF SerialInv, Seen, BudgetSeen
  <2>5. ASSUME NEW e \in Envelopes, NEW i \in CommitsOf(p, e)
        PROVE  ReleasesOf(p, e) # {}
    BY <2>4 DEF CommitsOf, ReleasesOf, FindBySource, CommitFor, GivenBack
  <2>6. QED
    BY <2>5 DEF Held
<1>2. ASSUME Apart, Inv, SerialInv, [Next]_vars, NEW p \in Documents
      PROVE  Back(p)
  BY <1>1, <1>2 DEF Reviews
<1>3. /\ Apart /\ Inv /\ SerialInv /\ [Next]_vars
      => [\A p \in Documents : Back(p)]_vars
  BY <1>2
<1>4. QED
  BY <1>3, Invariance, SerialInvariance, PTL DEF Spec, ReviewGivesBack

=============================================================================
