------------------------- MODULE PlanWorkflowProofs --------------------------
(***************************************************************************)
(* Proofs about PlanWorkflow for any number of handlers, plans, users and  *)
(* envelopes and whatever calls fail.  What a call has read of the tables  *)
(* stays true because they only grow, so Trusts says of a call, as a       *)
(* record, what it relies on: an action has to show it for the call it     *)
(* moves, and the growth of the tables keeps it for all the others.        *)
(***************************************************************************)
EXTENDS PlanWorkflow, SequenceTheorems, FiniteSetTheorems,
        WellFoundedInduction, TLAPS

-----------------------------------------------------------------------------
(* The inductive invariant.                                                *)

Submitting == {"submit.find", "submit.status", "submit.check", "submit.latest",
               "submit.insert"}
Releasing == {"release.lookup", "release.check", "release.insert"}
Awaiting == {"submit.reread", "approve.find", "approve.create"} \cup ReserveSteps
Deciding == Approvals \cup Rejections \cup {"reviewChanges", "escalate"}

\* A statement several operations share is reached by these.
Fits(c) ==
    /\ c.at \in {"request.read", "request.write"} =>
         c.op \in Approvals \cup Rejections
    /\ c.at = "status.write" =>
         c.op \in Approvals \cup Rejections \cup {"reviewChanges"}
    /\ c.at \in ReserveSteps => c.op \in Approvals \cup {"submitForApproval"}
    /\ c.at \in {"approve.find", "approve.create"} => c.op = "approve"
    /\ c.at = "submit.reread" => c.op = "submitForApproval"
    /\ c.at \in Releasing => c.op \in {"delete", "reviewReject", "reviewChanges"}
    /\ c.at \in {"escalate.read", "escalate.write"} => c.op = "escalate"

\* What a call has read is of the right kind.
Sound(c) ==
    /\ c.at # "idle" => c.plan \in Documents
    /\ c.at \in Submitting => c.user \in Users
    /\ c.at \in Awaiting => c.due # <<>>
    /\ c.at \in {"reserve.available", "reserve.insert"} =>
         c.envelope \in Envelopes

Filed(p, r) == r \in DOMAIN requests /\ requests[r].entity = p

\* What a call has found in the tables is still there.
Backed(c) ==
    /\ c.at = "submit.write" => Filed(c.plan, c.request)
    /\ c.at \in {"release.check", "release.insert"} =>
         c.commits # {} /\ c.commits \subseteq FindBySource("COMMIT", c.plan)
    /\ c.op \in Deciding =>
         c.plan \in Documents /\ plans[c.plan].request # NoRequest

Trusts(c) == Fits(c) /\ Sound(c) /\ Backed(c)

CallsInv == \A h \in Handlers : Trusts(calls[h])

\* A row of the table and its idempotency key determine each other.
KeysInv ==
    /\ \A i \in DOMAIN transactions :
         /\ transactions[i].type \in {"COMMIT", "RELEASE"}
         /\ transactions[i].key = Key(transactions[i].type,
                                      transactions[i].source,
                                      transactions[i].envelope)
    /\ \A i, j \in DOMAIN transactions :
         transactions[i].key = transactions[j].key => i = j

\* A plan names no request but its own, and names one as long as it is out of
\* DRAFT.
PlansInv ==
    \A p \in Documents :
        /\ plans[p].request # NoRequest => Filed(p, plans[p].request)
        /\ plans[p].status \notin {"ABSENT", "DRAFT"} =>
             plans[p].request # NoRequest

Inv == TypeOK /\ CallsInv /\ KeysInv /\ PlansInv /\ ReleaseBacked

-----------------------------------------------------------------------------
(* Sets of positions have a newest element.                                *)

LEMMA Least ==
    ASSUME NEW T \in SUBSET Nat, T # {}
    PROVE  \E x \in T : \A y \in T : x <= y
<1> DEFINE R == {ss \in Nat \X Nat : ss[1] < ss[2]}
<1>1. OpToRel(<, Nat) = R
  BY DEF OpToRel
<1>2. IsWellFoundedOn(R, Nat)
  BY <1>1, NatLessThanWellFounded
<1>3. PICK x \in T : \A y \in T : ~ (<<y, x>> \in R)
  BY <1>2, WFMin
<1>4. ASSUME NEW y \in T PROVE x <= y
  <2>1. <<y, x>> \in Nat \X Nat /\ <<y, x>>[1] = y /\ <<y, x>>[2] = x
    OBVIOUS
  <2>2. ~(y < x)
    BY <1>3, <2>1
  <2>3. QED
    BY <2>2
<1>5. QED
  BY <1>4

LEMMA NewestOf ==
    ASSUME NEW n \in Nat, NEW T \in SUBSET (0..n), T # {}
    PROVE  Newest(T) \in T
<1> DEFINE U == {n - x : x \in T}
<1>1. \A x \in T : n - x \in Nat
  OBVIOUS
<1>2. U \in SUBSET Nat /\ U # {}
  BY <1>1
<1>3. PICK u \in U : \A y \in U : u <= y
  BY <1>2, Least
<1>4. PICK x \in T : u = n - x
  BY <1>3
<1>5. \A y \in T : u <= n - y
  BY <1>3
<1>6. \A y \in T : y <= x
  BY <1>4, <1>5
<1>7. QED
  BY <1>6 DEF Newest

LEMMA RestOf ==
    ASSUME NEW s \in Seq(Nat), Len(s) > 1
    PROVE  Tail(s) \in Seq(Nat) /\ Tail(s) # <<>>
<1>1. Len(s) \in Nat /\ Len(<<>>) = 0
  BY LenProperties, EmptySeq
<1>2. s # <<>>
  BY <1>1
<1>3. Tail(s) \in Seq(Nat) /\ Len(Tail(s)) = Len(s) - 1
  BY <1>2, HeadTailProperties
<1>4. PICK n \in Nat : n = Len(s)
  BY <1>1
<1>5. n > 1
  BY <1>4
<1>6. n - 1 # 0
  BY <1>5
<1>7. QED
  BY <1>1, <1>3, <1>4, <1>6, Zenon

-----------------------------------------------------------------------------
(* How a call moves, without EXCEPT.                                       *)

Moved(h) == /\ calls' \in [Handlers -> Calls]
            /\ \A g \in Handlers \ {h} : calls'[g] = calls[g]

\* The call goes on as the same operation of the same user on the same plan.
GoesTo(h, step) == /\ Moved(h)
                   /\ calls'[h].at = step
                   /\ calls'[h].op = calls[h].op
                   /\ calls'[h].user = calls[h].user
                   /\ calls'[h].plan = calls[h].plan

Keeps(h) == /\ calls'[h].request = calls[h].request
            /\ calls'[h].contents = calls[h].contents
            /\ calls'[h].due = calls[h].due
            /\ calls'[h].commits = calls[h].commits
            /\ calls'[h].envelope = calls[h].envelope

LEMMA IdleCall == Idle \in Calls /\ Trusts(Idle)
<1>1. Empty \in Contents /\ <<>> \in Seq(Nat)
  BY DEF Empty, Contents
<1>2. Idle \in Calls
  BY <1>1 DEF Idle, Calls, Ops, Steps, NoRequest
<1>3. /\ Idle.at = "idle" /\ Idle.op = "none"
  BY DEF Idle
<1>4. Fits(Idle)
  BY <1>3 DEF Fits, ReserveSteps, Releasing
<1>5. Sound(Idle)
  BY <1>3 DEF Sound, Submitting, Awaiting, ReserveSteps
<1>6. Backed(Idle)
  BY <1>3 DEF Backed, Deciding, Approvals, Rejections
<1>7. QED
  BY <1>2, <1>4, <1>5, <1>6 DEF Trusts

LEMMA ReturnMoves ==
    ASSUME TypeOK, NEW h \in Handlers, Return(h)
    PROVE  Moved(h) /\ Trusts(calls'[h])
<1>1. calls'[h] = Idle /\ Moved(h)
  BY IdleCall DEF Return, TypeOK, Moved
<1>2. QED
  BY <1>1, IdleCall

LEMMA ProceedMoves ==
    ASSUME TypeOK, NEW h \in Handlers, NEW step \in Steps, Proceed(h, step)
    PROVE  GoesTo(h, step) /\ Keeps(h)
<1> DEFINE c == [calls[h] EXCEPT !.at = step]
<1>1. calls' = [calls EXCEPT ![h] = c]
  BY DEF Proceed, TypeOK
<1>2. calls[h] \in Calls
  BY DEF TypeOK
<1>3. c \in Calls
  BY <1>2 DEF Calls
<1>4. Moved(h) /\ calls'[h] = c
  BY <1>1, <1>3 DEF Moved, TypeOK
<1>5. /\ c.at = step /\ c.op = calls[h].op /\ c.user = calls[h].user
      /\ c.plan = calls[h].plan /\ c.request = calls[h].request
      /\ c.contents = calls[h].contents /\ c.due = calls[h].due
      /\ c.commits = calls[h].commits /\ c.envelope = calls[h].envelope
  BY <1>2 DEF Calls
<1>6. QED
  BY <1>4, <1>5 DEF GoesTo, Keeps

LEMMA ForgetMoves ==
    ASSUME TypeOK, NEW h \in Handlers, NEW step \in Steps, Forget(h, step)
    PROVE  GoesTo(h, step) /\ calls'[h].request = calls[h].request
<1> DEFINE c == [calls[h] EXCEPT !.at = step, !.contents = Empty, !.due = <<>>,
                                 !.commits = {}, !.envelope = NoEnvelope]
<1>1. calls' = [calls EXCEPT ![h] = c]
  BY DEF Forget, TypeOK
<1>2. calls[h] \in Calls
  BY DEF TypeOK
<1>3. Empty \in Contents /\ <<>> \in Seq(Nat) /\ {} \in SUBSET Nat
  BY DEF Empty, Contents
<1>4. c \in Calls
  BY <1>2, <1>3 DEF Calls
<1>5. Moved(h) /\ calls'[h] = c
  BY <1>1, <1>4 DEF Moved, TypeOK
<1>6. /\ c.at = step /\ c.op = calls[h].op /\ c.user = calls[h].user
      /\ c.plan = calls[h].plan /\ c.request = calls[h].request
  BY <1>2 DEF Calls
<1>7. QED
  BY <1>5, <1>6 DEF GoesTo

\* A call that begins has what its record says.
LEMMA BeginMoves ==
    ASSUME TypeOK, NEW h \in Handlers, NEW c \in Calls, Begin(h, c)
    PROVE  Moved(h) /\ calls'[h] = c /\ Reads
BY DEF Begin, TypeOK, Moved, Reads

-----------------------------------------------------------------------------
(* What an action makes of the call it moves.                              *)

LEMMA EditMoves ==
    ASSUME Inv, NEW h \in Handlers, Edit(h)
    PROVE  Moved(h) /\ Trusts(calls'[h])
<1>0. TypeOK /\ Trusts(calls[h])
  BY DEF Inv, CallsInv
<1> USE DEF Steps, Trusts, Fits, Sound, Backed, ReserveSteps, Releasing,
            Submitting, Awaiting, Deciding, Approvals, Rejections
<1>1. CASE EditWrite(h)
  <2>1. GoesTo(h, "edit.recalculate")
    BY <1>0, <1>1, ForgetMoves DEF EditWrite
  <2>2. QED
    BY <1>0, <1>1, <2>1 DEF GoesTo, EditWrite, At
<1>2. CASE RecalculateRead(h)
  <2>1. CASE Return(h)
    BY <1>0, <2>1, ReturnMoves
  <2>2. CASE calls' = [calls EXCEPT ![h].at = "edit.total",
                                    ![h].contents = plans[calls[h].plan].contents]
    <3> DEFINE c == [calls[h] EXCEPT !.at = "edit.total",
                                     !.contents = plans[calls[h].plan].contents]
    <3>1. calls[h] \in Calls /\ calls[h].plan \in Documents
      BY <1>0, <1>2 DEF TypeOK, RecalculateRead, At
    <3>2. plans[calls[h].plan].contents \in Contents
      BY <1>0, <3>1 DEF TypeOK, Plans
    <3>3. c \in Calls
      BY <3>1, <3>2 DEF Calls
    <3>4. calls' = [calls EXCEPT ![h] = c]
      BY <2>2, <1>0 DEF TypeOK
    <3>5. Moved(h) /\ calls'[h] = c
      BY <1>0, <3>3, <3>4 DEF Moved, TypeOK
    <3>6. c.at = "edit.total" /\ c.op = calls[h].op /\ c.plan = calls[h].plan
      BY <3>1 DEF Calls
    <3>7. QED
      BY <1>0, <3>1, <3>5, <3>6
  <2>3. QED
    BY <1>2, <2>1, <2>2 DEF RecalculateRead
<1>3. CASE RecalculateWrite(h)
  BY <1>0, <1>3, ReturnMoves DEF RecalculateWrite
<1>4. QED
  BY <1>1, <1>2, <1>3 DEF Edit

LEMMA ReserveFailedMoves ==
    ASSUME Inv, NEW h \in Handlers, calls[h].at \in Awaiting, ReserveFailed(h)
    PROVE  Moved(h) /\ Trusts(calls'[h])
<1>0. TypeOK /\ Trusts(calls[h])
  BY DEF Inv, CallsInv
<1> USE DEF Steps, Trusts, Fits, Sound, Backed, ReserveSteps, Releasing,
            Submitting, Awaiting, Deciding, Approvals, Rejections
<1>1. CASE Forget(h, "submit.rollback") /\ calls[h].op = "submitForApproval"
  <2>1. GoesTo(h, "submit.rollback")
    BY <1>0, <1>1, ForgetMoves
  <2>2. QED
    BY <1>0, <1>1, <2>1 DEF GoesTo
<1>2. CASE Return(h)
  BY <1>0, <1>2, ReturnMoves
<1>3. QED
  BY <1>1, <1>2 DEF ReserveFailed

LEMMA ReserveNextMoves ==
    ASSUME Inv, NEW h \in Handlers, calls[h].at \in ReserveSteps, ReserveNext(h)
    PROVE  Moved(h) /\ Trusts(calls'[h])
<1>0. TypeOK /\ Trusts(calls[h])
  BY DEF Inv, CallsInv
<1> USE DEF Steps, Trusts, Fits, Sound, Backed, ReserveSteps, Releasing,
            Submitting, Awaiting, Deciding, Approvals, Rejections
<1>1. CASE Len(calls[h].due) > 1
  <2> DEFINE c == [calls[h] EXCEPT !.at = "reserve.lookup",
                                   !.due = Tail(calls[h].due),
                                   !.envelope = NoEnvelope]
  <2>1. calls[h] \in Calls /\ calls[h].due \in Seq(Nat)
    BY <1>0 DEF TypeOK, Calls
  <2>2. Tail(calls[h].due) \in Seq(Nat) /\ Tail(calls[h].due) # <<>>
    BY <1>1, <2>1, RestOf
  <2>3. c \in Calls
    BY <2>1, <2>2 DEF Calls
  <2>4. calls' = [calls EXCEPT ![h] = c]
    BY <1>0, <1>1 DEF ReserveNext, TypeOK
  <2>5. Moved(h) /\ calls'[h] = c
    BY <1>0, <2>3, <2>4 DEF Moved, TypeOK
  <2>6. /\ c.at = "reserve.lookup" /\ c.op = calls[h].op
        /\ c.plan = calls[h].plan /\ c.due # <<>>
    BY <2>1, <2>2 DEF Calls
  <2>7. QED
    BY <1>0, <2>5, <2>6
<1>2. CASE ~(Len(calls[h].due) > 1)
  <2>1. AfterReserve(h)
    BY <1>2 DEF ReserveNext
  <2>2. CASE Return(h)
    BY <1>0, <2>2, ReturnMoves
  <2>3. CASE Forget(h, "request.read") /\ calls[h].op # "submitForApproval"
    <3>1. GoesTo(h, "request.read")
      BY <1>0, <2>3, ForgetMoves
    <3>2. QED
      BY <1>0, <2>3, <3>1 DEF GoesTo
  <2>4. QED
    BY <2>1, <2>2, <2>3 DEF AfterReserve
<1>3. QED
  BY <1>1, <1>2

LEMMA ReserveMoves ==
    ASSUME Inv, NEW h \in Handlers, Reserve(h)
    PROVE  Moved(h) /\ Trusts(calls'[h])
<1>0. TypeOK /\ Trusts(calls[h])
  BY DEF Inv, CallsInv
<1>a. ASSUME NEW step \in {"approve.create", "reserve.lookup", "reserve.find"},
             calls[h].at \in Awaiting, Proceed(h, step),
             step = "approve.create" => calls[h].op = "approve",
             step # "approve.create" => calls[h].at # "submit.reread"
      PROVE  Moved(h) /\ Trusts(calls'[h])
  <2>1. GoesTo(h, step) /\ Keeps(h)
    BY <1>0, <1>a, ProceedMoves DEF Steps
  <2>2. QED
    BY <1>0, <1>a, <2>1 DEF GoesTo, Keeps, Trusts, Fits, Sound, Backed, Awaiting,
         ReserveSteps, Releasing, Submitting, Deciding, Approvals, Rejections
<1> USE DEF Steps, Trusts, Fits, Sound, Backed, ReserveSteps, Releasing,
            Submitting, Awaiting, Deciding, Approvals, Rejections
<1>1. CASE ApproveFind(h)
  <2>1. CASE Return(h)
    BY <1>0, <2>1, ReturnMoves
  <2>2. CASE Proceed(h, "approve.create") \/ Proceed(h, "reserve.lookup")
    BY <1>0, <1>1, <1>a, <2>2 DEF ApproveFind, At
  <2>3. QED
    BY <1>1, <2>1, <2>2 DEF ApproveFind
<1>2. CASE ApproveCreate(h)
  BY <1>2, <1>a DEF ApproveCreate, At
<1>3. CASE ApproveCreateConflict(h)
  BY <1>0, <1>3, ReturnMoves DEF ApproveCreateConflict
<1>4. CASE ReserveLookup(h)
  BY <1>4, <1>a, ReserveNextMoves DEF ReserveLookup, At
<1>5. CASE ReserveFind(h)
  <2>1. CASE ReserveFailed(h)
    BY <1>5, <2>1, ReserveFailedMoves DEF ReserveFind, At
  <2>2. CASE /\ FindEnvelopeByDimensions # NoEnvelope
             /\ calls' = [calls EXCEPT ![h].at = "reserve.available",
                                       ![h].envelope = FindEnvelopeByDimensions]
    <3> DEFINE e == FindEnvelopeByDimensions
               c == [calls[h] EXCEPT !.at = "reserve.available", !.envelope = e]
    <3>1. e \in Envelopes
      BY <1>0, <2>2 DEF FindEnvelopeByDimensions, TypeOK, BudgetTypeOK
    <3> HIDE DEF e
    <3>2. calls[h] \in Calls
      BY <1>0 DEF TypeOK
    <3>3. c \in Calls
      BY <3>1, <3>2 DEF Calls
    <3>4. calls' = [calls EXCEPT ![h] = c]
      BY <1>0, <2>2 DEF TypeOK, e
    <3>5. Moved(h) /\ calls'[h] = c
      BY <1>0, <3>3, <3>4 DEF Moved, TypeOK
    <3>6. /\ c.at = "reserve.available" /\ c.envelope = e
          /\ c.op = calls[h].op /\ c.plan = calls[h].plan /\ c.due = calls[h].due
      BY <3>2 DEF Calls
    <3>7. calls[h].at = "reserve.find"
      BY <1>5 DEF ReserveFind, At
    <3>8. QED
      BY <1>0, <3>1, <3>5, <3>6, <3>7
  <2>3. QED
    BY <1>5, <2>1, <2>2 DEF ReserveFind
<1>6. CASE ReserveAvailable(h)
  <2>1. CASE ReserveFailed(h)
    BY <1>6, <2>1, ReserveFailedMoves DEF ReserveAvailable, At
  <2>2. CASE Proceed(h, "reserve.insert")
    <3>1. GoesTo(h, "reserve.insert") /\ Keeps(h)
      BY <1>0, <2>2, ProceedMoves
    <3>2. QED
      BY <1>0, <1>6, <3>1 DEF GoesTo, Keeps, ReserveAvailable, At
  <2>3. QED
    BY <1>6, <2>1, <2>2 DEF ReserveAvailable
<1>7. CASE ReserveInsert(h)
  BY <1>7, ReserveNextMoves DEF ReserveInsert, At
<1>8. CASE ReserveInsertDuplicate(h)
  BY <1>8, ReserveFailedMoves DEF ReserveInsertDuplicate, At
<1>9. QED
  BY <1>1, <1>2, <1>3, <1>4, <1>5, <1>6, <1>7, <1>8 DEF Reserve

LEMMA AfterReleaseMoves ==
    ASSUME Inv, NEW h \in Handlers, calls[h].at \in Releasing, AfterRelease(h)
    PROVE  Moved(h) /\ Trusts(calls'[h])
<1>0. TypeOK /\ Trusts(calls[h])
  BY DEF Inv, CallsInv
<1> USE DEF Steps, Trusts, Fits, Sound, Backed, ReserveSteps, Releasing,
            Submitting, Awaiting, Deciding, Approvals, Rejections
<1>1. CASE calls[h].op = "delete"
  <2>1. GoesTo(h, "delete.write")
    BY <1>0, <1>1, ForgetMoves DEF AfterRelease
  <2>2. QED
    BY <1>0, <1>1, <2>1 DEF GoesTo
<1>2. CASE calls[h].op = "reviewReject"
  <2>1. GoesTo(h, "request.read")
    BY <1>0, <1>2, ForgetMoves DEF AfterRelease
  <2>2. QED
    BY <1>0, <1>2, <2>1 DEF GoesTo
<1>3. CASE calls[h].op = "reviewChanges"
  <2>1. GoesTo(h, "status.write")
    BY <1>0, <1>3, ForgetMoves DEF AfterRelease
  <2>2. QED
    BY <1>0, <1>3, <2>1 DEF GoesTo
<1>4. QED
  BY <1>0, <1>1, <1>2, <1>3

\* Who has commitments in hand has found them as rows of its plan.
LEMMA InHand ==
    ASSUME Inv, NEW h \in Handlers,
           calls[h].at \in {"release.check", "release.insert"}
    PROVE  Newest(calls[h].commits) \in FindBySource("COMMIT", calls[h].plan)
<1>1. Len(transactions) \in Nat /\ DOMAIN transactions = 1..Len(transactions)
  BY LenProperties DEF Inv, TypeOK, BudgetTypeOK
<1>2. /\ calls[h].commits # {}
      /\ calls[h].commits \subseteq FindBySource("COMMIT", calls[h].plan)
  BY DEF Inv, CallsInv, Trusts, Backed
<1>3. calls[h].commits \in SUBSET (0..Len(transactions))
  BY <1>1, <1>2 DEF FindBySource
<1>4. Newest(calls[h].commits) \in calls[h].commits
  BY <1>1, <1>2, <1>3, NewestOf
<1>5. QED
  BY <1>2, <1>4

LEMMA ReleaseNextMoves ==
    ASSUME Inv, NEW h \in Handlers,
           calls[h].at \in {"release.check", "release.insert"}, ReleaseNext(h)
    PROVE  Moved(h) /\ Trusts(calls'[h])
<1>0. TypeOK /\ Trusts(calls[h])
  BY DEF Inv, CallsInv
<1> USE DEF Steps, Trusts, Fits, Sound, Backed, ReserveSteps, Releasing,
            Submitting, Awaiting, Deciding, Approvals, Rejections
<1>1. CASE Cardinality(calls[h].commits) > 1
  <2> DEFINE rest == calls[h].commits \ {Newest(calls[h].commits)}
             c == [calls[h] EXCEPT !.at = "release.check", !.commits = rest]
  <2>1. rest # {}
    <3>1. SUFFICES ASSUME rest = {} PROVE FALSE
      OBVIOUS
    <3>2. calls[h].commits # {}
      BY <1>0
    <3>3. calls[h].commits = {Newest(calls[h].commits)}
      BY <3>1, <3>2
    <3>4. Cardinality(calls[h].commits) = 1
      BY <3>3, FS_Singleton
    <3>5. QED
      BY <1>1, <3>4
  <2>2. rest \subseteq calls[h].commits
    OBVIOUS
  <2> HIDE DEF rest
  <2>3. calls[h] \in Calls
    BY <1>0 DEF TypeOK
  <2>4. rest \in SUBSET Nat
    BY <2>2, <2>3 DEF Calls
  <2>5. c \in Calls
    BY <2>3, <2>4 DEF Calls
  <2>6. calls' = [calls EXCEPT ![h] = c]
    BY <1>0, <1>1 DEF ReleaseNext, TypeOK, rest
  <2>7. Moved(h) /\ calls'[h] = c
    BY <1>0, <2>5, <2>6 DEF Moved, TypeOK
  <2>8. /\ c.at = "release.check" /\ c.op = calls[h].op
        /\ c.plan = calls[h].plan /\ c.commits = rest
    BY <2>3 DEF Calls
  <2>9. QED
    BY <1>0, <2>1, <2>2, <2>7, <2>8
<1>2. CASE ~(Cardinality(calls[h].commits) > 1)
  BY <1>2, AfterReleaseMoves DEF ReleaseNext
<1>3. QED
  BY <1>1, <1>2

LEMMA ReleaseMoves ==
    ASSUME Inv, NEW h \in Handlers, Release(h)
    PROVE  Moved(h) /\ Trusts(calls'[h])
<1>0. TypeOK /\ Trusts(calls[h])
  BY DEF Inv, CallsInv
<1> USE DEF Steps, Trusts, Fits, Sound, Backed, ReserveSteps, Releasing,
            Submitting, Awaiting, Deciding, Approvals, Rejections
<1>1. CASE ReleaseLookup(h)
  <2> DEFINE commits == FindBySource("COMMIT", calls[h].plan)
             c == [calls[h] EXCEPT !.at = "release.check", !.commits = commits]
  <2>1. CASE commits = {}
    BY <1>1, <2>1, AfterReleaseMoves DEF ReleaseLookup, At
  <2>2. CASE commits # {}
    <3>1. calls[h] \in Calls
      BY <1>0 DEF TypeOK
    <3>2. DOMAIN transactions = 1..Len(transactions) /\ Len(transactions) \in Nat
      BY <1>0, LenProperties DEF TypeOK, BudgetTypeOK
    <3>3. commits \in SUBSET Nat
      BY <3>2 DEF FindBySource
    <3>4. calls' = [calls EXCEPT ![h].at = "release.check",
                                 ![h].commits = commits]
      BY <1>1, <2>2 DEF ReleaseLookup
    <3>5. calls[h].at = "release.lookup"
      BY <1>1 DEF ReleaseLookup, At
    <3> HIDE DEF commits
    <3>6. c \in Calls
      BY <3>1, <3>3 DEF Calls
    <3>7. Moved(h) /\ calls'[h] = c
      BY <1>0, <3>4, <3>6 DEF Moved, TypeOK
    <3>8. /\ c.at = "release.check" /\ c.op = calls[h].op
          /\ c.plan = calls[h].plan /\ c.commits = commits
      BY <3>1 DEF Calls
    <3>9. commits \subseteq FindBySource("COMMIT", calls[h].plan)
      BY DEF commits
    <3>10. QED
      BY <1>0, <2>2, <3>5, <3>7, <3>8, <3>9
  <2>3. QED
    BY <2>1, <2>2
<1>2. CASE ReleaseCheck(h)
  <2>1. CASE Proceed(h, "release.insert")
    <3>1. GoesTo(h, "release.insert") /\ Keeps(h)
      BY <1>0, <2>1, ProceedMoves
    <3>2. QED
      BY <1>0, <1>2, <3>1 DEF GoesTo, Keeps, ReleaseCheck, At
  <2>2. CASE ReleaseNext(h)
    BY <1>2, <2>2, ReleaseNextMoves DEF ReleaseCheck, At
  <2>3. QED
    BY <1>2, <2>1, <2>2 DEF ReleaseCheck
<1>3. CASE ReleaseInsert(h)
  BY <1>3, ReleaseNextMoves DEF ReleaseInsert, At
<1>4. CASE ReleaseInsertDuplicate(h)
  BY <1>0, <1>4, ReturnMoves DEF ReleaseInsertDuplicate
<1>5. QED
  BY <1>1, <1>2, <1>3, <1>4 DEF Release

\* The amounts due are amounts.
LEMMA DueAmounts ==
    ASSUME NEW on \in Nat, NEW off \in Nat
    PROVE  Due(on, off) \in Seq(Nat)
<1>1. <<>> \in Seq(Nat) /\ <<on>> \in Seq(Nat) /\ <<off>> \in Seq(Nat)
  OBVIOUS
<1> DEFINE s == IF on > 0 THEN <<on>> ELSE <<>>
           t == IF off > 0 THEN <<off>> ELSE <<>>
<1>2. s \in Seq(Nat) /\ t \in Seq(Nat)
  BY <1>1
<1> HIDE DEF s, t
<1>3. s \o t \in Seq(Nat)
  BY <1>2, ConcatProperties
<1>4. QED
  BY <1>3 DEF Due, s, t

LEMMA SubmitMoves ==
    ASSUME Inv, NEW h \in Handlers, Submit(h)
    PROVE  SubmitInsert(h) \/ (Moved(h) /\ Trusts(calls'[h]))
<1>0. TypeOK /\ Trusts(calls[h])
  BY DEF Inv, CallsInv
<1> USE DEF Steps, Trusts, Fits, Sound, Backed, ReserveSteps, Releasing,
            Submitting, Awaiting, Deciding, Approvals, Rejections
<1>r. ASSUME Return(h)
      PROVE  Moved(h) /\ Trusts(calls'[h])
  BY <1>0, <1>r, ReturnMoves
<1>1. CASE SubmitFind(h)
  <2>1. CASE Proceed(h, "submit.status")
    <3>1. GoesTo(h, "submit.status") /\ Keeps(h)
      BY <1>0, <2>1, ProceedMoves
    <3>2. QED
      BY <1>0, <1>1, <3>1 DEF GoesTo, Keeps, SubmitFind, At
  <2>2. QED
    BY <1>1, <1>r, <2>1 DEF SubmitFind
<1>2. CASE SubmitStatus(h)
  <2> DEFINE e == FindEnvelopeByDimensions
             c == [calls[h] EXCEPT !.at = "submit.check", !.envelope = e]
  <2>1. e \in Envelopes \cup {NoEnvelope}
    BY <1>0 DEF FindEnvelopeByDimensions, TypeOK, BudgetTypeOK
  <2>2. calls' = [calls EXCEPT ![h].at = "submit.check", ![h].envelope = e]
    BY <1>2 DEF SubmitStatus
  <2> HIDE DEF e
  <2>3. calls[h] \in Calls
    BY <1>0 DEF TypeOK
  <2>4. c \in Calls
    BY <2>1, <2>3 DEF Calls
  <2>5. Moved(h) /\ calls'[h] = c
    BY <1>0, <2>2, <2>4 DEF Moved, TypeOK
  <2>6. /\ c.at = "submit.check" /\ c.op = calls[h].op
        /\ c.plan = calls[h].plan /\ c.user = calls[h].user
    BY <2>3 DEF Calls
  <2>7. QED
    BY <1>0, <1>2, <2>5, <2>6 DEF SubmitStatus, At
<1>3. CASE SubmitCheck(h)
  <2>1. CASE calls' = [calls EXCEPT ![h].at = "submit.latest",
                                    ![h].envelope = NoEnvelope]
    <3> DEFINE c == [calls[h] EXCEPT !.at = "submit.latest",
                                     !.envelope = NoEnvelope]
    <3>1. calls[h] \in Calls
      BY <1>0 DEF TypeOK
    <3>2. c \in Calls
      BY <3>1 DEF Calls
    <3>3. Moved(h) /\ calls'[h] = c
      BY <1>0, <2>1, <3>2 DEF Moved, TypeOK
    <3>4. /\ c.at = "submit.latest" /\ c.op = calls[h].op
          /\ c.plan = calls[h].plan /\ c.user = calls[h].user
      BY <3>1 DEF Calls
    <3>5. QED
      BY <1>0, <1>3, <3>3, <3>4 DEF SubmitCheck, At
  <2>2. QED
    BY <1>3, <1>r, <2>1 DEF SubmitCheck
<1>4. CASE SubmitLatest(h)
  <2>1. CASE Proceed(h, "submit.insert")
    <3>1. GoesTo(h, "submit.insert") /\ Keeps(h)
      BY <1>0, <2>1, ProceedMoves
    <3>2. QED
      BY <1>0, <1>4, <3>1 DEF GoesTo, Keeps, SubmitLatest, At
  <2>2. QED
    BY <1>4, <1>r, <2>1 DEF SubmitLatest
<1>5. CASE SubmitWrite(h)
  BY <1>5, <1>r DEF SubmitWrite
<1>6. CASE SubmitForApprovalWrite(h)
  <2> DEFINE due == Due(calls[h].contents.on, calls[h].contents.off)
             c == [calls[h] EXCEPT !.at = "submit.reread", !.contents = Empty,
                                   !.due = due]
  <2>1. CASE due # <<>>
    <3>1. calls[h] \in Calls /\ calls[h].contents \in Contents
      BY <1>0 DEF TypeOK, Calls
    <3>2. due \in Seq(Nat)
      BY <3>1, DueAmounts DEF Contents
    <3>3. Empty \in Contents
      BY DEF Empty, Contents
    <3>4. calls' = [calls EXCEPT ![h].at = "submit.reread",
                                 ![h].contents = Empty, ![h].due = due]
      BY <1>6, <2>1 DEF SubmitForApprovalWrite
    <3>5. /\ calls[h].at = "submit.write"
          /\ calls[h].op = "submitForApproval"
      BY <1>6 DEF SubmitForApprovalWrite, At
    <3> HIDE DEF due
    <3>6. c \in Calls
      BY <3>1, <3>2, <3>3 DEF Calls
    <3>7. Moved(h) /\ calls'[h] = c
      BY <1>0, <3>4, <3>6 DEF Moved, TypeOK
    <3>8. /\ c.at = "submit.reread" /\ c.op = calls[h].op
          /\ c.plan = calls[h].plan /\ c.due = due
      BY <3>1 DEF Calls
    <3>9. QED
      BY <1>0, <2>1, <3>5, <3>7, <3>8
  <2>2. CASE due = <<>>
    BY <1>6, <1>r, <2>2 DEF SubmitForApprovalWrite
  <2>3. QED
    BY <2>1, <2>2
<1>7. CASE SubmitReread(h)
  <2>1. CASE Proceed(h, "reserve.lookup")
    <3>1. GoesTo(h, "reserve.lookup") /\ Keeps(h)
      BY <1>0, <2>1, ProceedMoves
    <3>2. QED
      BY <1>0, <1>7, <3>1 DEF GoesTo, Keeps, SubmitReread, At
  <2>2. QED
    BY <1>7, <1>r, <2>1 DEF SubmitReread
<1>8. CASE SubmitRollback(h)
  BY <1>8, <1>r DEF SubmitRollback
<1>9. QED
  BY <1>1, <1>2, <1>3, <1>4, <1>5, <1>6, <1>7, <1>8 DEF Submit

LEMMA DecideMoves ==
    ASSUME Inv, NEW h \in Handlers, Decide(h)
    PROVE  Moved(h) /\ Trusts(calls'[h])
<1>0. TypeOK /\ Trusts(calls[h])
  BY DEF Inv, CallsInv
<1> USE DEF Steps, Trusts, Fits, Sound, Backed, ReserveSteps, Releasing,
            Submitting, Awaiting, Deciding, Approvals, Rejections
<1>r. ASSUME Return(h)
      PROVE  Moved(h) /\ Trusts(calls'[h])
  BY <1>0, <1>r, ReturnMoves
<1>1. CASE RequestRead(h)
  <2>1. CASE Proceed(h, "request.write")
    <3>1. GoesTo(h, "request.write") /\ Keeps(h)
      BY <1>0, <2>1, ProceedMoves
    <3>2. QED
      BY <1>0, <1>1, <3>1 DEF GoesTo, Keeps, RequestRead, At
  <2>2. QED
    BY <1>1, <1>r, <2>1 DEF RequestRead
<1>2. CASE RequestWrite(h)
  <2>1. GoesTo(h, "status.write") /\ Keeps(h)
    BY <1>0, <1>2, ProceedMoves DEF RequestWrite
  <2>2. QED
    BY <1>0, <1>2, <2>1 DEF GoesTo, Keeps, RequestWrite, At
<1>3. CASE StatusWrite(h)
  BY <1>3, <1>r DEF StatusWrite
<1>4. CASE EscalateRead(h)
  <2>1. CASE Proceed(h, "escalate.write")
    <3>1. GoesTo(h, "escalate.write") /\ Keeps(h)
      BY <1>0, <2>1, ProceedMoves
    <3>2. QED
      BY <1>0, <1>4, <3>1 DEF GoesTo, Keeps, EscalateRead, At
  <2>2. QED
    BY <1>4, <1>r, <2>1 DEF EscalateRead
<1>5. CASE EscalateWrite(h) \/ DeleteWrite(h)
  BY <1>5, <1>r DEF EscalateWrite, DeleteWrite
<1>6. QED
  BY <1>1, <1>2, <1>3, <1>4, <1>5 DEF Decide

LEMMA FailMoves ==
    ASSUME Inv, NEW h \in Handlers, Fail(h)
    PROVE  Moved(h) /\ Trusts(calls'[h])
<1>1. CASE Return(h)
  BY <1>1, ReturnMoves DEF Inv
<1>2. CASE calls[h].at \in ReserveSteps /\ ReserveFailed(h)
  BY <1>2, ReserveFailedMoves DEF Awaiting
<1>3. QED
  BY <1>1, <1>2 DEF Fail

-----------------------------------------------------------------------------
(* What a call begins with.                                                *)

\* The envelope, commitments and amounts of a call that begins are none, but
\* for the amounts an approval commits.
LEMMA ArriveMoves ==
    ASSUME Inv, NEW h \in Handlers, Arrive(h)
    PROVE  Moved(h) /\ Trusts(calls'[h]) /\ Reads
<1>0. TypeOK /\ PlansInv /\ Idle \in Calls
  BY IdleCall DEF Inv
<1>i. /\ Idle.op = "none" /\ Idle.at = "idle" /\ Idle.commits = {}
      /\ Idle.due = <<>> /\ Idle.envelope = NoEnvelope
  BY DEF Idle
<1>b. ASSUME NEW c \in Calls, Trusts(c), Begin(h, c)
      PROVE  Moved(h) /\ Trusts(calls'[h]) /\ Reads
  BY <1>0, <1>b, BeginMoves
<1> PICK p \in Documents :
       \/ \E contents \in Edits : EditRead(h, p, contents)
       \/ Recalculate(h, p) \/ DeleteRead(h, p)
       \/ \E user \in Users :
            \/ SubmitRead(h, p, user) \/ SubmitForApprovalRead(h, p, user)
            \/ ApproveRead(h, p, user) \/ RejectRead(h, p, user)
            \/ ReviewApprove(h, p, user) \/ ReviewReject(h, p, user)
            \/ ReviewChanges(h, p, user) \/ ReviewEscalate(h, p, user)
            \/ Escalate(h, p, user)
  BY DEF Arrive
<1>p. /\ plans[p] \in Plans /\ plans[p].contents \in Contents
      /\ plans[p].request \in Nat /\ plans[p].totalSpend \in Nat
      /\ plans[p].onInvoiceSpend \in Nat /\ plans[p].offInvoiceSpend \in Nat
  BY <1>0 DEF TypeOK, Plans
<1>q. ASSUME plans[p].status \notin {"ABSENT", "DRAFT"}
      PROVE  plans[p].request # NoRequest
  BY <1>0, <1>q DEF PlansInv
<1> USE DEF Trusts, Fits, Sound, Backed, ReserveSteps, Releasing,
            Submitting, Awaiting, Deciding, Approvals, Rejections
<1>1. ASSUME NEW contents \in Edits, EditRead(h, p, contents)
      PROVE  Moved(h) /\ Trusts(calls'[h]) /\ Reads
  <2> DEFINE c == [Idle EXCEPT !.op = "edit", !.at = "edit.write", !.plan = p,
                               !.contents = contents]
  <2>1. contents \in Contents
    BY PlanAssumption
  <2>2. c \in Calls
    BY <1>0, <2>1 DEF Calls, Ops, Steps
  <2>3. c.op = "edit" /\ c.at = "edit.write" /\ c.plan = p
    BY <1>0 DEF Calls
  <2>4. Begin(h, c)
    BY <1>1 DEF EditRead
  <2> HIDE DEF c
  <2>5. Trusts(c)
    BY <2>3
  <2>6. QED
    BY <1>b, <2>2, <2>4, <2>5
<1>2. CASE Recalculate(h, p)
  <2> DEFINE c == [Idle EXCEPT !.op = "edit", !.at = "edit.recalculate",
                               !.plan = p]
  <2>1. c \in Calls
    BY <1>0 DEF Calls, Ops, Steps
  <2>2. c.op = "edit" /\ c.at = "edit.recalculate" /\ c.plan = p
    BY <1>0 DEF Calls
  <2>3. Begin(h, c)
    BY <1>2 DEF Recalculate
  <2> HIDE DEF c
  <2>4. Trusts(c)
    BY <2>2
  <2>5. QED
    BY <1>b, <2>1, <2>3, <2>4
<1>3. CASE DeleteRead(h, p)
  <2> DEFINE at == IF plans[p].totalSpend > 0 THEN "release.lookup"
                                              ELSE "delete.write"
             c == [Idle EXCEPT !.op = "delete", !.plan = p, !.at = at]
  <2>1. at \in {"release.lookup", "delete.write"}
    OBVIOUS
  <2>2. Begin(h, c)
    BY <1>3 DEF DeleteRead
  <2> HIDE DEF at
  <2>3. c \in Calls
    BY <1>0, <2>1 DEF Calls, Ops, Steps
  <2>4. c.op = "delete" /\ c.at = at /\ c.plan = p
    BY <1>0 DEF Calls
  <2> HIDE DEF c
  <2>5. Trusts(c)
    BY <2>1, <2>4
  <2>6. QED
    BY <1>b, <2>2, <2>3, <2>5
<1>4. ASSUME NEW user \in Users, SubmitRead(h, p, user)
      PROVE  Moved(h) /\ Trusts(calls'[h]) /\ Reads
  <2> DEFINE c == [Idle EXCEPT !.op = "submit", !.at = "submit.latest",
                               !.user = user, !.plan = p]
  <2>1. c \in Calls
    BY <1>0 DEF Calls, Ops, Submissions, Steps
  <2>2. /\ c.op = "submit" /\ c.at = "submit.latest" /\ c.plan = p
        /\ c.user = user
    BY <1>0 DEF Calls
  <2>3. Begin(h, c)
    BY <1>4 DEF SubmitRead
  <2> HIDE DEF c
  <2>4. Trusts(c)
    BY <2>2
  <2>5. QED
    BY <1>b, <2>1, <2>3, <2>4
<1>5. ASSUME NEW user \in Users, SubmitForApprovalRead(h, p, user)
      PROVE  Moved(h) /\ Trusts(calls'[h]) /\ Reads
  <2> DEFINE c == [Idle EXCEPT !.op = "submitForApproval", !.at = "submit.find",
                               !.user = user, !.plan = p,
                               !.contents = plans[p].contents]
  <2>1. c \in Calls
    BY <1>0, <1>p DEF Calls, Ops, Submissions, Steps
  <2>2. /\ c.op = "submitForApproval" /\ c.at = "submit.find" /\ c.plan = p
        /\ c.user = user
    BY <1>0 DEF Calls
  <2>3. Begin(h, c)
    BY <1>5 DEF SubmitForApprovalRead
  <2> HIDE DEF c
  <2>4. Trusts(c)
    BY <2>2
  <2>5. QED
    BY <1>b, <2>1, <2>3, <2>4
<1>6. ASSUME NEW user \in Users, ApproveRead(h, p, user)
      PROVE  Moved(h) /\ Trusts(calls'[h]) /\ Reads
  <2> DEFINE c == [Idle EXCEPT !.op = "approve", !.at = "approve.find",
                               !.user = user, !.plan = p,
                               !.request = plans[p].request,
                               !.due = <<plans[p].totalSpend>>]
  <2>1. <<plans[p].totalSpend>> \in Seq(Nat) /\ <<plans[p].totalSpend>> # <<>>
    BY <1>p
  <2>2. c \in Calls
    BY <1>0, <1>p, <2>1 DEF Calls, Ops, Steps
  <2>3. /\ c.op = "approve" /\ c.at = "approve.find" /\ c.plan = p
        /\ c.due # <<>>
    BY <1>0, <2>1 DEF Calls
  <2>4. Begin(h, c) /\ plans[p].request # NoRequest
    BY <1>6 DEF ApproveRead
  <2> HIDE DEF c
  <2>5. Trusts(c)
    BY <2>3, <2>4
  <2>6. QED
    BY <1>b, <2>2, <2>4, <2>5
<1>7. ASSUME NEW user \in Users, RejectRead(h, p, user)
      PROVE  Moved(h) /\ Trusts(calls'[h]) /\ Reads
  <2> DEFINE c == [Idle EXCEPT !.op = "reject", !.at = "request.read",
                               !.user = user, !.plan = p,
                               !.request = plans[p].request]
  <2>1. c \in Calls
    BY <1>0, <1>p DEF Calls, Ops, Steps, Rejections
  <2>2. c.op = "reject" /\ c.at = "request.read" /\ c.plan = p
    BY <1>0 DEF Calls
  <2>3. Begin(h, c) /\ plans[p].request # NoRequest
    BY <1>7 DEF RejectRead
  <2> HIDE DEF c
  <2>4. Trusts(c)
    BY <2>2, <2>3
  <2>5. QED
    BY <1>b, <2>1, <2>3, <2>4
<1>8. ASSUME NEW user \in Users, ReviewApprove(h, p, user)
      PROVE  Moved(h) /\ Trusts(calls'[h]) /\ Reads
  <2> DEFINE due == Due(plans[p].onInvoiceSpend, plans[p].offInvoiceSpend)
             at == IF due = <<>> THEN "request.read" ELSE "reserve.lookup"
             c == [Idle EXCEPT !.op = "reviewApprove", !.user = user, !.plan = p,
                               !.request = plans[p].request, !.due = due,
                               !.at = at]
  <2>1. due \in Seq(Nat)
    BY <1>p, DueAmounts
  <2>2. Begin(h, c) /\ plans[p].request # NoRequest
    BY <1>8, <1>q DEF ReviewApprove, MayReview, Found
  <2>3. at \in {"request.read", "reserve.lookup"} /\ (due = <<>> => at = "request.read")
    OBVIOUS
  <2> HIDE DEF due, at
  <2>4. c \in Calls
    BY <1>0, <1>p, <2>1, <2>3 DEF Calls, Ops, Steps
  <2>5. /\ c.op = "reviewApprove" /\ c.at = at /\ c.plan = p /\ c.due = due
    BY <1>0 DEF Calls
  <2> HIDE DEF c
  <2>6. Trusts(c)
    BY <2>2, <2>3, <2>5
  <2>7. QED
    BY <1>b, <2>2, <2>4, <2>6
<1>9. ASSUME NEW user \in Users,
             NEW op \in {"reviewReject", "reviewChanges", "escalate"},
             NEW at \in {"release.lookup", "escalate.read"},
             op = "escalate" <=> at = "escalate.read",
             Review(h, p, user, op, at)
      PROVE  Moved(h) /\ Trusts(calls'[h]) /\ Reads
  <2> DEFINE c == [Idle EXCEPT !.op = op, !.at = at, !.user = user, !.plan = p,
                               !.request = plans[p].request]
  <2>1. c \in Calls
    BY <1>0, <1>p DEF Calls, Ops, Steps
  <2>2. c.op = op /\ c.at = at /\ c.plan = p
    BY <1>0 DEF Calls
  <2>3. Begin(h, c) /\ plans[p].request # NoRequest
    BY <1>9, <1>q DEF Review, MayReview, Found
  <2> HIDE DEF c
  <2>4. Trusts(c)
    BY <1>9, <2>2, <2>3
  <2>5. QED
    BY <1>b, <2>1, <2>3, <2>4
<1>10. ASSUME NEW user \in Users, Escalate(h, p, user)
       PROVE  Moved(h) /\ Trusts(calls'[h]) /\ Reads
  <2> DEFINE c == [Idle EXCEPT !.op = "escalate", !.at = "escalate.write",
                               !.user = user, !.plan = p]
  <2>1. c \in Calls
    BY <1>0 DEF Calls, Ops, Steps
  <2>2. c.op = "escalate" /\ c.at = "escalate.write" /\ c.plan = p
    BY <1>0 DEF Calls
  <2>3. Begin(h, c) /\ plans[p].request # NoRequest
    BY <1>10, <1>q DEF Escalate, Found
  <2> HIDE DEF c
  <2>4. Trusts(c)
    BY <2>2, <2>3
  <2>5. QED
    BY <1>b, <2>1, <2>3, <2>4
<1>11. QED
  BY <1>1, <1>2, <1>3, <1>4, <1>5, <1>6, <1>7, <1>8, <1>9, <1>10
     DEF ReviewReject, ReviewChanges, ReviewEscalate

DirectSteps == {"direct.approve", "direct.reject", "direct.withdraw"}

\* A request that is decided directly brings its plan along.
LEMMA DirectMoves ==
    ASSUME Inv, NEW h \in Handlers, Direct(h)
    PROVE  Moved(h) /\ Trusts(calls'[h])
<1>0. TypeOK /\ Idle \in Calls
  BY IdleCall DEF Inv
<1>1. ASSUME NEW step \in DirectSteps, NEW status, DirectWrite(h, step, status)
      PROVE  Moved(h) /\ Trusts(calls'[h])
  BY <1>0, <1>1, ReturnMoves DEF DirectWrite
<1>2. ASSUME NEW r \in DOMAIN requests, NEW user \in Users,
             NEW step \in DirectSteps, DirectRead(h, r, user, step)
      PROVE  Moved(h) /\ Trusts(calls'[h])
  <2> DEFINE c == [Idle EXCEPT !.op = "direct", !.at = step, !.user = user,
                               !.plan = requests[r].entity, !.request = r]
  <2>1. requests[r] \in Requests /\ r \in Nat
    BY <1>0, LenProperties, ElementOfSeq DEF TypeOK, ApprovalTypeOK
  <2>2. requests[r].entity \in Documents
    BY <2>1 DEF Requests
  <2>3. c \in Calls
    BY <1>0, <2>1, <2>2 DEF Calls, Ops, Steps, DirectSteps
  <2>4. c.op = "direct" /\ c.at = step /\ c.plan \in Documents
    BY <1>0, <2>2 DEF Calls
  <2>5. Begin(h, c)
    BY <1>2 DEF DirectRead
  <2> HIDE DEF c
  <2>6. Trusts(c)
    BY <2>4 DEF DirectSteps, Trusts, Fits, Sound, Backed, ReserveSteps, Releasing,
            Submitting, Awaiting, Deciding, Approvals, Rejections
  <2>7. QED
    BY <1>0, <2>3, <2>5, <2>6, BeginMoves
<1>3. QED
  BY <1>1, <1>2 DEF Direct, DirectApproveRead, DirectRejectRead,
                    DirectWithdrawRead, DirectSteps

-----------------------------------------------------------------------------
(* Which actions touch which table.                                        *)

\* Only reserveForPlan and releaseForPlan write budget_transactions.
LEMMA TransactionSteps ==
    ASSUME Inv, [Next]_vars
    PROVE  \/ \E h \in Handlers : ReserveInsert(h) \/ ReleaseInsert(h)
           \/ UNCHANGED transactions
<1>1. CASE UNCHANGED vars
  BY <1>1 DEF vars
<1>2. CASE \E p \in Documents : Create(p)
  BY <1>2 DEF Create, WritesPlan
<1>3. CASE \E e \in Envelopes : OpenEnvelope(e)
  BY <1>3 DEF OpenEnvelope, CreateEnvelope
<1>4. ASSUME NEW h \in Handlers, Arrive(h)
      PROVE  UNCHANGED transactions
  BY <1>4, ArriveMoves DEF Reads
<1>5. ASSUME NEW h \in Handlers, Edit(h) \/ Submit(h) \/ Decide(h) \/ Fail(h)
      PROVE  UNCHANGED transactions
  BY <1>5 DEF Edit, EditWrite, RecalculateRead, RecalculateWrite, Submit,
              SubmitFind, SubmitStatus, SubmitCheck, SubmitLatest, SubmitInsert,
              SubmitWrite, SubmitForApprovalWrite, SubmitReread, SubmitRollback,
              Decide, RequestRead, RequestWrite, StatusWrite, EscalateRead,
              EscalateWrite, DeleteWrite, Fail, Reads, WritesPlan
<1>6. ASSUME NEW h \in Handlers, Reserve(h)
      PROVE  ReserveInsert(h) \/ UNCHANGED transactions
  BY <1>6 DEF Reserve, ApproveFind, ApproveCreate, ApproveCreateConflict,
              ReserveLookup, ReserveFind, ReserveAvailable,
              ReserveInsertDuplicate, Reads
<1>7. ASSUME NEW h \in Handlers, Release(h)
      PROVE  ReleaseInsert(h) \/ UNCHANGED transactions
  BY <1>7 DEF Release, ReleaseLookup, ReleaseCheck, ReleaseInsertDuplicate, Reads
<1>8. ASSUME NEW h \in Handlers, Direct(h)
      PROVE  UNCHANGED transactions
  BY <1>8 DEF Direct, DirectApproveRead, DirectRejectRead, DirectWithdrawRead,
              DirectRead, DirectWrite, Begin
<1>9. QED
  BY <1>1, <1>2, <1>3, <1>4, <1>5, <1>6, <1>7, <1>8 DEF Next

\* Only submissions insert into approval_requests, only decisions update it.
LEMMA RequestChanges ==
    ASSUME Inv, [Next]_vars
    PROVE  \/ \E h \in Handlers :
                \/ SubmitInsert(h)
                \/ \E status \in RequestStatuses :
                     WriteDecision(calls[h].request, status, calls[h].user)
           \/ UNCHANGED requests
<1>1. CASE UNCHANGED vars
  BY <1>1 DEF vars
<1>2. CASE \E p \in Documents : Create(p)
  BY <1>2 DEF Create, WritesPlan
<1>3. CASE \E e \in Envelopes : OpenEnvelope(e)
  BY <1>3 DEF OpenEnvelope
<1>4. ASSUME NEW h \in Handlers, Arrive(h)
      PROVE  UNCHANGED requests
  BY <1>4, ArriveMoves DEF Reads
<1>5. ASSUME NEW h \in Handlers, Edit(h) \/ Submit(h) \/ Fail(h)
      PROVE  SubmitInsert(h) \/ UNCHANGED requests
  BY <1>5 DEF Edit, EditWrite, RecalculateRead, RecalculateWrite, Submit,
              SubmitFind, SubmitStatus, SubmitCheck, SubmitLatest,
              SubmitWrite, SubmitForApprovalWrite, SubmitReread, SubmitRollback,
              Fail, Reads, WritesPlan
<1>6. ASSUME NEW h \in Handlers, Reserve(h) \/ Release(h)
      PROVE  UNCHANGED requests
  BY <1>6 DEF Reserve, ApproveFind, ApproveCreate, ApproveCreateConflict,
              ReserveLookup, ReserveFind, ReserveAvailable, ReserveInsert,
              ReserveInsertDuplicate, Release, ReleaseLookup, ReleaseCheck,
              ReleaseInsert, ReleaseInsertDuplicate, Reads
<1>7. ASSUME NEW h \in Handlers, Decide(h)
      PROVE  \/ \E status \in RequestStatuses :
                  WriteDecision(calls[h].request, status, calls[h].user)
             \/ UNCHANGED requests
  <2>1. CASE RequestWrite(h)
    BY <2>1 DEF RequestWrite, RequestStatuses
  <2>2. CASE ~RequestWrite(h)
    BY <1>7, <2>2 DEF Decide, RequestRead, StatusWrite, EscalateRead,
                      EscalateWrite, DeleteWrite, Reads, WritesPlan
  <2>3. QED
    BY <2>1, <2>2
<1>8. ASSUME NEW h \in Handlers, Direct(h)
      PROVE  \/ \E status \in RequestStatuses :
                  WriteDecision(calls[h].request, status, calls[h].user)
             \/ UNCHANGED requests
  <2>1. ASSUME NEW step, NEW status \in RequestStatuses,
               DirectWrite(h, step, status)
        PROVE  WriteDecision(calls[h].request, status, calls[h].user)
    BY <2>1 DEF DirectWrite
  <2>2. /\ "APPROVED" \in RequestStatuses /\ "REJECTED" \in RequestStatuses
        /\ "CANCELLED" \in RequestStatuses
    BY DEF RequestStatuses
  <2>3. ASSUME NEW r \in DOMAIN requests, NEW user \in Users,
               \/ DirectApproveRead(h, r, user) \/ DirectRejectRead(h, r, user)
               \/ DirectWithdrawRead(h, r, user)
        PROVE  UNCHANGED requests
    BY <2>3 DEF DirectApproveRead, DirectRejectRead, DirectWithdrawRead,
                DirectRead, Begin
  <2>4. QED
    BY <1>8, <2>1, <2>2, <2>3 DEF Direct
<1>9. QED
  BY <1>1, <1>2, <1>3, <1>4, <1>5, <1>6, <1>7, <1>8 DEF Next

\* The writes to plans.
LEMMA PlanChanges ==
    ASSUME Inv, [Next]_vars
    PROVE  \/ \E p \in Documents : Create(p)
           \/ \E h \in Handlers :
                \/ EditWrite(h) \/ RecalculateWrite(h) \/ SubmitWrite(h)
                \/ SubmitForApprovalWrite(h) \/ SubmitRollback(h)
                \/ StatusWrite(h) \/ EscalateWrite(h) \/ DeleteWrite(h)
           \/ UNCHANGED plans
<1>1. CASE UNCHANGED vars
  BY <1>1 DEF vars
<1>2. CASE \E e \in Envelopes : OpenEnvelope(e)
  BY <1>2 DEF OpenEnvelope
<1>3. ASSUME NEW h \in Handlers, Arrive(h)
      PROVE  UNCHANGED plans
  BY <1>3, ArriveMoves DEF Reads
<1>4. ASSUME NEW h \in Handlers, Edit(h) \/ Fail(h)
      PROVE  EditWrite(h) \/ RecalculateWrite(h) \/ UNCHANGED plans
  BY <1>4 DEF Edit, RecalculateRead, Fail, Reads
<1>5. ASSUME NEW h \in Handlers, Submit(h)
      PROVE  \/ SubmitWrite(h) \/ SubmitForApprovalWrite(h) \/ SubmitRollback(h)
             \/ UNCHANGED plans
  BY <1>5 DEF Submit, SubmitFind, SubmitStatus, SubmitCheck, SubmitLatest,
              SubmitInsert, SubmitReread, Reads
<1>6. ASSUME NEW h \in Handlers, Reserve(h) \/ Release(h)
      PROVE  UNCHANGED plans
  BY <1>6 DEF Reserve, ApproveFind, ApproveCreate, ApproveCreateConflict,
              ReserveLookup, ReserveFind, ReserveAvailable, ReserveInsert,
              ReserveInsertDuplicate, Release, ReleaseLookup, ReleaseCheck,
              ReleaseInsert, ReleaseInsertDuplicate, Reads
<1>7. ASSUME NEW h \in Handlers, Decide(h)
      PROVE  \/ StatusWrite(h) \/ EscalateWrite(h) \/ DeleteWrite(h)
             \/ UNCHANGED plans
  BY <1>7 DEF Decide, RequestRead, RequestWrite, EscalateRead, Reads
<1>8. ASSUME NEW h \in Handlers, Direct(h)
      PROVE  UNCHANGED plans
  BY <1>8 DEF Direct, DirectApproveRead, DirectRejectRead, DirectWithdrawRead,
              DirectRead, DirectWrite, Begin
<1>9. QED
  BY <1>1, <1>2, <1>3, <1>4, <1>5, <1>6, <1>7, <1>8 DEF Next

\* Envelopes are opened by clients or created by an approval; the ledger is
\* never written.
LEMMA EnvelopeChanges ==
    ASSUME Inv, [Next]_vars
    PROVE  /\ UNCHANGED ledger
           /\ \/ \E e \in Envelopes : OpenEnvelope(e)
              \/ \E h \in Handlers : ApproveCreate(h)
              \/ UNCHANGED envelopes
<1> DEFINE Same == UNCHANGED <<envelopes, ledger>>
<1>1. CASE UNCHANGED vars
  BY <1>1 DEF vars
<1>2. CASE \E p \in Documents : Create(p)
  BY <1>2 DEF Create, WritesPlan
<1>3. CASE \E e \in Envelopes : OpenEnvelope(e)
  BY <1>3 DEF OpenEnvelope, CreateEnvelope
<1>4. ASSUME NEW h \in Handlers, Arrive(h)
      PROVE  Same
  BY <1>4, ArriveMoves DEF Reads
<1>5. ASSUME NEW h \in Handlers, Edit(h) \/ Submit(h) \/ Decide(h) \/ Fail(h)
      PROVE  Same
  BY <1>5 DEF Edit, EditWrite, RecalculateRead, RecalculateWrite, Submit,
              SubmitFind, SubmitStatus, SubmitCheck, SubmitLatest, SubmitInsert,
              SubmitWrite, SubmitForApprovalWrite, SubmitReread, SubmitRollback,
              Decide, RequestRead, RequestWrite, StatusWrite, EscalateRead,
              EscalateWrite, DeleteWrite, Fail, Reads, WritesPlan
<1>6. ASSUME NEW h \in Handlers, Reserve(h)
      PROVE  UNCHANGED ledger /\ (ApproveCreate(h) \/ UNCHANGED envelopes)
  BY <1>6 DEF Reserve, ApproveFind, ApproveCreate, ApproveCreateConflict,
              ReserveLookup, ReserveFind, ReserveAvailable, ReserveInsert,
              ReserveInsertDuplicate, Reads, PostTransaction
<1>7. ASSUME NEW h \in Handlers, Release(h)
      PROVE  Same
  BY <1>7 DEF Release, ReleaseLookup, ReleaseCheck, ReleaseInsert,
              ReleaseInsertDuplicate, Reads, PostTransaction
<1>8. ASSUME NEW h \in Handlers, Direct(h)
      PROVE  Same
  BY <1>8 DEF Direct, DirectApproveRead, DirectRejectRead, DirectWithdrawRead,
              DirectRead, DirectWrite, Begin
<1>9. QED
  BY <1>1, <1>2, <1>3, <1>4, <1>5, <1>6, <1>7, <1>8 DEF Next

-----------------------------------------------------------------------------
(* The tables grow: a row keeps its place, and what identifies it.         *)

CommitRow(h) == [type |-> "COMMIT", source |-> calls[h].plan,
                 envelope |-> calls[h].envelope,
                 amount |-> Head(calls[h].due), key |-> CommitKey(h)]

ReleaseRow(h) == [type |-> "RELEASE", source |-> calls[h].plan,
                  envelope |-> CommitInHand(h).envelope,
                  amount |-> CommitInHand(h).amount, key |-> ReleaseKey(h)]

LEMMA CommitPosted ==
    ASSUME Inv, NEW h \in Handlers, ReserveInsert(h)
    PROVE  /\ CommitRow(h) \in Transactions
           /\ transactions' = Append(transactions, CommitRow(h))
           /\ KeyIsFree(CommitKey(h))
           /\ calls[h].plan \in Documents /\ calls[h].envelope \in Envelopes
<1>1. calls[h] \in Calls /\ Trusts(calls[h]) /\ calls[h].at = "reserve.insert"
  BY DEF Inv, TypeOK, CallsInv, ReserveInsert, At
<1>2. /\ calls[h].plan \in Documents /\ calls[h].envelope \in Envelopes
      /\ calls[h].due \in Seq(Nat) /\ calls[h].due # <<>>
  BY <1>1 DEF Trusts, Sound, Awaiting, ReserveSteps, Calls
<1>3. Head(calls[h].due) \in Nat
  BY <1>2, HeadTailProperties
<1>4. CommitRow(h) \in Transactions
  BY <1>2, <1>3 DEF CommitRow, CommitKey, Key, Transactions, TxKeys, TxTypes
<1>5. QED
  BY <1>2, <1>4 DEF ReserveInsert, PostTransaction, CommitRow

LEMMA ReleasePosted ==
    ASSUME Inv, NEW h \in Handlers, ReleaseInsert(h)
    PROVE  /\ ReleaseRow(h) \in Transactions
           /\ transactions' = Append(transactions, ReleaseRow(h))
           /\ KeyIsFree(ReleaseKey(h))
           /\ calls[h].plan \in Documents /\ CommitInHand(h).envelope \in Envelopes
           /\ Newest(calls[h].commits) \in FindBySource("COMMIT", calls[h].plan)
<1>1. /\ calls[h] \in Calls /\ Trusts(calls[h]) /\ calls[h].at = "release.insert"
      /\ transactions \in Seq(Transactions)
  BY DEF Inv, TypeOK, BudgetTypeOK, CallsInv, ReleaseInsert, At
<1>2. calls[h].plan \in Documents
  BY <1>1 DEF Trusts, Sound
<1>3. Newest(calls[h].commits) \in FindBySource("COMMIT", calls[h].plan)
  BY <1>1, InHand
<1>4. Newest(calls[h].commits) \in 1..Len(transactions)
  BY <1>1, <1>3, LenProperties DEF FindBySource
<1>5. CommitInHand(h) \in Transactions
  BY <1>1, <1>4, ElementOfSeq DEF CommitInHand
<1>6. CommitInHand(h).envelope \in Envelopes /\ CommitInHand(h).amount \in Nat
  BY <1>5 DEF Transactions
<1>7. ReleaseRow(h) \in Transactions
  BY <1>2, <1>6 DEF ReleaseRow, ReleaseKey, Key, Transactions, TxKeys, TxTypes
<1>8. QED
  BY <1>2, <1>3, <1>6, <1>7 DEF ReleaseInsert, PostTransaction, ReleaseRow

\* budget_transactions is append-only.
LEMMA TransactionsGrow ==
    ASSUME Inv, [Next]_vars
    PROVE  /\ transactions' \in Seq(Transactions)
           /\ \A i \in DOMAIN transactions : /\ i \in DOMAIN transactions'
                                            /\ transactions'[i] = transactions[i]
<1>1. transactions \in Seq(Transactions) /\ Len(transactions) \in Nat
  BY LenProperties DEF Inv, TypeOK, BudgetTypeOK
<1>2. ASSUME NEW row \in Transactions, transactions' = Append(transactions, row)
      PROVE  /\ transactions' \in Seq(Transactions)
             /\ \A i \in DOMAIN transactions :
                   /\ i \in DOMAIN transactions'
                   /\ transactions'[i] = transactions[i]
  BY <1>1, <1>2, AppendProperties, LenProperties
<1>3. ASSUME NEW h \in Handlers, ReserveInsert(h) \/ ReleaseInsert(h)
      PROVE  \E row \in Transactions : transactions' = Append(transactions, row)
  BY <1>3, CommitPosted, ReleasePosted
<1>4. CASE UNCHANGED transactions
  BY <1>1, <1>4
<1>5. QED
  BY <1>2, <1>3, <1>4, TransactionSteps

\* A request keeps its entity and its requester for ever.
LEMMA RequestsGrow ==
    ASSUME Inv, [Next]_vars
    PROVE  /\ requests' \in Seq(Requests)
           /\ \A r \in DOMAIN requests :
                /\ r \in DOMAIN requests'
                /\ requests'[r].entity = requests[r].entity
<1>1. requests \in Seq(Requests) /\ Len(requests) \in Nat
  BY LenProperties DEF Inv, TypeOK, ApprovalTypeOK
<1>2. ASSUME NEW h \in Handlers, SubmitInsert(h)
      PROVE  \E row \in Requests : requests' = Append(requests, row)
  <2>1. calls[h].plan \in Documents /\ calls[h].user \in Users
    BY <1>2 DEF Inv, CallsInv, Trusts, Sound, SubmitInsert, At, Submitting
  <2>2. QED
    BY <1>2, <2>1 DEF SubmitInsert, InsertRequest, Requests, RequestStatuses
<1>3. ASSUME NEW row \in Requests, requests' = Append(requests, row)
      PROVE  /\ requests' \in Seq(Requests)
             /\ \A r \in DOMAIN requests :
                  r \in DOMAIN requests' /\ requests'[r] = requests[r]
  BY <1>1, <1>3, AppendProperties, LenProperties
<1>4. ASSUME NEW h \in Handlers, NEW status \in RequestStatuses,
             WriteDecision(calls[h].request, status, calls[h].user)
      PROVE  /\ requests' \in Seq(Requests)
             /\ DOMAIN requests' = DOMAIN requests
             /\ \A q \in DOMAIN requests :
                  requests'[q].entity = requests[q].entity
  <2> DEFINE r == calls[h].request
             user == calls[h].user
             row == [requests[r] EXCEPT !.status = status, !.decidedBy = user]
  <2>0. user \in Users \cup {NoUser}
    BY DEF Inv, TypeOK, Calls
  <2>w. requests' = [requests EXCEPT ![r].status = status, ![r].decidedBy = user]
    BY <1>4 DEF WriteDecision
  <2> HIDE DEF r, user
  <2>1. CASE r \in DOMAIN requests
    <3>1. r \in 1..Len(requests) /\ requests[r] \in Requests
      BY <1>1, <2>1, LenProperties, ElementOfSeq
    <3>2. row \in Requests
      BY <2>0, <3>1 DEF Requests
    <3>3. requests' = [requests EXCEPT ![r] = row]
      BY <1>1, <2>w, <2>1, LenProperties
    <3>4. /\ [requests EXCEPT ![r] = row] \in Seq(Requests)
          /\ Len([requests EXCEPT ![r] = row]) = Len(requests)
      BY <1>1, <3>1, <3>2, ExceptSeq
    <3>5. row.entity = requests[r].entity
      BY <3>1 DEF Requests
    <3>6. QED
      BY <1>1, <3>1, <3>3, <3>4, <3>5, LenProperties
  <2>2. CASE r \notin DOMAIN requests
    <3>1. requests' = requests
      BY <1>1, <2>w, <2>2, LenProperties
    <3>2. QED
      BY <1>1, <3>1
  <2>3. QED
    BY <2>1, <2>2
<1>5. CASE UNCHANGED requests
  BY <1>1, <1>5
<1>6. QED
  BY <1>2, <1>3, <1>4, <1>5, RequestChanges

\* A plan comes by the number of a request only as one that was filed for it,
\* and it leaves DRAFT only with one.
LEMMA PlanEffects ==
    ASSUME Inv, [Next]_vars
    PROVE  /\ plans' \in [Documents -> Plans]
           /\ \A p \in Documents :
                \/ /\ plans'[p].request = plans[p].request
                   /\ \/ plans'[p].status = plans[p].status
                      \/ plans'[p].status = "DRAFT"
                      \/ plans[p].request # NoRequest
                \/ Filed(p, plans'[p].request)
<1>0. plans \in [Documents -> Plans] /\ calls \in [Handlers -> Calls]
  BY DEF Inv, TypeOK
<1> DEFINE Good(p, row) ==
             \/ /\ row.request = plans[p].request
                /\ \/ row.status = plans[p].status
                   \/ row.status = "DRAFT"
                   \/ plans[p].request # NoRequest
             \/ Filed(p, row.request)
           Goal == /\ plans' \in [Documents -> Plans]
                   /\ \A p \in Documents : Good(p, plans'[p])
<1> HIDE DEF Goal
<1>1. ASSUME NEW p \in Documents, NEW row \in Plans, Good(p, row),
             plans' = [plans EXCEPT ![p] = row]
      PROVE  Goal
  BY <1>0, <1>1 DEF Goal
<1>2. ASSUME UNCHANGED plans
      PROVE  Goal
  BY <1>0, <1>2 DEF Goal
<1>3. ASSUME NEW p \in Documents, Create(p)
      PROVE  Goal
  <2> DEFINE row == [plans[p] EXCEPT !.status = "DRAFT"]
  <2>1. plans[p] \in Plans
    BY <1>0
  <2>2. row \in Plans /\ row.request = plans[p].request /\ row.status = "DRAFT"
    BY <2>1 DEF Plans, PlanStatuses
  <2>3. plans' = [plans EXCEPT ![p] = row]
    BY <1>0, <1>3 DEF Create
  <2>4. QED
    BY <1>1, <2>2, <2>3
<1>4. ASSUME NEW h \in Handlers
      PROVE  /\ calls[h] \in Calls /\ Trusts(calls[h])
             /\ calls[h].contents \in Contents
             /\ calls[h].request \in Nat
             /\ calls[h].user \in Users \cup {NoUser}
  BY DEF Inv, TypeOK, CallsInv, Calls
<1>5. ASSUME NEW h \in Handlers, EditWrite(h)
      PROVE  Goal
  <2> DEFINE p == calls[h].plan
             row == [plans[p] EXCEPT !.contents = calls[h].contents]
  <2>1. p \in Documents
    BY <1>4, <1>5 DEF EditWrite, At, Trusts, Sound
  <2>2. plans' = [plans EXCEPT ![p] = row]
    BY <1>0, <1>5, <2>1 DEF EditWrite
  <2> HIDE DEF p
  <2>3. plans[p] \in Plans
    BY <1>0, <2>1
  <2>4. /\ row \in Plans /\ row.request = plans[p].request
        /\ row.status = plans[p].status
    BY <1>4, <2>3 DEF Plans
  <2>5. QED
    BY <1>1, <2>1, <2>2, <2>4
<1>6. ASSUME NEW h \in Handlers, RecalculateWrite(h)
      PROVE  Goal
  <2> DEFINE p == calls[h].plan
             total == Spend(calls[h].contents)
             row == [plans[p] EXCEPT !.totalSpend = total]
  <2>1. p \in Documents
    BY <1>4, <1>6 DEF RecalculateWrite, At, Trusts, Sound
  <2>2. plans' = [plans EXCEPT ![p] = row]
    BY <1>0, <1>6, <2>1 DEF RecalculateWrite
  <2>3. total \in Nat
    BY <1>4 DEF Spend, Contents
  <2> HIDE DEF p, total
  <2>4. plans[p] \in Plans
    BY <1>0, <2>1
  <2>5. /\ row \in Plans /\ row.request = plans[p].request
        /\ row.status = plans[p].status
    BY <2>3, <2>4 DEF Plans
  <2>6. QED
    BY <1>1, <2>1, <2>2, <2>5
<1>7. ASSUME NEW h \in Handlers, SubmitWrite(h)
      PROVE  Goal
  <2> DEFINE p == calls[h].plan
             r == calls[h].request
             row == [plans[p] EXCEPT !.status = "PENDING_APPROVAL",
                                     !.request = r]
  <2>1. p \in Documents /\ Filed(p, r)
    BY <1>4, <1>7 DEF SubmitWrite, At, Trusts, Sound, Backed
  <2>2. plans' = [plans EXCEPT ![p] = row]
    BY <1>0, <1>7, <2>1 DEF SubmitWrite
  <2>3. r \in Nat
    BY <1>4
  <2> HIDE DEF p, r
  <2>4. plans[p] \in Plans
    BY <1>0, <2>1
  <2>5. row \in Plans /\ row.request = r
    BY <2>3, <2>4 DEF Plans, PlanStatuses
  <2>6. QED
    BY <1>1, <2>1, <2>2, <2>5
<1>8. ASSUME NEW h \in Handlers, SubmitForApprovalWrite(h)
      PROVE  Goal
  <2> DEFINE p == calls[h].plan
             r == calls[h].request
             u == calls[h].user
             on == calls[h].contents.on
             off == calls[h].contents.off
             row == [plans[p] EXCEPT !.status = "PENDING_APPROVAL",
                       !.request = r, !.submittedBy = u,
                       !.onInvoiceSpend = on, !.offInvoiceSpend = off]
  <2>1. p \in Documents /\ Filed(p, r)
    BY <1>4, <1>8 DEF SubmitForApprovalWrite, At, Trusts, Sound, Backed
  <2>2. plans' = [plans EXCEPT ![p] = row]
    BY <1>0, <1>8, <2>1 DEF SubmitForApprovalWrite
  <2>3. /\ r \in Nat /\ u \in Users \cup {NoUser} /\ on \in Nat /\ off \in Nat
    BY <1>4 DEF Contents
  <2> HIDE DEF p, r, u, on, off
  <2>4. plans[p] \in Plans
    BY <1>0, <2>1
  <2>5. row \in Plans
    BY <2>3, <2>4 DEF Plans, PlanStatuses
  <2>6. row.request = r
    BY <2>4 DEF Plans
  <2>7. QED
    BY <1>1, <2>1, <2>2, <2>5, <2>6
<1>9. ASSUME NEW h \in Handlers, NEW status \in PlanStatuses,
             calls[h].at # "idle", SetStatus(h, status),
             \/ status = "DRAFT" \/ calls[h].op \in Deciding
      PROVE  Goal
  <2> DEFINE p == calls[h].plan
             row == [plans[p] EXCEPT !.status = status]
  <2>1. p \in Documents
    BY <1>4, <1>9 DEF Trusts, Sound
  <2>2. plans' = [plans EXCEPT ![p] = row]
    BY <1>0, <1>9, <2>1 DEF SetStatus
  <2>3. status = "DRAFT" \/ plans[p].request # NoRequest
    BY <1>4, <1>9 DEF Trusts, Backed
  <2> HIDE DEF p
  <2>4. plans[p] \in Plans
    BY <1>0, <2>1
  <2>5. row \in Plans /\ row.request = plans[p].request /\ row.status = status
    BY <2>4 DEF Plans
  <2>6. QED
    BY <1>1, <2>1, <2>2, <2>3, <2>5
<1>10. ASSUME NEW h \in Handlers, SubmitRollback(h)
       PROVE  Goal
  BY <1>9, <1>10 DEF SubmitRollback, At, PlanStatuses
<1>11. ASSUME NEW h \in Handlers, EscalateWrite(h)
       PROVE  Goal
  <2>1. calls[h].at = "escalate.write" /\ calls[h].op \in Deciding
    BY <1>4, <1>11 DEF EscalateWrite, At, Trusts, Fits, Deciding
  <2>2. QED
    BY <1>9, <1>11, <2>1 DEF EscalateWrite, PlanStatuses
<1>12. ASSUME NEW h \in Handlers, StatusWrite(h)
       PROVE  Goal
  <2>1. /\ calls[h].at = "status.write" /\ calls[h].op \in Deciding
        /\ calls[h].op \in Approvals \cup Rejections \cup {"reviewChanges"}
    BY <1>4, <1>12 DEF StatusWrite, At, Trusts, Fits, Deciding
  <2>2. \E status \in PlanStatuses : SetStatus(h, status)
    <3>1. CASE calls[h].op \in Approvals
      BY <1>12, <3>1 DEF StatusWrite, PlanStatuses
    <3>2. CASE calls[h].op \in Rejections
      BY <1>12, <3>2 DEF StatusWrite, PlanStatuses, Approvals, Rejections
    <3>3. CASE calls[h].op = "reviewChanges"
      BY <1>12, <3>3 DEF StatusWrite, PlanStatuses, Approvals, Rejections
    <3>4. QED
      BY <2>1, <3>1, <3>2, <3>3
  <2>3. QED
    BY <1>9, <2>1, <2>2
<1>13. ASSUME NEW h \in Handlers, DeleteWrite(h)
       PROVE  Goal
  <2> DEFINE p == calls[h].plan
             row == [plans[p] EXCEPT !.deleted = TRUE]
  <2>1. p \in Documents
    BY <1>4, <1>13 DEF DeleteWrite, At, Trusts, Sound
  <2>2. plans' = [plans EXCEPT ![p] = row]
    BY <1>0, <1>13, <2>1 DEF DeleteWrite
  <2> HIDE DEF p
  <2>3. plans[p] \in Plans
    BY <1>0, <2>1
  <2>4. /\ row \in Plans /\ row.request = plans[p].request
        /\ row.status = plans[p].status
    BY <2>3 DEF Plans
  <2>5. QED
    BY <1>1, <2>1, <2>2, <2>4
<1>14. ASSUME NEW h \in Handlers,
              \/ EditWrite(h) \/ RecalculateWrite(h) \/ SubmitWrite(h)
              \/ SubmitForApprovalWrite(h) \/ SubmitRollback(h)
              \/ StatusWrite(h) \/ EscalateWrite(h) \/ DeleteWrite(h)
       PROVE  Goal
  BY <1>5, <1>6, <1>7, <1>8, <1>10, <1>11, <1>12, <1>13, <1>14
<1>15. Goal
  BY <1>2, <1>3, <1>14, PlanChanges
<1>16. QED
  BY <1>15 DEF Goal

-----------------------------------------------------------------------------
(* Each part of the invariant is kept.                                     *)

\* What a call trusts in stays true.
LEMMA TrustStays ==
    ASSUME Inv, [Next]_vars, NEW c, Trusts(c)
    PROVE  Trusts(c)'
<1>1. Fits(c)' /\ Sound(c)'
  BY DEF Trusts, Fits, Sound
<1>2. /\ c.at = "submit.write" => Filed(c.plan, c.request)
      /\ c.at \in {"release.check", "release.insert"} =>
           c.commits # {} /\ c.commits \subseteq FindBySource("COMMIT", c.plan)
      /\ c.op \in Deciding =>
           c.plan \in Documents /\ plans[c.plan].request # NoRequest
  BY DEF Trusts, Backed
<1>3. Filed(c.plan, c.request) => Filed(c.plan, c.request)'
  BY RequestsGrow DEF Filed
<1>4. FindBySource("COMMIT", c.plan) \subseteq FindBySource("COMMIT", c.plan)'
  BY TransactionsGrow DEF FindBySource
<1>5. ASSUME c.plan \in Documents, plans[c.plan].request # NoRequest
      PROVE  plans'[c.plan].request # NoRequest
  <2>1. CASE plans'[c.plan].request = plans[c.plan].request
    BY <1>5, <2>1
  <2>2. CASE Filed(c.plan, plans'[c.plan].request)
    <3>1. DOMAIN requests = 1..Len(requests) /\ Len(requests) \in Nat
      BY LenProperties DEF Inv, TypeOK, ApprovalTypeOK
    <3>2. QED
      BY <2>2, <3>1 DEF Filed, NoRequest
  <2>3. QED
    BY <1>5, <2>1, <2>2, PlanEffects
<1>6. Backed(c)'
  BY <1>2, <1>3, <1>4, <1>5 DEF Backed
<1>7. QED
  BY <1>1, <1>6 DEF Trusts

LEMMA CallsStep ==
    ASSUME Inv, [Next]_vars
    PROVE  CallsInv' /\ calls' \in [Handlers -> Calls]
<1>0. calls \in [Handlers -> Calls] /\ \A g \in Handlers : Trusts(calls[g])
  BY DEF Inv, TypeOK, CallsInv
<1> DEFINE Goal == /\ calls' \in [Handlers -> Calls]
                   /\ \A g \in Handlers : \E c : c = calls'[g] /\ Trusts(c)'
<1>1. ASSUME NEW h \in Handlers, Moved(h), NEW d, d = calls'[h], Trusts(d)'
      PROVE  Goal
  <2>1. ASSUME NEW g \in Handlers, g # h
        PROVE  \E c : c = calls'[g] /\ Trusts(c)'
    <3>1. PICK c : c = calls[g]
      OBVIOUS
    <3>2. Trusts(c)
      BY <1>0, <3>1
    <3>3. Trusts(c)'
      BY <3>2, TrustStays
    <3>4. c = calls'[g]
      BY <1>1, <2>1, <3>1 DEF Moved
    <3>5. QED
      BY <3>3, <3>4
  <2>2. QED
    BY <1>1, <2>1 DEF Moved
<1>2. ASSUME NEW h \in Handlers, Moved(h) /\ Trusts(calls'[h])
      PROVE  Goal
  <2>1. PICK d : d = calls'[h]
    OBVIOUS
  <2>2. Trusts(d)
    BY <1>2, <2>1
  <2>3. Trusts(d)'
    BY <2>2, TrustStays
  <2>4. QED
    BY <1>1, <1>2, <2>1, <2>3
<1>3. ASSUME UNCHANGED calls
      PROVE  Goal
  <2>1. ASSUME NEW g \in Handlers
        PROVE  \E c : c = calls'[g] /\ Trusts(c)'
    <3>1. PICK c : c = calls[g]
      OBVIOUS
    <3>2. Trusts(c)'
      BY <1>0, <3>1, TrustStays
    <3>3. QED
      BY <1>3, <3>1, <3>2
  <2>2. QED
    BY <1>0, <1>3, <2>1
<1>4. ASSUME NEW h \in Handlers, SubmitInsert(h)
      PROVE  Goal
  <2>1. /\ calls[h] \in Calls /\ Trusts(calls[h])
        /\ calls[h].at = "submit.insert"
        /\ calls[h].plan \in Documents /\ calls[h].user \in Users
        /\ requests \in Seq(Requests) /\ Len(requests) \in Nat
    BY <1>0, <1>4, LenProperties
    DEF SubmitInsert, At, Trusts, Sound, Submitting, Inv, TypeOK, ApprovalTypeOK
  <2>2. PICK n \in Nat : n = Len(requests) + 1
    BY <2>1
  <2> DEFINE e == [calls[h] EXCEPT !.at = "submit.write", !.request = n]
  <2>3. e \in Calls
    BY <2>1 DEF Calls, Steps
  <2>4. calls' = [calls EXCEPT ![h] = e]
    BY <1>0, <1>4, <2>2 DEF SubmitInsert
  <2>5. /\ e.at = "submit.write" /\ e.op = calls[h].op
        /\ e.plan = calls[h].plan /\ e.request = n
    BY <2>1 DEF Calls
  <2> HIDE DEF e
  <2>6. Moved(h) /\ calls'[h] = e
    BY <1>0, <2>3, <2>4 DEF Moved
  <2>7. PICK d : d = calls'[h]
    OBVIOUS
  <2>8. /\ d.at = "submit.write" /\ d.op = calls[h].op
        /\ d.plan = calls[h].plan /\ d.request = n /\ d.plan \in Documents
    BY <2>1, <2>5, <2>6, <2>7
  <2>9. Filed(d.plan, n)'
    <3> DEFINE row == [entity |-> calls[h].plan, requester |-> calls[h].user,
                       status |-> "PENDING", decidedBy |-> NoUser]
    <3>1. requests' = Append(requests, row)
      BY <1>4 DEF SubmitInsert, InsertRequest
    <3>2. row.entity = d.plan
      BY <2>8
    <3>3. row \in Requests
      BY <2>1 DEF Requests, RequestStatuses
    <3> HIDE DEF row
    <3>4. /\ Len(requests') = n /\ requests' \in Seq(Requests)
          /\ requests'[n] = row
      BY <2>1, <2>2, <3>1, <3>3, AppendProperties
    <3>5. n \in DOMAIN requests'
      BY <2>1, <2>2, <3>4, LenProperties
    <3>6. QED
      BY <3>2, <3>4, <3>5 DEF Filed
  <2>10. d.op \in Deciding =>
           d.plan \in Documents /\ plans'[d.plan].request # NoRequest
    BY <1>4, <2>1, <2>8 DEF Trusts, Backed, SubmitInsert
  <2>11. Fits(d)
    BY <2>8 DEF Fits, ReserveSteps, Releasing
  <2>12. Sound(d)
    BY <2>8 DEF Sound, Submitting, Awaiting, ReserveSteps
  <2>13. Backed(d)'
    BY <2>8, <2>9, <2>10 DEF Backed
  <2>14. Trusts(d)'
    BY <2>11, <2>12, <2>13 DEF Trusts, Fits, Sound
  <2>15. QED
    BY <1>1, <2>6, <2>7, <2>14
<1>5. ASSUME NEW h \in Handlers,
             \/ Arrive(h) \/ Edit(h) \/ Submit(h) \/ Reserve(h) \/ Release(h)
             \/ Decide(h) \/ Direct(h) \/ Fail(h)
      PROVE  SubmitInsert(h) \/ (Moved(h) /\ Trusts(calls'[h]))
  BY <1>5, ArriveMoves, EditMoves, SubmitMoves, ReserveMoves, ReleaseMoves,
     DecideMoves, DirectMoves, FailMoves
<1>6. ASSUME \/ \E p \in Documents : Create(p)
             \/ \E e \in Envelopes : OpenEnvelope(e)
             \/ UNCHANGED vars
      PROVE  UNCHANGED calls
  BY <1>6 DEF Create, OpenEnvelope, vars
<1>7. Goal
  <2> HIDE DEF Goal
  <2>1. \/ \E p \in Documents : Create(p)
        \/ \E e \in Envelopes : OpenEnvelope(e)
        \/ UNCHANGED vars
        \/ \E h \in Handlers :
             \/ Arrive(h) \/ Edit(h) \/ Submit(h) \/ Reserve(h) \/ Release(h)
             \/ Decide(h) \/ Direct(h) \/ Fail(h)
    BY DEF Next
  <2>2. QED
    BY <2>1, <1>2, <1>3, <1>4, <1>5, <1>6
<1>8. ASSUME NEW g \in Handlers, NEW c, c = calls'[g], Trusts(c)'
      PROVE  Trusts(calls[g])'
  BY <1>8 DEF Trusts, Fits, Sound, Backed, Filed, FindBySource
<1>9. QED
  BY <1>7, <1>8 DEF CallsInv

\* What the statements of the budget write, if anything, is one row of the
\* key its type, plan and envelope make up.
LEMMA RowPosted ==
    ASSUME Inv, [Next]_vars, ~UNCHANGED transactions
    PROVE  \E row \in Transactions :
             /\ transactions' = Append(transactions, row)
             /\ KeyIsFree(row.key)
             /\ row.key = Key(row.type, row.source, row.envelope)
             /\ row.type \in {"COMMIT", "RELEASE"}
             /\ row.type = "RELEASE" =>
                  \E j \in CommitsOf(row.source, row.envelope) :
                      transactions[j].amount = row.amount
<1>1. PICK h \in Handlers : ReserveInsert(h) \/ ReleaseInsert(h)
  BY TransactionSteps
<1>2. CASE ReserveInsert(h)
  <2>1. /\ CommitRow(h).key = CommitKey(h) /\ CommitRow(h).type = "COMMIT"
        /\ CommitKey(h) = Key(CommitRow(h).type, CommitRow(h).source,
                              CommitRow(h).envelope)
    BY DEF CommitRow, CommitKey
  <2>2. QED
    BY <1>2, <2>1, CommitPosted
<1>3. CASE ReleaseInsert(h)
  <2> DEFINE row == ReleaseRow(h)
  <2>1. /\ row.key = ReleaseKey(h) /\ row.type = "RELEASE"
        /\ row.source = calls[h].plan
        /\ row.envelope = CommitInHand(h).envelope
        /\ row.amount = CommitInHand(h).amount
    BY DEF ReleaseRow
  <2> HIDE DEF row
  <2>2. row.key = Key(row.type, row.source, row.envelope)
    BY <2>1 DEF ReleaseKey
  <2>3. /\ row \in Transactions /\ transactions' = Append(transactions, row)
        /\ KeyIsFree(ReleaseKey(h))
        /\ Newest(calls[h].commits) \in FindBySource("COMMIT", row.source)
    BY <1>3, <2>1, ReleasePosted DEF row
  <2>4. Newest(calls[h].commits) \in CommitsOf(row.source, row.envelope)
    BY <2>1, <2>3 DEF CommitsOf, CommitInHand
  <2>5. QED
    BY <2>1, <2>2, <2>3, <2>4 DEF CommitInHand
<1>4. QED
  BY <1>1, <1>2, <1>3

\* An appended row comes after the others, which stay as they are.
LEMMA Appended ==
    ASSUME Inv, NEW row \in Transactions,
           transactions' = Append(transactions, row)
    PROVE  \E n \in Nat \ {0} :
             /\ n = Len(transactions) + 1 /\ n \notin DOMAIN transactions
             /\ DOMAIN transactions = 1..(n - 1)
             /\ DOMAIN transactions' = 1..n
             /\ DOMAIN transactions' = DOMAIN transactions \cup {n}
             /\ transactions'[n] = row
             /\ \A i \in DOMAIN transactions : transactions'[i] = transactions[i]
<1>1. transactions \in Seq(Transactions) /\ Len(transactions) \in Nat
  BY LenProperties DEF Inv, TypeOK, BudgetTypeOK
<1>2. /\ DOMAIN transactions = 1..Len(transactions)
      /\ DOMAIN transactions' = 1..(Len(transactions) + 1)
      /\ transactions'[Len(transactions) + 1] = row
      /\ \A i \in 1..Len(transactions) : transactions'[i] = transactions[i]
  BY <1>1, AppendProperties, LenProperties
<1>3. PICK n \in Nat \ {0} : n = Len(transactions) + 1
  BY <1>1
<1>4. Len(transactions) = n - 1
  BY <1>1, <1>3
<1>5. QED
  BY <1>2, <1>3, <1>4

LEMMA KeysStep ==
    ASSUME Inv, [Next]_vars
    PROVE  KeysInv'
<1>1. KeysInv
  BY DEF Inv
<1>2. CASE UNCHANGED transactions
  BY <1>1, <1>2 DEF KeysInv, Key
<1>3. CASE ~UNCHANGED transactions
  <2>1. PICK row \in Transactions :
          /\ transactions' = Append(transactions, row)
          /\ KeyIsFree(row.key)
          /\ row.key = Key(row.type, row.source, row.envelope)
          /\ row.type \in {"COMMIT", "RELEASE"}
    BY <1>3, RowPosted
  <2>2. PICK n \in Nat \ {0} :
          /\ DOMAIN transactions' = DOMAIN transactions \cup {n}
          /\ transactions'[n] = row
          /\ \A i \in DOMAIN transactions : transactions'[i] = transactions[i]
    BY <2>1, Appended
  <2>3. \A i \in DOMAIN transactions : transactions[i].key # row.key
    BY <2>1 DEF KeyIsFree, FindByIdempotencyKey
  <2>4. ASSUME NEW i \in DOMAIN transactions'
        PROVE  /\ transactions'[i].type \in {"COMMIT", "RELEASE"}
               /\ transactions'[i].key = Key(transactions'[i].type,
                                             transactions'[i].source,
                                             transactions'[i].envelope)
    BY <1>1, <2>1, <2>2 DEF KeysInv
  <2>5. ASSUME NEW i \in DOMAIN transactions', NEW j \in DOMAIN transactions',
               transactions'[i].key = transactions'[j].key
        PROVE  i = j
    BY <1>1, <2>2, <2>3, <2>5 DEF KeysInv
  <2>6. QED
    BY <2>4, <2>5 DEF KeysInv, Key
<1>4. QED
  BY <1>2, <1>3

LEMMA ReleaseBackedStep ==
    ASSUME Inv, [Next]_vars
    PROVE  ReleaseBacked'
<1>1. ReleaseBacked
  BY DEF Inv
<1>2. CASE UNCHANGED transactions
  BY <1>1, <1>2 DEF ReleaseBacked
<1>3. CASE ~UNCHANGED transactions
  <2>1. PICK row \in Transactions :
          /\ transactions' = Append(transactions, row)
          /\ row.type = "RELEASE" =>
               \E j \in CommitsOf(row.source, row.envelope) :
                   transactions[j].amount = row.amount
    BY <1>3, RowPosted
  <2>2. PICK n \in Nat \ {0} :
          /\ DOMAIN transactions = 1..(n - 1)
          /\ DOMAIN transactions' = 1..n
          /\ transactions'[n] = row
          /\ \A i \in DOMAIN transactions : transactions'[i] = transactions[i]
    BY <2>1, Appended
  <2>3. ASSUME NEW i \in DOMAIN transactions', transactions'[i].type = "RELEASE"
        PROVE  \E j \in 1..(i - 1) :
                 /\ transactions'[j].type = "COMMIT"
                 /\ transactions'[j].source = transactions'[i].source
                 /\ transactions'[j].envelope = transactions'[i].envelope
                 /\ transactions'[j].amount = transactions'[i].amount
    <3>1. CASE i \in DOMAIN transactions
      <4>1. PICK j \in 1..(i - 1) :
              /\ transactions[j].type = "COMMIT"
              /\ transactions[j].source = transactions[i].source
              /\ transactions[j].envelope = transactions[i].envelope
              /\ transactions[j].amount = transactions[i].amount
        BY <1>1, <2>2, <2>3, <3>1 DEF ReleaseBacked
      <4>2. j \in DOMAIN transactions
        BY <2>2, <3>1
      <4>3. QED
        BY <2>2, <3>1, <4>1, <4>2
    <3>2. CASE i = n
      <4>1. PICK j \in CommitsOf(row.source, row.envelope) :
              transactions[j].amount = row.amount
        BY <2>1, <2>2, <2>3, <3>2
      <4>2. /\ j \in DOMAIN transactions /\ transactions[j].type = "COMMIT"
            /\ transactions[j].source = row.source
            /\ transactions[j].envelope = row.envelope
        BY DEF CommitsOf, FindBySource
      <4>3. QED
        BY <2>2, <3>2, <4>1, <4>2
    <3>3. QED
      BY <2>2, <3>1, <3>2
  <2>4. QED
    BY <2>3 DEF ReleaseBacked
<1>4. QED
  BY <1>2, <1>3

LEMMA PlansStep ==
    ASSUME Inv, [Next]_vars
    PROVE  PlansInv'
<1>1. ASSUME NEW p \in Documents, NEW r, Filed(p, r)
      PROVE  r \in DOMAIN requests' /\ requests'[r].entity = p
  BY <1>1, RequestsGrow DEF Filed
<1>2. ASSUME NEW r, r \in DOMAIN requests
      PROVE  r # NoRequest
  BY <1>2, LenProperties DEF Inv, TypeOK, ApprovalTypeOK, NoRequest
<1>3. ASSUME NEW p \in Documents
      PROVE  /\ plans'[p].request # NoRequest =>
                  /\ plans'[p].request \in DOMAIN requests'
                  /\ requests'[plans'[p].request].entity = p
             /\ plans'[p].status \notin {"ABSENT", "DRAFT"} =>
                  plans'[p].request # NoRequest
  <2>1. /\ plans[p].request # NoRequest => Filed(p, plans[p].request)
        /\ plans[p].status \notin {"ABSENT", "DRAFT"} =>
             plans[p].request # NoRequest
    BY DEF Inv, PlansInv
  <2>2. CASE Filed(p, plans'[p].request)
    BY <1>1, <1>2, <2>2 DEF Filed
  <2>3. CASE /\ plans'[p].request = plans[p].request
             /\ \/ plans'[p].status = plans[p].status
                \/ plans'[p].status = "DRAFT"
                \/ plans[p].request # NoRequest
    BY <1>1, <2>1, <2>3
  <2>4. QED
    BY <2>2, <2>3, PlanEffects
<1>4. QED
  BY <1>3 DEF PlansInv, Filed, NoRequest

LEMMA TypeStep ==
    ASSUME Inv, [Next]_vars
    PROVE  TypeOK'
<1>1. /\ envelopes \in Seq(Envelopes) /\ ledger \in Seq(LedgerEntries)
      /\ PlanEnvelope \in Envelopes
  BY PlanAssumption DEF Inv, TypeOK, BudgetTypeOK
<1>2. envelopes' \in Seq(Envelopes) /\ ledger' = ledger
  <2>1. ASSUME NEW e \in Envelopes, OpenEnvelope(e)
        PROVE  envelopes' \in Seq(Envelopes)
    BY <1>1, <2>1, AppendProperties DEF OpenEnvelope, CreateEnvelope
  <2>2. ASSUME NEW h \in Handlers, ApproveCreate(h)
        PROVE  envelopes' \in Seq(Envelopes)
    <3>1. <<PlanEnvelope>> \in Seq(Envelopes)
      BY <1>1
    <3>2. QED
      BY <1>1, <2>2, <3>1, ConcatProperties DEF ApproveCreate
  <2>3. QED
    BY <1>1, <2>1, <2>2, EnvelopeChanges
<1>3. BudgetTypeOK'
  BY <1>1, <1>2, TransactionsGrow
  DEF BudgetTypeOK, Transactions, TxTypes, TxKeys, LedgerEntries
<1>4. ApprovalTypeOK'
  BY RequestsGrow DEF ApprovalTypeOK, Requests, RequestStatuses
<1>5. plans' \in [Documents -> Plans] /\ calls' \in [Handlers -> Calls]
  BY PlanEffects, CallsStep
<1>6. QED
  BY <1>3, <1>4, <1>5 DEF TypeOK

LEMMA InvInit ==
    ASSUME Init
    PROVE  Inv
<1>1. DOMAIN transactions = {} /\ DOMAIN requests = {}
  BY DEF Init, BudgetInit, ApprovalInit
<1>2. TypeOK
  <2>1. BudgetTypeOK /\ ApprovalTypeOK
    BY EmptySeq DEF Init, BudgetInit, ApprovalInit, BudgetTypeOK, ApprovalTypeOK
  <2>2. Empty \in Contents
    BY DEF Empty, Contents
  <2>3. plans \in [Documents -> Plans]
    BY <2>2 DEF Init, Plans, PlanStatuses, NoRequest
  <2>4. QED
    BY <2>1, <2>3, IdleCall DEF Init, TypeOK
<1>3. CallsInv
  BY IdleCall DEF Init, CallsInv
<1>4. KeysInv /\ ReleaseBacked
  BY <1>1 DEF KeysInv, ReleaseBacked
<1>5. PlansInv
  BY DEF Init, PlansInv
<1>6. QED
  BY <1>2, <1>3, <1>4, <1>5 DEF Inv

LEMMA InvStep ==
    ASSUME Inv, [Next]_vars
    PROVE  Inv'
BY TypeStep, CallsStep, KeysStep, PlansStep, ReleaseBackedStep DEF Inv

-----------------------------------------------------------------------------
(* Theorems.                                                               *)

\* In every reachable state the inductive invariant holds: a call can rely on
\* what it has read of the tables, whatever other calls do or fail to do.
THEOREM Invariance == Spec => []Inv
<1>1. Init => Inv
  BY InvInit
<1>2. Inv /\ [Next]_vars => Inv'
  BY InvStep
<1>3. QED
  BY <1>1, <1>2, PTL DEF Spec

\* The tables and the calls keep their types.
THEOREM TypeCorrect == Spec => []TypeOK
<1>1. Inv => TypeOK
  BY DEF Inv
<1>2. QED
  BY <1>1, Invariance, PTL

\* Every release gives back to its envelope exactly what the same plan
\* committed to it before.
THEOREM ReleasesBacked == Spec => []ReleaseBacked
<1>1. Inv => ReleaseBacked
  BY DEF Inv
<1>2. QED
  BY <1>1, Invariance, PTL

\* A plan out of DRAFT names a request that was filed for it.
THEOREM RequestsFiled == Spec => []RequestOnFile
<1>1. Inv => RequestOnFile
  BY DEF Inv, PlansInv, RequestOnFile, Filed
<1>2. QED
  BY <1>1, Invariance, PTL

-----------------------------------------------------------------------------
(* For each envelope the rows of a plan implement Reservation.             *)

\* A plan has at most one row of either type for an envelope, and a RELEASE
\* only beside a COMMIT.
LEMMA OneRowEach ==
    ASSUME Inv, NEW p, NEW e
    PROVE  /\ CommitsOf(p, e) = {} \/ \E i : CommitsOf(p, e) = {i}
           /\ ReleasesOf(p, e) = {} \/ \E i : ReleasesOf(p, e) = {i}
           /\ CommitsOf(p, e) = {} => ReleasesOf(p, e) = {}
<1>1. KeysInv /\ ReleaseBacked
  BY DEF Inv
<1>2. ASSUME NEW type,
             NEW i \in DOMAIN transactions, NEW j \in DOMAIN transactions,
             /\ transactions[i].type = type /\ transactions[j].type = type
             /\ transactions[i].source = p /\ transactions[j].source = p
             /\ transactions[i].envelope = e /\ transactions[j].envelope = e
      PROVE  i = j
  BY <1>1, <1>2 DEF KeysInv
<1>3. \A i, j \in CommitsOf(p, e) : i = j
  BY <1>2 DEF CommitsOf, FindBySource
<1>4. \A i, j \in ReleasesOf(p, e) : i = j
  BY <1>2 DEF ReleasesOf, FindBySource
<1>5. ASSUME NEW i \in ReleasesOf(p, e)
      PROVE  CommitsOf(p, e) # {}
  <2>1. /\ i \in DOMAIN transactions /\ transactions[i].type = "RELEASE"
        /\ transactions[i].source = p /\ transactions[i].envelope = e
    BY DEF ReleasesOf, FindBySource
  <2>2. PICK j \in 1..(i - 1) :
          /\ transactions[j].type = "COMMIT"
          /\ transactions[j].source = p /\ transactions[j].envelope = e
    BY <1>1, <2>1 DEF ReleaseBacked
  <2>3. j \in DOMAIN transactions
    BY <2>1, <2>2, LenProperties DEF Inv, TypeOK, BudgetTypeOK
  <2>4. QED
    BY <2>2, <2>3 DEF CommitsOf, FindBySource
<1>6. QED
  BY <1>3, <1>4, <1>5

\* What Phase says of a pair, by its rows.
LEMMA PhaseOf ==
    ASSUME NEW C, NEW R
    PROVE  LET rows == <<Cardinality(C), Cardinality(R)>>
               phase == CASE rows = <<0, 0>> -> "none"
                          [] rows = <<1, 0>> -> "held"
                          [] rows = <<1, 1>> -> "freed"
                          [] OTHER -> "broken"
           IN  /\ C = {} /\ R = {} => phase = "none"
               /\ (\E i : C = {i}) /\ R = {} => phase = "held"
               /\ (\E i : C = {i}) /\ (\E i : R = {i}) => phase = "freed"
<1>1. ASSUME NEW S, S = {}
      PROVE  Cardinality(S) = 0
  BY <1>1, FS_EmptySet
<1>2. ASSUME NEW S, \E i : S = {i}
      PROVE  Cardinality(S) = 1
  BY <1>2, FS_Singleton
<1>3. CASE C = {} /\ R = {}
  <2>1. Cardinality(C) = 0 /\ Cardinality(R) = 0
    BY <1>1, <1>3
  <2>2. QED
    BY <1>3, <2>1
<1>4. CASE (\E i : C = {i}) /\ R = {}
  <2>1. Cardinality(C) = 1 /\ Cardinality(R) = 0 /\ C # {}
    BY <1>1, <1>2, <1>4
  <2>2. QED
    BY <1>4, <2>1
<1>5. CASE (\E i : C = {i}) /\ (\E i : R = {i})
  <2>1. Cardinality(C) = 1 /\ Cardinality(R) = 1 /\ C # {} /\ R # {}
    BY <1>2, <1>5
  <2>2. QED
    BY <1>5, <2>1
<1>6. QED
  BY <1>3, <1>4, <1>5

\* A posted row is one more row of its own type, plan and envelope.
LEMMA RowsAfterPost ==
    ASSUME Inv, NEW row \in Transactions,
           transactions' = Append(transactions, row)
    PROVE  \E n : \A q, f :
             /\ CommitsOf(q, f)' = CommitsOf(q, f) \cup
                  (IF row.type = "COMMIT" /\ row.source = q /\ row.envelope = f
                     THEN {n} ELSE {})
             /\ ReleasesOf(q, f)' = ReleasesOf(q, f) \cup
                  (IF row.type = "RELEASE" /\ row.source = q /\ row.envelope = f
                     THEN {n} ELSE {})
<1>1. PICK n \in Nat \ {0} :
          /\ n \notin DOMAIN transactions
          /\ DOMAIN transactions' = DOMAIN transactions \cup {n}
          /\ transactions'[n] = row
          /\ \A i \in DOMAIN transactions : transactions'[i] = transactions[i]
  BY Appended
<1>2. ASSUME NEW q, NEW f
      PROVE  CommitsOf(q, f)' = CommitsOf(q, f) \cup
               (IF row.type = "COMMIT" /\ row.source = q /\ row.envelope = f
                  THEN {n} ELSE {})
  BY <1>1 DEF CommitsOf, FindBySource
<1>3. ASSUME NEW q, NEW f
      PROVE  ReleasesOf(q, f)' = ReleasesOf(q, f) \cup
               (IF row.type = "RELEASE" /\ row.source = q /\ row.envelope = f
                  THEN {n} ELSE {})
  BY <1>1 DEF ReleasesOf, FindBySource
<1>4. QED
  BY <1>2, <1>3

\* Every step of the table is a step of Reservation for one pair, or none.
LEMMA PromiseStep ==
    ASSUME Inv, [Next]_vars
    PROVE  [Promise!Next]_<<Phase, HeldFrom>>
<1>1. CASE UNCHANGED transactions
  BY <1>1 DEF Phase, HeldFrom, CommitsOf, ReleasesOf, FindBySource
<1>2. CASE ~UNCHANGED transactions
  <2>1. PICK row \in Transactions :
          /\ transactions' = Append(transactions, row)
          /\ KeyIsFree(row.key)
          /\ row.key = Key(row.type, row.source, row.envelope)
          /\ row.type \in {"COMMIT", "RELEASE"}
          /\ row.type = "RELEASE" => CommitsOf(row.source, row.envelope) # {}
    BY <1>2, RowPosted
  <2>2. PICK p, e : p = row.source /\ e = row.envelope
    OBVIOUS
  <2>3. p \in Documents /\ e \in Envelopes /\ <<p, e>> \in Pairs
    BY <2>2 DEF Transactions, Pairs
  <2>4. \A i \in DOMAIN transactions :
          ~(/\ transactions[i].type = row.type
            /\ transactions[i].source = p /\ transactions[i].envelope = e)
    BY <2>1, <2>2 DEF KeyIsFree, FindByIdempotencyKey, Inv, KeysInv
  <2>5. PICK n : \A q, f :
          /\ CommitsOf(q, f)' = CommitsOf(q, f) \cup
               (IF row.type = "COMMIT" /\ p = q /\ e = f THEN {n} ELSE {})
          /\ ReleasesOf(q, f)' = ReleasesOf(q, f) \cup
               (IF row.type = "RELEASE" /\ p = q /\ e = f THEN {n} ELSE {})
    <3>1. PICK n : \A q, f :
            /\ CommitsOf(q, f)' = CommitsOf(q, f) \cup
                 (IF row.type = "COMMIT" /\ row.source = q /\ row.envelope = f
                    THEN {n} ELSE {})
            /\ ReleasesOf(q, f)' = ReleasesOf(q, f) \cup
                 (IF row.type = "RELEASE" /\ row.source = q /\ row.envelope = f
                    THEN {n} ELSE {})
      BY <2>1, RowsAfterPost
    <3>2. QED
      BY <2>2, <3>1
  <2>6. ASSUME NEW pair \in Pairs, pair # <<p, e>>
        PROVE  /\ CommitsOf(pair[1], pair[2])' = CommitsOf(pair[1], pair[2])
               /\ ReleasesOf(pair[1], pair[2])' = ReleasesOf(pair[1], pair[2])
    <3>1. ~(p = pair[1] /\ e = pair[2])
      BY <2>6 DEF Pairs
    <3>2. QED
      BY <2>5, <3>1
  <2>7. ASSUME NEW pair \in Pairs, pair # <<p, e>>
        PROVE  Phase'[pair] = Phase[pair] /\ HeldFrom'[pair] = HeldFrom[pair]
    BY <2>6, <2>7 DEF Phase, HeldFrom
  <2>8. <<p, e>>[1] = p /\ <<p, e>>[2] = e
    OBVIOUS
  <2>9. /\ Phase = [pair \in Pairs |-> Phase[pair]]
         /\ Phase' = [pair \in Pairs |-> Phase'[pair]]
         /\ HeldFrom = [pair \in Pairs |-> HeldFrom[pair]]
         /\ HeldFrom' = [pair \in Pairs |-> HeldFrom'[pair]]
    BY DEF Phase, HeldFrom, Pairs
  <2>10. CASE row.type = "COMMIT"
    <3>1. CommitsOf(p, e) = {}
      BY <2>4, <2>10 DEF CommitsOf, FindBySource
    <3>2. ReleasesOf(p, e) = {}
      BY <3>1, OneRowEach
    <3>3. CommitsOf(p, e)' = {n} /\ ReleasesOf(p, e)' = {}
      BY <2>5, <2>10, <3>1, <3>2
    <3>4. Phase[<<p, e>>] = "none" /\ Phase'[<<p, e>>] = "held"
      BY <2>3, <2>8, <3>1, <3>2, <3>3, PhaseOf DEF Phase
    <3>5. HeldFrom'[<<p, e>>] = e
      BY <2>3, <2>8, <3>3 DEF HeldFrom
    <3>6. /\ Phase' = [Phase EXCEPT ![<<p, e>>] = "held"]
          /\ HeldFrom' = [HeldFrom EXCEPT ![<<p, e>>] = e]
      BY <2>7, <2>9, <3>4, <3>5
    <3>7. Promise!Reserve(<<p, e>>, e)
      BY <3>4, <3>6 DEF Promise!Reserve
    <3>8. QED
      BY <2>3, <3>7 DEF Promise!Next
  <2>11. CASE row.type = "RELEASE"
    <3>1. ReleasesOf(p, e) = {}
      BY <2>4, <2>11 DEF ReleasesOf, FindBySource
    <3>2. PICK i : CommitsOf(p, e) = {i}
      BY <2>1, <2>2, <2>11, OneRowEach
    <3>3. CommitsOf(p, e)' = {i} /\ ReleasesOf(p, e)' = {n}
      BY <2>5, <2>11, <3>1, <3>2
    <3>4. Phase[<<p, e>>] = "held" /\ Phase'[<<p, e>>] = "freed"
      <4>1. Phase[<<p, e>>] = "held"
        BY <2>3, <2>8, <3>1, <3>2, PhaseOf DEF Phase
      <4>2. Phase'[<<p, e>>] = "freed"
        <5>1. PICK C, R : C = CommitsOf(p, e)' /\ R = ReleasesOf(p, e)'
          OBVIOUS
        <5>2. (\E k : C = {k}) /\ (\E k : R = {k})
          BY <3>3, <5>1
        <5>3. Phase'[<<p, e>>] =
                LET rows == <<Cardinality(C), Cardinality(R)>>
                IN  CASE rows = <<0, 0>> -> "none"
                      [] rows = <<1, 0>> -> "held"
                      [] rows = <<1, 1>> -> "freed"
                      [] OTHER -> "broken"
          BY <2>3, <2>8, <5>1 DEF Phase
        <5>4. QED
          BY <5>2, <5>3, PhaseOf
      <4>3. QED
        BY <4>1, <4>2
    <3>5. HeldFrom'[<<p, e>>] = HeldFrom[<<p, e>>]
      BY <2>3, <2>8, <3>2, <3>3 DEF HeldFrom
    <3>6. /\ Phase' = [Phase EXCEPT ![<<p, e>>] = "freed"]
          /\ HeldFrom' = HeldFrom
      BY <2>7, <2>9, <3>4, <3>5
    <3>7. Promise!Release(<<p, e>>)
      BY <3>4, <3>6 DEF Promise!Release
    <3>8. QED
      BY <2>3, <3>7 DEF Promise!Next
  <2>12. QED
    BY <2>1, <2>10, <2>11
<1>3. QED
  BY <1>1, <1>2

\* Of each envelope, a plan commits budget at most once and gives it back at
\* most once, afterwards, however its calls race and wherever they die.
THEOREM Refinement == Spec => ImplementsReservation
<1>1. Init => Promise!Init
  <2>1. SUFFICES ASSUME Init PROVE Promise!Init
    OBVIOUS
  <2>2. DOMAIN transactions = {}
    BY <2>1 DEF Init, BudgetInit
  <2>3. \A p, e : CommitsOf(p, e) = {} /\ ReleasesOf(p, e) = {}
    BY <2>2 DEF CommitsOf, ReleasesOf, FindBySource
  <2>4. QED
    BY <2>3, PhaseOf DEF Promise!Init, Phase, HeldFrom
<1>2. Inv /\ [Next]_vars => [Promise!Next]_<<Phase, HeldFrom>>
  BY PromiseStep
<1>3. QED
  BY <1>1, <1>2, Invariance, PTL DEF Spec, Promise!Spec, ImplementsReservation

=============================================================================
