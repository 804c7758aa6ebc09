--------------------------- MODULE ApprovalService ---------------------------
(***************************************************************************)
(* The table approval_requests and the statements ApprovalService runs on  *)
(* it.  Each decision is a read with its guards and, after an await, an    *)
(* UPDATE by id that checks nothing: the two are separate operators and    *)
(* separate steps of the calls that use them.  Requests are numbered in    *)
(* order of creation; the only callers create them with one level.         *)
(***************************************************************************)
EXTENDS Integers, Sequences, Documents

VARIABLE requests       \* rows of approval_requests, oldest first

RequestStatuses == {"PENDING", "APPROVED", "REJECTED", "CANCELLED"}

Requests == [entity : Documents, requester : Users, status : RequestStatuses,
             decidedBy : Users \cup {NoUser}]

ApprovalTypeOK == requests \in Seq(Requests)

ApprovalInit == requests = <<>>

NoRequest == 0          \* a null approvalRequestId

\* findByEntityId: the newest request of the entity is PENDING.
HasPendingRequest(entity) ==
    \E i \in DOMAIN requests :
        /\ requests[i].entity = entity
        /\ requests[i].status = "PENDING"
        /\ \A j \in DOMAIN requests : requests[j].entity = entity => j <= i

\* createRequest after its check: one PENDING level, currentLevel 1.
InsertRequest(entity, user) ==
    requests' = Append(requests, [entity |-> entity, requester |-> user,
                                  status |-> "PENDING", decidedBy |-> NoUser])

\* Mutant: EA-001 is forgotten.
MayDecideOwn(r, user) == requests[r].status = "PENDING" /\ user \in Users

\* Guards of approve() and reject(): PENDING, and not the requester's own.
MayDecide(r, user) == /\ requests[r].status = "PENDING"
                      /\ requests[r].requester # user

\* Guards of cancel(): PENDING, and the requester's own.
MayWithdraw(r, user) == /\ requests[r].status = "PENDING"
                        /\ requests[r].requester = user

\* updateStatus(): an UPDATE by id, whatever the row holds by now.
WriteDecision(r, status, user) ==
    requests' = [requests EXCEPT ![r].status = status, ![r].decidedBy = user]

=============================================================================
