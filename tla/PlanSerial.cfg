SPECIFICATION Spec
CONSTANTS
    Documents = {p1}
    Users = {u1, u2}
    NoUser = NoUser
    Envelopes = {e1, e2}
    NoEnvelope = NoEnvelope
    Allocated <- SmallAllocation
    Handlers = {h1}
    Edits <- TwoEdits
    NoDocument = NoDocument
    PlanEnvelope = e1
    Operations <- AllOperations
    MaxRequests = 2
    CallsFail = TRUE
SYMMETRY Symmetry
INVARIANTS
    StatusMatchesRequest
    OnePendingRequest
    OneCommitment
PROPERTIES
    LifecycleMoves
    ReviewGivesBack
CHECK_DEADLOCK FALSE
