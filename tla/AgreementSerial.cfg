SPECIFICATION Spec
CONSTANTS
    Documents = {a1, a2}
    Users = {u1, u2}
    NoUser = NoUser
    Envelopes = {e1, e2}
    NoEnvelope = NoEnvelope
    Allocated <- SmallAllocation
    Handlers = {h1, h2}
    Caps <- SmallCaps
    NoDocument = NoDocument
    Operations <- WorkflowOperations
    MaxRequests = 3
    CallsFail = TRUE
SYMMETRY Symmetry
INVARIANTS
    NoOvercommitment
    ReleaseEqualsReserve
    StatusMatchesRequest
    ApprovedRequestIsReserved
PROPERTIES
    LifecycleMoves
CONSTRAINTS
    Apart
    TestsApart
CHECK_DEADLOCK FALSE
