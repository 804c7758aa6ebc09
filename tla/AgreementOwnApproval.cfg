SPECIFICATION Spec
CONSTANTS
    Documents = {a1}
    Users = {u1, u2}
    NoUser = NoUser
    Envelopes = {e1}
    NoEnvelope = NoEnvelope
    Allocated <- SmallAllocation
    Handlers = {h1}
    Caps <- OneCap
    NoDocument = NoDocument
    Operations <- ApprovalOperations
    MaxRequests = 2
    CallsFail = FALSE
INVARIANTS
    RejectedHoldsNothing
CHECK_DEADLOCK FALSE
