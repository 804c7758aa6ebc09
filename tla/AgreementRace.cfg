SPECIFICATION Spec
CONSTANTS
    Documents = {a1, a2}
    Users = {u1, u2}
    NoUser = NoUser
    Envelopes = {e1}
    NoEnvelope = NoEnvelope
    Allocated <- SmallAllocation
    Handlers = {h1, h2}
    Caps <- OneCap
    NoDocument = NoDocument
    Operations <- ApprovalOperations
    MaxRequests = 2
    CallsFail = FALSE
INVARIANTS
    NoOvercommitment
CHECK_DEADLOCK FALSE
