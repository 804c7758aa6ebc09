SPECIFICATION Spec
CONSTANTS
    Documents = {a1}
    Users = {u1, u2}
    NoUser = NoUser
    Envelopes = {e1}
    NoEnvelope = NoEnvelope
    Allocated <- MixedAllocation
    Handlers = {h1}
    Caps <- MixedCaps
    NoDocument = NoDocument
    Operations <- ApprovalOperations
    MaxRequests = 2
    CallsFail = FALSE
INVARIANTS
    NoOvercommitment
CHECK_DEADLOCK FALSE
