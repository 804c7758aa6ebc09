SPECIFICATION Spec
CONSTANTS
    Documents = {p1}
    Users = {u1, u2}
    NoUser = NoUser
    Envelopes = {e1}
    NoEnvelope = NoEnvelope
    Allocated <- SmallAllocation
    Handlers = {h1}
    Edits <- OneEdit
    NoDocument = NoDocument
    PlanEnvelope = e1
    Operations <- ReviewOperations
    MaxRequests = 1
    CallsFail = FALSE
INVARIANTS
    ApprovedIsCommitted
CHECK_DEADLOCK FALSE
