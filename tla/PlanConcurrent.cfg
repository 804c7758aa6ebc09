SPECIFICATION Spec
CONSTANTS
    Documents = {p1}
    Users = {u1, u2}
    NoUser = NoUser
    Envelopes = {e1, e2}
    NoEnvelope = NoEnvelope
    Allocated <- SmallAllocation
    Handlers = {h1, h2}
    Edits <- OneEdit
    NoDocument = NoDocument
    PlanEnvelope = e1
    Operations <- WorkflowOperations
    MaxRequests = 1
    CallsFail = FALSE
SYMMETRY Symmetry
INVARIANTS
    TypeOK
    ReleaseBacked
    RequestOnFile
PROPERTIES
    ImplementsReservation
CHECK_DEADLOCK FALSE
