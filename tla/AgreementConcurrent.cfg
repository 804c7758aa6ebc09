SPECIFICATION Spec
CONSTANTS
    Documents = {a1}
    Users = {u1, u2}
    NoUser = NoUser
    Envelopes = {e1, e2}
    NoEnvelope = NoEnvelope
    Allocated <- SmallAllocation
    Handlers = {h1, h2}
    Caps <- OneCap
    NoDocument = NoDocument
    Operations <- AllOperations
    MaxRequests = 2
    CallsFail = TRUE
SYMMETRY Symmetry
INVARIANTS
    TypeOK
    OneReservation
    ReleaseBacked
    ApprovedIsReserved
    CancelledIsReleased
    NoSelfDecision
    RequestOnFile
    Inv
CHECK_DEADLOCK FALSE
PROPERTIES
    ImplementsReservation
