SPECIFICATION PostingSpec
CONSTANTS
    Documents = {a1}
    Users = {u1, u2}
    NoUser = NoUser
    Envelopes = {e1}
    NoEnvelope = NoEnvelope
    Allocated <- Allocation
    Handlers = {h1}
    Caps <- CapOfFour
    NoDocument = NoDocument
    Operations <- InvoicedOperations
    MaxRequests = 1
    CallsFail = TRUE
    Posters = {p1, p2}
    InvoiceNumbers = {i1, i2}
    InvoiceAmounts <- AmountOfThree
    RowsAsked <- RowsOfTwoKinds
    Periods <- PeriodsGiven
    NoPeriod = NoPeriod
    MaxRows = 2
SYMMETRY PostingSymmetry
INVARIANTS
    PostingTypeOK
    CapKept
    InvoicedIsReserved
PROPERTIES
    ImplementsPosting
CHECK_DEADLOCK FALSE
