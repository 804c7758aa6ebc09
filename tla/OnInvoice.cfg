SPECIFICATION FairSpec
CONSTANTS
    Handlers = {h1, h2}
    BatchIds = {b1, b2}
    NoBatch = NoBatch
    RowKeys = {r1, r2}
    Mortal = {h2}
INVARIANTS
    OnInvoiceTypeOK
    OneEntryPerRow
    ValidatedIsWhole
    CompletedIsSettled
PROPERTIES
    BatchSettles
CHECK_DEADLOCK FALSE
