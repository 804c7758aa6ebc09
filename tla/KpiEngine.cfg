SPECIFICATION Spec
CONSTANTS
    Kpis = {k1}
    Levels <- TwoLevels
    LevelOf <- SkuLevel
    Texts = {x, y}
    Types = {expression, conditional}
    NoType = NoType
    Callers = {c1, c2}
    Ttl = 1
    MaxQuery = 1
    MaxTimers = 2
SYMMETRY KpiSymmetry
INVARIANTS
    KpiTypeOK
PROPERTIES
    SettledIsCurrent
    SettledFormula
CHECK_DEADLOCK FALSE
