SPECIFICATION Spec
CONSTANTS
  Runners = {r1, r2}
  Baseline <- FirstBuild
  Late = {"UpdateBudgetAllocationStructure"}
  Populated = {"agreements", "lta_agreements", "budget_allocations"}
  MaxBehind = 3
  MaxRepeats = 1
INVARIANTS
  SchemaTypeOK
  EntitiesServed
  RunNeverRefused
  RecordedOnce
PROPERTIES
  RevertThenRun
SYMMETRY Symmetry
CHECK_DEADLOCK FALSE
