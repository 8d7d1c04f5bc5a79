SPECIFICATION Spec
CONSTANTS
  Codebase <- TwoCodebases
  Worker = {w1, w2, w3}
  Faults = {"read", "write", "crash"}
  MaxRuns = 2
CHECK_DEADLOCK FALSE
INVARIANTS
  TypeOK
  ListExact
  SummaryExact
  EntryHasFiles
  
