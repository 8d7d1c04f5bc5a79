SPECIFICATION Spec
CONSTANTS
  Commit <- ThreeCommits
  Branch <- TwoBranches
  Touching <- TouchingOdd
  Initial <- Diverged
  BatchSize = 2
  DeleteBatch = 1
  Worker = {w1}
  NoCkpt = NoCkpt
  Faults = {"crash", "crash_cleaned", "save", "discard", "clean", "forget", "download", "push", "branch", "rewrite"}
  MaxRuns = 4
  MaxChanges = 1
CHECK_DEADLOCK FALSE
INVARIANTS
  ExactAfterTwoCalmRuns
