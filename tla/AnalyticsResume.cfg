SPECIFICATION Spec
CONSTANTS
  Commit <- ThreeCommits
  Branch <- TwoBranches
  Touching <- TouchingOdd
  Initial <- Diverged
  BatchSize = 2
  DeleteBatch = 10
  Worker = {w1}
  NoCkpt = NoCkpt
  Faults = {"crash", "save", "commit", "push"}
  MaxRuns = 3
  MaxChanges = 1
CHECK_DEADLOCK FALSE
INVARIANTS
  TypeOK
  PublishedComplete
  CheckpointSound
