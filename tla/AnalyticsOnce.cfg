SPECIFICATION Spec
CONSTANTS
  Commit <- ThreeCommits
  Branch <- OneBranch
  Touching <- ThreeCommits
  Initial <- AllOnOne
  BatchSize = 2
  DeleteBatch = 10
  Worker = {w1}
  NoCkpt = NoCkpt
  Faults = {"crash", "save"}
  MaxRuns = 4
  MaxChanges = 0
CHECK_DEADLOCK FALSE
INVARIANTS
  PublishedOnce
