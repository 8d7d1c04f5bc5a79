SPECIFICATION FairSpec
CONSTANTS
  fileA = fileA
  fileB = fileB
  folder = folder
  top = top
  Task <- MCTask
  Listed <- MCListed
  Deps <- MCDeps
  Units <- MCUnits
  Stop = Stop
  MaxAttempts = 2
INVARIANTS
  TypeOK
  InputsPresent
  HandedOverOnce
  ReturnedComplete
  ProgressExact
  NeverStuck
PROPERTIES
  ImplementsTaskGraph
  RunEnds
CHECK_DEADLOCK FALSE
