SPECIFICATION Spec
CONSTANTS
  Goal = {goal}
  Custom = {}
  Nodes = 2
  Folder <- RootFolder
  Pdfs = 2
  Files = 1
  Scatter = {}
  Batches = 1
  Requester = {q1}
  Run = {r1}
  NoCkpt = NoCkpt
  NoDoc = NoDoc
  Faults = {"crash"}
  MaxRequests = 1
  MaxCrashes = 1
CHECK_DEADLOCK FALSE
INVARIANTS
  DocAlwaysExact
