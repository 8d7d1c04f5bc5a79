SPECIFICATION Spec
CONSTANTS
  Goal = {goal, toml}
  Custom = {toml}
  Nodes = 2
  Folder <- RootFolder
  Pdfs = 2
  Files = 1
  Scatter = {s1, s2}
  Batches = 1
  Requester = {q1, q2}
  Run = {r1, r2}
  NoCkpt = NoCkpt
  NoDoc = NoDoc
  Faults = {"crash", "raise", "save", "delete", "commit"}
  MaxRequests = 2
  MaxCrashes = 1
CHECK_DEADLOCK FALSE
INVARIANTS
  TypeOK
  DocExact
  
  
  PageOwned
SYMMETRY Symmetric
