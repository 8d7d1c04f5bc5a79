SPECIFICATION Spec
CONSTANTS
  Container = {"a", "b"}
  Thread <- ThreeThreads
  Home <- TwoAndOne
  Lock = {k1, k2, k3, k4}
  NoLock = NoLock
  Faults = {"upload", "expire", "restart"}
  MaxPuts = 2
  MaxOps = 3
CHECK_DEADLOCK FALSE
INVARIANTS
  TypeOK
  OneDownload
  ReadsOwnPut
PROPERTIES
  GetEnds
