SPECIFICATION Spec
CONSTANTS
  Version = {c1, c2}
  NoVersion = NoVersion
  Task = {t1, t2}
  Request = {q1}
  Run = {r1, r2}
  Archive = {"good", "threat", "empty"}
  Faults = {"crash", "lost", "raise", "spawn", "balance", "remove", "repeat"}
  Handlers = 2
  MaxDebits = 2
  MaxRepeats = 1
CHECK_DEADLOCK FALSE
INVARIANTS
  TypeOK
  CompleteSound
  BaseSound
  PaidFirst
  Owned
PROPERTIES
  ImplementsVersionStatus
