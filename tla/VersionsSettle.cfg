SPECIFICATION Spec
CONSTANTS
  Version = {c1, c2}
  NoVersion = NoVersion
  Task = {t1}
  Request = {q1, q2}
  Run = {r1}
  Archive = {"good", "threat"}
  Faults = {"crash", "raise", "spawn", "balance"}
  Handlers = 2
  MaxDebits = 2
  MaxRepeats = 0
CHECK_DEADLOCK FALSE
INVARIANTS
  DebitedOnce
PROPERTIES
  Settles
