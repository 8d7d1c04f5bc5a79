SPECIFICATION Spec
CONSTANTS
  User = {u1, u2}
  Org = {o1}
  Handler = {h1}
  MaxActive = 1
  Recreate = FALSE
  MaxChanges = 3
  MaxRedeliveries = 1
  MaxFaults = 1
SYMMETRY Interchangeable
INVARIANTS
  TypeOK
  

  
CHECK_DEADLOCK FALSE
