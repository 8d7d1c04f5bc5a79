SPECIFICATION FairSpec
CONSTANTS
  User = {u1, u2}
  Org = {o1}
  Handler = {h1}
  MaxActive = 2
  Recreate = TRUE
  MaxChanges = 2
  MaxRedeliveries = 0
  MaxFaults = 0
PROPERTIES
  ConvergesIfDeletable
  OlderOnlyByLostUpdate
CHECK_DEADLOCK FALSE
