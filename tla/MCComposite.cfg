SPECIFICATION FairSpec
CONSTANTS
  a = a
  b = b
  Tasks = {a, b}
  Runners = {"r1"}
  N = 2
  Twice = {1}
  Count <- MCCount
  MaxWrites = 1
  MaxFaults = 2
INVARIANTS
  TypeOK
  KeptUntilRun
  SavedOnce
  StrandedOnLastPass
PROPERTIES
  StoreImplemented
  SavesEnd
CHECK_DEADLOCK FALSE
