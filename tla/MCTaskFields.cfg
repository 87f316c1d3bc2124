SPECIFICATION Spec
CONSTANTS
  NaN = NaN
  Absent = Absent
  Bytes = {"f", "g"}
  Tasks <- MCTasks
  MaxPasses = 3
  MaxRounds = 4
INVARIANTS
  TypeOK
  ComesBack
  PassedAsTold
  TriedAsTold
  CalledAsNamed
  StoredHasName
  DocumentedIsStored
CHECK_DEADLOCK FALSE
