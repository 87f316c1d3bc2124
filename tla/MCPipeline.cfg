SPECIFICATION Spec
CONSTANTS
  a = a
  b = b
  n = n
  Keys = {a, b, n}
  Runners = {"r1"}
  At <- MCAt
  RunnerRetryCount <- MCRunnerRetryCount
  RunnerRetryAt <- MCRunnerRetryAt
  RetryCount <- MCRetryCount
  MaxId = 2
  MaxRounds = 1
  MaxCopies = 1
  MaxFaults = 1
INVARIANTS
  TypeOK
  LostOnlyByIdReuse
PROPERTIES
  StoreImplemented
CONSTRAINT RefusedFirst
CHECK_DEADLOCK FALSE
