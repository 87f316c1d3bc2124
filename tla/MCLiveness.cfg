SPECIFICATION FairSpec
CONSTANTS
  a = a
  Keys = {a}
  Runners = {"r1", "r2"}
  At <- MCAt
  RunnerRetryCount <- MCRunnerRetryCount
  RunnerRetryAt <- MCRunnerRetryAt
  RetryCount <- MCRetryCount
  MaxId = 1
  MaxRounds = 2
  MaxCopies = 1
  MaxFaults = 1
PROPERTIES
  Settles
CHECK_DEADLOCK FALSE
