SPECIFICATION PromptSpec
CONSTANTS
  a = a
  r1 = r1
  r2 = r2
  Keys = {a}
  Runners = {r1, r2}
  At <- MCAt
  RunnerRetryCount <- MCRunnerRetryCount
  RunnerRetryAt <- MCRunnerRetryAt
  RetryCount <- MCRetryCount
  MaxId = 1
  MaxRounds = 1
  MaxCopies = 1
  MaxFaults = 0
INVARIANTS
  PassedAtMostRetryCount
