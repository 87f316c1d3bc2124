SPECIFICATION FairSpec
CONSTANTS
  Tasks = {"a", "b"}
  Once = {"a"}
  Polls = {"p"}
  Limit = 1
  MaxFaults = 0
PROPERTIES
  AcknowledgedIsPassedOn
CHECK_DEADLOCK FALSE
