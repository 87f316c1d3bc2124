SPECIFICATION FairSpec
CONSTANTS
  Tasks = {"a", "b"}
  Once = {"b"}
  Polls = {"p"}
  Limit = 1
  MaxFaults = 1
INVARIANTS
  TypeOK
  AcknowledgedIsOnBoth
PROPERTIES
  StoreImplemented
  GoneStaysGone
  SavesEnd
CHECK_DEADLOCK FALSE
