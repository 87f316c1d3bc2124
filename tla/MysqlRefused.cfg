SPECIFICATION Spec
CONSTANTS
  Tasks = {"a", "b"}
  Once = {}
  Polls = {"p"}
  Limit = 2
  MaxFaults = 0
INVARIANTS
  RefusedIsNotPassedOn
