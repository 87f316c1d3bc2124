SPECIFICATION FairSpec
CONSTANTS
  Components = {"injector", "controller"}
  Roles <- MCRoles
  N = 3
INVARIANTS
  TypeOK
  DaemonTellsTheTruth
  NoServerStarves
PROPERTIES
  SentToLive
  LinkImplemented
CHECK_DEADLOCK FALSE
