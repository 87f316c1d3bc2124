SPECIFICATION FairSpec
CONSTANTS
  Junk = Junk
  NaN = NaN
  Argvs <- MCArgvs
  HostPort <- MCHostPort
  ConfPaths <- MCConfPaths
  Disks <- MCDisks
  FuncName <- MCFuncName
  Controllers = {"retry", "mine"}
  Adapters = {"sqlite", "mysql", "composite"}
INVARIANTS
  TypeOK
  Usable
  ModesAsTold
  SettingsAsTold
  DatabasesAsTold
PROPERTIES
  AlwaysAdvances
  Ends
CHECK_DEADLOCK FALSE
