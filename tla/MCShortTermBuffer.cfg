CONSTANTS
  v1 = v1
  v2 = v2
  FirstAddress = 0
  FinalAddress = 3
  DataSize = 1
  BackupSize = 1
  Values <- MCValues
  Accesses <- ElementAccesses
  Gathers <- ElementGathers
SPECIFICATION Spec
INVARIANTS
  TypeOK
  KeysDisjoint
  RetiredOwesNothing
  StoredDataSurvives
  ReadFaultsReversible
  WriteInjectedOnce
PROPERTIES
  PreciseReadIsClean
  ImplementsEagerContract
