CONSTANTS
  t1 = t1
  t2 = t2
  v1 = v1
  v2 = v2
  Threads <- MCThreads
  NoThread = NoThread
  MaxActive = 2
  FirstAddress = 0
  FinalAddress = 2
  DataSize = 1
  BackupSize = 1
  Values <- MCValues
  Accesses <- ElementAccesses
SPECIFICATION Spec
INVARIANTS
  TypeOK
  RetiredOwesNothing
  ReadFaultsReversible
  StoredDataSurvives
PROPERTY EveryCallReturns
