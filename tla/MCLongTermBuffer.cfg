CONSTANTS
  v1 = v1
  v2 = v2
  Garbage = Garbage
  FirstAddress = 0
  FinalAddress = 4
  DataSize = 2
  BackupSize = 1
  Values <- MCValues
  Accesses <- WordAccesses
  Gathers <- WordGathers
SPECIFICATION Spec
INVARIANTS
  TypeOK
  RetiredRecordsAreNone
  StoredDataSurvives
  ReadFaultsReversible
PROPERTY ImplementsExactContract
