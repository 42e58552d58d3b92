CONSTANTS
  DataSize = 2
  BitDepth = 3
  Count = 4
  Distances <- MCDistances
SPECIFICATION Spec
INVARIANTS
  TypeOK
  FaultsCanBeUndone
  FaultsAsFarAsDrawn
