CONSTANTS
  c1 = c1
  c2 = c2
  c3 = c3
  c4 = c4
  Addresses <- MCAddresses
  Arrays <- MCArrays
  BerCount <- MCBerCount
  MaxPeriod = 2
  MaxAccesses <- MCMaxAccesses
SYMMETRY ArraySymmetry
SPECIFICATION Spec
INVARIANTS
  TypeOK
  LogsOwnTheirArrays
  WritesChargedToTheirPeriod
  OpenPeriodNotStored
  AccessesConserved
  FaultsConserved
  RatesFollowPeriods
  RatesAsLogged
