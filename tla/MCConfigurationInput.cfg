CONSTANTS
  Ids <- MCIds
  DepthValues <- MCDepthValues
  LSBValues <- MCLSBValues
  RateLines <- MCRateLines
  Profiles <- MCProfiles
  MultipleBer = TRUE
  MaxEntries = 2
SPECIFICATION Spec
CHECK_DEADLOCK FALSE
INVARIANTS
  TypeOK
  ConfigurationsAsWritten
  EveryRateHasItsConsumption
