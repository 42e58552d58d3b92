CONSTANTS
  t1 = t1
  t2 = t2
  Main = Main
  Threads <- OneThread
  Requests <- FourRequests
  Addresses <- MCAddresses
  LeastLevel <- OneEnded
  MaxLevel = 1
  MaxPeriod = 2
  MaxActive = 2
  PinLocked = FALSE
  OnlyOwn = FALSE
SPECIFICATION Spec
CHECK_DEADLOCK FALSE
INVARIANTS
  ActiveRangesDisjoint
  ActiveWhileListed
  PeriodsLogged
  ReportComplete
  
