CONSTANTS
  t1 = t1
  t2 = t2
  Main = Main
  Threads <- TwoThreads
  Requests <- TwoRequests
  Addresses <- MCAddresses
  LeastLevel = 0
  MaxLevel = 1
  MaxPeriod = 0
  MaxActive = 3
  PinLocked = TRUE
  OnlyOwn = TRUE
SYMMETRY ThreadSymmetry
SPECIFICATION Spec
CHECK_DEADLOCK FALSE
INVARIANT AddedBufferIsActive
