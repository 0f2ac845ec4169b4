CONSTANTS
  w1 = w1
  w2 = w2
  w3 = w3
  NoLease = NoLease
  Workers <- TwoWorkers
  LeaseDuration = 4
  Beat = 1
  Stall = 1
  Suspensions = TRUE
  LateRelease = FALSE
  MaxTime = 8
  MaxStamp = 2
SPECIFICATION LeaseSpec
PROPERTIES OwnershipImplemented ReplacedWorkersRefused LiveLeaseKept
CHECK_DEADLOCK FALSE
