SPECIFICATION Spec
CONSTANTS
  Ips = {ip1, ip2, ip3}
  NoIp = NoIp
  BucketCount = 2
  Limit = 2
  Window = 2
  MaxTime = 5
  MaxAdmits = 4
  ClockStepsBack = FALSE
  MayCorrupt = TRUE
SYMMETRY IpSymmetry
INVARIANT SlidingBound
INVARIANT OneBucketPerAddress
INVARIANT FullJustified
INVARIANT RefusalJustified
CHECK_DEADLOCK FALSE
