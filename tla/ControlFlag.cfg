SPECIFICATION FairSpec
CONSTANTS
  Signals = {sigterm}
  Nested = TRUE
INVARIANT RequestHonoured
INVARIANT SingleFaultMasked
PROPERTY RequestStopsServer
CHECK_DEADLOCK FALSE
