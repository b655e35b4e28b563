SPECIFICATION Spec
CONSTANTS
  Signals = {sigterm}
  Nested = TRUE
INVARIANT AnyRequestHonoured
CHECK_DEADLOCK FALSE
