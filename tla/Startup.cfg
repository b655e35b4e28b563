SPECIFICATION StartupFairSpec
CONSTANTS
  Timeout = 1
  GenMax = 2
  SendMayFail = FALSE
  ChangeMax = 1
  Cfgs <- MCCfgs
  Drifts <- MCDrifts
INVARIANT StartupInv
INVARIANT EvidenceIsCurrent
INVARIANT EvidenceIsSnapshot
INVARIANT AcceptedIsHealthy
INVARIANT RefusedForAReason
PROPERTY DriftStops
PROPERTY FreshEvidenceOrStop
PROPERTY CollectorEndsWithServer
CHECK_DEADLOCK FALSE
