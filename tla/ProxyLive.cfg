SPECIFICATION FairSpec
CONSTANTS
  MaxClients = 1
  ClientIps = {ip1}
  NoIp = NoIp
  MaxSessionsPerIp = 0
  AcceptBatchMax = 1
  RequestMax = 3
  PrefaceEnabled = TRUE
  JoinMayFail = FALSE
CHECK_DEADLOCK FALSE
INVARIANT NoUseAfterClose
INVARIANT AuditTrailComplete
INVARIANT LateAcceptsBounded
PROPERTY ShutdownDrains
PROPERTY SilentSessionReaped
