SPECIFICATION Spec
CONSTANTS
  MaxClients = 2
  ClientIps = {ip1, ip2}
  NoIp = NoIp
  MaxSessionsPerIp = 1
  AcceptBatchMax = 2
  RequestMax = 2
  PrefaceEnabled = FALSE
  JoinMayFail = FALSE
SYMMETRY IpSymmetry
 
INVARIANT ActiveHasOneOwner
INVARIANT PerIpLimit
CHECK_DEADLOCK FALSE
