SPECIFICATION Spec
CONSTANTS
  MaxClients = 3
  FaultMax = 3
  CfgJunk <- MCCfgJunk
  ListJunk <- MCListJunk
INVARIANT TypeOK
INVARIANT SingleFaultMasked
 
PROPERTY PoolRefined
CHECK_DEADLOCK FALSE
