SPECIFICATION Spec
CONSTANTS
  Junk = Junk
  JunkInverse = JunkInverse
  FaultMax = 2
 
INVARIANT BanksSound
 
CHECK_DEADLOCK FALSE
