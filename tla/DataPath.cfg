CONSTANTS
  PacketBytesMax = 12
  AddrBytesMax = 3
  BufferSize = 10
  IoRetryBudget = 1
  Clients <- MCClients
  FlipMax = 2
  FlipBits <- MCFlipBits
SPECIFICATION Spec
INVARIANTS DeliveredIntact EccFailureJustified GateVerdict LoopsBounded SecdedReference
PROPERTY PrefaceEnds
