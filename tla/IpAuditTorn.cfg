SPECIFICATION Spec
CONSTANTS
    Writers = {w1, w2}
    Types = {accept}
    Keys = {k1}
    SeqMax = 3
    MaxCalls = 3
    MaxBoots = 3
    TearMax = 1
INVARIANTS
    RestartContinues
SYMMETRY Symmetric
CHECK_DEADLOCK FALSE
