SPECIFICATION Spec
CONSTANTS
    Writers = {w1, w2}
    Types = {accept, close}
    Keys = {k1, k2}
    SeqMax = 2
    MaxCalls = 3
    MaxBoots = 3
    TearMax = 1
INVARIANTS
    AckedDurable
    NumbersSound
    UntornRestartContinues
    SignedStaysSigned
SYMMETRY Symmetric
CHECK_DEADLOCK FALSE
