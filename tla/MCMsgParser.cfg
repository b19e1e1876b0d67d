CONSTANTS
    Crc <- Crc8Of
    Types <- MCTypes
    Bodies <- MCBodies
    BufLen = 80
    RecvSizes <- MCRecvSizes
    CutSizes <- MCCutSizes
    MaxSent = 4
    MaxCuts = 1
SPECIFICATION Spec
INVARIANTS
    TypeOK
    HandedInOrder
    HandedAtOnce
    InsideBuffer
    CutSpoilsOne
    CutLosesTwo
CHECK_DEADLOCK FALSE
