\* Two registration calls with every failure point and reply shape.
CONSTANTS
    MaxSerc = 64
    DecodeBufLen = 32
    Lens = {15, 16, 31}
    PskLens = {64}
    Uptimes <- MCUptimes
    Seeds <- MCSeeds
    MaxCalls = 2
SPECIFICATION Spec
INVARIANT TypeOK
INVARIANT RandRIsLehmer
CHECK_DEADLOCK FALSE
