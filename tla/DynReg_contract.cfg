\* Key-mode replies with a psk that fits, one a character too long, and
\* none; decoded lengths of one block and of the whole decode buffer;
\* every failure point.
CONSTANTS
    MaxSerc = 64
    DecodeBufLen = 32
    Lens = {16, 32}
    PskLens = {64, 65}
    Uptimes <- MCUptimes
    Seeds <- MCSeeds
    MaxCalls = 1
SPECIFICATION Spec
INVARIANT DynRegContract
CHECK_DEADLOCK FALSE
