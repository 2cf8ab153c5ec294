\* ./coap [loop] on the Linux HAL, with refused or short writes, an
\* earlier program that may have stored any auth mode, and the three
\* kinds of argv[1].
CONSTANTS
    Vals = {v1}
    Modes = {m0, m1}
    DefaultMode = m0
    CertMode = m1
    KeyNoTlsMode = m0
    Platforms = {"linux"}
    PowerLoss = FALSE
    WriteMayFail = TRUE
    OpenMayFail = FALSE
    LoopArgs = {"none", "loop", "other"}
    MaxEarlier = 1
SPECIFICATION Spec
CHECK_DEADLOCK FALSE
INVARIANT CoapConstructsAsSetUp
