\* All three HALs, with power loss at any point of a write, short writes,
\* failing vfs_creat / fopen("w+"), and vfs_creat handing out fd 0.
\* vfs_open does not fail on a file that exists here: that fault breaks
\* the auth-mode contract outright (store_reads shows how).
CONSTANTS
    Vals = {v1}
    Modes = {m0, m1}
    DefaultMode = m0
    CertMode = m1
    Platforms = {"freertos", "linux", "legacy"}
    PowerLoss = TRUE
    WriteMayFail = TRUE
    OpenMayFail = FALSE
SPECIFICATION Spec
INVARIANT TypeOK
INVARIANT AuthModeReadIsLastSet
