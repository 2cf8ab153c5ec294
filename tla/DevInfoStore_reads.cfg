\* Power loss at any point of a write, and vfs_open failing on an existing
\* file: does the store behave as a key-value store for its callers?
CONSTANTS
    Vals = {v1, v2}
    Modes = {m0, m1}
    DefaultMode = m0
    CertMode = m1
    Platforms = {"freertos", "linux", "legacy"}
    PowerLoss = TRUE
    WriteMayFail = FALSE
    OpenMayFail = TRUE
SPECIFICATION Spec
PROPERTY StoreActsAsKeyValue
