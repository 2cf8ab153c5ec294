\* ./door come_home <name>: the Linux store with short or refused writes,
\* a packet-id space of two ids (so the counter wraps), a command timeout
\* of one tick, one transport failure, and a server that may ack, ack
\* twice, ack late or never.
CONSTANTS
    Vals = {v1}
    Modes = {m0, m1}
    DefaultMode = m0
    CertMode = m1
    Platforms = {"linux"}
    PowerLoss = FALSE
    WriteMayFail = TRUE
    OpenMayFail = FALSE
    MaxPacketId = 2
    CommandTimeout = 1
    MaxTime = 3
    MaxDrops = 1
    ArgActions = {"other"}
    ContentFits = {TRUE}
SPECIFICATION Spec
CHECK_DEADLOCK FALSE
PROPERTY DoorTerminates
