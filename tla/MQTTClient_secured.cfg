\* One client on a device whose secret may not be valid base64 and whose
\* auth-mode file may never have been set.
CONSTANTS
    Clients = {c1}
    Products = {p1, p2}
    Names = {n1, nLong}
    Secrets = {s1, sBad}
    TooLong = {nLong}
    BadSecrets = {sBad}
    RandResidues <- MCRandResidues
    MaxConstructs = 1
    NULL = NULL
SPECIFICATION Spec
INVARIANT LiveClientSecuredAsConfigured
