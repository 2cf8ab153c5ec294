CONSTANTS
    Clients = {c1}
    Products = {p1, p2}
    Names = {n1, nLong}
    Secrets = {s1, sBad}
    TooLong = {nLong}
    BadSecrets = {sBad}
    RandResidues <- MCRandResidues
    MaxConstructs = 2
    NULL = NULL
SPECIFICATION Spec
INVARIANT NoLeak
