\* One caller variable, as in door_mqtt_sample.c: Construct, Destroy,
\* Construct again, with failures at every step.
CONSTANTS
    Clients = {c1}
    Products = {p1, p2}
    Names = {n1, nLong}
    Secrets = {s1, sBad}
    TooLong = {nLong}
    BadSecrets = {sBad}
    RandResidues <- MCRandResidues
    MaxConstructs = 3
    NULL = NULL
SPECIFICATION Spec
INVARIANT TypeOK
