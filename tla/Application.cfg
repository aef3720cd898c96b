SPECIFICATION FairPlatform
CONSTANTS
    MaxFaults = 4
    MaxBlock = 3
CHECK_DEADLOCK FALSE
INVARIANTS
    PlatformTypeOK
    FewUntold
PROPERTIES
    CertificateKept
    UpOrHalf
    EveryBlockSettles
    ComesToRest
