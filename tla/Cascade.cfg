SPECIFICATION FairCascade
CONSTANTS
    MaxBlock = 2
    NTx <- MCNTx
    WithCommit <- MCWithCommit
    MaxSyncHeight = 0
    MaxFaults = 1
    MaxTimeouts = 1
    MaxCrashes = 1
    Overlap = FALSE
    Entity <- MCTwo
    MaxRequests = 1
INVARIANTS
    CascadeTypeOK
PROPERTIES
    DataIsGone
    OthersUntouched
    ComesBack
