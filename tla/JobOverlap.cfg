SPECIFICATION FairSpec
CONSTANTS
    MaxBlock = 3
    NTx <- MCNTx
    WithCommit <- MCWithCommit
    MaxSyncHeight = 2
    MaxFaults = 1
    MaxTimeouts = 1
    MaxCrashes = 1
    Overlap = TRUE
INVARIANTS
    CapKept
PROPERTIES
    Converges
