SPECIFICATION Spec
CONSTANTS
    MaxBlock = 2
    NTx <- MCNTx
    WithCommit <- MCWithCommit
    MaxSyncHeight = 0
    MaxFaults = 1
    MaxTimeouts = 1
    MaxCrashes = 0
    Overlap = TRUE
PROPERTIES
    VerifiedKept
