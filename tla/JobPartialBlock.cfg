SPECIFICATION Spec
CONSTANTS
    MaxBlock = 2
    NTx <- MCNTx
    WithCommit <- MCWithCommit
    MaxSyncHeight = 0
    MaxFaults = 1
    MaxTimeouts = 0
    MaxCrashes = 0
    Overlap = FALSE
PROPERTIES
    OkCommits
