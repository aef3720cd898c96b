SPECIFICATION Spec
CONSTANTS
    MaxBlock = 3
    NTx <- MCNTx
    WithCommit <- MCWithCommit
    MaxSyncHeight = 0
    MaxFaults = 2
    MaxTimeouts = 2
    MaxCrashes = 1
    Overlap = FALSE
INVARIANTS
    TypeOK
    KVPrefix
    VerifiedStored
    NotifiedOnce
    CompletedWhole
PROPERTIES
    VerifiedKept
    LostForever
    OkAccounted
    LossShows
    ImplementsReplica
