SPECIFICATION FairSpec
CONSTANTS
    MaxTx = 2
    CommitId = {1, 2}
    TableRow <- MCTableRow
    KeyOf <- MCKeyOf
    Take = 2
    MaxMsg = 3
    MaxFailed = 1
    Registered <- PlatformEntities
CHECK_DEADLOCK FALSE
INVARIANTS
    QuerySideTypeOK
    WorldProjected
    ReadsAgree
    Complete
PROPERTIES
    Ends
    Announced
