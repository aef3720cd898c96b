SPECIFICATION FairSpec
CONSTANTS
    Counts <- MCFewCounts
    MaxStarts = 2
    MaxQueue = 2
    MaxStopping = 1
INVARIANTS
    TypeOK
    QueueShowsJob
    PendingListens
PROPERTIES
    RefusedBesideFirst
    RequestServed
    StartSettlesAlone
