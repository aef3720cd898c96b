SPECIFICATION FairSpec
CONSTANTS
    Counts <- MCCounts
    MaxStarts = 2
    MaxQueue = 2
    MaxStopping = 1
PROPERTIES
    StartSettles
