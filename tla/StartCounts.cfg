SPECIFICATION Spec
CONSTANTS
    Counts <- MCCounts
    MaxStarts = 1
    MaxQueue = 2
    MaxStopping = 1
INVARIANTS
    ExecutionsDone
