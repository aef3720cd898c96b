SPECIFICATION Spec
CONSTANTS
    r1 = r1
    r2 = r2
    r3 = r3
    Request <- MCRequest
    Given <- MCGiven
    MaxTime = 4
SYMMETRY MCSymmetry
CHECK_DEADLOCK FALSE
INVARIANTS
    CommandTypeOK
    VersionNotAhead
    VersionOrder
    SeesOwn
    DeletedGone
PROPERTIES
    ImplementsEventLog
