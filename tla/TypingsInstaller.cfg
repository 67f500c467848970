SPECIFICATION FairSpec
CONSTANTS
    Project = {p1, p2}
    Package = {a, x}
    Registry = {a}
    Valid = {a}
    Inputs = {{x}, {a, x}}
    ThrottleLimit = 1
    MaxRequests = 3
INVARIANTS
    ThrottleIsTight
    LatestAnswerStays
    EveryTypingIsDecided
PROPERTIES
    EveryRequestEnds
CHECK_DEADLOCK FALSE
