SPECIFICATION FairSpec
CONSTANTS
    a = a
    b = b
    l = l
    m = m
    Main = Main
    NoTask = NoTask
    Path <- MCPath
    Program <- MCProgram
    Priority <- MCPriority
INVARIANTS
    NothingRunsAfterTheWait
    LoadsTheReachable
    OrderIgnoresTheSchedule
PROPERTIES
    LoadingEnds
CHECK_DEADLOCK FALSE
