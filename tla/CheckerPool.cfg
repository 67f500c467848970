SPECIFICATION FairSpec
CONSTANTS
    Request = {r1, r2, r3}
    Anonymous = {r3}
    Cancelable = {r1, r2}
    StringCompletion = {r2}
    File = {f1}
    Checker = {c1, c2}
    NoFile = NoFile
    NoChecker = NoChecker
    MaxCheckers = 2
    MaxCalls = 2
INVARIANTS
    ExclusiveLease
    OneCheckerPerRequest
    CleanupNeverPanics
    CanceledNeverReused
    UnlockedLookIsCurrent
    IdleCheckersAreAnnounced
PROPERTY EveryRequestEnds
PROPERTY LendsOneCheckerToOneRequest
CHECK_DEADLOCK FALSE
