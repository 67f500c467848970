SPECIFICATION FairSpec
CONSTANTS
    Notification = {n1}
    Request = {r1}
    Initialize = initialize
    Shutdown = shutdown
    Exit = exit
    Nobody = Nobody
    QueueSize = 1
    MaxQuestions = 2
INVARIANTS
    RequestsSeeEarlierChanges
    AnsweredAtMostOnce
    TablesHoldWhatRuns
PROPERTIES
    EveryRequestIsAnswered
    
CHECK_DEADLOCK FALSE
