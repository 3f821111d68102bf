\* The shutdown may come at any time; passes may never end.
CONSTANTS
    DeadlineLoop = DeadlineLoop
    FallbackLoop = FallbackLoop
    RetryLoop = RetryLoop
    Loops <- SchedulerLoops
    EarlyStop = TRUE
SPECIFICATION FairSpec
INVARIANTS
    LoopsSurvive
    QuietWhenClosing
PROPERTIES
    ShutdownEnds
