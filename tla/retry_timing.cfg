\* The default intervals and the policy of fallback channels.
CONSTANTS
    DeadlineLoop = DeadlineLoop
    FallbackLoop = FallbackLoop
    RetryLoop = RetryLoop
    Interval <- DefaultIntervals
    Policy <- FALLBACK_RETRY_POLICY
    MaxPass = 1
    MaxFailures = 1
SPECIFICATION TimingSpec
INVARIANTS
    ResolvedInTime
PROPERTIES
    BackoffRespected
