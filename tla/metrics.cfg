\* One report on a message that the scheduler moves on.
CONSTANTS
    telegram = telegram
    sms = sms
    None = None
    DeadlineLoop = DeadlineLoop
    FallbackLoop = FallbackLoop
    RetryLoop = RetryLoop
    Sessions <- MCSessions
    Creators = {c1}
    KeyOf <- Keyless
    Keys = {k1}
    Ackers = {}
    Escalators = {}
    Retriers = {}
    Messages = {m1}
    Channels = {telegram, sms}
    Registered = {telegram, sms}
    Policies <- BothPolicies
    MaxFailures = 1
    Recent <- AllRecent
    DeadLetterLimit = 0
SPECIFICATION MetricsSpec
INVARIANTS
    FinalCountsGrow
    MissedOnlyInRetry
    UnhealthyIsStable
