\* Fair scheduling on a pool for two sessions, an administrator, a failure, a
\* channel that may stay silent.
CONSTANTS
    telegram = telegram
    sms = sms
    None = None
    DeadlineLoop = DeadlineLoop
    FallbackLoop = FallbackLoop
    RetryLoop = RetryLoop
    Sessions <- MCSessions
    Creators = {c1}
    KeyOf <- Keyless
    Keys = {k1}
    Ackers = {}
    Escalators = {e1}
    Retriers = {}
    Messages = {m1}
    Channels = {telegram, sms}
    Registered = {telegram, sms}
    Policies <- BothPolicies
    MaxFailures = 1
    PoolCapacity = 2
    MaxSilent = 1
    MaxReading = 2
SPECIFICATION PoolFairSpec
PROPERTIES
    EscalationConcludes
    OverdueIsEscalated
    RequestsAreAnswered
    LocksAreReleased
CHECK_DEADLOCK FALSE
