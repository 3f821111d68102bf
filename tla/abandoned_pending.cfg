\* A statement of the repository that TLC refutes.
CONSTANTS
    telegram = telegram
    sms = sms
    None = None
    DeadlineLoop = DeadlineLoop
    FallbackLoop = FallbackLoop
    RetryLoop = RetryLoop
    Sessions <- MCSessions
    Creators = {c1}
    KeyOf <- Keyless
    Keys = {k1}
    Ackers = {}
    Escalators = {}
    Retriers = {}
    Messages = {m1}
    Channels = {telegram, sms}
    Registered = {telegram, sms}
    Policies <- BothPolicies
    MaxFailures = 1
SPECIFICATION FairSpec
PROPERTIES
    PendingIsPolled
