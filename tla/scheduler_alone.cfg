\* Two messages, the scheduler, failures, no other request.
CONSTANTS
    telegram = telegram
    sms = sms
    None = None
    DeadlineLoop = DeadlineLoop
    FallbackLoop = FallbackLoop
    RetryLoop = RetryLoop
    Sessions <- MCSessions
    Creators = {c1, c2}
    KeyOf <- OwnKey
    Keys = {k1, k2}
    Ackers = {}
    Escalators = {}
    Retriers = {}
    Messages = {m1, m2}
    Channels = {telegram, sms}
    Registered = {telegram, sms}
    Policies <- BothPolicies
    MaxFailures = 1
SPECIFICATION Spec
INVARIANTS
    FallbackCallsCounted
PROPERTIES
    ImplementsLifecycle
