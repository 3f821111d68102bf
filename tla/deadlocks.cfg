\* Two messages and two administrators against passes that lock both rows.
CONSTANTS
    telegram = telegram
    sms = sms
    None = None
    DeadlineLoop = DeadlineLoop
    FallbackLoop = FallbackLoop
    RetryLoop = RetryLoop
    Sessions <- MCSessions
    Creators = {c1, c2}
    KeyOf <- Keyless
    Keys = {k1}
    Ackers = {}
    Escalators = {e1, e2}
    Retriers = {}
    Messages = {m1, m2}
    Channels = {telegram, sms}
    Registered = {telegram}
    Policies <- FallbackPolicy
    MaxFailures = 0
SPECIFICATION Spec
INVARIANTS
    RequestsNeverDeadlock
