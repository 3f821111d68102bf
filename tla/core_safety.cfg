\* One message, every kind of request, racing with the scheduler; an administrator
\* may name a channel that is not registered.
CONSTANTS
    telegram = telegram
    sms = sms
    None = None
    DeadlineLoop = DeadlineLoop
    FallbackLoop = FallbackLoop
    RetryLoop = RetryLoop
    Sessions <- MCSessions
    Creators = {c1}
    KeyOf <- Keyless
    Keys = {k1}
    Ackers = {a1}
    Escalators = {e1}
    Retriers = {r1}
    Messages = {m1}
    Channels = {telegram, sms, email}
    Registered = {telegram, sms}
    Policies <- BothPolicies
    MaxFailures = 0
SPECIFICATION Spec
INVARIANTS
    TypeOK
    DurableResting
    AuditTrail
    NoPhantomDelivery
    FallbackAfterEscalation
    NotGivenUpEarly
