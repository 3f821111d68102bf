\* Two submissions with one idempotency key, an acknowledgement and a retried fallback,
\* on a pool for two sessions, with a failure, a channel that may stay silent, and
\* one channel registered.
CONSTANTS
    telegram = telegram
    sms = sms
    None = None
    DeadlineLoop = DeadlineLoop
    FallbackLoop = FallbackLoop
    RetryLoop = RetryLoop
    Sessions <- MCSessions
    Creators = {c1, c2}
    KeyOf <- SameKey
    Keys = {k1}
    Ackers = {a1}
    Escalators = {}
    Retriers = {r1}
    Messages = {m1, m2}
    Channels = {telegram, sms}
    Registered = {telegram}
    Policies <- AllPolicies
    MaxFailures = 1
    PoolCapacity = 2
    MaxSilent = 1
    MaxReading = 0
SPECIFICATION PoolSpec
SYMMETRY Interchangeable
INVARIANTS
    OneMessagePerKey
    AuditTrail
    NoPhantomDelivery
    LocksHeldByWork
CHECK_DEADLOCK FALSE
