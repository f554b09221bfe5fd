SPECIFICATION Spec
CONSTANTS
    r1 = r1
    r2 = r2
    w1 = w1
    Messages = {1, 2}
    Size <- SizeOf
    Relays = {r1, r2}
    Workers = {w1}
    MaxAdmitted = 2
    MaxBytes <- Bytes
    Capacity = 2
    ClaimTtl = 2
    RoundTimeout = 1
    InitialDelay = 1
    Multiplier = 2
    MaximumDelay = 1
    MaxAttempts = 2
    RetryAfters = {0}
    Allowance = 1
    MaxClock = 2
    MaxRounds = 2
INVARIANTS
    RetriesPaid
    NothingLost
    ClaimExclusive
PROPERTIES
    UncertainHeld
    SettledFinal
CHECK_DEADLOCK FALSE
