SPECIFICATION Spec
CONSTANTS
    r1 = r1
    r2 = r2
    j1 = j1
    s1 = s1
    Runners = {r1, r2}
    Names = {j1}
    Schedules = {s1}
    Limit = 2
    ClaimTtl = 1
    MaxAttempts = 2
    Interval = 2
    InitialDelay = 1
    Multiplier = 2
    MaximumDelay = 2
    MaterializeLimit = 1
    Capacity = 3
    Starts = {1}
    MaxClock = 3
SYMMETRY Symmetric
INVARIANTS
    DecidedOnce
    ClaimExclusive
    OccurrencesExact
    DecisionsFit
PROPERTIES
    SettledFinal
CHECK_DEADLOCK FALSE
