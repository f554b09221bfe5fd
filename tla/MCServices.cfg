SPECIFICATION Spec
CONSTANTS
    a1 = a1
    a2 = a2
    f1 = f1
    f2 = f2
    m1 = m1
    p1 = p1
    p2 = p2
    p3 = p3
    MaxClock = 6
    MaxBatchClock = 3
    Callers = {a1, a2}
    BatchIds = {1, 2}
    BatchFingerprints = {f1, f2}
    Totals = {2}
    BatchTtl = 1
    BatchRetention = 1
    BatchCapacity = 1
    PurgeSize = 1
    MaxBatchTokens = 2
    Tasks = {a1, a2}
    Messages = {m1}
    MaxConcurrency = 1
    MaxCalls = 3
    Threads = {a1, a2}
    ProofIds = {p1, p2, p3}
    IssuedAt = {1, 2}
    ExpiresAt = {2}
    MaxAge = 1
    MaxLifetime = 1
    ClockSkew = 1
    ReplayTtl = 5
    ProofCapacity = 2
    MaxPause = 1
    MaxDataset = 3
    Limits = {2, 3}
SYMMETRY Symmetric
INVARIANTS
    TransportExact
    ProofOnce
    OrderExact
PROPERTIES
    BatchStoreExact
CHECK_DEADLOCK FALSE
