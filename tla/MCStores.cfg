SPECIFICATION Spec
CONSTANTS
    s1 = s1
    s2 = s2
    i1 = i1
    c1 = c1
    c2 = c2
    f1 = f1
    f2 = f2
    r1 = r1
    r2 = r2
    m1 = m1
    m2 = m2
    w1 = w1
    w2 = w2
    a1 = a1
    a2 = a2
    MaxClock = 2
    Sessions = {s1, s2}
    Identities = {i1}
    Ttl = 1
    Retention = 1
    ReplayCapacity = 1
    MaxGrants = 2
    Nobody = Nobody
    ReceiptIds = {r1, r2}
    Reconcilers = {w1, w2}
    Results = {9}
    Clients = {c1, c2}
    Fingerprints = {f1, f2}
    MessageIds = {m1, m2}
    ExecutionTtl = 2
    ResultTtl = 1
    MaxAttempts = 2
    Actors = {a1, a2}
    LeaseTtl = 1
    MaxToken = 3
    MaxItem = 3
    MaxWrites = 3
SYMMETRY Symmetric
INVARIANTS
    GrantExclusive
    RequestsExact
    WritesInOrder
    CheckpointCovered
PROPERTIES
    ReceiptFinal
CHECK_DEADLOCK FALSE
