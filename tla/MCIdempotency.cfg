SPECIFICATION Spec
CONSTANTS
    c1 = c1
    c2 = c2
    i1 = i1
    i2 = i2
    f1 = f1
    f2 = f2
    v1 = v1
    t1 = t1
    t2 = t2
    Threads = {c1, c2}
    Identities = {i1, i2}
    Fingerprints = {f1, f2}
    Values = {v1}
    NoValue = NoValue
    Tokens = {t1, t2}
    Capacity = 1
    LeaseTtl = 1
    RetentionTtl = 2
    UncertainTtl = 1
    BatchSizes = {1}
    MaxClock = 3
SYMMETRY Symmetric
INVARIANTS
    TokenIndexExact
    AuthorityHonoured
    RetentionHonoured
    ReplayFaithful
PROPERTIES
    UncertainHeld
