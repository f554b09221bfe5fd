SPECIFICATION Spec
CONSTANTS
    w1 = w1
    w2 = w2
    p1 = p1
    Workers = {w1, w2}
    Payloads = {p1}
    N = 2
    LeaseTtl = 2
    RetentionTtl = 3
    MaxClock = 5
    MaxTokens = 3
SYMMETRY Symmetric
INVARIANTS
    ProgressExact
    AnswersTrue
    LeaseExclusive
