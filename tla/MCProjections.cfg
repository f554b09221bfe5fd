SPECIFICATION Spec
CONSTANTS
    w1 = w1
    w2 = w2
    e1 = e1
    e2 = e2
    p1 = p1
    p2 = p2
    s1 = s1
    r1 = r1
    Writers = {w1, w2}
    Streams = {s1}
    EventIds = {e1, e2}
    MaxBatch = 2
    PageSize = 1
    EventCapacity = 2
    Projectors = {p1, p2}
    Versions = {1, 2}
    Runs = {r1}
    NoRun = NoRun
    MaxThrough = 2
SYMMETRY Symmetric
INVARIANTS
    LogExact
    RehydrationExact
    ProjectionExact
PROPERTIES
    NeverBack
CHECK_DEADLOCK FALSE
