SPECIFICATION Spec
CONSTANTS
    o1 = o1
    o2 = o2
    r1 = r1
    r2 = r2
    None = None
    Owners = {o1, o2}
    Resources = {r1, r2}
    Ttl = 2
    Capacity = 1
    MaxClock = 5
    MaxToken = 3
    MaxWrites = 3
SYMMETRY Symmetric
INVARIANTS
    LeaseHonoured
    FencedOrder
CHECK_DEADLOCK FALSE
