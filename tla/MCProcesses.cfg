SPECIFICATION Spec
CONSTANTS
    h1 = h1
    h2 = h2
    f1 = f1
    f2 = f2
    k1 = k1
    m1 = m1
    t1 = t1
    e1 = e1
    Handlers = {h1, h2}
    Firers = {f1, f2}
    Keys = {k1}
    Messages = {m1}
    NoMessage = NoMessage
    TimerIds = {t1}
    EffectIds = {e1}
    Dues = {1}
    Limit = 1
    ClaimTtl = 1
    InboxTtl = 1
    Capacity = 3
    MaxVersion = 2
    MaxClock = 3
SYMMETRY Symmetric
INVARIANTS
    NoLostUpdate
    InputOnce
    TimerEndsOnce
    EffectsExact
CHECK_DEADLOCK FALSE
