SPECIFICATION FairSpec
CONSTANTS
    c1 = c1
    w1 = w1
    w2 = w2
    m1 = m1
    m2 = m2
    m3 = m3
    m4 = m4
    None = None
    Messages = {m1, m2, m3, m4}
    Consumers = {c1}
    Workers = {w1, w2}
    Admitted = 2
    QueueCapacity = 1
    InboxCapacity = 1
    QuarantineCapacity = 1
    Oversized = {m4}
    Unkeepable = {m3}
    MaxFaults = 3
INVARIANTS
    AdmissionExact
PROPERTIES
    EffectsOnce
    AllSettled
CHECK_DEADLOCK FALSE
