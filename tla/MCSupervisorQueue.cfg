CONSTANTS
    c1 = c1
    c2 = c2
    c3 = c3
    s1 = s1
    s2 = s2
    None = None
    Calls <- ThreeCalls
    Sessions <- TwoSessions
    MaxWorkers = 1
    MaxQueueSize = 2
SYMMETRY QueueSymmetry
CONSTRAINT FewEnds
SPECIFICATION Spec
INVARIANTS
    QueueExact
    QueueServed
    OneQueuedPerSession
PROPERTIES
    ImplementsWorkQueue
CHECK_DEADLOCK FALSE
