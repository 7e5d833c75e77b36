CONSTANTS
    c1 = c1
    c2 = c2
    c3 = c3
    s1 = s1
    s2 = s2
    None = None
    Calls <- TwoCalls
    Sessions <- TwoSessions
    MaxWorkers = 1
    MaxQueueSize = 1
CONSTRAINT FewTurns
SPECIFICATION FairSpec
INVARIANTS
    SessionsFollowPool
    WorkersListenedTo
PROPERTIES
    KilledLeaves
CHECK_DEADLOCK FALSE
