\* Two sockets and three subscriptions, with fairness
SPECIFICATION FairClientSpec
CONSTANTS
    Attempts = {w1, w2}
    Subscriptions = {s1, s2, s3}
    MaxAttempts = 2
    None = None
CHECK_DEADLOCK FALSE
INVARIANTS
    NeverStuck
    NeverDeaf
PROPERTIES
    ImplementsManager
    StreamComes
