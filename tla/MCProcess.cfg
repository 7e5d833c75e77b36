\* Two messages and two approvals, with fairness
SPECIFICATION FairSpec
CONSTANTS
    Messages = {m1, m2}
    Requests = {r1, r2}
    NoRequest = NoRequest
    Steers = TRUE
    LivenessCheck = FALSE
CHECK_DEADLOCK FALSE
INVARIANTS
    ApprovalsConsistent
    MessagesKept
    ShownIsPending
PROPERTIES
    SettledOnce
    HeadIsShown
    LoopEndsAfterKill
