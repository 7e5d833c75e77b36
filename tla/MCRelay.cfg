\* Three sockets, one username and two installations, with fairness
SPECIFICATION FairSpec
CONSTANTS
    Sockets = {s1, s2, s3}
    Usernames = {u1}
    Installs = {i1, i2}
    None = None
CHECK_DEADLOCK FALSE
INVARIANTS
    TablesAgree
    OwnerServes
    OnePartner
PROPERTIES
    WaitingLeavesForCause
    PairEndsTogether
    VanishedServerLeaves
