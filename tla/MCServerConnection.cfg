\* Two uploads of at most two chunks, one subscription, two policies
SPECIFICATION FairSpec
CONSTANTS
    Uploads = {u1, u2}
    Subs = {s1}
    Chunks = 2
    MaxQueue = 2
    Policies = {"srp_required", "local_unrestricted"}
    None = None
CHECK_DEADLOCK FALSE
INVARIANTS
    CompleteIsWhole
    FailsForCause
    SecureClosesClean
PROPERTIES
    EndAnswered
