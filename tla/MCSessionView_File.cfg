\* Every file of up to five lines, also with equal timestamps
SPECIFICATION FileSpec
CONSTANTS
    Kinds = {"text", "use", "result", "boundary"}
    Delays = {0, 1}
    InOrder = TRUE
    MaxLines = 5
    MaxDrops = 0
    MaxRequests = 1
    MaxNotices = 1
    Elsewhere = Elsewhere
CHECK_DEADLOCK FALSE
INVARIANTS
    ResultsLoaded
    MergeInOrder
