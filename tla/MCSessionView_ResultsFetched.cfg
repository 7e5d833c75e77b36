\* Files of up to five lines with distinct timestamps
SPECIFICATION FileSpec
CONSTANTS
    Kinds = {"text", "use", "result", "boundary"}
    Delays = {1}
    InOrder = TRUE
    MaxLines = 5
    MaxDrops = 0
    MaxRequests = 1
    MaxNotices = 1
    Elsewhere = Elsewhere
CHECK_DEADLOCK FALSE
INVARIANTS
    ResultsFetched
