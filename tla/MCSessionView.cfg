\* Three messages, two of them written while the page is open, and two losses of the connection
SPECIFICATION FairSpec
CONSTANTS
    Kinds = {"text"}
    Delays = {1}
    InOrder = TRUE
    MaxLines = 3
    MaxDrops = 2
    MaxRequests = 3
    MaxNotices = 2
    Elsewhere = Elsewhere
CHECK_DEADLOCK FALSE
PROPERTIES
    NewestShown
    ChangeShown
