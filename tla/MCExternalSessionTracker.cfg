\* A session of each provider, two writes to Claude's and one to Codex's file, read one by one
SPECIFICATION FairSpec
CONSTANTS
    Claude = {s1}
    Codex = {x1}
    Concurrency = 1
    MaxWrites <- MCMaxWrites
    MaxLooks = 1
CHECK_DEADLOCK FALSE
INVARIANTS
    AbortedNotExternal
PROPERTIES
    ChangesRead
