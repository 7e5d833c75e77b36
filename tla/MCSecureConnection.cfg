\* Two sockets, a client with or without a password
SPECIFICATION FairSpec
CONSTANTS
    Sockets = {w1, w2}
    None = None
CONSTRAINT Uncrossed
CHECK_DEADLOCK FALSE
INVARIANTS
    KeysAgree
    SessionKept
PROPERTIES
    ConnectSettles
