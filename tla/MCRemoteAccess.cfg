\* Two sockets of the server and one phone, with fairness
SPECIFICATION FairRemoteSpec
CONSTANTS
    Sockets = {s1, s2, c1}
    ServerSockets = {s1, s2}
    Usernames = {u1}
    Installs = {i1}
    Home = i1
    None = None
CHECK_DEADLOCK FALSE
INVARIANTS
    NeverStranded
    WaitingIsWatched
PROPERTIES
    ServerComesBack
