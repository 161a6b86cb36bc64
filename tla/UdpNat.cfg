SPECIFICATION FairSpec
CONSTANTS
    Sessions = {s1, s2}
    Keys = {k1, k2}
    Fds = {f1, f2, f3}
    Icmp = icmp
    NoKey = nokey
    NoFd = nofd
    Nobody = nobody
INVARIANTS
    SessionsDistinct
    TeardownClean
PROPERTIES
    ForwardReturns
    ExitCompletes
    IdleEnds
