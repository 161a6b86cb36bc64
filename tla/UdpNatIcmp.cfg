SPECIFICATION Spec
CONSTANTS
    Sessions = {s1}
    Keys = {k1}
    Fds = {f1, f2}
    Icmp = icmp
    NoKey = nokey
    NoFd = nofd
    Nobody = nobody
INVARIANTS
    IcmpSocketHasReceiver
