\* Both builds, both classes, an owner that may start the object twice.
SPECIFICATION FairSpec
CONSTANTS
    p1 = p1
    p2 = p2
    p3 = p3
    Peers = {p1, p2, p3}
    Kinds = {"tcp", "udp"}
    Builds = {"pthread", "win32"}
    MaxBacklog = 2
    MaxStarts = 2
    NoPeer = NoPeer
INVARIANTS
    JoinWaits
    AtMostOneLate
PROPERTY
    StopNoticed
\* A deleted object and a UDP loop without datagrams stop for good.
CHECK_DEADLOCK FALSE
