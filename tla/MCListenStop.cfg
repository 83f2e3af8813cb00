\* Does stopListening stop the thread?
SPECIFICATION FairSpec
CONSTANTS
    p1 = p1
    p2 = p2
    p3 = p3
    Peers = {p1, p2, p3}
    Kinds = {"tcp"}
    Builds = {"pthread"}
    MaxBacklog = 2
    MaxStarts = 1
    NoPeer = NoPeer
PROPERTY
    StopStops
\* A deleted object and a UDP loop without datagrams stop for good.
CHECK_DEADLOCK FALSE
