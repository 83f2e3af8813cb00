\* Two objects and threads on both builds, or the functions over WinInet.
SPECIFICATION Spec
CONSTANTS
    o1 = o1
    o2 = o2
    Objects = {o1, o2}
    Nobody = Nobody
    Builds = {"posix", "windows"}
    MaxFd = 3
    MaxFile = 3
    Word = 4
    SizeT = 8
    MaxReply = 2
SYMMETRY Symmetry
INVARIANTS
    ClosesOwn
    NothingLost
    RequestWhole
