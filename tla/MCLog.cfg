\* Both builds, two writers, SetLog at any time.
SPECIFICATION FairSpec
CONSTANTS
    w1 = w1
    w2 = w2
    Writers = {w1, w2}
    NoThread = NoThread
    Builds = {"pthread", "win32"}
    MaxStatements = 3
    MaxParts = 1
    MaxSetLog = 1
INVARIANTS
    BufferPrivate
    LinesWhole
PROPERTY
    LineComes
\* Every statement has ended and the object may be gone.
CHECK_DEADLOCK FALSE
