\* Both builds, every method: safety, the refinement and what a worker owes.
SPECIFICATION FairSpec
CONSTANTS
    c1 = c1
    c2 = c2
    x1 = x1
    x2 = x2
    x3 = x3
    Clients = {c1, c2}
    Runner = Runner
    Commands = {x1, x2, x3}
    Unique = {x2, x3}
    Code <- MCCode
    Controls = {"terminate", "stop", "pause", "resume", "clear"}
    MaxControl = 2
    Builds = {"pthread", "win32"}
    NoThread = NoThread
    NoCommand = NoCommand
INVARIANTS
    TypeOK
    NoUseAfterFree
    NoneLeaked
    InOrder
    UniqueInQueue
PROPERTIES
    Implements
    Served
    Leaves
\* Every call has returned and the worker has finished or waits for a command.
CHECK_DEADLOCK FALSE
