\* The pthread build, adding and nothing else: a notification can be lost.
SPECIFICATION FairSpec
CONSTANTS
    c1 = c1
    c2 = c2
    x1 = x1
    x2 = x2
    x3 = x3
    Clients = {c1, c2}
    Runner = Runner
    Commands = {x1, x2, x3}
    Unique = {x2, x3}
    Code <- MCCode
    Controls = {}
    MaxControl = 0
    Builds = {"pthread"}
    NoThread = NoThread
    NoCommand = NoCommand
PROPERTIES
    ServedAlways
\* Every call has returned and the worker has finished or waits for a command.
CHECK_DEADLOCK FALSE
