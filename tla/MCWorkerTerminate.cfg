\* terminate() as the only control call: does it finish what was queued?
SPECIFICATION Spec
CONSTANTS
    c1 = c1
    c2 = c2
    x1 = x1
    x2 = x2
    x3 = x3
    Clients = {c1, c2}
    Runner = Runner
    Commands = {x1, x2, x3}
    Unique = {x2, x3}
    Code <- MCCode
    Controls = {"terminate"}
    MaxControl = 1
    Builds = {"pthread"}
    NoThread = NoThread
    NoCommand = NoCommand
INVARIANT
    TerminateFinishes
CHECK_DEADLOCK FALSE
