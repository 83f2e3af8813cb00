\* Both modes, every stream of up to four bytes, two calls of any methods.
SPECIFICATION HttpFairSpec
CONSTANTS
    Bytes = {"x", "eoh"}
    Token = "eoh"
    MaxStream = 4
    MaxLen = 2
    MaxFile = 3
    BufSize = 2
    RECEIVE_BUFF_SIZE = 3
    MaxCalls = 2
INVARIANTS
    InBounds
    ReceivedIsSent
    TokenIsLast
    PutWhole
    SplitAtBlankLine
    NeverOverreads
    CompleteBody
PROPERTY
    Returns
\* After the last call the socket is idle.
CHECK_DEADLOCK FALSE
