\* One connection whose client sends up to six requests, well-formed or malformed: the consecutive error limit is reached.
CONSTANTS
    c1 = c1
    c2 = c2
    k1 = k1
    k2 = k2
    NoOne = NoOne
    Conns <- MCOneConn
    Closers <- MCNoCloser
    Msgs <- MCBadOnly
    MaxMsgs = 6
    ReadTimeoutSet = TRUE
    CloseAfterReply = FALSE
SPECIFICATION Spec
INVARIANT ErrorLimitExact
CHECK_DEADLOCK FALSE
