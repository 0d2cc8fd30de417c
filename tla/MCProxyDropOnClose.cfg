\* Well-formed requests only: a request read while Close() runs gets no response.
CONSTANTS
    c1 = c1
    c2 = c2
    k1 = k1
    k2 = k2
    NoOne = NoOne
    Conns <- MCOneConn
    Closers <- MCOneCloser
    Msgs <- MCNoBad
    MaxMsgs = 2
    ReadTimeoutSet = TRUE
    CloseAfterReply = FALSE
SPECIFICATION Spec
CHECK_DEADLOCK FALSE
INVARIANT EveryRequestAnswered
