\* Lifecycle with two connections sharing the wait group, one message each, one Close() caller.
CONSTANTS
    c1 = c1
    c2 = c2
    k1 = k1
    k2 = k2
    NoOne = NoOne
    Conns <- MCConns
    Closers <- MCOneCloser
    Msgs <- MsgKinds
    MaxMsgs = 1
    ReadTimeoutSet = TRUE
    CloseAfterReply = FALSE
SPECIFICATION Spec
INVARIANT QuiescenceInv
PROPERTY ShutdownRefinement
PROPERTY NoAddDuringWait
CHECK_DEADLOCK FALSE
