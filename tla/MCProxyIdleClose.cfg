\* Reads without a deadline: an idle keep-alive client holds Close() forever.
CONSTANTS
    c1 = c1
    c2 = c2
    k1 = k1
    k2 = k2
    NoOne = NoOne
    Conns <- MCOneConn
    Closers <- MCOneCloser
    Msgs <- MsgKinds
    MaxMsgs = 2
    ReadTimeoutSet = FALSE
    CloseAfterReply = FALSE
SPECIFICATION Spec
PROPERTY CloseReturns
CHECK_DEADLOCK FALSE
