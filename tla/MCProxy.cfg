\* Lifecycle of one connection sending up to two messages of every kind, one Close() caller, reads with a deadline.
CONSTANTS
    c1 = c1
    c2 = c2
    k1 = k1
    k2 = k2
    NoOne = NoOne
    Conns <- MCOneConn
    Closers <- MCOneCloser
    Msgs <- MsgKinds
    MaxMsgs = 2
    ReadTimeoutSet = TRUE
    CloseAfterReply = FALSE
SPECIFICATION Spec
INVARIANT QuiescentAfterClose
 
CHECK_DEADLOCK FALSE
