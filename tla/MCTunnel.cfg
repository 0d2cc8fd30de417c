\* A tunnel with up to two chunks each way, one already buffered, a half-closable upstream writer, and any deadlines left armed.
CONSTANTS
    MaxData = 2
    MaxPre = 1
    CwKinds <- MCHalfClosers
    ReadDeadlines <- BOOLEAN
    WriteDeadlines <- BOOLEAN
SPECIFICATION Spec
INVARIANT TunnelLossless
PROPERTY TunnelEnds HandlerJoinsCopies SpliceRefinement
CHECK_DEADLOCK FALSE
