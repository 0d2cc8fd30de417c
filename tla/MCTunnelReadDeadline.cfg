\* A tunnel on a connection whose read deadline, set by readRequest, is still armed.
CONSTANTS
    MaxData = 2
    MaxPre = 1
    CwKinds <- MCHalfClosers
    ReadDeadlines <- MCArmed
    WriteDeadlines <- MCUnarmed
SPECIFICATION Spec
INVARIANT SpliceUntilEOF
CHECK_DEADLOCK FALSE
