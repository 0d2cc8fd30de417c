\* A logger configured between calls (the usual set-up before serving), two calls of every kind under every mode.
CONSTANTS
    Modes <- MCModes
    MaxCalls = 2
    ConcurrentSet = FALSE
SPECIFICATION Spec
INVARIANT EntryFromOneMode
CHECK_DEADLOCK FALSE
