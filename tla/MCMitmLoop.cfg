\* One intercepted connection carrying up to three requests: plain, 101 upgrade or CONNECT.
CONSTANTS
    Kinds <- MCKinds
    MaxReqs = 3
SPECIFICATION Spec
INVARIANT TunnelOnRequestStream
CHECK_DEADLOCK FALSE
