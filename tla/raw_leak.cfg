SPECIFICATION Spec
CONSTANTS
    s1 = s1
    s2 = s2
    s3 = s3
    local = local
    wild = wild
    Socket <- MCSocket2
    Endpoint <- MCEndpoint
    Unresolvable <- MCUnresolvable
    MaxSockets = 2
INVARIANTS
    ClosedIsReleased
CHECK_DEADLOCK FALSE
