SPECIFICATION Spec
CONSTANTS
    s1 = s1
    s2 = s2
    s3 = s3
    local = local
    wild = wild
    Socket <- MCSocket3
    Endpoint <- MCEndpoint
    Unresolvable <- MCUnresolvable
    MaxSockets = 2
SYMMETRY Sym3
INVARIANTS
    PointerIsOpen
    ContextPointerAgrees
    EndpointsTracked
    LeakNeedsStop
CHECK_DEADLOCK FALSE
