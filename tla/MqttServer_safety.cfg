SPECIFICATION Spec
CONSTANTS
    Conns = {c1, c2}
    c1 = c1
    c2 = c2
    NoConn = NoConn
    UseTLS = FALSE
    ReadTimeout = TRUE
    GracePeriods = {TRUE, FALSE}
SYMMETRY ConnSymmetry
INVARIANTS
    OpenConnTracked
    DoneConnUntracked
    ServeReportsShutdown
    NoAcceptAfterStop
    OneLateRequest
    AtMostOneStraggler
    ServerInv
PROPERTIES
    GraceProtectsRequests
\* The server may stop: it is a program that ends.
CHECK_DEADLOCK FALSE
