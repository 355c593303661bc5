SPECIFICATION Spec
CONSTANTS
    Conns = {c1}
    c1 = c1
    NoConn = NoConn
    UseTLS = FALSE
    ReadTimeout = TRUE
    GracePeriods = {TRUE}
INVARIANTS
    GracefulStopDrains
\* The server may stop: it is a program that ends.
CHECK_DEADLOCK FALSE
