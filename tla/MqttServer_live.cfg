SPECIFICATION FairSpec
CONSTANTS
    Conns = {c1}
    c1 = c1
    NoConn = NoConn
    UseTLS = TRUE
    ReadTimeout = TRUE
    GracePeriods = {TRUE}
PROPERTIES
    ShutdownReturns
    ConnsDrain
\* The server may stop: it is a program that ends.
CHECK_DEADLOCK FALSE
