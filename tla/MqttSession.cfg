SPECIFICATION FairSpec
CONSTANTS
    Requests = {r1, r2}
    r1 = r1
    r2 = r2
    Confirmed = {r1}
    NoReq = NoReq
    Async = {1}
    AllowUnauthenticated = {"PUBREL"}
    IgnoreUnsupported = TRUE
INVARIANTS
    AckConfirmed
    OneAck
    ServedAfterLogin
    SessionInv
PROPERTIES
    ImplementsStoreThenAck
    
\* A connection ends.
CHECK_DEADLOCK FALSE
