SPECIFICATION Spec
CONSTANTS
    Requests = {r1, r2}
    r1 = r1
    r2 = r2
    Confirmed = {r1, r2}
    NoReq = NoReq
    Async = {1, 2}
    AllowUnauthenticated = {}
    IgnoreUnsupported = FALSE
INVARIANTS
    WriteGuarded
\* A connection ends.
CHECK_DEADLOCK FALSE
