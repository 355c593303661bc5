SPECIFICATION Spec
CONSTANTS
    Requests = {r1, r2, r3}
    NoReq = NoReq
    Qos = {0, 1}
    QosOf <- MCQosOf
    Channels = {c1, c2, c3}
    NoChan = NoChan
    Confirms = {1}
    Routable = {r1, r3}
    r1 = r1
    r2 = r2
    r3 = r3
    c1 = c1
    c2 = c2
    c3 = c3
INVARIANTS
    RabbitInv
    OneChannel
    NoRecovery
PROPERTIES
    ImplementsPublisher
\* All requests may be done.
CHECK_DEADLOCK FALSE
