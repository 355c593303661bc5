SPECIFICATION Spec
CONSTANTS
    r1 = r1
    r2 = r2
    Requests = {r1, r2}
    NoReq = NoReq
    Qos = {0, 1}
    QosOf <- MCQosOf
    AsyncRequests = {r1}
    Workers = {1}
    PublishTimeout = TRUE
    GracePeriods = {TRUE, FALSE}
INVARIANTS
    KafkaInv
    FlushedNotLost
PROPERTIES
    ImplementsPublisher
\* The publisher stops.
CHECK_DEADLOCK FALSE
