SPECIFICATION FairSpec
CONSTANTS
    r1 = r1
    r2 = r2
    Requests = {r1, r2}
    NoReq = NoReq
    Qos = {1}
    QosOf <- MCQosOf
    AsyncRequests = {r1}
    Workers = {1}
    PublishTimeout = FALSE
    GracePeriods = {TRUE}
PROPERTIES
    CallbackOrDone
    PublishReturns
    StopCompletes
\* The publisher stops.
CHECK_DEADLOCK FALSE
