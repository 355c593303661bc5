SPECIFICATION Spec
CONSTANTS
    r1 = r1
    r2 = r2
    r3 = r3
    r4 = r4
    r5 = r5
    standard = standard
    fifo = fifo
    topic = topic
    Requests = {r1, r2, r3, r4, r5}
    AsyncRequests = {r1, r3}
    Queues = {standard, fifo, topic}
    Topics = {topic}
    Fifo = {fifo, topic}
    QueueOf <- MCQueueOf
    MessageID <- MCMessageID
INVARIANTS
    AwsInv
    OkStoredOrShadowed
PROPERTIES
    ImplementsPublisher
\* All requests may be answered.
CHECK_DEADLOCK FALSE
