SPECIFICATION Spec
CONSTANTS
    Packets <- MCPackets
    Junk <- MCJunk
    ReadTimeouts = {0, 2}
    IdleTimeouts = {0, 3}
    Cuts = {1, 5, 130}
    MaxQueue = 2
    Pipelined <- MCPipelined
    MaxWait = 9
INVARIANTS
    ReaderInv
    StreamInSync
    CompliantNotCut
    WaitBounded
\* The goroutine ends.
CHECK_DEADLOCK FALSE
