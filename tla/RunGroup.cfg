SPECIFICATION FairSpec
INVARIANTS
    GroupInv
    ReadyBeforeStop
PROPERTIES
    ProcessEnds
\* The process ends.
CHECK_DEADLOCK FALSE
