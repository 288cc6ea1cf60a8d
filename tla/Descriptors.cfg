SPECIFICATION FairSpec
CONSTANTS
    Scripts <- MCScripts
    PipeBuf = 1
    Capacity = 2
    MaxFd = 8
    MaxProcess = 9
    MaxFaults = 1
INVARIANTS StandardDescriptorsKept PipeEndsReleased
PROPERTY EveryCommandEnds
CHECK_DEADLOCK FALSE
