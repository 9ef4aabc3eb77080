\* Two interfaces, two frames, one message of the server, one failed write.
CONSTANTS
    N = 2
    MaxFrames = 2
    MaxCommands = 1
    MaxFailures = 1
SPECIFICATION FairSpec
INVARIANTS
    OnlyFailuresMissing
    DispatchedAsArrived
PROPERTIES
    Implements
    ReachesOthers
CHECK_DEADLOCK FALSE
