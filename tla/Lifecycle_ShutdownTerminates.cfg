\* One interface and a database, two frames.
CONSTANTS
    Interfaces <- OneInterface
    WithDb = TRUE
    MaxFrames = 2
    MaxFields = 2
SPECIFICATION FairSpec
PROPERTY ShutdownTerminates
CHECK_DEADLOCK FALSE
