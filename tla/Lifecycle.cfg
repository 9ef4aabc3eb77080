\* Two interfaces and a database, one frame.
CONSTANTS
    Interfaces <- TwoInterfaces
    WithDb = TRUE
    MaxFrames = 1
    MaxFields = 2
SPECIFICATION FairSpec
INVARIANTS
    TypeOK
    NothingUnheard
PROPERTIES
    FullShutdownReturns
    RequestSent
CHECK_DEADLOCK FALSE
