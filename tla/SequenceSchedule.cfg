\* Definitions of up to three actions; intervals of no tick, one and two.
CONSTANTS
    Params <- MCParams
    Sequences <- MCSequences
    Intervals = {0, 1, 2}
    MaxTicks = 9
SPECIFICATION Spec
INVARIANTS
    WithinGlobals
    DefinedKept
    StepsApart
    OnTheWay
    TimestampsPaced
CHECK_DEADLOCK FALSE
