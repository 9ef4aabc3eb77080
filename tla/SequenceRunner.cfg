\* Two sequences started one after the other, four operator events.
CONSTANTS
    Leak = Leak
    Vent = Vent
    Plans = {Leak, Vent}
    MainOf <- MCMainOf
    AbortOf <- MCAbortOf
    MaxRuns = 2
    MaxEvents = 4
    MaxPause = 1
    Horizon = 3

SPECIFICATION FairSpec
INVARIANTS
    OnlyHandleActive
    NoSilentDisconnect
PROPERTIES
    ShutdownStops
    RunEndsUnlessHeld
    HeldAbortHonoured
    KeepsPromise
CHECK_DEADLOCK FALSE
