\* Two sequences started one after the other, five operator events.
CONSTANTS
    Leak = Leak
    Vent = Vent
    Plans = {Leak, Vent}
    MainOf <- MCMainOf
    AbortOf <- MCAbortOf
    MaxRuns = 2
    MaxEvents = 5
    MaxPause = 2
    Horizon = 4

SPECIFICATION Spec
INVARIANT AbortHonoured
CHECK_DEADLOCK FALSE
