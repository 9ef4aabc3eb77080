\* One node, counters of two values, an interval of two ticks.
CONSTANTS
    Nodes = {n1}
    Width = 2
    Interval = 2
    MaxLate = 3
    MaxWire = 2
SPECIFICATION FairSpec
INVARIANTS
    CountersTell
PROPERTIES
    NoBurst
    StaleEnds
    AskedForever
    ShutdownEnds
CHECK_DEADLOCK FALSE
