\* A limit of two rows, inserts of at most four, six updates, two refusals.
CONSTANTS
    Rows = {a, b}
    BatchSizeLimit = 2
    MaxRows = 4
    MaxUpdates = 6
    MaxRefusals = 2
SPECIFICATION FairSpec
INVARIANTS
    NothingLost
    BatchBounded
PROPERTIES
    Implements
    AllStored
CHECK_DEADLOCK FALSE
