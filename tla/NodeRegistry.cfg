\* One node, reboots at any point, a bus that loses at most one frame.
CONSTANTS
    Engine = Engine
    EngineNext = EngineNext
    Bare = Bare
    Nodes = {1}
    Fields <- MCFields
    Old = Old
    New = New
    Infos = {Old, New}
    Groups = {1}
    Profiles = {Engine, EngineNext, Bare}
    TelOf <- MCTelOf
    ParOf <- MCParOf
    GroupsOf <- MCGroupsOf
    MaxInbox = 3
    MaxBoots = 2
    MaxReports = 2
    MaxLost = 1
SPECIFICATION FairSpec
INVARIANTS
    CompletenessSplit
    CacheIsLogged
    TablesOfOneBoot
    DecodedAsSent
PROPERTIES
    EventuallyRegistered
CHECK_DEADLOCK FALSE
