\* One node that can come back as another firmware or another device.
CONSTANTS
    Engine = Engine
    EngineNext = EngineNext
    Tank = Tank
    Pressure = Pressure
    Valve = Valve
    FloatValve = FloatValve
    Switch = Switch
    Int2 = Int2
    Int3 = Int3
    Float = Float
    Bool = Bool
    NoValue = NoValue
    Nodes = {1}
    Fields <- MCFields
    Infos = {Pressure, Valve, FloatValve, Switch}
    Groups = {1}
    Profiles = {Engine, EngineNext, Tank}
    TelOf <- MCTelOf
    ParOf <- MCParOf
    GroupsOf <- MCGroupsOf
    DeviceOf <- MCDeviceOf
    NameOf <- MCNameOf
    TypeOf <- MCTypeOf
    RangeOf <- MCRangeOf
    Scale = 2
    Singles <- MCSingles
    Overflow = 14
    Entries <- MCEntries
    Inputs <- MCInputs
    MaxInbox = 2
    MaxBoots = 2
    MaxReports = 1
    MaxLost = 1
    MaxWire = 1
SPECIFICATION AccessSpec
INVARIANTS
    ReadIsOfField
    RequestsReachField
    WrittenAsAsked
CHECK_DEADLOCK FALSE
