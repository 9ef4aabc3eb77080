---------------------------- MODULE MCFieldAccess ----------------------------
(* FieldAccess on two small devices, for TLC.                              *)
EXTENDS FieldAccess, TLC

CONSTANTS
    Engine,     \* one telemetry field, one parameter
    EngineNext, \* a later firmware of it: the ids swapped, the parameter a Float
    Tank,       \* another device, with a parameter of the same name
    Pressure, Valve, FloatValve, Switch, Int2, Int3

MCFields == 1..2

MCTelOf ==
    Engine :> (1 :> Pressure) @@ EngineNext :> (2 :> Pressure) @@ Tank :> EmptyMap

MCParOf ==
    Engine :> (2 :> Valve) @@ EngineNext :> (1 :> FloatValve) @@ Tank :> (2 :> Switch)

MCGroupsOf == Engine :> (1 :> <<1>>) @@ EngineNext :> (1 :> <<2>>) @@ Tank :> EmptyMap

MCDeviceOf == Engine :> "engine" @@ EngineNext :> "engine" @@ Tank :> "tank"

MCNameOf ==
    Pressure :> "pressure" @@ Valve :> "valve" @@ FloatValve :> "valve" @@ Switch :> "valve"

MCTypeOf == Pressure :> Int3 @@ Valve :> Int2 @@ FloatValve :> Float @@ Switch :> Bool

\* Halves, with two bits of precision: 0, 1/2, 1, 3/2, 2, 3, 4, 6.
MCSingles == LET s == {1, 2, 3, 4, 6, 8, 12} IN {0} \cup s \cup {-x : x \in s}

MCRangeOf == Bool :> {0, 1} @@ Int2 :> 0..3 @@ Int3 :> -4..3

MCEntry(device, kind, raw, slope, offset) ==
    [device |-> device, kind |-> kind, raw |-> raw, slope |-> slope, offset |-> offset]

MCEntries ==
    { MCEntry("engine", "tel", "pressure", 2, 1),
      MCEntry("engine", "par", "valve", -2, 1),
      MCEntry("tank", "par", "valve", -5, 0) }

MCInput(num, json, mapped) == [num |-> num, json |-> json, mapped |-> mapped]

MCInputs ==
    { MCInput(3, "int", FALSE), MCInput(2, "float", FALSE), MCInput(9, "int", FALSE),
      MCInput(-5, "float", TRUE), MCInput(-8, "int", TRUE), MCInput(-13, "float", TRUE) }

=============================================================================
