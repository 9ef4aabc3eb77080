--------------------------- MODULE MCNodeRegistry ---------------------------
(* NodeRegistry on small firmwares, for TLC.                               *)
EXTENDS NodeRegistry, TLC

CONSTANTS
    Engine,     \* two telemetry fields in one group, one parameter
    EngineNext, \* a later firmware of the same device, with other types
    Bare,       \* a firmware without fields
    Old, New    \* the field definitions of one and of the other

MCFields == 1..3

MCTelOf ==
    Engine :> (1 :> Old @@ 2 :> Old)
    @@ EngineNext :> (1 :> New)
    @@ Bare :> EmptyMap

MCParOf ==
    Engine :> (3 :> Old) @@ EngineNext :> (2 :> New) @@ Bare :> EmptyMap

MCGroupsOf ==
    Engine :> (1 :> <<2, 1>>) @@ EngineNext :> (1 :> <<1>>) @@ Bare :> EmptyMap

=============================================================================
