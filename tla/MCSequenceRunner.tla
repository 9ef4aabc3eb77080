-------------------------- MODULE MCSequenceRunner --------------------------
(* SequenceRunner on small schedules, for TLC.                             *)
EXTENDS SequenceRunner, TLC

CONSTANTS Leak, Vent   \* two plans

Action(ts, kind) == [ts |-> ts, kind |-> kind]

\* A burst at one timestamp, a conditional hold, an action due after it.
MCMainOf ==
    Leak :> <<Action(0, "set"), Action(0, "cond"), Action(1, "set")>>
    @@ Vent :> <<Action(2, "hold"), Action(2, "set")>>

MCAbortOf ==
    Leak :> <<Action(1, "set")>> @@ Vent :> <<Action(0, "set")>>

=============================================================================
