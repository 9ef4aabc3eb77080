-------------------------- MODULE SequencePromise --------------------------
(***************************************************************************)
(* What a started sequence promises an operator, with no thread, channel   *)
(* or clock in it: its actions are performed in the order of the schedule, *)
(* each once and none before its time, pauses not counted.  Only an Abort  *)
(* that was asked for turns it to its abort schedule, which keeps the same *)
(* promise.  Only a shutdown, or one more Abort, cuts a schedule short.    *)
(***************************************************************************)
EXTENDS Naturals, Sequences

CONSTANTS Plans, MainOf, AbortOf, Runs

VARIABLES
    stopping,  \* the shutdown has been requested
    stage,     \* run -> "idle", "main", "abort" or "over"
    left,      \* run -> the actions of its schedule still to perform
    onAbort,   \* run -> its abort schedule
    active,    \* run -> the time its schedule has been under way, pauses apart
    asked      \* run -> an Abort has been asked for and not obeyed

vars == <<stopping, stage, left, onAbort, active, asked>>

Live(r) == stage[r] \in {"main", "abort"}

Init ==
    /\ stopping = FALSE
    /\ stage = [r \in Runs |-> "idle"]
    /\ left = [r \in Runs |-> <<>>]
    /\ onAbort = [r \in Runs |-> <<>>]
    /\ active = [r \in Runs |-> 0]
    /\ asked = [r \in Runs |-> FALSE]

\* One at a time.
Begin(r, p) ==
    /\ ~stopping /\ stage[r] = "idle" /\ \A q \in Runs : ~Live(q)
    /\ stage' = [stage EXCEPT ![r] = "main"]
    /\ left' = [left EXCEPT ![r] = MainOf[p]]
    /\ onAbort' = [onAbort EXCEPT ![r] = AbortOf[p]]
    /\ UNCHANGED <<stopping, active, asked>>

Age(r) ==
    /\ Live(r)
    /\ active' = [active EXCEPT ![r] = @ + 1]
    /\ UNCHANGED <<stopping, stage, left, onAbort, asked>>

Perform(r) ==
    /\ Live(r) /\ left[r] # <<>> /\ active[r] >= Head(left[r]).ts
    /\ left' = [left EXCEPT ![r] = Tail(@)]
    /\ UNCHANGED <<stopping, stage, onAbort, active, asked>>

\* An Abort, which can be asked for twice, or just after the end.
Ask(r) ==
    /\ stage[r] # "idle"
    /\ asked' = [asked EXCEPT ![r] = TRUE]
    /\ UNCHANGED <<stopping, stage, left, onAbort, active>>

Obey(r) == asked[r] /\ \E again \in BOOLEAN : asked' = [asked EXCEPT ![r] = again]

TurnToAbort(r) ==
    /\ stage[r] = "main" /\ Obey(r)
    /\ stage' = [stage EXCEPT ![r] = "abort"]
    /\ left' = [left EXCEPT ![r] = onAbort[r]]
    /\ active' = [active EXCEPT ![r] = 0]
    /\ UNCHANGED <<stopping, onAbort>>

End(r) ==
    /\ stage' = [stage EXCEPT ![r] = "over"]
    /\ UNCHANGED <<stopping, left, onAbort, active>>

Complete(r) == Live(r) /\ left[r] = <<>> /\ End(r) /\ UNCHANGED asked

CutShort(r) ==
    \/ Live(r) /\ stopping /\ End(r) /\ UNCHANGED asked
    \/ stage[r] = "abort" /\ Obey(r) /\ End(r)

Stop == stopping' = TRUE /\ UNCHANGED <<stage, left, onAbort, active, asked>>

Next ==
    \/ Stop
    \/ \E r \in Runs :
          \/ \E p \in Plans : Begin(r, p)
          \/ Age(r) \/ Perform(r) \/ Ask(r) \/ TurnToAbort(r) \/ Complete(r) \/ CutShort(r)

Spec == Init /\ [][Next]_vars

=============================================================================
