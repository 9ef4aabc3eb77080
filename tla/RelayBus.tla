------------------------------ MODULE RelayBus ------------------------------
(***************************************************************************)
(* What FerroFlow promises as the hub of its CAN interfaces: events are    *)
(* accepted one after the other, and every interface gets those that did   *)
(* not come from it in that order, each at most once.  All interfaces see  *)
(* one order: once an event has been written anywhere, no earlier one is   *)
(* written any more.  An event may be missing on an interface whose write  *)
(* failed, and whatever is behind a Shutdown is missing everywhere.        *)
(***************************************************************************)
EXTENDS Naturals, Sequences

CONSTANTS
    Interfaces,  \* the CAN interfaces
    Event,       \* what can be accepted: [kind, from, frame]
    Stop         \* the event that ends the service

VARIABLES
    accepted,    \* the events accepted, in order
    written      \* interface -> the positions in accepted written on it

relayVars == <<accepted, written>>

Init ==
    /\ accepted = <<>>
    /\ written = [i \in Interfaces |-> <<>>]

Accept(e) == accepted' = Append(accepted, e) /\ UNCHANGED written

\* The k-th event is written on i.
Write(i, k) ==
    /\ accepted[k].from # i
    /\ \A m \in 1..k : accepted[m] # Stop
    /\ \A j \in Interfaces : \A m \in DOMAIN written[j] : written[j][m] <= k
    /\ \A m \in DOMAIN written[i] : written[i][m] < k
    /\ written' = [written EXCEPT ![i] = Append(@, k)]
    /\ UNCHANGED accepted

Next ==
    \/ \E e \in Event : Accept(e)
    \/ \E i \in Interfaces : \E k \in DOMAIN accepted : Write(i, k)

Spec == Init /\ [][Next]_relayVars

=============================================================================
