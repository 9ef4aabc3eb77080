---------------------------- MODULE FieldLogStore ----------------------------
(***************************************************************************)
(* What the logging worker promises of the table field_logs: it holds the  *)
(* first of the accepted rows, in the order they were dispatched, without  *)
(* a gap and without a duplicate, and it only grows.                       *)
(***************************************************************************)
EXTENDS Naturals, Sequences

CONSTANT Rows

VARIABLES
    accepted,  \* the rows dispatched to the worker
    stored     \* the rows of the table

Init == accepted = <<>> /\ stored = <<>>

Accept(row) == accepted' = Append(accepted, row) /\ UNCHANGED stored

Store ==
    /\ \E n \in Len(stored)..Len(accepted) : stored' = SubSeq(accepted, 1, n)
    /\ UNCHANGED accepted

Next == (\E row \in Rows : Accept(row)) \/ Store

Spec == Init /\ [][Next]_<<accepted, stored>>

=============================================================================
