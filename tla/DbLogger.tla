------------------------------ MODULE DbLogger ------------------------------
(***************************************************************************)
(* The database logging worker (src/src/db/mod.rs): it takes rows from its *)
(* event channel, writes them in batches, and keeps a batch it failed to   *)
(* write for the next attempt.                                             *)
(*                                                                         *)
(* The database is external: an insert takes the whole batch or nothing; a *)
(* statement can be refused and the connection can be lost, before or      *)
(* after the insert was committed.  The worker never connects again.       *)
(***************************************************************************)
EXTENDS Naturals, Sequences

CONSTANTS
    Rows,            \* field logs
    BatchSizeLimit,  \* batch_size_limit
    MaxRows,         \* the rows one insert can have: its parameters are counted in 16 bits
    MaxUpdates,      \* bound: rows dispatched
    MaxRefusals      \* bound: statements refused for another reason than their size

ASSUME LimitsAssumption ==
    /\ BatchSizeLimit \in Nat \ {0} /\ MaxRows \in Nat
    /\ MaxUpdates \in Nat /\ MaxRefusals \in Nat

VARIABLES
    chan,      \* the rows in the worker's channel, up to a Shutdown
    stopping,  \* a Shutdown is in the channel; what comes after is never read
    batch,     \* the worker's batch
    worker,    \* the thread
    conn,      \* the connection
    table,     \* the table field_logs
    refusals,  \* statements refused, for the bound only
    accepted,  \* history: the rows sent ahead of the Shutdown
    failed     \* history: an insert has failed

database == <<conn, table, refusals, failed>>
vars == <<chan, stopping, batch, worker, conn, table, refusals, accepted, failed>>

TypeOK ==
    /\ chan \in Seq(Rows) /\ batch \in Seq(Rows)
    /\ table \in Seq(Rows) /\ accepted \in Seq(Rows)
    /\ stopping \in BOOLEAN /\ failed \in BOOLEAN
    /\ worker \in {"running", "done"}
    /\ conn \in {"up", "lost"}
    /\ refusals \in 0..MaxRefusals
    /\ Len(accepted) <= MaxUpdates
    /\ worker = "done" => stopping /\ chan = <<>>

Init ==
    /\ chan = <<>> /\ stopping = FALSE
    /\ batch = <<>> /\ worker = "running"
    /\ conn = "up" /\ table = <<>> /\ refusals = 0
    /\ accepted = <<>> /\ failed = FALSE

-----------------------------------------------------------------------------
(* The dispatchers.                                                        *)

\* A row dispatched behind a Shutdown, or to a worker that has gone, is lost.
Update(row) ==
    /\ ~stopping /\ Len(accepted) < MaxUpdates
    /\ chan' = Append(chan, row)
    /\ accepted' = Append(accepted, row)
    /\ UNCHANGED <<stopping, batch, worker, conn, table, refusals, failed>>

Shutdown ==
    /\ ~stopping
    /\ stopping' = TRUE
    /\ UNCHANGED <<chan, batch, worker, conn, table, refusals, accepted, failed>>

-----------------------------------------------------------------------------
(* flush_batch.                                                            *)

Inserted(rows) ==
    /\ conn = "up" /\ Len(rows) <= MaxRows
    /\ table' = table \o rows /\ batch' = <<>>
    /\ UNCHANGED <<conn, refusals, failed>>

\* Mutant: the batch is cleared whatever the insert returned.
RefusedCleared(rows) ==
    /\ conn = "up" /\ batch' = <<>> /\ failed' = TRUE
    /\ \/ Len(rows) > MaxRows /\ UNCHANGED refusals
       \/ refusals < MaxRefusals /\ refusals' = refusals + 1
    /\ UNCHANGED <<conn, table>>
Refused(rows) ==
    /\ conn = "up" /\ batch' = rows /\ failed' = TRUE
    /\ \/ Len(rows) > MaxRows /\ UNCHANGED refusals
       \/ refusals < MaxRefusals /\ refusals' = refusals + 1
    /\ UNCHANGED <<conn, table>>

\* The connection breaks before the insert is committed, or before the worker
\* hears that it was.
ConnectionLost(rows) ==
    /\ conn = "up" /\ conn' = "lost" /\ batch' = rows /\ failed' = TRUE
    /\ \/ UNCHANGED table
       \/ Len(rows) <= MaxRows /\ table' = table \o rows
    /\ UNCHANGED refusals

\* Mutant: a new connection is made, and the batch written once more.
NoConnectionButAgain(rows) ==
    /\ conn = "lost" /\ conn' = "up" /\ Len(rows) <= MaxRows
    /\ table' = table \o rows /\ batch' = <<>>
    /\ UNCHANGED <<refusals, failed>>
NoConnection(rows) ==
    /\ conn = "lost" /\ batch' = rows
    /\ UNCHANGED database

FlushBatch(rows) ==
    Inserted(rows) \/ Refused(rows) \/ ConnectionLost(rows) \/ NoConnection(rows)

-----------------------------------------------------------------------------
(* The worker.                                                             *)

\* Mutant: the batch is only flushed when the worker idles.
CollectForIdle(rows) == batch' = rows /\ UNCHANGED database
Collect(rows) ==
    IF Len(rows) < BatchSizeLimit
    THEN batch' = rows /\ UNCHANGED database
    ELSE FlushBatch(rows)

TakeUpdate ==
    /\ worker = "running" /\ chan # <<>>
    /\ Collect(Append(batch, Head(chan)))
    /\ chan' = Tail(chan)
    /\ UNCHANGED <<stopping, worker, accepted>>

\* Nothing came within flush_timeout.
Timeout ==
    /\ worker = "running" /\ chan = <<>> /\ ~stopping /\ batch # <<>>
    /\ FlushBatch(batch)
    /\ UNCHANGED <<chan, stopping, worker, accepted>>

\* The worker makes one last attempt, and ends whatever comes of it.
\* Mutant: it looks for Shutdown before it takes the next row.
TakeShutdownFirst ==
    /\ worker = "running" /\ stopping
    /\ IF batch = <<>> THEN UNCHANGED <<batch, database>> ELSE FlushBatch(batch)
    /\ worker' = "done"
    /\ UNCHANGED <<chan, stopping, accepted>>
TakeShutdown ==
    /\ worker = "running" /\ chan = <<>> /\ stopping
    /\ IF batch = <<>> THEN UNCHANGED <<batch, database>> ELSE FlushBatch(batch)
    /\ worker' = "done"
    /\ UNCHANGED <<chan, stopping, accepted>>

WorkerNext == TakeUpdate \/ Timeout \/ TakeShutdown

Next == (\E row \in Rows : Update(row)) \/ Shutdown \/ WorkerNext

Spec == Init /\ [][Next]_vars

\* The worker runs, and recv_timeout returns.
FairSpec == Spec /\ WF_vars(WorkerNext)

-----------------------------------------------------------------------------
(* Properties.                                                             *)

\* While the connection stands every row accepted is in the table, the batch
\* or the channel, once, in its order: a failed insert loses nothing.
NothingLost == conn = "up" => accepted = table \o batch \o chan

\* Across refused statements and a lost connection, the table holds a prefix
\* of the accepted rows and only grows by the next ones: no retry writes a row
\* twice, no failure leaves a gap.
Store == INSTANCE FieldLogStore WITH stored <- table
Implements == Store!Spec

\* The batch only outgrows its limit when inserts fail.
BatchBounded == Len(batch) < BatchSizeLimit \/ failed

\* Every row accepted is stored in the end, however few follow it, unless the
\* connection is lost, the batch outgrew what an insert can have, or the last
\* attempt at Shutdown failed.
GaveUp == conn = "lost" \/ Len(batch) > MaxRows \/ (worker = "done" /\ batch # <<>>)
AllStored ==
    \A n \in 1..MaxUpdates : (Len(accepted) >= n) ~> (Len(table) >= n \/ GaveUp)

=============================================================================
