--------------------------- MODULE DbLoggerProofs ---------------------------
(* Theorems of DbLogger, for every limit and every number of rows.         *)
EXTENDS DbLogger, SequenceTheorems, TLAPS

\* Inserts fail from the moment the connection is lost.
LostIsFailed == conn = "lost" => failed

Inv == TypeOK /\ NothingLost /\ BatchBounded /\ LostIsFailed

-----------------------------------------------------------------------------
(* Sequences of rows.                                                      *)

\* Moving the head of the third sequence to the end of the second.
LEMMA MoveHead ==
    ASSUME NEW s \in Seq(Rows), NEW t \in Seq(Rows), NEW u \in Seq(Rows), u # <<>>
    PROVE  /\ Append(t, Head(u)) \in Seq(Rows) /\ Tail(u) \in Seq(Rows)
           /\ s \o t \o u = s \o Append(t, Head(u)) \o Tail(u)
  OBVIOUS

LEMMA AppendLast ==
    ASSUME NEW s \in Seq(Rows), NEW t \in Seq(Rows), NEW u \in Seq(Rows), NEW x \in Rows
    PROVE  Append(s \o t \o u, x) = s \o t \o Append(u, x)
<1>1. /\ s \o t \in Seq(Rows) /\ <<x>> \in Seq(Rows)
      /\ (s \o t) \o u \in Seq(Rows)
  OBVIOUS
<1>2. Append((s \o t) \o u, x) = ((s \o t) \o u) \o <<x>>
  BY <1>1, AppendIsConcat
<1>3. ((s \o t) \o u) \o <<x>> = (s \o t) \o (u \o <<x>>)
  BY <1>1, ConcatAssociative
<1>4. Append(u, x) = u \o <<x>>
  BY AppendIsConcat
<1> QED BY <1>2, <1>3, <1>4

\* The first of two sequences is a prefix of both.
LEMMA PrefixOfBoth ==
    ASSUME NEW s \in Seq(Rows), NEW t \in Seq(Rows)
    PROVE  /\ Len(s) \in 0..Len(s \o t)
           /\ SubSeq(s \o t, 1, Len(s)) = s
  OBVIOUS

-----------------------------------------------------------------------------
(* flush_batch.                                                            *)

\* A flush of rows that come next after the table, with `rest' behind them.
LEMMA Flush ==
    ASSUME TypeOK, LostIsFailed, NEW rows \in Seq(Rows), NEW rest \in Seq(Rows),
           conn = "up" => accepted = table \o rows \o rest,
           FlushBatch(rows)
    PROVE  /\ batch' \in Seq(Rows) /\ table' \in Seq(Rows)
           /\ conn' \in {"up", "lost"} /\ refusals' \in 0..MaxRefusals /\ failed' \in BOOLEAN
           /\ conn' = "up" => accepted = table' \o batch' \o rest
           /\ batch' = <<>> \/ failed'
           /\ conn' = "lost" => failed'
           /\ table' = table \/ (conn = "up" /\ table' = table \o rows)
<1>1. CASE Inserted(rows)
  <2>1. table \o rows \in Seq(Rows) /\ conn = "up" /\ conn' = "up"
    BY <1>1 DEF Inserted, TypeOK
  <2>2. accepted = (table \o rows) \o <<>> \o rest
    BY <2>1
  <2> QED BY <1>1, <2>1, <2>2 DEF Inserted, TypeOK
<1>2. CASE Refused(rows)
  BY <1>2, LimitsAssumption DEF Refused, TypeOK
<1>3. CASE ConnectionLost(rows)
  <2>1. table \in Seq(Rows) /\ table \o rows \in Seq(Rows) /\ refusals \in 0..MaxRefusals
    BY DEF TypeOK
  <2>2. /\ conn = "up" /\ conn' = "lost" /\ batch' = rows /\ failed' = TRUE
        /\ refusals' = refusals /\ (table' = table \/ table' = table \o rows)
    BY <1>3 DEF ConnectionLost
  <2>3. table' \in Seq(Rows)
    BY <2>1, <2>2
  <2> QED BY <2>1, <2>2, <2>3
<1>4. CASE NoConnection(rows)
  BY <1>4 DEF NoConnection, database, TypeOK, LostIsFailed
<1> QED BY <1>1, <1>2, <1>3, <1>4 DEF FlushBatch

\* One step of the worker on the rows before and after it: the rows it takes
\* and leaves in the channel, and how the table grows.
WorkerStep ==
    /\ Inv'
    /\ accepted' = accepted
    /\ table' # table =>
          \E n \in Len(table)..Len(accepted) : table' = SubSeq(accepted, 1, n)

\* What a flush does to the table is a step of the abstract log.
LEMMA Grown ==
    ASSUME TypeOK, NEW rows \in Seq(Rows), NEW rest \in Seq(Rows),
           accepted = table \o rows \o rest, table' = table \o rows
    PROVE  \E n \in Len(table)..Len(accepted) : table' = SubSeq(accepted, 1, n)
<1> DEFINE grown == table \o rows
<1>1. table \in Seq(Rows) /\ grown \in Seq(Rows) /\ Len(grown) \in Nat
  BY DEF TypeOK
<1>2. Len(grown) >= Len(table) /\ Len(table) \in Nat
  BY <1>1
<1> HIDE DEF grown
<1>3. accepted = grown \o rest
  BY DEF grown
<1>4. Len(grown) \in 0..Len(accepted) /\ SubSeq(accepted, 1, Len(grown)) = grown
  BY <1>1, <1>3, PrefixOfBoth
<1>5. Len(grown) \in Len(table)..Len(accepted)
  <2>1. Len(accepted) \in Nat
    BY DEF TypeOK
  <2> QED BY <1>2, <1>4, <1>1, <2>1
<1>6. table' = grown
  BY DEF grown
<1> QED BY <1>4, <1>5, <1>6

LEMMA TakeUpdateStep == Inv /\ TakeUpdate => WorkerStep
<1> SUFFICES ASSUME Inv, TakeUpdate PROVE WorkerStep
  OBVIOUS
<1> DEFINE rows == Append(batch, Head(chan))
           rest == Tail(chan)
<1>1. TypeOK /\ LostIsFailed /\ chan \in Seq(Rows) /\ batch \in Seq(Rows)
      /\ table \in Seq(Rows) /\ chan # <<>> /\ worker = "running"
  BY DEF Inv, TypeOK, TakeUpdate
<1>2. /\ rows \in Seq(Rows) /\ rest \in Seq(Rows)
      /\ table \o batch \o chan = table \o rows \o rest
  <2>1. rows \in Seq(Rows) /\ rest \in Seq(Rows)
    BY <1>1
  <2>2. table \o batch \o chan = table \o Append(batch, Head(chan)) \o Tail(chan)
    BY <1>1, MoveHead
  <2> QED BY <2>1, <2>2
<1>3. conn = "up" => accepted = table \o rows \o rest
  BY <1>2 DEF Inv, NothingLost
<1>4. /\ chan' = rest /\ stopping' = stopping /\ worker' = worker /\ accepted' = accepted
  BY DEF TakeUpdate
<1>5. CASE Len(rows) < BatchSizeLimit
  <2>1. batch' = rows /\ conn' = conn /\ table' = table /\ refusals' = refusals
        /\ failed' = failed
    BY <1>5 DEF TakeUpdate, Collect, database
  <2> HIDE DEF rows, rest
  <2>2. TypeOK'
    BY <1>1, <1>2, <1>4, <2>1 DEF TypeOK
  <2> QED BY <1>1, <1>2, <1>3, <1>4, <1>5, <2>1, <2>2
          DEF WorkerStep, Inv, NothingLost, BatchBounded, LostIsFailed
<1>6. CASE ~(Len(rows) < BatchSizeLimit)
  <2>1. FlushBatch(rows)
    BY <1>6 DEF TakeUpdate, Collect
  <2> HIDE DEF rows, rest
  <2>2. /\ batch' \in Seq(Rows) /\ table' \in Seq(Rows)
        /\ conn' \in {"up", "lost"} /\ refusals' \in 0..MaxRefusals /\ failed' \in BOOLEAN
        /\ conn' = "up" => accepted = table' \o batch' \o rest
        /\ batch' = <<>> \/ failed'
        /\ conn' = "lost" => failed'
        /\ table' = table \/ (conn = "up" /\ table' = table \o rows)
    BY <1>1, <1>2, <1>3, <2>1, Flush
  <2>3. TypeOK'
    BY <1>1, <1>2, <1>4, <2>2 DEF TypeOK
  <2>4. Inv'
    BY <1>4, <2>2, <2>3, LimitsAssumption DEF Inv, NothingLost, BatchBounded, LostIsFailed
  <2>5. table' # table =>
          \E n \in Len(table)..Len(accepted) : table' = SubSeq(accepted, 1, n)
    BY <1>1, <1>2, <1>3, <2>2, Grown
  <2> QED BY <1>4, <2>4, <2>5 DEF WorkerStep
<1> QED BY <1>5, <1>6

\* A flush of the batch, with the channel behind it.
LEMMA FlushStep ==
    ASSUME Inv, FlushBatch(batch), chan' = chan, stopping' = stopping, accepted' = accepted,
           worker' = worker \/ (worker' = "done" /\ stopping /\ chan = <<>>)
    PROVE  WorkerStep
<1>1. TypeOK /\ LostIsFailed /\ chan \in Seq(Rows) /\ batch \in Seq(Rows)
      /\ table \in Seq(Rows)
  BY DEF Inv, TypeOK
<1>2. conn = "up" => accepted = table \o batch \o chan
  BY DEF Inv, NothingLost
<1>3. /\ batch' \in Seq(Rows) /\ table' \in Seq(Rows)
      /\ conn' \in {"up", "lost"} /\ refusals' \in 0..MaxRefusals /\ failed' \in BOOLEAN
      /\ conn' = "up" => accepted = table' \o batch' \o chan
      /\ batch' = <<>> \/ failed'
      /\ conn' = "lost" => failed'
      /\ table' = table \/ (conn = "up" /\ table' = table \o batch)
  BY <1>1, <1>2, Flush
<1>4. TypeOK'
  BY <1>1, <1>3 DEF TypeOK
<1>5. Inv'
  BY <1>3, <1>4, LimitsAssumption DEF Inv, NothingLost, BatchBounded, LostIsFailed
<1>6. table' # table =>
        \E n \in Len(table)..Len(accepted) : table' = SubSeq(accepted, 1, n)
  BY <1>1, <1>2, <1>3, Grown
<1> QED BY <1>5, <1>6 DEF WorkerStep

LEMMA WorkerSteps == Inv /\ WorkerNext => WorkerStep
<1> SUFFICES ASSUME Inv, WorkerNext PROVE WorkerStep
  OBVIOUS
<1>1. CASE TakeUpdate
  BY <1>1, TakeUpdateStep
<1>2. CASE Timeout
  BY <1>2, FlushStep DEF Timeout
<1>3. CASE TakeShutdown
  <2>1. CASE batch = <<>>
    <3>1. /\ worker' = "done" /\ stopping /\ chan = <<>> /\ batch' = batch
          /\ conn' = conn /\ table' = table /\ refusals' = refusals /\ failed' = failed
          /\ chan' = chan /\ stopping' = stopping /\ accepted' = accepted
      BY <1>3, <2>1 DEF TakeShutdown, database
    <3>2. TypeOK'
      BY <3>1 DEF Inv, TypeOK
    <3> QED BY <3>1, <3>2 DEF WorkerStep, Inv, NothingLost, BatchBounded, LostIsFailed
  <2>2. CASE batch # <<>>
    <3>1. FlushBatch(batch)
      BY <1>3, <2>2 DEF TakeShutdown
    <3> QED BY <1>3, <3>1, FlushStep DEF TakeShutdown
  <2> QED BY <2>1, <2>2
<1> QED BY <1>1, <1>2, <1>3 DEF WorkerNext

-----------------------------------------------------------------------------
(* The dispatchers.                                                        *)

LEMMA UpdateStep ==
    ASSUME Inv, NEW row \in Rows, Update(row)
    PROVE  Inv' /\ table' = table /\ accepted' = Append(accepted, row)
<1>1. /\ chan \in Seq(Rows) /\ batch \in Seq(Rows) /\ table \in Seq(Rows)
      /\ accepted \in Seq(Rows)
  BY DEF Inv, TypeOK
<1>2. /\ chan' = Append(chan, row) /\ accepted' = Append(accepted, row)
      /\ stopping' = stopping /\ batch' = batch /\ worker' = worker /\ conn' = conn
      /\ table' = table /\ refusals' = refusals /\ failed' = failed /\ ~stopping
      /\ Len(accepted) < MaxUpdates
  BY DEF Update
<1>3. Append(table \o batch \o chan, row) = table \o batch \o Append(chan, row)
  <2>1. \A s, t, u \in Seq(Rows), x \in Rows :
            Append(s \o t \o u, x) = s \o t \o Append(u, x)
    BY AppendLast
  <2> QED BY <1>1, <2>1, Zenon
<1>4. NothingLost'
  BY <1>2, <1>3 DEF Inv, NothingLost
<1>5. Append(chan, row) \in Seq(Rows) /\ Append(accepted, row) \in Seq(Rows)
      /\ Len(Append(accepted, row)) = Len(accepted) + 1
  BY <1>1
<1>6. TypeOK'
  BY <1>2, <1>5, LimitsAssumption DEF Inv, TypeOK
<1> QED BY <1>2, <1>4, <1>6 DEF Inv, BatchBounded, LostIsFailed

LEMMA Initially == Init => Inv
<1> SUFFICES ASSUME Init PROVE Inv
  OBVIOUS
<1>1. <<>> \in Seq(Rows) /\ Len(<<>>) = 0 /\ <<>> \o <<>> \o <<>> = <<>>
  OBVIOUS
<1>2. TypeOK
  <2>1. 0 \in 0..MaxRefusals /\ 0 <= MaxUpdates
    BY LimitsAssumption
  <2>2. chan \in Seq(Rows) /\ batch \in Seq(Rows) /\ table \in Seq(Rows)
        /\ accepted \in Seq(Rows) /\ Len(accepted) <= MaxUpdates
    BY <1>1, <2>1 DEF Init
  <2> QED BY <2>1, <2>2 DEF Init, TypeOK
<1>3. BatchBounded
  BY <1>1, LimitsAssumption DEF Init, BatchBounded
<1> QED BY <1>1, <1>2, <1>3 DEF Init, Inv, NothingLost, LostIsFailed

LEMMA Inductive == Inv /\ [Next]_vars => Inv'
<1> SUFFICES ASSUME Inv, [Next]_vars PROVE Inv'
  OBVIOUS
<1>1. ASSUME NEW row \in Rows, Update(row) PROVE Inv'
  BY <1>1, UpdateStep
<1>2. CASE Shutdown
  BY <1>2 DEF Shutdown, Inv, TypeOK, NothingLost, BatchBounded, LostIsFailed
<1>3. CASE WorkerNext
  BY <1>3, WorkerSteps DEF WorkerStep
<1>4. CASE UNCHANGED vars
  BY <1>4 DEF vars, Inv, TypeOK, NothingLost, BatchBounded, LostIsFailed
<1> QED BY <1>1, <1>2, <1>3, <1>4 DEF Next

\* Inv holds in every reachable state.
THEOREM Invariance == Spec => []Inv
  BY Initially, Inductive, PTL DEF Spec

\* Types of the logging worker, and that it ends with its channel drained.
THEOREM TypeCorrect == Spec => []TypeOK
<1>1. Inv => TypeOK
  BY DEF Inv
<1> QED BY Invariance, <1>1, PTL

\* While the connection stands, no failed insert loses or repeats a row.
THEOREM Conserved == Spec => []NothingLost
<1>1. Inv => NothingLost
  BY DEF Inv
<1> QED BY Invariance, <1>1, PTL

\* The worker's memory only grows past a batch when inserts fail.
THEOREM Bounded == Spec => []BatchBounded
<1>1. Inv => BatchBounded
  BY DEF Inv
<1> QED BY Invariance, <1>1, PTL

\* The worker implements the abstract log: whatever fails, the table is a
\* prefix of the accepted rows and only grows by the rows that come next.
THEOREM Refinement == Spec => Implements
<1>1. Init => Store!Init
  BY DEF Init, Store!Init
<1>2. Inv /\ [Next]_vars => [Store!Next]_<<accepted, table>>
  <2> SUFFICES ASSUME Inv, [Next]_vars PROVE [Store!Next]_<<accepted, table>>
    OBVIOUS
  <2>1. ASSUME NEW row \in Rows, Update(row) PROVE Store!Next
    BY <2>1, UpdateStep DEF Store!Next, Store!Accept
  <2>2. CASE Shutdown
    BY <2>2 DEF Shutdown
  <2>3. CASE WorkerNext
    BY <2>3, WorkerSteps DEF WorkerStep, Store!Next, Store!Store
  <2>4. CASE UNCHANGED vars
    BY <2>4 DEF vars
  <2> QED BY <2>1, <2>2, <2>3, <2>4 DEF Next
<1> QED BY <1>1, <1>2, Invariance, PTL DEF Spec, Implements, Store!Spec

=============================================================================
