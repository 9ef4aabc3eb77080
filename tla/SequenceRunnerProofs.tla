------------------------ MODULE SequenceRunnerProofs ------------------------
(***************************************************************************)
(* Proofs about SequenceRunner for every set of plans, every schedule and  *)
(* every bound.                                                            *)
(***************************************************************************)
EXTENDS SequenceRunner, TLAPS

-----------------------------------------------------------------------------
(* The inductive invariant.                                                *)

\* A run that was not started yet is untouched: its channel is empty.
Unspawned ==
    \A r \in Runs : r > handle =>
        /\ pc[r] = "none" /\ phase[r] = "main" /\ ctrl[r] = <<>>
        /\ elapsed[r] = 0 /\ pauseOffset[r] = 0 /\ pausedFor[r] = 0

\* A thread that waits for a deadline or performs an action has that action.
ActionPending ==
    \A r \in Runs : pc[r] \in {"recv", "perform"} => todo[r] # <<>>

\* pause_offset is the time really spent paused, the current pause excepted.
PausesCounted ==
    \A r \in Runs :
        /\ pc[r] \in {"check", "recv", "perform"} => pausedFor[r] = pauseOffset[r]
        /\ pc[r] = "paused" =>
               /\ pausedAt[r] <= elapsed[r]
               /\ pausedFor[r] = pauseOffset[r] + (elapsed[r] - pausedAt[r])

IInv ==
    /\ TypeOK
    /\ Unspawned
    /\ OnlyHandleActive
    /\ ActionPending
    /\ PausesCounted
    /\ NeverEarly
    /\ NoSilentDisconnect

-----------------------------------------------------------------------------
(* Lemmas about channels.                                                  *)

\* Taking a message leaves every other message in the channel.
LEMMA TailKeeps ==
    ASSUME NEW s \in Seq(Commands), s # <<>>, NEW x, Head(s) # x,
           \E i \in 1..Len(s) : s[i] = x
    PROVE  \E i \in 1..Len(Tail(s)) : Tail(s)[i] = x
<1>1. PICK i \in 1..Len(s) : s[i] = x
  OBVIOUS
<1>2. i # 1
  BY <1>1
<1>3. i - 1 \in 1..Len(Tail(s)) /\ Tail(s)[i - 1] = x
  BY <1>1, <1>2
<1> QED
  BY <1>3

\* Sending adds the message and loses none.
LEMMA AppendKeeps ==
    ASSUME NEW s \in Seq(Commands), NEW c \in Commands
    PROVE  /\ \E i \in 1..Len(Append(s, c)) : Append(s, c)[i] = c
           /\ \A x : (\E i \in 1..Len(s) : s[i] = x)
                     => \E i \in 1..Len(Append(s, c)) : Append(s, c)[i] = x
<1>1. Len(s) + 1 \in 1..Len(Append(s, c)) /\ Append(s, c)[Len(s) + 1] = c
  OBVIOUS
<1>2. \A i \in 1..Len(s) : i \in 1..Len(Append(s, c)) /\ Append(s, c)[i] = s[i]
  OBVIOUS
<1> QED
  BY <1>1, <1>2

-----------------------------------------------------------------------------

\* The initial state satisfies the inductive invariant.
LEMMA InitInv == Init => IInv
<1> SUFFICES ASSUME Init PROVE IInv
  OBVIOUS
<1> USE DEF Init, Runs
<1>1. TypeOK
  BY BoundsAssumption DEF TypeOK, Executing
<1>2. Unspawned /\ ActionPending /\ PausesCounted /\ NeverEarly
  BY DEF Unspawned, ActionPending, PausesCounted, NeverEarly
<1>3. OnlyHandleActive /\ NoSilentDisconnect
  BY DEF OnlyHandleActive, NoSilentDisconnect, Active
<1> QED
  BY <1>1, <1>2, <1>3 DEF IInv

-----------------------------------------------------------------------------
(* What every action does, told once for the proofs below.                 *)

\* A step of a run's thread concerns that run alone, which is alive; it takes
\* at most one message, and a thread that takes Shutdown is about to end.
LEMMA RunStepShape ==
    ASSUME TypeOK, NEW r \in Runs, RunStep(r)
    PROVE  /\ Active(r)
           /\ UNCHANGED <<events, sent, runner, handle, abortTodo, abortDue>>
           /\ \A q \in Runs \ {r} : pc'[q] = pc[q] /\ ctrl'[q] = ctrl[q]
           /\ pc[r] # "ending" => pc'[r] # "none"
           /\ \/ ctrl'[r] = ctrl[r]
              \/ ctrl[r] # <<>> /\ ctrl'[r] = Tail(ctrl[r]) /\ Head(ctrl[r]) # "shutdown"
              \/ pc'[r] \in {"ending", "done"}
<1> USE DEF TypeOK, Executing, Active, Goto, TakeCommand, Received, End, Waiting, StopSignals
<1>1. CASE Overdue(r)
  BY <1>1 DEF Overdue
<1>2. CASE BeginWait(r)
  BY <1>2 DEF BeginWait
<1>3. CASE Timeout(r)
  BY <1>3 DEF Timeout
<1>4. CASE IgnoreCommand(r)
  BY <1>4 DEF IgnoreCommand
<1>5. CASE Pause(r)
  BY <1>5 DEF Pause
<1>6. CASE Resume(r)
  BY <1>6 DEF Resume
<1>7. CASE AbortMain(r)
  BY <1>7 DEF AbortMain
<1>8. CASE AbortAbort(r)
  BY <1>8 DEF AbortAbort
<1>9. CASE StopRun(r)
  BY <1>9 DEF StopRun
<1>10. CASE FinishSchedule(r)
  BY <1>10 DEF FinishSchedule
<1>11. CASE Exit(r)
  BY <1>11 DEF Exit
<1>12. CASE PassAction(r)
  BY <1>12 DEF PassAction
<1>13. CASE EnterHold(r)
  BY <1>13 DEF EnterHold
<1> QED
  BY <1>1, <1>2, <1>3, <1>4, <1>5, <1>6, <1>7, <1>8, <1>9, <1>10, <1>11, <1>12, <1>13 DEF RunStep

\* The runner thread's steps and the operator's.
LEMMA OperatorType ==
    ASSUME TypeOK, NEW e \in Plans \cup Commands, Dispatch(e)
    PROVE  TypeOK'
BY BoundsAssumption DEF TypeOK, Dispatch, runVars

LEMMA ControlSequenceType ==
    ASSUME TypeOK, NEW c \in Commands, ControlSequence(c)
    PROVE  /\ ctrl' \in [Runs -> Seq(Commands)]
           /\ abortDue' \in [Runs -> BOOLEAN]
<1>1. CASE IsSequenceRunning
  <2>1. handle \in Runs
    BY <1>1, BoundsAssumption DEF TypeOK, IsSequenceRunning, Runs
  <2>2. ctrl' = [ctrl EXCEPT ![handle] = Append(ctrl[handle], c)]
    BY <1>1 DEF ControlSequence
  <2>4. ctrl' \in [Runs -> Seq(Commands)]
    BY <2>1, <2>2 DEF TypeOK
  <2>3. abortDue' \in [Runs -> BOOLEAN]
    BY <1>1, <2>1, Zenon DEF TypeOK, ControlSequence
  <2> QED
    BY <2>3, <2>4
<1>2. CASE ~IsSequenceRunning
  BY <1>2 DEF TypeOK, ControlSequence
<1> QED
  BY <1>1, <1>2

LEMMA RunnerType ==
    ASSUME TypeOK, Unspawned, RunnerNext
    PROVE  TypeOK'
<1>1. CASE StartSequence
  <2>1. handle + 1 \in Runs /\ handle + 1 \in 0..MaxRuns /\ Head(events) \in Plans
    BY <1>1, BoundsAssumption DEF TypeOK, StartSequence, RunnerTakes, Runs
  <2>2. MainOf[Head(events)] \in Seq(TimedAction) /\ AbortOf[Head(events)] \in Seq(TimedAction)
    BY <2>1, PlansAssumption
  <2>3. events' \in Seq(Plans \cup Commands) /\ handle' \in 0..MaxRuns
    BY <1>1, <2>1 DEF TypeOK, StartSequence, RunnerTakes, TakeEvent
  <2>4. pc' \in [Runs -> Executing \cup {"none", "ending", "done"}]
    BY <1>1, <2>1 DEF TypeOK, StartSequence, Executing
  <2>5. todo' \in [Runs -> Seq(TimedAction)] /\ abortTodo' \in [Runs -> Seq(TimedAction)]
    BY <1>1, <2>1, <2>2 DEF TypeOK, StartSequence
  <2> QED
    BY <1>1, <2>3, <2>4, <2>5 DEF TypeOK, StartSequence
<1>2. CASE RejectStart
  BY <1>2 DEF TypeOK, RejectStart, RunnerTakes, TakeEvent, runVars
<1>3. CASE Control
  <2>1. Head(events) \in Commands
    BY <1>3 DEF Control, RunnerTakes
  <2>2. ctrl' \in [Runs -> Seq(Commands)] /\ abortDue' \in [Runs -> BOOLEAN]
    BY <1>3, <2>1, ControlSequenceType DEF Control
  <2>3. events' \in Seq(Plans \cup Commands)
    BY <1>3 DEF TypeOK, Control, RunnerTakes, TakeEvent
  <2> QED
    BY <1>3, <2>2, <2>3 DEF TypeOK, Control, runVars
<1>4. CASE Shutdown
  BY <1>4, ControlSequenceType DEF TypeOK, Shutdown, runVars, Commands
<1> QED
  BY <1>1, <1>2, <1>3, <1>4 DEF RunnerNext

\* The pause accounting is what keeps pause_offset within its bound.
LEMMA RunStepType ==
    ASSUME TypeOK, ActionPending, PausesCounted, NEW r \in Runs, RunStep(r)
    PROVE  TypeOK'
<1> USE BoundsAssumption DEF TypeOK, Executing, Goto, TakeCommand, Received, End
<1>1. CASE Overdue(r)
  BY <1>1 DEF Overdue
<1>2. CASE BeginWait(r)
  BY <1>2 DEF BeginWait
<1>3. CASE Timeout(r)
  BY <1>3 DEF Timeout
<1>4. CASE IgnoreCommand(r)
  <2>1. ctrl' \in [Runs -> Seq(Commands)]
    BY <1>4 DEF IgnoreCommand
  <2>2. pc' \in [Runs -> Executing \cup {"none", "ending", "done"}]
    BY <1>4 DEF IgnoreCommand
  <2> QED
    BY <1>4, <2>1, <2>2 DEF IgnoreCommand
<1>5. CASE Pause(r)
  <2>1. ctrl' \in [Runs -> Seq(Commands)]
    BY <1>5 DEF Pause
  <2>2. pc' \in [Runs -> Executing \cup {"none", "ending", "done"}]
    BY <1>5 DEF Pause
  <2>3. pausedAt' \in [Runs -> 0..Horizon]
    BY <1>5 DEF Pause
  <2> QED
    BY <1>5, <2>1, <2>2, <2>3 DEF Pause
<1>6. CASE Resume(r)
  <2>1. NewOffset(r) = pausedFor[r]
    BY <1>6 DEF Resume, PausesCounted, NewOffset
  <2> QED
    BY <1>6, <2>1 DEF Resume
<1>7. CASE AbortMain(r)
  <2>1. ctrl' \in [Runs -> Seq(Commands)]
    BY <1>7 DEF AbortMain
  <2>2. pc' \in [Runs -> Executing \cup {"none", "ending", "done"}]
    BY <1>7 DEF AbortMain
  <2>3. todo' \in [Runs -> Seq(TimedAction)] /\ phase' \in [Runs -> {"main", "abort"}]
    BY <1>7 DEF AbortMain
  <2> QED
    BY <1>7, <2>1, <2>2, <2>3 DEF AbortMain
<1>8. CASE AbortAbort(r)
  <2>1. ctrl' \in [Runs -> Seq(Commands)]
    BY <1>8 DEF AbortAbort
  <2>2. pc' \in [Runs -> Executing \cup {"none", "ending", "done"}]
    BY <1>8 DEF AbortAbort
  <2>3. result' \in [Runs -> {"none", "ok", "aborted", "shutdown"}]
    BY <1>8 DEF AbortAbort
  <2> QED
    BY <1>8, <2>1, <2>2, <2>3 DEF AbortAbort
<1>9. CASE StopRun(r)
  <2>1. ctrl' \in [Runs -> Seq(Commands)]
    BY <1>9 DEF StopRun
  <2>2. pc' \in [Runs -> Executing \cup {"none", "ending", "done"}]
    BY <1>9 DEF StopRun
  <2>3. result' \in [Runs -> {"none", "ok", "aborted", "shutdown"}]
    BY <1>9 DEF StopRun
  <2> QED
    BY <1>9, <2>1, <2>2, <2>3 DEF StopRun
<1>10. CASE FinishSchedule(r)
  BY <1>10 DEF FinishSchedule
<1>11. CASE Exit(r)
  BY <1>11 DEF Exit
<1>12. CASE PassAction(r)
  <2>1. todo' \in [Runs -> Seq(TimedAction)]
    BY <1>12 DEF PassAction, ActionPending
  <2>2. pc' \in [Runs -> Executing \cup {"none", "ending", "done"}]
    BY <1>12 DEF PassAction
  <2> QED
    BY <1>12, <2>1, <2>2 DEF PassAction
<1>13. CASE EnterHold(r)
  <2>1. todo' \in [Runs -> Seq(TimedAction)]
    BY <1>13 DEF EnterHold, ActionPending
  <2>2. pc' \in [Runs -> Executing \cup {"none", "ending", "done"}]
    BY <1>13 DEF EnterHold
  <2>3. pausedAt' \in [Runs -> 0..Horizon]
    BY <1>13 DEF EnterHold
  <2> QED
    BY <1>13, <2>1, <2>2, <2>3 DEF EnterHold
<1> QED
  BY <1>1, <1>2, <1>3, <1>4, <1>5, <1>6, <1>7, <1>8, <1>9, <1>10, <1>11, <1>12, <1>13 DEF RunStep

LEMMA TickType ==
    ASSUME TypeOK, NEW r \in Runs, Tick(r)
    PROVE  TypeOK'
<1>1. elapsed' \in [Runs -> 0..Horizon]
  BY BoundsAssumption DEF TypeOK, Tick
<1>2. pausedFor' \in [Runs -> 0..MaxPause]
  BY BoundsAssumption DEF TypeOK, Tick
<1> QED
  BY <1>1, <1>2 DEF TypeOK, Tick

-----------------------------------------------------------------------------
(* One live sequence, the one the handle controls.                         *)

LEMMA SoleStep ==
    ASSUME TypeOK, Unspawned, OnlyHandleActive, [Next]_vars
    PROVE  Unspawned' /\ OnlyHandleActive'
<1> USE DEF Unspawned, OnlyHandleActive, Active
<1>1. ASSUME NEW e \in Plans \cup Commands, Dispatch(e)
      PROVE  Unspawned' /\ OnlyHandleActive'
  BY <1>1 DEF Dispatch, runVars
<1>2. CASE StartSequence
  <2> DEFINE r == handle + 1
  <2>1. handle \in Nat /\ r \in Runs /\ handle' = r
    BY <1>2, BoundsAssumption DEF TypeOK, StartSequence, Runs
  <2>2. /\ pc' = [pc EXCEPT ![r] = "check"]
        /\ pc \in [Runs -> Executing \cup {"none", "ending", "done"}]
        /\ UNCHANGED <<phase, ctrl, elapsed, pauseOffset, pausedFor>>
    BY <1>2 DEF TypeOK, StartSequence
  <2>3. \A q \in Runs : ~Active(q)
    BY <1>2 DEF StartSequence, IsSequenceRunning, Runs
  <2>4. Unspawned'
    BY <2>1, <2>2 DEF Runs
  <2>5. OnlyHandleActive'
    BY <2>1, <2>2, <2>3
  <2> QED
    BY <2>4, <2>5
<1>3. CASE RejectStart
  BY <1>3 DEF RejectStart, runVars
<1>4. CASE Control
  BY <1>4 DEF TypeOK, Control, ControlSequence, IsSequenceRunning, runVars
<1>5. CASE Shutdown
  BY <1>5 DEF TypeOK, Shutdown, ControlSequence, IsSequenceRunning, runVars
<1>6. ASSUME NEW r \in Runs, RunStep(r)
      PROVE  Unspawned' /\ OnlyHandleActive'
  <2>1. /\ Active(r) /\ UNCHANGED handle
        /\ \A q \in Runs \ {r} : pc'[q] = pc[q] /\ ctrl'[q] = ctrl[q]
    BY <1>6, RunStepShape
  <2>2. \A q \in Runs \ {r} :
           /\ phase'[q] = phase[q] /\ elapsed'[q] = elapsed[q]
           /\ pauseOffset'[q] = pauseOffset[q] /\ pausedFor'[q] = pausedFor[q]
    BY <1>6 DEF TypeOK, RunStep, Overdue, BeginWait, Timeout, IgnoreCommand, Pause,
         Resume, AbortMain, AbortAbort, StopRun, FinishSchedule, Exit, PassAction,
         EnterHold, End
  <2>3. r = handle
    BY <2>1
  <2> QED
    BY <2>1, <2>2, <2>3 DEF TypeOK, Runs
<1>7. ASSUME NEW r \in Runs, Tick(r)
      PROVE  Unspawned' /\ OnlyHandleActive'
  <2>1. r = handle /\ UNCHANGED <<handle, pc, phase, ctrl, pauseOffset>>
    BY <1>7 DEF Tick, Executing
  <2>2. \A q \in Runs \ {r} : elapsed'[q] = elapsed[q] /\ pausedFor'[q] = pausedFor[q]
    BY <1>7 DEF Tick, TypeOK
  <2>3. \A q \in Runs : q > handle => q # r
    BY <2>1 DEF TypeOK, Runs
  <2> QED
    BY <2>1, <2>2, <2>3
<1>8. CASE UNCHANGED vars
  BY <1>8 DEF vars
<1> QED
  BY <1>1, <1>2, <1>3, <1>4, <1>5, <1>6, <1>7, <1>8 DEF Next, RunnerNext

\* The timestamp of a run's next action is a number of ticks.
LEMMA NextTimestamp ==
    ASSUME TypeOK, NEW r \in Runs, todo[r] # <<>>
    PROVE  Head(todo[r]).ts \in Nat
<1>1. todo[r] \in Seq(TimedAction)
  BY DEF TypeOK
<1>2. Head(todo[r]) \in TimedAction
  BY <1>1
<1> QED
  BY <1>2 DEF TimedAction

-----------------------------------------------------------------------------
(* The pause accounting, and with it the earliest time of an action.       *)

Timing == ActionPending /\ PausesCounted /\ NeverEarly

\* Whatever leaves the threads' own variables alone leaves their timing alone.
LEMMA TimingStutter ==
    ASSUME Timing, UNCHANGED runVars
    PROVE  Timing'
BY DEF Timing, ActionPending, PausesCounted, NeverEarly, runVars

LEMMA TimingStart ==
    ASSUME TypeOK, Unspawned, Timing, StartSequence
    PROVE  Timing'
<1> DEFINE r == handle + 1
<1>1. r \in Runs /\ r > handle
  BY BoundsAssumption DEF TypeOK, StartSequence, Runs
<1>2. pausedFor[r] = 0 /\ pauseOffset[r] = 0
  BY <1>1 DEF Unspawned
<1>3. /\ pc' = [pc EXCEPT ![r] = "check"]
      /\ \A q \in Runs \ {r} : todo'[q] = todo[q]
      /\ UNCHANGED <<elapsed, pauseOffset, pausedAt, pausedFor>>
  BY <1>1 DEF TypeOK, StartSequence
<1>4. pc'[r] = "check" /\ \A q \in Runs \ {r} : pc'[q] = pc[q]
  BY <1>1, <1>3 DEF TypeOK
<1> QED
  BY <1>2, <1>3, <1>4 DEF Timing, ActionPending, PausesCounted, NeverEarly

LEMMA TimingRunStep ==
    ASSUME TypeOK, Timing, NEW r \in Runs, RunStep(r)
    PROVE  Timing'
<1>0. \A q \in Runs \ {r} :
        /\ pc'[q] = pc[q] /\ todo'[q] = todo[q] /\ elapsed'[q] = elapsed[q]
        /\ pauseOffset'[q] = pauseOffset[q] /\ pausedFor'[q] = pausedFor[q]
        /\ pausedAt'[q] = pausedAt[q]
  BY DEF TypeOK, RunStep, Overdue, BeginWait, Timeout, IgnoreCommand, Pause,
       Resume, AbortMain, AbortAbort, StopRun, FinishSchedule, Exit, PassAction,
       EnterHold, End, Goto
<1> DEFINE ThisRun ==
        /\ pc'[r] \in {"recv", "perform"} => todo'[r] # <<>>
        /\ pc'[r] \in {"check", "recv", "perform"} => pausedFor'[r] = pauseOffset'[r]
        /\ pc'[r] = "paused" =>
               /\ pausedAt'[r] <= elapsed'[r]
               /\ pausedFor'[r] = pauseOffset'[r] + (elapsed'[r] - pausedAt'[r])
        /\ pc'[r] = "perform" => elapsed'[r] >= Head(todo'[r]).ts + pausedFor'[r]
<1> SUFFICES ThisRun
  BY <1>0 DEF Timing, ActionPending, PausesCounted, NeverEarly
<1>00. /\ pc[r] \in {"recv", "perform"} => todo[r] # <<>>
       /\ pc[r] \in {"check", "recv", "perform"} => pausedFor[r] = pauseOffset[r]
       /\ pc[r] = "paused" =>
               /\ pausedAt[r] <= elapsed[r]
               /\ pausedFor[r] = pauseOffset[r] + (elapsed[r] - pausedAt[r])
       /\ pausedFor[r] \in Nat /\ pauseOffset[r] \in Nat
       /\ elapsed[r] \in Nat /\ pausedAt[r] \in Nat
  BY DEF TypeOK, Timing, ActionPending, PausesCounted
<1>01. todo[r] # <<>> => Head(todo[r]).ts \in Nat
  BY NextTimestamp
<1> USE <1>00 DEF TypeOK, Executing, Goto
<1>1. CASE Overdue(r)
  BY <1>1, <1>01 DEF Overdue, Deadline
<1>2. CASE BeginWait(r)
  BY <1>2 DEF BeginWait
<1>3. CASE Timeout(r)
  BY <1>3, <1>01 DEF Timeout, Deadline
<1>4. CASE IgnoreCommand(r)
  BY <1>4 DEF IgnoreCommand
<1>5. CASE Pause(r)
  BY <1>5 DEF Pause
<1>6. CASE Resume(r)
  BY <1>6 DEF Resume, NewOffset
<1>7. CASE AbortMain(r)
  BY <1>7 DEF AbortMain
<1>8. CASE AbortAbort(r)
  BY <1>8 DEF AbortAbort, End
<1>9. CASE StopRun(r)
  BY <1>9 DEF StopRun, End
<1>10. CASE FinishSchedule(r)
  BY <1>10 DEF FinishSchedule, End
<1>11. CASE Exit(r)
  BY <1>11 DEF Exit
<1>12. CASE PassAction(r)
  BY <1>12 DEF PassAction
<1>13. CASE EnterHold(r)
  BY <1>13 DEF EnterHold
<1> QED
  BY <1>1, <1>2, <1>3, <1>4, <1>5, <1>6, <1>7, <1>8, <1>9, <1>10, <1>11, <1>12, <1>13 DEF RunStep

\* Time only makes an action later, and is counted twice while paused.
LEMMA TimingTick ==
    ASSUME TypeOK, Timing, NEW r \in Runs, Tick(r)
    PROVE  Timing'
<1>1. \A q \in Runs \ {r} : elapsed'[q] = elapsed[q] /\ pausedFor'[q] = pausedFor[q]
  BY DEF TypeOK, Tick
<1>2. /\ elapsed'[r] = elapsed[r] + 1
      /\ pausedFor'[r] = IF pc[r] = "paused" THEN pausedFor[r] + 1 ELSE pausedFor[r]
      /\ UNCHANGED <<pc, todo, pauseOffset, pausedAt>>
  BY DEF TypeOK, Tick
<1>3. /\ elapsed[r] \in Nat /\ pausedFor[r] \in Nat
      /\ pauseOffset[r] \in Nat /\ pausedAt[r] \in Nat
  BY DEF TypeOK
<1>4. ActionPending'
  BY <1>2 DEF Timing, ActionPending
<1>5. PausesCounted'
  <2>1. pc[r] = "paused" =>
           /\ pausedAt[r] <= elapsed[r] + 1
           /\ pausedFor[r] + 1 = pauseOffset[r] + (elapsed[r] + 1 - pausedAt[r])
    BY <1>3 DEF Timing, PausesCounted
  <2>2. pc[r] \in {"check", "recv", "perform"} => pausedFor[r] = pauseOffset[r]
    BY DEF Timing, PausesCounted
  <2>3. /\ pc'[r] \in {"check", "recv", "perform"} => pausedFor'[r] = pauseOffset'[r]
        /\ pc'[r] = "paused" =>
               /\ pausedAt'[r] <= elapsed'[r]
               /\ pausedFor'[r] = pauseOffset'[r] + (elapsed'[r] - pausedAt'[r])
    <3>1. /\ pc'[r] = pc[r] /\ pauseOffset'[r] = pauseOffset[r]
          /\ pausedAt'[r] = pausedAt[r]
      BY <1>2
    <3> QED
      BY <1>2, <1>3, <2>1, <2>2, <3>1
  <2> QED
    BY <1>1, <1>2, <2>3 DEF Timing, PausesCounted
<1>6. NeverEarly'
  BY <1>1, <1>2, <1>3, NextTimestamp DEF Timing, NeverEarly
<1> QED
  BY <1>4, <1>5, <1>6 DEF Timing

-----------------------------------------------------------------------------
(* No thread is left without its sender and without a Shutdown to read.    *)

LEMMA ControlKeepsChannels ==
    ASSUME TypeOK, NEW c \in Commands, ControlSequence(c), NEW r \in Runs,
           Has(r, "shutdown")
    PROVE  Has(r, "shutdown")'
<1>1. CASE IsSequenceRunning /\ r = handle
  <2>1. ctrl[r] \in Seq(Commands) /\ ctrl'[r] = Append(ctrl[r], c)
    BY <1>1 DEF TypeOK, ControlSequence
  <2> QED
    BY <2>1, AppendKeeps DEF Has
<1>2. CASE ~(IsSequenceRunning /\ r = handle)
  <2>1. ctrl'[r] = ctrl[r]
    BY <1>2 DEF TypeOK, ControlSequence
  <2> QED
    BY <2>1 DEF Has
<1> QED
  BY <1>1, <1>2

LEMMA DisconnectStep ==
    ASSUME TypeOK, OnlyHandleActive, NoSilentDisconnect, [Next]_vars
    PROVE  NoSilentDisconnect'
<1>1. ASSUME NEW e \in Plans \cup Commands, Dispatch(e)
      PROVE  NoSilentDisconnect'
  BY <1>1 DEF Dispatch, runVars, NoSilentDisconnect, Active, SenderAlive, Has
<1>2. CASE StartSequence
  <2>1. runner' = "run" /\ handle' = handle + 1
    BY <1>2 DEF StartSequence, RunnerTakes
  <2>2. \A q \in Runs : Active(q)' => q = handle + 1
    BY <1>2 DEF TypeOK, OnlyHandleActive, Active, StartSequence, IsSequenceRunning, Runs
  <2> QED
    BY <2>1, <2>2 DEF NoSilentDisconnect, SenderAlive
<1>3. CASE RejectStart
  BY <1>3 DEF RejectStart, runVars, NoSilentDisconnect, Active, SenderAlive, Has
<1>4. CASE Control
  <2>1. runner = "run" /\ UNCHANGED <<runner, handle, pc>>
    BY <1>4 DEF Control, RunnerTakes, runVars
  <2> QED
    BY <2>1 DEF NoSilentDisconnect, OnlyHandleActive, Active, SenderAlive
<1>5. CASE Shutdown
  <2>1. UNCHANGED <<handle, pc>> /\ ControlSequence("shutdown")
    BY <1>5 DEF Shutdown, runVars
  <2>2. ASSUME NEW q \in Runs, Active(q)
        PROVE  Has(q, "shutdown")'
    <3>1. q = handle /\ IsSequenceRunning
      BY <2>2, BoundsAssumption DEF OnlyHandleActive, IsSequenceRunning, Runs
    <3>2. ctrl[q] \in Seq(Commands) /\ ctrl'[q] = Append(ctrl[q], "shutdown")
      BY <2>1, <3>1 DEF TypeOK, ControlSequence
    <3>3. \E i \in 1..Len(ctrl'[q]) : ctrl'[q][i] = "shutdown"
      BY <3>2, AppendKeeps DEF Commands
    <3> QED
      BY <3>3 DEF Has
  <2> QED
    BY <2>1, <2>2 DEF NoSilentDisconnect, Active
<1>6. ASSUME NEW r \in Runs, RunStep(r)
      PROVE  NoSilentDisconnect'
  <2>1. /\ Active(r) /\ UNCHANGED <<runner, handle>>
        /\ \A q \in Runs \ {r} : pc'[q] = pc[q] /\ ctrl'[q] = ctrl[q]
    BY <1>6, RunStepShape
  <2>2. ASSUME Active(r)', ~SenderAlive(r)', pc'[r] # "ending"
        PROVE  Has(r, "shutdown")'
    <3>1. pc[r] # "ending"
      BY <1>6, <2>2 DEF RunStep, Overdue, BeginWait, Timeout, IgnoreCommand, Pause,
           Resume, AbortMain, AbortAbort, StopRun, FinishSchedule, Exit, PassAction,
           EnterHold, Active, Goto, Waiting, TypeOK
    <3>2. Has(r, "shutdown")
      BY <2>1, <2>2, <3>1 DEF NoSilentDisconnect, SenderAlive
    <3>3. CASE ctrl'[r] = ctrl[r]
      BY <3>2, <3>3 DEF Has
    <3>4. CASE /\ ctrl[r] # <<>> /\ ctrl'[r] = Tail(ctrl[r])
               /\ Head(ctrl[r]) # "shutdown"
      <4>1. ctrl[r] \in Seq(Commands)
        BY DEF TypeOK
      <4>2. \E i \in 1..Len(ctrl[r]) : ctrl[r][i] = "shutdown"
        BY <3>2 DEF Has
      <4>3. \E i \in 1..Len(Tail(ctrl[r])) : Tail(ctrl[r])[i] = "shutdown"
        BY <3>4, <4>1, <4>2, TailKeeps
      <4> QED
        BY <3>4, <4>3 DEF Has
    <3> QED
      BY <1>6, <2>2, <3>3, <3>4, RunStepShape DEF Active
  <2> QED
    BY <2>1, <2>2 DEF NoSilentDisconnect, Active, SenderAlive, Has
<1>7. ASSUME NEW r \in Runs, Tick(r)
      PROVE  NoSilentDisconnect'
  BY <1>7 DEF Tick, NoSilentDisconnect, Active, SenderAlive, Has
<1>8. CASE UNCHANGED vars
  BY <1>8 DEF vars, NoSilentDisconnect, Active, SenderAlive, Has
<1> QED
  BY <1>1, <1>2, <1>3, <1>4, <1>5, <1>6, <1>7, <1>8 DEF Next, RunnerNext

-----------------------------------------------------------------------------
(* The inductive step and the theorems.                                    *)

LEMMA NextInv == IInv /\ [Next]_vars => IInv'
<1> SUFFICES ASSUME IInv, [Next]_vars PROVE IInv'
  OBVIOUS
<1> USE DEF IInv
<1>1. (Unspawned /\ OnlyHandleActive /\ NoSilentDisconnect)'
  BY SoleStep, DisconnectStep
<1>2. Timing
  BY DEF Timing
<1>3. ASSUME NEW e \in Plans \cup Commands, Dispatch(e)
      PROVE  TypeOK' /\ Timing'
  BY <1>2, <1>3, OperatorType, TimingStutter DEF Dispatch
<1>4. ASSUME RunnerNext
      PROVE  TypeOK' /\ Timing'
  <2>1. CASE StartSequence
    BY <1>2, <1>4, <2>1, RunnerType, TimingStart
  <2>2. CASE ~StartSequence
    BY <1>2, <1>4, <2>2, RunnerType, TimingStutter
    DEF RunnerNext, RejectStart, Control, Shutdown
  <2> QED
    BY <2>1, <2>2
<1>5. ASSUME NEW r \in Runs, RunStep(r)
      PROVE  TypeOK' /\ Timing'
  BY <1>2, <1>5, RunStepType, TimingRunStep
<1>6. ASSUME NEW r \in Runs, Tick(r)
      PROVE  TypeOK' /\ Timing'
  BY <1>2, <1>6, TickType, TimingTick
<1>7. ASSUME UNCHANGED vars
      PROVE  TypeOK' /\ Timing'
  <2>1. TypeOK'
    BY <1>7 DEF vars, TypeOK
  <2>2. Timing'
    BY <1>2, <1>7, TimingStutter DEF vars, runVars
  <2> QED
    BY <2>1, <2>2
<1>8. TypeOK' /\ Timing'
  BY <1>3, <1>4, <1>5, <1>6, <1>7 DEF Next
<1> QED
  BY <1>1, <1>8 DEF Timing

\* The inductive invariant holds in every reachable state.
THEOREM Invariance == Spec => []IInv
<1> QED
  BY InitInv, NextInv, PTL DEF Spec

\* Types, and with them the bound on every pause offset.
THEOREM TypeCorrect == Spec => []TypeOK
<1>1. IInv => TypeOK
  BY DEF IInv
<1> QED
  BY <1>1, Invariance, PTL

\* At most one sequence thread is alive and the handle controls it, for any
\* number of sequences and any order of starts, commands and thread steps.
THEOREM SoleSequence == Spec => []OnlyHandleActive
<1>1. IInv => OnlyHandleActive
  BY DEF IInv
<1> QED
  BY <1>1, Invariance, PTL

\* No action of any schedule is performed before its timestamp shifted by the
\* time spent paused, whatever the pauses.
THEOREM Punctual == Spec => []NeverEarly
<1>1. IInv => NeverEarly
  BY DEF IInv
<1> QED
  BY <1>1, Invariance, PTL

\* A sequence thread never loses its sender without a Shutdown to read first.
THEOREM AlwaysTold == Spec => []NoSilentDisconnect
<1>1. IInv => NoSilentDisconnect
  BY DEF IInv
<1> QED
  BY <1>1, Invariance, PTL

-----------------------------------------------------------------------------
(* The runner implements SequencePromise.                                  *)

StageOf == [r \in Runs |-> Stage(r)]
ActiveOf == [r \in Runs |-> elapsed[r] - pausedFor[r]]
AskedOf == [r \in Runs |-> Has(r, "abort")]

\* What the operator sees is unchanged.
Unseen == UNCHANGED <<runner, StageOf, todo, abortTodo, ActiveOf, AskedOf>>

\* A Shutdown in a channel says that the runner thread is gone.
StopTold == \A r \in Runs : Has(r, "shutdown") => runner = "done"

\* A message sent, or taken, is the only one that comes, or goes.
LEMMA OnlyAppended ==
    ASSUME NEW s \in Seq(Commands), NEW c \in Commands, NEW x, x # c
    PROVE  (\E i \in 1..Len(Append(s, c)) : Append(s, c)[i] = x)
               <=> (\E i \in 1..Len(s) : s[i] = x)
<1>1. \A i \in 1..Len(s) : Append(s, c)[i] = s[i] /\ i \in 1..Len(Append(s, c))
  OBVIOUS
<1>2. Len(Append(s, c)) = Len(s) + 1 /\ Append(s, c)[Len(s) + 1] = c
  OBVIOUS
<1>3. \A i \in 1..Len(Append(s, c)) : i \in 1..Len(s) \/ i = Len(s) + 1
  BY <1>2
<1> QED BY <1>1, <1>2, <1>3

LEMMA OnlyTaken ==
    ASSUME NEW s \in Seq(Commands), s # <<>>, NEW x
    PROVE  /\ (\E i \in 1..Len(Tail(s)) : Tail(s)[i] = x) => (\E i \in 1..Len(s) : s[i] = x)
           /\ Head(s) # x => ((\E i \in 1..Len(Tail(s)) : Tail(s)[i] = x)
                                 <=> (\E i \in 1..Len(s) : s[i] = x))
           /\ Head(s) = x => \E i \in 1..Len(s) : s[i] = x
<1>1. \A i \in 1..Len(Tail(s)) : i + 1 \in 1..Len(s) /\ Tail(s)[i] = s[i + 1]
  OBVIOUS
<1>2. 1 \in 1..Len(s) /\ s[1] = Head(s)
  OBVIOUS
<1> QED BY <1>1, <1>2, TailKeeps

LEMMA AppendAsked ==
    ASSUME TypeOK, NEW c \in Commands, NEW q \in Runs,
           ctrl' = [ctrl EXCEPT ![q] = Append(@, c)]
    PROVE  /\ c # "abort" => AskedOf' = AskedOf
           /\ c = "abort" => AskedOf' = [AskedOf EXCEPT ![q] = TRUE]
           /\ c # "shutdown" => \A r \in Runs : Has(r, "shutdown")' <=> Has(r, "shutdown")
<1>1. /\ \A r \in Runs \ {q} : ctrl'[r] = ctrl[r]
      /\ ctrl[q] \in Seq(Commands) /\ ctrl'[q] = Append(ctrl[q], c)
  BY DEF TypeOK
<1>2. \A r \in Runs \ {q} : \A x : Has(r, x)' <=> Has(r, x)
  BY <1>1 DEF Has
<1>3. \A x : x # c => (Has(q, x)' <=> Has(q, x))
  BY <1>1, OnlyAppended DEF Has
<1>4. Has(q, c)'
  BY <1>1, AppendKeeps DEF Has
<1>5. c # "abort" => AskedOf' = AskedOf
  <2>1. c # "abort" => \A r \in Runs : Has(r, "abort")' <=> Has(r, "abort")
    BY <1>2, <1>3
  <2>2. \A r \in Runs : Has(r, "abort") \in BOOLEAN /\ Has(r, "abort")' \in BOOLEAN
    BY DEF Has
  <2> QED BY <2>1, <2>2, Zenon DEF AskedOf
<1>6. c = "abort" => AskedOf' = [AskedOf EXCEPT ![q] = TRUE]
  <2> SUFFICES ASSUME c = "abort" PROVE AskedOf' = [AskedOf EXCEPT ![q] = TRUE]
    OBVIOUS
  <2>1. \A r \in Runs : Has(r, "abort") \in BOOLEAN /\ Has(r, "abort")' \in BOOLEAN
    BY DEF Has
  <2>2. \A r \in Runs : Has(r, "abort")' = (IF r = q THEN TRUE ELSE Has(r, "abort"))
    BY <1>2, <1>4, <2>1
  <2>3. AskedOf' = [r \in Runs |-> Has(r, "abort")']
    BY DEF AskedOf
  <2>4. [AskedOf EXCEPT ![q] = TRUE] = [r \in Runs |-> IF r = q THEN TRUE ELSE Has(r, "abort")]
    BY Zenon DEF AskedOf
  <2> QED BY <2>2, <2>3, <2>4, Zenon
<1>7. c # "shutdown" => \A r \in Runs : Has(r, "shutdown")' <=> Has(r, "shutdown")
  BY <1>2, <1>3
<1> QED BY <1>5, <1>6, <1>7

LEMMA TakeAsked ==
    ASSUME TypeOK, NEW q \in Runs, TakeCommand(q), ctrl[q] # <<>>
    PROVE  /\ Head(ctrl[q]) # "abort" => AskedOf' = AskedOf
           /\ Head(ctrl[q]) = "abort" =>
                AskedOf[q] /\ \E again \in BOOLEAN : AskedOf' = [AskedOf EXCEPT ![q] = again]
           /\ \A r \in Runs : Has(r, "shutdown")' => Has(r, "shutdown")
           /\ Head(ctrl[q]) = "shutdown" => Has(q, "shutdown")
<1>1. /\ \A r \in Runs \ {q} : ctrl'[r] = ctrl[r]
      /\ ctrl[q] \in Seq(Commands) /\ ctrl'[q] = Tail(ctrl[q])
  BY DEF TypeOK, TakeCommand
<1>2. \A r \in Runs \ {q} : \A x : Has(r, x)' <=> Has(r, x)
  BY <1>1 DEF Has
<1>3. \A x : (Has(q, x)' => Has(q, x)) /\ (Head(ctrl[q]) # x => (Has(q, x)' <=> Has(q, x)))
              /\ (Head(ctrl[q]) = x => Has(q, x))
  BY <1>1, OnlyTaken DEF Has
<1>4. \A r \in Runs : Has(r, "abort") \in BOOLEAN /\ Has(r, "abort")' \in BOOLEAN
  BY DEF Has
<1>5. Head(ctrl[q]) # "abort" => AskedOf' = AskedOf
  <2>1. Head(ctrl[q]) # "abort" => \A r \in Runs : Has(r, "abort")' <=> Has(r, "abort")
    BY <1>2, <1>3
  <2> QED BY <1>4, <2>1, Zenon DEF AskedOf
<1>6. Head(ctrl[q]) = "abort" =>
        AskedOf[q] /\ \E again \in BOOLEAN : AskedOf' = [AskedOf EXCEPT ![q] = again]
  <2> SUFFICES ASSUME Head(ctrl[q]) = "abort"
               PROVE  AskedOf[q] /\ AskedOf' = [AskedOf EXCEPT ![q] = Has(q, "abort")']
    BY <1>4
  <2>1. AskedOf[q]
    BY <1>3 DEF AskedOf
  <2>2. \A r \in Runs : Has(r, "abort")' = (IF r = q THEN Has(q, "abort")' ELSE Has(r, "abort"))
    BY <1>2, <1>4
  <2>3. AskedOf' = [r \in Runs |-> Has(r, "abort")']
    BY DEF AskedOf
  <2>4. [AskedOf EXCEPT ![q] = Has(q, "abort")'] =
          [r \in Runs |-> IF r = q THEN Has(q, "abort")' ELSE Has(r, "abort")]
    BY Zenon DEF AskedOf
  <2> QED BY <2>1, <2>2, <2>3, <2>4, Zenon
<1> QED BY <1>2, <1>3, <1>5, <1>6

LEMMA StopToldStep ==
    ASSUME IInv, StopTold, [Next]_vars
    PROVE  StopTold'
<1> USE DEF IInv
<1>1. ASSUME UNCHANGED <<ctrl, runner>>
      PROVE  StopTold'
  BY <1>1 DEF StopTold, Has
<1>2. ASSUME Control
      PROVE  StopTold'
  <2>1. Head(events) \in Commands \ {"shutdown"} /\ UNCHANGED runner
    BY <1>2 DEF Control, RunnerTakes
  <2>2. CASE IsSequenceRunning
    <3>1. handle \in Runs
      BY <2>2, BoundsAssumption DEF IsSequenceRunning, TypeOK, Runs
    <3>3. ctrl' = [ctrl EXCEPT ![handle] = Append(@, Head(events))]
      BY <1>2, <2>2 DEF Control, ControlSequence
    <3>2. \A r \in Runs : Has(r, "shutdown")' <=> Has(r, "shutdown")
      BY <2>1, <3>1, <3>3, AppendAsked
    <3> QED BY <2>1, <3>2 DEF StopTold
  <2>3. CASE ~IsSequenceRunning
    BY <1>1, <1>2, <2>1, <2>3 DEF Control, ControlSequence
  <2> QED BY <2>2, <2>3
<1>3. CASE Shutdown
  BY <1>3 DEF Shutdown, StopTold
<1>4. ASSUME NEW r \in Runs, RunStep(r)
      PROVE  StopTold'
  <2>1. UNCHANGED ctrl \/ TakeCommand(r)
    BY <1>4 DEF RunStep, Overdue, BeginWait, Timeout, IgnoreCommand, Pause, Resume,
         AbortMain, AbortAbort, StopRun, FinishSchedule, Exit, PassAction, EnterHold
  <2>2. UNCHANGED runner
    BY <1>4, RunStepShape
  <2>3. CASE TakeCommand(r) /\ ctrl[r] # <<>>
    BY <2>2, <2>3, TakeAsked DEF StopTold
  <2>4. CASE TakeCommand(r) /\ ctrl[r] = <<>>
    BY <1>1, <2>2, <2>4 DEF TakeCommand, TypeOK
  <2> QED BY <1>1, <2>1, <2>2, <2>3, <2>4
<1> QED
  BY <1>1, <1>2, <1>3, <1>4
  DEF Next, RunnerNext, Dispatch, StartSequence, RejectStart, RunnerTakes, Tick, vars

\* A step of one thread moves no other run to another stage.
LEMMA OneStage ==
    ASSUME NEW r \in Runs,
           \A q \in Runs \ {r} : pc'[q] = pc[q] /\ phase'[q] = phase[q]
    PROVE  StageOf' = [StageOf EXCEPT ![r] = Stage(r)']
<1>1. \A q \in Runs \ {r} : Stage(q)' = Stage(q)
  BY DEF Stage
<1> QED BY <1>1 DEF StageOf

\* The steps of a run's thread.
LEMMA ThreadSimulates ==
    ASSUME IInv, StopTold, NEW r \in Runs, RunStep(r)
    PROVE  Unseen \/ Promise!Next
<1> USE DEF IInv
<1>1. /\ \A q \in Runs \ {r} : pc'[q] = pc[q] /\ phase'[q] = phase[q]
      /\ UNCHANGED <<runner, abortTodo>>
  BY DEF TypeOK, RunStep, Overdue, BeginWait, Timeout, IgnoreCommand, Pause,
       Resume, AbortMain, AbortAbort, StopRun, FinishSchedule, Exit, PassAction,
       EnterHold, End, Goto
<1>2. StageOf' = [StageOf EXCEPT ![r] = Stage(r)']
  BY <1>1, OneStage
<1>3. StageOf[r] = Stage(r) /\ ActiveOf[r] = elapsed[r] - pausedFor[r]
      /\ AskedOf[r] = Has(r, "abort")
  BY DEF StageOf, ActiveOf, AskedOf
<1>4. Stage(r)' = Stage(r) => UNCHANGED StageOf
  BY <1>2, <1>3 DEF StageOf
<1>5. UNCHANGED <<elapsed, pausedFor>> => UNCHANGED ActiveOf
  BY DEF ActiveOf
<1>6. UNCHANGED ctrl => UNCHANGED AskedOf
  BY DEF AskedOf, Has
<1>7. /\ pc[r] \in Waiting \cup {"check", "perform"} => Stage(r) = phase[r] /\ phase[r] \in {"main", "abort"}
      /\ pc'[r] \in Waiting \cup {"check", "perform"} => Stage(r)' = phase'[r]
      /\ pc[r] \in {"ending", "done"} => Stage(r) = "over"
      /\ pc'[r] \in {"ending", "done"} => Stage(r)' = "over"
  BY DEF Stage, Waiting, TypeOK
<1>8. ASSUME UNCHANGED <<todo, elapsed, pausedFor, phase>>,
             pc[r] \in Waiting \cup {"check", "perform"}, pc'[r] \in Waiting \cup {"check", "perform"},
             UNCHANGED ctrl \/ (TakeCommand(r) /\ ctrl[r] # <<>> /\ Head(ctrl[r]) # "abort")
      PROVE  Unseen
  <2>1. UNCHANGED AskedOf
    BY <1>6, <1>8, TakeAsked
  <2> QED BY <1>1, <1>4, <1>5, <1>7, <1>8, <2>1 DEF Unseen
<1>9. CASE Overdue(r) \/ BeginWait(r) \/ Timeout(r)
  BY <1>8, <1>9 DEF Overdue, BeginWait, Timeout, Goto, Waiting, TypeOK
<1>10. CASE IgnoreCommand(r) \/ Pause(r) \/ Resume(r)
  <2>1. TakeCommand(r) /\ ctrl[r] # <<>> /\ Head(ctrl[r]) # "abort"
    BY <1>10 DEF IgnoreCommand, Pause, Resume, Received
  <2>2. /\ UNCHANGED <<todo, elapsed, pausedFor, phase>>
        /\ pc[r] \in Waiting \cup {"check", "perform"}
        /\ pc'[r] \in Waiting \cup {"check", "perform"}
    BY <1>10 DEF IgnoreCommand, Pause, Resume, Goto, Waiting, TypeOK
  <2> QED BY <1>8, <2>1, <2>2
<1>11. CASE Exit(r)
  <2>1. pc[r] = "ending" /\ pc'[r] = "done" /\ UNCHANGED <<todo, elapsed, pausedFor, ctrl>>
    BY <1>11 DEF Exit, Goto, TypeOK
  <2> QED BY <1>1, <1>4, <1>5, <1>6, <1>7, <2>1 DEF Unseen
<1>12. CASE PassAction(r) \/ EnterHold(r)
  <2>1. /\ pc[r] = "perform" /\ pc'[r] \in Waiting \cup {"check", "perform"}
        /\ todo' = [todo EXCEPT ![r] = Tail(@)]
        /\ UNCHANGED <<elapsed, pausedFor, ctrl, phase>>
    BY <1>12 DEF PassAction, EnterHold, Goto, Waiting, TypeOK
  <2>2. todo[r] # <<>> /\ ActiveOf[r] >= Head(todo[r]).ts
    <3>1. todo[r] # <<>> /\ elapsed[r] >= Head(todo[r]).ts + pausedFor[r]
      BY <2>1 DEF NeverEarly
    <3>2. elapsed[r] \in Nat /\ pausedFor[r] \in Nat /\ Head(todo[r]).ts \in Nat
      BY <3>1, NextTimestamp DEF TypeOK
    <3> QED BY <1>3, <3>1, <3>2
  <2>3. UNCHANGED <<runner, StageOf, abortTodo, ActiveOf, AskedOf>>
    BY <1>1, <1>4, <1>5, <1>6, <1>7, <2>1
  <2>4. StageOf[r] \in {"main", "abort"}
    BY <1>3, <1>7, <2>1
  <2>5. Promise!Perform(r)
    BY <2>1, <2>2, <2>3, <2>4
    DEF Promise!Perform, Promise!Live, StageOf, ActiveOf, AskedOf
  <2> QED BY <2>5 DEF Promise!Next
<1>13. CASE FinishSchedule(r)
  <2>1. /\ pc[r] = "check" /\ pc'[r] = "ending" /\ todo[r] = <<>>
        /\ UNCHANGED <<todo, elapsed, pausedFor, ctrl>>
    BY <1>13 DEF FinishSchedule, End, Goto, TypeOK
  <2>2. UNCHANGED <<runner, abortTodo, ActiveOf, AskedOf>>
    BY <1>1, <1>5, <1>6, <2>1
  <2>3. StageOf[r] \in {"main", "abort"} /\ StageOf' = [StageOf EXCEPT ![r] = "over"]
    BY <1>2, <1>3, <1>7, <2>1
  <2>4. Promise!Complete(r)
    BY <2>1, <2>2, <2>3
    DEF Promise!Complete, Promise!End, Promise!Live, StageOf, ActiveOf, AskedOf
  <2> QED BY <2>4 DEF Promise!Next
<1>14. CASE StopRun(r)
  <2>1. /\ pc[r] \in Waiting /\ pc'[r] = "ending" /\ TakeCommand(r)
        /\ UNCHANGED <<todo, elapsed, pausedFor>>
    BY <1>14 DEF StopRun, End, Goto, TypeOK
  <2>2. runner = "done" /\ UNCHANGED AskedOf
    <3>1. CASE ctrl[r] # <<>>
      <4>1. Head(ctrl[r]) = "shutdown"
        <5>1. Head(ctrl[r]) \in Commands
          BY <3>1 DEF TypeOK
        <5> QED BY <1>14, <3>1, <5>1 DEF StopRun, Received, StopSignals, Commands
      <4> QED BY <2>1, <3>1, <4>1, TakeAsked DEF StopTold
    <3>2. CASE ctrl[r] = <<>>
      <4>1. UNCHANGED ctrl
        BY <2>1, <3>2 DEF TakeCommand, TypeOK
      <4>2. runner # "run"
        BY <1>14, <2>1, <3>2
        DEF StopRun, Received, StopSignals, SenderAlive, OnlyHandleActive, Active, Waiting
      <4> QED BY <1>6, <4>1, <4>2 DEF TypeOK
    <3> QED BY <3>1, <3>2
  <2>3. UNCHANGED <<runner, abortTodo, ActiveOf, AskedOf>>
    BY <1>1, <1>5, <2>1, <2>2
  <2>4. StageOf[r] \in {"main", "abort"} /\ StageOf' = [StageOf EXCEPT ![r] = "over"]
    BY <1>2, <1>3, <1>7, <2>1
  <2>5. Promise!CutShort(r)
    BY <2>1, <2>2, <2>3, <2>4
    DEF Promise!CutShort, Promise!End, Promise!Live, StageOf, ActiveOf, AskedOf
  <2> QED BY <2>5 DEF Promise!Next
<1>15. CASE AbortAbort(r)
  <2>1. /\ pc[r] \in Waiting /\ pc'[r] = "ending" /\ TakeCommand(r) /\ phase[r] = "abort"
        /\ UNCHANGED <<todo, elapsed, pausedFor>>
    BY <1>15 DEF AbortAbort, End, Goto, TypeOK
  <2>2. AskedOf[r] /\ \E again \in BOOLEAN : AskedOf' = [AskedOf EXCEPT ![r] = again]
    BY <1>15, <2>1, TakeAsked DEF AbortAbort, Received
  <2>3. UNCHANGED <<runner, abortTodo, ActiveOf>>
    BY <1>1, <1>5, <2>1
  <2>4. StageOf[r] = "abort" /\ StageOf' = [StageOf EXCEPT ![r] = "over"]
    BY <1>2, <1>3, <1>7, <2>1
  <2>5. Promise!CutShort(r)
    BY <2>1, <2>2, <2>3, <2>4
    DEF Promise!CutShort, Promise!End, Promise!Obey, StageOf, ActiveOf, AskedOf
  <2> QED BY <2>5 DEF Promise!Next
<1>16. CASE AbortMain(r)
  <2>1. /\ pc[r] \in Waiting /\ pc'[r] = "check" /\ TakeCommand(r) /\ phase[r] = "main"
        /\ phase'[r] = "abort"
        /\ todo' = [todo EXCEPT ![r] = abortTodo[r]]
        /\ elapsed' = [elapsed EXCEPT ![r] = 0]
        /\ pausedFor' = [pausedFor EXCEPT ![r] = 0]
    BY <1>16 DEF AbortMain, Goto, TypeOK
  <2>2. AskedOf[r] /\ \E again \in BOOLEAN : AskedOf' = [AskedOf EXCEPT ![r] = again]
    BY <1>16, <2>1, TakeAsked DEF AbortMain, Received
  <2>3. ActiveOf' = [ActiveOf EXCEPT ![r] = 0]
    <3>1. elapsed'[r] = 0 /\ pausedFor'[r] = 0
      BY <2>1 DEF TypeOK
    <3>2. \A q \in Runs \ {r} : elapsed'[q] = elapsed[q] /\ pausedFor'[q] = pausedFor[q]
      BY <2>1 DEF TypeOK
    <3>3. \A q \in Runs : elapsed'[q] - pausedFor'[q]
                             = (IF q = r THEN 0 ELSE elapsed[q] - pausedFor[q])
      BY <3>1, <3>2
    <3>4. [ActiveOf EXCEPT ![r] = 0] =
            [q \in Runs |-> IF q = r THEN 0 ELSE elapsed[q] - pausedFor[q]]
      BY Zenon DEF ActiveOf
    <3>5. ActiveOf' = [q \in Runs |-> elapsed'[q] - pausedFor'[q]]
      BY DEF ActiveOf
    <3> QED BY <3>3, <3>4, <3>5, Zenon
  <2>4. StageOf[r] = "main" /\ StageOf' = [StageOf EXCEPT ![r] = "abort"]
    BY <1>2, <1>3, <1>7, <2>1
  <2>5. Promise!TurnToAbort(r)
    BY <1>1, <2>1, <2>2, <2>3, <2>4
    DEF Promise!TurnToAbort, Promise!Obey, StageOf, ActiveOf, AskedOf
  <2> QED BY <2>5 DEF Promise!Next
<1> QED
  BY <1>9, <1>10, <1>11, <1>12, <1>13, <1>14, <1>15, <1>16 DEF RunStep

\* Time counts for the operator only while the run is not paused.
LEMMA ClockSimulates ==
    ASSUME IInv, NEW r \in Runs, Tick(r)
    PROVE  Unseen \/ Promise!Next
<1> USE DEF IInv
<1>1. UNCHANGED <<runner, todo, abortTodo, StageOf, AskedOf>>
  BY DEF Tick, StageOf, Stage, AskedOf, Has
<1>2. /\ \A q \in Runs \ {r} : elapsed'[q] = elapsed[q] /\ pausedFor'[q] = pausedFor[q]
      /\ elapsed'[r] = elapsed[r] + 1
      /\ pausedFor'[r] = IF pc[r] = "paused" THEN pausedFor[r] + 1 ELSE pausedFor[r]
      /\ elapsed[r] \in Nat /\ pausedFor[r] \in Nat
  BY DEF TypeOK, Tick
<1>3. CASE pc[r] = "paused"
  <2>1. \A q \in Runs : elapsed'[q] - pausedFor'[q] = elapsed[q] - pausedFor[q]
    BY <1>2, <1>3
  <2>2. UNCHANGED ActiveOf
    BY <2>1, Zenon DEF ActiveOf
  <2> QED BY <1>1, <2>2 DEF Unseen
<1>4. CASE pc[r] # "paused"
  <2>1. \A q \in Runs : elapsed'[q] - pausedFor'[q]
           = (IF q = r THEN elapsed[q] - pausedFor[q] + 1 ELSE elapsed[q] - pausedFor[q])
    BY <1>2, <1>4
  <2>2. ActiveOf' = [q \in Runs |-> elapsed'[q] - pausedFor'[q]]
    BY DEF ActiveOf
  <2>3. [ActiveOf EXCEPT ![r] = @ + 1] =
          [q \in Runs |-> IF q = r THEN elapsed[q] - pausedFor[q] + 1
                                   ELSE elapsed[q] - pausedFor[q]]
    BY Zenon DEF ActiveOf
  <2>4. ActiveOf' = [ActiveOf EXCEPT ![r] = @ + 1]
    BY <2>1, <2>2, <2>3, Zenon
  <2>5. StageOf[r] \in {"main", "abort"}
    BY DEF Tick, StageOf, Stage, Executing, TypeOK
  <2>6. Promise!Age(r)
    BY <1>1, <2>4, <2>5 DEF Promise!Age, Promise!Live, StageOf, ActiveOf, AskedOf
  <2> QED BY <2>6 DEF Promise!Next
<1> QED BY <1>3, <1>4

\* The runner thread's steps.
LEMMA RunnerSimulates ==
    ASSUME IInv, RunnerNext
    PROVE  Unseen \/ Promise!Next
<1> USE DEF IInv
<1>1. UNCHANGED runVars => UNCHANGED <<todo, abortTodo, StageOf, ActiveOf>>
  BY DEF runVars, StageOf, Stage, ActiveOf
<1>2. UNCHANGED ctrl => UNCHANGED AskedOf
  BY DEF AskedOf, Has
<1>3. IsSequenceRunning => handle \in Runs
  BY BoundsAssumption DEF IsSequenceRunning, TypeOK, Runs
<1>4. CASE StartSequence
  <2>0. handle + 1 \in Runs /\ Head(events) \in Plans
    BY <1>4, BoundsAssumption DEF TypeOK, StartSequence, RunnerTakes, Runs
  <2> PICK r \in Runs, p \in Plans : r = handle + 1 /\ p = Head(events)
    BY <2>0
  <2>1. r > handle /\ runner = "run" /\ runner' = "run"
    BY <1>4 DEF TypeOK, StartSequence, RunnerTakes
  <2>2. /\ pc' = [pc EXCEPT ![r] = "check"]
        /\ todo' = [todo EXCEPT ![r] = MainOf[p]]
        /\ abortTodo' = [abortTodo EXCEPT ![r] = AbortOf[p]]
        /\ UNCHANGED <<phase, ctrl, elapsed, pausedFor>>
    BY <1>4 DEF StartSequence
  <2>3. \A q \in Runs : pc[q] \in {"none", "done"}
    BY <1>4 DEF StartSequence, IsSequenceRunning, OnlyHandleActive, Active, Runs
  <2>4. \A q \in Runs : StageOf[q] \notin {"main", "abort"}
    BY <2>3 DEF StageOf, Stage
  <2>5. StageOf[r] = "idle"
    BY <2>1 DEF StageOf, Stage, Unspawned
  <2>6. StageOf' = [StageOf EXCEPT ![r] = "main"]
    <3>1. StageOf' = [StageOf EXCEPT ![r] = Stage(r)']
      <4>1. \A q \in Runs \ {r} : pc'[q] = pc[q] /\ phase'[q] = phase[q]
        BY <2>2 DEF TypeOK
      <4> QED BY <2>1, <4>1, OneStage
    <3>2. phase[r] = "main" /\ pc'[r] = "check"
      BY <2>1, <2>2 DEF Unspawned, TypeOK
    <3> QED BY <2>2, <3>1, <3>2 DEF Stage
  <2>7. UNCHANGED <<ActiveOf, AskedOf>>
    BY <1>2, <2>2 DEF ActiveOf
  <2>8. Promise!Begin(r, p)
    BY <2>1, <2>2, <2>4, <2>5, <2>6, <2>7
    DEF Promise!Begin, Promise!Live, StageOf, ActiveOf, AskedOf
  <2> QED BY <2>1, <2>8 DEF Promise!Next
<1>5. CASE RejectStart
  BY <1>1, <1>2, <1>5 DEF RejectStart, Unseen
<1>6. CASE Control
  <2>1. /\ UNCHANGED <<runner, todo, abortTodo, StageOf, ActiveOf>>
        /\ Head(events) \in Commands /\ ControlSequence(Head(events))
    BY <1>1, <1>6 DEF Control, RunnerTakes
  <2>2. CASE ~IsSequenceRunning
    BY <1>2, <2>1, <2>2 DEF ControlSequence, Unseen
  <2>3. CASE IsSequenceRunning
    <3>1. ctrl' = [ctrl EXCEPT ![handle] = Append(@, Head(events))]
      BY <2>1, <2>3 DEF ControlSequence
    <3>2. CASE Head(events) # "abort"
      BY <1>3, <2>1, <2>3, <3>1, <3>2, AppendAsked DEF Unseen
    <3>3. CASE Head(events) = "abort"
      <4>1. AskedOf' = [AskedOf EXCEPT ![handle] = TRUE]
        BY <1>3, <2>1, <2>3, <3>1, <3>3, AppendAsked
      <4>2. StageOf[handle] # "idle"
        BY <1>3, <2>3 DEF IsSequenceRunning, Active, StageOf, Stage, TypeOK
      <4>3. Promise!Ask(handle)
        BY <2>1, <4>1, <4>2 DEF Promise!Ask, StageOf, ActiveOf, AskedOf
      <4> QED BY <1>3, <2>3, <4>3 DEF Promise!Next
    <3> QED BY <3>2, <3>3
  <2> QED BY <2>2, <2>3
<1>7. CASE Shutdown
  <2>1. /\ UNCHANGED <<todo, abortTodo, StageOf, ActiveOf>>
        /\ runner' = "done" /\ ControlSequence("shutdown")
    BY <1>1, <1>7 DEF Shutdown
  <2>2. UNCHANGED AskedOf
    <3>1. CASE IsSequenceRunning
      <4>1. ctrl' = [ctrl EXCEPT ![handle] = Append(@, "shutdown")]
        BY <2>1, <3>1 DEF ControlSequence
      <4> QED BY <1>3, <3>1, <4>1, AppendAsked DEF Commands
    <3>2. CASE ~IsSequenceRunning
      BY <1>2, <2>1, <3>2 DEF ControlSequence
    <3> QED BY <3>1, <3>2
  <2>3. Promise!Stop
    BY <2>1, <2>2 DEF Promise!Stop, StageOf, ActiveOf, AskedOf
  <2> QED BY <2>3 DEF Promise!Next
<1> QED BY <1>4, <1>5, <1>6, <1>7 DEF RunnerNext

LEMMA PromiseInit == Init => Promise!Init /\ StopTold
<1> SUFFICES ASSUME Init PROVE Promise!Init /\ StopTold
  OBVIOUS
<1>1. \A r \in Runs : \A x : ~Has(r, x)
  BY DEF Init, Has
<1>2. \A r \in Runs : Stage(r) = "idle" /\ elapsed[r] - pausedFor[r] = 0
  BY DEF Init, Stage
<1>3. \A r \in Runs : Has(r, "abort") = FALSE
  BY <1>1 DEF Has
<1>4. /\ [r \in Runs |-> Stage(r)] = [r \in Runs |-> "idle"]
      /\ [r \in Runs |-> elapsed[r] - pausedFor[r]] = [r \in Runs |-> 0]
      /\ [r \in Runs |-> Has(r, "abort")] = [r \in Runs |-> FALSE]
  BY <1>2, <1>3, Zenon
<1> QED BY <1>1, <1>4 DEF Init, Promise!Init, StopTold

LEMMA PromiseNext ==
    ASSUME IInv, StopTold, [Next]_vars
    PROVE  [Promise!Next]_Promise!vars
<1>1. Unseen => UNCHANGED Promise!vars
  BY DEF Unseen, Promise!vars, StageOf, ActiveOf, AskedOf
<1>2. ASSUME UNCHANGED <<runVars, runner, ctrl>>
      PROVE  Unseen
  BY <1>2 DEF Unseen, runVars, StageOf, Stage, ActiveOf, AskedOf, Has
<1>3. UNCHANGED vars => Unseen
  BY <1>2 DEF vars, runVars
<1>4. ASSUME NEW e \in Plans \cup Commands, Dispatch(e)
      PROVE  Unseen
  BY <1>2, <1>4 DEF Dispatch
<1> QED
  BY <1>1, <1>3, <1>4, RunnerSimulates, ThreadSimulates, ClockSimulates DEF Next

\* The runner implements SequencePromise for all plans, any number of runs and
\* any commands: each action once, in order, in time, and only an Abort or a
\* Shutdown ends a sequence before its last one.
THEOREM PromiseKept == Spec => KeepsPromise
<1>1. Init => Promise!Init /\ StopTold
  BY PromiseInit
<1>2. IInv /\ StopTold /\ [Next]_vars => StopTold' /\ [Promise!Next]_Promise!vars
  BY StopToldStep, PromiseNext
<1> QED
  BY <1>1, <1>2, Invariance, PTL DEF Spec, KeepsPromise, Promise!Spec

=============================================================================
