--------------------------- MODULE SequenceRunner ---------------------------
(***************************************************************************)
(* The sequence runner: src/src/sequence/mod.rs and sequence_runner.rs.    *)
(*                                                                         *)
(* One runner thread takes operator events from its channel and owns the   *)
(* handle of the last sequence it started.  Every started sequence is a    *)
(* run: a thread of its own that walks the main schedule, takes commands   *)
(* from its controller channel only while it waits, and walks the abort    *)
(* schedule when the main one was aborted.                                 *)
(*                                                                         *)
(* Time is counted in ticks.  A run's `elapsed' is the time since the      *)
(* `origin' of the schedule it executes, so that comparing `now' with      *)
(* origin + timestamp + pause_offset is comparing elapsed with the rest.   *)
(***************************************************************************)
EXTENDS Naturals, Sequences

CONSTANTS
    Plans,      \* the (sequence, abort sequence) pairs an operator can start
    MainOf,     \* the flattened schedule of a plan's sequence
    AbortOf,    \* the flattened schedule of a plan's abort sequence
    MaxRuns,    \* bound: sequences started in a behaviour
    MaxEvents,  \* bound: events the operator dispatches
    MaxPause,   \* bound: ticks one execution spends paused
    Horizon     \* bound: ticks one execution can last

Commands == {"pause", "resume", "abort", "shutdown"}

TimedAction == [ts : Nat, kind : {"set", "hold", "cond"}]

ASSUME PlansAssumption ==
    /\ Plans \cap Commands = {}
    /\ MainOf \in [Plans -> Seq(TimedAction)]
    /\ AbortOf \in [Plans -> Seq(TimedAction)]

ASSUME BoundsAssumption ==
    /\ MaxRuns \in Nat /\ MaxEvents \in Nat
    /\ MaxPause \in Nat /\ Horizon \in Nat

Runs == 1..MaxRuns

VARIABLES
    events,       \* the runner thread's event channel
    sent,         \* events dispatched so far (for the bound only)
    runner,       \* the runner thread: in its loop, or gone
    handle,       \* last_sequence_handle: the last run started, 0 for None
    pc,           \* where each run's thread is
    phase,        \* which of its two schedules the run executes
    todo,         \* the actions of that schedule not yet performed
    abortTodo,    \* abort_schedule
    ctrl,         \* the controller channel of the run
    elapsed,      \* time since `origin'
    pauseOffset,  \* pause_offset
    pausedAt,     \* `elapsed' when wait_for_resume was entered
    result,       \* what the run's thread returns
    pausedFor,    \* history: ticks this execution really spent paused
    abortDue      \* history: an Abort reached this run's main sequence while
                  \*   it still had an action to start

runVars == <<pc, phase, todo, abortTodo, elapsed, pauseOffset, pausedAt,
             result, pausedFor>>
vars == <<events, sent, runner, handle, pc, phase, todo, abortTodo, ctrl,
          elapsed, pauseOffset, pausedAt, result, pausedFor, abortDue>>

Executing == {"check", "recv", "perform", "paused"}

TypeOK ==
    /\ events \in Seq(Plans \cup Commands)
    /\ sent \in 0..MaxEvents
    /\ runner \in {"run", "done"}
    /\ handle \in 0..MaxRuns
    /\ pc \in [Runs -> Executing \cup {"none", "ending", "done"}]
    /\ phase \in [Runs -> {"main", "abort"}]
    /\ todo \in [Runs -> Seq(TimedAction)]
    /\ abortTodo \in [Runs -> Seq(TimedAction)]
    /\ ctrl \in [Runs -> Seq(Commands)]
    /\ elapsed \in [Runs -> 0..Horizon]
    /\ pauseOffset \in [Runs -> 0..MaxPause]
    /\ pausedAt \in [Runs -> 0..Horizon]
    /\ result \in [Runs -> {"none", "ok", "aborted", "shutdown"}]
    /\ pausedFor \in [Runs -> 0..MaxPause]
    /\ abortDue \in [Runs -> BOOLEAN]

Init ==
    /\ events = <<>>
    /\ sent = 0
    /\ runner = "run"
    /\ handle = 0
    /\ pc = [r \in Runs |-> "none"]
    /\ phase = [r \in Runs |-> "main"]
    /\ todo = [r \in Runs |-> <<>>]
    /\ abortTodo = [r \in Runs |-> <<>>]
    /\ ctrl = [r \in Runs |-> <<>>]
    /\ elapsed = [r \in Runs |-> 0]
    /\ pauseOffset = [r \in Runs |-> 0]
    /\ pausedAt = [r \in Runs |-> 0]
    /\ result = [r \in Runs |-> "none"]
    /\ pausedFor = [r \in Runs |-> 0]
    /\ abortDue = [r \in Runs |-> FALSE]

-----------------------------------------------------------------------------
(* The operator: EventDispatcher::dispatch to the runner's channel.        *)

\* Starts already in the channel, so that no start exceeds the bound MaxRuns.
StartsQueued == Len(SelectSeq(events, LAMBDA e : e \in Plans))

Dispatch(e) ==
    /\ runner = "run"
    /\ sent < MaxEvents
    /\ e \in Plans => handle + StartsQueued < MaxRuns
    /\ sent' = sent + 1
    /\ events' = Append(events, e)
    /\ UNCHANGED <<runner, handle, ctrl, abortDue, runVars>>

-----------------------------------------------------------------------------
(* The runner thread: one action per event it takes.                       *)

\* The thread of the run has not returned: !thread_handle.is_finished().
Active(r) == pc[r] \notin {"none", "done"}

\* Mutant of IsSequenceRunning: a paused sequence does not count as running.
PausedNotRunning == handle # 0 /\ Active(handle) /\ pc[handle] # "paused"

IsSequenceRunning == handle # 0 /\ Active(handle)

TakeEvent == events' = Tail(events)

RunnerTakes(E) == runner = "run" /\ events # <<>> /\ Head(events) \in E

\* run_sequence with no other sequence running: a new channel, a new thread.
\* Replacing the handle drops the sender of the previous one.
StartSequence ==
    LET r == handle + 1
        p == Head(events)
    IN  /\ RunnerTakes(Plans)
        /\ ~IsSequenceRunning
        /\ handle < MaxRuns
        /\ TakeEvent
        /\ handle' = r
        /\ pc' = [pc EXCEPT ![r] = "check"]
        /\ todo' = [todo EXCEPT ![r] = MainOf[p]]
        /\ abortTodo' = [abortTodo EXCEPT ![r] = AbortOf[p]]
        /\ UNCHANGED <<sent, runner, phase, ctrl, elapsed, pauseOffset, pausedAt,
                       result, pausedFor, abortDue>>

\* run_sequence returns an error, which the loop only logs.
RejectStart ==
    /\ RunnerTakes(Plans)
    /\ IsSequenceRunning
    /\ TakeEvent
    /\ UNCHANGED <<sent, runner, handle, ctrl, abortDue, runVars>>

\* The actions a run has not begun to perform.
Unstarted(r) == IF pc[r] = "perform" THEN Tail(todo[r]) ELSE todo[r]

\* Mutant of ControlSequence: Shutdown only ends the runner's own loop.
ControlExceptShutdown(c) ==
    IF IsSequenceRunning /\ c # "shutdown"
    THEN ctrl' = [ctrl EXCEPT ![handle] = Append(@, c)] /\ UNCHANGED abortDue
    ELSE UNCHANGED <<ctrl, abortDue>>

\* control_sequence: a command is sent to the last run if it has not ended.
\* The test and the send are one step: a command sent to a thread that ended
\* between the two is never read.
ControlSequence(c) ==
    IF IsSequenceRunning
    THEN /\ ctrl' = [ctrl EXCEPT ![handle] = Append(@, c)]
         /\ abortDue' = [abortDue EXCEPT ![handle] =
                \/ @
                \/ /\ c = "abort"
                   /\ phase[handle] = "main"
                   /\ pc[handle] # "ending"
                   /\ Unstarted(handle) # <<>>]
    ELSE UNCHANGED <<ctrl, abortDue>>

Control ==
    /\ RunnerTakes(Commands \ {"shutdown"})
    /\ TakeEvent
    /\ ControlSequence(Head(events))
    /\ UNCHANGED <<sent, runner, handle, runVars>>

\* The loop forwards Shutdown and breaks: the runner, its handle and with it
\* the controller's sender are dropped, and so is the event channel.
Shutdown ==
    /\ RunnerTakes({"shutdown"})
    /\ ControlSequence("shutdown")
    /\ runner' = "done"
    /\ events' = <<>>
    /\ UNCHANGED <<sent, handle, runVars>>

RunnerNext == StartSequence \/ RejectStart \/ Control \/ Shutdown

-----------------------------------------------------------------------------
(* The thread of run r: execute_actions and wait_for_resume.               *)

Deadline(r) == Head(todo[r]).ts + pauseOffset[r]

SenderAlive(r) == runner = "run" /\ handle = r

\* What recv or recv_timeout finds in the controller channel.
Received(r) ==
    IF ctrl[r] # <<>> THEN Head(ctrl[r])
    ELSE IF SenderAlive(r) THEN "empty" ELSE "disconnected"

\* Where a thread looks at its channel, and what makes it stop there.
\* Mutants: wait_for_resume only listens for Resume; Shutdown is ignored.
WaitingOnlyRunning == {"recv"}
Waiting == {"recv", "paused"}

OnlyDisconnect == {"disconnected"}
StopSignals == {"shutdown", "disconnected"}

TakeCommand(r) == ctrl' = [ctrl EXCEPT ![r] = IF @ = <<>> THEN @ ELSE Tail(@)]

Goto(r, l) == pc' = [pc EXCEPT ![r] = l]

\* The deadline has passed: the action is performed without a look at ctrl.
Overdue(r) ==
    /\ pc[r] = "check" /\ todo[r] # <<>>
    /\ elapsed[r] >= Deadline(r)
    /\ Goto(r, "perform")
    /\ UNCHANGED <<events, sent, runner, handle, phase, todo, abortTodo, ctrl,
                   elapsed, pauseOffset, pausedAt, result, pausedFor, abortDue>>

BeginWait(r) ==
    /\ pc[r] = "check" /\ todo[r] # <<>>
    /\ elapsed[r] < Deadline(r)
    /\ Goto(r, "recv")
    /\ UNCHANGED <<events, sent, runner, handle, phase, todo, abortTodo, ctrl,
                   elapsed, pauseOffset, pausedAt, result, pausedFor, abortDue>>

\* Mutant of Timeout: == where the code has >=.
TimeoutOnTheDot(r) ==
    /\ pc[r] = "recv" /\ Received(r) = "empty"
    /\ elapsed[r] = Deadline(r)
    /\ Goto(r, "perform")
    /\ UNCHANGED <<events, sent, runner, handle, phase, todo, abortTodo, ctrl,
                   elapsed, pauseOffset, pausedAt, result, pausedFor, abortDue>>

\* recv_timeout: the wait ended with nothing in the channel.
Timeout(r) ==
    /\ pc[r] = "recv" /\ Received(r) = "empty"
    /\ elapsed[r] >= Deadline(r)
    /\ Goto(r, "perform")
    /\ UNCHANGED <<events, sent, runner, handle, phase, todo, abortTodo, ctrl,
                   elapsed, pauseOffset, pausedAt, result, pausedFor, abortDue>>

\* Resume while running, Pause while paused: taken and ignored.
IgnoreCommand(r) ==
    /\ \/ pc[r] = "recv" /\ Received(r) = "resume" /\ Goto(r, "check")
       \/ pc[r] = "paused" /\ Received(r) = "pause" /\ UNCHANGED pc
    /\ TakeCommand(r)
    /\ UNCHANGED <<events, sent, runner, handle, phase, todo, abortTodo,
                   elapsed, pauseOffset, pausedAt, result, pausedFor, abortDue>>

Pause(r) ==
    /\ pc[r] = "recv" /\ Received(r) = "pause"
    /\ TakeCommand(r)
    /\ Goto(r, "paused")
    /\ pausedAt' = [pausedAt EXCEPT ![r] = elapsed[r]]
    /\ UNCHANGED <<events, sent, runner, handle, phase, todo, abortTodo,
                   elapsed, pauseOffset, result, pausedFor, abortDue>>

\* pause_offset += pause_duration.
\* Mutant: only the last pause counts.
LastPauseOnly(r) == elapsed[r] - pausedAt[r]
NewOffset(r) == pauseOffset[r] + (elapsed[r] - pausedAt[r])

\* wait_for_resume returns the time spent, which moves every later deadline.
Resume(r) ==
    /\ pc[r] = "paused" /\ Received(r) = "resume"
    /\ TakeCommand(r)
    /\ Goto(r, "check")
    /\ pauseOffset' = [pauseOffset EXCEPT ![r] = NewOffset(r)]
    /\ UNCHANGED <<events, sent, runner, handle, phase, todo, abortTodo,
                   elapsed, pausedAt, result, pausedFor, abortDue>>

\* The main schedule is aborted: the abort schedule is executed from its own
\* origin, with the same controller channel.
AbortMain(r) ==
    /\ pc[r] \in Waiting /\ Received(r) = "abort"
    /\ phase[r] = "main"
    /\ TakeCommand(r)
    /\ Goto(r, "check")
    /\ phase' = [phase EXCEPT ![r] = "abort"]
    /\ todo' = [todo EXCEPT ![r] = abortTodo[r]]
    /\ elapsed' = [elapsed EXCEPT ![r] = 0]
    /\ pauseOffset' = [pauseOffset EXCEPT ![r] = 0]
    /\ pausedFor' = [pausedFor EXCEPT ![r] = 0]
    /\ UNCHANGED <<events, sent, runner, handle, abortTodo, pausedAt, result,
                   abortDue>>

\* The thread returns res; is_finished() turns true with Exit.
End(r, res) ==
    /\ Goto(r, "ending")
    /\ result' = [result EXCEPT ![r] = res]
    /\ UNCHANGED <<events, sent, runner, handle, phase, todo, abortTodo,
                   elapsed, pauseOffset, pausedAt, pausedFor, abortDue>>

\* The abort schedule can be aborted as well, and then the run is over.
AbortAbort(r) ==
    /\ pc[r] \in Waiting /\ Received(r) = "abort"
    /\ phase[r] = "abort"
    /\ TakeCommand(r)
    /\ End(r, "aborted")

\* Shutdown, or the sender was dropped.
StopRun(r) ==
    /\ pc[r] \in Waiting
    /\ Received(r) \in StopSignals
    /\ TakeCommand(r)
    /\ End(r, "shutdown")

FinishSchedule(r) ==
    /\ pc[r] = "check" /\ todo[r] = <<>>
    /\ End(r, "ok")
    /\ UNCHANGED ctrl

Exit(r) ==
    /\ pc[r] = "ending"
    /\ Goto(r, "done")
    /\ UNCHANGED <<events, sent, runner, handle, phase, todo, abortTodo, ctrl,
                   elapsed, pauseOffset, pausedAt, result, pausedFor, abortDue>>

\* set_value is called, its error only logged; or a conditional hold whose
\* conditions do not all evaluate to true is passed.
PassAction(r) ==
    /\ pc[r] = "perform" /\ Head(todo[r]).kind \in {"set", "cond"}
    /\ Goto(r, "check")
    /\ todo' = [todo EXCEPT ![r] = Tail(@)]
    /\ UNCHANGED <<events, sent, runner, handle, phase, abortTodo, ctrl,
                   elapsed, pauseOffset, pausedAt, result, pausedFor, abortDue>>

\* HoldMode::Always, or HoldMode::Conditional with every condition true.
EnterHold(r) ==
    /\ pc[r] = "perform" /\ Head(todo[r]).kind \in {"hold", "cond"}
    /\ Goto(r, "paused")
    /\ todo' = [todo EXCEPT ![r] = Tail(@)]
    /\ pausedAt' = [pausedAt EXCEPT ![r] = elapsed[r]]
    /\ UNCHANGED <<events, sent, runner, handle, phase, abortTodo, ctrl,
                   elapsed, pauseOffset, result, pausedFor, abortDue>>

RunStep(r) ==
    \/ Overdue(r) \/ BeginWait(r) \/ Timeout(r) \/ IgnoreCommand(r)
    \/ Pause(r) \/ Resume(r) \/ AbortMain(r) \/ AbortAbort(r) \/ StopRun(r)
    \/ FinishSchedule(r) \/ Exit(r) \/ PassAction(r) \/ EnterHold(r)

\* A tick of the clock while r executes, the paused ones counted.
Tick(r) ==
    /\ pc[r] \in Executing
    /\ elapsed[r] < Horizon
    /\ pc[r] = "paused" => pausedFor[r] < MaxPause
    /\ elapsed' = [elapsed EXCEPT ![r] = @ + 1]
    /\ pausedFor' = [pausedFor EXCEPT ![r] = IF pc[r] = "paused" THEN @ + 1 ELSE @]
    /\ UNCHANGED <<events, sent, runner, handle, pc, phase, todo, abortTodo,
                   ctrl, pauseOffset, pausedAt, result, abortDue>>

-----------------------------------------------------------------------------

Next ==
    \/ \E e \in Plans \cup Commands : Dispatch(e)
    \/ RunnerNext
    \/ \E r \in Runs : RunStep(r)
    \/ \E r \in Runs : Tick(r)

Spec == Init /\ [][Next]_vars

\* Threads are scheduled and clocks run; nobody makes the operator act.
Fairness ==
    /\ WF_vars(RunnerNext)
    /\ \A r \in Runs : WF_vars(RunStep(r)) /\ WF_vars(Tick(r))

FairSpec == Spec /\ Fairness

-----------------------------------------------------------------------------
(* Properties.                                                             *)

Has(r, c) == \E i \in 1..Len(ctrl[r]) : ctrl[r][i] = c

\* At most one sequence thread is alive, and it is the one the handle
\* controls: run_sequence never overwrites the handle of a live thread, which
\* would leave a sequence that nobody can pause or abort.
OnlyHandleActive == \A r \in Runs : Active(r) => r = handle

\* A live thread whose sender is gone finds a Shutdown in its channel: the
\* branch "the caller dropped the handle without explicitly calling cancel()"
\* is never what ends a sequence.
NoSilentDisconnect ==
    \A r \in Runs :
        Active(r) /\ ~SenderAlive(r) => Has(r, "shutdown") \/ pc[r] = "ending"

\* No action is performed before its timestamp plus all the time the
\* execution spent paused or held, however many pauses there were.
NeverEarly ==
    \A r \in Runs :
        pc[r] = "perform" =>
            todo[r] # <<>> /\ elapsed[r] >= Head(todo[r]).ts + pausedFor[r]

\* Once the runner thread has seen Shutdown every sequence thread ends, a held
\* one included: the scope that joins them can return.
ShutdownStops == (runner = "done") ~> (\A r \in Runs : ~Active(r))

\* A sequence thread that is not paused or held gets to its end.
RunEndsUnlessHeld ==
    \A r \in Runs : Active(r) ~> (pc[r] \in {"paused", "done"})

\* A held or paused main sequence whose next effective command is Abort
\* starts its abort sequence.
EffectiveWhenHeld(r) == SelectSeq(ctrl[r], LAMBDA c : c # "pause")
HeldAbortHonoured ==
    \A r \in Runs :
        (/\ pc[r] = "paused" /\ phase[r] = "main"
         /\ EffectiveWhenHeld(r) # <<>> /\ Head(EffectiveWhenHeld(r)) = "abort")
        ~> (phase[r] = "abort")

\* What a run is to the operator: over as soon as its thread returns.
Stage(r) ==
    CASE pc[r] = "none" -> "idle"
      [] pc[r] \in {"ending", "done"} -> "over"
      [] OTHER -> phase[r]

Promise == INSTANCE SequencePromise WITH
    stopping <- (runner = "done"),
    stage <- [r \in Runs |-> Stage(r)],
    left <- todo,
    onAbort <- abortTodo,
    active <- [r \in Runs |-> elapsed[r] - pausedFor[r]],
    asked <- [r \in Runs |-> Has(r, "abort")]

\* With its threads, its channel and its deadlines the runner keeps what
\* SequencePromise says: every action once, in order and in time, and no end
\* before the last one but by an Abort or a Shutdown.
KeepsPromise == Promise!Spec

-----------------------------------------------------------------------------
(* What the comments and the README say, and the code does not do.         *)

\* "Can be paused, resumed and aborted using the receiver parameter": a main
\* sequence that still had an action to start when the Abort was sent does not
\* run to its normal end.  The channel is not polled when the next deadline
\* has already passed, nor after the last action.
AbortHonoured ==
    \A r \in Runs :
        abortDue[r] /\ pc[r] = "done" =>
            phase[r] = "abort" \/ result[r] = "shutdown"

\* "already running, ignore" and "the sequence stays paused until manually
\* resumed": no Resume sent before a hold began is still there to release it.
HoldStartsUnresumed ==
    [][\A r \in Runs : EnterHold(r) => ~Has(r, "resume")]_vars

=============================================================================
