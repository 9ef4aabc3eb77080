----------------------------- MODULE Lifecycle -----------------------------
(***************************************************************************)
(* Start, event flow and shutdown of the application: run_with_dependencies*)
(* (src/src/lib.rs), the EventDispatcher (src/src/events/mod.rs) and the   *)
(* loops of the threads it connects.                                       *)
(*                                                                         *)
(* A thread subscribes a channel under the write lock of the listeners; an *)
(* event is dispatched under the read lock, one listener after the other,  *)
(* so two events dispatched at once can reach two listeners in different   *)
(* orders, and nobody subscribes in between.  Heartbeats are left to the   *)
(* registry, sequences to SequenceRunner: here their threads only start    *)
(* and stop.                                                               *)
(***************************************************************************)
EXTENDS Naturals, Sequences, Functions

CONSTANTS
    Interfaces,   \* the CAN interfaces of the configuration, in order
    WithDb,       \* whether a database is configured
    MaxFrames,    \* bound: frames received from the nodes
    MaxFields     \* bound: fields of a telemetry group

ASSUME ConfigAssumption ==
    /\ Interfaces \in Seq(Range(Interfaces))
    /\ Range(Interfaces) \cap {"open", "send", "seq", "db", "handler", "heartbeat", "request",
                               "main", "operator"} = {}
    /\ WithDb \in BOOLEAN
    /\ MaxFrames \in Nat /\ MaxFields \in Nat

Recv == Range(Interfaces)
Threads == Recv \cup {"send", "seq", "handler", "heartbeat"}
                \cup (IF WithDb THEN {"db"} ELSE {})
Dispatchers == Recv \cup {"handler", "main", "operator"}

\* SendCanMessage, CanMessageReceived, NodeFieldUpdated and Shutdown.
Events == {"request", "received", "updated", "shutdown"}

\* EventListener.subscribed_events.  Mutants: the send thread only hears
\* Shutdown; the logger only hears updates.
HearsNoRequest(t, e) ==
    \/ e = "shutdown"
    \/ t = "handler" /\ e = "received"
    \/ t = "db" /\ e = "updated"
DbHearsNoShutdown(t, e) ==
    \/ e = "shutdown" /\ t # "db"
    \/ t = "send" /\ e = "request"
    \/ t = "handler" /\ e = "received"
    \/ t = "db" /\ e = "updated"
Hears(t, e) ==
    \/ e = "shutdown"
    \/ t = "send" /\ e = "request"
    \/ t = "handler" /\ e = "received"
    \/ t = "db" /\ e = "updated"

\* What run_with_dependencies does, in order.  Mutant: the log starts after
\* the source of what it logs.
StartDbLast ==
    <<"open">> \o Interfaces \o <<"send", "seq", "handler", "heartbeat">>
    \o (IF WithDb THEN <<"db">> ELSE <<>>) \o <<"request">>
Start ==
    <<"open">> \o Interfaces \o <<"send", "seq">>
    \o (IF WithDb THEN <<"db">> ELSE <<>>) \o <<"handler", "heartbeat", "request">>

VARIABLES
    step,     \* the next step of Start
    main,     \* the thread in run_with_dependencies
    failed,   \* history: a step of Start returned an error
    subs,     \* EventDispatcher.listeners, in the order they subscribed
    thread,   \* each thread
    chan,     \* each thread's event channel
    out,      \* each dispatcher's dispatch in progress: event, listeners left
              \*   by their place in subs
    updates,  \* values of the message in the handler's hands not dispatched yet
    frames,   \* frames received, for the bound only
    requested,  \* history: NodeInfoReq was written to the bus
    shutdown  \* history: Shutdown was dispatched: to all threads, or to some
              \*   after the start was done, or to some before

vars == <<step, main, failed, subs, thread, chan, out, updates, frames, requested, shutdown>>

Idle == [event |-> "none", left |-> {}]

TypeOK ==
    /\ step \in 1..(Len(Start) + 1)
    /\ main \in {"starting", "joining", "returned"}
    /\ failed \in BOOLEAN
    /\ subs \in Seq(Threads)
    /\ thread \in [Threads -> {"none", "spawned", "loop", "reading", "done"}]
    /\ chan \in [Threads -> Seq(Events)]
    /\ out \in [Dispatchers -> [event : Events \cup {"none"}, left : SUBSET DOMAIN subs]]
    /\ \A d \in Dispatchers : out[d].event = "none" <=> out[d].left = {}
    /\ updates \in 0..MaxFields
    /\ frames \in 0..MaxFrames
    /\ requested \in BOOLEAN
    /\ shutdown \in {"no", "early", "started", "all"}

Init ==
    /\ step = 1
    /\ main = "starting"
    /\ failed = FALSE
    /\ subs = <<>>
    /\ thread = [t \in Threads |-> "none"]
    /\ chan = [t \in Threads |-> <<>>]
    /\ out = [d \in Dispatchers |-> Idle]
    /\ updates = 0
    /\ frames = 0
    /\ requested = FALSE
    /\ shutdown = "no"

-----------------------------------------------------------------------------
(* EventDispatcher.                                                        *)

\* The read lock is held for the whole of a dispatch, the write lock by subscribe.
Unlocked == \A d \in Dispatchers : out[d] = Idle

Subscribe(t) == Unlocked /\ subs' = Append(subs, t)

Listeners(e) == {i \in DOMAIN subs : Hears(subs[i], e)}

\* Mutant of Begin: a dispatch without listeners does not end.
BeginForNobody(d, e) == out' = [out EXCEPT ![d] = [event |-> e, left |-> Listeners(e)]]

\* dispatch(e) begins: it goes through the listeners that hear it, in their order.
Begin(d, e) ==
    out' = [out EXCEPT ![d] =
        IF Listeners(e) = {} THEN Idle ELSE [event |-> e, left |-> Listeners(e)]]

\* One send.  A listener that has gone has dropped its receiver.
Send(d) ==
    \E i \in out[d].left :
        LET t == subs[i]
            rest == out[d].left \ {i}
        IN  /\ \A k \in rest : i < k
            /\ chan' = IF thread[t] = "done" THEN chan
                       ELSE [chan EXCEPT ![t] = Append(@, out[d].event)]
            /\ out' = [out EXCEPT ![d] =
                   IF rest = {} THEN Idle ELSE [event |-> @.event, left |-> rest]]
            /\ UNCHANGED <<step, main, failed, subs, thread, updates, frames, requested, shutdown>>

-----------------------------------------------------------------------------
(* The starting thread: lib.rs and the spawn functions it calls.           *)

AtStep(s) == main = "starting" /\ step <= Len(Start) /\ Start[step] = s

Advance == step' = step + 1 /\ UNCHANGED <<main, failed, requested, updates, frames, shutdown>>

\* The scope's closure returns the error; its Result is dropped, and the scope
\* joins the threads already spawned.
Fail ==
    /\ \/ AtStep("open")
       \/ \E i \in Recv : AtStep(i)
       \/ AtStep("db")
    /\ failed' = TRUE
    /\ main' = "joining"
    /\ UNCHANGED <<step, subs, thread, chan, out, updates, frames, requested, shutdown>>

OpenSockets ==
    /\ AtStep("open") /\ Interfaces # <<>> /\ Advance
    /\ UNCHANGED <<subs, thread, chan, out>>

\* The thread's channel is subscribed by the starting thread, then it is spawned.
StartThread(t) ==
    /\ AtStep(t) /\ t # "seq"
    /\ Subscribe(t)
    /\ thread' = [thread EXCEPT ![t] = "loop"]
    /\ Advance
    /\ UNCHANGED <<chan, out>>

\* The sequence runner is spawned, and subscribes once it runs.
SpawnSequenceRunner ==
    /\ AtStep("seq")
    /\ thread' = [thread EXCEPT !["seq"] = "spawned"]
    /\ Advance
    /\ UNCHANGED <<subs, chan, out>>

SequenceRunnerSubscribes ==
    /\ thread["seq"] = "spawned"
    /\ Subscribe("seq")
    /\ thread' = [thread EXCEPT !["seq"] = "loop"]
    /\ UNCHANGED <<step, main, failed, chan, out, updates, frames, requested, shutdown>>

\* start_node_registration.
RequestNodeInfo ==
    /\ AtStep("request")
    /\ Begin("main", "request")
    /\ Advance
    /\ UNCHANGED <<subs, thread, chan>>

FinishStart ==
    /\ main = "starting" /\ step > Len(Start) /\ out["main"] = Idle
    /\ main' = "joining"
    /\ UNCHANGED <<step, failed, subs, thread, chan, out, updates, frames, requested, shutdown>>

\* The scope returns when every thread it spawned has ended, with Ok(()).
Return ==
    /\ main = "joining"
    /\ \A t \in Threads : thread[t] \in {"none", "done"}
    /\ main' = "returned"
    /\ UNCHANGED <<step, failed, subs, thread, chan, out, updates, frames, requested, shutdown>>

-----------------------------------------------------------------------------
(* The threads.                                                            *)

Takes(t, e) == thread[t] = "loop" /\ chan[t] # <<>> /\ Head(chan[t]) = e

\* Every loop breaks on Shutdown, and the channel is dropped.
StopThread(t) ==
    /\ Takes(t, "shutdown")
    /\ t \in Dispatchers => out[t] = Idle
    /\ t = "handler" => updates = 0
    /\ thread' = [thread EXCEPT ![t] = "done"]
    /\ chan' = [chan EXCEPT ![t] = <<>>]
    /\ UNCHANGED <<step, main, failed, subs, out, updates, frames, requested, shutdown>>

\* The send thread writes the request to every socket.
WriteFrame ==
    /\ Takes("send", "request")
    /\ chan' = [chan EXCEPT !["send"] = Tail(@)]
    /\ requested' = TRUE
    /\ UNCHANGED <<step, main, failed, subs, thread, out, updates, frames, shutdown>>

\* The handler thread takes a message, which updates no value or some: a group
\* has one dispatch per field.
HandleMessage ==
    /\ Takes("handler", "received") /\ updates = 0 /\ out["handler"] = Idle
    /\ chan' = [chan EXCEPT !["handler"] = Tail(@)]
    /\ updates' \in 0..MaxFields
    /\ UNCHANGED <<step, main, failed, subs, thread, out, frames, requested, shutdown>>

\* The next value of that message, once the one before has gone to everybody.
DispatchUpdate ==
    /\ updates > 0 /\ out["handler"] = Idle
    /\ Begin("handler", "updated")
    /\ updates' = updates - 1
    /\ UNCHANGED <<step, main, failed, subs, thread, chan, frames, requested, shutdown>>

LogUpdate ==
    /\ Takes("db", "updated")
    /\ chan' = [chan EXCEPT !["db"] = Tail(@)]
    /\ UNCHANGED <<step, main, failed, subs, thread, out, updates, frames, requested, shutdown>>

\* A receive thread that found no Shutdown reads; the read returns a frame,
\* which it dispatches, or times out.
BeginRead(i) ==
    /\ thread[i] = "loop" /\ chan[i] = <<>> /\ out[i] = Idle
    /\ thread' = [thread EXCEPT ![i] = "reading"]
    /\ UNCHANGED <<step, main, failed, subs, chan, out, updates, frames, requested, shutdown>>

ReceiveFrame(i) ==
    /\ thread[i] = "reading"
    /\ thread' = [thread EXCEPT ![i] = "loop"]
    /\ \/ frames < MaxFrames /\ frames' = frames + 1 /\ Begin(i, "received")
       \/ UNCHANGED <<frames, out>>
    /\ UNCHANGED <<step, main, failed, subs, chan, updates, requested, shutdown>>

\* run_with_dependencies has done all its steps.
Started == main = "joining" /\ ~failed

\* Somebody dispatches Shutdown, once.
DispatchShutdown ==
    /\ shutdown = "no" /\ main # "returned"
    /\ Begin("operator", "shutdown")
    /\ shutdown' = IF Range(subs) = Threads THEN "all"
                   ELSE IF Started THEN "started" ELSE "early"
    /\ UNCHANGED <<step, main, failed, subs, thread, chan, updates, frames, requested>>

-----------------------------------------------------------------------------

MainNext ==
    \/ OpenSockets \/ (\E t \in Threads : StartThread(t)) \/ SpawnSequenceRunner
    \/ RequestNodeInfo \/ FinishStart \/ Return

ThreadNext(t) ==
    \/ StopThread(t)
    \/ t = "send" /\ WriteFrame
    \/ t = "handler" /\ (HandleMessage \/ DispatchUpdate)
    \/ t = "db" /\ LogUpdate
    \/ t = "seq" /\ SequenceRunnerSubscribes
    \/ t \in Recv /\ (BeginRead(t) \/ ReceiveFrame(t))

Next ==
    \/ MainNext \/ Fail
    \/ \E t \in Threads : ThreadNext(t)
    \/ \E d \in Dispatchers : Send(d)
    \/ DispatchShutdown

Spec == Init /\ [][Next]_vars

\* Threads are scheduled, a dispatch ends, a waiting subscriber gets the lock;
\* nobody makes a step of the start fail, and nobody has to shut down.
Fairness ==
    /\ WF_vars(MainNext)
    /\ \A t \in Threads : WF_vars(ThreadNext(t))
    /\ \A d \in Dispatchers : WF_vars(Send(d))

FairSpec == Spec /\ Fairness

-----------------------------------------------------------------------------
(* Properties.                                                             *)

\* The start makes no event before its listeners: the nodes are only asked to
\* register when their answers will be heard and the request itself will be
\* sent; with a database, no value is dispatched before the log listens.
NothingUnheard ==
    /\ \A d \in Dispatchers :
          out[d].event = "request" \/ requested => {"send", "handler"} \subseteq Range(subs)
    /\ WithDb /\ thread["handler"] # "none" => "db" \in Range(subs)

\* A Shutdown dispatched when every thread has subscribed ends the application,
\* whatever else is being dispatched.
FullShutdownReturns == (shutdown = "all") ~> (main = "returned")

\* A start that succeeds writes NodeInfoReq to the bus, unless it is shut down.
RequestSent == Started ~> (requested \/ shutdown # "no")

-----------------------------------------------------------------------------
(* What the tests expect, and the code does not do.                        *)

\* The guard's Shutdown is there "to ensure that the app threads shutdown
\* properly".  The sequence runner may subscribe after the start was done and
\* after Shutdown was dispatched, and then it never hears of it.
ShutdownTerminates == (shutdown = "started") ~> (main = "returned")

=============================================================================
