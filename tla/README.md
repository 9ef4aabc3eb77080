# FerroFlow, specified

TLA+ models of FerroFlow (`src/`), TLC configurations that check them, and
theorems checked by TLAPS. FerroFlow is the ground-station server of a
LiquidCAN bus. It learns which nodes are on the bus, caches and logs their
values, and runs timed sequences of commands that operators can pause, resume
and abort. Paths and line numbers below are those of `src/src/` unless they
start otherwise.

## 1. The system

`run_with_dependencies` (lib.rs) spawns threads in one `std::thread::scope`.
They share an `EventDispatcher` (a list of mpsc senders under an `RwLock`) and a
`NodeManager` (two `DashMap`s). Everything else is passed as events.

```
 CAN bus -> recv threads --CanMessageReceived--> handler thread -> NodeManager
                |                                    |
                | RelayCanMessage      NodeFieldUpdated --> DB worker -> field_logs
                v                                    
 CAN bus <- send thread <--SendCanMessage-- commands, heartbeat, registration
 operator --Start/Pause/Resume/Abort--> runner thread --controller channel--> sequence thread
 operator --Shutdown--> every thread
```

| Component | State | Operations | Interacts with | Hard behaviour | What makes it correct | Where |
|---|---|---|---|---|---|---|
| Sequence runner (sequence/mod.rs, sequence_runner.rs) | handle of the last sequence, its controller channel; per sequence thread: schedule, pause offset, origin | start, pause, resume, abort, shutdown; wait, perform, hold, abort schedule | operator events, NodeManager | commands race deadlines, commands queue up behind holds, late threads, shutdown while held | one sequence at a time and it can be controlled; every action once, in order, never early; shutdown ends a held sequence | `SequenceRunner`, `SequencePromise` |
| Sequence validation and builder (sequence_definition.rs, sequence_validation.rs, sequence_builder.rs) | definition, last value per parameter, schedule | validate, flatten, interpolate | file, runner | boundaries: empty spans, spans that are no multiple of the interval, interval 0 | inside the globals; nothing defined is lost; interpolated values lie between | `SequenceSchedule` |
| Node registration and value cache (nodes/node_manager.rs, can_node.rs) | registering nodes, registered nodes, their fields, groups, values | announcement, field and group registration, group update, get response | bus, log, reads | reboots half-way, lost frames, messages of two firmwares in flight, partial failure | registered means complete; tables of one firmware; a value is decoded with the tables it was encoded with; cache agrees with log | `NodeRegistry` |
| Event dispatcher (events/mod.rs) | listeners | subscribe, dispatch | all threads | two dispatches interleave; a listener has gone; a subscriber waits | every listener hears what it subscribed to | `Lifecycle` |
| Start and shutdown (lib.rs) | which threads run | start in order, fail half-way, join | all | a thread that subscribes late misses events; a step of the start fails | answers are heard, shutdown ends everything | `Lifecycle` |
| CAN threads (can/mod.rs) | sockets | read with time-out, dispatch, relay, write | bus, dispatcher | shutdown between reads; relay order; refused frames; writes that fail | frames for the server reach the handler in order; others reach every other interface once, in one order; a failure costs one frame on one interface | `CanBus`, `RelayBus`; start in `Lifecycle` |
| DB logging worker (db/mod.rs) | batch, connection | take a row, flush at the limit, on time-out, at shutdown | dispatcher, PostgreSQL | failed and ambiguous inserts, a batch beyond what an insert can have, shutdown with rows queued | no row twice, no gap, order kept; everything stored in the end | `DbLogger`, `FieldLogStore` |
| Heartbeats (nodes/mod.rs:39, node_manager.rs:319) | last counter sent and received per node | send, receive | dispatcher, registry | u32 counter that wraps or panics, re-registration between request and answer, missed deadlines | the counters tell how far a node is behind; a registered node is asked for ever; no bursts | `Heartbeat` |
| Field reads and commands (node_manager.rs:380, node_manager/command.rs) | none of its own | get, set, request | registry, mapping, send thread | check-then-use across a re-registration, types that cannot hold the value | a read or write concerns the field named; what is sent is what was asked for | `FieldAccess` |
| Mapping (nodes/mapping.rs) | the entries per node, while they are put together | load, validate, look up, logical value, convert | field access | ranges that touch or overlap, NaN and infinities, a node spread over files, inverse conversion | a name or a raw field finds its one entry; no value has two logical values; what is refused has a cause; conversions are inverse | `Mapping`; inverse conversion in `FieldAccess` |
| Configuration, entry point, schema, ferroflow-vcan, LiquidCAN | none, or outside of the application | | | | | not modelled: plain I/O, declarations, a command-line wrapper, an empty submodule |

The hazards of each component, line by line, are in `PROJECT.json`.

## 2. The plan

Most important behaviour first; all but the last are done.

1. `SequenceRunner`: the commands of an operator against the clock, and the
   abstract `SequencePromise` it implements. Proofs in `SequenceRunnerProofs`.
2. `NodeRegistry`: registration, reboots and the cache. Proofs in
   `RegistryProofs`.
3. `Lifecycle`: dispatcher, start and shutdown; composes all threads, each
   reduced to how it starts, waits and stops. Proofs in `LifecycleProofs`.
4. `SequenceSchedule`: validation and interpolation. Proofs in
   `SequenceScheduleProofs`.
5. `DbLogger`, which implements the abstract `FieldLogStore`. Proofs in
   `DbLoggerProofs`.
6. `FieldAccess`, composed with `NodeRegistry`: the separate lookups of
   `try_get_value`, `set_value` and `request_value` around a re-registration, and
   the value conversions that fail. Proofs in `RegistryProofs`, behind those
   of the registry they rest on.
7. `CanBus`, which implements the abstract `RelayBus`: receive threads, send
   thread and relay between interfaces. Proofs in `CanBusProofs`.
8. `Heartbeat`: counters modulo a small width, the thread's deadline, answers
   across a re-registration. Proofs in `HeartbeatProofs`.
9. `Mapping`: the loader, its checks, the lookups and the logical ranges. Proofs
   in `MappingProofs`.
10. `SequenceSchedule` composed with `SequenceRunner`: from a definition to the
    commands on the bus. `KeepsPromise` is proved for every schedule, and the
    schedule's own properties for every definition, so that the composition adds
    the conditions of holds and the values read for them.

Every safety property that a run checks, refinements included, is also a
theorem (section 7). Open is what lies beyond the prover, the liveness
properties, and the composition of point 10.

## 3. The models

Conventions: one action per handler or step; a lock-protected or single-threaded
stretch of code that touches no shared state in between is one action. Channels
are sequences, maps are functions on the keys they hold. A log line is left out,
and an error that is only logged is the action that changes nothing else.
Operators named as mutants sit next to the definition they would replace; they
are what the properties are tried against and are used nowhere.

### SequenceRunner

The runner thread's loop (sequence/mod.rs) is `StartSequence`, `RejectStart`,
`Control` and `Shutdown`, one per event it can take. `handle` is
`last_sequence_handle` and its sender: replacing it, or the end of the runner,
drops the sender, and `Received` of the old sequence is then "disconnected".
A sequence thread is a program counter over `execute_actions`: "check" compares
the clock with the deadline, "recv" is `recv_timeout`, "perform" the action,
"paused" `wait_for_resume`. `Overdue` is the branch without a look at the
channel. `AbortMain` starts the abort schedule with the same channel.
Time is per thread: `elapsed` since `schedule_origin`, advanced by `Tick` in any
state, so a thread can be arbitrarily late.

`SequencePromise` is the same without threads, channels or clocks: an action is
performed once its time has come, in order, and only an Abort that was asked for
or a shutdown cuts a schedule short. `SequenceRunner` implements it with `Stage`
for the program counter, the commands in a channel for those asked for, and
`elapsed - pausedFor` for the time a schedule has been under way.

`pausedFor` and `abortDue` are history variables: the ticks really spent paused,
and an Abort that was sent while the main schedule still had an action to start.

### NodeRegistry

`HandleAnnouncement`, `HandleRegistration`, `HandleGroupUpdate`,
`HandleFieldGetRes` and their rejections are the message kinds `handle_message`
passes on; each is one step of the handler thread, the only writer. A field's
name and type are one `Infos` value; a payload is the firmware that encoded it
and the report it came in. Nodes are external: they boot with any firmware at
any time, announce, register in any order, and report. Frames before a reboot
are still handled after it. `Deliver` may lose a frame. `good` and `ok` say how
much of a payload unpacks.

### Lifecycle

`Start` is the list of what `run_with_dependencies` does, in order, and `step`
is where it stands. `Begin` and `Send` make a dispatch one send per step, under
the read lock: `left` are the places in the list of listeners that are still to
come, and the first of them is next. `Subscribe` needs the write lock
(`Unlocked`). `Fail` is any of the `?` in the closure: the scope then joins what
was spawned and its result is dropped. `SequenceRunnerSubscribes` is apart from
its spawn, because the runner subscribes in its own thread. `HandleMessage`
takes a message that updates no value or some, and `DispatchUpdate` dispatches
them one by one (`updates`), as the handler does with a telemetry group.
Heartbeat and sequence threads only start and stop here. Relayed frames and
heartbeats are left out: they add events to the send thread's channel and change
nothing about who hears what. They have models of their own, below.

### SequenceSchedule

`Valid` is `Sequence::validate` with `ValidStep`, `ValidAction` and `Precedes`;
`PushAction` is one iteration of the builder's loop, `InterpolateLinear` the
vector it makes and `Inner` its `pop_front` and `pop_back`. Times are integer
ticks and values are rationals `num / den`, so that division by the span is
exact. The `step` and `action` of an entry are history: its place in the
definition, 0 for an interpolated value. The schedule is in the order in which
the runner takes it, which is not the order of its timestamps. `TickCount` keeps
the cast of an infinity to usize (saturation, bounded by `MaxTicks`) and of NaN
(0).

### DbLogger and FieldLogStore

`TakeUpdate`, `Timeout` and `TakeShutdown` are the arms of the worker's
`recv_timeout`; `FlushBatch` is `flush_batch` with its outcomes: inserted,
refused (too many rows, or for another reason), the connection lost before or
after the commit, or lost before. The Disconnected arm is left out: the
dispatcher outlives the scope. `FieldLogStore` promises that the table is a
prefix of the accepted rows that only grows by the next ones; `DbLogger`
implements it with `stored <- table`.

### FieldAccess

It extends `NodeRegistry` with one caller; callers share nothing but the
registry. `Begin` is the call with the mapping entry its name stands for (by a
mapped name or by `node:field`). `Visit` is one node of `find_map`, under that
node's lock; `Read` is the second lookup of `latest_raw_value`; `Write` and
`Request` encode and dispatch, and `Arrive` is the send thread, the bus and the
node. Between any two of these the handler thread may register nodes anew.
`RawEncodings` and `MappedEncodings` are the set of the values a conversion
makes, empty when it fails; a quotient is the pair of its numerator and
denominator, so that "whole" is exact where the code allows 1e-9. A Float32 is
`Narrowings` of the f64: one of the nearest of its finite values (`Singles`), or
an infinity, the pair with the denominator 0, from `Overflow` on. The finite
values of the real type are all multiples of 2^-149, which `Scale` stands for.
`target.as` is history: the firmware of the entry that was looked up.

### CanBus and RelayBus

`CheckShutdown`, `ReadFrame` or `ReadTimeout`, and `DispatchFrame` are one turn
of `can_recv_thread`: a frame is read, and dispatched a step later, so that
threads of several interfaces interleave. A frame is its number in the order of
arrival and a kind, which says where `receive_frame` sends it or that it refuses
it; a read error without a frame changes as little as a time-out. `Receive`,
`SkipSource`, `WriteFrame` and `WriteFails` are `can_send_thread` with `socket`
as the variable of its loop. `channel` is kept as a log with `taken` of it
received, so that `written` can refer to it. Heartbeats, registration and
commands are `DispatchMessage`; `DispatchShutdown` goes from one thread to the
next. `RelayBus` is the hub without threads: one order of events on all
interfaces, no duplicate, nothing back to its source, nothing behind a Shutdown.

### Heartbeat

`Ask` and `PassOver` are one node of `dispatch_heartbeat_requests`, `Panic` the
overflow of `counter + 1` in a build with overflow checks (`checked`, arbitrary
and constant). `Timeout`, `EndRound` and `TakeShutdown` are the thread's loop,
with the deadline relative to the clock, so that a process that was suspended is
a deadline long past. `HandleAnswer` and `Replace` are the handler's: an answer
is filed in whatever entry the node has by then. Nodes echo the counter they
were asked with, as late as they like; messages keep their order and may be
lost. `about` and `ages` are history: which request a counter belongs to, and
how long ago the last two rounds began.

### Mapping

One action per file of the sorted directory (`LoadFile`, `RefuseFile`), and
`Finish`, which validates the whole. `Validate` with `ValidEntry`, `Clash`,
`Rejects` and the operators on ranges is the code's validation; `Panics` is its
`partial_cmp().unwrap()` on a NaN, wherever the entry stands in the file, so that
`NeverPanics` says more than the order of the checks would. A f64 is a whole
number between the infinities, or NaN; bounds are even, so that there is a value
between any two. Names, field names and directories are small sets, with blank
names and names with a colon among them.

## 4. The runs

| Run | Checks | Bounds, and why they suffice |
|---|---|---|
| runner | one live sequence, and it is the handle's; no sender dropped in silence; implements SequencePromise; shutdown ends every thread; a sequence ends unless held; a held one honours Abort | two sequences, four events, one paused tick, three ticks per schedule: a pause and a hold in one execution, a restart after a finished sequence, two commands queued behind a deadline |
| runner_abort_lost, runner_stale_resume | violations, section 6 | one event, one paused tick and one tick more |
| registry | registered is complete and registering is not; the cache is what was dispatched; and unless a frame was lost: tables of one boot, values decoded as sent; a boot behind the last lost frame ends registered | one node (nodes share no state), three firmwares of which one has no fields, two reboots, three frames in flight, two reports, one frame lost: messages of three boots meet |
| lifecycle | types; nothing unheard: request answered, updates logged; shutdown returns; request sent | two interfaces, a database, one frame with up to two values: every two dispatchers meet |
| lifecycle_late_subscriber | violation, section 6 | one interface, two frames |
| schedule | within the globals; nothing defined lost; steps apart; values on the way; the timestamps of interpolated values are an interval apart, and the last is less than two before the defined value | every definition of one step with up to two sets, of two steps of which one has two, and of three short steps; times -2 to 4, intervals 0, 1 and 2: spans that are and are not multiples of the interval, invalid definitions too. Those of one and of three steps also within globals that start from -2 to 1 and end from -2 to 2: starts that are too late, ends before the start, steps outside |
| access | a read is of the field named; a request reaches the field named, and sets parameters only; what is written is what was asked for | one node, two firmwares of a device with the ids swapped and one of another device with a parameter of the same name; two reboots, two frames in flight, one lost, one report, one request under way: an id changes its meaning between any two steps of a call. Six inputs, slopes of both signs, integers, a Boolean and a Float of two bits of precision: each way to fail, values that a Float holds, rounds and makes infinite |
| db_logger | nothing lost; batch bounded; implements FieldLogStore; all stored in the end | limit two, inserts of at most four rows, six updates, two refusals: a batch can outgrow an insert |
| can_bus | only failed writes are missing; frames dispatched as they arrived; implements RelayBus; what is for another node reaches the other interfaces | two interfaces, two frames of any kind, one message of the server, one failed write: each thread meets every other in each of its steps, a failure has a socket before or behind it |
| heartbeat | the counters tell the lag; no burst; an answer to an old entry does no lasting harm; a registered node is asked for ever; Shutdown ends the thread | one node (nodes share only the thread, whose order over them is free), counters of two values, a period of two ticks, deadlines up to three ticks past, two messages each way: a wrap with answers of two entries under way, more than one missed deadline |
| mapping | names and raw fields resolve; no value has two logical values; refused for a cause; no comparison panics | one entry with any two ranges over 0, the infinities and NaN, three ranges in any order, any single entry; two files of any kind with up to two entries of a node, or two nodes: each clash within and across files |

Type invariants are `TypeOK` (`AccessTypeOK`) of each module and proved, section
7. That of `Lifecycle` is checked by its run as well: a dispatch in progress that
has nobody left to send to would hold the lock for ever.

`MaxRuns`, `MaxEvents`, `MaxPause`, `Horizon`, `MaxBoots`, `MaxInbox`,
`MaxReports`, `MaxLost`, `MaxWire`, `MaxFrames`, `MaxFields`, `MaxUpdates`,
`MaxRefusals`, `MaxCommands`, `MaxFailures` and `MaxLate` are bounds of the
models and not of the code. `BatchSizeLimit`, `MaxRows`, `MaxTicks`, `Width`,
`Interval`, `Inf`, `Scale`, `Singles` and `Overflow` stand for limits and values
the code has. Deadlock checking is off in all runs: an application whose
operator is silent, and a thread or loader that has ended, stop rightly.

## 5. Fairness

Weak fairness throughout, of threads and never of people. A thread that can run
is scheduled, a dispatch in progress ends (an mpsc send does not block), a
subscriber gets the lock once nobody dispatches, a clock runs. Not assumed: that
an operator acts, that a step of the start fails, that a hold's condition takes
a particular value, that a statement is refused or a connection breaks, that a
frame is lost. A booted node sends what it has to send; `EventuallyRegistered`
is about a boot of a node: it promises nothing of one whose own frames are lost,
because nobody asks again for a lost registration, and everything of the next.
In `FullShutdownReturns` weak fairness of a subscriber is enough because frames
are bounded; a std `RwLock` gives a waiting writer its turn.

`ReachesOthers` needs that a receive thread and the send thread are scheduled and
that a write returns. `AskedForever` and `ShutdownEnds` need the heartbeat thread,
the handler and the clock; that a node answers is not assumed. `Mapping` has no
liveness to show: its loop is over a finite directory.

## 6. Where the code and its documents part

Three are runs that TLC finds violated; `PROJECT.json` quotes the lines.

- An Abort is not seen while the schedule is late, nor after the last action:
  the main sequence ends normally (sequence_runner.rs:124).
- A Resume sent while a sequence runs can be left in the channel and releases a
  later hold (sequence_runner.rs:130).
- The sequence runner can subscribe after Shutdown was dispatched, and then the
  application does not end (sequence/mod.rs:20).

Four more are in what the properties that hold can say, and no more:

- Where the interval does not divide the span, the builder removes the last
  interpolated value as if it were the defined one (sequence_builder.rs:51). The
  comment at line 49 says that the element removed is "already contained in the
  sequence definition", and that at line 72 that the list includes the `to` value.
  `TimestampsPaced` is therefore about a gap of up to two intervals.
- `interpolation_interval` is "the frequency (seconds) at which interpolated
  values are recalculated and sent" (src/sequences/README.md:11). It is the
  distance of their timestamps. They are appended when their parameter's next
  action comes, behind actions of other parameters and holds that are due later
  (sequence_builder.rs:60), and what is due by then is sent late and at once.
- "raw value must be finite" (mapping.rs:448) is asked of the f64 only: narrowed
  to Float32 it is infinite beyond the range of one, and sent (mapping.rs:451).
  `AsAsked` admits that infinity, and inputs of the run reach it.
- A read that a re-registration overtakes returns the value of whatever field has
  the id by then, scaled by the mapping of the one named (node_manager.rs:510).
  `ReadIsOfField` excludes it, and does not hold without that premise.

Some things a reader of the code may trip over are modelled as they are and not
counted as disagreements: a second Abort ends the abort sequence half-way
(`AbortAbort`); a node that is complete when it announces leaves an older
partial registration among the registering ones (`HandleAnnouncement`), which
the registry's run shows to do no harm while no frame is lost; a conditional
hold whose field has no value is passed (`PassAction`); a start that failed
half-way returns Ok, because the scope's result is dropped (`Fail`, lib.rs:34);
a write that a re-registration overtakes sets whatever parameter has the id by
then, as a request asks for it, which is why `RequestsReachField` excludes them:
nothing says that the node checks; a sequence writes JSON floats, so that it
cannot set an integer or Boolean parameter by its raw name (`RawEncodings`),
only by its mapped one; logical ranges may leave gaps, which a test expects
(mapping.rs:697), although a comment calls them a partition of all values
(mapping.rs:274), so that `Unambiguous` says at most one and not exactly one; an
interval of 0 loads, and saturates the tick count (`TickCount`); two registered
nodes that announce one device name are found in the order of the map
(node_manager.rs:526), and the runs have one node; in a build with overflow
checks the heartbeat thread panics after 2^32 requests to one entry (`Panic`).

## 7. What is proved

For every value of the constants that satisfies the assumptions named below.

- `SequenceRunnerProofs` (`PlansAssumption`, `BoundsAssumption`): `TypeCorrect`,
  `SoleSequence` (OnlyHandleActive), `Punctual` (NeverEarly), `AlwaysTold`
  (NoSilentDisconnect). The invariant adds that runs beyond the handle have not
  begun (`Unspawned`), that a thread which waits or performs still has the
  action it does so for (`ActionPending`), and that `pauseOffset` plus the pause
  in progress equals the ticks really paused (`PausesCounted`): without it
  `NeverEarly` does not survive a Resume. `PromiseKept` (KeepsPromise) is the
  refinement of `SequencePromise`: with that invariant, and the fact that a
  Shutdown in a channel means that the runner has stopped (`StopTold`), every
  step is a step of the promise or a stutter.
- `RegistryProofs`, of `NodeRegistry` (`ProfilesAssumption`,
  `FirmwareAssumption`, `BoundsAssumption`) and of `FieldAccess` on top of it
  (`MappingAssumption`, `AccessAssumption`), along four invariants:
  - `RegistryInv` gives `TypeCorrect`, `Split` (CompletenessSplit) and
    `CacheFollowsLog` (CacheIsLogged). It adds that the values of a registering
    node are empty, which is what lets it replace a registered one.
  - `BootsApart` gives `OneBoot` (TablesOfOneBoot) and `DecodedByItsFirmware`
    (DecodedAsSent), which speak of a bus that has lost nothing. Neither is
    inductive: whether a registration belongs to the entry it goes to depends on
    what is queued before it. `HeardAs(n, c)` therefore reads the queue of a node
    boot by boot: behind what is left of the registrations of the firmware in c
    come an announcement, the registrations of its firmware in any order, and
    only then its reports; the entry the next registration goes to is part of
    the firmware in c (`Partial`). That a node counts as registered exactly when
    everything of its firmware was handled is a matter of cardinalities, and is
    where `FirmwareAssumption` is needed: the groups have as many places as there
    are telemetry fields, and none is empty.
  - `AccessInv` gives `AccessTypeCorrect` and `SentAsAsked` (WrittenAsAsked). The
    lemmas `RawAsAsked` and `MappedAsAsked` say of every type, slope and input
    that a conversion makes the value asked for or none, and of a Float32 that no
    other one lies from the value asked for up to the one sent (`NarrowedTo`),
    whichever way the slope turns them; the invariant carries that to every
    request on its way. `RegistryUndisturbed` shows that a call is
    a stuttering step of `NodeRegistry`, so that its theorems hold while calls
    run. `ReachInv` puts the two together: a call that has found its target has
    found a field that the name means on the firmware found (`TargetsMeant`),
    because the tables it looked in are that firmware's (`BootsApart`). It gives
    `ReadOfField` (ReadIsOfField) and `RequestsOfField` (RequestsReachField).
- `LifecycleProofs` (`ConfigAssumption`): `TypeCorrect` and `Unheard`
  (NothingUnheard), for any number of interfaces and with a database or without.
  The invariant ties the threads to the list of the start: whatever step it has
  come past has subscribed its thread, but for the sequence runner
  (`DoneSubscribed`), a thread only runs behind its own step (`RunsWhenDone`), and
  so does the first request (`RequestedWhenDone`); the order of `Start` does the
  rest.
- `SequenceScheduleProofs` (`DefinitionAssumption`): `TypeCorrect` (in
  particular, no value divided by an empty span reaches a schedule),
  `NothingOutside` (WithinGlobals). The invariant adds that what is built is
  valid, and that every remembered value lies within the globals, in both
  directions: predecessors may be later than their successors, and the lemmas
  about `InterpolateLinear` show that then nothing is inserted. On it rest two
  more:
  - `KeptInv` says which actions are in the schedule: those before the next one
    (`Done`), each at its place in the order of the definition. It gives
    `EveryActionKept` (DefinedKept) and, since the times of the steps grow,
    `StepByStep` (StepsApart).
  - `WayInv` says where an interpolation starts: the last entry of the parameter
    is the value remembered of it (`LastScheduled`). The lemmas `InnerShape`,
    `TickBetween` and `TickGaps` say of every two values and every interval how
    far the ticks are apart and between what they lie. It gives `NeverBeyond`
    (OnTheWay) and `TimestampsAtPace` (TimestampsPaced), which is about the
    timestamps in a schedule and not the times of sending.
- `DbLoggerProofs` (`LimitsAssumption`): `TypeCorrect`, `Conserved`
  (NothingLost), `Bounded` (BatchBounded), `Refinement` (Implements). The
  invariant adds that a lost connection counts as a failure (`LostIsFailed`).
  While the connection stands, `NothingLost` places the batch right behind the
  table, so that a flush is a `Store` step; when it is lost the table does not
  change any more, and every step is an `Accept` or a stutter.
- `CanBusProofs` (`BoundsAssumption`): `TypeCorrect`, `FailuresContained`
  (OnlyFailuresMissing), `Refinement` (Implements), `KeepsArrivalOrder`
  (DispatchedAsArrived). The invariant adds that the
  send thread has come past no Shutdown while it runs, goes through the sockets
  only then, and has written nothing ahead of where it is (`WrittenSoFar`): what
  it writes next is therefore behind everything written on any interface.
  For the order of arrival it follows a frame from the buffer of the socket
  (`Waiting`) to the hand of the receive thread (`InHand`) and past it
  (`PastFirst`): each only holds frames behind those in the next.
- `HeartbeatProofs` (`BoundsAssumption`): `TypeCorrect`, `CountersDecoded`
  (CountersTell), `NeverInBursts` (NoBurst), `StaleRecovers` (StaleEnds). The
  invariant of a node says of its counters and of every message on its way in
  either direction what they are about, and that behind one about the current
  entry come only such, of no earlier request (`NodeInv`); that of the clock
  bounds the ages of the last two rounds by the deadline (`TimingInv`).
- `MappingProofs` (`MappingAssumption`): `TypeCorrect`, `Comparisons`
  (NeverPanics), `NamesResolve` (Resolves), `RulesUnambiguous` (Unambiguous),
  `RefusalsCaused` (RefusedForCause). The lemmas about ranges show that an
  intersection is non-empty exactly when a value is in both, which needs a value
  between any two bounds; the invariants, that what has been put together holds
  the entries of the files loaded, no two of them from one place (`Unmerged`).

Properties of an order (`DispatchedAsArrived`, `DefinedKept`) are stated by the
places in the sequences and not with `SelectSeq` or `FlattenSeq`, which are
recursive and therefore nothing to the provers. Induction over the steps of a
sequence (`StepTimesGrow`) and over the files of a directory (`MinFacts`) takes
the least element of a set of numbers, which the library has as
`NatLessThanWellFounded`, instead of an induction principle over a predicate.

Only model-checked: liveness (`ShutdownStops`, `RunEndsUnlessHeld`,
`HeldAbortHonoured`, `EventuallyRegistered`, `FullShutdownReturns`, `RequestSent`,
`AllStored`, `ReachesOthers`, `AskedForever`, `ShutdownEnds`), because fairness
and ENABLED are beyond the prover; and the violations, which are about one
behaviour each.

## 8. Limits

- f64 is replaced by integers and rationals: where the code's quotient rounds
  below a whole number it makes one tick fewer than the model.
- Float32 is rounded to a nearest value, and halfway to either, where the code
  rounds to the even one; that an integer of JSON or a quotient has been rounded
  to an f64 before is left out.
- `SequenceSchedule` has no infinite or undefined times and values, which TOML can
  write. Only the interval is checked to be finite: a NaN fails the comparisons
  of `Valid`, but a `start_time` of -inf passes them and makes the sequence
  thread panic (sequence_runner.rs:120); an `end_time` of inf bounds nothing.
- The rows a worker receives after Shutdown are not modelled: nobody reads them.
- The registry's handler is one atomic step per message. Its concurrent
  readers are `FieldAccess`; the heartbeats' own fields are in `Heartbeat`, with
  registration reduced to its last message.
- `NodeRegistry` takes announcements whose counts are those of the firmware; a
  node that lies about its counts is outside the model.
- Panics are modelled in `Heartbeat` and `Mapping`; elsewhere only
  `WithinGlobals` rules one out, that of a negative timestamp, and not that of an
  infinite one.
- `CanBus`: interfaces have different names (the relay compares names), and a
  message of the server that cannot be made into a frame, which is logged and
  skipped, is left out.
- `Heartbeat`: a round of more than one node is proved about, not run. An
  interval of 0 makes the thread a busy loop, which the theorems cover.
- `Mapping`: two f64 with none in between are left out, as are node names with a
  colon and `load_mapping_from_file`, which only tests call. The conversion of
  what is read is one multiplication and one addition of f64.
