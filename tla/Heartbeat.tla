----------------------------- MODULE Heartbeat -----------------------------
(***************************************************************************)
(* The heartbeat thread (src/src/nodes/mod.rs), the requests it dispatches *)
(* and the answers the message handler files (nodes/node_manager.rs).      *)
(*                                                                         *)
(* A round asks one registered node after the other, each under its own    *)
(* lock, while the handler files answers and replaces entries of nodes     *)
(* that have registered anew.  Nodes echo the counter they are asked with, *)
(* as late as they like; channels and buses keep the order of the messages *)
(* and may lose them.  Time is relative: the deadline and the rounds past  *)
(* are so many ticks away, which keeps the model finite.                   *)
(***************************************************************************)
EXTENDS Integers, SequencesExt

CONSTANTS
    Nodes,
    Width,     \* number of values of a counter, 2^32
    Interval,  \* heartbeat_period, in ticks
    MaxLate,   \* bound: ticks a deadline can be past
    MaxWire    \* bound: messages to, and from, a node

ASSUME BoundsAssumption ==
    /\ Width \in Nat \ {0} /\ Interval \in Nat /\ MaxLate \in Nat /\ MaxWire \in Nat

VARIABLES
    thread,      \* where the heartbeat thread is
    left,        \* the nodes its round has still to come to
    due,         \* ticks until next_heartbeat_at
    stop,        \* Shutdown is in its channel
    checked,     \* overflow-checks of the build: on in debug, off in release
    sent,        \* node -> counter of latest_heartbeat_sent, or None
    received,    \* node -> counter of latest_heartbeat_received, or None
    registered,  \* the nodes that have an entry
    toNode,      \* node -> requests on their way to it
    toServer,    \* node -> its messages on their way to the handler
    about,       \* history: which request the counter received answers
    ages         \* history: ticks since the last round began, and the one before

timing == <<due, ages>>
entries == <<sent, received, registered, about>>
wires == <<toNode, toServer>>
vars == <<thread, left, timing, stop, checked, entries, wires>>

None == -1
Counter == 0..(Width - 1)

\* History, what a message or a counter is about: a request from the current
\* entry of its node (own) after which lag more were sent, or an older one.
About == [own : BOOLEAN, lag : 0..Width]
Stale == [own |-> FALSE, lag |-> 0]
Latest == [own |-> TRUE, lag |-> 0]
Message == [kind : {"request", "answer"}, counter : Counter, about : About]
              \cup [kind : {"registered"}, counter : {None}, about : {Stale}]

TypeOK ==
    /\ thread \in {"first", "waiting", "round", "ended", "panicked"}
    /\ left \subseteq Nodes
    /\ due \in (-MaxLate)..Interval
    /\ stop \in BOOLEAN /\ checked \in BOOLEAN
    /\ sent \in [Nodes -> Counter \cup {None}]
    /\ received \in [Nodes -> Counter \cup {None}]
    /\ registered \subseteq Nodes
    /\ toNode \in [Nodes -> Seq(Message)]
    /\ toServer \in [Nodes -> Seq(Message)]
    /\ about \in [Nodes -> About]
    /\ ages \in (0..Interval) \X (0..Interval)

\* The thread starts with a round, before it has a deadline.
Init ==
    /\ thread = "first"
    /\ left = Nodes
    /\ due = Interval
    /\ stop = FALSE
    /\ checked \in BOOLEAN
    /\ sent = [n \in Nodes |-> None]
    /\ received = [n \in Nodes |-> None]
    /\ registered = {}
    /\ toNode = [n \in Nodes |-> <<>>]
    /\ toServer = [n \in Nodes |-> <<>>]
    /\ about = [n \in Nodes |-> Stale]
    /\ ages = <<0, Interval>>

-----------------------------------------------------------------------------
(* History.                                                                *)

Older(a) == IF a.own /\ a.lag < Width THEN [a EXCEPT !.lag = @ + 1] ELSE a
AllNow(q, Op(_)) == [k \in DOMAIN q |-> [q[k] EXCEPT !.about = Op(@)]]
Disowned(a) == Stale

\* One request more is dispatched to n, or its entry is a new one: what is on
\* the way is about an older request, or about one of no concern.
AllOlder(n) ==
    /\ toServer' = [toServer EXCEPT ![n] = AllNow(@, Older)]
    /\ about' = [about EXCEPT ![n] = Older(@)]

-----------------------------------------------------------------------------
(* dispatch_heartbeat_requests.                                            *)

InRound == thread \in {"first", "round"}

\* counter + 1, or 0 where none was sent.  Mutant: it stops at the largest
\* one.
NextCounterSaturating(n) == IF sent[n] = Width - 1 THEN sent[n] ELSE sent[n] + 1
NextCounter(n) == IF sent[n] \in {None, Width - 1} THEN 0 ELSE sent[n] + 1

\* counter + 1 is beyond u32.  Mutant: that is always an error.
OverflowsUnchecked(n) == sent[n] = Width - 1
Overflows(n) == checked /\ sent[n] = Width - 1

Request(n) == [kind |-> "request", counter |-> NextCounter(n), about |-> Latest]

\* The round comes to n: it is asked, and the request can get lost.
Ask(n) ==
    /\ InRound /\ n \in left /\ n \in registered /\ ~Overflows(n)
    /\ left' = left \ {n}
    /\ sent' = [sent EXCEPT ![n] = NextCounter(n)]
    /\ AllOlder(n)
    /\ \/ toNode' = [toNode EXCEPT ![n] = AllNow(@, Older)]
       \/ /\ Len(toNode[n]) < MaxWire
          /\ toNode' = [toNode EXCEPT ![n] = Append(AllNow(@, Older), Request(n))]
    /\ UNCHANGED <<thread, timing, stop, checked, received, registered>>

\* A node that is not registered is not in the map.
PassOver(n) ==
    /\ InRound /\ n \in left /\ n \notin registered
    /\ left' = left \ {n}
    /\ UNCHANGED <<thread, timing, stop, checked, entries, wires>>

\* A build with overflow checks panics, and the thread is gone.
Panic(n) ==
    /\ InRound /\ n \in left /\ n \in registered /\ Overflows(n)
    /\ thread' = "panicked"
    /\ UNCHANGED <<left, timing, stop, checked, entries, wires>>

-----------------------------------------------------------------------------
(* The loop of spawn_heartbeat_thread.                                     *)

\* next_heartbeat_at after a round: an interval on, but never in the past.
\* Mutant: wherever that is.
NextDueUnskipped == due + Interval
NextDue == IF due + Interval < 0 THEN 0 ELSE due + Interval

EndRound ==
    /\ InRound /\ left = {}
    /\ due' = IF thread = "first" THEN Interval ELSE NextDue
    /\ thread' = "waiting"
    /\ UNCHANGED <<left, stop, checked, ages, entries, wires>>

\* recv_timeout looks at the channel before the clock.
TakeShutdown ==
    /\ thread = "waiting" /\ stop
    /\ thread' = "ended"
    /\ UNCHANGED <<left, timing, stop, checked, entries, wires>>

\* Mutant of Expired: the clock first.
ExpiredFirst == due <= 0
Expired == due <= 0 /\ ~stop

Timeout ==
    /\ thread = "waiting" /\ Expired
    /\ thread' = "round"
    /\ left' = Nodes
    /\ ages' = <<0, ages[1]>>
    /\ UNCHANGED <<due, stop, checked, entries, wires>>

Thread == \/ \E n \in Nodes : Ask(n) \/ PassOver(n) \/ Panic(n)
          \/ EndRound \/ TakeShutdown \/ Timeout

-----------------------------------------------------------------------------
(* handle_heartbeat_res, and the messages that replace an entry.           *)

\* The answer is filed in the entry the node has now, whichever it was for.
HandleAnswer(n, m) ==
    /\ m.kind = "answer" /\ n \in registered
    /\ received' = [received EXCEPT ![n] = m.counter]
    /\ about' = [about EXCEPT ![n] = m.about]
    /\ UNCHANGED <<sent, registered, toNode>>

RejectAnswer(n, m) ==
    /\ m.kind = "answer" /\ n \notin registered
    /\ UNCHANGED <<entries, toNode>>

\* can_nodes.insert of a node that is complete: a CanNode::new, asked nothing
\* yet.
Replace(n, m) ==
    /\ m.kind = "registered"
    /\ registered' = registered \cup {n}
    /\ sent' = [sent EXCEPT ![n] = None]
    /\ received' = [received EXCEPT ![n] = None]
    /\ about' = [about EXCEPT ![n] = Stale]
    /\ toNode' = [toNode EXCEPT ![n] = AllNow(@, Disowned)]

HandleFrom(n, m, rest) ==
    /\ HandleAnswer(n, m) \/ RejectAnswer(n, m) \/ Replace(n, m)
    /\ toServer' = [toServer EXCEPT ![n] =
                      IF m.kind = "registered" THEN AllNow(rest, Disowned) ELSE rest]
    /\ UNCHANGED <<thread, left, timing, stop, checked>>

\* One thread handles the messages in their order.  Mutant: the newest first.
HandleNewest(n) ==
    toServer[n] # <<>> /\ HandleFrom(n, Last(toServer[n]), Front(toServer[n]))
Handle(n) ==
    toServer[n] # <<>> /\ HandleFrom(n, Head(toServer[n]), Tail(toServer[n]))

-----------------------------------------------------------------------------
(* The nodes, the operator and the clock.                                  *)

Post(n, m) == \/ UNCHANGED toServer
              \/ /\ Len(toServer[n]) < MaxWire
                 /\ toServer' = [toServer EXCEPT ![n] = Append(@, m)]

\* HeartbeatRes; it can get lost.
Answer(n) ==
    /\ toNode[n] # <<>>
    /\ Post(n, [Head(toNode[n]) EXCEPT !.kind = "answer"])
    /\ toNode' = [toNode EXCEPT ![n] = Tail(@)]
    /\ UNCHANGED <<thread, left, timing, stop, checked, entries>>

\* The node, which may have been registered before, sends the last message
\* of its registration.
Register(n) ==
    /\ Len(toServer[n]) < MaxWire
    /\ Post(n, [kind |-> "registered", counter |-> None, about |-> Stale])
    /\ UNCHANGED <<thread, left, timing, stop, checked, entries, toNode>>

RequestShutdown ==
    /\ stop' = TRUE
    /\ UNCHANGED <<thread, left, timing, checked, entries, wires>>

Aged(a) == IF a < Interval THEN a + 1 ELSE a

Tick ==
    /\ due > -MaxLate
    /\ due' = due - 1
    /\ ages' = <<Aged(ages[1]), Aged(ages[2])>>
    /\ UNCHANGED <<thread, left, stop, checked, entries, wires>>

Next ==
    \/ Thread
    \/ \E n \in Nodes : Handle(n) \/ Answer(n) \/ Register(n)
    \/ RequestShutdown \/ Tick

Spec == Init /\ [][Next]_vars

\* The thread is scheduled, the handler too, and time passes.
FairSpec ==
    /\ Spec
    /\ WF_vars(Thread) /\ WF_vars(Tick)
    /\ \A n \in Nodes : WF_vars(Handle(n))

-----------------------------------------------------------------------------
(* Properties.                                                             *)

\* However late the thread wakes up, the rounds it has missed are not made up
\* for: no three rounds begin within less than the interval.
NoBurst == [][Timeout => ages[2] = Interval]_vars

\* The two counters of an entry tell how far behind a node is: once an answer
\* to this entry has been filed, their difference is the number of requests
\* sent since the one it answers, a wrap in between or not.
CountersTell ==
    \A n \in Nodes : about[n].own /\ about[n].lag < Width =>
        sent[n] - received[n] \in {about[n].lag, about[n].lag - Width}

\* A counter of the entry before can be filed in a new one; but once the node
\* has answered the new one, that is over, and answers come in their order.
StaleEnds ==
    [][\A n \in Nodes : about[n].own /\ sent'[n] # None =>
          /\ about'[n].own
          /\ received'[n] # received[n] => about'[n].lag <= about[n].lag]_vars

\* A node that is registered is asked again and again, whatever its counter is,
\* until the thread is stopped or a build with overflow checks panics.
AskedForever ==
    \A n \in Nodes :
        <>(n \in registered) =>
            \/ <>(stop \/ (checked /\ thread = "panicked"))
            \/ []<><<Ask(n)>>_vars

\* Shutdown ends the thread, even where every round outlasts the interval.
ShutdownEnds == stop ~> thread \in {"ended", "panicked"}

=============================================================================
