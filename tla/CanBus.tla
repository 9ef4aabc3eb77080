------------------------------- MODULE CanBus -------------------------------
(***************************************************************************)
(* The CAN receive and send threads (src/src/can/mod.rs).  One receive     *)
(* thread per interface hands frames for the server to the message handler *)
(* and all others to the send thread, which writes them on every other     *)
(* interface, and the server's own messages on all of them.                *)
(*                                                                         *)
(* Interfaces are numbered in the order of their sockets, and have         *)
(* different names.  A frame is its number in the order of arrival; the    *)
(* channels are logs, of which the send thread has taken the first part.   *)
(***************************************************************************)
EXTENDS Integers, FiniteSets, SequencesExt

CONSTANTS
    N,            \* number of interfaces
    MaxFrames,    \* bound: frames the nodes send
    MaxCommands,  \* bound: messages of the server
    MaxFailures   \* bound: writes that fail

ASSUME BoundsAssumption ==
    /\ N \in Nat \ {0}
    /\ MaxFrames \in Nat /\ MaxCommands \in Nat /\ MaxFailures \in Nat

Interfaces == 1..N

\* Who a frame is for: the server, everyone, another node; or it is one that
\* receive_frame refuses (not FD, an invalid receiver, or for the server and
\* unparsable).
Kinds == {"server", "broadcast", "node", "bad"}
Arrival == [from : Interfaces, kind : Kinds]

\* What the send thread subscribes to.
Event == [kind : {"send"}, from : {0}, frame : {0}]
            \cup [kind : {"relay"}, from : Interfaces, frame : 1..MaxFrames]
            \cup [kind : {"shutdown"}, from : {0}, frame : {0}]
SendCanMessage == [kind |-> "send", from |-> 0, frame |-> 0]
RelayCanMessage(n, i) == [kind |-> "relay", from |-> i, frame |-> n]
Shutdown == [kind |-> "shutdown", from |-> 0, frame |-> 0]

VARIABLES
    arrivals,  \* history: the frames that came in, in order
    rx,        \* interface -> the receive buffer of its socket
    recv,      \* interface -> where its receive thread is
    hand,      \* interface -> the frame the thread has read, or 0
    told,      \* threads that have been sent Shutdown, in subscription order
    handled,   \* the frames sent to the message handler
    channel,   \* the events sent to the send thread, in order
    taken,     \*   and how many of them it has received
    socket,    \* the socket the send thread comes to next, 0 in recv()
    sending,   \* the send thread runs
    written,   \* interface -> the events written on it, by their place in channel
    failed     \* history: the event and the interface of each write that failed

recvVars == <<arrivals, rx, recv, hand, handled>>
sendVars == <<taken, socket, sending, written, failed>>
vars == <<recvVars, told, channel, sendVars>>

TypeOK ==
    /\ arrivals \in Seq(Arrival) /\ Len(arrivals) <= MaxFrames
    /\ rx \in [Interfaces -> Seq(1..MaxFrames)]
    /\ recv \in [Interfaces -> {"check", "read", "dispatch", "ended"}]
    /\ hand \in [Interfaces -> 0..MaxFrames]
    /\ told \in 0..(N + 1)
    /\ handled \in Seq(1..MaxFrames)
    /\ channel \in Seq(Event)
    /\ taken \in 0..Len(channel)
    /\ socket \in 0..N
    /\ sending \in BOOLEAN
    /\ written \in [Interfaces -> Seq(Nat \ {0})]
    /\ failed \subseteq (Nat \ {0}) \X Interfaces

Init ==
    /\ arrivals = <<>>
    /\ rx = [i \in Interfaces |-> <<>>]
    /\ recv = [i \in Interfaces |-> "check"]
    /\ hand = [i \in Interfaces |-> 0]
    /\ told = 0
    /\ handled = <<>>
    /\ channel = <<>>
    /\ taken = 0
    /\ socket = 0
    /\ sending = TRUE
    /\ written = [i \in Interfaces |-> <<>>]
    /\ failed = {}

-----------------------------------------------------------------------------
(* The other threads, and the nodes on the bus.                            *)

\* dispatch: the channel of a thread that has ended refuses the event.
SendTo(e) == channel' = IF sending THEN Append(channel, e) ELSE channel

\* A heartbeat, a registration or a command has something to send.
DispatchMessage ==
    /\ Len(SelectSeq(channel, LAMBDA e : e = SendCanMessage)) < MaxCommands
    /\ SendTo(SendCanMessage)
    /\ UNCHANGED <<recvVars, told, sendVars>>

\* dispatch(Shutdown) comes to the next of the threads: the receive threads
\* have subscribed one after the other, and then the send thread.
DispatchShutdown ==
    /\ told <= N
    /\ told' = told + 1
    /\ IF told = N THEN SendTo(Shutdown) ELSE UNCHANGED channel
    /\ UNCHANGED <<recvVars, sendVars>>

\* A node puts a frame on its bus.  FerroFlow's own frames do not come back:
\* set_recv_own_msgs(false).
FrameArrives(i, kind) ==
    /\ Len(arrivals) < MaxFrames
    /\ arrivals' = Append(arrivals, [from |-> i, kind |-> kind])
    /\ rx' = [rx EXCEPT ![i] = Append(@, Len(arrivals) + 1)]
    /\ UNCHANGED <<recv, hand, told, handled, channel, sendVars>>

-----------------------------------------------------------------------------
(* can_recv_thread.                                                        *)

Goto(i, from, to) == recv[i] = from /\ recv' = [recv EXCEPT ![i] = to]

\* try_recv on the thread's own channel.
CheckShutdown(i) ==
    /\ Goto(i, "check", IF told >= i THEN "ended" ELSE "read")
    /\ UNCHANGED <<arrivals, rx, hand, told, handled, channel, sendVars>>

ReadTimeout(i) ==
    /\ rx[i] = <<>>
    /\ Goto(i, "read", "check")
    /\ UNCHANGED <<arrivals, rx, hand, told, handled, channel, sendVars>>

\* receive_frame up to its dispatch.  A frame that is refused is logged, and
\* the loop goes on.  Mutant: the error ends the thread.
ReadFrameOrFail(i) ==
    /\ rx[i] # <<>>
    /\ rx' = [rx EXCEPT ![i] = Tail(@)]
    /\ LET n == Head(rx[i])
       IN  IF arrivals[n].kind = "bad"
           THEN Goto(i, "read", "ended") /\ UNCHANGED hand
           ELSE Goto(i, "read", "dispatch") /\ hand' = [hand EXCEPT ![i] = n]
    /\ UNCHANGED <<arrivals, told, handled, channel, sendVars>>
ReadFrame(i) ==
    /\ rx[i] # <<>>
    /\ rx' = [rx EXCEPT ![i] = Tail(@)]
    /\ LET n == Head(rx[i])
       IN  IF arrivals[n].kind = "bad"
           THEN Goto(i, "read", "check") /\ UNCHANGED hand
           ELSE Goto(i, "read", "dispatch") /\ hand' = [hand EXCEPT ![i] = n]
    /\ UNCHANGED <<arrivals, told, handled, channel, sendVars>>

\* Mutant of ForServer: a broadcast is relayed, not handled.
ForServerOnly(n) == arrivals[n].kind = "server"
ForServer(n) == arrivals[n].kind \in {"server", "broadcast"}

\* CanMessageReceived or RelayCanMessage.
DispatchFrame(i) ==
    /\ Goto(i, "dispatch", "check")
    /\ hand' = [hand EXCEPT ![i] = 0]
    /\ IF ForServer(hand[i])
       THEN handled' = Append(handled, hand[i]) /\ UNCHANGED channel
       ELSE SendTo(RelayCanMessage(hand[i], i)) /\ UNCHANGED handled
    /\ UNCHANGED <<arrivals, rx, told, sendVars>>

RecvThread(i) == CheckShutdown(i) \/ ReadTimeout(i) \/ ReadFrame(i) \/ DispatchFrame(i)

-----------------------------------------------------------------------------
(* can_send_thread.                                                        *)

\* recv: a message starts the loop over the sockets, Shutdown ends the thread
\* and with it whatever is still in the channel.
Receive ==
    /\ sending /\ socket = 0 /\ taken < Len(channel)
    /\ taken' = taken + 1
    /\ IF channel[taken'] = Shutdown
       THEN sending' = FALSE /\ UNCHANGED socket
       ELSE socket' = 1 /\ UNCHANGED sending
    /\ UNCHANGED <<recvVars, told, channel, written, failed>>

\* The socket after the current one, and 0 after the last.
NextSocket == IF socket = N THEN 0 ELSE socket + 1

\* A frame is not sent back where it came from.  Mutant: it is.
SkipsNone == FALSE
Skips == channel[taken].from = socket

SkipSource ==
    /\ socket # 0 /\ Skips
    /\ socket' = NextSocket
    /\ UNCHANGED <<recvVars, told, channel, taken, sending, written, failed>>

WriteFrame ==
    /\ socket # 0 /\ ~Skips
    /\ written' = [written EXCEPT ![socket] = Append(@, taken)]
    /\ socket' = NextSocket
    /\ UNCHANGED <<recvVars, told, channel, taken, sending, failed>>

\* The write fails and is logged; the next socket has its turn.  Mutant: the
\* error leaves the loop.
WriteFailsAndLeaves ==
    /\ socket # 0 /\ ~Skips /\ Cardinality(failed) < MaxFailures
    /\ failed' = failed \cup {<<taken, socket>>}
    /\ socket' = 0
    /\ UNCHANGED <<recvVars, told, channel, taken, sending, written>>
WriteFails ==
    /\ socket # 0 /\ ~Skips /\ Cardinality(failed) < MaxFailures
    /\ failed' = failed \cup {<<taken, socket>>}
    /\ socket' = NextSocket
    /\ UNCHANGED <<recvVars, told, channel, taken, sending, written>>

SendThread == Receive \/ SkipSource \/ WriteFrame \/ WriteFails

-----------------------------------------------------------------------------

Next ==
    \/ DispatchMessage \/ DispatchShutdown
    \/ \E i \in Interfaces : \E kind \in Kinds : FrameArrives(i, kind)
    \/ \E i \in Interfaces : RecvThread(i)
    \/ SendThread

Spec == Init /\ [][Next]_vars

\* Threads are scheduled; writes return.
FairSpec ==
    /\ Spec
    /\ \A i \in Interfaces : WF_vars(RecvThread(i))
    /\ WF_vars(SendThread)

-----------------------------------------------------------------------------
(* Properties.                                                             *)

\* The hub's promise: order, no duplicate, no echo, one order on all buses,
\* nothing behind a Shutdown.
Relay == INSTANCE RelayBus WITH Stop <- Shutdown, accepted <- channel
Implements == Relay!Spec

\* The send thread is done with the k-th event on i.
PastSocket(k, i) == k < taken \/ (k = taken /\ (socket = 0 \/ i < socket))

\* A write that fails on one interface costs the frame there, and nowhere else:
\* everything else the send thread came past has been written.
OnlyFailuresMissing ==
    \A i \in Interfaces : \A k \in 1..taken :
        PastSocket(k, i) /\ channel[k] # Shutdown /\ channel[k].from # i
            => k \in Range(written[i]) \/ <<k, i>> \in failed

\* The frames of the given kinds that the thread of i has dispatched.
Dispatched(i, kinds) ==
    {n \in DOMAIN arrivals : /\ arrivals[n].from = i /\ arrivals[n].kind \in kinds
                             /\ n \notin Range(rx[i]) /\ n # hand[i]}

\* The places in the handler's log, and in the channel, of what came from i.
HandledFrom(i) == {m \in DOMAIN handled : arrivals[handled[m]].from = i}
RelayedFrom(i) == {m \in DOMAIN channel : channel[m].kind = "relay" /\ channel[m].from = i}

\* Frames are numbered in their order of arrival.
HandledInOrder(i) ==
    /\ \A m, k \in HandledFrom(i) : m < k => handled[m] < handled[k]
    /\ {handled[m] : m \in HandledFrom(i)} = Dispatched(i, {"server", "broadcast"})

RelayedInOrder(i) ==
    LET frames == {channel[m].frame : m \in RelayedFrom(i)}
    IN  /\ \A m, k \in RelayedFrom(i) : m < k => channel[m].frame < channel[k].frame
        /\ frames \subseteq Dispatched(i, {"node"})
        /\ \A n \in Dispatched(i, {"node"}) \ frames :
              ~sending /\ \A f \in frames : f < n

\* The handler gets what came in on an interface for the server, and nothing
\* else, in the order in which it came in, once, with other threads in between;
\* and the send thread gets what was for other nodes, all that came before the
\* thread ended.
DispatchedAsArrived == \A i \in Interfaces : HandledInOrder(i) /\ RelayedInOrder(i)

IsWritten(n, j) == \E m \in DOMAIN written[j] : channel[written[j][m]].frame = n
HasFailed(n, j) == \E f \in failed : channel[f[1]].frame = n /\ f[2] = j

\* A frame for another node that has come in is written on every other
\* interface, whatever bad frames and failing writes there are, unless the
\* write of this one fails, or Shutdown comes in between.
ReachesOthers ==
    \A n \in 1..MaxFrames : \A j \in Interfaces :
        (/\ n <= Len(arrivals)
         /\ arrivals[n].kind = "node" /\ arrivals[n].from # j)
            ~> (IsWritten(n, j) \/ HasFailed(n, j) \/ told > 0)

=============================================================================
