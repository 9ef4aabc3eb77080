---------------------------- MODULE CanBusProofs ----------------------------
(* Theorems of CanBus, for any number of interfaces, frames and failures.  *)
EXTENDS CanBus, SequenceTheorems, TLAPS

\* What a receive thread is about to dispatch, it has read.
HasRead == \A i \in Interfaces : recv[i] = "dispatch" => hand[i] # 0

\* While the send thread runs it has not come past a Shutdown; it goes through
\* the sockets only then, with a message it has received.
RunsBeforeShutdown == sending => \A k \in 1..taken : channel[k] # Shutdown
WritesWhileSending == socket # 0 => sending /\ taken > 0

\* Nothing is written ahead of the send thread, and the current message not on
\* a socket still to come.
WrittenSoFar ==
    \A i \in Interfaces : \A m \in DOMAIN written[i] :
        /\ written[i][m] \in 1..taken
        /\ socket # 0 /\ socket <= i => written[i][m] < taken

SendInv ==
    /\ RunsBeforeShutdown /\ WritesWhileSending /\ WrittenSoFar
    /\ OnlyFailuresMissing
Inv == TypeOK /\ HasRead /\ SendInv

\* The types of what the threads around the channel keep, and of the send side.
RecvTypeOK ==
    /\ arrivals \in Seq(Arrival) /\ Len(arrivals) <= MaxFrames
    /\ rx \in [Interfaces -> Seq(1..MaxFrames)]
    /\ recv \in [Interfaces -> {"check", "read", "dispatch", "ended"}]
    /\ hand \in [Interfaces -> 0..MaxFrames]
    /\ told \in 0..(N + 1)
    /\ handled \in Seq(1..MaxFrames)
SendTypeOK ==
    /\ channel \in Seq(Event)
    /\ taken \in 0..Len(channel)
    /\ socket \in 0..N
    /\ sending \in BOOLEAN
    /\ written \in [Interfaces -> Seq(Nat \ {0})]
    /\ failed \subseteq (Nat \ {0}) \X Interfaces

LEMMA TypeParts == TypeOK <=> RecvTypeOK /\ SendTypeOK
  BY DEF TypeOK, RecvTypeOK, SendTypeOK

-----------------------------------------------------------------------------
(* Steps around the channel.                                               *)

LEMMA EventTypes ==
    /\ SendCanMessage \in Event /\ Shutdown \in Event
    /\ \A i \in Interfaces : \A n \in 1..MaxFrames : RelayCanMessage(n, i) \in Event
  BY DEF Event, SendCanMessage, Shutdown, RelayCanMessage

\* The channel as it is, or with one event more.
Grown == channel' = channel \/ \E e \in Event : channel' = Append(channel, e)

LEMMA AppendEvent ==
    ASSUME NEW s \in Seq(Event), NEW e \in Event
    PROVE  /\ Append(s, e) \in Seq(Event) /\ Len(Append(s, e)) = Len(s) + 1
           /\ Len(s) \in Nat
           /\ \A k \in 1..Len(s) : Append(s, e)[k] = s[k]
  OBVIOUS

\* An event that arrives in the channel disturbs nothing on the send side.
LEMMA ChannelGrows ==
    ASSUME SendTypeOK, SendInv, Grown, UNCHANGED sendVars
    PROVE  SendTypeOK' /\ SendInv'
<1>1. CASE channel' = channel
  <2>1. SendTypeOK'
    BY <1>1 DEF SendTypeOK, sendVars
  <2>2. RunsBeforeShutdown' /\ WritesWhileSending' /\ WrittenSoFar'
    BY <1>1 DEF SendInv, RunsBeforeShutdown, WritesWhileSending, WrittenSoFar, sendVars
  <2>3. OnlyFailuresMissing'
    BY <1>1 DEF SendInv, OnlyFailuresMissing, PastSocket, sendVars
  <2> QED BY <2>1, <2>2, <2>3 DEF SendInv
<1>2. CASE \E e \in Event : channel' = Append(channel, e)
  <2>1. PICK e \in Event : channel' = Append(channel, e)
    BY <1>2
  <2>2. /\ channel' \in Seq(Event) /\ Len(channel') = Len(channel) + 1 /\ Len(channel) \in Nat
        /\ \A k \in 1..Len(channel) : channel'[k] = channel[k]
    BY <2>1, AppendEvent DEF SendTypeOK
  <2>3. taken \in 0..Len(channel) /\ \A k \in 1..taken : channel'[k] = channel[k]
    BY <2>2 DEF SendTypeOK
  <2>4. SendTypeOK'
    BY <2>2 DEF SendTypeOK, sendVars
  <2>5. RunsBeforeShutdown'
    BY <2>3 DEF SendInv, RunsBeforeShutdown, sendVars
  <2>6. WritesWhileSending' /\ WrittenSoFar'
    BY DEF SendInv, WritesWhileSending, WrittenSoFar, sendVars
  <2>7. OnlyFailuresMissing'
    BY <2>3 DEF SendInv, OnlyFailuresMissing, PastSocket, sendVars
  <2> QED BY <2>4, <2>5, <2>6, <2>7 DEF SendInv
<1> QED BY <1>1, <1>2 DEF Grown

\* What every step of a thread or node around the channel does.
Around == RecvTypeOK' /\ HasRead' /\ Grown /\ UNCHANGED sendVars

\* Buffers of frames.
LEMMA FrameBuffers ==
    ASSUME NEW s \in Seq(1..MaxFrames)
    PROVE  /\ s # <<>> => Head(s) \in 1..MaxFrames /\ Tail(s) \in Seq(1..MaxFrames)
           /\ \A n \in 1..MaxFrames : Append(s, n) \in Seq(1..MaxFrames)
<1> DEFINE S == 1..MaxFrames
<1>1. ASSUME s # <<>> PROVE Head(s) \in S /\ Tail(s) \in Seq(S)
  <2> HIDE DEF S
  <2>1. s \in Seq(S)
    BY DEF S
  <2> QED BY <1>1, <2>1, HeadTailProperties
<1>2. ASSUME NEW n \in S PROVE Append(s, n) \in Seq(S)
  <2> HIDE DEF S
  <2>1. s \in Seq(S) /\ n \in S
    BY <1>2 DEF S
  <2> QED BY <2>1, AppendProperties
<1> QED BY <1>1, <1>2

LEMMA SendToGrows ==
    ASSUME NEW e \in Event, SendTo(e) PROVE Grown
  BY DEF SendTo, Grown

LEMMA DispatchMessageAround == Inv /\ DispatchMessage => Around
<1> SUFFICES ASSUME Inv, DispatchMessage PROVE Around
  OBVIOUS
<1>1. Grown
  BY EventTypes, SendToGrows DEF DispatchMessage
<1>2. UNCHANGED <<recvVars, told, sendVars>>
  BY DEF DispatchMessage
<1> QED BY <1>1, <1>2, TypeParts DEF Around, Inv, RecvTypeOK, HasRead, recvVars

LEMMA DispatchShutdownAround == Inv /\ DispatchShutdown => Around
<1> SUFFICES ASSUME Inv, DispatchShutdown PROVE Around
  OBVIOUS
<1>1. Grown
  BY EventTypes, SendToGrows DEF DispatchShutdown, Grown
<1>2. UNCHANGED <<recvVars, sendVars>> /\ told' \in 0..(N + 1)
  BY TypeParts, BoundsAssumption DEF DispatchShutdown, Inv, RecvTypeOK
<1> QED BY <1>1, <1>2, TypeParts DEF Around, Inv, RecvTypeOK, HasRead, recvVars

LEMMA FrameArrivesAround ==
    ASSUME Inv, NEW i \in Interfaces, NEW kind \in Kinds, FrameArrives(i, kind) PROVE Around
<1>1. RecvTypeOK
  BY TypeParts DEF Inv
<1>2. /\ [from |-> i, kind |-> kind] \in Arrival
      /\ arrivals' \in Seq(Arrival) /\ Len(arrivals') <= MaxFrames
  BY <1>1, BoundsAssumption DEF FrameArrives, RecvTypeOK, Arrival
<1>3. Len(arrivals) + 1 \in 1..MaxFrames
  BY <1>1, BoundsAssumption DEF FrameArrives, RecvTypeOK
<1>4. rx' \in [Interfaces -> Seq(1..MaxFrames)]
  BY <1>1, <1>3 DEF FrameArrives, RecvTypeOK
<1>5. UNCHANGED <<recv, hand, told, handled, channel, sendVars>>
  BY DEF FrameArrives
<1> QED BY <1>1, <1>2, <1>4, <1>5 DEF Around, RecvTypeOK, HasRead, Grown, Inv

LEMMA CheckShutdownAround ==
    ASSUME Inv, NEW i \in Interfaces, CheckShutdown(i) PROVE Around
<1>1. RecvTypeOK /\ HasRead
  BY TypeParts DEF Inv
<1> QED BY <1>1 DEF CheckShutdown, Goto, Around, RecvTypeOK, HasRead, Grown

LEMMA ReadTimeoutAround ==
    ASSUME Inv, NEW i \in Interfaces, ReadTimeout(i) PROVE Around
<1>1. RecvTypeOK /\ HasRead
  BY TypeParts DEF Inv
<1> QED BY <1>1 DEF ReadTimeout, Goto, Around, RecvTypeOK, HasRead, Grown

LEMMA ReadFrameAround ==
    ASSUME Inv, NEW i \in Interfaces, ReadFrame(i) PROVE Around
<1>1. RecvTypeOK /\ HasRead
  BY TypeParts DEF Inv
<1>2. /\ rx[i] \in Seq(1..MaxFrames) /\ rx[i] # <<>>
      /\ UNCHANGED <<arrivals, told, handled, channel, sendVars>>
  BY <1>1 DEF ReadFrame, RecvTypeOK
<1>3. Head(rx[i]) \in 1..MaxFrames /\ Tail(rx[i]) \in Seq(1..MaxFrames)
  BY <1>2, FrameBuffers
<1>4. rx' \in [Interfaces -> Seq(1..MaxFrames)]
  BY <1>1, <1>3 DEF ReadFrame, RecvTypeOK
<1>5. /\ recv' \in [Interfaces -> {"check", "read", "dispatch", "ended"}]
      /\ hand' \in [Interfaces -> 0..MaxFrames]
      /\ HasRead'
  <2>1. CASE arrivals[Head(rx[i])].kind = "bad"
    BY <1>1, <2>1 DEF ReadFrame, Goto, RecvTypeOK, HasRead
  <2>2. CASE arrivals[Head(rx[i])].kind # "bad"
    <3> DEFINE n == Head(rx[i])
    <3>1. /\ recv' = [recv EXCEPT ![i] = "dispatch"]
          /\ hand' = [hand EXCEPT ![i] = n]
      BY <2>2 DEF ReadFrame, Goto
    <3>2. n \in 0..MaxFrames /\ n # 0
      BY <1>3
    <3> HIDE DEF n
    <3> QED BY <1>1, <3>1, <3>2 DEF RecvTypeOK, HasRead
  <2> QED BY <2>1, <2>2
<1> QED BY <1>1, <1>2, <1>4, <1>5 DEF Around, RecvTypeOK, Grown

LEMMA DispatchFrameAround ==
    ASSUME Inv, NEW i \in Interfaces, DispatchFrame(i) PROVE Around
<1>1. RecvTypeOK /\ HasRead
  BY TypeParts DEF Inv
<1>2. hand[i] \in 1..MaxFrames
  BY <1>1, BoundsAssumption DEF DispatchFrame, Goto, RecvTypeOK, HasRead
<1>3. handled' \in Seq(1..MaxFrames) /\ Grown
  <2>1. CASE ForServer(hand[i])
    <3>1. handled' = Append(handled, hand[i]) /\ channel' = channel
      BY <2>1 DEF DispatchFrame
    <3> QED BY <1>1, <1>2, <3>1, FrameBuffers DEF RecvTypeOK, Grown
  <2>2. CASE ~ForServer(hand[i])
    <3>1. RelayCanMessage(hand[i], i) \in Event
      BY <1>2, EventTypes
    <3> QED BY <1>1, <2>2, <3>1, SendToGrows DEF DispatchFrame, RecvTypeOK
  <2> QED BY <2>1, <2>2
<1>4. UNCHANGED <<arrivals, rx, told, sendVars>>
  BY DEF DispatchFrame
<1>5. /\ recv' \in [Interfaces -> {"check", "read", "dispatch", "ended"}]
      /\ hand' \in [Interfaces -> 0..MaxFrames]
      /\ HasRead'
  BY <1>1, BoundsAssumption DEF DispatchFrame, Goto, RecvTypeOK, HasRead
<1> QED BY <1>1, <1>3, <1>4, <1>5 DEF Around, RecvTypeOK

-----------------------------------------------------------------------------
(* Steps of the send thread.                                               *)

\* What every step of the send thread does.
Sends == SendTypeOK' /\ SendInv' /\ UNCHANGED <<recvVars, told, channel>>

LEMMA ReceiveSends == Inv /\ Receive => Sends
<1> SUFFICES ASSUME Inv, Receive PROVE Sends
  OBVIOUS
<1>1. SendTypeOK /\ RunsBeforeShutdown /\ WrittenSoFar /\ OnlyFailuresMissing
  BY TypeParts DEF Inv, SendInv
<1>2. /\ sending /\ socket = 0 /\ taken < Len(channel) /\ taken' = taken + 1
      /\ UNCHANGED <<recvVars, told, channel, written, failed>>
  BY DEF Receive
<1>3. taken \in Nat /\ Len(channel) \in Nat /\ taken' \in 1..Len(channel)
  BY <1>1, <1>2 DEF SendTypeOK
<1>4. WrittenSoFar'
  <2> SUFFICES ASSUME NEW i \in Interfaces, NEW m \in DOMAIN written[i]
               PROVE  written[i][m] \in 1..taken' /\ written[i][m] < taken'
    BY <1>2 DEF WrittenSoFar
  <2> QED BY <1>1, <1>2, <1>3 DEF WrittenSoFar
<1>5. CASE channel[taken'] = Shutdown
  <2>1. sending' = FALSE /\ socket' = 0
    BY <1>2, <1>5 DEF Receive
  <2>2. SendTypeOK'
    <3>1. taken' \in 0..Len(channel)
      BY <1>3
    <3>2. socket' \in 0..N
      BY <2>1, BoundsAssumption
    <3>3. sending' \in BOOLEAN
      BY <2>1
    <3> QED BY <1>1, <1>2, <3>1, <3>2, <3>3 DEF SendTypeOK
  <2>3. OnlyFailuresMissing'
    BY <1>1, <1>2, <1>3, <1>5, <2>1 DEF OnlyFailuresMissing, PastSocket, Interfaces
  <2> QED BY <1>2, <1>4, <2>1, <2>2, <2>3
          DEF Sends, SendInv, RunsBeforeShutdown, WritesWhileSending
<1>6. CASE channel[taken'] # Shutdown
  <2>1. sending' = TRUE /\ socket' = 1
    BY <1>2, <1>6 DEF Receive, SendTypeOK
  <2>2. SendTypeOK'
    BY <1>1, <1>2, <1>3, <2>1, BoundsAssumption DEF SendTypeOK
  <2>3. OnlyFailuresMissing'
    BY <1>1, <1>2, <1>3, <2>1 DEF OnlyFailuresMissing, PastSocket, Interfaces
  <2>4. RunsBeforeShutdown'
    BY <1>1, <1>2, <1>3, <1>6 DEF RunsBeforeShutdown
  <2> QED BY <1>2, <1>3, <1>4, <2>1, <2>2, <2>3, <2>4
          DEF Sends, SendInv, WritesWhileSending
<1> QED BY <1>5, <1>6

\* At a socket, with a message the thread has received.
LEMMA AtSocket ==
    ASSUME Inv, socket # 0
    PROVE  /\ SendTypeOK /\ SendInv /\ sending
           /\ socket \in Interfaces /\ taken \in 1..Len(channel) /\ Len(channel) \in Nat
           /\ NextSocket \in 0..N
           /\ NextSocket = 0 \/ NextSocket = socket + 1
           /\ NextSocket = 0 => socket = N
<1>1. SendTypeOK /\ SendInv
  BY TypeParts DEF Inv
<1> QED BY <1>1, BoundsAssumption
        DEF SendTypeOK, SendInv, WritesWhileSending, Interfaces, NextSocket

\* Past a socket: nothing that was missing before is missing now, except what
\* this socket had to write.
LEMMA SocketDone ==
    ASSUME Inv, socket # 0, socket' = NextSocket,
           UNCHANGED <<channel, taken, sending>>,
           \A i \in Interfaces : Range(written[i]) \subseteq Range(written'[i]),
           failed \subseteq failed',
           \/ channel[taken].from = socket
           \/ taken \in Range(written'[socket]) \/ <<taken, socket>> \in failed'
    PROVE  OnlyFailuresMissing'
<1> SUFFICES ASSUME NEW i \in Interfaces, NEW k \in 1..taken,
                    PastSocket(k, i)', channel[k] # Shutdown, channel[k].from # i
             PROVE  k \in Range(written'[i]) \/ <<k, i>> \in failed'
  BY DEF OnlyFailuresMissing
<1>1. CASE k = taken /\ i = socket
  BY <1>1
<1>2. CASE ~(k = taken /\ i = socket)
  <2>1. PastSocket(k, i)
    BY <1>2, AtSocket DEF PastSocket, Interfaces
  <2>2. k \in Range(written[i]) \/ <<k, i>> \in failed
    BY <2>1, AtSocket DEF SendInv, OnlyFailuresMissing
  <2> QED BY <2>2
<1> QED BY <1>1, <1>2

\* Past a socket with what is written staying as it is.
LEMMA SameWritten ==
    ASSUME Inv, socket # 0, socket' = NextSocket,
           UNCHANGED <<recvVars, told, channel, taken, sending, written>>,
           failed' \subseteq (Nat \ {0}) \X Interfaces, OnlyFailuresMissing'
    PROVE  Sends
<1>1. SendTypeOK'
  BY AtSocket DEF SendTypeOK
<1>2. WrittenSoFar'
  <2> SUFFICES ASSUME NEW i \in Interfaces, NEW m \in DOMAIN written[i]
               PROVE  /\ written[i][m] \in 1..taken
                      /\ socket' # 0 /\ socket' <= i => written[i][m] < taken
    BY DEF WrittenSoFar
  <2>1. /\ written[i][m] \in 1..taken
        /\ socket <= i => written[i][m] < taken
    BY AtSocket DEF SendInv, WrittenSoFar
  <2> QED BY <2>1, AtSocket DEF Interfaces
<1>3. RunsBeforeShutdown' /\ WritesWhileSending'
  BY AtSocket DEF SendInv, RunsBeforeShutdown, WritesWhileSending
<1> QED BY <1>1, <1>2, <1>3 DEF Sends, SendInv

LEMMA SkipSourceSends == Inv /\ SkipSource => Sends
<1> SUFFICES ASSUME Inv, SkipSource PROVE Sends
  OBVIOUS
<1>1. OnlyFailuresMissing'
  BY SocketDone DEF SkipSource, Skips
<1>2. failed' \subseteq (Nat \ {0}) \X Interfaces
  BY AtSocket DEF SkipSource, SendTypeOK
<1> QED BY <1>1, <1>2, SameWritten DEF SkipSource

LEMMA WriteFailsSends == Inv /\ WriteFails => Sends
<1> SUFFICES ASSUME Inv, WriteFails PROVE Sends
  OBVIOUS
<1>1. OnlyFailuresMissing'
  BY SocketDone DEF WriteFails
<1>2. failed' \subseteq (Nat \ {0}) \X Interfaces
  BY AtSocket DEF WriteFails, SendTypeOK
<1> QED BY <1>1, <1>2, SameWritten DEF WriteFails

\* What a write appends.
LEMMA AppendPosition ==
    ASSUME NEW s \in Seq(Nat \ {0}), NEW k \in Nat \ {0}
    PROVE  /\ Append(s, k) \in Seq(Nat \ {0})
           /\ DOMAIN Append(s, k) = DOMAIN s \cup {Len(s) + 1}
           /\ \A m \in DOMAIN s : Append(s, k)[m] = s[m]
           /\ Append(s, k)[Len(s) + 1] = k
           /\ Range(s) \subseteq Range(Append(s, k)) /\ k \in Range(Append(s, k))
<1>1. /\ Append(s, k) \in Seq(Nat \ {0})
      /\ DOMAIN Append(s, k) = DOMAIN s \cup {Len(s) + 1}
      /\ \A m \in DOMAIN s : Append(s, k)[m] = s[m]
      /\ Append(s, k)[Len(s) + 1] = k
  OBVIOUS
<1> QED BY <1>1 DEF Range

LEMMA WriteFrameSends == Inv /\ WriteFrame => Sends
<1> SUFFICES ASSUME Inv, WriteFrame PROVE Sends
  OBVIOUS
<1>1. /\ socket # 0 /\ socket' = NextSocket
      /\ written' = [written EXCEPT ![socket] = Append(@, taken)]
      /\ UNCHANGED <<recvVars, told, channel, taken, sending, failed>>
  BY DEF WriteFrame
<1>2. /\ SendTypeOK /\ SendInv /\ socket \in Interfaces /\ taken \in Nat \ {0}
      /\ written[socket] \in Seq(Nat \ {0})
  BY <1>1, AtSocket DEF SendTypeOK
<1>3. /\ Append(written[socket], taken) \in Seq(Nat \ {0})
      /\ \A m \in DOMAIN Append(written[socket], taken) :
            \/ Append(written[socket], taken)[m] = taken
            \/ m \in DOMAIN written[socket]
                  /\ Append(written[socket], taken)[m] = written[socket][m]
      /\ Range(written[socket]) \subseteq Range(Append(written[socket], taken))
      /\ taken \in Range(Append(written[socket], taken))
  BY <1>2, AppendPosition
<1>4. /\ written'[socket] = Append(written[socket], taken)
      /\ \A i \in Interfaces : i # socket => written'[i] = written[i]
  BY <1>1, <1>2 DEF SendTypeOK
<1>5. SendTypeOK'
  BY <1>1, <1>2, <1>3, AtSocket DEF SendTypeOK
<1>6. OnlyFailuresMissing'
  <2>1. \A i \in Interfaces : Range(written[i]) \subseteq Range(written'[i])
    BY <1>3, <1>4
  <2> QED BY <1>1, <1>3, <1>4, <2>1, SocketDone
<1>7. WrittenSoFar'
  <2> SUFFICES ASSUME NEW i \in Interfaces, NEW m \in DOMAIN written'[i]
               PROVE  /\ written'[i][m] \in 1..taken
                      /\ socket' # 0 /\ socket' <= i => written'[i][m] < taken
    BY <1>1 DEF WrittenSoFar
  <2>1. CASE i # socket
    <3>1. written'[i] = written[i]
      BY <1>4, <2>1
    <3>2. /\ written[i][m] \in 1..taken
          /\ socket <= i => written[i][m] < taken
      BY <1>1, <1>2, <3>1 DEF SendInv, WrittenSoFar
    <3> QED BY <1>1, <2>1, <3>1, <3>2, AtSocket DEF Interfaces
  <2>2. CASE i = socket
    <3>1. written'[i][m] \in 1..taken
      <4>1. \A n \in DOMAIN written[socket] : written[socket][n] \in 1..taken
        BY <1>2 DEF SendInv, WrittenSoFar
      <4>2. m \in DOMAIN Append(written[socket], taken)
        BY <1>4, <2>2
      <4>3. CASE Append(written[socket], taken)[m] = taken
        BY <1>2, <1>4, <2>2, <4>3
      <4>4. CASE /\ m \in DOMAIN written[socket]
                 /\ Append(written[socket], taken)[m] = written[socket][m]
        BY <1>4, <2>2, <4>1, <4>4
      <4> QED BY <1>3, <4>2, <4>3, <4>4
    <3>2. ~(socket' # 0 /\ socket' <= i)
      BY <1>1, <2>2, AtSocket DEF Interfaces
    <3> QED BY <3>1, <3>2
  <2> QED BY <2>1, <2>2
<1>8. RunsBeforeShutdown' /\ WritesWhileSending'
  BY <1>1, AtSocket DEF SendInv, RunsBeforeShutdown, WritesWhileSending
<1> QED BY <1>1, <1>5, <1>6, <1>7, <1>8 DEF Sends, SendInv

-----------------------------------------------------------------------------
(* The invariant.                                                          *)

LEMMA InitInv == Init => Inv
<1> SUFFICES ASSUME Init PROVE Inv
  OBVIOUS
<1>1. TypeOK
  BY BoundsAssumption DEF Init, TypeOK
<1>2. HasRead /\ SendInv
  BY DEF Init, HasRead, SendInv, RunsBeforeShutdown, WritesWhileSending, WrittenSoFar,
         OnlyFailuresMissing
<1> QED BY <1>1, <1>2 DEF Inv

\* Every step is one around the channel or one of the send thread.
LEMMA Steps == Inv /\ Next => Around \/ (SendThread /\ Sends)
<1> SUFFICES ASSUME Inv, Next PROVE Around \/ (SendThread /\ Sends)
  OBVIOUS
<1>1. CASE DispatchMessage \/ DispatchShutdown
  BY <1>1, DispatchMessageAround, DispatchShutdownAround
<1>2. CASE \E i \in Interfaces : \E kind \in Kinds : FrameArrives(i, kind)
  BY <1>2, FrameArrivesAround
<1>3. CASE \E i \in Interfaces : RecvThread(i)
  BY <1>3, CheckShutdownAround, ReadTimeoutAround, ReadFrameAround, DispatchFrameAround
     DEF RecvThread
<1>4. CASE SendThread
  BY <1>4, ReceiveSends, SkipSourceSends, WriteFrameSends, WriteFailsSends DEF SendThread
<1> QED BY <1>1, <1>2, <1>3, <1>4 DEF Next

LEMMA InvPreserved == Inv /\ [Next]_vars => Inv'
<1> SUFFICES ASSUME Inv, [Next]_vars PROVE Inv'
  OBVIOUS
<1>1. RecvTypeOK /\ SendTypeOK /\ HasRead /\ SendInv
  BY TypeParts DEF Inv
<1>2. TypeOK' <=> RecvTypeOK' /\ SendTypeOK'
  BY DEF TypeOK, RecvTypeOK, SendTypeOK
<1>3. CASE Around
  BY <1>1, <1>2, <1>3, ChannelGrows DEF Around, Inv
<1>4. CASE Sends
  <2>1. RecvTypeOK' /\ HasRead'
    BY <1>1, <1>4 DEF Sends, RecvTypeOK, HasRead, recvVars
  <2> QED BY <1>2, <1>4, <2>1 DEF Sends, Inv
<1>5. CASE UNCHANGED vars
  <2>1. RecvTypeOK' /\ HasRead' /\ Grown /\ UNCHANGED sendVars
    BY <1>1, <1>5 DEF vars, recvVars, RecvTypeOK, HasRead, Grown
  <2> QED BY <1>1, <1>2, <2>1, ChannelGrows DEF Inv
<1> QED BY <1>3, <1>4, <1>5, Steps

LEMMA Invariance == Spec => []Inv
  BY InitInv, InvPreserved, PTL DEF Spec

\* Types of both kinds of thread and of the channel, for every number of
\* interfaces, frames and failures.
THEOREM TypeCorrect == Spec => []TypeOK
<1>1. Inv => TypeOK
  BY DEF Inv
<1> QED BY Invariance, <1>1, PTL

\* For every number of interfaces and failures: a failed write costs the
\* message on its own interface only.
THEOREM FailuresContained == Spec => []OnlyFailuresMissing
<1>1. Inv => OnlyFailuresMissing
  BY DEF Inv, SendInv
<1> QED BY Invariance, <1>1, PTL

-----------------------------------------------------------------------------
(* The refinement.                                                         *)

\* A write is one of the abstract bus, at the place the send thread has reached.
LEMMA WriteIsWrite ==
    ASSUME Inv, WriteFrame PROVE Relay!Write(socket, taken)
<1>1. /\ SendTypeOK /\ SendInv /\ sending /\ socket \in Interfaces
      /\ socket # 0 /\ taken \in 1..Len(channel)
  BY AtSocket DEF WriteFrame
<1>2. channel[taken].from # socket /\ \A m \in 1..taken : channel[m] # Shutdown
  BY <1>1 DEF WriteFrame, Skips, SendInv, RunsBeforeShutdown
<1>3. \A j \in Interfaces : \A m \in DOMAIN written[j] : written[j][m] <= taken
  BY <1>1 DEF SendInv, WrittenSoFar
<1>4. \A m \in DOMAIN written[socket] : written[socket][m] < taken
  BY <1>1 DEF SendInv, WrittenSoFar, Interfaces
<1>5. written' = [written EXCEPT ![socket] = Append(@, taken)] /\ UNCHANGED channel
  BY DEF WriteFrame
<1> QED BY <1>2, <1>3, <1>4, <1>5 DEF Relay!Write

\* The threads keep the hub's promise: messages reach every interface but their
\* own in one order, at most once, and none that stands behind a Shutdown.
THEOREM Refinement == Spec => Implements
<1>1. Init => Relay!Init
  BY DEF Init, Relay!Init
<1>2. Inv /\ [Next]_vars => [Relay!Next]_(Relay!relayVars)
  <2> SUFFICES ASSUME Inv, [Next]_vars PROVE Relay!Next \/ UNCHANGED <<channel, written>>
    BY DEF Relay!relayVars
  <2>1. CASE Around
    BY <2>1 DEF Around, Grown, sendVars, Relay!Next, Relay!Accept
  <2>2. CASE SendThread /\ Sends
    <3>1. CASE WriteFrame
      <4>1. socket \in Interfaces /\ taken \in 1..Len(channel) /\ channel \in Seq(Event)
        BY <3>1, AtSocket DEF WriteFrame, SendTypeOK
      <4>2. taken \in DOMAIN channel
        BY <4>1
      <4> QED BY <3>1, <4>1, <4>2, WriteIsWrite DEF Relay!Next
    <3>2. CASE Receive \/ SkipSource \/ WriteFails
      BY <3>2 DEF Receive, SkipSource, WriteFails
    <3> QED BY <2>2, <3>1, <3>2 DEF SendThread
  <2>3. CASE UNCHANGED vars
    BY <2>3 DEF vars, sendVars
  <2> QED BY <2>1, <2>2, <2>3, Steps
<1> QED BY Invariance, <1>1, <1>2, PTL DEF Spec, Implements, Relay!Spec

-----------------------------------------------------------------------------
(* The order on each interface.                                            *)

\* The frames that are neither in the buffer of the socket nor in the hand of
\* the receive thread: those it has dispatched or refused.
Past(i) == {n \in DOMAIN arrivals :
               arrivals[n].from = i /\ n \notin Range(rx[i]) /\ n # hand[i]}

\* A frame goes from the buffer to the hand to the past, in order of arrival.
Waiting(i) ==
    /\ \A a \in DOMAIN rx[i] : rx[i][a] \in DOMAIN arrivals /\ arrivals[rx[i][a]].from = i
    /\ \A a, b \in DOMAIN rx[i] : a < b => rx[i][a] < rx[i][b]
InHand(i) == hand[i] # 0 =>
    /\ recv[i] = "dispatch"
    /\ hand[i] \in DOMAIN arrivals /\ arrivals[hand[i]].from = i
    /\ arrivals[hand[i]].kind # "bad"
    /\ \A a \in DOMAIN rx[i] : hand[i] < rx[i][a]
PastFirst(i) == \A n \in Past(i) :
    /\ hand[i] # 0 => n < hand[i]
    /\ \A a \in DOMAIN rx[i] : n < rx[i][a]

Buffered(i) == Waiting(i) /\ InHand(i) /\ PastFirst(i)
InOrder(i) == Buffered(i) /\ HandledInOrder(i) /\ RelayedInOrder(i)

HandledArrived == \A m \in DOMAIN handled : handled[m] \in DOMAIN arrivals

OrderInv == Inv /\ HandledArrived /\ \A i \in Interfaces : InOrder(i)

LEMMA AppendAt ==
    ASSUME NEW S, NEW s \in Seq(S), NEW e \in S
    PROVE  /\ Len(s) \in Nat /\ DOMAIN s = 1..Len(s)
           /\ DOMAIN Append(s, e) = DOMAIN s \cup {Len(s) + 1}
           /\ \A m \in DOMAIN s : Append(s, e)[m] = s[m]
           /\ Append(s, e)[Len(s) + 1] = e
           /\ Range(Append(s, e)) = Range(s) \cup {e}
<1>1. /\ Len(s) \in Nat /\ DOMAIN s = 1..Len(s)
      /\ DOMAIN Append(s, e) = DOMAIN s \cup {Len(s) + 1}
      /\ \A m \in DOMAIN s : Append(s, e)[m] = s[m]
      /\ Append(s, e)[Len(s) + 1] = e
  OBVIOUS
<1> QED BY <1>1 DEF Range

LEMMA TailAt ==
    ASSUME NEW S, NEW s \in Seq(S), s # <<>>
    PROVE  /\ Len(s) \in Nat \ {0} /\ DOMAIN s = 1..Len(s) /\ Head(s) = s[1]
           /\ DOMAIN Tail(s) = 1..(Len(s) - 1)
           /\ \A m \in DOMAIN Tail(s) : Tail(s)[m] = s[m + 1]
           /\ Range(s) = Range(Tail(s)) \cup {Head(s)}
<1>1. /\ Len(s) \in Nat \ {0} /\ DOMAIN s = 1..Len(s) /\ Head(s) = s[1]
      /\ DOMAIN Tail(s) = 1..(Len(s) - 1)
      /\ \A m \in DOMAIN Tail(s) : Tail(s)[m] = s[m + 1]
  OBVIOUS
<1>2. ASSUME NEW k \in DOMAIN s PROVE s[k] = Head(s) \/ s[k] \in Range(Tail(s))
  <2>1. CASE k = 1
    BY <1>1, <2>1
  <2>2. CASE k # 1
    <3>1. k - 1 \in DOMAIN Tail(s) /\ Tail(s)[k - 1] = s[k]
      BY <1>1, <2>2
    <3> QED BY <3>1 DEF Range
  <2> QED BY <2>1, <2>2
<1>3. ASSUME NEW k \in DOMAIN Tail(s) PROVE Tail(s)[k] \in Range(s)
  <2>1. k + 1 \in DOMAIN s
    BY <1>1
  <2> QED BY <1>1, <2>1 DEF Range
<1>4. Head(s) \in Range(s)
  BY <1>1 DEF Range
<1> QED BY <1>1, <1>2, <1>3, <1>4 DEF Range

\* What the handler and the send thread got stays as it is when what was
\* dispatched does, and nothing from i is added to their logs.
LEMMA LogsKept ==
    ASSUME NEW i \in Interfaces, HandledInOrder(i), RelayedInOrder(i),
           \A K \in {{"server", "broadcast"}, {"node"}} : Dispatched(i, K)' = Dispatched(i, K),
           HandledFrom(i)' = HandledFrom(i),
           \A m \in HandledFrom(i) : handled'[m] = handled[m],
           RelayedFrom(i)' = RelayedFrom(i),
           \A m \in RelayedFrom(i) : channel'[m] = channel[m],
           sending' => sending
    PROVE  (HandledInOrder(i) /\ RelayedInOrder(i))'
<1>1. HandledInOrder(i)'
  BY DEF HandledInOrder
<1>2. {channel[m].frame : m \in RelayedFrom(i)}' = {channel[m].frame : m \in RelayedFrom(i)}
  OBVIOUS
<1>3. RelayedInOrder(i)'
  BY <1>2 DEF RelayedInOrder
<1> QED BY <1>1, <1>3

LEMMA ChannelKept ==
    ASSUME channel \in Seq(Event), NEW e \in Event, SendTo(e) \/ UNCHANGED channel,
           NEW i, ~(e.kind = "relay" /\ e.from = i)
    PROVE  /\ RelayedFrom(i)' = RelayedFrom(i)
           /\ \A m \in RelayedFrom(i) : channel'[m] = channel[m]
<1>1. CASE channel' = channel
  BY <1>1 DEF RelayedFrom
<1>2. CASE channel' = Append(channel, e)
  <2>1. /\ DOMAIN channel' = DOMAIN channel \cup {Len(channel) + 1}
        /\ \A m \in DOMAIN channel : channel'[m] = channel[m]
        /\ channel'[Len(channel) + 1] = e
    BY <1>2, AppendAt
  <2> QED BY <2>1 DEF RelayedFrom
<1> QED BY <1>1, <1>2 DEF SendTo

\* A step that leaves i's buffer and hand alone.
LEMMA BufferKept ==
    ASSUME NEW i, Buffered(i), rx'[i] = rx[i], hand'[i] = hand[i], UNCHANGED arrivals,
           hand[i] # 0 => recv'[i] = recv[i]
    PROVE  /\ Buffered(i)'
           /\ \A K : Dispatched(i, K)' = Dispatched(i, K)
<1>1. Past(i)' = Past(i)
  BY DEF Past
<1> QED BY <1>1 DEF Buffered, Waiting, InHand, PastFirst, Dispatched

LEMMA FrameArrivesOrder ==
    ASSUME OrderInv, NEW j \in Interfaces, NEW kind \in Kinds, FrameArrives(j, kind)
    PROVE  HandledArrived' /\ \A i \in Interfaces : InOrder(i)'
<1> DEFINE n == Len(arrivals) + 1
           f == [from |-> j, kind |-> kind]
<1>0. /\ RecvTypeOK /\ arrivals' = Append(arrivals, f) /\ f \in Arrival
      /\ rx' = [rx EXCEPT ![j] = Append(@, n)]
      /\ UNCHANGED <<recv, hand, told, handled, channel, sendVars>>
  BY TypeParts DEF OrderInv, Inv, FrameArrives, Arrival
<1>1. /\ n \in Nat \ {0} /\ DOMAIN arrivals = 1..(n - 1)
      /\ DOMAIN arrivals' = DOMAIN arrivals \cup {n}
      /\ arrivals'[n].from = j
      /\ \A m \in DOMAIN arrivals : arrivals'[m] = arrivals[m]
  BY <1>0, AppendAt DEF RecvTypeOK
<1>2. \A m \in DOMAIN arrivals : m \in Nat /\ m < n
  BY <1>1
<1>3. HandledArrived'
  BY <1>0, <1>1 DEF OrderInv, HandledArrived
<1> HIDE DEF n
<1> SUFFICES ASSUME NEW i \in Interfaces PROVE InOrder(i)'
  BY <1>3
<1>4. Buffered(i) /\ HandledInOrder(i) /\ RelayedInOrder(i)
  BY DEF OrderInv, InOrder
<1>5. /\ rx[i] \in Seq(1..MaxFrames) /\ Len(rx[i]) \in Nat /\ DOMAIN rx[i] = 1..Len(rx[i])
      /\ i # j => rx'[i] = rx[i]
      /\ i = j => /\ DOMAIN rx'[i] = DOMAIN rx[i] \cup {Len(rx[i]) + 1}
                  /\ \A a \in DOMAIN rx[i] : rx'[i][a] = rx[i][a]
                  /\ rx'[i][Len(rx[i]) + 1] = n
                  /\ Range(rx'[i]) = Range(rx[i]) \cup {n}
  <2> DEFINE S == 1..MaxFrames
  <2>1. rx[i] \in Seq(S)
    BY <1>0 DEF RecvTypeOK
  <2>2. i = j => rx'[i] = Append(rx[i], n)
    BY <1>0 DEF RecvTypeOK
  <2>3. i # j => rx'[i] = rx[i]
    BY <1>0 DEF RecvTypeOK
  <2>4. n \in S
    BY <1>0, BoundsAssumption DEF RecvTypeOK, FrameArrives, n
  <2> HIDE DEF S
  <2>5. rx[i] \in Seq(1..MaxFrames)
    BY <2>1 DEF S
  <2>6. /\ Len(rx[i]) \in Nat /\ DOMAIN rx[i] = 1..Len(rx[i])
        /\ DOMAIN Append(rx[i], n) = DOMAIN rx[i] \cup {Len(rx[i]) + 1}
        /\ \A a \in DOMAIN rx[i] : Append(rx[i], n)[a] = rx[i][a]
        /\ Append(rx[i], n)[Len(rx[i]) + 1] = n
        /\ Range(Append(rx[i], n)) = Range(rx[i]) \cup {n}
    BY <2>1, <2>4, AppendAt
  <2> QED BY <2>2, <2>3, <2>5, <2>6
<1>6. hand'[i] = hand[i] /\ recv'[i] = recv[i] /\ (hand[i] # 0 => hand[i] < n)
  BY <1>0, <1>2, <1>4 DEF Buffered, InHand
<1>7. Past(i)' = Past(i)
  <2>1. n \notin Past(i)'
    BY <1>1, <1>5 DEF Past
  <2> QED BY <1>1, <1>2, <1>5, <1>6, <2>1 DEF Past
<1>8. \A K : Dispatched(i, K)' = Dispatched(i, K)
  <2> SUFFICES ASSUME NEW K PROVE Dispatched(i, K)' = Dispatched(i, K)
    OBVIOUS
  <2>1. Dispatched(i, K) = {m \in Past(i) : arrivals[m].kind \in K}
    BY DEF Dispatched, Past
  <2>2. Dispatched(i, K)' = {m \in Past(i) : arrivals'[m].kind \in K}
    BY <1>7 DEF Dispatched, Past
  <2>3. \A m \in Past(i) : arrivals'[m] = arrivals[m]
    BY <1>1 DEF Past
  <2> QED BY <2>1, <2>2, <2>3
<1>9. Buffered(i)'
  <2>1. Waiting(i)'
    <3>1. CASE i = j
      BY <1>1, <1>2, <1>4, <1>5, <3>1 DEF Buffered, Waiting
    <3>2. CASE i # j
      BY <1>1, <1>4, <1>5, <3>2 DEF Buffered, Waiting
    <3> QED BY <3>1, <3>2
  <2>2. InHand(i)'
    BY <1>1, <1>4, <1>5, <1>6 DEF Buffered, InHand
  <2>3. PastFirst(i)'
    <3>1. \A m \in Past(i) : m < n
      BY <1>2 DEF Past
    <3> QED BY <1>4, <1>5, <1>6, <1>7, <3>1 DEF Buffered, PastFirst
  <2> QED BY <2>1, <2>2, <2>3 DEF Buffered
<1>10. HandledFrom(i)' = HandledFrom(i)
  BY <1>0, <1>1 DEF OrderInv, HandledArrived, HandledFrom
<1>11. RelayedFrom(i)' = RelayedFrom(i) /\ UNCHANGED <<handled, channel, sending>>
  BY <1>0 DEF RelayedFrom, sendVars
<1>12. (HandledInOrder(i) /\ RelayedInOrder(i))'
  BY <1>4, <1>8, <1>10, <1>11, LogsKept
<1> QED BY <1>9, <1>12 DEF InOrder

\* Steps that neither take nor dispatch a frame.
LEMMA OtherOrder ==
    ASSUME OrderInv, UNCHANGED <<arrivals, rx, hand, handled>>,
           \A i \in Interfaces : hand[i] # 0 => recv'[i] = recv[i],
           NEW e \in Event, e.kind # "relay", SendTo(e) \/ UNCHANGED channel,
           sending' => sending
    PROVE  HandledArrived' /\ \A i \in Interfaces : InOrder(i)'
<1>1. HandledArrived'
  BY DEF OrderInv, HandledArrived
<1> SUFFICES ASSUME NEW i \in Interfaces PROVE InOrder(i)'
  BY <1>1
<1>2. Buffered(i) /\ HandledInOrder(i) /\ RelayedInOrder(i)
  BY DEF OrderInv, InOrder
<1>3. Buffered(i)' /\ \A K : Dispatched(i, K)' = Dispatched(i, K)
  BY <1>2, BufferKept
<1>4. RelayedFrom(i)' = RelayedFrom(i) /\ \A m \in RelayedFrom(i) : channel'[m] = channel[m]
  BY ChannelKept DEF OrderInv, Inv, TypeOK
<1>5. HandledFrom(i)' = HandledFrom(i)
  BY DEF HandledFrom
<1>6. (HandledInOrder(i) /\ RelayedInOrder(i))'
  BY <1>2, <1>3, <1>4, <1>5, LogsKept
<1> QED BY <1>3, <1>6 DEF InOrder

\* What a step of the thread of j does not touch on another interface.
LEMMA OthersKept ==
    ASSUME OrderInv, NEW j \in Interfaces, ReadFrame(j) \/ DispatchFrame(j),
           NEW i \in Interfaces, i # j
    PROVE  /\ Buffered(i)' /\ \A K : Dispatched(i, K)' = Dispatched(i, K)
           /\ UNCHANGED <<arrivals, sending>>
<1>1. RecvTypeOK /\ Buffered(i)
  BY TypeParts DEF OrderInv, Inv, InOrder
<1>2. rx'[i] = rx[i] /\ recv'[i] = recv[i] /\ hand'[i] = hand[i]
      /\ UNCHANGED <<arrivals, sending>>
  BY <1>1 DEF ReadFrame, DispatchFrame, Goto, RecvTypeOK, sendVars
<1> QED BY <1>1, <1>2, BufferKept

LEMMA ReadFrameOrder ==
    ASSUME OrderInv, NEW j \in Interfaces, ReadFrame(j)
    PROVE  HandledArrived' /\ \A i \in Interfaces : InOrder(i)'
<1>0. /\ RecvTypeOK /\ rx[j] # <<>> /\ rx' = [rx EXCEPT ![j] = Tail(@)]
      /\ recv[j] = "read" /\ UNCHANGED <<arrivals, told, handled, channel, sendVars>>
  BY TypeParts DEF OrderInv, Inv, ReadFrame, Goto
<1>1. HandledArrived'
  BY <1>0 DEF OrderInv, HandledArrived
<1> SUFFICES ASSUME NEW i \in Interfaces PROVE InOrder(i)'
  BY <1>1
<1>2. Buffered(i) /\ HandledInOrder(i) /\ RelayedInOrder(i)
  BY DEF OrderInv, InOrder
<1>3. /\ HandledFrom(i)' = HandledFrom(i) /\ RelayedFrom(i)' = RelayedFrom(i)
      /\ UNCHANGED <<handled, channel, sending>>
  BY <1>0 DEF HandledFrom, RelayedFrom, sendVars
<1>4. CASE i # j
  <2>1. Buffered(i)' /\ \A K : Dispatched(i, K)' = Dispatched(i, K)
    BY <1>4, OthersKept
  <2> QED BY <1>2, <1>3, <2>1, LogsKept DEF InOrder
<1>5. CASE i = j
  <2> PICK n : n = Head(rx[j])
    OBVIOUS
  <2>1. /\ Len(rx[i]) \in Nat \ {0} /\ DOMAIN rx[i] = 1..Len(rx[i]) /\ n = rx[i][1]
        /\ DOMAIN rx'[i] = 1..(Len(rx[i]) - 1)
        /\ \A a \in DOMAIN rx'[i] : rx'[i][a] = rx[i][a + 1]
        /\ Range(rx[i]) = Range(rx'[i]) \cup {n}
    <3>1. rx[i] \in Seq(1..MaxFrames) /\ rx'[i] = Tail(rx[i])
      BY <1>0, <1>5 DEF RecvTypeOK
    <3>2. rx[i] # <<>>
      BY <1>0, <1>5
    <3> DEFINE S == 1..MaxFrames
    <3> HIDE DEF S
    <3>3. rx[i] \in Seq(S)
      BY <3>1 DEF S
    <3> QED BY <1>5, <3>1, <3>2, <3>3, TailAt
  <2>2. /\ \A a \in DOMAIN rx'[i] : n < rx'[i][a]
        /\ n \in DOMAIN arrivals /\ arrivals[n].from = i
        /\ n \in Nat \ {0} /\ \A m \in DOMAIN arrivals : m \in Nat \ {0}
    <3>1. 1 \in DOMAIN rx[i] /\ \A a \in DOMAIN rx'[i] : a + 1 \in DOMAIN rx[i] /\ 1 < a + 1
      BY <2>1
    <3>2. DOMAIN arrivals = 1..Len(arrivals) /\ Len(arrivals) \in Nat
      BY <1>0 DEF RecvTypeOK
    <3> QED BY <1>2, <2>1, <3>1, <3>2 DEF Buffered, Waiting
  <2>3. hand[i] = 0
    BY <1>0, <1>2, <1>5 DEF Buffered, InHand
  <2>4. Waiting(i)'
    <3>1. \A a \in DOMAIN rx'[i] : a + 1 \in DOMAIN rx[i] /\ a \in Nat
      BY <2>1
    <3> QED BY <1>0, <1>2, <2>1, <3>1 DEF Buffered, Waiting
  <2>5. \A m \in Past(i) : m < n
    <3>1. 1 \in DOMAIN rx[i]
      BY <2>1
    <3> QED BY <1>2, <2>1, <3>1 DEF Buffered, PastFirst
  <2>6. \/ arrivals[n].kind = "bad" /\ hand'[i] = 0
        \/ arrivals[n].kind # "bad" /\ hand'[i] = n /\ recv'[i] = "dispatch"
    BY <1>0, <1>5, <2>3 DEF ReadFrame, Goto, RecvTypeOK
  <2>7. InHand(i)'
    BY <1>0, <2>2, <2>6 DEF InHand
  <2>8. \A m \in Past(i)' : m \in Past(i) \/ (m = n /\ hand'[i] = 0)
    BY <1>0, <2>1, <2>2, <2>3, <2>6 DEF Past
  <2>9. \A a \in DOMAIN rx'[i] : rx'[i][a] \in Nat /\ n < rx'[i][a]
    <3>1. \A a \in DOMAIN rx'[i] : rx'[i][a] \in DOMAIN arrivals
      BY <1>0, <2>4 DEF Waiting
    <3> QED BY <2>2, <3>1
  <2>10. PastFirst(i)'
    <3> SUFFICES ASSUME NEW m \in Past(i)'
                 PROVE  /\ hand'[i] # 0 => m < hand'[i]
                        /\ \A a \in DOMAIN rx'[i] : m < rx'[i][a]
      BY DEF PastFirst
    <3>1. m \in Nat
      BY <1>0, <2>2 DEF Past
    <3> QED BY <2>2, <2>5, <2>6, <2>8, <2>9, <3>1
  <2>11. \A K \in {{"server", "broadcast"}, {"node"}} : Dispatched(i, K)' = Dispatched(i, K)
    <3> SUFFICES ASSUME NEW K, "bad" \notin K, NEW m \in DOMAIN arrivals,
                        arrivals[m].from = i, arrivals[m].kind \in K
                 PROVE  (m \notin Range(rx'[i]) /\ m # hand'[i])
                            <=> (m \notin Range(rx[i]) /\ m # hand[i])
      BY <1>0 DEF Dispatched
    <3> QED BY <2>1, <2>2, <2>3, <2>6
  <2> QED BY <1>2, <1>3, <2>4, <2>7, <2>10, <2>11, LogsKept DEF InOrder, Buffered
<1> QED BY <1>4, <1>5

LEMMA DispatchFrameOrder ==
    ASSUME OrderInv, NEW j \in Interfaces, DispatchFrame(j)
    PROVE  HandledArrived' /\ \A i \in Interfaces : InOrder(i)'
<1> PICK h : h = hand[j]
  OBVIOUS
<1>0. /\ RecvTypeOK /\ SendTypeOK /\ h # 0 /\ hand' = [hand EXCEPT ![j] = 0]
      /\ IF ForServer(h) THEN handled' = Append(handled, h) /\ UNCHANGED channel
         ELSE SendTo(RelayCanMessage(h, j)) /\ UNCHANGED handled
      /\ UNCHANGED <<arrivals, rx, told, sendVars>>
  BY TypeParts DEF OrderInv, Inv, HasRead, DispatchFrame, Goto
<1>1. /\ h \in DOMAIN arrivals /\ arrivals[h].from = j /\ arrivals[h].kind # "bad"
      /\ h \in 1..MaxFrames /\ h \notin Range(rx[j]) /\ arrivals[h].kind \in Kinds
      /\ \A n \in DOMAIN arrivals : n \in Nat \ {0}
  <2>1. Buffered(j)
    BY DEF OrderInv, InOrder
  <2>2. /\ h \in DOMAIN arrivals /\ arrivals[h].from = j /\ arrivals[h].kind # "bad"
        /\ \A a \in DOMAIN rx[j] : h < rx[j][a]
    BY <1>0, <2>1 DEF Buffered, InHand
  <2>3. h \in 1..MaxFrames /\ \A n \in DOMAIN arrivals : n \in Nat \ {0}
    BY <1>0, <2>2, BoundsAssumption DEF RecvTypeOK
  <2>4. arrivals[h].kind \in Kinds
    <3>1. arrivals[h] \in Arrival
      BY <1>0, <2>2 DEF RecvTypeOK
    <3> QED BY <3>1 DEF Arrival
  <2>5. h \notin Range(rx[j])
    BY <2>2, <2>3 DEF Range
  <2> QED BY <2>2, <2>3, <2>4, <2>5
<1>2. /\ DOMAIN Append(handled, h) = DOMAIN handled \cup {Len(handled) + 1}
      /\ Len(handled) \in Nat /\ DOMAIN handled = 1..Len(handled)
      /\ \A m \in DOMAIN handled : Append(handled, h)[m] = handled[m]
      /\ Append(handled, h)[Len(handled) + 1] = h
  BY <1>0, <1>1, AppendAt DEF RecvTypeOK
<1>3. HandledArrived'
  BY <1>0, <1>1, <1>2 DEF OrderInv, HandledArrived
<1> SUFFICES ASSUME NEW i \in Interfaces PROVE InOrder(i)'
  BY <1>3
<1>4. Buffered(i) /\ HandledInOrder(i) /\ RelayedInOrder(i)
  BY DEF OrderInv, InOrder
<1>5. RelayCanMessage(h, j) \in Event /\ RelayCanMessage(h, j).kind = "relay"
      /\ RelayCanMessage(h, j).from = j /\ RelayCanMessage(h, j).frame = h
  BY <1>1, EventTypes DEF RelayCanMessage
<1>6. CASE i # j
  <2>1. Buffered(i)' /\ \A K : Dispatched(i, K)' = Dispatched(i, K)
    BY <1>6, OthersKept
  <2>2. RelayedFrom(i)' = RelayedFrom(i) /\ \A m \in RelayedFrom(i) : channel'[m] = channel[m]
    BY <1>0, <1>5, <1>6, ChannelKept DEF SendTypeOK
  <2>3. HandledFrom(i)' = HandledFrom(i) /\ \A m \in HandledFrom(i) : handled'[m] = handled[m]
    BY <1>0, <1>1, <1>2, <1>6 DEF HandledFrom
  <2> QED BY <1>0, <1>4, <2>1, <2>2, <2>3, LogsKept DEF InOrder, sendVars
<1>7. CASE i = j
  <2>1. hand'[i] = 0 /\ UNCHANGED <<arrivals, rx, sending>>
    BY <1>0, <1>7 DEF RecvTypeOK, sendVars
  <2>2. \A n \in Past(i) : n < h
    BY <1>0, <1>4, <1>7 DEF Buffered, PastFirst
  <2>3. Past(i)' = Past(i) \cup {h}
    BY <1>1, <1>7, <2>1 DEF Past
  <2>4. Buffered(i)'
    <3>1. \A a \in DOMAIN rx[i] : h < rx[i][a]
      BY <1>0, <1>4, <1>7 DEF Buffered, InHand
    <3> QED BY <1>4, <2>1, <2>3, <3>1 DEF Buffered, Waiting, InHand, PastFirst
  <2>5. \A K : Dispatched(i, K)' = Dispatched(i, K) \cup {n \in {h} : arrivals[n].kind \in K}
    BY <1>1, <1>7, <2>1 DEF Dispatched
  <2>6. \A K : \A n \in Dispatched(i, K) : n < h /\ n \in Nat
    BY <1>1, <2>2 DEF Dispatched, Past
  <2>7. CASE ForServer(h)
    <3>1. /\ Dispatched(i, {"server", "broadcast"})' = Dispatched(i, {"server", "broadcast"}) \cup {h}
          /\ Dispatched(i, {"node"})' = Dispatched(i, {"node"})
      <4>1. {n \in {h} : arrivals[n].kind \in {"server", "broadcast"}} = {h}
        BY <2>7 DEF ForServer
      <4>2. {n \in {h} : arrivals[n].kind \in {"node"}} = {}
        BY <2>7 DEF ForServer
      <4>3. Dispatched(i, {"server", "broadcast"})' = Dispatched(i, {"server", "broadcast"}) \cup {h}
        BY <2>5, <4>1
      <4>4. Dispatched(i, {"node"})' = Dispatched(i, {"node"}) \cup {}
        BY <2>5, <4>2
      <4> QED BY <4>3, <4>4
    <3>2. /\ HandledFrom(i)' = HandledFrom(i) \cup {Len(handled) + 1}
          /\ \A m \in HandledFrom(i) : handled'[m] = handled[m] /\ m \in 1..Len(handled)
          /\ handled'[Len(handled) + 1] = h
      BY <1>0, <1>1, <1>2, <1>7, <2>7 DEF HandledFrom
    <3>3. \A m \in HandledFrom(i) : handled[m] < h
      BY <1>4, <2>6 DEF HandledInOrder
    <3>4. HandledInOrder(i)'
      <4>1. {handled'[m] : m \in HandledFrom(i)'} = {handled[m] : m \in HandledFrom(i)} \cup {h}
        BY <3>2
      <4>2. \A m, k \in HandledFrom(i)' : m < k => handled'[m] < handled'[k]
        BY <1>2, <1>4, <3>2, <3>3 DEF HandledInOrder
      <4> QED BY <1>4, <3>1, <4>1, <4>2 DEF HandledInOrder
    <3>5. RelayedInOrder(i)'
      <4>1. channel' = channel /\ RelayedFrom(i)' = RelayedFrom(i)
        BY <1>0, <2>7 DEF RelayedFrom
      <4> QED BY <1>4, <2>1, <3>1, <4>1 DEF RelayedInOrder
    <3> QED BY <2>4, <3>4, <3>5 DEF InOrder
  <2>8. CASE ~ForServer(h)
    <3>1. /\ Dispatched(i, {"server", "broadcast"})' = Dispatched(i, {"server", "broadcast"})
          /\ Dispatched(i, {"node"})' = Dispatched(i, {"node"}) \cup {h}
      <4>1. {n \in {h} : arrivals[n].kind \in {"server", "broadcast"}} = {}
        BY <2>8 DEF ForServer
      <4>2. {n \in {h} : arrivals[n].kind \in {"node"}} = {h}
        BY <1>1, <2>8 DEF ForServer, Kinds
      <4>3. Dispatched(i, {"server", "broadcast"})'
                = Dispatched(i, {"server", "broadcast"}) \cup {}
        BY <2>5, <4>1
      <4>4. Dispatched(i, {"node"})' = Dispatched(i, {"node"}) \cup {h}
        BY <2>5, <4>2
      <4> QED BY <4>3, <4>4
    <3>2. HandledInOrder(i)'
      <4>1. handled' = handled /\ HandledFrom(i)' = HandledFrom(i)
        BY <1>0, <2>8 DEF HandledFrom
      <4> QED BY <1>4, <3>1, <4>1 DEF HandledInOrder
    <3> DEFINE frames == {channel[m].frame : m \in RelayedFrom(i)}
               D == Dispatched(i, {"node"})
    <3>3. /\ \A m, k \in RelayedFrom(i) : m < k => channel[m].frame < channel[k].frame
          /\ frames \subseteq D /\ \A n \in D \ frames : ~sending /\ \A f \in frames : f < n
      BY <1>4 DEF RelayedInOrder
    <3>4. \A f \in frames : f < h
      BY <2>6, <3>3
    <3>5. RelayedInOrder(i)'
      <4>1. CASE ~sending
        <5>1. channel' = channel /\ RelayedFrom(i)' = RelayedFrom(i) /\ frames' = frames
          BY <1>0, <2>8, <4>1 DEF SendTo, RelayedFrom
        <5> QED BY <2>1, <3>1, <3>3, <3>4, <4>1, <5>1 DEF RelayedInOrder
      <4>2. CASE sending
        <5>1. channel' = Append(channel, RelayCanMessage(h, j))
          BY <1>0, <2>8, <4>2 DEF SendTo
        <5>2. /\ DOMAIN channel' = DOMAIN channel \cup {Len(channel) + 1}
              /\ Len(channel) \in Nat /\ DOMAIN channel = 1..Len(channel)
              /\ \A m \in DOMAIN channel : channel'[m] = channel[m]
              /\ channel'[Len(channel) + 1] = RelayCanMessage(h, j)
          BY <1>0, <1>5, <5>1, AppendAt DEF SendTypeOK
        <5>3. /\ RelayedFrom(i)' = RelayedFrom(i) \cup {Len(channel) + 1}
              /\ \A m \in RelayedFrom(i) : channel'[m] = channel[m] /\ m \in 1..Len(channel)
              /\ channel'[Len(channel) + 1].frame = h
          BY <1>5, <1>7, <5>2 DEF RelayedFrom
        <5>4. {channel'[m].frame : m \in RelayedFrom(i)'} = frames \cup {h}
          BY <5>3
        <5>5. \A m, k \in RelayedFrom(i)' : m < k => channel'[m].frame < channel'[k].frame
          BY <3>3, <3>4, <5>2, <5>3
        <5> QED BY <3>1, <3>3, <4>2, <5>4, <5>5 DEF RelayedInOrder
      <4> QED BY <4>1, <4>2
    <3> QED BY <2>4, <3>2, <3>5 DEF InOrder
  <2> QED BY <2>7, <2>8
<1> QED BY <1>6, <1>7

LEMMA InitOrder == Init => OrderInv
<1> SUFFICES ASSUME Init PROVE OrderInv
  OBVIOUS
<1>1. /\ arrivals = <<>> /\ handled = <<>> /\ channel = <<>>
      /\ \A i \in Interfaces : rx[i] = <<>> /\ hand[i] = 0
  BY DEF Init
<1>2. HandledArrived
  BY <1>1 DEF HandledArrived
<1>3. ASSUME NEW i \in Interfaces PROVE InOrder(i)
  <2>1. \A K : Dispatched(i, K) = {}
    BY <1>1 DEF Dispatched
  <2>2. HandledFrom(i) = {} /\ RelayedFrom(i) = {} /\ Past(i) = {}
    BY <1>1 DEF HandledFrom, RelayedFrom, Past
  <2>3. Buffered(i)
    BY <1>1, <2>2 DEF Buffered, Waiting, InHand, PastFirst
  <2> QED BY <2>1, <2>2, <2>3 DEF InOrder, HandledInOrder, RelayedInOrder
<1> QED BY <1>2, <1>3, InitInv DEF OrderInv

LEMMA NextOrder == OrderInv /\ [Next]_vars => OrderInv'
<1> SUFFICES ASSUME OrderInv, [Next]_vars PROVE OrderInv'
  OBVIOUS
<1>1. Inv' /\ SendCanMessage \in Event /\ SendCanMessage.kind # "relay"
      /\ Shutdown \in Event /\ Shutdown.kind # "relay" /\ SendTypeOK
  BY InvPreserved, EventTypes, TypeParts DEF OrderInv, Inv, SendCanMessage, Shutdown
<1> SUFFICES HandledArrived' /\ \A i \in Interfaces : InOrder(i)'
  BY <1>1 DEF OrderInv
<1>2. CASE DispatchMessage
  BY <1>1, <1>2, OtherOrder DEF DispatchMessage, recvVars, sendVars
<1>3. CASE DispatchShutdown
  BY <1>1, <1>3, OtherOrder DEF DispatchShutdown, recvVars, sendVars
<1>4. ASSUME NEW j \in Interfaces, CheckShutdown(j) \/ ReadTimeout(j)
      PROVE  HandledArrived' /\ \A i \in Interfaces : InOrder(i)'
  <2>1. UNCHANGED <<arrivals, rx, hand, handled, channel, sending>>
    BY <1>4 DEF CheckShutdown, ReadTimeout, sendVars
  <2>2. \A i \in Interfaces : hand[i] # 0 => recv'[i] = recv[i]
    <3>1. hand[j] = 0
      BY <1>4 DEF CheckShutdown, ReadTimeout, Goto, OrderInv, InOrder, Buffered, InHand
    <3> QED BY <1>4, <3>1 DEF CheckShutdown, ReadTimeout, Goto, OrderInv, Inv, TypeOK
  <2> QED BY <1>1, <2>1, <2>2, OtherOrder
<1>5. CASE SendThread \/ UNCHANGED vars
  <2>1. UNCHANGED <<arrivals, rx, recv, hand, handled, channel>> /\ (sending' => sending)
    <3>1. CASE Receive
      BY <1>1, <3>1 DEF Receive, recvVars, SendTypeOK
    <3>2. CASE SkipSource \/ WriteFrame \/ WriteFails
      BY <3>2 DEF SkipSource, WriteFrame, WriteFails, recvVars
    <3>3. CASE UNCHANGED vars
      BY <3>3 DEF vars, recvVars, sendVars
    <3> QED BY <1>5, <3>1, <3>2, <3>3 DEF SendThread
  <2> QED BY <1>1, <2>1, OtherOrder
<1> QED
  BY <1>2, <1>3, <1>4, <1>5, FrameArrivesOrder, ReadFrameOrder, DispatchFrameOrder
  DEF Next, RecvThread

\* For every number of interfaces and frames: the handler and the send thread
\* get what came in on an interface, in order and once, each what is for it.
THEOREM KeepsArrivalOrder == Spec => []DispatchedAsArrived
<1>1. OrderInv => DispatchedAsArrived
  BY DEF OrderInv, InOrder, DispatchedAsArrived
<1> QED BY InitOrder, NextOrder, <1>1, PTL DEF Spec

=============================================================================
