-------------------------- MODULE HeartbeatProofs --------------------------
(* Theorems of Heartbeat, for any nodes, counters, intervals and delays.   *)
EXTENDS Heartbeat, SequenceTheorems, TLAPS

-----------------------------------------------------------------------------
(* Timing.                                                                 *)

TimingTypeOK ==
    /\ thread \in {"first", "waiting", "round", "ended", "panicked"}
    /\ due \in Int /\ -MaxLate <= due /\ due <= Interval
    /\ ages \in (0..Interval) \X (0..Interval)

\* An age is exact until it reaches the interval, from where on it says "at
\* least".  The deadline is never before the last round began, and an interval
\* after the one before; while a round lasts, it is the deadline that round had.
NotBefore(age, since) == age = Interval \/ due >= since - age
TimingInv ==
    /\ thread = "first" => ages[2] = Interval
    /\ thread = "waiting" => NotBefore(ages[1], 0) /\ NotBefore(ages[2], Interval)
    /\ thread = "round" => due <= 0 /\ NotBefore(ages[2], 0)

\* A step that has nothing to do with time.
Untimed == UNCHANGED timing /\ (thread' = thread \/ thread' \in {"ended", "panicked"})

LEMMA StepsUntimed ==
    ASSUME Next, ~EndRound, ~Timeout, ~Tick PROVE Untimed
<1>1. ASSUME NEW n \in Nodes, Ask(n) \/ PassOver(n) \/ Panic(n) PROVE Untimed
  BY <1>1 DEF Ask, PassOver, Panic, Untimed
<1>2. ASSUME NEW n \in Nodes, Handle(n) \/ Answer(n) \/ Register(n) PROVE Untimed
  BY <1>2 DEF Handle, HandleFrom, Answer, Register, Untimed
<1>3. ASSUME TakeShutdown \/ RequestShutdown PROVE Untimed
  BY <1>3 DEF TakeShutdown, RequestShutdown, Untimed
<1> QED BY <1>1, <1>2, <1>3 DEF Next, Thread

LEMMA TimingInit == Init => TimingTypeOK /\ TimingInv
  BY BoundsAssumption DEF Init, TimingTypeOK, TimingInv, NotBefore

LEMMA TimingPreserved ==
    ASSUME TimingTypeOK, TimingInv, [Next]_vars PROVE TimingTypeOK' /\ TimingInv'
<1> DEFINE a1 == ages[1]
           a2 == ages[2]
<1>1. /\ a1 \in 0..Interval /\ a2 \in 0..Interval /\ Interval \in Nat /\ MaxLate \in Nat
      /\ due \in Int /\ ages = <<a1, a2>>
  BY BoundsAssumption DEF TimingTypeOK
<1>2. CASE EndRound
  <2>1. ages' = ages /\ thread' = "waiting"
    BY <1>2 DEF EndRound
  <2>2. CASE thread = "first"
    <3>1. due' = Interval
      BY <1>2, <2>2 DEF EndRound
    <3> QED BY <1>1, <2>1, <2>2, <3>1 DEF TimingTypeOK, TimingInv, NotBefore
  <2>3. CASE thread = "round"
    <3>1. due' = IF due + Interval < 0 THEN 0 ELSE due + Interval
      BY <1>2, <2>3 DEF EndRound, NextDue
    <3>2. due <= 0 /\ (a2 = Interval \/ due >= -a2)
      BY <1>1, <2>3 DEF TimingInv, NotBefore
    <3>3. due' \in Int /\ 0 <= due' /\ due' <= Interval /\ due' >= due + Interval
      BY <1>1, <3>1, <3>2
    <3>4. TimingTypeOK'
      BY <1>1, <2>1, <3>3 DEF TimingTypeOK
    <3>5. due' >= 0 - a1 /\ (a2 = Interval \/ due' >= Interval - a2)
      BY <1>1, <3>2, <3>3
    <3> QED BY <2>1, <3>4, <3>5 DEF TimingInv, NotBefore
  <2> QED BY <1>2, <2>2, <2>3 DEF EndRound, InRound
<1>3. CASE Timeout
  <2>1. /\ thread = "waiting" /\ thread' = "round" /\ due <= 0 /\ due' = due
        /\ ages' = <<0, a1>>
    BY <1>3 DEF Timeout, Expired
  <2>2. a1 = Interval \/ due >= 0 - a1
    BY <2>1 DEF TimingInv, NotBefore
  <2>3. ages'[2] = a1 /\ ages' \in (0..Interval) \X (0..Interval)
    BY <1>1, <2>1
  <2> QED BY <1>1, <2>1, <2>2, <2>3 DEF TimingTypeOK, TimingInv, NotBefore
<1>4. CASE Tick
  <2>1. /\ due' = due - 1 /\ due > -MaxLate /\ thread' = thread
        /\ ages' = <<Aged(a1), Aged(a2)>>
    BY <1>4 DEF Tick
  <2>2. /\ Aged(a1) \in 0..Interval /\ Aged(a2) \in 0..Interval
        /\ Aged(a1) = Interval \/ Aged(a1) = a1 + 1
        /\ Aged(a2) = Interval \/ Aged(a2) = a2 + 1
    BY <1>1 DEF Aged
  <2>3. /\ a1 = Interval => Aged(a1) = Interval
        /\ a2 = Interval => Aged(a2) = Interval
    BY <1>1 DEF Aged
  <2>4. ages'[1] = Aged(a1) /\ ages'[2] = Aged(a2) /\ ages' \in (0..Interval) \X (0..Interval)
    BY <2>1, <2>2
  <2>5. TimingTypeOK'
    BY <1>1, <2>1, <2>4 DEF TimingTypeOK
  <2>6. ASSUME NEW since \in Int, NotBefore(a1, since)
        PROVE  Aged(a1) = Interval \/ due' >= since - Aged(a1)
    BY <1>1, <2>1, <2>2, <2>3, <2>6 DEF NotBefore
  <2>7. ASSUME NEW since \in Int, NotBefore(a2, since)
        PROVE  Aged(a2) = Interval \/ due' >= since - Aged(a2)
    BY <1>1, <2>1, <2>2, <2>3, <2>7 DEF NotBefore
  <2>8. TimingInv'
    <3>1. thread' = "first" => ages'[2] = Interval
      BY <2>1, <2>3, <2>4 DEF TimingInv
    <3>2. thread' = "waiting" => NotBefore(ages[1], 0)' /\ NotBefore(ages[2], Interval)'
      BY <1>1, <2>1, <2>4, <2>6, <2>7 DEF TimingInv, NotBefore
    <3>3. thread' = "round" => due' <= 0 /\ NotBefore(ages[2], 0)'
      BY <1>1, <2>1, <2>4, <2>7 DEF TimingInv, NotBefore
    <3> QED BY <3>1, <3>2, <3>3 DEF TimingInv
  <2> QED BY <2>5, <2>8
<1>5. CASE Untimed
  BY <1>5 DEF Untimed, timing, TimingTypeOK, TimingInv, NotBefore
<1>6. CASE UNCHANGED vars
  BY <1>6 DEF vars, timing, TimingTypeOK, TimingInv, NotBefore
<1> QED BY <1>2, <1>3, <1>4, <1>5, <1>6, StepsUntimed

LEMMA TimingInvariance == Spec => [](TimingTypeOK /\ TimingInv)
<1>1. (TimingTypeOK /\ TimingInv) /\ [Next]_vars => (TimingTypeOK /\ TimingInv)'
  BY TimingPreserved
<1> QED BY <1>1, TimingInit, PTL DEF Spec

\* However late the thread is, and whatever the interval: no three rounds of
\* requests begin within less than an interval.
THEOREM NeverInBursts == Spec => NoBurst
<1>1. TimingTypeOK /\ TimingInv /\ [Next]_vars => [Timeout => ages[2] = Interval]_vars
  <2> SUFFICES ASSUME TimingTypeOK, TimingInv, Timeout PROVE ages[2] = Interval
    OBVIOUS
  <2>1. due <= 0 /\ due \in Int /\ Interval \in Nat /\ ages[2] \in 0..Interval
    BY BoundsAssumption DEF Timeout, Expired, TimingTypeOK
  <2>2. ages[2] = Interval \/ due >= Interval - ages[2]
    BY DEF Timeout, TimingInv, NotBefore
  <2> QED BY <2>1, <2>2
<1> QED BY <1>1, TimingInvariance, PTL DEF Spec, NoBurst

-----------------------------------------------------------------------------
(* Messages and counters.                                                  *)

Counters == Counter \cup {None}

EntryTypeOK ==
    /\ left \subseteq Nodes
    /\ stop \in BOOLEAN /\ checked \in BOOLEAN
    /\ sent \in [Nodes -> Counters]
    /\ received \in [Nodes -> Counters]
    /\ registered \subseteq Nodes
    /\ toNode \in [Nodes -> Seq(Message)]
    /\ toServer \in [Nodes -> Seq(Message)]
    /\ about \in [Nodes -> About]

\* What a counter says if it is about a request of the current entry.
Tells(s, c, a) ==
    a.own => s # None /\ c # None /\ (a.lag < Width => s - c \in {a.lag, a.lag - Width})

\* Behind what is about the current entry comes only what is about it too, and
\* about no earlier request.
Follows(a, b) == a.own => b.own /\ b.lag <= a.lag

\* The messages q, on their way in this order, and what is before them.
Telling(s, q) == \A k \in DOMAIN q : Tells(s, q[k].counter, q[k].about)
Behind(a, q) == \A k \in DOMAIN q : q[k].kind # "registered" => Follows(a, q[k].about)
InOrder(q) ==
    \A j, k \in DOMAIN q :
        j < k /\ q[k].kind # "registered" => Follows(q[j].about, q[k].about)
AllBehind(p, q) == \A j \in DOMAIN p : Behind(p[j].about, q)

\* The invariant of one node, of its counters s and c, what c is about, and
\* its messages p to the handler and q to the node.
NodeInv(s, c, a, p, q) ==
    /\ Tells(s, c, a) /\ Telling(s, p) /\ Telling(s, q)
    /\ Behind(a, p) /\ Behind(a, q) /\ InOrder(p) /\ InOrder(q) /\ AllBehind(p, q)

MessagesInv ==
    \A n \in Nodes : NodeInv(sent[n], received[n], about[n], toServer[n], toNode[n])

-----------------------------------------------------------------------------
(* Queues of messages.                                                     *)

LEMMA AboutTypes ==
    /\ Latest \in About /\ Stale \in About /\ Disowned(Latest) = Stale
    /\ Latest.own /\ Latest.lag = 0 /\ ~Stale.own
    /\ \A a \in About : a.own \in BOOLEAN /\ a.lag \in 0..Width
<1>1. Width \in Nat /\ 0 \in 0..Width
  BY BoundsAssumption
<1>2. Latest \in About /\ Stale \in About
  BY <1>1 DEF Latest, Stale, About
<1>3. Latest.own /\ Latest.lag = 0 /\ ~Stale.own
  BY DEF Latest, Stale
<1> QED BY <1>2, <1>3 DEF About, Disowned

LEMMA MessagesMade ==
    /\ [kind |-> "registered", counter |-> None, about |-> Stale] \in Message
    /\ \A c \in Counter :
          [kind |-> "request", counter |-> c, about |-> Latest] \in Message
  BY AboutTypes DEF Message

LEMMA MessageFields ==
    ASSUME NEW m \in Message
    PROVE  /\ m.about \in About /\ m.counter \in Counters
           /\ m.kind = "registered" => ~m.about.own /\ m.about = Stale
           /\ m.kind # "registered" => m.counter \in Counter
  BY AboutTypes DEF Message, Counters

LEMMA MessageTypes ==
    /\ Latest \in About /\ Stale \in About /\ Latest.own /\ Latest.lag = 0 /\ ~Stale.own
    /\ \A c \in Counter :
          [kind |-> "request", counter |-> c, about |-> Latest] \in Message
    /\ \A m \in Message : m.about \in About /\ m.counter \in Counters
  BY AboutTypes, MessagesMade, MessageFields

LEMMA OlderTypes ==
    ASSUME NEW a \in About
    PROVE  /\ Older(a) \in About /\ Older(a).own = a.own
           /\ Older(a).lag = a.lag + 1 \/ Older(a).lag = Width \/ ~Older(a).own
           /\ Older(a).own /\ a.lag < Width => Older(a).lag = a.lag + 1
<1>1. a.own \in BOOLEAN /\ a.lag \in 0..Width /\ Width \in Nat
  BY BoundsAssumption DEF About
<1>2. CASE a.own /\ a.lag < Width
  <2>1. Older(a) = [a EXCEPT !.lag = a.lag + 1] /\ a.lag + 1 \in 0..Width
    BY <1>1, <1>2 DEF Older
  <2> DEFINE l == a.lag + 1
  <2> HIDE DEF l
  <2>2. [a EXCEPT !.lag = l] = [own |-> a.own, lag |-> l]
    BY DEF About
  <2>3. Older(a) = [own |-> a.own, lag |-> l] /\ l \in 0..Width /\ l = a.lag + 1
    BY <2>1, <2>2 DEF l
  <2>4. Older(a) \in About
    BY <1>1, <2>3 DEF About
  <2>5. Older(a).own = a.own
    BY <2>3
  <2>6. Older(a).lag = a.lag + 1
    BY <2>3
  <2> QED BY <2>4, <2>5, <2>6
<1>3. CASE ~(a.own /\ a.lag < Width)
  <2>1. Older(a) = a
    BY <1>3 DEF Older
  <2> QED BY <1>1, <1>3, <2>1
<1> QED BY <1>2, <1>3

LEMMA QueueOlder ==
    ASSUME NEW q \in Seq(Message)
    PROVE  /\ AllNow(q, Older) \in Seq(Message)
           /\ DOMAIN AllNow(q, Older) = DOMAIN q /\ Len(AllNow(q, Older)) = Len(q)
           /\ \A k \in DOMAIN q : /\ AllNow(q, Older)[k].kind = q[k].kind
                                  /\ AllNow(q, Older)[k].counter = q[k].counter
                                  /\ AllNow(q, Older)[k].about = Older(q[k].about)
<1>1. ASSUME NEW k \in DOMAIN q
      PROVE  /\ [q[k] EXCEPT !.about = Older(@)] \in Message
             /\ [q[k] EXCEPT !.about = Older(@)].kind = q[k].kind
             /\ [q[k] EXCEPT !.about = Older(@)].counter = q[k].counter
             /\ [q[k] EXCEPT !.about = Older(@)].about = Older(q[k].about)
  <2>1. q[k] \in Message
    OBVIOUS
  <2>2. Older(q[k].about) \in About
    BY <2>1, MessageTypes, OlderTypes
  <2>3. q[k].kind = "registered" => Older(q[k].about) = Stale
    <3>1. Older(Stale) = Stale
      BY AboutTypes DEF Older
    <3> QED BY <2>1, <3>1, MessageFields
  <2> QED BY <2>1, <2>2, <2>3 DEF Message
<1>2. AllNow(q, Older) \in [1..Len(q) -> Message]
  BY <1>1 DEF AllNow
<1>3. AllNow(q, Older) \in Seq(Message) /\ DOMAIN AllNow(q, Older) = DOMAIN q
      /\ Len(AllNow(q, Older)) = Len(q)
  BY <1>2
<1> QED BY <1>1, <1>3 DEF AllNow

LEMMA QueueDisowned ==
    ASSUME NEW q \in Seq(Message)
    PROVE  /\ AllNow(q, Disowned) \in Seq(Message)
           /\ DOMAIN AllNow(q, Disowned) = DOMAIN q
           /\ \A k \in DOMAIN q : /\ AllNow(q, Disowned)[k].kind = q[k].kind
                                  /\ AllNow(q, Disowned)[k].about = Stale
<1>1. ASSUME NEW k \in DOMAIN q
      PROVE  /\ [q[k] EXCEPT !.about = Disowned(@)] \in Message
             /\ [q[k] EXCEPT !.about = Disowned(@)].kind = q[k].kind
             /\ [q[k] EXCEPT !.about = Disowned(@)].about = Stale
  <2>1. q[k] \in Message /\ Stale \in About
    BY MessageTypes
  <2> QED BY <2>1 DEF Message, Disowned
<1>2. AllNow(q, Disowned) \in [1..Len(q) -> Message]
  BY <1>1 DEF AllNow
<1>3. AllNow(q, Disowned) \in Seq(Message) /\ DOMAIN AllNow(q, Disowned) = DOMAIN q
  BY <1>2
<1> QED BY <1>1, <1>3 DEF AllNow

LEMMA AppendMessage ==
    ASSUME NEW q \in Seq(Message), NEW m \in Message
    PROVE  /\ Append(q, m) \in Seq(Message)
           /\ DOMAIN Append(q, m) = DOMAIN q \cup {Len(q) + 1}
           /\ \A k \in DOMAIN q : Append(q, m)[k] = q[k] /\ k < Len(q) + 1
           /\ Append(q, m)[Len(q) + 1] = m
  OBVIOUS

LEMMA TailMessages ==
    ASSUME NEW q \in Seq(Message), q # <<>>
    PROVE  /\ Head(q) \in Message /\ Head(q) = q[1] /\ 1 \in DOMAIN q
           /\ Tail(q) \in Seq(Message)
           /\ \A k \in DOMAIN Tail(q) :
                  k + 1 \in DOMAIN q /\ 1 < k + 1 /\ Tail(q)[k] = q[k + 1]
           /\ DOMAIN Tail(q) \subseteq Nat
  OBVIOUS

-----------------------------------------------------------------------------
(* What can happen to the messages of one node.                            *)

\* Nothing on the way is about a new entry.
LEMMA NewEntry ==
    ASSUME NEW p \in Seq(Message), NEW q \in Seq(Message)
    PROVE  NodeInv(None, None, Stale, AllNow(p, Disowned), AllNow(q, Disowned))
<1>1. \A b, s, c : Follows(Stale, b) /\ Tells(s, c, Stale)
  BY MessageTypes DEF Follows, Tells
<1> DEFINE P == AllNow(p, Disowned)
           Q == AllNow(q, Disowned)
<1>2. /\ \A k \in DOMAIN P : P[k].about = Stale
      /\ \A k \in DOMAIN Q : Q[k].about = Stale
  BY QueueDisowned
<1> HIDE DEF P, Q
<1>3. Telling(None, P) /\ Telling(None, Q)
  BY <1>1, <1>2 DEF Telling
<1>4. Behind(Stale, P) /\ Behind(Stale, Q)
  BY <1>1 DEF Behind
<1>5. InOrder(P) /\ InOrder(Q)
  BY <1>1, <1>2 DEF InOrder
<1>6. AllBehind(P, Q)
  BY <1>2, <1>4 DEF AllBehind
<1>7. NodeInv(None, None, Stale, P, Q)
  BY <1>1, <1>3, <1>4, <1>5, <1>6 DEF NodeInv
<1> QED BY <1>7 DEF P, Q

\* One request more.
LEMMA OlderTells ==
    ASSUME NEW s \in Counters, NEW t \in Counter, NEW c \in Counters, NEW a \in About,
           t = (IF s \in {None, Width - 1} THEN 0 ELSE s + 1), Tells(s, c, a)
    PROVE  Tells(t, c, Older(a))
<1> SUFFICES ASSUME a.own
             PROVE  c # None /\ (Older(a).lag < Width =>
                                    t - c \in {Older(a).lag, Older(a).lag - Width})
  <2>1. t # None
    BY DEF Counter, None
  <2> QED BY <2>1, OlderTypes DEF Tells
<1>1. s # None /\ c # None /\ s \in Counter /\ c \in Counter
      /\ (a.lag < Width => s - c \in {a.lag, a.lag - Width})
  BY DEF Tells, Counters
<1>2. /\ a.lag \in 0..Width
      /\ Older(a).lag < Width => a.lag < Width /\ Older(a).lag = a.lag + 1
  BY OlderTypes, BoundsAssumption DEF About
<1>3. ASSUME a.lag < Width, NEW l \in Nat, l = a.lag + 1, l < Width
      PROVE  t - c = l \/ t - c = l - Width
  BY <1>1, <1>2, <1>3, BoundsAssumption DEF Counter, None
<1> QED BY <1>1, <1>2, <1>3

LEMMA OlderFollows ==
    ASSUME NEW a \in About, NEW b \in About, Follows(a, b)
    PROVE  Follows(Older(a), Older(b)) /\ Follows(Older(a), Latest)
<1>1. Follows(Older(a), Latest)
  BY OlderTypes, MessageTypes, BoundsAssumption DEF Follows, About
<1>2. Follows(Older(a), Older(b))
  <2> SUFFICES ASSUME a.own PROVE Older(b).own /\ Older(b).lag <= Older(a).lag
    BY OlderTypes DEF Follows
  <2>1. /\ b.own /\ b.lag <= a.lag /\ a.lag \in 0..Width /\ b.lag \in 0..Width
    BY DEF Follows, About
  <2>2. Older(b).lag <= Older(a).lag
    BY <2>1, BoundsAssumption DEF Older
  <2> QED BY <2>1, <2>2, OlderTypes
<1> QED BY <1>1, <1>2

LEMMA LatestFollows ==
    ASSUME NEW a \in About PROVE Follows(a, Latest)
  BY MessageTypes DEF Follows, About

LEMMA AllOlderInv ==
    ASSUME NEW p \in Seq(Message), NEW q \in Seq(Message), NEW a \in About,
           NEW s \in Counters, NEW t \in Counter, NEW c \in Counters,
           t = (IF s \in {None, Width - 1} THEN 0 ELSE s + 1), NodeInv(s, c, a, p, q)
    PROVE  NodeInv(t, c, Older(a), AllNow(p, Older), AllNow(q, Older))
<1> DEFINE P == AllNow(p, Older)
           Q == AllNow(q, Older)
<1>1. /\ DOMAIN P = DOMAIN p /\ DOMAIN Q = DOMAIN q
      /\ \A k \in DOMAIN p : /\ P[k].kind = p[k].kind /\ P[k].counter = p[k].counter
                             /\ P[k].about = Older(p[k].about)
                             /\ p[k].about \in About /\ p[k].counter \in Counters
      /\ \A k \in DOMAIN q : /\ Q[k].kind = q[k].kind /\ Q[k].counter = q[k].counter
                             /\ Q[k].about = Older(q[k].about)
                             /\ q[k].about \in About /\ q[k].counter \in Counters
  <2>1. /\ \A k \in DOMAIN p : p[k] \in Message
        /\ \A k \in DOMAIN q : q[k] \in Message
    OBVIOUS
  <2> QED BY <2>1, QueueOlder, MessageTypes
<1> HIDE DEF P, Q
<1>2. Tells(t, c, Older(a)) /\ Telling(t, P) /\ Telling(t, Q)
  BY <1>1, OlderTells DEF NodeInv, Telling
<1>3. Behind(Older(a), P) /\ Behind(Older(a), Q)
  BY <1>1, OlderFollows DEF NodeInv, Behind
<1>4. InOrder(P) /\ InOrder(Q)
  BY <1>1, OlderFollows DEF NodeInv, InOrder
<1>5. AllBehind(P, Q)
  BY <1>1, OlderFollows DEF NodeInv, AllBehind, Behind
<1> QED BY <1>2, <1>3, <1>4, <1>5 DEF NodeInv, P, Q

\* The request itself, behind all of them.
LEMMA AppendRequest ==
    ASSUME NEW p \in Seq(Message), NEW q \in Seq(Message), NEW a \in About,
           NEW t \in Counter, NEW c \in Counters, NodeInv(t, c, a, p, q)
    PROVE  NodeInv(t, c, a, p,
                   Append(q, [kind |-> "request", counter |-> t, about |-> Latest]))
<1> DEFINE m == [kind |-> "request", counter |-> t, about |-> Latest]
           Q == Append(q, m)
<1>1. m \in Message /\ m.about = Latest /\ m.counter = t
  BY MessageTypes
<1>2. /\ DOMAIN Q = DOMAIN q \cup {Len(q) + 1}
      /\ \A k \in DOMAIN q : Q[k] = q[k] /\ k < Len(q) + 1
      /\ Q[Len(q) + 1] = m
      /\ \A k \in DOMAIN q : q[k].about \in About /\ k \in Nat
      /\ \A k \in DOMAIN p : p[k].about \in About
      /\ Len(q) \in Nat
  <2>1. /\ \A k \in DOMAIN p : p[k] \in Message
        /\ \A k \in DOMAIN q : q[k] \in Message /\ k \in Nat
    OBVIOUS
  <2> QED BY <1>1, <2>1, AppendMessage, MessageTypes
<1>3. Tells(t, t, Latest)
  <2>1. t # None /\ t - t = 0
    BY DEF Counter, None
  <2> QED BY <2>1, MessageTypes DEF Tells
<1> HIDE DEF m, Q
<1>4. Telling(t, Q)
  BY <1>1, <1>2, <1>3 DEF NodeInv, Telling
<1>5. Behind(a, Q) /\ AllBehind(p, Q)
  BY <1>1, <1>2, LatestFollows DEF NodeInv, Behind, AllBehind
<1>6. InOrder(Q)
  <2> SUFFICES ASSUME NEW j \in DOMAIN Q, NEW k \in DOMAIN Q, j < k,
                      Q[k].kind # "registered"
               PROVE  Follows(Q[j].about, Q[k].about)
    BY DEF InOrder
  <2>1. j \in DOMAIN q
    BY <1>2
  <2>2. CASE k \in DOMAIN q
    BY <1>2, <2>1, <2>2 DEF NodeInv, InOrder
  <2>3. CASE k = Len(q) + 1
    BY <1>1, <1>2, <2>1, <2>3, LatestFollows
  <2> QED BY <1>2, <2>2, <2>3
<1> QED BY <1>4, <1>5, <1>6 DEF NodeInv, m, Q

\* The first message to the node goes, lost or answered.
LEMMA RequestTaken ==
    ASSUME NEW p \in Seq(Message), NEW q \in Seq(Message), NEW a \in About,
           NEW s \in Counters, NEW c \in Counters, NodeInv(s, c, a, p, q), q # <<>>
    PROVE  NodeInv(s, c, a, p, Tail(q))
<1>1. \A k \in DOMAIN Tail(q) : k + 1 \in DOMAIN q /\ Tail(q)[k] = q[k + 1] /\ k \in Nat
  BY TailMessages
<1>2. InOrder(Tail(q))
  <2> SUFFICES ASSUME NEW j \in DOMAIN Tail(q), NEW k \in DOMAIN Tail(q), j < k,
                      Tail(q)[k].kind # "registered"
               PROVE  Follows(Tail(q)[j].about, Tail(q)[k].about)
    BY DEF InOrder
  <2>1. j + 1 < k + 1
    BY <1>1
  <2> QED BY <1>1, <2>1 DEF NodeInv, InOrder
<1>3. Telling(s, Tail(q)) /\ Behind(a, Tail(q)) /\ AllBehind(p, Tail(q))
  BY <1>1 DEF NodeInv, Telling, Behind, AllBehind
<1> QED BY <1>2, <1>3 DEF NodeInv

\* A message m to the handler, before what is on its way to the node.
LEMMA Posted ==
    ASSUME NEW p \in Seq(Message), NEW q \in Seq(Message), NEW a \in About,
           NEW s \in Counters, NEW c \in Counters, NodeInv(s, c, a, p, q),
           NEW m \in Message, Tells(s, m.counter, m.about), Behind(m.about, q),
           m.kind # "registered" =>
              /\ Follows(a, m.about)
              /\ \A j \in DOMAIN p : Follows(p[j].about, m.about)
    PROVE  NodeInv(s, c, a, Append(p, m), q)
<1> DEFINE P == Append(p, m)
<1>1. /\ DOMAIN P = DOMAIN p \cup {Len(p) + 1}
      /\ \A k \in DOMAIN p : P[k] = p[k] /\ k < Len(p) + 1 /\ k \in Nat
      /\ P[Len(p) + 1] = m /\ Len(p) \in Nat
  <2>1. \A k \in DOMAIN p : k \in Nat
    OBVIOUS
  <2> QED BY <2>1, AppendMessage
<1> HIDE DEF P
<1>2. Telling(s, P) /\ Behind(a, P) /\ AllBehind(P, q)
  BY <1>1 DEF NodeInv, Telling, Behind, AllBehind
<1>3. InOrder(P)
  <2> SUFFICES ASSUME NEW j \in DOMAIN P, NEW k \in DOMAIN P, j < k,
                      P[k].kind # "registered"
               PROVE  Follows(P[j].about, P[k].about)
    BY DEF InOrder
  <2>1. j \in DOMAIN p
    BY <1>1
  <2>2. CASE k \in DOMAIN p
    BY <1>1, <2>1, <2>2 DEF NodeInv, InOrder
  <2>3. CASE k = Len(p) + 1
    BY <1>1, <2>1, <2>3
  <2> QED BY <1>1, <2>2, <2>3
<1> QED BY <1>2, <1>3 DEF NodeInv, P

\* The first message to the handler goes, and if it is filed, its counter and
\* what that is about are the ones before all others.
LEMMA MessageTaken ==
    ASSUME NEW p \in Seq(Message), NEW q \in Seq(Message), NEW a \in About,
           NEW s \in Counters, NEW c \in Counters, NodeInv(s, c, a, p, q), p # <<>>
    PROVE  /\ NodeInv(s, c, a, Tail(p), q)
           /\ NodeInv(s, Head(p).counter, Head(p).about, Tail(p), q)
<1>1. /\ \A k \in DOMAIN Tail(p) : /\ k + 1 \in DOMAIN p /\ 1 < k + 1
                                   /\ Tail(p)[k] = p[k + 1] /\ k \in Nat
      /\ 1 \in DOMAIN p /\ Head(p) = p[1]
  BY TailMessages
<1>2. InOrder(Tail(p))
  <2> SUFFICES ASSUME NEW j \in DOMAIN Tail(p), NEW k \in DOMAIN Tail(p), j < k,
                      Tail(p)[k].kind # "registered"
               PROVE  Follows(Tail(p)[j].about, Tail(p)[k].about)
    BY DEF InOrder
  <2>1. j + 1 < k + 1
    BY <1>1
  <2> QED BY <1>1, <2>1 DEF NodeInv, InOrder
<1>3. Telling(s, Tail(p)) /\ Behind(a, Tail(p)) /\ AllBehind(Tail(p), q)
  BY <1>1 DEF NodeInv, Telling, Behind, AllBehind
<1>4. /\ Tells(s, Head(p).counter, Head(p).about)
      /\ Behind(Head(p).about, q) /\ Behind(Head(p).about, Tail(p))
  BY <1>1 DEF NodeInv, Telling, AllBehind, InOrder, Behind
<1> QED BY <1>2, <1>3, <1>4 DEF NodeInv

-----------------------------------------------------------------------------
(* The steps.                                                              *)

\* What holds of one node, its types included.
OneNode(s, c, a, p, q) ==
    /\ s \in Counters /\ c \in Counters /\ a \in About
    /\ p \in Seq(Message) /\ q \in Seq(Message)
    /\ \A k \in DOMAIN q : q[k].kind = "request"
    /\ NodeInv(s, c, a, p, q)

HeartbeatInv ==
    /\ EntryTypeOK
    /\ \A n \in Nodes : OneNode(sent[n], received[n], about[n], toServer[n], toNode[n])

\* What is no node's.
OthersTyped == left \subseteq Nodes /\ stop \in BOOLEAN /\ checked \in BOOLEAN
                 /\ registered \subseteq Nodes

\* A step changes what one node has.
LEMMA OneChanges ==
    ASSUME HeartbeatInv, OthersTyped', NEW n \in Nodes,
           NEW s, NEW c, NEW a, NEW p, NEW q, OneNode(s, c, a, p, q),
           sent' = [sent EXCEPT ![n] = s], received' = [received EXCEPT ![n] = c],
           about' = [about EXCEPT ![n] = a],
           toServer' = [toServer EXCEPT ![n] = p], toNode' = [toNode EXCEPT ![n] = q]
    PROVE  HeartbeatInv'
<1>1. s \in Counters /\ c \in Counters /\ a \in About
      /\ p \in Seq(Message) /\ q \in Seq(Message)
  BY DEF OneNode
<1>2. EntryTypeOK'
  BY <1>1 DEF HeartbeatInv, EntryTypeOK, OthersTyped
<1>3. ASSUME NEW k \in Nodes
      PROVE  OneNode(sent[k], received[k], about[k], toServer[k], toNode[k])'
  <2>1. CASE k = n
    <3>1. sent'[k] = s /\ received'[k] = c /\ about'[k] = a
          /\ toServer'[k] = p /\ toNode'[k] = q
      BY <2>1 DEF HeartbeatInv, EntryTypeOK
    <3> QED BY <3>1
  <2>2. CASE k # n
    <3>1. sent'[k] = sent[k] /\ received'[k] = received[k] /\ about'[k] = about[k]
          /\ toServer'[k] = toServer[k] /\ toNode'[k] = toNode[k]
      BY <2>2 DEF HeartbeatInv, EntryTypeOK
    <3> QED BY <3>1 DEF HeartbeatInv
  <2> QED BY <2>1, <2>2
<1> QED BY <1>2, <1>3 DEF HeartbeatInv

\* A function is itself with what it has at n.
LEMMA Same ==
    ASSUME EntryTypeOK, NEW n \in Nodes
    PROVE  /\ sent = [sent EXCEPT ![n] = sent[n]]
           /\ received = [received EXCEPT ![n] = received[n]]
           /\ about = [about EXCEPT ![n] = about[n]]
           /\ toServer = [toServer EXCEPT ![n] = toServer[n]]
           /\ toNode = [toNode EXCEPT ![n] = toNode[n]]
  BY DEF EntryTypeOK

LEMMA HeartbeatInit == Init => HeartbeatInv
<1> SUFFICES ASSUME Init PROVE HeartbeatInv
  OBVIOUS
<1>1. <<>> \in Seq(Message) /\ DOMAIN <<>> = {} /\ None \in Counters /\ Stale \in About
  BY AboutTypes DEF Counters
<1>2. EntryTypeOK
  BY <1>1 DEF Init, EntryTypeOK
<1>3. OneNode(None, None, Stale, <<>>, <<>>)
  BY <1>1, AboutTypes
     DEF OneNode, NodeInv, Tells, Telling, Behind, InOrder, AllBehind
<1> QED BY <1>2, <1>3 DEF Init, HeartbeatInv

LEMMA AskKeeps ==
    ASSUME HeartbeatInv, NEW n \in Nodes, Ask(n) PROVE HeartbeatInv'
<1> DEFINE s == sent[n]
           c == received[n]
           a == about[n]
           p == toServer[n]
           q == toNode[n]
           t == NextCounter(n)
           m == [kind |-> "request", counter |-> t, about |-> Latest]
<1>1. /\ s \in Counters /\ c \in Counters /\ a \in About
      /\ p \in Seq(Message) /\ q \in Seq(Message)
      /\ \A k \in DOMAIN q : q[k].kind = "request"
      /\ NodeInv(s, c, a, p, q)
  BY DEF HeartbeatInv, OneNode
<1>2. t \in Counter /\ t \in Counters /\ t = (IF s \in {None, Width - 1} THEN 0 ELSE s + 1)
  BY <1>1, BoundsAssumption DEF NextCounter, Counter, Counters, None
<1>3. NodeInv(t, c, Older(a), AllNow(p, Older), AllNow(q, Older))
  BY <1>1, <1>2, AllOlderInv
<1>4. /\ Older(a) \in About /\ AllNow(p, Older) \in Seq(Message)
      /\ AllNow(q, Older) \in Seq(Message)
      /\ \A k \in DOMAIN AllNow(q, Older) : AllNow(q, Older)[k].kind = "request"
  BY <1>1, QueueOlder, OlderTypes
<1>5. OneNode(t, c, Older(a), AllNow(p, Older), AllNow(q, Older))
  BY <1>1, <1>2, <1>3, <1>4 DEF OneNode
<1>6. NodeInv(t, c, Older(a), AllNow(p, Older), Append(AllNow(q, Older), m))
  BY <1>1, <1>2, <1>3, <1>4, AppendRequest
<1>7. /\ Append(AllNow(q, Older), m) \in Seq(Message)
      /\ \A k \in DOMAIN Append(AllNow(q, Older), m) :
            Append(AllNow(q, Older), m)[k].kind = "request"
  <2>1. m \in Message /\ m.kind = "request"
    BY <1>2, MessagesMade
  <2> HIDE DEF m
  <2> QED BY <1>4, <2>1, AppendMessage
<1>8. OneNode(t, c, Older(a), AllNow(p, Older), Append(AllNow(q, Older), m))
  BY <1>1, <1>2, <1>4, <1>6, <1>7 DEF OneNode
<1>9. /\ sent' = [sent EXCEPT ![n] = t] /\ received' = [received EXCEPT ![n] = c]
      /\ about' = [about EXCEPT ![n] = Older(a)]
      /\ toServer' = [toServer EXCEPT ![n] = AllNow(p, Older)]
      /\ \/ toNode' = [toNode EXCEPT ![n] = AllNow(q, Older)]
         \/ toNode' = [toNode EXCEPT ![n] = Append(AllNow(q, Older), m)]
  <2>1. received' = [received EXCEPT ![n] = c]
    BY Same DEF Ask, HeartbeatInv
  <2> QED BY <2>1 DEF Ask, AllOlder, Request
<1>10. OthersTyped'
  BY DEF Ask, OthersTyped, HeartbeatInv, EntryTypeOK
<1> HIDE DEF s, c, a, p, q, t, m
<1>11. CASE toNode' = [toNode EXCEPT ![n] = AllNow(q, Older)]
  BY <1>5, <1>9, <1>10, <1>11, OneChanges
<1>12. CASE toNode' = [toNode EXCEPT ![n] = Append(AllNow(q, Older), m)]
  BY <1>8, <1>9, <1>10, <1>12, OneChanges
<1> QED BY <1>9, <1>11, <1>12

LEMMA HandleKeeps ==
    ASSUME HeartbeatInv, NEW n \in Nodes, Handle(n) PROVE HeartbeatInv'
<1> DEFINE s == sent[n]
           c == received[n]
           a == about[n]
           p == toServer[n]
           q == toNode[n]
           m == Head(p)
<1>1. /\ s \in Counters /\ c \in Counters /\ a \in About
      /\ p \in Seq(Message) /\ q \in Seq(Message)
      /\ \A k \in DOMAIN q : q[k].kind = "request"
      /\ NodeInv(s, c, a, p, q) /\ p # <<>> /\ HandleFrom(n, m, Tail(p))
  BY DEF HeartbeatInv, OneNode, Handle
<1>2. /\ m \in Message /\ Tail(p) \in Seq(Message)
      /\ NodeInv(s, c, a, Tail(p), q) /\ NodeInv(s, m.counter, m.about, Tail(p), q)
  BY <1>1, TailMessages, MessageTaken
<1>3. m.about \in About /\ m.counter \in Counters
  BY <1>2, MessageFields
<1>4. /\ sent = [sent EXCEPT ![n] = s] /\ received = [received EXCEPT ![n] = c]
      /\ about = [about EXCEPT ![n] = a] /\ toNode = [toNode EXCEPT ![n] = q]
  BY Same DEF HeartbeatInv
<1>5. left \subseteq Nodes /\ stop \in BOOLEAN /\ checked \in BOOLEAN
      /\ registered \subseteq Nodes
  BY DEF HeartbeatInv, EntryTypeOK
<1> HIDE DEF s, c, a, p, q, m
<1>6. CASE HandleAnswer(n, m)
  <2>1. OneNode(s, m.counter, m.about, Tail(p), q)
    BY <1>1, <1>2, <1>3 DEF OneNode
  <2>2. /\ received' = [received EXCEPT ![n] = m.counter]
        /\ about' = [about EXCEPT ![n] = m.about]
        /\ UNCHANGED <<sent, registered, toNode>> /\ m.kind # "registered"
    BY <1>6 DEF HandleAnswer
  <2>3. toServer' = [toServer EXCEPT ![n] = Tail(p)] /\ OthersTyped'
    BY <1>1, <1>5, <2>2 DEF HandleFrom, OthersTyped
  <2> QED BY <1>4, <2>1, <2>2, <2>3, OneChanges
<1>7. CASE RejectAnswer(n, m)
  <2>1. OneNode(s, c, a, Tail(p), q)
    BY <1>1, <1>2 DEF OneNode
  <2>2. UNCHANGED <<sent, received, registered, about, toNode>> /\ m.kind # "registered"
    BY <1>7 DEF RejectAnswer, entries
  <2>3. toServer' = [toServer EXCEPT ![n] = Tail(p)] /\ OthersTyped'
    BY <1>1, <1>5, <2>2 DEF HandleFrom, OthersTyped
  <2>4. /\ sent' = [sent EXCEPT ![n] = s] /\ received' = [received EXCEPT ![n] = c]
        /\ about' = [about EXCEPT ![n] = a] /\ toNode' = [toNode EXCEPT ![n] = q]
    BY <1>4, <2>2
  <2> QED BY <2>1, <2>3, <2>4, OneChanges
<1>8. CASE Replace(n, m)
  <2> DEFINE P == AllNow(Tail(p), Disowned)
             Q == AllNow(q, Disowned)
  <2>1. /\ P \in Seq(Message) /\ Q \in Seq(Message)
        /\ \A k \in DOMAIN Q : Q[k].kind = "request"
    BY <1>1, <1>2, QueueDisowned
  <2>2. NodeInv(None, None, Stale, P, Q) /\ None \in Counters /\ Stale \in About
    BY <1>1, <1>2, NewEntry, AboutTypes DEF Counters
  <2>3. OneNode(None, None, Stale, P, Q)
    BY <2>1, <2>2 DEF OneNode
  <2>4. /\ sent' = [sent EXCEPT ![n] = None] /\ received' = [received EXCEPT ![n] = None]
        /\ about' = [about EXCEPT ![n] = Stale] /\ toNode' = [toNode EXCEPT ![n] = Q]
        /\ m.kind = "registered" /\ registered' = registered \cup {n}
    BY <1>8 DEF Replace, q
  <2>5. toServer' = [toServer EXCEPT ![n] = P] /\ OthersTyped'
    BY <1>1, <1>5, <2>4 DEF HandleFrom, OthersTyped
  <2> HIDE DEF P, Q
  <2> QED BY <2>3, <2>4, <2>5, OneChanges
<1> QED BY <1>1, <1>6, <1>7, <1>8 DEF HandleFrom

LEMMA AnswerKeeps ==
    ASSUME HeartbeatInv, NEW n \in Nodes, Answer(n) PROVE HeartbeatInv'
<1> DEFINE s == sent[n]
           c == received[n]
           a == about[n]
           p == toServer[n]
           q == toNode[n]
           m == [Head(q) EXCEPT !.kind = "answer"]
<1>1. /\ s \in Counters /\ c \in Counters /\ a \in About
      /\ p \in Seq(Message) /\ q \in Seq(Message) /\ q # <<>>
      /\ \A k \in DOMAIN q : q[k].kind = "request"
      /\ NodeInv(s, c, a, p, q)
  BY DEF HeartbeatInv, OneNode, Answer
<1>2. /\ Head(q) \in Message /\ Head(q) = q[1] /\ 1 \in DOMAIN q
      /\ Tail(q) \in Seq(Message)
      /\ \A k \in DOMAIN Tail(q) :
             k + 1 \in DOMAIN q /\ 1 < k + 1 /\ Tail(q)[k] = q[k + 1]
  BY <1>1, TailMessages
<1>3. /\ m \in Message /\ m.counter = Head(q).counter /\ m.about = Head(q).about
      /\ m.kind = "answer"
  <2>1. Head(q).kind = "request"
    BY <1>1, <1>2
  <2> QED BY <1>2, <2>1 DEF Message
<1> HIDE DEF m
<1>4. NodeInv(s, c, a, p, Tail(q))
  BY <1>1, RequestTaken
<1>5. Tells(s, m.counter, m.about) /\ Behind(m.about, Tail(q))
  BY <1>1, <1>2, <1>3 DEF NodeInv, Telling, Behind, InOrder
<1>6. /\ Follows(a, m.about)
      /\ \A j \in DOMAIN p : Follows(p[j].about, m.about)
  <2>1. Head(q).kind # "registered"
    BY <1>1, <1>2
  <2> QED BY <1>1, <1>2, <1>3, <2>1 DEF NodeInv, Behind, AllBehind
<1>7. NodeInv(s, c, a, Append(p, m), Tail(q))
  BY <1>1, <1>2, <1>3, <1>4, <1>5, <1>6, Posted
<1>8. OneNode(s, c, a, p, Tail(q)) /\ OneNode(s, c, a, Append(p, m), Tail(q))
  <2>1. \A k \in DOMAIN Tail(q) : Tail(q)[k].kind = "request"
    BY <1>1, <1>2
  <2>2. Append(p, m) \in Seq(Message)
    BY <1>1, <1>3, AppendMessage
  <2> QED BY <1>1, <1>2, <1>4, <1>7, <2>1, <2>2 DEF OneNode
<1>9. /\ sent' = [sent EXCEPT ![n] = s] /\ received' = [received EXCEPT ![n] = c]
      /\ about' = [about EXCEPT ![n] = a] /\ toNode' = [toNode EXCEPT ![n] = Tail(q)]
      /\ \/ toServer' = [toServer EXCEPT ![n] = p]
         \/ toServer' = [toServer EXCEPT ![n] = Append(p, m)]
  <2>1. UNCHANGED <<sent, received, about>> /\ toNode' = [toNode EXCEPT ![n] = Tail(q)]
    BY DEF Answer, entries
  <2>2. toServer' = toServer \/ toServer' = [toServer EXCEPT ![n] = Append(p, m)]
    BY DEF Answer, Post, m
  <2> QED BY <2>1, <2>2, Same DEF HeartbeatInv
<1>10. OthersTyped'
  BY DEF Answer, OthersTyped, HeartbeatInv, EntryTypeOK, entries
<1> HIDE DEF s, c, a, p, q
<1> QED BY <1>8, <1>9, <1>10, OneChanges

LEMMA RegisterKeeps ==
    ASSUME HeartbeatInv, NEW n \in Nodes, Register(n) PROVE HeartbeatInv'
<1> DEFINE s == sent[n]
           c == received[n]
           a == about[n]
           p == toServer[n]
           q == toNode[n]
           m == [kind |-> "registered", counter |-> None, about |-> Stale]
<1>1. /\ s \in Counters /\ c \in Counters /\ a \in About
      /\ p \in Seq(Message) /\ q \in Seq(Message)
      /\ \A k \in DOMAIN q : q[k].kind = "request"
      /\ NodeInv(s, c, a, p, q)
  BY DEF HeartbeatInv, OneNode
<1>2. m \in Message /\ m.kind = "registered" /\ ~m.about.own
  BY MessagesMade, AboutTypes
<1> HIDE DEF m
<1>3. Tells(s, m.counter, m.about) /\ Behind(m.about, q)
  BY <1>2 DEF Tells, Behind, Follows
<1>4. NodeInv(s, c, a, Append(p, m), q)
  BY <1>1, <1>2, <1>3, Posted
<1>5. OneNode(s, c, a, p, q) /\ OneNode(s, c, a, Append(p, m), q)
  <2>1. Append(p, m) \in Seq(Message)
    BY <1>1, <1>2, AppendMessage
  <2> QED BY <1>1, <1>4, <2>1 DEF OneNode
<1>6. /\ sent' = [sent EXCEPT ![n] = s] /\ received' = [received EXCEPT ![n] = c]
      /\ about' = [about EXCEPT ![n] = a] /\ toNode' = [toNode EXCEPT ![n] = q]
      /\ \/ toServer' = [toServer EXCEPT ![n] = p]
         \/ toServer' = [toServer EXCEPT ![n] = Append(p, m)]
  <2>1. UNCHANGED <<sent, received, about, toNode>>
    BY DEF Register, entries
  <2>2. toServer' = toServer \/ toServer' = [toServer EXCEPT ![n] = Append(p, m)]
    BY DEF Register, Post, m
  <2> QED BY <2>1, <2>2, Same DEF HeartbeatInv
<1>7. OthersTyped'
  BY DEF Register, OthersTyped, HeartbeatInv, EntryTypeOK, entries
<1> HIDE DEF s, c, a, p, q
<1> QED BY <1>5, <1>6, <1>7, OneChanges

\* A step of the thread alone, of the operator or of the clock.
LEMMA NoMessageKeeps ==
    ASSUME HeartbeatInv, OthersTyped', UNCHANGED <<entries, wires>> PROVE HeartbeatInv'
  BY DEF HeartbeatInv, EntryTypeOK, OthersTyped, OneNode, entries, wires

LEMMA HeartbeatPreserved ==
    ASSUME HeartbeatInv, [Next]_vars PROVE HeartbeatInv'
<1>1. OthersTyped
  BY DEF HeartbeatInv, EntryTypeOK, OthersTyped
<1>2. ASSUME NEW n \in Nodes, PassOver(n) \/ Panic(n) PROVE HeartbeatInv'
  <2>1. OthersTyped' /\ UNCHANGED <<entries, wires>>
    BY <1>1, <1>2 DEF PassOver, Panic, OthersTyped, entries
  <2> QED BY <2>1, NoMessageKeeps
<1>3. CASE EndRound \/ TakeShutdown \/ Timeout \/ RequestShutdown \/ Tick
  <2>1. OthersTyped' /\ UNCHANGED <<entries, wires>>
    BY <1>1, <1>3
       DEF EndRound, TakeShutdown, Timeout, RequestShutdown, Tick, OthersTyped, entries
  <2> QED BY <2>1, NoMessageKeeps
<1>4. CASE UNCHANGED vars
  <2>1. OthersTyped' /\ UNCHANGED <<entries, wires>>
    BY <1>1, <1>4 DEF vars, OthersTyped, entries
  <2> QED BY <2>1, NoMessageKeeps
<1> QED BY <1>2, <1>3, <1>4, AskKeeps, HandleKeeps, AnswerKeeps, RegisterKeeps
        DEF Next, Thread

LEMMA Invariance == Spec => [](TimingTypeOK /\ HeartbeatInv)
<1>1. HeartbeatInv /\ [Next]_vars => HeartbeatInv'
  BY HeartbeatPreserved
<1> QED BY <1>1, HeartbeatInit, TimingInvariance, PTL DEF Spec

\* The thread, the deadline, the counters and the messages have their types.
THEOREM TypeCorrect == Spec => []TypeOK
<1>1. TimingTypeOK /\ HeartbeatInv => TypeOK
  BY BoundsAssumption DEF TimingTypeOK, HeartbeatInv, EntryTypeOK, TypeOK, Counters
<1> QED BY <1>1, Invariance, PTL

\* Once a node has answered to its entry, the two counters tell how many
\* requests it is behind, however many values a counter has.
THEOREM CountersDecoded == Spec => []CountersTell
<1>1. HeartbeatInv => CountersTell
  BY DEF HeartbeatInv, OneNode, NodeInv, Tells, CountersTell
<1> QED BY <1>1, Invariance, PTL

\* What StaleEnds says of node k.
Onwards(k) ==
    about[k].own /\ sent'[k] # None =>
        about'[k].own /\ (received'[k] # received[k] => about'[k].lag <= about[k].lag)

LEMMA NoFilingOnwards ==
    ASSUME NEW k \in Nodes, received'[k] = received[k], about'[k] = about[k] PROVE Onwards(k)
  BY DEF Onwards

LEMMA AskOnwards ==
    ASSUME HeartbeatInv, NEW n \in Nodes, Ask(n), NEW k \in Nodes PROVE Onwards(k)
<1>1. about \in [Nodes -> About] /\ about[k] \in About
  BY DEF HeartbeatInv, EntryTypeOK
<1>2. received' = received /\ about' = [about EXCEPT ![n] = Older(about[n])]
  BY DEF Ask, AllOlder
<1>3. about'[k].own = about[k].own
  BY <1>1, <1>2, OlderTypes
<1> QED BY <1>2, <1>3 DEF Onwards

LEMMA HandleOnwards ==
    ASSUME HeartbeatInv, NEW n \in Nodes, Handle(n), NEW k \in Nodes PROVE Onwards(k)
<1> DEFINE p == toServer[n]
           m == Head(p)
<1>1. /\ sent \in [Nodes -> Counters] /\ received \in [Nodes -> Counters]
      /\ about \in [Nodes -> About] /\ p \in Seq(Message) /\ p # <<>>
      /\ HandleFrom(n, m, Tail(p)) /\ Behind(about[n], p)
  BY DEF HeartbeatInv, EntryTypeOK, OneNode, NodeInv, Handle
<1>2. m = p[1] /\ 1 \in DOMAIN p
  BY <1>1, TailMessages
<1> HIDE DEF p, m
<1>3. CASE HandleAnswer(n, m)
  <2>1. /\ received' = [received EXCEPT ![n] = m.counter]
        /\ about' = [about EXCEPT ![n] = m.about] /\ m.kind = "answer"
    BY <1>3 DEF HandleAnswer
  <2>2. Follows(about[n], m.about)
    BY <1>1, <1>2, <2>1 DEF Behind
  <2>3. CASE k = n
    <3>1. about'[k] = m.about
      BY <1>1, <2>1, <2>3
    <3> QED BY <2>2, <2>3, <3>1 DEF Onwards, Follows
  <2>4. CASE k # n
    BY <1>1, <2>1, <2>4, NoFilingOnwards
  <2> QED BY <2>3, <2>4
<1>4. CASE RejectAnswer(n, m)
  BY <1>4, NoFilingOnwards DEF RejectAnswer, entries
<1>5. CASE Replace(n, m)
  <2>1. /\ sent' = [sent EXCEPT ![n] = None] /\ received' = [received EXCEPT ![n] = None]
        /\ about' = [about EXCEPT ![n] = Stale]
    BY <1>5 DEF Replace
  <2>2. CASE k = n
    BY <1>1, <2>1, <2>2 DEF Onwards
  <2>3. CASE k # n
    BY <1>1, <2>1, <2>3, NoFilingOnwards
  <2> QED BY <2>2, <2>3
<1> QED BY <1>1, <1>3, <1>4, <1>5 DEF HandleFrom

LEMMA AllOnwards ==
    ASSUME HeartbeatInv, [Next]_vars, NEW k \in Nodes PROVE Onwards(k)
<1>1. ASSUME NEW n \in Nodes, PassOver(n) \/ Panic(n) \/ Answer(n) \/ Register(n)
      PROVE  Onwards(k)
  BY <1>1, NoFilingOnwards DEF PassOver, Panic, Answer, Register, entries
<1>2. CASE EndRound \/ TakeShutdown \/ Timeout \/ RequestShutdown \/ Tick
  BY <1>2, NoFilingOnwards
     DEF EndRound, TakeShutdown, Timeout, RequestShutdown, Tick, entries
<1>3. CASE UNCHANGED vars
  BY <1>3, NoFilingOnwards DEF vars, entries
<1> QED BY <1>1, <1>2, <1>3, AskOnwards, HandleOnwards DEF Next, Thread

\* A counter of the entry before is filed in a new one only until the node has
\* answered to that; from there on the answers come in their order.
THEOREM StaleRecovers == Spec => StaleEnds
<1>1. HeartbeatInv /\ [Next]_vars =>
        [\A n \in Nodes : about[n].own /\ sent'[n] # None =>
           /\ about'[n].own
           /\ received'[n] # received[n] => about'[n].lag <= about[n].lag]_vars
  BY AllOnwards DEF Onwards
<1> QED BY <1>1, Invariance, PTL DEF Spec, StaleEnds

=============================================================================
