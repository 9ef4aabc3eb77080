-------------------------- MODULE LifecycleProofs --------------------------
(* Theorems of Lifecycle, for any interfaces, with and without a database. *)
EXTENDS Lifecycle, TLAPS

\* The step s of the start has been made.
Done(s) == \E i \in 1..(step - 1) : Start[i] = s

\* Only the sequence runner runs before it has subscribed.
DoneSubscribed == \A t \in Threads \ {"seq"} : Done(t) => t \in Range(subs)
RunsWhenDone == \A t \in Threads : thread[t] # "none" => Done(t)

\* NodeInfoReq is dispatched, waits in a channel, or has been written.
RequestMade ==
    \/ requested
    \/ \E d \in Dispatchers : out[d].event = "request"
    \/ \E t \in Threads : \E i \in DOMAIN chan[t] : chan[t][i] = "request"
RequestedWhenDone == RequestMade => Done("request")

Inv == TypeOK /\ DoneSubscribed /\ RunsWhenDone /\ RequestedWhenDone

-----------------------------------------------------------------------------
(* The order of the start.                                                 *)

Steps == Recv \cup {"open", "send", "seq", "db", "handler", "heartbeat", "request"}
Opened == <<"open">> \o Interfaces
Serving == Opened \o <<"send", "seq">>
Logging == Serving \o (IF WithDb THEN <<"db">> ELSE <<>>)

\* What the start has done when the threads of the interfaces run, when the
\* send thread and the sequence runner do, and when the log does.
LEMMA StartParts ==
    /\ Opened \in Seq(Steps) /\ Len(Opened) \in Nat \ {0}
    /\ \A i \in 1..Len(Opened) : Opened[i] \in Recv \cup {"open"}
    /\ Serving \in Seq(Steps) /\ Len(Serving) = Len(Opened) + 2
    /\ \A i \in 1..Len(Serving) : Serving[i] \in Recv \cup {"open", "send", "seq"}
    /\ Serving[Len(Opened) + 1] = "send"
    /\ Logging \in Seq(Steps) /\ Len(Logging) \in Len(Serving)..(Len(Serving) + 1)
    /\ \A i \in 1..Len(Logging) : Logging[i] \in Recv \cup {"open", "send", "seq", "db"}
    /\ \A i \in 1..Len(Serving) : Logging[i] = Serving[i]
    /\ WithDb => Logging[Len(Logging)] = "db"
    /\ Start = Logging \o <<"handler", "heartbeat", "request">>
<1>1. Interfaces \in Seq(Recv) /\ \A i \in 1..Len(Interfaces) : Interfaces[i] \in Recv
  BY ConfigAssumption DEF Recv
<1>2. /\ Opened \in Seq(Steps) /\ Len(Opened) \in Nat \ {0}
      /\ \A i \in 1..Len(Opened) : Opened[i] \in Recv \cup {"open"}
  <2>1. <<"open">> \in Seq(Steps) /\ Interfaces \in Seq(Steps)
    BY <1>1 DEF Steps
  <2>2. Len(Opened) = Len(Interfaces) + 1 /\ Opened \in Seq(Steps)
    BY <2>1 DEF Opened
  <2>3. \A i \in 1..Len(Opened) :
            Opened[i] = IF i = 1 THEN "open" ELSE Interfaces[i - 1]
    BY <2>1, <2>2 DEF Opened
  <2>4. \A i \in 1..Len(Opened) : i # 1 => i - 1 \in 1..Len(Interfaces)
    BY <2>1, <2>2
  <2> QED BY <1>1, <2>1, <2>2, <2>3, <2>4
<1>3. /\ Serving \in Seq(Steps) /\ Len(Serving) = Len(Opened) + 2
      /\ \A i \in 1..Len(Serving) : Serving[i] \in Recv \cup {"open", "send", "seq"}
      /\ Serving[Len(Opened) + 1] = "send"
  <2>1. <<"send", "seq">> \in Seq(Steps)
    BY DEF Steps
  <2>2. Len(Serving) = Len(Opened) + 2 /\ Serving \in Seq(Steps)
    BY <1>2, <2>1 DEF Serving
  <2>3. /\ \A i \in 1..Len(Opened) : Serving[i] = Opened[i]
        /\ Serving[Len(Opened) + 1] = "send" /\ Serving[Len(Opened) + 2] = "seq"
    BY <1>2, <2>1 DEF Serving
  <2>4. \A i \in 1..Len(Serving) :
            i \in 1..Len(Opened) \/ i = Len(Opened) + 1 \/ i = Len(Opened) + 2
    BY <1>2, <2>2
  <2> QED BY <1>2, <2>2, <2>3, <2>4
<1>4. /\ Logging \in Seq(Steps) /\ Len(Logging) \in Len(Serving)..(Len(Serving) + 1)
      /\ \A i \in 1..Len(Logging) : Logging[i] \in Recv \cup {"open", "send", "seq", "db"}
      /\ \A i \in 1..Len(Serving) : Logging[i] = Serving[i]
      /\ WithDb => Logging[Len(Logging)] = "db"
  <2>1. CASE WithDb
    <3>1. <<"db">> \in Seq(Steps) /\ Logging = Serving \o <<"db">>
      BY <2>1 DEF Logging, Steps
    <3>2. Len(Logging) = Len(Serving) + 1 /\ Logging \in Seq(Steps)
      BY <1>3, <3>1
    <3>3. /\ \A i \in 1..Len(Serving) : Logging[i] = Serving[i]
          /\ Logging[Len(Serving) + 1] = "db"
      BY <1>3, <3>1
    <3>4. \A i \in 1..Len(Logging) : i \in 1..Len(Serving) \/ i = Len(Serving) + 1
      BY <1>2, <1>3, <3>2
    <3> QED BY <1>2, <1>3, <3>2, <3>3, <3>4
  <2>2. CASE ~WithDb
    <3>1. Logging = Serving
      BY <1>3, <2>2 DEF Logging
    <3> QED BY <1>2, <1>3, <2>2, <3>1
  <2> QED BY <2>1, <2>2
<1>5. Start = Logging \o <<"handler", "heartbeat", "request">>
  BY DEF Start, Logging, Serving, Opened
<1> QED BY <1>2, <1>3, <1>4, <1>5

\* NodeInfoReq comes last, after the send and the handler thread, and the
\* handler right after the log.
LEMMA StartOrder ==
    /\ Start \in Seq(Steps) /\ Len(Start) \in Nat
    /\ \A i \in 1..Len(Start) : Start[i] = "request" => i = Len(Start)
    /\ WithDb => \A i \in 1..Len(Start) : Start[i] = "handler" =>
                    \E k \in 1..(i - 1) : Start[k] = "db"
    /\ \E i \in 1..(Len(Start) - 1) : Start[i] = "send"
    /\ \E i \in 1..(Len(Start) - 1) : Start[i] = "handler"
<1> DEFINE n == Len(Logging)
           rest == <<"handler", "heartbeat", "request">>
<1>1. n \in Nat /\ n >= 3 /\ rest \in Seq(Steps) /\ Logging \in Seq(Steps)
  BY StartParts DEF Steps
<1>2. Start \in Seq(Steps) /\ Len(Start) = n + 3
  BY <1>1, StartParts
<1>3. /\ \A i \in 1..n : Start[i] = Logging[i]
      /\ Start[n + 1] = "handler" /\ Start[n + 2] = "heartbeat" /\ Start[n + 3] = "request"
  BY <1>1, StartParts
<1>4. \A i \in 1..n : Start[i] \notin {"handler", "request"}
  BY <1>3, StartParts, ConfigAssumption DEF Recv
<1>5. \A i \in 1..Len(Start) : i \in 1..n \/ i = n + 1 \/ i = n + 2 \/ i = n + 3
  BY <1>1, <1>2
<1>6. \A i \in 1..Len(Start) : Start[i] = "request" => i = Len(Start)
  BY <1>2, <1>3, <1>4, <1>5
<1>7. \A i \in 1..Len(Start) : Start[i] = "handler" => i = n + 1
  BY <1>3, <1>4, <1>5
<1>8. WithDb => n \in 1..((n + 1) - 1) /\ Start[n] = "db"
  BY <1>1, <1>3, StartParts
<1>9. n + 1 \in 1..(Len(Start) - 1) /\ Start[n + 1] = "handler"
  BY <1>1, <1>2, <1>3
<1>10. Len(Opened) + 1 \in 1..(Len(Start) - 1) /\ Start[Len(Opened) + 1] = "send"
  BY <1>1, <1>2, <1>3, StartParts
<1> HIDE DEF n
<1> QED BY <1>1, <1>2, <1>6, <1>7, <1>8, <1>9, <1>10


-----------------------------------------------------------------------------
(* Facts the steps share.                                                  *)

LEMMA ThreadNames ==
    /\ "send" \in Threads /\ "seq" \in Threads /\ "handler" \in Threads
    /\ WithDb => "db" \in Threads
    /\ Recv \subseteq Threads /\ Threads \subseteq Recv \cup {"send", "seq", "db", "handler", "heartbeat"}
    /\ "handler" \in Dispatchers /\ "main" \in Dispatchers /\ "operator" \in Dispatchers
    /\ Recv \subseteq Dispatchers
    /\ "request" \notin Threads /\ "open" \notin Threads
BY ConfigAssumption DEF Threads, Dispatchers, Recv

\* A step that has been made stays made; advancing makes the current one.
LEMMA DoneGrows ==
    ASSUME TypeOK, step' = step \/ step' = step + 1, NEW s, Done(s)
    PROVE  Done(s)'
<1>1. step \in Nat
  BY StartOrder DEF TypeOK
<1> QED BY <1>1 DEF Done

LEMMA AdvanceMakes ==
    ASSUME TypeOK, NEW s, AtStep(s), step' = step + 1
    PROVE  /\ step' \in 1..(Len(Start) + 1) /\ Done(s)'
           /\ \A x : Done(x)' => Done(x) \/ x = s
<1>1. Len(Start) \in Nat /\ step \in 1..Len(Start) /\ Start[step] = s
  BY StartOrder DEF TypeOK, AtStep
<1>2. 1..(step' - 1) = 1..(step - 1) \cup {step}
  BY <1>1
<1> QED BY <1>1, <1>2 DEF Done

\* A subscriber is one more listener.
LEMMA SubscribeType ==
    ASSUME TypeOK, NEW t \in Threads, Subscribe(t)
    PROVE  /\ subs' \in Seq(Threads) /\ DOMAIN subs \subseteq DOMAIN subs'
           /\ Range(subs') = Range(subs) \cup {t}
<1>1. /\ subs' \in Seq(Threads) /\ Len(subs') = Len(subs) + 1 /\ Len(subs) \in Nat
      /\ \A i \in 1..Len(subs) : subs'[i] = subs[i]
      /\ subs'[Len(subs) + 1] = t
      /\ DOMAIN subs = 1..Len(subs) /\ DOMAIN subs' = 1..Len(subs')
  BY DEF TypeOK, Subscribe
<1>2. 1..Len(subs') = 1..Len(subs) \cup {Len(subs) + 1}
  BY <1>1
<1> QED BY <1>1, <1>2 DEF Range

\* A dispatch begins with places of listeners, and with the event.
LEMMA BeginType ==
    ASSUME TypeOK, NEW d \in Dispatchers, NEW e \in Events, Begin(d, e)
    PROVE  /\ out' \in [Dispatchers -> [event : Events \cup {"none"}, left : SUBSET DOMAIN subs]]
           /\ \A x \in Dispatchers : out'[x].event = "none" <=> out'[x].left = {}
           /\ \A x \in Dispatchers : out'[x].event = "request" =>
                 out[x].event = "request" \/ e = "request"
<1>1. Listeners(e) \subseteq DOMAIN subs
  BY DEF Listeners
<1>2. \A x \in Dispatchers : out'[x] = IF x # d THEN out[x]
          ELSE IF Listeners(e) = {} THEN Idle ELSE [event |-> e, left |-> Listeners(e)]
  BY DEF Begin, TypeOK
<1>3. e # "none"
  BY DEF Events
<1>4. DOMAIN out' = Dispatchers /\ out' = [x \in Dispatchers |-> out'[x]]
  BY DEF Begin, TypeOK
<1>5. ASSUME NEW x \in Dispatchers
      PROVE  /\ out'[x] \in [event : Events \cup {"none"}, left : SUBSET DOMAIN subs]
             /\ out'[x].event = "none" <=> out'[x].left = {}
             /\ out'[x].event = "request" => out[x].event = "request" \/ e = "request"
  <2>1. CASE x # d
    BY <1>2, <2>1 DEF TypeOK
  <2>2. CASE x = d /\ Listeners(e) = {}
    BY <1>2, <2>2 DEF Idle
  <2>3. CASE x = d /\ Listeners(e) # {}
    <3>1. out'[x] = [event |-> e, left |-> Listeners(e)]
      BY <1>2, <2>3
    <3> QED BY <1>1, <1>3, <2>3, <3>1
  <2> QED BY <2>1, <2>2, <2>3
<1> QED BY <1>4, <1>5

\* A step that leaves step, subs and chan alone and makes no request.
LEMMA QuietStep ==
    ASSUME Inv, TypeOK', UNCHANGED <<step, subs, requested>>,
           \A t \in Threads : thread'[t] # "none" => thread[t] # "none",
           RequestMade' => RequestMade
    PROVE  Inv'
<1>1. \A s : Done(s)' <=> Done(s)
  BY DEF Done
<1>2. DoneSubscribed' /\ RunsWhenDone' /\ RequestedWhenDone'
  BY <1>1 DEF Inv, DoneSubscribed, RunsWhenDone, RequestedWhenDone
<1> QED BY <1>2 DEF Inv


-----------------------------------------------------------------------------
(* The start.                                                              *)

LEMMA InitInv == Init => Inv
<1> SUFFICES ASSUME Init PROVE Inv
  OBVIOUS
<1>1. TypeOK
  <2>1. step \in 1..(Len(Start) + 1) /\ subs \in Seq(Threads)
    BY StartOrder DEF Init
  <2>2. chan \in [Threads -> Seq(Events)]
    BY DEF Init
  <2>3. Idle \in [event : Events \cup {"none"}, left : SUBSET DOMAIN subs]
    BY DEF Idle
  <2>4. /\ out \in [Dispatchers -> [event : Events \cup {"none"}, left : SUBSET DOMAIN subs]]
        /\ \A d \in Dispatchers : out[d].event = "none" <=> out[d].left = {}
    BY <2>3 DEF Init, Idle
  <2>5. frames \in 0..MaxFrames /\ updates \in 0..MaxFields
    BY ConfigAssumption DEF Init
  <2> QED BY <2>1, <2>2, <2>4, <2>5 DEF Init, TypeOK
<1>2. \A s : ~Done(s)
  BY DEF Init, Done
<1>3. ~RequestMade
  BY DEF Init, RequestMade, Idle
<1> QED
  BY <1>1, <1>2, <1>3 DEF Init, Inv, DoneSubscribed, RunsWhenDone, RequestedWhenDone

\* A step of the start that advances from s and runs no other thread than s.
LEMMA StartStep ==
    ASSUME Inv, NEW s, AtStep(s), Advance,
           subs' \in Seq(Threads), DOMAIN subs \subseteq DOMAIN subs',
           Range(subs) \subseteq Range(subs'), s \in Threads \ {"seq"} => s \in Range(subs'),
           thread' \in [Threads -> {"none", "spawned", "loop", "reading", "done"}],
           \A t \in Threads : thread'[t] # "none" => thread[t] # "none" \/ t = s,
           UNCHANGED chan,
           out' \in [Dispatchers -> [event : Events \cup {"none"}, left : SUBSET DOMAIN subs']],
           \A d \in Dispatchers : out'[d].event = "none" <=> out'[d].left = {},
           RequestMade' => RequestMade \/ s = "request"
    PROVE  Inv'
<1>1. /\ step' \in 1..(Len(Start) + 1) /\ Done(s)'
      /\ \A x : Done(x)' => Done(x) \/ x = s
  BY AdvanceMakes DEF Inv, Advance
<1>2. \A x : Done(x) => Done(x)'
  BY DoneGrows DEF Inv, Advance
<1>3. TypeOK'
  BY <1>1 DEF Inv, TypeOK, Advance
<1>4. DoneSubscribed'
  BY <1>1 DEF Inv, DoneSubscribed
<1>5. RunsWhenDone'
  BY <1>1, <1>2 DEF Inv, RunsWhenDone
<1>6. RequestedWhenDone'
  BY <1>1, <1>2 DEF Inv, RequestedWhenDone
<1> QED BY <1>3, <1>4, <1>5, <1>6 DEF Inv

LEMMA MainSteps == Inv /\ MainNext => Inv'
<1> SUFFICES ASSUME Inv, MainNext PROVE Inv'
  OBVIOUS
<1> USE DEF Inv
<1>0. /\ subs \in Seq(Threads)
      /\ thread \in [Threads -> {"none", "spawned", "loop", "reading", "done"}]
      /\ out \in [Dispatchers -> [event : Events \cup {"none"}, left : SUBSET DOMAIN subs]]
      /\ \A d \in Dispatchers : out[d].event = "none" <=> out[d].left = {}
  BY DEF TypeOK
<1>1. CASE OpenSockets
  <2>1. RequestMade' => RequestMade
    BY <1>1 DEF OpenSockets, Advance, RequestMade
  <2>2. AtStep("open") /\ Advance /\ UNCHANGED <<subs, thread, chan, out>>
    BY <1>1 DEF OpenSockets
  <2>8. /\ subs' \in Seq(Threads) /\ DOMAIN subs \subseteq DOMAIN subs'
        /\ Range(subs) \subseteq Range(subs')
    BY <1>0, <2>2
  <2>9. /\ thread' \in [Threads -> {"none", "spawned", "loop", "reading", "done"}]
        /\ \A x \in Threads : thread'[x] # "none" => thread[x] # "none" \/ x = "open"
        /\ out' \in [Dispatchers -> [event : Events \cup {"none"}, left : SUBSET DOMAIN subs']]
        /\ \A d \in Dispatchers : out'[d].event = "none" <=> out'[d].left = {}
    BY <1>0, <2>2
  <2> QED BY <2>1, <2>2, <2>8, <2>9, StartStep, ThreadNames
<1>2. ASSUME NEW t \in Threads, StartThread(t) PROVE Inv'
  <2>1. RequestMade' => RequestMade
    BY <1>2 DEF StartThread, Advance, RequestMade
  <2>2. AtStep(t) /\ Advance /\ Subscribe(t) /\ UNCHANGED <<chan, out>>
        /\ thread' = [thread EXCEPT ![t] = "loop"]
    BY <1>2 DEF StartThread
  <2>3. /\ subs' \in Seq(Threads) /\ DOMAIN subs \subseteq DOMAIN subs'
        /\ Range(subs') = Range(subs) \cup {t}
    BY <2>2, SubscribeType
  <2>4. /\ out' \in [Dispatchers -> [event : Events \cup {"none"}, left : SUBSET DOMAIN subs']]
        /\ \A d \in Dispatchers : out'[d].event = "none" <=> out'[d].left = {}
    BY <1>0, <2>2, <2>3
  <2>5. /\ thread' \in [Threads -> {"none", "spawned", "loop", "reading", "done"}]
        /\ \A x \in Threads : thread'[x] # "none" => thread[x] # "none" \/ x = t
    BY <1>0, <2>2
  <2> QED BY <2>1, <2>2, <2>3, <2>4, <2>5, StartStep
<1>3. CASE SpawnSequenceRunner
  <2>1. RequestMade' => RequestMade
    BY <1>3 DEF SpawnSequenceRunner, Advance, RequestMade
  <2>2. AtStep("seq") /\ Advance /\ UNCHANGED <<subs, chan, out>>
        /\ thread' = [thread EXCEPT !["seq"] = "spawned"]
    BY <1>3 DEF SpawnSequenceRunner
  <2>8. /\ subs' \in Seq(Threads) /\ DOMAIN subs \subseteq DOMAIN subs'
        /\ Range(subs) \subseteq Range(subs')
    BY <1>0, <2>2
  <2>9. /\ thread' \in [Threads -> {"none", "spawned", "loop", "reading", "done"}]
        /\ \A x \in Threads : thread'[x] # "none" => thread[x] # "none" \/ x = "seq"
        /\ out' \in [Dispatchers -> [event : Events \cup {"none"}, left : SUBSET DOMAIN subs']]
        /\ \A d \in Dispatchers : out'[d].event = "none" <=> out'[d].left = {}
    BY <1>0, <2>2
  <2> QED BY <2>1, <2>2, <2>8, <2>9, StartStep
<1>4. CASE RequestNodeInfo
  <2>1. AtStep("request") /\ Advance /\ UNCHANGED <<subs, thread, chan>> /\ Begin("main", "request")
    BY <1>4 DEF RequestNodeInfo
  <2>2. "main" \in Dispatchers /\ "request" \in Events
    BY ThreadNames DEF Events
  <2>3. /\ out' \in [Dispatchers -> [event : Events \cup {"none"}, left : SUBSET DOMAIN subs]]
        /\ \A x \in Dispatchers : out'[x].event = "none" <=> out'[x].left = {}
    BY <2>1, <2>2, BeginType
  <2>8. /\ subs' \in Seq(Threads) /\ DOMAIN subs \subseteq DOMAIN subs'
        /\ Range(subs) \subseteq Range(subs')
    BY <1>0, <2>1
  <2>9. /\ thread' \in [Threads -> {"none", "spawned", "loop", "reading", "done"}]
        /\ \A x \in Threads : thread'[x] # "none" => thread[x] # "none" \/ x = "request"
        /\ out' \in [Dispatchers -> [event : Events \cup {"none"}, left : SUBSET DOMAIN subs']]
        /\ \A d \in Dispatchers : out'[d].event = "none" <=> out'[d].left = {}
    BY <1>0, <2>1, <2>3
  <2> QED BY <2>1, <2>8, <2>9, StartStep, ThreadNames
<1>5. CASE FinishStart \/ Return
  <2>1. TypeOK'
    BY <1>5 DEF FinishStart, Return, TypeOK
  <2>2. RequestMade' => RequestMade
    BY <1>5 DEF FinishStart, Return, RequestMade
  <2> QED BY <1>5, <2>1, <2>2, QuietStep DEF FinishStart, Return
<1> QED BY <1>1, <1>2, <1>3, <1>4, <1>5 DEF MainNext

LEMMA FailStep == Inv /\ Fail => Inv'
<1> SUFFICES ASSUME Inv, Fail PROVE Inv'
  OBVIOUS
<1>1. TypeOK'
  BY DEF Inv, Fail, TypeOK
<1>2. RequestMade' => RequestMade
  BY DEF Fail, RequestMade
<1> QED BY <1>1, <1>2, QuietStep DEF Fail


-----------------------------------------------------------------------------
(* The threads.                                                            *)

\* Some listener's channel holds a request.
Waiting(c) == \E t \in Threads : \E i \in DOMAIN c[t] : c[t][i] = "request"

\* Taking an event from a channel, or dropping it, leaves no other event in it.
LEMMA TakenType ==
    ASSUME TypeOK, NEW t \in Threads, chan[t] # <<>>,
           chan' = [chan EXCEPT ![t] = Tail(@)] \/ chan' = [chan EXCEPT ![t] = <<>>]
    PROVE  chan' \in [Threads -> Seq(Events)] /\ (Waiting(chan') => Waiting(chan))
<1>1. chan \in [Threads -> Seq(Events)]
  BY DEF TypeOK
<1>2. chan[t] \in Seq(Events) /\ Tail(chan[t]) \in Seq(Events)
  BY <1>1
<1>3. chan' \in [Threads -> Seq(Events)]
  <2>1. <<>> \in Seq(Events)
    OBVIOUS
  <2>2. PICK q \in Seq(Events) : chan' = [chan EXCEPT ![t] = q]
    BY <1>2, <2>1
  <2> QED BY <1>1, <2>2
<1>4. \A x \in Threads : x # t => chan'[x] = chan[x]
  BY <1>1
<1>5. \A i \in DOMAIN chan'[t] : \E k \in DOMAIN chan[t] : chan'[t][i] = chan[t][k]
  <2>1. CASE chan'[t] = <<>>
    BY <2>1
  <2>2. CASE chan'[t] = Tail(chan[t])
    <3>1. \A i \in 1..(Len(chan[t]) - 1) : Tail(chan[t])[i] = chan[t][i + 1] /\ i + 1 \in DOMAIN chan[t]
      BY <1>2
    <3>2. DOMAIN Tail(chan[t]) = 1..(Len(chan[t]) - 1)
      BY <1>2
    <3> QED BY <2>2, <3>1, <3>2
  <2>3. chan'[t] = <<>> \/ chan'[t] = Tail(chan[t])
    BY <1>1
  <2> QED BY <2>1, <2>2, <2>3
<1> QED BY <1>3, <1>4, <1>5 DEF Waiting

\* A channel gets the event that is dispatched.
LEMMA SentType ==
    ASSUME TypeOK, NEW t \in Threads, NEW e \in Events,
           chan' = [chan EXCEPT ![t] = Append(@, e)]
    PROVE  /\ chan' \in [Threads -> Seq(Events)]
           /\ Waiting(chan') => Waiting(chan) \/ e = "request"
<1>1. chan \in [Threads -> Seq(Events)]
  BY DEF TypeOK
<1>2. chan[t] \in Seq(Events) /\ Append(chan[t], e) \in Seq(Events)
  BY <1>1
<1>3. chan' \in [Threads -> Seq(Events)] /\ chan'[t] = Append(chan[t], e)
  BY <1>1, <1>2
<1>4. \A x \in Threads : x # t => chan'[x] = chan[x]
  BY <1>1
<1>5. \A i \in DOMAIN chan'[t] : chan'[t][i] = e \/ (i \in DOMAIN chan[t] /\ chan'[t][i] = chan[t][i])
  BY <1>2, <1>3
<1> QED BY <1>3, <1>4, <1>5 DEF Waiting

LEMMA MadeWhere ==
    RequestMade <=> requested \/ (\E d \in Dispatchers : out[d].event = "request") \/ Waiting(chan)
BY DEF RequestMade, Waiting

\* A thread's loop: it takes an event, or none; only the handler and the
\* receive threads dispatch, and never a request.
LEMMA LoopStep ==
    ASSUME Inv, UNCHANGED <<step, main, failed, subs, shutdown>>,
           thread' \in [Threads -> {"none", "spawned", "loop", "reading", "done"}],
           \A t \in Threads : thread'[t] # "none" => thread[t] # "none",
           chan' \in [Threads -> Seq(Events)], Waiting(chan') => Waiting(chan),
           out' \in [Dispatchers -> [event : Events \cup {"none"}, left : SUBSET DOMAIN subs]],
           \A d \in Dispatchers : out'[d].event = "none" <=> out'[d].left = {},
           \A d \in Dispatchers : out'[d].event = "request" => out[d].event = "request",
           frames' \in 0..MaxFrames, updates' \in 0..MaxFields, UNCHANGED requested
    PROVE  Inv'
<1>1. TypeOK'
  BY DEF Inv, TypeOK
<1>2. RequestMade' => RequestMade
  BY DEF RequestMade, Waiting
<1> QED BY <1>1, <1>2, QuietStep

LEMMA ThreadSteps ==
    ASSUME Inv, NEW t \in Threads, ThreadNext(t)
    PROVE  Inv'
<1>0. /\ subs \in Seq(Threads) /\ chan \in [Threads -> Seq(Events)]
      /\ thread \in [Threads -> {"none", "spawned", "loop", "reading", "done"}]
      /\ out \in [Dispatchers -> [event : Events \cup {"none"}, left : SUBSET DOMAIN subs]]
      /\ \A d \in Dispatchers : out[d].event = "none" <=> out[d].left = {}
      /\ TypeOK /\ frames \in 0..MaxFrames /\ updates \in 0..MaxFields
  BY DEF TypeOK, Inv
<1>1. CASE StopThread(t)
  <2>1. chan' \in [Threads -> Seq(Events)] /\ (Waiting(chan') => Waiting(chan))
    BY <1>0, <1>1, TakenType DEF StopThread, Takes
  <2>2. /\ thread' \in [Threads -> {"none", "spawned", "loop", "reading", "done"}]
        /\ \A x \in Threads : thread'[x] # "none" => thread[x] # "none"
    BY <1>0, <1>1 DEF StopThread, Takes
  <2> QED BY <1>0, <1>1, <2>1, <2>2, LoopStep DEF StopThread
<1>2. CASE t = "send" /\ WriteFrame
  <2>1. chan' \in [Threads -> Seq(Events)] /\ (Waiting(chan') => Waiting(chan))
    BY <1>0, <1>2, TakenType DEF WriteFrame, Takes
  <2>2. TypeOK'
    BY <1>2, <2>1 DEF WriteFrame, Inv, TypeOK
  <2>3. Waiting(chan)
    <3>1. chan["send"] # <<>> /\ chan["send"] \in Seq(Events) /\ chan["send"][1] = "request"
      BY <1>0, <1>2 DEF WriteFrame, Takes
    <3>2. 1 \in DOMAIN chan["send"]
      BY <3>1
    <3> QED BY <1>2, <3>1, <3>2 DEF Waiting
  <2>4. RequestMade
    BY <2>3, MadeWhere
  <2>5. Done("request") /\ \A s : Done(s)' <=> Done(s)
    BY <1>2, <2>4 DEF Inv, RequestedWhenDone, WriteFrame, Done
  <2> QED BY <1>2, <2>2, <2>5
          DEF WriteFrame, Inv, DoneSubscribed, RunsWhenDone, RequestedWhenDone
<1>3. CASE t = "handler" /\ HandleMessage
  <2>1. chan' \in [Threads -> Seq(Events)] /\ (Waiting(chan') => Waiting(chan))
    BY <1>0, <1>3, TakenType DEF HandleMessage, Takes
  <2> QED BY <1>0, <1>3, <2>1, LoopStep DEF HandleMessage
<1>4. CASE t = "handler" /\ DispatchUpdate
  <2>1. "handler" \in Dispatchers /\ "updated" \in Events
    BY ThreadNames DEF Events
  <2>2. /\ out' \in [Dispatchers -> [event : Events \cup {"none"}, left : SUBSET DOMAIN subs]]
        /\ \A d \in Dispatchers : out'[d].event = "none" <=> out'[d].left = {}
        /\ \A d \in Dispatchers : out'[d].event = "request" => out[d].event = "request"
    BY <1>0, <1>4, <2>1, BeginType DEF DispatchUpdate
  <2>3. updates' \in 0..MaxFields
    BY <1>0, <1>4, ConfigAssumption DEF DispatchUpdate
  <2> QED BY <1>0, <1>4, <2>2, <2>3, LoopStep DEF DispatchUpdate
<1>5. CASE t = "db" /\ LogUpdate
  <2>1. chan' \in [Threads -> Seq(Events)] /\ (Waiting(chan') => Waiting(chan))
    BY <1>0, <1>5, TakenType DEF LogUpdate, Takes
  <2> QED BY <1>0, <1>5, <2>1, LoopStep DEF LogUpdate
<1>6. CASE t = "seq" /\ SequenceRunnerSubscribes
  <2>1. /\ subs' \in Seq(Threads) /\ DOMAIN subs \subseteq DOMAIN subs'
        /\ Range(subs') = Range(subs) \cup {"seq"}
    BY <1>0, <1>6, SubscribeType DEF SequenceRunnerSubscribes
  <2>2. /\ out' \in [Dispatchers -> [event : Events \cup {"none"}, left : SUBSET DOMAIN subs']]
        /\ \A d \in Dispatchers : out'[d].event = "none" <=> out'[d].left = {}
    BY <1>0, <1>6, <2>1 DEF SequenceRunnerSubscribes
  <2>3. /\ thread' \in [Threads -> {"none", "spawned", "loop", "reading", "done"}]
        /\ \A x \in Threads : thread'[x] # "none" => thread[x] # "none"
    BY <1>0, <1>6 DEF SequenceRunnerSubscribes
  <2>4. TypeOK'
    BY <1>6, <2>1, <2>2, <2>3 DEF SequenceRunnerSubscribes, Inv, TypeOK
  <2>5. /\ \A s : Done(s)' <=> Done(s)
        /\ RequestMade' => RequestMade
    BY <1>6 DEF SequenceRunnerSubscribes, Done, RequestMade
  <2> QED BY <2>1, <2>3, <2>4, <2>5
          DEF Inv, DoneSubscribed, RunsWhenDone, RequestedWhenDone
<1>7. CASE t \in Recv /\ BeginRead(t)
  <2>1. /\ thread' \in [Threads -> {"none", "spawned", "loop", "reading", "done"}]
        /\ \A x \in Threads : thread'[x] # "none" => thread[x] # "none"
    BY <1>0, <1>7 DEF BeginRead
  <2> QED BY <1>0, <1>7, <2>1, LoopStep DEF BeginRead
<1>8. CASE t \in Recv /\ ReceiveFrame(t)
  <2>1. /\ thread' \in [Threads -> {"none", "spawned", "loop", "reading", "done"}]
        /\ \A x \in Threads : thread'[x] # "none" => thread[x] # "none"
    BY <1>0, <1>8 DEF ReceiveFrame
  <2>2. /\ out' \in [Dispatchers -> [event : Events \cup {"none"}, left : SUBSET DOMAIN subs]]
        /\ \A d \in Dispatchers : out'[d].event = "none" <=> out'[d].left = {}
        /\ \A d \in Dispatchers : out'[d].event = "request" => out[d].event = "request"
        /\ frames' \in 0..MaxFrames
    <3>1. CASE frames < MaxFrames /\ frames' = frames + 1 /\ Begin(t, "received")
      <4>1. t \in Dispatchers /\ "received" \in Events
        BY <1>8, ThreadNames DEF Events
      <4>2. frames' \in 0..MaxFrames
        BY <1>0, <3>1, ConfigAssumption
      <4> QED BY <1>0, <3>1, <4>1, <4>2, BeginType
    <3>2. CASE UNCHANGED <<frames, out>>
      BY <1>0, <3>2
    <3> QED BY <1>8, <3>1, <3>2 DEF ReceiveFrame
  <2> QED BY <1>0, <1>8, <2>1, <2>2, LoopStep DEF ReceiveFrame
<1> QED BY <1>1, <1>2, <1>3, <1>4, <1>5, <1>6, <1>7, <1>8 DEF ThreadNext


-----------------------------------------------------------------------------
(* The dispatches.                                                         *)

LEMMA SendStep ==
    ASSUME Inv, NEW d \in Dispatchers, Send(d)
    PROVE  Inv'
<1>0. /\ subs \in Seq(Threads) /\ TypeOK
      /\ out \in [Dispatchers -> [event : Events \cup {"none"}, left : SUBSET DOMAIN subs]]
      /\ \A x \in Dispatchers : out[x].event = "none" <=> out[x].left = {}
  BY DEF TypeOK, Inv
<1> PICK i \in out[d].left :
        /\ chan' = IF thread[subs[i]] = "done" THEN chan
                   ELSE [chan EXCEPT ![subs[i]] = Append(@, out[d].event)]
        /\ out' = [out EXCEPT ![d] =
               IF out[d].left \ {i} = {} THEN Idle
               ELSE [event |-> @.event, left |-> out[d].left \ {i}]]
        /\ UNCHANGED <<step, main, failed, subs, thread, updates, frames, requested, shutdown>>
  BY DEF Send
<1>1. i \in DOMAIN subs /\ subs[i] \in Threads /\ out[d].event \in Events
  BY <1>0
<1>2. /\ chan' \in [Threads -> Seq(Events)]
      /\ Waiting(chan') => Waiting(chan) \/ out[d].event = "request"
  <2>1. CASE thread[subs[i]] = "done"
    BY <1>0, <2>1 DEF TypeOK
  <2>2. CASE thread[subs[i]] # "done"
    BY <1>0, <1>1, <2>2, SentType
  <2> QED BY <2>1, <2>2
<1>3. /\ out' \in [Dispatchers -> [event : Events \cup {"none"}, left : SUBSET DOMAIN subs]]
      /\ \A x \in Dispatchers : out'[x].event = "none" <=> out'[x].left = {}
      /\ \A x \in Dispatchers : out'[x].event = "request" => out[x].event = "request"
  <2> DEFINE new == IF out[d].left \ {i} = {} THEN Idle
                    ELSE [event |-> out[d].event, left |-> out[d].left \ {i}]
  <2>1. /\ new \in [event : Events \cup {"none"}, left : SUBSET DOMAIN subs]
        /\ new.event = "none" <=> new.left = {}
        /\ new.event = "request" => out[d].event = "request"
    <3>1. CASE out[d].left \ {i} = {}
      BY <3>1 DEF Idle
    <3>2. CASE out[d].left \ {i} # {}
      <4>1. new = [event |-> out[d].event, left |-> out[d].left \ {i}]
        BY <3>2
      <4>2. out[d].event # "none" /\ out[d].left \ {i} \in SUBSET DOMAIN subs
        BY <1>0
      <4> QED BY <1>1, <3>2, <4>1, <4>2
    <3> QED BY <3>1, <3>2
  <2>2. out' = [out EXCEPT ![d] = new]
    OBVIOUS
  <2> HIDE DEF new
  <2> QED BY <1>0, <2>1, <2>2
<1>4. TypeOK'
  BY <1>2, <1>3 DEF Inv, TypeOK
<1>5. RequestMade' => RequestMade
  BY <1>2, <1>3 DEF RequestMade, Waiting
<1> QED BY <1>4, <1>5, QuietStep

LEMMA DispatchShutdownStep == Inv /\ DispatchShutdown => Inv'
<1> SUFFICES ASSUME Inv, DispatchShutdown PROVE Inv'
  OBVIOUS
<1>1. "operator" \in Dispatchers /\ "shutdown" \in Events
  BY ThreadNames DEF Events
<1>2. /\ out' \in [Dispatchers -> [event : Events \cup {"none"}, left : SUBSET DOMAIN subs]]
      /\ \A x \in Dispatchers : out'[x].event = "none" <=> out'[x].left = {}
      /\ \A x \in Dispatchers : out'[x].event = "request" => out[x].event = "request"
  BY <1>1, BeginType DEF DispatchShutdown, Inv
<1>3. TypeOK'
  BY <1>2 DEF Inv, TypeOK, DispatchShutdown
<1>4. RequestMade' => RequestMade
  BY <1>2 DEF RequestMade, DispatchShutdown
<1> QED BY <1>3, <1>4, QuietStep DEF DispatchShutdown

-----------------------------------------------------------------------------
(* The theorems.                                                           *)

LEMMA InvPreserved == Inv /\ [Next]_vars => Inv'
<1> SUFFICES ASSUME Inv, [Next]_vars PROVE Inv'
  OBVIOUS
<1>1. CASE MainNext
  BY <1>1, MainSteps
<1>2. CASE Fail
  BY <1>2, FailStep
<1>3. ASSUME NEW t \in Threads, ThreadNext(t) PROVE Inv'
  BY <1>3, ThreadSteps
<1>4. ASSUME NEW d \in Dispatchers, Send(d) PROVE Inv'
  BY <1>4, SendStep
<1>5. CASE DispatchShutdown
  BY <1>5, DispatchShutdownStep
<1>6. CASE UNCHANGED vars
  <2>1. TypeOK'
    BY <1>6 DEF vars, Inv, TypeOK
  <2>2. RequestMade' => RequestMade
    BY <1>6 DEF vars, RequestMade
  <2> QED BY <1>6, <2>1, <2>2, QuietStep DEF vars
<1> QED BY <1>1, <1>2, <1>3, <1>4, <1>5, <1>6 DEF Next

\* The inductive invariant: who has subscribed and who runs follows the order
\* of the start, and a request is only made at its end.
THEOREM Invariance == Spec => []Inv
  BY InitInv, InvPreserved, PTL DEF Spec

\* Types of the start, the threads and the dispatches in progress: a dispatch
\* only has listeners left that have subscribed, and ends with the last one.
THEOREM TypeCorrect == Spec => []TypeOK
<1>1. Inv => TypeOK
  BY DEF Inv
<1> QED BY <1>1, Invariance, PTL

\* Whatever the interfaces, and whatever fails, stops or is dispatched while
\* the start goes on: the nodes are only asked when the send and the handler
\* thread listen, and the handler only runs when the log listens.
THEOREM Unheard == Spec => []NothingUnheard
<1>1. Inv => NothingUnheard
  <2> SUFFICES ASSUME Inv PROVE NothingUnheard
    OBVIOUS
  <2>1. \A i \in Nat : i \in 1..(step - 1) => i \in 1..Len(Start)
    BY StartOrder DEF Inv, TypeOK
  <2>2. Done("request") => Done("send") /\ Done("handler")
    <3> SUFFICES ASSUME Done("request") PROVE Done("send") /\ Done("handler")
      OBVIOUS
    <3>1. PICK i \in 1..(step - 1) : Start[i] = "request"
      BY DEF Done
    <3>2. i = Len(Start)
      BY <2>1, <3>1, StartOrder
    <3>3. step - 1 >= Len(Start) /\ step \in Nat
      BY <3>1, <3>2, StartOrder DEF Inv, TypeOK
    <3> QED BY <3>3, StartOrder DEF Done
  <2>3. WithDb /\ Done("handler") => Done("db")
    <3> SUFFICES ASSUME WithDb, Done("handler") PROVE Done("db")
      OBVIOUS
    <3>1. PICK i \in 1..(step - 1) : Start[i] = "handler"
      BY DEF Done
    <3>2. PICK k \in 1..(i - 1) : Start[k] = "db"
      BY <2>1, <3>1, StartOrder
    <3>3. k \in 1..(step - 1)
      BY <3>1, <3>2, StartOrder DEF Inv, TypeOK
    <3> QED BY <3>2, <3>3 DEF Done
  <2>4. \A d \in Dispatchers : out[d].event = "request" \/ requested
            => Done("request")
    BY DEF Inv, RequestedWhenDone, RequestMade
  <2>5. /\ Done("send") => "send" \in Range(subs)
        /\ Done("handler") => "handler" \in Range(subs)
        /\ WithDb /\ Done("db") => "db" \in Range(subs)
    BY ThreadNames DEF Inv, DoneSubscribed
  <2>6. thread["handler"] # "none" => Done("handler")
    BY ThreadNames DEF Inv, RunsWhenDone
  <2> QED BY <2>2, <2>3, <2>4, <2>5, <2>6 DEF NothingUnheard
<1> QED BY <1>1, Invariance, PTL

=============================================================================
