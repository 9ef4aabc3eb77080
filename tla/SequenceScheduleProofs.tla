----------------------- MODULE SequenceScheduleProofs -----------------------
(* Theorems of SequenceSchedule, for every set of definitions.             *)
EXTENDS SequenceSchedule, TLAPS, WellFoundedInduction

\* A schedule is only made of a valid definition, and the values remembered
\* of the parameters lie within the sequence.
Validated == phase \in {"building", "built"} => Valid(seq)
RememberedWithin ==
    \A p \in Params : last[p].known => last[p].at \in 0..(seq.end - seq.start)

Inv == TypeOK /\ Validated /\ RememberedWithin /\ WithinGlobals

-----------------------------------------------------------------------------
(* The interpolation.                                                      *)

\* A tick count times the interval does not exceed the time span.
LEMMA CountBound ==
    ASSUME NEW timespan \in Int, NEW interval \in Nat, interval > 0, timespan >= 0
    PROVE  /\ TickCount(timespan, interval) \in Nat
           /\ TickCount(timespan, interval) * interval <= timespan
  BY DEF TickCount

\* The interval after the last tick does not fit any more.
LEMMA CountLast ==
    ASSUME NEW timespan \in Int, NEW interval \in Nat, interval > 0, timespan >= 0
    PROVE  timespan < (TickCount(timespan, interval) + 1) * interval
<1> DEFINE n == timespan \div interval
<1>1. n \in Int /\ timespan < (n + 1) * interval
  OBVIOUS
<1> QED BY <1>1 DEF TickCount

\* What lies between the first and the last tick: the ticks 1 to count - 1, in
\* a span that count intervals fit into and one more would not.
LEMMA InnerShape ==
    ASSUME NEW from \in TimedValue, NEW to \in TimedValue, NEW param \in Params,
           NEW interval \in Nat
    PROVE  LET s == Inner(InterpolateLinear(from, to, param, interval))
           IN  s = <<>> \/
               \E count \in Nat :
                  /\ count >= 2 /\ DOMAIN s = 1..(count - 1)
                  /\ s \in Seq([at : Int, param : Params, num : Int, den : Int,
                                step : {0}, action : {0}])
                  /\ from.value # to.value /\ from.at < to.at
                  /\ count * interval <= to.at - from.at
                  /\ interval > 0 => to.at - from.at < (count + 1) * interval
                  /\ \A i \in 1..(count - 1) : s[i] = Tick(from, to, param, interval, i)
<1> DEFINE timespan == to.at - from.at
           count == TickCount(timespan, interval)
           s == InterpolateLinear(from, to, param, interval)
           R == [at : Int, param : Params, num : Int, den : Int, step : {0}, action : {0}]
<1>1. from.at \in Int /\ from.value \in Int /\ to.at \in Int /\ to.value \in Int
  BY DEF TimedValue
<1>2. CASE from.value = to.value \/ 2 * interval > timespan
  <2>1. s = <<>>
    BY <1>2 DEF InterpolateLinear
  <2>2. Inner(s) = <<>>
    BY <2>1 DEF Inner
  <2> QED BY <2>2
<1>3. CASE from.value # to.value /\ ~(2 * interval > timespan)
  <2>1. timespan \in Int /\ timespan >= 0
    BY <1>1, <1>3
  <2>2. count \in Nat /\ count * interval <= timespan
        /\ (interval > 0 => timespan < (count + 1) * interval)
    <3>1. CASE interval > 0
      BY <2>1, <3>1, CountBound, CountLast
    <3>2. CASE interval = 0
      <4>1. count \in Nat
        BY <3>2, DefinitionAssumption DEF TickCount
      <4>2. count * 0 = 0
        BY <4>1
      <4> QED BY <4>1, <4>2, <3>2, <2>1
    <3> QED BY <3>1, <3>2
  <2>3. timespan = 0 => count = 0
    BY <1>3 DEF TickCount
  <2>4. s = [i \in 1..(count + 1) |-> Tick(from, to, param, interval, i - 1)]
    BY <1>3 DEF InterpolateLinear
  <2>5. s \in Seq(R)
    <3>1. ASSUME NEW i \in 1..(count + 1)
          PROVE  Tick(from, to, param, interval, i - 1) \in R
      <4>1. i - 1 \in Int /\ timespan \in Int
        BY <2>1, <2>2
      <4>2. (i - 1) * interval \in Int
        BY <4>1
      <4>3. from.value * timespan + (i - 1) * interval * (to.value - from.value) \in Int
        BY <4>1, <4>2, <1>1
      <4>4. from.at + (i - 1) * interval \in Int
        BY <4>2, <1>1
      <4> QED BY <4>1, <4>3, <4>4 DEF Tick
    <3> DEFINE T(i) == Tick(from, to, param, interval, i - 1)
    <3>2. \A i \in 1..(count + 1) : T(i) \in R
      BY <3>1
    <3>3. s = [i \in 1..(count + 1) |-> T(i)]
      BY <2>4
    <3> HIDE DEF R, T, s, count
    <3> QED BY <2>2, <3>2, <3>3
  <2>6. Len(s) = count + 1
    BY <2>2, <2>4
  <2>7. ASSUME NEW i \in 1..(count - 1)
        PROVE  s[i + 1] = Tick(from, to, param, interval, i)
    <3>1. i + 1 \in 1..(count + 1) /\ (i + 1) - 1 = i
      BY <2>2
    <3> QED BY <2>4, <3>1
  <2> HIDE DEF s, count, R
  <2>8. Inner(s) = [i \in 1..(count - 1) |-> s[i + 1]]
    BY <2>2, <2>5, <2>6 DEF Inner
  <2>9. CASE count < 2
    <3>1. 1..(count - 1) = {}
      BY <2>2, <2>9
    <3>2. Inner(s) = <<>>
      BY <3>1, <2>8
    <3> QED BY <3>2 DEF s
  <2>10. CASE count >= 2
    <3>1. \A i \in 1..(count - 1) : i + 1 \in 1..Len(s)
      BY <2>2, <2>6
    <3>2. Inner(s) \in Seq(R) /\ DOMAIN Inner(s) = 1..(count - 1)
      BY <2>2, <2>5, <2>8, <3>1
    <3>3. \A i \in 1..(count - 1) : Inner(s)[i] = Tick(from, to, param, interval, i)
      BY <2>7, <2>8
    <3>4. from.at < to.at
      BY <1>1, <2>1, <2>3, <2>10
    <3> QED BY <1>3, <2>2, <2>10, <3>2, <3>3, <3>4 DEF s, R
  <2>11. count < 2 \/ count >= 2
    BY <2>2
  <2> QED BY <2>9, <2>10, <2>11, Zenon
<1> QED BY <1>2, <1>3

\* Multiples in their order.
LEMMA Multiples ==
    ASSUME NEW i \in Nat, NEW j \in Nat, NEW d \in Nat, i <= j
    PROVE  i * d \in Nat /\ j * d \in Nat /\ i * d <= j * d
           /\ (d > 0 /\ i < j => i * d < j * d)
  OBVIOUS

\* They are entries between the two values interpolated.
LEMMA InnerTicks ==
    ASSUME NEW from \in TimedValue, NEW to \in TimedValue, NEW param \in Params,
           NEW interval \in Nat
    PROVE  LET s == Inner(InterpolateLinear(from, to, param, interval))
           IN  s \in Seq(Entry) /\ \A i \in DOMAIN s : s[i].at \in from.at..to.at
<1> DEFINE s == Inner(InterpolateLinear(from, to, param, interval))
           timespan == to.at - from.at
           R == [at : Int, param : Params, num : Int, den : Int, step : {0}, action : {0}]
<1>1. from.at \in Int /\ to.at \in Int
  BY DEF TimedValue
<1>2. CASE s = <<>>
  BY <1>2
<1>3. CASE s # <<>>
  <2>1. PICK count \in Nat :
           /\ count >= 2 /\ DOMAIN s = 1..(count - 1) /\ s \in Seq(R)
           /\ from.at < to.at /\ count * interval <= timespan
           /\ \A i \in 1..(count - 1) : s[i] = Tick(from, to, param, interval, i)
    BY <1>3, InnerShape
  <2> HIDE DEF s, R
  <2>2. ASSUME NEW i \in 1..(count - 1)
        PROVE  s[i] \in Entry /\ s[i].at \in from.at..to.at
    <3>1. i * interval \in Nat /\ i * interval <= timespan
      <4>1. i \in Nat /\ i <= count
        BY <2>1
      <4>2. i * interval \in Nat /\ i * interval <= count * interval
            /\ count * interval \in Nat
        BY <4>1, Multiples
      <4> HIDE DEF timespan
      <4>3. timespan \in Int
        BY <1>1 DEF timespan
      <4> QED BY <2>1, <4>2, <4>3
    <3>2. s[i] \in R /\ s[i] = Tick(from, to, param, interval, i)
      <4>1. i \in DOMAIN s
        BY <2>1
      <4> QED BY <2>1, <4>1
    <3>3. s[i].at = from.at + i * interval /\ s[i].den = timespan
      BY <3>2 DEF Tick
    <3>4. timespan \in Nat \ {0}
      BY <1>1, <2>1
    <3>5. s[i] \in Entry
      BY <3>2, <3>3, <3>4 DEF R, Entry
    <3> QED BY <1>1, <3>1, <3>3, <3>5
  <2>3. s \in Seq(Entry)
    BY <2>1, <2>2
  <2> QED BY <2>1, <2>2, <2>3 DEF s
<1> QED BY <1>2, <1>3

-----------------------------------------------------------------------------
(* The loop.                                                               *)

\* The timed actions of a step.
TimedAction == [at : Int, param : Params \cup {"hold"}, value : Int]

LEMMA TimedActionsType ==
    ASSUME NEW s \in RawStep
    PROVE  TimedActions(s) \in Seq(TimedAction)
<1>1. CASE s.hold # "none"
  <2>1. TimedActions(s) = <<[at |-> s.at, param |-> "hold", value |-> 0]>>
    BY <1>1 DEF TimedActions
  <2>2. [at |-> s.at, param |-> "hold", value |-> 0] \in TimedAction
    BY DEF TimedAction, RawStep
  <2> QED BY <2>1, <2>2
<1>2. CASE s.hold = "none"
  <2>1. s.sets \in Seq(RawSet) /\ s.at \in Int
    BY DEF RawStep
  <2> DEFINE T(i) == [at |-> s.at + s.sets[i].rel, param |-> s.sets[i].param,
                      value |-> s.sets[i].value]
  <2>2. \A i \in 1..Len(s.sets) : T(i) \in TimedAction
    <3> TAKE i \in 1..Len(s.sets)
    <3>1. s.sets[i] \in RawSet
      BY <2>1
    <3> QED BY <2>1, <3>1 DEF RawSet, TimedAction
  <2>3. TimedActions(s) = [i \in 1..Len(s.sets) |-> T(i)]
    BY <1>2, <2>1 DEF TimedActions
  <2> HIDE DEF T
  <2> QED BY <2>1, <2>2, <2>3
<1> QED BY <1>1, <1>2

\* The next action of a valid definition lies within the sequence.
LEMMA NextActionWithin ==
    ASSUME TypeOK, Validated, Building, action <= Len(StepActions)
    PROVE  /\ StepActions[action] \in TimedAction
           /\ Shifted(StepActions[action]) \in 0..(seq.end - seq.start)
<1> DEFINE s == seq.steps[step]
           a == StepActions[action]
<1>1. seq.steps \in Seq(RawStep) /\ seq.start \in Int /\ seq.end \in Int
  BY DEF TypeOK, Definition
<1>2. step \in 1..Len(seq.steps)
  BY <1>1 DEF TypeOK, Building
<1>3. s \in RawStep
  BY <1>1, <1>2
<1>4. StepActions \in Seq(TimedAction)
  BY <1>3, TimedActionsType DEF StepActions, Actions
<1>5. action \in 1..Len(StepActions)
  BY <1>4 DEF TypeOK
<1>6. a \in TimedAction
  BY <1>4, <1>5
<1>7. ValidStep(seq, s)
  <2>1. Valid(seq)
    BY DEF Validated, Building
  <2> QED BY <1>1, <1>2, <2>1 DEF Valid
<1>8. a \in Range(TimedActions(s))
  BY <1>4, <1>5 DEF Range, StepActions, Actions
<1>9. s.at >= seq.start /\ a.at >= s.at /\ a.at <= seq.end
  BY <1>7, <1>8 DEF ValidStep, ValidAction
<1>10. a.at \in Int /\ s.at \in Int
  BY <1>3, <1>6 DEF RawStep, TimedAction
<1> QED BY <1>1, <1>6, <1>9, <1>10 DEF Shifted

\* What PushLinear puts before the action.
LEMMA TicksWithin ==
    ASSUME Inv, NEW a \in TimedAction, a.param \in Params,
           Shifted(a) \in 0..(seq.end - seq.start)
    PROVE  /\ TicksTo(a) \in Seq(Entry)
           /\ \A i \in DOMAIN TicksTo(a) : TicksTo(a)[i].at \in 0..(seq.end - seq.start)
<1> DEFINE from == last[a.param]
           to == Remembered(a)
           ticks == Inner(InterpolateLinear(from, to, a.param, seq.interval))
<1>1. seq.start \in Int /\ seq.end \in Int /\ seq.interval \in Nat
  BY DEF Inv, TypeOK, Definition
<1>2. from \in TimedValue
  BY DEF Inv, TypeOK
<1>3. to \in TimedValue /\ to.at = Shifted(a)
  BY <1>1 DEF Remembered, TimedValue, TimedAction
<1>4. CASE ~from.known
  <2>1. TicksTo(a) = <<>>
    BY <1>4 DEF TicksTo
  <2> QED BY <2>1
<1>5. CASE from.known
  <2>1. TicksTo(a) = ticks
    BY <1>5 DEF TicksTo
  <2>2. ticks \in Seq(Entry) /\ \A i \in DOMAIN ticks : ticks[i].at \in from.at..to.at
    BY <1>1, <1>2, <1>3, InnerTicks
  <2>3. from.at \in 0..(seq.end - seq.start)
    BY <1>5 DEF Inv, RememberedWithin
  <2> HIDE DEF ticks, from, to
  <2>4. from.at..to.at \subseteq 0..(seq.end - seq.start)
    BY <1>1, <1>3, <2>3
  <2> QED BY <2>1, <2>2, <2>4
<1> QED BY <1>4, <1>5

\* Entries within the sequence, appended to a schedule within it.
LEMMA ConcatWithin ==
    ASSUME NEW S, NEW bound \in Int, NEW s \in Seq(S), NEW t \in Seq(S),
           \A i \in DOMAIN s : s[i].at \in 0..bound,
           \A i \in DOMAIN t : t[i].at \in 0..bound
    PROVE  /\ s \o t \in Seq(S)
           /\ \A i \in DOMAIN (s \o t) : (s \o t)[i].at \in 0..bound
<1>1. \A i \in 1..(Len(s) + Len(t)) :
        (s \o t)[i] = IF i <= Len(s) THEN s[i] ELSE t[i - Len(s)]
  OBVIOUS
<1>2. DOMAIN (s \o t) = 1..(Len(s) + Len(t)) /\ s \o t \in Seq(S)
  OBVIOUS
<1>3. ASSUME NEW i \in 1..(Len(s) + Len(t))
      PROVE  (s \o t)[i].at \in 0..bound
  <2>1. CASE i <= Len(s)
    <3>1. i \in DOMAIN s
      BY <2>1
    <3> QED BY <1>1, <2>1, <3>1
  <2>2. CASE i > Len(s)
    <3>1. i - Len(s) \in DOMAIN t
      BY <2>2
    <3> QED BY <1>1, <2>2, <3>1
  <2> QED BY <2>1, <2>2
<1> QED BY <1>2, <1>3

\* The entry of the action itself.
LEMMA EntryWithin ==
    ASSUME NEW a \in TimedAction, seq.start \in Int, NEW n \in Nat, NEW k \in Nat
    PROVE  <<AsEntry(a, n, k)>> \in Seq(Entry) /\ AsEntry(a, n, k) \in Entry
           /\ AsEntry(a, n, k).at = Shifted(a)
<1>1. AsEntry(a, n, k) \in Entry /\ AsEntry(a, n, k).at = Shifted(a)
  BY DEF AsEntry, Shifted, TimedAction, Entry
<1> QED BY <1>1

-----------------------------------------------------------------------------
(* The invariant.                                                          *)

LEMMA Initially == Init => Inv
<1> SUFFICES ASSUME Init PROVE Inv
  OBVIOUS
<1>1. seq \in Definition
  BY DefinitionAssumption DEF Init
<1>2. seq.steps \in Seq(RawStep)
  BY <1>1 DEF Definition
<1>3. Nothing \in TimedValue /\ ~Nothing.known
  BY DEF Nothing, TimedValue
<1>4. last \in [Params -> TimedValue] /\ \A p \in Params : ~last[p].known
  BY <1>3 DEF Init
<1>5. TypeOK
  BY <1>1, <1>2, <1>4 DEF Init, TypeOK
<1>6. Validated /\ RememberedWithin /\ WithinGlobals
  BY <1>4 DEF Init, Validated, RememberedWithin, WithinGlobals
<1> QED BY <1>5, <1>6 DEF Inv

LEMMA PushActionKeeps == Inv /\ PushAction => Inv'
<1> SUFFICES ASSUME Inv, PushAction PROVE Inv'
  OBVIOUS
<1> DEFINE a == StepActions[action]
           bound == seq.end - seq.start
<1>1. /\ a \in TimedAction /\ Shifted(a) \in 0..bound
  BY NextActionWithin DEF Inv, PushAction
<1>2. seq.start \in Int /\ seq.end \in Int /\ bound \in Int
      /\ step \in Nat /\ action \in Nat
  <2>1. seq.steps \in Seq(RawStep)
    BY DEF Inv, TypeOK, Definition
  <2> QED BY <2>1 DEF Inv, TypeOK, Definition
<1>3. seq.linear \subseteq Params
  BY DEF Inv, TypeOK, Definition
<1>4. schedule \in Seq(Entry) /\ \A i \in DOMAIN schedule : schedule[i].at \in 0..bound
  BY DEF Inv, TypeOK, WithinGlobals
<1> DEFINE one == <<AsEntry(a, step, action)>>
<1>5. one \in Seq(Entry) /\ \A i \in DOMAIN one : one[i].at \in 0..bound
  <2>1. AsEntry(a, step, action) \in Entry /\ AsEntry(a, step, action).at \in 0..bound /\ one \in Seq(Entry)
    BY <1>1, <1>2, EntryWithin
  <2> HIDE DEF a, bound
  <2> QED BY <2>1
<1>6. seq' = seq /\ phase' = phase /\ step' = step /\ action' = action + 1
  BY DEF PushAction
<1>7. /\ schedule' \in Seq(Entry)
      /\ \A i \in DOMAIN schedule' : schedule'[i].at \in 0..bound
      /\ last' \in [Params -> TimedValue]
      /\ \A p \in Params : last'[p].known => last'[p].at \in 0..bound
  <2>1. CASE Push(a)
    <3>1. schedule' = schedule \o one /\ last' = last
      <4>1. schedule' = Append(schedule, AsEntry(a, step, action)) /\ last' = last
        BY <2>1 DEF Push
      <4>2. AsEntry(a, step, action) \in Entry
        BY <1>1, <1>2, EntryWithin
      <4> HIDE DEF a
      <4> QED BY <4>1, <4>2, <1>4
    <3> HIDE DEF a, bound, one
    <3>2. /\ schedule' \in Seq(Entry)
          /\ \A i \in DOMAIN schedule' : schedule'[i].at \in 0..bound
      BY <1>2, <1>4, <1>5, <3>1, ConcatWithin
    <3>3. last \in [Params -> TimedValue]
          /\ \A p \in Params : last[p].known => last[p].at \in 0..bound
      BY DEF Inv, TypeOK, RememberedWithin, bound
    <3> QED BY <3>1, <3>2, <3>3
  <2>2. CASE PushLinear(a)
    <3>1. a.param \in Params
      BY <1>3, <2>2 DEF PushLinear
    <3>2. /\ TicksTo(a) \in Seq(Entry)
          /\ \A i \in DOMAIN TicksTo(a) : TicksTo(a)[i].at \in 0..bound
      BY <1>1, <3>1, TicksWithin
    <3>3. /\ schedule' = (schedule \o TicksTo(a)) \o one
          /\ last' = [last EXCEPT ![a.param] = Remembered(a)]
      BY <2>2 DEF PushLinear
    <3>4. Remembered(a) \in TimedValue /\ Remembered(a).at \in 0..bound
      BY <1>1, <1>2 DEF Remembered, TimedValue, TimedAction
    <3>5. last \in [Params -> TimedValue]
          /\ \A p \in Params : last[p].known => last[p].at \in 0..bound
      BY DEF Inv, TypeOK, RememberedWithin
    <3> HIDE DEF a, bound, one
    <3>6. /\ schedule \o TicksTo(a) \in Seq(Entry)
          /\ \A i \in DOMAIN (schedule \o TicksTo(a)) :
                (schedule \o TicksTo(a))[i].at \in 0..bound
      BY <1>2, <1>4, <3>2, ConcatWithin
    <3>7. /\ schedule' \in Seq(Entry)
          /\ \A i \in DOMAIN schedule' : schedule'[i].at \in 0..bound
      BY <1>2, <1>5, <3>3, <3>6, ConcatWithin
    <3>8. last' \in [Params -> TimedValue]
          /\ \A p \in Params : last'[p].known => last'[p].at \in 0..bound
      BY <3>1, <3>3, <3>4, <3>5
    <3> QED BY <3>7, <3>8
  <2> QED BY <2>1, <2>2 DEF PushAction
<1>8. TypeOK'
  BY <1>6, <1>7 DEF Inv, TypeOK
<1>9. Validated' /\ RememberedWithin' /\ WithinGlobals'
  BY <1>6, <1>7 DEF Inv, Validated, RememberedWithin, WithinGlobals
<1> QED BY <1>8, <1>9 DEF Inv

LEMMA Inductive == Inv /\ [Next]_vars => Inv'
<1> SUFFICES ASSUME Inv, [Next]_vars PROVE Inv'
  OBVIOUS
<1>1. CASE Load
  BY <1>1 DEF Load, Inv, TypeOK, Validated, RememberedWithin, WithinGlobals
<1>2. CASE PushAction
  BY <1>2, PushActionKeeps
<1>3. CASE NextStep
  <2>1. seq.steps \in Seq(RawStep)
    BY DEF Inv, TypeOK, Definition
  <2>2. step' \in 1..(Len(seq.steps) + 1) /\ seq' = seq
    BY <1>3, <2>1 DEF NextStep, Building, Inv, TypeOK
  <2> QED BY <1>3, <2>2 DEF NextStep, Inv, TypeOK, Validated, RememberedWithin, WithinGlobals
<1>4. CASE Finish
  BY <1>4 DEF Finish, Inv, TypeOK, Validated, RememberedWithin, WithinGlobals
<1>5. CASE UNCHANGED vars
  BY <1>5 DEF vars, Inv, TypeOK, Validated, RememberedWithin, WithinGlobals
<1> QED BY <1>1, <1>2, <1>3, <1>4, <1>5 DEF Next

\* Inv holds in every reachable state.
THEOREM Invariance == Spec => []Inv
  BY Initially, Inductive, PTL DEF Spec

\* Types of the loader and the builder, for every set of definitions: no value
\* divided by an empty time span ever reaches a schedule.
THEOREM TypeCorrect == Spec => []TypeOK
<1>1. Inv => TypeOK
  BY DEF Inv
<1> QED BY Invariance, <1>1, PTL

\* Whatever the definition, and however it interpolates, nothing is scheduled
\* before the start or after the end: the runner never makes a Duration of a
\* negative number.
THEOREM NothingOutside == Spec => []WithinGlobals
<1>1. Inv => WithinGlobals
  BY DEF Inv
<1> QED BY Invariance, <1>1, PTL

-----------------------------------------------------------------------------
(* The schedule, one action after the other.                               *)

TicksBefore(a) == IF a.param \in seq.linear THEN TicksTo(a) ELSE <<>>

LEMMA Concatenated ==
    ASSUME NEW S, NEW s \in Seq(S), NEW t \in Seq(S)
    PROVE  /\ s \o t \in Seq(S) /\ Len(s \o t) = Len(s) + Len(t)
           /\ Len(s) \in Nat /\ Len(t) \in Nat
           /\ \A i \in 1..Len(s) : (s \o t)[i] = s[i]
           /\ \A i \in 1..Len(t) : (s \o t)[Len(s) + i] = t[i]
  OBVIOUS

LEMMA Appended ==
    ASSUME NEW S, NEW s \in Seq(S), NEW t \in Seq(S), NEW e \in S
    PROVE  /\ (s \o t) \o <<e>> \in Seq(S)
           /\ Len((s \o t) \o <<e>>) = Len(s) + Len(t) + 1
           /\ \A i \in 1..Len(s) : ((s \o t) \o <<e>>)[i] = s[i]
           /\ \A i \in 1..Len(t) : ((s \o t) \o <<e>>)[Len(s) + i] = t[i]
           /\ ((s \o t) \o <<e>>)[Len(s) + Len(t) + 1] = e
<1> DEFINE u == s \o t
           one == <<e>>
           r == u \o one
<1>1. u \in Seq(S) /\ Len(u) = Len(s) + Len(t) /\ Len(s) \in Nat /\ Len(t) \in Nat
  BY Concatenated
<1>2. \A i \in 1..Len(s) : u[i] = s[i]
  BY Concatenated
<1>3. \A i \in 1..Len(t) : u[Len(s) + i] = t[i]
  BY Concatenated
<1>4. one \in Seq(S) /\ Len(one) = 1 /\ one[1] = e
  OBVIOUS
<1> HIDE DEF u, one
<1>5. r \in Seq(S) /\ Len(r) = Len(u) + Len(one)
  BY <1>1, <1>4, Concatenated
<1>6. \A i \in 1..Len(u) : r[i] = u[i]
  BY <1>1, <1>4, Concatenated
<1>7. r[Len(u) + 1] = e
  <2>1. \A i \in 1..Len(one) : r[Len(u) + i] = one[i]
    <3>1. one \in Seq(S) /\ u \in Seq(S)
      BY <1>1, <1>4
    <3> QED BY <3>1, Concatenated
  <2>2. 1 \in 1..Len(one)
    BY <1>4
  <2> HIDE DEF r
  <2> QED BY <1>4, <2>1, <2>2
<1> HIDE DEF r
<1>8. ASSUME NEW i \in 1..Len(s)  PROVE  r[i] = s[i]
  <2>1. i \in 1..Len(u)
    BY <1>1
  <2> QED BY <1>2, <1>6, <2>1
<1>9. ASSUME NEW i \in 1..Len(t)  PROVE  r[Len(s) + i] = t[i]
  <2>1. Len(s) + i \in 1..Len(u)
    BY <1>1
  <2>2. r[Len(s) + i] = u[Len(s) + i]
    BY <1>6, <2>1
  <2> QED BY <1>3, <2>2
<1> QED BY <1>1, <1>5, <1>7, <1>8, <1>9 DEF r, u, one

\* An action adds the values that lead to it, and then itself.
LEMMA Pushed ==
    ASSUME Inv, PushAction, NEW a, a = StepActions[action]
    PROVE  /\ a \in TimedAction /\ Shifted(a) \in 0..(seq.end - seq.start)
           /\ seq.linear \subseteq Params
           /\ TicksBefore(a) \in Seq(Entry)
           /\ schedule \in Seq(Entry) /\ schedule' \in Seq(Entry)
           /\ Len(schedule') = Len(schedule) + Len(TicksBefore(a)) + 1
           /\ \A i \in 1..Len(schedule) : schedule'[i] = schedule[i]
           /\ \A i \in 1..Len(TicksBefore(a)) :
                 schedule'[Len(schedule) + i] = TicksBefore(a)[i]
           /\ schedule'[Len(schedule) + Len(TicksBefore(a)) + 1] = AsEntry(a, step, action)
           /\ last' = IF a.param \in seq.linear
                      THEN [last EXCEPT ![a.param] = Remembered(a)] ELSE last
<1>1. a \in TimedAction /\ Shifted(a) \in 0..(seq.end - seq.start)
  BY NextActionWithin DEF Inv, PushAction
<1>2. seq.linear \subseteq Params /\ seq.start \in Int /\ seq.steps \in Seq(RawStep)
      /\ step \in Nat /\ action \in Nat /\ schedule \in Seq(Entry)
  BY DEF Inv, TypeOK, Definition
<1> DEFINE e == AsEntry(a, step, action)
           t == TicksBefore(a)
<1>3. e \in Entry
  BY <1>1, <1>2, EntryWithin
<1>4. t \in Seq(Entry)
  <2>1. CASE a.param \in seq.linear
    BY <1>1, <1>2, <2>1, TicksWithin DEF TicksBefore
  <2>2. CASE a.param \notin seq.linear
    BY <2>2 DEF TicksBefore
  <2> QED BY <2>1, <2>2
<1>5. /\ schedule' = (schedule \o t) \o <<e>>
      /\ last' = IF a.param \in seq.linear
                 THEN [last EXCEPT ![a.param] = Remembered(a)] ELSE last
  <2>1. CASE Push(a)
    <3>1. t = <<>> /\ last' = last /\ a.param \notin seq.linear
          /\ schedule' = Append(schedule, e)
      BY <2>1 DEF Push, TicksBefore
    <3> HIDE DEF t, e
    <3>2. schedule' = (schedule \o t) \o <<e>>
      BY <3>1, <1>2, <1>3
    <3> QED BY <3>1, <3>2
  <2>2. CASE PushLinear(a)
    <3>1. t = TicksTo(a) /\ a.param \in seq.linear
      BY <2>2 DEF PushLinear, TicksBefore
    <3> QED BY <3>1, <2>2 DEF PushLinear
  <2> QED BY <2>1, <2>2 DEF PushAction
<1> HIDE DEF t, e
<1>6. /\ schedule' \in Seq(Entry)
      /\ Len(schedule') = Len(schedule) + Len(t) + 1
      /\ \A i \in 1..Len(schedule) : schedule'[i] = schedule[i]
      /\ \A i \in 1..Len(t) : schedule'[Len(schedule) + i] = t[i]
      /\ schedule'[Len(schedule) + Len(t) + 1] = e
  BY <1>2, <1>3, <1>4, <1>5, Appended
<1> QED BY <1>1, <1>2, <1>4, <1>5, <1>6 DEF t, e

\* What leads to an action is of its parameter, and not of the definition.
LEMMA TicksUndefined ==
    ASSUME Inv, PushAction, NEW a, a = StepActions[action],
           NEW i \in 1..Len(TicksBefore(a))
    PROVE  /\ ~Defined(TicksBefore(a)[i])
           /\ TicksBefore(a)[i].param = a.param /\ a.param \in seq.linear
<1>1. a \in TimedAction /\ seq.linear \subseteq Params
  BY Pushed
<1>2. a.param \in seq.linear
  <2>1. CASE a.param \notin seq.linear
    BY <2>1 DEF TicksBefore
  <2> QED BY <2>1
<1>3. last[a.param].known
  <2>1. CASE ~last[a.param].known
    BY <1>2, <2>1 DEF TicksBefore, TicksTo
  <2> QED BY <2>1
<1> DEFINE from == last[a.param]
           to == Remembered(a)
           p == a.param
           s == Inner(InterpolateLinear(from, to, p, seq.interval))
           R == [at : Int, param : Params, num : Int, den : Int, step : {0}, action : {0}]
<1>4. TicksBefore(a) = s
  BY <1>2, <1>3 DEF TicksBefore, TicksTo
<1>5. from \in TimedValue /\ seq.interval \in Nat /\ seq.start \in Int
  BY <1>1, <1>2 DEF Inv, TypeOK, Definition
<1>6. to \in TimedValue
  BY <1>1, <1>5 DEF Remembered, TimedValue, TimedAction, Shifted
<1> HIDE DEF from, to
<1>7. s # <<>>
  BY <1>4
<1>8. PICK count \in Nat :
         /\ DOMAIN s = 1..(count - 1) /\ s \in Seq(R)
         /\ \A k \in 1..(count - 1) : s[k] = Tick(from, to, p, seq.interval, k)
  <2>1. p \in Params
    BY <1>1, <1>2
  <2> HIDE DEF p
  <2> QED BY <1>5, <1>6, <1>7, <2>1, InnerShape
<1> HIDE DEF s, R
<1>9. i \in DOMAIN s /\ i \in 1..(count - 1)
  BY <1>4, <1>8
<1>10. s[i] = Tick(from, to, p, seq.interval, i)
  BY <1>8, <1>9
<1>11. s[i].param = a.param /\ s[i].step = 0
  BY <1>10 DEF Tick
<1> QED BY <1>2, <1>4, <1>11 DEF Defined

\* Of what an action adds only the last entry is in the definition.
LEMMA PushedDefined ==
    ASSUME Inv, PushAction
    PROVE  LET n == Len(schedule')
           IN  /\ schedule \in Seq(Entry) /\ schedule' \in Seq(Entry) /\ n > Len(schedule)
               /\ \A i \in DOMAIN schedule : i \in DOMAIN schedule' /\ schedule'[i] = schedule[i]
               /\ \A i \in DOMAIN schedule' :
                     i \notin DOMAIN schedule => ~Defined(schedule'[i]) \/ i = n
               /\ n \in DOMAIN schedule'
               /\ schedule'[n] = AsEntry(StepActions[action], step, action)
<1> DEFINE a == StepActions[action]
           t == TicksBefore(a)
           n == Len(schedule')
<1>1. /\ t \in Seq(Entry) /\ schedule \in Seq(Entry) /\ schedule' \in Seq(Entry)
      /\ n = Len(schedule) + Len(t) + 1
      /\ \A i \in 1..Len(schedule) : schedule'[i] = schedule[i]
      /\ \A i \in 1..Len(t) : schedule'[Len(schedule) + i] = t[i]
      /\ schedule'[Len(schedule) + Len(t) + 1] = AsEntry(a, step, action)
  BY Pushed
<1>2. \A i \in 1..Len(t) : ~Defined(t[i])
  BY TicksUndefined
<1> HIDE DEF a, t
<1> HIDE DEF n
<1>3. \A i \in DOMAIN schedule : i \in DOMAIN schedule' /\ schedule'[i] = schedule[i]
  <2>1. /\ DOMAIN schedule = 1..Len(schedule) /\ Len(schedule) \in Nat
        /\ DOMAIN schedule' = 1..Len(schedule') /\ Len(schedule') > Len(schedule)
        /\ Len(schedule') \in Nat
    BY <1>1 DEF n
  <2> QED BY <1>1, <2>1
<1>4. ASSUME NEW i \in DOMAIN schedule', i \notin DOMAIN schedule, i # n
      PROVE  ~Defined(schedule'[i])
  <2>1. i - Len(schedule) \in 1..Len(t) /\ Len(schedule) + (i - Len(schedule)) = i
    BY <1>1, <1>4 DEF n
  <2>2. schedule'[i] = t[i - Len(schedule)]
    BY <1>1, <2>1
  <2> QED BY <1>2, <2>1, <2>2
<1>5. n > Len(schedule) /\ n \in DOMAIN schedule'
  BY <1>1 DEF n
<1>6. schedule'[n] = AsEntry(a, step, action)
  BY <1>1
<1> QED BY <1>1, <1>3, <1>4, <1>5, <1>6 DEF a, n

-----------------------------------------------------------------------------
(* The actions of the definition in the schedule.                          *)

EntryAt(n, k) == AsEntry(Actions(n)[k], n, k)

\* The actions that come before the next one.
Done(n, k) == n < step \/ (n = step /\ k < action)

\* A schedule is only made after the definition validated, and of all its steps.
Progress ==
    /\ schedule # <<>> => phase \in {"building", "built"}
    /\ phase = "built" => step > Len(seq.steps)

Placed(e) ==
    /\ e.step \in DOMAIN seq.steps /\ e.action \in DOMAIN Actions(e.step)
    /\ e = EntryAt(e.step, e.action)
    /\ Done(e.step, e.action)
InPlace == \A i \in DOMAIN schedule : Defined(schedule[i]) => Placed(schedule[i])

InOrder ==
    \A i, j \in DOMAIN schedule :
        i < j /\ Defined(schedule[i]) /\ Defined(schedule[j])
            => Ahead(schedule[i], schedule[j])

Complete ==
    \A n \in DOMAIN seq.steps : \A k \in DOMAIN Actions(n) :
        Done(n, k) => \E i \in DOMAIN schedule : schedule[i] = EntryAt(n, k)

KeptInv == Inv /\ Progress /\ InPlace /\ InOrder /\ Complete

LEMMA ActionsType ==
    ASSUME TypeOK
    PROVE  /\ seq.steps \in Seq(RawStep) /\ step \in Nat /\ action \in Nat \ {0}
           /\ \A n \in DOMAIN seq.steps :
                 /\ n \in Nat /\ seq.steps[n] \in RawStep
                 /\ Actions(n) \in Seq(TimedAction)
<1>1. seq.steps \in Seq(RawStep) /\ step \in Nat /\ action \in Nat \ {0}
  BY DEF TypeOK, Definition
<1>2. ASSUME NEW n \in DOMAIN seq.steps
      PROVE  n \in Nat /\ seq.steps[n] \in RawStep /\ Actions(n) \in Seq(TimedAction)
  <2>1. n \in Nat /\ seq.steps[n] \in RawStep
    BY <1>1
  <2> QED BY <2>1, TimedActionsType DEF Actions
<1> QED BY <1>1, <1>2

\* The definition stays what it is.
LEMMA SameDefinition ==
    ASSUME Next \/ UNCHANGED vars
    PROVE  /\ seq' = seq
           /\ \A n, k : Actions(n)' = Actions(n) /\ EntryAt(n, k)' = EntryAt(n, k)
<1>1. seq' = seq
  BY DEF Next, Load, PushAction, NextStep, Finish, vars
<1> QED BY <1>1 DEF Actions, EntryAt, AsEntry, Shifted

LEMMA KeptInit == Init => KeptInv
<1> SUFFICES ASSUME Init PROVE KeptInv
  OBVIOUS
<1>1. Inv
  BY Initially
<1>2. Progress /\ InPlace /\ InOrder
  BY DEF Init, Progress, InPlace, InOrder
<1>3. Complete
  <2>1. ASSUME NEW n \in DOMAIN seq.steps, NEW k \in DOMAIN Actions(n) PROVE ~Done(n, k)
    <3>1. n \in Nat \ {0} /\ k \in Nat \ {0}
      BY <1>1, ActionsType DEF Inv
    <3> QED BY <3>1 DEF Done, Init
  <2> QED BY <2>1 DEF Complete
<1> QED BY <1>1, <1>2, <1>3 DEF KeptInv

LEMMA KeptPush ==
    ASSUME KeptInv, PushAction PROVE (Progress /\ InPlace /\ InOrder /\ Complete)'
<1> DEFINE end == Len(schedule')
<1>1. Inv /\ TypeOK
  BY DEF KeptInv, Inv
<1>2. /\ schedule \in Seq(Entry) /\ schedule' \in Seq(Entry) /\ end > Len(schedule)
      /\ \A i \in DOMAIN schedule : i \in DOMAIN schedule' /\ schedule'[i] = schedule[i]
      /\ \A i \in DOMAIN schedule' :
            i \notin DOMAIN schedule => ~Defined(schedule'[i]) \/ i = end
      /\ end \in DOMAIN schedule'
      /\ schedule'[end] = EntryAt(step, action)
  BY <1>1, PushedDefined DEF EntryAt, StepActions
<1>3. /\ seq' = seq /\ phase' = phase /\ step' = step /\ action' = action + 1
      /\ phase = "building" /\ step <= Len(seq.steps) /\ action <= Len(Actions(step))
  BY DEF PushAction, Building, StepActions
<1>4. \A n, k : Actions(n)' = Actions(n) /\ EntryAt(n, k)' = EntryAt(n, k)
  BY SameDefinition DEF Next
<1>5. /\ seq.steps \in Seq(RawStep) /\ step \in Nat /\ action \in Nat \ {0}
      /\ \A n \in DOMAIN seq.steps : n \in Nat /\ Actions(n) \in Seq(TimedAction)
  BY <1>1, ActionsType
<1>6. step \in DOMAIN seq.steps /\ action \in DOMAIN Actions(step)
  <2>1. step \in DOMAIN seq.steps
    BY <1>1, <1>3, <1>5 DEF TypeOK
  <2> QED BY <1>3, <1>5, <2>1
<1> HIDE DEF end
<1>7. /\ schedule'[end].step = step /\ schedule'[end].action = action
      /\ Defined(schedule'[end])
  <2>1. schedule'[end].step = step /\ schedule'[end].action = action
    BY <1>2 DEF EntryAt, AsEntry
  <2>2. step # 0
    BY <1>5, <1>6
  <2> QED BY <2>1, <2>2 DEF Defined
<1>8. Progress'
  BY <1>3 DEF Progress
<1>9. \A n, k \in Nat : Done(n, k)' <=> Done(n, k) \/ (n = step /\ k = action)
  BY <1>3, <1>5 DEF Done
<1>10. ASSUME NEW i \in DOMAIN schedule', Defined(schedule'[i]) PROVE Placed(schedule[i])'
  <2>1. CASE i \in DOMAIN schedule
    <3> DEFINE n == schedule[i].step
               k == schedule[i].action
    <3>1. schedule'[i] = schedule[i] /\ Defined(schedule[i])
      BY <1>2, <1>10, <2>1 DEF Defined
    <3>2. /\ n \in DOMAIN seq.steps /\ k \in DOMAIN Actions(n)
          /\ schedule[i] = EntryAt(n, k) /\ Done(n, k)
      BY <2>1, <3>1 DEF KeptInv, InPlace, Placed
    <3>3. n \in Nat /\ k \in Nat
      BY <1>5, <3>2
    <3>4. Done(n, k)'
      <4> HIDE DEF n, k
      <4>1. n \in Nat /\ k \in Nat /\ Done(n, k)
        BY <3>2, <3>3
      <4>2. n < step' \/ (n = step' /\ k < action')
        BY <1>3, <1>5, <4>1 DEF Done
      <4>3. schedule'[i].step = n /\ schedule'[i].action = k
        BY <3>1 DEF n, k
      <4> QED BY <4>2, <4>3 DEF Done, n, k
    <3> QED BY <1>3, <1>4, <3>1, <3>2, <3>4 DEF Placed, Done
  <2>2. CASE i \notin DOMAIN schedule
    <3>1. i = end
      BY <1>2, <1>10, <2>2
    <3>2. action < action'
      BY <1>3, <1>5
    <3> QED BY <1>2, <1>3, <1>4, <1>6, <1>7, <3>1, <3>2 DEF Placed, Done
  <2> QED BY <2>1, <2>2
<1>11. InPlace'
  BY <1>10 DEF InPlace, Defined
<1>12. ASSUME NEW i \in DOMAIN schedule', NEW j \in DOMAIN schedule', i < j,
              Defined(schedule'[i]), Defined(schedule'[j])
       PROVE  Ahead(schedule'[i], schedule'[j])
  <2>1. /\ DOMAIN schedule = 1..Len(schedule) /\ DOMAIN schedule' = 1..Len(schedule')
        /\ Len(schedule) \in Nat /\ Len(schedule') \in Nat
    BY <1>2
  <2>2. i \in DOMAIN schedule
    BY <1>2, <1>12, <2>1 DEF end
  <2>3. CASE j \in DOMAIN schedule
    BY <1>2, <1>12, <2>2, <2>3 DEF KeptInv, InOrder
  <2>4. CASE j \notin DOMAIN schedule
    <3>1. j = end
      BY <1>2, <1>12, <2>4
    <3>2. Done(schedule[i].step, schedule[i].action)
      BY <1>2, <1>12, <2>2 DEF KeptInv, InPlace, Placed
    <3> QED BY <1>2, <1>7, <2>2, <3>1, <3>2 DEF Done, Ahead
  <2> QED BY <2>3, <2>4
<1>13. InOrder'
  BY <1>12 DEF InOrder, Defined, Ahead
<1>14. ASSUME NEW n \in DOMAIN seq.steps, NEW k \in DOMAIN Actions(n), Done(n, k)'
       PROVE  \E i \in DOMAIN schedule' : schedule'[i] = EntryAt(n, k)
  <2>1. n \in Nat /\ k \in Nat
    BY <1>5
  <2>2. Done(n, k) \/ (n = step /\ k = action)
    BY <1>9, <1>14, <2>1
  <2>3. CASE Done(n, k)
    <3>1. PICK i \in DOMAIN schedule : schedule[i] = EntryAt(n, k)
      BY <2>3 DEF KeptInv, Complete
    <3> QED BY <1>2, <3>1
  <2> QED BY <1>2, <2>2, <2>3
<1>15. Complete'
  BY <1>3, <1>4, <1>14 DEF Complete
<1> QED BY <1>8, <1>11, <1>13, <1>15

LEMMA KeptNextStep ==
    ASSUME KeptInv, NextStep PROVE (Progress /\ InPlace /\ InOrder /\ Complete)'
<1>1. /\ seq' = seq /\ phase' = phase /\ schedule' = schedule
      /\ step' = step + 1 /\ action' = 1
      /\ phase = "building" /\ action > Len(Actions(step))
  BY DEF NextStep, Building, StepActions
<1>2. \A n, k : Actions(n)' = Actions(n) /\ EntryAt(n, k)' = EntryAt(n, k)
  BY SameDefinition DEF Next
<1>3. /\ seq.steps \in Seq(RawStep) /\ step \in Nat /\ action \in Nat \ {0}
      /\ \A n \in DOMAIN seq.steps : n \in Nat /\ Actions(n) \in Seq(TimedAction)
  BY ActionsType DEF KeptInv, Inv
<1>4. \A n \in DOMAIN seq.steps : \A k \in DOMAIN Actions(n) : Done(n, k)' <=> Done(n, k)
  <2> TAKE n \in DOMAIN seq.steps
  <2> TAKE k \in DOMAIN Actions(n)
  <2>1. n \in Nat /\ k \in 1..Len(Actions(n))
    BY <1>3
  <2>2. Done(n, k)' <=> n < step + 1 \/ (n = step + 1 /\ k < 1)
    BY <1>1 DEF Done
  <2>3. n = step => k < action
    BY <1>1, <1>3, <2>1
  <2> QED BY <1>3, <2>1, <2>2, <2>3 DEF Done
<1>5. Progress'
  BY <1>1, <1>3 DEF KeptInv, Progress
<1>6. InPlace'
  BY <1>1, <1>2, <1>4 DEF KeptInv, InPlace, Placed, Defined, Done
<1>7. InOrder'
  BY <1>1 DEF KeptInv, InOrder, Defined, Ahead
<1>8. Complete'
  BY <1>1, <1>2, <1>4 DEF KeptInv, Complete, Done
<1> QED BY <1>5, <1>6, <1>7, <1>8

LEMMA KeptStep == KeptInv /\ [Next]_vars => KeptInv'
<1> SUFFICES ASSUME KeptInv, [Next]_vars PROVE KeptInv'
  OBVIOUS
<1>1. Inv'
  BY Inductive DEF KeptInv
<1> SUFFICES (Progress /\ InPlace /\ InOrder /\ Complete)'
  BY <1>1 DEF KeptInv
<1>2. CASE PushAction
  BY <1>2, KeptPush
<1>3. CASE NextStep
  BY <1>3, KeptNextStep
<1>4. CASE Load \/ Finish \/ UNCHANGED vars
  <2>1. UNCHANGED <<seq, step, action, schedule>>
    BY <1>4 DEF Load, Finish, vars
  <2>2. \A n, k : Actions(n)' = Actions(n) /\ EntryAt(n, k)' = EntryAt(n, k)
    BY <1>4, SameDefinition DEF Next
  <2>3. Progress'
    BY <1>4, <2>1 DEF KeptInv, Progress, Load, Finish, vars
  <2>4. InPlace'
    BY <2>1, <2>2 DEF KeptInv, InPlace, Placed, Defined, Done
  <2>5. InOrder'
    BY <2>1 DEF KeptInv, InOrder, Defined, Ahead
  <2>6. Complete'
    BY <2>1, <2>2 DEF KeptInv, Complete, Done
  <2> QED BY <2>3, <2>4, <2>5, <2>6
<1> QED BY <1>2, <1>3, <1>4 DEF Next

THEOREM KeptInvariance == Spec => []KeptInv
  BY KeptInit, KeptStep, PTL DEF Spec

\* Whatever is interpolated, a built schedule holds every action of the
\* definition, once and in the order of the file: none is lost when the ticks
\* that lead to it are pushed or popped.
THEOREM EveryActionKept == Spec => []DefinedKept
<1>1. KeptInv => DefinedKept
  <2> SUFFICES ASSUME KeptInv, phase = "built" PROVE DefinedKept
    BY DEF DefinedKept
  <2>1. /\ seq.steps \in Seq(RawStep) /\ step \in Nat /\ step > Len(seq.steps)
    BY ActionsType DEF KeptInv, Inv, Progress
  <2>2. ASSUME NEW n \in DOMAIN seq.steps, NEW k \in DOMAIN Actions(n)
        PROVE  \E i \in DOMAIN schedule : schedule[i] = AsEntry(Actions(n)[k], n, k)
    <3>1. Done(n, k)
      BY <2>1 DEF Done
    <3> QED BY <3>1 DEF KeptInv, Complete, EntryAt
  <2>3. \A i \in DOMAIN schedule : Defined(schedule[i]) =>
              /\ schedule[i].step \in DOMAIN seq.steps
              /\ schedule[i].action \in DOMAIN Actions(schedule[i].step)
    BY DEF KeptInv, InPlace, Placed
  <2> QED BY <2>2, <2>3 DEF KeptInv, InOrder, DefinedKept
<1> QED BY KeptInvariance, <1>1, PTL

-----------------------------------------------------------------------------
(* The steps, one after the other.                                         *)

\* The times of the steps of a valid definition grow, by induction on the later
\* of two steps: the provers take it over a set that has no least element.
LEMMA StepTimesGrow ==
    ASSUME TypeOK, Valid(seq), NEW m \in DOMAIN seq.steps, NEW n \in DOMAIN seq.steps, m < n
    PROVE  seq.steps[m].at < seq.steps[n].at
<1> DEFINE T(i) == seq.steps[i].at
           Bad == {i \in DOMAIN seq.steps : m < i /\ ~(T(m) < T(i))}
<1>1. /\ seq.steps \in Seq(RawStep) /\ DOMAIN seq.steps = 1..Len(seq.steps)
      /\ \A i \in DOMAIN seq.steps : i \in Nat /\ T(i) \in Int
  <2>1. seq.steps \in Seq(RawStep) /\ \A i \in DOMAIN seq.steps : seq.steps[i] \in RawStep
    BY ActionsType
  <2>2. \A i \in DOMAIN seq.steps : T(i) \in Int
    BY <2>1 DEF RawStep
  <2> QED BY <2>1, <2>2
<1>2. \A i \in 1..(Len(seq.steps) - 1) : T(i) < T(i + 1)
  BY DEF Valid, Precedes
<1>3. SUFFICES Bad = {}
  BY <1>3
<1>4. SUFFICES ASSUME Bad # {} PROVE FALSE
  BY <1>4
<1>5. Bad \subseteq Nat
  BY <1>1
<1> HIDE DEF T
<1>6. PICK x \in Bad : \A y \in Bad : ~(<<y, x>> \in OpToRel(<, Nat))
  <2> HIDE DEF Bad
  <2> QED BY <1>4, <1>5, WFMin, NatLessThanWellFounded
<1>7. x \in DOMAIN seq.steps /\ m < x /\ ~(T(m) < T(x)) /\ x \in Nat /\ m \in Nat
  BY <1>1, <1>6
<1>8. x - 1 \in 1..(Len(seq.steps) - 1) /\ x - 1 \in DOMAIN seq.steps /\ (x - 1) + 1 = x
  BY <1>1, <1>7
<1>9. T(x - 1) < T(x)
  BY <1>2, <1>8
<1>10. T(m) <= T(x - 1)
  <2>1. CASE x - 1 = m
    BY <1>1, <1>7, <2>1
  <2>2. CASE x - 1 # m
    <3>1. m < x - 1
      BY <1>7, <2>2
    <3>2. ASSUME x - 1 \in Bad PROVE FALSE
      <4>1. <<x - 1, x>> \in OpToRel(<, Nat)
        <5>1. x - 1 \in Nat /\ x - 1 < x
          BY <1>1, <1>7, <1>8
        <5> QED BY <1>7, <5>1, Zenon DEF OpToRel
      <4> QED BY <1>6, <3>2, <4>1
    <3>3. T(m) < T(x - 1)
      BY <1>8, <3>1, <3>2
    <3> QED BY <1>1, <1>7, <1>8, <3>3
  <2> QED BY <2>1, <2>2
<1> QED BY <1>1, <1>7, <1>8, <1>9, <1>10

\* An action lies between its step and the next.
LEMMA ActionInStep ==
    ASSUME TypeOK, Valid(seq), NEW n \in DOMAIN seq.steps, NEW k \in DOMAIN Actions(n)
    PROVE  /\ Actions(n)[k].at \in Int /\ seq.steps[n].at \in Int
           /\ seq.steps[n].at <= Actions(n)[k].at
           /\ n + 1 \in DOMAIN seq.steps => Actions(n)[k].at < seq.steps[n + 1].at
<1>1. /\ seq.steps \in Seq(RawStep) /\ n \in Nat /\ seq.steps[n] \in RawStep
      /\ Actions(n) \in Seq(TimedAction)
  BY ActionsType
<1>2. Actions(n)[k] \in TimedAction /\ Actions(n)[k] \in Range(TimedActions(seq.steps[n]))
  BY <1>1 DEF Range, Actions
<1>3. seq.steps[n].at <= Actions(n)[k].at
  BY <1>2 DEF Valid, ValidStep, ValidAction
<1>4. ASSUME n + 1 \in DOMAIN seq.steps PROVE Actions(n)[k].at < seq.steps[n + 1].at
  <2>1. n \in 1..(Len(seq.steps) - 1)
    BY <1>1, <1>4
  <2> QED BY <1>2, <2>1 DEF Valid, Precedes
<1> QED BY <1>1, <1>2, <1>3, <1>4 DEF RawStep, TimedAction

\* Whatever of a step is scheduled comes before everything at or after the time
\* of the next one: the runner never performs part of a step in the one after.
THEOREM StepByStep == Spec => []StepsApart
<1>1. KeptInv => StepsApart
  <2> SUFFICES ASSUME KeptInv, NEW i \in DOMAIN schedule, NEW j \in DOMAIN schedule,
                      Defined(schedule[i]), Defined(schedule[j]),
                      NEW n \in 1..(Len(seq.steps) - 1),
                      schedule[i].at < seq.steps[n + 1].at - seq.start,
                      schedule[j].at >= seq.steps[n + 1].at - seq.start
               PROVE  i < j
    BY DEF StepsApart
  <2>1. /\ TypeOK /\ schedule \in Seq(Entry) /\ seq.start \in Int
        /\ i \in Nat /\ j \in Nat
    BY DEF KeptInv, Inv, TypeOK, Definition
  <2>2. Valid(seq)
    <3>1. schedule # <<>>
      BY <2>1
    <3> QED BY <3>1 DEF KeptInv, Progress, Inv, Validated
  <2> DEFINE T(s) == seq.steps[s].at
             a == schedule[i].step
             b == schedule[j].step
             p == schedule[i].action
             q == schedule[j].action
  <2>3. /\ a \in DOMAIN seq.steps /\ p \in DOMAIN Actions(a)
        /\ schedule[i] = EntryAt(a, p)
        /\ b \in DOMAIN seq.steps /\ q \in DOMAIN Actions(b)
        /\ schedule[j] = EntryAt(b, q)
    BY DEF KeptInv, InPlace, Placed
  <2>4. /\ DOMAIN seq.steps = 1..Len(seq.steps) /\ Len(seq.steps) \in Nat
        /\ n + 1 \in DOMAIN seq.steps /\ n \in DOMAIN seq.steps
    BY <2>1, ActionsType
  <2> HIDE DEF a, b, p, q
  <2>5. schedule[i].at = Actions(a)[p].at - seq.start
        /\ schedule[j].at = Actions(b)[q].at - seq.start
    BY <2>3 DEF EntryAt, AsEntry, Shifted
  <2>6. /\ Actions(a)[p].at \in Int /\ T(a) \in Int /\ T(a) <= Actions(a)[p].at
        /\ Actions(b)[q].at \in Int /\ T(b) \in Int /\ T(b) <= Actions(b)[q].at
        /\ b + 1 \in DOMAIN seq.steps => Actions(b)[q].at < T(b + 1)
    BY <2>1, <2>2, <2>3, ActionInStep
  <2>7. T(n + 1) \in Int
    BY <2>1, <2>4, ActionsType DEF RawStep
  <2>8. Actions(a)[p].at < T(n + 1) /\ T(n + 1) <= Actions(b)[q].at
    <3>1. schedule[i].at < T(n + 1) - seq.start /\ schedule[j].at >= T(n + 1) - seq.start
      OBVIOUS
    <3> DEFINE x == Actions(a)[p].at
               y == Actions(b)[q].at
               t == T(n + 1)
    <3>2. x \in Int /\ y \in Int /\ t \in Int /\ seq.start \in Int
          /\ x - seq.start < t - seq.start /\ y - seq.start >= t - seq.start
      BY <2>1, <2>5, <2>6, <2>7, <3>1
    <3> HIDE DEF x, y, t
    <3>3. x < t /\ t <= y
      BY <3>2
    <3> QED BY <3>3 DEF x, y, t
  <2>9. a <= n
    <3>1. ASSUME a > n PROVE FALSE
      <4>1. T(n + 1) <= T(a)
        <5>1. CASE a = n + 1
          BY <2>6, <5>1
        <5>2. CASE a # n + 1
          <6>1. n + 1 < a
            BY <2>3, <2>4, <3>1, <5>2
          <6>2. T(n + 1) < T(a)
            BY <2>1, <2>2, <2>3, <2>4, <6>1, StepTimesGrow
          <6> QED BY <2>6, <2>7, <6>2
        <5> QED BY <5>1, <5>2
      <4> QED BY <2>6, <2>7, <2>8, <4>1
    <3> QED BY <2>3, <2>4, <3>1
  <2>10. b > n
    <3>1. ASSUME b <= n PROVE FALSE
      <4>1. b + 1 \in DOMAIN seq.steps /\ b + 1 <= n + 1
        BY <2>3, <2>4, <3>1
      <4>2. T(b + 1) <= T(n + 1)
        <5>1. CASE b = n
          BY <2>7, <5>1
        <5>2. CASE b # n
          <6>1. b + 1 < n + 1
            BY <2>3, <2>4, <3>1, <5>2
          <6>2. T(b + 1) < T(n + 1)
            BY <2>1, <2>2, <2>4, <4>1, <6>1, StepTimesGrow
          <6>3. T(b + 1) \in Int
            BY <2>1, <4>1, ActionsType DEF RawStep
          <6> QED BY <2>7, <6>2, <6>3
        <5> QED BY <5>1, <5>2
      <4>3. Actions(b)[q].at < T(b + 1) /\ T(b + 1) \in Int
        BY <2>1, <2>6, <4>1, ActionsType DEF RawStep
      <4> QED BY <2>6, <2>7, <2>8, <4>2, <4>3
    <3> QED BY <2>3, <2>4, <3>1
  <2>11. ASSUME j <= i PROVE FALSE
    <3>1. j # i
      BY <2>3, <2>4, <2>9, <2>10 DEF a, b
    <3>2. j < i
      BY <2>1, <2>11, <3>1
    <3>3. Ahead(schedule[j], schedule[i])
      BY <3>2 DEF KeptInv, InOrder
    <3>4. b <= a
      BY <2>3, <2>4, <3>3 DEF Ahead, a, b
    <3> QED BY <2>3, <2>4, <2>9, <2>10, <3>4
  <2> QED BY <2>1, <2>11
<1> QED BY KeptInvariance, <1>1, PTL

-----------------------------------------------------------------------------
(* The values that a parameter takes on its way.                           *)

LEMMA Scaled ==
    ASSUME NEW x \in Int, NEW y \in Int, NEW v \in Int, x < y
    PROVE  (v > 0 => x * v < y * v) /\ (v < 0 => x * v > y * v)
  OBVIOUS

\* A tick that is not the last comes between what it interpolates.
LEMMA TickBetween ==
    ASSUME NEW from \in TimedValue, NEW to \in TimedValue, NEW param \in Params,
           NEW interval \in Nat, NEW count \in Nat, NEW i \in 1..(count - 1),
           interval > 0, count * interval <= to.at - from.at, from.value # to.value
    PROVE  LET e == Tick(from, to, param, interval, i)
           IN  /\ from.at < e.at /\ e.at < to.at
               /\ \/ from.value * e.den < e.num /\ e.num < to.value * e.den
                  \/ from.value * e.den > e.num /\ e.num > to.value * e.den
<1> DEFINE e == Tick(from, to, param, interval, i)
           span == to.at - from.at
           x == i * interval
           v == to.value - from.value
<1>1. /\ from.at \in Int /\ to.at \in Int /\ from.value \in Int /\ to.value \in Int
      /\ span \in Int /\ v \in Int /\ v # 0
  BY DEF TimedValue
<1>2. x \in Int /\ 0 < x /\ x < span
  <2>1. 0 * interval < x /\ x < count * interval /\ x \in Nat
        /\ count * interval \in Int /\ 0 * interval = 0
    BY Multiples
  <2> HIDE DEF x
  <2> QED BY <1>1, <2>1
<1>3. e.at = from.at + x /\ e.den = span /\ e.num = from.value * span + x * v
  BY DEF Tick
<1>4. from.at < e.at /\ e.at < to.at
  <2>1. e.at \in Int /\ e.at = from.at + x /\ to.at = from.at + span
    BY <1>1, <1>2, <1>3
  <2> HIDE DEF e, x, span
  <2> QED BY <1>1, <1>2, <2>1
<1>5. /\ v > 0 => 0 < x * v /\ x * v < span * v
      /\ v < 0 => 0 > x * v /\ x * v > span * v
      /\ x * v \in Int /\ span * v \in Int /\ from.value * span \in Int
  <2>1. /\ v > 0 => 0 * v < x * v /\ x * v < span * v
        /\ v < 0 => 0 * v > x * v /\ x * v > span * v
    <3> HIDE DEF x, v, span
    <3> QED BY <1>1, <1>2, Scaled
  <2>2. 0 * v = 0 /\ x * v \in Int /\ span * v \in Int /\ from.value * span \in Int
    <3> HIDE DEF x, v, span
    <3> QED BY <1>1, <1>2
  <2> HIDE DEF x, v, span
  <2> QED BY <2>1, <2>2
<1>6. to.value * span = from.value * span + span * v
  <2>1. to.value = from.value + v
    BY <1>1
  <2> HIDE DEF span, v
  <2> QED BY <1>1, <2>1
<1> HIDE DEF e, span, x, v
<1>7. v > 0 \/ v < 0
  BY <1>1
<1>8. CASE v > 0
  <2>1. from.value * span < from.value * span + x * v
        /\ from.value * span + x * v < from.value * span + span * v
    BY <1>5, <1>8
  <2> QED BY <1>3, <1>4, <1>6, <2>1 DEF e
<1>9. CASE v < 0
  <2>1. from.value * span > from.value * span + x * v
        /\ from.value * span + x * v > from.value * span + span * v
    BY <1>5, <1>9
  <2> QED BY <1>3, <1>4, <1>6, <2>1 DEF e
<1> QED BY <1>7, <1>8, <1>9

\* How far the ticks that lead to a value are apart, from it and from the
\* value before.
LEMMA TickGaps ==
    ASSUME NEW from \in TimedValue, NEW to \in TimedValue, NEW param \in Params,
           NEW interval \in Nat, NEW count \in Nat, count >= 2,
           count * interval <= to.at - from.at,
           interval > 0 => to.at - from.at < (count + 1) * interval
    PROVE  LET at(i) == Tick(from, to, param, interval, i).at
           IN  /\ at(1) - from.at = interval
               /\ \A i \in 1..(count - 2) : at(i + 1) - at(i) = interval
               /\ to.at - at(count - 1) >= interval
               /\ interval > 0 => to.at - at(count - 1) < 2 * interval
<1> DEFINE at(i) == Tick(from, to, param, interval, i).at
           span == to.at - from.at
<1>1. from.at \in Int /\ to.at \in Int /\ span \in Int
  BY DEF TimedValue
<1>2. \A i : at(i) = from.at + i * interval
  BY DEF Tick
<1>3. at(1) - from.at = interval
  <2>1. 1 * interval = interval
    OBVIOUS
  <2>2. at(1) = from.at + interval
    BY <1>2, <2>1
  <2> HIDE DEF at
  <2> QED BY <1>1, <2>2
<1>4. ASSUME NEW i \in 1..(count - 2) PROVE at(i + 1) - at(i) = interval
  <2> DEFINE x == i * interval
  <2>1. x \in Int /\ (i + 1) * interval = x + interval
    OBVIOUS
  <2>2. at(i) = from.at + x /\ at(i + 1) = from.at + (x + interval)
    BY <1>2, <2>1
  <2> HIDE DEF at, x
  <2> QED BY <1>1, <2>1, <2>2
<1>5. /\ to.at - at(count - 1) >= interval
      /\ interval > 0 => to.at - at(count - 1) < 2 * interval
  <2> DEFINE x == (count - 1) * interval
  <2>1. x \in Int /\ count * interval = x + interval
        /\ (count + 1) * interval = x + 2 * interval
    OBVIOUS
  <2>2. at(count - 1) = from.at + x
    BY <1>2
  <2>3. x + interval <= span /\ (interval > 0 => span < x + 2 * interval)
    BY <2>1
  <2>4. to.at = from.at + span
    BY <1>1
  <2> HIDE DEF at, x, span
  <2> QED BY <1>1, <2>1, <2>2, <2>3, <2>4
<1> QED BY <1>3, <1>4, <1>5

\* The last entry of a parameter is the value remembered of it, and what the
\* interpolation added is of parameters that interpolate.
LastOf(c, p) ==
    /\ schedule[c].param = p
    /\ \A k \in DOMAIN schedule : schedule[k].param = p => k <= c
LastScheduled ==
    \A p \in seq.linear :
        IF last[p].known
        THEN \E c \in DOMAIN schedule :
                /\ LastOf(c, p) /\ Defined(schedule[c])
                /\ schedule[c].at = last[p].at
                /\ schedule[c].num = last[p].value /\ schedule[c].den = 1
        ELSE \A c \in DOMAIN schedule : schedule[c].param # p
OnlyLinear ==
    \A j \in DOMAIN schedule : ~Defined(schedule[j]) => schedule[j].param \in seq.linear

WayInv == Inv /\ OnlyLinear /\ LastScheduled /\ OnTheWay /\ TimestampsPaced

\* What OnTheWay says of an interpolated value and its neighbours.
Between(s, c, j, e) ==
    /\ Defined(s[c]) /\ Defined(s[e]) /\ s[c].param = s[j].param /\ s[e].param = s[j].param
    /\ \A k \in (c + 1)..(e - 1) : s[k].param = s[j].param => ~Defined(s[k])
    /\ s[c].at < s[j].at /\ s[j].at < s[e].at
    /\ \/ s[c].num * s[j].den < s[j].num /\ s[j].num < s[e].num * s[j].den
       \/ s[c].num * s[j].den > s[j].num /\ s[j].num > s[e].num * s[j].den

LEMMA WayAsBetween ==
    OnTheWay <=> \A j \in DOMAIN schedule : ~Defined(schedule[j]) /\ seq.interval > 0 =>
        \E c \in 1..(j - 1), e \in (j + 1)..Len(schedule) : Between(schedule, c, j, e)
  BY DEF OnTheWay, Between, SameParam

LEMMA WayInit == Init => WayInv
<1> SUFFICES ASSUME Init PROVE WayInv
  OBVIOUS
<1>1. Inv
  BY Initially
<1>2. schedule = <<>> /\ \A p \in Params : ~last[p].known
  BY DEF Init, Nothing
<1>3. seq.linear \subseteq Params
  BY <1>1 DEF Inv, TypeOK, Definition
<1> QED BY <1>1, <1>2, <1>3 DEF WayInv, OnlyLinear, LastScheduled, OnTheWay, TimestampsPaced

\* To the n entries of the schedule an action adds m ticks t and itself.
Added(a, t, n, m) ==
    /\ a \in TimedAction /\ seq.linear \subseteq Params /\ seq' = seq
    /\ n \in Nat /\ m \in Nat /\ t \in Seq(Entry)
    /\ schedule \in Seq(Entry) /\ schedule' \in Seq(Entry)
    /\ DOMAIN schedule = 1..n /\ DOMAIN schedule' = 1..(n + m + 1)
    /\ Len(schedule') = n + m + 1
    /\ \A i \in 1..n : schedule'[i] = schedule[i]
    /\ \A i \in (n + 1)..(n + m) :
          i - n \in 1..m /\ schedule'[i] = t[i - n] /\ ~Defined(schedule'[i])
    /\ \A i \in (n + 1)..(n + m + 1) : schedule'[i].param = a.param
    /\ m > 0 => a.param \in seq.linear
    /\ schedule'[n + m + 1].at = Shifted(a)
    /\ schedule'[n + m + 1].num = a.value /\ schedule'[n + m + 1].den = 1
    /\ Defined(schedule'[n + m + 1])
    /\ last' = IF a.param \in seq.linear
               THEN [last EXCEPT ![a.param] = Remembered(a)] ELSE last

\* The entries that an action adds.
LEMMA NewEntries ==
    ASSUME Inv, PushAction, NEW a, a = StepActions[action],
           NEW t, t = TicksBefore(a), NEW n, n = Len(schedule), NEW m, m = Len(t)
    PROVE  Added(a, t, n, m)
<1>1. /\ a \in TimedAction /\ seq.linear \subseteq Params
      /\ t \in Seq(Entry) /\ schedule \in Seq(Entry) /\ schedule' \in Seq(Entry)
      /\ Len(schedule') = n + m + 1
      /\ \A i \in 1..n : schedule'[i] = schedule[i]
      /\ \A i \in 1..m : schedule'[n + i] = t[i]
      /\ schedule'[n + m + 1] = AsEntry(a, step, action)
      /\ last' = IF a.param \in seq.linear
                 THEN [last EXCEPT ![a.param] = Remembered(a)] ELSE last
  BY Pushed
<1>2. seq' = seq
  BY DEF PushAction
<1>3. n \in Nat /\ m \in Nat /\ DOMAIN schedule = 1..n /\ DOMAIN schedule' = 1..(n + m + 1)
  BY <1>1
<1>4. \A i \in 1..m : ~Defined(t[i]) /\ t[i].param = a.param /\ a.param \in seq.linear
  BY TicksUndefined
<1>5. ASSUME NEW i \in (n + 1)..(n + m)
      PROVE  i - n \in 1..m /\ schedule'[i] = t[i - n] /\ ~Defined(schedule'[i])
             /\ schedule'[i].param = a.param
  <2>1. i - n \in 1..m /\ n + (i - n) = i
    BY <1>3
  <2>2. schedule'[i] = t[i - n]
    BY <1>1, <2>1
  <2> QED BY <1>4, <2>1, <2>2
<1>6. m > 0 => a.param \in seq.linear
  <2>1. m > 0 => 1 \in 1..m
    BY <1>3
  <2> QED BY <1>4, <2>1
<1>7. /\ schedule'[n + m + 1].at = Shifted(a) /\ schedule'[n + m + 1].param = a.param
      /\ schedule'[n + m + 1].num = a.value /\ schedule'[n + m + 1].den = 1
      /\ Defined(schedule'[n + m + 1])
  <2>1. step # 0
    BY ActionsType DEF PushAction, Building, Inv, TypeOK
  <2> QED BY <1>1, <2>1 DEF AsEntry, Defined
<1>8. \A i \in (n + 1)..(n + m + 1) : schedule'[i].param = a.param
  <2> TAKE i \in (n + 1)..(n + m + 1)
  <2>1. i = n + m + 1 \/ i \in (n + 1)..(n + m)
    BY <1>3
  <2> QED BY <1>5, <1>7, <2>1
<1> QED BY <1>1, <1>2, <1>3, <1>5, <1>6, <1>7, <1>8 DEF Added

\* The sequence t leads from one value to another, an interval at a time.
Leads(t, from, to, d) ==
    LET m == Len(t)
    IN  /\ t[1].at - from.at = d
        /\ \A i \in 1..(m - 1) : t[i + 1].at - t[i].at = d
        /\ to.at - t[m].at >= d
        /\ d > 0 => to.at - t[m].at < 2 * d
        /\ d > 0 => \A i \in 1..m :
              /\ from.at < t[i].at /\ t[i].at < to.at
              /\ \/ from.value * t[i].den < t[i].num /\ t[i].num < to.value * t[i].den
                 \/ from.value * t[i].den > t[i].num /\ t[i].num > to.value * t[i].den

\* All that an interpolation adds, between the two values.
LEMMA InnerFacts ==
    ASSUME NEW from \in TimedValue, NEW to \in TimedValue, NEW param \in Params,
           NEW d \in Nat, NEW t, t = Inner(InterpolateLinear(from, to, param, d)),
           t # <<>>
    PROVE  Leads(t, from, to, d)
<1> DEFINE s == Inner(InterpolateLinear(from, to, param, d))
           R == [at : Int, param : Params, num : Int, den : Int, step : {0}, action : {0}]
           at(i) == Tick(from, to, param, d, i).at
           m == Len(t)
<1>1. s # <<>>
  OBVIOUS
<1>2. PICK count \in Nat :
         /\ count >= 2 /\ DOMAIN s = 1..(count - 1) /\ s \in Seq(R)
         /\ from.value # to.value
         /\ count * d <= to.at - from.at
         /\ d > 0 => to.at - from.at < (count + 1) * d
         /\ \A i \in 1..(count - 1) : s[i] = Tick(from, to, param, d, i)
  BY <1>1, InnerShape
<1> HIDE DEF s, R
<1>3. t = s
  BY DEF s
<1>4. m = count - 1 /\ \A i \in 1..m : t[i] = Tick(from, to, param, d, i)
  BY <1>2, <1>3
<1>5. /\ count >= 2 /\ from.value # to.value /\ count * d <= to.at - from.at
      /\ d > 0 => to.at - from.at < (count + 1) * d
  BY <1>2
<1>6. /\ at(1) - from.at = d
      /\ \A i \in 1..(count - 2) : at(i + 1) - at(i) = d
      /\ to.at - at(count - 1) >= d
      /\ d > 0 => to.at - at(count - 1) < 2 * d
  BY <1>5, TickGaps
<1>7. \A i \in 1..m : t[i].at = at(i)
  BY <1>4
<1>8. ASSUME d > 0, NEW i \in 1..m
      PROVE  /\ from.at < t[i].at /\ t[i].at < to.at
             /\ \/ from.value * t[i].den < t[i].num /\ t[i].num < to.value * t[i].den
                \/ from.value * t[i].den > t[i].num /\ t[i].num > to.value * t[i].den
  <2>1. t[i] = Tick(from, to, param, d, i) /\ i \in 1..(count - 1)
    BY <1>4
  <2> QED BY <1>5, <1>8, <2>1, TickBetween
<1> HIDE DEF at, m
<1>9. 1 \in 1..m /\ m \in 1..m /\ m = count - 1
       /\ \A i \in 1..(m - 1) : i \in 1..(count - 2) /\ i \in 1..m /\ i + 1 \in 1..m
  BY <1>4, <1>5
<1>10. /\ t[1].at - from.at = d /\ \A i \in 1..(m - 1) : t[i + 1].at - t[i].at = d
       /\ to.at - t[m].at >= d /\ (d > 0 => to.at - t[m].at < 2 * d)
  BY <1>6, <1>7, <1>9
<1> QED BY <1>8, <1>10 DEF Leads, m

\* The ticks of an action, between the value remembered and its own.
LEMMA NewTicks ==
    ASSUME Inv, PushAction, NEW a, a = StepActions[action],
           NEW t, t = TicksBefore(a), t # <<>>,
           NEW from, from = last[a.param], NEW to, to = Remembered(a),
           NEW d, d = seq.interval
    PROVE  /\ from.known /\ from \in TimedValue /\ to \in TimedValue /\ d \in Nat
           /\ Leads(t, from, to, d)
<1> DEFINE p == a.param
<1>1. a \in TimedAction /\ p \in seq.linear /\ p \in Params
  <2>1. a \in TimedAction /\ seq.linear \subseteq Params
    BY Pushed
  <2>2. p \in seq.linear
    BY DEF TicksBefore
  <2> QED BY <2>1, <2>2
<1>2. from.known /\ t = Inner(InterpolateLinear(from, to, p, d))
  BY <1>1 DEF TicksBefore, TicksTo
<1>3. from \in TimedValue /\ d \in Nat /\ seq.start \in Int
  BY <1>1 DEF Inv, TypeOK, Definition
<1>4. to \in TimedValue
  BY <1>1, <1>3 DEF Remembered, TimedValue, TimedAction, Shifted
<1> QED BY <1>1, <1>2, <1>3, <1>4, InnerFacts

LEMMA Elements ==
    ASSUME NEW S, NEW s \in Seq(S) PROVE \A i \in DOMAIN s : s[i] \in S
  OBVIOUS

LEMMA WayPush ==
    ASSUME WayInv, PushAction PROVE (OnlyLinear /\ LastScheduled /\ OnTheWay /\ TimestampsPaced)'
<1> DEFINE a == StepActions[action]
           t == TicksBefore(a)
           n == Len(schedule)
           m == Len(t)
           p == a.param
           from == last[p]
           to == Remembered(a)
           d == seq.interval
           new == schedule'
           final == n + m + 1
<1>1. Inv
  BY DEF WayInv
<1> HIDE DEF a, t, n, m
<1>2. Added(a, t, n, m)
  BY <1>1, NewEntries DEF a, t, n, m
<1>3. m > 0 => from.known /\ Leads(t, from, to, d)
  <2>1. m > 0 => t # <<>>
    BY DEF m
  <2> QED BY <1>1, <2>1, NewTicks DEF a, t
<1>4. /\ n \in Nat /\ m \in Nat /\ DOMAIN schedule = 1..n /\ seq' = seq
      /\ seq.linear \subseteq Params /\ (m > 0 => p \in seq.linear)
      /\ new \in Seq(Entry) /\ DOMAIN new = 1..final
  BY <1>2 DEF Added
<1>5. /\ final \in DOMAIN new /\ final > n /\ final \in Nat
      /\ \A i \in DOMAIN new : i <= final
      /\ \A i \in DOMAIN new : i \in DOMAIN schedule \/ i \in (n + 1)..(n + m) \/ i = final
      /\ \A i \in DOMAIN schedule : i \in DOMAIN new /\ i <= n
  BY <1>4
<1>6. /\ d \in Nat /\ last \in [Params -> TimedValue]
  BY <1>1 DEF Inv, TypeOK, Definition
<1>7. last' = IF p \in seq.linear THEN [last EXCEPT ![p] = to] ELSE last
  BY <1>2 DEF Added
<1>8. \A i \in DOMAIN schedule : new[i] = schedule[i]
  BY <1>2 DEF Added
<1>9. \A i \in (n + 1)..(n + m) : i - n \in 1..m /\ new[i] = t[i - n] /\ ~Defined(new[i])
  BY <1>2 DEF Added
<1>10. \A i \in DOMAIN new : i \notin DOMAIN schedule => new[i].param = p
  <2>1. \A i \in (n + 1)..final : new[i].param = p
    BY <1>2 DEF Added
  <2>2. \A i \in DOMAIN new : i \notin DOMAIN schedule => i \in (n + 1)..final
    BY <1>4
  <2> QED BY <2>1, <2>2
<1>11. \A i \in DOMAIN new : new[i] \in Entry /\ new[i].at \in Int
  <2> HIDE DEF new, final
  <2>1. \A i \in DOMAIN new : new[i] \in Entry
    BY <1>4, Elements
  <2> QED BY <2>1 DEF Entry
<1>12. /\ to.at = new[final].at /\ to.value = new[final].num /\ to.known
       /\ new[final].den = 1 /\ Defined(new[final])
  BY <1>2 DEF Added, Remembered
<1> HIDE DEF p, from, to, new, final
\* Where the interpolation starts: the last entry of the parameter.
<1>13. ASSUME p \in seq.linear, from.known
       PROVE  \E c \in DOMAIN schedule :
                 /\ LastOf(c, p) /\ Defined(schedule[c])
                 /\ schedule[c].at = from.at
                 /\ schedule[c].num = from.value /\ schedule[c].den = 1
  BY <1>13 DEF WayInv, LastScheduled, from
<1>14. OnlyLinear'
  <2>1. ASSUME NEW j \in DOMAIN new, ~Defined(new[j]) PROVE new[j].param \in seq.linear
    <3>1. CASE j \in DOMAIN schedule
      BY <1>8, <2>1, <3>1 DEF WayInv, OnlyLinear, Defined
    <3>2. CASE j \notin DOMAIN schedule
      <4>1. j \in (n + 1)..(n + m)
        BY <1>12, <1>5, <2>1, <3>2
      <4>2. m > 0
        BY <1>4, <4>1
      <4> QED BY <1>10, <1>4, <3>2, <4>2
    <3> QED BY <3>1, <3>2
  <2> QED BY <1>4, <2>1 DEF OnlyLinear, Defined, new
<1>15. LastScheduled'
  <2>1. ASSUME NEW q \in seq.linear
        PROVE  IF last'[q].known
               THEN \E c \in DOMAIN new :
                       /\ new[c].param = q
                       /\ \A k \in DOMAIN new : new[k].param = q => k <= c
                       /\ Defined(new[c]) /\ new[c].at = last'[q].at
                       /\ new[c].num = last'[q].value /\ new[c].den = 1
               ELSE \A c \in DOMAIN new : new[c].param # q
    <3>1. CASE q = p
      <4>1. last'[q] = to
        BY <1>6, <1>7, <1>4, <2>1, <3>1
      <4>2. new[final].param = q
        BY <1>5, <1>10, <1>4, <3>1
      <4> QED BY <1>12, <1>5, <4>1, <4>2
    <3>2. CASE q # p
      <4>1. last'[q] = last[q]
        BY <1>6, <1>7, <1>4, <3>2
      <4>2. \A k \in DOMAIN new : new[k].param = q => k \in DOMAIN schedule
        BY <1>10, <3>2
      <4>3. CASE last[q].known
        <5>1. PICK c \in DOMAIN schedule :
                 /\ LastOf(c, q) /\ Defined(schedule[c])
                 /\ schedule[c].at = last[q].at
                 /\ schedule[c].num = last[q].value /\ schedule[c].den = 1
          BY <2>1, <4>3 DEF WayInv, LastScheduled
        <5>2. c \in DOMAIN new /\ new[c] = schedule[c]
          BY <1>5, <1>8
        <5>3. \A k \in DOMAIN new : new[k].param = q => k <= c
          BY <1>8, <4>2, <5>1 DEF LastOf
        <5> QED BY <4>1, <4>3, <5>1, <5>2, <5>3 DEF LastOf
      <4>4. CASE ~last[q].known
        <5>1. \A c \in DOMAIN schedule : schedule[c].param # q
          BY <2>1, <4>4 DEF WayInv, LastScheduled
        <5> QED BY <1>8, <4>1, <4>2, <4>4, <5>1
      <4> QED BY <4>3, <4>4
    <3> QED BY <3>1, <3>2
  <2> QED BY <1>4, <2>1 DEF LastScheduled, LastOf, Defined, new
<1>16. OnTheWay'
  <2>1. ASSUME NEW j \in DOMAIN new, ~Defined(new[j]), d > 0
        PROVE  \E c \in 1..(j - 1), e \in (j + 1)..Len(new) : Between(new, c, j, e)
    <3>1. Len(new) = final
      BY <1>4, <1>5
    <3>2. CASE j \in DOMAIN schedule
      <4>1. ~Defined(schedule[j])
        BY <1>8, <2>1, <3>2
      <4>2. PICK c \in 1..(j - 1), e \in (j + 1)..Len(schedule) : Between(schedule, c, j, e)
        BY <2>1, <3>2, <4>1, WayAsBetween DEF WayInv
      <4>3. /\ c \in DOMAIN schedule /\ e \in DOMAIN schedule /\ e \in (j + 1)..Len(new)
            /\ \A k \in (c + 1)..(e - 1) : k \in DOMAIN schedule
        BY <1>4, <1>5, <3>1, <3>2, <4>2 DEF n
      <4>4. Between(new, c, j, e)
        BY <1>8, <3>2, <4>2, <4>3 DEF Between
      <4> QED BY <4>2, <4>3, <4>4
    <3>3. CASE j \notin DOMAIN schedule
      <4>1. /\ j \in (n + 1)..(n + m) /\ j - n \in 1..m /\ new[j] = t[j - n] /\ m > 0
            /\ new[j].param = p
        BY <1>4, <1>5, <1>9, <1>10, <1>12, <2>1, <3>3
      <4>2. PICK c \in DOMAIN schedule :
               /\ LastOf(c, p) /\ Defined(schedule[c])
               /\ schedule[c].at = from.at
               /\ schedule[c].num = from.value /\ schedule[c].den = 1
        BY <1>3, <1>4, <1>13, <4>1
      <4>3. /\ from.at < new[j].at /\ new[j].at < to.at
            /\ \/ from.value * new[j].den < new[j].num /\ new[j].num < to.value * new[j].den
               \/ from.value * new[j].den > new[j].num /\ new[j].num > to.value * new[j].den
        BY <1>3, <2>1, <4>1 DEF Leads, m
      <4>4. /\ c \in 1..(j - 1) /\ final \in (j + 1)..Len(new) /\ c \in DOMAIN new
            /\ \A k \in (c + 1)..(final - 1) : k \in DOMAIN new /\ k > c /\ k # final
        BY <1>4, <1>5, <3>1, <4>1 DEF final
      <4>5. new[c] = schedule[c] /\ new[c].param = p /\ new[final].param = p
        BY <1>4, <1>5, <1>8, <1>10, <4>2 DEF LastOf
      <4>6. ASSUME NEW k \in (c + 1)..(final - 1), new[k].param = p PROVE ~Defined(new[k])
        <5>1. k \notin DOMAIN schedule
          BY <1>4, <1>8, <4>2, <4>4, <4>6 DEF LastOf
        <5> QED BY <1>5, <1>9, <4>4, <5>1
      <4>7. Between(new, c, j, final)
        BY <1>12, <4>1, <4>2, <4>3, <4>5, <4>6 DEF Between
      <4> QED BY <4>4, <4>7
    <3> QED BY <3>2, <3>3
  <2> QED BY <1>4, <2>1 DEF OnTheWay, SameParam, Between, Defined, new
<1>17. TimestampsPaced'
  <2> DEFINE Gap(i, j) == new[j].at - new[i].at
             Fits(x, e) == IF Defined(e) THEN x >= d /\ (d > 0 => x < 2 * d) ELSE x = d
  <2>1. \A i, j \in DOMAIN schedule :
           Successive(i, j) /\ ~(Defined(schedule[i]) /\ Defined(schedule[j])) => Fits(Gap(i, j), schedule[j])
    BY <1>8 DEF WayInv, TimestampsPaced
  <2>2. d >= d /\ (d > 0 => d < 2 * d)
    BY <1>6
  <2> HIDE DEF Fits
  <2>3. \A e : Fits(d, e)
    BY <2>2 DEF Fits
  <2>4. ASSUME NEW i \in DOMAIN new, NEW j \in DOMAIN new, i < j, new[i].param = new[j].param,
               \A k \in (i + 1)..(j - 1) : new[i].param # new[k].param,
               ~(Defined(new[i]) /\ Defined(new[j]))
        PROVE  Fits(Gap(i, j), new[j])
    <3>1. i \in Nat /\ j \in Nat
      BY <1>4
    <3>2. CASE j \in DOMAIN schedule
      <4>1. i \in DOMAIN schedule /\ \A k \in (i + 1)..(j - 1) : k \in DOMAIN schedule
        BY <1>4, <2>4, <3>1, <3>2
      <4>2. Successive(i, j) /\ ~(Defined(schedule[i]) /\ Defined(schedule[j]))
        BY <1>8, <2>4, <3>2, <4>1 DEF Successive, SameParam
      <4>3. new[i] = schedule[i] /\ new[j] = schedule[j]
        BY <1>8, <3>2, <4>1
      <4>4. Fits(Gap(i, j), schedule[j])
        BY <2>1, <3>2, <4>1, <4>2
      <4> QED BY <4>3, <4>4
    <3>3. CASE j \notin DOMAIN schedule /\ i \in DOMAIN schedule
      <4>1. new[j].param = p /\ schedule[i].param = p /\ j > n /\ i <= n
        BY <1>4, <1>5, <1>8, <1>10, <2>4, <3>1, <3>3
      <4>2. j = n + 1
        <5>1. ASSUME j # n + 1 PROVE FALSE
          <6>1. n + 1 \in (i + 1)..(j - 1) /\ n + 1 \in DOMAIN new /\ n + 1 \notin DOMAIN schedule
            BY <1>4, <1>5, <3>1, <4>1, <5>1 DEF final
          <6> QED BY <1>10, <2>4, <4>1, <6>1
        <5> QED BY <5>1
      <4>3. p \in seq.linear
        <5>1. CASE m > 0
          BY <1>4, <5>1
        <5>2. CASE m = 0
          <6>1. j = final
            BY <1>4, <4>2, <5>2 DEF final
          <6>2. ~Defined(schedule[i])
            BY <1>8, <1>12, <2>4, <3>3, <6>1
          <6> QED BY <3>3, <4>1, <6>2 DEF WayInv, OnlyLinear
        <5> QED BY <1>4, <5>1, <5>2
      <4>4. from.known
        BY <3>3, <4>1, <4>3 DEF WayInv, LastScheduled, from
      <4>5. PICK c \in DOMAIN schedule :
               /\ LastOf(c, p) /\ Defined(schedule[c]) /\ schedule[c].at = from.at
        BY <1>13, <4>3, <4>4
      <4>6. i = c
        <5>1. i <= c /\ schedule[c].param = p /\ c <= n /\ c \in Nat
          BY <1>4, <1>5, <3>3, <4>1, <4>5 DEF LastOf
        <5>2. ASSUME i < c PROVE FALSE
          <6>1. c \in (i + 1)..(j - 1)
            BY <1>4, <3>1, <4>2, <5>1, <5>2
          <6> QED BY <1>8, <2>4, <4>1, <4>5, <5>1, <6>1
        <5> QED BY <3>1, <5>1, <5>2
      <4>7. Defined(new[i]) /\ new[i].at = from.at
        BY <1>8, <4>5, <4>6
      <4>8. m > 0
        <5>1. CASE m = 0
          BY <1>4, <1>12, <2>4, <4>2, <4>7, <5>1 DEF final
        <5> QED BY <1>4, <5>1
      <4>9. new[j] = t[1]
        <5>1. j \in (n + 1)..(n + m) /\ j - n = 1
          BY <1>4, <4>2, <4>8
        <5> QED BY <1>9, <5>1
      <4>10. Gap(i, j) = d
        BY <1>3, <4>7, <4>8, <4>9 DEF Leads
      <4> QED BY <2>3, <4>10
    <3>4. CASE i \notin DOMAIN schedule
      <4>1. i > n /\ j > n /\ j \notin DOMAIN schedule
        BY <1>4, <2>4, <3>1, <3>4
      <4>2. j = i + 1
        <5>1. ASSUME j # i + 1 PROVE FALSE
          <6>1. i + 1 \in (i + 1)..(j - 1) /\ i + 1 \in DOMAIN new /\ i + 1 \notin DOMAIN schedule
            BY <1>4, <1>5, <2>4, <3>1, <4>1, <5>1
          <6> QED BY <1>10, <2>4, <3>4, <6>1
        <5> QED BY <5>1
      <4>3. i \in (n + 1)..(n + m) /\ i - n \in 1..m /\ new[i] = t[i - n] /\ m > 0
        <5>1. i \in (n + 1)..(n + m)
          BY <1>4, <1>5, <3>1, <4>1, <4>2 DEF final
        <5> QED BY <1>4, <1>9, <5>1
      <4>4. Leads(t, from, to, d)
        BY <1>3, <4>3
      <4>5. CASE j = final
        <5>1. i - n = m
          BY <1>4, <3>1, <4>2, <4>5 DEF final
        <5>2. new[j].at = to.at
          BY <1>12, <4>5
        <5>3. to.at - t[m].at >= d /\ (d > 0 => to.at - t[m].at < 2 * d)
          BY <4>4 DEF Leads, m
        <5>4. Gap(i, j) = to.at - t[m].at
          BY <4>3, <5>1, <5>2
        <5>5. Fits(to.at - t[m].at, new[j])
          BY <1>12, <4>5, <5>3 DEF Fits
        <5> QED BY <5>4, <5>5
      <4>6. CASE j # final
        <5>1. /\ i - n \in 1..(m - 1) /\ j \in (n + 1)..(n + m) /\ j - n = (i - n) + 1
          BY <1>4, <1>5, <3>1, <4>1, <4>2, <4>3, <4>6 DEF final
        <5>2. new[j] = t[(i - n) + 1]
          BY <1>9, <5>1
        <5>3. t[(i - n) + 1].at - t[i - n].at = d
          BY <4>4, <5>1 DEF Leads, m
        <5>4. Gap(i, j) = d
          BY <4>3, <5>2, <5>3
        <5> QED BY <2>3, <5>4
      <4> QED BY <4>5, <4>6
    <3> QED BY <3>2, <3>3, <3>4
  <2>5. \A i, j \in DOMAIN new :
           (Successive(i, j) /\ ~(Defined(schedule[i]) /\ Defined(schedule[j])))' => Fits(Gap(i, j), new[j])
    BY <2>4 DEF Successive, SameParam, Defined, new
  <2> QED BY <1>4, <2>5 DEF TimestampsPaced, Fits, new
<1> QED BY <1>14, <1>15, <1>16, <1>17

LEMMA WayStep == WayInv /\ [Next]_vars => WayInv'
<1> SUFFICES ASSUME WayInv, [Next]_vars PROVE WayInv'
  OBVIOUS
<1>1. Inv'
  BY Inductive DEF WayInv
<1>2. CASE PushAction
  BY <1>1, <1>2, WayPush DEF WayInv
<1>3. CASE Load \/ NextStep \/ Finish \/ UNCHANGED vars
  <2>1. UNCHANGED <<seq, last, schedule>>
    BY <1>3 DEF Load, NextStep, Finish, vars
  <2>2. OnlyLinear' /\ LastScheduled'
    BY <2>1 DEF WayInv, OnlyLinear, LastScheduled, LastOf, Defined
  <2>3. OnTheWay'
    BY <2>1 DEF WayInv, OnTheWay, SameParam, Defined
  <2>4. TimestampsPaced'
    BY <2>1 DEF WayInv, TimestampsPaced, Successive, SameParam, Defined
  <2> QED BY <1>1, <2>2, <2>3, <2>4 DEF WayInv
<1> QED BY <1>2, <1>3 DEF Next

THEOREM WayInvariance == Spec => []WayInv
  BY WayInit, WayStep, PTL DEF Spec

\* For every interval and every two values, what the interpolation adds lies
\* strictly between them, in time and in value: a valve never overshoots, and
\* nothing is interpolated to a value that the definition does not hold.
THEOREM NeverBeyond == Spec => []OnTheWay
<1>1. WayInv => OnTheWay
  BY DEF WayInv
<1> QED BY WayInvariance, <1>1, PTL

\* For every definition and interval: the timestamps of the values on their way
\* to a defined one lie an interval apart, and its own one or less than two
\* behind them.  That is the schedule, and not when its entries are sent.
THEOREM TimestampsAtPace == Spec => []TimestampsPaced
<1>1. WayInv => TimestampsPaced
  BY DEF WayInv
<1> QED BY WayInvariance, <1>1, PTL

=============================================================================
