-------------------------- MODULE SequenceSchedule --------------------------
(***************************************************************************)
(* From a sequence definition to the schedule the runner executes:         *)
(* Sequence::validate (src/src/sequence/sequence_validation.rs) and        *)
(* flatten_and_interpolate (sequence_builder.rs), on definitions as        *)
(* sequence_definition.rs deserializes them.                               *)
(*                                                                         *)
(* Times are counted in ticks and values are exact rationals num / den;    *)
(* the rounding of f64 is left out.  One step of the model is one          *)
(* iteration of the loop over the flattened actions.                       *)
(***************************************************************************)
EXTENDS Integers, SequencesExt

CONSTANTS
    Params,     \* parameter names
    Sequences,  \* the definitions that deserialize
    MaxTicks    \* bound: usize::MAX, at which a tick count saturates

\* A step holds, or sets parameters at times relative to its own.  A hold is
\* always, on some conditions, or on an empty list of them.
RawSet == [rel : Int, param : Params, value : Int]
RawStep == [at : Int, hold : {"none", "always", "conditional", "unconditional"},
            sets : Seq(RawSet)]
Definition == [start : Int, end : Int, interval : Nat, linear : SUBSET Params,
               steps : Seq(RawStep)]

ASSUME DefinitionAssumption ==
    /\ "hold" \notin Params
    /\ Sequences \subseteq Definition
    /\ MaxTicks \in Nat

VARIABLES
    seq,       \* the definition
    phase,     \* what has been done with it
    step,      \* the step and
    action,    \*   the action in it that flatten_and_interpolate comes to next
    last,      \* last_param_states
    schedule   \* final_actions

vars == <<seq, phase, step, action, last, schedule>>

Nothing == [at |-> 0, value |-> 0, known |-> FALSE]
TimedValue == [at : Int, value : Int, known : BOOLEAN]
\* A hold is an entry of the parameter "hold".  History, `step' and `action':
\* the place in the definition of what the entry does, 0 if the interpolation
\* added it.
Entry == [at : Int, param : Params \cup {"hold"}, num : Int, den : Nat \ {0},
          step : Nat, action : Nat]
Defined(e) == e.step # 0

TypeOK ==
    /\ seq \in Definition
    /\ phase \in {"loading", "rejected", "building", "built"}
    /\ step \in 1..(Len(seq.steps) + 1)
    /\ action \in Nat \ {0}
    /\ last \in [Params -> TimedValue]
    /\ schedule \in Seq(Entry)

-----------------------------------------------------------------------------
(* sequence_definition.rs: the timed actions of a step.                    *)

TimedActions(s) ==
    IF s.hold # "none"
    THEN <<[at |-> s.at, param |-> "hold", value |-> 0]>>
    ELSE [i \in DOMAIN s.sets |->
            [at |-> s.at + s.sets[i].rel, param |-> s.sets[i].param, value |-> s.sets[i].value]]

-----------------------------------------------------------------------------
(* sequence_validation.rs.                                                 *)

ValidAction(def, s, a) ==
    /\ a.at >= s.at
    /\ a.at <= def.end
    /\ s.hold # "unconditional"

\* Mutants: the start of the sequence, or the next step, is not looked at.
ValidStepUnbounded(def, s) ==
    /\ s.at <= def.end
    /\ TimedActions(s) # <<>>
    /\ \A a \in Range(TimedActions(s)) : ValidAction(def, s, a)
ValidStep(def, s) ==
    /\ s.at >= def.start
    /\ s.at <= def.end
    /\ TimedActions(s) # <<>>
    /\ \A a \in Range(TimedActions(s)) : ValidAction(def, s, a)

PrecedesInStart(s, next) == s.at < next.at
Precedes(s, next) ==
    /\ s.at < next.at
    /\ \A a \in Range(TimedActions(s)) : a.at < next.at

Valid(def) ==
    /\ def.start <= 0
    /\ def.start <= def.end
    /\ def.steps # <<>>
    /\ \A i \in DOMAIN def.steps : ValidStep(def, def.steps[i])
    /\ \A i \in 1..(Len(def.steps) - 1) : Precedes(def.steps[i], def.steps[i + 1])

-----------------------------------------------------------------------------
(* interpolate_linear.                                                     *)

\* (timespan / interval).floor() as usize: an infinity saturates, NaN is 0.
TickCount(timespan, interval) ==
    IF interval > 0 THEN timespan \div interval
    ELSE IF timespan > 0 THEN MaxTicks ELSE 0

Tick(from, to, param, interval, k) ==
    LET timespan == to.at - from.at
    IN  [at |-> from.at + k * interval, param |-> param,
         num |-> from.value * timespan + k * interval * (to.value - from.value),
         den |-> timespan, step |-> 0, action |-> 0]

\* From `from' on, the last one at or before `to'; empty where it returns None.
\* Mutant: the loop ends before tick_count.
InterpolateLinearExclusive(from, to, param, interval) ==
    IF from.value = to.value \/ 2 * interval > to.at - from.at
    THEN <<>>
    ELSE [i \in 1..TickCount(to.at - from.at, interval) |->
            Tick(from, to, param, interval, i - 1)]
InterpolateLinear(from, to, param, interval) ==
    IF from.value = to.value \/ 2 * interval > to.at - from.at
    THEN <<>>
    ELSE [i \in 1..(TickCount(to.at - from.at, interval) + 1) |->
            Tick(from, to, param, interval, i - 1)]

\* pop_front and pop_back.
Inner(ticks) == SubSeq(ticks, 2, Len(ticks) - 1)

-----------------------------------------------------------------------------
(* flatten_and_interpolate.                                                *)

Init ==
    /\ seq \in Sequences
    /\ phase = "loading"
    /\ step = 1
    /\ action = 1
    /\ last = [p \in Params |-> Nothing]
    /\ schedule = <<>>

\* load_from_path: a definition that does not validate is not handed out.
Load ==
    /\ phase = "loading"
    /\ phase' = IF Valid(seq) THEN "building" ELSE "rejected"
    /\ UNCHANGED <<seq, step, action, last, schedule>>

Actions(n) == TimedActions(seq.steps[n])
StepActions == Actions(step)
Building == phase = "building" /\ step <= Len(seq.steps)

\* Times count from the start of the sequence.
Shifted(a) == a.at - seq.start

\* The action, k of step n, as the schedule holds it.
AsEntry(a, n, k) ==
    [at |-> Shifted(a), param |-> a.param, num |-> a.value, den |-> 1,
     step |-> n, action |-> k]

Push(a) ==
    /\ a.param \notin seq.linear
    /\ schedule' = Append(schedule, AsEntry(a, step, action))
    /\ UNCHANGED last

Remembered(a) == [at |-> Shifted(a), value |-> a.value, known |-> TRUE]

\* The interpolated values that lead to the action.
TicksTo(a) ==
    LET from == last[a.param]
    IN  IF from.known
        THEN Inner(InterpolateLinear(from, Remembered(a), a.param, seq.interval))
        ELSE <<>>

\* They go right before it.  Mutants: they include it; only the first value of
\* a parameter is remembered.
PushLinearIncluded(a) ==
    /\ a.param \in seq.linear
    /\ schedule' = schedule \o (IF TicksTo(a) # <<>> THEN TicksTo(a)
                               ELSE <<AsEntry(a, step, action)>>)
    /\ last' = [last EXCEPT ![a.param] = Remembered(a)]
PushLinearFromFirst(a) ==
    /\ a.param \in seq.linear
    /\ schedule' = schedule \o TicksTo(a) \o <<AsEntry(a, step, action)>>
    /\ last' = IF last[a.param].known THEN last
               ELSE [last EXCEPT ![a.param] = Remembered(a)]
PushLinear(a) ==
    /\ a.param \in seq.linear
    /\ schedule' = schedule \o TicksTo(a) \o <<AsEntry(a, step, action)>>
    /\ last' = [last EXCEPT ![a.param] = Remembered(a)]

PushAction ==
    /\ Building /\ action <= Len(StepActions)
    /\ Push(StepActions[action]) \/ PushLinear(StepActions[action])
    /\ action' = action + 1
    /\ UNCHANGED <<seq, phase, step>>

NextStep ==
    /\ Building /\ action > Len(StepActions)
    /\ step' = step + 1
    /\ action' = 1
    /\ UNCHANGED <<seq, phase, last, schedule>>

Finish ==
    /\ phase = "building" /\ step > Len(seq.steps)
    /\ phase' = "built"
    /\ UNCHANGED <<seq, step, action, last, schedule>>

Next == Load \/ PushAction \/ NextStep \/ Finish

Spec == Init /\ [][Next]_vars

-----------------------------------------------------------------------------
(* Properties.                                                             *)

\* Nothing is scheduled before the start or after the end of the sequence.
\* The runner makes a Duration of every timestamp, and a negative one panics.
WithinGlobals ==
    \A i \in DOMAIN schedule : schedule[i].at \in 0..(seq.end - seq.start)

\* In the order of the definition.
Ahead(d, e) == d.step < e.step \/ (d.step = e.step /\ d.action < e.action)

\* Every action of the definition is in the schedule, once and in its order,
\* and the interpolation adds nothing that passes for one.
DefinedKept ==
    phase = "built" =>
        /\ \A n \in DOMAIN seq.steps : \A k \in DOMAIN Actions(n) :
              \E i \in DOMAIN schedule : schedule[i] = AsEntry(Actions(n)[k], n, k)
        /\ \A i \in DOMAIN schedule : Defined(schedule[i]) =>
              /\ schedule[i].step \in DOMAIN seq.steps
              /\ schedule[i].action \in DOMAIN Actions(schedule[i].step)
        /\ \A i, j \in DOMAIN schedule :
              i < j /\ Defined(schedule[i]) /\ Defined(schedule[j])
                => Ahead(schedule[i], schedule[j])

\* The defined actions of a step all come before the time of the next step.
StepsApart ==
    \A i, j \in DOMAIN schedule :
        /\ Defined(schedule[i]) /\ Defined(schedule[j])
        /\ \E n \in 1..(Len(seq.steps) - 1) :
              /\ schedule[i].at < seq.steps[n + 1].at - seq.start
              /\ schedule[j].at >= seq.steps[n + 1].at - seq.start
        => i < j

SameParam(i, j) == schedule[i].param = schedule[j].param

\* i and j are successive values of a parameter.
Successive(i, j) ==
    /\ i < j /\ SameParam(i, j)
    /\ \A k \in (i + 1)..(j - 1) : ~SameParam(i, k)

\* An interpolated value lies strictly between two defined ones, in time and
\* in value, and only values that go the same way are between them.  The
\* interval 0, which the loader accepts, puts them all at the time of the first.
OnTheWay ==
    \A j \in DOMAIN schedule : ~Defined(schedule[j]) /\ seq.interval > 0 =>
        \E c \in 1..(j - 1), d \in (j + 1)..Len(schedule) :
            LET from == schedule[c]  to == schedule[d]  tick == schedule[j]
            IN  /\ Defined(from) /\ Defined(to) /\ SameParam(c, j) /\ SameParam(d, j)
                /\ \A k \in (c + 1)..(d - 1) : SameParam(k, j) => ~Defined(schedule[k])
                /\ from.at < tick.at /\ tick.at < to.at
                /\ \/ from.num * tick.den < tick.num /\ tick.num < to.num * tick.den
                   \/ from.num * tick.den > tick.num /\ tick.num > to.num * tick.den

\* An interpolated value has its timestamp interpolation_interval after the value
\* before it, defined or not, and the defined value it leads to comes an interval
\* or more, and less than two, behind the last of them.  So one value is missing
\* where the interval does not divide the span: the builder removes the last one
\* as "already contained in the sequence definition", which only the end of the
\* span is.  This is about timestamps and not about sending: the runner takes the
\* values behind whatever the definition has between the two.
TimestampsPaced ==
    \A i, j \in DOMAIN schedule : Successive(i, j) =>
        LET gap == schedule[j].at - schedule[i].at
        IN  /\ ~Defined(schedule[j]) => gap = seq.interval
            /\ Defined(schedule[j]) /\ ~Defined(schedule[i]) =>
                  gap >= seq.interval /\ (seq.interval > 0 => gap < 2 * seq.interval)

=============================================================================
