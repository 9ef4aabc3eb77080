------------------------- MODULE MCSequenceSchedule -------------------------
(* All short definitions over one interpolated and one plain parameter, of *)
(* up to three steps and three actions, valid and invalid, for TLC.        *)
EXTENDS SequenceSchedule

MCParams == {"valve", "vent"}
CONSTANT Intervals

Sets == [rel : {0, 1, 2}, param : {"valve"}, value : {0, 2}]
            \cup [rel : {0, 1, 2}, param : {"vent"}, value : {0}]
Short ==
    {<<h, <<>>>> : h \in {"none", "always", "conditional", "unconditional"}}
        \cup {<<"none", <<s>>>> : s \in Sets}
Long == {<<"none", <<s, t>>>> : s \in Sets, t \in Sets}

Steps(times, bodies) == {[at |-> t, hold |-> b[1], sets |-> b[2]] : t \in times, b \in bodies}

Grid == -1..3
OneStep == {<<s>> : s \in Steps(-2..4, Short \cup Long)}
ShortThenAny == Steps(Grid, Short) \X Steps(Grid, Short \cup Long)
LongThenShort == Steps(Grid, Long) \X Steps(Grid, Short)
ThreeSteps == Steps({-1}, Short) \X Steps(0..2, Short) \X Steps({3}, Short)

\* Most within globals that leave room; some within any others, which start
\* too late, end before they start, or leave out some of the steps.
MCSequences ==
    [start : {-1}, end : {4}, interval : Intervals, linear : {{"valve"}},
     steps : OneStep \cup ShortThenAny \cup LongThenShort \cup ThreeSteps]
    \cup [start : -2..1, end : -2..2, interval : {1}, linear : {{"valve"}},
          steps : OneStep \cup ThreeSteps]

=============================================================================
