----------------------------- MODULE MCMapping -----------------------------
(* Mapping of small files, for TLC: up to three rules of one entry, or two *)
(* files with up to three entries each.                                    *)
EXTENDS Mapping, SequencesExt

MCNames == {"", "temp", "flow", "a:b"}
MCRaws == {"", "adc1", "adc2"}
MCNodes == 0..2

MCRange(lo, hi, loIn, hiIn) ==
    [min |-> lo, max |-> hi, minInclusive |-> loIn, maxInclusive |-> hiIn]
MCEntry(name, raw, slope, offset, logical) ==
    [name |-> name, raw |-> raw, slope |-> slope, offset |-> offset, logical |-> logical]
MCToml(m) == [kind |-> "toml", mapping |-> m]
MCDirectory(files) == [kind |-> "directory", files |-> files]

\* One entry with any two ranges, with three that are in an order of their
\* own, or with odd numbers.
MCThirds == {MCRange(lo, hi, in, ~in) : lo \in {-Inf, 0}, hi \in {0, Inf}, in \in BOOLEAN}
MCRules == BoundedSeq(LogicalRange, 2) \cup [1..3 -> MCThirds]
MCOneEntry ==
    {MCEntry("temp", "adc1", 1, 0, rules) : rules \in MCRules}
        \cup {MCEntry(name, raw, slope, offset, <<>>) :
                name \in MCNames, raw \in MCRaws, slope \in Float, offset \in Float}
MCOneFile ==
    {MCDirectory(<<MCToml([n \in {1} |-> <<e>>])>>) : e \in MCOneEntry}

\* Two files, with another thing before, between or behind them.
MCPlain == {MCEntry(name, raw, 1, 0, <<>>) : name \in {"temp", "flow"}, raw \in {"adc1", "adc2"}}
MCMappings ==
    {[n \in {1} |-> s] : s \in BoundedSeq(MCPlain, 2)}
        \cup [{1, 2} -> {<<e>> : e \in MCPlain}]
        \cup {[n \in {0} |-> <<>>]}
MCBroken == [kind |-> "broken", mapping |-> NoMapping]
MCOther == [kind |-> "other", mapping |-> NoMapping]
MCFile == {MCToml(m) : m \in MCMappings} \cup {MCBroken, MCOther}
MCTwoFiles == {MCDirectory(files) : files \in [1..2 -> MCFile]}

MCSources ==
    MCOneFile \cup MCTwoFiles
        \cup {[kind |-> kind, files |-> <<>>] : kind \in {"empty", "missing", "directory"}}

=============================================================================
