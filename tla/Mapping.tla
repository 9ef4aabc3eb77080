------------------------------ MODULE Mapping ------------------------------
(***************************************************************************)
(* Loading the field mapping (src/src/nodes/mapping.rs): every TOML file   *)
(* of the directory is parsed and validated by itself, the files are put   *)
(* together node by node, and the whole is validated again.  What the      *)
(* server then finds by name, by raw field and by value is what the files  *)
(* say, wherever in them they say it.                                      *)
(*                                                                         *)
(* An f64 is a whole number between the infinities, or NaN.  The bounds of *)
(* ranges are even numbers, so that there is a value between any two of    *)
(* them (two f64 that are neighbours are left out).                        *)
(***************************************************************************)
EXTENDS Integers, Sequences, FiniteSetsExt

CONSTANTS
    Sources,    \* what the path can be, and point at
    Nodes,      \* node names, as numbers in the order of the names
    Names,      \* field names
    Raws,       \* names of raw fields
    Blank,      \* those of Names and Raws that are blank
    BlankNodes, \* those of Nodes that are
    Coloned,    \* the field names with a colon
    Inf         \* the infinite f64

NaN == Inf + 1
Float == (-Inf)..NaN
Bounds == {x \in Float : x % 2 = 0} \cup {NaN}

LogicalRange ==
    [min : Bounds, max : Bounds, minInclusive : BOOLEAN, maxInclusive : BOOLEAN]
Entry == [name : Names, raw : Raws, slope : Float, offset : Float,
          logical : Seq(LogicalRange)]

\* node -> its entries
IsMapping(m) == DOMAIN m \subseteq Nodes /\ \A n \in DOMAIN m : m[n] \in Seq(Entry)
NoMapping == [n \in {} |-> <<>>]

\* What is in the directory: something else than a TOML file, a TOML file that
\* cannot be read or parsed, or the mapping that it holds.
IsFile(f) ==
    /\ f.kind \in {"other", "broken", "toml"} /\ IsMapping(f.mapping)
    /\ f.kind # "toml" => f.mapping = NoMapping

\* The path is empty, points nowhere, or to a directory with the files, by
\* numbers in the order of their names.
IsSource(s) ==
    /\ s.kind \in {"empty", "missing", "directory"}
    /\ DOMAIN s.files \subseteq Nat /\ IsFiniteSet(DOMAIN s.files)
    /\ \A i \in DOMAIN s.files : IsFile(s.files[i])

ASSUME MappingAssumption ==
    /\ Inf \in Nat /\ Inf % 2 = 0
    /\ Nodes \subseteq Nat
    /\ \A s \in Sources : IsSource(s)

VARIABLES
    source,     \* mapping_path, and what it points at
    todo,       \* the files still to load, those that end in .toml
    combined,   \* the mapping put together so far
    result      \* "loading", "done", "refused" or "panicked"

vars == <<source, todo, combined, result>>

-----------------------------------------------------------------------------
(* Logical ranges.                                                         *)

Less(x, y) == x # NaN /\ y # NaN /\ x < y
Same(x, y) == x # NaN /\ x = y

Matches(r, x) ==
    /\ Less(r.min, x) \/ (r.minInclusive /\ Same(r.min, x))
    /\ Less(x, r.max) \/ (r.maxInclusive /\ Same(r.max, x))

\* Mutant of IsNonEmpty: whatever is not the wrong way round.
IsNonEmptyUnlessReversed(r) ==
    ~Less(r.max, r.min) /\ (Same(r.max, r.min) => r.minInclusive /\ r.maxInclusive)

IsNonEmpty(r) ==
    Less(r.min, r.max) \/ (Same(r.max, r.min) /\ r.minInclusive /\ r.maxInclusive)

\* intersection: the larger of the lower bounds with its flag, the smaller of
\* the upper ones with its flag, and both flags where the bounds are equal.
Lower(a, b) == IF a.min < b.min THEN b.min ELSE a.min
Upper(a, b) == IF b.max < a.max THEN b.max ELSE a.max
LowerInclusive(a, b) ==
    CASE a.min < b.min -> b.minInclusive
      [] a.min > b.min -> a.minInclusive
      [] OTHER -> a.minInclusive /\ b.minInclusive
\* Mutant: either flag where they are equal.
UpperInclusiveEither(a, b) ==
    CASE a.max < b.max -> a.maxInclusive
      [] a.max > b.max -> b.maxInclusive
      [] OTHER -> a.maxInclusive \/ b.maxInclusive
UpperInclusive(a, b) ==
    CASE a.max < b.max -> a.maxInclusive
      [] a.max > b.max -> b.maxInclusive
      [] OTHER -> a.maxInclusive /\ b.maxInclusive

Intersection(a, b) ==
    [min |-> Lower(a, b), minInclusive |-> LowerInclusive(a, b),
     max |-> Upper(a, b), maxInclusive |-> UpperInclusive(a, b)]

Overlaps(a, b) == IsNonEmpty(Intersection(a, b))

\* partial_cmp(..).unwrap() of the bounds.
Comparable(a, b) == NaN \notin {a.min, a.max, b.min, b.max}

-----------------------------------------------------------------------------
(* validate.                                                               *)

\* Rule i is empty, or overlaps with one before.  Mutant: with the one before.
RejectsNeighbours(rules, i) ==
    ~IsNonEmpty(rules[i]) \/ (i > 1 /\ Overlaps(rules[i], rules[i - 1]))
Rejects(rules, i) ==
    ~IsNonEmpty(rules[i]) \/ \E j \in 1..(i - 1) : Overlaps(rules[i], rules[j])

\* Rule i is compared with rule j, all those before i having been let through.
Compares(rules, i, j) ==
    /\ j < i /\ IsNonEmpty(rules[i])
    /\ \A k \in 1..(i - 1) : ~Rejects(rules, k)

IsFinite(x) == x \notin {-Inf, Inf, NaN}

ValidEntry(e) ==
    /\ e.name \notin Blank \cup Coloned
    /\ e.raw \notin Blank
    /\ IsFinite(e.slope) /\ e.slope # 0 /\ IsFinite(e.offset)
    /\ \A i \in DOMAIN e.logical : ~Rejects(e.logical, i)

\* The places of the entries in a mapping.
Places(m) == UNION {{n} \X DOMAIN m[n] : n \in DOMAIN m}
At(m, h) == m[h[1]][h[2]]

\* Two entries have one name, or one node's raw field.
Clash(m, g, h) ==
    /\ g # h
    /\ \/ At(m, g).name = At(m, h).name
       \/ g[1] = h[1] /\ At(m, g).raw = At(m, h).raw

Validate(m) ==
    /\ \A n \in DOMAIN m : n \notin BlankNodes
    /\ \A h \in Places(m) : ValidEntry(At(m, h))
    /\ \A g, h \in Places(m) : ~Clash(m, g, h)

\* Some comparison of it panics.
Panics(m) ==
    \E h \in Places(m) :
        LET rules == At(m, h).logical
        IN  \E i, j \in DOMAIN rules :
                Compares(rules, i, j) /\ ~Comparable(rules[i], rules[j])

-----------------------------------------------------------------------------
(* load_mapping_from_path.                                                 *)

TomlFiles == {i \in DOMAIN source.files : source.files[i].kind # "other"}

Init ==
    /\ source \in Sources
    /\ todo = TomlFiles
    /\ combined = NoMapping
    /\ result = "loading"

\* An empty path is an empty mapping.
Default ==
    /\ result = "loading" /\ source.kind = "empty"
    /\ result' = "done"
    /\ UNCHANGED <<source, todo, combined>>

\* There is no such directory, or no TOML file in it.
NoFiles ==
    /\ result = "loading"
    /\ source.kind = "missing" \/ (source.kind = "directory" /\ TomlFiles = {})
    /\ result' = "refused"
    /\ UNCHANGED <<source, todo, combined>>

Loading == result = "loading" /\ source.kind = "directory" /\ todo # {}

\* entries.sort().
Current == Min(todo)
File == source.files[Current]

\* entry(node).or_default().extend(fields), for every node of the file.
\* Mutant: the file's fields replace the node's.
EntriesOf(m, n) == IF n \in DOMAIN m THEN m[n] ELSE <<>>
CombineReplacing(m, new) ==
    [n \in DOMAIN m \cup DOMAIN new |-> IF n \in DOMAIN new THEN new[n] ELSE m[n]]
Combine(m, new) ==
    [n \in DOMAIN m \cup DOMAIN new |-> EntriesOf(m, n) \o EntriesOf(new, n)]

LoadFile ==
    /\ Loading /\ File.kind = "toml"
    /\ Validate(File.mapping) /\ ~Panics(File.mapping)
    /\ combined' = Combine(combined, File.mapping)
    /\ todo' = todo \ {Current}
    /\ UNCHANGED <<source, result>>

RefuseFile ==
    /\ Loading
    /\ File.kind = "broken" \/ ~Validate(File.mapping) \/ Panics(File.mapping)
    /\ result' = IF Panics(File.mapping) THEN "panicked" ELSE "refused"
    /\ UNCHANGED <<source, todo, combined>>

\* The whole is validated, all rules of it once more.
Finish ==
    /\ result = "loading" /\ source.kind = "directory" /\ todo = {} /\ TomlFiles # {}
    /\ result' = IF Panics(combined) THEN "panicked"
                 ELSE IF Validate(combined) THEN "done" ELSE "refused"
    /\ UNCHANGED <<source, todo, combined>>

Next == Default \/ NoFiles \/ LoadFile \/ RefuseFile \/ Finish

Spec == Init /\ [][Next]_vars

-----------------------------------------------------------------------------
(* What is read from it.                                                   *)

\* find, in the order of the nodes and of their entries.
First(hits) ==
    CHOOSE h \in hits : \A g \in hits : h[1] < g[1] \/ (h[1] = g[1] /\ h[2] <= g[2])

Found(m, hits) == IF hits = {} THEN {} ELSE {<<First(hits)[1], At(m, First(hits))>>}

\* get_mapping_for_name and get_mapping_for_raw, as the set of what they find.
ForName(m, name) == Found(m, {h \in Places(m) : At(m, h).name = name})
ForRaw(m, n, raw) == Found(m, {h \in Places(m) : h[1] = n /\ At(m, h).raw = raw})

\* logical_value, as the number of the first rule that matches.
LogicalRule(e, x) ==
    LET matches == {i \in DOMAIN e.logical : Matches(e.logical[i], x)}
    IN  IF matches = {} THEN 0 ELSE Min(matches)
-----------------------------------------------------------------------------
(* Properties.                                                             *)

\* Types; the files that are loaded are those that come first.
TypeOK ==
    /\ source \in Sources
    /\ todo \subseteq TomlFiles
    /\ \A i \in TomlFiles \ todo, j \in todo : i < j
    /\ IsMapping(combined)
    /\ result \in {"loading", "done", "refused", "panicked"}

\* The entries of a mapping, each with its node, and those of all files.
EntriesIn(m) == {<<h[1], At(m, h)>> : h \in Places(m)}
Declared == UNION {EntriesIn(source.files[i].mapping) : i \in TomlFiles}

\* However the entries are spread over files and nodes, a name and a raw field
\* find the one entry that has been declared for it, or none was.
Resolves ==
    result = "done" /\ source.kind = "directory" =>
        /\ \A name \in Names :
              ForName(combined, name) = {d \in Declared : d[2].name = name}
        /\ \A n \in Nodes, raw \in Raws :
              ForRaw(combined, n, raw) = {d \in Declared : d[1] = n /\ d[2].raw = raw}

\* No mapped value matches two rules of an entry: which one is found does not
\* depend on their order in the file.
Unambiguous ==
    result = "done" =>
        \A h \in Places(combined), x \in Float :
            LET e == At(combined, h)
            IN  \A i \in DOMAIN e.logical :
                    Matches(e.logical[i], x) => LogicalRule(e, x) = i

\* Some value matches two of the rules, or a rule is for none.
AmbiguousRules(rules) ==
    \/ \E i \in DOMAIN rules : \A x \in Float : ~Matches(rules[i], x)
    \/ \E i, j \in DOMAIN rules, x \in Float :
          i # j /\ Matches(rules[i], x) /\ Matches(rules[j], x)

\* What is wrong with the files.
Faulty ==
    \/ source.kind = "missing" \/ TomlFiles = {}
    \/ \E i \in TomlFiles :
          \/ source.files[i].kind = "broken"
          \/ DOMAIN source.files[i].mapping \cap BlankNodes # {}
    \/ \E d \in Declared :
          LET e == d[2]
          IN  \/ e.name \in Blank \cup Coloned \/ e.raw \in Blank
              \/ e.slope \in {0, Inf, -Inf, NaN} \/ e.offset \in {Inf, -Inf, NaN}
              \/ AmbiguousRules(e.logical)
    \/ \E i, j \in TomlFiles :
          \E g \in Places(source.files[i].mapping), h \in Places(source.files[j].mapping) :
              LET d == At(source.files[i].mapping, g)
                  e == At(source.files[j].mapping, h)
              IN  <<i, g>> # <<j, h>>
                    /\ (d.name = e.name \/ (g[1] = h[1] /\ d.raw = e.raw))

\* Ranges that only touch, and entries that are alike in no name, are let
\* through: a start that fails has a cause.
RefusedForCause == result = "refused" => Faulty

\* A NaN in a range is refused before its bounds are compared.
NeverPanics == result # "panicked"

=============================================================================
