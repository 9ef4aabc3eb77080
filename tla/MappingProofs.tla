--------------------------- MODULE MappingProofs ---------------------------
(* Theorems of Mapping, for any files, names, ranges and infinity.         *)
EXTENDS Mapping, WellFoundedInduction, TLAPS

-----------------------------------------------------------------------------
(* Ranges.                                                                 *)

HasBounds(r) ==
    r.min \in Bounds /\ r.max \in Bounds
        /\ r.minInclusive \in BOOLEAN /\ r.maxInclusive \in BOOLEAN

LEMMA RangeBounds == \A r \in LogicalRange : HasBounds(r)
  BY DEF LogicalRange, HasBounds

LEMMA FloatTypes ==
    /\ Inf \in Nat /\ NaN \in Int /\ NaN = Inf + 1 /\ Bounds \subseteq Float /\ Float \subseteq Int
    /\ \A x \in Float : -Inf <= x /\ (x # NaN => x <= Inf)
    /\ \A x \in Bounds : x # NaN => x % 2 = 0
  BY MappingAssumption DEF NaN, Bounds, Float

\* A value in both ranges is in their intersection.
LEMMA BothOverlap ==
    ASSUME NEW a \in LogicalRange, NEW b \in LogicalRange, NEW x \in Float,
           Matches(a, x), Matches(b, x)
    PROVE  Overlaps(a, b)
<1>1. /\ a.min \in Int /\ a.max \in Int /\ b.min \in Int /\ b.max \in Int /\ x \in Int
      /\ NaN \in Int
      /\ x # NaN /\ a.min # NaN /\ a.max # NaN /\ b.min # NaN /\ b.max # NaN
  BY RangeBounds, FloatTypes DEF HasBounds, Matches, Less, Same
<1>2. /\ a.min < x \/ (a.minInclusive /\ a.min = x)
      /\ x < a.max \/ (a.maxInclusive /\ x = a.max)
      /\ b.min < x \/ (b.minInclusive /\ b.min = x)
      /\ x < b.max \/ (b.maxInclusive /\ x = b.max)
  BY DEF Matches, Less, Same
<1>3. Lower(a, b) \in Int /\ Lower(a, b) # NaN
      /\ (Lower(a, b) < x \/ (LowerInclusive(a, b) /\ Lower(a, b) = x))
  BY <1>1, <1>2 DEF Lower, LowerInclusive
<1>4. Upper(a, b) \in Int /\ Upper(a, b) # NaN
      /\ (x < Upper(a, b) \/ (UpperInclusive(a, b) /\ x = Upper(a, b)))
  BY <1>1, <1>2 DEF Upper, UpperInclusive
<1>5. \/ Less(Lower(a, b), Upper(a, b))
      \/ Same(Upper(a, b), Lower(a, b)) /\ LowerInclusive(a, b) /\ UpperInclusive(a, b)
  BY <1>1, <1>3, <1>4 DEF Less, Same
<1> QED BY <1>5 DEF Overlaps, IsNonEmpty, Intersection

LEMMA NonEmptyOrdered ==
    ASSUME NEW r, IsNonEmpty(r) PROVE r.min # NaN /\ r.max # NaN
  BY DEF IsNonEmpty, Less, Same

-----------------------------------------------------------------------------
(* Rules that are let through.                                             *)

\* Rules that are let through never hold together.
LEMMA AtMostOneRule ==
    ASSUME NEW rules \in Seq(LogicalRange), \A k \in DOMAIN rules : ~Rejects(rules, k),
           NEW i \in DOMAIN rules, NEW j \in DOMAIN rules, NEW x \in Float,
           Matches(rules[i], x), Matches(rules[j], x)
    PROVE  i = j
<1>1. /\ i \in Int /\ j \in Int /\ 1 <= i /\ 1 <= j
      /\ rules[i] \in LogicalRange /\ rules[j] \in LogicalRange
  OBVIOUS
<1>2. Overlaps(rules[i], rules[j]) /\ Overlaps(rules[j], rules[i])
  BY <1>1, BothOverlap
<1>3. ~(j < i)
  BY <1>1, <1>2 DEF Rejects
<1>4. ~(i < j)
  BY <1>1, <1>2 DEF Rejects
<1> QED BY <1>1, <1>3, <1>4

-----------------------------------------------------------------------------
(* Mappings.                                                               *)

LEMMA PlaceTypes ==
    ASSUME NEW m, IsMapping(m), NEW h \in Places(m)
    PROVE  /\ h = <<h[1], h[2]>> /\ h[1] \in DOMAIN m /\ h[1] \in Nodes /\ h[1] \in Int
           /\ m[h[1]] \in Seq(Entry) /\ h[2] \in DOMAIN m[h[1]] /\ h[2] \in Int
           /\ At(m, h) \in Entry
<1>1. PICK n \in DOMAIN m : h \in {n} \X DOMAIN m[n]
  BY DEF Places
<1>2. m[n] \in Seq(Entry) /\ n \in Nodes /\ n \in Int
  BY <1>1, MappingAssumption DEF IsMapping
<1>3. h = <<h[1], h[2]>> /\ h[1] = n /\ h[2] \in DOMAIN m[n]
  BY <1>1
<1>4. h[2] \in Int /\ m[n][h[2]] \in Entry
  BY <1>2, <1>3
<1> QED BY <1>1, <1>2, <1>3, <1>4 DEF At

LEMMA PlacesMade ==
    ASSUME NEW m, NEW n \in DOMAIN m, NEW k \in DOMAIN m[n]
    PROVE  <<n, k>> \in Places(m) /\ At(m, <<n, k>>) = m[n][k]
  BY DEF Places, At

LEMMA EntryFound ==
    ASSUME NEW m, NEW n \in DOMAIN m, NEW k \in DOMAIN m[n]
    PROVE  <<n, m[n][k]>> \in EntriesIn(m)
<1> DEFINE h == <<n, k>>
<1>1. h \in Places(m) /\ h[1] = n /\ At(m, h) = m[n][k]
  BY PlacesMade
<1> QED BY <1>1 DEF EntriesIn

\* A bound that is compared is a number.
LEMMA ComparedOrdered ==
    ASSUME NEW m, IsMapping(m) PROVE ~Panics(m)
<1> SUFFICES ASSUME Panics(m) PROVE FALSE
  OBVIOUS
<1>1. PICK h \in Places(m) : \E i, j \in DOMAIN At(m, h).logical :
          /\ Compares(At(m, h).logical, i, j)
          /\ ~Comparable(At(m, h).logical[i], At(m, h).logical[j])
  BY DEF Panics
<1> DEFINE rules == At(m, h).logical
<1>2. PICK i \in DOMAIN rules, j \in DOMAIN rules :
          Compares(rules, i, j) /\ ~Comparable(rules[i], rules[j])
  BY <1>1
<1>3. rules \in Seq(LogicalRange)
  BY PlaceTypes DEF Entry
<1>4. i \in Int /\ j \in 1..(i - 1)
  BY <1>2, <1>3 DEF Compares
<1>5. IsNonEmpty(rules[i]) /\ IsNonEmpty(rules[j])
  BY <1>2, <1>4 DEF Compares, Rejects
<1> QED BY <1>2, <1>5, NonEmptyOrdered DEF Comparable

LEMMA EntriesOfTypes ==
    ASSUME NEW m, IsMapping(m), NEW n PROVE EntriesOf(m, n) \in Seq(Entry)
  BY DEF EntriesOf, IsMapping

LEMMA CombineTypes ==
    ASSUME NEW m, NEW new, IsMapping(m), IsMapping(new)
    PROVE  /\ IsMapping(Combine(m, new))
           /\ DOMAIN Combine(m, new) = DOMAIN m \cup DOMAIN new
           /\ \A n \in DOMAIN Combine(m, new) :
                 Combine(m, new)[n] = EntriesOf(m, n) \o EntriesOf(new, n)
<1>1. /\ DOMAIN Combine(m, new) = DOMAIN m \cup DOMAIN new
      /\ \A n \in DOMAIN Combine(m, new) :
            Combine(m, new)[n] = EntriesOf(m, n) \o EntriesOf(new, n)
  BY DEF Combine
<1>2. DOMAIN m \cup DOMAIN new \subseteq Nodes
  BY DEF IsMapping
<1>3. ASSUME NEW n \in DOMAIN Combine(m, new) PROVE Combine(m, new)[n] \in Seq(Entry)
  <2> DEFINE s == EntriesOf(m, n)
             t == EntriesOf(new, n)
  <2>1. s \in Seq(Entry) /\ t \in Seq(Entry)
    BY EntriesOfTypes
  <2>2. Combine(m, new)[n] = s \o t
    BY <1>1, <1>3
  <2> HIDE DEF s, t
  <2>3. s \o t \in Seq(Entry)
    BY <2>1
  <2> QED BY <2>2, <2>3
<1> QED BY <1>1, <1>2, <1>3 DEF IsMapping

\* The entries of two mappings put together are those of the one and of the other.
LEMMA CombineEntries ==
    ASSUME NEW m, NEW new, IsMapping(m), IsMapping(new)
    PROVE  EntriesIn(Combine(m, new)) = EntriesIn(m) \cup EntriesIn(new)
<1> DEFINE c == Combine(m, new)
<1>1. /\ IsMapping(c) /\ DOMAIN c = DOMAIN m \cup DOMAIN new
      /\ \A n \in DOMAIN c : c[n] = EntriesOf(m, n) \o EntriesOf(new, n)
  BY CombineTypes
<1> HIDE DEF c
<1>2. ASSUME NEW d \in EntriesIn(c) PROVE d \in EntriesIn(m) \cup EntriesIn(new)
  <2>1. PICK h \in Places(c) : d = <<h[1], At(c, h)>>
    BY DEF EntriesIn
  <2> DEFINE n == h[1]
             k == h[2]
             s == EntriesOf(m, n)
             t == EntriesOf(new, n)
  <2>2. n \in DOMAIN c /\ k \in DOMAIN c[n] /\ d = <<n, c[n][k]>> /\ c[n] = s \o t
        /\ s \in Seq(Entry) /\ t \in Seq(Entry)
    BY <1>1, <2>1, PlaceTypes, EntriesOfTypes DEF At
  <2> HIDE DEF n, k
  <2>3. \/ k \in DOMAIN s /\ c[n][k] = s[k]
        \/ k - Len(s) \in DOMAIN t /\ c[n][k] = t[k - Len(s)]
    BY <2>2
  <2>4. CASE k \in DOMAIN s /\ c[n][k] = s[k]
    <3>1. n \in DOMAIN m /\ s = m[n]
      BY <2>4 DEF EntriesOf
    <3> QED BY <2>2, <2>4, <3>1, EntryFound
  <2>5. CASE k - Len(s) \in DOMAIN t /\ c[n][k] = t[k - Len(s)]
    <3>1. n \in DOMAIN new /\ t = new[n]
      BY <2>5 DEF EntriesOf
    <3> QED BY <2>2, <2>5, <3>1, EntryFound
  <2> QED BY <2>3, <2>4, <2>5
<1>3. ASSUME NEW d \in EntriesIn(m) PROVE d \in EntriesIn(c)
  <2>1. PICK h \in Places(m) : d = <<h[1], At(m, h)>>
    BY DEF EntriesIn
  <2> DEFINE n == h[1]
             k == h[2]
             t == EntriesOf(new, n)
  <2>2. n \in DOMAIN m /\ k \in DOMAIN m[n] /\ d = <<n, m[n][k]>> /\ m[n] \in Seq(Entry)
        /\ t \in Seq(Entry)
    BY <2>1, PlaceTypes, EntriesOfTypes DEF At
  <2> HIDE DEF n, k, t
  <2>3. n \in DOMAIN c /\ c[n] = m[n] \o t
    BY <1>1, <2>2 DEF EntriesOf, t
  <2>4. k \in DOMAIN c[n] /\ c[n][k] = m[n][k]
    BY <2>2, <2>3
  <2> QED BY <2>2, <2>3, <2>4, EntryFound
<1>4. ASSUME NEW d \in EntriesIn(new) PROVE d \in EntriesIn(c)
  <2>1. PICK h \in Places(new) : d = <<h[1], At(new, h)>>
    BY DEF EntriesIn
  <2> DEFINE n == h[1]
             k == h[2]
             s == EntriesOf(m, n)
  <2>2. n \in DOMAIN new /\ k \in DOMAIN new[n] /\ d = <<n, new[n][k]>>
        /\ new[n] \in Seq(Entry) /\ s \in Seq(Entry)
    BY <2>1, PlaceTypes, EntriesOfTypes DEF At
  <2> HIDE DEF n, k, s
  <2>3. n \in DOMAIN c /\ c[n] = s \o new[n]
    BY <1>1, <2>2 DEF EntriesOf, s
  <2>4. Len(s) + k \in DOMAIN c[n] /\ c[n][Len(s) + k] = new[n][k]
    BY <2>2, <2>3
  <2> QED BY <2>2, <2>3, <2>4, EntryFound
<1>5. EntriesIn(c) = EntriesIn(m) \cup EntriesIn(new)
  BY <1>2, <1>3, <1>4
<1> QED BY <1>5 DEF c

-----------------------------------------------------------------------------
(* The files, one after the other.                                         *)

LEMMA MinFacts ==
    ASSUME NEW S \in SUBSET Nat, S # {}
    PROVE  Min(S) \in S /\ \A x \in S : Min(S) <= x
<1>1. PICK x \in S : \A y \in S : ~(<<y, x>> \in OpToRel(<, Nat))
  BY WFMin, NatLessThanWellFounded
<1>2. ASSUME NEW y \in S PROVE x <= y
  <2>1. ~(y < x)
    <3>1. ASSUME y < x PROVE <<y, x>> \in OpToRel(<, Nat)
      BY <3>1, Zenon DEF OpToRel
    <3> QED BY <1>1, <3>1
  <2> QED BY <2>1
<1> QED BY <1>2 DEF Min

\* The entries of the files that are loaded.
Loaded == UNION {EntriesIn(source.files[i].mapping) : i \in TomlFiles \ todo}

MappingInv ==
    /\ TypeOK
    /\ EntriesIn(combined) = Loaded
    /\ result = "done" /\ source.kind = "directory" => todo = {} /\ Validate(combined)
    /\ source.kind # "directory" => combined = NoMapping

LEMMA SourceTypes ==
    ASSUME TypeOK
    PROVE  /\ TomlFiles \subseteq Nat /\ todo \subseteq Nat
           /\ \A i \in TomlFiles : IsMapping(source.files[i].mapping)
  BY MappingAssumption DEF TypeOK, TomlFiles, IsSource, IsFile

LEMMA NoEntries == IsMapping(NoMapping) /\ EntriesIn(NoMapping) = {} /\ Places(NoMapping) = {}
<1>1. DOMAIN NoMapping = {}
  BY DEF NoMapping
<1> QED BY <1>1 DEF IsMapping, EntriesIn, Places

LEMMA MappingInit == Init => MappingInv
<1> SUFFICES ASSUME Init PROVE MappingInv
  OBVIOUS
<1>1. TypeOK
  BY NoEntries DEF Init, TypeOK
<1>2. EntriesIn(combined) = {} /\ Loaded = {}
  BY NoEntries DEF Init, Loaded
<1> QED BY <1>1, <1>2 DEF Init, MappingInv

LEMMA LoadKeeps ==
    ASSUME MappingInv, LoadFile PROVE MappingInv'
<1> DEFINE i == Min(todo)
           new == source.files[i].mapping
<1>1. /\ i \in todo /\ i \in TomlFiles /\ \A j \in todo : i <= j
      /\ TomlFiles \subseteq Nat /\ todo \subseteq TomlFiles
      /\ IsMapping(new) /\ IsMapping(combined)
      /\ \A k \in TomlFiles \ todo, j \in todo : k < j
  BY SourceTypes, MinFacts DEF MappingInv, TypeOK, LoadFile, Loading
<1>2. /\ combined' = Combine(combined, new) /\ todo' = todo \ {i}
      /\ source' = source /\ result' = result /\ result = "loading"
      /\ source.kind = "directory"
  BY DEF LoadFile, Loading, File, Current
<1> HIDE DEF i, new
<1>3. TomlFiles' = TomlFiles
  BY <1>2 DEF TomlFiles
<1>4. TypeOK'
  <2>1. \A k \in TomlFiles \ (todo \ {i}), j \in todo \ {i} : k < j
    BY <1>1
  <2>2. IsMapping(combined')
    BY <1>1, <1>2, CombineTypes
  <2> QED BY <1>1, <1>2, <1>3, <2>1, <2>2 DEF MappingInv, TypeOK
<1>5. EntriesIn(combined') = Loaded \cup EntriesIn(new)
  BY <1>1, <1>2, CombineEntries DEF MappingInv
<1>6. Loaded' = Loaded \cup EntriesIn(new)
  <2>1. TomlFiles \ (todo \ {i}) = (TomlFiles \ todo) \cup {i}
    BY <1>1
  <2>2. Loaded' = UNION {EntriesIn(source.files[k].mapping) : k \in TomlFiles \ (todo \ {i})}
    BY <1>2, <1>3 DEF Loaded
  <2> QED BY <2>1, <2>2 DEF Loaded, new
<1> QED BY <1>2, <1>4, <1>5, <1>6 DEF MappingInv

LEMMA OthersKeep ==
    ASSUME MappingInv, Default \/ NoFiles \/ RefuseFile \/ Finish \/ UNCHANGED vars
    PROVE  MappingInv'
<1>1. UNCHANGED <<source, todo, combined>>
  BY DEF Default, NoFiles, RefuseFile, Finish, vars
<1>2. TomlFiles' = TomlFiles /\ Loaded' = Loaded
  BY <1>1 DEF TomlFiles, Loaded
<1>3. result' \in {"loading", "done", "refused", "panicked"}
  BY DEF Default, NoFiles, RefuseFile, Finish, vars, MappingInv, TypeOK
<1>4. result' = "done" /\ source.kind = "directory" => todo = {} /\ Validate(combined)
  BY DEF Default, NoFiles, RefuseFile, Finish, vars, MappingInv
<1> QED BY <1>1, <1>2, <1>3, <1>4 DEF MappingInv, TypeOK

LEMMA MappingInvariance == Spec => []MappingInv
<1>1. MappingInv /\ [Next]_vars => MappingInv'
  BY LoadKeeps, OthersKeep DEF Next
<1> QED BY <1>1, MappingInit, PTL DEF Spec

\* The files are loaded in their order, and what is loaded is a mapping.
THEOREM TypeCorrect == Spec => []TypeOK
<1>1. MappingInv => TypeOK
  BY DEF MappingInv
<1> QED BY <1>1, MappingInvariance, PTL

\* No comparison of bounds panics, whatever NaN the files hold.
THEOREM Comparisons == Spec => []NeverPanics
<1>1. ASSUME MappingInv, NeverPanics, [Next]_vars PROVE NeverPanics'
  <2>1. CASE RefuseFile
    <3>1. IsMapping(File.mapping)
      BY <1>1, <2>1, SourceTypes, MinFacts
         DEF MappingInv, TypeOK, RefuseFile, Loading, File, Current
    <3> QED BY <2>1, <3>1, ComparedOrdered DEF RefuseFile, NeverPanics
  <2>2. CASE Finish
    <3>1. ~Panics(combined)
      BY <1>1, ComparedOrdered DEF MappingInv, TypeOK
    <3> QED BY <2>2, <3>1 DEF Finish, NeverPanics
  <2>3. CASE Default \/ NoFiles \/ LoadFile \/ UNCHANGED vars
    BY <1>1, <2>3 DEF Default, NoFiles, LoadFile, vars, NeverPanics
  <2> QED BY <1>1, <2>1, <2>2, <2>3 DEF Next
<1>2. Init => NeverPanics
  BY DEF Init, NeverPanics
<1> QED BY <1>1, <1>2, MappingInvariance, PTL DEF Spec

\* No value is that of two rules, whatever the ranges are and which of their
\* bounds belong to them.
THEOREM RulesUnambiguous == Spec => []Unambiguous
<1>1. ASSUME MappingInv PROVE Unambiguous
  <2> SUFFICES ASSUME result = "done", NEW h \in Places(combined), NEW x \in Float,
                      NEW i \in DOMAIN At(combined, h).logical,
                      Matches(At(combined, h).logical[i], x)
               PROVE  LogicalRule(At(combined, h), x) = i
    BY DEF Unambiguous
  <2> DEFINE e == At(combined, h)
             hits == {k \in DOMAIN e.logical : Matches(e.logical[k], x)}
  <2>1. Validate(combined) /\ IsMapping(combined)
    BY <1>1, NoEntries DEF MappingInv, TypeOK
  <2>2. e.logical \in Seq(LogicalRange) /\ ValidEntry(e)
    BY <2>1, PlaceTypes DEF Validate, Entry
  <2>3. hits = {i}
    BY <2>2, AtMostOneRule DEF ValidEntry
  <2>4. i \in Nat
    BY <2>2
  <2>5. Min(hits) = i
    BY <2>3, <2>4 DEF Min
  <2> QED BY <2>3, <2>5 DEF LogicalRule
<1> QED BY <1>1, MappingInvariance, PTL

\* What is found where no two places have what is looked for.
LEMMA FoundOne ==
    ASSUME NEW m, IsMapping(m), NEW hits \in SUBSET Places(m),
           \A g, h \in hits : g = h
    PROVE  Found(m, hits) = {<<h[1], At(m, h)>> : h \in hits}
<1>1. CASE hits = {}
  BY <1>1 DEF Found
<1>2. ASSUME NEW h \in hits PROVE Found(m, hits) = {<<g[1], At(m, g)>> : g \in hits}
  <2>1. hits = {h}
    BY <1>2
  <2>2. h[1] \in Int /\ h[2] \in Int
    BY PlaceTypes
  <2>3. First(hits) = h
    BY <2>1, <2>2 DEF First
  <2> QED BY <2>1, <2>3 DEF Found
<1> QED BY <1>1, <1>2

\* Whatever the files are, each entry that they declare is found by its name
\* and by its raw field, and nothing else is.
THEOREM NamesResolve == Spec => []Resolves
<1>1. ASSUME MappingInv PROVE Resolves
  <2> SUFFICES ASSUME result = "done", source.kind = "directory"
               PROVE  /\ \A name \in Names :
                            ForName(combined, name) = {d \in Declared : d[2].name = name}
                      /\ \A n \in Nodes, raw \in Raws :
                            ForRaw(combined, n, raw) =
                                {d \in Declared : d[1] = n /\ d[2].raw = raw}
    BY DEF Resolves
  <2>1. /\ IsMapping(combined) /\ Validate(combined) /\ EntriesIn(combined) = Declared
    BY <1>1 DEF MappingInv, TypeOK, Loaded, Declared
  <2>2. Declared = {<<h[1], At(combined, h)>> : h \in Places(combined)}
    BY <2>1 DEF EntriesIn
  <2>3. ASSUME NEW name \in Names
        PROVE  ForName(combined, name) = {d \in Declared : d[2].name = name}
    <3> DEFINE hits == {h \in Places(combined) : At(combined, h).name = name}
    <3>1. \A g, h \in hits : g = h
      BY <2>1 DEF Validate, Clash
    <3>2. ForName(combined, name) = {<<h[1], At(combined, h)>> : h \in hits}
      BY <2>1, <3>1, FoundOne DEF ForName
    <3> QED BY <2>2, <3>2
  <2>4. ASSUME NEW n \in Nodes, NEW raw \in Raws
        PROVE  ForRaw(combined, n, raw) = {d \in Declared : d[1] = n /\ d[2].raw = raw}
    <3> DEFINE hits == {h \in Places(combined) : h[1] = n /\ At(combined, h).raw = raw}
    <3>1. \A g, h \in hits : g = h
      BY <2>1 DEF Validate, Clash
    <3>2. ForRaw(combined, n, raw) = {<<h[1], At(combined, h)>> : h \in hits}
      BY <2>1, <3>1, FoundOne DEF ForRaw
    <3> QED BY <2>2, <3>2
  <2> QED BY <2>3, <2>4
<1> QED BY <1>1, MappingInvariance, PTL

-----------------------------------------------------------------------------
(* Why a start is refused.                                                 *)

\* Between two bounds there is a value, and a point has itself.
LEMMA NonEmptyHolds ==
    ASSUME NEW lo \in Bounds, NEW hi \in Bounds, NEW loIn \in BOOLEAN, NEW hiIn \in BOOLEAN,
           Less(lo, hi) \/ (Same(hi, lo) /\ loIn /\ hiIn)
    PROVE  \E x \in Float : /\ Less(lo, x) \/ (loIn /\ Same(lo, x))
                            /\ Less(x, hi) \/ (hiIn /\ Same(x, hi))
<1>1. lo \in Int /\ hi \in Int /\ lo # NaN /\ hi # NaN /\ lo % 2 = 0 /\ hi % 2 = 0
      /\ -Inf <= lo /\ hi <= Inf /\ Inf \in Nat /\ NaN = Inf + 1
  BY FloatTypes DEF Less, Same
<1>2. CASE Less(lo, hi)
  <2>1. lo < hi
    BY <1>2 DEF Less
  <2>2. lo < lo + 1 /\ lo + 1 < hi
    BY <1>1, <2>1
  <2>3. lo + 1 \in Float /\ lo + 1 # NaN
    BY <1>1, <2>2 DEF Float
  <2>4. Less(lo, lo + 1) /\ Less(lo + 1, hi)
    BY <1>1, <2>2, <2>3 DEF Less
  <2> QED BY <2>3, <2>4
<1>3. CASE Same(hi, lo) /\ loIn /\ hiIn
  <2>1. lo \in Float /\ Same(lo, lo) /\ Same(lo, hi)
    BY <1>1, <1>3, FloatTypes DEF Same
  <2> QED BY <1>3, <2>1
<1> QED BY <1>2, <1>3

\* A value of the intersection is in both ranges.
LEMMA OverlapBoth ==
    ASSUME NEW a \in LogicalRange, NEW b \in LogicalRange,
           IsNonEmpty(a), IsNonEmpty(b), Overlaps(a, b)
    PROVE  \E x \in Float : Matches(a, x) /\ Matches(b, x)
<1> DEFINE lo == Lower(a, b)
           hi == Upper(a, b)
           loIn == LowerInclusive(a, b)
           hiIn == UpperInclusive(a, b)
<1>1. /\ HasBounds(a) /\ HasBounds(b)
      /\ a.min # NaN /\ a.max # NaN /\ b.min # NaN /\ b.max # NaN
  BY RangeBounds, NonEmptyOrdered
<1>2. /\ a.min \in Int /\ a.max \in Int /\ b.min \in Int /\ b.max \in Int /\ NaN \in Int
  BY <1>1, FloatTypes DEF HasBounds
<1>3. lo \in Bounds /\ hi \in Bounds /\ loIn \in BOOLEAN /\ hiIn \in BOOLEAN
  <2>1. lo \in Bounds /\ hi \in Bounds
    BY <1>1 DEF HasBounds, Lower, Upper
  <2>2. loIn \in BOOLEAN
    BY <1>1, <1>2 DEF HasBounds, LowerInclusive
  <2>3. hiIn \in BOOLEAN
    BY <1>1, <1>2 DEF HasBounds, UpperInclusive
  <2> QED BY <2>1, <2>2, <2>3
<1>4. Less(lo, hi) \/ (Same(hi, lo) /\ loIn /\ hiIn)
  BY DEF Overlaps, IsNonEmpty, Intersection
<1>5. PICK x \in Float : /\ Less(lo, x) \/ (loIn /\ Same(lo, x))
                         /\ Less(x, hi) \/ (hiIn /\ Same(x, hi))
  <2> HIDE DEF lo, hi, loIn, hiIn
  <2> QED BY <1>3, <1>4, NonEmptyHolds
<1>6. x \in Int /\ x # NaN
  BY <1>5, FloatTypes DEF Less, Same
<1>7. lo < x \/ (loIn /\ lo = x)
  BY <1>5 DEF Less, Same
<1>8. x < hi \/ (hiIn /\ x = hi)
  BY <1>5 DEF Less, Same
<1>9. (a.min < x \/ (a.minInclusive /\ a.min = x)) /\ (b.min < x \/ (b.minInclusive /\ b.min = x))
  BY <1>2, <1>6, <1>7 DEF Lower, LowerInclusive
<1>10. (x < a.max \/ (a.maxInclusive /\ x = a.max)) /\ (x < b.max \/ (b.maxInclusive /\ x = b.max))
  BY <1>2, <1>6, <1>8 DEF Upper, UpperInclusive
<1> QED BY <1>1, <1>6, <1>9, <1>10 DEF Matches, Less, Same

LEMMA MatchNonEmpty ==
    ASSUME NEW r \in LogicalRange, NEW x \in Float, Matches(r, x) PROVE IsNonEmpty(r)
<1>1. r.min \in Int /\ r.max \in Int /\ x \in Int /\ r.min # NaN /\ r.max # NaN
  BY RangeBounds, FloatTypes DEF HasBounds, Matches, Less, Same
<1>2. (r.min < x \/ (r.minInclusive /\ r.min = x)) /\ (x < r.max \/ (r.maxInclusive /\ x = r.max))
  BY DEF Matches, Less, Same
<1> QED BY <1>1, <1>2 DEF IsNonEmpty, Less, Same

\* Rules are rejected for a value that has two of them, or for a rule of none.
LEMMA RejectedAmbiguous ==
    ASSUME NEW rules \in Seq(LogicalRange), NEW i \in DOMAIN rules, Rejects(rules, i)
    PROVE  AmbiguousRules(rules)
<1>1. CASE \E k \in DOMAIN rules : ~IsNonEmpty(rules[k])
  BY <1>1, MatchNonEmpty DEF AmbiguousRules
<1>2. CASE \A k \in DOMAIN rules : IsNonEmpty(rules[k])
  <2>1. PICK j \in 1..(i - 1) : Overlaps(rules[i], rules[j])
    BY <1>2 DEF Rejects
  <2>2. j \in DOMAIN rules /\ i # j /\ rules[i] \in LogicalRange /\ rules[j] \in LogicalRange
    OBVIOUS
  <2>3. PICK x \in Float : Matches(rules[i], x) /\ Matches(rules[j], x)
    BY <1>2, <2>1, <2>2, OverlapBoth
  <2> QED BY <2>2, <2>3 DEF AmbiguousRules
<1> QED BY <1>1, <1>2

InFile(i) == source.files[i].mapping

\* Two places of the combined mapping come from two places in the files.
Origins(g, h) ==
    \E i, j \in TomlFiles \ todo :
        \E g2 \in Places(InFile(i)), h2 \in Places(InFile(j)) :
            /\ <<i, g2>> # <<j, h2>> /\ g2[1] = g[1] /\ h2[1] = h[1]
            /\ At(InFile(i), g2) = At(combined, g) /\ At(InFile(j), h2) = At(combined, h)

Unmerged ==
    /\ \A g, h \in Places(combined) : g # h => Origins(g, h)
    /\ DOMAIN combined \cap BlankNodes = {}

\* Where a place of two mappings put together comes from.
LEMMA CombineOrigin ==
    ASSUME NEW m, NEW new, IsMapping(m), IsMapping(new), NEW h \in Places(Combine(m, new))
    PROVE  LET h2 == <<h[1], h[2] - Len(EntriesOf(m, h[1]))>>
           IN  \/ h \in Places(m) /\ At(m, h) = At(Combine(m, new), h)
               \/ h2 \in Places(new) /\ At(new, h2) = At(Combine(m, new), h)
<1> DEFINE c == Combine(m, new)
           n == h[1]
           k == h[2]
           s == EntriesOf(m, n)
           t == EntriesOf(new, n)
           h2 == <<n, k - Len(s)>>
<1>1. /\ h = <<n, k>> /\ n \in DOMAIN c /\ k \in DOMAIN c[n] /\ c[n] = s \o t
      /\ At(c, h) = c[n][k] /\ s \in Seq(Entry) /\ t \in Seq(Entry)
  <2>1. IsMapping(c) /\ h \in Places(c)
    BY CombineTypes
  <2>2. h = <<n, k>> /\ n \in DOMAIN c /\ k \in DOMAIN c[n] /\ At(c, h) = c[n][k]
    <3> HIDE DEF c
    <3> QED BY <2>1, PlaceTypes DEF At
  <2>3. c[n] = s \o t
    <3>1. \A k2 \in DOMAIN c : c[k2] = EntriesOf(m, k2) \o EntriesOf(new, k2)
      BY CombineTypes
    <3> HIDE DEF c, n
    <3> QED BY <2>2, <3>1
  <2>4. s \in Seq(Entry) /\ t \in Seq(Entry)
    BY EntriesOfTypes
  <2> QED BY <2>2, <2>3, <2>4
<1> HIDE DEF c, n, k
<1>2. \/ k \in DOMAIN s /\ c[n][k] = s[k]
      \/ k - Len(s) \in DOMAIN t /\ c[n][k] = t[k - Len(s)]
  BY <1>1
<1>3. CASE k \in DOMAIN s /\ c[n][k] = s[k]
  <2>1. n \in DOMAIN m /\ s = m[n]
    BY <1>3 DEF EntriesOf
  <2>2. h \in Places(m) /\ At(m, h) = At(c, h)
    BY <1>1, <1>3, <2>1, PlacesMade
  <2> QED BY <2>2 DEF c
<1>4. CASE k - Len(s) \in DOMAIN t /\ c[n][k] = t[k - Len(s)]
  <2>1. n \in DOMAIN new /\ t = new[n]
    BY <1>4 DEF EntriesOf
  <2>2. h2 \in Places(new) /\ At(new, h2) = At(c, h)
    BY <1>1, <1>4, <2>1, PlacesMade
  <2> QED BY <2>2 DEF c, n, k
<1> QED BY <1>2, <1>3, <1>4

\* An entry that is loaded is in one of the files that are.
LEMMA LoadedOrigin ==
    ASSUME MappingInv, NEW h \in Places(combined)
    PROVE  \E j \in TomlFiles \ todo : \E h2 \in Places(InFile(j)) :
               h2[1] = h[1] /\ At(InFile(j), h2) = At(combined, h)
<1>1. <<h[1], At(combined, h)>> \in Loaded
  BY DEF MappingInv, EntriesIn
<1>2. PICK j \in TomlFiles \ todo : <<h[1], At(combined, h)>> \in EntriesIn(InFile(j))
  BY <1>1 DEF Loaded, InFile
<1> QED BY <1>2 DEF EntriesIn

LEMMA LoadUnmerged ==
    ASSUME MappingInv, Unmerged, LoadFile PROVE Unmerged'
<1> DEFINE i == Min(todo)
           new == source.files[i].mapping
<1>1. /\ i \in todo /\ todo \subseteq TomlFiles
      /\ IsMapping(new) /\ IsMapping(combined) /\ Validate(new)
  BY SourceTypes, MinFacts DEF MappingInv, TypeOK, LoadFile, Loading, File, Current
<1>2. combined' = Combine(combined, new) /\ todo' = todo \ {i} /\ source' = source
  BY DEF LoadFile, File, Current
<1>3. /\ TomlFiles' = TomlFiles /\ InFile(i) = new
      /\ \A j : InFile(j)' = InFile(j)
      /\ TomlFiles \ todo' = (TomlFiles \ todo) \cup {i}
      /\ i \notin TomlFiles \ todo
  BY <1>1, <1>2 DEF TomlFiles, InFile
<1> HIDE DEF i, new
<1>4. DOMAIN combined' \cap BlankNodes = {}
  BY <1>1, <1>2, CombineTypes DEF Unmerged, Validate
<1>5. ASSUME NEW g \in Places(combined'), NEW h \in Places(combined'), g # h
      PROVE  \E f, j \in (TomlFiles \ todo) \cup {i} :
                \E g2 \in Places(InFile(f)), h2 \in Places(InFile(j)) :
                   /\ <<f, g2>> # <<j, h2>> /\ g2[1] = g[1] /\ h2[1] = h[1]
                   /\ At(InFile(f), g2) = At(combined', g)
                   /\ At(InFile(j), h2) = At(combined', h)
  <2> DEFINE G == <<g[1], g[2] - Len(EntriesOf(combined, g[1]))>>
             H == <<h[1], h[2] - Len(EntriesOf(combined, h[1]))>>
             Old(p) == p \in Places(combined) /\ At(combined, p) = At(combined', p)
             New(p, q) == q \in Places(new) /\ At(new, q) = At(combined', p)
  <2>1. (Old(g) \/ New(g, G)) /\ (Old(h) \/ New(h, H))
    BY <1>1, <1>2, CombineOrigin
  <2>2. CASE Old(g) /\ Old(h)
    BY <1>5, <2>2 DEF Unmerged, Origins
  <2>3. CASE Old(g) /\ New(h, H)
    <3>1. PICK f \in TomlFiles \ todo : \E g2 \in Places(InFile(f)) :
              g2[1] = g[1] /\ At(InFile(f), g2) = At(combined, g)
      BY <2>3, LoadedOrigin
    <3>2. PICK g2 \in Places(InFile(f)) : g2[1] = g[1] /\ At(InFile(f), g2) = At(combined, g)
      BY <3>1
    <3>3. H \in Places(InFile(i)) /\ H[1] = h[1] /\ At(InFile(i), H) = At(combined', h)
      BY <1>3, <2>3
    <3>4. f # i /\ At(combined, g) = At(combined', g)
      BY <1>3, <2>3, <3>1
    <3> HIDE DEF H
    <3>5. <<f, g2>> # <<i, H>>
      BY <3>4
    <3> QED BY <3>2, <3>3, <3>4, <3>5
  <2>4. CASE New(g, G) /\ Old(h)
    <3>1. PICK f \in TomlFiles \ todo : \E h2 \in Places(InFile(f)) :
              h2[1] = h[1] /\ At(InFile(f), h2) = At(combined, h)
      BY <2>4, LoadedOrigin
    <3>2. PICK h2 \in Places(InFile(f)) : h2[1] = h[1] /\ At(InFile(f), h2) = At(combined, h)
      BY <3>1
    <3>3. G \in Places(InFile(i)) /\ G[1] = g[1] /\ At(InFile(i), G) = At(combined', g)
      BY <1>3, <2>4
    <3>4. f # i /\ At(combined, h) = At(combined', h)
      BY <1>3, <2>4, <3>1
    <3> HIDE DEF G
    <3>5. <<i, G>> # <<f, h2>>
      BY <3>4
    <3> QED BY <3>2, <3>3, <3>4, <3>5
  <2>5. CASE New(g, G) /\ New(h, H)
    <3>1. /\ G \in Places(InFile(i)) /\ G[1] = g[1] /\ At(InFile(i), G) = At(combined', g)
          /\ H \in Places(InFile(i)) /\ H[1] = h[1] /\ At(InFile(i), H) = At(combined', h)
      BY <1>3, <2>5
    <3>2. G # H
      <4>1. IsMapping(combined')
        BY <1>1, <1>2, CombineTypes
      <4>2. g = <<g[1], g[2]>> /\ h = <<h[1], h[2]>> /\ g[2] \in Int /\ h[2] \in Int
        BY <4>1, PlaceTypes
      <4>3. Len(EntriesOf(combined, g[1])) \in Int
        BY <1>1, EntriesOfTypes
      <4>4. CASE g[1] # h[1]
        BY <4>4
      <4>5. CASE g[1] = h[1] /\ g[2] # h[2]
        BY <4>2, <4>3, <4>5
      <4> QED BY <1>5, <4>2, <4>4, <4>5
    <3> HIDE DEF G, H
    <3> QED BY <3>1, <3>2
  <2> QED BY <2>1, <2>2, <2>3, <2>4, <2>5
<1>6. \A g, h \in Places(combined') : g # h => Origins(g, h)'
  BY <1>3, <1>5 DEF Origins
<1> QED BY <1>4, <1>6 DEF Unmerged

LEMMA UnmergedInvariance == Spec => [](MappingInv /\ Unmerged)
<1>1. Init => Unmerged
  <2>1. DOMAIN NoMapping = {}
    BY DEF NoMapping
  <2> QED BY <2>1, NoEntries DEF Init, Unmerged
<1>2. ASSUME MappingInv, Unmerged, [Next]_vars PROVE Unmerged'
  <2>1. CASE Default \/ NoFiles \/ RefuseFile \/ Finish \/ UNCHANGED vars
    <3>1. UNCHANGED <<source, todo, combined>>
      BY <2>1 DEF Default, NoFiles, RefuseFile, Finish, vars
    <3> QED BY <1>2, <3>1 DEF Unmerged, Origins, InFile, TomlFiles
  <2> QED BY <1>2, <2>1, LoadUnmerged DEF Next
<1> QED BY <1>1, <1>2, MappingInvariance, PTL DEF Spec

\* What is wrong with an entry.
FaultyEntry(e) ==
    \/ e.name \in Blank \cup Coloned \/ e.raw \in Blank
    \/ e.slope \in {0, Inf, -Inf, NaN} \/ e.offset \in {Inf, -Inf, NaN}
    \/ AmbiguousRules(e.logical)

LEMMA InvalidEntry ==
    ASSUME NEW e \in Entry, ~ValidEntry(e) PROVE FaultyEntry(e)
<1>1. e.logical \in Seq(LogicalRange)
  BY DEF Entry
<1>2. CASE \E i \in DOMAIN e.logical : Rejects(e.logical, i)
  BY <1>1, <1>2, RejectedAmbiguous DEF FaultyEntry
<1>3. CASE \A i \in DOMAIN e.logical : ~Rejects(e.logical, i)
  BY <1>3 DEF ValidEntry, FaultyEntry, IsFinite
<1> QED BY <1>2, <1>3

LEMMA DeclaredFaulty ==
    ASSUME NEW d \in Declared, FaultyEntry(d[2]) PROVE Faulty
  BY DEF Faulty, FaultyEntry

LEMMA FileFaulty ==
    ASSUME MappingInv, NEW i \in TomlFiles, ~Validate(InFile(i)) PROVE Faulty
<1> DEFINE m == InFile(i)
<1>1. IsMapping(m)
  BY SourceTypes DEF MappingInv, InFile
<1>2. CASE \E n \in DOMAIN m : n \in BlankNodes
  BY <1>2 DEF Faulty, InFile
<1>3. CASE \E h \in Places(m) : ~ValidEntry(At(m, h))
  <2>1. PICK h \in Places(m) : ~ValidEntry(At(m, h))
    BY <1>3
  <2> DEFINE d == <<h[1], At(m, h)>>
  <2>2. d \in Declared
    BY DEF Declared, EntriesIn, InFile
  <2>3. FaultyEntry(d[2])
    BY <1>1, <2>1, PlaceTypes, InvalidEntry
  <2> HIDE DEF d
  <2> QED BY <2>2, <2>3, DeclaredFaulty
<1>4. CASE \E g, h \in Places(m) : Clash(m, g, h)
  <2>1. PICK g \in Places(m), h \in Places(m) : Clash(m, g, h)
    BY <1>4
  <2> QED BY <2>1 DEF Faulty, Clash, InFile
<1> QED BY <1>2, <1>3, <1>4 DEF Validate

LEMMA WholeFaulty ==
    ASSUME MappingInv, Unmerged, todo = {}, ~Validate(combined) PROVE Faulty
<1>1. IsMapping(combined) /\ EntriesIn(combined) = Declared
  BY DEF MappingInv, TypeOK, Loaded, Declared
<1>2. CASE \E h \in Places(combined) : ~ValidEntry(At(combined, h))
  <2>1. PICK h \in Places(combined) : ~ValidEntry(At(combined, h))
    BY <1>2
  <2> DEFINE d == <<h[1], At(combined, h)>>
  <2>2. d \in Declared
    BY <1>1 DEF EntriesIn
  <2>3. FaultyEntry(d[2])
    BY <1>1, <2>1, PlaceTypes, InvalidEntry
  <2> HIDE DEF d
  <2> QED BY <2>2, <2>3, DeclaredFaulty
<1>3. CASE \E g, h \in Places(combined) : Clash(combined, g, h)
  <2>1. PICK g \in Places(combined), h \in Places(combined) : Clash(combined, g, h)
    BY <1>3
  <2>2. Origins(g, h)
    BY <2>1 DEF Unmerged, Clash
  <2>3. PICK i \in TomlFiles, j \in TomlFiles :
            \E g2 \in Places(InFile(i)), h2 \in Places(InFile(j)) :
               /\ <<i, g2>> # <<j, h2>> /\ g2[1] = g[1] /\ h2[1] = h[1]
               /\ At(InFile(i), g2) = At(combined, g) /\ At(InFile(j), h2) = At(combined, h)
    BY <2>2 DEF Origins
  <2> QED BY <2>1, <2>3 DEF Faulty, Clash, InFile
<1> QED BY <1>2, <1>3 DEF Validate, Unmerged

LEMMA FaultyKept ==
    ASSUME source' = source PROVE Faulty' = Faulty
<1>1. TomlFiles' = TomlFiles
  BY DEF TomlFiles
<1>2. Declared' = Declared
  BY <1>1 DEF Declared
<1> QED BY <1>1, <1>2 DEF Faulty

\* A start is refused only for something that is wrong with the files: never
\* for two ranges that touch, nor for entries that are alike in no name.
THEOREM RefusalsCaused == Spec => []RefusedForCause
<1>1. ASSUME MappingInv, Unmerged, RefusedForCause, [Next]_vars PROVE RefusedForCause'
  <2>1. CASE NoFiles
    <3>1. Faulty /\ source' = source
      BY <2>1 DEF NoFiles, Faulty
    <3> QED BY <3>1, FaultyKept DEF RefusedForCause
  <2>2. CASE RefuseFile
    <3>1. /\ Min(todo) \in TomlFiles /\ IsMapping(InFile(Min(todo)))
          /\ File = source.files[Min(todo)] /\ File.mapping = InFile(Min(todo))
      BY <1>1, <2>2, SourceTypes, MinFacts
         DEF MappingInv, TypeOK, RefuseFile, Loading, File, Current, InFile
    <3>2. File.kind = "broken" \/ ~Validate(InFile(Min(todo)))
      BY <2>2, <3>1, ComparedOrdered DEF RefuseFile
    <3>3. Faulty
      BY <1>1, <3>1, <3>2, FileFaulty DEF Faulty
    <3>4. source' = source
      BY <2>2 DEF RefuseFile
    <3> QED BY <3>3, <3>4, FaultyKept DEF RefusedForCause
  <2>3. CASE Finish
    <3>1. ~Panics(combined)
      BY <1>1, ComparedOrdered DEF MappingInv, TypeOK
    <3>2. result' = "refused" => Faulty
      BY <1>1, <2>3, <3>1, WholeFaulty DEF Finish
    <3>3. source' = source
      BY <2>3 DEF Finish
    <3> QED BY <3>2, <3>3, FaultyKept DEF RefusedForCause
  <2>4. CASE Default \/ LoadFile \/ UNCHANGED vars
    <3>1. source' = source /\ (result' = "refused" => result = "refused")
      BY <2>4 DEF Default, LoadFile, vars
    <3> QED BY <1>1, <3>1, FaultyKept DEF RefusedForCause
  <2> QED BY <1>1, <2>1, <2>2, <2>3, <2>4 DEF Next
<1>2. Init => RefusedForCause
  BY DEF Init, RefusedForCause
<1> QED BY <1>1, <1>2, UnmergedInvariance, PTL DEF Spec

=============================================================================
