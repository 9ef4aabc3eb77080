--------------------------- MODULE RegistryProofs ---------------------------
(***************************************************************************)
(* Proofs about NodeRegistry and FieldAccess for every set of nodes,       *)
(* fields, firmwares and mapping entries, and for every bound: any number  *)
(* of reboots, lost frames, reports and calls.                             *)
(***************************************************************************)
EXTENDS FieldAccess, FiniteSetTheorems, TLAPS

-----------------------------------------------------------------------------
(* Maps.                                                                   *)

\* Inserting into a map and removing from it keep its type.
LEMMA PutType ==
    ASSUME NEW K, NEW S, NEW f, IsMap(f, K, S), NEW k \in K, NEW v \in S
    PROVE  IsMap(Put(f, k, v), K, S)
BY DEF IsMap, Put

\* The empty map is a map of any type.
LEMMA EmptyMapType ==
    ASSUME NEW K, NEW S
    PROVE  IsMap(EmptyMap, K, S)
BY DEF IsMap, EmptyMap

-----------------------------------------------------------------------------
(* CanNode.                                                                *)

LEMMA NewCanNodeType ==
    ASSUME NEW p \in Profiles
    PROVE  IsCanNode(NewCanNode(p))
BY EmptyMapType DEF IsCanNode, NewCanNode

\* What a registration message adds keeps an entry an entry, without values.
LEMMA ExtendedType ==
    ASSUME NEW c, IsCanNode(c), NEW m \in Registrations
    PROVE  IsCanNode(Extended(c, m)) /\ Extended(c, m).values = c.values
<1>1. CASE m.kind = "tel"
  <2>1. m.id \in Fields /\ m.field \in Infos
    BY <1>1 DEF Registrations
  <2>2. IsMap(Put(c.tel, m.id, m.field), Fields, Infos)
    BY <2>1, PutType DEF IsCanNode
  <2> QED
    BY <1>1, <2>2 DEF Extended, IsCanNode
<1>2. CASE m.kind = "par"
  <2>1. m.id \in Fields /\ m.field \in Infos
    BY <1>2 DEF Registrations
  <2>2. IsMap(Put(c.par, m.id, m.field), Fields, Infos)
    BY <2>1, PutType DEF IsCanNode
  <2> QED
    BY <1>2, <2>2 DEF Extended, IsCanNode
<1>3. CASE m.kind = "group"
  <2>1. m.id \in Groups /\ m.fields \in Seq(Fields)
    BY <1>3 DEF Registrations
  <2>2. IsMap(Put(c.groups, m.id, m.fields), Groups, Seq(Fields))
    BY <2>1, PutType DEF IsCanNode
  <2> QED
    BY <1>3, <2>2 DEF Extended, IsCanNode
<1> QED
  BY <1>1, <1>2, <1>3 DEF Registrations

\* Storing values changes nothing that completeness depends on.
LEMMA CompleteKeepsValues ==
    ASSUME NEW c, IsCanNode(c), NEW v
    PROVE  Complete([c EXCEPT !.values = v]) = Complete(c)
BY DEF Complete, IsCanNode

-----------------------------------------------------------------------------
(* Types.                                                                  *)

LEMMA InitType == Init => TypeOK
<1> SUFFICES ASSUME Init PROVE TypeOK
  OBVIOUS
<1>1. unsent \in [Nodes -> SUBSET Registrations]
  <2>1. \A n \in Nodes, p \in Profiles : RegistrationsOf(n, p) \subseteq Registrations
    BY ProfilesAssumption DEF RegistrationsOf, Registrations, IsMap
  <2> QED
    BY <2>1 DEF Init
<1>2. DOMAIN registering \subseteq Nodes /\ DOMAIN registered \subseteq Nodes
  BY DEF Init, EmptyMap
<1>3. /\ \A n \in DOMAIN registering : IsCanNode(registering[n])
      /\ \A n \in DOMAIN registered : IsCanNode(registered[n])
  BY DEF Init, EmptyMap
<1>4. /\ DOMAIN logged = Nodes
      /\ \A n \in Nodes : IsMap(logged[n], Fields, Nat)
  BY EmptyMapType DEF Init
<1> QED
  BY <1>1, <1>2, <1>3, <1>4, BoundsAssumption DEF Init, TypeOK

\* What a node sends is a message.
LEMMA DeliverType ==
    ASSUME TypeOK, NEW m \in Message, Deliver(m)
    PROVE  inbox' \in Seq(Message) /\ lost' \in 0..MaxLost
<1>1. inbox' \in Seq(Message)
  BY DEF TypeOK, Deliver
<1>2. lost' \in 0..MaxLost
  BY BoundsAssumption DEF TypeOK, Deliver
<1> QED
  BY <1>1, <1>2

LEMMA BusType ==
    ASSUME TypeOK, NEW n \in Nodes,
           \/ \E p \in Profiles : Boot(n, p)
           \/ Register(n)
           \/ Report(n)
    PROVE  TypeOK'
<1>1. ASSUME NEW p \in Profiles, Boot(n, p)
      PROVE  TypeOK'
  <2>1. RegistrationsOf(n, p) \subseteq Registrations
    BY ProfilesAssumption DEF RegistrationsOf, Registrations, IsMap
  <2> QED
    BY <1>1, <2>1, BoundsAssumption DEF TypeOK, Boot
<1>2. CASE Announce(n)
  <2>1. [kind |-> "announce", node |-> n, info |-> fw[n]] \in Message
    BY DEF TypeOK, Message
  <2>2. inbox' \in Seq(Message) /\ lost' \in 0..MaxLost
    BY <1>2, <2>1, DeliverType DEF Announce
  <2> QED
    BY <1>2, <2>2 DEF TypeOK, Announce
<1>3. ASSUME NEW m \in unsent[n], SendRegistration(n, m)
      PROVE  TypeOK'
  <2>1. m \in Message
    BY DEF TypeOK, Message
  <2>2. inbox' \in Seq(Message) /\ lost' \in 0..MaxLost
    BY <1>3, <2>1, DeliverType DEF SendRegistration
  <2> QED
    BY <1>3, <2>2 DEF TypeOK, SendRegistration
<1>4. ASSUME NEW m \in Message, ReportWith(n, m)
      PROVE  TypeOK'
  <2>1. inbox' \in Seq(Message) /\ lost' \in 0..MaxLost
    BY <1>4, DeliverType DEF ReportWith
  <2> QED
    BY <1>4, <2>1, BoundsAssumption DEF TypeOK, ReportWith
<1>5. CASE Report(n)
  <2> DEFINE v == [sample |-> reports + 1, as |-> fw[n]]
  <2>1. v \in Value /\ fw[n] \in Profiles
    BY BoundsAssumption DEF TypeOK, Value
  <2>2. ASSUME NEW g \in DOMAIN GroupsOf[fw[n]], NEW k \in 0..Len(GroupsOf[fw[n]][g])
        PROVE  [kind |-> "update", node |-> n, id |-> g, value |-> v, good |-> k] \in Message
    <3>1. g \in Groups /\ k \in Nat
      BY <2>1, <2>2, ProfilesAssumption DEF IsMap
    <3> QED
      BY <2>1, <3>1 DEF Message
  <2>3. ASSUME NEW f \in DOMAIN TelOf[fw[n]] \cup DOMAIN ParOf[fw[n]], NEW b \in BOOLEAN
        PROVE  [kind |-> "value", node |-> n, id |-> f, value |-> v, ok |-> b] \in Message
    <3>1. f \in Fields
      BY <2>1, <2>3, ProfilesAssumption DEF IsMap
    <3> QED
      BY <2>1, <3>1 DEF Message
  <2> QED
    BY <1>4, <1>5, <2>2, <2>3 DEF Report
<1> QED
  BY <1>1, <1>2, <1>3, <1>5 DEF Register

\* The message the handler takes, by its kind.
LEMMA HeadType ==
    ASSUME TypeOK, inbox # <<>>
    PROVE  /\ Head(inbox) \in Message /\ Tail(inbox) \in Seq(Message)
           /\ Head(inbox).node \in Nodes
           /\ Head(inbox).kind = "announce" => Head(inbox).info \in Profiles
           /\ Head(inbox).kind \in {"tel", "par", "group"} => Head(inbox) \in Registrations
           /\ Head(inbox).kind \in {"update", "value"} => Head(inbox).value \in Value
           /\ Head(inbox).kind = "value" => Head(inbox).id \in Fields
<1>1. Head(inbox) \in Message /\ Tail(inbox) \in Seq(Message)
  BY DEF TypeOK
<1> QED
  BY <1>1 DEF Message, Registrations

LEMMA StoreType ==
    ASSUME TypeOK, inbox # <<>>, NEW n \in DOMAIN registered,
           NEW ids \in SUBSET Fields, NEW v \in Value, Store(n, ids, v)
    PROVE  TypeOK'
<1>1. n \in Nodes /\ IsCanNode(registered[n]) /\ inbox' \in Seq(Message)
  BY HeadType DEF TypeOK, Store
<1> DEFINE w == [f \in DOMAIN registered[n].values \cup ids |->
                    IF f \in ids THEN v ELSE registered[n].values[f]]
           l == [f \in DOMAIN logged[n] \cup ids |->
                    IF f \in ids THEN v.sample ELSE logged[n][f]]
<1>2. registered' = [registered EXCEPT ![n] = [@ EXCEPT !.values = w]]
  BY <1>1 DEF Store, IsCanNode
<1>3. IsMap(w, Fields, Value)
  BY <1>1 DEF IsCanNode, IsMap
<1>4. IsCanNode([registered[n] EXCEPT !.values = w])
  BY <1>1, <1>3 DEF IsCanNode
<1>5. IsMap(l, Fields, Nat) /\ logged' = [logged EXCEPT ![n] = l]
  BY <1>1 DEF TypeOK, Store, IsMap, Value
<1>6. /\ DOMAIN registered' \subseteq Nodes
      /\ \A k \in DOMAIN registered' : IsCanNode(registered'[k])
  BY <1>1, <1>2, <1>4 DEF TypeOK
<1>7. DOMAIN logged' = Nodes /\ \A k \in Nodes : IsMap(logged'[k], Fields, Nat)
  BY <1>1, <1>5 DEF TypeOK
<1> QED
  BY <1>1, <1>6, <1>7 DEF TypeOK, Store, busVars

\* A change of the two tables of nodes that keeps their entries typed.
LEMMA TablesType ==
    ASSUME TypeOK, inbox # <<>>, inbox' = Tail(inbox), UNCHANGED <<busVars, logged>>,
           DOMAIN registering' \subseteq Nodes, DOMAIN registered' \subseteq Nodes,
           \A n \in DOMAIN registering' : IsCanNode(registering'[n]),
           \A n \in DOMAIN registered' : IsCanNode(registered'[n])
    PROVE  TypeOK'
BY HeadType DEF TypeOK, busVars

\* The same after one entry was inserted in one of them.
LEMMA PutNodeType ==
    ASSUME NEW t, DOMAIN t \subseteq Nodes, \A n \in DOMAIN t : IsCanNode(t[n]),
           NEW k \in Nodes, NEW c, IsCanNode(c)
    PROVE  /\ DOMAIN Put(t, k, c) \subseteq Nodes
           /\ \A n \in DOMAIN Put(t, k, c) : IsCanNode(Put(t, k, c)[n])
BY DEF Put

LEMMA HandleType ==
    ASSUME TypeOK, Handle
    PROVE  TypeOK'
<1>1. CASE HandleAnnouncement
  <2> DEFINE n == Head(inbox).node
             c == NewCanNode(Head(inbox).info)
  <2>1. inbox # <<>> /\ n \in Nodes /\ Head(inbox).info \in Profiles /\ IsCanNode(c)
    BY <1>1, HeadType, NewCanNodeType DEF HandleAnnouncement, Takes
  <2>2. /\ DOMAIN registering' \subseteq Nodes /\ DOMAIN registered' \subseteq Nodes
        /\ \A k \in DOMAIN registering' : IsCanNode(registering'[k])
        /\ \A k \in DOMAIN registered' : IsCanNode(registered'[k])
    <3> HIDE DEF c, n
    <3>1. \/ registered' = Put(registered, n, c) /\ UNCHANGED registering
          \/ registering' = Put(registering, n, c) /\ UNCHANGED registered
      BY <1>1 DEF HandleAnnouncement, c, n
    <3> QED
      BY <2>1, <3>1, PutNodeType DEF TypeOK
  <2> QED
    BY <1>1, <2>1, <2>2, TablesType DEF HandleAnnouncement
<1>2. CASE HandleRegistration
  <2> DEFINE n == Head(inbox).node
             c == Extended(registering[n], Head(inbox))
  <2>1. inbox # <<>> /\ n \in DOMAIN registering /\ Head(inbox) \in Registrations
    BY <1>2, HeadType DEF HandleRegistration, Takes
  <2>2. n \in Nodes /\ IsCanNode(c)
    BY <2>1, ExtendedType DEF TypeOK
  <2>3. /\ DOMAIN registering' \subseteq Nodes /\ DOMAIN registered' \subseteq Nodes
        /\ \A k \in DOMAIN registering' : IsCanNode(registering'[k])
        /\ \A k \in DOMAIN registered' : IsCanNode(registered'[k])
    <3> HIDE DEF c, n
    <3>1. \/ registering' = Remove(registering, n) /\ registered' = Put(registered, n, c)
          \/ registering' = Put(registering, n, c) /\ UNCHANGED registered
      BY <1>2 DEF HandleRegistration, c, n
    <3>2. CASE registering' = Remove(registering, n) /\ registered' = Put(registered, n, c)
      BY <2>2, <3>2, PutNodeType DEF TypeOK, Remove
    <3>3. CASE registering' = Put(registering, n, c) /\ UNCHANGED registered
      BY <2>2, <3>3, PutNodeType DEF TypeOK
    <3> QED
      BY <3>1, <3>2, <3>3
  <2> QED
    BY <1>2, <2>1, <2>3, TablesType DEF HandleRegistration, TypeOK
<1>3. CASE HandleGroupUpdate
  <2> DEFINE m == Head(inbox)
             ids == registered[m.node].groups[m.id]
             got == {ids[i] : i \in {j \in 1..Len(ids) : j <= m.good}}
  <2>1. inbox # <<>> /\ m.node \in DOMAIN registered /\ m.value \in Value
    BY <1>3, HeadType DEF HandleGroupUpdate, Takes, UpdateDecodable
  <2>2. ids \in Seq(Fields)
    BY <1>3, <2>1 DEF HandleGroupUpdate, UpdateDecodable, TypeOK, IsCanNode, IsMap
  <2>3. got \subseteq Fields
    BY <2>2
  <2>4. Store(m.node, got, m.value)
    BY <1>3 DEF HandleGroupUpdate
  <2> HIDE DEF got
  <2> QED
    BY <2>1, <2>3, <2>4, StoreType
<1>4. CASE HandleFieldGetRes
  BY <1>4, HeadType, StoreType DEF HandleFieldGetRes, Takes, ResponseDecodable
<1>5. CASE HandleError /\ inbox # <<>>
  BY <1>5, HeadType DEF HandleError, TypeOK, busVars
<1> QED
  BY <1>1, <1>2, <1>3, <1>4, <1>5
  DEF Handle, RejectRegistration, RejectGroupUpdate, RejectFieldGetRes, Takes

LEMMA NextType == TypeOK /\ [Next]_vars => TypeOK'
<1> SUFFICES ASSUME TypeOK, [Next]_vars PROVE TypeOK'
  OBVIOUS
<1>1. CASE UNCHANGED vars
  BY <1>1 DEF vars, busVars, TypeOK
<1> QED
  BY <1>1, BusType, HandleType DEF Next

\* Types hold for every set of firmwares and every bound.
THEOREM TypeCorrect == Spec => []TypeOK
<1> QED
  BY InitType, NextType, PTL DEF Spec

-----------------------------------------------------------------------------
(* Completeness and the cache.                                             *)

\* An entry that is still registering has no values: it starts with none and
\* only registered nodes' values are stored.
NoValuesYet == \A n \in DOMAIN registering : registering[n].values = EmptyMap

RegistryInv == TypeOK /\ CompletenessSplit /\ CacheIsLogged /\ NoValuesYet

LEMMA InitRegistry == Init => RegistryInv
<1> SUFFICES ASSUME Init PROVE RegistryInv
  OBVIOUS
<1>1. DOMAIN registered = {} /\ DOMAIN registering = {}
  BY DEF Init, EmptyMap
<1> QED
  BY <1>1, InitType DEF RegistryInv, CompletenessSplit, CacheIsLogged, NoValuesYet

\* An entry without values may be inserted among the registered ones when it is
\* complete, among the registering ones when it is not.
LEMMA PutInv ==
    ASSUME RegistryInv, UNCHANGED logged, NEW n \in Nodes, NEW c, c.values = EmptyMap,
           \/ /\ Complete(c) /\ registered' = Put(registered, n, c)
              /\ UNCHANGED registering \/ registering' = Remove(registering, n)
           \/ ~Complete(c) /\ registering' = Put(registering, n, c) /\ UNCHANGED registered
    PROVE  (CompletenessSplit /\ CacheIsLogged /\ NoValuesYet)'
<1>0. DOMAIN c.values = {}
  BY DEF EmptyMap
<1>1. CASE /\ Complete(c) /\ registered' = Put(registered, n, c)
           /\ UNCHANGED registering \/ registering' = Remove(registering, n)
  <2>1. /\ DOMAIN registering' \subseteq DOMAIN registering
        /\ \A k \in DOMAIN registering' : registering'[k] = registering[k]
    BY <1>1 DEF Remove
  <2>2. /\ DOMAIN registered' = DOMAIN registered \cup {n} /\ registered'[n] = c
        /\ \A k \in DOMAIN registered : k # n => registered'[k] = registered[k]
    BY <1>1 DEF Put
  <2>3. CompletenessSplit'
    BY <1>1, <2>1, <2>2 DEF RegistryInv, CompletenessSplit
  <2>4. CacheIsLogged'
    BY <1>0, <2>2 DEF RegistryInv, CacheIsLogged
  <2>5. NoValuesYet'
    BY <2>1 DEF RegistryInv, NoValuesYet
  <2> QED
    BY <2>3, <2>4, <2>5
<1>2. CASE ~Complete(c) /\ registering' = Put(registering, n, c) /\ UNCHANGED registered
  <2>1. /\ DOMAIN registering' = DOMAIN registering \cup {n} /\ registering'[n] = c
        /\ \A k \in DOMAIN registering : k # n => registering'[k] = registering[k]
    BY <1>2 DEF Put
  <2> QED
    BY <1>2, <2>1 DEF RegistryInv, CompletenessSplit, CacheIsLogged, NoValuesYet
<1> QED
  BY <1>1, <1>2

LEMMA StoreInv ==
    ASSUME RegistryInv, NEW n \in DOMAIN registered, NEW v \in Value,
           NEW ids \in SUBSET (DOMAIN registered[n].tel \cup DOMAIN registered[n].par),
           Store(n, ids, v)
    PROVE  (CompletenessSplit /\ CacheIsLogged /\ NoValuesYet)'
<1>1. n \in Nodes /\ IsCanNode(registered[n]) /\ UNCHANGED registering
  BY DEF RegistryInv, TypeOK, Store
<1> DEFINE w == [f \in DOMAIN registered[n].values \cup ids |->
                    IF f \in ids THEN v ELSE registered[n].values[f]]
           l == [f \in DOMAIN logged[n] \cup ids |->
                    IF f \in ids THEN v.sample ELSE logged[n][f]]
           c == [registered[n] EXCEPT !.values = w]
<1>2. registered' = [registered EXCEPT ![n] = c] /\ logged' = [logged EXCEPT ![n] = l]
  BY DEF Store
<1>3. /\ DOMAIN registered' = DOMAIN registered /\ registered'[n] = c
      /\ \A k \in DOMAIN registered : k # n => registered'[k] = registered[k]
  BY <1>2
<1>4. logged'[n] = l /\ \A k \in Nodes : k # n => logged'[k] = logged[k]
  BY <1>1, <1>2 DEF RegistryInv, TypeOK
<1>5. Complete(c)
  BY <1>1, CompleteKeepsValues DEF RegistryInv, CompletenessSplit
<1>6. c.values = w /\ c.tel = registered[n].tel /\ c.par = registered[n].par
  BY <1>1 DEF IsCanNode
<1>7. \A f \in DOMAIN w :
        /\ f \in DOMAIN registered[n].tel \cup DOMAIN registered[n].par
        /\ f \in DOMAIN l /\ l[f] = w[f].sample
  BY DEF RegistryInv, CacheIsLogged
<1> HIDE DEF w, l, c
<1>8. CompletenessSplit'
  BY <1>1, <1>3, <1>5 DEF RegistryInv, CompletenessSplit
<1>9. CacheIsLogged'
  <2> SUFFICES ASSUME NEW k \in DOMAIN registered, NEW f \in DOMAIN registered'[k].values
               PROVE  /\ f \in DOMAIN registered'[k].tel \cup DOMAIN registered'[k].par
                      /\ f \in DOMAIN logged'[k]
                      /\ logged'[k][f] = registered'[k].values[f].sample
    BY <1>3 DEF CacheIsLogged
  <2>1. CASE k = n
    BY <2>1, <1>3, <1>4, <1>6, <1>7
  <2>2. CASE k # n
    BY <2>2, <1>3, <1>4 DEF RegistryInv, TypeOK, CacheIsLogged
  <2> QED
    BY <2>1, <2>2
<1> QED
  BY <1>1, <1>8, <1>9 DEF RegistryInv, NoValuesYet

LEMMA HandleInv ==
    ASSUME RegistryInv, Handle
    PROVE  (CompletenessSplit /\ CacheIsLogged /\ NoValuesYet)'
<1>0. TypeOK
  BY DEF RegistryInv
<1>1. CASE HandleAnnouncement
  <2> DEFINE n == Head(inbox).node
             c == NewCanNode(Head(inbox).info)
  <2>1. n \in Nodes /\ c.values = EmptyMap
    BY <1>0, <1>1, HeadType DEF HandleAnnouncement, Takes, NewCanNode
  <2> HIDE DEF n, c
  <2>2. \/ Complete(c) /\ registered' = Put(registered, n, c) /\ UNCHANGED registering
        \/ ~Complete(c) /\ registering' = Put(registering, n, c) /\ UNCHANGED registered
    BY <1>1 DEF HandleAnnouncement, n, c
  <2>3. UNCHANGED logged
    BY <1>1 DEF HandleAnnouncement
  <2> QED
    BY <2>1, <2>2, <2>3, PutInv
<1>2. CASE HandleRegistration
  <2> DEFINE n == Head(inbox).node
             c == Extended(registering[n], Head(inbox))
  <2>1. n \in DOMAIN registering /\ n \in Nodes /\ c.values = registering[n].values
    BY <1>0, <1>2, HeadType, ExtendedType DEF HandleRegistration, Takes, TypeOK
  <2>2. c.values = EmptyMap
    BY <2>1 DEF RegistryInv, NoValuesYet
  <2> HIDE DEF n, c
  <2>3. \/ /\ Complete(c) /\ registered' = Put(registered, n, c)
           /\ registering' = Remove(registering, n)
        \/ ~Complete(c) /\ registering' = Put(registering, n, c) /\ UNCHANGED registered
    BY <1>2 DEF HandleRegistration, CompletedBy, n, c
  <2>4. UNCHANGED logged
    BY <1>2 DEF HandleRegistration
  <2> QED
    BY <2>1, <2>2, <2>3, <2>4, PutInv
<1>3. CASE HandleGroupUpdate
  <2> DEFINE m == Head(inbox)
             ids == registered[m.node].groups[m.id]
             got == {ids[i] : i \in {j \in 1..Len(ids) : j <= m.good}}
  <2>1. m.node \in DOMAIN registered /\ m.value \in Value
    BY <1>0, <1>3, HeadType DEF HandleGroupUpdate, Takes, UpdateDecodable
  <2>2. ids \in Seq(Fields) /\ Range(ids) \subseteq DOMAIN registered[m.node].tel
    BY <1>0, <1>3, <2>1 DEF HandleGroupUpdate, UpdateDecodable, TypeOK, IsCanNode, IsMap
  <2>3. got \subseteq DOMAIN registered[m.node].tel
    BY <2>2 DEF Range
  <2>4. Store(m.node, got, m.value)
    BY <1>3 DEF HandleGroupUpdate
  <2> HIDE DEF got
  <2>5. got \in SUBSET (DOMAIN registered[m.node].tel \cup DOMAIN registered[m.node].par)
    BY <2>3
  <2> QED
    BY <2>1, <2>4, <2>5, StoreInv
<1>4. CASE HandleFieldGetRes
  BY <1>0, <1>4, HeadType, StoreInv DEF HandleFieldGetRes, Takes, ResponseDecodable
<1>5. CASE HandleError
  BY <1>5 DEF HandleError, RegistryInv, CompletenessSplit, CacheIsLogged, NoValuesYet
<1> QED
  BY <1>1, <1>2, <1>3, <1>4, <1>5
  DEF Handle, RejectRegistration, RejectGroupUpdate, RejectFieldGetRes

LEMMA NextRegistry == RegistryInv /\ [Next]_vars => RegistryInv'
<1> SUFFICES ASSUME RegistryInv, [Next]_vars PROVE RegistryInv'
  OBVIOUS
<1>1. TypeOK'
  BY NextType DEF RegistryInv
<1>2. CASE Handle
  BY <1>1, <1>2, HandleInv DEF RegistryInv
<1>3. CASE ~Handle
  <2>1. UNCHANGED <<registering, registered, logged>>
    BY <1>3 DEF Next, Boot, Register, Announce, SendRegistration, Report, ReportWith, vars
  <2> QED
    BY <1>1, <2>1 DEF RegistryInv, CompletenessSplit, CacheIsLogged, NoValuesYet
<1> QED
  BY <1>2, <1>3

\* The inductive invariant of the registry, on a bus that may lose frames.
THEOREM Invariance == Spec => []RegistryInv
<1> QED
  BY InitRegistry, NextRegistry, PTL DEF Spec

\* Registered nodes are complete, registering ones are not, whatever was lost
\* on the bus and however often nodes rebooted.
THEOREM Split == Spec => []CompletenessSplit
<1>1. RegistryInv => CompletenessSplit
  BY DEF RegistryInv
<1> QED
  BY <1>1, Invariance, PTL

\* The cache holds the value last dispatched of each field, and only values of
\* fields the node has registered.
THEOREM CacheFollowsLog == Spec => []CacheIsLogged
<1>1. RegistryInv => CacheIsLogged
  BY DEF RegistryInv
<1> QED
  BY <1>1, Invariance, PTL

-----------------------------------------------------------------------------
(* The queue of the handler, node by node, when nothing is lost on the way.*)
(*                                                                         *)
(* A place of the queue q belongs to a boot of the node n: the one that    *)
(* the last announcement of n before it starts, or, where there is none,   *)
(* the one whose announcement, c, was handled last (0 stands for it).      *)

Starts(q, n) == {0} \cup {i \in DOMAIN q : q[i].node = n /\ q[i].kind = "announce"}
Opens(q, n, i, j) == /\ i \in Starts(q, n) /\ i < j
                     /\ \A k \in Starts(q, n) : ~(i < k /\ k < j)

\* The firmwares announced at i: one, or none before the first announcement.
FirmwareAt(q, c, i) == IF i = 0 THEN c ELSE {q[i].info}

\* The registration r of the boot at i came before j, or was handled: is in H.
Came(q, H, i, j, r) ==
    \/ \E k \in DOMAIN q : i < k /\ k < j /\ q[k] = r
    \/ i = 0 /\ r \in H

\* The message m, which is or will be at j, belongs to the boot of p at i; a
\* report comes after all registrations.
Fits(q, H, n, i, j, p, m) ==
    /\ m.kind \in {"tel", "par", "group"} => m \in RegistrationsOf(n, p)
    /\ m.kind \in {"update", "value"} =>
          m.value.as = p /\ \A r \in RegistrationsOf(n, p) : Came(q, H, i, j, r)

Queued(q, c, H, n) ==
    \A j \in DOMAIN q : q[j].node = n /\ q[j].kind # "announce" =>
        \A i \in 0..Len(q) : Opens(q, n, i, j) =>
            \E p \in FirmwareAt(q, c, i) : Fits(q, H, n, i, j, p, q[j])

\* The node that runs p is in its last boot, and has sent all but the rest.
Sending(q, c, H, n, p, rest) ==
    \A i \in 0..Len(q) : Opens(q, n, i, Len(q) + 1) =>
        /\ FirmwareAt(q, c, i) = {p}
        /\ \A r \in RegistrationsOf(n, p) \ rest : Came(q, H, i, Len(q) + 1, r)

\* What a message at the end of the queue does not change.
LEMMA AppendPlaces ==
    ASSUME NEW q \in Seq(Message), NEW m \in Message, NEW n, NEW c, NEW H,
           NEW i \in 0..Len(q), NEW j \in 1..(Len(q) + 1)
    PROVE  /\ i \in Starts(Append(q, m), n) <=> i \in Starts(q, n)
           /\ Opens(Append(q, m), n, i, j) <=> Opens(q, n, i, j)
           /\ FirmwareAt(Append(q, m), c, i) = FirmwareAt(q, c, i)
           /\ \A r : Came(Append(q, m), H, i, j, r) <=> Came(q, H, i, j, r)
<1> DEFINE a == Append(q, m)
<1>1. /\ Len(q) \in Nat /\ DOMAIN q = 1..Len(q) /\ DOMAIN a = 1..(Len(q) + 1)
      /\ \A k \in 1..Len(q) : a[k] = q[k]
  OBVIOUS
<1> HIDE DEF a
<1>2. \A k \in 0..Len(q) : k \in Starts(a, n) <=> k \in Starts(q, n)
  BY <1>1 DEF Starts
<1>3. \A k \in Starts(a, n) : k < j => k \in 0..Len(q)
  BY <1>1 DEF Starts
<1>4. \A k \in Starts(q, n) : k \in 0..Len(q)
  BY <1>1 DEF Starts
<1>5. Opens(a, n, i, j) <=> Opens(q, n, i, j)
  BY <1>1, <1>2, <1>3, <1>4 DEF Opens
<1>6. FirmwareAt(a, c, i) = FirmwareAt(q, c, i)
  <2>1. CASE i = 0
    BY <2>1 DEF FirmwareAt
  <2>2. CASE i # 0
    <3>1. i \in 1..Len(q)
      BY <1>1, <2>2
    <3>2. a[i] = q[i]
      BY <1>1, <3>1
    <3> QED
      BY <2>2, <3>2 DEF FirmwareAt
  <2> QED
    BY <2>1, <2>2
<1>7. \A r : Came(a, H, i, j, r) <=> Came(q, H, i, j, r)
  BY <1>1 DEF Came
<1> QED
  BY <1>2, <1>5, <1>6, <1>7 DEF a

LEMMA AppendQueued ==
    ASSUME NEW q \in Seq(Message), NEW m \in Message, NEW c, NEW H, NEW n,
           Queued(q, c, H, n),
           m.node = n /\ m.kind # "announce" =>
               \A i \in 0..Len(q) : Opens(q, n, i, Len(q) + 1) =>
                   \E p \in FirmwareAt(q, c, i) : Fits(q, H, n, i, Len(q) + 1, p, m)
    PROVE  Queued(Append(q, m), c, H, n)
<1> DEFINE a == Append(q, m)
<1>1. /\ Len(q) \in Nat /\ DOMAIN q = 1..Len(q) /\ DOMAIN a = 1..(Len(q) + 1)
      /\ Len(a) = Len(q) + 1 /\ a[Len(q) + 1] = m /\ \A k \in 1..Len(q) : a[k] = q[k]
  OBVIOUS
<1>2. \A i \in 0..Len(q), j \in 1..(Len(q) + 1) :
        /\ Opens(a, n, i, j) <=> Opens(q, n, i, j)
        /\ FirmwareAt(a, c, i) = FirmwareAt(q, c, i)
        /\ \A r : Came(a, H, i, j, r) <=> Came(q, H, i, j, r)
  BY AppendPlaces
<1> HIDE DEF a
<1> SUFFICES ASSUME NEW j \in 1..(Len(q) + 1), a[j].node = n, a[j].kind # "announce",
                    NEW i \in 0..Len(a), Opens(a, n, i, j)
             PROVE  \E p \in FirmwareAt(a, c, i) : Fits(a, H, n, i, j, p, a[j])
  BY <1>1 DEF Queued, a
<1>3. i \in 0..Len(q)
  BY <1>1 DEF Opens
<1>4. Opens(q, n, i, j) /\ FirmwareAt(a, c, i) = FirmwareAt(q, c, i)
      /\ \A r : Came(a, H, i, j, r) <=> Came(q, H, i, j, r)
  BY <1>2, <1>3
<1>5. \E p \in FirmwareAt(q, c, i) : Fits(q, H, n, i, j, p, a[j])
  <2>1. CASE j = Len(q) + 1
    BY <1>1, <1>3, <1>4, <2>1
  <2>2. CASE j \in 1..Len(q)
    BY <1>1, <1>3, <1>4, <2>2 DEF Queued
  <2> QED
    BY <1>1, <2>1, <2>2
<1> QED
  BY <1>4, <1>5 DEF Fits

LEMMA AppendSending ==
    ASSUME NEW q \in Seq(Message), NEW m \in Message, NEW c, NEW H, NEW n, NEW p, NEW rest,
           Sending(q, c, H, n, p, rest), ~(m.node = n /\ m.kind = "announce")
    PROVE  Sending(Append(q, m), c, H, n, p, rest \ {m})
<1> DEFINE a == Append(q, m)
<1>1. /\ Len(q) \in Nat /\ DOMAIN q = 1..Len(q) /\ DOMAIN a = 1..(Len(q) + 1)
      /\ Len(a) = Len(q) + 1 /\ a[Len(q) + 1] = m /\ \A k \in 1..Len(q) : a[k] = q[k]
  OBVIOUS
<1>2. \A i \in 0..Len(q) :
        /\ i \in Starts(a, n) <=> i \in Starts(q, n)
        /\ FirmwareAt(a, c, i) = FirmwareAt(q, c, i)
  <2>1. Len(q) + 1 \in 1..(Len(q) + 1)
    BY <1>1
  <2> QED
    BY <2>1, AppendPlaces
<1> HIDE DEF a
<1> SUFFICES ASSUME NEW i \in 0..Len(a), Opens(a, n, i, Len(q) + 2)
             PROVE  /\ FirmwareAt(a, c, i) = {p}
                    /\ \A r \in RegistrationsOf(n, p) \ (rest \ {m}) : Came(a, H, i, Len(q) + 2, r)
  BY <1>1 DEF Sending, a
<1>3. i \in 0..Len(q)
  <2>1. Len(q) + 1 \notin Starts(a, n)
    BY <1>1 DEF Starts
  <2> QED
    BY <1>1, <2>1 DEF Opens
<1>4. Opens(q, n, i, Len(q) + 1)
  <2>1. \A k \in Starts(q, n) : k \in 0..Len(q)
    BY <1>1 DEF Starts
  <2> QED
    BY <1>1, <1>2, <1>3, <2>1 DEF Opens
<1>5. /\ FirmwareAt(q, c, i) = {p}
      /\ \A r \in RegistrationsOf(n, p) \ rest : Came(q, H, i, Len(q) + 1, r)
  BY <1>3, <1>4 DEF Sending
<1>6. ASSUME NEW r \in RegistrationsOf(n, p) \ (rest \ {m})
      PROVE  Came(a, H, i, Len(q) + 2, r)
  <2>1. CASE r = m
    BY <1>1, <1>3, <2>1 DEF Came
  <2>2. CASE r # m
    BY <1>1, <1>5, <2>2 DEF Came
  <2> QED
    BY <2>1, <2>2
<1> QED
  BY <1>2, <1>3, <1>5, <1>6

LEMMA AppendAnnounced ==
    ASSUME NEW q \in Seq(Message), NEW m \in Message, m.kind = "announce",
           NEW c, NEW H
    PROVE  Sending(Append(q, m), c, H, m.node, m.info, RegistrationsOf(m.node, m.info))
<1> DEFINE a == Append(q, m)
<1>1. /\ Len(q) \in Nat /\ DOMAIN a = 1..(Len(q) + 1)
      /\ Len(a) = Len(q) + 1 /\ a[Len(q) + 1] = m
  OBVIOUS
<1> HIDE DEF a
<1> SUFFICES ASSUME NEW i \in 0..Len(a), Opens(a, m.node, i, Len(a) + 1)
             PROVE  FirmwareAt(a, c, i) = {m.info}
  BY DEF Sending, a
<1>2. Len(q) + 1 \in Starts(a, m.node)
  BY <1>1 DEF Starts
<1>3. i = Len(q) + 1
  BY <1>1, <1>2 DEF Opens
<1> QED
  BY <1>1, <1>3 DEF FirmwareAt

\* The handler takes the first message: an announcement of n, which makes its
\* firmware the current one, or another, which it may have to remember.
FirstTaken(q, n, c, H, d, G) ==
    IF q[1].node = n /\ q[1].kind = "announce" THEN d = {q[1].info}
    ELSE /\ d = c /\ H \subseteq G
         /\ q[1].node = n /\ q[1].kind \in {"tel", "par", "group"} => q[1] \in G

LEMMA TailPlaces ==
    ASSUME NEW q \in Seq(Message), q # <<>>, NEW n, NEW c, NEW H, NEW G, NEW d,
           FirstTaken(q, n, c, H, d, G),
           NEW i \in 0..Len(Tail(q)), NEW j \in 1..(Len(Tail(q)) + 1),
           Opens(Tail(q), n, i, j)
    PROVE  \E h \in 0..Len(q) :
              /\ Opens(q, n, h, j + 1)
              /\ FirmwareAt(Tail(q), d, i) = FirmwareAt(q, c, h)
              /\ \A p : \A r \in RegistrationsOf(n, p) :
                    Came(q, H, h, j + 1, r) => Came(Tail(q), G, i, j, r)
<1> DEFINE t == Tail(q)
           first == q[1].node = n /\ q[1].kind = "announce"
           h == IF i = 0 THEN (IF first THEN 1 ELSE 0) ELSE i + 1
<1>1. /\ Len(q) \in Nat \ {0} /\ DOMAIN q = 1..Len(q) /\ Len(t) = Len(q) - 1
      /\ DOMAIN t = 1..(Len(q) - 1) /\ \A k \in 1..(Len(q) - 1) : t[k] = q[k + 1]
  OBVIOUS
<1> HIDE DEF t
<1>2. h \in 0..Len(q) /\ i \in Nat /\ j \in Nat
  BY <1>1 DEF t
<1>3. \A k \in Starts(q, n) : k = 0 \/ (k = 1 /\ first) \/ (k > 1 /\ k - 1 \in Starts(t, n))
  BY <1>1 DEF Starts
<1>4. h \in Starts(q, n)
  BY <1>1 DEF Starts, Opens, t
<1>5. Opens(q, n, h, j + 1)
  <2>1. h < j + 1
    BY <1>2 DEF Opens
  <2>2. ASSUME NEW k \in Starts(q, n), h < k, k < j + 1 PROVE FALSE
    <3>1. k \in Nat
      BY <1>1 DEF Starts
    <3>2. CASE k > 1 /\ k - 1 \in Starts(t, n)
      BY <1>2, <2>2, <3>1, <3>2 DEF Opens, t
    <3>3. CASE k = 1 /\ first
      BY <1>2, <2>2, <3>3
    <3>4. CASE k = 0
      BY <1>2, <2>2, <3>4
    <3> QED
      BY <1>3, <3>2, <3>3, <3>4
  <2> QED
    BY <1>4, <2>1, <2>2 DEF Opens
<1>6. FirmwareAt(t, d, i) = FirmwareAt(q, c, h)
  <2>1. CASE i = 0
    BY <2>1 DEF FirmwareAt, FirstTaken
  <2>2. CASE i # 0
    BY <1>1, <1>2, <2>2 DEF FirmwareAt, t
  <2> QED
    BY <2>1, <2>2
<1>7. ASSUME NEW p, NEW r \in RegistrationsOf(n, p), Came(q, H, h, j + 1, r)
      PROVE  Came(t, G, i, j, r)
  <2>1. CASE \E k \in DOMAIN q : h < k /\ k < j + 1 /\ q[k] = r
    <3> PICK k \in DOMAIN q : h < k /\ k < j + 1 /\ q[k] = r
      BY <2>1
    <3>1. CASE k = 1
      <4>1. h = 0 /\ i = 0 /\ ~first
        BY <1>2, <3>1
      <4>2. q[1].node = n /\ q[1].kind \in {"tel", "par", "group"}
        BY <3>1 DEF RegistrationsOf
      <4> QED
        BY <3>1, <4>1, <4>2 DEF Came, FirstTaken
    <3>2. CASE k > 1
      <4>1. k - 1 \in DOMAIN t /\ t[k - 1] = r /\ i < k - 1 /\ k - 1 < j
        BY <1>1, <1>2, <3>2
      <4> QED
        BY <4>1 DEF Came
    <3> QED
      BY <1>1, <3>1, <3>2
  <2>2. CASE h = 0 /\ r \in H
    BY <1>2, <2>2 DEF Came, FirstTaken
  <2> QED
    BY <1>7, <2>1, <2>2 DEF Came
<1> QED
  BY <1>2, <1>5, <1>6, <1>7 DEF t

LEMMA TailQueued ==
    ASSUME NEW q \in Seq(Message), q # <<>>, NEW n, NEW c, NEW H, NEW G, NEW d,
           FirstTaken(q, n, c, H, d, G),
           Queued(q, c, H, n)
    PROVE  Queued(Tail(q), d, G, n)
<1> DEFINE t == Tail(q)
<1>1. /\ Len(q) \in Nat \ {0} /\ DOMAIN q = 1..Len(q) /\ Len(t) = Len(q) - 1
      /\ DOMAIN t = 1..(Len(q) - 1) /\ \A k \in 1..(Len(q) - 1) : t[k] = q[k + 1]
  OBVIOUS
<1> SUFFICES ASSUME NEW j \in DOMAIN t, t[j].node = n, t[j].kind # "announce",
                    NEW i \in 0..Len(t), Opens(t, n, i, j)
             PROVE  \E p \in FirmwareAt(t, d, i) : Fits(t, G, n, i, j, p, t[j])
  BY DEF Queued
<1>2. j \in 1..(Len(t) + 1) /\ j + 1 \in DOMAIN q /\ q[j + 1] = t[j]
  <2>1. j \in 1..Len(t)
    BY <1>1
  <2> QED
    BY <1>1, <2>1
<1>3. \E h \in 0..Len(q) :
              /\ Opens(q, n, h, j + 1)
              /\ FirmwareAt(t, d, i) = FirmwareAt(q, c, h)
              /\ \A p : \A r \in RegistrationsOf(n, p) :
                    Came(q, H, h, j + 1, r) => Came(t, G, i, j, r)
  <2>1. j \in 1..(Len(Tail(q)) + 1) /\ i \in 0..Len(Tail(q)) /\ Opens(Tail(q), n, i, j)
    BY <1>2
  <2> HIDE <1>1, <1>2
  <2> QED
    BY <2>1, TailPlaces, Zenon
<1>4. PICK h \in 0..Len(q) :
              /\ Opens(q, n, h, j + 1)
              /\ FirmwareAt(t, d, i) = FirmwareAt(q, c, h)
              /\ \A p : \A r \in RegistrationsOf(n, p) :
                    Came(q, H, h, j + 1, r) => Came(t, G, i, j, r)
  BY <1>3
<1>5. PICK p \in FirmwareAt(q, c, h) : Fits(q, H, n, h, j + 1, p, q[j + 1])
  BY <1>2, <1>4 DEF Queued
<1> QED
  BY <1>2, <1>4, <1>5 DEF Fits

LEMMA TailSending ==
    ASSUME NEW q \in Seq(Message), q # <<>>, NEW n, NEW c, NEW H, NEW G, NEW d,
           FirstTaken(q, n, c, H, d, G),
           NEW p, NEW rest, Sending(q, c, H, n, p, rest)
    PROVE  Sending(Tail(q), d, G, n, p, rest)
<1> DEFINE t == Tail(q)
<1>1. Len(q) \in Nat \ {0} /\ Len(t) = Len(q) - 1
  OBVIOUS
<1> SUFFICES ASSUME NEW i \in 0..Len(t), Opens(t, n, i, Len(t) + 1)
             PROVE  /\ FirmwareAt(t, d, i) = {p}
                    /\ \A r \in RegistrationsOf(n, p) \ rest : Came(t, G, i, Len(t) + 1, r)
  BY DEF Sending
<1>2. Len(t) + 1 \in 1..(Len(t) + 1) /\ (Len(t) + 1) + 1 = Len(q) + 1
  BY <1>1
<1>3. PICK h \in 0..Len(q) :
              /\ Opens(q, n, h, (Len(t) + 1) + 1)
              /\ FirmwareAt(t, d, i) = FirmwareAt(q, c, h)
              /\ \A x : \A r \in RegistrationsOf(n, x) :
                    Came(q, H, h, (Len(t) + 1) + 1, r) => Came(t, G, i, Len(t) + 1, r)
  BY <1>2, TailPlaces
<1> QED
  BY <1>2, <1>3 DEF Sending

-----------------------------------------------------------------------------
(* The tables of one firmware.                                             *)

\* The registration r reached the entry c.
Has(c, r) ==
    \/ r.kind = "tel" /\ r.id \in DOMAIN c.tel
    \/ r.kind = "par" /\ r.id \in DOMAIN c.par
    \/ r.kind = "group" /\ r.id \in DOMAIN c.groups

PartOf(f, g) == DOMAIN f \subseteq DOMAIN g /\ \A x \in DOMAIN f : f[x] = g[x]

\* The entry holds nothing but what the firmware it announced has, or all of it.
Partial(c) == /\ PartOf(c.tel, TelOf[c.info]) /\ PartOf(c.par, ParOf[c.info])
              /\ PartOf(c.groups, GroupsOf[c.info])
Whole(c) == /\ c.tel = TelOf[c.info] /\ c.par = ParOf[c.info]
            /\ c.groups = GroupsOf[c.info]

\* A part with the keys of the whole is the whole, and counting them will do.
LEMMA PartIsWhole ==
    ASSUME NEW K, NEW S, NEW f, NEW g, IsMap(f, K, S), IsMap(g, K, S),
           PartOf(f, g), DOMAIN g \subseteq DOMAIN f
    PROVE  f = g
<1>1. DOMAIN f = DOMAIN g /\ \A x \in DOMAIN f : f[x] = g[x]
  BY DEF PartOf
<1>2. f \in [DOMAIN f -> S] /\ g \in [DOMAIN g -> S]
  BY DEF IsMap
<1> QED
  BY <1>1, <1>2

LEMMA CountedPart ==
    ASSUME NEW K, NEW S, IsFiniteSet(K), NEW f, NEW g, IsMap(f, K, S), IsMap(g, K, S),
           PartOf(f, g), Cardinality(DOMAIN f) = Cardinality(DOMAIN g)
    PROVE  f = g
<1>1. DOMAIN g \subseteq K /\ DOMAIN f \subseteq DOMAIN g
  BY DEF IsMap, PartOf
<1>2. IsFiniteSet(DOMAIN g)
  BY <1>1, FS_Subset
<1>3. DOMAIN f = DOMAIN g
  BY <1>1, <1>2, FS_Subset
<1> QED
  BY <1>3, PartIsWhole

LEMMA PlacesFinite ==
    ASSUME NEW p \in Profiles
    PROVE  IsFiniteSet(Places(GroupsOf[p]))
<1> DEFINE G == GroupsOf[p]
           of == [g \in DOMAIN G |-> {g} \X DOMAIN G[g]]
           S == {{g} \X DOMAIN G[g] : g \in DOMAIN G}
<1>1. DOMAIN G \subseteq Groups /\ \A g \in DOMAIN G : G[g] \in Seq(Fields)
  BY ProfilesAssumption DEF IsMap
<1>2. IsFiniteSet(DOMAIN G)
  BY <1>1, FS_Subset, FirmwareAssumption
<1>3. of \in Surjection(DOMAIN G, S)
  BY DEF Surjection
<1>4. IsFiniteSet(S)
  <2> HIDE DEF of, S, G
  <2> QED
    BY <1>2, <1>3, FS_Surjection
<1>5. ASSUME NEW g \in DOMAIN G PROVE IsFiniteSet({g} \X DOMAIN G[g])
  <2>1. Len(G[g]) \in Nat /\ DOMAIN G[g] = 1..Len(G[g])
    BY <1>1
  <2>2. IsFiniteSet(DOMAIN G[g])
    BY <2>1, FS_Interval
  <2>3. IsFiniteSet({g})
    BY FS_Singleton
  <2> QED
    BY <2>2, <2>3, FS_Product
<1>6. \A T \in S : IsFiniteSet(T)
  BY <1>5
<1> HIDE DEF S
<1>7. IsFiniteSet(UNION S)
  BY <1>4, <1>6, FS_UNION
<1> QED
  BY <1>7 DEF Places, S

\* Registration counts: a complete entry with nothing foreign is whole, and a
\* whole one is complete.
LEMMA CompletePart ==
    ASSUME NEW c, IsCanNode(c), Partial(c), Complete(c)
    PROVE  Whole(c)
<1> DEFINE p == c.info
           G == GroupsOf[p]
<1>1. p \in Profiles /\ IsMap(c.tel, Fields, Infos) /\ IsMap(c.par, Fields, Infos)
      /\ IsMap(c.groups, Groups, Seq(Fields))
  BY DEF IsCanNode
<1>2. IsMap(TelOf[p], Fields, Infos) /\ IsMap(ParOf[p], Fields, Infos)
      /\ IsMap(G, Groups, Seq(Fields))
  BY <1>1, ProfilesAssumption
<1>3. c.tel = TelOf[p] /\ c.par = ParOf[p]
  BY <1>1, <1>2, CountedPart, FirmwareAssumption DEF Partial, Complete
<1>4. PartOf(c.groups, G)
  BY DEF Partial
<1>5. Places(c.groups) \subseteq Places(G)
  BY <1>4 DEF PartOf, Places
<1>6. Cardinality(Places(c.groups)) = Cardinality(Places(G))
  BY <1>1, FirmwareAssumption DEF Complete, Grouped
<1>7. Places(c.groups) = Places(G)
  BY <1>1, <1>5, <1>6, PlacesFinite, FS_Subset
<1>8. DOMAIN G \subseteq DOMAIN c.groups
  <2> SUFFICES ASSUME NEW g \in DOMAIN G PROVE g \in DOMAIN c.groups
    OBVIOUS
  <2>1. G[g] \in Seq(Fields) /\ G[g] # <<>>
    BY <1>1, <1>2, FirmwareAssumption DEF IsMap
  <2>2. 1 \in DOMAIN G[g]
    BY <2>1
  <2>3. <<g, 1>> \in Places(G)
    BY <2>2 DEF Places
  <2>4. PICK h \in DOMAIN c.groups : <<g, 1>> \in {h} \X DOMAIN c.groups[h]
    BY <1>7, <2>3 DEF Places
  <2> QED
    BY <2>4
<1>9. c.groups = G
  BY <1>1, <1>2, <1>4, <1>8, PartIsWhole
<1> QED
  BY <1>3, <1>9 DEF Whole

LEMMA AllRegistered ==
    ASSUME NEW c, IsCanNode(c), Partial(c), NEW n,
           \A r \in RegistrationsOf(n, c.info) : Has(c, r)
    PROVE  Complete(c)
<1> DEFINE p == c.info
<1>1. p \in Profiles
  BY DEF IsCanNode
<1>2. DOMAIN TelOf[p] \subseteq DOMAIN c.tel
  <2> SUFFICES ASSUME NEW f \in DOMAIN TelOf[p] PROVE f \in DOMAIN c.tel
    OBVIOUS
  <2> DEFINE r == [kind |-> "tel", node |-> n, id |-> f, field |-> TelOf[p][f]]
  <2>1. r \in RegistrationsOf(n, p)
    BY DEF RegistrationsOf
  <2>2. Has(c, r) /\ r.kind = "tel" /\ r.id = f
    BY <2>1
  <2> QED
    BY <2>2 DEF Has
<1>3. DOMAIN ParOf[p] \subseteq DOMAIN c.par
  <2> SUFFICES ASSUME NEW f \in DOMAIN ParOf[p] PROVE f \in DOMAIN c.par
    OBVIOUS
  <2> DEFINE r == [kind |-> "par", node |-> n, id |-> f, field |-> ParOf[p][f]]
  <2>1. r \in RegistrationsOf(n, p)
    BY DEF RegistrationsOf
  <2>2. Has(c, r) /\ r.kind = "par" /\ r.id = f
    BY <2>1
  <2> QED
    BY <2>2 DEF Has
<1>4. DOMAIN GroupsOf[p] \subseteq DOMAIN c.groups
  <2> SUFFICES ASSUME NEW g \in DOMAIN GroupsOf[p] PROVE g \in DOMAIN c.groups
    OBVIOUS
  <2> DEFINE r == [kind |-> "group", node |-> n, id |-> g, fields |-> GroupsOf[p][g]]
  <2>1. r \in RegistrationsOf(n, p)
    BY DEF RegistrationsOf
  <2>2. Has(c, r) /\ r.kind = "group" /\ r.id = g
    BY <2>1
  <2> QED
    BY <2>2 DEF Has
<1>5. Whole(c)
  BY <1>1, <1>2, <1>3, <1>4, PartIsWhole, ProfilesAssumption
  DEF IsCanNode, Partial, Whole
<1> QED
  BY <1>1, <1>5, FirmwareAssumption DEF Whole, Complete, Grouped

\* An entry that is complete with nothing in it has nothing to wait for.
LEMMA NothingToRegister ==
    ASSUME NEW p \in Profiles
    PROVE  /\ Partial(NewCanNode(p))
           /\ Complete(NewCanNode(p)) => Whole(NewCanNode(p)) /\ \A n : RegistrationsOf(n, p) = {}
<1> DEFINE c == NewCanNode(p)
<1>1. IsCanNode(c) /\ c.info = p
  BY NewCanNodeType DEF NewCanNode
<1>2. DOMAIN c.tel = {} /\ DOMAIN c.par = {} /\ DOMAIN c.groups = {}
  BY DEF NewCanNode, EmptyMap
<1>3. Partial(c)
  BY <1>2 DEF Partial, PartOf
<1>4. ASSUME Complete(c) PROVE Whole(c) /\ \A n : RegistrationsOf(n, p) = {}
  <2>1. Whole(c)
    BY <1>1, <1>3, <1>4, CompletePart
  <2>2. DOMAIN TelOf[p] = {} /\ DOMAIN ParOf[p] = {} /\ DOMAIN GroupsOf[p] = {}
    BY <1>1, <1>2, <2>1 DEF Whole
  <2> QED
    BY <2>1, <2>2 DEF RegistrationsOf
<1> QED
  BY <1>3, <1>4

\* A registration of the firmware announced adds to the entry what it says.
LEMMA ExtendedPart ==
    ASSUME NEW c, IsCanNode(c), Partial(c), NEW n, NEW m \in RegistrationsOf(n, c.info)
    PROVE  LET d == Extended(c, m)
           IN  /\ d.info = c.info /\ Partial(d) /\ Has(d, m)
               /\ \A r : Has(c, r) => Has(d, r)
<1> DEFINE p == c.info
           d == Extended(c, m)
<1>1. CASE m.kind = "tel"
  <2>1. m.id \in DOMAIN TelOf[p] /\ m.field = TelOf[p][m.id]
    BY <1>1 DEF RegistrationsOf
  <2>2. d = [c EXCEPT !.tel = Put(c.tel, m.id, m.field)]
    BY <1>1 DEF Extended
  <2>3. /\ d.info = p /\ d.tel = Put(c.tel, m.id, m.field)
        /\ d.par = c.par /\ d.groups = c.groups
    BY <2>2 DEF IsCanNode
  <2>4. PartOf(d.tel, TelOf[p]) /\ DOMAIN d.tel = DOMAIN c.tel \cup {m.id}
    BY <2>1, <2>3 DEF Partial, PartOf, Put
  <2> QED
    BY <1>1, <2>3, <2>4 DEF Partial, Has
<1>2. CASE m.kind = "par"
  <2>1. m.id \in DOMAIN ParOf[p] /\ m.field = ParOf[p][m.id]
    BY <1>2 DEF RegistrationsOf
  <2>2. d = [c EXCEPT !.par = Put(c.par, m.id, m.field)]
    BY <1>2 DEF Extended
  <2>3. /\ d.info = p /\ d.par = Put(c.par, m.id, m.field)
        /\ d.tel = c.tel /\ d.groups = c.groups
    BY <2>2 DEF IsCanNode
  <2>4. PartOf(d.par, ParOf[p]) /\ DOMAIN d.par = DOMAIN c.par \cup {m.id}
    BY <2>1, <2>3 DEF Partial, PartOf, Put
  <2> QED
    BY <1>2, <2>3, <2>4 DEF Partial, Has
<1>3. CASE m.kind = "group"
  <2>1. m.id \in DOMAIN GroupsOf[p] /\ m.fields = GroupsOf[p][m.id]
    BY <1>3 DEF RegistrationsOf
  <2>2. d = [c EXCEPT !.groups = Put(c.groups, m.id, m.fields)]
    BY <1>3 DEF Extended
  <2>3. /\ d.info = p /\ d.groups = Put(c.groups, m.id, m.fields)
        /\ d.tel = c.tel /\ d.par = c.par
    BY <2>2 DEF IsCanNode
  <2>4. PartOf(d.groups, GroupsOf[p]) /\ DOMAIN d.groups = DOMAIN c.groups \cup {m.id}
    BY <2>1, <2>3 DEF Partial, PartOf, Put
  <2> QED
    BY <1>3, <2>3, <2>4 DEF Partial, Has
<1>4. m.kind \in {"tel", "par", "group"}
  BY DEF RegistrationsOf
<1> QED
  BY <1>1, <1>2, <1>3, <1>4

-----------------------------------------------------------------------------
(* The frames of each node come in the order of its boots.                 *)

\* The node n has registered with the firmware p, or is registering with it.
Learned(n, p) == n \in DOMAIN registered /\ registered[n].info = p
Learning(n, p) == n \in DOMAIN registering /\ registering[n].info = p

\* The registrations of the current firmwares c of n that need not come again.
Handled(n, c) ==
    {r \in UNION {RegistrationsOf(n, p) : p \in c} :
        \E p \in c : Learned(n, p) \/ (Learning(n, p) /\ Has(registering[n], r))}

Currents == {{}} \cup {{p} : p \in Profiles}

\* The queue holds what n sent, boot by boot, after what was handled of the
\* firmware in c; an entry that n's registrations go to is one of that firmware.
HeardAs(n, c) ==
    /\ Queued(inbox, c, Handled(n, c), n)
    /\ unsent[n] \subseteq RegistrationsOf(n, fw[n])
    /\ IF announced[n] THEN Sending(inbox, c, Handled(n, c), n, fw[n], unsent[n])
       ELSE unsent[n] = RegistrationsOf(n, fw[n])
    /\ \A p \in c : Learned(n, p) \/ Learning(n, p)
    /\ n \in DOMAIN registering =>
          /\ Partial(registering[n])
          /\ \E p \in c : registering[n].info = p \/ RegistrationsOf(n, p) = {}

StreamInv == lost = 0 => \A n \in Nodes : \E c \in Currents : HeardAs(n, c)

LEMMA InitStream == Init => StreamInv
<1> SUFFICES ASSUME Init, NEW n \in Nodes PROVE HeardAs(n, {})
  BY DEF StreamInv, Currents
<1>1. inbox = <<>> /\ announced[n] = FALSE /\ unsent[n] = RegistrationsOf(n, fw[n])
  BY DEF Init
<1>2. n \notin DOMAIN registering
  BY DEF Init, EmptyMap
<1> QED
  BY <1>1, <1>2 DEF HeardAs, Queued

\* The registrations handled are those of the entries, whatever else changes.
LEMMA SameEntries ==
    ASSUME NEW n, NEW c,
           n \in DOMAIN registered' <=> n \in DOMAIN registered,
           n \in DOMAIN registered => registered'[n].info = registered[n].info,
           n \in DOMAIN registering' <=> n \in DOMAIN registering,
           n \in DOMAIN registering => registering'[n] = registering[n]
    PROVE  /\ Handled(n, c)' = Handled(n, c)
           /\ \A p : Learned(n, p)' <=> Learned(n, p)
           /\ \A p : Learning(n, p)' <=> Learning(n, p)
<1>1. \A p : (Learned(n, p)' <=> Learned(n, p)) /\ (Learning(n, p)' <=> Learning(n, p))
  BY DEF Learned, Learning
<1>2. \A r, p : Learning(n, p) => (Has(registering[n], r)' <=> Has(registering[n], r))
  BY DEF Learning, Has
<1> QED
  BY <1>1, <1>2 DEF Handled

\* A message that a node may send in its current boot.
SentNow(n, m) ==
    /\ announced[n]
    /\ m.kind \in {"tel", "par", "group"} => m \in unsent[n]
    /\ m.kind \in {"update", "value"} => m.value.as = fw[n] /\ unsent[n] = {}

LEMMA SendHeard ==
    ASSUME TypeOK, NEW n \in Nodes, NEW c, HeardAs(n, c), NEW m \in Message,
           m.kind # "announce", inbox' = Append(inbox, m), m.node = n => SentNow(n, m),
           UNCHANGED <<fw, announced, registering, registered>>,
           unsent'[n] = unsent[n] \ {m}
    PROVE  HeardAs(n, c)'
<1> DEFINE H == Handled(n, c)
           p == fw[n]
<1>0. /\ H' = H /\ inbox \in Seq(Message)
      /\ \A x : (Learned(n, x)' <=> Learned(n, x)) /\ (Learning(n, x)' <=> Learning(n, x))
  BY SameEntries DEF TypeOK
<1>1. /\ Queued(inbox, c, H, n) /\ unsent[n] \subseteq RegistrationsOf(n, p)
      /\ announced[n] => Sending(inbox, c, H, n, p, unsent[n])
      /\ ~announced[n] => unsent[n] = RegistrationsOf(n, p)
  BY DEF HeardAs
<1> HIDE DEF H, p
<1>2. m.node # n => m \notin unsent[n]
  BY <1>1 DEF RegistrationsOf
<1>3. Queued(Append(inbox, m), c, H, n)
  <2>1. m.node = n /\ m.kind # "announce" =>
            \A i \in 0..Len(inbox) : Opens(inbox, n, i, Len(inbox) + 1) =>
                \E x \in FirmwareAt(inbox, c, i) : Fits(inbox, H, n, i, Len(inbox) + 1, x, m)
    <3> SUFFICES ASSUME m.node = n, NEW i \in 0..Len(inbox), Opens(inbox, n, i, Len(inbox) + 1)
                 PROVE  \E x \in FirmwareAt(inbox, c, i) :
                            Fits(inbox, H, n, i, Len(inbox) + 1, x, m)
      OBVIOUS
    <3>1. SentNow(n, m) /\ announced[n]
      BY DEF SentNow
    <3>2. /\ FirmwareAt(inbox, c, i) = {p}
          /\ \A r \in RegistrationsOf(n, p) \ unsent[n] : Came(inbox, H, i, Len(inbox) + 1, r)
      BY <1>1, <3>1 DEF Sending
    <3>3. Fits(inbox, H, n, i, Len(inbox) + 1, p, m)
      BY <1>1, <3>1, <3>2 DEF Fits, SentNow, p
    <3> QED
      BY <3>2, <3>3
  <2> QED
    BY <1>0, <1>1, <2>1, AppendQueued
<1>4. announced[n] => Sending(Append(inbox, m), c, H, n, p, unsent[n] \ {m})
  BY <1>0, <1>1, AppendSending
<1>5. ~announced[n] => unsent[n] \ {m} = RegistrationsOf(n, p)
  BY <1>1, <1>2 DEF SentNow
<1>6. fw'[n] = p /\ announced'[n] = announced[n] /\ unsent'[n] = unsent[n] \ {m}
  BY DEF p
<1>7. Queued(inbox', c, H', n) /\ unsent'[n] \subseteq RegistrationsOf(n, fw'[n])
  BY <1>0, <1>1, <1>3, <1>6
<1>8. IF announced'[n] THEN Sending(inbox', c, H', n, fw'[n], unsent'[n])
      ELSE unsent'[n] = RegistrationsOf(n, fw'[n])
  BY <1>0, <1>4, <1>5, <1>6
<1>9. \A x \in c : Learned(n, x)' \/ Learning(n, x)'
  BY <1>0 DEF HeardAs
<1> QED
  BY <1>7, <1>8, <1>9 DEF HeardAs, H

\* What is sent changes no table, and a frame once lost stays lost.
LEMMA BusKeepsTables ==
    ASSUME TypeOK, NEW k \in Nodes,
           (\E p \in Profiles : Boot(k, p)) \/ Register(k) \/ Report(k)
    PROVE  /\ UNCHANGED <<registering, registered>> /\ lost \in Nat
           /\ (lost' = lost \/ lost' = lost + 1) /\ (lost' = 0 => lost = 0)
<1>1. lost \in Nat
  BY BoundsAssumption DEF TypeOK
<1>2. ASSUME NEW m, ReportWith(k, m)
      PROVE  UNCHANGED <<registering, registered>> /\ (lost' = lost \/ lost' = lost + 1)
  BY <1>2 DEF ReportWith, Deliver
<1>3. UNCHANGED <<registering, registered>> /\ (lost' = lost \/ lost' = lost + 1)
  <2>1. CASE Report(k)
    BY <1>2, <2>1 DEF Report
  <2>2. CASE (\E p \in Profiles : Boot(k, p)) \/ Register(k)
    BY <2>2 DEF Boot, Register, Announce, SendRegistration, Deliver
  <2> QED
    BY <2>1, <2>2
<1> QED
  BY <1>1, <1>3

\* What a node sends is heard in its place when it is not lost.
LEMMA BusStream ==
    ASSUME TypeOK, StreamInv, NEW k \in Nodes,
           (\E p \in Profiles : Boot(k, p)) \/ Register(k) \/ Report(k)
    PROVE  StreamInv'
<1>0. UNCHANGED <<registering, registered>> /\ lost \in Nat
      /\ (lost' = lost \/ lost' = lost + 1)
  BY BusKeepsTables
<1> SUFFICES ASSUME lost' = 0, NEW n \in Nodes
             PROVE  \E c \in Currents : HeardAs(n, c)'
  BY DEF StreamInv
<1>1. PICK c \in Currents : HeardAs(n, c)
  BY <1>0 DEF StreamInv
<1>2. lost' # lost + 1
  BY <1>0
<1>3. /\ Handled(n, c)' = Handled(n, c)
      /\ \A p : (Learned(n, p)' <=> Learned(n, p)) /\ (Learning(n, p)' <=> Learning(n, p))
  BY <1>0, SameEntries
<1>4. ASSUME NEW p \in Profiles, Boot(k, p)
      PROVE  HeardAs(n, c)'
  <2>1. inbox' = inbox
    BY <1>4 DEF Boot
  <2>2. CASE n = k
    <3>1. fw'[n] = p /\ announced'[n] = FALSE /\ unsent'[n] = RegistrationsOf(n, p)
      BY <1>4, <2>2 DEF Boot, TypeOK
    <3> QED
      BY <1>0, <1>1, <1>3, <2>1, <3>1 DEF HeardAs
  <2>3. CASE n # k
    <3>1. fw'[n] = fw[n] /\ announced'[n] = announced[n] /\ unsent'[n] = unsent[n]
      BY <1>4, <2>3 DEF Boot, TypeOK
    <3> QED
      BY <1>0, <1>1, <1>3, <2>1, <3>1 DEF HeardAs
  <2> QED
    BY <2>2, <2>3
<1>5. CASE Announce(k)
  <2> DEFINE m == [kind |-> "announce", node |-> k, info |-> fw[k]]
  <2>1. /\ m \in Message /\ m.kind = "announce" /\ m.node = k /\ m.info = fw[k]
        /\ inbox \in Seq(Message)
    BY DEF TypeOK, Message
  <2>2. inbox' = Append(inbox, m) /\ ~announced[k] /\ UNCHANGED <<fw, unsent>>
    BY <1>2, <1>5 DEF Announce, Deliver
  <2> HIDE DEF m
  <2>3. Queued(inbox', c, Handled(n, c), n)
    BY <1>1, <2>1, <2>2, AppendQueued DEF HeardAs
  <2>4. CASE n = k
    <3>1. announced'[n] = TRUE /\ unsent[n] = RegistrationsOf(n, fw[n])
      BY <1>1, <1>5, <2>2, <2>4 DEF Announce, TypeOK, HeardAs
    <3>2. Sending(inbox', c, Handled(n, c), n, fw[n], RegistrationsOf(n, fw[n]))
      BY <2>1, <2>2, <2>4, AppendAnnounced
    <3> QED
      BY <1>0, <1>1, <1>3, <2>2, <2>3, <3>1, <3>2 DEF HeardAs
  <2>5. CASE n # k
    <3>1. announced'[n] = announced[n]
      BY <1>5, <2>5 DEF Announce, TypeOK
    <3>2. m \notin RegistrationsOf(n, fw[n])
      BY <2>1, <2>5 DEF RegistrationsOf
    <3>3. unsent[n] \ {m} = unsent[n]
      BY <1>1, <3>2 DEF HeardAs
    <3>4. announced[n] => Sending(inbox', c, Handled(n, c), n, fw[n], unsent[n] \ {m})
      BY <1>1, <2>1, <2>2, <2>5, AppendSending DEF HeardAs
    <3> QED
      BY <1>0, <1>1, <1>3, <2>2, <2>3, <3>1, <3>3, <3>4 DEF HeardAs
  <2> QED
    BY <2>4, <2>5
<1>6. ASSUME NEW m \in unsent[k], SendRegistration(k, m)
      PROVE  HeardAs(n, c)'
  <2>1. \E d \in Currents : HeardAs(k, d)
    BY <1>0, <1>2 DEF StreamInv
  <2>2. m \in RegistrationsOf(k, fw[k])
    BY <2>1 DEF HeardAs
  <2>3. m \in Message /\ m.kind \in {"tel", "par", "group"} /\ m.node = k
    BY <2>2 DEF TypeOK, Message, RegistrationsOf
  <2>4. inbox' = Append(inbox, m) /\ announced[k] /\ UNCHANGED <<fw, announced>>
    BY <1>2, <1>6 DEF SendRegistration, Deliver
  <2>5. m.node = n => SentNow(n, m)
    BY <2>3, <2>4 DEF SentNow
  <2>6. unsent'[n] = unsent[n] \ {m}
    <3>1. CASE n = k
      BY <1>6, <3>1 DEF SendRegistration, TypeOK
    <3>2. CASE n # k
      <4>1. unsent'[n] = unsent[n]
        BY <1>6, <3>2 DEF SendRegistration, TypeOK
      <4>2. m \notin RegistrationsOf(n, fw[n])
        BY <2>3, <3>2 DEF RegistrationsOf
      <4> QED
        BY <1>1, <4>1, <4>2 DEF HeardAs
    <3> QED
      BY <3>1, <3>2
  <2> QED
    BY <1>0, <1>1, <2>3, <2>4, <2>5, <2>6, SendHeard
<1>7. ASSUME NEW m \in Message, ReportWith(k, m), m.node = k,
             m.kind \in {"update", "value"}, m.value.as = fw[k]
      PROVE  HeardAs(n, c)'
  <2>1. inbox' = Append(inbox, m) /\ announced[k] /\ unsent[k] = {}
        /\ UNCHANGED <<fw, announced, unsent>>
    BY <1>2, <1>7 DEF ReportWith, Deliver
  <2>2. m \notin RegistrationsOf(n, fw[n])
    BY <1>7 DEF RegistrationsOf
  <2>3. unsent'[n] = unsent[n] \ {m}
    BY <1>1, <2>1, <2>2 DEF HeardAs
  <2>4. m.node = n => SentNow(n, m)
    BY <1>7, <2>1 DEF SentNow
  <2> QED
    BY <1>0, <1>1, <1>7, <2>1, <2>3, <2>4, SendHeard
<1>8. CASE Report(k)
  <2> DEFINE v == [sample |-> reports + 1, as |-> fw[k]]
             update(g, x) == [kind |-> "update", node |-> k, id |-> g, value |-> v, good |-> x]
             value(f, b) == [kind |-> "value", node |-> k, id |-> f, value |-> v, ok |-> b]
  <2>1. v \in Value /\ fw[k] \in Profiles
    BY BoundsAssumption DEF TypeOK, Value
  <2>2. ASSUME NEW g \in DOMAIN GroupsOf[fw[k]], NEW x \in 0..Len(GroupsOf[fw[k]][g])
        PROVE  update(g, x) \in Message
    <3>1. g \in Groups /\ x \in Nat
      BY <2>1, <2>2, ProfilesAssumption DEF IsMap
    <3> QED
      BY <2>1, <3>1 DEF Message
  <2>3. ASSUME NEW f \in DOMAIN TelOf[fw[k]] \cup DOMAIN ParOf[fw[k]], NEW b \in BOOLEAN
        PROVE  value(f, b) \in Message
    <3>1. f \in Fields
      BY <2>1, <2>3, ProfilesAssumption DEF IsMap
    <3> QED
      BY <2>1, <3>1 DEF Message
  <2>4. PICK m \in Message : ReportWith(k, m) /\ m.node = k
                             /\ m.kind \in {"update", "value"} /\ m.value.as = fw[k]
    BY <1>8, <2>2, <2>3 DEF Report
  <2> QED
    BY <1>7, <2>4
<1> QED
  BY <1>1, <1>4, <1>5, <1>6, <1>8 DEF Register

\* What the handler takes from the queue is known from then on.
LEMMA TakeHeard ==
    ASSUME TypeOK, inbox # <<>>, inbox' = Tail(inbox), UNCHANGED busVars,
           NEW n \in Nodes, NEW c, HeardAs(n, c), NEW d,
           FirstTaken(inbox, n, c, Handled(n, c), d, Handled(n, d)'),
           \A p \in d : Learned(n, p)' \/ Learning(n, p)',
           n \in DOMAIN registering' =>
               /\ Partial(registering'[n])
               /\ \E p \in d : registering'[n].info = p \/ RegistrationsOf(n, p) = {}
    PROVE  HeardAs(n, d)'
<1> DEFINE H == Handled(n, c)
           G == Handled(n, d)'
<1>1. inbox \in Seq(Message) /\ FirstTaken(inbox, n, c, H, d, G)
  BY DEF TypeOK
<1>2. /\ Queued(inbox, c, H, n) /\ unsent[n] \subseteq RegistrationsOf(n, fw[n])
      /\ IF announced[n] THEN Sending(inbox, c, H, n, fw[n], unsent[n])
         ELSE unsent[n] = RegistrationsOf(n, fw[n])
  BY DEF HeardAs
<1> HIDE DEF H
<1>3. Queued(Tail(inbox), d, G, n)
  <2> HIDE DEF G
  <2> QED
    BY <1>1, <1>2, TailQueued
<1>4. announced[n] => Sending(Tail(inbox), d, G, n, fw[n], unsent[n])
  <2> HIDE DEF G
  <2> QED
    BY <1>1, <1>2, TailSending
<1>5. fw' = fw /\ announced' = announced /\ unsent' = unsent
  BY DEF busVars
<1> QED
  BY <1>2, <1>3, <1>4, <1>5 DEF HeardAs

\* The registration or report at the head of the queue is one of the current
\* firmware; a report comes when all the registrations were handled.
LEMMA HeadFits ==
    ASSUME TypeOK, inbox # <<>>, NEW c, HeardAs(Head(inbox).node, c),
           Head(inbox).kind # "announce"
    PROVE  LET n == Head(inbox).node
               m == Head(inbox)
           IN  \E p \in c :
                  /\ m.kind \in {"tel", "par", "group"} => m \in RegistrationsOf(n, p)
                  /\ m.kind \in {"update", "value"} =>
                        m.value.as = p /\ RegistrationsOf(n, p) \subseteq Handled(n, c)
<1> DEFINE m == Head(inbox)
           n == m.node
           H == Handled(n, c)
<1>1. /\ inbox \in Seq(Message) /\ 1 \in DOMAIN inbox /\ inbox[1] = m
      /\ 0 \in 0..Len(inbox) /\ DOMAIN inbox = 1..Len(inbox)
  BY DEF TypeOK
<1>2. Queued(inbox, c, H, n)
  BY DEF HeardAs
<1> HIDE DEF H
<1>3. Opens(inbox, n, 0, 1)
  <2>1. \A k \in Starts(inbox, n) : ~(0 < k /\ k < 1)
    BY <1>1 DEF Starts
  <2> QED
    BY <2>1 DEF Opens, Starts
<1>4. PICK p \in FirmwareAt(inbox, c, 0) : Fits(inbox, H, n, 0, 1, p, m)
  BY <1>1, <1>2, <1>3 DEF Queued
<1>5. p \in c
  BY DEF FirmwareAt
<1>6. \A r : Came(inbox, H, 0, 1, r) => r \in H
  BY <1>1 DEF Came
<1> QED
  BY <1>4, <1>5, <1>6 DEF Fits, H

\* The entry that an announcement replaces, or not, when it has nothing to say.
LEMMA AnnouncementStream ==
    ASSUME RegistryInv, StreamInv, lost = 0, HandleAnnouncement, NEW n \in Nodes
    PROVE  \E c \in Currents : HeardAs(n, c)'
<1> PICK p : p = Head(inbox).info
  OBVIOUS
<1> DEFINE k == Head(inbox).node
           e == NewCanNode(p)
<1>0. TypeOK /\ inbox # <<>> /\ inbox' = Tail(inbox) /\ UNCHANGED busVars
  BY DEF RegistryInv, HandleAnnouncement, Takes
<1>1. PICK c \in Currents : HeardAs(n, c)
  BY DEF StreamInv
<1>2. /\ k \in Nodes /\ p \in Profiles /\ inbox[1] = Head(inbox)
      /\ Head(inbox).kind = "announce"
  BY <1>0, HeadType DEF HandleAnnouncement, Takes, TypeOK
<1>3. \/ Complete(e) /\ registered' = Put(registered, k, e) /\ UNCHANGED registering
      \/ ~Complete(e) /\ registering' = Put(registering, k, e) /\ UNCHANGED registered
  BY DEF HandleAnnouncement
<1>4. /\ e.info = p /\ Partial(e)
      /\ Complete(e) => RegistrationsOf(n, p) = {}
  BY <1>2, NothingToRegister DEF NewCanNode
<1> HIDE DEF e
<1>5. CASE n # k
  <2>1. FirstTaken(inbox, n, c, Handled(n, c), c, Handled(n, c))
    BY <1>2, <1>5 DEF FirstTaken
  <2>2. /\ n \in DOMAIN registered' <=> n \in DOMAIN registered
        /\ n \in DOMAIN registered => registered'[n].info = registered[n].info
        /\ n \in DOMAIN registering' <=> n \in DOMAIN registering
        /\ n \in DOMAIN registering => registering'[n] = registering[n]
    BY <1>3, <1>5 DEF Put
  <2>3. /\ Handled(n, c)' = Handled(n, c)
        /\ \A x : (Learned(n, x)' <=> Learned(n, x)) /\ (Learning(n, x)' <=> Learning(n, x))
    BY <2>2, SameEntries
  <2>4. HeardAs(n, c)'
    BY <1>0, <1>1, <2>1, <2>2, <2>3, TakeHeard DEF HeardAs
  <2> QED
    BY <2>4
<1>6. CASE n = k
  <2>1. FirstTaken(inbox, n, c, Handled(n, c), {p}, Handled(n, {p})')
    BY <1>2, <1>6 DEF FirstTaken
  <2>2. Learned(n, p)' \/ Learning(n, p)'
    BY <1>3, <1>4, <1>6 DEF Learned, Learning, Put
  <2>3. n \in DOMAIN registering' =>
            /\ Partial(registering'[n])
            /\ registering'[n].info = p \/ RegistrationsOf(n, p) = {}
    <3>1. CASE Complete(e) /\ UNCHANGED registering
      BY <1>1, <1>4, <3>1 DEF HeardAs
    <3>2. CASE registering' = Put(registering, k, e)
      BY <1>4, <1>6, <3>2 DEF Put
    <3> QED
      BY <1>3, <3>1, <3>2
  <2>4. HeardAs(n, {p})'
    BY <1>0, <1>1, <2>1, <2>2, <2>3, TakeHeard
  <2> QED
    BY <1>2, <2>4 DEF Currents
<1> QED
  BY <1>5, <1>6

LEMMA CurrentsOne ==
    ASSUME NEW c \in Currents, NEW p \in c
    PROVE  c = {p} /\ p \in Profiles
BY DEF Currents

\* A registration reaches the entry of the boot it was sent in.
LEMMA RegistrationFits ==
    ASSUME RegistryInv, inbox # <<>>, Head(inbox).kind \in {"tel", "par", "group"},
           NEW c \in Currents, HeardAs(Head(inbox).node, c)
    PROVE  LET n == Head(inbox).node
           IN  \E p \in c :
                  /\ Head(inbox) \in RegistrationsOf(n, p)
                  /\ n \in DOMAIN registering => Learning(n, p) /\ Partial(registering[n])
                  /\ n \notin DOMAIN registering => Learned(n, p)
<1> DEFINE n == Head(inbox).node
<1>1. PICK p \in c : Head(inbox) \in RegistrationsOf(n, p)
  BY HeadFits DEF RegistryInv
<1>2. c = {p} /\ RegistrationsOf(n, p) # {}
  BY <1>1, CurrentsOne
<1>3. n \in DOMAIN registering => Learning(n, p) /\ Partial(registering[n])
  BY <1>2 DEF HeardAs, Learning
<1>4. n \notin DOMAIN registering => Learned(n, p)
  BY DEF HeardAs, Learning
<1> QED
  BY <1>1, <1>3, <1>4

LEMMA RegistrationStream ==
    ASSUME RegistryInv, StreamInv, lost = 0, HandleRegistration \/ RejectRegistration,
           NEW n \in Nodes
    PROVE  \E c \in Currents : HeardAs(n, c)'
<1> DEFINE m == Head(inbox)
           k == m.node
           e == Extended(registering[k], m)
<1>0. /\ TypeOK /\ inbox # <<>> /\ inbox' = Tail(inbox) /\ UNCHANGED busVars
      /\ m.kind \in {"tel", "par", "group"} /\ inbox[1] = m /\ k \in Nodes
  BY HeadType DEF RegistryInv, HandleRegistration, RejectRegistration, HandleError, Takes, TypeOK
<1>1. PICK c \in Currents : HeardAs(n, c)
  BY DEF StreamInv
<1>2. \/ /\ k \notin DOMAIN registering /\ UNCHANGED <<registering, registered>>
      \/ /\ k \in DOMAIN registering
         /\ registering' = Remove(registering, k) /\ registered' = Put(registered, k, e)
      \/ /\ k \in DOMAIN registering
         /\ registering' = Put(registering, k, e) /\ UNCHANGED registered
  BY DEF HandleRegistration, RejectRegistration, HandleError, busVars
<1> HIDE DEF e
<1>3. CASE n # k
  <2>1. FirstTaken(inbox, n, c, Handled(n, c), c, Handled(n, c))
    BY <1>0, <1>3 DEF FirstTaken
  <2>2. /\ n \in DOMAIN registered' <=> n \in DOMAIN registered
        /\ n \in DOMAIN registered => registered'[n].info = registered[n].info
        /\ n \in DOMAIN registering' <=> n \in DOMAIN registering
        /\ n \in DOMAIN registering => registering'[n] = registering[n]
    BY <1>2, <1>3 DEF Put, Remove
  <2>3. /\ Handled(n, c)' = Handled(n, c)
        /\ \A x : (Learned(n, x)' <=> Learned(n, x)) /\ (Learning(n, x)' <=> Learning(n, x))
    BY <2>2, SameEntries
  <2>4. HeardAs(n, c)'
    BY <1>0, <1>1, <2>1, <2>2, <2>3, TakeHeard DEF HeardAs
  <2> QED
    BY <2>4
<1>4. CASE n = k
  <2>1. PICK p \in c : /\ m \in RegistrationsOf(n, p)
                       /\ n \in DOMAIN registering => Learning(n, p) /\ Partial(registering[n])
                       /\ n \notin DOMAIN registering => Learned(n, p)
    BY <1>0, <1>1, <1>4, RegistrationFits
  <2>2. c = {p}
    BY CurrentsOne
  <2>3. n \in DOMAIN registering =>
            /\ e.info = p /\ Partial(e) /\ Has(e, m)
            /\ \A r : Has(registering[n], r) => Has(e, r)
    BY <1>0, <1>4, <2>1, ExtendedPart DEF Learning, TypeOK, e
  <2>4. /\ Learned(n, p) => Learned(n, p)'
        /\ Learned(n, p)' \/ Learning(n, p)'
        /\ \A r : Learning(n, p) /\ (Has(registering[n], r) \/ r = m) =>
              Learned(n, p)' \/ (Learning(n, p)' /\ Has(registering'[n], r))
        /\ n \in DOMAIN registering' => Partial(registering'[n]) /\ registering'[n].info = p
    <3>1. CASE k \notin DOMAIN registering /\ UNCHANGED <<registering, registered>>
      BY <1>4, <2>1, <3>1 DEF Learned, Learning
    <3>2. CASE /\ k \in DOMAIN registering
               /\ registering' = Remove(registering, k) /\ registered' = Put(registered, k, e)
      <4>1. Learned(n, p)' /\ n \notin DOMAIN registering'
        BY <1>4, <2>3, <3>2 DEF Learned, Put, Remove
      <4> QED
        BY <4>1
    <3>3. CASE /\ k \in DOMAIN registering
               /\ registering' = Put(registering, k, e) /\ UNCHANGED registered
      <4>1. n \in DOMAIN registering' /\ registering'[n] = e
        BY <1>4, <3>3 DEF Put
      <4> QED
        BY <1>4, <2>3, <3>3, <4>1 DEF Learned, Learning
    <3> QED
      BY <1>2, <3>1, <3>2, <3>3
  <2>5. \A r : Has(registering[n], r)' <=> Has(registering'[n], r)
    BY DEF Has
  <2>6. Handled(n, c) \subseteq Handled(n, c)' /\ m \in Handled(n, c)'
    <3>1. \A r : r \in Handled(n, c) <=>
              /\ r \in RegistrationsOf(n, p)
              /\ Learned(n, p) \/ (Learning(n, p) /\ Has(registering[n], r))
      BY <2>2 DEF Handled
    <3>2. \A r : r \in Handled(n, c)' <=>
              /\ r \in RegistrationsOf(n, p)
              /\ Learned(n, p)' \/ (Learning(n, p)' /\ Has(registering'[n], r))
      BY <2>2, <2>5 DEF Handled
    <3> QED
      BY <2>1, <2>4, <3>1, <3>2
  <2>7. FirstTaken(inbox, n, c, Handled(n, c), c, Handled(n, c)')
    BY <1>0, <2>6 DEF FirstTaken
  <2>8. HeardAs(n, c)'
    BY <1>0, <1>1, <2>2, <2>4, <2>7, TakeHeard
  <2> QED
    BY <2>8
<1> QED
  BY <1>3, <1>4

\* A report that was sent in a boot is handled when the registrations of that
\* boot were, and none of a later one.
LEMMA ReportFits ==
    ASSUME RegistryInv, inbox # <<>>, Head(inbox).kind \in {"update", "value"},
           NEW c \in Currents, HeardAs(Head(inbox).node, c)
    PROVE  Learned(Head(inbox).node, Head(inbox).value.as)
<1> DEFINE n == Head(inbox).node
<1>1. PICK p \in c : Head(inbox).value.as = p /\ RegistrationsOf(n, p) \subseteq Handled(n, c)
  BY HeadFits DEF RegistryInv
<1>2. c = {p}
  BY CurrentsOne
<1>3. Learned(n, p) \/ Learning(n, p)
  BY DEF HeardAs
<1>4. ASSUME ~Learned(n, p) PROVE FALSE
  <2>1. Learning(n, p) /\ \A r \in RegistrationsOf(n, p) : Has(registering[n], r)
    BY <1>1, <1>2, <1>3, <1>4 DEF Handled
  <2>2. n \in DOMAIN registering /\ registering[n].info = p
        /\ Partial(registering[n]) /\ IsCanNode(registering[n])
    BY <2>1 DEF Learning, HeardAs, RegistryInv, TypeOK
  <2>3. Complete(registering[n])
    BY <2>1, <2>2, AllRegistered
  <2> QED
    BY <2>2, <2>3 DEF RegistryInv, CompletenessSplit
<1> QED
  BY <1>1, <1>4

\* Storing values, or nothing, leaves the entries what they are for the stream.
LEMMA ReportStream ==
    ASSUME RegistryInv, StreamInv, lost = 0, NEW n \in Nodes,
           HandleGroupUpdate \/ RejectGroupUpdate \/ HandleFieldGetRes \/ RejectFieldGetRes
    PROVE  \E c \in Currents : HeardAs(n, c)'
<1>0. /\ TypeOK /\ inbox # <<>> /\ inbox' = Tail(inbox) /\ UNCHANGED <<busVars, registering>>
      /\ Head(inbox).kind \in {"update", "value"} /\ inbox[1] = Head(inbox)
  <2>1. TypeOK /\ inbox # <<>> /\ Head(inbox).kind \in {"update", "value"}
    BY DEF RegistryInv, HandleGroupUpdate, RejectGroupUpdate, HandleFieldGetRes,
           RejectFieldGetRes, Takes
  <2>2. ASSUME NEW k, NEW ids, NEW v, Store(k, ids, v)
        PROVE  inbox' = Tail(inbox) /\ UNCHANGED <<busVars, registering>>
    BY <2>2 DEF Store
  <2>3. inbox' = Tail(inbox) /\ UNCHANGED <<busVars, registering>>
    BY <2>2 DEF HandleGroupUpdate, RejectGroupUpdate, HandleFieldGetRes,
           RejectFieldGetRes, HandleError
  <2> QED
    BY <2>1, <2>3 DEF TypeOK
<1>1. PICK c \in Currents : HeardAs(n, c)
  BY DEF StreamInv
<1>2. /\ n \in DOMAIN registered' <=> n \in DOMAIN registered
      /\ n \in DOMAIN registered => registered'[n].info = registered[n].info
  <2>1. ASSUME NEW k, NEW ids, NEW v, Store(k, ids, v)
        PROVE  /\ n \in DOMAIN registered' <=> n \in DOMAIN registered
               /\ n \in DOMAIN registered => registered'[n].info = registered[n].info
    BY <2>1 DEF Store, RegistryInv, TypeOK, IsCanNode
  <2> QED
    BY <2>1 DEF HandleGroupUpdate, RejectGroupUpdate, HandleFieldGetRes,
         RejectFieldGetRes, HandleError
<1>3. /\ Handled(n, c)' = Handled(n, c)
      /\ \A x : (Learned(n, x)' <=> Learned(n, x)) /\ (Learning(n, x)' <=> Learning(n, x))
  BY <1>0, <1>2, SameEntries
<1>4. FirstTaken(inbox, n, c, Handled(n, c), c, Handled(n, c))
  BY <1>0 DEF FirstTaken
<1>5. HeardAs(n, c)'
  BY <1>0, <1>1, <1>3, <1>4, TakeHeard DEF HeardAs
<1> QED
  BY <1>5

\* The tables of a node that registers now.
LEMMA HandleTables ==
    ASSUME RegistryInv, StreamInv, TablesOfOneBoot, lost = 0, Handle
    PROVE  \A n \in DOMAIN registered' : Whole(registered'[n])
<1>0. TypeOK
  BY DEF RegistryInv
<1>1. \A n \in DOMAIN registered : Whole(registered[n])
  BY DEF TablesOfOneBoot, Whole
<1>2. CASE HandleAnnouncement
  <2> DEFINE k == Head(inbox).node
             e == NewCanNode(Head(inbox).info)
  <2>1. Head(inbox).info \in Profiles
    BY <1>0, <1>2, HeadType DEF HandleAnnouncement, Takes
  <2>2. \/ Whole(e) /\ registered' = Put(registered, k, e)
        \/ UNCHANGED registered
    BY <1>2, <2>1, NothingToRegister DEF HandleAnnouncement
  <2> HIDE DEF e
  <2> QED
    BY <1>1, <2>2 DEF Put
<1>3. CASE HandleRegistration
  <2> DEFINE m == Head(inbox)
             k == m.node
             e == Extended(registering[k], m)
  <2>1. /\ inbox # <<>> /\ m.kind \in {"tel", "par", "group"} /\ k \in DOMAIN registering
        /\ k \in Nodes /\ m \in Registrations
    BY <1>0, <1>3, HeadType DEF HandleRegistration, Takes
  <2>2. PICK c \in Currents : HeardAs(k, c)
    BY <2>1 DEF StreamInv
  <2>3. PICK p \in c : m \in RegistrationsOf(k, p) /\ Learning(k, p) /\ Partial(registering[k])
    BY <2>1, <2>2, RegistrationFits
  <2>4. IsCanNode(registering[k]) /\ registering[k].info = p
    BY <1>0, <2>1, <2>3 DEF TypeOK, Learning
  <2>5. IsCanNode(e) /\ Partial(e)
    BY <2>1, <2>3, <2>4, ExtendedType, ExtendedPart
  <2>6. \/ Complete(e) /\ registered' = Put(registered, k, e)
        \/ UNCHANGED registered
    BY <1>3 DEF HandleRegistration, CompletedBy
  <2>7. Complete(e) => Whole(e)
    BY <2>5, CompletePart
  <2> HIDE DEF e
  <2> QED
    BY <1>1, <2>6, <2>7 DEF Put
<1>4. ASSUME NEW k, NEW ids, NEW v, Store(k, ids, v)
      PROVE  \A n \in DOMAIN registered' : Whole(registered'[n])
  BY <1>0, <1>1, <1>4 DEF Store, Whole, TypeOK, IsCanNode
<1>5. CASE HandleGroupUpdate
  BY <1>4, <1>5 DEF HandleGroupUpdate
<1>6. CASE HandleFieldGetRes
  BY <1>4, <1>6 DEF HandleFieldGetRes
<1>7. CASE HandleError
  BY <1>1, <1>7 DEF HandleError
<1> QED
  BY <1>2, <1>3, <1>5, <1>6, <1>7
  DEF Handle, RejectRegistration, RejectGroupUpdate, RejectFieldGetRes

\* The values of a node are of the firmware it is registered with.
Fresh(c) == \A f \in DOMAIN c.values : c.values[f].as = c.info

LEMMA HandleDecoded ==
    ASSUME RegistryInv, StreamInv, DecodedAsSent, lost = 0, Handle
    PROVE  \A n \in DOMAIN registered' : Fresh(registered'[n])
<1>0. TypeOK
  BY DEF RegistryInv
<1>1. \A n \in DOMAIN registered : Fresh(registered[n])
  BY DEF DecodedAsSent, Fresh
<1>2. CASE HandleAnnouncement
  <2> DEFINE k == Head(inbox).node
             e == NewCanNode(Head(inbox).info)
  <2>1. Fresh(e)
    BY DEF Fresh, NewCanNode, EmptyMap
  <2>2. \/ registered' = Put(registered, k, e)
        \/ UNCHANGED registered
    BY <1>2 DEF HandleAnnouncement
  <2> HIDE DEF e
  <2> QED
    BY <1>1, <2>1, <2>2 DEF Put
<1>3. CASE HandleRegistration
  <2> DEFINE m == Head(inbox)
             k == m.node
             e == Extended(registering[k], m)
  <2>1. k \in DOMAIN registering /\ m \in Registrations
    BY <1>0, <1>3, HeadType DEF HandleRegistration, Takes
  <2>2. e.values = EmptyMap
    BY <1>0, <2>1, ExtendedType DEF RegistryInv, NoValuesYet, TypeOK
  <2>3. Fresh(e)
    BY <2>2 DEF Fresh, EmptyMap
  <2>4. \/ registered' = Put(registered, k, e)
        \/ UNCHANGED registered
    BY <1>3 DEF HandleRegistration
  <2> HIDE DEF e
  <2> QED
    BY <1>1, <2>3, <2>4 DEF Put
<1>4. ASSUME NEW ids, Store(Head(inbox).node, ids, Head(inbox).value),
             inbox # <<>>, Head(inbox).kind \in {"update", "value"}
      PROVE  \A n \in DOMAIN registered' : Fresh(registered'[n])
  <2> DEFINE k == Head(inbox).node
             v == Head(inbox).value
             w == [f \in DOMAIN registered[k].values \cup ids |->
                      IF f \in ids THEN v ELSE registered[k].values[f]]
             e == [registered[k] EXCEPT !.values = w]
  <2>1. k \in Nodes
    BY <1>0, <1>4, HeadType
  <2>2. PICK c \in Currents : HeardAs(k, c)
    BY <2>1 DEF StreamInv
  <2>3. k \in DOMAIN registered /\ registered[k].info = v.as
    BY <1>4, <2>2, ReportFits DEF Learned
  <2>4. registered' = [registered EXCEPT ![k] = e]
    BY <1>4 DEF Store
  <2>5. IsCanNode(registered[k]) /\ Fresh(registered[k])
    BY <1>0, <1>1, <2>3 DEF TypeOK
  <2>6. e.values = w /\ e.info = v.as
    BY <2>3, <2>5 DEF IsCanNode
  <2>7. Fresh(e)
    BY <2>3, <2>5, <2>6 DEF Fresh
  <2> HIDE DEF e
  <2> QED
    BY <1>1, <2>3, <2>4, <2>7
<1>5. CASE HandleGroupUpdate
  BY <1>4, <1>5 DEF HandleGroupUpdate, Takes
<1>6. CASE HandleFieldGetRes
  BY <1>4, <1>6 DEF HandleFieldGetRes, Takes
<1>7. CASE HandleError
  BY <1>1, <1>7 DEF HandleError
<1> QED
  BY <1>2, <1>3, <1>5, <1>6, <1>7
  DEF Handle, RejectRegistration, RejectGroupUpdate, RejectFieldGetRes

\* The inductive invariant of the registry when no frame is lost.
BootsApart == RegistryInv /\ StreamInv /\ TablesOfOneBoot /\ DecodedAsSent

LEMMA InitBoots == Init => BootsApart
<1> SUFFICES ASSUME Init PROVE BootsApart
  OBVIOUS
<1>1. DOMAIN registered = {}
  BY DEF Init, EmptyMap
<1> QED
  BY <1>1, InitRegistry, InitStream DEF BootsApart, TablesOfOneBoot, DecodedAsSent

LEMMA HandleKeepsBus == Handle => lost' = lost
<1>1. \A k, ids, v : Store(k, ids, v) => lost' = lost
  BY DEF Store, busVars
<1> QED
  BY <1>1 DEF Handle, HandleAnnouncement, HandleRegistration, RejectRegistration,
       HandleGroupUpdate, RejectGroupUpdate, HandleFieldGetRes, RejectFieldGetRes,
       HandleError, busVars

LEMMA LostOnce ==
    ASSUME TypeOK, [Next]_vars, lost' = 0
    PROVE  lost = 0
BY BusKeepsTables, HandleKeepsBus DEF Next, vars, busVars

LEMMA HandleBoots ==
    ASSUME BootsApart, Handle
    PROVE  (StreamInv /\ TablesOfOneBoot /\ DecodedAsSent)'
<1>1. lost' = lost
  BY HandleKeepsBus
<1> SUFFICES ASSUME lost = 0
             PROVE  (StreamInv /\ TablesOfOneBoot /\ DecodedAsSent)'
  BY <1>1 DEF StreamInv, TablesOfOneBoot, DecodedAsSent
<1>2. StreamInv'
  <2>1. \A n \in Nodes : \E c \in Currents : HeardAs(n, c)'
    BY AnnouncementStream, RegistrationStream, ReportStream DEF BootsApart, Handle
  <2> QED
    BY <2>1 DEF StreamInv
<1>3. TablesOfOneBoot'
  BY HandleTables DEF BootsApart, TablesOfOneBoot, Whole
<1>4. DecodedAsSent'
  BY HandleDecoded DEF BootsApart, DecodedAsSent, Fresh
<1> QED
  BY <1>2, <1>3, <1>4

LEMMA NextBoots == BootsApart /\ [Next]_vars => BootsApart'
<1> SUFFICES ASSUME BootsApart, [Next]_vars PROVE BootsApart'
  OBVIOUS
<1>0. RegistryInv' /\ TypeOK
  BY NextRegistry DEF BootsApart, RegistryInv
<1>1. CASE Handle
  BY <1>0, <1>1, HandleBoots DEF BootsApart
<1>2. ASSUME NEW k \in Nodes, (\E p \in Profiles : Boot(k, p)) \/ Register(k) \/ Report(k)
      PROVE  BootsApart'
  <2>1. StreamInv'
    BY <1>0, <1>2, BusStream DEF BootsApart
  <2>2. registered' = registered /\ (lost' = 0 => lost = 0)
    BY <1>0, <1>2, BusKeepsTables
  <2> QED
    BY <1>0, <2>1, <2>2 DEF BootsApart, TablesOfOneBoot, DecodedAsSent
<1>3. CASE UNCHANGED vars
  <2>1. \A n, c : HeardAs(n, c)' <=> HeardAs(n, c)
    <3> SUFFICES ASSUME NEW n, NEW c PROVE HeardAs(n, c)' <=> HeardAs(n, c)
      OBVIOUS
    <3>1. /\ Handled(n, c)' = Handled(n, c)
          /\ \A p : (Learned(n, p)' <=> Learned(n, p)) /\ (Learning(n, p)' <=> Learning(n, p))
      BY <1>3, SameEntries DEF vars
    <3> QED
      BY <1>3, <3>1 DEF HeardAs, vars, busVars
  <2>2. StreamInv'
    BY <1>3, <2>1 DEF BootsApart, StreamInv, vars, busVars
  <2> QED
    BY <1>0, <1>3, <2>2 DEF BootsApart, TablesOfOneBoot, DecodedAsSent, vars, busVars
<1> QED
  BY <1>1, <1>2, <1>3 DEF Next

THEOREM BootInvariance == Spec => []BootsApart
<1> QED
  BY InitBoots, NextBoots, PTL DEF Spec

\* A registered node's tables are those of one firmware, however often nodes
\* reboot and whatever is still in the queue, when no frame is lost.
THEOREM OneBoot == Spec => []TablesOfOneBoot
<1>1. BootsApart => TablesOfOneBoot
  BY DEF BootsApart
<1> QED
  BY <1>1, BootInvariance, PTL

\* A value is decoded with the tables of the firmware that encoded it, when no
\* frame is lost.
THEOREM DecodedByItsFirmware == Spec => []DecodedAsSent
<1>1. BootsApart => DecodedAsSent
  BY DEF BootsApart
<1> QED
  BY <1>1, BootInvariance, PTL

-----------------------------------------------------------------------------
(* Conversions.                                                            *)

\* Facts about the arguments of a set.
LEMMA SetArgs ==
    ASSUME NEW args \in Calls, args.op = "set"
    PROVE  /\ args.in \in Inputs /\ args.in.num \in Int
           /\ args.entry \in Entries /\ args.entry.slope \in Int \ {0}
           /\ args.entry.offset \in Int
BY MappingAssumption, AccessAssumption DEF Calls

\* Multiplying by a positive number keeps the order.
LEMMA ProductOrder ==
    ASSUME NEW x \in Int, NEW y \in Int, NEW d \in Int, d > 0
    PROVE  x < y <=> x * d < y * d
<1>1. ASSUME x < y PROVE x * d < y * d
  <2>1. y - x >= 1 /\ (y - x) * d > 0
    BY <1>1
  <2>2. (y - x) * d = y * d - x * d
    OBVIOUS
  <2> QED
    BY <2>1, <2>2
<1>2. ASSUME ~(x < y) PROVE ~(x * d < y * d)
  <2>1. x - y >= 0 /\ (x - y) * d >= 0
    BY <1>2
  <2>2. (x - y) * d = x * d - y * d
    OBVIOUS
  <2> QED
    BY <2>1, <2>2
<1> QED
  BY <1>1, <1>2

\* A narrowed value is a Float32, and the value itself or the first one beyond.
LEMMA NarrowedTo ==
    ASSUME NEW n \in Int, NEW d \in Int, d > 0, NEW q \in Narrowings(<<n, d>>)
    PROVE  /\ (q[1] \in Singles /\ q[2] = Scale) \/ q \in {<<1, 0>>, <<-1, 0>>}
           /\ q \in Seq(Int) /\ q[1] \in Int /\ q[2] \in Int
           /\ \A s \in Singles :
                 /\ s * q[2] < q[1] * Scale => s * d < n * Scale
                 /\ q[1] * Scale < s * q[2] => n * Scale < s * d
<1> DEFINE a == n * Scale
<1>0. /\ Scale \in Int /\ Scale > 0 /\ Overflow \in Int /\ Overflow > 0 /\ a \in Int
      /\ \A s \in Singles : s \in Int /\ -Overflow < s /\ s < Overflow
  <2>1. Scale \in Nat \ {0} /\ Overflow \in Nat \ {0}
    BY AccessAssumption
  <2>2. \A s \in Singles : s \in Int /\ -Overflow < s /\ s < Overflow
    BY AccessAssumption
  <2> QED
    BY <2>1, <2>2
<1>1. Overflow * d \in Int /\ (-Overflow) * d = -(Overflow * d) /\ Overflow * d > 0
  BY <1>0
<1>2. CASE a >= Overflow * d
  <2>1. q = <<1, 0>>
    <3>2. a > 0 /\ ~(n < 0)
      <4>1. a > 0
        BY <1>0, <1>1, <1>2
      <4> QED
        BY <1>0, <4>1, ProductOrder
    <3> HIDE DEF a
    <3>3. ~(Distance(0, a) < Overflow * d)
      BY <1>0, <1>1, <1>2, <3>2 DEF Distance
    <3> QED
      BY <3>2, <3>3 DEF Narrowings, a
  <2>2. ASSUME NEW s \in Singles PROVE s * d < a
    <3>1. s * d < Overflow * d
      BY <1>0, ProductOrder
    <3> QED
      BY <1>0, <1>1, <1>2, <3>1
  <2>3. ASSUME NEW s \in Singles PROVE ~(q[1] * Scale < s * q[2])
    BY <1>0, <2>1
  <2> QED
    BY <2>1, <2>2, <2>3
<1>3. CASE -a >= Overflow * d
  <2>1. q = <<-1, 0>>
    <3>2. a < 0 /\ n < 0
      <4>1. a < 0
        BY <1>0, <1>1, <1>3
      <4> QED
        BY <1>0, <4>1, ProductOrder
    <3> HIDE DEF a
    <3>3. ~(Distance(0, a) < Overflow * d)
      BY <1>0, <1>1, <1>3, <3>2 DEF Distance
    <3> QED
      BY <3>2, <3>3 DEF Narrowings, a
  <2>2. ASSUME NEW s \in Singles PROVE a < s * d
    <3>1. (-Overflow) * d < s * d
      BY <1>0, ProductOrder
    <3> QED
      BY <1>0, <1>1, <1>3, <3>1
  <2>3. ASSUME NEW s \in Singles PROVE ~(s * q[2] < q[1] * Scale)
    BY <1>0, <2>1
  <2> QED
    BY <2>1, <2>2, <2>3
<1>4. CASE ~(a >= Overflow * d) /\ ~(-a >= Overflow * d)
  <2>1. PICK m \in Nearest(<<n, d>>) : q = <<m, Scale>>
    <3> HIDE DEF a
    <3>1. Distance(0, a) < Overflow * d
      BY <1>0, <1>1, <1>4 DEF Distance
    <3> QED
      BY <3>1 DEF Narrowings, a
  <2>2. m \in Singles /\ m \in Int /\ q[1] = m /\ q[2] = Scale /\ q \in Seq(Int)
    BY <1>0, <2>1 DEF Nearest
  <2>3. ASSUME NEW s \in Singles
        PROVE  /\ Distance(m * d, a) <= Distance(s * d, a)
               /\ s \in Int /\ s * d \in Int /\ m * d \in Int
               /\ s < m <=> s * d < m * d
               /\ m < s <=> m * d < s * d
               /\ s < m <=> s * Scale < m * Scale
               /\ m < s <=> m * Scale < s * Scale
    BY <1>0, <2>1, <2>2, ProductOrder DEF Nearest
  <2>4. ASSUME NEW s \in Singles
        PROVE  /\ s * Scale < m * Scale => s * d < a
               /\ m * Scale < s * Scale => a < s * d
    <3> HIDE DEF a
    <3> QED
      BY <1>0, <2>3 DEF Distance
  <2>5. \A s \in Singles :
          /\ s * q[2] < q[1] * Scale => s * d < n * Scale
          /\ q[1] * Scale < s * q[2] => n * Scale < s * d
    BY <2>2, <2>4
  <2> QED
    BY <1>0, <2>2, <2>5
<1> QED
  BY <1>2, <1>3, <1>4

\* json_value_to_can_data_value makes the value asked for, or none.
LEMMA RawAsAsked ==
    ASSUME NEW args \in Calls, args.op = "set", ~args.in.mapped,
           NEW t \in DOMAIN RangeOf \cup {Float}, NEW q \in RawEncodings(t, args.in)
    PROVE  AsAsked(args, t, q) /\ q \in Seq(Int)
<1> DEFINE v == args.in.num
<1>0. v \in Int /\ \A r : ReadAs(args, r) = r
  BY SetArgs DEF ReadAs
<1> HIDE DEF v
<1>1. CASE t = Float
  <2>1. t # Bool
    BY <1>1, AccessAssumption
  <2>2. q \in Narrowings(<<v, 1>>)
    BY <1>1, <2>1 DEF RawEncodings, v
  <2>3. /\ (q[1] \in Singles /\ q[2] = Scale) \/ q \in {<<1, 0>>, <<-1, 0>>}
        /\ q \in Seq(Int) /\ q[1] \in Int /\ q[2] \in Int
        /\ \A s \in Singles :
              /\ s * q[2] < q[1] * Scale => s * 1 < v * Scale
              /\ q[1] * Scale < s * q[2] => v * Scale < s * 1
    BY <1>0, <2>2, NarrowedTo
  <2>4. \A s \in Singles :
          /\ Less(<<s, Scale>>, q) => Less(<<s, Scale>>, <<v, 1>>)
          /\ Less(q, <<s, Scale>>) => Less(<<v, 1>>, <<s, Scale>>)
    BY <2>3 DEF Less
  <2>5. ReadAs(args, q) = q /\ \A s \in Singles : ReadAs(args, <<s, Scale>>) = <<s, Scale>>
    BY <1>0
  <2> HIDE DEF v
  <2>6. AsAsked(args, t, q) <=>
            /\ (q[1] \in Singles /\ q[2] = Scale) \/ q \in {<<1, 0>>, <<-1, 0>>}
            /\ \A s \in Singles :
                  /\ Less(<<s, Scale>>, q) => Less(<<s, Scale>>, <<v, 1>>)
                  /\ Less(q, <<s, Scale>>) => Less(<<v, 1>>, <<s, Scale>>)
    BY <1>1, <2>1, <2>5 DEF AsAsked, v
  <2> QED
    BY <2>3, <2>4, <2>6
<1>2. CASE t = Bool
  <2>1. q = <<IF v = 0 THEN 0 ELSE 1, 1>> /\ t # Float
    BY <1>2, AccessAssumption DEF RawEncodings, v
  <2>2. q \in Seq(Int)
    BY <2>1
  <2> QED
    BY <1>2, <2>1, <2>2 DEF AsAsked, v
<1>3. CASE t # Float /\ t # Bool
  <2>1. q \in {<<r, 1>> : r \in RangeOf[t] \cap {v}}
    BY <1>3 DEF RawEncodings, v
  <2>2. q = <<v, 1>> /\ v \in RangeOf[t]
    BY <2>1
  <2>3. q \in Seq(Int) /\ q[1] = v /\ q[2] = 1 /\ ReadAs(args, q) = q
    BY <1>0, <2>2
  <2> QED
    BY <1>3, <2>2, <2>3 DEF AsAsked, v
<1> QED
  BY <1>1, <1>2, <1>3

\* raw_value_from_mapped makes a value that maps back to the one asked for, or
\* none; a Float32, whose mapping is a line, to within its rounding.
LEMMA MappedAsAsked ==
    ASSUME NEW args \in Calls, args.op = "set", args.in.mapped,
           NEW t \in DOMAIN RangeOf \cup {Float},
           NEW q \in MappedEncodings(args.entry, t, args.in)
    PROVE  AsAsked(args, t, q) /\ q \in Seq(Int)
<1> DEFINE v == args.in.num
           k == args.entry.slope
           o == args.entry.offset
<1>0. v \in Int /\ k \in Int \ {0} /\ o \in Int
  BY SetArgs
<1>1. \A r : ReadAs(args, r) = <<r[1] * k + o * r[2], r[2]>>
  BY DEF ReadAs
<1>2. CASE t = Float
  <2> DEFINE n == IF k < 0 THEN -(v - o) ELSE v - o
             d == IF k < 0 THEN -k ELSE k
  <2>1. n \in Int /\ d \in Int /\ d > 0 /\ q \in Narrowings(<<n, d>>)
    BY <1>0, <1>2 DEF MappedEncodings, RawFromMapped, Fraction
  <2>2. /\ (q[1] \in Singles /\ q[2] = Scale) \/ q \in {<<1, 0>>, <<-1, 0>>}
        /\ q \in Seq(Int) /\ q[1] \in Int /\ q[2] \in Int
        /\ \A s \in Singles :
              /\ s * q[2] < q[1] * Scale => s * d < n * Scale
              /\ q[1] * Scale < s * q[2] => n * Scale < s * d
    BY <2>1, NarrowedTo
  <2>3. /\ Scale \in Int /\ Scale > 0 /\ \A s \in Singles : s \in Int
    BY AccessAssumption
  <2>4. ASSUME NEW s \in Singles
        PROVE  LET other == ReadAs(args, <<s, Scale>>)
                   sent == ReadAs(args, q)
                   asked == <<v, 1>>
               IN  /\ Less(other, sent) => Less(other, asked)
                   /\ Less(sent, other) => Less(asked, other)
    <3> DEFINE x == s * q[2]
               y == q[1] * Scale
               other == ReadAs(args, <<s, Scale>>)
               sent == ReadAs(args, q)
    <3>1. x \in Int /\ y \in Int
      BY <2>2, <2>3
    <3>2. /\ Less(other, sent) <=>
               (s * k + o * Scale) * q[2] < (q[1] * k + o * q[2]) * Scale
          /\ Less(sent, other) <=>
               (q[1] * k + o * q[2]) * Scale < (s * k + o * Scale) * q[2]
          /\ Less(other, <<v, 1>>) <=> (s * k + o * Scale) * 1 < v * Scale
          /\ Less(<<v, 1>>, other) <=> v * Scale < (s * k + o * Scale) * 1
      BY <1>1 DEF Less
    <3>3. /\ (s * k + o * Scale) * q[2] = x * k + o * Scale * q[2]
          /\ (q[1] * k + o * q[2]) * Scale = y * k + o * Scale * q[2]
          /\ v * Scale = (v - o) * Scale + o * Scale
      <4> HIDE DEF v, k, o
      <4>1. (s * k + o * Scale) * q[2] = x * k + o * Scale * q[2]
        BY <1>0, <2>2, <2>3
      <4>2. (q[1] * k + o * q[2]) * Scale = y * k + o * Scale * q[2]
        BY <1>0, <2>2, <2>3
      <4>3. v * Scale = (v - o) * Scale + o * Scale
        BY <1>0, <2>3
      <4> QED
        BY <4>1, <4>2, <4>3
    <3>4. /\ Less(other, sent) <=> x * k < y * k
          /\ Less(sent, other) <=> y * k < x * k
          /\ Less(other, <<v, 1>>) <=> s * k < (v - o) * Scale
          /\ Less(<<v, 1>>, other) <=> (v - o) * Scale < s * k
      <4>1. /\ x * k \in Int /\ y * k \in Int /\ o * Scale * q[2] \in Int
            /\ s * k \in Int /\ o * Scale \in Int /\ (v - o) * Scale \in Int
            /\ (s * k + o * Scale) * 1 = s * k + o * Scale
        <5> HIDE DEF x, y, v, k, o
        <5>1. s * k \in Int /\ o * Scale \in Int
          BY <1>0, <2>3
        <5>2. o * Scale * q[2] \in Int /\ (v - o) * Scale \in Int
          BY <1>0, <2>2, <2>3, <5>1
        <5> QED
          BY <1>0, <3>1, <5>1, <5>2
      <4> HIDE DEF x, y, v, k, o, other, sent
      <4> QED
        BY <3>2, <3>3, <4>1
    <3>5. /\ x < y => s * d < n * Scale
          /\ y < x => n * Scale < s * d
      BY <2>2
    <3>6. CASE k > 0
      <4>1. n = v - o /\ d = k
        BY <1>0, <3>6
      <4>2. (x < y <=> x * k < y * k) /\ (y < x <=> y * k < x * k)
        BY <1>0, <3>1, <3>6, ProductOrder
      <4> QED
        BY <3>4, <3>5, <4>1, <4>2
    <3>7. CASE k < 0
      <4>1. n = -(v - o) /\ d = -k
        BY <3>7
      <4>2. (x < y <=> x * d < y * d) /\ (y < x <=> y * d < x * d)
        BY <2>1, <3>1, ProductOrder
      <4>3. /\ x * d = -(x * k) /\ y * d = -(y * k) /\ s * d = -(s * k)
            /\ n * Scale = -((v - o) * Scale)
        <5> HIDE DEF n, d, x, y, v, k, o
        <5>1. n * Scale = -((v - o) * Scale)
          BY <1>0, <2>3, <4>1
        <5>2. x * d = -(x * k) /\ y * d = -(y * k) /\ s * d = -(s * k)
          BY <1>0, <2>3, <3>1, <4>1
        <5> QED
          BY <5>1, <5>2
      <4>4. /\ x * k \in Int /\ y * k \in Int /\ s * k \in Int /\ (v - o) * Scale \in Int
        BY <1>0, <2>3, <3>1
      <4> HIDE DEF n, d, x, y
      <4> QED
        BY <3>4, <3>5, <4>2, <4>3, <4>4
    <3> QED
      BY <1>0, <3>6, <3>7
  <2> QED
    BY <1>2, <2>2, <2>4 DEF AsAsked
<1>3. CASE t # Float
  <2>1. PICK r \in RangeOf[t] : LET f == RawFromMapped(args.entry, v)
                                IN  r * f[2] = f[1] /\ q = <<r, 1>>
    BY <1>3 DEF MappedEncodings
  <2>2. r \in Int
    BY <1>3, AccessAssumption
  <2>3. q[1] = r /\ q[2] = 1 /\ q \in Seq(Int)
    BY <2>1, <2>2
  <2>4. r * k = v - o
    <3>1. CASE k > 0
      BY <1>0, <2>1, <2>2, <3>1 DEF RawFromMapped, Fraction
    <3>2. CASE k < 0
      <4>1. r * (-k) = -(v - o)
        BY <1>0, <2>1, <2>2, <3>2 DEF RawFromMapped, Fraction
      <4>2. r * (-k) = -(r * k)
        BY <1>0, <2>2
      <4> QED
        <5> HIDE DEF v, k, o
        <5>1. r * k \in Int /\ v - o \in Int
          BY <1>0, <2>2
        <5> QED
          BY <4>1, <4>2, <5>1
    <3> QED
      BY <1>0, <3>1, <3>2
  <2>5. ReadAs(args, q) = <<v, 1>>
    <3>1. r * k + o * 1 = v
      BY <1>0, <2>2, <2>4
    <3> QED
      BY <1>1, <2>3, <3>1
  <2> QED
    BY <1>3, <2>1, <2>3, <2>5 DEF AsAsked
<1> QED
  BY <1>2, <1>3

LEMMA EncodedAsAsked ==
    ASSUME NEW args \in Calls, args.op = "set", NEW t \in DOMAIN RangeOf \cup {Float},
           NEW q \in Encodings(args, t)
    PROVE  AsAsked(args, t, q) /\ q \in Seq(Int)
BY RawAsAsked, MappedAsAsked DEF Encodings

-----------------------------------------------------------------------------
(* Types.                                                                  *)

\* What a lookup finds is a field of a node.
LEMMA TargetsType ==
    ASSUME TypeOK, NEW n \in Nodes, NEW e \in Entries
    PROVE  TargetsOn(n, e) \subseteq Targets
<1> SUFFICES ASSUME n \in DOMAIN registered PROVE TargetsOn(n, e) \subseteq Targets
  BY DEF TargetsOn
<1> DEFINE c == registered[n]
           fields == Table(e, c.tel, c.par)
<1>1. IsCanNode(c)
  BY DEF TypeOK
<1>2. c.info \in Profiles /\ IsMap(fields, Fields, Infos)
  BY <1>1 DEF IsCanNode, Table
<1>3. \A f \in FieldsNamed(e, c.info, fields) : f \in Fields /\ fields[f] \in Infos
  BY <1>2 DEF FieldsNamed, IsMap
<1> QED
  BY <1>2, <1>3 DEF TargetsOn, Targets

LEMMA LatestType ==
    ASSUME TypeOK, NEW t \in Targets
    PROVE  Latest(t) \in Value \cup {NoValue}
BY DEF TypeOK, IsCanNode, IsMap, Latest, Targets

\* One more request keeps the types and the promise of the ones on their way.
LEMMA AppendRequest ==
    ASSUME wire \in Seq(Requests), WrittenAsAsked, NEW r \in Requests,
           RequestAsAsked(r), wire' = Append(wire, r)
    PROVE  wire' \in Seq(Requests) /\ WrittenAsAsked'
<1>1. wire' \in Seq(Requests)
  OBVIOUS
<1>2. \A i \in DOMAIN wire' : wire'[i] = r \/ (i \in DOMAIN wire /\ wire'[i] = wire[i])
  OBVIOUS
<1> QED
  BY <1>1, <1>2 DEF WrittenAsAsked, RequestAsAsked

LEMMA TailRequests ==
    ASSUME wire \in Seq(Requests), WrittenAsAsked, wire # <<>>, wire' = Tail(wire)
    PROVE  wire' \in Seq(Requests) /\ WrittenAsAsked'
<1>1. wire' \in Seq(Requests)
  OBVIOUS
<1>2. \A i \in DOMAIN wire' : i + 1 \in DOMAIN wire /\ wire'[i] = wire[i + 1]
  OBVIOUS
<1> QED
  BY <1>1, <1>2 DEF WrittenAsAsked, RequestAsAsked

-----------------------------------------------------------------------------
(* The invariant.                                                          *)

AccessInv == AccessTypeOK /\ WrittenAsAsked

LEMMA InitAccess == AccessInit => AccessInv
BY InitType DEF AccessInit, AccessInv, AccessTypeOK, CallTypeOK, WrittenAsAsked

LEMMA ResolvedType ==
    ASSUME AccessInv, call.pc = "resolved"
    PROVE  /\ call.args \in Calls /\ call.target \in Targets
           /\ TypeOf[call.target.field] \in DOMAIN RangeOf \cup {Float}
<1>1. call.args \in Calls /\ call.target \in Targets
  BY DEF AccessInv, AccessTypeOK, CallTypeOK, Idle
<1> QED
  BY <1>1, AccessAssumption DEF Targets

LEMMA AccessStep ==
    ASSUME AccessInv, Access
    PROVE  AccessInv'
<1>0. /\ TypeOK /\ wire \in Seq(Requests) /\ WrittenAsAsked /\ CallTypeOK
      /\ UNCHANGED vars
  BY DEF AccessInv, AccessTypeOK, Access, Begin, Visit, NotRegistered, Refuse, Read,
         Return, Request, Write, Dispatch, Arrive
<1>1. TypeOK'
  BY <1>0, NextType
<1>2. CASE UNCHANGED wire /\ CallTypeOK'
  BY <1>0, <1>1, <1>2 DEF AccessInv, AccessTypeOK, WrittenAsAsked, RequestAsAsked
<1>3. CASE wire' \in Seq(Requests) /\ WrittenAsAsked' /\ CallTypeOK'
  BY <1>1, <1>3 DEF AccessInv, AccessTypeOK
<1>4. ASSUME NEW args \in Calls, Begin(args)
      PROVE  AccessInv'
  BY <1>2, <1>4 DEF Begin, CallTypeOK
<1>5. ASSUME NEW n \in Nodes, Visit(n)
      PROVE  AccessInv'
  <2>1. call \in [pc : {"scan"}, args : Calls, left : SUBSET Nodes]
    BY <1>0, <1>5 DEF Visit, CallTypeOK, Idle
  <2>2. TargetsOn(n, call.args.entry) \subseteq Targets
    BY <1>0, <2>1, TargetsType DEF Calls
  <2> QED
    BY <1>2, <1>5, <2>1, <2>2 DEF Visit, CallTypeOK
<1>6. CASE NotRegistered \/ Refuse \/ Return
  BY <1>2, <1>6 DEF NotRegistered, Refuse, Return, CallTypeOK
<1>7. CASE Read
  <2>1. call.args \in Calls /\ call.target \in Targets
    BY <1>7, ResolvedType DEF Read, Resolved
  <2> QED
    BY <1>0, <1>2, <1>7, <2>1, LatestType DEF Read, CallTypeOK
<1>8. CASE Request
  <2> DEFINE r == [args |-> call.args, target |-> call.target, raw |-> <<>>]
  <2>1. r \in Requests /\ RequestAsAsked(r)
    BY <1>8, ResolvedType DEF Request, Resolved, Requests, RequestAsAsked
  <2>2. wire' = Append(wire, r) /\ call' = Idle
    BY <1>8 DEF Request, Dispatch
  <2> QED
    BY <1>0, <1>3, <2>1, <2>2, AppendRequest DEF CallTypeOK
<1>9. CASE Write
  <2>1. call.pc = "resolved" /\ call.args.op = "set"
    BY <1>9 DEF Write, Resolved
  <2>2. PICK q \in Encodings(call.args, TypeOf[call.target.field]) : Dispatch(q)
    BY <1>9 DEF Write
  <2> DEFINE r == [args |-> call.args, target |-> call.target, raw |-> q]
  <2>3. AsAsked(call.args, TypeOf[call.target.field], q) /\ q \in Seq(Int)
    BY <2>1, <2>2, ResolvedType, EncodedAsAsked
  <2>4. r \in Requests /\ RequestAsAsked(r)
    BY <2>1, <2>3, ResolvedType DEF Requests, RequestAsAsked
  <2>5. wire' = Append(wire, r) /\ call' = Idle
    BY <2>2 DEF Dispatch
  <2> QED
    BY <1>0, <1>3, <2>4, <2>5, AppendRequest DEF CallTypeOK
<1>10. CASE Arrive
  <2>1. CallTypeOK'
    BY <1>0, <1>10 DEF Arrive, CallTypeOK
  <2> QED
    BY <1>0, <1>3, <1>10, <2>1, TailRequests DEF Arrive
<1> QED
  BY <1>4, <1>5, <1>6, <1>7, <1>8, <1>9, <1>10 DEF Access

LEMMA NextAccess == AccessInv /\ [AccessNext]_accessVars => AccessInv'
<1> SUFFICES ASSUME AccessInv, [AccessNext]_accessVars PROVE AccessInv'
  OBVIOUS
<1>1. CASE [Next]_vars /\ UNCHANGED <<call, wire>>
  <2>1. TypeOK'
    BY <1>1, NextType DEF AccessInv, AccessTypeOK
  <2> QED
    BY <1>1, <2>1 DEF AccessInv, AccessTypeOK, CallTypeOK, WrittenAsAsked, RequestAsAsked
<1> QED
  BY <1>1, AccessStep DEF AccessNext, accessVars

\* The inductive invariant of the calls, over any registry and mapping.
THEOREM AccessInvariance == AccessSpec => []AccessInv
<1> QED
  BY InitAccess, NextAccess, PTL DEF AccessSpec

\* A call and the requests it made keep their types while nodes register anew.
THEOREM AccessTypeCorrect == AccessSpec => []AccessTypeOK
<1>1. AccessInv => AccessTypeOK
  BY DEF AccessInv
<1> QED
  BY <1>1, AccessInvariance, PTL

\* An integer or a Boolean that set_value sent is in range and maps back to the
\* value it was given.  A Float32 is that value if a Float32 can be, else the
\* first one beyond it, and infinite only beyond every Float32.
THEOREM SentAsAsked == AccessSpec => []WrittenAsAsked
<1>1. AccessInv => WrittenAsAsked
  BY DEF AccessInv
<1> QED
  BY <1>1, AccessInvariance, PTL

\* Reads and commands change nothing of the registry: what is proved of it
\* alone holds while they run.
THEOREM RegistryUndisturbed == AccessSpec => Spec
<1>1. AccessInit => Init
  BY DEF AccessInit
<1>2. [AccessNext]_accessVars => [Next]_vars
  <2>1. Access => UNCHANGED vars
    BY DEF Access, Begin, Visit, NotRegistered, Refuse, Read,
           Return, Request, Write, Dispatch, Arrive
  <2> QED
    BY <2>1 DEF AccessNext, accessVars
<1> QED
  BY <1>1, <1>2, PTL DEF AccessSpec, Spec

-----------------------------------------------------------------------------
(* The fields that calls reach.                                            *)

\* A call that found its target found a field that the name means on the
\* firmware found, and so did one whose request is on its way; only a parameter
\* is set.
Aimed(args, t) == t.id \in Meant(args.entry, t.as)
AimedCall == call.pc \in {"resolved", "returned"} => Aimed(call.args, call.target)
AimedRequest(r) == Aimed(r.args, r.target) /\ (r.args.op = "set" => r.args.entry.kind = "par")
TargetsMeant == lost = 0 => AimedCall /\ \A i \in DOMAIN wire : AimedRequest(wire[i])

ReachInv == AccessInv /\ BootsApart /\ TargetsMeant

LEMMA InitReach == AccessInit => ReachInv
<1> SUFFICES ASSUME AccessInit PROVE ReachInv
  OBVIOUS
<1>1. AccessInv /\ BootsApart
  BY InitAccess, InitBoots DEF AccessInit
<1>2. TargetsMeant
  BY DEF AccessInit, TargetsMeant, AimedCall, Idle
<1> QED
  BY <1>1, <1>2 DEF ReachInv

\* A node registered with the tables of its firmware has the fields meant.
LEMMA TargetsOnMeant ==
    ASSUME TablesOfOneBoot, lost = 0, NEW n, NEW args, NEW t \in TargetsOn(n, args.entry)
    PROVE  Aimed(args, t)
<1>1. n \in DOMAIN registered
  BY DEF TargetsOn
<1> DEFINE c == registered[n]
           e == args.entry
<1>2. c.tel = TelOf[c.info] /\ c.par = ParOf[c.info]
  BY <1>1 DEF TablesOfOneBoot
<1>3. PICK f \in FieldsNamed(e, c.info, Table(e, c.tel, c.par)) :
          t = [node |-> n, id |-> f, field |-> Table(e, c.tel, c.par)[f], as |-> c.info]
  BY <1>1 DEF TargetsOn
<1>4. t.id = f /\ t.as = c.info
  BY <1>3
<1> QED
  BY <1>2, <1>3, <1>4 DEF Aimed, Meant, FieldsNamed

LEMMA AccessReach ==
    ASSUME ReachInv, Access
    PROVE  TargetsMeant'
<1>0. /\ wire \in Seq(Requests) /\ UNCHANGED vars /\ lost' = lost
  BY DEF ReachInv, AccessInv, AccessTypeOK, Access, Begin, Visit, NotRegistered, Refuse, Read,
         Return, Request, Write, Dispatch, Arrive, vars, busVars
<1> SUFFICES ASSUME lost = 0
             PROVE  AimedCall' /\ \A i \in DOMAIN wire' : AimedRequest(wire'[i])
  BY <1>0 DEF TargetsMeant, AimedRequest, Aimed
<1>1. AimedCall /\ \A i \in DOMAIN wire : AimedRequest(wire[i])
  BY DEF ReachInv, TargetsMeant
<1>2. CASE (\E args \in Calls : Begin(args)) \/ NotRegistered \/ Refuse \/ Return
  <2>1. call'.pc \notin {"resolved", "returned"} /\ wire' = wire
    BY <1>2 DEF Begin, NotRegistered, Refuse, Return, Idle
  <2> QED
    BY <1>1, <2>1 DEF AimedCall
<1>3. ASSUME NEW n \in Nodes, Visit(n)
      PROVE  AimedCall' /\ \A i \in DOMAIN wire' : AimedRequest(wire'[i])
  <2>1. wire' = wire /\ call.pc = "scan"
    BY <1>3 DEF Visit
  <2>2. CASE TargetsOn(n, call.args.entry) = {}
    <3>1. call' = [call EXCEPT !.left = @ \ {n}]
      BY <1>3, <2>2 DEF Visit
    <3>2. call \in [pc : {"scan"}, args : Calls, left : SUBSET Nodes]
      BY <2>1 DEF ReachInv, AccessInv, AccessTypeOK, CallTypeOK, Idle
    <3>3. call'.pc = "scan"
      BY <3>1, <3>2
    <3> QED
      BY <1>1, <2>1, <3>3 DEF AimedCall
  <2>3. CASE TargetsOn(n, call.args.entry) # {}
    <3>1. PICK t \in TargetsOn(n, call.args.entry) :
              call' = [pc |-> "resolved", args |-> call.args, target |-> t]
      BY <1>3, <2>3 DEF Visit
    <3>2. Aimed(call.args, t)
      BY TargetsOnMeant DEF ReachInv, BootsApart
    <3> QED
      BY <1>1, <2>1, <3>1, <3>2 DEF AimedCall, Aimed
  <2> QED
    BY <2>2, <2>3
<1>4. CASE Read
  <2>1. /\ call.pc = "resolved" /\ wire' = wire
        /\ call'.args = call.args /\ call'.target = call.target
    BY <1>4 DEF Read, Resolved
  <2> QED
    BY <1>1, <2>1 DEF AimedCall, Aimed
<1>5. ASSUME NEW q, Dispatch(q), call.pc = "resolved",
             call.args.op = "set" => call.args.entry.kind = "par"
      PROVE  AimedCall' /\ \A i \in DOMAIN wire' : AimedRequest(wire'[i])
  <2> DEFINE r == [args |-> call.args, target |-> call.target, raw |-> q]
  <2>1. wire' = Append(wire, r) /\ call'.pc = "idle"
    BY <1>5 DEF Dispatch, Idle
  <2>2. AimedRequest(r)
    BY <1>1, <1>5 DEF AimedCall, AimedRequest
  <2> HIDE DEF r
  <2>3. \A i \in DOMAIN wire' : wire'[i] = r \/ (i \in DOMAIN wire /\ wire'[i] = wire[i])
    BY <1>0, <2>1
  <2> QED
    BY <1>1, <2>1, <2>2, <2>3 DEF AimedCall
<1>6. CASE Request
  BY <1>5, <1>6 DEF Request, Resolved
<1>7. CASE Write
  BY <1>5, <1>7 DEF Write, Resolved, Writable
<1>8. CASE Arrive
  <2>1. call' = call /\ wire # <<>> /\ wire' = Tail(wire)
    BY <1>8 DEF Arrive
  <2>2. \A i \in DOMAIN wire' : i + 1 \in DOMAIN wire /\ wire'[i] = wire[i + 1]
    BY <1>0, <2>1
  <2> QED
    BY <1>1, <2>1, <2>2 DEF AimedCall, Aimed
<1> QED
  BY <1>2, <1>3, <1>4, <1>6, <1>7, <1>8 DEF Access

LEMMA NextReach == ReachInv /\ [AccessNext]_accessVars => ReachInv'
<1> SUFFICES ASSUME ReachInv, [AccessNext]_accessVars PROVE ReachInv'
  OBVIOUS
<1>1. AccessInv'
  BY NextAccess DEF ReachInv
<1>2. [Next]_vars
  BY DEF AccessNext, accessVars, Access, Begin, Visit, NotRegistered, Refuse, Read,
         Return, Request, Write, Dispatch, Arrive
<1>3. BootsApart'
  BY <1>2, NextBoots DEF ReachInv
<1>4. CASE Access
  BY <1>1, <1>3, <1>4, AccessReach DEF ReachInv
<1>5. CASE UNCHANGED <<call, wire>>
  <2>1. lost' = 0 => lost = 0
    BY <1>2, LostOnce DEF ReachInv, BootsApart, RegistryInv
  <2>2. TargetsMeant'
    BY <1>5, <2>1 DEF ReachInv, TargetsMeant, AimedCall, AimedRequest, Aimed
  <2> QED
    BY <1>1, <1>3, <2>2 DEF ReachInv
<1> QED
  BY <1>4, <1>5 DEF AccessNext, accessVars

\* The inductive invariant of the calls over a registry that loses no frame.
THEOREM ReachInvariance == AccessSpec => []ReachInv
<1> QED
  BY InitReach, NextReach, PTL DEF AccessSpec

\* The value read is of the field named, although the registry may change
\* between the lookup of the field and that of its value.
THEOREM ReadOfField == AccessSpec => []ReadIsOfField
<1>1. ReachInv => ReadIsOfField
  BY DEF ReachInv, TargetsMeant, AimedCall, Aimed, ReadIsOfField
<1> QED
  BY <1>1, ReachInvariance, PTL

\* A request that finds the firmware it was resolved for reaches the field
\* named, and sets parameters only.
THEOREM RequestsOfField == AccessSpec => []RequestsReachField
<1>1. ReachInv => RequestsReachField
  <2> SUFFICES ASSUME ReachInv, lost = 0, NEW i \in DOMAIN wire
               PROVE  /\ wire[i].target.id \in Meant(wire[i].args.entry, wire[i].target.as)
                      /\ wire[i].args.op = "set" =>
                            wire[i].target.id \in DOMAIN ParOf[wire[i].target.as]
    BY DEF RequestsReachField
  <2>1. AimedRequest(wire[i])
    BY DEF ReachInv, TargetsMeant
  <2> QED
    BY <2>1 DEF AimedRequest, Aimed, Meant, Table
<1> QED
  BY <1>1, ReachInvariance, PTL

=============================================================================
