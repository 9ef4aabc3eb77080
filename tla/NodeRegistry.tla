---------------------------- MODULE NodeRegistry ----------------------------
(***************************************************************************)
(* Node registration and the value cache of NodeManager                    *)
(* (src/src/nodes/node_manager.rs, can_node.rs), as the CAN message        *)
(* handler thread drives them (src/src/nodes/mod.rs).                      *)
(*                                                                         *)
(* A node is external.  It boots with a firmware profile, announces it,    *)
(* sends one registration per field and one definition per telemetry       *)
(* group in any order, and reports values afterwards; frames it sent       *)
(* before a reboot are still handled after it.  Frames can be lost on the  *)
(* bus.  Names, data types and payloads are abstracted to the profile they *)
(* belong to; a HashMap or DashMap is a function on the keys it holds.     *)
(***************************************************************************)
EXTENDS Naturals, Sequences, FiniteSets, Functions

CONSTANTS
    Nodes,      \* node ids
    Fields,     \* field ids
    Infos,      \* FieldInfo: name and data type
    Groups,     \* telemetry group ids
    Profiles,   \* the firmwares a node can run
    TelOf,      \* profile -> its telemetry fields: id -> FieldInfo
    ParOf,      \* profile -> its parameters: id -> FieldInfo
    GroupsOf,   \* profile -> its telemetry groups: id -> field ids
    MaxBoots,   \* bound: reboots
    MaxInbox,   \* bound: messages waiting for the handler thread
    MaxReports, \* bound: value messages sent
    MaxLost     \* bound: frames lost on the bus

\* A function on some of the keys K, with values in S.
IsMap(f, K, S) == DOMAIN f \subseteq K /\ f \in [DOMAIN f -> S]

\* HashMap::insert and HashMap::remove.
Put(f, k, v) == [x \in DOMAIN f \cup {k} |-> IF x = k THEN v ELSE f[x]]
Remove(f, k) == [x \in DOMAIN f \ {k} |-> f[x]]
EmptyMap == [x \in {} |-> x]

ASSUME ProfilesAssumption ==
    \A p \in Profiles :
        /\ IsMap(TelOf[p], Fields, Infos)
        /\ IsMap(ParOf[p], Fields, Infos)
        /\ IsMap(GroupsOf[p], Groups, Seq(Fields))

\* The field ids in the definitions of groups, by their places.
Places(groups) == UNION {{g} \X DOMAIN groups[g] : g \in DOMAIN groups}

\* Ids are finitely many.  A firmware puts the telemetry fields it counts in
\* groups, and defines no empty one: registration counts on it.
ASSUME FirmwareAssumption ==
    /\ IsFiniteSet(Fields) /\ IsFiniteSet(Groups)
    /\ \A p \in Profiles :
          /\ Cardinality(Places(GroupsOf[p])) = Cardinality(DOMAIN TelOf[p])
          /\ \A g \in DOMAIN GroupsOf[p] : GroupsOf[p][g] # <<>>

ASSUME BoundsAssumption ==
    MaxBoots \in Nat /\ MaxInbox \in Nat /\ MaxReports \in Nat /\ MaxLost \in Nat

\* A cached value: which report it came in, and the profile it was encoded with.
Value == [sample : Nat, as : Profiles]

\* registration_info, telemetry_fields, parameter_fields, telemetry_groups, values.
IsCanNode(c) ==
    /\ DOMAIN c = {"info", "tel", "par", "groups", "values"}
    /\ c.info \in Profiles
    /\ IsMap(c.tel, Fields, Infos)
    /\ IsMap(c.par, Fields, Infos)
    /\ IsMap(c.groups, Groups, Seq(Fields))
    /\ IsMap(c.values, Fields, Value)

Registrations ==
         [kind : {"tel", "par"}, node : Nodes, id : Fields, field : Infos]
    \cup [kind : {"group"}, node : Nodes, id : Groups, fields : Seq(Fields)]

Message ==
         [kind : {"announce"}, node : Nodes, info : Profiles]
    \cup Registrations
    \cup [kind : {"update"}, node : Nodes, id : Groups, value : Value, good : Nat]
    \cup [kind : {"value"}, node : Nodes, id : Fields, value : Value, ok : BOOLEAN]

VARIABLES
    fw,           \* the profile each node runs
    announced,    \* whether the node has announced itself since it booted
    unsent,       \* the registrations it has not sent since it booted
    boots, reports, lost,   \* counters, for the bounds only
    inbox,        \* the handler thread's event channel
    registering,  \* NodeManager.registering_nodes
    registered,   \* NodeManager.can_nodes
    logged        \* the report last dispatched as NodeFieldUpdated, per field

busVars == <<fw, announced, unsent, boots, reports, lost>>
vars == <<busVars, inbox, registering, registered, logged>>

TypeOK ==
    /\ fw \in [Nodes -> Profiles]
    /\ announced \in [Nodes -> BOOLEAN]
    /\ unsent \in [Nodes -> SUBSET Registrations]
    /\ boots \in 0..MaxBoots /\ reports \in 0..MaxReports /\ lost \in 0..MaxLost
    /\ inbox \in Seq(Message)
    /\ DOMAIN registering \subseteq Nodes /\ DOMAIN registered \subseteq Nodes
    /\ \A n \in DOMAIN registering : IsCanNode(registering[n])
    /\ \A n \in DOMAIN registered : IsCanNode(registered[n])
    /\ DOMAIN logged = Nodes
    /\ \A n \in Nodes : IsMap(logged[n], Fields, Nat)

-----------------------------------------------------------------------------
(* The nodes and the bus (external).                                       *)

RegistrationsOf(n, p) ==
         {[kind |-> "tel", node |-> n, id |-> f, field |-> TelOf[p][f]] :
            f \in DOMAIN TelOf[p]}
    \cup {[kind |-> "par", node |-> n, id |-> f, field |-> ParOf[p][f]] :
            f \in DOMAIN ParOf[p]}
    \cup {[kind |-> "group", node |-> n, id |-> g, fields |-> GroupsOf[p][g]] :
            g \in DOMAIN GroupsOf[p]}

Init ==
    /\ fw \in [Nodes -> Profiles]
    /\ announced = [n \in Nodes |-> FALSE]
    /\ unsent = [n \in Nodes |-> RegistrationsOf(n, fw[n])]
    /\ boots = 0 /\ reports = 0 /\ lost = 0
    /\ inbox = <<>>
    /\ registering = EmptyMap
    /\ registered = EmptyMap
    /\ logged = [n \in Nodes |-> EmptyMap]

\* A node reboots, with the same or another firmware, or answers NodeInfoReq.
Boot(n, p) ==
    /\ boots < MaxBoots
    /\ boots' = boots + 1
    /\ fw' = [fw EXCEPT ![n] = p]
    /\ announced' = [announced EXCEPT ![n] = FALSE]
    /\ unsent' = [unsent EXCEPT ![n] = RegistrationsOf(n, p)]
    /\ UNCHANGED <<reports, lost, inbox, registering, registered, logged>>

\* The frame reaches the handler's channel, or it is lost on the way.
Deliver(m) ==
    \/ inbox' = Append(inbox, m) /\ UNCHANGED lost
    \/ lost < MaxLost /\ lost' = lost + 1 /\ UNCHANGED inbox

Announce(n) ==
    /\ ~announced[n] /\ Len(inbox) < MaxInbox
    /\ announced' = [announced EXCEPT ![n] = TRUE]
    /\ Deliver([kind |-> "announce", node |-> n, info |-> fw[n]])
    /\ UNCHANGED <<fw, unsent, boots, reports, registering, registered, logged>>

SendRegistration(n, m) ==
    /\ announced[n] /\ m \in unsent[n] /\ Len(inbox) < MaxInbox
    /\ unsent' = [unsent EXCEPT ![n] = @ \ {m}]
    /\ Deliver(m)
    /\ UNCHANGED <<fw, announced, boots, reports, registering, registered, logged>>

\* A node reports after it has registered everything: a group of values, of
\* which the first `good' can be unpacked, or the answer to a FieldGetReq.
ReportWith(n, m) ==
    /\ announced[n] /\ unsent[n] = {} /\ Len(inbox) < MaxInbox
    /\ reports < MaxReports
    /\ reports' = reports + 1
    /\ Deliver(m)
    /\ UNCHANGED <<fw, announced, unsent, boots, registering, registered, logged>>

Report(n) ==
    LET v == [sample |-> reports + 1, as |-> fw[n]]
    IN  \/ \E g \in DOMAIN GroupsOf[fw[n]] : \E k \in 0..Len(GroupsOf[fw[n]][g]) :
               ReportWith(n, [kind |-> "update", node |-> n, id |-> g,
                              value |-> v, good |-> k])
        \/ \E f \in DOMAIN TelOf[fw[n]] \cup DOMAIN ParOf[fw[n]], b \in BOOLEAN :
               ReportWith(n, [kind |-> "value", node |-> n, id |-> f,
                              value |-> v, ok |-> b])

-----------------------------------------------------------------------------
(* CanNode.                                                                *)

NewCanNode(p) == [info |-> p, tel |-> EmptyMap, par |-> EmptyMap,
                  groups |-> EmptyMap, values |-> EmptyMap]

\* The number of field ids in the group definitions received.
\* Mutant: the definitions are counted.
GroupCount(groups) == Cardinality(DOMAIN groups)
Grouped(groups) == Cardinality(Places(groups))

\* Mutant of Complete: the telemetry groups are not waited for.
CompleteWithoutGroups(c) ==
    /\ Cardinality(DOMAIN c.tel) = Cardinality(DOMAIN TelOf[c.info])
    /\ Cardinality(DOMAIN c.par) = Cardinality(DOMAIN ParOf[c.info])

\* node_registration_complete: tel_count and par_count are the announced ones.
Complete(c) ==
    /\ Cardinality(DOMAIN c.tel) = Cardinality(DOMAIN TelOf[c.info])
    /\ Cardinality(DOMAIN c.par) = Cardinality(DOMAIN ParOf[c.info])
    /\ Grouped(c.groups) = Cardinality(DOMAIN TelOf[c.info])

-----------------------------------------------------------------------------
(* NodeManager: one action per message kind the handler thread takes.      *)

Takes(kinds) == inbox # <<>> /\ Head(inbox).kind \in kinds

\* The handler returns an error, which the thread logs.
HandleError ==
    /\ inbox' = Tail(inbox)
    /\ UNCHANGED <<busVars, registering, registered, logged>>

\* Mutant of HandleAnnouncement: the values cached so far are kept.
AnnouncementKeepsValues ==
    /\ Takes({"announce"})
    /\ LET n == Head(inbox).node
           old == IF n \in DOMAIN registered THEN registered[n].values ELSE EmptyMap
           c == [NewCanNode(Head(inbox).info) EXCEPT !.values = old]
       IN  IF Complete(c)
           THEN registered' = Put(registered, n, c) /\ UNCHANGED registering
           ELSE registering' = Put(registering, n, c) /\ UNCHANGED registered
    /\ inbox' = Tail(inbox)
    /\ UNCHANGED <<busVars, logged>>

\* A partial registration of n may stay behind when the new one is complete.
HandleAnnouncement ==
    /\ Takes({"announce"})
    /\ LET n == Head(inbox).node
           c == NewCanNode(Head(inbox).info)
       IN  IF Complete(c)
           THEN registered' = Put(registered, n, c) /\ UNCHANGED registering
           ELSE registering' = Put(registering, n, c) /\ UNCHANGED registered
    /\ inbox' = Tail(inbox)
    /\ UNCHANGED <<busVars, logged>>

\* What a registration message adds to the entry of its node.
Extended(c, m) ==
    CASE m.kind = "tel"   -> [c EXCEPT !.tel = Put(@, m.id, m.field)]
      [] m.kind = "par"   -> [c EXCEPT !.par = Put(@, m.id, m.field)]
      [] m.kind = "group" -> [c EXCEPT !.groups = Put(@, m.id, m.fields)]

\* Whether the message that made the entry c completes the registration.
\* Mutant: handle_telemetry_group_definition does not look.
CompletedByField(c, m) == m.kind # "group" /\ Complete(c)
CompletedBy(c, m) == Complete(c)

\* handle_field_registration, handle_telemetry_group_definition: the entry
\* that this message completes moves to the registered nodes.
HandleRegistration ==
    /\ Takes({"tel", "par", "group"})
    /\ LET n == Head(inbox).node
           c == Extended(registering[n], Head(inbox))
       IN  /\ n \in DOMAIN registering
           /\ IF CompletedBy(c, Head(inbox))
              THEN /\ registering' = Remove(registering, n)
                   /\ registered' = Put(registered, n, c)
              ELSE registering' = Put(registering, n, c) /\ UNCHANGED registered
    /\ inbox' = Tail(inbox)
    /\ UNCHANGED <<busVars, logged>>

RejectRegistration ==
    /\ Takes({"tel", "par", "group"})
    /\ Head(inbox).node \notin DOMAIN registering
    /\ HandleError

\* values.insert and the dispatch of NodeFieldUpdated, for each of the ids.
Store(n, ids, v) ==
    /\ registered' = [registered EXCEPT ![n].values =
           [f \in DOMAIN @ \cup ids |-> IF f \in ids THEN v ELSE @[f]]]
    /\ logged' = [logged EXCEPT ![n] =
           [f \in DOMAIN @ \cup ids |-> IF f \in ids THEN v.sample ELSE @[f]]]
    /\ inbox' = Tail(inbox)
    /\ UNCHANGED <<busVars, registering>>

\* The group is defined for a registered node, and so is each of its fields.
UpdateDecodable(m) ==
    /\ m.node \in DOMAIN registered
    /\ m.id \in DOMAIN registered[m.node].groups
    /\ Range(registered[m.node].groups[m.id]) \subseteq DOMAIN registered[m.node].tel

\* handle_telemetry_group_update: the values before one that fails to unpack
\* are stored and dispatched, that one and the later ones are not.
HandleGroupUpdate ==
    /\ Takes({"update"})
    /\ UpdateDecodable(Head(inbox))
    /\ LET m == Head(inbox)
           ids == registered[m.node].groups[m.id]
       IN  Store(m.node, {ids[i] : i \in {j \in 1..Len(ids) : j <= m.good}}, m.value)

RejectGroupUpdate ==
    /\ Takes({"update"})
    /\ ~UpdateDecodable(Head(inbox))
    /\ HandleError

ResponseDecodable(m) ==
    /\ m.node \in DOMAIN registered
    /\ m.id \in DOMAIN registered[m.node].tel \cup DOMAIN registered[m.node].par
    /\ m.ok

HandleFieldGetRes ==
    /\ Takes({"value"})
    /\ ResponseDecodable(Head(inbox))
    /\ Store(Head(inbox).node, {Head(inbox).id}, Head(inbox).value)

RejectFieldGetRes ==
    /\ Takes({"value"})
    /\ ~ResponseDecodable(Head(inbox))
    /\ HandleError

Handle ==
    \/ HandleAnnouncement \/ HandleRegistration \/ RejectRegistration
    \/ HandleGroupUpdate \/ RejectGroupUpdate \/ HandleFieldGetRes \/ RejectFieldGetRes

-----------------------------------------------------------------------------

Register(n) == Announce(n) \/ \E m \in unsent[n] : SendRegistration(n, m)

Next ==
    \/ \E n \in Nodes, p \in Profiles : Boot(n, p)
    \/ \E n \in Nodes : Register(n)
    \/ \E n \in Nodes : Report(n)
    \/ Handle

Spec == Init /\ [][Next]_vars

\* A booted node sends what it has to send; the handler thread is scheduled.
FairSpec == Spec /\ WF_vars(Handle) /\ \A n \in Nodes : WF_vars(Register(n))

-----------------------------------------------------------------------------
(* Properties.                                                             *)

\* Registered nodes have everything they announced; a node still registering
\* lacks something, so that the message that completes it can still come.
CompletenessSplit ==
    /\ \A n \in DOMAIN registered : Complete(registered[n])
    /\ \A n \in DOMAIN registering : ~Complete(registering[n])

\* A cached value belongs to a field the node has registered, and it is the
\* last one that was dispatched to the listeners of NodeFieldUpdated, also when
\* a group update failed half-way and when the node registered anew.
CacheIsLogged ==
    \A n \in DOMAIN registered : \A f \in DOMAIN registered[n].values :
        /\ f \in DOMAIN registered[n].tel \cup DOMAIN registered[n].par
        /\ f \in DOMAIN logged[n] /\ logged[n][f] = registered[n].values[f].sample

\* As long as no frame is lost, a registered node's tables are those of one
\* firmware, never a mixture of two boots.
TablesOfOneBoot ==
    lost = 0 => \A n \in DOMAIN registered :
        LET c == registered[n]
        IN  c.tel = TelOf[c.info] /\ c.par = ParOf[c.info] /\ c.groups = GroupsOf[c.info]

\* As long as no frame is lost, a value is decoded with the tables of the
\* firmware that encoded it: no value sent after a reboot is read with the
\* tables of before, no value sent before it with those of after.
DecodedAsSent ==
    lost = 0 => \A n \in DOMAIN registered : \A f \in DOMAIN registered[n].values :
        registered[n].values[f].as = registered[n].info

\* The node is registered with the firmware it runs.
Current(n) == n \in DOMAIN registered /\ registered[n].info = fw[n]

\* A node that boots when no more frames will be lost ends up registered with
\* the firmware it runs, whatever reboots cut its registrations short before,
\* and whatever an earlier loss left half registered.
EventuallyRegistered ==
    \A n \in Nodes, k \in 0..MaxLost :
        lost = k /\ ~announced[n] ~> lost > k \/ []Current(n)

=============================================================================
