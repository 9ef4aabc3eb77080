---------------------------- MODULE FieldAccess ----------------------------
(***************************************************************************)
(* Reads and commands by field name: NodeManager::try_get_value and        *)
(* request_value, set_value (src/src/nodes/node_manager.rs, command.rs),   *)
(* over the registry that the handler thread changes at the same time.     *)
(*                                                                         *)
(* A call looks its name up twice: resolve_mapping_target visits the nodes *)
(* one by one, each under its own lock, and the value is read, or the      *)
(* request encoded and dispatched, after the lock is gone.  The call is    *)
(* one caller's; callers share nothing but the registry.  A name that has  *)
(* no mapping fails before it reaches anything and is left out.            *)
(*                                                                         *)
(* A number that need not be whole is a fraction: the pair of a numerator  *)
(* and a denominator, which is not negative; infinity is <<1, 0>>.  An f64 *)
(* is the number itself; narrowing it to Float32 rounds.                   *)
(***************************************************************************)
EXTENDS NodeRegistry, Integers

CONSTANTS
    DeviceOf,   \* profile -> the device name it announces
    NameOf,     \* FieldInfo -> its name
    TypeOf,     \* FieldInfo -> its data type
    Float,      \* the data type Float32
    Bool,       \* the data type Boolean
    RangeOf,    \* integer type (Bool among them) -> the integers it holds
    Scale,      \* the common denominator of the finite values of Float32, 2^149
    Singles,    \* the finite values of Float32, times Scale
    Overflow,   \* the least value that `as f32' makes infinite, times Scale
    Entries,    \* the mapping entries: [device, kind, raw, slope, offset]
    Inputs,     \* the values written: [num, json, mapped], by which form of the name
    NoValue,    \* try_get_value's Ok(None)
    MaxWire     \* bound: requests on their way

\* What MappingEntry::validate and Mapping::validate let through.
ASSUME MappingAssumption ==
    /\ \A e \in Entries : e.kind \in {"tel", "par"} /\ e.offset \in Int
                          /\ e.slope \in Int \ {0}
    /\ \A e, d \in Entries : e.device = d.device /\ e.raw = d.raw => e = d

ASSUME AccessAssumption ==
    /\ Bool \in DOMAIN RangeOf /\ RangeOf[Bool] = {0, 1} /\ Float \notin DOMAIN RangeOf
    /\ \A t \in DOMAIN RangeOf : RangeOf[t] \subseteq Int
    /\ Scale \in Nat \ {0} /\ Overflow \in Nat \ {0}
    /\ Singles \subseteq Int /\ \A s \in Singles : -Overflow < s /\ s < Overflow
    /\ Inputs \subseteq [num : Int, json : {"int", "float", "bool"}, mapped : BOOLEAN]
    /\ \A i \in Infos : TypeOf[i] \in DOMAIN RangeOf \cup {Float}
    /\ NoValue \notin Value /\ MaxWire \in Nat

VARIABLES
    call,       \* the call in progress
    wire        \* requests dispatched to the send thread and on the bus

accessVars == <<vars, call, wire>>

Idle == [pc |-> "idle"]

Calls == [op : {"get", "request"}, entry : Entries]
            \cup [op : {"set"}, entry : Entries, in : Inputs]

\* ResolvedMappingTarget; `as' is history, the firmware of the entry found.
Targets == [node : Nodes, id : Fields, field : Infos, as : Profiles]

\* FieldGetReq and ParameterSetReq, with the call they are made for as history.
Requests == [args : Calls, target : Targets, raw : Seq(Int)]

-----------------------------------------------------------------------------
(* Conversions.                                                            *)

\* n / d, for a d that is not zero.
Fraction(n, d) == IF d < 0 THEN <<-n, -d>> ELSE <<n, d>>

\* Mutant of RawFromMapped: the slope is divided out first.
RawFromMappedSwapped(e, v) == Fraction(v - e.offset * e.slope, e.slope)

\* raw_value_from_mapped: (mapped - offset) / slope.
RawFromMapped(e, v) == Fraction(v - e.offset, e.slope)

\* `as f32': infinite from Overflow on, else one of the nearest values.
Distance(x, y) == IF x < y THEN y - x ELSE x - y
Nearest(q) ==
    {s \in Singles : \A r \in Singles :
        Distance(s * q[2], q[1] * Scale) <= Distance(r * q[2], q[1] * Scale)}
Narrowings(q) ==
    IF Distance(0, q[1] * Scale) < Overflow * q[2]
    THEN {<<s, Scale>> : s \in Nearest(q)}
    ELSE {<<IF q[1] < 0 THEN -1 ELSE 1, 0>>}

\* json_value_to_can_data_value, as the set of the values it makes: none if it
\* fails.  as_i64 is None for a float; a Boolean is any integer but zero.
RawEncodings(t, in) ==
    CASE t = Float -> Narrowings(<<in.num, 1>>)
      [] t # Float /\ in.json = "float" -> {}
      [] t = Bool /\ in.json # "float" -> {<<IF in.num = 0 THEN 0 ELSE 1, 1>>}
      [] OTHER -> {<<r, 1>> : r \in RangeOf[t] \cap {in.num}}

\* can_data_value_from_f64: whole and in range, unless it is a Float.
MappedEncodings(e, t, in) ==
    LET q == RawFromMapped(e, in.num)
    IN  IF t = Float THEN Narrowings(q)
        ELSE {<<r, 1>> : r \in {i \in RangeOf[t] : i * q[2] = q[1]}}

\* set_value: set_mapped_value or set_raw_value, by the form of the name.
Encodings(args, t) ==
    IF args.in.mapped THEN MappedEncodings(args.entry, t, args.in)
    ELSE RawEncodings(t, args.in)

-----------------------------------------------------------------------------
(* The lookups.                                                            *)

\* The table an entry's field is in.
Table(e, tel, par) == IF e.kind = "tel" THEN tel ELSE par

\* Mutant of FieldsNamed: any device that has such a field will do.
FieldsNamedAnywhere(e, info, fields) == {f \in DOMAIN fields : NameOf[fields[f]] = e.raw}

\* The fields that the entry can mean, on a node that announced info.
FieldsNamed(e, info, fields) ==
    {f \in DOMAIN fields : DeviceOf[info] = e.device /\ NameOf[fields[f]] = e.raw}

\* What resolve_mapping_target can find on the node n.
TargetsOn(n, e) ==
    IF n \notin DOMAIN registered THEN {}
    ELSE LET c == registered[n]
             fields == Table(e, c.tel, c.par)
         IN  {[node |-> n, id |-> f, field |-> fields[f], as |-> c.info] :
                 f \in FieldsNamed(e, c.info, fields)}

\* latest_raw_value: the node and the id are looked up once more.
Latest(t) ==
    IF t.node \in DOMAIN registered /\ t.id \in DOMAIN registered[t.node].values
    THEN registered[t.node].values[t.id]
    ELSE NoValue

\* Mutant of Writable: telemetry can be set.
AnythingWritable(e) == e.kind \in {"tel", "par"}
Writable(e) == e.kind = "par"

-----------------------------------------------------------------------------

AccessInit == Init /\ call = Idle /\ wire = <<>>

\* A call by a mapped or by a raw name; both find the same entry.
Begin(args) ==
    /\ call = Idle /\ Len(wire) < MaxWire
    /\ call' = [pc |-> "scan", args |-> args, left |-> Nodes]
    /\ UNCHANGED <<vars, wire>>

\* resolve_mapping_target: find_map looks at one more node.
Visit(n) ==
    /\ call.pc = "scan" /\ n \in call.left
    /\ IF TargetsOn(n, call.args.entry) = {}
       THEN call' = [call EXCEPT !.left = @ \ {n}]
       ELSE \E t \in TargetsOn(n, call.args.entry) :
                call' = [pc |-> "resolved", args |-> call.args, target |-> t]
    /\ UNCHANGED <<vars, wire>>

\* No node has the field.
NotRegistered ==
    /\ call.pc = "scan" /\ call.left = {}
    /\ call' = Idle
    /\ UNCHANGED <<vars, wire>>

Resolved(op) == call.pc = "resolved" /\ call.args.op = op

\* The field is not a parameter, or the value does not fit its type.
Refuse ==
    /\ Resolved("set")
    /\ Writable(call.args.entry) => Encodings(call.args, TypeOf[call.target.field]) = {}
    /\ call' = Idle
    /\ UNCHANGED <<vars, wire>>

\* try_get_value; the caller then goes on with what it got.
Read ==
    /\ Resolved("get")
    /\ call' = [pc |-> "returned", args |-> call.args, target |-> call.target,
                value |-> Latest(call.target)]
    /\ UNCHANGED <<vars, wire>>

Return == call.pc = "returned" /\ call' = Idle /\ UNCHANGED <<vars, wire>>

\* SendCanMessage: the node, the field id and the value are sent.
Dispatch(q) ==
    /\ wire' = Append(wire, [args |-> call.args, target |-> call.target, raw |-> q])
    /\ call' = Idle
    /\ UNCHANGED vars

\* request_value sends a FieldGetReq, set_value a ParameterSetReq.
Request == Resolved("request") /\ Dispatch(<<>>)
Write ==
    /\ Resolved("set") /\ Writable(call.args.entry)
    /\ \E q \in Encodings(call.args, TypeOf[call.target.field]) : Dispatch(q)

\* The addressed node takes the request, or it is lost on the way (external).
Arrive == wire # <<>> /\ wire' = Tail(wire) /\ UNCHANGED <<vars, call>>

Access ==
    \/ \E args \in Calls : Begin(args)
    \/ \E n \in Nodes : Visit(n)
    \/ NotRegistered \/ Refuse \/ Read \/ Return \/ Request \/ Write \/ Arrive

AccessNext == Access \/ (Next /\ UNCHANGED <<call, wire>>)

AccessSpec == AccessInit /\ [][AccessNext]_accessVars

-----------------------------------------------------------------------------
(* Properties.                                                             *)

\* Types of the call and of the requests, over those of the registry.
CallTypeOK ==
    \/ call = Idle
    \/ call \in [pc : {"scan"}, args : Calls, left : SUBSET Nodes]
    \/ call \in [pc : {"resolved"}, args : Calls, target : Targets]
    \/ call \in [pc : {"returned"}, args : Calls, target : Targets,
                 value : Value \cup {NoValue}]

AccessTypeOK ==
    /\ TypeOK
    /\ CallTypeOK
    /\ wire \in Seq(Requests)

\* The fields of the firmware p that an entry means.
Meant(e, p) ==
    IF DeviceOf[p] # e.device THEN {}
    ELSE LET fields == Table(e, TelOf[p], ParOf[p])
         IN  {f \in DOMAIN fields : NameOf[fields[f]] = e.raw}

\* try_get_value: as long as no frame is lost, the value returned is one of the
\* field named, on the device named, although the node and the id were found
\* before the value was looked up.  Excluded is a node that came back with
\* another firmware in between, which the code does not notice.
ReadIsOfField ==
    lost = 0 /\ call.pc = "returned" /\ call.value # NoValue =>
        (call.value.as = call.target.as =>
            call.target.id \in Meant(call.args.entry, call.target.as))

\* request_value, set_value: as long as no frame is lost, a request that finds
\* its node with the firmware it was resolved for asks for, or sets, the field
\* named, and sets parameters only.
RequestsReachField ==
    lost = 0 => \A i \in DOMAIN wire :
        LET t == wire[i].target
        IN  fw[t.node] = t.as =>
                /\ t.id \in Meant(wire[i].args.entry, t.as)
                /\ wire[i].args.op = "set" => t.id \in DOMAIN ParOf[t.as]

\* What a raw value is by the name that the call used; comparing fractions.
ReadAs(args, q) ==
    IF args.in.mapped
    THEN <<q[1] * args.entry.slope + args.entry.offset * q[2], q[2]>>
    ELSE q
Less(a, b) == a[1] * b[2] < b[1] * a[2]

\* The raw value q is of the type t, and what was asked for: it is that, or its
\* truth.  Of a Float32 it is the value asked for or the first one beyond it, so
\* that what a Float32 can hold is exact, and only what it cannot is infinite.
AsAsked(args, t, q) ==
    LET asked == <<args.in.num, 1>>
        sent == ReadAs(args, q)
    IN  CASE t = Float ->
                /\ (q[1] \in Singles /\ q[2] = Scale) \/ q \in {<<1, 0>>, <<-1, 0>>}
                /\ \A s \in Singles :
                      LET other == ReadAs(args, <<s, Scale>>)
                      IN  /\ Less(other, sent) => Less(other, asked)
                          /\ Less(sent, other) => Less(asked, other)
          [] t = Bool /\ ~args.in.mapped -> q = <<IF args.in.num = 0 THEN 0 ELSE 1, 1>>
          [] OTHER -> q[1] \in RangeOf[t] /\ q[2] = 1 /\ sent = asked

RequestAsAsked(r) ==
    r.args.op = "set" => AsAsked(r.args, TypeOf[r.target.field], r.raw)

\* set_value: every value on its way is one of its type and the one that was
\* asked for: an integer exactly, and by a mapped name one that maps back to it,
\* a Float32 to within the rounding of `as f32'.
WrittenAsAsked == \A i \in DOMAIN wire : RequestAsAsked(wire[i])

=============================================================================
