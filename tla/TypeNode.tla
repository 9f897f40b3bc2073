------------------------------ MODULE TypeNode ------------------------------
(***************************************************************************)
(* How a type annotation becomes a TypeNode: a mask of type bits, followed *)
(* by the details of those bits, packed without gaps.                      *)
(*                                                                         *)
(* The members of a union are collected one after the other into a state   *)
(* of the C stack, then its Struct classes and its literals are looked at  *)
(* together, then the union is refused if it is ambiguous, and then the    *)
(* details are stored.  Readers do not know where a detail is: they count  *)
(* the bits of the mask that come before it.                               *)
(*                                                                         *)
(* Modelled for CPython before 3.15, without frozendict.                   *)
(***************************************************************************)
EXTENDS Integers, Sequences, FiniteSets

CONSTANTS
    Member,         \* the members of the unions that are converted
    MaxMembers,     \* bound on the length of a union
    MaxInt,         \* INT64_MAX; INT64_MIN is -MaxInt - 1
    IntLiterals,    \* the literal values that are integers
    ArrayLike,      \* the Struct classes with array_like=True
    Tag,            \* Tag[s]: [field, value, str] of a Struct class, or Null
    Null

(* Type bits, in the order of the mask; "dict" has two of them.            *)
Slot0 == {"struct", "structarray", "structunion", "structarrayunion",
          "custom", "customgeneric", "path", "ip"}
Slot1 == {"intenum", "intliteral"}
Slot2 == {"enum", "strliteral"}
Slot3 == {"typeddict", "dataclass"}
Slot4 == {"namedtuple"}
DictBits == {"dictkey", "dictval"}
Slot7 == {"list", "vartuple", "set", "frozenset"}
ObjSlots == Slot0 \cup Slot1 \cup Slot2 \cup Slot3 \cup Slot4

BytesLike == {"bytes", "bytearray", "memoryview"}
Scalars == {"none", "bool", "int", "float", "str", "datetime", "date", "time",
            "timedelta", "uuid", "decimal"} \cup BytesLike
SerializerBlocked == {"any", "bool", "int", "float", "str", "list", "dictkey", "dictval",
                      "vartuple", "fixtuple", "typeddict", "namedtuple",
                      "intliteral", "strliteral", "true", "false"}

IntLike == {"int", "intliteral", "intenum"}
StrLike == {"str", "strliteral", "enum", "datetime", "date", "time", "timedelta",
            "uuid", "decimal", "path", "ip"} \cup BytesLike
DictLike  == {"struct", "structunion", "typeddict", "dataclass"}
ListLike  == {"structarray", "structarrayunion", "namedtuple", "fixtuple"} \cup Slot7

(* The bits of a ConstraintNode, in the order of their details: the two     *)
(* minimums of a float share one, and so do the two maximums.               *)
CnOrder == <<{<<"str", "pattern">>},
             {<<"int", "min">>}, {<<"int", "max">>}, {<<"int", "multiple_of">>},
             {<<"float", "gt">>, <<"float", "ge">>}, {<<"float", "lt">>, <<"float", "le">>},
             {<<"float", "multiple_of">>},
             {<<"str", "min_length">>}, {<<"str", "max_length">>},
             {<<"bytes", "min_length">>}, {<<"bytes", "max_length">>},
             {<<"array", "min_length">>}, {<<"array", "max_length">>},
             {<<"map", "min_length">>}, {<<"map", "max_length">>}>>
CnIndex == 1..Len(CnOrder)
CnDetails == UNION {CnOrder[k] : k \in CnIndex}
CnBits == CnDetails \cup {<<"time", "aware">>, <<"time", "naive">>}

(* The types that are stored with an object, and what the parameters of a   *)
(* constraint may be.                                                       *)
ObjectTypes == {"custom", "customgeneric", "path", "ip", "intenum", "enum", "typeddict",
                "dataclass", "namedtuple", "dict", "fixtuple"} \cup Slot7
ParamsOf == [numeric    |-> {"gt", "ge", "lt", "le", "multiple_of"},
             str        |-> {"pattern", "min_length", "max_length"},
             bytes      |-> {"min_length", "max_length"},
             collection |-> {"min_length", "max_length"},
             tz         |-> {"aware", "naive"}]

ASSUME ConstantsOK ==
    /\ MaxMembers \in Nat /\ MaxInt \in Nat
    /\ \A m \in Member :
          /\ m.type \in Scalars \cup ObjectTypes \cup {"any", "struct", "literal"}
          /\ m.type \in ObjectTypes \cup {"struct"} => m.obj # Null
          /\ m.type = "fixtuple" => Len(m.obj) \in Nat
          /\ m.constr # Null /\ m.constr.class # "user" =>
                /\ m.constr.class \in DOMAIN ParamsOf
                /\ DOMAIN m.constr.params \subseteq ParamsOf[m.constr.class]
                /\ \A p \in DOMAIN m.constr.params : m.constr.params[p] \in Int
                /\ ~({"gt", "ge"} \subseteq DOMAIN m.constr.params)
                /\ ~({"lt", "le"} \subseteq DOMAIN m.constr.params)
          /\ m.constr # Null /\ m.constr.class = "user" => DOMAIN m.constr.params = {}
    /\ \A S \in SUBSET {m.obj : m \in {n \in Member : n.type = "struct"}} : S # Null
    /\ \A S \in SUBSET UNION {m.obj : m \in {n \in Member : n.type = "literal"}} : S # Null
ASSUME LiteralsOK == IntLiterals \cap {"none", "true", "false"} = {}

VARIABLES
    phase,  \* "collect", "structs", "literals", "check", "layout", "done",
            \* "refused" (the union is not supported) or "failed"
    seen,   \* the members collected so far
    st,     \* TypeNodeCollectState
    node    \* the TypeNode under construction: types, details, room, at

vars == <<phase, seen, st, node>>

-----------------------------------------------------------------------------
(* The collect state: the object kept for each kind of detail.             *)

Slot == {"custom", "structinfo", "structlookup", "path", "ip", "intenum", "intliteral",
         "enum", "strliteral", "typeddict", "dataclass", "namedtuple",
         "codec", "user", "dict", "array"}

Cleared == [types |-> {}, obj |-> [s \in Slot |-> Null], structs |-> {}, many |-> FALSE,
            literals |-> {}, mask |-> {}, bound |-> [k \in CnIndex |-> 0], ok |-> TRUE]

Refuse(s) == [s EXCEPT !.ok = FALSE]

(* Fault: dict sets one bit only. *)
BitsUnsplit(type) == {type}

Bits(type) == IF type = "dict" THEN DictBits ELSE {type}
SlotOf(type) == CASE type \in Slot7 \cup {"fixtuple"} -> "array"
                  [] type = "customgeneric" -> "custom"
                  [] OTHER -> type

(* Every kind of detail has room for one object; a path or IP class may be *)
(* named again.                                                            *)
CollectObject(s, m) ==
    LET slot == SlotOf(m.type) IN
    IF s.obj[slot] = Null
    THEN [s EXCEPT !.types = @ \cup Bits(m.type), !.obj[slot] = m.obj]
    ELSE IF slot \in {"path", "ip"} /\ s.obj[slot] = m.obj THEN s ELSE Refuse(s)

(* One class is kept by itself, further ones make a set of it. *)
CollectStruct(s, m) ==
    [s EXCEPT !.structs = @ \cup {m.obj}, !.many = s.structs # {}]

CollectType(s, m) ==
    CASE m.type = "any"     -> [Cleared EXCEPT !.types = {"any"}]
      [] m.type \in Scalars -> [s EXCEPT !.types = @ \cup {m.type}]
      [] m.type = "struct"  -> CollectStruct(s, m)
      [] m.type = "literal" -> [s EXCEPT !.literals = @ \cup m.obj]
      [] OTHER              -> CollectObject(s, m)

-----------------------------------------------------------------------------
(* Annotations.  A constraint has a class and the parameters it was given. *)

KindOf(type) ==
    CASE type \in {"int", "float", "str"} -> type
      [] type \in BytesLike               -> "bytes"
      [] type \in {"datetime", "time"}    -> "time"
      [] type = "dict"                    -> "map"
      [] type \in Slot7                   -> "array"
      [] OTHER                            -> "other"

(* The bit a parameter is compiled to, and what is added to its value: an   *)
(* exclusive bound becomes an inclusive one.                                *)
CnBit(kind, p) ==
    CASE kind = "int" /\ p \in {"gt", "ge"} -> <<"int", "min">>
      [] kind = "int" /\ p \in {"lt", "le"} -> <<"int", "max">>
      [] OTHER -> <<kind, p>>

(* Fault: lt is not made inclusive. *)
InwardsFromBelow(p) == IF p = "gt" THEN 1 ELSE 0

Inwards(p) == CASE p = "gt" -> 1 [] p = "lt" -> -1 [] OTHER -> 0

AppliesTo(class) ==
    CASE class = "numeric"    -> {"int", "float"}
      [] class = "str"        -> {"str"}
      [] class = "bytes"      -> {"bytes"}
      [] class = "collection" -> {"array", "map"}
      [] class = "tz"         -> {"time"}

FitsInt64(n) == n \in (-MaxInt - 1)..MaxInt

Compile(s, c, kind) ==
    LET params == DOMAIN c.params
        value(p) == c.params[p] + Inwards(p)
        group(k) == {p \in params : CnBit(kind, p) \in CnOrder[k]}
    IN  IF kind \notin AppliesTo(c.class)
        THEN IF params = {} THEN s ELSE Refuse(s)
        ELSE IF kind = "int" /\ \E p \in params : ~FitsInt64(c.params[p]) \/ ~FitsInt64(value(p))
        THEN Refuse(s)
        ELSE [s EXCEPT !.mask = @ \cup {CnBit(kind, p) : p \in params},
                       !.bound = [k \in CnIndex |->
                           IF group(k) = {} THEN @[k] ELSE value(CHOOSE p \in group(k) : TRUE)]]

CollectSerializer(s, m) ==
    IF m.codec = Null THEN s
    ELSE IF s.types = {"none"} \/ s.types \cap SerializerBlocked # {} THEN Refuse(s)
    ELSE [s EXCEPT !.types = @ \cup {"codec"}, !.obj["codec"] = m.codec]

(* The built-in constraints are compiled, other ones are kept to be called. *)
CollectConstraint(s, m) ==
    IF m.constr = Null \/ ~s.ok THEN s
    ELSE IF m.constr.class = "user"
    THEN [s EXCEPT !.types = @ \cup {"user"}, !.obj["user"] = m.constr.class]
    ELSE Compile(s, m.constr, KindOf(m.type))

(* ms_is_single_custom_type: the type by itself may have a Serializer. *)
TakesSerializer(m) ==
    IF m.type = "literal" THEN m.obj \subseteq {"none"}
    ELSE Bits(m.type) \cap SerializerBlocked = {}

(* Any ends the collection: what follows is not even looked at.            *)
CollectMember(s, m) ==
    IF "any" \in s.types THEN s
    ELSE IF m.codec # Null /\ ~TakesSerializer(m) THEN Refuse(s)
    ELSE LET t == CollectType(s, m)
         IN  IF t.ok THEN CollectConstraint(CollectSerializer(t, m), m) ELSE t

NoNode == [types |-> {}, details |-> <<>>, room |-> 0, at |-> 0]

Collect(m) ==
    /\ phase = "collect"
    /\ Len(seen) < MaxMembers
    /\ \A k \in 1..Len(seen) : seen[k] # m   \* typing.Union drops duplicates
    /\ seen' = Append(seen, m)
    /\ st' = CollectMember(st, m)
    /\ phase' = IF st'.ok THEN "collect" ELSE "refused"
    /\ UNCHANGED node

Collected ==
    /\ phase = "collect"
    /\ seen # <<>>
    /\ phase' = "structs"
    /\ UNCHANGED <<seen, st, node>>

-----------------------------------------------------------------------------
(* The second passes.                                                       *)

(* The classes of a union can be told apart by their tags. *)
Distinguishable(S) ==
    /\ \A s \in S : Tag[s] # Null
    /\ \A s, u \in S :
          /\ s \in ArrayLike <=> u \in ArrayLike
          /\ Tag[s].str = Tag[u].str
          /\ Tag[s].field = Tag[u].field
          /\ s # u => Tag[s].value # Tag[u].value

ValidateStructs ==
    /\ phase = "structs"
    /\ UNCHANGED <<seen, node>>
    /\ LET array == \E s \in st.structs : s \in ArrayLike IN
       \/ /\ st.structs = {}
          /\ phase' = "literals"
          /\ UNCHANGED st
       \/ /\ st.structs # {} /\ ~st.many
          /\ phase' = "literals"
          /\ st' = [st EXCEPT !.types = @ \cup {IF array THEN "structarray" ELSE "struct"},
                              !.obj["structinfo"] = CHOOSE s \in st.structs : TRUE]
       \/ /\ st.many /\ Distinguishable(st.structs)
          /\ phase' = "literals"
          /\ st' = [st EXCEPT !.types = @ \cup {IF array THEN "structarrayunion"
                                                ELSE "structunion"},
                              !.obj["structlookup"] = st.structs]
       \/ /\ st.many /\ ~Distinguishable(st.structs)
          /\ phase' = "refused"
          /\ UNCHANGED st

(* StructInfo_Convert fails. *)
StructFails ==
    /\ phase = "structs"
    /\ st.structs # {}
    /\ phase' = "failed"
    /\ UNCHANGED <<seen, st, node>>

ValidateLiterals ==
    /\ phase = "literals"
    /\ LET ints == st.literals \cap IntLiterals
           strs == st.literals \ (IntLiterals \cup {"none", "true", "false"})
           bit(b, holds) == IF holds THEN {b} ELSE {}
       IN  st' = [st EXCEPT
             !.types = @ \cup bit("intliteral", ints # {}) \cup bit("strliteral", strs # {})
                         \cup (st.literals \cap {"none", "true", "false"}),
             !.obj["intliteral"] = IF ints = {} THEN Null ELSE ints,
             !.obj["strliteral"] = IF strs = {} THEN Null ELSE strs]
    /\ phase' = "check"
    /\ UNCHANGED <<seen, node>>

Several(S) == Cardinality(S) > 1

(* Literals that a type of the union covers are dropped. *)
DropLiterals(s) ==
    LET covered == {b \in {"intliteral", "strliteral"} :
                      /\ s.obj[b] # Null
                      /\ (IF b = "intliteral" THEN "int" ELSE "str") \in s.types}
    IN  [s EXCEPT !.types = @ \ covered,
                  !.obj = [o \in Slot |-> IF o \in covered THEN Null ELSE @[o]]]

(* Fault: dict is not counted. *)
AmbiguousButDicts(s) ==
    \/ /\ s.obj["custom"] # Null
       /\ s.types \ {"custom", "customgeneric", "none", "codec", "user"} # {}
    \/ Several(s.types \cap ListLike)
    \/ Several(s.types \cap DictLike)
    \/ Several(DropLiterals(s).types \cap IntLike)
    \/ Several(DropLiterals(s).types \cap StrLike)

Ambiguous(s) ==
    \/ /\ s.obj["custom"] # Null
       /\ s.types \ {"custom", "customgeneric", "none", "codec", "user"} # {}
    \/ Several(s.types \cap ListLike)
    \/ Several((s.types \cap DictLike) \cup (IF s.types \cap DictBits # {} THEN {"dict"} ELSE {}))
    \/ Several(DropLiterals(s).types \cap IntLike)
    \/ Several(DropLiterals(s).types \cap StrLike)

-----------------------------------------------------------------------------
(* The layout.  Details are stored in this order; `room' of them fit.       *)

(* Fault: the constraint before the codec. *)
LayoutUserFirst == <<"custom", "structinfo", "structlookup", "path", "ip", "intenum",
            "intliteral", "enum", "strliteral", "typeddict", "dataclass", "namedtuple",
            "user", "codec", "dict", "array", "constraints">>

Layout == <<"custom", "structinfo", "structlookup", "path", "ip", "intenum", "intliteral",
            "enum", "strliteral", "typeddict", "dataclass", "namedtuple",
            "codec", "user", "dict", "array", "constraints">>

Count(types, bits) == Cardinality(types \cap bits)

(* Fault: no room for the codec. *)
RoomNoCodec(s) ==
    Count(s.types, ObjSlots \cup DictBits \cup Slot7 \cup {"user"})
    + (IF s.mask # {} THEN 1 ELSE 0)
    + (IF "fixtuple" \in s.types THEN Len(s.obj["array"]) + 1 ELSE 0)

Room(s) ==
    Count(s.types, ObjSlots \cup DictBits \cup Slot7 \cup {"codec", "user"})
    + (IF s.mask # {} THEN 1 ELSE 0)
    + (IF "fixtuple" \in s.types THEN Len(s.obj["array"]) + 1 ELSE 0)

Check ==
    /\ phase = "check"
    /\ UNCHANGED seen
    /\ IF Ambiguous(st)
       THEN phase' = "refused" /\ UNCHANGED <<st, node>>
       ELSE LET s == DropLiterals(st) IN
            /\ st' = s
            /\ node' = [NoNode EXCEPT !.room = Room(s),
                          !.types = s.types \cup (IF s.mask # {} THEN {"constr"} ELSE {})]
            /\ phase' = "layout"

Present(s, slot) ==
    CASE slot \in {"codec", "user"} -> slot \in s.types
      [] slot = "constraints"       -> s.mask # {}
      [] OTHER                      -> s.obj[slot] # Null

Detail(is, of) == [is |-> is, of |-> of]

(* The ConstraintNode: the bounds in order, one for both float minimums and *)
(* one for both float maximums.                                             *)
CnUsed(mask) == {k \in CnIndex : CnOrder[k] \cap mask # {}}

CnPacked(s) ==
    [j \in 1..Cardinality(CnUsed(s.mask)) |->
        s.bound[CHOOSE k \in CnUsed(s.mask) :
                    Cardinality({i \in CnUsed(s.mask) : i <= k}) = j]]

Stored(s, slot) ==
    CASE slot = "dict"  -> <<Detail("node", s.obj["dict"][1]), Detail("node", s.obj["dict"][2])>>
      [] slot = "array" ->
            IF "fixtuple" \in s.types
            THEN <<Detail("size", Len(s.obj["array"]))>>
                 \o [k \in 1..Len(s.obj["array"]) |-> Detail("node", s.obj["array"][k])]
            ELSE <<Detail("node", s.obj["array"])>>
      [] slot = "constraints" -> <<Detail("cn", CnPacked(s))>>
      [] OTHER -> <<Detail("obj", s.obj[slot])>>

(* The next slot of the layout that has something to store. *)
NextSlot(k) ==
    /\ k \in (node.at + 1)..Len(Layout)
    /\ Present(st, Layout[k])
    /\ \A j \in (node.at + 1)..(k - 1) : ~Present(st, Layout[j])

Store(k) ==
    /\ phase = "layout"
    /\ NextSlot(k)
    /\ node' = [node EXCEPT !.details = @ \o Stored(st, Layout[k]), !.at = k,
                  !.types = IF Layout[k] = "custom" THEN @ \cup {"any"} ELSE @]
    /\ UNCHANGED <<phase, seen, st>>

(* The conversion of a nested type or a lookup fails: some of the slot's    *)
(* details are stored, and TypeNode_Free runs on the node as it is.         *)
Converts(slot) == slot \in {"intenum", "enum", "typeddict", "dataclass", "namedtuple",
                            "dict", "array"}

StoreFails(k) ==
    /\ phase = "layout"
    /\ NextSlot(k)
    /\ Converts(Layout[k])
    /\ \E n \in 0..(Len(Stored(st, Layout[k])) - 1) :
          node' = [node EXCEPT !.details = @ \o SubSeq(Stored(st, Layout[k]), 1, n)]
    /\ phase' = "failed"
    /\ UNCHANGED <<seen, st>>

Built ==
    /\ phase = "layout"
    /\ \A k \in (node.at + 1)..Len(Layout) : ~Present(st, Layout[k])
    /\ phase' = "done"
    /\ UNCHANGED <<seen, st, node>>

(* typenode_collect_clear_state; another type is converted. *)
Clear ==
    /\ phase \in {"done", "refused", "failed"}
    /\ phase' = "collect"
    /\ seen' = <<>>
    /\ st' = Cleared
    /\ node' = NoNode

-----------------------------------------------------------------------------
(* The readers.  `details' beyond what was stored is zero.                  *)

Nil == Detail("nil", Null)
DetailAt(i) == IF i < Len(node.details) THEN node.details[i + 1] ELSE Nil

(* Where a reader looks for the detail of a type bit. *)
Offset(types, bit) ==
    CASE bit \in {"struct", "structarray", "structunion", "structarrayunion",
                  "custom", "customgeneric"} -> 0
      [] bit \in {"path", "ip"} -> Count(types, Slot0 \ {bit})
      [] bit \in Slot1 -> Count(types, Slot0)
      [] bit \in Slot2 -> Count(types, Slot0 \cup Slot1)
      [] bit \in Slot3 -> Count(types, Slot0 \cup Slot1 \cup Slot2)
      [] bit \in Slot4 -> Count(types, Slot0 \cup Slot1 \cup Slot2 \cup Slot3)
      [] bit = "codec"   -> Count(types, ObjSlots)
      [] bit = "user"    -> Count(types, ObjSlots \cup {"codec"})
      [] bit = "dictkey" -> Count(types, ObjSlots \cup {"codec", "user"})
      [] bit = "dictval" -> Count(types, ObjSlots \cup {"codec", "user"}) + 1
      [] bit \in Slot7 \cup {"fixtuple"} ->
            Count(types, ObjSlots \cup {"codec", "user"} \cup DictBits)

(* Fault: the hooks of a custom type are forgotten. *)
TraverseRangesNoHooks(types) ==
    LET tuple == Offset(types, "fixtuple")
        none  == [obj |-> 0, node |-> 0, offset |-> 0, size |-> 0]
    IN  IF types \cap {"custom", "customgeneric"} # {} THEN [none EXCEPT !.obj = 1]
        ELSE IF "any" \in types THEN none
        ELSE [obj    |-> Count(types, ObjSlots \cup {"codec", "user"}),
              node   |-> Count(types, DictBits \cup Slot7),
              offset |-> IF "fixtuple" \in types THEN tuple + 1 ELSE 0,
              size   |-> IF "fixtuple" \in types /\ DetailAt(tuple).is = "size"
                         THEN DetailAt(tuple).of ELSE 0]

(* TypeNode_get_traverse_ranges: how many details are objects, how many are *)
(* nodes, and where the elements of a tuple are.                            *)
TraverseRanges(types) ==
    LET tuple == Offset(types, "fixtuple")
        none  == [obj |-> 0, node |-> 0, offset |-> 0, size |-> 0]
    IN  IF types \cap {"custom", "customgeneric"} # {}
        THEN [none EXCEPT !.obj = 1 + Count(types, {"codec", "user"})]
        ELSE IF "any" \in types THEN none
        ELSE [obj    |-> Count(types, ObjSlots \cup {"codec", "user"}),
              node   |-> Count(types, DictBits \cup Slot7),
              offset |-> IF "fixtuple" \in types THEN tuple + 1 ELSE 0,
              size   |-> IF "fixtuple" \in types /\ DetailAt(tuple).is = "size"
                         THEN DetailAt(tuple).of ELSE 0]

(* TypeNode_get_constraints. *)
ConstraintOffset(types) ==
    LET r == TraverseRanges(types) IN
    IF types \cap (ObjSlots \cup DictBits \cup Slot7 \cup {"fixtuple", "codec", "user"}) = {}
    THEN 0
    ELSE r.obj + r.node + (IF "fixtuple" \in types THEN 1 + r.size ELSE 0)

(* What TypeNode_Free and TypeNode_traverse visit, and as what. *)
Visited(types) ==
    LET r == TraverseRanges(types) IN
    {<<i, "obj">> : i \in 0..(r.obj - 1)}
    \cup {<<i, "node">> : i \in r.obj..(r.obj + r.node - 1)}
    \cup {<<i, "node">> : i \in r.offset..(r.offset + r.size - 1)}
    \cup (IF "constr" \in types THEN {<<ConstraintOffset(types), "cn">>} ELSE {})

(* Where a reader looks for a compiled constraint. *)
CnGroup(bit) == CHOOSE k \in CnIndex : bit \in CnOrder[k]
CnOffset(mask, bit) == Cardinality(mask \cap UNION {CnOrder[j] : j \in 1..(CnGroup(bit) - 1)})

-----------------------------------------------------------------------------
Init ==
    /\ phase = "collect"
    /\ seen = <<>>
    /\ st = Cleared
    /\ node = NoNode

Next ==
    \/ \E m \in Member : Collect(m)
    \/ Collected
    \/ ValidateStructs \/ StructFails \/ ValidateLiterals \/ Check
    \/ \E k \in 1..Len(Layout) : Store(k) \/ StoreFails(k)
    \/ Built \/ Clear

Spec == Init /\ [][Next]_vars

-----------------------------------------------------------------------------
(* Properties.                                                              *)

Types == Scalars \cup ObjSlots \cup DictBits \cup Slot7
         \cup {"any", "fixtuple", "true", "false", "codec", "user", "constr"}

(* The variables have their types, and only known bits are set.             *)
TypeOK ==
    /\ phase \in {"collect", "structs", "literals", "check", "layout", "done",
                  "refused", "failed"}
    /\ seen \in Seq(Member) /\ Len(seen) <= MaxMembers
    /\ st.types \subseteq Types /\ node.types \subseteq Types
    /\ st.mask \subseteq CnBits
    /\ \A k \in CnIndex : st.bound[k] \in Int
    /\ node.room \in Nat /\ node.at \in 0..Len(Layout)

(* What the reader of a type bit must find. *)
ObjectOf(bit) ==
    CASE bit \in {"struct", "structarray"} -> st.obj["structinfo"]
      [] bit \in {"structunion", "structarrayunion"} -> st.obj["structlookup"]
      [] bit = "dictkey" -> st.obj["dict"][1]
      [] bit = "dictval" -> st.obj["dict"][2]
      [] OTHER -> st.obj[SlotOf(bit)]

(* Counting the bits before it leads every reader of a finished TypeNode to *)
(* the detail of the bit it asks for (the getters of TypeNode and           *)
(* ConstraintNode), whichever members came in whichever order.              *)
DetailsFound ==
    phase = "done" =>
        /\ \A b \in node.types \cap (ObjSlots \cup {"codec", "user"}) :
              DetailAt(Offset(node.types, b)) = Detail("obj", ObjectOf(b))
        /\ \A b \in node.types \cap (DictBits \cup Slot7) :
              DetailAt(Offset(node.types, b)) = Detail("node", ObjectOf(b))
        /\ "fixtuple" \in node.types =>
              LET i == Offset(node.types, "fixtuple")
                  t == st.obj["array"]
              IN  /\ DetailAt(i) = Detail("size", Len(t))
                  /\ \A j \in 1..Len(t) : DetailAt(i + j) = Detail("node", t[j])
        /\ "constr" \in node.types =>
              LET cn == DetailAt(ConstraintOffset(node.types)) IN
              /\ cn.is = "cn"
              /\ \A b \in st.mask \cap CnDetails :
                    LET i == CnOffset(st.mask, b) IN
                    i < Len(cn.of) /\ cn.of[i + 1] = st.bound[CnGroup(b)]

(* The details never outgrow the allocation that was sized from the mask,   *)
(* and fill it in the end (typenode_from_collect_state).                    *)
FillsAllocation ==
    /\ Len(node.details) <= node.room
    /\ phase = "done" => Len(node.details) = node.room

(* At any moment, the error paths included, TypeNode_Free and the garbage   *)
(* collector visit each reference the node holds, once and as what it is.   *)
ReleasesWhatItHolds ==
    {v \in Visited(node.types) : DetailAt(v[1]).is # "nil"}
        = {<<i, DetailAt(i).is>> : i \in {j \in 0..(Len(node.details) - 1) :
                                            DetailAt(j).is # "size"}}

SeenMembers == {seen[k] : k \in 1..Len(seen)}

(* The restrictions the documentation puts on unions (docs/supported-       *)
(* types.rst), as a property of the set of members.                         *)
One(holds) == IF holds THEN 1 ELSE 0
Suits(m) ==
    /\ m.codec # Null => TakesSerializer(m)
    /\ m.constr # Null /\ DOMAIN m.constr.params # {} =>
          /\ KindOf(m.type) \in AppliesTo(m.constr.class)
          /\ m.type = "int" => \A p \in DOMAIN m.constr.params :
                FitsInt64(m.constr.params[p]) /\ FitsInt64(m.constr.params[p] + Inwards(p))
IsNone(m) == m.type = "none" \/ (m.type = "literal" /\ m.obj \subseteq {"none"})

Supported(S) ==
    LET of(T)     == {m \in S : m.type \in T}
        classes   == {m.obj : m \in of({"struct"})}
        arrays    == classes \cap ArrayLike
        objects   == classes \ ArrayLike
        values    == UNION {m.obj : m \in of({"literal"})}
        ints      == values \cap IntLiterals
        strs      == values \ (IntLiterals \cup {"none", "true", "false"})
        scalars   == {m.type : m \in of(StrLike \ {"enum", "path", "ip"})}
        customs   == of({"custom", "customgeneric"})
        number(T) == Cardinality(of(T))
    IN  /\ \A m \in S : Suits(m)
        /\ customs # {} => /\ Cardinality(customs) = 1
                          /\ \A m \in S \ customs : IsNone(m)
        /\ number({"intenum"}) + One(of({"int"}) # {} \/ ints # {}) <= 1
        /\ number({"enum"}) + Cardinality({m.obj : m \in of({"path"})})
            + Cardinality({m.obj : m \in of({"ip"})})
            + Cardinality(scalars) + One(strs # {} /\ of({"str"}) = {}) <= 1
        /\ number({"dict", "typeddict", "dataclass"}) + One(objects # {}) <= 1
        /\ number(Slot7 \cup {"fixtuple", "namedtuple"}) + One(arrays # {}) <= 1
        /\ Several(of({"struct"})) => Distinguishable(classes)

NoAny == \A m \in SeenMembers : m.type # "any"

(* Whether a union is accepted depends on the set of its members and not on *)
(* the order they are written in, and is what the documentation says.       *)
OrderDoesNotMatter ==
    NoAny =>
        /\ phase = "done" => Supported(SeenMembers)
        /\ phase = "refused" => ~Supported(SeenMembers)

(* "Serializers are not supported on bare `None` or on native types such    *)
(* as int, str, etc." (typenode_collect_constraints).                       *)
SerializersAvoidNativeTypes ==
    phase = "done" /\ "codec" \in node.types =>
        node.types \cap (SerializerBlocked \ {"any"}) = {}

(* "Any takes precedence, drop all existing": nothing of the other members  *)
(* is left in the node.                                                     *)
AnyTakesPrecedence ==
    phase = "done" /\ ~NoAny =>
        /\ node.types \subseteq {"any", "user"}
        /\ \A k \in 1..Len(node.details) : node.details[k].of = st.obj["user"]

(* The compiled bounds accept exactly the integers that the parameters do,  *)
(* at both ends of int64 too; of several members the last one decides.      *)
Accepts(p, bound, n) ==
    CASE p = "ge" -> n >= bound [] p = "gt" -> n > bound
      [] p = "le" -> n <= bound [] p = "lt" -> n < bound
      [] p = "multiple_of" -> n % bound = 0

BoundsAreExact ==
    phase = "done" /\ NoAny =>
        \A side \in {{"gt", "ge"}, {"lt", "le"}, {"multiple_of"}} :
            LET setting == {k \in 1..Len(seen) :
                              /\ seen[k].type = "int"
                              /\ seen[k].constr # Null
                              /\ DOMAIN seen[k].constr.params \cap side # {}}
                last == CHOOSE k \in setting : \A j \in setting : j <= k
                p    == CHOOSE p \in side : p \in DOMAIN seen[last].constr.params
                bit  == CnBit("int", CHOOSE q \in side : TRUE)
                cn   == DetailAt(ConstraintOffset(node.types)).of
                compiled == cn[CnOffset(st.mask, bit) + 1]
                as   == CASE bit[2] = "min" -> "ge" [] bit[2] = "max" -> "le"
                          [] OTHER -> "multiple_of"
            IN  /\ setting = {} <=> bit \notin st.mask
                /\ setting # {} => \A n \in (-MaxInt - 1)..MaxInt :
                      Accepts(as, compiled, n) <=> Accepts(p, seen[last].constr.params[p], n)
=============================================================================
