-------------------------------- MODULE Validate --------------------------------
(***************************************************************************)
(* validate_obj: a value of Python converted to a type, or Failed.  Nothing *)
(* runs between its steps but the callbacks of Serializers, so it is an     *)
(* operator.  `str_keys' is the option that lets keys be numerals; strict   *)
(* conversion, without from_attributes and builtin_types, is modelled.      *)
(***************************************************************************)
EXTENDS Documents

RECURSIVE ValidateObj(_, _, _)

AnyFailed(vs) == \E i \in DOMAIN vs : vs[i] = Failed

Kind(details) == IF details = Null THEN Null ELSE details.kind

(* Items in order, each with the type it has at its place.                  *)
Items(items, types, str_keys) ==
    [i \in DOMAIN items |-> ValidateObj(items[i], types[i], str_keys)]

--------------------------------------------------------------------------------
(***************************************************************************)
(* Sequences                                                               *)
(***************************************************************************)
AllOf(items, type, str_keys) == Items(items, [i \in DOMAIN items |-> type.array.items[1]], str_keys)

ToList(items, type, str_keys) ==
    LET vs == AllOf(items, type, str_keys) IN IF AnyFailed(vs) THEN Failed ELSE <<"list", vs>>

ToASet(items, type, str_keys) ==
    LET vs == AllOf(items, type, str_keys)
    IN IF AnyFailed(vs) \/ \E i \in DOMAIN vs : ~Hashable(vs[i]) THEN Failed ELSE <<"set", ToSet(vs)>>

ToVarTuple(items, type, str_keys) ==
    LET vs == AllOf(items, type, str_keys) IN IF AnyFailed(vs) THEN Failed ELSE <<"tuple", vs>>

ToFixTuple(items, type, str_keys) ==
    IF Len(items) # Len(type.array.items) THEN Failed
    ELSE LET vs == Items(items, type.array.items, str_keys)
         IN IF AnyFailed(vs) THEN Failed ELSE <<"tuple", vs>>

FieldTypes(c) == [i \in 1..NFields(c) |-> Fields(c)[i].type]

ToNamedTuple(items, c, str_keys) ==
    IF Len(items) > NFields(c) THEN Failed
    ELSE LET vs == Items(items, FieldTypes(c), str_keys)
         IN IF AnyFailed(vs) THEN Failed ELSE FillInTrailing(c, vs)

(* The tag has to be of the same type: True is not the tag 1.               *)
TagMatches(c, v) == v = Class[c].tag

ToStructArray(items, c, tag_already_read, str_keys) ==
    LET rest == IF IsTagged(c) THEN SubSeq(items, 2, Len(items)) ELSE items
        read == [i \in {j \in DOMAIN rest : j <= NFields(c)} |-> rest[i]]
        vs == Items(read, FieldTypes(c), str_keys)
    IN IF \/ IsTagged(c) /\ items = <<>>
          \/ IsTagged(c) /\ ~tag_already_read /\ ~TagMatches(c, items[1])
          \/ Len(rest) > NFields(c) /\ Class[c].forbid
          \/ AnyFailed(vs)
       THEN Failed
       ELSE FillInTrailing(c, vs)

LookupTag(of, tag) == IF tag \in DOMAIN of THEN of[tag] ELSE Null

ToStructArrayUnion(items, of, str_keys) ==
    IF items = <<>> \/ LookupTag(of, Head(items)) = Null THEN Failed
    ELSE ToStructArray(items, LookupTag(of, Head(items)), TRUE, str_keys)

(* The length is checked before anything is converted.                      *)
ValidateSeq(items, type, str_keys) ==
    LET a == type.array IN
    IF a = Null \/ Len(items) < a.min THEN Failed
    ELSE CASE a.kind = "list" -> ToList(items, type, str_keys)
           [] a.kind = "set" -> ToASet(items, type, str_keys)
           [] a.kind = "vartuple" -> ToVarTuple(items, type, str_keys)
           [] a.kind = "fixtuple" -> ToFixTuple(items, type, str_keys)
           [] a.kind = "namedtuple" -> ToNamedTuple(items, a.class, str_keys)
           [] a.kind = "struct" -> ToStructArray(items, a.class, FALSE, str_keys)
           [] a.kind = "union" -> ToStructArrayUnion(items, a.of, str_keys)

(* A set becomes only what has no order of its own to give its items.       *)
ValidateAnySet(set, type, str_keys) ==
    IF Kind(type.array) \notin {"list", "set", "vartuple"} THEN Failed
    ELSE ValidateSeq(SetToSeq(set), type, str_keys)

--------------------------------------------------------------------------------
(***************************************************************************)
(* Texts and dicts                                                         *)
(***************************************************************************)
ValidateStr(text, is_key, type, str_keys) ==
    IF type.is \cap {"any", "str"} # {} THEN Str(text)
    ELSE IF is_key /\ str_keys /\ "int" \in type.is /\ IsNumeral(text) THEN Number(text)
    ELSE FromText(text, type)

(* A text as a key goes past the `load' of the type of keys.                *)
DictKey(k, type, str_keys) ==
    IF k[1] = "str" THEN ValidateStr(k[2], TRUE, type, str_keys) ELSE ValidateObj(k, type, str_keys)

ToDict(pairs, type, str_keys) ==
    LET ks == [i \in DOMAIN pairs |-> DictKey(pairs[i][1], type.object.key, str_keys)]
        vs == [i \in DOMAIN pairs |-> ValidateObj(pairs[i][2], type.object.val, str_keys)]
    IN IF AnyFailed(ks) \/ AnyFailed(vs) THEN Failed
       ELSE <<"dict", FoldLeft(LAMBDA d, i : Put(d, ks[i], vs[i]), <<>>, [i \in DOMAIN pairs |-> i])>>

(* What a class takes of a dict: the members that are fields, converted.    *)
Given(pairs, c, str_keys) ==
    LET members == SelectSeq(pairs, LAMBDA p : IsField(c, p[1][2]))
    IN [i \in DOMAIN members |->
           <<members[i][1],
             ValidateObj(members[i][2], Fields(c)[FieldOf(c, members[i][1][2])].type, str_keys)>>]

AllKeysAreStr(pairs) == \A i \in DOMAIN pairs : pairs[i][1][1] = "str"

AnyRefused(given) == \E i \in DOMAIN given : given[i][2] = Failed

(* Unknown keys are ignored, or forbidden; the tag is checked unless it     *)
(* chose the class.                                                         *)
ToStruct(pairs, c, tag_already_read, str_keys) ==
    LET given == Given(pairs, c, str_keys)
        Wrong(p) == /\ ~IsField(c, p[1][2])
                    /\ IF IsTagKey(c, p[1][2]) THEN ~tag_already_read /\ ~TagMatches(c, p[2])
                       ELSE Class[c].forbid
    IN IF ~AllKeysAreStr(pairs) \/ (\E i \in DOMAIN pairs : Wrong(pairs[i])) \/ AnyRefused(given) THEN Failed
       ELSE FillInDefaults(c, given)

ToStructUnion(pairs, o, str_keys) ==
    LET tag == Str(o.tag_field) IN
    IF ~Has(pairs, tag) \/ LookupTag(o.of, ValueOf(pairs, tag)) = Null THEN Failed
    ELSE ToStruct(pairs, LookupTag(o.of, ValueOf(pairs, tag)), TRUE, str_keys)

ToTypedDict(pairs, c, str_keys) ==
    LET given == Given(pairs, c, str_keys)
    IN IF \/ ~AllKeysAreStr(pairs)
          \/ \E i \in Required(c) : ~Has(pairs, Str(Fields(c)[i].key))
          \/ AnyRefused(given)
       THEN Failed
       ELSE <<"dict", given>>

ToDataclass(pairs, c, str_keys) ==
    LET given == Given(pairs, c, str_keys)
    IN IF ~AllKeysAreStr(pairs) \/ AnyRefused(given) THEN Failed ELSE FillInDefaults(c, given)

ValidateDict(pairs, type, str_keys) ==
    LET o == type.object IN
    CASE Kind(o) = "dict" -> ToDict(pairs, type, str_keys)
      [] Kind(o) = "struct" -> ToStruct(pairs, o.class, FALSE, str_keys)
      [] Kind(o) = "union" -> ToStructUnion(pairs, o, str_keys)
      [] Kind(o) = "typeddict" -> ToTypedDict(pairs, o.class, str_keys)
      [] Kind(o) = "dataclass" -> ToDataclass(pairs, o.class, str_keys)
      [] OTHER -> Failed

--------------------------------------------------------------------------------
(***************************************************************************)
(* Objects                                                                 *)
(***************************************************************************)
(* Lookup_union_contains_type                                               *)
UnionContains(of, c) == \E t \in DOMAIN of : of[t] = c

(* The first details that are there decide.                                 *)
IsInstance(c, type) ==
    LET o == type.object
        a == type.array
    IN CASE Kind(o) = "struct" -> o.class = c
         [] Kind(a) = "struct" -> a.class = c
         [] Kind(o) = "union" -> UnionContains(o.of, c)
         [] Kind(a) = "union" -> UnionContains(a.of, c)
         [] Kind(o) = "dataclass" -> o.class = c
         [] Kind(a) = "namedtuple" -> a.class = c
         [] OTHER -> FALSE

(* ms_typenode_accepts_instance: the value needs no conversion, not even    *)
(* the `load' of a Serializer.                                              *)
AcceptsInstance(type, v) ==
    CASE v[1] = "date" -> "date" \in type.is
      [] v[1] = "set" -> Kind(type.array) = "set"
      [] v[1] = "obj" -> IsInstance(v[2], type)
      [] OTHER -> FALSE

ValidateOther(v, type, str_keys) ==
    IF AcceptsInstance(type, v) THEN v
    ELSE IF Class[v[2]].kind = "namedtuple" THEN ValidateSeq(v[3], type, str_keys)
    ELSE Failed

ValidateScalar(v, type) == IF v[1] \in type.is THEN v ELSE Failed

(* validate_obj_dispatch                                                    *)
Dispatch(v, type, str_keys) ==
    IF "any" \in type.is THEN v
    ELSE CASE v[1] = "str" -> ValidateStr(v[2], FALSE, type, str_keys)
           [] v[1] \in {"none", "bool", "int", "date"} -> ValidateScalar(v, type)
           [] v[1] \in {"list", "tuple"} -> ValidateSeq(v[2], type, str_keys)
           [] v[1] = "dict" -> ValidateDict(v[2], type, str_keys)
           [] v[1] = "set" -> ValidateAnySet(v[2], type, str_keys)
           [] v[1] = "obj" -> ValidateOther(v, type, str_keys)

(* `load' comes first, unless there is nothing to load.                     *)
ValidateObj(v, type, str_keys) ==
    IF \/ type.load = Null
       \/ v = <<"none">> /\ "none" \in type.is
       \/ AcceptsInstance(type, v)
    THEN Dispatch(v, type, str_keys)
    ELSE LET loaded == LoadOf(type, v)
         IN IF loaded = Failed THEN Failed ELSE Dispatch(loaded, type, str_keys)

(* validate_loaded_json_value: what a `load' made of a JSON value.          *)
ValidateLoadedValue(v, type) == Dispatch(v, type, FALSE)

================================================================================
