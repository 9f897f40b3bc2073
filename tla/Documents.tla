------------------------------- MODULE Documents -------------------------------
(***************************************************************************)
(* What decoders, encoders and validators share: the values of Python, the *)
(* documents, the types values are converted to, and the classes.          *)
(*                                                                         *)
(* A value is a tuple whose first item is its kind:                        *)
(*   <<"none">>  <<"bool">>  <<"int", n>>  <<"str", text>>  <<"date", d>>  *)
(*   <<"list", items>>  <<"tuple", items>>  <<"set", set of values>>       *)
(*   <<"dict", pairs>>       in the order of insertion                     *)
(*   <<"obj", class, values of its fields>>                                *)
(* A date stands for the many types that native code writes as a string,   *)
(* <<"bool">> for True.                                                    *)
(*                                                                         *)
(* A document is a sequence of tokens: brackets, commas and colons as      *)
(* <<"[">>, <<"eof">>, and scalars; <<"str", text>> is a string whose text *)
(* is in the input as it stands, <<"esc", text>> one with escapes.         *)
(***************************************************************************)
EXTENDS Integers, SequencesExt

CONSTANTS
    Class,          \* per class, what StructInfo, DataclassInfo, .. say of it
    Numeral,        \* per integer, the text str() gives
    DateText,       \* the texts that are dates
    Calls(_, _),    \* what a callback returns for a value, or Failed
    NODEFAULT, Null

Failed == <<"failed">>

(* A TypeNode: the kinds of scalars it has; what arrays and objects become; *)
(* and the `load' of its Serializer, NoLoad if that only has a `dump'.      *)
Type(is, array, object) == [is |-> is, array |-> array, object |-> object, load |-> Null]

Scalar(is) == Type(is, Null, Null)

TypeAny == Scalar({"any"})

Loaded(type, load) == [type EXCEPT !.load = load]

NoLoad == "no load"

LoadOf(type, v) == IF type.load = NoLoad THEN v ELSE Calls(type.load, v)

(* The details of an array: its kind, the types of its items, a least       *)
(* length, and for named tuples and Structs the class; for unions `of' maps *)
(* tags to classes.                                                         *)
Array(kind, items, min) ==
    Type({}, [kind |-> kind, items |-> items, min |-> min, class |-> Null, of |-> <<>>], Null)

ClassArray(kind, class, of) ==
    Type({}, [kind |-> kind, items |-> <<>>, min |-> 0, class |-> class, of |-> of], Null)

(* The details of an object, in the same way.                               *)
Dict(key, val) ==
    Type({}, Null, [kind |-> "dict", key |-> key, val |-> val, class |-> Null, tag_field |-> Null, of |-> <<>>])

ClassObject(kind, class, tag_field, of) ==
    Type({}, Null, [kind |-> kind, key |-> TypeAny, val |-> TypeAny, class |-> class, tag_field |-> tag_field, of |-> of])

Optional(type) == [type EXCEPT !.is = @ \cup {"none"}]

(***************************************************************************)
(* Values                                                                  *)
(***************************************************************************)
Str(text) == <<"str", text>>

(* PyDict_SetItem: a key that is there keeps its place.                     *)
Put(pairs, k, v) ==
    IF \E i \in 1..Len(pairs) : pairs[i][1] = k
    THEN [i \in 1..Len(pairs) |-> IF pairs[i][1] = k THEN <<k, v>> ELSE pairs[i]]
    ELSE Append(pairs, <<k, v>>)

Has(pairs, k) == \E i \in 1..Len(pairs) : pairs[i][1] = k

ValueOf(pairs, k) == pairs[CHOOSE i \in 1..Len(pairs) : pairs[i][1] = k][2]

Hashable(v) == v[1] \notin {"list", "set", "dict", "obj"}

(* Fields of a class, by the key they have in documents.                    *)
Fields(c) == Class[c].fields

IsField(c, text) == \E i \in 1..Len(Fields(c)) : Fields(c)[i].key = text

FieldOf(c, text) == CHOOSE i \in 1..Len(Fields(c)) : Fields(c)[i].key = text

NFields(c) == Len(Fields(c))

Required(c) == {i \in 1..NFields(c) : Fields(c)[i].default = NODEFAULT}

IsTagged(c) == Class[c].tag # Null

IsTagKey(c, text) == IsTagged(c) /\ text = Class[c].tag_field

(* The decoded object, once __post_init__ has seen it; it may refuse.       *)
PostInit(c, values) ==
    LET obj == <<"obj", c, values>>
    IN IF Class[c].post = Null THEN obj ELSE Calls(Class[c].post, obj)

(* Struct_fill_in_defaults, DataclassInfo_post_decode: what was given, else *)
(* the default; a required field that was not given is an error.            *)
FillInDefaults(c, pairs) ==
    IF \E i \in Required(c) : ~Has(pairs, Str(Fields(c)[i].key))
    THEN Failed
    ELSE PostInit(c, [i \in 1..NFields(c) |->
            LET k == Str(Fields(c)[i].key)
            IN IF Has(pairs, k) THEN ValueOf(pairs, k) ELSE Fields(c)[i].default])

(* The same by position, for named tuples and array_like Structs.           *)
FillInTrailing(c, items) ==
    IF \E i \in Required(c) : i > Len(items)
    THEN Failed
    ELSE PostInit(c, [i \in 1..NFields(c) |->
            IF i <= Len(items) THEN items[i] ELSE Fields(c)[i].default])

(***************************************************************************)
(* Texts                                                                   *)
(***************************************************************************)
(* maybe_parse_number on the text of a key.                                 *)
IsNumeral(text) == \E n \in DOMAIN Numeral : Numeral[n] = text

Number(text) == <<"int", CHOOSE n \in DOMAIN Numeral : Numeral[n] = text>>

(* What a string becomes for a type without `str': a date, or an error.     *)
FromText(text, type) ==
    IF "date" \in type.is /\ text \in DateText THEN <<"date", text>> ELSE Failed

================================================================================
