-------------------------------- MODULE Encoder --------------------------------
(***************************************************************************)
(* json_encode writes a value as a document, dump_obj converts it to values *)
(* of builtin types.  Both consult the dump callbacks of Serializers        *)
(* (`codecs', per field of a Struct) while they walk the value; both can    *)
(* sort keys.  Nothing else runs meanwhile, so they are operators; the      *)
(* encoder's state, which its functions update and restore, is threaded.    *)
(***************************************************************************)
EXTENDS Documents, FiniteSets

CONSTANTS
    NeedsEscape,    \* the texts that cannot be written as they stand
    Bytes,          \* per text, its UTF-8
    CUTOFF          \* ASSOCLIST_SORT_CUTOFF

RECURSIVE Encode(_, _), EncodeDictKey(_, _), Dump(_, _, _, _), SortInner(_, _, _), PartitionFrom(_, _, _, _)

(* EncoderState: what was written, the codecs in force, sort_keys.          *)
EncoderState(sort_keys) == [out |-> <<>>, codecs |-> Null, ok |-> TRUE, sort_keys |-> sort_keys]

Write(s, token) == [s EXCEPT !.out = Append(@, token)]
Fails(s) == [s EXCEPT !.ok = FALSE]

(* Every item is followed by a comma; the bracket overwrites the last.      *)
Overwrite(s, bracket) == [s EXCEPT !.out = Append(Front(@), bracket)]

StrToken(text) == IF text \in NeedsEscape THEN <<"esc", text>> ELSE <<"str", text>>

--------------------------------------------------------------------------------
(***************************************************************************)
(* AssocList: the items of a dict, sorted by the bytes of their keys.       *)
(***************************************************************************)
(* memcmp, then the shorter one first.                                      *)
BytesLess(a, b) ==
    \/ \E i \in DOMAIN a \cap DOMAIN b : a[i] < b[i] /\ \A j \in 1..i - 1 : a[j] = b[j]
    \/ Len(a) < Len(b) /\ \A i \in DOMAIN a : a[i] = b[i]

KeyLess(p, q) == BytesLess(Bytes[p[1][2]], Bytes[q[1][2]])

Swap(list, i, j) == [list EXCEPT ![i] = list[j], ![j] = list[i]]

(* One round of the partition: the scans stop at items on the wrong side.   *)
PartitionFrom(list, i, j, pivot) ==
    LET j2 == CHOOSE k \in 1..j - 1 :
                ~KeyLess(pivot, list[k]) /\ \A m \in k + 1..j - 1 : KeyLess(pivot, list[m])
        i2 == CHOOSE k \in i + 1..Len(list) :
                ~KeyLess(list[k], pivot) /\ \A m \in i + 1..k - 1 : KeyLess(list[m], pivot)
    IN IF i2 < j2 THEN PartitionFrom(Swap(list, i2, j2), i2, j2, pivot)
       ELSE [list |-> list, at |-> j2]

Median(p, q, r) ==
    IF KeyLess(p, q) THEN IF KeyLess(r, p) THEN p ELSE IF KeyLess(q, r) THEN q ELSE r
    ELSE IF KeyLess(r, q) THEN q ELSE IF KeyLess(p, r) THEN p ELSE r

(* Parts of up to CUTOFF + 1 items are left as they are.                    *)
SortInner(list, lo, hi) ==
    IF lo + CUTOFF >= hi THEN list
    ELSE LET pivot == Median(list[lo], list[hi], list[(lo + hi) \div 2])
             p == PartitionFrom(list, lo - 1, hi + 1, pivot)
         IN SortInner(SortInner(p.list, lo, p.at), p.at + 1, hi)

(* A possible bug: an item is moved by one place at most.                   *)
InsertNear(sorted, item) ==
    IF sorted # <<>> /\ KeyLess(item, Last(sorted)) THEN InsertAt(sorted, Len(sorted), item)
    ELSE Append(sorted, item)

Insert(sorted, item) ==
    LET n == Cardinality({k \in DOMAIN sorted : \A m \in k..Len(sorted) : KeyLess(item, sorted[m])})
    IN InsertAt(sorted, Len(sorted) - n + 1, item)

AssocListSort(list) ==
    FoldLeft(Insert, <<>>, IF Len(list) > CUTOFF THEN SortInner(list, 1, Len(list)) ELSE list)

AllStr(pairs) == \A i \in DOMAIN pairs : pairs[i][1][1] = "str"

(* PyList_Sort, for what has an order.                                      *)
Comparable(vs) ==
    Len(vs) < 2 \/ \E kind \in {"int", "str", "date"} : \A i \in DOMAIN vs : vs[i][1] = kind

ValueLess(v, w) == IF v[1] = "int" THEN v[2] < w[2] ELSE BytesLess(Bytes[v[2]], Bytes[w[2]])

ListSort(vs) == SortSeq(vs, ValueLess)

--------------------------------------------------------------------------------
(***************************************************************************)
(* Codecs                                                                  *)
(***************************************************************************)
TypeOf(v) == IF v[1] = "obj" THEN v[2] ELSE v[1]

Mro(v) == IF v[1] = "obj" THEN Class[v[2]].mro ELSE <<v[1]>>

(* codecs_lookup: the first base class with one.                            *)
CodecsLookup(codecs, v) ==
    LET known == IF codecs = Null THEN <<>> ELSE SelectSeq(Mro(v), LAMBDA t : t \in DOMAIN codecs)
    IN IF known = <<>> THEN Null ELSE codecs[Head(known)]

HasCodecs(c) == Class[c].codecs # Null

IsStruct(v) == v[1] = "obj" /\ Class[v[2]].kind = "struct"

IsDataclass(v) == v[1] = "obj" /\ Class[v[2]].kind = "dataclass"

(* A default that is the value itself, or what its factory makes.           *)
IsOmittedIfList(c, i, v) ==                 \* a possible bug: whatever its size
    Class[c].omit_defaults /\ v[1] = "list" /\ Fields(c)[i].default = <<"list", <<>>>>

IsOmitted(c, i, v) == Class[c].omit_defaults /\ v = Fields(c)[i].default

--------------------------------------------------------------------------------
(***************************************************************************)
(* json_encode                                                             *)
(***************************************************************************)
(* `dump' is called; if what it returns has the same type, codecs are off   *)
(* until that is written.                                                   *)
EncodeDumped(s, v, dump, is_key) ==
    LET temp == Calls(dump, v)
        t == IF TypeOf(temp) = TypeOf(v) THEN [s EXCEPT !.codecs = Null] ELSE s
    IN IF temp = Failed THEN Fails(s)
       ELSE [IF is_key THEN EncodeDictKey(t, temp) ELSE Encode(t, temp) EXCEPT !.codecs = s.codecs]

EncodeSequence(s, items) ==
    IF items = <<>> THEN Write(Write(s, <<"[">>), <<"]">>)
    ELSE LET t == FoldLeft(LAMBDA u, v : IF u.ok THEN Write(Encode(u, v), <<",">>) ELSE u,
                           Write(s, <<"[">>), items)
         IN IF t.ok THEN Overwrite(t, <<"]">>) ELSE t

EncodeSet(s, set) ==
    LET items == SetToSeq(set) IN
    IF ~s.sort_keys THEN EncodeSequence(s, items)
    ELSE IF ~Comparable(items) THEN Fails(s)
    ELSE EncodeSequence(s, ListSort(items))

EncodeNativeKey(s, k) ==
    CASE k[1] = "str" -> Write(s, StrToken(k[2]))
      [] k[1] = "int" -> Write(s, <<"str", Numeral[k[2]]>>)
      [] k[1] = "date" -> Write(s, <<"str", k[2]>>)
      [] OTHER -> Fails(s)

EncodeDictKey(s, k) ==
    LET dump == CodecsLookup(s.codecs, k) IN
    IF k[1] = "str" \/ dump = Null THEN EncodeNativeKey(s, k)
    ELSE EncodeDumped(s, k, dump, TRUE)

(* A member, and the brace at the end: over the last comma if there is one. *)
EncodeMember(s, k, v, native) ==
    LET t == IF native THEN EncodeNativeKey(s, k) ELSE EncodeDictKey(s, k)
    IN IF s.ok THEN Write(Encode(Write(t, <<":">>), v), <<",">>) ELSE s

CloseObject(s, t) ==
    IF ~t.ok THEN t
    ELSE IF Len(t.out) = Len(s.out) + 1 THEN Write(t, <<"}">>)
    ELSE Overwrite(t, <<"}">>)

EncodePairs(s, pairs, native) ==
    CloseObject(s, FoldLeft(LAMBDA t, p : EncodeMember(t, p[1], p[2], native), Write(s, <<"{">>), pairs))

(* Sorting takes keys of type str only.                                     *)
EncodeAssocList(s, pairs) ==
    IF ~AllStr(pairs) THEN Fails(s) ELSE EncodePairs(s, AssocListSort(pairs), TRUE)

EncodeDict(s, pairs) ==
    IF s.sort_keys THEN EncodeAssocList(s, pairs) ELSE EncodePairs(s, pairs, FALSE)

FieldKey(c, i) == <<"str", Fields(c)[i].key>>

EncodeDataclass(s, c, values) ==
    EncodePairs(s, [i \in DOMAIN values |-> <<FieldKey(c, i), values[i]>>], TRUE)

(* A field's own codecs are in force while it is written; a class that has  *)
(* none leaves those of the field around it.                                *)

(* A possible bug: they stay in force afterwards.                           *)
EncodeFieldAndLeave(s, c, i, v) ==
    Encode(IF HasCodecs(c) THEN [s EXCEPT !.codecs = Class[c].codecs[i]] ELSE s, v)

EncodeField(s, c, i, v) ==
    IF ~HasCodecs(c) THEN Encode(s, v)
    ELSE [Encode([s EXCEPT !.codecs = Class[c].codecs[i]], v) EXCEPT !.codecs = s.codecs]

EncodeStructTag(s, c) ==
    IF Class[c].tag[1] = "str" THEN Write(s, StrToken(Class[c].tag[2])) ELSE Write(s, Class[c].tag)

EncodeStructObject(s, c, values) ==
    LET open == Write(s, <<"{">>)
        tagged == IF ~IsTagged(c) THEN open
                  ELSE Write(EncodeStructTag(Write(Write(open, <<"str", Class[c].tag_field>>), <<":">>), c), <<",">>)
        Field(u, i) ==
            IF ~u.ok \/ IsOmitted(c, i, values[i]) THEN u
            ELSE Write(EncodeField(Write(Write(u, FieldKey(c, i)), <<":">>), c, i, values[i]), <<",">>)
    IN CloseObject(s, FoldLeft(Field, tagged, [i \in DOMAIN values |-> i]))

EncodeStructArray(s, c, values) ==
    LET open == Write(s, <<"[">>)
        tagged == IF IsTagged(c) THEN Write(EncodeStructTag(open, c), <<",">>) ELSE open
        Field(u, i) == IF u.ok THEN Write(EncodeField(u, c, i, values[i]), <<",">>) ELSE u
        t == FoldLeft(Field, tagged, [i \in DOMAIN values |-> i])
    IN IF ~t.ok THEN t
       ELSE IF t = open THEN Write(t, <<"]">>)
       ELSE Overwrite(t, <<"]">>)

EncodeStruct(s, c, values) ==
    IF Class[c].array_like THEN EncodeStructArray(s, c, values) ELSE EncodeStructObject(s, c, values)

(* json_encode_uncommon: only what ends up here has a codec.                *)
EncodeUncommon(s, v) ==
    LET dump == CodecsLookup(s.codecs, v) IN
    IF dump # Null THEN EncodeDumped(s, v, dump, FALSE)
    ELSE CASE v[1] = "tuple" -> EncodeSequence(s, v[2])
           [] v[1] = "date" -> Write(s, <<"str", v[2]>>)
           [] v[1] = "set" -> EncodeSet(s, v[2])
           [] IsDataclass(v) -> EncodeDataclass(s, v[2], v[3])
           [] OTHER -> EncodeSequence(s, v[3])

Encode(s, v) ==
    CASE ~s.ok -> s
      [] v[1] \in {"none", "bool", "int"} -> Write(s, v)
      [] v[1] = "str" -> Write(s, StrToken(v[2]))
      [] v[1] = "list" -> EncodeSequence(s, v[2])
      [] v[1] = "dict" -> EncodeDict(s, v[2])
      [] IsStruct(v) -> EncodeStruct(s, v[2], v[3])
      [] OTHER -> EncodeUncommon(s, v)

--------------------------------------------------------------------------------
(***************************************************************************)
(* dump_obj                                                                *)
(***************************************************************************)
(* The options, str_keys and sort_keys, are in o; is_key makes tuples of    *)
(* what would be lists.                                                     *)
AnyFails(vs) == \E i \in DOMAIN vs : vs[i] = Failed

Sequence(kind, vs) == IF AnyFails(vs) THEN Failed ELSE <<kind, vs>>

ListOrTuple(is_key) == IF is_key THEN "tuple" ELSE "list"

DumpList(o, items, codecs) ==
    Sequence("list", [i \in DOMAIN items |-> Dump(o, items[i], codecs, FALSE)])

DumpTuple(o, items, codecs, is_key) ==
    Sequence("tuple", [i \in DOMAIN items |-> Dump(o, items[i], codecs, is_key)])

DumpSet(o, set, codecs, is_key) ==
    LET items == SetToSeq(set)
        sorted == IF o.sort_keys THEN ListSort(items) ELSE items
    IN IF o.sort_keys /\ ~Comparable(items) THEN Failed
       ELSE Sequence(ListOrTuple(is_key), [i \in DOMAIN sorted |-> Dump(o, sorted[i], codecs, is_key)])

(* With str_keys a number becomes its text, and nothing but texts is left.  *)
DumpKey(o, k, codecs) ==
    LET new == Dump(o, k, codecs, TRUE) IN
    IF new = Failed \/ ~Hashable(new) THEN Failed
    ELSE IF ~o.str_keys \/ new[1] = "str" THEN new
    ELSE IF new[1] = "int" THEN Str(Numeral[new[2]])
    ELSE Failed

(* sort_dict_inplace                                                        *)
SortDict(pairs) ==
    LET keys == ListSort([i \in DOMAIN pairs |-> pairs[i][1]])
    IN [i \in DOMAIN keys |-> <<keys[i], ValueOf(pairs, keys[i])>>]

DumpDict(o, pairs, codecs) ==
    LET ks == [i \in DOMAIN pairs |-> DumpKey(o, pairs[i][1], codecs)]
        vs == [i \in DOMAIN pairs |-> Dump(o, pairs[i][2], codecs, FALSE)]
        out == FoldLeft(LAMBDA d, i : Put(d, ks[i], vs[i]), <<>>, [i \in DOMAIN pairs |-> i])
    IN IF AnyFails(ks) \/ AnyFails(vs) THEN Failed
       ELSE IF ~o.sort_keys THEN <<"dict", out>>
       ELSE IF ~Comparable([i \in DOMAIN out |-> out[i][1]]) THEN Failed
       ELSE <<"dict", SortDict(out)>>

DumpField(o, c, i, v, codecs, is_key) ==
    Dump(o, v, IF HasCodecs(c) THEN Class[c].codecs[i] ELSE codecs, is_key)

(* An array_like Struct as a key is a tuple; other Structs are dicts.       *)
DumpStruct(o, c, values, codecs, is_key) ==
    LET key == is_key /\ Class[c].array_like
        vs == [i \in DOMAIN values |-> DumpField(o, c, i, values[i], codecs, key)]
        tag == IF IsTagged(c) THEN <<Class[c].tag>> ELSE <<>>
        written == SelectSeq([i \in DOMAIN values |-> i], LAMBDA i : ~IsOmitted(c, i, values[i]))
        pairs == [k \in DOMAIN written |-> <<FieldKey(c, written[k]), vs[written[k]]>>]
        tag_pair == IF IsTagged(c) THEN <<<<Str(Class[c].tag_field), Class[c].tag>>>> ELSE <<>>
    IN IF Class[c].array_like THEN Sequence(ListOrTuple(is_key), tag \o vs)
       ELSE IF \E i \in DOMAIN pairs : pairs[i][2] = Failed THEN Failed
       ELSE <<"dict", tag_pair \o pairs>>

DumpDataclass(o, c, values, codecs) ==
    LET vs == [i \in DOMAIN values |-> Dump(o, values[i], codecs, FALSE)]
    IN IF AnyFails(vs) THEN Failed
       ELSE <<"dict", [i \in DOMAIN values |-> <<FieldKey(c, i), vs[i]>>]>>

DumpNative(o, v, codecs, is_key) ==
    CASE v[1] = "list" -> DumpList(o, v[2], codecs)
      [] v[1] = "tuple" -> DumpTuple(o, v[2], codecs, is_key)
      [] v[1] = "dict" -> DumpDict(o, v[2], codecs)
      [] v[1] = "date" -> Str(v[2])
      [] v[1] = "set" -> DumpSet(o, v[2], codecs, is_key)
      [] IsStruct(v) -> DumpStruct(o, v[2], v[3], codecs, is_key)
      [] IsDataclass(v) -> DumpDataclass(o, v[2], v[3], codecs)
      [] OTHER -> DumpTuple(o, v[3], codecs, is_key)

Dump(o, v, codecs, is_key) ==
    LET dump == CodecsLookup(codecs, v)
        temp == Calls(dump, v)
    IN IF v[1] \in {"none", "bool", "int", "str"} THEN v
       ELSE IF dump = Null THEN DumpNative(o, v, codecs, is_key)
       ELSE IF temp = Failed THEN Failed
       ELSE Dump(o, temp, IF TypeOf(temp) = TypeOf(v) THEN Null ELSE codecs, is_key)

================================================================================
