------------------------------ MODULE JsonDecoder ------------------------------
(***************************************************************************)
(* json_decode: one pass over a document that builds values of a type.     *)
(* The C functions call each other; `stack' has a frame per call, with its *)
(* local variables, and `ret' is what the last one returned.  An action is *)
(* what a function does between two reads of the document.                 *)
(*                                                                         *)
(* The functions for arrays have the same loop, as do those for objects;   *)
(* the loops are modelled once (ArrayNext .., ObjectNext ..), and what     *)
(* differs is said by one operator per function (ListLoop .., DictMember   *)
(* ..).  White space and what messages say are left out, and so is the     *)
(* bound on recursion.                                                     *)
(***************************************************************************)
EXTENDS Documents, FiniteSets

CONSTANT ValidateLoaded(_, _)   \* validate_loaded_json_value

VARIABLES
    request,    \* what is decoded: a record with the document, `doc', and its `type'
    pos,        \* input_pos, the next of them to read
    stack,
    ret,        \* what the last call returned, Null until it does
    scratch,    \* the last string with escapes that was read
    status      \* "run", "ok" or "err"

doc == request.doc

vars == <<request, pos, stack, ret, scratch, status>>

Frame(fn, type, detail) ==
    [fn |-> fn, type |-> type, detail |-> detail, class |-> Null, at |-> "next", first |-> TRUE,
     i |-> 0, start |-> 0, items |-> <<>>, key |-> Null]

Call(type) == Frame("value", type, Null)
Skip == Frame("skip", Null, Null)

(* JSONDecoder_decode: the state in which it calls json_decode.             *)
Begin ==
    /\ pos = 1
    /\ stack = <<Call(request.type)>>
    /\ ret = Null /\ scratch = Null /\ status = "run"

Top == Last(stack)
Goto(f) == Append(Front(stack), f)

(* The function on top is `fn', at that place, and the next token is there. *)
Reads(fn, at) ==
    /\ status = "run" /\ ret = Null /\ stack # <<>> /\ pos <= Len(doc)
    /\ Top.fn = fn /\ Top.at = at

(* A call of that function has returned to the one on top.                  *)
Takes(fn) == status = "run" /\ ret # Null /\ stack # <<>> /\ Top.fn = fn

Tok == doc[pos]
IsString(t) == t[1] \in {"str", "esc"}

Raise == status' = "err" /\ UNCHANGED <<pos, stack, ret>>

(* The function on top returns v after n tokens, NULL for Failed.           *)
Return(n, v) ==
    IF v = Failed THEN Raise
    ELSE ret' = v /\ stack' = Front(stack) /\ pos' = pos + n /\ UNCHANGED status

(* Goes on in the frame f, after the first n tokens.                        *)
Continue(n, f) ==
    pos' = pos + n /\ stack' = Goto(f) /\ UNCHANGED <<ret, status>>

(* The frame f calls g.                                                     *)
Calling(n, f, g) ==
    pos' = pos + n /\ stack' = Append(Goto(f), g) /\ UNCHANGED <<ret, status>>

(* The same with the value of a call that f has taken.                      *)
Took(f) ==
    stack' = Goto(f) /\ ret' = Null /\ UNCHANGED <<pos, status>>

--------------------------------------------------------------------------------
(***************************************************************************)
(* Strings.  A view points into the input or, if the string has escapes,   *)
(* into the scratch buffer, which the next such string overwrites.         *)
(***************************************************************************)
View == IF Tok[1] = "esc" THEN <<"scratch">> ELSE <<"input", pos>>

(* json_decode_string_view_copy: what the scratch buffer holds afterwards.  *)
ViewCopied == IF Tok[1] = "esc" THEN Tok[2] ELSE scratch

TextIn(view, buffer) == IF view[1] = "scratch" THEN buffer ELSE doc[view[2]][2]

(* The text of the string just read, used at once.                          *)
TextRead == TextIn(View, ViewCopied)

Accepts(type, kind) == type.is \cap {"any", kind} # {}

(* json_decode_str_fast, json_decode_string                                 *)
StringAs(text, type) == IF Accepts(type, "str") THEN Str(text) ELSE FromText(text, type)

(* json_decode_dict_key: of a key's text, `load' first.                     *)
KeyOf(text, type) ==
    IF type.load \notin {Null, NoLoad} THEN Calls(type.load, Str(text))
    ELSE IF Accepts(type, "str") THEN Str(text)
    ELSE IF "int" \in type.is /\ IsNumeral(text) THEN Number(text)
    ELSE FromText(text, type)

--------------------------------------------------------------------------------
(***************************************************************************)
(* json_decode                                                             *)
(***************************************************************************)
(* A type with a Serializer is decoded as Any first.                        *)
DecodeRaw ==
    /\ Reads("value", "next") /\ Top.type.load # Null
    /\ Calling(0, [Top EXCEPT !.fn = "load"], Call(TypeAny))
    /\ UNCHANGED <<request, scratch>>

(* Then `load', if any, is called and the value is validated; null is not   *)
(* loaded if the type has None.                                             *)
ApplyLoad ==
    /\ Takes("load")
    /\ LET v == LoadOf(Top.type, ret) IN
       Return(0, IF ret = <<"none">> /\ "none" \in Top.type.is THEN ret
                 ELSE IF v = Failed THEN Failed
                 ELSE ValidateLoaded(v, Top.type))
    /\ UNCHANGED <<request, scratch>>

Decodes == Reads("value", "next") /\ Top.type.load = Null

DecodeNone ==
    /\ Decodes /\ Tok = <<"none">>
    /\ Return(1, IF Accepts(Top.type, "none") THEN Tok ELSE Failed)
    /\ UNCHANGED <<request, scratch>>

DecodeBool ==
    /\ Decodes /\ Tok = <<"bool">>
    /\ Return(1, IF Accepts(Top.type, "bool") THEN Tok ELSE Failed)
    /\ UNCHANGED <<request, scratch>>

DecodeNumber ==
    /\ Decodes /\ Tok[1] = "int"
    /\ Return(1, IF Accepts(Top.type, "int") THEN Tok ELSE Failed)
    /\ UNCHANGED <<request, scratch>>

DecodeString ==
    /\ Decodes /\ IsString(Tok)
    /\ Return(1, StringAs(TextRead, Top.type))
    /\ scratch' = ViewCopied /\ UNCHANGED request

(* Anything else cannot begin a value; the end is a truncated document.     *)
NotAValue ==
    /\ Decodes /\ Tok[1] \in {"]", "}", ",", ":", "eof"}
    /\ Raise /\ UNCHANGED <<request, scratch>>

--------------------------------------------------------------------------------
(***************************************************************************)
(* Tags: the first item of an array, or the value of the tag field.        *)
(***************************************************************************)
TagRead == IF IsString(Tok) THEN Str(TextRead) ELSE Tok

(* The class with the tag v, or Null: json_ensure_tag_matches if the class  *)
(* is known, otherwise json_decode_tag_and_lookup_type.                     *)
Tagged(f, v) ==
    IF f.class # Null THEN IF v = Class[f.class].tag THEN f.class ELSE Null
    ELSE IF v \in DOMAIN f.detail.of THEN f.detail.of[v] ELSE Null

--------------------------------------------------------------------------------
(***************************************************************************)
(* Arrays                                                                  *)
(***************************************************************************)
(* json_decode_struct_array and .._array_union read the tag first, the      *)
(* others start with the first item.                                        *)
BeginArray(a) ==
    [Frame("array", Null, a) EXCEPT
        !.class = a.class,
        !.at = IF a.kind = "union" \/ (a.kind = "struct" /\ IsTagged(a.class)) THEN "tag" ELSE "next"]

DecodeArray ==
    /\ Decodes /\ Tok = <<"[">>
    /\ IF Accepts(Top.type, "any") THEN Continue(1, BeginArray(Array("list", <<TypeAny>>, 0).array))
       ELSE IF Top.type.array = Null THEN Raise
       ELSE Continue(1, BeginArray(Top.type.array))
    /\ UNCHANGED <<request, scratch>>

(* An array without a tag is too short; the rest is read as the class says. *)
ArrayTag ==
    /\ Reads("array", "tag")
    /\ LET c == Tagged(Top, TagRead) IN
       IF c = Null THEN Raise
       ELSE Continue(1, [Top EXCEPT !.class = c, !.at = "next", !.first = FALSE])
    /\ scratch' = (IF IsString(Tok) THEN ViewCopied ELSE scratch)
    /\ UNCHANGED request

(* What the loops do differently: the call for the next item, or Null if    *)
(* there are too many; and the value at the end.                            *)
AllAlike(f) == Call(f.detail.items[1])

FixTupleItem(f) ==
    IF f.i >= Len(f.detail.items) THEN Null ELSE Call(f.detail.items[f.i + 1])

NamedTupleItem(f) ==
    IF f.i >= NFields(f.class) THEN Null ELSE Call(Fields(f.class)[f.i + 1].type)

StructArrayItem(f) ==
    IF f.i < NFields(f.class) THEN Call(Fields(f.class)[f.i + 1].type)
    ELSE IF Class[f.class].forbid THEN Null ELSE Skip

NextItem(f) ==
    CASE f.detail.kind \in {"list", "set", "vartuple"} -> AllAlike(f)
      [] f.detail.kind = "fixtuple" -> FixTupleItem(f)
      [] f.detail.kind = "namedtuple" -> NamedTupleItem(f)
      [] f.detail.kind \in {"struct", "union"} -> StructArrayItem(f)
      [] f.detail.kind = "skip" -> Skip

(* A list's length is checked when it is complete, a set's when what it     *)
(* holds twice has been dropped.                                            *)
ListEnd(f) == IF Len(f.items) < f.detail.min THEN Failed ELSE <<"list", f.items>>

SetEnd(f) ==
    LET s == ToSet(f.items)
    IN IF Cardinality(s) < f.detail.min THEN Failed ELSE <<"set", s>>

VarTupleEnd(f) == IF ListEnd(f) = Failed THEN Failed ELSE <<"tuple", f.items>>

FixTupleEnd(f) == IF f.i < Len(f.detail.items) THEN Failed ELSE <<"tuple", f.items>>

ArrayEnd(f) ==
    CASE f.detail.kind = "list" -> ListEnd(f)
      [] f.detail.kind = "set" -> SetEnd(f)
      [] f.detail.kind = "vartuple" -> VarTupleEnd(f)
      [] f.detail.kind = "fixtuple" -> FixTupleEnd(f)
      [] f.detail.kind \in {"namedtuple", "struct", "union"} -> FillInTrailing(f.class, f.items)
      [] f.detail.kind = "skip" -> <<"none">>

(* The loop itself: the end, a comma, or the first item.                    *)
ArrayNext ==
    /\ Reads("array", "next")
    /\ IF Tok = <<"]">> THEN Return(1, ArrayEnd(Top))
       ELSE IF Tok = <<",">> /\ ~Top.first THEN Continue(1, [Top EXCEPT !.at = "item"])
       ELSE IF Top.first THEN Continue(0, [Top EXCEPT !.at = "item", !.first = FALSE])
       ELSE Raise
    /\ UNCHANGED <<request, scratch>>

(* A trailing comma is refused, and so is an item too many.                 *)
ArrayItem ==
    /\ Reads("array", "item")
    /\ LET g == NextItem(Top) IN
       IF Tok = <<"]">> \/ g = Null THEN Raise
       ELSE Calling(0, [Top EXCEPT !.at = "next"], g)
    /\ UNCHANGED <<request, scratch>>

(* What was skipped is dropped; a set refuses what cannot be hashed.        *)
ArrayTake ==
    /\ Takes("array")
    /\ IF NextItem(Top) = Skip THEN Took(Top)
       ELSE IF Top.detail.kind = "set" /\ ~Hashable(ret) THEN Raise
       ELSE Took([Top EXCEPT !.items = Append(@, ret), !.i = @ + 1])
    /\ UNCHANGED <<request, scratch>>

--------------------------------------------------------------------------------
(***************************************************************************)
(* Objects                                                                 *)
(***************************************************************************)
(* A union remembers where its members start, and knows its class (f.class) *)
(* only when it has found the tag.                                          *)
BeginObject(o) ==
    [Frame("object", Null, o) EXCEPT !.class = o.class, !.start = pos + 1]

DecodeObject ==
    /\ Decodes /\ Tok = <<"{">>
    /\ IF Accepts(Top.type, "any") THEN Continue(1, BeginObject(Dict(TypeAny, TypeAny).object))
       ELSE IF Top.type.object = Null THEN Raise
       ELSE Continue(1, BeginObject(Top.type.object))
    /\ UNCHANGED <<request, scratch>>

Seeking(f) == f.detail.kind = "union" /\ f.class = Null

(* At the closing brace.                                                    *)
DictEnd(f) == <<"dict", f.items>>

TypedDictEnd(f) == IF f.i < Cardinality(Required(f.class)) THEN Failed ELSE <<"dict", f.items>>

ObjectEnd(f) ==
    CASE f.detail.kind = "dict" -> DictEnd(f)
      [] f.detail.kind = "typeddict" -> TypedDictEnd(f)
      [] f.detail.kind = "skip" -> <<"none">>
      [] Seeking(f) -> Failed
      [] OTHER -> FillInDefaults(f.class, f.items)

ObjectNext ==
    /\ Reads("object", "next")
    /\ IF Tok = <<"}">> THEN Return(1, ObjectEnd(Top))
       ELSE IF Tok = <<",">> /\ ~Top.first THEN Continue(1, [Top EXCEPT !.at = "key"])
       ELSE IF Top.first THEN Continue(0, [Top EXCEPT !.at = "key"])
       ELSE Raise
    /\ UNCHANGED <<request, scratch>>

(* A dict makes its key at once; the others keep a view until they have     *)
(* looked it up; what is skipped is not even copied.                        *)
ObjectKey ==
    /\ Reads("object", "key")
    /\ LET k == CASE Top.detail.kind = "dict" -> KeyOf(TextRead, Top.detail.key)
                  [] Top.detail.kind = "skip" -> Null
                  [] OTHER -> View
       IN IF ~IsString(Tok) THEN Raise /\ UNCHANGED scratch
          ELSE /\ IF k = Failed THEN Raise
                  ELSE Continue(1, [Top EXCEPT !.at = "colon", !.key = k])
               /\ scratch' = (IF Top.detail.kind = "skip" THEN scratch ELSE ViewCopied)
    /\ UNCHANGED request

(* What each loop does with a member when it has read its key: the call it  *)
(* makes, with the key of the value, or it reads a tag, or it fails.        *)
Decode(type, key) == [at |-> "next", does |-> Call(type), key |-> key]
SkipIt == [at |-> "next", does |-> Skip, key |-> Null]
ReadTag == [at |-> "tag", does |-> Null, key |-> Null]
Refuse == [at |-> "fail", does |-> Null, key |-> Null]

DictMember(f) == Decode(f.detail.val, f.key)

FieldMember(f, text) == Decode(Fields(f.class)[FieldOf(f.class, text)].type, Str(text))

TypedDictMember(f, text) ==
    IF IsField(f.class, text) THEN FieldMember(f, text) ELSE SkipIt

DataclassMember(f, text) ==
    IF IsField(f.class, text) THEN FieldMember(f, text) ELSE SkipIt

StructMember(f, text) ==
    IF IsField(f.class, text) THEN FieldMember(f, text)
    ELSE IF IsTagKey(f.class, text) THEN ReadTag
    ELSE IF Class[f.class].forbid THEN Refuse
    ELSE SkipIt

UnionMember(f, text) == IF text = f.detail.tag_field THEN ReadTag ELSE SkipIt

Member(f) ==
    LET text == TextIn(f.key, scratch)
    IN CASE f.detail.kind = "dict" -> DictMember(f)
         [] f.detail.kind = "typeddict" -> TypedDictMember(f, text)
         [] f.detail.kind = "dataclass" -> DataclassMember(f, text)
         [] f.detail.kind = "skip" -> SkipIt
         [] Seeking(f) -> UnionMember(f, text)
         [] OTHER -> StructMember(f, text)

ObjectColon ==
    /\ Reads("object", "colon")
    /\ LET m == Member(Top) IN
       IF Tok # <<":">> \/ m.at = "fail" THEN Raise
       ELSE IF m.at = "tag" THEN Continue(1, [Top EXCEPT !.at = "tag"])
       ELSE Calling(1, [Top EXCEPT !.at = "next", !.first = FALSE, !.key = m.key], m.does)
    /\ UNCHANGED <<request, scratch>>

(* When a union has found its tag, its members are read as those of the     *)
(* class: from the first one, unless the tag was the first.                 *)

(* A possible bug: the members before the tag are left behind.              *)
FoundHere(f, c) == Continue(1, [f EXCEPT !.class = c, !.at = "next", !.first = FALSE])

(* A possible bug: it goes back before it has kept the class.               *)
FoundTooLate(f, c) ==
    pos' = f.start /\ stack' = Goto([f EXCEPT !.at = "next", !.first = TRUE]) /\ UNCHANGED <<ret, status>>

Found(f, c) ==
    IF ~Seeking(f) \/ f.first THEN Continue(1, [f EXCEPT !.class = c, !.at = "next", !.first = FALSE])
    ELSE /\ pos' = f.start
         /\ stack' = Goto([f EXCEPT !.class = c, !.at = "next", !.first = TRUE])
         /\ UNCHANGED <<ret, status>>

ObjectTag ==
    /\ Reads("object", "tag")
    /\ LET c == Tagged(Top, TagRead)
       IN IF c = Null THEN Raise ELSE Found(Top, c)
    /\ scratch' = (IF IsString(Tok) THEN ViewCopied ELSE scratch)
    /\ UNCHANGED request

(* A typed dict counts the required keys that were not there yet.           *)
Counted(f) ==
    IF f.detail.kind = "typeddict" /\ ~Has(f.items, f.key)
       /\ \E i \in Required(f.class) : Str(Fields(f.class)[i].key) = f.key
    THEN f.i + 1 ELSE f.i

ObjectTake ==
    /\ Takes("object")
    /\ IF Top.key = Null THEN Took(Top)
       ELSE Took([Top EXCEPT !.items = Put(@, Top.key, ret), !.key = Null, !.i = Counted(Top)])
    /\ UNCHANGED <<request, scratch>>

--------------------------------------------------------------------------------
(***************************************************************************)
(* Values nobody wants: json_skip.  Their syntax is checked.               *)
(***************************************************************************)
SkippedArray == [kind |-> "skip", items |-> <<>>, min |-> 0, class |-> Null, of |-> <<>>]
SkippedObject == [Dict(Null, Null).object EXCEPT !.kind = "skip"]

SkipValue ==
    /\ Reads("skip", "next")
    /\ CASE Tok[1] \in {"none", "bool", "int", "str", "esc"} -> Return(1, <<"none">>)
         [] Tok = <<"[">> -> Continue(1, BeginArray(SkippedArray))
         [] Tok = <<"{">> -> Continue(1, BeginObject(SkippedObject))
         [] OTHER -> Raise
    /\ UNCHANGED <<request, scratch>>

(* JSONDecoder_decode, json_decode_common: nothing may follow the value.    *)
Finish ==
    /\ status = "run" /\ stack = <<>> /\ pos <= Len(doc)
    /\ status' = IF Tok = <<"eof">> THEN "ok" ELSE "err"
    /\ UNCHANGED <<request, pos, stack, ret, scratch>>

Step ==
    \/ DecodeRaw \/ ApplyLoad \/ DecodeNone \/ DecodeBool \/ DecodeNumber \/ DecodeString \/ NotAValue
    \/ DecodeArray \/ ArrayTag \/ ArrayNext \/ ArrayItem \/ ArrayTake
    \/ DecodeObject \/ ObjectNext \/ ObjectKey \/ ObjectColon \/ ObjectTag \/ ObjectTake
    \/ SkipValue \/ Finish

================================================================================
