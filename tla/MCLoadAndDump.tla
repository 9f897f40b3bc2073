----------------------------- MODULE MCLoadAndDump -----------------------------
(***************************************************************************)
(* Classes of every kind, callbacks that convert, keep the type or fail,   *)
(* and the documents and values of LoadAndDump to check.                   *)
(***************************************************************************)
EXTENDS LoadAndDump

MCNumeral == 1 :> "1" @@ 2 :> "2" @@ 3 :> "3"
MCDateText == {"day1", "day2", "day3"}
MCNeedsEscape == {"q"}
MCBytes ==
    "" :> <<>> @@ "1" :> <<49>> @@ "2" :> <<50>> @@ "3" :> <<51>> @@ "a" :> <<97>> @@ "ab" :> <<97, 98>> @@ "b" :> <<98>>
    @@ "q" :> <<34>> @@ "x" :> <<120>> @@ "y" :> <<121>> @@ "e" :> <<195, 169>> @@ "day1" :> <<100, 1>> @@ "day2" :> <<100, 2>> @@ "day3" :> <<100, 3>>

int(n) == <<"int", n>>
date(text) == <<"date", text>>
none == <<"none">>

Obj(c, values) == <<"obj", c, values>>
NOf(n) == Obj("N", <<int(n), none>>)
DOf(n) == Obj("D", <<int(n), Str("a")>>)

--------------------------------------------------------------------------------
(* Callbacks.  `shift' keeps the type but for day3; `iso' fails for it.     *)
Callback(f) ==
    CASE f = "iso" -> date("day1") :> int(1) @@ date("day2") :> int(2)
      [] f = "from" -> int(1) :> date("day1") @@ int(2) :> date("day2")
      [] f = "shift" -> date("day1") :> date("day2") @@ date("day2") :> date("day1") @@ date("day3") :> int(3)
      [] f = "unshift" -> Str("day2") :> date("day1") @@ Str("day1") :> date("day2") @@ int(3) :> date("day3")
      [] f = "same" -> date("day1") :> date("day1") @@ date("day2") :> date("day2")
      [] f = "flat" -> DOf(1) :> int(1) @@ DOf(3) :> int(3)
      [] f = "unflat" -> int(1) :> DOf(1) @@ int(3) :> DOf(3)
      [] f = "pack" -> NOf(1) :> <<"list", <<int(1), none>>>>
      [] f = "unpack" -> <<"list", <<int(1), none>>>> :> NOf(1) @@ int(1) :> <<"list", <<int(1)>>>>
      [] f = "unsingle" -> int(1) :> <<"set", {int(1)}>> @@ int(2) :> <<"set", {date("day1")}>>

MCCalls(f, v) ==
    CASE f = "keep" -> v
      [] f = "not2" -> IF v[3][1] = int(2) THEN Failed ELSE v
      [] OTHER -> IF v \in DOMAIN Callback(f) THEN Callback(f)[v] ELSE Failed

--------------------------------------------------------------------------------
(* Types and classes                                                        *)
IntType == Scalar({"int"})
StrType == Scalar({"str"})
DateType == Scalar({"date"})
ListOf(type, min) == Array("list", <<type>>, min)
SetOf(type) == Array("set", <<type>>, 0)

Field(key, type, default) == [key |-> key, type |-> type, default |-> default]

Plain(kind, name, fields) ==
    [kind |-> kind, fields |-> fields, tag |-> Null, tag_field |-> Null, array_like |-> FALSE,
     forbid |-> FALSE, omit_defaults |-> FALSE, post |-> Null, codecs |-> Null, mro |-> <<name>>]

Codec(type, f) == type :> f

Struct(name) == ClassObject("struct", name, Null, <<>>)
Dataclass(name) == ClassObject("dataclass", name, Null, <<>>)
TypedDict(name) == ClassObject("typeddict", name, Null, <<>>)
NamedTuple(name) == ClassArray("namedtuple", name, <<>>)
StructArray(name) == ClassArray("struct", name, <<>>)
AorB == ClassObject("union", Null, "type", Str("A") :> "A" @@ Str("B") :> "B")
RorS == ClassArray("union", Null, int(1) :> "R" @@ int(2) :> "S")

XY == <<Field("x", IntType, NODEFAULT), Field("y", Optional(StrType), none)>>

MCClass ==
  LET classes ==
      "P" :> Plain("struct", "P", XY)
      @@ "A" :> [Plain("struct", "A", <<Field("x", IntType, NODEFAULT), Field("d", DateType, date("day1"))>>)
                      EXCEPT !.tag = Str("A"), !.tag_field = "type", !.post = "not2"]
      @@ "B" :> [Plain("struct", "B", <<Field("x", StrType, Str("a")), Field("l", ListOf(IntType, 0), <<"list", <<>>>>)>>)
                      EXCEPT !.tag = Str("B"), !.tag_field = "type", !.forbid = TRUE, !.omit_defaults = TRUE]
      @@ "R" :> [Plain("struct", "R", XY) EXCEPT !.tag = int(1), !.tag_field = "type", !.array_like = TRUE]
      @@ "S" :> [Plain("struct", "S", XY)
                      EXCEPT !.tag = int(2), !.tag_field = "type", !.array_like = TRUE, !.forbid = TRUE]
      @@ "Q" :> [Plain("struct", "Q", <<Field("x", IntType, int(1))>>) EXCEPT !.array_like = TRUE]
      @@ "N" :> Plain("namedtuple", "N", XY)
      @@ "D" :> [Plain("dataclass", "D", <<Field("x", IntType, NODEFAULT), Field("s", StrType, Str("a"))>>) EXCEPT !.post = "not2"]
      @@ "T" :> Plain("typeddict", "T", <<Field("x", IntType, NODEFAULT), Field("y", StrType, none)>>)
      (* Fields with codecs, next to fields without, and Structs in them.     *)
      @@ "G" :> [Plain("struct", "G", <<Field("w", Loaded(DateType, "unshift"), NODEFAULT), Field("v", DateType, NODEFAULT)>>)
                      EXCEPT !.array_like = TRUE, !.codecs = <<Codec("date", "shift"), Null>>]
      @@ "C" :> [Plain("struct", "C",
                      <<Field("d", Loaded(Optional(DateType), "from"), NODEFAULT),
                        Field("e", DateType, NODEFAULT),
                        Field("f", ListOf(Loaded(DateType, "unshift"), 0), NODEFAULT),
                        Field("g", Array("fixtuple", <<StructArray("G"), Loaded(DateType, "from")>>, 0), NODEFAULT),
                        Field("h", Dict(DateType, DateType), NODEFAULT)>>)
                      EXCEPT !.codecs = <<Codec("date", "iso"), Null, Codec("date", "shift"),
                                          Codec("date", "iso"), Codec("date", "same")>>]
      @@ "J" :> [Plain("struct", "J",
                      <<Field("q", Loaded(Dataclass("D"), "unflat"), NODEFAULT),
                        Field("r", Loaded(NamedTuple("N"), "unpack"), NODEFAULT)>>)
                      EXCEPT !.codecs = <<Codec("D", "flat"), Codec("N", "pack")>>]
      @@ "L" :> Plain("struct", "L", <<Field("d", DateType, NODEFAULT)>>)
      @@ "K" :> [Plain("struct", "K", <<Field("p", Struct("L"), NODEFAULT), Field("h", Dict(DateType, IntType), NODEFAULT)>>)
                      EXCEPT !.codecs = <<Codec("date", "shift"), Codec("date", "iso")>>]
  IN classes

MCValidateLoaded(v, type) == LET loaded == ValidateLoadedValue(v, type) IN loaded

--------------------------------------------------------------------------------
(* Documents                                                                *)
Lengths(n) == UNION {[1..k -> n] : k \in 0..3}

Comma(parts) ==
    FoldLeft(LAMBDA d, part : IF d = <<>> THEN part ELSE d \o <<<<",">>>> \o part, <<>>, parts)

ObjectDoc(members) == <<<<"{">>>> \o Comma(members) \o <<<<"}">>>>
ArrayDoc(items) == <<<<"[">>>> \o Comma(items) \o <<<<"]">>>>

Mem(key, value) == <<key, <<":">>>> \o value
Key(text) == <<"str", text>>
Esc(text) == <<"esc", text>>
One == <<int(1)>>
Two == <<int(2)>>
Other == ArrayDoc(<<ObjectDoc(<<Mem(Key("x"), One), Mem(Esc("type"), ArrayDoc(<<>>))>>), <<Esc("b")>>>>)

XYMembers == {Mem(Key("x"), One), Mem(Esc("x"), Two), Mem(Key("x"), <<Key("a")>>), Mem(Esc("y"), <<Esc("b")>>),
              Mem(Key("y"), <<none>>), Mem(Esc("z"), Other)}
TagMembers == {Mem(Key("type"), <<Key("A")>>), Mem(Esc("type"), <<Esc("B")>>), Mem(Key("type"), <<int(1)>>),
               Mem(Key("x"), One), Mem(Esc("x"), <<Key("b")>>), Mem(Key("d"), <<Esc("day2")>>),
               Mem(Key("z"), Other)}
KeyMembers == {Mem(Key("1"), One), Mem(Esc("2"), Two), Mem(Esc("day1"), One), Mem(Key("day1"), <<Esc("1")>>), Mem(Key("a"), One)}
SomeItems == {One, Two, <<Key("a")>>, <<none>>, <<Esc("day1")>>, ArrayDoc(<<One>>)}

Reading(types, docs) == {[type |-> t, doc |-> Append(d, <<"eof">>)] : t \in types, d \in docs}

ObjectsOf(members) == {ObjectDoc(ms) : ms \in Lengths(members)}

(* One token dropped, replaced or added, or the end missing.                *)
Tokens == {<<"[">>, <<"]">>, <<"{">>, <<"}">>, <<",">>, <<":">>, <<"bool">>, Key("x")}
Damaged(d) ==
    {d} \cup {RemoveAt(d, i) : i \in 1..Len(d)} \cup {SubSeq(d, 1, i) : i \in 0..Len(d)}
    \cup {ReplaceAt(d, i, t) : i \in 1..Len(d), t \in Tokens}
    \cup {InsertAt(d, i, t) : i \in 1..Len(d) + 1, t \in Tokens}

TagLast == ObjectDoc(<<Mem(Key("z"), Other), Mem(Esc("x"), <<Esc("b")>>), Mem(Esc("l"), ArrayDoc(<<One, Two>>)),
                       Mem(Esc("type"), <<Esc("B")>>)>>)
TagFirst == ObjectDoc(<<Mem(Key("type"), <<Key("A")>>), Mem(Key("z"), Other), Mem(Key("d"), <<Key("day3")>>), Mem(Key("x"), One)>>)
TaggedArray == ArrayDoc(<<One, Two, <<Esc("a")>>, Other>>)

MCReadRequests ==
    Reading({Struct("P"), Dataclass("D"), TypedDict("T"), Loaded(Struct("P"), "keep"), Loaded(Struct("P"), NoLoad)},
            ObjectsOf(XYMembers))
    \cup Reading({AorB, Struct("A"), Struct("B")}, ObjectsOf(TagMembers))
    \cup Reading({Dict(StrType, IntType), Dict(IntType, IntType), Dict(DateType, TypeAny),
                  Dict(Scalar({"int", "date"}), Optional(IntType)), Dict(Loaded(DateType, NoLoad), IntType)}, ObjectsOf(KeyMembers))
    \cup Reading({ListOf(IntType, 2), SetOf(Scalar({"int", "str", "none"})), Array("vartuple", <<Scalar({"int", "date"})>>, 1),
                  Array("fixtuple", <<IntType, DateType>>, 0), NamedTuple("N"), StructArray("Q"), StructArray("S"), RorS},
                 {ArrayDoc(is) : is \in Lengths(SomeItems)})
    \cup Reading({Optional(DateType), Loaded(Optional(DateType), "from"), Loaded(DateType, "from"),
                  Loaded(Optional(DateType), NoLoad), Loaded(DateType, NoLoad), Loaded(SetOf(DateType), NoLoad),
                  Loaded(Dataclass("D"), "unflat"), Loaded(SetOf(DateType), "unsingle"), Loaded(ListOf(IntType, 0), "unpack"),
                  Loaded(NamedTuple("N"), "unpack"), Loaded(NamedTuple("N"), "keep"), Optional(Struct("P")), TypeAny,
                  Scalar({"bool"}), StructArray("Q"), StructArray("R"), Array("fixtuple", <<>>, 0)},
                 {One, Two, <<none>>, <<<<"bool">>>>, <<Key("day1")>>, <<Esc("a")>>, ArrayDoc(<<>>), ObjectDoc(<<>>),
                  ArrayDoc(<<One, <<none>>>>), ArrayDoc(<<One, One, <<none>>>>)})
    \cup Reading({TypeAny, AorB}, Damaged(TagLast)) \cup Reading({Struct("A")}, Damaged(TagFirst))
    \cup Reading({RorS}, Damaged(TaggedArray))

--------------------------------------------------------------------------------
(* Values                                                                   *)
DictOf(pairs) == <<"dict", pairs>>
Pairs(ks, v) == DictOf([i \in DOMAIN ks |-> <<ks[i], v>>])

Orders(set) == {f \in [1..Cardinality(set) -> set] : \A v \in set : \E i \in DOMAIN f : f[i] = v}

FiveKeys == {Str(""), Str("a"), Str("ab"), Str("b"), Str("e")}
ThreeKeys == {Str("q"), Str("a"), Str("ab")}

CValues ==
    {Obj("C", <<d, date("day1"), <<"list", f>>, <<"tuple", <<Obj("G", <<date(w), date("day1")>>), date(g)>>>>, h>>) :
        d \in {none, date("day1"), date("day3")},
        f \in {<<>>, <<date("day1"), date("day2"), date("day3")>>},
        w \in {"day1", "day3"}, g \in {"day2", "day3"},
        h \in {DictOf(<<>>), DictOf(<<<<date("day2"), date("day1")>>>>), DictOf(<<<<date("day1"), date("day3")>>>>)}}

OneXY(c) == {Obj(c, <<int(1), y>>) : y \in {none, Str("q")}}
Tree == DictOf(<<<<Str("b"), Pairs(<<Str("q"), Str("a")>>, int(1))>>, <<Str("a"), Pairs(<<Str("ab"), Str("")>>, int(2))>>>>)

(* Per type, values of it.                                                  *)
ValuesOf ==
    << <<AorB, {Obj("A", <<int(1), date("day2")>>)}
                \cup {Obj("B", <<x, <<"list", l>>>>) : x \in {Str("a"), Str("q")}, l \in {<<>>, <<int(1), int(2)>>}}>>,
       <<Struct("P"), OneXY("P")>>, <<NamedTuple("N"), OneXY("N")>>, <<RorS, OneXY("R") \cup OneXY("S")>>,
       <<StructArray("Q"), {Obj("Q", <<int(1)>>)}>>,
       <<Dataclass("D"), {DOf(1)}>>, <<TypedDict("T"), {DictOf(<<<<Str("y"), Str("a")>>, <<Str("x"), int(2)>>>>)}>>,
       <<ListOf(Struct("P"), 0), {<<"list", <<>>>>, <<"list", SetToSeq(OneXY("P"))>>}>>,
       <<Array("vartuple", <<Struct("P")>>, 0), {<<"tuple", SetToSeq(OneXY("P"))>>}>>,
       <<SetOf(Scalar({"int", "str"})), {<<"set", s>> : s \in SUBSET {int(1), int(2), Str("a")}}>>,
       <<SetOf(DateType), {<<"set", {date("day1"), date("day2"), date("day3")}>>}>>,
       <<Dict(IntType, IntType), {Pairs(ks, int(3)) : ks \in Orders({int(1), int(2), int(3)})}>>,
       <<Dict(Scalar({"int", "date"}), IntType), {Pairs(<<date("day1"), int(1)>>, int(3))}>>,
       <<Dict(StrType, IntType), {DictOf(<<>>)} \cup {Pairs(ks, int(1)) : ks \in Orders(FiveKeys) \cup Orders(ThreeKeys)}>>,
       <<Dict(StrType, Dict(StrType, IntType)), {Tree}>>,
       <<Struct("C"), CValues>>,
       <<Struct("J"), {Obj("J", <<DOf(n), NOf(m)>>) : n \in {1, 2, 3}, m \in {1, 2}}>>,
       <<TypeAny,
         {Obj("K", <<Obj("L", <<date("day1")>>), Pairs(<<date(k), date("day1")>>, int(1))>>) : k \in {"day2", "day3"}}
         \cup {Pairs(ks, int(1)) : ks \in {<<int(1), Str("1")>>, <<Str("1"), int(2), int(1)>>, <<none>>,
                                          <<<<"tuple", <<int(1)>>>>>>, <<Obj("R", <<int(1), none>>)>>}}
         \cup {<<"list", <<DictOf(<<>>), <<"tuple", <<>>>>, none, <<"bool">>, Tree>>>>}>> >>

MCWriteRequests ==
    UNION {{[type |-> ValuesOf[i][1], value |-> v, sort_keys |-> sort] : v \in ValuesOf[i][2], sort \in BOOLEAN} :
               i \in DOMAIN ValuesOf}

================================================================================
