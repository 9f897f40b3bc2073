----------------------------- MODULE MCTypeNode -----------------------------
(* Instances of TypeNode for TLC. *)
EXTENDS TypeNode

Plain(type, obj) == [type |-> type, obj |-> obj, codec |-> Null, constr |-> Null]
Constrained(type, obj, class, params) ==
    [Plain(type, obj) EXCEPT !.constr = [class |-> class, params |-> params]]
Coded(type, obj) == [Plain(type, obj) EXCEPT !.codec = "load"]
Param(p, v) == [q \in {p} |-> v]
NoParams == [q \in {} |-> 0]

MCArrayLike == {"Row"}
MCTag == [s \in {"A", "B", "C", "D", "Row"} |->
            CASE s = "A" -> [field |-> "type", value |-> "a", str |-> TRUE]
              [] s = "B" -> [field |-> "type", value |-> "b", str |-> TRUE]
              [] s = "C" -> [field |-> "type", value |-> "a", str |-> TRUE]
              [] s = "Row" -> [field |-> "type", value |-> "r", str |-> TRUE]
              [] s = "D" -> Null]

MCMember ==
    {Plain("none", Null), Plain("bool", Null), Plain("any", Null),
     Plain("int", Null),
     Constrained("int", Null, "numeric", Param("gt", 6)),
     Constrained("int", Null, "numeric", Param("gt", 7)),
     Constrained("int", Null, "numeric",
                 [p \in {"lt", "multiple_of"} |-> IF p = "lt" THEN 5 ELSE 2]),
     Constrained("float", Null, "numeric", [p \in {"ge", "le"} |-> IF p = "ge" THEN 1 ELSE 3]),
     Constrained("str", Null, "str", [p \in {"pattern", "max_length"} |-> 4]),
     Constrained("datetime", Null, "tz", Param("aware", 0)),
     Constrained("list", "int", "collection", Param("min_length", 1)),
     Plain("fixtuple", <<"int", "str">>), Plain("dict", <<"str", "int">>),
     Plain("path", "Path"), Constrained("ip", "IPv4", "user", NoParams),
     Plain("intenum", "Color"), Plain("enum", "Fruit"),
     Plain("literal", {"1", "x"}), Plain("literal", {"none", "true", "2"}),
     Plain("literal", {"none"}),
     Plain("struct", "A"), Plain("struct", "B"), Plain("struct", "C"),
     Plain("struct", "D"), Plain("struct", "Row"),
     Plain("typeddict", "TD"), Plain("namedtuple", "NT"),
     Plain("custom", "Complex"), Coded("custom", "Box"),
     [Coded("custom", "Box") EXCEPT !.constr = [class |-> "user", params |-> NoParams]]}
MCIntLiterals == {"1", "2"}

(* A Serializer on a date next to an int. *)
CodedMember == {Plain("int", Null), Coded("datetime", Null), Plain("none", Null),
                Plain("struct", "A"), Plain("struct", "D")}
=============================================================================
