---------------------------- MODULE MCStructMeta ----------------------------
(* Class statements for TLC. *)
EXTENDS StructMeta

CONSTANTS slotted, open, ctor, lower, one, list, bad, dump1, dump2, T

Upper == [x |-> "X", y |-> "Y", z |-> "Z"]
Swap == [x |-> "y", y |-> "x", z |-> "z-"]
Broken == <<>>
MCRename == {Upper, Swap, Broken}

Item(name, default) == [name |-> name, default |-> default, alias |-> Null,
                        classvar |-> FALSE, positions |-> <<>>]
Position == [type |-> T, kind |-> "other", native |-> FALSE, concrete |-> TRUE,
             fields |-> 0, serializers |-> <<>>, constraints |-> <<>>]
With1 == [Position EXCEPT !.serializers = <<dump1>>]
With2 == [Position EXCEPT !.serializers = <<dump2>>, !.fields = 1]
Numeric == [Position EXCEPT !.constraints = <<"Numeric">>, !.kind = "str"]

Items == {Item("x", NODEFAULT), Item("x", one), Item("y", NODEFAULT), Item("y", list),
          [Item("y", NODEFAULT) EXCEPT !.alias = "x"],
          [Item("y", NODEFAULT) EXCEPT !.positions = <<With1>>]}
More == {Item("x", one), Item("y", NODEFAULT), Item("z", NODEFAULT), Item("x", bad),
         [Item("x", NODEFAULT) EXCEPT !.alias = "x"],
         [Item("y", NODEFAULT) EXCEPT !.classvar = TRUE],
         [Item("x", one) EXCEPT !.positions = <<With1, With2>>],
         [Item("y", one) EXCEPT !.positions = <<With2>>],
         [Item("y", one) EXCEPT !.positions = <<Numeric>>]}
Few == {Item("z", one), Item("x", NODEFAULT)}

Nothing == <<>>
Cached == [frozen |-> "true", cache_hash |-> "true"]
Renames == [rename |-> Upper, kw_only |-> "true"]
TagsY == [tag_field |-> "Y", omit_defaults |-> "true"]
Named == [tag |-> lower, weakref |-> "true", dict |-> "true", rename |-> Swap]
TagsAll == [tag |-> "yes", frozen |-> "true", cache_hash |-> "true"]
TagsNone == [tag |-> bad]
Unordered == [eq |-> "false", order |-> "true"]
RenamesNone == [rename |-> Broken]
TagsBad == [tag_field |-> bad]
Undo == [tag |-> "no", rename |-> Null, kw_only |-> "false", frozen |-> "false"]
Against == [weakref |-> "false", order |-> "true", dict |-> "false"]

MCMenu ==
    <<[bases |-> {<<>>}, size |-> 2, items |-> Items,
       specs |-> {Nothing, Cached, Renames, TagsY, Named}],
      [bases |-> {<<1>>, <<open, 1>>, <<>>, <<1, ctor>>}, size |-> 1, items |-> More,
       specs |-> {Nothing, Renames, Undo, Against, TagsAll, TagsNone, TagsBad, RenamesNone, Unordered}],
      [bases |-> {<<2, 1>>, <<1, 2>>, <<2, slotted>>}, size |-> 1, items |-> Few,
       specs |-> {Nothing}]>>

(* A field with a codec, one subclass that redeclares it without, another   *)
(* that does not, and a class below both.                                   *)
MCDiamond ==
    <<[bases |-> {<<>>}, size |-> 1, specs |-> {Nothing},
       items |-> {[Item("y", NODEFAULT) EXCEPT !.positions = <<With1>>]}],
      [bases |-> {<<1>>}, size |-> 1, specs |-> {Nothing}, items |-> {Item("y", NODEFAULT)}],
      [bases |-> {<<1>>}, size |-> 1, specs |-> {Nothing}, items |-> {Item("z", one)}],
      [bases |-> {<<2, 3>>}, size |-> 0, specs |-> {Nothing}, items |-> {}]>>
=============================================================================
