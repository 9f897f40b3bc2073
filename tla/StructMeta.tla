------------------------------ MODULE StructMeta ------------------------------
(***************************************************************************)
(* StructMeta_new_inner: how a class statement becomes a Struct class.     *)
(* What the bases, the struct_config and the annotations of the body say   *)
(* is merged, in this order, in one StructMetaInfo; the fields are put in  *)
(* order, renamed and given codecs; CPython makes the type with its slots; *)
(* and the class is filled in.  Each step may refuse the statement, which  *)
(* then leaves nothing behind.                                             *)
(*                                                                         *)
(* A class is made by one thread from its own StructMetaInfo and from      *)
(* bases that never change, so one statement at a time loses nothing.      *)
(***************************************************************************)
EXTENDS Integers, FiniteSets, SequencesExt

CONSTANTS
    Menu,           \* per class: the configs, items and bases to choose from, and how many items
    Name,           \* names of fields
    Key,            \* names in documents, of fields too
    Mixin,          \* bases that are no Struct classes
    WithDict, WithWeakref, WithInit,    \* those whose instances have a __dict__, ..
    Plain,          \* defaults that are stored as they are
    Empty,          \* empty collections, whose type becomes a factory
    Rename,         \* what `rename' may be: functions from the names it can rename to keys
    Callable,       \* callables for `tag'
    Unusable,       \* tags that are neither str nor int64, or that such callables return
    Escaped,        \* keys with characters that JSON escapes
    TypeKey,        \* the default tag_field, "type"
    NODEFAULT, Null

Inherited == {"frozen", "eq", "order", "kw_only", "omit_defaults"}
Option == Inherited \cup {"check_types_on_init", "weakref", "dict", "cache_hash"}

(* The slot for the cached hash, and the two CPython manages itself.        *)
CachedHash == "__structtype_cached_hash__"

ASSUME ConstantsOK ==
    /\ Name \subseteq Key /\ TypeKey \in Key /\ Null \notin Key
    /\ WithDict \cup WithWeakref \cup WithInit \subseteq Mixin
    /\ NODEFAULT \notin Plain \cup Empty
    /\ CachedHash \notin Name
    /\ \A r \in Rename : DOMAIN r \subseteq Name /\ \A f \in DOMAIN r : r[f] \in Key
    /\ Null \notin Rename \cup Callable \cup Unusable
    /\ Len(Menu) \in Nat
    /\ \A n \in 1..Len(Menu) :
          /\ n \notin Mixin /\ Menu[n].size \in Nat
          /\ \A bases \in Menu[n].bases : bases \in Seq(1..n - 1 \cup Mixin)
          /\ \A item \in Menu[n].items : item.name \in Name /\ item.alias \in Key \cup {Null}
          /\ \A spec \in Menu[n].specs :
                /\ \A o \in Option \cap DOMAIN spec : spec[o] \in {"true", "false"}
                /\ "rename" \in DOMAIN spec => spec.rename \in Rename \cup {Null}

(* A tag that is the name of a class, or made of it, is a tag.              *)
ASSUME TagsOK == \A t \in Callable \cup {"class"} : \A n \in 1..Len(Menu) : <<t, n>> # Null

VARIABLES
    classes,        \* the classes made so far
    info            \* the StructMetaInfo of the statement in progress

vars == <<classes, info>>

(* A StructMetaInfo: what is collected from bases and body, then the parts  *)
(* of the class.                                                            *)
Fresh(bases) ==
    [at |-> "bases", bases |-> bases, rest |-> bases, spec |-> <<>>, body |-> <<>>,
     defaults_lk |-> <<>>, default |-> [f \in Name |-> NODEFAULT], kwonly |-> {}, slots |-> {},
     renamed |-> [f \in Name |-> f], offsets_lk |-> [f \in Name |-> 0],
     option |-> [o \in Option |-> "unset"], tag |-> Null, tag_field |-> Null, rename |-> Null,
     hash_offset |-> 0, has_weakref |-> FALSE, has_dict |-> FALSE,
     fields |-> <<>>, defaults |-> <<>>, nkwonly |-> 0, n_trailing_defaults |-> 0,
     codecs |-> <<>>, alias_fields |-> <<>>, layout |-> <<>>]

None == [Fresh(<<>>) EXCEPT !.at = "none"]
Refuse == info' = None /\ UNCHANGED classes
At(at) == info.at = at
Continue(next) == info' = next /\ UNCHANGED classes
This == Len(classes) + 1

-----------------------------------------------------------------------------
(* Classes.                                                                 *)

Positional(c) == SubSeq(c.fields, 1, Len(c.fields) - c.nkwonly)
KwOnly(c) == ToSet(c.fields) \ ToSet(Positional(c))
IndexOf(c, f) == CHOOSE i \in DOMAIN c.fields : c.fields[i] = f
DefaultOf(c, f) ==
    LET i == IndexOf(c, f)  npos == Len(c.fields) - Len(c.defaults) IN
    IF i > npos THEN c.defaults[i - npos] ELSE NODEFAULT
AliasOf(c, f) == c.alias_fields[IndexOf(c, f)]
OffsetOf(c, f) == c.offsets[IndexOf(c, f)]
CodecsOf(c, f) == c.codecs[IndexOf(c, f)]

StructBases(bases) == ToSet(bases) \ Mixin

(* The items of seq that are in S, in their order.                          *)
Picked(seq, S) ==
    LET places == {i \in DOMAIN seq : seq[i] \in S} IN
    [k \in 1..Cardinality(places) |->
        seq[CHOOSE i \in places : Cardinality({j \in places : j <= i}) = k]]

-----------------------------------------------------------------------------
(* The bases, the last one first, so that the first one has the last word.  *)

(* A possible bug: the bases are read in the order of the statement.        *)
BeginFirstToLast ==
    /\ At("none") /\ Len(classes) < Len(Menu)
    /\ \E bases \in Menu[This].bases : Continue([Fresh(bases) EXCEPT !.rest = Reverse(bases)])

Begin ==
    /\ At("none") /\ Len(classes) < Len(Menu)
    /\ \E bases \in Menu[This].bases : Continue(Fresh(bases))

CollectMixin ==
    /\ At("bases") /\ info.rest # <<>>
    /\ LET b == Last(info.rest) IN
       /\ b \in Mixin
       /\ IF b \in WithInit THEN Refuse
          ELSE Continue([info EXCEPT !.rest = Front(@),
                                     !.has_weakref = @ \/ b \in WithWeakref,
                                     !.has_dict = @ \/ b \in WithDict])

Given(new, old) == IF new # Null THEN new ELSE old

(* What the class c, a base, adds to what the bases after it have said.     *)
Merge(c) ==
    LET fields == ToSet(c.fields) IN
    [info EXCEPT
        !.rest = Front(@),
        !.has_weakref = @ \/ c.has_weakref,
        !.has_dict = @ \/ c.has_dict,
        !.hash_offset = IF c.hash_offset # 0 THEN c.hash_offset ELSE @,
        !.tag_field = Given(c.tag_field, @),
        !.tag = Given(c.tag, @),
        !.rename = Given(c.rename, @),
        !.option = [o \in Option |-> IF o \in Inherited /\ c.option[o] # "unset"
                                     THEN c.option[o] ELSE @[o]],
        !.defaults_lk = @ \o Picked(c.fields, Name \ ToSet(info.defaults_lk)),
        !.default = [f \in Name |-> IF f \in fields THEN DefaultOf(c, f) ELSE @[f]],
        !.kwonly = (@ \ fields) \cup KwOnly(c),
        !.renamed = [f \in Name |-> IF f \in fields /\ AliasOf(c, f) # f
                                    THEN AliasOf(c, f) ELSE @[f]],
        !.offsets_lk = [f \in Name |-> IF f \in fields THEN OffsetOf(c, f) ELSE @[f]]]

(* A possible bug: a positional field stays what a later base has made it.  *)
CollectBaseNoDiscard ==
    /\ At("bases") /\ info.rest # <<>>
    /\ Last(info.rest) \notin Mixin
    /\ LET c == classes[Last(info.rest)] IN
       Continue([Merge(c) EXCEPT !.kwonly = info.kwonly \cup KwOnly(c)])

CollectBase ==
    /\ At("bases") /\ info.rest # <<>>
    /\ Last(info.rest) \notin Mixin
    /\ Continue(Merge(classes[Last(info.rest)]))

-----------------------------------------------------------------------------
(* struct_config: only the keys it has count.  None for a tag is an         *)
(* explicit "no tag"; None for a name unsets what is inherited.             *)

Of(spec, key, old) == IF key \in DOMAIN spec THEN spec[key] ELSE old

Configured(spec) ==
    [info EXCEPT !.at = "fields", !.spec = spec,
                 !.option = [o \in Option |-> Of(spec, o, @[o])],
                 !.tag = Of(spec, "tag", @),
                 !.tag_field = Of(spec, "tag_field", @),
                 !.rename = Of(spec, "rename", @)]

ApplySpec ==
    /\ At("bases") /\ info.rest = <<>>
    /\ \E spec \in Menu[This].specs :
          LET option == Configured(spec).option IN
          IF \/ DOMAIN spec \ (Option \cup {"tag", "tag_field", "rename"}) # {}
             \/ option["eq"] = "false" /\ option["order"] = "true"
             \/ option["cache_hash"] = "true" /\ option["frozen"] # "true"
          THEN Refuse
          ELSE Continue(Configured(spec))

-----------------------------------------------------------------------------
(* The annotations of the body.  An item has the name, whether it is a      *)
(* ClassVar, the default (if any), the alias of its Field (or Null) and the *)
(* positions of the annotation where metadata may stand.                    *)

(* structmeta_process_rename: an alias, else `rename', else what a base says. *)
Renamed(item) ==
    IF item.alias # Null THEN item.alias
    ELSE IF info.rename # Null THEN info.rename[item.name]
    ELSE info.renamed[item.name]

StoredDefault(d) == IF d \in Empty THEN <<"factory", d>> ELSE d

(* Non-empty mutable collections, mutable structs and Field objects are not *)
(* accepted as defaults; `rename' is not called for names it cannot rename. *)
Acceptable(item) ==
    /\ item.default \in Plain \cup Empty \cup {NODEFAULT}
    /\ item.alias = Null /\ info.rename # Null => item.name \in DOMAIN info.rename

(* A possible bug: kw_only is applied before ClassVars are left out.        *)
CollectFieldEarly ==
    /\ At("fields")
    /\ Len(info.body) < Menu[This].size
    /\ \E item \in Menu[This].items :
          LET f == item.name  body == Append(info.body, item) IN
          /\ \A j \in DOMAIN info.body : info.body[j].name # f
          /\ item.classvar
          /\ Continue([info EXCEPT !.body = body,
                !.kwonly = IF info.option["kw_only"] = "true" THEN @ \cup {f} ELSE @ \ {f}])

CollectField ==
    /\ At("fields")
    /\ Len(info.body) < Menu[This].size
    /\ \E item \in Menu[This].items :
          LET f == item.name  body == Append(info.body, item) IN
          /\ \A j \in DOMAIN info.body : info.body[j].name # f
          /\ IF item.classvar THEN Continue([info EXCEPT !.body = body])
             ELSE IF ~Acceptable(item) THEN Refuse
             ELSE Continue([info EXCEPT
                  !.body = body,
                  !.defaults_lk = IF f \in ToSet(@) THEN @ ELSE Append(@, f),
                  !.slots = IF f \in ToSet(info.defaults_lk) THEN @ ELSE @ \cup {f},
                  !.kwonly = IF info.option["kw_only"] = "true" THEN @ \cup {f} ELSE @ \ {f},
                  !.renamed[f] = Renamed(item),
                  !.default[f] = StoredDefault(item.default)])

-----------------------------------------------------------------------------
(* structmeta_construct_fields: positional fields, then the keyword-only    *)
(* ones; the list of defaults begins with the first field that has one.     *)

(* A possible bug: the passes over the fields in the wrong order.           *)
OrderedKeywordFirst == Picked(info.defaults_lk, info.kwonly)
                       \o Picked(info.defaults_lk, Name \ info.kwonly)

Ordered == Picked(info.defaults_lk, Name \ info.kwonly)
           \o Picked(info.defaults_lk, info.kwonly)
NPositional == Cardinality(ToSet(info.defaults_lk) \ info.kwonly)
DefaultAt(i) == info.default[Ordered[i]]
NRequiredFirst == CHOOSE n \in 0..Len(Ordered) :
                      /\ \A i \in 1..n : DefaultAt(i) = NODEFAULT
                      /\ n < Len(Ordered) => DefaultAt(n + 1) # NODEFAULT
Defaults == [j \in 1..Len(Ordered) - NRequiredFirst |-> DefaultAt(NRequiredFirst + j)]
NTrailing == CHOOSE n \in 0..Len(Defaults) :
                 /\ \A j \in 1..n : Defaults[Len(Defaults) + 1 - j] # NODEFAULT
                 /\ n < Len(Defaults) => Defaults[Len(Defaults) - n] = NODEFAULT

(* "Required field cannot follow optional fields" *)
OutOfOrderButLast ==                        \* a possible bug, off by one
    \E i \in NRequiredFirst + 1..NPositional - 1 : DefaultAt(i) = NODEFAULT
OutOfOrder == \E i \in NRequiredFirst + 1..NPositional : DefaultAt(i) = NODEFAULT

(* An option that CPython's layout decides: a base may have it already.     *)
Contradicts(o, has) == info.option[o] = "false" /\ has

(* The slot for the cached hash, unless a base has it.                      *)
NeedsHashSlotAlways == info.option["cache_hash"] = "true"               \* a possible bug
NeedsHashSlot == info.option["cache_hash"] = "true" /\ info.hash_offset = 0

ConstructFields ==
    /\ At("fields")
    /\ IF \/ OutOfOrder
          \/ Contradicts("weakref", info.has_weakref)
          \/ Contradicts("dict", info.has_dict)
          \/ Contradicts("cache_hash", info.hash_offset # 0)
       THEN Refuse
       ELSE Continue([info EXCEPT
                !.at = "codecs", !.fields = Ordered, !.defaults = Defaults,
                !.nkwonly = Len(Ordered) - NPositional, !.n_trailing_defaults = NTrailing,
                !.slots = IF NeedsHashSlot THEN @ \cup {CachedHash} ELSE @])

-----------------------------------------------------------------------------
(* Codecs: what metadata may stand where, and which dump goes with which    *)
(* type.  A position of an annotation lists its metadata.                   *)

KindsOf == [Numeric |-> {"int", "float"}, Str |-> {"str"}, Bytes |-> {"bytes"},
            Collection |-> {"array", "map"}, Timezone |-> {"time"}]

Applies(constraint, kind) ==
    kind = "other" \/ (constraint \in DOMAIN KindsOf => kind \in KindsOf[constraint])

(* codec_walk_annotation at one position.                                   *)
Composes(p) ==
    /\ p.fields <= 1 /\ Len(p.serializers) <= 1 /\ Len(p.constraints) <= 1
    /\ p.serializers # <<>> \/ p.constraints # <<>> => p.concrete
    /\ p.serializers # <<>> => ~p.native
    /\ \A c \in ToSet(p.constraints) : Applies(c, p.kind)

(* A Serializer without dump registers nothing.                             *)
CodecMap(positions) ==
    UNION {{<<p.type, dump>> : dump \in ToSet(p.serializers) \ {Null}} : p \in ToSet(positions)}

Conflicting(map) == \E x, y \in map : x[1] = y[1] /\ x[2] # y[2]

Declares(body, f) == \E j \in DOMAIN body : body[j].name = f
PositionsOf(body, f) == body[CHOOSE j \in DOMAIN body : body[j].name = f].positions

(* The positions of the bases that have this field.                         *)
Having(bases, f) ==
    {i \in DOMAIN bases : bases[i] \notin Mixin /\ f \in ToSet(classes[bases[i]].fields)}

(* The map of the first base that has one for this field.                   *)
InheritedCodecs(bases, f) ==
    LET having == {i \in Having(bases, f) : CodecsOf(classes[bases[i]], f) # {}}
    IN  IF having = {} THEN {} ELSE CodecsOf(classes[bases[Min(having)]], f)

CollectCodecs ==
    /\ At("codecs")
    /\ LET map == [i \in DOMAIN info.fields |->
                      IF Declares(info.body, info.fields[i])
                      THEN CodecMap(PositionsOf(info.body, info.fields[i]))
                      ELSE InheritedCodecs(info.bases, info.fields[i])]
       IN  IF \E i \in DOMAIN info.fields :
                 \/ Conflicting(map[i])
                 \/ /\ Declares(info.body, info.fields[i])
                    /\ \E p \in ToSet(PositionsOf(info.body, info.fields[i])) : ~Composes(p)
           THEN Refuse
           ELSE Continue([info EXCEPT !.at = "aliases", !.codecs = map])

-----------------------------------------------------------------------------
(* Names in documents.                                                      *)

Aliases == [i \in DOMAIN info.fields |-> info.renamed[info.fields[i]]]

ConstructAliasFields ==
    /\ At("aliases")
    /\ IF Cardinality(ToSet(Aliases)) # Len(Aliases) \/ ToSet(Aliases) \cap Escaped # {}
       THEN Refuse
       ELSE Continue([info EXCEPT !.at = "type", !.alias_fields = Aliases])

-----------------------------------------------------------------------------
(* type.__new__ (external).  The layouts of the bases must extend each      *)
(* other, a base must not precede a subclass of it, and __init_subclass__,  *)
(* which already sees the class, may raise.                                 *)

LayoutsOf(bases) == {classes[b].layout : b \in StructBases(bases)} \cup {<<>>}
Widest(layouts) == CHOOSE l \in layouts : \A k \in layouts : Len(k) <= Len(l)

TypeNew ==
    /\ At("type")
    /\ LET layouts == LayoutsOf(info.bases)
           bases == info.bases
           own == SetToSeq({<<This, s>> : s \in info.slots})
       IN  /\ \A l \in layouts : IsPrefix(l, Widest(layouts))
           /\ \A i, j \in DOMAIN bases :
                 i < j /\ bases[j] \notin Mixin => bases[i] \notin classes[bases[j]].ancestors
           /\ Continue([info EXCEPT !.at = "tag", !.layout = Widest(layouts) \o own])

TypeRefuses == At("type") /\ Refuse

-----------------------------------------------------------------------------
(* The tag and the offsets, and the finished class.                         *)

Tagged == info.tag # "no" /\ (info.tag # Null \/ info.tag_field # Null)

TagValue == IF info.tag \in {Null, "yes"} THEN <<"class", This>>
            ELSE IF info.tag \in Callable THEN <<info.tag, This>> ELSE info.tag
TagField == Given(info.tag_field, TypeKey)
TagConflictsByName == TagField \in ToSet(info.fields)                    \* a possible bug
TagConflicts == TagField \in ToSet(info.alias_fields)

OffsetIn(layout, name) == CHOOSE i \in DOMAIN layout : layout[i] = <<This, name>>
OwnOffset(name, old) == IF name \in info.slots THEN OffsetIn(info.layout, name) ELSE old

Finish ==
    /\ At("tag")
    /\ IF Tagged /\ (info.tag \in Unusable \/ TagField \notin Key \/ TagConflicts)
       THEN Refuse
       ELSE /\ classes' = Append(classes,
                 [bases |-> info.bases, spec |-> info.spec, body |-> info.body,
                  ancestors |-> UNION {{b} \cup classes[b].ancestors :
                                           b \in StructBases(info.bases)},
                  fields |-> info.fields, defaults |-> info.defaults, nkwonly |-> info.nkwonly,
                  n_trailing_defaults |-> info.n_trailing_defaults, codecs |-> info.codecs,
                  alias_fields |-> info.alias_fields, layout |-> info.layout,
                  offsets |-> [i \in DOMAIN info.fields |->
                                  OwnOffset(info.fields[i], info.offsets_lk[info.fields[i]])],
                  hash_offset |-> OwnOffset(CachedHash, info.hash_offset),
                  has_weakref |-> info.has_weakref \/ info.option["weakref"] = "true",
                  has_dict |-> info.has_dict \/ info.option["dict"] = "true",
                  option |-> info.option, rename |-> info.rename,
                  tag |-> IF Tagged THEN info.tag ELSE Null,
                  tag_field |-> IF Tagged THEN TagField ELSE Null,
                  tag_value |-> IF Tagged THEN TagValue ELSE Null])
            /\ info' = None

-----------------------------------------------------------------------------
(* The specification.                                                       *)

Init == classes = <<>> /\ info = None

Next ==
    \/ Begin \/ CollectMixin \/ CollectBase \/ ApplySpec \/ CollectField \/ ConstructFields
    \/ CollectCodecs \/ ConstructAliasFields \/ TypeNew \/ TypeRefuses \/ Finish

Spec == Init /\ [][Next]_vars

-----------------------------------------------------------------------------
(* Properties.                                                              *)

Seconds(seq) == [i \in DOMAIN seq |-> seq[i][2]]
Injective(seq) == Cardinality(ToSet(seq)) = Len(seq)

(* The classes have their types; a statement in progress knows the fields   *)
(* it has slots for.                                                        *)
TypeOK ==
    /\ \A n \in DOMAIN classes :
          LET c == classes[n] IN
          /\ c.fields \in Seq(Name) /\ Injective(c.fields)
          /\ c.alias_fields \in Seq(Key) /\ Len(c.alias_fields) = Len(c.fields)
          /\ Len(c.codecs) = Len(c.fields) /\ Len(c.offsets) = Len(c.fields)
          /\ c.option \in [Option -> {"unset", "true", "false"}]
          /\ c.rename \in Rename \cup {Null} /\ c.tag_field \in Key \cup {Null}
          /\ c.ancestors \subseteq 1..n - 1
    /\ info.slots \ {CachedHash} \subseteq ToSet(info.defaults_lk)
    /\ info.kwonly \subseteq ToSet(info.defaults_lk)

(* What the calls that make instances take for granted of every class (the  *)
(* assumption of StructInstance): the marker of a required field is among   *)
(* the defaults only for keyword-only fields, never first and never among   *)
(* the last n_trailing_defaults, which are as many as there can be.         *)
FitsInstances ==
    \A n \in DOMAIN classes :
        LET c == classes[n]  d == c.defaults  last == Len(d) - c.n_trailing_defaults IN
        /\ Len(d) <= Len(c.fields) /\ c.nkwonly \in 0..Len(c.fields)
        /\ c.n_trailing_defaults \in 0..Len(d)
        /\ \A j \in DOMAIN d : d[j] = NODEFAULT =>
              j > 1 /\ j > Len(d) - c.nkwonly /\ j <= last
        /\ last > 0 => d[last] = NODEFAULT

(* A field has one slot and its offset is where that slot is, in the class  *)
(* and in every instance of a subclass; so has the cached hash.  No field   *)
(* of a base is lost.                                                       *)
SlotsAgree ==
    \A n \in DOMAIN classes :
        LET c == classes[n]  names == Seconds(c.layout) IN
        /\ Injective(names)
        /\ ToSet(names) \ {CachedHash} = ToSet(c.fields)
        /\ \A i \in DOMAIN c.fields : names[c.offsets[i]] = c.fields[i]
        /\ IF CachedHash \in ToSet(names) THEN names[c.hash_offset] = CachedHash
           ELSE c.hash_offset = 0
        /\ \A b \in StructBases(c.bases) : IsPrefix(classes[b].layout, c.layout)

(* What the bases say of one field, v[i] the one at place i and `none' if   *)
(* nothing: the first decides when it says something, or no other differs.  *)
Decided(v, none) ==
    v[Min(DOMAIN v)] # none \/ \A i \in DOMAIN v : v[i] = v[Min(DOMAIN v)]

(* A field that the body does not declare has the default, the keyword-only *)
(* mark and the slot of the first base that has it, and the key and codecs  *)
(* which that base gives it, or all bases do.  A declared field is as       *)
(* declared, its key its alias, what `rename' makes of it, or else a        *)
(* base's.  (The rest is PrimaryBaseWins': a first base that has nothing to *)
(* say of codecs, or of the key, where another one has.)                    *)
FieldsComeFromWhereTheyShould ==
    \A n \in DOMAIN classes : \A f \in ToSet(classes[n].fields) :
        LET c == classes[n]
            having == Having(c.bases, f)
            base(i) == classes[c.bases[i]]
            first == base(Min(having))
            item == c.body[CHOOSE j \in DOMAIN c.body : c.body[j].name = f]
            keys == [i \in having |-> AliasOf(base(i), f)]
            codecs == [i \in having |-> CodecsOf(base(i), f)]
            keyOfBases == IF having = {} THEN AliasOf(c, f) = f
                          ELSE Decided(keys, f) => AliasOf(c, f) = AliasOf(first, f)
        IN  IF Declares(c.body, f) /\ ~item.classvar
            THEN /\ DefaultOf(c, f) = StoredDefault(item.default)
                 /\ "kw_only" \in DOMAIN c.spec =>
                        (f \in KwOnly(c) <=> c.spec["kw_only"] = "true")
                 /\ CodecsOf(c, f) = CodecMap(item.positions)
                 /\ item.alias # Null => AliasOf(c, f) = item.alias
                 /\ item.alias = Null /\ c.rename # Null => AliasOf(c, f) = c.rename[f]
                 /\ item.alias = Null /\ c.rename = Null => keyOfBases
            ELSE /\ having # {}
                 /\ DefaultOf(c, f) = DefaultOf(first, f)
                 /\ f \in KwOnly(c) <=> f \in KwOnly(first)
                 /\ OffsetOf(c, f) = OffsetOf(first, f)
                 /\ keyOfBases
                 /\ ~Declares(c.body, f) /\ Decided(codecs, {}) =>
                        CodecsOf(c, f) = CodecsOf(first, f)

(* "Bases are merged in reverse order so the primary base wins on           *)
(* conflicts": the codecs of a field that the body does not declare are     *)
(* those it has in the first base that has it.  Not so when that base       *)
(* redeclares the field without codecs: a field without a map is skipped.   *)
PrimaryBaseWins ==
    \A n \in DOMAIN classes : \A f \in ToSet(classes[n].fields) :
        LET c == classes[n] IN
        ~Declares(c.body, f) =>
            CodecsOf(c, f) = CodecsOf(classes[c.bases[Min(Having(c.bases, f))]], f)

(* A call with positional arguments means the same for a subclass of one    *)
(* Struct class, as far as it redeclares no field: these keep their order,  *)
(* and come first when none is redeclared.                                  *)
PositionsKept ==
    \A n \in DOMAIN classes :
        LET c == classes[n]
            kept(seq) == Picked(seq, {f \in Name : ~Declares(c.body, f)})
        IN  \A base \in StructBases(c.bases) : StructBases(c.bases) = {base} =>
                LET b == classes[base] IN
                /\ Picked(kept(Positional(c)), ToSet(b.fields)) = kept(Positional(b))
                /\ kept(b.fields) = b.fields => IsPrefix(Positional(b), Positional(c))

(* A setting is that of the struct_config, or else of the first base that   *)
(* has one, whatever the order of the statements that made the bases; only  *)
(* weakref, dict and the cached hash, which cannot be undone, add up.       *)
(* Nothing is said of kw_only, which the code inherits and docs/usage.rst   *)
(* says it does not.                                                        *)
ConfigInherited ==
    \A n \in DOMAIN classes :
        LET c == classes[n]
            inherited(get(_), unset) ==
                LET setting == {i \in DOMAIN c.bases : /\ c.bases[i] \notin Mixin
                                                      /\ get(classes[c.bases[i]]) # unset}
                IN  IF setting = {} THEN unset ELSE get(classes[c.bases[Min(setting)]])
            tag == Of(c.spec, "tag", inherited(LAMBDA b : b.tag, Null))
        IN  /\ \A o \in Inherited \ {"kw_only"} :
                  c.option[o] = Of(c.spec, o, inherited(LAMBDA b : b.option[o], "unset"))
            /\ c.rename = Of(c.spec, "rename", inherited(LAMBDA b : b.rename, Null))
            /\ c.tag = IF tag = "no" THEN Null ELSE tag
            /\ \A b \in StructBases(c.bases) :
                  /\ classes[b].has_weakref => c.has_weakref
                  /\ classes[b].has_dict => c.has_dict
                  /\ classes[b].hash_offset # 0 => c.hash_offset = classes[b].hash_offset

(* The keys an instance is written with differ from each other and from the *)
(* tag's, whichever bases and renames they come from; and tags that are     *)
(* class names are of the class itself.                                     *)
KeysUnique ==
    \A n \in DOMAIN classes :
        LET c == classes[n] IN
        /\ Injective(c.alias_fields)
        /\ c.tag_field \notin ToSet(c.alias_fields)
        /\ c.tag_field = Null <=> c.tag_value = Null
        /\ c.tag \in {Null, "yes"} /\ c.tag_field # Null => c.tag_value = <<"class", n>>
===============================================================================
