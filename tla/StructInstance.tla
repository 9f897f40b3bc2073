--------------------------- MODULE StructInstance ---------------------------
(***************************************************************************)
(* Instances of one Struct class: the calls that make them (the            *)
(* constructor, the decoders of maps and arrays, the conversion of         *)
(* sequences and of attributes, __replace__, __copy__, unpickling), the    *)
(* assignment of fields, hashing, and which instances the cyclic garbage   *)
(* collector tracks.                                                       *)
(*                                                                         *)
(* An instance is tracked only when a field holds something that can be    *)
(* part of a cycle.  Every call that stores a value keeps this up to date  *)
(* by itself, and Python code may run in between: factories, hooks,        *)
(* __post_init__, destructors of replaced values.  The actors are the      *)
(* calls that are in progress at the same time, in several threads or one  *)
(* inside another; one action is what happens between two places where     *)
(* Python code may run.                                                    *)
(***************************************************************************)
EXTENDS Integers, FiniteSets, Sequences

CONSTANTS
    Actor,          \* the calls that may be in progress at once
    Object,         \* the instances there is memory for
    Class,          \* the classes to choose from
    Scalar,         \* values that are never tracked
    Container,      \* values that always may be part of a cycle
    Tuple,          \* exact tuples: tracked until the collector looks at them
    MaxFresh,       \* how many instances are made from scratch and not from another
    MaxItems,       \* how many keys or items a document has
    NoValue,        \* an unset field
    NODEFAULT,      \* a required field among the defaults
    Null

Value == Scalar \cup Container \cup Tuple

(* What StructMeta stores of a class: the last fields have an entry in      *)
(* struct_defaults, the last nkwonly are keyword-only.  Only a keyword-only *)
(* field may be required after one with a default.                          *)
ASSUME ConstantsOK ==
    /\ MaxFresh \in Nat /\ MaxItems \in Nat
    /\ NoValue \notin Value
    /\ NODEFAULT \notin Value
    /\ Null \notin Object
    /\ \A c \in Class :
          /\ c.nfields \in Nat /\ c.nkwonly \in 0..c.nfields
          /\ c.defaults \in Seq(Value \cup {NODEFAULT})
          /\ Len(c.defaults) <= c.nfields
          /\ \A j \in 1..Len(c.defaults) :
                c.defaults[j] = NODEFAULT => j > 1 /\ j > Len(c.defaults) - c.nkwonly
          /\ c.n_trailing_defaults \in 0..Len(c.defaults)
          /\ \A j \in 1..Len(c.defaults) :
                j > Len(c.defaults) - c.n_trailing_defaults => c.defaults[j] # NODEFAULT
          /\ c.n_trailing_defaults < Len(c.defaults) =>
                c.defaults[Len(c.defaults) - c.n_trailing_defaults] = NODEFAULT
          /\ c.factories \subseteq 1..c.nfields /\ c.renamed \subseteq 1..c.nfields
          /\ c.frozen \in BOOLEAN /\ c.cache_hash \in BOOLEAN
          /\ c.forbid_unknown_fields \in BOOLEAN
          /\ c.check_types_on_init \in BOOLEAN /\ c.post_init \in BOOLEAN

VARIABLES
    cls,            \* the class
    heap,           \* its instances
    tupleTracked,   \* the tuples the collector has not untracked yet
    call,           \* per actor the call in progress
    answers,        \* per instance the hashes given out so far
    exposed         \* the instances __post_init__ has assigned to, and their copies

vars == <<cls, heap, tupleTracked, call, answers, exposed>>

-----------------------------------------------------------------------------
(* The class.                                                               *)

Field == 1..cls.nfields
NPos == cls.nfields - Len(cls.defaults)

(* Fault: the entries of struct_defaults are taken for defaults. *)
NRequiredByTuple == NPos

(* Fields an array must have: up to the last one without a default. *)
NRequired == cls.nfields - cls.n_trailing_defaults

DefaultOf(i) == IF i > NPos THEN cls.defaults[i - NPos] ELSE NODEFAULT

-----------------------------------------------------------------------------
(* Instances and calls.                                                     *)

NoFields == [i \in Field |-> NoValue]
Free == [life |-> "free", fields |-> NoFields, tracked |-> FALSE, hash |-> Null]
Alloc(fields) == [life |-> "new", fields |-> fields, tracked |-> TRUE, hash |-> Null]

Idle == [op |-> "none", at |-> "none", obj |-> Null, i |-> 0, should_untrack |-> FALSE,
         seen |-> {}, given |-> NoFields, size |-> 0, names |-> "name", ways |-> {},
         wrong |-> FALSE, value |-> NoValue, acc |-> <<>>]

MaybeTracked(v) == v \in Container \cup tupleTracked

(* An instance is in somebody's hands once its __post_init__ runs. *)
Visible(o) == heap[o].life \in {"shown", "live"}

(* Begin a call that fills the instance o. *)
Begin(a, o, frame, fields) ==
    /\ heap' = [heap EXCEPT ![o] = Alloc(fields)]
    /\ call' = [call EXCEPT ![a] = [frame EXCEPT !.obj = o]]
    /\ UNCHANGED <<cls, tupleTracked, answers, exposed>>

At(a, op, at) == call[a].op = op /\ call[a].at = at
Goto(a, at) == call' = [call EXCEPT ![a].at = at]

(* Store the value v as field i, keep should_untrack up to date and go on. *)
Fill(a, i, v, next) ==
    /\ heap' = [heap EXCEPT ![call[a].obj].fields[i] = v]
    /\ call' = [call EXCEPT ![a] = [next EXCEPT !.should_untrack = @ /\ ~MaybeTracked(v)]]
    /\ UNCHANGED <<cls, tupleTracked, answers, exposed>>

(* Store it without looking at what it is. *)
Set(a, i, v, next) ==
    /\ heap' = [heap EXCEPT ![call[a].obj].fields[i] = v]
    /\ call' = [call EXCEPT ![a] = next]
    /\ UNCHANGED <<cls, tupleTracked, answers, exposed>>

Quietly == UNCHANGED <<cls, heap, tupleTracked, answers, exposed>>

-----------------------------------------------------------------------------
(* Struct_vectorcall.  `given' and `wrong' remember what the caller passed, *)
(* for the properties; `size' is the number of positional arguments.        *)

Untracked(fields) == \A i \in Field : fields[i] # NoValue => ~MaybeTracked(fields[i])

Construct(a, o) ==
    \E n \in 0..cls.nfields : \E args \in [1..n -> Value] :
        LET fields == [i \in Field |-> IF i <= n THEN args[i] ELSE NoValue] IN
        /\ n <= cls.nfields - cls.nkwonly
        /\ Begin(a, o, [Idle EXCEPT !.op = "init", !.at = "keywords", !.size = n, !.given = fields,
                                    !.should_untrack = Untracked(fields)], fields)

(* Fault: a keyword is looked for among all the fields. *)
KeywordAnywhere(a) ==
    /\ At(a, "init", "keywords")
    /\ \E i \in (Field \cup {0}) \ call[a].seen, v \in Value :
          IF i \in Field
          THEN Fill(a, i, v, [call[a] EXCEPT !.seen = @ \cup {i}, !.given[i] = v,
                                             !.wrong = @ \/ i <= call[a].size])
          ELSE /\ call' = [call EXCEPT ![a].at = "refused", ![a].wrong = TRUE]
               /\ Quietly

(* Python passes every keyword once; 0 is a name that is no field. *)
Keyword(a) ==
    /\ At(a, "init", "keywords")
    /\ \E i \in (Field \cup {0}) \ call[a].seen, v \in Value :
          IF i > call[a].size
          THEN Fill(a, i, v, [call[a] EXCEPT !.seen = @ \cup {i}, !.given[i] = v])
          ELSE /\ call' = [call EXCEPT ![a].at = "refused", ![a].wrong = TRUE]
               /\ Quietly

KeywordsEnd(a) ==
    /\ At(a, "init", "keywords")
    /\ LET n == call[a].size IN
       call' = [call EXCEPT ![a].i = n + 1,
                            ![a].at = IF n + Cardinality(call[a].seen) < cls.nfields
                                      THEN "defaults" ELSE "filled"]
    /\ Quietly

(* Fault: what defaults are is not looked at. *)
FillMissingUnseen(a) ==
    /\ At(a, "init", "defaults")
    /\ call[a].i \in Field
    /\ LET i == call[a].i  next == [call[a] EXCEPT !.i = @ + 1] IN
       IF heap[call[a].obj].fields[i] # NoValue
       THEN call' = [call EXCEPT ![a] = next] /\ Quietly
       ELSE IF DefaultOf(i) # NODEFAULT
            THEN Set(a, i, DefaultOf(i), next)
            ELSE Goto(a, "refused") /\ Quietly

(* One field after the other: past the fields that are set, get_default for *)
(* the others.                                                              *)
FillMissing(a) ==
    /\ At(a, "init", "defaults")
    /\ call[a].i \in Field
    /\ LET i == call[a].i  next == [call[a] EXCEPT !.i = @ + 1] IN
       IF heap[call[a].obj].fields[i] # NoValue
       THEN call' = [call EXCEPT ![a] = next] /\ Quietly
       ELSE IF DefaultOf(i) # NODEFAULT
            THEN Fill(a, i, DefaultOf(i), next)
            ELSE Goto(a, "refused") /\ Quietly

-----------------------------------------------------------------------------
(* Maps: json_decode_struct_map_inner and validate_dict_to_struct.          *)

DecodeMap(a, o) ==
    Begin(a, o, [Idle EXCEPT !.op = "map", !.at = "items", !.should_untrack = TRUE], NoFields)

(* A key that names a field: its value is decoded and stored; a document    *)
(* may repeat a key, and the last value counts.                             *)
MapItem(a) ==
    /\ At(a, "map", "items")
    /\ call[a].size < MaxItems
    /\ \E i \in Field, v \in Value :
          Set(a, i, v, [call[a] EXCEPT !.size = @ + 1, !.given[i] = v])

MapUnknown(a) ==
    /\ At(a, "map", "items")
    /\ call[a].size < MaxItems
    /\ call' = [call EXCEPT ![a].size = @ + 1, ![a].wrong = @ \/ cls.forbid_unknown_fields,
                            ![a].at = IF cls.forbid_unknown_fields THEN "refused" ELSE @]
    /\ Quietly

MapEnd(a) ==
    /\ At(a, "map", "items")
    /\ call' = [call EXCEPT ![a].at = "defaults", ![a].i = 1]
    /\ Quietly

(* Struct_fill_in_defaults looks at every field. *)
FillInDefaults(a) ==
    /\ At(a, "map", "defaults")
    /\ call[a].i \in Field
    /\ LET i == call[a].i
           val == heap[call[a].obj].fields[i]
           next == [call[a] EXCEPT !.i = @ + 1]
       IN  IF val # NoValue THEN Fill(a, i, val, next)
           ELSE IF DefaultOf(i) # NODEFAULT THEN Fill(a, i, DefaultOf(i), next)
           ELSE Goto(a, "refused") /\ Quietly

-----------------------------------------------------------------------------
(* Arrays: json_decode_struct_array_inner reads items while there are any,  *)
(* validate_seq_to_struct_array_inner knows how many there are.             *)

ArrayBegins(a, o, op) ==
    \E n \in 0..MaxItems : \E items \in [1..n -> Value] :
        /\ op = "seq" => n >= NRequired
        /\ Begin(a, o, [Idle EXCEPT !.op = op, !.at = "items", !.i = 1, !.size = n,
                           !.should_untrack = TRUE,
                           !.wrong = cls.forbid_unknown_fields /\ n > cls.nfields,
                           !.given = [i \in Field |-> IF i <= n THEN items[i] ELSE NoValue]],
                 NoFields)

ArrayItem(a) ==
    /\ call[a].op \in {"array", "seq"} /\ call[a].at = "items"
    /\ LET i == call[a].i IN
       /\ i \in Field /\ i <= call[a].size
       /\ Fill(a, i, call[a].given[i], [call[a] EXCEPT !.i = @ + 1])

(* The end of the fields or of the items: an array that is too long or too  *)
(* short is refused here.                                                   *)
ArrayEnd(a) ==
    /\ At(a, "array", "items")
    /\ call[a].i \notin Field \/ call[a].i > call[a].size
    /\ Goto(a, IF \/ call[a].size > cls.nfields /\ cls.forbid_unknown_fields
                  \/ call[a].i - 1 < NRequired
               THEN "refused" ELSE "defaults")
    /\ Quietly

SeqEnd(a) ==
    /\ At(a, "seq", "items")
    /\ call[a].i \notin Field \/ call[a].i > call[a].size
    /\ Goto(a, "defaults")
    /\ Quietly

ArrayDefault(a) ==
    /\ call[a].op \in {"array", "seq"} /\ call[a].at = "defaults"
    /\ call[a].i \in Field
    /\ Fill(a, call[a].i, DefaultOf(call[a].i), [call[a] EXCEPT !.i = @ + 1])

-----------------------------------------------------------------------------
(* validate_object_to_struct.  `names' says under which of its names a      *)
(* field is looked for: both, until a renamed field has been found.         *)

FromAttributes(a, o) ==
    Begin(a, o, [Idle EXCEPT !.op = "attrs", !.at = "items", !.i = 1, !.should_untrack = TRUE,
                             !.names = IF cls.renamed = {} THEN "name" ELSE "open"], NoFields)

(* Where a field is found, of the names the object has for it. *)
FoundAs(i, has, names) ==
    IF names # "open" THEN names
    ELSE IF i \in cls.renamed /\ "name" \notin has THEN "alias" ELSE "name"

Has(i) == IF i \in cls.renamed THEN SUBSET {"name", "alias"} ELSE {{}, {"name", "alias"}}

Attribute(a) ==
    /\ At(a, "attrs", "items")
    /\ call[a].i \in Field
    /\ LET i == call[a].i  next == [call[a] EXCEPT !.i = @ + 1] IN
       \E has \in Has(i) :
          LET way == FoundAs(i, has, call[a].names) IN
          IF way \in has
          THEN \E v \in Value :
                  Fill(a, i, v, IF i \in cls.renamed
                                THEN [next EXCEPT !.given[i] = v, !.names = way,
                                                  !.ways = @ \cup {way}]
                                ELSE [next EXCEPT !.given[i] = v])
          ELSE IF DefaultOf(i) # NODEFAULT
               THEN Fill(a, i, DefaultOf(i), next)
               ELSE Goto(a, "refused") /\ Quietly

-----------------------------------------------------------------------------
(* Calls that copy: __replace__, __copy__, and __reduce__ with the call     *)
(* that unpickles.  An unset field that is needed raises AttributeError and *)
(* an unknown name TypeError; both leave nothing behind.                    *)

Replace(a, src, o) ==
    /\ Visible(src)
    /\ \E S \in SUBSET Field : \E changes \in [S -> Value] :
          LET fields == [i \in Field |-> IF i \in S THEN changes[i] ELSE heap[src].fields[i]] IN
          /\ \A i \in Field : fields[i] # NoValue
          /\ Begin(a, o, [Idle EXCEPT !.op = "replace", !.at = "filled", !.given = fields,
                                      !.should_untrack = Untracked(fields)], fields)

Complete(o) == \A i \in Field : heap[o].fields[i] # NoValue

Copied(src) == [Alloc(heap[src].fields) EXCEPT !.life = "live", !.tracked = heap[src].tracked]

(* A value that was stored in src and is not accounted for yet. *)
Pending(src) == \E b \in Actor : At(b, "setattr", "track") /\ call[b].obj = src

Copy(a, src, o) ==
    /\ Visible(src) /\ Complete(src)
    /\ heap' = [heap EXCEPT ![o] = Copied(src)]
    /\ exposed' = IF src \in exposed \/ Pending(src) THEN exposed \cup {o} ELSE exposed
    /\ UNCHANGED <<cls, tupleTracked, call, answers>>

(* How many of the values __reduce__ passes by position. *)
Reduced == IF cls.nkwonly > 0 THEN 0 ELSE cls.nfields

Rebuild(a, src, o) ==
    /\ Visible(src) /\ Complete(src)
    /\ LET fields == heap[src].fields IN
       Begin(a, o, [Idle EXCEPT !.op = "init", !.given = fields, !.size = Reduced,
                       !.at = IF Reduced <= cls.nfields - cls.nkwonly THEN "filled" ELSE "refused",
                       !.should_untrack = Untracked(fields)], fields)

-----------------------------------------------------------------------------
(* The end of a call that fills an instance.                                *)

Late(op) == op \in {"array", "seq", "attrs", "replace"}

(* All fields have been gone through. *)
Filled(a) ==
    /\ call[a].at = "defaults" \/ At(a, "attrs", "items")
    /\ call[a].i \notin Field
    /\ IF call[a].op = "seq" /\ call[a].wrong
       THEN Goto(a, "refused")
       ELSE Goto(a, "filled")
    /\ Quietly

(* The constructor and Struct_fill_in_defaults untrack before they call     *)
(* Python code; the other calls do so when they return.                     *)
Decide(a) ==
    /\ call[a].at = "filled"
    /\ heap' = [heap EXCEPT ![call[a].obj].tracked =
                                @ /\ ~(call[a].should_untrack /\ ~Late(call[a].op))]
    /\ Goto(a, IF call[a].op = "init" /\ cls.check_types_on_init THEN "check" ELSE "post")
    /\ UNCHANGED <<cls, tupleTracked, answers, exposed>>

CheckTypes(a) ==
    /\ call[a].at = "check"
    /\ Goto(a, "post") \/ Goto(a, "failed")
    /\ Quietly

PostInit(a) ==
    /\ call[a].at = "post"
    /\ cls.post_init
    /\ heap' = [heap EXCEPT ![call[a].obj].life = "shown"]
    /\ Goto(a, "running")
    /\ UNCHANGED <<cls, tupleTracked, answers, exposed>>

Return(a) ==
    /\ call[a].at = IF cls.post_init THEN "running" ELSE "post"
    /\ heap' = [heap EXCEPT ![call[a].obj].life = "live",
                            ![call[a].obj].tracked =
                                @ /\ ~(call[a].should_untrack /\ Late(call[a].op))]
    /\ call' = [call EXCEPT ![a] = Idle]
    /\ UNCHANGED <<cls, tupleTracked, answers, exposed>>

(* A value is refused, or a factory or __post_init__ raises.                *)
Fails(a) ==
    /\ \/ call[a].op \in {"map", "array", "seq", "attrs"} /\ call[a].at = "items"
       \/ call[a].at = "defaults" /\ call[a].i \in cls.factories
       \/ call[a].at = "running"
    /\ Goto(a, "failed")
    /\ Quietly

(* The instance goes away, unless __post_init__ has passed it on.           *)
Drop(a) ==
    /\ call[a].at \in {"refused", "failed"}
    /\ LET o == call[a].obj IN
       \/ /\ \A b \in Actor \ {a} : call[b].obj # o
          /\ heap' = [heap EXCEPT ![o] = Free]
          /\ answers' = [answers EXCEPT ![o] = {}]
          /\ exposed' = exposed \ {o}
       \/ /\ heap[o].life = "shown"
          /\ heap' = [heap EXCEPT ![o].life = "live"]
          /\ UNCHANGED <<answers, exposed>>
    /\ call' = [call EXCEPT ![a] = Idle]
    /\ UNCHANGED <<cls, tupleTracked>>

-----------------------------------------------------------------------------
(* Assignment.                                                              *)

(* Whether the call that makes o has decided and will untrack it. *)
WillUntrack(o) ==
    \E b \in Actor : call[b].obj = o /\ Late(call[b].op) /\ call[b].should_untrack

(* Struct_setattro_default: PyObject_GenericSetAttr, in which the old value *)
(* may be destroyed, and then the tracking.                                 *)
SetAttr(a, o) ==
    /\ call[a].op = "none"
    /\ ~cls.frozen /\ Visible(o)
    /\ \E i \in Field, v \in Value :
          /\ heap' = [heap EXCEPT ![o].fields[i] = v]
          /\ call' = [call EXCEPT ![a] = [Idle EXCEPT !.op = "setattr", !.at = "track",
                                                      !.obj = o, !.value = v]]
          /\ exposed' = IF WillUntrack(o) /\ MaybeTracked(v) THEN exposed \cup {o} ELSE exposed
    /\ UNCHANGED <<cls, tupleTracked, answers>>

Track(a) ==
    /\ At(a, "setattr", "track")
    /\ heap' = [heap EXCEPT ![call[a].obj].tracked = @ \/ MaybeTracked(call[a].value)]
    /\ call' = [call EXCEPT ![a] = Idle]
    /\ UNCHANGED <<cls, tupleTracked, answers, exposed>>

DelAttr(a, o) ==
    /\ call[a].op = "none"
    /\ ~cls.frozen /\ Visible(o)
    /\ \E i \in Field : /\ heap[o].fields[i] # NoValue
                        /\ heap' = [heap EXCEPT ![o].fields[i] = NoValue]
    /\ UNCHANGED <<cls, tupleTracked, call, answers, exposed>>

(* object.__setattr__ in the __post_init__ of a frozen class.               *)
ObjectSetAttr(a, o) ==
    /\ call[a].op = "none"
    /\ cls.frozen /\ heap[o].life = "shown"
    /\ \E i \in Field, v \in Value :
          /\ heap' = [heap EXCEPT ![o].fields[i] = v]
    /\ exposed' = exposed \cup {o}
    /\ answers' = [answers EXCEPT ![o] = {}]
    /\ UNCHANGED <<cls, tupleTracked, call>>

(* The collector looks at a tuple of scalars and untracks it.               *)
UntrackTuple ==
    /\ \E t \in tupleTracked : tupleTracked' = tupleTracked \ {t}
    /\ UNCHANGED <<cls, heap, call, answers, exposed>>

-----------------------------------------------------------------------------
(* Struct_hash and Struct_hash_fields.  The hash of an instance stands for  *)
(* the values it is computed from; hashing a value may run Python code.     *)

Unhashable(v) == v \in Container

Answer(o, h) == answers' = IF o \in exposed THEN answers ELSE [answers EXCEPT ![o] = @ \cup {h}]

Hash(a, o) ==
    /\ call[a].op = "none"
    /\ cls.frozen /\ Visible(o)
    /\ IF cls.cache_hash /\ heap[o].hash # Null
       THEN Answer(o, heap[o].hash) /\ UNCHANGED call
       ELSE /\ call' = [call EXCEPT ![a] = [Idle EXCEPT !.op = "hash", !.at = "fields",
                                                        !.obj = o, !.i = 1]]
            /\ UNCHANGED answers
    /\ UNCHANGED <<cls, heap, tupleTracked, exposed>>

(* Fault: the hash of a value is used without a look whether there is one. *)
HashFieldUnchecked(a) ==
    /\ At(a, "hash", "fields")
    /\ call[a].i \in Field
    /\ LET v == heap[call[a].obj].fields[call[a].i] IN
       call' = [call EXCEPT ![a] = IF v = NoValue THEN Idle
                                   ELSE [call[a] EXCEPT !.i = @ + 1, !.acc = Append(@, v)]]
    /\ Quietly

HashField(a) ==
    /\ At(a, "hash", "fields")
    /\ call[a].i \in Field
    /\ LET v == heap[call[a].obj].fields[call[a].i] IN
       call' = [call EXCEPT ![a] = IF v = NoValue \/ Unhashable(v) THEN Idle
                                   ELSE [call[a] EXCEPT !.i = @ + 1, !.acc = Append(@, v)]]
    /\ Quietly

(* The compare-exchange: the first hash stays. *)
HashEnds(a) ==
    /\ At(a, "hash", "fields")
    /\ call[a].i \notin Field
    /\ LET o == call[a].obj IN
       /\ heap' = IF cls.cache_hash /\ heap[o].hash = Null
                  THEN [heap EXCEPT ![o].hash = call[a].acc] ELSE heap
       /\ Answer(o, call[a].acc)
    /\ call' = [call EXCEPT ![a] = Idle]
    /\ UNCHANGED <<cls, tupleTracked, exposed>>

-----------------------------------------------------------------------------
(* The specification.                                                       *)

Init ==
    /\ cls \in Class
    /\ heap = [o \in Object |-> Free]
    /\ tupleTracked = Tuple
    /\ call = [a \in Actor |-> Idle]
    /\ answers = [o \in Object |-> {}]
    /\ exposed = {}

Begins(a, o) ==
    /\ call[a].op = "none" /\ heap[o].life = "free"
    /\ \/ /\ Cardinality({p \in Object : heap[p].life # "free"}) < MaxFresh
          /\ \/ Construct(a, o) \/ DecodeMap(a, o) \/ FromAttributes(a, o)
             \/ ArrayBegins(a, o, "array") \/ ArrayBegins(a, o, "seq")
       \/ \E src \in Object : Replace(a, src, o) \/ Copy(a, src, o) \/ Rebuild(a, src, o)

Fills(a) ==
    \/ Keyword(a) \/ KeywordsEnd(a) \/ FillMissing(a)
    \/ MapItem(a) \/ MapUnknown(a) \/ MapEnd(a) \/ FillInDefaults(a)
    \/ ArrayItem(a) \/ ArrayEnd(a) \/ SeqEnd(a) \/ ArrayDefault(a)
    \/ Attribute(a)

Ends(a) ==
    \/ Filled(a) \/ Decide(a) \/ CheckTypes(a) \/ PostInit(a) \/ Return(a)
    \/ Fails(a) \/ Drop(a)

Uses(a, o) == SetAttr(a, o) \/ DelAttr(a, o) \/ ObjectSetAttr(a, o) \/ Hash(a, o)

Next ==
    \/ \E a \in Actor :
          \/ \E o \in Object : Begins(a, o) \/ Uses(a, o)
          \/ Fills(a) \/ Ends(a) \/ Track(a) \/ HashField(a) \/ HashEnds(a)
    \/ UntrackTuple

Spec == Init /\ [][Next]_vars

-----------------------------------------------------------------------------
(* Properties.                                                              *)

Op == {"none", "init", "map", "array", "seq", "attrs", "replace", "setattr", "hash"}
Stage == {"none", "keywords", "items", "defaults", "filled", "check", "post", "running",
          "refused", "failed", "track", "fields"}

Frame ==
    [op : Op, at : Stage, obj : Object \cup {Null}, i : Nat, should_untrack : BOOLEAN,
     seen : SUBSET (Field \cup {0}), given : [Field -> Value \cup {NoValue}], size : Nat,
     names : {"open", "name", "alias"}, ways : SUBSET {"name", "alias"}, wrong : BOOLEAN,
     value : Value \cup {NoValue}, acc : Seq(Value)]

Instance ==
    [life : {"free", "new", "shown", "live"}, fields : [Field -> Value \cup {NoValue}],
     tracked : BOOLEAN, hash : Seq(Value) \cup {Null}]

(* The variables have their types; in particular nothing that marks a       *)
(* required field among the defaults is ever stored as a value.             *)
TypeOK ==
    /\ cls \in Class
    /\ heap \in [Object -> Instance]
    /\ tupleTracked \subseteq Tuple
    /\ call \in [Actor -> Frame]
    /\ answers \in [Object -> SUBSET Seq(Value)]
    /\ exposed \subseteq Object

HoldsTracked(o) == \E i \in Field : heap[o].fields[i] # NoValue /\ MaybeTracked(heap[o].fields[i])

(* The collector sees every instance that may be part of a cycle, whichever *)
(* call made it, once no assignment to it is under way: "if a tracked       *)
(* objected is stored on a struct, an untracked struct will become tracked" *)
(* (tests/test_struct.py:1063).  It does not hold: what __post_init__       *)
(* stores may come after or past the decision.                              *)
CollectorSeesAll ==
    \A o \in Object : Visible(o) /\ HoldsTracked(o) => heap[o].tracked \/ Pending(o)

(* The same for the instances that __post_init__ has not assigned to, and   *)
(* that are not copies made in the middle of an assignment: all calls keep  *)
(* should_untrack right, whichever fields come from the caller, from        *)
(* defaults, twice or not at all.                                           *)
CollectorSees ==
    \A o \in Object \ exposed :
        heap[o].life # "free" /\ HoldsTracked(o) => heap[o].tracked \/ Pending(o)

(* A call that gets to the end of the fields has been called correctly, and *)
(* each field has what the caller passed for it, the last time if there are *)
(* several, or else its default; a call that refuses has been called        *)
(* wrongly or a required field is missing.  Renamed fields are not taken    *)
(* from a mixture of their names.                                           *)
BindsAsDeclared ==
    \A a \in Actor :
        LET f == call[a]
            expected == [i \in Field |-> IF f.given[i] # NoValue THEN f.given[i] ELSE DefaultOf(i)]
        IN  /\ f.at = "filled" =>
                  /\ ~f.wrong
                  /\ f.ways # {"name", "alias"}
                  /\ heap[f.obj].fields = expected
                  /\ \A i \in Field : expected[i] # NODEFAULT
            /\ f.at = "refused" => f.wrong \/ \E i \in Field : expected[i] = NODEFAULT

(* However many calls hash a frozen instance at once, and whether its hash  *)
(* is cached or not, all get the hash of its fields, which have to be       *)
(* hashable, unless __post_init__ has changed it in between.                *)
HashesAgree ==
    \A o \in Object \ exposed :
        \A h \in answers[o] :
            /\ h = heap[o].fields
            /\ \A i \in Field : h[i] \notin Container \cup {NoValue}
=============================================================================
