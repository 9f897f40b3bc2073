---------------------------- MODULE LookupTable ----------------------------
(***************************************************************************)
(* The lookup tables of the core: from integers (enums, literals, tags),   *)
(* from strings (the same) and from the names of a class's fields, built   *)
(* once from a mapping with distinct keys and then only read.              *)
(*                                                                         *)
(* Integers that lie close together are kept in a dense array; everything  *)
(* else is kept by open addressing, in a table whose loops have no bound   *)
(* but a free slot.  One step of a loop is one step of the specification.  *)
(***************************************************************************)
EXTENDS Integers, FiniteSets

CONSTANTS
    IntDict, StrDict,   \* the mappings that tables are made from
    FieldDict,          \* from the names of fields to their positions
    TagField,           \* the name of the tag field
    Hash,               \* murmur2 of every string that occurs
    AskedInt,           \* the integers asked for, of any size
    MaxInt,             \* INT64_MAX; INT64_MIN is -MaxInt - 1
    Null, Made          \* no value; what a `_missing_' method returned

Str == DOMAIN Hash
Word == 2 * MaxInt + 2
Int64 == (-MaxInt - 1)..MaxInt
Key == Int64 \cup Str

ASSUME ConstantsOK ==
    /\ MaxInt \in Nat
    /\ Hash \in [Str -> Nat]
    /\ AskedInt \subseteq Int
    /\ Str \cap Int = {}
    /\ \A d \in IntDict \cup StrDict \cup FieldDict :
          /\ IsFiniteSet(DOMAIN d)
          /\ DOMAIN d # {}
          /\ \A k \in DOMAIN d : d[k] # Null
    /\ \A d \in IntDict : DOMAIN d \subseteq Int
    /\ \A d \in StrDict \cup FieldDict : DOMAIN d \subseteq Str
    /\ \A d \in FieldDict : d \in [DOMAIN d -> Nat]

VARIABLES
    phase,      \* "none", "sizing", "filling" or "ready"
    kind,       \* "compact", "ints", "strs" or "names"
    items,      \* the mapping
    todo,       \* the keys that are not stored yet
    cls,        \* whether the table is that of an enum
    size,       \* ob_size
    offset,     \* of a dense array
    keys, values,   \* the slots; an empty one has the value Null
    pos,        \* where the next field name is expected
    call,       \* the loop that runs
    answer      \* the last answer

vars == <<phase, kind, items, todo, cls, size, offset, keys, values, pos, call, answer>>

-----------------------------------------------------------------------------
(* Arithmetic in 64 bits.                                                   *)

Unsigned(n) == IF n < 0 THEN n + Word ELSE n
Signed(u) == IF u > MaxInt THEN u - Word ELSE u
Minus(u, v) == IF u >= v THEN u - v ELSE u - v + Word

(* -(int64_t)x, as it wraps. *)
Negate(u) == IF Signed(u) = -MaxInt - 1 THEN Signed(u) ELSE -Signed(u)

(* Fault: negative integers below INT64_MIN are let through. *)
OverflowsUnsigned(n) == n >= Word \/ -n >= Word

(* fast_long_extract_parts: the magnitude does not fit. *)
Overflows(n) == n >= Word \/ -n > MaxInt + 1

-----------------------------------------------------------------------------
(* Construction.                                                            *)

Count == Cardinality(DOMAIN items)
Idle == [op |-> "none"]
NoAnswer == [op |-> "none"]
NoItems == [k \in {} |-> Null]

(* Fault: as many slots as there are items. *)
NeededExactly(k, n) == IF k = "names" THEN 2 * n ELSE n

Needed(k, n) == IF k = "names" THEN 2 * n ELSE (n * 4) \div 3
MinSize(k) == IF k = "names" THEN 16 ELSE 4
EmptyKey(k) == IF k = "ints" THEN 0 ELSE Null

New(d, k, p, n, lo) ==
    /\ phase' = p
    /\ kind' = k
    /\ items' = d
    /\ todo' = DOMAIN d
    /\ size' = n
    /\ offset' = lo
    /\ UNCHANGED <<keys, pos, call, answer>>

(* Whether the range of the keys makes a dense array worth it.              *)
Span(lo, hi) == Minus(Unsigned(hi), Unsigned(lo))
Dense(lo, hi, n) == 10 * Span(lo, hi) < 14 * n

(* A key that is no int64 is refused before anything is made. *)
NewIntLookup(d) ==
    \E lo, hi \in DOMAIN d :
        /\ \A k \in DOMAIN d : k \in Int64 /\ lo <= k /\ k <= hi
        /\ cls' \in BOOLEAN
        /\ IF Dense(lo, hi, Cardinality(DOMAIN d))
           THEN /\ New(d, "compact", "filling", Span(lo, hi) + 1, lo)
                /\ values' = [i \in 0..Span(lo, hi) |-> Null]
           ELSE /\ New(d, "ints", "sizing", MinSize("ints"), 0)
                /\ UNCHANGED values

NewStrLookup(d) ==
    /\ New(d, "strs", "sizing", MinSize("strs"), 0)
    /\ cls' \in BOOLEAN
    /\ UNCHANGED values

(* The index of the names of a class's fields. *)
NewNames(d) ==
    /\ New(d, "names", "sizing", MinSize("names"), 0)
    /\ cls' = FALSE
    /\ UNCHANGED values

Grow ==
    /\ phase = "sizing"
    /\ size < Needed(kind, Count)
    /\ size' = 2 * size
    /\ UNCHANGED <<phase, kind, items, todo, cls, offset, keys, values, pos, call, answer>>

Allocate ==
    /\ phase = "sizing"
    /\ size >= Needed(kind, Count)
    /\ phase' = "filling"
    /\ keys' = [i \in 0..(size - 1) |-> EmptyKey(kind)]
    /\ values' = [i \in 0..(size - 1) |-> Null]
    /\ UNCHANGED <<kind, items, todo, cls, size, offset, pos, call, answer>>

SetCompact(k) ==
    /\ phase = "filling"
    /\ kind = "compact"
    /\ k \in todo
    /\ values' = [values EXCEPT ![k - offset] = items[k]]
    /\ todo' = todo \ {k}
    /\ UNCHANGED <<phase, kind, items, cls, size, offset, keys, pos, call, answer>>

-----------------------------------------------------------------------------
(* Probing.  The size is a power of two, so that masking is `%'.            *)

HashOf(k) == IF kind = "ints" THEN Unsigned(k) ELSE Hash[k]

(* Where a loop is, with what it has not used of the hash. *)
Home(k) == [i |-> HashOf(k) % size, perturb |-> HashOf(k)]

(* Fault: the slot number is not masked. *)
AfterUnmasked(p) ==
    IF kind = "strs"
    THEN LET rest == p.perturb \div 32
         IN  [i |-> (5 * p.i + rest + 1) % size, perturb |-> rest]
    ELSE [p EXCEPT !.i = p.i + 1]

(* Fault: nothing is added, and slot 0 is its own successor. *)
AfterStuck(p) ==
    IF kind = "strs"
    THEN LET rest == p.perturb \div 32
         IN  [i |-> (5 * p.i + rest) % size, perturb |-> rest]
    ELSE [p EXCEPT !.i = (p.i + 1) % size]

After(p) ==
    IF kind = "strs"
    THEN LET rest == p.perturb \div 32
         IN  [i |-> (5 * p.i + rest + 1) % size, perturb |-> rest]
    ELSE [p EXCEPT !.i = (p.i + 1) % size]

Start(op, k, asked) == [op |-> op, key |-> k, asked |-> asked, at |-> Home(k)]

(* An integer is compared before the slot is known to be in use. *)
Stops(c) ==
    \/ values[c.at.i] = Null
    \/ keys[c.at.i] = c.key /\ ~(kind = "names" /\ c.op = "set")

SetHashed(k) ==
    /\ phase = "filling"
    /\ kind # "compact"
    /\ k \in todo
    /\ call = Idle
    /\ call' = Start("set", k, k)
    /\ UNCHANGED <<phase, kind, items, todo, cls, size, offset, keys, values, pos, answer>>

Probe ==
    /\ call # Idle
    /\ ~Stops(call)
    /\ call' = [call EXCEPT !.at = After(call.at)]
    /\ UNCHANGED <<phase, kind, items, todo, cls, size, offset, keys, values, pos, answer>>

Store ==
    /\ call.op = "set"
    /\ Stops(call)
    /\ keys' = [keys EXCEPT ![call.at.i] = call.key]
    /\ values' = [values EXCEPT ![call.at.i] = items[call.key]]
    /\ todo' = todo \ {call.key}
    /\ call' = Idle
    /\ UNCHANGED <<phase, kind, items, cls, size, offset, pos, answer>>

Filled ==
    /\ phase = "filling"
    /\ todo = {}
    /\ call = Idle
    /\ phase' = "ready"
    /\ UNCHANGED <<kind, items, todo, cls, size, offset, keys, values, pos, call, answer>>

-----------------------------------------------------------------------------
(* Questions.                                                               *)

(* An enum's `_missing_' may have an answer when the table has none. *)
Missing(got) == IF got = Null /\ cls THEN {Null, Made} ELSE {got}

Finish(asked, got) ==
    \E out \in Missing(got) : answer' = [op |-> "got", asked |-> asked, got |-> out]

InCompact(k) ==
    LET index == Minus(Unsigned(k), Unsigned(offset))
    IN  IF k >= offset /\ index < size THEN values[index] ELSE Null

Lookup(k, asked) ==
    /\ IF kind = "compact"
       THEN Finish(asked, InCompact(k)) /\ UNCHANGED call
       ELSE call' = Start("get", k, asked) /\ answer' = NoAnswer

Ask ==
    /\ phase = "ready"
    /\ call = Idle
    /\ UNCHANGED <<phase, kind, items, todo, cls, size, offset, keys, values>>

GetInt64(n) ==
    /\ Ask
    /\ kind \in {"compact", "ints"}
    /\ n \in Int64
    /\ Lookup(n, n)
    /\ UNCHANGED pos

GetUInt64(n) ==
    /\ Ask
    /\ kind \in {"compact", "ints"}
    /\ n \in 0..(Word - 1)
    /\ IF n > MaxInt THEN Finish(n, Null) /\ UNCHANGED call ELSE Lookup(n, n)
    /\ UNCHANGED pos

(* A Python integer, split into its sign and its magnitude. *)
GetPyInt(n) ==
    /\ Ask
    /\ kind \in {"compact", "ints"}
    /\ IF Overflows(n) \/ n > MaxInt
       THEN Finish(n, Null) /\ UNCHANGED call
       ELSE Lookup(IF n < 0 THEN Negate(-n) ELSE n, n)
    /\ UNCHANGED pos

GetStr(s) ==
    /\ Ask
    /\ kind = "strs"
    /\ Lookup(s, s)
    /\ UNCHANGED pos

NextPos(i) == IF i < Count - 1 THEN i + 1 ELSE 0

(* Names in the order of declaration are found without the index. *)
GetField(s) ==
    /\ Ask
    /\ kind = "names"
    /\ IF s \in DOMAIN items /\ items[s] = pos
       THEN Finish(s, pos) /\ pos' = NextPos(pos) /\ UNCHANGED call
       ELSE Lookup(s, s) /\ UNCHANGED pos

(* What is no field may be the tag. *)
Answer ==
    /\ call.op = "get"
    /\ Stops(call)
    /\ call' = Idle
    /\ LET got == values[call.at.i] IN
       IF kind = "names"
       THEN /\ Finish(call.asked, IF got # Null THEN got
                                  ELSE IF call.asked = TagField THEN -2 ELSE -1)
            /\ pos' = IF got # Null THEN NextPos(got) ELSE pos
       ELSE Finish(call.asked, got) /\ UNCHANGED pos
    /\ UNCHANGED <<phase, kind, items, todo, cls, size, offset, keys, values>>

(* The object being decoded ends, the next one starts with the first field. *)
NextObject ==
    /\ Ask
    /\ kind = "names"
    /\ pos' = 0
    /\ UNCHANGED <<call, answer>>

-----------------------------------------------------------------------------
Init ==
    /\ phase = "none"
    /\ kind = "names"
    /\ items = NoItems
    /\ todo = {}
    /\ cls = FALSE
    /\ size = 0
    /\ offset = 0
    /\ keys = NoItems
    /\ values = NoItems
    /\ pos = 0
    /\ call = Idle
    /\ answer = NoAnswer

(* The table is released: with its type, or because an item is no string. *)
Free ==
    /\ call = Idle
    /\ phase = "ready" \/ (phase = "filling" /\ kind = "strs")
    /\ phase' = "none" /\ kind' = "names" /\ items' = NoItems /\ todo' = {}
    /\ cls' = FALSE /\ size' = 0 /\ offset' = 0 /\ pos' = 0
    /\ keys' = NoItems /\ values' = NoItems
    /\ answer' = NoAnswer
    /\ UNCHANGED call

Build ==
    \/ /\ phase = "none"
       /\ \/ \E d \in IntDict : NewIntLookup(d)
          \/ \E d \in StrDict : NewStrLookup(d)
          \/ \E d \in FieldDict : NewNames(d)
    \/ Grow \/ Allocate
    \/ \E k \in todo : SetCompact(k) \/ SetHashed(k)
    \/ Filled

Get ==
    \/ \E n \in AskedInt : GetInt64(n) \/ GetUInt64(n) \/ GetPyInt(n)
    \/ \E s \in Str : GetStr(s) \/ GetField(s)
    \/ NextObject

Loop == Probe \/ Store \/ Answer

Next == Build \/ Get \/ Loop \/ Free

Spec == Init /\ [][Next]_vars
FairSpec == Spec /\ WF_vars(Loop)

-----------------------------------------------------------------------------
(* Properties.                                                              *)

Hashed == phase \in {"filling", "ready"} /\ kind # "compact"
Stored == DOMAIN items \ todo

Place == [i : 0..(size - 1), perturb : Nat]

(* The variables have their types and the table its slots.                  *)
TypeOK ==
    /\ phase \in {"none", "sizing", "filling", "ready"}
    /\ kind \in {"compact", "ints", "strs", "names"}
    /\ IF phase = "none" THEN items = NoItems
       ELSE items \in CASE kind \in {"compact", "ints"} -> IntDict
                        [] kind = "strs"  -> StrDict
                        [] kind = "names" -> FieldDict
    /\ todo \subseteq DOMAIN items
    /\ cls \in BOOLEAN
    /\ size \in Nat
    /\ offset \in Int64
    /\ Hashed => DOMAIN keys = 0..(size - 1) /\ DOMAIN values = 0..(size - 1)
    /\ pos \in Nat
    /\ call # Idle =>
          /\ Hashed
          /\ call \in [op : {"set", "get"}, key : Key, asked : Int \cup Str, at : Place]

(* Whatever is asked for, through whichever getter and from whichever       *)
(* position, the answer is what the mapping has for it; only an enum makes  *)
(* up an answer for what it does not have.                                  *)
AnswersAreExact ==
    answer # NoAnswer =>
        IF answer.asked \in DOMAIN items
        THEN answer.got = items[answer.asked]
        ELSE answer.got \in IF kind = "names"
                            THEN {IF answer.asked = TagField THEN -2 ELSE -1}
                            ELSE IF cls THEN {Null, Made} ELSE {Null}

(* A table is never full: the loops of _IntLookupHashmap_lookup,            *)
(* _StrLookup_lookup and StructMeta_get_field_index have no other end.       *)
SlotIsFree == Hashed => \E i \in 0..(size - 1) : values[i] = Null

(* Every loop ends.                                                         *)
ProbesEnd == (call # Idle) ~> (call = Idle)
=============================================================================
