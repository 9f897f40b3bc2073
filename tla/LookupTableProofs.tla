------------------------- MODULE LookupTableProofs -------------------------
(***************************************************************************)
(* Theorems about LookupTable, for every mapping, hash function and width. *)
(*                                                                         *)
(* A probe sequence has no closed form, so the invariant says that a key   *)
(* is stored by way of a set of places: the one the hash leads to, closed  *)
(* under going on, in which only the slot of the key ends a loop.          *)
(***************************************************************************)
EXTENDS LookupTable, FiniteSetTheorems, TLAPS

-----------------------------------------------------------------------------
(* The invariant.                                                           *)

(* Every loop for k that is at a place of P ends at the slot of k.          *)
LeadsTo(P, k) ==
    \A p \in P : /\ values[p.i] # Null
                 /\ keys[p.i] # k => After(p) \in P

(* The same for a key that is being stored: every loop gets to q.           *)
LeadsUpTo(P, k, q) ==
    \A p \in P : \/ p = q
                 \/ values[p.i] # Null /\ keys[p.i] # k /\ After(p) \in P

Used == {i \in 0..(size - 1) : values[i] # Null}

SizeOK ==
    /\ phase # "none" => IsFiniteSet(DOMAIN items)
    /\ phase # "none" /\ kind # "compact" => size >= MinSize(kind)
    /\ Hashed => size >= Needed(kind, Count)

SlotsOK ==
    Hashed =>
        /\ \A i \in 0..(size - 1) :
              values[i] # Null => keys[i] \in Stored /\ values[i] = items[keys[i]]
        /\ Cardinality(Used) <= Cardinality(Stored)
        /\ \A k \in Stored : \E P \in SUBSET Place : Home(k) \in P /\ LeadsTo(P, k)

CompactOK ==
    phase # "none" /\ kind = "compact" =>
        /\ phase \in {"filling", "ready"}
        /\ DOMAIN items \subseteq Int64
        /\ size <= Word
        /\ \A k \in DOMAIN items : offset <= k /\ k - offset < size
        /\ DOMAIN values = 0..(size - 1)
        /\ \A i \in 0..(size - 1) :
              values[i] = IF offset + i \in Stored THEN items[offset + i] ELSE Null

CallOK ==
    /\ call.op = "set" =>
          /\ phase = "filling"
          /\ call.key \in todo
          /\ \E P \in SUBSET Place : /\ Home(call.key) \in P
                                     /\ call.at \in P
                                     /\ LeadsUpTo(P, call.key, call.at)
    /\ call.op = "get" =>
          /\ phase = "ready"
          /\ call.asked = call.key
          /\ call.key \in DOMAIN items =>
                \E P \in SUBSET Place : call.at \in P /\ LeadsTo(P, call.key)

PhaseOK ==
    /\ phase = "ready" => todo = {}
    /\ phase # "ready" => answer = NoAnswer
    /\ phase = "sizing" => todo = DOMAIN items
    /\ kind = "names" => ~cls
    /\ kind = "ints" => DOMAIN items \subseteq Int64

IInv == TypeOK /\ SizeOK /\ SlotsOK /\ CompactOK /\ CallOK /\ PhaseOK /\ AnswersAreExact

-----------------------------------------------------------------------------
(* Keys, places and counting.                                               *)

LEMMA KeysOfItems ==
    ASSUME TypeOK, PhaseOK
    PROVE  /\ phase # "none" => IsFiniteSet(DOMAIN items)
           /\ kind = "ints" => DOMAIN items \subseteq Int64
           /\ phase # "none" /\ kind \in {"strs", "names"} => DOMAIN items \subseteq Str
           /\ \A k \in DOMAIN items : items[k] # Null
           /\ kind = "names" /\ phase # "none" => \A k \in DOMAIN items : items[k] \in Nat
<1>1. /\ phase # "none" /\ kind \in {"compact", "ints"} => items \in IntDict
      /\ phase # "none" /\ kind = "strs" => items \in StrDict
      /\ phase # "none" /\ kind = "names" => items \in FieldDict
      /\ kind \in {"compact", "ints", "strs", "names"}
      /\ phase = "none" => items = NoItems
  BY DEF TypeOK
<1>2. CASE phase = "none"
  BY <1>1, <1>2 DEF NoItems, PhaseOK
<1>3. CASE phase # "none"
  <2>1. items \in IntDict \cup StrDict \cup FieldDict
    BY <1>1, <1>3
  <2>2. IsFiniteSet(DOMAIN items) /\ \A k \in DOMAIN items : items[k] # Null
    BY <2>1, ConstantsOK
  <2>3. kind \in {"strs", "names"} => DOMAIN items \subseteq Str
    BY <1>1, <1>3, ConstantsOK
  <2>4. kind = "names" => \A k \in DOMAIN items : items[k] \in Nat
    <3> SUFFICES ASSUME kind = "names" PROVE \A k \in DOMAIN items : items[k] \in Nat
      OBVIOUS
    <3>1. items \in [DOMAIN items -> Nat]
      BY <1>1, <1>3, ConstantsOK
    <3> QED BY <3>1
  <2> QED BY <1>3, <2>2, <2>3, <2>4 DEF PhaseOK
<1> QED BY <1>2, <1>3

LEMMA HomeIsPlace ==
    ASSUME size \in Nat, size >= 4, NEW k, k \in (IF kind = "ints" THEN Int64 ELSE Str)
    PROVE  Home(k) \in Place
<1>1. MaxInt \in Nat
  BY ConstantsOK
<1>2. HashOf(k) \in Nat
  <2>1. CASE kind = "ints"
    BY <1>1, <2>1 DEF HashOf, Unsigned, Int64, Word
  <2>2. CASE kind # "ints"
    BY <2>2, ConstantsOK DEF HashOf
  <2> QED BY <2>1, <2>2
<1>3. HashOf(k) % size \in 0..(size - 1)
  BY <1>2
<1> QED
  BY <1>2, <1>3 DEF Home, Place

LEMMA AfterIsPlace ==
    ASSUME size \in Nat, size >= 4, NEW p \in Place
    PROVE  After(p) \in Place
<1>1. p.i \in 0..(size - 1) /\ p.perturb \in Nat
  BY DEF Place
<1>2. p.perturb \div 32 \in Nat
  BY <1>1
<1>3. (5 * p.i + p.perturb \div 32 + 1) % size \in 0..(size - 1)
  BY <1>1, <1>2
<1>4. (p.i + 1) % size \in 0..(size - 1)
  BY <1>1
<1> QED
  BY <1>1, <1>2, <1>3, <1>4 DEF After, Place

LEMMA NotFull ==
    ASSUME TypeOK, SizeOK, SlotsOK, Hashed
    PROVE  \E i \in 0..(size - 1) : values[i] = Null
<1>1. Count \in Nat /\ size \in Nat
  BY FS_CardinalityType DEF SizeOK, Hashed, Count, TypeOK
<1>2. Count < size
  <2>1. kind \in {"ints", "strs", "names"}
    BY DEF TypeOK, Hashed
  <2>2. CASE kind = "names"
    BY <1>1, <2>2 DEF SizeOK, Hashed, Needed, MinSize
  <2>3. CASE kind # "names"
    <3>1. size >= 4 /\ size >= (Count * 4) \div 3
      BY <2>3 DEF SizeOK, Hashed, Needed, MinSize
    <3>2. Count < 3 \/ (Count * 4) \div 3 >= Count + 1
      BY <1>1
    <3> QED BY <1>1, <3>1, <3>2
  <2> QED BY <2>2, <2>3
<1>3. IsFiniteSet(Stored) /\ Cardinality(Stored) <= Count
  BY FS_Subset DEF Stored, SizeOK, Hashed, Count
<1>4. Cardinality(0..(size - 1)) = size
  BY <1>1, FS_Interval
<1>5. SUFFICES ASSUME \A i \in 0..(size - 1) : values[i] # Null PROVE FALSE
  OBVIOUS
<1>6. Used = 0..(size - 1)
  BY <1>5 DEF Used
<1>7. Cardinality(Stored) \in Nat
  BY <1>3, FS_CardinalityType
<1> QED
  BY <1>1, <1>2, <1>3, <1>4, <1>6, <1>7 DEF SlotsOK

-----------------------------------------------------------------------------
(* What the invariant says of a table is untouched when the table is.       *)

LEMMA TableKept ==
    ASSUME SizeOK, SlotsOK, CompactOK,
           UNCHANGED <<phase, kind, items, todo, size, offset, keys, values>>
    PROVE  SizeOK' /\ SlotsOK' /\ CompactOK'
<1>1. SizeOK'
  BY DEF SizeOK, Hashed, Count, Needed, MinSize
<1>2. CompactOK'
  BY DEF CompactOK, Stored
<1>3. SlotsOK'
  <2>1. Hashed' = Hashed /\ Used' = Used /\ Stored' = Stored /\ Place' = Place
    BY DEF Hashed, Used, Stored, Place
  <2>2. \A k : Home(k)' = Home(k)
    BY DEF Home, HashOf
  <2>3. \A P, k : LeadsTo(P, k)' = LeadsTo(P, k)
    BY DEF LeadsTo, After
  <2> QED BY <2>1, <2>2, <2>3 DEF SlotsOK
<1> QED BY <1>1, <1>2, <1>3

(* Nothing is stored before the slots are allocated. *)
LEMMA NotHashedYet ==
    ASSUME ~Hashed, call = Idle
    PROVE  SlotsOK /\ CallOK
  BY DEF SlotsOK, CallOK, Idle

-----------------------------------------------------------------------------
(* Construction.                                                            *)

LEMMA InitOK == Init => IInv
<1> SUFFICES ASSUME Init PROVE IInv
  OBVIOUS
<1>1. ~Hashed /\ call = Idle /\ phase = "none" /\ answer = NoAnswer /\ items = NoItems
  BY DEF Init, Hashed
<1>2. TypeOK
  <2>1. 0 \in Int64
    BY ConstantsOK DEF Int64
  <2> QED BY <1>1, <2>1 DEF Init, TypeOK
<1>3. SlotsOK /\ CallOK
  BY <1>1, NotHashedYet
<1> QED
  BY <1>1, <1>2, <1>3 DEF Init, IInv, SizeOK, CompactOK, PhaseOK, AnswersAreExact, Hashed

LEMMA WordSize == MaxInt \in Nat /\ Word \in Nat /\ Word = 2 * MaxInt + 2
  BY ConstantsOK DEF Word

(* The range of two int64 fits, and is their distance. *)
LEMMA SpanExact ==
    ASSUME NEW lo \in Int64, NEW hi \in Int64, lo <= hi
    PROVE  Span(lo, hi) = hi - lo /\ hi - lo < Word
  BY WordSize DEF Span, Minus, Unsigned, Int64

LEMMA NewIntStep ==
    ASSUME IInv, phase = "none", NEW d \in IntDict, NewIntLookup(d)
    PROVE  IInv'
<1>1. PICK lo \in DOMAIN d, hi \in DOMAIN d :
        /\ \A k \in DOMAIN d : k \in Int64 /\ lo <= k /\ k <= hi
        /\ cls' \in BOOLEAN
        /\ IF Dense(lo, hi, Cardinality(DOMAIN d))
           THEN /\ New(d, "compact", "filling", Span(lo, hi) + 1, lo)
                /\ values' = [i \in 0..Span(lo, hi) |-> Null]
           ELSE /\ New(d, "ints", "sizing", MinSize("ints"), 0)
                /\ UNCHANGED values
  BY DEF NewIntLookup
<1>2. DOMAIN d \subseteq Int64 /\ IsFiniteSet(DOMAIN d)
  BY <1>1, ConstantsOK
<1>3. call = Idle /\ answer = NoAnswer /\ pos \in Nat /\ 0 \in Int64 /\ lo \in Int64
  BY <1>1, <1>2, WordSize DEF IInv, TypeOK, Hashed, PhaseOK, Int64
<1>4. CASE Dense(lo, hi, Cardinality(DOMAIN d))
  <2>1. /\ phase' = "filling" /\ kind' = "compact" /\ items' = d /\ todo' = DOMAIN d
        /\ size' = Span(lo, hi) + 1 /\ offset' = lo /\ cls' \in BOOLEAN
        /\ values' = [i \in 0..Span(lo, hi) |-> Null]
        /\ pos' = pos /\ call' = Idle /\ answer' = NoAnswer
    BY <1>1, <1>3, <1>4 DEF New
  <2>2. Span(lo, hi) = hi - lo /\ hi - lo < Word /\ lo <= hi /\ hi \in Int64
    BY <1>1, <1>2, SpanExact
  <2>3. size' \in Nat /\ size' = hi - lo + 1
    BY <2>1, <2>2, <1>3 DEF Int64
  <2>4. ~Hashed' /\ Stored' = {}
    BY <2>1 DEF Hashed, Stored
  <2>5. TypeOK'
    BY <1>3, <2>1, <2>3, <2>4 DEF TypeOK
  <2>6. CompactOK'
    <3>1. size' <= Word
      BY <2>2, <2>3, <1>3, WordSize DEF Int64
    <3>2. \A k \in DOMAIN d : lo <= k /\ k - lo < size'
      BY <1>1, <1>3, <2>2, <2>3 DEF Int64
    <3>3. DOMAIN values' = 0..(size' - 1) /\ \A i \in 0..(size' - 1) : values'[i] = Null
      BY <2>1, <2>2, <2>3, <1>3 DEF Int64
    <3> QED BY <1>2, <2>1, <2>4, <3>1, <3>2, <3>3 DEF CompactOK
  <2>7. SlotsOK' /\ CallOK'
    BY <2>1, <2>4 DEF SlotsOK, CallOK, Idle
  <2> QED
    BY <1>2, <2>1, <2>4, <2>5, <2>6, <2>7 DEF IInv, SizeOK, PhaseOK, AnswersAreExact
<1>5. CASE ~Dense(lo, hi, Cardinality(DOMAIN d))
  <2>1. /\ phase' = "sizing" /\ kind' = "ints" /\ items' = d /\ todo' = DOMAIN d
        /\ size' = 4 /\ offset' = 0 /\ cls' \in BOOLEAN
        /\ pos' = pos /\ call' = Idle /\ answer' = NoAnswer
    BY <1>1, <1>3, <1>5 DEF New, MinSize
  <2>2. ~Hashed'
    BY <2>1 DEF Hashed
  <2>3. TypeOK'
    BY <1>3, <2>1, <2>2 DEF TypeOK
  <2>4. SlotsOK' /\ CallOK'
    BY <2>1, <2>2 DEF SlotsOK, CallOK, Idle
  <2> QED
    BY <1>2, <2>1, <2>2, <2>3, <2>4
    DEF IInv, SizeOK, PhaseOK, CompactOK, AnswersAreExact, MinSize
<1> QED BY <1>4, <1>5

LEMMA NewOtherStep ==
    ASSUME IInv, phase = "none",
           \/ \E d \in StrDict : NewStrLookup(d)
           \/ \E d \in FieldDict : NewNames(d)
    PROVE  IInv'
<1>1. PICK d \in StrDict \cup FieldDict, k \in {"strs", "names"} :
        /\ New(d, k, "sizing", MinSize(k), 0)
        /\ cls' \in BOOLEAN
        /\ k = "names" => cls' = FALSE
        /\ d \in IF k = "strs" THEN StrDict ELSE FieldDict
  BY DEF NewStrLookup, NewNames
<1>2. call = Idle /\ answer = NoAnswer /\ pos \in Nat /\ 0 \in Int64
  BY WordSize DEF IInv, TypeOK, Hashed, PhaseOK, Int64
<1>3. /\ phase' = "sizing" /\ kind' = k /\ items' = d /\ todo' = DOMAIN d
      /\ size' = MinSize(k) /\ offset' = 0 /\ cls' \in BOOLEAN
      /\ pos' = pos /\ call' = Idle /\ answer' = NoAnswer
  BY <1>1, <1>2 DEF New
<1>4. ~Hashed' /\ size' \in Nat /\ IsFiniteSet(DOMAIN d)
  BY <1>3, ConstantsOK DEF Hashed, MinSize
<1>5. TypeOK'
  BY <1>1, <1>2, <1>3, <1>4 DEF TypeOK
<1>6. SlotsOK' /\ CallOK'
  BY <1>3, <1>4 DEF SlotsOK, CallOK, Idle
<1>7. SizeOK' /\ CompactOK' /\ PhaseOK' /\ AnswersAreExact'
  <2>1. MinSize(k) \in Nat /\ MinSize(kind)' = MinSize(k) /\ size' >= MinSize(kind)'
    BY <1>3 DEF MinSize
  <2> QED
    BY <1>1, <1>3, <1>4, <2>1 DEF SizeOK, CompactOK, PhaseOK, AnswersAreExact
<1> QED BY <1>5, <1>6, <1>7 DEF IInv

LEMMA SizingSteps ==
    ASSUME IInv, Grow \/ Allocate
    PROVE  IInv'
<1>1. phase = "sizing" /\ call = Idle /\ answer = NoAnswer /\ ~Hashed
  BY DEF Grow, Allocate, IInv, TypeOK, Hashed, PhaseOK
<1>2. kind # "compact"
  BY <1>1 DEF IInv, CompactOK
<1>3. size \in Nat /\ size >= MinSize(kind) /\ MinSize(kind) \in Nat /\ MinSize(kind) >= 4
  BY <1>1, <1>2 DEF IInv, TypeOK, SizeOK, MinSize
<1>4. CASE Grow
  <2>1. /\ size' = 2 * size
        /\ UNCHANGED <<phase, kind, items, todo, cls, offset, keys, values, pos, call, answer>>
    BY <1>4 DEF Grow
  <2>2. ~Hashed' /\ size' \in Nat /\ size' >= MinSize(kind)
    BY <1>1, <1>3, <2>1 DEF Hashed
  <2>3. TypeOK'
    BY <1>1, <2>1, <2>2 DEF IInv, TypeOK
  <2>4. SlotsOK' /\ CallOK'
    BY <1>1, <2>1, <2>2 DEF SlotsOK, CallOK, Idle
  <2> QED
    BY <1>1, <1>2, <2>1, <2>2, <2>3, <2>4
    DEF IInv, SizeOK, CompactOK, PhaseOK, AnswersAreExact, MinSize
<1>5. CASE Allocate
  <2>1. /\ size >= Needed(kind, Count)
        /\ phase' = "filling"
        /\ keys' = [i \in 0..(size - 1) |-> EmptyKey(kind)]
        /\ values' = [i \in 0..(size - 1) |-> Null]
        /\ UNCHANGED <<kind, items, todo, cls, size, offset, pos, call, answer>>
    BY <1>5 DEF Allocate
  <2>2. Hashed'
    BY <1>2, <2>1 DEF Hashed
  <2>3. TypeOK'
    BY <1>1, <2>1, <2>2 DEF IInv, TypeOK
  <2>4. SizeOK'
    BY <1>1, <1>2, <2>1 DEF IInv, SizeOK, Count, Needed, MinSize, Hashed
  <2>5. todo = DOMAIN items
    BY <1>1 DEF IInv, PhaseOK
  <2>6. Stored' = {} /\ Used' = {}
    BY <2>1, <2>5 DEF Stored, Used
  <2>7. SlotsOK'
    BY <2>1, <2>6, FS_EmptySet DEF SlotsOK
  <2> QED
    BY <1>1, <1>2, <2>1, <2>3, <2>4, <2>7
    DEF IInv, CompactOK, CallOK, PhaseOK, AnswersAreExact, Idle
<1> QED BY <1>4, <1>5

-----------------------------------------------------------------------------
(* Storing.                                                                 *)

LEMMA SetCompactStep ==
    ASSUME IInv, NEW k \in todo, SetCompact(k)
    PROVE  IInv'
<1>1. /\ phase = "filling" /\ kind = "compact"
      /\ values' = [values EXCEPT ![k - offset] = items[k]]
      /\ todo' = todo \ {k}
      /\ UNCHANGED <<phase, kind, items, cls, size, offset, keys, pos, call, answer>>
  BY DEF SetCompact
<1>2. ~Hashed /\ ~Hashed' /\ call = Idle
  BY <1>1 DEF IInv, TypeOK, Hashed
<1>3. TypeOK'
  BY <1>1, <1>2 DEF IInv, TypeOK
<1>4. SlotsOK' /\ CallOK'
  BY <1>1, <1>2 DEF SlotsOK, CallOK, Idle
<1>5. CompactOK'
  <2>1. k \in DOMAIN items /\ todo \subseteq DOMAIN items /\ DOMAIN items \subseteq Int64
        /\ size \in Nat /\ offset \in Int64 /\ offset <= k /\ k - offset < size
        /\ DOMAIN values = 0..(size - 1)
        /\ \A i \in 0..(size - 1) :
              values[i] = IF offset + i \in Stored THEN items[offset + i] ELSE Null
    BY <1>1 DEF IInv, TypeOK, CompactOK
  <2>2. Stored' = Stored \cup {k}
    BY <1>1, <2>1 DEF Stored
  <2>3. k \in Int /\ offset \in Int /\ Int64 \subseteq Int
    BY <2>1, ConstantsOK DEF Int64
  <2>4. ASSUME NEW i \in 0..(size - 1)
        PROVE  values'[i] = IF offset + i \in Stored' THEN items[offset + i] ELSE Null
    <3>1. CASE i = k - offset
      BY <1>1, <2>1, <2>2, <2>3, <3>1
    <3>2. CASE i # k - offset
      <4>1. offset + i # k
        BY <2>1, <2>3, <3>2
      <4> QED BY <1>1, <2>1, <2>2, <3>2, <4>1
    <3> QED BY <3>1, <3>2
  <2> QED BY <1>1, <2>1, <2>4 DEF IInv, CompactOK
<1> QED
  BY <1>1, <1>2, <1>3, <1>4, <1>5
  DEF IInv, SizeOK, PhaseOK, AnswersAreExact

(* The key of an item has its place in the table. *)
LEMMA KeyHome ==
    ASSUME IInv, Hashed, NEW k \in (IF kind = "ints" THEN Int64 ELSE Str)
    PROVE  Home(k) \in Place /\ k \in Key
<1>1. size \in Nat /\ size >= 4
  BY DEF IInv, TypeOK, SizeOK, Hashed, MinSize
<1> QED BY <1>1, HomeIsPlace DEF Key

LEMMA SetHashedStep ==
    ASSUME IInv, NEW k \in todo, SetHashed(k)
    PROVE  IInv'
<1>1. /\ phase = "filling" /\ kind # "compact" /\ call = Idle
      /\ call' = Start("set", k, k)
      /\ UNCHANGED <<phase, kind, items, todo, cls, size, offset, keys, values, pos, answer>>
  BY DEF SetHashed
<1>2. Hashed /\ Hashed' /\ Place' = Place /\ Key' = Key
  BY <1>1 DEF Hashed, Place
<1>3. k \in (IF kind = "ints" THEN Int64 ELSE Str) /\ k \in Int \cup Str
  <2>1. k \in DOMAIN items /\ kind \in {"ints", "strs", "names"}
    BY <1>1 DEF IInv, TypeOK
  <2>2. Int64 \subseteq Int
    BY ConstantsOK DEF Int64
  <2> QED BY <1>1, <2>1, <2>2, KeysOfItems DEF IInv
<1>4. Home(k) \in Place /\ k \in Key
  BY <1>2, <1>3, KeyHome
<1>5. call' = [op |-> "set", key |-> k, asked |-> k, at |-> Home(k)]
  BY <1>1 DEF Start
<1>6. TypeOK'
  <2>1. call' \in [op : {"set", "get"}, key : Key, asked : Int \cup Str, at : Place]
    BY <1>3, <1>4, <1>5
  <2> QED BY <1>1, <1>2, <2>1 DEF IInv, TypeOK
<1>7. CallOK'
  <2>1. Home(k)' = Home(k)
    BY <1>1 DEF Home, HashOf
  <2>2. LeadsUpTo({Home(k)}, k, Home(k))'
    BY <2>1 DEF LeadsUpTo
  <2> QED
    BY <1>1, <1>2, <1>4, <1>5, <2>1, <2>2 DEF CallOK
<1>8. SizeOK' /\ SlotsOK' /\ CompactOK'
  BY <1>1, TableKept DEF IInv
<1> QED
  BY <1>1, <1>6, <1>7, <1>8 DEF IInv, PhaseOK, AnswersAreExact

LEMMA FilledStep ==
    ASSUME IInv, Filled
    PROVE  IInv'
<1>1. /\ phase = "filling" /\ todo = {} /\ call = Idle /\ phase' = "ready"
      /\ UNCHANGED <<kind, items, todo, cls, size, offset, keys, values, pos, call, answer>>
  BY DEF Filled
<1>2. Hashed' = Hashed /\ Stored' = Stored /\ Used' = Used /\ Place' = Place
  BY <1>1 DEF Hashed, Stored, Used, Place
<1>3. TypeOK'
  BY <1>1, <1>2 DEF IInv, TypeOK
<1>4. SizeOK' /\ CompactOK'
  BY <1>1, <1>2 DEF IInv, SizeOK, CompactOK, Count, Needed, MinSize
<1>5. SlotsOK'
  <2>1. \A k : Home(k)' = Home(k)
    BY <1>1 DEF Home, HashOf
  <2>2. \A P, k : LeadsTo(P, k)' = LeadsTo(P, k)
    BY <1>1 DEF LeadsTo, After
  <2> QED BY <1>1, <1>2, <2>1, <2>2 DEF IInv, SlotsOK
<1> QED
  BY <1>1, <1>3, <1>4, <1>5 DEF IInv, CallOK, PhaseOK, AnswersAreExact, Idle

(* What a loop works on. *)
LEMMA CallFacts ==
    ASSUME IInv, call # Idle
    PROVE  /\ Hashed /\ size \in Nat /\ size >= 4
           /\ call.op \in {"set", "get"} /\ call.at \in Place
           /\ call = [op |-> call.op, key |-> call.key, asked |-> call.asked, at |-> call.at]
           /\ call.key \in Key /\ call.asked \in Int \cup Str
           /\ DOMAIN keys = 0..(size - 1) /\ DOMAIN values = 0..(size - 1)
           /\ call.at.i \in 0..(size - 1)
  BY DEF IInv, TypeOK, SizeOK, Hashed, MinSize, Place

(* Only an empty slot ends a loop that stores.                              *)
LEMMA StoresInEmpty ==
    ASSUME IInv, call.op = "set", call # Idle, Stops(call)
    PROVE  values[call.at.i] = Null
<1>1. call.key \in todo /\ Hashed /\ call.at.i \in 0..(size - 1)
  BY CallFacts DEF IInv, CallOK
<1>2. call.key \notin Stored
  BY <1>1 DEF Stored
<1> QED
  BY <1>1, <1>2 DEF IInv, SlotsOK, Stops

LEMMA ProbeStep ==
    ASSUME IInv, Probe
    PROVE  IInv'
<1>1. /\ call # Idle /\ ~Stops(call) /\ call' = [call EXCEPT !.at = After(call.at)]
      /\ UNCHANGED <<phase, kind, items, todo, cls, size, offset, keys, values, pos, answer>>
  BY DEF Probe
<1>2. Hashed' = Hashed /\ Place' = Place
  BY <1>1 DEF Hashed, Place
<1>3. After(call.at) \in Place
  BY <1>1, CallFacts, AfterIsPlace
<1>4. call' = [op |-> call.op, key |-> call.key, asked |-> call.asked, at |-> After(call.at)]
  BY <1>1, CallFacts
<1>5. TypeOK'
  <2>1. call' \in [op : {"set", "get"}, key : Key, asked : Int \cup Str, at : Place]
    BY <1>1, <1>3, <1>4, CallFacts
  <2> QED BY <1>1, <1>2, <2>1, CallFacts DEF IInv, TypeOK
<1>6. values[call.at.i] # Null /\ (kind # "names" \/ call.op = "get" => keys[call.at.i] # call.key)
  BY <1>1, CallFacts DEF Stops
<1>7. \A p : After(p)' = After(p)
  BY <1>1 DEF After
<1>8. \A k : Home(k)' = Home(k)
  BY <1>1 DEF Home, HashOf
<1>9. CallOK'
  <2>1. CASE call.op = "set"
    <3>1. phase = "filling" /\ call.key \in todo
      BY <2>1 DEF IInv, CallOK
    <3>2. keys[call.at.i] # call.key
      <4>1. call.key \notin Stored
        BY <3>1 DEF Stored
      <4> QED BY <1>1, <1>6, <4>1, CallFacts DEF IInv, SlotsOK
    <3>3. PICK P \in SUBSET Place : /\ Home(call.key) \in P
                                   /\ call.at \in P
                                   /\ LeadsUpTo(P, call.key, call.at)
      BY <2>1 DEF IInv, CallOK
    <3>4. PICK Q \in SUBSET Place : Q = P \cup {After(call.at)}
      BY <1>3, <3>3
    <3>5. ASSUME NEW p \in Q
          PROVE  \/ p = After(call.at)
                 \/ values[p.i] # Null /\ keys[p.i] # call.key /\ After(p) \in Q
      BY <1>6, <3>2, <3>3, <3>4 DEF LeadsUpTo
    <3>6. LeadsUpTo(Q, call.key, call.at)'
      BY <1>1, <1>4, <1>7, <3>5 DEF LeadsUpTo
    <3>7. Home(call.key)' \in Q /\ call'.at \in Q /\ call'.key = call.key
      BY <1>4, <1>8, <3>3, <3>4
    <3> QED BY <1>1, <1>2, <1>4, <2>1, <3>1, <3>4, <3>6, <3>7 DEF CallOK
  <2>2. CASE call.op = "get"
    <3>1. phase = "ready" /\ call.asked = call.key
      BY <2>2 DEF IInv, CallOK
    <3>2. ASSUME call.key \in DOMAIN items
          PROVE  \E P \in SUBSET Place' : After(call.at) \in P /\ LeadsTo(P, call.key)'
      <4>1. PICK P \in SUBSET Place : call.at \in P /\ LeadsTo(P, call.key)
        BY <2>2, <3>2 DEF IInv, CallOK
      <4>2. After(call.at) \in P
        BY <1>6, <2>2, <4>1 DEF LeadsTo
      <4>3. LeadsTo(P, call.key)'
        BY <1>1, <1>4, <1>7, <4>1 DEF LeadsTo
      <4> QED BY <1>2, <4>1, <4>2, <4>3
    <3> QED BY <1>1, <1>4, <2>2, <3>1, <3>2 DEF CallOK
  <2> QED BY <1>1, <2>1, <2>2, CallFacts
<1>10. SizeOK' /\ SlotsOK' /\ CompactOK'
  BY <1>1, TableKept DEF IInv
<1> QED
  BY <1>1, <1>5, <1>9, <1>10 DEF IInv, PhaseOK, AnswersAreExact

LEMMA StoreStep ==
    ASSUME IInv, Store
    PROVE  IInv'
<1>1. /\ call.op = "set" /\ Stops(call)
      /\ keys' = [keys EXCEPT ![call.at.i] = call.key]
      /\ values' = [values EXCEPT ![call.at.i] = items[call.key]]
      /\ todo' = todo \ {call.key} /\ call' = Idle
      /\ UNCHANGED <<phase, kind, items, cls, size, offset, pos, answer>>
  BY DEF Store
<1>2. call # Idle
  BY <1>1 DEF Idle
<1> DEFINE s == call.at.i
           k == call.key
<1>3. /\ Hashed /\ Hashed' /\ s \in 0..(size - 1) /\ values[s] = Null
      /\ DOMAIN keys = 0..(size - 1) /\ DOMAIN values = 0..(size - 1)
      /\ phase = "filling" /\ k \in todo /\ kind # "compact"
  BY <1>1, <1>2, CallFacts, StoresInEmpty DEF IInv, CallOK, Hashed
<1>4. k \in DOMAIN items /\ k \notin Stored /\ Stored' = Stored \cup {k} /\ items[k] # Null
  BY <1>1, <1>3, KeysOfItems DEF IInv, TypeOK, Stored
<1>5. Place' = Place /\ (\A p : After(p)' = After(p)) /\ (\A j : Home(j)' = Home(j))
  BY <1>1 DEF Place, After, Home, HashOf
<1>6. TypeOK'
  BY <1>1, <1>3 DEF IInv, TypeOK
<1>7. SlotsOK'
  <2>1. ASSUME NEW j \in 0..(size - 1), values'[j] # Null
        PROVE  keys'[j] \in Stored' /\ values'[j] = items[keys'[j]]
    BY <1>1, <1>3, <1>4, <2>1 DEF IInv, SlotsOK
  <2>2. Cardinality(Used') <= Cardinality(Stored')
    <3>1. IsFiniteSet(DOMAIN items) /\ IsFiniteSet(Stored)
      BY <1>3, FS_Subset DEF IInv, SizeOK, Stored
    <3>2. IsFiniteSet(Used)
      <4>1. size \in Nat
        BY <1>2, CallFacts
      <4>2. IsFiniteSet(0..(size - 1))
        BY <4>1, FS_Interval
      <4> QED BY <4>2, FS_Subset DEF Used
    <3>3. Used' = Used \cup {s} /\ s \notin Used
      BY <1>1, <1>3, <1>4 DEF Used
    <3>4. Cardinality(Used') = Cardinality(Used) + 1
      BY <3>2, <3>3, FS_AddElement
    <3>5. Cardinality(Stored') = Cardinality(Stored) + 1
      BY <1>4, <3>1, FS_AddElement
    <3>6. Cardinality(Used) \in Nat /\ Cardinality(Stored) \in Nat
      BY <3>1, <3>2, FS_CardinalityType
    <3> QED BY <1>3, <3>4, <3>5, <3>6 DEF IInv, SlotsOK
  <2>3. ASSUME NEW j \in Stored'
        PROVE  \E P \in SUBSET Place' : Home(j)' \in P /\ LeadsTo(P, j)'
    <3>1. CASE j = k
      <4>1. PICK P \in SUBSET Place : /\ Home(j) \in P
                                     /\ LeadsUpTo(P, j, call.at)
        BY <1>1, <3>1 DEF IInv, CallOK
      <4>2. ASSUME NEW p \in P
            PROVE  values'[p.i] # Null /\ (keys'[p.i] # j => After(p) \in P)
        <5>1. p.i \in 0..(size - 1)
          BY <4>1 DEF Place
        <5>2. CASE p = call.at
          BY <1>1, <1>3, <1>4, <3>1, <5>2
        <5>3. CASE p # call.at
          <6>1. values[p.i] # Null /\ After(p) \in P
            BY <4>1, <5>3 DEF LeadsUpTo
          <6>2. p.i # s
            BY <1>3, <6>1
          <6> QED BY <1>1, <1>3, <5>1, <6>1, <6>2
        <5> QED BY <5>2, <5>3
      <4>3. LeadsTo(P, j)'
        BY <1>1, <1>5, <4>2 DEF LeadsTo
      <4> QED BY <1>5, <4>1, <4>3
    <3>2. CASE j # k
      <4>1. PICK P \in SUBSET Place : Home(j) \in P /\ LeadsTo(P, j)
        BY <1>3, <1>4, <3>2 DEF IInv, SlotsOK
      <4>2. ASSUME NEW p \in P
            PROVE  values'[p.i] # Null /\ (keys'[p.i] # j => After(p) \in P)
        <5>1. p.i \in 0..(size - 1) /\ values[p.i] # Null /\ (keys[p.i] # j => After(p) \in P)
          BY <4>1 DEF Place, LeadsTo
        <5>2. p.i # s
          BY <1>3, <5>1
        <5> QED BY <1>1, <1>3, <5>1, <5>2
      <4>3. LeadsTo(P, j)'
        BY <1>1, <1>5, <4>2 DEF LeadsTo
      <4> QED BY <1>5, <4>1, <4>3
    <3> QED BY <3>1, <3>2
  <2> QED BY <1>1, <2>1, <2>2, <2>3 DEF SlotsOK
<1>8. SizeOK' /\ CompactOK'
  BY <1>1, <1>3 DEF IInv, SizeOK, CompactOK, Hashed, Count, Needed, MinSize
<1> QED
  BY <1>1, <1>3, <1>6, <1>7, <1>8 DEF IInv, CallOK, PhaseOK, AnswersAreExact, Idle

-----------------------------------------------------------------------------
(* Questions.                                                               *)

(* What an exact getter returns for what it is asked. *)
Right(asked) ==
    IF asked \in DOMAIN items THEN items[asked]
    ELSE IF kind = "names" THEN (IF asked = TagField THEN -2 ELSE -1) ELSE Null

LEMMA FinishStep ==
    ASSUME IInv, phase = "ready", NEW asked, Finish(asked, Right(asked)),
           UNCHANGED <<phase, kind, items, todo, cls, size, offset, keys, values>>,
           call' = Idle, pos' \in Nat
    PROVE  IInv'
<1>1. PICK out \in Missing(Right(asked)) :
        answer' = [op |-> "got", asked |-> asked, got |-> out]
  BY DEF Finish
<1>2. AnswersAreExact'
  <2>1. CASE asked \in DOMAIN items
    <3>1. items[asked] # Null
      BY <2>1, KeysOfItems DEF IInv
    <3>2. out = items[asked]
      BY <1>1, <2>1, <3>1 DEF Right, Missing
    <3> QED BY <1>1, <2>1, <3>2 DEF AnswersAreExact
  <2>2. CASE asked \notin DOMAIN items
    <3>1. kind = "names" => ~cls
      BY DEF IInv, PhaseOK
    <3> QED BY <1>1, <2>2, <3>1 DEF Right, Missing, AnswersAreExact
  <2> QED BY <2>1, <2>2
<1>3. SizeOK' /\ SlotsOK' /\ CompactOK'
  BY TableKept DEF IInv
<1>4. TypeOK'
  BY DEF IInv, TypeOK, Hashed
<1> QED
  BY <1>2, <1>3, <1>4 DEF IInv, CallOK, PhaseOK, Idle

(* A dense array has what the mapping has. *)
LEMMA CompactExact ==
    ASSUME IInv, phase = "ready", kind = "compact", NEW n \in Int64
    PROVE  InCompact(n) = Right(n)
<1>1. /\ MaxInt \in Nat /\ Word = 2 * MaxInt + 2 /\ n \in Int /\ offset \in Int
      /\ n \in Int64 /\ offset \in Int64 /\ size \in Nat /\ size <= Word
      /\ DOMAIN items \subseteq Int64 /\ Stored = DOMAIN items
      /\ \A k \in DOMAIN items : offset <= k /\ k - offset < size
      /\ \A i \in 0..(size - 1) :
            values[i] = IF offset + i \in DOMAIN items THEN items[offset + i] ELSE Null
  <2>1. MaxInt \in Nat /\ Word = 2 * MaxInt + 2 /\ Int64 \subseteq Int
    BY WordSize DEF Int64
  <2>2. Stored = DOMAIN items
    BY DEF IInv, PhaseOK, Stored
  <2>3. offset \in Int64 /\ size \in Nat
    BY DEF IInv, TypeOK
  <2>4. /\ DOMAIN items \subseteq Int64 /\ size <= Word
        /\ \A k \in DOMAIN items : offset <= k /\ k - offset < size
        /\ \A i \in 0..(size - 1) :
              values[i] = IF offset + i \in Stored THEN items[offset + i] ELSE Null
    BY DEF IInv, CompactOK
  <2> QED BY <2>1, <2>2, <2>3, <2>4
<1>2. CASE n < offset
  <2>1. n \notin DOMAIN items
    BY <1>1, <1>2
  <2> QED BY <1>1, <1>2, <2>1 DEF InCompact, Right
<1>3. CASE n >= offset
  <2>1. Minus(Unsigned(n), Unsigned(offset)) = n - offset
    BY <1>1, <1>3 DEF Minus, Unsigned, Int64
  <2>2. CASE n - offset < size
    <3>1. n - offset \in 0..(size - 1) /\ offset + (n - offset) = n
      BY <1>1, <1>3, <2>2
    <3> QED BY <1>1, <1>3, <2>1, <2>2, <3>1 DEF InCompact, Right
  <2>3. CASE ~(n - offset < size)
    <3>1. n \notin DOMAIN items
      BY <1>1, <2>3
    <3> QED BY <1>1, <1>3, <2>1, <2>3, <3>1 DEF InCompact, Right
  <2> QED BY <2>2, <2>3
<1> QED BY <1>1, <1>2, <1>3

LEMMA LookupStep ==
    ASSUME IInv, phase = "ready", call = Idle,
           NEW k \in (IF kind \in {"compact", "ints"} THEN Int64 ELSE Str),
           Lookup(k, k), pos' = pos,
           UNCHANGED <<phase, kind, items, todo, cls, size, offset, keys, values>>
    PROVE  IInv'
<1>1. pos \in Nat
  BY DEF IInv, TypeOK
<1>2. CASE kind = "compact"
  <2>1. Finish(k, Right(k)) /\ call' = Idle
    BY <1>2, CompactExact DEF Lookup
  <2> QED BY <1>1, <2>1, FinishStep
<1>3. CASE kind # "compact"
  <2>1. call' = Start("get", k, k) /\ answer' = NoAnswer
    BY <1>3 DEF Lookup
  <2>2. Hashed /\ Hashed' /\ Place' = Place
    BY <1>3 DEF Hashed, Place
  <2>3. k \in (IF kind = "ints" THEN Int64 ELSE Str) /\ k \in Int \cup Str
    <3>1. Int64 \subseteq Int
      BY ConstantsOK DEF Int64
    <3> QED BY <1>3, <3>1 DEF IInv, TypeOK
  <2>4. Home(k) \in Place /\ k \in Key
    BY <2>2, <2>3, KeyHome
  <2>5. call' = [op |-> "get", key |-> k, asked |-> k, at |-> Home(k)]
    BY <2>1 DEF Start
  <2>6. TypeOK'
    <3>1. call' \in [op : {"set", "get"}, key : Key, asked : Int \cup Str, at : Place]
      BY <2>3, <2>4, <2>5
    <3> QED BY <2>2, <3>1 DEF IInv, TypeOK
  <2>7. CallOK'
    <3>1. ASSUME k \in DOMAIN items
          PROVE  \E P \in SUBSET Place' : Home(k) \in P /\ LeadsTo(P, k)'
      <4>1. k \in Stored
        BY <3>1 DEF IInv, PhaseOK, Stored
      <4>2. PICK P \in SUBSET Place : Home(k) \in P /\ LeadsTo(P, k)
        BY <2>2, <4>1 DEF IInv, SlotsOK
      <4>3. LeadsTo(P, k)'
        BY <4>2 DEF LeadsTo, After
      <4> QED BY <2>2, <4>2, <4>3
    <3> QED BY <2>5, <3>1 DEF CallOK
  <2>8. SizeOK' /\ SlotsOK' /\ CompactOK'
    BY TableKept DEF IInv
  <2> QED
    BY <2>1, <2>6, <2>7, <2>8 DEF IInv, PhaseOK, AnswersAreExact
<1> QED BY <1>2, <1>3

LEMMA IntStep ==
    ASSUME IInv, NEW n \in AskedInt, GetInt64(n) \/ GetUInt64(n) \/ GetPyInt(n)
    PROVE  IInv'
<1>1. /\ phase = "ready" /\ call = Idle /\ kind \in {"compact", "ints"} /\ pos' = pos
      /\ UNCHANGED <<phase, kind, items, todo, cls, size, offset, keys, values>>
  BY DEF GetInt64, GetUInt64, GetPyInt, Ask
<1>2. n \in Int /\ pos \in Nat /\ MaxInt \in Nat /\ Word = 2 * MaxInt + 2
  BY ConstantsOK, WordSize DEF IInv, TypeOK
<1>3. DOMAIN items \subseteq Int64
  BY <1>1 DEF IInv, PhaseOK, CompactOK
<1>4. ASSUME n \in Int64, Lookup(n, n) PROVE IInv'
  BY <1>1, <1>4, LookupStep
<1>5. ASSUME n \notin Int64, Finish(n, Null), call' = call PROVE IInv'
  <2>1. Right(n) = Null
    BY <1>1, <1>3, <1>5 DEF Right
  <2> QED BY <1>1, <1>2, <1>5, <2>1, FinishStep
<1>6. CASE GetInt64(n)
  BY <1>4, <1>6 DEF GetInt64
<1>7. CASE GetUInt64(n)
  <2>1. CASE n > MaxInt
    <3>1. n \notin Int64
      BY <1>2, <2>1 DEF Int64
    <3> QED BY <1>5, <1>7, <2>1, <3>1 DEF GetUInt64
  <2>2. CASE ~(n > MaxInt)
    <3>1. n \in Int64
      BY <1>2, <1>7, <2>2 DEF Int64, GetUInt64
    <3> QED BY <1>4, <1>7, <2>2, <3>1 DEF GetUInt64
  <2> QED BY <2>1, <2>2
<1>8. CASE GetPyInt(n)
  <2>1. CASE Overflows(n) \/ n > MaxInt
    <3>1. n \notin Int64
      BY <1>2, <2>1 DEF Int64, Overflows
    <3> QED BY <1>5, <1>8, <2>1, <3>1 DEF GetPyInt
  <2>2. CASE ~(Overflows(n) \/ n > MaxInt)
    <3>1. n \in Int64
      BY <1>2, <2>2 DEF Int64, Overflows
    <3>2. n < 0 => Negate(-n) = n
      BY <1>2, <3>1 DEF Int64, Negate, Signed
    <3>3. Lookup(n, n)
      BY <1>8, <2>2, <3>2 DEF GetPyInt
    <3> QED BY <1>4, <3>1, <3>3
  <2> QED BY <2>1, <2>2
<1> QED BY <1>6, <1>7, <1>8

LEMMA NextPosType ==
    ASSUME IInv, phase = "ready", NEW i \in Nat
    PROVE  NextPos(i) \in Nat
  BY DEF NextPos

LEMMA StrStep ==
    ASSUME IInv, NEW s \in Str, GetStr(s) \/ GetField(s)
    PROVE  IInv'
<1>1. /\ phase = "ready" /\ call = Idle /\ kind \in {"strs", "names"}
      /\ UNCHANGED <<phase, kind, items, todo, cls, size, offset, keys, values>>
  BY DEF GetStr, GetField, Ask
<1>2. CASE Lookup(s, s) /\ pos' = pos
  BY <1>1, <1>2, LookupStep
<1>3. CASE /\ s \in DOMAIN items /\ items[s] = pos /\ Finish(s, pos)
           /\ pos' = NextPos(pos) /\ call' = call
  <2>1. Right(s) = pos /\ pos' \in Nat
    BY <1>1, <1>3, NextPosType DEF Right, IInv, TypeOK
  <2> QED BY <1>1, <1>3, <2>1, FinishStep
<1> QED BY <1>2, <1>3 DEF GetStr, GetField

LEMMA NextObjectStep ==
    ASSUME IInv, NextObject
    PROVE  IInv'
<1>1. /\ phase = "ready" /\ call = Idle /\ pos' = 0 /\ call' = call /\ answer' = answer
      /\ UNCHANGED <<phase, kind, items, todo, cls, size, offset, keys, values>>
  BY DEF NextObject, Ask
<1>2. TypeOK'
  BY <1>1 DEF IInv, TypeOK, Hashed
<1>3. SizeOK' /\ SlotsOK' /\ CompactOK'
  BY <1>1, TableKept DEF IInv
<1> QED
  BY <1>1, <1>2, <1>3 DEF IInv, CallOK, PhaseOK, AnswersAreExact, Idle

LEMMA AnswerStep ==
    ASSUME IInv, Answer
    PROVE  IInv'
<1>1. /\ call.op = "get" /\ Stops(call) /\ call' = Idle
      /\ UNCHANGED <<phase, kind, items, todo, cls, size, offset, keys, values>>
  BY DEF Answer
<1>2. call # Idle
  BY <1>1 DEF Idle
<1> DEFINE got == values[call.at.i]
           k == call.asked
<1>3. /\ phase = "ready" /\ call.key = k /\ todo = {} /\ Stored = DOMAIN items
      /\ Hashed /\ kind # "compact" /\ call.at.i \in 0..(size - 1) /\ pos \in Nat
  BY <1>1, <1>2, CallFacts DEF IInv, CallOK, PhaseOK, Stored, Hashed, TypeOK
<1>4. got = IF k \in DOMAIN items THEN items[k] ELSE Null
  <2>1. CASE k \in DOMAIN items
    <3>1. PICK P \in SUBSET Place : call.at \in P /\ LeadsTo(P, call.key)
      BY <1>1, <1>3, <2>1 DEF IInv, CallOK
    <3>2. got # Null
      BY <3>1 DEF LeadsTo
    <3>3. keys[call.at.i] = k
      BY <1>1, <1>3, <3>2 DEF Stops
    <3> QED BY <1>3, <2>1, <3>2, <3>3 DEF IInv, SlotsOK
  <2>2. CASE k \notin DOMAIN items
    <3>1. got # Null => keys[call.at.i] \in DOMAIN items
      BY <1>3 DEF IInv, SlotsOK
    <3>2. got # Null => keys[call.at.i] = k
      BY <1>1, <1>3 DEF Stops
    <3> QED BY <2>2, <3>1, <3>2
  <2> QED BY <2>1, <2>2
<1>5. \A j \in DOMAIN items : items[j] # Null /\ (kind = "names" => items[j] \in Nat)
  BY <1>3, KeysOfItems DEF IInv
<1>6. Finish(k, Right(k)) /\ pos' \in Nat
  <2>1. CASE kind = "names"
    <3>1. (IF got # Null THEN got ELSE IF k = TagField THEN -2 ELSE -1) = Right(k)
      BY <1>4, <1>5, <2>1 DEF Right
    <3>2. got # Null => NextPos(got) \in Nat
      BY <1>3, <1>4, <1>5, <2>1, NextPosType
    <3> QED BY <1>3, <2>1, <3>1, <3>2 DEF Answer
  <2>2. CASE kind # "names"
    <3>1. got = Right(k)
      BY <1>4, <2>2 DEF Right
    <3> QED BY <1>3, <2>2, <3>1 DEF Answer
  <2> QED BY <2>1, <2>2
<1> QED BY <1>1, <1>3, <1>6, FinishStep

-----------------------------------------------------------------------------
(* The theorems.                                                            *)

LEMMA StepKeeps == IInv /\ [Next]_vars => IInv'
<1> SUFFICES ASSUME IInv, [Next]_vars PROVE IInv'
  OBVIOUS
<1>1. CASE Build
  BY <1>1, NewIntStep, NewOtherStep, SizingSteps, SetCompactStep, SetHashedStep, FilledStep
  DEF Build
<1>2. CASE Get
  BY <1>2, IntStep, StrStep, NextObjectStep DEF Get
<1>3. CASE Loop
  BY <1>3, ProbeStep, StoreStep, AnswerStep DEF Loop
<1>4. CASE UNCHANGED vars
  <2>1. UNCHANGED <<phase, kind, items, todo, cls, size, offset, keys, values, pos, call, answer>>
    BY <1>4 DEF vars
  <2>2. SizeOK' /\ SlotsOK' /\ CompactOK'
    BY <2>1, TableKept DEF IInv
  <2>3. TypeOK'
    BY <2>1 DEF IInv, TypeOK, Hashed, Place
  <2>4. (\A p : After(p)' = After(p)) /\ (\A k : Home(k)' = Home(k)) /\ Place' = Place
    BY <2>1 DEF After, Home, HashOf, Place
  <2>5. \A P, k, q : LeadsTo(P, k)' = LeadsTo(P, k) /\ LeadsUpTo(P, k, q)' = LeadsUpTo(P, k, q)
    BY <2>1, <2>4 DEF LeadsTo, LeadsUpTo
  <2>6. CallOK'
    BY <2>1, <2>4, <2>5 DEF IInv, CallOK
  <2> QED
    BY <2>1, <2>2, <2>3, <2>6 DEF IInv, PhaseOK, AnswersAreExact
<1>5. CASE Free
  <2>1. Init'
    BY <1>5 DEF Free, Init
  <2> QED BY <2>1, InitOK, PTL
<1> QED BY <1>1, <1>2, <1>3, <1>4, <1>5 DEF Next

LEMMA Invariant == Spec => []IInv
<1>1. Init => IInv
  BY InitOK
<1>2. IInv /\ [Next]_vars => IInv'
  BY StepKeeps
<1> QED BY <1>1, <1>2, PTL DEF Spec

(* The types of the variables, and the slots a table has.                   *)
THEOREM TypeCorrect == Spec => []TypeOK
<1>1. IInv => TypeOK
  BY DEF IInv
<1> QED BY <1>1, Invariant, PTL

(* Every getter answers what the mapping has, for every mapping, every hash *)
(* function and every width of the integers (IntLookup_Get*, StrLookup_Get, *)
(* StructMeta_get_field_index).                                             *)
THEOREM Exact == Spec => []AnswersAreExact
<1>1. IInv => AnswersAreExact
  BY DEF IInv
<1> QED BY <1>1, Invariant, PTL

(* The sizes of the tables leave a slot free for any number of items.       *)
THEOREM AlwaysFree == Spec => []SlotIsFree
<1>1. IInv => SlotIsFree
  BY NotFull DEF IInv, SlotIsFree
<1> QED BY <1>1, Invariant, PTL
=============================================================================
