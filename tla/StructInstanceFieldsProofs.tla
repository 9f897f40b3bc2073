---------------------- MODULE StructInstanceFieldsProofs ----------------------
(***************************************************************************)
(* Proofs about the values of the fields in StructInstance: that every     *)
(* call which fills an instance gives each field what it should have, and  *)
(* that all calls which hash an instance agree.                            *)
(***************************************************************************)
EXTENDS StructInstanceProofs, FiniteSetTheorems

-----------------------------------------------------------------------------
(* The inductive invariant for BindsAsDeclared, of a call f that makes an   *)
(* instance with these fields: which of them have got what they should      *)
(* have, and that the others have what the caller has passed or nothing.    *)

Wanted(f, j) == IF f.given[j] # NoValue THEN f.given[j] ELSE DefaultOf(j)

Settled(f, fields, i) ==
    \A j \in Field : j < i => fields[j] = Wanted(f, j) /\ Wanted(f, j) # NODEFAULT

Open(f, fields, i) == \A j \in Field : j >= i => fields[j] = f.given[j]

Unset(f, i) == \A j \in Field : j >= i => f.given[j] = NoValue

(* The first arguments are positional, the others keywords.                 *)
Passed(f) ==
    /\ f.size \in 0..cls.nfields
    /\ f.seen \subseteq f.size + 1 .. cls.nfields
    /\ \A j \in Field : (f.given[j] # NoValue) <=> (j <= f.size \/ j \in f.seen)

(* The items come in the order of the fields.                               *)
Listed(f) ==
    /\ f.i <= f.size + 1
    /\ f.wrong <=> (cls.forbid_unknown_fields /\ f.size > cls.nfields)
    /\ Unset(f, f.size + 1)

Ordered == {"array", "seq"}

BoundTo(f, fields) ==
    /\ f.ways \subseteq {f.names}
    /\ f.at = "refused" => f.wrong \/ \E j \in Field : Wanted(f, j) = NODEFAULT
    /\ f.at \in Filling => ~f.wrong \/ f.op \in Ordered
    /\ f.at = "keywords" => Passed(f)
    /\ f.at = "keywords" \/ (f.at = "items" /\ f.op = "map") => Open(f, fields, 1)
    /\ f.at = "defaults" /\ f.op \in {"init", "map"} => Open(f, fields, f.i)
    /\ f.at = "defaults" \/ (f.at = "items" /\ f.op # "map") => Settled(f, fields, f.i)
    /\ f.at = "items" /\ f.op \in Ordered => Listed(f)
    /\ f.at = "items" /\ f.op = "attrs" => Unset(f, f.i)
    /\ f.at = "defaults" /\ f.op \in Ordered => Unset(f, f.i) /\ (f.op = "array" => ~f.wrong)
    /\ f.at = "filled" => ~f.wrong /\ Settled(f, fields, cls.nfields + 1)

Binds == \A a \in Actor : Makes(a) => BoundTo(call[a], heap[call[a].obj].fields)

(* The numbers after n up to m.                                             *)
LEMMA Behind ==
    ASSUME NEW n \in Nat, NEW m \in Nat, n <= m
    PROVE  IsFiniteSet(n + 1 .. m) /\ Cardinality(n + 1 .. m) = m - n
<1> DEFINE k == n + 1
<1>1. k \in Int /\ m \in Int /\ k = n + 1
  OBVIOUS
<1> HIDE DEF k
<1>2. IsFiniteSet(k .. m) /\ Cardinality(k .. m) = IF k > m THEN 0 ELSE m - k + 1
  BY <1>1, FS_Interval
<1>3. IsFiniteSet(k .. m) /\ Cardinality(k .. m) = m - n
  BY <1>1, <1>2
<1> QED BY <1>3 DEF k

(* One more field has what it should have.                                  *)
LEMMA Settles ==
    ASSUME cls \in Class, NEW fields \in [Field -> Value \cup {NoValue}], NEW i \in Field, NEW v,
           NEW f, NEW next, Settled(f, fields, i),
           \A j \in Field : j < i => next.given[j] = f.given[j],
           v = Wanted(next, i), v # NODEFAULT
    PROVE  Settled(next, [fields EXCEPT ![i] = v], i + 1)
<1>1. cls.nfields \in Nat
  BY Defaults
<1>2. \A j \in Field : j < i + 1 => j < i \/ j = i
  BY <1>1 DEF Field
<1> QED BY <1>2 DEF Settled, Wanted

LEMMA BindsInit == Init => Binds
  BY DEF Init, Binds, Makes, Making, Idle

(* What is passed, and what a default is, is not the marker NODEFAULT.      *)
LEMMA GivenWanted ==
    ASSUME NEW f \in Frame, NEW j \in Field
    PROVE  /\ f.given[j] # NoValue => /\ f.given[j] \in Value
                                      /\ Wanted(f, j) = f.given[j] /\ Wanted(f, j) # NODEFAULT
           /\ f.given[j] = NoValue => Wanted(f, j) = DefaultOf(j)
  BY ConstantsOK DEF ConstantsOK, Frame, Wanted

(* The last field an array must have is required.                           *)
LEMMA LastRequired ==
    ASSUME cls \in Class, NRequired > 0
    PROVE  NRequired \in Field /\ DefaultOf(NRequired) = NODEFAULT
<1>1. /\ cls.nfields \in Nat /\ Len(cls.defaults) \in 0..cls.nfields
      /\ cls.n_trailing_defaults \in 0..Len(cls.defaults)
      /\ cls.n_trailing_defaults < Len(cls.defaults) =>
            cls.defaults[Len(cls.defaults) - cls.n_trailing_defaults] = NODEFAULT
  BY ConstantsOK DEF ConstantsOK
<1>2. NRequired \in Field
  BY <1>1 DEF NRequired, Field
<1>3. CASE cls.n_trailing_defaults < Len(cls.defaults)
  <2>1. NRequired > NPos /\ NRequired - NPos = Len(cls.defaults) - cls.n_trailing_defaults
    BY <1>1, <1>3 DEF NRequired, NPos
  <2> QED BY <1>1, <1>2, <1>3, <2>1 DEF DefaultOf
<1>4. CASE cls.n_trailing_defaults = Len(cls.defaults)
  BY <1>1, <1>2, <1>4 DEF NRequired, NPos, DefaultOf
<1> QED BY <1>1, <1>3, <1>4

(* A step of a call that makes an instance touches that instance only, and  *)
(* neither its hash nor who has seen it.                                    *)
Own(a) ==
    /\ \A p \in Object : p # call[a].obj => heap'[p] = heap[p]
    /\ \A p \in Object : heap'[p].hash = heap[p].hash /\ heap'[p].life = heap[p].life
    /\ \A b \in Actor \ {a} : call'[b] = call[b]
    /\ call'[a].op = call[a].op /\ call'[a].obj = call[a].obj
    /\ cls' = cls /\ answers' = answers /\ exposed' = exposed

OwnBound(a) == Own(a) /\ BoundTo(call'[a], heap'[call[a].obj].fields)

LEMMA StoreBinds ==
    ASSUME Typed, NEW a \in Actor, Makes(a), NEW i \in Field, NEW v \in Value,
           NEW next \in Frame, Fill(a, i, v, next) \/ Set(a, i, v, next),
           next.op = call[a].op, next.obj = call[a].obj,
           BoundTo(next, [heap[call[a].obj].fields EXCEPT ![i] = v])
    PROVE  OwnBound(a)
<1> DEFINE o == call[a].obj
           fields == [heap[o].fields EXCEPT ![i] = v]
           Same(f) == /\ f.op = next.op /\ f.obj = next.obj /\ f.at = next.at /\ f.i = next.i
                      /\ f.given = next.given /\ f.size = next.size /\ f.seen = next.seen
                      /\ f.names = next.names /\ f.ways = next.ways /\ f.wrong = next.wrong
<1>1. heap \in [Object -> Instance] /\ call \in [Actor -> Frame] /\ o \in Object
  BY DEF Typed, TypeOK, Shape, Makes, Making
<1>2. PICK f : call' = [call EXCEPT ![a] = f] /\ Same(f)
  <2> DEFINE g == [next EXCEPT !.should_untrack = @ /\ ~MaybeTracked(v)]
  <2>1. Same(g) /\ Same(next)
    BY DEF Frame
  <2>2. call' = [call EXCEPT ![a] = g] \/ call' = [call EXCEPT ![a] = next]
    BY DEF Fill, Set
  <2> HIDE DEF g, Same
  <2> QED BY <2>1, <2>2
<1>3. heap' = [heap EXCEPT ![o].fields[i] = v] /\ cls' = cls /\ answers' = answers
      /\ exposed' = exposed
  BY DEF Fill, Set
<1>4. /\ \A p \in Object : p # o => heap'[p] = heap[p]
      /\ \A p \in Object : heap'[p].hash = heap[p].hash /\ heap'[p].life = heap[p].life
      /\ heap'[o].fields = fields
  BY <1>1, <1>3 DEF Instance
<1>5. call'[a] = f /\ \A b \in Actor \ {a} : call'[b] = call[b]
  BY <1>1, <1>2
<1> HIDE DEF fields
<1>6. BoundTo(f, fields)
  BY <1>2 DEF BoundTo, Passed, Open, Settled, Listed, Unset, Wanted, fields
<1> QED BY <1>2, <1>3, <1>4, <1>5, <1>6 DEF OwnBound, Own

LEMMA GoBinds ==
    ASSUME Typed, NEW a \in Actor, Makes(a), NEW f, call' = [call EXCEPT ![a] = f], Quietly,
           f.op = call[a].op, f.obj = call[a].obj, BoundTo(f, heap[call[a].obj].fields)
    PROVE  OwnBound(a)
<1>1. call \in [Actor -> Frame]
  BY DEF Typed, TypeOK
<1> QED BY <1>1 DEF OwnBound, Own, Quietly

(* The calls that fill instances, from their arguments to the last field.   *)
LEMMA FillsBound ==
    ASSUME Sees, Binds, NEW a \in Actor, Fills(a)
    PROVE  Makes(a) /\ call[a].at \in Filling /\ OwnBound(a)
<1> DEFINE c == call[a]
           o == c.obj
           F == heap[o].fields
<1>0. Typed /\ cls \in Class /\ c \in Frame /\ Shape(c) /\ c.i \in Nat /\ c.size \in Nat
  BY DEF Sees, Typed, TypeOK, Frame
<1>1. /\ c.at \in {"keywords", "items", "defaults"}
      /\ c.op \in {"init", "map", "array", "seq", "attrs"}
      /\ Makes(a) /\ c.at \in Filling /\ o \in Object
  BY <1>0 DEF Fills, Keyword, KeywordsEnd, FillMissing, MapItem, MapUnknown, MapEnd,
              FillInDefaults, ArrayItem, ArrayEnd, SeqEnd, ArrayDefault, Attribute, At, Makes,
              Making, Shape, Filling
<1>2. F \in [Field -> Value \cup {NoValue}] /\ BoundTo(c, F)
  BY <1>0, <1>1 DEF Binds, Typed, TypeOK, Instance
<1>3. /\ cls.nfields \in Nat /\ NRequired \in Nat /\ NRequired <= cls.nfields
      /\ \A i \in Field : DefaultOf(i) \in Value \cup {NODEFAULT}
      /\ \A i \in Field : i > NRequired => DefaultOf(i) # NODEFAULT
  BY <1>0, Defaults
<1>4. ASSUME NEW at \in Stage, Goto(a, at), Quietly, BoundTo([c EXCEPT !.at = at], F)
      PROVE  OwnBound(a)
  <2> DEFINE f == [c EXCEPT !.at = at]
  <2>1. f.op = c.op /\ f.obj = o
    BY <1>0, FrameMoved
  <2>2. call' = [call EXCEPT ![a] = f]
    BY <1>4 DEF Goto
  <2>3. BoundTo(f, F)
    BY <1>4
  <2> HIDE DEF f
  <2> QED BY <1>0, <1>1, <1>4, <2>1, <2>2, <2>3, GoBinds
<1>5. CASE Keyword(a)
  <2>1. PICK i \in (Field \cup {0}) \ c.seen, v \in Value :
          IF i > c.size
          THEN Fill(a, i, v, [c EXCEPT !.seen = @ \cup {i}, !.given[i] = v])
          ELSE /\ call' = [call EXCEPT ![a].at = "refused", ![a].wrong = TRUE]
               /\ Quietly
    BY <1>5 DEF Keyword
  <2>2. c.op = "init" /\ c.at = "keywords" /\ Passed(c) /\ Open(c, F, 1) /\ ~c.wrong
        /\ c.ways \subseteq {c.names}
    BY <1>2, <1>5 DEF Keyword, At, BoundTo, Filling, Ordered
  <2>3. CASE i > c.size
    <3>1. i \in Field
      BY <1>0, <2>3
    <3> DEFINE next == [c EXCEPT !.seen = @ \cup {i}, !.given[i] = v]
               G == [F EXCEPT ![i] = v]
    <3>2. next \in Frame
      BY <1>0, <3>1 DEF Frame
    <3>3. /\ next.op = c.op /\ next.obj = o /\ next.at = c.at /\ next.wrong = c.wrong
          /\ next.names = c.names /\ next.ways = c.ways /\ next.size = c.size
          /\ next.seen = c.seen \cup {i} /\ next.given = [c.given EXCEPT ![i] = v]
      BY <1>0 DEF Frame
    <3>4. Fill(a, i, v, next)
      BY <2>1, <2>3
    <3> HIDE DEF next
    <3>5. c.given \in [Field -> Value \cup {NoValue}] /\ v # NoValue
      BY <1>0, ConstantsOK DEF Frame, ConstantsOK
    <3>6. Passed(next)
      BY <1>3, <2>2, <2>3, <3>1, <3>3, <3>5 DEF Passed, Field
    <3>7. Open(next, G, 1)
      BY <1>2, <2>2, <3>3, <3>5 DEF Open
    <3>8. BoundTo(next, G)
      BY <2>2, <3>3, <3>6, <3>7 DEF BoundTo
    <3> QED BY <1>0, <1>1, <3>1, <3>2, <3>3, <3>4, <3>8, StoreBinds
  <2>4. CASE ~(i > c.size)
    <3> DEFINE f == [c EXCEPT !.at = "refused", !.wrong = TRUE]
    <3>1. f.op = c.op /\ f.obj = o /\ f.at = "refused" /\ f.wrong /\ f.ways = c.ways
          /\ f.names = c.names
      BY <1>0 DEF Frame
    <3>2. call' = [call EXCEPT ![a] = f] /\ Quietly
      BY <2>1, <2>4
    <3> HIDE DEF f
    <3>3. BoundTo(f, F)
      BY <2>2, <3>1 DEF BoundTo, Filling
    <3> QED BY <1>0, <1>1, <3>1, <3>2, <3>3, GoBinds
  <2> QED BY <1>1, <2>3, <2>4
<1>6. CASE KeywordsEnd(a)
  <2> DEFINE at == IF c.size + Cardinality(c.seen) < cls.nfields THEN "defaults" ELSE "filled"
             f == [c EXCEPT !.i = c.size + 1, !.at = at]
  <2>1. c.op = "init" /\ c.at = "keywords" /\ Passed(c) /\ Open(c, F, 1) /\ ~c.wrong
        /\ c.ways \subseteq {c.names}
    BY <1>2, <1>6 DEF KeywordsEnd, At, BoundTo, Filling, Ordered
  <2>2. call' = [call EXCEPT ![a] = f] /\ Quietly
    BY <1>6 DEF KeywordsEnd
  <2>3. /\ at \in {"defaults", "filled"}
        /\ at = "filled" => c.size + Cardinality(c.seen) >= cls.nfields
    <3>1. IsFiniteSet(c.seen)
      <4>1. c.size <= cls.nfields /\ c.seen \in SUBSET (c.size + 1 .. cls.nfields)
        BY <2>1 DEF Passed
      <4> QED BY <1>0, <1>3, <4>1, Behind, FS_Subset
    <3>2. Cardinality(c.seen) \in Nat
      BY <3>1, FS_CardinalityType
    <3> QED BY <1>0, <1>3, <3>2
  <2> HIDE DEF at
  <2>4. /\ f.op = c.op /\ f.obj = o /\ f.at = at /\ f.i = c.size + 1 /\ f.given = c.given
        /\ f.wrong = c.wrong /\ f.ways = c.ways /\ f.names = c.names
    BY <1>0 DEF Frame
  <2> HIDE DEF f
  <2>5. \A j \in Field : F[j] = c.given[j] /\ Wanted(f, j) = Wanted(c, j)
    BY <2>1, <2>4 DEF Open, Field, Wanted
  <2>6. CASE at = "defaults"
    <3>1. Open(f, F, f.i)
      BY <2>4, <2>5 DEF Open
    <3>2. Settled(f, F, f.i)
      BY <1>0, <2>1, <2>4, <2>5, GivenWanted DEF Settled, Passed, Field
    <3>3. BoundTo(f, F)
      BY <2>1, <2>4, <2>6, <3>1, <3>2 DEF BoundTo, Ordered
    <3> QED BY <1>0, <1>1, <2>2, <2>4, <3>3, GoBinds
  <2>7. CASE at = "filled"
    <3> DEFINE K == c.size + 1 .. cls.nfields
    <3>1. IsFiniteSet(K) /\ Cardinality(K) = cls.nfields - c.size
      <4>1. c.size <= cls.nfields
        BY <2>1 DEF Passed
      <4> QED BY <1>0, <1>3, <4>1, Behind
    <3>2. c.seen = K
      <4>1. c.seen \in SUBSET K
        BY <2>1 DEF Passed
      <4> HIDE DEF K
      <4>2. /\ IsFiniteSet(c.seen) /\ Cardinality(c.seen) <= Cardinality(K)
            /\ Cardinality(c.seen) = Cardinality(K) => c.seen = K
        BY <3>1, <4>1, FS_Subset
      <4>3. Cardinality(c.seen) \in Nat
        BY <4>2, FS_CardinalityType
      <4> QED BY <1>0, <1>3, <2>3, <2>7, <3>1, <4>2, <4>3
    <3>3. Settled(f, F, cls.nfields + 1)
      BY <1>0, <2>1, <2>5, <3>2, GivenWanted DEF Settled, Passed, Field
    <3>4. BoundTo(f, F)
      BY <2>1, <2>4, <2>7, <3>3 DEF BoundTo, Ordered
    <3> QED BY <1>0, <1>1, <2>2, <2>4, <3>4, GoBinds
  <2> QED BY <2>3, <2>6, <2>7
<1>7. ASSUME NEW next, next = [c EXCEPT !.i = @ + 1]
      PROVE  /\ next \in Frame /\ next.op = c.op /\ next.obj = o /\ next.at = c.at
             /\ next.i = c.i + 1 /\ next.given = c.given /\ next.size = c.size
             /\ next.names = c.names /\ next.ways = c.ways /\ next.wrong = c.wrong
             /\ \A j \in Field : Wanted(next, j) = Wanted(c, j)
  <2>1. next \in Frame
    BY <1>0, <1>7, FrameNext
  <2> QED BY <1>0, <1>7, <2>1 DEF Frame, Wanted
<1>8. CASE FillMissing(a) \/ FillInDefaults(a)
  <2> DEFINE i == c.i
             next == [c EXCEPT !.i = @ + 1]
  <2>1. /\ c.at = "defaults" /\ c.op \in {"init", "map"} /\ i \in Field /\ ~c.wrong
        /\ Settled(c, F, i) /\ Open(c, F, i) /\ c.ways \subseteq {c.names}
    BY <1>2, <1>8 DEF FillMissing, FillInDefaults, At, BoundTo, Filling, Ordered
  <2>2. /\ next \in Frame /\ next.op = c.op /\ next.obj = o /\ next.at = c.at
        /\ next.i = i + 1 /\ next.given = c.given
        /\ next.names = c.names /\ next.ways = c.ways /\ next.wrong = c.wrong
        /\ \A j \in Field : Wanted(next, j) = Wanted(c, j)
    BY <1>7
  <2>3. F[i] = c.given[i]
    BY <1>0, <2>1 DEF Open
  <2>4. ASSUME NEW v \in Value, v = Wanted(c, i), v # NODEFAULT
        PROVE  BoundTo(next, [F EXCEPT ![i] = v])
    <3> HIDE DEF next
    <3>1. Settled(next, [F EXCEPT ![i] = v], i + 1)
      BY <1>0, <1>2, <2>1, <2>2, <2>4, Settles
    <3>2. Open(next, [F EXCEPT ![i] = v], i + 1)
      BY <1>0, <1>2, <1>3, <2>1, <2>2 DEF Open, Field
    <3> QED BY <2>1, <2>2, <3>1, <3>2 DEF BoundTo, Ordered
  <2>5. CASE F[i] # NoValue
    <3>1. F[i] \in Value /\ F[i] = Wanted(c, i) /\ F[i] # NODEFAULT
      BY <1>0, <1>2, <2>1, <2>3, <2>5, GivenWanted
    <3>2. BoundTo(next, F)
      <4>1. [F EXCEPT ![i] = F[i]] = F
        BY <1>2, <2>1
      <4>2. BoundTo(next, [F EXCEPT ![i] = F[i]])
        BY <2>4, <3>1
      <4> HIDE DEF F, next
      <4> QED BY <4>1, <4>2
    <3>3. \/ Fill(a, i, F[i], next)
          \/ call' = [call EXCEPT ![a] = next] /\ Quietly
      BY <1>8, <2>5 DEF FillMissing, FillInDefaults
    <3> HIDE DEF next
    <3>4. BoundTo(next, [F EXCEPT ![i] = F[i]])
      BY <2>4, <3>1
    <3> QED BY <1>0, <1>1, <2>1, <2>2, <3>1, <3>2, <3>3, <3>4, StoreBinds, GoBinds
  <2>6. CASE F[i] = NoValue /\ DefaultOf(i) # NODEFAULT
    <3>1. DefaultOf(i) \in Value /\ DefaultOf(i) = Wanted(c, i)
      BY <1>0, <1>3, <2>1, <2>3, <2>6, GivenWanted
    <3>2. Fill(a, i, DefaultOf(i), next)
      BY <1>8, <2>6 DEF FillMissing, FillInDefaults
    <3>3. BoundTo(next, [F EXCEPT ![i] = DefaultOf(i)])
      BY <2>4, <2>6, <3>1
    <3> HIDE DEF next
    <3> QED BY <1>0, <1>1, <2>1, <2>2, <3>1, <3>2, <3>3, StoreBinds
  <2>7. CASE F[i] = NoValue /\ DefaultOf(i) = NODEFAULT
    <3> DEFINE f == [c EXCEPT !.at = "refused"]
    <3>1. Goto(a, "refused") /\ Quietly
      BY <1>8, <2>7 DEF FillMissing, FillInDefaults
    <3>2. f.at = "refused" /\ f.given = c.given /\ f.ways = c.ways /\ f.names = c.names
      BY <1>0 DEF Frame
    <3>3. Wanted(c, i) = NODEFAULT
      BY <1>0, <2>1, <2>3, <2>7, GivenWanted
    <3>4. BoundTo(f, F)
      <4> HIDE DEF f
      <4> QED BY <2>1, <3>2, <3>3 DEF BoundTo, Wanted, Filling
    <3> QED BY <1>1, <1>4, <3>1, <3>4 DEF Stage
  <2> QED BY <2>5, <2>6, <2>7
<1>9. CASE MapItem(a)
  <2>1. /\ c.at = "items" /\ c.op = "map" /\ ~c.wrong
        /\ Open(c, F, 1) /\ c.ways \subseteq {c.names}
    BY <1>2, <1>9 DEF MapItem, At, BoundTo, Filling, Ordered
  <2>2. PICK i \in Field, v \in Value : Set(a, i, v, [c EXCEPT !.size = @ + 1, !.given[i] = v])
    BY <1>9 DEF MapItem
  <2> DEFINE next == [c EXCEPT !.size = @ + 1, !.given[i] = v]
  <2>3. next \in Frame
    BY <1>0, FrameGiven
  <2>4. /\ next.op = c.op /\ next.obj = o /\ next.at = c.at /\ next.wrong = c.wrong
        /\ next.names = c.names /\ next.ways = c.ways
        /\ next.given = [c.given EXCEPT ![i] = v]
    BY <1>0 DEF Frame
  <2>5. Set(a, i, v, next)
    BY <2>2
  <2> HIDE DEF next
  <2>6. c.given \in [Field -> Value \cup {NoValue}]
    BY <1>0 DEF Frame
  <2>7. Open(next, [F EXCEPT ![i] = v], 1)
    BY <1>2, <2>1, <2>4, <2>6 DEF Open
  <2>8. BoundTo(next, [F EXCEPT ![i] = v])
    BY <2>1, <2>4, <2>7 DEF BoundTo, Ordered
  <2> QED BY <1>0, <1>1, <2>3, <2>4, <2>5, <2>8, StoreBinds
<1>10. CASE MapUnknown(a)
  <2>1. /\ c.at = "items" /\ c.op = "map" /\ ~c.wrong
        /\ Open(c, F, 1) /\ c.ways \subseteq {c.names}
    BY <1>2, <1>10 DEF MapUnknown, At, BoundTo, Filling, Ordered
  <2> DEFINE wrong == c.wrong \/ cls.forbid_unknown_fields
             at == IF cls.forbid_unknown_fields THEN "refused" ELSE c.at
             f == [c EXCEPT !.size = @ + 1, !.wrong = wrong, !.at = at]
  <2>2. call' = [call EXCEPT ![a] = f] /\ Quietly
    BY <1>10 DEF MapUnknown
  <2>3. (wrong /\ at = "refused") \/ (~wrong /\ at = "items")
    <3>1. CASE cls.forbid_unknown_fields
      BY <3>1
    <3>2. CASE ~cls.forbid_unknown_fields
      BY <2>1, <3>2
    <3> QED BY <3>1, <3>2
  <2> HIDE DEF wrong, at
  <2>4. /\ f.op = c.op /\ f.obj = o /\ f.at = at /\ f.wrong = wrong /\ f.given = c.given
        /\ f.ways = c.ways /\ f.names = c.names
    BY <1>0 DEF Frame
  <2> HIDE DEF f
  <2>5. BoundTo(f, F)
    BY <2>1, <2>3, <2>4 DEF BoundTo, Open, Ordered, Filling
  <2> QED BY <1>0, <1>1, <2>2, <2>4, <2>5, GoBinds
<1>11. CASE MapEnd(a)
  <2>1. /\ c.at = "items" /\ c.op = "map" /\ ~c.wrong
        /\ Open(c, F, 1) /\ c.ways \subseteq {c.names}
    BY <1>2, <1>11 DEF MapEnd, At, BoundTo, Filling, Ordered
  <2> DEFINE f == [c EXCEPT !.at = "defaults", !.i = 1]
  <2>2. call' = [call EXCEPT ![a] = f] /\ Quietly
    BY <1>11 DEF MapEnd
  <2>3. /\ f.op = c.op /\ f.obj = o /\ f.at = "defaults" /\ f.wrong = c.wrong /\ f.i = 1
        /\ f.given = c.given /\ f.ways = c.ways /\ f.names = c.names
    BY <1>0 DEF Frame
  <2> HIDE DEF f
  <2>4. Settled(f, F, 1)
    BY <1>3 DEF Settled, Field
  <2>5. BoundTo(f, F)
    BY <2>1, <2>3, <2>4 DEF BoundTo, Open, Ordered, Filling
  <2> QED BY <1>0, <1>1, <2>2, <2>3, <2>5, GoBinds
<1>12. CASE ArrayItem(a)
  <2> DEFINE i == c.i
             v == c.given[i]
             next == [c EXCEPT !.i = @ + 1]
  <2>1. /\ c.at = "items" /\ c.op \in Ordered /\ i \in Field /\ i <= c.size
        /\ Listed(c) /\ Settled(c, F, i) /\ c.ways \subseteq {c.names}
    BY <1>2, <1>12 DEF ArrayItem, BoundTo, Ordered
  <2>2. Fill(a, i, v, next)
    BY <1>12 DEF ArrayItem
  <2>3. /\ next \in Frame /\ next.op = c.op /\ next.obj = o /\ next.at = c.at
        /\ next.i = i + 1 /\ next.given = c.given /\ next.size = c.size
        /\ next.names = c.names /\ next.ways = c.ways /\ next.wrong = c.wrong
        /\ \A j \in Field : Wanted(next, j) = Wanted(c, j)
    BY <1>7
  <2>4. v \in Value /\ v = Wanted(c, i) /\ v # NODEFAULT
    BY <1>0, <2>1, GivenWanted DEF Shape, Ordered
  <2> HIDE DEF next
  <2>5. Settled(next, [F EXCEPT ![i] = v], i + 1)
    BY <1>0, <1>2, <2>1, <2>3, <2>4, Settles
  <2>6. Listed(next)
    BY <1>0, <2>1, <2>3 DEF Listed, Unset
  <2>7. BoundTo(next, [F EXCEPT ![i] = v])
    BY <2>1, <2>3, <2>5, <2>6 DEF BoundTo, Ordered, Filling
  <2> QED BY <1>0, <1>1, <2>1, <2>2, <2>3, <2>4, <2>7, StoreBinds
<1>13. CASE ArrayEnd(a)
  <2>1. /\ c.at = "items" /\ c.op = "array" /\ Listed(c) /\ Settled(c, F, c.i)
        /\ c.ways \subseteq {c.names} /\ (c.i \notin Field \/ c.i > c.size) /\ c.i >= 1
    BY <1>0, <1>2, <1>13 DEF ArrayEnd, At, BoundTo, Ordered, Shape
  <2> DEFINE long == c.size > cls.nfields /\ cls.forbid_unknown_fields
             short == c.i - 1 < NRequired
             at == IF long \/ short THEN "refused" ELSE "defaults"
             f == [c EXCEPT !.at = at]
  <2>2. Goto(a, at) /\ Quietly
    BY <1>13 DEF ArrayEnd
  <2>3. c.wrong <=> long
    BY <2>1 DEF Listed
  <2>4. short => \E j \in Field : Wanted(c, j) = NODEFAULT
    <3> SUFFICES ASSUME short PROVE \E j \in Field : Wanted(c, j) = NODEFAULT
      OBVIOUS
    <3>1. NRequired > 0 /\ c.i \in Field /\ c.i <= NRequired
      BY <1>0, <1>3, <2>1 DEF Field
    <3>2. NRequired \in Field /\ DefaultOf(NRequired) = NODEFAULT
      BY <1>0, <3>1, LastRequired
    <3>3. c.given[NRequired] = NoValue
      BY <1>0, <1>3, <2>1, <3>1, <3>2 DEF Listed, Unset
    <3> QED BY <1>0, <3>2, <3>3, GivenWanted
  <2>5. /\ at = "refused" => long \/ short
        /\ at = "defaults" => ~long
        /\ at \in {"refused", "defaults"}
    OBVIOUS
  <2> HIDE DEF at, long, short
  <2>6. /\ f.op = c.op /\ f.at = at /\ f.given = c.given /\ f.ways = c.ways /\ f.i = c.i
        /\ f.names = c.names /\ f.wrong = c.wrong /\ \A j \in Field : Wanted(f, j) = Wanted(c, j)
    BY <1>0 DEF Frame, Wanted
  <2> HIDE DEF f
  <2>7. Unset(f, f.i) /\ Settled(f, F, f.i)
    BY <1>0, <1>3, <2>1, <2>6 DEF Listed, Unset, Settled, Field
  <2>8. BoundTo(f, F)
    BY <2>1, <2>3, <2>4, <2>5, <2>6, <2>7 DEF BoundTo, Ordered, Filling
  <2> QED BY <1>1, <1>4, <2>2, <2>5, <2>8 DEF Stage, f
<1>14. CASE SeqEnd(a)
  <2> DEFINE f == [c EXCEPT !.at = "defaults"]
  <2>1. /\ c.at = "items" /\ c.op = "seq" /\ Listed(c) /\ Settled(c, F, c.i)
        /\ c.ways \subseteq {c.names} /\ (c.i \notin Field \/ c.i > c.size) /\ c.i >= 1
    BY <1>0, <1>2, <1>14 DEF SeqEnd, At, BoundTo, Ordered, Shape
  <2>2. Goto(a, "defaults") /\ Quietly
    BY <1>14 DEF SeqEnd
  <2>3. /\ f.op = c.op /\ f.at = "defaults" /\ f.given = c.given /\ f.ways = c.ways /\ f.i = c.i
        /\ f.names = c.names /\ f.wrong = c.wrong /\ \A j \in Field : Wanted(f, j) = Wanted(c, j)
    BY <1>0 DEF Frame, Wanted
  <2> HIDE DEF f
  <2>4. Unset(f, f.i) /\ Settled(f, F, f.i)
    BY <1>0, <1>3, <2>1, <2>3 DEF Listed, Unset, Settled, Field
  <2>5. BoundTo(f, F)
    BY <2>1, <2>3, <2>4 DEF BoundTo, Ordered, Filling
  <2> QED BY <1>1, <1>4, <2>2, <2>5 DEF Stage, f
<1>15. CASE ArrayDefault(a)
  <2> DEFINE i == c.i
             v == DefaultOf(i)
             next == [c EXCEPT !.i = @ + 1]
  <2>1. /\ c.at = "defaults" /\ c.op \in Ordered /\ i \in Field /\ Unset(c, i)
        /\ c.op = "array" => ~c.wrong
        /\ Settled(c, F, i) /\ c.ways \subseteq {c.names}
    BY <1>2, <1>15 DEF ArrayDefault, BoundTo, Ordered
  <2>2. Fill(a, i, v, next)
    BY <1>15 DEF ArrayDefault
  <2>3. /\ next \in Frame /\ next.op = c.op /\ next.obj = o /\ next.at = c.at
        /\ next.i = i + 1 /\ next.given = c.given /\ next.size = c.size
        /\ next.names = c.names /\ next.ways = c.ways /\ next.wrong = c.wrong
        /\ \A j \in Field : Wanted(next, j) = Wanted(c, j)
    BY <1>7
  <2>4. v \in Value /\ v # NODEFAULT
    BY <1>0, <1>3, <2>1 DEF Shape, Ordered
  <2>5. v = Wanted(c, i)
    BY <1>0, <2>1, GivenWanted DEF Unset
  <2> HIDE DEF next, v
  <2>6. Settled(next, [F EXCEPT ![i] = v], i + 1)
    BY <1>0, <1>2, <2>1, <2>3, <2>4, <2>5, Settles
  <2>7. Unset(next, i + 1)
    BY <1>0, <1>3, <2>1, <2>3 DEF Unset, Field
  <2>8. BoundTo(next, [F EXCEPT ![i] = v])
    BY <2>1, <2>3, <2>6, <2>7 DEF BoundTo, Ordered, Filling
  <2> QED BY <1>0, <1>1, <2>1, <2>2, <2>3, <2>4, <2>8, StoreBinds
<1>16. CASE Attribute(a)
  <2> DEFINE i == c.i
             next == [c EXCEPT !.i = @ + 1]
             Looked(way, has) ==
                IF way \in has
                THEN \E v \in Value :
                        Fill(a, i, v, IF i \in cls.renamed
                                      THEN [next EXCEPT !.given[i] = v, !.names = way,
                                                        !.ways = @ \cup {way}]
                                      ELSE [next EXCEPT !.given[i] = v])
                ELSE IF DefaultOf(i) # NODEFAULT
                     THEN Fill(a, i, DefaultOf(i), next)
                     ELSE Goto(a, "refused") /\ Quietly
  <2>1. /\ c.at = "items" /\ c.op = "attrs" /\ i \in Field /\ ~c.wrong /\ Unset(c, i)
        /\ Settled(c, F, i) /\ c.ways \subseteq {c.names}
    BY <1>2, <1>16 DEF Attribute, At, BoundTo, Ordered, Filling
  <2>2. PICK has \in Has(i) : Looked(FoundAs(i, has, c.names), has)
    BY <1>16 DEF Attribute
  <2> DEFINE way == FoundAs(i, has, c.names)
  <2>3. c.names \in {"open", "name", "alias"} /\ c.ways \subseteq {"name", "alias"}
    BY <1>0 DEF Frame
  <2>4. way \in {"name", "alias"} /\ c.ways \subseteq {way}
    BY <2>1, <2>3 DEF FoundAs
  <2> HIDE DEF way
  <2>5. /\ next \in Frame /\ next.op = c.op /\ next.obj = o /\ next.at = c.at
        /\ next.i = i + 1 /\ next.given = c.given /\ next.size = c.size
        /\ next.names = c.names /\ next.ways = c.ways /\ next.wrong = c.wrong
        /\ \A j \in Field : Wanted(next, j) = Wanted(c, j)
    BY <1>7
  <2> HIDE DEF next
  <2>6. ASSUME NEW v \in Value, NEW g \in Frame, Fill(a, i, v, g),
               g.op = c.op, g.obj = o, g.at = c.at, g.i = i + 1, g.wrong = c.wrong,
               g.given = [c.given EXCEPT ![i] = v] \/ (g.given = c.given /\ v = DefaultOf(i)),
               v # NODEFAULT, g.ways \subseteq {g.names}
        PROVE  OwnBound(a)
    <3>1. c.given \in [Field -> Value \cup {NoValue}] /\ v # NoValue
      BY <1>0, ConstantsOK DEF Frame, ConstantsOK
    <3>2. \A j \in Field : j # i => g.given[j] = c.given[j]
      BY <2>6, <3>1
    <3>3. v = Wanted(g, i)
      BY <1>0, <2>1, <2>6, <3>1 DEF Wanted, Unset
    <3>4. Settled(g, [F EXCEPT ![i] = v], i + 1)
      <4>1. \A j \in Field : j < i => g.given[j] = c.given[j]
        BY <1>0, <1>3, <3>2 DEF Field
      <4> QED BY <1>0, <1>2, <2>1, <2>6, <3>3, <4>1, Settles
    <3>5. Unset(g, i + 1)
      BY <1>0, <1>3, <2>1, <3>2 DEF Unset, Field
    <3>6. BoundTo(g, [F EXCEPT ![i] = v])
      BY <2>1, <2>6, <3>4, <3>5 DEF BoundTo, Ordered, Filling
    <3> QED BY <1>0, <1>1, <2>1, <2>6, <3>6, StoreBinds
  <2>7. CASE way \in has
    <3>1. PICK v \in Value :
             Fill(a, i, v, IF i \in cls.renamed
                           THEN [next EXCEPT !.given[i] = v, !.names = way,
                                             !.ways = @ \cup {way}]
                           ELSE [next EXCEPT !.given[i] = v])
      BY <2>2, <2>7 DEF way
    <3>2. v # NODEFAULT /\ next.given \in [Field -> Value \cup {NoValue}]
      BY <2>5, ConstantsOK DEF ConstantsOK, Frame
    <3> DEFINE given == [next.given EXCEPT ![i] = v]
               ways == next.ways \cup {way}
               g == [next EXCEPT !.given = given]
               h == [next EXCEPT !.given = given, !.names = way, !.ways = ways]
    <3>3. given \in [Field -> Value \cup {NoValue}] /\ ways = {way}
          /\ given = [c.given EXCEPT ![i] = v]
      BY <2>1, <2>4, <2>5, <3>2
    <3>4. Fill(a, i, v, g) \/ Fill(a, i, v, h)
      BY <3>1
    <3> HIDE DEF given, ways
    <3>5. /\ g \in Frame /\ g.op = c.op /\ g.obj = o /\ g.at = c.at /\ g.i = i + 1
          /\ g.wrong = c.wrong /\ g.given = given /\ g.ways = c.ways /\ g.names = c.names
      BY <2>5, <3>3 DEF Frame
    <3>6. /\ h \in Frame /\ h.op = c.op /\ h.obj = o /\ h.at = c.at /\ h.i = i + 1
          /\ h.wrong = c.wrong /\ h.given = given /\ h.ways = ways /\ h.names = way
      BY <2>4, <2>5, <3>3 DEF Frame
    <3> HIDE DEF g, h
    <3> QED BY <1>1, <2>1, <2>6, <3>2, <3>3, <3>4, <3>5, <3>6
  <2>8. CASE way \notin has /\ DefaultOf(i) # NODEFAULT
    <3>1. Fill(a, i, DefaultOf(i), next)
      BY <2>2, <2>8 DEF way
    <3>2. DefaultOf(i) \in Value
      BY <1>3, <2>1, <2>8
    <3> QED BY <1>1, <2>1, <2>5, <2>6, <2>8, <3>1, <3>2
  <2>9. CASE way \notin has /\ DefaultOf(i) = NODEFAULT
    <3> DEFINE f == [c EXCEPT !.at = "refused"]
    <3>1. Goto(a, "refused") /\ Quietly
      BY <2>2, <2>9 DEF way
    <3>2. f.at = "refused" /\ f.given = c.given /\ f.ways = c.ways /\ f.names = c.names
      BY <1>0 DEF Frame
    <3>3. Wanted(c, i) = NODEFAULT
      BY <1>0, <2>1, <2>9, GivenWanted DEF Unset
    <3>4. BoundTo(f, F)
      <4> HIDE DEF f
      <4> QED BY <2>1, <3>2, <3>3 DEF BoundTo, Wanted, Filling
    <3> QED BY <1>1, <1>4, <3>1, <3>4 DEF Stage
  <2> QED BY <2>7, <2>8, <2>9
<1> QED BY <1>5, <1>6, <1>8, <1>9, <1>10, <1>11, <1>12, <1>13, <1>14, <1>15, <1>16 DEF Fills

(* A call begins with arguments and an instance of its own, or copies one.  *)
NewBound(a, o) ==
    /\ \A p \in Object : p # o => /\ heap'[p] = heap[p]
                                  /\ p \in exposed => p \in exposed'
    /\ heap'[o].hash = Null
    /\ \A b \in Actor \ {a} : call'[b] = call[b]
    /\ call'[a].op \in Making \cup {"none"}
    /\ call'[a].op \in Making => call'[a].obj = o /\ BoundTo(call'[a], heap'[o].fields)
    /\ cls' = cls /\ answers' = answers

LEMMA BeginBinds ==
    ASSUME Typed, NEW a \in Actor, NEW o \in Object, NEW frame \in Frame, NEW fields,
           Begin(a, o, frame, fields), frame.op \in Making, BoundTo(frame, fields)
    PROVE  NewBound(a, o)
<1> DEFINE f == [frame EXCEPT !.obj = o]
<1>1. /\ f.op = frame.op /\ f.at = frame.at /\ f.i = frame.i /\ f.obj = o
      /\ f.given = frame.given /\ f.size = frame.size /\ f.seen = frame.seen
      /\ f.names = frame.names /\ f.ways = frame.ways /\ f.wrong = frame.wrong
  BY DEF Frame
<1>2. /\ call' = [call EXCEPT ![a] = f] /\ heap' = [heap EXCEPT ![o] = Alloc(fields)]
      /\ cls' = cls /\ answers' = answers /\ exposed' = exposed
  BY DEF Begin
<1> HIDE DEF f
<1>3. heap \in [Object -> Instance] /\ call \in [Actor -> Frame]
  BY DEF Typed, TypeOK
<1>4. BoundTo(f, fields)
  BY <1>1 DEF BoundTo, Passed, Open, Settled, Listed, Unset, Wanted
<1>5. Alloc(fields).fields = fields /\ Alloc(fields).hash = Null
  BY DEF Alloc
<1> QED BY <1>1, <1>2, <1>3, <1>4, <1>5 DEF NewBound

LEMMA BeginsBound ==
    ASSUME Sees, NEW a \in Actor, NEW o \in Object, Begins(a, o)
    PROVE  NewBound(a, o)
<1>0. /\ Typed /\ cls \in Class /\ Idle \in Frame /\ call[a].op = "none"
      /\ heap \in [Object -> Instance] /\ call \in [Actor -> Frame]
  BY IdleFrame DEF Sees, Typed, TypeOK, Begins
<1>1. cls.nfields \in Nat /\ cls.nkwonly \in 0..cls.nfields
  BY <1>0, ConstantsOK DEF ConstantsOK
<1>2. NoFields \in [Field -> Value \cup {NoValue}] /\ \A j \in Field : NoFields[j] = NoValue
  BY DEF NoFields
<1>3. ASSUME NEW f, NEW fields PROVE Settled(f, fields, 1)
  BY <1>1 DEF Settled, Field
<1>4. CASE Construct(a, o)
  <2> DEFINE Passing(n, args) ==
                LET fields == [i \in Field |-> IF i <= n THEN args[i] ELSE NoValue] IN
                Begin(a, o, [Idle EXCEPT !.op = "init", !.at = "keywords", !.size = n,
                                         !.given = fields, !.should_untrack = Untracked(fields)],
                      fields)
  <2>1. PICK n \in 0..cls.nfields : \E args \in [1..n -> Value] : Passing(n, args)
    BY <1>4 DEF Construct
  <2>2. PICK args \in [1..n -> Value] : Passing(n, args)
    BY <2>1
  <2> DEFINE fields == [i \in Field |-> IF i <= n THEN args[i] ELSE NoValue]
             frame == [Idle EXCEPT !.op = "init", !.at = "keywords", !.size = n,
                                   !.given = fields, !.should_untrack = Untracked(fields)]
  <2>3. fields \in [Field -> Value \cup {NoValue}]
        /\ \A j \in Field : (fields[j] # NoValue) <=> j <= n
    BY <1>1, ConstantsOK DEF Field, ConstantsOK
  <2>4. Begin(a, o, frame, fields)
    BY <2>2
  <2> HIDE DEF fields
  <2>5. frame \in Frame
    <3>1. n \in Nat
      BY <1>1
    <3> QED BY <2>3, <3>1, <1>0, InitFrame
  <2>6. /\ frame.op = "init" /\ frame.at = "keywords" /\ frame.size = n /\ frame.given = fields
        /\ frame.seen = {} /\ frame.ways = {} /\ frame.wrong = FALSE
    BY DEF Idle
  <2> HIDE DEF frame
  <2>7. Passed(frame) /\ Open(frame, fields, 1)
    BY <2>3, <2>6 DEF Passed, Open
  <2>8. BoundTo(frame, fields)
    BY <2>6, <2>7 DEF BoundTo
  <2> QED BY <1>0, <2>4, <2>5, <2>6, <2>8, BeginBinds DEF Making
<1>5. CASE DecodeMap(a, o)
  <2> DEFINE frame == [Idle EXCEPT !.op = "map", !.at = "items", !.should_untrack = TRUE]
  <2>1. frame \in Frame
    BY <1>0 DEF Frame, Idle, Op, Stage
  <2>2. /\ frame.op = "map" /\ frame.at = "items" /\ frame.given = NoFields
        /\ frame.ways = {} /\ frame.wrong = FALSE
    BY DEF Idle
  <2>3. Begin(a, o, frame, NoFields)
    BY <1>5 DEF DecodeMap
  <2> HIDE DEF frame
  <2>4. BoundTo(frame, NoFields)
    BY <2>2 DEF BoundTo, Open, Ordered
  <2> QED BY <1>0, <2>1, <2>2, <2>3, <2>4, BeginBinds DEF Making
<1>6. CASE FromAttributes(a, o)
  <2> DEFINE frame == [Idle EXCEPT !.op = "attrs", !.at = "items", !.i = 1,
                                   !.should_untrack = TRUE,
                                   !.names = IF cls.renamed = {} THEN "name" ELSE "open"]
  <2>1. frame \in Frame
    BY <1>0, ZenonT(60) DEF Frame, Idle, Op, Stage
  <2>2. /\ frame.op = "attrs" /\ frame.at = "items" /\ frame.given = NoFields /\ frame.i = 1
        /\ frame.ways = {} /\ frame.wrong = FALSE
    BY DEF Idle
  <2>3. Begin(a, o, frame, NoFields)
    BY <1>6 DEF FromAttributes
  <2> HIDE DEF frame
  <2>4. Unset(frame, 1)
    BY <1>2, <2>2 DEF Unset
  <2>5. BoundTo(frame, NoFields)
    BY <1>3, <2>2, <2>4 DEF BoundTo, Ordered
  <2> QED BY <1>0, <2>1, <2>2, <2>3, <2>5, BeginBinds DEF Making
<1>7. ASSUME NEW op \in Ordered, ArrayBegins(a, o, op) PROVE NewBound(a, o)
  <2> DEFINE Reading(n, items) ==
                Begin(a, o,
                      [Idle EXCEPT !.op = op, !.at = "items", !.i = 1, !.size = n,
                         !.should_untrack = TRUE,
                         !.wrong = cls.forbid_unknown_fields /\ n > cls.nfields,
                         !.given = [i \in Field |-> IF i <= n THEN items[i] ELSE NoValue]],
                      NoFields)
  <2>1. PICK n \in 0..MaxItems : \E items \in [1..n -> Value] : Reading(n, items)
    BY <1>7 DEF ArrayBegins
  <2>2. PICK items \in [1..n -> Value] : Reading(n, items)
    BY <2>1
  <2> DEFINE given == [i \in Field |-> IF i <= n THEN items[i] ELSE NoValue]
             wrong == cls.forbid_unknown_fields /\ n > cls.nfields
             frame == [Idle EXCEPT !.op = op, !.at = "items", !.i = 1, !.size = n,
                                   !.should_untrack = TRUE, !.wrong = wrong, !.given = given]
  <2>3. given \in [Field -> Value \cup {NoValue}] /\ \A j \in Field : j > n => given[j] = NoValue
    BY <1>1, ConstantsOK DEF Field, ConstantsOK
  <2>4. Begin(a, o, frame, NoFields)
    BY <2>2
  <2>5. wrong \in BOOLEAN /\ (wrong <=> cls.forbid_unknown_fields /\ n > cls.nfields)
    OBVIOUS
  <2> HIDE DEF given, wrong
  <2>6. n \in Nat
    BY ConstantsOK DEF ConstantsOK
  <2>7. frame \in Frame
    BY <1>0, <2>3, <2>5, <2>6, ArrayFrame DEF Ordered
  <2>8. /\ frame.op = op /\ frame.at = "items" /\ frame.given = given /\ frame.i = 1
        /\ frame.size = n /\ frame.ways = {} /\ frame.wrong = wrong
    BY DEF Idle
  <2> HIDE DEF frame
  <2>9. Listed(frame)
    BY <1>1, <2>3, <2>5, <2>6, <2>8 DEF Listed, Unset, Field
  <2>10. BoundTo(frame, NoFields)
    BY <1>3, <2>8, <2>9 DEF BoundTo, Ordered
  <2>11. op \in Making
    BY DEF Ordered, Making
  <2> QED BY <1>0, <2>4, <2>7, <2>8, <2>10, <2>11, BeginBinds
<1>8. ASSUME NEW frame \in Frame, NEW fields \in [Field -> Value \cup {NoValue}],
             \A j \in Field : fields[j] # NoValue,
             frame.at = "filled", frame.given = fields, frame.op \in Making,
             frame.ways = {}, frame.wrong = FALSE
      PROVE  BoundTo(frame, fields)
  <2>1. Settled(frame, fields, cls.nfields + 1)
    BY <1>1, <1>8, GivenWanted DEF Settled, Field
  <2> QED BY <1>8, <2>1 DEF BoundTo
<1>9. ASSUME NEW src \in Object, Replace(a, src, o) PROVE NewBound(a, o)
  <2> DEFINE With(S, changes) ==
                LET fields == [i \in Field |-> IF i \in S THEN changes[i]
                                               ELSE heap[src].fields[i]] IN
                /\ \A i \in Field : fields[i] # NoValue
                /\ Begin(a, o, [Idle EXCEPT !.op = "replace", !.at = "filled", !.given = fields,
                                            !.should_untrack = Untracked(fields)], fields)
  <2>1. PICK S \in SUBSET Field : \E changes \in [S -> Value] : With(S, changes)
    BY <1>9 DEF Replace
  <2>2. PICK changes \in [S -> Value] : With(S, changes)
    BY <2>1
  <2> DEFINE fields == [i \in Field |-> IF i \in S THEN changes[i] ELSE heap[src].fields[i]]
             frame == [Idle EXCEPT !.op = "replace", !.at = "filled", !.given = fields,
                                   !.should_untrack = Untracked(fields)]
  <2>3. fields \in [Field -> Value \cup {NoValue}]
    BY <1>0 DEF Instance
  <2>4. Begin(a, o, frame, fields) /\ \A i \in Field : fields[i] # NoValue
    BY <2>2
  <2> HIDE DEF fields
  <2>5. frame \in Frame
    BY <2>3, <1>0, ZenonT(60) DEF Frame, Idle, Op, Stage, Untracked
  <2>6. /\ frame.op = "replace" /\ frame.at = "filled" /\ frame.given = fields
        /\ frame.ways = {} /\ frame.wrong = FALSE
    BY DEF Idle
  <2> HIDE DEF frame
  <2>7. BoundTo(frame, fields)
    BY <1>8, <2>3, <2>4, <2>5, <2>6 DEF Making
  <2> QED BY <1>0, <2>4, <2>5, <2>6, <2>7, BeginBinds DEF Making
<1>10. ASSUME NEW src \in Object, Rebuild(a, src, o) PROVE NewBound(a, o)
  <2> DEFINE fields == heap[src].fields
             at == IF Reduced <= cls.nfields - cls.nkwonly THEN "filled" ELSE "refused"
             frame == [Idle EXCEPT !.op = "init", !.given = fields, !.size = Reduced, !.at = at,
                                   !.should_untrack = Untracked(fields)]
  <2>1. fields \in [Field -> Value \cup {NoValue}] /\ \A j \in Field : fields[j] # NoValue
    BY <1>0, <1>10 DEF Instance, Rebuild, Complete
  <2>2. Begin(a, o, frame, fields)
    BY <1>10 DEF Rebuild
  <2>3. at = "filled" /\ Reduced \in Nat
    BY <1>1 DEF Reduced
  <2> HIDE DEF fields, at
  <2>4. frame \in Frame
    BY <2>1, <2>3, <1>0, ZenonT(60) DEF Frame, Idle, Op, Stage, Untracked
  <2>5. /\ frame.op = "init" /\ frame.at = "filled" /\ frame.given = fields
        /\ frame.ways = {} /\ frame.wrong = FALSE
    BY <2>3 DEF Idle
  <2> HIDE DEF frame
  <2>6. BoundTo(frame, fields)
    BY <1>8, <2>1, <2>4, <2>5 DEF Making
  <2> QED BY <1>0, <2>2, <2>4, <2>5, <2>6, BeginBinds DEF Making
<1>11. ASSUME NEW src \in Object, Copy(a, src, o) PROVE NewBound(a, o)
  <2>1. Copied(src).hash = Null
    BY DEF Copied, Alloc
  <2> QED BY <1>0, <1>11, <2>1 DEF Copy, NewBound, Making
<1> QED BY <1>4, <1>5, <1>6, <1>7, <1>9, <1>10, <1>11 DEF Begins, Ordered

(* The end of a call: it goes on with the instance, passes it on or drops   *)
(* it.                                                                      *)
Shown(h) == h.life \in {"shown", "live"}

LastBound(a) ==
    LET o == call[a].obj IN
    /\ Makes(a) /\ o \in Object /\ cls' = cls
    /\ \A p \in Object : p # o => /\ heap'[p] = heap[p] /\ answers'[p] = answers[p]
                                  /\ p \in exposed => p \in exposed'
    /\ \A b \in Actor \ {a} : call'[b] = call[b]
    /\ \/ /\ heap'[o].fields = heap[o].fields /\ heap'[o].hash = heap[o].hash
          /\ Shown(heap[o]) => Shown(heap'[o])
          /\ answers'[o] = answers[o] /\ exposed' = exposed
       \/ /\ heap'[o] = Free /\ answers'[o] = {} /\ call'[a] = Idle
          /\ \A b \in Actor \ {a} : call[b].obj # o
    /\ \/ call'[a] = Idle
       \/ /\ call'[a].op = call[a].op /\ call'[a].obj = o
          /\ BoundTo(call'[a], heap[o].fields)

LEMMA EndsBound ==
    ASSUME Sees, Binds, NEW a \in Actor, Ends(a)
    PROVE  LastBound(a)
<1> DEFINE c == call[a]
           o == call[a].obj
           F == heap[o].fields
           Rest == /\ cls' = cls /\ answers' = answers /\ exposed' = exposed
                   /\ \A p \in Object : p # o => heap'[p] = heap[p]
                   /\ heap'[o].fields = F /\ heap'[o].hash = heap[o].hash
                   /\ Shown(heap[o]) => Shown(heap'[o])
           Kept(at) == at \notin Filling \cup {"refused"} \/ BoundTo([c EXCEPT !.at = at], F)
<1>0. /\ Typed /\ cls \in Class /\ c \in Frame /\ Shape(c) /\ c.i \in Nat /\ c.op \in Op
      /\ heap \in [Object -> Instance] /\ call \in [Actor -> Frame]
      /\ answers \in [Object -> SUBSET Seq(Value)]
  BY DEF Sees, Typed, TypeOK, Frame
<1>1. c.at \notin {"none", "track", "fields"}
  BY DEF Ends, Filled, Decide, CheckTypes, PostInit, Return, Fails, Drop, At
<1>2. Makes(a) /\ o \in Object
  BY <1>0, <1>1 DEF Makes, Making, Shape, Op
<1>3. BoundTo(c, F) /\ heap[o] \in Instance /\ c.ways \subseteq {c.names}
      /\ cls.nfields \in Nat
  BY <1>0, <1>2, Defaults DEF Binds, BoundTo
<1>q. Quietly => Rest
  BY DEF Quietly
<1>k. \A at \in {"check", "post", "running", "failed"} : Kept(at)
  BY DEF Filling
<1>4. ASSUME NEW at, Goto(a, at), Rest, Kept(at)
      PROVE  LastBound(a)
  <2> DEFINE f == [c EXCEPT !.at = at]
  <2>1. f.op = c.op /\ f.obj = o /\ f.at = at /\ f.ways = c.ways /\ f.names = c.names
    BY <1>0 DEF Frame
  <2>2. call' = [call EXCEPT ![a] = f]
    BY <1>4 DEF Goto
  <2>3. at \notin Filling \cup {"refused"} \/ BoundTo(f, F)
    BY <1>4
  <2> HIDE DEF f
  <2>4. BoundTo(f, F)
    BY <1>3, <2>1, <2>3 DEF BoundTo, Filling
  <2>5. call'[a] = f /\ \A b \in Actor \ {a} : call'[b] = call[b]
    BY <1>0, <2>2
  <2> QED BY <1>2, <1>4, <2>1, <2>4, <2>5 DEF LastBound
<1> HIDE DEF Rest, Kept
<1>5. CASE Filled(a)
  <2> DEFINE at == IF c.op = "seq" /\ c.wrong THEN "refused" ELSE "filled"
             f == [c EXCEPT !.at = at]
  <2>1. Goto(a, at) /\ Quietly
    BY <1>5 DEF Filled
  <2>2. /\ c.at = "defaults" \/ (c.op = "attrs" /\ c.at = "items")
        /\ c.i >= 1 /\ c.i \notin Field /\ Settled(c, F, c.i)
    BY <1>0, <1>3, <1>5 DEF Filled, At, Shape, BoundTo
  <2>3. Settled(c, F, cls.nfields + 1)
    BY <1>0, <1>3, <2>2 DEF Settled, Field
  <2>4. ~c.wrong \/ c.op = "seq"
    BY <1>0, <1>3, <2>2 DEF BoundTo, Filling, Ordered, Shape
  <2>5. f.at = at /\ f.ways = c.ways /\ f.names = c.names /\ f.wrong = c.wrong
        /\ f.given = c.given
    BY <1>0 DEF Frame
  <2>6. (at = "refused" /\ c.wrong) \/ (at = "filled" /\ ~c.wrong)
    BY <2>4
  <2> HIDE DEF f, at
  <2>7. BoundTo(f, F)
    BY <1>3, <2>3, <2>5, <2>6 DEF BoundTo, Filling, Settled, Wanted
  <2> QED BY <1>4, <1>q, <2>1, <2>7 DEF f, Kept
<1>6. CASE CheckTypes(a) \/ Fails(a)
  <2>1. PICK at \in {"post", "failed"} : Goto(a, at) /\ Quietly
    BY <1>6 DEF CheckTypes, Fails
  <2> QED BY <1>4, <1>k, <1>q, <2>1
<1>7. CASE Decide(a)
  <2>1. PICK at \in {"check", "post"} : Goto(a, at)
    BY <1>7 DEF Decide
  <2>2. /\ \A p \in Object : p # o => heap'[p] = heap[p]
        /\ heap'[o].fields = F /\ heap'[o].hash = heap[o].hash
        /\ heap'[o].life = heap[o].life
        /\ cls' = cls /\ answers' = answers /\ exposed' = exposed
    BY <1>0, <1>2, <1>3, <1>7 DEF Decide, Instance
  <2>3. Rest
    BY <2>2 DEF Rest, Shown
  <2> QED BY <1>4, <1>k, <2>1, <2>3
<1>8. CASE PostInit(a)
  <2>1. Goto(a, "running")
    BY <1>8 DEF PostInit
  <2>2. /\ \A p \in Object : p # o => heap'[p] = heap[p]
        /\ heap'[o].fields = F /\ heap'[o].hash = heap[o].hash
        /\ heap'[o].life = "shown"
        /\ cls' = cls /\ answers' = answers /\ exposed' = exposed
    BY <1>0, <1>2, <1>3, <1>8 DEF PostInit, Instance
  <2>3. Rest
    BY <2>2 DEF Rest, Shown
  <2> QED BY <1>4, <1>k, <2>1, <2>3
<1>9. CASE Return(a)
  <2>1. /\ \A p \in Object : p # o => heap'[p] = heap[p]
        /\ heap'[o].fields = F /\ heap'[o].hash = heap[o].hash
        /\ heap'[o].life = "live"
        /\ cls' = cls /\ answers' = answers /\ exposed' = exposed
    BY <1>0, <1>2, <1>3, <1>9 DEF Return, Instance
  <2>2. call'[a] = Idle /\ \A b \in Actor \ {a} : call'[b] = call[b]
    BY <1>0, <1>9 DEF Return
  <2> QED BY <1>2, <2>1, <2>2 DEF LastBound, Shown
<1>10. CASE Drop(a)
  <2>1. call'[a] = Idle /\ (\A b \in Actor \ {a} : call'[b] = call[b]) /\ cls' = cls
    BY <1>0, <1>10 DEF Drop
  <2>2. CASE /\ \A b \in Actor \ {a} : call[b].obj # o
             /\ heap' = [heap EXCEPT ![o] = Free]
             /\ answers' = [answers EXCEPT ![o] = {}]
             /\ exposed' = exposed \ {o}
    BY <1>0, <1>2, <2>1, <2>2 DEF LastBound
  <2>3. CASE /\ heap[o].life = "shown"
             /\ heap' = [heap EXCEPT ![o].life = "live"]
             /\ UNCHANGED <<answers, exposed>>
    <3>1. /\ \A p \in Object : p # o => heap'[p] = heap[p]
          /\ heap'[o].fields = F /\ heap'[o].hash = heap[o].hash
          /\ heap'[o].life = "live"
      BY <1>0, <1>2, <1>3, <2>3 DEF Instance
    <3> QED BY <1>2, <2>1, <2>3, <3>1 DEF LastBound, Shown
  <2> QED BY <1>10, <2>2, <2>3 DEF Drop
<1> QED BY <1>5, <1>6, <1>7, <1>8, <1>9, <1>10 DEF Ends

(* The other calls touch no instance that is being filled.                  *)
LEMMA OthersBound ==
    ASSUME Sees, NEW a \in Actor,
           (\E o \in Object : Uses(a, o)) \/ Track(a) \/ HashField(a) \/ HashEnds(a)
    PROVE  /\ cls' = cls /\ ~Makes(a)
           /\ \A p \in Object : heap'[p].fields = heap[p].fields \/ Visible(p)
           /\ \A b \in Actor \ {a} : call'[b] = call[b]
           /\ call'[a].op \notin Making
<1> DEFINE o == call[a].obj
           CallKept(f) == f.op \notin Making /\ call' = [call EXCEPT ![a] = f]
           Rest == cls' = cls /\ \A p \in Object : heap'[p].fields = heap[p].fields \/ Visible(p)
<1>0. /\ call \in [Actor -> Frame] /\ heap \in [Object -> Instance] /\ Shape(call[a])
      /\ call[a] \in Frame /\ call = [call EXCEPT ![a] = call[a]]
  BY DEF Sees, Typed, TypeOK
<1>1. Idle.op \notin Making /\ call[a].op \in {"none", "setattr", "hash"}
  BY DEF Idle, Making, Uses, SetAttr, DelAttr, ObjectSetAttr, Hash, Track, HashField, HashEnds, At
<1>2. SUFFICES Rest /\ \E f : CallKept(f)
  <2>1. PICK f : CallKept(f)
    BY <1>2
  <2>2. call'[a] = f /\ \A b \in Actor \ {a} : call'[b] = call[b]
    BY <1>0, <2>1
  <2> QED BY <1>1, <1>2, <2>1, <2>2 DEF Makes, Making
<1>3. CallKept(call[a]) <=> call' = call
  BY <1>0, <1>1 DEF Making
<1>4. CallKept(Idle) <=> call' = [call EXCEPT ![a] = Idle]
  BY <1>1
<1>5. ASSUME NEW p \in Object, Uses(a, p) PROVE Rest /\ \E f : CallKept(f)
  <2>1. CASE SetAttr(a, p)
    <3>1. PICK i \in Field, v \in Value :
            /\ heap' = [heap EXCEPT ![p].fields[i] = v]
            /\ call' = [call EXCEPT ![a] = [Idle EXCEPT !.op = "setattr", !.at = "track",
                                                        !.obj = p, !.value = v]]
      BY <2>1 DEF SetAttr
    <3> DEFINE f == [Idle EXCEPT !.op = "setattr", !.at = "track", !.obj = p, !.value = v]
    <3>2. f.op = "setattr"
      BY DEF Idle
    <3>3. call' = [call EXCEPT ![a] = f]
      BY <3>1
    <3> HIDE DEF f
    <3>4. CallKept(f)
      BY <3>2, <3>3 DEF Making
    <3>5. Rest
      BY <1>0, <2>1, <3>1 DEF SetAttr
    <3> QED BY <3>4, <3>5
  <2>2. CASE DelAttr(a, p)
    BY <1>0, <1>3, <2>2 DEF DelAttr
  <2>3. CASE ObjectSetAttr(a, p)
    BY <1>0, <1>3, <2>3 DEF ObjectSetAttr, Visible
  <2>4. CASE Hash(a, p)
    <3> DEFINE f == [Idle EXCEPT !.op = "hash", !.at = "fields", !.obj = p, !.i = 1]
    <3>1. call' = call \/ call' = [call EXCEPT ![a] = f]
      BY <2>4 DEF Hash
    <3>2. f.op = "hash"
      BY DEF Idle
    <3> HIDE DEF f
    <3>3. CallKept(f) \/ CallKept(call[a])
      BY <1>3, <3>1, <3>2 DEF Making
    <3> QED BY <2>4, <3>3 DEF Hash
  <2> QED BY <1>5, <2>1, <2>2, <2>3, <2>4 DEF Uses
<1>6. CASE Track(a)
  <2>1. Rest
    BY <1>0, <1>6 DEF Track, Instance
  <2> QED BY <1>4, <1>6, <2>1 DEF Track
<1>7. CASE HashEnds(a)
  <2>1. Rest
    BY <1>0, <1>7 DEF HashEnds, Instance
  <2> QED BY <1>4, <1>7, <2>1 DEF HashEnds
<1>8. CASE HashField(a)
  <2> DEFINE f == [call[a] EXCEPT !.i = @ + 1,
                                  !.acc = Append(@, heap[o].fields[call[a].i])]
  <2>1. Rest /\ (call' = [call EXCEPT ![a] = Idle] \/ call' = [call EXCEPT ![a] = f])
    BY <1>8 DEF HashField, Quietly
  <2>2. f.op = call[a].op
    BY <1>0 DEF Frame
  <2> HIDE DEF f
  <2>3. CallKept(Idle) \/ CallKept(f)
    BY <1>1, <2>1, <2>2 DEF Making
  <2> QED BY <2>1, <2>3
<1> QED BY <1>5, <1>6, <1>7, <1>8

(* Nobody but the call itself changes the fields of what it fills.          *)
LEMMA BindsKept ==
    ASSUME Sees, Binds, cls' = cls,
           \A b \in Actor : call'[b].op \in Making =>
              \/ BoundTo(call'[b], heap'[call'[b].obj].fields)
              \/ /\ call'[b] = call[b]
                 /\ \/ call[b].at \notin Filling
                    \/ heap'[call[b].obj].fields = heap[call[b].obj].fields
    PROVE  Binds'
<1> SUFFICES ASSUME NEW b \in Actor, call'[b].op \in Making
             PROVE  BoundTo(call'[b], heap'[call'[b].obj].fields)
  BY SMTT(60) DEF Binds, Makes, BoundTo, Passed, Open, Settled, Listed, Unset, Wanted, Field,
         DefaultOf, NPos
<1>1. ASSUME call'[b] = call[b],
             \/ call[b].at \notin Filling
             \/ heap'[call[b].obj].fields = heap[call[b].obj].fields
      PROVE  BoundTo(call[b], heap'[call[b].obj].fields)
  <2>1. BoundTo(call[b], heap[call[b].obj].fields)
    BY <1>1 DEF Binds, Makes
  <2> QED BY <1>1, <2>1 DEF BoundTo, Filling
<1> QED BY <1>1

LEMMA BindsStep == Sees /\ Binds /\ [Next]_vars => Binds'
<1> SUFFICES ASSUME Sees, Binds, [Next]_vars PROVE Binds' OBVIOUS
<1>0. /\ \A b \in Actor : Makes(b) => call[b].obj \in Object
      /\ \A b, d \in Actor : Makes(b) /\ Makes(d) /\ b # d => call[b].obj # call[d].obj
      /\ \A b \in Actor : Makes(b) /\ call[b].at \in Filling => heap[call[b].obj].life = "new"
  BY DEF Sees, Typed, Shape, Makes, Making, Apart, OwnedBy, Filling, Early
<1>1. ASSUME NEW a \in Actor, NEW o \in Object, Begins(a, o) PROVE Binds'
  <2>1. NewBound(a, o)
    BY <1>1, BeginsBound
  <2>2. heap[o].life = "free"
    BY <1>1 DEF Begins
  <2>3. ASSUME NEW b \in Actor, b # a, call'[b].op \in Making
        PROVE  /\ call'[b] = call[b]
               /\ \/ call[b].at \notin Filling
                  \/ heap'[call[b].obj].fields = heap[call[b].obj].fields
    <3>1. call'[b] = call[b] /\ Makes(b)
      BY <2>1, <2>3 DEF NewBound, Makes
    <3> QED BY <1>0, <2>1, <2>2, <3>1 DEF NewBound
  <2> QED BY <2>1, <2>3, BindsKept DEF NewBound
<1>2. ASSUME NEW a \in Actor, Fills(a) PROVE Binds'
  <2>1. Makes(a) /\ OwnBound(a)
    BY <1>2, FillsBound
  <2>2. ASSUME NEW b \in Actor, b # a, call'[b].op \in Making
        PROVE  call'[b] = call[b] /\ heap'[call[b].obj] = heap[call[b].obj]
    <3>1. call'[b] = call[b] /\ Makes(b)
      BY <2>1, <2>2 DEF OwnBound, Own, Makes
    <3> QED BY <1>0, <2>1, <2>2, <3>1 DEF OwnBound, Own
  <2> QED BY <2>1, <2>2, BindsKept DEF OwnBound, Own
<1>3. ASSUME NEW a \in Actor, Ends(a) PROVE Binds'
  <2>1. LastBound(a)
    BY <1>3, EndsBound
  <2>2. ASSUME NEW b \in Actor, b # a, call'[b].op \in Making
        PROVE  call'[b] = call[b] /\ heap'[call[b].obj] = heap[call[b].obj]
    <3>1. call'[b] = call[b] /\ Makes(b)
      BY <2>1, <2>2 DEF LastBound, Makes
    <3> QED BY <1>0, <2>1, <2>2, <3>1 DEF LastBound
  <2>3. call'[a].op \in Making => BoundTo(call'[a], heap[call'[a].obj].fields)
                                  /\ call'[a].obj = call[a].obj
    BY <2>1 DEF LastBound, Idle, Making
  <2>4. call'[a].op \in Making => BoundTo(call'[a], heap'[call'[a].obj].fields)
    <3>1. CASE heap'[call[a].obj].fields = heap[call[a].obj].fields
      BY <2>3, <3>1
    <3>2. CASE heap'[call[a].obj] = Free
      BY <2>1, <2>3, <3>2 DEF LastBound, Idle, Making
    <3> QED BY <2>1, <3>1, <3>2 DEF LastBound
  <2> QED BY <2>1, <2>2, <2>4, BindsKept DEF LastBound
<1>4. ASSUME NEW a \in Actor,
             (\E o \in Object : Uses(a, o)) \/ Track(a) \/ HashField(a) \/ HashEnds(a)
      PROVE  Binds'
  <2>1. /\ cls' = cls /\ \A p \in Object : heap'[p].fields = heap[p].fields \/ Visible(p)
        /\ \A b \in Actor \ {a} : call'[b] = call[b]
        /\ call'[a].op \notin Making
    BY <1>4, OthersBound
  <2>2. ASSUME NEW b \in Actor, call'[b].op \in Making
        PROVE  /\ call'[b] = call[b]
               /\ \/ call[b].at \notin Filling
                  \/ heap'[call[b].obj].fields = heap[call[b].obj].fields
    <3>1. call'[b] = call[b] /\ Makes(b)
      BY <2>1, <2>2 DEF Makes
    <3> QED BY <1>0, <2>1, <3>1 DEF Visible
  <2> QED BY <2>1, <2>2, BindsKept
<1>5. CASE UntrackTuple \/ UNCHANGED vars
  <2>1. cls' = cls /\ call' = call /\ heap' = heap
    BY <1>5 DEF UntrackTuple, vars
  <2> QED BY <2>1, BindsKept
<1> QED BY <1>1, <1>2, <1>3, <1>4, <1>5 DEF Next

LEMMA AlwaysBinds == Spec => [](Sees /\ Binds)
  BY SeesInit, BindsInit, SeesStep, BindsStep, PTL DEF Spec

(* Whatever the class declares and however a call passes its arguments,     *)
(* each field gets what was passed for it or its default, and a call is     *)
(* refused only if it is wrong or lacks a required field.                   *)
THEOREM FieldsAreBound == Spec => []BindsAsDeclared
<1>1. Sees /\ Binds => BindsAsDeclared
  <2> SUFFICES ASSUME Sees, Binds, NEW a \in Actor
               PROVE  LET f == call[a]
                          expected == [i \in Field |-> IF f.given[i] # NoValue THEN f.given[i]
                                                       ELSE DefaultOf(i)]
                      IN  /\ f.at = "filled" =>
                                /\ ~f.wrong
                                /\ f.ways # {"name", "alias"}
                                /\ heap[f.obj].fields = expected
                                /\ \A i \in Field : expected[i] # NODEFAULT
                          /\ f.at = "refused" => f.wrong \/ \E i \in Field : expected[i] = NODEFAULT
    BY DEF BindsAsDeclared
  <2> DEFINE f == call[a]
             F == heap[f.obj].fields
             expected == [i \in Field |-> IF f.given[i] # NoValue THEN f.given[i]
                                          ELSE DefaultOf(i)]
  <2>1. \A i \in Field : expected[i] = Wanted(f, i)
    BY DEF Wanted
  <2>2. CASE f.at \notin {"filled", "refused"}
    BY <2>2
  <2>3. CASE f.at \in {"filled", "refused"}
    <3>1. Shape(f) /\ f \in Frame /\ heap \in [Object -> Instance] /\ cls \in Class
      BY DEF Sees, Typed, TypeOK
    <3>2. f.op \in Making /\ f.obj \in Object
      BY <2>3, <3>1 DEF Shape, Frame, Op, Making
    <3>3. /\ BoundTo(f, F) /\ F \in [Field -> Value \cup {NoValue}]
          /\ f.names \in {"open", "name", "alias"}
      BY <3>1, <3>2 DEF Binds, Makes, Frame, Instance
    <3>4. f.ways # {"name", "alias"}
      BY <3>3 DEF BoundTo
    <3>5. f.at = "filled" =>
             ~f.wrong /\ \A i \in Field : F[i] = expected[i] /\ expected[i] # NODEFAULT
      <4>1. \A i \in Field : i < cls.nfields + 1
        BY <3>1, Defaults DEF Field
      <4>2. f.at = "filled" => ~f.wrong /\ \A i \in Field : F[i] = Wanted(f, i)
                                                          /\ Wanted(f, i) # NODEFAULT
        BY <3>3, <4>1 DEF BoundTo, Settled
      <4> HIDE DEF F, expected
      <4> QED BY <2>1, <4>2
    <3>6. f.at = "filled" => F = expected
      BY <3>3, <3>5
    <3>7. f.at = "refused" => f.wrong \/ \E i \in Field : expected[i] = NODEFAULT
      BY <2>1, <3>3 DEF BoundTo
    <3> QED BY <3>4, <3>5, <3>6, <3>7
  <2> QED BY <2>2, <2>3
<1> QED BY <1>1, AlwaysBinds, PTL

-----------------------------------------------------------------------------
(* The inductive invariant for HashesAgree.  A call that hashes an instance *)
(* has gone through its first fields and found them hashable; what has been *)
(* given out or stored is the hash of all of them.  Only an instance that   *)
(* has been passed on has any of this.                                      *)

Hashable(h, fields) == h = fields /\ \A i \in Field : h[i] \notin Container \cup {NoValue}

HashedSoFar(f, fields) ==
    /\ f.i = Len(f.acc) + 1 /\ Len(f.acc) <= cls.nfields
    /\ \A j \in 1..Len(f.acc) : f.acc[j] = fields[j] /\ f.acc[j] \notin Container \cup {NoValue}

HashCall(f) ==
    /\ cls.frozen
    /\ Visible(f.obj)
    /\ f.obj \in exposed \/ HashedSoFar(f, heap[f.obj].fields)

HashesOf(o) == answers[o] \cup ({heap[o].hash} \ {Null})

Hashed(o) ==
    /\ HashesOf(o) # {} => cls.frozen /\ Visible(o)
    /\ o \in exposed \/ \A h \in HashesOf(o) : Hashable(h, heap[o].fields)

Hashes ==
    /\ \A a \in Actor : call[a].op = "hash" => HashCall(call[a])
    /\ \A o \in Object : Hashed(o)

LEMMA HashesInit == Init => Hashes
  BY DEF Init, Hashes, Hashed, HashesOf, Free, Idle

(* What can become of an instance and keeps the invariant: its fields stay  *)
(* as they are and it has no new hash, or it has none at all, or            *)
(* __post_init__ assigns to it.                                             *)
HashKept(p) ==
    /\ heap'[p].fields = heap[p].fields
    /\ HashesOf(p)' \subseteq HashesOf(p)
    /\ Shown(heap[p]) => Shown(heap'[p])
    /\ p \in exposed => p \in exposed'

Unhashed(p) == HashesOf(p)' = {} /\ \A b \in Actor : call'[b].op = "hash" => call'[b].obj # p

Exposes(p) == cls.frozen /\ p \in exposed' /\ Shown(heap'[p])

(* One hash more, of all the fields.                                        *)
HashAdded(p) ==
    /\ cls.frozen
    /\ heap'[p].fields = heap[p].fields
    /\ Shown(heap[p]) /\ Shown(heap'[p])
    /\ exposed' = exposed
    /\ p \in exposed \/ \A h \in HashesOf(p)' : h \in HashesOf(p) \/ Hashable(h, heap[p].fields)

LEMMA HashStep ==
    ASSUME Hashes, Typed, Typed', cls' = cls,
           \A b \in Actor : call'[b].op = "hash" => call'[b] = call[b] \/ HashCall(call[b])',
           \A p \in Object : HashKept(p) \/ Unhashed(p) \/ Exposes(p) \/ HashAdded(p)
    PROVE  Hashes'
<1>1. ASSUME NEW b \in Actor, call'[b].op = "hash" PROVE HashCall(call[b])'
  <2>1. CASE call'[b] = call[b]
    <3>1. HashCall(call[b]) /\ call[b].obj \in Object
      BY <1>1, <2>1 DEF Hashes, Typed, Shape
    <3>2. ~Unhashed(call[b].obj)
      BY <1>1, <2>1 DEF Unhashed
    <3> QED BY <2>1, <3>1, <3>2 DEF HashKept, HashAdded, Exposes, HashCall, HashedSoFar, Visible,
                                   Shown
  <2> QED BY <1>1, <2>1
<1>2. ASSUME NEW p \in Object PROVE Hashed(p)'
  <2>1. Hashed(p)
    BY DEF Hashes
  <2>2. CASE HashKept(p)
    BY <2>1, <2>2 DEF HashKept, Hashed, Hashable, Field, Visible, Shown
  <2>3. CASE Unhashed(p)
    BY <2>3 DEF Unhashed, Hashed
  <2>4. CASE Exposes(p)
    BY <2>4 DEF Exposes, Hashed, Visible, Shown
  <2>5. CASE HashAdded(p)
    BY <2>1, <2>5 DEF HashAdded, Hashed, Hashable, Field, Visible, Shown
  <2> QED BY <2>2, <2>3, <2>4, <2>5
<1> QED BY <1>1, <1>2 DEF Hashes

(* An instance that nobody has seen has no hash, and nobody hashes it.      *)
LEMMA NewUnhashed ==
    ASSUME Hashes, NEW p \in Object, ~Visible(p)
    PROVE  HashesOf(p) = {} /\ \A b \in Actor : call[b].op = "hash" => call[b].obj # p
  BY DEF Hashes, Hashed, HashCall

(* Neither has an instance of a class that is not frozen.                   *)
LEMMA MutableUnhashed ==
    ASSUME Hashes, ~cls.frozen, NEW p \in Object
    PROVE  HashesOf(p) = {} /\ \A b \in Actor : call[b].op # "hash"
  BY DEF Hashes, Hashed, HashCall

LEMMA UsesHashes ==
    ASSUME Sees, Typed', Hashes, NEW a \in Actor, NEW o \in Object, Uses(a, o)
    PROVE  Hashes'
<1>0. /\ Typed /\ heap \in [Object -> Instance] /\ call \in [Actor -> Frame]
      /\ answers \in [Object -> SUBSET Seq(Value)]
      /\ heap[o] \in Instance /\ cls \in Class
  BY DEF Sees, Typed, TypeOK
<1>1. CASE SetAttr(a, o)
  <2>1. PICK i \in Field, v \in Value :
          /\ heap' = [heap EXCEPT ![o].fields[i] = v]
          /\ call' = [call EXCEPT ![a] = [Idle EXCEPT !.op = "setattr", !.at = "track",
                                                      !.obj = o, !.value = v]]
    BY <1>1 DEF SetAttr
  <2>2. ~cls.frozen /\ cls' = cls /\ answers' = answers
    BY <1>1 DEF SetAttr
  <2> DEFINE f == [Idle EXCEPT !.op = "setattr", !.at = "track", !.obj = o, !.value = v]
  <2>3. f.op = "setattr"
    BY DEF Idle
  <2>4. call' = [call EXCEPT ![a] = f]
    BY <2>1
  <2> HIDE DEF f
  <2>5. \A b \in Actor : call'[b].op # "hash"
    BY <1>0, <2>2, <2>3, <2>4, MutableUnhashed
  <2>6. \A p \in Object : heap'[p].hash = heap[p].hash
    BY <1>0, <2>1 DEF Instance
  <2>7. \A p \in Object : Unhashed(p)
    BY <2>2, <2>5, <2>6, MutableUnhashed DEF Unhashed, HashesOf
  <2> QED BY <1>0, <2>2, <2>5, <2>7, HashStep
<1>2. CASE DelAttr(a, o)
  <2>1. ~cls.frozen /\ cls' = cls /\ answers' = answers /\ call' = call
    BY <1>2 DEF DelAttr
  <2>2. \A b \in Actor : call'[b].op # "hash"
    BY <2>1, MutableUnhashed
  <2>3. \A p \in Object : heap'[p].hash = heap[p].hash
    BY <1>0, <1>2 DEF DelAttr, Instance
  <2>4. \A p \in Object : Unhashed(p)
    BY <2>1, <2>2, <2>3, MutableUnhashed DEF Unhashed, HashesOf
  <2> QED BY <1>0, <2>1, <2>2, <2>4, HashStep
<1>3. CASE ObjectSetAttr(a, o)
  <2>1. PICK i \in Field, v \in Value : heap' = [heap EXCEPT ![o].fields[i] = v]
    BY <1>3 DEF ObjectSetAttr
  <2>2. /\ cls.frozen /\ cls' = cls /\ call' = call /\ exposed' = exposed \cup {o}
        /\ heap[o].life = "shown" /\ answers' = [answers EXCEPT ![o] = {}]
    BY <1>3 DEF ObjectSetAttr
  <2>3. heap'[o].life = "shown" /\ \A p \in Object : p # o => heap'[p] = heap[p]
    BY <1>0, <2>1, <2>2 DEF Instance
  <2>4. Exposes(o)
    BY <2>2, <2>3 DEF Exposes, Shown
  <2>5. \A p \in Object : p # o => HashKept(p)
    BY <1>0, <2>2, <2>3 DEF HashKept, HashesOf, Shown
  <2> QED BY <1>0, <2>2, <2>4, <2>5, HashStep
<1>4. CASE Hash(a, o)
  <2>1. /\ cls.frozen /\ cls' = cls /\ heap' = heap /\ exposed' = exposed /\ Visible(o)
    BY <1>4 DEF Hash
  <2>2. CASE cls.cache_hash /\ heap[o].hash # Null
    <3>1. Answer(o, heap[o].hash) /\ call' = call
      BY <1>4, <2>2 DEF Hash
    <3>2. \A p \in Object : answers'[p] \subseteq answers[p] \cup ({heap[p].hash} \ {Null})
      BY <1>0, <2>2, <3>1 DEF Answer
    <3>3. \A p \in Object : HashKept(p)
      BY <2>1, <3>2 DEF HashKept, HashesOf
    <3> QED BY <1>0, <2>1, <3>1, <3>3, HashStep
  <2>3. CASE ~(cls.cache_hash /\ heap[o].hash # Null)
    <3>0. PICK f : f = [Idle EXCEPT !.op = "hash", !.at = "fields", !.obj = o, !.i = 1]
      OBVIOUS
    <3>1. call' = [call EXCEPT ![a] = f] /\ answers' = answers
      BY <1>4, <2>3, <3>0 DEF Hash
    <3>2. f.op = "hash" /\ f.obj = o /\ f.i = 1 /\ f.acc = <<>>
      BY <3>0 DEF Idle
    <3>3. cls.nfields \in Nat
      BY <1>0, Defaults
    <3>4. HashedSoFar(f, heap[o].fields)
      BY <3>2, <3>3 DEF HashedSoFar
    <3>5. HashCall(f)'
      BY <2>1, <3>2, <3>4 DEF HashCall, HashedSoFar, Visible
    <3>6. \A b \in Actor : call'[b] = IF b = a THEN f ELSE call[b]
      BY <1>0, <3>1
    <3>7. \A p \in Object : HashKept(p)
      BY <2>1, <3>1 DEF HashKept, HashesOf
    <3>8. ASSUME NEW b \in Actor, call'[b].op = "hash"
          PROVE  call'[b] = call[b] \/ HashCall(call[b])'
      BY <3>5, <3>6
    <3> QED BY <1>0, <2>1, <3>7, <3>8, HashStep
  <2> QED BY <2>2, <2>3
<1> QED BY <1>1, <1>2, <1>3, <1>4 DEF Uses

LEMMA EndsHashes ==
    ASSUME Sees, Binds, Typed', Hashes, NEW a \in Actor, Ends(a)
    PROVE  Hashes'
<1> DEFINE o == call[a].obj
<1>0. LastBound(a) /\ Typed
  BY EndsBound DEF Sees
<1>1. PICK p \in Object : p = o
  BY <1>0 DEF LastBound
<1>2. /\ \A q \in Object : q # p => heap'[q] = heap[q] /\ answers'[q] = answers[q]
                                    /\ (q \in exposed => q \in exposed')
      /\ cls' = cls
  BY <1>0, <1>1 DEF LastBound
<1>3. \A b \in Actor : call'[b].op = "hash" => call'[b] = call[b] /\ b # a
  BY <1>0 DEF LastBound, Makes, Making, Idle
<1>4. HashKept(p) \/ Unhashed(p)
  <2>1. CASE /\ heap'[o].fields = heap[o].fields /\ heap'[o].hash = heap[o].hash
             /\ Shown(heap[o]) => Shown(heap'[o])
             /\ answers'[o] = answers[o] /\ exposed' = exposed
    BY <1>1, <2>1 DEF HashKept, HashesOf
  <2>2. CASE /\ heap'[o] = Free /\ answers'[o] = {}
             /\ \A b \in Actor \ {a} : call[b].obj # o
    BY <1>1, <1>3, <2>2 DEF Unhashed, HashesOf, Free
  <2> QED BY <1>0, <2>1, <2>2 DEF LastBound
<1>5. \A q \in Object : q # p => HashKept(q)
  BY <1>2 DEF HashKept, HashesOf
<1> QED BY <1>0, <1>2, <1>3, <1>4, <1>5, HashStep

(* What has not been seen stays unhashed when it is made or filled.         *)
LEMMA MakesHashes ==
    ASSUME Sees, Binds, Typed', Hashes, NEW a \in Actor,
           Fills(a) \/ \E o \in Object : Begins(a, o)
    PROVE  Hashes'
<1>0. Typed
  BY DEF Sees
<1>1. CASE Fills(a)
  <2>1. /\ Makes(a) /\ Own(a) /\ call[a].obj \in Object
        /\ heap[call[a].obj].life = "new"
    <3>1. Makes(a) /\ call[a].at \in Filling /\ OwnBound(a)
      BY <1>1, FillsBound
    <3> QED BY <3>1 DEF OwnBound, Sees, Typed, Shape, OwnedBy, Filling, Early, Makes, Making
  <2>2. PICK p \in Object : p = call[a].obj
    BY <2>1
  <2>3. HashesOf(p) = {} /\ \A b \in Actor : call[b].op = "hash" => call[b].obj # p
    BY <2>1, <2>2, NewUnhashed DEF Visible
  <2>4. \A b \in Actor : call'[b].op = "hash" => call'[b] = call[b]
    BY <2>1 DEF Own, Makes, Making
  <2>5. Unhashed(p)
    BY <2>1, <2>3, <2>4 DEF Unhashed, HashesOf, Own
  <2>6. \A q \in Object : q # p => HashKept(q)
    BY <2>1, <2>2 DEF HashKept, HashesOf, Own
  <2>7. cls' = cls
    BY <2>1 DEF Own
  <2> QED BY <1>0, <2>4, <2>5, <2>6, <2>7, HashStep
<1>2. ASSUME NEW o \in Object, Begins(a, o) PROVE Hashes'
  <2>1. NewBound(a, o) /\ heap[o].life = "free"
    BY <1>2, BeginsBound DEF Begins
  <2>2. HashesOf(o) = {} /\ \A b \in Actor : call[b].op = "hash" => call[b].obj # o
    BY <2>1, NewUnhashed DEF Visible
  <2>3. \A b \in Actor : call'[b].op = "hash" => call'[b] = call[b]
    BY <2>1 DEF NewBound, Making
  <2>4. Unhashed(o)
    BY <2>1, <2>2, <2>3 DEF Unhashed, HashesOf, NewBound
  <2>5. \A q \in Object : q # o => HashKept(q)
    BY <2>1 DEF HashKept, HashesOf, NewBound
  <2>6. cls' = cls
    BY <2>1 DEF NewBound
  <2> QED BY <1>0, <2>3, <2>4, <2>5, <2>6, HashStep
<1> QED BY <1>1, <1>2

LEMMA OthersHashes ==
    ASSUME Sees, Typed', Hashes, NEW a \in Actor, Track(a) \/ HashField(a) \/ HashEnds(a)
    PROVE  Hashes'
<1>0. /\ Typed /\ heap \in [Object -> Instance] /\ call \in [Actor -> Frame]
      /\ answers \in [Object -> SUBSET Seq(Value)]
      /\ call[a] \in Frame /\ Shape(call[a]) /\ call[a].op \in {"setattr", "hash"}
      /\ call[a].obj \in Object /\ cls \in Class
  BY DEF Sees, Typed, TypeOK, Track, HashField, HashEnds, At, Shape
<1>1. cls.nfields \in Nat
  BY <1>0, Defaults
<1>2. PICK o \in Object, c \in Frame : c = call[a] /\ o = c.obj
  BY <1>0
<1>3. heap[o].fields \in [Field -> Value \cup {NoValue}]
  BY <1>0 DEF Instance
<1>4. c.op = "hash" => HashCall(c)
  BY <1>2 DEF Hashes
<1>5. CASE Track(a)
  <2>1. /\ \A p \in Object : /\ heap'[p].fields = heap[p].fields /\ heap'[p].hash = heap[p].hash
                             /\ heap'[p].life = heap[p].life
        /\ cls' = cls /\ answers' = answers /\ exposed' = exposed
    BY <1>0, <1>5 DEF Track, Instance
  <2>2. \A p \in Object : HashKept(p)
    BY <2>1 DEF HashKept, HashesOf, Shown
  <2>3. \A b \in Actor : call'[b].op = "hash" => call'[b] = call[b]
    BY <1>0, <1>5 DEF Track, Idle
  <2> QED BY <1>0, <2>1, <2>2, <2>3, HashStep
<1>6. CASE HashField(a)
  <2> DEFINE v == heap[o].fields[c.i]
  <2>1. /\ c.op = "hash" /\ c.at = "fields" /\ c.i \in Field
        /\ UNCHANGED <<cls, heap, tupleTracked, answers, exposed>>
    BY <1>2, <1>6 DEF HashField, At, Quietly
  <2>2. \A p \in Object : HashKept(p)
    BY <2>1 DEF HashKept, HashesOf
  <2>3. CASE v = NoValue \/ Unhashable(v)
    <3>1. call' = [call EXCEPT ![a] = Idle]
      BY <1>2, <1>6, <2>3 DEF HashField
    <3>2. \A b \in Actor : call'[b].op = "hash" => call'[b] = call[b]
      BY <1>0, <3>1 DEF Idle
    <3> QED BY <1>0, <2>1, <2>2, <3>2, HashStep
  <2>4. CASE ~(v = NoValue \/ Unhashable(v))
    <3>1. PICK acc : acc = Append(c.acc, v)
      OBVIOUS
    <3>2. PICK f : f = [c EXCEPT !.i = c.i + 1, !.acc = acc]
      OBVIOUS
    <3>3. call' = [call EXCEPT ![a] = f]
      BY <1>2, <1>6, <2>4, <3>1, <3>2 DEF HashField
    <3>4. f.op = "hash" /\ f.obj = o /\ f.i = c.i + 1 /\ f.acc = acc
      BY <1>2, <2>1, <3>2 DEF Frame
    <3>5. c.acc \in Seq(Value) /\ c.i \in Nat /\ v \in Value /\ v \notin Container
      BY <1>3, <2>1, <2>4 DEF Frame, Unhashable
    <3>6. /\ Len(acc) = Len(c.acc) + 1 /\ Len(c.acc) \in Nat
          /\ \A j \in 1..Len(c.acc) : acc[j] = c.acc[j]
          /\ acc[Len(acc)] = v
      BY <3>1, <3>5
    <3>7. HashedSoFar(c, heap[o].fields) => HashedSoFar(f, heap[o].fields)
      <4> SUFFICES ASSUME HashedSoFar(c, heap[o].fields) PROVE HashedSoFar(f, heap[o].fields)
        OBVIOUS
      <4>1. c.i = Len(acc) /\ f.i = Len(acc) + 1 /\ Len(acc) <= cls.nfields
        BY <1>1, <2>1, <3>4, <3>5, <3>6 DEF HashedSoFar, Field
      <4>2. ASSUME NEW j \in 1..Len(acc)
            PROVE  acc[j] = heap[o].fields[j] /\ acc[j] \notin Container \cup {NoValue}
        <5>1. CASE j = Len(acc)
          BY <2>4, <3>5, <3>6, <4>1, <5>1
        <5>2. CASE j # Len(acc)
          <6>1. j \in 1..Len(c.acc)
            BY <3>6, <4>2, <5>2
          <6> QED BY <3>6, <6>1 DEF HashedSoFar
        <5> QED BY <5>1, <5>2
      <4> QED BY <3>4, <4>1, <4>2 DEF HashedSoFar
    <3>8. HashCall(f)'
      BY <1>2, <1>4, <2>1, <3>4, <3>7 DEF HashCall, HashedSoFar, Visible
    <3>9. \A b \in Actor : call'[b] = IF b = a THEN f ELSE call[b]
      BY <1>0, <3>3
    <3>10. ASSUME NEW b \in Actor, call'[b].op = "hash"
           PROVE  call'[b] = call[b] \/ HashCall(call[b])'
      BY <3>8, <3>9
    <3> QED BY <1>0, <2>1, <2>2, <3>10, HashStep
  <2> QED BY <2>3, <2>4
<1>7. CASE HashEnds(a)
  <2>1. /\ c.op = "hash" /\ c.at = "fields" /\ c.i \notin Field
        /\ cls' = cls /\ exposed' = exposed /\ call' = [call EXCEPT ![a] = Idle]
        /\ Answer(o, c.acc)
        /\ heap' = heap \/ heap' = [heap EXCEPT ![o].hash = c.acc]
    BY <1>2, <1>7 DEF HashEnds, At
  <2>2. /\ \A p \in Object : /\ heap'[p].fields = heap[p].fields
                             /\ heap'[p].life = heap[p].life
                             /\ p # o => heap'[p] = heap[p] /\ answers'[p] = answers[p]
        /\ HashesOf(o)' \subseteq HashesOf(o) \cup {c.acc}
    <3>1. CASE heap' = heap
      BY <1>0, <2>1, <3>1 DEF HashesOf, Answer
    <3>2. CASE heap' = [heap EXCEPT ![o].hash = c.acc]
      <4>1. /\ \A p \in Object : /\ heap'[p].fields = heap[p].fields
                                 /\ heap'[p].life = heap[p].life
                                 /\ p # o => heap'[p] = heap[p]
            /\ heap'[o].hash = c.acc
        BY <1>0, <3>2 DEF Instance
      <4>2. \A p \in Object : answers'[p] \subseteq answers[p] \cup {c.acc}
                              /\ (p # o => answers'[p] = answers[p])
        BY <1>0, <2>1 DEF Answer
      <4> QED BY <4>1, <4>2 DEF HashesOf
    <3> QED BY <2>1, <3>1, <3>2
  <2>3. o \in exposed \/ Hashable(c.acc, heap[o].fields)
    <3> SUFFICES ASSUME o \notin exposed PROVE Hashable(c.acc, heap[o].fields)
      OBVIOUS
    <3>1. HashedSoFar(c, heap[o].fields) /\ c.acc \in Seq(Value) /\ c.i \in Nat
      BY <1>2, <1>4, <2>1 DEF HashCall, Frame
    <3>2. Len(c.acc) = cls.nfields
      BY <1>1, <2>1, <3>1 DEF HashedSoFar, Field
    <3>3. c.acc \in [Field -> Value]
      BY <3>1, <3>2 DEF Field
    <3>4. \A j \in Field : c.acc[j] = heap[o].fields[j] /\ c.acc[j] \notin Container \cup {NoValue}
      BY <3>1, <3>2 DEF HashedSoFar, Field
    <3>5. c.acc = heap[o].fields
      BY <1>3, <3>3, <3>4
    <3> QED BY <3>4, <3>5 DEF Hashable
  <2>4. HashAdded(o)
    BY <1>2, <1>4, <2>1, <2>2, <2>3 DEF HashAdded, HashCall, Visible, Shown
  <2>5. \A p \in Object : p # o => HashKept(p)
    BY <2>1, <2>2 DEF HashKept, HashesOf, Shown
  <2>6. \A b \in Actor : call'[b].op = "hash" => call'[b] = call[b]
    BY <1>0, <2>1 DEF Idle
  <2> QED BY <1>0, <2>1, <2>4, <2>5, <2>6, HashStep
<1> QED BY <1>5, <1>6, <1>7

LEMMA HashesStep == Sees /\ Binds /\ Hashes /\ [Next]_vars => Hashes'
<1> SUFFICES ASSUME Sees, Binds, Hashes, [Next]_vars PROVE Hashes' OBVIOUS
<1>1. Typed /\ Typed'
  BY TypedStep DEF Sees
<1>2. CASE UntrackTuple \/ UNCHANGED vars
  <2>1. cls' = cls /\ heap' = heap /\ call' = call /\ answers' = answers /\ exposed' = exposed
    BY <1>2 DEF UntrackTuple, vars
  <2>2. \A p \in Object : HashKept(p)
    BY <2>1 DEF HashKept, HashesOf
  <2> QED BY <1>1, <2>1, <2>2, HashStep
<1>3. CASE Next
  BY <1>1, <1>2, <1>3, UsesHashes, EndsHashes, MakesHashes, OthersHashes DEF Next
<1> QED BY <1>2, <1>3

(* All calls that hash an instance which __post_init__ has not assigned to  *)
(* get the hash of its fields, however many there are at once, whether the  *)
(* hash is cached or not, and none of the fields is unhashable or unset.    *)
THEOREM AllHashesAgree == Spec => []HashesAgree
<1>1. Spec => []Hashes
  BY HashesInit, HashesStep, AlwaysBinds, PTL DEF Spec
<1>2. Hashes => HashesAgree
  BY DEF Hashes, Hashed, HashesOf, Hashable, HashesAgree
<1> QED BY <1>1, <1>2, PTL
=============================================================================
