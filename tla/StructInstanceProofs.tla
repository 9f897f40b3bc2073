------------------------ MODULE StructInstanceProofs ------------------------
(***************************************************************************)
(* Proofs about StructInstance: the types, and that the collector sees     *)
(* every instance that may be part of a cycle.                             *)
(***************************************************************************)
EXTENDS StructInstance, TLAPS

Making == {"init", "map", "array", "seq", "attrs", "replace"}

Early == {"keywords", "items", "defaults", "filled", "check", "post"}

(* Which calls get to which stage, and where they are in the fields there.  *)
Shape(f) ==
    /\ f.op = "none" => f.at = "none"
    /\ f.op # "none" => f.obj \in Object
    /\ f.op \in Making => f.at \in Early \cup {"running", "refused", "failed"}
    /\ f.op = "setattr" => f.at = "track"
    /\ f.op = "hash" => f.at = "fields"
    /\ f.at \in {"keywords", "check"} => f.op = "init"
    /\ f.at = "items" => f.op \in {"map", "array", "seq", "attrs"}
    /\ f.at = "defaults" => f.op \in {"init", "map", "array", "seq"} /\ f.i >= 1
    /\ f.at = "items" => f.op = "map" \/ f.i >= 1
    /\ f.op = "seq" => f.size >= NRequired
    /\ f.at = "defaults" /\ f.op \in {"array", "seq"} => f.i > NRequired
    /\ f.op \in {"array", "seq"} =>
          \A j \in Field : j <= f.size => f.given[j] # NoValue

Typed == TypeOK /\ \A a \in Actor : Shape(call[a])

-----------------------------------------------------------------------------
(* Facts about classes and frames.                                          *)

(* No step changes the class. *)
LEMMA ClassKept == Next => cls' = cls
<1> SUFFICES ASSUME Next PROVE cls' = cls OBVIOUS
<1>1. ASSUME NEW a \in Actor, NEW o \in Object, Begins(a, o) PROVE cls' = cls
  BY <1>1 DEF Begins, Construct, DecodeMap, ArrayBegins, FromAttributes, Replace, Copy, Rebuild,
              Begin
<1>2. ASSUME NEW a \in Actor, NEW o \in Object, Uses(a, o) PROVE cls' = cls
  BY <1>2 DEF Uses, SetAttr, DelAttr, ObjectSetAttr, Hash
<1>3. ASSUME NEW a \in Actor, Fills(a) PROVE cls' = cls
  BY <1>3 DEF Fills, Keyword, KeywordsEnd, FillMissing, MapItem, MapUnknown, MapEnd,
              FillInDefaults, ArrayItem, ArrayEnd, SeqEnd, ArrayDefault, Attribute, Fill, Set,
              Quietly
<1>4. ASSUME NEW a \in Actor, Ends(a) PROVE cls' = cls
  BY <1>4 DEF Ends, Filled, Decide, CheckTypes, PostInit, Return, Fails, Drop, Quietly
<1>5. ASSUME NEW a \in Actor, Track(a) \/ HashField(a) \/ HashEnds(a) PROVE cls' = cls
  BY <1>5 DEF Track, HashField, HashEnds, Quietly
<1> QED BY <1>1, <1>2, <1>3, <1>4, <1>5 DEF Next, UntrackTuple

(* What the entries of the defaults are. *)
LEMMA Defaults ==
    ASSUME cls \in Class
    PROVE  /\ cls.nfields \in Nat
           /\ NRequired \in Nat /\ NRequired <= cls.nfields
           /\ \A i \in Field : DefaultOf(i) \in Value \cup {NODEFAULT}
           /\ \A i \in Field : i > NRequired => DefaultOf(i) # NODEFAULT
<1>1. cls.nfields \in Nat /\ Len(cls.defaults) \in 0..cls.nfields
      /\ cls.n_trailing_defaults \in 0..Len(cls.defaults)
      /\ cls.defaults \in [1..Len(cls.defaults) -> Value \cup {NODEFAULT}]
  BY ConstantsOK DEF ConstantsOK
<1>2. \A i \in Field : i > NRequired => DefaultOf(i) # NODEFAULT
  <2> SUFFICES ASSUME NEW i \in Field, i > NRequired
               PROVE  cls.defaults[i - NPos] # NODEFAULT /\ i > NPos
    BY DEF DefaultOf
  <2>1. i - NPos \in 1..Len(cls.defaults) /\ i > NPos
        /\ i - NPos > Len(cls.defaults) - cls.n_trailing_defaults
    BY <1>1 DEF NRequired, NPos, Field
  <2> QED BY <2>1, ConstantsOK DEF ConstantsOK
<1> QED BY <1>1, <1>2 DEF NRequired, NPos, Field, DefaultOf

(* Idle is a frame of the right shape. *)
LEMMA IdleFrame ==
    ASSUME cls \in Class
    PROVE  Idle \in Frame /\ Shape(Idle)
  BY Defaults DEF Idle, Frame, Shape, Op, Stage, NoFields, Making

(* The frames that calls begin with. *)
LEMMA InitFrame ==
    ASSUME Idle \in Frame, NEW given \in [Field -> Value \cup {NoValue}], NEW n \in Nat
    PROVE  [Idle EXCEPT !.op = "init", !.at = "keywords", !.size = n, !.given = given,
                        !.should_untrack = Untracked(given)] \in Frame
  BY ZenonT(60) DEF Frame, Op, Stage, Untracked

LEMMA ArrayFrame ==
    ASSUME Idle \in Frame, NEW op \in {"array", "seq"}, NEW n \in Nat, NEW wrong \in BOOLEAN,
           NEW given \in [Field -> Value \cup {NoValue}]
    PROVE  [Idle EXCEPT !.op = op, !.at = "items", !.i = 1, !.size = n, !.should_untrack = TRUE,
                        !.wrong = wrong, !.given = given] \in Frame
  BY DEF Frame, Op, Stage

LEMMA HashFrame ==
    ASSUME Idle \in Frame, NEW o \in Object
    PROVE  [Idle EXCEPT !.op = "hash", !.at = "fields", !.obj = o, !.i = 1] \in Frame
  BY DEF Frame, Op, Stage

(* The frames that calls go on with. *)
LEMMA FrameAt ==
    ASSUME NEW f \in Frame, NEW i \in Nat, NEW at \in Stage
    PROVE  [f EXCEPT !.i = i, !.at = at] \in Frame /\ [f EXCEPT !.at = at] \in Frame
  BY DEF Frame

LEMMA FrameGiven ==
    ASSUME NEW f \in Frame, NEW i \in Field, NEW v \in Value,
           NEW way \in {"name", "alias"}
    PROVE  /\ [f EXCEPT !.size = @ + 1, !.given[i] = v] \in Frame
           /\ [f EXCEPT !.i = @ + 1, !.given[i] = v] \in Frame
           /\ [f EXCEPT !.i = @ + 1, !.given[i] = v, !.names = way, !.ways = @ \cup {way}]
              \in Frame
<1> DEFINE given == [f.given EXCEPT ![i] = v]
           ways == f.ways \cup {way}
<1>1. given \in [Field -> Value \cup {NoValue}] /\ ways \in SUBSET {"name", "alias"}
  BY DEF Frame
<1>2. f.i + 1 \in Nat /\ f.size + 1 \in Nat
  BY DEF Frame
<1> HIDE DEF given, ways
<1>3. /\ [f EXCEPT !.size = f.size + 1, !.given = given] \in Frame
      /\ [f EXCEPT !.i = f.i + 1, !.given = given] \in Frame
      /\ [f EXCEPT !.i = f.i + 1, !.given = given, !.names = way, !.ways = ways] \in Frame
  BY <1>1, <1>2 DEF Frame
<1> QED BY <1>3 DEF given, ways

LEMMA FrameCounted ==
    ASSUME NEW f \in Frame, NEW at \in Stage, NEW wrong \in BOOLEAN
    PROVE  [f EXCEPT !.size = @ + 1, !.wrong = wrong, !.at = at] \in Frame
<1>1. f.size + 1 \in Nat
  BY DEF Frame
<1>2. [f EXCEPT !.size = f.size + 1, !.wrong = wrong, !.at = at] \in Frame
  BY <1>1 DEF Frame
<1> QED BY <1>2

LEMMA FrameNext ==
    ASSUME NEW f \in Frame
    PROVE  LET next == [f EXCEPT !.i = @ + 1] IN
           /\ next \in Frame
           /\ next.op = f.op /\ next.obj = f.obj /\ next.at = f.at
           /\ next.should_untrack = f.should_untrack /\ next.i = f.i + 1
<1>1. f.i + 1 \in Nat
  BY DEF Frame
<1>2. [f EXCEPT !.i = f.i + 1] \in Frame
  BY <1>1 DEF Frame
<1> QED BY <1>2 DEF Frame

LEMMA FrameMoved ==
    ASSUME NEW f \in Frame, NEW at
    PROVE  LET moved == [f EXCEPT !.at = at] IN
           /\ moved.op = f.op /\ moved.obj = f.obj /\ moved.at = at
           /\ moved.should_untrack = f.should_untrack /\ moved.i = f.i
  BY DEF Frame

LEMMA FrameHashed ==
    ASSUME NEW f \in Frame, NEW v \in Value
    PROVE  [f EXCEPT !.i = @ + 1, !.acc = Append(@, v)] \in Frame
<1> DEFINE acc == Append(f.acc, v)
<1>1. acc \in Seq(Value) /\ f.i + 1 \in Nat
  BY DEF Frame
<1> HIDE DEF acc
<1>2. [f EXCEPT !.i = f.i + 1, !.acc = acc] \in Frame
  BY <1>1 DEF Frame
<1> QED BY <1>2 DEF acc

-----------------------------------------------------------------------------
(* The types hold initially and are kept by every action.                   *)

LEMMA TypedInit == Init => Typed
<1> SUFFICES ASSUME Init PROVE Typed OBVIOUS
<1>1. Free \in Instance
  BY DEF Free, Instance, NoFields
<1> QED BY <1>1, IdleFrame DEF Init, Typed, TypeOK

(* A step that puts a frame of the right shape in place of one call. *)
LEMMA FrameStep ==
    ASSUME Typed, NEW a \in Actor, NEW f \in Frame, Shape(f), cls' = cls,
           call' = [call EXCEPT ![a] = f], heap' \in [Object -> Instance],
           tupleTracked' = tupleTracked, answers' \in [Object -> SUBSET Seq(Value)],
           exposed' \subseteq Object
    PROVE  Typed'
<1>1. Frame' = Frame /\ Instance' = Instance
  BY DEF Frame, Instance, Field
<1>2. call' \in [Actor -> Frame]
  BY DEF Typed, TypeOK
<1>3. \A b \in Actor : Shape(call[b])'
  BY DEF Typed, TypeOK, Shape, NRequired, Field
<1> QED BY <1>1, <1>2, <1>3 DEF Typed, TypeOK

(* The same for a step that touches nothing else. *)
LEMMA QuietStep ==
    ASSUME Typed, NEW a \in Actor, NEW f \in Frame, Shape(f), Quietly,
           call' = [call EXCEPT ![a] = f]
    PROVE  Typed'
  BY FrameStep DEF Quietly, Typed, TypeOK

(* Storing a field keeps an instance an instance. *)
LEMMA StoreTyped ==
    ASSUME Typed, NEW o \in Object, NEW i \in Field, NEW v \in Value \cup {NoValue}
    PROVE  [heap EXCEPT ![o].fields[i] = v] \in [Object -> Instance]
<1>1. heap[o] \in Instance
  BY DEF Typed, TypeOK
<1>2. [heap[o].fields EXCEPT ![i] = v] \in [Field -> Value \cup {NoValue}]
  BY <1>1 DEF Instance
<1>3. [heap[o] EXCEPT !.fields = [heap[o].fields EXCEPT ![i] = v]] \in Instance
  BY <1>1, <1>2 DEF Instance
<1> QED BY <1>3 DEF Typed, TypeOK

LEMMA FillTyped ==
    ASSUME Typed, NEW a \in Actor, NEW i \in Field, NEW v \in Value, NEW next \in Frame,
           Shape(next), call[a].obj \in Object, Fill(a, i, v, next)
    PROVE  Typed'
<1> DEFINE f == [next EXCEPT !.should_untrack = @ /\ ~MaybeTracked(v)]
<1>1. f \in Frame
  BY DEF Frame
<1>2. Shape(f)
  BY DEF Shape, Frame
<1>3. call' = [call EXCEPT ![a] = f]
  BY DEF Fill
<1> HIDE DEF f
<1> QED BY <1>1, <1>2, <1>3, FrameStep, StoreTyped DEF Fill, Typed, TypeOK

LEMMA SetTyped ==
    ASSUME Typed, NEW a \in Actor, NEW i \in Field, NEW v \in Value, NEW next \in Frame,
           Shape(next), call[a].obj \in Object, Set(a, i, v, next)
    PROVE  Typed'
  BY FrameStep, StoreTyped DEF Set, Typed, TypeOK

LEMMA BeginTyped ==
    ASSUME Typed, NEW a \in Actor, NEW o \in Object, NEW frame \in Frame,
           NEW fields \in [Field -> Value \cup {NoValue}],
           Shape([frame EXCEPT !.obj = o]), Begin(a, o, frame, fields)
    PROVE  Typed'
<1> DEFINE f == [frame EXCEPT !.obj = o]
<1>1. f \in Frame
  BY DEF Frame
<1>2. Alloc(fields) \in Instance
  BY DEF Alloc, Instance
<1>3. call' = [call EXCEPT ![a] = f] /\ heap' \in [Object -> Instance]
  BY <1>2 DEF Begin, Typed, TypeOK
<1> HIDE DEF f
<1> QED BY <1>1, <1>3, FrameStep DEF Begin, Typed, TypeOK, f

LEMMA BeginsTyped ==
    ASSUME Typed, NEW a \in Actor, NEW o \in Object, Begins(a, o)
    PROVE  Typed'
<1>0. cls \in Class
  BY DEF Typed, TypeOK
<1>1. CASE Construct(a, o)
  <2> DEFINE Passing(n, args) ==
                LET fields == [i \in Field |-> IF i <= n THEN args[i] ELSE NoValue] IN
                Begin(a, o, [Idle EXCEPT !.op = "init", !.at = "keywords", !.size = n,
                                         !.given = fields, !.should_untrack = Untracked(fields)],
                      fields)
  <2>0. PICK n \in 0..cls.nfields : \E args \in [1..n -> Value] : Passing(n, args)
    BY <1>1 DEF Construct
  <2>1. PICK args \in [1..n -> Value] : Passing(n, args)
    BY <2>0
  <2> DEFINE fields == [i \in Field |-> IF i <= n THEN args[i] ELSE NoValue]
             frame == [Idle EXCEPT !.op = "init", !.at = "keywords", !.size = n,
                                   !.given = fields, !.should_untrack = Untracked(fields)]
  <2>2. fields \in [Field -> Value \cup {NoValue}]
    BY <1>0, Defaults DEF Field
  <2> HIDE DEF fields
  <2>3. frame \in Frame
    <3>1. n \in Nat
      BY <1>0, Defaults
    <3> QED BY <2>2, <3>1, <1>0, IdleFrame, InitFrame
  <2>4. Shape([frame EXCEPT !.obj = o])
    BY DEF Shape, Idle, Making, Early
  <2>5. Begin(a, o, frame, fields)
    BY <2>1 DEF fields
  <2> HIDE DEF frame
  <2> QED BY <2>2, <2>3, <2>4, <2>5, BeginTyped
<1>2. NoFields \in [Field -> Value \cup {NoValue}]
  BY DEF NoFields
<1>3. CASE DecodeMap(a, o)
  <2> DEFINE frame == [Idle EXCEPT !.op = "map", !.at = "items", !.should_untrack = TRUE]
  <2>1. frame \in Frame
    BY <1>0, IdleFrame DEF Frame, Idle, Op, Stage
  <2>2. Shape([frame EXCEPT !.obj = o])
    BY DEF Shape, Idle, Making, Early
  <2>3. Begin(a, o, frame, NoFields)
    BY <1>3 DEF DecodeMap
  <2> HIDE DEF frame
  <2> QED BY <1>2, <2>1, <2>2, <2>3, BeginTyped
<1>4. CASE FromAttributes(a, o)
  <2> DEFINE frame == [Idle EXCEPT !.op = "attrs", !.at = "items", !.i = 1,
                                   !.should_untrack = TRUE,
                                   !.names = IF cls.renamed = {} THEN "name" ELSE "open"]
  <2>1. frame \in Frame
    BY <1>0, IdleFrame, ZenonT(60) DEF Frame, Idle, Op, Stage
  <2>2. Shape([frame EXCEPT !.obj = o])
    BY DEF Shape, Idle, Making, Early
  <2>3. Begin(a, o, frame, NoFields)
    BY <1>4 DEF FromAttributes
  <2> HIDE DEF frame
  <2> QED BY <1>2, <2>1, <2>2, <2>3, BeginTyped
<1>5. ASSUME NEW op \in {"array", "seq"}, ArrayBegins(a, o, op) PROVE Typed'
  <2> DEFINE Reading(n, items) ==
                /\ op = "seq" => n >= NRequired
                /\ Begin(a, o,
                      [Idle EXCEPT !.op = op, !.at = "items", !.i = 1, !.size = n,
                         !.should_untrack = TRUE,
                         !.wrong = cls.forbid_unknown_fields /\ n > cls.nfields,
                         !.given = [i \in Field |-> IF i <= n THEN items[i] ELSE NoValue]],
                      NoFields)
  <2>0. PICK n \in 0..MaxItems : \E items \in [1..n -> Value] : Reading(n, items)
    BY <1>5 DEF ArrayBegins
  <2>1. PICK items \in [1..n -> Value] : Reading(n, items)
    BY <2>0
  <2> DEFINE given == [i \in Field |-> IF i <= n THEN items[i] ELSE NoValue]
  <2>2. given \in [Field -> Value \cup {NoValue}]
        /\ \A j \in Field : j <= n => given[j] # NoValue
    BY <1>0, Defaults, ConstantsOK DEF Field, ConstantsOK
  <2> HIDE DEF given
  <2> DEFINE wrong == cls.forbid_unknown_fields /\ n > cls.nfields
             frame == [Idle EXCEPT !.op = op, !.at = "items", !.i = 1, !.size = n,
                                   !.should_untrack = TRUE, !.wrong = wrong, !.given = given]
  <2>3. wrong \in BOOLEAN
    OBVIOUS
  <2>4. Begin(a, o, frame, NoFields)
    BY <2>1 DEF given
  <2> HIDE DEF wrong
  <2>5. frame \in Frame
    <3>1. n \in Nat
      BY ConstantsOK DEF ConstantsOK
    <3> QED BY <2>2, <2>3, <3>1, <1>0, IdleFrame, ArrayFrame
  <2>6. Shape([frame EXCEPT !.obj = o])
    BY <2>1, <2>2 DEF Shape, Idle, Making, Early
  <2> HIDE DEF frame
  <2> QED BY <1>2, <2>4, <2>5, <2>6, BeginTyped
<1>6. ASSUME NEW src \in Object, Replace(a, src, o) PROVE Typed'
  <2> DEFINE With(S, changes) ==
                LET fields == [i \in Field |-> IF i \in S THEN changes[i]
                                               ELSE heap[src].fields[i]] IN
                Begin(a, o, [Idle EXCEPT !.op = "replace", !.at = "filled", !.given = fields,
                                         !.should_untrack = Untracked(fields)], fields)
  <2>1. PICK S \in SUBSET Field : \E changes \in [S -> Value] : With(S, changes)
    BY <1>6 DEF Replace
  <2>2. PICK changes \in [S -> Value] : With(S, changes)
    BY <2>1
  <2> DEFINE fields == [i \in Field |-> IF i \in S THEN changes[i] ELSE heap[src].fields[i]]
             frame == [Idle EXCEPT !.op = "replace", !.at = "filled", !.given = fields,
                                   !.should_untrack = Untracked(fields)]
  <2>3. fields \in [Field -> Value \cup {NoValue}]
    BY DEF Typed, TypeOK, Instance
  <2>4. Begin(a, o, frame, fields)
    BY <2>2
  <2> HIDE DEF fields
  <2>5. frame \in Frame
    BY <2>3, <1>0, IdleFrame DEF Frame, Idle, Op, Stage, Untracked
  <2>6. Shape([frame EXCEPT !.obj = o])
    BY DEF Shape, Idle, Making, Early
  <2> HIDE DEF frame
  <2> QED BY <2>3, <2>4, <2>5, <2>6, BeginTyped
<1>7. ASSUME NEW src \in Object, Copy(a, src, o) PROVE Typed'
  <2>1. Copied(src) \in Instance
    BY DEF Typed, TypeOK, Copied, Alloc, Instance
  <2>2. heap' \in [Object -> Instance] /\ exposed' \subseteq Object
    BY <1>7, <2>1 DEF Copy, Typed, TypeOK
  <2>3. call' = [call EXCEPT ![a] = call[a]] /\ call[a] \in Frame /\ Shape(call[a])
    BY <1>7 DEF Copy, Typed, TypeOK
  <2> QED BY <1>7, <2>2, <2>3, FrameStep DEF Copy, Typed, TypeOK
<1>8. ASSUME NEW src \in Object, Rebuild(a, src, o) PROVE Typed'
  <2> DEFINE fields == heap[src].fields
             at == IF Reduced <= cls.nfields - cls.nkwonly THEN "filled" ELSE "refused"
             frame == [Idle EXCEPT !.op = "init", !.given = fields, !.size = Reduced, !.at = at,
                                   !.should_untrack = Untracked(fields)]
  <2>1. fields \in [Field -> Value \cup {NoValue}] /\ Reduced \in Nat
    BY <1>0, Defaults DEF Typed, TypeOK, Instance, Reduced
  <2>2. Begin(a, o, frame, fields)
    BY <1>8 DEF Rebuild
  <2>3. at \in {"filled", "refused"}
    OBVIOUS
  <2> HIDE DEF fields, at
  <2>4. frame \in Frame
    BY <2>1, <2>3, <1>0, IdleFrame, ZenonT(60) DEF Frame, Idle, Op, Stage, Untracked
  <2>5. Shape([frame EXCEPT !.obj = o])
    BY <2>3 DEF Shape, Idle, Making, Early
  <2> HIDE DEF frame
  <2> QED BY <2>1, <2>2, <2>4, <2>5, BeginTyped
<1> QED BY <1>1, <1>3, <1>4, <1>5, <1>6, <1>7, <1>8 DEF Begins

LEMMA UsesTyped ==
    ASSUME Typed, NEW a \in Actor, NEW o \in Object, Uses(a, o)
    PROVE  Typed'
<1>0. call[a] \in Frame /\ Shape(call[a]) /\ cls \in Class /\ Idle \in Frame
  BY IdleFrame DEF Typed, TypeOK
<1>1. CASE SetAttr(a, o)
  <2>1. PICK i \in Field, v \in Value :
          /\ heap' = [heap EXCEPT ![o].fields[i] = v]
          /\ call' = [call EXCEPT ![a] = [Idle EXCEPT !.op = "setattr", !.at = "track",
                                                      !.obj = o, !.value = v]]
          /\ exposed' \subseteq exposed \cup {o}
    BY <1>1 DEF SetAttr
  <2> DEFINE f == [Idle EXCEPT !.op = "setattr", !.at = "track", !.obj = o, !.value = v]
  <2>2. f \in Frame
    BY <1>0 DEF Frame, Op, Stage
  <2>3. Shape(f)
    BY DEF Shape, Idle, Making
  <2>4. call' = [call EXCEPT ![a] = f]
    BY <2>1
  <2> HIDE DEF f
  <2>5. heap' \in [Object -> Instance]
    BY <2>1, StoreTyped
  <2>6. cls' = cls /\ tupleTracked' = tupleTracked /\ answers' = answers
    BY <1>1 DEF SetAttr
  <2>7. exposed' \subseteq Object /\ answers \in [Object -> SUBSET Seq(Value)]
    BY <2>1 DEF Typed, TypeOK
  <2> QED BY <2>2, <2>3, <2>4, <2>5, <2>6, <2>7, FrameStep
<1>2. CASE DelAttr(a, o) \/ ObjectSetAttr(a, o)
  <2>1. PICK i \in Field, v \in Value \cup {NoValue} : heap' = [heap EXCEPT ![o].fields[i] = v]
    BY <1>2 DEF DelAttr, ObjectSetAttr
  <2>2. call' = [call EXCEPT ![a] = call[a]]
    BY <1>2 DEF DelAttr, ObjectSetAttr, Typed, TypeOK
  <2>3. heap' \in [Object -> Instance]
    BY <2>1, StoreTyped
  <2>4. cls' = cls /\ tupleTracked' = tupleTracked /\ exposed' \subseteq Object
        /\ answers' \in [Object -> SUBSET Seq(Value)]
    BY <1>2 DEF DelAttr, ObjectSetAttr, Typed, TypeOK
  <2> QED BY <1>0, <2>2, <2>3, <2>4, FrameStep
<1>3. CASE Hash(a, o)
  <2>1. CASE cls.cache_hash /\ heap[o].hash # Null
    <3>1. answers' \in [Object -> SUBSET Seq(Value)]
      BY <1>3, <2>1 DEF Hash, Answer, Typed, TypeOK, Instance
    <3>2. call' = [call EXCEPT ![a] = call[a]]
      BY <1>3, <2>1 DEF Hash, Typed, TypeOK
    <3> QED BY <1>0, <1>3, <3>1, <3>2, FrameStep DEF Hash, Typed, TypeOK
  <2>2. CASE ~(cls.cache_hash /\ heap[o].hash # Null)
    <3> DEFINE f == [Idle EXCEPT !.op = "hash", !.at = "fields", !.obj = o, !.i = 1]
    <3>1. f \in Frame
      BY <1>0, HashFrame
    <3>2. Shape(f)
      BY DEF Shape, Idle, Making
    <3>3. call' = [call EXCEPT ![a] = f] /\ Quietly
      BY <1>3, <2>2 DEF Hash, Quietly
    <3> HIDE DEF f
    <3> QED BY <3>1, <3>2, <3>3, QuietStep
  <2> QED BY <2>1, <2>2
<1> QED BY <1>1, <1>2, <1>3 DEF Uses

LEMMA FillsTyped ==
    ASSUME Typed, NEW a \in Actor, Fills(a)
    PROVE  Typed'
<1>0. call[a] \in Frame /\ Shape(call[a]) /\ cls \in Class
  BY DEF Typed, TypeOK
<1>1. CASE Keyword(a)
  <2>1. PICK i \in (Field \cup {0}) \ call[a].seen, v \in Value :
          IF i > call[a].size
          THEN Fill(a, i, v, [call[a] EXCEPT !.seen = @ \cup {i}, !.given[i] = v])
          ELSE /\ call' = [call EXCEPT ![a].at = "refused", ![a].wrong = TRUE]
               /\ Quietly
    BY <1>1 DEF Keyword
  <2>2. CASE i > call[a].size
    <3>1. i \in Field
      BY <1>0, <2>2 DEF Frame
    <3> DEFINE next == [call[a] EXCEPT !.seen = @ \cup {i}, !.given[i] = v]
    <3>2. next \in Frame
      BY <1>0, <3>1 DEF Frame
    <3>3. Shape(next) /\ call[a].obj \in Object
      BY <1>0, <1>1 DEF Shape, Keyword, At
    <3>4. Fill(a, i, v, next)
      BY <2>1, <2>2
    <3> HIDE DEF next
    <3> QED BY <3>1, <3>2, <3>3, <3>4, FillTyped
  <2>3. CASE ~(i > call[a].size)
    <3> DEFINE f == [call[a] EXCEPT !.at = "refused", !.wrong = TRUE]
    <3>1. f \in Frame
      BY <1>0 DEF Frame, Stage
    <3>2. Shape(f)
      BY <1>0, <1>1 DEF Shape, Keyword, At, Making, Early
    <3>3. call' = [call EXCEPT ![a] = f] /\ Quietly
      BY <2>1, <2>3
    <3> HIDE DEF f
    <3> QED BY <3>1, <3>2, <3>3, QuietStep
  <2> QED BY <2>2, <2>3
<1>2. CASE KeywordsEnd(a)
  <2> DEFINE at == IF call[a].size + Cardinality(call[a].seen) < cls.nfields
                   THEN "defaults" ELSE "filled"
             f == [call[a] EXCEPT !.i = call[a].size + 1, !.at = at]
  <2>1. at \in {"defaults", "filled"}
    OBVIOUS
  <2>2. call' = [call EXCEPT ![a] = f] /\ Quietly
    BY <1>2 DEF KeywordsEnd
  <2> HIDE DEF at
  <2>3. f \in Frame
    <3>1. call[a].size + 1 \in Nat /\ at \in Stage
      BY <1>0, <2>1 DEF Frame, Stage
    <3> QED BY <1>0, <3>1, FrameAt
  <2>4. Shape(f)
    BY <1>0, <1>2, <2>1 DEF Shape, KeywordsEnd, At, Making, Early, Frame
  <2> HIDE DEF f
  <2> QED BY <2>2, <2>3, <2>4, QuietStep
<1>3. ASSUME FillMissing(a) \/ FillInDefaults(a) PROVE Typed'
  <2> DEFINE i == call[a].i
             next == [call[a] EXCEPT !.i = @ + 1]
             refused == [call[a] EXCEPT !.at = "refused"]
             val == heap[call[a].obj].fields[i]
  <2>1. i \in Field /\ call[a].obj \in Object /\ call[a].at = "defaults"
        /\ call[a].op \in {"init", "map"}
    BY <1>0, <1>3 DEF FillMissing, FillInDefaults, Shape, At
  <2>2. next \in Frame /\ refused \in Frame
    BY <1>0 DEF Frame, Stage
  <2>3. Shape(next) /\ Shape(refused)
    BY <1>0, <2>1 DEF Shape, Frame, Making, Early
  <2>4. \/ call' = [call EXCEPT ![a] = next] /\ Quietly
        \/ val # NoValue /\ Fill(a, i, val, next)
        \/ DefaultOf(i) # NODEFAULT /\ Fill(a, i, DefaultOf(i), next)
        \/ call' = [call EXCEPT ![a] = refused] /\ Quietly
    BY <1>3 DEF FillMissing, FillInDefaults, Goto
  <2>5. val \in Value \cup {NoValue}
    BY <2>1 DEF Typed, TypeOK, Instance
  <2>6. DefaultOf(i) \in Value \cup {NODEFAULT}
    BY <1>0, <2>1, Defaults
  <2> HIDE DEF next, refused, val, i
  <2> QED BY <2>1, <2>2, <2>3, <2>4, <2>5, <2>6, FillTyped, QuietStep
<1>4. CASE MapItem(a)
  <2>1. PICK i \in Field, v \in Value :
          Set(a, i, v, [call[a] EXCEPT !.size = @ + 1, !.given[i] = v])
    BY <1>4 DEF MapItem
  <2> DEFINE next == [call[a] EXCEPT !.size = @ + 1, !.given[i] = v]
  <2>2. next \in Frame
    BY <1>0, FrameGiven
  <2>3. Shape(next) /\ call[a].obj \in Object
    BY <1>0, <1>4 DEF Shape, MapItem, At
  <2>4. Set(a, i, v, next)
    BY <2>1
  <2> HIDE DEF next
  <2> QED BY <2>2, <2>3, <2>4, SetTyped
<1>5. CASE MapUnknown(a)
  <2> DEFINE at == IF cls.forbid_unknown_fields THEN "refused" ELSE call[a].at
             wrong == call[a].wrong \/ cls.forbid_unknown_fields
             f == [call[a] EXCEPT !.size = @ + 1, !.wrong = wrong, !.at = at]
  <2>1. at \in {"refused", "items"} /\ wrong \in BOOLEAN /\ call[a].op = "map"
    BY <1>5 DEF MapUnknown, At
  <2>2. call' = [call EXCEPT ![a] = f] /\ Quietly
    BY <1>5 DEF MapUnknown
  <2> HIDE DEF at, wrong
  <2>3. f \in Frame
    <3>1. at \in Stage
      BY <2>1 DEF Stage
    <3> QED BY <1>0, <2>1, <3>1, FrameCounted
  <2>4. Shape(f)
    BY <1>0, <2>1 DEF Shape, Making, Early
  <2> HIDE DEF f
  <2> QED BY <2>2, <2>3, <2>4, QuietStep
<1>6. CASE MapEnd(a)
  <2> DEFINE f == [call[a] EXCEPT !.at = "defaults", !.i = 1]
  <2>1. f \in Frame
    BY <1>0 DEF Frame, Stage
  <2>2. Shape(f)
    BY <1>0, <1>6 DEF Shape, MapEnd, At, Making, Early
  <2>3. call' = [call EXCEPT ![a] = f] /\ Quietly
    BY <1>6 DEF MapEnd
  <2> HIDE DEF f
  <2> QED BY <2>1, <2>2, <2>3, QuietStep
<1>7. ASSUME ArrayEnd(a) \/ SeqEnd(a) PROVE Typed'
  <2>1. PICK at \in {"refused", "defaults"} :
          /\ Goto(a, at) /\ Quietly
          /\ call[a].op = "seq" => call[a].i \notin Field \/ call[a].i > call[a].size
          /\ call[a].op = "array" /\ at = "defaults" => call[a].i - 1 >= NRequired
    BY <1>7, <1>0, Defaults DEF ArrayEnd, SeqEnd, At, Frame
  <2> DEFINE f == [call[a] EXCEPT !.at = at]
  <2>2. call[a].op \in {"array", "seq"} /\ call[a].at = "items" /\ call[a].i \in Nat
        /\ call[a].size \in Nat
    BY <1>0, <1>7 DEF ArrayEnd, SeqEnd, At, Frame
  <2>3. call[a].i > NRequired \/ at = "refused"
    BY <1>0, <2>1, <2>2, Defaults DEF Shape, Field
  <2>4. f \in Frame
    BY <1>0 DEF Frame, Stage
  <2>5. Shape(f)
    BY <1>0, <2>2, <2>3 DEF Shape, Making, Early
  <2>6. call' = [call EXCEPT ![a] = f] /\ Quietly
    BY <2>1 DEF Goto
  <2> HIDE DEF f
  <2> QED BY <2>4, <2>5, <2>6, QuietStep
<1>8. ASSUME ArrayItem(a) \/ ArrayDefault(a) PROVE Typed'
  <2>1. PICK v \in Value : Fill(a, call[a].i, v, [call[a] EXCEPT !.i = @ + 1])
    <3>1. CASE ArrayItem(a)
      <4>1. call[a].given[call[a].i] \in Value
        BY <1>0, <3>1 DEF ArrayItem, Frame, Shape
      <4> QED BY <3>1, <4>1 DEF ArrayItem
    <3>2. CASE ArrayDefault(a)
      BY <1>0, <3>2, Defaults DEF ArrayDefault, Shape
    <3> QED BY <1>8, <3>1, <3>2
  <2> DEFINE i == call[a].i
             next == [call[a] EXCEPT !.i = @ + 1]
  <2>2. i \in Field /\ call[a].op \in {"array", "seq"} /\ call[a].at \in {"items", "defaults"}
    BY <1>8 DEF ArrayItem, ArrayDefault
  <2>3. next \in Frame
    BY <1>0 DEF Frame
  <2>4. Shape(next) /\ call[a].obj \in Object
    BY <1>0, <2>2, Defaults DEF Shape, Frame, Making, Early
  <2>5. Fill(a, i, v, next)
    BY <2>1
  <2> HIDE DEF i, next
  <2> QED BY <2>2, <2>3, <2>4, <2>5, FillTyped
<1>9. CASE Attribute(a)
  <2> DEFINE i == call[a].i
             next == [call[a] EXCEPT !.i = @ + 1]
             refused == [call[a] EXCEPT !.at = "refused"]
  <2>1. i \in Field /\ call[a].obj \in Object /\ call[a].at = "items" /\ call[a].op = "attrs"
    BY <1>0, <1>9 DEF Attribute, Shape, At
  <2>2. ASSUME NEW v \in Value, NEW way \in {"name", "alias"},
               Fill(a, i, v, IF i \in cls.renamed
                             THEN [next EXCEPT !.given[i] = v, !.names = way,
                                               !.ways = @ \cup {way}]
                             ELSE [next EXCEPT !.given[i] = v])
        PROVE  Typed'
    <3> DEFINE found == [call[a] EXCEPT !.i = @ + 1, !.given[i] = v, !.names = way,
                                        !.ways = @ \cup {way}]
               stored == [call[a] EXCEPT !.i = @ + 1, !.given[i] = v]
    <3>1. found \in Frame /\ stored \in Frame
      BY <1>0, <2>1, FrameGiven
    <3>2. Shape(found) /\ Shape(stored)
      BY <1>0, <2>1 DEF Shape, Frame, Making, Early
    <3>3. Fill(a, i, v, found) \/ Fill(a, i, v, stored)
      BY <2>2
    <3> HIDE DEF found, stored, i, next
    <3> QED BY <2>1, <3>1, <3>2, <3>3, FillTyped
  <2>3. next \in Frame /\ refused \in Frame
    BY <1>0, FrameNext, FrameAt DEF Stage
  <2>4. Shape(next) /\ Shape(refused)
    BY <1>0, <2>1 DEF Shape, Frame, Making, Early
  <2>5. ASSUME Fill(a, i, DefaultOf(i), next), DefaultOf(i) # NODEFAULT PROVE Typed'
    <3>1. DefaultOf(i) \in Value
      BY <1>0, <2>1, <2>5, Defaults
    <3> HIDE DEF i, next
    <3> QED BY <2>1, <2>3, <2>4, <2>5, <3>1, FillTyped
  <2>6. ASSUME call' = [call EXCEPT ![a] = refused], Quietly PROVE Typed'
    <3> HIDE DEF refused
    <3> QED BY <2>3, <2>4, <2>6, QuietStep
  <2>7. \/ \E v \in Value, way \in {"name", "alias"} :
              Fill(a, i, v, IF i \in cls.renamed
                            THEN [next EXCEPT !.given[i] = v, !.names = way,
                                              !.ways = @ \cup {way}]
                            ELSE [next EXCEPT !.given[i] = v])
        \/ Fill(a, i, DefaultOf(i), next) /\ DefaultOf(i) # NODEFAULT
        \/ call' = [call EXCEPT ![a] = refused] /\ Quietly
    BY <1>9 DEF Attribute, Has, Goto
  <2> QED BY <2>2, <2>5, <2>6, <2>7
<1> QED BY <1>1, <1>2, <1>3, <1>4, <1>5, <1>6, <1>7, <1>8, <1>9 DEF Fills

LEMMA EndsTyped ==
    ASSUME Typed, NEW a \in Actor, Ends(a)
    PROVE  Typed'
<1>0. call[a] \in Frame /\ Shape(call[a]) /\ cls \in Class /\ call[a].op \in Op
  BY DEF Typed, TypeOK, Frame
<1>1. ASSUME NEW at \in {"filled", "post", "running", "refused", "failed"}, Goto(a, at),
             call[a].op \in Making,
             cls' = cls, heap' \in [Object -> Instance], tupleTracked' = tupleTracked,
             answers' = answers, exposed' = exposed
      PROVE  Typed'
  <2> DEFINE f == [call[a] EXCEPT !.at = at]
  <2>1. f \in Frame
    BY <1>0, FrameAt DEF Stage
  <2>2. Shape(f)
    BY <1>0, <1>1 DEF Shape, Making, Early
  <2>3. call' = [call EXCEPT ![a] = f] /\ answers' \in [Object -> SUBSET Seq(Value)]
        /\ exposed' \subseteq Object
    BY <1>1 DEF Goto, Typed, TypeOK
  <2> HIDE DEF f
  <2> QED BY <1>1, <2>1, <2>2, <2>3, FrameStep
<1>2. heap \in [Object -> Instance] /\ answers \in [Object -> SUBSET Seq(Value)]
      /\ exposed \subseteq Object
  BY DEF Typed, TypeOK
<1>3. call[a].at \notin {"none", "track", "fields"} => call[a].op \in Making
  BY <1>0 DEF Shape, Op, Making
<1>4. ASSUME Filled(a) \/ CheckTypes(a) \/ Fails(a) PROVE Typed'
  <2>1. call[a].op \in Making
    BY <1>3, <1>4 DEF Filled, CheckTypes, Fails, At
  <2> QED BY <1>1, <1>2, <1>4, <2>1 DEF Filled, CheckTypes, Fails, Quietly
<1>5. CASE Decide(a)
  <2> DEFINE o == call[a].obj
             tracked == heap[o].tracked /\ ~(call[a].should_untrack /\ ~Late(call[a].op))
  <2>1. heap' = [heap EXCEPT ![o] = [heap[o] EXCEPT !.tracked = tracked]]
    BY <1>5 DEF Decide
  <2>2. call[a].op \in Making /\ o \in Object
    BY <1>0, <1>3, <1>5 DEF Decide, Shape, Making
  <2>3. tracked \in BOOLEAN
    OBVIOUS
  <2> HIDE DEF tracked
  <2>4. heap' \in [Object -> Instance]
    <3>1. [heap[o] EXCEPT !.tracked = tracked] \in Instance
      BY <1>2, <2>2, <2>3 DEF Instance
    <3> QED BY <1>2, <2>1, <2>2, <3>1
  <2>5. CASE call[a].op = "init" /\ cls.check_types_on_init
    <3> DEFINE f == [call[a] EXCEPT !.at = "check"]
    <3>1. f \in Frame
      BY <1>0, FrameAt DEF Stage
    <3>2. Shape(f)
      BY <1>0, <2>2, <2>5 DEF Shape, Making, Early
    <3>3. call' = [call EXCEPT ![a] = f] /\ cls' = cls /\ tupleTracked' = tupleTracked
          /\ answers' = answers /\ exposed' = exposed
      BY <1>5, <2>5 DEF Decide, Goto
    <3> HIDE DEF f
    <3> QED BY <1>2, <2>4, <3>1, <3>2, <3>3, FrameStep
  <2>6. CASE ~(call[a].op = "init" /\ cls.check_types_on_init)
    BY <1>1, <1>5, <2>2, <2>4, <2>6 DEF Decide
  <2> QED BY <2>5, <2>6
<1>6. CASE PostInit(a)
  <2>1. call[a].op \in Making /\ call[a].obj \in Object
    BY <1>0, <1>3, <1>6 DEF PostInit, Shape, Making
  <2>2. heap' \in [Object -> Instance]
    <3>1. [heap[call[a].obj] EXCEPT !.life = "shown"] \in Instance
      BY <1>2, <2>1 DEF Instance
    <3> QED BY <1>2, <1>6, <3>1, <2>1 DEF PostInit
  <2> QED BY <1>1, <1>6, <2>1, <2>2 DEF PostInit
<1>7. CASE Return(a)
  <2> DEFINE o == call[a].obj
             tracked == heap[o].tracked /\ ~(call[a].should_untrack /\ Late(call[a].op))
  <2>1. heap' = [heap EXCEPT ![o] = [heap[o] EXCEPT !.life = "live", !.tracked = tracked]]
    BY <1>7 DEF Return
  <2>2. o \in Object
    BY <1>0, <1>3, <1>7 DEF Return, Shape, Making
  <2>3. tracked \in BOOLEAN
    OBVIOUS
  <2> HIDE DEF tracked
  <2>4. heap' \in [Object -> Instance]
    <3>1. [heap[o] EXCEPT !.life = "live", !.tracked = tracked] \in Instance
      BY <1>2, <2>2, <2>3 DEF Instance
    <3> QED BY <1>2, <2>1, <2>2, <3>1
  <2>5. Idle \in Frame /\ Shape(Idle) /\ call' = [call EXCEPT ![a] = Idle] /\ cls' = cls
        /\ tupleTracked' = tupleTracked /\ answers' = answers /\ exposed' = exposed
    BY <1>0, <1>7, IdleFrame DEF Return
  <2> QED BY <1>2, <2>4, <2>5, FrameStep
<1>8. CASE Drop(a)
  <2>1. call[a].obj \in Object
    BY <1>0, <1>3, <1>8 DEF Drop, Shape, Making
  <2>2. Free \in Instance
    BY DEF Free, Instance, NoFields
  <2>3. [heap[call[a].obj] EXCEPT !.life = "live"] \in Instance
    BY <1>2, <2>1 DEF Instance
  <2>4. heap' \in [Object -> Instance]
    BY <1>2, <1>8, <2>1, <2>2, <2>3 DEF Drop
  <2>5. answers' \in [Object -> SUBSET Seq(Value)] /\ exposed' \subseteq Object
    BY <1>2, <1>8, <2>1 DEF Drop
  <2>6. Idle \in Frame /\ Shape(Idle) /\ call' = [call EXCEPT ![a] = Idle] /\ cls' = cls
        /\ tupleTracked' = tupleTracked
    BY <1>0, <1>8, IdleFrame DEF Drop
  <2> QED BY <2>4, <2>5, <2>6, FrameStep
<1> QED BY <1>4, <1>5, <1>6, <1>7, <1>8 DEF Ends

LEMMA OthersTyped ==
    ASSUME Typed, NEW a \in Actor, Track(a) \/ HashField(a) \/ HashEnds(a)
    PROVE  Typed'
<1>0. /\ call[a] \in Frame /\ Shape(call[a]) /\ Idle \in Frame /\ Shape(Idle)
      /\ heap \in [Object -> Instance] /\ answers \in [Object -> SUBSET Seq(Value)]
      /\ exposed \subseteq Object /\ cls \in Class
  BY IdleFrame DEF Typed, TypeOK
<1>1. call[a].obj \in Object
  BY <1>0 DEF Track, HashField, HashEnds, At, Shape
<1>2. CASE Track(a)
  <2> DEFINE o == call[a].obj
             tracked == heap[o].tracked \/ MaybeTracked(call[a].value)
  <2>1. heap' = [heap EXCEPT ![o] = [heap[o] EXCEPT !.tracked = tracked]]
    BY <1>2 DEF Track
  <2>2. tracked \in BOOLEAN
    OBVIOUS
  <2> HIDE DEF tracked
  <2>3. [heap[o] EXCEPT !.tracked = tracked] \in Instance
    BY <1>0, <1>1, <2>2 DEF Instance
  <2>4. heap' \in [Object -> Instance]
    BY <1>0, <1>1, <2>1, <2>3
  <2>5. call' = [call EXCEPT ![a] = Idle] /\ cls' = cls
        /\ tupleTracked' = tupleTracked /\ answers' = answers /\ exposed' = exposed
    BY <1>2 DEF Track
  <2> QED BY <1>0, <2>4, <2>5, FrameStep
<1>3. CASE HashField(a)
  <2> DEFINE v == heap[call[a].obj].fields[call[a].i]
             f == [call[a] EXCEPT !.i = @ + 1, !.acc = Append(@, v)]
  <2>1. CASE v = NoValue \/ Unhashable(v)
    BY <1>0, <1>3, <2>1, QuietStep DEF HashField
  <2>2. CASE ~(v = NoValue \/ Unhashable(v))
    <3>1. v \in Value
      BY <1>0, <1>1, <1>3, <2>2 DEF Instance, HashField
    <3>2. call' = [call EXCEPT ![a] = f] /\ Quietly
      BY <1>3, <2>2 DEF HashField
    <3> HIDE DEF v
    <3>3. f \in Frame
      BY <1>0, <3>1, FrameHashed
    <3>4. Shape(f)
      BY <1>0, <1>3 DEF HashField, At, Shape, Making
    <3> HIDE DEF f
    <3> QED BY <3>2, <3>3, <3>4, QuietStep
  <2> QED BY <2>1, <2>2
<1>4. CASE HashEnds(a)
  <2> DEFINE o == call[a].obj
  <2>1. call[a].acc \in Seq(Value)
    BY <1>0 DEF Frame
  <2>2. [heap[o] EXCEPT !.hash = call[a].acc] \in Instance
    <3>1. PICK h : h = [heap[o] EXCEPT !.hash = call[a].acc]
      OBVIOUS
    <3>2. PICK g \in Instance : g = heap[o]
      BY <1>0, <1>1
    <3>3. PICK q \in Seq(Value) : q = call[a].acc
      BY <2>1
    <3>4. h = [g EXCEPT !.hash = q]
      BY <3>1, <3>2, <3>3
    <3>5. h \in Instance
      BY <3>4 DEF Instance
    <3> QED BY <3>1, <3>5
  <2>3. heap' \in [Object -> Instance]
    BY <1>0, <1>1, <1>4, <2>2 DEF HashEnds
  <2>4. answers' \in [Object -> SUBSET Seq(Value)]
    BY <1>0, <1>1, <1>4, <2>1 DEF HashEnds, Answer
  <2>5. call' = [call EXCEPT ![a] = Idle] /\ cls' = cls
        /\ tupleTracked' = tupleTracked /\ exposed' = exposed
    BY <1>4 DEF HashEnds
  <2> QED BY <1>0, <2>3, <2>4, <2>5, FrameStep
<1> QED BY <1>2, <1>3, <1>4

LEMMA TypedStep == Typed /\ [Next]_vars => Typed'
<1> SUFFICES ASSUME Typed, [Next]_vars PROVE Typed' OBVIOUS
<1>1. ASSUME UntrackTuple \/ UNCHANGED vars PROVE Typed'
  <2>1. cls' = cls /\ heap' = heap /\ call' = call /\ answers' = answers /\ exposed' = exposed
        /\ tupleTracked' \subseteq tupleTracked
    BY <1>1 DEF UntrackTuple, vars
  <2>2. Frame' = Frame /\ Instance' = Instance
    BY <2>1 DEF Frame, Instance, Field
  <2>3. TypeOK'
    BY <2>1, <2>2 DEF Typed, TypeOK
  <2>4. \A a \in Actor : Shape(call[a])'
    BY <2>1 DEF Typed, Shape, NRequired, Field
  <2> QED BY <2>3, <2>4 DEF Typed
<1>2. CASE Next
  BY <1>1, <1>2, BeginsTyped, UsesTyped, FillsTyped, EndsTyped, OthersTyped DEF Next
<1> QED BY <1>1, <1>2

(* Every variable of StructInstance has its type, for every class: what     *)
(* marks a required field is never stored as a value, and no index is out   *)
(* of the fields or the defaults.                                           *)
THEOREM TypeCorrect == Spec => []TypeOK
<1>1. Spec => []Typed
  BY TypedInit, TypedStep, PTL DEF Spec
<1> QED BY <1>1, PTL DEF Typed

-----------------------------------------------------------------------------
(* The inductive invariant for CollectorSees, of a call f that makes the    *)
(* instance h: who may have seen h, and that should_untrack is right about  *)
(* the fields the call has accounted for.                                   *)

Filling == {"keywords", "items", "defaults", "filled"}

OwnedBy(f, h) ==
    /\ f.at = "running" => h.life = "shown"
    /\ f.at \in {"refused", "failed"} => h.life \in {"new", "shown"}
    /\ f.at \in Early => h.life = "new"
    /\ f.at \in Filling => h.tracked

(* Only the decoder of maps looks at the fields at the end.                 *)
Scanned(f) ==
    {j \in Field : f.op = "map" => f.at # "items" /\ (f.at = "defaults" => j < f.i)}

CountedBy(f, h) ==
    f.should_untrack /\ (f.at \in Filling \/ (f.at \in {"post", "running"} /\ Late(f.op))) =>
        f.obj \in exposed \/ \A j \in Scanned(f) : ~MaybeTracked(h.fields[j])

Stores(b, o, v) == At(b, "setattr", "track") /\ call[b].obj = o /\ call[b].value = v

(* An instance that is not tracked has nothing that may be part of a cycle  *)
(* but what has just been stored in it.                                     *)
SeenBy(o, h) ==
    \/ o \in exposed \/ h.life = "free" \/ h.tracked
    \/ \A j \in Field : MaybeTracked(h.fields[j]) => \E b \in Actor : Stores(b, o, h.fields[j])

Makes(a) == call[a].op \in Making

Apart(a) == \A b \in Actor : b # a /\ Makes(b) => call[b].obj # call[a].obj

Sees ==
    /\ Typed
    /\ \A a \in Actor : Makes(a) =>
          /\ OwnedBy(call[a], heap[call[a].obj])
          /\ CountedBy(call[a], heap[call[a].obj])
          /\ Apart(a)
    /\ \A o \in Object : SeenBy(o, heap[o])

LEMMA SeesInit == Init => Sees
<1> SUFFICES ASSUME Init PROVE Sees OBVIOUS
<1>1. Typed
  BY TypedInit
<1>2. \A a \in Actor : ~Makes(a)
  BY DEF Init, Makes, Making, Idle
<1>3. \A o \in Object : SeenBy(o, heap[o])
  BY DEF Init, SeenBy, Free
<1> QED BY <1>1, <1>2, <1>3 DEF Sees

(* A call that makes an instance changes it, or goes on. *)
LEMMA OwnStep ==
    ASSUME Sees, Typed', NEW a \in Actor, Makes(a), NEW f, NEW h,
           cls' = cls, tupleTracked' = tupleTracked, exposed' = exposed,
           call' = [call EXCEPT ![a] = f], heap' = [heap EXCEPT ![call[a].obj] = h],
           f.op \in Making => /\ f.obj = call[a].obj
                              /\ OwnedBy(f, h) /\ CountedBy(f, h),
           f.op # "setattr",
           SeenBy(call[a].obj, h)
    PROVE  Sees'
<1> DEFINE o == call[a].obj
<1>0. /\ heap \in [Object -> Instance] /\ call \in [Actor -> Frame]
      /\ \A b \in Actor : Makes(b) => call[b].obj \in Object
  BY DEF Sees, Typed, TypeOK, Shape, Makes, Making
<1>1. /\ \A p \in Object : heap'[p] = IF p = o THEN h ELSE heap[p]
      /\ \A b \in Actor : call'[b] = IF b = a THEN f ELSE call[b]
  BY <1>0
<1>2. \A v : MaybeTracked(v)' <=> MaybeTracked(v)
  BY DEF MaybeTracked
<1>3. ASSUME NEW p \in Object PROVE SeenBy(p, heap[p])'
  <2>1. \A v : \A b \in Actor : Stores(b, p, v) => Stores(b, p, v)'
    BY <1>1 DEF Stores, At, Makes, Making
  <2>2. SeenBy(p, heap'[p])
    BY <1>1 DEF Sees
  <2> HIDE DEF o
  <2> QED BY <1>2, <2>1, <2>2 DEF SeenBy, Field
<1>4. ASSUME NEW b \in Actor, Makes(b)'
      PROVE  (OwnedBy(call[b], heap[call[b].obj]) /\ CountedBy(call[b], heap[call[b].obj]))'
  <2>1. /\ OwnedBy(call'[b], heap'[call'[b].obj])
        /\ CountedBy(call'[b], heap'[call'[b].obj])
    <3>1. CASE b = a
      BY <1>0, <1>1, <1>4, <3>1 DEF Makes
    <3>2. CASE b # a
      <4>1. Makes(b) /\ call'[b] = call[b] /\ call[b].obj # o
        BY <1>1, <1>4, <3>2 DEF Makes, Sees, Apart
      <4>2. heap'[call[b].obj] = heap[call[b].obj]
        BY <1>0, <1>1, <4>1
      <4> QED BY <4>1, <4>2 DEF Sees
    <3> QED BY <3>1, <3>2
  <2> QED BY <1>2, <2>1 DEF OwnedBy, CountedBy, Scanned, Field
<1>5. ASSUME NEW b \in Actor, NEW c \in Actor, b # c, Makes(b)', Makes(c)'
      PROVE  call'[b].obj # call'[c].obj
  <2>1. Makes(b) /\ Makes(c) /\ call'[b].obj = call[b].obj /\ call'[c].obj = call[c].obj
    BY <1>1, <1>5 DEF Makes
  <2> QED BY <1>5, <2>1 DEF Sees, Apart
<1> QED BY <1>3, <1>4, <1>5 DEF Sees, Apart

(* The same when the instance stays as it is. *)
LEMMA GoStep ==
    ASSUME Sees, Typed', NEW a \in Actor, Makes(a), NEW f, Quietly,
           call' = [call EXCEPT ![a] = f], f.op = call[a].op, f.obj = call[a].obj,
           OwnedBy(f, heap[f.obj]) /\ CountedBy(f, heap[f.obj])
    PROVE  Sees'
<1>1. call[a].obj \in Object /\ heap \in [Object -> Instance]
  BY DEF Sees, Typed, TypeOK, Shape, Makes, Making
<1>2. SeenBy(call[a].obj, heap[call[a].obj])
  BY <1>1 DEF Sees
<1>3. heap' = [heap EXCEPT ![call[a].obj] = heap[call[a].obj]]
  BY <1>1 DEF Quietly
<1>4. f.op # "setattr"
  BY DEF Makes, Making
<1> QED BY <1>2, <1>3, <1>4, OwnStep DEF Quietly

(* Nobody begins or goes on with an instance. *)
LEMMA RestStep ==
    ASSUME Sees, Typed', cls' = cls, tupleTracked' \subseteq tupleTracked,
           \A b \in Actor : Makes(b)' => Makes(b) /\ call'[b] = call[b],
           \A b \in Actor : Makes(b)' =>
              \/ /\ heap'[call[b].obj].life = heap[call[b].obj].life
                 /\ heap'[call[b].obj].fields = heap[call[b].obj].fields
                 /\ heap[call[b].obj].tracked => heap'[call[b].obj].tracked
                 /\ call[b].obj \in exposed => call[b].obj \in exposed'
              \/ /\ heap[call[b].obj].life = "shown" /\ heap'[call[b].obj].life = "shown"
                 /\ \/ call[b].obj \in exposed'
                    \/ /\ call[b].obj \notin exposed
                       /\ \/ ~WillUntrack(call[b].obj)
                          \/ \A j \in Field : MaybeTracked(heap'[call[b].obj].fields[j]) =>
                                                 MaybeTracked(heap[call[b].obj].fields[j]),
           \A p \in Object : SeenBy(p, heap[p])'
    PROVE  Sees'
<1>1. \A v : MaybeTracked(v)' => MaybeTracked(v)
  BY DEF MaybeTracked
<1>2. ASSUME NEW b \in Actor, Makes(b)'
      PROVE  (OwnedBy(call[b], heap[call[b].obj]) /\ CountedBy(call[b], heap[call[b].obj]))'
  <2> DEFINE f == call[b]
             o == call[b].obj
  <2>1. Makes(b) /\ call'[b] = f /\ OwnedBy(f, heap[o]) /\ CountedBy(f, heap[o])
    BY <1>2 DEF Sees
  <2>2. CASE /\ heap'[o].life = heap[o].life /\ heap'[o].fields = heap[o].fields
             /\ heap[o].tracked => heap'[o].tracked
             /\ o \in exposed => o \in exposed'
    BY <1>1, <2>1, <2>2 DEF OwnedBy, CountedBy, Scanned, Field
  <2>3. CASE /\ heap[o].life = "shown" /\ heap'[o].life = "shown"
             /\ \/ o \in exposed'
                \/ /\ o \notin exposed
                   /\ \/ ~WillUntrack(o)
                      \/ \A j \in Field : MaybeTracked(heap'[o].fields[j]) =>
                                             MaybeTracked(heap[o].fields[j])
    <3>1. OwnedBy(f, heap'[o]) /\ f.at \notin Filling /\ f.at # "post"
      BY <2>1, <2>3 DEF OwnedBy, Early, Filling
    <3>2. CountedBy(f, heap[o])
      BY <2>1
    <3>3. f.should_untrack /\ Late(f.op) => WillUntrack(o)
      BY DEF WillUntrack
    <3>4. ASSUME o \notin exposed', f.should_untrack, f.at = "running", Late(f.op),
                 NEW j \in Scanned(f)
          PROVE  ~MaybeTracked(heap'[o].fields[j])
      <4>1. o \notin exposed /\ j \in Field
        BY <2>3, <3>4 DEF Scanned
      <4>2. ~MaybeTracked(heap[o].fields[j])
        BY <3>2, <3>4, <4>1 DEF CountedBy
      <4> QED BY <2>3, <3>3, <3>4, <4>1, <4>2
    <3> QED BY <1>1, <2>1, <3>1, <3>4 DEF OwnedBy, CountedBy, Scanned, Field
  <2> QED BY <1>2, <2>2, <2>3
<1>3. \A b \in Actor : Makes(b)' => Apart(b)'
  BY DEF Sees, Apart
<1> QED BY <1>2, <1>3 DEF Sees

(* A call begins with an instance of its own. *)
LEMMA BeginStep ==
    ASSUME Sees, Typed', NEW a \in Actor, NEW o \in Object, NEW f, NEW fields,
           call[a].op = "none", heap[o].life = "free",
           cls' = cls, tupleTracked' = tupleTracked, exposed' = exposed,
           call' = [call EXCEPT ![a] = f], heap' = [heap EXCEPT ![o] = Alloc(fields)],
           f.op \in Making, f.obj = o, f.at \in Filling \cup {"refused"},
           CountedBy(f, Alloc(fields))
    PROVE  Sees'
<1>0. /\ heap \in [Object -> Instance] /\ call \in [Actor -> Frame] /\ ~Makes(a)
      /\ \A b \in Actor : Shape(call[b])
  BY DEF Sees, Typed, TypeOK, Makes, Making
<1>1. /\ \A p \in Object : heap'[p] = IF p = o THEN Alloc(fields) ELSE heap[p]
      /\ \A b \in Actor : call'[b] = IF b = a THEN f ELSE call[b]
  BY <1>0
<1>2. \A v : MaybeTracked(v)' <=> MaybeTracked(v)
  BY DEF MaybeTracked
<1>3. ASSUME NEW b \in Actor, Makes(b)
      PROVE  call[b].obj # o /\ call[b].obj \in Object /\ b # a
  <2>1. call[b].at \in Early \cup {"running", "refused", "failed"} /\ call[b].obj \in Object
    BY <1>0, <1>3 DEF Shape, Makes, Making
  <2>2. OwnedBy(call[b], heap[call[b].obj])
    BY <1>3 DEF Sees
  <2>3. heap[call[b].obj].life \in {"new", "shown"}
    BY <2>1, <2>2 DEF OwnedBy
  <2> QED BY <1>0, <1>3, <2>1, <2>3
<1>4. Alloc(fields).life = "new" /\ Alloc(fields).tracked
  BY DEF Alloc
<1>5. ASSUME NEW p \in Object PROVE SeenBy(p, heap[p])'
  <2>1. \A v : \A b \in Actor : Stores(b, p, v) => Stores(b, p, v)'
    BY <1>1 DEF Stores, At
  <2>2. SeenBy(p, heap'[p])
    BY <1>1, <1>4 DEF Sees, SeenBy
  <2> QED BY <1>2, <2>1, <2>2 DEF SeenBy, Field
<1>6. OwnedBy(f, Alloc(fields))
  BY <1>4 DEF OwnedBy, Early, Filling
<1>7. ASSUME NEW b \in Actor, Makes(b)'
      PROVE  (OwnedBy(call[b], heap[call[b].obj]) /\ CountedBy(call[b], heap[call[b].obj]))'
  <2>1. /\ OwnedBy(call'[b], heap'[call'[b].obj])
        /\ CountedBy(call'[b], heap'[call'[b].obj])
    <3>1. CASE b = a
      BY <1>1, <1>6, <3>1
    <3>2. CASE b # a
      <4>1. Makes(b) /\ call'[b] = call[b]
        BY <1>1, <1>7, <3>2 DEF Makes
      <4>2. heap'[call[b].obj] = heap[call[b].obj]
        BY <1>1, <1>3, <4>1
      <4> QED BY <4>1, <4>2 DEF Sees
    <3> QED BY <3>1, <3>2
  <2> QED BY <1>2, <2>1 DEF OwnedBy, CountedBy, Scanned, Field
<1>8. ASSUME NEW b \in Actor, NEW c \in Actor, b # c, Makes(b)', Makes(c)'
      PROVE  call'[b].obj # call'[c].obj
  <2>1. CASE b # a /\ c # a
    <3>1. Makes(b) /\ Makes(c) /\ call'[b] = call[b] /\ call'[c] = call[c]
      BY <1>1, <1>8, <2>1 DEF Makes
    <3> QED BY <1>8, <3>1 DEF Sees, Apart
  <2>2. ASSUME NEW d \in Actor, d # a, Makes(d)' PROVE call'[d].obj # o
    BY <1>1, <1>3, <2>2 DEF Makes
  <2> QED BY <1>1, <1>8, <2>1, <2>2
<1> QED BY <1>5, <1>7, <1>8 DEF Sees, Apart

LEMMA BeginSees ==
    ASSUME Sees, Typed', NEW a \in Actor, NEW o \in Object, NEW frame \in Frame, NEW fields,
           call[a].op = "none", heap[o].life = "free", Begin(a, o, frame, fields),
           frame.op \in Making, frame.at \in Filling \cup {"refused"},
           frame.should_untrack => Scanned(frame) = {}
                                   \/ \A j \in Field : ~MaybeTracked(fields[j])
    PROVE  Sees'
<1> DEFINE f == [frame EXCEPT !.obj = o]
<1>1. /\ f.op = frame.op /\ f.at = frame.at /\ f.obj = o /\ f.i = frame.i
      /\ f.should_untrack = frame.should_untrack
  BY DEF Frame
<1>2. call' = [call EXCEPT ![a] = f] /\ heap' = [heap EXCEPT ![o] = Alloc(fields)]
      /\ cls' = cls /\ tupleTracked' = tupleTracked /\ exposed' = exposed
  BY DEF Begin
<1> HIDE DEF f
<1>3. Scanned(f) = Scanned(frame) /\ Alloc(fields).fields = fields
  BY <1>1 DEF Scanned, Alloc
<1>4. CountedBy(f, Alloc(fields))
  BY <1>1, <1>3 DEF CountedBy, Scanned
<1> QED BY <1>1, <1>2, <1>4, BeginStep

LEMMA NoValueUnseen == Typed => ~MaybeTracked(NoValue)
  BY ConstantsOK DEF ConstantsOK, Typed, TypeOK, MaybeTracked, Value

LEMMA UntrackedUnseen ==
    ASSUME Typed, NEW fields, Untracked(fields)
    PROVE  \A j \in Field : ~MaybeTracked(fields[j])
  BY NoValueUnseen DEF Untracked

LEMMA BeginsSees ==
    ASSUME Sees, Typed', NEW a \in Actor, NEW o \in Object, Begins(a, o)
    PROVE  Sees'
<1>0. /\ Typed /\ cls \in Class /\ Idle \in Frame
      /\ call[a].op = "none" /\ heap[o].life = "free"
  BY IdleFrame DEF Sees, Typed, TypeOK, Begins
<1>1. CASE Construct(a, o)
  <2> DEFINE Passing(n, args) ==
                LET fields == [i \in Field |-> IF i <= n THEN args[i] ELSE NoValue] IN
                Begin(a, o, [Idle EXCEPT !.op = "init", !.at = "keywords", !.size = n,
                                         !.given = fields, !.should_untrack = Untracked(fields)],
                      fields)
  <2>0. PICK n \in 0..cls.nfields : \E args \in [1..n -> Value] : Passing(n, args)
    BY <1>1 DEF Construct
  <2>1. PICK args \in [1..n -> Value] : Passing(n, args)
    BY <2>0
  <2> DEFINE fields == [i \in Field |-> IF i <= n THEN args[i] ELSE NoValue]
             frame == [Idle EXCEPT !.op = "init", !.at = "keywords", !.size = n,
                                   !.given = fields, !.should_untrack = Untracked(fields)]
  <2>2. fields \in [Field -> Value \cup {NoValue}]
    BY <1>0, Defaults DEF Field
  <2> HIDE DEF fields
  <2>3. frame \in Frame
    <3>1. n \in Nat
      BY <1>0, Defaults
    <3> QED BY <2>2, <3>1, <1>0, InitFrame
  <2>4. frame.op = "init" /\ frame.at = "keywords" /\ frame.should_untrack = Untracked(fields)
    BY DEF Idle
  <2>5. Begin(a, o, frame, fields)
    BY <2>1 DEF fields
  <2> HIDE DEF frame
  <2> QED BY <1>0, <2>3, <2>4, <2>5, UntrackedUnseen, BeginSees DEF Making, Filling
<1>2. \A j \in Field : ~MaybeTracked(NoFields[j])
  BY <1>0, NoValueUnseen DEF NoFields
<1>3. CASE DecodeMap(a, o)
  <2> DEFINE frame == [Idle EXCEPT !.op = "map", !.at = "items", !.should_untrack = TRUE]
  <2>1. frame \in Frame
    BY <1>0, ZenonT(60) DEF Frame, Op, Stage
  <2>2. frame.op = "map" /\ frame.at = "items"
    BY DEF Idle
  <2>3. Begin(a, o, frame, NoFields)
    BY <1>3 DEF DecodeMap
  <2> HIDE DEF frame
  <2> QED BY <1>0, <1>2, <2>1, <2>2, <2>3, BeginSees DEF Making, Filling
<1>4. CASE FromAttributes(a, o)
  <2> DEFINE frame == [Idle EXCEPT !.op = "attrs", !.at = "items", !.i = 1,
                                   !.should_untrack = TRUE,
                                   !.names = IF cls.renamed = {} THEN "name" ELSE "open"]
  <2>1. frame \in Frame
    BY <1>0, ZenonT(60) DEF Frame, Idle, Op, Stage
  <2>2. frame.op = "attrs" /\ frame.at = "items"
    BY DEF Idle
  <2>3. Begin(a, o, frame, NoFields)
    BY <1>4 DEF FromAttributes
  <2> HIDE DEF frame
  <2> QED BY <1>0, <1>2, <2>1, <2>2, <2>3, BeginSees DEF Making, Filling
<1>5. ASSUME NEW op \in {"array", "seq"}, ArrayBegins(a, o, op) PROVE Sees'
  <2> DEFINE Reading(n, items) ==
                Begin(a, o,
                      [Idle EXCEPT !.op = op, !.at = "items", !.i = 1, !.size = n,
                         !.should_untrack = TRUE,
                         !.wrong = cls.forbid_unknown_fields /\ n > cls.nfields,
                         !.given = [i \in Field |-> IF i <= n THEN items[i] ELSE NoValue]],
                      NoFields)
  <2>0. PICK n \in 0..MaxItems : \E items \in [1..n -> Value] : Reading(n, items)
    BY <1>5 DEF ArrayBegins
  <2>1. PICK items \in [1..n -> Value] : Reading(n, items)
    BY <2>0
  <2> DEFINE given == [i \in Field |-> IF i <= n THEN items[i] ELSE NoValue]
  <2>2. given \in [Field -> Value \cup {NoValue}]
    BY <1>0, Defaults, ConstantsOK DEF Field, ConstantsOK
  <2> HIDE DEF given
  <2> DEFINE wrong == cls.forbid_unknown_fields /\ n > cls.nfields
             frame == [Idle EXCEPT !.op = op, !.at = "items", !.i = 1, !.size = n,
                                   !.should_untrack = TRUE, !.wrong = wrong, !.given = given]
  <2>3. wrong \in BOOLEAN
    OBVIOUS
  <2>4. Begin(a, o, frame, NoFields)
    BY <2>1 DEF given
  <2> HIDE DEF wrong
  <2>5. frame \in Frame
    <3>1. n \in Nat
      BY ConstantsOK DEF ConstantsOK
    <3> QED BY <2>2, <2>3, <3>1, <1>0, ArrayFrame
  <2>6. frame.op \in {"array", "seq"} /\ frame.at = "items"
    BY DEF Idle
  <2> HIDE DEF frame
  <2> QED BY <1>0, <1>2, <2>4, <2>5, <2>6, BeginSees DEF Making, Filling
<1>6. ASSUME NEW src \in Object, Replace(a, src, o) PROVE Sees'
  <2> DEFINE With(S, changes) ==
                LET fields == [i \in Field |-> IF i \in S THEN changes[i]
                                               ELSE heap[src].fields[i]] IN
                Begin(a, o, [Idle EXCEPT !.op = "replace", !.at = "filled", !.given = fields,
                                         !.should_untrack = Untracked(fields)], fields)
  <2>1. PICK S \in SUBSET Field : \E changes \in [S -> Value] : With(S, changes)
    BY <1>6 DEF Replace
  <2>2. PICK changes \in [S -> Value] : With(S, changes)
    BY <2>1
  <2> DEFINE fields == [i \in Field |-> IF i \in S THEN changes[i] ELSE heap[src].fields[i]]
             frame == [Idle EXCEPT !.op = "replace", !.at = "filled", !.given = fields,
                                   !.should_untrack = Untracked(fields)]
  <2>3. fields \in [Field -> Value \cup {NoValue}]
    BY <1>0 DEF Typed, TypeOK, Instance
  <2>4. Begin(a, o, frame, fields)
    BY <2>2
  <2> HIDE DEF fields
  <2>5. frame \in Frame
    BY <2>3, <1>0, ZenonT(60) DEF Frame, Idle, Op, Stage, Untracked
  <2>6. frame.op = "replace" /\ frame.at = "filled" /\ frame.should_untrack = Untracked(fields)
    BY DEF Idle
  <2> HIDE DEF frame
  <2> QED BY <1>0, <2>4, <2>5, <2>6, UntrackedUnseen, BeginSees DEF Making, Filling
<1>7. ASSUME NEW src \in Object, Rebuild(a, src, o) PROVE Sees'
  <2> DEFINE fields == heap[src].fields
             at == IF Reduced <= cls.nfields - cls.nkwonly THEN "filled" ELSE "refused"
             frame == [Idle EXCEPT !.op = "init", !.given = fields, !.size = Reduced, !.at = at,
                                   !.should_untrack = Untracked(fields)]
  <2>1. fields \in [Field -> Value \cup {NoValue}] /\ Reduced \in Nat
    BY <1>0, Defaults DEF Typed, TypeOK, Instance, Reduced
  <2>2. Begin(a, o, frame, fields)
    BY <1>7 DEF Rebuild
  <2>3. at \in {"filled", "refused"}
    OBVIOUS
  <2> HIDE DEF fields, at
  <2>4. frame \in Frame
    BY <2>1, <2>3, <1>0, ZenonT(60) DEF Frame, Idle, Op, Stage, Untracked
  <2>5. frame.op = "init" /\ frame.at = at /\ frame.should_untrack = Untracked(fields)
    BY DEF Idle
  <2> HIDE DEF frame
  <2> QED BY <1>0, <2>2, <2>3, <2>4, <2>5, UntrackedUnseen, BeginSees DEF Making, Filling
<1>8. ASSUME NEW src \in Object, Copy(a, src, o) PROVE Sees'
  <2>1. /\ heap \in [Object -> Instance] /\ call' = call /\ cls' = cls
        /\ tupleTracked' = tupleTracked /\ heap' = [heap EXCEPT ![o] = Copied(src)]
        /\ exposed \subseteq exposed'
        /\ (src \notin exposed /\ ~Pending(src)) \/ o \in exposed'
        /\ heap[src].life # "free"
    BY <1>0, <1>8 DEF Copy, Typed, TypeOK, Visible
  <2>2. ASSUME NEW p \in Object PROVE SeenBy(p, heap[p])'
    <3>1. CASE p # o
      <4>1. heap'[p] = heap[p] /\ SeenBy(p, heap[p])
        BY <2>1, <3>1 DEF Sees
      <4> QED BY <2>1, <4>1 DEF SeenBy, MaybeTracked, Field, Stores, At
    <3>2. CASE p = o /\ o \notin exposed'
      <4>1. SeenBy(src, heap[src]) /\ src \notin exposed
            /\ \A v : \A b \in Actor : ~Stores(b, src, v)
        BY <2>1, <3>2 DEF Sees, Stores, Pending
      <4>2. heap[src].tracked \/ \A j \in Field : ~MaybeTracked(heap[src].fields[j])
        BY <2>1, <4>1 DEF SeenBy
      <4>3. Copied(src).tracked = heap[src].tracked /\ Copied(src).fields = heap[src].fields
        BY DEF Copied, Alloc
      <4>4. heap'[o] = Copied(src)
        BY <2>1
      <4> QED BY <2>1, <3>2, <4>2, <4>3, <4>4 DEF SeenBy, MaybeTracked, Field
    <3> QED BY <3>1, <3>2 DEF SeenBy
  <2>3. ASSUME NEW b \in Actor, Makes(b)'
        PROVE  Makes(b) /\ heap'[call[b].obj] = heap[call[b].obj] /\ call[b].obj \in Object
    <3>1. Makes(b) /\ Shape(call[b])
      BY <1>0, <2>1, <2>3 DEF Makes, Typed
    <3>2. call[b].at \in Early \cup {"running", "refused", "failed"} /\ call[b].obj \in Object
      BY <3>1 DEF Shape, Makes, Making
    <3>3. heap[call[b].obj].life \in {"new", "shown"}
      BY <3>1, <3>2 DEF Sees, OwnedBy
    <3> QED BY <1>0, <2>1, <3>1, <3>2, <3>3
  <2>4. ASSUME NEW b \in Actor, Makes(b)'
        PROVE  /\ Makes(b) /\ call'[b] = call[b] /\ heap'[call[b].obj] = heap[call[b].obj]
               /\ call[b].obj \in exposed => call[b].obj \in exposed'
    BY <2>1, <2>3, <2>4
  <2> QED BY <2>1, <2>2, <2>4, RestStep
<1> QED BY <1>1, <1>3, <1>4, <1>5, <1>6, <1>7, <1>8 DEF Begins

(* Storing a field of an instance nobody has seen, which is tracked. *)
LEMMA StoreSees ==
    ASSUME Sees, Typed', NEW a \in Actor, Makes(a), call[a].at \in Filling,
           NEW i \in Field, NEW v \in Value, NEW f,
           f.op = call[a].op, f.obj = call[a].obj, f.at = call[a].at,
           f.should_untrack =>
              \A j \in Scanned(f) :
                 /\ j = i => ~MaybeTracked(v)
                 /\ j # i => call[a].should_untrack /\ j \in Scanned(call[a]),
           call' = [call EXCEPT ![a] = f],
           heap' = [heap EXCEPT ![call[a].obj].fields[i] = v],
           cls' = cls, tupleTracked' = tupleTracked, exposed' = exposed
    PROVE  Sees'
<1> DEFINE o == call[a].obj
           h == [heap[o] EXCEPT !.fields[i] = v]
<1>1. o \in Object /\ heap[o] \in Instance /\ heap[o].fields \in [Field -> Value \cup {NoValue}]
      /\ OwnedBy(call[a], heap[o]) /\ CountedBy(call[a], heap[o])
  BY DEF Sees, Typed, TypeOK, Shape, Makes, Making, Instance
<1>2. /\ h.life = heap[o].life /\ h.tracked = heap[o].tracked
      /\ h.fields[i] = v /\ \A j \in Field : j # i => h.fields[j] = heap[o].fields[j]
  BY <1>1 DEF Instance
<1>3. heap' = [heap EXCEPT ![o] = h]
  OBVIOUS
<1> HIDE DEF h
<1>4. heap[o].tracked
  BY <1>1 DEF OwnedBy
<1>5. SeenBy(o, h)
  BY <1>2, <1>4 DEF SeenBy
<1>6. OwnedBy(f, h)
  BY <1>1, <1>2 DEF OwnedBy
<1>7. CountedBy(f, h)
  <2> SUFFICES ASSUME f.should_untrack, o \notin exposed, NEW j \in Scanned(f)
               PROVE  ~MaybeTracked(h.fields[j])
    BY DEF CountedBy
  <2>1. CASE j = i
    BY <1>2, <2>1
  <2>2. CASE j # i
    <3>1. call[a].should_untrack /\ j \in Scanned(call[a]) /\ j \in Field
      BY <2>2 DEF Scanned
    <3>2. ~MaybeTracked(heap[o].fields[j])
      BY <1>1, <3>1 DEF CountedBy
    <3> QED BY <1>2, <2>2, <3>1, <3>2
  <2> QED BY <2>1, <2>2
<1>8. f.op # "setattr"
  BY DEF Makes, Making
<1> QED BY <1>3, <1>5, <1>6, <1>7, <1>8, OwnStep

LEMMA FillSees ==
    ASSUME Sees, Typed', NEW a \in Actor, Makes(a), call[a].at \in Filling,
           NEW i \in Field, NEW v \in Value, NEW next \in Frame, Fill(a, i, v, next),
           next.op = call[a].op, next.obj = call[a].obj, next.at = call[a].at,
           next.should_untrack = call[a].should_untrack,
           Scanned(next) \subseteq Scanned(call[a]) \cup {i}
    PROVE  Sees'
<1> DEFINE u == call[a].should_untrack /\ ~MaybeTracked(v)
           f == [next EXCEPT !.should_untrack = u]
<1>1. /\ f.op = next.op /\ f.obj = next.obj /\ f.at = next.at /\ f.i = next.i
      /\ f.should_untrack = u
  BY DEF Frame
<1>2. call' = [call EXCEPT ![a] = f] /\ heap' = [heap EXCEPT ![call[a].obj].fields[i] = v]
      /\ cls' = cls /\ tupleTracked' = tupleTracked /\ exposed' = exposed
  BY DEF Fill
<1>3. u <=> call[a].should_untrack /\ ~MaybeTracked(v)
  OBVIOUS
<1> HIDE DEF f, u
<1>4. Scanned(f) = Scanned(next)
  BY <1>1 DEF Scanned
<1> QED BY <1>1, <1>2, <1>3, <1>4, StoreSees

LEMMA FillsSees ==
    ASSUME Sees, Typed', NEW a \in Actor, Fills(a)
    PROVE  Sees'
<1>0. /\ Typed /\ cls \in Class /\ call[a] \in Frame /\ Shape(call[a])
      /\ call[a].i \in Nat
  BY DEF Sees, Typed, TypeOK, Frame
<1>1. /\ call[a].at \in {"keywords", "items", "defaults"}
      /\ call[a].op \in {"init", "map", "array", "seq", "attrs"}
      /\ Makes(a) /\ call[a].at \in Filling /\ call[a].obj \in Object
  BY <1>0 DEF Fills, Keyword, KeywordsEnd, FillMissing, MapItem, MapUnknown, MapEnd,
              FillInDefaults, ArrayItem, ArrayEnd, SeqEnd, ArrayDefault, Attribute, At, Makes,
              Making, Shape, Filling
<1>2. /\ OwnedBy(call[a], heap[call[a].obj]) /\ CountedBy(call[a], heap[call[a].obj])
      /\ heap[call[a].obj].life = "new" /\ heap[call[a].obj].tracked
  BY <1>1 DEF Sees, OwnedBy, Filling, Early
<1>3. ASSUME NEW f, Quietly, call' = [call EXCEPT ![a] = f],
             f.op = call[a].op, f.obj = call[a].obj,
             \/ f.at = "refused"
             \/ /\ f.at \in Filling /\ f.should_untrack = call[a].should_untrack
                /\ Scanned(f) \subseteq Scanned(call[a])
      PROVE  Sees'
  <2>1. OwnedBy(f, heap[f.obj])
    BY <1>2, <1>3 DEF OwnedBy, Filling, Early
  <2>2. CountedBy(f, heap[f.obj])
    BY <1>1, <1>2, <1>3 DEF CountedBy, Filling
  <2> QED BY <1>1, <1>3, <2>1, <2>2, GoStep
<1>4. ASSUME NEW i \in Field, NEW v \in Value, NEW next \in Frame, Fill(a, i, v, next),
             next.op = call[a].op, next.obj = call[a].obj, next.at = call[a].at,
             next.should_untrack = call[a].should_untrack,
             call[a].op # "map" \/ (next.i <= call[a].i + 1 /\ i = call[a].i)
      PROVE  Sees'
  <2>1. Scanned(next) \subseteq Scanned(call[a]) \cup {i}
    BY <1>0, <1>4, Defaults DEF Scanned, Frame, Field
  <2> QED BY <1>1, <1>4, <2>1, FillSees
<1>5. CASE Keyword(a)
  <2>1. PICK i \in (Field \cup {0}) \ call[a].seen, v \in Value :
          IF i > call[a].size
          THEN Fill(a, i, v, [call[a] EXCEPT !.seen = @ \cup {i}, !.given[i] = v])
          ELSE /\ call' = [call EXCEPT ![a].at = "refused", ![a].wrong = TRUE]
               /\ Quietly
    BY <1>5 DEF Keyword
  <2>2. CASE i > call[a].size
    <3>1. i \in Field
      BY <1>0, <2>2 DEF Frame
    <3> DEFINE next == [call[a] EXCEPT !.seen = @ \cup {i}, !.given[i] = v]
    <3>2. next \in Frame
      BY <1>0, <3>1 DEF Frame
    <3>3. /\ next.op = call[a].op /\ next.obj = call[a].obj /\ next.at = call[a].at
          /\ next.should_untrack = call[a].should_untrack /\ call[a].op # "map"
      BY <1>0, <1>5 DEF Frame, Keyword, At
    <3>4. Fill(a, i, v, next)
      BY <2>1, <2>2
    <3> HIDE DEF next
    <3> QED BY <1>4, <3>1, <3>2, <3>3, <3>4
  <2>3. CASE ~(i > call[a].size)
    <3> DEFINE f == [call[a] EXCEPT !.at = "refused", !.wrong = TRUE]
    <3>1. f.op = call[a].op /\ f.obj = call[a].obj /\ f.at = "refused"
      BY <1>0 DEF Frame
    <3>2. call' = [call EXCEPT ![a] = f] /\ Quietly
      BY <2>1, <2>3
    <3> HIDE DEF f
    <3> QED BY <1>3, <3>1, <3>2
  <2> QED BY <2>2, <2>3
<1>6. CASE KeywordsEnd(a)
  <2> DEFINE at == IF call[a].size + Cardinality(call[a].seen) < cls.nfields
                   THEN "defaults" ELSE "filled"
             f == [call[a] EXCEPT !.i = call[a].size + 1, !.at = at]
  <2>1. at \in {"defaults", "filled"} /\ call[a].op = "init"
    BY <1>6 DEF KeywordsEnd, At
  <2>2. call' = [call EXCEPT ![a] = f] /\ Quietly
    BY <1>6 DEF KeywordsEnd
  <2> HIDE DEF at
  <2>3. /\ f.op = call[a].op /\ f.obj = call[a].obj /\ f.at = at
        /\ f.should_untrack = call[a].should_untrack
    BY <1>0 DEF Frame
  <2> HIDE DEF f
  <2>4. Scanned(f) \subseteq Scanned(call[a])
    BY <2>1, <2>3 DEF Scanned
  <2> QED BY <1>3, <2>1, <2>2, <2>3, <2>4 DEF Filling
<1>7. ASSUME FillMissing(a) \/ FillInDefaults(a) PROVE Sees'
  <2> DEFINE i == call[a].i
             next == [call[a] EXCEPT !.i = @ + 1]
             refused == [call[a] EXCEPT !.at = "refused"]
             val == heap[call[a].obj].fields[i]
  <2>1. i \in Field /\ next \in Frame
    BY <1>0, <1>7, FrameNext DEF FillMissing, FillInDefaults
  <2>2. /\ next.op = call[a].op /\ next.obj = call[a].obj /\ next.at = call[a].at
        /\ next.should_untrack = call[a].should_untrack /\ next.i = i + 1
        /\ refused.op = call[a].op /\ refused.obj = call[a].obj /\ refused.at = "refused"
    BY <1>0, FrameNext, FrameMoved
  <2>3. \/ call' = [call EXCEPT ![a] = next] /\ Quietly /\ call[a].op = "init"
        \/ val # NoValue /\ Fill(a, i, val, next)
        \/ DefaultOf(i) # NODEFAULT /\ Fill(a, i, DefaultOf(i), next)
        \/ call' = [call EXCEPT ![a] = refused] /\ Quietly
    BY <1>7 DEF FillMissing, FillInDefaults, Goto, At
  <2>4. val \in Value \cup {NoValue}
    BY <1>0, <1>1, <2>1 DEF Typed, TypeOK, Instance
  <2>5. DefaultOf(i) \in Value \cup {NODEFAULT}
    BY <1>0, <2>1, Defaults
  <2> HIDE DEF next, refused, val
  <2>6. ASSUME NEW v \in Value, Fill(a, i, v, next) PROVE Sees'
    <3>1. next.i <= call[a].i + 1
      BY <1>0, <2>2
    <3> QED BY <1>4, <2>1, <2>2, <2>6, <3>1
  <2>7. ASSUME call' = [call EXCEPT ![a] = next], Quietly, call[a].op = "init" PROVE Sees'
    <3>1. Scanned(next) \subseteq Scanned(call[a])
      BY <2>2, <2>7 DEF Scanned
    <3> QED BY <1>1, <1>3, <2>2, <2>7, <3>1
  <2>8. ASSUME call' = [call EXCEPT ![a] = refused], Quietly PROVE Sees'
    BY <1>3, <2>2, <2>8
  <2> QED BY <2>3, <2>4, <2>5, <2>6, <2>7, <2>8
<1>8. CASE MapItem(a)
  <2>1. PICK i \in Field, v \in Value :
          Set(a, i, v, [call[a] EXCEPT !.size = @ + 1, !.given[i] = v])
    BY <1>8 DEF MapItem
  <2> DEFINE f == [call[a] EXCEPT !.size = @ + 1, !.given[i] = v]
  <2>2. f.op = call[a].op /\ f.obj = call[a].obj /\ f.at = call[a].at
    BY <1>0 DEF Frame
  <2>3. call[a].op = "map" /\ call[a].at = "items"
    BY <1>8 DEF MapItem, At
  <2>4. call' = [call EXCEPT ![a] = f] /\ heap' = [heap EXCEPT ![call[a].obj].fields[i] = v]
        /\ cls' = cls /\ tupleTracked' = tupleTracked /\ exposed' = exposed
    BY <2>1 DEF Set
  <2> HIDE DEF f
  <2>5. Scanned(f) = {}
    BY <2>2, <2>3 DEF Scanned
  <2> QED BY <1>1, <2>2, <2>4, <2>5, StoreSees
<1>9. CASE MapUnknown(a)
  <2> DEFINE at == IF cls.forbid_unknown_fields THEN "refused" ELSE call[a].at
             f == [call[a] EXCEPT !.size = @ + 1,
                                  !.wrong = @ \/ cls.forbid_unknown_fields, !.at = at]
  <2>1. at \in {"refused", call[a].at}
    OBVIOUS
  <2>2. call' = [call EXCEPT ![a] = f] /\ Quietly
    BY <1>9 DEF MapUnknown
  <2> HIDE DEF at
  <2>3. /\ f.op = call[a].op /\ f.obj = call[a].obj /\ f.at = at /\ f.i = call[a].i
        /\ f.should_untrack = call[a].should_untrack
    BY <1>0 DEF Frame
  <2> HIDE DEF f
  <2>4. at # "refused" => Scanned(f) \subseteq Scanned(call[a])
    BY <2>1, <2>3 DEF Scanned
  <2> QED BY <1>1, <1>3, <2>1, <2>2, <2>3, <2>4
<1>10. CASE MapEnd(a)
  <2> DEFINE f == [call[a] EXCEPT !.at = "defaults", !.i = 1]
  <2>1. /\ f.op = call[a].op /\ f.obj = call[a].obj /\ f.at = "defaults" /\ f.i = 1
        /\ f.should_untrack = call[a].should_untrack
    BY <1>0 DEF Frame
  <2>2. call' = [call EXCEPT ![a] = f] /\ Quietly /\ call[a].op = "map"
    BY <1>10 DEF MapEnd, At
  <2> HIDE DEF f
  <2>3. Scanned(f) = {}
    BY <1>0, <2>1, <2>2, Defaults DEF Scanned, Field
  <2> QED BY <1>3, <2>1, <2>2, <2>3 DEF Filling
<1>11. ASSUME ArrayEnd(a) \/ SeqEnd(a) PROVE Sees'
  <2>1. PICK at \in {"refused", "defaults"} : Goto(a, at) /\ Quietly
    BY <1>11 DEF ArrayEnd, SeqEnd
  <2> DEFINE f == [call[a] EXCEPT !.at = at]
  <2>2. /\ f.op = call[a].op /\ f.obj = call[a].obj /\ f.at = at
        /\ f.should_untrack = call[a].should_untrack
    BY <1>0 DEF Frame
  <2>3. call' = [call EXCEPT ![a] = f] /\ call[a].op # "map"
    BY <1>11, <2>1 DEF Goto, ArrayEnd, SeqEnd, At
  <2> HIDE DEF f
  <2>4. Scanned(f) \subseteq Scanned(call[a])
    BY <2>2, <2>3 DEF Scanned
  <2> QED BY <1>3, <2>1, <2>2, <2>3, <2>4 DEF Filling
<1>12. ASSUME ArrayItem(a) \/ ArrayDefault(a) PROVE Sees'
  <2> DEFINE i == call[a].i
             next == [call[a] EXCEPT !.i = @ + 1]
  <2>1. PICK v \in Value : Fill(a, i, v, next)
    <3>1. CASE ArrayItem(a)
      <4>1. call[a].given[call[a].i] \in Value
        BY <1>0, <3>1 DEF ArrayItem, Frame, Shape
      <4> QED BY <3>1, <4>1 DEF ArrayItem
    <3>2. CASE ArrayDefault(a)
      BY <1>0, <3>2, Defaults DEF ArrayDefault, Shape
    <3> QED BY <1>12, <3>1, <3>2
  <2>2. i \in Field /\ call[a].op # "map" /\ next \in Frame
    <3>1. i \in Field /\ call[a].op # "map"
      BY <1>12 DEF ArrayItem, ArrayDefault
    <3>2. next \in Frame
      BY <1>0, FrameNext
    <3> QED BY <3>1, <3>2
  <2>3. /\ next.op = call[a].op /\ next.obj = call[a].obj /\ next.at = call[a].at
        /\ next.should_untrack = call[a].should_untrack
    BY <1>0 DEF Frame
  <2> HIDE DEF i, next
  <2> QED BY <1>4, <2>1, <2>2, <2>3
<1>13. CASE Attribute(a)
  <2> DEFINE i == call[a].i
             next == [call[a] EXCEPT !.i = @ + 1]
             refused == [call[a] EXCEPT !.at = "refused"]
  <2>1. i \in Field /\ call[a].op # "map"
    BY <1>13 DEF Attribute, At
  <2>2. ASSUME NEW v \in Value, NEW way \in {"name", "alias"},
               Fill(a, i, v, IF i \in cls.renamed
                             THEN [next EXCEPT !.given[i] = v, !.names = way,
                                               !.ways = @ \cup {way}]
                             ELSE [next EXCEPT !.given[i] = v])
        PROVE  Sees'
    <3> DEFINE found == [call[a] EXCEPT !.i = @ + 1, !.given[i] = v, !.names = way,
                                        !.ways = @ \cup {way}]
               stored == [call[a] EXCEPT !.i = @ + 1, !.given[i] = v]
    <3>1. found \in Frame /\ stored \in Frame
      BY <1>0, <2>1, FrameGiven
    <3>2. /\ found.op = call[a].op /\ found.obj = call[a].obj /\ found.at = call[a].at
          /\ found.should_untrack = call[a].should_untrack
          /\ stored.op = call[a].op /\ stored.obj = call[a].obj /\ stored.at = call[a].at
          /\ stored.should_untrack = call[a].should_untrack
      BY <1>0 DEF Frame
    <3>3. Fill(a, i, v, found) \/ Fill(a, i, v, stored)
      BY <2>2
    <3> HIDE DEF found, stored, i, next
    <3> QED BY <1>4, <2>1, <3>1, <3>2, <3>3
  <2>3. next \in Frame
    BY <1>0, FrameNext
  <2>4. /\ next.op = call[a].op /\ next.obj = call[a].obj /\ next.at = call[a].at
        /\ next.should_untrack = call[a].should_untrack
        /\ refused.op = call[a].op /\ refused.obj = call[a].obj /\ refused.at = "refused"
    BY <1>0, FrameNext, FrameMoved
  <2>5. ASSUME Fill(a, i, DefaultOf(i), next), DefaultOf(i) # NODEFAULT PROVE Sees'
    <3>1. DefaultOf(i) \in Value
      BY <1>0, <2>1, <2>5, Defaults
    <3> HIDE DEF i, next
    <3> QED BY <1>4, <2>1, <2>3, <2>4, <2>5, <3>1
  <2>6. ASSUME call' = [call EXCEPT ![a] = refused], Quietly PROVE Sees'
    <3> HIDE DEF refused
    <3> QED BY <1>3, <2>4, <2>6
  <2>7. \/ \E v \in Value, way \in {"name", "alias"} :
              Fill(a, i, v, IF i \in cls.renamed
                            THEN [next EXCEPT !.given[i] = v, !.names = way,
                                              !.ways = @ \cup {way}]
                            ELSE [next EXCEPT !.given[i] = v])
        \/ Fill(a, i, DefaultOf(i), next) /\ DefaultOf(i) # NODEFAULT
        \/ call' = [call EXCEPT ![a] = refused] /\ Quietly
    BY <1>13 DEF Attribute, Has, Goto
  <2> QED BY <2>2, <2>5, <2>6, <2>7
<1> QED BY <1>5, <1>6, <1>7, <1>8, <1>9, <1>10, <1>11, <1>12, <1>13 DEF Fills

LEMMA EndsSees ==
    ASSUME Sees, Typed', NEW a \in Actor, Ends(a)
    PROVE  Sees'
<1> DEFINE c == call[a]
           o == call[a].obj
<1>0. /\ Typed /\ cls \in Class /\ c \in Frame /\ Shape(c) /\ c.i \in Nat /\ c.op \in Op
      /\ heap \in [Object -> Instance] /\ call \in [Actor -> Frame]
  BY DEF Sees, Typed, TypeOK, Frame
<1>1. c.at \notin {"none", "track", "fields"}
  BY DEF Ends, Filled, Decide, CheckTypes, PostInit, Return, Fails, Drop, At
<1>2. Makes(a) /\ o \in Object
  BY <1>0, <1>1 DEF Makes, Making, Shape, Op
<1>3. /\ OwnedBy(c, heap[o]) /\ CountedBy(c, heap[o]) /\ SeenBy(o, heap[o])
      /\ heap[o] \in Instance
  BY <1>0, <1>2 DEF Sees
<1>4. ASSUME NEW at, Goto(a, at), Quietly,
             OwnedBy([c EXCEPT !.at = at], heap[o]), CountedBy([c EXCEPT !.at = at], heap[o])
      PROVE  Sees'
  <2> DEFINE f == [c EXCEPT !.at = at]
  <2>1. f.op = c.op /\ f.obj = o
    BY <1>0, FrameMoved
  <2>2. call' = [call EXCEPT ![a] = f]
    BY <1>4 DEF Goto
  <2>3. OwnedBy(f, heap[f.obj]) /\ CountedBy(f, heap[f.obj])
    BY <1>4, <2>1
  <2> HIDE DEF f
  <2> QED BY <1>2, <1>4, <2>1, <2>2, <2>3, GoStep
<1>5. CASE Filled(a)
  <2>1. PICK at \in {"refused", "filled"} : Goto(a, at) /\ Quietly
    BY <1>5 DEF Filled
  <2>2. c.at = "defaults" \/ (c.op = "attrs" /\ c.at = "items")
    BY <1>5 DEF Filled, At
  <2>3. Field \subseteq Scanned(c)
    BY <1>0, <1>5, <2>2, Defaults DEF Filled, Scanned, Field, Shape
  <2>4. OwnedBy([c EXCEPT !.at = at], heap[o])
    BY <1>0, <1>3, <2>2, FrameMoved DEF OwnedBy, Filling, Early
  <2>5. CountedBy([c EXCEPT !.at = at], heap[o])
    <3>1. c.should_untrack => o \in exposed \/ \A j \in Field : ~MaybeTracked(heap[o].fields[j])
      BY <1>3, <2>2, <2>3 DEF CountedBy, Filling
    <3> QED BY <1>0, <3>1, FrameMoved DEF CountedBy, Scanned
  <2> QED BY <1>4, <2>1, <2>4, <2>5
<1>6. CASE CheckTypes(a)
  <2>1. PICK at \in {"post", "failed"} : Goto(a, at) /\ Quietly
    BY <1>6 DEF CheckTypes
  <2>2. c.at = "check" /\ c.op = "init"
    BY <1>0, <1>6 DEF CheckTypes, Shape
  <2>3. OwnedBy([c EXCEPT !.at = at], heap[o])
    BY <1>0, <1>3, <2>2, FrameMoved DEF OwnedBy, Filling, Early
  <2>4. CountedBy([c EXCEPT !.at = at], heap[o])
    BY <1>0, <2>2, FrameMoved DEF CountedBy, Filling, Late
  <2> QED BY <1>4, <2>1, <2>3, <2>4
<1>7. CASE Fails(a)
  <2>1. Goto(a, "failed") /\ Quietly /\ c.at \in {"items", "defaults", "running"}
    BY <1>7 DEF Fails
  <2>2. OwnedBy([c EXCEPT !.at = "failed"], heap[o])
    BY <1>0, <1>3, <2>1, FrameMoved DEF OwnedBy, Filling, Early
  <2>3. CountedBy([c EXCEPT !.at = "failed"], heap[o])
    BY <1>0, FrameMoved DEF CountedBy, Filling
  <2> QED BY <1>4, <2>1, <2>2, <2>3
<1>8. CASE Decide(a)
  <2> DEFINE tracked == heap[o].tracked /\ ~(c.should_untrack /\ ~Late(c.op))
             h == [heap[o] EXCEPT !.tracked = tracked]
             at == IF c.op = "init" /\ cls.check_types_on_init THEN "check" ELSE "post"
             f == [c EXCEPT !.at = at]
  <2>1. /\ c.at = "filled" /\ heap' = [heap EXCEPT ![o] = h] /\ call' = [call EXCEPT ![a] = f]
        /\ cls' = cls /\ tupleTracked' = tupleTracked /\ exposed' = exposed
    BY <1>8 DEF Decide, Goto
  <2>2. at \in {"check", "post"}
    OBVIOUS
  <2>3. tracked <=> heap[o].tracked /\ ~(c.should_untrack /\ ~Late(c.op))
    OBVIOUS
  <2> HIDE DEF at, tracked
  <2>4. f.op = c.op /\ f.obj = o /\ f.at = at /\ f.should_untrack = c.should_untrack
    BY <1>0, FrameMoved
  <2>5. h.life = heap[o].life /\ h.fields = heap[o].fields /\ h.tracked = tracked
    BY <1>3 DEF Instance
  <2> HIDE DEF f, h
  <2>6. heap[o].life = "new" /\ heap[o].tracked
    BY <1>3, <2>1 DEF OwnedBy, Early, Filling
  <2>7. c.should_untrack => o \in exposed \/ \A j \in Field : ~MaybeTracked(heap[o].fields[j])
    BY <1>3, <2>1 DEF CountedBy, Filling, Scanned
  <2>8. SeenBy(o, h)
    BY <2>3, <2>5, <2>6, <2>7 DEF SeenBy
  <2>9. OwnedBy(f, h)
    BY <2>2, <2>4, <2>5, <2>6 DEF OwnedBy, Filling
  <2>10. CountedBy(f, h)
    BY <2>4, <2>5, <2>7 DEF CountedBy, Scanned
  <2>11. f.op # "setattr"
    BY <1>2, <2>4 DEF Makes, Making
  <2> QED BY <1>2, <2>1, <2>4, <2>8, <2>9, <2>10, <2>11, OwnStep
<1>9. CASE PostInit(a)
  <2> DEFINE h == [heap[o] EXCEPT !.life = "shown"]
             f == [c EXCEPT !.at = "running"]
  <2>1. /\ c.at = "post" /\ heap' = [heap EXCEPT ![o] = h] /\ call' = [call EXCEPT ![a] = f]
        /\ cls' = cls /\ tupleTracked' = tupleTracked /\ exposed' = exposed
    BY <1>9 DEF PostInit, Goto
  <2>2. f.op = c.op /\ f.obj = o /\ f.at = "running" /\ f.should_untrack = c.should_untrack
    BY <1>0, FrameMoved
  <2>3. h.life = "shown" /\ h.fields = heap[o].fields /\ h.tracked = heap[o].tracked
    BY <1>3 DEF Instance
  <2> HIDE DEF f, h
  <2>4. heap[o].life = "new"
    BY <1>3, <2>1 DEF OwnedBy, Early
  <2>5. SeenBy(o, h)
    BY <1>3, <2>3, <2>4 DEF SeenBy
  <2>6. OwnedBy(f, h)
    BY <2>2, <2>3 DEF OwnedBy, Filling, Early
  <2>7. CountedBy(f, h)
    BY <1>3, <2>1, <2>2, <2>3 DEF CountedBy, Scanned, Filling
  <2>8. f.op # "setattr"
    BY <1>2, <2>2 DEF Makes, Making
  <2> QED BY <1>2, <2>1, <2>2, <2>5, <2>6, <2>7, <2>8, OwnStep
<1>10. CASE Return(a)
  <2> DEFINE tracked == heap[o].tracked /\ ~(c.should_untrack /\ Late(c.op))
             h == [heap[o] EXCEPT !.life = "live", !.tracked = tracked]
  <2>1. /\ c.at \in {"post", "running"} /\ heap' = [heap EXCEPT ![o] = h]
        /\ call' = [call EXCEPT ![a] = Idle]
        /\ cls' = cls /\ tupleTracked' = tupleTracked /\ exposed' = exposed
    BY <1>10 DEF Return
  <2>2. tracked <=> heap[o].tracked /\ ~(c.should_untrack /\ Late(c.op))
    OBVIOUS
  <2> HIDE DEF tracked
  <2>3. h.life = "live" /\ h.fields = heap[o].fields /\ h.tracked = tracked
    BY <1>3 DEF Instance
  <2> HIDE DEF h
  <2>4. heap[o].life # "free"
    BY <1>3, <2>1 DEF OwnedBy, Early
  <2>5. c.should_untrack /\ Late(c.op) =>
            o \in exposed \/ \A j \in Field : ~MaybeTracked(heap[o].fields[j])
    BY <1>3, <2>1 DEF CountedBy, Scanned
  <2>6. SeenBy(o, h)
    BY <1>3, <2>2, <2>3, <2>4, <2>5 DEF SeenBy
  <2>7. Idle.op \notin Making /\ Idle.op # "setattr"
    BY DEF Idle, Making
  <2> QED BY <1>2, <2>1, <2>6, <2>7, OwnStep
<1>11. CASE Drop(a)
  <2>1. /\ call' = [call EXCEPT ![a] = Idle] /\ cls' = cls /\ tupleTracked' = tupleTracked
        /\ \A p \in Object : p # o => heap'[p] = heap[p] /\ (p \in exposed <=> p \in exposed')
        /\ \/ heap'[o] = Free
           \/ /\ heap[o].life = "shown" /\ exposed' = exposed
              /\ heap'[o] = [heap[o] EXCEPT !.life = "live"]
    BY <1>0, <1>2, <1>11 DEF Drop
  <2>2. \A b \in Actor : call'[b] = IF b = a THEN Idle ELSE call[b]
    BY <1>0, <2>1
  <2>3. ASSUME NEW p \in Object, NEW v, NEW b \in Actor, Stores(b, p, v)
        PROVE  Stores(b, p, v)'
    BY <1>2, <2>2, <2>3 DEF Stores, At, Makes, Making
  <2>4. ASSUME NEW p \in Object PROVE SeenBy(p, heap[p])'
    <3>1. CASE p # o
      <4>1. heap'[p] = heap[p] /\ SeenBy(p, heap[p]) /\ (p \in exposed <=> p \in exposed')
        BY <2>1, <3>1 DEF Sees
      <4> QED BY <2>1, <2>3, <4>1 DEF SeenBy, MaybeTracked, Field
    <3>2. CASE p = o /\ heap'[o] = Free
      BY <3>2 DEF SeenBy, Free
    <3>3. CASE /\ p = o /\ heap[o].life = "shown" /\ exposed' = exposed
               /\ heap'[o] = [heap[o] EXCEPT !.life = "live"]
      <4>1. heap'[p].fields = heap[p].fields /\ heap'[p].tracked = heap[p].tracked
            /\ SeenBy(p, heap[p]) /\ heap[p].life # "free"
        BY <1>3, <3>3 DEF Instance
      <4> QED BY <2>1, <2>3, <3>3, <4>1 DEF SeenBy, MaybeTracked, Field
    <3> QED BY <2>1, <3>1, <3>2, <3>3
  <2>5. ASSUME NEW b \in Actor, Makes(b)'
        PROVE  /\ Makes(b) /\ call'[b] = call[b] /\ heap'[call[b].obj] = heap[call[b].obj]
               /\ call[b].obj \in exposed => call[b].obj \in exposed'
    <3>1. b # a /\ Makes(b) /\ call'[b] = call[b]
      BY <2>2, <2>5 DEF Makes, Making, Idle
    <3>2. call[b].obj # o /\ call[b].obj \in Object
      BY <1>0, <1>2, <3>1 DEF Sees, Apart, Typed, Shape, Makes, Making
    <3> QED BY <2>1, <3>1, <3>2
  <2> QED BY <2>1, <2>4, <2>5, RestStep
<1> QED BY <1>5, <1>6, <1>7, <1>8, <1>9, <1>10, <1>11 DEF Ends

(* What making calls there are when a call of another kind goes on. *)
LEMMA OthersKept ==
    ASSUME Sees, NEW a \in Actor, ~Makes(a), NEW f, f.op \notin Making,
           call' = [call EXCEPT ![a] = f], NEW b \in Actor, Makes(b)'
    PROVE  /\ Makes(b) /\ call'[b] = call[b] /\ call[b].obj \in Object
           /\ heap[call[b].obj].life \in {"new", "shown"}
<1>1. call \in [Actor -> Frame] /\ \A d \in Actor : Shape(call[d])
  BY DEF Sees, Typed, TypeOK
<1>2. Makes(b) /\ call'[b] = call[b]
  BY <1>1 DEF Makes
<1>3. call[b].at \in Early \cup {"running", "refused", "failed"} /\ call[b].obj \in Object
  BY <1>1, <1>2 DEF Shape, Makes, Making
<1> QED BY <1>2, <1>3 DEF Sees, OwnedBy

LEMMA UsesSees ==
    ASSUME Sees, Typed', NEW a \in Actor, NEW o \in Object, Uses(a, o)
    PROVE  Sees'
<1>0. /\ Typed /\ heap \in [Object -> Instance] /\ call \in [Actor -> Frame]
      /\ heap[o] \in Instance /\ heap[o].fields \in [Field -> Value \cup {NoValue}]
      /\ call[a].op = "none" /\ ~Makes(a) /\ call = [call EXCEPT ![a] = call[a]]
  BY DEF Sees, Typed, TypeOK, Uses, SetAttr, DelAttr, ObjectSetAttr, Hash, Makes, Making,
         Instance
<1>1. \A p \in Object : SeenBy(p, heap[p])
  BY DEF Sees
<1>2. CASE SetAttr(a, o)
  <2>1. PICK i \in Field, v \in Value :
          /\ heap' = [heap EXCEPT ![o].fields[i] = v]
          /\ call' = [call EXCEPT ![a] = [Idle EXCEPT !.op = "setattr", !.at = "track",
                                                      !.obj = o, !.value = v]]
          /\ exposed' = IF WillUntrack(o) /\ MaybeTracked(v) THEN exposed \cup {o} ELSE exposed
    BY <1>2 DEF SetAttr
  <2>2. cls' = cls /\ tupleTracked' = tupleTracked /\ heap[o].life \in {"shown", "live"}
    BY <1>2 DEF SetAttr, Visible
  <2> DEFINE f == [Idle EXCEPT !.op = "setattr", !.at = "track", !.obj = o, !.value = v]
  <2>3. f.op = "setattr" /\ f.at = "track" /\ f.obj = o /\ f.value = v
    BY DEF Idle
  <2>4. call' = [call EXCEPT ![a] = f]
    BY <2>1
  <2> HIDE DEF f
  <2>5. /\ \A p \in Object : p # o => heap'[p] = heap[p]
        /\ heap'[o].life = heap[o].life /\ heap'[o].tracked = heap[o].tracked
        /\ \A j \in Field : heap'[o].fields[j] = IF j = i THEN v ELSE heap[o].fields[j]
    BY <1>0, <2>1 DEF Instance
  <2>6. \A b \in Actor : call'[b] = IF b = a THEN f ELSE call[b]
    BY <1>0, <2>4
  <2>7. ASSUME NEW p \in Object, NEW w, NEW b \in Actor, Stores(b, p, w)
        PROVE  Stores(b, p, w)'
    BY <1>0, <2>6, <2>7 DEF Stores, At
  <2>8. Stores(a, o, v)'
    BY <2>3, <2>6 DEF Stores, At
  <2>9. ASSUME NEW p \in Object PROVE SeenBy(p, heap[p])'
    <3>1. CASE p # o
      <4>1. heap'[p] = heap[p] /\ SeenBy(p, heap[p]) /\ exposed \subseteq exposed'
        BY <1>1, <2>1, <2>5, <3>1
      <4> QED BY <2>2, <2>7, <4>1 DEF SeenBy, MaybeTracked, Field
    <3>2. CASE p = o
      <4>1. SeenBy(o, heap[o]) /\ exposed \subseteq exposed' /\ heap[o].life # "free"
        BY <1>1, <2>1, <2>2
      <4>2. SUFFICES ASSUME ~heap[o].tracked, o \notin exposed, NEW j \in Field,
                            MaybeTracked(heap'[o].fields[j])
                     PROVE  \E b \in Actor : Stores(b, o, heap[o].fields[j])'
        BY <2>2, <2>5, <3>2, <4>1 DEF SeenBy, MaybeTracked, Field
      <4>3. CASE j = i
        <5>1. heap'[o].fields[j] = v
          BY <2>5, <4>3
        <5> QED BY <2>8, <5>1 DEF Stores
      <4>4. CASE j # i
        <5>1. heap'[o].fields[j] = heap[o].fields[j]
          BY <2>5, <4>4
        <5>2. PICK b \in Actor : Stores(b, o, heap[o].fields[j])
          BY <4>1, <4>2, <5>1 DEF SeenBy
        <5>3. Stores(b, o, heap[o].fields[j])'
          BY <1>0, <2>6, <5>1, <5>2 DEF Stores, At
        <5> QED BY <5>3
      <4> QED BY <4>3, <4>4
    <3> QED BY <3>1, <3>2
  <2>10. ASSUME NEW b \in Actor, Makes(b)'
         PROVE  /\ Makes(b) /\ call'[b] = call[b] /\ call[b].obj \in Object
                /\ heap[call[b].obj].life \in {"new", "shown"}
    BY <1>0, <2>3, <2>4, <2>10, OthersKept DEF Making
  <2>11. ASSUME NEW b \in Actor, Makes(b)', call[b].obj = o
         PROVE  /\ heap[o].life = "shown" /\ heap'[o].life = "shown"
                /\ \/ o \in exposed'
                   \/ /\ o \notin exposed
                      /\ \/ ~WillUntrack(o)
                         \/ \A j \in Field : MaybeTracked(heap'[o].fields[j]) =>
                                                MaybeTracked(heap[o].fields[j])
    BY <2>1, <2>2, <2>5, <2>10, <2>11
  <2>12. ASSUME NEW b \in Actor, Makes(b)', call[b].obj # o
         PROVE  /\ heap'[call[b].obj] = heap[call[b].obj]
                /\ call[b].obj \in exposed => call[b].obj \in exposed'
    BY <2>1, <2>5, <2>10, <2>12
  <2> QED BY <2>2, <2>9, <2>10, <2>11, <2>12, RestStep
<1>3. CASE DelAttr(a, o)
  <2>1. PICK i \in Field : heap' = [heap EXCEPT ![o].fields[i] = NoValue]
    BY <1>3 DEF DelAttr
  <2>2. /\ cls' = cls /\ tupleTracked' = tupleTracked /\ call' = call /\ exposed' = exposed
        /\ heap[o].life \in {"shown", "live"}
    BY <1>3 DEF DelAttr, Visible
  <2>3. /\ \A p \in Object : p # o => heap'[p] = heap[p]
        /\ heap'[o].life = heap[o].life /\ heap'[o].tracked = heap[o].tracked
        /\ \A j \in Field : heap'[o].fields[j] = IF j = i THEN NoValue ELSE heap[o].fields[j]
    BY <1>0, <2>1 DEF Instance
  <2>4. \A j \in Field : MaybeTracked(heap'[o].fields[j]) =>
            MaybeTracked(heap[o].fields[j]) /\ heap'[o].fields[j] = heap[o].fields[j]
    BY <1>0, <2>3, NoValueUnseen
  <2>5. ASSUME NEW p \in Object PROVE SeenBy(p, heap[p])'
    <3>1. CASE p # o
      <4>1. heap'[p] = heap[p] /\ SeenBy(p, heap[p])
        BY <1>1, <2>3, <3>1
      <4> QED BY <2>2, <4>1 DEF SeenBy, MaybeTracked, Field, Stores, At
    <3>2. CASE p = o
      <4>1. SeenBy(o, heap[o])
        BY <1>1
      <4> QED BY <2>2, <2>3, <2>4, <3>2, <4>1 DEF SeenBy, MaybeTracked, Field, Stores, At
    <3> QED BY <3>1, <3>2
  <2>6. ASSUME NEW b \in Actor, Makes(b)'
        PROVE  /\ Makes(b) /\ call'[b] = call[b] /\ call[b].obj \in Object
               /\ heap[call[b].obj].life \in {"new", "shown"}
    BY <1>0, <2>2, <2>6, OthersKept DEF Makes
  <2>7. ASSUME NEW b \in Actor, Makes(b)', call[b].obj = o
        PROVE  heap[o].life = "shown" /\ heap'[o].life = "shown"
    BY <2>2, <2>3, <2>6, <2>7
  <2>8. ASSUME NEW b \in Actor, Makes(b)', call[b].obj # o
        PROVE  heap'[call[b].obj] = heap[call[b].obj]
    BY <2>3, <2>6, <2>8
  <2> QED BY <2>2, <2>4, <2>5, <2>6, <2>7, <2>8, RestStep
<1>4. CASE ObjectSetAttr(a, o)
  <2>1. PICK i \in Field, v \in Value : heap' = [heap EXCEPT ![o].fields[i] = v]
    BY <1>4 DEF ObjectSetAttr
  <2>2. /\ cls' = cls /\ tupleTracked' = tupleTracked /\ call' = call
        /\ exposed' = exposed \cup {o} /\ heap[o].life = "shown"
    BY <1>4 DEF ObjectSetAttr
  <2>3. /\ \A p \in Object : p # o => heap'[p] = heap[p]
        /\ heap'[o].life = heap[o].life
    BY <1>0, <2>1 DEF Instance
  <2>4. ASSUME NEW p \in Object PROVE SeenBy(p, heap[p])'
    <3>1. CASE p # o
      <4>1. heap'[p] = heap[p] /\ SeenBy(p, heap[p])
        BY <1>1, <2>3, <3>1
      <4> QED BY <2>2, <4>1 DEF SeenBy, MaybeTracked, Field, Stores, At
    <3> QED BY <2>2, <3>1 DEF SeenBy
  <2>5. ASSUME NEW b \in Actor, Makes(b)'
        PROVE  /\ Makes(b) /\ call'[b] = call[b] /\ call[b].obj \in Object
               /\ heap[call[b].obj].life \in {"new", "shown"}
    BY <1>0, <2>2, <2>5, OthersKept DEF Makes
  <2>6. ASSUME NEW b \in Actor, Makes(b)', call[b].obj # o
        PROVE  heap'[call[b].obj] = heap[call[b].obj]
               /\ (call[b].obj \in exposed => call[b].obj \in exposed')
    BY <2>2, <2>3, <2>5, <2>6
  <2> QED BY <2>2, <2>3, <2>4, <2>5, <2>6, RestStep
<1>5. CASE Hash(a, o)
  <2>1. PICK f : call' = [call EXCEPT ![a] = f] /\ f.op \in {"none", "hash"}
    BY <1>0, <1>5, ZenonT(60) DEF Hash, Idle
  <2>2. cls' = cls /\ tupleTracked' = tupleTracked /\ heap' = heap /\ exposed' = exposed
    BY <1>5 DEF Hash
  <2>3. \A b \in Actor : call'[b] = IF b = a THEN f ELSE call[b]
    BY <1>0, <2>1
  <2>4. ASSUME NEW p \in Object PROVE SeenBy(p, heap[p])'
    <3>1. \A w : \A b \in Actor : Stores(b, p, w) => Stores(b, p, w)'
      BY <1>0, <2>3 DEF Stores, At
    <3> QED BY <1>1, <2>2, <3>1 DEF SeenBy, MaybeTracked, Field
  <2>5. ASSUME NEW b \in Actor, Makes(b)'
        PROVE  Makes(b) /\ call'[b] = call[b]
    BY <1>0, <2>1, <2>5, OthersKept DEF Making
  <2> QED BY <2>2, <2>4, <2>5, RestStep
<1> QED BY <1>2, <1>3, <1>4, <1>5 DEF Uses

LEMMA OthersSees ==
    ASSUME Sees, Typed', NEW a \in Actor, Track(a) \/ HashField(a) \/ HashEnds(a)
    PROVE  Sees'
<1> DEFINE o == call[a].obj
<1>0. /\ Typed /\ heap \in [Object -> Instance] /\ call \in [Actor -> Frame] /\ ~Makes(a)
      /\ o \in Object /\ heap[o] \in Instance /\ call[a].op \in {"setattr", "hash"}
      /\ call[a] \in Frame
  BY DEF Sees, Typed, TypeOK, Track, HashField, HashEnds, At, Makes, Making, Shape
<1>1. PICK f : call' = [call EXCEPT ![a] = f] /\ f.op \in {"none", "hash"}
  <2>1. Idle.op = "none"
    BY DEF Idle
  <2>2. CASE HashField(a)
    <3> DEFINE v == heap[o].fields[call[a].i]
               g == [call[a] EXCEPT !.i = @ + 1, !.acc = Append(@, v)]
    <3>1. call' = [call EXCEPT ![a] = Idle] \/ call' = [call EXCEPT ![a] = g]
      BY <2>2 DEF HashField
    <3>2. g.op = "hash"
      BY <1>0, <2>2 DEF HashField, At, Frame
    <3> HIDE DEF g
    <3> QED BY <2>1, <3>1, <3>2
  <2> QED BY <2>1, <2>2 DEF Track, HashEnds
<1>2. /\ cls' = cls /\ tupleTracked' = tupleTracked /\ exposed' = exposed
  BY DEF Track, HashField, HashEnds, Quietly
<1>3. /\ \A p \in Object : /\ heap'[p].life = heap[p].life /\ heap'[p].fields = heap[p].fields
                           /\ heap[p].tracked => heap'[p].tracked
      /\ Track(a) /\ MaybeTracked(call[a].value) => heap'[o].tracked
  <2>1. CASE Track(a)
    BY <1>0, <2>1 DEF Track, Instance
  <2>2. CASE HashField(a)
    BY <1>0, <2>2 DEF HashField, Quietly, At, Track
  <2>3. CASE HashEnds(a)
    BY <1>0, <2>3 DEF HashEnds, Instance, At, Track
  <2> QED BY <2>1, <2>2, <2>3
<1>4. \A b \in Actor : call'[b] = IF b = a THEN f ELSE call[b]
  BY <1>0, <1>1
<1>5. ASSUME NEW p \in Object PROVE SeenBy(p, heap[p])'
  <2>1. SUFFICES ASSUME p \notin exposed, heap[p].life # "free", ~heap'[p].tracked,
                        NEW j \in Field, MaybeTracked(heap[p].fields[j])
                 PROVE  \E b \in Actor : Stores(b, p, heap[p].fields[j])'
    BY <1>2, <1>3 DEF SeenBy, MaybeTracked, Field
  <2>2. PICK b \in Actor : Stores(b, p, heap[p].fields[j])
    BY <1>3, <2>1 DEF Sees, SeenBy
  <2>3. b # a
    BY <1>0, <1>3, <2>1, <2>2 DEF Stores, At, HashField, HashEnds
  <2>4. Stores(b, p, heap[p].fields[j])'
    BY <1>3, <1>4, <2>2, <2>3 DEF Stores, At
  <2> QED BY <2>4
<1>6. ASSUME NEW b \in Actor, Makes(b)'
      PROVE  Makes(b) /\ call'[b] = call[b] /\ call[b].obj \in Object
  BY <1>0, <1>1, <1>6, OthersKept DEF Making
<1> QED BY <1>2, <1>3, <1>5, <1>6, RestStep

LEMMA SeesStep == Sees /\ [Next]_vars => Sees'
<1> SUFFICES ASSUME Sees, [Next]_vars PROVE Sees' OBVIOUS
<1>1. Typed'
  BY TypedStep DEF Sees
<1>2. ASSUME UntrackTuple \/ UNCHANGED vars PROVE Sees'
  <2>1. cls' = cls /\ heap' = heap /\ call' = call /\ exposed' = exposed
        /\ tupleTracked' \subseteq tupleTracked
    BY <1>2 DEF UntrackTuple, vars
  <2>2. \A p \in Object : SeenBy(p, heap[p])'
    BY <2>1 DEF Sees, SeenBy, MaybeTracked, Field, Stores, At
  <2>3. \A b \in Actor : Makes(b)' => Makes(b)
    BY <2>1 DEF Makes
  <2> QED BY <1>1, <2>1, <2>2, <2>3, RestStep
<1>3. CASE Next
  BY <1>1, <1>2, <1>3, BeginsSees, UsesSees, FillsSees, EndsSees, OthersSees DEF Next
<1> QED BY <1>2, <1>3

(* The collector sees every instance that may be part of a cycle, for every *)
(* class, any number of calls at once and any values, as long as            *)
(* __post_init__ has not assigned to it.                                    *)
THEOREM CollectorSeesInstances == Spec => []CollectorSees
<1>1. Spec => []Sees
  BY SeesInit, SeesStep, PTL DEF Spec
<1>2. Sees => CollectorSees
  <2> SUFFICES ASSUME Sees, NEW o \in Object, o \notin exposed, heap[o].life # "free",
                      ~heap[o].tracked, NEW i \in Field, MaybeTracked(heap[o].fields[i])
               PROVE  Pending(o)
    BY DEF CollectorSees, HoldsTracked
  <2>1. PICK b \in Actor : Stores(b, o, heap[o].fields[i])
    BY DEF Sees, SeenBy
  <2> QED BY <2>1 DEF Stores, Pending
<1> QED BY <1>1, <1>2, PTL
=============================================================================
