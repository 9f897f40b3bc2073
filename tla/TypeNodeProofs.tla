--------------------------- MODULE TypeNodeProofs ---------------------------
(***************************************************************************)
(* What holds of every TypeNode, for any members in any order and for any  *)
(* width of integers: the types, that the details fill the allocation that *)
(* was sized from the mask, and that the readers, which count the bits of  *)
(* the mask, find the details that were stored.                            *)
(***************************************************************************)
EXTENDS TypeNode, FiniteSetTheorems, SequenceTheorems, TLAPS

-----------------------------------------------------------------------------
(* Slots and bits.                                                          *)

(* The bits of the slots of the layout; the constraints come last.          *)
BitsOf == <<{"custom", "customgeneric"}, {"struct", "structarray"},
            {"structunion", "structarrayunion"}, {"path"}, {"ip"}, {"intenum"},
            {"intliteral"}, {"enum"}, {"strliteral"}, {"typeddict"}, {"dataclass"},
            {"namedtuple"}, {"codec"}, {"user"}, {"dictkey", "dictval"},
            {"list", "vartuple", "set", "frozenset", "fixtuple"}>>

(* No slot occurs twice in the layout.                                      *)
LEMMA LayoutIsInjective ==
    /\ Len(Layout) = 17
    /\ \A j, k \in 1..17 : Layout[j] = Layout[k] => j = k
    /\ \A k \in 1..16 : Layout[k] \in Slot
    /\ Layout[13] = "codec" /\ Layout[14] = "user" /\ Layout[15] = "dict"
    /\ Layout[16] = "array" /\ Layout[17] = "constraints" /\ Layout[1] = "custom"
    /\ Layout[2] = "structinfo" /\ Layout[3] = "structlookup"
BY DEF Layout, Slot

(* A bit belongs to one slot.                                               *)
LEMMA SlotsAreDisjoint ==
    ASSUME NEW j \in 1..16, NEW k \in 1..16, NEW b, b \in BitsOf[j], b \in BitsOf[k]
    PROVE  j = k
BY DEF BitsOf

LEMMA SlotOfType ==
    /\ \A type : type \in Slot7 \cup {"fixtuple"} => SlotOf(type) = "array"
    /\ SlotOf("customgeneric") = "custom"
    /\ \A type : type \notin Slot7 \cup {"fixtuple", "customgeneric"} => SlotOf(type) = type
BY Zenon DEF SlotOf, Slot7

(* The bits of a type are bits of the slot that keeps its object.           *)
LEMMA BitsBelong ==
    ASSUME NEW type \in ObjectTypes
    PROVE  \E k \in 1..16 \ {13, 14} :
              /\ Layout[k] = SlotOf(type)
              /\ Bits(type) \subseteq BitsOf[k]
              /\ IF k = 15 THEN Bits(type) = DictBits ELSE Bits(type) = {type}
BY SlotOfType DEF ObjectTypes, Layout, Slot7, Bits, BitsOf, DictBits

LEMMA ScalarsHaveNoSlot ==
    ASSUME NEW k \in 1..16
    PROVE  (Scalars \cup {"any", "true", "false", "constr"}) \cap BitsOf[k] = {}
BY DEF Scalars, BytesLike, BitsOf

(* The bits of the first slots are the sets that the readers count.         *)
Below(k) == {b \in Types : \E j \in 1..k - 1 : j <= 16 /\ b \in BitsOf[j]}

LEMMA BitsBelow ==
    /\ Below(1) = {}
    /\ Below(2) = {"custom", "customgeneric"}
    /\ Below(3) = Below(2) \cup {"struct", "structarray"}
    /\ Below(4) = Below(3) \cup {"structunion", "structarrayunion"}
    /\ Below(5) = Below(4) \cup {"path"}
    /\ Below(6) = Slot0
    /\ Below(7) = Slot0 \cup {"intenum"}
    /\ Below(8) = Slot0 \cup Slot1
    /\ Below(9) = Slot0 \cup Slot1 \cup {"enum"}
    /\ Below(10) = Slot0 \cup Slot1 \cup Slot2
    /\ Below(11) = Slot0 \cup Slot1 \cup Slot2 \cup {"typeddict"}
    /\ Below(12) = Slot0 \cup Slot1 \cup Slot2 \cup Slot3
    /\ Below(13) = ObjSlots
    /\ Below(14) = ObjSlots \cup {"codec"}
    /\ Below(15) = ObjSlots \cup {"codec", "user"}
    /\ Below(16) = ObjSlots \cup {"codec", "user"} \cup DictBits
    /\ Below(17) = ObjSlots \cup {"codec", "user"} \cup DictBits \cup Slot7 \cup {"fixtuple"}
    /\ Below(18) = Below(17)
<1>1. ASSUME NEW k \in 1..17
      PROVE  Below(k + 1) = Below(k) \cup (IF k <= 16 THEN Types \cap BitsOf[k] ELSE {})
  BY DEF Below
<1>2. Below(1) = {}
  BY DEF Below
<1>3. \A k \in 1..16 : BitsOf[k] \subseteq Types
  BY DEF BitsOf, Types, ObjSlots, Slot0, Slot1, Slot2, Slot3, Slot4, DictBits, Slot7
<1>4. \A k \in 1..16 : Below(k + 1) = Below(k) \cup BitsOf[k]
  BY <1>1, <1>3
<1>5. Below(18) = Below(17)
  BY <1>1
<1>6. Below(2) = {"custom", "customgeneric"}
  BY <1>2, <1>4 DEF BitsOf
<1>7. Below(3) = Below(2) \cup {"struct", "structarray"}
  BY <1>4 DEF BitsOf
<1>8. Below(4) = Below(3) \cup {"structunion", "structarrayunion"}
  BY <1>4 DEF BitsOf
<1>9. Below(5) = Below(4) \cup {"path"}
  BY <1>4 DEF BitsOf
<1>10. Below(6) = Below(5) \cup {"ip"}
  BY <1>4 DEF BitsOf
<1>11. Below(6) = Slot0
  BY <1>6, <1>7, <1>8, <1>9, <1>10 DEF Slot0
<1>12. Below(7) = Below(6) \cup {"intenum"}
  BY <1>4 DEF BitsOf
<1>13. Below(8) = Below(7) \cup {"intliteral"}
  BY <1>4 DEF BitsOf
<1>14. Below(9) = Below(8) \cup {"enum"}
  BY <1>4 DEF BitsOf
<1>15. Below(10) = Below(9) \cup {"strliteral"}
  BY <1>4 DEF BitsOf
<1>16. Below(11) = Below(10) \cup {"typeddict"}
  BY <1>4 DEF BitsOf
<1>17. Below(12) = Below(11) \cup {"dataclass"}
  BY <1>4 DEF BitsOf
<1>18. Below(13) = Below(12) \cup {"namedtuple"}
  BY <1>4 DEF BitsOf
<1>19. Below(14) = Below(13) \cup {"codec"}
  BY <1>4 DEF BitsOf
<1>20. Below(15) = Below(14) \cup {"user"}
  BY <1>4 DEF BitsOf
<1>21. Below(16) = Below(15) \cup {"dictkey", "dictval"}
  BY <1>4 DEF BitsOf
<1>22. Below(17) = Below(16) \cup {"list", "vartuple", "set", "frozenset", "fixtuple"}
  BY <1>4 DEF BitsOf
<1>23. /\ Below(7) = Slot0 \cup {"intenum"}
       /\ Below(8) = Slot0 \cup Slot1
       /\ Below(9) = Slot0 \cup Slot1 \cup {"enum"}
       /\ Below(10) = Slot0 \cup Slot1 \cup Slot2
  BY <1>11, <1>12, <1>13, <1>14, <1>15 DEF Slot1, Slot2
<1>24. /\ Below(11) = Slot0 \cup Slot1 \cup Slot2 \cup {"typeddict"}
       /\ Below(12) = Slot0 \cup Slot1 \cup Slot2 \cup Slot3
       /\ Below(13) = ObjSlots
  BY <1>16, <1>17, <1>18, <1>23 DEF Slot3, Slot4, ObjSlots
<1>25. /\ Below(14) = ObjSlots \cup {"codec"}
       /\ Below(15) = ObjSlots \cup {"codec", "user"}
       /\ Below(16) = ObjSlots \cup {"codec", "user"} \cup DictBits
  BY <1>19, <1>20, <1>21, <1>24 DEF DictBits
<1>26. Below(17) = ObjSlots \cup {"codec", "user"} \cup DictBits \cup Slot7 \cup {"fixtuple"}
  BY <1>22, <1>25 DEF Slot7
<1>27. QED
  BY <1>2, <1>5, <1>6, <1>7, <1>8, <1>9, <1>11, <1>23, <1>24, <1>25, <1>26

(* There are finitely many bits.                                            *)
LEMMA FiniteUnion ==
    /\ \A x : IsFiniteSet({x})
    /\ \A S, T : IsFiniteSet(S) /\ IsFiniteSet(T) => IsFiniteSet(S \cup T)
BY FS_Singleton, FS_Union

LEMMA FiniteTypes == IsFiniteSet(Types)
<1>1. IsFiniteSet(Slot0)
  <2>1. Slot0 = {"struct"} \cup {"structarray"} \cup {"structunion"} \cup {"structarrayunion"}
                \cup {"custom"} \cup {"customgeneric"} \cup {"path"} \cup {"ip"}
    BY DEF Slot0
  <2>2. QED
    BY <2>1, FiniteUnion
<1>2. IsFiniteSet(Slot1 \cup Slot2 \cup Slot3 \cup Slot4 \cup DictBits)
  <2>1. Slot1 \cup Slot2 \cup Slot3 \cup Slot4 \cup DictBits
            = {"intenum"} \cup {"intliteral"} \cup {"enum"} \cup {"strliteral"}
              \cup {"typeddict"} \cup {"dataclass"} \cup {"namedtuple"}
              \cup {"dictkey"} \cup {"dictval"}
    BY DEF Slot1, Slot2, Slot3, Slot4, DictBits
  <2>2. QED
    BY <2>1, FiniteUnion
<1>3. IsFiniteSet(Slot7 \cup {"any", "fixtuple", "true", "false", "codec", "user", "constr"})
  <2>1. Slot7 \cup {"any", "fixtuple", "true", "false", "codec", "user", "constr"}
            = {"list"} \cup {"vartuple"} \cup {"set"} \cup {"frozenset"} \cup {"any"}
              \cup {"fixtuple"} \cup {"true"} \cup {"false"} \cup {"codec"} \cup {"user"}
              \cup {"constr"}
    BY DEF Slot7
  <2>2. QED
    BY <2>1, FiniteUnion
<1>4. IsFiniteSet(Scalars)
  <2>1. Scalars = {"none"} \cup {"bool"} \cup {"int"} \cup {"float"} \cup {"str"}
                  \cup {"datetime"} \cup {"date"} \cup {"time"} \cup {"timedelta"}
                  \cup {"uuid"} \cup {"decimal"} \cup {"bytes"} \cup {"bytearray"}
                  \cup {"memoryview"}
    BY DEF Scalars, BytesLike
  <2>2. QED
    BY <2>1, FiniteUnion, ZenonT(60)
<1>5. Types = Scalars \cup Slot0 \cup (Slot1 \cup Slot2 \cup Slot3 \cup Slot4 \cup DictBits)
              \cup (Slot7 \cup {"any", "fixtuple", "true", "false", "codec", "user", "constr"})
  BY DEF Types, ObjSlots
<1>6. QED
  BY <1>1, <1>2, <1>3, <1>4, <1>5, FiniteUnion

-----------------------------------------------------------------------------
(* Where the details are.                                                   *)

(* Where the details of slot k begin.  The elements of a tuple follow its   *)
(* size, in slot 16; the constraints are slot 17; slot 18 is the end.       *)
Elements(s) == IF "fixtuple" \in s.types THEN Len(s.obj["array"]) ELSE 0
Constraints(s) == IF s.mask # {} THEN 1 ELSE 0
Place(s, k) ==
    Count(s.types, Below(k)) + (IF k > 16 THEN Elements(s) ELSE 0)
                             + (IF k > 17 THEN Constraints(s) ELSE 0)

(* What the proofs need of TypeNodeCollectState to talk about its details.  *)
Sized(s) ==
    /\ s.types \subseteq Types
    /\ "fixtuple" \in s.types => Len(s.obj["array"]) \in Nat

LEMMA SizesAreNat ==
    ASSUME NEW s, Sized(s)
    PROVE  Elements(s) \in Nat /\ Constraints(s) \in Nat
BY DEF Sized, Elements, Constraints

LEMMA CountIsNat ==
    ASSUME NEW types, types \subseteq Types, NEW bits
    PROVE  Count(types, bits) \in Nat /\ IsFiniteSet(types \cap bits)
<1>1. IsFiniteSet(types)
  BY FiniteTypes, FS_Subset
<1>2. QED
  BY <1>1, FS_Intersection, FS_CardinalityType DEF Count

(* What is counted in two parts.                                            *)
LEMMA CountAdds ==
    ASSUME NEW types, types \subseteq Types, NEW A, NEW B, A \cap B = {}
    PROVE  Count(types, A \cup B) = Count(types, A) + Count(types, B)
<1>1. types \cap (A \cup B) = (types \cap A) \cup (types \cap B)
  OBVIOUS
<1>2. (types \cap A) \cap (types \cap B) = {}
  OBVIOUS
<1>3. Cardinality((types \cap A) \cup (types \cap B))
        = Cardinality(types \cap A) + Cardinality(types \cap B)
            - Cardinality((types \cap A) \cap (types \cap B))
  BY CountIsNat, FS_Union
<1>4. Cardinality((types \cap A) \cap (types \cap B)) = 0
  BY <1>2, FS_EmptySet
<1>5. Count(types, A) \in Nat /\ Count(types, B) \in Nat
  BY CountIsNat
<1>6. Count(types, A \cup B) = Cardinality((types \cap A) \cup (types \cap B))
  BY <1>1, Zenon DEF Count
<1>7. Cardinality(types \cap A) = Count(types, A) /\ Cardinality(types \cap B) = Count(types, B)
  BY Zenon DEF Count
<1>8. QED
  BY <1>3, <1>4, <1>5, <1>6, <1>7

LEMMA BelowGrows ==
    ASSUME NEW k \in 1..16
    PROVE  Below(k + 1) = Below(k) \cup BitsOf[k] /\ Below(k) \cap BitsOf[k] = {}
<1>1. BitsOf[k] \subseteq Types
  BY DEF BitsOf, Types, ObjSlots, Slot0, Slot1, Slot2, Slot3, Slot4, DictBits, Slot7
<1>2. \A j \in 1..16 : \A b : b \in BitsOf[j] /\ b \in BitsOf[k] => j = k
  BY SlotsAreDisjoint
<1>3. QED
  BY <1>1, <1>2 DEF Below

LEMMA PlaceIsNat ==
    ASSUME NEW s, Sized(s), NEW k \in 1..18
    PROVE  Place(s, k) \in Nat
<1>1. Count(s.types, Below(k)) \in Nat
  BY CountIsNat DEF Sized
<1>2. QED
  BY <1>1, SizesAreNat DEF Place

(* The slots after each other.                                              *)
LEMMA NextPlace ==
    ASSUME NEW s, Sized(s)
    PROVE  /\ \A k \in 1..15 : Place(s, k + 1) = Place(s, k) + Count(s.types, BitsOf[k])
           /\ Place(s, 17) = Place(s, 16) + Count(s.types, BitsOf[16]) + Elements(s)
           /\ Place(s, 18) = Place(s, 17) + Constraints(s)
<1>1. \A k \in 1..16 : Count(s.types, Below(k + 1))
                        = Count(s.types, Below(k)) + Count(s.types, BitsOf[k])
  BY BelowGrows, CountAdds, SMTT(60) DEF Sized
<1>2. \A k \in 1..18 : Count(s.types, Below(k)) \in Nat
  BY CountIsNat DEF Sized
<1>3. \A k \in 1..16 : Count(s.types, BitsOf[k]) \in Nat
  BY CountIsNat DEF Sized
<1>4. Below(18) = Below(17)
  BY BitsBelow
<1>5. \A k \in 1..15 : Place(s, k + 1) = Place(s, k) + Count(s.types, BitsOf[k])
  <2> TAKE k \in 1..15
  <2>1. Count(s.types, Below(k + 1)) = Count(s.types, Below(k)) + Count(s.types, BitsOf[k])
    BY <1>1
  <2>2. Count(s.types, Below(k)) \in Nat /\ Count(s.types, BitsOf[k]) \in Nat
    BY <1>2, <1>3
  <2>3. QED
    BY <2>1, <2>2 DEF Place
<1>6. Place(s, 17) = Place(s, 16) + Count(s.types, BitsOf[16]) + Elements(s)
  <2>1. Count(s.types, Below(17)) = Count(s.types, Below(16)) + Count(s.types, BitsOf[16])
    BY <1>1
  <2>2. /\ Count(s.types, Below(17)) \in Nat /\ Count(s.types, Below(16)) \in Nat
        /\ Count(s.types, BitsOf[16]) \in Nat
    BY <1>2, <1>3
  <2>3. QED
    BY <2>1, <2>2, SizesAreNat DEF Place
<1>7. Place(s, 18) = Place(s, 17) + Constraints(s)
  <2>1. Count(s.types, Below(17)) \in Nat
    BY <1>2
  <2>2. QED
    BY <2>1, <1>4, SizesAreNat DEF Place
<1>8. QED
  BY <1>5, <1>6, <1>7

(* Slots without details take no place.                                     *)
LEMMA NoPlace ==
    ASSUME NEW s, Sized(s), NEW j \in 1..18, NEW k \in 1..18, j <= k,
           \A i \in j..k - 1 : i <= 16 => s.types \cap BitsOf[i] = {},
           j <= 17 /\ k = 18 => s.mask = {}
    PROVE  Place(s, k) = Place(s, j)
<1>1. s.types \cap Below(k) = s.types \cap Below(j)
  BY DEF Below
<1>2. "fixtuple" \in BitsOf[16]
  BY DEF BitsOf
<1>3. j <= 16 /\ k > 16 => "fixtuple" \notin s.types
  BY <1>2
<1>4. QED
  <2>1. Count(s.types, Below(k)) = Count(s.types, Below(j))
    BY <1>1 DEF Count
  <2>2. j <= 16 /\ k > 16 => Elements(s) = 0
    BY <1>3 DEF Elements
  <2>3. j <= 17 /\ k > 17 => Constraints(s) = 0
    BY DEF Constraints
  <2>4. QED
    BY <2>1, <2>2, <2>3, SizesAreNat, CountIsNat DEF Place

(* Later slots begin later.                                                 *)
LEMMA PlaceGrows ==
    ASSUME NEW s, Sized(s), NEW j \in 1..18, NEW k \in 1..18, j <= k
    PROVE  Place(s, j) <= Place(s, k)
<1>1. s.types \cap Below(j) \subseteq s.types \cap Below(k)
  BY DEF Below
<1>2. Count(s.types, Below(j)) <= Count(s.types, Below(k))
  BY <1>1, CountIsNat, FS_Subset DEF Count, Sized
<1>3. QED
  <2>1. Count(s.types, Below(j)) \in Nat /\ Count(s.types, Below(k)) \in Nat
    BY CountIsNat DEF Sized
  <2>2. QED
    BY <1>2, <2>1, SizesAreNat DEF Place

(* The room that is allocated ends where the last details do.               *)
LEMMA RoomIsEnd ==
    ASSUME NEW s, Sized(s)
    PROVE  Room(s) = Place(s, 18)
<1> DEFINE bits == ObjSlots \cup DictBits \cup Slot7 \cup {"codec", "user"}
<1>1. Below(18) = bits \cup {"fixtuple"}
  BY BitsBelow
<1>2. bits \cap {"fixtuple"} = {}
  BY DEF ObjSlots, Slot0, Slot1, Slot2, Slot3, Slot4, DictBits, Slot7
<1>3. Count(s.types, Below(18)) = Count(s.types, bits) + Count(s.types, {"fixtuple"})
  <2> HIDE DEF bits
  <2>1. QED
    BY <1>1, <1>2, CountAdds DEF Sized
<1>4. Count(s.types, {"fixtuple"}) = IF "fixtuple" \in s.types THEN 1 ELSE 0
  <2>1. s.types \cap {"fixtuple"} = IF "fixtuple" \in s.types THEN {"fixtuple"} ELSE {}
    OBVIOUS
  <2>2. QED
    BY <2>1, FS_Singleton, FS_EmptySet DEF Count
<1>5. Count(s.types, bits) \in Nat
  BY CountIsNat DEF Sized
<1>6. QED
  BY <1>3, <1>4, <1>5, SMTT(60) DEF Room, Place, Sized, Elements, Constraints

-----------------------------------------------------------------------------
(* What is stored for a slot.                                               *)

(* An object is kept for a slot exactly if the bits of one of its types are *)
(* set; codec and user are told apart by their bits alone.                  *)
HeldAt(s, k) ==
    IF s.obj[Layout[k]] = Null THEN s.types \cap BitsOf[k] = {}
    ELSE IF k = 15 THEN s.types \cap BitsOf[k] = DictBits
    ELSE \E b \in BitsOf[k] : s.types \cap BitsOf[k] = {b}

Held(s) ==
    /\ \A k \in 1..16 \ {13, 14} : HeldAt(s, k)
    /\ "fixtuple" \in s.types => Len(s.obj["array"]) \in Nat
    /\ "any" \in s.types => s.mask = {}

IsSeq(q) == \E S : q \in Seq(S)

LEMMA WhenPresent ==
    ASSUME NEW s
    PROVE  /\ Present(s, "codec") <=> "codec" \in s.types
           /\ Present(s, "user") <=> "user" \in s.types
           /\ Present(s, "constraints") <=> s.mask # {}
           /\ \A slot : slot \notin {"codec", "user", "constraints"} =>
                 (Present(s, slot) <=> s.obj[slot] # Null)
<1>1. Present(s, "codec") <=> "codec" \in s.types
  BY Zenon DEF Present
<1>2. Present(s, "user") <=> "user" \in s.types
  BY Zenon DEF Present
<1>3. Present(s, "constraints") <=> s.mask # {}
  <2>1. "constraints" \notin {"codec", "user"}
    OBVIOUS
  <2>2. QED
    BY <2>1, Zenon DEF Present
<1>4. ASSUME NEW slot, slot \notin {"codec", "user", "constraints"}
      PROVE  Present(s, slot) <=> s.obj[slot] # Null
  <2>1. slot \notin {"codec", "user"} /\ slot # "constraints"
    BY <1>4
  <2>2. QED
    BY <2>1, Zenon DEF Present
<1>5. QED
  BY <1>1, <1>2, <1>3, <1>4

LEMMA WhatIsStored ==
    ASSUME NEW s
    PROVE  /\ Stored(s, "dict")
                 = <<Detail("node", s.obj["dict"][1]), Detail("node", s.obj["dict"][2])>>
           /\ Stored(s, "array") =
                 IF "fixtuple" \in s.types
                 THEN <<Detail("size", Len(s.obj["array"]))>>
                      \o [k \in 1..Len(s.obj["array"]) |-> Detail("node", s.obj["array"][k])]
                 ELSE <<Detail("node", s.obj["array"])>>
           /\ Stored(s, "constraints") = <<Detail("cn", CnPacked(s))>>
           /\ \A slot : slot \notin {"dict", "array", "constraints"} =>
                 Stored(s, slot) = <<Detail("obj", s.obj[slot])>>
<1>1. Stored(s, "dict")
                 = <<Detail("node", s.obj["dict"][1]), Detail("node", s.obj["dict"][2])>>
  BY Zenon DEF Stored
<1>2. Stored(s, "array") =
                 IF "fixtuple" \in s.types
                 THEN <<Detail("size", Len(s.obj["array"]))>>
                      \o [k \in 1..Len(s.obj["array"]) |-> Detail("node", s.obj["array"][k])]
                 ELSE <<Detail("node", s.obj["array"])>>
  <2>1. "array" # "dict"
    OBVIOUS
  <2>2. QED
    BY <2>1, Zenon DEF Stored
<1>3. Stored(s, "constraints") = <<Detail("cn", CnPacked(s))>>
  <2>1. "constraints" # "dict" /\ "constraints" # "array"
    OBVIOUS
  <2>2. QED
    BY <2>1, Zenon DEF Stored
<1>4. ASSUME NEW slot, slot \notin {"dict", "array", "constraints"}
      PROVE  Stored(s, slot) = <<Detail("obj", s.obj[slot])>>
  <2>1. slot # "dict" /\ slot # "array" /\ slot # "constraints"
    BY <1>4
  <2>2. QED
    BY <2>1, Zenon DEF Stored
<1>5. QED
  BY <1>1, <1>2, <1>3, <1>4

(* A tuple: its size, and then its elements.                                *)
LEMMA TupleIsStored ==
    ASSUME NEW s, "fixtuple" \in s.types, Len(s.obj["array"]) \in Nat
    PROVE  LET q == Stored(s, "array")  n == Len(s.obj["array"]) IN
           /\ IsSeq(q)
           /\ Len(q) = n + 1
           /\ q[1] = Detail("size", n)
           /\ \A i \in 1..n : q[i + 1] = Detail("node", s.obj["array"][i])
<1> DEFINE n == Len(s.obj["array"])
           first == <<Detail("size", n)>>
           rest == [i \in 1..n |-> Detail("node", s.obj["array"][i])]
           S == {Detail("size", n)} \cup {Detail("node", s.obj["array"][i]) : i \in 1..n}
<1>1. first \in Seq(S) /\ Len(first) = 1 /\ first[1] = Detail("size", n)
  OBVIOUS
<1>2. rest \in Seq(S) /\ Len(rest) = n
  OBVIOUS
<1>3. Stored(s, "array") = first \o rest
  BY WhatIsStored
<1>4. ASSUME NEW q, q = first \o rest
      PROVE  /\ IsSeq(q)
             /\ Len(q) = n + 1
             /\ q[1] = Detail("size", n)
             /\ \A i \in 1..n : q[i + 1] = Detail("node", s.obj["array"][i])
  <2>1. \A i \in 1..n : rest[i] = Detail("node", s.obj["array"][i])
    OBVIOUS
  <2>5. n \in Nat
    OBVIOUS
  <2> HIDE DEF first, rest, S, n
  <2>2. q \in Seq(S)
    BY <1>1, <1>2, <1>4
  <2>6. /\ Len(q) = Len(first) + Len(rest)
        /\ \A i \in 1..Len(first) + Len(rest) :
              q[i] = IF i <= Len(first) THEN first[i] ELSE rest[i - Len(first)]
    BY <1>1, <1>2, <1>4, ConcatProperties
  <2>3. Len(q) = n + 1 /\ q[1] = first[1] /\ \A i \in 1..n : q[i + 1] = rest[i]
    BY <1>1, <1>2, <2>5, <2>6
  <2>4. QED
    BY <1>1, <2>1, <2>2, <2>3 DEF IsSeq
<1>5. QED
  BY <1>3, <1>4

(* A slot that is present is stored in as many details as the readers count *)
(* for it, and an absent one has no bits.                                   *)
LEMMA StoredFits ==
    ASSUME NEW s, Sized(s), Held(s), NEW k \in 1..17
    PROVE  /\ Present(s, Layout[k]) =>
                 /\ IsSeq(Stored(s, Layout[k]))
                 /\ Len(Stored(s, Layout[k])) \in Nat \ {0}
                 /\ Place(s, k + 1) = Place(s, k) + Len(Stored(s, Layout[k]))
           /\ ~Present(s, Layout[k]) =>
                 IF k = 17 THEN s.mask = {} ELSE s.types \cap BitsOf[k] = {}
<1>1. ASSUME NEW x PROVE IsSeq(<<x>>) /\ Len(<<x>>) = 1
  <2>1. <<x>> \in Seq({x})
    OBVIOUS
  <2>2. QED
    BY <2>1 DEF IsSeq
<1>2. ASSUME NEW x, NEW y PROVE IsSeq(<<x, y>>) /\ Len(<<x, y>>) = 2
  <2>1. <<x, y>> \in Seq({x, y})
    OBVIOUS
  <2>2. QED
    BY <2>1 DEF IsSeq
<1>3. \A b : Cardinality({b}) = 1
  BY FS_Singleton
<1>4. CASE k \in 1..12
  <2>1. Layout[k] \notin {"codec", "user", "constraints", "dict", "array"}
    BY <1>4, LayoutIsInjective
  <2>2. Stored(s, Layout[k]) = <<Detail("obj", s.obj[Layout[k]])>>
    BY <2>1, WhatIsStored
  <2>3. Present(s, Layout[k]) <=> s.obj[Layout[k]] # Null
    BY <2>1, WhenPresent
  <2>4. IF s.obj[Layout[k]] = Null THEN s.types \cap BitsOf[k] = {}
        ELSE \E b \in BitsOf[k] : s.types \cap BitsOf[k] = {b}
    BY <1>4 DEF Held, HeldAt
  <2>5. s.obj[Layout[k]] # Null => Count(s.types, BitsOf[k]) = 1
    BY <2>4, <1>3 DEF Count
  <2>6. Place(s, k + 1) = Place(s, k) + Count(s.types, BitsOf[k])
    BY <1>4, NextPlace
  <2>7. QED
    BY <1>1, <1>4, <2>2, <2>3, <2>4, <2>5, <2>6
<1>5. CASE k \in {13, 14}
  <2> DEFINE bit == IF k = 13 THEN "codec" ELSE "user"
  <2>1. Layout[k] = bit /\ BitsOf[k] = {bit}
    BY <1>5, LayoutIsInjective DEF BitsOf
  <2>2. Present(s, Layout[k]) <=> bit \in s.types
    BY <2>1, <1>5, WhenPresent
  <2>3. Stored(s, Layout[k]) = <<Detail("obj", s.obj[Layout[k]])>>
    BY <2>1, <1>5, WhatIsStored
  <2>4. bit \in s.types => s.types \cap BitsOf[k] = {bit}
    BY <2>1
  <2>5. bit \in s.types => Count(s.types, BitsOf[k]) = 1
    BY <2>4, <1>3 DEF Count
  <2>6. Place(s, k + 1) = Place(s, k) + Count(s.types, BitsOf[k])
    BY <1>5, NextPlace
  <2>7. bit \notin s.types => s.types \cap BitsOf[k] = {}
    BY <2>1
  <2>8. QED
    BY <1>1, <1>5, <2>2, <2>3, <2>5, <2>6, <2>7
<1>6. CASE k = 15
  <2>1. Layout[k] = "dict"
    BY <1>6, LayoutIsInjective
  <2>2. Present(s, Layout[k]) <=> s.obj[Layout[k]] # Null
    BY <2>1, WhenPresent
  <2>3. IF s.obj[Layout[k]] = Null THEN s.types \cap BitsOf[k] = {}
        ELSE s.types \cap BitsOf[k] = DictBits
    BY <1>6 DEF Held, HeldAt
  <2>4. Cardinality(DictBits) = 2
    <3>1. DictBits = {"dictkey"} \cup {"dictval"} /\ "dictval" \notin {"dictkey"}
      BY DEF DictBits
    <3>2. IsFiniteSet({"dictkey"}) /\ Cardinality({"dictkey"}) = 1
      BY FS_Singleton
    <3>3. Cardinality({"dictkey"} \cup {"dictval"}) = Cardinality({"dictkey"}) + 1
      BY <3>1, <3>2, FS_AddElement
    <3>4. QED
      BY <3>1, <3>2, <3>3
  <2>5. Place(s, k + 1) = Place(s, k) + Count(s.types, BitsOf[k])
    BY <1>6, NextPlace
  <2>6. Stored(s, Layout[k])
            = <<Detail("node", s.obj["dict"][1]), Detail("node", s.obj["dict"][2])>>
    BY <2>1, WhatIsStored
  <2>7. s.obj[Layout[k]] # Null => Count(s.types, BitsOf[k]) = 2
    BY <2>3, <2>4 DEF Count
  <2>8. QED
    BY <1>2, <1>6, <2>2, <2>3, <2>5, <2>6, <2>7
<1>7. CASE k = 16
  <2>1. Layout[k] = "array"
    BY <1>7, LayoutIsInjective
  <2>2. Present(s, Layout[k]) <=> s.obj[Layout[k]] # Null
    BY <2>1, WhenPresent
  <2>3. IF s.obj[Layout[k]] = Null THEN s.types \cap BitsOf[k] = {}
        ELSE \E b \in BitsOf[k] : s.types \cap BitsOf[k] = {b}
    BY <1>7 DEF Held, HeldAt
  <2>4. s.obj[Layout[k]] # Null => Count(s.types, BitsOf[k]) = 1
    BY <2>3, <1>3 DEF Count
  <2>5. Place(s, 17) = Place(s, 16) + Count(s.types, BitsOf[16]) + Elements(s)
    BY NextPlace
  <2>6. CASE "fixtuple" \in s.types
    <3>1. Len(s.obj["array"]) \in Nat
      BY <2>6 DEF Sized
    <3>2. IsSeq(Stored(s, "array")) /\ Len(Stored(s, "array")) = Len(s.obj["array"]) + 1
      BY <2>6, <3>1, TupleIsStored
    <3>3. Elements(s) = Len(s.obj["array"])
      BY <2>6 DEF Elements
    <3>4. Place(s, 16) \in Nat
      BY PlaceIsNat
    <3>5. QED
      BY <1>7, <2>1, <2>2, <2>3, <2>4, <2>5, <3>1, <3>2, <3>3, <3>4, SMTT(60)
  <2>7. CASE "fixtuple" \notin s.types
    <3>1. Stored(s, "array") = <<Detail("node", s.obj["array"])>>
      BY <2>7, WhatIsStored
    <3>2. Elements(s) = 0
      BY <2>7 DEF Elements
    <3>3. Place(s, 16) \in Nat
      BY PlaceIsNat
    <3>4. IsSeq(Stored(s, "array")) /\ Len(Stored(s, "array")) = 1
      BY <1>1, <3>1
    <3>5. s.obj[Layout[k]] # Null => Place(s, 17) = Place(s, 16) + 1
      BY <1>7, <2>4, <2>5, <3>2, <3>3
    <3>6. k + 1 = 17 /\ 16 + 1 = 17
      BY <1>7
    <3>7. s.obj[Layout[k]] # Null =>
              Place(s, 16 + 1) = Place(s, 16) + Len(Stored(s, Layout[16]))
      BY <2>1, <1>7, <3>3, <3>4, <3>5, <3>6
    <3>8. QED
      BY <1>7, <2>1, <2>2, <2>3, <3>4, <3>7
  <2>8. QED
    BY <2>6, <2>7
<1>8. CASE k = 17
  <2>1. Layout[k] = "constraints"
    BY <1>8, LayoutIsInjective
  <2>2. Stored(s, Layout[k]) = <<Detail("cn", CnPacked(s))>>
    BY <2>1, WhatIsStored
  <2>3. Present(s, Layout[k]) <=> s.mask # {}
    BY <2>1, WhenPresent
  <2>4. Place(s, 18) = Place(s, 17) + Constraints(s)
    BY NextPlace
  <2>5. QED
    BY <1>1, <1>8, <2>2, <2>3, <2>4 DEF Constraints
<1>9. QED
  BY <1>4, <1>5, <1>6, <1>7, <1>8

-----------------------------------------------------------------------------
(* The collect state.                                                       *)

Members(type) == {m \in Member : m.type = type}

Fields == {"types", "obj", "structs", "many", "literals", "mask", "bound", "ok"}

(* The bit of the constraints is set only when the node is laid out.        *)
CollectedTypes == Types \ {"constr"}

StateOK(s) ==
    /\ s = [i \in Fields |-> s[i]]
    /\ s.types \subseteq CollectedTypes
    /\ s.obj = [o \in Slot |-> s.obj[o]]
    /\ s.structs \subseteq {m.obj : m \in Members("struct")}
    /\ s.literals \subseteq UNION {m.obj : m \in Members("literal")}
    /\ s.mask \subseteq CnBits
    /\ s.bound \in [CnIndex -> Int]

(* Every float bound was given by a member.                                 *)
Given(s) ==
    \A p \in ParamsOf.numeric : <<"float", p>> \in s.mask =>
        \E m \in Members("float") :
            m.constr # Null /\ m.constr.class # "user" /\ p \in DOMAIN m.constr.params

(* What the second passes add is not there before.                          *)
Absent(s, slots) == \A o \in slots : s.obj[o] = Null
Second == {"structinfo", "structlookup", "intliteral", "strliteral"}

Good(s) == StateOK(s) /\ (s.ok => Held(s) /\ Given(s) /\ Absent(s, Second))

(* A state with other types and another object.                             *)
With(s, types, slot, x) == [s EXCEPT !.types = types, !.obj[slot] = x]

LEMMA WithIs ==
    ASSUME NEW s, StateOK(s), NEW types, types \subseteq CollectedTypes, NEW slot \in Slot, NEW x,
           NEW t, t = With(s, types, slot, x)
    PROVE  /\ t.types = types
           /\ t.obj[slot] = x
           /\ \A o \in Slot \ {slot} : t.obj[o] = s.obj[o]
           /\ t.structs = s.structs /\ t.many = s.many /\ t.literals = s.literals
           /\ t.mask = s.mask /\ t.bound = s.bound /\ t.ok = s.ok
           /\ StateOK(t)
<1>1. /\ t.types = types
      /\ t.obj = [s.obj EXCEPT ![slot] = x]
      /\ t.structs = s.structs /\ t.many = s.many /\ t.literals = s.literals
      /\ t.mask = s.mask /\ t.bound = s.bound /\ t.ok = s.ok
      /\ t = [i \in Fields |-> t[i]]
  BY DEF With, StateOK, Fields
<1>3. s.obj = [o \in Slot |-> s.obj[o]]
  BY DEF StateOK
<1>4. /\ t.obj[slot] = x
      /\ \A o \in Slot \ {slot} : t.obj[o] = s.obj[o]
      /\ t.obj = [o \in Slot |-> t.obj[o]]
  BY <1>1, <1>3
<1>5. StateOK(t)
  BY <1>1, <1>4 DEF StateOK
<1>6. QED
  BY <1>1, <1>4, <1>5

LEMMA RefuseIsGood ==
    ASSUME NEW s, StateOK(s)
    PROVE  Good(Refuse(s)) /\ ~Refuse(s).ok /\ Refuse(s).types = s.types
<1>1. PICK r : r = Refuse(s)
  OBVIOUS
<1>2. /\ r.types = s.types /\ r.obj = s.obj
      /\ r.structs = s.structs /\ r.many = s.many /\ r.literals = s.literals
      /\ r.mask = s.mask /\ r.bound = s.bound
      /\ r = [i \in Fields |-> r[i]]
  BY <1>1 DEF Refuse, StateOK, Fields
<1>3. ~r.ok
  BY <1>1 DEF Refuse, StateOK, Fields
<1>4. StateOK(r)
  BY <1>2 DEF StateOK
<1>5. QED
  BY <1>1, <1>2, <1>3, <1>4 DEF Good

(* Bits that belong to no slot, and more bits that are of slot k only.       *)
Free == {b \in Types : \A k \in 1..16 : b \notin BitsOf[k]}

LEMMA HeldStays ==
    ASSUME NEW s, NEW t, Held(s), NEW k \in 1..16, NEW bits, bits \subseteq BitsOf[k] \cup Free,
           t.types = s.types \cup bits,
           \A o \in Slot \ {Layout[k]} : t.obj[o] = s.obj[o],
           k \in {13, 14} \/ HeldAt(t, k),
           "fixtuple" \in t.types => Len(t.obj["array"]) \in Nat,
           "any" \in t.types => t.mask = {}
    PROVE  Held(t)
<1>1. ASSUME NEW j \in 1..16 \ {13, 14}, j # k
      PROVE  HeldAt(t, j)
  <2>1. bits \cap BitsOf[j] = {}
    BY <1>1, SlotsAreDisjoint DEF Free
  <2>2. Layout[j] \in Slot \ {Layout[k]}
    BY <1>1, LayoutIsInjective, SMTT(60)
  <2>3. t.types \cap BitsOf[j] = s.types \cap BitsOf[j] /\ t.obj[Layout[j]] = s.obj[Layout[j]]
    BY <2>1, <2>2
  <2>4. HeldAt(s, j)
    BY <1>1 DEF Held
  <2>5. QED
    BY <2>3, <2>4, Zenon DEF HeldAt
<1>2. QED
  BY <1>1 DEF Held

(* An object for a slot without one.                                        *)
LEMMA CollectObjectIsGood ==
    ASSUME NEW s, Good(s), s.ok, NEW m \in Member, m.type \in ObjectTypes
    PROVE  Good(CollectObject(s, m)) /\ ("any" \in CollectObject(s, m).types => "any" \in s.types)
<1>a. PICK slot : slot = SlotOf(m.type)
  OBVIOUS
<1>b. PICK types : types = s.types \cup Bits(m.type)
  OBVIOUS
<1>c. PICK x : x = m.obj
  OBVIOUS
<1>d. PICK t : t = With(s, types, slot, x)
  OBVIOUS
<1>1. PICK k \in 1..16 \ {13, 14} :
              /\ Layout[k] = slot
              /\ Bits(m.type) \subseteq BitsOf[k]
              /\ IF k = 15 THEN Bits(m.type) = DictBits ELSE Bits(m.type) = {m.type}
  BY <1>a, BitsBelong
<1>2. slot \in Slot
  BY <1>1, LayoutIsInjective
<1>3. x # Null /\ (m.type = "fixtuple" => Len(x) \in Nat)
  BY <1>c, ConstantsOK
<1>4. Bits(m.type) \subseteq CollectedTypes
  <2>1. Bits(m.type) \subseteq Types
    BY DEF Bits, Types, ObjectTypes, ObjSlots, Slot0, Slot1, Slot2, Slot3, Slot4, Slot7
  <2>2. "constr" \notin Bits(m.type)
    BY DEF Bits, ObjectTypes, Slot7, DictBits
  <2>3. QED
    BY <2>1, <2>2 DEF CollectedTypes
<1>5. slot \notin Second
  BY <1>a, SlotOfType DEF ObjectTypes, Slot7, Second
<1>6. "any" \notin Bits(m.type)
  BY DEF Bits, ObjectTypes, Slot7, DictBits
<1>7. CASE s.obj[slot] = Null
  <2>1. /\ t.types = s.types \cup Bits(m.type)
        /\ t.obj[slot] = x
        /\ \A o \in Slot \ {slot} : t.obj[o] = s.obj[o]
        /\ t.mask = s.mask /\ t.ok = s.ok
        /\ StateOK(t)
    <3>1. StateOK(s) /\ types \subseteq CollectedTypes
      BY <1>b, <1>4 DEF Good, StateOK
    <3>a. t.types = types
      BY <1>d, <1>2, <3>1, WithIs
    <3>b. t.obj[slot] = x
      BY <1>d, <1>2, <3>1, WithIs
    <3>c. \A o \in Slot \ {slot} : t.obj[o] = s.obj[o]
      BY <1>d, <1>2, <3>1, WithIs
    <3>d. t.mask = s.mask
      BY <1>d, <1>2, <3>1, WithIs
    <3>e. t.ok = s.ok
      BY <1>d, <1>2, <3>1, WithIs
    <3>f. StateOK(t)
      BY <1>d, <1>2, <3>1, WithIs
    <3>2. /\ t.types = types
          /\ t.obj[slot] = x
          /\ \A o \in Slot \ {slot} : t.obj[o] = s.obj[o]
          /\ t.mask = s.mask /\ t.ok = s.ok
          /\ StateOK(t)
      BY <3>a, <3>b, <3>c, <3>d, <3>e, <3>f
    <3>3. QED
      BY <1>b, <3>2, Zenon
  <2>2. CollectObject(s, m) = t
    BY <1>a, <1>b, <1>c, <1>d, <1>7 DEF CollectObject, With
  <2>3. s.types \cap BitsOf[k] = {}
    BY <1>1, <1>7 DEF Good, Held, HeldAt
  <2>4. t.types \cap BitsOf[k] = Bits(m.type)
    BY <1>1, <2>1, <2>3
  <2>5. "fixtuple" \in t.types => Len(t.obj["array"]) \in Nat
    <3> SUFFICES ASSUME "fixtuple" \in t.types PROVE Len(t.obj["array"]) \in Nat
      OBVIOUS
    <3>1. CASE "fixtuple" \in s.types
      <4>1. k # 16
        BY <2>3, <3>1 DEF BitsOf
      <4>2. slot # "array" /\ "array" \in Slot
        BY <1>1, <4>1, LayoutIsInjective
      <4>3. t.obj["array"] = s.obj["array"]
        BY <2>1, <4>2
      <4>4. QED
        BY <3>1, <4>3 DEF Good, Held
    <3>2. CASE "fixtuple" \notin s.types
      <4>1. "fixtuple" \in Bits(m.type)
        BY <2>1, <3>2
      <4>2. m.type = "fixtuple"
        BY <4>1 DEF Bits, DictBits
      <4>3. slot = "array"
        BY <1>a, <4>2, SlotOfType
      <4>4. QED
        BY <1>3, <2>1, <4>2, <4>3
    <3>3. QED
      BY <3>1, <3>2
  <2>6. "any" \in t.types => t.mask = {}
    BY <1>6, <2>1 DEF Good, Held
  <2>7. HeldAt(t, k)
    BY <1>1, <1>3, <2>1, <2>4 DEF HeldAt
  <2>8. Held(s)
    BY DEF Good
  <2>9. Held(t)
    <3>1. PICK bits : bits = Bits(m.type)
      OBVIOUS
    <3>2. bits \subseteq BitsOf[k] \cup Free /\ t.types = s.types \cup bits
      BY <1>1, <2>1, <3>1
    <3>3. \A o \in Slot \ {Layout[k]} : t.obj[o] = s.obj[o]
      BY <1>1, <2>1
    <3>4. QED
      BY <2>5, <2>6, <2>7, <2>8, <3>2, <3>3, HeldStays
  <2>10. Given(t)
    BY <2>1 DEF Good, Given
  <2>11. Absent(t, Second)
    <3>1. Second \subseteq Slot
      BY DEF Second, Slot
    <3>2. QED
      BY <1>5, <2>1, <3>1 DEF Good, Absent
  <2>12. QED
    BY <1>6, <2>1, <2>2, <2>9, <2>10, <2>11 DEF Good
<1>8. CASE s.obj[slot] # Null
  <2>1. CollectObject(s, m) \in {s, Refuse(s)}
    BY <1>a, <1>8 DEF CollectObject
  <2>2. QED
    BY <2>1, RefuseIsGood DEF Good
<1>9. QED
  BY <1>7, <1>8

(* Bits without a slot.                                                     *)
LEMMA FreeBits == Scalars \cup {"any", "true", "false"} \subseteq Free
BY ScalarsHaveNoSlot DEF Free, Types, CollectedTypes

LEMMA ClearedIsGood ==
    /\ Good(Cleared) /\ Cleared.ok /\ Cleared.types = {}
    /\ \A o \in Slot : Cleared.obj[o] = Null
    /\ Cleared.structs = {} /\ Cleared.literals = {} /\ Cleared.mask = {}
<1>1. /\ Cleared.types = {} /\ Cleared.ok
      /\ Cleared.obj = [o \in Slot |-> Null]
      /\ Cleared.structs = {} /\ Cleared.literals = {} /\ Cleared.mask = {}
      /\ Cleared.bound = [k \in CnIndex |-> 0]
      /\ Cleared = [i \in Fields |-> Cleared[i]]
  BY DEF Cleared, Fields
<1>2. \A o \in Slot : Cleared.obj[o] = Null
  BY <1>1
<1>3. StateOK(Cleared)
  BY <1>1 DEF StateOK
<1>4. Held(Cleared)
  <2>1. \A k \in 1..16 : Cleared.obj[Layout[k]] = Null
    BY <1>2, LayoutIsInjective
  <2>2. QED
    BY <1>1, <2>1 DEF Held, HeldAt
<1>5. Given(Cleared) /\ Absent(Cleared, Second)
  BY <1>1, <1>2 DEF Given, Absent, Second, Slot
<1>6. QED
  BY <1>1, <1>2, <1>3, <1>4, <1>5 DEF Good

LEMMA CollectAnyIsGood ==
    ASSUME NEW t, t = [Cleared EXCEPT !.types = {"any"}]
    PROVE  Good(t)
<1>1. Cleared = [i \in Fields |-> Cleared[i]]
  BY ClearedIsGood DEF Good, StateOK
<1>2. /\ t.types = {"any"} /\ t.obj = Cleared.obj
      /\ t.structs = {} /\ t.literals = {} /\ t.mask = {} /\ t.bound = Cleared.bound
      /\ t = [i \in Fields |-> t[i]]
  BY <1>1, ClearedIsGood DEF Fields
<1>3. t.types \subseteq CollectedTypes
  BY <1>2 DEF Types, CollectedTypes
<1>4. StateOK(t)
  BY <1>2, <1>3, ClearedIsGood DEF Good, StateOK
<1>5. \A o \in Slot : t.obj[o] = Null
  BY <1>2, ClearedIsGood
<1>6. Held(t)
  <2>1. \A k \in 1..16 : t.obj[Layout[k]] = Null /\ t.types \cap BitsOf[k] = {}
    BY <1>2, <1>5, LayoutIsInjective, ScalarsHaveNoSlot
  <2>2. QED
    BY <1>2, <2>1 DEF Held, HeldAt
<1>7. Given(t) /\ Absent(t, Second)
  BY <1>2, <1>5 DEF Given, Absent, Second, Slot
<1>8. QED
  BY <1>4, <1>6, <1>7 DEF Good

LEMMA CollectScalarIsGood ==
    ASSUME NEW s, Good(s), s.ok, NEW type \in Scalars,
           NEW t, t = [s EXCEPT !.types = @ \cup {type}]
    PROVE  Good(t) /\ ("any" \in t.types => "any" \in s.types)
<1>1. s = [i \in Fields |-> s[i]]
  BY DEF Good, StateOK
<1>2. /\ t.types = s.types \cup {type} /\ t.obj = s.obj
      /\ t.structs = s.structs /\ t.literals = s.literals /\ t.mask = s.mask
      /\ t.bound = s.bound
      /\ t = [i \in Fields |-> t[i]]
  BY <1>1 DEF Fields
<1>3. type \in CollectedTypes /\ type \in Free /\ type # "any" /\ type # "fixtuple"
  BY FreeBits DEF Types, CollectedTypes, Scalars, BytesLike
<1>4. StateOK(t)
  BY <1>2, <1>3 DEF Good, StateOK
<1>5. Held(t)
  <2>1. PICK bits : bits = {type}
    OBVIOUS
  <2>2. bits \subseteq BitsOf[13] \cup Free /\ t.types = s.types \cup bits
    BY <1>2, <1>3, <2>1
  <2>3. "fixtuple" \in t.types => Len(t.obj["array"]) \in Nat
    BY <1>2, <1>3 DEF Good, Held
  <2>4. "any" \in t.types => t.mask = {}
    BY <1>2, <1>3 DEF Good, Held
  <2>5. Held(s) /\ \A o \in Slot \ {Layout[13]} : t.obj[o] = s.obj[o]
    BY <1>2 DEF Good
  <2>6. PICK k \in 1..16 : k = 13
    OBVIOUS
  <2>7. k \in {13, 14} \/ HeldAt(t, k)
    BY <2>6
  <2>8. QED
    BY <2>2, <2>3, <2>4, <2>5, <2>6, <2>7, HeldStays
<1>6. Given(t) /\ Absent(t, Second)
  BY <1>2 DEF Good, Given, Absent
<1>7. QED
  BY <1>2, <1>3, <1>4, <1>5, <1>6 DEF Good

(* Structs and literals are kept apart, for the second passes.              *)
LEMMA CollectApartIsGood ==
    ASSUME NEW s, Good(s), s.ok, NEW m \in Member, NEW t,
           \/ m.type = "struct" /\ t = CollectStruct(s, m)
           \/ m.type = "literal" /\ t = [s EXCEPT !.literals = @ \cup m.obj]
    PROVE  Good(t) /\ t.types = s.types
<1>1. s = [i \in Fields |-> s[i]]
  BY DEF Good, StateOK
<1>2. /\ t.types = s.types /\ t.obj = s.obj /\ t.mask = s.mask /\ t.bound = s.bound
      /\ t = [i \in Fields |-> t[i]]
  BY <1>1 DEF CollectStruct, Fields
<1>3. t.structs \subseteq {n.obj : n \in Members("struct")}
  <2>1. CASE m.type = "struct" /\ t = CollectStruct(s, m)
    <3>1. t.structs = s.structs \cup {m.obj}
      BY <1>1, <2>1 DEF CollectStruct, Fields
    <3>2. QED
      BY <2>1, <3>1 DEF Good, StateOK, Members
  <2>2. CASE t = [s EXCEPT !.literals = @ \cup m.obj]
    <3>1. t.structs = s.structs
      BY <1>1, <2>2 DEF Fields
    <3>2. QED
      BY <3>1 DEF Good, StateOK
  <2>3. QED
    BY <2>1, <2>2
<1>4. t.literals \subseteq UNION {n.obj : n \in Members("literal")}
  <2>1. CASE t = CollectStruct(s, m)
    <3>1. t.literals = s.literals
      BY <1>1, <2>1 DEF CollectStruct, Fields
    <3>2. QED
      BY <3>1 DEF Good, StateOK
  <2>2. CASE m.type = "literal" /\ t = [s EXCEPT !.literals = @ \cup m.obj]
    <3>1. t.literals = s.literals \cup m.obj
      BY <1>1, <2>2 DEF Fields
    <3>2. QED
      BY <2>2, <3>1 DEF Good, StateOK, Members
  <2>3. QED
    BY <2>1, <2>2
<1>5. StateOK(t)
  BY <1>2, <1>3, <1>4 DEF Good, StateOK
<1>6. Held(t)
  BY <1>2 DEF Good, Held, HeldAt
<1>7. Given(t) /\ Absent(t, Second)
  BY <1>2 DEF Good, Given, Absent
<1>8. QED
  BY <1>2, <1>5, <1>6, <1>7 DEF Good

(* What a member's type adds.                                               *)
LEMMA CollectTypeIs ==
    ASSUME NEW s, NEW m \in Member
    PROVE  \/ m.type = "any" /\ CollectType(s, m) = [Cleared EXCEPT !.types = {"any"}]
           \/ m.type \in Scalars /\ CollectType(s, m) = [s EXCEPT !.types = @ \cup {m.type}]
           \/ m.type = "struct" /\ CollectType(s, m) = CollectStruct(s, m)
           \/ m.type = "literal" /\ CollectType(s, m) = [s EXCEPT !.literals = @ \cup m.obj]
           \/ m.type \in ObjectTypes /\ CollectType(s, m) = CollectObject(s, m)
<1>1. m.type \in Scalars \cup ObjectTypes \cup {"any", "struct", "literal"}
  BY ConstantsOK
<1>2. /\ {"any", "struct", "literal"} \cap Scalars = {}
      /\ {"any", "struct", "literal"} \cap ObjectTypes = {}
      /\ Scalars \cap ObjectTypes = {}
      /\ "any" # "struct" /\ "any" # "literal" /\ "struct" # "literal"
  BY DEF Scalars, BytesLike, ObjectTypes, Slot7
<1>3. CASE m.type = "any"
  <2>1. CollectType(s, m) = [Cleared EXCEPT !.types = {"any"}]
    BY <1>2, <1>3, Zenon DEF CollectType
  <2>2. QED
    BY <1>3, <2>1
<1>4. CASE m.type \in Scalars
  <2>1. m.type # "any" /\ m.type # "struct" /\ m.type # "literal"
    BY <1>2, <1>4
  <2>2. CollectType(s, m) = [s EXCEPT !.types = @ \cup {m.type}]
    BY <1>4, <2>1, Zenon DEF CollectType
  <2>3. QED
    BY <1>4, <2>2
<1>5. CASE m.type = "struct"
  <2>1. m.type \notin Scalars
    BY <1>2, <1>5
  <2>2. CollectType(s, m) = CollectStruct(s, m)
    BY <1>2, <1>5, <2>1, Zenon DEF CollectType
  <2>3. QED
    BY <1>5, <2>2
<1>6. CASE m.type = "literal"
  <2>1. m.type \notin Scalars
    BY <1>2, <1>6
  <2>2. CollectType(s, m) = [s EXCEPT !.literals = @ \cup m.obj]
    BY <1>2, <1>6, <2>1, Zenon DEF CollectType
  <2>3. QED
    BY <1>6, <2>2
<1>7. CASE m.type \in ObjectTypes
  <2>1. m.type \notin Scalars /\ m.type # "any" /\ m.type # "struct" /\ m.type # "literal"
    BY <1>2, <1>7
  <2>2. CollectType(s, m) = CollectObject(s, m)
    BY <2>1, Zenon DEF CollectType
  <2>3. QED
    BY <1>7, <2>2
<1>8. QED
  BY <1>1, <1>3, <1>4, <1>5, <1>6, <1>7

LEMMA CollectTypeIsGood ==
    ASSUME NEW s, Good(s), s.ok, "any" \notin s.types, NEW m \in Member,
           NEW t, t = CollectType(s, m)
    PROVE  Good(t) /\ ("any" \in t.types => m.type = "any")
<1>1. CASE m.type = "any" /\ t = [Cleared EXCEPT !.types = {"any"}]
  BY <1>1, CollectAnyIsGood
<1>2. CASE m.type \in Scalars /\ t = [s EXCEPT !.types = @ \cup {m.type}]
  BY <1>2, CollectScalarIsGood
<1>3. CASE m.type = "struct" /\ t = CollectStruct(s, m)
  BY <1>3, CollectApartIsGood
<1>4. CASE m.type = "literal" /\ t = [s EXCEPT !.literals = @ \cup m.obj]
  BY <1>4, CollectApartIsGood
<1>5. CASE m.type \in ObjectTypes /\ t = CollectObject(s, m)
  BY <1>5, CollectObjectIsGood
<1>6. QED
  BY <1>1, <1>2, <1>3, <1>4, <1>5, CollectTypeIs

LEMMA HookIsHeld ==
    ASSUME NEW s, Held(s), NEW bit \in {"codec", "user"}, NEW t,
           t.types = s.types \cup {bit}, t.mask = s.mask,
           \A o \in Slot \ {bit} : t.obj[o] = s.obj[o]
    PROVE  Held(t)
<1>1. PICK k \in 1..16 : k \in {13, 14} /\ Layout[k] = bit /\ BitsOf[k] = {bit}
  <2>1. CASE bit = "codec"
    BY <2>1, LayoutIsInjective DEF BitsOf
  <2>2. CASE bit = "user"
    BY <2>2, LayoutIsInjective DEF BitsOf
  <2>3. QED
    BY <2>1, <2>2
<1>2. PICK bits : bits = {bit}
  OBVIOUS
<1>3. bits \subseteq BitsOf[k] \cup Free /\ t.types = s.types \cup bits
  BY <1>1, <1>2
<1>4. "fixtuple" \in t.types => Len(t.obj["array"]) \in Nat
  <2>1. "array" \in Slot \ {bit} /\ "fixtuple" # bit
    BY DEF Slot
  <2>2. QED
    BY <2>1 DEF Held
<1>5. "any" \in t.types => t.mask = {}
  BY DEF Held
<1>6. \A o \in Slot \ {Layout[k]} : t.obj[o] = s.obj[o]
  BY <1>1
<1>7. k \in {13, 14} \/ HeldAt(t, k)
  BY <1>1
<1>8. QED
  BY <1>3, <1>4, <1>5, <1>6, <1>7, HeldStays

(* A codec and a user-defined constraint are kept next to the types.        *)
LEMMA HookIsGood ==
    ASSUME NEW s, Good(s), s.ok, NEW bit \in {"codec", "user"}
    PROVE  \A types, x, t : types = s.types \cup {bit} /\ t = With(s, types, bit, x) =>
                Good(t) /\ t.types = types
<1>0. SUFFICES ASSUME NEW types, NEW x, NEW t,
                      types = s.types \cup {bit}, t = With(s, types, bit, x)
               PROVE  Good(t) /\ t.types = types
  OBVIOUS
<1>1. bit \in Slot /\ bit \in CollectedTypes /\ bit # "any" /\ bit # "fixtuple" /\ bit # "array"
  <2>1. bit \in Slot
    BY DEF Slot
  <2>2. bit \in Types
    BY DEF Types
  <2>3. bit # "any" /\ bit # "fixtuple" /\ bit # "array" /\ bit # "constr"
    OBVIOUS
  <2>4. QED
    BY <2>1, <2>2, <2>3 DEF CollectedTypes
<1>2. StateOK(s) /\ types \subseteq CollectedTypes
  BY <1>0, <1>1 DEF Good, StateOK
<1>a. bit \in Slot
  BY <1>1
<1>b. t = With(s, types, bit, x)
  BY <1>0
<1>3. t.types = types
  BY <1>a, <1>b, <1>2, WithIs
<1>4. \A o \in Slot \ {bit} : t.obj[o] = s.obj[o]
  BY <1>a, <1>b, <1>2, WithIs
<1>5. t.mask = s.mask
  BY <1>a, <1>b, <1>2, WithIs
<1>6. StateOK(t)
  BY <1>a, <1>b, <1>2, WithIs
<1>7. Held(t)
  <2>1. Held(s) /\ t.types = s.types \cup {bit}
    BY <1>0, <1>3 DEF Good
  <2>2. QED
    BY <1>4, <1>5, <2>1, HookIsHeld
<1>8. Given(t)
  BY <1>5 DEF Good, Given
<1>9. Absent(t, Second)
  <2>1. Second \subseteq Slot \ {bit}
    BY DEF Second, Slot
  <2>2. QED
    BY <1>4, <2>1 DEF Good, Absent
<1>10. QED
  BY <1>3, <1>6, <1>7, <1>8, <1>9 DEF Good

LEMMA CollectSerializerIsGood ==
    ASSUME NEW s, Good(s), s.ok, NEW m \in Member, NEW t, t = CollectSerializer(s, m)
    PROVE  Good(t) /\ ("any" \in t.types => "any" \in s.types)
<1>1. PICK types : types = s.types \cup {"codec"}
  OBVIOUS
<1>2. PICK x : x = m.codec
  OBVIOUS
<1>3. t = s \/ t = Refuse(s) \/ t = With(s, types, "codec", x)
  BY <1>1, <1>2 DEF CollectSerializer, With
<1>4. CASE t = With(s, types, "codec", x)
  <2>1. Good(t) /\ t.types = types
    BY <1>1, <1>4, HookIsGood
  <2>2. QED
    BY <1>1, <2>1
<1>5. CASE t = Refuse(s)
  BY <1>5, RefuseIsGood DEF Good
<1>6. QED
  BY <1>3, <1>4, <1>5

-----------------------------------------------------------------------------
(* Constraints.                                                             *)

LEMMA KindIs ==
    /\ \A type : KindOf(type) = "float" => type = "float"
    /\ KindOf("any") = "other"
<1>1. ASSUME NEW type, KindOf(type) = "float" PROVE type = "float"
  <2>1. "bytes" # "float" /\ "time" # "float" /\ "map" # "float" /\ "array" # "float"
        /\ "other" # "float"
    OBVIOUS
  <2>2. CASE type \in {"int", "float", "str"}
    <3>1. KindOf(type) = type
      <4>1. /\ type \notin BytesLike /\ type \notin {"datetime", "time"}
            /\ type # "dict" /\ type \notin Slot7
        BY <2>2 DEF BytesLike, Slot7
      <4>2. QED
        BY <2>2, <4>1, Zenon DEF KindOf
    <3>2. QED
      BY <1>1, <3>1
  <2>3. CASE type \notin {"int", "float", "str"}
    <3>1. KindOf(type) \in {"bytes", "time", "map", "array", "other"}
      BY <2>3, Zenon DEF KindOf
    <3>2. QED
      BY <1>1, <2>1, <3>1
  <2>4. QED
    BY <2>2, <2>3
<1>2. KindOf("any") = "other"
  <2>1. /\ "any" \notin {"int", "float", "str"} /\ "any" \notin BytesLike
        /\ "any" \notin {"datetime", "time"} /\ "any" # "dict" /\ "any" \notin Slot7
    BY DEF BytesLike, Slot7
  <2>2. QED
    BY <2>1, Zenon DEF KindOf
<1>3. QED
  BY <1>1, <1>2

LEMMA AppliesToIs ==
    /\ AppliesTo("numeric") = {"int", "float"}
    /\ AppliesTo("str") = {"str"}
    /\ AppliesTo("bytes") = {"bytes"}
    /\ AppliesTo("collection") = {"array", "map"}
    /\ AppliesTo("tz") = {"time"}
BY DEF AppliesTo

LEMMA CnBitIs ==
    /\ \A p : p \in {"gt", "ge"} => CnBit("int", p) = <<"int", "min">>
    /\ \A p : p \in {"lt", "le"} => CnBit("int", p) = <<"int", "max">>
    /\ \A p : p \notin {"gt", "ge", "lt", "le"} => CnBit("int", p) = <<"int", p>>
    /\ \A kind, p : kind # "int" => CnBit(kind, p) = <<kind, p>>
<1>1. ASSUME NEW p, p \in {"gt", "ge"} PROVE CnBit("int", p) = <<"int", "min">>
  <2>1. p \notin {"lt", "le"}
    BY <1>1
  <2>2. QED
    BY <1>1, <2>1, Zenon DEF CnBit
<1>2. ASSUME NEW p, p \in {"lt", "le"} PROVE CnBit("int", p) = <<"int", "max">>
  <2>1. p \notin {"gt", "ge"}
    BY <1>2
  <2>2. QED
    BY <1>2, <2>1, Zenon DEF CnBit
<1>3. ASSUME NEW p, p \notin {"gt", "ge", "lt", "le"} PROVE CnBit("int", p) = <<"int", p>>
  <2>1. p \notin {"gt", "ge"} /\ p \notin {"lt", "le"}
    BY <1>3
  <2>2. QED
    BY <2>1, Zenon DEF CnBit
<1>4. \A kind, p : kind # "int" => CnBit(kind, p) = <<kind, p>>
  BY Zenon DEF CnBit
<1>5. QED
  BY <1>1, <1>2, <1>3, <1>4

(* The details of the bits of a ConstraintNode.                             *)
LEMMA CnOrderIs ==
    /\ CnIndex = 1..15
    /\ \A k \in CnIndex : CnOrder[k] \subseteq CnBits
    /\ <<"str", "pattern">> \in CnOrder[1]
    /\ <<"int", "min">> \in CnOrder[2] /\ <<"int", "max">> \in CnOrder[3]
    /\ <<"int", "multiple_of">> \in CnOrder[4]
    /\ CnOrder[5] = {<<"float", "gt">>, <<"float", "ge">>}
    /\ CnOrder[6] = {<<"float", "lt">>, <<"float", "le">>}
    /\ <<"float", "multiple_of">> \in CnOrder[7]
    /\ <<"str", "min_length">> \in CnOrder[8] /\ <<"str", "max_length">> \in CnOrder[9]
    /\ <<"bytes", "min_length">> \in CnOrder[10] /\ <<"bytes", "max_length">> \in CnOrder[11]
    /\ <<"array", "min_length">> \in CnOrder[12] /\ <<"array", "max_length">> \in CnOrder[13]
    /\ <<"map", "min_length">> \in CnOrder[14] /\ <<"map", "max_length">> \in CnOrder[15]
<1>1. CnIndex = 1..15
  BY DEF CnIndex, CnOrder
<1>2. \A k \in CnIndex : CnOrder[k] \subseteq CnBits
  BY DEF CnBits, CnDetails
<1>3. QED
  BY <1>1, <1>2 DEF CnOrder

LEMMA CompiledBits ==
    ASSUME NEW class, class \in DOMAIN ParamsOf, NEW kind, kind \in AppliesTo(class),
           NEW p, p \in ParamsOf[class]
    PROVE  CnBit(kind, p) \in CnBits
<1>1. <<"time", "aware">> \in CnBits /\ <<"time", "naive">> \in CnBits
  BY DEF CnBits
<1>2. CASE class = "numeric"
  <2>1. p \in {"gt", "ge", "lt", "le", "multiple_of"} /\ kind \in {"int", "float"}
    BY <1>2, AppliesToIs DEF ParamsOf
  <2>2. CASE kind = "int"
    <3>1. CnBit(kind, p) \in {<<"int", "min">>, <<"int", "max">>, <<"int", "multiple_of">>}
      BY <2>1, <2>2, CnBitIs
    <3>2. QED
      BY <3>1, CnOrderIs
  <2>3. CASE kind = "float"
    <3>1. CnBit(kind, p) \in {<<"float", "gt">>, <<"float", "ge">>, <<"float", "lt">>,
                              <<"float", "le">>, <<"float", "multiple_of">>}
      BY <2>1, <2>3, CnBitIs
    <3>2. QED
      BY <3>1, CnOrderIs
  <2>4. QED
    BY <2>1, <2>2, <2>3
<1>3. CASE class = "str"
  <2>1. p \in {"pattern", "min_length", "max_length"} /\ kind = "str"
    BY <1>3, AppliesToIs DEF ParamsOf
  <2>2. CnBit(kind, p) \in {<<"str", "pattern">>, <<"str", "min_length">>, <<"str", "max_length">>}
    BY <2>1, CnBitIs
  <2>3. QED
    BY <2>2, CnOrderIs
<1>4. CASE class = "bytes"
  <2>1. p \in {"min_length", "max_length"} /\ kind = "bytes"
    BY <1>4, AppliesToIs DEF ParamsOf
  <2>2. CnBit(kind, p) \in {<<"bytes", "min_length">>, <<"bytes", "max_length">>}
    BY <2>1, CnBitIs
  <2>3. QED
    BY <2>2, CnOrderIs
<1>5. CASE class = "collection"
  <2>1. p \in {"min_length", "max_length"} /\ kind \in {"array", "map"}
    BY <1>5, AppliesToIs DEF ParamsOf
  <2>2. CnBit(kind, p) \in {<<"array", "min_length">>, <<"array", "max_length">>,
                            <<"map", "min_length">>, <<"map", "max_length">>}
    BY <2>1, CnBitIs
  <2>3. QED
    BY <2>2, CnOrderIs
<1>6. CASE class = "tz"
  <2>1. p \in {"aware", "naive"} /\ kind = "time"
    BY <1>6, AppliesToIs DEF ParamsOf
  <2>2. CnBit(kind, p) \in {<<"time", "aware">>, <<"time", "naive">>}
    BY <2>1, CnBitIs
  <2>3. QED
    BY <1>1, <2>2
<1>7. class \in {"numeric", "str", "bytes", "collection", "tz"}
  BY DEF ParamsOf
<1>8. QED
  BY <1>2, <1>3, <1>4, <1>5, <1>6, <1>7

LEMMA InwardsIsInt == \A p : Inwards(p) \in Int
<1>1. \A p : Inwards(p) = 1 \/ Inwards(p) = -1 \/ Inwards(p) = 0
  BY Zenon DEF Inwards
<1>2. QED
  BY <1>1

(* A compiled constraint of a member that is no Any.                        *)
LEMMA CompileIsGood ==
    ASSUME NEW s, Good(s), s.ok, NEW m \in Member, "any" \in s.types => m.type = "any",
           m.constr # Null, m.constr.class # "user",
           NEW t, t = Compile(s, m.constr, KindOf(m.type))
    PROVE  Good(t) /\ ("any" \in t.types => "any" \in s.types)
<1>1. PICK c : c = m.constr
  OBVIOUS
<1>2. PICK kind : kind = KindOf(m.type)
  OBVIOUS
<1>3. /\ c.class \in DOMAIN ParamsOf
      /\ DOMAIN c.params \subseteq ParamsOf[c.class]
      /\ \A p \in DOMAIN c.params : c.params[p] \in Int
  BY <1>1, ConstantsOK
<1> DEFINE value(p) == c.params[p] + Inwards(p)
           group(k) == {p \in DOMAIN c.params : CnBit(kind, p) \in CnOrder[k]}
           mask == s.mask \cup {CnBit(kind, p) : p \in DOMAIN c.params}
           bound == [k \in CnIndex |-> IF group(k) = {} THEN s.bound[k]
                                       ELSE value(CHOOSE p \in group(k) : TRUE)]
<1>4. \/ t = s \/ t = Refuse(s)
      \/ kind \in AppliesTo(c.class) /\ t = [s EXCEPT !.mask = mask, !.bound = bound]
  BY <1>1, <1>2 DEF Compile
<1>5. CASE kind \in AppliesTo(c.class) /\ t = [s EXCEPT !.mask = mask, !.bound = bound]
  <2>1. s = [i \in Fields |-> s[i]]
    BY DEF Good, StateOK
  <2>2. /\ t.types = s.types /\ t.obj = s.obj /\ t.structs = s.structs
        /\ t.literals = s.literals /\ t.mask = mask /\ t.bound = bound
        /\ t = [i \in Fields |-> t[i]]
    <3> HIDE DEF mask, bound
    <3>1. QED
      BY <1>5, <2>1 DEF Fields
  <2>3. mask \subseteq CnBits
    <3>1. \A p \in DOMAIN c.params : CnBit(kind, p) \in CnBits
      BY <1>3, <1>5, CompiledBits
    <3>2. QED
      BY <3>1 DEF Good, StateOK
  <2>4. bound \in [CnIndex -> Int]
    <3>1. \A p \in DOMAIN c.params : value(p) \in Int
      BY <1>3, InwardsIsInt
    <3>2. ASSUME NEW k \in CnIndex, group(k) # {} PROVE value(CHOOSE p \in group(k) : TRUE) \in Int
      <4>1. (CHOOSE p \in group(k) : TRUE) \in group(k)
        BY <3>2
      <4>2. (CHOOSE p \in group(k) : TRUE) \in DOMAIN c.params
        BY <4>1
      <4> HIDE DEF group, value
      <4>3. QED
        BY <3>1, <4>2
    <3>3. \A k \in CnIndex : s.bound[k] \in Int
      BY DEF Good, StateOK
    <3> HIDE DEF group, value
    <3>4. QED
      BY <3>2, <3>3
  <2> HIDE DEF mask, bound
  <2>5. StateOK(t)
    BY <2>2, <2>3, <2>4 DEF Good, StateOK
  <2>6. kind # "other"
    <3>1. c.class \in {"numeric", "str", "bytes", "collection", "tz"}
      BY <1>3 DEF ParamsOf
    <3>2. QED
      BY <1>5, <3>1, AppliesToIs
  <2>7. "any" \notin s.types
    BY <1>2, <2>6, KindIs
  <2>8. Held(t)
    BY <2>2, <2>7 DEF Good, Held, HeldAt
  <2>9. Given(t)
    <3> SUFFICES ASSUME NEW p \in ParamsOf.numeric, <<"float", p>> \in t.mask
                 PROVE  \E n \in Members("float") : /\ n.constr # Null /\ n.constr.class # "user"
                                                    /\ p \in DOMAIN n.constr.params
      BY DEF Given
    <3>1. CASE <<"float", p>> \in s.mask
      BY <3>1 DEF Good, Given
    <3>2. CASE <<"float", p>> \notin s.mask
      <4>1. PICK q \in DOMAIN c.params : CnBit(kind, q) = <<"float", p>>
        BY <2>2, <3>2 DEF mask
      <4>2. kind = "float" /\ q = p
        <5>1. CASE kind = "int"
          <6>1. CnBit(kind, q) \in {<<"int", "min">>, <<"int", "max">>, <<"int", q>>}
            BY <5>1, CnBitIs
          <6>2. QED
            BY <4>1, <6>1
        <5>2. CASE kind # "int"
          BY <4>1, <5>2, CnBitIs
        <5>3. QED
          BY <5>1, <5>2
      <4>3. m \in Members("float")
        BY <1>2, <4>2, KindIs DEF Members
      <4>4. QED
        BY <1>1, <4>2, <4>3
    <3>3. QED
      BY <3>1, <3>2
  <2>10. Absent(t, Second)
    BY <2>2 DEF Good, Absent
  <2>11. QED
    BY <2>2, <2>5, <2>8, <2>9, <2>10 DEF Good
<1>6. CASE t = Refuse(s)
  BY <1>6, RefuseIsGood DEF Good
<1>7. QED
  BY <1>4, <1>5, <1>6

LEMMA CollectConstraintIsGood ==
    ASSUME NEW s, Good(s), NEW m \in Member, "any" \in s.types => m.type = "any",
           NEW t, t = CollectConstraint(s, m)
    PROVE  Good(t)
<1>1. PICK types : types = s.types \cup {"user"}
  OBVIOUS
<1>2. PICK x : x = m.constr.class
  OBVIOUS
<1>3. \/ t = s
      \/ s.ok /\ t = With(s, types, "user", x)
      \/ s.ok /\ m.constr # Null /\ m.constr.class # "user"
              /\ t = Compile(s, m.constr, KindOf(m.type))
  BY <1>1, <1>2 DEF CollectConstraint, With
<1>4. CASE s.ok /\ t = With(s, types, "user", x)
  BY <1>1, <1>4, HookIsGood
<1>5. CASE /\ s.ok /\ m.constr # Null /\ m.constr.class # "user"
           /\ t = Compile(s, m.constr, KindOf(m.type))
  BY <1>5, CompileIsGood
<1>6. QED
  BY <1>3, <1>4, <1>5

(* Whatever a member adds, the collect state stays in order.                *)
LEMMA CollectMemberIsGood ==
    ASSUME NEW s, Good(s), s.ok, NEW m \in Member, NEW t, t = CollectMember(s, m)
    PROVE  Good(t)
<1>1. CASE "any" \in s.types
  BY <1>1 DEF CollectMember
<1>2. CASE "any" \notin s.types /\ t = Refuse(s)
  BY <1>2, RefuseIsGood DEF Good
<1>3. CASE "any" \notin s.types /\ t # Refuse(s)
  <2>1. PICK u : u = CollectType(s, m)
    OBVIOUS
  <2>2. Good(u) /\ ("any" \in u.types => m.type = "any")
    BY <1>3, <2>1, CollectTypeIsGood
  <2>3. t = IF u.ok THEN CollectConstraint(CollectSerializer(u, m), m) ELSE u
    BY <1>3, <2>1 DEF CollectMember
  <2>4. CASE u.ok
    <3>1. PICK v : v = CollectSerializer(u, m)
      OBVIOUS
    <3>2. Good(v) /\ ("any" \in v.types => m.type = "any")
      BY <2>2, <2>4, <3>1, CollectSerializerIsGood
    <3>3. t = CollectConstraint(v, m)
      BY <2>3, <2>4, <3>1
    <3>4. QED
      BY <3>2, <3>3, CollectConstraintIsGood
  <2>5. CASE ~u.ok
    BY <2>2, <2>3, <2>5
  <2>6. QED
    BY <2>4, <2>5
<1>4. QED
  BY <1>1, <1>2, <1>3

-----------------------------------------------------------------------------
(* The second passes.                                                       *)

(* What is known of the collect state once the classes have been looked at. *)
OneStruct(s) == s.obj["structinfo"] = Null \/ s.obj["structlookup"] = Null
Kept(s) == StateOK(s) /\ Held(s) /\ Given(s) /\ OneStruct(s)

LEMMA ClassesAreObjects ==
    ASSUME NEW s, StateOK(s)
    PROVE  /\ \A x \in s.structs : x # Null
           /\ s.structs # Null
           /\ \A S \in SUBSET s.literals : S # Null
<1>1. ASSUME NEW x \in s.structs PROVE x # Null
  <2>1. PICK m \in Members("struct") : x = m.obj
    BY DEF StateOK
  <2>2. m \in Member /\ m.type = "struct"
    BY <2>1 DEF Members
  <2>3. QED
    BY <2>1, <2>2, ConstantsOK
<1>2. Members("struct") = {n \in Member : n.type = "struct"}
  BY DEF Members
<1>3. Members("literal") = {n \in Member : n.type = "literal"}
  BY DEF Members
<1>4. s.structs # Null
  <2>1. s.structs \in SUBSET {m.obj : m \in {n \in Member : n.type = "struct"}}
    BY <1>2 DEF StateOK
  <2>2. QED
    BY <2>1, ConstantsOK
<1>5. ASSUME NEW S \in SUBSET s.literals PROVE S # Null
  <2>1. S \in SUBSET UNION {m.obj : m \in {n \in Member : n.type = "literal"}}
    BY <1>3 DEF StateOK
  <2>2. QED
    BY <2>1, ConstantsOK
<1>6. QED
  BY <1>1, <1>4, <1>5

(* A class or a lookup for the classes, in a state that has none.           *)
LEMMA StructIsKept ==
    ASSUME NEW s, Good(s), s.ok, NEW k \in {2, 3}, NEW bit \in BitsOf[k], NEW x, x # Null
    PROVE  \A types, t :
              types = s.types \cup {bit} /\ t = With(s, types, Layout[k], x) =>
                  Kept(t) /\ Absent(t, {"intliteral", "strliteral"})
<1>0. SUFFICES ASSUME NEW types, NEW t,
                      types = s.types \cup {bit}, t = With(s, types, Layout[k], x)
               PROVE  Kept(t) /\ Absent(t, {"intliteral", "strliteral"})
  OBVIOUS
<1>1. PICK slot : slot = Layout[k]
  OBVIOUS
<1>2. /\ slot \in {"structinfo", "structlookup"}
      /\ slot \in Slot /\ {"intliteral", "strliteral", "structinfo", "structlookup"} \subseteq Slot
  BY <1>1, LayoutIsInjective DEF Slot
<1>3. bit \in CollectedTypes /\ bit # "any" /\ bit # "fixtuple"
  BY DEF BitsOf, Types, CollectedTypes, ObjSlots, Slot0
<1>a. StateOK(s)
  BY DEF Good
<1>b. types \subseteq CollectedTypes
  BY <1>0, <1>3, <1>a DEF StateOK
<1>c. slot \in Slot
  BY <1>2
<1>4. t = With(s, types, slot, x)
  BY <1>0, <1>1
<1>5. t.types = types
  BY <1>4, <1>a DEF With, StateOK, Fields
<1>6. \A o \in Slot \ {slot} : t.obj[o] = s.obj[o]
  BY <1>4, <1>a, <1>b, <1>c, WithIs
<1>7. t.obj[slot] = x
  BY <1>4, <1>a, <1>b, <1>c, WithIs
<1>8. t.mask = s.mask
  BY <1>4, <1>a DEF With, StateOK, Fields
<1>9. StateOK(t)
  BY <1>4, <1>a, <1>b, <1>c, WithIs
<1>10. Held(s) /\ Given(s) /\ Absent(s, Second)
  BY DEF Good
<1>11. HeldAt(t, k)
  <2>1. HeldAt(s, k)
    BY <1>10 DEF Held
  <2>2. s.obj[slot] = Null
    BY <1>2, <1>10 DEF Absent, Second
  <2>3. s.types \cap BitsOf[k] = {}
    BY <1>1, <2>1, <2>2 DEF HeldAt
  <2>4. t.types \cap BitsOf[k] = {bit}
    BY <1>0, <1>5, <2>3
  <2>5. QED
    BY <1>1, <1>7, <2>4 DEF HeldAt
<1>12. Held(t)
  <2>1. PICK i \in 1..16 : i = k
    OBVIOUS
  <2>2. PICK bits : bits = {bit}
    OBVIOUS
  <2>3. bits \subseteq BitsOf[i] \cup Free /\ t.types = s.types \cup bits
    BY <1>0, <1>5, <2>1, <2>2
  <2>4. "fixtuple" \in t.types => Len(t.obj["array"]) \in Nat
    <3>1. "array" \in Slot \ {slot}
      BY <1>2 DEF Slot
    <3>2. QED
      BY <1>0, <1>3, <1>5, <1>6, <1>10, <3>1 DEF Held
  <2>5. "any" \in t.types => t.mask = {}
    BY <1>0, <1>3, <1>5, <1>8, <1>10 DEF Held
  <2>6. \A o \in Slot \ {Layout[i]} : t.obj[o] = s.obj[o]
    BY <1>1, <1>6, <2>1
  <2>7. i \in {13, 14} \/ HeldAt(t, i)
    BY <1>11, <2>1
  <2>8. QED
    BY <1>10, <2>3, <2>4, <2>5, <2>6, <2>7, HeldStays
<1>13. Given(t)
  BY <1>8, <1>10 DEF Given
<1>14. OneStruct(t)
  BY <1>2, <1>6, <1>10 DEF OneStruct, Absent, Second
<1>15. Absent(t, {"intliteral", "strliteral"})
  BY <1>2, <1>6, <1>10 DEF Absent, Second
<1>16. QED
  BY <1>9, <1>12, <1>13, <1>14, <1>15 DEF Kept

LEMMA ValidateStructsKeeps ==
    ASSUME Good(st), st.ok, ValidateStructs, phase' # "refused"
    PROVE  Kept(st)' /\ Absent(st', {"intliteral", "strliteral"})
<1>1. CASE UNCHANGED st
  <2>1. Kept(st) /\ Absent(st, {"intliteral", "strliteral"})
    BY DEF Good, Kept, OneStruct, Absent, Second
  <2>2. st' = st
    BY <1>1
  <2>3. QED
    BY <2>1, <2>2 DEF Kept
<1>2. CASE \E bit \in BitsOf[2] : \E x : /\ x # Null
                                         /\ st' = With(st, st.types \cup {bit}, "structinfo", x)
  <2>0. PICK bit \in BitsOf[2] :
           \E x : x # Null /\ st' = With(st, st.types \cup {bit}, "structinfo", x)
    BY <1>2
  <2>1. PICK x : x # Null /\ st' = With(st, st.types \cup {bit}, "structinfo", x)
    BY <2>0
  <2>2. PICK types : types = st.types \cup {bit}
    OBVIOUS
  <2>3. st' = With(st, types, Layout[2], x)
    BY <2>1, <2>2, LayoutIsInjective
  <2>4. Kept(st') /\ Absent(st', {"intliteral", "strliteral"})
    BY <2>1, <2>2, <2>3, StructIsKept
  <2>5. QED
    BY <2>4
<1>3. CASE \E bit \in BitsOf[3] : \E x : /\ x # Null
                                         /\ st' = With(st, st.types \cup {bit}, "structlookup", x)
  <2>0. PICK bit \in BitsOf[3] :
           \E x : x # Null /\ st' = With(st, st.types \cup {bit}, "structlookup", x)
    BY <1>3
  <2>1. PICK x : x # Null /\ st' = With(st, st.types \cup {bit}, "structlookup", x)
    BY <2>0
  <2>2. PICK types : types = st.types \cup {bit}
    OBVIOUS
  <2>3. st' = With(st, types, Layout[3], x)
    BY <2>1, <2>2, LayoutIsInjective
  <2>4. Kept(st') /\ Absent(st', {"intliteral", "strliteral"})
    BY <2>1, <2>2, <2>3, StructIsKept
  <2>5. QED
    BY <2>4
<1>4. UNCHANGED st \/ (\E array \in BOOLEAN :
         \/ /\ st.structs # {}
            /\ st' = [st EXCEPT !.types = @ \cup {IF array THEN "structarray" ELSE "struct"},
                                !.obj["structinfo"] = CHOOSE s \in st.structs : TRUE]
         \/ st' = [st EXCEPT !.types = @ \cup {IF array THEN "structarrayunion"
                                                ELSE "structunion"},
                             !.obj["structlookup"] = st.structs])
  <2>1. PICK array \in BOOLEAN : array = \E s \in st.structs : s \in ArrayLike
    OBVIOUS
  <2>2. QED
    BY <2>1 DEF ValidateStructs
<1>5. ASSUME NEW array \in BOOLEAN, st.structs # {},
             st' = [st EXCEPT !.types = @ \cup {IF array THEN "structarray" ELSE "struct"},
                              !.obj["structinfo"] = CHOOSE s \in st.structs : TRUE]
      PROVE  \E bit \in BitsOf[2] : \E x : /\ x # Null
                                           /\ st' = With(st, st.types \cup {bit}, "structinfo", x)
  <2>1. PICK bit \in BitsOf[2] : bit = IF array THEN "structarray" ELSE "struct"
    BY DEF BitsOf
  <2>2. PICK x : x = CHOOSE s \in st.structs : TRUE
    OBVIOUS
  <2>3. x # Null
    BY <1>5, <2>2, ClassesAreObjects DEF Good
  <2>4. st' = With(st, st.types \cup {bit}, "structinfo", x)
    BY <1>5, <2>1, <2>2 DEF With
  <2>5. QED
    BY <2>3, <2>4
<1>6. ASSUME NEW array \in BOOLEAN,
             st' = [st EXCEPT !.types = @ \cup {IF array THEN "structarrayunion"
                                                ELSE "structunion"},
                              !.obj["structlookup"] = st.structs]
      PROVE  \E bit \in BitsOf[3] : \E x : /\ x # Null
                                           /\ st' = With(st, st.types \cup {bit}, "structlookup", x)
  <2>1. PICK bit \in BitsOf[3] : bit = IF array THEN "structarrayunion" ELSE "structunion"
    BY DEF BitsOf
  <2>2. PICK x : x = st.structs
    OBVIOUS
  <2>3. x # Null
    BY <2>2, ClassesAreObjects DEF Good
  <2>4. st' = With(st, st.types \cup {bit}, "structlookup", x)
    BY <1>6, <2>1, <2>2 DEF With
  <2>5. QED
    BY <2>3, <2>4
<1>7. QED
  BY <1>1, <1>2, <1>3, <1>4, <1>5, <1>6

LEMMA ValidateLiteralsKeeps ==
    ASSUME Kept(st), Absent(st, {"intliteral", "strliteral"}), ValidateLiterals
    PROVE  Kept(st)'
<1>1. PICK ints : ints = st.literals \cap IntLiterals
  OBVIOUS
<1>2. PICK strs : strs = st.literals \ (IntLiterals \cup {"none", "true", "false"})
  OBVIOUS
<1>3. PICK ib : ib = IF ints # {} THEN {"intliteral"} ELSE {}
  OBVIOUS
<1>4. PICK sb : sb = IF strs # {} THEN {"strliteral"} ELSE {}
  OBVIOUS
<1>5. PICK rest : rest = st.literals \cap {"none", "true", "false"}
  OBVIOUS
<1>6. PICK x : x = IF ints = {} THEN Null ELSE ints
  OBVIOUS
<1>7. PICK y : y = IF strs = {} THEN Null ELSE strs
  OBVIOUS
<1>8. st' = [st EXCEPT !.types = @ \cup ib \cup sb \cup rest,
                       !.obj["intliteral"] = x, !.obj["strliteral"] = y]
  BY <1>1, <1>2, <1>3, <1>4, <1>5, <1>6, <1>7 DEF ValidateLiterals
<1>9. PICK types : types = st.types \cup ib \cup sb \cup rest
  OBVIOUS
<1>10. st = [i \in Fields |-> st[i]]
  BY DEF Kept, StateOK
<1>11. /\ st'.types = types
       /\ st'.obj = [st.obj EXCEPT !["intliteral"] = x, !["strliteral"] = y]
       /\ st'.structs = st.structs /\ st'.literals = st.literals
       /\ st'.mask = st.mask /\ st'.bound = st.bound
       /\ st' = [i \in Fields |-> st'[i]]
  <2>1. st' = [st EXCEPT !.types = types,
                         !.obj["intliteral"] = x, !.obj["strliteral"] = y]
    BY <1>8, <1>9
  <2>2. QED
    BY <1>10, <2>1 DEF Fields
<1>12. st.obj = [o \in Slot |-> st.obj[o]] /\ {"intliteral", "strliteral"} \subseteq Slot
  BY DEF Kept, StateOK, Slot
<1>13. /\ st'.obj["intliteral"] = x /\ st'.obj["strliteral"] = y
       /\ \A o \in Slot \ {"intliteral", "strliteral"} : st'.obj[o] = st.obj[o]
       /\ st'.obj = [o \in Slot |-> st'.obj[o]]
  BY <1>11, <1>12
<1>14. types \subseteq CollectedTypes
  BY <1>3, <1>4, <1>5, <1>9
     DEF Kept, StateOK, Types, CollectedTypes, ObjSlots, Slot1, Slot2, Scalars
<1>15. StateOK(st')
  BY <1>11, <1>13, <1>14 DEF Kept, StateOK
<1>16. Held(st')
  <2>1. Layout[7] = "intliteral" /\ Layout[9] = "strliteral"
    BY DEF Layout
  <2>2. BitsOf[7] = {"intliteral"} /\ BitsOf[9] = {"strliteral"}
    BY DEF BitsOf
  <2>3. st.types \cap BitsOf[7] = {} /\ st.types \cap BitsOf[9] = {}
    <3>1. st.obj[Layout[7]] = Null /\ st.obj[Layout[9]] = Null
      BY <2>1 DEF Absent
    <3>2. HeldAt(st, 7) /\ HeldAt(st, 9)
      BY DEF Kept, Held
    <3>3. QED
      BY <3>1, <3>2 DEF HeldAt
  <2>4. ints # Null /\ strs # Null
    <3>1. ints \in SUBSET st.literals /\ strs \in SUBSET st.literals
      BY <1>1, <1>2
    <3>2. QED
      BY <3>1, ClassesAreObjects DEF Kept
  <2>5. "intliteral" \notin sb \cup rest /\ "strliteral" \notin ib \cup rest
    BY <1>3, <1>4, <1>5
  <2>6. HeldAt(st', 7)
    <3>1. st'.types \cap BitsOf[7] = ib
      BY <1>3, <1>9, <1>11, <2>2, <2>3, <2>5
    <3>2. st'.obj[Layout[7]] = x
      BY <1>13, <2>1
    <3>3. QED
      BY <1>3, <1>6, <2>2, <2>4, <3>1, <3>2 DEF HeldAt
  <2>7. HeldAt(st', 9)
    <3>1. st'.types \cap BitsOf[9] = sb
      BY <1>4, <1>9, <1>11, <2>2, <2>3, <2>5
    <3>2. st'.obj[Layout[9]] = y
      BY <1>13, <2>1
    <3>3. QED
      BY <1>4, <1>7, <2>2, <2>4, <3>1, <3>2 DEF HeldAt
  <2>8. ASSUME NEW k \in 1..16 \ {13, 14}, k # 7, k # 9 PROVE HeldAt(st', k)
    <3>1. ib \cap BitsOf[k] = {} /\ sb \cap BitsOf[k] = {}
      <4>1. "intliteral" \notin BitsOf[k] /\ "strliteral" \notin BitsOf[k]
        BY <2>2, <2>8, SlotsAreDisjoint
      <4>2. QED
        BY <1>3, <1>4, <4>1
    <3>2. rest \cap BitsOf[k] = {}
      <4>1. rest \subseteq Scalars \cup {"any", "true", "false", "constr"}
        BY <1>5 DEF Scalars
      <4>2. QED
        BY <4>1, ScalarsHaveNoSlot
    <3>3. st'.types \cap BitsOf[k] = st.types \cap BitsOf[k]
      BY <1>9, <1>11, <3>1, <3>2
    <3>4. Layout[k] \in Slot \ {"intliteral", "strliteral"}
      BY <2>1, <2>8, LayoutIsInjective
    <3>5. st'.obj[Layout[k]] = st.obj[Layout[k]]
      BY <1>13, <3>4
    <3>6. HeldAt(st, k)
      BY DEF Kept, Held
    <3>7. QED
      BY <3>3, <3>5, <3>6, Zenon DEF HeldAt
  <2>9. "fixtuple" \in st'.types => Len(st'.obj["array"]) \in Nat
    <3>1. "fixtuple" \in st'.types => "fixtuple" \in st.types
      BY <1>3, <1>4, <1>5, <1>9, <1>11
    <3>2. st'.obj["array"] = st.obj["array"]
      BY <1>13 DEF Slot
    <3>3. QED
      BY <3>1, <3>2 DEF Kept, Held
  <2>10. "any" \in st'.types => st'.mask = {}
    <3>1. "any" \in st'.types => "any" \in st.types
      BY <1>3, <1>4, <1>5, <1>9, <1>11
    <3>2. QED
      BY <1>11, <3>1 DEF Kept, Held
  <2>11. QED
    BY <2>6, <2>7, <2>8, <2>9, <2>10 DEF Held
<1>17. Given(st')
  BY <1>11 DEF Kept, Given
<1>18. OneStruct(st')
  BY <1>13 DEF Kept, OneStruct, Slot
<1>19. QED
  BY <1>15, <1>16, <1>17, <1>18 DEF Kept

(* Dropping literals drops their objects with them.                         *)
LEMMA DropKeeps ==
    ASSUME NEW s, Kept(s), NEW t, t = DropLiterals(s)
    PROVE  /\ Kept(t)
           /\ t.types \subseteq s.types
           /\ \A o \in Slot \ {"intliteral", "strliteral"} : t.obj[o] = s.obj[o]
<1>1. PICK covered : covered = {b \in {"intliteral", "strliteral"} :
                        /\ s.obj[b] # Null
                        /\ (IF b = "intliteral" THEN "int" ELSE "str") \in s.types}
  OBVIOUS
<1>2. t = [s EXCEPT !.types = @ \ covered,
                    !.obj = [o \in Slot |-> IF o \in covered THEN Null ELSE @[o]]]
  BY <1>1 DEF DropLiterals
<1>3. s = [i \in Fields |-> s[i]]
  BY DEF Kept, StateOK
<1>4. /\ t.types = s.types \ covered
      /\ t.obj = [o \in Slot |-> IF o \in covered THEN Null ELSE s.obj[o]]
      /\ t.structs = s.structs /\ t.literals = s.literals
      /\ t.mask = s.mask /\ t.bound = s.bound
      /\ t = [i \in Fields |-> t[i]]
  BY <1>2, <1>3 DEF Fields
<1>5. covered \subseteq {"intliteral", "strliteral"}
  BY <1>1
<1>6. /\ \A o \in Slot : t.obj[o] = IF o \in covered THEN Null ELSE s.obj[o]
      /\ t.obj = [o \in Slot |-> t.obj[o]]
  BY <1>4
<1>7. \A o \in Slot \ {"intliteral", "strliteral"} : t.obj[o] = s.obj[o]
  BY <1>5, <1>6
<1>8. StateOK(t)
  BY <1>4, <1>6 DEF Kept, StateOK
<1>9. ASSUME NEW k \in 1..16 \ {13, 14} PROVE HeldAt(t, k)
  <2>1. HeldAt(s, k)
    BY DEF Kept, Held
  <2>2. CASE Layout[k] \in covered
    <3>1. k = 7 \/ k = 9
      <4>1. Layout[7] = "intliteral" /\ Layout[9] = "strliteral"
        BY DEF Layout
      <4>2. k \in 1..17 /\ 7 \in 1..17 /\ 9 \in 1..17
        OBVIOUS
      <4>3. Layout[k] = Layout[7] \/ Layout[k] = Layout[9]
        BY <1>5, <2>2, <4>1
      <4>4. QED
        BY <4>2, <4>3, LayoutIsInjective
    <3>2. BitsOf[k] = {Layout[k]}
      BY <3>1 DEF BitsOf, Layout
    <3>3. t.types \cap BitsOf[k] = {} /\ t.obj[Layout[k]] = Null
      BY <1>4, <1>6, <2>2, <3>2, LayoutIsInjective
    <3>4. QED
      BY <3>3 DEF HeldAt
  <2>3. CASE Layout[k] \notin covered
    <3>1. covered \cap BitsOf[k] = {}
      <4>1. \A b \in {"intliteral", "strliteral"} : b \in BitsOf[k] => Layout[k] = b
        <5>1. "intliteral" \in BitsOf[7] /\ "strliteral" \in BitsOf[9]
          BY DEF BitsOf
        <5>2. Layout[7] = "intliteral" /\ Layout[9] = "strliteral"
          BY DEF Layout
        <5>3. QED
          BY <5>1, <5>2, SlotsAreDisjoint
      <4>2. QED
        BY <1>5, <2>3, <4>1
    <3>2. t.types \cap BitsOf[k] = s.types \cap BitsOf[k]
      BY <1>4, <3>1
    <3>3. t.obj[Layout[k]] = s.obj[Layout[k]]
      BY <1>6, <2>3, LayoutIsInjective
    <3>4. QED
      BY <2>1, <3>2, <3>3, Zenon DEF HeldAt
  <2>4. QED
    BY <2>2, <2>3
<1>10. Held(t)
  <2>1. "fixtuple" \in t.types => Len(t.obj["array"]) \in Nat
    BY <1>4, <1>7 DEF Kept, Held, Slot
  <2>2. "any" \in t.types => t.mask = {}
    BY <1>4 DEF Kept, Held
  <2>3. QED
    BY <1>9, <2>1, <2>2 DEF Held
<1>11. Given(t)
  BY <1>4 DEF Kept, Given
<1>12. OneStruct(t)
  BY <1>7 DEF Kept, OneStruct, Slot
<1>13. QED
  BY <1>4, <1>7, <1>8, <1>10, <1>11, <1>12 DEF Kept

(* What the check of a union leaves: no two types that one reader of the    *)
(* details would have to tell apart.                                        *)
Distinct(s) ==
    /\ s.obj["custom"] # Null =>
          s.types \subseteq {"custom", "customgeneric", "none", "codec", "user"}
    /\ \A a, b \in s.types \cap IntLike : a = b
    /\ \A a, b \in s.types \cap StrLike : a = b
    /\ \A a, b \in s.types \cap {"typeddict", "dataclass"} : a = b

LEMMA TwoAreSeveral ==
    ASSUME NEW S, IsFiniteSet(S), NEW a \in S, NEW b \in S, a # b
    PROVE  Several(S)
<1>1. IsFiniteSet({a}) /\ Cardinality({a}) = 1
  BY FS_Singleton
<1>2. IsFiniteSet({a} \cup {b}) /\ Cardinality({a} \cup {b}) = Cardinality({a}) + 1
  BY <1>1, FS_AddElement
<1>3. {a} \cup {b} \subseteq S
  OBVIOUS
<1>4. Cardinality({a} \cup {b}) <= Cardinality(S)
  BY <1>3, FS_Subset
<1>5. Cardinality(S) \in Nat
  BY FS_CardinalityType
<1>6. QED
  BY <1>1, <1>2, <1>4, <1>5 DEF Several

LEMMA CheckedIsDistinct ==
    ASSUME NEW s, Kept(s), ~Ambiguous(s), NEW t, t = DropLiterals(s)
    PROVE  Distinct(t)
<1>1. /\ t.types \subseteq s.types /\ t.types \subseteq Types /\ s.types \subseteq Types
      /\ t.obj["custom"] = s.obj["custom"]
  <2>1. "custom" \in Slot \ {"intliteral", "strliteral"}
    BY DEF Slot
  <2>2. Kept(t)
    BY DropKeeps
  <2>3. t.types \subseteq s.types
    BY DropKeeps
  <2>4. \A o \in Slot \ {"intliteral", "strliteral"} : t.obj[o] = s.obj[o]
    BY DropKeeps
  <2>5. t.types \subseteq Types /\ s.types \subseteq Types
    BY <2>2 DEF Kept, StateOK, CollectedTypes
  <2>6. QED
    BY <2>1, <2>3, <2>4, <2>5
<1>2. IsFiniteSet(t.types) /\ IsFiniteSet(s.types)
  BY <1>1, FiniteTypes, FS_Subset
<1>3. t.obj["custom"] # Null =>
          t.types \subseteq {"custom", "customgeneric", "none", "codec", "user"}
  BY <1>1 DEF Ambiguous
<1>4. ASSUME NEW a \in t.types \cap IntLike, NEW b \in t.types \cap IntLike PROVE a = b
  <2>1. ~Several(t.types \cap IntLike)
    BY DEF Ambiguous
  <2>2. IsFiniteSet(t.types \cap IntLike)
    BY <1>2, FS_Intersection
  <2>3. QED
    BY <2>1, <2>2, TwoAreSeveral
<1>5. ASSUME NEW a \in t.types \cap StrLike, NEW b \in t.types \cap StrLike PROVE a = b
  <2>1. ~Several(t.types \cap StrLike)
    BY DEF Ambiguous
  <2>2. IsFiniteSet(t.types \cap StrLike)
    BY <1>2, FS_Intersection
  <2>3. QED
    BY <2>1, <2>2, TwoAreSeveral
<1>6. ASSUME NEW a \in t.types \cap {"typeddict", "dataclass"},
             NEW b \in t.types \cap {"typeddict", "dataclass"}
      PROVE  a = b
  <2>1. PICK S : S = (s.types \cap DictLike)
                     \cup (IF s.types \cap DictBits # {} THEN {"dict"} ELSE {})
    OBVIOUS
  <2>2. ~Several(S)
    BY <2>1 DEF Ambiguous
  <2>3. IsFiniteSet(S)
    <3>1. IsFiniteSet(s.types \cap DictLike) /\ IsFiniteSet({"dict"}) /\ IsFiniteSet({})
      BY <1>2, FS_Intersection, FS_Singleton, FS_EmptySet
    <3>2. QED
      BY <2>1, <3>1, FS_Union
  <2>4. a \in S /\ b \in S
    BY <1>1, <2>1 DEF DictLike
  <2>5. QED
    BY <2>2, <2>3, <2>4, TwoAreSeveral
<1>7. QED
  BY <1>3, <1>4, <1>5, <1>6 DEF Distinct

-----------------------------------------------------------------------------
(* The layout.                                                              *)

(* The details of the first n slots are where the readers count them.       *)
Placed(details, s, n) ==
    \A k \in 1..n : Present(s, Layout[k]) =>
        \A i \in 1..Len(Stored(s, Layout[k])) :
            details[Place(s, k) + i] = Stored(s, Layout[k])[i]

LEMMA SkipAbsent ==
    ASSUME NEW s, Sized(s), Held(s), NEW j \in 1..18, NEW k \in 1..18, j <= k,
           \A i \in j..k - 1 : ~Present(s, Layout[i])
    PROVE  Place(s, k) = Place(s, j)
<1>1. ASSUME NEW i \in j..k - 1, i <= 16 PROVE s.types \cap BitsOf[i] = {}
  <2>1. i \in 1..17 /\ i # 17 /\ ~Present(s, Layout[i])
    BY <1>1
  <2>2. QED
    BY <2>1, StoredFits
<1>2. ASSUME j <= 17, k = 18 PROVE s.mask = {}
  <2>1. PICK i \in 1..17 : i = 17
    OBVIOUS
  <2>2. ~Present(s, Layout[i])
    BY <1>2, <2>1
  <2>3. QED
    BY <2>1, <2>2, StoredFits
<1>3. QED
  BY <1>1, <1>2, NoPlace

(* Storing the next slot that is present.                                   *)
LEMMA StoringPlaces ==
    ASSUME NEW s, Sized(s), Held(s), NEW details, IsSeq(details), NEW at \in 0..16,
           Len(details) = Place(s, at + 1), Placed(details, s, at),
           NEW k \in at + 1..17, Present(s, Layout[k]),
           \A j \in at + 1..k - 1 : ~Present(s, Layout[j]),
           NEW d, d = details \o Stored(s, Layout[k])
    PROVE  IsSeq(d) /\ Len(d) = Place(s, k + 1) /\ Placed(d, s, k)
<1>1. PICK q : q = Stored(s, Layout[k])
  OBVIOUS
<1>2. k \in 1..17 /\ k \in 1..18 /\ k + 1 \in 1..18 /\ at + 1 \in 1..18 /\ at + 1 <= k
  OBVIOUS
<1>3. IsSeq(q) /\ Len(q) \in Nat /\ Place(s, k + 1) = Place(s, k) + Len(q)
  BY <1>1, <1>2, StoredFits
<1>4. Place(s, k) = Place(s, at + 1)
  BY <1>2, SkipAbsent
<1>5. Place(s, k) \in Nat
  BY <1>2, PlaceIsNat
<1>6. /\ IsSeq(d)
      /\ Len(d) = Len(details) + Len(q)
      /\ \A i \in 1..Len(details) : d[i] = details[i]
      /\ \A i \in 1..Len(q) : d[Len(details) + i] = q[i]
  <2>1. PICK S : details \in Seq(S)
    BY DEF IsSeq
  <2>2. PICK T : q \in Seq(T)
    BY <1>3 DEF IsSeq
  <2>3. PICK U : U = S \cup T
    OBVIOUS
  <2>4. details \in Seq(U) /\ q \in Seq(U)
    BY <2>1, <2>2, <2>3
  <2>5. d = details \o q
    BY <1>1
  <2>6. /\ d \in Seq(U)
        /\ Len(d) = Len(details) + Len(q)
        /\ \A i \in 1..Len(details) + Len(q) :
              d[i] = IF i <= Len(details) THEN details[i] ELSE q[i - Len(details)]
    BY <2>4, <2>5, ConcatProperties
  <2>7. Len(details) \in Nat /\ Len(q) \in Nat
    BY <2>4
  <2>8. \A i \in 1..Len(q) : Len(details) + i - Len(details) = i
    BY <2>7
  <2>9. QED
    BY <2>6, <2>7, <2>8, SMTT(60) DEF IsSeq
<1>7. Len(d) = Place(s, k + 1)
  BY <1>3, <1>4, <1>6
<1>8. ASSUME NEW j \in 1..k, Present(s, Layout[j]), NEW i \in 1..Len(Stored(s, Layout[j]))
      PROVE  d[Place(s, j) + i] = Stored(s, Layout[j])[i]
  <2>1. CASE j = k
    BY <1>1, <1>4, <1>6, <1>8, <2>1
  <2>2. CASE j # k
    <3>1. j \in 1..at
      BY <1>8, <2>2
    <3>2. j \in 1..17 /\ j \in 1..18 /\ j + 1 \in 1..18 /\ j + 1 <= at + 1
      BY <3>1
    <3>3. details[Place(s, j) + i] = Stored(s, Layout[j])[i]
      BY <1>8, <3>1 DEF Placed
    <3>4. Place(s, j + 1) = Place(s, j) + Len(Stored(s, Layout[j]))
      BY <1>8, <3>2, StoredFits
    <3>5. Place(s, j + 1) <= Place(s, at + 1)
      BY <1>2, <3>2, PlaceGrows
    <3>6. Place(s, j) \in Nat /\ Len(Stored(s, Layout[j])) \in Nat
      BY <1>8, <3>2, StoredFits, PlaceIsNat
    <3>7. Place(s, j) + i \in 1..Len(details)
      BY <1>4, <1>5, <3>4, <3>5, <3>6
    <3>8. QED
      BY <1>6, <3>3, <3>7
  <2>3. QED
    BY <2>1, <2>2
<1>9. QED
  BY <1>6, <1>7, <1>8 DEF Placed

(* When nothing is left to store, everything has its place.                 *)
LEMMA NothingIsLeft ==
    ASSUME NEW s, Sized(s), Held(s), NEW details, NEW at \in 0..17,
           Len(details) = Place(s, at + 1), Placed(details, s, at),
           \A j \in at + 1..17 : ~Present(s, Layout[j])
    PROVE  Len(details) = Place(s, 18) /\ Placed(details, s, 17)
<1>1. PICK k \in 1..18 : k = 18
  OBVIOUS
<1>2. at + 1 \in 1..18 /\ at + 1 <= k
  BY <1>1
<1>3. \A j \in at + 1..k - 1 : ~Present(s, Layout[j])
  BY <1>1
<1>4. Place(s, k) = Place(s, at + 1)
  BY <1>2, <1>3, SkipAbsent
<1>5. Len(details) = Place(s, 18)
  BY <1>1, <1>4
<1>6. SUFFICES ASSUME NEW j \in 1..17, Present(s, Layout[j])
               PROVE  \A i \in 1..Len(Stored(s, Layout[j])) :
                          details[Place(s, j) + i] = Stored(s, Layout[j])[i]
  BY <1>5 DEF Placed
<1>7. j \in 1..at
  <2>1. j \notin at + 1..17
    BY <1>6
  <2>2. QED
    BY <2>1
<1>8. QED
  BY <1>6, <1>7 DEF Placed

-----------------------------------------------------------------------------
(* The inductive invariant: the members leave the collect state in order,   *)
(* and the node is laid out, up to the slot reached, as `Place' says.       *)

NodeFields == {"types", "details", "room", "at"}

NodeOK(n) ==
    /\ n = [i \in NodeFields |-> n[i]]
    /\ n.types \subseteq Types
    /\ IsSeq(n.details)
    /\ n.room \in Nat /\ n.at \in 0..17
    /\ Len(n.details) <= n.room

NodeTypes(s, at) ==
    s.types \cup (IF s.mask # {} THEN {"constr"} ELSE {})
            \cup (IF at > 0 /\ s.obj["custom"] # Null THEN {"any"} ELSE {})

Laid(s, n, at) ==
    /\ n.types = NodeTypes(s, at)
    /\ n.room = Place(s, 18)
    /\ Len(n.details) = Place(s, at + 1)
    /\ Placed(n.details, s, at)

IInv ==
    /\ phase \in {"collect", "structs", "literals", "check", "layout", "done",
                  "refused", "failed"}
    /\ seen \in Seq(Member) /\ Len(seen) <= MaxMembers
    /\ StateOK(st) /\ NodeOK(node)
    /\ phase \in {"collect", "structs"} => Good(st) /\ st.ok
    /\ phase = "literals" => Kept(st) /\ Absent(st, {"intliteral", "strliteral"})
    /\ phase \in {"check", "layout", "done"} => Kept(st)
    /\ phase = "layout" => Distinct(st) /\ Laid(st, node, node.at)
    /\ phase = "done" => Distinct(st) /\ Laid(st, node, 17)

LEMMA KeptIsSized ==
    ASSUME NEW s, Kept(s)
    PROVE  Sized(s) /\ Held(s) /\ s.types \subseteq Types
BY DEF Kept, StateOK, CollectedTypes, Held, Sized

LEMMA LengthIsNat ==
    ASSUME NEW q, IsSeq(q)
    PROVE  Len(q) \in Nat
BY DEF IsSeq

LEMMA NoNodeIsOK == NodeOK(NoNode)
<1>1. IsSeq(<<>>)
  BY DEF IsSeq
<1>2. NoNode = [i \in NodeFields |-> NoNode[i]]
  BY DEF NoNode, NodeFields
<1>3. /\ NoNode.types = {} /\ NoNode.details = <<>> /\ NoNode.room = 0 /\ NoNode.at = 0
  BY DEF NoNode
<1>4. Len(<<>>) = 0 /\ 0 \in Nat /\ 0 \in 0..17 /\ 0 <= 0
  OBVIOUS
<1>5. Len(NoNode.details) <= NoNode.room
  BY <1>3, <1>4
<1>6. QED
  BY <1>1, <1>2, <1>3, <1>4, <1>5 DEF NodeOK

LEMMA InitInv == Init => IInv
<1> SUFFICES ASSUME Init PROVE IInv
  OBVIOUS
<1>1. seen \in Seq(Member) /\ Len(seen) <= MaxMembers
  BY ConstantsOK DEF Init
<1>2. Good(st) /\ st.ok
  BY ClearedIsGood DEF Init
<1>3. StateOK(st) /\ NodeOK(node)
  BY <1>2, NoNodeIsOK DEF Init, Good
<1>4. phase = "collect"
  BY DEF Init
<1>5. QED
  BY <1>1, <1>2, <1>3, <1>4 DEF IInv

(* One lemma for each action.                                               *)
LEMMA CollectStep ==
    ASSUME IInv, NEW m \in Member, Collect(m)
    PROVE  IInv'
<1>1. PICK t : t = CollectMember(st, m)
  OBVIOUS
<1>2. Good(t)
  <2>1. Good(st) /\ st.ok
    BY DEF IInv, Collect
  <2>2. QED
    BY <1>1, <2>1, CollectMemberIsGood
<1>3. st' = t /\ phase' = (IF t.ok THEN "collect" ELSE "refused") /\ node' = node
  BY <1>1 DEF Collect
<1>4. seen' \in Seq(Member) /\ Len(seen') <= MaxMembers
  BY ConstantsOK DEF IInv, Collect
<1>5. Good(st)' /\ (phase' = "collect" => st'.ok)
  BY <1>2, <1>3
<1>6. StateOK(st)' /\ NodeOK(node)'
  BY <1>3, <1>5 DEF Good, IInv
<1>7. phase' \in {"collect", "refused"}
  BY <1>3
<1>8. QED
  BY <1>4, <1>5, <1>6, <1>7 DEF IInv

LEMMA StructsStep ==
    ASSUME IInv, ValidateStructs
    PROVE  IInv'
<1>1. /\ phase' \in {"literals", "refused"} /\ seen' = seen /\ node' = node
      /\ phase' = "refused" => st' = st
  BY DEF ValidateStructs
<1>2. phase' = "literals" => Kept(st)' /\ Absent(st', {"intliteral", "strliteral"})
  <2>1. Good(st) /\ st.ok
    BY DEF IInv, ValidateStructs
  <2>2. QED
    BY <2>1, ValidateStructsKeeps
<1>3. StateOK(st)'
  <2>1. phase' = "literals" => StateOK(st)'
    BY <1>2 DEF Kept
  <2>2. QED
    BY <1>1, <2>1 DEF IInv
<1>4. QED
  BY <1>1, <1>2, <1>3 DEF IInv

LEMMA LiteralsStep ==
    ASSUME IInv, ValidateLiterals
    PROVE  IInv'
<1>1. Kept(st)'
  <2>1. Kept(st) /\ Absent(st, {"intliteral", "strliteral"})
    BY DEF IInv, ValidateLiterals
  <2>2. QED
    BY <2>1, ValidateLiteralsKeeps
<1>2. phase' = "check" /\ seen' = seen /\ node' = node
  BY DEF ValidateLiterals
<1>3. StateOK(st)'
  BY <1>1 DEF Kept
<1>4. QED
  BY <1>1, <1>2, <1>3 DEF IInv

(* The node is allocated.                                                   *)
LEMMA CheckStep ==
    ASSUME IInv, Check
    PROVE  IInv'
<1>1. Kept(st) /\ phase = "check"
  BY DEF IInv, Check
<1>2. CASE Ambiguous(st)
  <2>1. phase' = "refused" /\ UNCHANGED <<seen, st, node>>
    BY <1>2 DEF Check
  <2>2. QED
    BY <2>1 DEF IInv
<1>3. CASE ~Ambiguous(st)
  <2>1. PICK s : s = DropLiterals(st)
    OBVIOUS
  <2>2. PICK types : types = s.types \cup (IF s.mask # {} THEN {"constr"} ELSE {})
    OBVIOUS
  <2>3. PICK room : room = Room(s)
    OBVIOUS
  <2>4. PICK n : n = [NoNode EXCEPT !.room = room, !.types = types]
    OBVIOUS
  <2>5. phase' = "layout" /\ seen' = seen /\ st' = s /\ node' = n
    BY <1>3, <2>1, <2>2, <2>3, <2>4 DEF Check
  <2>6. Kept(s) /\ Distinct(s)
    BY <1>1, <1>3, <2>1, DropKeeps, CheckedIsDistinct
  <2>7. Sized(s) /\ s.types \subseteq Types
    BY <2>6, KeptIsSized
  <2>8. room = Place(s, 18) /\ Place(s, 18) \in Nat
    BY <2>3, <2>7, RoomIsEnd, PlaceIsNat
  <2>9. /\ n.types = types /\ n.details = <<>> /\ n.room = room /\ n.at = 0
        /\ n = [i \in NodeFields |-> n[i]]
    BY <2>4 DEF NoNode, NodeFields
  <2>10. types \subseteq Types
    BY <2>2, <2>7 DEF Types
  <2>11. NodeOK(n)
    BY <2>8, <2>9, <2>10 DEF NodeOK, IsSeq
  <2>12. Place(s, 1) = 0
    <3>1. s.types \cap Below(1) = {}
      BY BitsBelow
    <3>2. Count(s.types, Below(1)) = 0
      BY <3>1, FS_EmptySet DEF Count
    <3>3. QED
      BY <3>2 DEF Place
  <2>13. Laid(s, n, 0)
    BY <2>2, <2>8, <2>9, <2>12 DEF Laid, NodeTypes, Placed
  <2>14. Laid(st, node, node.at)'
    BY <2>5, <2>9, <2>13
  <2>15. StateOK(st)' /\ NodeOK(node)' /\ Kept(st)' /\ Distinct(st)'
    BY <2>5, <2>6, <2>11 DEF Kept
  <2>16. seen' \in Seq(Member) /\ Len(seen') <= MaxMembers
    BY <2>5 DEF IInv
  <2>17. phase' = "layout"
    BY <2>5
  <2>18. QED
    BY <2>14, <2>15, <2>16, <2>17 DEF IInv
<1>4. QED
  BY <1>2, <1>3

LEMMA StoreStep ==
    ASSUME IInv, NEW k \in 1..Len(Layout), Store(k)
    PROVE  IInv'
<1>1. /\ phase = "layout" /\ Kept(st) /\ Distinct(st) /\ Laid(st, node, node.at)
      /\ NodeOK(node)
  BY DEF IInv, Store
<1>2. PICK at : at = node.at
  OBVIOUS
<1>3. /\ at \in 0..16 /\ k \in at + 1..17 /\ Present(st, Layout[k])
      /\ \A j \in at + 1..k - 1 : ~Present(st, Layout[j])
  <2>1. node.at \in 0..17
    BY <1>1 DEF NodeOK
  <2>2. k \in node.at + 1..17
    BY LayoutIsInjective DEF Store, NextSlot
  <2>3. Present(st, Layout[k]) /\ \A j \in node.at + 1..k - 1 : ~Present(st, Layout[j])
    BY DEF Store, NextSlot
  <2>4. QED
    BY <1>2, <2>1, <2>2, <2>3
<1>4. PICK d : d = node.details \o Stored(st, Layout[k])
  OBVIOUS
<1>5. PICK types : types = IF Layout[k] = "custom" THEN node.types \cup {"any"} ELSE node.types
  OBVIOUS
<1>6. PICK n : n = [node EXCEPT !.details = d, !.at = k, !.types = types]
  OBVIOUS
<1>7. node' = n /\ UNCHANGED <<phase, seen, st>>
  BY <1>4, <1>5, <1>6 DEF Store
<1>8. /\ n.types = types /\ n.details = d /\ n.room = node.room /\ n.at = k
      /\ n = [i \in NodeFields |-> n[i]]
  BY <1>1, <1>6 DEF NodeOK, NodeFields
<1>9. Sized(st) /\ Held(st)
  BY <1>1, KeptIsSized
<1>10. IsSeq(d) /\ Len(d) = Place(st, k + 1) /\ Placed(d, st, k)
  <2>1. /\ IsSeq(node.details) /\ Len(node.details) = Place(st, at + 1)
        /\ Placed(node.details, st, at)
    BY <1>1, <1>2 DEF Laid, NodeOK
  <2>2. QED
    BY <1>3, <1>4, <1>9, <2>1, StoringPlaces
<1>11. types = NodeTypes(st, k)
  <2>1. node.types = NodeTypes(st, at)
    BY <1>1, <1>2 DEF Laid
  <2>2. CASE k = 1
    <3>1. Layout[k] = "custom" /\ at = 0
      BY <1>3, <2>2, LayoutIsInjective
    <3>2. st.obj["custom"] # Null
      BY <1>3, <3>1, WhenPresent
    <3>3. QED
      BY <1>5, <2>1, <2>2, <3>1, <3>2 DEF NodeTypes
  <2>3. CASE k # 1
    <3>1. Layout[k] # "custom"
      <4>1. k \in 1..17 /\ 1 \in 1..17 /\ Layout[1] = "custom"
        BY <1>3, LayoutIsInjective
      <4>2. QED
        BY <2>3, <4>1, LayoutIsInjective
    <3>2. at = 0 => st.obj["custom"] = Null
      <4>1. at = 0 => ~Present(st, Layout[1])
        BY <1>3, <2>3
      <4>2. QED
        BY <4>1, LayoutIsInjective, WhenPresent
    <3>3. (at > 0 /\ st.obj["custom"] # Null) <=> (k > 0 /\ st.obj["custom"] # Null)
      BY <1>3, <3>2
    <3>4. NodeTypes(st, at) = NodeTypes(st, k)
      BY <3>3 DEF NodeTypes
    <3>5. QED
      BY <1>5, <2>1, <3>1, <3>4
  <2>4. QED
    BY <2>2, <2>3
<1>12. Place(st, k + 1) <= Place(st, 18) /\ node.room = Place(st, 18)
  <2>1. k + 1 \in 1..18 /\ 18 \in 1..18 /\ k + 1 <= 18
    BY <1>3
  <2>2. QED
    BY <1>1, <1>9, <2>1, PlaceGrows DEF Laid
<1>13. Laid(st, n, n.at)
  BY <1>8, <1>10, <1>11, <1>12 DEF Laid
<1>14. NodeOK(n)
  <2>1. types \subseteq Types
    BY <1>1, <1>5 DEF NodeOK, Types
  <2>2. node.room \in Nat
    BY <1>1 DEF NodeOK
  <2>3. Len(d) <= node.room
    BY <1>10, <1>12
  <2>4. k \in 0..17
    BY <1>3
  <2>5. QED
    BY <1>8, <1>10, <2>1, <2>2, <2>3, <2>4 DEF NodeOK
<1>15. Laid(st, node, node.at)' /\ NodeOK(node)'
  BY <1>7, <1>13, <1>14
<1>16. Kept(st)' /\ Distinct(st)' /\ StateOK(st)'
  BY <1>1, <1>7 DEF Kept
<1>17. phase' = "layout" /\ seen' \in Seq(Member) /\ Len(seen') <= MaxMembers
  BY <1>1, <1>7 DEF IInv
<1>18. QED
  BY <1>15, <1>16, <1>17 DEF IInv

LEMMA StoreFailsStep ==
    ASSUME IInv, NEW k \in 1..Len(Layout), StoreFails(k)
    PROVE  IInv'
<1>1. /\ phase = "layout" /\ Kept(st) /\ Laid(st, node, node.at) /\ NodeOK(node)
  BY DEF IInv, StoreFails
<1>2. PICK at : at = node.at
  OBVIOUS
<1>3. /\ at \in 0..16 /\ k \in at + 1..17 /\ Present(st, Layout[k])
      /\ \A j \in at + 1..k - 1 : ~Present(st, Layout[j])
  <2>1. node.at \in 0..17
    BY <1>1 DEF NodeOK
  <2>2. k \in node.at + 1..17
    BY LayoutIsInjective DEF StoreFails, NextSlot
  <2>3. Present(st, Layout[k]) /\ \A j \in node.at + 1..k - 1 : ~Present(st, Layout[j])
    BY DEF StoreFails, NextSlot
  <2>4. QED
    BY <1>2, <2>1, <2>2, <2>3
<1>4. PICK q : q = Stored(st, Layout[k])
  OBVIOUS
<1>5. PICK c \in 0..Len(q) - 1 : node' = [node EXCEPT !.details = @ \o SubSeq(q, 1, c)]
  BY <1>4 DEF StoreFails
<1>6. PICK p : p = SubSeq(q, 1, c)
  OBVIOUS
<1>7. PICK d : d = node.details \o p
  OBVIOUS
<1>8. node' = [node EXCEPT !.details = d]
  BY <1>5, <1>6, <1>7
<1>9. PICK n : n = [node EXCEPT !.details = d]
  OBVIOUS
<1>10. /\ n.types = node.types /\ n.details = d /\ n.room = node.room /\ n.at = node.at
       /\ n = [i \in NodeFields |-> n[i]]
  BY <1>1, <1>9 DEF NodeOK, NodeFields
<1>11. Sized(st) /\ Held(st)
  BY <1>1, KeptIsSized
<1>12. /\ IsSeq(q) /\ Len(q) \in Nat /\ Place(st, k + 1) = Place(st, k) + Len(q)
  <2>1. k \in 1..17
    BY <1>3
  <2>2. QED
    BY <1>3, <1>4, <1>11, <2>1, StoredFits
<1>13. IsSeq(d) /\ Len(d) <= Len(node.details) + Len(q)
  <2>1. PICK S : node.details \in Seq(S)
    BY <1>1 DEF NodeOK, IsSeq
  <2>2. PICK T : q \in Seq(T)
    BY <1>12 DEF IsSeq
  <2>3. PICK U : U = S \cup T
    OBVIOUS
  <2>4. node.details \in Seq(U) /\ q \in Seq(U)
    BY <2>1, <2>2, <2>3
  <2>5. p \in Seq(U) /\ Len(p) = c
    <3>1. \A i \in 1..c : q[i] \in U
      BY <2>4, <1>12
    <3>2. /\ SubSeq(q, 1, c) \in Seq(U)
          /\ Len(SubSeq(q, 1, c)) = IF 1 <= c THEN c - 1 + 1 ELSE 0
      BY <1>12, <2>4, <3>1, SubSeqProperties
    <3>3. QED
      BY <1>6, <3>2
  <2>6. d \in Seq(U) /\ Len(d) = Len(node.details) + Len(p)
    BY <1>7, <2>4, <2>5, ConcatProperties
  <2>7. Len(node.details) \in Nat
    BY <2>4
  <2>8. QED
    BY <1>12, <2>5, <2>6, <2>7 DEF IsSeq
<1>14. Len(d) <= node.room
  <2>1. Len(node.details) = Place(st, at + 1) /\ node.room = Place(st, 18)
    BY <1>1, <1>2 DEF Laid
  <2>2. k \in 1..18 /\ at + 1 \in 1..18 /\ at + 1 <= k /\ k + 1 \in 1..18 /\ k + 1 <= 18
    BY <1>3
  <2>3. Place(st, k) = Place(st, at + 1)
    BY <1>3, <1>11, <2>2, SkipAbsent
  <2>4. Place(st, k + 1) <= Place(st, 18)
    <3>1. \A i \in 1..18 : \A j \in 1..18 : i <= j => Place(st, i) <= Place(st, j)
      BY <1>11, PlaceGrows
    <3>2. PICK i \in 1..18 : i = k + 1
      BY <2>2
    <3>3. PICK j \in 1..18 : j = 18
      OBVIOUS
    <3>4. i <= j
      BY <2>2, <3>2, <3>3
    <3>5. Place(st, i) <= Place(st, j)
      BY <3>1, <3>4
    <3>6. QED
      BY <3>2, <3>3, <3>5
  <2>5. Place(st, k) \in Nat /\ Place(st, k + 1) \in Nat /\ Place(st, 18) \in Nat
    <3>1. \A i \in 1..18 : Place(st, i) \in Nat
      BY <1>11, PlaceIsNat
    <3>2. 18 \in 1..18
      OBVIOUS
    <3>3. Place(st, k) \in Nat
      BY <2>2, <3>1, Zenon
    <3>4. Place(st, k + 1) \in Nat
      BY <2>2, <3>1, Zenon
    <3>5. Place(st, 18) \in Nat
      BY <3>1, <3>2, Zenon
    <3>6. QED
      BY <3>3, <3>4, <3>5
  <2>7. Len(d) \in Nat
    BY <1>13, LengthIsNat
  <2>6. QED
    BY <1>12, <1>13, <2>1, <2>3, <2>4, <2>5, <2>7
<1>15. NodeOK(n)
  BY <1>1, <1>10, <1>13, <1>14 DEF NodeOK
<1>16. node' = n
  BY <1>8, <1>9
<1>17. NodeOK(node)'
  BY <1>15, <1>16
<1>18. phase' = "failed" /\ UNCHANGED <<seen, st>>
  BY DEF StoreFails
<1>19. QED
  BY <1>17, <1>18 DEF IInv

LEMMA BuiltStep ==
    ASSUME IInv, Built
    PROVE  IInv'
<1>1. /\ phase = "layout" /\ Kept(st) /\ Distinct(st) /\ Laid(st, node, node.at)
      /\ NodeOK(node)
  BY DEF IInv, Built
<1>2. PICK at : at = node.at
  OBVIOUS
<1>3. at \in 0..17 /\ \A j \in at + 1..17 : ~Present(st, Layout[j])
  BY <1>1, <1>2, LayoutIsInjective DEF Built, NodeOK
<1>4. /\ node.types = NodeTypes(st, at) /\ node.room = Place(st, 18)
      /\ Len(node.details) = Place(st, at + 1) /\ Placed(node.details, st, at)
  BY <1>1, <1>2 DEF Laid
<1>5. Sized(st) /\ Held(st)
  BY <1>1, KeptIsSized
<1>6. Len(node.details) = Place(st, 18) /\ Placed(node.details, st, 17)
  BY <1>3, <1>4, <1>5, NothingIsLeft
<1>7. NodeTypes(st, at) = NodeTypes(st, 17)
  <2>1. at = 0 => st.obj["custom"] = Null
    <3>1. at = 0 => ~Present(st, Layout[1])
      BY <1>3
    <3>2. QED
      BY <3>1, LayoutIsInjective, WhenPresent
  <2>2. (at > 0 /\ st.obj["custom"] # Null) <=> (17 > 0 /\ st.obj["custom"] # Null)
    BY <1>3, <2>1
  <2>3. QED
    BY <2>2 DEF NodeTypes
<1>8. Laid(st, node, 17)
  BY <1>4, <1>6, <1>7 DEF Laid
<1>9. phase' = "done" /\ UNCHANGED <<seen, st, node>>
  BY DEF Built
<1>10. Laid(st, node, 17)' /\ NodeOK(node)' /\ Kept(st)' /\ Distinct(st)'
  BY <1>1, <1>8, <1>9
<1>11. QED
  BY <1>9, <1>10 DEF IInv

LEMMA OtherSteps ==
    ASSUME IInv, Collected \/ StructFails \/ Clear \/ UNCHANGED vars
    PROVE  IInv'
<1>1. CASE Collected
  BY <1>1 DEF IInv, Collected
<1>2. CASE StructFails
  BY <1>2 DEF IInv, StructFails
<1>3. CASE Clear
  <2>1. phase' = "collect" /\ seen' = <<>> /\ st' = Cleared /\ node' = NoNode
    BY <1>3 DEF Clear
  <2>2. Good(st)' /\ st'.ok /\ StateOK(st)' /\ NodeOK(node)'
    BY <2>1, ClearedIsGood, NoNodeIsOK DEF Good
  <2>3. seen' \in Seq(Member) /\ Len(seen') <= MaxMembers
    BY <2>1, ConstantsOK
  <2>4. QED
    BY <2>1, <2>2, <2>3 DEF IInv
<1>4. CASE UNCHANGED vars
  BY <1>4 DEF IInv, vars
<1>5. QED
  BY <1>1, <1>2, <1>3, <1>4

LEMMA NextInv == IInv /\ [Next]_vars => IInv'
<1> SUFFICES ASSUME IInv, [Next]_vars PROVE IInv'
  OBVIOUS
<1>1. ASSUME NEW m \in Member, Collect(m) PROVE IInv'
  BY <1>1, CollectStep
<1>2. ASSUME NEW k \in 1..Len(Layout), Store(k) PROVE IInv'
  BY <1>2, StoreStep
<1>3. ASSUME NEW k \in 1..Len(Layout), StoreFails(k) PROVE IInv'
  BY <1>3, StoreFailsStep
<1>4. CASE ValidateStructs
  BY <1>4, StructsStep
<1>5. CASE ValidateLiterals
  BY <1>5, LiteralsStep
<1>6. CASE Check
  BY <1>6, CheckStep
<1>7. CASE Built
  BY <1>7, BuiltStep
<1>8. CASE Collected \/ StructFails \/ Clear \/ UNCHANGED vars
  BY <1>8, OtherSteps
<1>9. QED
  BY <1>1, <1>2, <1>3, <1>4, <1>5, <1>6, <1>7, <1>8 DEF Next

LEMMA Invariance == Spec => []IInv
BY InitInv, NextInv, PTL DEF Spec

(* The variables have their types and only known bits are set, whatever the *)
(* members and however wide the integers (the bit sets of                   *)
(* TypeNodeCollectState and of TypeNode).                                   *)
THEOREM TypeCorrect == Spec => []TypeOK
<1>1. IInv => TypeOK
  <2> SUFFICES ASSUME IInv PROVE TypeOK
    OBVIOUS
  <2>1. st.types \subseteq Types /\ st.mask \subseteq CnBits
        /\ \A k \in CnIndex : st.bound[k] \in Int
    BY DEF IInv, StateOK, CollectedTypes
  <2>2. node.types \subseteq Types /\ node.room \in Nat /\ node.at \in 0..Len(Layout)
    BY LayoutIsInjective DEF IInv, NodeOK
  <2>3. QED
    BY <2>1, <2>2 DEF IInv, TypeOK
<1>2. QED
  BY <1>1, Invariance, PTL

(* The details of a union of any members never outgrow the allocation that  *)
(* was sized from its mask, when a nested conversion fails half-way too,    *)
(* and a finished node has no slot of it left (typenode_from_collect_state).*)
THEOREM AllocationFilled == Spec => []FillsAllocation
<1>1. IInv => FillsAllocation
  BY DEF IInv, NodeOK, Laid, FillsAllocation
<1>2. QED
  BY <1>1, Invariance, PTL

-----------------------------------------------------------------------------
(* The details of a ConstraintNode.                                         *)

(* No float is bounded by gt in one member and by ge in another, or by lt   *)
(* and le: the two share a detail, but they are two bits of the mask, which *)
(* the readers of the details after it count (the getters of ConstraintNode). *)
FloatsAgree ==
    \A m, n \in {k \in Members("float") : k.constr # Null /\ k.constr.class # "user"} :
           /\ ~("gt" \in DOMAIN m.constr.params /\ "ge" \in DOMAIN n.constr.params)
           /\ ~("lt" \in DOMAIN m.constr.params /\ "le" \in DOMAIN n.constr.params)

LEMMA GroupsAreDisjoint ==
    ASSUME NEW j \in CnIndex, NEW k \in CnIndex, NEW b, b \in CnOrder[j], b \in CnOrder[k]
    PROVE  j = k
BY CnOrderIs DEF CnOrder

(* One bit of each detail.                                                  *)
OneBitEach(mask) == \A k \in CnIndex : \A a, b \in CnOrder[k] \cap mask : a = b
OneBitUpTo(mask, n) == \A k \in 1..n : \A a, b \in CnOrder[k] \cap mask : a = b

LEMMA FloatsHaveOneBitEach ==
    ASSUME NEW s, Given(s), FloatsAgree
    PROVE  OneBitEach(s.mask)
<1> SUFFICES ASSUME NEW k \in CnIndex, NEW a \in CnOrder[k] \cap s.mask,
                    NEW b \in CnOrder[k] \cap s.mask, a # b
             PROVE  FALSE
  BY DEF OneBitEach
<1>1. CASE k = 5
  <2>1. <<"float", "gt">> \in s.mask /\ <<"float", "ge">> \in s.mask
    BY <1>1, CnOrderIs
  <2>2. "gt" \in ParamsOf.numeric /\ "ge" \in ParamsOf.numeric
    BY DEF ParamsOf
  <2>3. /\ \E m \in Members("float") :
              m.constr # Null /\ m.constr.class # "user" /\ "gt" \in DOMAIN m.constr.params
        /\ \E m \in Members("float") :
              m.constr # Null /\ m.constr.class # "user" /\ "ge" \in DOMAIN m.constr.params
    BY <2>1, <2>2 DEF Given
  <2>4. QED
    BY <2>3 DEF FloatsAgree
<1>2. CASE k = 6
  <2>1. <<"float", "lt">> \in s.mask /\ <<"float", "le">> \in s.mask
    BY <1>2, CnOrderIs
  <2>2. "lt" \in ParamsOf.numeric /\ "le" \in ParamsOf.numeric
    BY DEF ParamsOf
  <2>3. /\ \E m \in Members("float") :
              m.constr # Null /\ m.constr.class # "user" /\ "lt" \in DOMAIN m.constr.params
        /\ \E m \in Members("float") :
              m.constr # Null /\ m.constr.class # "user" /\ "le" \in DOMAIN m.constr.params
    BY <2>1, <2>2 DEF Given
  <2>4. QED
    BY <2>3 DEF FloatsAgree
<1>3. CASE k \notin {5, 6}
  <2>1. \A i \in (1..15) \ {5, 6} : \A x, y \in CnOrder[i] : x = y
    <3>1. /\ CnOrder[1] = {<<"str", "pattern">>}
          /\ CnOrder[2] = {<<"int", "min">>}
          /\ CnOrder[3] = {<<"int", "max">>}
          /\ CnOrder[4] = {<<"int", "multiple_of">>}
          /\ CnOrder[7] = {<<"float", "multiple_of">>}
          /\ CnOrder[8] = {<<"str", "min_length">>}
          /\ CnOrder[9] = {<<"str", "max_length">>}
          /\ CnOrder[10] = {<<"bytes", "min_length">>}
          /\ CnOrder[11] = {<<"bytes", "max_length">>}
          /\ CnOrder[12] = {<<"array", "min_length">>}
          /\ CnOrder[13] = {<<"array", "max_length">>}
          /\ CnOrder[14] = {<<"map", "min_length">>}
          /\ CnOrder[15] = {<<"map", "max_length">>}
      BY DEF CnOrder
    <3>2. QED
      BY <3>1
  <2>2. QED
    BY <1>3, <2>1, CnOrderIs
<1>4. QED
  BY <1>1, <1>2, <1>3

(* The details in use up to a place in the order.                           *)
UsedUpTo(mask, k) == {i \in CnUsed(mask) : i <= k}

LEMMA UsedIsFinite ==
    ASSUME NEW mask
    PROVE  /\ CnUsed(mask) \subseteq 1..15
           /\ \A k : IsFiniteSet(UsedUpTo(mask, k)) /\ Cardinality(UsedUpTo(mask, k)) \in Nat
           /\ IsFiniteSet(CnUsed(mask)) /\ Cardinality(CnUsed(mask)) \in Nat
<1>1. CnUsed(mask) \subseteq 1..15
  BY CnOrderIs DEF CnUsed
<1>2. IsFiniteSet(1..15)
  <2>1. 1 \in Int /\ 15 \in Int
    OBVIOUS
  <2>2. QED
    BY <2>1, FS_Interval
<1>3. IsFiniteSet(CnUsed(mask))
  BY <1>1, <1>2, FS_Subset
<1>4. \A k : UsedUpTo(mask, k) \subseteq CnUsed(mask)
  BY DEF UsedUpTo
<1>5. \A k : IsFiniteSet(UsedUpTo(mask, k))
  BY <1>3, <1>4, FS_Subset
<1>6. QED
  BY <1>1, <1>3, <1>5, FS_CardinalityType

(* Counting the bits before a detail is counting the details in use.        *)
LEMMA BitsCountDetails ==
    ASSUME NEW mask, NEW k \in 0..15, OneBitUpTo(mask, k)
    PROVE  Cardinality(mask \cap UNION {CnOrder[j] : j \in 1..k})
             = Cardinality(UsedUpTo(mask, k))
<1> DEFINE S == UsedUpTo(mask, k)
           T == mask \cap UNION {CnOrder[j] : j \in 1..k}
           f == [i \in S |-> CHOOSE b \in CnOrder[i] \cap mask : TRUE]
<1>1. \A i \in S : i \in CnIndex /\ i \in 1..k /\ CnOrder[i] \cap mask # {}
  BY CnOrderIs DEF UsedUpTo, CnUsed
<1>2. ASSUME NEW i \in S PROVE f[i] \in CnOrder[i] \cap mask
  BY <1>1
<1>3. \A i \in S : f[i] \in T
  BY <1>1, <1>2
<1>4. ASSUME NEW i \in S, NEW j \in S, f[i] = f[j] PROVE i = j
  <2>1. i \in CnIndex /\ j \in CnIndex /\ f[i] \in CnOrder[i] /\ f[i] \in CnOrder[j]
    <3>1. f[i] \in CnOrder[i] /\ f[j] \in CnOrder[j]
      BY <1>2
    <3>2. QED
      BY <1>1, <1>4, <3>1
  <2>2. QED
    BY <2>1, GroupsAreDisjoint
<1>5. ASSUME NEW b \in T PROVE \E i \in S : f[i] = b
  <2>1. PICK i \in 1..k : b \in CnOrder[i] \cap mask
    OBVIOUS
  <2>2. i \in CnIndex /\ i \in S
    BY <2>1, CnOrderIs DEF UsedUpTo, CnUsed
  <2>3. f[i] \in CnOrder[i] \cap mask
    BY <1>2, <2>2
  <2>4. f[i] = b
    BY <2>1, <2>2, <2>3 DEF OneBitUpTo
  <2>5. QED
    BY <2>2, <2>4
<1>6. f \in Bijection(S, T)
  <2>1. DOMAIN f = S
    OBVIOUS
  <2>2. f \in [S -> T]
    BY <1>3
  <2> HIDE DEF f, S, T
  <2>3. f \in Injection(S, T)
    BY <1>4, <2>1, <2>2 DEF Injection, IsInjective
  <2>4. f \in Surjection(S, T)
    BY <1>5, <2>2 DEF Surjection
  <2>5. QED
    BY <2>3, <2>4 DEF Bijection
<1>7. ExistsBijection(S, T)
  BY <1>6 DEF ExistsBijection
<1>8. IsFiniteSet(S)
  BY UsedIsFinite
<1> HIDE DEF S, T, f
<1>9. Cardinality(T) = Cardinality(S)
  BY <1>7, <1>8, FS_Bijection
<1>10. QED
  BY <1>9 DEF S, T

LEMMA RanksDiffer ==
    ASSUME NEW mask, NEW j \in CnUsed(mask), NEW k \in CnUsed(mask),
           Cardinality(UsedUpTo(mask, j)) = Cardinality(UsedUpTo(mask, k))
    PROVE  j = k
<1>1. j \in 1..15 /\ k \in 1..15
  BY UsedIsFinite
<1>2. ASSUME NEW x \in CnUsed(mask), NEW y \in CnUsed(mask), x < y,
             Cardinality(UsedUpTo(mask, x)) = Cardinality(UsedUpTo(mask, y))
      PROVE  FALSE
  <2>1. x \in 1..15 /\ y \in 1..15
    BY UsedIsFinite
  <2>2. UsedUpTo(mask, x) \subseteq UsedUpTo(mask, y)
    BY <1>2, <2>1, UsedIsFinite DEF UsedUpTo
  <2>3. UsedUpTo(mask, y) = UsedUpTo(mask, x)
    BY <1>2, <2>2, UsedIsFinite, FS_Subset
  <2>4. y \in UsedUpTo(mask, y) /\ y \notin UsedUpTo(mask, x)
    BY <1>2, <2>1 DEF UsedUpTo
  <2>5. QED
    BY <2>3, <2>4
<1>3. QED
  BY <1>1, <1>2

(* The reader of a bit finds the detail of the bit, if no two of the bits   *)
(* it counts share a detail.                                                *)
LEMMA ConstraintIsFound ==
    ASSUME NEW s, NEW b \in s.mask \cap CnDetails, OneBitUpTo(s.mask, CnGroup(b) - 1)
    PROVE  /\ CnOffset(s.mask, b) < Len(CnPacked(s))
           /\ CnPacked(s)[CnOffset(s.mask, b) + 1] = s.bound[CnGroup(b)]
<1>1. PICK g : g = CnGroup(b)
  OBVIOUS
<1>2. g \in CnIndex /\ b \in CnOrder[g]
  <2>1. \E k \in CnIndex : b \in CnOrder[k]
    BY DEF CnDetails
  <2>2. QED
    BY <1>1, <2>1 DEF CnGroup
<1>3. g \in 1..15 /\ g - 1 \in 0..15 /\ g \in CnUsed(s.mask)
  BY <1>2, CnOrderIs DEF CnUsed
<1>4. PICK n : n = CnOffset(s.mask, b)
  OBVIOUS
<1>5. PICK used : used = CnUsed(s.mask)
  OBVIOUS
<1>6. n = Cardinality(UsedUpTo(s.mask, g - 1))
  <2>3. OneBitUpTo(s.mask, g - 1)
    BY <1>1
  <2>1. n = Cardinality(s.mask \cap UNION {CnOrder[j] : j \in 1..g - 1})
    BY <1>1, <1>4 DEF CnOffset
  <2>2. QED
    BY <1>3, <2>1, <2>3, BitsCountDetails
<1>7. Cardinality(UsedUpTo(s.mask, g)) = n + 1
  <2>1. UsedUpTo(s.mask, g) = UsedUpTo(s.mask, g - 1) \cup {g}
    BY <1>3, UsedIsFinite DEF UsedUpTo
  <2>2. g \notin UsedUpTo(s.mask, g - 1)
    BY <1>3 DEF UsedUpTo
  <2>3. QED
    BY <1>6, <2>1, <2>2, UsedIsFinite, FS_AddElement
<1>8. n \in Nat /\ Cardinality(used) \in Nat
  BY <1>5, <1>6, UsedIsFinite
<1>9. n + 1 <= Cardinality(used)
  <2>1. UsedUpTo(s.mask, g) \subseteq CnUsed(s.mask)
    BY DEF UsedUpTo
  <2>2. QED
    BY <1>5, <1>7, <2>1, UsedIsFinite, FS_Subset
<1>10. PICK at : at = [j \in 1..Cardinality(used) |->
                         CHOOSE k \in used : Cardinality({i \in used : i <= k}) = j]
  OBVIOUS
<1>11. at[n + 1] = g
  <2>1. at[n + 1] = CHOOSE k \in used : Cardinality({i \in used : i <= k}) = n + 1
    <3>1. PICK j \in 1..Cardinality(used) : j = n + 1
      BY <1>8, <1>9
    <3>2. at[j] = CHOOSE k \in used : Cardinality({i \in used : i <= k}) = j
      BY <1>10
    <3>3. QED
      BY <3>1, <3>2
  <2>2. \A k : {i \in used : i <= k} = UsedUpTo(s.mask, k)
    BY <1>5 DEF UsedUpTo
  <2>3. g \in used /\ Cardinality({i \in used : i <= g}) = n + 1
    BY <1>3, <1>5, <1>7, <2>2
  <2>4. at[n + 1] \in used /\ Cardinality({i \in used : i <= at[n + 1]}) = n + 1
    BY <2>1, <2>3
  <2>5. Cardinality(UsedUpTo(s.mask, at[n + 1])) = Cardinality(UsedUpTo(s.mask, g))
    BY <1>7, <2>2, <2>4
  <2>6. QED
    BY <1>5, <2>3, <2>4, <2>5, RanksDiffer
<1>12. CnPacked(s) = [j \in 1..Cardinality(used) |-> s.bound[at[j]]]
  BY <1>5, <1>10 DEF CnPacked
<1>13. Len(CnPacked(s)) = Cardinality(used) /\ CnPacked(s)[n + 1] = s.bound[g]
  BY <1>8, <1>9, <1>11, <1>12
<1>14. QED
  BY <1>1, <1>4, <1>8, <1>9, <1>13

-----------------------------------------------------------------------------
(* The readers.                                                             *)

First == {"struct", "structarray", "structunion", "structarrayunion", "custom", "customgeneric"}
Arrays == Slot7 \cup {"fixtuple"}

(* Where a reader looks, by the kind of its bit.                            *)
LEMMA OffsetOfFirst ==
    ASSUME NEW types, NEW bit \in First
    PROVE  Offset(types, bit) = 0
<1>1. /\ bit \notin {"path", "ip"} /\ bit \notin Slot1 /\ bit \notin Slot2
      /\ bit \notin Slot3 /\ bit \notin Slot4 /\ bit # "codec"
      /\ bit # "user" /\ bit # "dictkey" /\ bit # "dictval"
      /\ bit \notin Slot7 \cup {"fixtuple"}
  BY DEF First, Slot1, Slot2, Slot3, Slot4, Slot7
<1>2. QED
  BY <1>1, ZenonT(60) DEF Offset, First

LEMMA OffsetOfPath ==
    ASSUME NEW types, NEW bit \in {"path", "ip"}
    PROVE  Offset(types, bit) = Count(types, Slot0 \ {bit})
<1>1. /\ bit \notin First /\ bit \notin Slot1 /\ bit \notin Slot2
      /\ bit \notin Slot3 /\ bit \notin Slot4 /\ bit # "codec"
      /\ bit # "user" /\ bit # "dictkey" /\ bit # "dictval"
      /\ bit \notin Slot7 \cup {"fixtuple"}
  BY DEF First, Slot1, Slot2, Slot3, Slot4, Slot7
<1>2. QED
  BY <1>1, ZenonT(60) DEF Offset, First

LEMMA OffsetOfSlot1 ==
    ASSUME NEW types, NEW bit \in Slot1
    PROVE  Offset(types, bit) = Count(types, Slot0)
<1>1. /\ bit \notin First /\ bit \notin {"path", "ip"} /\ bit \notin Slot2
      /\ bit \notin Slot3 /\ bit \notin Slot4 /\ bit # "codec"
      /\ bit # "user" /\ bit # "dictkey" /\ bit # "dictval"
      /\ bit \notin Slot7 \cup {"fixtuple"}
  BY DEF First, Slot1, Slot2, Slot3, Slot4, Slot7
<1>2. QED
  BY <1>1, ZenonT(60) DEF Offset, First

LEMMA OffsetOfSlot2 ==
    ASSUME NEW types, NEW bit \in Slot2
    PROVE  Offset(types, bit) = Count(types, Slot0 \cup Slot1)
<1>1. /\ bit \notin First /\ bit \notin {"path", "ip"} /\ bit \notin Slot1
      /\ bit \notin Slot3 /\ bit \notin Slot4 /\ bit # "codec"
      /\ bit # "user" /\ bit # "dictkey" /\ bit # "dictval"
      /\ bit \notin Slot7 \cup {"fixtuple"}
  BY DEF First, Slot1, Slot2, Slot3, Slot4, Slot7
<1>2. QED
  BY <1>1, ZenonT(60) DEF Offset, First

LEMMA OffsetOfSlot3 ==
    ASSUME NEW types, NEW bit \in Slot3
    PROVE  Offset(types, bit) = Count(types, Slot0 \cup Slot1 \cup Slot2)
<1>1. /\ bit \notin First /\ bit \notin {"path", "ip"} /\ bit \notin Slot1
      /\ bit \notin Slot2 /\ bit \notin Slot4 /\ bit # "codec"
      /\ bit # "user" /\ bit # "dictkey" /\ bit # "dictval"
      /\ bit \notin Slot7 \cup {"fixtuple"}
  BY DEF First, Slot1, Slot2, Slot3, Slot4, Slot7
<1>2. QED
  BY <1>1, ZenonT(60) DEF Offset, First

LEMMA OffsetOfSlot4 ==
    ASSUME NEW types, NEW bit \in Slot4
    PROVE  Offset(types, bit) = Count(types, Slot0 \cup Slot1 \cup Slot2 \cup Slot3)
<1>1. /\ bit \notin First /\ bit \notin {"path", "ip"} /\ bit \notin Slot1
      /\ bit \notin Slot2 /\ bit \notin Slot3 /\ bit # "codec"
      /\ bit # "user" /\ bit # "dictkey" /\ bit # "dictval"
      /\ bit \notin Slot7 \cup {"fixtuple"}
  BY DEF First, Slot1, Slot2, Slot3, Slot4, Slot7
<1>2. QED
  BY <1>1, ZenonT(60) DEF Offset, First

LEMMA OffsetOfArrays ==
    ASSUME NEW types, NEW bit \in Slot7 \cup {"fixtuple"}
    PROVE  Offset(types, bit) = Count(types, ObjSlots \cup {"codec", "user"} \cup DictBits)
<1>1. /\ bit \notin First /\ bit \notin {"path", "ip"} /\ bit \notin Slot1
      /\ bit \notin Slot2 /\ bit \notin Slot3 /\ bit \notin Slot4
      /\ bit # "codec" /\ bit # "user" /\ bit # "dictkey"
      /\ bit # "dictval"
  BY DEF First, Slot1, Slot2, Slot3, Slot4, Slot7
<1>2. QED
  BY <1>1, ZenonT(60) DEF Offset, First

LEMMA OffsetOfCodec ==
    ASSUME NEW types, NEW bit, bit = "codec"
    PROVE  Offset(types, bit) = Count(types, ObjSlots)
<1>1. /\ bit \notin First /\ bit \notin {"path", "ip"} /\ bit \notin Slot1
      /\ bit \notin Slot2 /\ bit \notin Slot3 /\ bit \notin Slot4
      /\ bit # "user" /\ bit # "dictkey" /\ bit # "dictval"
      /\ bit \notin Slot7 \cup {"fixtuple"}
  BY DEF First, Slot1, Slot2, Slot3, Slot4, Slot7
<1>2. QED
  BY <1>1, ZenonT(60) DEF Offset, First

LEMMA OffsetOfUser ==
    ASSUME NEW types, NEW bit, bit = "user"
    PROVE  Offset(types, bit) = Count(types, ObjSlots \cup {"codec"})
<1>1. /\ bit \notin First /\ bit \notin {"path", "ip"} /\ bit \notin Slot1
      /\ bit \notin Slot2 /\ bit \notin Slot3 /\ bit \notin Slot4
      /\ bit # "codec" /\ bit # "dictkey" /\ bit # "dictval"
      /\ bit \notin Slot7 \cup {"fixtuple"}
  BY DEF First, Slot1, Slot2, Slot3, Slot4, Slot7
<1>2. QED
  BY <1>1, ZenonT(60) DEF Offset, First

LEMMA OffsetOfKey ==
    ASSUME NEW types, NEW bit, bit = "dictkey"
    PROVE  Offset(types, bit) = Count(types, ObjSlots \cup {"codec", "user"})
<1>1. /\ bit \notin First /\ bit \notin {"path", "ip"} /\ bit \notin Slot1
      /\ bit \notin Slot2 /\ bit \notin Slot3 /\ bit \notin Slot4
      /\ bit # "codec" /\ bit # "user" /\ bit # "dictval"
      /\ bit \notin Slot7 \cup {"fixtuple"}
  BY DEF First, Slot1, Slot2, Slot3, Slot4, Slot7
<1>2. QED
  BY <1>1, ZenonT(60) DEF Offset, First

LEMMA OffsetOfValue ==
    ASSUME NEW types, NEW bit, bit = "dictval"
    PROVE  Offset(types, bit) = Count(types, ObjSlots \cup {"codec", "user"}) + 1
<1>1. /\ bit \notin First /\ bit \notin {"path", "ip"} /\ bit \notin Slot1
      /\ bit \notin Slot2 /\ bit \notin Slot3 /\ bit \notin Slot4
      /\ bit # "codec" /\ bit # "user" /\ bit # "dictkey"
      /\ bit \notin Slot7 \cup {"fixtuple"}
  BY DEF First, Slot1, Slot2, Slot3, Slot4, Slot7
<1>2. QED
  BY <1>1, ZenonT(60) DEF Offset, First

(* The bits that a reader counts.                                           *)
Counted == ObjSlots \cup {"codec", "user"} \cup DictBits \cup Arrays

(* The same bits give the same count, in the collect state and in the node. *)
LEMMA SameBitsCount ==
    ASSUME NEW types, NEW s, types \cap Counted = s.types \cap Counted,
           NEW A, NEW B, A \subseteq Counted, s.types \cap A = s.types \cap B
    PROVE  Count(types, A) = Count(s.types, B)
<1>1. types \cap A = s.types \cap B
  OBVIOUS
<1>2. QED
  BY <1>1 DEF Count

LEMMA PlaceCounts ==
    ASSUME NEW s, Sized(s), NEW k \in 1..16
    PROVE  Place(s, k) = Count(s.types, Below(k))
<1>1. Count(s.types, Below(k)) \in Nat
  BY CountIsNat DEF Sized
<1>2. QED
  BY <1>1 DEF Place

LEMMA ReaderCounts ==
    ASSUME NEW types, NEW s, Sized(s), types \cap Counted = s.types \cap Counted,
           NEW k \in 1..16, NEW A, A \subseteq Counted, s.types \cap A = s.types \cap Below(k)
    PROVE  Count(types, A) = Place(s, k)
<1>1. PICK B : B = Below(k)
  OBVIOUS
<1>2. Count(types, A) = Count(s.types, B)
  BY <1>1, SameBitsCount
<1>3. QED
  BY <1>1, <1>2, PlaceCounts

(* A bit that is set has its slot in use.                                   *)
LEMMA BitIsPresent ==
    ASSUME NEW s, Held(s), NEW k \in 1..16, NEW b \in BitsOf[k], b \in s.types
    PROVE  Present(s, Layout[k])
<1>1. CASE k \in {13, 14}
  <2>1. b = Layout[k] /\ b \in {"codec", "user"}
    BY <1>1, LayoutIsInjective DEF BitsOf
  <2>2. QED
    BY <2>1, WhenPresent
<1>2. CASE k \notin {13, 14}
  <2>1. s.obj[Layout[k]] # Null
    BY <1>2 DEF Held, HeldAt
  <2>2. Layout[k] \notin {"codec", "user", "constraints"}
    <3>1. k \in 1..17 /\ k # 13 /\ k # 14 /\ k # 17
      BY <1>2
    <3>2. \A i \in {13, 14, 17} : i \in 1..17 /\ k # i
      BY <3>1
    <3>3. \A i \in {13, 14, 17} : Layout[k] # Layout[i]
      BY <3>1, <3>2, LayoutIsInjective
    <3>4. QED
      BY <3>3, LayoutIsInjective
  <2>3. QED
    BY <2>1, <2>2, WhenPresent
<1>3. QED
  BY <1>1, <1>2

LEMMA CountedSets ==
    /\ Slot0 \subseteq Counted /\ Slot1 \subseteq Counted /\ Slot2 \subseteq Counted
    /\ Slot3 \subseteq Counted /\ Slot4 \subseteq Counted /\ ObjSlots \subseteq Counted
    /\ "codec" \in Counted /\ "user" \in Counted
    /\ DictBits \subseteq Counted /\ Slot7 \subseteq Counted /\ "fixtuple" \in Counted
BY DEF Counted, ObjSlots, Arrays

(* A reader counts as many bits as there are details before its own.        *)
LEMMA OffsetIsPlace ==
    ASSUME NEW types, NEW s, Kept(s), Distinct(s), types \cap Counted = s.types \cap Counted,
           NEW k \in 1..16, NEW b \in BitsOf[k], b \in s.types
    PROVE  Offset(types, b) = Place(s, k) + (IF b = "dictval" THEN 1 ELSE 0)
<1>1. Sized(s) /\ Held(s)
  BY KeptIsSized
<1>2. Place(s, k) \in Nat
  BY <1>1, PlaceIsNat
<1>3. k # 15 => b # "dictval"
  BY DEF BitsOf
<1>4. CASE k \in {1, 2, 3}
  <2>1. b \in First
    BY <1>4 DEF BitsOf, First
  <2>2. s.types \cap Below(k) = {}
    <3>1. CASE k = 1
      BY <3>1, BitsBelow
    <3>2. CASE k # 1
      <4>1. s.obj["custom"] = Null
        <5>1. b \in {"struct", "structarray", "structunion", "structarrayunion"}
          BY <1>4, <3>2 DEF BitsOf
        <5>2. QED
          BY <5>1 DEF Distinct
      <4>2. s.types \cap BitsOf[1] = {}
        <5>1. HeldAt(s, 1)
          BY <1>1 DEF Held
        <5>2. QED
          BY <4>1, <5>1, LayoutIsInjective DEF HeldAt
      <4>3. k = 3 => s.types \cap BitsOf[2] = {}
        <5>1. HeldAt(s, 2) /\ HeldAt(s, 3)
          BY <1>1 DEF Held
        <5>2. k = 3 => s.obj["structlookup"] # Null
          BY <5>1, LayoutIsInjective DEF HeldAt
        <5>3. k = 3 => s.obj["structinfo"] = Null
          BY <5>2 DEF Kept, OneStruct
        <5>4. QED
          BY <5>1, <5>3, LayoutIsInjective DEF HeldAt
      <4>4. /\ Below(2) = BitsOf[1]
            /\ Below(3) = BitsOf[1] \cup BitsOf[2]
        BY BitsBelow DEF BitsOf
      <4>5. QED
        BY <1>4, <3>2, <4>2, <4>3, <4>4
    <3>3. QED
      BY <3>1, <3>2
  <2>3. Place(s, k) = 0
    <3>1. Count(s.types, Below(k)) = 0
      BY <2>2, FS_EmptySet DEF Count
    <3>2. QED
      BY <1>1, <3>1, PlaceCounts
  <2>4. QED
    BY <1>3, <1>4, <2>1, <2>3, OffsetOfFirst
<1>5. CASE k \in {4, 5}
  <2>1. b \in {"path", "ip"} /\ (k = 4 <=> b = "path")
    BY <1>5 DEF BitsOf
  <2>2. PICK A : A = Slot0 \ {b}
    OBVIOUS
  <2>3. A \subseteq Counted
    BY <2>2, CountedSets
  <2>4. Below(k) = Slot0 \ (IF k = 4 THEN {"path", "ip"} ELSE {"ip"})
    <3>1. /\ Below(4) = Slot0 \ {"path", "ip"}
          /\ Below(5) = Slot0 \ {"ip"}
      BY BitsBelow DEF Slot0
    <3>2. QED
      BY <1>5, <3>1
  <2>5. k = 4 => "ip" \notin s.types
    <3>1. "path" \in StrLike /\ "ip" \in StrLike
      BY DEF StrLike
    <3>2. QED
      BY <2>1, <3>1 DEF Distinct
  <2>6. s.types \cap A = s.types \cap Below(k)
    BY <2>1, <2>2, <2>4, <2>5
  <2>7. Offset(types, b) = Count(types, A)
    BY <2>1, <2>2, OffsetOfPath
  <2>8. Count(types, A) = Place(s, k)
    BY <1>1, <2>3, <2>6, ReaderCounts
  <2>9. QED
    BY <1>2, <1>3, <1>5, <2>7, <2>8
<1>6. CASE k \in {6, 7}
  <2>1. b \in Slot1 /\ (k = 7 => b = "intliteral")
    BY <1>6 DEF BitsOf, Slot1
  <2>2. k = 7 => "intenum" \notin s.types
    <3>1. "intenum" \in IntLike /\ "intliteral" \in IntLike
      BY DEF IntLike
    <3>2. QED
      BY <2>1, <3>1 DEF Distinct
  <2>3. Below(6) = Slot0 /\ Below(7) = Slot0 \cup {"intenum"}
    BY BitsBelow
  <2>4. s.types \cap Slot0 = s.types \cap Below(k)
    BY <1>6, <2>2, <2>3
  <2>5. Count(types, Slot0) = Place(s, k)
    BY <1>1, <2>4, CountedSets, ReaderCounts
  <2>6. QED
    BY <1>2, <1>3, <1>6, <2>1, <2>5, OffsetOfSlot1
<1>7. CASE k \in {8, 9}
  <2>1. b \in Slot2 /\ (k = 9 => b = "strliteral")
    BY <1>7 DEF BitsOf, Slot2
  <2>2. k = 9 => "enum" \notin s.types
    <3>1. "enum" \in StrLike /\ "strliteral" \in StrLike
      BY DEF StrLike
    <3>2. QED
      BY <2>1, <3>1 DEF Distinct
  <2>3. PICK A : A = Slot0 \cup Slot1
    OBVIOUS
  <2>4. Below(8) = A /\ Below(9) = A \cup {"enum"}
    BY <2>3, BitsBelow
  <2>5. s.types \cap A = s.types \cap Below(k)
    BY <1>7, <2>2, <2>4
  <2>6. Count(types, A) = Place(s, k)
    BY <1>1, <2>3, <2>5, CountedSets, ReaderCounts
  <2>7. QED
    BY <1>2, <1>3, <1>7, <2>1, <2>3, <2>6, OffsetOfSlot2
<1>8. CASE k \in {10, 11}
  <2>1. b \in Slot3 /\ (k = 11 => b = "dataclass")
    BY <1>8 DEF BitsOf, Slot3
  <2>2. k = 11 => "typeddict" \notin s.types
    BY <2>1 DEF Distinct
  <2>3. PICK A : A = Slot0 \cup Slot1 \cup Slot2
    OBVIOUS
  <2>4. Below(10) = A /\ Below(11) = A \cup {"typeddict"}
    BY <2>3, BitsBelow
  <2>5. s.types \cap A = s.types \cap Below(k)
    BY <1>8, <2>2, <2>4
  <2>6. Count(types, A) = Place(s, k)
    BY <1>1, <2>3, <2>5, CountedSets, ReaderCounts
  <2>7. QED
    BY <1>2, <1>3, <1>8, <2>1, <2>3, <2>6, OffsetOfSlot3
<1>9. CASE k = 12
  <2>1. b \in Slot4
    BY <1>9 DEF BitsOf, Slot4
  <2>2. PICK A : A = Slot0 \cup Slot1 \cup Slot2 \cup Slot3
    OBVIOUS
  <2>3. A \subseteq Counted /\ s.types \cap A = s.types \cap Below(k)
    BY <1>9, <2>2, BitsBelow, CountedSets
  <2>4. Count(types, A) = Place(s, k)
    BY <1>1, <2>3, ReaderCounts
  <2>5. QED
    BY <1>2, <1>3, <1>9, <2>1, <2>2, <2>4, OffsetOfSlot4, SMTT(60)
<1>10. CASE k = 13
  <2>1. b = "codec"
    BY <1>10 DEF BitsOf
  <2>2. s.types \cap ObjSlots = s.types \cap Below(k)
    BY <1>10, BitsBelow
  <2>3. Count(types, ObjSlots) = Place(s, k)
    BY <1>1, <2>2, CountedSets, ReaderCounts
  <2>4. QED
    BY <1>2, <1>3, <1>10, <2>1, <2>3, OffsetOfCodec
<1>11. CASE k = 14
  <2>1. b = "user"
    BY <1>11 DEF BitsOf
  <2>2. PICK A : A = ObjSlots \cup {"codec"}
    OBVIOUS
  <2>3. A \subseteq Counted /\ s.types \cap A = s.types \cap Below(k)
    BY <1>11, <2>2, BitsBelow, CountedSets
  <2>4. Count(types, A) = Place(s, k)
    BY <1>1, <2>3, ReaderCounts
  <2>5. QED
    BY <1>2, <1>3, <1>11, <2>1, <2>2, <2>4, OffsetOfUser
<1>12. CASE k = 15
  <2>1. b \in {"dictkey", "dictval"}
    BY <1>12 DEF BitsOf
  <2>2. PICK A : A = ObjSlots \cup {"codec", "user"}
    OBVIOUS
  <2>3. A \subseteq Counted /\ s.types \cap A = s.types \cap Below(k)
    BY <1>12, <2>2, BitsBelow, CountedSets
  <2>4. Count(types, A) = Place(s, k)
    BY <1>1, <2>3, ReaderCounts
  <2>5. CASE b = "dictkey"
    <3>1. Offset(types, b) = Count(types, A)
      BY <2>2, <2>5, OffsetOfKey
    <3>2. QED
      BY <1>2, <2>4, <2>5, <3>1
  <2>6. CASE b = "dictval"
    <3>1. Offset(types, b) = Count(types, A) + 1
      BY <2>2, <2>6, OffsetOfValue
    <3>2. QED
      BY <2>4, <2>6, <3>1
  <2>7. QED
    BY <2>1, <2>5, <2>6
<1>13. CASE k = 16
  <2>1. b \in Arrays
    BY <1>13 DEF BitsOf, Arrays, Slot7
  <2>2. PICK A : A = ObjSlots \cup {"codec", "user"} \cup DictBits
    OBVIOUS
  <2>3. A \subseteq Counted /\ s.types \cap A = s.types \cap Below(k)
    BY <1>13, <2>2, BitsBelow, CountedSets
  <2>4. Count(types, A) = Place(s, k)
    BY <1>1, <2>3, ReaderCounts
  <2>5. QED
    BY <1>2, <1>3, <1>13, <2>1, <2>2, <2>4, OffsetOfArrays DEF Arrays
<1>14. QED
  BY <1>4, <1>5, <1>6, <1>7, <1>8, <1>9, <1>10, <1>11, <1>12, <1>13

(* What is stored for a slot is found from where the slot begins.           *)
LEMMA StoredIsRead ==
    ASSUME Kept(st), Laid(st, node, 17), NEW k \in 1..17, Present(st, Layout[k]),
           NEW i \in Nat, i < Len(Stored(st, Layout[k]))
    PROVE  DetailAt(Place(st, k) + i) = Stored(st, Layout[k])[i + 1]
<1>1. Sized(st) /\ Held(st)
  BY KeptIsSized
<1>2. PICK q : q = Stored(st, Layout[k])
  OBVIOUS
<1>3. Len(q) \in Nat /\ Place(st, k + 1) = Place(st, k) + Len(q)
  BY <1>1, <1>2, StoredFits
<1>4. Place(st, k) \in Nat
  <2>1. k \in 1..18
    OBVIOUS
  <2>2. QED
    BY <1>1, <2>1, PlaceIsNat
<1>5. Place(st, k + 1) <= Place(st, 18)
  <2>1. k + 1 \in 1..18 /\ 18 \in 1..18 /\ k + 1 <= 18
    OBVIOUS
  <2>2. QED
    BY <1>1, <2>1, PlaceGrows
<1>6. Len(node.details) = Place(st, 18)
  BY DEF Laid
<1>7. Place(st, 18) \in Nat
  <2>1. \A j \in 1..18 : Place(st, j) \in Nat
    BY <1>1, PlaceIsNat
  <2>2. 18 \in 1..18
    OBVIOUS
  <2>3. QED
    BY <2>1, <2>2, Zenon
<1>8. Place(st, k) + i < Len(node.details)
  BY <1>2, <1>3, <1>4, <1>5, <1>6, <1>7
<1>9. DetailAt(Place(st, k) + i) = node.details[Place(st, k) + (i + 1)]
  BY <1>4, <1>8 DEF DetailAt
<1>10. node.details[Place(st, k) + (i + 1)] = q[i + 1]
  <2>1. i + 1 \in 1..Len(q)
    BY <1>2, <1>3
  <2>2. \A j \in 1..Len(q) : node.details[Place(st, k) + j] = q[j]
    BY <1>2 DEF Laid, Placed
  <2>3. QED
    BY <2>1, <2>2
<1>11. QED
  BY <1>2, <1>9, <1>10

LEMMA SingleIsRead ==
    ASSUME Kept(st), Laid(st, node, 17), NEW k \in 1..17, Present(st, Layout[k]),
           NEW d, Stored(st, Layout[k]) = <<d>>
    PROVE  DetailAt(Place(st, k)) = d
<1>1. Len(<<d>>) = 1 /\ <<d>>[1] = d
  OBVIOUS
<1>2. PICK i \in Nat : i = 0
  OBVIOUS
<1>3. i < Len(Stored(st, Layout[k]))
  BY <1>1, <1>2
<1>4. DetailAt(Place(st, k) + i) = Stored(st, Layout[k])[i + 1]
  BY <1>3, StoredIsRead
<1>5. Place(st, k) \in Nat
  <2>1. k \in 1..18
    OBVIOUS
  <2>2. QED
    BY <2>1, KeptIsSized, PlaceIsNat
<1>6. Place(st, k) + i = Place(st, k) /\ i + 1 = 1
  BY <1>2, <1>5
<1>7. QED
  BY <1>1, <1>4, <1>6

(* The node has the bits of the collect state, and two that nobody counts.  *)
LEMMA NodeHasBits ==
    ASSUME Kept(st), Laid(st, node, 17)
    PROVE  /\ node.types \cap Counted = st.types \cap Counted
           /\ "constr" \in node.types => st.mask # {}
           /\ "any" \in node.types => "any" \in st.types \/ st.obj["custom"] # Null
<1>1. "constr" \notin Counted /\ "any" \notin Counted
  BY DEF Counted, ObjSlots, Slot0, Slot1, Slot2, Slot3, Slot4, DictBits, Arrays, Slot7
<1>2. "constr" \notin st.types
  BY DEF Kept, StateOK, CollectedTypes
<1>3. node.types = NodeTypes(st, 17)
  BY DEF Laid
<1>4. QED
  BY <1>1, <1>2, <1>3 DEF NodeTypes

LEMMA ObjectIs ==
    ASSUME NEW k \in 1..14, NEW b \in BitsOf[k]
    PROVE  ObjectOf(b) = st.obj[Layout[k]]
<1>1. CASE k = 2
  <2>1. b \in {"struct", "structarray"} /\ Layout[k] = "structinfo"
    BY <1>1, LayoutIsInjective DEF BitsOf
  <2>2. b \notin {"structunion", "structarrayunion"} /\ b # "dictkey" /\ b # "dictval"
    BY <2>1
  <2>3. QED
    BY <2>1, <2>2, Zenon DEF ObjectOf
<1>2. CASE k = 3
  <2>1. b \in {"structunion", "structarrayunion"} /\ Layout[k] = "structlookup"
    BY <1>2, LayoutIsInjective DEF BitsOf
  <2>2. b \notin {"struct", "structarray"} /\ b # "dictkey" /\ b # "dictval"
    BY <2>1
  <2>3. QED
    BY <2>1, <2>2, Zenon DEF ObjectOf
<1>3. CASE k \notin {2, 3}
  <2>1. /\ b \notin {"struct", "structarray"} /\ b \notin {"structunion", "structarrayunion"}
        /\ b # "dictkey" /\ b # "dictval"
    BY <1>3 DEF BitsOf
  <2>2. ObjectOf(b) = st.obj[SlotOf(b)]
    BY <2>1, Zenon DEF ObjectOf
  <2>3. SlotOf(b) = Layout[k]
    <3>1. CASE b = "customgeneric"
      <4>1. k = 1
        BY <3>1 DEF BitsOf
      <4>2. QED
        BY <3>1, <4>1, SlotOfType, LayoutIsInjective
    <3>2. CASE b # "customgeneric"
      <4>1. b = Layout[k]
        BY <1>3, <3>2 DEF BitsOf, Layout
      <4>2. b \notin Slot7 \cup {"fixtuple", "customgeneric"}
        BY <3>2 DEF BitsOf, Slot7
      <4>3. QED
        BY <4>1, <4>2, SlotOfType
    <3>3. QED
      BY <3>1, <3>2
  <2>4. QED
    BY <2>2, <2>3
<1>4. QED
  BY <1>1, <1>2, <1>3

(* The getters of single objects.                                           *)
LEMMA ObjectsAreFound ==
    ASSUME Kept(st), Distinct(st), Laid(st, node, 17),
           NEW b \in node.types \cap (ObjSlots \cup {"codec", "user"})
    PROVE  DetailAt(Offset(node.types, b)) = Detail("obj", ObjectOf(b))
<1>1. b \in st.types
  BY NodeHasBits, CountedSets
<1>2. PICK k \in 1..14 : b \in BitsOf[k]
  BY DEF ObjSlots, Slot0, Slot1, Slot2, Slot3, Slot4, BitsOf
<1>3. k \in 1..16 /\ k \in 1..17 /\ b # "dictval"
  BY <1>2 DEF BitsOf
<1>4. Place(st, k) \in Nat
  <2>1. k \in 1..18
    OBVIOUS
  <2>2. QED
    BY <2>1, KeptIsSized, PlaceIsNat
<1>5. Offset(node.types, b) = Place(st, k)
  <2>1. node.types \cap Counted = st.types \cap Counted
    BY NodeHasBits
  <2>2. Offset(node.types, b) = Place(st, k) + (IF b = "dictval" THEN 1 ELSE 0)
    <3>1. \A i \in 1..16 : \A x \in BitsOf[i] : x \in st.types =>
             Offset(node.types, x) = Place(st, i) + (IF x = "dictval" THEN 1 ELSE 0)
      BY <2>1, OffsetIsPlace
    <3>2. QED
      BY <1>1, <1>2, <1>3, <3>1, Zenon
  <2>3. QED
    BY <1>3, <1>4, <2>2
<1>6. Present(st, Layout[k])
  BY <1>1, <1>2, <1>3, KeptIsSized, BitIsPresent
<1>7. PICK d : d = Detail("obj", st.obj[Layout[k]])
  OBVIOUS
<1>8. Stored(st, Layout[k]) = <<d>>
  <2>1. \A i \in {15, 16, 17} : i \in 1..17 /\ k # i
    OBVIOUS
  <2>2. \A i \in {15, 16, 17} : Layout[k] # Layout[i]
    BY <1>3, <2>1, LayoutIsInjective
  <2>3. Layout[k] \notin {"dict", "array", "constraints"}
    BY <2>2, LayoutIsInjective
  <2>4. QED
    BY <1>7, <2>3, WhatIsStored
<1>9. DetailAt(Place(st, k)) = d
  BY <1>3, <1>6, <1>8, SingleIsRead
<1>10. QED
  BY <1>2, <1>5, <1>7, <1>9, ObjectIs

(* The getters of the nodes of a dict, and of the items of an array.        *)
LEMMA NodesAreFound ==
    ASSUME Kept(st), Distinct(st), Laid(st, node, 17),
           NEW b \in node.types \cap (DictBits \cup Slot7)
    PROVE  DetailAt(Offset(node.types, b)) = Detail("node", ObjectOf(b))
<1>1. b \in st.types
  BY NodeHasBits, CountedSets
<1>2. PICK k \in 1..16 : k \in {15, 16} /\ b \in BitsOf[k]
  BY DEF DictBits, Slot7, BitsOf
<1>3. Sized(st) /\ Held(st)
  BY KeptIsSized
<1>4. Place(st, k) \in Nat
  <2>1. k \in 1..18
    OBVIOUS
  <2>2. QED
    BY <1>3, <2>1, PlaceIsNat
<1>5. Offset(node.types, b) = Place(st, k) + (IF b = "dictval" THEN 1 ELSE 0)
  BY <1>1, <1>2, NodeHasBits, OffsetIsPlace
<1>6. Present(st, Layout[k])
  BY <1>1, <1>2, <1>3, BitIsPresent
<1>7. CASE k = 15
  <2>1. Layout[k] = "dict" /\ b \in DictBits
    BY <1>2, <1>7, LayoutIsInjective DEF BitsOf, DictBits
  <2>2. PICK key, val : /\ key = Detail("node", st.obj["dict"][1])
                        /\ val = Detail("node", st.obj["dict"][2])
    OBVIOUS
  <2>3. Stored(st, Layout[k]) = <<key, val>>
    BY <2>1, <2>2, WhatIsStored
  <2>4. Len(<<key, val>>) = 2 /\ <<key, val>>[1] = key /\ <<key, val>>[2] = val
    OBVIOUS
  <2>5. /\ b \notin {"struct", "structarray"} /\ b \notin {"structunion", "structarrayunion"}
    BY <2>1 DEF DictBits
  <2>6. ASSUME NEW i \in Nat, i < 2
        PROVE  DetailAt(Place(st, k) + i) = <<key, val>>[i + 1]
    <3>1. i < Len(Stored(st, Layout[k]))
      BY <2>3, <2>4, <2>6
    <3>2. DetailAt(Place(st, k) + i) = Stored(st, Layout[k])[i + 1]
      BY <1>2, <1>6, <3>1, StoredIsRead, SMTT(60)
    <3>3. QED
      BY <2>3, <3>2
  <2>7. CASE b = "dictkey"
    <3>1. ObjectOf(b) = st.obj["dict"][1]
      <4>1. "dictkey" # "dictval"
        OBVIOUS
      <4>2. QED
        BY <2>5, <2>7, <4>1, Zenon DEF ObjectOf
    <3>2. PICK i \in Nat : i = 0
      OBVIOUS
    <3>3. DetailAt(Place(st, k) + i) = <<key, val>>[i + 1]
      BY <2>6, <3>2
    <3>4. Offset(node.types, b) = Place(st, k) + i /\ i + 1 = 1
      BY <1>4, <1>5, <2>7, <3>2
    <3>5. QED
      BY <2>2, <2>4, <3>1, <3>3, <3>4
  <2>8. CASE b = "dictval"
    <3>1. ObjectOf(b) = st.obj["dict"][2]
      <4>1. "dictkey" # "dictval"
        OBVIOUS
      <4>2. QED
        BY <2>5, <2>8, <4>1, Zenon DEF ObjectOf
    <3>2. PICK i \in Nat : i = 1
      OBVIOUS
    <3>3. DetailAt(Place(st, k) + i) = <<key, val>>[i + 1]
      BY <2>6, <3>2
    <3>4. Offset(node.types, b) = Place(st, k) + i /\ i + 1 = 2
      BY <1>4, <1>5, <2>8, <3>2
    <3>5. QED
      BY <2>2, <2>4, <3>1, <3>3, <3>4
  <2>9. QED
    BY <2>1, <2>7, <2>8 DEF DictBits
<1>8. CASE k = 16
  <2>1. Layout[k] = "array" /\ b \in Slot7 /\ b # "fixtuple" /\ b # "dictval"
    BY <1>2, <1>8, LayoutIsInjective DEF BitsOf, DictBits, Slot7
  <2>2. "fixtuple" \notin st.types
    <3>1. \E x \in BitsOf[16] : st.types \cap BitsOf[16] = {x}
      <4>1. HeldAt(st, 16)
        BY <1>3 DEF Held
      <4>2. QED
        BY <1>1, <1>2, <1>8, <4>1 DEF HeldAt
    <3>2. "fixtuple" \in BitsOf[16]
      BY DEF BitsOf
    <3>3. QED
      BY <1>1, <1>2, <1>8, <2>1, <3>1, <3>2
  <2>3. PICK d : d = Detail("node", st.obj["array"])
    OBVIOUS
  <2>4. Stored(st, Layout[k]) = <<d>>
    BY <2>1, <2>2, <2>3, WhatIsStored
  <2>5. DetailAt(Place(st, k)) = d
    BY <1>2, <1>6, <2>4, SingleIsRead
  <2>6. ObjectOf(b) = st.obj["array"]
    <3>1. /\ b \notin {"struct", "structarray"} /\ b \notin {"structunion", "structarrayunion"}
          /\ b # "dictkey" /\ b # "dictval"
      BY <2>1 DEF Slot7
    <3>2. ObjectOf(b) = st.obj[SlotOf(b)]
      BY <3>1, Zenon DEF ObjectOf
    <3>3. SlotOf(b) = "array"
      BY <2>1, SlotOfType
    <3>4. QED
      BY <3>2, <3>3
  <2>7. Offset(node.types, b) = Place(st, k)
    BY <1>4, <1>5, <2>1
  <2>8. QED
    BY <2>3, <2>5, <2>6, <2>7
<1>9. QED
  BY <1>2, <1>7, <1>8

(* The getter of a tuple: its size, and its items after it.                 *)
LEMMA TupleIsFound ==
    ASSUME Kept(st), Distinct(st), Laid(st, node, 17), "fixtuple" \in node.types
    PROVE  LET i == Offset(node.types, "fixtuple")
               n == Len(st.obj["array"])
           IN  /\ "fixtuple" \in st.types /\ n \in Nat
               /\ i = Place(st, 16)
               /\ DetailAt(i) = Detail("size", n)
               /\ \A j \in 1..n : DetailAt(i + j) = Detail("node", st.obj["array"][j])
<1>1. "fixtuple" \in st.types
  BY NodeHasBits, CountedSets
<1>2. Sized(st) /\ Held(st)
  BY KeptIsSized
<1>3. PICK n : n = Len(st.obj["array"])
  OBVIOUS
<1>4. n \in Nat
  BY <1>1, <1>2, <1>3 DEF Sized
<1>5. PICK k \in 1..16 : k = 16
  OBVIOUS
<1>6. PICK b \in BitsOf[k] : b = "fixtuple"
  BY <1>5 DEF BitsOf
<1>7. Place(st, k) \in Nat
  <2>1. k \in 1..18
    OBVIOUS
  <2>2. QED
    BY <1>2, <2>1, PlaceIsNat
<1>8. Offset(node.types, b) = Place(st, k)
  <2>1. Offset(node.types, b) = Place(st, k) + (IF b = "dictval" THEN 1 ELSE 0)
    BY <1>1, <1>6, NodeHasBits, OffsetIsPlace
  <2>2. b # "dictval"
    BY <1>6
  <2>3. QED
    BY <1>7, <2>1, <2>2
<1>9. Present(st, Layout[k]) /\ Layout[k] = "array"
  BY <1>1, <1>2, <1>5, <1>6, BitIsPresent, LayoutIsInjective
<1>10. PICK q : q = Stored(st, "array")
  OBVIOUS
<1>11. /\ Len(q) = n + 1
       /\ q[1] = Detail("size", n)
       /\ \A j \in 1..n : q[j + 1] = Detail("node", st.obj["array"][j])
  BY <1>1, <1>3, <1>4, <1>10, TupleIsStored
<1>12. ASSUME NEW j \in 0..n PROVE DetailAt(Place(st, k) + j) = q[j + 1]
  <2>1. j \in Nat /\ j < Len(Stored(st, Layout[k])) /\ k \in 1..17
    BY <1>4, <1>9, <1>10, <1>11
  <2>2. DetailAt(Place(st, k) + j) = Stored(st, Layout[k])[j + 1]
    BY <1>9, <2>1, StoredIsRead
  <2>3. QED
    BY <1>9, <1>10, <2>2
<1>13. DetailAt(Place(st, k)) = Detail("size", n)
  <2>1. PICK j \in 0..n : j = 0
    BY <1>4
  <2>2. DetailAt(Place(st, k) + j) = q[j + 1]
    BY <1>12
  <2>3. Place(st, k) + j = Place(st, k) /\ j + 1 = 1
    BY <1>7, <2>1
  <2>4. QED
    BY <1>11, <2>2, <2>3
<1>14. \A j \in 1..n : DetailAt(Place(st, k) + j) = Detail("node", st.obj["array"][j])
  BY <1>4, <1>11, <1>12
<1>15. QED
  BY <1>1, <1>3, <1>4, <1>5, <1>6, <1>8, <1>13, <1>14

LEMMA RangesAre ==
    ASSUME NEW types, NEW r, r = TraverseRanges(types)
    PROVE  /\ types \cap {"custom", "customgeneric"} # {} =>
                 r.obj = 1 + Count(types, {"codec", "user"}) /\ r.node = 0 /\ r.size = 0
           /\ types \cap {"custom", "customgeneric"} = {} /\ "any" \notin types =>
                 /\ r.obj = Count(types, ObjSlots \cup {"codec", "user"})
                 /\ r.node = Count(types, DictBits \cup Slot7)
                 /\ "fixtuple" \in types /\ DetailAt(Offset(types, "fixtuple")).is = "size" =>
                        r.size = DetailAt(Offset(types, "fixtuple")).of
<1>1. ASSUME types \cap {"custom", "customgeneric"} # {}
      PROVE  r.obj = 1 + Count(types, {"codec", "user"}) /\ r.node = 0 /\ r.size = 0
  BY <1>1 DEF TraverseRanges
<1>2. ASSUME types \cap {"custom", "customgeneric"} = {}, "any" \notin types
      PROVE  /\ r.obj = Count(types, ObjSlots \cup {"codec", "user"})
             /\ r.node = Count(types, DictBits \cup Slot7)
             /\ "fixtuple" \in types /\ DetailAt(Offset(types, "fixtuple")).is = "size" =>
                    r.size = DetailAt(Offset(types, "fixtuple")).of
  BY <1>2 DEF TraverseRanges
<1>3. QED
  BY <1>1, <1>2

(* TypeNode_get_constraints looks behind all other details.                 *)
LEMMA ConstraintsAreLast ==
    ASSUME Kept(st), Distinct(st), Laid(st, node, 17), "constr" \in node.types
    PROVE  ConstraintOffset(node.types) = Place(st, 17)
<1>1. PICK types : types = node.types
  OBVIOUS
<1>2. PICK r : r = TraverseRanges(types)
  OBVIOUS
<1>3. Sized(st) /\ Held(st) /\ st.types \subseteq Types
  BY KeptIsSized
<1>4. types \cap Counted = st.types \cap Counted
  BY <1>1, NodeHasBits
<1>5. PICK hooks : hooks = {"codec", "user"}
  OBVIOUS
<1>6. PICK objs : objs = ObjSlots \cup {"codec", "user"}
  OBVIOUS
<1>7. PICK nodes : nodes = DictBits \cup Slot7
  OBVIOUS
<1>8. /\ Counted = objs \cup nodes \cup {"fixtuple"}
      /\ ObjSlots \cup DictBits \cup Slot7 \cup {"fixtuple", "codec", "user"} = Counted
      /\ Below(17) = Counted
  BY <1>6, <1>7, BitsBelow DEF Counted, Arrays
<1>9. Count(st.types, Counted) \in Nat /\ Elements(st) \in Nat
  BY <1>3, CountIsNat, SizesAreNat
<1>10. Place(st, 17) = Count(st.types, Counted) + Elements(st)
  <2>1. Place(st, 17) = Count(st.types, Below(17)) + Elements(st) + 0
    BY DEF Place
  <2>2. Place(st, 17) = Count(st.types, Counted) + Elements(st) + 0
    BY <1>8, <2>1
  <2>3. QED
    BY <1>9, <2>2
<1>11. ConstraintOffset(types) =
          IF types \cap Counted = {} THEN 0
          ELSE r.obj + r.node + (IF "fixtuple" \in types THEN 1 + r.size ELSE 0)
  BY <1>2, <1>8 DEF ConstraintOffset
<1>12. "fixtuple" \in types <=> "fixtuple" \in st.types
  BY <1>4, CountedSets
<1>13. \A A : A \subseteq Counted => Count(types, A) = Count(st.types, A)
  BY <1>4, SameBitsCount
<1>14. {"custom", "customgeneric"} \subseteq Counted
  BY DEF Counted, ObjSlots, Slot0
<1>15. HeldAt(st, 1) /\ BitsOf[1] = {"custom", "customgeneric"} /\ Layout[1] = "custom"
  BY <1>3, LayoutIsInjective DEF Held, BitsOf
<1>16. CASE types \cap {"custom", "customgeneric"} # {}
  <2>1. st.obj["custom"] # Null
    BY <1>4, <1>14, <1>15, <1>16 DEF HeldAt
  <2>2. st.types \subseteq {"custom", "customgeneric", "none", "codec", "user"}
    BY <2>1 DEF Distinct
  <2>3. PICK b : st.types \cap {"custom", "customgeneric"} = {b}
    BY <1>15, <2>1 DEF HeldAt
  <2>4. st.types \cap Counted = st.types \cap ({"custom", "customgeneric"} \cup hooks)
    <3>1. "none" \notin Counted
      BY DEF Counted, ObjSlots, Slot0, Slot1, Slot2, Slot3, Slot4, DictBits, Arrays, Slot7
    <3>2. hooks \subseteq Counted
      BY <1>5, CountedSets
    <3>3. QED
      BY <1>5, <1>14, <2>2, <3>1, <3>2
  <2>5. Count(st.types, Counted) = Count(st.types, {"custom", "customgeneric"} \cup hooks)
    BY <2>4 DEF Count
  <2>6. Count(st.types, {"custom", "customgeneric"} \cup hooks)
          = Count(st.types, {"custom", "customgeneric"}) + Count(st.types, hooks)
    <3>1. PICK A : A = {"custom", "customgeneric"}
      OBVIOUS
    <3>2. A \cap hooks = {}
      BY <1>5, <3>1
    <3>3. Count(st.types, A \cup hooks) = Count(st.types, A) + Count(st.types, hooks)
      BY <1>3, <3>2, CountAdds
    <3>4. QED
      BY <3>1, <3>3
  <2>7. Count(st.types, {"custom", "customgeneric"}) = 1
    BY <2>3, FS_Singleton DEF Count
  <2>8. "fixtuple" \notin st.types
    BY <2>2
  <2>9. Elements(st) = 0
    BY <2>8 DEF Elements
  <2>10. r.obj = 1 + Count(types, hooks) /\ r.node = 0
    BY <1>2, <1>5, <1>16, RangesAre
  <2>11. Count(types, hooks) = Count(st.types, hooks)
    <3>1. hooks \subseteq Counted
      BY <1>5, CountedSets
    <3>2. QED
      BY <1>13, <3>1
  <2>12. Count(st.types, hooks) \in Nat
    BY <1>3, CountIsNat
  <2>13. types \cap Counted # {}
    BY <1>14, <1>16
  <2>14. ConstraintOffset(types) = 1 + Count(st.types, hooks)
    BY <1>11, <1>12, <2>8, <2>10, <2>11, <2>12, <2>13
  <2>15. Place(st, 17) = 1 + Count(st.types, hooks)
    BY <1>10, <2>5, <2>6, <2>7, <2>9, <2>12
  <2>16. QED
    BY <1>1, <2>14, <2>15
<1>17. CASE types \cap {"custom", "customgeneric"} = {} /\ types \cap Counted = {}
  <2>1. Count(st.types, Counted) = 0
    BY <1>4, <1>17, FS_EmptySet DEF Count
  <2>2. "fixtuple" \notin st.types
    BY <1>4, <1>17, CountedSets
  <2>3. Elements(st) = 0
    BY <2>2 DEF Elements
  <2>4. QED
    BY <1>1, <1>10, <1>11, <1>17, <2>1, <2>3
<1>18. CASE types \cap {"custom", "customgeneric"} = {} /\ types \cap Counted # {}
  <2>1. "any" \notin types
    <3>1. st.obj["custom"] = Null
      BY <1>4, <1>14, <1>15, <1>18 DEF HeldAt
    <3>2. st.mask # {}
      BY NodeHasBits
    <3>3. "any" \notin st.types
      BY <1>3, <3>2 DEF Held
    <3>4. QED
      BY <1>1, <3>1, <3>3, NodeHasBits
  <2>2. r.obj = Count(types, objs) /\ r.node = Count(types, nodes)
    BY <1>2, <1>6, <1>7, <1>18, <2>1, RangesAre
  <2>3. Count(types, objs) = Count(st.types, objs) /\ Count(types, nodes) = Count(st.types, nodes)
    BY <1>8, <1>13
  <2>4. Count(st.types, Counted)
          = Count(st.types, objs) + Count(st.types, nodes) + Count(st.types, {"fixtuple"})
    <3>1. PICK both : both = objs \cup nodes
      OBVIOUS
    <3>2. PICK fix : fix = {"fixtuple"}
      OBVIOUS
    <3>3. objs \cap nodes = {}
      BY <1>6, <1>7 DEF ObjSlots, Slot0, Slot1, Slot2, Slot3, Slot4, DictBits, Slot7
    <3>4. both \cap fix = {}
      BY <1>6, <1>7, <3>1, <3>2
         DEF ObjSlots, Slot0, Slot1, Slot2, Slot3, Slot4, DictBits, Slot7
    <3>5. Count(st.types, objs \cup nodes) = Count(st.types, objs) + Count(st.types, nodes)
      BY <1>3, <3>3, CountAdds
    <3>6. Count(st.types, both \cup fix) = Count(st.types, both) + Count(st.types, fix)
      BY <1>3, <3>4, CountAdds
    <3>7. Counted = both \cup fix
      BY <1>8, <3>1, <3>2
    <3>8. QED
      BY <3>1, <3>2, <3>5, <3>6, <3>7
  <2>5. Count(st.types, objs) \in Nat /\ Count(st.types, nodes) \in Nat
    BY <1>3, CountIsNat
  <2>6. CASE "fixtuple" \in st.types
    <3>1. st.types \cap {"fixtuple"} = {"fixtuple"}
      BY <2>6
    <3>2. Count(st.types, {"fixtuple"}) = 1
      BY <3>1, FS_Singleton DEF Count
    <3>3. Elements(st) = Len(st.obj["array"])
      BY <2>6 DEF Elements
    <3>4. "fixtuple" \in node.types
      BY <1>1, <1>12, <2>6
    <3>5. DetailAt(Offset(types, "fixtuple")) = Detail("size", Len(st.obj["array"]))
      BY <1>1, <3>4, TupleIsFound
    <3>6. /\ DetailAt(Offset(types, "fixtuple")).is = "size"
          /\ DetailAt(Offset(types, "fixtuple")).of = Len(st.obj["array"])
      BY <3>5 DEF Detail
    <3>7. r.size = Len(st.obj["array"])
      BY <1>1, <1>2, <1>18, <2>1, <3>4, <3>6, RangesAre
    <3>8. ConstraintOffset(types) = Count(st.types, objs) + Count(st.types, nodes)
                                    + (1 + Elements(st))
      BY <1>11, <1>12, <1>18, <2>2, <2>3, <2>6, <3>3, <3>7
    <3>9. QED
      BY <1>1, <1>9, <1>10, <2>4, <2>5, <3>2, <3>8
  <2>7. CASE "fixtuple" \notin st.types
    <3>1. st.types \cap {"fixtuple"} = {}
      BY <2>7
    <3>2. Count(st.types, {"fixtuple"}) = 0
      BY <3>1, FS_EmptySet DEF Count
    <3>3. Elements(st) = 0
      BY <2>7 DEF Elements
    <3>4. ConstraintOffset(types) = Count(st.types, objs) + Count(st.types, nodes) + 0
      BY <1>11, <1>12, <1>18, <2>2, <2>3, <2>7
    <3>5. QED
      BY <1>1, <1>10, <2>4, <2>5, <3>2, <3>3, <3>4
  <2>8. QED
    BY <2>6, <2>7
<1>19. QED
  BY <1>16, <1>17, <1>18

LEMMA ConstraintsArePacked ==
    ASSUME Kept(st), Distinct(st), Laid(st, node, 17), "constr" \in node.types
    PROVE  DetailAt(ConstraintOffset(node.types)) = Detail("cn", CnPacked(st))
<1>1. PICK packed : packed = CnPacked(st)
  OBVIOUS
<1>2. PICK d : d = Detail("cn", packed)
  OBVIOUS
<1>3. PICK k \in 1..17 : k = 17
  OBVIOUS
<1>4. Layout[k] = "constraints" /\ st.mask # {}
  BY <1>3, LayoutIsInjective, NodeHasBits
<1>5. Present(st, Layout[k])
  BY <1>4, WhenPresent
<1>6. Stored(st, Layout[k]) = <<d>>
  BY <1>1, <1>2, <1>4, WhatIsStored
<1>7. DetailAt(Place(st, k)) = d
  BY <1>5, <1>6, SingleIsRead
<1>8. DetailAt(ConstraintOffset(node.types)) = d
  BY <1>3, <1>7, ConstraintsAreLast
<1>9. QED
  BY <1>1, <1>2, <1>8

LEMMA ConstraintsAreFound ==
    ASSUME FloatsAgree, Kept(st), Distinct(st), Laid(st, node, 17), "constr" \in node.types
    PROVE  LET cn == DetailAt(ConstraintOffset(node.types)) IN
           /\ cn.is = "cn"
           /\ \A b \in st.mask \cap CnDetails :
                 LET i == CnOffset(st.mask, b) IN
                 i < Len(cn.of) /\ cn.of[i + 1] = st.bound[CnGroup(b)]
<1>1. PICK packed : packed = CnPacked(st)
  OBVIOUS
<1>2. PICK d : d = Detail("cn", packed)
  OBVIOUS
<1>3. DetailAt(ConstraintOffset(node.types)) = d
  BY <1>1, <1>2, ConstraintsArePacked
<1>4. d.is = "cn" /\ d.of = packed
  BY <1>2 DEF Detail
<1>5. OneBitEach(st.mask)
  BY FloatsHaveOneBitEach DEF Kept
<1>6. ASSUME NEW b \in st.mask \cap CnDetails
      PROVE  /\ CnOffset(st.mask, b) < Len(packed)
             /\ packed[CnOffset(st.mask, b) + 1] = st.bound[CnGroup(b)]
  <2>1. CnGroup(b) \in 1..15
    <3>1. \E k \in CnIndex : b \in CnOrder[k]
      BY DEF CnDetails
    <3>2. QED
      BY <3>1, CnOrderIs DEF CnGroup
  <2>2. OneBitUpTo(st.mask, CnGroup(b) - 1)
    BY <1>5, <2>1, CnOrderIs DEF OneBitEach, OneBitUpTo
  <2>3. QED
    BY <1>1, <2>2, ConstraintIsFound
<1>7. QED
  BY <1>3, <1>4, <1>6

(* Whichever members came in whichever order, counting the bits before it   *)
(* leads every reader of a finished TypeNode and of its ConstraintNode to   *)
(* the detail of the bit it asks for: the getters rely on the layout and    *)
(* on the check of ambiguous unions together.  The hypothesis excludes the  *)
(* unions whose float members mix gt with ge, or lt with le.                *)
THEOREM DetailsAreFound ==
    ASSUME FloatsAgree
    PROVE  Spec => []DetailsFound
<1>1. IInv => DetailsFound
  <2> SUFFICES ASSUME IInv, phase = "done" PROVE DetailsFound
    BY DEF DetailsFound
  <2>1. Kept(st) /\ Distinct(st) /\ Laid(st, node, 17)
    BY DEF IInv
  <2>2. \A b \in node.types \cap (ObjSlots \cup {"codec", "user"}) :
           DetailAt(Offset(node.types, b)) = Detail("obj", ObjectOf(b))
    BY <2>1, ObjectsAreFound
  <2>3. \A b \in node.types \cap (DictBits \cup Slot7) :
           DetailAt(Offset(node.types, b)) = Detail("node", ObjectOf(b))
    BY <2>1, NodesAreFound
  <2>4. "fixtuple" \in node.types =>
           LET i == Offset(node.types, "fixtuple")
               t == st.obj["array"]
           IN  /\ DetailAt(i) = Detail("size", Len(t))
               /\ \A j \in 1..Len(t) : DetailAt(i + j) = Detail("node", t[j])
    BY <2>1, TupleIsFound
  <2>5. "constr" \in node.types =>
           LET cn == DetailAt(ConstraintOffset(node.types)) IN
           /\ cn.is = "cn"
           /\ \A b \in st.mask \cap CnDetails :
                 LET i == CnOffset(st.mask, b) IN
                 i < Len(cn.of) /\ cn.of[i + 1] = st.bound[CnGroup(b)]
    BY <2>1, ConstraintsAreFound
  <2>6. QED
    BY <2>2, <2>3, <2>4, <2>5 DEF DetailsFound
<1>2. QED
  BY <1>1, Invariance, PTL
=============================================================================
