----------------------- MODULE TypeNodeContentProofs -----------------------
(***************************************************************************)
(* What is in a TypeNode, beyond where it is: that Any drops all that came *)
(* before it, that TypeNode_Free and the garbage collector find every      *)
(* reference that was stored, on the error paths too, that the bounds of   *)
(* integers are compiled exactly, and that which unions are accepted does  *)
(* not depend on the order of their members.                               *)
(***************************************************************************)
EXTENDS TypeNodeProofs

-----------------------------------------------------------------------------
(* Any stands alone.                                                        *)

(* A constraint of the user's own may come with Any.                        *)
HooksOfAny ==
    {h \in {"user"} : \E m \in Members("any") : m.constr # Null /\ m.constr.class = "user"}

(* Where Any was collected nothing is left but a constraint of its own.     *)
Alone(s) ==
    "any" \in s.types =>
        /\ s.types \subseteq {"any"} \cup HooksOfAny
        /\ \A o \in Slot \ {"user"} : s.obj[o] = Null
        /\ s.structs = {} /\ ~s.many /\ s.literals = {} /\ s.mask = {}

(* What a step may do to the collect state as far as Any is concerned: it   *)
(* neither adds nor drops the bit.                                          *)
SameAny(s, t) == "any" \in t.types <=> "any" \in s.types

LEMMA AnyIsRefused == ASSUME NEW m, m.type = "any" PROVE ~TakesSerializer(m)
<1>1. Bits("any") = {"any"}
  BY DEF Bits
<1>2. "any" \in SerializerBlocked
  BY DEF SerializerBlocked
<1>3. QED
  BY <1>1, <1>2 DEF TakesSerializer

(* A member without a type of its own bits: what its annotations do to Any. *)
LEMMA AnyAlone ==
    ASSUME NEW t, t = [Cleared EXCEPT !.types = {"any"}]
    PROVE  t.types = {"any"} /\ Alone(t) /\ t.ok /\ Good(t)
<1>1. Cleared = [i \in Fields |-> Cleared[i]] /\ Cleared.many = FALSE
  BY ClearedIsGood DEF Good, StateOK, Cleared
<1>2. /\ t.types = {"any"} /\ t.obj = Cleared.obj /\ t.many = FALSE
      /\ t.structs = {} /\ t.literals = {} /\ t.mask = {} /\ t.ok = Cleared.ok
  BY <1>1, ClearedIsGood DEF Fields
<1>3. Good(t)
  BY CollectAnyIsGood
<1>4. QED
  BY <1>2, <1>3, ClearedIsGood DEF Alone

LEMMA RefuseAlone ==
    ASSUME NEW s, StateOK(s), Alone(s)
    PROVE  Alone(Refuse(s)) /\ SameAny(s, Refuse(s)) /\ ~Refuse(s).ok
<1>1. PICK r : r = Refuse(s)
  OBVIOUS
<1>2. /\ r.types = s.types /\ r.obj = s.obj /\ r.many = s.many
      /\ r.structs = s.structs /\ r.literals = s.literals /\ r.mask = s.mask
  BY <1>1 DEF Refuse, StateOK, Fields
<1>3. ~r.ok
  BY <1>1 DEF Refuse, StateOK, Fields
<1>4. QED
  BY <1>1, <1>2, <1>3 DEF Alone, SameAny

(* A Serializer on Any is refused, and its constraints compile to nothing.  *)
LEMMA SerializerAlone ==
    ASSUME NEW s, Good(s), s.ok, Alone(s), NEW m \in Member, NEW t, t = CollectSerializer(s, m)
    PROVE  Good(t) /\ Alone(t) /\ SameAny(s, t)
<1>1. Good(t) /\ StateOK(s)
  BY CollectSerializerIsGood DEF Good
<1>2. CASE "any" \in s.types
  <2>1. s.types \cap SerializerBlocked # {}
    BY <1>2 DEF SerializerBlocked
  <2>2. t = s \/ t = Refuse(s)
    BY <2>1 DEF CollectSerializer
  <2>3. QED
    BY <1>1, <2>2, RefuseAlone DEF SameAny
<1>3. CASE "any" \notin s.types
  <2>1. "any" \notin t.types
    BY <1>3, CollectSerializerIsGood
  <2>2. QED
    BY <1>1, <1>3, <2>1 DEF Alone, SameAny
<1>4. QED
  BY <1>2, <1>3

LEMMA ConstraintAlone ==
    ASSUME NEW s, Good(s), Alone(s), NEW m \in Member, "any" \in s.types => m.type = "any",
           NEW t, t = CollectConstraint(s, m)
    PROVE  Alone(t) /\ SameAny(s, t)
<1>1. PICK types : types = s.types \cup {"user"}
  OBVIOUS
<1>2. PICK x : x = m.constr.class
  OBVIOUS
<1>3. \/ t = s
      \/ s.ok /\ m.constr # Null /\ m.constr.class = "user" /\ t = With(s, types, "user", x)
      \/ /\ s.ok /\ m.constr # Null /\ m.constr.class # "user"
         /\ t = Compile(s, m.constr, KindOf(m.type))
  BY <1>1, <1>2 DEF CollectConstraint, With
<1>4. StateOK(s)
  BY DEF Good
<1>5. CASE m.constr # Null /\ m.constr.class = "user" /\ t = With(s, types, "user", x)
  <2>1. types \subseteq CollectedTypes /\ "user" \in Slot
    BY <1>1, <1>4 DEF StateOK, Types, CollectedTypes, Slot
  <2>2. t.types = types
    BY <1>4, <1>5, <2>1, WithIs
  <2>3. \A o \in Slot \ {"user"} : t.obj[o] = s.obj[o]
    BY <1>4, <1>5, <2>1, WithIs
  <2>4. t.structs = s.structs /\ t.many = s.many /\ t.literals = s.literals /\ t.mask = s.mask
    BY <1>4, <1>5, <2>1, WithIs
  <2>5. "any" \in s.types => "user" \in HooksOfAny
    BY <1>5 DEF HooksOfAny, Members
  <2>6. QED
    BY <1>1, <2>2, <2>3, <2>4, <2>5 DEF Alone, SameAny
<1>6. CASE /\ s.ok /\ m.constr # Null /\ m.constr.class # "user"
           /\ t = Compile(s, m.constr, KindOf(m.type))
  <2>1. PICK c : c = m.constr
    OBVIOUS
  <2>2. PICK kind : kind = KindOf(m.type)
    OBVIOUS
  <2>3. t = Compile(s, c, kind)
    BY <1>6, <2>1, <2>2
  <2>4. CASE "any" \in s.types
    <3>1. kind = "other"
      BY <2>2, <2>4, KindIs
    <3>2. c.class \in {"numeric", "str", "bytes", "collection", "tz"}
      BY <1>6, <2>1, ConstantsOK DEF ParamsOf
    <3>3. kind \notin AppliesTo(c.class)
      BY <3>1, <3>2, AppliesToIs
    <3>4. t = s \/ t = Refuse(s)
      BY <2>3, <3>3 DEF Compile
    <3>5. QED
      BY <1>4, <3>4, RefuseAlone DEF SameAny
  <2>5. CASE "any" \notin s.types
    <3>1. "any" \notin t.types
      BY <1>6, <2>5, CompileIsGood
    <3>2. QED
      BY <2>5, <3>1 DEF Alone, SameAny
  <2>6. QED
    BY <2>4, <2>5
<1>7. QED
  BY <1>3, <1>5, <1>6 DEF SameAny

(* A member that is collected: Any is set from the first Any on.            *)
LEMMA MemberAlone ==
    ASSUME NEW s, Good(s), s.ok, Alone(s), NEW m \in Member, NEW t, t = CollectMember(s, m)
    PROVE  /\ Alone(t)
           /\ t.ok => ("any" \in t.types <=> "any" \in s.types \/ m.type = "any")
<1>1. CASE "any" \in s.types
  BY <1>1 DEF CollectMember
<1>2. CASE "any" \notin s.types /\ t = Refuse(s)
  BY <1>2, RefuseAlone DEF Good
<1>3. CASE "any" \notin s.types /\ t # Refuse(s)
  <2>1. PICK u : u = CollectType(s, m)
    OBVIOUS
  <2>2. Good(u) /\ ("any" \in u.types => m.type = "any")
    BY <1>3, <2>1, CollectTypeIsGood
  <2>3. t = IF u.ok THEN CollectConstraint(CollectSerializer(u, m), m) ELSE u
    BY <1>3, <2>1 DEF CollectMember
  <2>4. m.type = "any" => Alone(u) /\ "any" \in u.types
    <3>1. m.type = "any" => u = [Cleared EXCEPT !.types = {"any"}]
      <4>1. "any" \notin Scalars /\ "any" \notin ObjectTypes
        BY DEF Scalars, BytesLike, ObjectTypes, Slot7
      <4>2. QED
        BY <2>1, <4>1, CollectTypeIs
    <3>2. QED
      BY <3>1, AnyAlone
  <2>5. Alone(u) /\ ("any" \in u.types <=> m.type = "any")
    BY <2>2, <2>4 DEF Alone
  <2>6. CASE u.ok
    <3>1. PICK v : v = CollectSerializer(u, m)
      OBVIOUS
    <3>2. Good(v) /\ Alone(v) /\ SameAny(u, v)
      BY <2>2, <2>5, <2>6, <3>1, SerializerAlone
    <3>3. t = CollectConstraint(v, m)
      BY <2>3, <2>6, <3>1
    <3>4. "any" \in v.types => m.type = "any"
      BY <2>5, <3>2 DEF SameAny
    <3>5. Alone(t) /\ SameAny(v, t)
      BY <3>2, <3>3, <3>4, ConstraintAlone
    <3>6. QED
      BY <1>3, <2>5, <3>2, <3>5 DEF SameAny
  <2>7. CASE ~u.ok
    BY <2>3, <2>5, <2>7
  <2>8. QED
    BY <2>6, <2>7
<1>4. QED
  BY <1>1, <1>2, <1>3

(* The second passes leave Any as it is.                                    *)
LEMMA StructsAlone ==
    ASSUME StateOK(st), Alone(st), ValidateStructs
    PROVE  Alone(st)' /\ SameAny(st, st')
<1>1. CASE "any" \in st.types
  <2>1. st.structs = {} /\ ~st.many
    BY <1>1 DEF Alone
  <2>2. st' = st
    BY <2>1 DEF ValidateStructs
  <2>3. QED
    BY <2>2 DEF SameAny, Alone
<1>2. CASE "any" \notin st.types
  <2>1. st = [i \in Fields |-> st[i]]
    BY DEF StateOK
  <2>2. \/ st' = st
        \/ \E b \in {"struct", "structarray", "structunion", "structarrayunion"} :
              st'.types = st.types \cup {b}
    <3>1. PICK array \in BOOLEAN : array = \E s \in st.structs : s \in ArrayLike
      OBVIOUS
    <3>2. CASE st' = [st EXCEPT !.types = @ \cup {IF array THEN "structarray" ELSE "struct"},
                                !.obj["structinfo"] = CHOOSE s \in st.structs : TRUE]
      BY <2>1, <3>2 DEF Fields
    <3>3. CASE st' = [st EXCEPT !.types = @ \cup {IF array THEN "structarrayunion"
                                                  ELSE "structunion"},
                                !.obj["structlookup"] = st.structs]
      BY <2>1, <3>3 DEF Fields
    <3>4. QED
      BY <3>1, <3>2, <3>3 DEF ValidateStructs
  <2>3. "any" \notin st'.types
    BY <1>2, <2>2
  <2>4. QED
    BY <1>2, <2>3 DEF SameAny, Alone
<1>3. QED
  BY <1>1, <1>2

LEMMA LiteralsAlone ==
    ASSUME StateOK(st), Alone(st), ValidateLiterals
    PROVE  Alone(st)' /\ SameAny(st, st')
<1>1. PICK ints : ints = st.literals \cap IntLiterals
  OBVIOUS
<1>2. PICK strs : strs = st.literals \ (IntLiterals \cup {"none", "true", "false"})
  OBVIOUS
<1>3. PICK more : more = (IF ints # {} THEN {"intliteral"} ELSE {})
                         \cup (IF strs # {} THEN {"strliteral"} ELSE {})
                         \cup (st.literals \cap {"none", "true", "false"})
  OBVIOUS
<1>4. PICK x : x = IF ints = {} THEN Null ELSE ints
  OBVIOUS
<1>5. PICK y : y = IF strs = {} THEN Null ELSE strs
  OBVIOUS
<1>6. PICK types : types = st.types \cup more
  OBVIOUS
<1>7. st' = [st EXCEPT !.types = types,
                       !.obj["intliteral"] = x, !.obj["strliteral"] = y]
  <2>1. st' = [st EXCEPT
             !.types = @ \cup (IF ints # {} THEN {"intliteral"} ELSE {})
                         \cup (IF strs # {} THEN {"strliteral"} ELSE {})
                         \cup (st.literals \cap {"none", "true", "false"}),
             !.obj["intliteral"] = x, !.obj["strliteral"] = y]
    BY <1>1, <1>2, <1>4, <1>5 DEF ValidateLiterals
  <2>2. types = st.types \cup (IF ints # {} THEN {"intliteral"} ELSE {})
                         \cup (IF strs # {} THEN {"strliteral"} ELSE {})
                         \cup (st.literals \cap {"none", "true", "false"})
    BY <1>3, <1>6
  <2>3. QED
    BY <2>1, <2>2
<1>8. st = [i \in Fields |-> st[i]] /\ st.obj = [o \in Slot |-> st.obj[o]]
  BY DEF StateOK
<1>9. /\ st'.types = types /\ st'.obj = [st.obj EXCEPT !["intliteral"] = x, !["strliteral"] = y]
      /\ st'.structs = st.structs /\ st'.many = st.many
      /\ st'.literals = st.literals /\ st'.mask = st.mask
  BY <1>7, <1>8 DEF Fields
<1>10. "any" \notin more
  BY <1>3
<1>11. SameAny(st, st')
  BY <1>6, <1>9, <1>10 DEF SameAny
<1>12. CASE "any" \in st.types
  <2>1. st.literals = {}
    BY <1>12 DEF Alone
  <2>2. more = {} /\ x = Null /\ y = Null
    BY <1>1, <1>2, <1>3, <1>4, <1>5, <2>1
  <2>3. \A o \in Slot \ {"user"} : st'.obj[o] = Null
    BY <1>8, <1>9, <1>12, <2>2 DEF Alone
  <2>4. QED
    BY <1>6, <1>9, <1>11, <1>12, <2>2, <2>3 DEF Alone
<1>13. CASE "any" \notin st.types
  BY <1>11, <1>13 DEF SameAny, Alone
<1>14. QED
  BY <1>11, <1>12, <1>13

LEMMA DropAlone ==
    ASSUME NEW s, Kept(s), Alone(s), NEW t, t = DropLiterals(s)
    PROVE  Alone(t) /\ SameAny(s, t)
<1>1. PICK covered : covered = {b \in {"intliteral", "strliteral"} :
                        /\ s.obj[b] # Null
                        /\ (IF b = "intliteral" THEN "int" ELSE "str") \in s.types}
  OBVIOUS
<1>2. t = [s EXCEPT !.types = @ \ covered,
                    !.obj = [o \in Slot |-> IF o \in covered THEN Null ELSE @[o]]]
  BY <1>1 DEF DropLiterals
<1>3. s = [i \in Fields |-> s[i]]
  BY DEF Kept, StateOK
<1>4. /\ t.types = s.types \ covered
      /\ t.obj = [o \in Slot |-> IF o \in covered THEN Null ELSE s.obj[o]]
      /\ t.structs = s.structs /\ t.many = s.many
      /\ t.literals = s.literals /\ t.mask = s.mask
  BY <1>2, <1>3 DEF Fields
<1>5. "any" \notin covered
  BY <1>1
<1>6. \A o \in Slot : t.obj[o] = Null \/ t.obj[o] = s.obj[o]
  BY <1>4
<1>7. SameAny(s, t)
  BY <1>4, <1>5 DEF SameAny
<1>8. CASE "any" \in t.types
  <2>1. "any" \in s.types
    BY <1>7, <1>8 DEF SameAny
  <2>2. \A o \in Slot \ {"user"} : t.obj[o] = Null
    BY <1>6, <2>1 DEF Alone
  <2>3. QED
    BY <1>4, <1>7, <2>1, <2>2 DEF Alone
<1>9. QED
  BY <1>7, <1>8 DEF Alone

-----------------------------------------------------------------------------
(* The invariant: Any is set exactly if a member is Any, and is alone then. *)

AnyInv ==
    phase \in {"collect", "structs", "literals", "check", "layout", "done"} =>
        Alone(st) /\ ("any" \in st.types <=> ~NoAny)

LEMMA NobodyIsSeen ==
    ASSUME NEW s, s.types = {}
    PROVE  Alone(s)
BY DEF Alone

(* The members seen, and whether Any is among them.                         *)
LEMMA SeenMembersGrow ==
    ASSUME seen \in Seq(Member), NEW m \in Member, seen' = Append(seen, m)
    PROVE  SeenMembers' = SeenMembers \cup {m}
<1>1. /\ Len(seen') = Len(seen) + 1 /\ Len(seen) \in Nat
      /\ \A k \in 1..Len(seen) : seen'[k] = seen[k]
      /\ seen'[Len(seen) + 1] = m
  OBVIOUS
<1>2. 1..Len(seen') = 1..Len(seen) \cup {Len(seen) + 1}
  BY <1>1
<1>3. SeenMembers' = {seen'[k] : k \in 1..Len(seen')}
  BY DEF SeenMembers
<1>4. QED
  BY <1>1, <1>2, <1>3 DEF SeenMembers

LEMMA SeenGrows ==
    ASSUME seen \in Seq(Member), NEW m \in Member, seen' = Append(seen, m)
    PROVE  NoAny' <=> (NoAny /\ m.type # "any")
BY SeenMembersGrow DEF NoAny

LEMMA AnyStep == IInv /\ AnyInv /\ [Next]_vars => AnyInv'
<1> SUFFICES ASSUME IInv, AnyInv, [Next]_vars PROVE AnyInv'
  OBVIOUS
<1>1. ASSUME NEW m \in Member, Collect(m) PROVE AnyInv'
  <2>1. Good(st) /\ st.ok /\ Alone(st) /\ ("any" \in st.types <=> ~NoAny)
    BY <1>1 DEF IInv, AnyInv, Collect
  <2>2. PICK t : t = CollectMember(st, m)
    OBVIOUS
  <2>3. st' = t /\ phase' = (IF t.ok THEN "collect" ELSE "refused") /\ seen' = Append(seen, m)
    BY <1>1, <2>2 DEF Collect
  <2>4. Alone(t) /\ (t.ok => ("any" \in t.types <=> "any" \in st.types \/ m.type = "any"))
    BY <2>1, <2>2, MemberAlone
  <2>5. NoAny' <=> (NoAny /\ m.type # "any")
    BY <2>3, SeenGrows DEF IInv
  <2>6. CASE t.ok
    BY <2>1, <2>3, <2>4, <2>5, <2>6 DEF AnyInv
  <2>7. CASE ~t.ok
    BY <2>3, <2>7 DEF AnyInv
  <2>8. QED
    BY <2>6, <2>7
<1>2. CASE UNCHANGED <<seen, st>> /\ phase' \in {"structs", "layout", "done", "failed", "refused"}
           /\ phase \in {"collect", "structs", "literals", "check", "layout", "done"}
  BY <1>2 DEF AnyInv, NoAny, SeenMembers
<1>3. CASE Collected \/ StructFails \/ Built \/ \E k \in 1..Len(Layout) : Store(k) \/ StoreFails(k)
  <2>1. /\ UNCHANGED <<seen, st>> /\ phase' \in {"structs", "layout", "done", "failed", "refused"}
        /\ phase \in {"collect", "structs", "literals", "check", "layout", "done"}
    BY <1>3 DEF Collected, StructFails, Built, Store, StoreFails
  <2>2. QED
    BY <1>2, <2>1
<1>4. CASE ValidateStructs
  <2>1. StateOK(st) /\ Alone(st) /\ ("any" \in st.types <=> ~NoAny) /\ seen' = seen
    BY <1>4 DEF IInv, AnyInv, ValidateStructs
  <2>2. Alone(st)' /\ SameAny(st, st')
    BY <1>4, <2>1, StructsAlone
  <2>3. QED
    BY <2>1, <2>2 DEF AnyInv, SameAny, NoAny, SeenMembers
<1>5. CASE ValidateLiterals
  <2>1. StateOK(st) /\ Alone(st) /\ ("any" \in st.types <=> ~NoAny) /\ seen' = seen
    BY <1>5 DEF IInv, AnyInv, ValidateLiterals
  <2>2. Alone(st)' /\ SameAny(st, st')
    BY <1>5, <2>1, LiteralsAlone
  <2>3. QED
    BY <2>1, <2>2 DEF AnyInv, SameAny, NoAny, SeenMembers
<1>6. CASE Check
  <2>1. Kept(st) /\ Alone(st) /\ ("any" \in st.types <=> ~NoAny) /\ seen' = seen
    BY <1>6 DEF IInv, AnyInv, Check
  <2>2. CASE Ambiguous(st)
    BY <1>6, <2>2 DEF Check, AnyInv
  <2>3. CASE ~Ambiguous(st)
    <3>1. PICK t : t = DropLiterals(st)
      OBVIOUS
    <3>2. st' = t
      BY <1>6, <2>3, <3>1 DEF Check
    <3>3. Alone(t) /\ SameAny(st, t)
      BY <2>1, <3>1, DropAlone
    <3>4. QED
      BY <2>1, <3>2, <3>3 DEF AnyInv, SameAny, NoAny, SeenMembers
  <2>4. QED
    BY <2>2, <2>3
<1>7. CASE Clear
  <2>1. st' = Cleared /\ seen' = <<>>
    BY <1>7 DEF Clear
  <2>2. Alone(st)' /\ "any" \notin st'.types
    BY <2>1, ClearedIsGood, NobodyIsSeen
  <2>3. NoAny'
    BY <2>1 DEF NoAny, SeenMembers
  <2>4. QED
    BY <2>2, <2>3 DEF AnyInv
<1>8. CASE UNCHANGED vars
  BY <1>8 DEF vars, AnyInv, NoAny, SeenMembers
<1>9. QED
  BY <1>1, <1>3, <1>4, <1>5, <1>6, <1>7, <1>8 DEF Next

LEMMA SpecAny == Spec => []AnyInv
<1>1. Init => AnyInv
  <2> SUFFICES ASSUME Init PROVE AnyInv
    OBVIOUS
  <2>1. Alone(st) /\ "any" \notin st.types
    BY ClearedIsGood, NobodyIsSeen DEF Init
  <2>2. NoAny
    BY DEF Init, NoAny, SeenMembers
  <2>3. QED
    BY <2>1, <2>2 DEF AnyInv
<1>2. QED
  BY <1>1, AnyStep, Invariance, PTL DEF Spec

(* Where the only detail is the constraint, it is at the start.             *)
LEMMA OnlyTheHook ==
    ASSUME Kept(st), Laid(st, node, 17), Alone(st), "any" \in st.types
    PROVE  /\ node.types = st.types
           /\ Len(node.details) = IF "user" \in st.types THEN 1 ELSE 0
           /\ \A k \in 1..Len(node.details) : node.details[k] = Detail("obj", st.obj["user"])
<1>1. Sized(st) /\ Held(st)
  BY KeptIsSized
<1>2. /\ st.types \subseteq {"any", "user"} /\ \A o \in Slot \ {"user"} : st.obj[o] = Null
      /\ st.mask = {}
  BY DEF Alone, HooksOfAny
<1>3. node.types = st.types
  <2>1. st.obj["custom"] = Null
    BY <1>2 DEF Slot
  <2>2. QED
    BY <1>2, <2>1 DEF Laid, NodeTypes
<1>4. PICK h \in 1..17 : h = 14
  OBVIOUS
<1>5. \A i \in 1..16 : i # h => st.types \cap BitsOf[i] = {}
  <2>1. \A i \in 1..16 : "user" \in BitsOf[i] => i = h
    <3>1. "user" \in BitsOf[h]
      BY <1>4 DEF BitsOf
    <3>2. QED
      BY <1>4, <3>1, SlotsAreDisjoint
  <2>2. \A i \in 1..16 : "any" \notin BitsOf[i]
    BY ScalarsHaveNoSlot
  <2>3. QED
    BY <1>2, <2>1, <2>2
<1>6. Place(st, 1) = 0
  <2>1. st.types \cap Below(1) = {}
    BY BitsBelow
  <2>2. Count(st.types, Below(1)) = 0
    BY <2>1, FS_EmptySet DEF Count
  <2>3. QED
    BY <2>2 DEF Place
<1>7. Place(st, h) = Place(st, 1)
  <2>1. h \in 1..18 /\ 1 \in 1..18 /\ 1 <= h /\ h # 18
    BY <1>4
  <2>2. \A i \in 1..h - 1 : i <= 16 => st.types \cap BitsOf[i] = {}
    BY <1>4, <1>5
  <2>3. QED
    BY <1>1, <2>1, <2>2, NoPlace
<1>8. Place(st, 18) = Place(st, h + 1)
  <2>1. h + 1 \in 1..18 /\ 18 \in 1..18 /\ h + 1 <= 18
    BY <1>4
  <2>2. \A i \in h + 1..18 - 1 : i <= 16 => st.types \cap BitsOf[i] = {}
    BY <1>4, <1>5
  <2>3. QED
    BY <1>1, <1>2, <2>1, <2>2, NoPlace
<1>9. Layout[h] = "user"
  BY <1>4, LayoutIsInjective
<1>10. Len(node.details) = Place(st, 18)
  BY DEF Laid
<1>11. CASE "user" \in st.types
  <2>1. Present(st, Layout[h])
    BY <1>9, <1>11, WhenPresent
  <2>2. Stored(st, Layout[h]) = <<Detail("obj", st.obj["user"])>>
    BY <1>9, WhatIsStored
  <2>3. Place(st, h + 1) = Place(st, h) + 1
    <3>1. Place(st, h + 1) = Place(st, h) + Len(Stored(st, Layout[h]))
      BY <1>1, <2>1, StoredFits
    <3>2. Len(Stored(st, Layout[h])) = 1
      BY <2>2
    <3>3. QED
      BY <3>1, <3>2
  <2>4. Len(node.details) = 1
    BY <1>6, <1>7, <1>8, <1>10, <2>3
  <2>5. node.details[Place(st, h) + 1] = Stored(st, Layout[h])[1]
    <3>1. \A i \in 1..Len(Stored(st, Layout[h])) :
             node.details[Place(st, h) + i] = Stored(st, Layout[h])[i]
      BY <2>1 DEF Laid, Placed
    <3>2. 1 \in 1..Len(Stored(st, Layout[h]))
      BY <2>2
    <3>3. QED
      BY <3>1, <3>2, Zenon
  <2>6. Place(st, h) + 1 = 1
    BY <1>6, <1>7
  <2>7. node.details[1] = Detail("obj", st.obj["user"])
    BY <2>2, <2>5, <2>6
  <2>8. QED
    BY <1>3, <1>11, <2>4, <2>7
<1>12. CASE "user" \notin st.types
  <2>1. ~Present(st, Layout[h])
    BY <1>9, <1>12, WhenPresent
  <2>2. st.types \cap BitsOf[h] = {}
    BY <1>4, <1>12, <1>2, ScalarsHaveNoSlot
  <2>3. Place(st, h + 1) = Place(st, h)
    <3>1. PICK j : j = h + 1
      OBVIOUS
    <3>2. h \in 1..18 /\ j \in 1..18 /\ h <= j /\ j # 18
      BY <1>4, <3>1
    <3>3. \A i \in h..j - 1 : i <= 16 => st.types \cap BitsOf[i] = {}
      BY <1>4, <2>2, <3>1
    <3>4. Place(st, j) = Place(st, h)
      BY <1>1, <3>2, <3>3, NoPlace
    <3>5. QED
      BY <3>1, <3>4
  <2>4. Len(node.details) = 0
    BY <1>6, <1>7, <1>8, <1>10, <2>3
  <2>5. QED
    BY <1>3, <1>12, <2>4
<1>13. QED
  BY <1>11, <1>12

(* "Any takes precedence, drop all existing" (typenode_collect_type): where *)
(* a member is Any, the node is Any and holds nothing but the constraint    *)
(* that came with it, wherever in the union it stands.                      *)
THEOREM AnyDropsTheRest == Spec => []AnyTakesPrecedence
<1>1. IInv /\ AnyInv => AnyTakesPrecedence
  <2> SUFFICES ASSUME IInv, AnyInv, phase = "done", ~NoAny
               PROVE  /\ node.types \subseteq {"any", "user"}
                      /\ \A k \in 1..Len(node.details) : node.details[k].of = st.obj["user"]
    BY DEF AnyTakesPrecedence
  <2>1. Kept(st) /\ Laid(st, node, 17) /\ Alone(st) /\ "any" \in st.types
    BY DEF IInv, AnyInv
  <2>2. st.types \subseteq {"any", "user"}
    BY <2>1 DEF Alone, HooksOfAny
  <2>3. QED
    BY <2>1, <2>2, OnlyTheHook DEF Detail
<1>2. QED
  BY <1>1, Invariance, SpecAny, PTL

-----------------------------------------------------------------------------
(* The references of a node, whether or not it was finished.                *)

(* A node that may lack the last details: those it has are in their places. *)
Partly(s, n) ==
    /\ \E at \in 0..17 : n.types = NodeTypes(s, at)
    /\ Len(n.details) \in Nat /\ Len(n.details) <= Place(s, 18)
    /\ \A k \in 1..17 : Present(s, Layout[k]) =>
          \A i \in 1..Len(Stored(s, Layout[k])) :
              Place(s, k) + i <= Len(n.details) =>
                  n.details[Place(s, k) + i] = Stored(s, Layout[k])[i]

LEMMA PlacesAreNat ==
    ASSUME NEW s, Kept(s)
    PROVE  /\ \A k \in 1..18 : Place(s, k) \in Nat
           /\ \A j, k \in 1..18 : j <= k => Place(s, j) <= Place(s, k)
           /\ Place(s, 1) = 0
<1>1. Sized(s)
  BY KeptIsSized
<1>2. s.types \cap Below(1) = {}
  BY BitsBelow
<1>3. Count(s.types, Below(1)) = 0
  BY <1>2, FS_EmptySet DEF Count
<1>4. Place(s, 1) = 0
  BY <1>3 DEF Place
<1>5. QED
  BY <1>1, <1>4, PlaceIsNat, PlaceGrows

LEMMA LaidIsPartly ==
    ASSUME NEW s, Kept(s), NEW n, NEW at \in 0..17, Laid(s, n, at)
    PROVE  Partly(s, n)
<1>1. Len(n.details) = Place(s, at + 1) /\ Placed(n.details, s, at)
      /\ n.types = NodeTypes(s, at)
  BY DEF Laid
<1>2. \A k \in 1..18 : Place(s, k) \in Nat
  BY PlacesAreNat
<1>3. at + 1 \in 1..18 /\ 18 \in 1..18 /\ at + 1 <= 18
  OBVIOUS
<1>4. Place(s, at + 1) \in Nat /\ Place(s, at + 1) <= Place(s, 18)
  BY <1>2, <1>3, PlacesAreNat
<1>5. ASSUME NEW k \in 1..17, Present(s, Layout[k]), NEW i \in 1..Len(Stored(s, Layout[k])),
             Place(s, k) + i <= Len(n.details)
      PROVE  n.details[Place(s, k) + i] = Stored(s, Layout[k])[i]
  <2>1. CASE k \in 1..at
    BY <1>1, <1>5, <2>1 DEF Placed
  <2>2. CASE k \notin 1..at
    <3>1. k \in 1..18 /\ at + 1 <= k
      BY <2>2
    <3>2. Place(s, at + 1) <= Place(s, k) /\ Place(s, k) \in Nat
      BY <1>2, <1>3, <3>1, PlacesAreNat
    <3>3. i > 0 /\ i \in Int
      OBVIOUS
    <3>4. QED
      BY <1>1, <1>4, <1>5, <3>2, <3>3
  <2>3. QED
    BY <2>1, <2>2
<1>6. QED
  BY <1>1, <1>4, <1>5 DEF Partly

(* A conversion failed after some of the details of slot k.                 *)
LEMMA FailedIsPartly ==
    ASSUME Kept(st), Laid(st, node, node.at), NodeOK(node), NEW k \in 1..Len(Layout), StoreFails(k)
    PROVE  Partly(st, node')
<1>1. PICK at : at = node.at
  OBVIOUS
<1>2. /\ at \in 0..16 /\ k \in at + 1..17 /\ Present(st, Layout[k])
      /\ \A j \in at + 1..k - 1 : ~Present(st, Layout[j])
  <2>1. node.at \in 0..17
    BY DEF NodeOK
  <2>2. k \in node.at + 1..17
    BY LayoutIsInjective DEF StoreFails, NextSlot
  <2>3. Present(st, Layout[k]) /\ \A j \in node.at + 1..k - 1 : ~Present(st, Layout[j])
    BY DEF StoreFails, NextSlot
  <2>4. at \in 0..16 /\ k \in at + 1..17
    <3>1. at \in 0..17 /\ k \in at + 1..17
      BY <1>1, <2>1, <2>2, Zenon
    <3>2. QED
      BY <3>1
  <2>5. QED
    BY <1>1, <2>3, <2>4, Zenon
<1>3. PICK q : q = Stored(st, Layout[k])
  OBVIOUS
<1>4. PICK c \in 0..Len(q) - 1 : node' = [node EXCEPT !.details = @ \o SubSeq(q, 1, c)]
  BY <1>3 DEF StoreFails
<1>5. PICK p : p = SubSeq(q, 1, c)
  OBVIOUS
<1>6. PICK d : d = node.details \o p
  OBVIOUS
<1>7. node' = [node EXCEPT !.details = d]
  BY <1>4, <1>5, <1>6
<1>8. node'.types = node.types /\ node'.details = d
  BY <1>7 DEF NodeOK, NodeFields
<1>9. Sized(st) /\ Held(st)
  BY KeptIsSized
<1>10. k \in 1..17 /\ k \in 1..18 /\ k + 1 \in 1..18 /\ at + 1 \in 1..18 /\ at + 1 <= k
       /\ k + 1 <= 18 /\ 18 \in 1..18 /\ at \in 0..17
  BY <1>2
<1>11. IsSeq(q) /\ Len(q) \in Nat /\ Place(st, k + 1) = Place(st, k) + Len(q)
  BY <1>2, <1>3, <1>9, <1>10, StoredFits
<1>12. Place(st, k) = Place(st, at + 1)
  BY <1>2, <1>9, <1>10, SkipAbsent
<1>13. Place(st, k) \in Nat /\ Place(st, k + 1) \in Nat /\ Place(st, k + 1) <= Place(st, 18)
       /\ Place(st, 18) \in Nat
  BY <1>10, PlacesAreNat
<1>14. Len(node.details) = Place(st, k) /\ Placed(node.details, st, at)
       /\ node.types = NodeTypes(st, at)
  BY <1>1, <1>12 DEF Laid
<1>15. /\ Len(d) = Place(st, k) + c
       /\ \A i \in 1..Place(st, k) : d[i] = node.details[i]
       /\ \A i \in 1..c : d[Place(st, k) + i] = q[i]
  <2>1. PICK S : node.details \in Seq(S)
    BY DEF NodeOK, IsSeq
  <2>2. PICK T : q \in Seq(T)
    BY <1>11 DEF IsSeq
  <2>3. PICK U : U = S \cup T
    OBVIOUS
  <2>4. node.details \in Seq(U) /\ q \in Seq(U)
    BY <2>1, <2>2, <2>3
  <2>5. p \in Seq(U) /\ Len(p) = c /\ \A i \in 1..c : p[i] = q[i]
    <3>1. \A i \in 1..c : q[i] \in U
      BY <2>4, <1>11
    <3>2. /\ SubSeq(q, 1, c) \in Seq(U)
          /\ Len(SubSeq(q, 1, c)) = IF 1 <= c THEN c - 1 + 1 ELSE 0
          /\ \A i \in 1..c - 1 + 1 : SubSeq(q, 1, c)[i] = q[1 + i - 1]
      BY <1>11, <2>4, <3>1, SubSeqProperties
    <3>3. \A i \in 1..c : 1 + i - 1 = i /\ i \in 1..c - 1 + 1
      BY <1>11
    <3>4. QED
      BY <1>5, <3>2, <3>3
  <2>6. PICK a : a = node.details
    OBVIOUS
  <2>7. PICK o : o = Place(st, k)
    OBVIOUS
  <2>8. a \in Seq(U) /\ d = a \o p /\ Len(a) = o
    BY <1>6, <1>14, <2>4, <2>6, <2>7
  <2>9. /\ Len(d) = Len(a) + Len(p)
        /\ \A i \in 1..Len(a) + Len(p) : d[i] = IF i <= Len(a) THEN a[i] ELSE p[i - Len(a)]
    BY <2>5, <2>8, ConcatProperties
  <2>10. c \in Nat /\ o \in Nat
    BY <1>11, <1>13, <2>7
  <2>11. Len(d) = o + c
    BY <2>5, <2>8, <2>9
  <2>12. \A i \in 1..o : d[i] = a[i]
    BY <2>5, <2>8, <2>9, <2>10
  <2>13. ASSUME NEW i \in 1..c PROVE d[o + i] = q[i]
    <3>1. o + i \in 1..o + c /\ ~(o + i <= o) /\ o + i - o = i
      BY <2>10
    <3>2. d[o + i] = p[i]
      BY <2>5, <2>8, <2>9, <3>1, SMTT(60)
    <3>3. QED
      BY <2>5, <3>2
  <2>14. QED
    BY <2>6, <2>7, <2>11, <2>12, <2>13
<1>16. c \in Nat /\ c < Len(q)
  BY <1>11
<1>17. ASSUME NEW j \in 1..17, Present(st, Layout[j]), NEW i \in 1..Len(Stored(st, Layout[j])),
              Place(st, j) + i <= Len(d)
       PROVE  d[Place(st, j) + i] = Stored(st, Layout[j])[i]
  <2>0. j \in 1..18 /\ j + 1 \in 1..18
    OBVIOUS
  <2>1. Len(Stored(st, Layout[j])) \in Nat
        /\ Place(st, j + 1) = Place(st, j) + Len(Stored(st, Layout[j])) /\ Place(st, j) \in Nat
    BY <1>9, <1>17, <2>0, StoredFits, PlacesAreNat
  <2>2. CASE j = k
    <3>1. i \in 1..c
      BY <1>13, <1>15, <1>16, <1>17, <2>1, <2>2
    <3>2. QED
      BY <1>3, <1>15, <2>2, <3>1
  <2>3. CASE j < k
    <3>1. j \in 1..at
      BY <1>2, <1>17, <2>3
    <3>2. node.details[Place(st, j) + i] = Stored(st, Layout[j])[i]
      BY <1>14, <1>17, <3>1 DEF Placed
    <3>3. Place(st, j + 1) <= Place(st, k)
      <4>1. j + 1 <= k
        BY <1>10, <2>0, <2>3
      <4>2. QED
        BY <1>10, <2>0, <4>1, PlacesAreNat
    <3>4. Place(st, j) + i \in 1..Place(st, k)
      BY <1>13, <2>1, <3>3, SMTT(60)
    <3>5. QED
      BY <1>15, <3>2, <3>4
  <2>4. CASE j > k
    <3>1. Place(st, k + 1) <= Place(st, j)
      <4>1. k + 1 <= j
        BY <1>10, <2>0, <2>4
      <4>2. QED
        BY <1>10, <2>0, <4>1, PlacesAreNat
    <3>2. QED
      BY <1>11, <1>13, <1>15, <1>16, <1>17, <2>1, <3>1, SMTT(60)
  <2>5. j = k \/ j < k \/ j > k
    BY <1>10, <2>0
  <2>6. QED
    BY <2>2, <2>3, <2>4, <2>5
<1>18. Len(d) \in Nat /\ Len(d) <= Place(st, 18)
  BY <1>11, <1>13, <1>15, <1>16
<1>19. \E a \in 0..17 : node'.types = NodeTypes(st, a)
  BY <1>8, <1>10, <1>14
<1>20. QED
  BY <1>8, <1>17, <1>18, <1>19 DEF Partly

(* A detail that is there is one of a slot that is present.                 *)
LEMMA SlotOfPlace ==
    ASSUME NEW s, Kept(s), NEW i \in Nat, i < Place(s, 18)
    PROVE  \E k \in 1..17 : Place(s, k) <= i /\ i < Place(s, k + 1)
<1> SUFFICES ASSUME \A k \in 1..17 : ~(Place(s, k) <= i /\ i < Place(s, k + 1)) PROVE FALSE
  OBVIOUS
<1>1. \A k \in 1..18 : Place(s, k) \in Nat
  BY PlacesAreNat
<1>2. ASSUME NEW k \in 1..17, Place(s, k) <= i PROVE Place(s, k + 1) <= i
  <2>1. k \in 1..18 /\ k + 1 \in 1..18
    OBVIOUS
  <2>2. Place(s, k + 1) \in Nat /\ ~(i < Place(s, k + 1))
    BY <1>1, <1>2, <2>1
  <2>3. QED
    BY <2>2
<1>3. Place(s, 1) <= i
  BY PlacesAreNat
<1>4. PICK p : p = [k \in 1..18 |-> Place(s, k)]
  OBVIOUS
<1>5. /\ p[1] <= i
      /\ \A k \in 1..17 : p[k] <= i => p[k + 1] <= i
      /\ p[18] = Place(s, 18)
  <2>1. \A k \in 1..18 : p[k] = Place(s, k)
    BY <1>4
  <2>2. \A k \in 1..17 : k \in 1..18 /\ k + 1 \in 1..18
    OBVIOUS
  <2>3. 1 \in 1..18 /\ 18 \in 1..18
    OBVIOUS
  <2>4. QED
    BY <1>2, <1>3, <2>1, <2>2, <2>3
<1>6. p[2] <= i /\ p[3] <= i
  BY <1>5
<1>7. p[4] <= i /\ p[5] <= i /\ p[6] <= i
  BY <1>5, <1>6
<1>8. p[7] <= i /\ p[8] <= i /\ p[9] <= i /\ p[10] <= i
  BY <1>5, <1>7
<1>9. p[11] <= i /\ p[12] <= i /\ p[13] <= i /\ p[14] <= i
  BY <1>5, <1>8
<1>10. p[15] <= i /\ p[16] <= i /\ p[17] <= i /\ p[18] <= i
  BY <1>5, <1>9
<1>11. Place(s, 18) \in Nat
  <2>1. 18 \in 1..18
    OBVIOUS
  <2>2. QED
    BY <1>1, <2>1, Zenon
<1>12. QED
  BY <1>5, <1>10, <1>11

LEMMA DetailIsStored ==
    ASSUME Kept(st), Partly(st, node), NEW i \in Nat, i < Len(node.details)
    PROVE  \E k \in 1..17 : \E j \in 1..Len(Stored(st, Layout[k])) :
              /\ Place(st, k) <= i /\ i < Place(st, k + 1)
              /\ Present(st, Layout[k])
              /\ i = Place(st, k) + j - 1
              /\ DetailAt(i) = Stored(st, Layout[k])[j]
<1>1. Sized(st) /\ Held(st)
  BY KeptIsSized
<1>2. Len(node.details) \in Nat /\ Len(node.details) <= Place(st, 18) /\ Place(st, 18) \in Nat
  <2>1. 18 \in 1..18
    OBVIOUS
  <2>2. QED
    BY <2>1, PlacesAreNat DEF Partly
<1>3. i < Place(st, 18)
  BY <1>2
<1>4. PICK k \in 1..17 : Place(st, k) <= i /\ i < Place(st, k + 1)
  BY <1>3, SlotOfPlace
<1>5. k \in 1..18 /\ k + 1 \in 1..18
  OBVIOUS
<1>6. Place(st, k) \in Nat /\ Place(st, k + 1) \in Nat
  BY <1>5, PlacesAreNat
<1>7. Present(st, Layout[k])
  <2>1. ASSUME ~Present(st, Layout[k]) PROVE Place(st, k + 1) = Place(st, k)
    <3>1. PICK n : n = k + 1
      OBVIOUS
    <3>2. n \in 1..18 /\ k <= n /\ \A j \in k..n - 1 : ~Present(st, Layout[j])
      BY <1>5, <2>1, <3>1
    <3>3. Place(st, n) = Place(st, k)
      BY <1>1, <1>5, <3>2, SkipAbsent
    <3>4. QED
      BY <3>1, <3>3
  <2>2. QED
    BY <1>4, <1>6, <2>1
<1>8. Len(Stored(st, Layout[k])) \in Nat
      /\ Place(st, k + 1) = Place(st, k) + Len(Stored(st, Layout[k]))
  BY <1>1, <1>7, StoredFits
<1>9. PICK j \in 1..Len(Stored(st, Layout[k])) : j = i - Place(st, k) + 1
  BY <1>4, <1>6, <1>8
<1>10. Place(st, k) + j = i + 1 /\ i = Place(st, k) + j - 1
  BY <1>6, <1>9
<1>11. node.details[Place(st, k) + j] = Stored(st, Layout[k])[j]
  <2>1. Place(st, k) + j <= Len(node.details)
    BY <1>2, <1>10
  <2>2. QED
    BY <1>7, <2>1 DEF Partly
<1>12. DetailAt(i) = Stored(st, Layout[k])[j]
  BY <1>10, <1>11 DEF DetailAt
<1>13. QED
  BY <1>4, <1>7, <1>10, <1>12

(* What a detail is follows from where it is.                               *)
LEMMA KindsAre ==
    ASSUME Kept(st), Partly(st, node), NEW i \in Nat, i < Len(node.details)
    PROVE  /\ i < Place(st, 15) => DetailAt(i).is = "obj"
           /\ Place(st, 15) <= i /\ i < Place(st, 17) =>
                 DetailAt(i).is = IF "fixtuple" \in st.types /\ i = Place(st, 16)
                                  THEN "size" ELSE "node"
           /\ Place(st, 17) <= i => DetailAt(i).is = "cn"
<1>0. PICK k \in 1..17 : \E j \in 1..Len(Stored(st, Layout[k])) :
              /\ Place(st, k) <= i /\ i < Place(st, k + 1)
              /\ Present(st, Layout[k])
              /\ i = Place(st, k) + j - 1
              /\ DetailAt(i) = Stored(st, Layout[k])[j]
  BY DetailIsStored
<1>1. PICK j \in 1..Len(Stored(st, Layout[k])) :
              /\ Place(st, k) <= i /\ i < Place(st, k + 1)
              /\ Present(st, Layout[k])
              /\ i = Place(st, k) + j - 1
              /\ DetailAt(i) = Stored(st, Layout[k])[j]
  BY <1>0
<1>2. /\ \A a \in 1..18 : Place(st, a) \in Nat
      /\ \A a, b \in 1..18 : a <= b => Place(st, a) <= Place(st, b)
  BY PlacesAreNat
<1>3. k \in 1..18 /\ k + 1 \in 1..18 /\ 15 \in 1..18 /\ 16 \in 1..18 /\ 17 \in 1..18
  OBVIOUS
<1>4. /\ Place(st, k) \in Nat /\ Place(st, k + 1) \in Nat
      /\ Place(st, 15) \in Nat /\ Place(st, 16) \in Nat /\ Place(st, 17) \in Nat
  <2>1. Place(st, 15) \in Nat /\ Place(st, 16) \in Nat /\ Place(st, 17) \in Nat
    BY <1>2, <1>3, Zenon
  <2>2. QED
    BY <1>2, <1>3, <2>1
<1>5. Place(st, 15) <= Place(st, 16) /\ Place(st, 16) <= Place(st, 17)
  BY <1>2, <1>3
<1>6. CASE k \in 1..14
  <2>1. Layout[k] \notin {"dict", "array", "constraints"}
    <3>1. \A a \in {15, 16, 17} : a \in 1..17 /\ k # a
      BY <1>6
    <3>2. \A a \in {15, 16, 17} : Layout[k] # Layout[a]
      BY <3>1, LayoutIsInjective
    <3>3. QED
      BY <3>2, LayoutIsInjective
  <2>2. Stored(st, Layout[k]) = <<Detail("obj", st.obj[Layout[k]])>>
    BY <2>1, WhatIsStored
  <2>3. DetailAt(i) = Detail("obj", st.obj[Layout[k]])
    BY <1>1, <2>2
  <2>4. k + 1 <= 15 /\ k + 1 <= 17
    BY <1>6
  <2>5. Place(st, k + 1) <= Place(st, 15)
    BY <1>2, <1>3, <2>4
  <2>6. i < Place(st, 15) /\ i < Place(st, 17)
    BY <1>1, <1>4, <1>5, <2>5, SMTT(60)
  <2>7. QED
    BY <1>4, <2>3, <2>6 DEF Detail
<1>7. CASE k = 15
  <2>1. Place(st, 15) <= i /\ i < Place(st, 16)
    BY <1>1, <1>7
  <2>2. Stored(st, Layout[k])
            = <<Detail("node", st.obj["dict"][1]), Detail("node", st.obj["dict"][2])>>
    BY <1>7, LayoutIsInjective, WhatIsStored
  <2>3. DetailAt(i).is = "node"
    BY <1>1, <2>2 DEF Detail
  <2>4. QED
    BY <1>4, <1>5, <2>1, <2>3
<1>8. CASE k = 16
  <2>1. Place(st, 16) <= i /\ i < Place(st, 17)
    BY <1>1, <1>8
  <2>2. Layout[k] = "array"
    BY <1>8, LayoutIsInjective
  <2>3. DetailAt(i).is = IF "fixtuple" \in st.types /\ i = Place(st, 16) THEN "size" ELSE "node"
    <3>1. CASE "fixtuple" \in st.types
      <4>1. PICK n : n = Len(st.obj["array"])
        OBVIOUS
      <4>2. n \in Nat
        BY <3>1, <4>1, KeptIsSized DEF Sized
      <4>3. PICK q : q = Stored(st, "array")
        OBVIOUS
      <4>4. /\ Len(q) = n + 1
            /\ q[1] = Detail("size", n)
            /\ \A a \in 1..n : q[a + 1] = Detail("node", st.obj["array"][a])
        BY <3>1, <4>1, <4>2, <4>3, TupleIsStored
      <4>5. DetailAt(i) = q[j] /\ i = Place(st, 16) + j - 1 /\ j \in 1..n + 1
        BY <1>1, <1>8, <2>2, <4>3, <4>4
      <4>6. CASE j = 1
        <5>1. i = Place(st, 16)
          BY <1>4, <4>5, <4>6
        <5>2. QED
          BY <3>1, <4>4, <4>5, <4>6, <5>1 DEF Detail
      <4>7. CASE j # 1
        <5>1. PICK a \in 1..n : a + 1 = j
          <6>1. j - 1 \in 1..n /\ j - 1 + 1 = j
            BY <4>2, <4>5, <4>7
          <6>2. QED
            BY <6>1
        <5>2. i # Place(st, 16)
          BY <1>4, <4>2, <4>5, <4>7
        <5>3. DetailAt(i) = Detail("node", st.obj["array"][a])
          BY <4>4, <4>5, <5>1
        <5>4. QED
          BY <5>2, <5>3 DEF Detail
      <4>8. QED
        BY <4>6, <4>7
    <3>2. CASE "fixtuple" \notin st.types
      <4>1. Stored(st, "array") = <<Detail("node", st.obj["array"])>>
        BY <3>2, WhatIsStored
      <4>2. DetailAt(i) = Detail("node", st.obj["array"])
        BY <1>1, <2>2, <4>1
      <4>3. QED
        BY <3>2, <4>2 DEF Detail
    <3>3. QED
      BY <3>1, <3>2
  <2>4. QED
    BY <1>4, <1>5, <2>1, <2>3
<1>9. CASE k = 17
  <2>1. Place(st, 17) <= i
    BY <1>1, <1>9
  <2>2. Stored(st, Layout[k]) = <<Detail("cn", CnPacked(st))>>
    BY <1>9, LayoutIsInjective, WhatIsStored
  <2>3. DetailAt(i) = Detail("cn", CnPacked(st))
    BY <1>1, <2>2
  <2>4. QED
    BY <1>4, <1>5, <2>1, <2>3 DEF Detail
<1>10. QED
  BY <1>6, <1>7, <1>8, <1>9

LEMMA NothingBeyond ==
    ASSUME NEW i \in Nat, Len(node.details) \in Nat, ~(i < Len(node.details))
    PROVE  DetailAt(i).is = "nil"
BY DEF DetailAt, Nil, Detail

-----------------------------------------------------------------------------
(* The ranges that TypeNode_Free and TypeNode_traverse go over.             *)

LEMMA RangesOf ==
    ASSUME NEW types, NEW r, r = TraverseRanges(types)
    PROVE  /\ types \cap {"custom", "customgeneric"} # {} =>
                 /\ r.obj = 1 + Count(types, {"codec", "user"})
                 /\ r.node = 0 /\ r.offset = 0 /\ r.size = 0
           /\ types \cap {"custom", "customgeneric"} = {} /\ "any" \in types =>
                 r.obj = 0 /\ r.node = 0 /\ r.offset = 0 /\ r.size = 0
           /\ types \cap {"custom", "customgeneric"} = {} /\ "any" \notin types =>
                 /\ r.obj = Count(types, ObjSlots \cup {"codec", "user"})
                 /\ r.node = Count(types, DictBits \cup Slot7)
                 /\ r.offset = (IF "fixtuple" \in types
                                THEN Offset(types, "fixtuple") + 1 ELSE 0)
                 /\ r.size = (IF "fixtuple" \in types
                                 /\ DetailAt(Offset(types, "fixtuple")).is = "size"
                              THEN DetailAt(Offset(types, "fixtuple")).of ELSE 0)
<1>1. ASSUME types \cap {"custom", "customgeneric"} # {}
      PROVE  /\ r.obj = 1 + Count(types, {"codec", "user"})
             /\ r.node = 0 /\ r.offset = 0 /\ r.size = 0
  BY <1>1 DEF TraverseRanges
<1>2. ASSUME types \cap {"custom", "customgeneric"} = {}, "any" \in types
      PROVE  r.obj = 0 /\ r.node = 0 /\ r.offset = 0 /\ r.size = 0
  BY <1>2 DEF TraverseRanges
<1>3. ASSUME types \cap {"custom", "customgeneric"} = {}, "any" \notin types
      PROVE  /\ r.obj = Count(types, ObjSlots \cup {"codec", "user"})
             /\ r.node = Count(types, DictBits \cup Slot7)
             /\ r.offset = (IF "fixtuple" \in types THEN Offset(types, "fixtuple") + 1 ELSE 0)
             /\ r.size = (IF "fixtuple" \in types
                             /\ DetailAt(Offset(types, "fixtuple")).is = "size"
                          THEN DetailAt(Offset(types, "fixtuple")).of ELSE 0)
  BY <1>3 DEF TraverseRanges
<1>4. QED
  BY <1>1, <1>2, <1>3

(* The bits of a node that may be unfinished.                               *)
LEMMA PartlyHasBits ==
    ASSUME Kept(st), Partly(st, node)
    PROVE  /\ node.types \cap Counted = st.types \cap Counted
           /\ "constr" \in node.types <=> st.mask # {}
           /\ "any" \in node.types => "any" \in st.types \/ st.obj["custom"] # Null
           /\ "any" \in st.types => "any" \in node.types
<1>1. "constr" \notin Counted /\ "any" \notin Counted
  BY DEF Counted, ObjSlots, Slot0, Slot1, Slot2, Slot3, Slot4, DictBits, Arrays, Slot7
<1>2. "constr" \notin st.types
  BY DEF Kept, StateOK, CollectedTypes
<1>3. PICK at \in 0..17 : node.types = NodeTypes(st, at)
  BY DEF Partly
<1>4. QED
  BY <1>1, <1>2, <1>3 DEF NodeTypes

(* A node with hooks: its objects are all of its details but constraints.   *)
LEMMA CustomRanges ==
    ASSUME Kept(st), Distinct(st), Partly(st, node), st.obj["custom"] # Null,
           NEW r, r = TraverseRanges(node.types)
    PROVE  /\ r.obj = Place(st, 15) /\ r.node = 0 /\ r.offset = 0 /\ r.size = 0
           /\ Place(st, 17) = Place(st, 15) /\ "fixtuple" \notin st.types
           /\ st.types \cap Counted # {}
<1>1. Sized(st) /\ Held(st) /\ st.types \subseteq Types
  BY KeptIsSized
<1>2. PICK types : types = node.types
  OBVIOUS
<1>3. types \cap Counted = st.types \cap Counted
  BY <1>2, PartlyHasBits
<1>4. st.types \subseteq {"custom", "customgeneric", "none", "codec", "user"}
  BY DEF Distinct
<1>5. HeldAt(st, 1) /\ BitsOf[1] = {"custom", "customgeneric"} /\ Layout[1] = "custom"
  BY <1>1, LayoutIsInjective DEF Held, BitsOf
<1>6. PICK b \in BitsOf[1] : st.types \cap BitsOf[1] = {b}
  BY <1>5 DEF HeldAt
<1>7. {"custom", "customgeneric", "codec", "user"} \subseteq Counted
  BY CountedSets DEF ObjSlots, Slot0
<1>8. types \cap {"custom", "customgeneric"} # {}
  BY <1>3, <1>5, <1>6, <1>7
<1>9. PICK hooks : hooks = {"codec", "user"}
  OBVIOUS
<1>10. r.obj = 1 + Count(types, hooks) /\ r.node = 0 /\ r.offset = 0 /\ r.size = 0
  BY <1>2, <1>8, <1>9, RangesOf
<1>11. Count(types, hooks) = Count(st.types, hooks)
  BY <1>3, <1>7, <1>9, SameBitsCount
<1>12. PICK first : first = {"custom", "customgeneric"}
  OBVIOUS
<1>13. Count(st.types, first) = 1
  BY <1>5, <1>6, <1>12, FS_Singleton DEF Count
<1>14. Count(st.types, first \cup hooks) = Count(st.types, first) + Count(st.types, hooks)
  <2>1. first \cap hooks = {}
    BY <1>9, <1>12
  <2>2. QED
    BY <1>1, <2>1, CountAdds
<1>15. st.types \cap (first \cup hooks) = st.types \cap Below(15)
  <2>1. Below(15) = ObjSlots \cup {"codec", "user"}
    BY BitsBelow
  <2>2. {"custom", "customgeneric"} \subseteq ObjSlots /\ "none" \notin Below(15)
    BY <2>1 DEF ObjSlots, Slot0, Slot1, Slot2, Slot3, Slot4
  <2>3. QED
    BY <1>4, <1>9, <1>12, <2>1, <2>2
<1>16. Place(st, 15) = 1 + Count(st.types, hooks)
  <2>1. PICK k \in 1..16 : k = 15
    OBVIOUS
  <2>2. Place(st, k) = Count(st.types, Below(k))
    BY <1>1, PlaceCounts
  <2>3. Count(st.types, Below(k)) = Count(st.types, first \cup hooks)
    BY <1>15, <2>1 DEF Count
  <2>4. QED
    BY <1>13, <1>14, <2>1, <2>2, <2>3
<1>17. Place(st, 17) = Place(st, 15)
  <2>1. 15 \in 1..18 /\ 17 \in 1..18 /\ 15 <= 17 /\ 17 # 18
    OBVIOUS
  <2>2. \A i \in 15..17 - 1 : i <= 16 => st.types \cap BitsOf[i] = {}
    <3>1. ASSUME NEW i \in 15..17 - 1 PROVE st.types \cap BitsOf[i] = {}
      <4>1. i = 15 \/ i = 16
        OBVIOUS
      <4>2. QED
        BY <1>4, <4>1 DEF BitsOf
    <3>2. QED
      BY <3>1
  <2>3. QED
    BY <1>1, <2>1, <2>2, NoPlace
<1>18. "fixtuple" \notin st.types /\ st.types \cap Counted # {}
  BY <1>4, <1>5, <1>6, <1>7
<1>19. QED
  BY <1>10, <1>11, <1>16, <1>17, <1>18

(* Any other node.                                                          *)
LEMMA OtherRanges ==
    ASSUME Kept(st), Distinct(st), Partly(st, node), st.obj["custom"] = Null,
           "any" \notin st.types, NEW r, r = TraverseRanges(node.types)
    PROVE  /\ r.obj = Place(st, 15)
           /\ "fixtuple" \notin st.types =>
                 /\ r.obj + r.node = Place(st, 17) /\ r.node \in Nat
                 /\ r.offset = 0 /\ r.size = 0
           /\ "fixtuple" \in st.types =>
                 /\ r.obj + r.node = Place(st, 16) /\ r.node \in Nat
                 /\ r.offset = Place(st, 16) + 1
                 /\ Place(st, 17) = Place(st, 16) + 1 + Elements(st)
                 /\ r.size = IF Place(st, 16) < Len(node.details) THEN Elements(st) ELSE 0
<1>1. Sized(st) /\ Held(st) /\ st.types \subseteq Types
  BY KeptIsSized
<1>2. PICK types : types = node.types
  OBVIOUS
<1>3. types \cap Counted = st.types \cap Counted /\ "any" \notin types
  BY <1>2, PartlyHasBits
<1>4. HeldAt(st, 1) /\ BitsOf[1] = {"custom", "customgeneric"} /\ Layout[1] = "custom"
  BY <1>1, LayoutIsInjective DEF Held, BitsOf
<1>5. types \cap {"custom", "customgeneric"} = {}
  <2>1. {"custom", "customgeneric"} \subseteq Counted
    BY CountedSets DEF ObjSlots, Slot0
  <2>2. QED
    BY <1>3, <1>4, <2>1 DEF HeldAt
<1>6. PICK objs : objs = ObjSlots \cup {"codec", "user"}
  OBVIOUS
<1>7. PICK nodes : nodes = DictBits \cup Slot7
  OBVIOUS
<1>8. /\ r.obj = Count(types, objs) /\ r.node = Count(types, nodes)
      /\ r.offset = (IF "fixtuple" \in types THEN Offset(types, "fixtuple") + 1 ELSE 0)
      /\ r.size = (IF "fixtuple" \in types
                      /\ DetailAt(Offset(types, "fixtuple")).is = "size"
                   THEN DetailAt(Offset(types, "fixtuple")).of ELSE 0)
  BY <1>2, <1>3, <1>5, <1>6, <1>7, RangesOf
<1>9. "fixtuple" \in types <=> "fixtuple" \in st.types
  BY <1>3, CountedSets
<1>10. Place(st, 15) \in Nat /\ Place(st, 16) \in Nat /\ Place(st, 17) \in Nat
  <2>1. \A a \in 1..18 : Place(st, a) \in Nat
    BY PlacesAreNat
  <2>2. 15 \in 1..18 /\ 16 \in 1..18 /\ 17 \in 1..18
    OBVIOUS
  <2>3. QED
    BY <2>1, <2>2, Zenon
<1>11. Count(types, objs) = Place(st, 15)
  <2>1. PICK k \in 1..16 : k = 15
    OBVIOUS
  <2>2. objs \subseteq Counted /\ st.types \cap objs = st.types \cap Below(k)
    BY <1>6, <2>1, BitsBelow, CountedSets
  <2>3. Count(types, objs) = Place(st, k)
    BY <1>1, <1>3, <2>2, ReaderCounts
  <2>4. QED
    BY <2>1, <2>3
<1>12. Count(types, nodes) = Count(st.types, DictBits) + Count(st.types, Slot7)
  <2>1. nodes \subseteq Counted
    BY <1>7, CountedSets
  <2>2. Count(types, nodes) = Count(st.types, nodes)
    BY <1>3, <2>1, SameBitsCount
  <2>3. DictBits \cap Slot7 = {}
    BY DEF DictBits, Slot7
  <2>4. QED
    BY <1>1, <1>7, <2>2, <2>3, CountAdds
<1>13. Place(st, 16) = Place(st, 15) + Count(st.types, DictBits)
  <2>1. PICK k \in 1..15 : k = 15
    OBVIOUS
  <2>2. Place(st, k + 1) = Place(st, k) + Count(st.types, BitsOf[k])
    BY <1>1, NextPlace
  <2>3. BitsOf[k] = DictBits /\ k + 1 = 16
    BY <2>1 DEF BitsOf, DictBits
  <2>4. QED
    BY <2>1, <2>2, <2>3
<1>14. Place(st, 17) = Place(st, 16) + Count(st.types, BitsOf[16]) + Elements(st)
  BY <1>1, NextPlace
<1>15. BitsOf[16] = Slot7 \cup {"fixtuple"} /\ "fixtuple" \notin Slot7
  BY DEF BitsOf, Slot7
<1>16. Count(st.types, DictBits) \in Nat /\ Count(st.types, Slot7) \in Nat /\ Elements(st) \in Nat
  BY <1>1, CountIsNat, SizesAreNat
<1>17. ASSUME "fixtuple" \notin st.types
       PROVE  /\ r.obj + r.node = Place(st, 17) /\ r.node \in Nat
              /\ r.offset = 0 /\ r.size = 0
  <2>1. st.types \cap BitsOf[16] = st.types \cap Slot7
    BY <1>15, <1>17
  <2>2. Count(st.types, BitsOf[16]) = Count(st.types, Slot7)
    BY <2>1 DEF Count
  <2>3. Elements(st) = 0
    BY <1>17 DEF Elements
  <2>4. r.offset = 0 /\ r.size = 0
    BY <1>8, <1>9, <1>17
  <2>5. QED
    BY <1>8, <1>10, <1>11, <1>12, <1>13, <1>14, <1>16, <2>2, <2>3, <2>4
<1>18. ASSUME "fixtuple" \in st.types
       PROVE  /\ r.obj + r.node = Place(st, 16) /\ r.node \in Nat
              /\ r.offset = Place(st, 16) + 1
              /\ Place(st, 17) = Place(st, 16) + 1 + Elements(st)
              /\ r.size = IF Place(st, 16) < Len(node.details) THEN Elements(st) ELSE 0
  <2>1. PICK k \in 1..16 : k = 16
    OBVIOUS
  <2>2. k \in 1..16 \ {13, 14} /\ "fixtuple" \in BitsOf[k]
    BY <1>15, <2>1
  <2>3. PICK b : st.types \cap BitsOf[k] = {b}
    <3>1. HeldAt(st, k)
      BY <1>1, <2>2 DEF Held
    <3>2. st.obj[Layout[k]] # Null
      BY <1>18, <2>2, <3>1 DEF HeldAt
    <3>3. QED
      BY <2>1, <3>1, <3>2 DEF HeldAt
  <2>4. st.types \cap BitsOf[16] = {"fixtuple"}
    BY <1>18, <2>1, <2>2, <2>3
  <2>5. Count(st.types, BitsOf[16]) = 1
    BY <2>4, FS_Singleton DEF Count
  <2>6. Count(st.types, Slot7) = 0
    <3>1. st.types \cap Slot7 = {}
      BY <1>15, <2>4
    <3>2. QED
      BY <3>1, FS_EmptySet DEF Count
  <2>7. Place(st, 17) = Place(st, 16) + 1 + Elements(st)
    BY <1>14, <2>5
  <2>8. r.obj + r.node = Place(st, 16) /\ r.node \in Nat
    BY <1>8, <1>10, <1>11, <1>12, <1>13, <1>16, <2>6
  <2>9. Offset(types, "fixtuple") = Place(st, 16)
    <3>1. PICK A : A = ObjSlots \cup {"codec", "user"} \cup DictBits
      OBVIOUS
    <3>2. A \subseteq Counted /\ st.types \cap A = st.types \cap Below(k)
      BY <2>1, <3>1, BitsBelow, CountedSets
    <3>3. Count(types, A) = Place(st, k)
      BY <1>1, <1>3, <3>2, ReaderCounts
    <3>4. Offset(types, "fixtuple") = Count(types, A)
      BY <3>1, OffsetOfArrays
    <3>5. QED
      BY <2>1, <3>3, <3>4
  <2>10. r.offset = Place(st, 16) + 1
    BY <1>8, <1>9, <1>18, <2>9
  <2>11. Len(node.details) \in Nat
    BY DEF Partly
  <2>12. PICK i \in Nat : i = Place(st, 16)
    BY <1>10
  <2>13. CASE i < Len(node.details)
    <3>1. Present(st, Layout[k]) /\ Layout[k] = "array"
      BY <1>1, <1>18, <2>1, <2>2, BitIsPresent, LayoutIsInjective
    <3>2. PICK q : q = Stored(st, "array")
      OBVIOUS
    <3>3. PICK n : n = Len(st.obj["array"])
      OBVIOUS
    <3>4. n \in Nat /\ n = Elements(st)
      BY <1>1, <1>18, <3>3 DEF Sized, Elements
    <3>5. Len(q) = n + 1 /\ q[1] = Detail("size", n)
      BY <1>18, <3>2, <3>3, <3>4, TupleIsStored
    <3>6. node.details[i + 1] = q[1]
      <4>1. PICK one \in 1..Len(Stored(st, Layout[k])) : one = 1
        BY <3>1, <3>2, <3>4, <3>5
      <4>2. Place(st, k) + one <= Len(node.details) /\ Place(st, k) + one = i + 1
        BY <2>1, <2>11, <2>12, <2>13, <4>1
      <4>3. k \in 1..17
        OBVIOUS
      <4>4. node.details[Place(st, k) + one] = Stored(st, Layout[k])[one]
        BY <3>1, <4>2, <4>3 DEF Partly
      <4>5. QED
        BY <3>1, <3>2, <4>1, <4>2, <4>4
    <3>7. DetailAt(i) = Detail("size", n)
      BY <2>13, <3>5, <3>6 DEF DetailAt
    <3>8. DetailAt(i).is = "size" /\ DetailAt(i).of = n
      BY <3>7 DEF Detail
    <3>9. r.size = n
      BY <1>8, <1>9, <1>18, <2>9, <2>12, <3>8
    <3>10. QED
      BY <2>7, <2>8, <2>10, <2>12, <2>13, <3>4, <3>9
  <2>14. CASE ~(i < Len(node.details))
    <3>1. DetailAt(i).is = "nil"
      BY <2>11, <2>14, NothingBeyond
    <3>2. r.size = 0
      BY <1>8, <2>9, <2>12, <3>1
    <3>3. QED
      BY <2>7, <2>8, <2>10, <2>12, <2>14, <3>2
  <2>15. QED
    BY <2>13, <2>14
<1>19. QED
  BY <1>8, <1>11, <1>17, <1>18

LEMMA PlaceOfConstraints ==
    ASSUME Kept(st)
    PROVE  /\ Place(st, 18) = Place(st, 17) + Constraints(st)
           /\ st.types \cap Counted = {} => Place(st, 17) = 0
<1>1. Sized(st) /\ Held(st) /\ st.types \subseteq Types
  BY KeptIsSized
<1>2. ASSUME st.types \cap Counted = {} PROVE Place(st, 17) = 0
  <2>1. Below(17) = Counted
    BY BitsBelow DEF Counted, Arrays
  <2>2. Count(st.types, Below(17)) = 0
    BY <1>2, <2>1, FS_EmptySet DEF Count
  <2>3. "fixtuple" \notin st.types
    BY <1>2, CountedSets
  <2>4. Elements(st) = 0
    BY <2>3 DEF Elements
  <2>5. Place(st, 17) = Count(st.types, Below(17)) + Elements(st) + 0
    BY DEF Place
  <2>6. QED
    BY <2>2, <2>4, <2>5
<1>3. QED
  BY <1>1, <1>2, NextPlace

(* What is visited, of the details that are there.                          *)
LEMMA RangesCover ==
    ASSUME Kept(st), Distinct(st), Partly(st, node), "any" \notin st.types,
           NEW r, r = TraverseRanges(node.types)
    PROVE  /\ r.obj \in Nat /\ r.node \in Nat /\ r.offset \in Nat /\ r.size \in Nat
           /\ r.obj = Place(st, 15)
           /\ \A i \in Nat : i < Len(node.details) =>
                 ( \/ i \in r.obj..r.obj + r.node - 1
                   \/ i \in r.offset..r.offset + r.size - 1 )
                 <=> /\ Place(st, 15) <= i /\ i < Place(st, 17)
                     /\ ~("fixtuple" \in st.types /\ i = Place(st, 16))
<1>1. /\ Place(st, 15) \in Nat /\ Place(st, 16) \in Nat /\ Place(st, 17) \in Nat
      /\ Place(st, 15) <= Place(st, 16) /\ Place(st, 16) <= Place(st, 17)
  <2>1. \A a \in 1..18 : Place(st, a) \in Nat
    BY PlacesAreNat
  <2>2. 15 \in 1..18 /\ 16 \in 1..18 /\ 17 \in 1..18 /\ 15 <= 16 /\ 16 <= 17
    OBVIOUS
  <2>3. Place(st, 15) \in Nat /\ Place(st, 16) \in Nat /\ Place(st, 17) \in Nat
    BY <2>1, <2>2, Zenon
  <2>4. QED
    BY <2>2, <2>3, PlacesAreNat
<1>2. Elements(st) \in Nat /\ Len(node.details) \in Nat
  BY KeptIsSized, SizesAreNat DEF Partly
<1>3. CASE st.obj["custom"] # Null
  <2>1. /\ r.obj = Place(st, 15) /\ r.node = 0 /\ r.offset = 0 /\ r.size = 0
        /\ Place(st, 17) = Place(st, 15)
    BY <1>3, CustomRanges
  <2>2. QED
    BY <1>1, <2>1
<1>4. CASE st.obj["custom"] = Null /\ "fixtuple" \notin st.types
  <2>1. r.obj = Place(st, 15) /\ r.obj + r.node = Place(st, 17) /\ r.node \in Nat
        /\ r.offset = 0 /\ r.size = 0
    BY <1>4, OtherRanges
  <2>2. QED
    BY <1>1, <1>4, <2>1
<1>5. CASE st.obj["custom"] = Null /\ "fixtuple" \in st.types
  <2>1. /\ r.obj = Place(st, 15) /\ r.obj + r.node = Place(st, 16) /\ r.node \in Nat
        /\ r.offset = Place(st, 16) + 1
        /\ Place(st, 17) = Place(st, 16) + 1 + Elements(st)
        /\ r.size = IF Place(st, 16) < Len(node.details) THEN Elements(st) ELSE 0
    BY <1>5, OtherRanges
  <2>2. PICK p15 \in Nat, p16 \in Nat, p17 \in Nat :
           p15 = Place(st, 15) /\ p16 = Place(st, 16) /\ p17 = Place(st, 17)
    BY <1>1
  <2>3. PICK e \in Nat, n \in Nat : e = Elements(st) /\ n = Len(node.details)
    BY <1>2
  <2>4. /\ r.obj = p15 /\ r.node \in Nat /\ r.obj + r.node = p16 /\ r.offset = p16 + 1
        /\ p17 = p16 + 1 + e /\ r.size = IF p16 < n THEN e ELSE 0
        /\ p15 <= p16
    BY <1>1, <2>1, <2>2, <2>3
  <2>5. ASSUME NEW i \in Nat, i < n
        PROVE  ( \/ i \in r.obj..r.obj + r.node - 1
                 \/ i \in r.offset..r.offset + r.size - 1 )
               <=> p15 <= i /\ i < p17 /\ i # p16
    <3>1. i \in r.obj..r.obj + r.node - 1 <=> p15 <= i /\ i < p16
      BY <2>4
    <3>2. CASE p16 < n
      <4>1. i \in r.offset..r.offset + r.size - 1 <=> p16 < i /\ i < p17
        BY <2>4, <3>2
      <4>2. QED
        BY <2>4, <3>1, <4>1
    <3>3. CASE ~(p16 < n)
      <4>1. ~(i \in r.offset..r.offset + r.size - 1) /\ i < p16 /\ i < p17
        BY <2>4, <2>5, <3>3
      <4>2. QED
        BY <2>4, <3>1, <4>1
    <3>4. QED
      BY <3>2, <3>3
  <2>6. r.size \in Nat /\ r.offset \in Nat /\ r.obj \in Nat /\ r.node \in Nat
    BY <2>4
  <2>7. QED
    BY <1>5, <2>2, <2>3, <2>4, <2>5, <2>6
<1>6. QED
  BY <1>3, <1>4, <1>5

LEMMA ConstraintsCovered ==
    ASSUME Kept(st), Distinct(st), Partly(st, node), "any" \notin st.types
    PROVE  /\ ConstraintOffset(node.types) \in Nat
           /\ \A i \in Nat : i < Len(node.details) =>
                 ("constr" \in node.types /\ i = ConstraintOffset(node.types)
                    <=> Place(st, 17) <= i)
<1>1. PICK r : r = TraverseRanges(node.types)
  OBVIOUS
<1>2. PICK co : co = ConstraintOffset(node.types)
  OBVIOUS
<1>3. /\ node.types \cap Counted = st.types \cap Counted
      /\ "constr" \in node.types <=> st.mask # {}
      /\ "fixtuple" \in node.types <=> "fixtuple" \in st.types
  BY PartlyHasBits, CountedSets
<1>4. co = IF node.types \cap Counted = {} THEN 0
           ELSE r.obj + r.node + (IF "fixtuple" \in node.types THEN 1 + r.size ELSE 0)
  <2>1. ObjSlots \cup DictBits \cup Slot7 \cup {"fixtuple", "codec", "user"} = Counted
    BY DEF Counted, Arrays
  <2>2. QED
    BY <1>1, <1>2, <2>1 DEF ConstraintOffset
<1>5. r.obj \in Nat /\ r.node \in Nat /\ r.offset \in Nat /\ r.size \in Nat
  BY <1>1, RangesCover
<1>6. /\ Place(st, 16) \in Nat /\ Place(st, 17) \in Nat /\ Place(st, 18) \in Nat
      /\ Place(st, 16) <= Place(st, 17)
  <2>1. \A a \in 1..18 : Place(st, a) \in Nat
    BY PlacesAreNat
  <2>2. 16 \in 1..18 /\ 17 \in 1..18 /\ 18 \in 1..18 /\ 16 <= 17
    OBVIOUS
  <2>3. Place(st, 16) \in Nat /\ Place(st, 17) \in Nat /\ Place(st, 18) \in Nat
    BY <2>1, <2>2, Zenon
  <2>4. QED
    BY <2>2, <2>3, PlacesAreNat
<1>7. /\ Place(st, 18) = Place(st, 17) + Constraints(st)
      /\ Constraints(st) = (IF st.mask # {} THEN 1 ELSE 0)
      /\ Len(node.details) \in Nat /\ Len(node.details) <= Place(st, 18)
  BY PlaceOfConstraints DEF Partly, Constraints
<1>8. Elements(st) \in Nat
  BY KeptIsSized, SizesAreNat
<1>9. co \in Nat
  BY <1>4, <1>5
<1>10. co = Place(st, 17) \/ (Len(node.details) <= Place(st, 16) /\ co >= Len(node.details))
  <2>1. CASE st.obj["custom"] # Null
    <3>1. /\ r.obj = Place(st, 15) /\ r.node = 0 /\ Place(st, 17) = Place(st, 15)
          /\ "fixtuple" \notin st.types /\ st.types \cap Counted # {}
      BY <1>1, <2>1, CustomRanges
    <3>2. co = r.obj + r.node + 0
      BY <1>3, <1>4, <3>1
    <3>3. QED
      BY <1>5, <3>1, <3>2
  <2>2. CASE st.obj["custom"] = Null /\ "fixtuple" \notin st.types
    <3>1. r.obj + r.node = Place(st, 17)
      BY <1>1, <2>2, OtherRanges
    <3>2. CASE st.types \cap Counted = {}
      BY <1>3, <1>4, <3>2, PlaceOfConstraints
    <3>3. CASE st.types \cap Counted # {}
      BY <1>3, <1>4, <1>6, <2>2, <3>1, <3>3
    <3>4. QED
      BY <3>2, <3>3
  <2>3. CASE st.obj["custom"] = Null /\ "fixtuple" \in st.types
    <3>1. /\ r.obj + r.node = Place(st, 16)
          /\ Place(st, 17) = Place(st, 16) + 1 + Elements(st)
          /\ r.size = IF Place(st, 16) < Len(node.details) THEN Elements(st) ELSE 0
      BY <1>1, <2>3, OtherRanges
    <3>2. node.types \cap Counted # {}
      BY <1>3, <2>3, CountedSets
    <3>3. co = Place(st, 16) + (1 + r.size)
      BY <1>3, <1>4, <2>3, <3>1, <3>2
    <3>4. QED
      BY <1>6, <1>7, <1>8, <3>1, <3>3
  <2>4. QED
    BY <2>1, <2>2, <2>3
<1>11. ASSUME NEW i \in Nat, i < Len(node.details)
       PROVE  "constr" \in node.types /\ i = co <=> Place(st, 17) <= i
  <2>1. CASE st.mask # {}
    BY <1>3, <1>6, <1>7, <1>9, <1>10, <1>11, <2>1
  <2>2. CASE st.mask = {}
    BY <1>3, <1>6, <1>7, <1>11, <2>2
  <2>3. QED
    BY <2>1, <2>2
<1>12. QED
  BY <1>2, <1>9, <1>11

(* Each reference of such a node is visited, once and as what it is.        *)
LEMMA PartlyIsReleased ==
    ASSUME Kept(st), Distinct(st), Partly(st, node), "any" \notin st.types
    PROVE  ReleasesWhatItHolds
<1>1. PICK r : r = TraverseRanges(node.types)
  OBVIOUS
<1>2. PICK co : co = ConstraintOffset(node.types)
  OBVIOUS
<1>3. PICK n : n = Len(node.details)
  OBVIOUS
<1>4. PICK V : V = Visited(node.types)
  OBVIOUS
<1>5. V = {<<i, "obj">> : i \in 0..(r.obj - 1)}
          \cup {<<i, "node">> : i \in r.obj..(r.obj + r.node - 1)}
          \cup {<<i, "node">> : i \in r.offset..(r.offset + r.size - 1)}
          \cup (IF "constr" \in node.types THEN {<<co, "cn">>} ELSE {})
  BY <1>1, <1>2, <1>4 DEF Visited
<1>6. n \in Nat
  BY <1>3 DEF Partly
<1>7. /\ r.obj \in Nat /\ r.node \in Nat /\ r.offset \in Nat /\ r.size \in Nat
      /\ r.obj = Place(st, 15)
      /\ \A i \in Nat : i < n =>
            ( \/ i \in r.obj..r.obj + r.node - 1
              \/ i \in r.offset..r.offset + r.size - 1 )
            <=> /\ Place(st, 15) <= i /\ i < Place(st, 17)
                /\ ~("fixtuple" \in st.types /\ i = Place(st, 16))
  BY <1>1, <1>3, RangesCover
<1>8. /\ co \in Nat
      /\ \A i \in Nat : i < n =>
            ("constr" \in node.types /\ i = co <=> Place(st, 17) <= i)
  BY <1>2, <1>3, ConstraintsCovered
<1>9. \A i \in Nat : i < n =>
         /\ i < Place(st, 15) => DetailAt(i).is = "obj"
         /\ Place(st, 15) <= i /\ i < Place(st, 17) =>
               DetailAt(i).is = IF "fixtuple" \in st.types /\ i = Place(st, 16)
                                THEN "size" ELSE "node"
         /\ Place(st, 17) <= i => DetailAt(i).is = "cn"
  BY <1>3, KindsAre
<1>10. \A i \in Nat : ~(i < n) => DetailAt(i).is = "nil"
  BY <1>3, <1>6, NothingBeyond
<1>11. Place(st, 15) \in Nat /\ Place(st, 17) \in Nat /\ Place(st, 15) <= Place(st, 17)
  <2>1. \A a \in 1..18 : Place(st, a) \in Nat
    BY PlacesAreNat
  <2>2. 15 \in 1..18 /\ 17 \in 1..18 /\ 15 <= 17
    OBVIOUS
  <2>3. Place(st, 15) \in Nat /\ Place(st, 17) \in Nat
    BY <2>1, <2>2, Zenon
  <2>4. QED
    BY <2>2, <2>3, PlacesAreNat
<1>12. ASSUME NEW v \in V, DetailAt(v[1]).is # "nil"
       PROVE  v \in {<<i, DetailAt(i).is>> : i \in {j \in 0..(n - 1) : DetailAt(j).is # "size"}}
  <2>1. PICK i \in Nat :
           \/ v = <<i, "obj">> /\ i \in 0..(r.obj - 1)
           \/ v = <<i, "node">> /\ ( \/ i \in r.obj..(r.obj + r.node - 1)
                                     \/ i \in r.offset..(r.offset + r.size - 1) )
           \/ v = <<i, "cn">> /\ "constr" \in node.types /\ i = co
    BY <1>5, <1>7, <1>8, <1>12
  <2>2. v[1] = i
    BY <2>1
  <2>3. i < n
    BY <1>10, <1>12, <2>2
  <2>4. v = <<i, DetailAt(i).is>> /\ DetailAt(i).is # "size"
    <3>1. CASE v = <<i, "obj">> /\ i \in 0..(r.obj - 1)
      <4>1. i < Place(st, 15)
        BY <1>7, <3>1
      <4>2. QED
        BY <1>9, <2>3, <3>1, <4>1
    <3>2. CASE /\ v = <<i, "node">>
               /\ \/ i \in r.obj..(r.obj + r.node - 1)
                  \/ i \in r.offset..(r.offset + r.size - 1)
      <4>1. /\ Place(st, 15) <= i /\ i < Place(st, 17)
            /\ ~("fixtuple" \in st.types /\ i = Place(st, 16))
        BY <1>7, <2>3, <3>2
      <4>2. DetailAt(i).is = "node"
        BY <1>9, <2>3, <4>1
      <4>3. QED
        BY <3>2, <4>2
    <3>3. CASE v = <<i, "cn">> /\ "constr" \in node.types /\ i = co
      <4>1. Place(st, 17) <= i
        BY <1>8, <2>3, <3>3
      <4>2. QED
        BY <1>9, <2>3, <3>3, <4>1
    <3>4. QED
      BY <2>1, <3>1, <3>2, <3>3
  <2>5. i \in 0..n - 1
    BY <1>6, <2>3
  <2>6. QED
    BY <2>4, <2>5
<1>13. ASSUME NEW i \in 0..(n - 1), DetailAt(i).is # "size"
       PROVE  <<i, DetailAt(i).is>> \in V /\ DetailAt(i).is # "nil"
  <2>1. i \in Nat /\ i < n
    BY <1>6
  <2>2. CASE i < Place(st, 15)
    <3>1. DetailAt(i).is = "obj" /\ i \in 0..(r.obj - 1)
      BY <1>7, <1>9, <2>1, <2>2
    <3>2. <<i, "obj">> \in V
      BY <1>5, <3>1
    <3>3. QED
      BY <3>1, <3>2
  <2>3. CASE Place(st, 15) <= i /\ i < Place(st, 17)
    <3>1. DetailAt(i).is = "node" /\ ~("fixtuple" \in st.types /\ i = Place(st, 16))
      BY <1>9, <1>13, <2>1, <2>3
    <3>2. i \in r.obj..(r.obj + r.node - 1) \/ i \in r.offset..(r.offset + r.size - 1)
      BY <1>7, <2>1, <2>3, <3>1
    <3>3. <<i, "node">> \in V
      BY <1>5, <3>2
    <3>4. QED
      BY <3>1, <3>3
  <2>4. CASE Place(st, 17) <= i
    <3>1. DetailAt(i).is = "cn" /\ "constr" \in node.types /\ i = co
      BY <1>8, <1>9, <2>1, <2>4
    <3>2. <<i, "cn">> \in V
      BY <1>5, <3>1
    <3>3. QED
      BY <3>1, <3>2
  <2>5. QED
    BY <1>11, <2>1, <2>2, <2>3, <2>4
<1>14. {v \in V : DetailAt(v[1]).is # "nil"}
          = {<<i, DetailAt(i).is>> : i \in {j \in 0..(n - 1) : DetailAt(j).is # "size"}}
  <2>1. \A i : <<i, DetailAt(i).is>>[1] = i
    OBVIOUS
  <2>2. QED
    BY <1>12, <1>13, <2>1
<1>15. QED
  BY <1>3, <1>4, <1>14 DEF ReleasesWhatItHolds

(* No Any has a constraint of its own: the ranges of an Any are empty.      *)
NoHookOnAny ==
    \A m \in Member : m.type = "any" /\ m.constr # Null => m.constr.class # "user"

(* A node that holds nothing, and whose mask promises nothing.              *)
LEMMA EmptyIsReleased ==
    ASSUME Len(node.details) = 0, "constr" \notin node.types,
           NEW r, r = TraverseRanges(node.types),
           r.obj = 0, r.node = 0, r.offset = 0, r.size = 0
    PROVE  ReleasesWhatItHolds
<1>1. /\ 0..(r.obj - 1) = {} /\ r.obj..(r.obj + r.node - 1) = {}
      /\ r.offset..(r.offset + r.size - 1) = {}
  OBVIOUS
<1>2. Visited(node.types) = {}
  BY <1>1 DEF Visited
<1>3. 0..(Len(node.details) - 1) = {}
  OBVIOUS
<1>4. QED
  BY <1>2, <1>3 DEF ReleasesWhatItHolds

(* Any holds nothing.                                                       *)
LEMMA AnyIsReleased ==
    ASSUME Kept(st), Alone(st), Partly(st, node), "any" \in st.types, NoHookOnAny
    PROVE  ReleasesWhatItHolds
<1>1. st.types = {"any"} /\ st.mask = {} /\ st.obj["custom"] = Null
  <2>1. HooksOfAny = {}
    BY DEF HooksOfAny, Members, NoHookOnAny
  <2>2. "custom" \in Slot \ {"user"}
    BY DEF Slot
  <2>3. QED
    BY <2>1, <2>2 DEF Alone
<1>2. node.types = {"any"}
  <2>1. PICK at \in 0..17 : node.types = NodeTypes(st, at)
    BY DEF Partly
  <2>2. QED
    BY <1>1, <2>1 DEF NodeTypes
<1>3. Len(node.details) = 0
  <2>1. "any" \notin Counted
    BY DEF Counted, ObjSlots, Slot0, Slot1, Slot2, Slot3, Slot4, DictBits, Arrays, Slot7
  <2>2. Place(st, 17) = 0 /\ Place(st, 18) = Place(st, 17) + Constraints(st)
    BY <1>1, <2>1, PlaceOfConstraints
  <2>3. Constraints(st) = 0
    BY <1>1 DEF Constraints
  <2>4. QED
    BY <2>2, <2>3 DEF Partly
<1>4. PICK r : r = TraverseRanges(node.types)
  OBVIOUS
<1>5. r.obj = 0 /\ r.node = 0 /\ r.offset = 0 /\ r.size = 0
  BY <1>2, <1>4, RangesOf
<1>6. QED
  BY <1>2, <1>3, <1>4, <1>5, EmptyIsReleased

(* Before there is a node.                                                  *)
LEMMA NoNodeIsReleased ==
    ASSUME node = NoNode
    PROVE  ReleasesWhatItHolds
<1>1. PICK types : types = node.types
  OBVIOUS
<1>2. types = {} /\ Len(node.details) = 0
  BY <1>1 DEF NoNode
<1>3. PICK r : r = TraverseRanges(types)
  OBVIOUS
<1>4. \A bits : Count(types, bits) = 0
  BY <1>2, FS_EmptySet DEF Count
<1>5. r.obj = 0 /\ r.node = 0 /\ r.offset = 0 /\ r.size = 0
  BY <1>2, <1>3, <1>4, RangesOf
<1>6. QED
  BY <1>1, <1>2, <1>3, <1>5, EmptyIsReleased

(* The invariant: there is no node before the union was checked, and one    *)
(* whose construction failed is a part of the one that was laid out.        *)
Part == Kept(st) /\ Distinct(st) /\ Alone(st) /\ Partly(st, node)

Begun ==
    /\ phase \in {"collect", "structs", "literals", "check", "refused"} => node = NoNode
    /\ phase = "failed" => node = NoNode \/ Part

LEMMA LaidIsPart ==
    ASSUME IInv, AnyInv, phase \in {"layout", "done"}
    PROVE  Part
<1>1. Kept(st) /\ Distinct(st) /\ Alone(st) /\ NodeOK(node)
  BY DEF IInv, AnyInv
<1>2. PICK at \in 0..17 : Laid(st, node, at)
  <2>1. node.at \in 0..17 /\ 17 \in 0..17
    BY <1>1 DEF NodeOK
  <2>2. Laid(st, node, node.at) \/ Laid(st, node, 17)
    BY DEF IInv
  <2>3. QED
    BY <2>1, <2>2
<1>3. Partly(st, node)
  BY <1>1, <1>2, LaidIsPartly
<1>4. QED
  BY <1>1, <1>3 DEF Part

LEMMA BegunStep == IInv /\ AnyInv /\ Begun /\ [Next]_vars => Begun'
<1> SUFFICES ASSUME IInv, AnyInv, Begun, [Next]_vars PROVE Begun'
  OBVIOUS
<1>1. ASSUME NEW m \in Member, Collect(m) PROVE Begun'
  BY <1>1 DEF Begun, Collect
<1>2. CASE Collected \/ ValidateStructs \/ ValidateLiterals
  BY <1>2 DEF Begun, Collected, ValidateStructs, ValidateLiterals
<1>3. CASE StructFails
  BY <1>3 DEF Begun, StructFails
<1>4. CASE Check
  BY <1>4 DEF Begun, Check
<1>5. ASSUME NEW k \in 1..Len(Layout), Store(k) PROVE Begun'
  BY <1>5 DEF Begun, Store
<1>6. ASSUME NEW k \in 1..Len(Layout), StoreFails(k) PROVE Begun'
  <2>1. phase = "layout" /\ phase' = "failed" /\ UNCHANGED <<seen, st>>
    BY <1>6 DEF StoreFails
  <2>2. Kept(st) /\ Distinct(st) /\ Alone(st) /\ NodeOK(node) /\ Laid(st, node, node.at)
    BY <2>1 DEF IInv, AnyInv
  <2>3. Partly(st, node')
    BY <1>6, <2>2, FailedIsPartly
  <2>4. Part'
    <3>1. Kept(st)' /\ Distinct(st)' /\ Alone(st)' /\ Partly(st, node)'
      BY <2>1, <2>2, <2>3
    <3>2. QED
      BY <3>1 DEF Part
  <2>5. QED
    BY <2>1, <2>4 DEF Begun
<1>7. CASE Built
  BY <1>7 DEF Begun, Built
<1>8. CASE Clear
  BY <1>8 DEF Begun, Clear
<1>9. CASE UNCHANGED vars
  <2>1. Part' <=> Part
    BY <1>9 DEF Part, vars
  <2>2. QED
    BY <1>9, <2>1 DEF Begun, vars
<1>10. QED
  BY <1>1, <1>2, <1>3, <1>4, <1>5, <1>6, <1>7, <1>8, <1>9 DEF Next

LEMMA SpecBegun == Spec => []Begun
<1>1. Init => Begun
  BY DEF Init, Begun
<1>2. QED
  BY <1>1, BegunStep, Invariance, SpecAny, PTL DEF Spec

(* TypeNode_Free and TypeNode_traverse visit each reference that a node     *)
(* holds, once and as what it is, at any moment and on the error paths too, *)
(* if no Any has a constraint of its own (TypeNode_get_traverse_ranges).    *)
THEOREM ReferencesAreReleased ==
    ASSUME NoHookOnAny
    PROVE  Spec => []ReleasesWhatItHolds
<1>1. Part => ReleasesWhatItHolds
  <2> SUFFICES ASSUME Part PROVE ReleasesWhatItHolds
    OBVIOUS
  <2>1. CASE "any" \in st.types
    BY <2>1, AnyIsReleased DEF Part
  <2>2. CASE "any" \notin st.types
    BY <2>2, PartlyIsReleased DEF Part
  <2>3. QED
    BY <2>1, <2>2
<1>2. IInv /\ AnyInv /\ Begun => ReleasesWhatItHolds
  <2> SUFFICES ASSUME IInv, AnyInv, Begun PROVE ReleasesWhatItHolds
    OBVIOUS
  <2>1. node = NoNode \/ Part
    BY LaidIsPart DEF IInv, Begun
  <2>2. QED
    BY <1>1, <2>1, NoNodeIsReleased
<1>3. QED
  BY <1>2, Invariance, SpecAny, SpecBegun, PTL

-----------------------------------------------------------------------------
(* The compiled bounds of integers.                                         *)

(* The details of an int, the parameters that set each and the bit it has.  *)
IntGroups == 2..4
Sides == <<{"pattern"}, {"gt", "ge"}, {"lt", "le"}, {"multiple_of"}>>
IntBit == <<<<"str", "pattern">>, <<"int", "min">>, <<"int", "max">>, <<"int", "multiple_of">>>>

LEMMA IntGroupsAre ==
    /\ \A g \in IntGroups : g \in CnIndex /\ CnOrder[g] = {IntBit[g]} /\ IntBit[g] \in CnDetails
    /\ \A kind, p : \A g \in IntGroups :
          kind # "int" /\ <<kind, p>> = IntBit[g] => FALSE
    /\ \A g \in IntGroups : \A p \in ParamsOf.numeric :
          CnBit("int", p) = IntBit[g] <=> p \in Sides[g]
<1>1. /\ CnOrder[2] = {IntBit[2]} /\ CnOrder[3] = {IntBit[3]} /\ CnOrder[4] = {IntBit[4]}
  BY DEF CnOrder, IntBit
<1>2. 2 \in CnIndex /\ 3 \in CnIndex /\ 4 \in CnIndex
  BY CnOrderIs
<1>3. \A g \in IntGroups : g = 2 \/ g = 3 \/ g = 4
  BY DEF IntGroups
<1>4. \A g \in IntGroups : g \in CnIndex /\ CnOrder[g] = {IntBit[g]}
  BY <1>1, <1>2, <1>3
<1>5. \A g \in IntGroups : IntBit[g] \in CnDetails
  BY <1>4 DEF CnDetails
<1>6. /\ IntBit[2] = <<"int", "min">> /\ IntBit[3] = <<"int", "max">>
      /\ IntBit[4] = <<"int", "multiple_of">>
  BY DEF IntBit
<1>7. \A kind, p : \A g \in IntGroups : kind # "int" /\ <<kind, p>> = IntBit[g] => FALSE
  BY <1>3, <1>6
<1>8. ASSUME NEW g \in IntGroups, NEW p \in ParamsOf.numeric
      PROVE  CnBit("int", p) = IntBit[g] <=> p \in Sides[g]
  <2>1. p \in {"gt", "ge", "lt", "le", "multiple_of"}
    BY DEF ParamsOf
  <2>2. Sides[2] = {"gt", "ge"} /\ Sides[3] = {"lt", "le"} /\ Sides[4] = {"multiple_of"}
    BY DEF Sides
  <2>3. /\ p \in {"gt", "ge"} => CnBit("int", p) = <<"int", "min">>
        /\ p \in {"lt", "le"} => CnBit("int", p) = <<"int", "max">>
        /\ p = "multiple_of" => CnBit("int", p) = <<"int", "multiple_of">>
    BY CnBitIs
  <2>4. CASE g = 2
    BY <1>6, <2>1, <2>2, <2>3, <2>4
  <2>5. CASE g = 3
    BY <1>6, <2>1, <2>2, <2>3, <2>5
  <2>6. CASE g = 4
    BY <1>6, <2>1, <2>2, <2>3, <2>6
  <2>7. QED
    BY <1>3, <2>4, <2>5, <2>6
<1>9. QED
  BY <1>4, <1>5, <1>7, <1>8

(* A member gives a bound to the integers of the union.                     *)
Sets(m, g) == m.type = "int" /\ m.constr # Null /\ DOMAIN m.constr.params \cap Sides[g] # {}

(* What one member does to the bounds of integers: the one it gives is      *)
(* compiled, the others stay.                                               *)
SameBounds(s, t) == t.mask = s.mask /\ t.bound = s.bound
Bounded(s, m, t) ==
    \A g \in IntGroups :
        /\ Sets(m, g) => /\ IntBit[g] \in t.mask
                         /\ \A p \in Sides[g] \cap DOMAIN m.constr.params :
                               t.bound[g] = m.constr.params[p] + Inwards(p)
        /\ ~Sets(m, g) => /\ IntBit[g] \in t.mask <=> IntBit[g] \in s.mask
                          /\ t.bound[g] = s.bound[g]

LEMMA SameBoundsAreBounded ==
    ASSUME NEW s, NEW m, NEW t, SameBounds(s, t), \A g \in IntGroups : ~Sets(m, g)
    PROVE  Bounded(s, m, t)
BY DEF SameBounds, Bounded

LEMMA IntIs ==
    /\ KindOf("int") = "int"
    /\ \A type : KindOf(type) = "int" => type = "int"
<1>1. KindOf("int") = "int"
  <2>1. /\ "int" \in {"int", "float", "str"} /\ "int" \notin BytesLike
        /\ "int" \notin {"datetime", "time"} /\ "int" # "dict" /\ "int" \notin Slot7
    BY DEF BytesLike, Slot7
  <2>2. QED
    BY <2>1, Zenon DEF KindOf
<1>2. ASSUME NEW type, type # "int" PROVE KindOf(type) # "int"
  <2>1. CASE type \in {"float", "str"}
    <3>1. type \in {"int", "float", "str"}
      BY <2>1
    <3>2. /\ type \notin BytesLike /\ type \notin {"datetime", "time"}
          /\ type # "dict" /\ type \notin Slot7
      BY <2>1 DEF BytesLike, Slot7
    <3>3. KindOf(type) = type
      BY <3>1, <3>2, Zenon DEF KindOf
    <3>4. QED
      BY <1>2, <3>3
  <2>2. CASE type \notin {"float", "str"}
    <3>1. type \notin {"int", "float", "str"}
      BY <1>2, <2>2
    <3>2. KindOf(type) \in {"bytes", "time", "map", "array", "other"}
      BY <3>1, Zenon DEF KindOf
    <3>3. QED
      BY <3>2
  <2>3. QED
    BY <2>1, <2>2
<1>3. QED
  BY <1>1, <1>2

(* A parameter of an int and its detail.                                    *)
LEMMA GroupIs ==
    ASSUME NEW params, params \subseteq ParamsOf.numeric, NEW g \in IntGroups
    PROVE  {p \in params : CnBit("int", p) \in CnOrder[g]} = Sides[g] \cap params
<1>1. CnOrder[g] = {IntBit[g]}
  BY IntGroupsAre
<1>2. \A p \in params : CnBit("int", p) = IntBit[g] <=> p \in Sides[g]
  BY IntGroupsAre
<1>3. QED
  BY <1>1, <1>2

(* No more than one parameter sets a detail.                                *)
LEMMA OneSets ==
    ASSUME NEW m \in Member, m.constr # Null, m.constr.class # "user", NEW g \in IntGroups,
           NEW p \in Sides[g] \cap DOMAIN m.constr.params,
           NEW q \in Sides[g] \cap DOMAIN m.constr.params
    PROVE  p = q
<1>1. /\ ~({"gt", "ge"} \subseteq DOMAIN m.constr.params)
      /\ ~({"lt", "le"} \subseteq DOMAIN m.constr.params)
  BY ConstantsOK
<1>2. Sides[2] = {"gt", "ge"} /\ Sides[3] = {"lt", "le"} /\ Sides[4] = {"multiple_of"}
  BY DEF Sides
<1>3. g = 2 \/ g = 3 \/ g = 4
  BY DEF IntGroups
<1>4. QED
  BY <1>1, <1>2, <1>3

(* A compiled constraint sets the bounds that its parameters give.          *)
LEMMA CompileBounds ==
    ASSUME NEW s, StateOK(s), NEW m \in Member, m.constr # Null, m.constr.class # "user",
           NEW t, t = Compile(s, m.constr, KindOf(m.type)), t.ok
    PROVE  Bounded(s, m, t)
<1>1. PICK c : c = m.constr
  OBVIOUS
<1>2. PICK kind : kind = KindOf(m.type)
  OBVIOUS
<1>3. /\ c.class \in DOMAIN ParamsOf
      /\ DOMAIN c.params \subseteq ParamsOf[c.class]
  BY <1>1, ConstantsOK
<1>4. PICK params : params = DOMAIN c.params
  OBVIOUS
<1> DEFINE value(p) == c.params[p] + Inwards(p)
           group(k) == {p \in params : CnBit(kind, p) \in CnOrder[k]}
           mask == s.mask \cup {CnBit(kind, p) : p \in params}
           bound == [k \in CnIndex |-> IF group(k) = {} THEN s.bound[k]
                                       ELSE value(CHOOSE p \in group(k) : TRUE)]
<1>5. \/ kind \notin AppliesTo(c.class) /\ params = {} /\ t = s
      \/ t = Refuse(s)
      \/ kind \in AppliesTo(c.class) /\ t = [s EXCEPT !.mask = mask, !.bound = bound]
  BY <1>1, <1>2, <1>4 DEF Compile
<1>6. t # Refuse(s)
  BY DEF Refuse, StateOK, Fields
<1>7. CASE params = {} /\ t = s
  BY <1>1, <1>4, <1>7, SameBoundsAreBounded DEF SameBounds, Sets
<1>8. CASE kind \in AppliesTo(c.class) /\ t = [s EXCEPT !.mask = mask, !.bound = bound]
  <2>1. s = [i \in Fields |-> s[i]]
    BY DEF StateOK
  <2>2. t.mask = mask /\ t.bound = bound
    <3> HIDE DEF mask, bound
    <3>1. QED
      BY <1>8, <2>1 DEF Fields
  <2>3. CASE kind = "int"
    <3>1. m.type = "int"
      BY <1>2, <2>3, IntIs
    <3>2. params \subseteq ParamsOf.numeric
      <4>1. c.class \in {"numeric", "str", "bytes", "collection", "tz"}
        BY <1>3 DEF ParamsOf
      <4>2. c.class = "numeric"
        BY <1>8, <2>3, <4>1, AppliesToIs
      <4>3. QED
        BY <1>3, <1>4, <4>2
    <3>3. SUFFICES ASSUME NEW g \in IntGroups
                   PROVE  /\ Sets(m, g) =>
                                /\ IntBit[g] \in t.mask
                                /\ \A p \in Sides[g] \cap DOMAIN m.constr.params :
                                      t.bound[g] = m.constr.params[p] + Inwards(p)
                          /\ ~Sets(m, g) => /\ IntBit[g] \in t.mask <=> IntBit[g] \in s.mask
                                            /\ t.bound[g] = s.bound[g]
      BY DEF Bounded
    <3>4. group(g) = Sides[g] \cap params
      BY <2>3, <3>2, GroupIs
    <3>5. \A p \in params : CnBit(kind, p) = IntBit[g] <=> p \in Sides[g]
      BY <2>3, <3>2, IntGroupsAre
    <3>6. Sets(m, g) <=> Sides[g] \cap params # {}
      BY <1>1, <1>4, <3>1 DEF Sets
    <3>7. g \in CnIndex
      BY IntGroupsAre
    <3>8. t.bound[g] = IF group(g) = {} THEN s.bound[g] ELSE value(CHOOSE p \in group(g) : TRUE)
      BY <2>2, <3>7
    <3>9. IntBit[g] \in t.mask <=> IntBit[g] \in s.mask \/ Sides[g] \cap params # {}
      BY <2>2, <3>5
    <3>10. ASSUME NEW p \in Sides[g] \cap params
           PROVE  t.bound[g] = m.constr.params[p] + Inwards(p)
      <4>1. PICK q : q = CHOOSE r \in group(g) : TRUE
        OBVIOUS
      <4>2. q \in group(g)
        BY <3>4, <3>10, <4>1
      <4>3. q = p
        BY <1>1, <1>4, <3>4, <3>10, <4>2, OneSets
      <4>4. t.bound[g] = value(q)
        BY <3>4, <3>8, <3>10, <4>1
      <4>5. QED
        BY <1>1, <4>3, <4>4
    <3> HIDE DEF group, value, mask, bound
    <3>11. QED
      BY <1>1, <1>4, <3>4, <3>6, <3>8, <3>9, <3>10
  <2>4. CASE kind # "int"
    <3>1. m.type # "int"
      BY <1>2, <2>4, IntIs
    <3>2. ASSUME NEW g \in IntGroups
          PROVE  /\ IntBit[g] \in t.mask <=> IntBit[g] \in s.mask
                 /\ t.bound[g] = s.bound[g]
      <4>1. \A p : CnBit(kind, p) # IntBit[g]
        BY <2>4, CnBitIs, IntGroupsAre
      <4>2. CnOrder[g] = {IntBit[g]} /\ g \in CnIndex
        BY IntGroupsAre
      <4>3. group(g) = {}
        BY <4>1, <4>2
      <4>4. t.bound[g] = s.bound[g]
        BY <2>2, <4>2, <4>3
      <4>5. IntBit[g] \in t.mask <=> IntBit[g] \in s.mask
        BY <2>2, <4>1
      <4>6. QED
        BY <4>4, <4>5
    <3>3. QED
      BY <3>1, <3>2 DEF Bounded, Sets
  <2>5. QED
    BY <2>3, <2>4
<1>9. QED
  BY <1>5, <1>6, <1>7, <1>8

(* The rest of what is collected of a member leaves the bounds alone.       *)
LEMMA TypeKeepsBounds ==
    ASSUME NEW s, StateOK(s), NEW m \in Member, m.type # "any",
           NEW t, t = CollectType(s, m)
    PROVE  SameBounds(s, t)
<1>1. s = [i \in Fields |-> s[i]]
  BY DEF StateOK
<1>2. CASE t = [s EXCEPT !.types = @ \cup {m.type}]
  BY <1>1, <1>2 DEF SameBounds, Fields
<1>3. CASE t = CollectStruct(s, m)
  BY <1>1, <1>3 DEF SameBounds, Fields, CollectStruct
<1>4. CASE t = [s EXCEPT !.literals = @ \cup m.obj]
  BY <1>1, <1>4 DEF SameBounds, Fields
<1>5. CASE t = CollectObject(s, m)
  <2>1. PICK slot : slot = SlotOf(m.type)
    OBVIOUS
  <2>2. PICK types : types = s.types \cup Bits(m.type)
    OBVIOUS
  <2>3. \/ t = s \/ t = Refuse(s)
        \/ t = With(s, types, slot, m.obj)
    BY <1>5, <2>1, <2>2 DEF CollectObject, With
  <2>4. CASE t = Refuse(s)
    BY <1>1, <2>4 DEF SameBounds, Fields, Refuse
  <2>5. CASE t = With(s, types, slot, m.obj)
    BY <1>1, <2>5 DEF SameBounds, Fields, With
  <2>6. QED
    BY <2>3, <2>4, <2>5 DEF SameBounds
<1>6. QED
  BY <1>2, <1>3, <1>4, <1>5, CollectTypeIs

LEMMA SerializerKeepsBounds ==
    ASSUME NEW s, StateOK(s), NEW m \in Member, NEW t, t = CollectSerializer(s, m)
    PROVE  SameBounds(s, t)
<1>1. s = [i \in Fields |-> s[i]]
  BY DEF StateOK
<1>2. \/ t = s \/ t = Refuse(s)
      \/ t = With(s, s.types \cup {"codec"}, "codec", m.codec)
  BY DEF CollectSerializer, With
<1>3. CASE t = Refuse(s)
  BY <1>1, <1>3 DEF SameBounds, Fields, Refuse
<1>4. CASE t = With(s, s.types \cup {"codec"}, "codec", m.codec)
  BY <1>1, <1>4 DEF SameBounds, Fields, With
<1>5. QED
  BY <1>2, <1>3, <1>4 DEF SameBounds

LEMMA ConstraintBounds ==
    ASSUME NEW s, StateOK(s), s.ok, NEW m \in Member, NEW t, t = CollectConstraint(s, m), t.ok
    PROVE  Bounded(s, m, t)
<1>1. CASE m.constr = Null
  <2>1. t = s
    BY <1>1 DEF CollectConstraint
  <2>2. QED
    BY <1>1, <2>1, SameBoundsAreBounded DEF SameBounds, Sets
<1>2. CASE m.constr # Null /\ m.constr.class = "user"
  <2>1. t = With(s, s.types \cup {"user"}, "user", m.constr.class)
    BY <1>2 DEF CollectConstraint, With
  <2>2. SameBounds(s, t)
    <3>1. s = [i \in Fields |-> s[i]]
      BY DEF StateOK
    <3>2. QED
      BY <2>1, <3>1 DEF SameBounds, Fields, With
  <2>3. DOMAIN m.constr.params = {}
    BY <1>2, ConstantsOK
  <2>4. QED
    BY <2>2, <2>3, SameBoundsAreBounded DEF Sets
<1>3. CASE m.constr # Null /\ m.constr.class # "user"
  <2>1. t = Compile(s, m.constr, KindOf(m.type))
    BY <1>3 DEF CollectConstraint
  <2>2. QED
    BY <1>3, <2>1, CompileBounds
<1>4. QED
  BY <1>1, <1>2, <1>3

LEMMA MemberBounds ==
    ASSUME NEW s, Good(s), s.ok, "any" \notin s.types, NEW m \in Member, m.type # "any",
           NEW t, t = CollectMember(s, m), t.ok
    PROVE  Bounded(s, m, t)
<1>1. t # Refuse(s)
  BY DEF Good, StateOK, Refuse, Fields
<1>2. PICK u : u = CollectType(s, m)
  OBVIOUS
<1>3. u.ok /\ t = CollectConstraint(CollectSerializer(u, m), m)
  BY <1>1, <1>2 DEF CollectMember
<1>4. Good(u) /\ SameBounds(s, u)
  BY <1>2, CollectTypeIsGood, TypeKeepsBounds DEF Good
<1>5. PICK v : v = CollectSerializer(u, m)
  OBVIOUS
<1>6. Good(v) /\ SameBounds(u, v)
  BY <1>3, <1>4, <1>5, CollectSerializerIsGood, SerializerKeepsBounds DEF Good
<1>7. t = CollectConstraint(v, m)
  BY <1>3, <1>5
<1>8. v.ok
  BY <1>7 DEF CollectConstraint
<1>9. Bounded(v, m, t)
  BY <1>6, <1>7, <1>8, ConstraintBounds DEF Good
<1>10. QED
  BY <1>4, <1>6, <1>9 DEF Bounded, SameBounds

(* The members that give a bound, and the last of them.                     *)
Setting(q, g) == {k \in 1..Len(q) : Sets(q[k], g)}
IsLast(k, q, g) == k \in Setting(q, g) /\ \A j \in Setting(q, g) : j <= k

(* The bounds in force are those of the last member that gives any.         *)
LastDecides(s, q) ==
    \A g \in IntGroups :
        /\ Setting(q, g) = {} <=> IntBit[g] \notin s.mask
        /\ Setting(q, g) # {} => \E k \in Setting(q, g) : IsLast(k, q, g)
        /\ \A k \in Setting(q, g) : IsLast(k, q, g) =>
              \A p \in Sides[g] \cap DOMAIN q[k].constr.params :
                  s.bound[g] = q[k].constr.params[p] + Inwards(p)

BoundsInv ==
    phase \in {"collect", "structs", "literals", "check", "layout", "done"} /\ NoAny =>
        LastDecides(st, seen)

LEMMA NextDecides ==
    ASSUME NEW s, NEW q \in Seq(Member), LastDecides(s, q), NEW m \in Member,
           NEW t, Bounded(s, m, t)
    PROVE  LastDecides(t, Append(q, m))
<1>1. PICK r : r = Append(q, m)
  OBVIOUS
<1>2. PICK n : n = Len(q)
  OBVIOUS
<1>3. /\ n \in Nat /\ Len(r) = n + 1 /\ r[n + 1] = m
      /\ \A k \in 1..n : r[k] = q[k]
  BY <1>1, <1>2
<1>4. SUFFICES ASSUME NEW g \in IntGroups
               PROVE  /\ Setting(r, g) = {} <=> IntBit[g] \notin t.mask
                      /\ Setting(r, g) # {} => \E k \in Setting(r, g) : IsLast(k, r, g)
                      /\ \A k \in Setting(r, g) : IsLast(k, r, g) =>
                            \A p \in Sides[g] \cap DOMAIN r[k].constr.params :
                                t.bound[g] = r[k].constr.params[p] + Inwards(p)
  BY <1>1, ZenonT(60) DEF LastDecides
<1>5. Setting(r, g) = Setting(q, g) \cup (IF Sets(m, g) THEN {n + 1} ELSE {})
  <2>1. 1..Len(r) = 1..n \cup {n + 1}
    BY <1>3
  <2>2. \A k \in 1..n : Sets(r[k], g) <=> Sets(q[k], g)
    BY <1>3
  <2>3. Setting(r, g) = {k \in 1..n : Sets(r[k], g)} \cup {k \in {n + 1} : Sets(m, g)}
    BY <1>3, <2>1 DEF Setting
  <2>4. {k \in 1..n : Sets(r[k], g)} = Setting(q, g)
    BY <1>2, <2>2 DEF Setting
  <2>5. QED
    BY <2>3, <2>4
<1>6. \A k \in Setting(q, g) : k \in 1..n /\ r[k] = q[k]
  BY <1>2, <1>3 DEF Setting
<1>7. CASE Sets(m, g)
  <2>1. IntBit[g] \in t.mask /\ \A p \in Sides[g] \cap DOMAIN m.constr.params :
                                   t.bound[g] = m.constr.params[p] + Inwards(p)
    BY <1>7 DEF Bounded
  <2>2. n + 1 \in Setting(r, g) /\ \A j \in Setting(r, g) : j <= n + 1
    BY <1>3, <1>5, <1>6, <1>7
  <2>3. \A k \in Setting(r, g) : IsLast(k, r, g) => k = n + 1
    BY <1>3, <1>5, <1>6, <2>2 DEF IsLast
  <2>4. IsLast(n + 1, r, g)
    BY <2>2 DEF IsLast
  <2>5. QED
    BY <1>3, <2>1, <2>2, <2>3, <2>4
<1>8. CASE ~Sets(m, g)
  <2>1. Setting(r, g) = Setting(q, g)
    BY <1>5, <1>8
  <2>2. (IntBit[g] \in t.mask <=> IntBit[g] \in s.mask) /\ t.bound[g] = s.bound[g]
    BY <1>8 DEF Bounded
  <2>3. \A k : IsLast(k, r, g) <=> IsLast(k, q, g)
    BY <2>1 DEF IsLast
  <2>4. QED
    BY <1>6, <2>1, <2>2, <2>3 DEF LastDecides
<1>9. QED
  BY <1>7, <1>8

LEMMA SameDecides ==
    ASSUME NEW s, NEW q, NEW t, LastDecides(s, q), SameBounds(s, t)
    PROVE  LastDecides(t, q)
BY DEF LastDecides, SameBounds

LEMMA NobodyDecides == LastDecides(Cleared, <<>>)
<1>1. Cleared.mask = {}
  BY ClearedIsGood DEF Cleared
<1>2. \A g \in IntGroups : Setting(<<>>, g) = {}
  BY DEF Setting
<1>3. QED
  BY <1>1, <1>2 DEF LastDecides

LEMMA StructsKeepBounds ==
    ASSUME StateOK(st), ValidateStructs
    PROVE  SameBounds(st, st')
<1>1. st = [i \in Fields |-> st[i]]
  BY DEF StateOK
<1>3. CASE st' = st
  BY <1>3 DEF SameBounds
<1>4. ASSUME NEW types, NEW slot, NEW x, st' = With(st, types, slot, x)
      PROVE  SameBounds(st, st')
  BY <1>1, <1>4 DEF SameBounds, Fields, With
<1>5. \/ st' = st
      \/ \E types, slot, x : st' = With(st, types, slot, x)
  BY DEF ValidateStructs, With
<1>6. QED
  BY <1>3, <1>4, <1>5

LEMMA LiteralsKeepBounds ==
    ASSUME StateOK(st), ValidateLiterals
    PROVE  SameBounds(st, st')
<1>1. st = [i \in Fields |-> st[i]]
  BY DEF StateOK
<1>2. PICK types, x, y :
         st' = [st EXCEPT !.types = types, !.obj["intliteral"] = x, !.obj["strliteral"] = y]
  BY DEF ValidateLiterals
<1>3. QED
  BY <1>1, <1>2 DEF SameBounds, Fields

LEMMA CheckKeepsBounds ==
    ASSUME StateOK(st), Check
    PROVE  SameBounds(st, st')
<1>1. st = [i \in Fields |-> st[i]]
  BY DEF StateOK
<1>2. st' = st \/ st' = DropLiterals(st)
  BY DEF Check
<1>3. PICK types, obj : DropLiterals(st) = [st EXCEPT !.types = types, !.obj = obj]
  BY DEF DropLiterals
<1>4. QED
  BY <1>1, <1>2, <1>3 DEF SameBounds, Fields

LEMMA BoundsStep == IInv /\ AnyInv /\ BoundsInv /\ [Next]_vars => BoundsInv'
<1> SUFFICES ASSUME IInv, AnyInv, BoundsInv, [Next]_vars PROVE BoundsInv'
  OBVIOUS
<1>1. ASSUME NEW m \in Member, Collect(m) PROVE BoundsInv'
  <2> SUFFICES ASSUME phase' # "refused", NoAny' PROVE LastDecides(st, seen)'
    BY DEF BoundsInv
  <2>1. /\ Good(st) /\ st.ok /\ ("any" \in st.types <=> ~NoAny) /\ seen \in Seq(Member)
        /\ NoAny => LastDecides(st, seen)
    BY <1>1 DEF IInv, AnyInv, Collect, BoundsInv
  <2>2. PICK t : t = CollectMember(st, m)
    OBVIOUS
  <2>3. st' = t /\ phase' = (IF t.ok THEN "collect" ELSE "refused") /\ seen' = Append(seen, m)
    BY <1>1, <2>2 DEF Collect
  <2>4. NoAny' <=> (NoAny /\ m.type # "any")
    BY <2>1, <2>3, SeenGrows
  <2>5. t.ok
    BY <2>3
  <2>6. Bounded(st, m, t)
    BY <2>1, <2>2, <2>4, <2>5, MemberBounds
  <2>7. LastDecides(t, Append(seen, m))
    BY <2>1, <2>4, <2>6, NextDecides
  <2>8. QED
    BY <2>3, <2>7
<1>2. ASSUME UNCHANGED seen, SameBounds(st, st'),
             phase \in {"collect", "structs", "literals", "check", "layout", "done"}
      PROVE  BoundsInv'
  BY <1>2, SameDecides DEF BoundsInv, NoAny, SeenMembers
<1>3. CASE Collected \/ StructFails \/ Built \/ \E k \in 1..Len(Layout) : Store(k) \/ StoreFails(k)
  <2>1. /\ UNCHANGED <<seen, st>>
        /\ phase \in {"collect", "structs", "literals", "check", "layout", "done"}
    BY <1>3 DEF Collected, StructFails, Built, Store, StoreFails
  <2>2. QED
    BY <1>2, <2>1 DEF SameBounds
<1>4. CASE ValidateStructs
  <2>1. StateOK(st) /\ UNCHANGED seen
    BY <1>4 DEF IInv, ValidateStructs
  <2>2. SameBounds(st, st')
    BY <1>4, <2>1, StructsKeepBounds
  <2>3. QED
    BY <1>2, <1>4, <2>1, <2>2 DEF ValidateStructs
<1>5. CASE ValidateLiterals
  <2>1. StateOK(st) /\ UNCHANGED seen
    BY <1>5 DEF IInv, ValidateLiterals
  <2>2. SameBounds(st, st')
    BY <1>5, <2>1, LiteralsKeepBounds
  <2>3. QED
    BY <1>2, <1>5, <2>1, <2>2 DEF ValidateLiterals
<1>6. CASE Check
  <2>1. StateOK(st) /\ UNCHANGED seen
    BY <1>6 DEF IInv, Check
  <2>2. SameBounds(st, st')
    BY <1>6, <2>1, CheckKeepsBounds
  <2>3. QED
    BY <1>2, <1>6, <2>1, <2>2 DEF Check
<1>7. CASE Clear
  <2>1. st' = Cleared /\ seen' = <<>>
    BY <1>7 DEF Clear
  <2>2. QED
    BY <2>1, NobodyDecides DEF BoundsInv
<1>8. CASE UNCHANGED vars
  BY <1>8 DEF vars, BoundsInv, NoAny, SeenMembers
<1>9. QED
  BY <1>1, <1>3, <1>4, <1>5, <1>6, <1>7, <1>8 DEF Next

LEMMA SpecBounds == Spec => []BoundsInv
<1>1. Init => BoundsInv
  BY NobodyDecides DEF Init, BoundsInv
<1>2. QED
  BY <1>1, BoundsStep, Invariance, SpecAny, PTL DEF Spec

(* The reader of an int's bound finds it whatever the floats are bounded by: *)
(* their details come after it.                                             *)
LEMMA BoundIsRead ==
    ASSUME Kept(st), Distinct(st), Laid(st, node, 17), NEW g \in IntGroups,
           IntBit[g] \in st.mask
    PROVE  DetailAt(ConstraintOffset(node.types)).of[CnOffset(st.mask, IntBit[g]) + 1]
             = st.bound[g]
<1>1. PICK b : b = IntBit[g]
  OBVIOUS
<1>2. b \in st.mask \cap CnDetails /\ g \in CnIndex /\ b \in CnOrder[g]
  BY <1>1, IntGroupsAre
<1>3. CnGroup(b) = g
  <2>1. CnGroup(b) \in CnIndex /\ b \in CnOrder[CnGroup(b)]
    BY <1>2 DEF CnGroup
  <2>2. QED
    BY <1>2, <2>1, GroupsAreDisjoint
<1>4. OneBitUpTo(st.mask, g - 1)
  <2>1. /\ CnOrder[1] = {<<"str", "pattern">>}
        /\ CnOrder[2] = {<<"int", "min">>}
        /\ CnOrder[3] = {<<"int", "max">>}
    BY DEF CnOrder
  <2>2. \A k \in 1..g - 1 : k = 1 \/ k = 2 \/ k = 3
    BY DEF IntGroups
  <2>3. QED
    BY <2>1, <2>2 DEF OneBitUpTo
<1>5. OneBitUpTo(st.mask, CnGroup(b) - 1)
  BY <1>3, <1>4
<1>6. CnPacked(st)[CnOffset(st.mask, b) + 1] = st.bound[g]
  BY <1>2, <1>3, <1>5, ConstraintIsFound
<1>7. "constr" \in node.types
  BY <1>2 DEF Laid, NodeTypes
<1>8. DetailAt(ConstraintOffset(node.types)) = Detail("cn", CnPacked(st))
  BY <1>7, ConstraintsArePacked
<1>9. DetailAt(ConstraintOffset(node.types)).of = CnPacked(st)
  BY <1>8 DEF Detail
<1>10. QED
  BY <1>1, <1>6, <1>9

LEMMA AcceptsAre ==
    /\ \A bound, n : Accepts("ge", bound, n) <=> n >= bound
    /\ \A bound, n : Accepts("gt", bound, n) <=> n > bound
    /\ \A bound, n : Accepts("le", bound, n) <=> n <= bound
    /\ \A bound, n : Accepts("lt", bound, n) <=> n < bound
<1>1. /\ "ge" # "gt" /\ "ge" # "le" /\ "ge" # "lt" /\ "ge" # "multiple_of"
      /\ "gt" # "le" /\ "gt" # "lt" /\ "gt" # "multiple_of"
      /\ "le" # "lt" /\ "le" # "multiple_of" /\ "lt" # "multiple_of"
  OBVIOUS
<1>2. \A bound, n : Accepts("ge", bound, n) <=> n >= bound
  BY <1>1, Zenon DEF Accepts
<1>3. \A bound, n : Accepts("gt", bound, n) <=> n > bound
  BY <1>1, Zenon DEF Accepts
<1>4. \A bound, n : Accepts("le", bound, n) <=> n <= bound
  BY <1>1, Zenon DEF Accepts
<1>5. \A bound, n : Accepts("lt", bound, n) <=> n < bound
  BY <1>1, Zenon DEF Accepts
<1>6. QED
  BY <1>2, <1>3, <1>4, <1>5

LEMMA InwardsAre ==
    /\ Inwards("gt") = 1 /\ Inwards("lt") = -1
    /\ Inwards("ge") = 0 /\ Inwards("le") = 0 /\ Inwards("multiple_of") = 0
<1>1. /\ "gt" # "lt" /\ "ge" # "gt" /\ "ge" # "lt" /\ "le" # "gt" /\ "le" # "lt"
      /\ "multiple_of" # "gt" /\ "multiple_of" # "lt"
  OBVIOUS
<1>2. QED
  BY <1>1, Zenon DEF Inwards

(* The test that a compiled bound is put to.                                *)
As == <<"pattern", "ge", "le", "multiple_of">>

LEMMA CompiledIsExact ==
    ASSUME NEW g \in IntGroups, NEW p \in Sides[g], NEW b \in Int, NEW n \in Int
    PROVE  Accepts(As[g], b + Inwards(p), n) <=> Accepts(p, b, n)
<1>1. /\ Sides[2] = {"gt", "ge"} /\ Sides[3] = {"lt", "le"} /\ Sides[4] = {"multiple_of"}
      /\ As[2] = "ge" /\ As[3] = "le" /\ As[4] = "multiple_of"
  BY DEF Sides, As
<1>2. CASE g = 2
  <2>1. CASE p = "gt"
    <3>1. Inwards(p) = 1 /\ (Accepts(p, b, n) <=> n > b)
      BY <2>1, AcceptsAre, InwardsAre
    <3>2. Accepts(As[g], b + 1, n) <=> n >= b + 1
      BY <1>1, <1>2, AcceptsAre
    <3>3. n >= b + 1 <=> n > b
      OBVIOUS
    <3>4. QED
      BY <3>1, <3>2, <3>3
  <2>2. CASE p = "ge"
    <3>1. b + Inwards(p) = b
      BY <2>2, InwardsAre
    <3>2. QED
      BY <1>1, <1>2, <2>2, <3>1
  <2>3. QED
    BY <1>1, <1>2, <2>1, <2>2
<1>3. CASE g = 3
  <2>1. CASE p = "lt"
    <3>1. Inwards(p) = -1 /\ (Accepts(p, b, n) <=> n < b)
      BY <2>1, AcceptsAre, InwardsAre
    <3>2. Accepts(As[g], b + -1, n) <=> n <= b + -1
      BY <1>1, <1>3, AcceptsAre
    <3>3. n <= b + -1 <=> n < b
      OBVIOUS
    <3>4. QED
      BY <3>1, <3>2, <3>3
  <2>2. CASE p = "le"
    <3>1. b + Inwards(p) = b
      BY <2>2, InwardsAre
    <3>2. QED
      BY <1>1, <1>3, <2>2, <3>1
  <2>3. QED
    BY <1>1, <1>3, <2>1, <2>2
<1>4. CASE g = 4
  <2>1. p = "multiple_of"
    BY <1>1, <1>4
  <2>2. b + Inwards(p) = b
    BY <2>1, InwardsAre
  <2>3. QED
    BY <1>1, <1>4, <2>1, <2>2
<1>5. QED
  BY <1>2, <1>3, <1>4 DEF IntGroups

(* The bit of a side and its test, as BoundsAreExact names them.            *)
LEMMA SideIs ==
    ASSUME NEW side \in {{"gt", "ge"}, {"lt", "le"}, {"multiple_of"}}
    PROVE  LET bit == CnBit("int", CHOOSE q \in side : TRUE)
               as  == CASE bit[2] = "min" -> "ge" [] bit[2] = "max" -> "le"
                        [] OTHER -> "multiple_of"
           IN  \E g \in IntGroups : Sides[g] = side /\ bit = IntBit[g] /\ As[g] = as
<1>1. /\ Sides[2] = {"gt", "ge"} /\ Sides[3] = {"lt", "le"} /\ Sides[4] = {"multiple_of"}
      /\ As[2] = "ge" /\ As[3] = "le" /\ As[4] = "multiple_of"
      /\ IntBit[2][2] = "min" /\ IntBit[3][2] = "max" /\ IntBit[4][2] = "multiple_of"
  BY DEF Sides, As, IntBit
<1>2. 2 \in IntGroups /\ 3 \in IntGroups /\ 4 \in IntGroups
  BY DEF IntGroups
<1>3. PICK g \in IntGroups : Sides[g] = side
  BY <1>1, <1>2
<1>4. PICK q : q = CHOOSE r \in side : TRUE
  OBVIOUS
<1>5. q \in side
  BY <1>4
<1>6. q \in ParamsOf.numeric
  BY <1>5 DEF ParamsOf
<1>7. CnBit("int", q) = IntBit[g]
  BY <1>3, <1>5, <1>6, IntGroupsAre
<1>8. As[g] = CASE IntBit[g][2] = "min" -> "ge" [] IntBit[g][2] = "max" -> "le"
                [] OTHER -> "multiple_of"
  <2>1. PICK w : w = IntBit[g][2]
    OBVIOUS
  <2>2. \/ w = "min" /\ As[g] = "ge"
        \/ w = "max" /\ As[g] = "le"
        \/ w = "multiple_of" /\ As[g] = "multiple_of"
    BY <1>1, <2>1 DEF IntGroups
  <2>3. "min" # "max" /\ "multiple_of" # "min" /\ "multiple_of" # "max"
    OBVIOUS
  <2> DEFINE test(x) == CASE x = "min" -> "ge" [] x = "max" -> "le" [] OTHER -> "multiple_of"
  <2>4. test("min") = "ge" /\ test("max") = "le" /\ test("multiple_of") = "multiple_of"
    BY <2>3, Zenon
  <2>5. As[g] = test(w)
    <3> HIDE DEF test
    <3>1. QED
      BY <2>2, <2>4
  <2>6. QED
    BY <2>1, <2>5
<1>9. QED
  BY <1>3, <1>4, <1>7, <1>8, Zenon

(* A finished union of any members accepts exactly the integers that the    *)
(* last member with a bound on that side does (typenode_collect_constraints *)
(* and the readers of ConstraintNode).                                      *)
THEOREM BoundsCompileExactly == Spec => []BoundsAreExact
<1>1. IInv /\ BoundsInv => BoundsAreExact
  <2> SUFFICES ASSUME IInv, BoundsInv, phase = "done", NoAny,
                      NEW side \in {{"gt", "ge"}, {"lt", "le"}, {"multiple_of"}}
               PROVE  LET setting == {k \in 1..Len(seen) :
                              /\ seen[k].type = "int"
                              /\ seen[k].constr # Null
                              /\ DOMAIN seen[k].constr.params \cap side # {}}
                          last == CHOOSE k \in setting : \A j \in setting : j <= k
                          p    == CHOOSE p \in side : p \in DOMAIN seen[last].constr.params
                          bit  == CnBit("int", CHOOSE q \in side : TRUE)
                          cn   == DetailAt(ConstraintOffset(node.types)).of
                          compiled == cn[CnOffset(st.mask, bit) + 1]
                          as   == CASE bit[2] = "min" -> "ge" [] bit[2] = "max" -> "le"
                                    [] OTHER -> "multiple_of"
                      IN  /\ setting = {} <=> bit \notin st.mask
                          /\ setting # {} => \A n \in (-MaxInt - 1)..MaxInt :
                                Accepts(as, compiled, n)
                                  <=> Accepts(p, seen[last].constr.params[p], n)
    BY DEF BoundsAreExact
  <2> DEFINE setting == {k \in 1..Len(seen) : /\ seen[k].type = "int"
                                              /\ seen[k].constr # Null
                                              /\ DOMAIN seen[k].constr.params \cap side # {}}
             last == CHOOSE k \in setting : \A j \in setting : j <= k
             p    == CHOOSE p \in side : p \in DOMAIN seen[last].constr.params
             bit  == CnBit("int", CHOOSE q \in side : TRUE)
             compiled == DetailAt(ConstraintOffset(node.types)).of[CnOffset(st.mask, bit) + 1]
             as   == CASE bit[2] = "min" -> "ge" [] bit[2] = "max" -> "le"
                       [] OTHER -> "multiple_of"
  <2>1. /\ Kept(st) /\ Distinct(st) /\ Laid(st, node, 17) /\ seen \in Seq(Member)
        /\ LastDecides(st, seen)
    BY DEF IInv, BoundsInv
  <2>2. PICK g \in IntGroups : Sides[g] = side /\ bit = IntBit[g] /\ As[g] = as
    BY SideIs, Zenon
  <2>3. setting = Setting(seen, g)
    BY <2>2 DEF Setting, Sets
  <2>4. setting = {} <=> bit \notin st.mask
    BY <2>1, <2>2, <2>3 DEF LastDecides
  <2>5. ASSUME setting # {}, NEW n \in (-MaxInt - 1)..MaxInt
        PROVE  Accepts(as, compiled, n) <=> Accepts(p, seen[last].constr.params[p], n)
    <3>1. \E k \in setting : \A j \in setting : j <= k
      BY <2>1, <2>3, <2>5 DEF LastDecides, IsLast
    <3>2. last \in setting /\ \A j \in setting : j <= last
      BY <3>1
    <3>3. IsLast(last, seen, g)
      BY <2>3, <3>2 DEF IsLast
    <3>4. p \in side /\ p \in DOMAIN seen[last].constr.params
      BY <3>2
    <3>5. seen[last] \in Member /\ seen[last].constr # Null
      <4>1. last \in 1..Len(seen) /\ seen[last].constr # Null
        BY <3>2
      <4> HIDE DEF p, last, setting
      <4>2. QED
        BY <2>1, <4>1
    <3>6. seen[last].constr.params[p] \in Int
      <4>1. PICK m \in Member : m = seen[last]
        BY <3>5
      <4>2. m.constr # Null /\ p \in DOMAIN m.constr.params
        BY <3>4, <3>5, <4>1
      <4>3. m.constr.class # "user"
        BY <4>2, ConstantsOK
      <4> HIDE DEF p, last, setting
      <4>4. QED
        BY <4>1, <4>2, <4>3, ConstantsOK
    <3>7. st.bound[g] = seen[last].constr.params[p] + Inwards(p)
      <4>1. last \in Setting(seen, g)
        BY <2>3, <3>2
      <4>2. p \in Sides[g] \cap DOMAIN seen[last].constr.params
        BY <2>2, <3>4
      <4> HIDE DEF p, last, setting
      <4>3. QED
        BY <2>1, <3>3, <4>1, <4>2 DEF LastDecides
    <3>8. compiled = st.bound[g]
      <4>1. IntBit[g] \in st.mask
        BY <2>2, <2>4, <2>5
      <4>2. DetailAt(ConstraintOffset(node.types)).of[CnOffset(st.mask, IntBit[g]) + 1]
              = st.bound[g]
        BY <2>1, <4>1, BoundIsRead
      <4> HIDE DEF bit
      <4>3. QED
        BY <2>2, <4>2
    <3>9. n \in Int
      BY <2>5, ConstantsOK
    <3> HIDE DEF compiled, as, p, last, setting
    <3>10. Accepts(as, compiled, n) <=> Accepts(p, seen[last].constr.params[p], n)
      <4>1. PICK b \in Int : b = seen[last].constr.params[p]
        BY <3>6
      <4>2. PICK r \in Sides[g] : r = p
        BY <2>2, <3>4
      <4>3. Accepts(As[g], b + Inwards(r), n) <=> Accepts(r, b, n)
        BY <3>9, CompiledIsExact
      <4>4. QED
        BY <2>2, <3>7, <3>8, <4>1, <4>2, <4>3
    <3>11. QED
      BY <3>10
  <2>6. QED
    BY <2>4, <2>5
<1>2. QED
  BY <1>1, Invariance, SpecBounds, PTL

-----------------------------------------------------------------------------
(* The restrictions on unions, one family of types at a time.               *)

Of(S, T)    == {m \in S : m.type \in T}
Classes(S)  == {m.obj : m \in Of(S, {"struct"})}
Values(S)   == UNION {m.obj : m \in Of(S, {"literal"})}
Ints(S)     == Values(S) \cap IntLiterals
Strs(S)     == Values(S) \ (IntLiterals \cup {"none", "true", "false"})
Customs     == {"custom", "customgeneric"}
ObjectKinds == {"dict", "typeddict", "dataclass"}
ArrayKinds  == Slot7 \cup {"fixtuple", "namedtuple"}
TextKinds   == StrLike \ {"enum", "path", "ip"}
ObjectsOf(S, T) == {m.obj : m \in Of(S, T)}
TypesOf(S, T)   == {m.type : m \in Of(S, T)}

CustomsFit(S) ==
    Of(S, Customs) # {} => /\ Cardinality(Of(S, Customs)) = 1
                           /\ \A m \in S \ Of(S, Customs) : IsNone(m)
NumbersFit(S) ==
    Cardinality(Of(S, {"intenum"})) + One(Of(S, {"int"}) # {} \/ Ints(S) # {}) <= 1
TextsFit(S) ==
    Cardinality(Of(S, {"enum"})) + Cardinality(ObjectsOf(S, {"path"}))
      + Cardinality(ObjectsOf(S, {"ip"})) + Cardinality(TypesOf(S, TextKinds))
      + One(Strs(S) # {} /\ Of(S, {"str"}) = {}) <= 1
ObjectsFit(S) ==
    Cardinality(Of(S, ObjectKinds)) + One(Classes(S) \ ArrayLike # {}) <= 1
ArraysFit(S) ==
    Cardinality(Of(S, ArrayKinds)) + One(Classes(S) \cap ArrayLike # {}) <= 1
TagsFit(S) == Several(Of(S, {"struct"})) => Distinguishable(Classes(S))

(* The restrictions, by their names.                                        *)
LEMMA SupportedIs ==
    ASSUME NEW S
    PROVE  Supported(S) <=> /\ \A m \in S : Suits(m)
                            /\ CustomsFit(S) /\ NumbersFit(S) /\ TextsFit(S)
                            /\ ObjectsFit(S) /\ ArraysFit(S) /\ TagsFit(S)
BY Zenon DEF Supported, CustomsFit, NumbersFit, TextsFit, ObjectsFit, ArraysFit, TagsFit,
   Of, Classes, Values, Ints, Strs, Customs, ObjectKinds, ArrayKinds, TextKinds, ObjectsOf, TypesOf

-----------------------------------------------------------------------------
(* Counting.                                                                *)

(* Several elements are two that differ.                                    *)
LEMMA SeveralIs ==
    ASSUME NEW S, IsFiniteSet(S)
    PROVE  /\ Cardinality(S) \in Nat
           /\ Several(S) <=> \E a, b \in S : a # b
           /\ Cardinality(S) = 0 <=> S = {}
<1>1. Cardinality(S) \in Nat /\ (Cardinality(S) = 0 <=> S = {})
  BY FS_CardinalityType, FS_EmptySet
<1>2. ASSUME Several(S) PROVE \E a, b \in S : a # b
  <2>1. Cardinality(S) # 0 /\ Cardinality(S) # 1
    BY <1>1, <1>2 DEF Several
  <2>2. PICK a \in S : TRUE
    BY <1>1, <2>1
  <2>3. S # {a}
    BY <2>1, FS_Singleton
  <2>4. QED
    BY <2>2, <2>3
<1>3. ASSUME NEW a \in S, NEW b \in S, a # b PROVE Several(S)
  BY <1>3, TwoAreSeveral
<1>4. QED
  BY <1>1, <1>2, <1>3

(* The objects and the types of finitely many members are finitely many.    *)
LEMMA ImagesFinite ==
    ASSUME NEW F, IsFiniteSet(F)
    PROVE  IsFiniteSet({m.obj : m \in F}) /\ IsFiniteSet({m.type : m \in F})
<1>1. [m \in F |-> m.obj] \in Surjection(F, {m.obj : m \in F})
  BY DEF Surjection
<1>2. [m \in F |-> m.type] \in Surjection(F, {m.type : m \in F})
  BY DEF Surjection
<1>3. \A T : \A f \in Surjection(F, T) : IsFiniteSet(T)
  BY FS_Surjection
<1>4. QED
  BY <1>1, <1>2, <1>3

(* So are the members of some types.                                        *)
LEMMA PartsFinite ==
    ASSUME NEW S, IsFiniteSet(S), NEW T
    PROVE  /\ IsFiniteSet(Of(S, T)) /\ IsFiniteSet(ObjectsOf(S, T)) /\ IsFiniteSet(TypesOf(S, T))
           /\ Cardinality(Of(S, T)) \in Nat /\ Cardinality(ObjectsOf(S, T)) \in Nat
           /\ Cardinality(TypesOf(S, T)) \in Nat
<1>1. IsFiniteSet(Of(S, T))
  BY FS_Subset DEF Of
<1>2. IsFiniteSet({m.obj : m \in Of(S, T)}) /\ IsFiniteSet({m.type : m \in Of(S, T)})
  BY <1>1, ImagesFinite
<1>3. QED
  BY <1>1, <1>2, FS_CardinalityType DEF ObjectsOf, TypesOf

(* Members of different types are as many as their types.                   *)
LEMMA TypesCount ==
    ASSUME NEW F, IsFiniteSet(F), \A m, n \in F : m.type = n.type => m = n
    PROVE  Cardinality({m.type : m \in F}) = Cardinality(F)
<1> DEFINE f == [m \in F |-> m.type]
<1>1. f \in Bijection(F, {m.type : m \in F})
  BY DEF Bijection, Injection, Surjection, IsInjective
<1>2. ExistsBijection(F, {m.type : m \in F})
  BY <1>1 DEF ExistsBijection
<1>3. QED
  BY <1>2, FS_Bijection

(* One as a number of elements.                                             *)
LEMMA OneCounts ==
    ASSUME NEW P \in BOOLEAN, NEW x
    PROVE  /\ One(P) = Cardinality(IF P THEN {x} ELSE {})
           /\ IsFiniteSet(IF P THEN {x} ELSE {})
BY FS_Singleton, FS_EmptySet DEF One

(* Sets that are apart count together.                                      *)
LEMMA ApartCount ==
    ASSUME NEW A, NEW B, IsFiniteSet(A), IsFiniteSet(B), A \cap B = {}
    PROVE  IsFiniteSet(A \cup B) /\ Cardinality(A \cup B) = Cardinality(A) + Cardinality(B)
<1>1. IsFiniteSet(A \cup B) /\ Cardinality(A \cup B)
                                = Cardinality(A) + Cardinality(B) - Cardinality(A \cap B)
  BY FS_Union
<1>2. Cardinality(A \cap B) = 0
  BY FS_EmptySet
<1>3. Cardinality(A) \in Nat /\ Cardinality(B) \in Nat
  BY FS_CardinalityType
<1>4. QED
  BY <1>1, <1>2, <1>3

(* A family of types, of which one more stands for several members.         *)
LEMMA FamilyCounts ==
    ASSUME NEW F, IsFiniteSet(F), \A m, n \in F : m.type = n.type => m = n,
           NEW P \in BOOLEAN, NEW x, P => \A m \in F : m.type # x
    PROVE  LET bits == {m.type : m \in F} \cup (IF P THEN {x} ELSE {})
           IN  IsFiniteSet(bits) /\ Cardinality(bits) = Cardinality(F) + One(P)
<1>1. IsFiniteSet({m.type : m \in F})
  BY ImagesFinite
<1>2. {m.type : m \in F} \cap (IF P THEN {x} ELSE {}) = {}
  OBVIOUS
<1>3. Cardinality({m.type : m \in F}) = Cardinality(F)
  BY TypesCount
<1>4. /\ One(P) = Cardinality(IF P THEN {x} ELSE {})
      /\ IsFiniteSet(IF P THEN {x} ELSE {})
  BY OneCounts
<1>5. QED
  BY <1>1, <1>2, <1>3, <1>4, ApartCount

-----------------------------------------------------------------------------
(* Two objects for one kind of detail are never allowed.                    *)

Clash(m, n) ==
    /\ m # n
    /\ m.type \in ObjectTypes /\ n.type \in ObjectTypes
    /\ SlotOf(m.type) = SlotOf(n.type)
    /\ m.type \in {"path", "ip"} => m.obj # n.obj

OnePerSlot(S) == \A m, n \in S : ~Clash(m, n)

(* Which types share a kind of detail.                                      *)
LEMMA SameSlot ==
    ASSUME NEW a \in ObjectTypes, NEW b \in ObjectTypes, SlotOf(a) = SlotOf(b)
    PROVE  a = b \/ {a, b} \subseteq Customs \/ {a, b} \subseteq Slot7 \cup {"fixtuple"}
BY SlotOfType DEF ObjectTypes, Customs, Slot7

(* Which kind of detail a type has.                                         *)
LEMMA SlotIs ==
    /\ \A a : SlotOf(a) = "custom" <=> a \in Customs
    /\ \A a \in ObjectTypes : SlotOf(a) \in Slot \ ({"codec", "user"} \cup Second)
BY SlotOfType DEF ObjectTypes, Customs, Slot7, Slot, Second

(* Members that clash exceed one of the families.                           *)
LEMMA ClashIsRefused ==
    ASSUME NEW S, IsFiniteSet(S), NEW m \in S, NEW n \in S, Clash(m, n)
    PROVE  ~Supported(S)
<1>1. \A T : m.type \in T /\ n.type \in T => Cardinality(Of(S, T)) > 1
  BY PartsFinite, TwoAreSeveral DEF Of, Clash, Several
<1>2. \A T : Cardinality(Of(S, T)) \in Nat /\ Cardinality(ObjectsOf(S, T)) \in Nat
             /\ Cardinality(TypesOf(S, T)) \in Nat
  BY PartsFinite
<1>3. CASE m.type \in Customs /\ n.type \in Customs
  <2>1. Cardinality(Of(S, Customs)) > 1 /\ m \in Of(S, Customs)
    BY <1>1, <1>3 DEF Of
  <2>2. QED
    BY <2>1, SupportedIs DEF CustomsFit
<1>4. CASE m.type \in {"intenum"} /\ n.type \in {"intenum"}
  <2>1. Cardinality(Of(S, {"intenum"})) > 1
    BY <1>1, <1>4
  <2>2. QED
    BY <1>2, <2>1, SupportedIs DEF NumbersFit, One
<1>5. CASE m.type \in {"enum"} /\ n.type \in {"enum"}
  <2>1. Cardinality(Of(S, {"enum"})) > 1
    BY <1>1, <1>5
  <2>2. QED
    BY <1>2, <2>1, SupportedIs DEF TextsFit, One
<1>6. CASE m.type \in ObjectKinds /\ n.type \in ObjectKinds
  <2>1. Cardinality(Of(S, ObjectKinds)) > 1
    BY <1>1, <1>6
  <2>2. QED
    BY <1>2, <2>1, SupportedIs DEF ObjectsFit, One
<1>7. CASE m.type \in ArrayKinds /\ n.type \in ArrayKinds
  <2>1. Cardinality(Of(S, ArrayKinds)) > 1
    BY <1>1, <1>7
  <2>2. QED
    BY <1>2, <2>1, SupportedIs DEF ArraysFit, One
<1>8. CASE m.type \in {"path", "ip"} /\ n.type = m.type
  <2>1. m.obj \in ObjectsOf(S, {m.type}) /\ n.obj \in ObjectsOf(S, {m.type}) /\ m.obj # n.obj
    BY <1>8 DEF ObjectsOf, Of, Clash
  <2>2. Cardinality(ObjectsOf(S, {m.type})) > 1
    BY <2>1, PartsFinite, TwoAreSeveral DEF Several
  <2>3. Cardinality(ObjectsOf(S, {"path"})) > 1 \/ Cardinality(ObjectsOf(S, {"ip"})) > 1
    BY <1>8, <2>2
  <2>4. ~TextsFit(S)
    BY <1>2, <2>3 DEF TextsFit, One
  <2>5. QED
    BY <2>4, SupportedIs
<1>9. QED
  BY <1>3, <1>4, <1>5, <1>6, <1>7, <1>8, SameSlot
     DEF Clash, ObjectTypes, ObjectKinds, ArrayKinds, Customs, Slot7

-----------------------------------------------------------------------------
(* What the collect state says of the members collected so far.             *)

Hooks == {"codec", "user"}

(* The bits the types of the members set.                                   *)
Brings(m, b) == \/ m.type \in Scalars /\ b = m.type
                \/ m.type \in ObjectTypes /\ b \in Bits(m.type)
TypeBits(S) == {b \in Types : \E m \in S : Brings(m, b)}

Many(S) == \E m, n \in Of(S, {"struct"}) : m # n

Gathered(s, S) ==
    /\ s.types \ Hooks = TypeBits(S)
    /\ \A m \in S : m.type \in ObjectTypes => s.obj[SlotOf(m.type)] = m.obj
    /\ \A o \in Slot \ (Hooks \cup Second) : s.obj[o] # Null =>
          \E m \in S : m.type \in ObjectTypes /\ SlotOf(m.type) = o
    /\ OnePerSlot(S)
    /\ s.structs = Classes(S) /\ s.literals = Values(S)
    /\ s.many \in BOOLEAN /\ (s.many <=> Many(S))

(* The annotations of a member change nothing of that.                      *)
Agree(s, t) ==
    /\ t.types \ Hooks = s.types \ Hooks
    /\ \A o \in Slot \ Hooks : t.obj[o] = s.obj[o]
    /\ t.structs = s.structs /\ t.many = s.many /\ t.literals = s.literals

(* What agrees with a state says the same of the members.                   *)
LEMMA AgreeGathers ==
    ASSUME NEW s, NEW t, NEW S \in SUBSET Member, Gathered(s, S), Agree(s, t)
    PROVE  Gathered(t, S)
<1>1. \A m \in S : m.type \in ObjectTypes => t.obj[SlotOf(m.type)] = m.obj
  BY SlotIs DEF Gathered, Agree, Hooks
<1>2. ASSUME NEW o \in Slot \ (Hooks \cup Second), t.obj[o] # Null
      PROVE  \E m \in S : m.type \in ObjectTypes /\ SlotOf(m.type) = o
  BY <1>2 DEF Gathered, Agree
<1>3. QED
  BY <1>1, <1>2 DEF Gathered, Agree

(* A refusal changes nothing else.                                          *)
LEMMA RefuseAgrees ==
    ASSUME NEW s, StateOK(s)
    PROVE  Agree(s, Refuse(s)) /\ ~Refuse(s).ok
<1>1. PICK r : r = Refuse(s)
  OBVIOUS
<1>2. /\ r.types = s.types /\ r.obj = s.obj
      /\ r.structs = s.structs /\ r.many = s.many /\ r.literals = s.literals
      /\ ~r.ok
  BY <1>1 DEF Refuse, StateOK, Fields
<1>3. QED
  BY <1>1, <1>2 DEF Agree

(* A Serializer is refused next to a native type.                           *)
LEMMA SerializerSays ==
    ASSUME NEW s, StateOK(s), s.ok, NEW m \in Member, NEW t, t = CollectSerializer(s, m)
    PROVE  /\ Agree(s, t)
           /\ ~t.ok => /\ m.codec # Null
                       /\ s.types = {"none"} \/ s.types \cap SerializerBlocked # {}
<1>1. CASE t = s
  BY <1>1 DEF Agree
<1>2. CASE t = Refuse(s) /\ t # s
  BY <1>2, RefuseAgrees DEF CollectSerializer
<1>3. CASE t # s /\ t # Refuse(s)
  <2> PICK types, x : types = s.types \cup {"codec"} /\ x = m.codec
    OBVIOUS
  <2>1. t = With(s, types, "codec", x)
    BY <1>3 DEF CollectSerializer, With
  <2>2. "codec" \in Slot /\ types \subseteq CollectedTypes
    BY DEF Slot, StateOK, CollectedTypes, Types
  <2>3. QED
    BY <2>1, <2>2, WithIs DEF Agree, Hooks
<1>4. QED
  BY <1>1, <1>2, <1>3

ConstraintFits(m) ==
    m.constr # Null /\ DOMAIN m.constr.params # {} =>
        /\ KindOf(m.type) \in AppliesTo(m.constr.class)
        /\ m.type = "int" => \A p \in DOMAIN m.constr.params :
              FitsInt64(m.constr.params[p]) /\ FitsInt64(m.constr.params[p] + Inwards(p))

(* A constraint is compiled if and only if it fits the type.                *)
LEMMA CompileSays ==
    ASSUME NEW s, StateOK(s), s.ok, NEW m \in Member, m.constr # Null, m.constr.class # "user",
           NEW t, t = Compile(s, m.constr, KindOf(m.type))
    PROVE  Agree(s, t) /\ (t.ok <=> ConstraintFits(m))
<1> PICK c, kind : c = m.constr /\ kind = KindOf(m.type)
  OBVIOUS
<1> DEFINE wide == kind = "int" /\ \E p \in DOMAIN c.params :
                      ~FitsInt64(c.params[p]) \/ ~FitsInt64(c.params[p] + Inwards(p))
<1>1. kind = "int" <=> m.type = "int"
  BY IntIs
<1>2. Agree(s, s)
  BY DEF Agree
<1>3. CASE kind \notin AppliesTo(c.class)
  <2>1. t = IF DOMAIN c.params = {} THEN s ELSE Refuse(s)
    BY <1>3 DEF Compile
  <2>2. QED
    BY <1>2, <1>3, <2>1, RefuseAgrees DEF ConstraintFits
<1>4. CASE kind \in AppliesTo(c.class) /\ wide
  <2>1. t = Refuse(s)
    BY <1>4 DEF Compile
  <2>2. QED
    BY <1>1, <1>4, <2>1, RefuseAgrees DEF ConstraintFits
<1>5. CASE kind \in AppliesTo(c.class) /\ ~wide
  <2>1. PICK mask, bound : t = [s EXCEPT !.mask = mask, !.bound = bound]
    BY <1>5 DEF Compile
  <2>2. /\ t.types = s.types /\ t.obj = s.obj /\ t.structs = s.structs
        /\ t.many = s.many /\ t.literals = s.literals /\ t.ok = s.ok
    BY <2>1 DEF StateOK, Fields
  <2>3. ConstraintFits(m)
    BY <1>1, <1>5 DEF ConstraintFits
  <2>4. QED
    BY <2>2, <2>3 DEF Agree
<1>6. QED
  BY <1>3, <1>4, <1>5

(* So is any annotation with a constraint accepted.                         *)
LEMMA ConstraintSays ==
    ASSUME NEW s, StateOK(s), s.ok, NEW m \in Member, NEW t, t = CollectConstraint(s, m)
    PROVE  Agree(s, t) /\ (t.ok <=> ConstraintFits(m))
<1>1. CASE m.constr = Null
  BY <1>1 DEF CollectConstraint, Agree, ConstraintFits
<1>2. CASE m.constr # Null /\ m.constr.class = "user"
  <2> PICK types, x : types = s.types \cup {"user"} /\ x = m.constr.class
    OBVIOUS
  <2>1. t = With(s, types, "user", x)
    BY <1>2 DEF CollectConstraint, With
  <2>2. "user" \in Slot /\ types \subseteq CollectedTypes
    BY DEF Slot, StateOK, CollectedTypes, Types
  <2>3. Agree(s, t)
    BY <2>1, <2>2, WithIs DEF Agree, Hooks
  <2>4. t.ok
    <3>1. s = [i \in Fields |-> s[i]]
      BY DEF StateOK
    <3>2. QED
      BY <2>1, <3>1 DEF With, Fields
  <2>5. DOMAIN m.constr.params = {}
    BY <1>2, ConstantsOK
  <2>6. QED
    BY <2>3, <2>5, <2>4 DEF ConstraintFits
<1>3. CASE m.constr # Null /\ m.constr.class # "user"
  BY <1>3, CompileSays DEF CollectConstraint
<1>4. QED
  BY <1>1, <1>2, <1>3

-----------------------------------------------------------------------------
(* One more member.                                                         *)

(* What a member adds to the bits of the others.                            *)
BitsFor(m) == IF m.type \in Scalars THEN {m.type}
              ELSE IF m.type \in ObjectTypes THEN Bits(m.type) ELSE {}

(* The kinds of types are apart.                                            *)
LEMMA KindsApart ==
    /\ Scalars \cap ObjectTypes = {}
    /\ {"any", "struct", "literal"} \cap (Scalars \cup ObjectTypes) = {}
BY DEF Scalars, BytesLike, ObjectTypes, Slot7

(* The bits of a type are no hooks.                                         *)
LEMMA BitsForIs ==
    ASSUME NEW m \in Member
    PROVE  BitsFor(m) \subseteq Types \ Hooks
<1>1. CASE m.type \in Scalars
  BY <1>1 DEF BitsFor, Types, Hooks, Scalars, BytesLike
<1>2. CASE m.type \notin Scalars /\ m.type \in ObjectTypes
  <2>1. PICK k \in 1..16 \ {13, 14} : Bits(m.type) \subseteq BitsOf[k]
    BY <1>2, BitsBelong
  <2>2. BitsOf[k] \subseteq Types \ Hooks
    BY DEF BitsOf, Types, Hooks, ObjSlots, Slot0, Slot1, Slot2, Slot3, Slot4, Slot7, DictBits
  <2>3. QED
    BY <1>2, <2>1, <2>2 DEF BitsFor
<1>3. QED
  BY <1>1, <1>2 DEF BitsFor

(* The bits, classes and values of one more member.                         *)
LEMMA TypeBitsGrow ==
    ASSUME NEW S, NEW m \in Member
    PROVE  TypeBits(S \cup {m}) = TypeBits(S) \cup BitsFor(m)
<1>1. BitsFor(m) \subseteq Types
  BY BitsForIs
<1>2. ASSUME NEW b \in Types
      PROVE  b \in BitsFor(m) <=> Brings(m, b)
  BY KindsApart DEF BitsFor, Brings
<1>3. TypeBits(S \cup {m}) = TypeBits(S) \cup {b \in Types : Brings(m, b)}
  BY DEF TypeBits
<1>4. QED
  BY <1>1, <1>2, <1>3

LEMMA ClassesGrow ==
    ASSUME NEW S, NEW m
    PROVE  /\ Classes(S \cup {m}) = Classes(S) \cup (IF m.type = "struct" THEN {m.obj} ELSE {})
           /\ Values(S \cup {m}) = Values(S) \cup (IF m.type = "literal" THEN m.obj ELSE {})
           /\ m.type # "struct" => Classes(S \cup {m}) = Classes(S)
           /\ m.type # "literal" => Values(S \cup {m}) = Values(S)
<1>1. Classes(S \cup {m}) = Classes(S) \cup (IF m.type = "struct" THEN {m.obj} ELSE {})
  BY DEF Classes, Of
<1>2. Values(S \cup {m}) = Values(S) \cup (IF m.type = "literal" THEN m.obj ELSE {})
  BY DEF Values, Of
<1>3. QED
  BY <1>1, <1>2

LEMMA ManyGrows ==
    ASSUME NEW S, NEW m, m \notin S
    PROVE  Many(S \cup {m}) <=> Many(S) \/ (m.type = "struct" /\ Classes(S) # {})
BY DEF Many, Classes, Of

(* The state t holds the member m besides those s holds.                    *)
LEMMA TypeGathers ==
    ASSUME NEW s, Good(s), s.ok, NEW S \in SUBSET Member, Gathered(s, S),
           NEW m \in Member, m \notin S, m.type # "any", NEW t, t = CollectType(s, m)
    PROVE  IF t.ok THEN Gathered(t, S \cup {m}) ELSE \E n \in S : Clash(m, n)
<1>1. StateOK(s) /\ s = [i \in Fields |-> s[i]]
  BY DEF Good, StateOK
<1>2. CASE m.type \in Scalars
  <2>1. t = [s EXCEPT !.types = @ \cup {m.type}]
    BY <1>2, KindsApart, CollectTypeIs
  <2>2. /\ t.types = s.types \cup {m.type} /\ t.obj = s.obj /\ t.structs = s.structs
        /\ t.many = s.many /\ t.literals = s.literals /\ t.ok
    BY <1>1, <2>1 DEF Fields
  <2>3. BitsFor(m) = {m.type} /\ m.type \notin Hooks
    BY <1>2 DEF BitsFor, Hooks, Scalars, BytesLike
  <2>4. t.types \ Hooks = TypeBits(S \cup {m})
    BY <2>2, <2>3, TypeBitsGrow DEF Gathered
  <2>5. m.type \notin ObjectTypes /\ m.type # "struct" /\ m.type # "literal"
    BY <1>2, KindsApart
  <2>6. OnePerSlot(S \cup {m})
    BY <2>5 DEF Gathered, OnePerSlot, Clash
  <2>7. t.structs = Classes(S \cup {m}) /\ t.literals = Values(S \cup {m})
    BY <2>2, <2>5, ClassesGrow DEF Gathered
  <2>8. t.many \in BOOLEAN /\ (t.many <=> Many(S \cup {m}))
    BY <2>2, <2>5, ManyGrows, Zenon DEF Gathered
  <2>9. \A n \in S \cup {m} : n.type \in ObjectTypes => t.obj[SlotOf(n.type)] = n.obj
    BY <2>2, <2>5 DEF Gathered
  <2>10. ASSUME NEW o \in Slot \ (Hooks \cup Second), t.obj[o] # Null
         PROVE  \E k \in S \cup {m} : k.type \in ObjectTypes /\ SlotOf(k.type) = o
    BY <2>2, <2>10 DEF Gathered
  <2>11. Gathered(t, S \cup {m})
    BY <2>4, <2>6, <2>7, <2>9, <2>10, <2>8, Zenon DEF Gathered
  <2>12. QED
    BY <2>2, <2>11
<1>3. CASE m.type \in {"struct", "literal"}
  <2>1. \/ m.type = "struct" /\ t = CollectStruct(s, m)
        \/ m.type = "literal" /\ t = [s EXCEPT !.literals = @ \cup m.obj]
    BY <1>3, KindsApart, CollectTypeIs
  <2>2. /\ t.types = s.types /\ t.obj = s.obj /\ t.ok
        /\ t.structs = s.structs \cup (IF m.type = "struct" THEN {m.obj} ELSE {})
        /\ t.many = IF m.type = "struct" THEN s.structs # {} ELSE s.many
        /\ t.literals = s.literals \cup (IF m.type = "literal" THEN m.obj ELSE {})
    BY <1>1, <2>1 DEF Fields, CollectStruct
  <2>3. BitsFor(m) = {} /\ m.type \notin ObjectTypes
    BY <1>3, KindsApart DEF BitsFor
  <2>4. t.types \ Hooks = TypeBits(S \cup {m})
    BY <2>2, <2>3, TypeBitsGrow DEF Gathered
  <2>5. OnePerSlot(S \cup {m})
    BY <2>3 DEF Gathered, OnePerSlot, Clash
  <2>6. t.structs = Classes(S \cup {m}) /\ t.literals = Values(S \cup {m})
    BY <2>2, ClassesGrow DEF Gathered
  <2>7. Many(S) => Classes(S) # {}
    BY DEF Many, Classes
  <2>8. t.many \in BOOLEAN /\ (t.many <=> Many(S \cup {m}))
    BY <2>2, <2>7, ManyGrows DEF Gathered
  <2>9. \A n \in S \cup {m} : n.type \in ObjectTypes => t.obj[SlotOf(n.type)] = n.obj
    BY <2>2, <2>3 DEF Gathered
  <2>10. ASSUME NEW o \in Slot \ (Hooks \cup Second), t.obj[o] # Null
         PROVE  \E k \in S \cup {m} : k.type \in ObjectTypes /\ SlotOf(k.type) = o
    BY <2>2, <2>10 DEF Gathered
  <2>11. Gathered(t, S \cup {m})
    BY <2>4, <2>5, <2>6, <2>8, <2>9, <2>10 DEF Gathered
  <2>12. QED
    BY <2>2, <2>11
<1>4. CASE m.type \in ObjectTypes
  <2> PICK slot : slot = SlotOf(m.type)
    OBVIOUS
  <2>1. slot \in Slot \ (Hooks \cup Second)
    BY <1>4, SlotIs DEF Hooks
  <2>2. t = CollectObject(s, m)
    BY <1>4, KindsApart, CollectTypeIs
  <2>3. CASE s.obj[slot] = Null
    <3> PICK types, x : types = s.types \cup Bits(m.type) /\ x = m.obj
      OBVIOUS
    <3>1. t = With(s, types, slot, x)
      BY <2>2, <2>3 DEF CollectObject, With
    <3>2. BitsFor(m) = Bits(m.type) /\ Bits(m.type) \subseteq Types \ Hooks
      BY <1>4, BitsForIs, KindsApart DEF BitsFor
    <3>3. "constr" \notin Bits(m.type)
      BY <1>4 DEF Bits, ObjectTypes, Slot7, DictBits
    <3>4. types \subseteq CollectedTypes
      BY <1>1, <3>2, <3>3 DEF StateOK, CollectedTypes
    <3>5. slot \in Slot
      BY <2>1
    <3>6. /\ t.types = types /\ t.obj[slot] = x
          /\ \A o \in Slot \ {slot} : t.obj[o] = s.obj[o]
      <4>1. t.types = types /\ t.obj = [s.obj EXCEPT ![slot] = x]
        BY <1>1, <3>1 DEF With, Fields
      <4>2. s.obj = [o \in Slot |-> s.obj[o]]
        BY <1>1 DEF StateOK
      <4>3. QED
        BY <3>5, <4>1, <4>2
    <3>7. t.structs = s.structs /\ t.many = s.many /\ t.literals = s.literals /\ t.ok
      BY <1>1, <3>1 DEF With, Fields
    <3>8. t.types \ Hooks = TypeBits(S \cup {m})
      BY <3>2, <3>6, TypeBitsGrow DEF Gathered
    <3>9. \A n \in S : n.type \in ObjectTypes => SlotOf(n.type) # slot
      <4>1. \A n \in S : n.type \in ObjectTypes => s.obj[SlotOf(n.type)] = n.obj /\ n.obj # Null
        BY ConstantsOK DEF Gathered
      <4>2. QED
        BY <2>3, <4>1
    <3>10. OnePerSlot(S \cup {m})
      BY <3>9 DEF Gathered, OnePerSlot, Clash
    <3>11. \A n \in S \cup {m} : n.type \in ObjectTypes => t.obj[SlotOf(n.type)] = n.obj
      BY <3>6, <3>9, SlotIs DEF Gathered
    <3>12. ASSUME NEW o \in Slot \ (Hooks \cup Second), t.obj[o] # Null
           PROVE  \E n \in S \cup {m} : n.type \in ObjectTypes /\ SlotOf(n.type) = o
      BY <1>4, <3>6, <3>12 DEF Gathered
    <3>13. m.type # "struct" /\ m.type # "literal"
      BY <1>4, KindsApart
    <3>14. t.structs = Classes(S \cup {m}) /\ t.literals = Values(S \cup {m})
      BY <3>13, <3>7, ClassesGrow DEF Gathered
    <3>15. t.many \in BOOLEAN /\ (t.many <=> Many(S \cup {m}))
      BY <3>13, <3>7, ManyGrows, Zenon DEF Gathered
    <3>16. Gathered(t, S \cup {m})
      BY <3>8, <3>10, <3>11, <3>12, <3>14, <3>15, Zenon DEF Gathered
    <3>17. QED
      BY <3>7, <3>16
  <2>4. CASE s.obj[slot] # Null
    <3>1. PICK n \in S : n.type \in ObjectTypes /\ SlotOf(n.type) = slot
      BY <2>1, <2>4 DEF Gathered
    <3>2. s.obj[slot] = n.obj /\ n # m
      BY <3>1 DEF Gathered
    <3>3. slot \in {"path", "ip"} <=> m.type \in {"path", "ip"}
      BY SlotOfType DEF Slot7
    <3>4. CASE m.type \in {"path", "ip"} /\ n.obj = m.obj
      <4>1. t = s
        BY <2>2, <2>4, <3>2, <3>3, <3>4 DEF CollectObject
      <4>2. n.type = m.type
        BY <1>4, <3>1, <3>4, SameSlot DEF Customs, Slot7
      <4>3. BitsFor(m) \subseteq TypeBits(S)
        BY <1>4, <3>1, <4>2, BitsForIs, KindsApart DEF BitsFor, TypeBits, Brings
      <4>4. t.types \ Hooks = TypeBits(S \cup {m})
        BY <4>1, <4>3, TypeBitsGrow DEF Gathered
      <4>5. OnePerSlot(S \cup {m})
        <5>1. ASSUME NEW k \in S PROVE ~Clash(k, m) /\ ~Clash(m, k)
          <6>1. ~Clash(k, n) /\ ~Clash(n, k)
            BY DEF Gathered, OnePerSlot
          <6>2. ASSUME k.type \in ObjectTypes, SlotOf(k.type) = slot PROVE k.type = m.type
            BY <1>4, <3>4, <6>2, SameSlot DEF Customs, Slot7
          <6>3. QED
            BY <3>1, <3>4, <4>2, <6>1, <6>2 DEF Clash
        <5>2. QED
          BY <5>1 DEF Gathered, OnePerSlot, Clash
      <4>6. m.type # "struct" /\ m.type # "literal"
        BY <1>4, KindsApart
      <4>7. \A k \in S \cup {m} : k.type \in ObjectTypes => t.obj[SlotOf(k.type)] = k.obj
        BY <3>2, <3>4, <4>1 DEF Gathered
      <4>8. ASSUME NEW o \in Slot \ (Hooks \cup Second), t.obj[o] # Null
            PROVE  \E k \in S \cup {m} : k.type \in ObjectTypes /\ SlotOf(k.type) = o
        BY <4>1, <4>8 DEF Gathered
      <4>9. t.structs = Classes(S \cup {m}) /\ t.literals = Values(S \cup {m})
        BY <4>1, <4>6, ClassesGrow DEF Gathered
      <4>10. t.many \in BOOLEAN /\ (t.many <=> Many(S \cup {m}))
        BY <4>1, <4>6, ManyGrows, Zenon DEF Gathered
      <4>11. Gathered(t, S \cup {m})
        BY <4>4, <4>5, <4>7, <4>8, <4>9, <4>10, Zenon DEF Gathered
      <4>12. QED
        BY <4>1, <4>11
    <3>5. CASE ~(m.type \in {"path", "ip"} /\ n.obj = m.obj)
      <4>1. t = Refuse(s)
        BY <2>2, <2>4, <3>2, <3>3, <3>5 DEF CollectObject
      <4>2. ~t.ok
        BY <1>1, <4>1, RefuseAgrees
      <4>3. Clash(m, n)
        BY <1>4, <3>1, <3>2, <3>5 DEF Clash
      <4>4. QED
        BY <4>2, <4>3
    <3>6. QED
      BY <3>4, <3>5
  <2>5. QED
    BY <2>3, <2>4
<1>5. QED
  BY <1>2, <1>3, <1>4, ConstantsOK

-----------------------------------------------------------------------------
(* A member is collected, with its annotations.                             *)

(* No member has a Serializer, unless it is of a custom type, next to one   *)
(* of the types that are refused when they come before it: if they come     *)
(* after it they are not (see SerializersAvoidNativeTypes).                 *)
SerializersApart(S) ==
    \A m, n \in S : m.codec # Null /\ m.type \notin Customs =>
        Bits(n.type) \cap ((SerializerBlocked \ {"any"}) \cup {"none"}) = {}

(* The bit of Any is set by no other type.                                  *)
LEMMA NoAnyBit ==
    ASSUME NEW S
    PROVE  "any" \notin TypeBits(S)
<1>1. "any" \notin Scalars
  BY KindsApart
<1>2. ASSUME NEW type \in ObjectTypes PROVE "any" \notin Bits(type)
  BY <1>2, KindsApart DEF Bits, DictBits
<1>3. QED
  BY <1>1, <1>2 DEF TypeBits, Brings

(* A custom type sets its bit.                                              *)
LEMMA CustomBit ==
    ASSUME NEW S, NEW m \in S, m.type \in Customs
    PROVE  m.type \in TypeBits(S) /\ m \in Of(S, Customs)
<1>1. m.type \in ObjectTypes /\ m.type \in Types /\ m.type # "dict"
  BY DEF Customs, ObjectTypes, Types, ObjSlots, Slot0
<1>2. Brings(m, m.type)
  BY <1>1 DEF Brings, Bits
<1>3. QED
  BY <1>1, <1>2 DEF TypeBits, Of

(* Next to a custom type, no other type is allowed.                         *)
LEMMA BlockedNextToCustom ==
    ASSUME NEW S, NEW m \in S, m.type \in Customs,
           NEW b \in TypeBits(S), b \in SerializerBlocked
    PROVE  ~Supported(S)
<1>1. PICK n \in S : Brings(n, b)
  BY DEF TypeBits
<1>2. b # "none" /\ b \notin Customs
  BY DEF SerializerBlocked, Customs
<1>3. n.type \notin {"none", "literal"}
  BY <1>1, <1>2, KindsApart DEF Brings, Scalars
<1>4. n.type \notin Customs
  BY <1>1, <1>2, KindsApart DEF Brings, Bits, DictBits, Customs, ObjectTypes
<1>5. ~IsNone(n) /\ n \in S \ Of(S, Customs)
  BY <1>3, <1>4 DEF IsNone, Of
<1>6. ~CustomsFit(S)
  BY <1>5, CustomBit DEF CustomsFit
<1>7. QED
  BY <1>6, SupportedIs

(* A member is collected, or the union is refused for good.                 *)
LEMMA MemberGathers ==
    ASSUME NEW s, Good(s), s.ok, NEW S \in SUBSET Member, IsFiniteSet(S),
           Gathered(s, S), "any" \notin s.types,
           NEW m \in Member, m \notin S, m.type # "any", NEW t, t = CollectMember(s, m),
           SerializersApart(S \cup {m})
    PROVE  IF t.ok THEN Gathered(t, S \cup {m}) /\ Suits(m) ELSE ~Supported(S \cup {m})
<1>1. StateOK(s) /\ (S \cup {m}) \in SUBSET Member /\ IsFiniteSet(S \cup {m})
  BY FS_AddElement DEF Good
<1>2. CASE m.codec # Null /\ ~TakesSerializer(m)
  <2>1. t = Refuse(s)
    BY <1>2 DEF CollectMember
  <2>2. ~t.ok
    BY <1>1, <2>1, RefuseAgrees
  <2>3. ~Suits(m)
    BY <1>2 DEF Suits
  <2>4. ~Supported(S \cup {m})
    BY <2>3, SupportedIs
  <2>5. QED
    BY <2>2, <2>4
<1>3. CASE ~(m.codec # Null /\ ~TakesSerializer(m))
  <2> PICK u : u = CollectType(s, m)
    OBVIOUS
  <2>1. t = IF u.ok THEN CollectConstraint(CollectSerializer(u, m), m) ELSE u
    BY <1>3 DEF CollectMember
  <2>2. IF u.ok THEN Gathered(u, S \cup {m}) ELSE \E n \in S : Clash(m, n)
    BY TypeGathers
  <2>3. CASE ~u.ok
    <3>1. PICK n \in S : Clash(m, n)
      BY <2>2, <2>3
    <3>2. m \in S \cup {m} /\ n \in S \cup {m}
      OBVIOUS
    <3>3. ~Supported(S \cup {m})
      BY <1>1, <3>1, <3>2, ClashIsRefused
    <3>4. QED
      BY <2>1, <2>3, <3>3
  <2>4. CASE u.ok
    <3>1. Gathered(u, S \cup {m})
      BY <2>2, <2>4
    <3>2. Good(u) /\ StateOK(u)
      BY CollectTypeIsGood DEF Good
    <3> PICK v : v = CollectSerializer(u, m)
      OBVIOUS
    <3>3. Agree(u, v)
      BY <2>4, <3>2, SerializerSays
    <3>4. ~v.ok => m.codec # Null /\ (u.types = {"none"} \/ u.types \cap SerializerBlocked # {})
      BY <2>4, <3>2, SerializerSays
    <3>5. StateOK(v)
      BY <2>4, <3>2, CollectSerializerIsGood DEF Good
    <3>6. Gathered(v, S \cup {m})
      BY <1>1, <3>1, <3>3, AgreeGathers
    <3>7. t = CollectConstraint(v, m)
      BY <2>1, <2>4
    <3>8. CASE ~v.ok
      <4>1. t = v
        BY <3>7, <3>8 DEF CollectConstraint
      <4>2. m \in S \cup {m} /\ S \cup {m} \subseteq Member /\ m.codec # Null
        BY <3>4, <3>8
      <4>3. u.types \ Hooks = TypeBits(S \cup {m})
        BY <3>1 DEF Gathered
      <4>4. PICK b \in u.types : (b \in SerializerBlocked) \/ (b = "none" /\ u.types = {"none"})
        BY <3>4, <3>8
      <4>5. b \in TypeBits(S \cup {m}) /\ b # "any"
        BY <4>3, <4>4, NoAnyBit DEF SerializerBlocked, Hooks
      <4>6. ASSUME m.type \in Customs PROVE ~Supported(S \cup {m})
        <5>1. m.type \in TypeBits(S \cup {m})
          BY <4>2, <4>6, CustomBit
        <5>2. b \in SerializerBlocked
          BY <4>3, <4>4, <4>6, <5>1 DEF Customs
        <5>3. QED
          BY <4>2, <4>5, <4>6, <5>2, BlockedNextToCustom
      <4>7. ASSUME m.type \notin Customs PROVE ~Supported(S \cup {m})
        <5>1. PICK n \in S \cup {m} : Brings(n, b)
          BY <4>5 DEF TypeBits
        <5>2. b \in Bits(n.type)
          BY <5>1, KindsApart DEF Brings, Bits, ObjectTypes
        <5>3. QED
          BY <4>2, <4>4, <4>5, <4>7, <5>2 DEF SerializersApart
      <4>8. ~Supported(S \cup {m})
        BY <4>6, <4>7
      <4>9. QED
        BY <3>8, <4>1, <4>8
    <3>9. CASE v.ok
      <4>1. Agree(v, t)
        BY <3>5, <3>7, <3>9, ConstraintSays
      <4>2. t.ok <=> ConstraintFits(m)
        BY <3>5, <3>7, <3>9, ConstraintSays
      <4>3. Gathered(t, S \cup {m})
        BY <1>1, <3>6, <4>1, AgreeGathers
      <4>4. Suits(m) <=> ConstraintFits(m)
        BY <1>3 DEF Suits, ConstraintFits
      <4>5. ~Suits(m) => ~Supported(S \cup {m})
        BY SupportedIs
      <4>6. QED
        BY <4>2, <4>3, <4>4, <4>5
    <3>10. QED
      BY <3>8, <3>9
  <2>5. QED
    BY <2>3, <2>4
<1>4. QED
  BY <1>2, <1>3

-----------------------------------------------------------------------------
(* The bits after the second passes.                                        *)

StructBit(S) ==
    IF \E c \in Classes(S) : c \in ArrayLike
    THEN IF Many(S) THEN "structarrayunion" ELSE "structarray"
    ELSE IF Many(S) THEN "structunion" ELSE "struct"
StructBits(S) == IF Classes(S) = {} THEN {} ELSE {StructBit(S)}
LiteralBits(S) ==
    (IF Ints(S) = {} THEN {} ELSE {"intliteral"}) \cup (IF Strs(S) = {} THEN {} ELSE {"strliteral"})
        \cup (Values(S) \cap {"none", "true", "false"})
AllBits(S) == TypeBits(S) \cup StructBits(S) \cup LiteralBits(S)

Tagged(S) == Many(S) => Distinguishable(Classes(S))

Structured(s, S) ==
    /\ s.types \ Hooks = TypeBits(S) \cup StructBits(S)
    /\ s.literals = Values(S)
    /\ OnePerSlot(S) /\ Tagged(S)
Complete(s, S) ==
    /\ s.types \ Hooks = AllBits(S)
    /\ OnePerSlot(S) /\ Tagged(S)

(* The restriction on Struct classes is the one that is checked.            *)
LEMMA TagsAre ==
    ASSUME NEW S, IsFiniteSet(S)
    PROVE  TagsFit(S) <=> Tagged(S)
<1>1. IsFiniteSet(Of(S, {"struct"}))
  BY PartsFinite
<1>2. Several(Of(S, {"struct"})) <=> Many(S)
  BY <1>1, SeveralIs DEF Many
<1>3. QED
  BY <1>2 DEF TagsFit, Tagged

(* Of one class there is one kind of bit.                                   *)
LEMMA ClassesAlike ==
    ASSUME NEW S, Tagged(S)
    PROVE  \A c, d \in Classes(S) : c \in ArrayLike <=> d \in ArrayLike
<1>1. CASE Many(S)
  BY <1>1 DEF Tagged, Distinguishable
<1>2. CASE ~Many(S)
  BY <1>2 DEF Many, Classes
<1>3. QED
  BY <1>1, <1>2

(* The bit of the Struct classes says whether they are arrays.              *)
LEMMA StructBitsAre ==
    ASSUME NEW S, Tagged(S)
    PROVE  /\ Classes(S) \cap ArrayLike # {} =>
                 StructBits(S) \in {{"structarray"}, {"structarrayunion"}}
           /\ Classes(S) \ ArrayLike # {} => StructBits(S) \in {{"struct"}, {"structunion"}}
           /\ Classes(S) = {} => StructBits(S) = {}
           /\ Classes(S) # {} => StructBits(S) # {}
           /\ Classes(S) \cap ArrayLike = {} \/ Classes(S) \ ArrayLike = {}
<1>1. \A c, d \in Classes(S) : c \in ArrayLike <=> d \in ArrayLike
  BY ClassesAlike
<1>2. CASE Classes(S) \cap ArrayLike # {}
  BY <1>1, <1>2 DEF StructBits, StructBit
<1>3. CASE Classes(S) \cap ArrayLike = {}
  BY <1>1, <1>3 DEF StructBits, StructBit
<1>4. QED
  BY <1>2, <1>3

(* The bits of the second passes are no types.                              *)
LEMMA SpecialBits ==
    /\ \A b \in Scalars \cup ObjectTypes \cup DictBits :
          b \notin {"struct", "structarray", "structunion", "structarrayunion",
                    "intliteral", "strliteral", "true", "false"}
    /\ DictBits \cap (Scalars \cup ObjectTypes) = {}
    /\ Scalars \subseteq Types /\ (ObjectTypes \ {"dict"}) \subseteq Types
    /\ DictBits \subseteq Types
  BY DEF Scalars, BytesLike, ObjectTypes, Slot7, DictBits, Types, ObjSlots, Slot0, Slot1, Slot2,
         Slot3, Slot4

(* Which bit is set by whom.                                                *)
LEMMA BitsAre ==
    ASSUME NEW S, Tagged(S)
    PROVE  /\ \A b \in (Scalars \ {"none"}) \cup (ObjectTypes \ {"dict"}) :
                 b \in AllBits(S) <=> Of(S, {b}) # {}
           /\ \A b \in DictBits : b \in AllBits(S) <=> Of(S, {"dict"}) # {}
           /\ \A b \in {"struct", "structarray", "structunion", "structarrayunion"} :
                 b \in AllBits(S) <=> b \in StructBits(S)
           /\ "intliteral" \in AllBits(S) <=> Ints(S) # {}
           /\ "strliteral" \in AllBits(S) <=> Strs(S) # {}
<1>1. StructBits(S) \subseteq {"struct", "structarray", "structunion", "structarrayunion"}
  BY DEF StructBits, StructBit
<1>2. LiteralBits(S) \subseteq {"intliteral", "strliteral", "none", "true", "false"}
  BY DEF LiteralBits
<1>3. TypeBits(S) \subseteq Scalars \cup (ObjectTypes \ {"dict"}) \cup DictBits
  BY DEF TypeBits, Brings, Bits
<1>4. ASSUME NEW b \in (Scalars \ {"none"}) \cup (ObjectTypes \ {"dict"})
      PROVE  b \in AllBits(S) <=> Of(S, {b}) # {}
  <2>1. b \in AllBits(S) <=> b \in TypeBits(S)
    <3>1. "none" \in Scalars
      BY DEF Scalars
    <3>2. b # "none"
      BY <3>1, KindsApart
    <3>3. b \notin StructBits(S) /\ b \notin LiteralBits(S)
      BY <1>1, <1>2, <3>2, SpecialBits
    <3>4. QED
      BY <3>3 DEF AllBits
  <2>2. b \in Types
    BY SpecialBits
  <2>3. ASSUME NEW m \in S PROVE Brings(m, b) <=> m.type = b
    BY SpecialBits, KindsApart DEF Brings, Bits
  <2>4. QED
    BY <2>1, <2>2, <2>3 DEF TypeBits, Of
<1>5. ASSUME NEW b \in DictBits
      PROVE  b \in AllBits(S) <=> Of(S, {"dict"}) # {}
  <2>1. b \in AllBits(S) <=> b \in TypeBits(S)
    <3>1. b \in {"dictkey", "dictval"}
      BY DEF DictBits
    <3>2. b \notin StructBits(S) /\ b \notin LiteralBits(S)
      BY <1>1, <1>2, <3>1
    <3>3. QED
      BY <3>2 DEF AllBits
  <2>2. b \in Types
    BY SpecialBits
  <2>3. "dict" \in ObjectTypes
    BY DEF ObjectTypes
  <2>4. ASSUME NEW m \in S PROVE Brings(m, b) <=> m.type = "dict"
    BY <2>3, SpecialBits, KindsApart DEF Brings, Bits
  <2>5. QED
    BY <2>1, <2>2, <2>4 DEF TypeBits, Of
<1>6. ASSUME NEW b \in {"struct", "structarray", "structunion", "structarrayunion"}
      PROVE  b \in AllBits(S) <=> b \in StructBits(S)
  BY <1>2, <1>3, SpecialBits DEF AllBits
<1>7. "intliteral" \in AllBits(S) <=> Ints(S) # {}
  <2>1. "intliteral" \notin TypeBits(S) \cup StructBits(S)
    BY <1>1, <1>3, SpecialBits
  <2>2. QED
    BY <2>1 DEF AllBits, LiteralBits
<1>8. "strliteral" \in AllBits(S) <=> Strs(S) # {}
  <2>1. "strliteral" \notin TypeBits(S) \cup StructBits(S)
    BY <1>1, <1>3, SpecialBits
  <2>2. QED
    BY <2>1 DEF AllBits, LiteralBits
<1>9. QED
  BY <1>4, <1>5, <1>6, <1>7, <1>8
(* The families, one by one.                                                *)

(* A type with an object occurs once.                                       *)
LEMMA TypesDiffer ==
    ASSUME NEW S, OnePerSlot(S), NEW m \in S, NEW n \in S, m.type = n.type,
           m.type \in ObjectTypes \ {"path", "ip"}
    PROVE  m = n
  BY DEF OnePerSlot, Clash

(* The types that are written as a number.                                  *)
LEMMA NumbersAreSeveral ==
    ASSUME NEW S, IsFiniteSet(S), OnePerSlot(S), Tagged(S),
           NEW X, \A b \in IntLike : b \in X <=> b \in AllBits(S) /\
                                          (b = "intliteral" => "int" \notin AllBits(S))
    PROVE  Several(X \cap IntLike) <=> ~NumbersFit(S)
<1> DEFINE F == Of(S, {"intenum"})
<1> DEFINE P == Of(S, {"int"}) # {} \/ Ints(S) # {}
<1>1. PICK x : x = IF Of(S, {"int"}) # {} THEN "int" ELSE "intliteral"
  OBVIOUS
<1>2. PICK bits : bits = {m.type : m \in F} \cup (IF P THEN {x} ELSE {})
  OBVIOUS
<1>3. "intenum" \in ObjectTypes \ {"dict", "path", "ip"} /\ "int" \in Scalars \ {"none"}
  BY DEF ObjectTypes, Scalars
<1>4. /\ "intenum" \in AllBits(S) <=> F # {}
      /\ "int" \in AllBits(S) <=> Of(S, {"int"}) # {}
      /\ "intliteral" \in AllBits(S) <=> Ints(S) # {}
  BY <1>3, BitsAre
<1>5. \A m \in F : m \in S /\ m.type = "intenum"
  BY DEF Of
<1>6. {m.type : m \in F} = IF F # {} THEN {"intenum"} ELSE {}
  BY <1>5
<1>7. X \cap IntLike = bits
  BY <1>1, <1>2, <1>4, <1>6 DEF IntLike
<1>8. \A m, n \in F : m.type = n.type => m = n
  BY <1>3, <1>5, TypesDiffer
<1>9. IsFiniteSet(F) /\ Cardinality(F) \in Nat
  BY PartsFinite
<1>10. \A m \in F : m.type # x
  BY <1>1, <1>5
<1>11. Cardinality(bits) = Cardinality(F) + One(P)
  BY <1>2, <1>8, <1>9, <1>10, FamilyCounts
<1>12. One(P) \in Nat
  BY DEF One
<1> HIDE DEF F, P
<1>13. Several(bits) <=> ~(Cardinality(F) + One(P) <= 1)
  BY <1>9, <1>11, <1>12 DEF Several
<1>14. QED
  BY <1>7, <1>13 DEF NumbersFit, F, P

(* The types that are written as an object.                                 *)
LEMMA ObjectsAreSeveral ==
    ASSUME NEW S, IsFiniteSet(S), OnePerSlot(S), Tagged(S),
           NEW X, \A b \in DictLike \cup DictBits : b \in X <=> b \in AllBits(S)
    PROVE  Several((X \cap DictLike) \cup (IF X \cap DictBits # {} THEN {"dict"} ELSE {}))
               <=> ~ObjectsFit(S)
<1> DEFINE F == Of(S, ObjectKinds)
<1> DEFINE P == Classes(S) \ ArrayLike # {}
<1>1. PICK x \in {"struct", "structunion"} : P => StructBits(S) = {x}
  BY StructBitsAre
<1>2. PICK bits : bits = {m.type : m \in F} \cup (IF P THEN {x} ELSE {})
  OBVIOUS
<1>3. ObjectKinds \subseteq ObjectTypes \ {"path", "ip"}
  BY DEF ObjectKinds, ObjectTypes
<1>4. /\ "typeddict" \in AllBits(S) <=> Of(S, {"typeddict"}) # {}
      /\ "dataclass" \in AllBits(S) <=> Of(S, {"dataclass"}) # {}
      /\ AllBits(S) \cap DictBits # {} <=> Of(S, {"dict"}) # {}
  BY <1>3, BitsAre DEF ObjectKinds, DictBits
<1>5. \A b \in {"struct", "structunion"} : b \in AllBits(S) <=> P /\ b = x
  <2>1. \A b \in {"struct", "structunion"} : b \in AllBits(S) <=> b \in StructBits(S)
    BY BitsAre
  <2>2. ~P => StructBits(S) \cap {"struct", "structunion"} = {}
    <3>1. ~P => StructBits(S) = {} \/ StructBits(S) \in {{"structarray"}, {"structarrayunion"}}
      BY StructBitsAre
    <3>2. QED
      BY <3>1
  <2>3. QED
    BY <1>1, <2>1, <2>2
<1>6. \A b : b \in {m.type : m \in F} <=> b \in ObjectKinds /\ Of(S, {b}) # {}
  BY DEF Of
<1>7. (X \cap DictLike) \cup (IF X \cap DictBits # {} THEN {"dict"} ELSE {}) = bits
  <2>1. X \cap DictBits # {} <=> Of(S, {"dict"}) # {}
    BY <1>4
  <2>2. ASSUME NEW b
        PROVE  b \in (X \cap DictLike) \cup (IF X \cap DictBits # {} THEN {"dict"} ELSE {})
                   <=> b \in bits
    <3> HIDE DEF F, P
    <3>1. QED
      BY <1>2, <1>4, <1>5, <1>6, <2>1 DEF ObjectKinds, DictLike
  <2>3. QED
    BY <2>2
<1>8. \A m, n \in F : m.type = n.type => m = n
  BY <1>3, TypesDiffer DEF Of
<1>9. IsFiniteSet(F) /\ Cardinality(F) \in Nat
  BY PartsFinite
<1>10. \A m \in F : m.type # x
  BY DEF ObjectKinds, Of
<1>11. Cardinality(bits) = Cardinality(F) + One(P)
  BY <1>2, <1>8, <1>9, <1>10, FamilyCounts
<1>12. One(P) \in Nat
  BY DEF One
<1> HIDE DEF F, P
<1>13. Several(bits) <=> ~(Cardinality(F) + One(P) <= 1)
  BY <1>9, <1>11, <1>12 DEF Several
<1>14. QED
  BY <1>7, <1>13 DEF ObjectsFit, F, P

(* The types that are written as an array.                                  *)
LEMMA ArraysAreSeveral ==
    ASSUME NEW S, IsFiniteSet(S), OnePerSlot(S), Tagged(S),
           NEW X, \A b \in ListLike : b \in X <=> b \in AllBits(S)
    PROVE  Several(X \cap ListLike) <=> ~ArraysFit(S)
<1> DEFINE F == Of(S, ArrayKinds)
<1> DEFINE P == Classes(S) \cap ArrayLike # {}
<1>1. PICK x \in {"structarray", "structarrayunion"} : P => StructBits(S) = {x}
  BY StructBitsAre
<1>2. PICK bits : bits = {m.type : m \in F} \cup (IF P THEN {x} ELSE {})
  OBVIOUS
<1>3. ArrayKinds \subseteq ObjectTypes \ {"path", "ip", "dict"}
  BY DEF ArrayKinds, ObjectTypes, Slot7
<1>4. \A b \in ArrayKinds : b \in AllBits(S) <=> Of(S, {b}) # {}
  BY <1>3, BitsAre
<1>5. \A b \in {"structarray", "structarrayunion"} : b \in AllBits(S) <=> P /\ b = x
  <2>1. \A b \in {"structarray", "structarrayunion"} : b \in AllBits(S) <=> b \in StructBits(S)
    BY BitsAre
  <2>2. ~P => StructBits(S) \cap {"structarray", "structarrayunion"} = {}
    <3>1. ~P => StructBits(S) = {} \/ StructBits(S) \in {{"struct"}, {"structunion"}}
      BY StructBitsAre
    <3>2. QED
      BY <3>1
  <2>3. QED
    BY <1>1, <2>1, <2>2
<1>6. \A b : b \in {m.type : m \in F} <=> b \in ArrayKinds /\ Of(S, {b}) # {}
  BY DEF Of
<1>7. X \cap ListLike = bits
  <2>1. ListLike = ArrayKinds \cup {"structarray", "structarrayunion"}
    BY DEF ListLike, ArrayKinds
  <2>2. ASSUME NEW b PROVE b \in X \cap ListLike <=> b \in bits
    <3> HIDE DEF F, P
    <3>1. QED
      BY <1>2, <1>4, <1>5, <1>6, <2>1
  <2>3. QED
    BY <2>2
<1>8. \A m, n \in F : m.type = n.type => m = n
  BY <1>3, TypesDiffer DEF Of
<1>9. IsFiniteSet(F) /\ Cardinality(F) \in Nat
  BY PartsFinite
<1>10. \A m \in F : m.type # x
  BY DEF ArrayKinds, Of, Slot7
<1>11. Cardinality(bits) = Cardinality(F) + One(P)
  BY <1>2, <1>8, <1>9, <1>10, FamilyCounts
<1>12. One(P) \in Nat
  BY DEF One
<1> HIDE DEF F, P
<1>13. Several(bits) <=> ~(Cardinality(F) + One(P) <= 1)
  BY <1>9, <1>11, <1>12 DEF Several
<1>14. QED
  BY <1>7, <1>13 DEF ArraysFit, F, P
(* The types that are written as a string: a sum of disjoint parts.         *)
LEMMA TextsAreSeveral ==
    ASSUME NEW S, IsFiniteSet(S), OnePerSlot(S), Tagged(S), S \subseteq Member,
           NEW X, \A b \in StrLike : b \in X <=> b \in AllBits(S) /\
                                          (b = "strliteral" => "str" \notin AllBits(S))
    PROVE  Several(X \cap StrLike) <=> ~TextsFit(S)
<1> DEFINE F == Of(S, {"enum"})
<1> DEFINE P == Strs(S) # {} /\ Of(S, {"str"}) = {}
<1> DEFINE A == {m.type : m \in F} \cup (IF P THEN {"strliteral"} ELSE {})
<1> DEFINE Path == IF Of(S, {"path"}) # {} THEN {"path"} ELSE {}
<1> DEFINE Ip == IF Of(S, {"ip"}) # {} THEN {"ip"} ELSE {}
<1> DEFINE Scalar == TypesOf(S, TextKinds)
<1>1. /\ IsFiniteSet(F) /\ Cardinality(F) \in Nat
      /\ IsFiniteSet(Scalar) /\ Cardinality(Scalar) \in Nat
  BY PartsFinite
<1>2. \A m \in F : m \in S /\ m.type = "enum"
  BY DEF Of
<1>3. {"enum", "path", "ip"} \subseteq ObjectTypes \ {"dict"}
  BY DEF ObjectTypes
<1>4. \A m, n \in F : m.type = n.type => m = n
  <2>1. "enum" \in ObjectTypes \ {"path", "ip"}
    BY DEF ObjectTypes
  <2>2. QED
    BY <1>2, <2>1, TypesDiffer
<1>5. IsFiniteSet(A) /\ Cardinality(A) = Cardinality(F) + One(P)
  BY <1>1, <1>2, <1>4, FamilyCounts
<1>6. ASSUME NEW b \in {"path", "ip"}
      PROVE  /\ Cardinality(ObjectsOf(S, {b})) = One(Of(S, {b}) # {})
             /\ IsFiniteSet(IF Of(S, {b}) # {} THEN {b} ELSE {})
             /\ Cardinality(IF Of(S, {b}) # {} THEN {b} ELSE {}) = One(Of(S, {b}) # {})
  <2>1. \A m \in Of(S, {b}) : m \in S /\ m.type = b /\ m.type \in ObjectTypes
    BY <1>3 DEF Of
  <2>2. \A m, n \in Of(S, {b}) : m.obj = n.obj
    BY <2>1 DEF OnePerSlot, Clash
  <2>3. CASE Of(S, {b}) = {}
    <3>1. ObjectsOf(S, {b}) = {}
      BY <2>3 DEF ObjectsOf
    <3>2. QED
      BY <2>3, <3>1, FS_EmptySet DEF One
  <2>4. CASE Of(S, {b}) # {}
    <3>1. PICK m \in Of(S, {b}) : TRUE
      BY <2>4
    <3>2. ObjectsOf(S, {b}) = {m.obj}
      BY <2>2, <3>1 DEF ObjectsOf
    <3>3. QED
      BY <2>4, <3>2, FS_Singleton DEF One
  <2>5. QED
    BY <2>3, <2>4
<1>7. /\ IsFiniteSet(Path) /\ IsFiniteSet(Ip)
      /\ Cardinality(Path) = Cardinality(ObjectsOf(S, {"path"}))
      /\ Cardinality(Ip) = Cardinality(ObjectsOf(S, {"ip"}))
  BY <1>6
<1>8. /\ Cardinality(ObjectsOf(S, {"path"})) \in Nat
      /\ Cardinality(ObjectsOf(S, {"ip"})) \in Nat
      /\ One(P) \in Nat
  BY PartsFinite DEF One
<1>9. /\ A \subseteq {"enum", "strliteral"} /\ Path \subseteq {"path"} /\ Ip \subseteq {"ip"}
      /\ Scalar \cap {"enum", "strliteral", "path", "ip"} = {}
  <2>1. ASSUME NEW m \in S PROVE m.type # "strliteral"
    <3>1. m.type \in Scalars \cup ObjectTypes \cup {"any", "struct", "literal"}
      BY ConstantsOK
    <3>2. QED
      BY <3>1, SpecialBits
  <2>2. Scalar \cap {"enum", "strliteral", "path", "ip"} = {}
    BY <2>1 DEF TypesOf, Of, TextKinds
  <2>3. QED
    BY <1>2, <2>2
<1>10. PICK a : a = A
  OBVIOUS
<1>11. PICK bits : bits = ((a \cup Path) \cup Ip) \cup Scalar
  OBVIOUS
<1>12. X \cap StrLike = bits
  <2>1. TextKinds = {"str", "strliteral", "datetime", "date", "time", "timedelta", "uuid",
                     "decimal"} \cup BytesLike
    BY DEF TextKinds, StrLike, BytesLike
  <2>2. TextKinds \ {"strliteral"} \subseteq Scalars \ {"none"}
    BY <2>1 DEF Scalars, BytesLike
  <2>3. ASSUME NEW b \in TextKinds \ {"strliteral"} PROVE b \in X <=> b \in bits
    <3>1. b \in AllBits(S) <=> Of(S, {b}) # {}
      BY <2>2, BitsAre
    <3>2. b \in Scalar <=> Of(S, {b}) # {}
      BY DEF TypesOf, Of
    <3>3. b \notin {"enum", "path", "ip", "strliteral"} /\ b \in StrLike
      BY DEF TextKinds
    <3>4. b \in bits <=> b \in Scalar
      BY <1>9, <1>10, <1>11, <3>3
    <3>5. QED
      BY <3>1, <3>2, <3>3, <3>4
  <2>4. /\ "str" \in AllBits(S) <=> Of(S, {"str"}) # {}
        /\ "strliteral" \in AllBits(S) <=> Strs(S) # {}
        /\ "enum" \in AllBits(S) <=> F # {}
        /\ "path" \in AllBits(S) <=> Of(S, {"path"}) # {}
        /\ "ip" \in AllBits(S) <=> Of(S, {"ip"}) # {}
    <3>1. "str" \in Scalars \ {"none"}
      BY DEF Scalars
    <3>2. QED
      BY <1>3, <3>1, BitsAre
  <2>5. "enum" \in a <=> F # {}
    BY <1>2, <1>10
  <2>6. "strliteral" \in a <=> P
    BY <1>2, <1>10
  <2>7. {"enum", "strliteral", "path", "ip"} \subseteq StrLike
    BY DEF StrLike
  <2>8. "enum" \in X <=> "enum" \in bits
    BY <1>9, <1>10, <1>11, <2>4, <2>5, <2>7
  <2>9. "strliteral" \in X <=> "strliteral" \in bits
    BY <1>9, <1>10, <1>11, <2>4, <2>6, <2>7
  <2>10. "path" \in X <=> "path" \in bits
    BY <1>9, <1>10, <1>11, <2>4, <2>7
  <2>11. "ip" \in X <=> "ip" \in bits
    BY <1>9, <1>10, <1>11, <2>4, <2>7
  <2>12. StrLike = (TextKinds \ {"strliteral"}) \cup {"enum", "strliteral", "path", "ip"}
    BY DEF StrLike, TextKinds
  <2>13. bits \subseteq StrLike
    <3>1. Scalar \subseteq StrLike
      BY DEF TypesOf, Of, TextKinds
    <3>2. QED
      BY <1>9, <1>10, <1>11, <2>7, <3>1
  <2>14. QED
    BY <2>3, <2>8, <2>9, <2>10, <2>11, <2>12, <2>13
<1> HIDE DEF F, P, A, Path, Ip, Scalar
<1>13. IsFiniteSet(a \cup Path) /\ Cardinality(a \cup Path) = Cardinality(a) + Cardinality(Path)
  <2>1. a \cap Path = {} /\ IsFiniteSet(a)
    BY <1>5, <1>9, <1>10
  <2>2. QED
    BY <1>7, <2>1, ApartCount
<1>14. /\ IsFiniteSet((a \cup Path) \cup Ip)
       /\ Cardinality((a \cup Path) \cup Ip) = Cardinality(a \cup Path) + Cardinality(Ip)
  <2>1. (a \cup Path) \cap Ip = {}
    BY <1>9, <1>10
  <2>2. QED
    BY <1>7, <1>13, <2>1, ApartCount
<1>15. Cardinality(bits) = Cardinality((a \cup Path) \cup Ip) + Cardinality(Scalar)
  <2>1. ((a \cup Path) \cup Ip) \cap Scalar = {}
    BY <1>9, <1>10
  <2>2. QED
    BY <1>1, <1>11, <1>14, <2>1, ApartCount
<1>16. Cardinality(bits) = Cardinality(F) + Cardinality(ObjectsOf(S, {"path"}))
                           + Cardinality(ObjectsOf(S, {"ip"})) + Cardinality(Scalar) + One(P)
  <2>1. Cardinality(a) = Cardinality(F) + One(P)
    BY <1>5, <1>10
  <2>2. QED
    BY <1>1, <1>7, <1>8, <1>13, <1>14, <1>15, <2>1
<1>17. Several(bits) <=> ~(Cardinality(F) + Cardinality(ObjectsOf(S, {"path"}))
                           + Cardinality(ObjectsOf(S, {"ip"})) + Cardinality(Scalar) + One(P) <= 1)
  BY <1>1, <1>8, <1>16 DEF Several
<1>18. QED
  BY <1>12, <1>17 DEF TextsFit, F, P, Scalar

(* A custom type is alone, but for None.                                    *)
LEMMA CustomsAreAlone ==
    ASSUME NEW S, S \subseteq Member, IsFiniteSet(S), OnePerSlot(S), Tagged(S),
           \A m \in S : m.type # "any"
    PROVE  (AllBits(S) \cap Customs # {} /\ AllBits(S) \ (Customs \cup {"none"}) # {})
               <=> ~CustomsFit(S)
<1>1. Customs \subseteq ObjectTypes \ {"dict", "path", "ip"} /\ "none" \notin Customs
  BY DEF Customs, ObjectTypes
<1>2. \A m, n \in Of(S, Customs) : m = n
  <2>1. ASSUME NEW m \in Of(S, Customs), NEW n \in Of(S, Customs) PROVE m = n
    <3>1. SlotOf(m.type) = "custom" /\ SlotOf(n.type) = "custom"
      BY SlotIs DEF Of
    <3>2. m \in S /\ n \in S /\ m.type \in ObjectTypes /\ n.type \in ObjectTypes
          /\ m.type \notin {"path", "ip"}
      BY <1>1 DEF Of
    <3>3. QED
      BY <3>1, <3>2 DEF OnePerSlot, Clash
  <2>2. QED
    BY <2>1
<1>3. Of(S, Customs) # {} => Cardinality(Of(S, Customs)) = 1
  <2>1. ASSUME NEW m \in Of(S, Customs) PROVE Cardinality(Of(S, Customs)) = 1
    <3>1. Of(S, Customs) = {m}
      BY <1>2
    <3>2. QED
      BY <3>1, FS_Singleton
  <2>2. QED
    BY <2>1
<1>4. AllBits(S) \cap Customs # {} <=> Of(S, Customs) # {}
  <2>1. \A b \in Customs : b \in AllBits(S) <=> Of(S, {b}) # {}
    BY <1>1, BitsAre
  <2>2. QED
    BY <2>1 DEF Of
<1>5. ASSUME NEW m \in S, m \notin Of(S, Customs), ~IsNone(m)
      PROVE  AllBits(S) \ (Customs \cup {"none"}) # {}
  <2>1. m.type \in Scalars \cup ObjectTypes \cup {"any", "struct", "literal"}
    BY <1>5, ConstantsOK
  <2>2. m.type \notin Customs /\ m.type \notin {"none", "any"}
    BY <1>5 DEF Of, IsNone
  <2>3. CASE m.type \in Scalars \cup (ObjectTypes \ {"dict"})
    <3>1. m.type \in AllBits(S)
      BY <1>5, <2>2, <2>3, BitsAre DEF Of
    <3>2. QED
      BY <2>2, <3>1
  <2>4. CASE m.type = "dict"
    <3>1. "dictkey" \in AllBits(S)
      BY <1>5, <2>4, BitsAre DEF Of, DictBits
    <3>2. QED
      BY <3>1 DEF Customs
  <2>5. CASE m.type = "struct"
    <3>1. Classes(S) # {}
      BY <1>5, <2>5 DEF Classes, Of
    <3>2. StructBit(S) \in AllBits(S)
      BY <3>1 DEF AllBits, StructBits
    <3>3. StructBit(S) \notin Customs \cup {"none"}
      BY DEF StructBit, Customs
    <3>4. QED
      BY <3>2, <3>3
  <2>6. CASE m.type = "literal"
    <3>1. PICK v \in m.obj : v # "none"
      BY <1>5, <2>6 DEF IsNone
    <3>2. v \in Values(S)
      BY <1>5, <2>6, <3>1 DEF Values, Of
    <3>3. CASE v \in {"true", "false"}
      <4>1. v \in AllBits(S)
        BY <3>2, <3>3 DEF AllBits, LiteralBits
      <4>2. QED
        BY <3>3, <4>1 DEF Customs
    <3>4. CASE v \in IntLiterals
      <4>1. "intliteral" \in AllBits(S)
        BY <3>2, <3>4, BitsAre DEF Ints
      <4>2. QED
        BY <4>1 DEF Customs
    <3>5. CASE v \notin IntLiterals \cup {"true", "false"}
      <4>1. "strliteral" \in AllBits(S)
        BY <3>1, <3>2, <3>5, BitsAre DEF Strs
      <4>2. QED
        BY <4>1 DEF Customs
    <3>6. QED
      BY <3>3, <3>4, <3>5
  <2>7. QED
    BY <2>1, <2>2, <2>3, <2>4, <2>5, <2>6
<1>6. ASSUME NEW b \in AllBits(S), b \notin Customs \cup {"none"}
      PROVE  \E m \in S \ Of(S, Customs) : ~IsNone(m)
  <2>1. CASE b \in TypeBits(S)
    <3>1. PICK m \in S : Brings(m, b)
      BY <2>1 DEF TypeBits
    <3>2. m.type \notin {"none", "literal"}
      BY <1>6, <3>1, KindsApart DEF Brings, Scalars
    <3>3. m.type \notin Customs
      BY <1>6, <3>1, KindsApart, <1>1 DEF Brings, Bits
    <3>4. QED
      BY <3>2, <3>3 DEF IsNone, Of
  <2>2. CASE b \in StructBits(S)
    <3>1. PICK m \in S : m.type = "struct"
      BY <2>2 DEF StructBits, Classes, Of
    <3>2. QED
      BY <3>1 DEF IsNone, Of, Customs
  <2>3. CASE b \in LiteralBits(S)
    <3>1. PICK v \in Values(S) : v # "none"
      BY <1>6, <2>3, LiteralsOK DEF LiteralBits, Ints, Strs
    <3>2. PICK m \in S : m.type = "literal" /\ v \in m.obj
      BY DEF Values, Of
    <3>3. QED
      BY <3>1, <3>2 DEF IsNone, Of, Customs
  <2>4. QED
    BY <2>1, <2>2, <2>3 DEF AllBits
<1>7. CustomsFit(S) <=> (Of(S, Customs) # {} => \A m \in S \ Of(S, Customs) : IsNone(m))
  BY <1>3 DEF CustomsFit
<1>8. (\A m \in S \ Of(S, Customs) : IsNone(m)) <=> AllBits(S) \ (Customs \cup {"none"}) = {}
  BY <1>5, <1>6
<1>9. QED
  BY <1>4, <1>7, <1>8

(* What is left of the literals.                                            *)
LEMMA DroppedTypes ==
    ASSUME NEW s, Kept(s)
    PROVE  \A b : b \in DropLiterals(s).types <=>
                      /\ b \in s.types
                      /\ b = "intliteral" => "int" \notin s.types
                      /\ b = "strliteral" => "str" \notin s.types
<1>1. PICK covered : covered = {b \in {"intliteral", "strliteral"} :
                        /\ s.obj[b] # Null
                        /\ (IF b = "intliteral" THEN "int" ELSE "str") \in s.types}
  OBVIOUS
<1>2. s = [i \in Fields |-> s[i]]
  BY DEF Kept, StateOK
<1>3. DropLiterals(s).types = s.types \ covered
  BY <1>1, <1>2 DEF DropLiterals, Fields
<1>4. /\ s.obj["intliteral"] = Null => "intliteral" \notin s.types
      /\ s.obj["strliteral"] = Null => "strliteral" \notin s.types
  <2>1. HeldAt(s, 7) /\ HeldAt(s, 9)
    BY DEF Kept, Held
  <2>2. QED
    BY <2>1 DEF HeldAt, BitsOf, Layout
<1>5. QED
  BY <1>1, <1>3, <1>4

(* The check refuses exactly the unions that are not supported.             *)
LEMMA AmbiguousIs ==
    ASSUME NEW s, Kept(s), NEW S, S \subseteq Member, IsFiniteSet(S), Complete(s, S),
           \A m \in S : Suits(m), \A m \in S : m.type # "any"
    PROVE  Ambiguous(s) <=> ~Supported(S)
<1>1. OnePerSlot(S) /\ Tagged(S) /\ s.types \ Hooks = AllBits(S)
  BY DEF Complete
<1>2. \A b : b \notin Hooks => (b \in s.types <=> b \in AllBits(S))
  BY <1>1
<1>3. \A b \in DropLiterals(s).types : b \in s.types
  BY DroppedTypes
<1>4. Hooks \cap (IntLike \cup StrLike \cup DictLike \cup DictBits \cup ListLike \cup Customs) = {}
  BY DEF Hooks, IntLike, StrLike, BytesLike, DictLike, DictBits, ListLike, Slot7, Customs
<1>5. /\ \A b \in IntLike : b \in DropLiterals(s).types <=>
             b \in AllBits(S) /\ (b = "intliteral" => "int" \notin AllBits(S))
      /\ \A b \in StrLike : b \in DropLiterals(s).types <=>
             b \in AllBits(S) /\ (b = "strliteral" => "str" \notin AllBits(S))
  <2>1. "strliteral" \notin IntLike /\ "intliteral" \notin StrLike
    BY DEF IntLike, StrLike, BytesLike
  <2>2. "int" \notin Hooks /\ "str" \notin Hooks
    BY DEF Hooks
  <2>3. QED
    BY <1>2, <1>4, <2>1, <2>2, DroppedTypes
<1>6. Several(DropLiterals(s).types \cap IntLike) <=> ~NumbersFit(S)
  BY <1>1, <1>5, NumbersAreSeveral
<1>7. Several(DropLiterals(s).types \cap StrLike) <=> ~TextsFit(S)
  BY <1>1, <1>5, TextsAreSeveral
<1>8. Several(s.types \cap ListLike) <=> ~ArraysFit(S)
  BY <1>1, <1>2, <1>4, ArraysAreSeveral
<1>9. Several((s.types \cap DictLike) \cup (IF s.types \cap DictBits # {} THEN {"dict"} ELSE {}))
          <=> ~ObjectsFit(S)
  BY <1>1, <1>2, <1>4, ObjectsAreSeveral
<1>10. (/\ s.obj["custom"] # Null
        /\ s.types \ {"custom", "customgeneric", "none", "codec", "user"} # {}) <=> ~CustomsFit(S)
  <2>1. s.obj["custom"] # Null <=> s.types \cap Customs # {}
    <3>1. HeldAt(s, 1)
      BY DEF Kept, Held
    <3>2. QED
      BY <3>1 DEF HeldAt, BitsOf, Layout, Customs
  <2>2. s.types \cap Customs = AllBits(S) \cap Customs
    BY <1>2, <1>4
  <2>3. s.types \ {"custom", "customgeneric", "none", "codec", "user"}
            = AllBits(S) \ (Customs \cup {"none"})
    BY <1>1 DEF Hooks, Customs
  <2>4. QED
    BY <1>1, <2>1, <2>2, <2>3, CustomsAreAlone
<1>11. TagsFit(S)
  BY <1>1, TagsAre
<1>12. QED
  BY <1>6, <1>7, <1>8, <1>9, <1>10, <1>11, SupportedIs DEF Ambiguous

(* The pass over the Struct classes.                                        *)
LEMMA StructsAreStructured ==
    ASSUME Good(st), st.ok, NEW S, Gathered(st, S), ValidateStructs
    PROVE  /\ phase' = "literals" => Structured(st', S)
           /\ phase' = "refused" => ~Tagged(S)
<1>1. StateOK(st)
  BY DEF Good
<1>2. /\ st.structs = Classes(S) /\ (st.many <=> Many(S)) /\ st.literals = Values(S)
      /\ OnePerSlot(S) /\ st.types \ Hooks = TypeBits(S)
  BY DEF Gathered
<1>3. Many(S) => Classes(S) # {}
  BY DEF Many, Classes
<1>4. ASSUME NEW types, NEW slot, NEW x, st' = With(st, types, slot, x)
      PROVE  st'.types = types /\ st'.literals = st.literals
  BY <1>1, <1>4 DEF StateOK, With, Fields
<1>5. PICK array \in BOOLEAN : array = \E s \in st.structs : s \in ArrayLike
  OBVIOUS
<1>6. CASE st.structs = {} /\ phase' = "literals" /\ UNCHANGED st
  <2>1. StructBits(S) = {} /\ Tagged(S)
    BY <1>2, <1>3, <1>6 DEF StructBits, Tagged
  <2>2. st'.types = st.types /\ st'.literals = st.literals
    BY <1>6
  <2>3. QED
    BY <1>2, <1>6, <2>1, <2>2 DEF Structured
<1>7. CASE /\ st.structs # {} /\ ~st.many /\ phase' = "literals"
           /\ st' = [st EXCEPT !.types = @ \cup {IF array THEN "structarray" ELSE "struct"},
                               !.obj["structinfo"] = CHOOSE s \in st.structs : TRUE]
  <2>1. Tagged(S)
    BY <1>2, <1>7 DEF Tagged
  <2>2. PICK b : b = IF array THEN "structarray" ELSE "struct"
    OBVIOUS
  <2>3. StructBits(S) = {b}
    BY <1>2, <1>5, <1>7, <2>2 DEF StructBits, StructBit
  <2>4. PICK x : x = CHOOSE s \in st.structs : TRUE
    OBVIOUS
  <2>5. PICK types : types = st.types \cup {b}
    OBVIOUS
  <2>6. st' = With(st, types, "structinfo", x)
    BY <1>7, <2>2, <2>4, <2>5 DEF With
  <2>7. st'.types = types /\ st'.literals = st.literals
    BY <1>4, <2>6
  <2>8. b \notin Hooks
    BY <2>2 DEF Hooks
  <2>9. types \ Hooks = TypeBits(S) \cup StructBits(S)
    BY <1>2, <2>3, <2>5, <2>8
  <2>10. QED
    BY <1>2, <1>7, <2>1, <2>7, <2>9 DEF Structured
<1>8. CASE /\ st.many /\ Distinguishable(st.structs) /\ phase' = "literals"
           /\ st' = [st EXCEPT !.types = @ \cup {IF array THEN "structarrayunion"
                                                 ELSE "structunion"},
                               !.obj["structlookup"] = st.structs]
  <2>1. Tagged(S)
    BY <1>2, <1>8 DEF Tagged
  <2>2. PICK b : b = IF array THEN "structarrayunion" ELSE "structunion"
    OBVIOUS
  <2>3. StructBits(S) = {b}
    BY <1>2, <1>3, <1>5, <1>8, <2>2 DEF StructBits, StructBit
  <2>4. PICK x : x = st.structs
    OBVIOUS
  <2>5. PICK types : types = st.types \cup {b}
    OBVIOUS
  <2>6. st' = With(st, types, "structlookup", x)
    BY <1>8, <2>2, <2>4, <2>5 DEF With
  <2>7. st'.types = types /\ st'.literals = st.literals
    BY <1>4, <2>6
  <2>8. b \notin Hooks
    BY <2>2 DEF Hooks
  <2>9. types \ Hooks = TypeBits(S) \cup StructBits(S)
    BY <1>2, <2>3, <2>5, <2>8
  <2>10. QED
    BY <1>2, <1>8, <2>1, <2>7, <2>9 DEF Structured
<1>9. CASE st.many /\ ~Distinguishable(st.structs) /\ phase' = "refused"
  BY <1>2, <1>9 DEF Tagged
<1>10. QED
  BY <1>5, <1>6, <1>7, <1>8, <1>9 DEF ValidateStructs

(* The pass over the literals.                                              *)
LEMMA LiteralsAreComplete ==
    ASSUME StateOK(st), NEW S, Structured(st, S), ValidateLiterals
    PROVE  Complete(st', S)
<1>1. st.literals = Values(S) /\ st.types \ Hooks = TypeBits(S) \cup StructBits(S)
  BY DEF Structured
<1>2. Ints(S) = st.literals \cap IntLiterals
      /\ Strs(S) = st.literals \ (IntLiterals \cup {"none", "true", "false"})
  BY <1>1 DEF Ints, Strs
<1>3. PICK ints : ints = Ints(S)
  OBVIOUS
<1>4. PICK strs : strs = Strs(S)
  OBVIOUS
<1>5. PICK x : x = IF ints = {} THEN Null ELSE ints
  OBVIOUS
<1>6. PICK y : y = IF strs = {} THEN Null ELSE strs
  OBVIOUS
<1>7. PICK types : types = st.types \cup (IF ints # {} THEN {"intliteral"} ELSE {})
                               \cup (IF strs # {} THEN {"strliteral"} ELSE {})
                               \cup (st.literals \cap {"none", "true", "false"})
  OBVIOUS
<1>8. st' = [st EXCEPT !.types = types, !.obj["intliteral"] = x, !.obj["strliteral"] = y]
  BY <1>2, <1>3, <1>4, <1>5, <1>6, <1>7 DEF ValidateLiterals
<1>9. st = [i \in Fields |-> st[i]]
  BY DEF StateOK
<1>10. st'.types = types
  BY <1>8, <1>9 DEF Fields
<1>11. types = st.types \cup LiteralBits(S)
  BY <1>1, <1>3, <1>4, <1>7 DEF LiteralBits
<1>12. LiteralBits(S) \cap Hooks = {}
  BY DEF LiteralBits, Hooks
<1>13. types \ Hooks = AllBits(S)
  BY <1>1, <1>11, <1>12 DEF AllBits
<1>14. QED
  BY <1>10, <1>13 DEF Complete, Structured

(* Before the first member.                                                 *)
LEMMA NothingGathered == Gathered(Cleared, {})
<1>1. TypeBits({}) = {} /\ Classes({}) = {} /\ Values({}) = {} /\ ~Many({}) /\ OnePerSlot({})
  BY DEF TypeBits, Classes, Values, Of, Many, OnePerSlot
<1>2. /\ Cleared.types = {} /\ Cleared.structs = {} /\ Cleared.literals = {}
      /\ Cleared.many = FALSE /\ \A o \in Slot : Cleared.obj[o] = Null
  BY DEF Cleared
<1>3. QED
  BY <1>1, <1>2 DEF Gathered

(* A union has finitely many members.                                       *)
LEMMA SeenIsFinite ==
    ASSUME seen \in Seq(Member)
    PROVE  IsFiniteSet(SeenMembers) /\ SeenMembers \in SUBSET Member
<1>1. Len(seen) \in Nat /\ seen \in [1..Len(seen) -> Member]
  OBVIOUS
<1>2. PICK f : f = [k \in 1..Len(seen) |-> seen[k]]
  OBVIOUS
<1>3. f \in Surjection(1..Len(seen), SeenMembers)
  BY <1>2 DEF Surjection, SeenMembers
<1>4. IsFiniteSet(1..Len(seen))
  BY <1>1, FS_Interval
<1>5. IsFiniteSet(SeenMembers)
  BY <1>3, <1>4, FS_Surjection
<1>6. QED
  BY <1>1, <1>5 DEF SeenMembers

-----------------------------------------------------------------------------
(* The invariant: the state is what the set of the members makes of it.     *)

Plainly == NoAny /\ SerializersApart(SeenMembers)

OrderInv ==
    Plainly =>
        /\ phase \in {"collect", "structs", "literals", "check"} => \A m \in SeenMembers : Suits(m)
        /\ phase \in {"collect", "structs"} => Gathered(st, SeenMembers)
        /\ phase = "literals" => Structured(st, SeenMembers)
        /\ phase = "check" => Complete(st, SeenMembers)
        /\ phase \in {"layout", "done"} => Supported(SeenMembers)
        /\ phase = "refused" => ~Supported(SeenMembers)

(* Every step keeps it.                                                     *)
LEMMA OrderStep ==
    ASSUME IInv, AnyInv, OrderInv, [Next]_vars
    PROVE  OrderInv'
<1> PICK S : S = SeenMembers
  OBVIOUS
<1>1. IsFiniteSet(S) /\ S \in SUBSET Member /\ (Plainly => \A m \in S : m.type # "any")
  BY SeenIsFinite DEF IInv, NoAny, Plainly
<1>2. UNCHANGED seen => SeenMembers' = S /\ (Plainly' <=> Plainly)
  BY DEF SeenMembers, NoAny, Plainly
<1>3. ASSUME NEW m \in Member, Collect(m) PROVE OrderInv'
  <2> SUFFICES ASSUME Plainly' PROVE OrderInv'
    BY DEF OrderInv
  <2>1. /\ Good(st) /\ st.ok /\ ("any" \in st.types <=> ~NoAny) /\ seen \in Seq(Member)
    BY <1>3 DEF IInv, AnyInv, Collect
  <2>2. PICK t : t = CollectMember(st, m)
    OBVIOUS
  <2>3. st' = t /\ phase' = (IF t.ok THEN "collect" ELSE "refused") /\ seen' = Append(seen, m)
    BY <1>3, <2>2 DEF Collect
  <2>4. NoAny /\ m.type # "any"
    BY <2>1, <2>3, SeenGrows DEF Plainly
  <2>5. SeenMembers' = S \cup {m}
    BY <2>1, <2>3, SeenMembersGrow
  <2>6. SerializersApart(S \cup {m}) /\ Plainly
    BY <2>4, <2>5 DEF Plainly, SerializersApart
  <2>7. m \notin S
    BY <1>3 DEF Collect, SeenMembers
  <2>8. Gathered(st, S) /\ \A n \in S : Suits(n)
    BY <1>3, <2>6 DEF OrderInv, Collect
  <2>9. IF t.ok THEN Gathered(t, S \cup {m}) /\ Suits(m) ELSE ~Supported(S \cup {m})
    BY <1>1, <2>1, <2>2, <2>4, <2>7, <2>8, <2>6, MemberGathers
  <2>10. CASE t.ok
    <3>1. phase' = "collect" /\ Gathered(st', S \cup {m}) /\ \A n \in S \cup {m} : Suits(n)
      BY <2>3, <2>8, <2>9, <2>10
    <3>2. QED
      BY <2>5, <3>1 DEF OrderInv
  <2>11. CASE ~t.ok
    BY <2>3, <2>5, <2>9, <2>11 DEF OrderInv
  <2>12. QED
    BY <2>10, <2>11
<1>4. CASE Collected
  <2>1. phase = "collect" /\ phase' = "structs" /\ UNCHANGED <<seen, st>>
    BY <1>4 DEF Collected
  <2>2. QED
    BY <1>2, <2>1 DEF OrderInv
<1>5. CASE StructFails \/ \E k \in 1..Len(Layout) : StoreFails(k)
  <2>1. phase' = "failed" /\ UNCHANGED <<seen, st>>
    BY <1>5 DEF StructFails, StoreFails
  <2>2. QED
    BY <2>1 DEF OrderInv
<1>6. CASE Built \/ \E k \in 1..Len(Layout) : Store(k)
  <2>1. phase = "layout" /\ phase' \in {"layout", "done"} /\ UNCHANGED <<seen, st>>
    BY <1>6 DEF Built, Store
  <2>2. QED
    BY <1>2, <2>1 DEF OrderInv
<1>7. CASE ValidateStructs
  <2> SUFFICES ASSUME Plainly' PROVE OrderInv'
    BY DEF OrderInv
  <2>1. phase = "structs" /\ UNCHANGED seen /\ phase' \in {"literals", "refused"}
    BY <1>7 DEF ValidateStructs
  <2>2. Plainly /\ Good(st) /\ st.ok
    BY <1>2, <2>1 DEF IInv
  <2>3. Gathered(st, S) /\ \A n \in S : Suits(n)
    BY <2>1, <2>2 DEF OrderInv
  <2>4. /\ phase' = "literals" => Structured(st', S)
        /\ phase' = "refused" => ~Tagged(S)
    BY <1>7, <2>2, <2>3, StructsAreStructured
  <2>5. ~Tagged(S) => ~Supported(S)
    BY <1>1, TagsAre, SupportedIs
  <2>6. QED
    BY <1>2, <2>1, <2>3, <2>4, <2>5 DEF OrderInv
<1>8. CASE ValidateLiterals
  <2> SUFFICES ASSUME Plainly' PROVE OrderInv'
    BY DEF OrderInv
  <2>1. phase = "literals" /\ UNCHANGED seen /\ phase' = "check"
    BY <1>8 DEF ValidateLiterals
  <2>2. Plainly /\ StateOK(st)
    BY <1>2, <2>1 DEF IInv
  <2>3. Structured(st, S) /\ \A n \in S : Suits(n)
    BY <2>1, <2>2 DEF OrderInv
  <2>4. Complete(st', S)
    BY <1>8, <2>2, <2>3, LiteralsAreComplete
  <2>5. QED
    BY <1>2, <2>1, <2>3, <2>4 DEF OrderInv
<1>9. CASE Check
  <2> SUFFICES ASSUME Plainly' PROVE OrderInv'
    BY DEF OrderInv
  <2>1. /\ phase = "check" /\ UNCHANGED seen
        /\ phase' = IF Ambiguous(st) THEN "refused" ELSE "layout"
    BY <1>9 DEF Check
  <2>2. Plainly /\ Kept(st)
    BY <1>2, <2>1 DEF IInv
  <2>3. Complete(st, S) /\ \A n \in S : Suits(n)
    BY <2>1, <2>2 DEF OrderInv
  <2>4. Ambiguous(st) <=> ~Supported(S)
    BY <1>1, <2>2, <2>3, AmbiguousIs
  <2>5. QED
    BY <1>2, <2>1, <2>4 DEF OrderInv
<1>10. CASE Clear
  <2>1. st' = Cleared /\ seen' = <<>> /\ phase' = "collect"
    BY <1>10 DEF Clear
  <2>2. SeenMembers' = {}
    BY <2>1 DEF SeenMembers
  <2>3. QED
    BY <2>1, <2>2, NothingGathered DEF OrderInv
<1>11. CASE UNCHANGED vars
  <2>1. UNCHANGED <<phase, seen, st>>
    BY <1>11 DEF vars
  <2>2. QED
    BY <1>2, <2>1 DEF OrderInv
<1>12. QED
  BY <1>3, <1>4, <1>5, <1>6, <1>7, <1>8, <1>9, <1>10, <1>11 DEF Next

(* A union whose Serializers are apart from native types is accepted or     *)
(* refused whatever the order of its members: it is accepted if and only if *)
(* the set of them is within the restrictions that the documentation puts   *)
(* on unions.                                                               *)
THEOREM AcceptedInAnyOrder ==
    Spec => [](SerializersApart(SeenMembers) => OrderDoesNotMatter)
<1>1. Init => OrderInv
  <2> SUFFICES ASSUME Init PROVE OrderInv
    OBVIOUS
  <2>1. st = Cleared /\ SeenMembers = {} /\ phase = "collect"
    BY DEF Init, SeenMembers
  <2>2. QED
    BY <2>1, NothingGathered DEF OrderInv
<1>2. IInv /\ AnyInv /\ OrderInv /\ [Next]_vars => OrderInv'
  BY OrderStep
<1>3. OrderInv => (SerializersApart(SeenMembers) => OrderDoesNotMatter)
  BY DEF OrderInv, Plainly, OrderDoesNotMatter
<1>4. QED
  BY <1>1, <1>2, <1>3, Invariance, SpecAny, PTL DEF Spec

(* Where no such union can be written, the order of no union matters.       *)
THEOREM OrderIsIrrelevant ==
    ASSUME SerializersApart(Member)
    PROVE  Spec => []OrderDoesNotMatter
<1>1. IInv => SerializersApart(SeenMembers)
  BY SeenIsFinite DEF IInv, SerializersApart
<1>2. QED
  BY <1>1, Invariance, AcceptedInAnyOrder, PTL
=============================================================================
