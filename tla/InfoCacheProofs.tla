-------------------------- MODULE InfoCacheProofs --------------------------
(***************************************************************************)
(* Theorems about InfoCache for every set of threads and classes, every    *)
(* field table, with or without the GIL, and whether or not annotations    *)
(* give up the GIL or the critical sections: mutual exclusion, reference   *)
(* counts, error handling, what a node refers to, and that nothing keeps   *)
(* an info whose conversion failed.                                        *)
(***************************************************************************)
EXTENDS InfoCache, TLAPS

(* A call is well formed: a build has the info it builds.                  *)
FrameOK(f) ==
    /\ f \in Frame
    /\ f.kind = "struct" /\ f.pc \in {"fields", "publish", "mark", "clear"} =>
           f.info \in InfoId
    /\ f.kind = "struct" /\ f.pc \in {"fast", "load", "enter", "held", "annotate", "annotated",
                                         "switched"} => f.info = NoInfo

(* The call g can have called f.                                            *)
Calls(g, f) ==
    \/ g.kind = "node" /\ g.pc = "members" /\ f.kind = "struct"
    \/ g.kind = "struct" /\ g.pc = "fields" /\ f.kind = "node"

(* A stack is rooted in a request, and each call was made by the one below. *)
StackOK(s) ==
    /\ s \in Seq(Frame)
    /\ \A k \in 1..Len(s) :
          /\ FrameOK(s[k])
          /\ k = 1 => s[k].kind \in {"node", "read"}
          /\ k > 1 => Calls(s[k - 1], s[k])

StacksOK == \A t \in Thread : StackOK(frames[t])

-----------------------------------------------------------------------------
(* The four ways a step changes the stack of its thread.                    *)

LEMMA BecomeStack ==
    ASSUME NEW s, StackOK(s), Len(s) > 0, NEW f, FrameOK(f),
           f.kind = s[Len(s)].kind \/ (Len(s) = 1 /\ f.kind \in {"node", "read"}),
           NEW r, r = [s EXCEPT ![Len(s)] = f]
    PROVE  /\ StackOK(r)
           /\ Len(r) = Len(s)
           /\ \A k \in 1..Len(s) : r[k] = IF k = Len(s) THEN f ELSE s[k]
<1>1. s \in Seq(Frame) /\ Len(s) \in Nat /\ f \in Frame
  BY DEF StackOK, FrameOK
<1>2. r \in Seq(Frame) /\ Len(r) = Len(s)
  BY <1>1
<1>3. \A k \in 1..Len(s) : r[k] = IF k = Len(s) THEN f ELSE s[k]
  BY <1>1
<1>4. ASSUME NEW k \in 1..Len(r)
      PROVE  /\ FrameOK(r[k])
             /\ k = 1 => r[k].kind \in {"node", "read"}
             /\ k > 1 => Calls(r[k - 1], r[k])
  <2>1. FrameOK(r[k])
    BY <1>2, <1>3, <1>4 DEF StackOK
  <2>2. k = 1 => r[k].kind \in {"node", "read"}
    BY <1>1, <1>2, <1>3, <1>4 DEF StackOK
  <2>3. ASSUME k > 1 PROVE Calls(r[k - 1], r[k])
    <3>1. Calls(s[k - 1], s[k]) /\ r[k - 1] = s[k - 1]
      BY <1>1, <1>2, <1>3, <1>4, <2>3 DEF StackOK
    <3>2. CASE k = Len(s)
      <4>1. r[k] = f /\ f.kind = s[k].kind
        BY <1>1, <1>3, <2>3, <3>2
      <4> QED BY <3>1, <4>1 DEF Calls
    <3>3. CASE k # Len(s)
      BY <1>2, <1>3, <1>4, <3>1, <3>3
    <3> QED BY <3>2, <3>3
  <2> QED BY <2>1, <2>2, <2>3
<1>5. StackOK(r)
  BY <1>2, <1>4 DEF StackOK
<1> QED BY <1>2, <1>3, <1>5

LEMMA CallStack ==
    ASSUME NEW s, StackOK(s), NEW f, FrameOK(f),
           Len(s) = 0 => f.kind \in {"node", "read"},
           Len(s) > 0 => Calls(s[Len(s)], f)
    PROVE  /\ StackOK(Append(s, f))
           /\ Len(Append(s, f)) = Len(s) + 1
           /\ \A k \in 1..Len(s) + 1 :
                 Append(s, f)[k] = IF k = Len(s) + 1 THEN f ELSE s[k]
<1> DEFINE r == Append(s, f)
<1>1. s \in Seq(Frame) /\ Len(s) \in Nat /\ f \in Frame
  BY DEF StackOK, FrameOK
<1>2. r \in Seq(Frame) /\ Len(r) = Len(s) + 1
  BY <1>1
<1>3. \A k \in 1..Len(r) : r[k] = IF k = Len(r) THEN f ELSE s[k]
  BY <1>1, <1>2
<1> HIDE DEF r
<1>4. ASSUME NEW k \in 1..Len(r)
      PROVE  /\ FrameOK(r[k])
             /\ k = 1 => r[k].kind \in {"node", "read"}
             /\ k > 1 => Calls(r[k - 1], r[k])
  <2>1. CASE k = Len(r)
    BY <1>1, <1>2, <1>3, <2>1
  <2>2. CASE k # Len(r)
    BY <1>1, <1>2, <1>3, <2>2 DEF StackOK
  <2> QED BY <2>1, <2>2
<1>5. StackOK(r)
  BY <1>2, <1>4 DEF StackOK
<1> QED BY <1>2, <1>3, <1>5 DEF r

LEMMA ReturnStack ==
    ASSUME NEW s, StackOK(s), Len(s) > 1, NEW f, FrameOK(f),
           f.kind = s[Len(s) - 1].kind,
           NEW r, r = [SubSeq(s, 1, Len(s) - 1) EXCEPT ![Len(s) - 1] = f]
    PROVE  /\ StackOK(r)
           /\ Len(r) = Len(s) - 1
           /\ \A k \in 1..Len(r) : r[k] = IF k = Len(r) THEN f ELSE s[k]
<1> DEFINE q == SubSeq(s, 1, Len(s) - 1)
<1>1. s \in Seq(Frame) /\ Len(s) \in Nat
  BY DEF StackOK
<1>2. q \in Seq(Frame) /\ Len(q) = Len(s) - 1 /\ \A k \in 1..Len(q) : q[k] = s[k]
  BY <1>1
<1>3. r = [q EXCEPT ![Len(q)] = f]
  BY <1>2
<1> HIDE DEF q
<1>4. ASSUME NEW k \in 1..Len(q)
      PROVE  /\ FrameOK(q[k])
             /\ k = 1 => q[k].kind \in {"node", "read"}
             /\ k > 1 => Calls(q[k - 1], q[k])
  <2>1. k \in 1..Len(s) /\ q[k] = s[k] /\ (k > 1 => q[k - 1] = s[k - 1])
    BY <1>1, <1>2
  <2> QED BY <2>1 DEF StackOK
<1>5. StackOK(q)
  BY <1>2, <1>4 DEF StackOK
<1>6. Len(q) > 0 /\ q[Len(q)] = s[Len(s) - 1]
  BY <1>1, <1>2
<1>7. /\ StackOK(r)
      /\ Len(r) = Len(q)
      /\ \A k \in 1..Len(q) : r[k] = IF k = Len(q) THEN f ELSE q[k]
  BY <1>3, <1>5, <1>6, BecomeStack, SMTT(60)
<1> QED BY <1>2, <1>7

-----------------------------------------------------------------------------
(* The builds on the stacks, and the steps that leave them alone.           *)

BuildAt(t, k, i) == k \in 1..Depth(t) /\ IsBuild(frames[t][k], i)

(* The builds on all the stacks are those of the state before.              *)
SameBuilds ==
    \A t \in Thread : \A k \in Nat : \A i \in InfoId :
        BuildAt(t, k, i)' <=> BuildAt(t, k, i)

SameBuild(f, g) == \A i \in InfoId : IsBuild(f, i) <=> IsBuild(g, i)
NoBuild(f) == \A i \in InfoId : ~IsBuild(f, i)

FramesOK == frames \in [Thread -> Seq(Frame)] /\ StacksOK

LEMMA BecomeStep ==
    ASSUME FramesOK, NEW t \in Thread, Depth(t) > 0, NEW f, FrameOK(f),
           f.kind = Top(t).kind \/ (Depth(t) = 1 /\ f.kind \in {"node", "read"}),
           Become(t, f)
    PROVE  /\ FramesOK'
           /\ Depth(t)' = Depth(t) /\ Top(t)' = f
           /\ \A u \in Thread : \A k \in 1..Depth(u) :
                 ~(u = t /\ k = Depth(t)) => frames'[u][k] = frames[u][k]
           /\ \A u \in Thread : Depth(u)' = Depth(u)
           /\ SameBuild(f, Top(t)) => SameBuilds
<1>1. StackOK(frames[t]) /\ Len(frames[t]) > 0 /\ Len(frames[t]) \in Nat
  BY DEF FramesOK, StacksOK, Depth, StackOK
<1>2. frames'[t] = [frames[t] EXCEPT ![Len(frames[t])] = f]
  BY DEF Become, FramesOK
<1>3. \A u \in Thread : u # t => frames'[u] = frames[u]
  BY DEF Become, FramesOK
<1>4. /\ StackOK(frames'[t])
      /\ Len(frames'[t]) = Len(frames[t])
      /\ \A k \in 1..Len(frames[t]) :
            frames'[t][k] = IF k = Len(frames[t]) THEN f ELSE frames[t][k]
  BY <1>1, <1>2, BecomeStack DEF Depth, Top
<1>5. FramesOK'
  <2>1. \A u \in Thread : StackOK(frames'[u])
    BY <1>3, <1>4 DEF FramesOK, StacksOK
  <2>2. frames' \in [Thread -> Seq(Frame)]
    BY <2>1 DEF Become, FramesOK, StackOK
  <2> QED BY <2>1, <2>2 DEF FramesOK, StacksOK, StackOK, FrameOK, Calls
<1>6. SameBuild(f, Top(t)) => SameBuilds
  BY <1>1, <1>3, <1>4 DEF SameBuild, SameBuilds, BuildAt, Depth, Top, IsBuild
<1> QED BY <1>1, <1>3, <1>4, <1>5, <1>6 DEF Depth, Top

LEMMA CallStep ==
    ASSUME FramesOK, NEW t \in Thread, NEW f, FrameOK(f), NoBuild(f),
           \/ Depth(t) = 0 /\ f.kind \in {"node", "read"}
           \/ Depth(t) > 0 /\ Calls(Top(t), f),
           Call(t, f)
    PROVE  FramesOK' /\ SameBuilds
<1>1. StackOK(frames[t]) /\ Len(frames[t]) \in Nat
  BY DEF FramesOK, StacksOK, StackOK
<1>2. frames'[t] = Append(frames[t], f)
  BY DEF Call, FramesOK
<1>3. \A u \in Thread : u # t => frames'[u] = frames[u]
  BY DEF Call, FramesOK
<1>4. /\ StackOK(frames'[t])
      /\ Len(frames'[t]) = Len(frames[t]) + 1
      /\ \A k \in 1..Len(frames'[t]) :
            frames'[t][k] = IF k = Len(frames'[t]) THEN f ELSE frames[t][k]
  <2>1. /\ Len(frames[t]) = 0 => f.kind \in {"node", "read"}
        /\ Len(frames[t]) > 0 => Calls(frames[t][Len(frames[t])], f)
    BY <1>1 DEF Depth, Top
  <2> QED BY <1>1, <1>2, <2>1, CallStack
<1>5. FramesOK'
  <2>1. \A u \in Thread : StackOK(frames'[u])
    BY <1>3, <1>4 DEF FramesOK, StacksOK
  <2>2. frames' \in [Thread -> Seq(Frame)]
    BY <2>1 DEF Call, FramesOK, StackOK
  <2> QED BY <2>1, <2>2 DEF FramesOK, StacksOK, StackOK, FrameOK, Calls
<1>6. SameBuilds
  BY <1>1, <1>3, <1>4, SMTT(60) DEF NoBuild, SameBuilds, BuildAt, Depth, IsBuild
<1> QED BY <1>5, <1>6

LEMMA ReturnStep ==
    ASSUME FramesOK, NEW t \in Thread, Depth(t) > 1, NEW f, FrameOK(f),
           f.kind = Caller(t).kind, NoBuild(Top(t)), SameBuild(f, Caller(t)),
           Return(t, f)
    PROVE  FramesOK' /\ SameBuilds
<1>1. StackOK(frames[t]) /\ Len(frames[t]) > 1 /\ Len(frames[t]) \in Nat
  BY DEF FramesOK, StacksOK, StackOK, Depth
<1>2. frames'[t] = [SubSeq(frames[t], 1, Len(frames[t]) - 1)
                        EXCEPT ![Len(frames[t]) - 1] = f]
  BY DEF Return, Popped, Depth, FramesOK
<1>3. \A u \in Thread : u # t => frames'[u] = frames[u]
  BY DEF Return, FramesOK
<1>4. /\ StackOK(frames'[t])
      /\ Len(frames'[t]) = Len(frames[t]) - 1
      /\ \A k \in 1..Len(frames'[t]) :
            frames'[t][k] = IF k = Len(frames'[t]) THEN f ELSE frames[t][k]
  <2>1. f.kind = frames[t][Len(frames[t]) - 1].kind
    BY DEF Depth, Caller
  <2> QED BY <1>1, <1>2, <2>1, ReturnStack, SMTT(60)
<1>5. FramesOK'
  <2>1. \A u \in Thread : StackOK(frames'[u])
    BY <1>3, <1>4 DEF FramesOK, StacksOK
  <2>2. frames' \in [Thread -> Seq(Frame)]
    BY <2>1 DEF Return, FramesOK, StackOK
  <2> QED BY <2>1, <2>2 DEF FramesOK, StacksOK, StackOK, FrameOK, Calls
<1>6. SameBuilds
  <2> SUFFICES ASSUME NEW k \in Nat, NEW i \in InfoId
               PROVE  BuildAt(t, k, i)' <=> BuildAt(t, k, i)
    BY <1>3 DEF SameBuilds, BuildAt, Depth, IsBuild
  <2>1. CASE k = Len(frames[t])
    BY <1>1, <1>4, <2>1 DEF BuildAt, Depth, Top, NoBuild
  <2>2. CASE k = Len(frames[t]) - 1
    <3>1. k \in 1..Len(frames[t]) /\ k \in 1..Len(frames'[t]) /\ frames'[t][k] = f
      BY <1>1, <1>4, <2>2
    <3>2. IsBuild(f, i) <=> IsBuild(frames[t][k], i)
      BY <2>2 DEF SameBuild, Caller, Depth
    <3>3. BuildAt(t, k, i)' <=> IsBuild(frames'[t][k], i)
      BY <3>1 DEF BuildAt, Depth, IsBuild
    <3>4. BuildAt(t, k, i) <=> IsBuild(frames[t][k], i)
      BY <3>1 DEF BuildAt, Depth
    <3> QED BY <3>1, <3>2, <3>3, <3>4
  <2>3. CASE k # Len(frames[t]) /\ k # Len(frames[t]) - 1
    BY <1>1, <1>4, <2>3 DEF BuildAt, Depth, IsBuild
  <2> QED BY <2>1, <2>2, <2>3
<1> QED BY <1>5, <1>6

LEMMA LeaveStep ==
    ASSUME FramesOK, NEW t \in Thread, Depth(t) = 1, NoBuild(Top(t)),
           frames' = [frames EXCEPT ![t] = <<>>]
    PROVE  FramesOK' /\ SameBuilds
<1>1. frames'[t] = <<>> /\ \A u \in Thread : u # t => frames'[u] = frames[u]
  BY DEF FramesOK
<1>2. StackOK(frames'[t]) /\ Len(frames'[t]) = 0
  <2>1. <<>> \in Seq(Frame) /\ Len(<<>>) = 0 /\ 1..0 = {}
    OBVIOUS
  <2>2. StackOK(<<>>)
    BY <2>1, Zenon DEF StackOK
  <2> QED BY <1>1, <2>1, <2>2
<1>3. FramesOK'
  <2>1. \A u \in Thread : StackOK(frames'[u])
    BY <1>1, <1>2 DEF FramesOK, StacksOK
  <2>2. frames' \in [Thread -> Seq(Frame)]
    BY <2>1 DEF FramesOK, StackOK
  <2> QED BY <2>1, <2>2 DEF FramesOK, StacksOK, StackOK, FrameOK, Calls
<1>4. SameBuilds
  BY <1>1, <1>2 DEF SameBuilds, BuildAt, Depth, Top, NoBuild, IsBuild
<1> QED BY <1>3, <1>4

-----------------------------------------------------------------------------
(* The inductive invariant.                                                 *)

DataOK ==
    /\ status \in [InfoId -> {"unused", "building", "ready", "failed"}]
    /\ class \in [InfoId -> Class]
    /\ slots \in [InfoId -> Seq(Nodes)]
    /\ ptr \in [Class -> InfoId \cup {NoInfo}]
    /\ ready \in [Class -> BOOLEAN]
    /\ overwritten \subseteq Class
    /\ cache \in Seq(Nodes)
    /\ budget \in 0..MaxFailures

LocksOK ==
    /\ sections \in [Thread -> Seq(Lock)]
    /\ held \in [Lock -> Thread \cup {NoThread}]
    /\ gil \in Thread \cup {NoThread}

(* An info is BUILDING exactly while one call builds it.                    *)
Ownership ==
    /\ EveryBuildHasABuilder
    /\ \A t \in Thread : \A k \in Nat : \A i \in InfoId :
          BuildAt(t, k, i) => status[i] = "building"
    /\ \A t, u \in Thread : \A k, m \in Nat : \A i \in InfoId :
          BuildAt(t, k, i) /\ BuildAt(u, m, i) => t = u /\ k = m

IInv == DataOK /\ LocksOK /\ FramesOK /\ Ownership

LEMMA Constants ==
    /\ 0 \notin InfoId /\ InfoId \subseteq Nat
    /\ \A c \in Class : Fields[c] \in Seq(SUBSET Class)
    /\ \A S \in Requests : S \in SUBSET Class
    /\ NoNode \in Nodes
<1>1. NoNode \in [{} -> InfoId] /\ {} \in SUBSET Class
  BY DEF NoNode
<1>2. NoNode \in Nodes
  BY <1>1 DEF Nodes
<1>3. 0 \notin InfoId /\ InfoId \subseteq Nat
  BY ConstantsOK DEF ConstantsOK, InfoId
<1>4. /\ \A c \in Class : Fields[c] \in Seq(SUBSET Class)
      /\ \A S \in Requests : S \in SUBSET Class
  BY ConstantsOK DEF ConstantsOK
<1> QED BY <1>2, <1>3, <1>4

LEMMA Quiet ==
    ASSUME FramesOK, FramesOK', Ownership, SameBuilds, UNCHANGED status
    PROVE  Ownership'
<1>1. ASSUME NEW i \in InfoId, status'[i] = "building"
      PROVE  \E t \in Thread : \E k \in (1..Depth(t))' : IsBuild(frames[t][k], i)'
  <2>1. PICK t \in Thread : \E k \in 1..Depth(t) : IsBuild(frames[t][k], i)
    BY <1>1 DEF Ownership, EveryBuildHasABuilder
  <2> PICK k \in 1..Depth(t) : IsBuild(frames[t][k], i)
    BY <2>1
  <2>2. k \in Nat /\ BuildAt(t, k, i)
    BY <2>1 DEF BuildAt, Depth, FramesOK
  <2>3. BuildAt(t, k, i)'
    BY <2>2 DEF SameBuilds
  <2> QED BY <2>3 DEF BuildAt
<1>2. EveryBuildHasABuilder'
  BY <1>1 DEF EveryBuildHasABuilder
<1>3. \A t \in Thread : \A k \in Nat : \A i \in InfoId :
         BuildAt(t, k, i)' => status'[i] = "building"
  BY DEF Ownership, SameBuilds
<1>4. \A t, u \in Thread : \A k, m \in Nat : \A i \in InfoId :
         BuildAt(t, k, i)' /\ BuildAt(u, m, i)' => t = u /\ k = m
  BY DEF Ownership, SameBuilds
<1> QED BY <1>2, <1>3, <1>4 DEF Ownership

(* What the stack below the running call looks like.                        *)
LEMMA TopOK ==
    ASSUME FramesOK, NEW t \in Thread, Depth(t) > 0
    PROVE  /\ Depth(t) \in Nat
           /\ FrameOK(Top(t))
           /\ Depth(t) = 1 => Top(t).kind \in {"node", "read"}
           /\ Depth(t) > 1 => FrameOK(Caller(t)) /\ Calls(Caller(t), Top(t))
           /\ Top(t).kind = "struct" => Depth(t) > 1
           /\ Top(t).kind = "read" => Depth(t) = 1
<1>1. StackOK(frames[t]) /\ Depth(t) \in Nat
  BY DEF FramesOK, StacksOK, StackOK, Depth
<1>2. /\ FrameOK(Top(t))
      /\ Depth(t) = 1 => Top(t).kind \in {"node", "read"}
      /\ Depth(t) > 1 => FrameOK(Caller(t)) /\ Calls(Caller(t), Top(t))
  BY <1>1 DEF StackOK, Depth, Top, Caller
<1> QED BY <1>1, <1>2 DEF Calls

LEMMA SectionTypes ==
    ASSUME LocksOK, NEW t \in Thread, NEW l \in Lock,
           BeginSection(t, l) \/ EndSection(t) \/ Detach(t)
    PROVE  LocksOK'
<1>1. Without(t) \in [Lock -> Thread \cup {NoThread}]
  BY DEF Without, LocksOK
<1>2. CASE BeginSection(t, l)
  <2>1. \A q \in Seq(Lock) : Append(q, l) \in Seq(Lock)
    OBVIOUS
  <2>2. sections' \in [Thread -> Seq(Lock)]
    BY <1>2, <2>1 DEF BeginSection, LocksOK
  <2>3. held' \in [Lock -> Thread \cup {NoThread}]
    BY <1>1, <1>2 DEF BeginSection, LocksOK
  <2> QED BY <1>2, <2>2, <2>3 DEF BeginSection, LocksOK
<1>3. CASE EndSection(t)
  <2> DEFINE q == SubSeq(sections[t], 1, Len(sections[t]) - 1)
  <2>1. q \in Seq(Lock)
    BY DEF LocksOK
  <2>2. sections' \in [Thread -> Seq(Lock)]
    <3>1. sections' = [sections EXCEPT ![t] = q] \/ sections' = sections
      BY <1>3 DEF EndSection
    <3> HIDE DEF q
    <3> QED BY <2>1, <3>1 DEF LocksOK
  <2>3. held' \in [Lock -> Thread \cup {NoThread}]
    BY <1>3 DEF EndSection, LocksOK
  <2> QED BY <1>3, <2>2, <2>3 DEF EndSection, LocksOK
<1>4. CASE Detach(t)
  BY <1>1, <1>4 DEF Detach, LocksOK
<1> QED BY <1>2, <1>3, <1>4

-----------------------------------------------------------------------------
(* The initial states, and the steps one group of actions at a time.        *)

LEMMA InitInv == Init => IInv
<1> SUFFICES ASSUME Init PROVE IInv
  OBVIOUS
<1>1. DataOK
  BY Constants, ConstantsOK DEF Init, DataOK, ConstantsOK
<1>2. LocksOK
  BY DEF Init, LocksOK
<1>3. FramesOK
  <2>1. <<>> \in Seq(Frame) /\ Len(<<>>) = 0 /\ 1..0 = {}
    OBVIOUS
  <2>2. StackOK(<<>>)
    BY <2>1, Zenon DEF StackOK
  <2> QED BY <2>1, <2>2 DEF Init, FramesOK, StacksOK
<1>4. \A t \in Thread : Len(frames[t]) = 0
  BY DEF Init
<1>5. Ownership
  BY <1>4 DEF Init, Ownership, EveryBuildHasABuilder, BuildAt, Depth
<1> QED BY <1>1, <1>2, <1>3, <1>5 DEF IInv

LEMMA NodeSteps ==
    ASSUME IInv, NEW t \in Thread,
           \/ \E S \in Requests : Request(t, S)
           \/ NodeBegin(t) \/ NodeCollect(t) \/ (\E c \in Class : NodeMember(t, c))
           \/ NodeBuilt(t) \/ NodeEnd(t)
    PROVE  IInv'
<1> USE DEF IInv
<1>1. CASE \E S \in Requests : Request(t, S)
  <2> PICK S \in Requests : Request(t, S)
    BY <1>1
  <2>1. FrameOK(NodeFrame(S)) /\ NoBuild(NodeFrame(S)) /\ Depth(t) = 0
    BY Constants DEF Request, FrameOK, Frame, NodeFrame, NodeFrames, NoBuild, IsBuild, Depth
  <2>2. FramesOK' /\ SameBuilds
    BY <2>1, CallStep DEF Request, NodeFrame
  <2> QED BY <2>2, Quiet DEF Request, DataOK, LocksOK, infoVars, slotVars
<1>2. CASE NodeBegin(t)
  <2> DEFINE f == [Top(t) EXCEPT !.pc = "collect"]
  <2>1. /\ Depth(t) > 0 /\ Become(t, f)
        /\ FrameOK(f) /\ f.kind = Top(t).kind /\ SameBuild(f, Top(t))
    BY <1>2, TopOK DEF NodeBegin, At, Goto, FrameOK, Frame, NodeFrames,
       StructFrames, ReadFrames, SameBuild, IsBuild
  <2> HIDE DEF f
  <2>2. FramesOK' /\ SameBuilds
    BY <2>1, BecomeStep
  <2>3. LocksOK'
    BY <1>2, SectionTypes DEF NodeBegin, Lock
  <2> QED BY <1>2, <2>2, <2>3, Quiet DEF NodeBegin, DataOK, infoVars, slotVars
<1>3. CASE NodeCollect(t)
  <2>1. PICK f : /\ Become(t, f)
                 /\ \/ f = [Top(t) EXCEPT !.pc = "members"]
                    \/ \E k \in 1..Len(cache) :
                          f = [Top(t) EXCEPT !.pc = "end", !.got = cache[k]]
    BY <1>3 DEF NodeCollect, Goto, CachedLookups
  <2>2. /\ Depth(t) > 0
        /\ FrameOK(f) /\ f.kind = Top(t).kind /\ SameBuild(f, Top(t))
    <3>1. \A k \in 1..Len(cache) : cache[k] \in Nodes
      BY DEF DataOK
    <3> QED BY <1>3, <2>1, <3>1, TopOK DEF NodeCollect, At, FrameOK, Frame, NodeFrames,
            StructFrames, ReadFrames, SameBuild, IsBuild
  <2>3. FramesOK' /\ SameBuilds
    BY <2>1, <2>2, BecomeStep
  <2> QED BY <1>3, <2>3, Quiet DEF NodeCollect, DataOK, LocksOK, infoVars, slotVars, lockVars
<1>4. CASE \E c \in Class : NodeMember(t, c)
  <2> PICK c \in Class : NodeMember(t, c)
    BY <1>4
  <2>1. /\ Depth(t) > 0 /\ FrameOK(StructFrame(c)) /\ NoBuild(StructFrame(c))
        /\ Calls(Top(t), StructFrame(c))
    BY Constants DEF NodeMember, At, FrameOK, Frame, StructFrame, StructFrames,
       NoBuild, IsBuild, NoInfo, Calls
  <2>2. FramesOK' /\ SameBuilds
    BY <2>1, CallStep DEF NodeMember
  <2> QED BY <2>2, Quiet DEF NodeMember, DataOK, LocksOK, infoVars, slotVars, lockVars
<1>5. CASE NodeBuilt(t)
  <2> DEFINE f == [Top(t) EXCEPT !.pc = "end"]
  <2>1. /\ Depth(t) > 0 /\ Become(t, f)
        /\ FrameOK(f) /\ f.kind = Top(t).kind /\ SameBuild(f, Top(t))
        /\ Top(t).got \in Nodes
    BY <1>5, TopOK DEF NodeBuilt, At, Goto, FrameOK, Frame, NodeFrames,
       StructFrames, ReadFrames, SameBuild, IsBuild
  <2> HIDE DEF f
  <2>2. FramesOK' /\ SameBuilds
    BY <2>1, BecomeStep
  <2>3. cache' \in Seq(Nodes)
    <3> DEFINE node == Top(t).got
               room == IF Len(cache) = CacheSize THEN Tail(cache) ELSE cache
    <3>1. room \in Seq(Nodes)
      BY ConstantsOK DEF DataOK, ConstantsOK
    <3>2. CASE UNCHANGED cache
      BY <3>2 DEF DataOK
    <3>3. CASE cache' = Append(room, node)
      <4> HIDE DEF room, node
      <4>1. node \in Nodes
        BY <2>1 DEF node
      <4> QED BY <3>1, <3>3, <4>1
    <3>4. CASE \E same \in SUBSET (1..Len(room)) :
                  cache' = [k \in 1..Len(room) |-> IF k \in same THEN node ELSE room[k]]
      <4> HIDE DEF room, node
      <4>1. node \in Nodes
        BY <2>1 DEF node
      <4> QED BY <3>1, <3>4, <4>1
    <3>5. \/ UNCHANGED cache
          \/ cache' = Append(room, node)
          \/ cache' = [k \in 1..Len(room) |->
                IF k \in {j \in 1..Len(room) : DOMAIN room[j] = DOMAIN node}
                THEN node ELSE room[k]]
      BY <1>5 DEF NodeBuilt, CacheLookup
    <3>6. {j \in 1..Len(room) : DOMAIN room[j] = DOMAIN node} \in SUBSET (1..Len(room))
      OBVIOUS
    <3> HIDE DEF room, node
    <3> QED BY <3>2, <3>3, <3>4, <3>5, <3>6
  <2> QED BY <1>5, <2>2, <2>3, Quiet DEF NodeBuilt, DataOK, LocksOK, infoVars, slotVars, lockVars
<1>6. CASE NodeEnd(t)
  <2> DEFINE f == [Top(t) EXCEPT !.pc = "return"]
  <2>1. /\ Depth(t) > 0 /\ Become(t, f)
        /\ FrameOK(f) /\ f.kind = Top(t).kind /\ SameBuild(f, Top(t))
    BY <1>6, TopOK DEF NodeEnd, At, Goto, FrameOK, Frame, NodeFrames,
       StructFrames, ReadFrames, SameBuild, IsBuild
  <2> HIDE DEF f
  <2>2. FramesOK' /\ SameBuilds
    BY <2>1, BecomeStep
  <2>3. LocksOK'
    BY <1>6, SectionTypes DEF NodeEnd, Lock
  <2> QED BY <1>6, <2>2, <2>3, Quiet DEF NodeEnd, DataOK, infoVars, slotVars
<1> QED BY <1>1, <1>2, <1>3, <1>4, <1>5, <1>6


LEMMA StructSteps ==
    ASSUME IInv, NEW t \in Thread,
           \/ FastFlag(t) \/ FastPointer(t) \/ EnterClass(t) \/ CheckHeld(t)
           \/ Annotate(t) \/ AnnotationsFail(t) \/ ConvertField(t) \/ FieldFails(t)
           \/ Publish(t) \/ Unpublish(t) \/ ClearPointer(t) \/ LeaveClass(t)
           \/ StructReturn(t)
    PROVE  IInv'
<1> USE DEF IInv
<1> DEFINE Moved(f) == FrameOK(f) /\ f.kind = Top(t).kind /\ SameBuild(f, Top(t))
<1>1. ASSUME NEW f, Depth(t) > 0, Become(t, f), Moved(f), UNCHANGED status
      PROVE  FramesOK' /\ Ownership'
  BY <1>1, BecomeStep, Quiet
<1>2. CASE FastFlag(t)
  <2>1. \E pc \in {"load", "enter"} : Become(t, [Top(t) EXCEPT !.pc = pc])
    BY <1>2 DEF FastFlag, Goto
  <2>2. /\ Depth(t) > 0
        /\ \A pc \in {"load", "enter"} : Moved([Top(t) EXCEPT !.pc = pc])
    BY <1>2, TopOK DEF FastFlag, At, FrameOK, Frame, NodeFrames,
       StructFrames, ReadFrames, SameBuild, IsBuild
  <2> HIDE DEF Moved
  <2>3. FramesOK' /\ Ownership'
    BY <1>1, <1>2, <2>1, <2>2 DEF FastFlag, infoVars
  <2> QED BY <1>2, <2>3 DEF FastFlag, DataOK, LocksOK, infoVars, slotVars, lockVars
<1>3. CASE FastPointer(t)
  <2>1. PICK f : /\ Become(t, f)
                 /\ f = [Top(t) EXCEPT !.info = ptr[Top(t).cls],
                           !.pc = IF ptr[Top(t).cls] = NoInfo THEN "crash" ELSE "return"]
    BY <1>3 DEF FastPointer
  <2>2. Depth(t) > 0 /\ Moved(f)
    BY <1>3, <2>1, TopOK, ZenonT(60) DEF FastPointer, At, FrameOK, Frame, NodeFrames,
       StructFrames, ReadFrames, SameBuild, IsBuild, DataOK
  <2> HIDE DEF Moved
  <2> QED BY <1>1, <1>3, <2>1, <2>2
          DEF FastPointer, DataOK, LocksOK, infoVars, slotVars, lockVars
<1>4. CASE EnterClass(t)
  <2> DEFINE f == [Top(t) EXCEPT !.pc = "held"]
  <2>1. Depth(t) > 0 /\ Become(t, f) /\ Moved(f) /\ Top(t).cls \in Lock
    BY <1>4, TopOK DEF EnterClass, At, Goto, FrameOK, Frame, NodeFrames,
       StructFrames, ReadFrames, SameBuild, IsBuild, Lock
  <2>2. LocksOK'
    BY <1>4, <2>1, SectionTypes DEF EnterClass
  <2> HIDE DEF Moved, f
  <2> QED BY <1>1, <1>4, <2>1, <2>2 DEF EnterClass, DataOK, infoVars, slotVars
<1>5. CASE CheckHeld(t)
  <2>1. PICK f : /\ Become(t, f)
                 /\ f = [Top(t) EXCEPT !.info = ptr[Top(t).cls],
                           !.pc = IF ptr[Top(t).cls] # NoInfo THEN "exit"
                                  ELSE IF ready[Top(t).cls] THEN "crash" ELSE "annotate"]
    BY <1>5 DEF CheckHeld
  <2>2. Depth(t) > 0 /\ Moved(f)
    BY <1>5, <2>1, TopOK, ZenonT(60) DEF CheckHeld, At, FrameOK, Frame, NodeFrames,
       StructFrames, ReadFrames, SameBuild, IsBuild, DataOK
  <2> HIDE DEF Moved
  <2> QED BY <1>1, <1>5, <2>1, <2>2
          DEF CheckHeld, DataOK, LocksOK, infoVars, slotVars, lockVars
<1>6. CASE Annotate(t)
  <2>0. PICK pc \in {"annotated", "switched"} : Goto(t, pc)
    BY <1>6 DEF Annotate
  <2> DEFINE f == [Top(t) EXCEPT !.pc = pc]
  <2>1. Depth(t) > 0 /\ Become(t, f) /\ Moved(f)
    BY <1>6, <2>0, TopOK DEF Annotate, At, Goto, FrameOK, Frame, NodeFrames,
       StructFrames, ReadFrames, SameBuild, IsBuild
  <2>2. LocksOK'
    <3>1. CASE UNCHANGED lockVars
      BY <3>1 DEF LocksOK, lockVars
    <3>2. CASE Detach(t)
      BY <3>2, SectionTypes DEF Lock
    <3> QED BY <1>6, <3>1, <3>2 DEF Annotate
  <2> HIDE DEF Moved, f
  <2> QED BY <1>1, <1>6, <2>1, <2>2 DEF Annotate, DataOK, infoVars, slotVars
<1>7. CASE AnnotationsFail(t)
  <2> DEFINE f == [Top(t) EXCEPT !.pc = "err"]
  <2>1. Depth(t) > 0 /\ Become(t, f) /\ Moved(f)
    BY <1>7, TopOK, Constants DEF AnnotationsFail, HasAnnotations, At, Goto, FrameOK, Frame, NodeFrames,
       StructFrames, ReadFrames, SameBuild, IsBuild, NoInfo
  <2>2. budget' \in 0..MaxFailures
    BY <1>7, ConstantsOK DEF AnnotationsFail, HasAnnotations, DataOK, ConstantsOK
  <2> HIDE DEF Moved, f
  <2> QED BY <1>1, <1>7, <2>1, <2>2
          DEF AnnotationsFail, HasAnnotations, DataOK, LocksOK, infoVars, slotVars, lockVars
<1>8. CASE ConvertField(t)
  <2> DEFINE S == Fields[Top(t).cls][Len(slots[Top(t).info]) + 1]
  <2>1. /\ Depth(t) > 0 /\ Call(t, NodeFrame(S))
        /\ Top(t).cls \in Class /\ Top(t).info \in InfoId
        /\ Top(t).kind = "struct" /\ Top(t).pc = "fields"
    BY <1>8, TopOK DEF ConvertField, At, FrameOK, Frame, NodeFrames, StructFrames, ReadFrames
  <2>2. S \in SUBSET Class
    <3>1. Fields[Top(t).cls] \in Seq(SUBSET Class) /\ slots[Top(t).info] \in Seq(Nodes)
      BY <2>1, Constants DEF DataOK
    <3> QED BY <1>8, <3>1 DEF ConvertField, Pending
  <2> HIDE DEF S
  <2>3. FrameOK(NodeFrame(S)) /\ NoBuild(NodeFrame(S)) /\ Calls(Top(t), NodeFrame(S))
    BY <2>1, <2>2, Constants DEF FrameOK, Frame, NodeFrame, NodeFrames, NoBuild, IsBuild, Calls
  <2>4. FramesOK' /\ SameBuilds
    BY <2>1, <2>3, CallStep
  <2> QED BY <1>8, <2>4, Quiet DEF ConvertField, DataOK, LocksOK, infoVars, slotVars, lockVars
<1>9. CASE FieldFails(t)
  <2> DEFINE f == [Top(t) EXCEPT !.pc = "err"]
  <2>1. Depth(t) > 0 /\ Become(t, f) /\ Moved(f)
    BY <1>9, TopOK DEF FieldFails, At, Goto, FrameOK, Frame, NodeFrames,
       StructFrames, ReadFrames, SameBuild, IsBuild
  <2>2. budget' \in 0..MaxFailures
    BY <1>9, ConstantsOK DEF FieldFails, DataOK, ConstantsOK
  <2> HIDE DEF Moved, f
  <2> QED BY <1>1, <1>9, <2>1, <2>2
          DEF FieldFails, DataOK, LocksOK, infoVars, slotVars, lockVars
<1>10. CASE Publish(t)
  <2> DEFINE f == [Top(t) EXCEPT !.pc = "exit"]
  <2>1. Depth(t) > 0 /\ Become(t, f) /\ Moved(f)
    BY <1>10, TopOK DEF Publish, At, Goto, FrameOK, Frame, NodeFrames,
       StructFrames, ReadFrames, SameBuild, IsBuild
  <2> HIDE DEF Moved, f
  <2> QED BY <1>1, <1>10, <2>1 DEF Publish, DataOK, LocksOK, infoVars, lockVars
<1>11. CASE Unpublish(t)
  <2> DEFINE f == [Top(t) EXCEPT !.pc = IF Top(t).info = NoInfo THEN "exit" ELSE "mark"]
  <2>1. Depth(t) > 0 /\ Become(t, f) /\ Moved(f)
    BY <1>11, TopOK, Constants DEF Unpublish, At, Goto, FrameOK, Frame, NodeFrames,
       StructFrames, ReadFrames, SameBuild, IsBuild, NoInfo
  <2> HIDE DEF Moved, f
  <2> QED BY <1>1, <1>11, <2>1 DEF Unpublish, DataOK, LocksOK, infoVars, lockVars
<1>12. CASE ClearPointer(t)
  <2> DEFINE f == [Top(t) EXCEPT !.info = NoInfo, !.pc = "exit"]
  <2>1. Depth(t) > 0 /\ Become(t, f) /\ Moved(f)
    BY <1>12, TopOK, ZenonT(60) DEF ClearPointer, At, FrameOK, Frame, NodeFrames,
       StructFrames, ReadFrames, SameBuild, IsBuild
  <2> HIDE DEF Moved, f
  <2> QED BY <1>1, <1>12, <2>1 DEF ClearPointer, DataOK, LocksOK, infoVars, lockVars
<1>13. CASE LeaveClass(t)
  <2> DEFINE f == [Top(t) EXCEPT !.pc = "return"]
  <2>1. Depth(t) > 0 /\ Become(t, f) /\ Moved(f)
    BY <1>13, TopOK DEF LeaveClass, At, Goto, FrameOK, Frame, NodeFrames,
       StructFrames, ReadFrames, SameBuild, IsBuild
  <2>2. LocksOK'
    BY <1>13, SectionTypes DEF LeaveClass, Lock
  <2> HIDE DEF Moved, f
  <2> QED BY <1>1, <1>13, <2>1, <2>2 DEF LeaveClass, DataOK, infoVars, slotVars
<1>14. CASE StructReturn(t)
  <2> DEFINE i == Top(t).info
             n == Caller(t)
             c == Top(t).cls
             got == [d \in DOMAIN n.got \cup {c} |-> IF d = c THEN i ELSE n.got[d]]
             f == IF i = NoInfo THEN [n EXCEPT !.pc = "end", !.ok = FALSE]
                  ELSE [n EXCEPT !.got = got]
  <2>1. /\ Depth(t) > 1 /\ Return(t, f) /\ NoBuild(Top(t))
        /\ FrameOK(n) /\ n.kind = "node" /\ c \in Class /\ i \in InfoId \cup {NoInfo}
    BY <1>14, TopOK DEF StructReturn, At, NoBuild, IsBuild, Calls,
       FrameOK, Frame, NodeFrames, StructFrames, ReadFrames
  <2>2. n \in NodeFrames
    BY <2>1 DEF FrameOK, Frame, NodeFrames, StructFrames, ReadFrames
  <2>3. ASSUME i # NoInfo PROVE got \in Nodes
    <3>1. PICK D \in SUBSET Class : n.got \in [D -> InfoId]
      BY <2>2 DEF NodeFrames, Nodes
    <3>2. D \cup {c} \in SUBSET Class /\ got \in [D \cup {c} -> InfoId]
      BY <2>1, <2>3, <3>1
    <3> QED BY <3>2 DEF Nodes
  <2>4. f \in NodeFrames
    <3>1. CASE i = NoInfo
      BY <2>2, <3>1 DEF NodeFrames
    <3>2. CASE i # NoInfo
      <4>1. got \in Nodes
        BY <2>3, <3>2
      <4> HIDE DEF got
      <4> QED BY <2>2, <3>2, <4>1 DEF NodeFrames
    <3> QED BY <3>1, <3>2
  <2> HIDE DEF f
  <2>5. FrameOK(f) /\ f.kind = n.kind /\ SameBuild(f, n)
    BY <2>1, <2>4 DEF FrameOK, Frame, NodeFrames, SameBuild, IsBuild
  <2>6. FramesOK' /\ SameBuilds
    BY <2>1, <2>5, ReturnStep
  <2> QED BY <1>14, <2>6, Quiet DEF StructReturn, DataOK, LocksOK, infoVars, slotVars, lockVars
<1> QED BY <1>2, <1>3, <1>4, <1>5, <1>6, <1>7, <1>8, <1>9, <1>10, <1>11, <1>12, <1>13, <1>14


LEMMA ReadSteps ==
    ASSUME IInv, NEW t \in Thread,
           \/ RequestReturn(t) \/ GetInfo(t) \/ SpinEnds(t)
           \/ (\E k \in FieldIndex : DecodeField(t, k)) \/ DecodeDone(t) \/ Attach(t)
    PROVE  IInv'
<1> USE DEF IInv
<1> DEFINE Moved(f) == \/ FrameOK(f) /\ f.kind = Top(t).kind /\ SameBuild(f, Top(t))
                       \/ /\ FrameOK(f) /\ f.kind = "read" /\ Top(t).kind = "node"
                          /\ Depth(t) = 1 /\ SameBuild(f, Top(t))
<1>1. ASSUME NEW f, Depth(t) > 0, Become(t, f), Moved(f), UNCHANGED status
      PROVE  FramesOK' /\ Ownership'
  BY <1>1, BecomeStep, Quiet
<1>2. ASSUME Leave(t), Depth(t) = 1, NoBuild(Top(t)), UNCHANGED status
      PROVE  FramesOK' /\ Ownership' /\ LocksOK'
  BY <1>2, LeaveStep, Quiet DEF Leave, LocksOK
<1>3. CASE RequestReturn(t)
  <2>1. /\ Depth(t) = 1 /\ NoBuild(Top(t)) /\ Top(t) \in NodeFrames
    BY <1>3, TopOK DEF RequestReturn, At, NoBuild, IsBuild, FrameOK, Frame,
       NodeFrames, StructFrames, ReadFrames
  <2>2. CASE Leave(t)
    BY <1>2, <1>3, <2>1, <2>2 DEF RequestReturn, DataOK, infoVars, slotVars
  <2>3. CASE ~Leave(t)
    <3>1. /\ UNCHANGED lockVars
          /\ \E c \in DOMAIN Top(t).got : \E pc \in {"member", "get"} :
                Become(t, ReadFrame(pc, Top(t).got[c], MaxDepth))
      BY <1>3, <2>3 DEF RequestReturn
    <3>2. \A c \in DOMAIN Top(t).got : Top(t).got[c] \in InfoId
      BY <2>1 DEF NodeFrames, Nodes
    <3>3. PICK i \in InfoId, pc \in {"member", "get"} : Become(t, ReadFrame(pc, i, MaxDepth))
      BY <3>1, <3>2
    <3>4. Moved(ReadFrame(pc, i, MaxDepth))
      BY <2>1, ConstantsOK DEF ReadFrame, ReadFrames, FrameOK, Frame, NodeFrames,
         SameBuild, IsBuild, ConstantsOK
    <3> HIDE DEF Moved
    <3> QED BY <1>1, <1>3, <2>1, <3>1, <3>3, <3>4
            DEF RequestReturn, DataOK, LocksOK, infoVars, slotVars, lockVars
  <2> QED BY <2>2, <2>3
<1>4. CASE GetInfo(t)
  <2>1. Depth(t) = 1 /\ NoBuild(Top(t))
    BY <1>4, TopOK DEF GetInfo, At, NoBuild, IsBuild
  <2>2. \A pc \in {"use", "spin"} : Moved([Top(t) EXCEPT !.pc = pc])
    BY <1>4, TopOK, <2>1 DEF GetInfo, At, FrameOK, Frame, NodeFrames,
       StructFrames, ReadFrames, SameBuild, IsBuild
  <2> HIDE DEF Moved
  <2>3. CASE Leave(t)
    BY <1>2, <1>4, <2>1, <2>3 DEF GetInfo, DataOK, infoVars, slotVars
  <2>4. CASE Goto(t, "use") /\ UNCHANGED lockVars
    BY <1>1, <1>4, <2>1, <2>2, <2>4 DEF GetInfo, Goto, DataOK, LocksOK, infoVars, slotVars, lockVars
  <2>5. CASE Goto(t, "spin") /\ Detach(t)
    <3>1. LocksOK'
      BY <2>5, SectionTypes DEF Lock
    <3> QED BY <1>1, <1>4, <2>1, <2>2, <2>5, <3>1 DEF GetInfo, Goto, DataOK, infoVars, slotVars
  <2> QED BY <1>4, <2>3, <2>4, <2>5 DEF GetInfo
<1>5. CASE SpinEnds(t)
  <2> DEFINE f == [Top(t) EXCEPT !.pc = "get"]
  <2>1. Depth(t) > 0 /\ Become(t, f) /\ Moved(f)
    BY <1>5, TopOK DEF SpinEnds, At, Goto, FrameOK, Frame, NodeFrames,
       StructFrames, ReadFrames, SameBuild, IsBuild
  <2> HIDE DEF Moved, f
  <2> QED BY <1>1, <1>5, <2>1 DEF SpinEnds, DataOK, LocksOK, infoVars, slotVars, lockVars
<1>6. CASE \E k \in FieldIndex : DecodeField(t, k)
  <2> PICK k \in FieldIndex : DecodeField(t, k)
    BY <1>6
  <2>1. /\ Depth(t) = 1 /\ Depth(t) > 0 /\ Top(t) \in ReadFrames
        /\ k \in 1..Len(Fields[class[Top(t).info]])
    BY TopOK DEF DecodeField, Reading, At, FrameOK, Frame, NodeFrames, StructFrames, ReadFrames
  <2>2. CASE Goto(t, "crash")
    <3> DEFINE f == [Top(t) EXCEPT !.pc = "crash"]
    <3>1. Become(t, f) /\ Moved(f)
      BY <2>1, <2>2 DEF Goto, FrameOK, Frame, ReadFrames, SameBuild, IsBuild
    <3> HIDE DEF Moved, f
    <3> QED BY <1>1, <2>1, <3>1 DEF DecodeField, Reading, DataOK, LocksOK, infoVars, slotVars, lockVars
  <2>3. CASE ~Goto(t, "crash")
    <3> DEFINE i == Top(t).info
    <3>1. /\ ~(k > Len(slots[i])) /\ Top(t).depth > 0
          /\ \E c \in DOMAIN slots[i][k] : \E pc \in {"member", "get"} :
                Become(t, ReadFrame(pc, slots[i][k][c], Top(t).depth - 1))
      BY <2>3 DEF DecodeField
    <3>2. slots[i][k] \in Nodes
      <4>1. i \in InfoId /\ class[i] \in Class
        BY <2>1 DEF ReadFrames, DataOK
      <4>2. slots[i] \in Seq(Nodes) /\ Fields[class[i]] \in Seq(SUBSET Class)
        BY <4>1, Constants DEF DataOK
      <4> QED BY <2>1, <3>1, <4>2
    <3>3. PICK j \in InfoId, pc \in {"member", "get"} : Become(t, ReadFrame(pc, j, Top(t).depth - 1))
      BY <3>1, <3>2 DEF Nodes
    <3>4. Moved(ReadFrame(pc, j, Top(t).depth - 1))
      BY <2>1, <3>1, ConstantsOK DEF ReadFrame, ReadFrames, FrameOK, Frame,
         SameBuild, IsBuild, ConstantsOK
    <3> HIDE DEF Moved
    <3> QED BY <1>1, <2>1, <3>3, <3>4
            DEF DecodeField, Reading, DataOK, LocksOK, infoVars, slotVars, lockVars
  <2> QED BY <2>2, <2>3
<1>7. CASE DecodeDone(t)
  <2>1. Depth(t) = 1 /\ NoBuild(Top(t))
    BY <1>7, TopOK DEF DecodeDone, Reading, At, NoBuild, IsBuild
  <2> QED BY <1>2, <1>7, <2>1 DEF DecodeDone, Reading, DataOK, infoVars, slotVars
<1>8. CASE Attach(t)
  <2>0. frames' = frames
    BY <1>8 DEF Attach
  <2>1. FramesOK' /\ SameBuilds
    <3>1. FramesOK'
      BY <2>0 DEF FramesOK, StacksOK, StackOK, FrameOK, Calls
    <3>2. SameBuilds
      BY <2>0 DEF SameBuilds, BuildAt, Depth, IsBuild
    <3> QED BY <3>1, <3>2
  <2>2. LocksOK'
    BY <1>8 DEF Attach, LocksOK
  <2> QED BY <1>8, <2>1, <2>2, Quiet DEF Attach, DataOK, infoVars, slotVars
<1> QED BY <1>3, <1>4, <1>5, <1>6, <1>7, <1>8

(* A build that starts, and one that ends, is the only one of its info.     *)
LEMMA StartBuild ==
    ASSUME IInv, NEW t \in Thread, Depth(t) > 0, NEW f, FrameOK(f),
           f.kind = Top(t).kind, Become(t, f), NoBuild(Top(t)),
           NEW i \in InfoId, status[i] = "unused", IsBuild(f, i),
           status' = [status EXCEPT ![i] = "building"]
    PROVE  FramesOK' /\ Ownership'
<1> USE DEF IInv
<1>1. /\ FramesOK' /\ Depth(t)' = Depth(t) /\ Top(t)' = f
      /\ \A u \in Thread : \A k \in 1..Depth(u) :
            ~(u = t /\ k = Depth(t)) => frames'[u][k] = frames[u][k]
      /\ \A u \in Thread : Depth(u)' = Depth(u)
      /\ Depth(t) \in Nat
  BY BecomeStep, TopOK
<1>2. ASSUME NEW u \in Thread, NEW k \in Nat, NEW j \in InfoId
      PROVE  BuildAt(u, k, j)' <=> BuildAt(u, k, j) \/ (u = t /\ k = Depth(t) /\ j = i)
  <2>1. CASE u = t /\ k = Depth(t)
    BY <1>1, <2>1 DEF BuildAt, NoBuild, IsBuild, Top, Depth
  <2>2. CASE ~(u = t /\ k = Depth(t))
    BY <1>1, <2>2 DEF BuildAt, IsBuild
  <2> QED BY <2>1, <2>2
<1>3. \A u \in Thread : \A k \in Nat : ~BuildAt(u, k, i)
  BY DEF Ownership
<1>4. \A j \in InfoId : status'[j] = IF j = i THEN "building" ELSE status[j]
  BY DEF DataOK
<1>5. ASSUME NEW j \in InfoId, status'[j] = "building"
      PROVE  \E u \in Thread : \E k \in Nat : BuildAt(u, k, j)'
  <2>1. CASE j = i
    BY <1>1, <1>2, <2>1
  <2>2. CASE j # i
    <3>1. PICK u \in Thread : \E k \in 1..Depth(u) : IsBuild(frames[u][k], j)
      BY <1>4, <1>5, <2>2 DEF Ownership, EveryBuildHasABuilder
    <3>2. PICK k \in 1..Depth(u) : IsBuild(frames[u][k], j)
      BY <3>1
    <3>3. k \in Nat /\ BuildAt(u, k, j)
      BY <3>2 DEF BuildAt, Depth, FramesOK
    <3> QED BY <1>2, <3>3
  <2> QED BY <2>1, <2>2
<1>6. EveryBuildHasABuilder'
  BY <1>5 DEF EveryBuildHasABuilder, BuildAt
<1>7. \A u \in Thread : \A k \in Nat : \A j \in InfoId :
         BuildAt(u, k, j)' => status'[j] = "building"
  BY <1>2, <1>4 DEF Ownership
<1>8. \A u, v \in Thread : \A k, m \in Nat : \A j \in InfoId :
         BuildAt(u, k, j)' /\ BuildAt(v, m, j)' => u = v /\ k = m
  BY <1>2, <1>3 DEF Ownership
<1> QED BY <1>1, <1>6, <1>7, <1>8 DEF Ownership

LEMMA EndBuild ==
    ASSUME IInv, NEW t \in Thread, Depth(t) > 0, NEW f, FrameOK(f),
           f.kind = Top(t).kind, Become(t, f), NoBuild(f),
           NEW i \in InfoId, IsBuild(Top(t), i),
           NEW s \in {"ready", "failed"}, status' = [status EXCEPT ![i] = s]
    PROVE  FramesOK' /\ Ownership'
<1> USE DEF IInv
<1>1. /\ FramesOK' /\ Depth(t)' = Depth(t) /\ Top(t)' = f
      /\ \A u \in Thread : \A k \in 1..Depth(u) :
            ~(u = t /\ k = Depth(t)) => frames'[u][k] = frames[u][k]
      /\ \A u \in Thread : Depth(u)' = Depth(u)
      /\ Depth(t) \in Nat
  BY BecomeStep, TopOK
<1>2. BuildAt(t, Depth(t), i)
  BY <1>1 DEF BuildAt, Top
<1>3. ASSUME NEW u \in Thread, NEW k \in Nat, NEW j \in InfoId
      PROVE  BuildAt(u, k, j)' <=> BuildAt(u, k, j) /\ j # i
  <2>1. CASE u = t /\ k = Depth(t)
    BY <1>1, <2>1 DEF BuildAt, NoBuild, IsBuild, Top, Depth
  <2>2. CASE ~(u = t /\ k = Depth(t))
    <3>1. BuildAt(u, k, j)' <=> BuildAt(u, k, j)
      BY <1>1, <2>2 DEF BuildAt, IsBuild
    <3>2. ~BuildAt(u, k, i)
      BY <1>1, <1>2, <2>2 DEF Ownership
    <3> QED BY <3>1, <3>2
  <2> QED BY <2>1, <2>2
<1>4. \A j \in InfoId : status'[j] = IF j = i THEN s ELSE status[j]
  BY DEF DataOK
<1>5. ASSUME NEW j \in InfoId, status'[j] = "building"
      PROVE  \E u \in Thread : \E k \in Nat : BuildAt(u, k, j)'
  <2>1. j # i /\ status[j] = "building"
    BY <1>4, <1>5
  <2>2. PICK u \in Thread : \E k \in 1..Depth(u) : IsBuild(frames[u][k], j)
    BY <2>1 DEF Ownership, EveryBuildHasABuilder
  <2>3. PICK k \in 1..Depth(u) : IsBuild(frames[u][k], j)
    BY <2>2
  <2>4. k \in Nat /\ BuildAt(u, k, j)
    BY <2>3 DEF BuildAt, Depth, FramesOK
  <2> QED BY <1>3, <2>1, <2>4
<1>6. EveryBuildHasABuilder'
  BY <1>5 DEF EveryBuildHasABuilder, BuildAt
<1>7. \A u \in Thread : \A k \in Nat : \A j \in InfoId :
         BuildAt(u, k, j)' => status'[j] = "building"
  BY <1>3, <1>4 DEF Ownership
<1>8. \A u, v \in Thread : \A k, m \in Nat : \A j \in InfoId :
         BuildAt(u, k, j)' /\ BuildAt(v, m, j)' => u = v /\ k = m
  BY <1>3 DEF Ownership
<1> QED BY <1>1, <1>6, <1>7, <1>8 DEF Ownership

(* A call that builds one info changes the status of no other build.        *)
LEMMA BuildSteps ==
    ASSUME IInv, NEW t \in Thread,
           CacheInfo(t) \/ NodeReturn(t) \/ BuildDone(t) \/ MarkFailed(t)
    PROVE  IInv'
<1> USE DEF IInv
<1>1. CASE NodeReturn(t)
  <2> DEFINE b == Caller(t)
             f == IF Top(t).ok THEN b ELSE [b EXCEPT !.pc = "err"]
  <2>1. /\ Depth(t) > 1 /\ NoBuild(Top(t)) /\ Return(t, f)
        /\ b \in StructFrames /\ b.pc = "fields" /\ b.info \in InfoId
        /\ Top(t).got \in Nodes
    BY <1>1, TopOK DEF NodeReturn, At, NoBuild, IsBuild, Calls, FrameOK, Frame,
       NodeFrames, StructFrames, ReadFrames
  <2>2. FrameOK(f) /\ f.kind = b.kind /\ SameBuild(f, b)
    BY <2>1 DEF FrameOK, Frame, StructFrames, SameBuild, IsBuild
  <2>3. slots' \in [InfoId -> Seq(Nodes)]
    <3>1. Append(slots[b.info], Top(t).got) \in Seq(Nodes)
      BY <2>1 DEF DataOK
    <3> QED BY <1>1, <3>1 DEF NodeReturn, DataOK
  <2> HIDE DEF f
  <2>4. FramesOK' /\ SameBuilds
    BY <2>1, <2>2, ReturnStep
  <2> QED BY <1>1, <2>3, <2>4, Quiet DEF NodeReturn, DataOK, LocksOK, slotVars, lockVars
<1>2. CASE CacheInfo(t)
  <2>1. CASE Unused = {}
    <3> DEFINE f == [Top(t) EXCEPT !.pc = "err"]
    <3>1. /\ Depth(t) > 0 /\ Become(t, f)
          /\ FrameOK(f) /\ f.kind = Top(t).kind /\ SameBuild(f, Top(t))
      BY <1>2, <2>1, TopOK, Constants DEF CacheInfo, HasAnnotations, At, Goto, FrameOK, Frame, NodeFrames,
         StructFrames, ReadFrames, SameBuild, IsBuild, NoInfo
    <3> HIDE DEF f
    <3>2. FramesOK' /\ SameBuilds
      BY <3>1, BecomeStep
    <3> QED BY <1>2, <2>1, <3>2, Quiet DEF CacheInfo, DataOK, LocksOK, infoVars, lockVars
  <2>2. CASE Unused # {}
    <3> DEFINE i == Fresh
               f == [Top(t) EXCEPT !.info = i, !.pc = "fields"]
    <3>1. i \in InfoId /\ status[i] = "unused"
      BY <2>2 DEF Unused, Fresh
    <3> HIDE DEF i
    <3>2. /\ Depth(t) > 0 /\ Become(t, f) /\ NoBuild(Top(t)) /\ IsBuild(f, i)
          /\ FrameOK(f) /\ f.kind = Top(t).kind /\ Top(t).cls \in Class
          /\ status' = [status EXCEPT ![i] = "building"]
          /\ class' = [class EXCEPT ![i] = Top(t).cls]
          /\ ptr' = [ptr EXCEPT ![Top(t).cls] = i]
          /\ overwritten' \subseteq overwritten \cup {Top(t).cls}
          /\ UNCHANGED <<slots, ready, cache, lockVars, budget>>
      BY <1>2, <2>2, <3>1, TopOK DEF i, CacheInfo, HasAnnotations, Assign, At, FrameOK, Frame, NodeFrames,
         StructFrames, ReadFrames, NoBuild, IsBuild
    <3> HIDE DEF f
    <3>3. FramesOK' /\ Ownership'
      BY <3>1, <3>2, StartBuild
    <3>4. DataOK'
      BY <3>1, <3>2 DEF DataOK
    <3> QED BY <3>2, <3>3, <3>4 DEF LocksOK, lockVars
  <2> QED BY <2>1, <2>2
<1>3. CASE BuildDone(t)
  <2> DEFINE f == [Top(t) EXCEPT !.pc = "publish"]
  <2>1. /\ Depth(t) > 0 /\ Become(t, f) /\ NoBuild(f) /\ IsBuild(Top(t), Top(t).info)
        /\ FrameOK(f) /\ f.kind = Top(t).kind /\ Top(t).info \in InfoId
    BY <1>3, TopOK DEF BuildDone, At, Goto, FrameOK, Frame, NodeFrames,
       StructFrames, ReadFrames, NoBuild, IsBuild
  <2> HIDE DEF f
  <2>2. FramesOK' /\ Ownership'
    BY <1>3, <2>1, EndBuild DEF BuildDone
  <2> QED BY <1>3, <2>1, <2>2 DEF BuildDone, DataOK, LocksOK, slotVars, lockVars
<1>4. CASE MarkFailed(t)
  <2> DEFINE f == [Top(t) EXCEPT !.pc = "clear"]
  <2>1. /\ Depth(t) > 0 /\ Become(t, f) /\ NoBuild(f) /\ IsBuild(Top(t), Top(t).info)
        /\ FrameOK(f) /\ f.kind = Top(t).kind /\ Top(t).info \in InfoId
    BY <1>4, TopOK DEF MarkFailed, At, Goto, FrameOK, Frame, NodeFrames,
       StructFrames, ReadFrames, NoBuild, IsBuild
  <2> HIDE DEF f
  <2>2. FramesOK' /\ Ownership'
    BY <1>4, <2>1, EndBuild DEF MarkFailed
  <2> QED BY <1>4, <2>1, <2>2 DEF MarkFailed, DataOK, LocksOK, slotVars, lockVars
<1> QED BY <1>1, <1>2, <1>3, <1>4

-----------------------------------------------------------------------------
LEMMA NextInv == ASSUME IInv, [Next]_vars PROVE IInv'
<1>1. CASE UNCHANGED vars
  <2>1. FramesOK' /\ SameBuilds
    BY <1>1 DEF vars, IInv, FramesOK, StacksOK, StackOK, FrameOK, Calls, SameBuilds,
       BuildAt, Depth, IsBuild
  <2>2. DataOK' /\ LocksOK'
    BY <1>1 DEF vars, infoVars, slotVars, lockVars, IInv, DataOK, LocksOK
  <2> QED BY <1>1, <2>1, <2>2, Quiet DEF IInv, vars, infoVars
<1>2. CASE Next
  <2> PICK t \in Thread : \/ \E S \in Requests : Request(t, S)
                          \/ Step(t) \/ Attach(t) \/ SpinEnds(t)
    BY <1>2 DEF Next
  <2>1. CASE \E S \in Requests : Request(t, S)
    BY <2>1, NodeSteps
  <2>2. CASE Step(t)
    BY <2>2, NodeSteps, StructSteps, ReadSteps, BuildSteps DEF Step
  <2>3. CASE Attach(t) \/ SpinEnds(t)
    BY <2>3, ReadSteps
  <2> QED BY <2>1, <2>2, <2>3
<1> QED BY <1>1, <1>2

LEMMA SpecInv == Spec => []IInv
<1> QED BY InitInv, NextInv, PTL DEF Spec

(* Every variable keeps its type on every schedule.                         *)
THEOREM TypeCorrect == Spec => []TypeOK
<1>1. IInv => TypeOK
  BY DEF IInv, DataOK, LocksOK, FramesOK, TypeOK
<1> QED BY <1>1, SpecInv, PTL

(* An info that says BUILDING has a call that builds it, so that the loop    *)
(* of TypeNode_get_struct_info never waits for a build that is dead: with    *)
(* or without the GIL, and however builds of one class overlap.             *)
THEOREM NoOrphanBuilds == Spec => []EveryBuildHasABuilder
<1>1. IInv => EveryBuildHasABuilder
  BY DEF IInv, Ownership
<1> QED BY <1>1, SpecInv, PTL

LEMMA TopBuilds ==
    ASSUME IInv, NEW t \in Thread, NEW k \in {Depth(t), Depth(t) - 1}, k > 0,
           Depth(t) > 0, frames[t][k].kind = "struct",
           frames[t][k].pc \in {"fields", "mark"}
    PROVE  /\ frames[t][k].info \in InfoId
           /\ status[frames[t][k].info] = "building"
<1>1. StackOK(frames[t]) /\ Depth(t) \in Nat /\ k \in 1..Depth(t)
  BY DEF IInv, FramesOK, StacksOK, StackOK, Depth
<1>2. frames[t][k].info \in InfoId
  BY <1>1 DEF StackOK, FrameOK, Depth
<1>3. BuildAt(t, k, frames[t][k].info)
  BY <1>1 DEF BuildAt, IsBuild
<1> QED BY <1>1, <1>2, <1>3 DEF IInv, Ownership

(* An info is decided once, and what a reader finds in it never changes.    *)
THEOREM SettledForever == Spec => InfosSettleOnce
<1> DEFINE A == \A i \in InfoId :
        /\ status'[i] # status[i] =>
              \/ status[i] = "unused" /\ status'[i] = "building"
              \/ status[i] = "building" /\ status'[i] \in {"ready", "failed"}
        /\ status[i] \in {"ready", "failed"} =>
              slots'[i] = slots[i] /\ class'[i] = class[i]
<1>1. ASSUME IInv, [Next]_vars PROVE [A]_vars
  <2>1. CASE UNCHANGED infoVars
    BY <2>1 DEF infoVars
  <2> SUFFICES ASSUME NEW t \in Thread,
                      CacheInfo(t) \/ NodeReturn(t) \/ BuildDone(t) \/ MarkFailed(t)
               PROVE  A
    BY <1>1, <2>1, ZenonT(60) DEF Next, Step, vars, Request, NodeBegin, NodeCollect, NodeMember,
       NodeBuilt, NodeEnd, RequestReturn, FastFlag, FastPointer, EnterClass, CheckHeld,
       Annotate, AnnotationsFail, ConvertField, FieldFails, Publish, Unpublish,
       ClearPointer, LeaveClass, StructReturn, GetInfo, DecodeField, Reading, DecodeDone,
       Attach, SpinEnds
  <2>2. CASE CacheInfo(t)
    <3>1. Unused # {} => Fresh \in InfoId /\ status[Fresh] = "unused"
      BY DEF Unused, Fresh
    <3> QED BY <1>1, <2>2, <3>1 DEF CacheInfo, infoVars, IInv, DataOK
  <2>3. CASE NodeReturn(t)
    <3>1. /\ Caller(t).kind = "struct" /\ Caller(t).pc = "fields"
          /\ Depth(t) > 1 /\ Depth(t) \in Nat
      BY <1>1, <2>3, TopOK DEF IInv, NodeReturn, At, Calls
    <3>2. Caller(t).info \in InfoId /\ status[Caller(t).info] = "building"
      BY <1>1, <3>1, TopBuilds DEF Caller
    <3> QED BY <1>1, <2>3, <3>2 DEF NodeReturn, IInv, DataOK
  <2>4. CASE BuildDone(t) \/ MarkFailed(t)
    <3>1. /\ Top(t).kind = "struct" /\ Top(t).pc \in {"fields", "mark"}
          /\ Depth(t) > 0 /\ Depth(t) \in Nat
      BY <1>1, <2>4, TopOK DEF IInv, BuildDone, MarkFailed, At
    <3>2. Top(t).info \in InfoId /\ status[Top(t).info] = "building"
      BY <1>1, <3>1, TopBuilds DEF Top
    <3> QED BY <1>1, <2>4, <3>2 DEF BuildDone, MarkFailed, IInv, DataOK
  <2> QED BY <2>2, <2>3, <2>4
<1> QED BY <1>1, SpecInv, PTL DEF Spec, InfosSettleOnce

-----------------------------------------------------------------------------
(* What calls, infos and lookups refer to is of the right class, and a class *)
(* drops an info that failed.                                              *)

(* The infos that have been begun for each class.                          *)
InfosOf == [c \in Class |-> {i \in InfoId : status[i] # "unused" /\ class[i] = c}]

(* A node leads from each class to an info of the class.                   *)
Leads(node, of) == \A c \in DOMAIN node : node[c] \in of[c]

(* What a call holds is of the classes it was asked for.                   *)
FrameData(f, of) ==
    /\ f.kind = "struct" => f.info = NoInfo \/ f.info \in of[f.cls]
    /\ f.kind = "node" => /\ Leads(f.got, of)
                          /\ DOMAIN f.got \subseteq f.want
                          /\ f.pc \in {"end", "return"} /\ f.ok => DOMAIN f.got = f.want
    /\ f.kind = "read" => \E c \in Class : f.info \in of[c]

(* The call g has made the call f for the next of its classes or fields.   *)
Link(g, f, nodes) ==
    /\ g.kind = "node" => f.cls \in g.want
    /\ g.kind = "struct" => /\ Len(nodes[g.info]) < Len(Fields[g.cls])
                            /\ f.want = Fields[g.cls][Len(nodes[g.info]) + 1]

CallsMatch ==
    \A t \in Thread : \A k \in 1..Depth(t) :
        /\ FrameData(frames[t][k], InfosOf)
        /\ k > 1 => Link(frames[t][k - 1], frames[t][k], slots)

InfosMatch ==
    \A i \in InfoId :
        /\ status[i] = "unused" => slots[i] = <<>>
        /\ status[i] = "ready" => Filled(i)
        /\ Len(slots[i]) <= Len(Fields[class[i]])
        /\ \A k \in 1..Len(slots[i]) :
              /\ DOMAIN slots[i][k] = Fields[class[i]][k]
              /\ Leads(slots[i][k], InfosOf)

PointersMatch == \A c \in Class : ptr[c] = NoInfo \/ ptr[c] \in InfosOf[c]

LookupsMatch == \A k \in 1..Len(cache) : Leads(cache[k], InfosOf)

(* Only the end of its own error path stands between a failed info and the *)
(* pointer that is dropped.                                                *)
Clearing(t, c) == At(t, "struct", "clear") /\ Top(t).cls = c
FailedAreCleared ==
    \A c \in Class : ptr[c] # NoInfo /\ status[ptr[c]] = "failed" =>
        \E t \in Thread : Clearing(t, c)

Match == CallsMatch /\ InfosMatch /\ PointersMatch /\ LookupsMatch /\ FailedAreCleared

-----------------------------------------------------------------------------
(* Facts about infos and frames that only grow or move.                     *)

Grows(of, next) == \A c \in Class : of[c] \subseteq next[c]

LEMMA LeadsGrows ==
    ASSUME NEW of, NEW next, Grows(of, next), NEW node \in Nodes, Leads(node, of)
    PROVE  Leads(node, next)
BY DEF Grows, Leads, Nodes

LEMMA FrameGrows ==
    ASSUME NEW of, NEW next, Grows(of, next), NEW f, FrameOK(f), FrameData(f, of)
    PROVE  FrameData(f, next)
<1>1. CASE f.kind = "struct"
  BY <1>1 DEF Grows, FrameData, FrameOK, Frame, StructFrames, NodeFrames, ReadFrames
<1>2. CASE f.kind = "node"
  <2>1. f.got \in Nodes
    BY <1>2 DEF FrameOK, Frame, StructFrames, NodeFrames, ReadFrames
  <2> QED BY <1>2, <2>1, LeadsGrows DEF FrameData
<1>3. CASE f.kind = "read"
  BY <1>3 DEF Grows, FrameData
<1> QED BY <1>1, <1>2, <1>3 DEF FrameOK, Frame, StructFrames, NodeFrames, ReadFrames

(* No call but the one on top of the stack of t is new.                     *)
OnlyTop(t, f) ==
    /\ \A u \in Thread : u # t => frames'[u] = frames[u]
    /\ \A k \in 1..Len(frames'[t]) :
          IF k = Len(frames'[t]) THEN frames'[t][k] = f
          ELSE k \in 1..Len(frames[t]) /\ frames'[t][k] = frames[t][k]

LEMMA BecomesTop ==
    ASSUME FramesOK, NEW t \in Thread, Depth(t) > 0, NEW f, Become(t, f)
    PROVE  OnlyTop(t, f) /\ Len(frames'[t]) = Depth(t)
<1>1. frames[t] \in Seq(Frame) /\ Len(frames[t]) \in Nat /\ Len(frames[t]) > 0
  BY DEF FramesOK, Depth
<1>2. /\ frames'[t] = [frames[t] EXCEPT ![Len(frames[t])] = f]
      /\ \A u \in Thread : u # t => frames'[u] = frames[u]
  BY DEF Become, FramesOK
<1>3. Len(frames'[t]) = Len(frames[t])
  BY <1>1, <1>2
<1> QED BY <1>1, <1>2, <1>3 DEF OnlyTop, Depth

LEMMA CallsTop ==
    ASSUME FramesOK, NEW t \in Thread, NEW f, Call(t, f)
    PROVE  OnlyTop(t, f) /\ Len(frames'[t]) = Depth(t) + 1
<1>1. frames[t] \in Seq(Frame) /\ Len(frames[t]) \in Nat
  BY DEF FramesOK
<1>2. /\ frames'[t] = Append(frames[t], f)
      /\ \A u \in Thread : u # t => frames'[u] = frames[u]
  BY DEF Call, FramesOK
<1>3. Len(frames'[t]) = Len(frames[t]) + 1
  BY <1>1, <1>2
<1> QED BY <1>1, <1>2, <1>3 DEF OnlyTop, Depth

LEMMA ReturnsTop ==
    ASSUME FramesOK, NEW t \in Thread, Depth(t) > 1, NEW f, Return(t, f)
    PROVE  OnlyTop(t, f) /\ Len(frames'[t]) = Depth(t) - 1
<1> DEFINE q == SubSeq(frames[t], 1, Len(frames[t]) - 1)
<1>1. frames[t] \in Seq(Frame) /\ Len(frames[t]) \in Nat /\ Len(frames[t]) > 1
  BY DEF FramesOK, Depth
<1>2. /\ frames'[t] = [q EXCEPT ![Len(frames[t]) - 1] = f]
      /\ \A u \in Thread : u # t => frames'[u] = frames[u]
  BY DEF Return, Popped, Depth, FramesOK
<1>3. q \in Seq(Frame) /\ Len(q) = Len(frames[t]) - 1 /\ \A k \in 1..Len(q) : q[k] = frames[t][k]
  BY <1>1
<1> HIDE DEF q
<1>4. Len(frames'[t]) = Len(q) /\ \A k \in 1..Len(q) :
         frames'[t][k] = IF k = Len(q) THEN f ELSE q[k]
  BY <1>1, <1>2, <1>3
<1> QED BY <1>1, <1>2, <1>3, <1>4 DEF OnlyTop, Depth

LEMMA LeavesTop ==
    ASSUME FramesOK, NEW t \in Thread, frames' = [frames EXCEPT ![t] = <<>>], NEW f
    PROVE  OnlyTop(t, f) /\ Len(frames'[t]) = 0
BY DEF OnlyTop, FramesOK

-----------------------------------------------------------------------------
(* Steps that leave infos, pointers and lookups alone.                      *)

LEMMA CallsMatchNext ==
    ASSUME IInv, IInv', CallsMatch, Grows(InfosOf, InfosOf'),
           NEW t \in Thread, NEW f, OnlyTop(t, f),
           Len(frames'[t]) > 0 => FrameData(f, InfosOf'),
           Len(frames'[t]) > 1 => Link(frames'[t][Len(frames'[t]) - 1], f, slots'),
           \A u \in Thread : \A k \in 2..Len(frames'[u]) :
               ~(u = t /\ k = Len(frames'[t])) /\ frames[u][k - 1].kind = "struct" =>
                   slots'[frames[u][k - 1].info] = slots[frames[u][k - 1].info]
    PROVE  CallsMatch'
<1> SUFFICES ASSUME NEW u \in Thread, NEW k \in 1..Len(frames'[u])
             PROVE  /\ FrameData(frames'[u][k], InfosOf')
                    /\ k > 1 => Link(frames'[u][k - 1], frames'[u][k], slots')
  BY Zenon DEF CallsMatch, Depth
<1>1. Len(frames'[u]) \in Nat /\ Len(frames[u]) \in Nat
  BY DEF IInv, FramesOK
<1>2. CASE u = t /\ k = Len(frames'[t])
  BY <1>1, <1>2 DEF OnlyTop
<1>3. CASE ~(u = t /\ k = Len(frames'[t]))
  <2>1. /\ k \in 1..Len(frames[u]) /\ frames'[u][k] = frames[u][k]
        /\ k > 1 => frames'[u][k - 1] = frames[u][k - 1]
    BY <1>1, <1>3 DEF OnlyTop
  <2>2. FrameOK(frames[u][k])
    BY <2>1 DEF IInv, FramesOK, StacksOK, StackOK
  <2>3. /\ FrameData(frames[u][k], InfosOf)
        /\ k > 1 => Link(frames[u][k - 1], frames[u][k], slots)
    BY <2>1 DEF CallsMatch, Depth
  <2>4. FrameData(frames'[u][k], InfosOf')
    BY <2>1, <2>2, <2>3, FrameGrows
  <2>5. ASSUME k > 1 PROVE Link(frames'[u][k - 1], frames'[u][k], slots')
    <3>1. k \in 2..Len(frames'[u])
      BY <1>1, <2>5
    <3>2. frames[u][k - 1].kind = "struct" =>
             slots'[frames[u][k - 1].info] = slots[frames[u][k - 1].info]
      BY <1>3, <3>1
    <3>3. Link(frames[u][k - 1], frames[u][k], slots')
      BY <2>3, <2>5, <3>2 DEF Link
    <3> QED BY <2>1, <2>5, <3>3
  <2> QED BY <2>4, <2>5
<1> QED BY <1>2, <1>3

(* The call f asks for what g asks for.                                     *)
SameAim(f, g) ==
    /\ f.kind = g.kind
    /\ f.kind = "node" => f.want = g.want
    /\ f.kind = "struct" => f.cls = g.cls

Moves(t, f) ==
    /\ FrameData(f, InfosOf)
    /\ \/ Depth(t) > 0 /\ Become(t, f) /\ (SameAim(f, Top(t)) \/ Depth(t) = 1)
       \/ Call(t, f) /\ (Depth(t) > 0 => Link(Top(t), f, slots))
       \/ Depth(t) > 1 /\ Return(t, f) /\ SameAim(f, Caller(t))

LEMMA LinkBelow ==
    ASSUME IInv, CallsMatch, NEW t \in Thread, NEW k \in 2..Depth(t),
           NEW f, SameAim(f, frames[t][k])
    PROVE  Link(frames[t][k - 1], f, slots)
<1>1. Depth(t) \in Nat /\ StackOK(frames[t])
  BY DEF IInv, FramesOK, StacksOK, StackOK, Depth
<1>2. k \in 1..Depth(t) /\ k > 1
  BY <1>1
<1>3. Link(frames[t][k - 1], frames[t][k], slots) /\ Calls(frames[t][k - 1], frames[t][k])
  BY <1>1, <1>2 DEF CallsMatch, StackOK, Depth
<1> QED BY <1>3 DEF Link, Calls, SameAim

LEMMA QuietCalls ==
    ASSUME IInv, IInv', CallsMatch, InfosOf' = InfosOf, UNCHANGED slots,
           NEW t \in Thread, NEW f, Moves(t, f)
    PROVE  CallsMatch' /\ \A u \in Thread : u # t => frames'[u] = frames[u]
<1>1. Depth(t) \in Nat /\ FramesOK
  BY DEF IInv, FramesOK, StacksOK, StackOK, Depth
<1>2. Grows(InfosOf, InfosOf') /\ FrameData(f, InfosOf')
  BY DEF Moves, Grows
<1>3. /\ OnlyTop(t, f)
      /\ Len(frames'[t]) > 1 => Link(frames'[t][Len(frames'[t]) - 1], f, slots)
  <2>1. CASE Depth(t) > 0 /\ Become(t, f) /\ (SameAim(f, Top(t)) \/ Depth(t) = 1)
    <3>1. OnlyTop(t, f) /\ Len(frames'[t]) = Depth(t)
      BY <1>1, <2>1, BecomesTop
    <3>2. ASSUME Depth(t) > 1 PROVE Link(frames[t][Depth(t) - 1], f, slots)
      BY <1>1, <2>1, <3>2, LinkBelow DEF Top
    <3> QED BY <1>1, <3>1, <3>2 DEF OnlyTop
  <2>2. CASE Call(t, f) /\ (Depth(t) > 0 => Link(Top(t), f, slots))
    <3>1. OnlyTop(t, f) /\ Len(frames'[t]) = Depth(t) + 1
      BY <1>1, <2>2, CallsTop
    <3>2. ASSUME Depth(t) > 0
          PROVE  frames'[t][Len(frames'[t]) - 1] = frames[t][Depth(t)]
      <4>1. /\ Depth(t) \in 1..Len(frames'[t]) /\ Depth(t) # Len(frames'[t])
            /\ Len(frames'[t]) - 1 = Depth(t)
        BY <1>1, <3>1, <3>2
      <4> QED BY <3>1, <4>1 DEF OnlyTop
    <3> QED BY <1>1, <2>2, <3>1, <3>2 DEF Top
  <2>3. CASE Depth(t) > 1 /\ Return(t, f) /\ SameAim(f, Caller(t))
    <3>1. OnlyTop(t, f) /\ Len(frames'[t]) = Depth(t) - 1
      BY <1>1, <2>3, ReturnsTop
    <3>2. ASSUME Depth(t) > 2 PROVE Link(frames[t][Depth(t) - 2], f, slots)
      <4>1. Depth(t) - 1 \in 2..Depth(t) /\ (Depth(t) - 1) - 1 = Depth(t) - 2
        BY <1>1, <3>2
      <4>2. SameAim(f, frames[t][Depth(t) - 1])
        BY <2>3 DEF Caller
      <4>3. Link(frames[t][(Depth(t) - 1) - 1], f, slots)
        BY <4>1, <4>2, LinkBelow
      <4> QED BY <4>1, <4>3
    <3>3. ASSUME Depth(t) > 2
          PROVE  frames'[t][Len(frames'[t]) - 1] = frames[t][Depth(t) - 2]
      <4>1. /\ Depth(t) - 2 \in 1..Len(frames'[t]) /\ Depth(t) - 2 # Len(frames'[t])
            /\ Len(frames'[t]) - 1 = Depth(t) - 2
        BY <1>1, <3>1, <3>3
      <4> QED BY <3>1, <4>1 DEF OnlyTop
    <3> QED BY <1>1, <3>1, <3>2, <3>3
  <2> QED BY <2>1, <2>2, <2>3 DEF Moves
<1>4. CallsMatch'
  BY <1>2, <1>3, CallsMatchNext
<1> QED BY <1>3, <1>4 DEF OnlyTop

LEMMA SameInfos == ASSUME UNCHANGED infoVars PROVE InfosOf' = InfosOf /\ slots' = slots
BY DEF InfosOf, infoVars

LEMMA StillMatch == ASSUME Match, UNCHANGED <<infoVars, ptr, cache, frames>> PROVE Match'
<1>1. InfosOf' = InfosOf /\ UNCHANGED <<status, class, slots>>
  BY SameInfos DEF infoVars
<1>2. CallsMatch'
  BY <1>1 DEF Match, CallsMatch, Depth
<1>3. InfosMatch' /\ PointersMatch' /\ LookupsMatch'
  <2>1. InfosMatch' <=> InfosMatch
    BY <1>1, Zenon DEF InfosMatch, Filled, Leads
  <2>2. PointersMatch' /\ LookupsMatch'
    BY <1>1 DEF Match, PointersMatch, LookupsMatch, Leads
  <2> QED BY <2>1, <2>2 DEF Match
<1>4. FailedAreCleared'
  BY <1>1 DEF Match, FailedAreCleared, Clearing, At, Top, Depth
<1> QED BY <1>2, <1>3, <1>4 DEF Match

LEMMA QuietInfos ==
    ASSUME IInv, Match, UNCHANGED <<infoVars, ptr>>,
           NEW t \in Thread, ~At(t, "struct", "clear"),
           \A u \in Thread : u # t => frames'[u] = frames[u]
    PROVE  InfosMatch' /\ PointersMatch' /\ FailedAreCleared'
<1>1. InfosMatch' /\ PointersMatch'
  BY SameInfos DEF Match, InfosMatch, PointersMatch, Filled, Leads, infoVars
<1>2. \A u \in Thread, c \in Class : Clearing(u, c) => Clearing(u, c)'
  BY DEF Clearing, At, Top, Depth
<1>3. FailedAreCleared'
  BY <1>2 DEF Match, FailedAreCleared, infoVars
<1> QED BY <1>1, <1>3

LEMMA QuietMatch ==
    ASSUME IInv, Match, CallsMatch', UNCHANGED <<infoVars, ptr, cache>>,
           NEW t \in Thread, ~At(t, "struct", "clear"),
           \A u \in Thread : u # t => frames'[u] = frames[u]
    PROVE  Match'
<1>1. LookupsMatch'
  BY SameInfos DEF Match, LookupsMatch, Leads
<1> QED BY <1>1, QuietInfos DEF Match

LEMMA TopMatches ==
    ASSUME IInv, CallsMatch, NEW t \in Thread, Depth(t) > 0
    PROVE  /\ FrameData(Top(t), InfosOf)
           /\ Depth(t) > 1 => /\ FrameData(Caller(t), InfosOf)
                              /\ Link(Caller(t), Top(t), slots)
<1>1. Depth(t) \in Nat
  BY DEF IInv, FramesOK, Depth
<1> QED BY <1>1 DEF CallsMatch, Top, Caller

LEMMA MoveMatches ==
    ASSUME IInv, IInv', Match, UNCHANGED <<infoVars, ptr, cache>>,
           NEW t \in Thread, ~At(t, "struct", "clear"), NEW f, Moves(t, f)
    PROVE  Match'
BY SameInfos, QuietCalls, QuietMatch DEF Match

LEMMA LeaveMatches ==
    ASSUME IInv, IInv', Match, UNCHANGED <<infoVars, ptr, cache>>,
           NEW t \in Thread, ~At(t, "struct", "clear"), Leave(t)
    PROVE  Match'
<1>1. OnlyTop(t, Top(t)) /\ Len(frames'[t]) = 0
  BY LeavesTop DEF IInv, Leave
<1>2. InfosOf' = InfosOf /\ slots' = slots
  BY SameInfos
<1>3. CallsMatch'
  BY <1>1, <1>2, CallsMatchNext DEF Match, Grows
<1> QED BY <1>1, <1>3, QuietMatch DEF OnlyTop

(* A call goes on, and a node is not finished by it.                        *)
LEMMA GotoMatches ==
    ASSUME IInv, IInv', Match, UNCHANGED <<infoVars, ptr, cache>>,
           NEW t \in Thread, Depth(t) > 0, ~At(t, "struct", "clear"),
           NEW pc, Goto(t, pc),
           Top(t).kind = "node" => pc \in {"collect", "members"} \/ Top(t).pc = "end"
    PROVE  Match'
<1> DEFINE f == [Top(t) EXCEPT !.pc = pc]
<1>1. FrameData(Top(t), InfosOf) /\ Top(t) \in Frame
  BY TopMatches, TopOK DEF Match, IInv, FrameOK
<1>2. FrameData(f, InfosOf) /\ SameAim(f, Top(t))
  <2>1. CASE Top(t).kind = "struct"
    BY <1>1, <2>1 DEF FrameData, SameAim, Frame, StructFrames, NodeFrames, ReadFrames
  <2>2. CASE Top(t).kind = "node"
    <3>1. Top(t) \in NodeFrames
      BY <1>1, <2>2 DEF Frame, StructFrames, NodeFrames, ReadFrames
    <3>2. /\ f.kind = "node" /\ f.got = Top(t).got /\ f.want = Top(t).want
          /\ f.ok = Top(t).ok /\ f.pc = pc
      BY <2>2, <3>1 DEF NodeFrames
    <3> QED BY <1>1, <2>2, <3>2 DEF FrameData, SameAim
  <2>3. CASE Top(t).kind = "read"
    BY <1>1, <2>3 DEF FrameData, SameAim, Frame, StructFrames, NodeFrames, ReadFrames
  <2> QED BY <1>1, <2>1, <2>2, <2>3 DEF Frame, StructFrames, NodeFrames, ReadFrames
<1> HIDE DEF f
<1>3. Moves(t, f)
  BY <1>2 DEF Moves, Goto, f
<1> QED BY <1>3, MoveMatches

LEMMA NodesMatchSteps ==
    ASSUME IInv, IInv', Match, NEW t \in Thread,
           \/ \E S \in Requests : Request(t, S)
           \/ NodeBegin(t) \/ NodeCollect(t) \/ (\E c \in Class : NodeMember(t, c))
           \/ NodeEnd(t) \/ RequestReturn(t)
    PROVE  Match'
<1>0. Depth(t) > 0 => FrameOK(Top(t)) /\ FrameData(Top(t), InfosOf)
  BY TopOK, TopMatches DEF IInv, Match
<1>1. CASE \E S \in Requests : Request(t, S)
  <2> PICK S \in Requests : Request(t, S)
    BY <1>1
  <2>1. Depth(t) = 0
    BY DEF Request, Depth
  <2>2. FrameData(NodeFrame(S), InfosOf)
    BY DEF FrameData, NodeFrame, NoNode, Leads
  <2>3. Moves(t, NodeFrame(S))
    BY <2>1, <2>2 DEF Moves, Request
  <2>4. ~At(t, "struct", "clear")
    BY <2>1 DEF At
  <2>5. UNCHANGED <<infoVars, ptr, cache>>
    BY DEF Request, slotVars
  <2> QED BY <2>3, <2>4, <2>5, MoveMatches
<1>2. CASE NodeBegin(t)
  BY <1>2, GotoMatches DEF NodeBegin, At, slotVars
<1>3. CASE NodeCollect(t)
  <2>1. CASE Goto(t, "members")
    BY <1>3, <2>1, GotoMatches DEF NodeCollect, At, slotVars
  <2>2. CASE ~Goto(t, "members")
    <3>1. PICK k \in CachedLookups(Top(t).want) :
             Become(t, [Top(t) EXCEPT !.pc = "end", !.got = cache[k]])
      BY <1>3, <2>2 DEF NodeCollect
    <3> DEFINE f == [Top(t) EXCEPT !.pc = "end", !.got = cache[k]]
    <3>2. /\ Top(t) \in NodeFrames /\ Depth(t) > 0 /\ ~At(t, "struct", "clear")
      BY <1>0, <1>3 DEF NodeCollect, At, FrameOK, Frame, StructFrames, NodeFrames, ReadFrames
    <3>3. /\ f.kind = "node" /\ f.got = cache[k] /\ f.want = Top(t).want
      BY <3>2 DEF NodeFrames
    <3> HIDE DEF f
    <3>4. DOMAIN cache[k] = Top(t).want /\ Leads(cache[k], InfosOf)
      BY DEF CachedLookups, Match, LookupsMatch
    <3>5. Moves(t, f)
      BY <3>1, <3>2, <3>3, <3>4 DEF f, Moves, FrameData, SameAim, NodeFrames
    <3> QED BY <1>3, <3>2, <3>5, MoveMatches DEF NodeCollect, slotVars
  <2> QED BY <2>1, <2>2
<1>4. CASE \E c \in Class : NodeMember(t, c)
  <2> PICK c \in Class : NodeMember(t, c)
    BY <1>4
  <2>1. /\ Depth(t) > 0 /\ ~At(t, "struct", "clear")
        /\ Link(Top(t), StructFrame(c), slots) /\ FrameData(StructFrame(c), InfosOf)
    BY DEF NodeMember, At, Link, StructFrame, FrameData
  <2>2. Moves(t, StructFrame(c))
    BY <2>1 DEF Moves, NodeMember
  <2> QED BY <2>1, <2>2, MoveMatches DEF NodeMember, slotVars
<1>5. CASE NodeEnd(t)
  BY <1>5, GotoMatches DEF NodeEnd, At, slotVars
<1>6. CASE RequestReturn(t)
  <2>1. /\ Depth(t) = 1 /\ Top(t) \in NodeFrames /\ Leads(Top(t).got, InfosOf)
        /\ ~At(t, "struct", "clear")
    BY <1>0, <1>6 DEF RequestReturn, At, FrameData, FrameOK, Frame, StructFrames,
       NodeFrames, ReadFrames
  <2>2. CASE ~Top(t).ok
    BY <1>6, <2>1, <2>2, LeaveMatches DEF RequestReturn, slotVars
  <2>3. CASE Top(t).ok
    <3>1. PICK c \in DOMAIN Top(t).got :
             Become(t, ReadFrame(IF IsUnion(Top(t).want) THEN "member" ELSE "get",
                                 Top(t).got[c], MaxDepth))
      BY <1>6, <2>3 DEF RequestReturn
    <3>2. c \in Class /\ Top(t).got[c] \in InfosOf[c]
      BY <2>1 DEF NodeFrames, Nodes, Leads
    <3>3. \A pc : FrameData(ReadFrame(pc, Top(t).got[c], MaxDepth), InfosOf)
      BY <3>2 DEF ReadFrame, FrameData
    <3>4. \E f : Moves(t, f)
      BY <2>1, <3>1, <3>3 DEF Moves
    <3> QED BY <1>6, <2>1, <3>4, MoveMatches DEF RequestReturn, slotVars
  <2> QED BY <2>2, <2>3
<1> QED BY <1>1, <1>2, <1>3, <1>4, <1>5, <1>6

LEMMA StructsMatchSteps ==
    ASSUME IInv, IInv', Match, NEW t \in Thread,
           \/ FastFlag(t) \/ FastPointer(t) \/ EnterClass(t) \/ CheckHeld(t)
           \/ Annotate(t) \/ AnnotationsFail(t) \/ ConvertField(t) \/ FieldFails(t)
           \/ Publish(t) \/ Unpublish(t) \/ LeaveClass(t) \/ StructReturn(t)
    PROVE  Match'
<1>0. Depth(t) > 0 => FrameOK(Top(t)) /\ FrameData(Top(t), InfosOf)
  BY TopOK, TopMatches DEF IInv, Match
<1>1. CASE FastFlag(t) \/ EnterClass(t) \/ Annotate(t) \/ AnnotationsFail(t) \/ FieldFails(t)
           \/ Publish(t) \/ Unpublish(t) \/ LeaveClass(t)
  <2>1. /\ Depth(t) > 0 /\ ~At(t, "struct", "clear") /\ Top(t).kind = "struct"
        /\ UNCHANGED <<infoVars, ptr, cache>>
    BY <1>1 DEF FastFlag, EnterClass, Annotate, AnnotationsFail, HasAnnotations, FieldFails,
       Publish, Unpublish, LeaveClass, At, slotVars
  <2>2. \E pc : Goto(t, pc)
    BY <1>1 DEF FastFlag, EnterClass, Annotate, AnnotationsFail, FieldFails, Publish,
       Unpublish, LeaveClass
  <2> QED BY <2>1, <2>2, GotoMatches
<1>2. CASE FastPointer(t) \/ CheckHeld(t)
  <2>1. PICK pc : Become(t, [Top(t) EXCEPT !.info = ptr[Top(t).cls], !.pc = pc])
    BY <1>2 DEF FastPointer, CheckHeld
  <2> DEFINE f == [Top(t) EXCEPT !.info = ptr[Top(t).cls], !.pc = pc]
  <2>2. /\ Depth(t) > 0 /\ ~At(t, "struct", "clear") /\ Top(t) \in StructFrames
        /\ UNCHANGED <<infoVars, ptr, cache>>
    BY <1>0, <1>2 DEF FastPointer, CheckHeld, At, slotVars, FrameOK, Frame, StructFrames,
       NodeFrames, ReadFrames
  <2>3. f.kind = "struct" /\ f.info = ptr[Top(t).cls] /\ f.cls = Top(t).cls /\ f.cls \in Class
    BY <2>2 DEF StructFrames
  <2> HIDE DEF f
  <2>4. FrameData(f, InfosOf) /\ SameAim(f, Top(t))
    BY <2>2, <2>3 DEF FrameData, SameAim, Match, PointersMatch, StructFrames
  <2>5. Moves(t, f)
    BY <2>1, <2>2, <2>4 DEF Moves, f
  <2> QED BY <2>2, <2>5, MoveMatches
<1>3. CASE ConvertField(t)
  <2> DEFINE f == NodeFrame(Fields[Top(t).cls][Len(slots[Top(t).info]) + 1])
  <2>1. /\ Depth(t) > 0 /\ ~At(t, "struct", "clear") /\ Top(t).kind = "struct"
        /\ UNCHANGED <<infoVars, ptr, cache>>
        /\ Len(slots[Top(t).info]) < Len(Fields[Top(t).cls])
        /\ Call(t, f)
    BY <1>3 DEF ConvertField, At, Pending, slotVars
  <2>2. FrameData(f, InfosOf) /\ Link(Top(t), f, slots)
    BY <2>1 DEF FrameData, NodeFrame, NoNode, Leads, Link
  <2> HIDE DEF f
  <2>3. Moves(t, f)
    BY <2>1, <2>2 DEF Moves
  <2> QED BY <2>1, <2>3, MoveMatches
<1>4. CASE StructReturn(t)
  <2> DEFINE i == Top(t).info
             n == Caller(t)
             c == Top(t).cls
             got == [d \in DOMAIN n.got \cup {c} |-> IF d = c THEN i ELSE n.got[d]]
             f == IF i = NoInfo THEN [n EXCEPT !.pc = "end", !.ok = FALSE]
                  ELSE [n EXCEPT !.got = got]
  <2>1. /\ Depth(t) > 0 /\ Depth(t) > 1 /\ Return(t, f) /\ ~At(t, "struct", "clear")
        /\ n \in NodeFrames /\ n.pc = "members" /\ UNCHANGED <<infoVars, ptr, cache>>
        /\ Top(t).kind = "struct"
    BY <1>4, TopOK DEF IInv, StructReturn, At, Calls, slotVars,
       FrameOK, Frame, NodeFrames, StructFrames, ReadFrames
  <2>2. /\ FrameData(n, InfosOf) /\ n.kind = "node" /\ c \in n.want
        /\ i = NoInfo \/ i \in InfosOf[c]
    <3>1. FrameData(n, InfosOf) /\ Link(n, Top(t), slots)
      BY <2>1, TopMatches DEF Match
    <3>2. n.kind = "node"
      BY <2>1 DEF NodeFrames
    <3>3. FrameData(Top(t), InfosOf) /\ Top(t).kind = "struct"
      BY <1>0, <2>1
    <3>4. i = NoInfo \/ i \in InfosOf[c]
      BY <3>3 DEF FrameData
    <3> QED BY <3>1, <3>2, <3>4 DEF Link
  <2>3. CASE i = NoInfo
    <3>1. f \in NodeFrames /\ f.got = n.got /\ f.want = n.want /\ ~f.ok
      BY <2>1, <2>3 DEF NodeFrames
    <3>2. FrameData(f, InfosOf) /\ SameAim(f, n)
      BY <2>2, <3>1 DEF FrameData, SameAim, NodeFrames
    <3>3. Moves(t, f)
      BY <2>1, <3>2 DEF Moves
    <3> HIDE DEF f
    <3> QED BY <2>1, <3>3, MoveMatches
  <2>4. CASE i # NoInfo
    <3>1. Leads(got, InfosOf) /\ DOMAIN got \subseteq n.want
      BY <2>2, <2>4 DEF FrameData, Leads
    <3> HIDE DEF got
    <3>2. f.kind = "node" /\ f.got = got /\ f.want = n.want /\ f.pc = "members"
      BY <2>1, <2>4 DEF NodeFrames
    <3>3. FrameData(f, InfosOf) /\ SameAim(f, n)
      BY <2>2, <3>1, <3>2 DEF FrameData, SameAim
    <3>4. Moves(t, f)
      BY <2>1, <3>3 DEF Moves
    <3> HIDE DEF f
    <3> QED BY <2>1, <3>4, MoveMatches
  <2> QED BY <2>3, <2>4
<1> QED BY <1>1, <1>2, <1>3, <1>4

LEMMA ReadsMatchSteps ==
    ASSUME IInv, IInv', Match, NEW t \in Thread,
           \/ GetInfo(t) \/ SpinEnds(t) \/ (\E k \in FieldIndex : DecodeField(t, k))
           \/ DecodeDone(t) \/ Attach(t)
    PROVE  Match'
<1>1. CASE Attach(t)
  BY <1>1, StillMatch DEF Attach, slotVars
<1>2. CASE GetInfo(t) \/ SpinEnds(t) \/ DecodeDone(t)
  <2>1. /\ Depth(t) > 0 /\ Top(t).kind = "read" /\ ~At(t, "struct", "clear")
        /\ UNCHANGED <<infoVars, ptr, cache>>
        /\ (\E pc : Goto(t, pc)) \/ Leave(t)
    BY <1>2 DEF GetInfo, SpinEnds, DecodeDone, Reading, At, slotVars
  <2> QED BY <2>1, GotoMatches, LeaveMatches
<1>3. CASE \E k \in FieldIndex : DecodeField(t, k)
  <2> PICK k \in FieldIndex : DecodeField(t, k)
    BY <1>3
  <2> DEFINE i == Top(t).info
  <2>1. /\ Depth(t) > 0 /\ ~At(t, "struct", "clear") /\ Top(t).kind = "read"
        /\ UNCHANGED <<infoVars, ptr, cache>>
    BY DEF DecodeField, Reading, At, slotVars
  <2>2. Depth(t) = 1 /\ i \in InfoId
    BY <2>1, TopOK DEF IInv, FrameOK, Frame, StructFrames, NodeFrames, ReadFrames
  <2>3. CASE k > Len(slots[i])
    BY <2>1, <2>3, GotoMatches DEF DecodeField
  <2>4. CASE ~(k > Len(slots[i]))
    <3>1. PICK c \in DOMAIN slots[i][k], pc \in {"member", "get"} :
             Become(t, ReadFrame(pc, slots[i][k][c], Top(t).depth - 1))
      BY <2>4 DEF DecodeField
    <3>2. k \in 1..Len(slots[i])
      <4>1. k \in 1..Len(Fields[class[i]]) /\ Len(slots[i]) \in Nat
        BY <2>2 DEF DecodeField, Reading, IInv, DataOK
      <4> QED BY <2>4, <4>1
    <3>3. slots[i][k] \in Nodes /\ Leads(slots[i][k], InfosOf)
      BY <2>2, <3>2 DEF IInv, DataOK, Match, InfosMatch
    <3>4. c \in Class /\ slots[i][k][c] \in InfosOf[c]
      BY <3>1, <3>3 DEF Nodes, Leads
    <3>5. FrameData(ReadFrame(pc, slots[i][k][c], Top(t).depth - 1), InfosOf)
      BY <3>4 DEF ReadFrame, FrameData
    <3>6. \E f : Moves(t, f)
      BY <2>1, <2>2, <3>1, <3>5 DEF Moves
    <3> QED BY <2>1, <3>6, MoveMatches
  <2> QED BY <2>3, <2>4
<1> QED BY <1>1, <1>2, <1>3

-----------------------------------------------------------------------------
(* The steps that write infos, pointers and lookups.                        *)

LEMMA NodeBuiltMatches ==
    ASSUME IInv, IInv', Match, NEW t \in Thread, NodeBuilt(t)
    PROVE  Match'
<1> DEFINE f == [Top(t) EXCEPT !.pc = "end"]
           node == Top(t).got
           room == IF Len(cache) = CacheSize THEN Tail(cache) ELSE cache
<1>1. /\ Depth(t) > 0 /\ ~At(t, "struct", "clear") /\ Top(t) \in NodeFrames
      /\ UNCHANGED <<infoVars, ptr>> /\ Become(t, f) /\ DOMAIN node = Top(t).want
      /\ FrameData(Top(t), InfosOf)
  BY TopOK, TopMatches DEF NodeBuilt, At, slotVars, Goto, IInv, Match, FrameOK, Frame,
     StructFrames, NodeFrames, ReadFrames
<1>2. f.kind = "node" /\ f.got = node /\ f.want = Top(t).want /\ Leads(node, InfosOf)
  BY <1>1 DEF NodeFrames, FrameData
<1>3. Moves(t, f)
  BY <1>1, <1>2 DEF Moves, FrameData, SameAim, NodeFrames
<1>4. CallsMatch' /\ \A u \in Thread : u # t => frames'[u] = frames[u]
  BY <1>1, <1>3, SameInfos, QuietCalls DEF Match
<1> HIDE DEF f
<1>5. InfosMatch' /\ PointersMatch' /\ FailedAreCleared'
  BY <1>1, <1>4, QuietInfos
<1>6. room \in Seq(Nodes) /\ \A k \in 1..Len(room) : Leads(room[k], InfosOf)
  <2>1. CASE room = cache
    BY <2>1 DEF Match, LookupsMatch, IInv, DataOK
  <2>2. CASE Len(cache) = CacheSize /\ room = Tail(cache)
    <3>1. cache \in Seq(Nodes) /\ Len(cache) \in Nat /\ Len(cache) > 0
      BY <2>2, ConstantsOK DEF IInv, DataOK, ConstantsOK
    <3>2. /\ Tail(cache) \in Seq(Nodes) /\ Len(Tail(cache)) = Len(cache) - 1
          /\ \A k \in 1..Len(Tail(cache)) : Tail(cache)[k] = cache[k + 1]
      BY <3>1
    <3>3. \A k \in 1..Len(Tail(cache)) : k + 1 \in 1..Len(cache)
      BY <3>1, <3>2
    <3> QED BY <2>2, <3>2, <3>3 DEF Match, LookupsMatch
  <2> QED BY <2>1, <2>2
<1>7. \/ UNCHANGED cache
      \/ cache' = Append(room, node)
      \/ \E same \in SUBSET (1..Len(room)) :
            cache' = [k \in 1..Len(room) |-> IF k \in same THEN node ELSE room[k]]
  <2>1. \/ UNCHANGED cache
        \/ cache' = Append(room, node)
        \/ cache' = [k \in 1..Len(room) |->
              IF k \in {j \in 1..Len(room) : DOMAIN room[j] = DOMAIN node}
              THEN node ELSE room[k]]
    BY DEF NodeBuilt, CacheLookup
  <2> HIDE DEF room, node
  <2>2. {j \in 1..Len(room) : DOMAIN room[j] = DOMAIN node} \in SUBSET (1..Len(room))
    OBVIOUS
  <2> QED BY <2>1, <2>2
<1> HIDE DEF room, node
<1>8. LookupsMatch'
  <2> SUFFICES ASSUME NEW k \in 1..Len(cache') PROVE Leads(cache'[k], InfosOf)
    BY <1>1, SameInfos, Zenon DEF LookupsMatch
  <2>1. CASE UNCHANGED cache
    BY <2>1 DEF Match, LookupsMatch
  <2>2. CASE cache' = Append(room, node)
    <3>1. Len(room) \in Nat /\ Len(cache') = Len(room) + 1
      BY <1>6, <2>2
    <3>2. cache'[k] = IF k = Len(room) + 1 THEN node ELSE room[k]
      BY <1>6, <2>2, <3>1
    <3>3. CASE k = Len(room) + 1
      BY <1>2, <3>2, <3>3
    <3>4. CASE k # Len(room) + 1
      <4>1. k \in 1..Len(room)
        BY <3>1, <3>4
      <4> QED BY <1>6, <3>2, <3>4, <4>1
    <3> QED BY <3>3, <3>4
  <2>3. CASE \E same \in SUBSET (1..Len(room)) :
                cache' = [j \in 1..Len(room) |-> IF j \in same THEN node ELSE room[j]]
    <3> PICK same \in SUBSET (1..Len(room)) :
                cache' = [j \in 1..Len(room) |-> IF j \in same THEN node ELSE room[j]]
      BY <2>3
    <3>1. k \in 1..Len(room)
      BY <1>6
    <3>2. cache'[k] = node \/ cache'[k] = room[k]
      BY <3>1
    <3> QED BY <1>2, <1>6, <3>1, <3>2
  <2> QED BY <1>7, <2>1, <2>2, <2>3
<1> QED BY <1>4, <1>5, <1>8 DEF Match

LEMMA NodeReturnMatches ==
    ASSUME IInv, IInv', Match, NEW t \in Thread, NodeReturn(t)
    PROVE  Match'
<1> DEFINE n == Top(t)
           b == Caller(t)
<1>1. /\ Depth(t) \in Nat /\ Depth(t) > 1 /\ ~At(t, "struct", "clear")
      /\ n \in NodeFrames /\ n.pc = "return"
      /\ b \in StructFrames /\ b.pc = "fields" /\ b.info \in InfoId
      /\ UNCHANGED <<status, class, ptr, cache>>
  BY TopOK DEF IInv, NodeReturn, At, Calls, slotVars, FrameOK, Frame, StructFrames,
     NodeFrames, ReadFrames
<1>2. /\ FrameData(n, InfosOf) /\ FrameData(b, InfosOf) /\ Link(b, n, slots)
      /\ n.kind = "node" /\ b.kind = "struct" /\ b.cls \in Class
  BY <1>1, TopMatches DEF Match, NodeFrames, StructFrames
<1>3. CASE ~n.ok
  <2> DEFINE f == [b EXCEPT !.pc = "err"]
  <2>1. f.kind = "struct" /\ f.cls = b.cls /\ f.info = b.info
    BY <1>1 DEF StructFrames
  <2>2. FrameData(f, InfosOf) /\ SameAim(f, b)
    BY <1>2, <2>1 DEF FrameData, SameAim
  <2>3. Moves(t, f) /\ UNCHANGED slots
    BY <1>1, <1>3, <2>2 DEF Moves, NodeReturn
  <2> QED BY <1>1, <2>3, MoveMatches DEF infoVars
<1>4. CASE n.ok
  <2>1. Return(t, b) /\ slots' = [slots EXCEPT ![b.info] = Append(@, n.got)]
    BY <1>4 DEF NodeReturn
  <2>2. OnlyTop(t, b) /\ Len(frames'[t]) = Depth(t) - 1
    BY <1>1, <2>1, ReturnsTop DEF IInv
  <2>3. InfosOf' = InfosOf
    BY <1>1 DEF InfosOf
  <2>4. b.info \in InfosOf[b.cls] /\ class[b.info] = b.cls
    <3>1. b.info # NoInfo
      BY <1>1, Constants DEF NoInfo
    <3> QED BY <1>2, <3>1 DEF FrameData, InfosOf
  <2>5. /\ n.got \in Nodes /\ DOMAIN n.got = n.want /\ Leads(n.got, InfosOf)
        /\ n.want = Fields[b.cls][Len(slots[b.info]) + 1]
        /\ Len(slots[b.info]) < Len(Fields[b.cls])
    BY <1>1, <1>2, <1>4 DEF FrameData, Link, NodeFrames
  <2>6. Depth(t) > 2 => Link(frames'[t][Len(frames'[t]) - 1], b, slots')
    <3> SUFFICES ASSUME Depth(t) > 2 PROVE Link(frames'[t][Len(frames'[t]) - 1], b, slots')
      OBVIOUS
    <3>1. /\ Depth(t) - 1 \in 2..Depth(t) /\ (Depth(t) - 1) - 1 = Depth(t) - 2
          /\ Depth(t) - 1 \in 1..Depth(t) /\ Depth(t) - 1 > 1
          /\ Depth(t) - 2 \in 1..Len(frames'[t]) /\ Depth(t) - 2 # Len(frames'[t])
          /\ Len(frames'[t]) - 1 = Depth(t) - 2
      BY <1>1, <2>2
    <3>2. frames'[t][Len(frames'[t]) - 1] = frames[t][Depth(t) - 2]
      BY <2>2, <3>1 DEF OnlyTop
    <3>3. Link(frames[t][Depth(t) - 2], b, slots)
      BY <3>1, LinkBelow DEF Match, Caller, SameAim
    <3>4. Calls(frames[t][Depth(t) - 2], b)
      BY <3>1 DEF IInv, FramesOK, StacksOK, StackOK, Depth, Caller
    <3> QED BY <1>2, <3>2, <3>3, <3>4 DEF Link, Calls
  <2>7. ASSUME NEW u \in Thread, NEW k \in 2..Len(frames'[u]),
               ~(u = t /\ k = Len(frames'[t])), frames[u][k - 1].kind = "struct"
        PROVE  slots'[frames[u][k - 1].info] = slots[frames[u][k - 1].info]
    <3> DEFINE g == frames[u][k - 1]
    <3>1. Len(frames'[u]) \in Nat /\ Len(frames[u]) \in Nat
      BY DEF IInv, FramesOK
    <3>2. k \in 1..Len(frames[u])
      BY <2>2, <2>7, <3>1 DEF OnlyTop
    <3>3. k - 1 \in 1..Depth(u) /\ k > 1 /\ ~(u = t /\ k - 1 = Depth(t) - 1)
      BY <1>1, <2>2, <2>7, <3>1, <3>2 DEF Depth
    <3>4. Calls(g, frames[u][k]) /\ FrameOK(g)
      BY <3>2, <3>3 DEF IInv, FramesOK, StacksOK, StackOK, Depth
    <3>5. BuildAt(u, k - 1, g.info) /\ g.info \in InfoId
      BY <2>7, <3>3, <3>4 DEF BuildAt, IsBuild, Calls, FrameOK
    <3>6. BuildAt(t, Depth(t) - 1, b.info)
      BY <1>1, <1>2 DEF BuildAt, IsBuild, Caller
    <3>7. g.info # b.info
      <4>1. k - 1 \in Nat /\ Depth(t) - 1 \in Nat
        BY <1>1, <3>3
      <4> QED BY <1>1, <3>3, <3>5, <3>6, <4>1 DEF IInv, Ownership
    <3> QED BY <2>1, <3>5, <3>7 DEF IInv, DataOK
  <2>8. CallsMatch'
    <3>1. Len(frames'[t]) > 1 => Depth(t) > 2
      BY <1>1, <2>2
    <3> QED BY <1>2, <2>2, <2>3, <2>6, <2>7, <3>1, CallsMatchNext DEF Match, Grows
  <2>9. InfosMatch'
    <3> SUFFICES ASSUME NEW i \in InfoId
                 PROVE  /\ status[i] = "unused" => slots'[i] = <<>>
                        /\ status[i] = "ready" => Len(slots'[i]) = Len(Fields[class[i]])
                        /\ Len(slots'[i]) <= Len(Fields[class[i]])
                        /\ \A k \in 1..Len(slots'[i]) :
                              /\ DOMAIN slots'[i][k] = Fields[class[i]][k]
                              /\ Leads(slots'[i][k], InfosOf)
      BY <1>1, <2>3, Zenon DEF InfosMatch, Filled, Leads
    <3>1. CASE i # b.info
      <4>1. slots'[i] = slots[i]
        BY <2>1, <3>1 DEF IInv, DataOK
      <4> QED BY <4>1 DEF Match, InfosMatch, Filled
    <3>2. CASE i = b.info
      <4>1. status[i] = "building"
        <5>1. BuildAt(t, Depth(t) - 1, b.info) /\ Depth(t) - 1 \in Nat
          BY <1>1, <1>2 DEF BuildAt, IsBuild, Caller
        <5> QED BY <1>1, <3>2, <5>1 DEF IInv, Ownership
      <4>2. slots[i] \in Seq(Nodes) /\ Len(slots[i]) \in Nat
        BY DEF IInv, DataOK
      <4>3. slots'[i] = Append(slots[i], n.got)
        BY <2>1, <3>2 DEF IInv, DataOK
      <4>4. Len(slots'[i]) = Len(slots[i]) + 1
        BY <4>2, <4>3
      <4>5. Fields[b.cls] \in Seq(SUBSET Class) /\ Len(Fields[b.cls]) \in Nat
        BY <1>2, Constants
      <4>6. ASSUME NEW k \in 1..Len(slots'[i])
            PROVE  /\ DOMAIN slots'[i][k] = Fields[class[i]][k]
                   /\ Leads(slots'[i][k], InfosOf)
        <5>1. CASE k = Len(slots[i]) + 1
          <6>1. slots'[i][k] = n.got
            BY <2>5, <4>2, <4>3, <5>1
          <6> QED BY <2>4, <2>5, <3>2, <5>1, <6>1
        <5>2. CASE k # Len(slots[i]) + 1
          <6>1. k \in 1..Len(slots[i])
            BY <4>2, <4>4, <5>2
          <6>2. slots'[i][k] = slots[i][k]
            BY <2>5, <4>2, <4>3, <6>1
          <6> QED BY <6>1, <6>2 DEF Match, InfosMatch
        <5> QED BY <5>1, <5>2
      <4> QED BY <2>4, <2>5, <3>2, <4>1, <4>2, <4>4, <4>5, <4>6
    <3> QED BY <3>1, <3>2
  <2>10. PointersMatch' /\ LookupsMatch'
    BY <1>1, <2>3 DEF Match, PointersMatch, LookupsMatch, Leads
  <2>11. FailedAreCleared'
    <3>1. \A u \in Thread, c \in Class : Clearing(u, c) => Clearing(u, c)'
      BY <1>1, <2>2 DEF Clearing, At, Top, Depth, OnlyTop
    <3> QED BY <1>1, <3>1 DEF Match, FailedAreCleared
  <2> QED BY <2>8, <2>9, <2>10, <2>11 DEF Match
<1> QED BY <1>3, <1>4

LEMMA CacheInfoMatches ==
    ASSUME IInv, IInv', Match, NEW t \in Thread, CacheInfo(t)
    PROVE  Match'
<1>1. /\ Depth(t) > 0 /\ Depth(t) \in Nat /\ ~At(t, "struct", "clear")
      /\ Top(t) \in StructFrames /\ Top(t).kind = "struct"
      /\ UNCHANGED <<slots, cache>>
  BY TopOK DEF IInv, CacheInfo, HasAnnotations, At, infoVars, FrameOK, Frame, StructFrames, NodeFrames,
     ReadFrames
<1>2. CASE Unused = {}
  BY <1>1, <1>2, GotoMatches DEF CacheInfo
<1>3. CASE Unused # {}
  <2> DEFINE i == Fresh
             c == Top(t).cls
             f == [Top(t) EXCEPT !.info = i, !.pc = "fields"]
  <2>1. i \in InfoId /\ status[i] = "unused" /\ c \in Class
    BY <1>1, <1>3 DEF Unused, Fresh, StructFrames
  <2>2. /\ status' = [status EXCEPT ![i] = "building"]
        /\ class' = [class EXCEPT ![i] = c]
        /\ ptr' = [ptr EXCEPT ![c] = i]
        /\ Become(t, f)
    BY <1>3 DEF CacheInfo, Assign
  <2>3. f.kind = "struct" /\ f.cls = c /\ f.info = i
    BY <1>1 DEF StructFrames
  <2> HIDE DEF i, f
  <2>4. /\ status' \in [InfoId -> {"unused", "building", "ready", "failed"}]
        /\ class' \in [InfoId -> Class]
        /\ status'[i] = "building" /\ class'[i] = c
        /\ \A j \in InfoId : j # i => status'[j] = status[j] /\ class'[j] = class[j]
    BY <2>1, <2>2 DEF IInv, DataOK
  <2>5. Grows(InfosOf, InfosOf') /\ i \in InfosOf'[c]
    <3>1. InfosOf' = [d \in Class |-> {j \in InfoId : status'[j] # "unused" /\ class'[j] = d}]
      BY DEF InfosOf
    <3> QED BY <2>1, <2>4, <3>1 DEF Grows, InfosOf
  <2>6. OnlyTop(t, f) /\ Len(frames'[t]) = Depth(t)
    BY <1>1, <2>2, BecomesTop DEF IInv
  <2>7. FrameData(f, InfosOf') /\ SameAim(f, Top(t))
    BY <1>1, <2>3, <2>5 DEF FrameData, SameAim
  <2>8. Depth(t) > 1 => Link(frames'[t][Len(frames'[t]) - 1], f, slots')
    <3> SUFFICES ASSUME Depth(t) > 1 PROVE Link(frames'[t][Len(frames'[t]) - 1], f, slots')
      OBVIOUS
    <3>1. /\ Depth(t) \in 2..Depth(t) /\ Depth(t) - 1 \in 1..Len(frames'[t])
          /\ Depth(t) - 1 # Len(frames'[t])
      BY <1>1, <2>6
    <3>2. frames'[t][Depth(t) - 1] = frames[t][Depth(t) - 1]
      BY <2>6, <3>1 DEF OnlyTop
    <3>3. Link(frames[t][Depth(t) - 1], f, slots)
      BY <2>7, <3>1, LinkBelow DEF Match, Top
    <3> QED BY <1>1, <2>6, <3>2, <3>3
  <2>9. CallsMatch'
    BY <1>1, <2>5, <2>6, <2>7, <2>8, CallsMatchNext DEF Match
  <2>10. InfosMatch'
    <3> SUFFICES ASSUME NEW j \in InfoId
                 PROVE  /\ status'[j] = "unused" => slots[j] = <<>>
                        /\ status'[j] = "ready" => Len(slots[j]) = Len(Fields[class'[j]])
                        /\ Len(slots[j]) <= Len(Fields[class'[j]])
                        /\ \A k \in 1..Len(slots[j]) :
                              /\ DOMAIN slots[j][k] = Fields[class'[j]][k]
                              /\ Leads(slots[j][k], InfosOf')
      BY <1>1, Zenon DEF InfosMatch, Filled
    <3>1. CASE j = i
      <4>1. slots[j] = <<>> /\ Len(slots[j]) = 0 /\ 1..0 = {}
        BY <2>1, <3>1 DEF Match, InfosMatch
      <4>2. Len(Fields[c]) \in Nat
        <5>1. Fields[c] \in Seq(SUBSET Class)
          BY <2>1, Constants
        <5> QED BY <5>1
      <4> QED BY <2>4, <3>1, <4>1, <4>2
    <3>2. CASE j # i
      <4>1. \A k \in 1..Len(slots[j]) : slots[j][k] \in Nodes
        BY DEF IInv, DataOK
      <4>2. \A k \in 1..Len(slots[j]) :
               DOMAIN slots[j][k] = Fields[class[j]][k] /\ Leads(slots[j][k], InfosOf)
        BY DEF Match, InfosMatch
      <4>3. \A k \in 1..Len(slots[j]) : Leads(slots[j][k], InfosOf')
        BY <2>5, <4>1, <4>2, LeadsGrows
      <4> QED BY <2>4, <3>2, <4>2, <4>3 DEF Match, InfosMatch, Filled
    <3> QED BY <3>1, <3>2
  <2>11. PointersMatch'
    BY <2>1, <2>2, <2>5 DEF Match, PointersMatch, Grows, IInv, DataOK
  <2>12. LookupsMatch'
    <3>1. \A k \in 1..Len(cache) : cache[k] \in Nodes /\ Leads(cache[k], InfosOf)
      BY DEF IInv, DataOK, Match, LookupsMatch
    <3>2. \A k \in 1..Len(cache) : Leads(cache[k], InfosOf')
      BY <2>5, <3>1, LeadsGrows
    <3> QED BY <1>1, <3>2, Zenon DEF LookupsMatch
  <2>13. FailedAreCleared'
    <3>1. \A u \in Thread, d \in Class : Clearing(u, d) => Clearing(u, d)'
      BY <1>1, <2>6 DEF Clearing, At, Top, Depth, OnlyTop
    <3>2. ASSUME NEW d \in Class, ptr'[d] # NoInfo, status'[ptr'[d]] = "failed"
          PROVE  ptr[d] # NoInfo /\ status[ptr[d]] = "failed"
      BY <2>1, <2>2, <2>4, <3>2 DEF IInv, DataOK
    <3> QED BY <3>1, <3>2 DEF Match, FailedAreCleared
  <2> QED BY <2>9, <2>10, <2>11, <2>12, <2>13 DEF Match
<1> QED BY <1>2, <1>3

LEMMA SettleMatches ==
    ASSUME IInv, IInv', Match, NEW t \in Thread, BuildDone(t) \/ MarkFailed(t)
    PROVE  Match'
<1> DEFINE i == Top(t).info
           c == Top(t).cls
<1>1. /\ Depth(t) > 0 /\ Depth(t) \in Nat /\ ~At(t, "struct", "clear")
      /\ Top(t) \in StructFrames /\ Top(t).kind = "struct" /\ Top(t).pc \in {"fields", "mark"}
      /\ UNCHANGED <<slots, class, ptr, cache>> /\ i \in InfoId
  BY TopOK DEF IInv, BuildDone, MarkFailed, At, slotVars, FrameOK, Frame, StructFrames,
     NodeFrames, ReadFrames
<1>2. PICK s \in {"ready", "failed"}, pc \in {"publish", "clear"} :
         /\ status' = [status EXCEPT ![i] = s] /\ Goto(t, pc)
         /\ s = "ready" => ~Pending(Top(t))
         /\ s = "failed" => pc = "clear"
  BY DEF BuildDone, MarkFailed
<1>3. status[i] = "building" /\ class[i] = c
  <2>1. BuildAt(t, Depth(t), i)
    BY <1>1 DEF BuildAt, IsBuild, Top
  <2>2. FrameData(Top(t), InfosOf) /\ i # NoInfo
    BY <1>1, TopMatches, Constants DEF Match, NoInfo
  <2> QED BY <1>1, <2>1, <2>2 DEF IInv, Ownership, FrameData, InfosOf, StructFrames
<1>4. /\ status'[i] = s
      /\ \A j \in InfoId : j # i => status'[j] = status[j]
  BY <1>1, <1>2 DEF IInv, DataOK
<1>5. InfosOf' = InfosOf
  <2>1. \A j \in InfoId : status'[j] = "unused" <=> status[j] = "unused"
    BY <1>3, <1>4
  <2> QED BY <1>1, <2>1 DEF InfosOf
<1> DEFINE f == [Top(t) EXCEPT !.pc = pc]
<1>6. f.kind = "struct" /\ f.cls = c /\ f.info = i /\ f.pc = pc /\ Become(t, f)
  BY <1>1, <1>2 DEF StructFrames, Goto
<1>7. FrameData(f, InfosOf) /\ SameAim(f, Top(t))
  <2>1. FrameData(Top(t), InfosOf)
    BY <1>1, TopMatches DEF Match
  <2> QED BY <1>1, <1>6, <2>1 DEF FrameData, SameAim
<1> HIDE DEF f
<1>8. Moves(t, f)
  BY <1>1, <1>6, <1>7 DEF Moves
<1>9. CallsMatch' /\ \A u \in Thread : u # t => frames'[u] = frames[u]
  BY <1>1, <1>5, <1>8, QuietCalls DEF Match
<1>10. InfosMatch'
  <2> SUFFICES ASSUME NEW j \in InfoId
               PROVE  /\ status'[j] = "unused" => slots[j] = <<>>
                      /\ status'[j] = "ready" => Len(slots[j]) = Len(Fields[class[j]])
                      /\ Len(slots[j]) <= Len(Fields[class[j]])
                      /\ \A k \in 1..Len(slots[j]) :
                            /\ DOMAIN slots[j][k] = Fields[class[j]][k]
                            /\ Leads(slots[j][k], InfosOf)
    BY <1>1, <1>5, Zenon DEF InfosMatch, Filled, Leads
  <2>1. CASE j = i
    <3>1. slots[i] \in Seq(Nodes) /\ Fields[c] \in Seq(SUBSET Class)
      BY <1>1, Constants DEF IInv, DataOK, StructFrames
    <3>2. s = "ready" => Len(slots[i]) = Len(Fields[c])
      BY <1>1, <1>2, <1>3, <3>1 DEF Pending, Match, InfosMatch
    <3> QED BY <1>2, <1>3, <1>4, <2>1, <3>2 DEF Match, InfosMatch
  <2>2. CASE j # i
    BY <1>4, <2>2 DEF Match, InfosMatch, Filled
  <2> QED BY <2>1, <2>2
<1>11. PointersMatch' /\ LookupsMatch'
  BY <1>1, <1>5 DEF Match, PointersMatch, LookupsMatch, Leads
<1>12. FailedAreCleared'
  <2> SUFFICES ASSUME NEW d \in Class, ptr[d] # NoInfo, status'[ptr[d]] = "failed"
               PROVE  \E u \in Thread : Clearing(u, d)'
    BY <1>1 DEF FailedAreCleared
  <2>1. ptr[d] \in InfoId /\ class[ptr[d]] = d
    BY DEF Match, PointersMatch, InfosOf
  <2>2. CASE ptr[d] = i
    <3>1. pc = "clear" /\ c = d
      BY <1>2, <1>3, <1>4, <2>1, <2>2
    <3>2. Depth(t)' = Depth(t) /\ Top(t)' = f
      <4>1. OnlyTop(t, f) /\ Len(frames'[t]) = Depth(t)
        BY <1>1, <1>6, BecomesTop DEF IInv
      <4> QED BY <1>1, <4>1 DEF OnlyTop, Depth, Top
    <3> QED BY <1>1, <1>6, <3>1, <3>2 DEF Clearing, At
  <2>3. CASE ptr[d] # i
    <3>1. PICK u \in Thread : Clearing(u, d)
      BY <1>4, <2>1, <2>3 DEF Match, FailedAreCleared
    <3>2. Clearing(u, d)'
      BY <1>1, <1>9, <3>1 DEF Clearing, At, Top, Depth
    <3> QED BY <3>2
  <2> QED BY <2>2, <2>3
<1> QED BY <1>9, <1>10, <1>11, <1>12 DEF Match

LEMMA ClearMatches ==
    ASSUME IInv, IInv', Match, NEW t \in Thread, ClearPointer(t)
    PROVE  Match'
<1> DEFINE c == Top(t).cls
           f == [Top(t) EXCEPT !.info = NoInfo, !.pc = "exit"]
<1>1. /\ Depth(t) > 0 /\ Depth(t) \in Nat /\ At(t, "struct", "clear")
      /\ Top(t) \in StructFrames /\ Top(t).kind = "struct"
      /\ UNCHANGED <<infoVars, cache>> /\ ptr' = [ptr EXCEPT ![c] = NoInfo] /\ Become(t, f)
  BY TopOK DEF IInv, ClearPointer, At, FrameOK, Frame, StructFrames, NodeFrames, ReadFrames
<1>2. f.kind = "struct" /\ f.cls = c /\ f.info = NoInfo
  BY <1>1 DEF StructFrames
<1>3. Moves(t, f)
  BY <1>1, <1>2 DEF Moves, FrameData, SameAim
<1>4. CallsMatch' /\ \A u \in Thread : u # t => frames'[u] = frames[u]
  BY <1>1, <1>3, SameInfos, QuietCalls DEF Match
<1>5. InfosMatch' /\ PointersMatch' /\ LookupsMatch'
  BY <1>1, SameInfos DEF Match, InfosMatch, PointersMatch, LookupsMatch, Filled, Leads,
     infoVars, IInv, DataOK
<1>6. FailedAreCleared'
  <2> SUFFICES ASSUME NEW d \in Class, ptr'[d] # NoInfo, status[ptr'[d]] = "failed"
               PROVE  \E u \in Thread : Clearing(u, d)'
    BY <1>1 DEF FailedAreCleared, infoVars
  <2>1. d # c /\ ptr'[d] = ptr[d]
    BY <1>1 DEF IInv, DataOK
  <2>2. PICK u \in Thread : Clearing(u, d)
    BY <2>1 DEF Match, FailedAreCleared
  <2>3. u # t
    BY <2>1, <2>2 DEF Clearing
  <2>4. Clearing(u, d)'
    BY <1>4, <2>2, <2>3 DEF Clearing, At, Top, Depth
  <2> QED BY <2>4
<1> QED BY <1>4, <1>5, <1>6 DEF Match

-----------------------------------------------------------------------------
LEMMA InitMatch == Init => Match
<1> SUFFICES ASSUME Init PROVE Match
  OBVIOUS
<1>1. \A t \in Thread : Depth(t) = 0
  BY DEF Init, Depth
<1>2. CallsMatch /\ PointersMatch /\ LookupsMatch /\ FailedAreCleared
  BY <1>1 DEF Init, CallsMatch, PointersMatch, LookupsMatch, FailedAreCleared
<1>3. InfosMatch
  <2> SUFFICES ASSUME NEW i \in InfoId
               PROVE  Len(slots[i]) <= Len(Fields[class[i]]) /\ Len(slots[i]) = 0
    BY DEF Init, InfosMatch
  <2>1. class[i] \in Class
    BY ConstantsOK DEF Init, ConstantsOK
  <2>2. Fields[class[i]] \in Seq(SUBSET Class)
    BY <2>1, Constants
  <2>3. slots[i] = <<>>
    BY DEF Init
  <2> QED BY <2>2, <2>3
<1> QED BY <1>2, <1>3 DEF Match

LEMMA NextMatch == ASSUME IInv, IInv', Match, [Next]_vars PROVE Match'
<1>1. CASE UNCHANGED vars
  BY <1>1, StillMatch DEF vars, slotVars
<1>2. CASE Next
  <2> PICK t \in Thread : \/ \E S \in Requests : Request(t, S)
                          \/ Step(t) \/ Attach(t) \/ SpinEnds(t)
    BY <1>2 DEF Next
  <2>1. CASE (\E S \in Requests : Request(t, S)) \/ Attach(t) \/ SpinEnds(t)
    BY <2>1, NodesMatchSteps, ReadsMatchSteps
  <2>2. CASE Step(t)
    BY <2>2, NodesMatchSteps, StructsMatchSteps, ReadsMatchSteps, NodeBuiltMatches,
       NodeReturnMatches, CacheInfoMatches, SettleMatches, ClearMatches DEF Step
  <2> QED BY <2>1, <2>2
<1> QED BY <1>1, <1>2

LEMMA SpecMatch == Spec => []Match
<1> QED BY InitInv, InitMatch, NextInv, NextMatch, SpecInv, PTL DEF Spec

(* Whatever is built at the same time, and whatever fails, a field's node   *)
(* and a cached tag lookup lead to infos of the classes the annotation      *)
(* names: builds do not write into each other's infos.                      *)
THEOREM NodesAreRight == Spec => []NodesMatchAnnotations
<1>1. IInv /\ Match => NodesMatchAnnotations
  <2> SUFFICES ASSUME IInv, Match PROVE NodesMatchAnnotations
    OBVIOUS
  <2>1. ASSUME NEW node \in Nodes, Leads(node, InfosOf), NEW c \in DOMAIN node
        PROVE  class[node[c]] = c
    BY <2>1 DEF Nodes, Leads, InfosOf
  <2>2. /\ \A i \in InfoId : \A k \in 1..Len(slots[i]) :
              slots[i][k] \in Nodes /\ Leads(slots[i][k], InfosOf)
        /\ \A k \in 1..Len(cache) : cache[k] \in Nodes /\ Leads(cache[k], InfosOf)
    BY DEF IInv, DataOK, Match, InfosMatch, LookupsMatch
  <2>3. \A i \in InfoId : \A k \in 1..Len(slots[i]) :
           DOMAIN slots[i][k] = Fields[class[i]][k]
    BY DEF Match, InfosMatch
  <2> QED BY <2>1, <2>2, <2>3 DEF NodesMatchAnnotations
<1> QED BY <1>1, SpecInv, SpecMatch, PTL

(* No class is left pointing at an info whose build failed, except while    *)
(* the error path of that very build is about to drop the pointer.          *)
THEOREM FailuresAreDropped == Spec => []FailedInfosAreDropped
<1>1. IInv /\ Match => FailedInfosAreDropped
  <2> SUFFICES ASSUME IInv, Match, NEW c \in Class, ptr[c] # NoInfo, status[ptr[c]] = "failed"
               PROVE  \E t \in Thread : \E k \in 1..Depth(t) :
                         /\ frames[t][k].kind = "struct"
                         /\ frames[t][k].cls = c
                         /\ frames[t][k].pc = "clear"
    BY DEF FailedInfosAreDropped
  <2>1. PICK t \in Thread : Clearing(t, c)
    BY DEF Match, FailedAreCleared
  <2>2. Depth(t) \in 1..Depth(t)
    BY <2>1 DEF Clearing, At, Depth, IInv, FramesOK
  <2> QED BY <2>1, <2>2 DEF Clearing, At, Top
<1> QED BY <1>1, SpecInv, SpecMatch, PTL
=============================================================================
