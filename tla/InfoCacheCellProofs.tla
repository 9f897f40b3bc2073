------------------------ MODULE InfoCacheCellProofs ------------------------
(***************************************************************************)
(* What the pointer and the flag of a class promise to lock-free readers,  *)
(* for every set of threads and classes, with the GIL and without it, and  *)
(* whether or not get_class_annotations gives up the GIL or the sections.  *)
(*                                                                         *)
(* Two builds of one class can meet, and the second then overwrites the    *)
(* pointer of the first.  The theorems say that this happens only after    *)
(* such a switch (which takes the locks: a thread that has not switched    *)
(* still owns the class), and that for every class to which it has not     *)
(* happened the flag, the fast path, the lookups and the readers are right *)
(* (which takes no lock: a begun info of the class is the one its pointer  *)
(* names, or has failed).                                                  *)
(***************************************************************************)
EXTENDS InfoCacheProofs

(* A call has begun its critical section and not left it.                   *)
Opens(f) ==
    \/ f.kind = "node" /\ f.pc \in {"collect", "members", "end"}
    \/ f.kind = "struct" /\ f.pc \in {"held", "annotate", "annotated", "switched", "fields",
                                      "publish", "err", "mark", "clear", "exit"}
LockOf(f) == IF f.kind = "node" THEN LookupCache ELSE f.cls

(* Every call but the running one is inside its critical section.          *)
Covered(t) ==
    /\ Len(sections[t]) = IF Depth(t) = 0 THEN 0
                          ELSE IF Opens(Top(t)) THEN Depth(t) ELSE Depth(t) - 1
    /\ \A k \in 1..Len(sections[t]) : sections[t][k] = LockOf(frames[t][k])
Crashed(t) == At(t, "struct", "crash")
SectionsMatch == FreeThreaded => \A t \in Thread : Crashed(t) \/ Covered(t)

(* The classes whose infos no other thread can be looking for now.         *)
Owns(t) == IF FreeThreaded THEN {c \in Class : held[c] = t}
           ELSE IF gil = t THEN Class ELSE {}

(* A call that has found no info, and whose thread has not switched since,  *)
(* owns its class and would still find none.                               *)
Annotates(f) == f.kind = "struct" /\ f.pc \in {"annotate", "annotated"}
Prepared ==
    \A t \in Thread : Depth(t) > 0 /\ Annotates(Top(t)) =>
        Top(t).cls \in Owns(t) /\ ptr[Top(t).cls] = NoInfo

(* A class that was not overwritten points to the one info begun for it     *)
(* that has not failed; under a raised flag that info is finished.         *)
PointersServe ==
    \A c \in Class \ overwritten :
        /\ \A i \in InfosOf[c] : i = ptr[c] \/ status[i] = "failed"
        /\ ready[c] => ptr[c] # NoInfo /\ status[ptr[c]] = "ready"

(* What a call relies on at each stage.                                     *)
Clears(f) == f.kind = "struct" /\ f.pc = "clear"
Builds(f) ==
    /\ f.kind = "struct" /\ f.info # NoInfo
    /\ f.pc \in {"fields", "err", "mark", "clear"}
Claim(f, p, s, lost) ==
    /\ f.kind = "struct" /\ f.pc = "load" =>
           f.cls \in lost \/ (p[f.cls] # NoInfo /\ s[p[f.cls]] = "ready")
    /\ f.kind = "struct" /\ f.pc = "crash" => f.cls \in lost
    /\ f.kind = "struct" /\ f.pc = "publish" => s[f.info] = "ready"
    /\ Builds(f) => f.cls \in lost \/ p[f.cls] = f.info
    /\ Clears(f) => s[f.info] = "failed"
    /\ f.kind = "read" /\ f.pc = "use" => s[f.info] = "ready"

Claims ==
    \A t \in Thread : \A k \in 1..Depth(t) : Claim(frames[t][k], ptr, status, overwritten)

(* The failed info of a class is dropped by one call.                       *)
OneClears ==
    \A t, u \in Thread : \A k \in 1..Depth(t), m \in 1..Depth(u) :
        /\ Clears(frames[t][k]) /\ Clears(frames[u][m])
        /\ frames[t][k].info = frames[u][m].info
        => t = u /\ k = m

Serving == SectionsMatch /\ Prepared /\ PointersServe /\ Claims /\ OneClears

-----------------------------------------------------------------------------
(* The critical sections follow the stack of calls.                         *)

LEMMA SectionsFollow ==
    ASSUME IInv, IInv', SectionsMatch, NEW t \in Thread, ~Crashed(t), NEW f, OnlyTop(t, f),
           \A u \in Thread : u # t => sections'[u] = sections[u],
           Len(sections'[t]) = IF Len(frames'[t]) = 0 THEN 0
                               ELSE IF Opens(f) THEN Len(frames'[t])
                               ELSE Len(frames'[t]) - 1,
           \A k \in 1..Len(sections'[t]) :
               IF k = Len(frames'[t]) THEN sections'[t][k] = LockOf(f)
               ELSE k \in 1..Len(sections[t]) /\ sections'[t][k] = sections[t][k]
    PROVE  SectionsMatch'
<1> SUFFICES ASSUME FreeThreaded, NEW u \in Thread PROVE Crashed(u)' \/ Covered(u)'
  BY DEF SectionsMatch
<1>1. CASE u # t
  <2>1. /\ frames'[u] = frames[u] /\ sections'[u] = sections[u]
        /\ (Crashed(u) \/ Covered(u))
    BY <1>1 DEF OnlyTop, SectionsMatch
  <2> QED BY <2>1 DEF Covered, Crashed, At, Depth, Top
<1>2. CASE u = t
  <2>1. Len(frames'[t]) \in Nat /\ Len(sections'[t]) \in Nat
    BY DEF IInv, FramesOK, LocksOK
  <2>2. Len(frames'[t]) > 0 => frames'[t][Len(frames'[t])] = f
    BY <2>1 DEF OnlyTop
  <2>3. ASSUME NEW k \in 1..Len(sections'[t])
        PROVE  sections'[t][k] = LockOf(frames'[t][k])
    <3>1. k \in 1..Len(frames'[t])
      BY <2>1
    <3>2. CASE k = Len(frames'[t])
      BY <2>1, <2>2, <3>1, <3>2
    <3>3. CASE k # Len(frames'[t])
      <4>1. k \in 1..Len(sections[t]) /\ sections'[t][k] = sections[t][k]
        BY <3>3
      <4>2. frames'[t][k] = frames[t][k]
        BY <3>1, <3>3 DEF OnlyTop
      <4>3. sections[t][k] = LockOf(frames[t][k])
        BY <4>1 DEF SectionsMatch, Covered
      <4> QED BY <4>1, <4>2, <4>3
    <3> QED BY <3>2, <3>3
  <2> QED BY <1>2, <2>1, <2>2, <2>3 DEF Covered, Depth, Top
<1> QED BY <1>1, <1>2

LEMMA StayCovered ==
    ASSUME IInv, IInv', SectionsMatch, NEW t \in Thread, ~Crashed(t),
           Depth(t) > 0, NEW f, Become(t, f),
           UNCHANGED sections, Opens(f) <=> Opens(Top(t)),
           Opens(f) => LockOf(f) = LockOf(Top(t))
    PROVE  SectionsMatch'
<1> SUFFICES ASSUME FreeThreaded PROVE SectionsMatch'
  BY DEF SectionsMatch
<1>1. OnlyTop(t, f) /\ Len(frames'[t]) = Depth(t) /\ Depth(t) \in Nat
  BY BecomesTop DEF IInv, FramesOK, Depth
<1>2. Covered(t) /\ Len(sections[t]) \in Nat
  BY DEF SectionsMatch, IInv, LocksOK
<1>3. ASSUME NEW k \in 1..Len(sections[t]), k = Depth(t)
      PROVE  sections[t][k] = LockOf(f)
  <2>1. Opens(Top(t)) /\ sections[t][k] = LockOf(frames[t][k])
    BY <1>1, <1>2, <1>3 DEF Covered
  <2> QED BY <1>3, <2>1 DEF Top
<1> QED BY <1>1, <1>2, <1>3, SectionsFollow DEF Covered

LEMMA CallCovered ==
    ASSUME IInv, IInv', SectionsMatch, NEW t \in Thread, ~Crashed(t), NEW f, Call(t, f),
           UNCHANGED sections, ~Opens(f), Depth(t) > 0 => Opens(Top(t))
    PROVE  SectionsMatch'
<1> SUFFICES ASSUME FreeThreaded PROVE SectionsMatch'
  BY DEF SectionsMatch
<1>1. OnlyTop(t, f) /\ Len(frames'[t]) = Depth(t) + 1 /\ Depth(t) \in Nat
  BY CallsTop DEF IInv, FramesOK, Depth
<1>2. Covered(t) /\ Len(sections[t]) \in Nat
  BY DEF SectionsMatch, IInv, LocksOK
<1>3. Len(sections[t]) = Depth(t)
  BY <1>1, <1>2 DEF Covered
<1> QED BY <1>1, <1>3, SectionsFollow

LEMMA ReturnCovered ==
    ASSUME IInv, IInv', SectionsMatch, NEW t \in Thread, ~Crashed(t),
           Depth(t) > 1, NEW f, Return(t, f),
           UNCHANGED sections, ~Opens(Top(t)), Opens(f), LockOf(f) = LockOf(Caller(t))
    PROVE  SectionsMatch'
<1> SUFFICES ASSUME FreeThreaded PROVE SectionsMatch'
  BY DEF SectionsMatch
<1>1. OnlyTop(t, f) /\ Len(frames'[t]) = Depth(t) - 1 /\ Depth(t) \in Nat
  BY ReturnsTop DEF IInv, FramesOK, Depth
<1>2. Covered(t) /\ Len(sections[t]) \in Nat
  BY DEF SectionsMatch, IInv, LocksOK
<1>3. Len(sections[t]) = Depth(t) - 1 /\ Depth(t) - 1 \in 1..Len(sections[t])
  BY <1>1, <1>2 DEF Covered
<1>4. sections[t][Depth(t) - 1] = LockOf(f)
  BY <1>2, <1>3 DEF Covered, Caller
<1> QED BY <1>1, <1>3, <1>4, SectionsFollow

LEMMA LeaveCovered ==
    ASSUME IInv, IInv', SectionsMatch, NEW t \in Thread, ~Crashed(t),
           Depth(t) = 1, ~Opens(Top(t)), Leave(t)
    PROVE  SectionsMatch'
<1> SUFFICES ASSUME FreeThreaded PROVE SectionsMatch'
  BY DEF SectionsMatch
<1>1. OnlyTop(t, Top(t)) /\ Len(frames'[t]) = 0
  BY LeavesTop DEF IInv, Leave
<1>2. Len(sections[t]) = 0
  BY DEF SectionsMatch, Covered
<1>3. sections' = sections
  BY DEF Leave
<1> QED BY <1>1, <1>2, <1>3, SectionsFollow

LEMMA BeginCovered ==
    ASSUME IInv, IInv', SectionsMatch, NEW t \in Thread, ~Crashed(t),
           Depth(t) > 0, NEW f, Become(t, f),
           NEW l \in Lock, BeginSection(t, l), ~Opens(Top(t)), Opens(f), LockOf(f) = l
    PROVE  SectionsMatch'
<1> SUFFICES ASSUME FreeThreaded PROVE SectionsMatch'
  BY DEF SectionsMatch
<1>1. OnlyTop(t, f) /\ Len(frames'[t]) = Depth(t) /\ Depth(t) \in Nat
  BY BecomesTop DEF IInv, FramesOK, Depth
<1>2. Covered(t) /\ Len(sections[t]) \in Nat /\ sections[t] \in Seq(Lock)
  BY DEF SectionsMatch, IInv, LocksOK
<1>3. Len(sections[t]) = Depth(t) - 1
  BY <1>1, <1>2 DEF Covered
<1>4. /\ sections'[t] = Append(sections[t], l)
      /\ \A u \in Thread : u # t => sections'[u] = sections[u]
  BY DEF BeginSection, IInv, LocksOK
<1>5. Len(sections'[t]) = Depth(t) /\ \A k \in 1..Depth(t) :
         sections'[t][k] = IF k = Depth(t) THEN l ELSE sections[t][k]
  BY <1>1, <1>2, <1>3, <1>4
<1>6. \A k \in 1..Depth(t) : k # Depth(t) => k \in 1..Len(sections[t])
  BY <1>1, <1>3
<1> QED BY <1>1, <1>3, <1>4, <1>5, <1>6, SectionsFollow

LEMMA EndCovered ==
    ASSUME IInv, IInv', SectionsMatch, NEW t \in Thread, ~Crashed(t),
           Depth(t) > 0, NEW f, Become(t, f),
           EndSection(t), Opens(Top(t)), ~Opens(f)
    PROVE  SectionsMatch'
<1> SUFFICES ASSUME FreeThreaded PROVE SectionsMatch'
  BY DEF SectionsMatch
<1>1. OnlyTop(t, f) /\ Len(frames'[t]) = Depth(t) /\ Depth(t) \in Nat
  BY BecomesTop DEF IInv, FramesOK, Depth
<1>2. Covered(t) /\ Len(sections[t]) \in Nat /\ sections[t] \in Seq(Lock)
  BY DEF SectionsMatch, IInv, LocksOK
<1>3. Len(sections[t]) = Depth(t) /\ Depth(t) > 0
  BY <1>1, <1>2 DEF Covered
<1>4. /\ sections'[t] = SubSeq(sections[t], 1, Len(sections[t]) - 1)
      /\ \A u \in Thread : u # t => sections'[u] = sections[u]
  BY DEF EndSection, IInv, LocksOK
<1>5. Len(sections'[t]) = Depth(t) - 1 /\ \A k \in 1..Depth(t) - 1 :
         sections'[t][k] = sections[t][k]
  BY <1>1, <1>2, <1>3, <1>4
<1> QED BY <1>1, <1>3, <1>4, <1>5, SectionsFollow

-----------------------------------------------------------------------------
(* No step takes a class from the thread that owns it.                      *)

OthersOwn(t) == \A u \in Thread : u # t => Owns(u) \subseteq Owns(u)'

LEMMA OthersKeep ==
    ASSUME IInv, SectionsMatch, NEW t \in Thread,
           (\E S \in Requests : Request(t, S)) \/ Step(t) \/ Attach(t) \/ SpinEnds(t)
    PROVE  OthersOwn(t)
<1> SUFFICES ASSUME NEW u \in Thread, u # t, NEW c \in Owns(u) PROVE c \in Owns(u)'
  BY DEF OthersOwn
<1>1. c \in Class /\ c \in Lock /\ t # NoThread /\ u # NoThread
  BY ConstantsOK DEF Owns, Lock, ConstantsOK
<1>2. CASE ~FreeThreaded
  <2>1. gil = u
    BY <1>2 DEF Owns
  <2>2. UNCHANGED gil
    BY <1>1, <1>2, <2>1 DEF Request, Step, Running, Attach, SpinEnds, lockVars
  <2> QED BY <1>1, <1>2, <2>1, <2>2 DEF Owns
<1>3. CASE FreeThreaded
  <2>1. held[c] = u
    BY <1>3 DEF Owns
  <2>2. CASE UNCHANGED held
    BY <1>1, <1>3, <2>1, <2>2 DEF Owns
  <2>3. CASE held' = Without(t)
    BY <1>1, <1>3, <2>1, <2>3 DEF Owns, Without
  <2>4. CASE \E l \in Lock : held[l] = NoThread /\ held' = [held EXCEPT ![l] = t]
    BY <1>1, <1>3, <2>1, <2>4 DEF Owns, IInv, LocksOK
  <2>5. CASE \E l : held[l] = t /\ held' = [held EXCEPT ![l] = NoThread]
    BY <1>1, <1>3, <2>1, <2>5 DEF Owns, IInv, LocksOK
  <2>6. ASSUME NEW l \in Lock, BeginSection(t, l)
        PROVE  held' = Without(t) \/ (held[l] = NoThread /\ held' = [held EXCEPT ![l] = t])
    BY <1>3, <2>6 DEF BeginSection
  <2>7. ASSUME Running(t), Depth(t) > 0, Opens(Top(t)), EndSection(t)
        PROVE  \E l : held[l] = t /\ held' = [held EXCEPT ![l] = NoThread]
    <3>1. Covered(t) /\ Depth(t) \in Nat
      BY <1>3, <2>7 DEF SectionsMatch, Crashed, At, Opens, IInv, FramesOK, Depth
    <3>2. Len(sections[t]) > 0
      BY <2>7, <3>1 DEF Covered
    <3>3. sections[t] # <<>>
      BY <3>2
    <3> QED BY <1>3, <2>7, <3>3 DEF Running, EndSection
  <2>8. CASE NodeBegin(t)
    BY <2>3, <2>4, <2>6, <2>8 DEF NodeBegin, Lock
  <2>9. CASE EnterClass(t)
    <3>1. Top(t).cls \in Lock
      BY <2>9, TopOK DEF IInv, EnterClass, At, Lock, FrameOK, Frame, StructFrames,
         NodeFrames, ReadFrames
    <3> QED BY <2>3, <2>4, <2>6, <2>9, <3>1 DEF EnterClass
  <2>10. CASE Step(t) /\ (NodeEnd(t) \/ LeaveClass(t))
    <3>1. Depth(t) > 0 /\ Opens(Top(t)) /\ EndSection(t) /\ Running(t)
      BY <2>10 DEF Step, NodeEnd, LeaveClass, At, Opens
    <3> QED BY <2>5, <2>7, <3>1
  <2>11. CASE Attach(t)
    <3>1. sections[t] \in Seq(Lock) /\ sections[t] # <<>>
      BY <1>3, <2>11 DEF Attach, Running, IInv, LocksOK
    <3>2. sections[t][Len(sections[t])] \in Lock
      BY <3>1
    <3> QED BY <1>3, <2>4, <2>11, <3>2 DEF Attach
  <2>12. CASE Annotate(t) \/ GetInfo(t)
    BY <1>3, <2>2, <2>3, <2>12 DEF Annotate, GetInfo, Detach, Leave, lockVars
  <2> QED BY <1>3, <2>2, <2>8, <2>9, <2>10, <2>11, <2>12 DEF Step, lockVars, Request,
          NodeCollect, NodeMember, NodeBuilt, NodeReturn, RequestReturn, FastFlag,
          FastPointer, CheckHeld, AnnotationsFail, CacheInfo, ConvertField, FieldFails,
          BuildDone, Publish, Unpublish, MarkFailed, ClearPointer, StructReturn,
          DecodeField, DecodeDone, SpinEnds, Leave
<1> QED BY <1>2, <1>3

-----------------------------------------------------------------------------
(* What the other calls rely on survives a step.                            *)

LEMMA Alive ==
    ASSUME IInv, Serving, NEW t \in Thread, NEW k \in 1..Depth(t)
    PROVE  /\ FrameOK(frames[t][k])
           /\ Claim(frames[t][k], ptr, status, overwritten)
           /\ frames[t][k].kind = "struct" =>
                 frames[t][k] \in StructFrames /\ frames[t][k].cls \in Class
           /\ Builds(frames[t][k]) =>
                 /\ frames[t][k].info \in InfoId
                 /\ Clears(frames[t][k]) \/ status[frames[t][k].info] = "building"
<1>1. StackOK(frames[t]) /\ Depth(t) \in Nat
  BY DEF IInv, FramesOK, StacksOK, StackOK, Depth
<1>2. FrameOK(frames[t][k]) /\ Claim(frames[t][k], ptr, status, overwritten)
  BY <1>1 DEF StackOK, Depth, Serving, Claims
<1>3. frames[t][k].kind = "struct" =>
         frames[t][k] \in StructFrames /\ frames[t][k].cls \in Class
  BY <1>2 DEF FrameOK, Frame, StructFrames, NodeFrames, ReadFrames
<1>4. ASSUME Builds(frames[t][k])
      PROVE  /\ frames[t][k].info \in InfoId
             /\ Clears(frames[t][k]) \/ status[frames[t][k].info] = "building"
  <2>1. frames[t][k].info \in InfoId
    BY <1>3, <1>4 DEF Builds, StructFrames
  <2>2. ~Clears(frames[t][k]) => BuildAt(t, k, frames[t][k].info)
    BY <1>4 DEF Builds, Clears, BuildAt, IsBuild
  <2> QED BY <1>1, <2>1, <2>2 DEF IInv, Ownership
<1> QED BY <1>2, <1>3, <1>4

(* A step writes the pointer of a class it owns, at once over no info or    *)
(* giving the class up, or drops the pointer to a failed info.             *)
Writes(t, c) ==
    /\ t \in Thread /\ c \in Owns(t)
    /\ ptr[c] = NoInfo \/ c \in overwritten'
Drops(t, c) ==
    /\ Depth(t) > 0 /\ Clears(Top(t)) /\ Top(t).cls = c
    /\ Len(frames'[t]) = Depth(t) /\ ptr'[c] = NoInfo

LEMMA ClaimsFollow ==
    ASSUME IInv, IInv', Serving, NEW t \in Thread, NEW f, OnlyTop(t, f),
           overwritten \subseteq overwritten',
           \A i \in InfoId : status[i] \in {"ready", "failed"} => status'[i] = status[i],
           \A c \in Class : ptr'[c] = ptr[c] \/ Writes(t, c) \/ Drops(t, c),
           Len(frames'[t]) > 0 => Claim(f, ptr', status', overwritten'),
           Len(frames'[t]) > 0 /\ Clears(f) => status[f.info] = "building"
    PROVE  Claims' /\ OneClears'
<1> DEFINE Old(u, k) == ~(u = t /\ k = Len(frames'[t]))
<1>1. \A u \in Thread : Len(frames'[u]) \in Nat /\ Depth(u) \in Nat
  BY DEF IInv, FramesOK, Depth
<1>2. ASSUME NEW u \in Thread, NEW k \in 1..Len(frames'[u])
      PROVE  IF Old(u, k) THEN k \in 1..Depth(u) /\ frames'[u][k] = frames[u][k]
             ELSE frames'[u][k] = f /\ Len(frames'[t]) > 0
  BY <1>1 DEF OnlyTop, Depth
<1>3. Claims'
  <2> SUFFICES ASSUME NEW u \in Thread, NEW k \in 1..Len(frames'[u])
               PROVE  Claim(frames'[u][k], ptr', status', overwritten')
    BY Zenon DEF Claims, Depth
  <2>1. CASE ~Old(u, k)
    BY <1>2, <2>1
  <2>2. CASE Old(u, k)
    <3> DEFINE g == frames[u][k]
    <3>1. k \in 1..Depth(u) /\ frames'[u][k] = g
      BY <1>2, <2>2
    <3>2. /\ FrameOK(g) /\ Claim(g, ptr, status, overwritten)
          /\ g.kind = "struct" => g \in StructFrames /\ g.cls \in Class
          /\ Builds(g) => g.info \in InfoId /\ (Clears(g) \/ status[g.info] = "building")
      BY <3>1, Alive
    <3>3. ASSUME g.kind = "struct", g.cls \notin overwritten',
                 Builds(g) \/ g.pc = "load"
          PROVE  ptr'[g.cls] = ptr[g.cls]
      <4>1. g.cls \in Class /\ g.cls \notin overwritten
        BY <3>2, <3>3
      <4>2. /\ ptr[g.cls] # NoInfo
            /\ Builds(g) => ptr[g.cls] = g.info
            /\ g.pc = "load" => status[ptr[g.cls]] = "ready"
        BY <3>2, <3>3, <4>1 DEF Claim, Builds
      <4>3. ~Writes(t, g.cls)
        BY <3>3, <4>2 DEF Writes
      <4>4. ASSUME Drops(t, g.cls) PROVE FALSE
        <5>1. Depth(t) \in 1..Depth(t) /\ frames[t][Depth(t)] = Top(t)
          BY <1>1, <4>4 DEF Drops, Top
        <5>2. /\ Top(t).cls = g.cls /\ Clears(Top(t)) /\ Builds(Top(t))
              /\ Len(frames'[t]) = Depth(t)
          <6>1. FrameOK(Top(t))
            BY <5>1, Alive
          <6> QED BY <4>4, <6>1, Constants DEF Drops, Builds, Clears, FrameOK, NoInfo
        <5>3. Claim(Top(t), ptr, status, overwritten)
          BY <5>1, Alive
        <5>4. ptr[g.cls] = Top(t).info /\ status[Top(t).info] = "failed"
          BY <4>1, <5>2, <5>3 DEF Claim
        <5>5. Builds(g) /\ g.info = Top(t).info /\ Clears(g)
          BY <3>2, <3>3, <4>2, <5>4
        <5>6. u = t /\ k = Depth(t)
          BY <3>1, <5>1, <5>2, <5>5 DEF Serving, OneClears
        <5> QED BY <2>2, <5>2, <5>6
      <4> QED BY <4>1, <4>3, <4>4
    <3>4. /\ g.kind = "struct" /\ g.pc = "load" /\ g.cls \notin overwritten => ptr[g.cls] \in InfoId
          /\ g.kind = "struct" /\ g.pc = "publish" => g.info \in InfoId
          /\ Clears(g) => g.info \in InfoId
          /\ g.kind = "read" => g.info \in InfoId
      BY <3>2 DEF Claim, Clears, FrameOK, Frame, StructFrames, NodeFrames, ReadFrames, IInv, DataOK
    <3> HIDE DEF g
    <3>5. Claim(g, ptr', status', overwritten')
      BY <3>2, <3>3, <3>4 DEF Claim, Builds
    <3> QED BY <3>1, <3>5
  <2> QED BY <2>1, <2>2
<1>4. OneClears'
  <2> SUFFICES ASSUME NEW u \in Thread, NEW v \in Thread,
                      NEW k \in 1..Len(frames'[u]), NEW m \in 1..Len(frames'[v]),
                      Clears(frames'[u][k]), Clears(frames'[v][m]),
                      frames'[u][k].info = frames'[v][m].info
               PROVE  u = v /\ k = m
    BY SMTT(60) DEF OneClears, Depth
  <2>1. ASSUME NEW w \in Thread, NEW n \in 1..Len(frames'[w]), Old(w, n), Clears(frames'[w][n])
        PROVE  status[frames'[w][n].info] = "failed"
    <3>1. n \in 1..Depth(w) /\ frames'[w][n] = frames[w][n]
      BY <1>2, <2>1
    <3> QED BY <2>1, <3>1, Alive DEF Claim
  <2>2. CASE Old(u, k) /\ Old(v, m)
    <3>1. /\ k \in 1..Depth(u) /\ frames'[u][k] = frames[u][k]
          /\ m \in 1..Depth(v) /\ frames'[v][m] = frames[v][m]
      BY <1>2, <2>2
    <3> QED BY <3>1 DEF Serving, OneClears
  <2>3. CASE ~Old(u, k) /\ Old(v, m)
    BY <1>2, <2>1, <2>3
  <2>4. CASE Old(u, k) /\ ~Old(v, m)
    BY <1>2, <2>1, <2>4
  <2>5. CASE ~Old(u, k) /\ ~Old(v, m)
    BY <2>5
  <2> QED BY <2>2, <2>3, <2>4, <2>5
<1> QED BY <1>3, <1>4

LEMMA PreparedFollow ==
    ASSUME IInv, IInv', Serving, NEW t \in Thread, NEW f, OnlyTop(t, f), OthersOwn(t),
           \A c \in Class : ptr'[c] = ptr[c] \/ Writes(t, c) \/ Drops(t, c),
           Len(frames'[t]) > 0 /\ Annotates(f) => f.cls \in Owns(t)' /\ ptr'[f.cls] = NoInfo
    PROVE  Prepared'
<1> SUFFICES ASSUME NEW u \in Thread, Len(frames'[u]) > 0,
                    Annotates(frames'[u][Len(frames'[u])])
             PROVE  /\ frames'[u][Len(frames'[u])].cls \in Owns(u)'
                    /\ ptr'[frames'[u][Len(frames'[u])].cls] = NoInfo
  BY DEF Prepared, Depth, Top
<1>1. Len(frames'[u]) \in Nat
  BY DEF IInv, FramesOK
<1>2. CASE u = t
  BY <1>1, <1>2 DEF OnlyTop
<1>3. CASE u # t
  <2>1. frames'[u] = frames[u]
    BY <1>3 DEF OnlyTop
  <2>2. Top(u).cls \in Owns(u) /\ ptr[Top(u).cls] = NoInfo /\ Depth(u) > 0
    BY <2>1 DEF Serving, Prepared, Top, Depth
  <2>3. Top(u).cls \in Class /\ Top(u).cls \notin Owns(t)
    BY <1>3, <2>2, ConstantsOK DEF Owns, ConstantsOK
  <2>4. ptr'[Top(u).cls] = NoInfo
    BY <2>2, <2>3 DEF Writes, Drops
  <2> QED BY <1>3, <2>1, <2>2, <2>4 DEF OthersOwn, Top, Depth
<1> QED BY <1>2, <1>3

-----------------------------------------------------------------------------
(* The steps that write no status, pointer or flag.                         *)

stored == <<status, class, ptr, ready, overwritten>>

(* Such a step gives the top of a stack nothing it may not rely on.         *)
Plain(f) ==
    /\ f.kind = "struct" => f.pc \in {"fast", "enter", "held", "switched", "exit", "return"}
    /\ f.kind = "read" => f.pc # "use"

(* The step makes f the top of the stack of t.                              *)
MayMake(t, f) ==
    /\ Claim(f, ptr, status, overwritten) /\ ~Clears(f)
    /\ Annotates(f) => f.cls \in Owns(t)' /\ ptr[f.cls] = NoInfo

LEMMA PlainClaim ==
    ASSUME NEW t \in Thread, NEW f, Plain(f)
    PROVE  MayMake(t, f)
BY DEF MayMake, Plain, Claim, Annotates, Clears, Builds

LEMMA StillServe ==
    ASSUME IInv, IInv', Serving, NEW t \in Thread, OthersOwn(t), SectionsMatch',
           UNCHANGED stored, NEW f, OnlyTop(t, f),
           Len(frames'[t]) > 0 => MayMake(t, f)
    PROVE  Serving'
<1>1. InfosOf' = InfosOf /\ status' = status /\ ptr' = ptr /\ ready' = ready
      /\ overwritten' = overwritten
  BY DEF stored, InfosOf
<1>2. PointersServe'
  BY <1>1 DEF Serving, PointersServe
<1>3. Claims' /\ OneClears'
  BY <1>1, ClaimsFollow DEF MayMake
<1>4. Prepared'
  BY <1>1, PreparedFollow DEF MayMake
<1> QED BY <1>2, <1>3, <1>4 DEF Serving

LEMMA SameServe ==
    ASSUME Serving, UNCHANGED stored, UNCHANGED <<frames, sections>>,
           \A u \in Thread : Owns(u) \subseteq Owns(u)'
    PROVE  Serving'
<1>1. /\ InfosOf' = InfosOf /\ status' = status /\ ptr' = ptr /\ ready' = ready
      /\ overwritten' = overwritten /\ frames' = frames /\ sections' = sections
  BY DEF stored, InfosOf
<1>2. SectionsMatch'
  BY <1>1 DEF Serving, SectionsMatch, Covered, Crashed, At, Depth, Top
<1>3. Prepared'
  BY <1>1 DEF Serving, Prepared, Depth, Top
<1>4. PointersServe'
  BY <1>1 DEF Serving, PointersServe
<1>5. Claims' /\ OneClears'
  BY <1>1 DEF Serving, Claims, OneClears, Depth
<1> QED BY <1>2, <1>3, <1>4, <1>5 DEF Serving

(* The call on top goes on.                                                 *)
LEMMA BecomesServes ==
    ASSUME IInv, IInv', Serving, NEW t \in Thread, ~Crashed(t), OthersOwn(t), Depth(t) > 0,
           UNCHANGED stored, NEW f, Become(t, f), MayMake(t, f),
           \/ UNCHANGED sections /\ (Opens(f) <=> Opens(Top(t)))
              /\ (Opens(f) => LockOf(f) = LockOf(Top(t)))
           \/ (\E l \in Lock : BeginSection(t, l) /\ LockOf(f) = l)
              /\ ~Opens(Top(t)) /\ Opens(f)
           \/ EndSection(t) /\ Opens(Top(t)) /\ ~Opens(f)
    PROVE  Serving'
<1>1. OnlyTop(t, f)
  BY BecomesTop DEF IInv
<1>2. SectionsMatch'
  BY StayCovered, BeginCovered, EndCovered DEF Serving
<1> QED BY <1>1, <1>2, StillServe

LEMMA NodesServe ==
    ASSUME IInv, IInv', Serving, NEW t \in Thread, ~Crashed(t), OthersOwn(t),
           \/ \E S \in Requests : Request(t, S)
           \/ NodeBegin(t) \/ NodeCollect(t) \/ (\E c \in Class : NodeMember(t, c))
           \/ NodeBuilt(t) \/ NodeEnd(t) \/ RequestReturn(t)
    PROVE  Serving'
<1>0. Depth(t) > 0 /\ Top(t).kind = "node" => Top(t) \in NodeFrames
  BY TopOK DEF IInv, FrameOK, Frame, StructFrames, NodeFrames, ReadFrames
<1>1. CASE (\E S \in Requests : Request(t, S)) \/ (\E c \in Class : NodeMember(t, c))
  <2>1. PICK f : /\ Call(t, f) /\ UNCHANGED sections
                 /\ (f.kind = "node" /\ f.pc = "begin") \/ (f.kind = "struct" /\ f.pc = "fast")
                 /\ Depth(t) > 0 => Opens(Top(t))
                 /\ UNCHANGED stored
    <3>1. ASSUME NEW S \in Requests, Request(t, S)
          PROVE  /\ Call(t, NodeFrame(S)) /\ UNCHANGED sections
                 /\ NodeFrame(S).kind = "node" /\ NodeFrame(S).pc = "begin"
                 /\ ~(Depth(t) > 0) /\ UNCHANGED stored
      BY <3>1 DEF Request, NodeFrame, Depth, stored, infoVars, slotVars
    <3>2. ASSUME NEW c \in Class, NodeMember(t, c)
          PROVE  /\ Call(t, StructFrame(c))
                 /\ StructFrame(c).kind = "struct" /\ StructFrame(c).pc = "fast"
                 /\ UNCHANGED sections /\ Opens(Top(t)) /\ UNCHANGED stored
      BY <3>2 DEF NodeMember, StructFrame, At, Opens, stored, infoVars, slotVars, lockVars
    <3> QED BY <1>1, <3>1, <3>2
  <2>2. OnlyTop(t, f)
    BY <2>1, CallsTop DEF IInv
  <2>3. ~Opens(f) /\ Plain(f)
    BY <2>1 DEF Opens, Plain
  <2>4. SectionsMatch'
    BY <2>1, <2>3, CallCovered DEF Serving
  <2> QED BY <2>1, <2>2, <2>3, <2>4, StillServe, PlainClaim
<1>2. CASE NodeBegin(t) \/ NodeBuilt(t) \/ NodeEnd(t)
  <2>1. PICK pc : Goto(t, pc) /\ \/ /\ Top(t).pc = "begin" /\ pc = "collect"
                                    /\ BeginSection(t, LookupCache)
                                 \/ /\ Top(t).pc = "members" /\ pc = "end"
                                    /\ UNCHANGED sections
                                 \/ Top(t).pc = "end" /\ pc = "return" /\ EndSection(t)
    BY <1>2 DEF NodeBegin, NodeBuilt, NodeEnd, At, lockVars
  <2> DEFINE f == [Top(t) EXCEPT !.pc = pc]
  <2>2. /\ Depth(t) > 0 /\ Top(t) \in NodeFrames /\ Top(t).kind = "node"
        /\ UNCHANGED stored /\ Become(t, f)
    BY <1>0, <1>2, <2>1 DEF NodeBegin, NodeBuilt, NodeEnd, At, stored, infoVars, slotVars, Goto
  <2>3. f.kind = "node" /\ f.pc = pc
    BY <2>2 DEF NodeFrames
  <2> HIDE DEF f
  <2>4. Plain(f) /\ LockOf(f) = LookupCache /\ LockOf(Top(t)) = LookupCache
    BY <2>2, <2>3 DEF Plain, LockOf
  <2>5. LookupCache \in Lock
    BY DEF Lock
  <2>6. CASE Top(t).pc = "begin" /\ pc = "collect" /\ BeginSection(t, LookupCache)
    BY <2>2, <2>3, <2>4, <2>5, <2>6, PlainClaim, BecomesServes DEF Opens
  <2>7. CASE Top(t).pc = "members" /\ pc = "end" /\ UNCHANGED sections
    BY <2>2, <2>3, <2>4, <2>7, PlainClaim, BecomesServes DEF Opens
  <2>8. CASE Top(t).pc = "end" /\ pc = "return" /\ EndSection(t)
    BY <2>2, <2>3, <2>4, <2>8, PlainClaim, BecomesServes DEF Opens
  <2> QED BY <2>1, <2>6, <2>7, <2>8
<1>3. CASE NodeCollect(t)
  <2>1. /\ Depth(t) > 0 /\ Top(t) \in NodeFrames /\ Top(t).kind = "node" /\ Top(t).pc = "collect"
        /\ UNCHANGED stored /\ UNCHANGED sections
    BY <1>0, <1>3 DEF NodeCollect, At, stored, infoVars, slotVars, lockVars
  <2>2. PICK f : Become(t, f) /\ \/ f = [Top(t) EXCEPT !.pc = "members"]
                                 \/ \E k : f = [Top(t) EXCEPT !.pc = "end", !.got = cache[k]]
    BY <1>3 DEF NodeCollect, Goto
  <2>3. f.kind = "node" /\ f.pc \in {"members", "end"}
    BY <2>1, <2>2 DEF NodeFrames
  <2>4. Plain(f) /\ Opens(f) /\ Opens(Top(t)) /\ LockOf(f) = LockOf(Top(t))
    BY <2>1, <2>3 DEF Plain, LockOf, Opens
  <2> QED BY <2>1, <2>2, <2>3, <2>4, PlainClaim, BecomesServes
<1>4. CASE RequestReturn(t)
  <2>1. /\ Depth(t) = 1 /\ Depth(t) > 0 /\ UNCHANGED stored
        /\ Top(t).kind = "node" /\ Top(t).pc = "return"
    BY <1>4 DEF RequestReturn, At, stored, infoVars, slotVars
  <2>2. ~Opens(Top(t))
    BY <2>1 DEF Opens, Plain
  <2>3. CASE Top(t).ok
    <3>1. PICK f : /\ Become(t, f) /\ UNCHANGED sections
                   /\ \E pc \in {"member", "get"} : \E i : f = ReadFrame(pc, i, MaxDepth)
      BY <1>4, <2>3 DEF RequestReturn, lockVars
    <3>2. ~Opens(f) /\ Plain(f)
      BY <3>1 DEF ReadFrame, Opens, Plain
    <3> QED BY <2>1, <2>2, <3>1, <3>2, PlainClaim, BecomesServes
  <2>4. CASE ~Top(t).ok
    <3>1. Leave(t)
      BY <1>4, <2>4 DEF RequestReturn
    <3>2. OnlyTop(t, Top(t)) /\ Len(frames'[t]) = 0 /\ SectionsMatch'
      BY <2>1, <2>2, <3>1, LeavesTop, LeaveCovered DEF IInv, Serving, Leave
    <3> QED BY <2>1, <3>2, StillServe
  <2> QED BY <2>3, <2>4
<1> QED BY <1>1, <1>2, <1>3, <1>4

LEMMA AttachServes ==
    ASSUME IInv, Serving, NEW t \in Thread, OthersOwn(t), Attach(t)
    PROVE  Serving'
<1>1. UNCHANGED stored /\ UNCHANGED <<frames, sections>>
  BY DEF Attach, stored, infoVars, slotVars
<1>2. Owns(t) \subseteq Owns(t)'
  <2>1. CASE ~FreeThreaded
    BY <2>1, ConstantsOK DEF Attach, Owns, ConstantsOK
  <2>2. CASE FreeThreaded
    <3>1. PICK l : held' = [held EXCEPT ![l] = t]
      BY <2>2 DEF Attach
    <3>2. \A c \in Class : held[c] = t => held'[c] = t
      BY <3>1 DEF IInv, LocksOK, Lock
    <3> QED BY <2>2, <3>2 DEF Owns
  <2> QED BY <2>1, <2>2
<1>3. \A u \in Thread : Owns(u) \subseteq Owns(u)'
  BY <1>2 DEF OthersOwn
<1> QED BY <1>1, <1>3, SameServe

LEMMA ReadsServe ==
    ASSUME IInv, IInv', Serving, NEW t \in Thread, ~Crashed(t), OthersOwn(t),
           \/ GetInfo(t) \/ SpinEnds(t) \/ (\E k \in FieldIndex : DecodeField(t, k))
           \/ DecodeDone(t)
    PROVE  Serving'
<1>1. ASSUME Depth(t) > 0, Top(t).kind = "read", Leave(t), UNCHANGED stored
      PROVE  Serving'
  <2>1. Depth(t) = 1 /\ ~Opens(Top(t))
    BY <1>1, TopOK DEF IInv, Opens, Plain
  <2>2. OnlyTop(t, Top(t)) /\ Len(frames'[t]) = 0 /\ SectionsMatch'
    BY <1>1, <2>1, LeavesTop, LeaveCovered DEF IInv, Serving, Leave
  <2> QED BY <1>1, <2>2, StillServe
<1>2. ASSUME Depth(t) > 0, Top(t).kind = "read", NEW f, Become(t, f), f.kind = "read",
             f.pc = "use" => status[f.info] = "ready",
             UNCHANGED stored, UNCHANGED sections
      PROVE  Serving'
  <2>1. ~Opens(f) /\ ~Opens(Top(t)) /\ MayMake(t, f)
    BY <1>2 DEF Opens, MayMake, Claim, Clears, Builds, Annotates
  <2> QED BY <1>2, <2>1, BecomesServes
<1>3. ASSUME Depth(t) > 0, Top(t).kind = "read", NEW pc, Goto(t, pc),
             pc = "use" => status[Top(t).info] = "ready",
             UNCHANGED stored, UNCHANGED sections
      PROVE  Serving'
  <2>1. Top(t) \in ReadFrames
    BY <1>3, TopOK DEF IInv, FrameOK, Frame, StructFrames, NodeFrames, ReadFrames
  <2> DEFINE f == [Top(t) EXCEPT !.pc = pc]
  <2>2. f.kind = "read" /\ f.pc = pc /\ f.info = Top(t).info
    BY <2>1 DEF ReadFrames
  <2>3. Become(t, f)
    BY <1>3 DEF Goto
  <2> HIDE DEF f
  <2> QED BY <1>2, <1>3, <2>2, <2>3
<1>4. CASE GetInfo(t) \/ SpinEnds(t) \/ DecodeDone(t)
  <2>1. /\ Depth(t) > 0 /\ Top(t).kind = "read" /\ UNCHANGED stored
        /\ \/ Leave(t)
           \/ /\ \E pc : Goto(t, pc) /\ (pc = "use" => status[Top(t).info] = "ready")
              /\ UNCHANGED sections
    BY <1>4 DEF GetInfo, SpinEnds, DecodeDone, Reading, At, stored, infoVars, slotVars,
       lockVars, Detach
  <2> QED BY <1>1, <1>3, <2>1
<1>5. CASE \E k \in FieldIndex : DecodeField(t, k)
  <2>1. /\ Depth(t) > 0 /\ Top(t).kind = "read" /\ UNCHANGED stored /\ UNCHANGED sections
        /\ Goto(t, "crash")
           \/ (\E pc \in {"get", "member"} : \E i, d : Become(t, ReadFrame(pc, i, d)))
    BY <1>5 DEF DecodeField, Reading, At, stored, infoVars, slotVars, lockVars
  <2>2. \A pc, i, d : ReadFrame(pc, i, d).kind = "read" /\ ReadFrame(pc, i, d).pc = pc
    BY DEF ReadFrame
  <2> QED BY <1>2, <1>3, <2>1, <2>2
<1> QED BY <1>4, <1>5


-----------------------------------------------------------------------------
(* The steps of StructInfo_Convert.                                         *)

LEMMA TopServes ==
    ASSUME IInv, Serving, NEW t \in Thread, Depth(t) > 0, Top(t).kind = "struct"
    PROVE  /\ Depth(t) \in 1..Depth(t) /\ frames[t][Depth(t)] = Top(t) /\ Depth(t) > 1
           /\ FrameOK(Top(t)) /\ Top(t) \in StructFrames /\ Top(t).cls \in Class
           /\ Claim(Top(t), ptr, status, overwritten)
           /\ Builds(Top(t)) => /\ Top(t).info \in InfoId
                                /\ Clears(Top(t)) \/ status[Top(t).info] = "building"
<1>1. Depth(t) \in 1..Depth(t) /\ frames[t][Depth(t)] = Top(t) /\ Depth(t) > 1
  BY TopOK DEF IInv, Top
<1> QED BY <1>1, Alive

(* Inside the section of its class a running thread owns the class.         *)
LEMMA TopOwns ==
    ASSUME IInv, Serving, NEW t \in Thread, Depth(t) > 0, Top(t).kind = "struct",
           Opens(Top(t)), Running(t)
    PROVE  Top(t).cls \in Owns(t)
<1>1. Top(t).cls \in Class /\ Depth(t) \in 1..Depth(t) /\ frames[t][Depth(t)] = Top(t)
  BY TopServes
<1>2. CASE FreeThreaded
  <2>1. Covered(t)
    BY <1>2 DEF Serving, SectionsMatch, Crashed, At, Opens
  <2>2. Len(sections[t]) = Depth(t) /\ sections[t][Len(sections[t])] = Top(t).cls
    BY <1>1, <2>1 DEF Covered, LockOf
  <2>3. sections[t] # <<>>
    BY <1>1, <2>2
  <2> QED BY <1>1, <1>2, <2>2, <2>3 DEF Running, Owns
<1>3. CASE ~FreeThreaded
  BY <1>1, <1>3 DEF Running, Owns
<1> QED BY <1>2, <1>3

LEMMA LookupsServe ==
    ASSUME IInv, IInv', Serving, NEW t \in Thread, ~Crashed(t), OthersOwn(t), Running(t),
           FastFlag(t) \/ FastPointer(t) \/ EnterClass(t) \/ CheckHeld(t) \/ LeaveClass(t)
    PROVE  Serving'
<1>1. /\ Depth(t) > 0 /\ Top(t).kind = "struct" /\ UNCHANGED stored
      /\ Top(t) \in StructFrames /\ Top(t).cls \in Class
      /\ Claim(Top(t), ptr, status, overwritten)
  <2>1. Depth(t) > 0 /\ Top(t).kind = "struct" /\ UNCHANGED stored
    BY DEF FastFlag, FastPointer, EnterClass, CheckHeld, LeaveClass, At, stored, infoVars, slotVars
  <2> QED BY <2>1, TopServes
<1> DEFINE c == Top(t).cls
<1>2. ready[c] => c \in overwritten \/ (ptr[c] # NoInfo /\ status[ptr[c]] = "ready")
  BY <1>1 DEF Serving, PointersServe
<1>3. CASE FastFlag(t)
  <2> DEFINE f == [Top(t) EXCEPT !.pc = IF ready[c] THEN "load" ELSE "enter"]
  <2>1. f.kind = "struct" /\ f.cls = c /\ f.pc = IF ready[c] THEN "load" ELSE "enter"
    BY <1>1 DEF StructFrames
  <2>2. Become(t, f) /\ UNCHANGED sections /\ Top(t).pc = "fast"
    BY <1>3 DEF FastFlag, Goto, lockVars, At
  <2> HIDE DEF f
  <2>3. MayMake(t, f) /\ ~Opens(f) /\ ~Opens(Top(t))
    BY <1>1, <1>2, <2>1, <2>2 DEF MayMake, Claim, Clears, Builds, Annotates, Opens
  <2> QED BY <1>1, <2>2, <2>3, BecomesServes
<1>4. CASE FastPointer(t)
  <2> DEFINE f == [Top(t) EXCEPT !.info = ptr[c],
                                 !.pc = IF ptr[c] = NoInfo THEN "crash" ELSE "return"]
  <2>1. Top(t).pc = "load" /\ Become(t, f) /\ UNCHANGED sections
    BY <1>4 DEF FastPointer, At, lockVars
  <2>2. f.kind = "struct" /\ f.cls = c /\ f.pc = IF ptr[c] = NoInfo THEN "crash" ELSE "return"
    BY <1>1 DEF StructFrames
  <2> HIDE DEF f
  <2>3. MayMake(t, f) /\ ~Opens(f) /\ ~Opens(Top(t))
    BY <1>1, <2>1, <2>2 DEF MayMake, Claim, Clears, Builds, Annotates, Opens
  <2> QED BY <1>1, <2>1, <2>3, BecomesServes
<1>5. CASE EnterClass(t)
  <2> DEFINE f == [Top(t) EXCEPT !.pc = "held"]
  <2>1. f.kind = "struct" /\ f.cls = c /\ f.pc = "held"
    BY <1>1 DEF StructFrames
  <2>2. Become(t, f) /\ BeginSection(t, c) /\ Top(t).pc = "enter"
    BY <1>5 DEF EnterClass, Goto, At
  <2> HIDE DEF f
  <2>3. Plain(f) /\ Opens(f) /\ ~Opens(Top(t)) /\ LockOf(f) = c /\ c \in Lock
    BY <1>1, <2>1, <2>2 DEF Plain, Opens, LockOf, Lock
  <2> QED BY <1>1, <2>2, <2>3, PlainClaim, BecomesServes
<1>6. CASE LeaveClass(t)
  <2> DEFINE f == [Top(t) EXCEPT !.pc = "return"]
  <2>1. f.kind = "struct" /\ f.pc = "return"
    BY <1>1 DEF StructFrames
  <2>2. Become(t, f) /\ EndSection(t) /\ Top(t).pc = "exit"
    BY <1>6 DEF LeaveClass, Goto, At
  <2> HIDE DEF f
  <2>3. Plain(f) /\ ~Opens(f) /\ Opens(Top(t))
    BY <1>1, <2>1, <2>2 DEF Plain, Opens
  <2> QED BY <1>1, <2>2, <2>3, PlainClaim, BecomesServes
<1>7. CASE CheckHeld(t)
  <2> DEFINE f == [Top(t) EXCEPT !.info = ptr[c],
                     !.pc = IF ptr[c] # NoInfo THEN "exit"
                            ELSE IF ready[c] THEN "crash" ELSE "annotate"]
  <2>1. Top(t).pc = "held" /\ Become(t, f) /\ UNCHANGED lockVars
    BY <1>7 DEF CheckHeld, At
  <2>2. /\ f.kind = "struct" /\ f.cls = c
        /\ f.pc = IF ptr[c] # NoInfo THEN "exit"
                  ELSE IF ready[c] THEN "crash" ELSE "annotate"
    BY <1>1 DEF StructFrames
  <2> HIDE DEF f
  <2>3. Opens(Top(t)) /\ LockOf(Top(t)) = c /\ c \in Owns(t)'
    BY <1>1, <2>1, TopOwns DEF Opens, LockOf, Owns, lockVars
  <2>4. MayMake(t, f)
    BY <1>2, <2>2, <2>3 DEF MayMake, Claim, Clears, Builds, Annotates
  <2>5. OnlyTop(t, f) /\ Len(frames'[t]) = Depth(t)
    BY <1>1, <2>1, BecomesTop DEF IInv
  <2>6. CASE f.pc = "crash"
    <3>1. Crashed(t)'
      BY <1>1, <2>2, <2>5, <2>6, TopServes DEF Crashed, At, Top, Depth, OnlyTop
    <3>2. SectionsMatch'
      BY <2>1, <2>5, <3>1 DEF Serving, SectionsMatch, Covered, Crashed, At, Top, Depth,
         OnlyTop, lockVars
    <3> QED BY <1>1, <2>4, <2>5, <3>2, StillServe
  <2>7. CASE f.pc # "crash"
    <3>1. Opens(f) /\ LockOf(f) = c /\ UNCHANGED sections
      BY <2>1, <2>2, <2>7 DEF Opens, LockOf, lockVars
    <3> QED BY <1>1, <2>1, <2>3, <2>4, <3>1, BecomesServes
  <2> QED BY <2>6, <2>7
<1> QED BY <1>3, <1>4, <1>5, <1>6, <1>7

LEMMA CallsServe ==
    ASSUME IInv, IInv', Serving, NEW t \in Thread, ~Crashed(t), OthersOwn(t),
           ConvertField(t) \/ StructReturn(t) \/ NodeReturn(t)
    PROVE  Serving'
<1>1. CASE ConvertField(t)
  <2>1. PICK f : /\ Call(t, f) /\ f.kind = "node" /\ f.pc = "begin"
                 /\ Opens(Top(t)) /\ UNCHANGED stored /\ UNCHANGED sections
    <3>1. \A S : NodeFrame(S).kind = "node" /\ NodeFrame(S).pc = "begin"
      BY DEF NodeFrame
    <3> QED BY <1>1, <3>1 DEF ConvertField, At, Opens, stored, infoVars, slotVars, lockVars
  <2>2. ~Opens(f) /\ Plain(f)
    BY <2>1 DEF Opens, Plain
  <2>3. OnlyTop(t, f) /\ SectionsMatch'
    BY <2>1, <2>2, CallsTop, CallCovered DEF IInv, Serving
  <2> QED BY <2>1, <2>2, <2>3, PlainClaim, StillServe
<1>2. CASE StructReturn(t)
  <2>1. /\ Depth(t) > 1 /\ Caller(t) \in NodeFrames /\ Caller(t).pc = "members"
        /\ Top(t).kind = "struct" /\ Top(t).pc = "return"
        /\ UNCHANGED stored /\ UNCHANGED sections
    BY <1>2, TopOK DEF IInv, StructReturn, At, Calls, stored, infoVars, slotVars, lockVars,
       FrameOK, Frame, NodeFrames, StructFrames, ReadFrames
  <2>2. PICK f : Return(t, f) /\ \/ f = [Caller(t) EXCEPT !.pc = "end", !.ok = FALSE]
                                 \/ \E got : f = [Caller(t) EXCEPT !.got = got]
    BY <1>2 DEF StructReturn
  <2>3. f.kind = "node" /\ f.pc \in {"end", "members"}
    BY <2>1, <2>2 DEF NodeFrames
  <2>4. /\ ~Opens(Top(t)) /\ Opens(f) /\ Plain(f) /\ LockOf(f) = LockOf(Caller(t))
    BY <2>1, <2>3 DEF Opens, Plain, LockOf, NodeFrames
  <2>5. OnlyTop(t, f) /\ SectionsMatch'
    BY <2>1, <2>2, <2>4, ReturnsTop, ReturnCovered DEF IInv, Serving
  <2> QED BY <2>1, <2>4, <2>5, PlainClaim, StillServe
<1>3. CASE NodeReturn(t)
  <2> DEFINE b == Caller(t)
             f == IF Top(t).ok THEN b ELSE [b EXCEPT !.pc = "err"]
  <2>1. /\ Depth(t) > 1 /\ Depth(t) \in Nat /\ b \in StructFrames /\ b.pc = "fields"
        /\ b.info \in InfoId /\ Top(t).kind = "node" /\ Top(t).pc = "return"
        /\ UNCHANGED stored /\ UNCHANGED sections /\ Return(t, f)
    BY <1>3, TopOK DEF IInv, NodeReturn, At, Calls, stored, slotVars, lockVars,
       FrameOK, Frame, NodeFrames, StructFrames, ReadFrames
  <2>2. /\ f.kind = "struct" /\ f.cls = b.cls /\ f.info = b.info /\ f.pc \in {"fields", "err"}
        /\ b.kind = "struct" /\ b.info # NoInfo
    BY <2>1, Constants DEF StructFrames, NoInfo
  <2> HIDE DEF f
  <2>3. ~Opens(Top(t)) /\ Opens(f) /\ LockOf(f) = LockOf(b)
    BY <2>1, <2>2 DEF Opens, LockOf
  <2>4. OnlyTop(t, f) /\ SectionsMatch'
    BY <2>1, <2>3, ReturnsTop, ReturnCovered DEF IInv, Serving
  <2>5. Depth(t) - 1 \in 1..Depth(t)
    BY <2>1
  <2>6. Claim(b, ptr, status, overwritten)
    BY <2>5, Alive DEF Caller
  <2>7. MayMake(t, f)
    BY <2>1, <2>2, <2>6 DEF MayMake, Claim, Clears, Builds, Annotates
  <2> QED BY <2>1, <2>4, <2>7, StillServe
<1> QED BY <1>1, <1>2, <1>3

(* The stages of a build that leave infos, flags and pointers alone.        *)
LEMMA StagesServe ==
    ASSUME IInv, IInv', Serving, NEW t \in Thread, ~Crashed(t), OthersOwn(t),
           \/ Annotate(t) \/ AnnotationsFail(t) \/ FieldFails(t)
           \/ CacheInfo(t) /\ Unused = {}
    PROVE  Serving'
<1>1. PICK pc : /\ Depth(t) > 0 /\ Top(t).kind = "struct" /\ Goto(t, pc)
                /\ UNCHANGED stored /\ UNCHANGED sections
                /\ \/ Top(t).pc = "annotate" /\ pc = "annotated" /\ UNCHANGED lockVars
                   \/ Top(t).pc = "annotate" /\ pc = "switched"
                   \/ Top(t).pc \in {"annotated", "switched", "fields"} /\ pc = "err"
  <2>1. CASE Annotate(t)
    BY <2>1 DEF Annotate, Detach, At, stored, infoVars, slotVars, lockVars
  <2>2. CASE AnnotationsFail(t) \/ FieldFails(t) \/ (CacheInfo(t) /\ Unused = {})
    BY <2>2 DEF AnnotationsFail, FieldFails, CacheInfo, HasAnnotations, At, stored,
       infoVars, slotVars, lockVars
  <2> QED BY <2>1, <2>2
<1> DEFINE f == [Top(t) EXCEPT !.pc = pc]
<1>2. /\ Top(t) \in StructFrames /\ FrameOK(Top(t))
      /\ Claim(Top(t), ptr, status, overwritten)
  BY <1>1, TopServes
<1>3. /\ f.kind = "struct" /\ f.cls = Top(t).cls /\ f.info = Top(t).info /\ f.pc = pc
      /\ Become(t, f)
  BY <1>1, <1>2 DEF StructFrames, Goto
<1> HIDE DEF f
<1>4. Opens(f) /\ Opens(Top(t)) /\ LockOf(f) = LockOf(Top(t))
  BY <1>1, <1>3 DEF Opens, LockOf
<1>5. CASE Top(t).pc = "annotate" /\ pc = "annotated" /\ UNCHANGED lockVars
  <2>1. f.cls \in Owns(t) /\ ptr[f.cls] = NoInfo
    BY <1>1, <1>3, <1>5 DEF Serving, Prepared, Annotates
  <2>2. Owns(t)' = Owns(t)
    BY <1>5 DEF Owns, lockVars
  <2>3. MayMake(t, f)
    BY <1>3, <1>5, <2>1, <2>2 DEF MayMake, Claim, Clears, Builds
  <2> QED BY <1>1, <1>3, <1>4, <2>3, BecomesServes
<1>6. CASE pc = "switched"
  <2>1. Plain(f)
    BY <1>3, <1>6 DEF Plain
  <2> QED BY <1>1, <1>3, <1>4, <2>1, PlainClaim, BecomesServes
<1>7. CASE Top(t).pc \in {"annotated", "switched", "fields"} /\ pc = "err"
  <2>1. f.info # NoInfo => f.cls \in overwritten \/ ptr[f.cls] = f.info
    BY <1>1, <1>2, <1>3, <1>7 DEF FrameOK, Claim, Builds
  <2>2. MayMake(t, f)
    BY <1>3, <1>7, <2>1 DEF MayMake, Claim, Clears, Builds, Annotates
  <2> QED BY <1>1, <1>3, <1>4, <2>2, BecomesServes
<1> QED BY <1>1, <1>5, <1>6, <1>7

(* The steps that change them, inside the section of the class.             *)
LEMMA WriteServes ==
    ASSUME IInv, IInv', Serving, NEW t \in Thread, ~Crashed(t), OthersOwn(t), Depth(t) > 0,
           NEW f, Become(t, f), UNCHANGED sections,
           Opens(f), Opens(Top(t)), LockOf(f) = LockOf(Top(t)), ~Annotates(f),
           overwritten \subseteq overwritten',
           \A i \in InfoId : status[i] \in {"ready", "failed"} => status'[i] = status[i],
           \A d \in Class : ptr'[d] = ptr[d] \/ Writes(t, d) \/ Drops(t, d),
           Claim(f, ptr', status', overwritten'),
           Clears(f) => status[f.info] = "building",
           PointersServe'
    PROVE  Serving'
<1>1. OnlyTop(t, f)
  BY BecomesTop DEF IInv
<1>2. SectionsMatch'
  BY StayCovered DEF Serving
<1>3. Claims' /\ OneClears'
  BY <1>1, ClaimsFollow
<1>4. Prepared'
  BY <1>1, PreparedFollow
<1> QED BY <1>2, <1>3, <1>4 DEF Serving

LEMMA CacheServes ==
    ASSUME IInv, IInv', Serving, NEW t \in Thread, ~Crashed(t), OthersOwn(t), Running(t),
           CacheInfo(t), Unused # {}
    PROVE  Serving'
<1> DEFINE c == Top(t).cls
           n == Fresh
           f == [Top(t) EXCEPT !.info = n, !.pc = "fields"]
<1>1. /\ Depth(t) > 0 /\ Top(t).kind = "struct" /\ Top(t).pc \in {"annotated", "switched"}
      /\ UNCHANGED <<ready, sections>>
  BY DEF CacheInfo, HasAnnotations, At, lockVars
<1>2. Top(t) \in StructFrames /\ c \in Class /\ Opens(Top(t)) /\ LockOf(Top(t)) = c
  BY <1>1, TopServes DEF Opens, LockOf
<1>3. c \in Owns(t)
  BY <1>1, <1>2, TopOwns
<1>4. n \in InfoId /\ status[n] = "unused"
  BY DEF Unused, Fresh
<1> HIDE DEF n
<1>5. /\ status' = [status EXCEPT ![n] = "building"] /\ class' = [class EXCEPT ![n] = c]
      /\ ptr' = [ptr EXCEPT ![c] = n] /\ Become(t, f)
      /\ overwritten' = IF ptr[c] = NoInfo THEN overwritten ELSE overwritten \cup {c}
  BY DEF CacheInfo, Assign, n
<1>6. /\ f.kind = "struct" /\ f.cls = c /\ f.info = n /\ f.pc = "fields"
  BY <1>2 DEF StructFrames
<1> HIDE DEF f
<1>7. /\ ptr'[c] = n /\ \A d \in Class : d # c => ptr'[d] = ptr[d]
      /\ \A i \in InfoId : i # n => status'[i] = status[i] /\ class'[i] = class[i]
      /\ status'[n] = "building" /\ class'[n] = c
  BY <1>2, <1>4, <1>5 DEF IInv, DataOK
<1>8. Opens(f) /\ LockOf(f) = c /\ ~Annotates(f) /\ ~Clears(f)
  BY <1>6 DEF Opens, LockOf, Annotates, Clears
<1>9. Claim(f, ptr', status', overwritten')
  BY <1>6, <1>7 DEF Claim, Clears
<1>10. Writes(t, c)
  BY <1>3, <1>5 DEF Writes
<1>11. PointersServe'
  <2> SUFFICES ASSUME NEW d \in Class, d \notin overwritten'
               PROVE  /\ \A i \in InfosOf'[d] : i = ptr'[d] \/ status'[i] = "failed"
                      /\ ready'[d] => ptr'[d] # NoInfo /\ status'[ptr'[d]] = "ready"
    BY DEF PointersServe
  <2>1. d \notin overwritten /\ (d = c => ptr[c] = NoInfo)
    BY <1>5
  <2>2. /\ \A i \in InfosOf[d] : i = ptr[d] \/ status[i] = "failed"
        /\ ready[d] => ptr[d] # NoInfo /\ status[ptr[d]] = "ready"
    BY <2>1 DEF Serving, PointersServe
  <2>3. ASSUME NEW i \in InfosOf'[d]
        PROVE  i = ptr'[d] \/ status'[i] = "failed"
    <3>1. i \in InfoId /\ status'[i] # "unused" /\ class'[i] = d
      BY <2>3 DEF InfosOf
    <3>2. CASE i = n
      BY <1>7, <3>1, <3>2
    <3>3. CASE i # n
      <4>1. i \in InfosOf[d] /\ status'[i] = status[i]
        BY <1>7, <3>1, <3>3 DEF InfosOf
      <4> QED BY <1>7, <2>1, <2>2, <3>1, <4>1, Constants DEF NoInfo
    <3> QED BY <3>2, <3>3
  <2>4. ready'[d] => ptr'[d] # NoInfo /\ status'[ptr'[d]] = "ready"
    <3> SUFFICES ASSUME ready[d] PROVE ptr'[d] # NoInfo /\ status'[ptr'[d]] = "ready"
      BY <1>1
    <3>1. ptr[d] # NoInfo /\ status[ptr[d]] = "ready" /\ d # c
      BY <2>1, <2>2
    <3>2. ptr[d] \in InfoId /\ ptr[d] # n /\ ptr'[d] = ptr[d]
      BY <1>4, <1>7, <3>1 DEF IInv, DataOK
    <3> QED BY <1>7, <3>1, <3>2
  <2> QED BY <2>3, <2>4
<1>12. /\ overwritten \subseteq overwritten'
       /\ \A i \in InfoId : status[i] \in {"ready", "failed"} => status'[i] = status[i]
       /\ \A d \in Class : ptr'[d] = ptr[d] \/ Writes(t, d) \/ Drops(t, d)
  BY <1>4, <1>5, <1>7, <1>10
<1> QED BY <1>1, <1>2, <1>5, <1>8, <1>9, <1>11, <1>12, WriteServes

LEMMA SettleServes ==
    ASSUME IInv, IInv', Serving, NEW t \in Thread, ~Crashed(t), OthersOwn(t),
           BuildDone(t) \/ MarkFailed(t)
    PROVE  Serving'
<1> DEFINE c == Top(t).cls
           i == Top(t).info
<1>1. PICK pc, s : /\ Depth(t) > 0 /\ Top(t).kind = "struct" /\ Goto(t, pc)
                   /\ status' = [status EXCEPT ![i] = s]
                   /\ UNCHANGED <<class, ptr, ready, overwritten, sections>>
                   /\ \/ Top(t).pc = "fields" /\ pc = "publish" /\ s = "ready"
                      \/ Top(t).pc = "mark" /\ pc = "clear" /\ s = "failed"
  BY DEF BuildDone, MarkFailed, At, slotVars, lockVars
<1> DEFINE f == [Top(t) EXCEPT !.pc = pc]
<1>2. /\ Top(t) \in StructFrames /\ FrameOK(Top(t)) /\ c \in Class
      /\ Claim(Top(t), ptr, status, overwritten)
      /\ Builds(Top(t)) => i \in InfoId /\ (Clears(Top(t)) \/ status[i] = "building")
  BY <1>1, TopServes
<1>3. Builds(Top(t)) /\ ~Clears(Top(t))
  BY <1>1, <1>2, Constants DEF Builds, Clears, FrameOK, NoInfo
<1>4. i \in InfoId /\ status[i] = "building" /\ (c \in overwritten \/ ptr[c] = i)
  BY <1>2, <1>3 DEF Claim
<1>5. f.kind = "struct" /\ f.cls = c /\ f.info = i /\ f.pc = pc /\ Become(t, f)
  BY <1>1, <1>2 DEF StructFrames, Goto
<1> HIDE DEF f
<1>6. \A j \in InfoId : status'[j] = IF j = i THEN s ELSE status[j]
  BY <1>1, <1>4 DEF IInv, DataOK
<1>7. /\ Opens(f) /\ Opens(Top(t)) /\ LockOf(f) = LockOf(Top(t)) /\ ~Annotates(f)
  BY <1>1, <1>5 DEF Opens, LockOf, Annotates
<1>8. Claim(f, ptr', status', overwritten')
  BY <1>1, <1>4, <1>5, <1>6 DEF Claim, Builds, Clears
<1>9. PointersServe'
  <2>1. \A d \in Class : InfosOf'[d] = InfosOf[d]
    BY <1>1, <1>4, <1>6 DEF InfosOf
  <2> SUFFICES ASSUME NEW d \in Class, d \notin overwritten
               PROVE  /\ \A j \in InfosOf[d] : j = ptr[d] \/ status'[j] = "failed"
                      /\ ready[d] => ptr[d] # NoInfo /\ status'[ptr[d]] = "ready"
    BY <1>1, <2>1 DEF PointersServe
  <2>2. /\ \A j \in InfosOf[d] : j \in InfoId /\ (j = ptr[d] \/ status[j] = "failed")
        /\ ready[d] => ptr[d] \in InfoId /\ ptr[d] # NoInfo /\ status[ptr[d]] = "ready"
    BY DEF Serving, PointersServe, InfosOf, IInv, DataOK
  <2> QED BY <1>4, <1>6, <2>2
<1>10. /\ overwritten \subseteq overwritten' /\ Clears(f) => status[f.info] = "building"
       /\ \A j \in InfoId : status[j] \in {"ready", "failed"} => status'[j] = status[j]
       /\ \A d \in Class : ptr'[d] = ptr[d]
  BY <1>1, <1>4, <1>5, <1>6
<1> QED BY <1>1, <1>5, <1>7, <1>8, <1>9, <1>10, WriteServes

LEMMA FlagServes ==
    ASSUME IInv, IInv', Match, Serving, NEW t \in Thread, ~Crashed(t), OthersOwn(t),
           Publish(t) \/ Unpublish(t)
    PROVE  Serving'
<1> DEFINE c == Top(t).cls
           i == Top(t).info
<1>1. PICK pc, b : /\ Depth(t) > 0 /\ Top(t).kind = "struct" /\ Goto(t, pc)
                   /\ ready' = [ready EXCEPT ![c] = b]
                   /\ UNCHANGED <<status, class, ptr, overwritten, sections>>
                   /\ \/ Top(t).pc = "publish" /\ pc = "exit" /\ b = TRUE
                      \/ Top(t).pc = "err" /\ pc = "exit" /\ b = FALSE
                      \/ Top(t).pc = "err" /\ pc = "mark" /\ b = FALSE /\ i # NoInfo
  BY DEF Publish, Unpublish, At, infoVars, lockVars
<1> DEFINE f == [Top(t) EXCEPT !.pc = pc]
<1>2. /\ Top(t) \in StructFrames /\ FrameOK(Top(t)) /\ c \in Class
      /\ Claim(Top(t), ptr, status, overwritten)
  BY <1>1, TopServes
<1>3. f.kind = "struct" /\ f.cls = c /\ f.info = i /\ f.pc = pc /\ Become(t, f)
  BY <1>1, <1>2 DEF StructFrames, Goto
<1> HIDE DEF f
<1>4. /\ Opens(f) /\ Opens(Top(t)) /\ LockOf(f) = LockOf(Top(t)) /\ ~Annotates(f) /\ ~Clears(f)
  BY <1>1, <1>3 DEF Opens, LockOf, Annotates, Clears
<1>5. pc = "mark" => c \in overwritten \/ ptr[c] = i
  BY <1>1, <1>2 DEF Claim, Builds
<1>6. Claim(f, ptr', status', overwritten')
  BY <1>1, <1>3, <1>5 DEF Claim, Builds, Clears
<1>7. ASSUME c \notin overwritten, b = TRUE
      PROVE  ptr[c] # NoInfo /\ status[ptr[c]] = "ready"
  <2>1. i \in InfoId /\ status[i] = "ready"
    BY <1>1, <1>2, <1>7 DEF FrameOK, Claim
  <2>2. i \in InfosOf[c]
    BY <1>1, <2>1, Constants, TopMatches DEF Match, FrameData, NoInfo
  <2>3. i = ptr[c]
    BY <1>2, <1>7, <2>1, <2>2 DEF Serving, PointersServe
  <2> QED BY <2>1, <2>3, Constants DEF NoInfo
<1>8. PointersServe'
  <2>1. InfosOf' = InfosOf
    BY <1>1 DEF InfosOf
  <2>2. \A d \in Class : ready'[d] = IF d = c THEN b ELSE ready[d]
    BY <1>1 DEF IInv, DataOK
  <2> QED BY <1>1, <1>7, <2>1, <2>2 DEF Serving, PointersServe
<1> QED BY <1>1, <1>3, <1>4, <1>6, <1>8, WriteServes

LEMMA ClearServes ==
    ASSUME IInv, IInv', Serving, NEW t \in Thread, ~Crashed(t), OthersOwn(t), ClearPointer(t)
    PROVE  Serving'
<1> DEFINE c == Top(t).cls
           f == [Top(t) EXCEPT !.info = NoInfo, !.pc = "exit"]
<1>1. /\ Depth(t) > 0 /\ Top(t).kind = "struct" /\ Top(t).pc = "clear" /\ Become(t, f)
      /\ ptr' = [ptr EXCEPT ![c] = NoInfo]
      /\ UNCHANGED <<status, class, ready, overwritten, sections>>
  BY DEF ClearPointer, At, infoVars, lockVars
<1>2. /\ Top(t) \in StructFrames /\ c \in Class /\ FrameOK(Top(t))
      /\ Claim(Top(t), ptr, status, overwritten)
  BY <1>1, TopServes
<1>3. f.kind = "struct" /\ f.cls = c /\ f.pc = "exit"
  BY <1>2 DEF StructFrames
<1> HIDE DEF f
<1>4. /\ Opens(f) /\ Opens(Top(t)) /\ LockOf(f) = LockOf(Top(t)) /\ Plain(f)
  BY <1>1, <1>3 DEF Opens, LockOf, Plain
<1>5. /\ ptr'[c] = NoInfo /\ \A d \in Class : d # c => ptr'[d] = ptr[d]
  BY <1>1, <1>2 DEF IInv, DataOK
<1>6. Drops(t, c)
  <2>1. Len(frames'[t]) = Depth(t)
    BY <1>1, BecomesTop DEF IInv
  <2> QED BY <1>1, <1>5, <2>1 DEF Drops, Clears
<1>7. status[Top(t).info] = "failed" /\ (c \in overwritten \/ ptr[c] = Top(t).info)
  BY <1>1, <1>2, Constants DEF Claim, Builds, Clears, FrameOK, NoInfo
<1>8. PointersServe'
  <2>1. InfosOf' = InfosOf
    BY <1>1 DEF InfosOf
  <2> QED BY <1>1, <1>2, <1>5, <1>7, <2>1 DEF Serving, PointersServe
<1>9. Claim(f, ptr', status', overwritten') /\ ~Annotates(f) /\ ~Clears(f)
  BY <1>3 DEF Claim, Annotates, Clears, Builds
<1> QED BY <1>1, <1>4, <1>5, <1>6, <1>8, <1>9, WriteServes

-----------------------------------------------------------------------------
LEMMA InitServe == Init => Serving
BY DEF Init, Serving, SectionsMatch, Covered, Crashed, At, Prepared, PointersServe, InfosOf,
   Claims, OneClears, Depth

LEMMA NextServe ==
    ASSUME IInv, IInv', Match, Serving, [Next]_vars
    PROVE  Serving'
<1>1. CASE UNCHANGED vars
  <2>1. UNCHANGED stored /\ UNCHANGED <<frames, sections, held, gil>>
    BY <1>1 DEF vars, stored, infoVars, slotVars, lockVars
  <2>2. \A u \in Thread : Owns(u)' = Owns(u)
    BY <2>1 DEF Owns
  <2> QED BY <2>1, <2>2, SameServe
<1>2. CASE Next
  <2> PICK t \in Thread : \/ \E S \in Requests : Request(t, S)
                          \/ Step(t) \/ Attach(t) \/ SpinEnds(t)
    BY <1>2 DEF Next
  <2>1. OthersOwn(t)
    BY OthersKeep DEF Serving
  <2>2. CASE Attach(t)
    BY <2>1, <2>2, AttachServes
  <2>3. CASE (\E S \in Requests : Request(t, S)) \/ SpinEnds(t)
    <3>1. ~Crashed(t)
      BY <2>3 DEF Request, SpinEnds, Crashed, At, Depth
    <3> QED BY <2>1, <2>3, <3>1, NodesServe, ReadsServe
  <2>4. CASE Step(t)
    <3>1. ~Crashed(t) /\ Running(t)
      BY <2>4, ZenonT(60) DEF Step, Crashed, At, NodeBegin, NodeCollect, NodeMember, NodeBuilt,
         NodeEnd, NodeReturn, RequestReturn, FastFlag, FastPointer, EnterClass, CheckHeld,
         Annotate, AnnotationsFail, CacheInfo, HasAnnotations, ConvertField, FieldFails,
         BuildDone, Publish, Unpublish, MarkFailed, ClearPointer, LeaveClass, StructReturn,
         GetInfo, DecodeField, DecodeDone, Reading
    <3>2. CASE CacheInfo(t)
      BY <2>1, <3>1, <3>2, StagesServe, CacheServes
    <3> QED BY <2>1, <2>4, <3>1, <3>2, NodesServe, ReadsServe, LookupsServe, CallsServe,
            StagesServe, SettleServes, FlagServes, ClearServes DEF Step
  <2> QED BY <2>2, <2>3, <2>4
<1> QED BY <1>1, <1>2

LEMMA SpecServe == Spec => []Serving
<1>1. IInv /\ IInv' /\ Match /\ Serving /\ [Next]_vars => Serving'
  BY NextServe
<1> QED BY <1>1, InitServe, SpecInv, SpecMatch, PTL DEF Spec

(* A class whose flag struct_info_ready is up has a finished info of its    *)
(* own, with a node for every field, unless a build has replaced its info:  *)
(* what the lock-free path may use.                                         *)
THEOREM ReadyIsBuilt == Spec => []ReadyUnlessOverwritten
<1>1. IInv /\ Match /\ Serving => ReadyUnlessOverwritten
  <2> SUFFICES ASSUME IInv, Match, Serving, NEW c \in Class, c \notin overwritten, ready[c]
               PROVE  Built(c)
    BY DEF ReadyUnlessOverwritten
  <2>1. ptr[c] # NoInfo /\ status[ptr[c]] = "ready" /\ ptr[c] \in InfosOf[c]
    BY DEF Serving, PointersServe, Match, PointersMatch
  <2> QED BY <2>1 DEF Built, InfosOf, Match, InfosMatch
<1> QED BY <1>1, SpecInv, SpecMatch, SpecServe, PTL

(* A build replaces the info of its class only if its thread gave up the    *)
(* GIL or its sections inside get_class_annotations: a thread that did not  *)
(* still owns the class, and still finds no info there.                     *)
THEOREM OverwritesNeedASwitch == Spec => OnlySwitchesOverwrite
<1> DEFINE A == \A c \in overwritten' \ overwritten :
                   \E t \in Thread : At(t, "struct", "switched") /\ Top(t).cls = c
<1>1. ASSUME IInv, Serving, [Next]_vars PROVE [A]_vars
  <2>1. CASE UNCHANGED overwritten
    BY <2>1
  <2>2. CASE \E t \in Thread : CacheInfo(t) /\ Unused # {}
    <3> PICK t \in Thread : CacheInfo(t) /\ Unused # {}
      BY <2>2
    <3>1. /\ HasAnnotations(t)
          /\ overwritten' = IF ptr[Top(t).cls] = NoInfo THEN overwritten
                            ELSE overwritten \cup {Top(t).cls}
      BY DEF CacheInfo, Assign
    <3>2. At(t, "struct", "annotated") => ptr[Top(t).cls] = NoInfo
      BY <1>1 DEF Serving, Prepared, Annotates, At
    <3> QED BY <3>1, <3>2 DEF HasAnnotations
  <2> QED BY <1>1, <2>1, <2>2, ZenonT(60) DEF Next, Step, vars, slotVars, Request,
          NodeBegin, NodeCollect, NodeMember, NodeBuilt, NodeEnd, NodeReturn, RequestReturn,
          FastFlag, FastPointer, EnterClass, CheckHeld, Annotate, AnnotationsFail, CacheInfo,
          ConvertField, FieldFails, BuildDone, Publish, Unpublish, MarkFailed, ClearPointer,
          LeaveClass, StructReturn, GetInfo, DecodeField, DecodeDone, Attach, SpinEnds
<1> QED BY <1>1, SpecInv, SpecServe, PTL DEF Spec, OnlySwitchesOverwrite

(* A NULL struct_info is met only for a class whose info a build replaced,  *)
(* and a reader that waited for its info finds a TypeNode for every field:  *)
(* a NULL TypeNode is left to the members of unions, which nobody waits for.*)
THEOREM NothingIsNull == Spec => []NullsHaveACause
<1>1. IInv /\ Match /\ Serving => NullsHaveACause
  <2> SUFFICES ASSUME IInv, Match, Serving, NEW t \in Thread, Depth(t) > 0
               PROVE  /\ At(t, "struct", "crash") => Top(t).cls \in overwritten
                      /\ At(t, "read", "use") => Filled(Top(t).info)
    BY DEF NullsHaveACause, At
  <2>1. Depth(t) \in 1..Depth(t) /\ FrameOK(Top(t))
    BY TopOK DEF IInv
  <2>2. Claim(Top(t), ptr, status, overwritten)
    BY <2>1, Alive DEF Top
  <2>3. Top(t).kind = "read" => Top(t).info \in InfoId
    BY <2>1 DEF FrameOK, Frame, StructFrames, NodeFrames, ReadFrames
  <2> QED BY <2>2, <2>3 DEF Claim, At, Match, InfosMatch
<1> QED BY <1>1, SpecInv, SpecMatch, SpecServe, PTL

(* A cached tag lookup leads to the infos that the classes point to, to one *)
(* whose build failed, or to one that another build has replaced.           *)
THEOREM LookupsStayCurrent == Spec => []StaleLookupsHaveFailed
<1>1. IInv /\ Match /\ Serving => StaleLookupsHaveFailed
  <2> SUFFICES ASSUME IInv, Match, Serving, NEW k \in 1..Len(cache), NEW c \in DOMAIN cache[k],
                      cache[k][c] # ptr[c], c \notin overwritten
               PROVE  status[cache[k][c]] = "failed"
    BY DEF StaleLookupsHaveFailed
  <2>1. cache[k] \in Nodes /\ Leads(cache[k], InfosOf)
    BY DEF IInv, DataOK, Match, LookupsMatch
  <2>2. c \in Class /\ cache[k][c] \in InfosOf[c]
    BY <2>1 DEF Nodes, Leads
  <2> QED BY <2>2 DEF Serving, PointersServe
<1> QED BY <1>1, SpecInv, SpecMatch, SpecServe, PTL

-----------------------------------------------------------------------------
(* The caches implement the cells.                                          *)

cells == [c \in Class |-> IF Served(c) THEN ptr[c] ELSE NoInfo]

LEMMA CellSteps ==
    ASSUME IInv, Match, Serving, NEW t \in Thread,
           (CacheInfo(t) /\ Unused # {}) \/ BuildDone(t) \/ MarkFailed(t) \/ ClearPointer(t)
    PROVE  Cell!Next \/ UNCHANGED Cell!vars
<1> DEFINE c == Top(t).cls
           i == Top(t).info
<1>1. /\ Depth(t) > 0 /\ Top(t).kind = "struct"
      /\ Top(t).pc \in {"annotated", "switched", "fields", "mark", "clear"}
  BY DEF CacheInfo, HasAnnotations, BuildDone, MarkFailed, ClearPointer, At
<1>2. /\ Top(t) \in StructFrames /\ c \in Class /\ FrameOK(Top(t))
      /\ Claim(Top(t), ptr, status, overwritten)
      /\ Builds(Top(t)) => i \in InfoId /\ (Clears(Top(t)) \/ status[i] = "building")
  BY <1>1, TopServes
<1>3. cells \in [Class -> InfoId \cup {NoInfo}]
  BY DEF cells, IInv, DataOK
<1>4. CASE CacheInfo(t) /\ Unused # {}
  <2> DEFINE n == Fresh
  <2>1. n \in InfoId /\ status[n] = "unused"
    BY <1>4 DEF Unused, Fresh
  <2> HIDE DEF n
  <2>2. /\ status' = [status EXCEPT ![n] = "building"]
        /\ class' = [class EXCEPT ![n] = c]
        /\ ptr' = [ptr EXCEPT ![c] = n]
        /\ overwritten' = IF ptr[c] = NoInfo THEN overwritten ELSE overwritten \cup {c}
    BY <1>4 DEF CacheInfo, Assign, n
  <2>3. \A d \in Class : d # c =>
           /\ ptr'[d] = ptr[d] /\ (d \in overwritten' <=> d \in overwritten)
           /\ ptr[d] # NoInfo => (status'[ptr[d]] = "ready" <=> status[ptr[d]] = "ready")
    BY <2>1, <2>2 DEF IInv, DataOK
  <2>4. ptr'[c] = n /\ status'[n] = "building"
    BY <1>2, <2>1, <2>2 DEF IInv, DataOK
  <2>5. /\ \A d \in Class : d # c => cells'[d] = cells[d]
        /\ cells'[c] = NoInfo
    BY <1>2, <2>3, <2>4 DEF cells, Served
  <2>6. cells' = [cells EXCEPT ![c] = NoInfo]
    BY <1>3, <2>5 DEF cells
  <2>7. ptr[c] = NoInfo => cells' = cells /\ overwritten' = overwritten
    BY <1>2, <2>2, <2>5 DEF cells, Served
  <2>8. PICK j \in InfoId, d \in Class : j = n /\ d = c
    BY <1>2, <2>1
  <2>9. Cell!Begin(j, d)
    BY <2>1, <2>2, <2>6, <2>7, <2>8 DEF Cell!Begin, cells
  <2> QED BY <2>9 DEF Cell!Next
<1>5. CASE BuildDone(t) \/ MarkFailed(t)
  <2>1. PICK s \in {"ready", "failed"} :
           /\ status' = [status EXCEPT ![i] = s] /\ UNCHANGED <<class, ptr, overwritten>>
           /\ s = "ready" <=> BuildDone(t)
    BY <1>5 DEF BuildDone, MarkFailed, slotVars, At
  <2>2. Builds(Top(t)) /\ ~Clears(Top(t))
    BY <1>1, <1>2, <1>5, Constants DEF Builds, Clears, BuildDone, MarkFailed, At, FrameOK, NoInfo
  <2>3. i \in InfoId /\ status[i] = "building" /\ (c \in overwritten \/ ptr[c] = i)
    BY <1>2, <2>2 DEF Claim
  <2>4. i \in InfosOf[c] /\ i # NoInfo
    BY <1>1, <2>3, Constants, TopMatches DEF Match, FrameData, NoInfo
  <2>5. class[i] = c /\ \A d \in Class : ptr[d] = i => d = c
    BY <1>2, <2>4 DEF InfosOf, Match, PointersMatch
  <2>6. \A j \in InfoId : status'[j] = IF j = i THEN s ELSE status[j]
    BY <2>1, <2>3 DEF IInv, DataOK
  <2>7. \A d \in Class : ptr[d] # NoInfo => ptr[d] \in InfoId
    BY DEF IInv, DataOK
  <2>8. \A d \in Class : d # c => cells'[d] = cells[d]
    BY <2>1, <2>5, <2>6, <2>7 DEF cells, Served
  <2>9. CASE s = "failed"
    <3>1. cells'[c] = cells[c]
      BY <1>2, <2>1, <2>3, <2>6, <2>7, <2>9 DEF cells, Served
    <3>2. cells' = cells
      BY <2>8, <3>1 DEF cells
    <3>3. Cell!Abandon(i)
      BY <2>1, <2>3, <2>9, <3>2 DEF Cell!Abandon, cells
    <3> QED BY <2>3, <3>3 DEF Cell!Next
  <2>10. CASE s = "ready"
    <3>1. CASE c \in overwritten
      <4>1. cells'[c] = cells[c]
        BY <1>2, <2>1, <3>1 DEF cells, Served
      <4>2. cells' = cells
        BY <2>8, <4>1 DEF cells
      <4> QED BY <2>1, <2>3, <2>5, <2>10, <3>1, <4>2 DEF Cell!Next, Cell!Finish, cells
    <3>2. CASE c \notin overwritten
      <4>1. cells[c] = NoInfo /\ cells'[c] = i
        BY <1>2, <2>1, <2>3, <2>4, <2>6, <2>10, <3>2 DEF cells, Served
      <4>2. cells' = [cells EXCEPT ![c] = i]
        BY <1>3, <2>8, <4>1 DEF cells
      <4>3. PICK j \in InfoId : j = i
        BY <2>3
      <4>4. Cell!Finish(j)
        BY <2>1, <2>3, <2>5, <2>10, <3>2, <4>1, <4>2, <4>3 DEF Cell!Finish, cells
      <4> QED BY <4>4 DEF Cell!Next
    <3> QED BY <3>1, <3>2
  <2> QED BY <2>1, <2>9, <2>10
<1>6. CASE ClearPointer(t)
  <2>1. /\ ptr' = [ptr EXCEPT ![c] = NoInfo] /\ UNCHANGED <<status, class, overwritten>>
        /\ Top(t).pc = "clear"
    BY <1>6 DEF ClearPointer, infoVars, At
  <2>2. status[i] = "failed" /\ (c \in overwritten \/ ptr[c] = i)
    BY <1>1, <1>2, <2>1, Constants DEF Claim, Builds, Clears, FrameOK, NoInfo
  <2>3. \A d \in Class : ptr'[d] = IF d = c THEN NoInfo ELSE ptr[d]
    BY <2>1 DEF IInv, DataOK
  <2>4. \A d \in Class : cells'[d] = cells[d]
    BY <2>1, <2>2, <2>3 DEF cells, Served
  <2>5. cells' = cells
    BY <2>4 DEF cells
  <2> QED BY <2>1, <2>5 DEF Cell!vars, cells
<1> QED BY <1>4, <1>5, <1>6

(* Every schedule of the builds is one of InfoCell's: once a class has a    *)
(* finished info it serves that info for good, unless a build is begun over *)
(* it, whatever fails and whatever switches.                                *)
THEOREM ImplementsCell == Spec => ServesOneInfoForever
<1>1. Init => Cell!Init
  BY ConstantsOK DEF ConstantsOK, Init, Cell!Init, Served
<1>2. ASSUME IInv, Match, Serving, [Next]_vars PROVE [Cell!Next]_(Cell!vars)
  <2>1. CASE UNCHANGED <<status, class, ptr, overwritten>>
    BY <2>1 DEF Cell!vars, Served
  <2>2. CASE \E t \in Thread :
                (CacheInfo(t) /\ Unused # {}) \/ BuildDone(t) \/ MarkFailed(t) \/ ClearPointer(t)
    BY <1>2, <2>2, CellSteps
  <2> QED BY <1>2, <2>1, <2>2, ZenonT(60) DEF Next, Step, vars, infoVars, slotVars, Request,
          NodeBegin, NodeCollect, NodeMember, NodeBuilt, NodeEnd, NodeReturn, RequestReturn,
          FastFlag, FastPointer, EnterClass, CheckHeld, Annotate, AnnotationsFail, CacheInfo,
          ConvertField, FieldFails, Publish, Unpublish, LeaveClass, StructReturn, GetInfo,
          DecodeField, DecodeDone, Attach, SpinEnds
<1> QED BY <1>1, <1>2, SpecInv, SpecMatch, SpecServe, PTL
        DEF Spec, ServesOneInfoForever, Cell!Spec
=============================================================================
