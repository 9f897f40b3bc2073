----------------------------- MODULE InfoCache -----------------------------
(***************************************************************************)
(* The lazily built type information of structtype's C core.               *)
(*                                                                         *)
(* The first decode, validation or conversion that needs a Struct class    *)
(* builds its StructInfo (one TypeNode per field) and caches it on the     *)
(* class.  The info is cached BEFORE its fields are converted, so that a   *)
(* recursive class finds itself, and its `initialized` flag tells readers  *)
(* whether the build is running, done or dead.  Several threads do this at *)
(* once, on builds of CPython with the GIL (critical sections are no-ops,  *)
(* threads switch where Python code runs) and without it (a critical       *)
(* section is suspended whenever its thread blocks).                       *)
(*                                                                         *)
(* A thread is a stack of C calls: TypeNode_Convert ("node") calls         *)
(* StructInfo_Convert ("struct") for each Struct class of a type, which    *)
(* calls TypeNode_Convert for each field; a decoder ("read") then walks    *)
(* the infos.                                                              *)
(***************************************************************************)
EXTENDS Naturals, Sequences, FiniteSets

CONSTANTS
    Thread,         \* threads calling into the extension
    Class,          \* Struct classes
    Fields,         \* Fields[c]: per field, the Struct classes its type names
    Requests,       \* the types the threads decode: sets of classes
    MaxInfos,       \* bound on the StructInfo objects ever allocated
    MaxFailures,    \* bound on the conversions that fail on their own
    MaxDepth,       \* bound on the nesting of a decoded message
    CacheSize,      \* capacity of struct_lookup_cache (64 in the code)
    FreeThreaded,   \* build without the GIL
    Detaches,       \* get_class_annotations may give up the GIL or sections
    NoThread, LookupCache

InfoId == 1..MaxInfos
NoInfo == 0
Lock   == Class \cup {LookupCache}
FieldIndex == UNION {1..Len(Fields[c]) : c \in Class}

ASSUME ConstantsOK ==
    /\ Class # {}
    /\ Fields \in [Class -> Seq(SUBSET Class)]
    /\ Requests \subseteq (SUBSET Class) \ {{}}
    /\ MaxInfos \in Nat /\ MaxFailures \in Nat /\ MaxDepth \in Nat
    /\ CacheSize \in Nat \ {0}
    /\ FreeThreaded \in BOOLEAN /\ Detaches \in BOOLEAN
    /\ NoThread \notin Thread /\ LookupCache \notin Class

VARIABLES
    status,     \* info -> "unused", "building", "ready" or "failed"
    class,      \* info -> the class it describes
    slots,      \* info -> the nodes of the fields converted so far, in order
    ptr,        \* class -> struct_info
    ready,      \* class -> struct_info_ready
    overwritten,\* history: the classes whose struct_info a build replaced
    cache,      \* struct_lookup_cache, oldest entry first
    frames,     \* thread -> its call stack, the running call last
    sections,   \* thread -> its critical sections, the innermost last
    held,       \* lock -> the thread that holds it
    gil,        \* the thread that holds the GIL
    budget      \* failures still to come

infoVars == <<status, class, slots>>
slotVars == <<ptr, ready, overwritten>>
lockVars == <<sections, held, gil>>
vars == <<infoVars, slotVars, cache, frames, lockVars, budget>>

-----------------------------------------------------------------------------
(* The converted type of a field, as far as Struct classes go, maps each    *)
(* class it names to an info: nothing for a scalar, one StructInfo, or the  *)
(* tag lookup of a union.                                                   *)

Nodes   == UNION {[S -> InfoId] : S \in SUBSET Class}
NoNode  == [c \in {} |-> NoInfo]
IsUnion(S) == Cardinality(S) > 1

Filled(i) == Len(slots[i]) = Len(Fields[class[i]])

(* The build in the call f has fields left to convert.                      *)
Pending(f) == Len(slots[f.info]) < Len(Fields[f.cls])

NodeFrame(S) ==
    [kind |-> "node", pc |-> "begin", want |-> S, got |-> NoNode, ok |-> TRUE]
StructFrame(c) ==
    [kind |-> "struct", pc |-> "fast", cls |-> c, info |-> NoInfo]
ReadFrame(pc, i, d) ==
    [kind |-> "read", pc |-> pc, info |-> i, depth |-> d]

NodeFrames == [kind : {"node"}, pc : {"begin", "collect", "members", "end", "return"},
               want : SUBSET Class, got : Nodes, ok : BOOLEAN]
StructFrames == [kind : {"struct"}, cls : Class, info : InfoId \cup {NoInfo},
                 pc : {"fast", "load", "enter", "held", "annotate", "annotated",
                       "switched", "fields", "publish", "err", "mark", "clear", "exit",
                       "return", "crash"}]
ReadFrames == [kind : {"read"}, pc : {"get", "spin", "use", "member", "crash"},
               info : InfoId, depth : 0..MaxDepth]
Frame == NodeFrames \cup StructFrames \cup ReadFrames

Depth(t)  == Len(frames[t])
Top(t)    == frames[t][Depth(t)]
Popped(t) == SubSeq(frames[t], 1, Depth(t) - 1)

(* The thread is in the call `kind' at `pc'. *)
At(t, kind, pc) == Depth(t) > 0 /\ Top(t).kind = kind /\ Top(t).pc = pc

Become(t, f) == frames' = [frames EXCEPT ![t] = [@ EXCEPT ![Len(@)] = f]]
Goto(t, pc)  == Become(t, [Top(t) EXCEPT !.pc = pc])
Call(t, f)   == frames' = [frames EXCEPT ![t] = Append(@, f)]
Return(t, caller) ==  \* the caller, the new top of the stack, gets the result
    frames' = [frames EXCEPT ![t] = [Popped(t) EXCEPT ![Depth(t) - 1] = caller]]
Caller(t) == frames[t][Depth(t) - 1]

-----------------------------------------------------------------------------
(* The GIL and CPython's critical sections.                                 *)

Running(t) ==
    IF FreeThreaded
    THEN sections[t] # <<>> => held[sections[t][Len(sections[t])]] = t
    ELSE gil = t

Without(t) == [l \in Lock |-> IF held[l] = t THEN NoThread ELSE held[l]]

(* Contention, on a lock of its own too, suspends every section of t. *)
BeginSection(t, l) ==
    /\ UNCHANGED gil
    /\ IF FreeThreaded
       THEN /\ sections' = [sections EXCEPT ![t] = Append(@, l)]
            /\ held' = IF held[l] = NoThread THEN [held EXCEPT ![l] = t] ELSE Without(t)
       ELSE UNCHANGED <<sections, held>>

EndSection(t) ==
    /\ UNCHANGED gil
    /\ IF FreeThreaded
       THEN /\ sections' = [sections EXCEPT ![t] = SubSeq(@, 1, Len(@) - 1)]
            /\ held' = [held EXCEPT ![sections[t][Len(sections[t])]] = NoThread]
       ELSE UNCHANGED <<sections, held>>

Detach(t) ==
    /\ UNCHANGED sections
    /\ IF FreeThreaded
       THEN held' = Without(t) /\ UNCHANGED gil
       ELSE gil' = NoThread /\ UNCHANGED held

(* t resumes its innermost section, or takes the GIL back. *)
Attach(t) ==
    /\ Depth(t) > 0
    /\ ~Running(t)
    /\ ~At(t, "read", "spin")
    /\ IF FreeThreaded
       THEN LET l == sections[t][Len(sections[t])] IN
            /\ held[l] = NoThread
            /\ held' = [held EXCEPT ![l] = t]
            /\ UNCHANGED gil
       ELSE /\ gil = NoThread
            /\ gil' = t
            /\ UNCHANGED held
    /\ UNCHANGED <<infoVars, slotVars, cache, frames, sections, budget>>

-----------------------------------------------------------------------------
(* TypeNode_Convert, and typenode_collect_validate_structs inside it.       *)

Request(t, S) ==
    /\ frames[t] = <<>>
    /\ IF FreeThreaded THEN UNCHANGED gil ELSE gil = NoThread /\ gil' = t
    /\ Call(t, NodeFrame(S))
    /\ UNCHANGED <<infoVars, slotVars, cache, sections, held, budget>>

NodeBegin(t) ==
    /\ At(t, "node", "begin")
    /\ BeginSection(t, LookupCache)
    /\ Goto(t, "collect")
    /\ UNCHANGED <<infoVars, slotVars, cache, budget>>

CachedLookups(S) == {k \in 1..Len(cache) : DOMAIN cache[k] = S}

(* A union is served from struct_lookup_cache when it is there. *)
NodeCollect(t) ==
    /\ At(t, "node", "collect")
    /\ IF IsUnion(Top(t).want) /\ CachedLookups(Top(t).want) # {}
       THEN \E k \in CachedLookups(Top(t).want) :
                Become(t, [Top(t) EXCEPT !.pc = "end", !.got = cache[k]])
       ELSE Goto(t, "members")
    /\ UNCHANGED <<infoVars, slotVars, cache, lockVars, budget>>

NodeMember(t, c) ==
    /\ At(t, "node", "members")
    /\ c \in Top(t).want \ DOMAIN Top(t).got
    /\ Call(t, StructFrame(c))
    /\ UNCHANGED <<infoVars, slotVars, cache, lockVars, budget>>

(* PyDict_SetItem after the eviction of the oldest entry of a full cache:  *)
(* an entry another thread added meanwhile is replaced where it stands.    *)
CacheLookup(node) ==
    LET room == IF Len(cache) = CacheSize THEN Tail(cache) ELSE cache
        same == {k \in 1..Len(room) : DOMAIN room[k] = DOMAIN node}
    IN  cache' = IF same = {} THEN Append(room, node)
                 ELSE [k \in 1..Len(room) |-> IF k \in same THEN node ELSE room[k]]

NodeBuilt(t) ==
    /\ At(t, "node", "members")
    /\ DOMAIN Top(t).got = Top(t).want
    /\ IF IsUnion(Top(t).want) THEN CacheLookup(Top(t).got) ELSE UNCHANGED cache
    /\ Goto(t, "end")
    /\ UNCHANGED <<infoVars, slotVars, lockVars, budget>>

NodeEnd(t) ==
    /\ At(t, "node", "end")
    /\ EndSection(t)
    /\ Goto(t, "return")
    /\ UNCHANGED <<infoVars, slotVars, cache, budget>>

(* Fault: the node is stored through struct_info, whoever built that. *)
NodeReturnShared(t) ==
    /\ At(t, "node", "return")
    /\ Depth(t) > 1
    /\ LET b == Caller(t) IN
       IF Top(t).ok
       THEN /\ Return(t, b)
            /\ slots' = [slots EXCEPT ![ptr[b.cls]] = Append(@, Top(t).got)]
       ELSE /\ Return(t, [b EXCEPT !.pc = "err"])
            /\ UNCHANGED slots
    /\ UNCHANGED <<status, class, slotVars, cache, lockVars, budget>>

(* The field's node is stored in the info under construction, or the error *)
(* path of the build is taken.                                             *)
NodeReturn(t) ==
    /\ At(t, "node", "return")
    /\ Depth(t) > 1
    /\ LET b == Caller(t) IN
       IF Top(t).ok
       THEN /\ Return(t, b)
            /\ slots' = [slots EXCEPT ![b.info] = Append(@, Top(t).got)]
       ELSE /\ Return(t, [b EXCEPT !.pc = "err"])
            /\ UNCHANGED slots
    /\ UNCHANGED <<status, class, slotVars, cache, lockVars, budget>>

Leave(t) ==
    /\ frames' = [frames EXCEPT ![t] = <<>>]
    /\ IF FreeThreaded THEN UNCHANGED gil ELSE gil' = NoThread
    /\ UNCHANGED <<sections, held>>

(* The requested type is converted: decode a message with it.  A struct is *)
(* waited for by TypeNode_get_struct_info, a member of a union is not.     *)
RequestReturn(t) ==
    /\ At(t, "node", "return")
    /\ Depth(t) = 1
    /\ IF Top(t).ok
       THEN /\ \E c \in DOMAIN Top(t).got :
                  Become(t, ReadFrame(IF IsUnion(Top(t).want) THEN "member" ELSE "get",
                                      Top(t).got[c], MaxDepth))
            /\ UNCHANGED lockVars
       ELSE Leave(t)
    /\ UNCHANGED <<infoVars, slotVars, cache, budget>>

-----------------------------------------------------------------------------
(* StructInfo_Convert and StructInfo_Convert_lock_held.                     *)

(* The lock-free fast path: two loads, and a NULL pointer is dereferenced.  *)
FastFlag(t) ==
    /\ At(t, "struct", "fast")
    /\ Goto(t, IF ready[Top(t).cls] THEN "load" ELSE "enter")
    /\ UNCHANGED <<infoVars, slotVars, cache, lockVars, budget>>

FastPointer(t) ==
    /\ At(t, "struct", "load")
    /\ LET p == ptr[Top(t).cls] IN
       Become(t, [Top(t) EXCEPT !.info = p, !.pc = IF p = NoInfo THEN "crash" ELSE "return"])
    /\ UNCHANGED <<infoVars, slotVars, cache, lockVars, budget>>

EnterClass(t) ==
    /\ At(t, "struct", "enter")
    /\ BeginSection(t, Top(t).cls)
    /\ Goto(t, "held")
    /\ UNCHANGED <<infoVars, slotVars, cache, budget>>

(* Fault: only the recursion of a running build is looked for.  *)
CheckHeldBuilding(t) ==
    /\ At(t, "struct", "held")
    /\ Running(t)
    /\ LET p == ptr[Top(t).cls] IN
       IF p # NoInfo /\ status[p] = "building"
       THEN Become(t, [Top(t) EXCEPT !.info = p, !.pc = "exit"])
       ELSE Goto(t, "annotate")
    /\ UNCHANGED <<infoVars, slotVars, cache, lockVars, budget>>

(* An info that is cached is returned, built or not. *)
CheckHeld(t) ==
    /\ At(t, "struct", "held")
    /\ Running(t)
    /\ LET p == ptr[Top(t).cls] IN
       Become(t, [Top(t) EXCEPT !.info = p,
                    !.pc = IF p # NoInfo THEN "exit"
                           ELSE IF ready[Top(t).cls] THEN "crash" ELSE "annotate"])
    /\ UNCHANGED <<infoVars, slotVars, cache, lockVars, budget>>

(* get_class_annotations is Python code: other threads may run meanwhile. *)
Annotate(t) ==
    /\ At(t, "struct", "annotate")
    /\ Running(t)
    /\ \/ Goto(t, "annotated") /\ UNCHANGED lockVars
       \/ Detaches /\ Goto(t, "switched") /\ Detach(t)
    /\ UNCHANGED <<infoVars, slotVars, cache, budget>>

HasAnnotations(t) == At(t, "struct", "annotated") \/ At(t, "struct", "switched")

(* It raises, for a forward reference that is not defined yet.  *)
AnnotationsFail(t) ==
    /\ HasAnnotations(t)
    /\ budget > 0
    /\ budget' = budget - 1
    /\ Goto(t, "err")
    /\ UNCHANGED <<infoVars, slotVars, cache, lockVars>>

(* struct_info is assigned whatever it holds by now. *)
Assign(c, i) ==
    /\ ptr' = [ptr EXCEPT ![c] = i]
    /\ overwritten' = IF ptr[c] = NoInfo THEN overwritten ELSE overwritten \cup {c}

Unused == {i \in InfoId : status[i] = "unused"}
Fresh  == CHOOSE i \in Unused : TRUE

(* Faults: the class-level flag is set as soon as the info is cached; the   *)
(* info does not record its class.                                          *)
CacheInfoPublishing(t) ==
    /\ HasAnnotations(t)
    /\ LET c == Top(t).cls IN
       /\ status' = [status EXCEPT ![Fresh] = "building"]
       /\ class' = [class EXCEPT ![Fresh] = c]
       /\ Assign(c, Fresh)
       /\ ready' = [ready EXCEPT ![c] = TRUE]
       /\ Become(t, [Top(t) EXCEPT !.info = Fresh, !.pc = "fields"])
    /\ UNCHANGED <<slots, cache, lockVars, budget>>

CacheInfoNoClass(t) ==
    /\ HasAnnotations(t)
    /\ status' = [status EXCEPT ![Fresh] = "building"]
    /\ Assign(Top(t).cls, Fresh)
    /\ Become(t, [Top(t) EXCEPT !.info = Fresh, !.pc = "fields"])
    /\ UNCHANGED <<class, slots, ready, cache, lockVars, budget>>

CacheInfo(t) ==
    /\ HasAnnotations(t)
    /\ IF Unused = {}
       THEN Goto(t, "err") /\ UNCHANGED <<infoVars, ptr, overwritten>>
       ELSE LET c == Top(t).cls IN
            /\ status' = [status EXCEPT ![Fresh] = "building"]
            /\ class' = [class EXCEPT ![Fresh] = c]
            /\ Assign(c, Fresh)
            /\ Become(t, [Top(t) EXCEPT !.info = Fresh, !.pc = "fields"])
            /\ UNCHANGED slots
    /\ UNCHANGED <<ready, cache, lockVars, budget>>

ConvertField(t) ==
    /\ At(t, "struct", "fields")
    /\ Pending(Top(t))
    /\ Call(t, NodeFrame(Fields[Top(t).cls][Len(slots[Top(t).info]) + 1]))
    /\ UNCHANGED <<infoVars, slotVars, cache, lockVars, budget>>

(* The field's own type is refused, or an interrupt or lack of memory. *)
FieldFails(t) ==
    /\ At(t, "struct", "fields")
    /\ Pending(Top(t))
    /\ budget > 0
    /\ budget' = budget - 1
    /\ Goto(t, "err")
    /\ UNCHANGED <<infoVars, slotVars, cache, lockVars>>

(* Fault: `initialized' is not stored. *)
BuildDoneUnmarked(t) ==
    /\ At(t, "struct", "fields")
    /\ ~Pending(Top(t))
    /\ Goto(t, "publish")
    /\ UNCHANGED <<infoVars, slotVars, cache, lockVars, budget>>

BuildDone(t) ==
    /\ At(t, "struct", "fields")
    /\ ~Pending(Top(t))
    /\ status' = [status EXCEPT ![Top(t).info] = "ready"]
    /\ Goto(t, "publish")
    /\ UNCHANGED <<class, slots, slotVars, cache, lockVars, budget>>

(* Fault: the cleanup of the error path runs on success too. *)
PublishDropped(t) ==
    /\ At(t, "struct", "publish")
    /\ ptr' = [ptr EXCEPT ![Top(t).cls] = NoInfo]
    /\ Goto(t, "exit")
    /\ UNCHANGED <<infoVars, ready, overwritten, cache, lockVars, budget>>

Publish(t) ==
    /\ At(t, "struct", "publish")
    /\ ready' = [ready EXCEPT ![Top(t).cls] = TRUE]
    /\ Goto(t, "exit")
    /\ UNCHANGED <<infoVars, ptr, overwritten, cache, lockVars, budget>>

(* The error path: drop the flag, mark the info failed, drop the pointer. *)
Unpublish(t) ==
    /\ At(t, "struct", "err")
    /\ ready' = [ready EXCEPT ![Top(t).cls] = FALSE]
    /\ Goto(t, IF Top(t).info = NoInfo THEN "exit" ELSE "mark")
    /\ UNCHANGED <<infoVars, ptr, overwritten, cache, lockVars, budget>>

(* Fault: the error path forgets those who wait for the info. *)
MarkFailedForgotten(t) ==
    /\ At(t, "struct", "mark")
    /\ Goto(t, "clear")
    /\ UNCHANGED <<infoVars, slotVars, cache, lockVars, budget>>

MarkFailed(t) ==
    /\ At(t, "struct", "mark")
    /\ status' = [status EXCEPT ![Top(t).info] = "failed"]
    /\ Goto(t, "clear")
    /\ UNCHANGED <<class, slots, slotVars, cache, lockVars, budget>>

(* Fault: the failed info stays cached. *)
ClearPointerKept(t) ==
    /\ At(t, "struct", "clear")
    /\ Become(t, [Top(t) EXCEPT !.info = NoInfo, !.pc = "exit"])
    /\ UNCHANGED <<infoVars, slotVars, cache, lockVars, budget>>

ClearPointer(t) ==
    /\ At(t, "struct", "clear")
    /\ ptr' = [ptr EXCEPT ![Top(t).cls] = NoInfo]
    /\ Become(t, [Top(t) EXCEPT !.info = NoInfo, !.pc = "exit"])
    /\ UNCHANGED <<infoVars, ready, overwritten, cache, lockVars, budget>>

LeaveClass(t) ==
    /\ At(t, "struct", "exit")
    /\ EndSection(t)
    /\ Goto(t, "return")
    /\ UNCHANGED <<infoVars, slotVars, cache, budget>>

(* Fault: a failed conversion is taken for an info. *)
StructReturnUnchecked(t) ==
    /\ At(t, "struct", "return")
    /\ Return(t, [Caller(t) EXCEPT !.got = [c \in DOMAIN @ \cup {Top(t).cls} |->
                      IF c = Top(t).cls THEN Top(t).info ELSE @[c]]])
    /\ UNCHANGED <<infoVars, slotVars, cache, lockVars, budget>>

(* The caller records the info under its class, or gives up. *)
StructReturn(t) ==
    /\ At(t, "struct", "return")
    /\ LET i == Top(t).info
           n == Caller(t)
       IN  Return(t, IF i = NoInfo THEN [n EXCEPT !.pc = "end", !.ok = FALSE]
                     ELSE [n EXCEPT !.got = [c \in DOMAIN @ \cup {Top(t).cls} |->
                                             IF c = Top(t).cls THEN i ELSE @[c]]])
    /\ UNCHANGED <<infoVars, slotVars, cache, lockVars, budget>>

-----------------------------------------------------------------------------
(* Decoding with an info: TypeNode_get_struct_info and the unions.          *)

(* Fault: an info that is being built is used without waiting. *)
GetInfoNoWait(t) ==
    /\ At(t, "read", "get")
    /\ IF status[Top(t).info] = "failed" THEN Leave(t)
       ELSE Goto(t, "use") /\ UNCHANGED lockVars
    /\ UNCHANGED <<infoVars, slotVars, cache, budget>>

GetInfo(t) ==
    /\ At(t, "read", "get")
    /\ LET s == status[Top(t).info] IN
       \/ s = "ready" /\ Goto(t, "use") /\ UNCHANGED lockVars
       \/ s = "failed" /\ Leave(t)
       \/ s = "building" /\ Goto(t, "spin") /\ Detach(t)
    /\ UNCHANGED <<infoVars, slotVars, cache, budget>>

SpinEnds(t) ==
    /\ At(t, "read", "spin")
    /\ status[Top(t).info] # "building"
    /\ Goto(t, "get")
    /\ UNCHANGED <<infoVars, slotVars, cache, lockVars, budget>>

(* A member of a union is used without waiting for it. *)
Reading(t) == At(t, "read", "use") \/ At(t, "read", "member")

(* Decode field k.  A node that is not there yet is a NULL pointer. *)
DecodeField(t, k) ==
    /\ Reading(t)
    /\ LET r == Top(t)
           i == r.info
       IN  /\ k \in 1..Len(Fields[class[i]])
           /\ IF k > Len(slots[i]) THEN Goto(t, "crash")
              ELSE /\ r.depth > 0
                   /\ \E c \in DOMAIN slots[i][k] :
                        Become(t, ReadFrame(IF IsUnion(DOMAIN slots[i][k]) THEN "member" ELSE "get",
                                            slots[i][k][c], r.depth - 1))
    /\ UNCHANGED <<infoVars, slotVars, cache, lockVars, budget>>

DecodeDone(t) ==
    /\ Reading(t)
    /\ Leave(t)
    /\ UNCHANGED <<infoVars, slotVars, cache, budget>>

-----------------------------------------------------------------------------
Init ==
    /\ status = [i \in InfoId |-> "unused"]
    /\ class = [i \in InfoId |-> CHOOSE c \in Class : TRUE]
    /\ slots = [i \in InfoId |-> <<>>]
    /\ ptr = [c \in Class |-> NoInfo]
    /\ ready = [c \in Class |-> FALSE]
    /\ overwritten = {}
    /\ cache = <<>>
    /\ frames = [t \in Thread |-> <<>>]
    /\ sections = [t \in Thread |-> <<>>]
    /\ held = [l \in Lock |-> NoThread]
    /\ gil = NoThread
    /\ budget = MaxFailures


Step(t) ==
    /\ Running(t)
    /\ \/ NodeBegin(t) \/ NodeCollect(t) \/ (\E c \in Class : NodeMember(t, c))
       \/ NodeBuilt(t) \/ NodeEnd(t) \/ NodeReturn(t) \/ RequestReturn(t)
       \/ FastFlag(t) \/ FastPointer(t) \/ EnterClass(t) \/ CheckHeld(t)
       \/ Annotate(t) \/ AnnotationsFail(t) \/ CacheInfo(t)
       \/ ConvertField(t) \/ FieldFails(t) \/ BuildDone(t) \/ Publish(t)
       \/ Unpublish(t) \/ MarkFailed(t) \/ ClearPointer(t)
       \/ LeaveClass(t) \/ StructReturn(t)
       \/ GetInfo(t) \/ (\E k \in FieldIndex : DecodeField(t, k)) \/ DecodeDone(t)

Next ==
    \E t \in Thread :
        \/ \E S \in Requests : Request(t, S)
        \/ Step(t)
        \/ Attach(t)
        \/ SpinEnds(t)

(* The scheduler runs every thread that can run.  Attaching is fair even    *)
(* against competitors: the GIL is handed to a waiter on request, and a     *)
(* PyMutex waiter is handed the lock after a while.                         *)
Fairness ==
    \A t \in Thread : WF_vars(Step(t)) /\ SF_vars(Attach(t)) /\ WF_vars(SpinEnds(t))

Spec == Init /\ [][Next]_vars
FairSpec == Spec /\ Fairness

-----------------------------------------------------------------------------
(* Properties.                                                              *)

(* Every variable has its type, and every lock its holder's section.        *)
TypeOK ==
    /\ status \in [InfoId -> {"unused", "building", "ready", "failed"}]
    /\ class \in [InfoId -> Class]
    /\ slots \in [InfoId -> Seq(Nodes)]
    /\ ptr \in [Class -> InfoId \cup {NoInfo}]
    /\ ready \in [Class -> BOOLEAN]
    /\ overwritten \subseteq Class
    /\ cache \in Seq(Nodes)
    /\ frames \in [Thread -> Seq(Frame)]
    /\ sections \in [Thread -> Seq(Lock)]
    /\ held \in [Lock -> Thread \cup {NoThread}]
    /\ gil \in Thread \cup {NoThread}
    /\ budget \in 0..MaxFailures

(* The call f is building the info i.                                       *)
IsBuild(f, i) ==
    f.kind = "struct" /\ f.info = i /\ f.pc \in {"fields", "err", "mark"}

(* An info whose flag says BUILDING is being built by a call that is still  *)
(* on some thread's stack: nobody can spin on a build that has died         *)
(* (TypeNode_get_struct_info's loop, tests/test_threading.py).              *)
EveryBuildHasABuilder ==
    \A i \in InfoId : status[i] = "building" =>
        \E t \in Thread : \E k \in 1..Depth(t) : IsBuild(frames[t][k], i)

(* A flag `initialized` is decided once: READY and FAILED are final, and    *)
(* the nodes of an info that left BUILDING never change again.              *)
InfosSettleOnce ==
    [][\A i \in InfoId :
        /\ status'[i] # status[i] =>
              \/ status[i] = "unused" /\ status'[i] = "building"
              \/ status[i] = "building" /\ status'[i] \in {"ready", "failed"}
        /\ status[i] \in {"ready", "failed"} =>
              slots'[i] = slots[i] /\ class'[i] = class[i]]_vars

Built(c) ==
    /\ ptr[c] # NoInfo
    /\ status[ptr[c]] = "ready"
    /\ class[ptr[c]] = c
    /\ Filled(ptr[c])

(* struct_info_ready says that struct_info is a finished info of the class, *)
(* which the lock-free fast path of StructInfo_Convert dereferences.        *)
ReadyMeansBuilt == \A c \in Class : ready[c] => Built(c)

(* It does for every class whose struct_info no build has replaced: what    *)
(* else happens, failures and suspended sections included, is harmless.     *)
ReadyUnlessOverwritten == \A c \in Class \ overwritten : ready[c] => Built(c)

(* A build replaces the info of its class only if get_class_annotations     *)
(* gave up the GIL or the class's section since the build looked there.     *)
OnlySwitchesOverwrite ==
    [][\A c \in overwritten' \ overwritten :
        \E t \in Thread : At(t, "struct", "switched") /\ Top(t).cls = c]_vars

(* No thread dereferences a NULL struct_info or a NULL TypeNode, as the     *)
(* decoder does that meets a field its info has not got yet.                *)
NoNullDereference ==
    \A t \in Thread : Depth(t) > 0 => Top(t).pc # "crash"

(* A NULL struct_info is met only for a class whose info was replaced, a    *)
(* NULL TypeNode only by a reader that did not wait, through a tag lookup.  *)
NullsHaveACause ==
    \A t \in Thread :
        /\ At(t, "struct", "crash") => Top(t).cls \in overwritten
        /\ At(t, "read", "use") => Filled(Top(t).info)

(* A class under whose name a build failed starts over: outside the error   *)
(* path itself, no class points at a failed info.                           *)
FailedInfosAreDropped ==
    \A c \in Class :
        ptr[c] # NoInfo /\ status[ptr[c]] = "failed" =>
            \E t \in Thread : \E k \in 1..Depth(t) :
                /\ frames[t][k].kind = "struct"
                /\ frames[t][k].cls = c
                /\ frames[t][k].pc = "clear"

(* Every node of an info, and every tag lookup in the module-wide cache,    *)
(* maps exactly the classes of the annotation to infos of those classes.    *)
NodesMatchAnnotations ==
    /\ \A i \in InfoId : \A k \in 1..Len(slots[i]) :
          /\ DOMAIN slots[i][k] = Fields[class[i]][k]
          /\ \A c \in DOMAIN slots[i][k] : class[slots[i][k][c]] = c
    /\ \A k \in 1..Len(cache) : \A c \in DOMAIN cache[k] : class[cache[k][c]] = c

(* A cached tag lookup that no longer leads to the infos of the classes     *)
(* leads to one whose build failed, unless two builds of the class met: an  *)
(* info is never lost from its class's pointer in any other way.            *)
StaleLookupsHaveFailed ==
    \A k \in 1..Len(cache) : \A c \in DOMAIN cache[k] :
        cache[k][c] # ptr[c] => status[cache[k][c]] = "failed" \/ c \in overwritten

(* Every request ends, with a result or an error, whatever other threads    *)
(* build or fail to build, unless a NULL ends the process.                  *)
RequestsFinish ==
    \A t \in Thread : frames[t] # <<>> ~> (frames[t] = <<>> \/ ~NoNullDereference)

(* The class pointers implement cells that serve one finished info for      *)
(* ever, until a build is begun over another; the flag may be lowered.      *)
Served(c) == c \notin overwritten /\ ptr[c] # NoInfo /\ status[ptr[c]] = "ready"
Cell == INSTANCE InfoCell WITH
    state <- status, of <- class, void <- overwritten,
    cell <- [c \in Class |-> IF Served(c) THEN ptr[c] ELSE NoInfo]
ServesOneInfoForever == Cell!Spec
=============================================================================
