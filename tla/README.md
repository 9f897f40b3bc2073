# structtype: a verification project

TLA+ models of [structtype](https://github.com/tds333/structtype), a C extension
for Python (`src/src/structtype/_core.c`) with a thin Python layer that gives
classes typed fields, validates objects, and reads and writes JSON. The models
are checked with TLC on small instances; the theorems about them are proved with
TLAPS for every value of the constants.

Paths such as `_core.c:9538` are lines of `src/src/structtype/_core.c`.

## The system

| component | state it keeps | operations | interacts with |
|---|---|---|---|
| Lazily built type information (`StructInfo_Convert`, `TypeNode_Convert`, 6418-6603, 9450-9616) | per class `struct_info`, `struct_info_ready`; per info `initialized` and one TypeNode per field; module-wide `struct_lookup_cache` | build on first use, publish, fail and drop, wait, evict | class creation (fields), Python (`get_class_annotations`), every reader |
| TypeNode collection and layout (4385-6416, 6606-7172) | a type mask and packed detail slots; while collecting, a `TypeNodeCollectState` | collect a type and its constraints, check, lay out, find a detail again, traverse, free | type information, decoders, validators |
| Lookup tables (1027-1610) | open-addressing tables from ints and strings to objects; per class a lazily filled hash-to-index cache | build, look up, free | enums, literals, tagged unions |
| StructMeta (7659-9376) | a class under construction: fields, offsets, defaults, tag, flags | collect bases and annotations, order fields, resolve defaults, tags and options | type information, instances |
| Struct instances (9956-11550) | the slots of an object, its GC tracking, its cached hash | construct, copy, replace, compare, hash, `__post_init__`, pickle | StructMeta, decoders |
| Constraint and metadata types (1741-4197) | immutable `Field`, `Factory`, `Serializer` and constraint objects | construct, merge, compare | collection |
| AssocList and key order (4198-4380) | a sorted list of key/value pairs | insert, sort | encoders |
| Numbers and constraints (12373-12970, 14123-14834) | a parser's accumulator | parse, narrow, check bounds | decoders, validators |
| Dates, durations, UUID, base64 (12971-14122) | none | parse, format | decoders, encoders |
| JSON encoder and dump (11680-11950, 14836-16047, 18734-19540) | an output buffer; the recursion depth | encode each kind of object, omit defaults, tag | instances, AssocList |
| JSON decoder (16048-18730) | an input cursor, a scratch buffer, the path | decode and check each kind of value, skip unknown ones | type information, lookups, instances |
| Validation of Python objects (19699-21440) | the path, the recursion depth | convert and check each kind of object | the same |
| check_types and CSV (19583-19697, 21689-22100) | none; a row cursor | check a built instance; decode rows | type information |
| Module state and setup (636-752, 22126-22748) | interned names, imported types, the gap-free state of the module | init, traverse, clear | all |
| TypeAdapter and configuration (`_adapter.py`, `_config.py`) | a wrapper class made for a type | validate, dump, schema | core |
| Inspection, schema, annotations (`_inspect.py`, `_json_schema.py`, `_utils.py`) | a translator's cache and names of definitions | translate types, collect definitions, resolve annotations | core |
| Vendored number conversion (`ryu.h`, `atof.h`, `itoa.h`) | none | format and parse numbers | encoder, decoder |

**What is hard here.** One thing in this code is concurrent: the type
information is built lazily by whichever threads come first, on classes that
name each other, on CPython with the GIL (critical sections are no-ops; threads
switch wherever Python code runs) and without it (a critical section is
suspended whenever its thread blocks). The info is visible before it is
finished, a failed build must disappear again, and readers decide without locks
whether to use, wait or give up. The rest is sequential code whose difficulty
is in data: a TypeNode is a bit mask plus details whose places are computed from
the mask; a class merges what its bases and its own body say; decoders assemble
an object in slots that may stay unset until the end, with an error possible
after each of them. Nothing is persisted and there is no network, so there is no
crash recovery and no lost message; the failures are refused types, exceptions
in Python code the core calls, interrupts and lack of memory.

What makes each component correct: the type information is published when it is
finished and only then, served for ever, and no reader is left waiting; the
layout finds for every bit of the mask the detail stored for it, and the result
does not depend on the order of a union's members; tables find exactly what was
put in; a class's required fields precede its defaults, and its positions agree
with its offsets; a decoder leaves no field unset in an object it returns, and
what an encoder writes is what the decoder reads back.

## Modules

| module | what it models |
|---|---|
| `InfoCell` | abstract specification: a class's cell that is empty or serves one finished info, for ever, unless a build is begun over another |
| `InfoCache` | the lazily built type information |
| `MCInfoCache` | classes, fields and requests for TLC |
| `InfoCacheProofs` | theorems about `InfoCache`: types, builders, final infos; infos, calls and lookups are of the right class; failures are dropped |
| `InfoCacheCellProofs` | on top of it: the refinement of `InfoCell`, what overwrites an info, where NULL is met, and how cached lookups go stale |
| `TypeNode` | how a union becomes a mask and packed details, and how readers find them |
| `MCTypeNode` | 30 members of unions for TLC |
| `TypeNodeProofs` | theorems about `TypeNode`: types, the allocation, where details are found |
| `TypeNodeContentProofs` | on top of it: what a node holds: Any, references, compiled bounds; which unions are accepted |
| `LookupTable` | the tables from integers, strings and field names |
| `MCLookupTable` | mappings and hash values for TLC |
| `LookupTableProofs` | theorems about `LookupTable` |
| `StructInstance` | the instances of a class: the calls that make, change, copy and hash them |
| `MCStructInstance` | four classes for TLC |
| `StructInstanceProofs` | theorems about `StructInstance`: types, the collector |
| `StructInstanceFieldsProofs` | on top of it: the values of fields, and hashes |
| `StructMeta` | class statements: bases, annotations and options merged into a class |
| `MCStructMeta` | three class statements for TLC |
| `StructMetaProofs` | theorems about `StructMeta`, one for each of its properties |
| `Documents` | values, documents, types and classes, for the four modules that follow |
| `JsonDecoder` | `json_decode` as a machine with a stack of calls |
| `Validate` | `validate_obj` |
| `Encoder` | `json_encode` and `dump_obj`, codecs, sorted keys |
| `LoadAndDump` | the three composed: reading a document, writing a value and reading it again |
| `MCLoadAndDump` | classes, callbacks, documents and values for TLC |

`LoadAndDump` composes the decoder, the validator and both encoders over
`Documents`. The other specifications do not share variables: a table is built while a
TypeNode is laid out, and a TypeNode while an info is built, and each is complete
before the next one up goes on; instances are made of a finished class.
`StructMeta` makes the classes that `StructInstance` takes as constants: its
invariant `FitsInstances` is what `ConstantsOK` of `StructInstance` assumes.
`InfoCache` sees a TypeNode as the set of classes a type names, `TypeNode` sees a
table as one object that is stored or fails to be made (`StoreFails`,
`StructFails`), and `StructInstance` sees decoding a field as one step that yields
a value or fails.

### InfoCache

A thread is a stack of C calls, because the code is recursive and every call
keeps what it read before the calls it makes. There are three kinds of frame:

* `node`: `TypeNode_Convert` with `typenode_collect_validate_structs` inside it
  (the critical section of the lookup cache, the cached lookup of a tagged
  union, one `StructInfo_Convert` per member, the insertion with eviction);
* `struct`: `StructInfo_Convert`: the fast path with its two loads as two steps
  (`FastFlag`, `FastPointer`), the critical section of the class
  (`EnterClass` .. `LeaveClass`), the check under it (`CheckHeld`), the Python
  call for annotations (`Annotate`, `AnnotationsFail`), the early caching of the
  unfinished info (`CacheInfo`), one nested conversion per field
  (`ConvertField`, `NodeReturn`), and the two ways out: `BuildDone`, `Publish`
  or `Unpublish`, `MarkFailed`, `ClearPointer`, one step for each store that
  another thread can see;
* `read`: a decoder that holds an info: `TypeNode_get_struct_info` with its
  wait loop (`GetInfo`, `SpinEnds`) and the walk over fields and nested infos
  (`DecodeField`). Members of a union are used without that wait, as in the
  code (17587): they are decoded at `member`, infos that were waited for at `use`.

Variables and the code: `status[i]` is `initialized` of info `i`, `slots[i]` the
types converted so far, `ptr[c]` is `struct_info`, `ready[c]` is
`struct_info_ready`, `cache` is `struct_lookup_cache` in insertion order.
`overwritten` is a history variable: the classes whose `struct_info` a build has
assigned when it was not NULL. A type
is abstracted to the set of Struct classes it names: none, one, or a tagged
union.

`sections`, `held` and `gil` model CPython (external, from how the code uses
it). With `FreeThreaded`, `BeginSection` of a lock that is taken, by the thread
itself too, suspends all sections of the thread, and `Running` asks for the
innermost one back; `Detach` does the same where the code or Python code gives
up the thread state. Without it, sections do nothing and only the holder of the
GIL runs. `Detaches` says whether `get_class_annotations` may switch, which Python
code always may: `TRUE` is what CPython can do, and a call that has switched is at
`switched`. The runs that are about something else set it to `FALSE`; no theorem
assumes it.

The action names with *Fault* in a comment above them are alternatives that no
specification uses: plausible bugs that the properties are tested against.

### TypeNode

One behaviour converts unions one after the other: `Collect` takes a member (a
record of its type, its object, its Serializer and its constraint) and runs
`typenode_collect_type` and `typenode_collect_constraints` on the state of the
C stack, in the order the members are written; `ValidateStructs` and
`ValidateLiterals` are the second passes, `Check` the invariants and the size of
the allocation, `Store` one detail of `typenode_from_collect_state` in the order
of the code, `StoreFails` and `StructFails` the errors of nested conversions, and
`Clear` the end. `st` is the `TypeNodeCollectState` (its mask, one object per
kind of detail, Struct classes, literals, compiled constraints) and `node` the
TypeNode (its mask, the details stored so far, and `room`, the number that was
allocated). `ConstantsOK` says what members there may be: a type of those the code
collects, the object that comes with it, and a constraint with parameters of its
class (`ParamsOf`), not both `gt` and `ge` or `lt` and `le`, which the constructor of
the constraint refuses (2817). `LiteralsOK` is that `None` and Booleans are no integers;
`Literal[None]` counts as `None`, next to a custom type too (`IsNone`).

The readers are operators: `Offset` is the getters' population counts, one arm
per mask of the code, `CnOffset` those of a ConstraintNode, `TraverseRanges` and
`Visited` what `TypeNode_traverse` and `TypeNode_Free` go over. `Fault` in a
comment marks alternatives that no specification uses.

Abstracted: generics, NewType, type aliases and nested `Annotated` are seen as
the type they end in; an object is a name; int64 is a range with its two ends
(`MaxInt`); the bounds of floats and strings are any numbers. `frozendict` needs
CPython 3.15 and is left out.

### LookupTable

`kind` tells the dense array of integers, the hashed table of integers, the one
of strings and the index of a class's field names apart. `Grow` is one doubling
of the size, `SetCompact`, `SetHashed`/`Store` the storing of one item, `Probe`
one step of a loop, which keeps its place in `call`, `Answer` its end; the
getters of 64-bit, unsigned and Python integers, of strings and of field names
(with `pos`, the field expected next) are an action each. An enum's `_missing_`
may answer what the table does not know (`Missing`). Strings are model values
with a hash; integers keep their width (`Word`), and wrap where the code's
unsigned arithmetic does.

### StructInstance

The actors are calls in progress at once: in several threads, or one started by
Python code that another one runs (a factory, a hook, `__post_init__`, the
destructor of a replaced value). An action is what happens between two places
where Python code may run. `heap` has the instances (`fields`, `tracked` by the
collector, the cached `hash`, and `life`: being made, shown to `__post_init__`,
in use), `call` one frame per actor, `tupleTracked` the tuples the collector still
tracks. In a frame `should_untrack`, `i` and `names` are the variables of the C
functions; `given`, `wrong` and `ways` remember what the caller passed, for the
properties, as do `answers` and `exposed`.

| actions | code |
|---|---|
| `Construct`, `Keyword`, `KeywordsEnd`, `FillMissing` | `Struct_vectorcall`, `get_default` |
| `DecodeMap`, `MapItem`, `MapUnknown`, `MapEnd`, `FillInDefaults` | `json_decode_struct_map_inner`, `validate_dict_to_struct`, `Struct_fill_in_defaults` |
| `ArrayBegins`, `ArrayItem`, `ArrayEnd`, `SeqEnd`, `ArrayDefault` | `json_decode_struct_array_inner`, `validate_seq_to_struct_array_inner` |
| `FromAttributes`, `Attribute` | `validate_object_to_struct` |
| `Replace`, `Copy`, `Rebuild` | `Struct_replace`, `Struct_copy`, `Struct_reduce` and what unpickling then calls |
| `Filled`, `Decide`, `CheckTypes`, `PostInit`, `Return`, `Fails`, `Drop` | the ends of all of them |
| `SetAttr`, `Track`, `DelAttr` | `Struct_setattro_default`, `Struct_setattro_frozen` |
| `Hash`, `HashField`, `HashEnds` | `Struct_hash`, `Struct_hash_fields` |
| `ObjectSetAttr`, `UntrackTuple` | external: `object.__setattr__`, CPython's collector |

`Filled` goes where each call goes next, which is where they differ: the
constructor and `Struct_fill_in_defaults` untrack (`Decide`) before
`__post_init__`, the others after it. An assignment is two steps, because storing
the new value may destroy the old one, whose destructor runs before the instance
is tracked.

Abstracted: a failed allocation is the absence of a free `Object`; a call that is
refused before it allocates changes nothing and is left out; so are tags in
documents, which are checked like a value, and the refusal to instantiate an
abstract class. A hash stands for the values it is computed from. References are
not counted.

### StructMeta

`Menu` says which class statements there are: per statement the tuples of bases,
the configurations and the annotated names with their options. `info` is the
`StructMetaInfo` under construction, `classes` what was made. The actions are the
passes of `StructMeta_new_inner` in their order: `Begin`, `CollectBase` (one base,
the last first, `structmeta_collect_base`) or `CollectMixin`, `ApplySpec` (the
configuration given), `CollectField` (one annotated name, with what
`structmeta_process_rename` and `_default` do), `ConstructFields` (the order of
fields, `kw_only`, defaults, the errors), `CollectCodecs`, `ConstructAliasFields`,
`Finish` (tag, offsets, `type.__new__`) and `Refuse`. What CPython does with bases
and slots is modelled from how the code uses it and marked external. Of options,
those that have effects on one another are kept. A `rename` is a function on the
names it can rename (`kebab` and mappings do not take every name); `TagsOK` is
that a tag derived from the name of a class is not the absence of one.

### LoadAndDump

*Documents.* A document is a sequence of tokens; a string token says whether the
input has the text as it stands or with escapes, because the decoder then keeps a
view into the input or into a scratch buffer that the next such string
overwrites. A type is the set of scalars it accepts, what arrays and objects
become, and the `load` of its Serializer: `NoLoad` for one that only has a `dump`, whose
values take the same detour over Any (18290). One type of scalar, `date`, stands for
those that are strings in JSON. Callbacks (`load`, `dump`, `__post_init__`) are a
constant operator, `Calls`, and may fail.

*JsonDecoder.* `stack` has a frame for each C call (`json_decode`, an array, an
object, `json_skip`) with its locals, `ret` is what the last call returned, `pos`
is `input_pos`, `scratch` the buffer. The loops of the twelve functions for arrays
and objects differ in what they do with an item or a member and at the end; the
loop is an action per place where it reads (`ArrayNext`, `ArrayItem`, `ArrayTake`,
`ObjectNext`, `ObjectKey`, `ObjectColon`, `ObjectTag`, `ObjectTake`), the
differences are operators named for the functions (`ListEnd`, `SetEnd`,
`FixTupleItem`, `StructMember`, `UnionMember` ..). A view of a key is looked at
again when its colon has been read, as in the code. A tagged union skips members
until it finds the tag (`Seeking`) and then goes back to the first (`Found`).

*Validate* and *Encoder* are operators: nothing interleaves but callbacks, which
see none of the state. The encoder's state, with the codecs in force, is threaded
through as the C functions update and restore it. `AssocListSort` is the
quicksort of the code, partition by partition, down to `CUTOFF`, and the insertion
sort that follows.

Abstracted: the syntax of numbers, escapes and dates, base64, paths and messages,
white space, the bound on recursion, `memcmp` against UTF-8 (`Bytes` gives it).
`IsOmitted` compares values where `is_default` compares identities, so an equal
object that is not the default itself is written by the code and omitted by the
model; either way it is read back as equal.

## Runs

| run | instance | what it shows |
|---|---|---|
| `sections` | free-threaded, 2 threads, classes A and B naming each other, 3 infos, 1 failure | type invariant; a raised flag means a finished info of the class; no reader meets NULL; failed infos are dropped; the cache implements `InfoCell`; every request ends |
| `switches` | GIL, 2 threads, A and B naming each other through a tagged union, 4 infos, 1 failure, annotations may switch | every BUILDING info has its builder, infos settle once, requests end, though builds of a class overlap; only a switch inside annotations lets a build overwrite an info; for a class that was not overwritten, a raised flag means a finished info; nodes and lookups match annotations; a lookup goes stale only through a failed build; NULL is met only through a lookup, by a reader that did not wait, or through an overwritten class |
| `double_build` | GIL, 2 threads, one class with a scalar field, annotations may switch | **violated**: `ReadyMeansBuilt` |
| `stale_union` | 1 thread, 1 failure, a class that names its own union | **violated**: `NoNullDereference` |
| `unions_of_types` | unions of up to 3 of 30 members, in every order, with failures | readers find their details; the allocation is filled exactly; what a node holds is released; unions are accepted as documented, in any order; bounds are exact |
| `serializer_on_native` | unions with a Serializer | **violated**: `SerializersAvoidNativeTypes` |
| `lookup_tables` | mappings of up to 4 of 8 integers, 4 of 5 strings, 3 of 4 field names | answers are exact; a slot stays free; every probe ends |
| `instances` | 2 calls at once, 2 instances of one of 4 classes | type invariant; the collector sees what it must, unless `__post_init__` interferes; fields are what was passed or the default, and calls refuse exactly what they should; hashes agree |
| `post_init_assigns` | 1 instance of a class whose `__post_init__` assigns to it | **violated**: `CollectorSeesAll` |
| `classes` | three class statements with bases among the earlier ones and mixins | type invariant; classes fit what makes instances; slots agree with CPython's layout; fields, defaults, codecs and positions come from where they should; configuration is inherited; keys are unique |
| `primary_base` | a base with a codec, two classes below it and one below both | **violated**: `PrimaryBaseWins` |
| `documents` | 7592 requests: documents read, values written and read again | the decoder accepts what `json.loads` and validation accept, with the same result; it always ends; both encoders agree; values survive the round trip; sorted output does not depend on insertion |

Bounds of `InfoCache`. Two threads and two mutually recursive classes are the smallest instance
in which a class is found half-built both by its own thread and by another, and
in which two critical sections are taken in opposite orders. `MaxInfos = 3`
allows a failed build and its retry next to the other class; when infos are used
up the build fails as it does without memory (9524-9530), which is a real path,
so the bound removes no step. `MaxFailures` bounds failures that come from
outside (refused types, undefined names, interrupts). `MaxDepth` bounds how deep
a decoded message nests: one level reaches an info through another. The capacity
of the lookup cache is a constant (64 in the code). In `switches` both
threads can be in the annotations of one class, one build can fail and a third begin,
and the fourth info leaves room for the other class. `double_build` is the smallest
instance of what it shows: it needs no failure. `sections` checks deadlock; in `switches`
a thread may crash on NULL and the process has ended, so there deadlock is not an error,
and `RequestsFinish` is about behaviours without a crash.

Bounds of `TypeNode`. A union of three is the smallest in which a third member can
meet what two others left (a set of Struct classes that already has two, an
Any after and before). The members have each kind of detail at least once and, of
the kinds that collide, two. The counting getters only depend on which bits are
set before the one they look for, so pairs of neighbours are what can go wrong;
all of them occur. `MaxInt` is 7 and parameters lie at and beyond it.

Bounds of `LookupTable`. Four keys need a table of eight, three fill three
quarters of a table of four, the fullest there is; keys at both ends of the
integers, around 0 (the key of empty slots) and equal modulo the size make every
kind of collision. Hash values agree in their low bits and wrap at the end of
the table; three of them differ only above the fifth bit, so that `perturb`
decides.

Bounds of `StructInstance`. Two instances are a source and its copy; two calls are
one that makes an instance and one that uses it meanwhile, or two that hash the
same one. Instances made from scratch do not meet, so `MaxFresh` allows one and
the other is made from it. `MaxItems = 3` lets a document repeat a key and an array
have too few items or all of them. The values are one scalar, one list and one
tuple. The classes (`MCStructInstance`): `KwOnly` has required
keyword-only fields and forbids unknown keys; `Mixed` has a required field between
two defaults, a factory, renamed fields and a cached hash; `Hooked` has one
mutable field, checked types and `__post_init__`; `Frozen` is the same frozen, with
a cached hash. There is no liveness to state: every loop is bounded by the number
of fields or of items.

Bounds of `StructMeta`. Three statements are a base, another one and a class of
both; a mixin stands for bases that are not Structs. Each statement has a small menu
of configurations and of annotated names, chosen so that names meet in two bases
and the body with and without default, `kw_only`, alias and codec. `primary_base`
takes four statements without choice (`MCDiamond`).

Bounds of `LoadAndDump`. Documents are all sequences of up to three members or
items out of six or seven kinds (with and without escapes, wrong types, unknown
members with nested values, tags), for classes of each kind, unions, dicts with
four types of keys, and eight types of arrays: a tag is first, in the middle, last,
repeated or missing, and every order of a key and its duplicate occurs. Four larger
documents are damaged in every place: a token dropped, replaced, added, or the
end missing. Values are of every type with each combination of codecs that
convert (`iso`), keep the type (`shift`) and fail, nested so that a field with
codecs holds a Struct with its own; all 120 orders of five keys are sorted, with
`CUTOFF = 2` (16 in the code) so that the partition and the insertion sort both
have work. Outside the checked values are the cases under "Seen while modelling"
where reading differs from writing by design or by mistake. Types are `Any` where a
value is only written.

Fairness. The decoder is one thread that goes on (weak fairness of `Next`). In
`LookupTable` a running loop goes on (weak fairness of `Loop`): it is plain C
code. In `InfoCache`, `Step` is weakly fair per thread: a C function that can run does. A
spinning reader has given up its thread state and re-reads the flag in a busy loop
(4778-4781), so `SpinEnds` is weakly fair and needs no lock. Taking the GIL or a
section back is strongly fair: CPython's GIL forces the holder to hand over to a waiter after the switch interval, and a
PyMutex hands itself to a waiter that has starved for 1 ms. Nothing is assumed of
requests (threads may stop asking) and a failure is never forced.

Every step of a thread is one visible store or load, or a call; runs of local
computation are folded into the step that follows them. Loads and stores are
taken as sequentially consistent; the flags are read with acquire and written
with release in the code (`FT_ATOMIC_*`), and under the GIL no more is needed.

## Proofs

`InfoCacheProofs` proves, for any threads, classes, fields, builds of CPython and
bounds that satisfy `ConstantsOK`:

* `TypeCorrect`: `Spec => []TypeOK`;
* `NoOrphanBuilds`: `Spec => []EveryBuildHasABuilder`;
* `SettledForever`: `Spec => InfosSettleOnce`.

None of the three is inductive alone. The invariant is
`IInv == DataOK /\ LocksOK /\ FramesOK /\ Ownership`. `FramesOK` says what a
stack looks like: calls alternate between node and struct frames, a reader
stands alone, a frame under another stands where it called. `Ownership` says
that an info that is building is built by exactly one call, at one place of one
stack, which knows it, and that a call in the building part of
`StructInfo_Convert` holds an info whose flag is BUILDING. Uniqueness is what
makes a settled info final: the store at the end of a build can only hit the
info of that build, and a second build of the class, which really can overlap,
has allocated another info. Note that no mutual exclusion is used: critical
sections give none once they can be suspended, and the theorems hold
nevertheless.

The proof of `InfoCacheProofs` goes by one lemma per group of actions (`NodeSteps`, `StructSteps`,
`ReadSteps`, `BuildSteps`), which rest on lemmas about what replacing, pushing
and popping a frame do to a stack.

Under the same assumptions it proves:

* `NodesAreRight`: `Spec => []NodesMatchAnnotations`;
* `FailuresAreDropped`: `Spec => []FailedInfosAreDropped`.

The invariant `Match` says of everything that refers to infos (calls, the nodes of
infos, the pointers of classes, cached lookups) that it leads from each class to
an info of that class. An info that is building counts: that a peer captures one
is the purpose of the early caching. `InfosOf` only grows, so one step can disturb
this only for the call it moves, the info it writes, the pointer or the cache.
`Link` says that a call that returns is the one its caller asked for.
`FailedAreCleared`: if a class points to a failed info, the call at the end of
its error path is about to clear it. `NoNullDereference` does not follow, since a
union's members are used without waiting.

`InfoCacheCellProofs` proves, under no other assumption:

* `ReadyIsBuilt`: `Spec => []ReadyUnlessOverwritten`;
* `OverwritesNeedASwitch`: `Spec => OnlySwitchesOverwrite`;
* `ImplementsCell`: `Spec => ServesOneInfoForever`, the refinement of `InfoCell`;
* `NothingIsNull`: `Spec => []NullsHaveACause`;
* `LookupsStayCurrent`: `Spec => []StaleLookupsHaveFailed`.

So annotations may switch threads, types may name unions, anything may fail, and what
goes wrong goes wrong in the ways the findings below show and in no other. The plain
forms `ReadyMeansBuilt` and `NoNullDereference` are false, as the runs `double_build` and
`stale_union` show.

These need exclusion, and critical sections give none once they are suspended. The
invariant `Serving` says how much is left. `SectionsMatch`: the sections a thread has
begun are those of its calls, so a thread with the class's section on its stack and
not suspended owns the class (`Owns`: the lock of the class, or the GIL). `Prepared`: a
call that has looked at `struct_info` and not switched since owns its class and would
still find nothing there; this is what a switch destroys. `PointersServe`: a class that
was not overwritten points to the one info begun for it that has not failed, and under
a raised flag that info is ready; a build after that finds it and stops, one before
has failed. `Claims` relates each stage of a call to the infos: a build whose class
was not overwritten has its info in the pointer, a reader at `use` has one that is
ready. `OneClears`: one call alone drops a failed info, so none drops the pointer of
the next build. No step takes a class from the thread that owns it (`OthersOwn`), and
a step writes the pointer of a class it owns, drops a failed info, or has the class
overwritten (`Writes`, `Drops`); each lemma of the induction is about such a kind of
step.

`TypeNodeProofs` proves, for all sets of members, lengths of unions and ranges of
int64 that satisfy `ConstantsOK`:

* `TypeCorrect`: `Spec => []TypeOK`;
* `AllocationFilled`: `Spec => []FillsAllocation`;
* `DetailsAreFound`: `Spec => []DetailsFound`, where no float is bounded by `gt` in
  one member and by `ge` in another, nor by `lt` and `le` (`FloatsAgree`).

The mask has two roles: it says how much to allocate, and the readers count its
bits to find a detail. The invariant ties both to what was collected. `Held`: an
object is kept for a slot exactly if a bit of the slot's types is set.
`Distinct`: what the checks leave has at most one type for every detail that
two types would share. `Laid` and `Placed`: the details of the slots stored so far
begin where `Place` says, which counts objects, and end at `room` when all of them
are stored. `OffsetIsPlace` then has one case per mask of the getters: the
number of bits a reader counts is the number of details stored before.
`FloatsAgree` is the case in which the code miscounts (5069, see below); within
`FloatsAgree` the theorem holds for every union of any length, where the run has
three members.

`TypeNodeContentProofs` proves:

* `AnyDropsTheRest`: `Spec => []AnyTakesPrecedence` (proved, and checked by no run);
* `ReferencesAreReleased`: `Spec => []ReleasesWhatItHolds`, where no Any comes with a
  constraint of the user's (`NoHookOnAny`; 5178, see below);
* `BoundsCompileExactly`: `Spec => []BoundsAreExact`;
* `AcceptedInAnyOrder`: `Spec => [](SerializersApart(SeenMembers) => OrderDoesNotMatter)`;
* `OrderIsIrrelevant`: `Spec => []OrderDoesNotMatter`, where `SerializersApart(Member)`.

`Alone` says what may be left beside Any: a constraint that came with an Any and
nothing else. For the references, `Partly` extends the layout to a node whose
construction failed, which has the first details of the layout and an
allocation that is NULL beyond. The bounds of a node are those of the last
member that gave one on that side (`LastDecides`), in the bit and in the value,
with exclusive bounds moved inwards and clipped at the ends of int64; details of
ints come before those of floats, so `FloatsAgree` is not needed.

`OrderDoesNotMatter` compares the collection, which goes member by member, with a
definition of what is supported that counts in a set. The invariant `OrderInv` says
at each pass what the set of the members makes of the state: `Gathered`, that
the bits, objects, Struct classes and literals are those of the members so far and
that no two of them `Clash` over one detail; `Structured` and `Complete`, the same
with the bits of the Struct classes and the literals. What the check counts are
bits and what the documentation counts are members: `FamilyCounts` shows that the
two agree within a family of types once nothing clashes, and `NumbersAreSeveral`,
`TextsAreSeveral`, `ObjectsAreSeveral`, `ArraysAreSeveral` and `CustomsAreAlone` say so of
each restriction. A refusal in the middle is final (`MemberGathers`): the members
that come later cannot make the union supported again. This needs that no
Serializer meets a native type (`SerializersApart`), because there the code does
refuse by the order: `serializer_on_native` shows the two orders of such a union.

`LookupTableProofs` proves, for all mappings with distinct keys, hash functions,
orders of insertion and widths of integers that satisfy `ConstantsOK`:

* `TypeCorrect`: `Spec => []TypeOK`;
* `Exact`: `Spec => []AnswersAreExact`;
* `AlwaysFree`: `Spec => []SlotIsFree`.

The slots a key is looked for in have no closed form (for strings they depend on
all of the hash), so the invariant says of a stored key that there is a set of
places that contains the one its hash leads to, is closed under going on, and in
which only the slot of the key ends a loop; while a key is being stored, the same
set with the place of the loop as its end. Storing a key adds the set that its
own loop went through and cannot disturb another, because it takes a slot that
was empty. That a slot is free follows by counting: used slots are no more than
stored keys. For the dense array the invariant gives each slot's content, and the
arithmetic of the index is exact because the range of two int64 is below 2^64.
That a loop ends needs, beyond a free slot, that the sequence reaches it: this is
checked by TLC (`ProbesEnd`) and not proved.

`StructInstanceProofs` proves, for all classes that satisfy `ConstantsOK`, and any
actors, instances, values and bounds:

* `TypeCorrect`: `Spec => []TypeOK`, with the consequence that the marker of a
  required field among the defaults is never stored. For the array decoders this
  rests on `n_trailing_defaults` being what `ConstantsOK` says of it;
* `CollectorSeesInstances`: `Spec => []CollectorSees`.

`CollectorSees` speaks of whole instances and the calls decide by one Boolean they
keep, so the invariant `Sees` relates the two. `CountedBy`: while a call fills an
instance, `should_untrack` is right about the fields it has gone through
(`Scanned`), which are all of them when it decides; `OwnedBy` and `Apart`: until
`__post_init__` the instance belongs to that call alone, so what it has counted
cannot change; `SeenBy`: an untracked instance holds nothing the collector may
track, except a value that an assignment has stored and is about to track. That
tuples are untracked meanwhile only helps. The proof has a lemma per group of
actions, as in `Next`, on top of lemmas about one stored field (`StoreSees`), one
new instance (`BeginStep`) and one call going on (`GoStep`).

`StructInstanceFieldsProofs` proves, under the same assumptions:

* `FieldsAreBound`: `Spec => []BindsAsDeclared`;
* `AllHashesAgree`: `Spec => []HashesAgree`.

`Binds` says, for each place in each of the calls that make an instance, which fields
are final (`Settled`: what the caller passed, else the default), which are as the
caller left them (`Open`), and for which nothing was passed (`Unset`). The calls go
through the fields in different orders and meet in `filled`, where all are settled.
That no other call interferes is `Apart` of `StructInstanceProofs`. `Hashes`
relates to the fields every hash there is: those kept, those answered, and those
still being computed by calls that overlap; an instance of a frozen class changes
only while nobody but the call that makes it has it, except through
`__post_init__` (`exposed`).

`StructMetaProofs` proves, for any class statements that satisfy `ConstantsOK` and
`TagsOK`, in any number, with any bases among the classes made before:

* `TypeCorrect`: `Spec => []TypeOK`;
* `ClassesFitInstances`: `Spec => []FitsInstances`;
* `OffsetsHold`: `Spec => []SlotsAgree`;
* `KeysDiffer`: `Spec => []KeysUnique`;
* `SettingsInherited`: `Spec => []ConfigInherited`;
* `FieldsInherited`: `Spec => []FieldsComeFromWhereTheyShould`;
* `PositionsInherited`: `Spec => []PositionsKept`.

Each property speaks of finished classes and each pass of a statement sees only the
`StructMetaInfo`, so there is an invariant per theorem that says what the passes so
far have made of the bases and the body, with `classes` as the other part of the
induction: a class enters it with the property, and then nothing about it changes.
`Typed` is the invariant of the types, which the others rest on. `Fitting`: the
fields are those of `defaults_lk` in the order of `Ordered`, and the counts
(`NRequiredFirst`, `NTrailing`) are what they are said to be. `Slotted`: until
`type.__new__` an offset collected for a field is the one that each base with the
field has; this needs the layouts of the bases to extend one another, which is what
CPython refuses otherwise. `ClassesKeyed` is `KeysUnique` with what the tag is.
`Configuring`, `Coming` and `Positioning` say of the bases read so far, which are
a suffix of the statement's, that the first of them that gives a setting, a field
or a place has the last word; `ApplySpec` and `CollectField` then put the body
over them. For keys and codecs the first base with *something to say* has it, which
`DecidedFirst` turns into a statement about the first base where that base has one, or
none of them differs (`Decided`); the other case is what `PrimaryBaseWins` is about. `ConfigInherited`
is about every setting but `kw_only`. The order of fields rests on lemmas about
`Picked`, which lists the items of a sequence that are in a set: what it lists, that it keeps their order,
and what picking from a picked, an appended or a joined sequence gives.

Every safety invariant of the first five components that a run checks is proved, but
for `ReadyMeansBuilt` and `NoNullDereference`, which hold in the instances of `sections`
(no switch inside annotations, no union) and of which the theorems prove what is true
in general. Only model-checked: all of `LoadAndDump`, whose reference definitions are recursive,
and what is out of the prover's reach because it is liveness under fairness:
`RequestsFinish`, `ProbesEnd` and `Terminates`.

## Findings

* **Two threads build one class** (`double_build`). `StructInfo_Convert_lock_held`
  checks `struct_info` (9472), then runs Python code (`get_class_annotations`,
  9521), then assigns `struct_info` (9538) without looking again. Python code can
  give up the GIL or suspend the critical section, so a second thread can pass the
  same check. When one of the two has finished and published its info, the other
  stores its own, only just begun, over it: the raised flag vouches for an info
  with no field converted, against the comment at 4639. Readers that take the
  fast path get it, and most wait for `initialized`. If the second build
  fails it lowers the flag before it drops the pointer (9571, 9582), which leaves
  NULL under a raised flag only if the first publishes in between. `switches` and
  `InfoCacheCellProofs` say that no other class is affected and that nothing but such a
  switch does it.
* **A lookup outlives a failed build** (`stale_union`). The lookup of a tagged
  union is cached (6574) before the members that name the union are finished. If
  one then fails, the cached lookup keeps the failed info and serves it to the
  next conversion of the union (6442), whose decoder asserts a TypeNode that is
  NULL (18064).
* **A member is used while it is built.** The same NULL is met without a failure. The
  decoder of a tagged union takes a member's info from the lookup (17587) and does not
  wait for `initialized` as `TypeNode_get_struct_info` does. While one thread is
  suspended in the build of a class that names its own union, without the GIL or in
  annotations, another converts the union, is given the unfinished info of the class
  (9472) and decodes with it, or is served a lookup that was cached meanwhile (6442,
  6574). `NullsHaveACause` says that this and an overwritten class are all there is.
* **A Serializer next to a native type** (`serializer_on_native`). The comment at
  5536 and the message at 5553 exclude Serializers on native types, but the check
  (5548) sees only the members collected before: `int | Annotated[date,
  Serializer(...)]` is refused, `Annotated[date, Serializer(...)] | int` is accepted
  and then every int of the field is given to `load` (18290).
* **The decision to untrack is older than `__post_init__`** (`post_init_assigns`).
  `validate_object_to_struct` (20990), `validate_seq_to_struct_array_inner` (20474),
  `json_decode_struct_array_inner` (17399) and `Struct_replace` (10494) compute
  `should_untrack` while they fill the fields, call `__post_init__`, and then untrack
  the instance. If `__post_init__` has assigned a list, the assignment left the
  instance tracked and the call untracks it again, against
  `tests/test_struct.py:1063`; a cycle through it is never collected. The constructor
  and `Struct_fill_in_defaults` untrack first (10161, 9982). `CollectorSees` is the
  property without such instances (`exposed`).
* **The primary base does not win** (`primary_base`). The comment at 8422 says that it
  does on conflicts. A base that declares an inherited field again without a codec
  leaves no trace in what is collected (8436), and the codec that a base further back
  still has is taken, while default, mark and position come from the primary base. So it
  is with a field that the primary base calls by its own name again (7773): it
  gets the alias of the other base.
* **`kw_only` is inherited.** `docs/usage.rst:296` says that it affects only the fields
  of that class body, not those declared in a subclass; it is taken from the bases
  like the other settings (7634-7637), as `tests/test_struct_meta.py:87` expects. The
  model follows the code; no property speaks of a body that does not mention it.
* **`dump` on a Struct.** `docs/extending.rst:169-180` allows Serializers on Struct
  classes and says that both encoders apply `dump`; `dump_obj` does (19266-19283),
  `json_encode_inline` writes Structs without looking (15995-15999). The models do the
  same; `DumpsAlike` is about classes without such a codec (`StructCodecs`).

Seen while modelling, and kept out of the checked instances:

* When annotations fail in a second build of a class that has been published meanwhile,
  the error path lowers the flag (9571) and nothing raises it again: the class is
  served by the slow path from then on. (The models have this; no property minds it.)
* A union of two members with a user-defined Constraint each keeps the second and
  loses the reference to the first (5700).
* A user-defined Constraint on `Any` is stored, but the traverse ranges of a node
  with `MS_TYPE_ANY` count no objects (5178-5193), so it is never released. Without such
  members (`NoHookOnAny`) everything is, as `ReferencesAreReleased` proves.
* `Annotated[float, ge] | Annotated[float, gt]` sets two bits that share one
  detail; the readers of later bounds count both (5069) and look one place too
  far. `DetailsAreFound` proves that there is no other case (`FloatsAgree`).
* Members before `Any` are checked, those after it are not looked at:
  `list[int] | list[str] | Any` is refused, `Any | list[int] | list[str]` is Any.
  `OrderDoesNotMatter` is therefore about unions without Any, of which
  `OrderIsIrrelevant` proves it.
* `IntLookup_New` computes `imax - imin` in int64 when `imax` is 0 (1200), which
  overflows for `Literal[0, -2**63]`; builds wrap, to the right range. So does the
  negation at 1414 for `-2**63`, which elsewhere goes through
  `ms_negate_magnitude`.
* `object.__setattr__` in the `__post_init__` of a frozen class, the way
  `docs/usage.rst:169` shows, bypasses `Struct_setattro_default` and never tracks.
* A copy made after an assignment has stored its value and before it tracks the
  instance takes over the fields and not the tracking (10420, 7430-7437). Such copies
  are `exposed` too.
* `__rich_repr__` of a class with `repr_omit_defaults` dereferences NULL for a deleted
  field whose default is a factory (10552).
* `Struct_richcompare` keeps borrowed references to fields while `__eq__` of a field
  runs, which may replace them (10380-10398).

Of `StructMeta`:

* The order of fields is said to be that of dataclasses; the fields of a base are
  collected in the order the base has put them in.
* A tag that the primary base has cleared survives in a secondary one.
* Redeclaring an inherited field as `ClassVar` drops its codecs and keeps the
  field.

Of `LoadAndDump`:

* `decimal_as_number` with a Decimal as a key of a dict writes the key without
  quotes (15444).
* The same holds of `dump` on a subclass of list or dict (15984-15989).
* A Struct without codecs is written with those of the field around it; a Struct
  with any resets them. `load` knows no such scope, so the first does not survive
  the round trip.
* `sort_keys` needs keys of type str where `json_encode_dict` takes dates and
  numbers, and does not consult codecs for keys.
* Keys that are equal once they are written (1 and "1") are merged by `dump_obj`
  and repeated by `json_encode`.
* The length of a set is checked by the decoder when duplicates are gone and by
  `validate_seq` before.
* A `load` on the type of keys is applied by the decoder and by `validate_obj` only
  to keys that are not str.
* A type with `load` that strict JSON has made into a dict with numerals as keys is
  refused for `dict[int, ..]` (21410).
* A document with a tag twice is refused if they differ, unless it is the union
  that reads a Python dict.
* Containers are walked by pointer and size while callbacks run (15285, 20149,
  18835), which may change them; values that change while they are written are
  not modelled.

## Not modelled

The `components` of `PROJECT.json` list every part with its status. Of decoding and encoding: lax mode, `from_attributes`,
`builtin_types`, user-defined Constraints and custom types, objects with
`struct_dump` or `model_dump`, objects of attrs and external Structs, UNSET,
`frozendict`, streams. `TypedDict`,
dataclass, `NamedTuple` and generic infos follow the protocol of `InfoCache` with
`__structtype_cache__` in the place of the pointer and no flag; they are not
modelled a second time. Left out for good: the vendored number conversions
(their correctness is numerical), formatting of messages, reference counts, and
the parts that only call other libraries.

## Plan

Done: `InfoCache`, `TypeNode`, `LookupTable`, `StructInstance`, `StructMeta`, and
the composition `LoadAndDump`, with theorems about the first five. What is left:

1. Proofs: the shape of the decoder's stack, and that the cursor goes back in
   `Found` only; that a linear probe ends (its distance to the free slot falls).
2. `Numbers` over a small width, and the merge of constraints, as parts of
   `JsonDecoder` and `TypeNode`.
3. Values that callbacks change while they are written.
4. The Python layer and durations, as far as they have state.
