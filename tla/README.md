# TLA+ models of the Perun C# profiler

This directory holds a verification development for the profiler in
`src/SharedPerunProfiler`: TLA+ modules translated from its C++ code, TLC
configurations that check them on small instances, and proofs for TLAPS.
File and line references are relative to `src/`; `CoreProfiler.cpp` stands for
`SharedPerunProfiler/CoreProfiler.cpp`, and `corprof.idl` for
`CoreClr/inc/corprof.idl`, the vendored contract of the runtime.

## 1. Inventory

The profiler is a DLL that the .NET runtime loads. The runtime raises
callbacks on it, on whatever thread the event happens; the callbacks build
in-memory structures; `Shutdown` writes them to one JSON file, which a Python
script turns into plots.

| Part | Source | State | Operations |
| --- | --- | --- | --- |
| Call tree | `CoreProfiler.cpp` 52-157, 311-358, 377-492, 740-743, 795-825; `FunctionClass.*` | `m_activeFunctionInThread` (thread to last order number and active call), the `FunctionClass` objects, `m_functionMap` | `EnterStub`/`Enter`, `LeaveStub`/`Leave`, `TailcallStub`/`TailCall`, `ExceptionUnwindFunctionEnter`/`Leave`, `Mapper`, the function half of `Shutdown` |
| Object tracker | `CoreProfiler.cpp` 360-375, 551-563, 682-749, 863-944; `ObjectClass.*` | `m_objectsAlloc` (address to record), `m_objectsDeAlloc`, `m_classes`, `gcNumber` | `ObjectAllocated`, `ClassLoadFinished`, `GarbageCollectionStarted`/`Finished`, `MovedReferences`, `SurvivingReferences`, the object half of `Shutdown` |
| Log | `Logger.*`, `Mutex.*`, `AutoLock.h` | the file, the logger's lock | `LOG` (a fragment and a comma), `LOGInSh` (a fragment), `Shutdown` |
| Life cycle | `CoreProfilerFactory.cpp`, `DLLMain.cpp`, `CoreProfiler.cpp` 47-50, 218-309, 404-406 | `_refCount`, `_info`, `g_CoreProfiler`, the event mask | `QueryInterface`, `AddRef`, `Release`, `CreateInstance`, `Initialize`, the end of `Shutdown` |
| Assembly filter | `CoreProfiler.cpp` 21-45, 99-157; `OS.cpp` 14-26 | `listOfAllowedAssemblies`, `isDeallocEnable` | the constructor's parser, the test in `Mapper` |
| Naked callbacks | `asm/windows/nakedcallbacks.asm`, `asmhelpers.S`, `CoreProfiler.cpp` 161-210 | registers and the machine stack | `EnterNaked`, `LeaveNaked`, `TailcallNaked` |
| Visualisation | `PerunVisualizations/main.py` | data frames read from the log | merging, aggregation by `nOr`/`fnc`, treemap |
| Collector script | `PerunCollectorScript/PerunCollectorScript.py` | environment variables | starts the profiled program |

How they interact. The runtime calls the naked callbacks, which save registers
and call the stubs, which test `g_CoreProfiler` and call the tree; every other
callback is a method of the object the runtime got from the factory, and does
not test it. The object tracker reads the call tree (`ObjectAllocated` copies
the thread's last order number into the record and, by `operator[]`, creates
the thread's entry). `Shutdown` reads, writes and frees what all callbacks
share, under `_lock`; of the callbacks only `MovedReferences`,
`SurvivingReferences` and `GarbageCollectionFinished` take that lock. Every
line of the log passes through the logger's own lock.

What is hard about it:

* callbacks of several threads interleave with each other and, because
  `Shutdown` runs while other threads do, with every statement of `Shutdown`;
* an active call is a pointer that `Enter`, `Leave`, the unwind callbacks and
  `Shutdown` each move by their own rule, and the runtime's stack, which it
  should follow, is never consulted;
* the root of a thread's tree stays active after it returned, so calls can be
  filed under a finished one;
* exceptions raise callbacks for traced and untraced frames alike;
* a collection is told in many callbacks, of which each is acted on at once,
  and records are keyed by addresses that are moved and used again;
* recursion over shared children deletes while it walks;
* the runtime maps functions on several threads at once, and the maps have no
  lock; what keeps a filtered function out is a 0 that travels from the mapper
  through assembly code to three stubs.

What makes each part correct: the tree is a forest, with unique order numbers
per thread and nested intervals, whose open calls are a stack; what Shutdown
writes is that forest, once, and nothing leaks; the records follow the heap,
have one owner and are never used after they were deleted; a collection and
Shutdown both end; the profiler hears of the functions the user asked for and of
no others, and the program does not notice its hooks; the plots count everything
they keep once. `PROJECT.json` lists the hazards line by line with the
properties that answer them.

## 2. Modules

| Module | What it is |
| --- | --- |
| `CallForest` | the promise of the call tree, without pointers: calls are opened under the innermost open call of their thread and closed in the opposite order |
| `CallTree` | the call tree in detail, the runtime's stacks and exceptions, and `Shutdown` |
| `MCCallTree` | model values for it |
| `CallTreeProofs` | proofs about `CallTree`: types, and what each callback does to the tree |
| `CallTreeShapeProofs` | the shape of the forest, its numbers, open calls, finished calls and times |
| `CallTreeShutdownProofs` | the walk of `Shutdown`: no bad pointer, nothing written twice |
| `CallTreeLogProofs` | what `Shutdown` leaves: the log is the forest, nothing leaks |
| `CallTreeForestProofs` | what the tree means to others: it implements `CallForest`, mirrors the stacks, and `Visualisation` finds a tree in its log |
| `ObjectTracker` | the object tracker, a moving generational collector, and the object half of `Shutdown` |
| `MCObjectTracker` | model values for it |
| `ObjectTrackerProofs` | proofs about `ObjectTracker` |
| `ProfilerSession` | the profiler's object from the factory to its deletion, and the log as one document that several writers put together |
| `MCProfilerSession` | model values for it |
| `ProfilerSessionProofs` | proofs about `ProfilerSession` |
| `AssemblyFilter` | the list of assemblies: reading the environment, the parser, the test of a name, and what the README promises of them; no state |
| `NakedCallbacks` | the naked hooks on a machine with registers and a stack |
| `HookPath` | composes the two: the constructor, the mapper on several threads, the hooks and the stubs |
| `MCHookPath` | model values for it |
| `HookPathProofs` | proofs about `HookPath` |
| `Visualisation` | the frames and treemaps that `main.py` makes of the log of `CallTree` |

### CallTree

`calls` is the sequence of every `FunctionClass` ever allocated; a pointer is
an index, `Nil` is 0, and `freed` holds the deleted ones. `first` and `second`
are the pair in `m_activeFunctionInThread`, `known` its set of keys (an entry
made by `operator[]` is a key whose pair is zero). `m_functionMap` tells an
absent key from the null entry that `operator[]` leaves in `Enter`.

A callback is one step. `Enter` and `Leave` are operators because two callbacks
each share them: `EnterStub` and `ExceptionUnwindFunctionEnter` call `Enter`;
`Leave`, `TailCall` and `ExceptionUnwindFunctionLeave` have the same text.
`Shutdown` is one step per statement that touches shared state: the loop over
the threads, one turn of the climb, one activation, child, end of the loop,
clearing of the list and return of the recursive `Serialize` (the variable
`walk` is its stack of activations), the delete, the detach, the clearing of the maps, of `_info` and of
`g_CoreProfiler`. With `LateCallbacks` any callback can come between two of
these steps; `fault` records the use of a null, deleted or released pointer,
which ends the process.

External: `stack` is the runtime's call stack per thread, `unwinding` the
progress of an exception, `now` a clock of a few values. The CPU clock is
`now - 1`, because it reads 0 until a process has been charged its first tick,
and 0 is the code's mark for "not left yet". `Traced` are the functions whose
assembly passes the filter.

### ObjectTracker

`objects` is the sequence of every `ObjectClass`; `m_objectsAlloc` maps keys to
records. `MovedReferences` is modelled in the two halves the code has: the
first fills `tmp_map` and stamps, then `RekeyOne` is one turn of the second
loop, where a record is extracted, inserted and the old key erased, in the order
of keys. `lock` is `_lock`; the steps of a callback that holds it exclude the
others that take it, and no others.

`isDeallocEnable` is either, since the user sets it. An object whose size
`GetObjectSize` does not tell is in the heap and has no record (`sized` holds the
others; `MaxUnsized` bounds their number).

External: `place`, `gen` and `reachable` are the heap. A collection picks the
oldest generation it reaches, sweeps or compacts by distances from `Shifts`, and
reports its survivors as the longest ranges that stay together, in any number
of calls (corprof.idl 1518-1521). Objects fill one address each, which is all
that ranges and keys can tell apart. `lastSurvived` counts independently of the
profiler which collection an object lived through.

Thread ids, sizes, times and the order number of a record are data here; the
order number is modelled in `CallTree`, where it comes from.

### ProfilerSession

The third view is that of the runtime and of the reader of the log. `_refCount`
is the profiler's counter and `references` what the runtime holds, counted
apart; the runtime keeps one until `Shutdown` has returned. `CreateInstance`
includes the `QueryInterface` and the `Release` the factory calls. `Initialize`
sets the global, begins the log and reads the mode, in that order; without a
number in `PROFILER_MODE` it ends in an exception with the first two done.

`file` is the log as a sequence of fragments: a part is opened, gets items and
is closed. The parts are the document, the arrays `functions` and `Objects` and
the object `functionNames`; the two lines of a collection are members of the
document. A fragment is what one call of `LOG` or `LOGInSh` writes, under the
logger's lock; a collection callback computes its line in one step and writes it
in another (`line`), so other writers come between. `Shutdown` is one step per
line; while it writes a part, a record made by a callback may still join it
(`Joins`) or not, since the loops run over the live maps. `Term` closes the
file, and what is written later is lost.

What was recorded is abstracted to the sets `called`, `allocated` and
`m_functionMap`, which `CallTree` and `ObjectTracker` model in detail: here `Enter`
and `ObjectAllocated` only say whether there is something to write, and which
pointer they would misuse. The null entry that the look-up in `Enter` leaves is
kept (`nullEntries`), because it makes a later `insert` of the mapper fail.
`late` says whether callbacks, collections included, overtake `Shutdown`.

### AssemblyFilter, NakedCallbacks and HookPath

A text is a sequence of pieces: the separator `";"`, and values that each stand
for a run of letters. `listOfAllowedAssemblies` is the loop of the constructor:
find a separator, cut off what stands before it, go on with the rest; `Names`
says what the value means by the places of its separators, and the two are
compared. `ReadEnvironmentVariable` gives the set of possible results: none for
a null pointer on Linux, any text for a value that does not fit the buffer of
Windows (`OS.cpp` 17-22: 1024 bytes, here `ValueSize` pieces).

`NakedCallbacks` has one action per instruction. `SysvPushes` and the other
sequences are the instructions of the two assembly files; the three hooks of a
file differ in the stub only. A register holds the name of the register it was
saved from, so that a value in the wrong place shows. External is what the
calling conventions say: the compiled stub leaves junk in every register it may
change and in the stack slots it owns, below its return address and, on Windows,
in the four above it.

In `HookPath` `phase` follows the profiler from its constructor to the end of
`Shutdown`; in `"clearing"` the maps and the list are empty and the global is not.
`Mapper2` is `Mapper2Refuses`, or `MapperLocates` and then `MapperLinks`, because
`std::map::insert` finds the place of a node first and writes its pointer later:
`mapping` holds, for each thread, the key and the gap between two keys where it
found nothing. Whoever writes last into a gap overwrites what was linked there
meanwhile. `assembly` is what the runtime knows of each function: the name of its
assembly and which of the look-ups of `Mapper` fail. `GetAssemblyInfo` may fail, and
the buffer may have no room for the name; the code does not look, and searches what
the memory holds. `PszName` is then any of `Remains`, anew in every call, so the
mapper may answer differently for one function. `answers` are the ids that
the runtime was given; a hook is called with any of them, runs on the machine,
and the stub passes the function on (`reached`) or not. One hook at a time is
enough, as the hooks of different threads share no register and no slot.

### Visualisation

`main.py` reads the log of `CallTree` when `Shutdown` is done. A row of the frame
of functions is a place in `log`, a row of the frame of objects an allocation.
The join with the names keeps the calls of mapped functions. The frame of objects
has the column `fnc` when one object has that key (`fnc_column`); `dropna` then
keeps the objects with a caller, and without the column line 100 is a `KeyError`.
`Allocations` are the objects that are summed for a row,
by order number and without a look at the thread, as the code does it.

## 3. Runs

| Run | Instance | What it shows |
| --- | --- | --- |
| `calltree_stacks` | 2 threads, one traced and one untraced function, 3 calls, depth 2, mode 0, no exceptions | types; the open calls are the traced frames and the active call is the innermost; allocations name a call of their thread; when Shutdown is done the log is the forest, parents first, and every object was deleted; the treemap of each thread is a tree with one root however deep it is cut; one object with a traced caller is enough for the sums, and then each such object is counted at one call of its thread and no other object at any |
| `calltree_exceptions` | 1 thread, 4 calls, depth 3, 2 clock values, exceptions | forest shape, unique increasing order numbers, open calls form a chain that ends in the active call, intervals nest, no bad pointer, finished calls frozen, refinement of `CallForest`, Shutdown ends |
| `calltree_late_callbacks` | 2 threads, 3 calls, exceptions, callbacks overtake Shutdown | the tree stays a forest whose pointers agree up to where Serialize has cleared a list, and no call is written twice |
| `objects_owners` | 3 addresses, 2 generations, 3 objects, sweeping and compacting in both directions, with and without the search for dead objects, callbacks overtake Shutdown | types, one owner per record, no deleted record read, tracked records bear the last stamp, collections finish |
| `objects_heap` | 3 addresses, 4 objects, one of which may have no size, full sweeping collections, 2 collections, with and without the search for dead objects | with the search the records are the heap and `untilGC` is the last collection survived; every record reaches the log, but without the search those that a later object with their address overwrote |
| `session_log` | 1 function, 1 object, 2 collections, 2 references, all modes, with and without overtaking callbacks | types; references are counted; the global never leads to a deleted profiler; the log is one well-formed document unless a collection overlaps Shutdown; it has every part once; it names every function it has a call of; the lines of a collection are paired |
| `calltree_leave_mismatch` | exceptions, two traced functions | *violated*: after an exception `Leave` closes another function's call (`CoreProfiler.cpp:457-460` calls that an error) |
| `calltree_alloc_call` | one thread, nested calls | *violated*: an allocation is attributed to the last call issued, not to the active one |
| `objects_compaction` | survivors slide down | *violated*: `MovedReferences` tests the range with the new start, so living objects are listed as deallocated and lose their place in the map |
| `hook_path` | 2 threads, 1 function, 12 values of the variable, 4 assembly names, every failing look-up with 3 contents of the unwritten buffer, both conventions | types; the list holds the names of the value; while it stands, the hooks reach the profiler with the functions of the assemblies that the value names, and with no other unless a name is a part of the assembly's; however the answers for a function differ, nothing of it is reported or recorded before it got its id; the hooks give the registers and the stack back, and call the stubs with an aligned stack and the id in place |
| `map_race` | 2 threads, 2 functions | *violated*: an insertion loses the node of another, and a function has hooks and no record |
| `session_overlap` | a collection overlaps Shutdown | *violated*: the line of the collection stands inside the array that Shutdown is writing |

A run with `CHECK_DEADLOCK FALSE` may stop: the process ends when Shutdown is
done or a pointer was misused, and the bounds end the runtime's activity.

Bounds. Three calls give a root, a nested call and a sibling (or a second
thread's root); four with depth 3 give the shortest tree in which an exception
leaves a chain that the climb, the walk and a later `Enter` all see. Two
threads are enough for the loop over the map and for entries that do not
share state; no callback reads another thread's entry. Two clock values tell
0, "earlier" and "later" apart. With three addresses there is a range of two
objects that slides by one over a dead third, the shortest collision; two
collections show a stamp that is one behind. In `session_log` one function and
one object let each part be empty, or have an item, or get one while it is
written; two references are what it takes to drop one and live on. The values of
`hook_path` have up to five pieces, with separators at the start, at the end, next
to each other and nowhere, and two of them exceed `ValueSize`; among them are names
that are a part of an assembly's and the empty name; with one function
two threads can still insert the same key at once, and `map_race` has the second
function that it takes to lose one.

Fairness. `FairSpec` of `CallTree` asks for weak fairness of the steps of
`Shutdown` only: the runtime's thread that called it runs it to the end. It
asks nothing of the program, which may run, wait or stop as it likes. In
`ObjectTracker` weak fairness also holds of the steps of a collection, which the
suspending thread runs, as far as `_lock` lets it.

`ReachableStayTracked` fails in two more ways that its run, which stops at the
first one, does not show. With `Collected <- AnyGen` and `OldestGen = 1` a collection
of the youngest generation lists the living objects of the older one as
deallocated: `GarbageCollectionFinished` does not look at the generations that were
collected (`CoreProfiler.cpp` 922-930, against `corprof.idl` 2048). And where
`MovedReferences` does recognise an object that slides down, `insert` refuses a key
that a dead object still holds, and the record is lost (`CoreProfiler.cpp` 714).

Two faults are so near that no run of their own shows them: with
`LateCallbacks`, a callback that comes after `ReleaseInfo` uses the null `_info`
(corprof.idl 813 and 1512-1516 announce such callbacks), and in mode 0 an
exception in a thread that allocated but entered no traced function
dereferences the null entry that `ObjectAllocated` made. `NoFault` is therefore
a property of mode 1 without late callbacks only. `ProfilerSession` reaches the
first of them too (`fault = "info"`), and after the last `Release` the misuse of
the deleted profiler by a callback that is not a hook cannot come, because the
runtime must hold a reference to call a method.

Where the code departs from what is said of it, other than in the findings, the
properties have a hypothesis that names the departure:

* README.md 52 and 67 promise that `PROFILER_ENABLE_ASSEMBLIES` lists the assemblies
  to profile. `Mapper` looks for each entry anywhere in the name
  (`CoreProfiler.cpp:125`), so a name that is a part of another lets that one in too:
  in README's example, `CacheManager;CacheManagerExample`, the first would do for both.
  A separator at the end makes an empty entry, which lets everything in.
  `ReachedAreWanted` takes these names out (`Apart`) and shows that nothing else is
  let in.
* corprof.idl 161-167 wants the mapper to answer the same each time. After a failed
  `GetAssemblyInfo` it searches memory that nobody wrote (`CoreProfiler.cpp:116-125`),
  and in the window `"clearing"` it judges by an empty list. `RefusedStayOut` says what
  such answers cannot do.
* corprof.idl 154-159 allows the answer 0 only with the hook flag cleared and calls
  what follows otherwise unpredictable; `Mapper2` leaves the flag alone. `HookPath`
  has the 0 reach the stubs, which is what their test for it expects.
* On Linux a variable that is not set is a null pointer that is made a string
  (`OS.cpp:24`). The constructor reads two, so the process ends unless
  `PROFILER_ENABLE_DEALLOC` is set too, which README.md 68 does not ask for
  (phase `"dead"`).
* README.md 40 and `main.py` give objects to functions; a log without a single object
  of a traced caller ends `main.py` in a `KeyError` at line 100.
* `main.py:102-107` matches objects with calls by order number only, so in a program
  with several threads the sum of a call takes in objects of other threads.
  `ObjectsAreCountedOnce` is about the object's own thread.
* Without `PROFILER_ENABLE_DEALLOC` nothing is removed from the map, and a record is
  overwritten when its address is used again (`CoreProfiler.cpp:745`).
  `RecordsAreWritten` has these records as its only exception (`Overwritten`).

## 4. Proofs

`tlapm` checks every leaf; nothing is assumed but the named `ASSUME`s on the
constants, which say that the bounds are natural numbers and the sets what they
are said to be (TLC evaluates them in every run). A theorem is about every value
of the constants. Some have a hypothesis on them; each selects instances that
the code has, and the theorem's property is false without it (TLC finds a
counterexample with late callbacks for each property that has the first one):

* `~LateCallbacks`: the callbacks have ended when `Shutdown` begins. `Shutdown`
  empties the tree under the feet of callbacks that come later
  (`corprof.idl` 1512-1516 says they may), and a call that is entered behind the
  cursor of its loop is in no log. What holds without the hypothesis is stated
  without it.
* `~Throws`: no exceptions. With them `Leave` closes the wrong call, which is the
  finding of `calltree_leave_mismatch`.
* `Mode = 1`: without the object tracker, whose entries made by `operator[]` the
  unwind callbacks dereference (section 3).
* `Sweeps`: collections sweep every generation and move nothing. With moves or partial collections the map is not the heap, which is the
  finding of `objects_compaction`.

Every inductive invariant named below was checked by TLC on the instances of the
runs before it was proved.

### The call tree

`CallTreeProofs!TypeCorrect` (`Spec => []TypeOK`). `TypeOK` is strengthened to
`TypeInv`, which adds that a parent was allocated before its call, that children
are allocated calls, and what the variables of `Shutdown` point to at each phase. What
makes that inductive is that `calls` only grows: a pointer to an allocated call stays
one, whatever the others do. The tree half of each callback is an operator, so it
is reasoned about once: `EnterTreeFacts` and `StampFacts` say what `Enter` and
`Leave` guarantee of the calls and of the thread's entry, and each action has a
lemma that cites them. The theorem holds while callbacks overtake `Shutdown`.

`CallTreeShapeProofs` reduces the next-state relation once more: `TreeCases` says that a
step leaves the tree alone, adds a call (`Grows`), stamps the active one and lifts
the entry (`Stamps`, `Lifted`), or lets a thread go (`LetsGo`). Its theorems are
built on each other.

* `TreeIsWellFormed`, from `ShapeInv`, which adds that an active call is of its own
  thread: a new child is appended to a list of calls of that thread, all older. That
  only a list of a written call is cleared needs that `walk` holds written calls.
* `AllocationsNameCalls`, from `AllocInv`: the number that is issued last in a thread with
  an active call belongs to a call (`LastIssued`).
* `OrdersAreUnique`, from `OrdersInv`: while the program runs, a thread that has made a
  call has an entry (`Attached`), so that its counter cannot start again.
* `FinishedCallsStayFrozen`, an action property that holds also with late callbacks: a step
  stamps the active call only, which is open or a root. That is `ActiveInv`, with the facts
  that make it inductive: neither the active call nor a finished call below the root has an
  open child, and no call has two (`OneOpenChild`), so that the parent is the innermost open call when the
  active one is closed.
* `OpenCallsAreAChain`, from `ChainInv`, which is `ActiveInv` and that an open call leads
  down to the active one (`Linked`). The latter needs that no thread is let go with open
  calls, and so `PassedInv` on how far the loop of `Shutdown` has come.
* `IntervalsAreNested`, from `TimesInv`: no stamp is later than the clock, so one given
  now ends a call after everything below it.

`CallTreeShutdownProofs` follows the recursive `Serialize`.

* `CallsNeverFault`, from `FaultInv`: while the program runs nothing is freed and each key has an
  active call; afterwards the roots that are freed are of threads behind the cursor.
* `NoCallIsWrittenTwice`, also with late callbacks. `WrittenInv` says that the
  stack of activations is a path downwards of written calls (`PathInv`), that what
  is written is of threads up to the cursor (`ThreadsInv`), and that of the
  children of a call on the stack those behind `next` only are written (`BelowInv`).

`CallTreeLogProofs` proves the converse, that nothing is left out.

* `NoCallLeaks` and `LogHoldsTheForest`, from `RootsInv` (one root per thread, and the
  cursor passes every key) and `LogInv`: the threads behind the cursor are covered and
  closed, a written call whose activation has ended has all its children written, and a
  line repeats what its finished call says, behind the line of its caller. That the
  walk reaches every call of the thread is shown by the least call that it missed
  (`LeastCall`): its parent is older, so it was not missed.

`CallTreeForestProofs` relates the tree to what is outside of it.

* `TreeImplementsForest` (`Spec => ImplementsForest`) is the refinement: initial
  states map to initial states, and `Grows` and `Stamps` map to opening and closing of `CallForest`,
  where by `ChainInv` the call that is stamped has no open call below it; every
  statement of `Shutdown` but the climb is a stutter.
* `StacksAreMirrored`, from `StackInv`: the frames of traced functions bear open
  calls of their thread, in ascending order, and every open call has its frame.
* `TreemapsAreTrees` and `ObjectsCountOnce` are about `Visualisation`: they follow from what
  was proved of the log, with `NamedInv` (a call's function has hooks) and `RootDepth`. The
  second says nothing of a log in which no object has a traced caller.

### The object tracker

`ObjectTrackerProofs` has seven theorems, each for any heap, any generations, any
way to split the reports of a collection. The first four hold with and without late
callbacks and however the collector moves objects.

* `TypeCorrect`. Inductive; the two places with substance are `NewKeyType` (what
  `MovedReferences` computes for a key it took for moved is a key) and the
  choice of the least key in the loops over ordered maps (`SmallestOf`).
* `OwnersAreUnique` (`Spec => []OneOwner`). Inductive with the types: a record
  gets a key when it is new, or when it has just been taken from another key, and a
  place in the list in the step that takes it from its key.
* `NothingDeletedIsUsed` (`Spec => []NoUseAfterDelete`). Not inductive by itself: that
  no record is read after its delete depends on how far `Shutdown` has come. The
  strengthening `DeletedInv` says that `_lock` is held exactly between the first
  delete and the clearing of the map; that before, nothing is deleted; that while
  the list is written only its own records are; that while the map is written, only
  those behind the cursor; and that at every other step no key leads to a deleted
  record. `OneOwner` is needed twice: a record deleted as an entry of the list, or
  under one key, must not be under another one.
* `TrackedBearTheNumber`, from `StampedInv`, with the search for dead objects on: whatever was reported, `GarbageCollectionFinished`
  stamps or removes each record it meets, and until the next collection only allocations
  add keys, which bear the number.
* `MapIsTheHeap`, `UntilIsTheLast` (under `Sweeps`, with the search on), from `SweepInv`: what died is on the list, or
  still under a key while the collection goes on, with an old number (`GoneInv`); what lives is
  under its address, and has the number or is covered by a range that is still to be
  reported (`PlacedInv`); and these ranges cover living objects only (`RangesInv`). That the
  reports of a collection cover each survivor and nothing else is a fact about the longest ranges of
  survivors (`RunAround`, `SurvivorReported`, `ReportedSurvived`).
* `EveryRecordIsWritten` (under `Sweeps` and `~LateCallbacks`, with the search on or off),
  from `WrittenInv`: at each step of `Shutdown` a record is written, or on the part of the
  list or of the map that is still to come, or was overwritten. `KeptInv` is the part
  for the search being off: while the program runs the last record of an address is
  under it.

### The session

`ProfilerSessionProofs` has seven, for any functions, modes and bounds.

* `TypeCorrect`: the types, the log a sequence of known fragments.
* `ReferencesAreCounted` (`Spec => []HeldIsCounted`) and `GlobalNeverDangles`
  (`Spec => []GlobalIsAlive`), from `LifeInv`: the runtime holds a reference from
  `CreateInstance` on until `Shutdown` returned, and the global is clear before and
  after. They hold however callbacks overtake `Shutdown`.
* `LogIsOrderly` (`Spec => []OrderlyLog`). That each line fits behind the one before
  it is not inductive. `OrderInv` adds which part is open at each step of
  `Shutdown`, that the line a collection has in hand is a member of the document, and
  that no collection has one once `Shutdown` began, when none may overlap it.
  `AppendFits` carries the argument from one line to the document.
* `NamesAreComplete` (`Spec => []EveryFunctionIsNamed`). The set `Unnamed` of functions
  with a call in the log and no name yet stays within `ToName`, what Shutdown is
  still going to name: the whole map until the names are begun, then `todo`, then
  nothing. That needs every recorded call to be of a mapped function (`NameInv`) and
  the file to be open while the names are written (`OrderInv`).
* `CollectionsPair` (`Spec => []CollectionsArePaired`), from `PairInv`: no line has a number
  beyond `gcNumber`, the line in hand is the next that the collection owes (`LineInHand`), and
  a collection in progress with nothing in hand has announced itself while the log was open.
* `DocumentsAreComplete` (`Spec => []DocumentIsComplete`), from `PartsInv`: each part was
  opened once if `Shutdown` has come to it, and not at all otherwise.

### The way of a call

`HookPathProofs` has six, for every list, any number of threads and functions, and
every way in which insertions overlap and lose nodes.

* `StubsKeepOut` (`Spec => []RefusedStayOut`), from `HookInv`: an answer is the id of
  its function or 0, a running hook has an argument that was an answer of its
  function, and what was passed on had an argument other than 0. It holds in every
  phase and however the look-ups fail.
* `HooksLeaveNoTrace` (`Spec => []HooksAreTransparent`) and `StubsFindTheirArgument`
  (`Spec => []StubsAreCalledWell`), from `MachineInv`. It says for each instruction of either convention
  how far the stack pointer is from where it was at the entry, which slots hold which saved
  registers, and which registers are restored already. The stub's junk is any value in what the
  convention lets it change, so nothing is proved by enumeration of what it does.
* `TypeCorrect`, from `MachineInv` and the rest of the types.
* `ListHoldsTheNames` (`Spec => []EntriesAreTheNames`): whatever the variable holds, the
  list is its names, each as often as it stands there. The loop is a recursive
  function on the rests of the value. `ParseExists` shows that there is such a
  function, and `ListIsGood` that it finds the names: were there a rest for which
  this fails, there would be a shortest one (`Least`), and one turn of the loop leads
  from it to a shorter one. `NamesWith` and `CountWith` are that turn, seen from the
  definition of `Names`, which knows nothing of the loop; `NameShift` says that behind the
  first separator every name is where it was, so many places on.
* `HooksReachTheWanted` (`Spec => []ReachedAreWanted`), which joins all the others: the
  list is the names (`FilterInv`), the answers for an assembly with a name are the verdict
  of the list (`VerdictInv`), a name of the value is part of itself and a name that is
  apart from the value has no entry in it (`VerdictIsTheWish`), the machine is at its return only past its call (`MachineInv`), and
  past the call the stub has passed on the function just when its argument is
  not null (`PassedInv`). `SettingsAssumption` says that the values of the variable are
  sequences of pieces.

### Only model-checked

* Liveness (`ShutdownCompletes`, `CollectionsFinish`), which is beyond the prover.
* The properties of the runs that expect a violation, which the code does not have.

## 5. Limits

* A callback of the call tree is atomic. The maps `m_functionMap`,
  `m_activeFunctionInThread`, `m_objectsAlloc` and `m_classes` are written by
  several threads without a lock. `HookPath` splits the insertions of the mapper
  into two steps and lets a later one overwrite an earlier one; rebalancing, torn
  reads and whatever else such a race may do are left out, as are the same races
  on the other maps, whose insertions are alike.
* The numeric values of clocks, the formatting of lines and the names of
  functions and types are not modelled.
* The machine of the hooks has no vector registers, which the hooks do not save
  although the stubs use them, and neither the 32-bit hooks of `CoreProfiler.cpp`
  161-210: they push one argument for stubs that take two and, as `__stdcall`
  requires, pop two, so that the return address is popped into a register.
* `Visualisation` has the frames and the treemaps; the tables and scatter plots
  group and sort rows and change nothing, and `make_gc_df` is never called.
* Callbacks whose body only returns `S_OK` change nothing and have no action.
* `Term` closes the file in one step. It does not take the logger's lock; what the
  stream does with a write at that very moment is undefined.
* In `ProfilerSession` collections do not overlap each other, as the runtime
  suspends the program for each of them.

Not modelled:

* the collector script, which sets environment variables from its arguments and
  starts the program (it has no state, and what it passes on is an input of
  `HookPath` and `ProfilerSession`);
* `GetMethodName` and `GetTypeName`, which ask the runtime for text;
* the two example programs and the Visual Studio projects;
* the vendored runtime under `CoreClr/`, which is nearly all of the repository by
  size and no part of the program: headers and the platform layer of .NET, of which
  `corprof.idl` is used as the contract of the environment.

## 6. Plan

In order of importance; all are done.

1. `CallTree` with `CallForest`: the core. Runs and type proof.
2. `ObjectTracker`: records and the heap. Runs, and proofs of types, ownership and
   deletes.
3. `CallTreeProofs`: types of every variable for any instance.
4. `ProfilerSession`: reference counts, `Initialize`, and the log as one document.
   Runs, and proofs of types, of the life of the object, of the order of lines and of
   the names.
5. `AssemblyFilter`, `NakedCallbacks` and their composition `HookPath`. Runs, and
   proofs about the mapper and the stubs.
6. `std::map` insertions in two steps, in the mapper of `HookPath`.
7. `Visualisation` on the log of `CallTree`.
8. The proof modules of the call tree: the open chain, from it the numbers, times and
   frozen calls, the walk of `Shutdown` and its log, the refinement of `CallForest`, the stacks
   and the treemaps.
9. `ProfilerSessionProofs`: the pairs of lines of a collection and the parts of the
   document. `ObjectTrackerProofs`: the map and the heap.
10. `HookPathProofs`: the machine, from an invariant that says, per instruction,
    which slot holds which register.
11. The parser of `AssemblyFilter`, by the shortest rest for which it would fail, and with
    it the whole way of a call.
