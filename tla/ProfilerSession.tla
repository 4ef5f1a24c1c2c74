-------------------------- MODULE ProfilerSession --------------------------
(***************************************************************************)
(* One profiled process as the runtime and the log see it                  *)
(* (src/SharedPerunProfiler): the factory creates the profiler, Initialize *)
(* begins the log, callbacks of the program and of collections come, and   *)
(* Shutdown writes what was recorded.  The log is one JSON document that   *)
(* several writers put together line by line.                              *)
(*                                                                         *)
(* What was recorded is reduced to what the log is about: the functions    *)
(* that were mapped, those that were called, and the objects.  CallTree    *)
(* and ObjectTracker say how the records come about.                       *)
(***************************************************************************)
EXTENDS Integers, Sequences, FiniteSets

CONSTANTS
  Functions,      \* the functions whose assembly passes the filter
  Modes,          \* the values PROFILER_MODE may have
  Overtakes,      \* whether callbacks may arrive during and after Shutdown
  MaxRefs,        \* bound on the references the runtime holds
  MaxObjects,     \* bound on allocations
  MaxGC           \* bound on gcNumber

ASSUME LateAssumption  == Overtakes \subseteq BOOLEAN
ASSUME ModeAssumption  == Modes \subseteq {"0", "1", "2", "other", "unset"}
ASSUME BoundAssumption == MaxRefs \in Nat \ {0} /\ MaxObjects \in Nat /\ MaxGC \in Nat

VARIABLES
  (* the profiler *)
  _refCount,       \* references counted; 0 when there is no profiler
  g_CoreProfiler,  \* TRUE when the global points to the profiler
  info,            \* TRUE while _info is held
  m_functionMap,   \* the functions with a FunctionInfo
  nullEntries,     \* those that operator[] left a null pointer for
  called,          \* the functions with a recorded call
  allocated,       \* the objects with a record
  gcNumber, fault,
  pc, inside, todo, \* how far Shutdown is; what its loop has still to write
  (* the log *)
  file, isOpen,
  (* the runtime *)
  mode, late, references, hooked,
  collecting,      \* TRUE between the two callbacks of a collection
  line             \* what its callback is about to write; <<>> for nothing

records == <<m_functionMap, nullEntries, called, allocated>>
object  == <<_refCount, references>>
writer  == <<pc, inside, todo>>
log     == <<file, isOpen>>
runtime == <<mode, late, hooked, collecting, line>>
vars    == <<object, g_CoreProfiler, info, records, gcNumber, fault, writer,
             log, runtime>>

Sections == {"functions", "Objects", "functionNames"}
Steps == Sections \cup {"document", "clear", "term", "release", "global"}
Fragment(part, what, id) == [part |-> part, what |-> what, id |-> id]
Fragments == [part : Sections \cup {"document", "GCStarted", "GCFinished"},
              what : {"open", "item", "close"}, id : Functions \cup Nat]

Init ==
  /\ _refCount = 0 /\ references = 0
  /\ g_CoreProfiler = FALSE /\ info = FALSE
  /\ m_functionMap = {} /\ nullEntries = {} /\ called = {} /\ allocated = {}
  /\ gcNumber = 1 /\ fault = "none"
  /\ pc = "unloaded" /\ inside = FALSE /\ todo = {}
  /\ file = <<>> /\ isOpen = FALSE
  /\ mode \in Modes /\ late \in Overtakes
  /\ hooked = {} /\ collecting = FALSE /\ line = <<>>
-----------------------------------------------------------------------------
(* The profiler's object.                                                  *)

Mutant_NoAddRef == _refCount
AddRef          == _refCount + 1

Mutant_TwiceReleased(count) == count - 2
Released(count)             == count - 1

\* The new profiler counts one reference, a known interface one more, and
\* CreateInstance gives its own back.
CreateInstance(known) ==
  /\ pc = "unloaded" /\ fault = "none"
  /\ _refCount' = Released(IF known THEN 2 ELSE 1)
  /\ references' = IF known THEN 1 ELSE 0
  /\ pc' = IF known THEN "created" ELSE "unloaded"
  /\ UNCHANGED <<g_CoreProfiler, info, records, gcNumber, fault, inside, todo,
                 log, runtime>>

QueryInterface ==
  /\ references \in 1 .. MaxRefs - 1 /\ fault = "none"
  /\ _refCount' = AddRef /\ references' = references + 1
  /\ UNCHANGED <<g_CoreProfiler, info, records, gcNumber, fault, writer, log,
                 runtime>>

\* The runtime keeps a reference until Shutdown has returned.
Release ==
  /\ references > (IF pc = "done" THEN 0 ELSE 1) /\ fault = "none"
  /\ line = <<>>
  /\ _refCount' = Released(_refCount) /\ references' = references - 1
  /\ UNCHANGED <<g_CoreProfiler, info, records, gcNumber, fault, writer, log,
                 runtime>>

Write(fragment) == file' = IF isOpen THEN Append(file, fragment) ELSE file

\* The first line creates the Logger, which opens the file.
OpenLog == isOpen' = TRUE /\ file' = <<Fragment("document", "open", 0)>>

\* Without a number in PROFILER_MODE stoi throws, after the global was set.
Initialize ==
  /\ pc = "created" /\ fault = "none"
  /\ g_CoreProfiler' = TRUE /\ info' = TRUE
  /\ OpenLog
  /\ IF mode = "unset" THEN fault' = "exception" /\ UNCHANGED pc
     ELSE pc' = "running" /\ UNCHANGED fault
  /\ UNCHANGED <<object, records, gcNumber, inside, todo, runtime>>
-----------------------------------------------------------------------------
(* Callbacks.  The hooks and the mapper are functions that go through      *)
(* g_CoreProfiler; the others are methods of the object.                   *)

Traces(modes) == mode \in modes
Alive == pc \notin {"unloaded", "created"} /\ fault = "none"
           /\ (pc = "running" \/ late)
Executes == Alive /\ ~collecting /\ line = <<>>
Crash(how) == fault' = how /\ UNCHANGED <<records, gcNumber, hooked, todo, line, collecting>>

Items == [functions |-> called, Objects |-> allocated,
          functionNames |-> m_functionMap]

\* A new record may still join the section that Shutdown is writing.
Joins(section, id) ==
  IF pc = section /\ inside /\ id \notin Items[section]
  THEN todo' \in {todo, todo \cup {id}} ELSE UNCHANGED todo

\* Behind the global must be a profiler, and behind that _info.
Reached ==
  IF _refCount = 0 THEN "deleted" ELSE IF ~info THEN "info" ELSE "none"

\* insert keeps the entry that is there, a null one too.
Mapped(f) == m_functionMap \cup ({f} \ nullEntries)

Mapper(f) ==
  /\ Executes /\ Traces({"0", "1"}) /\ g_CoreProfiler
  /\ IF Reached # "none" THEN Crash(Reached)
     ELSE /\ m_functionMap' = Mapped(f)
          /\ hooked' = hooked \cup {f}
          /\ Joins("functionNames", f)
          /\ UNCHANGED <<nullEntries, called, allocated, gcNumber, fault, line,
                         collecting>>
  /\ UNCHANGED <<object, g_CoreProfiler, info, pc, inside, log, mode, late>>

\* A hook of a function that has no FunctionInfo any more records no call, but
\* the look-up makes an entry.
Enter(f) ==
  /\ Executes /\ f \in hooked /\ g_CoreProfiler
  /\ IF _refCount = 0 THEN Crash("deleted")
     ELSE IF f \notin m_functionMap
     THEN nullEntries' = nullEntries \cup {f} /\ UNCHANGED <<called, todo, fault>>
     ELSE IF ~info THEN Crash("info")
     ELSE called' = called \cup {f} /\ Joins("functions", f)
            /\ UNCHANGED <<nullEntries, fault>>
  /\ UNCHANGED <<object, g_CoreProfiler, info, m_functionMap, allocated,
                 gcNumber, pc, inside, log, runtime>>

\* An object whose size GetObjectSize does not tell leaves nothing behind.
ObjectAllocated ==
  LET o == Cardinality(allocated) + 1
  IN /\ Executes /\ Traces({"0", "2"}) /\ references > 0
     /\ o <= MaxObjects
     /\ IF Reached # "none" THEN Crash(Reached)
        ELSE /\ allocated' = allocated \cup {o}
             /\ Joins("Objects", o)
             /\ UNCHANGED <<m_functionMap, nullEntries, called, gcNumber, hooked,
                            fault, line, collecting>>
     /\ UNCHANGED <<object, g_CoreProfiler, info, pc, inside, log, mode, late>>

Mutant_NumberBefore == gcNumber
LineNumber          == gcNumber + 1

\* Both callbacks of a collection format a line and then write it.
GarbageCollectionStarted ==
  /\ Executes /\ Traces({"0", "2"}) /\ references > 0 /\ gcNumber < MaxGC
  /\ IF Reached # "none" THEN Crash(Reached)
     ELSE /\ gcNumber' = gcNumber + 1
          /\ collecting' = TRUE
          /\ line' = <<Fragment("GCStarted", "item", LineNumber)>>
          /\ UNCHANGED <<records, hooked, todo, fault>>
  /\ UNCHANGED <<object, g_CoreProfiler, info, pc, inside, log, mode, late>>

GarbageCollectionFinished ==
  /\ Alive /\ collecting /\ line = <<>>
  /\ IF Reached # "none" THEN Crash(Reached)
     ELSE /\ collecting' = FALSE
          /\ line' = <<Fragment("GCFinished", "item", gcNumber)>>
          /\ UNCHANGED <<records, gcNumber, hooked, todo, fault>>
  /\ UNCHANGED <<object, g_CoreProfiler, info, pc, inside, log, mode, late>>

DoLog ==
  /\ Alive /\ line # <<>>
  /\ Write(line[1]) /\ line' = <<>>
  /\ UNCHANGED <<object, g_CoreProfiler, info, records, gcNumber, fault, writer,
                 isOpen, mode, late, hooked, collecting>>
-----------------------------------------------------------------------------
(* Shutdown, one step for each line it writes.                             *)

unwritten == <<object, records, gcNumber, runtime>>

\* The order in which Shutdown writes the parts.
Mutant_NoObjects ==
  [running |-> "functions", functions |-> "functionNames",
   Objects |-> "document", functionNames |-> "document"]
Mutant_NamesFirst ==
  [running |-> "functionNames", functionNames |-> "functions",
   functions |-> "Objects", Objects |-> "document"]
Following ==
  [running |-> "functions", functions |-> "Objects",
   Objects |-> "functionNames", functionNames |-> "document"]

ShutdownBegin ==
  /\ pc = "running" /\ fault = "none"
  /\ late \/ (~collecting /\ line = <<>>)
  /\ pc' = Following[pc]
  /\ UNCHANGED <<unwritten, g_CoreProfiler, info, fault, inside, todo, log>>

Mutant_Unclosed(section) == Fragment(section, "item", 0)
Closing(section)         == Fragment(section, "close", 0)

WriteSection(section) ==
  /\ pc = section /\ fault = "none"
  /\ \/ ~inside /\ Write(Fragment(section, "open", 0))
        /\ inside' = TRUE /\ todo' = Items[section] /\ UNCHANGED pc
     \/ inside /\ \E id \in todo : Write(Fragment(section, "item", id))
                                     /\ todo' = todo \ {id}
        /\ UNCHANGED <<pc, inside>>
     \/ inside /\ todo = {} /\ Write(Closing(section))
        /\ inside' = FALSE /\ pc' = Following[section] /\ UNCHANGED todo
  /\ UNCHANGED <<unwritten, g_CoreProfiler, info, fault, isOpen>>

WriteEnd ==
  /\ pc = "document" /\ fault = "none"
  /\ Write(Fragment("document", "close", 0)) /\ pc' = "clear"
  /\ UNCHANGED <<unwritten, g_CoreProfiler, info, fault, inside, todo, isOpen>>

ClearMaps ==
  /\ pc = "clear" /\ fault = "none"
  /\ m_functionMap' = {} /\ nullEntries' = {} /\ called' = {} /\ allocated' = {}
  /\ pc' = "term"
  /\ UNCHANGED <<object, g_CoreProfiler, info, gcNumber, fault, inside, todo, log,
                 runtime>>

\* Logger::Shutdown.
Term ==
  /\ pc = "term" /\ fault = "none"
  /\ isOpen' = FALSE /\ pc' = "release"
  /\ UNCHANGED <<unwritten, g_CoreProfiler, info, fault, inside, todo, file>>

ReleaseInfo ==
  /\ pc = "release" /\ fault = "none"
  /\ info' = FALSE /\ pc' = "global"
  /\ UNCHANGED <<unwritten, g_CoreProfiler, fault, inside, todo, log>>

Mutant_KeepGlobal == UNCHANGED g_CoreProfiler
ClearGlobal       == g_CoreProfiler' = FALSE

Return ==
  /\ pc = "global" /\ fault = "none"
  /\ ClearGlobal /\ pc' = "done"
  /\ UNCHANGED <<unwritten, info, fault, inside, todo, log>>

LifeStep ==
  \/ \E known \in BOOLEAN : CreateInstance(known)
  \/ QueryInterface \/ Release \/ Initialize

Callback ==
  \/ \E f \in Functions : Mapper(f) \/ Enter(f)
  \/ ObjectAllocated
  \/ GarbageCollectionStarted \/ GarbageCollectionFinished \/ DoLog

ShutdownStep ==
  \/ \E section \in Sections : WriteSection(section)
  \/ WriteEnd \/ ClearMaps \/ Term \/ ReleaseInfo \/ Return

Next == LifeStep \/ Callback \/ ShutdownBegin \/ ShutdownStep
Spec == Init /\ [][Next]_vars
-----------------------------------------------------------------------------
(* Correctness.                                                            *)

\* Every variable holds a value of its type.
TypeOK ==
  /\ _refCount \in Nat /\ references \in 0 .. MaxRefs
  /\ g_CoreProfiler \in BOOLEAN /\ info \in BOOLEAN
  /\ m_functionMap \cup nullEntries \cup called \subseteq Functions
  /\ allocated \subseteq 1 .. MaxObjects
  /\ gcNumber \in Nat /\ fault \in {"none", "exception", "info", "deleted"}
  /\ pc \in {"unloaded", "created", "running", "done"} \cup Steps
  /\ inside \in BOOLEAN /\ todo \subseteq Functions \cup 1 .. MaxObjects
  /\ file \in Seq(Fragments) /\ isOpen \in BOOLEAN
  /\ mode \in Modes /\ late \in Overtakes /\ hooked \subseteq Functions
  /\ collecting \in BOOLEAN /\ line \in Seq(Fragments) /\ Len(line) <= 1

\* The profiler lives exactly as long as the runtime holds a reference.
HeldIsCounted == _refCount = references

\* g_CoreProfiler never leads a hook to a deleted profiler.
GlobalIsAlive == g_CoreProfiler => _refCount > 0

\* The part of the document that is open behind a fragment.
Level(fragment) ==
  IF fragment.what = "close"
  THEN IF fragment.part = "document" THEN "end" ELSE "document"
  ELSE IF fragment.part \in Sections THEN fragment.part ELSE "document"

Fits(fragment, level) ==
  \/ fragment.what = "open"  /\ fragment.part \in Sections /\ level = "document"
  \/ fragment.what = "item"  /\ level = Level(fragment)
  \/ fragment.what = "close" /\ level = fragment.part

\* The log is JSON that begins with the process: every line, whoever writes
\* it, stands in the part of the document it belongs to.
LinesInTheirParts ==
  \A i \in DOMAIN file :
    IF i = 1 THEN file[i] = Fragment("document", "open", 0)
    ELSE Fits(file[i], Level(file[i - 1]))

\* It does, when no collection overlaps Shutdown.
OrderlyLog == ~late => LinesInTheirParts

\* When Shutdown is done the document has each of the parts the plots are
\* made from, once, and is closed.
DocumentIsComplete ==
  pc = "done" =>
    /\ \A section \in Sections :
         Cardinality({i \in DOMAIN file :
                        file[i] = Fragment(section, "open", 0)}) = 1
    /\ late \/ Level(file[Len(file)]) = "end"

\* Every call in the log is of a function whose name is in the log too.
EveryFunctionIsNamed ==
  pc = "done" =>
    \A i \in DOMAIN file : file[i].part = "functions" /\ file[i].what = "item" =>
      \E k \in DOMAIN file :
        file[k] = Fragment("functionNames", "item", file[i].id)

\* The two lines of a collection bear one number, its own, in their order.
CollectionsArePaired ==
  /\ \A i, k \in DOMAIN file : file[i] = file[k] /\ file[i].part = "GCStarted" => i = k
  /\ \A k \in DOMAIN file : file[k].part = "GCFinished" =>
       \E i \in 1 .. k - 1 : file[i] = Fragment("GCStarted", "item", file[k].id)
=============================================================================
