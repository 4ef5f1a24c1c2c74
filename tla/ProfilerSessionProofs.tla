----------------------- MODULE ProfilerSessionProofs -----------------------
(***************************************************************************)
(* Proofs about ProfilerSession, for any functions, modes and bounds, and  *)
(* whether or not callbacks overtake Shutdown.                             *)
(***************************************************************************)
EXTENDS ProfilerSession, SequenceTheorems, FiniteSetTheorems, TLAPS

-----------------------------------------------------------------------------
(* The life of the profiler's object.                                      *)

\* The runtime holds a reference from CreateInstance until Shutdown returned,
\* and by then the global is cleared.
LifeInv ==
  /\ references \in Nat /\ _refCount = references
  /\ pc = "unloaded" => references = 0
  /\ pc \notin {"unloaded", "done"} => references > 0
  /\ pc \in {"unloaded", "done"} => ~g_CoreProfiler

Steady == UNCHANGED <<object, g_CoreProfiler, pc>>

LEMMA CallbackSteady == ASSUME Callback PROVE Steady
<1>1. ASSUME NEW f \in Functions, Mapper(f) \/ Enter(f) PROVE Steady
  BY <1>1 DEF Mapper, Enter, Steady
<1> QED
  BY <1>1 DEF Callback, ObjectAllocated, GarbageCollectionStarted,
              GarbageCollectionFinished, DoLog, writer, Steady

LEMMA LifeStepInv == ASSUME LifeInv, [Next]_vars PROVE LifeInv'
<1>1. CASE LifeStep
  <2>1. ASSUME NEW known \in BOOLEAN, CreateInstance(known) PROVE LifeInv'
    BY <2>1 DEF LifeInv, CreateInstance, Released
  <2>2. CASE QueryInterface
    BY <2>2 DEF LifeInv, QueryInterface, AddRef, writer
  <2>3. CASE Release
    BY <2>3 DEF LifeInv, Release, Released, writer
  <2>4. CASE Initialize
    BY <2>4 DEF LifeInv, Initialize, OpenLog, object
  <2> QED
    BY <1>1, <2>1, <2>2, <2>3, <2>4 DEF LifeStep
<1>2. CASE Callback
  BY <1>2, CallbackSteady DEF LifeInv, Steady, object
<1>3. CASE ShutdownBegin
  BY <1>3 DEF LifeInv, ShutdownBegin, Following, unwritten, object
<1>4. CASE ShutdownStep
  <2>1. ASSUME NEW section \in Sections, WriteSection(section) PROVE LifeInv'
    BY <2>1 DEF LifeInv, WriteSection, Following, Sections, unwritten, object
  <2>2. CASE WriteEnd \/ ClearMaps \/ Term \/ ReleaseInfo
    BY <2>2 DEF LifeInv, WriteEnd, ClearMaps, Term, ReleaseInfo, unwritten, object
  <2>3. CASE Return
    BY <2>3 DEF LifeInv, Return, ClearGlobal, unwritten, object
  <2> QED
    BY <1>4, <2>1, <2>2, <2>3 DEF ShutdownStep
<1>5. CASE UNCHANGED vars
  BY <1>5 DEF LifeInv, vars, object, writer
<1> QED
  BY <1>1, <1>2, <1>3, <1>4, <1>5 DEF Next

\* The reference count of the profiler is the number of references that the
\* runtime holds: it is deleted when the last one goes, and not before.
THEOREM ReferencesAreCounted == Spec => []HeldIsCounted
<1>1. Init => LifeInv
  BY DEF Init, LifeInv
<1>2. LifeInv => HeldIsCounted
  BY DEF LifeInv, HeldIsCounted
<1> QED
  BY <1>1, <1>2, LifeStepInv, PTL DEF Spec

\* The hooks and the mapper, which know the profiler by the global only,
\* never reach a deleted one, even when they come after Shutdown.
THEOREM GlobalNeverDangles == Spec => []GlobalIsAlive
<1>1. Init => LifeInv
  BY DEF Init, LifeInv
<1>2. LifeInv => GlobalIsAlive
  BY DEF LifeInv, GlobalIsAlive
<1> QED
  BY <1>1, <1>2, LifeStepInv, PTL DEF Spec

-----------------------------------------------------------------------------
(* Types.                                                                  *)

LEMMA FragmentFields ==
  ASSUME NEW part, NEW what, NEW id
  PROVE  Fragment(part, what, id).part = part /\ Fragment(part, what, id).what = what
BY DEF Fragment

LEMMA FragmentType ==
  /\ \A section \in Sections, id \in Functions \cup Nat :
       /\ Fragment(section, "open", id) \in Fragments
       /\ Fragment(section, "item", id) \in Fragments
       /\ Fragment(section, "close", id) \in Fragments
  /\ Fragment("document", "open", 0) \in Fragments
  /\ Fragment("document", "close", 0) \in Fragments
  /\ \A n \in Nat : /\ Fragment("GCStarted", "item", n) \in Fragments
                    /\ Fragment("GCFinished", "item", n) \in Fragments
BY DEF Fragment, Fragments, Sections

LEMMA WriteType ==
  ASSUME file \in Seq(Fragments), NEW x \in Fragments, Write(x)
  PROVE  file' \in Seq(Fragments)
BY AppendProperties DEF Write

\* The next object is one more than those recorded.
LEMMA NextObject ==
  ASSUME allocated \subseteq 1 .. MaxObjects
  PROVE  Cardinality(allocated) \in Nat
<1>1. IsFiniteSet(1 .. MaxObjects)
  BY BoundAssumption, FS_Interval
<1>2. IsFiniteSet(allocated)
  BY <1>1, FS_Subset
<1> QED
  BY <1>2, FS_CardinalityType

LEMMA OneLine ==
  ASSUME NEW x \in Fragments
  PROVE  <<x>> \in Seq(Fragments) /\ Len(<<x>>) <= 1
OBVIOUS

LEMMA JoinsType ==
  ASSUME TypeOK, NEW section, NEW id \in Functions \cup 1 .. MaxObjects,
         Joins(section, id)
  PROVE  todo' \subseteq Functions \cup 1 .. MaxObjects
BY DEF TypeOK, Joins

LEMMA CallbackType == ASSUME TypeOK, Callback PROVE TypeOK'
<1>1. ASSUME NEW f \in Functions, Mapper(f) PROVE TypeOK'
  <2>1. todo' \subseteq Functions \cup 1 .. MaxObjects
    BY <1>1, JoinsType DEF Mapper, Crash, TypeOK
  <2>2. /\ m_functionMap' \subseteq Functions /\ hooked' \subseteq Functions
        /\ fault' \in {"none", "exception", "info", "deleted"}
        /\ UNCHANGED <<nullEntries, called, allocated, gcNumber, line, collecting>>
    BY <1>1 DEF Mapper, Crash, records, TypeOK, Mapped, Reached
  <2> QED
    BY <1>1, <2>1, <2>2 DEF Mapper, TypeOK, object, log
<1>2. ASSUME NEW f \in Functions, Enter(f) PROVE TypeOK'
  <2>1. todo' \subseteq Functions \cup 1 .. MaxObjects
    BY <1>2, JoinsType DEF Enter, Crash, TypeOK
  <2>2. /\ called' \cup nullEntries' \subseteq Functions
        /\ fault' \in {"none", "exception", "info", "deleted"}
    BY <1>2 DEF Enter, Crash, records, TypeOK
  <2> QED
    BY <1>2, <2>1, <2>2 DEF Enter, TypeOK, object, log, runtime
<1>3. CASE ObjectAllocated
  <2> DEFINE o == Cardinality(allocated) + 1
  <2>1. o \in 1 .. MaxObjects
    <3>1. Cardinality(allocated) \in Nat
      BY NextObject DEF TypeOK
    <3>2. o <= MaxObjects
      BY <1>3 DEF ObjectAllocated
    <3> QED
      BY <3>1, <3>2, BoundAssumption
  <2>2. /\ \/ Joins("Objects", o) /\ allocated' = allocated \cup {o} /\ UNCHANGED fault
           \/ UNCHANGED <<todo, allocated>> /\ fault' = Reached
        /\ UNCHANGED <<m_functionMap, nullEntries, called, gcNumber, hooked, line,
                      collecting>>
    BY <1>3 DEF ObjectAllocated, Crash, records
  <2> HIDE DEF o
  <2>3. todo' \subseteq Functions \cup 1 .. MaxObjects
    BY <2>1, <2>2, JoinsType DEF TypeOK
  <2>4. /\ allocated' \subseteq 1 .. MaxObjects
        /\ fault' \in {"none", "exception", "info", "deleted"}
    BY <2>1, <2>2 DEF TypeOK, Reached
  <2> QED
    BY <1>3, <2>2, <2>3, <2>4 DEF ObjectAllocated, TypeOK, object, log
<1>4. CASE GarbageCollectionStarted
  <2>1. gcNumber \in Nat /\ gcNumber + 1 \in Nat
    BY DEF TypeOK
  <2>2. /\ gcNumber' \in Nat /\ collecting' \in BOOLEAN
        /\ fault' \in {"none", "exception", "info", "deleted"}
        /\ UNCHANGED <<records, hooked, todo>>
    BY <1>4, <2>1 DEF GarbageCollectionStarted, Crash, TypeOK, Reached
  <2>3. line' = line \/ line' = <<Fragment("GCStarted", "item", gcNumber + 1)>>
    BY <1>4 DEF GarbageCollectionStarted, Crash, LineNumber
  <2>4. line' \in Seq(Fragments) /\ Len(line') <= 1
    <3>1. line \in Seq(Fragments) /\ Len(line) <= 1
      BY DEF TypeOK
    <3> QED
      BY <2>1, <2>3, <3>1, FragmentType, OneLine
  <2> QED
    BY <1>4, <2>2, <2>4 DEF GarbageCollectionStarted, TypeOK, object, log, records
<1>5. CASE GarbageCollectionFinished
  <2>1. gcNumber \in Nat
    BY DEF TypeOK
  <2>2. /\ collecting' \in BOOLEAN
        /\ fault' \in {"none", "exception", "info", "deleted"}
        /\ UNCHANGED <<records, gcNumber, hooked, todo>>
    BY <1>5, <2>1 DEF GarbageCollectionFinished, Crash, TypeOK, Reached
  <2>3. line' = line \/ line' = <<Fragment("GCFinished", "item", gcNumber)>>
    BY <1>5 DEF GarbageCollectionFinished, Crash
  <2>4. line' \in Seq(Fragments) /\ Len(line') <= 1
    <3>1. line \in Seq(Fragments) /\ Len(line) <= 1
      BY DEF TypeOK
    <3> QED
      BY <2>1, <2>3, <3>1, FragmentType, OneLine
  <2> QED
    BY <1>5, <2>2, <2>4 DEF GarbageCollectionFinished, TypeOK, object, log, records
<1>6. CASE DoLog
  <2>1. file' \in Seq(Fragments) /\ line' = <<>>
    BY <1>6, WriteType DEF DoLog, TypeOK
  <2> QED
    BY <1>6, <2>1 DEF DoLog, TypeOK, object, records, writer
<1> QED
  BY <1>1, <1>2, <1>3, <1>4, <1>5, <1>6 DEF Callback

LEMMA LifeType == ASSUME TypeOK, LifeInv, LifeStep PROVE TypeOK'
<1>1. ASSUME NEW known \in BOOLEAN, CreateInstance(known) PROVE TypeOK'
  <2>1. _refCount' \in {0, 1} /\ references' \in 0 .. MaxRefs
    BY <1>1, BoundAssumption DEF CreateInstance, Released
  <2> QED
    BY <1>1, <2>1 DEF TypeOK, CreateInstance, records, log, runtime
<1>2. CASE QueryInterface
  BY <1>2, BoundAssumption
     DEF TypeOK, QueryInterface, AddRef, records, writer, log, runtime
<1>3. CASE Release
  <2>1. _refCount' \in Nat /\ references' \in 0 .. MaxRefs
    BY <1>3, BoundAssumption DEF TypeOK, LifeInv, Release, Released
  <2> QED
    BY <1>3, <2>1 DEF TypeOK, Release, records, writer, log, runtime
<1>4. CASE Initialize
  <2>1. file' \in Seq(Fragments)
    BY <1>4, FragmentType, OneLine DEF Initialize, OpenLog
  <2> QED
    BY <1>4, <2>1 DEF TypeOK, Initialize, OpenLog, object, records, runtime
<1> QED
  BY <1>1, <1>2, <1>3, <1>4 DEF LifeStep

LEMMA SectionType ==
  ASSUME TypeOK, NEW section \in Sections, WriteSection(section)
  PROVE  TypeOK'
<1>1. Items[section] \subseteq Functions \cup 1 .. MaxObjects
  <2>1. called \cup allocated \cup m_functionMap \subseteq Functions \cup 1 .. MaxObjects
    BY DEF TypeOK
  <2>2. Items[section] \in {called, allocated, m_functionMap}
    BY DEF Items, Sections
  <2> QED
    BY <2>1, <2>2
<1>2. \A id \in todo : Fragment(section, "item", id) \in Fragments
  <2>1. \A id \in todo : id \in Functions \cup Nat
    BY DEF TypeOK
  <2> QED
    BY <2>1, FragmentType
<1>3. file' \in Seq(Fragments)
  BY <1>2, WriteType, FragmentType DEF TypeOK, WriteSection, Closing
<1>4. /\ pc' \in {pc} \cup Sections \cup {"document"}
      /\ inside' \in BOOLEAN /\ todo' \subseteq Functions \cup 1 .. MaxObjects
  <2>1. Following[section] \in Sections \cup {"document"}
    BY DEF Following, Sections
  <2>2. inside \in BOOLEAN /\ todo \subseteq Functions \cup 1 .. MaxObjects
    BY DEF TypeOK
  <2> QED
    BY <1>1, <2>1, <2>2 DEF WriteSection
<1> QED
  BY <1>3, <1>4 DEF TypeOK, WriteSection, unwritten, object, records, runtime, Steps

LEMMA ShutdownType == ASSUME TypeOK, ShutdownBegin \/ ShutdownStep PROVE TypeOK'
<1>1. CASE ShutdownBegin
  BY <1>1 DEF TypeOK, ShutdownBegin, Following, unwritten, object, records, runtime, log, Steps,
              Sections
<1>2. CASE WriteEnd
  BY <1>2, FragmentType, WriteType
     DEF TypeOK, WriteEnd, unwritten, object, records, runtime, Steps
<1>3. CASE ClearMaps
  BY <1>3 DEF TypeOK, ClearMaps, object, runtime, log, Steps
<1>4. CASE Term \/ ReleaseInfo \/ Return
  BY <1>4 DEF TypeOK, Term, ReleaseInfo, Return, ClearGlobal, unwritten, object,
              records, runtime, log, Steps
<1> QED
  BY <1>1, <1>2, <1>3, <1>4, SectionType DEF ShutdownStep

LEMMA StepType == ASSUME TypeOK, LifeInv, [Next]_vars PROVE TypeOK'
<1>1. CASE UNCHANGED vars
  BY <1>1 DEF TypeOK, vars, object, records, writer, log, runtime
<1> QED
  BY <1>1, CallbackType, LifeType, ShutdownType DEF Next

\* Every variable of the session keeps its type: what is in the log is made
\* of the fragments the writers know.
THEOREM TypeCorrect == Spec => []TypeOK
<1>1. Init => TypeOK /\ LifeInv
  <2> SUFFICES ASSUME Init PROVE TypeOK /\ LifeInv
    OBVIOUS
  <2>1. _refCount \in Nat /\ references \in 0 .. MaxRefs /\ gcNumber \in Nat
    BY BoundAssumption DEF Init
  <2>2. <<>> \in Seq(Fragments) /\ Len(<<>>) <= 1
    OBVIOUS
  <2>3. TypeOK
    BY <2>1, <2>2 DEF Init, TypeOK
  <2> QED
    BY <2>3 DEF Init, LifeInv
<1>2. TypeOK /\ LifeInv /\ [Next]_vars => (TypeOK /\ LifeInv)'
  BY StepType, LifeStepInv
<1> QED
  BY <1>1, <1>2, PTL DEF Spec

-----------------------------------------------------------------------------
(* The document.  That every line fits behind the one before it is made    *)
(* inductive by saying which part is open at each step of Shutdown, and    *)
(* that no collection has a line in hand once Shutdown began.              *)

Begun == pc \notin {"unloaded", "created"}

\* The part of the document that is open.
Open ==
  IF pc \in Sections THEN IF inside THEN pc ELSE "document"
  ELSE IF pc \in {"running", "document"} THEN "document" ELSE "end"

\* A line that a collection has in hand is a member of the document.
LineInv ==
  line # <<>> => /\ line[1] \in Fragments /\ line[1].what = "item"
                 /\ Level(line[1]) = "document"

OrderInv ==
  /\ LineInv
  /\ pc \notin Sections => ~inside
  /\ pc \in {"running", "document"} \cup Sections => isOpen
  /\ ~late => LinesInTheirParts
  /\ ~late /\ Begun => file # <<>> /\ Level(file[Len(file)]) = Open
  /\ ~late /\ Begun /\ pc # "running" => line = <<>> /\ ~collecting

\* A fragment that fits behind the last one keeps the document in order.
LEMMA AppendFits ==
  ASSUME file \in Seq(Fragments), file # <<>>, LinesInTheirParts, isOpen,
         NEW x \in Fragments, Write(x), Fits(x, Level(file[Len(file)]))
  PROVE  LinesInTheirParts' /\ file' # <<>> /\ Level(file'[Len(file')]) = Level(x)
<1> DEFINE n == Len(file)
<1>1. file' = Append(file, x)
  BY DEF Write
<1>2. n \in Nat \ {0} /\ DOMAIN file = 1 .. n
  BY LenProperties, EmptySeq
<1>3. /\ DOMAIN file' = 1 .. n + 1 /\ Len(file') = n + 1 /\ file' # <<>>
      /\ file'[n + 1] = x /\ \A i \in 1 .. n : file'[i] = file[i]
  BY <1>1, <1>2, AppendProperties, LenProperties
<1> HIDE DEF n
<1>4. ASSUME NEW i \in DOMAIN file'
      PROVE  IF i = 1 THEN file'[i] = Fragment("document", "open", 0)
             ELSE Fits(file'[i], Level(file'[i - 1]))
  <2>1. CASE i = n + 1
    BY <1>2, <1>3, <2>1 DEF n
  <2>2. CASE i \in 1 .. n
    <3>1. file'[i] = file[i] /\ (i # 1 => file'[i - 1] = file[i - 1])
      BY <1>2, <1>3, <2>2
    <3> QED
      BY <1>2, <2>2, <3>1 DEF LinesInTheirParts
  <2> QED
    BY <1>2, <1>3, <2>1, <2>2
<1> QED
  BY <1>3, <1>4 DEF LinesInTheirParts

LEMMA OrderCallback ==
  ASSUME TypeOK, OrderInv, Callback
  PROVE  OrderInv'
<1> USE DEF LineInv
<1>1. UNCHANGED <<pc, inside, isOpen, late>> /\ (late \/ pc = "running")
  <2>1. ASSUME NEW f \in Functions, Mapper(f) \/ Enter(f)
        PROVE  UNCHANGED <<pc, inside, isOpen, late>> /\ (late \/ pc = "running")
    BY <2>1 DEF Mapper, Enter, Executes, Alive, log, runtime
  <2> QED
    BY <2>1 DEF Callback, ObjectAllocated, GarbageCollectionStarted,
                GarbageCollectionFinished, DoLog, Executes, Alive, writer, log
<1>2. CASE UNCHANGED <<file, line>>
  BY <1>1, <1>2 DEF OrderInv, Begun, Open, LinesInTheirParts
<1>3. CASE GarbageCollectionStarted \/ GarbageCollectionFinished
  <2>1. file' = file
    BY <1>3 DEF GarbageCollectionStarted, GarbageCollectionFinished, log
  <2>2. gcNumber \in Nat /\ gcNumber + 1 \in Nat
    BY DEF TypeOK
  <2>3. line' \in {line, <<Fragment("GCStarted", "item", gcNumber + 1)>>,
                   <<Fragment("GCFinished", "item", gcNumber)>>}
    BY <1>3 DEF GarbageCollectionStarted, GarbageCollectionFinished, Crash, LineNumber
  <2>4. LineInv'
    <3>1. CASE line' = line
      BY <3>1 DEF OrderInv
    <3>2. ASSUME NEW part \in {"GCStarted", "GCFinished"}, NEW number \in Nat,
                 line' = <<Fragment(part, "item", number)>>
          PROVE  LineInv'
      <4> DEFINE x == Fragment(part, "item", number)
      <4>1. x \in Fragments /\ x.what = "item" /\ Level(x) = "document"
        BY FragmentType, FragmentFields DEF Level, Sections
      <4> HIDE DEF x
      <4>2. line' = <<x>>
        BY <3>2 DEF x
      <4>3. line'[1] = x
        BY <4>2
      <4> QED
        BY <4>1, <4>3 DEF Level
    <3> QED
      BY <2>2, <2>3, <3>1, <3>2
  <2> QED
    BY <1>1, <2>1, <2>4 DEF OrderInv, Begun, Open, LinesInTheirParts
<1>4. CASE DoLog
  <2>1. line' = <<>> /\ Write(line[1]) /\ line # <<>>
    BY <1>4 DEF DoLog
  <2>2. line[1] \in Fragments /\ line[1].what = "item" /\ Level(line[1]) = "document"
    BY <2>1 DEF OrderInv
  <2>3. CASE late
    BY <1>1, <2>1, <2>3 DEF OrderInv
  <2>4. CASE ~late
    <3>1. /\ pc = "running" /\ Begun /\ isOpen /\ LinesInTheirParts
          /\ file # <<>> /\ Level(file[Len(file)]) = "document"
      BY <1>1, <2>4 DEF OrderInv, Begun, Open, Sections
    <3>2. Fits(line[1], Level(file[Len(file)]))
      BY <2>2, <3>1 DEF Fits
    <3>3. /\ LinesInTheirParts' /\ file' # <<>>
          /\ Level(file'[Len(file')]) = "document"
      BY <2>1, <2>2, <3>1, <3>2, AppendFits DEF TypeOK
    <3> QED
      BY <1>1, <2>1, <3>1, <3>3 DEF OrderInv, Begun, Open, Sections
  <2> QED
    BY <2>3, <2>4
<1>5. ASSUME NEW f \in Functions, Mapper(f) \/ Enter(f) PROVE UNCHANGED <<file, line>>
  BY <1>5 DEF Mapper, Enter, Crash, log, runtime
<1>6. CASE ObjectAllocated
  BY <1>2, <1>6 DEF ObjectAllocated, Crash, log
<1> QED
  BY <1>2, <1>3, <1>4, <1>5, <1>6 DEF Callback

LEMMA OrderLife ==
  ASSUME TypeOK, OrderInv, LifeStep
  PROVE  OrderInv'
<1> USE DEF LineInv
<1>1. ASSUME NEW known \in BOOLEAN, CreateInstance(known) PROVE OrderInv'
  BY <1>1 DEF OrderInv, CreateInstance, Begun, Open, LinesInTheirParts, log,
              runtime, Sections
<1>2. CASE QueryInterface \/ Release
  BY <1>2 DEF OrderInv, QueryInterface, Release, Begun, Open, LinesInTheirParts,
              writer, log, runtime
<1>3. CASE Initialize
  <2> DEFINE x == Fragment("document", "open", 0)
  <2>1. /\ file' = <<x>> /\ isOpen' /\ pc' \in {"running", "created"}
        /\ UNCHANGED <<inside, line, late>> /\ pc = "created"
    BY <1>3 DEF Initialize, OpenLog, runtime
  <2>2. Level(x) = "document"
    BY DEF Level, Fragment, Sections
  <2> HIDE DEF x
  <2>3. file' # <<>> /\ file'[Len(file')] = x /\ DOMAIN file' = {1} /\ file'[1] = x
    BY <2>1
  <2>4. LinesInTheirParts'
    BY <2>3 DEF LinesInTheirParts, x
  <2> QED
    BY <2>1, <2>2, <2>3, <2>4 DEF OrderInv, Begun, Open, Sections
<1> QED
  BY <1>1, <1>2, <1>3 DEF LifeStep

LEMMA OrderSection ==
  ASSUME TypeOK, OrderInv, NEW section \in Sections, WriteSection(section)
  PROVE  OrderInv'
<1> USE DEF LineInv
<1>1. /\ pc = section /\ isOpen /\ UNCHANGED <<isOpen, late, line, collecting>> /\ Begun
      /\ Begun' /\ inside \in BOOLEAN /\ pc' \in Sections \cup {"document"}
  BY DEF WriteSection, OrderInv, unwritten, runtime, Begun, Sections, Following, TypeOK
<1>2. CASE late
  BY <1>1, <1>2 DEF OrderInv, WriteSection, Following, Sections
<1>3. CASE ~late
  <2>1. /\ LinesInTheirParts /\ file \in Seq(Fragments) /\ file # <<>>
        /\ Level(file[Len(file)]) = (IF inside THEN section ELSE "document")
        /\ line = <<>> /\ ~collecting
    BY <1>1, <1>3 DEF OrderInv, Open, TypeOK, Begun, Sections
  <2>2. PICK x \in Fragments :
          /\ Write(x) /\ x.part = section
          /\ \/ x.what = "open" /\ ~inside /\ inside' /\ pc' = pc
             \/ x.what = "item" /\ inside /\ inside' = inside /\ pc' = pc
             \/ /\ x.what = "close" /\ inside /\ ~inside'
                /\ pc' \in Sections \cup {"document"}
    <3>1. ASSUME NEW what \in {"open", "item", "close"}, NEW id \in Functions \cup Nat
          PROVE  /\ Fragment(section, what, id) \in Fragments
                 /\ Fragment(section, what, id).part = section
                 /\ Fragment(section, what, id).what = what
      BY FragmentType, FragmentFields
    <3>2. CASE ~inside
      <4>1. Write(Fragment(section, "open", 0)) /\ inside' /\ pc' = pc
        BY <3>2 DEF WriteSection
      <4> QED
        BY <3>1, <3>2, <4>1
    <3>3. CASE inside /\ inside'
      <4>1. PICK id \in todo :
              Write(Fragment(section, "item", id)) /\ pc' = pc /\ inside' = inside
        BY <3>3 DEF WriteSection
      <4>2. id \in Functions \cup Nat
        BY DEF TypeOK
      <4> QED
        BY <3>1, <3>3, <4>1, <4>2
    <3>4. CASE inside /\ ~inside'
      <4>1. Write(Fragment(section, "close", 0))
        BY <3>4 DEF WriteSection, Closing
      <4> QED
        BY <1>1, <3>1, <3>4, <4>1
    <3> QED
      BY <1>1, <3>2, <3>3, <3>4
  <2>3. Fits(x, Level(file[Len(file)]))
    BY <2>1, <2>2 DEF Fits, Level
  <2>4. /\ LinesInTheirParts' /\ file' # <<>>
        /\ Level(file'[Len(file')]) = Level(x)
    BY <1>1, <2>1, <2>2, <2>3, AppendFits
  <2>5. Level(x) = Open'
    BY <1>1, <2>2 DEF Level, Open, Sections
  <2> QED
    BY <1>1, <2>1, <2>2, <2>4, <2>5 DEF OrderInv, Sections
<1> QED
  BY <1>2, <1>3

LEMMA OrderShutdown ==
  ASSUME TypeOK, OrderInv, ShutdownBegin \/ ShutdownStep
  PROVE  OrderInv'
<1> USE DEF LineInv
<1>1. CASE ShutdownBegin
  BY <1>1 DEF OrderInv, ShutdownBegin, Following, unwritten, runtime, log, Begun, Open,
              LinesInTheirParts, Sections
<1>2. CASE WriteEnd
  <2> DEFINE x == Fragment("document", "close", 0)
  <2>1. /\ pc = "document" /\ pc' = "clear" /\ Write(x) /\ isOpen /\ ~inside /\ ~inside'
        /\ UNCHANGED <<late, line, collecting>>
    BY <1>2 DEF WriteEnd, OrderInv, unwritten, runtime, Sections
  <2>2. x \in Fragments /\ Level(x) = "end" /\ Fits(x, "document")
    BY FragmentType DEF Level, Fits, Fragment
  <2> HIDE DEF x
  <2>3. CASE late
    BY <2>1, <2>3 DEF OrderInv, Sections
  <2>4. CASE ~late
    <3>1. /\ file \in Seq(Fragments) /\ file # <<>> /\ LinesInTheirParts
          /\ Level(file[Len(file)]) = "document" /\ line = <<>> /\ ~collecting
      BY <2>1, <2>4 DEF OrderInv, Open, Begun, TypeOK, Sections
    <3>2. LinesInTheirParts' /\ file' # <<>> /\ Level(file'[Len(file')]) = "end"
      BY <2>1, <2>2, <3>1, AppendFits
    <3> QED
      BY <2>1, <2>4, <3>1, <3>2 DEF OrderInv, Open, Begun, Sections
  <2> QED
    BY <2>3, <2>4
<1>3. CASE ClearMaps
  BY <1>3 DEF OrderInv, ClearMaps, runtime, log, Begun, Open, LinesInTheirParts, Sections
<1>4. CASE Term \/ ReleaseInfo \/ Return
  BY <1>4 DEF OrderInv, Term, ReleaseInfo, Return, unwritten, runtime, log, Begun,
              Open, LinesInTheirParts, Sections
<1> QED
  BY <1>1, <1>2, <1>3, <1>4, OrderSection DEF ShutdownStep

LEMMA OrderStep == ASSUME TypeOK, OrderInv, [Next]_vars PROVE OrderInv'
<1>1. CASE UNCHANGED vars
  BY <1>1 DEF OrderInv, LineInv, vars, writer, log, runtime, Begun, Open,
              LinesInTheirParts
<1> QED
  BY <1>1, OrderCallback, OrderLife, OrderShutdown DEF Next

\* When no collection overlaps Shutdown the log is one JSON document at every
\* moment, as far as it got: each line, of whatever writer, stands in the
\* part it belongs to.
THEOREM LogIsOrderly == Spec => []OrderlyLog
<1>1. Init => OrderInv
  BY DEF Init, OrderInv, LineInv, LinesInTheirParts, Begun, Sections
<1>2. OrderInv => OrderlyLog
  BY DEF OrderInv, OrderlyLog
<1> QED
  BY <1>1, <1>2, OrderStep, TypeCorrect, PTL DEF Spec
-----------------------------------------------------------------------------
(* The names.  What is proved about is the set of functions that have a    *)
(* call in the log and no name yet: it stays within what Shutdown has      *)
(* still to name.                                                          *)

Unnamed ==
  {id \in Functions \cup Nat :
     /\ \E i \in DOMAIN file :
          file[i].part = "functions" /\ file[i].what = "item" /\ file[i].id = id
     /\ ~\E k \in DOMAIN file : file[k] = Fragment("functionNames", "item", id)}

\* The functions that Shutdown is still going to name.
ToName ==
  IF pc = "functionNames" /\ inside THEN todo
  ELSE IF pc \in {"unloaded", "created", "running"} \cup Sections THEN m_functionMap
  ELSE {}

NameInv ==
  /\ called \subseteq m_functionMap
  /\ pc = "functions" /\ inside => todo \subseteq called
  /\ Unnamed \subseteq ToName

\* What a fragment does to the set: an item of the calls may add its function,
\* an item of the names takes its function away.
LEMMA WriteUnnamed ==
  ASSUME file \in Seq(Fragments), NEW x \in Fragments, Write(x)
  PROVE  /\ x.part = "functions" /\ x.what = "item" => Unnamed' \subseteq Unnamed \cup {x.id}
         /\ ~(x.part = "functions" /\ x.what = "item") => Unnamed' \subseteq Unnamed
         /\ isOpen /\ x = Fragment("functionNames", "item", x.id) => x.id \notin Unnamed'
<1>1. CASE ~isOpen
  BY <1>1 DEF Write, Unnamed
<1>2. CASE isOpen
  <2> DEFINE n == Len(file)
  <2>1. file' = Append(file, x)
    BY <1>2 DEF Write
  <2>2. n \in Nat /\ DOMAIN file = 1 .. n
    BY LenProperties
  <2>3. /\ DOMAIN file' = 1 .. n + 1 /\ file'[n + 1] = x
        /\ \A i \in 1 .. n : file'[i] = file[i]
    BY <2>1, <2>2, AppendProperties, LenProperties
  <2> HIDE DEF n
  <2>4. \A i \in DOMAIN file' : file'[i] = x \/ (i \in DOMAIN file /\ file'[i] = file[i])
    BY <2>2, <2>3
  <2>5. \A i \in DOMAIN file : i \in DOMAIN file' /\ file'[i] = file[i]
    BY <2>2, <2>3
  <2>6. \E i \in DOMAIN file' : file'[i] = x
    BY <2>2, <2>3
  <2>7. ASSUME NEW id \in Unnamed', ~(x.part = "functions" /\ x.what = "item" /\ x.id = id)
        PROVE  id \in Unnamed
    BY <2>4, <2>5, <2>7 DEF Unnamed
  <2>8. ASSUME x = Fragment("functionNames", "item", x.id) PROVE x.id \notin Unnamed'
    BY <2>6, <2>8 DEF Unnamed
  <2> QED
    BY <2>7, <2>8
<1> QED
  BY <1>1, <1>2

LEMMA NameCallback ==
  ASSUME TypeOK, OrderInv, NameInv, Callback
  PROVE  NameInv'
<1>1. ASSUME NEW f \in Functions, Mapper(f) PROVE NameInv'
  <2>1. /\ UNCHANGED <<file, pc, inside, called>> /\ m_functionMap \subseteq m_functionMap'
        /\ todo \subseteq todo' /\ (pc # "functionNames" => todo' = todo)
    BY <1>1 DEF Mapper, Crash, Mapped, Joins, records, log
  <2> QED
    BY <2>1 DEF NameInv, Unnamed, ToName
<1>2. ASSUME NEW f \in Functions, Enter(f) PROVE NameInv'
  <2>1. /\ UNCHANGED <<file, pc, inside, m_functionMap>> /\ todo \subseteq todo'
        /\ called \subseteq called' /\ called' \subseteq m_functionMap
        /\ pc = "functions" /\ inside => todo' \subseteq todo \cup called'
    BY <1>2 DEF Enter, Crash, Joins, records, log, NameInv
  <2> QED
    BY <2>1 DEF NameInv, Unnamed, ToName
<1>3. CASE ObjectAllocated
  <2>1. /\ UNCHANGED <<file, pc, inside, called, m_functionMap>>
        /\ todo \subseteq todo' /\ (pc # "Objects" => todo' = todo)
    BY <1>3 DEF ObjectAllocated, Crash, Joins, records, log
  <2> QED
    BY <2>1 DEF NameInv, Unnamed, ToName
<1>4. CASE GarbageCollectionStarted \/ GarbageCollectionFinished
  <2>1. UNCHANGED <<file, pc, inside, called, m_functionMap, todo>>
    BY <1>4 DEF GarbageCollectionStarted, GarbageCollectionFinished, Crash, records, log
  <2> QED
    BY <2>1 DEF NameInv, Unnamed, ToName
<1>5. CASE DoLog
  <2>1. /\ UNCHANGED <<pc, inside, called, m_functionMap, todo>>
        /\ Write(line[1]) /\ line # <<>>
    BY <1>5 DEF DoLog, records, writer
  <2>2. line[1] \in Fragments /\ line[1].part # "functions"
    BY <2>1 DEF OrderInv, LineInv, Level, Sections
  <2>3. Unnamed' \subseteq Unnamed
    BY <2>1, <2>2, WriteUnnamed DEF TypeOK
  <2> QED
    BY <2>1, <2>3 DEF NameInv, ToName
<1> QED
  BY <1>1, <1>2, <1>3, <1>4, <1>5 DEF Callback

LEMMA NameLife ==
  ASSUME NameInv, OrderInv, LifeStep
  PROVE  NameInv'
<1>1. ASSUME NEW known \in BOOLEAN, CreateInstance(known) PROVE NameInv'
  BY <1>1 DEF NameInv, Unnamed, ToName, CreateInstance, records, log
<1>2. CASE QueryInterface \/ Release
  BY <1>2 DEF NameInv, Unnamed, ToName, QueryInterface, Release, records, writer, log
<1>3. CASE Initialize
  <2>1. /\ UNCHANGED <<inside, called, m_functionMap, todo>> /\ pc = "created"
        /\ pc' \in {"created", "running"} /\ file' = <<Fragment("document", "open", 0)>>
    BY <1>3 DEF Initialize, OpenLog, records
  <2>2. Unnamed' = {}
    BY <2>1, FragmentFields DEF Unnamed
  <2> QED
    BY <2>1, <2>2 DEF NameInv, ToName
<1> QED
  BY <1>1, <1>2, <1>3 DEF LifeStep

LEMMA NameSection ==
  ASSUME TypeOK, OrderInv, NameInv, NEW section \in Sections, WriteSection(section)
  PROVE  NameInv'
<1>1. /\ pc = section /\ isOpen /\ UNCHANGED <<called, m_functionMap>>
      /\ inside \in BOOLEAN /\ file \in Seq(Fragments)
  BY DEF WriteSection, OrderInv, unwritten, records, TypeOK
<1>2. ASSUME NEW what \in {"open", "item", "close"}, NEW id \in Functions \cup Nat,
             Write(Fragment(section, what, id))
      PROVE  /\ section # "functions" \/ what # "item" => Unnamed' \subseteq Unnamed
             /\ Unnamed' \subseteq Unnamed \cup {id}
             /\ section = "functionNames" /\ what = "item" => id \notin Unnamed'
  <2> DEFINE x == Fragment(section, what, id)
  <2>1. x \in Fragments /\ Write(x)
    BY <1>2, FragmentType
  <2>2. x.part = section /\ x.what = what /\ x.id = id
    BY DEF Fragment
  <2>3. section = "functionNames" /\ what = "item" =>
          x = Fragment("functionNames", "item", x.id)
    BY <2>2
  <2> HIDE DEF x
  <2> QED
    BY <1>1, <2>1, <2>2, <2>3, WriteUnnamed
<1>3. CASE ~inside
  <2>1. /\ Write(Fragment(section, "open", 0)) /\ inside' = TRUE /\ pc' = pc
        /\ todo' = Items[section]
    BY <1>3 DEF WriteSection
  <2>2. /\ section = "functions" => Items[section] = called
        /\ section = "functionNames" => Items[section] = m_functionMap
    BY DEF Items
  <2>3. Unnamed' \subseteq Unnamed
    BY <1>2, <2>1
  <2> QED
    BY <1>1, <1>3, <2>1, <2>2, <2>3 DEF NameInv, ToName, Sections
<1>4. ASSUME NEW id \in todo, inside, Write(Fragment(section, "item", id)),
             todo' = todo \ {id}, UNCHANGED <<pc, inside>>
      PROVE  NameInv'
  <2>1. id \in Functions \cup Nat
    BY DEF TypeOK
  <2>2. /\ section # "functions" => Unnamed' \subseteq Unnamed
        /\ Unnamed' \subseteq Unnamed \cup {id}
        /\ section = "functionNames" => id \notin Unnamed'
    BY <1>2, <1>4, <2>1
  <2> QED
    BY <1>1, <1>4, <2>2 DEF NameInv, ToName, Sections
<1>5. CASE inside /\ todo = {} /\ Write(Closing(section)) /\ ~inside'
           /\ pc' = Following[section] /\ UNCHANGED todo
  <2>1. Unnamed' \subseteq Unnamed
    BY <1>2, <1>5 DEF Closing
  <2>2. /\ section = "functionNames" => pc' = "document"
        /\ section # "functionNames" => pc' \in Sections
    BY <1>5 DEF Following, Sections
  <2> QED
    BY <1>1, <1>5, <2>1, <2>2 DEF NameInv, ToName, Sections
<1> QED
  BY <1>1, <1>3, <1>4, <1>5 DEF WriteSection

LEMMA NameShutdown ==
  ASSUME TypeOK, OrderInv, NameInv, ShutdownBegin \/ ShutdownStep
  PROVE  NameInv'
<1>1. CASE ShutdownBegin
  BY <1>1 DEF NameInv, OrderInv, Unnamed, ToName, ShutdownBegin, Following, unwritten,
              records, log, Sections
<1>2. CASE WriteEnd
  <2>1. /\ Write(Fragment("document", "close", 0)) /\ pc = "document" /\ pc' = "clear"
        /\ UNCHANGED <<called, m_functionMap>>
    BY <1>2 DEF WriteEnd, unwritten, records
  <2>2. Unnamed' \subseteq Unnamed
    BY <2>1, FragmentType, FragmentFields, WriteUnnamed DEF TypeOK
  <2> QED
    BY <2>1, <2>2 DEF NameInv, ToName, Sections
<1>3. CASE ClearMaps
  BY <1>3 DEF NameInv, Unnamed, ToName, ClearMaps, log, Sections
<1>4. CASE Term \/ ReleaseInfo \/ Return
  BY <1>4 DEF NameInv, Unnamed, ToName, Term, ReleaseInfo, Return, unwritten, records,
              log, Sections
<1> QED
  BY <1>1, <1>2, <1>3, <1>4, NameSection DEF ShutdownStep

LEMMA NameStep == ASSUME TypeOK, OrderInv, NameInv, [Next]_vars PROVE NameInv'
<1>1. CASE UNCHANGED vars
  BY <1>1 DEF NameInv, Unnamed, ToName, vars, records, writer, log
<1> QED
  BY <1>1, NameCallback, NameLife, NameShutdown DEF Next

\* Once Shutdown returned, every function with a call in the log has its name
\* there, also when callbacks mapped and called functions while it wrote.
THEOREM NamesAreComplete == Spec => []EveryFunctionIsNamed
<1>1. Init => OrderInv /\ NameInv
  BY DEF Init, OrderInv, LineInv, LinesInTheirParts, Begun, Sections, NameInv, Unnamed,
         ToName
<1>2. TypeOK /\ NameInv => EveryFunctionIsNamed
  <2> SUFFICES ASSUME TypeOK, NameInv, pc = "done", NEW i \in DOMAIN file,
                      file[i].part = "functions", file[i].what = "item"
               PROVE  \E k \in DOMAIN file :
                        file[k] = Fragment("functionNames", "item", file[i].id)
    BY DEF EveryFunctionIsNamed
  <2>1. file[i].id \in Functions \cup Nat
    <3>1. file[i] \in Fragments
      BY DEF TypeOK
    <3> QED
      BY <3>1 DEF Fragments
  <2>2. Unnamed = {}
    BY DEF NameInv, ToName, Sections
  <2> QED
    BY <2>1, <2>2 DEF Unnamed
<1> QED
  BY <1>1, <1>2, OrderStep, NameStep, TypeCorrect, PTL DEF Spec

-----------------------------------------------------------------------------
(* The collections.  A number is new when a collection takes it, since the *)
(* numbers in the log stay at or below gcNumber; and while a collection    *)
(* runs, or has its last line in hand, the line of its start is written.   *)

GCStarted(n)  == Fragment("GCStarted", "item", n)
GCFinished(n) == Fragment("GCFinished", "item", n)
Announced     == \E i \in DOMAIN file : file[i] = GCStarted(gcNumber)

LineInHand ==
  line # <<>> =>
    \/ line[1] = GCStarted(gcNumber) /\ collecting /\ ~Announced
    \/ line[1] = GCFinished(gcNumber) /\ ~collecting /\ (isOpen => Announced)

PairInv ==
  /\ CollectionsArePaired
  /\ \A i \in DOMAIN file : file[i].part = "GCStarted" =>
       \E n \in Nat : n <= gcNumber /\ file[i] = GCStarted(n)
  /\ LineInHand
  /\ collecting /\ line = <<>> /\ isOpen => Announced
  /\ ~Begun => line = <<>> /\ ~collecting

LEMMA StartFields ==
  ASSUME NEW n
  PROVE  /\ GCStarted(n).part = "GCStarted" /\ GCStarted(n).id = n
         /\ GCFinished(n).part = "GCFinished" /\ GCFinished(n).id = n
BY DEF GCStarted, GCFinished, Fragment

\* A line written to an open log is its last, and the others stay.
LEMMA AppendedLine ==
  ASSUME file \in Seq(Fragments), NEW x \in Fragments, Write(x), isOpen
  PROVE  \E n \in Nat : /\ DOMAIN file = 1 .. n /\ DOMAIN file' = 1 .. n + 1
                        /\ file'[n + 1] = x
                        /\ \A i \in 1 .. n : file'[i] = file[i]
<1>1. file' = Append(file, x)
  BY DEF Write
<1>2. PICK n : n = Len(file)
  OBVIOUS
<1>3. n \in Nat /\ DOMAIN file = 1 .. n
  BY <1>2, LenProperties
<1>4. /\ DOMAIN file' = 1 .. n + 1 /\ file'[n + 1] = x
      /\ \A i \in 1 .. n : file'[i] = file[i]
  BY <1>1, <1>2, <1>3, AppendProperties, LenProperties
<1> QED
  BY <1>3, <1>4

LEMMA PairKept ==
  ASSUME PairInv, UNCHANGED <<file, line, collecting, gcNumber>>,
         isOpen' => isOpen, ~Begun' => ~Begun
  PROVE  PairInv'
BY DEF PairInv, CollectionsArePaired, LineInHand, Announced

\* A line that is no collection's pairs nothing and parts nothing.
LEMMA PairOther ==
  ASSUME TypeOK, PairInv, NEW x \in Fragments, Write(x),
         x.part \notin {"GCStarted", "GCFinished"},
         UNCHANGED <<line, collecting, gcNumber, isOpen>>, Begun'
  PROVE  PairInv'
<1>1. CASE ~isOpen
  BY <1>1, PairKept DEF Write
<1>2. CASE isOpen
  <2>1. PICK n \in Nat : /\ DOMAIN file = 1 .. n /\ DOMAIN file' = 1 .. n + 1
                         /\ file'[n + 1] = x
                         /\ \A i \in 1 .. n : file'[i] = file[i]
    BY <1>2, AppendedLine DEF TypeOK
  <2>2. \A i \in DOMAIN file : i \in DOMAIN file' /\ file'[i] = file[i]
    BY <2>1
  <2>3. \A i \in DOMAIN file' : file'[i].part \in {"GCStarted", "GCFinished"} =>
          i \in DOMAIN file /\ file'[i] = file[i]
    BY <2>1
  <2>4. \A k \in DOMAIN file : 1 .. k - 1 \subseteq DOMAIN file
    BY <2>1
  <2>5. CollectionsArePaired'
    <3>1. ASSUME NEW i \in DOMAIN file', NEW k \in DOMAIN file', file'[i] = file'[k],
                 file'[i].part = "GCStarted"
          PROVE  i = k
      BY <2>3, <3>1 DEF PairInv, CollectionsArePaired
    <3>2. ASSUME NEW k \in DOMAIN file', file'[k].part = "GCFinished"
          PROVE  \E i \in 1 .. k - 1 : file'[i] = Fragment("GCStarted", "item", file'[k].id)
      BY <2>2, <2>3, <2>4, <3>2 DEF PairInv, CollectionsArePaired
    <3> QED
      BY <3>1, <3>2 DEF CollectionsArePaired
  <2>6. Announced <=> Announced'
    BY <2>2, <2>3, StartFields DEF Announced
  <2>7. \A i \in DOMAIN file' : file'[i].part = "GCStarted" =>
          \E n2 \in Nat : n2 <= gcNumber' /\ file'[i] = GCStarted(n2)
    BY <2>3 DEF PairInv
  <2>8. LineInHand'
    BY <2>6 DEF PairInv, LineInHand
  <2> QED
    BY <2>5, <2>6, <2>7, <2>8 DEF PairInv
<1> QED
  BY <1>1, <1>2

LEMMA PairDoLog ==
  ASSUME TypeOK, PairInv, DoLog
  PROVE  PairInv'
<1>1. /\ line # <<>> /\ line' = <<>> /\ Write(line[1])
      /\ UNCHANGED <<collecting, gcNumber, isOpen, pc>> /\ Begun
  BY DEF DoLog, writer, Alive, Begun
<1>2. PICK x : x = line[1]
  OBVIOUS
<1>3. x \in Fragments /\ gcNumber \in Nat
  <2>1. line \in Seq(Fragments) /\ gcNumber \in Nat
    BY DEF TypeOK
  <2> QED
    BY <1>1, <1>2, <2>1
<1>4. CASE ~isOpen
  BY <1>1, <1>4 DEF Write, PairInv, CollectionsArePaired, LineInHand, Begun
<1>5. CASE isOpen
  <2>1. PICK n \in Nat : /\ DOMAIN file = 1 .. n /\ DOMAIN file' = 1 .. n + 1
                         /\ file'[n + 1] = x
                         /\ \A i \in 1 .. n : file'[i] = file[i]
    BY <1>1, <1>2, <1>3, <1>5, AppendedLine DEF TypeOK
  <2>2. \A i \in DOMAIN file : i \in DOMAIN file' /\ file'[i] = file[i]
    BY <2>1
  <2>3. \A i \in DOMAIN file' :
          (i \in DOMAIN file /\ file'[i] = file[i]) \/ (i = n + 1 /\ file'[i] = x)
    BY <2>1
  <2>4. \A k \in DOMAIN file' : 1 .. k - 1 \subseteq DOMAIN file
    BY <2>1
  <2>5. LineInHand' /\ (~Begun' => line' = <<>> /\ ~collecting')
    BY <1>1 DEF LineInHand, Begun
  <2>6. CASE x = GCStarted(gcNumber) /\ collecting /\ ~Announced
    <3>1. x.part = "GCStarted" /\ x.part # "GCFinished"
      BY <2>6, StartFields
    <3>2. \A i \in DOMAIN file : file[i] # x
      BY <2>6 DEF Announced
    <3>3. ASSUME NEW i \in DOMAIN file', NEW k \in DOMAIN file', file'[i] = file'[k],
                 file'[i].part = "GCStarted"
          PROVE  i = k
      BY <2>3, <3>2, <3>3 DEF PairInv, CollectionsArePaired
    <3>4. ASSUME NEW k \in DOMAIN file', file'[k].part = "GCFinished"
          PROVE  \E i \in 1 .. k - 1 : file'[i] = Fragment("GCStarted", "item", file'[k].id)
      BY <2>2, <2>3, <2>4, <3>1, <3>4 DEF PairInv, CollectionsArePaired
    <3>5. Announced'
      BY <1>1, <2>1, <2>6 DEF Announced
    <3>6. \A i \in DOMAIN file' : file'[i].part = "GCStarted" =>
            \E n2 \in Nat : n2 <= gcNumber' /\ file'[i] = GCStarted(n2)
      BY <1>1, <1>3, <2>3, <2>6 DEF PairInv
    <3> QED
      BY <2>5, <3>3, <3>4, <3>5, <3>6 DEF PairInv, CollectionsArePaired
  <2>7. CASE x = GCFinished(gcNumber) /\ ~collecting /\ Announced
    <3>1. x.part = "GCFinished" /\ x.id = gcNumber /\ x.part # "GCStarted"
      BY <2>7, StartFields
    <3>2. \A i \in DOMAIN file' : file'[i].part = "GCStarted" =>
            i \in DOMAIN file /\ file'[i] = file[i]
      BY <2>3, <3>1
    <3>3. ASSUME NEW i \in DOMAIN file', NEW k \in DOMAIN file', file'[i] = file'[k],
                 file'[i].part = "GCStarted"
          PROVE  i = k
      BY <3>2, <3>3 DEF PairInv, CollectionsArePaired
    <3>4. ASSUME NEW k \in DOMAIN file', file'[k].part = "GCFinished"
          PROVE  \E i \in 1 .. k - 1 : file'[i] = Fragment("GCStarted", "item", file'[k].id)
      <4>1. CASE k \in DOMAIN file /\ file'[k] = file[k]
        BY <2>2, <2>4, <3>4, <4>1 DEF PairInv, CollectionsArePaired
      <4>2. CASE k = n + 1 /\ file'[k] = x
        <5>1. PICK i \in 1 .. n : file[i] = GCStarted(gcNumber)
          BY <2>1, <2>7 DEF Announced
        <5>2. i \in 1 .. k - 1 /\ file'[i] = GCStarted(gcNumber)
          BY <2>1, <4>2, <5>1
        <5> QED
          BY <3>1, <4>2, <5>2 DEF GCStarted
      <4> QED
        BY <2>3, <4>1, <4>2
    <3>5. Announced'
      BY <1>1, <2>2, <2>7 DEF Announced
    <3>6. \A i \in DOMAIN file' : file'[i].part = "GCStarted" =>
            \E n2 \in Nat : n2 <= gcNumber' /\ file'[i] = GCStarted(n2)
      BY <1>1, <3>2 DEF PairInv
    <3> QED
      BY <2>5, <3>3, <3>4, <3>5, <3>6 DEF PairInv, CollectionsArePaired
  <2> QED
    BY <1>1, <1>2, <1>5, <2>6, <2>7 DEF PairInv, LineInHand
<1> QED
  BY <1>4, <1>5

LEMMA PairCallback ==
  ASSUME TypeOK, PairInv, Callback
  PROVE  PairInv'
<1>1. ASSUME NEW f \in Functions, Mapper(f) \/ Enter(f)
      PROVE  UNCHANGED <<file, line, collecting, gcNumber, isOpen, pc>>
  BY <1>1 DEF Mapper, Enter, Crash, log, runtime
<1>2. CASE ObjectAllocated
  <2>1. UNCHANGED <<file, line, collecting, gcNumber, isOpen, pc>>
    BY <1>2 DEF ObjectAllocated, Crash, log
  <2> QED
    BY <2>1, PairKept DEF Begun
<1>3. CASE GarbageCollectionStarted
  <2>1. UNCHANGED <<file, isOpen, pc>> /\ Begun /\ line = <<>> /\ ~collecting
    BY <1>3 DEF GarbageCollectionStarted, log, Executes, Alive, Begun
  <2>2. CASE UNCHANGED <<line, collecting, gcNumber>>
    BY <2>1, <2>2, PairKept DEF Begun
  <2>3. CASE /\ gcNumber' = gcNumber + 1 /\ collecting' = TRUE
             /\ line' = <<GCStarted(gcNumber + 1)>>
    <3>1. gcNumber \in Nat
      BY DEF TypeOK
    <3>2. ~Announced'
      BY <2>1, <2>3, <3>1, StartFields DEF PairInv, Announced
    <3>3. line' # <<>> /\ line'[1] = GCStarted(gcNumber')
      BY <2>3
    <3>4. LineInHand'
      BY <2>3, <3>2, <3>3 DEF LineInHand
    <3>5. \A i \in DOMAIN file : file[i].part = "GCStarted" =>
            \E n \in Nat : n <= gcNumber' /\ file[i] = GCStarted(n)
      <4> SUFFICES ASSUME NEW i \in DOMAIN file, file[i].part = "GCStarted"
                   PROVE  \E n \in Nat : n <= gcNumber' /\ file[i] = GCStarted(n)
        OBVIOUS
      <4>1. PICK n \in Nat : n <= gcNumber /\ file[i] = GCStarted(n)
        BY DEF PairInv
      <4>2. n <= gcNumber'
        BY <2>3, <3>1, <4>1
      <4> QED
        BY <4>1, <4>2
    <3> QED
      BY <2>1, <3>3, <3>4, <3>5 DEF PairInv, CollectionsArePaired, Begun
  <2> QED
    BY <1>3, <2>2, <2>3 DEF GarbageCollectionStarted, Crash, LineNumber, GCStarted
<1>4. CASE GarbageCollectionFinished
  <2>1. UNCHANGED <<file, isOpen, pc>> /\ Begun /\ line = <<>> /\ collecting
    BY <1>4 DEF GarbageCollectionFinished, log, Alive, Begun
  <2>2. CASE UNCHANGED <<line, collecting, gcNumber>>
    BY <2>1, <2>2, PairKept DEF Begun
  <2>3. CASE /\ gcNumber' = gcNumber /\ collecting' = FALSE
             /\ line' = <<GCFinished(gcNumber)>>
    <3>1. isOpen => Announced
      BY <2>1 DEF PairInv
    <3>2. line' # <<>> /\ line'[1] = GCFinished(gcNumber')
      BY <2>3
    <3>3. Announced' <=> Announced
      BY <2>1, <2>3 DEF Announced
    <3>4. LineInHand'
      BY <2>1, <2>3, <3>1, <3>2, <3>3 DEF LineInHand
    <3> QED
      BY <2>1, <2>3, <3>4 DEF PairInv, CollectionsArePaired, Begun
  <2> QED
    BY <1>4, <2>2, <2>3 DEF GarbageCollectionFinished, Crash, GCFinished
<1> QED
  BY <1>1, <1>2, <1>3, <1>4, PairDoLog, PairKept DEF Callback, Begun

LEMMA PairLife ==
  ASSUME PairInv, LifeStep
  PROVE  PairInv'
<1>1. ASSUME NEW known \in BOOLEAN, CreateInstance(known) PROVE PairInv'
  <2>1. UNCHANGED <<file, line, collecting, gcNumber, isOpen>> /\ ~Begun
    BY <1>1 DEF CreateInstance, log, runtime, Begun
  <2> QED
    BY <2>1, PairKept
<1>2. CASE QueryInterface \/ Release
  <2>1. UNCHANGED <<file, line, collecting, gcNumber, isOpen, pc>>
    BY <1>2 DEF QueryInterface, Release, writer, log, runtime
  <2> QED
    BY <2>1, PairKept DEF Begun
<1>3. CASE Initialize
  <2>1. /\ file' = <<Fragment("document", "open", 0)>> /\ UNCHANGED <<line, collecting>>
        /\ ~Begun
    BY <1>3 DEF Initialize, OpenLog, runtime, Begun
  <2>2. line' = <<>> /\ ~collecting'
    BY <2>1 DEF PairInv
  <2>3. \A i \in DOMAIN file' : file'[i].part = "document"
    BY <2>1, FragmentFields
  <2> QED
    BY <2>2, <2>3 DEF PairInv, CollectionsArePaired, LineInHand
<1> QED
  BY <1>1, <1>2, <1>3 DEF LifeStep

LEMMA PairShutdown ==
  ASSUME TypeOK, PairInv, ShutdownBegin \/ ShutdownStep
  PROVE  PairInv'
<1>1. UNCHANGED <<line, collecting, gcNumber>> /\ Begun'
  <2>1. ASSUME NEW section \in Sections, WriteSection(section)
        PROVE  UNCHANGED <<line, collecting, gcNumber>> /\ Begun'
    BY <2>1 DEF WriteSection, Following, Sections, unwritten, runtime, Begun
  <2>2. CASE ShutdownBegin
    BY <2>2 DEF ShutdownBegin, Following, unwritten, runtime, Begun
  <2> QED
    BY <2>1, <2>2 DEF ShutdownStep, WriteEnd, ClearMaps, Term, ReleaseInfo, Return,
       unwritten, runtime, Begun
<1>2. CASE UNCHANGED file /\ (isOpen' => isOpen)
  BY <1>1, <1>2, PairKept
<1>3. ASSUME NEW section \in Sections, WriteSection(section) PROVE PairInv'
  <2>1. PICK x \in Fragments : Write(x) /\ x.part = section
    <3>1. \A id \in todo : id \in Functions \cup Nat
      BY DEF TypeOK
    <3>2. \A id \in Functions \cup Nat, what \in {"open", "item", "close"} :
            /\ Fragment(section, what, id) \in Fragments
            /\ Fragment(section, what, id).part = section
      BY FragmentType, FragmentFields
    <3> QED
      BY <1>3, <3>1, <3>2 DEF WriteSection, Closing
  <2>2. UNCHANGED isOpen /\ section \notin {"GCStarted", "GCFinished"}
    BY <1>3 DEF WriteSection, Sections
  <2> QED
    BY <1>1, <2>1, <2>2, PairOther
<1>4. CASE WriteEnd
  <2>1. /\ Write(Fragment("document", "close", 0)) /\ UNCHANGED isOpen
        /\ Fragment("document", "close", 0) \in Fragments
        /\ Fragment("document", "close", 0).part = "document"
    BY <1>4, FragmentType, FragmentFields DEF WriteEnd
  <2> QED
    BY <1>1, <2>1, PairOther
<1> QED
  BY <1>2, <1>3, <1>4
     DEF ShutdownStep, ShutdownBegin, ClearMaps, Term, ReleaseInfo, Return, log, unwritten

LEMMA PairStep == ASSUME TypeOK, PairInv, [Next]_vars PROVE PairInv'
<1>1. CASE UNCHANGED vars
  BY <1>1, PairKept DEF vars, writer, log, runtime, Begun
<1> QED
  BY <1>1, PairCallback, PairLife, PairShutdown DEF Next

\* The two lines of a collection bear its number, in their order, and no two
\* collections have one number; also when they overlap Shutdown, which may
\* close the log between the two (ProfilerSession!CollectionsArePaired).
THEOREM CollectionsPair == Spec => []CollectionsArePaired
<1>1. Init => PairInv
  BY DEF Init, PairInv, CollectionsArePaired, LineInHand
<1>2. PairInv => CollectionsArePaired
  BY DEF PairInv
<1> QED
  BY <1>1, <1>2, PairStep, TypeCorrect, PTL DEF Spec

-----------------------------------------------------------------------------
(* The parts of the document.  A part is begun when Shutdown comes to it   *)
(* and by nobody else, and Shutdown comes to each part once.               *)

Opened(section) == {i \in DOMAIN file : file[i] = Fragment(section, "open", 0)}

Ended  == {"document", "clear", "term", "release", "global", "done"}
Behind == [functions     |-> {"Objects", "functionNames"} \cup Ended,
           Objects       |-> {"functionNames"} \cup Ended,
           functionNames |-> Ended]
Entered(section) == pc \in Behind[section] \/ (pc = section /\ inside)

PartsInv ==
  \A section \in Sections :
    IF Entered(section) THEN \E k \in DOMAIN file : Opened(section) = {k}
    ELSE Opened(section) = {}

LEMMA PartsKept ==
  ASSUME PartsInv, UNCHANGED file, \A section \in Sections : Entered(section)' <=> Entered(section)
  PROVE  PartsInv'
BY DEF PartsInv, Opened

\* A line begins the part it says it begins.
LEMMA PartsWrite ==
  ASSUME file \in Seq(Fragments), NEW x \in Fragments, Write(x), isOpen,
         NEW section \in Sections
  PROVE  /\ x # Fragment(section, "open", 0) => Opened(section)' = Opened(section)
         /\ x = Fragment(section, "open", 0) /\ Opened(section) = {} =>
              \E k \in DOMAIN file' : Opened(section)' = {k}
         /\ \A k \in DOMAIN file : k \in DOMAIN file'
<1>1. PICK n \in Nat : /\ DOMAIN file = 1 .. n /\ DOMAIN file' = 1 .. n + 1
                       /\ file'[n + 1] = x
                       /\ \A i \in 1 .. n : file'[i] = file[i]
  BY AppendedLine
<1>2. n + 1 \notin DOMAIN file /\ DOMAIN file' = DOMAIN file \cup {n + 1}
  BY <1>1
<1>3. x # Fragment(section, "open", 0) => Opened(section)' = Opened(section)
  BY <1>1, <1>2 DEF Opened
<1>4. x = Fragment(section, "open", 0) /\ Opened(section) = {} =>
        Opened(section)' = {n + 1}
  BY <1>1, <1>2 DEF Opened
<1> QED
  BY <1>2, <1>3, <1>4

\* Lines that begin no part leave the parts as they are.
LEMMA PartsOther ==
  ASSUME TypeOK, PartsInv, NEW x \in Fragments, Write(x), x.what # "open",
         \A section \in Sections : Entered(section)' <=> Entered(section)
  PROVE  PartsInv'
<1>1. CASE ~isOpen
  BY <1>1, PartsKept DEF Write
<1>2. CASE isOpen
  <2>1. \A section \in Sections : x # Fragment(section, "open", 0)
    BY FragmentFields
  <2>2. \A section \in Sections : /\ Opened(section)' = Opened(section)
                                  /\ \A k \in DOMAIN file : k \in DOMAIN file'
    BY <1>2, <2>1, PartsWrite DEF TypeOK
  <2> QED
    BY <2>2 DEF PartsInv
<1> QED
  BY <1>1, <1>2

LEMMA PartsSection ==
  ASSUME TypeOK, OrderInv, PartsInv, NEW section \in Sections, WriteSection(section)
  PROVE  PartsInv'
<1>1. pc = section /\ isOpen /\ inside \in BOOLEAN /\ file \in Seq(Fragments)
  BY DEF WriteSection, OrderInv, TypeOK
<1>2. ASSUME NEW what \in {"open", "item", "close"}, NEW id \in Functions \cup Nat
      PROVE  /\ Fragment(section, what, id) \in Fragments
             /\ Fragment(section, what, id).what = what
             /\ Fragment(section, what, id).part = section
  BY FragmentType, FragmentFields
<1>3. CASE ~inside /\ Write(Fragment(section, "open", 0)) /\ inside' = TRUE /\ UNCHANGED pc
  <2>1. ~Entered(section) /\ Entered(section)'
    BY <1>1, <1>3 DEF Entered, Behind, Ended, Sections
  <2>2. \A other \in Sections : other # section => (Entered(other)' <=> Entered(other))
    BY <1>1, <1>3 DEF Entered
  <2>3. ASSUME NEW other \in Sections
        PROVE  IF Entered(other)' THEN \E k \in DOMAIN file' : Opened(other)' = {k}
               ELSE Opened(other)' = {}
    <3>1. CASE other = section
      BY <1>1, <1>2, <1>3, <2>1, <3>1, PartsWrite DEF PartsInv
    <3>2. CASE other # section
      <4>1. Fragment(section, "open", 0) # Fragment(other, "open", 0)
        BY <3>2, FragmentFields
      <4>2. Fragment(section, "open", 0) \in Fragments
        BY <1>2
      <4>3. /\ Opened(other)' = Opened(other)
            /\ \A k \in DOMAIN file : k \in DOMAIN file'
        BY <1>1, <1>3, <4>1, <4>2, PartsWrite
      <4> QED
        BY <2>2, <3>2, <4>3 DEF PartsInv
    <3> QED
      BY <3>1, <3>2
  <2> QED
    BY <2>3 DEF PartsInv
<1>4. ASSUME NEW id \in todo, inside, Write(Fragment(section, "item", id)),
             UNCHANGED <<pc, inside>>
      PROVE  PartsInv'
  <2>1. id \in Functions \cup Nat
    BY DEF TypeOK
  <2>2. /\ Fragment(section, "item", id) \in Fragments
        /\ Fragment(section, "item", id).what # "open"
    BY <1>2, <2>1
  <2>3. \A other \in Sections : Entered(other)' <=> Entered(other)
    BY <1>4 DEF Entered
  <2> QED
    BY <1>4, <2>2, <2>3, PartsOther
<1>5. CASE inside /\ Write(Closing(section)) /\ inside' = FALSE /\ pc' = Following[section]
  <2>1. Closing(section) \in Fragments /\ Closing(section).what # "open"
    BY <1>2 DEF Closing
  <2>2. \A other \in Sections : Entered(other)' <=> Entered(other)
    BY <1>1, <1>5 DEF Entered, Behind, Ended, Following, Sections
  <2> QED
    BY <1>5, <2>1, <2>2, PartsOther
<1> QED
  BY <1>3, <1>4, <1>5 DEF WriteSection

LEMMA PartsStep ==
  ASSUME TypeOK, OrderInv, PartsInv, [Next]_vars
  PROVE  PartsInv'
<1>1. ASSUME UNCHANGED <<file, pc, inside>> PROVE PartsInv'
  BY <1>1, PartsKept DEF Entered
<1>2. CASE Callback
  <2>1. CASE DoLog
    <3>1. line # <<>> /\ Write(line[1]) /\ UNCHANGED <<pc, inside>>
      BY <2>1 DEF DoLog, writer
    <3>2. line[1] \in Fragments /\ line[1].what = "item"
      BY <3>1 DEF OrderInv, LineInv
    <3> QED
      BY <3>1, <3>2, PartsOther DEF Entered
  <2>2. ASSUME NEW f \in Functions, Mapper(f) \/ Enter(f) PROVE UNCHANGED <<file, pc, inside>>
    BY <2>2 DEF Mapper, Enter, log
  <2> QED
    BY <1>1, <1>2, <2>1, <2>2 DEF Callback, ObjectAllocated, GarbageCollectionStarted,
       GarbageCollectionFinished, log, writer
<1>3. CASE LifeStep
  <2>1. ASSUME NEW known \in BOOLEAN, CreateInstance(known) PROVE PartsInv'
    <3>1. /\ UNCHANGED <<file, inside>> /\ pc \notin Sections \cup Ended
          /\ pc' \notin Sections \cup Ended
      BY <2>1 DEF CreateInstance, log, Sections, Ended
    <3> QED
      BY <3>1, PartsKept DEF Entered, Behind, Sections, Ended
  <2>2. CASE QueryInterface \/ Release
    BY <1>1, <2>2 DEF QueryInterface, Release, writer, log
  <2>3. CASE Initialize
    <3>1. /\ file' = <<Fragment("document", "open", 0)>>
          /\ pc' \notin Sections \cup Ended
      BY <2>3 DEF Initialize, OpenLog, Sections, Ended
    <3>2. \A section \in Sections : Opened(section)' = {}
      <4>1. \A i \in DOMAIN file' : file'[i].part = "document"
        BY <3>1, FragmentFields
      <4>2. "document" \notin Sections
        BY DEF Sections
      <4> QED
        BY <4>1, <4>2, FragmentFields DEF Opened
    <3>3. \A section \in Sections : ~Entered(section)'
      BY <3>1 DEF Entered, Behind, Sections, Ended
    <3> QED
      BY <3>2, <3>3 DEF PartsInv
  <2> QED
    BY <1>3, <2>1, <2>2, <2>3 DEF LifeStep
<1>4. CASE ShutdownBegin
  <2>1. UNCHANGED <<file, inside>> /\ pc = "running" /\ pc' = "functions" /\ ~inside
    BY <1>4 DEF ShutdownBegin, Following, log, OrderInv, Sections
  <2> QED
    BY <2>1, PartsKept DEF Entered, Behind, Sections, Ended
<1>5. CASE WriteEnd
  <2>1. /\ Write(Fragment("document", "close", 0)) /\ pc = "document" /\ pc' = "clear"
        /\ Fragment("document", "close", 0) \in Fragments
        /\ Fragment("document", "close", 0).what = "close" /\ UNCHANGED inside
    BY <1>5, FragmentType, FragmentFields DEF WriteEnd
  <2>2. \A section \in Sections : Entered(section)' <=> Entered(section)
    BY <2>1 DEF Entered, Behind, Sections, Ended
  <2> QED
    BY <2>1, <2>2, PartsOther
<1>6. CASE ClearMaps \/ Term \/ ReleaseInfo \/ Return
  <2>1. /\ UNCHANGED <<file, inside>> /\ pc \in Ended /\ pc' \in Ended
    BY <1>6 DEF ClearMaps, Term, ReleaseInfo, Return, log, unwritten, Ended
  <2> QED
    BY <2>1, PartsKept DEF Entered, Behind, Sections, Ended
<1> QED
  BY <1>1, <1>2, <1>3, <1>4, <1>5, <1>6, PartsSection
     DEF Next, ShutdownStep, vars, writer, log

\* When Shutdown returned the log has each part the plots are made from once,
\* and is closed unless a collection wrote behind its end
\* (ProfilerSession!DocumentIsComplete).
THEOREM DocumentsAreComplete == Spec => []DocumentIsComplete
<1>1. Init => OrderInv /\ PartsInv
  <2>1. Init => OrderInv
    BY DEF Init, OrderInv, LineInv, LinesInTheirParts, Begun, Sections
  <2>2. Init => PartsInv
    BY DEF Init, PartsInv, Opened, Entered, Behind, Ended, Sections
  <2> QED
    BY <2>1, <2>2
<1>2. OrderInv /\ PartsInv => DocumentIsComplete
  <2> SUFFICES ASSUME OrderInv, PartsInv, pc = "done"
               PROVE  /\ \A section \in Sections : Cardinality(Opened(section)) = 1
                      /\ late \/ Level(file[Len(file)]) = "end"
    BY DEF DocumentIsComplete, Opened
  <2>1. ASSUME NEW section \in Sections PROVE Cardinality(Opened(section)) = 1
    <3>1. Entered(section)
      BY DEF Entered, Behind, Ended, Sections
    <3>2. PICK k : Opened(section) = {k}
      BY <3>1 DEF PartsInv
    <3> QED
      BY <3>2, FS_Singleton
  <2>2. late \/ Level(file[Len(file)]) = "end"
    BY DEF OrderInv, Begun, Open, Sections
  <2> QED
    BY <2>1, <2>2
<1> QED
  BY <1>1, <1>2, OrderStep, PartsStep, TypeCorrect, PTL DEF Spec
=============================================================================
