--------------------------- MODULE ObjectTracker ---------------------------
(***************************************************************************)
(* The object half of CoreProfiler (src/SharedPerunProfiler): a record for *)
(* every allocated object, kept under the object's address, re-keyed when  *)
(* the garbage collector moves the object, moved to a second list when the *)
(* collector did not report it, and written out and freed by Shutdown.     *)
(*                                                                         *)
(* External to the profiler is the garbage collector: the addresses of the *)
(* objects, their generations, and what a collection reports.  An object   *)
(* and its record carry the same number; an object whose size the runtime  *)
(* does not tell has a number and no record.                               *)
(***************************************************************************)
EXTENDS Integers, Sequences, FiniteSets

CONSTANTS
  Classes,        \* ClassIDs
  LastAddress,    \* the heap is 1 .. LastAddress; an object fills one cell
  OldestGen,      \* number of the oldest generation
  Collected,      \* the oldest generations that collections reach
  Shifts,         \* how far a compacting collection moves; {} if it never does
  LateCallbacks,  \* TRUE when callbacks arrive during and after Shutdown
  MaxObjects,     \* bound on allocations
  MaxUnsized,     \* bound on those whose size is not told
  MaxGC           \* bound on gcNumber

ASSUME SwitchAssumption  == LateCallbacks \in BOOLEAN
ASSUME HeapAssumption    == LastAddress \in Nat \ {0} /\ Shifts \subseteq Int
ASSUME GenAssumption     == OldestGen \in Nat /\ Collected \subseteq 0 .. OldestGen
ASSUME BoundAssumption   == MaxObjects \in Nat /\ MaxUnsized \in Nat /\ MaxGC \in Nat

VARIABLES
  (* the profiler *)
  objects,          \* per object, in order of allocation, its ObjectClass
  deleted,          \* those that were deleted
  m_objectsAlloc,   \* the record under each key, Nil where there is none
  m_objectsDeAlloc, \* the list of records of deallocated objects
  m_classes,        \* per class: no key, an empty name, its name
  gcNumber, info, fault,
  isDeallocEnable,  \* whether collections are searched for dead objects
  (* its lock, and the calls that hold it for more than one step *)
  lock, tmp_map, pc, cursor, written,
  (* the garbage collector *)
  gc,               \* the running collection: none, sweeping, compacting
  todo,             \* the ranges it has still to report
  place,            \* where an object is; Nil once it was collected
  gen, reachable,
  lastSurvived,     \* the last collection each object lived through
  sized             \* the objects whose size is told: those with a record

records  == <<objects, deleted, m_objectsAlloc, m_objectsDeAlloc>>
profiler == <<records, m_classes, gcNumber, info, fault>>
shutdown == <<pc, cursor, written>>
heap     == <<place, gen, reachable, lastSurvived, sized>>
outside  == <<isDeallocEnable, heap>>
vars     == <<profiler, lock, tmp_map, shutdown, gc, todo, outside>>

Nil       == 0
Addresses == 1 .. LastAddress
Keys      == 1 .. 2 * LastAddress   \* the ids MovedReferences can compute
Ids       == DOMAIN objects
Tracked   == {m_objectsAlloc[k] : k \in Keys} \ {Nil}
Smallest(S) == CHOOSE x \in S : \A y \in S : x <= y

ObjectClass == [objectId : Addresses, typeName : {"", "name"},
                gcNumber : Nat, untilGcNumber : Nat]
Plug ==
  {r \in [old : Addresses, new : Addresses, len : Addresses] :
     r.old + r.len <= LastAddress + 1 /\ r.new + r.len <= LastAddress + 1}

Init ==
  /\ objects = <<>> /\ deleted = {} /\ m_objectsDeAlloc = {}
  /\ m_objectsAlloc = [k \in Keys |-> Nil]
  /\ m_classes = [c \in Classes |-> "absent"]
  /\ gcNumber = 1 /\ info = TRUE /\ fault = "none"
  /\ isDeallocEnable \in BOOLEAN
  /\ lock = "free" /\ tmp_map = <<>>
  /\ pc = "running" /\ cursor = 0 /\ written = <<>>
  /\ gc = "none" /\ todo = {}
  /\ place = <<>> /\ gen = <<>> /\ reachable = {} /\ lastSurvived = <<>>
  /\ sized = {}

CallbacksRun == fault = "none" /\ (pc = "running" \/ LateCallbacks)
Crash(how)   == fault' = how /\ UNCHANGED <<records, m_classes, gcNumber, info>>
-----------------------------------------------------------------------------
(* The program: it loads classes, allocates objects and drops them, except *)
(* while a collection suspends it.                                         *)

Executes == CallbacksRun /\ gc = "none"

\* GetClassIDInfo or GetTypeName may find no name.
ClassLoadFinished(c, named) ==
  /\ Executes
  /\ IF ~info THEN Crash("info")
     ELSE /\ m_classes' = [m_classes EXCEPT ![c] = IF named THEN "name" ELSE @]
          /\ UNCHANGED <<records, gcNumber, info, fault>>
  /\ UNCHANGED <<lock, tmp_map, shutdown, gc, todo, outside>>

\* A record left under the address of the new object is overwritten, unless
\* GetObjectSize fails: then the new object gets no record, and the old one
\* stays.
ObjectAllocated(a, c, sizeTold) ==
  LET typeName == IF m_classes[c] = "absent" THEN "" ELSE m_classes[c]
      new      == Len(objects) + 1
  IN /\ Executes /\ Len(objects) < MaxObjects
     /\ sizeTold \/ Len(objects) < Cardinality(sized) + MaxUnsized
     /\ \A o \in Ids : place[o] # a
     /\ IF ~info THEN Crash("info") /\ UNCHANGED heap
        ELSE /\ m_classes' = [m_classes EXCEPT ![c] = typeName]
             /\ objects' = Append(objects,
                  [objectId |-> a, typeName |-> typeName,
                   gcNumber |-> gcNumber, untilGcNumber |-> gcNumber])
             /\ m_objectsAlloc' =
                  [m_objectsAlloc EXCEPT ![a] = IF sizeTold THEN new ELSE @]
             /\ sized' = IF sizeTold THEN sized \cup {new} ELSE sized
             /\ place' = Append(place, a)
             /\ gen' = Append(gen, 0)
             /\ reachable' = reachable \cup {new}
             /\ lastSurvived' = Append(lastSurvived, gcNumber)
             /\ UNCHANGED <<deleted, m_objectsDeAlloc, gcNumber, info, fault>>
     /\ UNCHANGED <<lock, tmp_map, shutdown, gc, todo, isDeallocEnable>>

Drop(o) ==
  /\ Executes /\ o \in reachable
  /\ reachable' = reachable \ {o}
  /\ UNCHANGED <<profiler, lock, tmp_map, shutdown, gc, todo, place, gen,
                 lastSurvived, sized, isDeallocEnable>>
-----------------------------------------------------------------------------
(* A collection of the generations up to oldest.  Unreachable objects go,  *)
(* the others keep their order and are reported as the longest ranges that *)
(* stay together, by SurvivingReferences when the collection sweeps and by *)
(* MovedReferences when it compacts, in any number of calls.               *)

Mutant_SameNumber == gcNumber
NextNumber        == gcNumber + 1

Kinds == {"sweeping"} \cup IF Shifts = {} THEN {} ELSE {"compacting"}

InReach(oldest) == {o \in Ids : place[o] # Nil /\ gen[o] <= oldest}

Plans(kind, oldest) ==
  LET survivors == InReach(oldest) \cap reachable
      shifts    == IF kind = "sweeping" THEN {0} ELSE Shifts
      Fixed     == {place[o] : o \in Ids \ InReach(oldest)}
  IN {to \in [survivors -> Addresses \ Fixed] :
        /\ \A o \in survivors : to[o] - place[o] \in shifts
        /\ \A o, p \in survivors : place[o] < place[p] => to[o] < to[p]}

\* The ranges [old, old + len) of survivors that move by the same distance.
Plugs(to) ==
  LET Moves(a, b) == \E o \in DOMAIN to : place[o] = a /\ to[o] = b
  IN {r \in Plug : /\ \A k \in 0 .. r.len - 1 : Moves(r.old + k, r.new + k)
                   /\ ~Moves(r.old - 1, r.new - 1)
                   /\ ~Moves(r.old + r.len, r.new + r.len)}

GarbageCollectionStarted(kind, oldest) ==
  /\ CallbacksRun /\ gc = "none" /\ gcNumber < MaxGC
  /\ IF ~info THEN Crash("info")
     ELSE gcNumber' = NextNumber /\ UNCHANGED <<records, m_classes, info, fault>>
  /\ gc' = kind
  /\ \E to \in Plans(kind, oldest) :
       /\ todo' = Plugs(to)
       /\ place' = [o \in Ids |-> IF o \in DOMAIN to THEN to[o]
                                  ELSE IF o \in InReach(oldest) THEN Nil
                                  ELSE place[o]]
       /\ gen' = [o \in Ids |-> IF o \in DOMAIN to /\ gen[o] < OldestGen
                                THEN gen[o] + 1 ELSE gen[o]]
       /\ lastSurvived' = [o \in Ids |->
            IF place'[o] = Nil THEN lastSurvived[o] ELSE gcNumber + 1]
  /\ UNCHANGED <<lock, tmp_map, shutdown, reachable, sized, isDeallocEnable>>

\* AutoLock on _lock.
TakeLock(holder) == lock = "free" /\ lock' = holder

Mutant_Free == lock \in {"free", "shutdown"}
LockIsFree  == lock = "free"

\* value->untilGcNumber = gcNumber for the records under these keys.
Stamp(keys) ==
  LET hit == {m_objectsAlloc[k] : k \in keys} \ {Nil}
  IN IF hit \cap deleted # {}
     THEN fault' = "freed" /\ UNCHANGED objects
     ELSE /\ objects' = [o \in Ids |-> IF o \in hit
                THEN [objects[o] EXCEPT !.untilGcNumber = gcNumber]
                ELSE objects[o]]
          /\ UNCHANGED fault

Mutant_ShortRange(key, r) == r.old <= key /\ key < r.old + r.len - 1
InRange(key, r)           == r.old <= key /\ key < r.old + r.len

SurvivingReferences(ranges) ==
  /\ CallbacksRun /\ gc = "sweeping"
  /\ todo' = todo \ ranges
  /\ IF isDeallocEnable
     THEN /\ LockIsFree
          /\ Stamp({k \in Keys : \E r \in ranges : InRange(k, r)})
     ELSE UNCHANGED <<objects, fault>>
  /\ UNCHANGED <<deleted, m_objectsAlloc, m_objectsDeAlloc, m_classes, gcNumber,
                 info, lock, tmp_map, shutdown, gc, outside>>

\* The test of MovedReferences ends the range where its new place ends.
InMovedRange(key, r) == r.old <= key /\ key < r.new + r.len
Hit(ranges) == {k \in Keys : m_objectsAlloc[k] # Nil
                               /\ \E r \in ranges : InMovedRange(k, r)}

\* The last range that takes in a key decides its new value.
Mutant_SwappedKey(key, ranges) ==
  LET r == CHOOSE r \in ranges : InMovedRange(key, r)
  IN r.new + (r.old - key)
NewKey(key, ranges) ==
  LET last == CHOOSE r \in ranges :
        /\ InMovedRange(key, r)
        /\ \A q \in ranges : InMovedRange(key, q) => q.old <= r.old
  IN last.new + (key - last.old)

MovedReferences(ranges) ==
  /\ CallbacksRun /\ gc = "compacting"
  /\ todo' = todo \ ranges
  /\ IF isDeallocEnable
     THEN /\ TakeLock("moving")
          /\ Stamp(Hit(ranges))
          /\ tmp_map' = [k \in Hit(ranges) |-> NewKey(k, ranges)]
     ELSE UNCHANGED <<lock, tmp_map, objects, fault>>
  /\ UNCHANGED <<deleted, m_objectsAlloc, m_objectsDeAlloc, m_classes, gcNumber,
                 info, shutdown, gc, outside>>

\* One turn of the loop over tmp_map, in the order of its keys: the record is
\* extracted and inserted under its new key, where insert() drops it when
\* that key is taken; then the old key is erased, whoever has it now.
Rekeyed(key, new) ==
  LET extracted == [m_objectsAlloc EXCEPT ![key] = Nil]
      inserted  == IF extracted[new] # Nil THEN extracted
                   ELSE [extracted EXCEPT ![new] = m_objectsAlloc[key]]
  IN [inserted EXCEPT ![key] = Nil]

RekeyOne ==
  LET key == Smallest(DOMAIN tmp_map)
  IN /\ CallbacksRun /\ lock = "moving" /\ DOMAIN tmp_map # {}
     /\ m_objectsAlloc' = Rekeyed(key, tmp_map[key])
     /\ tmp_map' = [k \in DOMAIN tmp_map \ {key} |-> tmp_map[k]]
     /\ UNCHANGED <<objects, deleted, m_objectsDeAlloc, m_classes, gcNumber,
                    info, fault, lock, shutdown, gc, todo, outside>>

MovedReferencesEnd ==
  /\ CallbacksRun /\ lock = "moving" /\ DOMAIN tmp_map = {}
  /\ lock' = "free"
  /\ UNCHANGED <<profiler, tmp_map, shutdown, gc, todo, outside>>

\* The callback uses _info, then takes _lock to look for the records that
\* this collection did not stamp: they are deallocated.
GarbageCollectionFinished ==
  /\ CallbacksRun /\ gc \in Kinds /\ todo = {} /\ lock # "moving"
  /\ IF ~info THEN fault' = "info" /\ UNCHANGED gc
     ELSE gc' = (IF isDeallocEnable THEN "finishing" ELSE "none") /\ UNCHANGED fault
  /\ UNCHANGED <<records, m_classes, gcNumber, info, lock, tmp_map, shutdown,
                 todo, outside>>

Mutant_Unlisted(stale) == m_objectsDeAlloc
Listed(stale)          == m_objectsDeAlloc \cup stale

Mutant_Kept(stale) == m_objectsAlloc
Without(stale) ==
  [k \in Keys |-> IF m_objectsAlloc[k] \in stale THEN Nil ELSE m_objectsAlloc[k]]

DeallocateUnstamped ==
  LET stale == {o \in Tracked : objects[o].untilGcNumber # gcNumber}
  IN /\ CallbacksRun /\ gc = "finishing" /\ LockIsFree
     /\ gc' = "none"
     /\ IF Tracked \cap deleted # {}
        THEN fault' = "freed" /\ UNCHANGED <<m_objectsAlloc, m_objectsDeAlloc>>
        ELSE /\ m_objectsDeAlloc' = Listed(stale)
             /\ m_objectsAlloc' = Without(stale)
             /\ UNCHANGED fault
     /\ UNCHANGED <<objects, deleted, m_classes, gcNumber, info, lock, tmp_map,
                    shutdown, todo, outside>>
-----------------------------------------------------------------------------
(* Shutdown, from the moment it has _lock.                                 *)

At(label) == fault = "none" /\ pc = label

ShutdownBegin ==
  /\ At("running") /\ (LateCallbacks \/ gc = "none")
  /\ TakeLock("shutdown")
  /\ pc' = "dealloc"
  /\ UNCHANGED <<profiler, tmp_map, cursor, written, gc, todo, outside>>

\* Serialize and delete one record of the list.
WriteDeAlloc ==
  /\ At("dealloc")
  /\ IF m_objectsDeAlloc \ deleted = {}
     THEN pc' = "alloc" /\ UNCHANGED <<deleted, written>>
     ELSE \E o \in m_objectsDeAlloc \ deleted :
            /\ written' = Append(written, o)
            /\ deleted' = deleted \cup {o}
            /\ UNCHANGED pc
  /\ UNCHANGED <<objects, m_objectsAlloc, m_objectsDeAlloc, m_classes, gcNumber,
                 info, fault, lock, tmp_map, cursor, gc, todo, outside>>

\* The loop over m_objectsAlloc goes to the next key.
LastStamp(o) ==
  IF objects[o].untilGcNumber = gcNumber THEN objects
  ELSE [objects EXCEPT ![o].untilGcNumber = gcNumber + 1]

WriteAlloc ==
  LET ahead == {k \in Keys : k > cursor /\ m_objectsAlloc[k] # Nil}
      o     == m_objectsAlloc[Smallest(ahead)]
  IN /\ At("alloc")
     /\ IF ahead = {}
        THEN pc' = "clear" /\ UNCHANGED <<objects, deleted, written, cursor, fault>>
        ELSE IF o \in deleted
        THEN fault' = "freed" /\ UNCHANGED <<objects, deleted, written, cursor, pc>>
        ELSE /\ cursor' = Smallest(ahead)
             /\ objects' = LastStamp(o)
             /\ written' = Append(written, o)
             /\ deleted' = deleted \cup {o}
             /\ UNCHANGED <<pc, fault>>
     /\ UNCHANGED <<m_objectsAlloc, m_objectsDeAlloc, m_classes, gcNumber, info,
                    lock, tmp_map, gc, todo, outside>>

\* The maps are cleared, not the list, and the lock is released.
Mutant_NeverUnlocked == UNCHANGED lock
Unlock               == lock' = "free"

ClearMaps ==
  /\ At("clear")
  /\ m_objectsAlloc' = [k \in Keys |-> Nil]
  /\ m_classes' = [c \in Classes |-> "absent"]
  /\ Unlock
  /\ pc' = "release"
  /\ UNCHANGED <<objects, deleted, m_objectsDeAlloc, gcNumber, info, fault,
                 tmp_map, cursor, written, gc, todo, outside>>

ReleaseInfo ==
  /\ At("release")
  /\ info' = FALSE /\ pc' = "done"
  /\ UNCHANGED <<records, m_classes, gcNumber, fault, lock, tmp_map, cursor,
                 written, gc, todo, outside>>

ProgramStep ==
  \/ \E c \in Classes, named \in BOOLEAN : ClassLoadFinished(c, named)
  \/ \E a \in Addresses, c \in Classes, sizeTold \in BOOLEAN :
       ObjectAllocated(a, c, sizeTold)
  \/ \E o \in Ids : Drop(o)

StartCollection ==
  \E kind \in Kinds, oldest \in Collected : GarbageCollectionStarted(kind, oldest)

CollectorStep ==
  \/ \E ranges \in SUBSET todo \ {{}} :
       SurvivingReferences(ranges) \/ MovedReferences(ranges)
  \/ RekeyOne \/ MovedReferencesEnd
  \/ GarbageCollectionFinished \/ DeallocateUnstamped

ShutdownStep == WriteDeAlloc \/ WriteAlloc \/ ClearMaps \/ ReleaseInfo

Next == ProgramStep \/ StartCollection \/ CollectorStep
          \/ ShutdownBegin \/ ShutdownStep
Spec == Init /\ [][Next]_vars

\* The suspending thread runs the collection and the one that called Shutdown
\* runs that, each as far as _lock lets it.
FairSpec == Spec /\ WF_vars(CollectorStep) /\ WF_vars(ShutdownStep)
-----------------------------------------------------------------------------
(* Correctness.                                                            *)

\* Every variable holds a value of its type, and no key or list entry is
\* other than a record that was allocated.
TypeOK ==
  /\ objects \in Seq(ObjectClass)
  /\ deleted \subseteq Ids
  /\ m_objectsAlloc \in [Keys -> {Nil} \cup Ids]
  /\ m_objectsDeAlloc \subseteq Ids
  /\ m_classes \in [Classes -> {"absent", "", "name"}]
  /\ gcNumber \in Nat /\ info \in BOOLEAN
  /\ fault \in {"none", "info", "freed"}
  /\ lock \in {"free", "moving", "shutdown"}
  /\ DOMAIN tmp_map \subseteq Keys
  /\ \A k \in DOMAIN tmp_map : tmp_map[k] \in Keys
  /\ pc \in {"running", "dealloc", "alloc", "clear", "release", "done"}
  /\ cursor \in Keys \cup {0}
  /\ written \in Seq(Ids)
  /\ gc \in {"none", "sweeping", "compacting", "finishing"}
  /\ todo \subseteq Plug
  /\ place \in [Ids -> {Nil} \cup Addresses] /\ gen \in [Ids -> 0 .. OldestGen]
  /\ reachable \subseteq Ids /\ lastSurvived \in [Ids -> Nat]
  /\ sized \subseteq Ids /\ isDeallocEnable \in BOOLEAN

\* A record has one owner: it is under one key, or in the list of
\* deallocated objects, and never both; so no loop meets it twice.
OneOwner ==
  /\ \A k, m \in Keys : m_objectsAlloc[k] # Nil
       /\ m_objectsAlloc[k] = m_objectsAlloc[m] => k = m
  /\ Tracked \cap m_objectsDeAlloc = {}

\* No callback and no loop of Shutdown reads a record that was deleted: a
\* collection that Shutdown overtook finds the map locked, then empty.
NoUseAfterDelete == fault # "freed"

\* Between collections, if they are searched for dead objects, the map holds
\* the objects that are in the heap and have a record, each under its own
\* address, and nothing else, and the list holds the others.
TracksTheHeap ==
  isDeallocEnable /\ gc = "none" /\ pc = "running" =>
    /\ \A o \in sized : IF place[o] = Nil THEN o \in m_objectsDeAlloc
                         ELSE m_objectsAlloc[place[o]] = o
    /\ Tracked \cup m_objectsDeAlloc \subseteq sized

\* Then untilGC of a record is the last collection its object lived through.
UntilIsLastSurvived ==
  isDeallocEnable /\ gc = "none" /\ pc = "running" =>
    \A o \in sized : objects[o].untilGcNumber = lastSurvived[o]

\* Then, too, every tracked record bears the number of the last collection.
TrackedAreStamped ==
  isDeallocEnable /\ gc = "none" /\ pc = "running" =>
    \A o \in Tracked : objects[o].untilGcNumber = gcNumber

\* Then every reachable object with a record has it in the map: none was
\* listed as deallocated, or lost on the way to a new key.
ReachableStayTracked ==
  isDeallocEnable /\ gc = "none" /\ pc = "running" =>
    reachable \cap sized \subseteq Tracked

\* When Shutdown is done every record is in the log, but for those that a
\* later object with their address overwrote; and none is if collections are
\* searched for dead objects.
Overwritten(o) ==
  ~isDeallocEnable /\ \E p \in sized : p > o /\ objects[p].objectId = objects[o].objectId
RecordsAreWritten ==
  pc = "done" => \A o \in sized :
    (\E k \in DOMAIN written : written[k] = o) \/ Overwritten(o)

\* A collection that has started is finished, with or without Shutdown: the
\* two users of _lock do not wait for each other.
CollectionsFinish == gc # "none" ~> gc = "none" \/ fault # "none"
=============================================================================
