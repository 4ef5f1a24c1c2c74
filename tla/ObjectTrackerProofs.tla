------------------------ MODULE ObjectTrackerProofs ------------------------
(***************************************************************************)
(* Proofs about ObjectTracker, for any heap, any number of objects and any *)
(* collections, and whether or not callbacks overtake Shutdown.            *)
(***************************************************************************)
EXTENDS ObjectTracker, SequenceTheorems, WellFoundedInduction, TLAPS

-----------------------------------------------------------------------------
(* Choosing the least element, and the range with the greatest start.      *)

LEMMA LeastNatural ==
  ASSUME NEW S, S \subseteq Nat, S # {}
  PROVE  \E x \in S : \A y \in S : x <= y
<1>1. PICK x \in S : \A y \in S : <<y, x>> \notin OpToRel(<, Nat)
  BY NatLessThanWellFounded, WFMin, Zenon
<1>2. ASSUME NEW y \in S PROVE ~(y < x)
  BY <1>1, Zenon DEF OpToRel
<1> QED
  BY <1>2

LEMMA SmallestOf ==
  ASSUME NEW S, S \subseteq Nat, S # {}
  PROVE  Smallest(S) \in S /\ \A y \in S : Smallest(S) <= y
BY LeastNatural, Zenon DEF Smallest

LEMMA LastRange ==
  ASSUME NEW S, S \subseteq Plug, S # {}
  PROVE  \E r \in S : \A q \in S : q.old <= r.old
<1>1. \A r \in S : r.old \in Nat /\ r.old <= LastAddress
  BY HeapAssumption DEF Plug, Addresses
<1> DEFINE D == {LastAddress - r.old : r \in S}
<1>2. D \subseteq Nat /\ D # {}
  BY <1>1, HeapAssumption
<1> HIDE DEF D
<1>3. PICK d \in D : \A e \in D : d <= e
  BY <1>2, LeastNatural
<1>4. PICK r \in S : d = LastAddress - r.old
  BY <1>3 DEF D
<1>5. ASSUME NEW q \in S PROVE q.old <= r.old
  <2>1. LastAddress - r.old <= LastAddress - q.old
    BY <1>3, <1>4 DEF D
  <2> QED
    BY <2>1, <1>1, HeapAssumption
<1> QED
  BY <1>4, <1>5

\* What MovedReferences computes for a key it takes for moved is a key.
LEMMA NewKeyType ==
  ASSUME NEW ranges, ranges \subseteq Plug, NEW k \in Keys,
         \E r \in ranges : InMovedRange(k, r)
  PROVE  NewKey(k, ranges) \in Keys
<1> DEFINE S == {r \in ranges : InMovedRange(k, r)}
<1>1. PICK r \in S : \A q \in S : q.old <= r.old
  BY LastRange
<1> DEFINE last == CHOOSE p \in ranges :
        /\ InMovedRange(k, p)
        /\ \A q \in ranges : InMovedRange(k, q) => q.old <= p.old
<1>2. last \in ranges /\ InMovedRange(k, last)
  BY <1>1
<1>3. last \in Plug
  BY <1>2
<1> HIDE DEF last
<1>4. /\ last.old \in Addresses /\ last.new \in Addresses
      /\ last.len \in Addresses /\ last.new + last.len <= LastAddress + 1
  BY <1>3 DEF Plug
<1>5. last.old <= k /\ k < last.new + last.len
  BY <1>2 DEF InMovedRange
<1>6. last.new + (k - last.old) \in Keys
  BY <1>4, <1>5, HeapAssumption DEF Addresses, Keys
<1> QED
  BY <1>6 DEF NewKey, last

-----------------------------------------------------------------------------
(* Types.                                                                  *)

\* The types of what one group of variables holds.
RecordsType ==
  /\ objects \in Seq(ObjectClass)
  /\ deleted \subseteq Ids
  /\ m_objectsAlloc \in [Keys -> {Nil} \cup Ids]
  /\ m_objectsDeAlloc \subseteq Ids
ControlType ==
  /\ m_classes \in [Classes -> {"absent", "", "name"}]
  /\ gcNumber \in Nat /\ info \in BOOLEAN
  /\ fault \in {"none", "info", "freed"}
  /\ lock \in {"free", "moving", "shutdown"}
  /\ DOMAIN tmp_map \subseteq Keys
  /\ \A k \in DOMAIN tmp_map : tmp_map[k] \in Keys
  /\ pc \in {"running", "dealloc", "alloc", "clear", "release", "done"}
  /\ cursor \in Keys \cup {0}
  /\ gc \in {"none", "sweeping", "compacting", "finishing"}
  /\ todo \subseteq Plug
HeapType ==
  /\ place \in [Ids -> {Nil} \cup Addresses] /\ gen \in [Ids -> 0 .. OldestGen]
  /\ reachable \subseteq Ids /\ lastSurvived \in [Ids -> Nat]
  /\ sized \subseteq Ids /\ isDeallocEnable \in BOOLEAN

LEMMA TypeParts ==
  TypeOK <=> RecordsType /\ ControlType /\ HeapType /\ written \in Seq(Ids)
BY DEF TypeOK, RecordsType, ControlType, HeapType

\* Keys and addresses are positive numbers.
LEMMA KeysAreNumbers ==
  Addresses \subseteq Keys /\ Keys \subseteq Nat \ {0} /\ 0 \in 0 .. OldestGen
BY HeapAssumption, GenAssumption DEF Keys, Addresses

\* Objects are never removed, and what is changed keeps its domain.
Grow == Ids \subseteq DOMAIN objects'

LEMMA GrowKeeps ==
  ASSUME Grow
  PROVE  /\ \A S : S \subseteq Ids => S \subseteq DOMAIN objects'
         /\ written \in Seq(Ids) => written \in Seq(DOMAIN objects')
         /\ m_objectsAlloc \in [Keys -> {Nil} \cup Ids] =>
              m_objectsAlloc \in [Keys -> {Nil} \cup DOMAIN objects']
BY DEF Grow

LEMMA AppendToFunction ==
  ASSUME NEW S, NEW n \in Nat, NEW fun \in [1 .. n -> S], NEW e \in S
  PROVE  Append(fun, e) \in [1 .. n + 1 -> S]
<1>1. fun \in Seq(S)
  BY SeqDef, Zenon
<1>2. Len(fun) = n
  BY <1>1, LenProperties, DOMAIN fun = 1 .. n
<1>3. Append(fun, e) \in Seq(S) /\ Len(Append(fun, e)) = n + 1
  BY <1>1, <1>2, AppendProperties
<1> QED
  BY <1>3, LenProperties

\* Steps that leave the heap, or the records too, to themselves.
LEMMA OutsideType ==
  ASSUME TypeOK, UNCHANGED outside, Ids' = Ids,
         RecordsType', ControlType', written' \in Seq(Ids)
  PROVE  TypeOK'
<1>1. HeapType' /\ written' \in Seq(Ids')
  <2>1. UNCHANGED <<place, gen, reachable, lastSurvived, sized, isDeallocEnable>>
    BY DEF outside, heap
  <2> QED
    BY <2>1, TypeParts, Zenon DEF HeapType
<1> QED
  BY <1>1, Zenon DEF TypeOK, RecordsType, ControlType, HeapType

LEMMA RecordsKeepType ==
  ASSUME TypeOK, UNCHANGED <<records, outside>>, ControlType', written' \in Seq(Ids)
  PROVE  TypeOK'
<1>1. UNCHANGED <<objects, deleted, m_objectsAlloc, m_objectsDeAlloc, outside>>
  BY DEF records
<1>2. RecordsType' /\ Ids' = Ids
  BY <1>1, TypeParts, Zenon DEF RecordsType, Ids
<1> QED
  BY <1>1, <1>2, OutsideType

LEMMA ClassLoadType ==
  ASSUME TypeOK, NEW c \in Classes, NEW named \in BOOLEAN,
         ClassLoadFinished(c, named)
  PROVE  TypeOK'
<1>1. UNCHANGED <<records, outside, written>>
  BY DEF ClassLoadFinished, Crash, shutdown
<1>2. ControlType'
  BY DEF ControlType, TypeOK, ClassLoadFinished, Crash, shutdown
<1> QED
  BY <1>1, <1>2, RecordsKeepType DEF TypeOK

\* The map after an allocation: with the new record under its address, or,
\* if the size was not told, as it was.
LEMMA AllocatedMap ==
  ASSUME TypeOK, info, NEW a \in Addresses, NEW c \in Classes,
         NEW sizeTold \in BOOLEAN, ObjectAllocated(a, c, sizeTold)
  PROVE  \/ /\ m_objectsAlloc' = [m_objectsAlloc EXCEPT ![a] = Len(objects) + 1]
            /\ sized' = sized \cup {Len(objects) + 1}
         \/ UNCHANGED <<m_objectsAlloc, sized>>
<1>1. m_objectsAlloc \in [Keys -> {Nil} \cup Ids] /\ a \in Keys
  BY KeysAreNumbers DEF TypeOK
<1>2. CASE sizeTold
  BY <1>2 DEF ObjectAllocated
<1>3. CASE ~sizeTold
  BY <1>1, <1>3 DEF ObjectAllocated
<1> QED
  BY <1>2, <1>3

LEMMA AllocatedType ==
  ASSUME TypeOK, NEW a \in Addresses, NEW c \in Classes,
         NEW sizeTold \in BOOLEAN, ObjectAllocated(a, c, sizeTold)
  PROVE  TypeOK'
<1>1. CASE ~info
  <2>1. UNCHANGED <<records, outside, written>>
    BY <1>1 DEF ObjectAllocated, Crash, shutdown, outside
  <2>2. ControlType'
    BY <1>1 DEF ControlType, TypeOK, ObjectAllocated, Crash, shutdown
  <2> QED
    BY <2>1, <2>2, RecordsKeepType DEF TypeOK
<1>2. CASE info
  <2> DEFINE name == IF m_classes[c] = "absent" THEN "" ELSE m_classes[c]
             o    == [objectId |-> a, typeName |-> name,
                      gcNumber |-> gcNumber, untilGcNumber |-> gcNumber]
  <2>1. o \in ObjectClass
    BY DEF TypeOK, ObjectClass
  <2>2. objects \in Seq(ObjectClass) /\ objects' = Append(objects, o)
    BY <1>2 DEF ObjectAllocated, TypeOK
  <2> HIDE DEF o
  <2>3. /\ objects' \in Seq(ObjectClass) /\ Len(objects') = Len(objects) + 1
        /\ Len(objects) \in Nat
        /\ DOMAIN objects' = 1 .. Len(objects) + 1 /\ Ids = 1 .. Len(objects)
    BY <2>1, <2>2 DEF Ids
  <2>4. Grow /\ DOMAIN objects' = Ids \cup {Len(objects) + 1}
    BY <2>3 DEF Grow
  <2>5. RecordsType'
    <3>0. /\ m_objectsAlloc \in [Keys -> {Nil} \cup Ids] /\ a \in Keys
          /\ \/ m_objectsAlloc' = [m_objectsAlloc EXCEPT ![a] = Len(objects) + 1]
             \/ m_objectsAlloc' = m_objectsAlloc
      <4>1. m_objectsAlloc \in [Keys -> {Nil} \cup Ids] /\ a \in Keys
        BY KeysAreNumbers DEF TypeOK
      <4> QED
        BY <1>2, <4>1, AllocatedMap
    <3>1. m_objectsAlloc' \in [Keys -> {Nil} \cup DOMAIN objects']
      <4> DEFINE D == DOMAIN objects'
      <4>1. Ids \subseteq D /\ Len(objects) + 1 \in D
        BY <2>4 DEF Grow
      <4> HIDE DEF D
      <4>2. m_objectsAlloc' \in [Keys -> {Nil} \cup D]
        <5>1. \A k \in Keys : m_objectsAlloc'[k] \in {Nil} \cup D
          BY <3>0, <4>1
        <5>2. m_objectsAlloc' \in [Keys -> {Nil} \cup Ids \cup {Len(objects) + 1}]
          BY <3>0
        <5> QED
          BY <5>1, <5>2
      <4> QED
        BY <4>2 DEF D
    <3>2. UNCHANGED <<deleted, m_objectsDeAlloc>>
      BY <1>2 DEF ObjectAllocated
    <3> QED
      BY <2>3, <2>4, <3>1, <3>2 DEF RecordsType, TypeOK, Ids
  <2>6. ControlType'
    BY <1>2 DEF ControlType, TypeOK, ObjectAllocated, shutdown
  <2>7. HeapType'
    <3> DEFINE n == Len(objects)
    <3>1. n \in Nat /\ Ids = 1 .. n /\ Ids' = 1 .. n + 1
      BY <2>3 DEF Ids
    <3>2. /\ place \in [1 .. n -> {Nil} \cup Addresses]
          /\ gen \in [1 .. n -> 0 .. OldestGen]
          /\ lastSurvived \in [1 .. n -> Nat] /\ gcNumber \in Nat
          /\ reachable \subseteq 1 .. n /\ sized \subseteq 1 .. n
          /\ isDeallocEnable \in BOOLEAN
      BY <3>1 DEF TypeOK
    <3>5. /\ sized' = sized \cup {n + 1} \/ sized' = sized
          /\ isDeallocEnable' = isDeallocEnable
      BY <1>2 DEF ObjectAllocated, n
    <3> HIDE DEF n
    <3>3. /\ Append(place, a) \in [1 .. n + 1 -> {Nil} \cup Addresses]
          /\ Append(gen, 0) \in [1 .. n + 1 -> 0 .. OldestGen]
          /\ Append(lastSurvived, gcNumber) \in [1 .. n + 1 -> Nat]
      BY <3>1, <3>2, KeysAreNumbers, AppendToFunction
    <3>4. /\ place' = Append(place, a) /\ gen' = Append(gen, 0)
          /\ lastSurvived' = Append(lastSurvived, gcNumber)
          /\ reachable' = reachable \cup {n + 1}
      BY <1>2 DEF ObjectAllocated, n
    <3>7. 1 .. n \subseteq 1 .. n + 1 /\ n + 1 \in 1 .. n + 1
      BY ONLY <3>1
    <3>6. sized' \subseteq 1 .. n + 1 /\ reachable' \subseteq 1 .. n + 1
      BY <3>2, <3>4, <3>5, <3>7, Zenon
    <3> QED
      BY <3>1, <3>2, <3>3, <3>4, <3>5, <3>6, Zenon DEF HeapType
  <2>8. written' \in Seq(Ids')
    BY <2>4, GrowKeeps DEF ObjectAllocated, shutdown, TypeOK, Ids
  <2> QED
    BY <2>5, <2>6, <2>7, <2>8, TypeParts DEF TypeOK, RecordsType, ControlType, HeapType
<1> QED
  BY <1>1, <1>2 DEF TypeOK

LEMMA DropType ==
  ASSUME TypeOK, NEW o \in Ids, Drop(o)
  PROVE  TypeOK'
BY ZenonT(40) DEF TypeOK, Drop, profiler, records, shutdown, Ids, Tracked

\* A collection takes every object to an address, leaves it or removes it.
LEMMA CollectionType ==
  ASSUME TypeOK, NEW kind \in Kinds, NEW oldest \in Collected,
         GarbageCollectionStarted(kind, oldest)
  PROVE  TypeOK'
<1>1. /\ UNCHANGED <<records, m_classes, info, lock, tmp_map, shutdown, reachable>>
      /\ UNCHANGED <<sized, isDeallocEnable>>
      /\ gcNumber' \in {gcNumber, gcNumber + 1} /\ fault' \in {fault, "info"}
      /\ gc' = kind
  BY DEF GarbageCollectionStarted, Crash, NextNumber
<1>2. kind \in {"sweeping", "compacting"}
  BY DEF Kinds
<1>3. PICK to \in Plans(kind, oldest) :
       /\ todo' = Plugs(to)
       /\ place' = [o \in Ids |-> IF o \in DOMAIN to THEN to[o]
                                  ELSE IF o \in InReach(oldest) THEN Nil
                                  ELSE place[o]]
       /\ gen' = [o \in Ids |-> IF o \in DOMAIN to /\ gen[o] < OldestGen
                                THEN gen[o] + 1 ELSE gen[o]]
       /\ lastSurvived' = [o \in Ids |->
            IF place'[o] = Nil THEN lastSurvived[o] ELSE gcNumber + 1]
  BY DEF GarbageCollectionStarted
<1>4. \A o \in DOMAIN to : to[o] \in Addresses
  BY DEF Plans
<1>5. todo' \subseteq Plug
  BY <1>3 DEF Plugs
<1>6. place' \in [Ids -> {Nil} \cup Addresses]
  BY <1>3, <1>4 DEF TypeOK
<1> DEFINE Older(o) == IF o \in DOMAIN to /\ gen[o] < OldestGen
                       THEN gen[o] + 1 ELSE gen[o]
           Latest(o) == IF place'[o] = Nil THEN lastSurvived[o] ELSE gcNumber + 1
<1>7. gen' \in [Ids -> 0 .. OldestGen]
  <2>1. \A o \in Ids : gen[o] \in 0 .. OldestGen
    BY DEF TypeOK
  <2>2. \A o \in Ids : Older(o) \in 0 .. OldestGen
    BY <2>1, GenAssumption
  <2>3. gen' = [o \in Ids |-> Older(o)]
    BY <1>3
  <2> HIDE DEF Older
  <2> QED
    BY <2>2, <2>3
<1>8. lastSurvived' \in [Ids -> Nat]
  <2>1. \A o \in Ids : Latest(o) \in Nat
    <3>1. gcNumber \in Nat /\ \A o \in Ids : lastSurvived[o] \in Nat
      BY DEF TypeOK
    <3> QED
      BY <3>1
  <2>2. lastSurvived' = [o \in Ids |-> Latest(o)]
    BY <1>3
  <2> HIDE DEF Latest
  <2> QED
    BY <2>1, <2>2
<1>9. Ids' = Ids /\ gcNumber' \in Nat
  <2>1. objects' = objects
    BY <1>1 DEF records
  <2>2. gcNumber \in Nat
    BY DEF TypeOK
  <2> QED
    BY <2>1, <2>2, <1>1 DEF Ids
<1>10. RecordsType' /\ written' \in Seq(Ids')
  BY <1>1, <1>9 DEF RecordsType, TypeOK, records, shutdown
<1>11. ControlType'
  BY <1>1, <1>2, <1>5, <1>9 DEF ControlType, TypeOK, records, shutdown
<1>12. HeapType'
  BY <1>1, <1>6, <1>7, <1>8, <1>9 DEF HeapType, TypeOK
<1> QED
  BY <1>10, <1>11, <1>12, TypeParts
     DEF TypeOK, RecordsType, ControlType, HeapType

\* The records form a sequence, and a record stays one when it is stamped.
LEMMA ObjectsFunction ==
  ASSUME TypeOK
  PROVE  \E n \in Nat : Ids = 1 .. n /\ objects \in [1 .. n -> ObjectClass]
<1>1. objects \in Seq(ObjectClass)
  BY DEF TypeOK
<1> QED
  BY <1>1, LenProperties DEF Ids

LEMMA NewUntilType ==
  ASSUME NEW r \in ObjectClass, NEW n \in Nat
  PROVE  [r EXCEPT !.untilGcNumber = n] \in ObjectClass
BY DEF ObjectClass

\* Stamping records changes nothing but their untilGC.
LEMMA StampType ==
  ASSUME TypeOK, NEW keys, Stamp(keys)
  PROVE  /\ objects' \in Seq(ObjectClass) /\ Ids' = Ids
         /\ fault' \in {fault, "freed"}
<1>1. CASE UNCHANGED objects
  BY <1>1 DEF Stamp, TypeOK, Ids
<1>2. CASE ~UNCHANGED objects
  <2> DEFINE Changed(o) == [objects[o] EXCEPT !.untilGcNumber = gcNumber]
  <2>1. PICK n \in Nat : Ids = 1 .. n /\ objects \in [1 .. n -> ObjectClass]
    BY ObjectsFunction
  <2>2. \A o \in Ids : objects[o] \in ObjectClass /\ Changed(o) \in ObjectClass
    BY <2>1, NewUntilType DEF TypeOK
  <2> HIDE DEF Changed
  <2>3. PICK hit : objects' = [o \in Ids |-> IF o \in hit THEN Changed(o) ELSE objects[o]]
    BY <1>2, Zenon DEF Stamp, Changed
  <2>4. objects' \in [1 .. n -> ObjectClass]
    BY <2>1, <2>2, <2>3
  <2>5. objects' \in Seq(ObjectClass)
    BY <2>4, SeqDef, Zenon
  <2> QED
    BY <2>1, <2>4, <2>5, <1>2 DEF Stamp, Ids
<1> QED
  BY <1>1, <1>2

LEMMA SurvivingType ==
  ASSUME TypeOK, NEW ranges \in SUBSET todo, SurvivingReferences(ranges)
  PROVE  TypeOK'
<1>1. /\ objects' \in Seq(ObjectClass) /\ Ids' = Ids
      /\ fault' \in {fault, "freed"}
  BY StampType DEF SurvivingReferences, TypeOK, Ids
<1>2. UNCHANGED <<deleted, m_objectsAlloc, m_objectsDeAlloc, outside, written>>
  BY DEF SurvivingReferences, shutdown
<1>3. RecordsType'
  BY <1>1, <1>2, Zenon DEF RecordsType, TypeOK
<1>4. ControlType'
  BY <1>1 DEF ControlType, TypeOK, SurvivingReferences, shutdown
<1> QED
  BY <1>1, <1>2, <1>3, <1>4, OutsideType DEF TypeOK

LEMMA MovedType ==
  ASSUME TypeOK, NEW ranges \in SUBSET todo, MovedReferences(ranges)
  PROVE  TypeOK'
<1>1. /\ objects' \in Seq(ObjectClass) /\ Ids' = Ids
      /\ fault' \in {fault, "freed"}
  BY StampType DEF MovedReferences, TypeOK, Ids
<1>2. ranges \subseteq Plug /\ Hit(ranges) \subseteq Keys
  BY DEF TypeOK, Hit
<1>3. \A k \in Hit(ranges) : NewKey(k, ranges) \in Keys
  BY <1>2, NewKeyType DEF Hit
<1>4. /\ DOMAIN tmp_map' \subseteq Keys
      /\ \A k \in DOMAIN tmp_map' : tmp_map'[k] \in Keys
      /\ lock' \in {"free", "moving", "shutdown"}
  BY <1>2, <1>3 DEF MovedReferences, TakeLock, TypeOK
<1>5. UNCHANGED <<deleted, m_objectsAlloc, m_objectsDeAlloc, outside, written>>
  BY DEF MovedReferences, shutdown
<1>6. RecordsType'
  BY <1>1, <1>5, Zenon DEF RecordsType, TypeOK
<1>7. ControlType'
  BY <1>1, <1>4 DEF ControlType, TypeOK, MovedReferences, shutdown
<1> QED
  BY <1>1, <1>5, <1>6, <1>7, OutsideType DEF TypeOK

\* The record under the smallest key goes to another key, or nowhere.
LEMMA RekeyedType ==
  ASSUME m_objectsAlloc \in [Keys -> {Nil} \cup Ids], NEW key \in Keys, NEW new \in Keys
  PROVE  Rekeyed(key, new) \in [Keys -> {Nil} \cup Ids]
BY DEF Rekeyed

LEMMA RekeyType ==
  ASSUME TypeOK, RekeyOne
  PROVE  TypeOK'
<1> DEFINE key == Smallest(DOMAIN tmp_map)
<1>1. /\ DOMAIN tmp_map \subseteq Keys /\ DOMAIN tmp_map # {}
      /\ \A k \in DOMAIN tmp_map : tmp_map[k] \in Keys
  BY DEF TypeOK, RekeyOne
<1>2. key \in DOMAIN tmp_map
  BY <1>1, KeysAreNumbers, SmallestOf
<1> HIDE DEF key
<1>3. /\ m_objectsAlloc' = Rekeyed(key, tmp_map[key])
      /\ tmp_map' = [k \in DOMAIN tmp_map \ {key} |-> tmp_map[k]]
      /\ UNCHANGED <<objects, deleted, m_objectsDeAlloc, m_classes, gcNumber,
                     info, fault, lock, shutdown, gc, todo, outside>>
  BY Zenon DEF RekeyOne, key
<1>4. m_objectsAlloc' \in [Keys -> {Nil} \cup Ids]
  BY <1>1, <1>2, <1>3, RekeyedType DEF TypeOK
<1> QED
  BY ZenonT(40), <1>1, <1>3, <1>4 DEF TypeOK, shutdown, heap, outside, Ids

LEMMA MovedEndType ==
  ASSUME TypeOK, MovedReferencesEnd
  PROVE  TypeOK'
<1>1. UNCHANGED <<records, outside, written>>
  BY DEF MovedReferencesEnd, profiler, shutdown
<1>2. ControlType'
  BY DEF ControlType, TypeOK, MovedReferencesEnd, profiler, shutdown
<1> QED
  BY <1>1, <1>2, RecordsKeepType DEF TypeOK

LEMMA FinishedType ==
  ASSUME TypeOK, GarbageCollectionFinished
  PROVE  TypeOK'
<1>1. UNCHANGED <<records, outside, written>>
  BY DEF GarbageCollectionFinished, shutdown
<1>2. ControlType'
  BY DEF ControlType, TypeOK, GarbageCollectionFinished, shutdown
<1> QED
  BY <1>1, <1>2, RecordsKeepType DEF TypeOK

LEMMA DeallocateType ==
  ASSUME TypeOK, DeallocateUnstamped
  PROVE  TypeOK'
<1> DEFINE stale == {o \in Tracked : objects[o].untilGcNumber # gcNumber}
<1>1. stale \subseteq Ids
  <2>1. m_objectsAlloc \in [Keys -> {Nil} \cup Ids]
    BY DEF TypeOK
  <2>2. Tracked \subseteq Ids
    BY ONLY <2>1 DEF Tracked
  <2> QED
    BY ONLY <2>2
<1> HIDE DEF stale
<1>2. /\ Listed(stale) \subseteq Ids
      /\ Without(stale) \in [Keys -> {Nil} \cup Ids]
  BY <1>1 DEF TypeOK, Listed, Without
<1>3. /\ m_objectsDeAlloc' \subseteq Ids
      /\ m_objectsAlloc' \in [Keys -> {Nil} \cup Ids]
      /\ fault' \in {fault, "freed"} /\ gc' = "none"
  BY <1>2 DEF DeallocateUnstamped, TypeOK, stale
<1>4. UNCHANGED <<objects, deleted, written, outside>>
  BY DEF DeallocateUnstamped, shutdown
<1>5. RecordsType' /\ Ids' = Ids
  BY <1>3, <1>4, Zenon DEF TypeOK, RecordsType, Ids
<1>6. ControlType'
  BY <1>3 DEF ControlType, TypeOK, DeallocateUnstamped, shutdown
<1> QED
  BY <1>4, <1>5, <1>6, OutsideType DEF TypeOK

LEMMA ShutdownBeginType ==
  ASSUME TypeOK, ShutdownBegin
  PROVE  TypeOK'
<1>1. UNCHANGED <<records, outside, written>>
  BY DEF ShutdownBegin, profiler
<1>2. ControlType'
  BY DEF ControlType, TypeOK, ShutdownBegin, TakeLock, profiler
<1> QED
  BY <1>1, <1>2, RecordsKeepType DEF TypeOK

\* A record that is written is one of those allocated.
LEMMA WriteType ==
  ASSUME TypeOK, NEW o \in Ids
  PROVE  Append(written, o) \in Seq(Ids) /\ deleted \cup {o} \subseteq Ids
BY AppendProperties DEF TypeOK

LEMMA WriteDeAllocType ==
  ASSUME TypeOK, WriteDeAlloc
  PROVE  TypeOK'
<1>1. /\ written' \in Seq(Ids) /\ deleted' \subseteq Ids
      /\ pc' \in {pc, "alloc"}
  <2>1. CASE m_objectsDeAlloc \ deleted = {}
    BY <2>1 DEF WriteDeAlloc, TypeOK
  <2>2. CASE m_objectsDeAlloc \ deleted # {}
    <3>1. PICK o \in m_objectsDeAlloc \ deleted :
            written' = Append(written, o) /\ deleted' = deleted \cup {o} /\ pc' = pc
      BY <2>2 DEF WriteDeAlloc
    <3> QED
      BY <3>1, WriteType DEF TypeOK
  <2> QED
    BY <2>1, <2>2
<1> QED
  BY ZenonT(40), <1>1 DEF TypeOK, WriteDeAlloc, heap, outside, Ids

\* The record the loop over m_objectsAlloc comes to next.
Ahead == {k \in Keys : k > cursor /\ m_objectsAlloc[k] # Nil}
Here  == m_objectsAlloc[Smallest(Ahead)]

LEMMA AheadFacts ==
  ASSUME TypeOK, Ahead # {}
  PROVE  /\ Smallest(Ahead) \in Keys /\ Smallest(Ahead) > cursor
         /\ Here \in Ids
         /\ \A k \in Ahead : Smallest(Ahead) <= k
<1>1. Ahead \subseteq Nat
  BY KeysAreNumbers DEF Ahead
<1>2. Smallest(Ahead) \in Ahead /\ \A k \in Ahead : Smallest(Ahead) <= k
  BY <1>1, SmallestOf
<1>3. \A k \in Ahead : k \in Keys /\ k > cursor /\ m_objectsAlloc[k] \in Ids
  BY DEF Ahead, TypeOK
<1> QED
  BY <1>2, <1>3 DEF Here

LEMMA LastStampType ==
  ASSUME TypeOK, NEW o \in Ids
  PROVE  LastStamp(o) \in Seq(ObjectClass) /\ DOMAIN LastStamp(o) = Ids
<1> DEFINE changed == [objects[o] EXCEPT !.untilGcNumber = gcNumber + 1]
<1>1. PICK n \in Nat : Ids = 1 .. n /\ objects \in [1 .. n -> ObjectClass]
  BY ObjectsFunction
<1>2. changed \in ObjectClass
  <2>1. gcNumber \in Nat /\ objects[o] \in ObjectClass
    BY <1>1 DEF TypeOK
  <2>2. gcNumber + 1 \in Nat
    BY <2>1
  <2> QED
    BY <2>1, <2>2, NewUntilType
<1>3. [objects EXCEPT ![o].untilGcNumber = gcNumber + 1] = [objects EXCEPT ![o] = changed]
  OBVIOUS
<1> HIDE DEF changed
<1>4. [objects EXCEPT ![o] = changed] \in [1 .. n -> ObjectClass]
  BY <1>1, <1>2
<1>5. [objects EXCEPT ![o] = changed] \in Seq(ObjectClass)
  BY <1>4, SeqDef, Zenon
<1> QED
  BY <1>1, <1>3, <1>4, <1>5 DEF LastStamp, TypeOK, Ids

LEMMA WriteAllocType ==
  ASSUME TypeOK, WriteAlloc
  PROVE  TypeOK'
<1>1. CASE UNCHANGED <<objects, deleted, written, cursor>>
  BY ZenonT(40), <1>1 DEF TypeOK, WriteAlloc, heap, outside, Ids
<1>2. CASE ~UNCHANGED <<objects, deleted, written, cursor>>
  <2>1. /\ Ahead # {}
        /\ cursor' = Smallest(Ahead) /\ objects' = LastStamp(Here)
        /\ written' = Append(written, Here) /\ deleted' = deleted \cup {Here}
        /\ UNCHANGED <<pc, fault>>
    BY <1>2 DEF WriteAlloc, Ahead, Here
  <2>2. Here \in Ids /\ cursor' \in Keys
    BY <2>1, AheadFacts
  <2>3. objects' \in Seq(ObjectClass) /\ Ids' = Ids
    BY <2>1, <2>2, LastStampType DEF Ids
  <2>4. written' \in Seq(Ids) /\ deleted' \subseteq Ids
    BY <2>1, <2>2, WriteType
  <2>5. RecordsType'
    BY <2>3, <2>4 DEF RecordsType, TypeOK, WriteAlloc
  <2>6. ControlType' /\ UNCHANGED outside
    BY <2>1, <2>2 DEF ControlType, TypeOK, WriteAlloc
  <2> QED
    BY <2>3, <2>4, <2>5, <2>6, OutsideType
<1> QED
  BY <1>1, <1>2

LEMMA ClearType ==
  ASSUME TypeOK, ClearMaps
  PROVE  TypeOK'
BY DEF TypeOK, ClearMaps, Unlock, heap, outside, Ids

LEMMA ReleaseType ==
  ASSUME TypeOK, ReleaseInfo
  PROVE  TypeOK'
BY DEF TypeOK, ReleaseInfo, records, heap, outside, Ids

LEMMA InitType == ASSUME Init PROVE TypeOK
BY KeysAreNumbers DEF Init, TypeOK, Ids

LEMMA StepType == ASSUME TypeOK, [Next]_vars PROVE TypeOK'
<1>1. CASE ProgramStep
  BY <1>1, ClassLoadType, AllocatedType, DropType DEF ProgramStep
<1>2. CASE StartCollection
  BY <1>2, CollectionType DEF StartCollection
<1>3. CASE CollectorStep
  BY <1>3, SurvivingType, MovedType, RekeyType, MovedEndType, FinishedType,
     DeallocateType DEF CollectorStep
<1>4. CASE ShutdownBegin
  BY <1>4, ShutdownBeginType
<1>5. CASE ShutdownStep
  BY <1>5, WriteDeAllocType, WriteAllocType, ClearType, ReleaseType DEF ShutdownStep
<1>6. CASE UNCHANGED vars
  BY ZenonT(40), <1>6 DEF TypeOK, vars, profiler, records, shutdown, heap, outside, Ids
<1> QED
  BY <1>1, <1>2, <1>3, <1>4, <1>5, <1>6 DEF Next

\* Whatever the callbacks and Shutdown do, in whatever order, every variable
\* of the tracker keeps its type: no key and no list entry is other than a
\* record that was allocated.
THEOREM TypeCorrect == Spec => []TypeOK
BY InitType, StepType, PTL DEF Spec

-----------------------------------------------------------------------------
(* One owner for every record.  OneOwner is inductive: a record is put     *)
(* under a key when it is new, or when it has just been taken from another *)
(* key, and onto the list in the step that takes it from its key.          *)

\* OneOwner said of the keys, without the set of the records they hold.
Distinct ==
  /\ \A k, m \in Keys : m_objectsAlloc[k] # Nil
       /\ m_objectsAlloc[k] = m_objectsAlloc[m] => k = m
  /\ \A k \in Keys : m_objectsAlloc[k] # Nil => m_objectsAlloc[k] \notin m_objectsDeAlloc

LEMMA OwnerIsDistinct == OneOwner <=> Distinct
BY DEF OneOwner, Distinct, Tracked

LEMMA OwnerAllocated ==
  ASSUME TypeOK, Distinct, NEW a \in Addresses, NEW c \in Classes,
         NEW sizeTold \in BOOLEAN, ObjectAllocated(a, c, sizeTold)
  PROVE  Distinct'
<1>1. CASE ~info
  BY <1>1 DEF Distinct, ObjectAllocated, Crash, records
<1>2. CASE info
  <2> DEFINE new == Len(objects) + 1
  <2>1. new \notin Ids /\ new # Nil
    <3>1. Len(objects) \in Nat /\ Ids = 1 .. Len(objects)
      BY LenProperties DEF TypeOK, Ids
    <3> QED
      BY <3>1 DEF Nil
  <2>2. /\ \/ m_objectsAlloc' = [m_objectsAlloc EXCEPT ![a] = new]
           \/ UNCHANGED m_objectsAlloc
        /\ m_objectsDeAlloc' = m_objectsDeAlloc
    BY <1>2, AllocatedMap DEF ObjectAllocated
  <2>3. /\ m_objectsAlloc \in [Keys -> {Nil} \cup Ids]
        /\ m_objectsDeAlloc \subseteq Ids /\ a \in Keys
    BY KeysAreNumbers DEF TypeOK
  <2> HIDE DEF new
  <2> QED
    BY <2>1, <2>2, <2>3 DEF Distinct
<1> QED
  BY <1>1, <1>2

LEMMA OwnerRekeyed ==
  ASSUME TypeOK, Distinct, RekeyOne
  PROVE  Distinct'
<1> DEFINE key == Smallest(DOMAIN tmp_map)
<1>1. /\ DOMAIN tmp_map \subseteq Keys /\ DOMAIN tmp_map # {}
      /\ \A k \in DOMAIN tmp_map : tmp_map[k] \in Keys
  BY DEF TypeOK, RekeyOne
<1>2. key \in DOMAIN tmp_map
  BY <1>1, KeysAreNumbers, SmallestOf
<1>3. /\ m_objectsAlloc' = Rekeyed(key, tmp_map[key])
      /\ m_objectsDeAlloc' = m_objectsDeAlloc
  BY Zenon DEF RekeyOne
<1> HIDE DEF key
<1>4. m_objectsAlloc \in [Keys -> {Nil} \cup Ids]
  BY DEF TypeOK
<1>5. PICK new \in Keys : new = tmp_map[key]
  BY <1>1, <1>2
<1> QED
  BY <1>1, <1>2, <1>3, <1>4, <1>5 DEF Distinct, Rekeyed

LEMMA OwnerDeallocated ==
  ASSUME TypeOK, Distinct, DeallocateUnstamped
  PROVE  Distinct'
<1> DEFINE stale == {o \in Tracked : objects[o].untilGcNumber # gcNumber}
<1>1. CASE UNCHANGED <<m_objectsAlloc, m_objectsDeAlloc>>
  BY <1>1 DEF Distinct
<1>2. CASE ~UNCHANGED <<m_objectsAlloc, m_objectsDeAlloc>>
  <2>1. m_objectsDeAlloc' = Listed(stale) /\ m_objectsAlloc' = Without(stale)
    BY <1>2 DEF DeallocateUnstamped
  <2>2. Nil \notin stale
    BY DEF Tracked
  <2> HIDE DEF stale
  <2> QED
    BY <2>1, <2>2 DEF Distinct, Listed, Without
<1> QED
  BY <1>1, <1>2

LEMMA OwnerCleared == ASSUME ClearMaps PROVE Distinct'
BY DEF Distinct, ClearMaps

LEMMA OwnerStep == ASSUME TypeOK, OneOwner, [Next]_vars PROVE OneOwner'
<1> SUFFICES Distinct'
  BY DEF OneOwner, Distinct, Tracked
<1>1. Distinct
  BY OwnerIsDistinct
<1>2. CASE UNCHANGED <<m_objectsAlloc, m_objectsDeAlloc>>
  BY <1>1, <1>2 DEF Distinct
<1>3. CASE ProgramStep
  <2>1. ASSUME NEW c \in Classes, NEW named \in BOOLEAN, ClassLoadFinished(c, named)
        PROVE  UNCHANGED <<m_objectsAlloc, m_objectsDeAlloc>>
    BY <2>1 DEF ClassLoadFinished, Crash, records
  <2>2. ASSUME NEW o \in Ids, Drop(o)
        PROVE  UNCHANGED <<m_objectsAlloc, m_objectsDeAlloc>>
    BY <2>2 DEF Drop, profiler, records
  <2> QED
    BY <1>1, <1>2, <1>3, <2>1, <2>2, OwnerAllocated DEF ProgramStep
<1>4. CASE StartCollection
  BY <1>2, <1>4 DEF StartCollection, GarbageCollectionStarted, Crash, records
<1>5. CASE CollectorStep
  <2>1. ASSUME NEW ranges \in SUBSET todo, SurvivingReferences(ranges) \/ MovedReferences(ranges)
        PROVE  UNCHANGED <<m_objectsAlloc, m_objectsDeAlloc>>
    BY <2>1 DEF SurvivingReferences, MovedReferences
  <2>2. ASSUME MovedReferencesEnd \/ GarbageCollectionFinished
        PROVE  UNCHANGED <<m_objectsAlloc, m_objectsDeAlloc>>
    BY <2>2 DEF MovedReferencesEnd, GarbageCollectionFinished, profiler, records
  <2> QED
    BY <1>1, <1>2, <1>5, <2>1, <2>2, OwnerRekeyed, OwnerDeallocated DEF CollectorStep
<1>6. CASE ShutdownBegin
  BY <1>2, <1>6 DEF ShutdownBegin, profiler, records
<1>7. CASE ShutdownStep
  BY <1>1, <1>2, <1>7, OwnerCleared
     DEF ShutdownStep, WriteDeAlloc, WriteAlloc, ReleaseInfo, records
<1>8. CASE UNCHANGED vars
  BY <1>2, <1>8 DEF vars, profiler, records
<1> QED
  BY <1>3, <1>4, <1>5, <1>6, <1>7, <1>8 DEF Next

\* However the collector slides objects over each other, and whatever
\* Shutdown is doing meanwhile, no record comes to be under two keys, nor
\* under a key and in the list: Shutdown deletes each record at most once.
THEOREM OwnersAreUnique == Spec => []OneOwner
<1>1. Init => OneOwner
  BY DEF Init, OneOwner, Tracked
<1> QED
  BY <1>1, OwnerStep, TypeCorrect, PTL DEF Spec

-----------------------------------------------------------------------------
(* No use after delete.  What a callback may read depends on how far       *)
(* Shutdown has come, and Shutdown holds _lock from its first delete until *)
(* it has cleared the map: DeletedInv says which records are gone at each  *)
(* of its steps, and that the lock marks those steps.                      *)

Holding == {"dealloc", "alloc", "clear"}

\* No key holds a record that was deleted.
NoneDeleted == \A k \in Keys : m_objectsAlloc[k] \notin deleted

\* Before Shutdown nothing is deleted; while it writes the list, only records
\* of the list; while it writes the map, only those behind the cursor.
DeletedInv ==
  /\ lock = "shutdown" <=> pc \in Holding
  /\ pc = "running" => deleted = {}
  /\ pc = "dealloc" => deleted \subseteq m_objectsDeAlloc
  /\ pc = "alloc" => \A k \in Keys : m_objectsAlloc[k] \in deleted => k <= cursor
  /\ pc \notin {"alloc", "clear"} => NoneDeleted
  /\ fault # "freed"

LEMMA NilNotDeleted == ASSUME TypeOK PROVE Nil \notin Ids /\ Nil \notin deleted
<1>1. Nil \notin Ids
  BY ObjectsFunction DEF Nil
<1> QED
  BY <1>1 DEF TypeOK

LEMMA TrackedNotDeleted ==
  ASSUME NoneDeleted
  PROVE  Tracked \cap deleted = {}
BY DEF NoneDeleted, Tracked

\* With no deleted record under a key, stamping cannot meet one.
LEMMA StampNoFault ==
  ASSUME NoneDeleted, NEW keys \in SUBSET Keys, Stamp(keys), fault # "freed"
  PROVE  fault' # "freed"
BY DEF NoneDeleted, Stamp

LEMMA DeletedAllocated ==
  ASSUME TypeOK, DeletedInv, NEW a \in Addresses, NEW c \in Classes,
         NEW sizeTold \in BOOLEAN, ObjectAllocated(a, c, sizeTold)
  PROVE  DeletedInv'
<1>1. CASE ~info
  BY <1>1 DEF DeletedInv, NoneDeleted, ObjectAllocated, Crash, records, shutdown
<1>2. CASE info
  <2> DEFINE new == Len(objects) + 1
  <2>1. new \notin deleted
    <3>1. Len(objects) \in Nat /\ Ids = 1 .. Len(objects) /\ deleted \subseteq Ids
      BY LenProperties DEF TypeOK, Ids
    <3> QED
      BY <3>1
  <2>2. /\ \/ m_objectsAlloc' = [m_objectsAlloc EXCEPT ![a] = new]
           \/ UNCHANGED m_objectsAlloc
        /\ UNCHANGED <<m_objectsDeAlloc, deleted, fault, lock, shutdown>>
    BY <1>2, AllocatedMap DEF ObjectAllocated
  <2>3. m_objectsAlloc \in [Keys -> {Nil} \cup Ids] /\ a \in Keys
    BY KeysAreNumbers DEF TypeOK
  <2> HIDE DEF new
  <2> QED
    BY <2>1, <2>2, <2>3 DEF DeletedInv, NoneDeleted, shutdown
<1> QED
  BY <1>1, <1>2

LEMMA DeletedSurviving ==
  ASSUME TypeOK, DeletedInv, NEW ranges \in SUBSET todo, SurvivingReferences(ranges)
  PROVE  DeletedInv'
<1>1. UNCHANGED <<deleted, m_objectsAlloc, m_objectsDeAlloc, lock, shutdown>>
  BY DEF SurvivingReferences
<1>2. fault' # "freed"
  <2> DEFINE keys == {k \in Keys : \E r \in ranges : InRange(k, r)}
  <2>1. CASE isDeallocEnable
    <3>1. Stamp(keys) /\ NoneDeleted /\ fault # "freed"
      BY <2>1 DEF SurvivingReferences, LockIsFree, DeletedInv, Holding
    <3>2. keys \in SUBSET Keys
      OBVIOUS
    <3> HIDE DEF keys
    <3> QED
      BY <3>1, <3>2, StampNoFault
  <2>2. CASE ~isDeallocEnable
    BY <2>2 DEF SurvivingReferences, DeletedInv
  <2> QED
    BY <2>1, <2>2
<1> QED
  BY <1>1, <1>2 DEF DeletedInv, NoneDeleted, shutdown

LEMMA DeletedMoved ==
  ASSUME TypeOK, DeletedInv, NEW ranges \in SUBSET todo, MovedReferences(ranges)
  PROVE  DeletedInv'
<1>1. UNCHANGED <<deleted, m_objectsAlloc, m_objectsDeAlloc, shutdown>>
  BY DEF MovedReferences
<1>2. CASE isDeallocEnable
  <2>1. Stamp(Hit(ranges)) /\ lock = "free" /\ lock' = "moving"
    BY <1>2 DEF MovedReferences, TakeLock
  <2>2. NoneDeleted /\ fault # "freed" /\ pc \notin Holding
    BY <2>1 DEF DeletedInv, Holding
  <2>3. fault' # "freed"
    BY <2>1, <2>2, StampNoFault DEF Hit
  <2> QED
    BY <1>1, <2>1, <2>2, <2>3 DEF DeletedInv, NoneDeleted, shutdown
<1>3. CASE ~isDeallocEnable
  BY <1>1, <1>3 DEF DeletedInv, NoneDeleted, MovedReferences, shutdown
<1> QED
  BY <1>2, <1>3

LEMMA DeletedRekeyed ==
  ASSUME TypeOK, DeletedInv, RekeyOne
  PROVE  DeletedInv'
<1> DEFINE key == Smallest(DOMAIN tmp_map)
<1>1. /\ DOMAIN tmp_map \subseteq Keys /\ DOMAIN tmp_map # {}
      /\ \A k \in DOMAIN tmp_map : tmp_map[k] \in Keys
  BY DEF TypeOK, RekeyOne
<1>2. key \in DOMAIN tmp_map
  BY <1>1, KeysAreNumbers, SmallestOf
<1>3. /\ m_objectsAlloc' = Rekeyed(key, tmp_map[key])
      /\ UNCHANGED <<deleted, m_objectsDeAlloc, fault, lock, shutdown>>
      /\ lock = "moving"
  BY Zenon DEF RekeyOne
<1> HIDE DEF key
<1>4. m_objectsAlloc \in [Keys -> {Nil} \cup Ids]
  BY DEF TypeOK
<1>5. PICK new \in Keys : new = tmp_map[key]
  BY <1>1, <1>2
<1>6. NoneDeleted /\ pc \notin Holding
  BY <1>3 DEF DeletedInv, Holding
<1>7. NoneDeleted'
  BY <1>1, <1>2, <1>3, <1>4, <1>5, <1>6, NilNotDeleted DEF NoneDeleted, Rekeyed
<1> QED
  BY <1>3, <1>6, <1>7 DEF DeletedInv, shutdown, Holding

LEMMA DeletedDeallocated ==
  ASSUME TypeOK, DeletedInv, DeallocateUnstamped
  PROVE  DeletedInv'
<1> DEFINE stale == {o \in Tracked : objects[o].untilGcNumber # gcNumber}
<1>1. pc \notin Holding /\ NoneDeleted
  BY DEF DeallocateUnstamped, LockIsFree, DeletedInv, Holding
<1>2. /\ m_objectsAlloc' = Without(stale)
      /\ UNCHANGED <<fault, deleted, lock, shutdown>>
  BY <1>1, TrackedNotDeleted DEF DeallocateUnstamped
<1> HIDE DEF stale
<1>3. NoneDeleted'
  BY <1>1, <1>2, NilNotDeleted DEF NoneDeleted, Without
<1> QED
  BY <1>1, <1>2, <1>3 DEF DeletedInv, shutdown, Holding

LEMMA DeletedWriteDeAlloc ==
  ASSUME TypeOK, Distinct, DeletedInv, WriteDeAlloc
  PROVE  DeletedInv'
<1>1. /\ pc = "dealloc" /\ deleted \subseteq m_objectsDeAlloc /\ NoneDeleted
      /\ fault # "freed" /\ lock = "shutdown"
      /\ UNCHANGED <<m_objectsAlloc, m_objectsDeAlloc, fault, lock>>
  BY DEF WriteDeAlloc, At, DeletedInv, Holding
<1>2. CASE m_objectsDeAlloc \ deleted = {}
  BY <1>1, <1>2 DEF WriteDeAlloc, DeletedInv, NoneDeleted, Holding
<1>3. CASE m_objectsDeAlloc \ deleted # {}
  <2>1. PICK o \in m_objectsDeAlloc : deleted' = deleted \cup {o} /\ pc' = pc
    BY <1>3 DEF WriteDeAlloc
  <2>2. o # Nil
    BY NilNotDeleted DEF TypeOK
  <2>3. NoneDeleted'
    BY <1>1, <2>1, <2>2 DEF NoneDeleted, Distinct
  <2> QED
    BY <1>1, <2>1, <2>3 DEF DeletedInv, Holding
<1> QED
  BY <1>2, <1>3

LEMMA DeletedWriteAlloc ==
  ASSUME TypeOK, Distinct, DeletedInv, WriteAlloc
  PROVE  DeletedInv'
<1>1. /\ pc = "alloc" /\ fault # "freed" /\ lock = "shutdown"
      /\ \A k \in Keys : m_objectsAlloc[k] \in deleted => k <= cursor
      /\ UNCHANGED <<m_objectsAlloc, m_objectsDeAlloc, lock>>
  BY DEF WriteAlloc, At, DeletedInv, Holding
<1>2. CASE Ahead = {}
  BY <1>1, <1>2 DEF WriteAlloc, Ahead, DeletedInv, Holding
<1>3. CASE Ahead # {}
  <2> DEFINE next == Smallest(Ahead)
  <2>1. next \in Keys /\ next > cursor /\ Here \in Ids /\ Here = m_objectsAlloc[next]
    BY <1>3, AheadFacts DEF Here
  <2>2. cursor \in Nat /\ Keys \subseteq Nat
    <3>1. cursor \in Keys \cup {0}
      BY DEF TypeOK
    <3> QED
      BY <3>1, KeysAreNumbers
  <2> HIDE DEF next
  <2>3. Here \notin deleted
    BY <1>1, <2>1, <2>2
  <2>4. cursor' = next /\ deleted' = deleted \cup {Here} /\ UNCHANGED <<pc, fault>>
    BY <1>3, <2>3 DEF WriteAlloc, Ahead, Here, next
  <2>5. Here # Nil
    BY <2>1, NilNotDeleted
  <2>6. \A k \in Keys : m_objectsAlloc[k] = Here => k = next
    BY <2>1, <2>5 DEF Distinct
  <2>7. \A k \in Keys : m_objectsAlloc'[k] \in deleted' => k <= cursor'
    BY <1>1, <2>1, <2>2, <2>4, <2>6
  <2> QED
    BY <1>1, <2>4, <2>7 DEF DeletedInv, Holding
<1> QED
  BY <1>2, <1>3

LEMMA DeletedCleared ==
  ASSUME TypeOK, DeletedInv, ClearMaps
  PROVE  DeletedInv'
BY NilNotDeleted DEF DeletedInv, NoneDeleted, ClearMaps, Unlock, Holding

\* A step that leaves the map, the list, the lock and Shutdown alone, and may
\* at most find _info released, leaves DeletedInv alone.
Quiet ==
  /\ UNCHANGED <<deleted, m_objectsAlloc, m_objectsDeAlloc, pc, cursor>>
  /\ lock = "shutdown" <=> lock' = "shutdown"
  /\ fault' \in {fault, "info"}

LEMMA QuietDeleted == ASSUME DeletedInv, Quiet PROVE DeletedInv'
BY DEF DeletedInv, Quiet, NoneDeleted

LEMMA DeletedStep ==
  ASSUME TypeOK, OneOwner, DeletedInv, [Next]_vars
  PROVE  DeletedInv'
<1>1. Distinct
  BY OwnerIsDistinct
<1>2. CASE ProgramStep
  <2>1. ASSUME NEW c \in Classes, NEW named \in BOOLEAN, ClassLoadFinished(c, named)
        PROVE  Quiet
    BY <2>1 DEF ClassLoadFinished, Crash, records, shutdown, Quiet
  <2>2. ASSUME NEW o \in Ids, Drop(o)
        PROVE  Quiet
    BY <2>2 DEF Drop, profiler, records, shutdown, Quiet
  <2> QED
    BY <1>2, <2>1, <2>2, QuietDeleted, DeletedAllocated DEF ProgramStep
<1>3. CASE StartCollection
  <2>1. ASSUME NEW kind \in Kinds, NEW oldest \in Collected,
               GarbageCollectionStarted(kind, oldest)
        PROVE  Quiet
    BY <2>1 DEF GarbageCollectionStarted, Crash, records, shutdown, Quiet
  <2> QED
    BY <1>3, <2>1, QuietDeleted DEF StartCollection
<1>4. CASE CollectorStep
  <2>1. CASE MovedReferencesEnd
    BY <2>1, QuietDeleted DEF MovedReferencesEnd, profiler, records, shutdown, Quiet
  <2>2. CASE GarbageCollectionFinished
    BY <2>2, QuietDeleted DEF GarbageCollectionFinished, records, shutdown, Quiet
  <2> QED
    BY <1>4, <2>1, <2>2, DeletedSurviving, DeletedMoved, DeletedRekeyed,
       DeletedDeallocated DEF CollectorStep
<1>5. CASE ShutdownBegin
  BY <1>5 DEF ShutdownBegin, At, TakeLock, profiler, records, DeletedInv,
              NoneDeleted, Holding
<1>6. CASE ShutdownStep
  <2>1. CASE ReleaseInfo
    BY <2>1 DEF ReleaseInfo, At, records, DeletedInv, NoneDeleted, Holding
  <2> QED
    BY <1>1, <1>6, <2>1, DeletedWriteDeAlloc, DeletedWriteAlloc, DeletedCleared
       DEF ShutdownStep
<1>7. CASE UNCHANGED vars
  BY <1>7, QuietDeleted DEF vars, profiler, records, shutdown, Quiet
<1> QED
  BY <1>2, <1>3, <1>4, <1>5, <1>6, <1>7 DEF Next

\* A collection that Shutdown overtook, or that overtakes Shutdown, never
\* reads a record Shutdown deleted: the lock covers the deletes and the
\* clearing of the map, and after that no key leads to a deleted record.
THEOREM NothingDeletedIsUsed == Spec => []NoUseAfterDelete
<1>1. Init => DeletedInv
  BY DEF Init, DeletedInv, NoneDeleted, Holding
<1>2. DeletedInv => NoUseAfterDelete
  BY DEF DeletedInv, NoUseAfterDelete
<1> QED
  BY <1>1, <1>2, DeletedStep, OwnersAreUnique, TypeCorrect, PTL DEF Spec

-----------------------------------------------------------------------------
(* The stamp of the last collection.  While the keys are being changed the *)
(* collection is still on, and the collection ends in the step that takes  *)
(* every record without the stamp out of the map.                          *)

Until(o) == objects[o].untilGcNumber
StampedKeys == \A k \in Keys : m_objectsAlloc[k] # Nil => Until(m_objectsAlloc[k]) = gcNumber
StampedInv ==
  /\ lock = "moving" => gc = "compacting"
  /\ isDeallocEnable /\ gc = "none" /\ pc = "running" => StampedKeys

LEMMA StampedTracked ==
  TrackedAreStamped <=> (isDeallocEnable /\ gc = "none" /\ pc = "running" => StampedKeys)
BY DEF TrackedAreStamped, StampedKeys, Tracked, Until

LEMMA StampedQuiet ==
  ASSUME StampedInv, UNCHANGED <<objects, m_objectsAlloc, gcNumber, gc, lock, pc>>,
         UNCHANGED isDeallocEnable
  PROVE  StampedInv'
BY DEF StampedInv, StampedKeys, Until

LEMMA SequenceOf ==
  ASSUME NEW S, NEW n \in Nat, NEW fun \in [1 .. n -> S]
  PROVE  fun \in Seq(S) /\ Len(fun) = n
<1>1. fun \in Seq(S)
  BY SeqDef, Zenon
<1> QED
  BY <1>1, LenProperties, DOMAIN fun = 1 .. n

\* What an allocation adds to the records.
LEMMA AllocatedRecord ==
  ASSUME TypeOK, info, NEW a \in Addresses, NEW c \in Classes,
         NEW sizeTold \in BOOLEAN, ObjectAllocated(a, c, sizeTold)
  PROVE  \E new \in Nat :
           /\ new \notin Ids /\ Ids' = Ids \cup {new} /\ new # Nil
           /\ objects'[new].untilGcNumber = gcNumber
           /\ place'[new] = a /\ lastSurvived'[new] = gcNumber
           /\ objects'[new].objectId = a
           /\ \/ /\ m_objectsAlloc' = [m_objectsAlloc EXCEPT ![a] = new]
                 /\ sized' = sized \cup {new}
              \/ UNCHANGED <<m_objectsAlloc, sized>>
           /\ \A o \in Ids : /\ objects'[o] = objects[o] /\ place'[o] = place[o]
                             /\ lastSurvived'[o] = lastSurvived[o]
                             /\ o < new
<1> DEFINE name == IF m_classes[c] = "absent" THEN "" ELSE m_classes[c]
           o    == [objectId |-> a, typeName |-> name,
                    gcNumber |-> gcNumber, untilGcNumber |-> gcNumber]
           n    == Len(objects)
<1>1. o \in ObjectClass /\ o.untilGcNumber = gcNumber /\ o.objectId = a
  BY DEF TypeOK, ObjectClass
<1>2. /\ objects \in Seq(ObjectClass) /\ objects' = Append(objects, o)
      /\ place' = Append(place, a) /\ lastSurvived' = Append(lastSurvived, gcNumber)
  BY DEF ObjectAllocated, TypeOK
<1>9. \/ /\ m_objectsAlloc' = [m_objectsAlloc EXCEPT ![a] = n + 1]
         /\ sized' = sized \cup {n + 1}
      \/ UNCHANGED <<m_objectsAlloc, sized>>
  BY AllocatedMap
<1> HIDE DEF o
<1>3. /\ n \in Nat /\ Ids = 1 .. n /\ Ids' = 1 .. n + 1 /\ objects'[n + 1] = o
      /\ \A i \in 1 .. n : objects'[i] = objects[i]
  BY <1>1, <1>2, AppendProperties, LenProperties DEF Ids
<1> HIDE DEF n
<1>4. place \in Seq({Nil} \cup Addresses) /\ Len(place) = n
  <2>1. place \in [1 .. n -> {Nil} \cup Addresses]
    BY <1>3 DEF TypeOK
  <2> QED
    BY ONLY <1>3, <2>1, SequenceOf
<1>5. lastSurvived \in Seq(Nat) /\ Len(lastSurvived) = n
  <2>1. lastSurvived \in [1 .. n -> Nat]
    BY <1>3 DEF TypeOK
  <2> QED
    BY ONLY <1>3, <2>1, SequenceOf
<1>6. place'[n + 1] = a /\ \A i \in 1 .. n : place'[i] = place[i]
  BY <1>2, <1>4, AppendProperties
<1>7. lastSurvived'[n + 1] = gcNumber /\ \A i \in 1 .. n : lastSurvived'[i] = lastSurvived[i]
  <2>1. gcNumber \in Nat
    BY DEF TypeOK
  <2> QED
    BY <2>1, <1>2, <1>5, AppendProperties
<1>8. /\ n + 1 \in Nat /\ n + 1 \notin 1 .. n /\ 1 .. n + 1 = 1 .. n \cup {n + 1}
      /\ n + 1 # Nil /\ \A i \in 1 .. n : i < n + 1
  BY <1>3 DEF Nil
<1> QED
  BY <1>1, <1>3, <1>6, <1>7, <1>8, <1>9

LEMMA StampedAllocated ==
  ASSUME TypeOK, StampedInv, NEW a \in Addresses, NEW c \in Classes,
         NEW sizeTold \in BOOLEAN, ObjectAllocated(a, c, sizeTold)
  PROVE  StampedInv'
<1>1. CASE ~info
  BY <1>1, StampedQuiet DEF ObjectAllocated, Crash, records, shutdown
<1>2. CASE info
  <2>1. PICK new \in Nat :
           /\ new \notin Ids /\ new # Nil
           /\ objects'[new].untilGcNumber = gcNumber
           /\ \/ m_objectsAlloc' = [m_objectsAlloc EXCEPT ![a] = new]
              \/ UNCHANGED m_objectsAlloc
           /\ \A o \in Ids : objects'[o] = objects[o]
    BY <1>2, AllocatedRecord
  <2>2. UNCHANGED <<gcNumber, gc, lock, pc, isDeallocEnable>>
    BY <1>2 DEF ObjectAllocated, shutdown
  <2>3. m_objectsAlloc \in [Keys -> {Nil} \cup Ids] /\ a \in Keys
    BY KeysAreNumbers DEF TypeOK
  <2>4. StampedKeys => StampedKeys'
    BY <2>1, <2>2, <2>3 DEF StampedKeys, Until
  <2> QED
    BY <2>2, <2>4 DEF StampedInv
<1> QED
  BY <1>1, <1>2

LEMMA StampedDeallocated ==
  ASSUME TypeOK, DeletedInv, StampedInv, DeallocateUnstamped
  PROVE  StampedInv'
<1> DEFINE stale == {o \in Tracked : objects[o].untilGcNumber # gcNumber}
<1>1. NoneDeleted /\ lock = "free" /\ UNCHANGED <<objects, gcNumber, lock, pc>>
  BY DEF DeallocateUnstamped, LockIsFree, DeletedInv, Holding, shutdown
<1>2. m_objectsAlloc' = Without(stale)
  BY <1>1, TrackedNotDeleted DEF DeallocateUnstamped
<1>3. \A k \in Keys : m_objectsAlloc[k] # Nil /\ m_objectsAlloc[k] \notin stale =>
        Until(m_objectsAlloc[k]) = gcNumber
  BY DEF Tracked, Until
<1> HIDE DEF stale
<1>4. StampedKeys'
  BY <1>1, <1>2, <1>3 DEF StampedKeys, Without, Until
<1> QED
  BY <1>1, <1>4 DEF StampedInv

LEMMA StampedStep ==
  ASSUME TypeOK, DeletedInv, StampedInv, [Next]_vars
  PROVE  StampedInv'
<1>1. CASE ProgramStep
  <2>1. ASSUME NEW c \in Classes, NEW named \in BOOLEAN, ClassLoadFinished(c, named)
        PROVE  StampedInv'
    BY <2>1, StampedQuiet DEF ClassLoadFinished, Crash, records, shutdown, outside
  <2>2. ASSUME NEW o \in Ids, Drop(o)
        PROVE  StampedInv'
    BY <2>2, StampedQuiet DEF Drop, profiler, records, shutdown
  <2> QED
    BY <1>1, <2>1, <2>2, StampedAllocated DEF ProgramStep
<1>2. CASE StartCollection
  <2>1. ASSUME NEW kind \in Kinds, NEW oldest \in Collected,
               GarbageCollectionStarted(kind, oldest)
        PROVE  StampedInv'
    <3>1. gc = "none" /\ gc' # "none" /\ lock' = lock
      BY <2>1 DEF GarbageCollectionStarted, Kinds
    <3> QED
      BY <3>1 DEF StampedInv
  <2> QED
    BY <1>2, <2>1 DEF StartCollection
<1>3. CASE CollectorStep
  <2>1. ASSUME NEW ranges, SurvivingReferences(ranges) PROVE StampedInv'
    <3>1. gc = "sweeping" /\ UNCHANGED <<gc, lock>>
      BY <2>1 DEF SurvivingReferences
    <3> QED
      BY <3>1 DEF StampedInv
  <2>2. ASSUME NEW ranges, MovedReferences(ranges) PROVE StampedInv'
    <3>1. gc = "compacting" /\ UNCHANGED gc
      BY <2>2 DEF MovedReferences
    <3> QED
      BY <3>1 DEF StampedInv
  <2>3. CASE RekeyOne
    <3>1. lock = "moving" /\ UNCHANGED <<gc, lock>>
      BY <2>3 DEF RekeyOne
    <3> QED
      BY <3>1 DEF StampedInv
  <2>4. CASE MovedReferencesEnd
    <3>1. lock = "moving" /\ lock' = "free" /\ UNCHANGED gc
      BY <2>4 DEF MovedReferencesEnd
    <3> QED
      BY <3>1 DEF StampedInv
  <2>5. CASE GarbageCollectionFinished
    <3>1. gc # "none" /\ lock' = lock /\ lock # "moving"
      BY <2>5 DEF GarbageCollectionFinished, Kinds
    <3>2. isDeallocEnable' = isDeallocEnable
      BY <2>5 DEF GarbageCollectionFinished, outside
    <3>3. CASE isDeallocEnable
      <4>1. gc' \in {gc, "finishing"}
        BY <2>5, <3>3 DEF GarbageCollectionFinished
      <4> QED
        BY <3>1, <4>1 DEF StampedInv
    <3>4. CASE ~isDeallocEnable
      BY <3>1, <3>2, <3>4 DEF StampedInv
    <3> QED
      BY <3>3, <3>4
  <2> QED
    BY <1>3, <2>1, <2>2, <2>3, <2>4, <2>5, StampedDeallocated DEF CollectorStep
<1>4. CASE ShutdownBegin
  BY <1>4 DEF ShutdownBegin, TakeLock, StampedInv
<1>5. CASE ShutdownStep
  <2>1. pc # "running" /\ pc' # "running" /\ gc' = gc /\ (lock' = lock \/ lock' = "free")
    BY <1>5 DEF ShutdownStep, WriteDeAlloc, WriteAlloc, ClearMaps, ReleaseInfo, At, Unlock
  <2> QED
    BY <2>1 DEF StampedInv
<1>6. CASE UNCHANGED vars
  BY <1>6, StampedQuiet DEF vars, profiler, records, shutdown, outside
<1> QED
  BY <1>1, <1>2, <1>3, <1>4, <1>5, <1>6 DEF Next

\* With the search for dead objects on, whatever a collection reported and
\* however it moved objects over each other, every record in the map bears the
\* number of the last collection once it is over: GarbageCollectionFinished
\* leaves none behind that the next one could take for dead
\* (CoreProfiler.cpp:923-941).
THEOREM TrackedBearTheNumber == Spec => []TrackedAreStamped
<1>1. Init => StampedInv
  BY DEF Init, StampedInv, StampedKeys
<1>2. Init => DeletedInv
  BY DEF Init, DeletedInv, NoneDeleted, Holding
<1>3. TypeOK /\ DeletedInv /\ StampedInv /\ [Next]_vars => StampedInv'
  BY StampedStep
<1>4. TypeOK /\ OneOwner /\ DeletedInv /\ [Next]_vars => DeletedInv'
  BY DeletedStep
<1>5. StampedInv => TrackedAreStamped
  BY StampedTracked DEF StampedInv
<1> QED
  BY <1>1, <1>2, <1>3, <1>4, <1>5, OwnersAreUnique, TypeCorrect, PTL DEF Spec

-----------------------------------------------------------------------------
(* Collections that sweep every generation.  Then the profiler is told of  *)
(* every survivor and nothing moves: the map is the heap and the list is   *)
(* what died.  With collections that compact, or that leave generations    *)
(* out, this is false, which the runs of the model show.                   *)

Sweeps == Shifts = {} /\ Collected \subseteq {OldestGen}

\* A survivor is in a run of survivors that ends on both sides.
LEMMA RunAround ==
  ASSUME NEW P, P \subseteq Addresses, NEW p \in P
  PROVE  \E lo, hi \in Nat :
           /\ 1 <= lo /\ lo <= p /\ p < hi /\ hi <= LastAddress + 1
           /\ \A a \in lo .. hi - 1 : a \in P
           /\ lo - 1 \notin P /\ hi \notin P
<1> USE HeapAssumption
<1>1. p \in Nat /\ 1 <= p /\ p <= LastAddress
  BY DEF Addresses
<1>2. PICK hi \in Nat : p < hi /\ hi <= LastAddress + 1 /\ hi \notin P
                        /\ \A a \in p .. hi - 1 : a \in P
  <2> DEFINE S == {a \in Nat : p < a /\ a <= LastAddress + 1 /\ a \notin P}
  <2>1. LastAddress + 1 \in S
    BY <1>1 DEF Addresses
  <2>2. PICK hi \in S : \A y \in S : hi <= y
    <3>1. S \subseteq Nat /\ S # {}
      BY <2>1
    <3> HIDE DEF S
    <3> QED
      BY <3>1, LeastNatural
  <2>3. ASSUME NEW a \in p .. hi - 1 PROVE a \in P
    <3>1. a = p \/ (a \in Nat /\ p < a /\ a <= LastAddress + 1 /\ ~(hi <= a))
      BY <1>1, <2>2
    <3> QED
      BY <2>2, <3>1
  <2> QED
    BY <2>2, <2>3
<1>3. PICK lo \in Nat : 1 <= lo /\ lo <= p /\ lo - 1 \notin P
                        /\ \A a \in lo .. p : a \in P
  <2> DEFINE T == {d \in Nat : d <= p /\ p - d \notin P}
  <2>1. p \in T
    BY <1>1 DEF Addresses
  <2>2. PICK d \in T : \A y \in T : d <= y
    <3>1. T \subseteq Nat /\ T # {}
      BY <2>1
    <3> HIDE DEF T
    <3> QED
      BY <3>1, LeastNatural
  <2>3. d \in Nat /\ d <= p /\ p - d \notin P /\ d # 0
    BY <1>1, <2>2
  <2>4. ASSUME NEW a \in p - d + 1 .. p PROVE a \in P
    <3>1. p - a \in Nat /\ p - a <= p /\ ~(d <= p - a) /\ p - (p - a) = a
      BY <1>1, <2>3
    <3> QED
      BY <2>2, <3>1
  <2>5. p - d + 1 \in Nat /\ 1 <= p - d + 1 /\ p - d + 1 <= p /\ (p - d + 1) - 1 = p - d
    BY <1>1, <2>3
  <2> QED
    BY <2>3, <2>4, <2>5
<1>4. \A a \in lo .. hi - 1 : a \in P
  <2> SUFFICES ASSUME NEW a \in lo .. hi - 1 PROVE a \in P
    OBVIOUS
  <2>1. a \in lo .. p \/ a \in p .. hi - 1
    BY <1>1
  <2> QED
    BY <2>1, <1>2, <1>3
<1> QED
  BY <1>2, <1>3, <1>4

\* So it is in a range that a sweeping collection reports.
LEMMA SurvivorReported ==
  ASSUME NEW to, \A o \in DOMAIN to : to[o] = place[o] /\ place[o] \in Addresses,
         NEW o \in DOMAIN to
  PROVE  \E r \in Plugs(to) : InRange(place[o], r)
<1> DEFINE P == {place[q] : q \in DOMAIN to}
           Moves(a, b) == \E q \in DOMAIN to : place[q] = a /\ to[q] = b
<1>1. P \subseteq Addresses /\ place[o] \in P
  OBVIOUS
<1>2. \A a : Moves(a, a) <=> a \in P
  OBVIOUS
<1> HIDE DEF P
<1>3. PICK lo, hi \in Nat :
         /\ 1 <= lo /\ lo <= place[o] /\ place[o] < hi /\ hi <= LastAddress + 1
         /\ \A a \in lo .. hi - 1 : a \in P
         /\ lo - 1 \notin P /\ hi \notin P
  BY <1>1, RunAround
<1>4. place[o] \in Nat
  BY <1>1, KeysAreNumbers
<1> DEFINE r == [old |-> lo, new |-> lo, len |-> hi - lo]
<1>5. hi - lo \in Addresses /\ lo \in Addresses /\ lo + (hi - lo) = hi
  BY <1>3, <1>4, HeapAssumption DEF Addresses
<1>6. r \in Plug
  BY <1>3, <1>5 DEF Plug
<1>7. r.old = lo /\ r.new = lo /\ r.len = hi - lo
  OBVIOUS
<1> HIDE DEF r
<1>8. \A k \in 0 .. r.len - 1 : Moves(r.old + k, r.new + k)
  <2> SUFFICES ASSUME NEW k \in 0 .. hi - lo - 1 PROVE Moves(lo + k, lo + k)
    BY <1>7
  <2>1. lo + k \in lo .. hi - 1
    BY <1>3
  <2> QED
    BY <2>1, <1>2, <1>3
<1>9. ~Moves(r.old - 1, r.new - 1) /\ ~Moves(r.old + r.len, r.new + r.len)
  BY <1>2, <1>3, <1>5, <1>7
<1>10. r \in Plugs(to)
  BY <1>6, <1>8, <1>9 DEF Plugs
<1>11. InRange(place[o], r)
  BY <1>3, <1>5, <1>7 DEF InRange
<1> QED
  BY <1>10, <1>11

\* Such a range takes in survivors and nothing else.
LEMMA ReportedSurvived ==
  ASSUME NEW to, NEW r \in Plugs(to), NEW k \in Keys, InRange(k, r)
  PROVE  \E o \in DOMAIN to : place[o] = k
<1>1. r.old \in Nat /\ r.new \in Nat /\ r.len \in Nat /\ k \in Nat
  BY KeysAreNumbers DEF Plugs, Plug
<1>2. k - r.old \in 0 .. r.len - 1 /\ r.old + (k - r.old) = k
  BY <1>1 DEF InRange
<1>3. \A i \in 0 .. r.len - 1 :
        \E o \in DOMAIN to : place[o] = r.old + i /\ to[o] = r.new + i
  BY DEF Plugs
<1> QED
  BY <1>2, <1>3

\* A key is in a range that is still to be reported.
Covered(k) == \E r \in todo : InRange(k, r)

\* A record is of an object whose size was told.
RecordedInv ==
  /\ \A k \in Keys : m_objectsAlloc[k] \in sized \cup {Nil}
  /\ m_objectsDeAlloc \subseteq sized

\* What died has its last number, and is in the list or, until the collection
\* is over, in the map.
GoneInv ==
  \A o \in sized : place[o] = Nil =>
    /\ lastSurvived[o] < gcNumber /\ Until(o) = lastSurvived[o]
    /\ \/ o \in m_objectsDeAlloc
       \/ gc # "none" /\ \E k \in Keys : m_objectsAlloc[k] = o

\* What lives is under its address and has the number of the collection, or
\* will have it from a range to come.
PlacedInv ==
  \A o \in sized : place[o] # Nil =>
    /\ m_objectsAlloc[place[o]] = o /\ lastSurvived[o] = gcNumber
    /\ Until(o) = gcNumber \/ (gc = "sweeping" /\ Covered(place[o]))

\* No two objects are in one place.
Apart == \A o, p \in Ids : place[o] # Nil /\ place[o] = place[p] => o = p

\* A key has the record of the object at it or, until the collection is over,
\* of one that died, and no range to come takes in such a key.
KeyInv ==
  \A k \in Keys : m_objectsAlloc[k] # Nil =>
    \/ place[m_objectsAlloc[k]] = k
    \/ /\ gc # "none" /\ place[m_objectsAlloc[k]] = Nil
       /\ ~(gc = "sweeping" /\ Covered(k))

SweepInv ==
  isDeallocEnable /\ pc = "running" =>
    /\ info /\ lock = "free" /\ gc # "compacting"
    /\ GoneInv /\ PlacedInv /\ KeyInv /\ Apart

LEMMA SweepQuiet ==
  ASSUME SweepInv, UNCHANGED <<objects, m_objectsAlloc, m_objectsDeAlloc, gcNumber, info,
                               lock, gc, todo, place, lastSurvived, pc>>,
         UNCHANGED <<sized, isDeallocEnable>>
  PROVE  SweepInv'
BY DEF SweepInv, GoneInv, PlacedInv, KeyInv, Apart, Covered, Until, Ids

\* An allocation finds the key of its address free.
LEMMA SweepAllocated ==
  ASSUME TypeOK, SweepInv, NEW a \in Addresses, NEW c \in Classes,
         NEW sizeTold \in BOOLEAN, ObjectAllocated(a, c, sizeTold)
  PROVE  SweepInv'
<1> SUFFICES ASSUME isDeallocEnable, pc = "running"
             PROVE  SweepInv'
  BY DEF SweepInv, ObjectAllocated, shutdown
<1>1. /\ info /\ lock = "free" /\ gc = "none"
      /\ GoneInv /\ PlacedInv /\ KeyInv /\ Apart
      /\ \A o \in Ids : place[o] # a
  BY DEF SweepInv, ObjectAllocated, Executes
<1>2. PICK new \in Nat :
           /\ new \notin Ids /\ Ids' = Ids \cup {new} /\ new # Nil
           /\ objects'[new].untilGcNumber = gcNumber
           /\ place'[new] = a /\ lastSurvived'[new] = gcNumber
           /\ \/ /\ m_objectsAlloc' = [m_objectsAlloc EXCEPT ![a] = new]
                 /\ sized' = sized \cup {new}
              \/ UNCHANGED <<m_objectsAlloc, sized>>
           /\ \A o \in Ids : /\ objects'[o] = objects[o] /\ place'[o] = place[o]
                             /\ lastSurvived'[o] = lastSurvived[o]
  BY <1>1, AllocatedRecord
<1>3. UNCHANGED <<m_objectsDeAlloc, gcNumber, info, lock, gc, pc>>
  BY <1>1 DEF ObjectAllocated, shutdown
<1>4. /\ m_objectsAlloc \in [Keys -> {Nil} \cup Ids] /\ a \in Keys /\ a # Nil
      /\ \A o \in Ids : place[o] \in {Nil} \cup Keys
      /\ sized \subseteq Ids
  BY KeysAreNumbers DEF TypeOK, Nil
<1>5. GoneInv'
  <2> SUFFICES ASSUME NEW o \in sized', place'[o] = Nil
               PROVE  /\ lastSurvived'[o] < gcNumber' /\ Until(o)' = lastSurvived'[o]
                      /\ o \in m_objectsDeAlloc'
    BY DEF GoneInv
  <2>1. o \in Ids /\ o \in sized
    BY <1>2, <1>4
  <2> QED
    BY <1>1, <1>2, <1>3, <2>1 DEF GoneInv, Until
<1>6. PlacedInv'
  <2> SUFFICES ASSUME NEW o \in sized', place'[o] # Nil
               PROVE  /\ m_objectsAlloc'[place'[o]] = o /\ lastSurvived'[o] = gcNumber'
                      /\ Until(o)' = gcNumber'
    BY DEF PlacedInv
  <2>1. CASE o \notin sized
    BY <1>2, <1>3, <1>4, <2>1 DEF Until
  <2>2. CASE o \in sized
    <3>1. o \in Ids /\ place[o] # a /\ place[o] \in Keys \cup {Nil}
      BY <1>1, <1>4, <2>2
    <3> QED
      BY <1>1, <1>2, <1>3, <1>4, <2>2, <3>1 DEF PlacedInv, Until
  <2> QED
    BY <2>1, <2>2
<1>7. KeyInv'
  <2> SUFFICES ASSUME NEW k \in Keys, m_objectsAlloc'[k] # Nil
               PROVE  place'[m_objectsAlloc'[k]] = k
    BY DEF KeyInv
  <2>1. CASE m_objectsAlloc'[k] = new /\ k = a
    BY <1>2, <2>1
  <2>2. CASE m_objectsAlloc'[k] = m_objectsAlloc[k]
    <3>1. m_objectsAlloc[k] \in Ids /\ place[m_objectsAlloc[k]] = k
      BY <1>1, <1>4, <2>2 DEF KeyInv
    <3> QED
      BY <1>2, <2>2, <3>1
  <2> QED
    BY <1>2, <1>4, <2>1, <2>2
<1>8. Apart'
  BY <1>1, <1>2, <1>4 DEF Apart
<1> QED
  BY <1>1, <1>3, <1>5, <1>6, <1>7, <1>8 DEF SweepInv

\* The collection kills what is not reachable and reports the rest.
LEMMA SweepStarted ==
  ASSUME Sweeps, TypeOK, SweepInv, NEW kind \in Kinds, NEW oldest \in Collected,
         GarbageCollectionStarted(kind, oldest)
  PROVE  SweepInv'
<1> SUFFICES ASSUME isDeallocEnable, pc = "running"
             PROVE  SweepInv'
  BY DEF SweepInv, GarbageCollectionStarted, shutdown
<1>1. /\ info /\ lock = "free" /\ gc = "none"
      /\ GoneInv /\ PlacedInv /\ KeyInv /\ Apart
  BY DEF SweepInv, GarbageCollectionStarted
<1>2. kind = "sweeping" /\ oldest = OldestGen
  BY DEF Sweeps, Kinds
<1>3. PICK to \in Plans(kind, oldest) :
       /\ todo' = Plugs(to)
       /\ place' = [o \in Ids |-> IF o \in DOMAIN to THEN to[o]
                                  ELSE IF o \in InReach(oldest) THEN Nil
                                  ELSE place[o]]
       /\ lastSurvived' = [o \in Ids |->
            IF place'[o] = Nil THEN lastSurvived[o] ELSE gcNumber + 1]
  BY DEF GarbageCollectionStarted
<1>4. /\ UNCHANGED <<objects, m_objectsAlloc, m_objectsDeAlloc, info, lock, pc>>
      /\ gcNumber' = gcNumber + 1 /\ gc' = "sweeping" /\ Ids' = Ids /\ sized' = sized
  BY <1>1, <1>2 DEF GarbageCollectionStarted, NextNumber, records, shutdown, Ids
<1>5. /\ gcNumber \in Nat /\ \A o \in Ids : lastSurvived[o] \in Nat
      /\ \A o \in Ids : place[o] \in {Nil} \cup Addresses
      /\ \A o \in Ids : gen[o] \in 0 .. OldestGen
      /\ sized \subseteq Ids /\ m_objectsAlloc \in [Keys -> {Nil} \cup Ids]
  BY DEF TypeOK
<1>6. \A o \in Ids : o \in InReach(oldest) <=> place[o] # Nil
  BY <1>2, <1>5, GenAssumption DEF InReach
<1>7. /\ DOMAIN to = InReach(oldest) \cap reachable
      /\ \A o \in DOMAIN to : to[o] \in Addresses /\ to[o] - place[o] = 0
  BY <1>2 DEF Plans
<1>8. \A o \in DOMAIN to : o \in Ids /\ to[o] = place[o] /\ place[o] \in Addresses
  <2> SUFFICES ASSUME NEW o \in DOMAIN to
               PROVE  o \in Ids /\ to[o] = place[o] /\ place[o] \in Addresses
    OBVIOUS
  <2>1. o \in Ids /\ place[o] \in Addresses
    BY <1>5, <1>6, <1>7 DEF InReach
  <2>2. to[o] \in Int /\ place[o] \in Int
    <3>1. Addresses \subseteq Int /\ to[o] \in Addresses
      BY <1>7, HeapAssumption DEF Addresses
    <3> QED
      BY <2>1, <3>1
  <2> QED
    BY <1>7, <2>1, <2>2
<1>9. \A o \in Ids : place'[o] = IF o \in DOMAIN to THEN place[o] ELSE Nil
  BY <1>3, <1>6, <1>8
<1>10. GoneInv'
  <2> SUFFICES ASSUME NEW o \in sized, place'[o] = Nil
               PROVE  /\ lastSurvived'[o] < gcNumber' /\ Until(o)' = lastSurvived'[o]
                      /\ \/ o \in m_objectsDeAlloc'
                         \/ gc' # "none" /\ \E k \in Keys : m_objectsAlloc'[k] = o
    BY <1>4 DEF GoneInv
  <2>1. lastSurvived'[o] = lastSurvived[o] /\ Until(o)' = Until(o)
    BY <1>3, <1>4, <1>5 DEF Until
  <2>2. CASE place[o] = Nil
    BY <1>1, <1>4, <1>5, <2>1, <2>2 DEF GoneInv
  <2>3. CASE place[o] # Nil
    <3>1. place[o] \in Keys
      BY <1>5, <2>3, KeysAreNumbers
    <3> QED
      BY <1>1, <1>4, <1>5, <2>1, <2>3, <3>1 DEF PlacedInv
  <2> QED
    BY <2>2, <2>3
<1>11. PlacedInv'
  <2> SUFFICES ASSUME NEW o \in sized, place'[o] # Nil
               PROVE  /\ m_objectsAlloc'[place'[o]] = o /\ lastSurvived'[o] = gcNumber'
                      /\ Covered(place[o])'
    BY <1>4, <1>5, <1>9 DEF PlacedInv, Covered
  <2>1. o \in DOMAIN to /\ place'[o] = place[o] /\ place[o] # Nil
    BY <1>5, <1>9
  <2>2. m_objectsAlloc[place[o]] = o /\ lastSurvived'[o] = gcNumber + 1
    BY <1>1, <1>3, <1>5, <2>1 DEF PlacedInv
  <2>3. \E r \in Plugs(to) : InRange(place[o], r)
    BY <1>8, <2>1, SurvivorReported
  <2> QED
    BY <1>3, <1>4, <2>1, <2>2, <2>3 DEF Covered, InRange
<1>12. KeyInv'
  <2> SUFFICES ASSUME NEW k \in Keys, m_objectsAlloc[k] # Nil
               PROVE  \/ place'[m_objectsAlloc[k]] = k
                      \/ place'[m_objectsAlloc[k]] = Nil /\ ~Covered(k)'
    BY <1>4 DEF KeyInv
  <2> PICK p \in Ids : p = m_objectsAlloc[k]
    BY <1>5
  <2>1. place[p] = k /\ k # Nil
    BY <1>1, KeysAreNumbers DEF KeyInv, Nil
  <2>2. CASE p \in DOMAIN to
    BY <1>9, <2>1, <2>2
  <2>3. CASE p \notin DOMAIN to
    <3>1. place'[p] = Nil
      BY <1>9, <2>3
    <3>2. ASSUME Covered(k)' PROVE FALSE
      <4>1. PICK r \in Plugs(to) : InRange(k, r)
        BY <1>3, <3>2 DEF Covered, InRange
      <4>2. PICK o \in DOMAIN to : place[o] = k
        BY <4>1, ReportedSurvived
      <4>3. o \in Ids
        BY <1>8
      <4>4. o = p
        BY <1>1, <2>1, <4>2, <4>3 DEF Apart
      <4> QED
        BY <2>3, <4>4
    <3> QED
      BY <3>1, <3>2
  <2> QED
    BY <2>2, <2>3
<1>13. Apart'
  BY <1>1, <1>4, <1>9 DEF Apart
<1> QED
  BY <1>1, <1>4, <1>10, <1>11, <1>12, <1>13 DEF SweepInv

\* What SurvivingReferences reports is stamped, and nothing dead is.
LEMMA SweepSurviving ==
  ASSUME Sweeps, TypeOK, DeletedInv, SweepInv, NEW ranges \in SUBSET todo,
         SurvivingReferences(ranges)
  PROVE  SweepInv'
<1> SUFFICES ASSUME isDeallocEnable, pc = "running"
             PROVE  SweepInv'
  BY DEF SweepInv, SurvivingReferences, shutdown, outside
<1> DEFINE keys == {k \in Keys : \E r \in ranges : InRange(k, r)}
           hit  == {m_objectsAlloc[k] : k \in keys} \ {Nil}
<1>1. /\ info /\ lock = "free" /\ gc = "sweeping"
      /\ GoneInv /\ PlacedInv /\ KeyInv /\ Apart
      /\ NoneDeleted /\ todo' = todo \ ranges /\ Stamp(keys)
      /\ UNCHANGED <<m_objectsAlloc, m_objectsDeAlloc, gcNumber, info, lock, gc,
                     place, lastSurvived, pc, sized>>
  BY DEF SweepInv, SurvivingReferences, Sweeps, DeletedInv, Holding, shutdown, heap, outside
<1>2. objects' = [o \in Ids |-> IF o \in hit
                THEN [objects[o] EXCEPT !.untilGcNumber = gcNumber] ELSE objects[o]]
  <2>1. hit \cap deleted = {}
    BY <1>1 DEF NoneDeleted
  <2> QED
    BY <1>1, <2>1 DEF Stamp
<1>3. Ids' = Ids /\ sized \subseteq Ids
  BY <1>2 DEF Ids, TypeOK
<1>4. \A o \in Ids : Until(o)' = IF o \in hit THEN gcNumber ELSE Until(o)
  <2> SUFFICES ASSUME NEW o \in Ids
               PROVE  objects'[o].untilGcNumber =
                        IF o \in hit THEN gcNumber ELSE objects[o].untilGcNumber
    BY DEF Until
  <2>1. objects[o] \in ObjectClass
    BY ObjectsFunction
  <2>2. [objects[o] EXCEPT !.untilGcNumber = gcNumber].untilGcNumber = gcNumber
    BY <2>1 DEF ObjectClass
  <2> HIDE DEF hit
  <2> QED
    BY <1>2, <2>2
<1>5. \A o \in hit : place[o] # Nil
  <2> SUFFICES ASSUME NEW k \in keys, m_objectsAlloc[k] # Nil
               PROVE  place[m_objectsAlloc[k]] # Nil
    OBVIOUS
  <2>1. Covered(k) /\ k \in Keys
    BY DEF Covered
  <2>2. k # Nil
    BY <2>1, KeysAreNumbers DEF Nil
  <2> QED
    BY <1>1, <2>1, <2>2 DEF KeyInv
<1>6. \A k \in Keys : Covered(k)' => Covered(k)
  BY <1>1 DEF Covered, InRange
<1>7. \A o \in sized : place[o] # Nil /\ Covered(place[o]) /\ ~Covered(place[o])' => o \in hit
  <2> SUFFICES ASSUME NEW o \in sized, place[o] # Nil, Covered(place[o]),
                      ~(\E r \in todo \ ranges : InRange(place[o], r))
               PROVE  o \in hit
    BY <1>1 DEF Covered, InRange
  <2>1. \E r \in ranges : InRange(place[o], r)
    BY DEF Covered
  <2>2. place[o] \in Keys
    BY <1>3, KeysAreNumbers DEF TypeOK
  <2>3. m_objectsAlloc[place[o]] = o
    BY <1>1 DEF PlacedInv
  <2>4. o # Nil
    BY <1>3, NilNotDeleted
  <2> QED
    BY <2>1, <2>2, <2>3, <2>4
<1> HIDE DEF hit
<1>8. GoneInv'
  <2> SUFFICES ASSUME NEW o \in sized, place[o] = Nil
               PROVE  /\ lastSurvived[o] < gcNumber /\ Until(o)' = lastSurvived[o]
                      /\ o \in m_objectsDeAlloc \/ \E k \in Keys : m_objectsAlloc[k] = o
    BY <1>1, <1>3 DEF GoneInv
  <2>1. Until(o)' = Until(o)
    BY <1>3, <1>4, <1>5
  <2> QED
    BY <1>1, <2>1 DEF GoneInv
<1>9. PlacedInv'
  <2> SUFFICES ASSUME NEW o \in sized, place[o] # Nil
               PROVE  /\ m_objectsAlloc[place[o]] = o /\ lastSurvived[o] = gcNumber
                      /\ Until(o)' = gcNumber \/ Covered(place[o])'
    BY <1>1, <1>3 DEF PlacedInv, Covered, InRange
  <2>1. m_objectsAlloc[place[o]] = o /\ lastSurvived[o] = gcNumber
        /\ (Until(o) = gcNumber \/ Covered(place[o]))
    BY <1>1 DEF PlacedInv
  <2> QED
    BY <1>3, <1>4, <1>7, <2>1
<1>10. KeyInv' /\ Apart'
  BY <1>1, <1>3, <1>6 DEF KeyInv, Apart
<1> QED
  BY <1>1, <1>8, <1>9, <1>10 DEF SweepInv

\* When all was reported, what lives bears the number of the collection.
LEMMA SweepFinished ==
  ASSUME Sweeps, SweepInv, GarbageCollectionFinished
  PROVE  SweepInv'
<1> SUFFICES ASSUME isDeallocEnable, pc = "running"
             PROVE  SweepInv'
  BY DEF SweepInv, GarbageCollectionFinished, shutdown, outside
<1>1. /\ info /\ lock = "free" /\ todo = {} /\ gc # "none"
      /\ GoneInv /\ PlacedInv /\ KeyInv /\ Apart
  BY DEF SweepInv, GarbageCollectionFinished, Kinds
<1>2. /\ gc' = "finishing"
      /\ UNCHANGED <<objects, m_objectsAlloc, m_objectsDeAlloc, gcNumber, info, lock,
                     place, lastSurvived, pc, sized>>
  BY <1>1 DEF GarbageCollectionFinished, records, shutdown, heap, outside
<1>3. GoneInv'
  BY <1>1, <1>2 DEF GoneInv, Until, Ids
<1>4. PlacedInv'
  BY <1>1, <1>2 DEF PlacedInv, Until, Ids, Covered
<1>5. KeyInv' /\ Apart'
  BY <1>1, <1>2 DEF KeyInv, Apart, Ids
<1> QED
  BY <1>1, <1>2, <1>3, <1>4, <1>5 DEF SweepInv

\* What has not its number is taken from the map: exactly the dead.
LEMMA SweepDeallocated ==
  ASSUME Sweeps, TypeOK, RecordedInv, DeletedInv, SweepInv, DeallocateUnstamped
  PROVE  SweepInv'
<1> SUFFICES ASSUME isDeallocEnable, pc = "running"
             PROVE  SweepInv'
  BY DEF SweepInv, DeallocateUnstamped, shutdown, outside
<1> DEFINE stale == {o \in Tracked : objects[o].untilGcNumber # gcNumber}
<1>1. /\ info /\ lock = "free" /\ gc = "finishing" /\ NoneDeleted
      /\ GoneInv /\ PlacedInv /\ KeyInv /\ Apart
  BY DEF SweepInv, DeallocateUnstamped, DeletedInv, Holding
<1>2. m_objectsAlloc' = Without(stale) /\ m_objectsDeAlloc' = Listed(stale)
  BY <1>1, TrackedNotDeleted DEF DeallocateUnstamped
<1>3. /\ gc' = "none"
      /\ UNCHANGED <<objects, gcNumber, info, lock, place, lastSurvived, pc, sized>>
      /\ sized \subseteq Ids
  BY DEF DeallocateUnstamped, shutdown, heap, outside, TypeOK
<1>4. \A o \in sized : place[o] # Nil => o \notin stale
  BY <1>1 DEF PlacedInv, Until
<1>5. \A o \in sized, k \in Keys : place[o] = Nil /\ m_objectsAlloc[k] = o => o \in stale
  <2> SUFFICES ASSUME NEW o \in sized, NEW k \in Keys, place[o] = Nil, m_objectsAlloc[k] = o
               PROVE  o \in Tracked /\ objects[o].untilGcNumber # gcNumber
    OBVIOUS
  <2>1. o # Nil
    BY <1>3, NilNotDeleted
  <2>2. lastSurvived[o] < gcNumber /\ objects[o].untilGcNumber = lastSurvived[o]
    BY <1>1 DEF GoneInv, Until
  <2>3. lastSurvived[o] \in Nat /\ gcNumber \in Nat
    BY <1>3 DEF TypeOK
  <2> QED
    BY <2>1, <2>2, <2>3 DEF Tracked
<1> HIDE DEF stale
<1>6. GoneInv'
  <2> SUFFICES ASSUME NEW o \in sized, place[o] = Nil
               PROVE  /\ lastSurvived[o] < gcNumber /\ Until(o) = lastSurvived[o]
                      /\ o \in m_objectsDeAlloc'
    BY <1>3 DEF GoneInv, Until, Ids
  <2> QED
    BY <1>1, <1>2, <1>5 DEF GoneInv, Listed
<1>7. PlacedInv'
  <2> SUFFICES ASSUME NEW o \in sized, place[o] # Nil
               PROVE  /\ m_objectsAlloc'[place[o]] = o /\ lastSurvived[o] = gcNumber
                      /\ Until(o) = gcNumber
    BY <1>3 DEF PlacedInv, Until, Ids
  <2>1. m_objectsAlloc[place[o]] = o /\ lastSurvived[o] = gcNumber /\ Until(o) = gcNumber
    BY <1>1 DEF PlacedInv
  <2>2. place[o] \in Keys
    BY <1>3, KeysAreNumbers DEF TypeOK
  <2> QED
    BY <1>2, <1>4, <2>1, <2>2 DEF Without
<1>8. KeyInv'
  <2> SUFFICES ASSUME NEW k \in Keys, m_objectsAlloc'[k] # Nil
               PROVE  place[m_objectsAlloc'[k]] = k
    BY <1>3 DEF KeyInv
  <2>1. m_objectsAlloc'[k] = m_objectsAlloc[k] /\ m_objectsAlloc[k] \notin stale
    BY <1>2 DEF Without
  <2>2. m_objectsAlloc[k] \in sized
    BY <2>1 DEF RecordedInv
  <2>3. place[m_objectsAlloc[k]] # Nil
    BY <1>5, <2>1, <2>2
  <2> QED
    BY <1>1, <2>1, <2>3 DEF KeyInv
<1>9. Apart'
  BY <1>1, <1>3 DEF Apart, Ids
<1> QED
  BY <1>1, <1>3, <1>6, <1>7, <1>8, <1>9 DEF SweepInv

LEMMA SweepStep ==
  ASSUME Sweeps, TypeOK, RecordedInv, DeletedInv, SweepInv, [Next]_vars
  PROVE  SweepInv'
<1>2. CASE ProgramStep
  <2>1. ASSUME NEW c \in Classes, NEW named \in BOOLEAN, ClassLoadFinished(c, named)
        PROVE  SweepInv'
    <3>1. CASE ~info
      BY <2>1, <3>1 DEF SweepInv, ClassLoadFinished, shutdown, outside
    <3>2. CASE info
      BY <2>1, <3>2, SweepQuiet DEF ClassLoadFinished, records, shutdown, heap, outside
    <3> QED
      BY <3>1, <3>2
  <2>2. ASSUME NEW o \in Ids, Drop(o)
        PROVE  SweepInv'
    BY <2>2, SweepQuiet DEF Drop, profiler, records, shutdown
  <2> QED
    BY <1>2, <2>1, <2>2, SweepAllocated DEF ProgramStep
<1>3. CASE StartCollection
  BY <1>3, SweepStarted DEF StartCollection
<1>4. CASE CollectorStep
  <2>1. ASSUME NEW ranges, MovedReferences(ranges) PROVE SweepInv'
    BY <2>1 DEF MovedReferences, SweepInv, shutdown, outside
  <2>2. CASE RekeyOne \/ MovedReferencesEnd
    BY <2>2 DEF RekeyOne, MovedReferencesEnd, SweepInv, shutdown, outside
  <2> QED
    BY <1>4, <2>1, <2>2, SweepSurviving, SweepFinished, SweepDeallocated
       DEF CollectorStep
<1>5. CASE ShutdownBegin
  BY <1>5 DEF ShutdownBegin, SweepInv
<1>6. CASE ShutdownStep
  <2>1. pc' # "running"
    BY <1>6 DEF ShutdownStep, WriteDeAlloc, WriteAlloc, ClearMaps, ReleaseInfo, At
  <2> QED
    BY <2>1 DEF SweepInv
<1>7. CASE UNCHANGED vars
  BY <1>7, SweepQuiet DEF vars, profiler, records, shutdown, heap, outside
<1> QED
  BY <1>2, <1>3, <1>4, <1>5, <1>6, <1>7 DEF Next

\* Records are made where the size was told, and the lists get no others.
LEMMA RecordedStep ==
  ASSUME TypeOK, RecordedInv, [Next]_vars
  PROVE  RecordedInv'
<1>1. CASE UNCHANGED <<m_objectsAlloc, m_objectsDeAlloc, sized>>
  BY <1>1 DEF RecordedInv
<1>2. CASE ProgramStep
  <2>1. ASSUME NEW c \in Classes, NEW named \in BOOLEAN, ClassLoadFinished(c, named)
        PROVE  UNCHANGED <<m_objectsAlloc, m_objectsDeAlloc, sized>>
    BY <2>1 DEF ClassLoadFinished, Crash, records, outside, heap
  <2>2. ASSUME NEW o \in Ids, Drop(o)
        PROVE  UNCHANGED <<m_objectsAlloc, m_objectsDeAlloc, sized>>
    BY <2>2 DEF Drop, profiler, records
  <2>3. ASSUME NEW a \in Addresses, NEW c \in Classes, NEW sizeTold \in BOOLEAN,
               ObjectAllocated(a, c, sizeTold)
        PROVE  RecordedInv'
    <3>1. CASE ~info
      BY <1>1, <2>3, <3>1 DEF ObjectAllocated, Crash, records, heap
    <3>2. CASE info
      <4>1. m_objectsDeAlloc' = m_objectsDeAlloc
        BY <2>3, <3>2 DEF ObjectAllocated
      <4>2. m_objectsAlloc \in [Keys -> {Nil} \cup Ids]
        BY DEF TypeOK
      <4>3. \/ /\ m_objectsAlloc' = [m_objectsAlloc EXCEPT ![a] = Len(objects) + 1]
               /\ sized' = sized \cup {Len(objects) + 1}
            \/ UNCHANGED <<m_objectsAlloc, sized>>
        BY <2>3, <3>2, AllocatedMap
      <4> QED
        BY <4>1, <4>2, <4>3 DEF RecordedInv
    <3> QED
      BY <3>1, <3>2
  <2> QED
    BY <1>1, <1>2, <2>1, <2>2, <2>3 DEF ProgramStep
<1>3. CASE StartCollection
  BY <1>1, <1>3 DEF StartCollection, GarbageCollectionStarted, Crash, records
<1>4. CASE CollectorStep
  <2>1. ASSUME NEW ranges \in SUBSET todo, SurvivingReferences(ranges) \/ MovedReferences(ranges)
        PROVE  UNCHANGED <<m_objectsAlloc, m_objectsDeAlloc, sized>>
    BY <2>1 DEF SurvivingReferences, MovedReferences, outside, heap
  <2>2. ASSUME MovedReferencesEnd \/ GarbageCollectionFinished
        PROVE  UNCHANGED <<m_objectsAlloc, m_objectsDeAlloc, sized>>
    BY <2>2 DEF MovedReferencesEnd, GarbageCollectionFinished, profiler, records, outside, heap
  <2>3. CASE RekeyOne
    <3> DEFINE key == Smallest(DOMAIN tmp_map)
    <3>1. /\ DOMAIN tmp_map \subseteq Keys /\ DOMAIN tmp_map # {}
          /\ \A k \in DOMAIN tmp_map : tmp_map[k] \in Keys
      BY <2>3 DEF TypeOK, RekeyOne
    <3>2. key \in DOMAIN tmp_map
      BY <3>1, KeysAreNumbers, SmallestOf
    <3>3. /\ m_objectsAlloc' = Rekeyed(key, tmp_map[key])
          /\ UNCHANGED <<m_objectsDeAlloc, outside>>
      BY <2>3, Zenon DEF RekeyOne
    <3> HIDE DEF key
    <3>4. m_objectsAlloc \in [Keys -> {Nil} \cup Ids]
      BY DEF TypeOK
    <3>5. PICK new \in Keys : new = tmp_map[key]
      BY <3>1, <3>2
    <3> QED
      BY <3>1, <3>2, <3>3, <3>4, <3>5 DEF RecordedInv, Rekeyed, outside, heap
  <2>4. CASE DeallocateUnstamped
    <3> DEFINE stale == {o \in Tracked : objects[o].untilGcNumber # gcNumber}
    <3>1. stale \subseteq sized
      BY DEF RecordedInv, Tracked
    <3>2. /\ sized' = sized
          /\ \/ UNCHANGED <<m_objectsAlloc, m_objectsDeAlloc>>
             \/ m_objectsDeAlloc' = Listed(stale) /\ m_objectsAlloc' = Without(stale)
      BY <2>4 DEF DeallocateUnstamped, outside, heap
    <3> HIDE DEF stale
    <3> QED
      BY <3>1, <3>2 DEF RecordedInv, Listed, Without
  <2> QED
    BY <1>1, <1>4, <2>1, <2>2, <2>3, <2>4 DEF CollectorStep
<1>5. CASE ShutdownBegin
  BY <1>1, <1>5 DEF ShutdownBegin, profiler, records, outside, heap
<1>6. CASE ShutdownStep
  <2>1. CASE ClearMaps
    BY <2>1 DEF ClearMaps, RecordedInv, outside, heap
  <2> QED
    BY <1>1, <1>6, <2>1
       DEF ShutdownStep, WriteDeAlloc, WriteAlloc, ReleaseInfo, records, outside, heap
<1>7. CASE UNCHANGED vars
  BY <1>1, <1>7 DEF vars, profiler, records, outside, heap
<1> QED
  BY <1>2, <1>3, <1>4, <1>5, <1>6, <1>7 DEF Next

LEMMA SweepHolds ==
  ASSUME Sweeps
  PROVE  Spec => [](TypeOK /\ OneOwner /\ RecordedInv /\ DeletedInv /\ SweepInv)
<1>1. Init => SweepInv
  BY DEF Init, SweepInv, GoneInv, PlacedInv, KeyInv, Apart, Ids
<1>2. Init => DeletedInv /\ RecordedInv
  BY DEF Init, DeletedInv, NoneDeleted, Holding, RecordedInv
<1>3. TypeOK /\ OneOwner /\ DeletedInv /\ [Next]_vars => DeletedInv'
  BY DeletedStep
<1>4. TypeOK /\ RecordedInv /\ DeletedInv /\ SweepInv /\ [Next]_vars => SweepInv'
  BY SweepStep
<1>5. TypeOK /\ RecordedInv /\ [Next]_vars => RecordedInv'
  BY RecordedStep
<1> QED
  BY <1>1, <1>2, <1>3, <1>4, <1>5, OwnersAreUnique, TypeCorrect, PTL DEF Spec

\* When collections are searched for dead objects and sweep every generation,
\* the map is the heap between them: each living object whose size was told
\* under its address, each dead one in the list, and no other record
\* (CoreProfiler.cpp:881-944).
THEOREM MapIsTheHeap == ASSUME Sweeps PROVE Spec => []TracksTheHeap
<1>1. RecordedInv /\ SweepInv => TracksTheHeap
  BY DEF SweepInv, GoneInv, PlacedInv, RecordedInv, TracksTheHeap, Tracked
<1> QED
  BY <1>1, SweepHolds, PTL

\* Then untilGC of a record is, between collections, the last collection its
\* object lived through, which is what the reports of the log show of it.
THEOREM UntilIsTheLast == ASSUME Sweeps PROVE Spec => []UntilIsLastSurvived
<1>1. SweepInv => UntilIsLastSurvived
  BY DEF SweepInv, GoneInv, PlacedInv, UntilIsLastSurvived, Until
<1> QED
  BY <1>1, SweepHolds, PTL

-----------------------------------------------------------------------------
(* Without the search for dead objects.  No collection touches a record,   *)
(* so a record stays under the address its object was allocated at, until  *)
(* a later object is allocated there.                                      *)

KeptInv ==
  ~isDeallocEnable =>
    /\ lock # "moving" /\ gc # "finishing"
    /\ pc = "running" => \A o \in sized :
         m_objectsAlloc[objects[o].objectId] = o \/ Overwritten(o)

LEMMA KeptQuiet ==
  ASSUME KeptInv, UNCHANGED <<isDeallocEnable, objects, m_objectsAlloc, sized, pc>>,
         ~isDeallocEnable => lock' # "moving" /\ gc' # "finishing"
  PROVE  KeptInv'
BY DEF KeptInv, Overwritten

LEMMA KeptAllocated ==
  ASSUME TypeOK, KeptInv, NEW a \in Addresses, NEW c \in Classes,
         NEW sizeTold \in BOOLEAN, ObjectAllocated(a, c, sizeTold)
  PROVE  KeptInv'
<1>1. CASE ~info
  <2>1. UNCHANGED <<isDeallocEnable, objects, m_objectsAlloc, sized, pc, lock, gc>>
    BY <1>1 DEF ObjectAllocated, Crash, records, shutdown, heap
  <2> QED
    BY <2>1, KeptQuiet DEF KeptInv
<1>2. CASE info
  <2>1. PICK new \in Nat :
           /\ new \notin Ids /\ objects'[new].objectId = a
           /\ \/ /\ m_objectsAlloc' = [m_objectsAlloc EXCEPT ![a] = new]
                 /\ sized' = sized \cup {new}
              \/ UNCHANGED <<m_objectsAlloc, sized>>
           /\ \A o \in Ids : objects'[o] = objects[o] /\ o < new
    BY <1>2, AllocatedRecord
  <2>2. UNCHANGED <<isDeallocEnable, lock, gc, pc>>
    BY <1>2 DEF ObjectAllocated, shutdown
  <2>3. m_objectsAlloc \in [Keys -> {Nil} \cup Ids] /\ a \in Keys /\ sized \subseteq Ids
    BY KeysAreNumbers DEF TypeOK
  <2>4. ASSUME NEW o \in sized, Overwritten(o) PROVE Overwritten(o)'
    <3>1. PICK p \in sized : p > o /\ objects[p].objectId = objects[o].objectId
      BY <2>4 DEF Overwritten
    <3>2. p \in sized' /\ objects'[p] = objects[p] /\ objects'[o] = objects[o]
      BY <2>1, <2>3
    <3> QED
      BY <2>2, <2>4, <3>1, <3>2 DEF Overwritten
  <2>5. ASSUME ~isDeallocEnable, pc = "running", NEW o \in sized'
        PROVE  m_objectsAlloc'[objects'[o].objectId] = o \/ Overwritten(o)'
    <3>1. CASE o \notin sized
      BY <2>1, <2>3, <3>1
    <3>2. CASE o \in sized
      <4>1. m_objectsAlloc[objects[o].objectId] = o \/ Overwritten(o)
        BY <2>5, <3>2 DEF KeptInv
      <4>2. o \in Ids /\ objects'[o] = objects[o] /\ o < new
        BY <2>1, <2>3, <3>2
      <4>3. objects[o].objectId \in Keys
        BY <4>2, ObjectsFunction, KeysAreNumbers DEF ObjectClass
      <4>4. CASE /\ m_objectsAlloc' = [m_objectsAlloc EXCEPT ![a] = new]
                 /\ sized' = sized \cup {new} /\ objects[o].objectId = a
        <5>1. new \in sized' /\ new > o /\ objects'[new].objectId = objects'[o].objectId
          BY <2>1, <4>2, <4>4
        <5> QED
          BY <2>2, <2>5, <5>1 DEF Overwritten
      <4>5. CASE m_objectsAlloc'[objects[o].objectId] = m_objectsAlloc[objects[o].objectId]
        BY <2>4, <3>2, <4>1, <4>2, <4>5
      <4> QED
        BY <2>1, <2>3, <4>3, <4>4, <4>5
    <3> QED
      BY <3>1, <3>2
  <2> QED
    BY <2>2, <2>5 DEF KeptInv
<1> QED
  BY <1>1, <1>2

LEMMA KeptStep ==
  ASSUME TypeOK, KeptInv, [Next]_vars
  PROVE  KeptInv'
<1>1. CASE ProgramStep
  <2>1. ASSUME NEW c \in Classes, NEW named \in BOOLEAN, ClassLoadFinished(c, named)
        PROVE  UNCHANGED <<isDeallocEnable, objects, m_objectsAlloc, sized, pc, lock, gc>>
    BY <2>1 DEF ClassLoadFinished, Crash, records, shutdown, outside, heap
  <2>2. ASSUME NEW o \in Ids, Drop(o)
        PROVE  UNCHANGED <<isDeallocEnable, objects, m_objectsAlloc, sized, pc, lock, gc>>
    BY <2>2 DEF Drop, profiler, records, shutdown
  <2>3. ASSUME UNCHANGED <<isDeallocEnable, objects, m_objectsAlloc, sized, pc, lock, gc>>
        PROVE  KeptInv'
    BY <2>3, KeptQuiet DEF KeptInv
  <2> QED
    BY <1>1, <2>1, <2>2, <2>3, KeptAllocated DEF ProgramStep
<1>2. CASE StartCollection
  <2>1. PICK kind \in Kinds, oldest \in Collected : GarbageCollectionStarted(kind, oldest)
    BY <1>2 DEF StartCollection
  <2>2. UNCHANGED <<isDeallocEnable, objects, m_objectsAlloc, sized, pc, lock>>
    BY <2>1 DEF GarbageCollectionStarted, Crash, records, shutdown
  <2>3. gc' # "finishing"
    BY <2>1 DEF GarbageCollectionStarted, Kinds
  <2> QED
    BY <2>2, <2>3, KeptQuiet DEF KeptInv
<1>3. CASE CollectorStep /\ isDeallocEnable
  <2>1. isDeallocEnable'
    BY <1>3 DEF CollectorStep, SurvivingReferences, MovedReferences, RekeyOne,
         MovedReferencesEnd, GarbageCollectionFinished, DeallocateUnstamped, outside
  <2> QED
    BY <2>1 DEF KeptInv
<1>4. CASE CollectorStep /\ ~isDeallocEnable
  <2>1. lock # "moving" /\ gc # "finishing"
    BY <1>4 DEF KeptInv
  <2>2. ASSUME NEW ranges, SurvivingReferences(ranges) \/ MovedReferences(ranges)
        PROVE  UNCHANGED <<isDeallocEnable, objects, m_objectsAlloc, sized, pc, lock, gc>>
    BY <1>4, <2>2 DEF SurvivingReferences, MovedReferences, shutdown, outside, heap
  <2>3. ASSUME GarbageCollectionFinished
        PROVE  /\ UNCHANGED <<isDeallocEnable, objects, m_objectsAlloc, sized, pc, lock>>
               /\ gc' # "finishing"
    BY <1>4, <2>1, <2>3 DEF GarbageCollectionFinished, records, shutdown, outside, heap
  <2>4. ~RekeyOne /\ ~MovedReferencesEnd /\ ~DeallocateUnstamped
    BY <2>1 DEF RekeyOne, MovedReferencesEnd, DeallocateUnstamped
  <2>5. /\ UNCHANGED <<isDeallocEnable, objects, m_objectsAlloc, sized, pc, lock>>
        /\ gc' # "finishing"
    BY <1>4, <2>1, <2>2, <2>3, <2>4 DEF CollectorStep
  <2> QED
    BY <2>1, <2>5, KeptQuiet
<1>5. CASE ShutdownBegin
  BY <1>5 DEF ShutdownBegin, TakeLock, KeptInv, outside
<1>6. CASE ShutdownStep
  <2>1. /\ pc' # "running" /\ gc' = gc /\ lock' \in {lock, "free"}
        /\ isDeallocEnable' = isDeallocEnable
    BY <1>6 DEF ShutdownStep, WriteDeAlloc, WriteAlloc, ClearMaps, ReleaseInfo, At, Unlock, outside
  <2> QED
    BY <2>1 DEF KeptInv
<1>7. CASE UNCHANGED vars
  BY <1>7, KeptQuiet DEF vars, profiler, records, shutdown, outside, heap, KeptInv
<1> QED
  BY <1>1, <1>2, <1>3, <1>4, <1>5, <1>6, <1>7 DEF Next

-----------------------------------------------------------------------------
(* What Shutdown writes.  A record is written, or it is still in the list, *)
(* or under a key that the loop over the map has not reached; or it was    *)
(* overwritten.                                                            *)

InLog(o)  == \E i \in DOMAIN written : written[i] = o
ToCome(o) == \E k \in Keys : k > cursor /\ m_objectsAlloc[k] = o

WrittenInv ==
  /\ pc \in {"running", "dealloc"} => cursor = 0
  /\ pc = "dealloc" => \A o \in sized :
       InLog(o) \/ Overwritten(o) \/ o \in m_objectsDeAlloc \ deleted \/ ToCome(o)
  /\ pc = "alloc" => \A o \in sized : InLog(o) \/ Overwritten(o) \/ ToCome(o)
  /\ pc \in {"clear", "release", "done"} => \A o \in sized : InLog(o) \/ Overwritten(o)

\* Shutdown changes no more of the records than their untilGC.
LEMMA OverwrittenStays ==
  ASSUME UNCHANGED <<isDeallocEnable, sized>>,
         \A o \in sized : objects'[o].objectId = objects[o].objectId
  PROVE  \A o \in sized : Overwritten(o) => Overwritten(o)'
BY DEF Overwritten

LEMMA AppendedInLog ==
  ASSUME TypeOK, NEW x \in Ids, written' = Append(written, x)
  PROVE  InLog(x)' /\ \A o : InLog(o) => InLog(o)'
<1>1. written \in Seq(Ids)
  BY DEF TypeOK
<1>2. /\ DOMAIN written' = 1 .. Len(written) + 1 /\ written'[Len(written) + 1] = x
      /\ DOMAIN written = 1 .. Len(written) /\ Len(written) \in Nat
      /\ \A i \in 1 .. Len(written) : written'[i] = written[i]
  BY <1>1, AppendProperties, LenProperties
<1> QED
  BY <1>2 DEF InLog

\* Shutdown begins between collections, with every record in its place.
LEMMA WrittenBegin ==
  ASSUME Sweeps, ~LateCallbacks, TypeOK, DeletedInv, SweepInv, WrittenInv,
         KeptInv, ShutdownBegin
  PROVE  WrittenInv'
<1>1. /\ pc = "running" /\ gc = "none" /\ cursor = 0 /\ pc' = "dealloc"
      /\ UNCHANGED <<objects, deleted, m_objectsAlloc, m_objectsDeAlloc, written, cursor>>
      /\ UNCHANGED <<sized, isDeallocEnable>>
  BY DEF ShutdownBegin, At, profiler, records, WrittenInv, outside, heap
<1>2. deleted = {} /\ (isDeallocEnable => GoneInv /\ PlacedInv)
  BY <1>1 DEF SweepInv, DeletedInv
<1>3. ASSUME NEW o \in sized PROVE Overwritten(o) \/ o \in m_objectsDeAlloc \/ ToCome(o)
  <2>0. o \in Ids
    BY DEF TypeOK
  <2>1. CASE isDeallocEnable /\ place[o] = Nil
    BY <1>1, <1>2, <2>1 DEF GoneInv
  <2>3. CASE ~isDeallocEnable
    <3>1. m_objectsAlloc[objects[o].objectId] = o \/ Overwritten(o)
      BY <1>1, <2>3 DEF KeptInv
    <3>2. objects[o].objectId \in Keys /\ objects[o].objectId \in Nat \ {0}
      BY <2>0, ObjectsFunction, KeysAreNumbers DEF ObjectClass
    <3>3. PICK k \in Nat \ {0} : k = objects[o].objectId
      BY <3>2
    <3> QED
      BY <1>1, <3>1, <3>2, <3>3 DEF ToCome
  <2>2. CASE isDeallocEnable /\ place[o] # Nil
    <3>1. place[o] \in Addresses
      BY <2>0, <2>2 DEF TypeOK
    <3>2. place[o] \in Keys /\ place[o] > 0
      <4>1. place[o] \in Keys /\ place[o] \in Nat \ {0}
        BY <3>1, KeysAreNumbers
      <4> QED
        BY <4>1
    <3>3. m_objectsAlloc[place[o]] = o
      BY <1>2, <2>2 DEF PlacedInv
    <3> QED
      BY <1>1, <3>2, <3>3 DEF ToCome
  <2> QED
    BY <2>1, <2>2, <2>3
<1>4. \A o \in sized : (ToCome(o) => ToCome(o)') /\ (Overwritten(o) => Overwritten(o)')
  BY <1>1, OverwrittenStays DEF ToCome
<1> QED
  BY <1>1, <1>2, <1>3, <1>4 DEF WrittenInv

LEMMA WrittenList ==
  ASSUME TypeOK, WrittenInv, WriteDeAlloc
  PROVE  WrittenInv'
<1>1. /\ pc = "dealloc" /\ cursor = 0
      /\ \A o \in sized :
           InLog(o) \/ Overwritten(o) \/ o \in m_objectsDeAlloc \ deleted \/ ToCome(o)
      /\ UNCHANGED <<objects, m_objectsAlloc, m_objectsDeAlloc, cursor, sized>>
      /\ UNCHANGED isDeallocEnable
  BY DEF WriteDeAlloc, At, WrittenInv, outside, heap
<1>2. /\ \A o : ToCome(o) <=> ToCome(o)'
      /\ \A o \in sized : Overwritten(o) => Overwritten(o)'
  BY <1>1, OverwrittenStays DEF ToCome
<1>3. CASE m_objectsDeAlloc \ deleted = {}
  <2>1. pc' = "alloc" /\ UNCHANGED <<deleted, written>>
    BY <1>3 DEF WriteDeAlloc
  <2>2. \A o \in sized : InLog(o)' \/ Overwritten(o)' \/ ToCome(o)'
    BY <1>1, <1>2, <1>3, <2>1 DEF InLog
  <2> QED
    BY <1>1, <2>1, <2>2 DEF WrittenInv
<1>4. CASE m_objectsDeAlloc \ deleted # {}
  <2>1. PICK x \in m_objectsDeAlloc \ deleted :
          written' = Append(written, x) /\ deleted' = deleted \cup {x} /\ pc' = pc
    BY <1>4 DEF WriteDeAlloc
  <2>2. x \in Ids
    BY DEF TypeOK
  <2>3. InLog(x)' /\ \A o : InLog(o) => InLog(o)'
    BY <2>1, <2>2, AppendedInLog
  <2>4. \A o \in sized : InLog(o)' \/ Overwritten(o)'
                          \/ o \in m_objectsDeAlloc' \ deleted' \/ ToCome(o)'
    BY <1>1, <1>2, <2>1, <2>3
  <2> QED
    BY <1>1, <2>1, <2>4 DEF WrittenInv
<1> QED
  BY <1>3, <1>4

LEMMA LastStampKeeps ==
  ASSUME TypeOK, NEW x \in Ids, NEW o \in Ids
  PROVE  LastStamp(x)[o].objectId = objects[o].objectId
<1>1. PICK n \in Nat : Ids = 1 .. n /\ objects \in [1 .. n -> ObjectClass]
  BY ObjectsFunction
<1> DEFINE changed == [objects[x] EXCEPT !.untilGcNumber = gcNumber + 1]
<1>2. changed.objectId = objects[x].objectId
  BY <1>1 DEF ObjectClass
<1>3. LastStamp(x) = objects \/ LastStamp(x) = [objects EXCEPT ![x] = changed]
  BY DEF LastStamp
<1> HIDE DEF changed
<1> QED
  BY <1>1, <1>2, <1>3

LEMMA WrittenMap ==
  ASSUME TypeOK, DeletedInv, DeletedInv', WrittenInv, WriteAlloc
  PROVE  WrittenInv'
<1>1. /\ pc = "alloc" /\ \A o \in sized : InLog(o) \/ Overwritten(o) \/ ToCome(o)
      /\ UNCHANGED <<m_objectsAlloc, sized, isDeallocEnable>> /\ sized \subseteq Ids
  BY DEF WriteAlloc, At, WrittenInv, outside, heap, TypeOK
<1>2. \A o \in Ids, k \in Keys : k > cursor /\ m_objectsAlloc[k] = o => k \in Ahead
  BY NilNotDeleted DEF Ahead
<1>3. CASE Ahead = {}
  <2>1. pc' = "clear" /\ UNCHANGED <<objects, written>>
    BY <1>3 DEF WriteAlloc, Ahead
  <2>2. \A o \in sized : InLog(o) \/ Overwritten(o)
    BY <1>1, <1>2, <1>3 DEF ToCome
  <2>3. \A o \in sized : InLog(o)' \/ Overwritten(o)'
    BY <1>1, <2>1, <2>2, OverwrittenStays DEF InLog
  <2> QED
    BY <1>1, <2>1, <2>3 DEF WrittenInv
<1>4. CASE Ahead # {}
  <2> DEFINE next == Smallest(Ahead)
  <2> PICK x : x = Here
    OBVIOUS
  <2>1. /\ next \in Keys /\ x \in Ids /\ \A k \in Ahead : next <= k
        /\ x = m_objectsAlloc[next]
    BY <1>4, AheadFacts DEF Here
  <2>2. fault' # "freed"
    BY DEF DeletedInv
  <2>3. /\ cursor' = next /\ objects' = LastStamp(x) /\ pc' = pc
        /\ written' = Append(written, x)
    BY <1>4, <2>2 DEF WriteAlloc, Ahead, Here
  <2> HIDE DEF next
  <2>4. \A o \in sized : Overwritten(o) => Overwritten(o)'
    <3>1. \A o \in Ids : LastStamp(x)[o].objectId = objects[o].objectId
      BY <2>1, LastStampKeeps
    <3> QED
      BY <1>1, <2>3, <3>1, OverwrittenStays
  <2>5. InLog(x)' /\ \A o : InLog(o) => InLog(o)'
    BY <2>1, <2>3, AppendedInLog
  <2>6. ASSUME NEW o \in sized PROVE InLog(o)' \/ Overwritten(o)' \/ ToCome(o)'
    <3>0. o \in Ids
      BY <1>1
    <3>1. CASE InLog(o)
      BY <2>5, <3>1
    <3>2. CASE ToCome(o)
      <4>1. PICK k \in Keys : k > cursor /\ m_objectsAlloc[k] = o
        BY <3>2 DEF ToCome
      <4>2. next <= k
        BY <1>2, <2>1, <3>0, <4>1
      <4>3. CASE k = next
        BY <2>1, <2>5, <4>1, <4>3
      <4>4. CASE k # next
        <5>1. k > next
          BY <2>1, <4>2, <4>4, KeysAreNumbers
        <5> QED
          BY <1>1, <2>3, <4>1, <5>1 DEF ToCome
      <4> QED
        BY <4>3, <4>4
    <3> QED
      BY <1>1, <2>4, <3>1, <3>2
  <2> QED
    BY <1>1, <2>3, <2>6 DEF WrittenInv
<1> QED
  BY <1>3, <1>4

LEMMA WrittenStep ==
  ASSUME Sweeps, ~LateCallbacks, TypeOK, DeletedInv, DeletedInv', SweepInv,
         KeptInv, WrittenInv, [Next]_vars
  PROVE  WrittenInv'
<1>1. CASE pc = "running" /\ pc' = "running" /\ cursor' = cursor
  BY <1>1 DEF WrittenInv
<1>2. CASE ProgramStep \/ StartCollection
  <2>1. CallbacksRun /\ UNCHANGED shutdown
    BY <1>2 DEF ProgramStep, StartCollection, ClassLoadFinished, ObjectAllocated, Drop,
                GarbageCollectionStarted, Executes
  <2> QED
    BY <1>1, <2>1 DEF CallbacksRun, shutdown
<1>3. CASE CollectorStep
  <2>1. CallbacksRun /\ UNCHANGED shutdown
    BY <1>3 DEF CollectorStep, SurvivingReferences, MovedReferences, RekeyOne,
                MovedReferencesEnd, GarbageCollectionFinished, DeallocateUnstamped
  <2> QED
    BY <1>1, <2>1 DEF CallbacksRun, shutdown
<1>4. CASE ShutdownBegin
  BY <1>4, WrittenBegin
<1>5. CASE ClearMaps \/ ReleaseInfo
  <2>1. /\ pc \in {"clear", "release"} /\ pc' \in {"release", "done"}
        /\ UNCHANGED <<objects, written, isDeallocEnable, sized>>
    BY <1>5 DEF ClearMaps, ReleaseInfo, At, records, outside, heap
  <2>2. \A o \in sized : InLog(o)' \/ Overwritten(o)'
    BY <2>1, OverwrittenStays DEF WrittenInv, InLog
  <2> QED
    BY <2>1, <2>2 DEF WrittenInv
<1>6. CASE ShutdownStep
  BY <1>5, <1>6, WrittenList, WrittenMap DEF ShutdownStep
<1>7. CASE UNCHANGED vars
  <2>1. UNCHANGED <<objects, deleted, m_objectsAlloc, m_objectsDeAlloc, written,
                    cursor, pc, isDeallocEnable, sized>>
    BY <1>7 DEF vars, profiler, records, shutdown, outside, heap
  <2> QED
    BY <2>1 DEF WrittenInv, InLog, ToCome, Overwritten
<1> QED
  BY <1>2, <1>3, <1>4, <1>6, <1>7 DEF Next

\* When the runtime calls nothing back after it has called Shutdown, and
\* collections reach every generation and move nothing, every record is in
\* the log once Shutdown is done: with the search for dead objects each one,
\* since a record reaches the log from the map or from the list and neither
\* loop misses one (CoreProfiler.cpp:361-374); without it each one but those
\* that a later object with their address overwrote (line 745).
THEOREM EveryRecordIsWritten ==
  ASSUME Sweeps, ~LateCallbacks
  PROVE  Spec => []RecordsAreWritten
<1>1. Init => WrittenInv /\ KeptInv
  BY DEF Init, WrittenInv, KeptInv
<1>2. TypeOK /\ DeletedInv /\ DeletedInv' /\ SweepInv /\ KeptInv /\ WrittenInv /\ [Next]_vars
        => WrittenInv'
  BY WrittenStep
<1>3. WrittenInv => RecordsAreWritten
  BY DEF WrittenInv, InLog, RecordsAreWritten
<1>4. TypeOK /\ KeptInv /\ [Next]_vars => KeptInv'
  BY KeptStep
<1> QED
  BY <1>1, <1>2, <1>3, <1>4, SweepHolds, PTL DEF Spec
=============================================================================
