------------------------- MODULE CallTreeLogProofs -------------------------
(***************************************************************************)
(* What Shutdown leaves behind: proofs that its log is the forest of       *)
(* CallTree and that it deletes every call.                                *)
(***************************************************************************)
EXTENDS CallTreeShutdownProofs, NaturalsInduction

-----------------------------------------------------------------------------
(* One root per thread, and no thread is forgotten.                        *)

Over == {"release", "clear", "done"}
OneRoot == \A i, j \in Ids :
  IsRoot(i) /\ IsRoot(j) /\ calls[i].TID = calls[j].TID => i = j
\* Every thread that made a call is a key, and has an active call until
\* Shutdown comes to it.
Known == pc \notin Over => \A i \in Ids : calls[i].TID \in known
Ahead == \A i \in Ids : cursor < calls[i].TID => second[calls[i].TID] # Nil
RootsInv == OneRoot /\ Known /\ Ahead

\* Nothing RootsInv reads of a call ever changes.
LEMMA RootsKept ==
  ASSUME RootsInv, Ids' = Ids, \A i \in Ids : Same(i),
         pc' \notin Over => pc \notin Over /\ known \subseteq known',
         \A i \in Ids : cursor' < calls[i].TID /\ second[calls[i].TID] # Nil =>
           cursor < calls[i].TID /\ second'[calls[i].TID] # Nil,
         \A i \in Ids : cursor' < calls[i].TID => cursor < calls[i].TID
  PROVE  RootsInv'
<1>1. OneRoot'
  BY DEF RootsInv, OneRoot, IsRoot, Same
<1>2. Known'
  BY DEF RootsInv, Known, Same
<1>3. Ahead'
  BY DEF RootsInv, Ahead, Same
<1> QED
  BY <1>1, <1>2, <1>3 DEF RootsInv

LEMMA RootsInvNext ==
  ASSUME ~LateCallbacks, TypeInv, PassedInv, RootsInv, [Next]_vars
  PROVE  RootsInv'
<1>0. /\ second \in [Threads -> {Nil} \cup Ids] /\ cursor \in Nat
      /\ \A i \in Ids : i # Nil /\ calls[i].TID \in Threads
      /\ \A t \in Threads : t \in Nat /\ 0 < t
      /\ known \subseteq Threads
  <2>1. known \subseteq Threads
    BY TypeInvParts DEF TreeType
  <2>2. \A t \in Threads : t \in Nat /\ 0 < t
    BY ThreadsAssumption
  <2> QED
    BY <2>1, <2>2, CallFacts, WrittenFacts
<1>1. ASSUME UNCHANGED <<calls, second, cursor>>,
             pc' \notin Over => pc \notin Over /\ known \subseteq known'
      PROVE  RootsInv'
  BY <1>1, RootsKept DEF Same, Ids
<1>2. ASSUME NEW t \in Threads, NEW time \in Nat \ {0}, Stamped(t, time) \/ Lifted(t),
             UNCHANGED <<known, cursor>>, pc' \notin Over => pc \notin Over
      PROVE  RootsInv'
  <2>1. Ids' = Ids /\ \A i \in Ids : Same(i)
    BY <1>2, StampFacts, TypeInvParts DEF Stamped, Lifted, Same, Ids
  <2>2. second' = [second EXCEPT ![t] = Upward(second[t])] /\ Upward(second[t]) \in Ids
    BY <1>2, UpwardIsAnId DEF Stamped, Lifted, StampActive
  <2>3. \A i \in Ids : second[calls[i].TID] # Nil => second'[calls[i].TID] # Nil
    BY <1>0, <2>2
  <2> QED
    BY <1>2, <2>1, <2>3, RootsKept
<1>3. ASSUME pc = "running", NEW t \in Threads, NEW f \in Functions, Grows(t, f)
      PROVE  RootsInv'
  <2>0. PICK n : n = Len(calls) + 1
    OBVIOUS
  <2>1. /\ Ids' = Ids \cup {n} /\ n \notin Ids /\ n # Nil
        /\ calls'[n].prevFunction = second[t] /\ calls'[n].TID = t
        /\ \A i \in Ids : Same(i)
        /\ second' = [second EXCEPT ![t] = n]
        /\ known' = known \cup {t} /\ UNCHANGED <<cursor, pc>>
    BY <1>3, <2>0, GrowthFacts DEF Grows, EnterTree, Untouched, Nil, shutdown
  <2>2. cursor = 0
    BY <1>3 DEF PassedInv
  <2>3. second[t] = Nil => \A i \in Ids : calls[i].TID # t
    BY <1>0, <2>2 DEF RootsInv, Ahead
  <2>4. OneRoot'
    BY <2>1, <2>3 DEF RootsInv, OneRoot, IsRoot, Same
  <2>5. Known'
    BY <1>0, <2>1 DEF RootsInv, Known, Same
  <2>6. Ahead'
    BY <1>0, <2>1 DEF RootsInv, Ahead, Same
  <2> QED
    BY <2>4, <2>5, <2>6 DEF RootsInv
<1>4. CASE pc = "running" /\ (Idle \/ \E t \in Threads : ObjectAllocated(t))
  BY <1>1, <1>4 DEF Idle, ObjectAllocated, tree, shutdown
<1>5. ASSUME pc = "running", NEW t \in Threads, Stamps(t)
      PROVE  RootsInv'
  <2>1. Stamped(t, now) /\ now \in Nat \ {0} /\ UNCHANGED <<known, cursor, pc>>
    BY <1>5, TypeInvParts DEF Stamps, Stamped, shutdown
  <2> QED
    BY <1>2, <2>1
<1>6. CASE UNCHANGED vars
  BY <1>1, <1>6 DEF vars, profiler, shutdown
<1>7. CASE NextThread
  <2>1. UNCHANGED <<calls, second, known>> /\ cursor < cursor' /\ pc \notin Over
        /\ cursor' \in Nat
    BY <1>0, <1>7 DEF NextThread, profiler, At, Over
  <2> QED
    BY <1>0, <2>1, RootsKept DEF Same, Ids
<1>8. CASE Climb
  <2>1. /\ cursor \in Threads /\ endTime \in Nat \ {0}
        /\ Stamped(cursor, endTime) \/ Lifted(cursor)
    BY <1>8, ClimbCases
  <2>2. UNCHANGED <<known, cursor>> /\ pc \notin Over
    BY <1>8 DEF Climb, At, Over
  <2> QED
    BY <1>2, <2>1, <2>2
<1>9. CASE DetachRoot
  <2>1. /\ UNCHANGED <<calls, known, cursor>> /\ pc \notin Over
        /\ second' = [second EXCEPT ![cursor] = Nil]
    BY <1>9 DEF DetachRoot, At, Over
  <2>2. \A i \in Ids : cursor < calls[i].TID => second'[calls[i].TID] = second[calls[i].TID]
    BY <1>0, <2>1
  <2> QED
    BY <2>1, <2>2, RootsKept DEF Same, Ids
\* No thread lies ahead any more.
<1>10. CASE ClearMaps
  <2>1. /\ UNCHANGED <<calls, cursor>> /\ pc' \in Over /\ pc = "threads"
        /\ \A t \in known : t <= cursor
    BY <1>10 DEF ClearMaps, At, Over
  <2>2. \A i \in Ids : calls[i].TID <= cursor
    BY <2>1 DEF RootsInv, Known, Over
  <2>3. \A i \in Ids : ~(cursor' < calls[i].TID)
    BY <1>0, <2>1, <2>2
  <2> QED
    BY <2>1, <2>3, RootsKept DEF Same, Ids
<1>11. CASE \/ ShutdownBegin \/ SerializeRoot \/ SerializeChild \/ LoopEnds
            \/ SerializeReturn \/ DeleteRoot \/ ReleaseInfo \/ ClearGlobal
  <2>1. UNCHANGED <<calls, second, cursor, known>> /\ (pc \in Over => pc' \in Over)
    BY <1>11 DEF ShutdownBegin, SerializeRoot, SerializeChild, LoopEnds,
       SerializeReturn, DeleteRoot, ReleaseInfo, ClearGlobal, Crash, At, Over,
       profiler, tree
  <2> QED
    BY <1>1, <2>1
<1>12. CASE ClearCalled
  <2>1. UNCHANGED <<second, cursor, known>> /\ pc \notin Over
    BY <1>12 DEF ClearCalled, At, Over
  <2> QED
    BY <1>12, <2>1, ClearedIsUntouched, RootsKept DEF Untouched
<1> QED
  BY <1>3, <1>4, <1>5, <1>6, <1>7, <1>8, <1>9, <1>10, <1>11, <1>12, StepCases
     DEF ShutdownStep

\* A thread has one root, the call its entry holds when Shutdown writes it.
LEMMA RootsInvariant == ~LateCallbacks => (Spec => []RootsInv)
<1> SUFFICES ASSUME ~LateCallbacks PROVE Spec => []RootsInv
  OBVIOUS
<1>1. Init => RootsInv
  BY DEF Init, RootsInv, OneRoot, Known, Ahead, Ids
<1>2. TypeInv /\ PassedInv /\ RootsInv /\ [Next]_vars => RootsInv'
  BY RootsInvNext
<1> QED
  BY <1>1, <1>2, TypeInvariant, PassedInvariant, PTL DEF Spec

-----------------------------------------------------------------------------
(* What is written.                                                        *)

\* The calls of the threads Shutdown has passed are written.
Writing == {"climb", "serialize"} \cup Walking
Covered ==
  /\ pc # "running" => \A i \in Ids :
       (calls[i].TID < cursor \/ (calls[i].TID = cursor /\ pc \notin Writing))
         => i \in Written
  /\ pc \in Over => Ids \subseteq Written
\* An activation of the walk has yet to reach i in the list of i's caller.
ToCome(i) ==
  LET c == calls[i].prevFunction
  IN \E k \in DOMAIN walk :
       /\ walk[k].call = c
       /\ \E m \in DOMAIN calls[c].calledFunctions :
            calls[c].calledFunctions[m] = i /\ walk[k].next <= m
\* The walk is at the tree of its thread, and a child of a written call is
\* written or still to come.
Closed ==
  pc \in Walking =>
    /\ walk[1].call = second[cursor] /\ second[cursor] \in Written
    /\ \A i \in Ids :
         ~IsRoot(i) /\ calls[i].prevFunction \in Written /\ calls[i].TID = cursor
           => i \in Written \/ ToCome(i)
\* An activation past its loop has come to the end of its list.
Exhausted ==
  pc \in {"clearing", "returning"} =>
    walk[Len(walk)].next > Len(calls[walk[Len(walk)].call].calledFunctions)
\* A written call is deleted, on the path of the walk, or about to be deleted.
Unleaked ==
  \A i \in Written : \/ i \in freed
                     \/ \E k \in DOMAIN walk : walk[k].call = i
                     \/ pc = "delete" /\ i = second[cursor]
CoverInv == Covered /\ Closed /\ Exhausted /\ Unleaked

\* A line says what the tree says of its call, which is finished, and comes
\* after that of the caller.
Lines ==
  /\ pc = "running" => log = <<>>
  /\ \A k \in DOMAIN log : log[k] = Line(log[k].call) /\ ~Open(log[k].call)
  /\ \A k \in DOMAIN log : ~IsRoot(log[k].call) =>
       \E m \in 1 .. k - 1 : log[m].call = calls[log[k].call].prevFunction
LogInv == RootsInv /\ CoverInv /\ Lines

LEMMA LeastCall ==
  ASSUME TypeInv, NEW S, S \subseteq Ids, S # {}
  PROVE  \E x \in S : \A y \in Ids : y < x => y \notin S
<1>1. S \subseteq Nat
  BY CallFacts
<1>2. PICK x \in S : \A y \in S : <<y, x>> \notin OpToRel(<, Nat)
  BY <1>1, NatLessThanWellFounded, WFMin, Zenon
<1>3. ASSUME NEW y \in S PROVE ~(y < x)
  BY <1>1, <1>2, Zenon DEF OpToRel
<1> QED
  BY <1>3

\* When the climb has reached the root of a thread, its calls are finished:
\* the oldest open one would hang on the finished root, which has no open
\* child.
LEMMA ThreadIsFinished ==
  ASSUME TypeInv, ShapeInv, PassedInv, ChainInv, RootsInv, pc \in AtRoot,
         NEW i \in Ids, calls[i].TID = cursor
  PROVE  ~Open(i)
<1>1. /\ cursor \in Threads /\ second[cursor] \in Ids
      /\ \A j \in Ids : j # Nil
  BY CallFacts DEF TypeInv, PhaseOK, Phases, Walking, AtRoot
<1>0. PICK r : r = second[cursor]
  OBVIOUS
<1>2. /\ r \in Ids /\ r # Nil /\ ~Open(r) /\ IsRoot(r)
      /\ calls[r].TID = cursor /\ OpenChildren(r) = {}
  BY <1>0, <1>1 DEF PassedInv, ChainInv, OpenCallsFormChain
<1>3. SUFFICES ASSUME Open(i) PROVE FALSE
  OBVIOUS
<1> DEFINE S == {j \in Ids : Open(j) /\ calls[j].TID = cursor}
<1>4. PICK j \in S : \A y \in Ids : y < j => y \notin S
  <2>1. S \subseteq Ids /\ S # {}
    BY <1>3
  <2> HIDE DEF S
  <2> QED
    BY <2>1, LeastCall
<1>5. ~IsRoot(j)
  BY <1>2 DEF RootsInv, OneRoot
<1>6. PICK p : p = calls[j].prevFunction
  OBVIOUS
<1>7. p \in Ids /\ p < j /\ calls[p].TID = cursor
  BY <1>5, <1>6, UpwardIsAnId DEF ShapeInv, TreeWellFormed
<1>8. ~Open(p) /\ j \in OpenChildren(p)
  BY <1>4, <1>6, <1>7 DEF OpenChildren, Children
<1>9. IsRoot(p)
  BY <1>7, <1>8 DEF ChainInv, OpenCallsFormChain
<1>10. p = r
  BY <1>2, <1>7, <1>9 DEF RootsInv, OneRoot
<1> QED
  BY <1>2, <1>8, <1>10

\* When the walk ends it has written every call of its thread: the oldest
\* one it had missed would hang on a written call whose list is exhausted.
LEMMA WalkIsComplete ==
  ASSUME TypeInv, ShapeInv, PassedInv, RootsInv, Closed, pc \in Walking,
         \A k \in DOMAIN walk :
           walk[k].next > Len(calls[walk[k].call].calledFunctions),
         NEW i \in Ids, calls[i].TID = cursor
  PROVE  i \in Written
<1>1. /\ cursor \in Threads /\ second[cursor] \in Ids /\ Written \subseteq Ids
      /\ \A j \in Ids : j # Nil
  BY CallFacts, WrittenFacts DEF TypeInv, PhaseOK, Phases
<1>0. PICK r : r = second[cursor]
  OBVIOUS
<1>2. r \in Written /\ r \in Ids /\ IsRoot(r) /\ calls[r].TID = cursor
  BY <1>0, <1>1 DEF PassedInv, AtRoot, Walking, ShapeInv, OwnCalls, Closed
<1>3. SUFFICES ASSUME i \notin Written PROVE FALSE
  OBVIOUS
<1> DEFINE S == {j \in Ids : j \notin Written /\ calls[j].TID = cursor}
<1>4. PICK j \in S : \A y \in Ids : y < j => y \notin S
  <2>1. S \subseteq Ids /\ S # {}
    BY <1>3
  <2> HIDE DEF S
  <2> QED
    BY <2>1, LeastCall
<1>5. ~IsRoot(j)
  BY <1>2 DEF RootsInv, OneRoot
<1>6. PICK p : p = calls[j].prevFunction
  OBVIOUS
<1>7. p \in Ids /\ p < j /\ calls[p].TID = cursor
  BY <1>5, <1>6, UpwardIsAnId DEF ShapeInv, TreeWellFormed
<1>8. p \in Written
  BY <1>4, <1>7
<1>9. PICK l : l = calls[p].calledFunctions
  OBVIOUS
<1>10. ToCome(j)
  BY <1>5, <1>6, <1>8 DEF Closed
<1>11. PICK k \in DOMAIN walk, m \in DOMAIN l : walk[k].call = p /\ walk[k].next <= m
  BY <1>6, <1>9, <1>10 DEF ToCome
<1>12. l \in Seq(Nat)
  BY <1>7, <1>9, CallFacts
<1>13. m \in Nat /\ m <= Len(l) /\ Len(l) \in Nat
  BY <1>11, <1>12
<1>14. walk[k].next > Len(l) /\ walk[k].next \in Nat
  BY <1>9, <1>11, WalkTypes
<1> QED
  BY <1>11, <1>13, <1>14

\* Steps that write nothing and are outside the walk.
LEMMA CoverKept ==
  ASSUME TypeInv, CoverInv, UNCHANGED <<log, walk>>, Ids' = Ids,
         \A i \in Ids : Same(i), pc' \notin Walking, freed \subseteq freed',
         pc = "delete" => \/ pc' = "delete" /\ UNCHANGED <<second, cursor>>
                          \/ second[cursor] \in freed',
         Covered'
  PROVE  CoverInv'
<1>1. Written' = Written
  BY DEF Written
<1>2. Closed' /\ Exhausted'
  BY DEF Closed, Exhausted, Walking
<1>3. Unleaked'
  BY <1>1 DEF CoverInv, Unleaked
<1> QED
  BY <1>2, <1>3 DEF CoverInv

LEMMA CoverRoot ==
  ASSUME TypeInv, ShapeInv, WrittenInv, CoverInv, SerializeRoot
  PROVE  CoverInv'
<1>0. PICK s : s = second[cursor]
  OBVIOUS
<1>1. /\ UNCHANGED <<calls, cursor, second, freed>> /\ pc = "serialize" /\ pc' = "walk"
      /\ log' = Append(log, Line(s))
      /\ walk' = Append(<<>>, [call |-> s, next |-> 1])
  BY <1>0 DEF SerializeRoot, SerializeCall, At, profiler
<1>2. DOMAIN walk' = {1} /\ walk'[1].call = s /\ walk'[1].next = 1
  BY <1>1
<1>3. s \in Ids /\ calls[s].TID = cursor
  BY <1>0, <1>1, CallFacts DEF TypeInv, PhaseOK, Phases, Walking, ShapeInv, OwnCalls
<1>4. /\ Written' = Written \cup {s} /\ Written \subseteq Ids
      /\ \A i \in Ids : calls[i].TID \in Nat
  BY <1>1, WrittenFacts, WriteFacts
<1>5. \A i \in Written : calls[i].TID # cursor
  <2>1. cursor \in Nat
    BY WrittenFacts
  <2>2. \A i \in Written : calls[i].TID < cursor
    BY <1>1 DEF WrittenInv, ThreadsInv, Unwritten
  <2> QED
    BY <1>4, <2>1, <2>2
<1>6. Covered'
  BY <1>1, <1>4 DEF CoverInv, Covered, Over, Writing, Walking, Ids
\* The root's children are in its list, of which nothing is cleared yet.
<1>7. Closed' /\ Exhausted'
  <2>1. ASSUME NEW i \in Ids, ~IsRoot(i), calls[i].prevFunction \in Written',
               calls[i].TID = cursor
        PROVE  ToCome(i)'
    <3>1. calls[i].prevFunction = s
      <4>1. calls[calls[i].prevFunction].TID = cursor
        BY <2>1 DEF ShapeInv, TreeWellFormed
      <4> QED
        BY <1>4, <1>5, <2>1, <4>1
    <3>2. s \notin Written
      BY <1>3, <1>5
    <3>3. PICK m \in DOMAIN calls[s].calledFunctions : calls[s].calledFunctions[m] = i
      BY <2>1, <3>1, <3>2 DEF ShapeInv, TreeWellFormed
    <3>4. calls[s].calledFunctions \in Seq(Nat)
      BY <1>3, CallFacts
    <3>5. m \in Nat /\ 1 <= m
      BY <3>3, <3>4
    <3> QED
      BY <1>1, <1>2, <3>1, <3>3, <3>5 DEF ToCome
  <2>2. Ids' = Ids /\ \A i \in Ids : IsRoot(i)' <=> IsRoot(i)
    BY <1>1 DEF Ids, IsRoot
  <2>3. walk'[1].call = second'[cursor'] /\ second'[cursor'] \in Written'
    BY <1>0, <1>1, <1>2, <1>4
  <2>4. Closed'
    BY <1>1, <2>1, <2>2, <2>3 DEF Closed
  <2> QED
    BY <1>1, <2>4 DEF Exhausted
<1>8. Unleaked'
  <2>1. DOMAIN walk = {}
    BY <1>1 DEF WrittenInv, PathInv, Walking
  <2> QED
    BY <1>1, <1>2, <1>4, <2>1 DEF CoverInv, Unleaked
<1> QED
  BY <1>6, <1>7, <1>8 DEF CoverInv

LEMMA CoverChild ==
  ASSUME TypeInv, ShapeInv, WrittenInv, CoverInv, SerializeChild
  PROVE  CoverInv'
<1>0. PICK depth, top, j : Descends(depth, top, j)
  BY DescendFacts
<1>1. /\ UNCHANGED <<calls, cursor, second, freed, pc>> /\ pc = "walk" /\ pc \in Walking
  BY DEF SerializeChild, At, profiler, Walking
<1>2. /\ top = walk[depth] /\ j = calls[top.call].calledFunctions[top.next]
      /\ top.next \in Nat /\ depth \in Nat \ {0} /\ DOMAIN walk = 1 .. depth
      /\ top.call \in Ids /\ j \in Ids
      /\ calls[j].prevFunction = top.call /\ top.call < j
      /\ calls[j].TID = calls[top.call].TID
  BY <1>0 DEF Descends
<1>3. /\ DOMAIN walk' = 1 .. (depth + 1)
      /\ \A k \in 1 .. depth : walk'[k].call = walk[k].call
      /\ \A k \in 1 .. depth : k # depth => walk'[k].next = walk[k].next
      /\ walk'[depth].next = top.next + 1
      /\ walk'[depth + 1].call = j /\ walk'[depth + 1].next = 1
      /\ log' = Append(log, Line(j))
  BY <1>0 DEF Descends
<1>4. Written' = Written \cup {j} /\ Written \subseteq Ids
  BY <1>3, WriteFacts, WrittenFacts
<1>5. Covered'
  BY <1>1, <1>4 DEF CoverInv, Covered, Ids
<1>6. depth + 1 \in DOMAIN walk' /\ \A k \in DOMAIN walk : k \in DOMAIN walk'
  <2>1. depth \in Nat /\ DOMAIN walk = 1 .. depth
    BY <1>2
  <2>2. DOMAIN walk' = 1 .. (depth + 1)
    BY <1>3
  <2> QED
    BY <2>1, <2>2
<1>7. Unleaked'
  <2> SUFFICES ASSUME NEW i \in Written'
               PROVE  i \in freed \/ \E k \in DOMAIN walk' : walk'[k].call = i
    BY <1>1 DEF Unleaked
  <2>1. CASE i = j
    BY <1>3, <1>6, <2>1
  <2>2. CASE i \in Written
    <3>1. i \in freed \/ \E k \in DOMAIN walk : walk[k].call = i
      BY <1>1, <2>2 DEF CoverInv, Unleaked
    <3> QED
      BY <1>2, <1>3, <1>6, <3>1
  <2> QED
    BY <1>4, <2>1, <2>2
<1>8. Closed'
  <2>1. walk'[1].call = second'[cursor'] /\ second'[cursor'] \in Written'
    <3>1. 1 \in 1 .. depth
      <4>1. depth \in Nat \ {0}
        BY <1>2
      <4> QED
        BY <4>1
    <3> QED
      BY <1>1, <1>3, <1>4, <3>1 DEF CoverInv, Closed
  <2>2. ASSUME NEW i \in Ids, NEW c, ~IsRoot(i), c = calls[i].prevFunction,
               c \in Written', calls[i].TID = cursor, i \notin Written'
        PROVE  ToCome(i)'
    <3>0. c \in Ids /\ calls[c].calledFunctions \in Seq(Nat)
      BY <1>2, <1>4, <2>2, CallFacts
    \* j is not written, so its list still holds its children.
    <3>1. CASE c = j /\ j \notin Written
      <4>0. c \notin Written =>
              \E m \in DOMAIN calls[c].calledFunctions : calls[c].calledFunctions[m] = i
        BY <2>2 DEF ShapeInv, TreeWellFormed
      <4>1. PICK m \in DOMAIN calls[c].calledFunctions : calls[c].calledFunctions[m] = i
        BY <3>1, <4>0
      <4>2. m \in Nat /\ 1 <= m
        BY <3>0, <4>1
      <4> QED
        BY <1>1, <1>3, <1>6, <2>2, <3>1, <4>1, <4>2 DEF ToCome
    <3>2. CASE c \in Written
      <4>0. ToCome(i)
        BY <1>1, <1>4, <2>2, <3>2 DEF CoverInv, Closed
      <4>1. PICK k \in DOMAIN walk, m \in DOMAIN calls[c].calledFunctions :
              /\ walk[k].call = c /\ walk[k].next <= m
              /\ calls[c].calledFunctions[m] = i
        BY <2>2, <4>0 DEF ToCome
      <4>2. m \in Nat
        BY <3>0, <4>1
      <4>3. k # depth \/ m # top.next
        BY <1>2, <1>4, <2>2, <4>1
      <4>4. walk'[k].call = c /\ walk'[k].next <= m /\ k \in DOMAIN walk'
        <5>1. CASE k = depth
          <6>1. top.next + 1 <= m
            BY <1>2, <4>1, <4>2, <4>3, <5>1
          <6> QED
            BY <1>2, <1>3, <1>6, <4>1, <5>1, <6>1
        <5>2. CASE k # depth
          BY <1>2, <1>3, <1>6, <4>1, <5>2
        <5> QED
          BY <5>1, <5>2
      <4> QED
        BY <1>1, <2>2, <4>1, <4>4 DEF ToCome
    <3> QED
      BY <1>4, <2>2, <3>1, <3>2
  <2> QED
    BY <1>1, <2>1, <2>2 DEF Closed, Ids, IsRoot
<1>9. Exhausted'
  BY <1>1 DEF Exhausted
<1> QED
  BY <1>5, <1>7, <1>8, <1>9 DEF CoverInv

\* What the end of the loop shows stays true while nothing is written.
LEMMA CoverStays ==
  ASSUME TypeInv, CoverInv, UNCHANGED <<second, cursor, freed, walk, log>>,
         Ids' = Ids, \A i \in Ids : Same(i), pc \in Walking, pc' \in Walking,
         \A i \in Ids : ToCome(i) => ToCome(i)' \/ i \in Written,
         Exhausted'
  PROVE  CoverInv'
<1>1. Written' = Written /\ Written \subseteq Ids
  BY WrittenFacts DEF Written
<1>2. Covered'
  BY <1>1 DEF CoverInv, Covered, Over, Writing, Walking, Same
<1>3. Closed'
  BY <1>1 DEF CoverInv, Closed, Same, IsRoot
<1>4. Unleaked'
  BY <1>1 DEF CoverInv, Unleaked, Walking
<1> QED
  BY <1>2, <1>3, <1>4 DEF CoverInv

LEMMA CoverLoopEnds ==
  ASSUME TypeInv, CoverInv, LoopEnds
  PROVE  CoverInv'
<1>1. /\ UNCHANGED <<calls, second, cursor, freed, walk, log>>
      /\ pc \in Walking /\ pc' \in Walking
      /\ walk[Len(walk)].next > Len(calls[walk[Len(walk)].call].calledFunctions)
  BY DEF LoopEnds, At, profiler, Walking
<1>2. Ids' = Ids /\ \A i \in Ids : Same(i) /\ (ToCome(i) => ToCome(i)')
  BY <1>1 DEF Ids, Same, ToCome
<1>3. Exhausted'
  BY <1>1 DEF Exhausted
<1> QED
  BY <1>1, <1>2, <1>3, CoverStays

\* The list that is cleared holds no call that is still to come.
LEMMA CoverClears ==
  ASSUME TypeInv, WrittenInv, CoverInv, ClearCalled
  PROVE  CoverInv'
<1>1. /\ UNCHANGED <<second, cursor, freed, walk, log>> /\ pc = "clearing"
      /\ pc \in Walking /\ pc' \in Walking
  BY DEF ClearCalled, At, Walking
<1>2. PICK top \in Ids :
        /\ Len(walk) \in DOMAIN walk /\ walk[Len(walk)].call = top
        /\ Ids' = Ids /\ \A i \in Ids : Untouched(i)
        /\ \A i \in Ids : i # top => calls'[i].calledFunctions = calls[i].calledFunctions
        /\ calls'[top].calledFunctions = <<>>
  BY ClearFacts
<1>3. \A i \in Ids : Same(i)
  BY <1>2 DEF Untouched
<1>4. ASSUME NEW i \in Ids, NEW c, c = calls[i].prevFunction, ToCome(i)
      PROVE  ToCome(i)'
  <2>1. PICK k \in DOMAIN walk, m \in DOMAIN calls[c].calledFunctions :
          /\ walk[k].call = c /\ walk[k].next <= m
          /\ calls[c].calledFunctions[m] = i
    BY <1>4 DEF ToCome
  <2>2. c \in Ids /\ walk[k].next \in Nat /\ calls[c].calledFunctions \in Seq(Nat)
    BY <2>1, WalkTypes, CallFacts
  <2>3. m \in Nat /\ m <= Len(calls[c].calledFunctions)
        /\ Len(calls[c].calledFunctions) \in Nat
    BY <2>1, <2>2
  <2>4. k # Len(walk)
    BY <1>1, <2>1, <2>2, <2>3 DEF CoverInv, Exhausted
  <2>5. c # top
    <3>1. k < Len(walk) /\ top \in Nat
      BY <1>2, <2>4, WalkTypes, CallFacts
    <3>2. walk[k].call < walk[Len(walk)].call
      BY <1>2, <3>1 DEF WrittenInv, PathInv
    <3> QED
      BY <1>2, <2>1, <2>2, <3>1, <3>2
  <2>6. calls'[c].calledFunctions = calls[c].calledFunctions /\ calls'[i].prevFunction = c
    BY <1>2, <1>3, <1>4, <2>2, <2>5 DEF Same
  <2> QED
    BY <1>1, <2>1, <2>6 DEF ToCome
<1>5. Exhausted'
  <2>1. walk[Len(walk)].next > Len(<<>>)
    BY <1>2, WalkTypes
  <2> QED
    BY <1>1, <1>2, <2>1 DEF Exhausted
<1> QED
  BY <1>1, <1>2, <1>3, <1>4, <1>5, CoverStays

LEMMA CoverReturn ==
  ASSUME TypeInv, ShapeInv, PassedInv, RootsInv, CoverInv, SerializeReturn
  PROVE  CoverInv'
<1>0. PICK depth, top : depth = Len(walk) /\ top = walk[depth]
  OBVIOUS
<1>1. /\ UNCHANGED <<calls, cursor, second, log>> /\ pc = "returning"
      /\ pc \in Walking
      /\ freed' = IF depth = 1 THEN freed ELSE freed \cup {top.call}
      /\ pc' = IF depth = 1 THEN "delete" ELSE "walk"
  BY <1>0 DEF SerializeReturn, At, tree, Delete, Walking
<1>2. /\ depth \in Nat \ {0} /\ DOMAIN walk = 1 .. depth /\ top.call \in Ids
      /\ top.next > Len(calls[top.call].calledFunctions)
      /\ DOMAIN walk' = 1 .. (depth - 1)
      /\ \A k \in 1 .. (depth - 1) : walk'[k] = walk[k]
  BY <1>0, <1>1, AscendFacts DEF CoverInv, Exhausted
<1>3. Written' = Written /\ Ids' = Ids
  BY <1>1 DEF Written, Ids
<1>4. \A k \in DOMAIN walk : k = depth \/ (k \in DOMAIN walk' /\ walk'[k] = walk[k])
  BY <1>2
<1>5. Covered'
  <2>1. CASE depth = 1
    <3>1. \A k \in DOMAIN walk : walk[k].next > Len(calls[walk[k].call].calledFunctions)
      BY <1>0, <1>2, <2>1
    <3>2. \A i \in Ids : calls[i].TID = cursor => i \in Written
      BY <1>1, <3>1, WalkIsComplete DEF CoverInv
    <3>3. pc' = "delete"
      BY <1>1, <2>1
    <3> QED
      BY <1>1, <1>3, <3>2, <3>3 DEF CoverInv, Covered, Over, Writing, Walking
  <2>2. CASE depth # 1
    <3>1. pc' = "walk"
      BY <1>1, <2>2
    <3> QED
      BY <1>1, <1>3, <3>1 DEF CoverInv, Covered, Over, Writing, Walking
  <2> QED
    BY <2>1, <2>2
<1>6. Unleaked'
  <2> SUFFICES ASSUME NEW i \in Written'
               PROVE  \/ i \in freed' \/ \E k \in DOMAIN walk' : walk'[k].call = i
                      \/ pc' = "delete" /\ i = second'[cursor']
    BY DEF Unleaked
  <2>1. i \in freed \/ \E k \in DOMAIN walk : walk[k].call = i
    BY <1>1, <1>3 DEF CoverInv, Unleaked
  <2>2. CASE i = top.call
    <3>1. depth = 1 => top.call = second[cursor]
      BY <1>0, <1>1 DEF CoverInv, Closed
    <3> QED
      BY <1>1, <2>2, <3>1
  <2>3. CASE i # top.call
    <3>1. i \in freed => i \in freed'
      BY <1>1
    <3> QED
      BY <1>0, <1>4, <2>1, <2>3, <3>1
  <2> QED
    BY <2>2, <2>3
<1>7. Closed' /\ Exhausted'
  <2>0. Exhausted'
    BY <1>1 DEF Exhausted
  <2> SUFFICES ASSUME pc' \in Walking PROVE Closed'
    BY <2>0 DEF Closed
  <2>1. depth # 1 /\ 1 \in 1 .. (depth - 1)
    BY <1>1, <1>2 DEF Walking
  <2>2. walk'[1].call = second'[cursor'] /\ second'[cursor'] \in Written'
    BY <1>1, <1>2, <1>3, <2>1 DEF CoverInv, Closed
  <2>3. ASSUME NEW i \in Ids, NEW c, ~IsRoot(i), c = calls[i].prevFunction,
               c \in Written, calls[i].TID = cursor, i \notin Written
        PROVE  ToCome(i)'
    <3>0. ToCome(i)
      BY <1>1, <2>3 DEF CoverInv, Closed
    <3>1. PICK k \in DOMAIN walk, m \in DOMAIN calls[c].calledFunctions :
            /\ walk[k].call = c /\ walk[k].next <= m
            /\ calls[c].calledFunctions[m] = i
      BY <2>3, <3>0 DEF ToCome
    <3>2. k # depth
      <4>1. SUFFICES ASSUME k = depth PROVE FALSE
        OBVIOUS
      <4>2. PICK l : l = calls[top.call].calledFunctions
        OBVIOUS
      <4>3. l \in Seq(Nat) /\ m \in DOMAIN l /\ top.next > Len(l) /\ top.next <= m
        BY <1>0, <1>2, <3>1, <4>1, <4>2, CallFacts
      <4>4. m \in Nat /\ m <= Len(l) /\ Len(l) \in Nat
        BY <4>3
      <4>5. top.next \in Nat
        BY <1>0, <3>1, <4>1, WalkTypes
      <4> QED
        BY <4>3, <4>4, <4>5
    <3> QED
      BY <1>1, <1>4, <2>3, <3>1, <3>2 DEF ToCome
  <2> QED
    BY <1>1, <1>3, <2>2, <2>3 DEF Closed, IsRoot
<1> QED
  BY <1>5, <1>6, <1>7 DEF CoverInv

LEMMA CoverInvNext ==
  ASSUME ~LateCallbacks, TypeInv, ShapeInv, PassedInv, WrittenInv, RootsInv, Lines,
         CoverInv, [Next]_vars
  PROVE  CoverInv'
<1>0. /\ cursor \in Nat /\ \A i \in Ids : calls[i].TID \in Nat /\ calls[i].TID \in Threads
      /\ \A t \in known : t \in Nat
      /\ \A t \in Threads : t # 0
      /\ freed \subseteq Ids
  <2>1. known \subseteq Threads /\ freed \subseteq Ids
    BY DEF TypeInv, TypeOK, ProfilerTypeOK
  <2>2. \A t \in Threads : t # 0 /\ t \in Nat
    BY ThreadsAssumption
  <2> QED
    BY <2>1, <2>2, CallFacts, WrittenFacts
\* Until Shutdown there is nothing to say.
<1>1. ASSUME pc = "running", pc' = "running", UNCHANGED log
      PROVE  CoverInv'
  <2>1. log' = <<>>
    BY <1>1 DEF Lines
  <2>2. Written' = {}
    BY <2>1 DEF Written
  <2> QED
    BY <1>1, <2>2 DEF CoverInv, Covered, Closed, Exhausted, Unleaked, Over, Walking
<1>2. CASE pc = "running" /\ (Idle \/ \E t \in Threads : ObjectAllocated(t))
  BY <1>1, <1>2 DEF Idle, ObjectAllocated, shutdown
<1>3. CASE pc = "running" /\ \E t \in Threads, f \in Functions : Grows(t, f)
  BY <1>1, <1>3 DEF Grows, shutdown
<1>4. CASE pc = "running" /\ \E t \in Threads : Stamps(t)
  BY <1>1, <1>4 DEF Stamps, shutdown
<1>5. CASE UNCHANGED vars
  <2>1. UNCHANGED <<calls, second, freed, pc, cursor, walk, log>>
    BY <1>5 DEF vars, profiler, shutdown
  <2>2. Written' = Written /\ Ids' = Ids
    BY <2>1 DEF Written, Ids
  <2> QED
    BY <2>1, <2>2 DEF CoverInv, Covered, Closed, Exhausted, Unleaked, ToCome, IsRoot
<1>6. ASSUME UNCHANGED calls PROVE Ids' = Ids /\ \A i \in Ids : Same(i)
  BY <1>6 DEF Ids, Same
<1>7. UNCHANGED log => Written' = Written
  BY DEF Written
<1>8. CASE ShutdownBegin
  <2>1. /\ UNCHANGED <<calls, freed, log, walk, cursor>>
        /\ pc' = "threads" /\ pc = "running"
    BY <1>8 DEF ShutdownBegin, At, profiler
  <2>2. cursor = 0
    BY <2>1 DEF PassedInv
  <2>3. \A i \in Ids : ~(calls[i].TID <= cursor)
    BY <1>0, <2>2
  <2>4. Covered'
    BY <1>0, <1>6, <2>1, <2>3 DEF Covered, Over
  <2> QED
    BY <1>6, <2>1, <2>4, CoverKept DEF Walking
\* The loop skips only a thread that made no call.
<1>9. CASE NextThread
  <2>1. PICK t \in known : /\ t > cursor /\ \A u \in known : u > cursor => t <= u
                           /\ cursor' = t
                           /\ pc' = IF second[t] = Nil THEN "threads" ELSE "climb"
    BY <1>9 DEF NextThread
  <2>2. UNCHANGED <<calls, second, freed, log, walk>> /\ pc = "threads"
    BY <1>9 DEF NextThread, profiler, At
  <2>3. \A i \in Ids : calls[i].TID < t => i \in Written
    <3> TAKE i \in Ids
    <3> HAVE calls[i].TID < t
    <3>1. calls[i].TID \in known
      BY <2>2 DEF RootsInv, Known, Over
    <3>2. ~(calls[i].TID > cursor)
      BY <1>0, <2>1, <3>1
    <3>3. calls[i].TID < cursor \/ calls[i].TID = cursor
      BY <1>0, <3>2
    <3> QED
      BY <2>2, <3>3 DEF CoverInv, Covered, Writing, Walking
  <2>4. \A i \in Ids : calls[i].TID = t => pc' = "climb"
    BY <1>0, <2>1 DEF RootsInv, Ahead
  <2>5. Covered'
    BY <1>6, <1>7, <2>1, <2>2, <2>3, <2>4 DEF Covered, Over, Writing, Walking
  <2> QED
    BY <1>6, <2>1, <2>2, <2>5, CoverKept DEF Walking
<1>10. CASE Climb
  <2>1. /\ UNCHANGED <<freed, log, walk, cursor>> /\ pc = "climb"
        /\ pc' \in {"climb", "serialize"}
    BY <1>10 DEF Climb, At
  <2>2. Ids' = Ids /\ \A i \in Ids : Same(i)
    BY <1>6, <1>10, ClimbCases, StampFacts, TypeInvParts DEF Stamped, Lifted
  <2>3. Covered'
    BY <1>7, <2>1, <2>2 DEF CoverInv, Covered, Over, Writing, Walking, Same
  <2> QED
    BY <2>1, <2>2, <2>3, CoverKept DEF Walking
<1>11. CASE DeleteRoot
  <2>1. /\ UNCHANGED <<calls, second, log, walk, cursor>> /\ pc = "delete"
        /\ \/ UNCHANGED <<pc, freed>>
           \/ freed' = freed \cup {second[cursor]} /\ pc' = "detach"
    BY <1>11 DEF DeleteRoot, Crash, Delete, At, tree
  <2>2. Covered'
    BY <1>6, <1>7, <2>1 DEF CoverInv, Covered, Over, Writing, Walking
  <2> QED
    BY <1>6, <2>1, <2>2, CoverKept DEF Walking
<1>12. CASE DetachRoot
  <2>1. /\ UNCHANGED <<calls, freed, log, walk, cursor>> /\ pc = "detach" /\ pc' = "threads"
    BY <1>12 DEF DetachRoot, At
  <2>2. Covered'
    BY <1>6, <1>7, <2>1 DEF CoverInv, Covered, Over, Writing, Walking
  <2> QED
    BY <1>6, <2>1, <2>2, CoverKept DEF Walking
<1>13. CASE ClearMaps
  <2>1. /\ UNCHANGED <<calls, freed, log, walk, cursor>> /\ pc = "threads" /\ pc' = "release"
        /\ \A t \in known : t <= cursor
    BY <1>13 DEF ClearMaps, At
  <2>2. \A i \in Ids : i \in Written
    <3> TAKE i \in Ids
    <3>1. calls[i].TID <= cursor
      BY <2>1 DEF RootsInv, Known, Over
    <3>2. calls[i].TID < cursor \/ calls[i].TID = cursor
      BY <1>0, <3>1
    <3> QED
      BY <2>1, <3>2 DEF CoverInv, Covered, Writing, Walking
  <2>3. Covered'
    BY <1>6, <1>7, <2>1, <2>2 DEF Covered
  <2> QED
    BY <1>6, <2>1, <2>3, CoverKept DEF Walking
<1>14. CASE ReleaseInfo \/ ClearGlobal
  <2>1. /\ UNCHANGED <<calls, freed, log, walk, cursor>> /\ pc \in Over /\ pc' \in Over
        /\ pc # "delete" /\ pc' \notin Walking
    BY <1>14 DEF ReleaseInfo, ClearGlobal, At, tree, Over, Walking
  <2>2. Covered'
    BY <1>6, <1>7, <2>1 DEF CoverInv, Covered
  <2> QED
    BY <1>6, <2>1, <2>2, CoverKept
<1> QED
  BY <1>2, <1>3, <1>4, <1>5, <1>8, <1>9, <1>10, <1>11, <1>12, <1>13, <1>14,
     CoverRoot, CoverChild, CoverLoopEnds, CoverClears, CoverReturn, StepCases
     DEF ShutdownStep

-----------------------------------------------------------------------------
(* What the lines say.                                                     *)

\* The fields of a line are never changed once its call is finished.
LEMMA LineKept ==
  ASSUME TypeInv, NEW i \in Ids, Untouched(i), \A j \in Ids : Same(j)
  PROVE  Line(i)' = Line(i) /\ (IsRoot(i)' <=> IsRoot(i)) /\ (Open(i)' <=> Open(i))
<1>1. calls[i].prevFunction \in {Nil} \cup Ids
  BY CallFacts
<1>2. rFn(i)' = rFn(i)
  BY <1>1 DEF rFn, IsRoot, Untouched, Same
<1> QED
  BY <1>2 DEF Line, IsRoot, Open, Untouched, Same

LEMMA LinesKept ==
  ASSUME TypeInv, Lines, UNCHANGED log, pc' = "running" => pc = "running",
         \A i \in Ids : Same(i), \A i \in Written : Untouched(i)
  PROVE  Lines'
<1>1. \A k \in DOMAIN log : log[k].call \in Ids /\ log[k].call \in Written
  BY WalkTypes DEF Written
<1>2. \A k \in DOMAIN log : /\ Line(log[k].call)' = Line(log[k].call)
                            /\ (IsRoot(log[k].call)' <=> IsRoot(log[k].call))
                            /\ (Open(log[k].call)' <=> Open(log[k].call))
  BY <1>1, LineKept
<1>3. \A k \in DOMAIN log : log'[k] = Line(log[k].call)' /\ ~Open(log[k].call)'
  BY <1>2 DEF Lines
<1>4. \A k \in DOMAIN log : ~IsRoot(log[k].call)' =>
        \E m \in 1 .. k - 1 : log[m].call = calls'[log[k].call].prevFunction
  BY <1>1, <1>2 DEF Lines, Same
<1> QED
  BY <1>3, <1>4 DEF Lines, Line, rFn, IsRoot, Open

LEMMA LinesWrite ==
  ASSUME TypeInv, Lines, UNCHANGED calls, pc' # "running",
         NEW i \in Ids, ~Open(i), ~IsRoot(i) => calls[i].prevFunction \in Written,
         log' = Append(log, Line(i))
  PROVE  Lines'
<1>0. PICK n : n = Len(log)
  OBVIOUS
<1>1. n \in Nat /\ DOMAIN log = 1 .. n
  BY <1>0, WalkTypes
<1>2. /\ DOMAIN log' = 1 .. (n + 1)
      /\ \A k \in DOMAIN log : log'[k] = log[k]
      /\ log'[n + 1] = Line(i)
  <2>1. /\ DOMAIN log' = 1 .. (Len(log) + 1)
        /\ \A k \in DOMAIN log : log'[k] = log[k]
        /\ log'[Len(log) + 1] = Line(i)
    BY WriteFacts
  <2> QED
    BY <1>0, <2>1
<1>3. log'[n + 1].call = i
  <2>1. Line(i).call = i
    BY DEF Line
  <2> QED
    BY ZenonT(30), <1>2, <2>1
<1>4. ASSUME NEW k \in DOMAIN log'
      PROVE  /\ log'[k] = Line(log'[k].call) /\ ~Open(log'[k].call)
             /\ ~IsRoot(log'[k].call) =>
                  \E m \in 1 .. k - 1 : log'[m].call = calls[log'[k].call].prevFunction
  <2>1. CASE k = n + 1
    <3>1. log'[k] = Line(i) /\ log'[k].call = i
      BY <1>2, <1>3, <2>1
    <3>2. ASSUME ~IsRoot(i)
          PROVE  \E m \in 1 .. k - 1 : log'[m].call = calls[i].prevFunction
      <4>1. PICK m \in DOMAIN log : log[m].call = calls[i].prevFunction
        BY <3>2 DEF Written
      <4>2. m \in 1 .. k - 1 /\ log'[m] = log[m]
        BY <1>1, <1>2, <2>1, <4>1
      <4> QED
        BY <4>1, <4>2
    <3> QED
      BY <3>1, <3>2
  <2>2. CASE k \in DOMAIN log
    <3>1. log'[k] = log[k] /\ \A m \in 1 .. k - 1 : log'[m] = log[m]
      BY <1>1, <1>2, <2>2
    <3>2. /\ log[k] = Line(log[k].call) /\ ~Open(log[k].call)
          /\ ~IsRoot(log[k].call) =>
               \E m \in 1 .. k - 1 : log[m].call = calls[log[k].call].prevFunction
      BY <2>2 DEF Lines
    <3> QED
      BY <3>1, <3>2
  <2> QED
    BY <1>1, <1>2, <2>1, <2>2
<1>5. \A k : /\ Line(log[k].call)' = Line(log'[k].call)
             /\ IsRoot(log[k].call)' <=> IsRoot(log'[k].call)
             /\ Open(log[k].call)' <=> Open(log'[k].call)
  BY DEF Line, rFn, Open, IsRoot
<1>6. \A k \in DOMAIN log' :
        log'[k] = Line(log[k].call)' /\ ~(Open(log[k].call)')
  BY <1>4, <1>5
<1>7. \A k \in DOMAIN log' : ~(IsRoot(log[k].call)') =>
        \E m \in 1 .. k - 1 : log'[m].call = calls'[log'[k].call].prevFunction
  BY <1>4, <1>5
<1> QED
  BY <1>6, <1>7 DEF Lines

LEMMA LinesNext ==
  ASSUME ~LateCallbacks, TypeInv, ShapeInv, PassedInv, ChainInv, WrittenInv, RootsInv,
         Lines, [Next]_vars
  PROVE  Lines'
<1>1. ASSUME pc = "running", pc' = "running", UNCHANGED log
      PROVE  Lines'
  BY <1>1 DEF Lines
<1>2. CASE pc = "running" /\ (Idle \/ \E t \in Threads : ObjectAllocated(t))
  BY <1>1, <1>2 DEF Idle, ObjectAllocated, shutdown
<1>3. CASE pc = "running" /\ \E t \in Threads, f \in Functions : Grows(t, f)
  BY <1>1, <1>3 DEF Grows, shutdown
<1>4. CASE pc = "running" /\ \E t \in Threads : Stamps(t)
  BY <1>1, <1>4 DEF Stamps, shutdown
<1>5. ASSUME UNCHANGED <<calls, log>>, pc' = "running" => pc = "running"
      PROVE  Lines'
  BY <1>5, LinesKept DEF Same, Untouched
\* The call the climb stamps is of a thread of which nothing is written.
<1>6. CASE Climb
  <2>1. UNCHANGED log /\ pc = "climb" /\ pc' # "running"
    BY <1>6 DEF Climb, At
  <2>2. /\ cursor \in Threads /\ second[cursor] \in Ids /\ endTime \in Nat \ {0}
        /\ Stamped(cursor, endTime) \/ UNCHANGED calls
    BY <1>6, ClimbCases DEF Lifted
  <2>3. second[cursor] \notin Written
    <3>1. calls[second[cursor]].TID = cursor /\ cursor \in Nat
      BY <2>2, CallFacts, WrittenFacts DEF ShapeInv, OwnCalls
    <3>2. \A i \in Written : calls[i].TID < cursor
      BY <2>1 DEF WrittenInv, ThreadsInv, Unwritten
    <3> QED
      BY <3>1, <3>2
  <2>4. /\ \A i \in Ids : Same(i)
        /\ \A i \in Written : Untouched(i)
    <3>1. Written \subseteq Ids
      BY WrittenFacts
    <3> QED
      BY <2>2, <2>3, <3>1, StampFacts, TypeInvParts DEF Stamped, Same, Untouched
  <2> QED
    BY <2>1, <2>4, LinesKept
<1>7. CASE SerializeRoot
  <2>0. PICK s : s = second[cursor]
    OBVIOUS
  <2>1. /\ UNCHANGED calls /\ pc = "serialize" /\ pc' # "running"
        /\ log' = Append(log, Line(s))
    BY <1>7, <2>0 DEF SerializeRoot, SerializeCall, At, profiler
  <2>2. s \in Ids /\ ~Open(s) /\ IsRoot(s)
    BY <2>0, <2>1 DEF PassedInv, AtRoot, TypeInv, PhaseOK, Phases, Walking
  <2> QED
    BY <2>1, <2>2, LinesWrite
<1>8. CASE SerializeChild
  <2>0. PICK depth, top, j : Descends(depth, top, j)
    BY <1>8, DescendFacts
  <2>1. UNCHANGED calls /\ pc = "walk" /\ pc' # "running"
    BY <1>8 DEF SerializeChild, At, profiler
  <2>2. /\ log' = Append(log, Line(j)) /\ j \in Ids
        /\ calls[j].prevFunction = top.call /\ calls[j].TID = calls[top.call].TID
        /\ top = walk[depth] /\ depth \in DOMAIN walk
    <3>1. /\ log' = Append(log, Line(j)) /\ j \in Ids
          /\ calls[j].prevFunction = top.call /\ calls[j].TID = calls[top.call].TID
          /\ top = walk[depth] /\ depth \in Nat \ {0} /\ DOMAIN walk = 1 .. depth
      BY ZenonT(40), <2>0 DEF Descends
    <3> QED
      BY <3>1
  <2>3. top.call \in Written /\ calls[j].TID = cursor
    BY <2>2 DEF WrittenInv, PathInv
  <2>4. ~Open(j)
    BY <2>1, <2>2, <2>3, ThreadIsFinished DEF AtRoot
  <2> QED
    BY <2>1, <2>2, <2>3, <2>4, LinesWrite
<1>9. CASE \/ ShutdownBegin \/ NextThread \/ LoopEnds \/ SerializeReturn
           \/ DeleteRoot \/ DetachRoot \/ ClearMaps \/ ReleaseInfo \/ ClearGlobal \/ UNCHANGED vars
  <2>1. UNCHANGED <<calls, log>> /\ (pc' = "running" => pc = "running")
    BY <1>9 DEF ShutdownBegin, NextThread, LoopEnds, SerializeReturn, DeleteRoot,
       DetachRoot, ClearMaps, ReleaseInfo, ClearGlobal, Crash, At, vars, profiler, shutdown, tree
  <2> QED
    BY <1>5, <2>1
\* No line shows the list that is cleared.
<1>10. CASE ClearCalled
  <2>1. UNCHANGED log /\ pc # "running" /\ pc' # "running" /\ Written \subseteq Ids
    BY <1>10, WrittenFacts DEF ClearCalled, At
  <2> QED
    BY <1>10, <2>1, ClearedIsUntouched, LinesKept DEF Untouched
<1> QED
  BY <1>2, <1>3, <1>4, <1>6, <1>7, <1>8, <1>9, <1>10, StepCases DEF ShutdownStep

LEMMA LogInvariant == ~LateCallbacks => (Spec => [](CoverInv /\ Lines))
<1> SUFFICES ASSUME ~LateCallbacks PROVE Spec => [](CoverInv /\ Lines)
  OBVIOUS
<1>1. Init => CoverInv /\ Lines
  BY DEF Init, CoverInv, Covered, Closed, Exhausted, Unleaked, Lines, Written, Over, Walking
<1>2. /\ TypeInv /\ ShapeInv /\ PassedInv /\ ChainInv /\ WrittenInv /\ RootsInv
      /\ CoverInv /\ Lines /\ [Next]_vars
      => CoverInv' /\ Lines'
  BY CoverInvNext, LinesNext
<1> QED
  BY <1>1, <1>2, TypeInvariant, ShapeInvariant, PassedInvariant, ChainInvariant,
     WrittenInvariant, RootsInvariant, PTL DEF Spec

-----------------------------------------------------------------------------
(* The results.                                                            *)

\* When Shutdown is done it has deleted every FunctionClass, whatever the
\* shape of the trees: none is left out by the recursion of Serialize or by
\* the loop over the threads (CallTree!NothingLeaks).
THEOREM NoCallLeaks == ~LateCallbacks => (Spec => []NothingLeaks)
<1> SUFFICES ASSUME ~LateCallbacks PROVE Spec => []NothingLeaks
  OBVIOUS
<1>1. TypeInv /\ WrittenInv /\ CoverInv => NothingLeaks
  <2> SUFFICES ASSUME TypeInv, WrittenInv, CoverInv, pc = "done" PROVE freed = Ids
    BY DEF NothingLeaks
  <2>1. freed \subseteq Ids
    BY DEF TypeInv, TypeOK, ProfilerTypeOK
  <2>2. Ids \subseteq Written
    BY DEF CoverInv, Covered, Over
  <2>3. DOMAIN walk = {}
    BY DEF WrittenInv, PathInv, Walking
  <2>4. \A i \in Written : i \in freed
    BY <2>3 DEF CoverInv, Unleaked
  <2> QED
    BY <2>1, <2>2, <2>4
<1> QED
  BY <1>1, TypeInvariant, WrittenInvariant, LogInvariant, PTL

\* Every call has one line: there are as many lines as calls.
LEMMA AsManyLines ==
  ASSUME TypeInv, WrittenOnce, Written = Ids
  PROVE  Len(log) = Len(calls)
<1>1. /\ Len(log) \in Nat /\ DOMAIN log = 1 .. Len(log)
      /\ Ids = 1 .. Len(calls) /\ Len(calls) \in Nat
      /\ \A k \in DOMAIN log : log[k].call \in Ids
  BY WalkTypes, CallFacts
<1> DEFINE callOf == [k \in 1 .. Len(log) |-> log[k].call]
<1>2. callOf \in Bijection(1 .. Len(log), 1 .. Len(calls))
  <2>1. callOf \in [1 .. Len(log) -> 1 .. Len(calls)]
    BY <1>1
  <2>2. \A k, m \in 1 .. Len(log) : callOf[k] = callOf[m] => k = m
    BY <1>1 DEF WrittenOnce
  <2>3. \A i \in 1 .. Len(calls) : \E k \in 1 .. Len(log) : callOf[k] = i
    BY <1>1 DEF Written
  <2> HIDE DEF callOf
  <2> QED
    BY <2>1, <2>2, <2>3 DEF Bijection, Injection, Surjection, IsInjective
<1>3. /\ IsFiniteSet(1 .. Len(log)) /\ Cardinality(1 .. Len(log)) = Len(log)
      /\ IsFiniteSet(1 .. Len(calls)) /\ Cardinality(1 .. Len(calls)) = Len(calls)
  <2>1. \A n \in Nat : IsFiniteSet(1 .. n) /\ Cardinality(1 .. n) = n
    <3> TAKE n \in Nat
    <3>1. Cardinality(1 .. n) = IF 1 > n THEN 0 ELSE n - 1 + 1
      BY FS_Interval
    <3> QED
      BY <3>1, FS_Interval
  <2> QED
    BY <1>1, <2>1
<1>4. ExistsBijection(1 .. Len(log), 1 .. Len(calls))
  BY <1>2, Zenon DEF ExistsBijection
<1>5. Cardinality(1 .. Len(log)) = Cardinality(1 .. Len(calls))
  BY <1>3, <1>4, FS_Bijection
<1> QED
  BY <1>3, <1>5

\* When Shutdown is done its log is the forest: every call is on one line,
\* with an end that is not before its start, after the line of the caller
\* that its rFn names, one level below it (CallTree!LogIsTheForest).
THEOREM LogHoldsTheForest == ~LateCallbacks => (Spec => []LogIsTheForest)
<1> SUFFICES ASSUME ~LateCallbacks PROVE Spec => []LogIsTheForest
  OBVIOUS
<1>1. /\ TypeInv /\ ShapeInv /\ TimesInv /\ WrittenInv /\ CoverInv /\ Lines
      => LogIsTheForest
  <2> SUFFICES ASSUME TypeInv, ShapeInv, TimesInv, WrittenInv, CoverInv, Lines,
                      pc = "done"
               PROVE  /\ {log[k].call : k \in DOMAIN log} = Ids /\ Len(log) = Len(calls)
                      /\ \A k \in DOMAIN log :
                           /\ log[k].eWALLt <= log[k].lWALLt
                           /\ log[k].rFn # -1 =>
                                \E m \in 1 .. k - 1 :
                                  /\ log[m].TID = log[k].TID /\ log[m].nOr = log[k].rFn
                                  /\ log[m].depth + 1 = log[k].depth
    BY DEF LogIsTheForest, Written
  <2>1. Written = Ids
    BY WrittenFacts DEF CoverInv, Covered, Over
  <2>2. Len(log) = Len(calls)
    BY <2>1, AsManyLines DEF WrittenInv
  <2>3. ASSUME NEW k \in DOMAIN log
        PROVE  /\ log[k].eWALLt <= log[k].lWALLt
               /\ log[k].rFn # -1 =>
                    \E m \in 1 .. k - 1 :
                      /\ log[m].TID = log[k].TID /\ log[m].nOr = log[k].rFn
                      /\ log[m].depth + 1 = log[k].depth
    <3>0. PICK i : i = log[k].call
      OBVIOUS
    <3>1. i \in Ids /\ log[k] = Line(i) /\ ~Open(i)
      BY <3>0, WalkTypes DEF Lines
    <3>2. /\ log[k].TID = calls[i].TID /\ log[k].depth = calls[i].depth
          /\ log[k].eWALLt = calls[i].wallTimeEnter
          /\ log[k].lWALLt = calls[i].wallTimeLeave
          /\ log[k].rFn = rFn(i)
      BY <3>1 DEF Line
    <3>3. log[k].eWALLt <= log[k].lWALLt
      BY <3>1, <3>2 DEF TimesInv, IntervalsNest
    <3>4. ASSUME log[k].rFn # -1
          PROVE  \E m \in 1 .. k - 1 :
                   /\ log[m].TID = log[k].TID /\ log[m].nOr = log[k].rFn
                   /\ log[m].depth + 1 = log[k].depth
      <4>0. PICK p : p = calls[i].prevFunction
        OBVIOUS
      <4>1. ~IsRoot(i) /\ log[k].rFn = calls[p].callOrderNumber
        BY <3>2, <3>4, <4>0 DEF rFn
      <4>2. calls[p].TID = calls[i].TID /\ calls[i].depth = calls[p].depth + 1
        BY <3>1, <4>0, <4>1 DEF ShapeInv, TreeWellFormed
      <4>3. PICK m \in 1 .. k - 1 : log[m].call = p
        BY <3>0, <4>0, <4>1 DEF Lines
      <4>4. m \in DOMAIN log
        BY <4>3, WalkTypes
      <4>5. log[m] = Line(p)
        BY <4>3, <4>4 DEF Lines
      <4>6. /\ log[m].TID = calls[p].TID /\ log[m].depth = calls[p].depth
            /\ log[m].nOr = calls[p].callOrderNumber
        BY <4>5 DEF Line
      <4> QED
        BY <3>2, <4>1, <4>2, <4>3, <4>6
    <3> QED
      BY <3>3, <3>4
  <2> QED
    BY <2>1, <2>2, <2>3 DEF Written
<1> QED
  BY <1>1, TypeInvariant, ShapeInvariant, TimesInvariant, WrittenInvariant, LogInvariant, PTL
=============================================================================
