----------------------- MODULE CallTreeShutdownProofs -----------------------
(***************************************************************************)
(* Shutdown writes the forest of CallTree and frees it: proofs of what its *)
(* recursive walk has written and deleted, and that no pointer it or a     *)
(* callback follows is bad.                                                *)
(***************************************************************************)
EXTENDS CallTreeShapeProofs, FiniteSetTheorems

-----------------------------------------------------------------------------
(* The steps of the walk.                                                  *)

\* The walk, depth activations deep, goes down from the call on top to j.
Descends(depth, top, j) ==
  /\ depth = Len(walk) /\ top = walk[depth]
  /\ j = calls[top.call].calledFunctions[top.next]
  /\ depth \in Nat \ {0} /\ DOMAIN walk = 1 .. depth
  /\ top.call \in Ids /\ top.next \in DOMAIN calls[top.call].calledFunctions
  /\ top.next \in Nat
  /\ j \in Ids /\ calls[j].prevFunction = top.call /\ top.call < j
  /\ calls[j].TID = calls[top.call].TID
  /\ Len(walk') = depth + 1 /\ DOMAIN walk' = 1 .. (depth + 1)
  /\ \A k \in 1 .. depth : walk'[k].call = walk[k].call
  /\ \A k \in 1 .. depth : k # depth => walk'[k].next = walk[k].next
  /\ walk'[depth].next = top.next + 1
  /\ walk'[depth + 1].call = j /\ walk'[depth + 1].next = 1
  /\ log' = Append(log, Line(j))

LEMMA DescendFacts ==
  ASSUME TypeInv, ShapeInv, SerializeChild
  PROVE  \E depth, top, j : Descends(depth, top, j)
<1>0. PICK depth, top, j : /\ depth = Len(walk) /\ top = walk[depth]
                           /\ j = calls[top.call].calledFunctions[top.next]
  OBVIOUS
<1>1. pc = "walk" /\ top.next <= Len(calls[top.call].calledFunctions)
      /\ SerializeCall(j, NextChild)
  BY <1>0 DEF SerializeChild, At
<1>2. walk \in Seq(Activation) /\ walk # <<>>
  BY <1>1, WalkTypes DEF WalkOK, TypeInv, PhaseOK, Walking
<1>3. /\ depth \in Nat \ {0} /\ depth \in DOMAIN walk /\ DOMAIN walk = 1 .. depth
      /\ top \in Activation /\ top.call \in Ids /\ top.next \in Nat \ {0}
  <2>1. depth \in Nat \ {0} /\ depth \in DOMAIN walk /\ top \in Activation
    BY <1>0, <1>2, LastOf
  <2>2. top.call \in Ids /\ top.next \in Nat \ {0}
    BY <2>1 DEF Activation
  <2> QED
    BY <1>0, <1>2, <2>1, <2>2
<1>4. top.next \in DOMAIN calls[top.call].calledFunctions
  BY <1>1, <1>3, CallFacts
<1>5. j \in Children(top.call)
  BY <1>0, <1>3, <1>4 DEF ShapeInv, TreeWellFormed
<1>6. /\ j \in Ids /\ calls[j].prevFunction = top.call /\ top.call < j
      /\ calls[j].TID = calls[top.call].TID
  <2>1. j \in Ids /\ calls[j].prevFunction = top.call /\ ~IsRoot(j)
    BY <1>3, <1>5, CallFacts DEF Children, IsRoot
  <2>2. calls[j].prevFunction < j /\ calls[calls[j].prevFunction].TID = calls[j].TID
    BY <2>1 DEF ShapeInv, TreeWellFormed
  <2> QED
    BY <2>1, <2>2
<1>7. NextChild = [walk EXCEPT ![depth] = [top EXCEPT !.next = @ + 1]]
  BY <1>0 DEF NextChild
<1>8. [top EXCEPT !.next = @ + 1] \in Activation
      /\ [top EXCEPT !.next = @ + 1].call = top.call
      /\ [top EXCEPT !.next = @ + 1].next = top.next + 1
  BY <1>3, AdvanceType DEF Activation
<1>9. /\ NextChild \in Seq(Activation) /\ Len(NextChild) = depth
      /\ NextChild[depth] = [top EXCEPT !.next = @ + 1]
      /\ \A k \in 1 .. depth : k # depth => NextChild[k] = walk[k]
  BY <1>2, <1>3, <1>7, <1>8
<1>10. walk' = Append(NextChild, [call |-> j, next |-> 1])
  BY <1>1 DEF SerializeCall
<1>11. /\ Len(walk') = depth + 1 /\ DOMAIN walk' = 1 .. (depth + 1)
       /\ \A k \in 1 .. depth : walk'[k] = NextChild[k]
       /\ walk'[depth + 1] = [call |-> j, next |-> 1]
  <2>1. PICK e : e = [call |-> j, next |-> 1]
    OBVIOUS
  <2>2. /\ Len(Append(NextChild, e)) = Len(NextChild) + 1
        /\ DOMAIN Append(NextChild, e) = 1 .. (Len(NextChild) + 1)
        /\ \A k \in 1 .. Len(NextChild) : Append(NextChild, e)[k] = NextChild[k]
        /\ Append(NextChild, e)[Len(NextChild) + 1] = e
    BY <1>9, PushFacts
  <2>3. walk' = Append(NextChild, e) /\ Len(NextChild) = depth
    BY <1>9, <1>10, <2>1
  <2>4. /\ Len(walk') = depth + 1 /\ DOMAIN walk' = 1 .. (depth + 1)
        /\ \A k \in 1 .. depth : walk'[k] = NextChild[k]
        /\ walk'[depth + 1] = e
    BY ZenonT(30), <2>2, <2>3
  <2> QED
    BY <2>1, <2>4
<1>12. \A k \in 1 .. depth : walk'[k].call = walk[k].call
  <2> TAKE k \in 1 .. depth
  <2>1. CASE k = depth
    <3>1. walk'[k] = [top EXCEPT !.next = @ + 1]
      BY <1>9, <1>11, <2>1
    <3> QED
      BY <1>0, <1>8, <2>1, <3>1
  <2>2. CASE k # depth
    BY <1>9, <1>11, <2>2
  <2> QED
    BY <2>1, <2>2
<1>13. walk'[depth].next = top.next + 1
  BY <1>3, <1>8, <1>9, <1>11
<1>14. \A k \in 1 .. depth : k # depth => walk'[k].next = walk[k].next
  BY <1>9, <1>11
<1>15. walk'[depth + 1].call = j /\ walk'[depth + 1].next = 1
  BY <1>11
<1>16. log' = Append(log, Line(j))
  BY <1>1 DEF SerializeCall
<1>17. Descends(depth, top, j)
  BY <1>0, <1>3, <1>4, <1>6, <1>11, <1>12, <1>13, <1>14, <1>15, <1>16 DEF Descends
<1> QED
  BY <1>17

\* The walk leaves the call on top.
LEMMA AscendFacts ==
  ASSUME TypeInv, SerializeReturn, NEW depth, depth = Len(walk)
  PROVE  /\ depth \in Nat \ {0} /\ DOMAIN walk = 1 .. depth
         /\ walk[depth].call \in Ids
         /\ Len(walk') = depth - 1 /\ DOMAIN walk' = 1 .. (depth - 1)
         /\ \A k \in 1 .. (depth - 1) : walk'[k] = walk[k]
         /\ depth = 1 => walk' = <<>>
<1>1. pc = "returning" /\ walk' = SubSeq(walk, 1, depth - 1)
  BY DEF SerializeReturn, At
<1>2. walk \in Seq(Activation) /\ walk # <<>>
  BY <1>1, WalkTypes DEF WalkOK, TypeInv, PhaseOK, Walking
<1>3. /\ depth \in Nat \ {0} /\ depth \in DOMAIN walk /\ DOMAIN walk = 1 .. depth
      /\ walk[depth] \in Activation
  BY <1>2, LastOf
<1>4. /\ Len(walk') = depth - 1 /\ DOMAIN walk' = 1 .. (depth - 1)
      /\ \A k \in 1 .. (depth - 1) : walk'[k] = walk[k]
  BY <1>1, <1>2, <1>3
<1>5. depth = 1 => walk' = <<>>
  <2>1. SubSeq(walk, 1, depth - 1) \in Seq(Activation)
    BY <1>2, PopSeqType
  <2> QED
    BY <1>1, <1>3, <1>4, <2>1, EmptySeq
<1> QED
  BY <1>1, <1>3, <1>4, <1>5 DEF Activation

-----------------------------------------------------------------------------
(* No pointer is bad.                                                      *)

\* Calls are deleted only by Shutdown, those below the root by the walk and
\* the root of a thread by the loop over the threads; and until Shutdown
\* every key of the map has an active call.
BeforeDelete == {"climb", "serialize", "walk", "clearing", "returning", "delete"}
FaultInv ==
  /\ fault = "none"
  /\ pc = "running" => freed = {} /\ info /\ \A t \in known : second[t] # Nil
  /\ \A i \in freed : IsRoot(i) =>
       calls[i].TID < cursor \/ (calls[i].TID = cursor /\ pc \notin BeforeDelete)
  /\ \A k \in DOMAIN walk : k # 1 => ~IsRoot(walk[k].call)

LEMMA CallbacksDoNotFault ==
  ASSUME Mode = 1, ~LateCallbacks, TypeInv, FaultInv, RuntimeStep
  PROVE  /\ pc = "running" /\ UNCHANGED <<shutdown, freed, info>> /\ fault' = "none"
         /\ \A t \in known' : second'[t] # Nil
<1>0. /\ second \in [Threads -> {Nil} \cup Ids] /\ known \subseteq Threads
      /\ \A i \in Ids : i # Nil
  BY CallFacts, TypeInvParts DEF TreeType
<1>1. RuntimeStep => CallbacksRun
  BY DEF RuntimeStep, Mapper, Call, Return, TailCall, LeaveFrame, ObjectAllocated,
     Throw, ExceptionUnwindFunctionEnter, ExceptionUnwindFunctionLeave, Catch, Tick,
     Executes
<1>2. /\ pc = "running" /\ freed = {} /\ info = TRUE /\ fault = "none"
      /\ \A t \in known : second[t] # Nil
  BY <1>1, CallbacksEnd DEF FaultInv, TypeInv, TypeOK, ProfilerTypeOK
<1>3. ~AllocEvents
  BY DEF AllocEvents
<1>4. ASSUME NEW t, NEW f, Enter(t, f)
      PROVE  fault' = "none"
  <2>1. Pointer(t) # "freed"
    BY <1>2 DEF Pointer
  <2> QED
    BY <1>2, <1>4, <2>1 DEF Enter, EnterTree
<1>5. ASSUME NEW t, Leave(t)
      PROVE  fault' = "none"
  <2>1. HasEntry(t) => Pointer(t) = "none"
    BY <1>2 DEF Pointer, HasEntry
  <2> QED
    BY <1>2, <1>5, <2>1 DEF Leave
<1>6. ASSUME NEW f \in Functions, Mapper(f)
      PROVE  fault' = "none" /\ UNCHANGED <<shutdown, info>>
  BY <1>2, <1>6 DEF Mapper
<1>7. ASSUME NEW t \in Threads, NEW f \in Functions, Call(t, f)
      PROVE  fault' = "none" /\ UNCHANGED <<shutdown, info>>
  BY <1>2, <1>4, <1>7 DEF Call
<1>8. ASSUME NEW t \in Threads, LeaveFrame(t)
      PROVE  fault' = "none" /\ UNCHANGED <<shutdown, info>>
  BY <1>2, <1>5, <1>8 DEF LeaveFrame
<1>9. ASSUME NEW t \in Threads, ObjectAllocated(t)
      PROVE  FALSE
  BY <1>3, <1>9 DEF ObjectAllocated
<1>10. ASSUME NEW t \in Threads, Throw(t) \/ Catch(t) \/ Tick
       PROVE  fault' = "none" /\ UNCHANGED <<shutdown, info>>
  BY <1>2, <1>10 DEF Throw, Catch, Tick, profiler
<1>11. ASSUME NEW t \in Threads, ExceptionUnwindFunctionEnter(t)
       PROVE  fault' = "none" /\ UNCHANGED <<shutdown, info>>
  BY <1>2, <1>4, <1>11 DEF ExceptionUnwindFunctionEnter
<1>12. ASSUME NEW t \in Threads, ExceptionUnwindFunctionLeave(t)
       PROVE  fault' = "none" /\ UNCHANGED <<shutdown, info>>
  BY <1>2, <1>5, <1>12 DEF ExceptionUnwindFunctionLeave
<1>13. CASE Tick
  BY <1>2, <1>13 DEF Tick, profiler
<1>14. fault' = "none" /\ UNCHANGED <<shutdown, info>>
  BY <1>6, <1>7, <1>8, <1>9, <1>10, <1>11, <1>12, <1>2 DEF RuntimeStep, Return, TailCall,
     Tick, profiler
<1>15. UNCHANGED freed
  BY <1>9, RuntimeCases DEF Idle, Grows, EnterTree, Stamps
<1>16. \A t \in known' : second'[t] # Nil
  <2>1. CASE Idle
    BY <1>2, <2>1 DEF Idle, tree
  <2>2. ASSUME NEW t \in Threads, NEW f \in Functions, Grows(t, f)
        PROVE  \A u \in known' : second'[u] # Nil
    BY <1>0, <1>2, <2>2, GrowthFacts DEF Grows, EnterTree, Nil
  <2>3. ASSUME NEW t \in Threads, Stamps(t)
        PROVE  \A u \in known' : second'[u] # Nil
    <3>1. known' = known /\ second' = [second EXCEPT ![t] = Upward(second[t])]
          /\ Upward(second[t]) \in Ids
      BY <2>3, UpwardIsAnId DEF Stamps, StampActive
    <3> QED
      BY <1>0, <1>2, <3>1
  <2> QED
    BY <1>9, <2>1, <2>2, <2>3, RuntimeCases
<1> QED
  BY <1>2, <1>14, <1>15, <1>16

LEMMA FaultInvNext ==
  ASSUME Mode = 1, ~LateCallbacks, TypeInv, ShapeInv, PassedInv, FaultInv, [Next]_vars
  PROVE  FaultInv'
<1>0. /\ second \in [Threads -> {Nil} \cup Ids] /\ freed \subseteq Ids /\ cursor \in Nat
      /\ \A i \in Ids : i # Nil /\ calls[i].TID \in Threads /\ calls[i].TID \in Nat
      /\ \A k \in DOMAIN walk : walk[k].call \in Ids
      /\ \A t \in known : t \in Nat
  <2>1. freed \subseteq Ids /\ cursor \in Threads \cup {0} /\ known \subseteq Threads
    BY DEF TypeInv, TypeOK, ProfilerTypeOK, ShutdownTypeOK
  <2>2. \A t \in Threads \cup {0} : t \in Nat
    BY ThreadsAssumption
  <2>3. /\ second \in [Threads -> {Nil} \cup Ids]
        /\ \A i \in Ids : i # Nil /\ calls[i].TID \in Threads
    BY CallFacts
  <2>4. \A k \in DOMAIN walk : walk[k].call \in Ids
    BY WalkTypes
  <2> QED
    BY <2>1, <2>2, <2>3, <2>4
\* No step changes the parent or the thread of a call.
<1>1. \A i \in Ids : /\ IsRoot(i)' <=> IsRoot(i)
                     /\ calls'[i].TID = calls[i].TID
  <2>1. ASSUME NEW t \in Threads, NEW f \in Functions, Grows(t, f)
        PROVE  \A i \in Ids : Same(i)
    BY <2>1, GrowthFacts DEF Grows, Untouched
  <2>2. ASSUME NEW t \in Threads, NEW time \in Nat \ {0}, Stamped(t, time)
        PROVE  \A i \in Ids : Same(i)
    BY <2>2, StampFacts, TypeInvParts DEF Stamped
  <2> QED
    BY <2>1, <2>2, TreeCases, ClearedIsUntouched DEF Lifted, LetsGo, Untouched, Same, IsRoot
<1>2. CASE RuntimeStep
  BY <1>0, <1>1, <1>2, CallbacksDoNotFault DEF FaultInv, shutdown
<1>3. CASE UNCHANGED vars
  BY <1>3 DEF FaultInv, IsRoot, vars, profiler, shutdown
<1>4. CASE ShutdownBegin \/ Climb \/ LoopEnds \/ ClearCalled
  <2>1. UNCHANGED <<freed, cursor, walk, fault>> /\ pc' # "running"
        /\ (pc' \in BeforeDelete => pc \in BeforeDelete)
    BY <1>4 DEF ShutdownBegin, Climb, LoopEnds, ClearCalled, At, profiler, BeforeDelete
  <2> QED
    BY <1>0, <1>1, <2>1 DEF FaultInv
<1>5. CASE NextThread
  <2>1. UNCHANGED <<freed, walk, fault>> /\ pc' # "running" /\ cursor < cursor' /\ cursor' \in Nat
    BY <1>0, <1>5 DEF NextThread, profiler
  <2> QED
    BY <1>0, <1>1, <2>1 DEF FaultInv
<1>6. CASE SerializeRoot
  <2>1. /\ UNCHANGED <<freed, cursor, fault>> /\ pc = "serialize" /\ pc' = "walk"
        /\ walk' = Append(<<>>, [call |-> second[cursor], next |-> 1])
    BY <1>6 DEF SerializeRoot, SerializeCall, At, profiler
  <2>2. DOMAIN walk' = 1 .. 1
    BY <2>1
  <2> QED
    BY <1>0, <1>1, <2>1, <2>2 DEF FaultInv, BeforeDelete
<1>7. CASE SerializeChild
  <2>0. PICK depth, top, j : Descends(depth, top, j)
    BY <1>7, DescendFacts
  <2>1. UNCHANGED <<freed, cursor, fault, calls, pc>> /\ pc # "running"
    BY <1>7 DEF SerializeChild, At, profiler
  <2>2. /\ DOMAIN walk = 1 .. depth /\ DOMAIN walk' = 1 .. (depth + 1) /\ depth \in Nat \ {0}
        /\ \A k \in 1 .. depth : walk'[k].call = walk[k].call
        /\ walk'[depth + 1].call = j /\ j \in Ids
        /\ calls[j].prevFunction = top.call /\ top.call \in Ids
    BY <2>0 DEF Descends
  <2>3. ~IsRoot(j)
    BY <1>0, <2>2 DEF IsRoot
  <2>4. \A k \in DOMAIN walk' : k # 1 => ~IsRoot(walk'[k].call)
    <3> TAKE k \in DOMAIN walk'
    <3> HAVE k # 1
    <3>1. CASE k = depth + 1
      BY <2>2, <2>3, <3>1
    <3>2. CASE k \in 1 .. depth
      BY <2>2, <3>2 DEF FaultInv
    <3> QED
      BY <2>2, <3>1, <3>2
  <2> QED
    BY <1>0, <1>1, <2>1, <2>4 DEF FaultInv, IsRoot
<1>8. CASE SerializeReturn
  <2> DEFINE depth == Len(walk)
  <2>1. /\ UNCHANGED <<cursor, fault, calls>> /\ pc = "returning"
        /\ freed' = IF depth = 1 THEN freed ELSE freed \cup {walk[depth].call}
        /\ pc' = IF depth = 1 THEN "delete" ELSE "walk"
    BY <1>8 DEF SerializeReturn, At, Delete, tree
  <2>2. /\ depth \in Nat \ {0} /\ DOMAIN walk = 1 .. depth
        /\ DOMAIN walk' = 1 .. (depth - 1)
        /\ \A k \in 1 .. (depth - 1) : walk'[k] = walk[k]
    BY <1>8, AscendFacts
  <2>3. depth # 1 => ~IsRoot(walk[depth].call)
    BY <2>2 DEF FaultInv
  <2>4. \A k \in DOMAIN walk' : k # 1 => ~IsRoot(walk'[k].call)
    BY <2>2 DEF FaultInv
  <2> QED
    BY <1>0, <1>1, <2>1, <2>3, <2>4 DEF FaultInv, IsRoot, BeforeDelete
\* The root that DeleteRoot reads was not deleted: those that were belong to
\* threads the loop has passed.
<1>9. CASE DeleteRoot
  <2>1. pc = "delete" /\ cursor \in Threads /\ second[cursor] \in Ids
    BY <1>9 DEF DeleteRoot, At, TypeInv, PhaseOK, Phases
  <2>2. IsRoot(second[cursor]) /\ calls[second[cursor]].TID = cursor
    BY <1>0, <2>1 DEF PassedInv, AtRoot, ShapeInv, OwnCalls
  <2>3. second[cursor] \notin freed
    BY <1>0, <2>1, <2>2 DEF FaultInv, BeforeDelete
  <2>4. /\ freed' = freed \cup {second[cursor]} /\ pc' = "detach"
        /\ UNCHANGED <<cursor, walk, fault, calls>>
    BY <1>9, <2>3 DEF DeleteRoot, Delete, tree
  <2> QED
    BY <1>0, <1>1, <2>1, <2>2, <2>4 DEF FaultInv, BeforeDelete, IsRoot
<1>10. CASE DetachRoot \/ ClearMaps \/ ReleaseInfo \/ ClearGlobal
  <2>1. UNCHANGED <<freed, cursor, walk, fault>> /\ pc' # "running"
        /\ pc' \notin BeforeDelete /\ pc \notin BeforeDelete
    BY <1>10 DEF DetachRoot, ClearMaps, ReleaseInfo, ClearGlobal, At, BeforeDelete
  <2> QED
    BY <1>0, <1>1, <2>1 DEF FaultInv
<1> QED
  BY <1>2, <1>3, <1>4, <1>5, <1>6, <1>7, <1>8, <1>9, <1>10 DEF Next, ShutdownStep

\* In the mode that follows calls only, no callback and no step of Shutdown
\* uses a null, deleted or released pointer, however calls, exceptions and
\* the threads interleave, as long as the callbacks end before Shutdown
\* begins (CallTree!NoFault).
THEOREM CallsNeverFault == Mode = 1 /\ ~LateCallbacks => (Spec => []NoFault)
<1> SUFFICES ASSUME Mode = 1, ~LateCallbacks PROVE Spec => []NoFault
  OBVIOUS
<1>1. Init => FaultInv
  BY DEF Init, FaultInv
<1>2. TypeInv /\ ShapeInv /\ PassedInv /\ FaultInv /\ [Next]_vars => FaultInv'
  BY FaultInvNext
<1>3. FaultInv => NoFault
  BY DEF FaultInv, NoFault
<1> QED
  BY <1>1, <1>2, <1>3, TypeInvariant, ShapeInvariant, PassedInvariant, PTL DEF Spec

-----------------------------------------------------------------------------
(* No call is written twice, also when callbacks overtake Shutdown.        *)

\* Where the walk stands: it goes down a path, has written what is on the
\* path, and of the children of a call on the path no more than those it has
\* gone past; and all it has written of this thread hangs on its first call.
Unwritten == {"running", "climb", "serialize"}
PathInv ==
  /\ pc \notin Walking => walk = <<>>
  /\ \A k \in DOMAIN walk : /\ walk[k].call \in Written
                            /\ calls[walk[k].call].TID = cursor
  /\ \A k, m \in DOMAIN walk : k < m => walk[k].call < walk[m].call
ThreadsInv ==
  \A i \in Written : \/ calls[i].TID < cursor
                     \/ calls[i].TID = cursor /\ pc \notin Unwritten
BelowInv ==
  pc \in Walking =>
    /\ \A d \in Written : calls[d].TID = cursor /\ d # walk[1].call =>
         calls[d].prevFunction \in Written
    /\ \A k \in DOMAIN walk : \A m \in DOMAIN calls[walk[k].call].calledFunctions :
         calls[walk[k].call].calledFunctions[m] \in Written => m < walk[k].next
WrittenInv == WrittenOnce /\ PathInv /\ ThreadsInv /\ BelowInv

LEMMA WrittenFacts ==
  ASSUME TypeInv
  PROVE  Written \subseteq Ids /\ cursor \in Nat /\ \A i \in Ids : calls[i].TID \in Nat
<1>1. cursor \in Threads \cup {0}
  BY DEF TypeInv, TypeOK, ShutdownTypeOK
<1>2. \A t \in Threads \cup {0} : t \in Nat
  BY ThreadsAssumption
<1>3. \A i \in Ids : calls[i].TID \in Threads
  BY CallFacts
<1>4. Written \subseteq Ids
  BY WalkTypes DEF Written
<1> QED
  BY <1>1, <1>2, <1>3, <1>4

\* Writing one more call.
LEMMA WriteFacts ==
  ASSUME TypeInv, NEW i, log' = Append(log, Line(i))
  PROVE  /\ Written' = Written \cup {i}
         /\ Len(log') = Len(log) + 1 /\ DOMAIN log' = 1 .. (Len(log) + 1)
         /\ \A k \in DOMAIN log : log'[k] = log[k]
         /\ log'[Len(log) + 1] = Line(i)
         /\ WrittenOnce /\ i \notin Written => WrittenOnce'
<1>1. log \in Seq(LogLine) /\ Len(log) \in Nat /\ DOMAIN log = 1 .. Len(log)
  BY WalkTypes DEF WalkOK
<1>2. /\ Len(log') = Len(log) + 1 /\ DOMAIN log' = 1 .. (Len(log) + 1)
      /\ \A k \in DOMAIN log : log'[k] = log[k]
      /\ log'[Len(log) + 1] = Line(i)
  BY <1>1, PushFacts
<1>3. log'[Len(log) + 1].call = i
  BY <1>2 DEF Line
<1>4. DOMAIN log' = DOMAIN log \cup {Len(log) + 1}
  BY <1>1, <1>2
<1>5. Written' = Written \cup {i}
  BY <1>2, <1>3, <1>4 DEF Written
<1>6. WrittenOnce /\ i \notin Written => WrittenOnce'
  BY <1>2, <1>3, <1>4 DEF WrittenOnce, Written
<1> QED
  BY <1>2, <1>5, <1>6

\* What writes nothing and does not move the walk.
LEMMA WrittenKept ==
  ASSUME TypeInv, WrittenInv, UNCHANGED <<log, walk>>,
         \A i \in Ids : /\ Same(i)
                        /\ \A m \in DOMAIN calls'[i].calledFunctions :
                             calls'[i].calledFunctions[m] \in Ids =>
                               /\ m \in DOMAIN calls[i].calledFunctions
                               /\ calls[i].calledFunctions[m] = calls'[i].calledFunctions[m],
         pc' \in Walking <=> pc \in Walking,
         cursor' \in Nat,
         \/ cursor' = cursor /\ (pc' \in Unwritten => pc \in Unwritten)
         \/ cursor < cursor' /\ pc \notin Walking
  PROVE  WrittenInv'
<1>1. /\ Written \subseteq Ids /\ Written' = Written /\ cursor \in Nat
      /\ \A i \in Ids : calls[i].TID \in Nat
      /\ \A k \in DOMAIN walk : walk[k].call \in Ids
  BY WrittenFacts, WalkTypes DEF Written
<1>2. WrittenOnce'
  BY DEF WrittenInv, WrittenOnce
<1>3. PathInv'
  BY <1>1 DEF WrittenInv, PathInv, Same
<1>4. ThreadsInv'
  BY <1>1 DEF WrittenInv, ThreadsInv, Same
<1>5. BelowInv'
  BY <1>1 DEF WrittenInv, BelowInv, Same
<1> QED
  BY <1>2, <1>3, <1>4, <1>5 DEF WrittenInv

LEMMA WrittenRoot ==
  ASSUME TypeInv, ShapeInv, WrittenInv, SerializeRoot
  PROVE  WrittenInv'
<1>0. PICK s : s = second[cursor]
  OBVIOUS
<1>1. /\ UNCHANGED <<calls, cursor>> /\ pc = "serialize" /\ pc' = "walk"
      /\ log' = Append(log, Line(s))
      /\ walk' = Append(<<>>, [call |-> s, next |-> 1])
  BY <1>0 DEF SerializeRoot, SerializeCall, At, profiler
<1>2. DOMAIN walk' = {1} /\ walk'[1].call = s
  BY <1>1
<1>3. s \in Ids /\ s # Nil /\ calls[s].TID = cursor
  <2>1. s \in Ids /\ s # Nil /\ cursor \in Threads
    BY <1>0, <1>1, CallFacts DEF TypeInv, PhaseOK, Phases, Walking
  <2> QED
    BY <1>0, <2>1 DEF ShapeInv, OwnCalls
<1>4. /\ Written' = Written \cup {s} /\ Written \subseteq Ids /\ cursor \in Nat
      /\ \A i \in Ids : calls[i].TID \in Nat
  BY <1>1, WrittenFacts, WriteFacts
<1>5. \A i \in Written : calls[i].TID < cursor
  BY <1>1 DEF WrittenInv, ThreadsInv, Unwritten
<1>6. s \notin Written
  BY <1>3, <1>4, <1>5
<1>7. WrittenOnce'
  BY <1>1, <1>6, WriteFacts DEF WrittenInv
<1>8. PathInv'
  BY <1>1, <1>2, <1>3, <1>4 DEF PathInv, Walking
<1>9. ThreadsInv'
  BY <1>1, <1>3, <1>4, <1>5 DEF ThreadsInv, Unwritten
<1>10. BelowInv'
  <2>1. \A d \in Written' : calls'[d].TID = cursor' => d = s
    BY <1>1, <1>4, <1>5
  <2>2. \A m \in DOMAIN calls[s].calledFunctions :
          calls[s].calledFunctions[m] \notin Written'
    <3> TAKE m \in DOMAIN calls[s].calledFunctions
    <3> DEFINE d == calls[s].calledFunctions[m]
    <3>1. d \in Ids /\ calls[d].prevFunction = s
      BY <1>3 DEF ShapeInv, TreeWellFormed, Children
    <3>2. calls[d].TID = cursor /\ s < d
      BY <1>3, <3>1 DEF ShapeInv, TreeWellFormed, IsRoot
    <3>3. d # s
      BY <1>3, <3>1, <3>2, CallFacts
    <3> QED
      BY <1>4, <1>5, <3>1, <3>2, <3>3
  <2> QED
    BY <1>1, <1>2, <2>1, <2>2 DEF BelowInv
<1> QED
  BY <1>7, <1>8, <1>9, <1>10 DEF WrittenInv

LEMMA WrittenChild ==
  ASSUME TypeInv, ShapeInv, WrittenInv, SerializeChild
  PROVE  WrittenInv'
<1>0. PICK depth, top, j : Descends(depth, top, j)
  BY DescendFacts
<1>1. UNCHANGED <<calls, cursor, pc>> /\ pc = "walk" /\ pc \in Walking
  BY DEF SerializeChild, At, profiler, Walking
<1>2. /\ top = walk[depth] /\ j = calls[top.call].calledFunctions[top.next]
      /\ top.next \in Nat /\ depth \in Nat \ {0} /\ DOMAIN walk = 1 .. depth
      /\ top.call \in Ids /\ top.next \in DOMAIN calls[top.call].calledFunctions
      /\ j \in Ids /\ calls[j].prevFunction = top.call /\ top.call < j
      /\ calls[j].TID = calls[top.call].TID
  BY <1>0 DEF Descends
<1>10. /\ DOMAIN walk' = 1 .. (depth + 1)
       /\ \A k \in 1 .. depth : walk'[k].call = walk[k].call
       /\ \A k \in 1 .. depth : k # depth => walk'[k].next = walk[k].next
       /\ walk'[depth].next = top.next + 1
       /\ walk'[depth + 1].call = j /\ walk'[depth + 1].next = 1
       /\ log' = Append(log, Line(j))
  BY <1>0 DEF Descends
<1>11. /\ depth \in Nat \ {0} /\ DOMAIN walk = 1 .. depth
       /\ depth \in 1 .. depth /\ 1 \in 1 .. depth
  <2>1. depth \in Nat \ {0} /\ DOMAIN walk = 1 .. depth
    BY ZenonT(30), <1>0 DEF Descends
  <2> QED
    BY <2>1
<1>13. top = walk[depth] /\ top.next \in Nat
  BY ZenonT(30), <1>0 DEF Descends
<1>12. \A k \in 1 .. depth : walk'[k].call = walk[k].call
  BY <1>10
<1>3. /\ Written' = Written \cup {j} /\ Written \subseteq Ids /\ cursor \in Nat
      /\ \A i \in Ids : calls[i].TID \in Nat /\ i \in Nat
  <2>1. /\ Written \subseteq Ids /\ cursor \in Nat
        /\ \A i \in Ids : calls[i].TID \in Nat /\ i \in Nat
    BY WrittenFacts, CallFacts
  <2>2. Written' = Written \cup {j}
    BY <1>10, WriteFacts
  <2> QED
    BY <2>1, <2>2
<1>4. /\ \A k \in 1 .. depth : walk[k].call \in Ids /\ walk[k].next \in Nat
      /\ \A k \in 1 .. depth : walk[k].call <= top.call
      /\ \A k \in 1 .. depth : k # depth => walk[k].call # top.call
      /\ \A k \in 1 .. depth : calls[walk[k].call].TID = cursor
      /\ calls[j].TID = cursor /\ top.call \in Written
  <2>1. \A k \in 1 .. depth : /\ walk[k].call \in Ids /\ walk[k].next \in Nat
                              /\ walk[k].call \in Written
                              /\ calls[walk[k].call].TID = cursor
    BY <1>2, WalkTypes DEF WrittenInv, PathInv
  <2>2. \A k \in 1 .. depth : k # depth => walk[k].call < walk[depth].call
    BY <1>11 DEF WrittenInv, PathInv
  <2>3. depth \in 1 .. depth
    BY <1>11
  <2>4. \A k \in 1 .. depth : k # depth => walk[k].call < top.call
    BY <1>13, <2>2
  <2>5. \A k \in 1 .. depth : walk[k].call \in Nat /\ top.call \in Nat
    BY <1>2, <1>3, <2>1
  <2>6. \A k \in 1 .. depth : walk[k].call <= top.call
    <3> TAKE k \in 1 .. depth
    <3>1. CASE k = depth
      BY <1>13, <2>5, <3>1
    <3>2. CASE k # depth
      BY <2>4, <2>5, <3>2
    <3> QED
      BY <3>1, <3>2
  <2>7. calls[j].TID = cursor /\ top.call \in Written
    BY <1>2, <2>1, <2>3
  <2> QED
    BY <2>1, <2>4, <2>5, <2>6, <2>7
\* The walk has not gone past the child it comes to.
<1>5. j \notin Written
  <2>1. depth \in DOMAIN walk
    BY <1>11
  <2>2. ~(top.next < walk[depth].next)
    BY <1>13
  <2> QED
    BY <1>1, <1>2, <2>1, <2>2 DEF WrittenInv, BelowInv
<1>6. WrittenOnce'
  BY <1>5, <1>10, WriteFacts DEF WrittenInv
<1>7. PathInv'
  <2>1. ASSUME NEW k \in 1 .. (depth + 1)
        PROVE  walk'[k].call \in Written' /\ calls'[walk'[k].call].TID = cursor'
    <3>1. k = depth + 1 \/ k \in 1 .. depth
      BY <1>11
    <3> QED
      BY <1>1, <1>3, <1>4, <1>10, <1>11, <3>1 DEF WrittenInv, PathInv
  <2>2. ASSUME NEW k \in 1 .. (depth + 1), NEW m \in 1 .. (depth + 1), k < m
        PROVE  walk'[k].call < walk'[m].call
    <3>1. k \in 1 .. depth
      BY <1>11, <2>2
    <3>2. CASE m = depth + 1
      <4>1. walk[k].call <= top.call /\ walk[k].call \in Nat
        BY <1>3, <1>4, <3>1
      <4>2. top.call < j /\ top.call \in Nat /\ j \in Nat
        BY <1>2, <1>3
      <4>3. walk'[k].call = walk[k].call /\ walk'[m].call = j
        BY <1>10, <3>1, <3>2
      <4> QED
        BY <4>1, <4>2, <4>3
    <3>3. CASE m \in 1 .. depth
      <4>1. walk[k].call < walk[m].call
        BY <1>11, <2>2, <3>1, <3>3 DEF WrittenInv, PathInv
      <4> QED
        BY <1>12, <3>1, <3>3, <4>1
    <3> QED
      BY <1>11, <2>2, <3>2, <3>3
  <2> QED
    BY <1>1, <1>10, <2>1, <2>2 DEF PathInv
<1>8. ThreadsInv'
  BY <1>1, <1>3, <1>4 DEF WrittenInv, ThreadsInv, Unwritten
<1>9. BelowInv'
  <2>1. ASSUME NEW d \in Written', calls[d].TID = cursor, d # walk'[1].call
        PROVE  calls[d].prevFunction \in Written'
    <3>1. walk'[1].call = walk[1].call
      BY <1>11, <1>12
    <3>2. CASE d = j
      BY <1>2, <1>3, <1>4, <3>2
    <3>3. CASE d \in Written
      BY <1>1, <1>3, <2>1, <3>1, <3>3 DEF WrittenInv, BelowInv
    <3> QED
      BY <1>3, <3>2, <3>3
  <2>2. ASSUME NEW k \in 1 .. depth,
               NEW m \in DOMAIN calls[walk[k].call].calledFunctions,
               calls[walk[k].call].calledFunctions[m] \in Written'
        PROVE  m < walk'[k].next
    <3> DEFINE l == calls[walk[k].call].calledFunctions
    <3>1. m \in Nat /\ walk[k].next \in Nat /\ top.next \in Nat
      <4>1. walk[k].call \in Ids /\ walk[k].next \in Nat
        BY <1>4
      <4>2. l \in Seq(Nat)
        BY <4>1, CallFacts
      <4> QED
        BY <1>13, <4>1, <4>2
    <3>2. CASE l[m] \in Written
      <4>1. m < walk[k].next
        BY <1>1, <1>2, <3>2 DEF WrittenInv, BelowInv
      <4>2. walk'[k].next = walk[k].next \/ walk'[k].next = walk[k].next + 1
        <5>1. CASE k = depth
          BY <1>2, <1>10, <5>1
        <5>2. CASE k # depth
          BY <1>10, <5>2
        <5> QED
          BY <5>1, <5>2
      <4> QED
        BY <3>1, <4>1, <4>2
    <3>3. CASE l[m] = j
      <4>1. calls[j].prevFunction = walk[k].call
        BY <1>4, <3>3 DEF ShapeInv, TreeWellFormed, Children
      <4>2. k = depth
        BY <1>2, <1>4, <4>1
      <4>3. m = top.next
        <5>1. m \in DOMAIN calls[top.call].calledFunctions
              /\ calls[top.call].calledFunctions[m] = calls[top.call].calledFunctions[top.next]
          BY <1>2, <3>3, <4>2
        <5> QED
          BY ZenonT(60), <1>2, <5>1, ListFacts
      <4>4. walk'[k].next = m + 1
        BY <1>10, <4>2, <4>3
      <4> QED
        BY <3>1, <4>4
    <3> QED
      BY <1>3, <2>2, <3>2, <3>3
  \* Nothing below the new call is written.
  <2>3. \A m \in DOMAIN calls[j].calledFunctions :
          calls[j].calledFunctions[m] \notin Written'
    <3> TAKE m \in DOMAIN calls[j].calledFunctions
    <3>0. PICK d : d = calls[j].calledFunctions[m]
      OBVIOUS
    <3>1. d \in Ids /\ calls[d].prevFunction = j
      BY <1>2, <3>0 DEF ShapeInv, TreeWellFormed, Children
    <3>2. calls[d].TID = cursor /\ j < d
      <4>1. ~IsRoot(d)
        BY <1>2, <3>1, CallFacts DEF IsRoot
      <4> QED
        BY <1>4, <3>1, <4>1 DEF ShapeInv, TreeWellFormed
    <3>3. d # j /\ d # walk[1].call
      <4>1. 1 \in 1 .. depth
        BY <1>11
      <4>2. walk[1].call <= top.call /\ walk[1].call \in Nat
        BY <1>3, <1>4, <4>1
      <4>3. top.call < j /\ top.call \in Nat /\ j \in Nat /\ d \in Nat
        BY <1>2, <1>3, <3>1
      <4> QED
        BY <3>2, <4>2, <4>3
    <3>4. d \notin Written
      BY <1>1, <1>5, <3>1, <3>2, <3>3 DEF WrittenInv, BelowInv
    <3> QED
      BY <1>3, <3>0, <3>3, <3>4
  <2>4. \A k \in DOMAIN walk' : \A m \in DOMAIN calls[walk'[k].call].calledFunctions :
          calls[walk'[k].call].calledFunctions[m] \in Written' => m < walk'[k].next
    <3> TAKE k \in DOMAIN walk'
    <3>1. k = depth + 1 \/ k \in 1 .. depth
      BY <1>10, <1>11
    <3> QED
      BY <1>10, <2>2, <2>3, <3>1
  <2> QED
    BY <1>1, <2>1, <2>4 DEF BelowInv
<1> QED
  BY <1>6, <1>7, <1>8, <1>9 DEF WrittenInv

LEMMA WrittenReturn ==
  ASSUME TypeInv, WrittenInv, SerializeReturn
  PROVE  WrittenInv'
<1>0. PICK depth : depth = Len(walk)
  OBVIOUS
<1>1. /\ UNCHANGED <<calls, cursor, log>> /\ pc = "returning"
      /\ pc' = IF depth = 1 THEN "delete" ELSE "walk"
  BY <1>0 DEF SerializeReturn, At, tree
<1>2. /\ depth \in Nat \ {0} /\ DOMAIN walk = 1 .. depth /\ DOMAIN walk' = 1 .. (depth - 1)
      /\ \A k \in 1 .. (depth - 1) : walk'[k] = walk[k]
      /\ depth = 1 => walk' = <<>>
  BY <1>0, AscendFacts
<1>3. Written' = Written /\ \A k \in DOMAIN walk' : k \in DOMAIN walk /\ walk'[k] = walk[k]
  BY <1>1, <1>2 DEF Written
<1>4. WrittenOnce'
  BY <1>1 DEF WrittenInv, WrittenOnce
<1>5. PathInv'
  BY <1>1, <1>2, <1>3 DEF WrittenInv, PathInv, Walking
<1>6. ThreadsInv'
  BY <1>1, <1>3 DEF WrittenInv, ThreadsInv, Unwritten, Walking
<1>7. BelowInv'
  <2>1. pc' \in Walking => walk'[1] = walk[1]
    BY <1>1, <1>2 DEF Walking
  <2> QED
    BY <1>1, <1>3, <2>1 DEF WrittenInv, BelowInv, Walking
<1> QED
  BY <1>4, <1>5, <1>6, <1>7 DEF WrittenInv

LEMMA WrittenInvNext == TypeInv /\ ShapeInv /\ WrittenInv /\ [Next]_vars => WrittenInv'
<1> SUFFICES ASSUME TypeInv, ShapeInv, WrittenInv, [Next]_vars
             PROVE  WrittenInv'
  OBVIOUS
<1>0. cursor \in Nat /\ \A t \in Threads : t \in Nat
  BY WrittenFacts, ThreadsAssumption
<1>1. ASSUME UNCHANGED <<log, walk>>, UNCHANGED calls,
             pc' \in Walking <=> pc \in Walking, cursor' \in Nat,
             \/ cursor' = cursor /\ (pc' \in Unwritten => pc \in Unwritten)
             \/ cursor < cursor' /\ pc \notin Walking
      PROVE  WrittenInv'
  BY <1>1, WrittenKept DEF Same
<1>2. ASSUME NEW t \in Threads, NEW f \in Functions, Grows(t, f)
      PROVE  WrittenInv'
  <2>0. PICK p, n : p = second[t] /\ n = Len(calls) + 1
    OBVIOUS
  <2>1. /\ p \in {Nil} \cup Ids /\ n \in Nat /\ n \notin Ids
        /\ \A i \in Ids : Untouched(i) /\ calls[i].calledFunctions \in Seq(Nat) /\ i # Nil
        /\ \A i \in Ids : i # p => calls'[i].calledFunctions = calls[i].calledFunctions
        /\ p \in Ids => calls'[p].calledFunctions = Append(calls[p].calledFunctions, n)
    BY <1>2, <2>0, GrowthFacts, CallFacts DEF Grows
  <2>2. ASSUME NEW i \in Ids, NEW m \in DOMAIN calls'[i].calledFunctions,
               calls'[i].calledFunctions[m] \in Ids
        PROVE  /\ m \in DOMAIN calls[i].calledFunctions
               /\ calls[i].calledFunctions[m] = calls'[i].calledFunctions[m]
    <3>1. CASE i = p
      <4>1. PICK l : l = calls[p].calledFunctions
        OBVIOUS
      <4>2. l \in Seq(Nat) /\ calls'[i].calledFunctions = Append(l, n)
        BY <2>1, <3>1, <4>1
      <4>3. /\ \A k \in DOMAIN l : k \in DOMAIN Append(l, n) /\ Append(l, n)[k] = l[k]
            /\ \A k \in DOMAIN Append(l, n) :
                 k \in DOMAIN l \/ (k = Len(l) + 1 /\ Append(l, n)[k] = n)
        BY <2>1, <4>2, AppendFacts
      <4> QED
        BY <2>1, <2>2, <3>1, <4>1, <4>2, <4>3
    <3>2. CASE i # p
      BY <2>1, <3>2
    <3> QED
      BY <3>1, <3>2
  <2>3. UNCHANGED <<pc, cursor, walk, log>>
    BY <1>2 DEF Grows, shutdown
  <2> QED
    BY <1>0, <2>1, <2>2, <2>3, WrittenKept DEF Untouched
<1>3. ASSUME NEW t \in Threads, NEW time \in Nat \ {0}, Stamped(t, time),
             UNCHANGED <<log, walk, cursor>>, pc' \in Walking <=> pc \in Walking,
             pc' \in Unwritten => pc \in Unwritten
      PROVE  WrittenInv'
  <2>1. \A i \in Ids : Same(i) /\ calls'[i].calledFunctions = calls[i].calledFunctions
    BY <1>3, StampFacts, TypeInvParts DEF Stamped
  <2> QED
    BY <1>0, <1>3, <2>1, WrittenKept
<1>4. CASE Idle \/ \E t \in Threads : ObjectAllocated(t)
  BY <1>0, <1>1, <1>4 DEF Idle, ObjectAllocated, tree, shutdown
<1>5. ASSUME NEW t \in Threads, Stamps(t)
      PROVE  WrittenInv'
  <2>1. Stamped(t, now) /\ now \in Nat \ {0} /\ UNCHANGED <<log, walk, cursor, pc>>
    BY <1>5, TypeInvParts DEF Stamps, Stamped, shutdown
  <2> QED
    BY <1>3, <2>1
<1>6. CASE UNCHANGED vars
  BY <1>0, <1>1, <1>6 DEF vars, profiler, shutdown
<1>7. CASE Climb
  <2>1. /\ pc = "climb" /\ pc \notin Walking /\ pc' \in Unwritten /\ pc' \notin Walking
        /\ UNCHANGED <<log, walk, cursor>>
    BY <1>7 DEF Climb, At, Unwritten, Walking
  <2>2. /\ cursor \in Threads /\ endTime \in Nat \ {0}
        /\ IF LeaveTimeMissing(second[cursor]) THEN Stamped(cursor, endTime)
           ELSE Lifted(cursor)
    BY <1>7, ClimbCases
  <2> QED
    BY <1>0, <1>1, <1>3, <2>1, <2>2 DEF Lifted, Unwritten
<1>8. CASE NextThread
  <2>1. /\ cursor < cursor' /\ cursor' \in Threads /\ pc = "threads"
        /\ UNCHANGED <<log, walk, calls>> /\ pc' \in {"threads", "climb"}
    <3>1. known \subseteq Threads
      BY TypeInvParts DEF TreeType
    <3> QED
      BY <1>0, <1>8, <3>1 DEF NextThread, At, profiler
  <2>2. pc \notin Walking /\ pc' \notin Walking /\ cursor' \in Nat
    BY <1>0, <2>1 DEF Walking
  <2> QED
    BY <1>1, <2>1, <2>2
<1>9. CASE ShutdownBegin \/ DeleteRoot \/ DetachRoot \/ ClearMaps \/ ReleaseInfo \/ ClearGlobal
  <2>1. /\ UNCHANGED <<log, walk, calls, cursor>> /\ pc \notin Walking
        /\ pc' \in {"threads", "delete", "detach", "release", "clear", "done"}
    BY <1>9 DEF ShutdownBegin, DeleteRoot, DetachRoot, ClearMaps, ReleaseInfo, ClearGlobal,
       Crash, At, profiler, tree, Walking
  <2>2. pc' \notin Walking /\ pc' \notin Unwritten
    BY <2>1 DEF Unwritten, Walking
  <2> QED
    BY <1>0, <1>1, <2>1, <2>2
<1>10. CASE LoopEnds
  <2>1. UNCHANGED <<log, walk, calls, cursor>> /\ pc = "walk"
        /\ pc' \in {"clearing", "returning"}
    BY <1>10 DEF LoopEnds, At, profiler
  <2>2. pc \in Walking /\ pc' \in Walking /\ pc' \notin Unwritten
    BY <2>1 DEF Walking, Unwritten
  <2> QED
    BY <1>0, <1>1, <2>1, <2>2
<1>11. CASE ClearCalled
  <2>1. PICK top \in Ids :
          /\ Ids' = Ids /\ \A i \in Ids : Untouched(i)
          /\ \A i \in Ids : i # top => calls'[i].calledFunctions = calls[i].calledFunctions
          /\ calls'[top].calledFunctions = <<>>
    BY <1>11, ClearFacts
  <2>2. UNCHANGED <<log, walk, cursor>> /\ pc = "clearing" /\ pc' = "returning"
    BY <1>11 DEF ClearCalled, At
  <2>3. pc \in Walking /\ pc' \in Walking /\ pc' \notin Unwritten
    BY <2>2 DEF Walking, Unwritten
  <2>4. DOMAIN calls'[top].calledFunctions = {}
    BY <2>1
  <2> QED
    BY <1>0, <2>1, <2>2, <2>3, <2>4, WrittenKept DEF Untouched
<1> QED
  BY <1>2, <1>4, <1>5, <1>6, <1>7, <1>8, <1>9, <1>10, <1>11, RuntimeCases,
     WrittenRoot, WrittenChild, WrittenReturn DEF Next, ShutdownStep

LEMMA WrittenInvariant == Spec => []WrittenInv
<1>1. Init => WrittenInv
  BY DEF Init, WrittenInv, WrittenOnce, PathInv, ThreadsInv, BelowInv, Written
<1> QED
  BY <1>1, TypeInvariant, ShapeInvariant, WrittenInvNext, PTL DEF Spec

\* Shutdown writes no call twice, although callbacks may add to the lists of
\* children it walks and move the entries it reads (CallTree!WrittenOnce).
THEOREM NoCallIsWrittenTwice == Spec => []WrittenOnce
<1>1. WrittenInv => WrittenOnce
  BY DEF WrittenInv
<1> QED
  BY <1>1, WrittenInvariant, PTL
=============================================================================
