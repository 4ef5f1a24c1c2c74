------------------------ MODULE CallTreeShapeProofs ------------------------
(***************************************************************************)
(* The forest that the callbacks of CoreProfiler build: proofs of its      *)
(* shape, of its order numbers, of its open calls and of its times.        *)
(***************************************************************************)
EXTENDS CallTreeProofs

-----------------------------------------------------------------------------
(* The steps, as far as the tree is concerned.                             *)

\* A callback that leaves the tree alone, or a step that raises none.
Idle == UNCHANGED <<tree, freed, allocs, shutdown>> /\ now' \in Nat /\ now <= now'

Grows(t, f) ==
  /\ CallbacksRun /\ EnterTree(t, f)
  /\ UNCHANGED <<allocs, shutdown, now>>

Stamps(t) ==
  /\ CallbacksRun /\ second[t] \in Ids /\ StampActive(t, now)
  /\ UNCHANGED <<known, first, freed, allocs, shutdown, now>>

LEMMA EnterCases ==
  ASSUME NEW t, NEW f, Enter(t, f)
  PROVE  UNCHANGED <<tree, freed>> \/ EnterTree(t, f)
BY DEF Enter, Crash

LEMMA LeaveCases ==
  ASSUME TypeInv, NEW t \in Threads, Leave(t)
  PROVE  \/ UNCHANGED <<tree, freed>>
         \/ /\ second[t] \in Ids /\ StampActive(t, now)
            /\ UNCHANGED <<freed, known, first>>
<1>1. second[t] \in {Nil} \cup Ids
  BY TypeInvParts DEF TreeType
<1>2. Pointer(t) = "none" => second[t] \in Ids
  BY <1>1 DEF Pointer
<1> QED
  BY <1>2 DEF Leave, Crash

LEMMA RuntimeCases ==
  ASSUME TypeInv, RuntimeStep
  PROVE  \/ Idle
         \/ \E t \in Threads : ObjectAllocated(t)
         \/ \E t \in Threads, f \in Functions : Grows(t, f)
         \/ \E t \in Threads : Stamps(t)
<1>0. now \in Nat \ {0} /\ stack \in [Threads -> Seq(Frame(Ids))]
  BY TypeInvParts
<1>1. ASSUME NEW f \in Functions, Mapper(f)
      PROVE  Idle
  BY <1>0, <1>1 DEF Mapper, Crash, Idle
<1>2. ASSUME NEW t \in Threads, NEW f \in Functions, Call(t, f)
      PROVE  Idle \/ Grows(t, f)
  BY <1>0, <1>2, EnterCases DEF Call, Executes, Idle, Grows
<1>3. ASSUME NEW t \in Threads, LeaveFrame(t)
      PROVE  Idle \/ Stamps(t)
  BY <1>0, <1>3, LeaveCases DEF LeaveFrame, Executes, Idle, Stamps
<1>4. ASSUME NEW t \in Threads, Throw(t) \/ Catch(t)
      PROVE  Idle
  BY <1>0, <1>4 DEF Throw, Catch, Idle, profiler, tree
<1>5. ASSUME NEW t \in Threads, ExceptionUnwindFunctionEnter(t)
      PROVE  Idle \/ \E f \in Functions : Grows(t, f)
  <2>1. Top(t).fn \in Functions
    <3>1. stack[t] \in Seq(Frame(Ids)) /\ stack[t] # <<>>
      BY <1>0, <1>5 DEF ExceptionUnwindFunctionEnter
    <3>2. Top(t) \in Frame(Ids)
      BY <3>1, LastOf DEF Top
    <3> QED
      BY <3>2 DEF Frame
  <2> QED
    BY <1>0, <1>5, <2>1, EnterCases
       DEF ExceptionUnwindFunctionEnter, Idle, Grows
<1>6. ASSUME NEW t \in Threads, ExceptionUnwindFunctionLeave(t)
      PROVE  Idle \/ Stamps(t)
  BY <1>0, <1>6, LeaveCases DEF ExceptionUnwindFunctionLeave, Idle, Stamps
<1>7. ASSUME Tick
      PROVE  Idle
  BY <1>0, <1>7 DEF Tick, Idle, profiler, tree
<1> QED
  BY <1>1, <1>2, <1>3, <1>4, <1>5, <1>6, <1>7 DEF RuntimeStep, Return, TailCall

\* The climb stamps the active call or only moves up.
Stamped(t, time) ==
  /\ second[t] \in Ids /\ StampActive(t, time) /\ UNCHANGED first
Lifted(t) ==
  /\ second[t] \in Ids /\ ~Open(second[t]) /\ Upward(second[t]) \in Ids
  /\ UNCHANGED <<calls, first>>
  /\ second' = [second EXCEPT ![t] = Upward(second[t])]
\* Shutdown lets go of the calls of some threads.
LetsGo ==
  /\ UNCHANGED calls /\ pc' # "running"
  /\ \A t \in Threads : \/ second'[t] = Nil
                        \/ second'[t] = second[t] /\ first'[t] = first[t]

LEMMA UpwardIsAnId ==
  ASSUME TypeInv, NEW a \in Ids
  PROVE  /\ Upward(a) \in Ids /\ Upward(a) <= a
         /\ ~IsRoot(a) => calls[a].prevFunction \in Ids /\ calls[a].prevFunction < a
<1>1. calls[a] \in FunctionClass /\ Ids = 1 .. Len(calls) /\ Len(calls) \in Nat
  BY TypeInvParts DEF TreeType, Ids
<1>2. calls[a].prevFunction \in Nat /\ calls[a].prevFunction < a
  BY <1>1, TypeInvParts DEF FunctionClass, PointersOK
<1> QED
  BY <1>1, <1>2 DEF Upward, IsRoot, Nil

LEMMA ClimbCases ==
  ASSUME TypeInv, Climb
  PROVE  /\ cursor \in Threads /\ second[cursor] \in Ids /\ endTime \in Nat \ {0}
         /\ IF LeaveTimeMissing(second[cursor]) THEN Stamped(cursor, endTime)
            ELSE Lifted(cursor)
<1>1. cursor \in Threads /\ second[cursor] \in Ids /\ endTime \in Nat \ {0}
  BY DEF Climb, At, TypeInv, TypeOK, ShutdownTypeOK, PhaseOK, Phases
<1> QED
  BY <1>1, UpwardIsAnId DEF Climb, Stamped, Lifted, LeaveTimeMissing, Open

\* All that a step may do to the tree.
LEMMA TreeCases ==
  ASSUME TypeInv, [Next]_vars
  PROVE  \/ UNCHANGED <<calls, first, second>>
         \/ \E t \in Threads, f \in Functions : Grows(t, f)
         \/ \E t \in Threads, time \in Nat \ {0} : Stamped(t, time)
         \/ \E t \in Threads : Lifted(t)
         \/ LetsGo
         \/ ClearCalled
<1>0. now \in Nat \ {0} /\ first \in [Threads -> Nat]
      /\ second \in [Threads -> {Nil} \cup Ids]
  BY TypeInvParts DEF TreeType
<1>1. CASE UNCHANGED vars
  BY <1>1 DEF vars, profiler
<1>2. CASE RuntimeStep
  BY <1>0, <1>2, RuntimeCases DEF Idle, tree, ObjectAllocated, Stamps, Stamped
<1>3. CASE Climb
  BY <1>3, ClimbCases
<1>4. CASE DetachRoot
  BY <1>0, <1>4 DEF DetachRoot, LetsGo
<1>5. CASE ClearMaps
  BY <1>5 DEF ClearMaps, LetsGo
<1>6. CASE \/ ShutdownBegin \/ NextThread \/ SerializeRoot \/ SerializeChild
           \/ LoopEnds \/ SerializeReturn \/ DeleteRoot \/ ReleaseInfo \/ ClearGlobal
  BY <1>6 DEF ShutdownBegin, NextThread, SerializeRoot, SerializeChild, Crash,
     LoopEnds, SerializeReturn, DeleteRoot, ReleaseInfo, ClearGlobal, profiler, tree
<1> QED
  BY <1>1, <1>2, <1>3, <1>4, <1>5, <1>6 DEF Next, ShutdownStep

\* Shutdown is called once.
LEMMA RunningEnds ==
  ASSUME TypeInv, [Next]_vars, pc # "running"
  PROVE  pc' # "running"
<1>1. ASSUME RuntimeStep PROVE UNCHANGED pc
  BY <1>1, RuntimeCases DEF Idle, Grows, Stamps, shutdown, ObjectAllocated
<1> QED
  BY <1>1 DEF Next, ShutdownStep, ShutdownBegin, NextThread, Climb, SerializeRoot,
     SerializeChild, LoopEnds, ClearCalled, SerializeReturn, DeleteRoot, DetachRoot,
     ClearMaps, ReleaseInfo, ClearGlobal, At, vars, shutdown

-----------------------------------------------------------------------------
(* The two changes of the tree, in the form the proofs below use.          *)

LEMMA AppendFacts ==
  ASSUME NEW S, NEW s \in Seq(S), NEW e \in S
  PROVE  /\ \A k \in DOMAIN s : k \in DOMAIN Append(s, e) /\ Append(s, e)[k] = s[k]
         /\ \A k \in DOMAIN Append(s, e) :
              k \in DOMAIN s \/ (k = Len(s) + 1 /\ Append(s, e)[k] = e)
         /\ Len(s) + 1 \in DOMAIN Append(s, e) /\ Append(s, e)[Len(s) + 1] = e
         /\ \A k \in DOMAIN s : k < Len(s) + 1
OBVIOUS

LEMMA CallFacts ==
  ASSUME TypeInv
  PROVE  /\ Ids = 1 .. Len(calls) /\ Len(calls) \in Nat /\ Nil = 0
         /\ second \in [Threads -> {Nil} \cup Ids] /\ first \in [Threads -> Nat]
         /\ \A i \in Ids : /\ i \in Nat /\ i # Nil
                           /\ calls[i].TID \in Threads
                           /\ calls[i].prevFunction \in {Nil} \cup Ids
                           /\ calls[i].prevFunction < i
                           /\ calls[i].callOrderNumber \in Nat
                           /\ calls[i].depth \in Nat
                           /\ calls[i].wallTimeEnter \in Nat
                           /\ calls[i].wallTimeLeave \in Nat
                           /\ calls[i].calledFunctions \in Seq(Nat)
<1>1. /\ Ids = 1 .. Len(calls) /\ Len(calls) \in Nat /\ Nil = 0
      /\ second \in [Threads -> {Nil} \cup Ids] /\ first \in [Threads -> Nat]
      /\ \A i \in Ids : calls[i] \in FunctionClass
  BY TypeInvParts DEF TreeType, Ids, Nil
<1>2. \A i \in Ids : /\ calls[i].TID \in Threads
                     /\ calls[i].prevFunction \in Nat
                     /\ calls[i].callOrderNumber \in Nat
                     /\ calls[i].depth \in Nat
                     /\ calls[i].wallTimeEnter \in Nat
                     /\ calls[i].wallTimeLeave \in Nat
                     /\ calls[i].calledFunctions \in Seq(Nat)
  BY <1>1 DEF FunctionClass
<1>3. \A i \in Ids : calls[i].prevFunction < i
  BY TypeInvParts DEF PointersOK
<1> QED
  BY <1>1, <1>2, <1>3

LEMMA GrowthFacts ==
  ASSUME TypeInv, NEW t \in Threads, NEW f \in Functions, EnterTree(t, f)
  PROVE  /\ Ids' = Ids \cup {Len(calls) + 1}
         /\ Len(calls) + 1 \notin Ids /\ Len(calls) + 1 \in Nat \ {0}
         /\ \A i \in Ids : i < Len(calls) + 1
         /\ calls'[Len(calls) + 1].prevFunction = second[t]
         /\ calls'[Len(calls) + 1].TID = t
         /\ calls'[Len(calls) + 1].depth = DepthUnder(second[t])
         /\ calls'[Len(calls) + 1].calledFunctions = <<>>
         /\ calls'[Len(calls) + 1].callOrderNumber = NextOrder(t, second[t])
         /\ calls'[Len(calls) + 1].wallTimeEnter = now
         /\ calls'[Len(calls) + 1].wallTimeLeave = 0
         /\ \A i \in Ids : Untouched(i)
         /\ \A i \in Ids : i # second[t] =>
              calls'[i].calledFunctions = calls[i].calledFunctions
         /\ second[t] \in Ids => calls'[second[t]].calledFunctions =
              Append(calls[second[t]].calledFunctions, Len(calls) + 1)
         /\ second' = [second EXCEPT ![t] = Len(calls) + 1]
         /\ first' = [first EXCEPT ![t] = NextOrder(t, second[t])]
<1>1. TreeType /\ PointersOK
  BY TypeInvParts
<1>2. calls'[Len(calls) + 1] = NewCall(t, f, second[t])
  BY <1>1, EnterTreeFacts
<1>3. /\ Ids' = Ids \cup {Len(calls) + 1}
      /\ \A i \in Ids : Untouched(i)
      /\ \A i \in Ids : i # second[t] =>
           calls'[i].calledFunctions = calls[i].calledFunctions
      /\ second[t] \in Ids => calls'[second[t]].calledFunctions =
           Append(calls[second[t]].calledFunctions, Len(calls) + 1)
  BY <1>1, EnterTreeFacts
<1>4. /\ Len(calls) + 1 \notin Ids /\ Len(calls) + 1 \in Nat \ {0}
      /\ \A i \in Ids : i < Len(calls) + 1
  BY CallFacts
<1>5. /\ calls'[Len(calls) + 1].prevFunction = second[t]
      /\ calls'[Len(calls) + 1].TID = t
      /\ calls'[Len(calls) + 1].depth = DepthUnder(second[t])
      /\ calls'[Len(calls) + 1].calledFunctions = <<>>
      /\ calls'[Len(calls) + 1].callOrderNumber = NextOrder(t, second[t])
      /\ calls'[Len(calls) + 1].wallTimeEnter = now
      /\ calls'[Len(calls) + 1].wallTimeLeave = 0
  BY <1>2 DEF NewCall
<1>6. /\ second' = [second EXCEPT ![t] = Len(calls) + 1]
      /\ first' = [first EXCEPT ![t] = NextOrder(t, second[t])]
  BY DEF EnterTree
<1> QED
  BY <1>3, <1>4, <1>5, <1>6

-----------------------------------------------------------------------------
(* What is on the walk has been written.                                   *)

LogLine == [call : Ids, TID : Threads, depth : Nat, eWALLt : Nat, lWALLt : Nat,
            rFn : Nat \cup {-1}, nOr : Nat]
WalkOK  == walk \in Seq(Activation) /\ log \in Seq(LogLine)

LEMMA WalkTypes ==
  ASSUME TypeInv
  PROVE  /\ WalkOK
         /\ Len(walk) \in Nat /\ Len(log) \in Nat
         /\ DOMAIN walk = 1 .. Len(walk) /\ DOMAIN log = 1 .. Len(log)
         /\ \A k \in DOMAIN walk : walk[k].call \in Ids /\ walk[k].next \in Nat \ {0}
         /\ \A k \in DOMAIN log : log[k].call \in Ids
<1>1. WalkOK
  BY DEF WalkOK, TypeInv, TypeOK, ShutdownTypeOK, Activation, LogLine
<1>2. \A k \in DOMAIN walk : walk[k] \in Activation
  BY <1>1 DEF WalkOK
<1>3. \A k \in DOMAIN log : log[k] \in LogLine
  BY <1>1 DEF WalkOK
<1>4. Len(walk) \in Nat /\ Len(log) \in Nat
      /\ DOMAIN walk = 1 .. Len(walk) /\ DOMAIN log = 1 .. Len(log)
  BY <1>1 DEF WalkOK
<1>5. \A k \in DOMAIN log : log[k].call \in Ids
  BY <1>3 DEF LogLine
<1>6. \A k \in DOMAIN walk : walk[k].call \in Ids /\ walk[k].next \in Nat \ {0}
  BY <1>2 DEF Activation
<1> QED
  BY <1>1, <1>4, <1>5, <1>6

\* Appending to a sequence, for any element.
LEMMA PushFacts ==
  ASSUME NEW S, NEW s \in Seq(S), NEW e
  PROVE  /\ Len(Append(s, e)) = Len(s) + 1
         /\ DOMAIN Append(s, e) = 1 .. (Len(s) + 1)
         /\ \A k \in 1 .. Len(s) : Append(s, e)[k] = s[k]
         /\ Append(s, e)[Len(s) + 1] = e
<1>1. s \in Seq(S \cup {e}) /\ e \in S \cup {e}
  OBVIOUS
<1>2. /\ Len(Append(s, e)) = Len(s) + 1
      /\ \A k \in 1 .. Len(s) : Append(s, e)[k] = s[k]
      /\ Append(s, e)[Len(s) + 1] = e
      /\ Append(s, e) \in Seq(S \cup {e})
  BY <1>1, AppendProperties
<1> QED
  BY <1>2

WalkIsWritten == \A k \in DOMAIN walk : walk[k].call \in Written

\* A line more, and its call on top of a path that was written.
LEMMA WritesOne ==
  ASSUME TypeInv, NEW i, NEW below \in Seq(Activation), SerializeCall(i, below),
         \A k \in DOMAIN below : below[k].call \in Written
  PROVE  WalkIsWritten' /\ Written \subseteq Written'
<1>1. /\ log \in Seq(LogLine) /\ log' = Append(log, Line(i))
      /\ walk' = Append(below, [call |-> i, next |-> 1])
  BY WalkTypes DEF WalkOK, SerializeCall
<1>2. /\ \A k \in DOMAIN log : k \in DOMAIN log' /\ log'[k] = log[k]
      /\ Len(log) + 1 \in DOMAIN log' /\ log'[Len(log) + 1] = Line(i)
  BY <1>1, PushFacts
<1>3. Written \subseteq Written' /\ i \in Written'
  <2>1. log'[Len(log) + 1].call = i
    BY <1>2 DEF Line
  <2> QED
    BY <1>2, <2>1 DEF Written
<1>4. PICK e : e = [call |-> i, next |-> 1]
  OBVIOUS
<1>5. /\ DOMAIN walk' = 1 .. (Len(below) + 1) /\ DOMAIN below = 1 .. Len(below)
      /\ \A k \in 1 .. Len(below) : walk'[k] = below[k]
      /\ walk'[Len(below) + 1] = e /\ Len(below) \in Nat
  BY <1>1, <1>4, PushFacts
<1>6. ASSUME NEW k \in DOMAIN walk' PROVE walk'[k].call \in Written'
  <2>1. k \in 1 .. Len(below) \/ k = Len(below) + 1
    BY <1>5
  <2> QED
    BY <1>3, <1>4, <1>5, <2>1
<1> QED
  BY <1>3, <1>6 DEF WalkIsWritten

LEMMA WalkIsWrittenNext ==
  ASSUME TypeInv, WalkIsWritten, [Next]_vars
  PROVE  WalkIsWritten' /\ Written \subseteq Written'
<1>0. WalkOK /\ \A k \in DOMAIN walk : walk[k].call \in Written
  BY WalkTypes DEF WalkIsWritten
<1>1. CASE UNCHANGED <<walk, log>>
  BY <1>1 DEF WalkIsWritten, Written
<1>2. CASE SerializeRoot
  <2>1. PICK s, below : s = second[cursor] /\ below = <<>>
    OBVIOUS
  <2>2. SerializeCall(s, below)
    BY <1>2, <2>1 DEF SerializeRoot
  <2>3. below \in Seq(Activation) /\ DOMAIN below = {}
    BY <2>1
  <2> QED
    BY <2>2, <2>3, WritesOne
<1>3. CASE SerializeChild
  <2>1. PICK i : SerializeCall(i, NextChild)
    BY <1>3 DEF SerializeChild
  <2>2. walk \in Seq(Activation) /\ walk # <<>>
    BY <1>0, <1>3 DEF SerializeChild, At, TypeInv, PhaseOK, Walking, WalkOK
  <2>3. PICK top : top = walk[Len(walk)]
    OBVIOUS
  <2>4. top \in Activation /\ Len(walk) \in DOMAIN walk
    BY <2>2, <2>3, LastOf
  <2>5. PICK e : e = [top EXCEPT !.next = @ + 1]
    OBVIOUS
  <2>6. e \in Activation /\ e.call = top.call
    BY <2>4, <2>5 DEF Activation
  <2>7. NextChild = [walk EXCEPT ![Len(walk)] = e]
    BY <2>3, <2>5 DEF NextChild
  <2>8. /\ NextChild \in Seq(Activation) /\ DOMAIN NextChild = DOMAIN walk
        /\ \A k \in DOMAIN walk : NextChild[k] = IF k = Len(walk) THEN e ELSE walk[k]
    BY <2>2, <2>4, <2>6, <2>7
  <2>9. \A k \in DOMAIN NextChild : NextChild[k].call \in Written
    BY <1>0, <2>3, <2>4, <2>6, <2>8
  <2> QED
    BY <2>1, <2>8, <2>9, WritesOne
<1>4. CASE SerializeReturn
  <2>1. walk \in Seq(Activation) /\ walk # <<>> /\ log' = log
        /\ walk' = SubSeq(walk, 1, Len(walk) - 1)
    BY <1>0, <1>4 DEF SerializeReturn, At, TypeInv, PhaseOK, Walking, WalkOK
  <2>2. \A k \in DOMAIN walk' : k \in DOMAIN walk /\ walk'[k] = walk[k]
    BY <2>1
  <2> QED
    BY <1>0, <2>1, <2>2 DEF WalkIsWritten, Written
<1>5. ASSUME RuntimeStep PROVE UNCHANGED <<walk, log>>
  BY <1>5, RuntimeCases DEF Idle, Grows, Stamps, shutdown, ObjectAllocated
<1>6. CASE UNCHANGED vars
  BY <1>1, <1>6 DEF vars, shutdown
<1>7. CASE \/ ShutdownBegin \/ NextThread \/ Climb \/ LoopEnds \/ ClearCalled
           \/ DeleteRoot \/ DetachRoot \/ ClearMaps \/ ReleaseInfo \/ ClearGlobal
  BY <1>1, <1>7 DEF ShutdownBegin, NextThread, Climb, LoopEnds, ClearCalled, DeleteRoot,
     DetachRoot, ClearMaps, ReleaseInfo, ClearGlobal
<1> QED
  BY <1>1, <1>2, <1>3, <1>4, <1>5, <1>6, <1>7 DEF Next, ShutdownStep

LEMMA WalkIsWrittenInvariant == Spec => []WalkIsWritten
<1>1. Init => WalkIsWritten
  BY DEF Init, WalkIsWritten
<1>2. TypeInv /\ WalkIsWritten /\ [Next]_vars => WalkIsWritten'
  BY WalkIsWrittenNext
<1> QED
  BY <1>1, <1>2, TypeInvariant, PTL DEF Spec

-----------------------------------------------------------------------------
(* The forest is well formed, whether or not callbacks overtake Shutdown.  *)

OwnCalls == \A t \in Threads : second[t] # Nil => calls[second[t]].TID = t

ShapeInv == TreeWellFormed /\ OwnCalls

LEMMA ShapeGrows ==
  ASSUME TypeInv, ShapeInv, NEW t \in Threads, NEW f \in Functions, Grows(t, f)
  PROVE  ShapeInv'
<1> DEFINE p == second[t]
           n == Len(calls) + 1
<1>1. /\ Ids = 1 .. Len(calls) /\ Len(calls) \in Nat /\ p \in {Nil} \cup Ids
      /\ Nil = 0 /\ second \in [Threads -> {Nil} \cup Ids]
      /\ \A i \in Ids : /\ calls[i].calledFunctions \in Seq(Nat)
                        /\ calls[i].prevFunction \in {Nil} \cup Ids
                        /\ calls[i].prevFunction < i
  BY CallFacts
<1>2. /\ Ids' = Ids \cup {n} /\ n \notin Ids /\ n \in Nat
      /\ \A i \in Ids : i < n /\ Untouched(i)
      /\ \A i \in Ids : i # p => calls'[i].calledFunctions = calls[i].calledFunctions
      /\ p \in Ids => calls'[p].calledFunctions = Append(calls[p].calledFunctions, n)
  BY GrowthFacts DEF Grows
<1>3. /\ calls'[n].prevFunction = p /\ calls'[n].TID = t
      /\ calls'[n].depth = DepthUnder(p) /\ calls'[n].calledFunctions = <<>>
      /\ second' = [second EXCEPT ![t] = n] /\ Written' = Written
  BY GrowthFacts DEF Grows, shutdown, Written
<1>4. p \in Ids =>
        /\ \A k \in DOMAIN calls[p].calledFunctions :
             /\ k \in DOMAIN calls'[p].calledFunctions
             /\ calls'[p].calledFunctions[k] = calls[p].calledFunctions[k]
             /\ k < Len(calls[p].calledFunctions) + 1
        /\ \A k \in DOMAIN calls'[p].calledFunctions :
             \/ k \in DOMAIN calls[p].calledFunctions
             \/ /\ k = Len(calls[p].calledFunctions) + 1
                /\ calls'[p].calledFunctions[k] = n
        /\ \E k \in DOMAIN calls'[p].calledFunctions : calls'[p].calledFunctions[k] = n
  <2> HAVE p \in Ids
  <2>1. calls[p].calledFunctions \in Seq(Nat) /\ n \in Nat
    BY <1>1, <1>2
  <2>2. calls'[p].calledFunctions = Append(calls[p].calledFunctions, n)
    BY <1>2
  <2> DEFINE l == calls[p].calledFunctions
  <2>3. /\ \A k \in DOMAIN l : k \in DOMAIN Append(l, n) /\ Append(l, n)[k] = l[k]
        /\ \A k \in DOMAIN Append(l, n) :
             k \in DOMAIN l \/ (k = Len(l) + 1 /\ Append(l, n)[k] = n)
        /\ Len(l) + 1 \in DOMAIN Append(l, n) /\ Append(l, n)[Len(l) + 1] = n
        /\ \A k \in DOMAIN l : k < Len(l) + 1
    <3> HIDE DEF l, n
    <3>1. l \in Seq(Nat) /\ n \in Nat
      BY <2>1 DEF l, n
    <3> QED
      BY <3>1, AppendFacts
  <2> QED
    BY <2>2, <2>3
<1>5. \A i \in Ids : \A k \in DOMAIN calls[i].calledFunctions :
        /\ k \in DOMAIN calls'[i].calledFunctions
        /\ calls'[i].calledFunctions[k] = calls[i].calledFunctions[k]
  BY <1>1, <1>2, <1>4
<1>6. \A i \in Ids : \A k \in DOMAIN calls'[i].calledFunctions :
        \/ k \in DOMAIN calls[i].calledFunctions
        \/ /\ i = p /\ k = Len(calls[i].calledFunctions) + 1
           /\ calls'[i].calledFunctions[k] = n
  BY <1>1, <1>2, <1>4
<1>8. OwnCalls'
  BY <1>1, <1>2, <1>3 DEF ShapeInv, OwnCalls, Untouched, Same
<1>9. TreeWellFormed'
  <2> SUFFICES ASSUME NEW i \in Ids'
               PROVE  /\ ~IsRoot(i)' =>
                           /\ calls'[i].prevFunction < i
                           /\ calls'[calls'[i].prevFunction].TID = calls'[i].TID
                           /\ calls'[i].depth = calls'[calls'[i].prevFunction].depth + 1
                           /\ calls'[i].prevFunction \notin Written' =>
                                \E k \in DOMAIN calls'[calls'[i].prevFunction].calledFunctions :
                                  calls'[calls'[i].prevFunction].calledFunctions[k] = i
                      /\ \A k \in DOMAIN calls'[i].calledFunctions :
                           /\ calls'[i].calledFunctions[k] \in Children(i)'
                           /\ \A m \in DOMAIN calls'[i].calledFunctions :
                                m < k => calls'[i].calledFunctions[m] < calls'[i].calledFunctions[k]
    BY DEF TreeWellFormed
  <2>1. CASE i = n
    <3>1. p # Nil => /\ calls'[p].TID = t /\ calls'[n].depth = calls'[p].depth + 1
      BY <1>1, <1>2, <1>3 DEF ShapeInv, OwnCalls, Untouched, Same, DepthUnder
    <3> QED
      BY <1>1, <1>2, <1>3, <1>4, <2>1, <3>1 DEF IsRoot
  <2>2. CASE i \in Ids
    <3> DEFINE q == calls[i].prevFunction
    <3>1. calls'[i].prevFunction = q /\ calls'[i].TID = calls[i].TID
          /\ calls'[i].depth = calls[i].depth
      BY <1>2, <2>2 DEF Untouched, Same
    <3>2. q # Nil =>
            /\ q < i /\ q \in Ids /\ calls[q].TID = calls[i].TID
            /\ calls[i].depth = calls[q].depth + 1
            /\ q \notin Written =>
                 \E k \in DOMAIN calls[q].calledFunctions : calls[q].calledFunctions[k] = i
      BY <1>1, <1>4, <2>2 DEF ShapeInv, TreeWellFormed, IsRoot
    <3>3. q # Nil =>
            /\ calls'[q].TID = calls'[i].TID /\ calls'[i].depth = calls'[q].depth + 1
            /\ q \notin Written =>
                 \E k \in DOMAIN calls'[q].calledFunctions : calls'[q].calledFunctions[k] = i
      BY <1>2, <1>5, <3>1, <3>2 DEF Untouched, Same
    <3>4. Children(i) \subseteq Children(i)' /\ (i = p => n \in Children(i)')
      BY <1>2, <1>3 DEF Children, Untouched, Same
    <3>5. ASSUME NEW k \in DOMAIN calls'[i].calledFunctions
          PROVE  /\ calls'[i].calledFunctions[k] \in Children(i)'
                 /\ \A m \in DOMAIN calls'[i].calledFunctions :
                      m < k => calls'[i].calledFunctions[m] < calls'[i].calledFunctions[k]
      <4>0. \A m \in DOMAIN calls[i].calledFunctions :
              calls[i].calledFunctions[m] \in Ids /\ calls[i].calledFunctions[m] \in Children(i)
        BY <2>2 DEF ShapeInv, TreeWellFormed, Children
      <4>1. CASE k \in DOMAIN calls[i].calledFunctions
        <5>1. \A m \in DOMAIN calls'[i].calledFunctions :
                m < k => m \in DOMAIN calls[i].calledFunctions
          BY <1>1, <1>4, <1>6, <2>2, <4>1
        <5> QED
          BY <1>5, <2>2, <3>4, <4>0, <4>1, <5>1 DEF ShapeInv, TreeWellFormed
      <4>2. CASE /\ i = p /\ k = Len(calls[i].calledFunctions) + 1
                 /\ calls'[i].calledFunctions[k] = n
        <5>1. \A m \in DOMAIN calls'[i].calledFunctions :
                m < k => m \in DOMAIN calls[i].calledFunctions
          BY <1>6, <2>2, <4>2
        <5>2. \A m \in Ids : m < n
          BY <1>1
        <5> QED
          BY <1>5, <2>2, <3>4, <4>0, <4>2, <5>1, <5>2
      <4> QED
        BY <1>6, <2>2, <4>1, <4>2
    <3> QED
      BY <1>3, <3>1, <3>2, <3>3, <3>5 DEF IsRoot
  <2> QED
    BY <1>2, <2>1, <2>2
<1> QED
  BY <1>8, <1>9 DEF ShapeInv

LEMMA SameShape ==
  ASSUME TypeInv, TreeWellFormed, Ids' = Ids, Written \subseteq Written',
         \A i \in Ids : Same(i) /\ calls'[i].calledFunctions = calls[i].calledFunctions
  PROVE  TreeWellFormed'
<1>1. \A i \in Ids : ~IsRoot(i) => calls[i].prevFunction \in Ids
  BY UpwardIsAnId
<1>2. \A i \in Ids : Children(i)' = Children(i)
  BY DEF Children, Same
<1> QED
  BY <1>1, <1>2 DEF TreeWellFormed, IsRoot, Same

LEMMA ShapeMoves ==
  ASSUME TypeInv, ShapeInv, NEW t \in Threads, Upward(second[t]) \in Ids, second[t] \in Ids,
         Ids' = Ids, Written \subseteq Written',
         \A i \in Ids : Same(i) /\ calls'[i].calledFunctions = calls[i].calledFunctions,
         second' = [second EXCEPT ![t] = Upward(second[t])]
  PROVE  ShapeInv'
<1>1. second \in [Threads -> {Nil} \cup Ids]
  BY TypeInvParts DEF TreeType
<1>2. calls[second[t]].TID = t
  <2>1. second[t] # Nil
    BY TypeInvParts DEF TreeType, Ids, Nil
  <2> QED
    BY <2>1 DEF ShapeInv, OwnCalls
<1>3. calls[Upward(second[t])].TID = t
  BY <1>2 DEF Upward, ShapeInv, TreeWellFormed, IsRoot
<1> QED
  BY <1>1, <1>3, SameShape DEF ShapeInv, OwnCalls, Same

\* The list that is cleared is that of a written call.
LEMMA ShapeClears ==
  ASSUME TypeInv, ShapeInv, WalkIsWritten, ClearCalled
  PROVE  ShapeInv'
<1>1. PICK top \in Ids :
        /\ Len(walk) \in DOMAIN walk /\ walk[Len(walk)].call = top /\ Ids' = Ids
        /\ \A i \in Ids : Untouched(i)
        /\ \A i \in Ids : i # top => calls'[i].calledFunctions = calls[i].calledFunctions
        /\ calls'[top].calledFunctions = <<>>
  BY ClearFacts
<1>2. UNCHANGED <<log, second>> /\ Written' = Written /\ top \in Written
  BY <1>1 DEF ClearCalled, WalkIsWritten, Written
<1>3. second \in [Threads -> {Nil} \cup Ids]
  BY CallFacts
<1>4. OwnCalls'
  BY <1>1, <1>2, <1>3 DEF ShapeInv, OwnCalls, Untouched, Same
<1>5. \A i \in Ids : ~IsRoot(i) => calls[i].prevFunction \in Ids
  BY UpwardIsAnId
<1>6. \A i \in Ids : Children(i)' = Children(i)
  BY <1>1 DEF Children, Untouched, Same
<1>7. DOMAIN calls'[top].calledFunctions = {}
  BY <1>1
<1>8. TreeWellFormed'
  BY <1>1, <1>2, <1>5, <1>6, <1>7 DEF ShapeInv, TreeWellFormed, IsRoot, Untouched, Same
<1> QED
  BY <1>4, <1>8 DEF ShapeInv

LEMMA ShapeNext == TypeInv /\ WalkIsWritten /\ ShapeInv /\ [Next]_vars => ShapeInv'
<1> SUFFICES ASSUME TypeInv, WalkIsWritten, ShapeInv, [Next]_vars
             PROVE  ShapeInv'
  OBVIOUS
<1>0. Written \subseteq Written'
  BY WalkIsWrittenNext
<1>1. CASE UNCHANGED <<calls, first, second>>
  BY <1>0, <1>1, SameShape DEF ShapeInv, OwnCalls, Ids, Same
<1>2. ASSUME NEW t \in Threads, NEW f \in Functions, Grows(t, f)
      PROVE  ShapeInv'
  BY <1>2, ShapeGrows
<1>3. ASSUME NEW t \in Threads, NEW time \in Nat \ {0}, Stamped(t, time)
      PROVE  ShapeInv'
  <2>1. TreeType /\ PointersOK /\ second[t] \in Ids
    BY <1>3, TypeInvParts DEF Stamped
  <2> QED
    BY <1>0, <1>3, <2>1, StampFacts, ShapeMoves DEF Stamped
<1>4. ASSUME NEW t \in Threads, Lifted(t)
      PROVE  ShapeInv'
  BY <1>0, <1>4, ShapeMoves DEF Lifted, Ids, Same
<1>5. CASE LetsGo
  BY <1>0, <1>5, SameShape DEF LetsGo, ShapeInv, OwnCalls, Ids, Same
<1> QED
  BY <1>1, <1>2, <1>3, <1>4, <1>5, TreeCases, ShapeClears

LEMMA ShapeInvariant == Spec => []ShapeInv
<1>1. Init => ShapeInv
  BY DEF Init, ShapeInv, TreeWellFormed, OwnCalls, Ids
<1> QED
  BY <1>1, TypeInvariant, WalkIsWrittenInvariant, ShapeNext, PTL DEF Spec

\* What a list of children holds.
LEMMA ListFacts ==
  ASSUME TypeInv, ShapeInv, NEW i \in Ids, NEW l, l = calls[i].calledFunctions
  PROVE  /\ l \in Seq(Nat) /\ DOMAIN l \subseteq Nat
         /\ \A k \in DOMAIN l : /\ l[k] \in Ids /\ calls[l[k]].prevFunction = i
                               /\ ~IsRoot(l[k]) /\ i < l[k]
                               /\ calls[l[k]].TID = calls[i].TID
         /\ \A k, m \in DOMAIN l : l[k] = l[m] => k = m
<1>1. l \in Seq(Nat) /\ i # Nil /\ i \in Nat
  BY CallFacts
<1>2. \A k \in DOMAIN l : l[k] \in Children(i)
  BY DEF ShapeInv, TreeWellFormed
<1>3. \A k, m \in DOMAIN l : m < k => l[m] < l[k]
  BY DEF ShapeInv, TreeWellFormed
<1>4. \A k \in DOMAIN l : l[k] \in Ids /\ calls[l[k]].prevFunction = i /\ ~IsRoot(l[k])
  BY <1>1, <1>2 DEF Children, IsRoot
<1>5. \A k \in DOMAIN l : i < l[k] /\ calls[l[k]].TID = calls[i].TID
  BY <1>4 DEF ShapeInv, TreeWellFormed
<1>6. DOMAIN l \subseteq Nat /\ \A k \in DOMAIN l : l[k] \in Nat
  BY <1>1
<1>7. ASSUME NEW k \in DOMAIN l, NEW m \in DOMAIN l, l[k] = l[m]
      PROVE  k = m
  <2>1. ~(l[m] < l[k]) /\ ~(l[k] < l[m])
    BY <1>6, <1>7
  <2>2. ~(m < k) /\ ~(k < m)
    BY <1>3, <2>1
  <2> QED
    BY <1>6, <2>2
<1> QED
  BY <1>1, <1>4, <1>5, <1>6, <1>7

\* The forest of FunctionClass objects is well formed in every reachable
\* state, also when callbacks run during Shutdown: a child is younger than its
\* parent, of the same thread and one level down; a list holds children of its
\* call, in the order of the calls, and all of them until Serialize comes to
\* the call, whose list it clears (CallTree!TreeWellFormed).
THEOREM TreeIsWellFormed == Spec => []TreeWellFormed
<1>1. ShapeInv => TreeWellFormed
  BY DEF ShapeInv
<1> QED
  BY <1>1, ShapeInvariant, PTL

-----------------------------------------------------------------------------
(* The order numbers.                                                      *)

\* While a thread has an active call, the last number issued is borne by a
\* call of that thread.
LastIssued ==
  \A t \in Threads : second[t] # Nil =>
    \E i \in Ids : calls[i].TID = t /\ calls[i].callOrderNumber = first[t]

AllocInv == AllocationNamesACall /\ LastIssued

LEMMA AllocInvNext == TypeInv /\ AllocInv /\ [Next]_vars => AllocInv'
<1> SUFFICES ASSUME TypeInv, AllocInv, [Next]_vars
             PROVE  AllocInv'
  OBVIOUS
<1>0. /\ second \in [Threads -> {Nil} \cup Ids] /\ first \in [Threads -> Nat]
      /\ \A i \in Ids : i # Nil
  BY CallFacts
<1>1. \A a \in allocs : a.TID \in Threads
  BY DEF TypeInv, TypeOK, ProfilerTypeOK
\* No call loses its thread or number.
<1>2. \A i \in Ids : /\ i \in Ids' /\ calls'[i].TID = calls[i].TID
                     /\ calls'[i].callOrderNumber = calls[i].callOrderNumber
  <2>1. ASSUME NEW t \in Threads, NEW f \in Functions, Grows(t, f)
        PROVE  \A i \in Ids : i \in Ids' /\ Untouched(i)
    BY <2>1, GrowthFacts DEF Grows
  <2>2. ASSUME NEW t \in Threads, NEW time \in Nat \ {0}, Stamped(t, time)
        PROVE  \A i \in Ids : i \in Ids' /\ Same(i)
    BY <2>2, StampFacts, TypeInvParts DEF Stamped
  <2> QED
    BY <2>1, <2>2, TreeCases, ClearFacts DEF Lifted, LetsGo, Untouched, Same, Ids
<1>3. LastIssued'
  <2>1. ASSUME NEW t \in Threads, NEW f \in Functions, Grows(t, f)
        PROVE  LastIssued'
    <3> DEFINE n == Len(calls) + 1
    <3>1. /\ n \in Ids' /\ calls'[n].TID = t
          /\ calls'[n].callOrderNumber = NextOrder(t, second[t])
          /\ second' = [second EXCEPT ![t] = n]
          /\ first' = [first EXCEPT ![t] = NextOrder(t, second[t])]
      BY <2>1, GrowthFacts DEF Grows
    <3>2. first'[t] = NextOrder(t, second[t])
          /\ \A u \in Threads : u # t => first'[u] = first[u] /\ second'[u] = second[u]
      BY <1>0, <3>1
    <3> QED
      BY <1>2, <3>1, <3>2 DEF AllocInv, LastIssued
  <2>2. ASSUME first' = first,
               \A u \in Threads : second'[u] # Nil => second[u] # Nil
        PROVE  LastIssued'
    BY <1>2, <2>2 DEF AllocInv, LastIssued
  <2>3. ASSUME NEW t \in Threads, Upward(second[t]) \in Ids, second[t] \in Ids,
               second' = [second EXCEPT ![t] = Upward(second[t])]
        PROVE  \A u \in Threads : second'[u] # Nil => second[u] # Nil
    BY <1>0, <2>3
  <2>4. ASSUME NEW t \in Threads, NEW time \in Nat \ {0}, Stamped(t, time)
        PROVE  LastIssued'
    BY <2>2, <2>3, <2>4, UpwardIsAnId DEF Stamped, StampActive
  <2>5. ASSUME NEW t \in Threads, Lifted(t)
        PROVE  LastIssued'
    BY <2>2, <2>3, <2>5 DEF Lifted
  <2>6. ASSUME LetsGo
        PROVE  LastIssued'
    BY <1>2, <2>6 DEF AllocInv, LastIssued, LetsGo
  <2>7. ASSUME UNCHANGED <<calls, first, second>> \/ ClearCalled
        PROVE  LastIssued'
    BY <2>2, <2>7 DEF ClearCalled
  <2> QED
    BY <2>1, <2>4, <2>5, <2>6, <2>7, TreeCases
<1>4. AllocationNamesACall'
  <2>1. CASE UNCHANGED allocs
    BY <1>2, <2>1 DEF AllocInv, AllocationNamesACall
  <2>2. ASSUME NEW t \in Threads, ObjectAllocated(t)
        PROVE  AllocationNamesACall'
    <3>1. ASSUME NEW a \in allocs', a \notin allocs
          PROVE  a = [TID |-> t, active |-> second[t], fnc |-> functionNumOrder(t)]
      BY <2>2, <3>1 DEF ObjectAllocated
    <3>2. UNCHANGED calls
      BY <2>2 DEF ObjectAllocated
    <3>3. second[t] # Nil => \E i \in Ids : calls[i].TID = t /\ calls[i].callOrderNumber = first[t]
      BY DEF AllocInv, LastIssued
    <3>4. ASSUME NEW a \in allocs', a \notin allocs
          PROVE  IF a.active = Nil THEN a.fnc = -1
                 ELSE \E i \in Ids : calls[i].TID = a.TID /\ calls[i].callOrderNumber = a.fnc
      <4>1. /\ a.TID = t /\ a.active = second[t]
            /\ a.fnc = IF second[t] # Nil THEN first[t] ELSE -1
        BY <3>1, <3>4 DEF functionNumOrder
      <4> QED
        BY <3>3, <4>1
    <3> QED
      BY <1>2, <3>2, <3>4 DEF AllocInv, AllocationNamesACall, Ids
  <2>3. RuntimeStep => UNCHANGED allocs \/ \E t \in Threads : ObjectAllocated(t)
    BY RuntimeCases DEF Idle, Grows, Stamps
  <2>4. ShutdownBegin \/ ShutdownStep \/ UNCHANGED vars => UNCHANGED allocs
    BY DEF ShutdownStep, ShutdownBegin, NextThread, Climb, SerializeRoot, SerializeChild,
       LoopEnds, ClearCalled, SerializeReturn, DeleteRoot, DetachRoot, ClearMaps,
       ReleaseInfo, ClearGlobal,
       profiler, vars
  <2> QED
    BY <2>1, <2>2, <2>3, <2>4 DEF Next
<1> QED
  BY <1>3, <1>4 DEF AllocInv

\* An allocation is attributed to an order number that a call of its thread
\* bears, and to none exactly when the thread has no active call, also when
\* it happens during Shutdown (CallTree!AllocationNamesACall).
THEOREM AllocationsNameCalls == Spec => []AllocationNamesACall
<1>1. Init => AllocInv
  BY DEF Init, AllocInv, AllocationNamesACall, LastIssued
<1>2. AllocInv => AllocationNamesACall
  BY DEF AllocInv
<1> QED
  BY <1>1, <1>2, TypeInvariant, AllocInvNext, PTL DEF Spec

\* The theorems from here on are about programs whose callbacks end before
\* Shutdown begins: then Enter, Leave and the clock belong to that time.
LEMMA CallbacksEnd ==
  ASSUME ~LateCallbacks, CallbacksRun
  PROVE  pc = "running"
BY DEF CallbacksRun

\* Until Shutdown a thread that made a call has an active one.
Attached == pc = "running" => \A i \in Ids : second[calls[i].TID] # Nil

OrdersInv == OrdersUnique /\ Attached

LEMMA OrdersInvNext ==
  ASSUME ~LateCallbacks, TypeInv, OrdersInv, [Next]_vars
  PROVE  OrdersInv'
<1>0. /\ second \in [Threads -> {Nil} \cup Ids] /\ first \in [Threads -> Nat]
      /\ \A i \in Ids : i \in Nat /\ i # Nil /\ calls[i].TID \in Threads
                        /\ calls[i].callOrderNumber \in Nat
  BY CallFacts
\* What keeps the calls and the numbers, and detaches only in Shutdown.
<1>1. ASSUME Ids' = Ids, \A i \in Ids : Same(i),
             \A u \in Threads : second'[u] # Nil => second[u] # Nil /\ first'[u] = first[u],
             \/ pc' # "running"
             \/ \A u \in Threads : second[u] # Nil => second'[u] # Nil
      PROVE  OrdersInv'
  <2>1. OrdersUnique'
    BY <1>0, <1>1 DEF OrdersInv, OrdersUnique, Same
  <2>2. Attached'
    BY <1>0, <1>1, RunningEnds DEF OrdersInv, Attached, Same
  <2> QED
    BY <2>1, <2>2 DEF OrdersInv
<1>2. ASSUME NEW t \in Threads, NEW f \in Functions, Grows(t, f)
      PROVE  OrdersInv'
  <2> DEFINE n == Len(calls) + 1
  <2>1. pc = "running"
    BY <1>2, CallbacksEnd DEF Grows
  <2>2. /\ Ids' = Ids \cup {n} /\ n \notin Ids /\ n \in Nat \ {0}
        /\ \A i \in Ids : i < n /\ Untouched(i)
        /\ calls'[n].TID = t /\ calls'[n].callOrderNumber = NextOrder(t, second[t])
        /\ second' = [second EXCEPT ![t] = n]
        /\ first' = [first EXCEPT ![t] = NextOrder(t, second[t])]
    BY <1>2, GrowthFacts DEF Grows
  <2>3. /\ second'[t] = n /\ first'[t] = NextOrder(t, second[t])
        /\ \A u \in Threads : u # t => second'[u] = second[u] /\ first'[u] = first[u]
    BY <1>0, <2>2
  \* The new number exceeds those of the older calls of t.
  <2>4. \A i \in Ids : calls[i].TID = t =>
          calls[i].callOrderNumber < NextOrder(t, second[t])
    <3> TAKE i \in Ids
    <3> HAVE calls[i].TID = t
    <3>1. second[t] # Nil
      BY <2>1 DEF OrdersInv, Attached
    <3>2. calls[i].callOrderNumber <= first[t]
      BY <3>1 DEF OrdersInv, OrdersUnique
    <3> QED
      BY <1>0, <3>1, <3>2 DEF NextOrder
  <2>5. NextOrder(t, second[t]) \in Nat
    BY <1>0 DEF NextOrder
  <2>6. OrdersUnique'
    <3>1. ASSUME NEW i \in Ids'
          PROVE  second'[calls'[i].TID] # Nil =>
                   calls'[i].callOrderNumber <= first'[calls'[i].TID]
      <4>1. CASE i = n
        BY <2>2, <2>3, <2>5, <4>1
      <4>2. CASE i \in Ids /\ calls[i].TID = t
        BY <1>0, <2>2, <2>3, <2>4, <2>5, <4>2 DEF Untouched, Same
      <4>3. CASE i \in Ids /\ calls[i].TID # t
        BY <1>0, <2>2, <2>3, <4>3 DEF OrdersInv, OrdersUnique, Untouched, Same
      <4> QED
        BY <2>2, <4>1, <4>2, <4>3
    <3>2. ASSUME NEW i \in Ids', NEW j \in Ids', calls'[i].TID = calls'[j].TID, i < j
          PROVE  calls'[i].callOrderNumber < calls'[j].callOrderNumber
      <4>1. i \in Ids
        BY <1>0, <2>2, <3>2
      <4>2. CASE j = n
        BY <2>2, <2>4, <3>2, <4>1, <4>2 DEF Untouched, Same
      <4>3. CASE j \in Ids
        BY <2>2, <3>2, <4>1, <4>3 DEF OrdersInv, OrdersUnique, Untouched, Same
      <4> QED
        BY <2>2, <4>2, <4>3
    <3> QED
      BY <3>1, <3>2 DEF OrdersUnique
  <2>7. Attached'
    <3>1. ASSUME NEW i \in Ids'
          PROVE  second'[calls'[i].TID] # Nil
      <4>1. CASE i = n
        BY <2>2, <2>3, <4>1 DEF Nil
      <4>2. CASE i \in Ids
        <5>1. calls'[i].TID = calls[i].TID /\ calls[i].TID \in Threads
          BY <1>0, <2>2, <4>2 DEF Untouched, Same
        <5>2. second[calls[i].TID] # Nil
          BY <2>1, <4>2 DEF OrdersInv, Attached
        <5> QED
          BY <2>2, <2>3, <5>1, <5>2 DEF Nil
      <4> QED
        BY <2>2, <4>1, <4>2
    <3> QED
      BY <3>1 DEF Attached
  <2> QED
    BY <2>6, <2>7 DEF OrdersInv
<1>3. ASSUME NEW t \in Threads, NEW time \in Nat \ {0}, Stamped(t, time)
      PROVE  OrdersInv'
  <2>1. /\ Ids' = Ids /\ \A i \in Ids : Same(i)
        /\ Upward(second[t]) \in Ids /\ second[t] \in Ids /\ first' = first
        /\ second' = [second EXCEPT ![t] = Upward(second[t])]
    BY <1>3, StampFacts, TypeInvParts DEF Stamped
  <2> QED
    BY <1>0, <1>1, <2>1
<1>4. ASSUME NEW t \in Threads, Lifted(t)
      PROVE  OrdersInv'
  BY <1>0, <1>1, <1>4 DEF Lifted, Ids, Same
<1>5. CASE LetsGo
  BY <1>1, <1>5 DEF LetsGo, Ids, Same
<1>6. CASE UNCHANGED <<calls, first, second>>
  BY <1>1, <1>6 DEF Ids, Same
<1>7. CASE ClearCalled
  <2>1. Ids' = Ids /\ (\A i \in Ids : Same(i)) /\ UNCHANGED <<first, second>>
    BY <1>7, ClearFacts DEF ClearCalled, Untouched
  <2> QED
    BY <1>1, <2>1
<1> QED
  BY <1>2, <1>3, <1>4, <1>5, <1>6, <1>7, TreeCases

\* Within a thread later calls have greater order numbers, and none exceeds
\* the last one issued, so that a number names one call (CallTree!OrdersUnique).
THEOREM OrdersAreUnique == ~LateCallbacks => (Spec => []OrdersUnique)
<1> SUFFICES ASSUME ~LateCallbacks PROVE Spec => []OrdersUnique
  OBVIOUS
<1>1. Init => OrdersInv
  BY DEF Init, OrdersInv, OrdersUnique, Attached, Ids
<1>2. TypeInv /\ OrdersInv /\ [Next]_vars => OrdersInv'
  BY OrdersInvNext
<1>3. OrdersInv => OrdersUnique
  BY DEF OrdersInv
<1> QED
  BY <1>1, <1>2, <1>3, TypeInvariant, PTL DEF Spec

-----------------------------------------------------------------------------
(* The open calls.                                                         *)

\* What Shutdown has done with the entries of the map: those it has passed
\* hold null, and the one it writes holds a finished root.
AtRoot == {"serialize", "walk", "clearing", "returning", "delete", "detach"}
PassedInv ==
  /\ \A t \in Threads : second[t] # Nil => t \in known
  /\ pc = "running" => cursor = 0
  /\ pc # "running" =>
       \A t \in known : (t < cursor \/ (t = cursor /\ pc = "threads")) => second[t] = Nil
  /\ pc \in AtRoot => ~Open(second[cursor]) /\ IsRoot(second[cursor])

\* When the callbacks have ended, only Shutdown moves.
LEMMA StepCases ==
  ASSUME ~LateCallbacks, TypeInv, [Next]_vars
  PROVE  \/ pc = "running" /\ Idle
         \/ pc = "running" /\ \E t \in Threads : ObjectAllocated(t)
         \/ pc = "running" /\ \E t \in Threads, f \in Functions : Grows(t, f)
         \/ pc = "running" /\ \E t \in Threads : Stamps(t)
         \/ UNCHANGED vars
         \/ ShutdownBegin
         \/ ShutdownStep
<1>1. RuntimeStep => CallbacksRun
  BY DEF RuntimeStep, Mapper, Call, Return, TailCall, LeaveFrame, ObjectAllocated,
     Throw, ExceptionUnwindFunctionEnter, ExceptionUnwindFunctionLeave, Catch, Tick,
     Executes
<1> QED
  BY <1>1, CallbacksEnd, RuntimeCases DEF Next

LEMMA PassedInvNext ==
  ASSUME ~LateCallbacks, TypeInv, PassedInv, [Next]_vars
  PROVE  PassedInv'
<1>0. /\ second \in [Threads -> {Nil} \cup Ids] /\ Nil = 0
      /\ \A i \in Ids : i # Nil
      /\ known \subseteq Threads /\ cursor \in Threads \cup {0}
      /\ \A t \in Threads \cup {0} : t \in Nat
      /\ 0 \notin Threads
  <2>1. known \subseteq Threads /\ cursor \in Threads \cup {0}
    BY DEF TypeInv, TypeOK, ProfilerTypeOK, ShutdownTypeOK
  <2> QED
    BY <2>1, CallFacts, ThreadsAssumption
\* Before Shutdown only the first part says something.
<1>1. ASSUME pc' = "running", known \subseteq known',
             \A t \in Threads : second'[t] # Nil => second[t] # Nil \/ t \in known',
             pc = "running", cursor' = cursor
      PROVE  PassedInv'
  BY <1>1 DEF PassedInv, AtRoot
<1>2. CASE pc = "running" /\ Idle
  BY <1>1, <1>2 DEF Idle, tree, shutdown
<1>3. CASE pc = "running" /\ \E t \in Threads : ObjectAllocated(t)
  BY <1>1, <1>3 DEF ObjectAllocated, shutdown
<1>4. ASSUME pc = "running", NEW t \in Threads, NEW f \in Functions, Grows(t, f)
      PROVE  PassedInv'
  BY <1>0, <1>1, <1>4 DEF Grows, EnterTree, shutdown
<1>5. ASSUME pc = "running", NEW t \in Threads, Stamps(t)
      PROVE  PassedInv'
  BY <1>0, <1>1, <1>5 DEF Stamps, StampActive, shutdown
\* What leaves the tree alone.
<1>6. CASE UNCHANGED vars
  BY <1>6 DEF PassedInv, AtRoot, Open, IsRoot, vars, profiler, shutdown
<1>7. CASE ShutdownBegin
  BY <1>0, <1>7 DEF ShutdownBegin, PassedInv, AtRoot, At, profiler
<1>8. CASE NextThread
  <2>1. PICK t \in known : /\ t > cursor /\ \A u \in known : u > cursor => t <= u
                           /\ cursor' = t
                           /\ pc' = IF second[t] = Nil THEN "threads" ELSE "climb"
    BY <1>8 DEF NextThread
  <2>2. UNCHANGED <<calls, second, known>> /\ pc = "threads"
    BY <1>8 DEF NextThread, profiler, At
  <2>3. \A u \in known : u < t => second[u] = Nil
    <3> TAKE u \in known
    <3> HAVE u < t
    <3>1. ~(u > cursor)
      BY <1>0, <2>1
    <3>2. u < cursor \/ u = cursor
      BY <1>0, <3>1
    <3> QED
      BY <2>2, <3>2 DEF PassedInv
  <2> QED
    BY <2>1, <2>2, <2>3 DEF PassedInv, AtRoot
<1>9. CASE Climb
  <2> DEFINE a == second[cursor]
  <2>1. /\ cursor \in Threads /\ a \in Ids /\ endTime \in Nat \ {0}
        /\ IF LeaveTimeMissing(a) THEN Stamped(cursor, endTime) ELSE Lifted(cursor)
    BY <1>9, ClimbCases
  <2>2. /\ pc = "climb" /\ UNCHANGED <<known, cursor>>
        /\ pc' = IF IsRoot(a) THEN "serialize" ELSE "climb"
    BY <1>9 DEF Climb, At
  <2>3. /\ second' = [second EXCEPT ![cursor] = Upward(a)]
        /\ \A i \in Ids : Same(i)
        /\ ~LeaveTimeMissing(a) => UNCHANGED calls
        /\ LeaveTimeMissing(a) => calls'[a].wallTimeLeave = endTime
    BY <2>1, StampFacts, TypeInvParts DEF Stamped, Lifted, Same
  <2>4. IsRoot(a) => second'[cursor] = a /\ IsRoot(a)' /\ ~Open(a)'
    <3>1. IsRoot(a) => second'[cursor] = a
      BY <1>0, <2>1, <2>3 DEF Upward
    <3>2. calls'[second[cursor]].wallTimeLeave # 0
      BY <2>1, <2>3 DEF LeaveTimeMissing
    <3>3. calls'[second[cursor]].prevFunction = calls[second[cursor]].prevFunction
      BY <2>1, <2>3 DEF Same
    <3> QED
      BY <2>2, <3>1, <3>2, <3>3 DEF IsRoot, Open
  <2>5. pc' \in AtRoot => IsRoot(a)
    BY <2>2 DEF AtRoot
  <2> QED
    BY <1>0, <2>1, <2>2, <2>3, <2>4, <2>5 DEF PassedInv, Open, IsRoot, AtRoot
<1>10. CASE \/ SerializeRoot \/ SerializeChild \/ LoopEnds \/ SerializeReturn
            \/ DeleteRoot \/ ReleaseInfo \/ ClearGlobal
  <2>1. UNCHANGED <<calls, second, known, cursor>> /\ pc # "running"
        /\ pc' \notin {"running", "threads"} /\ (pc' \in AtRoot => pc \in AtRoot)
    BY <1>10 DEF SerializeRoot, SerializeChild, LoopEnds, SerializeReturn, DeleteRoot, Crash,
       ReleaseInfo, ClearGlobal, At, AtRoot, profiler, tree
  <2> QED
    BY <2>1 DEF PassedInv, Open, IsRoot
<1>13. CASE ClearCalled
  <2>1. UNCHANGED <<second, known, cursor>> /\ pc = "clearing" /\ pc' = "returning"
    BY <1>13 DEF ClearCalled, At
  <2>2. \A i \in Ids : Untouched(i)
    BY <1>13, ClearFacts
  <2>3. second[cursor] \in Ids
    BY <2>1 DEF TypeInv, PhaseOK, Phases, Walking
  <2> QED
    BY <2>1, <2>2, <2>3 DEF PassedInv, AtRoot, Open, IsRoot, Untouched, Same
<1>11. CASE DetachRoot
  <2>1. /\ UNCHANGED <<calls, known, cursor>> /\ pc = "detach" /\ pc' = "threads"
        /\ second' = [second EXCEPT ![cursor] = Nil]
    BY <1>11 DEF DetachRoot, At
  <2> QED
    BY <1>0, <2>1 DEF PassedInv, AtRoot
<1>12. CASE ClearMaps
  BY <1>12 DEF ClearMaps, PassedInv, AtRoot
<1> QED
  BY <1>2, <1>3, <1>4, <1>5, <1>6, <1>7, <1>8, <1>9, <1>10, <1>11, <1>12, <1>13,
     StepCases DEF ShutdownStep

LEMMA PassedInvariant == ~LateCallbacks => (Spec => []PassedInv)
<1> SUFFICES ASSUME ~LateCallbacks PROVE Spec => []PassedInv
  OBVIOUS
<1>1. Init => PassedInv
  BY DEF Init, PassedInv, AtRoot
<1>2. TypeInv /\ PassedInv /\ [Next]_vars => PassedInv'
  BY PassedInvNext
<1> QED
  BY <1>1, <1>2, TypeInvariant, PTL DEF Spec

\* OpenCallsFormChain has three parts.  That an open call leads down to the
\* active one is lost when Shutdown lets go of a thread that goes on calling;
\* the other two parts are not.
Linked == \A i \in Ids : Open(i) /\ i # second[calls[i].TID] =>
            \E c \in Ids : OpenChildren(i) = {c}
Ended  == \A i \in Ids : ~Open(i) /\ ~IsRoot(i) => OpenChildren(i) = {}
Active == \A t \in Threads : second[t] # Nil =>
            /\ calls[second[t]].TID = t
            /\ Open(second[t]) \/ IsRoot(second[t])
            /\ OpenChildren(second[t]) = {}

\* A call has at most one open child, whether it is open or a finished root.
OneOpenChild ==
  \A i \in Ids : \A c, d \in OpenChildren(i) : c = d

ActiveInv == Ended /\ Active /\ OneOpenChild
ChainInv  == OpenCallsFormChain /\ OneOpenChild

LEMMA ChainParts == ChainInv <=> ActiveInv /\ Linked
BY DEF ChainInv, ActiveInv, OpenCallsFormChain, Linked, Ended, Active

LEMMA ActiveStamped ==
  ASSUME TypeInv, ShapeInv, ActiveInv, NEW t \in Threads, NEW time \in Nat \ {0},
         Stamped(t, time)
  PROVE  ActiveInv' /\ (Linked => Linked')
<1> DEFINE a == second[t]
<1>1. /\ a \in Ids /\ a # Nil /\ second \in [Threads -> {Nil} \cup Ids]
      /\ \A i \in Ids : i # Nil /\ calls[i].TID \in Threads
  BY CallFacts DEF Stamped
<1>2. /\ Ids' = Ids
      /\ second' = [second EXCEPT ![t] = Upward(a)]
      /\ \A i \in Ids : Same(i) /\ (i # a => Untouched(i))
      /\ calls'[a].wallTimeLeave = time
  BY StampFacts, TypeInvParts DEF Stamped
<1>3. calls[a].TID = t
  BY <1>1 DEF ShapeInv, OwnCalls
<1>4. \A i \in Ids : /\ Open(i)' <=> Open(i) /\ i # a
                     /\ IsRoot(i)' <=> IsRoot(i)
                     /\ Children(i)' = Children(i)
                     /\ OpenChildren(i)' = OpenChildren(i) \ {a}
  <2>1. \A i \in Ids : Open(i)' <=> Open(i) /\ i # a
    BY <1>1, <1>2 DEF Open, Untouched
  <2>2. \A i \in Ids : (IsRoot(i)' <=> IsRoot(i)) /\ Children(i)' = Children(i)
    BY <1>2 DEF IsRoot, Children, Same
  <2> QED
    BY <2>1, <2>2 DEF OpenChildren, Children
<1>5. OneOpenChild'
  BY <1>2, <1>4 DEF ActiveInv, OneOpenChild
<1>6. CASE IsRoot(a)
  <2>1. second' = second
    BY <1>1, <1>2, <1>6 DEF Upward
  <2>2. \A i \in Ids : OpenChildren(i)' = OpenChildren(i)
    BY <1>1, <1>4, <1>6 DEF OpenChildren, Children, IsRoot
  <2>3. Linked => Linked'
    <3> SUFFICES ASSUME Linked, NEW i \in Ids, Open(i)', i # second'[calls'[i].TID]
                 PROVE  \E c \in Ids' : OpenChildren(i)' = {c}
      BY <1>2 DEF Linked
    <3>1. calls'[i].TID = calls[i].TID
      BY <1>2 DEF Same
    <3> QED
      BY <1>2, <1>4, <2>1, <2>2, <3>1 DEF Linked
  <2>4. Ended'
    BY <1>2, <1>4, <1>6, <2>2 DEF ActiveInv, Ended
  <2>5. Active'
    <3>2. ASSUME NEW u \in Threads, second[u] # Nil
          PROVE  /\ calls'[second[u]].TID = u
                 /\ Open(second[u])' \/ IsRoot(second[u])'
                 /\ OpenChildren(second[u])' = {}
      <4> DEFINE s == second[u]
      <4>1. s \in Ids /\ calls[s].TID = u /\ (Open(s) \/ IsRoot(s)) /\ OpenChildren(s) = {}
        BY <1>1, <3>2 DEF ActiveInv, Ended, Active
      <4>2. calls'[s].TID = u
        BY <1>2, <4>1 DEF Same
      <4> QED
        BY <1>4, <1>6, <2>1, <2>2, <4>1, <4>2
    <3> QED
      BY <1>2, <2>1, <3>2 DEF Active
  <2> QED
    BY <1>5, <2>3, <2>4, <2>5 DEF ActiveInv
<1>7. CASE ~IsRoot(a)
  <2>0. PICK p : p = calls[a].prevFunction
    OBVIOUS
  <2>1. /\ p \in Ids /\ p < a /\ calls[p].TID = t /\ a \in Children(p) /\ Upward(a) = p
        /\ p # a
    <3>1. p \in Ids /\ p < a /\ Upward(a) = p /\ a \in Nat /\ p \in Nat
      BY <1>1, <1>7, <2>0, UpwardIsAnId, CallFacts DEF Upward
    <3>2. calls[p].TID = calls[a].TID
      BY <1>1, <1>7, <2>0 DEF ShapeInv, TreeWellFormed
    <3> QED
      BY <1>1, <1>3, <2>0, <3>1, <3>2 DEF Children
  <2>2. Open(a) /\ OpenChildren(a) = {}
    BY <1>1, <1>7 DEF ActiveInv, Ended, Active
  <2>3. OpenChildren(p) = {a}
    <3>1. a \in OpenChildren(p)
      BY <2>1, <2>2 DEF OpenChildren
    <3> QED
      BY <2>1, <3>1 DEF ActiveInv, OneOpenChild
  <2>4. OpenChildren(p)' = {} /\ \A i \in Ids : i # p => OpenChildren(i)' = OpenChildren(i)
    <3>1. \A i \in Ids : i # p => a \notin OpenChildren(i)
      BY <2>0 DEF OpenChildren, Children
    <3>2. OpenChildren(p)' = {a} \ {a}
      BY <1>4, <2>1, <2>3
    <3>3. \A i \in Ids : i # p => OpenChildren(i)' = OpenChildren(i)
      BY <1>4, <3>1
    <3> QED
      BY <3>2, <3>3
  <2>5. Open(p) \/ IsRoot(p)
    BY <2>1, <2>3 DEF ActiveInv, Ended, Active
  <2>6. second'[t] = p /\ \A u \in Threads : u # t => second'[u] = second[u]
    BY <1>1, <1>2, <2>1
  <2>7. ASSUME Linked, NEW i \in Ids, Open(i)', i # second'[calls'[i].TID]
        PROVE  \E c \in Ids : OpenChildren(i)' = {c}
    <3>1. calls'[i].TID = calls[i].TID /\ Open(i) /\ i # a
      BY <1>2, <1>4, <2>7 DEF Same
    <3>2. i # second[calls[i].TID] /\ i # p
      BY <1>1, <2>1, <2>6, <2>7, <3>1
    <3> QED
      BY <2>4, <2>7, <3>1, <3>2 DEF Linked
  <2>8. ASSUME NEW i \in Ids, ~Open(i)', ~IsRoot(i)'
        PROVE  OpenChildren(i)' = {}
    BY <1>4, <2>2, <2>4, <2>8 DEF ActiveInv, Ended, Active
  <2>9. ASSUME NEW u \in Threads, second'[u] # Nil
        PROVE  /\ calls'[second'[u]].TID = u
               /\ calls'[second'[u]].wallTimeLeave = 0 \/ calls'[second'[u]].prevFunction = Nil
               /\ {c \in Ids' : calls'[c].prevFunction = second'[u] /\ calls'[c].wallTimeLeave = 0} = {}
    <3>1. second'[u] \in Ids /\ calls[second'[u]].TID = u
      BY <1>1, <2>1, <2>6, <2>9 DEF ActiveInv, Ended, Active
    <3> DEFINE s == second'[u]
    <3>2. s # a /\ (Open(s) \/ IsRoot(s))
      <4>1. CASE u = t
        BY <2>1, <2>5, <2>6, <4>1
      <4>2. CASE u # t
        BY <1>3, <2>6, <2>9, <3>1, <4>2 DEF ActiveInv, Ended, Active
      <4> QED
        BY <4>1, <4>2
    <3>3. \A c \in Ids : calls[c].prevFunction = s => ~Open(c) \/ c = a
      <4>1. CASE u = t
        BY <2>1, <2>3, <2>6, <4>1 DEF OpenChildren, Children
      <4>2. CASE u # t
        BY <2>6, <2>9, <4>2 DEF ActiveInv, Ended, Active, OpenChildren, Children
      <4> QED
        BY <4>1, <4>2
    <3>4. \A c \in Ids : calls'[c].prevFunction = s => calls'[c].wallTimeLeave # 0
      BY <1>1, <1>2, <3>3 DEF Same, Untouched, Open
    <3>5. /\ calls'[s].TID = calls[s].TID /\ calls'[s].prevFunction = calls[s].prevFunction
          /\ calls'[s].wallTimeLeave = calls[s].wallTimeLeave
      BY <1>2, <3>1, <3>2 DEF Same, Untouched
    <3> QED
      BY <1>2, <3>1, <3>2, <3>4, <3>5 DEF Open, IsRoot
  <2>10. Ended' /\ (Linked => Linked')
    BY <1>2, <2>7, <2>8 DEF Ended, Linked
  <2>11. Active'
    BY <2>9 DEF Active, Open, IsRoot, OpenChildren, Children
  <2> QED
    BY <1>5, <2>10, <2>11 DEF ActiveInv
<1> QED
  BY <1>6, <1>7

LEMMA ActiveGrows ==
  ASSUME TypeInv, ShapeInv, ActiveInv, NEW t \in Threads, NEW f \in Functions,
         EnterTree(t, f)
  PROVE  ActiveInv' /\ (Linked => Linked')
<1>0. PICK p, n : p = second[t] /\ n = Len(calls) + 1
  OBVIOUS
<1>1. /\ second \in [Threads -> {Nil} \cup Ids] /\ p \in {Nil} \cup Ids
      /\ \A i \in Ids : /\ i # Nil /\ calls[i].TID \in Threads
                        /\ calls[i].prevFunction \in {Nil} \cup Ids
  BY <1>0, CallFacts
<1>2. /\ Ids' = Ids \cup {n} /\ n \notin Ids /\ n # Nil
      /\ calls'[n].prevFunction = p /\ calls'[n].TID = t /\ calls'[n].wallTimeLeave = 0
      /\ \A i \in Ids : Untouched(i)
      /\ second'[t] = n /\ \A u \in Threads : u # t => second'[u] = second[u]
  BY <1>0, <1>1, GrowthFacts DEF Nil
<1>3. p # Nil => p \in Ids /\ calls[p].TID = t /\ (Open(p) \/ IsRoot(p)) /\ OpenChildren(p) = {}
  BY <1>0, <1>1 DEF ActiveInv, Ended, Active
<1>4. \A i \in Ids : /\ Open(i)' <=> Open(i)
                     /\ IsRoot(i)' <=> IsRoot(i)
                     /\ calls'[i].TID = calls[i].TID
                     /\ OpenChildren(i)' = IF i = p THEN OpenChildren(i) \cup {n}
                                           ELSE OpenChildren(i)
  <2>1. \A i \in Ids : /\ Open(i)' <=> Open(i)
                       /\ IsRoot(i)' <=> IsRoot(i)
                       /\ calls'[i].TID = calls[i].TID
    BY <1>2 DEF Untouched, Same, Open, IsRoot
  <2>2. \A i \in Ids : Children(i)' = IF i = p THEN Children(i) \cup {n} ELSE Children(i)
    BY <1>2 DEF Untouched, Same, Children
  <2> QED
    BY <1>2, <2>1, <2>2 DEF OpenChildren, Children, Open
<1>5. OpenChildren(n)' = {} /\ Open(n)'
  BY <1>1, <1>2 DEF OpenChildren, Children, Open, Untouched, Same
<1>6. OneOpenChild'
  <2>1. p # Nil => OpenChildren(p)' = {n}
    BY <1>3, <1>4
  <2> QED
    <3>1. ASSUME NEW i \in Ids', NEW c \in OpenChildren(i)', NEW d \in OpenChildren(i)'
          PROVE  c = d
      <4>1. CASE i = n
        BY <1>5, <3>1, <4>1
      <4>2. CASE i = p
        BY <1>1, <1>2, <2>1, <3>1, <4>2
      <4>3. CASE i \in Ids /\ i # p
        BY <1>4, <3>1, <4>3 DEF ActiveInv, OneOpenChild
      <4> QED
        BY <1>2, <4>1, <4>2, <4>3
    <3> QED
      BY <3>1 DEF OneOpenChild
<1>7. Ended' /\ Active' /\ (Linked => Linked')
  <2>1. ASSUME Linked, NEW i \in Ids', Open(i)', i # second'[calls'[i].TID]
        PROVE  \E c \in Ids' : OpenChildren(i)' = {c}
    <3>1. i \in Ids /\ Open(i)
      BY <1>2, <1>4, <2>1
    <3>2. CASE i = p
      <4>1. OpenChildren(i)' = {n}
        BY <1>3, <1>4, <3>1, <3>2, <1>1
      <4> QED
        BY <1>2, <4>1
    <3>3. CASE i # p
      <4>1. i # second[calls[i].TID]
        BY <1>0, <1>1, <1>2, <1>4, <2>1, <3>1, <3>3
      <4> QED
        BY <1>2, <1>4, <2>1, <3>1, <3>3, <4>1 DEF Linked
    <3> QED
      BY <3>2, <3>3
  <2>2. ASSUME NEW i \in Ids', ~Open(i)', ~IsRoot(i)'
        PROVE  OpenChildren(i)' = {}
    <3>1. i \in Ids /\ ~Open(i) /\ ~IsRoot(i)
      BY <1>2, <1>4, <1>5, <2>2
    <3> QED
      BY <1>1, <1>3, <1>4, <3>1 DEF ActiveInv, Ended, Active
  <2>3. ASSUME NEW u \in Threads, NEW s, s = second'[u], s # Nil
        PROVE  calls'[s].TID = u /\ (Open(s)' \/ IsRoot(s)') /\ OpenChildren(s)' = {}
    <3>1. CASE u = t
      BY <1>2, <1>5, <2>3, <3>1
    <3>2. CASE u # t
      <4>1. s = second[u] /\ s \in Ids /\ calls[s].TID = u
        BY <1>1, <1>2, <2>3, <3>2 DEF ActiveInv, Ended, Active
      <4>2. s # p
        BY <1>3, <2>3, <3>2, <4>1
      <4> QED
        BY <1>4, <2>3, <4>1, <4>2 DEF ActiveInv, Ended, Active
    <3> QED
      BY <3>1, <3>2
  <2>4. \A u \in Threads : second'[u] # Nil =>
          /\ calls'[second'[u]].TID = u
          /\ calls'[second'[u]].wallTimeLeave = 0 \/ calls'[second'[u]].prevFunction = Nil
          /\ {c \in {d \in Ids' : calls'[d].prevFunction = second'[u]} :
                calls'[c].wallTimeLeave = 0} = {}
    BY <2>3 DEF Open, IsRoot, OpenChildren, Children
  <2> QED
    BY <2>1, <2>2, <2>4 DEF Linked, Ended, Active, Open, IsRoot, OpenChildren, Children
<1> QED
  BY <1>6, <1>7 DEF ActiveInv

\* Nothing but a list of children may have changed.
LEMMA UnchangedIsUntouched ==
  ASSUME UNCHANGED calls
  PROVE  Ids' = Ids /\ \A i \in Ids : Untouched(i)
BY DEF Ids, Untouched, Same

LEMMA ClearedIsUntouched ==
  ASSUME TypeInv, ClearCalled
  PROVE  Ids' = Ids /\ (\A i \in Ids : Untouched(i)) /\ UNCHANGED <<first, second>>
BY ClearFacts DEF ClearCalled

\* An entry may be reset at any time; the chain stays when it held no open
\* call.
LEMMA ActiveLetsGo ==
  ASSUME TypeInv, ActiveInv, Ids' = Ids, \A i \in Ids : Untouched(i),
         \A t \in Threads : second'[t] = second[t] \/ second'[t] = Nil
  PROVE  /\ ActiveInv'
         /\ Linked /\ (\A t \in Threads : second'[t] = second[t] \/ second[t] = Nil
                                            \/ ~Open(second[t]))
            => Linked'
<1>1. /\ \A i \in Ids : i # Nil /\ calls[i].TID \in Threads
      /\ second \in [Threads -> {Nil} \cup Ids]
  BY CallFacts
<1>2. \A i \in Ids : /\ Open(i)' <=> Open(i)
                     /\ IsRoot(i)' <=> IsRoot(i)
                     /\ calls'[i].TID = calls[i].TID
                     /\ OpenChildren(i)' = OpenChildren(i)
  BY DEF Open, IsRoot, OpenChildren, Children, Untouched, Same
<1>3. OneOpenChild' /\ Ended'
  BY <1>2 DEF ActiveInv, OneOpenChild, Ended
<1>4. Active'
  <2> SUFFICES ASSUME NEW u \in Threads, NEW s, s = second'[u], s # Nil
               PROVE  calls'[s].TID = u /\ (Open(s)' \/ IsRoot(s)') /\ OpenChildren(s)' = {}
    <3>1. \A u \in Threads : second'[u] # Nil =>
            /\ calls'[second'[u]].TID = u
            /\ calls'[second'[u]].wallTimeLeave = 0 \/ calls'[second'[u]].prevFunction = Nil
            /\ {c \in {d \in Ids' : calls'[d].prevFunction = second'[u]} :
                  calls'[c].wallTimeLeave = 0} = {}
      BY DEF Open, IsRoot, OpenChildren, Children
    <3> QED
      BY <3>1 DEF Active, Open, IsRoot, OpenChildren, Children
  <2>1. s = second[u] /\ s \in Ids
    BY <1>1
  <2> QED
    BY <1>2, <2>1 DEF ActiveInv, Active
<1>5. ASSUME Linked,
             \A t \in Threads : second'[t] = second[t] \/ second[t] = Nil
                                 \/ ~Open(second[t])
      PROVE  Linked'
  <2>1. \A i \in Ids : Open(i) /\ i # second'[calls[i].TID] => i # second[calls[i].TID]
    BY <1>1, <1>5
  <2> QED
    BY <1>2, <1>5, <2>1 DEF Linked
<1> QED
  BY <1>3, <1>4, <1>5 DEF ActiveInv

\* The climb finds a finished active call only at the root, which it keeps.
LEMMA LiftedStays ==
  ASSUME TypeInv, ActiveInv, NEW t \in Threads, Lifted(t)
  PROVE  UNCHANGED <<calls, second>>
<1>1. second \in [Threads -> {Nil} \cup Ids] /\ second[t] \in Ids /\ second[t] # Nil
  BY CallFacts DEF Lifted
<1>2. IsRoot(second[t])
  BY <1>1 DEF Lifted, ActiveInv, Active
<1> QED
  BY <1>1, <1>2 DEF Lifted, Upward

LEMMA ActiveInvNext == TypeInv /\ ShapeInv /\ ActiveInv /\ [Next]_vars => ActiveInv'
<1> SUFFICES ASSUME TypeInv, ShapeInv, ActiveInv, [Next]_vars PROVE ActiveInv'
  OBVIOUS
<1>1. ASSUME UNCHANGED <<calls, second>> PROVE ActiveInv'
  BY <1>1, ActiveLetsGo, UnchangedIsUntouched
<1>2. ASSUME NEW t \in Threads, NEW f \in Functions, Grows(t, f) PROVE ActiveInv'
  BY <1>2, ActiveGrows DEF Grows
<1>3. ASSUME NEW t \in Threads, NEW time \in Nat \ {0}, Stamped(t, time) PROVE ActiveInv'
  BY <1>3, ActiveStamped
<1>4. ASSUME NEW t \in Threads, Lifted(t) PROVE ActiveInv'
  BY <1>1, <1>4, LiftedStays
<1>5. CASE LetsGo
  BY <1>5, ActiveLetsGo, UnchangedIsUntouched DEF LetsGo
<1>6. CASE ClearCalled
  BY <1>6, ActiveLetsGo, ClearedIsUntouched
<1> QED
  BY <1>1, <1>2, <1>3, <1>4, <1>5, <1>6, TreeCases

LEMMA ActiveInvariant == Spec => []ActiveInv
<1>1. Init => ActiveInv
  BY DEF Init, ActiveInv, Ended, Active, OneOpenChild, Ids
<1> QED
  BY <1>1, ActiveInvNext, TypeInvariant, ShapeInvariant, PTL DEF Spec

LEMMA LinkedNext ==
  ASSUME ~LateCallbacks, TypeInv, ShapeInv, PassedInv, ActiveInv, Linked, [Next]_vars
  PROVE  Linked'
<1>0. /\ second \in [Threads -> {Nil} \cup Ids]
      /\ \A i \in Ids : i # Nil
      /\ \A t \in known : t \in Threads /\ t \in Nat
      /\ cursor \in Nat
  <2>1. known \subseteq Threads /\ cursor \in Threads \cup {0}
    BY DEF TypeInv, TypeOK, ProfilerTypeOK, ShutdownTypeOK
  <2> QED
    BY <2>1, CallFacts, ThreadsAssumption
<1>1. ASSUME UNCHANGED <<calls, second>> PROVE Linked'
  BY <1>1, ActiveLetsGo, UnchangedIsUntouched
<1>2. ASSUME NEW t \in Threads, NEW f \in Functions, Grows(t, f)
      PROVE  Linked'
  BY <1>2, ActiveGrows DEF Grows
<1>3. ASSUME NEW t \in Threads, Stamps(t)
      PROVE  Linked'
  <2>1. Stamped(t, now) /\ now \in Nat \ {0}
    BY <1>3, TypeInvParts DEF Stamps, Stamped
  <2> QED
    BY <2>1, ActiveStamped
<1>4. CASE Climb
  <2>1. /\ cursor \in Threads /\ endTime \in Nat \ {0}
        /\ Stamped(cursor, endTime) \/ Lifted(cursor)
    BY <1>4, ClimbCases
  <2> QED
    BY <1>1, <2>1, ActiveStamped, LiftedStays
<1>5. CASE DetachRoot
  BY <1>0, <1>5, ActiveLetsGo, UnchangedIsUntouched
     DEF DetachRoot, At, PassedInv, AtRoot
\* Every entry is null by then.
<1>6. CASE ClearMaps
  <2>1. \A t \in Threads : second[t] = Nil
    <3> TAKE t \in Threads
    <3>1. t \in known => (t < cursor \/ t = cursor)
      BY <1>0, <1>6 DEF ClearMaps
    <3> QED
      BY <1>6, <3>1 DEF ClearMaps, PassedInv, At
  <2> QED
    BY <1>6, <2>1, ActiveLetsGo, UnchangedIsUntouched DEF ClearMaps
<1>7. CASE \/ ShutdownBegin \/ NextThread \/ SerializeRoot \/ SerializeChild
           \/ LoopEnds \/ SerializeReturn \/ DeleteRoot \/ ReleaseInfo \/ ClearGlobal
  BY <1>1, <1>7 DEF ShutdownBegin, NextThread, SerializeRoot, SerializeChild, Crash,
     LoopEnds, SerializeReturn, DeleteRoot, ReleaseInfo, ClearGlobal, profiler, tree
<1>8. CASE ClearCalled
  BY <1>8, ActiveLetsGo, ClearedIsUntouched
<1> QED
  BY <1>1, <1>2, <1>3, <1>4, <1>5, <1>6, <1>7, <1>8, StepCases
     DEF ShutdownStep, Idle, ObjectAllocated, tree, vars, profiler

LEMMA ChainInvariant == ~LateCallbacks => (Spec => []ChainInv)
<1> SUFFICES ASSUME ~LateCallbacks PROVE Spec => []ChainInv
  OBVIOUS
<1>1. Init => Linked
  BY DEF Init, Linked, Ids
<1>2. TypeInv /\ ShapeInv /\ PassedInv /\ ActiveInv /\ Linked /\ [Next]_vars => Linked'
  BY LinkedNext
<1> QED
  BY <1>1, <1>2, ChainParts, TypeInvariant, ShapeInvariant, PassedInvariant, ActiveInvariant,
     PTL DEF Spec

\* The open calls of a thread form one chain that ends in the active call,
\* which is where the next Enter adds a call and the next Leave closes one,
\* through every nesting of calls, exceptions and the climb of Shutdown
\* (CallTree!OpenCallsFormChain).
THEOREM OpenCallsAreAChain == ~LateCallbacks => (Spec => []OpenCallsFormChain)
<1>1. ChainInv => OpenCallsFormChain
  BY DEF ChainInv
<1> QED
  BY <1>1, ChainInvariant, PTL

LEMMA FrozenStep ==
  ASSUME TypeInv, ActiveInv, [Next]_vars, NEW i \in Ids, ~Open(i), ~IsRoot(i)
  PROVE  /\ calls'[i].wallTimeLeave = calls[i].wallTimeLeave
         /\ calls'[i].prevFunction = calls[i].prevFunction
<1>1. ASSUME NEW t \in Threads, NEW time \in Nat \ {0}, Stamped(t, time)
      PROVE  Untouched(i)
  <2>1. second[t] \in Ids /\ second[t] # Nil
    BY <1>1, CallFacts DEF Stamped
  <2>2. i # second[t]
    BY <2>1 DEF ActiveInv, Active
  <2> QED
    BY <1>1, <2>2, StampFacts, TypeInvParts DEF Stamped
<1>2. ASSUME NEW t \in Threads, NEW f \in Functions, Grows(t, f)
      PROVE  Untouched(i)
  BY <1>2, GrowthFacts DEF Grows
<1> QED
  BY <1>1, <1>2, TreeCases, ClearedIsUntouched DEF Untouched, Same, Lifted, LetsGo

\* No callback and no step of Shutdown stamps or moves a finished call below
\* the root, whatever the program does with exceptions and also when
\* callbacks run during Shutdown (CallTree!FinishedCallsFrozen).
THEOREM FinishedCallsStayFrozen == Spec => FinishedCallsFrozen
<1>1. TypeInv /\ ActiveInv /\ [Next]_vars =>
        [\A i \in Ids : ~Open(i) /\ ~IsRoot(i) =>
           /\ calls'[i].wallTimeLeave = calls[i].wallTimeLeave
           /\ calls'[i].prevFunction = calls[i].prevFunction]_vars
  BY FrozenStep
<1> QED
  BY <1>1, TypeInvariant, ActiveInvariant, PTL DEF Spec, FinishedCallsFrozen

-----------------------------------------------------------------------------
(* The times.                                                              *)

\* No time lies ahead, and the clock stands still while Shutdown runs.
PastInv ==
  /\ \A i \in Ids : calls[i].wallTimeEnter <= now /\ calls[i].wallTimeLeave <= now
  /\ pc # "running" => endTime = now

TimesInv == IntervalsNest /\ PastInv

\* IntervalsNest reads nothing but these fields.
LEMMA SameTimes ==
  ASSUME TypeInv, IntervalsNest, Ids' = Ids, \A i \in Ids : Untouched(i)
  PROVE  IntervalsNest'
<1>1. \A i \in Ids : calls[i].prevFunction \in {Nil} \cup Ids
  BY CallFacts
<1> QED
  BY <1>1 DEF IntervalsNest, Open, IsRoot, Untouched, Same

LEMMA TimesStamped ==
  ASSUME TypeInv, ChainInv, IntervalsNest, NEW t \in Threads, NEW time \in Nat \ {0},
         Stamped(t, time),
         \A i \in Ids : calls[i].wallTimeEnter <= time /\ calls[i].wallTimeLeave <= time
  PROVE  IntervalsNest'
<1>0. PICK a : a = second[t]
  OBVIOUS
<1>1. /\ a \in Ids /\ a # Nil /\ (Open(a) \/ IsRoot(a)) /\ OpenChildren(a) = {}
      /\ \A i \in Ids : calls[i].prevFunction \in {Nil} \cup Ids
  BY <1>0, CallFacts DEF Stamped, ChainInv, OpenCallsFormChain
<1>2. /\ Ids' = Ids /\ \A i \in Ids : Same(i) /\ (i # a => Untouched(i))
      /\ calls'[a].wallTimeLeave = time
  BY <1>0, StampFacts, TypeInvParts DEF Stamped
<1>3. ~Open(a)' /\ \A i \in Ids : /\ (i # a => (Open(i)' <=> Open(i)))
                                  /\ (IsRoot(i)' <=> IsRoot(i))
  BY <1>2 DEF Open, IsRoot, Untouched, Same
<1>4. ASSUME NEW i \in Ids, ~Open(i)'
      PROVE  calls'[i].wallTimeEnter <= calls'[i].wallTimeLeave
  BY <1>1, <1>2, <1>3, <1>4 DEF IntervalsNest, Same, Untouched
<1>5. ASSUME NEW i \in Ids, ~IsRoot(i)', NEW p, p = calls'[i].prevFunction
      PROVE  /\ calls'[p].wallTimeEnter <= calls'[i].wallTimeEnter
             /\ ~IsRoot(p)' /\ ~Open(p)' =>
                  ~Open(i)' /\ calls'[i].wallTimeLeave <= calls'[p].wallTimeLeave
  <2>1. p = calls[i].prevFunction /\ p \in Ids /\ ~IsRoot(i)
    BY <1>1, <1>2, <1>3, <1>5 DEF Same, IsRoot
  <2>2. calls'[p].wallTimeEnter <= calls'[i].wallTimeEnter
    BY <1>2, <2>1 DEF IntervalsNest, Same
  <2>3. ASSUME ~IsRoot(p)', ~Open(p)'
        PROVE  ~Open(i)' /\ calls'[i].wallTimeLeave <= calls'[p].wallTimeLeave
    \* The call just closed has no open child.
    <3>1. CASE p = a
      <4>1. ~Open(i)
        BY <1>1, <2>1, <3>1 DEF OpenChildren, Children
      <4>2. i # a
        BY <1>1, <1>3, <2>3, <3>1, <4>1
      <4> QED
        BY <1>2, <1>3, <3>1, <4>1, <4>2 DEF Untouched
    \* An open call that is closed had an open parent.
    <3>2. CASE p # a
      <4>1. ~IsRoot(p) /\ ~Open(p)
        BY <1>3, <2>1, <2>3, <3>2
      <4>2. ~Open(i) /\ calls[i].wallTimeLeave <= calls[p].wallTimeLeave
        BY <2>1, <4>1 DEF IntervalsNest
      <4>3. i # a
        BY <1>1, <2>1, <4>2
      <4> QED
        BY <1>2, <1>3, <2>1, <3>2, <4>2, <4>3 DEF Untouched
    <3> QED
      BY <3>1, <3>2
  <2> QED
    BY <2>2, <2>3
<1> QED
  BY <1>2, <1>4, <1>5 DEF IntervalsNest, Open, IsRoot

LEMMA TimesGrow ==
  ASSUME TypeInv, ShapeInv, ChainInv, TimesInv, NEW t \in Threads, NEW f \in Functions,
         EnterTree(t, f), now \in Nat \ {0}, UNCHANGED now
  PROVE  IntervalsNest'
<1>0. PICK p, n : p = second[t] /\ n = Len(calls) + 1
  OBVIOUS
<1>1. /\ p \in {Nil} \cup Ids
      /\ \A i \in Ids : /\ i # Nil /\ calls[i].prevFunction \in {Nil} \cup Ids
  BY <1>0, CallFacts
<1>2. /\ Ids' = Ids \cup {n} /\ n \notin Ids /\ n # Nil
      /\ calls'[n].prevFunction = p /\ calls'[n].wallTimeLeave = 0
      /\ calls'[n].wallTimeEnter = now
      /\ \A i \in Ids : Untouched(i)
  BY <1>0, <1>1, GrowthFacts DEF Nil
<1>3. p # Nil => p \in Ids /\ (Open(p) \/ IsRoot(p))
  BY <1>0, <1>1 DEF ChainInv, OpenCallsFormChain
<1>4. p # Nil => /\ calls'[p].wallTimeEnter <= now
                 /\ calls'[p].wallTimeLeave = 0 \/ calls'[p].prevFunction = Nil
  BY <1>2, <1>3 DEF TimesInv, PastInv, Untouched, Same, Open, IsRoot
<1> QED
  BY <1>1, <1>2, <1>4 DEF TimesInv, IntervalsNest, Open, IsRoot, Untouched, Same

LEMMA TimesInvNext ==
  ASSUME ~LateCallbacks, TypeInv, ShapeInv, ChainInv, TimesInv, [Next]_vars
  PROVE  TimesInv'
<1>0. /\ now \in Nat \ {0}
      /\ \A i \in Ids : /\ calls[i].wallTimeEnter \in Nat
                        /\ calls[i].wallTimeLeave \in Nat
  BY CallFacts, TypeInvParts
<1>1. ASSUME UNCHANGED calls, now' \in Nat, now <= now',
             pc' # "running" => endTime' = now'
      PROVE  TimesInv'
  <2>1. Ids' = Ids /\ \A i \in Ids : Untouched(i)
    BY <1>1 DEF Ids, Untouched, Same
  <2>2. IntervalsNest'
    BY <2>1, SameTimes DEF TimesInv
  <2>3. PastInv'
    BY <1>0, <1>1, <2>1 DEF TimesInv, PastInv
  <2> QED
    BY <2>2, <2>3 DEF TimesInv
<1>2. ASSUME NEW t \in Threads, NEW time \in Nat \ {0}, Stamped(t, time), time = now,
             UNCHANGED now, pc' # "running" => endTime' = now'
      PROVE  TimesInv'
  <2>1. IntervalsNest'
    BY <1>2, TimesStamped DEF TimesInv, PastInv
  <2>2. /\ Ids' = Ids /\ \A i \in Ids : Same(i) /\ (i # second[t] => Untouched(i))
        /\ calls'[second[t]].wallTimeLeave = time
    BY <1>2, StampFacts, TypeInvParts DEF Stamped
  <2>3. PastInv'
    BY <1>0, <1>2, <2>2 DEF TimesInv, PastInv, Same, Untouched
  <2> QED
    BY <2>1, <2>3 DEF TimesInv
<1>3. ASSUME NEW t \in Threads, NEW f \in Functions, Grows(t, f)
      PROVE  TimesInv'
  <2>1. UNCHANGED <<now, pc, endTime>> /\ EnterTree(t, f) /\ pc = "running"
    BY <1>3, CallbacksEnd DEF Grows, shutdown
  <2>2. IntervalsNest'
    BY <1>0, <2>1, TimesGrow
  <2>3. PastInv'
    <3>1. /\ Ids' = Ids \cup {Len(calls) + 1}
          /\ calls'[Len(calls) + 1].wallTimeLeave = 0
          /\ calls'[Len(calls) + 1].wallTimeEnter = now
          /\ \A i \in Ids : Untouched(i)
      BY <2>1, GrowthFacts
    <3> QED
      BY <1>0, <2>1, <3>1 DEF TimesInv, PastInv, Untouched, Same
  <2> QED
    BY <2>2, <2>3 DEF TimesInv
<1>4. CASE pc = "running" /\ Idle
  BY <1>0, <1>1, <1>4 DEF Idle, tree, shutdown
<1>5. CASE pc = "running" /\ \E t \in Threads : ObjectAllocated(t)
  BY <1>0, <1>1, <1>5 DEF ObjectAllocated, shutdown, runtime
<1>6. ASSUME pc = "running", NEW t \in Threads, Stamps(t)
      PROVE  TimesInv'
  <2>1. Stamped(t, now) /\ UNCHANGED <<now, pc, endTime>>
    BY <1>6 DEF Stamps, Stamped, shutdown
  <2> QED
    BY <1>0, <1>2, <1>6, <2>1
<1>7. CASE UNCHANGED vars
  BY <1>0, <1>1, <1>7 DEF vars, profiler, shutdown, runtime, TimesInv, PastInv
<1>8. CASE ShutdownBegin
  BY <1>0, <1>1, <1>8 DEF ShutdownBegin, profiler, runtime
<1>9. CASE Climb
  <2>1. pc = "climb" /\ UNCHANGED <<now, endTime>>
    BY <1>9 DEF Climb, At, runtime
  <2>2. endTime = now
    BY <2>1 DEF TimesInv, PastInv
  <2>3. /\ cursor \in Threads /\ endTime \in Nat \ {0}
        /\ IF LeaveTimeMissing(second[cursor]) THEN Stamped(cursor, endTime)
           ELSE Lifted(cursor)
    BY <1>9, ClimbCases
  <2>4. CASE LeaveTimeMissing(second[cursor])
    BY <1>2, <2>1, <2>2, <2>3, <2>4
  <2>5. CASE ~LeaveTimeMissing(second[cursor])
    BY <1>0, <1>1, <2>1, <2>2, <2>3, <2>5 DEF Lifted
  <2> QED
    BY <2>4, <2>5
<1>10. CASE \/ NextThread \/ SerializeRoot \/ SerializeChild \/ LoopEnds \/ SerializeReturn
            \/ DeleteRoot \/ DetachRoot \/ ClearMaps \/ ReleaseInfo \/ ClearGlobal
  <2>1. UNCHANGED <<calls, now, endTime>> /\ pc # "running"
    BY <1>10 DEF NextThread, SerializeRoot, SerializeChild, LoopEnds, SerializeReturn, Crash,
       DeleteRoot, DetachRoot, ClearMaps, ReleaseInfo, ClearGlobal, At, profiler, tree,
       runtime
  <2> QED
    BY <1>0, <1>1, <2>1 DEF TimesInv, PastInv
<1>11. CASE ClearCalled
  <2>1. Ids' = Ids /\ \A i \in Ids : Untouched(i)
    BY <1>11, ClearedIsUntouched
  <2>2. UNCHANGED <<now, endTime>> /\ pc # "running" /\ pc' # "running"
    BY <1>11 DEF ClearCalled, At, runtime
  <2>3. PastInv'
    BY <2>1, <2>2 DEF TimesInv, PastInv, Untouched, Same
  <2> QED
    BY <2>1, <2>3, SameTimes DEF TimesInv
<1> QED
  BY <1>3, <1>4, <1>5, <1>6, <1>7, <1>8, <1>9, <1>10, <1>11, StepCases DEF ShutdownStep

LEMMA TimesInvariant == ~LateCallbacks => (Spec => []TimesInv)
<1> SUFFICES ASSUME ~LateCallbacks PROVE Spec => []TimesInv
  OBVIOUS
<1>1. Init => TimesInv
  BY DEF Init, TimesInv, IntervalsNest, PastInv, Ids
<1>2. TypeInv /\ ShapeInv /\ ChainInv /\ TimesInv /\ [Next]_vars => TimesInv'
  BY TimesInvNext
<1> QED
  BY <1>1, <1>2, TypeInvariant, ShapeInvariant, ChainInvariant, PTL DEF Spec

\* A call lies within its parent in time, the root of a thread excepted,
\* whether Leave, an exception or the climb of Shutdown ended it
\* (CallTree!IntervalsNest).
THEOREM IntervalsAreNested == ~LateCallbacks => (Spec => []IntervalsNest)
<1>1. TimesInv => IntervalsNest
  BY DEF TimesInv
<1> QED
  BY <1>1, TimesInvariant, PTL
=============================================================================
