------------------------ MODULE CallTreeForestProofs ------------------------
(***************************************************************************)
(* What the tree of CallTree means to those outside it: it implements the  *)
(* forest of CallForest, its open calls are the stacks of the runtime, and *)
(* the visualisation finds a tree in the log.                              *)
(***************************************************************************)
EXTENDS CallTreeLogProofs, Visualisation

-----------------------------------------------------------------------------
(* The tree implements CallForest.                                         *)

threads == [i \in Ids |-> calls[i].TID]
parents == [i \in Ids |-> calls[i].prevFunction]
opened  == {i \in Ids : Open(i)}

LEMMA GreatestCall ==
  ASSUME TypeInv, NEW S, S \subseteq Ids, S # {}
  PROVE  \E x \in S : \A y \in S : y <= x
<1>0. PICK n : n = Len(calls)
  OBVIOUS
<1>1. n \in Nat /\ \A x \in S : x \in Nat /\ x <= n
  BY <1>0, CallFacts
<1> DEFINE D == {n - x : x \in S}
<1>2. D \subseteq Nat /\ D # {}
  BY <1>1
<1>3. PICK d \in D : \A e \in D : <<e, d>> \notin OpToRel(<, Nat)
  <2> HIDE DEF D
  <2> QED
    BY <1>2, NatLessThanWellFounded, WFMin, Zenon
<1>4. ASSUME NEW e \in D PROVE ~(e < d)
  <2> HIDE DEF D
  <2> QED
    BY <1>2, <1>3, Zenon DEF OpToRel
<1>5. PICK x \in S : d = n - x
  OBVIOUS
<1>6. ASSUME NEW y \in S PROVE y <= x
  <2>1. n - y \in D
    OBVIOUS
  <2>2. ~(n - y < n - x)
    BY <1>4, <1>5, <2>1
  <2> QED
    BY <1>1, <2>2
<1> QED
  BY <1>6

\* An open call of a thread is not above its active one, which is open then:
\* the youngest open call has no open child.
LEMMA ActiveIsTop ==
  ASSUME TypeInv, ShapeInv, ChainInv, NEW i \in Ids, Open(i), NEW t, calls[i].TID = t
  PROVE  second[t] \in Ids /\ Open(second[t]) /\ calls[second[t]].TID = t /\ i <= second[t]
<1> DEFINE S == {j \in Ids : Open(j) /\ calls[j].TID = t}
<1>1. PICK j \in S : \A k \in S : k <= j
  <2>1. S \subseteq Ids /\ S # {}
    OBVIOUS
  <2> HIDE DEF S
  <2> QED
    BY <2>1, GreatestCall
<1>2. j = second[t]
  <2>1. SUFFICES ASSUME j # second[t] PROVE FALSE
    OBVIOUS
  <2>2. PICK c \in Ids : OpenChildren(j) = {c}
    BY <2>1 DEF ChainInv, OpenCallsFormChain
  <2>3. c \in OpenChildren(j)
    BY <2>2
  <2>4. calls[c].prevFunction = j /\ Open(c) /\ ~IsRoot(c)
    BY <2>3, CallFacts DEF OpenChildren, Children, IsRoot
  <2>5. calls[c].TID = t /\ j < c
    BY <2>4 DEF ShapeInv, TreeWellFormed
  <2>6. c <= j
    BY <1>1, <2>4, <2>5
  <2> QED
    BY <2>5, <2>6, CallFacts
<1> QED
  BY <1>1, <1>2

\* A sequence that is longer by one element.
LEMMA IsAppend ==
  ASSUME NEW S, NEW s \in Seq(S), NEW e \in S, NEW r \in [1 .. (Len(s) + 1) -> S],
         \A i \in 1 .. Len(s) : r[i] = s[i], r[Len(s) + 1] = e
  PROVE  r = Append(s, e)
<1>1. r \in Seq(S) /\ Len(r) = Len(s) + 1
  OBVIOUS
<1>2. Append(s, e) \in Seq(S) /\ Len(Append(s, e)) = Len(s) + 1
      /\ \A i \in 1 .. (Len(s) + 1) : Append(s, e)[i] = IF i = Len(s) + 1 THEN e ELSE s[i]
  OBVIOUS
<1>3. \A i \in 1 .. Len(r) : r[i] = Append(s, e)[i]
  BY <1>1, <1>2
<1> QED
  BY <1>1, <1>2, <1>3, SeqEqual

LEMMA ForestGrows ==
  ASSUME TypeInv, ShapeInv, ChainInv, NEW t \in Threads, NEW f \in Functions, Grows(t, f)
  PROVE  Forest!OpenCall(t)
<1>0. PICK p, n : p = second[t] /\ n = Len(calls)
  OBVIOUS
<1>1. /\ Ids = 1 .. n /\ n \in Nat /\ p \in {Nil} \cup Ids /\ Nil = 0
      /\ \A i \in Ids : /\ calls[i].TID \in Threads
                        /\ calls[i].prevFunction \in {Nil} \cup Ids
  BY <1>0, CallFacts
<1>2. /\ Ids' = Ids \cup {n + 1} /\ n + 1 \notin Ids
      /\ calls'[n + 1].prevFunction = p /\ calls'[n + 1].TID = t
      /\ calls'[n + 1].wallTimeLeave = 0
      /\ \A i \in Ids : Untouched(i)
  BY <1>0, GrowthFacts DEF Grows
<1>3. Ids' = 1 .. (n + 1)
  BY <1>1, <1>2
<1>4. threads \in Seq(Threads) /\ parents \in Seq(Nat) /\ Len(threads) = n /\ Len(parents) = n
  BY <1>1 DEF threads, parents
<1>5. threads' = Append(threads, t)
  <2>1. PICK r, s : r = [i \in Ids' |-> calls'[i].TID] /\ s = [i \in Ids |-> calls[i].TID]
    OBVIOUS
  <2>2. s = threads /\ r = threads'
    BY <2>1 DEF threads
  <2>3. s \in Seq(Threads) /\ Len(s) = n /\ t \in Threads
    BY <1>1, <1>4, <2>2
  <2>4. r \in [1 .. (n + 1) -> Threads]
    BY <1>1, <1>2, <1>3, <2>1, <2>3 DEF Untouched, Same
  <2>5. (\A i \in 1 .. n : r[i] = s[i]) /\ r[n + 1] = t
    BY <1>1, <1>2, <1>3, <2>1 DEF Untouched, Same
  <2>6. r = Append(s, t)
    BY <2>3, <2>4, <2>5, IsAppend
  <2> QED
    BY <2>2, <2>6
<1>6. parents' = Append(parents, p)
  <2>1. PICK r, s : r = [i \in Ids' |-> calls'[i].prevFunction] /\ s = [i \in Ids |-> calls[i].prevFunction]
    OBVIOUS
  <2>2. s = parents /\ r = parents'
    BY <2>1 DEF parents
  <2>3. s \in Seq(Nat) /\ Len(s) = n /\ p \in Nat
    BY <1>1, <1>4, <2>2
  <2>4. r \in [1 .. (n + 1) -> Nat]
    BY <1>1, <1>2, <1>3, <2>1, <2>3 DEF Untouched, Same
  <2>5. (\A i \in 1 .. n : r[i] = s[i]) /\ r[n + 1] = p
    BY <1>1, <1>2, <1>3, <2>1 DEF Untouched, Same
  <2>6. r = Append(s, p)
    BY <2>3, <2>4, <2>5, IsAppend
  <2> QED
    BY <2>2, <2>6
<1>7. opened' = opened \cup {n + 1}
  BY <1>2 DEF opened, Open, Untouched
<1>8. \A i \in opened : threads[i] = t => p \in opened /\ threads[p] = t /\ i <= p
  BY <1>0, ActiveIsTop DEF opened, threads
<1>9. p # Nil /\ p \notin opened => p \in Ids /\ threads[p] = t /\ parents[p] = 0
  BY <1>0, <1>1 DEF ChainInv, OpenCallsFormChain, opened, threads, parents, IsRoot
<1>10. DOMAIN threads = Ids /\ p \in {0} \cup Ids
  BY <1>1 DEF threads
<1>11. IF {i \in opened : threads[i] = t} = {}
       THEN p \in {0} \cup {i \in DOMAIN threads : threads[i] = t /\ parents[i] = 0}
       ELSE /\ p \in {i \in opened : threads[i] = t}
            /\ \A j \in {i \in opened : threads[i] = t} : j <= p
  <2>1. CASE {i \in opened : threads[i] = t} = {}
    <3>1. p \notin opened \/ p = Nil
      BY <1>0, <1>1, <2>1 DEF ShapeInv, OwnCalls, threads, opened
    <3> QED
      BY <1>1, <1>9, <1>10, <2>1, <3>1
  <2>2. CASE {i \in opened : threads[i] = t} # {}
    BY <1>8, <2>2
  <2> QED
    BY <2>1, <2>2
<1> QED
  BY <1>4, <1>5, <1>6, <1>7, <1>10, <1>11
     DEF Forest!OpenCall, Forest!Mine, Forest!Roots, Forest!IsTop, threads, parents, opened

\* A stamp closes the call on top of its thread, or says again when a root
\* ended.
LEMMA ForestStamped ==
  ASSUME TypeInv, ShapeInv, ChainInv, NEW t \in Threads, NEW time \in Nat \ {0},
         Stamped(t, time)
  PROVE  Forest!CloseCall(t) \/ UNCHANGED <<threads, parents, opened>>
<1>0. PICK a : a = second[t]
  OBVIOUS
<1>1. /\ Ids' = Ids /\ \A i \in Ids : Same(i) /\ (i # a => Untouched(i))
      /\ calls'[a].wallTimeLeave = time /\ a \in Ids
  BY <1>0, StampFacts, TypeInvParts DEF Stamped
<1>2. UNCHANGED <<threads, parents>>
  BY <1>1 DEF threads, parents, Same
<1>3. opened' = opened \ {a}
  BY <1>1 DEF opened, Open, Untouched
<1>4. CASE a \in opened
  <2>1. \A i \in opened : threads[i] = t => i <= a
    BY <1>0, ActiveIsTop DEF opened, threads
  <2>2. threads[a] = t
    BY <1>0, <1>1, CallFacts DEF ShapeInv, OwnCalls, threads
  <2>3. /\ a \in {i \in opened : threads[i] = t}
        /\ \A j \in {i \in opened : threads[i] = t} : j <= a
    BY <1>4, <2>1, <2>2
  <2> QED
    BY <1>2, <1>3, <1>4, <2>3
       DEF Forest!CloseCall, Forest!Mine, Forest!IsTop, threads, parents, opened
<1>5. CASE a \notin opened
  BY <1>2, <1>3, <1>5
<1> QED
  BY <1>4, <1>5

LEMMA ForestStep ==
  ASSUME TypeInv, ShapeInv, ChainInv, [Next]_vars
  PROVE  [Forest!Next]_<<threads, parents, opened>>
<1>1. ASSUME UNCHANGED calls
      PROVE  UNCHANGED <<threads, parents, opened>>
  BY <1>1 DEF threads, parents, opened, Ids, Open
<1>2. ASSUME NEW t \in Threads, NEW f \in Functions, Grows(t, f)
      PROVE  Forest!Next
  BY <1>2, ForestGrows DEF Forest!Next
<1>3. ASSUME NEW t \in Threads, NEW time \in Nat \ {0}, Stamped(t, time)
      PROVE  Forest!Next \/ UNCHANGED <<threads, parents, opened>>
  BY <1>3, ForestStamped DEF Forest!Next
<1>4. CASE ClearCalled
  <2>1. Ids' = Ids /\ \A i \in Ids : Untouched(i)
    BY <1>4, ClearedIsUntouched
  <2> QED
    BY <2>1 DEF threads, parents, opened, Open, Untouched, Same
<1> QED
  BY <1>1, <1>2, <1>3, <1>4, TreeCases DEF Lifted, LetsGo

\* The objects, pointers and entries of CoreProfiler, with the climb, the walk
\* and the deletions of Shutdown, implement the forest of CallForest: a call
\* is filed under the one on top of its thread, and only that one is closed
\* (CallTree!ImplementsForest).
THEOREM TreeImplementsForest == ~LateCallbacks => (Spec => ImplementsForest)
<1> SUFFICES ASSUME ~LateCallbacks PROVE Spec => ImplementsForest
  OBVIOUS
<1>1. Init => Forest!Init
  <2> SUFFICES ASSUME Init PROVE Forest!Init
    OBVIOUS
  <2>1. Ids = {}
    BY DEF Init, Ids
  <2>2. threads = <<>> /\ parents = <<>> /\ opened = {}
    BY <2>1 DEF threads, parents, opened
  <2> QED
    BY <2>2 DEF Forest!Init, threads, parents, opened
<1>2. TypeInv /\ ShapeInv /\ ChainInv /\ [Next]_vars =>
        [Forest!Next]_<<[i \in Ids |-> calls[i].TID],
                        [i \in Ids |-> calls[i].prevFunction],
                        {i \in Ids : Open(i)}>>
  BY ForestStep DEF threads, parents, opened
<1> QED
  BY <1>1, <1>2, TypeInvariant, ShapeInvariant, ChainInvariant, PTL
     DEF Spec, ImplementsForest, Forest!Spec

-----------------------------------------------------------------------------
(* The open calls are the stacks of the runtime.                           *)

\* Without exceptions and until Shutdown: a function is hooked before it has
\* a frame, a frame has a call when its function is hooked, and the frames of
\* a thread hold its open calls, the younger ones further up.
Calm ==
  /\ info = TRUE /\ g_CoreProfiler = TRUE /\ freed = {}
  /\ \A t \in Threads : unwinding[t] = "no"
  /\ \A f \in Functions : m_functionMap[f] = IF f \in hooked THEN "info" ELSE "absent"
Framed ==
  \A t \in Threads : \A k \in DOMAIN stack[t] :
    /\ stack[t][k].call # Nil <=> stack[t][k].fn \in hooked
    /\ stack[t][k].fn \in Traced => stack[t][k].fn \in hooked
Rising ==
  \A t \in Threads : \A k, m \in TracedFrames(t) :
    k < m => stack[t][k].call < stack[t][m].call
Owned == \A t \in Threads : \A k \in TracedFrames(t) : calls[stack[t][k].call].TID = t
Mirrored ==
  \A i \in Ids :
    Open(i) <=> \E k \in TracedFrames(calls[i].TID) : stack[calls[i].TID][k].call = i
StackInv == pc = "running" => Calm /\ Framed /\ Rising /\ Owned /\ Mirrored

LEMMA StackFacts ==
  ASSUME TypeInv, NEW t \in Threads
  PROVE  /\ stack \in [Threads -> Seq(Frame(Ids))] /\ stack[t] \in Seq(Frame(Ids))
         /\ Len(stack[t]) \in Nat /\ DOMAIN stack[t] = 1 .. Len(stack[t])
         /\ \A k \in DOMAIN stack[t] : /\ stack[t][k].fn \in Functions
                                       /\ stack[t][k].call \in {Nil} \cup Ids
<1>1. stack \in [Threads -> Seq(Frame(Ids))]
  BY TypeInvParts
<1>2. stack[t] \in Seq(Frame(Ids))
  BY <1>1
<1>3. Len(stack[t]) \in Nat /\ DOMAIN stack[t] = 1 .. Len(stack[t])
      /\ \A k \in DOMAIN stack[t] : stack[t][k] \in Frame(Ids)
  BY <1>2
<1> QED
  BY <1>1, <1>2, <1>3 DEF Frame

\* A frame more.
LEMMA PushFrame ==
  ASSUME TypeInv, NEW t \in Threads, NEW fr,
         stack' = [stack EXCEPT ![t] = Append(@, fr)]
  PROVE  /\ DOMAIN stack'[t] = 1 .. (Len(stack[t]) + 1)
         /\ \A k \in DOMAIN stack[t] : stack'[t][k] = stack[t][k]
         /\ stack'[t][Len(stack[t]) + 1] = fr
         /\ \A u \in Threads : u # t => stack'[u] = stack[u]
<1>0. PICK s : s = stack[t]
  OBVIOUS
<1>1. s \in Seq(Frame(Ids)) /\ stack \in [Threads -> Seq(Frame(Ids))]
      /\ DOMAIN s = 1 .. Len(s)
  BY <1>0, StackFacts
<1>2. stack'[t] = Append(s, fr) /\ \A u \in Threads : u # t => stack'[u] = stack[u]
  BY <1>0, <1>1
<1>3. /\ DOMAIN Append(s, fr) = 1 .. (Len(s) + 1)
      /\ \A k \in 1 .. Len(s) : Append(s, fr)[k] = s[k]
      /\ Append(s, fr)[Len(s) + 1] = fr
  BY <1>1, PushFacts
<1>4. /\ DOMAIN stack'[t] = 1 .. (Len(s) + 1)
      /\ \A k \in DOMAIN s : stack'[t][k] = s[k]
      /\ stack'[t][Len(s) + 1] = fr
  BY ZenonT(30), <1>1, <1>2, <1>3
<1> QED
  BY <1>0, <1>2, <1>4

\* A frame less.
LEMMA PoppedFrame ==
  ASSUME TypeInv, NEW t \in Threads, stack[t] # <<>>, PopFrame(t)
  PROVE  /\ Len(stack[t]) \in DOMAIN stack[t]
         /\ DOMAIN stack'[t] = DOMAIN stack[t] \ {Len(stack[t])}
         /\ \A k \in DOMAIN stack'[t] : stack'[t][k] = stack[t][k]
         /\ \A u \in Threads : u # t => stack'[u] = stack[u]
<1>0. PICK s : s = stack[t]
  OBVIOUS
<1>1. s \in Seq(Frame(Ids)) /\ s # <<>> /\ stack \in [Threads -> Seq(Frame(Ids))]
  BY <1>0, StackFacts
<1>2. /\ stack'[t] = SubSeq(s, 1, Len(s) - 1)
      /\ \A u \in Threads : u # t => stack'[u] = stack[u]
  BY <1>0, <1>1 DEF PopFrame
<1>3. Len(s) \in Nat /\ Len(s) \in DOMAIN s /\ DOMAIN s = 1 .. Len(s)
  BY <1>1
<1>4. /\ DOMAIN SubSeq(s, 1, Len(s) - 1) = 1 .. (Len(s) - 1)
      /\ \A k \in 1 .. (Len(s) - 1) : SubSeq(s, 1, Len(s) - 1)[k] = s[k]
  BY <1>1, <1>3
<1>5. DOMAIN s \ {Len(s)} = 1 .. (Len(s) - 1)
  BY <1>3
<1> QED
  BY <1>0, <1>2, <1>3, <1>4, <1>5

\* Steps that leave the stacks and the open calls alone.
LEMMA StackKept ==
  ASSUME TypeInv, StackInv, pc' = "running" => pc = "running",
         pc = "running" => /\ Calm'
                           /\ UNCHANGED stack
                           /\ Ids' = Ids /\ \A i \in Ids : Untouched(i)
                           /\ \A t \in Threads : \A k \in DOMAIN stack[t] :
                                stack[t][k].fn \in hooked' <=> stack[t][k].fn \in hooked
  PROVE  StackInv'
<1> SUFFICES ASSUME pc' = "running" PROVE Calm' /\ Framed' /\ Rising' /\ Owned' /\ Mirrored'
  BY DEF StackInv
<1>1. pc = "running" /\ Framed /\ Rising /\ Owned /\ Mirrored
  BY DEF StackInv
<1>2. \A t \in Threads : TracedFrames(t)' = TracedFrames(t)
  BY <1>1 DEF TracedFrames
<1>3. Framed' /\ Rising'
  BY <1>1, <1>2 DEF Framed, Rising
<1>4. Owned'
  <2>1. \A t \in Threads : \A k \in TracedFrames(t) : stack[t][k].call \in Ids
    BY StackFacts DEF TracedFrames
  <2> QED
    BY <1>1, <1>2, <2>1 DEF Owned, Untouched, Same
<1>5. Mirrored'
  <2>1. \A i \in Ids : calls[i].TID \in Threads
    BY CallFacts
  <2> QED
    BY <1>1, <1>2, <2>1 DEF Mirrored, Open, Untouched, Same
<1> QED
  BY <1>1, <1>3, <1>4, <1>5

LEMMA StackCall ==
  ASSUME TypeInv, StackInv, NEW t \in Threads, NEW f \in Functions, Call(t, f),
         pc = "running"
  PROVE  StackInv'
<1>0. Calm /\ Framed /\ Rising /\ Owned /\ Mirrored
  BY DEF StackInv
<1>1. /\ UNCHANGED <<info, g_CoreProfiler, unwinding, hooked, pc>>
      /\ f \in Traced => f \in hooked
      /\ IF f \in hooked THEN Enter(t, f) ELSE UNCHANGED <<tree, freed, m_functionMap, fault>>
      /\ stack' = [stack EXCEPT ![t] = Append(@,
           [fn |-> f, call |-> IF calls' = calls THEN Nil ELSE Len(calls')])]
  BY <1>0 DEF Call, Calm, shutdown
<1>2. PICK fr, l : fr = [fn |-> f, call |-> IF calls' = calls THEN Nil ELSE Len(calls')]
                   /\ l = Len(stack[t])
  OBVIOUS
<1>3. /\ l \in Nat /\ DOMAIN stack[t] = 1 .. l /\ DOMAIN stack'[t] = 1 .. (l + 1)
      /\ \A k \in 1 .. l : stack'[t][k] = stack[t][k]
      /\ stack'[t][l + 1] = fr
      /\ \A u \in Threads : u # t => stack'[u] = stack[u]
  <2>0. stack' = [stack EXCEPT ![t] = Append(@, fr)]
    BY ONLY <1>1, <1>2
  <2>1. /\ DOMAIN stack'[t] = 1 .. (Len(stack[t]) + 1)
        /\ \A k \in DOMAIN stack[t] : stack'[t][k] = stack[t][k]
        /\ stack'[t][Len(stack[t]) + 1] = fr
        /\ \A u \in Threads : u # t => stack'[u] = stack[u]
    BY <2>0, PushFrame
  <2>2. Len(stack[t]) \in Nat /\ DOMAIN stack[t] = 1 .. Len(stack[t])
    BY StackFacts
  <2> QED
    BY ZenonT(30), <1>2, <2>1, <2>2
<1>4. fr.fn = f /\ fr.call = IF calls' = calls THEN Nil ELSE Len(calls')
  BY <1>2
<1>5. \A u \in Threads : \A k \in TracedFrames(u) : stack[u][k].call \in Ids /\ k \in Nat
  BY StackFacts DEF TracedFrames
<1>6. \A u \in Threads : u # t => TracedFrames(u)' = TracedFrames(u)
  BY <1>3 DEF TracedFrames
<1>7. \A i \in Ids : calls[i].TID \in Threads
  BY CallFacts
\* A function that is not traced.
<1>8. CASE f \notin hooked
  <2>1. UNCHANGED <<calls, freed, m_functionMap>> /\ fr.call = Nil /\ f \notin Traced
    BY <1>1, <1>4, <1>8 DEF tree
  <2>2. TracedFrames(t)' = TracedFrames(t)
    <3>1. \A k \in 1 .. (l + 1) : k \in 1 .. l \/ k = l + 1
      BY <1>3
    <3>2. \A k \in 1 .. l : k \in 1 .. (l + 1)
      BY <1>3
    <3> QED
      BY <1>3, <2>1, <3>1, <3>2 DEF TracedFrames
  <2>3. \A u \in Threads : \A k \in TracedFrames(u) : stack'[u][k] = stack[u][k]
    BY <1>3 DEF TracedFrames
  <2>4. Calm'
    BY <1>0, <1>1, <2>1 DEF Calm
  <2>5. Framed'
    <3>1. \A k \in 1 .. (l + 1) : k \in 1 .. l \/ k = l + 1
      BY <1>3
    <3> QED
      BY <1>0, <1>1, <1>3, <1>4, <1>8, <2>1, <3>1 DEF Framed
  <2>6. Rising'
    BY <1>0, <1>6, <2>2, <2>3 DEF Rising
  <2>7. Owned'
    BY <1>0, <1>6, <2>1, <2>2, <2>3 DEF Owned
  <2>8. Mirrored'
    BY <1>0, <1>6, <1>7, <2>1, <2>2, <2>3 DEF Mirrored, Ids, Open
  <2> QED
    BY <2>4, <2>5, <2>6, <2>7, <2>8 DEF StackInv
\* A traced function: the new call is that of the new frame.
<1>9. CASE f \in hooked
  <2>0. PICK n : n = Len(calls) + 1
    OBVIOUS
  <2>1. EnterTree(t, f)
    <3>1. m_functionMap[f] = "info" /\ info = TRUE /\ Pointer(t) # "freed"
      BY <1>0, <1>9 DEF Calm, Pointer
    <3> QED
      BY <1>1, <1>9, <3>1 DEF Enter
  <2>2. /\ Ids' = Ids \cup {n} /\ n \notin Ids /\ n # Nil /\ n \in Nat
        /\ \A i \in Ids : i < n /\ Untouched(i)
        /\ calls'[n].TID = t /\ calls'[n].wallTimeLeave = 0
    BY <2>0, <2>1, GrowthFacts DEF Nil
  <2>3. UNCHANGED <<freed, m_functionMap>>
    BY <2>1 DEF EnterTree
  <2>4. fr.call = n
    <3>1. Len(calls') = n /\ Len(calls) # n
      BY <2>0, <2>1, EnterTreeFacts, TypeInvParts, CallFacts
    <3> QED
      BY <1>4, <3>1
  <2>5. TracedFrames(t)' = TracedFrames(t) \cup {l + 1} /\ l + 1 \notin TracedFrames(t)
        /\ \A k \in TracedFrames(t) : k < l + 1
    <3>1. \A k : k \in 1 .. (l + 1) <=> k \in 1 .. l \/ k = l + 1
      BY <1>3
    <3>2. \A k \in 1 .. l : k < l + 1 /\ k # l + 1
      BY <1>3
    <3> QED
      BY <1>3, <2>2, <2>4, <3>1, <3>2 DEF TracedFrames
  <2>6. /\ \A u \in Threads : \A k \in TracedFrames(u) : stack'[u][k] = stack[u][k]
        /\ stack'[t][l + 1].call = n /\ l + 1 \in Nat
    BY <1>3, <2>4 DEF TracedFrames
  <2>7. Calm'
    BY <1>0, <1>1, <2>3 DEF Calm
  <2>8. Framed'
    <3>1. \A k \in 1 .. (l + 1) : k \in 1 .. l \/ k = l + 1
      BY <1>3
    <3> QED
      BY <1>0, <1>1, <1>3, <1>4, <1>9, <2>2, <2>4, <3>1 DEF Framed
  <2>9. Rising'
    <3>1. ASSUME NEW k \in TracedFrames(t)', NEW m \in TracedFrames(t)', k < m
          PROVE  stack'[t][k].call < stack'[t][m].call
      <4>1. k \in TracedFrames(t)
        BY <1>5, <2>5, <2>6, <3>1
      <4>2. CASE m \in TracedFrames(t)
        BY <1>0, <2>6, <3>1, <4>1, <4>2 DEF Rising
      <4>3. CASE m = l + 1
        BY <1>5, <2>2, <2>6, <4>1, <4>3
      <4> QED
        BY <2>5, <4>2, <4>3
    <3>2. \A u \in Threads : u # t => \A k, m \in TracedFrames(u)' :
            k < m => stack'[u][k].call < stack'[u][m].call
      BY <1>0, <1>6, <2>6 DEF Rising
    <3> QED
      BY <3>1, <3>2 DEF Rising
  <2>10. Owned'
    BY <1>0, <1>5, <1>6, <2>2, <2>5, <2>6 DEF Owned, Untouched, Same
  <2>11. Mirrored'
    <3>1. ASSUME NEW i \in Ids', NEW u, u = calls'[i].TID
          PROVE  Open(i)' <=> \E k \in TracedFrames(u)' : stack'[u][k].call = i
      <4>1. CASE i = n
        <5>1. u = t /\ ~(calls'[i].wallTimeLeave # 0)
          BY <2>2, <3>1, <4>1
        <5> QED
          BY <2>5, <2>6, <4>1, <5>1 DEF Open
      <4>2. CASE i \in Ids
        <5>1. /\ (Open(i)' <=> Open(i)) /\ calls[i].TID = u /\ u \in Threads /\ i # n
          BY <1>7, <2>2, <3>1, <4>2 DEF Open, Untouched, Same
        <5>2. Open(i) <=> \E k \in TracedFrames(u) : stack[u][k].call = i
          BY <1>0, <4>2, <5>1 DEF Mirrored
        <5>3. CASE u # t
          BY <1>6, <2>6, <5>1, <5>2, <5>3
        <5>4. CASE u = t
          BY <2>5, <2>6, <5>1, <5>2, <5>4
        <5> QED
          BY <5>3, <5>4
      <4> QED
        BY <2>2, <4>1, <4>2
    <3> QED
      BY <3>1 DEF Mirrored, Open, TracedFrames
  <2> QED
    BY <2>7, <2>8, <2>9, <2>10, <2>11 DEF StackInv
<1> QED
  BY <1>8, <1>9

LEMMA StackLeave ==
  ASSUME TypeInv, ShapeInv, PassedInv, ChainInv, StackInv, NEW t \in Threads,
         LeaveFrame(t), pc = "running"
  PROVE  StackInv'
<1>0. Calm /\ Framed /\ Rising /\ Owned /\ Mirrored
  BY DEF StackInv
<1>1. PICK l : l = Len(stack[t])
  OBVIOUS
<1>2. /\ UNCHANGED <<info, g_CoreProfiler, unwinding, hooked, pc>>
      /\ IF stack[t][l].fn \in hooked THEN Leave(t)
         ELSE UNCHANGED <<tree, freed, m_functionMap, fault>>
      /\ stack[t] # <<>> /\ PopFrame(t)
  BY <1>0, <1>1 DEF LeaveFrame, Top, Calm, shutdown
<1>3. /\ l \in DOMAIN stack[t] /\ DOMAIN stack'[t] = DOMAIN stack[t] \ {l}
      /\ \A k \in DOMAIN stack'[t] : stack'[t][k] = stack[t][k]
      /\ \A u \in Threads : u # t => stack'[u] = stack[u]
      /\ DOMAIN stack[t] = 1 .. l /\ l \in Nat
  BY <1>1, <1>2, PoppedFrame, StackFacts
<1>4. \A u \in Threads : \A k \in TracedFrames(u) : stack[u][k].call \in Ids /\ k \in Nat
  BY StackFacts DEF TracedFrames
<1>5. \A u \in Threads : u # t => TracedFrames(u)' = TracedFrames(u)
  BY <1>3 DEF TracedFrames
<1>6. \A i \in Ids : calls[i].TID \in Threads
  BY CallFacts
<1>7. TracedFrames(t)' = TracedFrames(t) \ {l}
  BY <1>3 DEF TracedFrames
<1>8. \A u \in Threads : \A k \in TracedFrames(u)' :
        k \in TracedFrames(u) /\ stack'[u][k] = stack[u][k]
  BY <1>3, <1>5, <1>7 DEF TracedFrames
<1>9. Framed'
  BY <1>0, <1>2, <1>3 DEF Framed
<1>10. Rising'
  BY <1>0, <1>8 DEF Rising
<1>11. ASSUME UNCHANGED <<freed, m_functionMap>>
       PROVE  Calm'
  BY <1>0, <1>2, <1>11 DEF Calm
\* A function that is not traced.
<1>12. CASE stack[t][l].fn \notin hooked
  <2>1. UNCHANGED <<calls, freed, m_functionMap>>
    BY <1>2, <1>12 DEF tree
  <2>2. TracedFrames(t)' = TracedFrames(t)
    BY <1>0, <1>3, <1>7, <1>12 DEF Framed, TracedFrames
  <2>3. Owned'
    BY <1>0, <1>5, <1>8, <2>1, <2>2 DEF Owned
  <2>4. Mirrored'
    BY <1>0, <1>5, <1>6, <1>8, <2>1, <2>2 DEF Mirrored, Ids, Open
  <2> QED
    BY <1>9, <1>10, <1>11, <2>1, <2>3, <2>4 DEF StackInv
\* A traced function: its call is the active one, and Leave closes it.
<1>13. CASE stack[t][l].fn \in hooked
  <2>0. PICK a : a = stack[t][l].call
    OBVIOUS
  <2>1. l \in TracedFrames(t) /\ a \in Ids /\ calls[a].TID = t /\ Open(a)
    <3>1. l \in TracedFrames(t)
      BY <1>0, <1>3, <1>13 DEF Framed, TracedFrames
    <3>2. a \in Ids /\ calls[a].TID = t
      BY <1>0, <1>4, <2>0, <3>1 DEF Owned
    <3> QED
      BY <1>0, <2>0, <3>1, <3>2 DEF Mirrored
  <2>2. second[t] = a
    <3>1. /\ second[t] \in Ids /\ Open(second[t]) /\ calls[second[t]].TID = t
          /\ a <= second[t]
      BY <2>1, ActiveIsTop
    <3>2. PICK m \in TracedFrames(t) : stack[t][m].call = second[t]
      BY <1>0, <3>1 DEF Mirrored
    <3>3. m \in 1 .. l
      BY <1>3, <3>2 DEF TracedFrames
    <3>4. m < l => second[t] < a
      BY <1>0, <2>0, <2>1, <3>2 DEF Rising
    <3>5. ~(m < l)
      BY <2>1, <3>1, <3>4, CallFacts
    <3>6. m = l
      BY <1>3, <3>3, <3>5
    <3> QED
      BY <2>0, <3>2, <3>6
  <2>3. StampActive(t, now) /\ UNCHANGED <<freed, m_functionMap, first>>
    <3>1. a # Nil
      BY <2>1, CallFacts
    <3>2. info = TRUE /\ HasEntry(t) /\ Pointer(t) = "none"
      BY <1>0, <2>2, <3>1 DEF Calm, PassedInv, HasEntry, Pointer
    <3> QED
      BY <1>2, <1>13, <3>2 DEF Leave
  <2>4. /\ Ids' = Ids /\ \A i \in Ids : Same(i) /\ (i # a => Untouched(i))
        /\ calls'[a].wallTimeLeave = now /\ now # 0
    BY <2>1, <2>2, <2>3, StampFacts, TypeInvParts
  <2>5. \A i \in Ids : Open(i)' <=> Open(i) /\ i # a
    BY <2>1, <2>4 DEF Open, Untouched
  <2>6. \A k \in TracedFrames(t) : k # l => stack[t][k].call # a
    <3> TAKE k \in TracedFrames(t)
    <3> HAVE k # l
    <3>1. k < l
      BY <1>3, <1>4 DEF TracedFrames
    <3>2. stack[t][k].call < a /\ stack[t][k].call \in Nat /\ a \in Nat
      BY <1>0, <1>4, <2>0, <2>1, <3>1, CallFacts DEF Rising
    <3> QED
      BY <3>2
  <2>7. Owned'
    BY <1>0, <1>4, <1>8, <2>4 DEF Owned, Same
  <2>8. Mirrored'
    <3>1. ASSUME NEW i \in Ids, NEW u, u = calls[i].TID
          PROVE  Open(i)' <=> \E k \in TracedFrames(u)' : stack'[u][k].call = i
      <4>1. u \in Threads /\ (Open(i) <=> \E k \in TracedFrames(u) : stack[u][k].call = i)
        BY <1>0, <1>6, <3>1 DEF Mirrored
      <4>2. CASE u # t
        <5>1. i # a
          BY <2>1, <3>1, <4>2
        <5> QED
          BY <1>5, <1>8, <2>5, <4>1, <4>2, <5>1
      <4>3. CASE u = t
        <5>1. CASE i = a
          BY <1>7, <1>8, <2>5, <2>6, <4>3, <5>1
        <5>2. CASE i # a
          BY <1>7, <1>8, <2>0, <2>5, <4>1, <4>3, <5>2
        <5> QED
          BY <5>1, <5>2
      <4> QED
        BY <4>2, <4>3
    <3>2. \A i \in Ids : calls'[i].TID = calls[i].TID
      BY <2>4 DEF Same
    <3> QED
      BY <2>4, <3>1, <3>2 DEF Mirrored, Open, TracedFrames
  <2> QED
    BY <1>9, <1>10, <1>11, <2>3, <2>7, <2>8 DEF StackInv
<1> QED
  BY <1>12, <1>13

LEMMA StackInvNext ==
  ASSUME ~Throws, TypeInv, ShapeInv, PassedInv, ChainInv, StackInv, [Next]_vars
  PROVE  StackInv'
<1>1. CASE pc # "running"
  BY <1>1, RunningEnds DEF StackInv
<1>2. CASE pc = "running"
  <2>0. Calm /\ Framed
    BY <1>2 DEF StackInv
  <2>1. ASSUME UNCHANGED calls PROVE Ids' = Ids /\ \A i \in Ids : Untouched(i)
    BY <2>1 DEF Ids, Untouched, Same
  <2>2. ASSUME NEW f \in Functions, Mapper(f) PROVE StackInv'
    <3>1. /\ hooked' = hooked \cup {f} /\ f \in Traced \ hooked
          /\ m_functionMap' = [m_functionMap EXCEPT ![f] = IF @ = "absent" THEN "info" ELSE @]
          /\ UNCHANGED <<calls, freed, info, g_CoreProfiler, stack, unwinding, pc>>
      BY <2>0, <2>2 DEF Mapper, Calm, tree, shutdown
    <3>2. m_functionMap \in [Functions -> {"absent", "null", "info"}]
      BY TypeInvParts DEF TreeTypeInv
    <3>3. Calm'
      BY <2>0, <3>1, <3>2 DEF Calm
    <3>4. \A t \in Threads : \A k \in DOMAIN stack[t] : stack[t][k].fn # f
      BY <2>0, <3>1 DEF Framed
    <3> QED
      BY <1>2, <2>1, <3>1, <3>3, <3>4, StackKept
  <2>3. ASSUME NEW t \in Threads, ObjectAllocated(t) PROVE StackInv'
    <3>1. UNCHANGED <<calls, freed, m_functionMap, info, g_CoreProfiler, stack, unwinding,
                      hooked, pc>>
      BY <2>3 DEF ObjectAllocated, shutdown, runtime
    <3>2. Calm'
      BY <2>0, <3>1 DEF Calm
    <3> QED
      BY <1>2, <2>1, <3>1, <3>2, StackKept
  <2>4. CASE Tick \/ UNCHANGED vars
    <3>1. UNCHANGED <<calls, freed, m_functionMap, info, g_CoreProfiler, stack, unwinding,
                      hooked, pc>>
      BY <2>4 DEF Tick, profiler, shutdown, runtime, vars
    <3>2. Calm'
      BY <2>0, <3>1 DEF Calm
    <3> QED
      BY <1>2, <2>1, <3>1, <3>2, StackKept
  <2>5. ASSUME NEW t \in Threads,
               \/ Throw(t) \/ ExceptionUnwindFunctionEnter(t)
               \/ ExceptionUnwindFunctionLeave(t) \/ Catch(t)
        PROVE  FALSE
    BY <2>0, <2>5 DEF Calm, Throw, ExceptionUnwindFunctionEnter,
       ExceptionUnwindFunctionLeave, Catch
  <2>6. CASE ShutdownBegin \/ ShutdownStep
    <3>1. pc' # "running"
      BY <1>2, <2>6 DEF ShutdownBegin, ShutdownStep, NextThread, Climb, SerializeRoot,
         SerializeChild, LoopEnds, ClearCalled, SerializeReturn, DeleteRoot, DetachRoot,
         ClearMaps, ReleaseInfo, ClearGlobal, At
    <3> QED
      BY <3>1 DEF StackInv
  <2> QED
    BY <1>2, <2>2, <2>3, <2>4, <2>5, <2>6, StackCall, StackLeave
       DEF Next, RuntimeStep, Return, TailCall
<1> QED
  BY <1>1, <1>2

LEMMA StackInvariant == ~Throws /\ ~LateCallbacks => (Spec => []StackInv)
<1> SUFFICES ASSUME ~Throws, ~LateCallbacks PROVE Spec => []StackInv
  OBVIOUS
<1>1. Init => StackInv
  BY DEF Init, StackInv, Calm, Framed, Rising, Owned, Mirrored, TracedFrames, Ids
<1>2. TypeInv /\ ShapeInv /\ PassedInv /\ ChainInv /\ StackInv /\ [Next]_vars => StackInv'
  BY StackInvNext
<1> QED
  BY <1>1, <1>2, TypeInvariant, ShapeInvariant, PassedInvariant, ChainInvariant, PTL DEF Spec

\* Without exceptions the profiler's picture of a running program is exact:
\* the open calls are the frames of traced functions, and the active call is
\* the innermost, however calls, returns and tail calls of the threads
\* interleave with the mapping of functions (CallTree!TreeMirrorsStacks).
THEOREM StacksAreMirrored == ~Throws /\ ~LateCallbacks => (Spec => []TreeMirrorsStacks)
<1> SUFFICES ASSUME ~Throws, ~LateCallbacks PROVE Spec => []TreeMirrorsStacks
  OBVIOUS
<1>1. TypeInv /\ ShapeInv /\ ChainInv /\ StackInv => TreeMirrorsStacks
  <2> SUFFICES ASSUME TypeInv, ShapeInv, ChainInv, StackInv, pc = "running"
               PROVE  TreeMirrorsStacks
    BY DEF TreeMirrorsStacks
  <2>0. Rising /\ Owned /\ Mirrored
    BY DEF StackInv
  <2>1. ASSUME NEW t \in Threads, NEW k \in TracedFrames(t),
               \A m \in TracedFrames(t) : m <= k
        PROVE  second[t] = stack[t][k].call
    <3>0. PICK a : a = stack[t][k].call
      OBVIOUS
    <3>1. a \in Ids /\ calls[a].TID = t /\ Open(a)
      BY <2>0, <3>0, StackFacts DEF Owned, Mirrored, TracedFrames
    <3>2. /\ second[t] \in Ids /\ Open(second[t]) /\ calls[second[t]].TID = t
          /\ a <= second[t]
      BY <3>1, ActiveIsTop
    <3>3. PICK m \in TracedFrames(t) : stack[t][m].call = second[t]
      BY <2>0, <3>2 DEF Mirrored
    <3>4. m < k => second[t] < a
      BY <2>0, <3>0, <3>3 DEF Rising
    <3>5. ~(m < k)
      BY <3>1, <3>2, <3>4, CallFacts
    <3>6. m = k
      BY <2>1, <3>3, <3>5, StackFacts DEF TracedFrames
    <3> QED
      BY <3>3, <3>6
  <2> QED
    BY <2>0, <2>1 DEF TreeMirrorsStacks, Mirrored
<1> QED
  BY <1>1, TypeInvariant, ShapeInvariant, ChainInvariant, StackInvariant, PTL

-----------------------------------------------------------------------------
(* The visualisation.                                                      *)

\* A call has a name, for its function was mapped; and a root is at depth 0.
NamedInv ==
  /\ \A f \in Functions : m_functionMap[f] = "info" => f \in hooked
  /\ \A i \in Ids : calls[i].funcId \in hooked
RootDepth == \A i \in Ids : IsRoot(i) => calls[i].depth = 0

LEMMA EnterNames ==
  ASSUME TypeInv, NEW t \in Threads, NEW f \in Functions, EnterTree(t, f)
  PROVE  /\ Ids' = Ids \cup {Len(calls) + 1}
         /\ calls'[Len(calls) + 1].funcId = f
         /\ \A i \in Ids : calls'[i].funcId = calls[i].funcId
<1>0. PICK p, n : p = second[t] /\ n = Len(calls) + 1
  OBVIOUS
<1>1. Ids' = Ids \cup {n} /\ calls'[n] = NewCall(t, f, p) /\ n \notin Ids
  BY <1>0, EnterTreeFacts, GrowthFacts, TypeInvParts
<1>2. /\ calls \in Seq(FunctionClass) /\ Ids = 1 .. Len(calls) /\ n = Len(calls) + 1
      /\ p \in {Nil} \cup Ids /\ Nil \notin Ids /\ Len(calls) \in Nat
  BY <1>0, CallFacts, TypeInvParts DEF TreeType
<1>3. PICK c : c = Adopted(p)
  OBVIOUS
<1>4. /\ c \in Seq(FunctionClass) /\ Len(c) = Len(calls)
      /\ \A i \in Ids : c[i].funcId = calls[i].funcId
  <2>1. CASE p = Nil
    BY <1>2, <1>3, <2>1 DEF Adopted
  <2>2. CASE p \in Ids
    <3>1. PICK d : d = [calls[p] EXCEPT !.calledFunctions = Append(@, n)]
      OBVIOUS
    <3>2. c = [calls EXCEPT ![p] = d]
      BY <1>2, <1>3, <2>2, <3>1 DEF Adopted
    <3>3. calls[p] \in FunctionClass
      BY <1>2, <2>2
    <3>4. d \in FunctionClass /\ d.funcId = calls[p].funcId
      <4>1. calls[p].calledFunctions \in Seq(Nat)
        BY ONLY <3>3 DEF FunctionClass
      <4>2. Append(calls[p].calledFunctions, n) \in Seq(Nat)
        <5>1. n \in Nat
          BY <1>2
        <5> QED
          BY ONLY <4>1, <5>1
      <4> QED
        BY <3>1, <3>3, <4>2 DEF FunctionClass
    <3> QED
      BY <1>2, <2>2, <3>2, <3>4
  <2> QED
    BY <1>2, <2>1, <2>2
<1>5. calls' = Append(c, NewCall(t, f, p))
  BY <1>0, <1>3 DEF EnterTree
<1>6. \A i \in 1 .. Len(c) : calls'[i] = c[i]
  BY <1>4, <1>5, PushFacts
<1>7. \A i \in Ids : calls'[i].funcId = calls[i].funcId
  BY <1>2, <1>4, <1>6
<1>8. calls'[n].funcId = f
  BY <1>1 DEF NewCall
<1> QED
  BY <1>0, <1>1, <1>7, <1>8

LEMMA StampNames ==
  ASSUME TypeInv, NEW t \in Threads, second[t] \in Ids, NEW time \in Nat \ {0},
         StampActive(t, time)
  PROVE  Ids' = Ids /\ \A i \in Ids : calls'[i].funcId = calls[i].funcId
<1>0. PICK a : a = second[t]
  OBVIOUS
<1>1. calls \in Seq(FunctionClass) /\ Ids = 1 .. Len(calls) /\ a \in Ids
  BY <1>0, CallFacts, TypeInvParts DEF TreeType
<1>2. PICK d : d = [calls[a] EXCEPT !.wallTimeLeave = time, !.cpuTimeLeave = CpuTime(time)]
  OBVIOUS
<1>3. calls' = [calls EXCEPT ![a] = d]
  BY <1>0, <1>1, <1>2 DEF StampActive
<1>4. d.funcId = calls[a].funcId
  <2>1. calls[a] \in FunctionClass
    BY <1>1
  <2> QED
    BY <1>2, <2>1 DEF FunctionClass
<1> QED
  BY <1>1, <1>3, <1>4 DEF Ids

LEMMA NamedInvNext == TypeInv /\ NamedInv /\ [Next]_vars => NamedInv'
<1> SUFFICES ASSUME TypeInv, NamedInv, [Next]_vars
             PROVE  NamedInv'
  OBVIOUS
<1>0. now \in Nat \ {0} /\ m_functionMap \in [Functions -> {"absent", "null", "info"}]
  BY TypeInvParts DEF TreeTypeInv
<1>1. ASSUME hooked \subseteq hooked', UNCHANGED <<calls, m_functionMap>>
      PROVE  NamedInv'
  BY <1>1 DEF NamedInv, Ids
<1>2. ASSUME NEW t \in Threads, NEW f \in Functions, Enter(t, f), UNCHANGED hooked
      PROVE  NamedInv'
  <2>1. CASE m_functionMap[f] # "info"
    BY <1>0, <1>2, <2>1 DEF Enter, NamedInv, tree, Ids
  <2>2. CASE m_functionMap[f] = "info" /\ EnterTree(t, f)
    <3>1. f \in hooked /\ UNCHANGED m_functionMap
      BY <2>2 DEF NamedInv, EnterTree
    <3> QED
      BY <1>2, <2>2, <3>1, EnterNames DEF NamedInv
  <2>3. CASE UNCHANGED <<calls, m_functionMap>>
    BY <1>1, <1>2, <2>3
  <2> QED
    BY <1>2, <2>1, <2>2, <2>3 DEF Enter, Crash, tree
<1>3. ASSUME Ids' = Ids, \A i \in Ids : calls'[i].funcId = calls[i].funcId,
             UNCHANGED <<hooked, m_functionMap>>
      PROVE  NamedInv'
  BY <1>3 DEF NamedInv
<1>4. ASSUME NEW t \in Threads, Leave(t), UNCHANGED hooked
      PROVE  NamedInv'
  <2>1. CASE UNCHANGED <<calls, m_functionMap>>
    BY <1>1, <1>4, <2>1
  <2>2. CASE second[t] \in Ids /\ StampActive(t, now) /\ UNCHANGED m_functionMap
    BY <1>0, <1>3, <1>4, <2>2, StampNames
  <2>3. second[t] \in {Nil} \cup Ids
    BY CallFacts
  <2> QED
    BY <1>4, <2>1, <2>2, <2>3 DEF Leave, Crash, Pointer, tree
<1>5. ASSUME NEW f \in Functions, Mapper(f) PROVE NamedInv'
  <2>1. /\ hooked' = hooked \cup {f} /\ UNCHANGED calls
        /\ \/ m_functionMap' = [m_functionMap EXCEPT ![f] = IF @ = "absent" THEN "info" ELSE @]
           \/ UNCHANGED m_functionMap
    BY <1>5 DEF Mapper, Crash, tree
  <2> QED
    BY <1>0, <2>1 DEF NamedInv, Ids
<1>6. ASSUME NEW t \in Threads, NEW f \in Functions, Call(t, f) PROVE NamedInv'
  BY <1>1, <1>2, <1>6 DEF Call, tree
<1>7. ASSUME NEW t \in Threads, LeaveFrame(t) PROVE NamedInv'
  BY <1>1, <1>4, <1>7 DEF LeaveFrame, tree
<1>8. ASSUME NEW t \in Threads, ExceptionUnwindFunctionEnter(t) PROVE NamedInv'
  <2>1. Top(t).fn \in Functions
    <3>1. stack[t] \in Seq(Frame(Ids)) /\ stack[t] # <<>>
      BY <1>8, StackFacts DEF ExceptionUnwindFunctionEnter
    <3>2. Top(t) \in Frame(Ids)
      BY <3>1, LastOf DEF Top
    <3> QED
      BY <3>2 DEF Frame
  <2> QED
    BY <1>1, <1>2, <1>8, <2>1 DEF ExceptionUnwindFunctionEnter, tree
<1>9. ASSUME NEW t \in Threads, ExceptionUnwindFunctionLeave(t) PROVE NamedInv'
  BY <1>4, <1>9 DEF ExceptionUnwindFunctionLeave
<1>10. ASSUME NEW t \in Threads, ObjectAllocated(t) \/ Throw(t) \/ Catch(t) PROVE NamedInv'
  BY <1>1, <1>10 DEF ObjectAllocated, Throw, Catch, profiler, runtime
<1>11. CASE Tick \/ UNCHANGED vars
  BY <1>1, <1>11 DEF Tick, vars, profiler, runtime
<1>12. CASE Climb
  <2>1. UNCHANGED <<m_functionMap, hooked>>
    BY <1>12 DEF Climb, runtime
  <2> QED
    BY <1>1, <1>3, <1>12, <2>1, ClimbCases, StampNames DEF Stamped, Lifted
<1>13. CASE ClearMaps
  <2>1. /\ m_functionMap' = [f \in Functions |-> "absent"] /\ UNCHANGED <<calls, hooked>>
    BY <1>13 DEF ClearMaps, runtime
  <2> QED
    BY <2>1 DEF NamedInv, Ids
<1>14. CASE \/ ShutdownBegin \/ NextThread \/ SerializeRoot \/ SerializeChild \/ LoopEnds
            \/ SerializeReturn \/ DeleteRoot \/ DetachRoot \/ ReleaseInfo \/ ClearGlobal
  <2>1. UNCHANGED <<calls, m_functionMap, hooked>>
    BY <1>14 DEF ShutdownBegin, NextThread, SerializeRoot, SerializeChild, Crash,
       LoopEnds, SerializeReturn, DeleteRoot, DetachRoot, ReleaseInfo, ClearGlobal, profiler, tree,
       runtime
  <2> QED
    BY <1>1, <2>1
<1>15. CASE ClearCalled
  <2>1. UNCHANGED <<m_functionMap, hooked>>
    BY <1>15 DEF ClearCalled, runtime
  <2>2. Ids' = Ids /\ \A i \in Ids : calls'[i].funcId = calls[i].funcId
    BY <1>15, ClearFacts
  <2> QED
    BY <2>1, <2>2 DEF NamedInv
<1> QED
  BY <1>5, <1>6, <1>7, <1>8, <1>9, <1>10, <1>11, <1>12, <1>13, <1>14, <1>15
     DEF Next, RuntimeStep, Return, TailCall, ShutdownStep

LEMMA RootDepthNext == TypeInv /\ RootDepth /\ [Next]_vars => RootDepth'
<1> SUFFICES ASSUME TypeInv, RootDepth, [Next]_vars
             PROVE  RootDepth'
  OBVIOUS
<1>1. ASSUME NEW t \in Threads, NEW f \in Functions, Grows(t, f)
      PROVE  RootDepth'
  BY <1>1, GrowthFacts DEF Grows, RootDepth, IsRoot, Untouched, Same, DepthUnder
<1>2. ASSUME Ids' = Ids, \A i \in Ids : Same(i)
      PROVE  RootDepth'
  BY <1>2 DEF RootDepth, IsRoot, Same
<1>3. ASSUME NEW t \in Threads, NEW time \in Nat \ {0}, Stamped(t, time)
      PROVE  RootDepth'
  BY <1>2, <1>3, StampFacts, TypeInvParts DEF Stamped
<1>4. UNCHANGED calls => RootDepth'
  BY DEF RootDepth, IsRoot, Ids
<1>5. CASE ClearCalled
  BY <1>2, <1>5, ClearedIsUntouched DEF Untouched
<1> QED
  BY <1>1, <1>3, <1>4, <1>5, TreeCases DEF Lifted, LetsGo

LEMMA NamedInvariant == Spec => [](NamedInv /\ RootDepth)
<1>1. Init => NamedInv /\ RootDepth
  BY DEF Init, NamedInv, RootDepth, Ids
<1> QED
  BY <1>1, TypeInvariant, NamedInvNext, RootDepthNext, PTL DEF Spec

\* What the last page of Shutdown has left: a row for every call, and the
\* rows of a thread differ in their order numbers.
LEMMA RowFacts ==
  ASSUME TypeInv, ShapeInv, CoverInv, Lines, NamedInv, pc = "done"
  PROVE  /\ functions_df = DOMAIN log /\ DOMAIN log = 1 .. Len(log) /\ Len(log) \in Nat
         /\ \A k \in DOMAIN log : log[k].call \in Ids /\ log[k] = Line(log[k].call)
         /\ \A i \in Ids : \E k \in DOMAIN log : log[k].call = i
<1>1. DOMAIN log = 1 .. Len(log) /\ Len(log) \in Nat /\ \A k \in DOMAIN log : log[k].call \in Ids
  BY WalkTypes
<1>2. Ids \subseteq Written
  BY DEF CoverInv, Covered, Over
<1>3. functions_df = DOMAIN log
  BY <1>1 DEF functions_df, NamedInv
<1> QED
  BY <1>1, <1>2, <1>3 DEF Written, Lines

LEMMA RowFields ==
  ASSUME TypeInv, Lines, NEW k \in DOMAIN log, NEW i \in Ids, log[k].call = i
  PROVE  /\ log[k].TID = calls[i].TID /\ log[k].depth = calls[i].depth
         /\ log[k].nOr = calls[i].callOrderNumber
         /\ log[k].nOr \in Nat
         /\ (log[k].rFn = -1 <=> IsRoot(i))
         /\ ~IsRoot(i) => log[k].rFn = calls[calls[i].prevFunction].callOrderNumber
<1>1. log[k] = Line(i)
  BY DEF Lines
<1>2. /\ log[k].TID = calls[i].TID /\ log[k].depth = calls[i].depth
      /\ log[k].nOr = calls[i].callOrderNumber /\ log[k].rFn = rFn(i)
  BY <1>1 DEF Line
<1>3. calls[i].callOrderNumber \in Nat
  BY CallFacts
<1>4. ~IsRoot(i) => calls[calls[i].prevFunction].callOrderNumber \in Nat
  BY CallFacts DEF IsRoot
<1> QED
  BY <1>2, <1>3, <1>4 DEF rFn

LEMMA RowOfOrder ==
  ASSUME TypeInv, Lines, WrittenOnce, OrdersUnique, NEW k \in DOMAIN log, NEW m \in DOMAIN log,
         log[k].call \in Ids, log[m].call \in Ids,
         log[k].TID = log[m].TID, log[k].nOr = log[m].nOr
  PROVE  k = m
<1>1. PICK i, j : i = log[k].call /\ j = log[m].call
  OBVIOUS
<1>2. /\ i \in Ids /\ j \in Ids /\ calls[i].TID = calls[j].TID
      /\ calls[i].callOrderNumber = calls[j].callOrderNumber
  BY <1>1, RowFields
<1>3. /\ Ids = 1 .. Len(calls) /\ Len(calls) \in Nat
      /\ calls[i].callOrderNumber \in Nat
  BY <1>2, CallFacts
<1>4. ~(i < j) /\ ~(j < i)
  BY <1>2, <1>3 DEF OrdersUnique
<1>5. i = j
  BY <1>2, <1>3, <1>4
<1> QED
  BY <1>1, <1>5 DEF WrittenOnce

\* The oldest call of a thread is its root.
LEMMA OldestIsRoot ==
  ASSUME TypeInv, ShapeInv, NEW i \in Ids
  PROVE  \E x \in Ids : IsRoot(x) /\ calls[x].TID = calls[i].TID
<1>1. PICK S : S = {j \in Ids : calls[j].TID = calls[i].TID}
  OBVIOUS
<1>2. S \subseteq Ids /\ S # {}
  BY <1>1
<1>3. PICK x \in S : \A y \in Ids : y < x => y \notin S
  BY <1>2, LeastCall
<1>4. ~IsRoot(x) => /\ calls[x].prevFunction \in Ids /\ calls[x].prevFunction < x
                    /\ calls[calls[x].prevFunction].TID = calls[x].TID
  BY <1>2, <1>3, CallFacts DEF IsRoot, ShapeInv, TreeWellFormed
<1>5. IsRoot(x)
  BY <1>1, <1>3, <1>4
<1> QED
  BY <1>1, <1>3, <1>5

\* The treemap of every thread, cut off at any depth, is a tree with one root
\* whose rows have unique ids, so plotly can draw it
\* (Visualisation!TreemapIsATree).
THEOREM TreemapsAreTrees == ~LateCallbacks => (Spec => []TreemapIsATree)
<1> SUFFICES ASSUME ~LateCallbacks PROVE Spec => []TreemapIsATree
  OBVIOUS
<1>1. /\ TypeInv /\ ShapeInv /\ RootsInv /\ CoverInv /\ Lines /\ WrittenOnce
      /\ OrdersUnique /\ NamedInv /\ RootDepth
      => TreemapIsATree
  <2> SUFFICES ASSUME TypeInv, ShapeInv, RootsInv, CoverInv, Lines, WrittenOnce,
                      OrdersUnique, NamedInv, RootDepth, pc = "done",
                      NEW t \in Threads, NEW max_depth \in 0 .. MaxCalls
               PROVE  LET rows  == TreemapRows(t, max_depth)
                          roots == {k \in rows : log[k].rFn = -1}
                      IN /\ \A k, m \in rows : log[k].nOr = log[m].nOr => k = m
                         /\ \A k \in rows \ roots : \E m \in rows :
                              log[m].nOr = log[k].rFn /\ log[m].depth < log[k].depth
                         /\ rows # {} => Cardinality(roots) = 1
    BY DEF TreemapIsATree
  <2> DEFINE rows  == TreemapRows(t, max_depth)
             roots == {k \in rows : log[k].rFn = -1}
  <2>1. /\ \A k : k \in rows <=> /\ k \in DOMAIN log /\ log[k].TID = t
                                /\ log[k].depth <= max_depth
        /\ \A k \in DOMAIN log : log[k].call \in Ids
        /\ \A i \in Ids : \E k \in DOMAIN log : log[k].call = i
    BY RowFacts DEF TreemapRows, functions_thread
  <2>2. ASSUME NEW k \in rows, NEW m \in rows, log[k].nOr = log[m].nOr
        PROVE  k = m
    BY <2>1, <2>2, RowOfOrder
  <2>3. ASSUME NEW k \in rows \ roots
        PROVE  \E m \in rows : log[m].nOr = log[k].rFn /\ log[m].depth < log[k].depth
    <3>1. PICK i \in Ids : i = log[k].call
      BY <2>1
    <3>2. ~IsRoot(i)
      BY <2>1, <2>3, <3>1, RowFields
    <3>3. PICK p \in Ids : p = calls[i].prevFunction
      BY <3>2, CallFacts DEF IsRoot
    <3>4. PICK m \in 1 .. k - 1 : log[m].call = p
      BY <2>1, <3>1, <3>2, <3>3 DEF Lines
    <3>5. m \in DOMAIN log
      BY <2>1, <3>4, RowFacts
    <3>6. calls[p].TID = calls[i].TID /\ calls[i].depth = calls[p].depth + 1
      BY <3>2, <3>3 DEF ShapeInv, TreeWellFormed
    <3>7. /\ log[k].TID = calls[i].TID /\ log[k].depth = calls[i].depth
          /\ log[k].rFn = calls[p].callOrderNumber
      BY <2>1, <3>1, <3>2, <3>3, RowFields
    <3>8. /\ log[m].TID = calls[p].TID /\ log[m].depth = calls[p].depth
          /\ log[m].nOr = calls[p].callOrderNumber
      BY <3>4, <3>5, RowFields
    <3>9. calls[p].depth \in Nat /\ max_depth \in Nat
      BY CallFacts
    <3>10. log[m].depth < log[k].depth /\ log[m].depth <= max_depth
      BY <2>1, <3>6, <3>7, <3>8, <3>9
    <3> QED
      BY <2>1, <3>5, <3>6, <3>7, <3>8, <3>10
  <2>4. ASSUME rows # {}
        PROVE  Cardinality(roots) = 1
    <3>1. PICK k \in rows : TRUE
      BY <2>4
    <3>2. PICK i \in Ids : i = log[k].call
      BY <2>1
    <3>3. PICK x \in Ids : IsRoot(x) /\ calls[x].TID = calls[i].TID
      BY <3>2, OldestIsRoot
    <3>4. PICK m \in DOMAIN log : log[m].call = x
      BY <2>1
    <3>5. calls[i].TID = t
      BY <2>1, <3>1, <3>2, RowFields
    <3>6. m \in roots
      <4>1. log[m].TID = t /\ log[m].depth = 0 /\ log[m].rFn = -1
        BY <3>3, <3>4, <3>5, RowFields DEF RootDepth
      <4>2. 0 <= max_depth
        OBVIOUS
      <4> QED
        BY <2>1, <4>1, <4>2
    <3>7. ASSUME NEW l \in roots PROVE l = m
      <4>1. PICK j \in Ids : j = log[l].call
        BY <2>1, <3>7
      <4>2. l \in DOMAIN log /\ log[l].TID = t /\ log[l].rFn = -1
        BY <2>1, <3>7
      <4>3. IsRoot(j) /\ calls[j].TID = t
        BY <4>1, <4>2, RowFields
      <4>4. j = x
        BY <3>3, <3>5, <4>3 DEF RootsInv, OneRoot
      <4> QED
        BY <3>4, <4>1, <4>2, <4>4 DEF WrittenOnce
    <3>8. roots = {m}
      BY <3>6, <3>7
    <3> QED
      BY <3>8, FS_Singleton
  <2> QED
    BY <2>2, <2>3, <2>4
<1> QED
  BY <1>1, TypeInvariant, ShapeInvariant, RootsInvariant, LogInvariant,
     NoCallIsWrittenTwice, OrdersAreUnique, NamedInvariant, PTL

\* The sums can be made once a traced call has allocated, and then every
\* object of a traced call is in the sum of exactly one call of its thread,
\* and any other in none (Visualisation!ObjectsAreCountedOnce).
THEOREM ObjectsCountOnce == ~LateCallbacks => (Spec => []ObjectsAreCountedOnce)
<1> SUFFICES ASSUME ~LateCallbacks PROVE Spec => []ObjectsAreCountedOnce
  OBVIOUS
<1>1. /\ TypeInv /\ ShapeInv /\ CoverInv /\ Lines /\ WrittenOnce
      /\ OrdersUnique /\ NamedInv /\ AllocationNamesACall
      => ObjectsAreCountedOnce
  <2> SUFFICES ASSUME TypeInv, ShapeInv, CoverInv, Lines, WrittenOnce, OrdersUnique,
                      NamedInv, AllocationNamesACall, pc = "done"
               PROVE  ObjectsAreCountedOnce
    BY DEF ObjectsAreCountedOnce
  \* The number an object of a traced call names is one a call bears.
  <2>1. ASSUME NEW a \in allocs, a.active # Nil
        PROVE  \E i \in Ids : /\ calls[i].TID = a.TID /\ calls[i].callOrderNumber = a.fnc
                             /\ a.fnc # -1
    <3>1. PICK i \in Ids : calls[i].TID = a.TID /\ calls[i].callOrderNumber = a.fnc
      BY <2>1 DEF AllocationNamesACall
    <3>2. calls[i].callOrderNumber \in Nat
      BY CallFacts
    <3> QED
      BY <3>1, <3>2
  <2>2. (\E a \in allocs : a.active # Nil) => fnc_column
    BY <2>1 DEF fnc_column
  <2>3. ASSUME fnc_column, NEW a \in allocs,
               NEW rows, rows = {k \in functions_thread(a.TID) : a \in Allocations(k)}
        PROVE  Cardinality(rows) = IF a.active = Nil THEN 0 ELSE 1
    <3>1. \A k : k \in rows <=> /\ k \in DOMAIN log /\ log[k].TID = a.TID
                               /\ a.fnc # -1 /\ a.fnc = log[k].nOr
      BY <2>3, RowFacts DEF functions_thread, Allocations, objects_df
    <3>2. CASE a.active = Nil
      <4>1. rows = {}
        BY <3>1, <3>2 DEF AllocationNamesACall
      <4> QED
        BY <3>2, <4>1, FS_EmptySet
    <3>3. CASE a.active # Nil
      <4>1. PICK i \in Ids : /\ calls[i].TID = a.TID /\ calls[i].callOrderNumber = a.fnc
                            /\ a.fnc # -1
        BY <2>1, <3>3
      <4>2. PICK k \in DOMAIN log : log[k].call = i
        BY RowFacts
      <4>3. k \in rows
        BY <3>1, <4>1, <4>2, RowFields
      <4>4. ASSUME NEW m \in rows PROVE m = k
        BY <3>1, <4>3, RowFacts, RowOfOrder
      <4>5. rows = {k}
        BY <4>3, <4>4
      <4> QED
        BY <3>3, <4>5, FS_Singleton
    <3> QED
      BY <3>2, <3>3
  <2> QED
    BY <2>2, <2>3 DEF ObjectsAreCountedOnce
<1> QED
  BY <1>1, TypeInvariant, ShapeInvariant, LogInvariant, NoCallIsWrittenTwice,
     OrdersAreUnique, AllocationsNameCalls, NamedInvariant, PTL
=============================================================================
