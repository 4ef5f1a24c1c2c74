--------------------------- MODULE CallTreeProofs ---------------------------
(***************************************************************************)
(* Proofs about CallTree, for every program, every number of threads and   *)
(* every bound.                                                            *)
(***************************************************************************)
EXTENDS CallTree, SequenceTheorems, TLAPS

\* What the callbacks change of the state that this module's invariants read.
Same(i) ==
  /\ calls'[i].prevFunction = calls[i].prevFunction
  /\ calls'[i].TID = calls[i].TID
  /\ calls'[i].depth = calls[i].depth
  /\ calls'[i].callOrderNumber = calls[i].callOrderNumber
  /\ calls'[i].wallTimeEnter = calls[i].wallTimeEnter

Untouched(i) ==
  /\ Same(i)
  /\ calls'[i].wallTimeLeave = calls[i].wallTimeLeave

PointersOK ==
  \A i \in Ids :
    /\ calls[i].prevFunction < i
    /\ \A k \in DOMAIN calls[i].calledFunctions :
         calls[i].calledFunctions[k] \in Ids

TreeType ==
  /\ calls \in Seq(FunctionClass)
  /\ known \subseteq Threads
  /\ first \in [Threads -> Nat]
  /\ second \in [Threads -> {Nil} \cup Ids]
  /\ now \in Nat \ {0}

\* While Shutdown is at a thread, that thread has an active call.
Walking == {"walk", "clearing", "returning"}
Phases  == {"climb", "serialize", "delete", "detach"} \cup Walking
PhaseOK == /\ pc \in Phases => cursor \in Threads /\ second[cursor] \in Ids
           /\ pc \in Walking => walk # <<>>
           /\ pc # "running" => endTime # 0

TypeInv == TypeOK /\ PointersOK /\ PhaseOK

-----------------------------------------------------------------------------
(* The two ways in which a callback changes the tree.                      *)

\* EnterTree appends the new call and changes of the old ones only the list
\* of the parent.
LEMMA EnterTreeFacts ==
  ASSUME TreeType, PointersOK, NEW t \in Threads, NEW f \in Functions,
         EnterTree(t, f)
  PROVE  /\ calls' \in Seq(FunctionClass)
         /\ Len(calls') = Len(calls) + 1
         /\ Ids' = Ids \cup {Len(calls) + 1}
         /\ calls'[Len(calls) + 1] = NewCall(t, f, second[t])
         /\ \A i \in Ids : Untouched(i)
         /\ \A i \in Ids : i # second[t] =>
              calls'[i].calledFunctions = calls[i].calledFunctions
         /\ second[t] \in Ids => calls'[second[t]].calledFunctions =
              Append(calls[second[t]].calledFunctions, Len(calls) + 1)
<1> DEFINE p == second[t]
           n == Len(calls) + 1
<1>1. /\ Len(calls) \in Nat /\ Ids = 1 .. Len(calls) /\ n \in Nat \ {0}
      /\ p \in {Nil} \cup Ids /\ first[t] \in Nat /\ now \in Nat
  BY DEF TreeType, Ids
<1>2. NewCall(t, f, p) \in FunctionClass
  <2>1. p \in Nat
    BY <1>1 DEF Nil
  <2>2. NextOrder(t, p) \in Nat
    BY <1>1 DEF NextOrder
  <2>3. DepthUnder(p) \in Nat
    <3>1. p # Nil => calls[p] \in FunctionClass
      BY <1>1 DEF TreeType, Ids
    <3> QED
      BY <3>1 DEF DepthUnder, FunctionClass, Nil
  <2> QED
    BY <2>1, <2>2, <2>3, <1>1 DEF NewCall, FunctionClass
<1>3. /\ Adopted(p) \in Seq(FunctionClass)
      /\ Len(Adopted(p)) = Len(calls)
      /\ \A i \in Ids :
           /\ Adopted(p)[i].prevFunction = calls[i].prevFunction
           /\ Adopted(p)[i].TID = calls[i].TID
           /\ Adopted(p)[i].depth = calls[i].depth
           /\ Adopted(p)[i].callOrderNumber = calls[i].callOrderNumber
           /\ Adopted(p)[i].wallTimeEnter = calls[i].wallTimeEnter
           /\ Adopted(p)[i].wallTimeLeave = calls[i].wallTimeLeave
           /\ i # p => Adopted(p)[i].calledFunctions = calls[i].calledFunctions
      /\ p \in Ids => Adopted(p)[p].calledFunctions =
                        Append(calls[p].calledFunctions, n)
  <2>1. CASE p = Nil
    BY <2>1, <1>1 DEF Adopted, TreeType, Ids, Nil
  <2>2. CASE p # Nil
    <3>1. p \in Ids /\ calls[p] \in FunctionClass
      BY <2>2, <1>1 DEF TreeType, Ids
    <3>5. Append(calls[p].calledFunctions, n) \in Seq(Nat)
      BY <3>1, <1>1 DEF FunctionClass
    <3>2. [calls[p] EXCEPT !.calledFunctions = Append(@, n)] \in FunctionClass
      BY <3>1, <3>5 DEF FunctionClass
    <3>3. Adopted(p) = [calls EXCEPT ![p] =
                         [calls[p] EXCEPT !.calledFunctions = Append(@, n)]]
      BY <2>2, <3>1 DEF Adopted
    <3>4. Adopted(p) \in Seq(FunctionClass) /\ Len(Adopted(p)) = Len(calls)
      BY <3>1, <3>2, <3>3, <1>1 DEF TreeType, Ids
    <3>6. \A i \in Ids : i # p => Adopted(p)[i] = calls[i]
      BY <3>3, <1>1 DEF TreeType, Ids
    <3>7. Adopted(p)[p] =
            [calls[p] EXCEPT !.calledFunctions = Append(@, n)]
      BY <3>1, <3>3 DEF TreeType, Ids
    <3> QED
      BY ZenonT(40), <3>1, <3>4, <3>6, <3>7 DEF FunctionClass
  <2> QED
    BY <2>1, <2>2
<1>4. calls' = Append(Adopted(p), NewCall(t, f, p))
  BY DEF EnterTree
<1> QED
  BY SMTT(30), <1>1, <1>2, <1>3, <1>4 DEF Ids, Untouched, Same
\* StampActive changes of the tree only the leave times of the active call.
LEMMA StampFacts ==
  ASSUME TreeType, PointersOK, NEW t \in Threads, second[t] \in Ids,
         NEW time \in Nat \ {0}, StampActive(t, time)
  PROVE  /\ calls' \in Seq(FunctionClass)
         /\ Len(calls') = Len(calls) /\ Ids' = Ids
         /\ \A i \in Ids : /\ Same(i)
                           /\ calls'[i].calledFunctions = calls[i].calledFunctions
                           /\ i # second[t] => Untouched(i)
         /\ calls'[second[t]].wallTimeLeave = time
         /\ Upward(second[t]) \in Ids
         /\ second' = [second EXCEPT ![t] = Upward(second[t])]
<1> DEFINE a == second[t]
           stamped == [calls[a] EXCEPT !.wallTimeLeave = time,
                                       !.cpuTimeLeave = CpuTime(time)]
<1>1. a \in Ids /\ Ids = 1 .. Len(calls) /\ Len(calls) \in Nat
      /\ calls[a] \in FunctionClass
  BY DEF TreeType, Ids
<1>2. stamped \in FunctionClass
  <2>1. CpuTime(time) \in Nat
    BY DEF CpuTime
  <2> QED
    BY <1>1, <2>1 DEF FunctionClass
<1>3. calls' = [calls EXCEPT ![a] = stamped]
  BY <1>1 DEF StampActive
<1>4. calls' \in Seq(FunctionClass) /\ Len(calls') = Len(calls) /\ Ids' = Ids
  BY <1>1, <1>2, <1>3 DEF TreeType, Ids
<1>5. calls'[a] = stamped /\ \A i \in Ids : i # a => calls'[i] = calls[i]
  BY <1>1, <1>3 DEF TreeType, Ids
<1>6. /\ stamped.prevFunction = calls[a].prevFunction
      /\ stamped.TID = calls[a].TID
      /\ stamped.depth = calls[a].depth
      /\ stamped.callOrderNumber = calls[a].callOrderNumber
      /\ stamped.wallTimeEnter = calls[a].wallTimeEnter
      /\ stamped.calledFunctions = calls[a].calledFunctions
      /\ stamped.wallTimeLeave = time
  BY <1>1 DEF FunctionClass
<1>7. Upward(a) \in Ids
  <2>1. calls[a].prevFunction \in Nat /\ calls[a].prevFunction < a
    BY <1>1 DEF PointersOK, FunctionClass
  <2> QED
    BY <1>1, <2>1 DEF Upward, IsRoot, Nil
<1>8. second' = [second EXCEPT ![t] = Upward(a)]
  BY DEF StampActive
<1> QED
  BY <1>4, <1>5, <1>6, <1>7, <1>8 DEF Same, Untouched
-----------------------------------------------------------------------------
(* Type correctness.                                                       *)

\* The part of TypeInv that the handlers touch.
TreeTypeInv ==
  /\ TreeType /\ PointersOK
  /\ freed \subseteq Ids
  /\ m_functionMap \in [Functions -> {"absent", "null", "info"}]
  /\ fault \in {"none", "null", "freed", "info"}

\* What a handler guarantees: the types, that no object or active call gets
\* lost, and that every list of children names objects.
Guarantee ==
  /\ calls' \in Seq(FunctionClass)
  /\ Ids \subseteq Ids' /\ (calls' # calls => Len(calls') \in Ids')
  /\ PointersOK'
  /\ known' \subseteq Threads /\ first' \in [Threads -> Nat]
  /\ second' \in [Threads -> {Nil} \cup Ids']
  /\ \A u \in Threads : second[u] \in Ids => second'[u] \in Ids'
  /\ freed' \subseteq Ids'
  /\ m_functionMap' \in [Functions -> {"absent", "null", "info"}]
  /\ fault' \in {"none", "null", "freed", "info"}

LEMMA IdleGuarantee ==
  ASSUME TreeTypeInv, UNCHANGED <<tree, freed>>,
         m_functionMap' \in [Functions -> {"absent", "null", "info"}],
         fault' \in {"none", "null", "freed", "info"}
  PROVE  Guarantee
BY DEF TreeTypeInv, TreeType, PointersOK, Guarantee, tree, Ids

LEMMA EnterTreeGuarantee ==
  ASSUME TreeTypeInv, NEW t \in Threads, NEW f \in Functions, EnterTree(t, f)
  PROVE  Guarantee
<1> DEFINE p == second[t]
           n == Len(calls) + 1
<1>1. /\ Ids = 1 .. Len(calls) /\ Len(calls) \in Nat /\ p \in {Nil} \cup Ids
      /\ Ids' = 1 .. n /\ n \in Nat \ {0} /\ Nil = 0
  BY EnterTreeFacts DEF TreeTypeInv, TreeType, Ids, Nil
<1>2. /\ calls' \in Seq(FunctionClass) /\ Len(calls') = n
      /\ calls'[n] = NewCall(t, f, p)
      /\ \A i \in Ids : Untouched(i)
      /\ \A i \in Ids : i # p => calls'[i].calledFunctions = calls[i].calledFunctions
      /\ p \in Ids => calls'[p].calledFunctions = Append(calls[p].calledFunctions, n)
  BY EnterTreeFacts DEF TreeTypeInv
<1>3. PointersOK'
  <2> SUFFICES ASSUME NEW i \in Ids'
               PROVE  /\ calls'[i].prevFunction < i
                      /\ \A k \in DOMAIN calls'[i].calledFunctions :
                           calls'[i].calledFunctions[k] \in Ids'
    BY DEF PointersOK
  <2>1. CASE i = n
    <3>1. calls'[i].prevFunction = p /\ calls'[i].calledFunctions = <<>>
      BY <1>2, <2>1 DEF NewCall
    <3> QED
      BY <1>1, <2>1, <3>1
  <2>2. CASE i \in Ids /\ i # p
    BY <1>1, <1>2, <2>2 DEF PointersOK, Untouched, Same, TreeTypeInv
  <2>3. CASE i \in Ids /\ i = p
    <3>1. calls[i].calledFunctions \in Seq(Nat)
      <4>1. calls[i] \in FunctionClass
        BY <2>3 DEF TreeTypeInv, TreeType, Ids
      <4> QED
        BY <4>1 DEF FunctionClass
    <3>2. calls'[i].calledFunctions = Append(calls[i].calledFunctions, n)
      BY <1>2, <2>3
    <3>3. \A k \in DOMAIN calls[i].calledFunctions :
            calls[i].calledFunctions[k] \in Ids
      BY <2>3 DEF PointersOK, TreeTypeInv
    <3>4. calls'[i].prevFunction < i
      BY <1>2, <2>3 DEF PointersOK, Untouched, Same, TreeTypeInv
    <3>5. \A k \in DOMAIN Append(calls[i].calledFunctions, n) :
            \/ k \in DOMAIN calls[i].calledFunctions
                 /\ Append(calls[i].calledFunctions, n)[k] = calls[i].calledFunctions[k]
            \/ Append(calls[i].calledFunctions, n)[k] = n
      BY <3>1, <1>1
    <3> QED
      BY <3>2, <3>3, <3>4, <3>5, <1>1
  <2> QED
    BY <1>1, <2>1, <2>2, <2>3
<1>4. known' \subseteq Threads /\ first' \in [Threads -> Nat]
  <2>1. NextOrder(t, p) \in Nat
    BY DEF NextOrder, TreeTypeInv, TreeType
  <2> QED
    BY <2>1 DEF EnterTree, TreeTypeInv, TreeType
<1>5. second' \in [Threads -> {Nil} \cup Ids']
      /\ \A u \in Threads : second[u] \in Ids => second'[u] \in Ids'
  BY <1>1 DEF EnterTree, TreeTypeInv, TreeType
<1>6. /\ freed' \subseteq Ids'
      /\ m_functionMap' \in [Functions -> {"absent", "null", "info"}]
      /\ fault' \in {"none", "null", "freed", "info"}
  BY <1>1 DEF EnterTree, TreeTypeInv
<1> QED
  BY <1>1, <1>2, <1>3, <1>4, <1>5, <1>6 DEF Guarantee

LEMMA StampGuarantee ==
  ASSUME TreeTypeInv, NEW t \in Threads, second[t] \in Ids,
         NEW time \in Nat \ {0}, StampActive(t, time),
         UNCHANGED <<freed, m_functionMap, known, first, fault>>
  PROVE  Guarantee
<1>0. /\ Ids' = Ids /\ Upward(second[t]) \in Ids
      /\ second' = [second EXCEPT ![t] = Upward(second[t])]
  BY StampFacts DEF TreeTypeInv
<1>1. PointersOK'
  BY StampFacts DEF PointersOK, Same, TreeTypeInv
<1>2. /\ second' \in [Threads -> {Nil} \cup Ids']
      /\ \A u \in Threads : second[u] \in Ids => second'[u] \in Ids'
  BY <1>0 DEF TreeTypeInv, TreeType
<1>3. /\ calls' \in Seq(FunctionClass) /\ Len(calls') \in Ids' /\ Ids' = Ids
  <2>1. calls' \in Seq(FunctionClass) /\ Len(calls') = Len(calls) /\ Ids' = Ids
    BY StampFacts DEF TreeTypeInv
  <2> QED
    BY <2>1 DEF TreeTypeInv, TreeType, Ids
<1> QED
  BY <1>1, <1>2, <1>3 DEF Guarantee, TreeTypeInv, TreeType

LEMMA CrashGuarantee ==
  ASSUME TreeTypeInv, NEW how \in {"null", "freed", "info"}, Crash(how)
  PROVE  Guarantee
BY IdleGuarantee DEF Crash, TreeTypeInv

LEMMA EnterGuarantee ==
  ASSUME TreeTypeInv, NEW t \in Threads, NEW f \in Functions, Enter(t, f)
  PROVE  Guarantee
<1>1. CASE m_functionMap[f] # "info"
  BY <1>1, IdleGuarantee DEF Enter, TreeTypeInv
<1>2. CASE m_functionMap[f] = "info" /\ ~info
  BY <1>2, CrashGuarantee DEF Enter
<1>3. CASE m_functionMap[f] = "info" /\ info /\ Pointer(t) = "freed"
  BY <1>3, CrashGuarantee DEF Enter
<1>4. CASE m_functionMap[f] = "info" /\ info /\ Pointer(t) # "freed"
  BY <1>4, EnterTreeGuarantee DEF Enter
<1> QED
  BY <1>1, <1>2, <1>3, <1>4

LEMMA LeaveGuarantee ==
  ASSUME TreeTypeInv, NEW t \in Threads, Leave(t)
  PROVE  Guarantee
<1>1. CASE ~info
  BY <1>1, CrashGuarantee DEF Leave
<1>2. CASE info /\ ~HasEntry(t)
  BY <1>2, IdleGuarantee DEF Leave, TreeTypeInv
<1>3. CASE info /\ HasEntry(t) /\ Pointer(t) # "none"
  <2>1. Pointer(t) \in {"null", "freed"}
    BY <1>3 DEF Pointer
  <2> QED
    BY <1>3, <2>1, CrashGuarantee DEF Leave
<1>4. CASE info /\ HasEntry(t) /\ Pointer(t) = "none"
  <2>1. second[t] \in Ids
    BY <1>4 DEF Pointer, TreeTypeInv, TreeType
  <2> QED
    BY <1>4, <2>1, StampGuarantee DEF Leave, TreeTypeInv, TreeType
<1> QED
  BY <1>1, <1>2, <1>3, <1>4
LEMMA SeqSubset ==
  ASSUME NEW S, NEW T, S \subseteq T, NEW s \in Seq(S)
  PROVE  s \in Seq(T)
OBVIOUS

LEMMA LastOf ==
  ASSUME NEW S, NEW s \in Seq(S), s # <<>>
  PROVE  Len(s) \in Nat \ {0} /\ Len(s) \in DOMAIN s /\ s[Len(s)] \in S
OBVIOUS

LEMMA PushType ==
  ASSUME NEW S, NEW s \in Seq(S), NEW e \in S
  PROVE  Append(s, e) \in Seq(S) /\ Append(s, e) # <<>>
BY AppendProperties

LEMMA PrefixType ==
  ASSUME NEW S, NEW s, NEW n \in Int, \A i \in 1 .. n : s[i] \in S
  PROVE  /\ SubSeq(s, 1, n) \in Seq(S)
         /\ Len(SubSeq(s, 1, n)) = IF 1 <= n THEN n ELSE 0
BY SubSeqProperties

LEMMA PopSeqType ==
  ASSUME NEW S, NEW s \in Seq(S), s # <<>>
  PROVE  /\ SubSeq(s, 1, Len(s) - 1) \in Seq(S)
         /\ Len(s) # 1 => SubSeq(s, 1, Len(s) - 1) # <<>>
<1> DEFINE n == Len(s) - 1
<1>1. n \in Nat /\ (Len(s) # 1 => n # 0)
  BY EmptySeq
<1>2. \A i \in 1 .. n : s[i] \in S
  <2> TAKE i \in 1 .. n
  <2>1. i \in 1 .. Len(s)
    BY <1>1
  <2> QED
    BY <2>1, ElementOfSeq
<1> HIDE DEF n
<1>3. SubSeq(s, 1, n) \in Seq(S)
  BY <1>1, <1>2, PrefixType
<1>4. Len(s) # 1 => Len(SubSeq(s, 1, n)) # 0
  BY <1>1, <1>2, PrefixType
<1>5. Len(s) # 1 => SubSeq(s, 1, n) # <<>>
  BY <1>4, EmptySeq, Zenon
<1> QED
  BY <1>3, <1>5 DEF n

Frame(ids) == [fn : Functions, call : {Nil} \cup ids]
Activation == [call : Ids, next : Nat \ {0}]

LEMMA AdvanceType ==
  ASSUME NEW w \in Activation
  PROVE  [w EXCEPT !.next = @ + 1] \in Activation /\ w.call \in Ids
BY DEF Activation

\* Objects are never removed from calls, so the log and the walk stay typed.
LEMMA LogGrowth ==
  ASSUME TypeInv, Ids \subseteq Ids', UNCHANGED <<walk, log>>
  PROVE  /\ walk' \in Seq([call : Ids', next : Nat \ {0}])
         /\ log' \in Seq([call : Ids', TID : Threads, depth : Nat, eWALLt : Nat,
                          lWALLt : Nat, rFn : Nat \cup {-1}, nOr : Nat])
<1>1. walk' \in Seq([call : Ids', next : Nat \ {0}])
  <2>1. walk \in Seq([call : Ids, next : Nat \ {0}])
    BY DEF TypeInv, TypeOK, ShutdownTypeOK
  <2>2. [call : Ids, next : Nat \ {0}] \subseteq [call : Ids', next : Nat \ {0}]
    OBVIOUS
  <2> QED
    BY <2>1, <2>2, SeqSubset
<1>2. log' \in Seq([call : Ids', TID : Threads, depth : Nat, eWALLt : Nat,
                    lWALLt : Nat, rFn : Nat \cup {-1}, nOr : Nat])
  <2>1. log \in Seq([call : Ids, TID : Threads, depth : Nat, eWALLt : Nat,
                     lWALLt : Nat, rFn : Nat \cup {-1}, nOr : Nat])
    BY DEF TypeInv, TypeOK, ShutdownTypeOK
  <2>2. [call : Ids, TID : Threads, depth : Nat, eWALLt : Nat,
         lWALLt : Nat, rFn : Nat \cup {-1}, nOr : Nat] \subseteq
        [call : Ids', TID : Threads, depth : Nat, eWALLt : Nat,
         lWALLt : Nat, rFn : Nat \cup {-1}, nOr : Nat]
    OBVIOUS
  <2> QED
    BY <2>1, <2>2, SeqSubset
<1> QED
  BY <1>1, <1>2

\* A handler, run in a step that leaves Shutdown alone, keeps the types.
LEMMA HandlerStep ==
  ASSUME TypeInv, Guarantee, UNCHANGED <<info, g_CoreProfiler, allocs, shutdown>>,
         stack' \in [Threads -> Seq(Frame(Ids'))],
         unwinding' \in [Threads -> {"no", "frame", "entered"}],
         hooked' \subseteq Traced, now' \in Nat \ {0}
  PROVE  TypeInv'
<1>1. ProfilerTypeOK'
  <2>1. allocs' \subseteq [TID : Threads, active : {Nil} \cup Ids', fnc : Nat \cup {-1}]
    BY DEF TypeInv, TypeOK, ProfilerTypeOK, Guarantee
  <2> QED
    BY <2>1 DEF TypeInv, TypeOK, ProfilerTypeOK, Guarantee
<1>2. ShutdownTypeOK'
  <2>1. /\ walk' \in Seq([call : Ids', next : Nat \ {0}])
        /\ log' \in Seq([call : Ids', TID : Threads, depth : Nat, eWALLt : Nat,
                         lWALLt : Nat, rFn : Nat \cup {-1}, nOr : Nat])
    BY LogGrowth DEF Guarantee, shutdown
  <2> QED
    BY <2>1 DEF TypeInv, TypeOK, ShutdownTypeOK, shutdown
<1>3. RuntimeTypeOK'
  BY DEF RuntimeTypeOK, Frame
<1>4. PhaseOK'
  BY DEF TypeInv, PhaseOK, Guarantee, shutdown
<1> QED
  BY <1>1, <1>2, <1>3, <1>4 DEF TypeInv, TypeOK, Guarantee

LEMMA TypeInvParts ==
  ASSUME TypeInv
  PROVE  /\ TreeTypeInv /\ TreeType /\ PointersOK
         /\ stack \in [Threads -> Seq(Frame(Ids))]
         /\ unwinding \in [Threads -> {"no", "frame", "entered"}]
         /\ hooked \subseteq Traced /\ now \in Nat \ {0}
BY DEF TypeInv, TypeOK, ProfilerTypeOK, RuntimeTypeOK, TreeTypeInv, TreeType, Frame

LEMMA StackGrowth ==
  ASSUME TypeInv, Ids \subseteq Ids'
  PROVE  stack \in [Threads -> Seq(Frame(Ids'))]
<1>1. Frame(Ids) \subseteq Frame(Ids')
  BY DEF Frame
<1>2. \A t \in Threads : stack[t] \in Seq(Frame(Ids'))
  BY <1>1, TypeInvParts, SeqSubset
<1> QED
  BY <1>2, TypeInvParts
LEMMA PopType ==
  ASSUME TypeInv, Ids \subseteq Ids', NEW t \in Threads, PopFrame(t)
  PROVE  stack' \in [Threads -> Seq(Frame(Ids'))]
<1>1. stack \in [Threads -> Seq(Frame(Ids'))]
  BY StackGrowth
<1>2. SubSeq(stack[t], 1, Len(stack[t]) - 1) \in Seq(Frame(Ids'))
  BY <1>1
<1> QED
  BY <1>1, <1>2 DEF PopFrame

\* Every step of the runtime, with the callback it raises, keeps the types.
LEMMA RuntimeKeepsTypes == TypeInv /\ RuntimeStep => TypeInv'
<1> SUFFICES ASSUME TypeInv, RuntimeStep
             PROVE  TypeInv'
  OBVIOUS
<1> USE TypeInvParts
<1>1. ASSUME UNCHANGED <<tree, freed, m_functionMap, fault>>
      PROVE  Guarantee
  BY <1>1, IdleGuarantee DEF TreeTypeInv
<1>2. ASSUME NEW f \in Functions, Mapper(f)
      PROVE  TypeInv'
  <2>1. Guarantee
    <3>1. CASE ~info
      BY <1>2, <3>1, CrashGuarantee DEF Mapper
    <3>2. CASE info
      <4>1. m_functionMap' \in [Functions -> {"absent", "null", "info"}]
        BY <1>2, <3>2 DEF Mapper, TreeTypeInv
      <4> QED
        BY <1>2, <3>2, <4>1, IdleGuarantee DEF Mapper, TreeTypeInv
    <3> QED
      BY <3>1, <3>2
  <2>2. stack \in [Threads -> Seq(Frame(Ids'))]
    BY <2>1, StackGrowth DEF Guarantee
  <2>3. hooked' \subseteq Traced
    BY <1>2 DEF Mapper
  <2> QED
    BY <1>2, <2>1, <2>2, <2>3, HandlerStep DEF Mapper
<1>3. ASSUME NEW t \in Threads, NEW f \in Functions, Call(t, f)
      PROVE  TypeInv'
  <2>1. Guarantee
    BY <1>1, <1>3, EnterGuarantee DEF Call
  <2>2. stack \in [Threads -> Seq(Frame(Ids'))]
    BY <2>1, StackGrowth DEF Guarantee
  <2>3. [fn |-> f, call |-> IF calls' = calls THEN Nil ELSE Len(calls')] \in Frame(Ids')
    BY <2>1 DEF Frame, Guarantee
  <2>4. stack' \in [Threads -> Seq(Frame(Ids'))]
    BY <1>3, <2>2, <2>3 DEF Call
  <2> QED
    BY <1>3, <2>1, <2>4, HandlerStep DEF Call
<1>4. ASSUME NEW t \in Threads, LeaveFrame(t)
      PROVE  TypeInv'
  <2>1. Guarantee
    BY <1>1, <1>4, LeaveGuarantee DEF LeaveFrame
  <2>2. stack' \in [Threads -> Seq(Frame(Ids'))]
    BY <1>4, <2>1, PopType DEF LeaveFrame, Guarantee
  <2> QED
    BY <1>4, <2>1, <2>2, HandlerStep DEF LeaveFrame
<1>5. ASSUME NEW t \in Threads, ObjectAllocated(t)
      PROVE  TypeInv'
  <2>1. functionNumOrder(t) \in Nat \cup {-1} /\ second[t] \in {Nil} \cup Ids
    BY DEF functionNumOrder, TreeType
  <2>2. /\ allocs' \subseteq [TID : Threads, active : {Nil} \cup Ids, fnc : Nat \cup {-1}]
        /\ known' \subseteq Threads /\ fault' \in {"none", "null", "freed", "info"}
    BY <1>5, <2>1 DEF ObjectAllocated, TypeInv, TypeOK, ProfilerTypeOK
  <2>3. Ids' = Ids
    BY <1>5 DEF ObjectAllocated, Ids
  <2>4. ProfilerTypeOK'
    BY <1>5, <2>2, <2>3 DEF ObjectAllocated, TypeInv, TypeOK, ProfilerTypeOK
  <2>5. ShutdownTypeOK' /\ RuntimeTypeOK'
    BY <1>5, <2>3 DEF ObjectAllocated, TypeInv, TypeOK, ShutdownTypeOK,
                      RuntimeTypeOK, shutdown, runtime
  <2>6. PointersOK' /\ PhaseOK'
    BY <1>5, <2>3 DEF ObjectAllocated, TypeInv, PointersOK, PhaseOK, shutdown
  <2> QED
    BY <2>4, <2>5, <2>6 DEF TypeInv, TypeOK
<1>6. ASSUME NEW t \in Threads, Throw(t) \/ Catch(t)
      PROVE  TypeInv'
  <2>1. UNCHANGED profiler /\ UNCHANGED shutdown /\ UNCHANGED <<stack, hooked, now>>
        /\ unwinding' \in [Threads -> {"no", "frame", "entered"}]
    BY <1>6 DEF Throw, Catch
  <2>2. Guarantee
    BY <1>1, <2>1 DEF profiler, tree
  <2>3. stack \in [Threads -> Seq(Frame(Ids'))]
    BY <2>2, StackGrowth DEF Guarantee
  <2> QED
    BY <2>1, <2>2, <2>3, HandlerStep DEF profiler
<1>7. ASSUME NEW t \in Threads, ExceptionUnwindFunctionEnter(t)
      PROVE  TypeInv'
  <2>1. Top(t).fn \in Functions
    <3>1. stack[t] \in Seq(Frame(Ids)) /\ stack[t] # <<>>
      BY <1>7 DEF ExceptionUnwindFunctionEnter
    <3>2. Top(t) \in Frame(Ids)
      BY <3>1 DEF Top
    <3> QED
      BY <3>2 DEF Frame
  <2>2. Guarantee
    BY <1>1, <1>7, <2>1, EnterGuarantee DEF ExceptionUnwindFunctionEnter
  <2>3. stack \in [Threads -> Seq(Frame(Ids'))]
    BY <2>2, StackGrowth DEF Guarantee
  <2> QED
    BY <1>7, <2>2, <2>3, HandlerStep DEF ExceptionUnwindFunctionEnter
<1>8. ASSUME NEW t \in Threads, ExceptionUnwindFunctionLeave(t)
      PROVE  TypeInv'
  <2>1. Guarantee
    BY <1>8, LeaveGuarantee DEF ExceptionUnwindFunctionLeave
  <2>2. stack' \in [Threads -> Seq(Frame(Ids'))]
    BY <1>8, <2>1, PopType DEF ExceptionUnwindFunctionLeave, Guarantee
  <2> QED
    BY <1>8, <2>1, <2>2, HandlerStep DEF ExceptionUnwindFunctionLeave
<1>9. ASSUME Tick
      PROVE  TypeInv'
  <2>1. Guarantee
    BY <1>1, <1>9 DEF Tick, profiler, tree
  <2>2. stack \in [Threads -> Seq(Frame(Ids'))]
    BY <2>1, StackGrowth DEF Guarantee
  <2> QED
    BY <1>9, <2>1, <2>2, HandlerStep DEF Tick, profiler
<1> QED
  BY <1>2, <1>3, <1>4, <1>5, <1>6, <1>7, <1>8, <1>9 DEF RuntimeStep, Return, TailCall
LEMMA LineType ==
  ASSUME TypeInv, NEW i \in Ids
  PROVE  Line(i) \in [call : Ids, TID : Threads, depth : Nat, eWALLt : Nat,
                      lWALLt : Nat, rFn : Nat \cup {-1}, nOr : Nat]
<1>1. \A j \in Ids : calls[j] \in FunctionClass
  BY TypeInvParts DEF TreeType, Ids
<1>2. ~IsRoot(i) => calls[i].prevFunction \in Ids
  <2>1. Ids = 1 .. Len(calls) /\ Len(calls) \in Nat
    BY TypeInvParts DEF TreeType, Ids
  <2>2. calls[i].prevFunction \in Nat /\ calls[i].prevFunction < i
    BY <1>1, TypeInvParts DEF FunctionClass, PointersOK
  <2> QED
    BY <2>1, <2>2 DEF IsRoot, Nil
<1>3. rFn(i) \in Nat \cup {-1}
  BY <1>1, <1>2 DEF rFn, FunctionClass
<1> QED
  BY <1>1, <1>3 DEF Line, FunctionClass

LEMMA SerializeCallType ==
  ASSUME TypeInv, NEW i \in Ids,
         NEW below \in Seq([call : Ids, next : Nat \ {0}]),
         SerializeCall(i, below)
  PROVE  /\ log' \in Seq([call : Ids, TID : Threads, depth : Nat, eWALLt : Nat,
                          lWALLt : Nat, rFn : Nat \cup {-1}, nOr : Nat])
         /\ walk' \in Seq([call : Ids, next : Nat \ {0}]) /\ walk' # <<>>
<1>1. log \in Seq([call : Ids, TID : Threads, depth : Nat, eWALLt : Nat,
                   lWALLt : Nat, rFn : Nat \cup {-1}, nOr : Nat])
  BY DEF TypeInv, TypeOK, ShutdownTypeOK
<1>2. log' \in Seq([call : Ids, TID : Threads, depth : Nat, eWALLt : Nat,
                    lWALLt : Nat, rFn : Nat \cup {-1}, nOr : Nat])
  BY <1>1, LineType DEF SerializeCall
<1>3. [call |-> i, next |-> 1] \in [call : Ids, next : Nat \ {0}]
  OBVIOUS
<1>4. walk' = Append(below, [call |-> i, next |-> 1])
  BY DEF SerializeCall
<1> QED
  BY <1>2, <1>3, <1>4, PushType

\* A step of Shutdown that leaves calls alone keeps the types if the other
\* variables it changes are typed.
LEMMA ShutdownStepTypes ==
  ASSUME TypeInv, UNCHANGED <<calls, allocs, fault, runtime>>,
         freed' \subseteq Ids, known' \subseteq Threads,
         m_functionMap' \in [Functions -> {"absent", "null", "info"}],
         first' \in [Threads -> Nat], second' \in [Threads -> {Nil} \cup Ids],
         info' \in BOOLEAN, g_CoreProfiler' \in BOOLEAN,
         ShutdownTypeOK', PhaseOK'
  PROVE  TypeInv'
<1>1. Ids' = Ids /\ PointersOK'
  BY DEF Ids, PointersOK, TypeInv
<1>2. ProfilerTypeOK'
  BY <1>1 DEF ProfilerTypeOK, TypeInv, TypeOK
<1>3. RuntimeTypeOK'
  BY <1>1 DEF RuntimeTypeOK, TypeInv, TypeOK, runtime
<1> QED
  BY <1>1, <1>2, <1>3 DEF TypeInv, TypeOK

\* The climb stamps like a callback, and goes on or has found the root.
LEMMA ClimbStep ==
  ASSUME TypeInv, Guarantee,
         UNCHANGED <<info, g_CoreProfiler, allocs, cursor, walk, endTime, log, runtime>>,
         cursor \in Threads, second'[cursor] \in Ids', endTime # 0,
         pc' \in {"climb", "serialize"}
  PROVE  TypeInv'
<1>1. ShutdownTypeOK /\ PhaseOK /\ TypeOK
  BY DEF TypeInv, TypeOK
<1>2. stack \in [Threads -> Seq(Frame(Ids'))]
  BY StackGrowth DEF Guarantee
<1>3. ProfilerTypeOK'
  <2>1. allocs' \subseteq [TID : Threads, active : {Nil} \cup Ids', fnc : Nat \cup {-1}]
    BY DEF TypeInv, TypeOK, ProfilerTypeOK, Guarantee
  <2> QED
    BY <2>1 DEF TypeInv, TypeOK, ProfilerTypeOK, Guarantee
<1>4. ShutdownTypeOK'
  <2>1. walk' \in Seq([call : Ids', next : Nat \ {0}])
        /\ log' \in Seq([call : Ids', TID : Threads, depth : Nat, eWALLt : Nat,
                         lWALLt : Nat, rFn : Nat \cup {-1}, nOr : Nat])
    BY LogGrowth DEF Guarantee
  <2> QED
    BY <1>1, <2>1 DEF ShutdownTypeOK
<1>5. RuntimeTypeOK'
  BY <1>1, <1>2 DEF TypeOK, RuntimeTypeOK, Frame, runtime
<1>6. PhaseOK'
  BY <1>1 DEF PhaseOK, Walking, Phases
<1> QED
  BY <1>3, <1>4, <1>5, <1>6 DEF TypeInv, TypeOK, Guarantee

\* ClearCalled changes of the tree only the list of the call on top of the walk.
LEMMA ClearFacts ==
  ASSUME TypeInv, ClearCalled
  PROVE  \E top \in Ids :
           /\ Len(walk) \in DOMAIN walk /\ walk[Len(walk)].call = top
           /\ calls' \in Seq(FunctionClass)
           /\ Len(calls') = Len(calls) /\ Ids' = Ids
           /\ \A i \in Ids : /\ Untouched(i)
                             /\ calls'[i].cpuTimeLeave = calls[i].cpuTimeLeave
                             /\ calls'[i].funcId = calls[i].funcId
           /\ \A i \in Ids : i # top =>
                calls'[i].calledFunctions = calls[i].calledFunctions
           /\ calls'[top].calledFunctions = <<>>
<1>1. walk \in Seq(Activation) /\ walk # <<>>
  BY DEF ClearCalled, At, TypeInv, TypeOK, PhaseOK, Walking, ShutdownTypeOK, Activation
<1>2. PICK top : top = walk[Len(walk)].call
  OBVIOUS
<1>3. top \in Ids /\ Len(walk) \in DOMAIN walk
  BY <1>1, <1>2, LastOf, AdvanceType
<1>4. calls \in Seq(FunctionClass) /\ calls[top] \in FunctionClass
  BY <1>3, TypeInvParts DEF TreeType, Ids
<1>5. PICK cleared : cleared = [calls[top] EXCEPT !.calledFunctions = <<>>]
  OBVIOUS
<1>6. cleared \in FunctionClass
  <2>1. <<>> \in Seq(Nat)
    OBVIOUS
  <2> QED
    BY <1>4, <1>5, <2>1 DEF FunctionClass
<1>7. calls' = [calls EXCEPT ![top] = cleared]
  BY <1>2, <1>5 DEF ClearCalled
<1>8. /\ calls' \in Seq(FunctionClass) /\ Len(calls') = Len(calls) /\ Ids' = Ids
      /\ calls'[top] = cleared /\ \A i \in Ids : i # top => calls'[i] = calls[i]
  BY <1>3, <1>4, <1>6, <1>7 DEF Ids
<1>9. /\ cleared.prevFunction = calls[top].prevFunction
      /\ cleared.TID = calls[top].TID
      /\ cleared.depth = calls[top].depth
      /\ cleared.callOrderNumber = calls[top].callOrderNumber
      /\ cleared.wallTimeEnter = calls[top].wallTimeEnter
      /\ cleared.wallTimeLeave = calls[top].wallTimeLeave
      /\ cleared.cpuTimeLeave = calls[top].cpuTimeLeave
      /\ cleared.funcId = calls[top].funcId
      /\ cleared.calledFunctions = <<>>
  BY <1>4, <1>5 DEF FunctionClass
<1>10. \A i \in Ids : /\ Untouched(i)
                      /\ calls'[i].cpuTimeLeave = calls[i].cpuTimeLeave
                      /\ calls'[i].funcId = calls[i].funcId
  BY <1>8, <1>9 DEF Untouched, Same
<1> QED
  BY <1>2, <1>3, <1>8, <1>9, <1>10

LEMMA ClearKeepsTypes ==
  ASSUME TypeInv, ClearCalled
  PROVE  TypeInv'
<1>1. PICK top \in Ids :
        /\ calls' \in Seq(FunctionClass) /\ Ids' = Ids
        /\ \A i \in Ids : Untouched(i)
        /\ \A i \in Ids : i # top => calls'[i].calledFunctions = calls[i].calledFunctions
        /\ calls'[top].calledFunctions = <<>>
  BY ClearFacts
<1>2. /\ UNCHANGED <<known, first, second, freed, m_functionMap, info, g_CoreProfiler,
                     allocs, fault, cursor, walk, endTime, log, runtime>>
      /\ pc = "clearing" /\ pc' = "returning"
  BY DEF ClearCalled, At
<1>3. ProfilerTypeOK'
  BY <1>1, <1>2 DEF ProfilerTypeOK, TypeInv, TypeOK
<1>4. ShutdownTypeOK'
  BY <1>1, <1>2 DEF ShutdownTypeOK, TypeInv, TypeOK
<1>5. RuntimeTypeOK'
  BY <1>1, <1>2 DEF RuntimeTypeOK, TypeInv, TypeOK, runtime
<1>6. PointersOK'
  <2> SUFFICES ASSUME NEW i \in Ids
               PROVE  /\ calls'[i].prevFunction < i
                      /\ \A k \in DOMAIN calls'[i].calledFunctions :
                           calls'[i].calledFunctions[k] \in Ids
    BY <1>1 DEF PointersOK
  <2>1. calls'[i].prevFunction < i
    BY <1>1 DEF TypeInv, PointersOK, Untouched, Same
  <2>2. CASE i = top
    <3>1. DOMAIN calls'[i].calledFunctions = {}
      BY <1>1, <2>2
    <3> QED
      BY <2>1, <3>1
  <2>3. CASE i # top
    BY <1>1, <2>1, <2>3 DEF TypeInv, PointersOK
  <2> QED
    BY <2>2, <2>3
<1>7. PhaseOK'
  BY <1>1, <1>2 DEF TypeInv, PhaseOK, Phases, Walking
<1> QED
  BY <1>3, <1>4, <1>5, <1>6, <1>7 DEF TypeInv, TypeOK

LEMMA ShutdownKeepsTypes == TypeInv /\ (ShutdownBegin \/ ShutdownStep) => TypeInv'
<1> SUFFICES ASSUME TypeInv, ShutdownBegin \/ ShutdownStep
             PROVE  TypeInv'
  OBVIOUS
<1> USE TypeInvParts DEF At, Walking
<1>0. ProfilerTypeOK /\ ShutdownTypeOK /\ PhaseOK
  BY DEF TypeInv, TypeOK
<1>1. CASE ShutdownBegin
  <2>1. ShutdownTypeOK' /\ PhaseOK'
    BY <1>0, <1>1 DEF ShutdownBegin, ShutdownTypeOK, PhaseOK, Phases, profiler, Ids
  <2> QED
    BY <1>0, <1>1, <2>1, ShutdownStepTypes DEF ShutdownBegin, profiler, ProfilerTypeOK
<1>2. CASE NextThread
  <2>1. ShutdownTypeOK' /\ PhaseOK'
    BY <1>0, <1>2 DEF NextThread, ShutdownTypeOK, PhaseOK, Phases, profiler, Ids,
                      TreeType, Nil
  <2> QED
    BY <1>0, <1>2, <2>1, ShutdownStepTypes DEF NextThread, profiler, ProfilerTypeOK
<1>3. CASE Climb
  <2> DEFINE a == second[cursor]
  <2>1. cursor \in Threads /\ a \in Ids /\ endTime \in Nat
    BY <1>0, <1>3 DEF Climb, PhaseOK, Phases, ShutdownTypeOK
  <2>2. endTime # 0
    BY <1>0, <1>3 DEF Climb, Phases, PhaseOK
  <2>3. CASE LeaveTimeMissing(a)
    <3>1. Guarantee
      <4>1. endTime \in Nat \ {0} /\ StampActive(cursor, endTime)
        BY <1>3, <2>1, <2>2, <2>3 DEF Climb
      <4> QED
        BY <1>3, <2>1, <4>1, StampGuarantee DEF Climb
    <3>2. cursor \in Threads /\ second'[cursor] \in Ids'
      BY <2>1, <3>1 DEF Guarantee
    <3> QED
      BY <1>3, <2>1, <2>2, <3>1, <3>2, ClimbStep DEF Climb
  <2>4. CASE ~LeaveTimeMissing(a)
    <3>1. UNCHANGED calls /\ second' = [second EXCEPT ![cursor] = Upward(a)]
      BY <1>3, <2>4 DEF Climb
    <3>2. Upward(a) \in Ids
      <4>1. calls[a] \in FunctionClass /\ Ids = 1 .. Len(calls) /\ Len(calls) \in Nat
        BY <2>1 DEF TreeType, Ids
      <4>2. calls[a].prevFunction \in Nat /\ calls[a].prevFunction < a
        BY <2>1, <4>1 DEF FunctionClass, PointersOK
      <4> QED
        BY <2>1, <4>1, <4>2 DEF Upward, IsRoot, Nil
    <3>3. second' \in [Threads -> {Nil} \cup Ids] /\ second'[cursor] \in Ids
      BY <2>1, <3>1, <3>2 DEF TreeType
    <3>4. ShutdownTypeOK' /\ PhaseOK'
      BY <1>0, <1>3, <2>1, <3>1, <3>3 DEF Climb, ShutdownTypeOK, PhaseOK, Phases, Ids
    <3> QED
      BY <1>0, <1>3, <3>1, <3>3, <3>4, ShutdownStepTypes DEF Climb, ProfilerTypeOK
  <2> QED
    BY <2>3, <2>4
<1>4. CASE SerializeRoot
  <2>1. second[cursor] \in Ids /\ <<>> \in Seq([call : Ids, next : Nat \ {0}])
    BY <1>0, <1>4 DEF SerializeRoot, PhaseOK, Phases
  <2>2. SerializeCall(second[cursor], <<>>)
    BY <1>4 DEF SerializeRoot
  <2>3. ShutdownTypeOK' /\ PhaseOK'
    BY <1>0, <1>4, <2>1, <2>2, SerializeCallType
       DEF SerializeRoot, ShutdownTypeOK, PhaseOK, Phases, profiler, Ids
  <2> QED
    BY <1>0, <1>4, <2>3, ShutdownStepTypes DEF SerializeRoot, profiler, ProfilerTypeOK
<1>5. CASE SerializeChild
  <2> DEFINE top == walk[Len(walk)]
  <2>1. walk \in Seq(Activation) /\ walk # <<>>
    BY <1>0, <1>5 DEF SerializeChild, PhaseOK, Phases, ShutdownTypeOK, Activation
  <2>2. top \in Activation /\ Len(walk) \in DOMAIN walk /\ top.call \in Ids
    BY <2>1, LastOf, AdvanceType
  <2>3. NextChild \in Seq(Activation)
    <3>1. [top EXCEPT !.next = @ + 1] \in Activation
      BY <2>2, AdvanceType
    <3>2. NextChild = [walk EXCEPT ![Len(walk)] = [top EXCEPT !.next = @ + 1]]
      BY DEF NextChild
    <3> QED
      BY <2>1, <2>2, <3>1, <3>2
  <2>4. calls[top.call].calledFunctions[top.next] \in Ids
    <3>1. calls[top.call] \in FunctionClass
      BY <2>2 DEF TreeType, Ids
    <3>2. calls[top.call].calledFunctions \in Seq(Nat)
      BY <3>1 DEF FunctionClass
    <3>3. top.next \in DOMAIN calls[top.call].calledFunctions
      BY <1>5, <2>2, <3>2 DEF SerializeChild, Activation
    <3> QED
      BY <2>2, <3>3 DEF PointersOK
  <2>5. SerializeCall(calls[top.call].calledFunctions[top.next], NextChild)
    BY <1>5 DEF SerializeChild
  <2>6. ShutdownTypeOK' /\ PhaseOK'
    BY <1>0, <1>5, <2>3, <2>4, <2>5, SerializeCallType
       DEF SerializeChild, ShutdownTypeOK, PhaseOK, Phases, profiler, Ids, Activation
  <2> QED
    BY <1>0, <1>5, <2>6, ShutdownStepTypes DEF SerializeChild, profiler, ProfilerTypeOK
<1>11. CASE LoopEnds
  <2>1. UNCHANGED <<profiler, cursor, walk, endTime, log, runtime>>
        /\ pc = "walk" /\ pc' \in {"clearing", "returning"}
    BY <1>11 DEF LoopEnds
  <2>2. ShutdownTypeOK' /\ PhaseOK'
    BY <1>0, <2>1 DEF ShutdownTypeOK, PhaseOK, Phases, profiler, Ids
  <2> QED
    BY <1>0, <2>1, <2>2, ShutdownStepTypes DEF profiler, ProfilerTypeOK
<1>6. CASE SerializeReturn
  <2> DEFINE depth == Len(walk)
  <2>1. walk \in Seq(Activation) /\ walk # <<>>
    BY <1>0, <1>6 DEF SerializeReturn, PhaseOK, Phases, ShutdownTypeOK, Activation
  <2>2. walk[depth].call \in Ids
    BY <2>1, LastOf, AdvanceType
  <2>3. walk' \in Seq(Activation) /\ (depth # 1 => walk' # <<>>)
    BY <1>6, <2>1, PopSeqType DEF SerializeReturn
  <2>4. freed' \subseteq Ids
    BY <1>0, <1>6, <2>2 DEF SerializeReturn, Delete, ProfilerTypeOK
  <2>5. ShutdownTypeOK' /\ PhaseOK'
    BY <1>0, <1>6, <2>3 DEF SerializeReturn, ShutdownTypeOK, PhaseOK, Phases,
                            tree, Ids, Activation
  <2> QED
    BY <1>0, <1>6, <2>4, <2>5, ShutdownStepTypes
       DEF SerializeReturn, tree, ProfilerTypeOK
<1>7. CASE DeleteRoot
  <2>1. CASE second[cursor] \in freed
    <3>1. Guarantee /\ stack \in [Threads -> Seq(Frame(Ids'))]
      <4>1. Crash("freed")
        BY <1>7, <2>1 DEF DeleteRoot
      <4>2. Guarantee
        BY <4>1, CrashGuarantee
      <4> QED
        BY <4>2, StackGrowth DEF Guarantee
    <3> QED
      BY <1>7, <2>1, <3>1, HandlerStep DEF DeleteRoot, shutdown, runtime
  <2>2. CASE second[cursor] \notin freed
    <3>1. freed' \subseteq Ids
      BY <1>0, <1>7, <2>2 DEF DeleteRoot, Delete, PhaseOK, Phases, ProfilerTypeOK
    <3>2. ShutdownTypeOK' /\ PhaseOK'
      BY <1>0, <1>7, <2>2 DEF DeleteRoot, ShutdownTypeOK, PhaseOK, Phases, tree, Ids
    <3> QED
      BY <1>0, <1>7, <2>2, <3>1, <3>2, ShutdownStepTypes
         DEF DeleteRoot, ProfilerTypeOK, tree
  <2> QED
    BY <2>1, <2>2
<1>8. CASE DetachRoot
  <2>1. second' \in [Threads -> {Nil} \cup Ids]
    BY <1>0, <1>8 DEF DetachRoot, ProfilerTypeOK
  <2>2. ShutdownTypeOK' /\ PhaseOK'
    BY <1>0, <1>8 DEF DetachRoot, ShutdownTypeOK, PhaseOK, Phases, Ids
  <2> QED
    BY <1>0, <1>8, <2>1, <2>2, ShutdownStepTypes DEF DetachRoot, ProfilerTypeOK
<1>9. CASE ClearMaps
  <2>1. /\ known' \subseteq Threads /\ first' \in [Threads -> Nat]
        /\ second' \in [Threads -> {Nil} \cup Ids]
        /\ m_functionMap' \in [Functions -> {"absent", "null", "info"}]
    BY <1>9 DEF ClearMaps
  <2>2. ShutdownTypeOK' /\ PhaseOK'
    BY <1>0, <1>9 DEF ClearMaps, ShutdownTypeOK, PhaseOK, Phases, Ids
  <2> QED
    BY <1>0, <1>9, <2>1, <2>2, ShutdownStepTypes DEF ClearMaps, ProfilerTypeOK
<1>10. CASE ReleaseInfo \/ ClearGlobal
  <2>1. ShutdownTypeOK' /\ PhaseOK'
    BY <1>0, <1>10 DEF ReleaseInfo, ClearGlobal, ShutdownTypeOK, PhaseOK, Phases, Ids, tree
  <2> QED
    BY <1>0, <1>10, <2>1, ShutdownStepTypes DEF ReleaseInfo, ClearGlobal, ProfilerTypeOK, tree
<1> QED
  BY <1>1, <1>2, <1>3, <1>4, <1>5, <1>6, <1>7, <1>8, <1>9, <1>10, <1>11,
     ClearKeepsTypes DEF ShutdownStep
\* The invariant holds at the start and every step keeps it.
LEMMA TypeInvInit == Init => TypeInv
<1> SUFFICES ASSUME Init PROVE TypeInv
  OBVIOUS
<1>1. Ids = {} /\ \A S : <<>> \in Seq(S)
  BY DEF Init, Ids
<1>2. ProfilerTypeOK /\ ShutdownTypeOK /\ RuntimeTypeOK
  BY <1>1 DEF Init, ProfilerTypeOK, ShutdownTypeOK, RuntimeTypeOK
<1>3. PointersOK /\ PhaseOK
  BY <1>1 DEF Init, PointersOK, PhaseOK, Phases, Walking
<1> QED
  BY <1>2, <1>3 DEF TypeInv, TypeOK

LEMMA TypeInvNext == TypeInv /\ [Next]_vars => TypeInv'
<1>1. ASSUME TypeInv, UNCHANGED vars PROVE TypeInv'
  <2>1. UNCHANGED profiler /\ UNCHANGED shutdown /\ UNCHANGED runtime
    BY <1>1 DEF vars
  <2>2. Ids' = Ids /\ ProfilerTypeOK'
    BY <1>1, <2>1 DEF TypeInv, TypeOK, ProfilerTypeOK, Ids, profiler
  <2>3. ShutdownTypeOK'
    BY <1>1, <2>1, <2>2 DEF TypeInv, TypeOK, ShutdownTypeOK, shutdown
  <2>4. RuntimeTypeOK'
    BY <1>1, <2>1, <2>2 DEF TypeInv, TypeOK, RuntimeTypeOK, runtime
  <2>5. PointersOK' /\ PhaseOK'
    BY <1>1, <2>1, <2>2 DEF TypeInv, PointersOK, PhaseOK, profiler, shutdown
  <2> QED
    BY <2>2, <2>3, <2>4, <2>5 DEF TypeInv, TypeOK
<1> QED
  BY <1>1, RuntimeKeepsTypes, ShutdownKeepsTypes DEF Next

LEMMA TypeInvariant == Spec => []TypeInv
BY TypeInvInit, TypeInvNext, PTL DEF Spec

\* Every variable has its type in every reachable state: no pointer of the
\* tree, of an entry or of the walk of Shutdown ever leaves the objects that
\* were allocated, with or without late callbacks (CallTree!TypeOK).
THEOREM TypeCorrect == Spec => []TypeOK
<1>1. TypeInv => TypeOK
  BY DEF TypeInv
<1> QED
  BY <1>1, TypeInvariant, PTL
=============================================================================
