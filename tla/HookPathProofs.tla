--------------------------- MODULE HookPathProofs ---------------------------
(***************************************************************************)
(* Proofs about HookPath, for every list of assemblies, every number of    *)
(* threads and functions and every way in which the insertions overlap.    *)
(***************************************************************************)
EXTENDS HookPath, FiniteSetTheorems, SequenceTheorems, WellFoundedInduction, TLAPS

Answerable == [Functions -> SUBSET (Functions \cup {0})]
Entries    == [Functions -> {"absent", "null", "info"}]

\* What holds of the mapper and the hooks in every phase: an answer is the id
\* or null, and a hook has an argument that was an answer.
Inserted  == \A t \in Threads : mapping[t] # <<>> => mapping[t][1] \in Functions
InTheHook == /\ ip # 0 => target \in Functions /\ argument \in answers[target]
             /\ reached # 0 => ip # 0 /\ reached = target /\ argument # 0
HookInv ==
  /\ answers \in Answerable /\ m_functionMap \in Entries
  /\ DOMAIN mapping = Threads /\ ip \in Nat
  /\ phase \in {"new", "profiling", "clearing", "over", "dead"}
  /\ \A f \in Functions : answers[f] \subseteq {0, f}
  /\ Inserted /\ InTheHook /\ RefusedStayOut

\* While the list stands, an answer is its verdict on the name the runtime
\* gives, whether it was given or waits for an insertion.
Verdict(f) == IF IsTraced(f, assembly[f].name) THEN f ELSE 0
Answered   == \A f \in Functions :
                assembly[f].known = "all" => answers[f] \subseteq {Verdict(f)}
Inserting  == \A t \in Threads : mapping[t] # <<>> =>
                LET f == mapping[t][1]
                IN assembly[f].known = "all" => IsTraced(f, assembly[f].name)
NotYet     == /\ \A f \in Functions : answers[f] = {}
              /\ \A t \in Threads : mapping[t] = <<>>
VerdictInv ==
  /\ HookInv
  /\ phase = "new" => NotYet
  /\ phase = "profiling" => Answered /\ Inserting

LEMMA VerdictInit == Init => VerdictInv
<1> SUFFICES ASSUME Init PROVE VerdictInv
  OBVIOUS
<1>1. NotYet
  BY DEF Init, NotYet
<1>2. ip = 0 /\ reached = 0
  BY DEF Init, AtRest
<1>3. RefusedStayOut
  BY <1>2, FunctionsAssumption DEF Init, RefusedStayOut
<1>4. HookInv
  BY <1>1, <1>2, <1>3 DEF Init, HookInv, NotYet, Answerable, Entries, Inserted, InTheHook
<1> QED
  BY <1>1, <1>4 DEF Init, VerdictInv

\* The verdict rests on the list and the assembly, and on nothing else.
LEMMA VerdictKept ==
  ASSUME UNCHANGED <<list, assembly>>, NEW f
  PROVE  /\ IsTraced(f, assembly[f].name) <=> IsTraced(f, assembly[f].name)'
         /\ Verdict(f)' = Verdict(f)
<1>1. IsTraced(f, assembly[f].name) <=> IsTraced(f, assembly[f].name)'
  BY DEF IsTraced, isInAllowedAssemblies, Occurs, Places
<1> QED
  BY <1>1 DEF Verdict

\* A step that leaves the answers and the insertions alone.
LEMMA QuietStep ==
  ASSUME VerdictInv, UNCHANGED <<list, assembly, phase, mapping, answers>>,
         InTheHook', ip' \in Nat, m_functionMap' \in Entries, RefusedStayOut'
  PROVE  VerdictInv'
<1>1. HookInv'
  BY DEF VerdictInv, HookInv, Answerable, Entries, Inserted
<1>2. ASSUME phase = "profiling" PROVE Answered' /\ Inserting'
  BY <1>2, VerdictKept DEF VerdictInv, Answered, Inserting
<1>3. phase = "new" => NotYet'
  BY DEF VerdictInv, NotYet
<1> QED
  BY <1>1, <1>2, <1>3 DEF VerdictInv

\* A new answer that is the verdict keeps the answers.
LEMMA AnswerStep ==
  ASSUME VerdictInv, NEW f \in Functions, NEW id, id = 0 \/ id = f, phase # "new",
         phase = "profiling" /\ assembly[f].known = "all" => id = Verdict(f),
         Answer(f, id), UNCHANGED <<list, assembly, phase, target, reached, cpu>>,
         DOMAIN mapping' = Threads, Inserted', phase = "profiling" => Inserting',
         m_functionMap' \in Entries,
         \A k \in Functions : \/ m_functionMap'[k] = m_functionMap[k]
                              \/ m_functionMap'[k] = "absent"
                              \/ k = f /\ id = f
  PROVE  VerdictInv'
<1>0. answers \in Answerable /\ answers' = [answers EXCEPT ![f] = @ \cup {id}]
  BY DEF VerdictInv, HookInv, Answer
<1>1. /\ answers' \in Answerable
      /\ \A k \in Functions :
           answers'[k] = IF k = f THEN answers[k] \cup {id} ELSE answers[k]
  <2>1. answers[f] \cup {id} \in SUBSET (Functions \cup {0})
    BY <1>0 DEF Answerable
  <2> QED
    BY <1>0, <2>1 DEF Answerable
<1>2. \A k \in Functions : answers[k] \subseteq answers'[k] /\ answers'[k] \subseteq {0, k}
  <2> TAKE k \in Functions
  <2>1. answers[k] \subseteq {0, k}
    BY DEF VerdictInv, HookInv
  <2>2. CASE k = f
    <3>1. answers'[k] = answers[k] \cup {id} /\ id \in {0, k}
      BY <1>1, <2>2
    <3> QED
      BY <2>1, <3>1
  <2>3. CASE k # f
    <3>1. answers'[k] = answers[k]
      BY <1>1, <2>3
    <3> QED
      BY <2>1, <3>1
  <2> QED
    BY <2>2, <2>3
<1>3. InTheHook'
  BY <1>2 DEF VerdictInv, HookInv, InTheHook, cpu
<1>4. RefusedStayOut'
  <2> SUFFICES ASSUME NEW k \in Functions, k \notin answers'[k]
               PROVE  m_functionMap'[k] = "absent" /\ reached' # k
    BY DEF RefusedStayOut
  <2>1. m_functionMap[k] = "absent" /\ reached # k
    BY <1>2 DEF VerdictInv, HookInv, RefusedStayOut
  <2>2. ~(k = f /\ id = f)
    BY <1>1
  <2> QED
    BY <2>1, <2>2
<1>5. HookInv'
  BY <1>1, <1>2, <1>3, <1>4 DEF VerdictInv, HookInv, Answerable, Entries, cpu
<1>6. ASSUME phase = "profiling" PROVE Answered'
  <2> SUFFICES ASSUME NEW k \in Functions, assembly[k].known = "all"
               PROVE  answers'[k] \subseteq {Verdict(k)'}
    BY DEF Answered
  <2>1. Verdict(k)' = Verdict(k)
    BY VerdictKept
  <2>2. answers[k] \subseteq {Verdict(k)}
    BY <1>6 DEF VerdictInv, Answered
  <2> QED
    BY <1>1, <1>6, <2>1, <2>2
<1> QED
  BY <1>5, <1>6 DEF VerdictInv

LEMMA VerdictNext == VerdictInv /\ [Next]_vars => VerdictInv'
<1> SUFFICES ASSUME VerdictInv, [Next]_vars PROVE VerdictInv'
  OBVIOUS
<1>0. \A f \in Functions : f # 0
  BY FunctionsAssumption
<1>1. CASE CoreProfiler
  <2>1. phase = "new" /\ NotYet /\ phase' \in {"profiling", "dead"}
    BY <1>1 DEF CoreProfiler, VerdictInv
  <2>2. UNCHANGED <<mapping, m_functionMap, answers, target, reached, ip, argument>>
    BY <1>1 DEF CoreProfiler, names, cpu
  <2>3. HookInv'
    BY <2>1, <2>2 DEF VerdictInv, HookInv, Answerable, Entries, Inserted, InTheHook,
       RefusedStayOut
  <2>4. Answered' /\ Inserting'
    BY <2>1, <2>2 DEF NotYet, Answered, Inserting
  <2> QED
    BY <2>1, <2>3, <2>4 DEF VerdictInv
<1>2. CASE ClearMaps \/ ClearGlobal
  <2>1. /\ phase' \in {"clearing", "over"}
        /\ m_functionMap' = [f \in Functions |-> "absent"] \/ UNCHANGED m_functionMap
        /\ UNCHANGED <<mapping, answers, target, reached, ip, argument>>
    BY <1>2 DEF ClearMaps, ClearGlobal, names, cpu
  <2>2. HookInv'
    BY <2>1 DEF VerdictInv, HookInv, Answerable, Entries, Inserted, InTheHook,
       RefusedStayOut
  <2> QED
    BY <2>1, <2>2 DEF VerdictInv
<1>3. ASSUME NEW t \in Threads, NEW f \in Functions, Mapper2Refuses(t, f)
      PROVE  VerdictInv'
  <2>1. /\ phase # "new" /\ Answer(f, 0)
        /\ phase = "profiling" => \E pszName \in PszName(f) : ~IsTraced(f, pszName)
        /\ UNCHANGED <<list, assembly, phase, mapping, m_functionMap, target, reached, cpu>>
    BY <1>3 DEF Mapper2Refuses, g_CoreProfiler, filter
  <2>2. phase = "profiling" /\ assembly[f].known = "all" => Verdict(f) = 0
    BY <2>1 DEF PszName, Verdict
  <2>3. phase = "profiling" => Inserting'
    BY <2>1, VerdictKept DEF VerdictInv, Inserting
  <2>4. DOMAIN mapping' = Threads /\ Inserted' /\ m_functionMap' \in Entries
    BY <2>1 DEF VerdictInv, HookInv, Inserted
  <2>5. \A k \in Functions : m_functionMap'[k] = m_functionMap[k]
    BY <2>1
  <2>6. PICK id : id = 0
    OBVIOUS
  <2> QED
    BY <2>1, <2>2, <2>3, <2>4, <2>5, <2>6, AnswerStep
<1>4. ASSUME NEW t \in Threads, NEW f \in Functions, MapperLocates(t, f)
      PROVE  VerdictInv'
  <2>1. /\ phase # "new" /\ \E pszName \in PszName(f) : IsTraced(f, pszName)
        /\ UNCHANGED <<list, assembly, phase, m_functionMap, target, reached, cpu>>
    BY <1>4 DEF MapperLocates, g_CoreProfiler, filter
  <2>2. assembly[f].known = "all" => IsTraced(f, assembly[f].name) /\ Verdict(f) = f
    BY <2>1 DEF PszName, Verdict
  <2>3. CASE f \in Keys
    <3>1. Answer(f, f) /\ mapping' = mapping
      BY <1>4, <2>3 DEF MapperLocates, Known
    <3>2. phase = "profiling" => Inserting'
      BY <2>1, <3>1, VerdictKept DEF VerdictInv, Inserting
    <3>3. DOMAIN mapping' = Threads /\ Inserted' /\ m_functionMap' \in Entries
      BY <2>1, <3>1 DEF VerdictInv, HookInv, Inserted
    <3> QED
      BY <2>1, <2>2, <3>1, <3>2, <3>3, AnswerStep
  <2>4. CASE f \notin Keys
    <3>1. answers' = answers /\ mapping' = [mapping EXCEPT ![t] = <<f, Gap(f)>>]
      BY <1>4, <2>4 DEF MapperLocates
    <3>2. \A u \in Threads : \/ mapping'[u] = mapping[u]
                             \/ mapping'[u] # <<>> /\ mapping'[u][1] = f
      BY <3>1 DEF VerdictInv, HookInv
    <3>3. HookInv'
      BY <2>1, <3>1, <3>2 DEF VerdictInv, HookInv, Answerable, Entries, Inserted,
         InTheHook, RefusedStayOut, cpu
    <3>4. phase = "profiling" => Inserting'
      <4> SUFFICES ASSUME phase = "profiling", NEW u \in Threads, mapping'[u] # <<>>,
                          NEW k, k = mapping'[u][1], assembly[k].known = "all"
                   PROVE  IsTraced(k, assembly[k].name)'
        BY <2>1 DEF Inserting
      <4>1. IsTraced(k, assembly[k].name)
        BY <2>2, <3>2 DEF VerdictInv, Inserting
      <4> QED
        BY <2>1, <4>1, VerdictKept
    <3>5. phase = "profiling" => Answered'
      BY <2>1, <3>1, VerdictKept DEF VerdictInv, Answered
    <3> QED
      BY <2>1, <3>3, <3>4, <3>5 DEF VerdictInv
  <2> QED
    BY <2>3, <2>4
<1>5. ASSUME NEW t \in Threads, MapperLinks(t)
      PROVE  VerdictInv'
  <2>0. PICK f : f = mapping[t][1]
    OBVIOUS
  <2>1. /\ mapping[t] # <<>> /\ Answer(f, f)
        /\ mapping' = [mapping EXCEPT ![t] = <<>>]
        /\ m_functionMap' = [k \in Functions |->
             IF k = f THEN "info"
             ELSE IF k \in mapping[t][2] THEN "absent" ELSE m_functionMap[k]]
        /\ UNCHANGED <<list, assembly, phase, target, reached, cpu>>
    BY <1>5, <2>0 DEF MapperLinks, filter
  <2>2. phase # "new" /\ f \in Functions
    BY <2>0, <2>1 DEF VerdictInv, HookInv, Inserted, NotYet
  <2>3. phase = "profiling" /\ assembly[f].known = "all" => Verdict(f) = f
    BY <2>0, <2>1 DEF VerdictInv, Inserting, Verdict
  <2>4. \A u \in Threads : mapping'[u] # <<>> => mapping'[u] = mapping[u]
    BY <2>1 DEF VerdictInv, HookInv
  <2>5. phase = "profiling" => Inserting'
    <3> SUFFICES ASSUME phase = "profiling", NEW u \in Threads, mapping'[u] # <<>>,
                        NEW k, k = mapping'[u][1], assembly[k].known = "all"
                 PROVE  IsTraced(k, assembly[k].name)'
      BY <2>1 DEF Inserting
    <3>1. IsTraced(k, assembly[k].name)
      BY <2>4 DEF VerdictInv, Inserting
    <3> QED
      BY <2>1, <3>1, VerdictKept
  <2>6. DOMAIN mapping' = Threads /\ Inserted' /\ m_functionMap' \in Entries
    BY <2>1, <2>4 DEF VerdictInv, HookInv, Inserted, Entries
  <2>7. \A k \in Functions : m_functionMap'[k] = m_functionMap[k]
                             \/ m_functionMap'[k] = "absent" \/ k = f
    BY <2>1
  <2> QED
    BY <2>1, <2>2, <2>3, <2>5, <2>6, <2>7, AnswerStep
<1>6. ASSUME NEW h \in DOMAIN Hook, NEW f \in Functions, Hooks(h, f)
      PROVE  VerdictInv'
  <2>1. PICK id \in answers[f] : CallHook(h, id)
    BY <1>6 DEF Hooks
  <2>2. /\ ip' = 1 /\ argument' = id /\ target' = f /\ reached' = 0
        /\ UNCHANGED <<list, assembly, phase, mapping, m_functionMap, answers>>
    BY <1>6, <2>1 DEF Hooks, CallHook, filter, names
  <2>3. InTheHook'
    BY <2>1, <2>2 DEF InTheHook
  <2>4. RefusedStayOut' /\ m_functionMap' \in Entries
    BY <1>0, <2>2 DEF VerdictInv, HookInv, RefusedStayOut
  <2> QED
    BY <2>2, <2>3, <2>4, QuietStep
\* Only a function with its id as the argument is passed on.
<1>7. CASE Stub
  <2>1. /\ ip # 0 /\ ip' = ip + 1
        /\ reached' = IF PassesOn THEN target ELSE 0
        /\ UNCHANGED <<list, assembly, phase, mapping, answers, target, argument>>
    BY <1>7 DEF Stub, ExecuteCall, Executes, filter
  <2>8. \/ m_functionMap' = m_functionMap
        \/ PassesOn /\ m_functionMap' = [m_functionMap EXCEPT ![target] = "null"]
    BY <1>7 DEF Stub
  <2>2. ip' # 0 /\ ip' \in Nat
    BY <2>1 DEF VerdictInv, HookInv
  <2>3. target \in Functions /\ argument \in answers[target]
    BY <2>1 DEF VerdictInv, HookInv, InTheHook
  <2>4. PassesOn => target \in answers[target]
    BY <2>3 DEF PassesOn, VerdictInv, HookInv
  <2>5. InTheHook'
    BY <2>1, <2>2, <2>3 DEF InTheHook, PassesOn
  <2>6. m_functionMap' \in Entries
    BY <2>8 DEF VerdictInv, HookInv, Entries
  <2>7. RefusedStayOut'
    <3> SUFFICES ASSUME NEW f \in Functions, f \notin answers[f]
                 PROVE  m_functionMap'[f] = "absent" /\ reached' # f
      BY <2>1 DEF RefusedStayOut
    <3>1. m_functionMap[f] = "absent"
      BY DEF VerdictInv, HookInv, RefusedStayOut
    <3>2. PassesOn => f # target
      BY <2>4
    <3> QED
      BY <1>0, <2>1, <2>8, <3>1, <3>2 DEF VerdictInv, HookInv, Entries
  <2> QED
    BY <2>1, <2>2, <2>5, <2>6, <2>7, QuietStep
<1>8. CASE Machine
  <2>1. UNCHANGED <<list, assembly, phase, mapping, m_functionMap, answers>>
    BY <1>8 DEF Machine, filter, names
  <2>2. ip' \in Nat
    BY <1>8 DEF Machine, ExecutePush, ExecutePop, ExecuteAdd, ExecuteRet, VerdictInv, HookInv
  <2>3. InTheHook' /\ reached' \in {0, reached}
    <3>1. CASE ExecuteRet /\ target' = 0 /\ reached' = 0
      BY <3>1 DEF ExecuteRet, InTheHook
    <3>2. CASE /\ ExecutePush \/ ExecutePop \/ ExecuteAdd
               /\ UNCHANGED <<target, reached>>
      <4>1. ip # 0 /\ ip' = ip + 1 /\ UNCHANGED argument
        BY <3>2 DEF ExecutePush, ExecutePop, ExecuteAdd, Executes
      <4>2. ip' # 0
        BY <4>1 DEF VerdictInv, HookInv
      <4> QED
        BY <2>1, <3>2, <4>1, <4>2 DEF VerdictInv, HookInv, InTheHook
    <3> QED
      BY <1>8, <3>1, <3>2 DEF Machine
  <2>4. RefusedStayOut' /\ m_functionMap' \in Entries
    BY <1>0, <2>1, <2>3 DEF VerdictInv, HookInv, RefusedStayOut
  <2> QED
    BY <2>1, <2>2, <2>3, <2>4, QuietStep
<1>9. CASE UNCHANGED vars
  <2>1. UNCHANGED <<list, assembly, phase, mapping, m_functionMap, answers, target,
                    reached, ip, argument>>
    BY <1>9 DEF vars, filter, names, cpu
  <2>2. /\ InTheHook' /\ RefusedStayOut'
        /\ ip' \in Nat /\ m_functionMap' \in Entries
    BY <2>1 DEF VerdictInv, HookInv, InTheHook, RefusedStayOut
  <2> QED
    BY <2>1, <2>2, QuietStep
<1> QED
  BY <1>1, <1>2, <1>3, <1>4, <1>5, <1>6, <1>7, <1>8, <1>9 DEF Next

\* However the look-ups fail, the answers vary and the insertions lose each
\* other, nothing is recorded of a function to which the mapper has never
\* given its id, in any phase: the null answer is all that keeps it out, since
\* Mapper2 never tells the runtime not to call the hooks
\* (CoreProfiler.cpp:52-157, HookPath!RefusedStayOut).
THEOREM StubsKeepOut == Spec => []RefusedStayOut
<1>1. VerdictInv => RefusedStayOut
  BY DEF VerdictInv, HookInv
<1> QED
  BY <1>1, VerdictInit, VerdictNext, PTL DEF Spec

-----------------------------------------------------------------------------
(* The hooks.  What a hook has saved and what it has still to restore is   *)
(* told by its next instruction.                                           *)

\* The registers that a hook saves, in the order in which it pushes them.
Pushed ==
  IF convention = "sysv"
  THEN <<"rax", "rcx", "rdx", "rsi", "rdi", "r8", "r9", "r10", "r11">>
  ELSE <<"rax", "rcx", "rdx", "r8", "r9", "r10", "r11">>

LEMMA SevenOrNine ==
  /\ convention = "sysv" =>
       /\ \A j \in 1 .. 9 : Pushed[j] \in Registers
       /\ \A i, j \in 1 .. 9 : i # j => Pushed[i] # Pushed[j]
       /\ \A r \in Registers : \E j \in 1 .. 9 : r = Pushed[j]
  /\ convention = "win64" =>
       /\ \A j \in 1 .. 7 : Pushed[j] \in Registers \ {"rsi", "rdi"}
       /\ \A i, j \in 1 .. 7 : i # j => Pushed[i] # Pushed[j]
       /\ \A r \in Registers \ {"rsi", "rdi"} : \E j \in 1 .. 7 : r = Pushed[j]
<1>1. ASSUME convention = "sysv"
      PROVE  /\ \A j \in 1 .. 9 : Pushed[j] \in Registers
             /\ \A i, j \in 1 .. 9 : i # j => Pushed[i] # Pushed[j]
             /\ \A r \in Registers : \E j \in 1 .. 9 : r = Pushed[j]
  <2>1. 1 .. 9 = {1, 2, 3, 4, 5, 6, 7, 8, 9}
    OBVIOUS
  <2>2. /\ Pushed[1] = "rax" /\ Pushed[2] = "rcx" /\ Pushed[3] = "rdx"
        /\ Pushed[4] = "rsi" /\ Pushed[5] = "rdi" /\ Pushed[6] = "r8"
        /\ Pushed[7] = "r9" /\ Pushed[8] = "r10" /\ Pushed[9] = "r11"
    BY <1>1 DEF Pushed
  <2>3. \A j \in 1 .. 9 : Pushed[j] \in Registers
    BY <2>1, <2>2 DEF Registers
  <2>4. \A i, j \in 1 .. 9 : i # j => Pushed[i] # Pushed[j]
    BY <2>1, <2>2
  <2>5. \A r \in Registers : \E j \in 1 .. 9 : r = Pushed[j]
    BY <2>1, <2>2 DEF Registers
  <2> QED
    BY <2>3, <2>4, <2>5
<1>2. ASSUME convention = "win64"
      PROVE  /\ \A j \in 1 .. 7 : Pushed[j] \in Registers \ {"rsi", "rdi"}
             /\ \A i, j \in 1 .. 7 : i # j => Pushed[i] # Pushed[j]
             /\ \A r \in Registers \ {"rsi", "rdi"} : \E j \in 1 .. 7 : r = Pushed[j]
  <2>1. 1 .. 7 = {1, 2, 3, 4, 5, 6, 7}
    OBVIOUS
  <2>2. /\ Pushed[1] = "rax" /\ Pushed[2] = "rcx" /\ Pushed[3] = "rdx"
        /\ Pushed[4] = "r8" /\ Pushed[5] = "r9" /\ Pushed[6] = "r10"
        /\ Pushed[7] = "r11"
    BY <1>2 DEF Pushed
  <2>3. \A j \in 1 .. 7 : Pushed[j] \in Registers \ {"rsi", "rdi"}
    BY <2>1, <2>2 DEF Registers
  <2>4. \A i, j \in 1 .. 7 : i # j => Pushed[i] # Pushed[j]
    BY <2>1, <2>2
  <2>5. \A r \in Registers \ {"rsi", "rdi"} : \E j \in 1 .. 7 : r = Pushed[j]
    BY <2>1, <2>2 DEF Registers
  <2> QED
    BY <2>3, <2>4, <2>5
<1> QED
  BY <1>1, <1>2

\* e consists of four pieces of code in a row.
InARow(e, a, b, c, d) ==
  /\ Len(e) = Len(a) + Len(b) + Len(c) + Len(d)
  /\ \A i \in 1 .. Len(a) : e[i] = a[i]
  /\ \A i \in 1 .. Len(b) : e[Len(a) + i] = b[i]
  /\ \A i \in 1 .. Len(c) : e[Len(a) + Len(b) + i] = c[i]
  /\ \A i \in 1 .. Len(d) : e[Len(a) + Len(b) + Len(c) + i] = d[i]

LEMMA Concatenated ==
  ASSUME NEW S, NEW a \in Seq(S), NEW b \in Seq(S), NEW c \in Seq(S), NEW d \in Seq(S)
  PROVE  InARow(a \o b \o c \o d, a, b, c, d)
<1>1. PICK ab \in Seq(S) : ab = a \o b
  BY ConcatProperties
<1>2. PICK abc \in Seq(S) : abc = ab \o c
  BY ConcatProperties
<1>3. /\ Len(ab) = Len(a) + Len(b) /\ Len(a) \in Nat /\ Len(b) \in Nat
      /\ \A i \in 1 .. Len(a) : ab[i] = a[i]
      /\ \A i \in 1 .. Len(b) : ab[Len(a) + i] = b[i]
  BY <1>1
<1>4. /\ Len(abc) = Len(ab) + Len(c) /\ Len(c) \in Nat
      /\ \A i \in 1 .. Len(ab) : abc[i] = ab[i]
      /\ \A i \in 1 .. Len(c) : abc[Len(ab) + i] = c[i]
  BY <1>2
<1>5. PICK abcd : abcd = abc \o d
  OBVIOUS
<1>6. /\ Len(abcd) = Len(abc) + Len(d) /\ Len(d) \in Nat
      /\ \A i \in 1 .. Len(abc) : abcd[i] = abc[i]
      /\ \A i \in 1 .. Len(d) : abcd[Len(abc) + i] = d[i]
  BY <1>5
<1>7. abcd = a \o b \o c \o d
  BY <1>1, <1>2, <1>5
<1>8. Len(abcd) = Len(a) + Len(b) + Len(c) + Len(d)
  BY <1>3, <1>4, <1>6
<1>9. \A i \in 1 .. Len(a) : abcd[i] = a[i]
  <2> SUFFICES ASSUME NEW i \in 1 .. Len(a) PROVE abcd[i] = a[i]
    OBVIOUS
  <2>1. i \in 1 .. Len(ab) /\ i \in 1 .. Len(abc)
    BY <1>3, <1>4
  <2> QED
    BY <2>1, <1>3, <1>4, <1>6
<1>10. \A i \in 1 .. Len(b) : abcd[Len(a) + i] = b[i]
  <2> SUFFICES ASSUME NEW i \in 1 .. Len(b) PROVE abcd[Len(a) + i] = b[i]
    OBVIOUS
  <2>1. Len(a) + i \in 1 .. Len(ab) /\ Len(a) + i \in 1 .. Len(abc)
    BY <1>3, <1>4
  <2> QED
    BY <2>1, <1>3, <1>4, <1>6
<1>11. \A i \in 1 .. Len(c) : abcd[Len(a) + Len(b) + i] = c[i]
  <2> SUFFICES ASSUME NEW i \in 1 .. Len(c) PROVE abcd[Len(a) + Len(b) + i] = c[i]
    OBVIOUS
  <2>1. Len(ab) + i \in 1 .. Len(abc) /\ Len(ab) + i = Len(a) + Len(b) + i
    BY <1>3, <1>4
  <2> QED
    BY <2>1, <1>4, <1>6
<1>12. \A i \in 1 .. Len(d) : abcd[Len(a) + Len(b) + Len(c) + i] = d[i]
  <2> SUFFICES ASSUME NEW i \in 1 .. Len(d)
               PROVE  abcd[Len(a) + Len(b) + Len(c) + i] = d[i]
    OBVIOUS
  <2>1. Len(abc) + i = Len(a) + Len(b) + Len(c) + i
    BY <1>3, <1>4
  <2> QED
    BY <2>1, <1>6
<1> QED
  BY <1>7, <1>8, <1>9, <1>10, <1>11, <1>12 DEF InARow

\* Every instruction of a hook.
Stubs == {"EnterStub", "LeaveStub", "TailcallStub"}
Instructions ==
  {Push(r) : r \in Registers} \cup {Pop(r) : r \in Registers}
    \cup {Call(s) : s \in Stubs} \cup {Add(-4), Add(4), Ret}

LEMMA StubOf ==
  ASSUME hook \in DOMAIN Hook
  PROVE  \E stub \in Stubs : Code = Naked(stub)[convention]
<1>1. hook \in {"enter", "leave", "tailcall"}
  BY DEF Hook
<1>2. CASE hook = "enter"
  BY <1>2 DEF Code, Hook, EnterNaked, Stubs
<1>3. CASE hook = "leave"
  BY <1>3 DEF Code, Hook, LeaveNaked, Stubs
<1>4. CASE hook = "tailcall"
  BY <1>4 DEF Code, Hook, TailcallNaked, Stubs
<1> QED
  BY <1>1, <1>2, <1>3, <1>4

LEMMA PiecesOfCode ==
  /\ SysvPushes \in Seq(Instructions) /\ Len(SysvPushes) = 9
  /\ SysvPops \in Seq(Instructions) /\ Len(SysvPops) = 9
  /\ Win64Pushes \in Seq(Instructions) /\ Len(Win64Pushes) = 7
  /\ Win64Pops \in Seq(Instructions) /\ Len(Win64Pops) = 7
  /\ \A stub \in Stubs :
       /\ <<Call(stub)>> \in Seq(Instructions)
       /\ <<Add(-4), Call(stub), Add(4)>> \in Seq(Instructions)
  /\ <<Ret>> \in Seq(Instructions)
<1>1. \A r \in Registers : Push(r) \in Instructions /\ Pop(r) \in Instructions
  BY DEF Instructions
<1>2. SysvPushes \in Seq(Instructions) /\ Len(SysvPushes) = 9
  BY <1>1 DEF SysvPushes, Registers
<1>3. SysvPops \in Seq(Instructions) /\ Len(SysvPops) = 9
  BY <1>1 DEF SysvPops, Registers
<1>4. Win64Pushes \in Seq(Instructions) /\ Len(Win64Pushes) = 7
  BY <1>1 DEF Win64Pushes, Registers
<1>5. Win64Pops \in Seq(Instructions) /\ Len(Win64Pops) = 7
  BY <1>1 DEF Win64Pops, Registers
<1>6. Add(-4) \in Instructions /\ Add(4) \in Instructions /\ Ret \in Instructions
  BY DEF Instructions
<1>7. ASSUME NEW stub \in Stubs
      PROVE  /\ <<Call(stub)>> \in Seq(Instructions)
             /\ <<Add(-4), Call(stub), Add(4)>> \in Seq(Instructions)
  <2>1. Call(stub) \in Instructions
    BY DEF Instructions
  <2> QED
    BY <2>1, <1>6
<1> QED
  BY <1>2, <1>3, <1>4, <1>5, <1>6, <1>7

\* The code of a hook for Linux, instruction by instruction.
LEMMA SysvCode ==
  ASSUME convention = "sysv", hook \in DOMAIN Hook
  PROVE  /\ Len(Code) = 20
         /\ \A i \in 1 .. 9 : Code[i] = Push(Pushed[i])
         /\ \A i \in 1 .. 9 : Code[10 + i] = Pop(Pushed[10 - i])
         /\ Code[10].op = "call" /\ Code[20].op = "ret"
<1>1. PICK stub \in Stubs : Code = SysvPushes \o <<Call(stub)>> \o SysvPops \o <<Ret>>
  BY StubOf DEF Naked
<1>2. PICK b, d : b = <<Call(stub)>> /\ d = <<Ret>>
  OBVIOUS
<1>3. /\ b \in Seq(Instructions) /\ Len(b) = 1 /\ b[1] = Call(stub)
      /\ d \in Seq(Instructions) /\ Len(d) = 1 /\ d[1] = Ret
  BY <1>2, PiecesOfCode
<1>4. Code = SysvPushes \o b \o SysvPops \o d
  BY <1>1, <1>2
<1>5. /\ Len(Code) = 20
      /\ \A i \in 1 .. 9 : Code[i] = SysvPushes[i]
      /\ \A i \in 1 .. 1 : Code[9 + i] = b[i]
      /\ \A i \in 1 .. 9 : Code[9 + 1 + i] = SysvPops[i]
      /\ \A i \in 1 .. 1 : Code[9 + 1 + 9 + i] = d[i]
  <2>1. /\ SysvPushes \in Seq(Instructions) /\ SysvPops \in Seq(Instructions)
        /\ Len(SysvPushes) = 9 /\ Len(SysvPops) = 9
    BY PiecesOfCode
  <2>2. InARow(Code, SysvPushes, b, SysvPops, d)
    BY <2>1, <1>3, <1>4, Concatenated
  <2> QED
    BY <2>1, <2>2, <1>3 DEF InARow
<1>6. Code[10] = Call(stub) /\ Code[20] = Ret
  <2>1. Code[9 + 1] = b[1] /\ Code[9 + 1 + 9 + 1] = d[1]
    BY <1>5
  <2> QED
    BY <2>1, <1>3
<1>7. \A i \in 1 .. 9 : SysvPushes[i] = Push(Pushed[i]) /\ SysvPops[i] = Pop(Pushed[10 - i])
  <2> SUFFICES ASSUME NEW i \in 1 .. 9
               PROVE  SysvPushes[i] = Push(Pushed[i]) /\ SysvPops[i] = Pop(Pushed[10 - i])
    OBVIOUS
  <2>1. i \in {1, 2, 3, 4, 5, 6, 7, 8, 9}
    OBVIOUS
  <2> QED
    BY <2>1 DEF SysvPushes, SysvPops, Pushed
<1>8. \A i \in 1 .. 9 : Code[10 + i] = SysvPops[i]
  BY <1>5
<1> QED
  BY <1>5, <1>6, <1>7, <1>8 DEF Call, Ret

\* The code of a hook for Windows, instruction by instruction.
LEMMA Win64Code ==
  ASSUME convention = "win64", hook \in DOMAIN Hook
  PROVE  /\ Len(Code) = 18
         /\ \A i \in 1 .. 7 : Code[i] = Push(Pushed[i])
         /\ \A i \in 1 .. 7 : Code[10 + i] = Pop(Pushed[8 - i])
         /\ Code[8] = Add(-4) /\ Code[9].op = "call" /\ Code[10] = Add(4)
         /\ Code[18].op = "ret"
<1>1. PICK stub \in Stubs :
        Code = Win64Pushes \o <<Add(-4), Call(stub), Add(4)>> \o Win64Pops \o <<Ret>>
  BY StubOf DEF Naked
<1>2. PICK b, d : b = <<Add(-4), Call(stub), Add(4)>> /\ d = <<Ret>>
  OBVIOUS
<1>3. /\ b \in Seq(Instructions) /\ Len(b) = 3
      /\ b[1] = Add(-4) /\ b[2] = Call(stub) /\ b[3] = Add(4)
      /\ d \in Seq(Instructions) /\ Len(d) = 1 /\ d[1] = Ret
  BY <1>2, PiecesOfCode
<1>4. Code = Win64Pushes \o b \o Win64Pops \o d
  BY <1>1, <1>2
<1>5. /\ Len(Code) = 18
      /\ \A i \in 1 .. 7 : Code[i] = Win64Pushes[i]
      /\ \A i \in 1 .. 3 : Code[7 + i] = b[i]
      /\ \A i \in 1 .. 7 : Code[7 + 3 + i] = Win64Pops[i]
      /\ \A i \in 1 .. 1 : Code[7 + 3 + 7 + i] = d[i]
  <2>1. /\ Win64Pushes \in Seq(Instructions) /\ Win64Pops \in Seq(Instructions)
        /\ Len(Win64Pushes) = 7 /\ Len(Win64Pops) = 7
    BY PiecesOfCode
  <2>2. InARow(Code, Win64Pushes, b, Win64Pops, d)
    BY <2>1, <1>3, <1>4, Concatenated
  <2> QED
    BY <2>1, <2>2, <1>3 DEF InARow
<1>6. /\ Code[8] = Add(-4) /\ Code[9] = Call(stub) /\ Code[10] = Add(4)
      /\ Code[18] = Ret
  <2>1. /\ Code[7 + 1] = b[1] /\ Code[7 + 2] = b[2] /\ Code[7 + 3] = b[3]
        /\ Code[7 + 3 + 7 + 1] = d[1]
    BY <1>5
  <2> QED
    BY <2>1, <1>3
<1>7. \A i \in 1 .. 7 : Win64Pushes[i] = Push(Pushed[i]) /\ Win64Pops[i] = Pop(Pushed[8 - i])
  <2> SUFFICES ASSUME NEW i \in 1 .. 7
               PROVE  Win64Pushes[i] = Push(Pushed[i]) /\ Win64Pops[i] = Pop(Pushed[8 - i])
    OBVIOUS
  <2>1. i \in {1, 2, 3, 4, 5, 6, 7}
    OBVIOUS
  <2> QED
    BY <2>1 DEF Win64Pushes, Win64Pops, Pushed
<1>8. \A i \in 1 .. 7 : Code[10 + i] = Win64Pops[i]
  BY <1>5
<1> QED
  BY <1>5, <1>6, <1>7, <1>8 DEF Call, Ret

\* The first n registers are saved below the return address, and the
\* caller's part of the stack is as it was.
SavedTo(n) == \A j \in 1 .. n : stack[EntryRsp - j] = CallersRegs[Pushed[j]]
CallersPart == stack[19] = "return" /\ stack[20] = "caller"
Restored(j) == regs[Pushed[j]] = CallersRegs[Pushed[j]]

SysvInv ==
  /\ CallersPart /\ ip \in 1 .. 20
  /\ ip <= 10 => rsp = 20 - ip /\ regs = CallersRegs /\ SavedTo(ip - 1)
  /\ ip >= 11 => rsp = ip - 1 /\ SavedTo(20 - ip) /\ \A j \in 21 - ip .. 9 : Restored(j)

\* Windows: the call has room of four slots, and RSI and RDI are the callee's
\* to save.
Win64Inv ==
  /\ CallersPart /\ ip \in 1 .. 18
  /\ ip <= 8 => rsp = 20 - ip /\ regs = CallersRegs /\ SavedTo(ip - 1)
  /\ ip = 9 => rsp = 8 /\ regs = CallersRegs
  /\ ip = 10 => rsp = 8
  /\ ip \in 9 .. 11 => SavedTo(7)
  /\ ip >= 10 => \A r \in {"rsi", "rdi"} : regs[r] = CallersRegs[r]
  /\ ip >= 11 => rsp = ip + 1 /\ SavedTo(18 - ip) /\ \A j \in 19 - ip .. 7 : Restored(j)

MachineInv ==
  /\ convention \in Conventions /\ hook \in DOMAIN Hook /\ ip \in Nat
  /\ regs \in [Registers -> Contents] /\ stack \in [Slots -> Contents]
  /\ rsp \in Slots
  /\ ip # 0 /\ convention = "sysv" => SysvInv
  /\ ip # 0 /\ convention = "win64" => Win64Inv

\* What is said of the machine is said of its registers and of its code.
LEMMA SysvKinds ==
  ASSUME MachineInv, convention = "sysv"
  PROVE  /\ Executes("push") => ip \in 1 .. 9 /\ Instruction.reg = Pushed[ip]
         /\ Executes("pop") => ip \in 11 .. 19 /\ Instruction.reg = Pushed[20 - ip]
         /\ ~Executes("add")
         /\ Executes("call") => ip = 10
         /\ Executes("ret") => ip = 20
<1> SUFFICES ASSUME ip # 0
             PROVE  /\ Executes("push") => ip \in 1 .. 9 /\ Instruction.reg = Pushed[ip]
                    /\ Executes("pop") => ip \in 11 .. 19 /\ Instruction.reg = Pushed[20 - ip]
                    /\ ~Executes("add")
                    /\ Executes("call") => ip = 10
                    /\ Executes("ret") => ip = 20
  BY DEF Executes
<1>1. ip \in 1 .. 20 /\ hook \in DOMAIN Hook
  BY DEF MachineInv, SysvInv
<1>2. CASE ip \in 1 .. 9
  <2>1. Code[ip] = Push(Pushed[ip])
    BY <1>1, <1>2, SysvCode
  <2> QED
    BY <1>2, <2>1 DEF Executes, Instruction, Push
<1>3. CASE ip \in 11 .. 19
  <2>1. PICK i \in 1 .. 9 : ip = 10 + i /\ 10 - i = 20 - ip
    <3>1. ip - 10 \in 1 .. 9 /\ ip = 10 + (ip - 10) /\ 10 - (ip - 10) = 20 - ip
      BY <1>3
    <3> QED
      BY <3>1
  <2>2. Code[ip] = Pop(Pushed[20 - ip])
    BY <1>1, <2>1, SysvCode
  <2> QED
    BY <1>3, <2>2 DEF Executes, Instruction, Pop
<1>4. CASE ip = 10
  BY <1>1, <1>4, SysvCode DEF Executes, Instruction
<1>5. CASE ip = 20
  BY <1>1, <1>5, SysvCode DEF Executes, Instruction
<1> QED
  BY <1>1, <1>2, <1>3, <1>4, <1>5

LEMMA Win64Kinds ==
  ASSUME MachineInv, convention = "win64"
  PROVE  /\ Executes("push") => ip \in 1 .. 7 /\ Instruction.reg = Pushed[ip]
         /\ Executes("pop") => ip \in 11 .. 17 /\ Instruction.reg = Pushed[18 - ip]
         /\ Executes("add") => (ip = 8 /\ Instruction.n = -4) \/ (ip = 10 /\ Instruction.n = 4)
         /\ Executes("call") => ip = 9
         /\ Executes("ret") => ip = 18
<1> SUFFICES ASSUME ip # 0
             PROVE  /\ Executes("push") => ip \in 1 .. 7 /\ Instruction.reg = Pushed[ip]
                    /\ Executes("pop") => ip \in 11 .. 17 /\ Instruction.reg = Pushed[18 - ip]
                    /\ Executes("add") =>
                         (ip = 8 /\ Instruction.n = -4) \/ (ip = 10 /\ Instruction.n = 4)
                    /\ Executes("call") => ip = 9
                    /\ Executes("ret") => ip = 18
  BY DEF Executes
<1>1. ip \in 1 .. 18 /\ hook \in DOMAIN Hook
  BY DEF MachineInv, Win64Inv
<1>2. CASE ip \in 1 .. 7
  <2>1. Code[ip] = Push(Pushed[ip])
    BY <1>1, <1>2, Win64Code
  <2> QED
    BY <1>2, <2>1 DEF Executes, Instruction, Push
<1>3. CASE ip \in 11 .. 17
  <2>1. PICK i \in 1 .. 7 : ip = 10 + i /\ 8 - i = 18 - ip
    <3>1. ip - 10 \in 1 .. 7 /\ ip = 10 + (ip - 10) /\ 8 - (ip - 10) = 18 - ip
      BY <1>3
    <3> QED
      BY <3>1
  <2>2. Code[ip] = Pop(Pushed[18 - ip])
    BY <1>1, <2>1, Win64Code
  <2> QED
    BY <1>3, <2>2 DEF Executes, Instruction, Pop
<1>4. CASE ip \in {8, 10}
  BY <1>1, <1>4, Win64Code DEF Executes, Instruction, Add
<1>5. CASE ip \in {9, 18}
  BY <1>1, <1>5, Win64Code DEF Executes, Instruction
<1> QED
  BY <1>1, <1>2, <1>3, <1>4, <1>5

\* What a hook starts with does not depend on how far it is.
LEMMA SameCaller ==
  ASSUME UNCHANGED convention
  PROVE  CallersRegs' = CallersRegs /\ Pushed' = Pushed
BY DEF CallersRegs, FirstArgument, Pushed

LEMMA CallersRegsType == CallersRegs \in [Registers -> Contents]
BY DEF CallersRegs, Contents, FirstArgument

LEMMA MachineInit == AtRest /\ convention \in Conventions => MachineInv
<1> SUFFICES ASSUME AtRest, convention \in Conventions PROVE MachineInv
  OBVIOUS
<1>1. stack \in [Slots -> Contents]
  BY DEF AtRest, CallersStack, Contents
<1>2. regs \in [Registers -> Contents] /\ rsp \in Slots
  BY CallersRegsType DEF AtRest, Slots, EntryRsp
<1>3. hook \in DOMAIN Hook /\ ip = 0
  BY DEF AtRest, Hook
<1> QED
  BY <1>1, <1>2, <1>3 DEF MachineInv

LEMMA MachineCalled ==
  ASSUME MachineInv, NEW h \in DOMAIN Hook, NEW id, CallHook(h, id)
  PROVE  MachineInv'
<1>1. /\ ip' = 1 /\ hook' = h /\ rsp' = 19 /\ stack' = CallersStack
      /\ regs' = CallersRegs /\ UNCHANGED convention
  BY DEF CallHook, EntryRsp
<1>2. CallersRegs' = CallersRegs
  BY <1>1, SameCaller
<1>3. stack' \in [Slots -> Contents] /\ stack'[19] = "return" /\ stack'[20] = "caller"
  BY <1>1 DEF CallersStack, Contents, EntryRsp, Slots
<1>4. /\ convention' \in Conventions /\ hook' \in DOMAIN Hook /\ ip' \in Nat
      /\ regs' \in [Registers -> Contents] /\ rsp' \in Slots
  BY <1>1, CallersRegsType DEF MachineInv, Slots
<1>5. (SavedTo(ip - 1))'
  BY <1>1 DEF SavedTo
<1>6. SysvInv'
  BY <1>1, <1>2, <1>3, <1>5 DEF SysvInv, CallersPart
<1>7. Win64Inv'
  BY <1>1, <1>2, <1>3, <1>5 DEF Win64Inv, CallersPart
<1> QED
  BY <1>3, <1>4, <1>6, <1>7 DEF MachineInv

\* A push saves the next register one slot lower.
LEMMA MachinePush ==
  ASSUME MachineInv, ExecutePush
  PROVE  MachineInv'
<1>1. /\ ip # 0 /\ rsp' = rsp - 1 /\ ip' = ip + 1 /\ Executes("push")
      /\ stack' = [stack EXCEPT ![rsp - 1] = regs[Instruction.reg]]
      /\ UNCHANGED <<convention, regs, hook>>
  BY DEF ExecutePush, Executes
<1>2. convention \in {"sysv", "win64"}
  BY DEF MachineInv, Conventions
<1>3. CallersRegs' = CallersRegs /\ Pushed' = Pushed
  BY <1>1, SameCaller
<1>4. /\ ip \in 1 .. 9 /\ Instruction.reg = Pushed[ip] /\ Pushed[ip] \in Registers
      /\ rsp = 20 - ip /\ regs = CallersRegs /\ SavedTo(ip - 1) /\ CallersPart
      /\ convention = "win64" => ip <= 7
  <2>1. CASE convention = "sysv"
    <3>1. ip \in 1 .. 9 /\ Instruction.reg = Pushed[ip]
      BY <1>1, <2>1, SysvKinds
    <3> QED
      BY <1>1, <2>1, <3>1, SevenOrNine DEF MachineInv, SysvInv
  <2>2. CASE convention = "win64"
    <3>1. ip \in 1 .. 7 /\ Instruction.reg = Pushed[ip]
      BY <1>1, <2>2, Win64Kinds
    <3> QED
      BY <1>1, <2>2, <3>1, SevenOrNine DEF MachineInv, Win64Inv
  <2> QED
    BY <1>2, <2>1, <2>2
<1>5. /\ stack \in [Slots -> Contents] /\ regs \in [Registers -> Contents]
      /\ rsp - 1 = 19 - ip /\ 19 - ip \in Slots
  BY <1>4 DEF MachineInv, Slots
<1>6. /\ stack' \in [Slots -> Contents]
      /\ \A s \in Slots : stack'[s] = IF s = 19 - ip THEN CallersRegs[Pushed[ip]] ELSE stack[s]
  BY <1>1, <1>4, <1>5
<1>7. CallersPart'
  BY <1>4, <1>6 DEF CallersPart, Slots
<1>8. (SavedTo(ip - 1))'
  <2> SUFFICES ASSUME NEW j \in 1 .. ip PROVE stack'[19 - j] = CallersRegs[Pushed[j]]
    BY <1>1, <1>3, <1>4 DEF SavedTo, EntryRsp
  <2>1. 19 - j \in Slots /\ ip \in Nat
    BY <1>4 DEF Slots
  <2>2. CASE j = ip
    BY <2>1, <2>2, <1>6
  <2>3. CASE j # ip
    <3>1. j \in 1 .. ip - 1 /\ 19 - j # 19 - ip
      BY <2>1, <2>3
    <3>2. stack[19 - j] = CallersRegs[Pushed[j]]
      BY <1>4, <3>1 DEF SavedTo, EntryRsp
    <3> QED
      BY <1>6, <2>1, <3>1, <3>2
  <2> QED
    BY <2>2, <2>3
<1>9. /\ rsp' = 20 - ip' /\ rsp' \in Slots /\ ip' \in 2 .. 10 /\ regs' = CallersRegs'
      /\ convention = "win64" => ip' <= 8
  BY <1>1, <1>3, <1>4 DEF Slots
<1>10. SysvInv'
  <2>1. ip' \in 1 .. 20 /\ ip' <= 10 /\ ~(ip' >= 11) /\ rsp' = 20 - ip'
    BY <1>9
  <2>2. CallersPart' /\ regs' = CallersRegs' /\ (SavedTo(ip - 1))'
    BY <1>7, <1>8, <1>9
  <2> QED
    BY ONLY <2>1, <2>2 DEF SysvInv
<1>11. convention = "win64" => Win64Inv'
  <2>1. ASSUME convention = "win64"
        PROVE  /\ ip' \in 1 .. 18 /\ ip' <= 8 /\ ~(ip' >= 10) /\ ~(ip' >= 11)
               /\ ip' # 9 /\ ip' # 10 /\ ip' \notin 9 .. 11 /\ rsp' = 20 - ip'
    BY <1>9, <2>1
  <2>2. CallersPart' /\ regs' = CallersRegs' /\ (SavedTo(ip - 1))'
    BY <1>7, <1>8, <1>9
  <2> QED
    BY ONLY <2>1, <2>2 DEF Win64Inv
<1> QED
  BY <1>1, <1>6, <1>9, <1>10, <1>11 DEF MachineInv

\* A pop restores the register that was saved last of those still saved; k
\* is the number of the register.
LEMMA PopRestores ==
  ASSUME MachineInv, Executes("pop"), ExecutePop,
         NEW n \in {7, 9}, NEW k \in 1 .. n,
         \A j \in 1 .. n : Pushed[j] \in Registers,
         \A i, j \in 1 .. n : i # j => Pushed[i] # Pushed[j],
         Instruction.reg = Pushed[k], rsp = EntryRsp - k, SavedTo(k),
         \A j \in k + 1 .. n : Restored(j)
  PROVE  /\ regs' \in [Registers -> Contents] /\ rsp' = EntryRsp - (k - 1)
         /\ \A j \in 1 .. k - 1 : stack'[EntryRsp - j] = CallersRegs'[Pushed'[j]]
         /\ \A j \in k .. n : regs'[Pushed'[j]] = CallersRegs'[Pushed'[j]]
         /\ \A r \in Registers : r # Pushed[k] => regs'[r] = regs[r]
<1>1. /\ regs' = [regs EXCEPT ![Pushed[k]] = stack[rsp]] /\ rsp' = rsp + 1
      /\ UNCHANGED <<convention, stack>>
  BY DEF ExecutePop
<1>2. CallersRegs' = CallersRegs /\ Pushed' = Pushed
  BY <1>1, SameCaller
<1>3. stack[rsp] = CallersRegs[Pushed[k]] /\ Pushed[k] \in Registers
  BY DEF SavedTo
<1>4. regs \in [Registers -> Contents] /\ stack[rsp] \in Contents
  BY DEF MachineInv
<1>5. /\ regs' \in [Registers -> Contents]
      /\ \A r \in Registers :
           regs'[r] = IF r = Pushed[k] THEN CallersRegs[Pushed[k]] ELSE regs[r]
  BY <1>1, <1>3, <1>4
<1>6. rsp' = EntryRsp - (k - 1)
  BY <1>1 DEF EntryRsp
<1>7. \A j \in 1 .. k - 1 : stack'[EntryRsp - j] = CallersRegs'[Pushed'[j]]
  BY <1>1, <1>2 DEF SavedTo
<1>8. ASSUME NEW j \in k .. n PROVE regs'[Pushed[j]] = CallersRegs[Pushed[j]]
  <2>1. j \in 1 .. n /\ Pushed[j] \in Registers
    OBVIOUS
  <2>2. CASE j = k
    BY <2>1, <2>2, <1>5
  <2>3. CASE j # k
    <3>1. j \in k + 1 .. n /\ Pushed[j] # Pushed[k]
      BY <2>1, <2>3
    <3>2. regs[Pushed[j]] = CallersRegs[Pushed[j]]
      BY <3>1 DEF Restored
    <3> QED
      BY <2>1, <3>1, <3>2, <1>5
  <2> QED
    BY <2>2, <2>3
<1> QED
  BY <1>2, <1>5, <1>6, <1>7, <1>8

LEMMA MachinePop ==
  ASSUME MachineInv, ExecutePop
  PROVE  MachineInv'
<1>1. /\ Executes("pop") /\ ip # 0 /\ ip' = ip + 1
      /\ UNCHANGED <<convention, stack, hook>>
  BY DEF ExecutePop, Executes
<1>2. CASE convention = "sysv"
  <2>1. ip \in 11 .. 19 /\ Instruction.reg = Pushed[20 - ip]
    BY <1>1, <1>2, SysvKinds
  <2>2. PICK k \in 1 .. 9 : k = 20 - ip /\ ip = 20 - k
    <3>1. 20 - ip \in 1 .. 9 /\ ip = 20 - (20 - ip)
      BY <2>1
    <3> QED
      BY <3>1
  <2>3. rsp = EntryRsp - k /\ SavedTo(k) /\ (\A j \in k + 1 .. 9 : Restored(j)) /\ CallersPart
    <3>1. SysvInv /\ ip >= 11
      BY <1>1, <1>2, <2>1 DEF MachineInv
    <3>2. 21 - ip = k + 1 /\ ip - 1 = 19 - k
      BY <2>1, <2>2
    <3> QED
      BY <3>1, <3>2, <2>2 DEF SysvInv, EntryRsp
  <2>4. /\ \A j \in 1 .. 9 : Pushed[j] \in Registers
        /\ \A i, j \in 1 .. 9 : i # j => Pushed[i] # Pushed[j]
    BY <1>2, SevenOrNine
  <2>5. /\ regs' \in [Registers -> Contents] /\ rsp' = EntryRsp - (k - 1)
        /\ \A j \in 1 .. k - 1 : stack'[EntryRsp - j] = CallersRegs'[Pushed'[j]]
        /\ \A j \in k .. 9 : regs'[Pushed'[j]] = CallersRegs'[Pushed'[j]]
    BY <1>1, <2>1, <2>2, <2>3, <2>4, PopRestores
  <2>6. /\ ip' \in 12 .. 20 /\ ip' \in 1 .. 20 /\ ~(ip' <= 10) /\ 20 - ip' = k - 1
        /\ 21 - ip' = k /\ ip' \in Nat /\ rsp' = ip' - 1 /\ rsp' \in Slots
    BY <1>1, <2>1, <2>2, <2>5 DEF EntryRsp, Slots
  <2>7. SysvInv'
    <3>1. (SavedTo(20 - ip))' /\ \A j \in (21 - ip)' .. 9 : Restored(j)'
      BY <2>5, <2>6 DEF SavedTo, Restored
    <3>2. CallersPart'
      BY <1>1, <2>3 DEF CallersPart
    <3> QED
      BY <2>6, <3>1, <3>2 DEF SysvInv
  <2> QED
    BY <1>1, <1>2, <2>5, <2>6, <2>7 DEF MachineInv
<1>3. CASE convention = "win64"
  <2>1. ip \in 11 .. 17 /\ Instruction.reg = Pushed[18 - ip]
    BY <1>1, <1>3, Win64Kinds
  <2>2. PICK k \in 1 .. 7 : k = 18 - ip /\ ip = 18 - k
    <3>1. 18 - ip \in 1 .. 7 /\ ip = 18 - (18 - ip)
      BY <2>1
    <3> QED
      BY <3>1
  <2>3. /\ rsp = EntryRsp - k /\ SavedTo(k) /\ (\A j \in k + 1 .. 7 : Restored(j))
        /\ CallersPart /\ \A r \in {"rsi", "rdi"} : regs[r] = CallersRegs[r]
    <3>1. Win64Inv /\ ip >= 11 /\ ip >= 10
      BY <1>1, <1>3, <2>1 DEF MachineInv
    <3>2. 19 - ip = k + 1 /\ ip + 1 = 19 - k
      BY <2>1, <2>2
    <3> QED
      BY <3>1, <3>2, <2>2 DEF Win64Inv, EntryRsp
  <2>4. /\ \A j \in 1 .. 7 : Pushed[j] \in Registers \ {"rsi", "rdi"}
        /\ \A j \in 1 .. 7 : Pushed[j] \in Registers
        /\ \A i, j \in 1 .. 7 : i # j => Pushed[i] # Pushed[j]
    BY <1>3, SevenOrNine
  <2>5. /\ regs' \in [Registers -> Contents] /\ rsp' = EntryRsp - (k - 1)
        /\ \A j \in 1 .. k - 1 : stack'[EntryRsp - j] = CallersRegs'[Pushed'[j]]
        /\ \A j \in k .. 7 : regs'[Pushed'[j]] = CallersRegs'[Pushed'[j]]
        /\ \A r \in Registers : r # Pushed[k] => regs'[r] = regs[r]
    BY <1>1, <2>1, <2>2, <2>3, <2>4, PopRestores
  <2>6. /\ ip' \in 12 .. 18 /\ ip' \in 1 .. 18 /\ ~(ip' <= 8) /\ ip' # 9 /\ ip' # 10
        /\ ip' \notin 9 .. 11 /\ 18 - ip' = k - 1 /\ 19 - ip' = k /\ ip' \in Nat
        /\ rsp' = ip' + 1 /\ rsp' \in Slots
    BY <1>1, <2>1, <2>2, <2>5 DEF EntryRsp, Slots
  <2>7. Win64Inv'
    <3>1. (SavedTo(18 - ip))' /\ \A j \in (19 - ip)' .. 7 : Restored(j)'
      BY <2>5, <2>6 DEF SavedTo, Restored
    <3>2. CallersPart'
      BY <1>1, <2>3 DEF CallersPart
    <3>3. \A r \in {"rsi", "rdi"} : regs'[r] = CallersRegs'[r]
      <4>1. CallersRegs' = CallersRegs /\ "rsi" \in Registers /\ "rdi" \in Registers
        BY <1>1, SameCaller DEF Registers
      <4> QED
        BY <4>1, <2>3, <2>4, <2>5
    <3> QED
      BY <2>6, <3>1, <3>2, <3>3 DEF Win64Inv
  <2> QED
    BY <1>1, <1>3, <2>5, <2>6, <2>7 DEF MachineInv
<1> QED
  BY <1>2, <1>3 DEF MachineInv, Conventions

\* On Windows, room is made for the call and given back after it.
LEMMA MachineAdd ==
  ASSUME MachineInv, ExecuteAdd
  PROVE  MachineInv'
<1>1. /\ Executes("add") /\ ip # 0 /\ ip' = ip + 1 /\ rsp' = rsp + Instruction.n
      /\ UNCHANGED <<convention, regs, stack, hook>>
  BY DEF ExecuteAdd, Executes
<1>2. convention = "win64"
  BY <1>1, SysvKinds DEF MachineInv, Conventions
<1>3. (ip = 8 /\ Instruction.n = -4) \/ (ip = 10 /\ Instruction.n = 4)
  BY <1>1, <1>2, Win64Kinds
<1>4. Win64Inv /\ CallersPart /\ CallersPart'
  BY <1>1, <1>2 DEF MachineInv, Win64Inv, CallersPart
<1>5. CallersRegs' = CallersRegs /\ Pushed' = Pushed
  BY <1>1, SameCaller
<1>6. CASE ip = 8
  <2>1. rsp' = 8 /\ ip' = 9 /\ regs' = CallersRegs'
    BY <1>1, <1>3, <1>4, <1>5, <1>6 DEF Win64Inv
  <2>2. (SavedTo(7))'
    <3>1. SavedTo(7)
      BY <1>4, <1>6 DEF Win64Inv
    <3> QED
      BY <1>1, <1>5, <3>1 DEF SavedTo
  <2>3. Win64Inv'
    BY <1>4, <2>1, <2>2 DEF Win64Inv
  <2> QED
    BY <1>1, <1>2, <2>1, <2>3 DEF MachineInv, Slots
<1>7. CASE ip = 10
  <2>1. rsp' = 12 /\ ip' = 11
    BY <1>1, <1>3, <1>4, <1>7 DEF Win64Inv
  <2>2. (SavedTo(7))'
    <3>1. SavedTo(7)
      BY <1>4, <1>7 DEF Win64Inv
    <3> QED
      BY <1>1, <1>5, <3>1 DEF SavedTo
  <2>3. \A r \in {"rsi", "rdi"} : regs'[r] = CallersRegs'[r]
    BY <1>1, <1>4, <1>5, <1>7 DEF Win64Inv
  <2>4. Win64Inv'
    BY <1>4, <2>1, <2>2, <2>3 DEF Win64Inv
  <2> QED
    BY <1>1, <1>2, <2>1, <2>4 DEF MachineInv, Slots
<1> QED
  BY <1>3, <1>6, <1>7

\* The stub overwrites nothing that the hook has saved.
LEMMA MachineCall ==
  ASSUME MachineInv, ExecuteCall
  PROVE  MachineInv'
<1>1. /\ Executes("call") /\ ip # 0 /\ ip' = ip + 1
      /\ regs' = [r \in Registers |-> IF r \in Scratch THEN Junk ELSE regs[r]]
      /\ stack' = [s \in Slots |->
           IF s \in rsp - 1 .. rsp + ShadowSlots - 1 THEN Junk ELSE stack[s]]
      /\ UNCHANGED <<convention, rsp, hook>>
  BY DEF ExecuteCall, Executes
<1>2. CallersRegs' = CallersRegs /\ Pushed' = Pushed
  BY <1>1, SameCaller
<1>3. regs' \in [Registers -> Contents] /\ stack' \in [Slots -> Contents]
  BY <1>1 DEF MachineInv, Contents
<1>4. CASE convention = "sysv"
  <2>1. ip = 10 /\ SysvInv
    BY <1>1, <1>4, SysvKinds DEF MachineInv
  <2>2. rsp = 10 /\ ShadowSlots = 0 /\ SavedTo(9) /\ CallersPart
    BY <1>4, <2>1 DEF SysvInv, ShadowSlots
  <2>3. \A s \in 10 .. 20 : stack'[s] = stack[s]
    BY <1>1, <2>2 DEF Slots
  <2>4. CallersPart'
    BY <2>2, <2>3 DEF CallersPart
  <2>5. (SavedTo(9))'
    <3> SUFFICES ASSUME NEW j \in 1 .. 9 PROVE stack'[19 - j] = CallersRegs'[Pushed'[j]]
      BY DEF SavedTo, EntryRsp
    <3>1. 19 - j \in 10 .. 20
      OBVIOUS
    <3> QED
      BY <3>1, <1>2, <2>2, <2>3 DEF SavedTo, EntryRsp
  <2>6. ip' = 11 /\ rsp' = 10
    BY <1>1, <2>1, <2>2
  <2>7. SysvInv'
    BY <2>4, <2>5, <2>6 DEF SysvInv
  <2> QED
    BY <1>1, <1>3, <1>4, <2>6, <2>7 DEF MachineInv
<1>5. CASE convention = "win64"
  <2>1. ip = 9 /\ Win64Inv
    BY <1>1, <1>5, Win64Kinds DEF MachineInv
  <2>2. rsp = 8 /\ ShadowSlots = 4 /\ SavedTo(7) /\ CallersPart /\ regs = CallersRegs
    BY <1>5, <2>1 DEF Win64Inv, ShadowSlots
  <2>3. \A s \in 12 .. 20 : stack'[s] = stack[s]
    BY <1>1, <2>2 DEF Slots
  <2>4. CallersPart'
    BY <2>2, <2>3 DEF CallersPart
  <2>5. (SavedTo(7))'
    <3> SUFFICES ASSUME NEW j \in 1 .. 7 PROVE stack'[19 - j] = CallersRegs'[Pushed'[j]]
      BY DEF SavedTo, EntryRsp
    <3>1. 19 - j \in 12 .. 20
      OBVIOUS
    <3> QED
      BY <3>1, <1>2, <2>2, <2>3 DEF SavedTo, EntryRsp
  <2>6. ip' = 10 /\ rsp' = 8
    BY <1>1, <2>1, <2>2
  <2>7. \A r \in {"rsi", "rdi"} : regs'[r] = CallersRegs'[r]
    <3>1. \A r \in {"rsi", "rdi"} : r \in Registers /\ r \notin Scratch
      BY <1>5 DEF Registers, Scratch
    <3> QED
      BY <1>1, <1>2, <2>2, <3>1
  <2>8. Win64Inv'
    BY <2>4, <2>5, <2>6, <2>7 DEF Win64Inv
  <2> QED
    BY <1>1, <1>3, <1>5, <2>6, <2>8 DEF MachineInv
<1> QED
  BY <1>4, <1>5 DEF MachineInv, Conventions

LEMMA MachineRet ==
  ASSUME MachineInv, ExecuteRet
  PROVE  MachineInv'
<1>1. /\ Executes("ret") /\ ip # 0 /\ ip' = 0 /\ rsp' = rsp + 1 /\ hook' = "enter"
      /\ UNCHANGED <<convention, regs, stack>>
  BY DEF ExecuteRet, Executes
<1>2. rsp = 19
  <2>1. CASE convention = "sysv"
    BY <1>1, <2>1, SysvKinds DEF MachineInv, SysvInv
  <2>2. CASE convention = "win64"
    BY <1>1, <2>2, Win64Kinds DEF MachineInv, Win64Inv
  <2> QED
    BY <2>1, <2>2 DEF MachineInv, Conventions
<1>3. hook' \in DOMAIN Hook /\ rsp' \in Slots
  BY <1>1, <1>2 DEF Hook, Slots
<1> QED
  BY <1>1, <1>3 DEF MachineInv

\* Nothing outside the machine touches it.
LEMMA MachineNext == MachineInv /\ [Next]_vars => MachineInv'
<1> SUFFICES ASSUME MachineInv, [Next]_vars PROVE MachineInv'
  OBVIOUS
<1>1. ASSUME UNCHANGED cpu PROVE MachineInv'
  <2>1. UNCHANGED <<convention, regs, rsp, stack, hook, ip>>
    BY <1>1 DEF cpu
  <2>2. CallersRegs' = CallersRegs /\ Pushed' = Pushed
    BY <2>1, SameCaller
  <2>3. SysvInv => SysvInv'
    BY <2>1, <2>2 DEF SysvInv, CallersPart, SavedTo, Restored
  <2>4. Win64Inv => Win64Inv'
    BY <2>1, <2>2 DEF Win64Inv, CallersPart, SavedTo, Restored
  <2> QED
    BY <2>1, <2>3, <2>4 DEF MachineInv
<1>2. ASSUME NEW h \in DOMAIN Hook, NEW f \in Functions, Hooks(h, f)
      PROVE  MachineInv'
  BY <1>2, MachineCalled DEF Hooks
<1>3. CASE Stub
  BY <1>3, MachineCall DEF Stub
<1>4. CASE Machine
  BY <1>4, MachinePush, MachinePop, MachineAdd, MachineRet DEF Machine
<1>5. CASE CoreProfiler \/ ClearMaps \/ ClearGlobal \/ UNCHANGED vars
  BY <1>5, <1>1 DEF CoreProfiler, ClearMaps, ClearGlobal, vars
<1>6. ASSUME NEW t \in Threads, NEW f \in Functions,
             Mapper2Refuses(t, f) \/ MapperLocates(t, f)
      PROVE  MachineInv'
  BY <1>1, <1>6 DEF Mapper2Refuses, MapperLocates
<1>7. ASSUME NEW t \in Threads, MapperLinks(t) PROVE MachineInv'
  BY <1>1, <1>7 DEF MapperLinks
<1> QED
  BY <1>2, <1>3, <1>4, <1>5, <1>6, <1>7 DEF Next

\* The runtime saves nothing for a hook (corprof.idl:287-290): whichever hook
\* it is and whatever the stub leaves in the registers it may change, the
\* hook returns to its caller with the integer registers and the caller's
\* part of the stack as they were (asm/systemv/asmhelpers.S:9-28,
\* asm/windows/nakedcallbacks.asm:12-44).
THEOREM HooksLeaveNoTrace == Spec => []HooksAreTransparent
<1>1. MachineInv => HooksAreTransparent
  <2> SUFFICES ASSUME MachineInv, Executes("ret")
               PROVE  /\ rsp = EntryRsp /\ regs = CallersRegs
                      /\ \A s \in EntryRsp .. EntryRsp + 1 : stack[s] = CallersStack[s]
    BY DEF HooksAreTransparent
  <2>1. ip # 0 /\ regs \in [Registers -> Contents] /\ CallersRegs \in [Registers -> Contents]
    BY CallersRegsType DEF Executes, MachineInv
  <2>2. CASE convention = "sysv"
    <3>1. ip = 20 /\ SysvInv
      BY <2>1, <2>2, SysvKinds DEF MachineInv
    <3>2. rsp = 19 /\ CallersPart /\ \A j \in 1 .. 9 : Restored(j)
      BY <3>1 DEF SysvInv
    <3>3. ASSUME NEW r \in Registers PROVE regs[r] = CallersRegs[r]
      <4>1. PICK j \in 1 .. 9 : r = Pushed[j]
        BY <2>2, SevenOrNine
      <4> QED
        BY <3>2, <4>1 DEF Restored
    <3> QED
      BY <2>1, <3>2, <3>3 DEF CallersPart, CallersStack, EntryRsp, Slots
  <2>3. CASE convention = "win64"
    <3>1. ip = 18 /\ Win64Inv
      BY <2>1, <2>3, Win64Kinds DEF MachineInv
    <3>2. /\ rsp = 19 /\ CallersPart /\ \A j \in 1 .. 7 : Restored(j)
          /\ \A r \in {"rsi", "rdi"} : regs[r] = CallersRegs[r]
      BY <3>1 DEF Win64Inv
    <3>3. ASSUME NEW r \in Registers PROVE regs[r] = CallersRegs[r]
      <4>1. ASSUME r \notin {"rsi", "rdi"} PROVE \E j \in 1 .. 7 : r = Pushed[j]
        BY <2>3, <4>1, SevenOrNine
      <4> QED
        BY <3>2, <4>1 DEF Restored
    <3> QED
      BY <2>1, <3>2, <3>3 DEF CallersPart, CallersStack, EntryRsp, Slots
  <2> QED
    BY <2>2, <2>3 DEF MachineInv, Conventions
<1>2. Init => MachineInv
  BY MachineInit DEF Init
<1> QED
  BY <1>1, <1>2, MachineNext, PTL DEF Spec

\* The compiled stub finds the stack aligned to sixteen bytes and the client's
\* id still in its first argument (asmhelpers.S:9-18,
\* nakedcallbacks.asm:12-32).
THEOREM StubsFindTheirArgument == Spec => []StubsAreCalledWell
<1>1. MachineInv => StubsAreCalledWell
  <2> SUFFICES ASSUME MachineInv, Executes("call")
               PROVE  rsp % 2 = 0 /\ regs[FirstArgument] = "argument"
    BY DEF StubsAreCalledWell
  <2>1. ip # 0
    BY DEF Executes
  <2>2. FirstArgument \in Registers
    BY DEF FirstArgument, Registers
  <2>3. CallersRegs[FirstArgument] = "argument"
    BY <2>2 DEF CallersRegs
  <2>4. CASE convention = "sysv"
    BY <2>1, <2>3, <2>4, SysvKinds DEF MachineInv, SysvInv
  <2>5. CASE convention = "win64"
    BY <2>1, <2>3, <2>5, Win64Kinds DEF MachineInv, Win64Inv
  <2> QED
    BY <2>4, <2>5 DEF MachineInv, Conventions
<1>2. Init => MachineInv
  BY MachineInit DEF Init
<1> QED
  BY <1>1, <1>2, MachineNext, PTL DEF Spec

\* The types of what is not in the machine; the argument of a hook is an
\* answer of the mapper.
RestTyped ==
  /\ argument \in Nat /\ setting \in Settings /\ assembly \in Profiled
  /\ phase \in {"new", "profiling", "clearing", "over", "dead"}
  /\ DOMAIN mapping = Threads
  /\ \A t \in Threads : mapping[t] # <<>> =>
       mapping[t][1] \in Functions /\ mapping[t][2] \subseteq Functions
  /\ m_functionMap \in [Functions -> {"absent", "null", "info"}]
  /\ answers \in [Functions -> SUBSET (Functions \cup {0})]
  /\ target \in Functions \cup {0} /\ reached \in Functions \cup {0}

LEMMA RestNext == RestTyped /\ [Next]_vars => RestTyped'
<1> SUFFICES ASSUME RestTyped, [Next]_vars PROVE RestTyped'
  OBVIOUS
<1>1. CASE CoreProfiler
  BY <1>1 DEF CoreProfiler, RestTyped, names, cpu
<1>2. CASE ClearMaps \/ ClearGlobal
  BY <1>2 DEF ClearMaps, ClearGlobal, RestTyped, filter, names, cpu
<1>3. ASSUME NEW f \in Functions, NEW id \in Functions \cup {0}, Answer(f, id)
      PROVE  answers' \in [Functions -> SUBSET (Functions \cup {0})]
  BY <1>3 DEF Answer, RestTyped
<1>4. ASSUME NEW t \in Threads, NEW f \in Functions, Mapper2Refuses(t, f)
      PROVE  RestTyped'
  <2>1. Answer(f, 0)
    BY <1>4 DEF Mapper2Refuses
  <2>2. answers' \in [Functions -> SUBSET (Functions \cup {0})]
    BY <1>3, <2>1
  <2> QED
    BY <1>4, <2>2 DEF Mapper2Refuses, RestTyped, filter, cpu
<1>5. ASSUME NEW t \in Threads, NEW f \in Functions, MapperLocates(t, f)
      PROVE  RestTyped'
  <2>1. UNCHANGED <<setting, assembly, phase, m_functionMap, target, reached, argument>>
    BY <1>5 DEF MapperLocates, filter, cpu
  <2>2. CASE f \in Keys
    <3>1. Answer(f, f) /\ mapping' = mapping
      BY <1>5, <2>2 DEF MapperLocates, Known
    <3>2. answers' \in [Functions -> SUBSET (Functions \cup {0})]
      BY <1>3, <3>1
    <3> QED
      BY <2>1, <3>1, <3>2 DEF RestTyped
  <2>3. CASE f \notin Keys
    <3>1. mapping' = [mapping EXCEPT ![t] = <<f, Gap(f)>>] /\ answers' = answers
      BY <1>5, <2>3 DEF MapperLocates
    <3>2. Gap(f) \subseteq Functions
      BY DEF Gap
    <3>3. ASSUME NEW u \in Threads, mapping'[u] # <<>>
          PROVE  mapping'[u][1] \in Functions /\ mapping'[u][2] \subseteq Functions
      <4>1. CASE u = t
        BY <3>1, <3>2, <4>1 DEF RestTyped
      <4>2. CASE u # t
        BY <3>1, <3>3, <4>2 DEF RestTyped
      <4> QED
        BY <4>1, <4>2
    <3> QED
      BY <2>1, <3>1, <3>3 DEF RestTyped
  <2> QED
    BY <2>2, <2>3
<1>6. ASSUME NEW t \in Threads, MapperLinks(t)
      PROVE  RestTyped'
  <2>1. /\ mapping[t] # <<>> /\ Answer(mapping[t][1], mapping[t][1])
        /\ mapping' = [mapping EXCEPT ![t] = <<>>]
        /\ UNCHANGED <<setting, assembly, phase, target, reached, argument>>
    BY <1>6 DEF MapperLinks, filter, cpu
  <2>2. mapping[t][1] \in Functions
    BY <2>1 DEF RestTyped
  <2>3. answers' \in [Functions -> SUBSET (Functions \cup {0})]
    BY <1>3, <2>1, <2>2
  <2>4. m_functionMap' \in [Functions -> {"absent", "null", "info"}]
    <3>1. m_functionMap' = [k \in Functions |->
            IF k = mapping[t][1] THEN "info"
            ELSE IF k \in mapping[t][2] THEN "absent" ELSE m_functionMap[k]]
      BY <1>6 DEF MapperLinks
    <3> QED
      BY <3>1 DEF RestTyped
  <2>5. \A u \in Threads : mapping'[u] # <<>> => mapping'[u] = mapping[u]
    BY <2>1 DEF RestTyped
  <2> QED
    BY <2>1, <2>3, <2>4, <2>5 DEF RestTyped
<1>7. ASSUME NEW h \in DOMAIN Hook, NEW f \in Functions, Hooks(h, f)
      PROVE  RestTyped'
  <2>1. PICK id \in answers[f] : argument' = id
    BY <1>7 DEF Hooks, CallHook
  <2>2. argument' \in Nat
    BY <2>1, FunctionsAssumption DEF RestTyped
  <2> QED
    BY <1>7, <2>2 DEF Hooks, RestTyped, filter, names
<1>8. CASE Stub
  <2>1. reached' \in Functions \cup {0}
    BY <1>8 DEF Stub, RestTyped
  <2>2. m_functionMap' \in [Functions -> {"absent", "null", "info"}]
    BY <1>8 DEF Stub, RestTyped
  <2> QED
    BY <1>8, <2>1, <2>2 DEF Stub, ExecuteCall, RestTyped, filter
<1>9. CASE Machine
  BY <1>9 DEF Machine, ExecutePush, ExecutePop, ExecuteAdd, ExecuteRet,
              RestTyped, filter, names
<1>10. CASE UNCHANGED vars
  BY <1>10 DEF vars, RestTyped, filter, names, cpu
<1> QED
  BY <1>1, <1>2, <1>4, <1>5, <1>6, <1>7, <1>8, <1>9, <1>10 DEF Next

\* Every variable holds a value of its type; in particular a hook never runs
\* past its return, and its stack has room for what it pushes.
THEOREM TypeCorrect == Spec => []TypeOK
<1>1. MachineInv /\ RestTyped => TypeOK
  <2> SUFFICES ASSUME MachineInv, RestTyped PROVE TypeOK
    OBVIOUS
  <2>1. ip \in 0 .. Len(Code)
    <3>1. CASE ip = 0
      <4>1. Len(Code) \in Nat
        BY SysvCode, Win64Code DEF MachineInv, Conventions
      <4> QED
        BY <3>1, <4>1
    <3>2. CASE ip # 0 /\ convention = "sysv"
      <4>1. Len(Code) = 20
        BY <3>2, SysvCode DEF MachineInv
      <4>2. ip \in 1 .. 20
        BY <3>2 DEF MachineInv, SysvInv
      <4> QED
        BY <4>1, <4>2
    <3>3. CASE ip # 0 /\ convention = "win64"
      <4>1. Len(Code) = 18
        BY <3>3, Win64Code DEF MachineInv
      <4>2. ip \in 1 .. 18
        BY <3>3 DEF MachineInv, Win64Inv
      <4> QED
        BY <4>1, <4>2
    <3> QED
      BY <3>1, <3>2, <3>3 DEF MachineInv, Conventions
  <2>2. CpuTypeOK
    BY <2>1 DEF CpuTypeOK, MachineInv, RestTyped
  <2> QED
    BY <2>2 DEF TypeOK, RestTyped
<1>2. Init => MachineInv
  BY MachineInit DEF Init
<1>3. Init => RestTyped
  BY DEF Init, AtRest, RestTyped
<1> QED
  BY <1>1, <1>2, <1>3, MachineNext, RestNext, PTL DEF Spec

-----------------------------------------------------------------------------
(* The list of assemblies.  The loop of the constructor is a recursive     *)
(* function on the rests of the value; that there is one, and that it      *)
(* finds the names, follows by a least rest for which it would fail.       *)

\* The texts that the loop meets, and one turn of it: the rest that it looks at
\* yields an entry and a shorter rest, or is the last entry.
Rests(value) == {SubSeq(value, k, Len(value)) : k \in 1 .. Len(value) + 1}
Seps(rest)   == Places(rest, <<Separator>>)
Turn(after, rest) ==
  IF Seps(rest) = {} THEN <<rest>>
  ELSE <<SubSeq(rest, 1, Foremost(Seps(rest)) - 1)>>
       \o after[SubSeq(rest, Foremost(Seps(rest)) + 1, Len(rest))]
IsParse(after, value) == after = [rest \in Rests(value) |-> Turn(after, rest)]

\* Foremost chooses the least of a nonempty set of numbers.
LEMMA Least ==
  ASSUME NEW S, S \subseteq Nat, S # {}
  PROVE  Foremost(S) \in S /\ \A m \in S : Foremost(S) <= m
<1>1. PICK x \in S : \A y \in S : <<y, x>> \notin OpToRel(<, Nat)
  BY NatLessThanWellFounded, WFMin, Zenon
<1>2. ASSUME NEW y \in S PROVE x <= y
  <2>1. ~(y < x)
    BY <1>1, Zenon DEF OpToRel
  <2> QED
    BY <2>1
<1>3. \E k \in S : \A m \in S : k <= m
  BY <1>2
<1> QED
  BY <1>3 DEF Foremost

\* The list is what the parse makes of the whole value.
LEMMA Unfold ==
  ASSUME NEW value, value # <<>>
  PROVE  listOfAllowedAssemblies(value) = (CHOOSE after : IsParse(after, value))[value]
BY DEF listOfAllowedAssemblies, IsParse, Rests, Turn, Seps

LEMMA One ==
  ASSUME NEW D, NEW d \in D
  PROVE  <<d>> \in Seq(D)
OBVIOUS

\* A place of the separator is a piece that is one.
LEMMA SepPlaces ==
  ASSUME NEW r \in Seq(STRING)
  PROVE  Seps(r) = {k \in 1 .. Len(r) : r[k] = Separator}
<1>1. Len(<<Separator>>) = 1
  OBVIOUS
<1>2. ASSUME NEW k \in 1 .. Len(r)
      PROVE  SubSeq(r, k, k) = <<Separator>> <=> r[k] = Separator
  <2>1. /\ SubSeq(r, k, k) \in Seq(STRING) /\ Len(SubSeq(r, k, k)) = 1
        /\ SubSeq(r, k, k)[1] = r[k]
    <3>1. k \in Int /\ \A i \in k .. k : r[i] \in STRING
      OBVIOUS
    <3>2. PICK c : c = SubSeq(r, k, k)
      OBVIOUS
    <3>3. /\ c \in Seq(STRING) /\ Len(c) = IF k <= k THEN k - k + 1 ELSE 0
          /\ \A i \in 1 .. k - k + 1 : c[i] = r[k + i - 1]
      BY <3>1, <3>2, SubSeqProperties
    <3>4. k - k + 1 = 1 /\ k <= k /\ k + 1 - 1 = k
      OBVIOUS
    <3>5. Len(c) = 1 /\ 1 \in 1 .. k - k + 1
      BY <3>3, <3>4
    <3>6. c[1] = r[k]
      BY <3>3, <3>4, <3>5
    <3> QED
      BY <3>2, <3>3, <3>5, <3>6
  <2>2. Len(<<Separator>>) = 1 /\ <<Separator>>[1] = Separator
    OBVIOUS
  <2>3. ASSUME r[k] = Separator PROVE SubSeq(r, k, k) = <<Separator>>
    <3>5. Separator \in STRING
      BY <2>3
    <3>6. <<Separator>> \in Seq(STRING)
      BY <3>5, One
    <3>1. PICK c, d : c = SubSeq(r, k, k) /\ d = <<Separator>>
      OBVIOUS
    <3>2. /\ c \in Seq(STRING) /\ d \in Seq(STRING) /\ Len(c) = 1 /\ Len(d) = 1
          /\ c[1] = d[1]
      BY <2>1, <2>2, <2>3, <3>1, <3>6
    <3>3. Len(c) = Len(d) /\ \A i \in 1 .. Len(c) : c[i] = d[i]
      BY <3>2
    <3>4. c = d
      BY <3>2, <3>3, SeqEqual
    <3> QED
      BY <3>1, <3>4
  <2> QED
    BY <2>1, <2>2, <2>3
<1>3. Seps(r) = {k \in 1 .. Len(r) : SubSeq(r, k, k) = <<Separator>>}
  BY <1>1 DEF Seps, Places
<1> QED
  BY <1>2, <1>3

\* The rest behind the first separator.
Behind(r) == SubSeq(r, Foremost(Seps(r)) + 1, Len(r))

\* r is cut at its first separator p, and b is what is behind it.
CutAt(r, p, b) ==
  /\ p \in 1 .. Len(r) /\ r[p] = Separator
  /\ \A k \in 1 .. p - 1 : r[k] # Separator
  /\ b \in Seq(STRING) /\ Len(b) = Len(r) - p
  /\ \A k \in 1 .. Len(b) : b[k] = r[p + k]

LEMMA FirstSep ==
  ASSUME NEW r \in Seq(STRING), Seps(r) # {}, NEW p, p = Foremost(Seps(r)),
         NEW b, b = Behind(r)
  PROVE  CutAt(r, p, b)
<1>1. Seps(r) \subseteq Nat
  BY SepPlaces
<1>2. p \in Seps(r) /\ \A m \in Seps(r) : p <= m
  BY <1>1, Least
<1>3. /\ p \in 1 .. Len(r) /\ r[p] = Separator
      /\ \A k \in 1 .. p - 1 : r[k] # Separator
  <2>1. Seps(r) = {k \in 1 .. Len(r) : r[k] = Separator}
    BY SepPlaces
  <2>2. p \in 1 .. Len(r) /\ r[p] = Separator
    BY <1>2, <2>1
  <2>3. ASSUME NEW k \in 1 .. p - 1, r[k] = Separator PROVE FALSE
    <3>1. k \in Seps(r)
      BY <2>1, <2>2, <2>3
    <3>2. p <= k
      BY <1>2, <3>1
    <3> QED
      BY <2>2, <3>2
  <2> QED
    BY <2>2, <2>3
<1>4. p + 1 \in Int /\ Len(r) \in Int /\ \A i \in p + 1 .. Len(r) : r[i] \in STRING
  BY <1>3
<1>5. /\ b \in Seq(STRING)
      /\ Len(b) = IF p + 1 <= Len(r) THEN Len(r) - (p + 1) + 1 ELSE 0
      /\ \A i \in 1 .. Len(r) - (p + 1) + 1 : b[i] = r[p + 1 + i - 1]
  BY <1>4, SubSeqProperties DEF Behind
<1>6. Len(b) = Len(r) - p
  BY <1>3, <1>5
<1>7. \A k \in 1 .. Len(b) : b[k] = r[p + k]
  <2> TAKE k \in 1 .. Len(b)
  <2>1. k \in 1 .. Len(r) - (p + 1) + 1 /\ p + 1 + k - 1 = p + k
    BY <1>3, <1>6
  <2> QED
    BY <1>5, <2>1
<1> QED
  BY <1>3, <1>5, <1>6, <1>7 DEF CutAt

\* A rest is a text, and what is behind its first separator is a rest.
LEMMA RestFacts ==
  ASSUME NEW value \in Seq(STRING), NEW r \in Rests(value)
  PROVE  /\ r \in Seq(STRING) /\ Len(r) <= Len(value)
         /\ Seps(r) # {} => Behind(r) \in Rests(value)
<1>1. PICK k \in 1 .. Len(value) + 1 : r = SubSeq(value, k, Len(value))
  BY DEF Rests
<1>2. k \in Int /\ Len(value) \in Int /\ \A i \in k .. Len(value) : value[i] \in STRING
  OBVIOUS
<1>3. /\ r \in Seq(STRING)
      /\ Len(r) = IF k <= Len(value) THEN Len(value) - k + 1 ELSE 0
      /\ \A i \in 1 .. Len(value) - k + 1 : r[i] = value[k + i - 1]
  BY <1>1, <1>2, SubSeqProperties
<1>4. Len(r) = Len(value) - k + 1
  BY <1>3
<1>5. ASSUME Seps(r) # {} PROVE Behind(r) \in Rests(value)
  <2>1. PICK p, b : p = Foremost(Seps(r)) /\ b = Behind(r)
    OBVIOUS
  <2>2. /\ p \in 1 .. Len(r)
        /\ b \in Seq(STRING) /\ Len(b) = Len(r) - p
        /\ \A i \in 1 .. Len(b) : b[i] = r[p + i]
    <3>1. CutAt(r, p, b)
      BY <1>3, <1>5, <2>1, FirstSep
    <3> QED
      BY <3>1 DEF CutAt
  <2>3. PICK n : n = k + p
    OBVIOUS
  <2>4. n \in 1 .. Len(value) + 1 /\ n \in Int /\ \A i \in n .. Len(value) : value[i] \in STRING
    BY <1>4, <2>2, <2>3
  <2>5. PICK c : c = SubSeq(value, n, Len(value))
    OBVIOUS
  <2>6. /\ c \in Seq(STRING)
        /\ Len(c) = IF n <= Len(value) THEN Len(value) - n + 1 ELSE 0
        /\ \A i \in 1 .. Len(value) - n + 1 : c[i] = value[n + i - 1]
    BY <1>2, <2>4, <2>5, SubSeqProperties
  <2>7. Len(c) = Len(b)
    <3>1. PICK z : z = Len(value)
      OBVIOUS
    <3>2. z \in Nat /\ k \in Nat /\ p \in Nat /\ Len(r) = z - k + 1
      BY <1>4, <2>2, <3>1
    <3>3. Len(b) = z - k + 1 - p
      BY <2>2, <3>2
    <3>4. Len(c) = IF n <= z THEN z - n + 1 ELSE 0
      BY <2>6, <3>1
    <3>5. n <= z + 1 /\ n = k + p
      BY <2>3, <2>4, <3>1
    <3>6. Len(c) = z - n + 1
      BY <3>2, <3>4, <3>5
    <3> QED
      BY <3>2, <3>3, <3>5, <3>6
  <2>8. \A i \in 1 .. Len(b) : c[i] = b[i]
    <3> TAKE i \in 1 .. Len(b)
    <3>1. b[i] = r[p + i] /\ p + i \in 1 .. Len(value) - k + 1
      BY <1>4, <2>2
    <3>2. r[p + i] = value[k + (p + i) - 1]
      BY <1>3, <3>1
    <3>3. c[i] = value[n + i - 1]
      BY <1>4, <2>2, <2>3, <2>4, <2>6
    <3>4. n + i - 1 = k + (p + i) - 1
      BY <2>2, <2>3
    <3> QED
      BY <3>1, <3>2, <3>3, <3>4
  <2>9. b = c
    BY <2>2, <2>6, <2>7, <2>8, SeqEqual
  <2> QED
    BY <2>1, <2>4, <2>5, <2>9 DEF Rests
<1> QED
  BY <1>3, <1>4, <1>5

\* A rest without a separator is one entry; otherwise the parse of what is
\* behind the first one follows.
LEMMA ParseExists ==
  ASSUME NEW value \in Seq(STRING)
  PROVE  \E after : IsParse(after, value)
<1> DEFINE Upto(F, n) == \A r \in Rests(value) : Len(r) < n => F[r] = Turn(F, r)
           Fun(F) == F = [r \in Rests(value) |-> F[r]]
           Missing == {n \in Nat : ~\E F : Fun(F) /\ Upto(F, n)}
<1>1. ASSUME Missing # {} PROVE FALSE
  <2>1. PICK n \in Missing : \A m \in Missing : n <= m
    BY <1>1, Least
  <2>2. CASE n = 0
    <3>1. Fun([r \in Rests(value) |-> r])
      OBVIOUS
    <3>2. Upto([r \in Rests(value) |-> r], 0)
      BY RestFacts
    <3> QED
      BY <2>1, <2>2, <3>1, <3>2
  <2>3. CASE n # 0
    <3>1. n - 1 \in Nat /\ n - 1 \notin Missing
      BY <2>1, <2>3
    <3>2. PICK F : Fun(F) /\ Upto(F, n - 1)
      BY <3>1
    <3>3. PICK G : G = [r \in Rests(value) |-> Turn(F, r)]
      OBVIOUS
    <3>4. Fun(G)
      BY <3>3
    <3>5. ASSUME NEW r \in Rests(value), Len(r) < n PROVE G[r] = Turn(G, r)
      <4>1. G[r] = Turn(F, r)
        BY <3>3
      <4>2. CASE Seps(r) = {}
        BY <4>1, <4>2 DEF Turn
      <4>3. CASE Seps(r) # {}
        <5>1. PICK p, b : p = Foremost(Seps(r)) /\ b = Behind(r)
          OBVIOUS
        <5>2. r \in Seq(STRING) /\ b \in Rests(value)
          BY <4>3, <5>1, RestFacts
        <5>3. p \in 1 .. Len(r) /\ Len(b) = Len(r) - p
          <6>1. CutAt(r, p, b)
            BY <4>3, <5>1, <5>2, FirstSep
          <6> QED
            BY <6>1 DEF CutAt
        <5>4. Len(b) < n - 1
          BY <2>1, <3>5, <5>2, <5>3
        <5>5. F[b] = Turn(F, b) /\ G[b] = Turn(F, b)
          BY <3>2, <3>3, <5>2, <5>4
        <5>6. F[Behind(r)] = G[Behind(r)]
          BY <5>1, <5>5
        <5> QED
          BY <4>1, <5>6 DEF Turn, Behind
      <4> QED
        BY <4>2, <4>3
    <3>6. Upto(G, n)
      BY <3>5
    <3> QED
      BY <2>1, <3>4, <3>6
  <2> QED
    BY <2>2, <2>3
<1>2. Len(value) + 1 \in Nat /\ Len(value) + 1 \notin Missing
  <2>1. Missing = {}
    BY <1>1
  <2> HIDE DEF Missing
  <2>2. Len(value) + 1 \in Nat
    OBVIOUS
  <2> QED
    BY <2>1, <2>2
<1>3. PICK F : Fun(F) /\ Upto(F, Len(value) + 1)
  BY <1>2
<1>4. ASSUME NEW r \in Rests(value) PROVE F[r] = Turn(F, r)
  <2>1. Len(r) \in Nat /\ Len(value) \in Nat /\ Len(r) <= Len(value)
    BY RestFacts
  <2>2. Len(r) < Len(value) + 1
    BY <2>1
  <2> QED
    BY <1>3, <2>2
<1>5. F = [r \in Rests(value) |-> Turn(F, r)]
  BY <1>3, <1>4
<1> QED
  BY <1>5 DEF IsParse

\* So every rest yields what its first separator and the rest behind it say.
LEMMA Parsed ==
  ASSUME NEW value \in Seq(STRING), value # <<>>
  PROVE  \E after : /\ \A r \in Rests(value) : after[r] = Turn(after, r)
                    /\ listOfAllowedAssemblies(value) = after[value]
<1>1. PICK A : A = CHOOSE after : IsParse(after, value)
  OBVIOUS
<1>2. IsParse(A, value)
  BY <1>1, ParseExists
<1>3. \A r \in Rests(value) : A[r] = Turn(A, r)
  BY <1>2 DEF IsParse
<1>4. listOfAllowedAssemblies(value) = A[value]
  BY <1>1, Unfold
<1> QED
  BY <1>3, <1>4

LEMMA WholeIsARest ==
  ASSUME NEW value \in Seq(STRING)
  PROVE  value \in Rests(value)
<1>1. PICK c : c = SubSeq(value, 1, Len(value))
  OBVIOUS
<1>2. 1 \in Int /\ Len(value) \in Nat /\ \A i \in 1 .. Len(value) : value[i] \in STRING
  OBVIOUS
<1>3. /\ c \in Seq(STRING)
      /\ Len(c) = IF 1 <= Len(value) THEN Len(value) - 1 + 1 ELSE 0
      /\ \A i \in 1 .. Len(value) - 1 + 1 : c[i] = value[1 + i - 1]
  BY <1>1, <1>2, SubSeqProperties
<1>4. Len(c) = Len(value)
  BY <1>2, <1>3
<1>5. \A i \in 1 .. Len(c) : c[i] = value[i]
  BY <1>2, <1>3, <1>4
<1>6. c = value
  BY <1>3, <1>4, <1>5, SeqEqual
<1>7. 1 \in 1 .. Len(value) + 1
  BY <1>2
<1> QED
  BY <1>1, <1>6, <1>7 DEF Rests

\* The two ends of a text and its separators, the one that follows another,
\* and the name between the two, as Names has them.
Ends(r) == {k \in 0 .. Len(r) + 1 : k \in 1 .. Len(r) => r[k] = Separator}
NextEnd(r, k) == Foremost({m \in Ends(r) : m > k})
NameAt(r, k) == SubSeq(r, k + 1, NextEnd(r, k) - 1)

LEMMA NamesAreAtEnds ==
  ASSUME NEW r
  PROVE  Names(r) = {NameAt(r, k) : k \in Ends(r) \ {Len(r) + 1}}
BY DEF Names, NameAt, NextEnd, Ends

\* The end that follows is the least beyond k.
LEMMA NextIs ==
  ASSUME NEW r \in Seq(STRING), NEW k \in Ends(r), NEW n \in Ends(r),
         n > k, \A m \in Ends(r) : m > k => n <= m
  PROVE  NextEnd(r, k) = n
<1>1. PICK S : S = {m \in Ends(r) : m > k}
  OBVIOUS
<1>2. S \subseteq Nat /\ n \in S
  BY <1>1 DEF Ends
<1>3. Foremost(S) \in S /\ \A m \in S : Foremost(S) <= m
  BY <1>2, Least
<1>4. Foremost(S) = n
  BY <1>1, <1>2, <1>3
<1> QED
  BY <1>1, <1>4 DEF NextEnd

LEMMA NextExists ==
  ASSUME NEW r \in Seq(STRING), NEW k \in Ends(r), k # Len(r) + 1,
         NEW n, n = NextEnd(r, k)
  PROVE  n \in Ends(r) /\ n > k /\ \A m \in Ends(r) : m > k => n <= m
<1>1. PICK S : S = {m \in Ends(r) : m > k}
  OBVIOUS
<1>2. S \subseteq Nat
  BY <1>1 DEF Ends
<1>3. Len(r) + 1 \in Ends(r) /\ Len(r) + 1 > k
  BY DEF Ends
<1>4. S # {}
  BY <1>1, <1>3
<1>5. Foremost(S) \in S /\ \A m \in S : Foremost(S) <= m
  BY <1>2, <1>4, Least
<1>6. n = Foremost(S)
  BY <1>1 DEF NextEnd
<1> QED
  BY <1>1, <1>5, <1>6

\* Behind the first separator everything is as in the rest, p places on.
LEMMA EndsShift ==
  ASSUME NEW r \in Seq(STRING), NEW p, NEW b, CutAt(r, p, b)
  PROVE  /\ 0 \in Ends(r) /\ \A e \in Ends(b) : p + e \in Ends(r)
         /\ \A k \in Ends(r) : k = 0 \/ \E e \in Ends(b) : k = p + e
<1>1. /\ p \in 1 .. Len(r) /\ r[p] = Separator
      /\ \A k \in 1 .. p - 1 : r[k] # Separator
      /\ b \in Seq(STRING) /\ Len(b) = Len(r) - p
      /\ \A k \in 1 .. Len(b) : b[k] = r[p + k]
  BY DEF CutAt
<1>2. Len(r) \in Nat /\ Len(b) \in Nat
  BY <1>1
<1>3. 0 \in Ends(r)
  BY <1>2 DEF Ends
<1>4. ASSUME NEW e \in Ends(b) PROVE p + e \in Ends(r)
  <2>1. e \in 0 .. Len(b) + 1 /\ p + e \in 0 .. Len(r) + 1
    BY <1>1, <1>2 DEF Ends
  <2>2. CASE e = 0
    BY <1>1, <2>1, <2>2 DEF Ends
  <2>3. CASE e \in 1 .. Len(b)
    <3>1. b[e] = Separator /\ b[e] = r[p + e]
      BY <1>1, <2>3 DEF Ends
    <3> QED
      BY <2>1, <3>1 DEF Ends
  <2>4. CASE e = Len(b) + 1
    <3>1. p + e = Len(r) + 1
      BY <1>1, <1>2, <2>4
    <3>2. p + e \notin 1 .. Len(r)
      BY <1>2, <3>1
    <3> QED
      BY <2>1, <3>2 DEF Ends
  <2> QED
    BY <1>2, <2>1, <2>2, <2>3, <2>4
<1>5. ASSUME NEW k \in Ends(r), k # 0 PROVE \E e \in Ends(b) : k = p + e
  <2>1. k \in 1 .. Len(r) + 1 /\ (k \in 1 .. Len(r) => r[k] = Separator)
    BY <1>2, <1>5 DEF Ends
  <2>2. k >= p
    <3>1. k \notin 1 .. p - 1
      BY <1>1, <1>2, <2>1
    <3> QED
      BY <1>1, <1>2, <2>1, <3>1
  <2>3. PICK e : e = k - p
    OBVIOUS
  <2>4. e \in 0 .. Len(b) + 1 /\ k = p + e
    BY <1>1, <1>2, <2>1, <2>2, <2>3
  <2>5. ASSUME e \in 1 .. Len(b) PROVE b[e] = Separator
    <3>1. b[e] = r[k] /\ k \in 1 .. Len(r)
      BY <1>1, <1>2, <2>4, <2>5
    <3> QED
      BY <2>1, <3>1
  <2> QED
    BY <2>4, <2>5 DEF Ends
<1> QED
  BY <1>3, <1>4, <1>5

\* b stands in r behind the first p pieces.
StandsAt(b, r, p) == \A k \in 1 .. Len(b) : p + k \in 1 .. Len(r) /\ b[k] = r[p + k]

\* What is cut out of b is cut out of r.
LEMMA SameSegment ==
  ASSUME NEW r \in Seq(STRING), NEW b \in Seq(STRING), NEW p \in Nat,
         StandsAt(b, r, p),
         NEW x \in 1 .. Len(b) + 1, NEW y \in 0 .. Len(b),
         NEW u \in Nat, NEW v \in Nat, u = p + x, v = p + y
  PROVE  SubSeq(r, u, v) = SubSeq(b, x, y)
<1>1. PICK c, d : c = SubSeq(r, u, v) /\ d = SubSeq(b, x, y)
  OBVIOUS
<1>2. \A i \in x .. y : i \in 1 .. Len(b)
  OBVIOUS
<1> USE DEF StandsAt
<1>3. u \in Int /\ v \in Int /\ \A i \in u .. v : r[i] \in STRING
  <2>1. ASSUME NEW i \in u .. v PROVE r[i] \in STRING
    <3>1. PICK k \in Int : k = i - p
      OBVIOUS
    <3>2. k \in 1 .. Len(b) /\ i = p + k
      BY <3>1
    <3>3. i \in 1 .. Len(r)
      BY <3>2
    <3> QED
      BY <3>3
  <2> QED
    BY <2>1
<1>4. x \in Int /\ y \in Int /\ \A i \in x .. y : b[i] \in STRING
  BY <1>2
<1>5. /\ c \in Seq(STRING) /\ Len(c) = IF u <= v THEN v - u + 1 ELSE 0
      /\ \A i \in 1 .. v - u + 1 : c[i] = r[u + i - 1]
  BY <1>1, <1>3, SubSeqProperties
<1>6. /\ d \in Seq(STRING) /\ Len(d) = IF x <= y THEN y - x + 1 ELSE 0
      /\ \A i \in 1 .. y - x + 1 : d[i] = b[x + i - 1]
  BY <1>1, <1>4, SubSeqProperties
<1>7. v - u = y - x /\ (u <= v <=> x <= y)
  OBVIOUS
<1>8. Len(c) = Len(d)
  BY <1>5, <1>6, <1>7
<1>9. ASSUME NEW i \in 1 .. Len(c) PROVE c[i] = d[i]
  <2>1. i \in 1 .. v - u + 1 /\ i \in 1 .. y - x + 1
    BY <1>5, <1>7
  <2>2. PICK j \in Int : j = x + i - 1
    OBVIOUS
  <2>3. j \in 1 .. Len(b) /\ u + i - 1 = p + j
    BY <2>1, <2>2
  <2>4. c[i] = r[p + j] /\ d[i] = b[j]
    BY <1>5, <1>6, <2>1, <2>2, <2>3
  <2> QED
    BY <2>3, <2>4
<1>10. c = d
  BY <1>5, <1>6, <1>8, <1>9, SeqEqual
<1> QED
  BY <1>1, <1>10

\* A name of the rest behind the first separator is a name of the whole.
LEMMA NameShift ==
  ASSUME NEW r \in Seq(STRING), NEW p, NEW b, CutAt(r, p, b), NEW e \in Ends(b), e # Len(b) + 1
  PROVE  NameAt(r, p + e) = NameAt(b, e)
<1>1. /\ p \in 1 .. Len(r)
      /\ b \in Seq(STRING) /\ Len(b) = Len(r) - p
      /\ \A k \in 1 .. Len(b) : b[k] = r[p + k]
  BY DEF CutAt
<1>2. Len(r) \in Nat /\ Len(b) \in Nat /\ e \in 0 .. Len(b)
  BY <1>1 DEF Ends
<1>3. PICK n : n = NextEnd(b, e)
  OBVIOUS
<1>4. n \in Ends(b) /\ n > e /\ \A m \in Ends(b) : m > e => n <= m
  BY <1>1, <1>3, NextExists
<1>5. n \in 1 .. Len(b) + 1
  BY <1>2, <1>4 DEF Ends
<1>6. PICK k \in Nat, m \in Nat : k = p + e /\ m = p + n
  <2>1. p \in Nat /\ e \in Nat /\ n \in Nat
    BY <1>1, <1>2, <1>5
  <2>2. p + e \in Nat /\ p + n \in Nat
    BY <2>1
  <2> QED
    BY <2>2
<1>7. k \in Ends(r) /\ m \in Ends(r)
  BY <1>4, <1>6, EndsShift
<1>8. m > k
  BY <1>1, <1>2, <1>4, <1>5, <1>6
<1>9. ASSUME NEW x \in Ends(r), x > k PROVE m <= x
  <2>1. x # 0
    BY <1>6, <1>9
  <2>2. PICK d \in Ends(b) : x = p + d
    BY <2>1, EndsShift
  <2>3. d \in 0 .. Len(b) + 1
    BY DEF Ends
  <2>4. d > e
    BY <1>1, <1>2, <1>6, <1>9, <2>2, <2>3
  <2>5. n <= d
    BY <1>4, <2>4
  <2> QED
    BY <1>1, <1>2, <1>5, <1>6, <2>2, <2>3, <2>5
<1>10. NextEnd(r, k) = m
  BY <1>7, <1>8, <1>9, NextIs
<1>11. PICK u \in Nat : u = k + 1
  OBVIOUS
<1>12. PICK v \in Nat : v = m - 1
  BY <1>8
<1>13. PICK x \in 1 .. Len(b) + 1 : x = e + 1
  BY <1>2
<1>14. PICK y \in 0 .. Len(b) : y = n - 1
  BY <1>2, <1>5
<1>15. p \in Nat /\ e \in Nat /\ n \in Nat /\ Len(b) \in Nat /\ b \in Seq(STRING)
  BY <1>1, <1>2, <1>5
<1>16. u = p + x /\ v = p + y
  <2>1. u = p + x
    BY <1>15, <1>6, <1>11, <1>13
  <2>2. v = p + y
    BY <1>15, <1>6, <1>12, <1>14
  <2> QED
    BY <2>1, <2>2
<1>17. StandsAt(b, r, p)
  <2> USE DEF StandsAt
  <2> TAKE i \in 1 .. Len(b)
  <2>1. p + i \in 1 .. Len(r)
    BY <1>1, <1>2
  <2> QED
    BY <1>1, <2>1
<1>18. SubSeq(r, u, v) = SubSeq(b, x, y)
  <2>1. /\ r \in Seq(STRING) /\ b \in Seq(STRING) /\ p \in Nat /\ StandsAt(b, r, p)
        /\ x \in 1 .. Len(b) + 1 /\ y \in 0 .. Len(b) /\ u \in Nat /\ v \in Nat
        /\ u = p + x /\ v = p + y
    BY <1>15, <1>16, <1>17
  <2> HIDE DEF StandsAt
  <2> QED
    BY ONLY <2>1, SameSegment
<1>19. NameAt(r, k) = SubSeq(r, u, v)
  BY <1>10, <1>11, <1>12 DEF NameAt
<1>20. NameAt(b, e) = SubSeq(b, x, y)
  BY <1>3, <1>13, <1>14 DEF NameAt
<1> QED
  BY <1>6, <1>18, <1>19, <1>20

\* Without a separator the text is its only name; with one, what stands before
\* it is a name and the others are those of the rest.
LEMMA NamesWithout ==
  ASSUME NEW r \in Seq(STRING), Seps(r) = {}
  PROVE  Names(r) = {r}
<1>1. Len(r) \in Nat /\ \A k \in 1 .. Len(r) : r[k] # Separator
  BY SepPlaces
<1>2. Ends(r) = {0, Len(r) + 1}
  BY <1>1 DEF Ends
<1>3. NextEnd(r, 0) = Len(r) + 1
  <2>1. PICK z : z = 0
    OBVIOUS
  <2>2. PICK n : n = Len(r) + 1
    OBVIOUS
  <2>3. /\ z \in Ends(r) /\ n \in Ends(r) /\ n > z
        /\ \A m \in Ends(r) : m > z => n <= m
    BY <1>1, <1>2, <2>1, <2>2
  <2>4. NextEnd(r, z) = n
    BY <2>3, NextIs
  <2> QED
    BY <2>1, <2>2, <2>4
<1>4. NameAt(r, 0) = SubSeq(r, 1, Len(r))
  BY <1>1, <1>3 DEF NameAt
<1>5. SubSeq(r, 1, Len(r)) = r
  <2>1. PICK c : c = SubSeq(r, 1, Len(r))
    OBVIOUS
  <2>2. 1 \in Int /\ Len(r) \in Int /\ \A i \in 1 .. Len(r) : r[i] \in STRING
    OBVIOUS
  <2>3. /\ c \in Seq(STRING)
        /\ Len(c) = IF 1 <= Len(r) THEN Len(r) - 1 + 1 ELSE 0
        /\ \A i \in 1 .. Len(r) - 1 + 1 : c[i] = r[1 + i - 1]
    BY <2>1, <2>2, SubSeqProperties
  <2>4. Len(c) = Len(r)
    BY <1>1, <2>3
  <2>5. \A i \in 1 .. Len(c) : c[i] = r[i]
    BY <1>1, <2>3, <2>4
  <2>6. c = r
    BY <2>3, <2>4, <2>5, SeqEqual
  <2> QED
    BY <2>1, <2>6
<1>6. Ends(r) \ {Len(r) + 1} = {0}
  BY <1>1, <1>2
<1> QED
  BY <1>4, <1>5, <1>6, NamesAreAtEnds

LEMMA NamesWith ==
  ASSUME NEW r \in Seq(STRING), NEW p, NEW b, CutAt(r, p, b)
  PROVE  Names(r) = {SubSeq(r, 1, p - 1)} \cup Names(b)
<1>1. /\ p \in 1 .. Len(r) /\ r[p] = Separator
      /\ \A k \in 1 .. p - 1 : r[k] # Separator
      /\ b \in Seq(STRING) /\ Len(b) = Len(r) - p
  BY DEF CutAt
<1>2. Len(r) \in Nat /\ Len(b) \in Nat
  BY <1>1
<1>3. NameAt(r, 0) = SubSeq(r, 1, p - 1)
  <2>1. PICK z : z = 0
    OBVIOUS
  <2>2. z \in Ends(r) /\ p \in Ends(r) /\ p > z
    BY <1>1, <1>2, <2>1 DEF Ends
  <2>3. ASSUME NEW m \in Ends(r), m > z PROVE p <= m
    <3>1. m \in 1 .. Len(r) + 1 /\ (m \in 1 .. Len(r) => r[m] = Separator)
      BY <1>2, <2>1, <2>3 DEF Ends
    <3>2. m \notin 1 .. p - 1
      BY <1>1, <1>2, <3>1
    <3> QED
      BY <1>1, <1>2, <3>1, <3>2
  <2>4. NextEnd(r, z) = p
    BY <2>2, <2>3, NextIs
  <2>5. NameAt(r, z) = SubSeq(r, z + 1, p - 1)
    BY <2>4 DEF NameAt
  <2>6. z + 1 = 1
    BY <2>1
  <2> QED
    BY <2>1, <2>5, <2>6
<1>4. \A e \in Ends(b) : e \in Nat
  BY DEF Ends
<1>5. ASSUME NEW e \in Ends(b) \ {Len(b) + 1}
      PROVE  p + e \in Ends(r) \ {Len(r) + 1} /\ NameAt(r, p + e) = NameAt(b, e)
  <2>1. p + e \in Ends(r) /\ NameAt(r, p + e) = NameAt(b, e)
    BY <1>5, EndsShift, NameShift
  <2>2. p + e # Len(r) + 1
    BY <1>1, <1>2, <1>4, <1>5
  <2> QED
    BY <2>1, <2>2
<1>6. ASSUME NEW k \in Ends(r) \ {Len(r) + 1}, k # 0
      PROVE  \E e \in Ends(b) \ {Len(b) + 1} : NameAt(r, k) = NameAt(b, e)
  <2>1. PICK e \in Ends(b) : k = p + e
    BY <1>6, EndsShift
  <2>2. e # Len(b) + 1
    BY <1>1, <1>2, <1>6, <2>1
  <2> QED
    BY <1>5, <2>1, <2>2
<1>7. 0 \in Ends(r) \ {Len(r) + 1}
  BY <1>2, EndsShift
<1>8. Names(r) = {NameAt(r, k) : k \in Ends(r) \ {Len(r) + 1}}
  BY NamesAreAtEnds
<1>9. Names(b) = {NameAt(b, k) : k \in Ends(b) \ {Len(b) + 1}}
  BY NamesAreAtEnds
<1>10. Names(r) \subseteq {SubSeq(r, 1, p - 1)} \cup Names(b)
  BY <1>3, <1>6, <1>8, <1>9
<1>11. Names(b) \subseteq Names(r)
  BY <1>5, <1>8, <1>9
<1>12. SubSeq(r, 1, p - 1) \in Names(r)
  BY <1>3, <1>7, <1>8
<1> QED
  BY <1>10, <1>11, <1>12

\* The rest has one separator less.
LEMMA CountWith ==
  ASSUME NEW r \in Seq(STRING), NEW p, NEW b, CutAt(r, p, b)
  PROVE  /\ Cardinality(Seps(b)) \in Nat
         /\ Cardinality(Seps(r)) = 1 + Cardinality(Seps(b))
<1>1. /\ p \in 1 .. Len(r) /\ r[p] = Separator
      /\ \A k \in 1 .. p - 1 : r[k] # Separator
      /\ b \in Seq(STRING) /\ Len(b) = Len(r) - p
      /\ \A k \in 1 .. Len(b) : b[k] = r[p + k]
  BY DEF CutAt
<1>2. Len(r) \in Nat /\ Len(b) \in Nat
  BY <1>1
<1>3. Seps(b) = {k \in 1 .. Len(b) : b[k] = Separator}
  BY <1>1, SepPlaces
<1>4. Seps(r) = {k \in 1 .. Len(r) : r[k] = Separator}
  BY SepPlaces
<1>5. IsFiniteSet(Seps(b))
  <2>1. IsFiniteSet(1 .. Len(b))
    BY <1>2, FS_Interval
  <2> QED
    BY <1>3, <2>1, FS_Subset
<1>6. PICK T : T = {k \in Seps(r) : k # p}
  OBVIOUS
<1>7. PICK f : f = [k \in Seps(b) |-> p + k]
  OBVIOUS
<1>8. f \in Bijection(Seps(b), T)
  <2>1. ASSUME NEW k \in Seps(b) PROVE f[k] \in T
    <3>1. k \in 1 .. Len(b) /\ b[k] = Separator /\ f[k] = p + k
      BY <1>3, <1>7
    <3>2. p + k \in 1 .. Len(r) /\ p + k # p
      BY <1>1, <1>2, <3>1
    <3> QED
      BY <1>1, <1>4, <1>6, <3>1, <3>2
  <2>2. ASSUME NEW k \in Seps(b), NEW m \in Seps(b), f[k] = f[m] PROVE k = m
    BY <1>1, <1>3, <1>7, <2>2
  <2>3. ASSUME NEW m \in T PROVE \E k \in Seps(b) : f[k] = m
    <3>1. m \in 1 .. Len(r) /\ r[m] = Separator /\ m # p
      BY <1>4, <1>6
    <3>2. m \notin 1 .. p - 1
      BY <1>1, <3>1
    <3>3. PICK k \in 1 .. Len(b) : m = p + k
      <4>1. PICK k \in Int : k = m - p
        BY <1>1, <3>1
      <4>2. p \in Nat /\ m \in Nat /\ p < m /\ m <= Len(r) /\ Len(b) = Len(r) - p
        BY <1>1, <3>1, <3>2
      <4>3. k \in 1 .. Len(b) /\ m = p + k
        BY <1>2, <4>1, <4>2
      <4> QED
        BY <4>3
    <3>4. b[k] = Separator
      BY <1>1, <3>1, <3>3
    <3>5. k \in Seps(b)
      BY <1>3, <3>4
    <3> QED
      BY <1>7, <3>3, <3>5
  <2>4. f \in [Seps(b) -> T]
    BY <1>7, <2>1
  <2> QED
    BY <2>2, <2>3, <2>4 DEF Bijection, Injection, Surjection, IsInjective
<1>9. IsFiniteSet(T) /\ Cardinality(T) = Cardinality(Seps(b))
  BY <1>5, <1>8, FS_Bijection DEF ExistsBijection
<1>10. Seps(r) = T \cup {p} /\ p \notin T
  BY <1>1, <1>4, <1>6
<1>11. Cardinality(T \cup {p}) = Cardinality(T) + 1
  BY <1>9, <1>10, FS_AddElement
<1>12. Cardinality(Seps(b)) \in Nat
  BY <1>5, FS_CardinalityType
<1>13. \A n \in Nat : n + 1 = 1 + n
  OBVIOUS
<1> QED
  BY <1>9, <1>10, <1>11, <1>12, <1>13

\* The entries that a rest should yield.
GoodList(entries, r) ==
  /\ entries \in Seq(Seq(STRING))
  /\ Len(entries) = 1 + Cardinality(Seps(r))
  /\ {entries[i] : i \in DOMAIN entries} = Names(r)

\* Both turns of the loop keep to the names.
LEMMA GoodWithout ==
  ASSUME NEW r \in Seq(STRING), Seps(r) = {}
  PROVE  GoodList(<<r>>, r)
<1>1. <<r>> \in Seq(Seq(STRING))
  BY One
<1>2. Len(<<r>>) = 1 /\ DOMAIN <<r>> = 1 .. 1 /\ <<r>>[1] = r
  OBVIOUS
<1>3. {<<r>>[i] : i \in DOMAIN <<r>>} = {r}
  <2>1. 1 .. 1 = {1}
    OBVIOUS
  <2> QED
    BY <1>2, <2>1
<1>4. Cardinality(Seps(r)) = 0
  BY FS_EmptySet
<1>5. Names(r) = {r}
  BY NamesWithout
<1>6. Len(<<r>>) = 1 + Cardinality(Seps(r))
  BY <1>2, <1>4
<1> QED
  BY <1>1, <1>3, <1>5, <1>6 DEF GoodList

LEMMA GoodWith ==
  ASSUME NEW r \in Seq(STRING), NEW p, NEW b, CutAt(r, p, b), NEW entries, GoodList(entries, b)
  PROVE  GoodList(<<SubSeq(r, 1, p - 1)>> \o entries, r)
<1>1. p \in 1 .. Len(r)
  BY DEF CutAt
<1>2. PICK h : h = SubSeq(r, 1, p - 1)
  OBVIOUS
<1>3. h \in Seq(STRING)
  <2>1. PICK q \in Int : q = p - 1
    BY <1>1
  <2>2. 1 \in Int /\ \A i \in 1 .. q : r[i] \in STRING
    BY <1>1, <2>1
  <2>3. SubSeq(r, 1, q) \in Seq(STRING)
    BY <2>2, SubSeqProperties
  <2> QED
    BY <1>2, <2>1, <2>3
<1>4. PICK a : a = <<h>>
  OBVIOUS
<1>5. a \in Seq(Seq(STRING)) /\ Len(a) = 1 /\ a[1] = h
  <2>1. a \in Seq(Seq(STRING))
    BY <1>3, <1>4, One
  <2> QED
    BY <1>4, <2>1
<1>6. entries \in Seq(Seq(STRING)) /\ Len(entries) = 1 + Cardinality(Seps(b))
  BY DEF GoodList
<1>7. PICK s : s = a \o entries
  OBVIOUS
<1>8. /\ s \in Seq(Seq(STRING)) /\ Len(s) = Len(a) + Len(entries)
      /\ \A i \in 1 .. Len(a) + Len(entries) :
           s[i] = IF i <= Len(a) THEN a[i] ELSE entries[i - Len(a)]
  BY <1>5, <1>6, <1>7, ConcatProperties
<1>9. Len(entries) \in Nat
  BY <1>6
<1>10. /\ Len(s) = 1 + Len(entries) /\ s[1] = h
       /\ \A i \in 1 .. Len(entries) : s[i + 1] = entries[i]
  <2>1. Len(s) = 1 + Len(entries) /\ s[1] = h
    BY <1>5, <1>8, <1>9
  <2>2. ASSUME NEW i \in 1 .. Len(entries) PROVE s[i + 1] = entries[i]
    <3>1. PICK j \in Nat : j = i + 1
      OBVIOUS
    <3>2. j \in 1 .. Len(a) + Len(entries) /\ ~(j <= Len(a)) /\ j - Len(a) = i
      BY <1>5, <1>9, <3>1
    <3>3. s[j] = entries[i]
      BY <1>8, <3>2
    <3> QED
      BY <3>1, <3>3
  <2> QED
    BY <2>1, <2>2
<1>11. DOMAIN s = 1 .. 1 + Len(entries) /\ DOMAIN entries = 1 .. Len(entries)
  BY <1>6, <1>8, <1>10
<1>12. {s[i] : i \in DOMAIN s} = {h} \cup {entries[i] : i \in DOMAIN entries}
  <2>1. ASSUME NEW i \in DOMAIN s
        PROVE  s[i] = h \/ \E j \in DOMAIN entries : s[i] = entries[j]
    <3>1. i \in 1 .. 1 + Len(entries)
      BY <1>11
    <3>2. CASE i = 1
      BY <1>10, <3>2
    <3>3. CASE i # 1
      <4>1. PICK j \in 1 .. Len(entries) : i = j + 1
        <5>1. PICK j \in Int : j = i - 1
          BY <3>1
        <5>2. j \in 1 .. Len(entries) /\ i = j + 1
          BY <1>9, <3>1, <3>3, <5>1
        <5> QED
          BY <5>2
      <4>2. s[i] = entries[j]
        BY <1>10, <4>1
      <4> QED
        BY <1>11, <4>2
    <3> QED
      BY <3>2, <3>3
  <2>2. ASSUME NEW j \in DOMAIN entries
        PROVE  \E i \in DOMAIN s : s[i] = entries[j]
    <3>1. j \in 1 .. Len(entries)
      BY <1>11
    <3>2. s[j + 1] = entries[j]
      BY <1>10, <3>1
    <3>3. j + 1 \in DOMAIN s
      BY <1>9, <1>11, <3>1
    <3> QED
      BY <3>2, <3>3
  <2>3. 1 \in DOMAIN s /\ s[1] = h
    BY <1>9, <1>10, <1>11
  <2> QED
    BY <2>1, <2>2, <2>3
<1>13. Names(r) = {h} \cup Names(b)
  BY <1>2, NamesWith
<1>14. Names(b) = {entries[i] : i \in DOMAIN entries}
  BY DEF GoodList
<1>15. Cardinality(Seps(b)) \in Nat /\ Cardinality(Seps(r)) = 1 + Cardinality(Seps(b))
  BY CountWith
<1>16. Len(s) = 1 + Cardinality(Seps(r))
  BY <1>6, <1>10, <1>15
<1>17. {s[i] : i \in DOMAIN s} = Names(r)
  BY <1>12, <1>13, <1>14
<1>18. GoodList(s, r)
  BY <1>8, <1>16, <1>17 DEF GoodList
<1> QED
  BY <1>2, <1>4, <1>7, <1>18

\* The loop of the constructor finds the names, each once for every place
\* where it stands.
LEMMA ListIsGood ==
  ASSUME NEW value \in Seq(STRING), value # <<>>
  PROVE  GoodList(listOfAllowedAssemblies(value), value)
<1>1. PICK A : /\ \A r \in Rests(value) : A[r] = Turn(A, r)
               /\ listOfAllowedAssemblies(value) = A[value]
  BY Parsed
<1> DEFINE Bad == {n \in Nat : \E r \in Rests(value) : Len(r) = n /\ ~GoodList(A[r], r)}
<1>2. ASSUME Bad # {} PROVE FALSE
  <2>1. PICK n \in Bad : \A m \in Bad : n <= m
    BY <1>2, Least
  <2>2. PICK r \in Rests(value) : Len(r) = n /\ ~GoodList(A[r], r)
    BY <2>1
  <2>3. r \in Seq(STRING) /\ A[r] = Turn(A, r)
    BY <1>1, RestFacts
  <2>4. CASE Seps(r) = {}
    <3>1. A[r] = <<r>>
      BY <2>3, <2>4 DEF Turn
    <3>2. GoodList(<<r>>, r)
      BY <2>3, <2>4, GoodWithout
    <3> QED
      BY <2>2, <3>1, <3>2
  <2>5. CASE Seps(r) # {}
    <3>1. PICK p, b : p = Foremost(Seps(r)) /\ b = Behind(r)
      OBVIOUS
    <3>2. A[r] = <<SubSeq(r, 1, p - 1)>> \o A[b]
      BY <2>3, <2>5, <3>1 DEF Turn, Behind
    <3>3. b \in Rests(value) /\ b \in Seq(STRING)
      BY <2>5, <3>1, RestFacts
    <3>4. CutAt(r, p, b)
      BY <2>3, <2>5, <3>1, FirstSep
    <3>5. Len(b) \in Nat /\ Len(b) < n
      BY <2>2, <2>3, <3>3, <3>4 DEF CutAt
    <3>6. Len(b) \notin Bad
      BY <2>1, <3>5
    <3>7. GoodList(A[b], b)
      BY <3>3, <3>5, <3>6
    <3>8. GoodList(<<SubSeq(r, 1, p - 1)>> \o A[b], r)
      <4> HIDE DEF Bad
      <4> QED
        BY <2>3, <3>4, <3>7, GoodWith
    <3> QED
      BY <2>2, <3>2, <3>8
  <2> QED
    BY <2>4, <2>5
<1>3. value \in Rests(value)
  BY WholeIsARest
<1>4. GoodList(A[value], value)
  BY <1>2, <1>3
<1> QED
  BY <1>1, <1>4

\* What EntriesAreTheNames says of the list, and that there is an entry.
LEMMA EntriesByNames ==
  ASSUME NEW value \in Seq(STRING), value # <<>>, NEW entries,
         entries = listOfAllowedAssemblies(value)
  PROVE  /\ {entries[i] : i \in DOMAIN entries} = Names(value)
         /\ Len(entries) = 1 + Cardinality(Places(value, <<Separator>>))
         /\ entries # <<>>
<1>1. GoodList(entries, value)
  BY ListIsGood
<1>2. Cardinality(Seps(value)) \in Nat
  <2>1. Seps(value) \subseteq 1 .. Len(value)
    BY SepPlaces
  <2>2. IsFiniteSet(1 .. Len(value))
    BY FS_Interval
  <2> QED
    BY <2>1, <2>2, FS_Subset, FS_CardinalityType
<1>3. Len(entries) > 0
  BY <1>1, <1>2 DEF GoodList
<1>4. entries # <<>>
  BY <1>3
<1> QED
  BY <1>1, <1>4 DEF GoodList, Seps

-----------------------------------------------------------------------------
(* What the list is, and what the stubs pass on.                           *)

FilterInv ==
  /\ setting \in Settings /\ text \in Seq(STRING)
  /\ phase = "profiling" => list = listOfAllowedAssemblies(text)

LEMMA FilterInit == Init => FilterInv
<1> SUFFICES ASSUME Init PROVE FilterInv
  OBVIOUS
<1>1. setting \in Settings /\ text = <<>> /\ phase = "new"
  BY DEF Init
<1>2. text \in Seq(STRING)
  BY <1>1
<1> QED
  BY <1>1, <1>2 DEF FilterInv

LEMMA FilterNext == FilterInv /\ [Next]_vars => FilterInv'
<1> SUFFICES ASSUME FilterInv, [Next]_vars PROVE FilterInv'
  OBVIOUS
<1>1. ASSUME UNCHANGED filter, phase' = "profiling" => phase = "profiling"
      PROVE  FilterInv'
  <2>1. setting' = setting /\ text' = text /\ list' = list
    BY <1>1 DEF filter
  <2>2. phase' = "profiling" => list' = listOfAllowedAssemblies(text')
    BY <1>1, <2>1 DEF FilterInv
  <2> QED
    BY <2>1, <2>2 DEF FilterInv
<1>2. CASE CoreProfiler
  <2>1. PICK results : /\ results = ReadEnvironmentVariable(setting, convention = "win64",
                                          ValueSize, Settings \ {Unset})
                       /\ \/ phase' = "dead" /\ UNCHANGED <<text, list>>
                          \/ /\ text' \in results
                             /\ list' = listOfAllowedAssemblies(text')
                             /\ phase' = "profiling"
                       /\ setting' = setting
    BY <1>2 DEF CoreProfiler
  <2>2. CASE phase' = "dead" /\ UNCHANGED <<text, list>>
    BY <2>1, <2>2 DEF FilterInv
  <2>3. CASE /\ text' \in results
             /\ list' = listOfAllowedAssemblies(text')
             /\ phase' = "profiling"
    <3>1. text' \in Settings \/ text' = <<>>
      <4>1. PICK onWindows : onWindows = (convention = "win64")
        OBVIOUS
      <4>2. text' \in ReadEnvironmentVariable(setting, onWindows, ValueSize,
                                             Settings \ {Unset})
        BY <2>1, <2>3, <4>1
      <4>3. ReadEnvironmentVariable(setting, onWindows, ValueSize, Settings \ {Unset})
              \subseteq Settings \cup {<<>>}
        BY DEF ReadEnvironmentVariable, FilterInv
      <4> QED
        BY <4>2, <4>3
    <3>2. text' \in Seq(STRING)
      <4>1. <<>> \in Seq(STRING)
        OBVIOUS
      <4>2. \A v \in Settings : v \in Seq(STRING)
        BY SettingsAssumption
      <4> QED
        BY <3>1, <4>1, <4>2
    <3> QED
      BY <2>1, <2>3, <3>2 DEF FilterInv
  <2> QED
    BY <2>1, <2>2, <2>3
<1>3. CASE ClearMaps
  <2>1. setting' = setting /\ text' = text /\ phase' = "clearing"
    BY <1>3 DEF ClearMaps
  <2> QED
    BY <2>1 DEF FilterInv
<1>4. CASE ClearGlobal
  BY <1>1, <1>4 DEF ClearGlobal
<1>5. ASSUME NEW t \in Threads, NEW f \in Functions, Mapper2Refuses(t, f) \/ MapperLocates(t, f)
      PROVE  FilterInv'
  BY <1>1, <1>5 DEF Mapper2Refuses, MapperLocates
<1>6. ASSUME NEW t \in Threads, MapperLinks(t) PROVE FilterInv'
  BY <1>1, <1>6 DEF MapperLinks
<1>7. ASSUME NEW h \in DOMAIN Hook, NEW f \in Functions, Hooks(h, f) PROVE FilterInv'
  BY <1>1, <1>7 DEF Hooks
<1>8. CASE Stub
  <2>1. UNCHANGED filter /\ phase' = phase
    BY <1>8 DEF Stub
  <2> QED
    BY <1>1, <2>1
<1>9. CASE Machine
  BY <1>1, <1>9 DEF Machine
<1>10. CASE UNCHANGED vars
  BY <1>1, <1>10 DEF vars
<1> QED
  BY <1>2, <1>3, <1>4, <1>5, <1>6, <1>7, <1>8, <1>9, <1>10 DEF Next

\* While the profiler is at work its list holds the names of the value and
\* nothing else, each as often as it stands there (CoreProfiler.cpp:31-44).
THEOREM ListHoldsTheNames == Spec => []EntriesAreTheNames
<1>1. FilterInv => EntriesAreTheNames
  <2> SUFFICES ASSUME FilterInv, phase = "profiling"
               PROVE  IF text = <<>> THEN list = <<>>
                      ELSE /\ {list[i] : i \in DOMAIN list} = Names(text)
                           /\ Len(list) = 1 + Cardinality(Places(text, <<Separator>>))
    BY DEF EntriesAreTheNames
  <2>1. text \in Seq(STRING) /\ list = listOfAllowedAssemblies(text)
    BY DEF FilterInv
  <2>2. CASE text = <<>>
    BY <2>1, <2>2 DEF listOfAllowedAssemblies
  <2>3. CASE text # <<>>
    BY <2>1, <2>3, EntriesByNames
  <2> QED
    BY <2>2, <2>3
<1> QED
  BY <1>1, FilterInit, FilterNext, PTL DEF Spec

\* From its call on, a hook has passed on its function or nothing, as the
\* argument says.
AfterCall == (convention = "sysv" /\ ip > 10) \/ (convention = "win64" /\ ip > 9)
PassedInv ==
  phase = "profiling" /\ AfterCall => reached = IF argument # 0 THEN target ELSE 0

LEMMA PassedNext ==
  MachineInv /\ VerdictInv /\ PassedInv /\ [Next]_vars => PassedInv'
<1> SUFFICES ASSUME MachineInv, VerdictInv, PassedInv, [Next]_vars,
                    phase' = "profiling", AfterCall'
             PROVE  reached' = IF argument' # 0 THEN target' ELSE 0
  BY DEF PassedInv
<1>1. ip' > 9 /\ ip' # 0 /\ ip \in Nat /\ convention \in Conventions
  <2>1. ip' \in Nat /\ ip \in Nat /\ convention \in Conventions
    BY MachineNext DEF MachineInv
  <2>2. ip' > 10 \/ ip' > 9
    BY DEF AfterCall
  <2> QED
    BY <2>1, <2>2
<1>2. CASE CoreProfiler
  <2>1. phase = "new" /\ ip' = ip
    BY <1>2 DEF CoreProfiler, cpu
  <2>2. ip = 0
    BY <2>1 DEF VerdictInv, HookInv, InTheHook, NotYet
  <2> QED
    BY <1>1, <2>1, <2>2
<1>3. ASSUME UNCHANGED <<cpu, phase, target, reached>>
      PROVE  reached' = IF argument' # 0 THEN target' ELSE 0
  <2>1. UNCHANGED <<convention, ip, argument, phase, target, reached>>
    BY <1>3 DEF cpu
  <2>2. phase = "profiling" /\ AfterCall
    BY <2>1 DEF AfterCall
  <2> QED
    BY <2>1, <2>2 DEF PassedInv
<1>4. CASE ClearMaps \/ ClearGlobal
  BY <1>4 DEF ClearMaps, ClearGlobal
<1>5. ASSUME NEW t \in Threads, NEW f \in Functions, Mapper2Refuses(t, f) \/ MapperLocates(t, f)
      PROVE  reached' = IF argument' # 0 THEN target' ELSE 0
  BY <1>3, <1>5 DEF Mapper2Refuses, MapperLocates
<1>6. ASSUME NEW t \in Threads, MapperLinks(t)
      PROVE  reached' = IF argument' # 0 THEN target' ELSE 0
  BY <1>3, <1>6 DEF MapperLinks
<1>7. ASSUME NEW h \in DOMAIN Hook, NEW f \in Functions, Hooks(h, f)
      PROVE  reached' = IF argument' # 0 THEN target' ELSE 0
  <2>1. ip' = 1
    BY <1>7 DEF Hooks, CallHook
  <2> QED
    BY <1>1, <2>1
<1>8. CASE Stub
  <2>1. /\ reached' = IF PassesOn THEN target ELSE 0
        /\ phase' = phase /\ target' = target /\ argument' = argument
    BY <1>8 DEF Stub, ExecuteCall
  <2>2. PassesOn <=> argument # 0
    BY <2>1 DEF PassesOn, g_CoreProfiler
  <2> QED
    BY <2>1, <2>2
<1>9. CASE Machine
  <2>1. phase' = phase
    BY <1>9 DEF Machine
  <2>2. ~(ExecuteRet /\ target' = 0 /\ reached' = 0)
    BY <1>1 DEF ExecuteRet
  <2>3. /\ ExecutePush \/ ExecutePop \/ ExecuteAdd
        /\ UNCHANGED <<target, reached>>
    BY <1>9, <2>2 DEF Machine
  <2>4. /\ Executes("push") \/ Executes("pop") \/ Executes("add")
        /\ ip' = ip + 1 /\ convention' = convention /\ argument' = argument
    BY <2>3 DEF ExecutePush, ExecutePop, ExecuteAdd
  <2>5. AfterCall
    <3>1. CASE convention = "sysv"
      <4>1. ip \in 1 .. 9 \/ ip \in 11 .. 19
        BY <2>4, <3>1, SysvKinds
      <4>2. ip' > 10
        BY <2>4, <3>1 DEF AfterCall
      <4> QED
        BY <2>4, <3>1, <4>1, <4>2 DEF AfterCall
    <3>2. CASE convention = "win64"
      <4>1. ip \in 1 .. 7 \/ ip \in 11 .. 17 \/ ip = 8 \/ ip = 10
        BY <2>4, <3>2, Win64Kinds
      <4>2. ip' > 9
        BY <1>1
      <4> QED
        BY <2>4, <3>2, <4>1, <4>2 DEF AfterCall
    <3> QED
      BY <1>1, <3>1, <3>2 DEF Conventions
  <2> QED
    BY <2>1, <2>3, <2>4, <2>5 DEF PassedInv
<1>10. CASE UNCHANGED vars
  BY <1>3, <1>10 DEF vars
<1> QED
  BY <1>2, <1>4, <1>5, <1>6, <1>7, <1>8, <1>9, <1>10 DEF Next

\* A whole text is a place in itself.
LEMMA OccursInItself ==
  ASSUME NEW name \in Seq(STRING)
  PROVE  Occurs(name, name)
<1>1. 1 \in 1 .. Len(name) - Len(name) + 1 /\ SubSeq(name, 1, 1 + Len(name) - 1) = name
  <2>1. Len(name) \in Nat
    OBVIOUS
  <2>2. /\ SubSeq(name, 1, Len(name)) = name
        /\ 1 + Len(name) - 1 = Len(name) /\ Len(name) - Len(name) + 1 = 1
    BY <2>1
  <2> QED
    BY <2>2
<1> QED
  BY <1>1 DEF Occurs, Places

\* The verdict of the list is what the names of the variable ask for.
LEMMA VerdictIsTheWish ==
  ASSUME FilterInv, phase = "profiling", NEW f, Judged(f), NEW name,
         name = assembly[f].name
  PROVE  /\ name \in Names(setting) => IsTraced(f, name)
         /\ name \notin Names(setting) /\ Apart(setting, name) => ~IsTraced(f, name)
<1>1. /\ text \in Seq(STRING) /\ list = listOfAllowedAssemblies(text)
      /\ text = setting /\ text # <<>> /\ assembly[f].known = "all"
  BY DEF FilterInv, Judged
<1>2. {list[i] : i \in DOMAIN list} = Names(text) /\ list # <<>>
  BY <1>1, EntriesByNames
<1>3. IsTraced(f, name) <=> \E n \in Names(text) : Occurs(n, name)
  <2>1. IsTraced(f, name) <=> \E i \in DOMAIN list : Occurs(list[i], name)
    BY <1>1, <1>2 DEF IsTraced, isInAllowedAssemblies
  <2>2. (\E i \in DOMAIN list : Occurs(list[i], name))
          <=> \E n \in Names(text) : Occurs(n, name)
    BY <1>2
  <2> QED
    BY <2>1, <2>2
<1>4. ASSUME name \in Names(setting) PROVE IsTraced(f, name)
  <2>1. name \in Seq(STRING)
    <3>1. PICK k \in Ends(text) \ {Len(text) + 1} : name = NameAt(text, k)
      BY <1>1, <1>4, NamesAreAtEnds
    <3>2. PICK n : n = NextEnd(text, k)
      OBVIOUS
    <3>3. n \in Ends(text) /\ n > k
      BY <1>1, <3>1, <3>2, NextExists
    <3>4. /\ k \in Nat /\ n \in Nat /\ n <= Len(text) + 1 /\ Len(text) \in Nat
          /\ name = SubSeq(text, k + 1, n - 1)
      BY <1>1, <3>1, <3>2, <3>3 DEF Ends, NameAt
    <3>5. \A i \in k + 1 .. n - 1 : i \in 1 .. Len(text)
      BY <3>4
    <3> QED
      BY <1>1, <3>4, <3>5, SubSeqProperties
  <2> QED
    BY <1>1, <1>3, <1>4, <2>1, OccursInItself
<1>5. ASSUME name \notin Names(setting), Apart(setting, name) PROVE ~IsTraced(f, name)
  BY <1>1, <1>3, <1>5 DEF Apart
<1> QED
  BY <1>4, <1>5

\* A hook that returns while the profiler is at work has passed its function
\* on when the variable names the assembly, and not when it does not and none
\* of its names is a part of the assembly's: from the parsing of the variable
\* through the mapper, its overlapping insertions, the registers and the stub
\* (CoreProfiler.cpp:31-157, src/README.md:67).
THEOREM HooksReachTheWanted == Spec => []ReachedAreWanted
<1>1. FilterInv /\ MachineInv /\ VerdictInv /\ PassedInv => ReachedAreWanted
  <2> SUFFICES ASSUME FilterInv, MachineInv, VerdictInv, PassedInv,
                      phase = "profiling", Executes("ret"), Judged(target),
                      NEW name, name = assembly[target].name
               PROVE  /\ name \in Names(setting) => reached = target
                      /\ name \notin Names(setting) /\ Apart(setting, name) => reached = 0
    BY DEF ReachedAreWanted
  <2>1. ip # 0
    BY DEF Executes
  <2>2. target \in Functions /\ argument \in answers[target]
    BY <2>1 DEF VerdictInv, HookInv, InTheHook
  <2>3. argument = Verdict(target)
    BY <2>2 DEF VerdictInv, Answered, Judged
  <2>4. /\ name \in Names(setting) => IsTraced(target, name)
        /\ name \notin Names(setting) /\ Apart(setting, name) => ~IsTraced(target, name)
    BY VerdictIsTheWish
  <2>5. AfterCall
    <3>1. CASE convention = "sysv"
      BY <3>1, SysvKinds DEF AfterCall
    <3>2. CASE convention = "win64"
      BY <3>2, Win64Kinds DEF AfterCall
    <3> QED
      BY <3>1, <3>2 DEF MachineInv, Conventions
  <2>6. reached = IF argument # 0 THEN target ELSE 0
    BY <2>5 DEF PassedInv
  <2>7. target # 0
    BY <2>2, FunctionsAssumption
  <2> QED
    BY <2>3, <2>4, <2>6, <2>7 DEF Verdict
<1>2. Init => MachineInv
  BY MachineInit DEF Init
<1>3. Init => PassedInv
  BY DEF Init, PassedInv
<1> QED
  BY <1>1, <1>2, <1>3, FilterInit, FilterNext, MachineNext, VerdictInit, VerdictNext,
     PassedNext, PTL DEF Spec
=============================================================================
