------------------------------ MODULE HookPath ------------------------------
(***************************************************************************)
(* The way of a call into the profiler: the constructor reads the list of  *)
(* assemblies, Mapper judges a function by it and records its name, and    *)
(* the naked hook hands what Mapper2 answered to a stub, which passes it   *)
(* on unless it is null.  NakedCallbacks is the machine that runs a hook,  *)
(* AssemblyFilter the list.                                                *)
(*                                                                         *)
(* The runtime maps functions on several threads at once (corprof.idl:161) *)
(* and std::map does not exclude them: the insertion is two steps, finding *)
(* the null pointer of the tree where the node belongs, which is to say    *)
(* the gap between two neighbouring keys, and writing it.  Hooks of        *)
(* different threads share no register and no stack slot, so one at a time *)
(* is enough.                                                              *)
(***************************************************************************)
EXTENDS NakedCallbacks, AssemblyFilter, FiniteSets

CONSTANTS
  Threads,
  Functions,    \* FunctionIDs: keys of a map, so numbers; 0 is null
  Settings,     \* values of PROFILER_ENABLE_ASSEMBLIES, Unset among them
  Profiled,     \* what the runtime may know of the functions' assemblies
  Remains,      \* what memory that nobody has written may hold
  ValueSize     \* room for the value of an environment variable

\* GetFunctionInfo, GetModuleInfo and GetAssemblyInfo may fail, and the buffer
\* for the name of the assembly has the room that the path of its module
\* needs, which is none for a module that was made in memory.  In both cases
\* of "no name" nothing is written into it, and it is searched all the same.
Lookups == {"all", "no name", "no module", "nothing"}

ASSUME FunctionsAssumption == Functions \subseteq Nat \ {0}
ASSUME ProfiledAssumption  ==
  \A p \in Profiled : \A f \in Functions : p[f].known \in Lookups
ASSUME RemainsAssumption   == Remains # {}
ASSUME SizeAssumption      == ValueSize \in Nat
ASSUME SettingsAssumption  == Settings \subseteq Seq(STRING)

VARIABLES
  setting,      \* the value of the variable
  text,         \* what the constructor read, and the list it made of it
  list,
  phase,        \* of the process; in "clearing" Shutdown has cleared its maps
  assembly,     \* per function: what the runtime knows of its assembly
  mapping,      \* per thread: the insertion that Mapper is in
  m_functionMap,
  answers,      \* per function: what Mapper2 answered
  target,       \* the function whose hook runs
  reached       \* what the stub of that hook passed on; 0 if nothing

filter == <<setting, text, list>>
names  == <<mapping, m_functionMap, answers>>
vars   == <<filter, phase, assembly, names, target, reached, cpu>>

Init ==
  /\ setting \in Settings /\ text = <<>> /\ list = <<>> /\ phase = "new"
  /\ assembly \in Profiled
  /\ mapping = [t \in Threads |-> <<>>]
  /\ m_functionMap = [f \in Functions |-> "absent"]
  /\ answers = [f \in Functions |-> {}]
  /\ target = 0 /\ reached = 0
  /\ convention \in Conventions /\ AtRest

\* The constructor.  The process ends when either of the two variables that
\* it reads is a null pointer.
CoreProfiler ==
  LET Read(value) == ReadEnvironmentVariable(value, convention = "win64",
                                             ValueSize, Settings \ {Unset})
  IN /\ phase = "new"
     /\ \E enableDealloc \in {Unset, <<"1">>} :
          IF Read(setting) = {} \/ Read(enableDealloc) = {}
          THEN phase' = "dead" /\ UNCHANGED <<text, list>>
          ELSE /\ text' \in Read(setting)
               /\ list' = listOfAllowedAssemblies(text')
               /\ phase' = "profiling"
     /\ UNCHANGED <<setting, assembly, names, target, reached, cpu>>

\* The global is set while phase is one of these.
g_CoreProfiler == phase \in {"profiling", "clearing"}

\* Shutdown clears the maps and the list, and g_CoreProfiler only later.
ClearMaps ==
  /\ phase = "profiling" /\ phase' = "clearing"
  /\ list' = <<>> /\ m_functionMap' = [f \in Functions |-> "absent"]
  /\ UNCHANGED <<setting, text, assembly, mapping, answers, target, reached, cpu>>

ClearGlobal ==
  /\ phase = "clearing" /\ phase' = "over"
  /\ UNCHANGED <<filter, assembly, names, target, reached, cpu>>
-----------------------------------------------------------------------------
(* Mapper2, on any thread that is about to run a function.                 *)

\* What Mapper finds in its buffer: without a name, what another use of the
\* memory has left in it and, up to the next null, behind it, so something
\* else each time.
PszName(f) == IF assembly[f].known = "all" THEN {assembly[f].name} ELSE Remains

\* The verdict of Mapper; a module that GetModuleInfo refuses is not judged.
IsTraced(f, pszName) ==
  /\ assembly[f].known # "nothing"
  /\ assembly[f].known = "no module" \/ isInAllowedAssemblies(list, pszName)

Keys == {f \in Functions : m_functionMap[f] # "absent"}
Gap(f) == {k \in Functions \ Keys : \A m \in Keys : m < k <=> m < f}
Answer(f, id) == answers' = [answers EXCEPT ![f] = @ \cup {id}]

\* Mapper2 answers 0 at once.
Mapper2Refuses(t, f) ==
  /\ phase \in {"profiling", "clearing", "over"} /\ mapping[t] = <<>>
  /\ ~g_CoreProfiler \/ \E pszName \in PszName(f) : ~IsTraced(f, pszName)
  /\ Answer(f, 0)
  /\ UNCHANGED <<filter, phase, assembly, mapping, m_functionMap, target,
                 reached, cpu>>

\* insert() meets the key, or the gap in which it belongs.  The verdict of
\* Mapper does not depend on which.
Mutant_Inserted(f) == 0
Known(f) == f
MapperLocates(t, f) ==
  /\ g_CoreProfiler /\ mapping[t] = <<>>
  /\ \E pszName \in PszName(f) : IsTraced(f, pszName)
  /\ IF f \in Keys THEN Answer(f, Known(f)) /\ UNCHANGED mapping
     ELSE /\ mapping' = [mapping EXCEPT ![t] = <<f, Gap(f)>>]
          /\ UNCHANGED answers
  /\ UNCHANGED <<filter, phase, assembly, m_functionMap, target, reached, cpu>>

\* insert() writes the pointer: what was linked there meanwhile is lost.
MapperLinks(t) ==
  /\ mapping[t] # <<>>
  /\ LET f == mapping[t][1]
     IN /\ m_functionMap' = [k \in Functions |->
             IF k = f THEN "info"
             ELSE IF k \in mapping[t][2] THEN "absent" ELSE m_functionMap[k]]
        /\ Answer(f, f)
  /\ mapping' = [mapping EXCEPT ![t] = <<>>]
  /\ UNCHANGED <<filter, phase, assembly, target, reached, cpu>>
-----------------------------------------------------------------------------
(* The hooks of a function that was mapped.  Mapper2 leaves the flag that  *)
(* asks for them set when it answers 0, and the stubs rely on getting that *)
(* 0 back, as here; corprof.idl:154-159 calls what follows unpredictable.  *)

Hooks(h, f) ==
  /\ \E id \in answers[f] : CallHook(h, id)
  /\ target' = f /\ reached' = 0
  /\ UNCHANGED <<filter, phase, assembly, names>>

\* EnterStub, LeaveStub and TailcallStub.
Mutant_NullToo == g_CoreProfiler
PassesOn       == argument # 0 /\ g_CoreProfiler

\* Enter looks the function up with operator[], which leaves a null entry.
Stub ==
  /\ ExecuteCall
  /\ reached' = IF PassesOn THEN target ELSE 0
  /\ m_functionMap' = IF PassesOn /\ hook = "enter" /\ m_functionMap[target] = "absent"
                      THEN [m_functionMap EXCEPT ![target] = "null"]
                      ELSE m_functionMap
  /\ UNCHANGED <<filter, phase, assembly, mapping, answers, target>>

Machine ==
  /\ \/ /\ ExecutePush \/ ExecutePop \/ ExecuteAdd
        /\ UNCHANGED <<target, reached>>
     \/ ExecuteRet /\ target' = 0 /\ reached' = 0
  /\ UNCHANGED <<filter, phase, assembly, names>>

Next ==
  \/ CoreProfiler \/ ClearMaps \/ ClearGlobal
  \/ \E t \in Threads :
       \/ \E f \in Functions : Mapper2Refuses(t, f) \/ MapperLocates(t, f)
       \/ MapperLinks(t)
  \/ \E h \in DOMAIN Hook, f \in Functions : Hooks(h, f)
  \/ Stub \/ Machine

Spec == Init /\ [][Next]_vars
-----------------------------------------------------------------------------
(* Correctness.                                                            *)

\* Every variable holds a value of its type.
TypeOK ==
  /\ CpuTypeOK
  /\ setting \in Settings /\ assembly \in Profiled
  /\ phase \in {"new", "profiling", "clearing", "over", "dead"}
  /\ \A t \in Threads : mapping[t] # <<>> =>
       mapping[t][1] \in Functions /\ mapping[t][2] \subseteq Functions
  /\ m_functionMap \in [Functions -> {"absent", "null", "info"}]
  /\ answers \in [Functions -> SUBSET (Functions \cup {0})]
  /\ target \in Functions \cup {0} /\ reached \in Functions \cup {0}

\* The list holds the names between the separators, the first and the last
\* of them too, each once for every place where it stands.
EntriesAreTheNames ==
  phase = "profiling" =>
    IF text = <<>> THEN list = <<>>
    ELSE /\ {list[i] : i \in DOMAIN list} = Names(text)
         /\ Len(list) = 1 + Cardinality(Places(text, <<Separator>>))

\* Until Shutdown clears the list, the hooks reach the profiler with every
\* function of an assembly that the variable names, and with none of an
\* assembly that it does not name, unless a name of the list is a part of
\* that assembly's.  The value has to have room and the runtime to name the
\* assembly.
Judged(f) == assembly[f].known = "all" /\ text = setting /\ setting # <<>>
ReachedAreWanted ==
  phase = "profiling" /\ Executes("ret") /\ Judged(target) =>
    LET name == assembly[target].name
    IN /\ name \in Names(setting) => reached = target
       /\ name \notin Names(setting) /\ Apart(setting, name) => reached = 0

\* Whatever the look-ups say and however the answers of the mapper for one
\* function differ, no call of a function is reported, and no entry of the
\* map made for it, before the mapper has answered with its id.
RefusedStayOut ==
  \A f \in Functions : f \notin answers[f] =>
    m_functionMap[f] = "absent" /\ reached # f

\* Every function that has hooks has a FunctionInfo, without which Enter
\* records none of its calls.
MappedHaveRecords ==
  phase = "profiling" =>
    \A f \in Functions : f \in answers[f] => m_functionMap[f] = "info"
=============================================================================
