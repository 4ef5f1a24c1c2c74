------------------------------ MODULE CallTree ------------------------------
(***************************************************************************)
(* The call tree kept by CoreProfiler (src/SharedPerunProfiler): one tree  *)
(* of FunctionClass objects per thread, grown by the enter hook, closed by *)
(* the leave, tail-call and exception callbacks, and written out and freed *)
(* by Shutdown.  Every callback is one step; Shutdown, the one long call   *)
(* that other threads can overtake, is one step per statement that reads   *)
(* or writes the tree.                                                     *)
(*                                                                         *)
(* The runtime that raises the callbacks is external to the profiler.  It  *)
(* is modelled by its call stacks, by an exception that unwinds them, and  *)
(* by a coarse clock.                                                      *)
(***************************************************************************)
EXTENDS Integers, Sequences, FiniteSets

CONSTANTS
  Threads,        \* ThreadIDs: map keys, so numbers; 0 is no thread
  Functions,      \* FunctionIDs the program calls
  Traced,         \* those whose assembly passes the filter of Mapper
  Mode,           \* PROFILER_MODE: 0 everything, 1 calls, 2 allocations
  Throws,         \* TRUE when the program throws exceptions
  LateCallbacks,  \* TRUE when callbacks arrive during and after Shutdown
  MaxCalls,       \* bound on FunctionClass objects
  MaxDepth,       \* bound on a runtime stack
  MaxTime         \* bound on the clock

ASSUME ThreadsAssumption == Threads \subseteq Nat \ {0}
ASSUME TracedAssumption  == Traced \subseteq Functions
ASSUME ModeAssumption    == Mode \in {0, 1, 2}
ASSUME SwitchAssumption  == Throws \in BOOLEAN /\ LateCallbacks \in BOOLEAN
ASSUME BoundAssumption   ==
  MaxCalls \in Nat /\ MaxDepth \in Nat /\ MaxTime \in Nat \ {0}

VARIABLES
  (* the profiler *)
  calls,           \* every FunctionClass allocated, in order of allocation
  freed,           \* those that were deleted
  m_functionMap,   \* per function: no key, a null entry, a FunctionInfo
  known,           \* keys of m_activeFunctionInThread
  first, second,   \* its values: last order number, active FunctionClass
  info,            \* _info holds the runtime's interface
  g_CoreProfiler,  \* the global pointer is set
  allocs,          \* what ObjectAllocated recorded of the call tree
  fault,           \* "none", or how the process died
  (* the Shutdown call *)
  pc, cursor, walk, endTime, log,
  (* the runtime *)
  stack, unwinding, hooked, now

tree     == <<calls, known, first, second>>
profiler == <<calls, freed, m_functionMap, known, first, second, info,
              g_CoreProfiler, allocs, fault>>
shutdown == <<pc, cursor, walk, endTime, log>>
runtime  == <<stack, unwinding, hooked, now>>
vars     == <<profiler, shutdown, runtime>>

Nil == 0   \* the null pointer; an object is its index in calls

FunctionClass ==
  [prevFunction : Nat, funcId : Functions, TID : Threads,
   wallTimeEnter : Nat, wallTimeLeave : Nat, cpuTimeLeave : Nat,
   callOrderNumber : Nat, depth : Nat, calledFunctions : Seq(Nat)]

Ids         == DOMAIN calls
Open(i)     == calls[i].wallTimeLeave = 0
IsRoot(i)   == calls[i].prevFunction = Nil
Children(i) == {c \in Ids : calls[c].prevFunction = i}
OpenChildren(i) == {c \in Children(i) : Open(c)}

\* The event masks that Initialize sets for each PROFILER_MODE.
CallEvents  == Mode \in {0, 1}
AllocEvents == Mode \in {0, 2}

Init ==
  /\ calls = <<>> /\ freed = {} /\ allocs = {} /\ fault = "none"
  /\ m_functionMap = [f \in Functions |-> "absent"]
  /\ known = {}
  /\ first = [t \in Threads |-> 0] /\ second = [t \in Threads |-> Nil]
  /\ info = TRUE /\ g_CoreProfiler = TRUE
  /\ pc = "running" /\ cursor = 0 /\ walk = <<>> /\ endTime = 0 /\ log = <<>>
  /\ stack = [t \in Threads |-> <<>>]
  /\ unwinding = [t \in Threads |-> "no"]
  /\ hooked = {} /\ now = 1

-----------------------------------------------------------------------------
(* What the callbacks do to the tree.                                      *)

\* A bad pointer was used: the access violation ends the process.
Crash(how) ==
  fault' = how /\ UNCHANGED <<tree, freed, m_functionMap>>

\* What dereferencing the active call of t meets.
Pointer(t) == IF second[t] = Nil THEN "null"
              ELSE IF second[t] \in freed THEN "freed" ELSE "none"

(* Beside an operator may stand its mutant, the same operator with a bug   *)
(* some run must notice; no definition of the model uses one.              *)
Mutant_SameOrder(t, parent) == IF parent = Nil THEN 0 ELSE first[t]
NextOrder(t, parent)        == IF parent = Nil THEN 0 ELSE first[t] + 1

Mutant_DepthFromBelow(parent) ==
  IF parent = Nil THEN -1 ELSE calls[parent].depth + 1
DepthUnder(parent) == IF parent = Nil THEN 0 ELSE calls[parent].depth + 1

Mutant_Unlinked(parent) == calls
Adopted(parent) ==
  IF parent = Nil THEN calls
  ELSE [calls EXCEPT ![parent].calledFunctions = Append(@, Len(calls) + 1)]

NewCall(t, f, parent) ==
  [prevFunction |-> parent, funcId |-> f, TID |-> t,
   wallTimeEnter |-> now, wallTimeLeave |-> 0, cpuTimeLeave |-> 0,
   callOrderNumber |-> NextOrder(t, parent), depth |-> DepthUnder(parent),
   calledFunctions |-> <<>>]

\* The active call, if any, adopts the new one, which becomes active.
EnterTree(t, f) ==
  /\ calls' = Append(Adopted(second[t]), NewCall(t, f, second[t]))
  /\ known' = known \cup {t}
  /\ first' = [first EXCEPT ![t] = NextOrder(t, second[t])]
  /\ second' = [second EXCEPT ![t] = Len(calls) + 1]
  /\ UNCHANGED <<freed, m_functionMap, fault>>

Enter(t, f) ==
  IF m_functionMap[f] # "info"     \* operator[] leaves a null entry behind
  THEN /\ m_functionMap' = [m_functionMap EXCEPT ![f] = "null"]
       /\ UNCHANGED <<tree, freed, fault>>
  ELSE IF ~info THEN Crash("info")
  ELSE IF Pointer(t) = "freed" THEN Crash("freed")
  ELSE EnterTree(t, f)

\* Where the entry points after a call was left: a root stays active.
Mutant_Stays(a) == a
Mutant_SkipsALevel(a) ==
  LET p == calls[a].prevFunction
  IN IF IsRoot(a) THEN a ELSE IF IsRoot(p) THEN p ELSE calls[p].prevFunction
Upward(a) == IF IsRoot(a) THEN a ELSE calls[a].prevFunction

\* GetCpuTime: still 0 at the first reading of the wall clock.
CpuTime(time) == time - 1

\* Leave, TailCall and ExceptionUnwindFunctionLeave share this text: the
\* active call is stamped, and its caller, if it has one, becomes active.
StampActive(t, time) ==
  /\ calls' = [calls EXCEPT ![second[t]].wallTimeLeave = time,
                            ![second[t]].cpuTimeLeave = CpuTime(time)]
  /\ second' = [second EXCEPT ![t] = Upward(second[t])]

Mutant_AnyEntry(t) == TRUE
HasEntry(t)        == t \in known

Leave(t) ==
  IF ~info THEN Crash("info")
  ELSE IF ~HasEntry(t) THEN UNCHANGED <<tree, freed, m_functionMap, fault>>
  ELSE IF Pointer(t) # "none" THEN Crash(Pointer(t))
  ELSE /\ StampActive(t, now)
       /\ UNCHANGED <<freed, m_functionMap, known, first, fault>>

-----------------------------------------------------------------------------
(* The runtime, and the callback each of its steps raises.                 *)

CallbacksRun == fault = "none" /\ (pc = "running" \/ LateCallbacks)
Executes(t)  == CallbacksRun /\ unwinding[t] = "no"
Top(t)       == stack[t][Len(stack[t])]
PopFrame(t)  ==
  stack' = [stack EXCEPT ![t] = SubSeq(@, 1, Len(@) - 1)]

\* Before a traced function first runs its FunctionID is mapped, which
\* records a FunctionInfo unless the key is taken; _info is used first.
Mapper(f) ==
  /\ CallbacksRun /\ CallEvents /\ f \in Traced \ hooked /\ g_CoreProfiler
  /\ hooked' = hooked \cup {f}
  /\ IF ~info THEN Crash("info")
     ELSE /\ m_functionMap' = [m_functionMap EXCEPT
                                ![f] = IF @ = "absent" THEN "info" ELSE @]
          /\ UNCHANGED <<tree, freed, fault>>
  /\ UNCHANGED <<info, g_CoreProfiler, allocs, shutdown, stack, unwinding, now>>

\* A call.  Only a hooked function reaches EnterStub with a non-zero id.
Call(t, f) ==
  /\ Executes(t) /\ CallEvents /\ (f \in Traced => f \in hooked \/ ~g_CoreProfiler)
  /\ Len(stack[t]) < MaxDepth /\ Len(calls) < MaxCalls
  /\ IF f \in hooked /\ g_CoreProfiler THEN Enter(t, f)
     ELSE UNCHANGED <<tree, freed, m_functionMap, fault>>
  /\ stack' = [stack EXCEPT ![t] = Append(@,
       [fn |-> f, call |-> IF calls' = calls THEN Nil ELSE Len(calls')])]
  /\ UNCHANGED <<info, g_CoreProfiler, allocs, shutdown, unwinding, hooked, now>>

\* The top frame of t goes, by a return (LeaveStub) or by a tail call
\* (TailcallStub), whose callee is then called like any other function.
LeaveFrame(t) ==
  /\ Executes(t) /\ stack[t] # <<>>
  /\ IF Top(t).fn \in hooked /\ g_CoreProfiler THEN Leave(t)
     ELSE UNCHANGED <<tree, freed, m_functionMap, fault>>
  /\ PopFrame(t)
  /\ UNCHANGED <<info, g_CoreProfiler, allocs, shutdown, unwinding, hooked, now>>

Return(t)   == LeaveFrame(t)
TailCall(t) == LeaveFrame(t)

\* An exception is thrown; its first pass raises only empty callbacks.
Throw(t) ==
  /\ Throws /\ Executes(t) /\ stack[t] # <<>>
  /\ unwinding' = [unwinding EXCEPT ![t] = "frame"]
  /\ UNCHANGED <<profiler, shutdown, stack, hooked, now>>

\* The second pass starts on the top frame: the callback calls Enter.
ExceptionUnwindFunctionEnter(t) ==
  /\ CallbacksRun /\ unwinding[t] = "frame" /\ stack[t] # <<>>
  /\ Len(calls) < MaxCalls
  /\ IF g_CoreProfiler THEN Enter(t, Top(t).fn)
     ELSE UNCHANGED <<tree, freed, m_functionMap, fault>>
  /\ unwinding' = [unwinding EXCEPT ![t] = "entered"]
  /\ UNCHANGED <<info, g_CoreProfiler, allocs, shutdown, stack, hooked, now>>

\* The frame is gone: the callback acts whether it was traced or not.
ExceptionUnwindFunctionLeave(t) ==
  /\ CallbacksRun /\ unwinding[t] = "entered"
  /\ Leave(t)
  /\ PopFrame(t)
  /\ unwinding' = [unwinding EXCEPT ![t] = "frame"]
  /\ UNCHANGED <<info, g_CoreProfiler, allocs, shutdown, hooked, now>>

\* The frame holds the handler, or no managed frame is left.
Catch(t) ==
  /\ CallbacksRun /\ unwinding[t] # "no"
  /\ unwinding' = [unwinding EXCEPT ![t] = "no"]
  /\ UNCHANGED <<profiler, shutdown, stack, hooked, now>>

\* An allocation is attributed to an order number of the thread; reading
\* the active call with operator[] makes t a key.  An allocation whose size
\* the runtime does not tell returns before that: no step of this module.
Mutant_LastOrder(t)  == first[t]
functionNumOrder(t)  == IF second[t] # Nil THEN first[t] ELSE -1

ObjectAllocated(t) ==
  /\ Executes(t) /\ AllocEvents
  /\ IF info
     THEN /\ known' = known \cup {t}
          /\ allocs' = allocs \cup
               {[TID |-> t, active |-> second[t], fnc |-> functionNumOrder(t)]}
          /\ UNCHANGED fault
     ELSE fault' = "info" /\ UNCHANGED <<known, allocs>>
  /\ UNCHANGED <<calls, freed, m_functionMap, first, second, info,
                 g_CoreProfiler, shutdown, runtime>>

Tick ==
  /\ CallbacksRun /\ now < MaxTime /\ now' = now + 1
  /\ UNCHANGED <<profiler, shutdown, stack, unwinding, hooked>>

-----------------------------------------------------------------------------
(* Shutdown.                                                               *)

At(label) == fault = "none" /\ pc = label

ShutdownBegin ==
  /\ At("running")
  /\ endTime' = now /\ pc' = "threads"
  /\ UNCHANGED <<profiler, cursor, walk, log, runtime>>

\* The loop over the map goes to the next key; a null entry is skipped.
NextThread ==
  /\ At("threads")
  /\ \E t \in known :
       /\ t > cursor /\ \A u \in known : u > cursor => t <= u
       /\ cursor' = t
       /\ pc' = IF second[t] = Nil THEN "threads" ELSE "climb"
  /\ UNCHANGED <<profiler, walk, endTime, log, runtime>>

\* One turn of the while loop: a call with a leave time of 0 gets the time of
\* Shutdown, and the entry moves up until it holds the top of the tree.
LeaveTimeMissing(i) ==
  calls[i].cpuTimeLeave = 0 \/ calls[i].wallTimeLeave = 0

Climb ==
  LET a == second[cursor]
  IN /\ At("climb")
     /\ IF LeaveTimeMissing(a) THEN StampActive(cursor, endTime)
        ELSE /\ second' = [second EXCEPT ![cursor] = Upward(a)]
             /\ UNCHANGED calls
     /\ pc' = IF IsRoot(a) THEN "serialize" ELSE "climb"
     /\ UNCHANGED <<freed, m_functionMap, known, first, fault, info,
                    g_CoreProfiler, allocs, cursor, walk, endTime, log, runtime>>

\* The line FunctionClass::Serialize writes of call i.
Mutant_OwnOrder(i) == IF IsRoot(i) THEN -1 ELSE calls[i].callOrderNumber
rFn(i) == IF IsRoot(i) THEN -1 ELSE calls[calls[i].prevFunction].callOrderNumber

Line(i) ==
  [call |-> i, TID |-> calls[i].TID, depth |-> calls[i].depth,
   eWALLt |-> calls[i].wallTimeEnter, lWALLt |-> calls[i].wallTimeLeave,
   rFn |-> rFn(i), nOr |-> calls[i].callOrderNumber]

\* Serialize is recursive: walk holds its activations, each with the child
\* it comes to next.
Mutant_SameChild == walk
NextChild == [walk EXCEPT ![Len(walk)].next = @ + 1]

SerializeCall(i, below) ==
  /\ log' = Append(log, Line(i))
  /\ walk' = Append(below, [call |-> i, next |-> 1])

Mutant_Leak(i) == freed
Delete(i)      == freed \cup {i}

SerializeRoot ==
  /\ At("serialize")
  /\ SerializeCall(second[cursor], <<>>)
  /\ pc' = "walk"
  /\ UNCHANGED <<profiler, cursor, endTime, runtime>>

SerializeChild ==
  LET top    == walk[Len(walk)]
      called == calls[top.call].calledFunctions
  IN /\ At("walk")
     /\ top.next <= Len(called)
     /\ SerializeCall(called[top.next], NextChild)
     /\ UNCHANGED <<profiler, pc, cursor, endTime, runtime>>

\* The loop over the list has come to its end; a list that was empty has no
\* loop and is not cleared.
LoopEnds ==
  LET top == walk[Len(walk)]
  IN /\ At("walk")
     /\ top.next > Len(calls[top.call].calledFunctions)
     /\ pc' = IF top.next > 1 THEN "clearing" ELSE "returning"
     /\ UNCHANGED <<profiler, cursor, walk, endTime, log, runtime>>

\* A call that a callback added since the loop ended is dropped unwritten.
ClearCalled ==
  /\ At("clearing")
  /\ calls' = [calls EXCEPT ![walk[Len(walk)].call].calledFunctions = <<>>]
  /\ pc' = "returning"
  /\ UNCHANGED <<known, first, second, freed, m_functionMap, info,
                 g_CoreProfiler, allocs, fault, cursor, walk, endTime, log,
                 runtime>>

\* The activation ends; its caller, another activation, deletes the call.
SerializeReturn ==
  LET depth == Len(walk)
      top   == walk[depth]
  IN /\ At("returning")
     /\ freed' = IF depth = 1 THEN freed ELSE Delete(top.call)
     /\ walk' = SubSeq(walk, 1, depth - 1)
     /\ pc' = IF depth = 1 THEN "delete" ELSE "walk"
     /\ UNCHANGED <<tree, m_functionMap, info, g_CoreProfiler, allocs, fault,
                    cursor, endTime, log, runtime>>

\* A callback may have moved the entry to a call that is already deleted.
DeleteRoot ==
  /\ At("delete")
  /\ IF second[cursor] \in freed THEN Crash("freed") /\ UNCHANGED pc
     ELSE /\ freed' = Delete(second[cursor])
          /\ pc' = "detach"
          /\ UNCHANGED <<tree, m_functionMap, fault>>
  /\ UNCHANGED <<info, g_CoreProfiler, allocs, cursor, walk, endTime, log,
                 runtime>>

DetachRoot ==
  /\ At("detach")
  /\ second' = [second EXCEPT ![cursor] = Nil]
  /\ pc' = "threads"
  /\ UNCHANGED <<calls, known, first, freed, m_functionMap, info,
                 g_CoreProfiler, allocs, fault, cursor, walk, endTime, log,
                 runtime>>

\* The loop is over: the names are written and the maps cleared.
ClearMaps ==
  /\ At("threads") /\ \A t \in known : t <= cursor
  /\ m_functionMap' = [f \in Functions |-> "absent"]
  /\ known' = {}
  /\ first' = [t \in Threads |-> 0] /\ second' = [t \in Threads |-> Nil]
  /\ pc' = "release"
  /\ UNCHANGED <<calls, freed, info, g_CoreProfiler, allocs, fault, cursor,
                 walk, endTime, log, runtime>>

ReleaseInfo ==
  /\ At("release")
  /\ info' = FALSE /\ pc' = "clear"
  /\ UNCHANGED <<tree, freed, m_functionMap, g_CoreProfiler, allocs, fault,
                 cursor, walk, endTime, log, runtime>>

ClearGlobal ==
  /\ At("clear")
  /\ g_CoreProfiler' = FALSE /\ pc' = "done"
  /\ UNCHANGED <<tree, freed, m_functionMap, info, allocs, fault, cursor,
                 walk, endTime, log, runtime>>

ShutdownStep ==
  \/ NextThread \/ Climb \/ SerializeRoot \/ SerializeChild
  \/ LoopEnds \/ ClearCalled \/ SerializeReturn
  \/ DeleteRoot \/ DetachRoot \/ ClearMaps \/ ReleaseInfo \/ ClearGlobal

RuntimeStep ==
  \/ \E f \in Functions : Mapper(f)
  \/ \E t \in Threads, f \in Functions : Call(t, f)
  \/ \E t \in Threads :
       \/ Return(t) \/ TailCall(t) \/ ObjectAllocated(t)
       \/ Throw(t) \/ ExceptionUnwindFunctionEnter(t)
       \/ ExceptionUnwindFunctionLeave(t) \/ Catch(t)
  \/ Tick

Next == RuntimeStep \/ ShutdownBegin \/ ShutdownStep

Spec == Init /\ [][Next]_vars

\* The thread that called Shutdown runs it to the end.
FairSpec == Spec /\ WF_vars(ShutdownStep)
-----------------------------------------------------------------------------
(* Correctness.                                                            *)

\* Every variable holds a value of its type, and every pointer of the tree
\* is null or points to an object that was allocated.
ProfilerTypeOK ==
  /\ calls \in Seq(FunctionClass)
  /\ freed \subseteq Ids
  /\ m_functionMap \in [Functions -> {"absent", "null", "info"}]
  /\ known \subseteq Threads
  /\ first \in [Threads -> Nat]
  /\ second \in [Threads -> {Nil} \cup Ids]
  /\ info \in BOOLEAN /\ g_CoreProfiler \in BOOLEAN
  /\ allocs \subseteq [TID : Threads, active : {Nil} \cup Ids, fnc : Nat \cup {-1}]
  /\ fault \in {"none", "null", "freed", "info"}
ShutdownTypeOK ==
  /\ pc \in {"running", "threads", "climb", "serialize", "walk", "clearing",
             "returning", "delete", "detach", "release", "clear", "done"}
  /\ cursor \in Threads \cup {0}
  /\ walk \in Seq([call : Ids, next : Nat \ {0}])
  /\ endTime \in Nat
  /\ log \in Seq([call : Ids, TID : Threads, depth : Nat, eWALLt : Nat,
                  lWALLt : Nat, rFn : Nat \cup {-1}, nOr : Nat])
RuntimeTypeOK ==
  /\ stack \in [Threads -> Seq([fn : Functions, call : {Nil} \cup Ids])]
  /\ unwinding \in [Threads -> {"no", "frame", "entered"}]
  /\ hooked \subseteq Traced
  /\ now \in Nat \ {0}
TypeOK == ProfilerTypeOK /\ ShutdownTypeOK /\ RuntimeTypeOK

\* The calls whose lines Shutdown has written.
Written == {log[k].call : k \in DOMAIN log}

\* The pointers prevFunction and calledFunctions that Enter writes describe
\* one forest: a call is under an older call of its own thread, one level
\* down, and in no list but that of its parent, at most once.  It is in that
\* list until Serialize, which clears it, has come to the parent.
TreeWellFormed ==
  \A i \in Ids :
    LET c == calls[i]
    IN /\ ~IsRoot(i) =>
            /\ c.prevFunction < i
            /\ calls[c.prevFunction].TID = c.TID
            /\ c.depth = calls[c.prevFunction].depth + 1
            /\ c.prevFunction \notin Written =>
                 \E k \in DOMAIN calls[c.prevFunction].calledFunctions :
                   calls[c.prevFunction].calledFunctions[k] = i
       /\ \A k \in DOMAIN c.calledFunctions :
            /\ c.calledFunctions[k] \in Children(i)
            /\ \A m \in DOMAIN c.calledFunctions :
                 m < k => c.calledFunctions[m] < c.calledFunctions[k]

\* callOrderNumber identifies a call within its thread, which is what the
\* rFn and fnc fields of the log rely on, and first is the last one issued.
OrdersUnique ==
  \A i \in Ids :
    /\ second[calls[i].TID] # Nil =>
         calls[i].callOrderNumber <= first[calls[i].TID]
    /\ \A j \in Ids :
         calls[i].TID = calls[j].TID /\ i < j =>
           calls[i].callOrderNumber < calls[j].callOrderNumber

\* The calls of a thread that are still open form one chain that ends in
\* the active call: an open call that is not active has exactly one open
\* child, the active call has none, and neither has a finished call below
\* the root.  Then the active call is where the next Enter and Leave belong.
OpenCallsFormChain ==
  /\ \A i \in Ids : Open(i) /\ i # second[calls[i].TID] =>
       \E c \in Ids : OpenChildren(i) = {c}
  /\ \A i \in Ids : ~Open(i) /\ ~IsRoot(i) => OpenChildren(i) = {}
  /\ \A t \in Threads : second[t] # Nil =>
       /\ calls[second[t]].TID = t
       /\ Open(second[t]) \/ IsRoot(second[t])
       /\ OpenChildren(second[t]) = {}

\* A call lies within its parent in time, unless the parent is the root of
\* its thread, which Leave stamps and leaves active.
IntervalsNest ==
  \A i \in Ids :
    /\ ~Open(i) => calls[i].wallTimeEnter <= calls[i].wallTimeLeave
    /\ ~IsRoot(i) =>
         LET p == calls[i].prevFunction
         IN /\ calls[p].wallTimeEnter <= calls[i].wallTimeEnter
            /\ ~IsRoot(p) /\ ~Open(p) =>
                 ~Open(i) /\ calls[i].wallTimeLeave <= calls[p].wallTimeLeave

\* Without exceptions the open calls are the traced frames of the runtime's
\* stacks, and the active call is the innermost of them.
TracedFrames(t) == {k \in DOMAIN stack[t] : stack[t][k].call # Nil}
TreeMirrorsStacks ==
  pc = "running" =>
    /\ \A i \in Ids :
         Open(i) <=> \E k \in TracedFrames(calls[i].TID) :
                       stack[calls[i].TID][k].call = i
    /\ \A t \in Threads : \A k \in TracedFrames(t) :
         (\A m \in TracedFrames(t) : m <= k) => second[t] = stack[t][k].call

\* A leave callback closes the call it is about: CoreProfiler.cpp:457
\* compares the FunctionIDs and calls a difference an error.
LeaveFindsItsCall ==
  \A t \in Threads :
    Executes(t) /\ stack[t] # <<>> /\ Top(t).fn \in hooked /\ second[t] # Nil
      => calls[second[t]].funcId = Top(t).fn

\* No callback dereferences a null, deleted or released pointer.
NoFault == fault = "none"

\* An allocation names the call it was made in.
AllocationNamesItsCall ==
  \A a \in allocs :
    a.active # Nil => a.fnc = calls[a.active].callOrderNumber

\* An allocation names an order number that a call of its thread bears, and
\* none when the thread had no call.
AllocationNamesACall ==
  \A a \in allocs :
    IF a.active = Nil THEN a.fnc = -1
    ELSE \E i \in Ids : calls[i].TID = a.TID /\ calls[i].callOrderNumber = a.fnc

\* What Shutdown has written when it is done: every call once, finished, and
\* after the call its rFn names, one level deeper than that call.
LogIsTheForest ==
  pc = "done" =>
    /\ Written = Ids /\ Len(log) = Len(calls)
    /\ \A k \in DOMAIN log :
         /\ log[k].eWALLt <= log[k].lWALLt
         /\ log[k].rFn # -1 =>
              \E m \in 1 .. k - 1 :
                /\ log[m].TID = log[k].TID /\ log[m].nOr = log[k].rFn
                /\ log[m].depth + 1 = log[k].depth

\* When Shutdown is done every call was deleted.
NothingLeaks == pc = "done" => freed = Ids

\* Even when callbacks overtake Shutdown, no call is written twice.
WrittenOnce == \A k, m \in DOMAIN log : log[k].call = log[m].call => k = m

\* A finished call below the root is never stamped again or moved.
FinishedCallsFrozen ==
  [][\A i \in Ids : ~Open(i) /\ ~IsRoot(i) =>
       /\ calls'[i].wallTimeLeave = calls[i].wallTimeLeave
       /\ calls'[i].prevFunction = calls[i].prevFunction]_vars

\* Shutdown terminates: the climb reaches a root and the walk ends.
ShutdownCompletes == pc # "running" ~> (pc = "done" \/ fault # "none")
\* The tree implements the promise: the thread and parent of each call are
\* its fields, and the open calls those without a leave time.
Forest == INSTANCE CallForest WITH
  thread <- [i \in Ids |-> calls[i].TID],
  parent <- [i \in Ids |-> calls[i].prevFunction],
  open   <- {i \in Ids : Open(i)}
ImplementsForest == Forest!Spec
=============================================================================
