----------------------------- MODULE CallForest -----------------------------
(***************************************************************************)
(* What the call tree promises, without objects, pointers or a Shutdown:   *)
(* calls are numbered as they are opened, the open calls of a thread are a *)
(* stack, and a new call belongs to the call on top of it.  One quirk of   *)
(* the profiler is part of the promise: a thread that has returned from    *)
(* everything may file its next call under the root it had before.         *)
(***************************************************************************)
EXTENDS Naturals, Sequences

CONSTANT Threads

VARIABLES
  thread,   \* the thread of every call, in the order they were opened
  parent,   \* the call each belongs to; 0 for a root
  open      \* the calls not yet closed

Mine(t)  == {i \in open : thread[i] = t}
Roots(t) == {i \in DOMAIN thread : thread[i] = t /\ parent[i] = 0}
IsTop(i, t) == i \in Mine(t) /\ \A j \in Mine(t) : j <= i

Init == thread = <<>> /\ parent = <<>> /\ open = {}

OpenCall(t) ==
  \E p \in {0} \cup DOMAIN thread :
    /\ IF Mine(t) = {} THEN p \in {0} \cup Roots(t) ELSE IsTop(p, t)
    /\ thread' = Append(thread, t)
    /\ parent' = Append(parent, p)
    /\ open' = open \cup {Len(thread) + 1}

CloseCall(t) ==
  \E i \in open :
    /\ IsTop(i, t)
    /\ open' = open \ {i}
    /\ UNCHANGED <<thread, parent>>

Next == \E t \in Threads : OpenCall(t) \/ CloseCall(t)

Spec == Init /\ [][Next]_<<thread, parent, open>>
=============================================================================
