--------------------------- MODULE Visualisation ---------------------------
(***************************************************************************)
(* What src/PerunVisualizations/main.py makes of the log: the data frames  *)
(* of functions and of objects, and the treemap of one thread.  A row of   *)
(* the frame of functions is its place in the log of CallTree, a row of    *)
(* the frame of objects the allocation it was written for.                 *)
(***************************************************************************)
EXTENDS CallTree

\* make_function_df joins the calls with the names, by function; the names
\* are those of the functions that were mapped.
functions_df == {k \in DOMAIN log : calls[log[k].call].funcId \in hooked}

\* The key fnc is written for an object that has one: when none has, the
\* frame of objects has no such column.
fnc_column == \E a \in allocs : a.fnc # -1

\* make_objects_df drops the rows with an empty cell, which are those of the
\* objects without a fnc when the frame has the column, and else none.
objects_df == {a \in allocs : fnc_column => a.fnc # -1}

\* agregate_objectsize_to_functions adds up the objects by fnc, which is a
\* KeyError when there is no such column, and looks the sums up by order
\* number; then it keeps the rows of one thread.
Mutant_ByCaller(k)   == {a \in objects_df : a.fnc = log[k].rFn}
Allocations(k)       == {a \in objects_df : a.fnc = log[k].nOr}
functions_thread(t)  == {k \in functions_df : log[k].TID = t}

\* show_treemap and show_treemap_func: the rows down to a depth.
TreemapRows(t, max_depth) == {k \in functions_thread(t) : log[k].depth <= max_depth}
-----------------------------------------------------------------------------
(* Correctness.                                                            *)

\* Plotly draws a treemap when its ids are unique and every parent but that
\* of one root is among them, without a circle: so it is for each thread,
\* however deep the treemap is cut off.
TreemapIsATree ==
  pc = "done" => \A t \in Threads, max_depth \in 0 .. MaxCalls :
    LET rows  == TreemapRows(t, max_depth)
        roots == {k \in rows : log[k].rFn = -1}
    IN /\ \A k, m \in rows : log[k].nOr = log[m].nOr => k = m
       /\ \A k \in rows \ roots : \E m \in rows :
            log[m].nOr = log[k].rFn /\ log[m].depth < log[k].depth
       /\ rows # {} => Cardinality(roots) = 1

\* One object allocated in a traced call is enough for the sums to be made.
\* Then each such object is in the sum of exactly one call of its thread, and
\* an object allocated outside of them in none, so the treemap of a program
\* with one thread adds up.
ObjectsAreCountedOnce ==
  pc = "done" =>
    /\ (\E a \in allocs : a.active # Nil) => fnc_column
    /\ fnc_column => \A a \in allocs :
         Cardinality({k \in functions_thread(a.TID) : a \in Allocations(k)})
           = IF a.active = Nil THEN 0 ELSE 1
=============================================================================
