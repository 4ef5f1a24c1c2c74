-------------------------- MODULE MCObjectTracker --------------------------
(* Model values for ObjectTracker. *)
EXTENDS ObjectTracker, TLC

CONSTANTS c1

OneClass == {c1}
NoShift  == {}
Down     == {-1, 0}
AnyWay   == {-1, 0, 1}
Oldest   == {OldestGen}
AnyGen   == 0 .. OldestGen
=============================================================================
