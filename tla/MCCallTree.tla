----------------------------- MODULE MCCallTree -----------------------------
(* Constants for the model-checking runs of CallTree and Visualisation. *)
EXTENDS Visualisation, TLC

CONSTANTS f, g, u

\* The traced functions are interchangeable; threads are ordered by the map
\* that Shutdown iterates and are not.
TracedSymmetry == Permutations(Traced)
=============================================================================
