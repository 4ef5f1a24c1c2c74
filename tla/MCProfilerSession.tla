------------------------- MODULE MCProfilerSession -------------------------
(* Model values for ProfilerSession. *)
EXTENDS ProfilerSession, TLC

CONSTANTS f1

OneFunction   == {f1}
AnyMode       == {"0", "1", "2", "other", "unset"}
ModeZero      == {"0"}
SometimesLate == BOOLEAN
AlwaysLate    == {TRUE}
=============================================================================
