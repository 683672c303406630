------------------------- MODULE MCExecutionManager -------------------------
(* Instances of ExecutionManager for TLC.                                   *)
EXTENDS ExecutionManager

CONSTANTS s1, s2, c1, c2

OneSim == {s1}
TwoSims == {s1, s2}
OneCall == {c1}
TwoCalls == {c1, c2}

AllOps == Operation
OpsWithoutPause == {"start", "cancel", "remove"}

=============================================================================
