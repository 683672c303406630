------------------------ MODULE MCSimulationsClient ------------------------
(* Instances of SimulationsClient for TLC.                                  *)
EXTENDS SimulationsClient, TLC

CONSTANTS r1, r2

OneRun == {r1}
TwoRuns == {r1, r2}

\* Its loop completes a run, and somebody else saves it.
LoopAndSaves == {"complete", "save"}

\* Another client steers the runs, and a restart may fail them.
Steering == {"start", "pause", "resume", "cancel", "complete", "fail"}

\* Runs are interchangeable (used in runs of safety properties only).
Symmetry == Permutations(TwoRuns)

=============================================================================
