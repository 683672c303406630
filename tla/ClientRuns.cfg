SPECIFICATION Spec
CONSTANTS
    r1 = r1
    r2 = r2
    NoRun = NoRun
    Runs <- TwoRuns
    Foreign <- LoopAndSaves
    MaxNet = 1
    MaxFaults = 1
    MaxSubmits = 1
SYMMETRY Symmetry
INVARIANTS
    DispatchIsOfFocus
    PendingHasAction
    DeletedRunIsNotListed
