SPECIFICATION FairSpec
CONSTANTS
    s1 = s1
    s2 = s2
    c1 = c1
    c2 = c2
    MaxEvents = 2
    Sims <- TwoSims
    Calls <- OneCall
    Ops <- OpsWithoutPause
    MaxDbErrors = 0
INVARIANTS
    NoOrphanRow
    ExitIsClean
PROPERTIES
    StartedRunsEnd
