SPECIFICATION FairSpec
CONSTANTS
    s1 = s1
    s2 = s2
    c1 = c1
    c2 = c2
    Sims <- OneSim
    Calls <- TwoCalls
    Ops <- AllOps
    MaxEvents = 2
    MaxDbErrors = 1
INVARIANTS
    TypeOK
    LoopMeetsRunningEngine
    AtMostOneLoop
PROPERTIES
    FollowsLifecycle
    CancelledRunIsReleased
    ShutdownTerminates
