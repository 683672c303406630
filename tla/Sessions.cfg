SPECIFICATION FairSpec
CONSTANTS
    t1 = t1
    t2 = t2
    c1 = c1
    c2 = c2
    u = u
    v = v
    Tabs <- TwoTabs
    Calls <- TwoCalls
    Users <- TwoUsers
    Registered = {u}
    Budgets <- FourBudgets
CHECK_DEADLOCK FALSE
INVARIANTS
    OneRefreshPerTab
    RefusedForCause
PROPERTIES
    RevokedForGood
    GuardsResolve
