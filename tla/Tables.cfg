SPECIFICATION Spec
CONSTANTS
    o = o
    s = s
    n = n
    m = m
    Users <- TwoUsers
    Owner = o
    Names <- TwoNames
    PatchFields <- ClientFields
    PageSize = 1
    Limit = 3
    Budgets <- TwoBudgets
SYMMETRY Interchangeable
CHECK_DEADLOCK FALSE
INVARIANTS
    AnswersFollowVisibility
    SavedGraphStays
    ListIsCurrent
