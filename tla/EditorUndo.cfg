SPECIFICATION Spec
CONSTANTS
    a = a
    b = b
    foreign = foreign
    n = n
    m = m
    Configs <- TwoConfigs
    Filled <- OneForeign
    Refused = {b}
    Healths <- TwoHealths
    Names <- TwoNames
    HistoryLimit = 2
    Rows <- TwoRows
    Budgets <- SmallBudgets
INVARIANTS
    BaselineUntilResults
