SPECIFICATION PSpec
CONSTANTS
    N = 4
    Kinds <- MCKinds
    InfraKinds <- MCInfraKinds
    Samples <- MCSamples
    Budgets <- MCBudgets
INVARIANTS
    PTypeOK
    BudgetIsUsed
    EachRecordOnce
    PackIsGreedy
    PackIsKnownOrDeprecated
CHECK_DEADLOCK FALSE
