SPECIFICATION Spec
CONSTANTS
    Licenses <- OneLicense
    Clips <- ThreeClips
    Chars <- CharsOf
    Cost <- CostOf
    l1 = l1
    l2 = l2
    k1 = k1
    k2 = k2
    k3 = k3
    HardBudget = 4
    Budgets = {4}
    DayLimits = {4}
    MonthLimit = 4
    Concurrency = 2
    DaysPerMonth = 2
    Grants = {}
    MaxBonus = 2
    LastDay = 1
INVARIANT BudgetNeverExceeded
