SPECIFICATION Spec
CONSTANTS
    Licenses <- TwoLicenses
    Clips <- TwoClips
    Chars <- CharsOf
    Cost <- CostOf
    l1 = l1
    l2 = l2
    k1 = k1
    k2 = k2
    k3 = k3
    HardBudget = 2
    Budgets = {1, 2}
    DayLimits = {1}
    MonthLimit = 2
    Concurrency = 2
    DaysPerMonth = 1
    Grants <- GiveAndTake
    MaxBonus = 2
    LastDay = 1
SYMMETRY LicenseSymmetry
INVARIANT OneCallPerClip
INVARIANT BudgetKeptWithoutStrays
INVARIANT NotUndercharged
INVARIANT BonusNotCreated
