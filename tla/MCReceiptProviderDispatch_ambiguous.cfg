\* A key of each of two receipts, three attempts, a month that turns, the owner
\* away.
SPECIFICATION UnattendedSpec
CONSTANTS
    Scans = {s1, s2}
    Keys = {k1, k2}
    firstScan = s1
    otherScan = s2
    OtherKeys = {k2}
    ScanOf <- MCScanOf
    Gates = {g1, g2, g3}
    None = None
    owner = owner
    resourceBudget = resourceBudget
    businessBudget = businessBudget
    Businesses = {owner}
    Budgets = {resourceBudget, businessBudget}
    BusinessOf <- MCBusinessOf
    BudgetsOf <- MCBudgetsOf
    Limit <- MCLimit
    Units = 1
    Automatic = TRUE
    MaxConsents = 1
    MaxMonth = 2
SYMMETRY Interchangeable
\* Every attempt may have ended.
CHECK_DEADLOCK FALSE
INVARIANT AmbiguousCounts
