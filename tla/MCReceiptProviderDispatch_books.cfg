\* Three keys of one receipt, three attempts, one month, the owner away: units and
\* bills.
SPECIFICATION UnattendedSpec
CONSTANTS
    Scans = {s1}
    Keys = {k1, k2, k3}
    firstScan = s1
    otherScan = s1
    OtherKeys = {}
    ScanOf <- MCScanOf
    Gates = {g1, g2, g3}
    None = None
    owner = owner
    resourceBudget = resourceBudget
    businessBudget = businessBudget
    Businesses = {owner}
    Budgets = {resourceBudget, businessBudget}
    BusinessOf <- MCBusinessOf
    BudgetsOf <- MCBudgetsOf
    Limit <- MCLimit
    Units = 1
    Automatic = TRUE
    MaxConsents = 1
    MaxMonth = 1
SYMMETRY Interchangeable
\* Every attempt may have ended.
CHECK_DEADLOCK FALSE
INVARIANTS
    DispatchTypeOK
    BooksBalance
    NothingIsStuck
    WithinLimit
    SpendIsCovered
PROPERTIES
    PaidOnce
