\* One key of one receipt, two attempts, two months, two consents: fair.
SPECIFICATION FairDispatchSpec
CONSTANTS
    Scans = {s1}
    Keys = {k1}
    firstScan = s1
    otherScan = s1
    OtherKeys = {}
    ScanOf <- MCScanOf
    Gates = {g1, g2}
    None = None
    owner = owner
    resourceBudget = resourceBudget
    businessBudget = businessBudget
    Businesses = {owner}
    Budgets = {resourceBudget, businessBudget}
    BusinessOf <- MCBusinessOf
    BudgetsOf <- MCBudgetsOf
    Limit <- MCLimit
    Units = 1
    Automatic = TRUE
    MaxConsents = 2
    MaxMonth = 2
\* Every attempt may have ended.
CHECK_DEADLOCK FALSE
INVARIANTS
    UnitsAreAccounted
PROPERTIES
    SentUnderItsConsent
    RevocationStands
    OnlyLateCancelsUnbalance
    ImplementsLedger
    EveryCallIsDecided
