\* One receipt of three images on two pages, two workers, two faults: fair.
SPECIFICATION FairPurgeSpec
CONSTANTS
    Scans = {s1}
    Workers = {w1, w2}
    original = original
    processed = processed
    second = second
    Objects <- Images
    PageOf <- Pages
    Nobody = Nobody
    Dead = Dead
    NoScan = NoScan
    MaxAttempts = 2
    MaxJobs = 3
    MaxRecords = 2
    MaxFaults = 2
INVARIANTS
    PurgeTypeOK
    OneJobAtATime
    EvidenceGoesFirst
    ObligationIsKept
    BooksKeepTheirReceipt
PROPERTIES
    TerminalIsFinal
    ImplementsErasure
    DeletionEnds
