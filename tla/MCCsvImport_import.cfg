\* One file of two chunks, two workers, two attempts, two faults: fair.
SPECIFICATION FairCsvSpec
CONSTANTS
    Batches = {b1}
    Workers = {w1, w2}
    Purgers = {p1}
    Nobody = Nobody
    Chunks = 2
    OutstandingLimit = 1
    MaxAttempts = 2
    PurgeCeiling = 2
    MaxFaults = 2
\* Every import and every purge may have ended.
CHECK_DEADLOCK FALSE
INVARIANTS
    CsvTypeOK
    CheckpointIsExact
    FileIsNamed
PROPERTIES
    PurgeSparesNamedFiles
    ImplementsLifecycle
    ImportsEnd
    UnnamedFilesGo
