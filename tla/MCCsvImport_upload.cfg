\* One file, one fault.
SPECIFICATION CsvSpec
CONSTANTS
    Batches = {b1}
    Workers = {w1, w2}
    Purgers = {p1}
    Nobody = Nobody
    Chunks = 2
    OutstandingLimit = 1
    MaxAttempts = 2
    PurgeCeiling = 2
    MaxFaults = 1
CHECK_DEADLOCK FALSE
PROPERTIES
    QueuedFileIsKept
