\* One CSV file, one receipt image, one purge worker, one deletion worker, one fault.
SPECIFICATION FairDeletionSpec
CONSTANTS
    file = file
    image = image
    Batches = {file}
    Workers = {}
    Purgers = {p1}
    Nobody = Nobody
    Chunks = 1
    OutstandingLimit = 1
    MaxAttempts = 2
    PurgeCeiling = 1
    MaxFaults = 1
    Deleters = {d1}
    Images = {image}
    Rank <- KeyOrder
    Concurrency = 1
    MaxDeletionAttempts = 2
\* The account may be gone, or never be deleted.
CHECK_DEADLOCK FALSE
INVARIANTS
    ErasureTypeOK
    ClearedMeansCleared
    CheckpointIsHonest
PROPERTIES
    ImplementsErasure
    DeletionEnds
