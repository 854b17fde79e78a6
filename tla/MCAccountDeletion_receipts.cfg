\* One receipt image, no CSV file in the way, one deletion worker.
SPECIFICATION DeletionSpec
CONSTANTS
    file = file
    image = image
    Batches = {file}
    Workers = {}
    Purgers = {}
    Nobody = Nobody
    Chunks = 1
    OutstandingLimit = 1
    MaxAttempts = 2
    PurgeCeiling = 1
    MaxFaults = 1
    Deleters = {d1}
    Images = {image}
    Rank <- KeyOrder
    Concurrency = 1
    MaxDeletionAttempts = 2
CHECK_DEADLOCK FALSE
PROPERTY ReceiptImagesGoFirst
