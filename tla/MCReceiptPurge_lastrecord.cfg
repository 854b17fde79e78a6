\* One worker, one image: the last record goes while a detach is burning out.
SPECIFICATION FairPurgeSpec
CONSTANTS
    Scans = {s1}
    Workers = {w1}
    original = original
    processed = processed
    second = second
    Objects <- OneImage
    PageOf <- OnePage
    Nobody = Nobody
    Dead = Dead
    NoScan = NoScan
    MaxAttempts = 1
    MaxJobs = 3
    MaxRecords = 1
    MaxFaults = 1
PROPERTIES
    FileGoesWithLastRecord
