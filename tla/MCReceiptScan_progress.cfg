\* One receipt, two workers: every reading ends, every neglected draft ends.
SPECIFICATION FairSpec
CONSTANTS
    Scans = {s1}
    Workers = {w1, w2}
    Clients = {c1}
    Readings = {r1}
    NoReading = NoReading
    Nobody = Nobody
    Dead = Dead
    MaxAttempts = 3
    MaxRevision = 1
PROPERTIES
    EveryReadSettles
    NeglectedDraftsEnd
