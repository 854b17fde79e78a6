\* Two sessions, two workers, one receipt: reviews, edits and confirmations.
SPECIFICATION Spec
CONSTANTS
    Scans = {s1}
    Workers = {w1, w2}
    Clients = {c1, c2}
    Readings = {r1, r2}
    NoReading = NoReading
    Nobody = Nobody
    Dead = Dead
    MaxAttempts = 2
    MaxRevision = 2
SYMMETRY Symmetry
INVARIANTS
    TypeOK
    LeaseIsFenced
    RevisionPinsItems
    BookedOnceAsReviewed
PROPERTIES
    SettledIsFrozen
    ImplementsLifecycle
