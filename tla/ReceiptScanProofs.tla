-------------------------- MODULE ReceiptScanProofs --------------------------
(***************************************************************************)
(* Proofs about ReceiptScan for any set of scans, workers and sessions and *)
(* any attempt ceiling.  IInv is the inductive invariant: the row and view *)
(* facts below are what the two reviewed properties need to survive a step *)
(* of a worker or of another session.                                      *)
(***************************************************************************)
EXTENDS ReceiptScan, TLAPS

\* A leased row is being read, deletion shows in both columns that announce
\* it, and a booked row was complete.
RowFits(row) ==
    /\ row.workerId # Nobody => row.processing = "Processing"
    /\ row.deleting <=> row.confirmation = "Deletion Pending"
    /\ row.confirmation = "Confirmed" => row.processing = "Complete"
    /\ row.processing = "Absent" => row.confirmation = "Pending"

RowOK == \A s \in Scans : RowFits(scan[s])

\* A view is never ahead of the row, and a pinned confirmation under way
\* quotes the revision its session saw complete.
ViewOK ==
    \A c \in Clients :
        /\ client[c].complete => client[c].revision <= scan[client[c].on].revision
        /\ (client[c].pc = "confirming" /\ client[c].pinned) =>
              client[c].complete /\ client[c].asRevision = client[c].revision

IInv ==
    /\ TypeOK
    /\ RowOK
    /\ ViewOK
    /\ RevisionPinsItems
    /\ BookedOnceAsReviewed

USE ScanAssumption

-----------------------------------------------------------------------------
LEMMA SomeScanType == SomeScan \in Scans
  BY DEF SomeScan

\* Type correctness: no counter, lease or view ever leaves its range; above all
\* an attempt count never exceeds MAX_PROCESSING_ATTEMPTS.
LEMMA TypeInit == Init => TypeOK
  BY SomeScanType DEF Init, TypeOK, ScanRow, NoRow, Booking, NoBooking, WorkerState,
     IdleWorker, ClientState, NoView, Items, ProcessingStatus, ConfirmationStatus,
     Busy, Attempting, Processing

LEMMA IdleWorkerType == IdleWorker \in WorkerState
  BY SomeScanType DEF IdleWorker, WorkerState, Busy, Attempting, Processing

LEMMA SupersedeType ==
  ASSUME TypeOK, NEW s \in Scans
  PROVE  Supersede(s) \in [Workers -> WorkerState]
  BY DEF TypeOK, Supersede, WorkerState

LEMMA GoIdleType ==
  ASSUME TypeOK, NEW w \in Workers, GoIdle(w)
  PROVE  worker' \in [Workers -> WorkerState]
  BY IdleWorkerType DEF TypeOK, GoIdle

\* Each value an action writes over a row is a row.
LEMMA WorkerRowWrites ==
  ASSUME NEW row \in ScanRow, NEW w \in Workers, NEW item \in Items, NEW due \in BOOLEAN,
         NEW p \in {"Processing", "Failed"}, NEW k \in 0..MaxAttempts
  PROVE  /\ [row EXCEPT !.processing = "Failed", !.workerId = Nobody, !.stale = FALSE,
                        !.quiet = FALSE] \in ScanRow
         /\ [row EXCEPT !.processing = p, !.workerId = Nobody, !.stale = FALSE,
                        !.quiet = FALSE, !.due = FALSE] \in ScanRow
         /\ [row EXCEPT !.workerId = w, !.stale = FALSE, !.quiet = FALSE,
                        !.attempt = k] \in ScanRow
         /\ [row EXCEPT !.stale = FALSE, !.quiet = FALSE] \in ScanRow
         /\ [row EXCEPT !.processing = "Complete", !.items = item, !.workerId = Nobody,
                        !.stale = FALSE, !.quiet = FALSE] \in ScanRow
         /\ [row EXCEPT !.workerId = Nobody, !.stale = FALSE, !.quiet = FALSE,
                        !.due = due] \in ScanRow
         /\ [row EXCEPT !.workerId = Dead] \in ScanRow
<1>1. /\ [row EXCEPT !.processing = "Failed", !.workerId = Nobody, !.stale = FALSE,
                     !.quiet = FALSE] \in ScanRow
      /\ [row EXCEPT !.processing = p, !.workerId = Nobody, !.stale = FALSE,
                     !.quiet = FALSE, !.due = FALSE] \in ScanRow
  BY DEF ScanRow, ProcessingStatus
<1>2. [row EXCEPT !.workerId = w, !.stale = FALSE, !.quiet = FALSE, !.attempt = k] \in ScanRow
  BY DEF ScanRow
<1>3. [row EXCEPT !.stale = FALSE, !.quiet = FALSE] \in ScanRow
  BY DEF ScanRow
<1>4. [row EXCEPT !.processing = "Complete", !.items = item, !.workerId = Nobody,
                  !.stale = FALSE, !.quiet = FALSE] \in ScanRow
  BY DEF ScanRow, ProcessingStatus
<1>5. [row EXCEPT !.workerId = Nobody, !.stale = FALSE, !.quiet = FALSE, !.due = due] \in ScanRow
  BY DEF ScanRow
<1>6. [row EXCEPT !.workerId = Dead] \in ScanRow
  BY DEF ScanRow
<1> QED BY <1>1, <1>2, <1>3, <1>4, <1>5, <1>6

LEMMA OwnerRowWrites ==
  ASSUME NEW row \in ScanRow, NEW item \in Items, NEW n \in Nat, NEW k \in 0..MaxAttempts,
         NEW quiet \in BOOLEAN
  PROVE  /\ [row EXCEPT !.processing = "Processing"] \in ScanRow
         /\ [row EXCEPT !.quiet = quiet] \in ScanRow
         /\ [row EXCEPT !.processing = "Processing", !.attempt = k, !.workerId = Nobody,
                        !.stale = FALSE, !.due = TRUE, !.quiet = FALSE] \in ScanRow
         /\ [row EXCEPT !.revision = n, !.items = item, !.quiet = FALSE] \in ScanRow
         /\ [row EXCEPT !.confirmation = "Confirmed"] \in ScanRow
         /\ [row EXCEPT !.deleting = TRUE, !.confirmation = "Deletion Pending",
                        !.processing = "Failed", !.workerId = Nobody, !.stale = FALSE,
                        !.revision = n] \in ScanRow
         /\ [row EXCEPT !.stale = TRUE] \in ScanRow
         /\ [row EXCEPT !.due = TRUE] \in ScanRow
         /\ [row EXCEPT !.items = item, !.revision = n] \in ScanRow
<1>1. /\ [row EXCEPT !.processing = "Processing"] \in ScanRow
      /\ [row EXCEPT !.quiet = quiet] \in ScanRow
  BY DEF ScanRow, ProcessingStatus
<1>2. [row EXCEPT !.processing = "Processing", !.attempt = k, !.workerId = Nobody,
                  !.stale = FALSE, !.due = TRUE, !.quiet = FALSE] \in ScanRow
  BY DEF ScanRow, ProcessingStatus
<1>3. [row EXCEPT !.revision = n, !.items = item, !.quiet = FALSE] \in ScanRow
  BY DEF ScanRow
<1>4. [row EXCEPT !.confirmation = "Confirmed"] \in ScanRow
  BY DEF ScanRow, ConfirmationStatus
<1>5. [row EXCEPT !.deleting = TRUE, !.confirmation = "Deletion Pending",
                  !.processing = "Failed", !.workerId = Nobody, !.stale = FALSE,
                  !.revision = n] \in ScanRow
  BY DEF ScanRow, ProcessingStatus, ConfirmationStatus
<1>6. /\ [row EXCEPT !.stale = TRUE] \in ScanRow
      /\ [row EXCEPT !.due = TRUE] \in ScanRow
      /\ [row EXCEPT !.items = item, !.revision = n] \in ScanRow
  BY DEF ScanRow
<1> QED BY <1>1, <1>2, <1>3, <1>4, <1>5, <1>6

\* Each state an action gives a worker or a session is one.
LEMMA WorkerWrites ==
  ASSUME NEW st \in WorkerState, NEW s \in Scans, NEW k \in 0..MaxAttempts
  PROVE  /\ [st EXCEPT !.pc = "looking"] \in WorkerState
         /\ [st EXCEPT !.superseded = TRUE] \in WorkerState
         /\ [st EXCEPT !.leaseLost = TRUE] \in WorkerState
         /\ [st EXCEPT !.pc = "restoring"] \in WorkerState
         /\ [st EXCEPT !.pc = "reading"] \in WorkerState
         /\ [st EXCEPT !.pc = "persisting"] \in WorkerState
         /\ [st EXCEPT !.pc = "failing"] \in WorkerState
         /\ [st EXCEPT !.pc = "claiming", !.job = s, !.attempt = k] \in WorkerState
  BY DEF WorkerState, Busy, Attempting, Processing

LEMMA ClientWrites ==
  ASSUME NEW st \in ClientState, NEW s \in Scans, NEW b \in BOOLEAN, NEW n \in Nat,
         NEW item \in Items
  PROVE  /\ [st EXCEPT !.on = s, !.complete = b, !.revision = n, !.items = item] \in ClientState
         /\ [st EXCEPT !.revision = n, !.items = item] \in ClientState
         /\ [st EXCEPT !.pc = "confirming", !.pinned = b, !.asRevision = n] \in ClientState
         /\ [st EXCEPT !.pc = "browsing"] \in ClientState
  BY DEF ClientState

LEMMA Typed ==
  ASSUME TypeOK
  PROVE  /\ \A s \in Scans : /\ scan[s] \in ScanRow
                             /\ scan[s].attempt \in 0..MaxAttempts
                             /\ scan[s].revision \in Nat
                             /\ scan[s].items \in Items
         /\ \A w \in Workers : /\ worker[w] \in WorkerState
                               /\ worker[w].job \in Scans
                               /\ worker[w].attempt \in 0..MaxAttempts
         /\ \A c \in Clients : /\ client[c] \in ClientState
                               /\ client[c].on \in Scans
                               /\ client[c].revision \in Nat
                               /\ client[c].items \in Items
         /\ 0 \in 0..MaxAttempts
         /\ Readings \subseteq Items /\ NoReading \in Items
  BY ScanAssumption DEF TypeOK, ScanRow, WorkerState, ClientState, Items

LEMMA SetScanType ==
  ASSUME TypeOK, NEW s \in Scans, NEW row \in ScanRow, SetScan(s, row)
  PROVE  scan' \in [Scans -> ScanRow]
  BY DEF TypeOK, SetScan

LEMMA RecordFailureType ==
  ASSUME TypeOK, NEW w \in Workers, RecordFailure(w)
  PROVE  TypeOK'
<1>1. scan' \in [Scans -> ScanRow]
  <2> DEFINE p == IF worker[w].attempt < MaxAttempts THEN "Processing" ELSE "Failed"
  <2>1. p \in {"Processing", "Failed"}
    OBVIOUS
  <2>2. CASE LeaseHeld(w)
    BY <2>1, <2>2, Typed, WorkerRowWrites, SetScanType DEF RecordFailure
  <2>3. CASE ~LeaseHeld(w)
    BY <2>3 DEF RecordFailure, TypeOK
  <2> QED BY <2>2, <2>3
<1>2. worker' \in [Workers -> WorkerState]
  BY GoIdleType DEF RecordFailure
<1> QED BY <1>1, <1>2 DEF RecordFailure, TypeOK

\* Every step of a worker keeps the types.
LEMMA TypeWorker ==
  ASSUME TypeOK, NEW w \in Workers, WorkerNext(w)
  PROVE  TypeOK'
<1>1. CASE FailExhaustedScans(w)
  <2>1. scan' \in [Scans -> ScanRow]
    BY <1>1, Typed, WorkerRowWrites DEF FailExhaustedScans
  <2>2. worker' \in [Workers -> WorkerState]
    BY <1>1, Typed, WorkerWrites DEF FailExhaustedScans
  <2> QED BY <2>1, <2>2, <1>1 DEF FailExhaustedScans, TypeOK
<1>2. ASSUME NEW s \in Scans, FindCandidate(w, s) PROVE TypeOK'
  <2>1. scan[s].attempt + 1 \in 0..MaxAttempts
    BY <1>2, Typed, ScanAssumption DEF FindCandidate, Claimable
  <2>2. worker' \in [Workers -> WorkerState]
    BY <2>1, <1>2, Typed, WorkerWrites DEF FindCandidate, TypeOK
  <2> QED BY <2>2, <1>2 DEF FindCandidate, TypeOK
<1>3. CASE NoCandidate(w)
  BY <1>3, GoIdleType DEF NoCandidate, TypeOK
<1>4. ASSUME NEW answered \in BOOLEAN, Claim(w, answered) PROVE TypeOK'
  <2> DEFINE s == worker[w].job
  <2>1. scan[s].attempt + 1 \in 0..MaxAttempts
    BY <1>4, Typed, ScanAssumption DEF Claim, Claimable
  <2>2. scan' \in [Scans -> ScanRow]
    BY <2>1, <1>4, Typed, WorkerRowWrites, SetScanType DEF Claim
  <2>3. worker' \in [Workers -> WorkerState]
    BY <1>4, Typed, WorkerWrites, SupersedeType, IdleWorkerType DEF Claim
  <2> QED BY <2>2, <2>3, <1>4 DEF Claim, TypeOK
<1>5. CASE ClaimMissed(w)
  BY <1>5, GoIdleType DEF ClaimMissed, TypeOK
<1>6. CASE Restore(w)
  <2>1. scan' \in [Scans -> ScanRow]
    BY <1>6, Typed, WorkerRowWrites, SetScanType DEF Restore, TypeOK
  <2>2. [worker EXCEPT ![w].pc = "reading"] \in [Workers -> WorkerState]
    BY Typed, WorkerWrites DEF TypeOK
  <2>3. worker' \in [Workers -> WorkerState]
    BY <2>2, <1>6, GoIdleType DEF Restore
  <2> QED BY <2>1, <2>3, <1>6 DEF Restore, TypeOK
<1>7. CASE RestoreFails(w)
  BY <1>7, RecordFailureType DEF RestoreFails
<1>8. CASE Heartbeat(w)
  <2>1. scan' \in [Scans -> ScanRow]
    BY <1>8, Typed, WorkerRowWrites, SetScanType DEF Heartbeat, TypeOK
  <2>2. [worker EXCEPT ![w].leaseLost = TRUE] \in [Workers -> WorkerState]
    BY Typed, WorkerWrites DEF TypeOK
  <2>3. worker' \in [Workers -> WorkerState]
    BY <2>2, <1>8 DEF Heartbeat, TypeOK
  <2> QED BY <2>1, <2>3, <1>8 DEF Heartbeat, TypeOK
<1>9. CASE AbandonAttempt(w)
  BY <1>9, GoIdleType DEF AbandonAttempt, TypeOK
<1>10. ASSUME NEW r \in Readings, NEW answered \in BOOLEAN, Persist(w, r, answered)
       PROVE  TypeOK'
  <2>1. scan' \in [Scans -> ScanRow]
    BY <1>10, Typed, WorkerRowWrites, SetScanType DEF Persist, TypeOK
  <2>2. [worker EXCEPT ![w].pc = "failing"] \in [Workers -> WorkerState]
    BY Typed, WorkerWrites DEF TypeOK
  <2>3. worker' \in [Workers -> WorkerState]
    BY <2>2, <1>10, GoIdleType DEF Persist
  <2> QED BY <2>1, <2>3, <1>10 DEF Persist, TypeOK
<1>14. CASE BeginPersist(w)
  <2>1. scan' \in [Scans -> ScanRow]
    BY <1>14, Typed, WorkerRowWrites, SetScanType DEF BeginPersist, TypeOK
  <2>2. [worker EXCEPT ![w].pc = "persisting"] \in [Workers -> WorkerState]
    BY Typed, WorkerWrites DEF TypeOK
  <2>3. worker' \in [Workers -> WorkerState]
    BY <2>2, <1>14, GoIdleType DEF BeginPersist
  <2> QED BY <2>1, <2>3, <1>14 DEF BeginPersist, TypeOK
<1>11. ASSUME NEW due \in BOOLEAN, Defer(w, due) PROVE TypeOK'
  <2>1. scan' \in [Scans -> ScanRow]
    BY <1>11, Typed, WorkerRowWrites, SetScanType DEF Defer, TypeOK
  <2> QED BY <2>1, <1>11, GoIdleType DEF Defer, TypeOK
<1>12. CASE ReadingFails(w)
  BY <1>12, RecordFailureType DEF ReadingFails
<1>13. CASE Crash(w)
  <2>1. scan' \in [Scans -> ScanRow]
    BY <1>13, Typed, WorkerRowWrites DEF Crash
  <2> QED BY <2>1, <1>13, GoIdleType DEF Crash, TypeOK
<1> QED
  BY <1>1, <1>2, <1>3, <1>4, <1>5, <1>6, <1>7, <1>8, <1>9, <1>10, <1>11, <1>12, <1>13,
     <1>14
  DEF WorkerNext

LEMMA ScheduleDeletionType ==
  ASSUME TypeOK, NEW s \in Scans, ScheduleDeletion(s)
  PROVE  /\ scan' \in [Scans -> ScanRow]
         /\ worker' \in [Workers -> WorkerState]
         /\ client' \in [Clients -> ClientState]
<1>1. scan[s].revision + 1 \in Nat
  BY Typed
<1>2. scan' \in [Scans -> ScanRow]
  BY <1>1, Typed, OwnerRowWrites, SetScanType DEF ScheduleDeletion
<1> QED BY <1>2, SupersedeType DEF ScheduleDeletion, TypeOK

LEMMA DeleteRecordsBooks ==
  ASSUME TypeOK, NEW s \in Scans, NEW detaching \in BOOLEAN, DeleteRecords(s, detaching)
  PROVE  /\ books' \in [Scans -> Booking]
         /\ ~books'[s].kept
         /\ books'[s].count = books[s].count /\ books'[s].items = books[s].items
         /\ books'[s].reviewed = books[s].reviewed
         /\ books'[s].pinned <=> books[s].pinned
         /\ \A t \in Scans : t # s => books'[t] = books[t]
<1>1. books[s] \in Booking /\ books' = [books EXCEPT ![s] = [books[s] EXCEPT !.kept = FALSE]]
  BY DEF TypeOK, DeleteRecords
<1>2. [books[s] EXCEPT !.kept = FALSE] \in Booking
  BY <1>1 DEF Booking
<1>3. books'[s] = [books[s] EXCEPT !.kept = FALSE] /\ \A t \in Scans : t # s => books'[t] = books[t]
  BY <1>1 DEF TypeOK
<1>4. books' \in [Scans -> Booking]
  BY <1>1, <1>2 DEF TypeOK
<1>5. /\ ~books'[s].kept
      /\ books'[s].count = books[s].count /\ books'[s].items = books[s].items
      /\ books'[s].reviewed = books[s].reviewed
      /\ books'[s].pinned <=> books[s].pinned
  BY <1>1, <1>3 DEF Booking
<1> QED BY <1>3, <1>4, <1>5

\* Every request of an owner keeps the types.
LEMMA TypeOwner == TypeOK /\ OwnerNext => TypeOK'
<1> SUFFICES ASSUME TypeOK, OwnerNext PROVE TypeOK'
  OBVIOUS
<1>1. ASSUME NEW s \in Scans, Upload(s) PROVE TypeOK'
  <2>1. scan' \in [Scans -> ScanRow]
    BY <1>1, Typed, OwnerRowWrites, SetScanType DEF Upload
  <2> QED BY <2>1, <1>1 DEF Upload, TypeOK
<1>2. ASSUME NEW s \in Scans, RetryScan(s) PROVE TypeOK'
  <2>1. scan' \in [Scans -> ScanRow]
    BY <1>2, Typed, OwnerRowWrites, SetScanType DEF RetryScan
  <2> QED BY <2>1, <1>2, SupersedeType DEF RetryScan, TypeOK
<1>3. ASSUME NEW s \in Scans, RequestDeletion(s) PROVE TypeOK'
  BY <1>3, ScheduleDeletionType DEF RequestDeletion, TypeOK
<1>4. ASSUME NEW c \in Clients, NEW s \in Scans, View(c, s) PROVE TypeOK'
  <2>1. (IF scan[s].quiet /\ scan[s].confirmation # "Pending" THEN TRUE ELSE FALSE) \in BOOLEAN
    OBVIOUS
  <2>2. scan' \in [Scans -> ScanRow]
    BY <2>1, <1>4, Typed, OwnerRowWrites, SetScanType DEF View
  <2>3. (scan[s].processing = "Complete") \in BOOLEAN
    OBVIOUS
  <2>4. client' \in [Clients -> ClientState]
    BY <2>3, <1>4, Typed, ClientWrites DEF View, TypeOK
  <2> QED BY <2>2, <2>4, <1>4 DEF View, TypeOK
<1>5. ASSUME NEW c \in Clients, NEW r \in Readings, NEW pinned \in BOOLEAN,
             EditItems(c, r, pinned)
      PROVE  TypeOK'
  <2>1. scan[client[c].on].revision + 1 \in Nat
    BY Typed
  <2>2. scan' \in [Scans -> ScanRow]
    BY <2>1, <1>5, Typed, OwnerRowWrites, SetScanType DEF EditItems
  <2>3. client' \in [Clients -> ClientState]
    BY <2>1, <1>5, Typed, ClientWrites DEF EditItems, TypeOK
  <2> QED BY <2>2, <2>3, <1>5 DEF EditItems, TypeOK
<1>6. ASSUME NEW c \in Clients, NEW pinned \in BOOLEAN, ConfirmRead(c, pinned)
      PROVE  TypeOK'
  <2>1. client' \in [Clients -> ClientState]
    BY <1>6, Typed, ClientWrites DEF ConfirmRead, TypeOK
  <2> QED BY <2>1, <1>6 DEF ConfirmRead, TypeOK
<1>pc. \A c \in Clients : [client EXCEPT ![c].pc = "browsing"] \in [Clients -> ClientState]
  BY Typed, ClientWrites DEF TypeOK
<1>7. ASSUME NEW c \in Clients, ConfirmCommit(c) PROVE TypeOK'
  <2>1. scan' \in [Scans -> ScanRow]
    BY <1>7, Typed, OwnerRowWrites, SetScanType DEF ConfirmCommit
  <2>2. books' \in [Scans -> Booking]
    BY <1>7, Typed DEF ConfirmCommit, Booking, TypeOK, ClientState
  <2> QED BY <2>1, <2>2, <1>7, <1>pc DEF ConfirmCommit, TypeOK
<1>8. ASSUME NEW c \in Clients, ConfirmRefused(c) PROVE TypeOK'
  BY <1>8, <1>pc DEF ConfirmRefused, TypeOK
<1>9. ASSUME NEW s \in Scans, NEW detaching \in BOOLEAN, DeleteRecords(s, detaching)
      PROVE  TypeOK'
  BY <1>9, DeleteRecordsBooks, ScheduleDeletionType DEF DeleteRecords, TypeOK
<1> QED
  BY <1>1, <1>2, <1>3, <1>4, <1>5, <1>6, <1>7, <1>8, <1>9 DEF OwnerNext

LEMMA TypePurge ==
  ASSUME TypeOK, PurgeNext
  PROVE  TypeOK'
<1>1. ASSUME NEW s \in Scans, EraseEvidence(s) PROVE TypeOK'
  <2>1. scan[s].revision + 1 \in Nat
    BY Typed
  <2>2. scan' \in [Scans -> ScanRow]
    BY <2>1, <1>1, Typed, OwnerRowWrites, SetScanType DEF EraseEvidence
  <2> QED BY <2>2, <1>1 DEF EraseEvidence, TypeOK
<1>2. ASSUME NEW s \in Scans, DiscardOrphan(s) PROVE TypeOK'
  BY <1>2, ScheduleDeletionType DEF DiscardOrphan, TypeOK
<1> QED BY <1>1, <1>2 DEF PurgeNext

LEMMA TypeTick ==
  ASSUME TypeOK, Tick
  PROVE  TypeOK'
<1>1. ASSUME NEW s \in Scans, LeaseExpires(s) \/ BackoffElapses(s) \/ FallsQuiet(s)
      PROVE  TypeOK'
  <2>1. scan' \in [Scans -> ScanRow]
    BY <1>1, Typed, OwnerRowWrites, SetScanType DEF LeaseExpires, BackoffElapses, FallsQuiet
  <2> QED BY <2>1, <1>1 DEF LeaseExpires, BackoffElapses, FallsQuiet, TypeOK
<1> QED BY <1>1 DEF Tick

LEMMA TypeNext == TypeOK /\ [Next]_vars => TypeOK'
<1> SUFFICES ASSUME TypeOK, [Next]_vars PROVE TypeOK'
  OBVIOUS
<1>1. CASE Sweep
  BY <1>1, ScheduleDeletionType DEF Sweep, SweepAbandoned, TypeOK
<1>2. CASE UNCHANGED vars
  BY <1>2 DEF vars, TypeOK
<1> QED
  BY <1>1, <1>2, TypeWorker, TypeOwner, TypePurge, TypeTick DEF Next

\* Types hold in every reachable state; above all an attempt count never
\* exceeds MAX_PROCESSING_ATTEMPTS, whatever two racing claims read.
THEOREM TypeCorrect == Spec => []TypeOK
  BY TypeInit, TypeNext, PTL DEF Spec

-----------------------------------------------------------------------------
\* All that workers, the clock, an upload and a retry may do to a row: never
\* touch its revision or confirmation, leave a complete or settled one as it
\* is, and lease it only while it is being read.
Keeps(old, new) ==
    /\ new.confirmation = old.confirmation
    /\ new.revision = old.revision
    /\ new.deleting = old.deleting
    /\ (old.processing = "Complete" \/ old.confirmation # "Pending") =>
          /\ new.processing = old.processing
          /\ new.items = old.items
          /\ new.attempt = old.attempt
    /\ new.workerId # Nobody => new.processing = "Processing"
    /\ new.processing = "Absent" => old.processing = "Absent"

RowStep(s) == Keeps(scan[s], scan'[s])

LEMMA RowStepKeepsRows ==
  ASSUME RowOK, \A s \in Scans : RowStep(s)
  PROVE  RowOK'
<1> SUFFICES ASSUME NEW s \in Scans
    PROVE  /\ scan'[s].workerId # Nobody => scan'[s].processing = "Processing"
           /\ scan'[s].deleting <=> scan'[s].confirmation = "Deletion Pending"
           /\ scan'[s].confirmation = "Confirmed" => scan'[s].processing = "Complete"
           /\ scan'[s].processing = "Absent" => scan'[s].confirmation = "Pending"
  BY DEF RowOK, RowFits
<1>1. Keeps(scan[s], scan'[s])
  BY DEF RowStep
<1>2. /\ scan[s].deleting <=> scan[s].confirmation = "Deletion Pending"
      /\ scan[s].confirmation = "Confirmed" => scan[s].processing = "Complete"
      /\ scan[s].processing = "Absent" => scan[s].confirmation = "Pending"
  BY DEF RowOK, RowFits
<1> QED BY <1>1, <1>2 DEF Keeps

\* A finished draft is edited or confirmed.
LEMMA FinishedKeepsRows ==
  ASSUME RowOK, NEW s \in Scans,
         scan[s].confirmation = "Pending", scan[s].processing = "Complete",
         scan'[s].processing = "Complete", scan'[s].confirmation # "Deletion Pending",
         scan'[s].deleting <=> scan[s].deleting, scan'[s].workerId = scan[s].workerId,
         \A t \in Scans \ {s} : scan'[t] = scan[t]
  PROVE  RowOK'
<1>1. ~scan'[s].deleting
  BY DEF RowOK, RowFits
<1>2. scan'[s].workerId = Nobody
  BY DEF RowOK, RowFits
<1> QED BY <1>1, <1>2 DEF RowOK, RowFits

LEMMA RowStepKeeps ==
  ASSUME IInv, TypeOK', \A s \in Scans : RowStep(s), UNCHANGED <<books, client>>
  PROVE  IInv'
<1>1. RowOK'
  BY RowStepKeepsRows DEF IInv
<1>2. ViewOK'
  BY Typed DEF IInv, ViewOK, RowStep, Keeps
<1>3. RevisionPinsItems'
  BY Typed DEF IInv, RevisionPinsItems, RowStep, Keeps
<1>4. BookedOnceAsReviewed'
  BY DEF IInv, BookedOnceAsReviewed, RowStep, Keeps
<1> QED BY <1>1, <1>2, <1>3, <1>4 DEF IInv

LEMMA SetScanRow ==
  ASSUME TypeOK, NEW s \in Scans, NEW row, SetScan(s, row), NEW t \in Scans
  PROVE  scan'[t] = IF t = s THEN row ELSE scan[t]
  BY DEF TypeOK, SetScan

LEMMA ReadingMoves ==
  ASSUME NEW row \in ScanRow, row.processing = "Processing", row.confirmation = "Pending",
         NEW w \in Workers, NEW item, NEW due, NEW k,
         NEW p \in {"Processing", "Failed"}
  PROVE  /\ Keeps(row, [row EXCEPT !.processing = p, !.workerId = Nobody, !.stale = FALSE,
                                   !.quiet = FALSE])
         /\ Keeps(row, [row EXCEPT !.processing = p, !.workerId = Nobody, !.stale = FALSE,
                                   !.quiet = FALSE, !.due = FALSE])
         /\ Keeps(row, [row EXCEPT !.workerId = w, !.stale = FALSE, !.quiet = FALSE,
                                   !.attempt = k])
         /\ Keeps(row, [row EXCEPT !.processing = "Complete", !.items = item,
                                   !.workerId = Nobody, !.stale = FALSE, !.quiet = FALSE])
  BY DEF ScanRow, Keeps

LEMMA HarmlessMoves ==
  ASSUME NEW row \in ScanRow, row.workerId # Nobody => row.processing = "Processing",
         NEW due, NEW k
  PROVE  /\ Keeps(row, row)
         /\ Keeps(row, [row EXCEPT !.stale = FALSE, !.quiet = FALSE])
         /\ Keeps(row, [row EXCEPT !.workerId = Nobody, !.stale = FALSE, !.quiet = FALSE,
                                   !.due = due])
         /\ row.workerId # Nobody => Keeps(row, [row EXCEPT !.workerId = Dead])
         /\ Keeps(row, [row EXCEPT !.stale = TRUE])
         /\ Keeps(row, [row EXCEPT !.due = TRUE])
         /\ Keeps(row, [row EXCEPT !.quiet = TRUE])
         /\ (row.processing = "Absent" /\ row.confirmation = "Pending") =>
               Keeps(row, [row EXCEPT !.processing = "Processing"])
         /\ (row.processing = "Failed" /\ row.confirmation = "Pending") =>
               Keeps(row, [row EXCEPT !.processing = "Processing", !.attempt = k,
                             !.workerId = Nobody, !.stale = FALSE, !.due = TRUE,
                             !.quiet = FALSE])
  BY DEF ScanRow, Keeps

LEMMA LookingMoves ==
  ASSUME NEW row \in ScanRow, row.workerId # Nobody => row.processing = "Processing", NEW q
  PROVE  Keeps(row, [row EXCEPT !.quiet = q])
  BY DEF ScanRow, Keeps

LEMMA Unmoved ==
  ASSUME TypeOK, RowOK, NEW s \in Scans, scan' = scan
  PROVE  RowStep(s)
  BY Typed, HarmlessMoves DEF RowStep, RowOK, RowFits

LEMMA RowStepBySetScan ==
  ASSUME TypeOK, RowOK, NEW s \in Scans, NEW row, SetScan(s, row), Keeps(scan[s], row),
         NEW t \in Scans
  PROVE  RowStep(t)
<1>1. CASE t = s
  BY <1>1, SetScanRow DEF RowStep
<1>2. CASE t # s
  BY <1>2, SetScanRow, Typed, HarmlessMoves DEF RowStep, RowOK, RowFits
<1> QED BY <1>1, <1>2

\* A write of an attempt that holds its lease finds the row being read.
LEMMA HeldIsReading ==
  ASSUME TypeOK, RowOK, NEW w \in Workers, LeaseHeld(w)
  PROVE  /\ scan[worker[w].job].processing = "Processing"
         /\ scan[worker[w].job].confirmation = "Pending"
  BY Typed, ScanAssumption DEF LeaseHeld, Open, RowOK, RowFits

LEMMA RecordFailureRowStep ==
  ASSUME TypeOK, RowOK, NEW w \in Workers, RecordFailure(w), NEW s \in Scans
  PROVE  RowStep(s)
<1>1. CASE LeaseHeld(w)
  <2> DEFINE p == IF worker[w].attempt < MaxAttempts THEN "Processing" ELSE "Failed"
  <2>1. p \in {"Processing", "Failed"}
    OBVIOUS
  <2>2. Keeps(scan[worker[w].job],
              [scan[worker[w].job] EXCEPT !.processing = p, !.workerId = Nobody,
                  !.stale = FALSE, !.quiet = FALSE, !.due = FALSE])
    BY <1>1, <2>1, Typed, HeldIsReading, ReadingMoves
  <2> QED BY <1>1, <2>2, Typed, RowStepBySetScan DEF RecordFailure
<1>2. CASE ~LeaseHeld(w)
  BY <1>2, Unmoved DEF RecordFailure
<1> QED BY <1>1, <1>2

LEMMA WorkerRowStep ==
  ASSUME TypeOK, RowOK, NEW w \in Workers, WorkerNext(w), NEW s \in Scans
  PROVE  RowStep(s)
<1>kept. Keeps(scan[s], scan[s])
  BY Typed, HarmlessMoves DEF RowOK, RowFits
<1>beat. \A t \in Scans : Keeps(scan[t], [scan[t] EXCEPT !.stale = FALSE, !.quiet = FALSE])
  BY Typed, HarmlessMoves DEF RowOK, RowFits
<1>1. CASE FailExhaustedScans(w)
  BY <1>1, <1>kept, Typed, ReadingMoves DEF FailExhaustedScans, Exhausted, Open, RowStep
<1>2. ASSUME NEW t \in Scans, FindCandidate(w, t) PROVE RowStep(s)
  BY <1>2, Unmoved DEF FindCandidate
<1>3. CASE NoCandidate(w)
  BY <1>3, Unmoved DEF NoCandidate
<1>4. ASSUME NEW answered \in BOOLEAN, Claim(w, answered) PROVE RowStep(s)
  <2> DEFINE t == worker[w].job
  <2>1. Keeps(scan[t], [scan[t] EXCEPT !.workerId = w, !.stale = FALSE, !.quiet = FALSE,
                                       !.attempt = @ + 1])
    BY <1>4, Typed, ReadingMoves DEF Claim, Claimable, Open
  <2> QED BY <1>4, <2>1, Typed, RowStepBySetScan DEF Claim
<1>5. CASE ClaimMissed(w)
  BY <1>5, Unmoved DEF ClaimMissed
<1>6. CASE Restore(w)
  BY <1>6, <1>beat, Typed, Unmoved, RowStepBySetScan DEF Restore
<1>7. CASE RestoreFails(w)
  BY <1>7, RecordFailureRowStep DEF RestoreFails
<1>8. CASE Heartbeat(w)
  BY <1>8, <1>beat, Typed, Unmoved, RowStepBySetScan DEF Heartbeat
<1>9. CASE AbandonAttempt(w)
  BY <1>9, Unmoved DEF AbandonAttempt
<1>14. CASE BeginPersist(w)
  BY <1>14, <1>beat, Typed, Unmoved, RowStepBySetScan DEF BeginPersist
<1>10. ASSUME NEW r \in Readings, NEW answered \in BOOLEAN, Persist(w, r, answered)
       PROVE  RowStep(s)
  <2> DEFINE t == worker[w].job
  <2>1. LeaseHeld(w) =>
          Keeps(scan[t], [scan[t] EXCEPT !.processing = "Complete", !.items = r,
                            !.workerId = Nobody, !.stale = FALSE, !.quiet = FALSE])
    BY Typed, HeldIsReading, ReadingMoves
  <2> QED BY <1>10, <2>1, Typed, Unmoved, RowStepBySetScan DEF Persist
<1>11. ASSUME NEW due \in BOOLEAN, Defer(w, due) PROVE RowStep(s)
  <2> DEFINE t == worker[w].job
  <2>1. Keeps(scan[t], [scan[t] EXCEPT !.workerId = Nobody, !.stale = FALSE,
                                       !.quiet = FALSE, !.due = due])
    BY Typed, HarmlessMoves DEF RowOK, RowFits
  <2> QED BY <1>11, <2>1, Typed, Unmoved, RowStepBySetScan DEF Defer
<1>12. CASE ReadingFails(w)
  BY <1>12, RecordFailureRowStep DEF ReadingFails
<1>13. CASE Crash(w)
  BY <1>13, <1>kept, Typed, HarmlessMoves, ScanAssumption DEF Crash, RowStep, RowOK, RowFits
<1> QED
  BY <1>1, <1>2, <1>3, <1>4, <1>5, <1>6, <1>7, <1>8, <1>9, <1>10, <1>11, <1>12, <1>13,
     <1>14
  DEF WorkerNext

LEMMA WorkerLeavesTheRest ==
  ASSUME NEW w \in Workers, WorkerNext(w)
  PROVE  UNCHANGED <<books, client>>
  BY DEF WorkerNext, FailExhaustedScans, FindCandidate, NoCandidate, Claim, ClaimMissed,
     Restore, RestoreFails, Heartbeat, AbandonAttempt, BeginPersist, Persist, Defer, ReadingFails,
     RecordFailure, Crash

LEMMA ClockRowStep ==
  ASSUME TypeOK, RowOK, Tick, NEW s \in Scans
  PROVE  RowStep(s) /\ UNCHANGED <<books, client>>
<1>1. \A t \in Scans : /\ Keeps(scan[t], [scan[t] EXCEPT !.stale = TRUE])
                        /\ Keeps(scan[t], [scan[t] EXCEPT !.due = TRUE])
                        /\ Keeps(scan[t], [scan[t] EXCEPT !.quiet = TRUE])
  BY Typed, HarmlessMoves DEF RowOK, RowFits
<1> QED
  BY <1>1, RowStepBySetScan DEF Tick, LeaseExpires, BackoffElapses, FallsQuiet

LEMMA RequestRowStep ==
  ASSUME TypeOK, RowOK, NEW t \in Scans, Upload(t) \/ RetryScan(t), NEW s \in Scans
  PROVE  RowStep(s) /\ UNCHANGED <<books, client>>
<1>1. CASE Upload(t)
  <2>1. Keeps(scan[t], [scan[t] EXCEPT !.processing = "Processing"])
    BY <1>1, Typed, HarmlessMoves DEF Upload, Exists, RowOK, RowFits
  <2> QED BY <1>1, <2>1, RowStepBySetScan DEF Upload
<1>2. CASE RetryScan(t)
  <2>1. Keeps(scan[t], [scan[t] EXCEPT !.processing = "Processing", !.attempt = 0,
                          !.workerId = Nobody, !.stale = FALSE, !.due = TRUE,
                          !.quiet = FALSE])
    BY <1>2, Typed, HarmlessMoves DEF RetryScan, RowOK, RowFits
  <2> QED BY <1>2, <2>1, RowStepBySetScan DEF RetryScan
<1> QED BY <1>1, <1>2

-----------------------------------------------------------------------------
\* Looking at a scan: the view is what the row says, the row keeps what matters.
LEMMA ViewKeeps ==
  ASSUME IInv, TypeOK', NEW c \in Clients, NEW s \in Scans, View(c, s)
  PROVE  IInv'
<1> USE DEF IInv
<1>1. \A t \in Scans : RowStep(t)
  <2> DEFINE q == IF scan[s].quiet /\ scan[s].confirmation # "Pending" THEN TRUE ELSE FALSE
  <2>1. Keeps(scan[s], [scan[s] EXCEPT !.quiet = q])
    <3>1. scan[s] \in ScanRow /\ (scan[s].workerId # Nobody => scan[s].processing = "Processing")
      BY Typed DEF RowOK, RowFits
    <3> HIDE DEF q
    <3> QED BY <3>1, LookingMoves
  <2> QED BY <2>1, RowStepBySetScan DEF View
<1>2. \A d \in Clients \ {c} : client'[d] = client[d]
  BY Typed DEF View, TypeOK
<1>3. /\ client'[c].on = s /\ client'[c].pc = "browsing"
      /\ client'[c].complete <=> scan[s].processing = "Complete"
      /\ client'[c].revision = scan[s].revision /\ client'[c].items = scan[s].items
  BY Typed DEF View, TypeOK, ClientState
<1>4. books' = books
  BY DEF View
<1>5. RowOK'
  BY <1>1, RowStepKeepsRows
<1>6. ViewOK'
  BY <1>1, <1>2, <1>3, Typed DEF ViewOK, RowStep, Keeps
<1>7. RevisionPinsItems'
  BY <1>1, <1>2, <1>3, Typed DEF RevisionPinsItems, RowStep, Keeps
<1>8. BookedOnceAsReviewed'
  BY <1>1, <1>4 DEF BookedOnceAsReviewed, RowStep, Keeps
<1> QED BY <1>5, <1>6, <1>7, <1>8

\* An edit moves the revision past every view but the editor's own.
LEMMA EditKeeps ==
  ASSUME IInv, TypeOK', NEW c \in Clients, NEW r \in Readings, NEW pinned \in BOOLEAN,
         EditItems(c, r, pinned)
  PROVE  IInv'
<1> DEFINE s == client[c].on
<1> USE DEF IInv
<1>1. /\ scan'[s].revision = scan[s].revision + 1 /\ scan'[s].items = r
      /\ scan'[s].processing = "Complete" /\ scan'[s].confirmation = "Pending"
      /\ (scan'[s].deleting <=> scan[s].deleting) /\ scan'[s].workerId = scan[s].workerId
      /\ \A t \in Scans \ {s} : scan'[t] = scan[t]
  BY Typed DEF EditItems, SetScan, TypeOK, ScanRow, Open
<1>2. /\ \A d \in Clients \ {c} : client'[d] = client[d]
      /\ client'[c].on = s /\ client'[c].pc = "browsing"
      /\ (client'[c].complete <=> client[c].complete)
      /\ client'[c].revision = scan[s].revision + 1 /\ client'[c].items = r
  BY Typed DEF EditItems, TypeOK, ClientState
<1>3. books' = books /\ scan[s].confirmation = "Pending" /\ scan[s].processing = "Complete"
  BY DEF EditItems, Open
<1>4. RowOK'
  <2>1. s \in Scans /\ scan'[s].confirmation # "Deletion Pending"
    BY <1>1, Typed
  <2> QED BY <1>1, <1>3, <2>1, FinishedKeepsRows
<1>5. ViewOK'
  BY <1>1, <1>2, Typed DEF ViewOK
<1>6. RevisionPinsItems'
  BY <1>1, <1>2, Typed DEF RevisionPinsItems, ViewOK
<1>7. BookedOnceAsReviewed'
  BY <1>1, <1>3, Typed DEF BookedOnceAsReviewed
<1> QED BY <1>4, <1>5, <1>6, <1>7

\* Opening or refusing a confirmation changes nothing but that session.
LEMMA AskToConfirmKeeps ==
  ASSUME IInv, TypeOK', NEW c \in Clients,
         (\E pinned \in BOOLEAN : ConfirmRead(c, pinned)) \/ ConfirmRefused(c)
  PROVE  IInv'
<1> USE DEF IInv
<1>1. scan' = scan /\ books' = books
  BY DEF ConfirmRead, ConfirmRefused
<1> DEFINE Same(d) == /\ client'[d].on = client[d].on
                      /\ client'[d].complete <=> client[d].complete
                      /\ client'[d].revision = client[d].revision
                      /\ client'[d].items = client[d].items
           Quotes(d) == (client'[d].pc = "confirming" /\ client'[d].pinned) =>
                           client[d].complete /\ client'[d].asRevision = client[d].revision
<1>2. \A d \in Clients : Same(d) /\ Quotes(d)
  <2>1. \A d \in Clients \ {c} : client'[d] = client[d]
    BY Typed DEF ConfirmRead, ConfirmRefused, TypeOK
  <2>2. \A d \in Clients \ {c} : Same(d) /\ Quotes(d)
    BY <2>1 DEF ViewOK
  <2>3. ASSUME NEW pinned \in BOOLEAN, ConfirmRead(c, pinned) PROVE Same(c) /\ Quotes(c)
    <3> DEFINE now == scan[client[c].on].revision
    <3>1. /\ client'[c] = [client[c] EXCEPT !.pc = "confirming", !.pinned = pinned,
                                            !.asRevision = now]
          /\ client[c] \in ClientState /\ client[c].complete
          /\ pinned => now = client[c].revision
      BY <2>3, Typed DEF ConfirmRead, TypeOK
    <3> HIDE DEF now
    <3>2. /\ client'[c].on = client[c].on /\ client'[c].revision = client[c].revision
          /\ client'[c].items = client[c].items /\ client'[c].asRevision = now
      BY <3>1 DEF ClientState
    <3>3. /\ client'[c].complete <=> client[c].complete
          /\ client'[c].pinned => pinned
      BY <3>1 DEF ClientState
    <3> QED BY <3>1, <3>2, <3>3
  <2>4. ASSUME ConfirmRefused(c) PROVE Same(c) /\ Quotes(c)
    <3>1. client'[c] = [client[c] EXCEPT !.pc = "browsing"] /\ client[c] \in ClientState
      BY <2>4, Typed DEF ConfirmRefused, TypeOK
    <3>2. /\ client'[c].on = client[c].on /\ client'[c].revision = client[c].revision
          /\ client'[c].items = client[c].items /\ client'[c].pc = "browsing"
      BY <3>1 DEF ClientState
    <3>3. client'[c].complete <=> client[c].complete
      BY <3>1 DEF ClientState
    <3> QED BY <3>2, <3>3
  <2>5. Same(c) /\ Quotes(c)
    BY <2>3, <2>4
  <2> HIDE DEF Same, Quotes
  <2> QED BY <2>2, <2>5
<1>3. RowOK'
  BY <1>1 DEF RowOK, RowFits
<1>4. RevisionPinsItems' /\ BookedOnceAsReviewed'
  BY <1>1, <1>2, Typed DEF RevisionPinsItems, BookedOnceAsReviewed
<1>5. ViewOK'
  BY <1>1, <1>2, Typed DEF ViewOK
<1> QED BY <1>3, <1>4, <1>5

\* The claim of a confirmation matches only what its session reviewed.
LEMMA ConfirmKeeps ==
  ASSUME IInv, TypeOK', NEW c \in Clients, ConfirmCommit(c)
  PROVE  IInv'
<1> DEFINE s == client[c].on
<1> USE DEF IInv
<1>1. /\ scan[s].confirmation = "Pending" /\ ~scan[s].deleting
      /\ scan[s].processing = "Complete" /\ scan[s].revision = client[c].asRevision
      /\ client[c].pc = "confirming"
  BY DEF ConfirmCommit, Confirmable, Open
<1>2. /\ scan'[s].confirmation = "Confirmed" /\ scan'[s].items = scan[s].items
      /\ scan'[s].processing = "Complete" /\ scan'[s].revision = scan[s].revision
      /\ (scan'[s].deleting <=> scan[s].deleting) /\ scan'[s].workerId = scan[s].workerId
      /\ \A t \in Scans \ {s} : scan'[t] = scan[t]
  BY <1>1, Typed DEF ConfirmCommit, SetScan, TypeOK, ScanRow
<1>3. /\ books'[s].count = books[s].count + 1 /\ books'[s].items = scan[s].items
      /\ books'[s].kept
      /\ books'[s].reviewed = client[c].items /\ (books'[s].pinned <=> client[c].pinned)
      /\ \A t \in Scans \ {s} : books'[t] = books[t]
  BY Typed DEF ConfirmCommit, TypeOK
<1>4. /\ \A d \in Clients : /\ client'[d].on = client[d].on
                            /\ (client'[d].complete <=> client[d].complete)
                            /\ client'[d].revision = client[d].revision
                            /\ client'[d].items = client[d].items
                            /\ (client'[d].pinned <=> client[d].pinned)
                            /\ client'[d].asRevision = client[d].asRevision
                            /\ client'[d].pc \in {client[d].pc, "browsing"}
  BY Typed DEF ConfirmCommit, TypeOK, ClientState
<1>5. books[s].count = 0
  BY <1>1, Typed DEF BookedOnceAsReviewed, TypeOK, Booking
<1>6. client[c].pinned => scan[s].items = client[c].items
  BY <1>1, Typed DEF ViewOK, RevisionPinsItems
<1>7. RowOK'
  <2>1. s \in Scans /\ scan'[s].confirmation # "Deletion Pending"
    BY <1>2, Typed
  <2> QED BY <1>1, <1>2, <2>1, FinishedKeepsRows
<1>8. ViewOK'
  BY <1>2, <1>4, Typed DEF ViewOK
<1>9. RevisionPinsItems'
  BY <1>1, <1>2, <1>4, Typed DEF RevisionPinsItems
<1>10. BookedOnceAsReviewed'
  BY <1>2, <1>3, <1>5, <1>6, Typed DEF BookedOnceAsReviewed
<1> QED BY <1>7, <1>8, <1>9, <1>10

\* All that may happen to the books beside: the records of s are deleted.
RecordsGone(s) ==
    /\ ~books'[s].kept
    /\ \A t \in Scans : /\ books'[t].count = books[t].count
                        /\ books'[t].items = books[t].items
                        /\ books'[t].reviewed = books[t].reviewed
                        /\ books'[t].pinned <=> books[t].pinned
                        /\ t # s => (books'[t].kept <=> books[t].kept)

\* A deletion moves the revision past every view, and takes no records along.
LEMMA DeletionKeeps ==
  ASSUME IInv, TypeOK', NEW s \in Scans, ScheduleDeletion(s), RecordsGone(s)
  PROVE  IInv'
<1> USE DEF IInv
<1>1. /\ scan'[s].confirmation = "Deletion Pending" /\ scan'[s].deleting
      /\ scan'[s].processing = "Failed" /\ scan'[s].workerId = Nobody
      /\ scan'[s].revision = scan[s].revision + 1 /\ scan'[s].items = scan[s].items
      /\ \A t \in Scans : t # s => scan'[t] = scan[t]
      /\ client' = client
  BY Typed DEF ScheduleDeletion, SetScan, TypeOK, ScanRow
<1>2. RowOK'
  <2>1. RowFits(scan'[s])
    BY <1>1 DEF RowFits
  <2>2. \A t \in Scans : t # s => RowFits(scan'[t])
    BY <1>1 DEF RowOK
  <2> QED BY <2>1, <2>2 DEF RowOK
<1>3. ASSUME NEW c \in Clients
      PROVE  /\ client[c].complete => client[c].revision <= scan'[client[c].on].revision
             /\ client[c].complete /\ client[c].on = s
                   => client[c].revision # scan'[s].revision
  <2>1. /\ client[c].revision \in Nat /\ scan[client[c].on].revision \in Nat
        /\ client[c].on \in Scans
    BY Typed
  <2>2. CASE client[c].on = s
    <3>1. client[c].complete => client[c].revision <= scan[s].revision
      BY <2>2 DEF ViewOK
    <3>2. scan'[s].revision = scan[s].revision + 1
      BY <1>1
    <3> QED BY <2>1, <2>2, <3>1, <3>2
  <2>3. CASE client[c].on # s
    BY <2>1, <2>3, <1>1 DEF ViewOK
  <2> QED BY <2>2, <2>3
<1>4. ViewOK'
  BY <1>1, <1>3 DEF ViewOK
<1>5. RevisionPinsItems'
  BY <1>1, <1>3, Typed DEF RevisionPinsItems
<1>6. BookedOnceAsReviewed'
  <2> SUFFICES ASSUME NEW t \in Scans
      PROVE  /\ books'[t].count <= 1
             /\ scan'[t].confirmation = "Confirmed" => books'[t].count = 1
             /\ books'[t].kept => scan'[t].confirmation = "Confirmed"
             /\ books'[t].count > 0 =>
                   /\ scan'[t].confirmation # "Pending"
                   /\ scan'[t].items \in {books'[t].items, NoReading}
                   /\ books'[t].pinned => books'[t].items = books'[t].reviewed
    BY DEF BookedOnceAsReviewed
  <2>1. /\ books'[t].count = books[t].count /\ books'[t].items = books[t].items
        /\ books'[t].reviewed = books[t].reviewed
        /\ books'[t].pinned <=> books[t].pinned
    BY DEF RecordsGone
  <2>2. scan'[t].items = scan[t].items
    BY <1>1
  <2>3. CASE t = s
    BY <1>1, <2>1, <2>2, <2>3 DEF BookedOnceAsReviewed, RecordsGone
  <2>4. CASE t # s
    <3>1. scan'[t] = scan[t] /\ (books'[t].kept <=> books[t].kept)
      BY <1>1, <2>4 DEF RecordsGone
    <3> QED BY <2>1, <3>1 DEF BookedOnceAsReviewed
  <2> QED BY <2>3, <2>4
<1> QED BY <1>2, <1>4, <1>5, <1>6

\* Erased evidence moves the revision past every view.
LEMMA EraseKeeps ==
  ASSUME IInv, TypeOK', NEW s \in Scans, EraseEvidence(s)
  PROVE  IInv'
<1> USE DEF IInv
<1>1. /\ scan'[s].confirmation = "Confirmed" /\ (scan'[s].deleting <=> scan[s].deleting)
      /\ scan[s].confirmation = "Confirmed"
      /\ scan'[s].processing = scan[s].processing /\ scan'[s].workerId = scan[s].workerId
      /\ scan'[s].revision = scan[s].revision + 1 /\ scan'[s].items = NoReading
      /\ \A t \in Scans : t # s => scan'[t] = scan[t]
      /\ client' = client /\ books' = books
  BY Typed DEF EraseEvidence, SetScan, TypeOK, ScanRow
<1>2. RowOK'
  BY <1>1 DEF RowOK, RowFits
<1>3. ViewOK'
  BY <1>1, Typed DEF ViewOK
<1>4. RevisionPinsItems'
  <2> SUFFICES ASSUME NEW c \in Clients, client[c].complete,
                      scan'[client[c].on].revision = client[c].revision
               PROVE  /\ scan'[client[c].on].processing = "Complete"
                      /\ scan'[client[c].on].items = client[c].items
    BY <1>1 DEF RevisionPinsItems
  <2>1. client[c].on # s
    BY <1>1, Typed DEF ViewOK
  <2> QED BY <2>1, <1>1, Typed DEF RevisionPinsItems
<1>5. BookedOnceAsReviewed'
  BY <1>1 DEF BookedOnceAsReviewed
<1> QED BY <1>2, <1>3, <1>4, <1>5

LEMMA DeleteRecordsKeeps ==
  ASSUME IInv, TypeOK', NEW s \in Scans, NEW detaching \in BOOLEAN,
         DeleteRecords(s, detaching)
  PROVE  IInv'
<1>1. RecordsGone(s)
  BY DeleteRecordsBooks DEF IInv, RecordsGone
<1>2. CASE detaching
  <2>1. scan' = scan /\ client' = client
    BY <1>2 DEF DeleteRecords
  <2>2. RowOK' /\ ViewOK' /\ RevisionPinsItems'
    BY <2>1 DEF IInv, RowOK, RowFits, ViewOK, RevisionPinsItems
  <2>3. BookedOnceAsReviewed'
    BY <2>1, <1>1 DEF IInv, BookedOnceAsReviewed, RecordsGone
  <2> QED BY <2>2, <2>3 DEF IInv
<1>3. CASE ~detaching
  <2>1. ScheduleDeletion(s)
    BY <1>3 DEF DeleteRecords
  <2> QED BY <1>1, <2>1, DeletionKeeps
<1> QED BY <1>2, <1>3

LEMMA InvInit == Init => IInv
<1> SUFFICES ASSUME Init PROVE IInv
  OBVIOUS
<1>1. RowOK /\ ViewOK
  BY SomeScanType DEF Init, RowOK, RowFits, ViewOK, NoRow, NoView
<1>2. RevisionPinsItems /\ BookedOnceAsReviewed
  BY SomeScanType DEF Init, RevisionPinsItems, BookedOnceAsReviewed, NoRow, NoView, NoBooking
<1> QED BY <1>1, <1>2, TypeInit DEF IInv

LEMMA InvNext == IInv /\ [Next]_vars => IInv'
<1> SUFFICES ASSUME IInv, [Next]_vars PROVE IInv'
  OBVIOUS
<1>t. TypeOK /\ RowOK /\ TypeOK'
  BY TypeNext DEF IInv
<1>1. ASSUME NEW w \in Workers, WorkerNext(w) PROVE IInv'
  BY <1>1, <1>t, WorkerRowStep, WorkerLeavesTheRest, RowStepKeeps
<1>2. CASE OwnerNext
  <2>1. ASSUME NEW s \in Scans, Upload(s) \/ RetryScan(s) PROVE IInv'
    BY <2>1, <1>t, RequestRowStep, RowStepKeeps
  <2>2. ASSUME NEW s \in Scans, RequestDeletion(s) PROVE IInv'
    BY <2>2, <1>t, DeletionKeeps DEF RequestDeletion, RecordsGone
  <2>8. ASSUME NEW s \in Scans, NEW detaching \in BOOLEAN, DeleteRecords(s, detaching)
        PROVE  IInv'
    BY <2>8, <1>t, DeleteRecordsKeeps
  <2>3. ASSUME NEW c \in Clients, NEW s \in Scans, View(c, s) PROVE IInv'
    BY <2>3, <1>t, ViewKeeps
  <2>4. ASSUME NEW c \in Clients, NEW r \in Readings, NEW pinned \in BOOLEAN,
               EditItems(c, r, pinned)
        PROVE  IInv'
    BY <2>4, <1>t, EditKeeps
  <2>5. ASSUME NEW c \in Clients, NEW pinned \in BOOLEAN, ConfirmRead(c, pinned)
        PROVE  IInv'
    BY <2>5, <1>t, AskToConfirmKeeps
  <2>6. ASSUME NEW c \in Clients, ConfirmCommit(c) PROVE IInv'
    BY <2>6, <1>t, ConfirmKeeps
  <2>7. ASSUME NEW c \in Clients, ConfirmRefused(c) PROVE IInv'
    BY <2>7, <1>t, AskToConfirmKeeps
  <2> QED BY <1>2, <2>1, <2>2, <2>3, <2>4, <2>5, <2>6, <2>7, <2>8 DEF OwnerNext
<1>3. CASE Sweep
  BY <1>3, <1>t, DeletionKeeps DEF Sweep, SweepAbandoned, RecordsGone
<1>4. CASE Tick
  BY <1>4, <1>t, ClockRowStep, RowStepKeeps DEF Tick
<1>5. CASE UNCHANGED vars
  BY <1>5, <1>t DEF vars, IInv, RowOK, RowFits, ViewOK, RevisionPinsItems, BookedOnceAsReviewed
<1>6. CASE PurgeNext
  BY <1>6, <1>t, EraseKeeps, DeletionKeeps DEF PurgeNext, DiscardOrphan, RecordsGone
<1> QED BY <1>1, <1>2, <1>3, <1>4, <1>5, <1>6 DEF Next

LEMMA Invariant == Spec => []IInv
  BY InvInit, InvNext, PTL DEF Spec

\* A quoted revision identifies the items its owner saw (claimEditableScan and
\* confirmReceipt compare nothing else).
THEOREM RevisionPinsItemsHolds == Spec => []RevisionPinsItems
<1>1. IInv => RevisionPinsItems
  BY DEF IInv
<1> QED BY <1>1, Invariant, PTL

\* However many sessions confirm at once, a receipt is booked exactly once, as
\* reviewed, or not at all.
THEOREM BookedOnceAsReviewedHolds == Spec => []BookedOnceAsReviewed
<1>1. IInv => BookedOnceAsReviewed
  BY DEF IInv
<1> QED BY <1>1, Invariant, PTL

-----------------------------------------------------------------------------
\* What keeps a superseded attempt out: its process is no longer the one named
\* on the row, and only a claim of that process could name it again, for which
\* it would have to be idle first.  The attempt count is not needed for this.
FenceInv ==
    \A w \in Workers :
        /\ worker[w].superseded => worker[w].pc \in Attempting
        /\ worker[w].superseded => scan[worker[w].job].workerId # w

\* Every step but a claim leaves the process named on a row or takes it off.
Releases(s) == scan'[s].workerId \in {scan[s].workerId, Nobody, Dead}

\* A step other than a claim fences nobody it should not, and forgets no fence.
LEMMA FenceByRelease ==
  ASSUME FenceInv, \A s \in Scans : Releases(s), TypeOK,
         \A v \in Workers : worker'[v].superseded =>
            /\ worker'[v].pc \in Attempting
            /\ worker'[v].job = worker[v].job
            /\ worker[v].superseded \/ scan'[worker[v].job].workerId \in {Nobody, Dead}
  PROVE  FenceInv'
<1> SUFFICES ASSUME NEW v \in Workers, worker'[v].superseded
             PROVE  /\ worker'[v].pc \in Attempting
                    /\ scan'[worker'[v].job].workerId # v
  BY DEF FenceInv
<1>1. worker'[v].pc \in Attempting /\ worker'[v].job = worker[v].job
  OBVIOUS
<1>2. v # Nobody /\ v # Dead
  BY ScanAssumption
<1>3. CASE worker[v].superseded
  BY <1>1, <1>2, <1>3, Typed DEF FenceInv, Releases
<1>4. CASE scan'[worker[v].job].workerId \in {Nobody, Dead}
  BY <1>1, <1>2, <1>4
<1> QED BY <1>1, <1>3, <1>4

LEMMA ReleaseWrites ==
  ASSUME NEW row \in ScanRow, NEW item, NEW due, NEW p
  PROVE  /\ [row EXCEPT !.processing = p, !.workerId = Nobody, !.stale = FALSE,
                        !.quiet = FALSE].workerId = Nobody
         /\ [row EXCEPT !.processing = p, !.workerId = Nobody, !.stale = FALSE,
                        !.quiet = FALSE, !.due = FALSE].workerId = Nobody
         /\ [row EXCEPT !.stale = FALSE, !.quiet = FALSE].workerId = row.workerId
         /\ [row EXCEPT !.processing = "Complete", !.items = item, !.workerId = Nobody,
                        !.stale = FALSE, !.quiet = FALSE].workerId = Nobody
         /\ [row EXCEPT !.workerId = Nobody, !.stale = FALSE, !.quiet = FALSE,
                        !.due = due].workerId = Nobody
         /\ [row EXCEPT !.workerId = Dead].workerId = Dead
  BY DEF ScanRow

LEMMA ReleaseBySetScan ==
  ASSUME TypeOK, NEW s \in Scans, NEW row, SetScan(s, row),
         row.workerId \in {scan[s].workerId, Nobody, Dead}
  PROVE  \A t \in Scans : Releases(t)
  BY SetScanRow DEF Releases

LEMMA ReleaseUnmoved == scan' = scan => \A s \in Scans : Releases(s)
  BY DEF Releases

\* What becomes of the flag of a process itself.
SameFlag(v) ==
    worker'[v].superseded =>
       worker[v].superseded /\ worker'[v].pc \in Attempting /\ worker'[v].job = worker[v].job

LEMMA FlagGoIdle ==
  ASSUME TypeOK, FenceInv, NEW w \in Workers, GoIdle(w)
  PROVE  \A v \in Workers : SameFlag(v)
  BY Typed DEF GoIdle, SameFlag, IdleWorker, FenceInv, TypeOK

LEMMA FlagUnmoved ==
  ASSUME FenceInv, worker' = worker
  PROVE  \A v \in Workers : SameFlag(v)
  BY DEF SameFlag, FenceInv

LEMMA FlagMoves ==
  ASSUME TypeOK, FenceInv, NEW w \in Workers,
         \/ worker' = [worker EXCEPT ![w].pc = "reading"]
         \/ worker' = [worker EXCEPT ![w].pc = "persisting"]
         \/ worker' = [worker EXCEPT ![w].pc = "failing"]
         \/ worker' = [worker EXCEPT ![w].leaseLost = TRUE]
  PROVE  \A v \in Workers : SameFlag(v)
<1> SUFFICES ASSUME NEW v \in Workers PROVE SameFlag(v)
  OBVIOUS
<1>1. CASE v # w
  BY <1>1 DEF SameFlag, FenceInv, TypeOK
<1>2. CASE v = w
  <2>1. worker[w] \in WorkerState /\ (worker[w].superseded => worker[w].pc \in Attempting)
    BY Typed DEF FenceInv
  <2>2. \/ worker'[w] = [worker[w] EXCEPT !.pc = "reading"]
        \/ worker'[w] = [worker[w] EXCEPT !.pc = "persisting"]
        \/ worker'[w] = [worker[w] EXCEPT !.pc = "failing"]
        \/ worker'[w] = [worker[w] EXCEPT !.leaseLost = TRUE]
    BY DEF TypeOK
  <2> QED BY <1>2, <2>1, <2>2 DEF SameFlag, WorkerState, Attempting, Processing
<1> QED BY <1>1, <1>2

LEMMA FenceRecordFailure ==
  ASSUME TypeOK, FenceInv, NEW w \in Workers, RecordFailure(w)
  PROVE  (\A s \in Scans : Releases(s)) /\ (\A v \in Workers : SameFlag(v))
<1>1. \A s \in Scans : Releases(s)
  <2>1. CASE LeaseHeld(w)
    <3> DEFINE p == IF worker[w].attempt < MaxAttempts THEN "Processing" ELSE "Failed"
               row == [scan[worker[w].job] EXCEPT !.processing = p, !.workerId = Nobody,
                          !.stale = FALSE, !.quiet = FALSE, !.due = FALSE]
    <3>1. SetScan(worker[w].job, row)
      BY <2>1 DEF RecordFailure
    <3>2. row.workerId = Nobody
      BY Typed, ReleaseWrites
    <3> HIDE DEF row
    <3> QED BY <3>1, <3>2, Typed, ReleaseBySetScan
  <2>2. CASE ~LeaseHeld(w)
    BY <2>2, ReleaseUnmoved DEF RecordFailure
  <2> QED BY <2>1, <2>2
<1> QED BY <1>1, FlagGoIdle DEF RecordFailure

LEMMA FenceKept ==
  ASSUME TypeOK, FenceInv, \A s \in Scans : Releases(s), \A v \in Workers : SameFlag(v)
  PROVE  FenceInv'
  BY FenceByRelease DEF SameFlag

\* Ending every attempt at s takes the name of its process off the row.
LEMMA FenceSupersede ==
  ASSUME TypeOK, FenceInv, NEW s \in Scans, worker' = Supersede(s),
         \A t \in Scans : Releases(t), scan'[s].workerId = Nobody
  PROVE  FenceInv'
<1>1. ASSUME NEW v \in Workers, worker'[v].superseded
      PROVE  /\ worker'[v].pc \in Attempting
             /\ worker'[v].job = worker[v].job
             /\ worker[v].superseded \/ scan'[worker[v].job].workerId \in {Nobody, Dead}
  <2>1. CASE worker[v].pc \in Attempting /\ worker[v].job = s
    <3>1. worker'[v] = [worker[v] EXCEPT !.superseded = TRUE]
      BY <2>1 DEF Supersede
    <3>2. worker'[v].pc = worker[v].pc /\ worker'[v].job = worker[v].job
      BY <3>1, Typed DEF WorkerState
    <3> QED BY <2>1, <3>2
  <2>2. CASE ~(worker[v].pc \in Attempting /\ worker[v].job = s)
    <3>1. worker'[v] = worker[v]
      BY <2>2 DEF Supersede
    <3> QED BY <1>1, <3>1 DEF FenceInv
  <2> QED BY <2>1, <2>2
<1> QED BY <1>1, FenceByRelease

LEMMA FenceClaim ==
  ASSUME TypeOK, FenceInv, NEW w \in Workers, NEW answered \in BOOLEAN, Claim(w, answered)
  PROVE  FenceInv'
<1> DEFINE s == worker[w].job
<1>1. scan'[s].workerId = w /\ \A t \in Scans : t # s => scan'[t] = scan[t]
  <2> DEFINE row == [scan[s] EXCEPT !.workerId = w, !.stale = FALSE, !.quiet = FALSE,
                                    !.attempt = @ + 1]
  <2>1. row.workerId = w /\ s \in Scans
    BY Typed DEF ScanRow
  <2>2. SetScan(s, row)
    BY DEF Claim
  <2> HIDE DEF row
  <2> QED BY <2>1, <2>2, SetScanRow
<1>2. ~worker'[w].superseded
  <2>1. ~worker[w].superseded
    BY DEF Claim, FenceInv, Attempting, Processing
  <2>2. ~[worker[w] EXCEPT !.pc = "restoring"].superseded /\ ~IdleWorker.superseded
    BY <2>1, Typed DEF WorkerState, IdleWorker
  <2>3. worker'[w] = IF answered THEN [worker[w] EXCEPT !.pc = "restoring"] ELSE IdleWorker
    BY SupersedeType DEF Claim, Supersede
  <2> QED BY <2>2, <2>3
<1>3. ASSUME NEW v \in Workers, v # w, worker'[v].superseded
      PROVE  worker'[v].pc \in Attempting /\ scan'[worker'[v].job].workerId # v
  <2>1. worker'[v] = Supersede(s)[v]
    BY <1>3 DEF Claim, Supersede
  <2>2. CASE worker[v].pc \in Attempting /\ worker[v].job = s
    <3>1. worker'[v] = [worker[v] EXCEPT !.superseded = TRUE]
      BY <2>1, <2>2 DEF Supersede
    <3>2. worker'[v].pc = worker[v].pc /\ worker'[v].job = worker[v].job
      BY <3>1, Typed DEF WorkerState
    <3> QED BY <1>1, <1>3, <2>2, <3>2
  <2>3. CASE ~(worker[v].pc \in Attempting /\ worker[v].job = s)
    <3>1. worker'[v] = worker[v]
      BY <2>1, <2>3 DEF Supersede
    <3>2. worker[v].job \in Scans /\ worker[v].job # s
      BY <1>3, <2>3, <3>1, Typed DEF FenceInv
    <3> QED BY <1>1, <1>3, <3>1, <3>2 DEF FenceInv
  <2> QED BY <2>2, <2>3
<1> QED BY <1>2, <1>3 DEF FenceInv

LEMMA FenceExhausted ==
  ASSUME TypeOK, FenceInv, NEW w \in Workers, FailExhaustedScans(w)
  PROVE  FenceInv'
<1>1. \A s \in Scans : scan'[s].workerId = IF Exhausted(s) THEN Nobody ELSE scan[s].workerId
  <2> SUFFICES ASSUME NEW s \in Scans
               PROVE  scan'[s].workerId = IF Exhausted(s) THEN Nobody ELSE scan[s].workerId
    OBVIOUS
  <2>1. scan'[s] = IF Exhausted(s)
                   THEN [scan[s] EXCEPT !.processing = "Failed", !.workerId = Nobody,
                                        !.stale = FALSE, !.quiet = FALSE]
                   ELSE scan[s]
    BY DEF FailExhaustedScans
  <2> QED BY <2>1, Typed, ReleaseWrites
<1>2. \A s \in Scans : Releases(s)
  BY <1>1 DEF Releases
<1>3. ASSUME NEW v \in Workers, worker'[v].superseded
      PROVE  /\ worker'[v].pc \in Attempting
             /\ worker'[v].job = worker[v].job
             /\ worker[v].superseded \/ scan'[worker[v].job].workerId \in {Nobody, Dead}
  <2>1. worker'[v] = IF v = w THEN [worker[v] EXCEPT !.pc = "looking"]
                     ELSE IF worker[v].pc \in Attempting /\ Exhausted(worker[v].job)
                     THEN [worker[v] EXCEPT !.superseded = TRUE]
                     ELSE worker[v]
    BY DEF FailExhaustedScans
  <2>2. v # w
    <3> SUFFICES ASSUME v = w PROVE FALSE
      OBVIOUS
    <3>1. ~worker[w].superseded
      BY DEF FailExhaustedScans, FenceInv, Attempting, Processing
    <3>2. worker'[w].superseded <=> worker[w].superseded
      BY <2>1, Typed DEF WorkerState
    <3> QED BY <1>3, <3>1, <3>2
  <2>3. CASE worker[v].pc \in Attempting /\ Exhausted(worker[v].job)
    <3>1. worker'[v] = [worker[v] EXCEPT !.superseded = TRUE]
      BY <2>1, <2>2, <2>3
    <3>2. worker'[v].pc = worker[v].pc /\ worker'[v].job = worker[v].job
      BY <3>1, Typed DEF WorkerState
    <3> QED BY <1>1, <2>3, <3>2, Typed
  <2>4. CASE ~(worker[v].pc \in Attempting /\ Exhausted(worker[v].job))
    <3>1. worker'[v] = worker[v]
      BY <2>1, <2>2, <2>4
    <3> QED BY <1>3, <3>1 DEF FenceInv
  <2> QED BY <2>3, <2>4
<1> QED BY <1>2, <1>3, FenceByRelease

LEMMA FenceWorker ==
  ASSUME TypeOK, FenceInv, NEW w \in Workers, WorkerNext(w)
  PROVE  FenceInv'
<1> DEFINE s == worker[w].job
           beat == [scan[s] EXCEPT !.stale = FALSE, !.quiet = FALSE]
<1>beat. SetScan(s, beat) => \A t \in Scans : Releases(t)
  <2>1. beat.workerId = scan[s].workerId
    BY Typed, ReleaseWrites
  <2> HIDE DEF beat
  <2> QED BY <2>1, Typed, ReleaseBySetScan
<1>1. CASE FailExhaustedScans(w)
  BY <1>1, FenceExhausted
<1>2. ASSUME NEW t \in Scans, FindCandidate(w, t) PROVE FenceInv'
  <2>1. \A r \in Scans : Releases(r)
    BY <1>2, ReleaseUnmoved DEF FindCandidate
  <2>2. worker[w].pc = "looking" /\ ~worker[w].superseded
    BY <1>2 DEF FindCandidate, FenceInv, Attempting, Processing
  <2>3. worker'[w] = [worker[w] EXCEPT !.pc = "claiming", !.job = t,
                                       !.attempt = scan[t].attempt + 1]
    BY <1>2 DEF FindCandidate, TypeOK
  <2>4. worker'[w].superseded <=> worker[w].superseded
    BY <2>3, Typed DEF WorkerState
  <2>5. \A v \in Workers : v # w => worker'[v] = worker[v]
    BY <1>2 DEF FindCandidate, TypeOK
  <2>6. \A v \in Workers : SameFlag(v)
    BY <2>2, <2>4, <2>5 DEF SameFlag, FenceInv
  <2> QED BY <2>1, <2>6, FenceKept
<1>3. CASE NoCandidate(w)
  BY <1>3, ReleaseUnmoved, FlagGoIdle, FenceKept DEF NoCandidate
<1>4. ASSUME NEW answered \in BOOLEAN, Claim(w, answered) PROVE FenceInv'
  BY <1>4, FenceClaim
<1>5. CASE ClaimMissed(w)
  BY <1>5, ReleaseUnmoved, FlagGoIdle, FenceKept DEF ClaimMissed
<1>6. CASE Restore(w)
  <2>1. \A t \in Scans : Releases(t)
    BY <1>6, <1>beat, ReleaseUnmoved DEF Restore
  <2>2. \A v \in Workers : SameFlag(v)
    BY <1>6, FlagMoves, FlagGoIdle DEF Restore
  <2> QED BY <2>1, <2>2, FenceKept
<1>7. CASE RestoreFails(w)
  BY <1>7, FenceRecordFailure, FenceKept DEF RestoreFails
<1>8. CASE Heartbeat(w)
  <2>1. \A t \in Scans : Releases(t)
    BY <1>8, <1>beat, ReleaseUnmoved DEF Heartbeat
  <2>2. \A v \in Workers : SameFlag(v)
    BY <1>8, FlagMoves, FlagUnmoved DEF Heartbeat
  <2> QED BY <2>1, <2>2, FenceKept
<1>9. CASE AbandonAttempt(w)
  BY <1>9, ReleaseUnmoved, FlagGoIdle, FenceKept DEF AbandonAttempt
<1>10. CASE BeginPersist(w)
  <2>1. \A t \in Scans : Releases(t)
    BY <1>10, <1>beat, ReleaseUnmoved DEF BeginPersist
  <2>2. \A v \in Workers : SameFlag(v)
    BY <1>10, FlagMoves, FlagGoIdle DEF BeginPersist
  <2> QED BY <2>1, <2>2, FenceKept
<1>11. ASSUME NEW r \in Readings, NEW answered \in BOOLEAN, Persist(w, r, answered)
       PROVE  FenceInv'
  <2> DEFINE row == [scan[s] EXCEPT !.processing = "Complete", !.items = r,
                        !.workerId = Nobody, !.stale = FALSE, !.quiet = FALSE]
  <2>1. row.workerId = Nobody
    BY Typed, ReleaseWrites
  <2>2. SetScan(s, row) \/ scan' = scan
    BY <1>11 DEF Persist
  <2>3. \A t \in Scans : Releases(t)
    <3> HIDE DEF row
    <3> QED BY <2>1, <2>2, Typed, ReleaseBySetScan, ReleaseUnmoved
  <2>4. \A v \in Workers : SameFlag(v)
    BY <1>11, FlagMoves, FlagGoIdle DEF Persist
  <2> QED BY <2>3, <2>4, FenceKept
<1>12. ASSUME NEW due \in BOOLEAN, Defer(w, due) PROVE FenceInv'
  <2> DEFINE row == [scan[s] EXCEPT !.workerId = Nobody, !.stale = FALSE, !.quiet = FALSE,
                                    !.due = due]
  <2>1. row.workerId = Nobody
    BY Typed, ReleaseWrites
  <2>2. SetScan(s, row) \/ scan' = scan
    BY <1>12 DEF Defer
  <2>3. \A t \in Scans : Releases(t)
    <3> HIDE DEF row
    <3> QED BY <2>1, <2>2, Typed, ReleaseBySetScan, ReleaseUnmoved
  <2> QED BY <1>12, <2>3, FlagGoIdle, FenceKept DEF Defer
<1>13. CASE ReadingFails(w)
  BY <1>13, FenceRecordFailure, FenceKept DEF ReadingFails
<1>14. CASE Crash(w)
  <2>1. \A t \in Scans : Releases(t)
    BY <1>14, Typed, ReleaseWrites DEF Crash, Releases
  <2> QED BY <1>14, <2>1, FlagGoIdle, FenceKept DEF Crash
<1> QED
  BY <1>1, <1>2, <1>3, <1>4, <1>5, <1>6, <1>7, <1>8, <1>9, <1>10, <1>11, <1>12, <1>13,
     <1>14
  DEF WorkerNext

LEMMA FenceDeletion ==
  ASSUME TypeOK, FenceInv, NEW s \in Scans, ScheduleDeletion(s)
  PROVE  FenceInv'
<1> DEFINE row == [scan[s] EXCEPT !.deleting = TRUE, !.confirmation = "Deletion Pending",
                      !.processing = "Failed", !.workerId = Nobody, !.stale = FALSE,
                      !.revision = @ + 1]
<1>1. row.workerId = Nobody
  BY Typed DEF ScanRow
<1>2. SetScan(s, row) /\ worker' = Supersede(s)
  BY DEF ScheduleDeletion
<1> HIDE DEF row
<1> QED BY <1>1, <1>2, ReleaseBySetScan, SetScanRow, FenceSupersede

LEMMA FenceRetry ==
  ASSUME TypeOK, FenceInv, NEW s \in Scans, RetryScan(s)
  PROVE  FenceInv'
<1> DEFINE row == [scan[s] EXCEPT !.processing = "Processing", !.attempt = 0,
                      !.workerId = Nobody, !.stale = FALSE, !.due = TRUE, !.quiet = FALSE]
<1>1. row.workerId = Nobody
  BY Typed DEF ScanRow
<1>2. SetScan(s, row) /\ worker' = Supersede(s)
  BY DEF RetryScan
<1> HIDE DEF row
<1> QED BY <1>1, <1>2, ReleaseBySetScan, SetScanRow, FenceSupersede

\* Steps of sessions, the clock and the purge worker that end no attempt.
LEMMA FenceBystander ==
  ASSUME TypeOK, FenceInv, worker' = worker, NEW s \in Scans, NEW row, SetScan(s, row),
         row.workerId = scan[s].workerId
  PROVE  FenceInv'
  BY ReleaseBySetScan, FlagUnmoved, FenceKept

LEMMA BystanderWrites ==
  ASSUME NEW row \in ScanRow, NEW item, NEW n, NEW quiet
  PROVE  /\ [row EXCEPT !.processing = "Processing"].workerId = row.workerId
         /\ [row EXCEPT !.quiet = quiet].workerId = row.workerId
         /\ [row EXCEPT !.revision = n, !.items = item, !.quiet = FALSE].workerId = row.workerId
         /\ [row EXCEPT !.confirmation = "Confirmed"].workerId = row.workerId
         /\ [row EXCEPT !.items = item, !.revision = n].workerId = row.workerId
         /\ [row EXCEPT !.stale = TRUE].workerId = row.workerId
         /\ [row EXCEPT !.due = TRUE].workerId = row.workerId
         /\ [row EXCEPT !.quiet = TRUE].workerId = row.workerId
  BY DEF ScanRow

LEMMA FenceNext == TypeOK /\ FenceInv /\ [Next]_vars => FenceInv'
<1> SUFFICES ASSUME TypeOK, FenceInv, [Next]_vars PROVE FenceInv'
  OBVIOUS
<1>1. ASSUME NEW w \in Workers, WorkerNext(w) PROVE FenceInv'
  BY <1>1, FenceWorker
<1>2. CASE OwnerNext
  <2>1. ASSUME NEW s \in Scans, Upload(s) PROVE FenceInv'
    BY <2>1, Typed, BystanderWrites, FenceBystander DEF Upload
  <2>2. ASSUME NEW s \in Scans, RetryScan(s) PROVE FenceInv'
    BY <2>2, FenceRetry
  <2>3. ASSUME NEW s \in Scans, RequestDeletion(s) PROVE FenceInv'
    BY <2>3, FenceDeletion DEF RequestDeletion
  <2>4. ASSUME NEW s \in Scans, NEW detaching \in BOOLEAN, DeleteRecords(s, detaching)
        PROVE  FenceInv'
    <3>1. CASE detaching
      BY <2>4, <3>1, ReleaseUnmoved, FlagUnmoved, FenceKept DEF DeleteRecords
    <3>2. CASE ~detaching
      BY <2>4, <3>2, FenceDeletion DEF DeleteRecords
    <3> QED BY <3>1, <3>2
  <2>5. ASSUME NEW c \in Clients, NEW s \in Scans, View(c, s) PROVE FenceInv'
    BY <2>5, Typed, BystanderWrites, FenceBystander DEF View
  <2>6. ASSUME NEW c \in Clients, NEW r \in Readings, NEW pinned \in BOOLEAN,
               EditItems(c, r, pinned)
        PROVE  FenceInv'
    <3> DEFINE at == client[c].on
    <3>1. [scan[at] EXCEPT !.revision = scan[at].revision + 1, !.items = r,
                           !.quiet = FALSE].workerId = scan[at].workerId
      BY Typed, BystanderWrites
    <3>2. /\ SetScan(at, [scan[at] EXCEPT !.revision = scan[at].revision + 1, !.items = r,
                                         !.quiet = FALSE])
          /\ worker' = worker
      BY <2>6 DEF EditItems
    <3> QED BY <3>1, <3>2, Typed, FenceBystander
  <2>7. ASSUME NEW c \in Clients, NEW pinned \in BOOLEAN,
               ConfirmRead(c, pinned) \/ ConfirmRefused(c)
        PROVE  FenceInv'
    BY <2>7, ReleaseUnmoved, FlagUnmoved, FenceKept DEF ConfirmRead, ConfirmRefused
  <2>8. ASSUME NEW c \in Clients, ConfirmCommit(c) PROVE FenceInv'
    BY <2>8, Typed, BystanderWrites, FenceBystander DEF ConfirmCommit
  <2> QED BY <1>2, <2>1, <2>2, <2>3, <2>4, <2>5, <2>6, <2>7, <2>8 DEF OwnerNext
<1>3. CASE Sweep
  BY <1>3, FenceDeletion DEF Sweep, SweepAbandoned
<1>4. CASE PurgeNext
  <2>1. ASSUME NEW s \in Scans, EraseEvidence(s) PROVE FenceInv'
    <3>1. [scan[s] EXCEPT !.items = NoReading, !.revision = scan[s].revision + 1].workerId
            = scan[s].workerId
      BY Typed, BystanderWrites
    <3>2. /\ SetScan(s, [scan[s] EXCEPT !.items = NoReading, !.revision = scan[s].revision + 1])
          /\ worker' = worker
      BY <2>1 DEF EraseEvidence
    <3> QED BY <3>1, <3>2, FenceBystander
  <2>2. ASSUME NEW s \in Scans, DiscardOrphan(s) PROVE FenceInv'
    BY <2>2, FenceDeletion DEF DiscardOrphan
  <2> QED BY <1>4, <2>1, <2>2 DEF PurgeNext
<1>5. CASE Tick
  BY <1>5, Typed, BystanderWrites, FenceBystander
  DEF Tick, LeaseExpires, BackoffElapses, FallsQuiet
<1>6. CASE UNCHANGED vars
  BY <1>6, ReleaseUnmoved, FlagUnmoved, FenceKept DEF vars
<1> QED BY <1>1, <1>2, <1>3, <1>4, <1>5, <1>6 DEF Next

\* An attempt somebody else ended never matches its row again, however often
\* the attempt count is reset and however late its last write arrives.
THEOREM LeaseIsFencedHolds == Spec => []LeaseIsFenced
<1>1. Init => TypeOK /\ FenceInv
  BY TypeInit DEF Init, FenceInv, IdleWorker
<1>2. TypeOK /\ FenceInv /\ [Next]_vars => (TypeOK /\ FenceInv)'
  BY TypeNext, FenceNext
<1>3. FenceInv => LeaseIsFenced
  BY DEF FenceInv, LeaseIsFenced, LeaseHeld
<1> QED BY <1>1, <1>2, <1>3, PTL DEF Spec

-----------------------------------------------------------------------------
LEMMA FrozenByRowStep ==
  ASSUME IInv, NEW s \in Scans, RowStep(s), books' = books
  PROVE  Frozen(s)
  BY DEF RowStep, Keeps, Frozen, IInv, RowOK, RowFits

LEMMA FrozenByDeletion ==
  ASSUME IInv, NEW t \in Scans, ScheduleDeletion(t), RecordsGone(t), NEW s \in Scans
  PROVE  Frozen(s)
<1>1. books'[s].count = books[s].count
  BY DEF RecordsGone
<1>2. CASE s = t
  <2>1. /\ scan'[s].confirmation = "Deletion Pending" /\ scan'[s].items = scan[s].items
        /\ scan'[s].attempt = scan[s].attempt
    BY <1>2, Typed DEF IInv, ScheduleDeletion, SetScan, TypeOK, ScanRow
  <2> QED BY <1>1, <1>2, <2>1 DEF Frozen, RecordsGone
<1>3. CASE s # t
  <2>1. scan'[s] = scan[s]
    BY <1>3 DEF IInv, ScheduleDeletion, SetScan, TypeOK
  <2> QED BY <1>1, <2>1 DEF Frozen
<1> QED BY <1>2, <1>3

\* A row that was still open, or is untouched, is not concerned.
LEMMA FrozenElsewhere ==
  ASSUME TypeOK, NEW t \in Scans, NEW row, SetScan(t, row), NEW s \in Scans,
         Open(t), s # t => books'[s].count = books[s].count
  PROVE  Frozen(s)
  BY SetScanRow DEF Frozen, Open

LEMMA FrozenStep == IInv /\ Next => \A s \in Scans : Frozen(s)
<1> SUFFICES ASSUME IInv, Next, NEW s \in Scans PROVE Frozen(s)
  OBVIOUS
<1>t. TypeOK /\ RowOK
  BY DEF IInv
<1>same. scan' = scan /\ books' = books => Frozen(s)
  BY DEF Frozen
<1>1. ASSUME NEW w \in Workers, WorkerNext(w) PROVE Frozen(s)
  BY <1>1, <1>t, WorkerRowStep, WorkerLeavesTheRest, FrozenByRowStep
<1>2. CASE OwnerNext
  <2>1. ASSUME NEW t \in Scans, Upload(t) \/ RetryScan(t) PROVE Frozen(s)
    BY <2>1, <1>t, RequestRowStep, FrozenByRowStep
  <2>2. ASSUME NEW t \in Scans, RequestDeletion(t) PROVE Frozen(s)
    BY <2>2, FrozenByDeletion DEF RequestDeletion, RecordsGone
  <2>3. ASSUME NEW t \in Scans, NEW detaching \in BOOLEAN, DeleteRecords(t, detaching)
        PROVE  Frozen(s)
    <3>1. RecordsGone(t)
      BY <2>3, <1>t, DeleteRecordsBooks DEF RecordsGone
    <3>2. CASE detaching
      BY <2>3, <3>1, <3>2 DEF DeleteRecords, Frozen, RecordsGone
    <3>3. CASE ~detaching
      <4>1. ScheduleDeletion(t)
        BY <2>3, <3>3 DEF DeleteRecords
      <4> QED BY <3>1, <4>1, FrozenByDeletion
    <3> QED BY <3>2, <3>3
  <2>4. ASSUME NEW c \in Clients, NEW t \in Scans, View(c, t) PROVE Frozen(s)
    <3> DEFINE q == IF scan[t].quiet /\ scan[t].confirmation # "Pending" THEN TRUE ELSE FALSE
    <3>1. Keeps(scan[t], [scan[t] EXCEPT !.quiet = q])
      <4>1. scan[t] \in ScanRow /\ (scan[t].workerId # Nobody => scan[t].processing = "Processing")
        BY <1>t, Typed DEF RowOK, RowFits
      <4> HIDE DEF q
      <4> QED BY <4>1, LookingMoves
    <3>2. SetScan(t, [scan[t] EXCEPT !.quiet = q]) /\ books' = books
      BY <2>4 DEF View
    <3>3. RowStep(s)
      BY <1>t, <3>1, <3>2, RowStepBySetScan
    <3> QED BY <3>2, <3>3, FrozenByRowStep
  <2>5. ASSUME NEW c \in Clients, NEW r \in Readings, NEW pinned \in BOOLEAN,
               EditItems(c, r, pinned)
        PROVE  Frozen(s)
    BY <2>5, <1>t, Typed, FrozenElsewhere DEF EditItems
  <2>6. ASSUME NEW c \in Clients, NEW pinned \in BOOLEAN,
               ConfirmRead(c, pinned) \/ ConfirmRefused(c)
        PROVE  Frozen(s)
    BY <2>6, <1>same DEF ConfirmRead, ConfirmRefused
  <2>7. ASSUME NEW c \in Clients, ConfirmCommit(c) PROVE Frozen(s)
    <3> DEFINE t == client[c].on
    <3>1. Open(t)
      BY <2>7 DEF ConfirmCommit, Confirmable
    <3>2. s # t => books'[s] = books[s]
      BY <2>7, <1>t DEF ConfirmCommit, TypeOK
    <3> QED BY <2>7, <3>1, <3>2, <1>t, Typed, FrozenElsewhere DEF ConfirmCommit
  <2> QED BY <1>2, <2>1, <2>2, <2>3, <2>4, <2>5, <2>6, <2>7 DEF OwnerNext
<1>3. CASE Sweep
  BY <1>3, FrozenByDeletion DEF Sweep, SweepAbandoned, RecordsGone
<1>4. CASE PurgeNext
  <2>1. ASSUME NEW t \in Scans, EraseEvidence(t) PROVE Frozen(s)
    <3>1. /\ scan'[t].items = NoReading /\ scan'[t].attempt = scan[t].attempt
          /\ scan'[t].confirmation = scan[t].confirmation
          /\ scan'[t].processing = scan[t].processing
          /\ s # t => scan'[s] = scan[s]
          /\ books' = books
      BY <2>1, <1>t, Typed DEF EraseEvidence, SetScan, TypeOK, ScanRow
    <3> QED BY <3>1 DEF Frozen
  <2>2. ASSUME NEW t \in Scans, DiscardOrphan(t) PROVE Frozen(s)
    BY <2>2, FrozenByDeletion DEF DiscardOrphan, RecordsGone
  <2> QED BY <1>4, <2>1, <2>2 DEF PurgeNext
<1>5. CASE Tick
  BY <1>5, <1>t, ClockRowStep, FrozenByRowStep
<1> QED BY <1>1, <1>2, <1>3, <1>4, <1>5 DEF Next

\* What an owner settled stays settled, whatever was already under way.
THEOREM SettledIsFrozenHolds == Spec => SettledIsFrozen
<1>1. IInv /\ [Next]_vars => [\A s \in Scans : Frozen(s)]_vars
  BY FrozenStep
<1> QED BY <1>1, Invariant, PTL DEF Spec, SettledIsFrozen
=============================================================================
