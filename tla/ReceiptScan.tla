----------------------------- MODULE ReceiptScan -----------------------------
(***************************************************************************)
(* The receipt queue: the ReceiptScan row is its own job.  API requests    *)
(* (upload, view, retry, edit, confirm, delete) and any number of receipt  *)
(* worker processes change the row only through conditional UPDATEs, and   *)
(* every worker write is fenced by the pair (processingWorkerId,           *)
(* processingAttemptCount) its claim stored.                               *)
(*                                                                         *)
(* Time is abstract.  A column compared with the clock is a flag that says *)
(* how the comparison comes out now: `due' (nextProcessingAttemptAt has    *)
(* passed), `stale' (the heartbeat is older than the two-minute lease) and *)
(* `quiet' (no owner or worker activity for the seven-day window).  The    *)
(* environment raises a flag, a write of a fresh timestamp lowers it.      *)
(* Clocks of different hosts need not agree, so a claim may find a row     *)
(* rewritten after its read still eligible.                                *)
(***************************************************************************)
EXTENDS Naturals

CONSTANTS
    Scans,        \* receipt scan ids
    Workers,      \* receipt worker processes
    Clients,      \* signed-in sessions of the owner (web, mobile)
    Readings,     \* distinguishable contents of a scan's item list
    NoReading,    \* the empty item list of a scan that was never read
    Nobody,       \* processingWorkerId IS NULL
    Dead,         \* the id of a worker process that no longer runs
    MaxAttempts,  \* MAX_PROCESSING_ATTEMPTS
    MaxRevision   \* bound: owners stop editing a scan at this revision

ASSUME ScanAssumption ==
    /\ Scans # {}
    /\ MaxAttempts \in Nat \ {0}
    /\ MaxRevision \in Nat
    /\ NoReading \notin Readings
    /\ Nobody \notin Workers /\ Dead \notin Workers /\ Nobody # Dead

VARIABLES
    scan,    \* the ReceiptScan rows
    books,   \* expense records of each scan, and how they came about
    worker,  \* what each worker process is doing
    client   \* what each owner session last saw, and its open request

vars == <<scan, books, worker, client>>

ProcessingStatus == {"Absent", "Processing", "Complete", "Failed"}
ConfirmationStatus == {"Pending", "Confirmed", "Deletion Pending"}
Items == Readings \cup {NoReading}

\* `deleting' stands for both columns every guard tests together:
\* evidenceDeletionRequestedAt IS NOT NULL, and a DELETE_SCAN purge job exists.
ScanRow ==
    [processing : ProcessingStatus, confirmation : ConfirmationStatus,
     revision : Nat, workerId : Workers \cup {Nobody, Dead},
     attempt : 0..MaxAttempts, due : BOOLEAN, stale : BOOLEAN,
     quiet : BOOLEAN, deleting : BOOLEAN, items : Items]

\* processScan runs, its heartbeat timer with it.
Processing == {"reading", "persisting", "failing"}
Attempting == {"restoring"} \cup Processing
Busy == {"claiming"} \cup Attempting

\* `superseded' is history: the attempt this process believes it runs was
\* ended by someone else (a later claim, a retry, a deletion, the ceiling).
WorkerState ==
    [pc : {"idle", "looking"} \cup Busy, job : Scans, attempt : 0..MaxAttempts,
     leaseLost : BOOLEAN, superseded : BOOLEAN]

\* `complete' is whether the last answer the session got said "Complete".
ClientState ==
    [pc : {"browsing", "confirming"}, on : Scans, complete : BOOLEAN,
     revision : Nat, items : Items, pinned : BOOLEAN, asRevision : Nat]

\* `count' confirmations have booked the scan (history), with `items'; `kept'
\* says that expense records of it still exist.
Booking == [count : Nat, kept : BOOLEAN, items : Items, reviewed : Items, pinned : BOOLEAN]

TypeOK ==
    /\ scan \in [Scans -> ScanRow]
    /\ books \in [Scans -> Booking]
    /\ worker \in [Workers -> WorkerState]
    /\ client \in [Clients -> ClientState]

-----------------------------------------------------------------------------
NoRow ==
    [processing |-> "Absent", confirmation |-> "Pending", revision |-> 0,
     workerId |-> Nobody, attempt |-> 0, due |-> TRUE, stale |-> FALSE,
     quiet |-> FALSE, deleting |-> FALSE, items |-> NoReading]

SomeScan == CHOOSE s \in Scans : TRUE

IdleWorker ==
    [pc |-> "idle", job |-> SomeScan, attempt |-> 0,
     leaseLost |-> FALSE, superseded |-> FALSE]

NoView ==
    [pc |-> "browsing", on |-> SomeScan, complete |-> FALSE, revision |-> 0,
     items |-> NoReading, pinned |-> FALSE, asRevision |-> 0]

NoBooking ==
    [count |-> 0, kept |-> FALSE, items |-> NoReading, reviewed |-> NoReading, pinned |-> FALSE]

Init ==
    /\ scan = [s \in Scans |-> NoRow]
    /\ books = [s \in Scans |-> NoBooking]
    /\ worker = [w \in Workers |-> IdleWorker]
    /\ client = [c \in Clients |-> NoView]

Exists(s) == scan[s].processing # "Absent"

\* Slip: the confirmation status is forgotten.
OpenUnlessDeleting(s) == ~scan[s].deleting

\* The row is still the owner's draft and nobody asked for its deletion.
Open(s) == scan[s].confirmation = "Pending" /\ ~scan[s].deleting

LeaseFree(s) == scan[s].workerId = Nobody \/ scan[s].stale

\* Slip: the attempt ceiling lives in the failure path only.
ClaimableWithoutCeiling(s) ==
    /\ scan[s].processing = "Processing"
    /\ Open(s)
    /\ scan[s].due
    /\ LeaseFree(s)

Claimable(s) ==
    /\ scan[s].processing = "Processing"
    /\ Open(s)
    /\ scan[s].due
    /\ scan[s].attempt < MaxAttempts
    /\ LeaseFree(s)

\* Slip: the attempt alone is taken for the lease.
LeaseHeldByAttempt(w) ==
    LET s == worker[w].job IN
    /\ Open(s)
    /\ scan[s].workerId # Nobody
    /\ scan[s].attempt = worker[w].attempt

\* The WHERE clause that fences every write of a running attempt.
LeaseHeld(w) ==
    LET s == worker[w].job IN
    /\ Open(s)
    /\ scan[s].workerId = w
    /\ scan[s].attempt = worker[w].attempt

SetScan(s, row) == scan' = [scan EXCEPT ![s] = row]

\* History only: attempts at s under way no longer own it.
Supersede(s) ==
    [v \in Workers |->
        IF worker[v].pc \in Attempting /\ worker[v].job = s
        THEN [worker[v] EXCEPT !.superseded = TRUE]
        ELSE worker[v]]

GoIdle(w) == worker' = [worker EXCEPT ![w] = IdleWorker]

-----------------------------------------------------------------------------
(* The worker: one pass of runReceiptWorkerOnce at a time per process.     *)

\* Slip: only a released lease counts as free.
ExhaustedAndReleased(s) ==
    /\ scan[s].processing = "Processing"
    /\ Open(s)
    /\ scan[s].attempt >= MaxAttempts
    /\ scan[s].workerId = Nobody

\* failExhaustedScans: every scan whose last allowed attempt died.
Exhausted(s) ==
    /\ scan[s].processing = "Processing"
    /\ Open(s)
    /\ scan[s].attempt >= MaxAttempts
    /\ LeaseFree(s)

FailExhaustedScans(w) ==
    /\ worker[w].pc = "idle"
    /\ scan' = [s \in Scans |->
                  IF Exhausted(s)
                  THEN [scan[s] EXCEPT !.processing = "Failed", !.workerId = Nobody,
                                       !.stale = FALSE, !.quiet = FALSE]
                  ELSE scan[s]]
    /\ worker' = [v \in Workers |->
                    IF v = w THEN [worker[v] EXCEPT !.pc = "looking"]
                    ELSE IF worker[v].pc \in Attempting /\ Exhausted(worker[v].job)
                    THEN [worker[v] EXCEPT !.superseded = TRUE]
                    ELSE worker[v]]
    /\ UNCHANGED <<books, client>>

\* claimScan, first statement: the candidate and its attempt count are read.
FindCandidate(w, s) ==
    /\ worker[w].pc = "looking"
    /\ Claimable(s)
    /\ worker' = [worker EXCEPT ![w] = [@ EXCEPT !.pc = "claiming", !.job = s,
                                                 !.attempt = scan[s].attempt + 1]]
    /\ UNCHANGED <<scan, books, client>>

NoCandidate(w) ==
    /\ worker[w].pc = "looking"
    /\ \A s \in Scans : ~Claimable(s)
    /\ GoIdle(w)
    /\ UNCHANGED <<scan, books, client>>

\* claimScan, second statement: the conditional UPDATE is the race guard.  It
\* increments the stored count; the attempt the process goes on with is the
\* count it read plus one.  When `answered' is false the UPDATE committed but
\* its answer was lost, and the pass ends with an error.
Claim(w, answered) ==
    LET s == worker[w].job IN
    /\ worker[w].pc = "claiming"
    /\ Claimable(s)
    /\ SetScan(s, [scan[s] EXCEPT !.workerId = w, !.stale = FALSE, !.quiet = FALSE,
                                  !.attempt = @ + 1])
    /\ worker' = [Supersede(s) EXCEPT
                    ![w] = IF answered THEN [worker[w] EXCEPT !.pc = "restoring"]
                           ELSE IdleWorker]
    /\ UNCHANGED <<books, client>>

ClaimMissed(w) ==
    /\ worker[w].pc = "claiming"
    /\ ~Claimable(worker[w].job)
    /\ GoIdle(w)
    /\ UNCHANGED <<scan, books, client>>

\* Slip: the failure is recorded by scan id alone.
RecordFailureUnfenced(w) ==
    LET s == worker[w].job
        retryable == worker[w].attempt < MaxAttempts IN
    /\ SetScan(s, [scan[s] EXCEPT
                      !.processing = IF retryable THEN "Processing" ELSE "Failed",
                      !.workerId = Nobody, !.stale = FALSE, !.quiet = FALSE,
                      !.due = FALSE])
    /\ GoIdle(w)
    /\ UNCHANGED <<books, client>>

\* recordProcessingFailure: back in the queue behind a delay, or Failed.  The
\* process goes idle whether or not it still owned the row.
RecordFailure(w) ==
    LET s == worker[w].job
        retryable == worker[w].attempt < MaxAttempts IN
    /\ IF LeaseHeld(w)
       THEN SetScan(s, [scan[s] EXCEPT
                          !.processing = IF retryable THEN "Processing" ELSE "Failed",
                          !.workerId = Nobody, !.stale = FALSE, !.quiet = FALSE,
                          !.due = FALSE])
       ELSE UNCHANGED scan
    /\ GoIdle(w)
    /\ UNCHANGED <<books, client>>

\* storedInput: the row and its images are read and checked, then one
\* heartbeat is sent; a heartbeat that matches no row ends the attempt.
Restore(w) ==
    LET s == worker[w].job IN
    /\ worker[w].pc = "restoring"
    /\ Open(s)
    /\ IF LeaseHeld(w) /\ scan[s].processing = "Processing"
       THEN /\ SetScan(s, [scan[s] EXCEPT !.stale = FALSE, !.quiet = FALSE])
            /\ worker' = [worker EXCEPT ![w].pc = "reading"]
       ELSE /\ GoIdle(w)
            /\ UNCHANGED scan
    /\ UNCHANGED <<books, client>>

\* The evidence is gone, unreadable or invalid, or the scan is no longer open.
RestoreFails(w) ==
    /\ worker[w].pc = "restoring"
    /\ RecordFailure(w)

\* The 30-second timer of processScan; losing the lease is only remembered.
Heartbeat(w) ==
    LET s == worker[w].job IN
    /\ worker[w].pc \in Processing
    /\ IF LeaseHeld(w) /\ scan[s].processing = "Processing"
       THEN /\ SetScan(s, [scan[s] EXCEPT !.stale = FALSE, !.quiet = FALSE])
            /\ UNCHANGED worker
       ELSE /\ worker' = [worker EXCEPT ![w].leaseLost = TRUE]
            /\ UNCHANGED scan
    /\ UNCHANGED <<books, client>>

\* processScan ends without a write: the attempt knows its lease is lost.
AbandonAttempt(w) ==
    /\ worker[w].pc = "reading"
    /\ worker[w].leaseLost
    /\ GoIdle(w)
    /\ UNCHANGED <<scan, books, client>>

\* The reading is done: `leaseLost' is looked at and one more heartbeat sent
\* before the transaction is opened.
BeginPersist(w) ==
    LET s == worker[w].job IN
    /\ worker[w].pc = "reading"
    /\ ~worker[w].leaseLost
    /\ IF LeaseHeld(w) /\ scan[s].processing = "Processing"
       THEN /\ SetScan(s, [scan[s] EXCEPT !.stale = FALSE, !.quiet = FALSE])
            /\ worker' = [worker EXCEPT ![w].pc = "persisting"]
       ELSE /\ GoIdle(w)
            /\ UNCHANGED scan
    /\ UNCHANGED <<books, client>>

\* persistReceiptProcessingOutput: the reading and "Complete" in one
\* transaction, or nothing when the lease-matching UPDATE finds no row.  When
\* its answer is lost, the attempt takes the transaction for failed.
Persist(w, r, answered) ==
    LET s == worker[w].job IN
    /\ worker[w].pc = "persisting"
    /\ IF LeaseHeld(w) /\ scan[s].processing = "Processing"
       THEN SetScan(s, [scan[s] EXCEPT !.processing = "Complete", !.items = r,
                          !.workerId = Nobody, !.stale = FALSE, !.quiet = FALSE])
       ELSE UNCHANGED scan
    /\ IF answered THEN GoIdle(w) ELSE worker' = [worker EXCEPT ![w].pc = "failing"]
    /\ UNCHANGED <<books, client>>

\* deferUntilProviderReady: the provider asked to be called again later (`due'
\* is whether that time has come already).  The last attempt never waits.
Defer(w, due) ==
    LET s == worker[w].job IN
    /\ worker[w].pc = "reading"
    /\ ~worker[w].leaseLost
    /\ worker[w].attempt < MaxAttempts
    /\ IF LeaseHeld(w)
       THEN SetScan(s, [scan[s] EXCEPT !.workerId = Nobody, !.stale = FALSE,
                                       !.quiet = FALSE, !.due = due])
       ELSE UNCHANGED scan
    /\ GoIdle(w)
    /\ UNCHANGED <<books, client>>

\* Anything else processScan catches, at whatever point of the attempt.
ReadingFails(w) ==
    /\ worker[w].pc \in Processing
    /\ RecordFailure(w)

\* The process dies at any point and is started again under a new id; rows it
\* leased keep the id of a process that no longer exists.
Crash(w) ==
    /\ worker[w].pc # "idle"
    /\ GoIdle(w)
    /\ scan' = [s \in Scans |-> IF scan[s].workerId = w
                                THEN [scan[s] EXCEPT !.workerId = Dead] ELSE scan[s]]
    /\ UNCHANGED <<books, client>>

-----------------------------------------------------------------------------
(* The owner: requests of any number of sessions, and the hourly sweep.    *)

\* uploadAndScan's transaction creates the row: Processing, and otherwise the
\* column defaults NoRow already shows.
Upload(s) ==
    /\ ~Exists(s)
    /\ SetScan(s, [scan[s] EXCEPT !.processing = "Processing"])
    /\ UNCHANGED <<books, worker, client>>

\* getScan and recordScanViewActivity.
View(c, s) ==
    /\ client[c].pc = "browsing"
    /\ Exists(s) /\ ~scan[s].deleting
    /\ client' = [client EXCEPT ![c] = [@ EXCEPT !.on = s,
                    !.complete = (scan[s].processing = "Complete"),
                    !.revision = scan[s].revision, !.items = scan[s].items]]
    /\ SetScan(s, [scan[s] EXCEPT !.quiet = IF @ /\ scan[s].confirmation # "Pending"
                                               THEN TRUE ELSE FALSE])
    /\ UNCHANGED <<books, worker>>

\* retryScan: a failed draft starts over with a fresh attempt budget.  Its
\* UPDATE tests the two states alone: it looked for a deletion job before, and
\* one that was asked for since shows in the confirmation status only.
RetryScan(s) ==
    /\ scan[s].processing = "Failed"
    /\ scan[s].confirmation = "Pending"
    /\ SetScan(s, [scan[s] EXCEPT !.processing = "Processing", !.attempt = 0,
                     !.workerId = Nobody, !.stale = FALSE, !.due = TRUE, !.quiet = FALSE])
    /\ worker' = Supersede(s)
    /\ UNCHANGED <<books, client>>

\* Slip: the edit does not advance the revision.
EditItemsSilently(c, r, pinned) ==
    LET s == client[c].on IN
    /\ client[c].pc = "browsing" /\ client[c].complete
    /\ Open(s)
    /\ scan[s].processing = "Complete"
    /\ pinned => scan[s].revision = client[c].revision
    /\ SetScan(s, [scan[s] EXCEPT !.items = r, !.quiet = FALSE])
    /\ client' = [client EXCEPT ![c] = [@ EXCEPT !.revision = scan[s].revision,
                                                 !.items = r]]
    /\ UNCHANGED <<books, worker>>

\* updateScanItem and deleteScanItem: the edit claims the revision the session
\* saw (a delete may name none) and leaves the list as r.
EditItems(c, r, pinned) ==
    LET s == client[c].on IN
    /\ client[c].pc = "browsing" /\ client[c].complete
    /\ Open(s)
    /\ scan[s].processing = "Complete"
    /\ pinned => scan[s].revision = client[c].revision
    /\ scan[s].revision < MaxRevision
    /\ SetScan(s, [scan[s] EXCEPT !.revision = @ + 1, !.items = r, !.quiet = FALSE])
    /\ client' = [client EXCEPT ![c] = [@ EXCEPT !.revision = scan[s].revision + 1,
                                                 !.items = r]]
    /\ UNCHANGED <<books, worker>>

\* confirmReceipt before its transaction: the row is read and checked.  The
\* clients offer a confirmation only for a scan they saw Complete.
ConfirmRead(c, pinned) ==
    LET s == client[c].on IN
    /\ client[c].pc = "browsing" /\ client[c].complete
    /\ ~scan[s].deleting
    /\ scan[s].confirmation # "Confirmed"
    /\ scan[s].processing = "Complete"
    /\ pinned => scan[s].revision = client[c].revision
    /\ client' = [client EXCEPT ![c] = [@ EXCEPT !.pc = "confirming", !.pinned = pinned,
                                                 !.asRevision = scan[s].revision]]
    /\ UNCHANGED <<scan, books, worker>>

\* Slip: the revision was checked when the row was read, so not again.
ConfirmableAtAnyRevision(s, revision) ==
    /\ Open(s)
    /\ scan[s].processing = "Complete"

\* The claim of confirmReceipt's transaction.
Confirmable(s, revision) ==
    /\ Open(s)
    /\ scan[s].processing = "Complete"
    /\ scan[s].revision = revision

\* The transaction: claim, expense records for the stored items, links.  Lines
\* typed on the confirmation screen itself are not modelled.
ConfirmCommit(c) ==
    LET s == client[c].on IN
    /\ client[c].pc = "confirming"
    /\ Confirmable(s, client[c].asRevision)
    /\ SetScan(s, [scan[s] EXCEPT !.confirmation = "Confirmed"])
    /\ books' = [books EXCEPT ![s] = [count |-> @.count + 1, kept |-> TRUE,
                                      items |-> scan[s].items,
                                      reviewed |-> client[c].items,
                                      pinned |-> client[c].pinned]]
    /\ client' = [client EXCEPT ![c].pc = "browsing"]
    /\ UNCHANGED worker

\* The claim finds no row, a duplicate needs review, or the split does not
\* add up: everything rolls back.
ConfirmRefused(c) ==
    /\ client[c].pc = "confirming"
    /\ client' = [client EXCEPT ![c].pc = "browsing"]
    /\ UNCHANGED <<scan, books, worker>>

\* Slip: the deletion marks the row and leaves its confirmation status.
ScheduleDeletionByMark(s) ==
    /\ SetScan(s, [scan[s] EXCEPT !.deleting = TRUE, !.processing = "Failed",
                     !.workerId = Nobody, !.stale = FALSE, !.revision = @ + 1])
    /\ worker' = Supersede(s)
    /\ UNCHANGED client

\* What every DELETE_SCAN request writes to the row it locked.
ScheduleDeletion(s) ==
    /\ SetScan(s, [scan[s] EXCEPT !.deleting = TRUE, !.confirmation = "Deletion Pending",
                     !.processing = "Failed", !.workerId = Nobody, !.stale = FALSE,
                     !.revision = @ + 1])
    /\ worker' = Supersede(s)
    /\ UNCHANGED client

\* enqueueOwnedPurge: the owner deletes a draft, whatever its processing state.
RequestDeletion(s) ==
    /\ Exists(s)
    /\ scan[s].confirmation = "Pending"
    /\ ~books[s].kept
    /\ ScheduleDeletion(s)
    /\ UNCHANGED books

\* Slip: only finished readings are ever abandoned.
SweepAbandonedReadings(s) ==
    /\ Open(s)
    /\ scan[s].processing = "Complete"
    /\ scan[s].quiet
    /\ ~books[s].kept
    /\ ScheduleDeletion(s)
    /\ UNCHANGED books

\* sweepAbandonedReceiptScans, as decided again under the row lock.
SweepAbandoned(s) ==
    /\ Open(s)
    /\ scan[s].processing \in {"Complete", "Failed"}
    /\ scan[s].quiet
    /\ ~books[s].kept
    /\ ScheduleDeletion(s)
    /\ UNCHANGED books

\* deleteExpenseRecord on a scan's last record: the scan is handed to deletion
\* in the same transaction, unless its evidence is just being detached.
DeleteRecords(s, detaching) ==
    /\ scan[s].confirmation = "Confirmed"
    /\ books[s].kept
    /\ books' = [books EXCEPT ![s].kept = FALSE]
    /\ IF detaching THEN UNCHANGED <<scan, worker, client>> ELSE ScheduleDeletion(s)

-----------------------------------------------------------------------------
(* The purge worker, as far as it writes a row that stays.                 *)

\* The database stage of a DETACH_EVIDENCE job: pages and items are deleted.
EraseEvidence(s) ==
    /\ scan[s].confirmation = "Confirmed"
    /\ scan[s].items # NoReading
    /\ SetScan(s, [scan[s] EXCEPT !.items = NoReading, !.revision = @ + 1])
    /\ UNCHANGED <<books, worker, client>>

\* enqueueReceiptPurgeIfOrphaned after that stage committed: a row without
\* records or evidence is deleted at once, which is here another end of it.
DiscardOrphan(s) ==
    /\ scan[s].confirmation = "Confirmed"
    /\ ~books[s].kept
    /\ scan[s].items = NoReading
    /\ ScheduleDeletion(s)
    /\ UNCHANGED books

-----------------------------------------------------------------------------
(* The clock.                                                              *)

LeaseExpires(s) ==
    /\ scan[s].workerId # Nobody /\ ~scan[s].stale
    /\ SetScan(s, [scan[s] EXCEPT !.stale = TRUE])
    /\ UNCHANGED <<books, worker, client>>

BackoffElapses(s) ==
    /\ Exists(s) /\ ~scan[s].due
    /\ SetScan(s, [scan[s] EXCEPT !.due = TRUE])
    /\ UNCHANGED <<books, worker, client>>

\* Seven days pass without a stamp on lastActivityAt.
FallsQuiet(s) ==
    /\ Exists(s) /\ Open(s) /\ ~scan[s].quiet
    /\ SetScan(s, [scan[s] EXCEPT !.quiet = TRUE])
    /\ UNCHANGED <<books, worker, client>>

-----------------------------------------------------------------------------
WorkerNext(w) ==
    \/ FailExhaustedScans(w)
    \/ \E s \in Scans : FindCandidate(w, s)
    \/ NoCandidate(w)
    \/ \E answered \in BOOLEAN : Claim(w, answered)
    \/ ClaimMissed(w)
    \/ Restore(w)
    \/ RestoreFails(w)
    \/ Heartbeat(w)
    \/ AbandonAttempt(w)
    \/ BeginPersist(w)
    \/ \E r \in Readings, answered \in BOOLEAN : Persist(w, r, answered)
    \/ \E due \in BOOLEAN : Defer(w, due)
    \/ ReadingFails(w)
    \/ Crash(w)

OwnerNext ==
    \/ \E s \in Scans : Upload(s) \/ RetryScan(s) \/ RequestDeletion(s)
    \/ \E s \in Scans, detaching \in BOOLEAN : DeleteRecords(s, detaching)
    \/ \E c \in Clients, s \in Scans : View(c, s)
    \/ \E c \in Clients, r \in Readings, pinned \in BOOLEAN : EditItems(c, r, pinned)
    \/ \E c \in Clients, pinned \in BOOLEAN : ConfirmRead(c, pinned)
    \/ \E c \in Clients : ConfirmCommit(c) \/ ConfirmRefused(c)

Sweep == \E s \in Scans : SweepAbandoned(s)

PurgeNext == \E s \in Scans : EraseEvidence(s) \/ DiscardOrphan(s)

Tick == \E s \in Scans : LeaseExpires(s) \/ BackoffElapses(s) \/ FallsQuiet(s)

Next ==
    \/ \E w \in Workers : WorkerNext(w)
    \/ OwnerNext
    \/ Sweep
    \/ PurgeNext
    \/ Tick

Spec == Init /\ [][Next]_vars

\* A live receipt worker keeps passing over the queue and ends what it began.
\* findFirst takes due scans oldest first, so none is passed over for ever, and
\* a claim is a single statement that a crash does not meet every time.
EndAttempt(w) ==
    \/ AbandonAttempt(w)
    \/ BeginPersist(w)
    \/ \E r \in Readings, answered \in BOOLEAN : Persist(w, r, answered)
    \/ \E due \in BOOLEAN : Defer(w, due)
    \/ ReadingFails(w)

ClaimOf(s) ==
    \E w \in Workers, answered \in BOOLEAN : worker[w].job = s /\ Claim(w, answered)

WorkerFairness ==
    /\ \A w \in Workers :
          /\ WF_vars(FailExhaustedScans(w))
          /\ WF_vars(NoCandidate(w))
          /\ WF_vars(ClaimMissed(w))
          /\ WF_vars(Restore(w) \/ RestoreFails(w))
          /\ WF_vars(EndAttempt(w))
    /\ \A s \in Scans :
          /\ SF_vars(\E w \in Workers : FindCandidate(w, s))
          /\ SF_vars(ClaimOf(s))

\* The lease of a process that runs no attempt is not renewed, delays end, and
\* a scan nobody touches is seven days old one day.
Unattended(s) ==
    \A w \in Workers : worker[w].pc \in Attempting => worker[w].job # s

ClockFairness ==
    \A s \in Scans :
       /\ WF_vars(Unattended(s) /\ LeaseExpires(s))
       /\ WF_vars(BackoffElapses(s))
       /\ WF_vars(FallsQuiet(s))

FairSpec ==
    /\ Spec
    /\ WorkerFairness
    /\ ClockFairness
    /\ \A s \in Scans : WF_vars(SweepAbandoned(s))

-----------------------------------------------------------------------------
(* What must hold.                                                         *)

\* The revision an owner quotes identifies what they saw: while a scan still
\* has the revision of an answer that said "Complete", and is not on its way
\* out, it is still complete with exactly the items of that answer.  No late
\* worker, retry or other session replaces them unnoticed (the persist
\* transaction writes items without advancing scanRevision).
RevisionPinsItems ==
    \A c \in Clients :
        LET s == client[c].on IN
        (client[c].complete /\ scan[s].revision = client[c].revision) =>
            /\ scan[s].processing = "Complete"
            /\ scan[s].items = client[c].items

\* A receipt is booked at most once and by a confirmation; its records exist
\* only while it is Confirmed, so no deletion path takes a receipt with records;
\* the records say what the row still shows (or its evidence was erased since);
\* and when the session quoted a revision, they are the items it was looking at.
BookedOnceAsReviewed ==
    \A s \in Scans :
        /\ books[s].count <= 1
        /\ scan[s].confirmation = "Confirmed" => books[s].count = 1
        /\ books[s].kept => scan[s].confirmation = "Confirmed"
        /\ books[s].count > 0 =>
              /\ scan[s].confirmation # "Pending"
              /\ scan[s].items \in {books[s].items, NoReading}
              /\ books[s].pinned => books[s].items = books[s].reviewed

\* The pair (worker id, attempt) is never valid again once somebody else ended
\* the attempt it was issued for: not after a later claim, not after a retry
\* reset the count, not after a deletion.  A write of a superseded attempt
\* therefore never matches the row.
LeaseIsFenced ==
    \A w \in Workers :
        (worker[w].pc \in Attempting /\ worker[w].superseded) => ~LeaseHeld(w)

\* Once a draft is confirmed or given up for deletion, no attempt, edit, retry
\* or second confirmation that was already under way changes it: its items stay
\* or are erased, its attempts and bookings stay, and all that can still happen
\* to a confirmed receipt is to be given up once its records are gone.  (The
\* retry's UPDATE does not test for a deletion; the status has to stop it.)
Frozen(s) ==
    scan[s].confirmation # "Pending" \/ scan[s].deleting =>
       /\ scan'[s].items \in {scan[s].items, NoReading}
       /\ scan'[s].attempt = scan[s].attempt
       /\ books'[s].count = books[s].count
       /\ \/ /\ scan'[s].confirmation = scan[s].confirmation
             /\ scan'[s].processing = scan[s].processing
          \/ /\ scan'[s].confirmation = "Deletion Pending"
             /\ ~books'[s].kept

SettledIsFrozen == [][\A s \in Scans : Frozen(s)]_vars

\* No upload stays "being read" for ever: whatever crashes, lost answers,
\* provider delays and failures happen, the attempt ceiling ends it.
EveryReadSettles ==
    \A s \in Scans :
        scan[s].processing = "Processing" ~> scan[s].processing # "Processing"

OwnerTouches(s) ==
    \/ RetryScan(s) \/ RequestDeletion(s)
    \/ \E c \in Clients : View(c, s)
    \/ \E c \in Clients : client[c].on = s /\
          \/ \E r \in Readings, pinned \in BOOLEAN : EditItems(c, r, pinned)
          \/ \E pinned \in BOOLEAN : ConfirmRead(c, pinned)

\* A draft its owner never comes back to does not keep its images for ever:
\* it is read or given up, falls quiet and is handed to deletion (unless a
\* confirmation that was already under way still lands).
NeglectedDraftsEnd ==
    \A s \in Scans :
        (<>[][~OwnerTouches(s)]_vars) =>
            (Exists(s) ~> scan[s].confirmation # "Pending")

Phase(s) ==
    CASE scan[s].confirmation = "Confirmed" -> "booked"
      [] scan[s].confirmation = "Deletion Pending" -> "discarded"
      [] scan[s].confirmation = "Pending" ->
            CASE scan[s].processing = "Absent" -> "absent"
              [] scan[s].processing = "Processing" -> "reading"
              [] scan[s].processing = "Complete" -> "ready"
              [] scan[s].processing = "Failed" -> "unreadable"

Lifecycle == INSTANCE ReceiptLifecycle WITH
    Receipts <- Scans,
    Contents <- Readings,
    Nothing <- NoReading,
    phase <- [s \in Scans |-> Phase(s)],
    draft <- [s \in Scans |-> scan[s].items],
    ledger <- [s \in Scans |-> [count |-> books[s].count, items |-> books[s].items]]

\* The queue implements the receipt's promised lifecycle.
ImplementsLifecycle == Lifecycle!LifecycleSpec
=============================================================================
