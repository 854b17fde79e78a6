----------------------------- MODULE ReceiptPurge -----------------------------
(***************************************************************************)
(* How a receipt's evidence leaves the system.  A purge job is a bounded   *)
(* series of attempts at one obligation (delete the scan, or only detach   *)
(* its evidence).  Its storage stage deletes the images page by page and   *)
(* checkpoints each page, its database stage removes the rows; the object  *)
(* store and the database commit separately.  Any number of purge workers  *)
(* lease jobs; requests of the owner and two hourly sweeps create them.    *)
(*                                                                         *)
(* As in ReceiptScan, a column compared with the clock is a flag: `due'    *)
(* (nextAttemptAt has passed), `stale' (the heartbeat is older than the    *)
(* lease), `quiet' (the job ended more than the re-drive cooldown ago),    *)
(* `expired' (expiresAt has passed).  What the queue does to a scan before *)
(* it is confirmed or given up is ReceiptScan's; here it is just Pending.  *)
(***************************************************************************)
EXTENDS Naturals, FiniteSets

CONSTANTS
    Scans,       \* receipt scan ids
    Workers,     \* purge worker processes
    Objects,     \* the stored images of a scan
    PageOf,      \* the page each image belongs to
    Nobody,      \* workerId IS NULL
    Dead,        \* the id of a worker process that no longer runs
    NoScan,      \* receiptScanId IS NULL
    MaxAttempts, \* MAX_PURGE_ATTEMPTS
    MaxJobs,     \* bound: jobs ever created
    MaxRecords,  \* bound: expense records of one receipt
    MaxFaults    \* bound: crashes, lost answers, failed calls and stalls

ASSUME PurgeAssumption ==
    /\ PageOf \in [Objects -> Nat \ {0}]
    /\ IsFiniteSet(Objects)
    /\ MaxAttempts \in Nat \ {0} /\ MaxJobs \in Nat /\ MaxFaults \in Nat
    /\ MaxRecords \in Nat \ {0}
    /\ Scans # {} /\ NoScan \notin Scans
    /\ Nobody \notin Workers /\ Dead \notin Workers /\ Nobody # Dead

VARIABLES
    rows,    \* the ReceiptScan rows, and how many expense records name them
    store,   \* the images of each scan still in the object store
    jobs,    \* the ReceiptPurgeJob rows, in the order they were created
    worker,  \* what each purge worker process is doing
    faults   \* how many faults have happened

purgeVars == <<rows, store, jobs, worker, faults>>

JobIds == 1..MaxJobs
Modes == {"DELETE_SCAN", "DETACH_EVIDENCE"}
ActiveStatus == {"PENDING", "PROCESSING", "RETRY"}
Terminal == {"COMPLETE", "FAILED"}

\* `requested' is evidenceDeletionRequestedAt, `erased' is evidenceDeletedAt.
RowState ==
    [status : {"Pending", "Confirmed", "Deletion Pending", "Gone"},
     requested : BOOLEAN, erased : BOOLEAN, records : 0..MaxRecords]

\* `expected' and `deleted' are the images that storageObjectsExpected and
\* storageObjectsDeleted count; `origin' is the kind of the request key.
JobState ==
    [of : Scans \cup {NoScan}, mode : Modes,
     origin : {"owner", "orphan", "abandoned", "redrive"},
     status : {"UNUSED", "EXPIRED"} \cup ActiveStatus \cup Terminal,
     stage : {"STORAGE", "DATABASE", "COMPLETE"}, attempt : 0..MaxAttempts,
     checkpoint : Nat, expected : SUBSET Objects, deleted : SUBSET Objects,
     worker : Workers \cup {Nobody, Dead},
     due : BOOLEAN, stale : BOOLEAN, quiet : BOOLEAN, expired : BOOLEAN]

Attempting == {"claimed", "erasing", "failing"}

\* `todo' are the images the process has not deleted yet, `page' the page it is
\* at, `scan' the one whose evidence it has just detached.
PurgeWorkerState ==
    [pc : {"idle", "claiming", "orphaning"} \cup Attempting, job : 0..MaxJobs,
     attempt : 0..MaxAttempts, stage : {"STORAGE", "DATABASE"},
     todo : SUBSET Objects, page : Nat, scan : Scans \cup {NoScan}]

PurgeTypeOK ==
    /\ rows \in [Scans -> RowState]
    /\ store \in [Scans -> SUBSET Objects]
    /\ jobs \in [JobIds -> JobState]
    /\ worker \in [Workers -> PurgeWorkerState]
    /\ faults \in 0..MaxFaults

-----------------------------------------------------------------------------
UnusedJob ==
    [of |-> NoScan, mode |-> "DELETE_SCAN", origin |-> "owner", status |-> "UNUSED",
     stage |-> "STORAGE", attempt |-> 0, checkpoint |-> 0, expected |-> {},
     deleted |-> {}, worker |-> Nobody, due |-> TRUE, stale |-> FALSE,
     quiet |-> FALSE, expired |-> FALSE]

IdlePurger ==
    [pc |-> "idle", job |-> 0, attempt |-> 0, stage |-> "STORAGE",
     todo |-> {}, page |-> 0, scan |-> NoScan]

PurgeInit ==
    /\ rows = [s \in Scans |-> [status |-> "Pending", requested |-> FALSE,
                                erased |-> FALSE, records |-> 0]]
    /\ store = [s \in Scans |-> Objects]
    /\ jobs = [j \in JobIds |-> UnusedJob]
    /\ worker = [w \in Workers |-> IdlePurger]
    /\ faults = 0

\* artifactGroups: the images the rows still name, whether or not they exist.
Artifacts(s) == IF rows[s].erased THEN {} ELSE Objects

UpTo(objects, page) == {o \in objects : PageOf[o] <= page}

Active(j) == jobs[j].status \in ActiveStatus
JobsOf(s) == {j \in JobIds : jobs[j].of = s}
InPurge(s) == \E j \in JobsOf(s) : Active(j)

SetJob(j, job) == jobs' = [jobs EXCEPT ![j] = job]
SetRow(s, row) == rows' = [rows EXCEPT ![s] = row]
Become(w, state) == worker' = [worker EXCEPT ![w] = state]
Fault == faults < MaxFaults /\ faults' = faults + 1

\* Deleting the row sets receiptScanId of its jobs to null.
Unlinked(s) ==
    [j \in JobIds |-> IF jobs[j].of = s THEN [jobs[j] EXCEPT !.of = NoScan] ELSE jobs[j]]

\* A request creates the job and marks the row it holds locked; `row' is what
\* the transaction has made of that row so far.
Schedule(s, row, mode, origin) ==
    \E j \in JobIds :
        /\ jobs[j].status = "UNUSED" /\ \A i \in 1..(j - 1) : jobs[i].status # "UNUSED"
        /\ SetJob(j, [UnusedJob EXCEPT !.of = s, !.mode = mode, !.origin = origin,
                        !.status = "PENDING",
                        !.expected = IF row.erased THEN {} ELSE Objects])
        /\ SetRow(s, [row EXCEPT !.requested = TRUE,
                        !.status = IF mode = "DELETE_SCAN" THEN "Deletion Pending" ELSE @])

-----------------------------------------------------------------------------
(* The owner and the sweeps.                                               *)

\* confirmReceipt, as far as it matters here: one expense record per split.
Confirm(s, n) ==
    /\ rows[s].status = "Pending" /\ ~rows[s].requested
    /\ \A j \in JobsOf(s) : jobs[j].mode # "DELETE_SCAN"
    /\ SetRow(s, [rows[s] EXCEPT !.status = "Confirmed", !.records = n])
    /\ UNCHANGED <<store, jobs, worker, faults>>

\* enqueueOwnedPurge with a new key; the same key again returns the job it
\* already has, and changes nothing.
RequestPurge(s, mode) ==
    /\ ~InPurge(s)
    /\ \/ /\ mode = "DELETE_SCAN"
          /\ rows[s].status \in {"Pending", "Deletion Pending"}
          /\ rows[s].records = 0
       \/ /\ mode = "DETACH_EVIDENCE"
          /\ rows[s].status = "Confirmed" /\ ~rows[s].erased
    /\ Schedule(s, rows[s], mode, "owner")
    /\ UNCHANGED <<store, worker, faults>>

\* Slip: the records are not counted again.
OrphanedByAnyDeletion(s, row) == row.status = "Confirmed" /\ ~InPurge(s)

Orphaned(s, row) == row.status = "Confirmed" /\ row.records = 0 /\ ~InPurge(s)

\* enqueueReceiptPurgeIfOrphaned: nothing to do, a row without evidence goes at
\* once, any other is handed to a DELETE_SCAN job.
PurgeIfOrphaned(s, row) ==
    \/ /\ Orphaned(s, row) =>
             ~row.erased /\ \E j \in JobsOf(s) : jobs[j].origin = "orphan"
       /\ SetRow(s, row)
       /\ UNCHANGED jobs
    \/ /\ Orphaned(s, row) /\ row.erased
       /\ SetRow(s, [row EXCEPT !.status = "Gone"])
       /\ jobs' = Unlinked(s)
    \/ /\ Orphaned(s, row) /\ ~row.erased
       /\ \A j \in JobsOf(s) : jobs[j].origin # "orphan"
       /\ Schedule(s, row, "DELETE_SCAN", "orphan")

DeleteRecord(s) ==
    /\ rows[s].records > 0
    /\ PurgeIfOrphaned(s, [rows[s] EXCEPT !.records = @ - 1])
    /\ UNCHANGED <<store, worker, faults>>

\* enqueueAbandonedReceiptPurge; how quiet the draft is, ReceiptScan says.
SweepAbandoned(s) ==
    /\ rows[s].status = "Pending" /\ ~rows[s].requested
    /\ ~InPurge(s)
    /\ rows[s].records = 0
    /\ Schedule(s, rows[s], "DELETE_SCAN", "abandoned")
    /\ UNCHANGED <<store, worker, faults>>

\* Slip: any burned-out job of the scan will do.
BurnedOutAnyJob(s, j) ==
    /\ rows[s].status = "Deletion Pending"
    /\ j \in JobsOf(s)
    /\ jobs[j].mode = "DELETE_SCAN" /\ jobs[j].status = "FAILED" /\ jobs[j].quiet

\* The scan's latest job is a DELETE_SCAN that failed a cooldown ago.
BurnedOut(s, j) ==
    /\ rows[s].status = "Deletion Pending"
    /\ j \in JobsOf(s) /\ \A i \in JobsOf(s) : i <= j
    /\ jobs[j].mode = "DELETE_SCAN" /\ jobs[j].status = "FAILED" /\ jobs[j].quiet

\* redriveStrandedReceiptPurge.
Redrive(s) ==
    /\ \E j \in JobIds : BurnedOut(s, j)
    /\ Schedule(s, rows[s], "DELETE_SCAN", "redrive")
    /\ UNCHANGED <<store, worker, faults>>

-----------------------------------------------------------------------------
(* The worker: runReceiptPurgeWorkerOnce.                                  *)

\* Slip: age alone retires a result.
RetirableByAge(j) == jobs[j].expired /\ jobs[j].status \in Terminal

\* deleteExpiredTerminalPurgeResults: a failed job goes only once what it owed
\* has been done by another.
Retirable(j) ==
    /\ jobs[j].expired
    /\ \/ jobs[j].status = "COMPLETE"
       \/ /\ jobs[j].status = "FAILED"
          /\ \/ jobs[j].of = NoScan
             \/ jobs[j].mode = "DETACH_EVIDENCE" /\ rows[jobs[j].of].erased

\* Slip: an attempt that is still leased is left to its worker.
SpentIfReleased(j) ==
    jobs[j].attempt >= MaxAttempts /\ jobs[j].status \in {"PENDING", "RETRY"}

\* exhaustedActivePurgeWhere.
Spent(j) ==
    /\ jobs[j].attempt >= MaxAttempts
    /\ \/ jobs[j].status \in {"PENDING", "RETRY"}
       \/ jobs[j].status = "PROCESSING" /\ jobs[j].stale

\* The pass begins with both clean-up statements, over every job.
TidyJobs(w) ==
    /\ worker[w].pc = "idle"
    /\ jobs' = [j \in JobIds |->
                  IF Retirable(j) THEN [UnusedJob EXCEPT !.status = "EXPIRED"]
                  ELSE IF Spent(j)
                  THEN [jobs[j] EXCEPT !.status = "FAILED", !.worker = Nobody, !.stale = FALSE]
                  ELSE jobs[j]]
    /\ Become(w, [worker[w] EXCEPT !.pc = "claiming"])
    /\ UNCHANGED <<rows, store, faults>>

\* Slip: a dead attempt is taken over however many there were.
PurgeableWithoutCeiling(j) ==
    \/ jobs[j].status \in {"PENDING", "RETRY"} /\ jobs[j].due
    \/ jobs[j].status = "PROCESSING" /\ jobs[j].stale

Purgeable(j) ==
    /\ jobs[j].attempt < MaxAttempts
    /\ \/ jobs[j].status \in {"PENDING", "RETRY"} /\ jobs[j].due
       \/ jobs[j].status = "PROCESSING" /\ jobs[j].stale

\* claimPurge: one UPDATE picks a row, counts the attempt and returns it.
ClaimPurge(w, j, answered) ==
    /\ worker[w].pc = "claiming"
    /\ Purgeable(j)
    /\ SetJob(j, [jobs[j] EXCEPT !.status = "PROCESSING", !.attempt = @ + 1,
                                 !.worker = w, !.stale = FALSE])
    /\ IF answered
       THEN /\ Become(w, [IdlePurger EXCEPT !.pc = "claimed", !.job = j,
                            !.attempt = jobs[j].attempt + 1, !.stage = jobs[j].stage])
            /\ UNCHANGED faults
       ELSE Become(w, IdlePurger) /\ Fault
    /\ UNCHANGED <<rows, store>>

NothingToPurge(w) ==
    /\ worker[w].pc = "claiming"
    /\ \A j \in JobIds : ~Purgeable(j)
    /\ Become(w, IdlePurger)
    /\ UNCHANGED <<rows, store, jobs, faults>>

\* The WHERE clause of every write of an attempt.
Leased(w) ==
    LET j == worker[w].job IN
    /\ jobs[j].status = "PROCESSING" /\ jobs[j].stage = worker[w].stage
    /\ jobs[j].worker = w /\ jobs[j].attempt = worker[w].attempt

HeartbeatPurge(w) ==
    /\ worker[w].pc \in Attempting
    /\ Leased(w)
    /\ SetJob(worker[w].job, [jobs[worker[w].job] EXCEPT !.stale = FALSE])
    /\ UNCHANGED <<rows, store, worker, faults>>

\* The first page of `todo', as a set of one; page 0 is the end of the loop.
FirstPage(todo) ==
    IF todo = {} THEN {0}
    ELSE {PageOf[o] : o \in {a \in todo : \A b \in todo : PageOf[a] <= PageOf[b]}}

\* The state of a process that goes on to `page' of `todo'.
Erasing(w, todo, page) ==
    [worker[w] EXCEPT !.pc = "erasing", !.todo = todo, !.page = page]

\* processStorageStage, down to its loop: job and scan are read once, and the
\* job's counts must still describe the scan.
ReadTarget(w) ==
    LET job == jobs[worker[w].job] IN
    /\ worker[w].pc = "claimed" /\ worker[w].stage = "STORAGE"
    /\ IF /\ job.of # NoScan
          /\ Artifacts(job.of) = job.expected
          /\ UpTo(job.expected, job.checkpoint) = job.deleted
       THEN LET todo == job.expected \ UpTo(job.expected, job.checkpoint) IN
            \E page \in FirstPage(todo) :
               Become(w, [Erasing(w, todo, page) EXCEPT !.scan = job.of])
       ELSE Become(w, [worker[w] EXCEPT !.pc = "failing"])
    /\ UNCHANGED <<rows, store, jobs, faults>>

\* Slip: the answer of the store is not looked at.
DeleteImageUnchecked(w, o) ==
    /\ worker[w].pc = "erasing"
    /\ o \in worker[w].todo /\ PageOf[o] = worker[w].page
    /\ \E done \in {{}, {o}} : store' = [store EXCEPT ![worker[w].scan] = @ \ done]
    /\ Become(w, [worker[w] EXCEPT !.todo = @ \ {o}])
    /\ UNCHANGED <<rows, jobs, faults>>

\* deleteReceiptImage; deleting an image that is already gone succeeds.
DeleteImage(w, o) ==
    /\ worker[w].pc = "erasing"
    /\ o \in worker[w].todo /\ PageOf[o] = worker[w].page
    /\ store' = [store EXCEPT ![worker[w].scan] = @ \ {o}]
    /\ Become(w, [worker[w] EXCEPT !.todo = @ \ {o}])
    /\ UNCHANGED <<rows, jobs, faults>>

\* Slip: the page is checkpointed before its images are gone.
PageDoneEarly(w) == worker[w].page # 0

PageDone(w) ==
    worker[w].page # 0 /\ \A o \in worker[w].todo : PageOf[o] # worker[w].page

\* What follows a write that did or did not find its row, and was or was not
\* answered.
After(w, answered, state) ==
    IF answered
    THEN Become(w, IF Leased(w) THEN state ELSE IdlePurger) /\ UNCHANGED faults
    ELSE Become(w, [worker[w] EXCEPT !.pc = "failing"]) /\ Fault

CheckpointPage(w, answered) ==
    LET j == worker[w].job
        todo == {o \in worker[w].todo : PageOf[o] > worker[w].page} IN
    /\ worker[w].pc = "erasing" /\ PageDone(w)
    /\ IF Leased(w)
       THEN SetJob(j, [jobs[j] EXCEPT !.checkpoint = worker[w].page, !.stale = FALSE,
                                      !.deleted = UpTo(jobs[j].expected, worker[w].page)])
       ELSE UNCHANGED jobs
    /\ \E page \in FirstPage(todo) : After(w, answered, Erasing(w, todo, page))
    /\ UNCHANGED <<rows, store>>

\* The storage stage is done: the job is released to its database stage, with
\* attempts of its own.
AdvanceStage(w, answered) ==
    LET j == worker[w].job IN
    /\ worker[w].pc = "erasing" /\ worker[w].page = 0
    /\ IF Leased(w)
       THEN SetJob(j, [jobs[j] EXCEPT !.status = "PENDING", !.stage = "DATABASE",
                                      !.deleted = jobs[j].expected, !.attempt = 0,
                                      !.worker = Nobody, !.stale = FALSE, !.due = TRUE])
       ELSE UNCHANGED jobs
    /\ After(w, answered, IdlePurger)
    /\ UNCHANGED <<rows, store>>

Completed(job) ==
    [job EXCEPT !.status = "COMPLETE", !.stage = "COMPLETE", !.worker = Nobody, !.stale = FALSE]

\* processDatabaseStage may go on, with the job row locked.
Removable(job) ==
    /\ job.deleted = job.expected
    /\ job.of # NoScan => rows[job.of].requested
    /\ (job.of # NoScan /\ job.mode = "DELETE_SCAN") =>
          rows[job.of].status = "Deletion Pending" /\ rows[job.of].records = 0
    /\ (job.of # NoScan /\ job.mode = "DETACH_EVIDENCE") => rows[job.of].status = "Confirmed"

RemoveTarget(w, answered) ==
    LET j == worker[w].job
        job == jobs[j]
        s == job.of IN
    /\ worker[w].pc = "claimed" /\ worker[w].stage = "DATABASE"
    /\ Leased(w) /\ Removable(job)
    /\ IF s = NoScan THEN SetJob(j, Completed(job)) /\ UNCHANGED rows
       ELSE IF job.mode = "DELETE_SCAN"
       THEN /\ jobs' = [Unlinked(s) EXCEPT ![j] = [Completed(job) EXCEPT !.of = NoScan]]
            /\ SetRow(s, [rows[s] EXCEPT !.status = "Gone"])
       ELSE /\ SetJob(j, Completed(job))
            /\ SetRow(s, [rows[s] EXCEPT !.erased = TRUE])
    /\ After(w, answered, IF s # NoScan /\ job.mode = "DETACH_EVIDENCE"
                          THEN [IdlePurger EXCEPT !.pc = "orphaning", !.scan = s]
                          ELSE IdlePurger)
    /\ UNCHANGED store

\* The database stage is refused: the lease is gone, or the target changed.
RefuseTarget(w) ==
    /\ worker[w].pc = "claimed" /\ worker[w].stage = "DATABASE"
    /\ ~(Leased(w) /\ Removable(jobs[worker[w].job]))
    /\ Become(w, IF Leased(w) THEN [worker[w] EXCEPT !.pc = "failing"] ELSE IdlePurger)
    /\ UNCHANGED <<rows, store, jobs, faults>>

\* After a detach committed: the records may have gone while it was running.
PurgeDetachedOrphan(w) ==
    LET s == worker[w].scan IN
    /\ worker[w].pc = "orphaning"
    /\ IF rows[s].status = "Gone" THEN UNCHANGED <<rows, jobs>>
                                  ELSE PurgeIfOrphaned(s, rows[s])
    /\ Become(w, IdlePurger)
    /\ UNCHANGED <<store, faults>>

\* Any call of the attempt fails (the store, the database, an unsafe path).
CallFails(w) ==
    /\ worker[w].pc \in {"claimed", "erasing", "orphaning"}
    /\ Become(w, IF worker[w].pc = "orphaning" THEN IdlePurger
                 ELSE [worker[w] EXCEPT !.pc = "failing"])
    /\ Fault
    /\ UNCHANGED <<rows, store, jobs>>

\* Slip: the failure is written by job id.
RecordFailureById(w) ==
    LET j == worker[w].job IN
    /\ worker[w].pc = "failing"
    /\ SetJob(j, [jobs[j] EXCEPT
                    !.status = IF worker[w].attempt >= MaxAttempts THEN "FAILED" ELSE "RETRY",
                    !.worker = Nobody, !.stale = FALSE, !.due = FALSE])
    /\ Become(w, IdlePurger)
    /\ UNCHANGED <<rows, store, faults>>

\* recordFailure; this WHERE clause does not name the stage.
RecordPurgeFailure(w) ==
    LET j == worker[w].job IN
    /\ worker[w].pc = "failing"
    /\ IF /\ jobs[j].status = "PROCESSING"
          /\ jobs[j].worker = w /\ jobs[j].attempt = worker[w].attempt
       THEN SetJob(j, [jobs[j] EXCEPT
                         !.status = IF worker[w].attempt >= MaxAttempts THEN "FAILED" ELSE "RETRY",
                         !.worker = Nobody, !.stale = FALSE, !.due = FALSE])
       ELSE UNCHANGED jobs
    /\ Become(w, IdlePurger)
    /\ UNCHANGED <<rows, store, faults>>

\* The process dies and is started again under a new id.
CrashPurger(w) ==
    /\ worker[w].pc # "idle"
    /\ Become(w, IdlePurger)
    /\ jobs' = [j \in JobIds |-> IF jobs[j].worker = w
                                 THEN [jobs[j] EXCEPT !.worker = Dead] ELSE jobs[j]]
    /\ Fault
    /\ UNCHANGED <<rows, store>>

-----------------------------------------------------------------------------
(* The clock.                                                              *)

LeaseAttended(j) == \E w \in Workers : worker[w].pc \in Attempting /\ worker[w].job = j /\ Leased(w)

\* The lease of a process that still runs expires only if the process stalls.
PurgeLeaseExpires(j) ==
    /\ jobs[j].status = "PROCESSING" /\ ~jobs[j].stale
    /\ IF LeaseAttended(j) THEN Fault ELSE UNCHANGED faults
    /\ SetJob(j, [jobs[j] EXCEPT !.stale = TRUE])
    /\ UNCHANGED <<rows, store, worker>>

RetryFallsDue(j) ==
    /\ jobs[j].status = "RETRY" /\ ~jobs[j].due
    /\ SetJob(j, [jobs[j] EXCEPT !.due = TRUE])
    /\ UNCHANGED <<rows, store, worker, faults>>

CooldownEnds(j) ==
    /\ jobs[j].status = "FAILED" /\ ~jobs[j].quiet
    /\ SetJob(j, [jobs[j] EXCEPT !.quiet = TRUE])
    /\ UNCHANGED <<rows, store, worker, faults>>

ResultExpires(j) ==
    /\ jobs[j].status \in Terminal /\ ~jobs[j].expired
    /\ SetJob(j, [jobs[j] EXCEPT !.expired = TRUE])
    /\ UNCHANGED <<rows, store, worker, faults>>

-----------------------------------------------------------------------------
StorageStep(w) ==
    \/ ReadTarget(w)
    \/ \E o \in Objects : DeleteImage(w, o)
    \/ \E answered \in BOOLEAN : CheckpointPage(w, answered) \/ AdvanceStage(w, answered)

DatabaseStep(w) ==
    \/ \E answered \in BOOLEAN : RemoveTarget(w, answered)
    \/ RefuseTarget(w)
    \/ PurgeDetachedOrphan(w)

PurgerNext(w) ==
    \/ TidyJobs(w)
    \/ \E j \in JobIds, answered \in BOOLEAN : ClaimPurge(w, j, answered)
    \/ NothingToPurge(w)
    \/ HeartbeatPurge(w)
    \/ StorageStep(w)
    \/ DatabaseStep(w)
    \/ CallFails(w)
    \/ RecordPurgeFailure(w)
    \/ CrashPurger(w)

RequestNext ==
    \/ \E s \in Scans, n \in 1..MaxRecords : Confirm(s, n)
    \/ \E s \in Scans, mode \in Modes : RequestPurge(s, mode)
    \/ \E s \in Scans : DeleteRecord(s) \/ SweepAbandoned(s) \/ Redrive(s)

PurgeTick ==
    \E j \in JobIds :
        PurgeLeaseExpires(j) \/ RetryFallsDue(j) \/ CooldownEnds(j) \/ ResultExpires(j)

PurgeNext ==
    \/ \E w \in Workers : PurgerNext(w)
    \/ RequestNext
    \/ PurgeTick

PurgeSpec == PurgeInit /\ [][PurgeNext]_purgeVars

\* The maintenance lane passes over the jobs for ever and the sweep runs every
\* hour; claims go by nextAttemptAt, so no job is passed over for ever.  Faults
\* are finitely many by their bound; nothing is assumed of the owner.
PurgeFairness ==
    /\ \A w \in Workers :
          /\ WF_purgeVars(TidyJobs(w))
          /\ WF_purgeVars(NothingToPurge(w))
          /\ WF_purgeVars(StorageStep(w))
          /\ WF_purgeVars(DatabaseStep(w))
          /\ WF_purgeVars(RecordPurgeFailure(w))
    /\ \A j \in JobIds :
          /\ SF_purgeVars(\E w \in Workers : ClaimPurge(w, j, TRUE))
          /\ WF_purgeVars(~LeaseAttended(j) /\ PurgeLeaseExpires(j))
          /\ WF_purgeVars(RetryFallsDue(j))
          /\ WF_purgeVars(CooldownEnds(j))
    /\ \A s \in Scans : WF_purgeVars(Redrive(s))

FairPurgeSpec == PurgeSpec /\ PurgeFairness

-----------------------------------------------------------------------------
(* What must hold.                                                         *)

\* Work on one scan is serialised: at no time are two jobs of it active, though
\* four paths create jobs and only row locks keep them apart.
OneJobAtATime ==
    \A s \in Scans : \A i, j \in JobsOf(s) : Active(i) /\ Active(j) => i = j

\* Evidence leaves before the rows that name it: when the row is gone or says
\* its evidence is, no image is left behind unreachable; and a checkpoint, which
\* a later attempt trusts, never runs ahead of the store.
EvidenceGoesFirst ==
    /\ \A s \in Scans :
          (rows[s].status = "Gone" \/ rows[s].erased) => store[s] = {}
    /\ \A j \in JobIds :
          (Active(j) /\ jobs[j].of # NoScan) =>
             /\ jobs[j].deleted \cap store[jobs[j].of] = {}
             /\ UpTo(jobs[j].expected, jobs[j].checkpoint) \subseteq jobs[j].deleted
             /\ jobs[j].stage = "DATABASE" => store[jobs[j].of] = {}

\* A scan the owner no longer sees is always some job's obligation: one is at
\* work on it, or a failed one keeps it on the re-drive and in readiness, and no
\* result expires before its obligation is met.
ObligationIsKept ==
    \A s \in Scans :
        rows[s].status = "Deletion Pending" =>
            \E j \in JobsOf(s) : jobs[j].mode = "DELETE_SCAN" /\ (Active(j) \/ jobs[j].status = "FAILED")

\* A receipt in the books is never condemned: while records name it, its row
\* stays Confirmed, whatever jobs, sweeps and late workers do.
BooksKeepTheirReceipt ==
    \A s \in Scans : rows[s].records > 0 => rows[s].status = "Confirmed"

\* A job that ended stays as it ended, with its checkpoint and its attempts, until
\* it expires: no late worker, redrive or request resumes it (the lease fields in
\* the WHERE of every write of a pass).
TerminalIsFinal ==
    [][\A j \in JobIds :
          jobs[j].status \in Terminal =>
             \/ jobs'[j].status = "EXPIRED"
             \/ /\ jobs'[j].status = jobs[j].status
                /\ jobs'[j].checkpoint = jobs[j].checkpoint
                /\ jobs'[j].attempt = jobs[j].attempt]_purgeVars

\* A deletion that was accepted is carried out: through crashes at any point,
\* failing calls, burned-out jobs and the stage change.
DeletionEnds ==
    \A s \in Scans : rows[s].status = "Deletion Pending" ~> rows[s].status = "Gone"

\* sourceCleanup.ts:18-19 promises that the file goes when the last record that
\* came from it goes.
FileGoesWithLastRecord ==
    \A s \in Scans :
        (rows[s].status = "Confirmed" /\ rows[s].records = 0) ~> store[s] = {}

Fate(s) ==
    CASE rows[s].status = "Gone" -> "gone"
      [] rows[s].status = "Deletion Pending" -> "condemned"
      [] rows[s].requested /\ rows[s].status = "Confirmed" -> "detaching"
      [] OTHER -> "held"

Erasure == INSTANCE ReceiptErasure WITH
    Receipts <- Scans,
    Images <- Objects,
    fate <- [s \in Scans |-> Fate(s)],
    image <- store

\* Jobs, stages and leases implement the erasure ReceiptErasure promises.
ImplementsErasure == Erasure!ErasureSpec
=============================================================================
