# FinSight: a TLA+ model of the backend

FinSight is a bookkeeping service for small businesses: an Express and Prisma
backend over PostgreSQL and an object store, worker processes that share the
database, a web and a mobile client, and a Python service for anomaly models.
These modules model the parts of the backend whose correctness depends on the
order in which requests, workers, crashes and clocks happen to act on shared
rows. They are translated from the code under `src/backend/src`.

## 1. Inventory

`PROJECT.json` lists every component with its files and status. The ones with
state and control of their own:

| Component | State | Operations | Hard behaviour | What makes it correct |
|---|---|---|---|---|
| Receipt scan queue (`services/receiptScan/`) | the `ReceiptScan` row, which is its own job; its items; expense records | upload, view, claim, heartbeat, read, persist, defer, fail, retry, edit, confirm | many workers, expired leases, zombies, lost answers, crashes, two owner sessions | one live attempt per scan, no late write, booked once and as reviewed, every read ends |
| Receipt purge (`receiptPurge.service.ts`) | purge jobs with stage, checkpoint and lease; storage objects; the scan row | request, replay, claim, storage stage, database stage, failure, orphan hand-over, redrive, expiry | store and database commit separately, crashes between them, retries, owner re-requests | no row deleted before its objects, one active job, no obligation lost, records never lose their scan |
| Capture batch (`receiptCaptureBatch.service.ts`) | batch status derived from its scans | create, fill a slot, refresh, cancel | derived status under concurrent scan changes | status equals its definition, a cancelled batch stays cancelled, one scan per slot |
| Provider dispatch (`receiptProviderDispatch.service.ts`) | dispatch reservations, daily usage, consent, cooldown | reserve, send, store the answer, replay, reconcile stale, cancel on withdrawal | paid calls, ambiguous outcomes, lease loss, consent withdrawn in flight | never charged twice under one reservation key, no call without consent, budget respected |
| CSV import and source purge (`csvImport.service.ts`, `csvSourcePurge.service.ts`) | the batch row with lease and checkpoint, the stored file, two kinds of purge job | stage, confirm, import, claim, chunk, defer, complete, fail, sweep, discard, purge | chunks interrupted by crashes, a PUT that lands late, lost answers, discarding while importing | rows booked once and in order, every stored file named, no file purged while named, every import ends |
| Account deletion (`accountDeletion.service.ts`) | deletion columns of the User row: stage, lease, plan, checkpoint | request, settle, plan, remove, verify, delete identity, delete rows, fail | database, store and identity service commit separately; uploads under way when it is asked for | files before rows, identity before rows, checkpoint never skips a stored file, it ends or is reported stalled |
| Anomaly jobs (`anomalyDetection/job.service.ts`) | coalesced job rows with leases | enqueue, claim, heartbeat, finish | mutation while a job runs | the last mutation is analysed |
| Worker lanes (`worker.ts`, `lib/workerLaneScheduler.ts`) | passes in flight, stop flag | start, pass, drain, force | shutdown while jobs run | passes of a lane never overlap |
| Rate limits (`rateLimit.middleware.ts`) | shared counters, local fallback | take, expire | store outage, concurrent takes | limit respected |
| Records (`lib/manualRecordCreate.ts`), chat sends (`lib/chatSendRequest.ts`), auth handoff (`lib/authHandoff.ts`) | idempotency keys, stored answers, single-use codes | create, replay, redeem | retry of what was already done | done once, answered the same |

How they interact: an upload creates a scan row (and fills a batch slot); the
worker process runs four lanes over the shared tables; a worker's read may call
the provider dispatch, which can defer the scan; confirming writes expense
records and links; deleting the last record of a scan, deleting a draft, and
the weekly abandonment sweep all schedule purge jobs on the same scan; a CSV
batch hands its file to the CSV purge queue when it fails, is discarded or grows
old; account deletion closes those queues, then removes files, identity and rows.
All of it meets in the database:
a row is changed by a conditional UPDATE whose WHERE clause is the guard.
Time-of-check guards outside a transaction are only advisory.

What is not modelled, and why, is in section 10.

## 2. Plan

In this order, the most important behaviour first. A run of TLC is spent on a
question and not on a module, so properties that share an instance share a run.

| # | Modules | Composes or refines | Questions | State |
|---|---|---|---|---|
| 1 | `ReceiptScan`, `ReceiptLifecycle`, `MCReceiptScan`, `ReceiptScanProofs`, `ReceiptLifecycleProofs` | `ReceiptScan` implements `ReceiptLifecycle` | fencing, booking, review, progress | checked, safety and refinement proved |
| 2 | `ReceiptPurge`, `ReceiptErasure`, `MCReceiptPurge`, `ReceiptPurgeProofs`, `ReceiptErasureProofs` | `ReceiptPurge` implements `ReceiptErasure` | evidence before rows, obligations, progress | checked, safety and refinement proved |
| 3 | `ReceiptProviderDispatch`, `ProviderLedger`, `MCReceiptProviderDispatch`, `ReceiptProviderDispatchProofs` | `ReceiptProviderDispatch` implements `ProviderLedger` | units, limits, bills, consent, decisions | checked, safety and refinement proved |
| 4 | `CsvImport`, `CsvLifecycle`, `MCCsvImport`, `CsvImportProofs`, `CsvFilesProofs` | `CsvImport` implements `CsvLifecycle`; import and purge queue share one module because they share the file | rows once, resume, named files, progress | checked, safety and refinement proved |
| 5 | `AccountDeletion`, `AccountErasure`, `MCAccountDeletion`, `AccountDeletionProofs` | composes the deletion with all of `CsvImport` and with a receipt upload; implements `AccountErasure` | nothing is left behind, checkpoint, progress | checked, safety and refinement proved |

Instances: one or two receipts, two workers, three attempts at most. What goes
wrong in this code takes two actors on one row and a third step (a retry, a
re-arm, a new month) that makes an old identity valid again; the bounds are
chosen so that each of these is reachable. What was planned and then left
out, and what could still be proved, is in section 10.

## 3. Conventions

* A module models database rows as functions from ids to records, processes and
  sessions as functions to records with a place `pc` or `at`. An action is one
  transaction or one conditional UPDATE of the code with everything it does; an
  action between two awaits keeps what was read in the process's record.
* Time is a set of flags. A column compared with the clock is a Boolean that
  says how the comparison comes out now; the environment raises it, a write of a
  fresh timestamp lowers it. Every order of deadlines is thereby allowed,
  more than the constants in the code would allow.
* `answered = FALSE` (`ReceiptScan`, `ReceiptPurge`) is a transaction that
  committed while its answer was lost; the code takes it for failed. In
  `CsvImport` such an action is the second disjunct of the failing one.
* A process that dies is started again under a new id
  (`hostname:pid:uuid`); rows it leased keep the old one, `Dead`.
* A comment that begins with "Slip" marks a variant of the next
  definition with a plausible mistake. No specification uses it; it shows that
  the property named for it in `PROJECT.json` would notice that mistake.

## 4. The receipt queue: `ReceiptScan`

`scan[s]` is the `ReceiptScan` row (processing and confirmation status,
`scanRevision`, `processingWorkerId`, `processingAttemptCount`, the flags `due`,
`stale`, `quiet`, the deletion columns as one flag `deleting`, the item list as
a model value). `books[s]` says how often a scan has been confirmed, with which
items, and whether expense records still name it. `worker[w]` is a receipt
worker and `client[c]` a signed-in session with what it last saw.

| Actions | Code |
|---|---|
| `FailExhaustedScans`, `FindCandidate`, `NoCandidate`, `Claim`, `ClaimMissed` | `runReceiptWorkerOnce`, `failExhaustedScans`, the two statements of `claimScan` |
| `Restore`, `RestoreFails`, `Heartbeat`, `AbandonAttempt`, `BeginPersist`, `Persist`, `Defer`, `ReadingFails`, `Crash` | `storedInput`, `processScan`, `heartbeatScan`, `persistReceiptProcessingOutput`, `deferUntilProviderReady`, `recordProcessingFailure` |
| `Upload`, `View`, `RetryScan`, `EditItems`, `ConfirmRead`, `ConfirmCommit`, `ConfirmRefused` | `queue.ts`, `reconciliation.ts` |
| `RequestDeletion`, `SweepAbandoned`, `DeleteRecords`, `EraseEvidence`, `DiscardOrphan` | the writes of `receiptPurge.service.ts` and `expenseRecord.service.ts` to a row that stays |

`superseded` in a worker is history: somebody else ended the attempt it believes
it runs. The attempt a worker goes on with is the count it read plus one, while
the UPDATE increments the stored count, as in the code. `RetryScan` is guarded by
what its UPDATE tests: the check for a deletion job before it is advisory, so a
draft that is being deleted is safe from a retry only because every request for
deletion also writes the confirmation status. `SettledIsFrozen` covers such drafts
by either mark.

**Runs**

* `scan_review`: one receipt, two workers, two sessions, two item lists, two
  attempts, two revisions. Enough for a zombie beside the current attempt, for
  a count that a retry resets, and for one session confirming what the other has
  edited. Checks the types, `LeaseIsFenced`, `RevisionPinsItems` (persisting
  writes items without advancing the revision, so this rests on who may persist
  when), `BookedOnceAsReviewed`, `SettledIsFrozen` and that the queue implements
  `ReceiptLifecycle`.
* `scan_progress`: fair; the code's three attempts. Checks `EveryReadSettles`
  and `NeglectedDraftsEnd` (a draft whose owner stays away is handed to deletion
  or confirmed by a request already under way).

**Fairness.** A lane re-arms its own timer after every pass
(`workerLaneScheduler.ts`), so the steps of a pass are weakly fair, a crashed
process being restarted. A candidate is the oldest due scan (`findFirst` ordered
by `nextProcessingAttemptAt`), so a scan that is claimable again and again is
taken: strong fairness of finding and of claiming it. Leases lapse when nobody
renews them, delays elapse, and the sweep runs every hour. No fairness is
assumed of owners, heartbeats, successful readings or crashes.

**Proved** (`ReceiptScanProofs`, for every set of scans, workers, sessions and
contents): `TypeCorrect`, `RevisionPinsItemsHolds`, `BookedOnceAsReviewedHolds`,
`LeaseIsFencedHolds`, `SettledIsFrozenHolds`. None of the invariants is
inductive alone. `IInv` adds what a row may be in each phase (only a row
in Processing is leased, a confirmed row is Complete, `deleting` and "Deletion
Pending" go together) and what a session may hold against the row (its revision
is never ahead of the row's, and a pinned confirmation under way quotes the
revision its session saw). `FenceInv` strengthens `LeaseIsFenced`: a superseded
attempt never meets its own worker id on the row. It is why re-issued attempt
numbers are harmless: a process runs one attempt at a time, so its id on a row
is its current attempt's.

`ReceiptLifecycleProofs` proves `ImplementsLifecycleHolds` from the same `IInv`:
every step leaves what the owner sees as it was (claims, heartbeats, delays,
views), moves one receipt along the lifecycle, or (the sweep of exhausted
attempts) gives several up. That a confirmation books for the first time is
`BookedOnceAsReviewed`; that a fenced write finds the receipt still being read is
the row invariant.

## 5. The purge: `ReceiptPurge`

`rows[s]` is the part of the scan row the purge reads, with the number of
expense records that name it; `store[s]` the images still in the object store;
`jobs[j]` the `ReceiptPurgeJob` rows in creation order; `worker[w]` a purge worker;
`faults` counts crashes, lost answers, failing calls and stalls.

| Actions | Code |
|---|---|
| `RequestPurge`, `DeleteRecord`, `SweepAbandoned`, `Redrive`, `Confirm` | `enqueueOwnedPurge`, `enqueueReceiptPurgeIfOrphaned`, `enqueueAbandonedReceiptPurge`, `redriveStrandedReceiptPurge`, the end of `confirmReceipt` |
| `TidyJobs`, `ClaimPurge`, `NothingToPurge`, `HeartbeatPurge` | `runReceiptPurgeWorkerOnce` with both clean-up statements, `claimPurge`, `heartbeatPurge` |
| `ReadTarget`, `DeleteImage`, `CheckpointPage`, `AdvanceStage` | `processStorageStage` |
| `RemoveTarget`, `RefuseTarget`, `PurgeDetachedOrphan` | `processDatabaseStage` and what follows it |
| `CallFails`, `RecordPurgeFailure`, `CrashPurger` | the catch of the pass, `recordFailure` |

**Runs**

* `purge_jobs`: fair; one receipt of three images on two pages, two workers,
  two attempts, three jobs, two records, two faults. A second page is what a
  checkpoint is for; a second job what a re-drive or a detach followed by an
  orphan needs; two faults spend both attempts of one job, so that a burned-out
  job and its re-drive are reached, and leave jobs that carry the deletion out:
  the bound on jobs is not what ends it. Checks `OneJobAtATime`,
  `EvidenceGoesFirst`, `ObligationIsKept`, `BooksKeepTheirReceipt`,
  `TerminalIsFinal`, `DeletionEnds` and that the jobs implement `ReceiptErasure`.
* `purge_last_record` (violation): `FileGoesWithLastRecord`, see section 9.

**Fairness.** As for the queue: the maintenance lane passes for ever, a claim
takes the job due longest, the re-drive sweep runs every hour. Faults are finite by
their bound: with a store that fails every call no deletion can end.

**Proved** (`ReceiptPurgeProofs`, for every constant allowed by
`PurgeAssumption`; the bounds on jobs, records and faults may be any number):
`PurgeTypes`, `OneJob`, `EvidenceFirst`, `Obligation`, `Books`, `Final`. The
inductive invariant `PInv` joins the types and the invariants with the order in
which job ids are used (`JobsShape`), that a scan's active job is its latest
(`LatestIsActive`), what erased rows and the checkpoints of all jobs, active or
not, say of the store (`RowEvidence`, `JobEvidence`), that only a scan somebody
asked to erase has jobs or loses evidence (`Asked`), and what a process in the
middle of an erasure knows: everything still stored is still on its list
(`WorkersOK`). Each action is
reduced to one of a few relations between the old and the new job row
(`Aged`, `SameEvidence`, `KeepsDebt`, `Kept`, together `Moved`), so that the invariant is shown
per relation rather than per field. `ReceiptErasureProofs` uses `PInv` to map
every step to a step of `ReceiptErasure` or a stutter (`Refinement`).

## 6. The paid provider: `ReceiptProviderDispatch`

`dispatch[k]` is the dispatch row of a reservation key, `ScanOf[k]` the receipt
the key is of; `reserved` and `used` are the monthly budget rows; `consent` the
profile's grants and which is open; `gate[g]` an attempt with the `Reservation`
object it holds in memory; `charged` what the provider really billed, which the code does not see.

The key hashes the receipt, the configuration, the selected images and the
reasons for the rescue (`receiptProviderDispatch.service.ts:1269-1284`). Under
always-routing every attempt of a receipt builds the same key. Under rescue
routing images and reasons come from the local reading, and an attempt in which
a page's OCR fails may bring another key than the attempt before it. So a
receipt has any number of rows here: a claim brings an attempt to the gate with
some key of the receipt, and what is promised of a bill is promised of a key.
A receipt may be billed once under each of its keys, for the same images too: an
attempt submits the original photographs and dies before it persists; on the last
attempt OCR fails on one page, which is kept as an unread original
(`worker.ts:552-573`), the reasons are others, and the photographs are submitted
again. `docs/COST-FIRST-CORE-FEATURES-IMPLEMENTATION-PLAN.md:390` would permit one
automatic submission per immutable input. What is sent under a key is not modelled,
so no run shows this.

`reserve` takes its clock reading before it looks the row up, so a reservation is
made in the month of the lookup, and the lease is judged as of then.

| Actions | Code |
|---|---|
| `ReadExisting`, `Refused`, `Reserve`, `ReserveRaced`, `ReserveFails` | `reserve` and the checks before it |
| `EvidenceFails`, `Submit`, `SubmitRaced`, `SubmitRefused`, `CancelReservation`, `CancelFails` | `dispatchReceiptProviderRescue` up to the call, `releaseOrConsume` of a cancelled outcome |
| `ProviderAnswers`, `CallTimesOut`, `AnswerIsInvalid`, `Settle`, `SettleFails`, `MarkAmbiguous` | the call, `invalidOutcome`, `ambiguousOutcome`, `releaseOrConsume`, `markFinalizationAmbiguous` |
| `ReconcileSubmission`, `ReconcileReservation` | `reconcileStaleReceiptProviderDispatches` |
| `GrantConsent`, `RevokeConsent`, `ConsentForReserve` | `receiptProviderConsent.service.ts` |

**Runs**

* `dispatch_books`: three keys of one receipt, two budgets and a limit that only
  two of them fit, three attempts, one month, automatic consent (`UnattendedSpec`:
  the owner neither grants nor revokes nor withdraws). Three attempts are two on
  one reservation and one that re-arms it, or three that reserve under a key each
  while the calls of the others are open. Rows of different receipts meet in the
  budgets only, as these do, and are less entangled, having leases of their own;
  `dispatch_ambiguous` has two receipts. Checks
  the types, `BooksBalance`, `NothingIsStuck` (every outstanding reservation can
  be released, so no settlement rolls back and the reconciler does not throw),
  `WithinLimit`, `SpendIsCovered` (what is billed never exceeds what the budget
  counts) and `PaidOnce` (what a key stands for is billed once).
* `dispatch_consent`: fair, one key of one receipt, two attempts, two grants, two
  months.
  Checks `SentUnderItsConsent`, `RevocationStands`, `UnitsAreAccounted` (over all
  months together a budget counts what its rows account for),
  `OnlyLateCancelsUnbalance`, that the dispatch implements `ProviderLedger`, and
  `EveryCallIsDecided`. With one key the cancellation that
  `OnlyLateCancelsUnbalance` excepts is never enabled, there being no other units
  to take; `dispatch_ambiguous` reaches it with two.
* `dispatch_ambiguous` (violation): a key of each of two receipts, three attempts,
  two months; `AmbiguousCounts`, see section 9.

`BooksBalance` and `NothingIsStuck` are statements about one billing month; over
a month's end they fail, which is the finding. The others hold over any number
of months.

**Fairness.** Every step of the gate has a timeout
(`receiptProviderGateTimeoutMs`), leases lapse, reservations grow stale, and
the receipt lane reconciles at the head of each pass (`worker.ts:67-75`). No
answer of the provider is assumed.

**Proved** (`ReceiptProviderDispatchProofs`, for every constant allowed by
`DispatchAssumption`): `DispatchTypesHold`, `PaidOnceHolds`,
`SentUnderItsConsentHolds`, `RevocationStandsHolds`, `WithinLimitHolds`,
`UnitsAreAccountedHolds`, `SpendIsCoveredHolds`, `OnlyLateCancelsUnbalanceHolds`,
`ImplementsLedgerHolds` and, for one month, `BooksBalanceHolds` and
`NothingIsStuckHolds`. The inductive invariant is built in layers.

* `DInv`. `TypeInv` adds to the types what an attempt holds at each place.
  `CallInv` says that of a key at most one call is under way, only while its
  row is SUBMITTED or AMBIGUOUS, and that a row which may still lead to a call
  has not been billed: from it `PaidOnce` follows, however often a cancelled row
  is re-armed. `ConsentInv` says that the open consent is the latest granted and
  that a row never names an older consent than an attempt sharing it. Most steps
  either leave the rows alone or only take an attempt back (`Quiet`); those that
  share, reserve, submit, bill and settle, and the owner's, are shown one by one.
* `CycleInv` says which attempts know the month of their row. Only the holder of
  the receipt's lease makes a reservation, so a holder that may submit knows it,
  and then so does whoever has a call under way; an attempt that cancels need
  not. That is why the books are unbalanced by a late cancellation and by
  nothing else. `BooksBalance` itself is shown by the number of outstanding
  rows: an action changes it and the reserved units of the same month together
  by one row's units, or neither.
* `AccountInv` joins `WithinLimit` with `UnitsAreAccounted`: a step changes what a
  budget has booked and what its rows account for by the same number of units,
  even when it takes them from the wrong month. Sums are `Total`, the number of
  single units, so that they change by a lemma about cardinalities and need no
  induction.
* `BillInv` follows a bill: a key is billed in one month at most, never more
  than `Units`, and a settled row or a decided answer is never below what the
  provider charged. With `AccountInv` it gives `SpendIsCovered` row by row.

The refinement follows from these layers (`LInv`): every step holds a key's
units, lets them go, sends, bills, settles or doubts one key, or leaves the
ledger alone. `Limit` is a constant here; the code may change a stored limit when
it reserves, but only to one that what is booked fits (`ensureBudget`).

## 7. The CSV import: `CsvImport`

`row[b]` is the `CSVImportBatch` row (`processingStatus`, whether it has a
`stageId`, lease, attempt, checkpoint, whether it names its file); `upload[b]` is
the request that stores the file of `b` and `run[r]` the import attempt of a
worker or of a request; `flight[b]` is a PUT the store may still apply,
`object[b]` the stored file; `records[b]` are the chunks in the books and
`landed[b]` the history of committed chunks; `job[b][k]` the purge jobs that name
the file, keyed by the batch (`own`) or by a random id (`detached`).

| Actions | Code |
|---|---|
| `ReserveStage`, `ReserveImport`, `PutIsAnswered`, `PutFails`, `FinishUpload`, `FinishIsRefused`, `FinishFails` | `stageCsvUpload`, `confirmImport` up to the published row |
| `CleanUp`, `CleanUpFails`, `PlantTombstone`, `DeleteUpload` | `failBatch`, `purgeStagedBatch`, `compensateCsvUploadAttempt`, `enqueueDetachedCsvSourcePurge` |
| `ConfirmStage`, `PurgeStage`, `SweepStalled`, `RetentionEnds`, `DiscardRecords` | `confirmStagedImport`, the stage's deletion and its sweep, `sweepStalledCsvImports`, `sweepRetainedCsvSources`, `enqueueCsvSourcePurgesIfOrphaned` |
| `Claim`, `Restore`, `RestoreFails`, `InsertChunk`, `InsertFails`, `LeaseIsLost`, `Complete`, `CompleteFails`, `Defer` | `claimImportBatch`, `runImportChunks`, `completeBatch`, `deferBatch` |
| `ClaimPurge`, `CheckReference`, `DeleteObject`, `DeleteObjectFails`, `SettlePurge`, `Exhaust`, `GraceEnds` | `csvSourcePurge.service.ts` |
| `PutLands`, `PutIsDropped`, `LeaseLapses`, `PurgeLeaseLapses`, `CrashWorker`, `CrashRequest`, `CrashPurger` | the store, the clock, the processes |

A chunk books one record: how many rows it has plays no part. Import and purge
queue are one module, since they meet in `object[b]` and `row[b].source`.

**Runs**

* `csv_import`: fair; one file of two chunks (so there is a checkpoint between
  them), two import workers beside the request, one purge worker, two attempts
  of an import and of a purge, two faults: one breaks an attempt off and the
  other meets its successor. Checks `CheckpointIsExact`, `FileIsNamed`,
  `PurgeSparesNamedFiles`, `ImportsEnd`, `UnnamedFilesGo`, and that the import
  implements `CsvLifecycle`. Batches share nothing but the limit on outstanding
  ones, so one is enough.
* `csv_upload`, `csv_discard` (violations): `QueuedFileIsKept`,
  `ConfirmedImportStays`, see section 9.

**Fairness.** The import and purge lanes run on timers; a request runs until it
ends; the store answers or drops a PUT (its client has timeouts); leases and
graces run out; the sweeps of stages, stalled batches and expired sources are
hourly. Nothing is assumed of the owner, and errors and crashes are finite by
`MaxFaults`.

**Timing taken from the constants of the code.** A PUT in flight is over before
the grace of a tombstone (`GraceEnds`), before the claim of the last attempt
(`Claim`), before the stalled sweep (`SweepStalled`) and before the account's
settling time (`AccountDeletion!Settle`): each of those waits is longer than the
two bounded attempts of an upload. No other order of deadlines is assumed.

**Proved** (`CsvImportProofs`, for every constant allowed by `CsvAssumption`):
`CsvTypeOKHolds`, `CheckpointIsExactHolds`, `PurgeSparesNamedFilesHolds` and
`ImplementsLifecycleHolds`. The checkpoint is not inductive: the writer of a
chunk takes its number from what it read when it leased the row. `IInv` adds
that whoever holds a batch's lease goes on where its checkpoint stands
(`Resumes`), that a request which imports its own file is at work on it from the
upload on (`StoresFirst`), so that its row is of its own attempt when it starts
to book, that nothing is booked of a batch that was never reserved and nobody
knows of it (`Unknown`), that who is at work is at work on a batch (`Bound`), and
that what a purge worker found when it checked is still so (`Checked`), since no
action names a file again. The refinement follows step by
step from `CheckpointIsExact`, the checkpoint being the length of the abstract
sequence.

`CsvFilesProofs` shows `FileIsNamedHolds`. `FilesInv` follows a file from its PUT
to its purge. While a PUT may still be applied (`Airborne`) nothing of the batch is
booked, its attempts are not spent, and either the row names the file or a purge
job waits out the grace of an upload; such a job is untouched until the PUT is over
(`Graces`); an attempt that books, or that purges, comes after the PUT (`RunFlow`,
`PurgeFlow`). So a purge never completes over a file that is yet to land. `Ebb`
states, for the account deletion, what no step does once the account is closed:
begin a PUT, name a file again, or stop waiting for a PUT that is under way.

## 8. Account deletion: `AccountDeletion`

The module extends `CsvImport` with the deletion columns of the `User` row
(`user`: stage, lease, attempts, the plan and how much of it is cleared), the
auth `identity`, `deleter[d]`, an attempt of the deletion lane, and one receipt
upload (`request`, `images`, `scan`). Every step of `CsvImport` is taken
`Beside` the deletion: a tombstone planted for an account that is being deleted
takes the deletion back to its storage stage.

| Actions | Code |
|---|---|
| `RequestDeletion`, `ClaimDeletion`, `WaitToSettle` | `deleteAccount`, the claim of `runAccountDeletionWorkerOnce`, `waitForPublicImageUploads` |
| `ReadRows`, `ReadJobs`, `StartClearing`, `RemoveFiles`, `SaveCheckpoint`, `VerifyPlan`, `FinishStorage` | `loadStoragePlan`, its checkpointed removal and the verification that ends the storage stage |
| `CheckObligation`, `DeleteIdentity`, `AdvanceAuth` | `hasPendingCsvPurgeObligation`, `returnToStorageCleanup`, the identity stage |
| `DeleteRecords`, `DeleteRows` | `deleteBulkRecordsInBatches`, `deleteRelationalDataInTransaction` |
| `DeletionFails`, `RecordDeletionFailure`, `CrashDeleter`, `DeletionLeaseLapses` | the catch of the attempt, a dead process, a lapsed lease |
| `BeginUpload`, `StoreImage`, `StoreFails`, `CreateScan`, `CreateIsUnanswered`, `UndoUpload` | `uploadAndScan` with `deleteUploadedObjects` (`receiptScan/queue.ts`) |

**Runs**

* `account_erase`: fair; one CSV file and one receipt image, a request that
  stores and imports, a purge worker, a deletion worker, two deletion attempts,
  one fault anywhere. Checks `CheckpointIsHonest`, `ClearedMeansCleared`,
  `DeletionEnds` and that the deletion implements `AccountErasure`. One deletion
  worker, because a second one doubles the state space of an already large
  composition; what a second would add, an attempt whose lease is lost, is
  reached by a crash and by a lease that lapses under its holder.
* `account_receipts` (violation): `ReceiptImagesGoFirst`, see section 9.

`ClearedMeansCleared` and the refinement speak of CSV files; of receipt images
the code does not keep the promise, which is the finding.

**Fairness.** As in section 7, with the deletion lane on its timer and the
settling time running out. Purge workers are not assumed to run: the deletion
removes what they have not.

**Proved** (`AccountDeletionProofs`, for every constant allowed by
`CsvAssumption` and `DeletionAssumption`, with any number of deletion workers):
`ErasureTypeOKHolds`, `ClearedMeansClearedHolds`, `CheckpointIsHonestHolds`,
`ImplementsErasureHolds`, and `FilesStayNamed`, that what section 7 proves of the
import survives the deletion's writes to it. `ClearedMeansCleared` says of one
moment what rests on a whole attempt. `EInv` therefore says what each attempt is
`Sure` of at each place: after the settling time a PUT under way is one that the
reads of the plan wait for (`SettledWaits`); after the reads nothing can land and
what is stored is on the list; after the verification what is on the list is
missing. None of it is undone by what runs beside it, which is `Sinks`: in a closed
account files only go. A saved plan was made when nothing could land any more
(`PlanHolds`), so a second worker that takes it over may skip what its checkpoint
counts; and an attempt that still holds its lease is in the stage the row is in
(`LeaseHolds`), so a worker whose lease was reclaimed never advances it.

## 9. What the runs found

* `purge_last_record`. `enqueueReceiptPurgeIfOrphaned` stands back while any job
  of the scan is active, and only a detach that succeeds looks again. If the
  last record is deleted while a `DETACH_EVIDENCE` job is active and that job
  then burns out, nothing (no job, sweep or re-drive) deletes the images, though
  `lib/sourceCleanup.ts:18-19` says the file goes with the last record.
* `dispatch_ambiguous`. `releaseOrConsume` cancels by row id and status, with
  the budgets of the `Reservation` the attempt holds. After the reconciler
  cancelled that reservation and another attempt re-armed the row in a new
  month, the late cancellation takes units from the old month, those of an
  ambiguous reservation if there are no others, and leaves units nobody holds in
  the new one. The plan document says an ambiguous reservation keeps counting.
  `OnlyLateCancelsUnbalanceHolds` shows that this is the only way the monthly
  books go wrong, `UnitsAreAccountedHolds` that no units are lost over all months.
* `csv_upload`. The transaction that queues a stored batch commits and its
  answer is lost. `failBatch` rightly does nothing, since the attempt no longer
  owns the row, but the compensation that follows deletes the file whatever
  `failBatch` did, and the worker finds nothing to download. The comment above
  `failBatch` says the status is claimed first so that this cannot happen.
* `csv_discard`. Discarding every record booked so far deletes the batch row
  although it is PENDING or PROCESSING; the attempt loses its lease and the
  rest of the file is never imported. Receipts are protected from this race.
* `account_receipts`. The deletion waits 135 s once for receipt uploads. One
  upload stores up to sixteen objects, two at a time, each in up to two attempts
  of 60 s, and creates its row without looking at the account. When it commits
  after the storage stage was verified, the row goes with the account and the
  images stay, named by nothing.

## 10. What is proved, what is checked, what is neither

Proved for all constants: the theorems of sections 4 to 8 (`BooksBalance` and
`NothingIsStuck` under `MaxMonth = 1`), which are every safety invariant, action
property and refinement the passing runs check. They rest on the named
assumptions `ScanAssumption`, `PurgeAssumption`, `DispatchAssumption`,
`CsvAssumption` and `DeletionAssumption`, which hold of the deployed values (the ids are distinct, the ceilings positive, pages
numbered from 1) and are evaluated by every run of the module. Those theorems
speak of `Spec`, `PurgeSpec`, `DispatchSpec`, `CsvSpec` and `DeletionSpec`, without
fairness.

Only model-checked: all liveness (`EveryReadSettles`, `NeglectedDraftsEnd`, both
`DeletionEnds`, `EveryCallIsDecided`, `ImportsEnd`, `UnnamedFilesGo`): TLAPS as
installed proves no statement about fairness or ENABLED. Facts about what a recursive definition
computes for every input, and modules that declare RECURSIVE operators, are out
of its reach too; the modules here have none.

Abstractions a reader should know of:

* `ReceiptScan`: item lists are opaque values; lines typed on the confirmation
  screen, duplicate review and the split arithmetic are one refusal
  (`ConfirmRefused`); effects after a confirmation's commit are left out. The
  objects an upload stores are in `AccountDeletion`.
* `ReceiptPurge`: an owner's request key is a new one each time (a repeated key
  returns the job and changes nothing); retry delays are a flag; account
  deletion, which removes jobs with their user, is not composed with it.
* `ReceiptProviderDispatch`: which key an attempt brings is arbitrary, since the
  reading that decides it is not modelled; every reservation is of `Units` units;
  cooldown,
  configuration, terms and metadata are one refusal; replaying a stored answer
  changes nothing here; a submitting transaction whose answer is lost is the
  attempt's crash.
* `CsvImport`: parsing, mapping and validation are left out, so a file is its
  chunks; replayed idempotency keys return the row they find and change nothing;
  the reconciliation that lists the bucket is a further safety net that no
  property relies on.
* `AccountDeletion`: no action takes a deletion back. `accountLifecycle.service.ts`
  (:30-34, :40-51) keeps a step from DELETION_PENDING to ACTIVE for support, before
  the deletion worker starts; nothing in the repository takes it, so a deletion that
  support undoes is outside what `AccountErasure` promises. The claim version of a lease is left out, since a process
  runs one attempt at a time and its worker id tells a lease from a reclaimed
  one; a wait ends the attempt, and the next one finds out whether it is over.

Not modelled:

* Capture batches. The status is derived from the scans, and every change of a
  scan of a batch (worker, upload, confirmation, purge) derives it again in its
  own transaction after `lockReceiptCaptureBatchForMutation` locked the batch
  row, so the derivations are serial and no interleaving is left to explore.
* Keys of uploads and sends (`chatSendRequest`, `manualRecordCreate`): one row
  under a unique index that decides the race inside the database.
* Anomaly jobs: a lease queue of the kind modelled three times here; what it
  loses, a daily sweep enqueues again.
* Rate limits: one atomic statement on a counter per take. Worker lanes: timers
  of one process, which appear as the fairness of a pass and a stop as a crash.
* Allocation and money, anomaly statistics, OCR and image analysis: arithmetic
  on decimals and pixels, whose result is an arbitrary input to the protocols.
* Aggregation queries, CRUD over single rows, HTTP validation, clients,
  deployment files: no state of their own that two actors race on.

Worth proving next: the safety half of the liveness properties, that what they
wait for always has an actor or a timer left to bring it about, stated by the
guards of the actions since ENABLED is out of reach.

## 11. Running

    tlc -config MCReceiptScan_review.cfg MCReceiptScan
    tlapm ReceiptScanProofs.tla

Each configuration file names its run's specification, constants and properties;
the longest takes nearly three minutes with two workers.
