--------------------------- MODULE AccountDeletion ---------------------------
(***************************************************************************)
(* The deletion of an account (services/accountDeletion.service.ts) beside *)
(* the CSV uploads, imports and purges that are under way when it is asked *)
(* for, and beside the upload of one receipt (receiptScan/queue.ts).       *)
(*                                                                         *)
(*   REQUESTED        -> the stored files are removed  -> STORAGE_CLEARED  *)
(*   STORAGE_CLEARED  -> the identity is removed       -> AUTH_DELETED     *)
(*   AUTH_DELETED     -> the rows are deleted          -> GONE             *)
(*                                                                         *)
(* A deletion worker leases the User row for one stage at a time.  The     *)
(* claim version is left out: a process runs one attempt at a time, so the *)
(* worker id alone tells a lease from a reclaimed one.  A wait gives the   *)
(* lease back; whether it is over is what the next attempt finds out.      *)
(***************************************************************************)
EXTENDS CsvImport

CONSTANTS Deleters,             \* processes that run the deletion lane
          Images,               \* the images of the receipt that is uploaded
          Rank,                 \* the order of the storage keys
          Concurrency,          \* STORAGE_DELETE_CONCURRENCY
          MaxDeletionAttempts   \* MAX_DELETION_ATTEMPTS

ASSUME DeletionAssumption ==
    /\ Nobody \notin Deleters
    /\ IsFiniteSet(Images)
    /\ Images \cap Batches = {}
    /\ Nobody \notin Batches \cup Images
    /\ Rank \in [Batches \cup Images -> Nat]
    /\ \A f, g \in Batches \cup Images : Rank[f] = Rank[g] => f = g
    /\ Concurrency \in Nat \ {0}
    /\ MaxDeletionAttempts \in Nat \ {0}

VARIABLES
    user,      \* the deletion columns of the User row
    identity,  \* the auth identity exists
    settled,   \* PUBLIC_IMAGE_UPLOAD_SETTLE_MS since the request are over
    deleter,   \* deleter[d]: the attempt a deletion worker is in
    request,   \* where the request that uploads the receipt is
    images,    \* the images of the receipt that are stored
    scan       \* the ReceiptScan row, which names them, exists

erasing == <<user, identity, settled, deleter>>
receipt == <<request, images, scan>>
csvVars == <<row, upload, run, flight, object, records, landed, job, purge, active>>
allVars == <<vars, erasing, receipt>>

-----------------------------------------------------------------------------
Files == Batches \cup Images

Stage == {"NONE", "REQUESTED", "STORAGE_CLEARED", "AUTH_DELETED", "GONE"}

\* plan: deletionStorageManifestHash, as the set of files it is the hash of.
\* cleared: deletionStorageCheckpoint, how many of them, in order, are removed.
NoPlan == {Nobody}

UserRow == [stage : Stage, holder : Deleters \cup {Nobody}, fresh : BOOLEAN, attempts : Nat,
            plan : (SUBSET Files) \cup {NoPlan}, cleared : 0 .. Cardinality(Files)]

NotDeleted == [stage |-> "NONE", holder |-> Nobody, fresh |-> FALSE, attempts |-> 0,
               plan |-> NoPlan, cleared |-> 0]

DeleterPlace == {"idle", "settling", "rows", "jobs", "planned", "clearing", "saving",
                 "rowsAgain", "jobsAgain", "verified", "obligation", "identity",
                 "advancing", "records", "relations", "failing"}

\* found: the files the reads came upon.  plan, cleared: of this attempt.
DeletionAttempt == [at : DeleterPlace, found : SUBSET Files, plan : SUBSET Files,
                    cleared : 0 .. Cardinality(Files)]

Asleep == [at |-> "idle", found |-> {}, plan |-> {}, cleared |-> 0]

RequestPlace == {"none", "storing", "undoing", "over"}

-----------------------------------------------------------------------------
Pending == user.stage \in {"REQUESTED", "STORAGE_CLEARED", "AUTH_DELETED"}

\* leaseGuard
Leases(d) == Pending /\ user.holder = d

Yielded == [user EXCEPT !.holder = Nobody, !.fresh = FALSE]

Advanced(stage) == [Yielded EXCEPT !.stage = stage, !.plan = NoPlan, !.cleared = 0]

\* Back to the storage stage, with no attempt spent.
Reopened == [Advanced("REQUESTED") EXCEPT !.attempts = 0]

\* The attempt ends; its write counts only under its lease.
EndsWith(d, written) ==
    /\ user' = IF Leases(d) THEN written ELSE user
    /\ deleter' = [deleter EXCEPT ![d] = Asleep]

\* The attempt goes on, and ends at a write when its lease is lost.
GoesOn(d, written, attempt) ==
    IF Leases(d)
    THEN user' = written /\ deleter' = [deleter EXCEPT ![d] = attempt]
    ELSE UNCHANGED user /\ deleter' = [deleter EXCEPT ![d] = Asleep]

GoesTo(d, place) == deleter' = [deleter EXCEPT ![d].at = place]

Reserved(b) == row[b].state \in {"STAGING", "PROCESSING"}

\* A heartbeat within the lease: hasLiveCsvUpload.
LiveUpload == \E b \in Batches : Reserved(b) /\ row[b].fresh

\* Slip: only a heartbeat counts as an upload.
NoHeartbeatNoUpload == FALSE

\* csvUploadNotBefore: the lease and the grace of a reservation outlast its PUT.
AmbiguousUpload == \E b \in Batches : Reserved(b) /\ flight[b]

\* Slip: a purge that gave up names nothing any more.
JobRuns(b, k) == job[b][k].state \in {"PENDING", "PROCESSING"}

JobNames(b, k) == job[b][k].state \in {"PENDING", "PROCESSING", "FAILED"}
Obligation == \E b \in Batches, k \in Kinds : JobNames(b, k)
EarlyPurge == \E b \in Batches, k \in Kinds : JobNames(b, k) /\ job[b][k].early

\* Slip: a batch without a stored file counts as well.
NamedByAnyRow == {IF row[b].source THEN b ELSE Nobody : b \in {c \in Batches : Exists(c)}}
                    \cup (IF scan THEN Images ELSE {})

NamedByRows == {b \in Batches : Exists(b) /\ row[b].source} \cup (IF scan THEN Images ELSE {})
NamedByJobs == {b \in Batches : \E k \in Kinds : JobNames(b, k)}

-----------------------------------------------------------------------------
DeletionInit ==
    /\ Init
    /\ user = NotDeleted
    /\ identity = TRUE
    /\ settled = FALSE
    /\ deleter = [d \in Deleters |-> Asleep]
    /\ request = "none"
    /\ images = {}
    /\ scan = FALSE

(* The receipt upload: the objects first, the row that names them last. *)

\* requireAuth, before the body is read.
BeginUpload ==
    /\ active
    /\ request = "none"
    /\ request' = "storing"
    /\ UNCHANGED <<vars, erasing, images, scan>>

StoreImage(i) ==
    /\ request = "storing"
    /\ i \notin images
    /\ images' = images \cup {i}
    /\ UNCHANGED <<vars, erasing, request, scan>>

StoreFails ==
    /\ request = "storing"
    /\ images # Images
    /\ Fault
    /\ request' = "undoing"
    /\ UNCHANGED <<csvVars, erasing, images, scan>>

\* The row of an account that is gone breaks its foreign key.
CreateScan ==
    /\ request = "storing"
    /\ images = Images
    /\ scan' = (user.stage # "GONE")
    /\ request' = IF user.stage = "GONE" THEN "undoing" ELSE "over"
    /\ UNCHANGED <<vars, erasing, images>>

\* The commit is made and its answer is lost.
CreateIsUnanswered ==
    /\ request = "storing"
    /\ images = Images
    /\ user.stage # "GONE"
    /\ Fault
    /\ scan' = TRUE
    /\ request' = "undoing"
    /\ UNCHANGED <<csvVars, erasing, images>>

\* deleteUploadedObjects: an object that cannot be deleted is left.
UndoUpload ==
    /\ request = "undoing"
    /\ \/ images' = {} /\ UNCHANGED faults
       \/ Fault /\ UNCHANGED images
    /\ request' = "over"
    /\ UNCHANGED <<csvVars, erasing, scan>>

(* The request and the uploads it finds under way. *)

\* deleteAccount: the transition is one commit.
RequestDeletion ==
    /\ CloseAccount
    /\ user' = [NotDeleted EXCEPT !.stage = "REQUESTED"]
    /\ UNCHANGED <<identity, settled, deleter, receipt>>

\* A PUT that was under way is over by now, unless its reservation or its purge
\* job still counts it as one that may land.
Settle ==
    /\ user.stage # "NONE"
    /\ ~settled
    /\ \A b \in Batches : flight[b] =>
            \/ Reserved(b) /\ row[b].holder = b
            \/ \E k \in Kinds : job[b][k].early
    /\ settled' = TRUE
    /\ UNCHANGED <<vars, user, identity, deleter, receipt>>

\* enqueueDetachedCsvSourcePurge found an owner whose deletion is under way.
TombstoneIsPlanted ==
    \E b \in Batches : /\ upload[b] = "tombstone"
                       /\ upload'[b] = "deleting"
                       /\ job' # job

\* A step of the CSV import, with what it does to the deletion.
Beside(A) ==
    /\ A
    /\ user' = IF Pending /\ TombstoneIsPlanted THEN Reopened ELSE user
    /\ UNCHANGED <<identity, settled, deleter, receipt>>

CsvOf(b) == UploadStep(b) \/ StorageStep(b) \/ SweepStep(b) \/ OwnerStep(b) \/ LeaseLapses(b)

CsvStep ==
    \/ \E b \in Batches : CsvOf(b)
    \/ \E r \in Runners : RunStep(r)
    \/ \E w \in Workers : WorkerStep(w)
    \/ \E p \in Purgers : PurgeStep(p)
    \/ \E b \in Batches, k \in Kinds : QueueStep(b, k)
    \/ Trouble

(* The deletion worker. *)

ClaimDeletion(d) ==
    /\ deleter[d].at = "idle"
    /\ Pending
    /\ user.attempts < MaxDeletionAttempts
    /\ user.holder = Nobody \/ ~user.fresh
    /\ user' = [user EXCEPT !.holder = d, !.fresh = TRUE]
    /\ GoesTo(d, CASE user.stage = "REQUESTED" -> "settling"
                   [] user.stage = "STORAGE_CLEARED" -> "obligation"
                   [] OTHER -> "records")
    /\ UNCHANGED <<vars, identity, settled, receipt>>

\* waitForPublicImageUploads
WaitToSettle(d) ==
    /\ deleter[d].at = "settling"
    /\ IF settled THEN GoesTo(d, "rows") /\ UNCHANGED user
       ELSE EndsWith(d, Advanced("REQUESTED"))
    /\ UNCHANGED <<vars, identity, settled, receipt>>

\* loadStoragePlan, the scans and the batches, to plan or to verify.
ReadRows(d) ==
    /\ deleter[d].at \in {"rows", "rowsAgain"}
    /\ IF LiveUpload THEN EndsWith(d, Yielded)
       ELSE IF AmbiguousUpload THEN EndsWith(d, Advanced("REQUESTED"))
       ELSE /\ deleter' = [deleter EXCEPT ![d].found = NamedByRows, ![d].at =
                               IF @ = "rows" THEN "jobs" ELSE "jobsAgain"]
            /\ UNCHANGED user
    /\ UNCHANGED <<vars, identity, settled, receipt>>

\* Then the purge jobs, which take over what a batch named.
ReadJobs(d) ==
    /\ deleter[d].at \in {"jobs", "jobsAgain"}
    /\ IF EarlyPurge THEN EndsWith(d, Advanced("REQUESTED"))
       ELSE /\ deleter' = [deleter EXCEPT ![d].found = @ \cup NamedByJobs, ![d].at =
                               IF @ = "jobs" THEN "planned" ELSE "verified"]
            /\ UNCHANGED user
    /\ UNCHANGED <<vars, identity, settled, receipt>>

\* The first n files of a plan, in the order of their keys.
FirstOf(plan, n) ==
    LET ahead(f) == {g \in plan \ NoPlan : Rank[g] < Rank[f]}
    IN  {f \in plan \ NoPlan : Cardinality(ahead(f)) < n}

SamePlan(plan) == user.plan = plan

StartClearing(d) ==
    LET plan == deleter[d].found
        clear(n) == [Asleep EXCEPT !.at = "clearing", !.plan = plan, !.cleared = n]
    IN  /\ deleter[d].at = "planned"
        /\ IF SamePlan(plan)
           THEN deleter' = [deleter EXCEPT ![d] = clear(user.cleared)] /\ UNCHANGED user
           ELSE GoesOn(d, [user EXCEPT !.plan = plan, !.cleared = 0, !.fresh = TRUE], clear(0))
        /\ UNCHANGED <<vars, identity, settled, receipt>>

Total(d) == Cardinality(deleter[d].plan)
UpTo(d) == IF deleter[d].cleared + Concurrency < Total(d) THEN deleter[d].cleared + Concurrency ELSE Total(d)

RemoveFiles(d) ==
    LET x == deleter[d]
        part == FirstOf(x.plan, UpTo(d)) \ FirstOf(x.plan, x.cleared)
    IN  /\ x.at = "clearing"
        /\ x.cleared < Total(d)
        /\ object' = [b \in Batches |-> object[b] /\ b \notin part]
        /\ images' = images \ part
        /\ GoesTo(d, "saving")
        /\ UNCHANGED <<imports, upload, flight, purging, active, faults>>
        /\ UNCHANGED <<user, identity, settled, request, scan>>

\* The saved checkpoint must still be the one this step started from.
SaveCheckpoint(d) ==
    LET x == deleter[d]
    IN  /\ x.at = "saving"
        /\ IF user.plan = x.plan /\ user.cleared = x.cleared
           THEN GoesOn(d, [user EXCEPT !.cleared = UpTo(d), !.fresh = TRUE],
                       [x EXCEPT !.at = "clearing", !.cleared = UpTo(d)])
           ELSE EndsWith(d, user)
        /\ UNCHANGED <<vars, identity, settled, receipt>>

VerifyPlan(d) ==
    /\ deleter[d].at = "clearing"
    /\ deleter[d].cleared = Total(d)
    /\ GoesTo(d, "rowsAgain")
    /\ UNCHANGED <<vars, user, identity, settled, receipt>>

\* Slip: the purge jobs of the plan stay as they are.
KeepJobs(plan) == UNCHANGED job

\* The purge jobs of files that are gone are COMPLETE.
CloseJobs(plan) ==
    job' = [b \in Batches |-> [k \in Kinds |->
               IF b \in plan /\ JobNames(b, k)
               THEN [job[b][k] EXCEPT !.state = "COMPLETE", !.holder = Nobody, !.fresh = FALSE]
               ELSE job[b][k]]]

FinishStorage(d) ==
    LET x == deleter[d]
        whole == Leases(d) /\ user.plan = x.plan /\ user.cleared = Total(d)
    IN  /\ x.at = "verified"
        /\ IF whole /\ x.found # x.plan
           THEN EndsWith(d, [Yielded EXCEPT !.plan = x.found, !.cleared = 0]) /\ UNCHANGED job
           ELSE IF whole /\ ~EarlyPurge
           THEN EndsWith(d, Advanced("STORAGE_CLEARED")) /\ CloseJobs(x.plan)
           ELSE EndsWith(d, IF whole THEN Advanced("REQUESTED") ELSE user) /\ UNCHANGED job
        /\ UNCHANGED <<imports, upload, storage, purge, active, faults>>
        /\ UNCHANGED <<identity, settled, receipt>>

\* hasPendingCsvPurgeObligation, returnToStorageCleanup
CheckObligation(d) ==
    /\ deleter[d].at = "obligation"
    /\ IF Obligation THEN EndsWith(d, Reopened) ELSE GoesTo(d, "identity") /\ UNCHANGED user
    /\ UNCHANGED <<vars, identity, settled, receipt>>

\* Slip: an error of the identity service passes for success.
MayKeepIdentity(d) ==
    /\ deleter[d].at = "identity"
    /\ identity' \in {identity, FALSE}
    /\ GoesTo(d, "advancing")
    /\ UNCHANGED <<vars, user, settled, receipt>>

DeleteIdentity(d) ==
    /\ deleter[d].at = "identity"
    /\ identity' = FALSE
    /\ GoesTo(d, "advancing")
    /\ UNCHANGED <<vars, user, settled, receipt>>

AdvanceAuth(d) ==
    /\ deleter[d].at = "advancing"
    /\ EndsWith(d, Advanced("AUTH_DELETED"))
    /\ UNCHANGED <<vars, identity, settled, receipt>>

\* deleteBulkRecordsInBatches
DeleteRecords(d) ==
    /\ deleter[d].at = "records"
    /\ IF Leases(d)
       THEN records' = [b \in Batches |-> {}] /\ GoesTo(d, "relations")
       ELSE UNCHANGED records /\ deleter' = [deleter EXCEPT ![d] = Asleep]
    /\ UNCHANGED <<row, run, landed, upload, storage, purging, active, faults>>
    /\ UNCHANGED <<user, identity, settled, receipt>>

\* deleteRelationalDataInTransaction, when no purge job names a file.
MayDeleteRows(d) == Leases(d) /\ ~Obligation

RowsGone ==
    /\ row' = [b \in Batches |-> IF Exists(b)
                                 THEN [Released(b, "GONE") EXCEPT !.source = FALSE] ELSE row[b]]
    /\ records' = [b \in Batches |-> {}]
    /\ job' = [b \in Batches |-> [k \in Kinds |-> NoJob]]
    /\ scan' = FALSE

DeleteRows(d) ==
    /\ deleter[d].at = "relations"
    /\ IF MayDeleteRows(d)
       THEN EndsWith(d, Advanced("GONE")) /\ RowsGone
       ELSE EndsWith(d, Reopened) /\ UNCHANGED <<row, records, job, scan>>
    /\ UNCHANGED <<run, landed, upload, storage, purge, active, faults>>
    /\ UNCHANGED <<identity, settled, request, images>>

\* A file that cannot be removed, a query or a call that fails.
DeletionFails(d) ==
    /\ deleter[d].at \notin {"idle", "failing"}
    /\ Fault
    /\ GoesTo(d, "failing")
    /\ UNCHANGED <<csvVars, user, identity, settled, receipt>>

RecordDeletionFailure(d) ==
    /\ deleter[d].at = "failing"
    /\ EndsWith(d, [Yielded EXCEPT !.attempts = @ + 1])
    /\ UNCHANGED <<vars, identity, settled, receipt>>

CrashDeleter(d) ==
    /\ deleter[d].at # "idle"
    /\ Fault
    /\ deleter' = [deleter EXCEPT ![d] = Asleep]
    /\ UNCHANGED <<csvVars, user, identity, settled, receipt>>

DeletionLeaseLapses ==
    /\ user.fresh
    /\ IF user.holder \in Deleters /\ deleter[user.holder].at # "idle" THEN Fault ELSE UNCHANGED faults
    /\ user' = [user EXCEPT !.fresh = FALSE]
    /\ UNCHANGED <<csvVars, identity, settled, deleter, receipt>>

-----------------------------------------------------------------------------
StorageStage(d) ==
    \/ WaitToSettle(d) \/ ReadRows(d) \/ ReadJobs(d) \/ StartClearing(d) \/ RemoveFiles(d)
    \/ SaveCheckpoint(d) \/ VerifyPlan(d) \/ FinishStorage(d)

LaterStages(d) ==
    \/ CheckObligation(d) \/ DeleteIdentity(d) \/ AdvanceAuth(d)
    \/ DeleteRecords(d) \/ DeleteRows(d)

DeleterStep(d) ==
    ClaimDeletion(d) \/ StorageStage(d) \/ LaterStages(d) \/ RecordDeletionFailure(d)

ReceiptStep == (\E i \in Images : StoreImage(i)) \/ CreateScan \/ UndoUpload

DeletionNext ==
    \/ Beside(CsvStep)
    \/ RequestDeletion
    \/ BeginUpload \/ ReceiptStep \/ StoreFails \/ CreateIsUnanswered
    \/ Settle \/ DeletionLeaseLapses
    \/ \E d \in Deleters : DeleterStep(d) \/ DeletionFails(d) \/ CrashDeleter(d)

DeletionSpec == DeletionInit /\ [][DeletionNext]_allVars

\* As in CsvImport; the deletion lane runs on a timer, and time passes.
FairDeletionSpec ==
    /\ DeletionSpec
    /\ \A b \in Batches : /\ WF_allVars(Beside(UploadStep(b)))
                          /\ WF_allVars(Beside(StorageStep(b)))
                          /\ WF_allVars(Beside(LeaseLapses(b)))
    /\ \A r \in Runners : WF_allVars(Beside(RunStep(r)))
    /\ \A w \in Workers : WF_allVars(Beside(WorkerStep(w)))
    /\ \A b \in Batches, k \in Kinds : WF_allVars(Beside(QueueStep(b, k)))
    /\ WF_allVars(Settle) /\ WF_allVars(DeletionLeaseLapses)
    /\ \A d \in Deleters : WF_allVars(DeleterStep(d))

-----------------------------------------------------------------------------
\* The deletion columns of the account and the local state of its processes.
ErasureTypeOK ==
    /\ user \in UserRow
    /\ identity \in BOOLEAN
    /\ settled \in BOOLEAN
    /\ deleter \in [Deleters -> DeletionAttempt]
    /\ request \in RequestPlace
    /\ images \in SUBSET Images
    /\ scan \in BOOLEAN

\* The checkpoint is what lets an interrupted deletion resume: the files it skips
\* are removed, and stay so.
CheckpointIsHonest ==
    \A f \in FirstOf(user.plan, user.cleared) :
        f \notin images /\ (f \in Batches => ~object[f])

Kept == {b \in Batches : object[b]}

Erasure == INSTANCE AccountErasure WITH
    account <- IF user.stage = "NONE" THEN "open" ELSE IF user.stage = "GONE" THEN "erased" ELSE "closing",
    signIn <- identity,
    kept <- Kept

\* "Objects in Storage can only be found through the rows that name them, so
\* the rows have to outlive the objects": the rows go when no CSV file is
\* stored any more, and none is stored again.
ImplementsErasure == Erasure!ErasureSpec

\* Once the storage stage is over no CSV file is stored and none can still land,
\* whatever uploads, purges and dead workers were on the way when it ended
\* (processStorageStage, waitForCsvUploadAmbiguity).
ClearedMeansCleared ==
    user.stage \in {"STORAGE_CLEARED", "AUTH_DELETED", "GONE"} =>
        \A b \in Batches : ~object[b] /\ ~flight[b]

Stalled == user.attempts >= MaxDeletionAttempts

\* An account that is being deleted goes, or stops at its last attempt, which
\* the readiness endpoint reports (countStalledAccountDeletions).
DeletionEnds == Pending ~> (user.stage = "GONE" \/ Stalled)

\* "A deleted account leaves nothing behind" (accountDeletion.service.ts:263-264):
\* its rows do not go while an image they name is stored.
ReceiptImagesGoFirst ==
    [][scan /\ ~scan' => images = {}]_allVars
=============================================================================
