------------------------------ MODULE CsvImport ------------------------------
(***************************************************************************)
(* A CSV import from its upload to its purged source file                  *)
(* (services/csvImport.service.ts, services/csvSourcePurge.service.ts).    *)
(* A request reserves the batch row, stores the file, and either leaves it *)
(* staged for a review (stageCsvUpload, confirmStagedImport) or imports it *)
(* directly (confirmImport).  The rows of the file are booked a chunk at a *)
(* time, by the request when the file is small and by the durable worker   *)
(* when it is not, and by the worker again when an attempt breaks off.     *)
(* The stored file goes through a purge queue of its own.                  *)
(*                                                                         *)
(* A file is Chunks chunks that each book a record; which of them a small  *)
(* file has plays no part.  Crashes, errors, lost answers and leases that  *)
(* lapse under a live holder share one budget of MaxFaults.                *)
(***************************************************************************)
EXTENDS Integers, Sequences, FiniteSets

CONSTANTS Batches,           \* the batch rows; b also names the request of b
          Workers, Purgers,  \* processes that run the import and purge lanes
          Nobody,
          Chunks,            \* the chunks of a file
          OutstandingLimit,  \* CSV_STAGE_OUTSTANDING_LIMIT
          MaxAttempts,       \* CSV_MAX_ATTEMPTS
          PurgeCeiling,      \* MAX_ATTEMPTS of the purge queue
          MaxFaults          \* bound: what goes wrong in one behaviour

Runners == Workers \cup Batches

ASSUME CsvAssumption ==
    /\ IsFiniteSet(Batches)
    /\ Workers \cap Batches = {}
    /\ Nobody \notin Runners \cup Purgers
    /\ Chunks \in Nat \ {0}
    /\ OutstandingLimit \in Nat
    /\ MaxAttempts \in Nat \ {0, 1}
    /\ PurgeCeiling \in Nat \ {0}
    /\ MaxFaults \in Nat

VARIABLES
    row,      \* row[b]: the CSVImportBatch row
    upload,   \* upload[b]: where the request that stores the file of b is
    run,      \* run[r]: the import attempt a worker or a request is in
    flight,   \* flight[b]: a PUT that Storage may still apply
    object,   \* object[b]: the stored file exists
    records,  \* records[b]: the chunks whose records are in the books
    landed,   \* landed[b]: the chunks committed, in order (history)
    job,      \* job[b][k]: the CSVSourcePurgeJob rows that name the file
    purge,    \* purge[p]: what a purge worker is doing
    active,   \* User_Status is ACTIVE
    faults

imports == <<row, run, records, landed>>
storage == <<flight, object>>
purging == <<job, purge>>
vars == <<row, upload, run, flight, object, records, landed, job, purge, active, faults>>

-----------------------------------------------------------------------------
RowState == {"NONE", "STAGING", "STAGED", "PENDING", "PROCESSING", "COMPLETE",
             "FAILED", "GONE"}

\* staged: stageId is not null.  source: fileReference is not null.
BatchRow == [state : RowState, staged : BOOLEAN, holder : Runners \cup {Nobody},
             attempt : Nat, fresh : BOOLEAN, processed : 0 .. Chunks, source : BOOLEAN]

NoRow == [state |-> "NONE", staged |-> FALSE, holder |-> Nobody, attempt |-> 0,
          fresh |-> FALSE, processed |-> 0, source |-> FALSE]

\* A row that its own request holds while it stores the file.
Reservation(b, state, staged, attempt) ==
    [state |-> state, staged |-> staged, holder |-> b, attempt |-> attempt,
     fresh |-> TRUE, processed |-> 0, source |-> TRUE]

UploadPlace == {"none", "putting", "stored", "failing", "tombstone", "deleting", "over"}

\* attempt and next: the lease and the checkpoint the attempt started from.
Attempt == [at : {"idle", "uploading", "restoring", "inserting", "deferring"},
            batch : Batches \cup {Nobody}, attempt : Nat, next : 0 .. Chunks]

Idle == [at |-> "idle", batch |-> Nobody, attempt |-> 0, next |-> 0]

\* own: keyed by the hash of the batch and its file.  detached: by a random one.
Kinds == {"own", "detached"}

\* early: notBefore, the grace of an upload that may still land, is not over.
PurgeJob == [state : {"NONE", "PENDING", "PROCESSING", "COMPLETE", "FAILED"},
             holder : Purgers \cup {Nobody}, attempt : Nat, fresh : BOOLEAN, early : BOOLEAN]

NoJob == [state |-> "NONE", holder |-> Nobody, attempt |-> 0, fresh |-> FALSE, early |-> FALSE]

Purge == [at : {"idle", "checking", "deleting", "settling"},
          batch : Batches \cup {Nobody}, kind : Kinds, attempt : Nat]

Resting == [at |-> "idle", batch |-> Nobody, kind |-> "own", attempt |-> 0]

-----------------------------------------------------------------------------
(* What the conditions of the code test. *)

Exists(b) == row[b].state \notin {"NONE", "GONE"}
Outstanding == {b \in Batches : row[b].state \in {"STAGING", "STAGED", "PENDING", "PROCESSING"}}

\* Slip: the row is updated by its id and its state alone.
OwnedByAnybody(r) == row[run[r].batch].state = "PROCESSING"

\* ownedByAttempt: the predicate every write of an attempt carries.
Owns(r) ==
    LET x == row[run[r].batch]
    IN  /\ x.state = "PROCESSING"
        /\ x.holder = r
        /\ x.attempt = run[r].attempt

\* Slip: only a batch that was given back is claimed.
GivenBack(b) == row[b].state = "PENDING"

\* Due for the worker: in the queue, or in the hands of a dead attempt.
Claimable(b) == row[b].state = "PENDING" \/ (row[b].state = "PROCESSING" /\ ~row[b].fresh)

Uploading(b) == upload[b] \notin {"none", "over"}
Importing(r) == run[r].at \in {"restoring", "inserting", "deferring"}

\* The lease of b is held by a process that is alive and at work on it.
HeldAlive(b) ==
    \/ row[b].holder = b /\ (Uploading(b) \/ Importing(b))
    \/ row[b].holder \in Workers /\ run[row[b].holder].batch = b
                                 /\ run[row[b].holder].attempt = row[b].attempt

Fault == faults < MaxFaults /\ faults' = faults + 1

\* The row of b with state s and no holder.
Released(b, s) == [row[b] EXCEPT !.state = s, !.holder = Nobody, !.fresh = FALSE]

\* The row of b as a new attempt of r leases it.
Taken(b, r, attempt) ==
    [row[b] EXCEPT !.state = "PROCESSING", !.holder = r, !.attempt = attempt, !.fresh = TRUE]

\* The purge job of the batch's own file; grace: an upload may still land.
QueueOwn(b, grace) ==
    IF row[b].source
    THEN job' = [job EXCEPT ![b]["own"] = [NoJob EXCEPT !.state = "PENDING", !.early = grace]]
    ELSE UNCHANGED job

\* Slip: the file of a staging row is purged at once.
PurgeRowAtOnce(b) ==
    /\ QueueOwn(b, FALSE)
    /\ row' = [row EXCEPT ![b] = [Released(b, "GONE") EXCEPT !.source = FALSE]]

\* enqueueCsvSourcePurgesIfOrphaned on a batch no record names: the row goes.
PurgeRow(b) ==
    /\ QueueOwn(b, row[b].state = "STAGING")
    /\ row' = [row EXCEPT ![b] = [Released(b, "GONE") EXCEPT !.source = FALSE]]

\* FAILED, the file into the purge queue, the row kept for the history.
FailRow(b, grace) ==
    /\ QueueOwn(b, grace)
    /\ row' = [row EXCEPT ![b] = [Released(b, "FAILED") EXCEPT !.source = FALSE]]

UploadGoes(b, place) == upload' = [upload EXCEPT ![b] = place]
RunGoes(r, place) == run' = [run EXCEPT ![r].at = place]
Ends(r) == run' = [run EXCEPT ![r] = Idle]

Begins(r, b, attempt, place) ==
    run' = [run EXCEPT ![r] = [at |-> place, batch |-> b, attempt |-> attempt,
                               next |-> row[b].processed]]

-----------------------------------------------------------------------------
Init ==
    /\ row = [b \in Batches |-> NoRow]
    /\ upload = [b \in Batches |-> "none"]
    /\ run = [r \in Runners |-> Idle]
    /\ flight = [b \in Batches |-> FALSE]
    /\ object = [b \in Batches |-> FALSE]
    /\ records = [b \in Batches |-> {}]
    /\ landed = [b \in Batches |-> <<>>]
    /\ job = [b \in Batches |-> [k \in Kinds |-> NoJob]]
    /\ purge = [p \in Purgers |-> Resting]
    /\ active = TRUE
    /\ faults = 0

(* The request that stores the file: the row is written before the object. *)

Reserve(b) ==
    /\ active
    /\ row[b].state = "NONE"
    /\ Cardinality(Outstanding) < OutstandingLimit
    /\ UploadGoes(b, "putting")
    /\ flight' = [flight EXCEPT ![b] = TRUE]

\* stageCsvUpload: a STAGING row, leased to the request.
ReserveStage(b) ==
    /\ Reserve(b)
    /\ row' = [row EXCEPT ![b] = Reservation(b, "STAGING", TRUE, 0)]
    /\ UNCHANGED <<run, object, records, landed, purging, active, faults>>

\* confirmImport: a PROCESSING row, in attempt 1 when the request will import it.
ReserveImport(b) ==
    \E attempt \in {0, 1} :
        /\ Reserve(b)
        /\ row' = [row EXCEPT ![b] = Reservation(b, "PROCESSING", FALSE, attempt)]
        /\ Begins(b, b, attempt, "uploading")
        /\ UNCHANGED <<object, records, landed, purging, active, faults>>

\* Storage applies the PUT, answered or not; or it never will.
PutLands(b) ==
    /\ flight[b]
    /\ flight' = [flight EXCEPT ![b] = FALSE]
    /\ object' = [object EXCEPT ![b] = TRUE]
    /\ UNCHANGED <<imports, upload, purging, active, faults>>

PutIsDropped(b) ==
    /\ flight[b]
    /\ upload[b] # "putting"
    /\ flight' = [flight EXCEPT ![b] = FALSE]
    /\ UNCHANGED <<imports, upload, object, purging, active, faults>>

PutIsAnswered(b) ==
    /\ upload[b] = "putting"
    /\ ~flight[b]
    /\ UploadGoes(b, "stored")
    /\ UNCHANGED <<imports, storage, purging, active, faults>>

\* An error or a timeout, with the bytes stored or not.
PutFails(b) ==
    /\ upload[b] = "putting"
    /\ Fault
    /\ UploadGoes(b, "failing")
    /\ UNCHANGED <<imports, storage, purging, active>>

\* Slip: the row is finalised by its id alone.
AccountOpen(b) == active

\* The reservation the request made is still its own.
StillReserved(b) ==
    /\ active
    /\ IF row[b].staged THEN row[b].state = "STAGING" ELSE Owns(b)

\* The row once its file is stored: for the owner, for the worker, or kept.
Published(b) ==
    IF row[b].staged THEN Released(b, "STAGED")
    ELSE IF run[b].attempt = 0 THEN Released(b, "PENDING")
    ELSE [row[b] EXCEPT !.fresh = TRUE]

FinishUpload(b) ==
    /\ upload[b] = "stored"
    /\ StillReserved(b)
    /\ row' = [row EXCEPT ![b] = Published(b)]
    /\ run' = [run EXCEPT ![b] =
                  IF ~row[b].staged /\ @.attempt = 1 THEN [@ EXCEPT !.at = "inserting"] ELSE Idle]
    /\ UploadGoes(b, "over")
    /\ UNCHANGED <<storage, records, landed, purging, active, faults>>

\* The reservation was purged or taken over, or the account is closing.
FinishIsRefused(b) ==
    /\ upload[b] = "stored"
    /\ ~StillReserved(b)
    /\ UploadGoes(b, "failing")
    /\ UNCHANGED <<imports, storage, purging, active, faults>>

\* The transaction fails, or commits and its answer is lost.
FinishFails(b) ==
    /\ upload[b] = "stored"
    /\ Fault
    /\ UploadGoes(b, "failing")
    /\ \/ UNCHANGED row
       \/ StillReserved(b) /\ row' = [row EXCEPT ![b] = Published(b)]
    /\ UNCHANGED <<storage, run, records, landed, purging, active>>

\* purgeStagedBatch, even of a fresh STAGING row; failBatch under the lease.
CleanUp(b) ==
    /\ upload[b] = "failing"
    /\ IF row[b].staged
       THEN IF row[b].state \in {"STAGING", "STAGED"} THEN PurgeRow(b) ELSE UNCHANGED <<row, job>>
       ELSE IF Owns(b) THEN FailRow(b, TRUE) ELSE UNCHANGED <<row, job>>
    /\ UploadGoes(b, "tombstone")
    /\ UNCHANGED <<storage, run, records, landed, purge, active, faults>>

\* An error while cleaning up is logged; the compensation goes on.
CleanUpFails(b) ==
    /\ upload[b] = "failing"
    /\ Fault
    /\ UploadGoes(b, "tombstone")
    /\ UNCHANGED <<imports, storage, purging, active>>

Detached == [NoJob EXCEPT !.state = "PENDING", !.early = TRUE]

\* compensateCsvUploadAttempt, first a purge job that outlives the upload.
PlantTombstone(b) ==
    /\ upload[b] = "tombstone"
    /\ \/ job' = [job EXCEPT ![b]["detached"] = Detached] /\ UNCHANGED faults
       \/ Fault /\ UNCHANGED job
    /\ UploadGoes(b, "deleting")
    /\ UNCHANGED <<imports, storage, purge, active>>

\* Then the file itself, at once.
DeleteUpload(b) ==
    /\ upload[b] = "deleting"
    /\ \/ object' = [object EXCEPT ![b] = FALSE] /\ UNCHANGED faults
       \/ Fault /\ UNCHANGED object
    /\ UploadGoes(b, "over")
    /\ run' = IF row[b].staged THEN run ELSE [run EXCEPT ![b] = Idle]
    /\ UNCHANGED <<row, records, landed, flight, purging, active>>

(* The owner, the sweeps and the records of the import. *)

\* confirmStagedImport: a small file is imported by the request that confirms.
ConfirmStage(b) ==
    /\ active
    /\ row[b].staged
    /\ row[b].state = "STAGED"
    /\ \/ row' = [row EXCEPT ![b].state = "PENDING"] /\ UNCHANGED run
       \/ /\ run[b].at = "idle"
          /\ row' = [row EXCEPT ![b] = Taken(b, b, 1)]
          /\ Begins(b, b, 1, "inserting")
    /\ UNCHANGED <<upload, storage, records, landed, purging, active, faults>>

\* The owner deletes the stage, or a sweep removes one that is past its time.
PurgeStage(b) ==
    /\ \/ row[b].state = "STAGED"
       \/ row[b].state = "STAGING" /\ ~row[b].fresh
    /\ PurgeRow(b)
    /\ UNCHANGED <<upload, run, storage, records, landed, purge, active, faults>>

\* A day old, out of attempts and in nobody's hands; no upload lasts that long.
SweepStalled(b) ==
    /\ row[b].attempt >= MaxAttempts
    /\ Claimable(b)
    /\ ~flight[b]
    /\ FailRow(b, ~row[b].staged /\ row[b].state = "PROCESSING")
    /\ UNCHANGED <<upload, run, storage, records, landed, purge, active, faults>>

\* Records are deleted, one or a whole group of duplicates; with the last of
\* them goes the batch.
DiscardRecords(b) ==
    \E discarded \in (SUBSET records[b]) \ {{}} :
        /\ records' = [records EXCEPT ![b] = @ \ discarded]
        /\ IF records[b] = discarded /\ Exists(b) THEN PurgeRow(b) ELSE UNCHANGED <<row, job>>
        /\ UNCHANGED <<upload, run, storage, landed, purge, active, faults>>

\* sweepRetainedCsvSources: CSV_SOURCE_RETENTION_DAYS after the completion.
RetentionEnds(b) ==
    /\ row[b].state = "COMPLETE"
    /\ row[b].source
    /\ QueueOwn(b, FALSE)
    /\ row' = [row EXCEPT ![b].source = FALSE]
    /\ UNCHANGED <<upload, run, storage, records, landed, purge, active, faults>>

\* The account asks to be deleted; the deletion itself is AccountDeletion.
CloseAccount ==
    /\ active
    /\ active' = FALSE
    /\ UNCHANGED <<imports, upload, storage, purging, faults>>

(* The import attempts of the worker and of the requests. *)

\* claimImportBatch.  An upload is over before its batch is claimed for the
\* last attempt: the leases in between outlast the PUT's two timeouts.
Claim(w, b) ==
    /\ active
    /\ run[w].at = "idle"
    /\ Claimable(b)
    /\ row[b].attempt + 1 >= MaxAttempts => ~flight[b]
    /\ row' = [row EXCEPT ![b] = Taken(b, w, @.attempt + 1)]
    /\ Begins(w, b, row[b].attempt + 1, "restoring")
    /\ UNCHANGED <<upload, storage, records, landed, purging, active, faults>>

\* The rows come from the chunks of a staged batch, or from the stored file.
Readable(b) == row[b].staged \/ object[b]

Restore(w) ==
    /\ run[w].at = "restoring"
    /\ Readable(run[w].batch)
    /\ IF Owns(w)
       THEN row' = [row EXCEPT ![run[w].batch].fresh = TRUE] /\ RunGoes(w, "inserting")
       ELSE UNCHANGED row /\ Ends(w)
    /\ UNCHANGED <<upload, storage, records, landed, purging, active, faults>>

RestoreFails(w) ==
    /\ run[w].at = "restoring"
    /\ IF Readable(run[w].batch) THEN Fault ELSE UNCHANGED faults
    /\ RunGoes(w, "deferring")
    /\ UNCHANGED <<row, upload, storage, records, landed, purging, active>>

\* A chunk's records and the checkpoint that vouches for them, in one commit.
CommitChunk(r) ==
    LET b == run[r].batch
        c == run[r].next + 1
    IN  /\ row' = [row EXCEPT ![b] = [@ EXCEPT !.processed = c, !.fresh = TRUE]]
        /\ records' = [records EXCEPT ![b] = @ \cup {c}]
        /\ landed' = [landed EXCEPT ![b] = Append(@, c)]

\* Slip: one chunk too many.
InsertingOn(r) == run[r].at = "inserting" /\ run[r].next <= Chunks

Inserting(r) == run[r].at = "inserting" /\ run[r].next < Chunks

InsertChunk(r) ==
    /\ Inserting(r)
    /\ Owns(r)
    /\ CommitChunk(r)
    /\ run' = [run EXCEPT ![r].next = @ + 1]
    /\ UNCHANGED <<upload, storage, purging, active, faults>>

\* The checkpoint finds no row of this attempt: the chunk is rolled back.
LeaseIsLost(r) ==
    /\ Inserting(r)
    /\ ~Owns(r)
    /\ Ends(r)
    /\ UNCHANGED <<row, upload, storage, records, landed, purging, active, faults>>

\* The chunk fails, or commits and its answer is lost.
InsertFails(r) ==
    /\ Inserting(r)
    /\ Fault
    /\ \/ UNCHANGED <<row, records, landed>>
       \/ Owns(r) /\ CommitChunk(r)
    /\ RunGoes(r, "deferring")
    /\ UNCHANGED <<upload, storage, purging, active>>

\* completeBatch; of an attempt that lost its lease, nothing.
Complete(r) ==
    /\ run[r].at = "inserting"
    /\ run[r].next = Chunks
    /\ row' = IF Owns(r) THEN [row EXCEPT ![run[r].batch] = Released(run[r].batch, "COMPLETE")]
              ELSE row
    /\ Ends(r)
    /\ UNCHANGED <<upload, storage, records, landed, purging, active, faults>>

\* The worker defers what a request leaves to it.
CompleteFails(r) ==
    /\ run[r].at = "inserting"
    /\ run[r].next = Chunks
    /\ Fault
    /\ IF r \in Workers THEN RunGoes(r, "deferring") ELSE Ends(r)
    /\ UNCHANGED <<row, upload, storage, records, landed, purging, active>>

\* deferBatch: back into the queue, or FAILED when the attempts are spent.
Defer(r) ==
    /\ run[r].at = "deferring"
    /\ IF ~Owns(r) THEN UNCHANGED <<row, job>>
       ELSE IF run[r].attempt >= MaxAttempts THEN FailRow(run[r].batch, FALSE)
       ELSE /\ row' = [row EXCEPT ![run[r].batch] = Released(run[r].batch, "PENDING")]
            /\ UNCHANGED job
    /\ Ends(r)
    /\ UNCHANGED <<upload, storage, records, landed, purge, active, faults>>

(* Processes die and leases lapse. *)

CrashWorker(w) ==
    /\ run[w].at # "idle"
    /\ Fault
    /\ Ends(w)
    /\ UNCHANGED <<row, upload, storage, records, landed, purging, active>>

CrashRequest(b) ==
    /\ Uploading(b) \/ Importing(b)
    /\ Fault
    /\ UploadGoes(b, "over")
    /\ Ends(b)
    /\ UNCHANGED <<row, storage, records, landed, purging, active>>

LeaseLapses(b) ==
    /\ row[b].state \in {"STAGING", "PROCESSING"}
    /\ row[b].fresh
    /\ IF HeldAlive(b) THEN Fault ELSE UNCHANGED faults
    /\ row' = [row EXCEPT ![b].fresh = FALSE]
    /\ UNCHANGED <<upload, run, storage, records, landed, purging, active>>

(* The purge queue of the stored files. *)

JobOf(p) == job[purge[p].batch][purge[p].kind]

\* The job as this attempt of p ends it; nothing when the lease was reclaimed.
EndsJob(p, state) ==
    LET j == JobOf(p)
    IN  job' = IF j.state = "PROCESSING" /\ j.holder = p /\ j.attempt = purge[p].attempt
               THEN [job EXCEPT ![purge[p].batch][purge[p].kind] =
                        [j EXCEPT !.state = state, !.holder = Nobody, !.fresh = FALSE]]
               ELSE job

Rests(p) == purge' = [purge EXCEPT ![p] = Resting]
PurgeGoes(p, place) == purge' = [purge EXCEPT ![p].at = place]

\* The grace outlasts the upload it waits for.
GraceEnds(b, k) ==
    /\ job[b][k].early
    /\ ~flight[b]
    /\ job' = [job EXCEPT ![b][k].early = FALSE]
    /\ UNCHANGED <<imports, upload, storage, purge, active, faults>>

\* Slip: a job that a dead worker holds is left to it.
JobWaits(j) == j.state = "PENDING" /\ ~j.early

JobDue(j) == (j.state = "PENDING" /\ ~j.early) \/ (j.state = "PROCESSING" /\ ~j.fresh)

ClaimPurge(p, b, k) ==
    LET j == job[b][k]
    IN  /\ purge[p].at = "idle"
        /\ j.attempt < PurgeCeiling
        /\ JobDue(j)
        /\ job' = [job EXCEPT ![b][k] = [j EXCEPT !.state = "PROCESSING", !.holder = p,
                                                  !.fresh = TRUE, !.attempt = j.attempt + 1]]
        /\ purge' = [purge EXCEPT ![p] = [at |-> "checking", batch |-> b, kind |-> k,
                                          attempt |-> j.attempt + 1]]
        /\ UNCHANGED <<imports, upload, storage, active, faults>>

\* Slip: nobody asks whether a batch still names the file.
NeverRefuse(p) == FALSE

\* CSV_PURGE_ACTIVE_REFERENCE: a batch still names the file.
StillNamed(p) == row[purge[p].batch].source

CheckReference(p) ==
    /\ purge[p].at = "checking"
    /\ IF StillNamed(p) THEN EndsJob(p, "FAILED") /\ Rests(p)
       ELSE UNCHANGED job /\ PurgeGoes(p, "deleting")
    /\ UNCHANGED <<imports, upload, storage, active, faults>>

DeleteObject(p) ==
    /\ purge[p].at = "deleting"
    /\ object' = [object EXCEPT ![purge[p].batch] = FALSE]
    /\ PurgeGoes(p, "settling")
    /\ UNCHANGED <<imports, upload, flight, job, active, faults>>

DeleteObjectFails(p) ==
    /\ purge[p].at = "deleting"
    /\ Fault
    /\ EndsJob(p, IF purge[p].attempt >= PurgeCeiling THEN "FAILED" ELSE "PENDING")
    /\ Rests(p)
    /\ UNCHANGED <<imports, upload, storage, active>>

SettlePurge(p) ==
    /\ purge[p].at = "settling"
    /\ EndsJob(p, "COMPLETE")
    /\ Rests(p)
    /\ UNCHANGED <<imports, upload, storage, active, faults>>

CrashPurger(p) ==
    /\ purge[p].at # "idle"
    /\ Fault
    /\ Rests(p)
    /\ UNCHANGED <<imports, upload, storage, job, active>>

PurgeLeaseLapses(b, k) ==
    LET j == job[b][k]
    IN  /\ j.state = "PROCESSING"
        /\ j.fresh
        /\ IF \E p \in Purgers : /\ purge[p].at # "idle"
                                 /\ purge[p].batch = b
                                 /\ purge[p].kind = k
                                 /\ purge[p].attempt = j.attempt
           THEN Fault ELSE UNCHANGED faults
        /\ job' = [job EXCEPT ![b][k].fresh = FALSE]
        /\ UNCHANGED <<imports, upload, storage, purge, active>>

\* terminalizeExhausted
Exhaust(b, k) ==
    LET j == job[b][k]
    IN  /\ j.attempt >= PurgeCeiling
        /\ j.state = "PENDING" \/ (j.state = "PROCESSING" /\ ~j.fresh)
        /\ job' = [job EXCEPT ![b][k] = [@ EXCEPT !.state = "FAILED", !.holder = Nobody,
                                                  !.fresh = FALSE]]
        /\ UNCHANGED <<imports, upload, storage, purge, active, faults>>

-----------------------------------------------------------------------------
UploadStep(b) ==
    \/ PutIsAnswered(b) \/ FinishUpload(b) \/ FinishIsRefused(b)
    \/ CleanUp(b) \/ PlantTombstone(b) \/ DeleteUpload(b)

StorageStep(b) == PutLands(b) \/ PutIsDropped(b)

RunStep(r) == InsertChunk(r) \/ LeaseIsLost(r) \/ Complete(r) \/ Defer(r)

WorkerStep(w) ==
    \/ \E b \in Batches : Claim(w, b)
    \/ Restore(w)
    \/ RestoreFails(w)

SweepStep(b) == PurgeStage(b) \/ SweepStalled(b) \/ RetentionEnds(b)

OwnerStep(b) == ReserveStage(b) \/ ReserveImport(b) \/ ConfirmStage(b) \/ DiscardRecords(b)

PurgeStep(p) ==
    \/ \E b \in Batches, k \in Kinds : ClaimPurge(p, b, k)
    \/ CheckReference(p) \/ DeleteObject(p) \/ SettlePurge(p)

QueueStep(b, k) == GraceEnds(b, k) \/ PurgeLeaseLapses(b, k) \/ Exhaust(b, k)

Trouble ==
    \/ \E b \in Batches : \/ PutFails(b) \/ FinishFails(b) \/ CleanUpFails(b)
                          \/ CrashRequest(b)
    \/ \E r \in Runners : InsertFails(r) \/ CompleteFails(r)
    \/ \E w \in Workers : CrashWorker(w)
    \/ \E p \in Purgers : DeleteObjectFails(p) \/ CrashPurger(p)

Next ==
    \/ \E b \in Batches : UploadStep(b) \/ StorageStep(b) \/ SweepStep(b) \/ OwnerStep(b)
                          \/ LeaseLapses(b)
    \/ \E r \in Runners : RunStep(r)
    \/ \E w \in Workers : WorkerStep(w)
    \/ \E p \in Purgers : PurgeStep(p)
    \/ \E b \in Batches, k \in Kinds : QueueStep(b, k)
    \/ CloseAccount
    \/ Trouble

CsvSpec == Init /\ [][Next]_vars

\* The lanes run on timers, a request runs until it ends, Storage answers,
\* leases and graces run out, and the hourly sweeps come round.
FairCsvSpec ==
    /\ CsvSpec
    /\ \A b \in Batches : /\ WF_vars(UploadStep(b)) /\ WF_vars(StorageStep(b))
                          /\ WF_vars(SweepStep(b)) /\ WF_vars(LeaseLapses(b))
    /\ \A r \in Runners : WF_vars(RunStep(r))
    /\ \A w \in Workers : WF_vars(WorkerStep(w))
    /\ \A p \in Purgers : WF_vars(PurgeStep(p))
    /\ \A b \in Batches, k \in Kinds : WF_vars(QueueStep(b, k))

-----------------------------------------------------------------------------
\* The rows of the batches and the jobs, and the local state of every process.
CsvTypeOK ==
    /\ row \in [Batches -> BatchRow]
    /\ upload \in [Batches -> UploadPlace]
    /\ run \in [Runners -> Attempt]
    /\ flight \in [Batches -> BOOLEAN]
    /\ object \in [Batches -> BOOLEAN]
    /\ records \in [Batches -> SUBSET (1 .. Chunks)]
    /\ landed \in [Batches -> Seq(1 .. Chunks)]
    /\ job \in [Batches -> [Kinds -> PurgeJob]]
    /\ purge \in [Purgers -> Purge]
    /\ active \in BOOLEAN
    /\ faults \in 0 .. MaxFaults

\* The resume contract of runImportChunks (csvImport.service.ts:2285-2291):
\* whoever committed them, the chunks booked are exactly those the checkpoint
\* counts, each once and in order, and a COMPLETE batch has booked them all.
CheckpointIsExact ==
    \A b \in Batches :
        /\ landed[b] = [i \in 1 .. row[b].processed |-> i]
        /\ row[b].state = "COMPLETE" => row[b].processed = Chunks

\* No file that is stored, or may still be, is beyond reach, whatever died on
\* the way: a batch row names it, or a purge job that is not COMPLETE does.
FileIsNamed ==
    \A b \in Batches :
        object[b] \/ flight[b] =>
            \/ row[b].source
            \/ \E k \in Kinds : job[b][k].state \in {"PENDING", "PROCESSING", "FAILED"}

Phases == [b \in Batches |->
             CASE row[b].state = "NONE" -> "none"
               [] row[b].state \in {"STAGING", "STAGED"} -> "held"
               [] row[b].state \in {"PENDING", "PROCESSING"} -> "importing"
               [] row[b].state = "COMPLETE" -> "complete"
               [] row[b].state = "FAILED" -> "failed"
               [] OTHER -> "gone"]

Lifecycle == INSTANCE CsvLifecycle WITH phase <- Phases, booked <- landed

\* Leases, deferrals, retries and purges are invisible: an accepted file is
\* booked chunk by chunk and ends once (confirmImport, runImportChunks).
ImplementsLifecycle == Lifecycle!LifecycleSpec

\* The purge worker checks the batches before it deletes: no file goes from
\* under the row of a batch that still names it.
PurgeSparesNamedFiles ==
    [][\A p \in Purgers : purge[p].at = "deleting" /\ purge'[p].at = "settling"
            => ~row[purge[p].batch].source]_vars

\* failBatch claims the status before the file is deleted, so that an attempt
\* which lost the row cannot "destroy the stored file the new owner is about to
\* download" (csvImport.service.ts:2531-2533): a file is not deleted while
\* its batch waits for an import that has to read it.
QueuedFileIsKept ==
    [][\A b \in Batches : object[b] /\ ~object'[b]
            => ~(row[b].state = "PENDING" /\ row[b].source /\ ~row[b].staged)]_vars

\* A retry can "neither re-insert rows that landed [...] nor lose rows that didn't"
\* (csvImport.service.ts:2287-2290): the row of a confirmed import stays until
\* the import is COMPLETE or FAILED.
ConfirmedImportStays ==
    [][\A b \in Batches : row[b].state \in {"PENDING", "PROCESSING"} => row'[b].state # "GONE"]_vars

\* A confirmed import ends, COMPLETE, FAILED or removed, unless the account
\* that owns it is being deleted.
ImportsEnd ==
    \A b \in Batches :
        row[b].state \in {"PENDING", "PROCESSING"} ~>
            row[b].state \notin {"PENDING", "PROCESSING"} \/ ~active

GaveUp(b) == \E k \in Kinds : job[b][k].state = "FAILED"

\* A file no batch names any more is deleted in the end, or a purge of it has
\* FAILED, which the readiness endpoint reports.
UnnamedFilesGo ==
    \A b \in Batches :
        (object[b] /\ ~row[b].source) ~> (~object[b] \/ GaveUp(b))
=============================================================================
