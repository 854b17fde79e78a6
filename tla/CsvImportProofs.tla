--------------------------- MODULE CsvImportProofs ---------------------------
(***************************************************************************)
(* Proofs about CsvImport for any set of batches, workers and purge        *)
(* workers, any number of chunks and any budget of faults.  IInv is the    *)
(* inductive invariant: who holds a batch resumes at its checkpoint, and   *)
(* what the purge queue knows of has been reserved.                        *)
(***************************************************************************)
EXTENDS CsvImport, TLAPS

\* Who is at work is at work on a batch.
Bound ==
    /\ \A r \in Runners : IF run[r].at = "idle" THEN run[r] = Idle ELSE run[r].batch \in Batches
    /\ \A p \in Purgers : purge[p].at # "idle" => purge[p].batch \in Batches

USE CsvAssumption

-----------------------------------------------------------------------------
(* What the actions write is of its type. *)

LEMMA IdleType == Idle \in Attempt
  BY DEF Idle, Attempt

LEMMA NoRowType == NoRow \in BatchRow
  BY DEF NoRow, BatchRow, RowState

LEMMA RestingType == Resting \in Purge
  BY DEF Resting, Purge, Kinds

LEMMA ReleasedType ==
  ASSUME row \in [Batches -> BatchRow], NEW b \in Batches, NEW s \in RowState
  PROVE  /\ Released(b, s) \in BatchRow
         /\ [Released(b, s) EXCEPT !.source = FALSE] \in BatchRow
  BY DEF Released, BatchRow

LEMMA QueueOwnType ==
  ASSUME job \in [Batches -> [Kinds -> PurgeJob]], NEW b \in Batches,
         NEW grace \in BOOLEAN, QueueOwn(b, grace)
  PROVE  job' \in [Batches -> [Kinds -> PurgeJob]]
<1>1. [NoJob EXCEPT !.state = "PENDING", !.early = grace] \in PurgeJob
  BY DEF NoJob, PurgeJob
<1>2. "own" \in Kinds
  BY DEF Kinds
<1> QED BY <1>1, <1>2 DEF QueueOwn

\* A row replaced by a row.
LEMMA RowWriteType ==
  ASSUME CsvTypeOK, NEW b \in Batches, NEW x \in BatchRow, row' = [row EXCEPT ![b] = x]
  PROVE  row' \in [Batches -> BatchRow]
  BY DEF CsvTypeOK

LEMMA PurgeRowType ==
  ASSUME CsvTypeOK, NEW b \in Batches, PurgeRow(b)
  PROVE  row' \in [Batches -> BatchRow] /\ job' \in [Batches -> [Kinds -> PurgeJob]]
<1>1. job' \in [Batches -> [Kinds -> PurgeJob]]
  BY QueueOwnType DEF PurgeRow, CsvTypeOK
<1>2. [Released(b, "GONE") EXCEPT !.source = FALSE] \in BatchRow
  BY ReleasedType DEF CsvTypeOK, RowState
<1> QED BY <1>1, <1>2, RowWriteType DEF PurgeRow

LEMMA FailRowType ==
  ASSUME CsvTypeOK, NEW b \in Batches, NEW grace \in BOOLEAN, FailRow(b, grace)
  PROVE  row' \in [Batches -> BatchRow] /\ job' \in [Batches -> [Kinds -> PurgeJob]]
<1>1. job' \in [Batches -> [Kinds -> PurgeJob]]
  BY QueueOwnType DEF FailRow, CsvTypeOK
<1>2. [Released(b, "FAILED") EXCEPT !.source = FALSE] \in BatchRow
  BY ReleasedType DEF CsvTypeOK, RowState
<1> QED BY <1>1, <1>2, RowWriteType DEF FailRow

LEMMA UploadGoesType ==
  ASSUME CsvTypeOK, NEW b \in Batches, NEW place \in UploadPlace, UploadGoes(b, place)
  PROVE  upload' \in [Batches -> UploadPlace]
  BY DEF UploadGoes, CsvTypeOK

LEMMA RunGoesType ==
  ASSUME CsvTypeOK, NEW r \in Runners, NEW place \in {"restoring", "inserting", "deferring"},
         RunGoes(r, place)
  PROVE  run' \in [Runners -> Attempt]
<1> DEFINE x == [run[r] EXCEPT !.at = place]
<1>1. x \in Attempt
  <2>1. run[r] \in Attempt
    BY DEF CsvTypeOK
  <2> QED BY <2>1 DEF Attempt
<1>2. run' = [run EXCEPT ![r] = x]
  BY DEF RunGoes
<1> HIDE DEF x
<1> QED BY <1>1, <1>2 DEF CsvTypeOK

LEMMA EndsType ==
  ASSUME CsvTypeOK, NEW r \in Runners, Ends(r)
  PROVE  run' \in [Runners -> Attempt]
  BY IdleType DEF Ends, CsvTypeOK

LEMMA BeginsType ==
  ASSUME CsvTypeOK, NEW r \in Runners, NEW b \in Batches, NEW attempt \in Nat,
         NEW place \in {"uploading", "restoring", "inserting"}, Begins(r, b, attempt, place)
  PROVE  run' \in [Runners -> Attempt]
  BY DEF Begins, CsvTypeOK, Attempt, BatchRow

LEMMA FaultType == CsvTypeOK /\ Fault => faults' \in 0 .. MaxFaults
  BY DEF CsvTypeOK, Fault

LEMMA RowOf == CsvTypeOK => \A b \in Batches : row[b] \in BatchRow
  BY DEF CsvTypeOK

LEMMA RunOf == CsvTypeOK => \A r \in Runners : run[r] \in Attempt
  BY DEF CsvTypeOK

LEMMA JobOfType == CsvTypeOK => \A b \in Batches, k \in Kinds : job[b][k] \in PurgeJob
  BY DEF CsvTypeOK

LEMMA JobWriteType ==
  ASSUME CsvTypeOK, NEW b \in Batches, NEW k \in Kinds, NEW x \in PurgeJob,
         job' = [job EXCEPT ![b][k] = x]
  PROVE  job' \in [Batches -> [Kinds -> PurgeJob]]
  BY DEF CsvTypeOK

LEMMA PublishedType ==
  ASSUME CsvTypeOK, NEW b \in Batches
  PROVE  Published(b) \in BatchRow
<1>1. row[b] \in BatchRow
  BY RowOf
<1>2. [row[b] EXCEPT !.fresh = TRUE] \in BatchRow
  BY <1>1 DEF BatchRow
<1>3. Released(b, "STAGED") \in BatchRow /\ Released(b, "PENDING") \in BatchRow
  BY ReleasedType DEF CsvTypeOK, RowState
<1> QED BY <1>2, <1>3 DEF Published

-----------------------------------------------------------------------------
(* Type correctness, an action at a time. *)

LEMMA TypeInit == Init => CsvTypeOK
<1> SUFFICES ASSUME Init PROVE CsvTypeOK
  OBVIOUS
<1>1. row \in [Batches -> BatchRow] /\ run \in [Runners -> Attempt]
  BY NoRowType, IdleType DEF Init
<1>2. job \in [Batches -> [Kinds -> PurgeJob]]
  BY DEF Init, NoJob, PurgeJob
<1>3. purge \in [Purgers -> Purge]
  BY RestingType DEF Init
<1>4. landed \in [Batches -> Seq(1 .. Chunks)]
  BY DEF Init
<1>5. /\ upload \in [Batches -> UploadPlace] /\ flight \in [Batches -> BOOLEAN]
      /\ object \in [Batches -> BOOLEAN] /\ records \in [Batches -> SUBSET (1 .. Chunks)]
      /\ active \in BOOLEAN /\ faults \in 0 .. MaxFaults
  BY DEF Init, UploadPlace
<1> QED BY <1>1, <1>2, <1>3, <1>4, <1>5 DEF CsvTypeOK

LEMMA ReserveType ==
  ASSUME CsvTypeOK, NEW b \in Batches, Reserve(b)
  PROVE  upload' \in [Batches -> UploadPlace] /\ flight' \in [Batches -> BOOLEAN]
  BY UploadGoesType DEF Reserve, UploadPlace, CsvTypeOK

LEMMA ReservationType ==
  ASSUME NEW b \in Batches, NEW state \in RowState, NEW staged \in BOOLEAN, NEW attempt \in Nat
  PROVE  Reservation(b, state, staged, attempt) \in BatchRow
<1>1. 0 \in 0 .. Chunks
  BY DEF CsvAssumption
<1> QED BY <1>1 DEF Reservation, BatchRow, Runners

LEMMA ReserveStageType ==
  ASSUME CsvTypeOK, NEW b \in Batches, ReserveStage(b) PROVE CsvTypeOK'
<1>1. Reservation(b, "STAGING", TRUE, 0) \in BatchRow
  BY ReservationType DEF RowState
<1>2. row' \in [Batches -> BatchRow]
  BY <1>1, RowWriteType DEF ReserveStage
<1>3. upload' \in [Batches -> UploadPlace] /\ flight' \in [Batches -> BOOLEAN]
  BY ReserveType DEF ReserveStage
<1> QED BY <1>2, <1>3 DEF ReserveStage, CsvTypeOK, purging

LEMMA ReserveImportType ==
  ASSUME CsvTypeOK, NEW b \in Batches, ReserveImport(b) PROVE CsvTypeOK'
<1> PICK attempt \in {0, 1} :
        /\ Reserve(b)
        /\ row' = [row EXCEPT ![b] = Reservation(b, "PROCESSING", FALSE, attempt)]
        /\ Begins(b, b, attempt, "uploading")
        /\ UNCHANGED <<object, records, landed, purging, active, faults>>
  BY DEF ReserveImport
<1>1. Reservation(b, "PROCESSING", FALSE, attempt) \in BatchRow
  BY ReservationType DEF RowState
<1>2. row' \in [Batches -> BatchRow]
  BY <1>1, RowWriteType
<1>3. upload' \in [Batches -> UploadPlace] /\ flight' \in [Batches -> BOOLEAN]
  BY ReserveType
<1>4. run' \in [Runners -> Attempt]
  BY BeginsType DEF Runners
<1> QED BY <1>2, <1>3, <1>4 DEF CsvTypeOK, purging

LEMMA PutType ==
  ASSUME CsvTypeOK, NEW b \in Batches,
         PutLands(b) \/ PutIsDropped(b) \/ PutIsAnswered(b) \/ PutFails(b)
         \/ FinishIsRefused(b) \/ CleanUpFails(b)
  PROVE  CsvTypeOK'
<1>1. upload' \in [Batches -> UploadPlace]
  BY UploadGoesType DEF PutLands, PutIsDropped, PutIsAnswered, PutFails, FinishIsRefused,
     CleanUpFails, UploadPlace, CsvTypeOK
<1>2. faults' \in 0 .. MaxFaults
  BY FaultType DEF PutLands, PutIsDropped, PutIsAnswered, PutFails, FinishIsRefused,
     CleanUpFails, CsvTypeOK
<1>3. flight' \in [Batches -> BOOLEAN] /\ object' \in [Batches -> BOOLEAN]
  BY DEF PutLands, PutIsDropped, PutIsAnswered, PutFails, FinishIsRefused,
     CleanUpFails, CsvTypeOK, storage
<1> QED BY <1>1, <1>2, <1>3 DEF PutLands, PutIsDropped, PutIsAnswered, PutFails,
        FinishIsRefused, CleanUpFails, CsvTypeOK, imports, purging

LEMMA FinishUploadType ==
  ASSUME CsvTypeOK, NEW b \in Batches, FinishUpload(b) PROVE CsvTypeOK'
<1>1. row' \in [Batches -> BatchRow]
  BY PublishedType, RowWriteType DEF FinishUpload
<1>2. upload' \in [Batches -> UploadPlace]
  BY UploadGoesType DEF FinishUpload, UploadPlace
<1>3. run' \in [Runners -> Attempt]
  <2> DEFINE x == [run[b] EXCEPT !.at = "inserting"]
  <2>1. x \in Attempt
    <3>1. run[b] \in Attempt
      BY RunOf DEF Runners
    <3> QED BY <3>1 DEF Attempt
  <2>2. run' = [run EXCEPT ![b] = x] \/ run' = [run EXCEPT ![b] = Idle]
    BY DEF FinishUpload
  <2> HIDE DEF x
  <2> QED BY <2>1, <2>2, IdleType DEF CsvTypeOK, Runners
<1> QED BY <1>1, <1>2, <1>3 DEF FinishUpload, CsvTypeOK, storage, purging

LEMMA FinishFailsType ==
  ASSUME CsvTypeOK, NEW b \in Batches, FinishFails(b) PROVE CsvTypeOK'
<1>1. row' \in [Batches -> BatchRow]
  BY PublishedType, RowWriteType DEF FinishFails, CsvTypeOK
<1>2. upload' \in [Batches -> UploadPlace]
  BY UploadGoesType DEF FinishFails, UploadPlace
<1>3. faults' \in 0 .. MaxFaults
  BY FaultType DEF FinishFails
<1> QED BY <1>1, <1>2, <1>3 DEF FinishFails, CsvTypeOK, storage, purging

LEMMA CleanUpType ==
  ASSUME CsvTypeOK, NEW b \in Batches, CleanUp(b) PROVE CsvTypeOK'
<1>1. row' \in [Batches -> BatchRow] /\ job' \in [Batches -> [Kinds -> PurgeJob]]
  BY PurgeRowType, FailRowType DEF CleanUp, CsvTypeOK
<1>2. upload' \in [Batches -> UploadPlace]
  BY UploadGoesType DEF CleanUp, UploadPlace
<1> QED BY <1>1, <1>2 DEF CleanUp, CsvTypeOK, storage

LEMMA PlantTombstoneType ==
  ASSUME CsvTypeOK, NEW b \in Batches, PlantTombstone(b) PROVE CsvTypeOK'
<1>1. Detached \in PurgeJob /\ "detached" \in Kinds
  BY DEF Detached, NoJob, PurgeJob, Kinds
<1>2. job' \in [Batches -> [Kinds -> PurgeJob]]
  BY <1>1, JobWriteType DEF PlantTombstone, CsvTypeOK
<1>3. upload' \in [Batches -> UploadPlace]
  BY UploadGoesType DEF PlantTombstone, UploadPlace
<1>4. faults' \in 0 .. MaxFaults
  BY FaultType DEF PlantTombstone, CsvTypeOK
<1> QED BY <1>2, <1>3, <1>4 DEF PlantTombstone, CsvTypeOK, storage, imports

LEMMA DeleteUploadType ==
  ASSUME CsvTypeOK, NEW b \in Batches, DeleteUpload(b) PROVE CsvTypeOK'
<1>1. upload' \in [Batches -> UploadPlace]
  BY UploadGoesType DEF DeleteUpload, UploadPlace
<1>2. faults' \in 0 .. MaxFaults
  BY FaultType DEF DeleteUpload, CsvTypeOK
<1>3. run' \in [Runners -> Attempt]
  BY IdleType DEF DeleteUpload, CsvTypeOK, Runners
<1>4. object' \in [Batches -> BOOLEAN]
  BY DEF DeleteUpload, CsvTypeOK
<1> QED BY <1>1, <1>2, <1>3, <1>4 DEF DeleteUpload, CsvTypeOK, purging

LEMMA TakenType ==
  ASSUME CsvTypeOK, NEW b \in Batches, NEW r \in Runners, NEW attempt \in Nat
  PROVE  Taken(b, r, attempt) \in BatchRow
<1>1. row[b] \in BatchRow
  BY RowOf
<1> QED BY <1>1 DEF Taken, BatchRow, RowState

LEMMA ConfirmStageType ==
  ASSUME CsvTypeOK, NEW b \in Batches, ConfirmStage(b) PROVE CsvTypeOK'
<1>1. CASE row' = [row EXCEPT ![b].state = "PENDING"] /\ UNCHANGED run
  <2> DEFINE x == [row[b] EXCEPT !.state = "PENDING"]
  <2>1. x \in BatchRow
    <3>1. row[b] \in BatchRow
      BY RowOf
    <3> QED BY <3>1 DEF BatchRow, RowState
  <2>2. row' = [row EXCEPT ![b] = x]
    BY <1>1
  <2> HIDE DEF x
  <2>3. row' \in [Batches -> BatchRow]
    BY <2>1, <2>2, RowWriteType
  <2> QED BY <1>1, <2>3 DEF ConfirmStage, CsvTypeOK, storage, purging
<1>2. CASE row' = [row EXCEPT ![b] = Taken(b, b, 1)] /\ Begins(b, b, 1, "inserting")
  <2>1. row' \in [Batches -> BatchRow]
    BY <1>2, TakenType, RowWriteType DEF Runners
  <2>2. run' \in [Runners -> Attempt]
    BY <1>2, BeginsType DEF Runners
  <2> QED BY <2>1, <2>2 DEF ConfirmStage, CsvTypeOK, storage, purging
<1> QED BY <1>1, <1>2 DEF ConfirmStage

LEMMA SweepType ==
  ASSUME CsvTypeOK, NEW b \in Batches, PurgeStage(b) \/ SweepStalled(b)
  PROVE  CsvTypeOK'
<1>1. row' \in [Batches -> BatchRow] /\ job' \in [Batches -> [Kinds -> PurgeJob]]
  BY PurgeRowType, FailRowType DEF PurgeStage, SweepStalled
<1> QED BY <1>1 DEF PurgeStage, SweepStalled, CsvTypeOK, storage

LEMMA DiscardRecordsType ==
  ASSUME CsvTypeOK, NEW b \in Batches, DiscardRecords(b) PROVE CsvTypeOK'
<1>1. row' \in [Batches -> BatchRow] /\ job' \in [Batches -> [Kinds -> PurgeJob]]
  BY PurgeRowType DEF DiscardRecords, CsvTypeOK
<1>2. records' \in [Batches -> SUBSET (1 .. Chunks)]
  BY DEF DiscardRecords, CsvTypeOK
<1> QED BY <1>1, <1>2 DEF DiscardRecords, CsvTypeOK, storage

\* The write of one Boolean column.
LEMMA RowFlagType ==
  ASSUME CsvTypeOK, NEW b \in Batches,
         \/ row' = [row EXCEPT ![b].fresh = TRUE]
         \/ row' = [row EXCEPT ![b].fresh = FALSE]
         \/ row' = [row EXCEPT ![b].source = FALSE]
  PROVE  row' \in [Batches -> BatchRow]
<1>1. /\ [row[b] EXCEPT !.fresh = TRUE] \in BatchRow
      /\ [row[b] EXCEPT !.fresh = FALSE] \in BatchRow
      /\ [row[b] EXCEPT !.source = FALSE] \in BatchRow
  <2>1. row[b] \in BatchRow
    BY RowOf
  <2> QED BY <2>1 DEF BatchRow
<1>2. CASE row' = [row EXCEPT ![b].fresh = TRUE]
  <2> DEFINE x == [row[b] EXCEPT !.fresh = TRUE]
  <2>1. row' = [row EXCEPT ![b] = x]
    BY <1>2
  <2>2. x \in BatchRow
    BY <1>1
  <2> HIDE DEF x
  <2> QED BY <2>1, <2>2, RowWriteType
<1>3. CASE row' = [row EXCEPT ![b].fresh = FALSE]
  <2> DEFINE x == [row[b] EXCEPT !.fresh = FALSE]
  <2>1. row' = [row EXCEPT ![b] = x]
    BY <1>3
  <2>2. x \in BatchRow
    BY <1>1
  <2> HIDE DEF x
  <2> QED BY <2>1, <2>2, RowWriteType
<1>4. CASE row' = [row EXCEPT ![b].source = FALSE]
  <2> DEFINE x == [row[b] EXCEPT !.source = FALSE]
  <2>1. row' = [row EXCEPT ![b] = x]
    BY <1>4
  <2>2. x \in BatchRow
    BY <1>1
  <2> HIDE DEF x
  <2> QED BY <2>1, <2>2, RowWriteType
<1> QED BY <1>2, <1>3, <1>4

LEMMA RetentionEndsType ==
  ASSUME CsvTypeOK, NEW b \in Batches, RetentionEnds(b) PROVE CsvTypeOK'
<1>1. job' \in [Batches -> [Kinds -> PurgeJob]]
  BY QueueOwnType DEF RetentionEnds, CsvTypeOK
<1>2. row' \in [Batches -> BatchRow]
  BY RowFlagType DEF RetentionEnds
<1> QED BY <1>1, <1>2 DEF RetentionEnds, CsvTypeOK, storage

LEMMA CloseAccountType == CsvTypeOK /\ CloseAccount => CsvTypeOK'
  BY DEF CloseAccount, CsvTypeOK, imports, storage, purging

LEMMA LeaseLapsesType ==
  ASSUME CsvTypeOK, NEW b \in Batches, LeaseLapses(b) PROVE CsvTypeOK'
<1>1. row' \in [Batches -> BatchRow]
  BY RowFlagType DEF LeaseLapses
<1>2. faults' \in 0 .. MaxFaults
  BY FaultType DEF LeaseLapses, CsvTypeOK
<1> QED BY <1>1, <1>2 DEF LeaseLapses, CsvTypeOK, storage, purging

LEMMA ClaimType ==
  ASSUME CsvTypeOK, NEW w \in Workers, NEW b \in Batches, Claim(w, b) PROVE CsvTypeOK'
<1>1. row[b].attempt + 1 \in Nat
  BY RowOf DEF BatchRow
<1>2. row' = [row EXCEPT ![b] = Taken(b, w, row[b].attempt + 1)]
  BY DEF Claim
<1>3. row' \in [Batches -> BatchRow]
  BY <1>1, <1>2, TakenType, RowWriteType DEF Runners
<1>4. run' \in [Runners -> Attempt]
  BY <1>1, BeginsType DEF Claim, Runners
<1> QED BY <1>3, <1>4 DEF Claim, CsvTypeOK, storage, purging

LEMMA RestoreType ==
  ASSUME CsvTypeOK, Bound, NEW w \in Workers, Restore(w) \/ RestoreFails(w)
  PROVE  CsvTypeOK'
<1>1. w \in Runners /\ run[w].batch \in Batches
  BY DEF Bound, Restore, RestoreFails, Runners
<1>2. row' \in [Batches -> BatchRow]
  BY <1>1, RowFlagType DEF Restore, RestoreFails, CsvTypeOK
<1>3. run' \in [Runners -> Attempt]
  BY <1>1, RunGoesType, EndsType DEF Restore, RestoreFails
<1>4. faults' \in 0 .. MaxFaults
  BY FaultType DEF Restore, RestoreFails, CsvTypeOK
<1> QED BY <1>2, <1>3, <1>4 DEF Restore, RestoreFails, CsvTypeOK, storage, purging

LEMMA CommitChunkType ==
  ASSUME CsvTypeOK, Bound, NEW r \in Runners, Inserting(r), CommitChunk(r)
  PROVE  /\ row' \in [Batches -> BatchRow]
         /\ records' \in [Batches -> SUBSET (1 .. Chunks)]
         /\ landed' \in [Batches -> Seq(1 .. Chunks)]
<1> DEFINE b == run[r].batch
           c == run[r].next + 1
           x == [row[b] EXCEPT !.processed = c, !.fresh = TRUE]
<1>1. b \in Batches
  BY DEF Bound, Inserting
<1>2. run[r].next \in 0 .. Chunks /\ run[r].next < Chunks
  BY RunOf DEF Attempt, Inserting
<1>3. c \in 1 .. Chunks /\ c \in 0 .. Chunks
  BY <1>2 DEF CsvAssumption
<1>4. x \in BatchRow
  <2> HIDE DEF c
  <2>1. row[b] \in BatchRow
    BY <1>1, RowOf
  <2> QED BY <1>3, <2>1 DEF BatchRow
<1>5. /\ row' = [row EXCEPT ![b] = x]
      /\ records' = [records EXCEPT ![b] = records[b] \cup {c}]
      /\ landed' = [landed EXCEPT ![b] = Append(landed[b], c)]
  BY DEF CommitChunk
<1> HIDE DEF b, c, x
<1>6. Append(landed[b], c) \in Seq(1 .. Chunks) /\ records[b] \cup {c} \in SUBSET (1 .. Chunks)
  BY <1>1, <1>3 DEF CsvTypeOK
<1> QED BY <1>1, <1>4, <1>5, <1>6 DEF CsvTypeOK

LEMMA InsertChunkType ==
  ASSUME CsvTypeOK, Bound, NEW r \in Runners, InsertChunk(r) PROVE CsvTypeOK'
<1>1. /\ row' \in [Batches -> BatchRow]
      /\ records' \in [Batches -> SUBSET (1 .. Chunks)]
      /\ landed' \in [Batches -> Seq(1 .. Chunks)]
  BY CommitChunkType DEF InsertChunk
<1>2. run' \in [Runners -> Attempt]
  <2> DEFINE n == run[r].next + 1
             x == [run[r] EXCEPT !.next = n]
  <2>1. n \in 0 .. Chunks
    <3>1. run[r].next \in 0 .. Chunks /\ run[r].next < Chunks
      BY RunOf DEF Attempt, InsertChunk, Inserting
    <3> QED BY <3>1 DEF CsvAssumption
  <2>2. x \in Attempt
    <3> HIDE DEF n
    <3>1. run[r] \in Attempt
      BY RunOf
    <3> QED BY <2>1, <3>1 DEF Attempt
  <2>3. run' = [run EXCEPT ![r] = x]
    BY DEF InsertChunk
  <2> HIDE DEF x
  <2> QED BY <2>2, <2>3 DEF CsvTypeOK
<1> QED BY <1>1, <1>2 DEF InsertChunk, CsvTypeOK, storage, purging

LEMMA InsertFailsType ==
  ASSUME CsvTypeOK, Bound, NEW r \in Runners, InsertFails(r) PROVE CsvTypeOK'
<1>1. /\ row' \in [Batches -> BatchRow]
      /\ records' \in [Batches -> SUBSET (1 .. Chunks)]
      /\ landed' \in [Batches -> Seq(1 .. Chunks)]
  BY CommitChunkType DEF InsertFails, CsvTypeOK
<1>2. run' \in [Runners -> Attempt]
  BY RunGoesType DEF InsertFails
<1>3. faults' \in 0 .. MaxFaults
  BY FaultType DEF InsertFails
<1> QED BY <1>1, <1>2, <1>3 DEF InsertFails, CsvTypeOK, storage, purging

LEMMA CompleteType ==
  ASSUME CsvTypeOK, Bound, NEW r \in Runners, Complete(r) PROVE CsvTypeOK'
<1>1. run[r].batch \in Batches
  BY DEF Bound, Complete
<1>2. row' \in [Batches -> BatchRow]
  BY <1>1, ReleasedType, RowWriteType DEF Complete, CsvTypeOK, RowState
<1>3. run' \in [Runners -> Attempt]
  BY EndsType DEF Complete
<1> QED BY <1>2, <1>3 DEF Complete, CsvTypeOK, storage, purging

LEMMA DeferType ==
  ASSUME CsvTypeOK, Bound, NEW r \in Runners, Defer(r) PROVE CsvTypeOK'
<1>1. run[r].batch \in Batches
  BY DEF Bound, Defer
<1>2. row' \in [Batches -> BatchRow] /\ job' \in [Batches -> [Kinds -> PurgeJob]]
  BY <1>1, FailRowType, ReleasedType, RowWriteType DEF Defer, CsvTypeOK, RowState
<1>3. run' \in [Runners -> Attempt]
  BY EndsType DEF Defer
<1> QED BY <1>2, <1>3 DEF Defer, CsvTypeOK, storage

LEMMA AttemptEndsType ==
  ASSUME CsvTypeOK, NEW r \in Runners,
         LeaseIsLost(r) \/ CompleteFails(r) \/ (r \in Workers /\ CrashWorker(r))
  PROVE  CsvTypeOK'
<1>1. run' \in [Runners -> Attempt]
  BY RunGoesType, EndsType DEF LeaseIsLost, CompleteFails, CrashWorker
<1>2. faults' \in 0 .. MaxFaults
  BY FaultType DEF LeaseIsLost, CompleteFails, CrashWorker, CsvTypeOK
<1> QED BY <1>1, <1>2 DEF LeaseIsLost, CompleteFails, CrashWorker, CsvTypeOK, storage, purging

LEMMA CrashRequestType ==
  ASSUME CsvTypeOK, NEW b \in Batches, CrashRequest(b) PROVE CsvTypeOK'
<1>1. run' \in [Runners -> Attempt] /\ upload' \in [Batches -> UploadPlace]
  BY EndsType, UploadGoesType DEF CrashRequest, Runners, UploadPlace
<1>2. faults' \in 0 .. MaxFaults
  BY FaultType DEF CrashRequest
<1> QED BY <1>1, <1>2 DEF CrashRequest, CsvTypeOK, storage, purging

-----------------------------------------------------------------------------
(* The purge queue. *)

LEMMA JobFlagType ==
  ASSUME CsvTypeOK, NEW b \in Batches, NEW k \in Kinds, GraceEnds(b, k) \/ PurgeLeaseLapses(b, k)
  PROVE  CsvTypeOK'
<1>1. job[b][k] \in PurgeJob
  BY JobOfType
<1>2. CASE GraceEnds(b, k)
  <2> DEFINE x == [job[b][k] EXCEPT !.early = FALSE]
  <2>1. x \in PurgeJob
    BY <1>1 DEF PurgeJob
  <2>2. job' = [job EXCEPT ![b][k] = x]
    BY <1>2 DEF GraceEnds
  <2> HIDE DEF x
  <2> QED BY <1>2, <2>1, <2>2, JobWriteType DEF GraceEnds, CsvTypeOK, imports, storage
<1>3. CASE PurgeLeaseLapses(b, k)
  <2> DEFINE x == [job[b][k] EXCEPT !.fresh = FALSE]
  <2>1. x \in PurgeJob
    BY <1>1 DEF PurgeJob
  <2>2. job' = [job EXCEPT ![b][k] = x]
    BY <1>3 DEF PurgeLeaseLapses
  <2>3. job' \in [Batches -> [Kinds -> PurgeJob]]
    <3> HIDE DEF x
    <3> QED BY <2>1, <2>2, JobWriteType
  <2>4. faults' \in 0 .. MaxFaults
    BY <1>3, FaultType DEF PurgeLeaseLapses, CsvTypeOK
  <2> QED BY <1>3, <2>3, <2>4 DEF PurgeLeaseLapses, CsvTypeOK, imports, storage
<1> QED BY <1>2, <1>3

LEMMA ExhaustType ==
  ASSUME CsvTypeOK, NEW b \in Batches, NEW k \in Kinds, Exhaust(b, k) PROVE CsvTypeOK'
<1> DEFINE x == [job[b][k] EXCEPT !.state = "FAILED", !.holder = Nobody, !.fresh = FALSE]
<1>1. x \in PurgeJob
  <2>1. job[b][k] \in PurgeJob
    BY JobOfType
  <2> QED BY <2>1 DEF PurgeJob
<1>2. job' = [job EXCEPT ![b][k] = x]
  BY DEF Exhaust
<1> HIDE DEF x
<1> QED BY <1>1, <1>2, JobWriteType DEF Exhaust, CsvTypeOK, imports, storage

LEMMA RestsType ==
  ASSUME CsvTypeOK, NEW p \in Purgers, Rests(p) PROVE purge' \in [Purgers -> Purge]
  BY RestingType DEF Rests, CsvTypeOK

LEMMA PurgeGoesType ==
  ASSUME CsvTypeOK, NEW p \in Purgers, NEW place \in {"deleting", "settling"}, PurgeGoes(p, place)
  PROVE  purge' \in [Purgers -> Purge]
<1> DEFINE x == [purge[p] EXCEPT !.at = place]
<1>1. x \in Purge
  <2>1. purge[p] \in Purge
    BY DEF CsvTypeOK
  <2> QED BY <2>1 DEF Purge
<1>2. purge' = [purge EXCEPT ![p] = x]
  BY DEF PurgeGoes
<1> HIDE DEF x
<1> QED BY <1>1, <1>2 DEF CsvTypeOK

LEMMA EndsJobType ==
  ASSUME CsvTypeOK, NEW p \in Purgers, purge[p].batch \in Batches,
         NEW state \in {"PENDING", "COMPLETE", "FAILED"}, EndsJob(p, state)
  PROVE  job' \in [Batches -> [Kinds -> PurgeJob]]
<1> DEFINE b == purge[p].batch
           k == purge[p].kind
           x == [job[b][k] EXCEPT !.state = state, !.holder = Nobody, !.fresh = FALSE]
<1>1. k \in Kinds /\ b \in Batches
  BY DEF CsvTypeOK, Purge
<1>2. x \in PurgeJob
  <2>1. job[b][k] \in PurgeJob
    BY <1>1, JobOfType
  <2> QED BY <2>1 DEF PurgeJob
<1>3. job' = [job EXCEPT ![b][k] = x] \/ job' = job
  BY DEF EndsJob, JobOf
<1> HIDE DEF b, k, x
<1> QED BY <1>1, <1>2, <1>3, JobWriteType DEF CsvTypeOK

LEMMA ClaimPurgeType ==
  ASSUME CsvTypeOK, NEW p \in Purgers, NEW b \in Batches, NEW k \in Kinds, ClaimPurge(p, b, k)
  PROVE  CsvTypeOK'
<1> DEFINE n == job[b][k].attempt + 1
           x == [job[b][k] EXCEPT !.state = "PROCESSING", !.holder = p, !.fresh = TRUE, !.attempt = n]
           y == [at |-> "checking", batch |-> b, kind |-> k, attempt |-> n]
<1>1. job[b][k] \in PurgeJob
  BY JobOfType
<1>2. n \in Nat
  BY <1>1 DEF PurgeJob
<1>3. x \in PurgeJob
  <2> HIDE DEF n
  <2> QED BY <1>1, <1>2 DEF PurgeJob
<1>4. y \in Purge
  <2> HIDE DEF n
  <2> QED BY <1>2 DEF Purge
<1>5. job' = [job EXCEPT ![b][k] = x] /\ purge' = [purge EXCEPT ![p] = y]
  BY DEF ClaimPurge
<1> HIDE DEF n, x, y
<1>6. purge' \in [Purgers -> Purge]
  BY <1>4, <1>5 DEF CsvTypeOK
<1> QED BY <1>3, <1>5, <1>6, JobWriteType DEF ClaimPurge, CsvTypeOK, imports, storage

LEMMA PurgeWorkType ==
  ASSUME CsvTypeOK, Bound, NEW p \in Purgers,
         \/ CheckReference(p) \/ DeleteObject(p) \/ SettlePurge(p)
         \/ DeleteObjectFails(p) \/ CrashPurger(p)
  PROVE  CsvTypeOK'
<1>1. purge[p].batch \in Batches
  BY DEF Bound, CheckReference, DeleteObject, SettlePurge, DeleteObjectFails, CrashPurger
<1>2. job' \in [Batches -> [Kinds -> PurgeJob]]
  BY <1>1, EndsJobType DEF CheckReference, DeleteObject, SettlePurge, DeleteObjectFails,
     CrashPurger, CsvTypeOK
<1>3. purge' \in [Purgers -> Purge]
  BY RestsType, PurgeGoesType DEF CheckReference, DeleteObject, SettlePurge, DeleteObjectFails,
     CrashPurger
<1>4. faults' \in 0 .. MaxFaults /\ object' \in [Batches -> BOOLEAN]
  BY FaultType DEF CheckReference, DeleteObject, SettlePurge, DeleteObjectFails,
     CrashPurger, CsvTypeOK, storage
<1> QED BY <1>2, <1>3, <1>4 DEF CheckReference, DeleteObject, SettlePurge, DeleteObjectFails,
        CrashPurger, CsvTypeOK, imports, storage

-----------------------------------------------------------------------------
(* The inductive invariant. *)

\* A request that imports its file itself is at work on it from the upload on.
StoresFirst ==
    \A b \in Batches :
        Uploading(b) /\ ~row[b].staged => run[b].at = "uploading" /\ run[b].batch = b

\* Who holds the lease of a batch goes on where its checkpoint stands.
Resumes ==
    \A r \in Runners :
        run[r].at \in {"uploading", "restoring", "inserting"} /\ Owns(r)
            => run[r].next = row[run[r].batch].processed

\* Of a batch that was never reserved nothing is booked and nobody knows.
Unknown ==
    \A b \in Batches :
        row[b].state = "NONE" => /\ row[b].processed = 0
                                 /\ ~Uploading(b)
                                 /\ \A k \in Kinds : job[b][k].state = "NONE"

\* What a purge worker found when it checked is still so.
Checked ==
    \A p \in Purgers :
        /\ purge[p].at # "idle" => row[purge[p].batch].state # "NONE"
        /\ purge[p].at \in {"deleting", "settling"} => ~row[purge[p].batch].source

IInv ==
    /\ CsvTypeOK
    /\ Bound
    /\ StoresFirst
    /\ Resumes
    /\ Unknown
    /\ CheckpointIsExact
    /\ Checked

-----------------------------------------------------------------------------
(* Most steps take no lease and book nothing. *)

\* The row of b keeps its lease or loses it.
Ages(b) ==
    /\ row'[b].processed = row[b].processed
    /\ row'[b].staged = row[b].staged
    /\ row'[b].source => row[b].source
    /\ row'[b].state = "PROCESSING" => /\ row[b].state = "PROCESSING"
                                       /\ row'[b].holder = row[b].holder
                                       /\ row'[b].attempt = row[b].attempt
    /\ row'[b].state = "COMPLETE" => row[b].state = "COMPLETE"
    /\ row'[b].state = "NONE" => row[b].state = "NONE"

\* The attempt of r ends, waits or goes on.
Moves(r) ==
    \/ run'[r] = Idle /\ (r \in Batches /\ run[r].at = "uploading" => ~Uploading(r)')
    \/ run'[r] = run[r]
    \/ /\ run[r].at \in {"restoring", "inserting"}
       /\ run'[r].at \in {"inserting", "deferring"}
       /\ run'[r].batch = run[r].batch
       /\ run'[r].attempt = run[r].attempt
       /\ run'[r].next = run[r].next

Calm ==
    /\ \A b \in Batches : Ages(b) /\ (Uploading(b)' => Uploading(b))
    /\ \A r \in Runners : Moves(r)
    /\ landed' = landed

LEMMA AgesUnchanged == row' = row => \A b \in Batches : Ages(b)
  BY DEF Ages

LEMMA MovesUnchanged == run' = run => \A r \in Runners : Moves(r)
  BY DEF Moves

LEMMA AgesReleased ==
  ASSUME CsvTypeOK, NEW b \in Batches, NEW s \in {"STAGED", "PENDING", "FAILED", "GONE"},
         \/ row' = [row EXCEPT ![b] = Released(b, s)]
         \/ row' = [row EXCEPT ![b] = [Released(b, s) EXCEPT !.source = FALSE]]
  PROVE  \A c \in Batches : Ages(c)
<1> DEFINE x == Released(b, s)
           y == [Released(b, s) EXCEPT !.source = FALSE]
<1>1. row[b] \in BatchRow
  BY RowOf
<1>2. /\ x.processed = row[b].processed /\ y.processed = row[b].processed
      /\ x.staged = row[b].staged /\ y.staged = row[b].staged
      /\ x.source = row[b].source /\ y.source = FALSE
      /\ x.state = s /\ y.state = s
  BY <1>1 DEF BatchRow, Released
<1>3. row' = [row EXCEPT ![b] = x] \/ row' = [row EXCEPT ![b] = y]
  OBVIOUS
<1> HIDE DEF x, y
<1>4. row'[b] = x \/ row'[b] = y
  BY <1>3 DEF CsvTypeOK
<1>5. ASSUME NEW c \in Batches, c # b PROVE row'[c] = row[c]
  BY <1>3, <1>5 DEF CsvTypeOK
<1> QED BY <1>2, <1>4, <1>5 DEF Ages

LEMMA AgesFlag ==
  ASSUME CsvTypeOK, NEW b \in Batches,
         \/ row' = [row EXCEPT ![b].fresh = TRUE]
         \/ row' = [row EXCEPT ![b].fresh = FALSE]
         \/ row' = [row EXCEPT ![b].source = FALSE]
  PROVE  \A c \in Batches : Ages(c)
<1>1. row[b] \in BatchRow /\ DOMAIN row = Batches
  BY DEF CsvTypeOK
<1>2. ASSUME NEW c \in Batches, c # b PROVE row'[c] = row[c]
  BY <1>1, <1>2
<1>3. /\ row'[b].processed = row[b].processed
      /\ row'[b].staged = row[b].staged
      /\ row'[b].source = row[b].source \/ row'[b].source = FALSE
      /\ row'[b].state = row[b].state
      /\ row'[b].holder = row[b].holder
      /\ row'[b].attempt = row[b].attempt
  BY <1>1 DEF BatchRow
<1> QED BY <1>2, <1>3 DEF Ages

LEMMA AgesPublished ==
  ASSUME CsvTypeOK, NEW b \in Batches, row' = [row EXCEPT ![b] = Published(b)]
  PROVE  \A c \in Batches : Ages(c)
<1>1. CASE Published(b) = Released(b, "STAGED")
  BY <1>1, AgesReleased
<1>2. CASE Published(b) = Released(b, "PENDING")
  BY <1>2, AgesReleased
<1>3. CASE Published(b) = [row[b] EXCEPT !.fresh = TRUE]
  <2>1. row' = [row EXCEPT ![b].fresh = TRUE]
    BY <1>3
  <2> QED BY <2>1, AgesFlag
<1> QED BY <1>1, <1>2, <1>3 DEF Published

LEMMA AgesPurgeRow ==
  ASSUME CsvTypeOK, NEW b \in Batches, PurgeRow(b) PROVE \A c \in Batches : Ages(c)
  BY AgesReleased DEF PurgeRow

LEMMA AgesFailRow ==
  ASSUME CsvTypeOK, NEW b \in Batches, NEW grace, FailRow(b, grace)
  PROVE  \A c \in Batches : Ages(c)
  BY AgesReleased DEF FailRow

LEMMA MovesEnds ==
  ASSUME CsvTypeOK, NEW r \in Runners, Ends(r),
         r \in Batches /\ run[r].at = "uploading" => ~Uploading(r)'
  PROVE  \A q \in Runners : Moves(q)
  BY DEF Ends, Moves, CsvTypeOK

LEMMA MovesGoes ==
  ASSUME CsvTypeOK, NEW r \in Runners, NEW place \in {"inserting", "deferring"},
         run[r].at \in {"restoring", "inserting"}, RunGoes(r, place)
  PROVE  \A q \in Runners : Moves(q)
<1>1. run[r] \in Attempt /\ DOMAIN run = Runners
  BY DEF CsvTypeOK
<1>2. /\ run'[r].at = place
      /\ run'[r].batch = run[r].batch
      /\ run'[r].attempt = run[r].attempt
      /\ run'[r].next = run[r].next
  BY <1>1 DEF RunGoes, Attempt
<1>3. ASSUME NEW q \in Runners, q # r PROVE run'[q] = run[q]
  BY <1>1, <1>3 DEF RunGoes
<1> QED BY <1>2, <1>3 DEF Moves

\* A calm step keeps the parts of the invariant that speak of the leases.
LEMMA CalmKeeps ==
  ASSUME CsvTypeOK, CsvTypeOK', Bound, StoresFirst, Resumes, CheckpointIsExact, Calm
  PROVE  StoresFirst' /\ Resumes' /\ CheckpointIsExact'
<1>1. StoresFirst'
  <2> SUFFICES ASSUME NEW b \in Batches, Uploading(b)', ~row'[b].staged
               PROVE  run'[b].at = "uploading" /\ run'[b].batch = b
    BY DEF StoresFirst
  <2>1. Uploading(b) /\ ~row[b].staged
    BY DEF Calm, Ages
  <2>2. run[b].at = "uploading" /\ run[b].batch = b
    BY <2>1 DEF StoresFirst
  <2>3. Moves(b)
    BY DEF Calm, Runners
  <2> QED BY <2>2, <2>3 DEF Moves
<1>2. Resumes'
  <2> SUFFICES ASSUME NEW r \in Runners, run'[r].at \in {"uploading", "restoring", "inserting"},
                      Owns(r)'
               PROVE  run'[r].next = row'[run'[r].batch].processed
    BY DEF Resumes
  <2>1. /\ run[r].at \in {"uploading", "restoring", "inserting"}
        /\ run'[r].batch = run[r].batch
        /\ run'[r].attempt = run[r].attempt
        /\ run'[r].next = run[r].next
    BY DEF Calm, Moves, Idle
  <2>2. run[r].batch \in Batches
    BY <2>1 DEF Bound
  <2>3. Ages(run[r].batch)
    BY <2>2 DEF Calm
  <2>4. Owns(r)
    BY <2>1, <2>3 DEF Owns, Ages
  <2> QED BY <2>1, <2>3, <2>4 DEF Resumes, Ages
<1>3. CheckpointIsExact'
  BY DEF CheckpointIsExact, Calm, Ages
<1> QED BY <1>1, <1>2, <1>3

LEMMA UploadKept ==
  ASSUME upload' = upload, NEW b \in Batches PROVE Uploading(b)' => Uploading(b)
  BY DEF Uploading

LEMMA UploadOn ==
  ASSUME CsvTypeOK, NEW b \in Batches, NEW place \in UploadPlace,
         Uploading(b) \/ place = "over", UploadGoes(b, place)
  PROVE  \A c \in Batches : Uploading(c)' => Uploading(c)
  BY DEF Uploading, UploadGoes, CsvTypeOK

LEMMA PutIsCalm ==
  ASSUME CsvTypeOK, NEW b \in Batches,
         PutLands(b) \/ PutIsDropped(b) \/ PutIsAnswered(b) \/ PutFails(b)
         \/ FinishIsRefused(b) \/ CleanUpFails(b)
  PROVE  Calm
<1>1. row' = row /\ run' = run /\ landed' = landed
  BY DEF PutLands, PutIsDropped, PutIsAnswered, PutFails, FinishIsRefused, CleanUpFails, imports
<1>2. \A c \in Batches : Uploading(c)' => Uploading(c)
  BY UploadOn, UploadKept DEF PutLands, PutIsDropped, PutIsAnswered, PutFails, FinishIsRefused,
     CleanUpFails, Uploading, UploadPlace
<1> QED BY <1>1, <1>2, AgesUnchanged, MovesUnchanged DEF Calm

LEMMA FinishFailsIsCalm ==
  ASSUME CsvTypeOK, NEW b \in Batches, FinishFails(b) PROVE Calm
<1>1. \A c \in Batches : Ages(c)
  BY AgesUnchanged, AgesPublished DEF FinishFails
<1>2. \A c \in Batches : Uploading(c)' => Uploading(c)
  BY UploadOn DEF FinishFails, Uploading, UploadPlace
<1> QED BY <1>1, <1>2, MovesUnchanged DEF Calm, FinishFails

LEMMA CleanUpIsCalm ==
  ASSUME CsvTypeOK, NEW b \in Batches, CleanUp(b) PROVE Calm
<1>1. \A c \in Batches : Ages(c)
  BY AgesUnchanged, AgesPurgeRow, AgesFailRow DEF CleanUp
<1>2. \A c \in Batches : Uploading(c)' => Uploading(c)
  BY UploadOn DEF CleanUp, Uploading, UploadPlace
<1> QED BY <1>1, <1>2, MovesUnchanged DEF Calm, CleanUp

LEMMA CompensationIsCalm ==
  ASSUME CsvTypeOK, NEW b \in Batches, PlantTombstone(b) \/ DeleteUpload(b) PROVE Calm
<1>1. row' = row /\ landed' = landed
  BY DEF PlantTombstone, DeleteUpload, imports
<1>2. \A c \in Batches : Uploading(c)' => Uploading(c)
  BY UploadOn DEF PlantTombstone, DeleteUpload, Uploading, UploadPlace
<1>3. \A r \in Runners : Moves(r)
  BY MovesUnchanged DEF PlantTombstone, DeleteUpload, imports, Moves, CsvTypeOK, Uploading,
     UploadGoes
<1> QED BY <1>1, <1>2, <1>3, AgesUnchanged DEF Calm

LEMMA SweepIsCalm ==
  ASSUME CsvTypeOK, NEW b \in Batches,
         PurgeStage(b) \/ SweepStalled(b) \/ DiscardRecords(b) \/ RetentionEnds(b) \/ LeaseLapses(b)
  PROVE  Calm
<1>1. \A c \in Batches : Ages(c)
  BY AgesUnchanged, AgesPurgeRow, AgesFailRow, AgesFlag
     DEF PurgeStage, SweepStalled, DiscardRecords, RetentionEnds, LeaseLapses
<1>2. run' = run /\ landed' = landed /\ upload' = upload
  BY DEF PurgeStage, SweepStalled, DiscardRecords, RetentionEnds, LeaseLapses
<1> QED BY <1>1, <1>2, MovesUnchanged, UploadKept DEF Calm

LEMMA RestoreIsCalm ==
  ASSUME CsvTypeOK, Bound, NEW w \in Workers, Restore(w) \/ RestoreFails(w) PROVE Calm
<1>1. w \in Runners /\ run[w].batch \in Batches
  BY DEF Bound, Restore, RestoreFails, Runners
<1>2. \A c \in Batches : Ages(c)
  BY <1>1, AgesUnchanged, AgesFlag DEF Restore, RestoreFails
<1>3. \A r \in Runners : Moves(r)
  BY <1>1, MovesEnds, MovesGoes DEF Restore, RestoreFails
<1> QED BY <1>2, <1>3, UploadKept DEF Calm, Restore, RestoreFails

LEMMA DeferIsCalm ==
  ASSUME CsvTypeOK, Bound, NEW r \in Runners, Defer(r) PROVE Calm
<1>1. run[r].batch \in Batches
  BY DEF Bound, Defer
<1>2. \A c \in Batches : Ages(c)
  BY <1>1, AgesUnchanged, AgesFailRow, AgesReleased DEF Defer
<1> QED BY <1>2, MovesEnds, UploadKept DEF Calm, Defer

LEMMA AttemptEndsIsCalm ==
  ASSUME CsvTypeOK, NEW r \in Runners,
         LeaseIsLost(r) \/ CompleteFails(r) \/ (r \in Workers /\ CrashWorker(r))
  PROVE  Calm
<1>1. \A q \in Runners : Moves(q)
  BY MovesEnds, MovesGoes DEF LeaseIsLost, CompleteFails, CrashWorker, Inserting, CsvAssumption
<1>2. row' = row /\ landed' = landed /\ upload' = upload
  BY DEF LeaseIsLost, CompleteFails, CrashWorker
<1> QED BY <1>1, <1>2, AgesUnchanged, UploadKept DEF Calm

LEMMA CrashRequestIsCalm ==
  ASSUME CsvTypeOK, NEW b \in Batches, CrashRequest(b) PROVE Calm
<1>1. \A q \in Runners : Moves(q)
  BY MovesEnds DEF CrashRequest, Runners, Uploading, UploadGoes, CsvTypeOK
<1>2. \A c \in Batches : Uploading(c)' => Uploading(c)
  BY UploadOn DEF CrashRequest, UploadPlace
<1> QED BY <1>1, <1>2, AgesUnchanged DEF Calm, CrashRequest

\* The closing account and the purge queue touch no batch.
Aside ==
    \/ CloseAccount
    \/ \E p \in Purgers : \/ \E b \in Batches, k \in Kinds : ClaimPurge(p, b, k)
                          \/ CheckReference(p) \/ DeleteObject(p) \/ SettlePurge(p)
                          \/ DeleteObjectFails(p) \/ CrashPurger(p)
    \/ \E b \in Batches, k \in Kinds : QueueStep(b, k)

LEMMA AsideIsCalm == Aside => Calm /\ UNCHANGED <<imports, upload>>
<1> SUFFICES ASSUME Aside PROVE Calm /\ UNCHANGED <<imports, upload>>
  OBVIOUS
<1>1. UNCHANGED <<imports, upload>>
  <2>1. ASSUME NEW p \in Purgers, NEW b \in Batches, NEW k \in Kinds, ClaimPurge(p, b, k)
        PROVE  UNCHANGED <<imports, upload>>
    BY <2>1 DEF ClaimPurge
  <2>2. ASSUME NEW p \in Purgers,
               CheckReference(p) \/ DeleteObject(p) \/ SettlePurge(p)
               \/ DeleteObjectFails(p) \/ CrashPurger(p)
        PROVE  UNCHANGED <<imports, upload>>
    BY <2>2 DEF CheckReference, DeleteObject, SettlePurge, DeleteObjectFails, CrashPurger
  <2>3. ASSUME NEW b \in Batches, NEW k \in Kinds, QueueStep(b, k)
        PROVE  UNCHANGED <<imports, upload>>
    BY <2>3 DEF QueueStep, GraceEnds, PurgeLeaseLapses, Exhaust
  <2>4. CASE CloseAccount
    BY <2>4 DEF CloseAccount
  <2> QED BY <2>1, <2>2, <2>3, <2>4 DEF Aside
<1> QED BY <1>1, AgesUnchanged, MovesUnchanged, UploadKept DEF Calm, imports

-----------------------------------------------------------------------------
(* The batches that were reserved, and the purges that know of them. *)

\* No job appears for a batch that was never reserved.
JobsKnown ==
    \A b \in Batches, k \in Kinds :
        job'[b][k].state # "NONE" => job[b][k].state # "NONE" \/ row[b].state # "NONE"

LEMMA JobsUnchanged == job' = job => JobsKnown
  BY DEF JobsKnown

LEMMA JobWriteKnown ==
  ASSUME CsvTypeOK, NEW b \in Batches, NEW k \in Kinds, NEW x \in PurgeJob,
         row[b].state # "NONE" \/ job[b][k].state # "NONE" \/ x.state = "NONE",
         job' = [job EXCEPT ![b][k] = x]
  PROVE  JobsKnown
<1>1. job \in [Batches -> [Kinds -> PurgeJob]]
  BY DEF CsvTypeOK
<1>2. ASSUME NEW c \in Batches, NEW l \in Kinds, c # b \/ l # k PROVE job'[c][l] = job[c][l]
  BY <1>1, <1>2
<1>3. job'[b][k] = x
  BY <1>1
<1> QED BY <1>2, <1>3 DEF JobsKnown

LEMMA QueueOwnKnown ==
  ASSUME CsvTypeOK, NEW b \in Batches, NEW grace \in BOOLEAN, row[b].state # "NONE",
         QueueOwn(b, grace)
  PROVE  JobsKnown
<1>1. [NoJob EXCEPT !.state = "PENDING", !.early = grace] \in PurgeJob
  BY DEF NoJob, PurgeJob
<1>2. "own" \in Kinds
  BY DEF Kinds
<1>3. CASE job' = job
  BY <1>3, JobsUnchanged
<1>4. CASE job' = [job EXCEPT ![b]["own"] = [NoJob EXCEPT !.state = "PENDING", !.early = grace]]
  BY <1>1, <1>2, <1>4, JobWriteKnown
<1> QED BY <1>3, <1>4 DEF QueueOwn

LEMMA PurgeRowKnown ==
  ASSUME CsvTypeOK, NEW b \in Batches, row[b].state # "NONE", PurgeRow(b) PROVE JobsKnown
  BY QueueOwnKnown DEF PurgeRow

LEMMA FailRowKnown ==
  ASSUME CsvTypeOK, NEW b \in Batches, NEW grace \in BOOLEAN, row[b].state # "NONE",
         FailRow(b, grace)
  PROVE  JobsKnown
  BY QueueOwnKnown DEF FailRow

\* What the purge workers rely on: batches stay reserved, and name no file again.
RowsStay ==
    \A b \in Batches :
        /\ row'[b].state = "NONE" => row[b].state = "NONE"
        /\ row'[b].source => row[b].source \/ row[b].state = "NONE"

LEMMA CheckedKept ==
  ASSUME Bound, Checked, RowsStay, purge' = purge
  PROVE  Checked' /\ \A p \in Purgers : purge'[p].at # "idle" => purge'[p].batch \in Batches
  BY DEF Bound, Checked, RowsStay

\* A calm step that leaves the purge workers alone keeps the invariant.
LEMMA CalmStep ==
  ASSUME IInv, CsvTypeOK', Calm, JobsKnown, purge' = purge
  PROVE  IInv'
<1>1. StoresFirst' /\ Resumes' /\ CheckpointIsExact'
  BY CalmKeeps DEF IInv
<1>2. RowsStay
  BY DEF Calm, Ages, RowsStay
<1>3. Checked' /\ \A p \in Purgers : purge'[p].at # "idle" => purge'[p].batch \in Batches
  BY <1>2, CheckedKept DEF IInv
<1>4. Bound'
  <2>1. ASSUME NEW r \in Runners
        PROVE  IF run'[r].at = "idle" THEN run'[r] = Idle ELSE run'[r].batch \in Batches
    BY DEF IInv, Bound, Calm, Moves, Idle
  <2> QED BY <1>3, <2>1 DEF Bound
<1>5. Unknown'
  BY DEF IInv, Unknown, Calm, Ages, JobsKnown
<1> QED BY <1>1, <1>3, <1>4, <1>5 DEF IInv

LEMMA UploadWorkStep ==
  ASSUME IInv, NEW b \in Batches,
         PutLands(b) \/ PutIsDropped(b) \/ PutIsAnswered(b) \/ PutFails(b)
         \/ FinishIsRefused(b) \/ CleanUpFails(b)
  PROVE  IInv'
<1>1. CsvTypeOK' /\ Calm
  BY PutType, PutIsCalm DEF IInv
<1>2. job' = job /\ purge' = purge
  BY DEF PutLands, PutIsDropped, PutIsAnswered, PutFails, FinishIsRefused, CleanUpFails, purging
<1> QED BY <1>1, <1>2, JobsUnchanged, CalmStep

LEMMA FinishFailsStep ==
  ASSUME IInv, NEW b \in Batches, FinishFails(b) PROVE IInv'
<1>1. CsvTypeOK' /\ Calm
  BY FinishFailsType, FinishFailsIsCalm DEF IInv
<1>2. job' = job /\ purge' = purge
  BY DEF FinishFails, purging
<1> QED BY <1>1, <1>2, JobsUnchanged, CalmStep

LEMMA CleanUpStep ==
  ASSUME IInv, NEW b \in Batches, CleanUp(b) PROVE IInv'
<1>1. CsvTypeOK' /\ Calm
  BY CleanUpType, CleanUpIsCalm DEF IInv
<1>2. row[b].state # "NONE"
  BY DEF IInv, Unknown, CleanUp, Uploading
<1>3. JobsKnown
  BY <1>2, JobsUnchanged, PurgeRowKnown, FailRowKnown DEF CleanUp, IInv
<1> QED BY <1>1, <1>3, CalmStep DEF CleanUp

LEMMA CompensationStep ==
  ASSUME IInv, NEW b \in Batches, PlantTombstone(b) \/ DeleteUpload(b) PROVE IInv'
<1>1. CsvTypeOK' /\ Calm
  BY PlantTombstoneType, DeleteUploadType, CompensationIsCalm DEF IInv
<1>2. JobsKnown
  <2>1. CASE job' = job
    BY <2>1, JobsUnchanged
  <2>2. CASE PlantTombstone(b) /\ job' = [job EXCEPT ![b]["detached"] = Detached]
    <3>1. Detached \in PurgeJob /\ "detached" \in Kinds
      BY DEF Detached, NoJob, PurgeJob, Kinds
    <3>2. row[b].state # "NONE"
      BY <2>2 DEF IInv, Unknown, PlantTombstone, Uploading
    <3> QED BY <2>2, <3>1, <3>2, JobWriteKnown DEF IInv
  <2> QED BY <2>1, <2>2 DEF PlantTombstone, DeleteUpload, purging
<1>3. purge' = purge
  BY DEF PlantTombstone, DeleteUpload, purging
<1> QED BY <1>1, <1>2, <1>3, CalmStep

LEMMA SweepingStep ==
  ASSUME IInv, NEW b \in Batches,
         PurgeStage(b) \/ SweepStalled(b) \/ DiscardRecords(b) \/ RetentionEnds(b) \/ LeaseLapses(b)
  PROVE  IInv'
<1>1. CsvTypeOK'
  BY SweepType, DiscardRecordsType, RetentionEndsType, LeaseLapsesType DEF IInv
<1>2. Calm
  BY SweepIsCalm DEF IInv
<1>3. JobsKnown
  <2>1. CASE PurgeStage(b)
    BY <2>1, PurgeRowKnown DEF PurgeStage, IInv
  <2>2. CASE SweepStalled(b)
    BY <2>2, FailRowKnown DEF SweepStalled, Claimable, IInv
  <2>3. CASE DiscardRecords(b)
    BY <2>3, PurgeRowKnown, JobsUnchanged DEF DiscardRecords, Exists, IInv
  <2>4. CASE RetentionEnds(b)
    BY <2>4, QueueOwnKnown DEF RetentionEnds, IInv
  <2>5. CASE LeaseLapses(b)
    BY <2>5, JobsUnchanged DEF LeaseLapses, purging
  <2> QED BY <2>1, <2>2, <2>3, <2>4, <2>5
<1>4. purge' = purge
  BY DEF PurgeStage, SweepStalled, DiscardRecords, RetentionEnds, LeaseLapses, purging
<1> QED BY <1>1, <1>2, <1>3, <1>4, CalmStep

LEMMA RestoringStep ==
  ASSUME IInv, NEW w \in Workers, Restore(w) \/ RestoreFails(w) PROVE IInv'
<1>1. CsvTypeOK' /\ Calm
  BY RestoreType, RestoreIsCalm DEF IInv
<1>2. job' = job /\ purge' = purge
  BY DEF Restore, RestoreFails, purging
<1> QED BY <1>1, <1>2, JobsUnchanged, CalmStep

LEMMA DeferStep ==
  ASSUME IInv, NEW r \in Runners, Defer(r) PROVE IInv'
<1>1. CsvTypeOK' /\ Calm
  BY DeferType, DeferIsCalm DEF IInv
<1>2. run[r].batch \in Batches
  BY DEF IInv, Bound, Defer
<1>3. JobsKnown
  BY <1>2, JobsUnchanged, FailRowKnown DEF Defer, Owns, IInv
<1> QED BY <1>1, <1>3, CalmStep DEF Defer

LEMMA AttemptEndsStep ==
  ASSUME IInv, NEW r \in Runners,
         LeaseIsLost(r) \/ CompleteFails(r) \/ (r \in Workers /\ CrashWorker(r))
  PROVE  IInv'
<1>1. CsvTypeOK' /\ Calm
  BY AttemptEndsType, AttemptEndsIsCalm DEF IInv
<1>2. job' = job /\ purge' = purge
  BY DEF LeaseIsLost, CompleteFails, CrashWorker, purging
<1> QED BY <1>1, <1>2, JobsUnchanged, CalmStep

LEMMA CrashRequestStep ==
  ASSUME IInv, NEW b \in Batches, CrashRequest(b) PROVE IInv'
<1>1. CsvTypeOK' /\ Calm
  BY CrashRequestType, CrashRequestIsCalm DEF IInv
<1> QED BY <1>1, JobsUnchanged, CalmStep DEF CrashRequest, purging

\* The purge queue: whom a worker claims was reserved, and it deletes only what
\* no batch names.
LEMMA AsideKeeps ==
  ASSUME IInv, CsvTypeOK', Aside, JobsKnown, Checked',
         \A p \in Purgers : purge'[p].at # "idle" => purge'[p].batch \in Batches
  PROVE  IInv'
<1>1. Calm /\ row' = row /\ run' = run /\ upload' = upload
  BY AsideIsCalm DEF imports
<1>2. StoresFirst' /\ Resumes' /\ CheckpointIsExact'
  BY <1>1, CalmKeeps DEF IInv
<1>3. Bound'
  BY <1>1 DEF IInv, Bound
<1>4. Unknown'
  BY <1>1 DEF IInv, Unknown, JobsKnown, Uploading
<1> QED BY <1>2, <1>3, <1>4 DEF IInv

LEMMA QueueWorkStep ==
  ASSUME IInv, NEW b \in Batches, NEW k \in Kinds, QueueStep(b, k) PROVE IInv'
<1>1. CsvTypeOK'
  BY JobFlagType, ExhaustType DEF QueueStep, IInv
<1>2. Aside
  BY DEF Aside
<1>3. JobsKnown
  <2>1. job[b][k] \in PurgeJob /\ DOMAIN job = Batches /\ DOMAIN job[b] = Kinds
    BY DEF CsvTypeOK, IInv
  <2>2. ASSUME NEW c \in Batches, NEW l \in Kinds, c # b \/ l # k PROVE job'[c][l] = job[c][l]
    BY <2>1, <2>2 DEF QueueStep, GraceEnds, PurgeLeaseLapses, Exhaust
  <2>3. job'[b][k].state = job[b][k].state \/ job[b][k].state # "NONE"
    BY <2>1 DEF QueueStep, GraceEnds, PurgeLeaseLapses, Exhaust, PurgeJob
  <2> QED BY <2>2, <2>3 DEF JobsKnown
<1>4. row' = row /\ purge' = purge
  BY DEF QueueStep, GraceEnds, PurgeLeaseLapses, Exhaust, imports
<1>5. Checked' /\ \A p \in Purgers : purge'[p].at # "idle" => purge'[p].batch \in Batches
  BY <1>4 DEF IInv, Bound, Checked
<1> QED BY <1>1, <1>2, <1>3, <1>5, AsideKeeps

LEMMA CloseAccountStep == IInv /\ CloseAccount => IInv'
<1> SUFFICES ASSUME IInv, CloseAccount PROVE IInv'
  OBVIOUS
<1>1. CsvTypeOK' /\ Aside
  BY CloseAccountType DEF IInv, Aside
<1>2. row' = row /\ job' = job /\ purge' = purge
  BY DEF CloseAccount, imports, purging
<1>3. Checked' /\ \A p \in Purgers : purge'[p].at # "idle" => purge'[p].batch \in Batches
  BY <1>2 DEF IInv, Bound, Checked
<1> QED BY <1>1, <1>2, <1>3, JobsUnchanged, AsideKeeps

LEMMA ClaimPurgeStep ==
  ASSUME IInv, NEW p \in Purgers, NEW b \in Batches, NEW k \in Kinds, ClaimPurge(p, b, k)
  PROVE  IInv'
<1>1. CsvTypeOK' /\ Aside
  BY ClaimPurgeType DEF IInv, Aside
<1>2. job[b][k].state # "NONE"
  BY DEF ClaimPurge, JobDue
<1>3. row[b].state # "NONE"
  BY <1>2 DEF IInv, Unknown
<1>4. JobsKnown
  <2>1. job[b][k] \in PurgeJob /\ DOMAIN job = Batches /\ DOMAIN job[b] = Kinds
    BY DEF CsvTypeOK, IInv
  <2>2. ASSUME NEW c \in Batches, NEW l \in Kinds, c # b \/ l # k PROVE job'[c][l] = job[c][l]
    BY <2>1, <2>2 DEF ClaimPurge
  <2> QED BY <1>2, <2>2 DEF JobsKnown
<1>5. row' = row /\ purge'[p].batch = b /\ purge'[p].at = "checking"
      /\ \A q \in Purgers : q # p => purge'[q] = purge[q]
  BY DEF ClaimPurge, imports, IInv, CsvTypeOK
<1>6. Checked' /\ \A q \in Purgers : purge'[q].at # "idle" => purge'[q].batch \in Batches
  BY <1>3, <1>5 DEF IInv, Bound, Checked
<1> QED BY <1>1, <1>4, <1>6, AsideKeeps

LEMMA PurgeWorkStep ==
  ASSUME IInv, NEW p \in Purgers,
         \/ CheckReference(p) \/ DeleteObject(p) \/ SettlePurge(p)
         \/ DeleteObjectFails(p) \/ CrashPurger(p)
  PROVE  IInv'
<1>1. CsvTypeOK' /\ Aside
  BY PurgeWorkType DEF IInv, Aside
<1>2. purge[p].batch \in Batches /\ purge[p].kind \in Kinds
  BY DEF IInv, CsvTypeOK, Purge, Bound, CheckReference, DeleteObject, SettlePurge,
     DeleteObjectFails, CrashPurger
<1>3. JobsKnown
  <2>1. ASSUME NEW state \in {"PENDING", "COMPLETE", "FAILED"}, EndsJob(p, state)
        PROVE  JobsKnown
    <3>1. job' = job \/ JobOf(p).state = "PROCESSING"
      BY <2>1 DEF EndsJob
    <3>2. CASE JobOf(p).state = "PROCESSING"
      <4>1. ASSUME NEW c \in Batches, NEW l \in Kinds, c # purge[p].batch \/ l # purge[p].kind
            PROVE  job'[c][l] = job[c][l]
        BY <2>1, <4>1, <1>2 DEF EndsJob, IInv, CsvTypeOK
      <4> QED BY <3>2, <4>1 DEF JobsKnown, JobOf
    <3> QED BY <3>1, <3>2, JobsUnchanged
  <2> QED BY <2>1, JobsUnchanged DEF CheckReference, DeleteObject, SettlePurge,
          DeleteObjectFails, CrashPurger
<1>4. row' = row
  BY DEF CheckReference, DeleteObject, SettlePurge, DeleteObjectFails, CrashPurger, imports
<1>5. \A q \in Purgers : q # p => purge'[q] = purge[q]
  BY DEF CheckReference, DeleteObject, SettlePurge, DeleteObjectFails, CrashPurger,
     Rests, PurgeGoes, IInv, CsvTypeOK
<1>6. \/ purge'[p].at = "idle"
      \/ /\ purge'[p].batch = purge[p].batch
         /\ purge[p].at # "idle"
         /\ purge[p].at = "deleting" \/ ~row[purge[p].batch].source
  <2>1. purge[p] \in Purge /\ DOMAIN purge = Purgers
    BY DEF IInv, CsvTypeOK
  <2> QED BY <2>1 DEF CheckReference, DeleteObject, SettlePurge, DeleteObjectFails, CrashPurger,
      Rests, PurgeGoes, Resting, StillNamed, Purge
<1>7. Checked' /\ \A q \in Purgers : purge'[q].at # "idle" => purge'[q].batch \in Batches
  BY <1>2, <1>4, <1>5, <1>6 DEF IInv, Bound, Checked
<1> QED BY <1>1, <1>3, <1>7, AsideKeeps

-----------------------------------------------------------------------------
(* The steps that take a lease or book a chunk. *)

Numbered(n) == [i \in 1 .. n |-> i]

LEMMA Counting ==
  /\ CheckpointIsExact <=> \A b \in Batches :
                               /\ landed[b] = Numbered(row[b].processed)
                               /\ row[b].state = "COMPLETE" => row[b].processed = Chunks
  /\ CheckpointIsExact' <=> \A b \in Batches :
                               /\ landed'[b] = Numbered(row'[b].processed)
                               /\ row'[b].state = "COMPLETE" => row'[b].processed = Chunks
  BY DEF CheckpointIsExact, Numbered

\* What such a step leaves alone.
LEMMA OtherBatches ==
  ASSUME IInv, NEW b \in Batches,
         \A c \in Batches : c # b => row'[c] = row[c] /\ landed'[c] = landed[c],
         \A c \in Batches : c # b => upload'[c] = upload[c],
         row'[b].state # "NONE",
         row'[b].source => row[b].source \/ row[b].state = "NONE",
         landed'[b] = Numbered(row'[b].processed),
         row'[b].state = "COMPLETE" => row'[b].processed = Chunks,
         job' = job, purge' = purge
  PROVE  /\ Unknown' /\ CheckpointIsExact' /\ Checked'
         /\ \A p \in Purgers : purge'[p].at # "idle" => purge'[p].batch \in Batches
<1>1. RowsStay
  BY DEF RowsStay
<1>2. Unknown'
  BY DEF IInv, Unknown, Uploading
<1>3. CheckpointIsExact'
  BY Counting DEF IInv
<1> QED BY <1>1, <1>2, <1>3, CheckedKept DEF IInv

\* A lease on b that only h can hold: the other attempts resume as before.
LEMMA OtherRunners ==
  ASSUME IInv, NEW b \in Batches, NEW h \in Runners,
         \A c \in Batches : c # b => row'[c] = row[c],
         row'[b].state = "PROCESSING" => row'[b].holder = h,
         NEW r \in Runners, r # h, run'[r] = run[r],
         run'[r].at \in {"uploading", "restoring", "inserting"}, Owns(r)'
  PROVE  run'[r].next = row'[run'[r].batch].processed
<1>1. run[r].batch \in Batches
  BY DEF IInv, Bound
<1>2. run[r].batch # b
  BY DEF Owns
<1>3. row'[run[r].batch] = row[run[r].batch]
  BY <1>1, <1>2
<1>4. Owns(r)
  BY <1>3 DEF Owns
<1> QED BY <1>3, <1>4 DEF IInv, Resumes

LEMMA OtherUploads ==
  ASSUME IInv, NEW b \in Batches, NEW h \in Runners, h = b \/ h \notin Batches,
         \A c \in Batches : c # b => row'[c] = row[c] /\ upload'[c] = upload[c],
         \A q \in Runners : q # h => run'[q] = run[q],
         \/ row'[b].staged
         \/ run'[b].at = "uploading" /\ run'[b].batch = b
         \/ run'[b] = run[b] /\ row'[b].staged = row[b].staged /\ upload'[b] = upload[b]
  PROVE  StoresFirst'
<1> SUFFICES ASSUME NEW c \in Batches, Uploading(c)', ~row'[c].staged
             PROVE  run'[c].at = "uploading" /\ run'[c].batch = c
  BY DEF StoresFirst
<1>1. CASE c # b
  <2>1. Uploading(c) /\ ~row[c].staged /\ c # h /\ c \in Runners
    BY <1>1 DEF Uploading, Runners
  <2> QED BY <2>1 DEF IInv, StoresFirst
<1>2. CASE c = b
  BY <1>2 DEF IInv, StoresFirst, Uploading
<1> QED BY <1>1, <1>2

LEMMA ReserveStageStep ==
  ASSUME IInv, NEW b \in Batches, ReserveStage(b) PROVE IInv'
<1>1. CsvTypeOK'
  BY ReserveStageType DEF IInv
<1>2. /\ row' = [row EXCEPT ![b] = Reservation(b, "STAGING", TRUE, 0)]
      /\ upload' = [upload EXCEPT ![b] = "putting"]
      /\ run' = run /\ landed' = landed /\ job' = job /\ purge' = purge
      /\ row[b].state = "NONE"
  BY DEF ReserveStage, Reserve, UploadGoes, purging
<1>3. /\ \A c \in Batches : c # b => row'[c] = row[c] /\ upload'[c] = upload[c]
      /\ row'[b].state = "STAGING" /\ row'[b].processed = 0 /\ row'[b].staged
  BY <1>2 DEF IInv, CsvTypeOK, Reservation
<1>4. landed'[b] = Numbered(row'[b].processed)
  <2>1. landed[b] = Numbered(row[b].processed)
    BY Counting DEF IInv
  <2>2. row[b].processed = 0
    BY <1>2 DEF IInv, Unknown
  <2> QED BY <1>2, <1>3, <2>1, <2>2
<1>5. /\ Unknown' /\ CheckpointIsExact' /\ Checked'
      /\ \A p \in Purgers : purge'[p].at # "idle" => purge'[p].batch \in Batches
  BY <1>2, <1>3, <1>4, OtherBatches
<1>6. StoresFirst'
  BY <1>2, <1>3 DEF IInv, StoresFirst, Uploading
<1>7. Resumes'
  <2> SUFFICES ASSUME NEW r \in Runners, run'[r].at \in {"uploading", "restoring", "inserting"},
                      Owns(r)'
               PROVE  run'[r].next = row'[run'[r].batch].processed
    BY DEF Resumes
  <2>1. run[r].batch \in Batches /\ run[r].batch # b
    BY <1>2, <1>3 DEF IInv, Bound, Owns
  <2>2. row'[run[r].batch] = row[run[r].batch]
    BY <1>3, <2>1
  <2>3. Owns(r)
    BY <1>2, <2>2 DEF Owns
  <2> QED BY <1>2, <2>2, <2>3 DEF IInv, Resumes
<1>8. Bound'
  BY <1>2, <1>5 DEF IInv, Bound
<1> QED BY <1>1, <1>5, <1>6, <1>7, <1>8 DEF IInv

LEMMA BeginsWhat ==
  ASSUME CsvTypeOK, NEW r \in Runners, NEW b \in Batches, NEW attempt \in Nat, NEW place,
         Begins(r, b, attempt, place)
  PROVE  /\ run'[r].at = place /\ run'[r].batch = b /\ run'[r].next = row[b].processed
         /\ run'[r].attempt = attempt
         /\ \A q \in Runners : q # r => run'[q] = run[q]
  BY DEF Begins, CsvTypeOK

\* An attempt of h takes the lease of b where the checkpoint stands.
LEMMA LeaseTaken ==
  ASSUME IInv, CsvTypeOK', NEW b \in Batches, NEW h \in Runners, NEW attempt \in Nat,
         NEW place \in {"uploading", "restoring", "inserting"}, Begins(h, b, attempt, place),
         \A c \in Batches : c # b => row'[c] = row[c] /\ upload'[c] = upload[c],
         row'[b].state = "PROCESSING", row'[b].holder = h,
         row'[b].processed = row[b].processed,
         row'[b].source => row[b].source \/ row[b].state = "NONE",
         StoresFirst',
         landed' = landed, job' = job, purge' = purge
  PROVE  IInv'
<1>1. /\ run'[h].at = place /\ run'[h].batch = b /\ run'[h].next = row[b].processed
      /\ \A q \in Runners : q # h => run'[q] = run[q]
  BY BeginsWhat DEF IInv
<1>2. landed'[b] = Numbered(row'[b].processed)
  BY Counting DEF IInv
<1>3. /\ Unknown' /\ CheckpointIsExact' /\ Checked'
      /\ \A p \in Purgers : purge'[p].at # "idle" => purge'[p].batch \in Batches
  BY <1>2, OtherBatches
<1>4. Resumes'
  <2> SUFFICES ASSUME NEW r \in Runners, run'[r].at \in {"uploading", "restoring", "inserting"},
                      Owns(r)'
               PROVE  run'[r].next = row'[run'[r].batch].processed
    BY DEF Resumes
  <2>1. CASE r = h
    BY <1>1, <2>1
  <2>2. CASE r # h
    BY <1>1, <2>2, OtherRunners
  <2> QED BY <2>1, <2>2
<1>5. Bound'
  BY <1>1, <1>3 DEF IInv, Bound
<1> QED BY <1>3, <1>4, <1>5 DEF IInv

LEMMA ReserveImportStep ==
  ASSUME IInv, NEW b \in Batches, ReserveImport(b) PROVE IInv'
<1> PICK attempt \in {0, 1} :
        /\ Reserve(b)
        /\ row' = [row EXCEPT ![b] = Reservation(b, "PROCESSING", FALSE, attempt)]
        /\ Begins(b, b, attempt, "uploading")
        /\ UNCHANGED <<object, records, landed, purging, active, faults>>
  BY DEF ReserveImport
<1>1. CsvTypeOK'
  BY ReserveImportType DEF IInv
<1>2. /\ upload' = [upload EXCEPT ![b] = "putting"]
      /\ landed' = landed /\ job' = job /\ purge' = purge
      /\ row[b].state = "NONE" /\ row[b].processed = 0
  BY DEF Reserve, UploadGoes, purging, IInv, Unknown
<1>3. /\ \A c \in Batches : c # b => row'[c] = row[c] /\ upload'[c] = upload[c]
      /\ row'[b].state = "PROCESSING" /\ row'[b].processed = row[b].processed
      /\ row'[b].holder = b
  BY <1>2 DEF IInv, CsvTypeOK, Reservation
<1>4. b \in Runners /\ attempt \in Nat
  BY DEF Runners
<1>5. run'[b].at = "uploading" /\ run'[b].batch = b /\ \A q \in Runners : q # b => run'[q] = run[q]
  BY <1>4, BeginsWhat DEF IInv
<1>6. StoresFirst'
  BY <1>3, <1>4, <1>5, OtherUploads
<1> QED BY <1>1, <1>2, <1>3, <1>4, <1>6, LeaseTaken

LEMMA TakenWhat ==
  ASSUME CsvTypeOK, NEW b \in Batches, NEW r, NEW attempt,
         row' = [row EXCEPT ![b] = Taken(b, r, attempt)]
  PROVE  /\ \A c \in Batches : c # b => row'[c] = row[c]
         /\ row'[b].state = "PROCESSING" /\ row'[b].holder = r
         /\ row'[b].processed = row[b].processed
         /\ row'[b].source = row[b].source /\ row'[b].staged = row[b].staged
<1>1. row[b] \in BatchRow /\ row'[b] = Taken(b, r, attempt)
  BY DEF CsvTypeOK
<1>2. \A c \in Batches : c # b => row'[c] = row[c]
  BY DEF CsvTypeOK
<1>3. /\ Taken(b, r, attempt).state = "PROCESSING" /\ Taken(b, r, attempt).holder = r
      /\ Taken(b, r, attempt).processed = row[b].processed
      /\ Taken(b, r, attempt).source = row[b].source
      /\ Taken(b, r, attempt).staged = row[b].staged
  <2>1. row[b] \in BatchRow
    BY <1>1
  <2> QED BY <2>1 DEF Taken, BatchRow
<1> QED BY <1>1, <1>2, <1>3

LEMMA ConfirmStageStep ==
  ASSUME IInv, NEW b \in Batches, ConfirmStage(b) PROVE IInv'
<1>1. CsvTypeOK'
  BY ConfirmStageType DEF IInv
<1>2. row[b].staged /\ upload' = upload /\ landed' = landed /\ job' = job /\ purge' = purge
  BY DEF ConfirmStage, purging
<1>3. CASE row' = [row EXCEPT ![b].state = "PENDING"] /\ UNCHANGED run
  <2>1. row[b] \in BatchRow /\ DOMAIN row = Batches
    BY DEF IInv, CsvTypeOK
  <2>2. \A c \in Batches : c # b => row'[c] = row[c]
    BY <1>3, <2>1
  <2>3. /\ row'[b].state = "PENDING" /\ row'[b].processed = row[b].processed
        /\ row'[b].staged = row[b].staged /\ row'[b].source = row[b].source
    BY <1>3, <2>1 DEF BatchRow
  <2>4. \A c \in Batches : Ages(c)
    BY <2>2, <2>3 DEF Ages
  <2> QED BY <1>1, <1>2, <1>3, <2>4, MovesUnchanged, UploadKept, JobsUnchanged, CalmStep DEF Calm
<1>4. CASE row' = [row EXCEPT ![b] = Taken(b, b, 1)] /\ Begins(b, b, 1, "inserting")
  <2>1. b \in Runners
    BY DEF Runners
  <2>2. /\ \A c \in Batches : c # b => row'[c] = row[c]
        /\ row'[b].state = "PROCESSING" /\ row'[b].holder = b
        /\ row'[b].processed = row[b].processed
        /\ row'[b].source = row[b].source /\ row'[b].staged = row[b].staged
    BY <1>4, TakenWhat DEF IInv
  <2>3. \A q \in Runners : q # b => run'[q] = run[q]
    BY <1>4, <2>1, BeginsWhat DEF IInv
  <2>4. StoresFirst'
    <3>1. row'[b].staged
      BY <1>2, <2>2
    <3>2. \A c \in Batches : c # b => row'[c] = row[c] /\ upload'[c] = upload[c]
      BY <1>2, <2>2
    <3> QED BY <2>1, <2>3, <3>1, <3>2, OtherUploads
  <2> QED BY <1>1, <1>2, <1>4, <2>1, <2>2, <2>4, LeaseTaken
<1> QED BY <1>3, <1>4 DEF ConfirmStage

LEMMA ClaimStep ==
  ASSUME IInv, NEW w \in Workers, NEW b \in Batches, Claim(w, b) PROVE IInv'
<1>1. CsvTypeOK' /\ w \in Runners /\ w \notin Batches
  BY ClaimType DEF IInv, Runners, CsvAssumption
<1>2. upload' = upload /\ landed' = landed /\ job' = job /\ purge' = purge
  BY DEF Claim, purging
<1>3. row[b].attempt + 1 \in Nat
  BY RowOf DEF BatchRow, IInv
<1>4. /\ \A c \in Batches : c # b => row'[c] = row[c]
      /\ row'[b].state = "PROCESSING" /\ row'[b].holder = w
      /\ row'[b].processed = row[b].processed
      /\ row'[b].source = row[b].source /\ row'[b].staged = row[b].staged
  BY TakenWhat DEF Claim, IInv
<1>5. Begins(w, b, row[b].attempt + 1, "restoring")
  BY DEF Claim
<1>6. \A q \in Runners : q # w => run'[q] = run[q]
  BY <1>1, <1>3, <1>5, BeginsWhat DEF IInv
<1>7. StoresFirst'
  <2>1. run'[b] = run[b]
    BY <1>1, <1>6 DEF Runners
  <2> QED BY <1>1, <1>2, <1>4, <1>6, <2>1, OtherUploads
<1> QED BY <1>1, <1>2, <1>3, <1>4, <1>5, <1>7, LeaseTaken

\* The request publishes the batch, and may go on to import it itself.
LEMMA FinishUploadStep ==
  ASSUME IInv, NEW b \in Batches, FinishUpload(b) PROVE IInv'
<1>1. CsvTypeOK' /\ b \in Runners
  BY FinishUploadType DEF IInv, Runners
<1>2. /\ upload' = [upload EXCEPT ![b] = "over"]
      /\ landed' = landed /\ job' = job /\ purge' = purge
      /\ \A c \in Batches : Ages(c)
      /\ Uploading(b)
  BY AgesPublished DEF FinishUpload, UploadGoes, purging, IInv, Uploading
<1>3. /\ \A c \in Batches : c # b => upload'[c] = upload[c]
      /\ ~Uploading(b)'
      /\ \A c \in Batches : Uploading(c)' => Uploading(c)
  BY <1>2 DEF IInv, CsvTypeOK, Uploading
<1>4. \A q \in Runners : q # b => run'[q] = run[q]
  BY DEF FinishUpload, IInv, CsvTypeOK
<1>5. \/ run'[b] = Idle
      \/ /\ run'[b].at = "inserting"
         /\ run'[b].batch = run[b].batch /\ run'[b].attempt = run[b].attempt
         /\ run'[b].next = run[b].next
         /\ ~row[b].staged
  <2>1. run[b] \in Attempt /\ DOMAIN run = Runners
    BY <1>1 DEF IInv, CsvTypeOK
  <2> QED BY <1>1, <2>1 DEF FinishUpload, Attempt
<1>6. run'[b] # Idle => run[b].at = "uploading"
  BY <1>2, <1>5 DEF IInv, StoresFirst
<1>7. StoresFirst'
  BY <1>3, <1>4, <1>2 DEF IInv, StoresFirst, Ages, Runners
<1>8. Resumes'
  <2> SUFFICES ASSUME NEW r \in Runners, run'[r].at \in {"uploading", "restoring", "inserting"},
                      Owns(r)'
               PROVE  run'[r].next = row'[run'[r].batch].processed
    BY DEF Resumes
  <2>1. /\ run[r].at \in {"uploading", "restoring", "inserting"}
        /\ run'[r].batch = run[r].batch /\ run'[r].attempt = run[r].attempt
        /\ run'[r].next = run[r].next
    BY <1>4, <1>5, <1>6 DEF Idle
  <2>2. Ages(run[r].batch)
    BY <1>2, <2>1 DEF IInv, Bound
  <2>3. Owns(r)
    BY <2>1, <2>2 DEF Owns, Ages
  <2> QED BY <2>1, <2>2, <2>3 DEF IInv, Resumes, Ages
<1>9. CheckpointIsExact'
  BY <1>2 DEF IInv, CheckpointIsExact, Ages
<1>10. Checked' /\ \A p \in Purgers : purge'[p].at # "idle" => purge'[p].batch \in Batches
  BY <1>2, CheckedKept DEF IInv, RowsStay, Ages
<1>11. Unknown'
  BY <1>2, <1>3 DEF IInv, Unknown, Ages
<1>12. Bound'
  <2>1. ASSUME NEW r \in Runners
        PROVE  IF run'[r].at = "idle" THEN run'[r] = Idle ELSE run'[r].batch \in Batches
    BY <1>4, <1>5, <1>6 DEF IInv, Bound, Idle
  <2> QED BY <1>10, <2>1 DEF Bound
<1> QED BY <1>1, <1>7, <1>8, <1>9, <1>10, <1>11, <1>12 DEF IInv

LEMMA AppendNumbered == ASSUME NEW n \in Nat PROVE Append(Numbered(n), n + 1) = Numbered(n + 1)
<1>1. Numbered(n) \in Seq(Nat) /\ Len(Numbered(n)) = n
  BY DEF Numbered
<1>2. \A i \in 1 .. n : Numbered(n)[i] = i
  BY DEF Numbered
<1>3. /\ Append(Numbered(n), n + 1) \in Seq(Nat)
      /\ Len(Append(Numbered(n), n + 1)) = n + 1
      /\ \A i \in 1 .. n : Append(Numbered(n), n + 1)[i] = Numbered(n)[i]
      /\ Append(Numbered(n), n + 1)[n + 1] = n + 1
  BY <1>1
<1>4. Numbered(n + 1) \in Seq(Nat) /\ Len(Numbered(n + 1)) = n + 1
  BY DEF Numbered
<1>5. \A i \in 1 .. n + 1 : Numbered(n + 1)[i] = i
  BY DEF Numbered
<1>6. \A i \in 1 .. n + 1 : Append(Numbered(n), n + 1)[i] = i
  BY <1>2, <1>3
<1> QED BY <1>3, <1>4, <1>5, <1>6

\* What the commit of a chunk by the owner of the lease does.
LEMMA CommitWhat ==
  ASSUME IInv, NEW r \in Runners, Inserting(r), Owns(r), CommitChunk(r),
         NEW b, b = run[r].batch
  PROVE  /\ b \in Batches
         /\ row[b].processed = run[r].next /\ run[r].next < Chunks /\ run[r].next \in Nat
         /\ row'[b].processed = run[r].next + 1
         /\ row'[b].staged = row[b].staged /\ row'[b].source = row[b].source
         /\ row'[b].state = "PROCESSING" /\ row'[b].holder = r
         /\ \A c \in Batches : c # b => row'[c] = row[c] /\ landed'[c] = landed[c]
         /\ landed[b] = Numbered(run[r].next)
         /\ landed'[b] = Append(landed[b], run[r].next + 1)
         /\ landed'[b] = Numbered(row'[b].processed)
<1> DEFINE n == run[r].next + 1
           x == [row[b] EXCEPT !.processed = n, !.fresh = TRUE]
<1>1. b \in Batches
  BY DEF IInv, Bound, Inserting
<1>2. row[b].processed = run[r].next
  BY DEF IInv, Resumes, Inserting
<1>3. run[r].next \in Nat /\ run[r].next < Chunks
  <2>1. run[r].next \in 0 .. Chunks
    BY RunOf DEF Attempt, IInv
  <2> QED BY <2>1 DEF CsvAssumption, Inserting
<1>4. row' = [row EXCEPT ![b] = x] /\ landed' = [landed EXCEPT ![b] = Append(landed[b], n)]
  BY DEF CommitChunk
<1>5. /\ x.processed = n /\ x.staged = row[b].staged /\ x.source = row[b].source
      /\ x.state = row[b].state /\ x.holder = row[b].holder
  <2> HIDE DEF n
  <2>1. row[b] \in BatchRow
    BY <1>1, RowOf DEF IInv
  <2> QED BY <2>1 DEF BatchRow
<1> HIDE DEF x
<1>6. row'[b] = x /\ landed'[b] = Append(landed[b], n)
  BY <1>1, <1>4 DEF IInv, CsvTypeOK
<1>7. \A c \in Batches : c # b => row'[c] = row[c] /\ landed'[c] = landed[c]
  BY <1>4 DEF IInv, CsvTypeOK
<1>8. row[b].state = "PROCESSING" /\ row[b].holder = r
  BY DEF Owns
<1>9. landed[b] = Numbered(run[r].next)
  BY <1>1, <1>2, Counting DEF IInv
<1>10. landed'[b] = Numbered(row'[b].processed)
  BY <1>3, <1>5, <1>6, <1>9, AppendNumbered
<1> QED BY <1>1, <1>2, <1>3, <1>5, <1>6, <1>7, <1>8, <1>9, <1>10

\* The parts of the invariant that hold after the commit of a chunk, whatever
\* becomes of the attempt.
LEMMA CommitKeeps ==
  ASSUME IInv, NEW r \in Runners, Inserting(r), Owns(r), CommitChunk(r),
         upload' = upload, job' = job, purge' = purge,
         run'[r].at \in {"inserting", "deferring"}, run'[r].batch = run[r].batch,
         run'[r].at = "inserting" => run'[r].next = run[r].next + 1,
         \A q \in Runners : q # r => run'[q] = run[q]
  PROVE  Bound' /\ StoresFirst' /\ Resumes' /\ Unknown' /\ CheckpointIsExact' /\ Checked'
<1> DEFINE b == run[r].batch
<1>1. /\ b \in Batches
      /\ row[b].processed = run[r].next /\ run[r].next < Chunks /\ run[r].next \in Nat
      /\ row'[b].processed = run[r].next + 1
      /\ row'[b].staged = row[b].staged /\ row'[b].source = row[b].source
      /\ row'[b].state = "PROCESSING" /\ row'[b].holder = r
      /\ \A c \in Batches : c # b => row'[c] = row[c] /\ landed'[c] = landed[c]
      /\ landed'[b] = Numbered(row'[b].processed)
  BY CommitWhat
<1> HIDE DEF b
<1>2. /\ Unknown' /\ CheckpointIsExact' /\ Checked'
      /\ \A p \in Purgers : purge'[p].at # "idle" => purge'[p].batch \in Batches
  BY <1>1, OtherBatches
<1>3. Resumes'
  <2> SUFFICES ASSUME NEW q \in Runners, run'[q].at \in {"uploading", "restoring", "inserting"},
                      Owns(q)'
               PROVE  run'[q].next = row'[run'[q].batch].processed
    BY DEF Resumes
  <2>1. CASE q = r
    BY <1>1, <2>1 DEF b
  <2>2. CASE q # r
    BY <1>1, <2>2, OtherRunners
  <2> QED BY <2>1, <2>2
<1>4. StoresFirst'
  <2> SUFFICES ASSUME NEW c \in Batches, Uploading(c)', ~row'[c].staged
               PROVE  run'[c].at = "uploading" /\ run'[c].batch = c
    BY DEF StoresFirst
  <2>1. Uploading(c) /\ ~row[c].staged
    BY <1>1 DEF Uploading
  <2>2. run[c].at = "uploading" /\ run[c].batch = c /\ c \in Runners
    BY <2>1 DEF IInv, StoresFirst, Runners
  <2>3. c # r
    BY <2>2 DEF Inserting
  <2> QED BY <2>2, <2>3
<1>5. Bound'
  <2>1. ASSUME NEW q \in Runners
        PROVE  IF run'[q].at = "idle" THEN run'[q] = Idle ELSE run'[q].batch \in Batches
    <3>1. CASE q = r
      BY <1>1, <3>1 DEF b
    <3>2. CASE q # r
      BY <3>2 DEF IInv, Bound
    <3> QED BY <3>1, <3>2
  <2> QED BY <1>2, <2>1 DEF Bound
<1> QED BY <1>2, <1>3, <1>4, <1>5

LEMMA InsertChunkStep ==
  ASSUME IInv, NEW r \in Runners, InsertChunk(r) PROVE IInv'
<1>1. CsvTypeOK'
  BY InsertChunkType DEF IInv
<1>2. upload' = upload /\ job' = job /\ purge' = purge
  BY DEF InsertChunk, purging
<1>3. /\ run'[r].at = "inserting" /\ run'[r].batch = run[r].batch
      /\ run'[r].next = run[r].next + 1
      /\ \A q \in Runners : q # r => run'[q] = run[q]
  <2> DEFINE n == run[r].next + 1
  <2>1. run[r] \in Attempt /\ DOMAIN run = Runners
    BY DEF IInv, CsvTypeOK
  <2>2. run[r].at = "inserting"
    BY DEF InsertChunk, Inserting
  <2>3. run' = [run EXCEPT ![r].next = n]
    BY DEF InsertChunk
  <2> HIDE DEF n
  <2>4. /\ run'[r].at = "inserting" /\ run'[r].batch = run[r].batch /\ run'[r].next = n
        /\ \A q \in Runners : q # r => run'[q] = run[q]
    BY <2>1, <2>2, <2>3 DEF Attempt
  <2> QED BY <2>4 DEF n
<1> QED BY <1>1, <1>2, <1>3, CommitKeeps DEF InsertChunk, IInv

LEMMA InsertFailsStep ==
  ASSUME IInv, NEW r \in Runners, InsertFails(r) PROVE IInv'
<1>1. CsvTypeOK'
  BY InsertFailsType DEF IInv
<1>2. upload' = upload /\ job' = job /\ purge' = purge /\ Inserting(r) /\ RunGoes(r, "deferring")
  BY DEF InsertFails, purging
<1>3. CASE UNCHANGED <<row, records, landed>>
  <2>1. \A q \in Runners : Moves(q)
    BY <1>2, MovesGoes DEF Inserting, IInv
  <2>2. Calm
    BY <1>2, <1>3, <2>1, AgesUnchanged, UploadKept DEF Calm
  <2> QED BY <1>1, <1>2, <2>2, JobsUnchanged, CalmStep
<1>4. CASE Owns(r) /\ CommitChunk(r)
  <2>1. /\ run'[r].at = "deferring" /\ run'[r].batch = run[r].batch
        /\ \A q \in Runners : q # r => run'[q] = run[q]
    <3>1. run[r] \in Attempt /\ DOMAIN run = Runners
      BY DEF IInv, CsvTypeOK
    <3> QED BY <1>2, <3>1 DEF RunGoes, Attempt
  <2> QED BY <1>1, <1>2, <1>4, <2>1, CommitKeeps DEF IInv
<1> QED BY <1>3, <1>4 DEF InsertFails

LEMMA CompleteStep ==
  ASSUME IInv, NEW r \in Runners, Complete(r) PROVE IInv'
<1>1. CsvTypeOK' /\ run[r].batch \in Batches
  BY CompleteType DEF IInv, Complete, Bound
<1>2. /\ upload' = upload /\ job' = job /\ purge' = purge /\ landed' = landed
      /\ \A q \in Runners : Moves(q)
  BY MovesEnds DEF Complete, purging, IInv
<1>3. CASE row' = row
  BY <1>1, <1>2, <1>3, AgesUnchanged, UploadKept, JobsUnchanged, CalmStep DEF Calm
<1>4. CASE Owns(r) /\ row' = [row EXCEPT ![run[r].batch] = Released(run[r].batch, "COMPLETE")]
  <2> DEFINE b == run[r].batch
             x == Released(b, "COMPLETE")
  <2>1. row[b].processed = Chunks
    BY <1>4 DEF IInv, Resumes, Complete
  <2>2. /\ x.state = "COMPLETE" /\ x.processed = row[b].processed
        /\ x.staged = row[b].staged /\ x.source = row[b].source
    <3>1. row[b] \in BatchRow
      BY <1>1, RowOf DEF IInv
    <3> QED BY <3>1 DEF Released, BatchRow
  <2> HIDE DEF x
  <2>3. row'[b] = x /\ \A c \in Batches : c # b => row'[c] = row[c]
    BY <1>1, <1>4 DEF IInv, CsvTypeOK, x
  <2> HIDE DEF b
  <2>4. b \in Batches
    BY <1>1 DEF b
  <2>5. landed'[b] = Numbered(row'[b].processed)
    BY <1>2, <2>2, <2>3, <2>4, Counting DEF IInv
  <2>6. /\ Unknown' /\ CheckpointIsExact' /\ Checked'
        /\ \A p \in Purgers : purge'[p].at # "idle" => purge'[p].batch \in Batches
    BY <1>2, <2>1, <2>2, <2>3, <2>4, <2>5, OtherBatches
  <2>7. Ends(r)
    BY DEF Complete
  <2>8. run'[r] = Idle /\ \A q \in Runners : q # r => run'[q] = run[q]
    BY <2>7 DEF Ends, IInv, CsvTypeOK
  <2>9. Resumes'
    <3> SUFFICES ASSUME NEW q \in Runners, run'[q].at \in {"uploading", "restoring", "inserting"},
                        Owns(q)'
                 PROVE  run'[q].next = row'[run'[q].batch].processed
      BY DEF Resumes
    <3>1. q # r
      BY <2>8 DEF Idle
    <3> QED BY <2>2, <2>3, <2>4, <2>8, <3>1, OtherRunners
  <2>10. StoresFirst'
    BY <1>2, <2>2, <2>3, <2>4, <2>8 DEF IInv, StoresFirst, Uploading, Runners, Complete
  <2>11. Bound'
    BY <2>6, <2>8 DEF IInv, Bound, Idle
  <2> QED BY <1>1, <2>6, <2>9, <2>10, <2>11 DEF IInv
<1> QED BY <1>3, <1>4 DEF Complete

-----------------------------------------------------------------------------
LEMMA IInvInit == Init => IInv
<1> SUFFICES ASSUME Init PROVE IInv
  OBVIOUS
<1>1. CsvTypeOK
  BY TypeInit
<1>2. Bound /\ StoresFirst /\ Resumes
  BY DEF Init, Idle, Resting, Bound, StoresFirst, Resumes, Uploading
<1>3. Unknown /\ Checked
  BY DEF Init, NoRow, NoJob, Resting, Unknown, Checked, Uploading
<1>4. CheckpointIsExact
  <2>1. Numbered(0) = <<>>
    BY DEF Numbered
  <2>2. \A b \in Batches : landed[b] = <<>> /\ row[b].processed = 0 /\ row[b].state = "NONE"
    BY DEF Init, NoRow
  <2> QED BY <2>1, <2>2, Counting
<1> QED BY <1>1, <1>2, <1>3, <1>4 DEF IInv

LEMMA IInvNext == IInv /\ [Next]_vars => IInv'
<1> SUFFICES ASSUME IInv, [Next]_vars PROVE IInv'
  OBVIOUS
<1>1. ASSUME NEW b \in Batches, UploadStep(b) PROVE IInv'
  BY <1>1, UploadWorkStep, FinishUploadStep, CleanUpStep, CompensationStep DEF UploadStep
<1>2. ASSUME NEW b \in Batches, StorageStep(b) PROVE IInv'
  BY <1>2, UploadWorkStep DEF StorageStep
<1>3. ASSUME NEW b \in Batches, SweepStep(b) \/ LeaseLapses(b) PROVE IInv'
  BY <1>3, SweepingStep DEF SweepStep
<1>4. ASSUME NEW b \in Batches, OwnerStep(b) PROVE IInv'
  BY <1>4, ReserveStageStep, ReserveImportStep, ConfirmStageStep, SweepingStep DEF OwnerStep
<1>5. ASSUME NEW r \in Runners, RunStep(r) PROVE IInv'
  BY <1>5, InsertChunkStep, AttemptEndsStep, CompleteStep, DeferStep DEF RunStep
<1>6. ASSUME NEW w \in Workers, WorkerStep(w) PROVE IInv'
  BY <1>6, ClaimStep, RestoringStep DEF WorkerStep
<1>7. ASSUME NEW p \in Purgers, PurgeStep(p) PROVE IInv'
  BY <1>7, ClaimPurgeStep, PurgeWorkStep DEF PurgeStep
<1>8. ASSUME NEW b \in Batches, NEW k \in Kinds, QueueStep(b, k) PROVE IInv'
  BY <1>8, QueueWorkStep
<1>9. CASE CloseAccount
  BY <1>9, CloseAccountStep
<1>10. CASE Trouble
  <2>1. ASSUME NEW b \in Batches, PutFails(b) \/ FinishFails(b) \/ CleanUpFails(b) \/ CrashRequest(b)
        PROVE  IInv'
    BY <2>1, UploadWorkStep, FinishFailsStep, CrashRequestStep
  <2>2. ASSUME NEW r \in Runners, InsertFails(r) \/ CompleteFails(r) PROVE IInv'
    BY <2>2, InsertFailsStep, AttemptEndsStep
  <2>3. ASSUME NEW w \in Workers, CrashWorker(w) PROVE IInv'
    BY <2>3, AttemptEndsStep DEF Runners
  <2>4. ASSUME NEW p \in Purgers, DeleteObjectFails(p) \/ CrashPurger(p) PROVE IInv'
    BY <2>4, PurgeWorkStep
  <2> QED BY <1>10, <2>1, <2>2, <2>3, <2>4 DEF Trouble
<1>11. CASE UNCHANGED vars
  <2>1. /\ row' = row /\ upload' = upload /\ run' = run /\ landed' = landed
        /\ job' = job /\ purge' = purge
    BY <1>11 DEF vars
  <2>2. CsvTypeOK'
    BY <1>11 DEF IInv, CsvTypeOK, vars
  <2>3. Calm
    BY <2>1, AgesUnchanged, MovesUnchanged, UploadKept DEF Calm
  <2> QED BY <2>1, <2>2, <2>3, JobsUnchanged, CalmStep
<1> QED BY <1>1, <1>2, <1>3, <1>4, <1>5, <1>6, <1>7, <1>8, <1>9, <1>10, <1>11 DEF Next

LEMMA IInvHolds == CsvSpec => []IInv
  BY IInvInit, IInvNext, PTL DEF CsvSpec

\* Rows, leases, jobs and attempts keep their types: no attempt inserts a chunk
\* past the last and no checkpoint counts one (runImportChunks).
THEOREM CsvTypeOKHolds == CsvSpec => []CsvTypeOK
<1>1. IInv => CsvTypeOK
  BY DEF IInv
<1> QED BY <1>1, IInvHolds, PTL

\* However many workers take a batch over, however many attempts break off with
\* the answer of their last commit lost, the books hold the chunks the
\* checkpoint counts, each once and in order (runImportChunks, claimImportBatch).
THEOREM CheckpointIsExactHolds == CsvSpec => []CheckpointIsExact
<1>1. IInv => CheckpointIsExact
  BY DEF IInv
<1> QED BY <1>1, IInvHolds, PTL

\* Between the check of a purge worker and its deletion no batch comes to name
\* the file again (processPurge).
THEOREM PurgeSparesNamedFilesHolds == CsvSpec => PurgeSparesNamedFiles
<1>1. IInv /\ [Next]_vars
        => [\A p \in Purgers : purge[p].at = "deleting" /\ purge'[p].at = "settling"
                => ~row[purge[p].batch].source]_vars
  BY DEF IInv, Checked
<1> QED BY <1>1, IInvHolds, PTL DEF CsvSpec, PurgeSparesNamedFiles

-----------------------------------------------------------------------------
(* The import keeps what CsvLifecycle promises. *)

PhaseOf(s) ==
    CASE s = "NONE" -> "none"
      [] s \in {"STAGING", "STAGED"} -> "held"
      [] s \in {"PENDING", "PROCESSING"} -> "importing"
      [] s = "COMPLETE" -> "complete"
      [] s = "FAILED" -> "failed"
      [] OTHER -> "gone"

LEMMA PhasesAre ==
  /\ Phases = [b \in Batches |-> PhaseOf(row[b].state)]
  /\ Phases' = [b \in Batches |-> PhaseOf(row'[b].state)]
  BY DEF Phases, PhaseOf

LEMMA PhasesStay ==
  ASSUME \A b \in Batches : PhaseOf(row'[b].state) = PhaseOf(row[b].state)
  PROVE  Phases' = Phases
  BY PhasesAre

LEMMA PhaseTurns ==
  ASSUME NEW b \in Batches, NEW s, row'[b].state = s,
         \A c \in Batches : c # b => row'[c].state = row[c].state
  PROVE  Phases' = [Phases EXCEPT ![b] = PhaseOf(s)] /\ Phases[b] = PhaseOf(row[b].state)
<1>1. \A c \in Batches : c # b => PhaseOf(row'[c].state) = PhaseOf(row[c].state)
  OBVIOUS
<1> QED BY <1>1, PhasesAre

\* The state of the one row a step writes.
LEMMA StateWrite ==
  ASSUME CsvTypeOK, NEW b \in Batches, NEW x, row' = [row EXCEPT ![b] = x]
  PROVE  row'[b].state = x.state /\ \A c \in Batches : c # b => row'[c].state = row[c].state
  BY DEF CsvTypeOK

LEMMA ReleasedState ==
  ASSUME CsvTypeOK, NEW b \in Batches, NEW s
  PROVE  Released(b, s).state = s /\ [Released(b, s) EXCEPT !.source = FALSE].state = s
<1>1. row[b] \in BatchRow
  BY RowOf
<1> QED BY <1>1 DEF Released, BatchRow

Stays == Phases' = Phases /\ landed' = landed

LEMMA DropStep ==
  ASSUME CsvTypeOK, NEW b \in Batches, row[b].state # "NONE", PurgeRow(b), landed' = landed
  PROVE  Lifecycle!LifecycleNext
<1> DEFINE x == [Released(b, "GONE") EXCEPT !.source = FALSE]
<1>1. row' = [row EXCEPT ![b] = x] /\ x.state = "GONE"
  BY ReleasedState DEF PurgeRow
<1> HIDE DEF x
<1>2. row'[b].state = "GONE" /\ \A c \in Batches : c # b => row'[c].state = row[c].state
  BY <1>1, StateWrite
<1>3. Phases' = [Phases EXCEPT ![b] = "gone"] /\ Phases[b] # "none"
  BY <1>2, PhaseTurns DEF PhaseOf
<1>4. Lifecycle!Drop(b)
  BY <1>3 DEF Lifecycle!Drop, Lifecycle!Becomes
<1> QED BY <1>4 DEF Lifecycle!LifecycleNext

LEMMA FailStep ==
  ASSUME CsvTypeOK, NEW b \in Batches, NEW grace \in BOOLEAN,
         row[b].state \in {"PENDING", "PROCESSING"},
         FailRow(b, grace), landed' = landed
  PROVE  Lifecycle!LifecycleNext
<1> DEFINE x == [Released(b, "FAILED") EXCEPT !.source = FALSE]
<1>1. row' = [row EXCEPT ![b] = x] /\ x.state = "FAILED"
  BY ReleasedState DEF FailRow
<1> HIDE DEF x
<1>2. row'[b].state = "FAILED" /\ \A c \in Batches : c # b => row'[c].state = row[c].state
  BY <1>1, StateWrite
<1>3. Phases' = [Phases EXCEPT ![b] = "failed"] /\ Phases[b] = "importing"
  BY <1>2, PhaseTurns DEF PhaseOf
<1>4. Lifecycle!Fail(b)
  BY <1>3 DEF Lifecycle!Fail, Lifecycle!Becomes
<1> QED BY <1>4 DEF Lifecycle!LifecycleNext

\* A row written in the same phase.
LEMMA StayStep ==
  ASSUME CsvTypeOK, NEW b \in Batches, NEW x, row' = [row EXCEPT ![b] = x],
         PhaseOf(x.state) = PhaseOf(row[b].state), landed' = landed
  PROVE  Stays
<1>1. row'[b].state = x.state /\ \A c \in Batches : c # b => row'[c].state = row[c].state
  BY StateWrite
<1>2. \A c \in Batches : PhaseOf(row'[c].state) = PhaseOf(row[c].state)
  BY <1>1
<1> QED BY <1>2, PhasesStay DEF Stays

LEMMA FlagStays ==
  ASSUME CsvTypeOK, NEW b \in Batches, landed' = landed,
         \/ row' = [row EXCEPT ![b].fresh = TRUE]
         \/ row' = [row EXCEPT ![b].fresh = FALSE]
         \/ row' = [row EXCEPT ![b].source = FALSE]
  PROVE  Stays
<1>1. row[b] \in BatchRow /\ DOMAIN row = Batches
  BY DEF CsvTypeOK
<1>2. \A c \in Batches : row'[c].state = row[c].state
  BY <1>1 DEF BatchRow
<1> QED BY <1>2, PhasesStay DEF Stays

LEMMA PublishedStays ==
  ASSUME CsvTypeOK, NEW b \in Batches, StillReserved(b), row' = [row EXCEPT ![b] = Published(b)],
         ~row[b].staged => run[b].batch = b, landed' = landed
  PROVE  Stays
<1>1. CASE row[b].staged
  <2>1. Published(b).state = "STAGED" /\ row[b].state = "STAGING"
    BY <1>1, ReleasedState DEF Published, StillReserved
  <2> QED BY <2>1, StayStep DEF PhaseOf
<1>2. CASE ~row[b].staged
  <2>1. \/ Published(b).state = "PENDING" /\ run[b].attempt = 0
        \/ Published(b).state = row[b].state
    <3>1. row[b] \in BatchRow
      BY RowOf
    <3>2. [row[b] EXCEPT !.fresh = TRUE].state = row[b].state
      BY <3>1 DEF BatchRow
    <3> QED BY <1>2, <3>2, ReleasedState DEF Published
  <2> QED BY <1>2, <2>1, StayStep DEF PhaseOf, StillReserved, Owns
<1> QED BY <1>1, <1>2

\* A step that books nothing and writes no row.
LEMMA RowKeptStays == row' = row /\ landed' = landed => Stays
  BY PhasesStay DEF Stays

LEMMA UploadRefines ==
  ASSUME IInv, NEW b \in Batches, UploadStep(b) \/ FinishFails(b)
  PROVE  Stays \/ Lifecycle!LifecycleNext
<1>1. CASE FinishUpload(b) \/ (FinishFails(b) /\ row' # row)
  <2>1. StillReserved(b) /\ row' = [row EXCEPT ![b] = Published(b)] /\ landed' = landed
    BY <1>1 DEF FinishUpload, FinishFails
  <2>2. ~row[b].staged => run[b].batch = b
    BY <1>1 DEF FinishUpload, FinishFails, IInv, StoresFirst, Uploading
  <2> QED BY <2>1, <2>2, PublishedStays DEF IInv
<1>2. CASE CleanUp(b)
  <2>1. CASE row' = row
    BY <1>2, <2>1, RowKeptStays DEF CleanUp
  <2>2. CASE row[b].state \in {"STAGING", "STAGED"} /\ PurgeRow(b)
    BY <1>2, <2>2, DropStep DEF CleanUp, IInv
  <2>3. CASE ~row[b].staged /\ Owns(b) /\ FailRow(b, TRUE)
    <3>1. row[b].state = "PROCESSING"
      <4>1. Uploading(b)
        BY <1>2 DEF CleanUp, Uploading
      <4>2. run[b].batch = b
        BY <2>3, <4>1 DEF IInv, StoresFirst
      <4> QED BY <2>3, <4>2 DEF Owns
    <3> QED BY <1>2, <2>3, <3>1, FailStep DEF CleanUp, IInv
  <2> QED BY <1>2, <2>1, <2>2, <2>3 DEF CleanUp
<1>3. CASE PutIsAnswered(b) \/ FinishIsRefused(b) \/ PlantTombstone(b) \/ DeleteUpload(b)
  BY <1>3, RowKeptStays DEF PutIsAnswered, FinishIsRefused, PlantTombstone, DeleteUpload, imports
<1>4. CASE FinishFails(b) /\ row' = row
  BY <1>4, RowKeptStays DEF FinishFails
<1> QED BY <1>1, <1>2, <1>3, <1>4 DEF UploadStep

LEMMA SweepRefines ==
  ASSUME IInv, NEW b \in Batches, SweepStep(b) \/ LeaseLapses(b) \/ DiscardRecords(b)
  PROVE  Stays \/ Lifecycle!LifecycleNext
<1>1. CASE PurgeStage(b)
  BY <1>1, DropStep DEF PurgeStage, IInv
<1>2. CASE SweepStalled(b)
  <2>1. row[b].state \in {"PENDING", "PROCESSING"}
    BY <1>2 DEF SweepStalled, Claimable
  <2> QED BY <1>2, <2>1, FailStep DEF SweepStalled, IInv
<1>3. CASE RetentionEnds(b) \/ LeaseLapses(b)
  BY <1>3, FlagStays DEF RetentionEnds, LeaseLapses, IInv
<1>4. CASE DiscardRecords(b)
  <2>1. landed' = landed
    BY <1>4 DEF DiscardRecords
  <2>2. CASE row' = row
    BY <2>1, <2>2, RowKeptStays
  <2>3. CASE Exists(b) /\ PurgeRow(b)
    BY <2>1, <2>3, DropStep DEF Exists, IInv
  <2> QED BY <1>4, <2>2, <2>3 DEF DiscardRecords
<1> QED BY <1>1, <1>2, <1>3, <1>4 DEF SweepStep

LEMMA OwnerRefines ==
  ASSUME IInv, NEW b \in Batches, ReserveStage(b) \/ ReserveImport(b) \/ ConfirmStage(b)
  PROVE  Stays \/ Lifecycle!LifecycleNext
<1>1. CASE ReserveStage(b)
  <2> DEFINE x == Reservation(b, "STAGING", TRUE, 0)
  <2>1. /\ row' = [row EXCEPT ![b] = x] /\ x.state = "STAGING"
        /\ row[b].state = "NONE" /\ landed' = landed
    BY <1>1 DEF ReserveStage, Reserve, Reservation
  <2> HIDE DEF x
  <2>2. row'[b].state = "STAGING" /\ \A c \in Batches : c # b => row'[c].state = row[c].state
    BY <2>1, StateWrite DEF IInv
  <2>3. Phases' = [Phases EXCEPT ![b] = "held"] /\ Phases[b] = "none"
    BY <2>1, <2>2, PhaseTurns DEF PhaseOf
  <2>4. Lifecycle!Hold(b)
    BY <2>1, <2>3 DEF Lifecycle!Hold, Lifecycle!Becomes
  <2> QED BY <2>4 DEF Lifecycle!LifecycleNext
<1>2. CASE ReserveImport(b)
  <2>1. PICK attempt : /\ row' = [row EXCEPT ![b] = Reservation(b, "PROCESSING", FALSE, attempt)]
                       /\ row[b].state = "NONE" /\ landed' = landed
    BY <1>2 DEF ReserveImport, Reserve
  <2> DEFINE x == Reservation(b, "PROCESSING", FALSE, attempt)
  <2>2. row' = [row EXCEPT ![b] = x] /\ x.state = "PROCESSING"
    BY <2>1 DEF Reservation
  <2> HIDE DEF x
  <2>3. row'[b].state = "PROCESSING" /\ \A c \in Batches : c # b => row'[c].state = row[c].state
    BY <2>2, StateWrite DEF IInv
  <2>4. Phases' = [Phases EXCEPT ![b] = "importing"] /\ Phases[b] = "none"
    BY <2>1, <2>3, PhaseTurns DEF PhaseOf
  <2>5. Lifecycle!Accept(b)
    BY <2>1, <2>4 DEF Lifecycle!Accept, Lifecycle!Becomes
  <2> QED BY <2>5 DEF Lifecycle!LifecycleNext
<1>3. CASE ConfirmStage(b)
  <2>1. row[b].state = "STAGED" /\ landed' = landed
    BY <1>3 DEF ConfirmStage
  <2>2. /\ row'[b].state \in {"PENDING", "PROCESSING"}
        /\ \A c \in Batches : c # b => row'[c].state = row[c].state
    <3>1. row[b] \in BatchRow /\ DOMAIN row = Batches
      BY DEF IInv, CsvTypeOK
    <3>2. CASE row' = [row EXCEPT ![b].state = "PENDING"]
      <4> DEFINE x == [row[b] EXCEPT !.state = "PENDING"]
      <4>1. row' = [row EXCEPT ![b] = x] /\ x.state = "PENDING"
        BY <3>1, <3>2 DEF BatchRow
      <4> HIDE DEF x
      <4> QED BY <4>1, StateWrite DEF IInv
    <3>3. CASE row' = [row EXCEPT ![b] = Taken(b, b, 1)]
      <4>1. CsvTypeOK
        BY DEF IInv
      <4>2. row'[b].state = "PROCESSING" /\ \A c \in Batches : c # b => row'[c] = row[c]
        BY <3>3, <4>1, TakenWhat
      <4> QED BY <4>2
    <3> QED BY <1>3, <3>2, <3>3 DEF ConfirmStage
  <2>3. Phases' = [Phases EXCEPT ![b] = "importing"] /\ Phases[b] = "held"
    BY <2>1, <2>2, PhaseTurns DEF PhaseOf
  <2>4. Lifecycle!Accept(b)
    BY <2>1, <2>3 DEF Lifecycle!Accept, Lifecycle!Becomes
  <2> QED BY <2>4 DEF Lifecycle!LifecycleNext
<1> QED BY <1>1, <1>2, <1>3

LEMMA BookRefines ==
  ASSUME IInv, NEW r \in Runners, Inserting(r), Owns(r), CommitChunk(r)
  PROVE  Lifecycle!LifecycleNext
<1> DEFINE b == run[r].batch
<1>1. /\ b \in Batches
      /\ run[r].next < Chunks /\ run[r].next \in Nat
      /\ row'[b].state = "PROCESSING"
      /\ \A c \in Batches : c # b => row'[c] = row[c] /\ landed'[c] = landed[c]
      /\ landed[b] = Numbered(run[r].next)
      /\ landed'[b] = Append(landed[b], run[r].next + 1)
  BY CommitWhat
<1>2. row[b].state = "PROCESSING"
  BY DEF Owns
<1> HIDE DEF b
<1>3. Phases' = Phases
  BY <1>1, <1>2, PhasesStay
<1>4. Phases[b] = "importing"
  BY <1>1, <1>2, PhaseTurns DEF PhaseOf
<1>5. Len(landed[b]) = run[r].next
  BY <1>1 DEF Numbered
<1>6. landed' = [landed EXCEPT ![b] = Append(landed[b], Len(landed[b]) + 1)]
  BY <1>5 DEF CommitChunk, b
<1>7. Lifecycle!BookChunk(b)
  BY <1>1, <1>3, <1>4, <1>5, <1>6 DEF Lifecycle!BookChunk
<1> QED BY <1>1, <1>7 DEF Lifecycle!LifecycleNext

LEMMA RunRefines ==
  ASSUME IInv, NEW r \in Runners, RunStep(r) \/ InsertFails(r) \/ CompleteFails(r)
  PROVE  Stays \/ Lifecycle!LifecycleNext
<1>1. CASE InsertChunk(r) \/ (InsertFails(r) /\ Owns(r) /\ CommitChunk(r))
  BY <1>1, BookRefines DEF InsertChunk, InsertFails
<1>2. CASE InsertFails(r) /\ UNCHANGED <<row, records, landed>>
  BY <1>2, RowKeptStays
<1>3. CASE LeaseIsLost(r) \/ CompleteFails(r)
  BY <1>3, RowKeptStays DEF LeaseIsLost, CompleteFails
<1>4. CASE Complete(r)
  <2> DEFINE b == run[r].batch
             x == Released(b, "COMPLETE")
  <2>1. landed' = landed /\ b \in Batches
    BY <1>4 DEF Complete, IInv, Bound
  <2>2. CASE row' = row
    BY <2>1, <2>2, RowKeptStays
  <2>3. CASE Owns(r) /\ row' = [row EXCEPT ![b] = x]
    <3>1. x.state = "COMPLETE" /\ row[b].state = "PROCESSING" /\ row[b].processed = Chunks
      BY <1>4, <2>1, <2>3, ReleasedState DEF IInv, Resumes, Complete, Owns
    <3> HIDE DEF x
    <3>2. row'[b].state = "COMPLETE" /\ \A c \in Batches : c # b => row'[c].state = row[c].state
      BY <2>1, <2>3, <3>1, StateWrite DEF IInv
    <3> HIDE DEF b
    <3>3. Phases' = [Phases EXCEPT ![b] = "complete"] /\ Phases[b] = "importing"
      BY <2>1, <3>1, <3>2, PhaseTurns DEF PhaseOf
    <3>4. landed[b] = Numbered(Chunks)
      BY <2>1, <3>1, Counting DEF IInv
    <3>5. Len(landed[b]) = Chunks
      <4>1. Chunks \in Nat
        BY DEF CsvAssumption
      <4> QED BY <3>4, <4>1 DEF Numbered
    <3>6. Lifecycle!Finish(b)
      BY <2>1, <3>3, <3>5 DEF Lifecycle!Finish, Lifecycle!Becomes
    <3> QED BY <2>1, <3>6 DEF Lifecycle!LifecycleNext
  <2> QED BY <1>4, <2>2, <2>3 DEF Complete
<1>5. CASE Defer(r)
  <2> DEFINE b == run[r].batch
             x == Released(b, "PENDING")
  <2>1. landed' = landed /\ b \in Batches
    BY <1>5 DEF Defer, IInv, Bound
  <2>2. CASE row' = row
    BY <2>1, <2>2, RowKeptStays
  <2>3. CASE Owns(r) /\ FailRow(b, FALSE)
    BY <2>1, <2>3, FailStep DEF Owns, IInv
  <2>4. CASE Owns(r) /\ row' = [row EXCEPT ![b] = x]
    <3>1. x.state = "PENDING" /\ row[b].state = "PROCESSING"
      BY <2>1, <2>4, ReleasedState DEF Owns, IInv
    <3> HIDE DEF x
    <3> QED BY <2>1, <2>4, <3>1, StayStep DEF PhaseOf, IInv
  <2> QED BY <1>5, <2>2, <2>3, <2>4 DEF Defer
<1> QED BY <1>1, <1>2, <1>3, <1>4, <1>5 DEF RunStep, InsertFails

LEMMA WorkerRefines ==
  ASSUME IInv, NEW w \in Workers, WorkerStep(w) PROVE Stays
<1>1. ASSUME NEW b \in Batches, Claim(w, b) PROVE Stays
  <2> DEFINE x == Taken(b, w, row[b].attempt + 1)
  <2>1. /\ row' = [row EXCEPT ![b] = x] /\ landed' = landed
        /\ row[b].state \in {"PENDING", "PROCESSING"}
    BY <1>1 DEF Claim, Claimable
  <2>2. x.state = "PROCESSING"
    <3>1. row[b] \in BatchRow
      BY RowOf DEF IInv
    <3> QED BY <3>1 DEF Taken, BatchRow
  <2> HIDE DEF x
  <2> QED BY <2>1, <2>2, StayStep DEF PhaseOf, IInv
<1>2. CASE Restore(w) \/ RestoreFails(w)
  <2>1. run[w].batch \in Batches /\ landed' = landed
    BY <1>2 DEF Restore, RestoreFails, IInv, Bound, Runners
  <2>2. row' = row \/ row' = [row EXCEPT ![run[w].batch].fresh = TRUE]
    BY <1>2 DEF Restore, RestoreFails
  <2> QED BY <2>1, <2>2, RowKeptStays, FlagStays DEF IInv
<1> QED BY <1>1, <1>2 DEF WorkerStep

LEMMA InitRefines == Init => Lifecycle!LifecycleInit
<1> SUFFICES ASSUME Init PROVE Lifecycle!LifecycleInit
  OBVIOUS
<1>1. \A b \in Batches : row[b].state = "NONE"
  BY DEF Init, NoRow
<1>2. Phases = [b \in Batches |-> "none"]
  BY <1>1, PhasesAre DEF PhaseOf
<1> QED BY <1>2 DEF Lifecycle!LifecycleInit, Init

LEMMA NextRefines == IInv /\ [Next]_vars => [Lifecycle!LifecycleNext]_(Lifecycle!promises)
<1> SUFFICES ASSUME IInv, [Next]_vars PROVE Stays \/ Lifecycle!LifecycleNext
  BY DEF Stays, Lifecycle!promises
<1>1. ASSUME NEW b \in Batches, UploadStep(b) PROVE Stays \/ Lifecycle!LifecycleNext
  BY <1>1, UploadRefines
<1>2. ASSUME NEW b \in Batches, StorageStep(b) PROVE Stays
  BY <1>2, RowKeptStays DEF StorageStep, PutLands, PutIsDropped, imports
<1>3. ASSUME NEW b \in Batches, SweepStep(b) \/ LeaseLapses(b)
      PROVE  Stays \/ Lifecycle!LifecycleNext
  BY <1>3, SweepRefines
<1>4. ASSUME NEW b \in Batches, OwnerStep(b) PROVE Stays \/ Lifecycle!LifecycleNext
  BY <1>4, OwnerRefines, SweepRefines DEF OwnerStep
<1>5. ASSUME NEW r \in Runners, RunStep(r) PROVE Stays \/ Lifecycle!LifecycleNext
  BY <1>5, RunRefines
<1>6. ASSUME NEW w \in Workers, WorkerStep(w) PROVE Stays
  BY <1>6, WorkerRefines
<1>7. CASE Aside
  BY <1>7, AsideIsCalm, RowKeptStays DEF imports
<1>8. CASE Trouble
  <2>1. ASSUME NEW b \in Batches, PutFails(b) \/ CleanUpFails(b) \/ CrashRequest(b) PROVE Stays
    BY <2>1, RowKeptStays DEF PutFails, CleanUpFails, CrashRequest, imports
  <2>2. ASSUME NEW b \in Batches, FinishFails(b) PROVE Stays \/ Lifecycle!LifecycleNext
    BY <2>2, UploadRefines
  <2>3. ASSUME NEW r \in Runners, InsertFails(r) \/ CompleteFails(r)
        PROVE  Stays \/ Lifecycle!LifecycleNext
    BY <2>3, RunRefines
  <2>4. ASSUME NEW w \in Workers, CrashWorker(w) PROVE Stays
    BY <2>4, RowKeptStays DEF CrashWorker
  <2>5. ASSUME NEW p \in Purgers, DeleteObjectFails(p) \/ CrashPurger(p) PROVE Aside
    BY <2>5 DEF Aside
  <2> QED BY <1>7, <1>8, <2>1, <2>2, <2>3, <2>4, <2>5 DEF Trouble
<1>9. CASE UNCHANGED vars
  BY <1>9, RowKeptStays DEF vars
<1>10. CASE \/ CloseAccount
            \/ \E p \in Purgers : PurgeStep(p)
            \/ \E b \in Batches, k \in Kinds : QueueStep(b, k)
  BY <1>7, <1>10 DEF Aside, PurgeStep
<1> QED BY <1>1, <1>2, <1>3, <1>4, <1>5, <1>6, <1>8, <1>9, <1>10 DEF Next

\* Every step of the import, whoever takes it and whatever breaks off, is a step
\* of an import that books its file from the first chunk to the last and ends
\* once, or is invisible to its owner (confirmImport, runImportChunks).
THEOREM ImplementsLifecycleHolds == CsvSpec => ImplementsLifecycle
<1> QED BY InitRefines, NextRefines, IInvHolds, PTL
    DEF CsvSpec, ImplementsLifecycle, Lifecycle!LifecycleSpec
=============================================================================
