---------------------------- MODULE CsvFilesProofs ----------------------------
(***************************************************************************)
(* No stored CSV file of CsvImport is beyond reach, for any set of         *)
(* batches, workers and purge workers and any budget of faults.  FilesInv  *)
(* follows a file from its PUT to its purge; the deletion of the account   *)
(* rests on it as well.                                                    *)
(***************************************************************************)
EXTENDS CsvImportProofs

USE CsvAssumption

-----------------------------------------------------------------------------
(* Where the file of one batch may be. *)

Live == {"PENDING", "PROCESSING", "FAILED"}
Named(b) == row[b].source \/ \E k \in Kinds : job[b][k].state \in Live
Early(b) == \E k \in Kinds : job[b][k].early

\* While a PUT may still be applied nothing has been booked, the attempts are
\* not spent, and the file is named in a way that waits for the PUT.
Airborne(b) ==
    flight[b] =>
        /\ ~object[b] /\ records[b] = {} /\ upload[b] # "stored"
        /\ row[b].attempt < MaxAttempts
        /\ row[b].state \notin {"NONE", "STAGED", "COMPLETE"}
        /\ (row[b].staged => row[b].state \in {"STAGING", "GONE"})
        /\ row[b].source \/ Early(b)

\* A job waits out the grace of its PUT untouched; past it the PUT is over.
Graces(b) ==
    \A k \in Kinds :
        /\ job[b][k].early => job[b][k].state = "PENDING" /\ job[b][k].attempt = 0
        /\ job[b][k].state # "NONE" /\ ~job[b][k].early => ~flight[b]

Flow(b) ==
    /\ row[b].source => Exists(b)
    /\ row[b].state = "NONE" => ~object[b] /\ records[b] = {}
    /\ object[b] => Named(b)
    /\ Airborne(b)
    /\ Graces(b)

\* An attempt that books, and one that purges, come after the PUT.
RunFlow(r) ==
    /\ run[r].at # "idle" => row[run[r].batch].state # "NONE"
    /\ run[r].at = "inserting" \/ (r \in Batches /\ run[r].at = "deferring") => ~flight[run[r].batch]

PurgeFlow(p) ==
    purge[p].at # "idle" =>
        /\ ~flight[purge[p].batch]
        /\ purge[p].at = "settling" => ~object[purge[p].batch]

FilesInv ==
    /\ \A b \in Batches : Flow(b)
    /\ \A r \in Runners : RunFlow(r)
    /\ \A p \in Purgers : PurgeFlow(p)

\* The request of b still holds its reservation.
Held(b) == row[b].state \in {"STAGING", "PROCESSING"} /\ row[b].holder = b

\* What no step does once the account closes: begin a PUT, name a file, or stop
\* waiting for a PUT that is under way.
Ebb(b) ==
    /\ flight'[b] => flight[b]
    /\ object'[b] => object[b] \/ flight[b]
    /\ row'[b].source => row[b].source
    /\ flight'[b] /\ Early(b) => Early(b)'
    /\ flight'[b] /\ Held(b) => Held(b)' \/ Early(b)'

FilesStep == FilesInv' /\ (~active => \A b \in Batches : Ebb(b))

-----------------------------------------------------------------------------
(* What a step makes of the file of one batch. *)

LEMMA Untouched ==
  ASSUME NEW b \in Batches, Flow(b), row'[b] = row[b], upload'[b] = upload[b],
         flight'[b] = flight[b], object'[b] = object[b], records'[b] = records[b], job'[b] = job[b]
  PROVE  Flow(b)' /\ Ebb(b)
  BY DEF Flow, Ebb, Airborne, Graces, Named, Early, Held, Exists

\* The PUT is applied, dropped or answered; the object goes; records go.
LEMMA FileMoves ==
  ASSUME NEW b \in Batches, Flow(b), row'[b] = row[b], job'[b] = job[b],
         flight'[b] => flight[b] /\ ~object'[b] /\ upload'[b] # "stored",
         object'[b] => object[b] \/ flight[b],
         records'[b] \in SUBSET records[b]
  PROVE  Flow(b)' /\ Ebb(b)
<1>1. row'[b].source \/ Early(b)' <=> row[b].source \/ Early(b)
  BY DEF Early
<1>2. Named(b)' <=> Named(b)
  BY DEF Named
<1>3. Early(b) => Named(b)
  BY DEF Flow, Graces, Early, Named, Live
<1>4. object'[b] => Named(b)'
  BY <1>2, <1>3 DEF Flow, Airborne, Named
<1>5. Airborne(b)'
  BY <1>1 DEF Flow, Airborne
<1>6. Graces(b)'
  BY DEF Flow, Graces
<1>7. row'[b].source => Exists(b)'
  BY DEF Flow, Exists
<1>8. row'[b].state = "NONE" => ~object'[b] /\ records'[b] = {}
  BY DEF Flow, Airborne
<1>9. Ebb(b)
  BY DEF Ebb, Early, Held
<1> QED BY <1>4, <1>5, <1>6, <1>7, <1>8, <1>9 DEF Flow

\* The row is rewritten and names what it named.
LEMMA RowGoesOn ==
  ASSUME NEW b \in Batches, Flow(b),
         flight'[b] = flight[b], object'[b] = object[b], job'[b] = job[b],
         row'[b].source = row[b].source, row'[b].state \notin {"NONE", "GONE"},
         flight[b] => /\ row'[b].state \notin {"STAGED", "COMPLETE"}
                      /\ row'[b].attempt < MaxAttempts
                      /\ (row'[b].staged => row'[b].state = "STAGING")
                      /\ upload'[b] # "stored" /\ records'[b] = {},
         ~active /\ flight[b] /\ Held(b) => Held(b)'
  PROVE  Flow(b)' /\ (~active => Ebb(b))
<1>1. Named(b)' <=> Named(b)
  BY DEF Named
<1>2. Early(b)' <=> Early(b)
  BY DEF Early
<1>3. Airborne(b)'
  BY <1>2 DEF Flow, Airborne
<1>4. Graces(b)'
  BY DEF Flow, Graces
<1>5. Flow(b)'
  BY <1>1, <1>3, <1>4 DEF Flow, Exists
<1>6. ~active => Ebb(b)
  BY <1>2 DEF Ebb
<1> QED BY <1>5, <1>6

\* The row lets go of the file and the batch's own purge job takes it over.
LEMMA RowLetsGo ==
  ASSUME CsvTypeOK, NEW b \in Batches, Flow(b), NEW grace \in BOOLEAN, QueueOwn(b, grace),
         flight'[b] = flight[b], object'[b] = object[b],
         ~row'[b].source, row'[b].state # "NONE",
         flight[b] => /\ grace
                      /\ row'[b].state \notin {"STAGED", "COMPLETE"}
                      /\ row'[b].attempt < MaxAttempts
                      /\ (row'[b].staged => row'[b].state \in {"STAGING", "GONE"})
                      /\ upload'[b] # "stored" /\ records'[b] = {}
  PROVE  Flow(b)' /\ Ebb(b)
<1>1. CASE ~row[b].source
  <2>1. job'[b] = job[b]
    BY <1>1 DEF QueueOwn
  <2>2. (Named(b)' <=> Named(b)) /\ (Early(b)' <=> Early(b))
    BY <1>1, <2>1 DEF Named, Early
  <2>3. Airborne(b)' /\ Graces(b)'
    BY <1>1, <2>1, <2>2 DEF Flow, Airborne, Graces
  <2>4. flight[b] => Early(b)
    BY <1>1 DEF Flow, Airborne
  <2> QED BY <1>1, <2>2, <2>3, <2>4 DEF Flow, Ebb
<1>2. CASE row[b].source
  <2> DEFINE x == [NoJob EXCEPT !.state = "PENDING", !.early = grace]
  <2>1. x.state = "PENDING" /\ x.early = grace /\ x.attempt = 0
    BY DEF NoJob
  <2>2. job' = [job EXCEPT ![b]["own"] = x]
    BY <1>2 DEF QueueOwn
  <2> HIDE DEF x
  <2>3. "own" \in Kinds /\ job \in [Batches -> [Kinds -> PurgeJob]]
    BY DEF CsvTypeOK, Kinds
  <2>4. job'[b]["own"] = x /\ \A k \in Kinds : k # "own" => job'[b][k] = job[b][k]
    BY <2>2, <2>3
  <2>5. Named(b)' /\ (flight[b] => Early(b)')
    BY <2>1, <2>3, <2>4 DEF Named, Early, Live
  <2>6. Graces(b)'
    BY <2>1, <2>4 DEF Flow, Graces
  <2>7. Airborne(b)'
    BY <2>5 DEF Flow, Airborne
  <2> QED BY <2>5, <2>6, <2>7 DEF Flow, Ebb
<1> QED BY <1>1, <1>2

\* A job whose grace is over, or ends now, is claimed, ended or given back.
LEMMA JobGoesOn ==
  ASSUME CsvTypeOK, NEW b \in Batches, Flow(b), NEW k \in Kinds, NEW x \in PurgeJob,
         job' = [job EXCEPT ![b][k] = x],
         row'[b] = row[b], upload'[b] = upload[b], flight'[b] = flight[b], object'[b] = object[b],
         records'[b] = records[b],
         ~flight[b], x.state # "NONE", ~x.early, x.state \in Live \/ ~object[b]
  PROVE  Flow(b)' /\ Ebb(b)
<1>1. job \in [Batches -> [Kinds -> PurgeJob]]
  BY DEF CsvTypeOK
<1>2. job'[b][k] = x /\ \A l \in Kinds : l # k => job'[b][l] = job[b][l]
  BY <1>1
<1>3. object'[b] => Named(b)'
  BY <1>2 DEF Flow, Named
<1>4. Airborne(b)'
  BY DEF Airborne
<1>5. Graces(b)'
  BY <1>2 DEF Flow, Graces
<1> QED BY <1>3, <1>4, <1>5 DEF Flow, Ebb, Exists

-----------------------------------------------------------------------------
(* From one batch to the invariant. *)

\* A step that concerns the batch b.
Only(b) ==
    \A c \in Batches : c # b =>
        /\ row'[c] = row[c] /\ upload'[c] = upload[c] /\ flight'[c] = flight[c]
        /\ object'[c] = object[c] /\ records'[c] = records[c] /\ job'[c] = job[c]

\* Attempts and purges keep their flow when no file comes back.
RunsGo == \A r \in Runners : run'[r] = run[r] \/ RunFlow(r)'
PurgesGo == \A p \in Purgers : purge'[p] = purge[p] \/ PurgeFlow(p)'

Steady(b) ==
    row[b].state # "NONE" =>
        /\ row'[b].state # "NONE"
        /\ flight'[b] => flight[b]
        /\ object'[b] => object[b] \/ flight[b]

LEMMA FilesFrom ==
  ASSUME IInv, FilesInv, \A b \in Batches : Flow(b)' /\ Steady(b), RunsGo, PurgesGo
  PROVE  FilesInv'
<1>1. ASSUME NEW r \in Runners PROVE RunFlow(r)'
  <2>1. CASE run'[r] = run[r] /\ run[r].at = "idle"
    BY <2>1 DEF RunFlow
  <2>2. CASE run'[r] = run[r] /\ run[r].at # "idle"
    <3>1. run[r].batch \in Batches /\ RunFlow(r)
      BY <2>2 DEF IInv, Bound, FilesInv
    <3> QED BY <2>2, <3>1 DEF RunFlow, Steady
  <2> QED BY <2>1, <2>2 DEF RunsGo
<1>2. ASSUME NEW p \in Purgers PROVE PurgeFlow(p)'
  <2>1. CASE purge'[p] = purge[p] /\ purge[p].at = "idle"
    BY <2>1 DEF PurgeFlow
  <2>2. CASE purge'[p] = purge[p] /\ purge[p].at # "idle"
    <3>1. purge[p].batch \in Batches /\ PurgeFlow(p) /\ row[purge[p].batch].state # "NONE"
      BY <2>2 DEF IInv, Bound, Checked, FilesInv
    <3> QED BY <2>2, <3>1 DEF PurgeFlow, Steady
  <2> QED BY <2>1, <2>2 DEF PurgesGo
<1> QED BY <1>1, <1>2 DEF FilesInv

\* A step that concerns b and keeps the flow of its file.
LEMMA AtOne ==
  ASSUME IInv, FilesInv, NEW b \in Batches, Only(b), Flow(b)', ~active => Ebb(b), Steady(b),
         RunsGo, PurgesGo
  PROVE  FilesStep
<1>1. ASSUME NEW c \in Batches, c # b PROVE Flow(c)' /\ Ebb(c) /\ Steady(c)
  BY <1>1, Untouched DEF FilesInv, Only, Steady
<1>2. FilesInv'
  BY <1>1, FilesFrom
<1> QED BY <1>1, <1>2 DEF FilesStep

LEMMA RunsStay == run' = run => RunsGo
  BY DEF RunsGo

LEMMA PurgesStay == purge' = purge => PurgesGo
  BY DEF PurgesGo

LEMMA OneRunGoes ==
  ASSUME NEW r \in Runners, \A q \in Runners : q # r => run'[q] = run[q], RunFlow(r)'
  PROVE  RunsGo
  BY DEF RunsGo

LEMMA RunEnds ==
  ASSUME CsvTypeOK, NEW r \in Runners, Ends(r) PROVE RunsGo
<1>1. run'[r] = Idle /\ \A q \in Runners : q # r => run'[q] = run[q]
  BY DEF Ends, CsvTypeOK
<1> QED BY <1>1, OneRunGoes DEF RunFlow, Idle

-----------------------------------------------------------------------------
(* The request that stores the file. *)

\* The reservation: the row of a new batch, and a PUT under way.
LEMMA ReserveFlow ==
  ASSUME IInv, FilesInv, NEW b \in Batches, Reserve(b),
         NEW s \in {"STAGING", "PROCESSING"}, NEW staged \in BOOLEAN, NEW attempt \in {0, 1},
         staged => s = "STAGING",
         row' = [row EXCEPT ![b] = Reservation(b, s, staged, attempt)],
         object' = object, records' = records, job' = job, purge' = purge, RunsGo
  PROVE  FilesStep
<1>1. /\ row'[b] = Reservation(b, s, staged, attempt) /\ flight'[b] /\ upload'[b] = "putting"
      /\ row[b].state = "NONE"
  BY DEF Reserve, UploadGoes, IInv, CsvTypeOK
<1>2. /\ row'[b].state = s /\ row'[b].staged = staged /\ row'[b].source
      /\ row'[b].attempt = attempt
  BY <1>1 DEF Reservation
<1>3. Only(b)
  BY DEF Only, Reserve, UploadGoes, IInv, CsvTypeOK
<1>4. /\ ~object[b] /\ records[b] = {} /\ \A k \in Kinds : job[b][k].state = "NONE"
      /\ Flow(b)
  BY <1>1 DEF FilesInv, Flow, IInv, Unknown
<1>5. attempt < MaxAttempts
  BY DEF CsvAssumption
<1>6. Airborne(b)'
  BY <1>1, <1>2, <1>4, <1>5 DEF Airborne
<1>7. Graces(b)'
  BY <1>4 DEF Flow, Graces
<1>8. Flow(b)'
  BY <1>2, <1>4, <1>6, <1>7 DEF Flow, Exists
<1>9. active /\ Steady(b)
  BY <1>1 DEF Steady, Reserve
<1> QED BY <1>3, <1>8, <1>9, PurgesStay, AtOne

LEMMA ReserveStageFiles ==
  ASSUME IInv, FilesInv, NEW b \in Batches, ReserveStage(b) PROVE FilesStep
<1>1. /\ Reserve(b) /\ row' = [row EXCEPT ![b] = Reservation(b, "STAGING", TRUE, 0)]
      /\ object' = object /\ records' = records /\ job' = job /\ purge' = purge /\ run' = run
  BY DEF ReserveStage, purging
<1> QED BY <1>1, RunsStay, ReserveFlow

LEMMA ReserveImportFiles ==
  ASSUME IInv, FilesInv, NEW b \in Batches, ReserveImport(b) PROVE FilesStep
<1> PICK attempt \in {0, 1} :
        /\ Reserve(b)
        /\ row' = [row EXCEPT ![b] = Reservation(b, "PROCESSING", FALSE, attempt)]
        /\ Begins(b, b, attempt, "uploading")
        /\ UNCHANGED <<object, records, landed, purging, active, faults>>
  BY DEF ReserveImport
<1>1. b \in Runners /\ attempt \in Nat
  BY DEF Runners
<1>2. /\ run'[b].at = "uploading" /\ run'[b].batch = b
      /\ \A q \in Runners : q # b => run'[q] = run[q]
  BY <1>1, BeginsWhat DEF IInv
<1>3. row'[b].state = "PROCESSING"
  BY DEF IInv, CsvTypeOK, Reservation
<1>4. RunsGo
  BY <1>1, <1>2, <1>3, OneRunGoes DEF RunFlow
<1>5. object' = object /\ records' = records /\ job' = job /\ purge' = purge
  BY DEF purging
<1> QED BY <1>4, <1>5, ReserveFlow

LEMMA PutFiles ==
  ASSUME IInv, FilesInv, NEW b \in Batches,
         PutLands(b) \/ PutIsDropped(b) \/ PutIsAnswered(b) \/ PutFails(b)
         \/ FinishIsRefused(b) \/ CleanUpFails(b)
  PROVE  FilesStep
<1>1. row' = row /\ run' = run /\ records' = records /\ job' = job /\ purge' = purge
  BY DEF PutLands, PutIsDropped, PutIsAnswered, PutFails, FinishIsRefused, CleanUpFails,
     imports, purging
<1>2. Only(b)
  BY <1>1 DEF Only, PutLands, PutIsDropped, PutIsAnswered, PutFails, FinishIsRefused,
     CleanUpFails, UploadGoes, storage, IInv, CsvTypeOK
<1>3. /\ flight'[b] => flight[b] /\ ~object'[b] /\ upload'[b] # "stored"
      /\ object'[b] => object[b] \/ flight[b]
  BY DEF PutLands, PutIsDropped, PutIsAnswered, PutFails, FinishIsRefused, CleanUpFails,
     UploadGoes, storage, IInv, CsvTypeOK, FilesInv, Flow, Airborne
<1>4. Flow(b)' /\ Ebb(b)
  BY <1>1, <1>3, FileMoves DEF FilesInv
<1>5. Steady(b)
  BY <1>1, <1>3 DEF Steady
<1> QED BY <1>1, <1>2, <1>4, <1>5, RunsStay, PurgesStay, AtOne

LEMMA PublishedWhat ==
  ASSUME CsvTypeOK, NEW b \in Batches, row' = [row EXCEPT ![b] = Published(b)]
  PROVE  /\ row'[b].source = row[b].source
         /\ row'[b].state \in {"STAGED", "PENDING", row[b].state}
         /\ \A c \in Batches : c # b => row'[c] = row[c]
<1>1. row[b] \in BatchRow /\ row'[b] = Published(b) /\ \A c \in Batches : c # b => row'[c] = row[c]
  BY DEF CsvTypeOK
<1>2. Published(b).source = row[b].source /\ Published(b).state \in {"STAGED", "PENDING", row[b].state}
  <2>1. row[b] \in BatchRow
    BY <1>1
  <2> QED BY <2>1 DEF Published, Released, BatchRow
<1> QED BY <1>1, <1>2

\* Publishing the row: its PUT has been answered.
LEMMA PublishedFlow ==
  ASSUME IInv, FilesInv, NEW b \in Batches, upload[b] = "stored", StillReserved(b),
         row' = [row EXCEPT ![b] = Published(b)],
         flight' = flight, object' = object, job' = job
  PROVE  Flow(b)' /\ (~active => Ebb(b)) /\ Steady(b)
<1>1. /\ row'[b].source = row[b].source
      /\ row'[b].state \in {"STAGED", "PENDING", row[b].state}
  BY PublishedWhat DEF IInv
<1>2. Flow(b) /\ ~flight[b]
  BY DEF FilesInv, Flow, Airborne
<1>3. b \in Runners /\ (~row[b].staged => run[b].batch = b)
  BY DEF IInv, StoresFirst, Uploading, Runners
<1>4. row[b].state \in {"STAGING", "PROCESSING"}
  BY <1>3 DEF StillReserved, Owns
<1>5. row'[b].state \notin {"NONE", "GONE"}
  BY <1>1, <1>4
<1> QED BY <1>1, <1>2, <1>5, RowGoesOn DEF Steady

LEMMA FinishUploadFiles ==
  ASSUME IInv, FilesInv, NEW b \in Batches, FinishUpload(b) PROVE FilesStep
<1>1. /\ upload[b] = "stored" /\ StillReserved(b) /\ row' = [row EXCEPT ![b] = Published(b)]
      /\ flight' = flight /\ object' = object /\ job' = job /\ purge' = purge /\ records' = records
  BY DEF FinishUpload, storage, purging
<1>2. Flow(b)' /\ (~active => Ebb(b)) /\ Steady(b)
  BY <1>1, PublishedFlow
<1>3. Only(b)
  BY <1>1, PublishedWhat DEF Only, FinishUpload, UploadGoes, IInv, CsvTypeOK
<1>4. b \in Runners /\ \A q \in Runners : q # b => run'[q] = run[q]
  BY DEF FinishUpload, IInv, CsvTypeOK, Runners
<1>5. run'[b] = Idle \/ run'[b].batch = b
  <2>1. run[b] \in Attempt /\ DOMAIN run = Runners
    BY <1>4 DEF IInv, CsvTypeOK
  <2>2. ~row[b].staged => run[b].batch = b
    BY <1>1 DEF IInv, StoresFirst, Uploading
  <2> QED BY <1>4, <2>1, <2>2 DEF FinishUpload, Attempt
<1>6. ~flight'[b] /\ row'[b].state # "NONE"
  BY <1>1, <1>2 DEF FilesInv, Flow, Airborne, Steady, IInv, Unknown, Uploading
<1>7. RunFlow(b)'
  BY <1>5, <1>6 DEF RunFlow, Idle
<1> QED BY <1>1, <1>2, <1>3, <1>4, <1>7, OneRunGoes, PurgesStay, AtOne

LEMMA FinishFailsFiles ==
  ASSUME IInv, FilesInv, NEW b \in Batches, FinishFails(b) PROVE FilesStep
<1>1. /\ upload[b] = "stored" /\ upload'[b] = "failing" /\ run' = run
      /\ flight' = flight /\ object' = object /\ job' = job /\ purge' = purge /\ records' = records
      /\ \A c \in Batches : c # b => upload'[c] = upload[c]
  BY DEF FinishFails, UploadGoes, storage, purging, IInv, CsvTypeOK
<1>2. CASE row' = row
  <2>1. Flow(b)' /\ Ebb(b) /\ Steady(b)
    BY <1>1, <1>2, FileMoves DEF FilesInv, Steady, Flow, Airborne
  <2> QED BY <1>1, <1>2, <2>1, RunsStay, PurgesStay, AtOne DEF Only
<1>3. CASE StillReserved(b) /\ row' = [row EXCEPT ![b] = Published(b)]
  <2>1. Flow(b)' /\ (~active => Ebb(b)) /\ Steady(b)
    BY <1>1, <1>3, PublishedFlow
  <2>2. Only(b)
    BY <1>1, <1>3, PublishedWhat DEF Only, IInv
  <2> QED BY <1>1, <2>1, <2>2, RunsStay, PurgesStay, AtOne
<1> QED BY <1>2, <1>3 DEF FinishFails

-----------------------------------------------------------------------------
(* The file is given to its purge job. *)

LEMMA ReleasedKept ==
  ASSUME CsvTypeOK, NEW b \in Batches, NEW s,
         row' = [row EXCEPT ![b] = Released(b, s)]
  PROVE  /\ row'[b].state = s /\ row'[b].staged = row[b].staged
         /\ row'[b].attempt = row[b].attempt /\ row'[b].source = row[b].source
         /\ \A c \in Batches : c # b => row'[c] = row[c]
<1> DEFINE x == Released(b, s)
<1>1. row[b] \in BatchRow
  BY RowOf
<1>2. x.state = s /\ x.staged = row[b].staged /\ x.attempt = row[b].attempt /\ x.source = row[b].source
  BY <1>1 DEF Released, BatchRow
<1>3. row' = [row EXCEPT ![b] = x]
  OBVIOUS
<1> HIDE DEF x
<1>4. row'[b] = x /\ \A c \in Batches : c # b => row'[c] = row[c]
  BY <1>3 DEF CsvTypeOK
<1> QED BY <1>2, <1>4

LEMMA ReleasedWhat ==
  ASSUME CsvTypeOK, NEW b \in Batches, NEW s,
         row' = [row EXCEPT ![b] = [Released(b, s) EXCEPT !.source = FALSE]]
  PROVE  /\ row'[b].state = s /\ row'[b].staged = row[b].staged
         /\ row'[b].attempt = row[b].attempt /\ ~row'[b].source
         /\ \A c \in Batches : c # b => row'[c] = row[c]
<1> DEFINE x == [Released(b, s) EXCEPT !.source = FALSE]
<1>1. row[b] \in BatchRow
  BY RowOf
<1>2. x.state = s /\ x.staged = row[b].staged /\ x.attempt = row[b].attempt /\ ~x.source
  BY <1>1 DEF Released, BatchRow
<1>3. row' = [row EXCEPT ![b] = x]
  OBVIOUS
<1> HIDE DEF x
<1>4. row'[b] = x /\ \A c \in Batches : c # b => row'[c] = row[c]
  BY <1>3 DEF CsvTypeOK
<1> QED BY <1>2, <1>4

LEMMA QueueOwnOnly ==
  ASSUME CsvTypeOK, NEW b \in Batches, NEW grace \in BOOLEAN, QueueOwn(b, grace)
  PROVE  \A c \in Batches : c # b => job'[c] = job[c]
  BY DEF QueueOwn, CsvTypeOK

\* A row that is released without its file.
LEMMA ReleasedFlow ==
  ASSUME IInv, FilesInv, NEW b \in Batches, NEW s \in {"GONE", "FAILED"}, NEW grace \in BOOLEAN,
         QueueOwn(b, grace), row' = [row EXCEPT ![b] = [Released(b, s) EXCEPT !.source = FALSE]],
         flight' = flight, object' = object,
         flight[b] => /\ grace /\ (row[b].staged => s = "GONE")
                      /\ upload'[b] # "stored" /\ records'[b] = {}
  PROVE  /\ Flow(b)' /\ Ebb(b) /\ Steady(b)
         /\ \A c \in Batches : c # b => row'[c] = row[c] /\ job'[c] = job[c]
<1>1. CsvTypeOK /\ s \in RowState
  BY DEF IInv, RowState
<1>3. /\ row'[b].state = s /\ row'[b].staged = row[b].staged
      /\ row'[b].attempt = row[b].attempt /\ ~row'[b].source
      /\ \A c \in Batches : c # b => row'[c] = row[c]
  BY <1>1, ReleasedWhat
<1>4. flight[b] => row[b].attempt < MaxAttempts
  BY DEF FilesInv, Flow, Airborne
<1>5. Flow(b)' /\ Ebb(b)
  BY <1>1, <1>3, <1>4, RowLetsGo DEF FilesInv
<1>6. Steady(b)
  BY <1>3 DEF Steady
<1> QED BY <1>1, <1>3, <1>5, <1>6, QueueOwnOnly

LEMMA PurgeRowFlow ==
  ASSUME IInv, FilesInv, NEW b \in Batches, PurgeRow(b), flight' = flight, object' = object,
         flight[b] => row[b].state = "STAGING" /\ upload'[b] # "stored" /\ records'[b] = {}
  PROVE  /\ Flow(b)' /\ Ebb(b) /\ Steady(b)
         /\ \A c \in Batches : c # b => row'[c] = row[c] /\ job'[c] = job[c]
<1>1. (row[b].state = "STAGING") \in BOOLEAN
  OBVIOUS
<1> QED BY <1>1, ReleasedFlow DEF PurgeRow

LEMMA FailRowFlow ==
  ASSUME IInv, FilesInv, NEW b \in Batches, NEW grace \in BOOLEAN, FailRow(b, grace),
         flight' = flight, object' = object,
         flight[b] => grace /\ ~row[b].staged /\ upload'[b] # "stored" /\ records'[b] = {}
  PROVE  /\ Flow(b)' /\ Ebb(b) /\ Steady(b)
         /\ \A c \in Batches : c # b => row'[c] = row[c] /\ job'[c] = job[c]
  BY ReleasedFlow DEF FailRow

LEMMA CleanUpFiles ==
  ASSUME IInv, FilesInv, NEW b \in Batches, CleanUp(b) PROVE FilesStep
<1>1. /\ upload'[b] = "tombstone" /\ \A c \in Batches : c # b => upload'[c] = upload[c]
      /\ flight' = flight /\ object' = object /\ run' = run /\ records' = records /\ purge' = purge
  BY DEF CleanUp, UploadGoes, storage, IInv, CsvTypeOK
<1>2. Flow(b) /\ Airborne(b)
  BY DEF FilesInv, Flow
<1>3. /\ Flow(b)' /\ Ebb(b) /\ Steady(b)
      /\ \A c \in Batches : c # b => row'[c] = row[c] /\ job'[c] = job[c]
  <2>1. CASE row' = row /\ job' = job
    BY <1>1, <1>2, <2>1, FileMoves DEF Airborne, Steady
  <2>2. CASE row[b].state \in {"STAGING", "STAGED"} /\ PurgeRow(b)
    BY <1>1, <1>2, <2>2, PurgeRowFlow DEF Airborne
  <2>3. CASE ~row[b].staged /\ FailRow(b, TRUE)
    BY <1>1, <1>2, <2>3, FailRowFlow DEF Airborne
  <2> QED BY <2>1, <2>2, <2>3 DEF CleanUp
<1> QED BY <1>1, <1>3, RunsStay, PurgesStay, AtOne DEF Only

LEMMA PlantTombstoneFiles ==
  ASSUME IInv, FilesInv, NEW b \in Batches, PlantTombstone(b) PROVE FilesStep
<1>1. /\ upload'[b] = "deleting" /\ \A c \in Batches : c # b => upload'[c] = upload[c]
      /\ row' = row /\ flight' = flight /\ object' = object /\ run' = run /\ records' = records
      /\ purge' = purge
  BY DEF PlantTombstone, UploadGoes, storage, imports, IInv, CsvTypeOK
<1>2. Flow(b) /\ Steady(b)
  BY <1>1 DEF FilesInv, Steady
<1>3. CASE job' = job
  <2>1. Flow(b)' /\ Ebb(b)
    BY <1>1, <1>2, <1>3, FileMoves DEF Flow, Airborne
  <2> QED BY <1>1, <1>2, <1>3, <2>1, RunsStay, PurgesStay, AtOne DEF Only
<1>4. CASE job' = [job EXCEPT ![b]["detached"] = Detached]
  <2>1. "detached" \in Kinds /\ job \in [Batches -> [Kinds -> PurgeJob]]
    BY DEF IInv, CsvTypeOK, Kinds
  <2>2. Detached.state = "PENDING" /\ Detached.early /\ Detached.attempt = 0
    BY DEF Detached, NoJob
  <2>3. /\ job'[b]["detached"] = Detached
        /\ \A k \in Kinds : k # "detached" => job'[b][k] = job[b][k]
        /\ \A c \in Batches : c # b => job'[c] = job[c]
    BY <1>4, <2>1
  <2>4. Named(b)' /\ Early(b)'
    BY <2>1, <2>2, <2>3 DEF Named, Early, Live
  <2>5. Graces(b)'
    BY <1>1, <1>2, <2>2, <2>3 DEF Flow, Graces
  <2>6. Airborne(b)'
    BY <1>1, <1>2, <2>4 DEF Flow, Airborne
  <2>7. Flow(b)' /\ Ebb(b)
    BY <1>1, <1>2, <2>4, <2>5, <2>6 DEF Flow, Ebb, Exists
  <2> QED BY <1>1, <1>2, <2>3, <2>7, RunsStay, PurgesStay, AtOne DEF Only
<1> QED BY <1>3, <1>4 DEF PlantTombstone

LEMMA DeleteUploadFiles ==
  ASSUME IInv, FilesInv, NEW b \in Batches, DeleteUpload(b) PROVE FilesStep
<1>1. /\ row' = row /\ flight' = flight /\ records' = records /\ job' = job /\ purge' = purge
      /\ upload'[b] = "over"
      /\ \A c \in Batches : c # b => upload'[c] = upload[c] /\ object'[c] = object[c]
      /\ object'[b] => object[b]
  BY DEF DeleteUpload, UploadGoes, purging, IInv, CsvTypeOK
<1>2. Flow(b)' /\ Ebb(b) /\ Steady(b)
  BY <1>1, FileMoves DEF FilesInv, Flow, Airborne, Steady
<1>3. RunsGo
  <2>1. CASE run' = run
    BY <2>1, RunsStay
  <2>2. CASE run' = [run EXCEPT ![b] = Idle]
    BY <2>2, RunEnds DEF Ends, IInv, Runners
  <2> QED BY <2>1, <2>2 DEF DeleteUpload
<1> QED BY <1>1, <1>2, <1>3, PurgesStay, AtOne DEF Only

LEMMA CrashRequestFiles ==
  ASSUME IInv, FilesInv, NEW b \in Batches, CrashRequest(b) PROVE FilesStep
<1>1. /\ row' = row /\ flight' = flight /\ object' = object /\ records' = records
      /\ job' = job /\ purge' = purge /\ upload'[b] = "over"
      /\ \A c \in Batches : c # b => upload'[c] = upload[c]
  BY DEF CrashRequest, UploadGoes, purging, storage, IInv, CsvTypeOK
<1>2. Flow(b)' /\ Ebb(b) /\ Steady(b)
  BY <1>1, FileMoves DEF FilesInv, Flow, Airborne, Steady
<1>3. RunsGo
  BY RunEnds DEF CrashRequest, IInv, Runners
<1> QED BY <1>1, <1>2, <1>3, PurgesStay, AtOne DEF Only

-----------------------------------------------------------------------------
(* The owner and the sweeps. *)

LEMMA SweepFiles ==
  ASSUME IInv, FilesInv, NEW b \in Batches, PurgeStage(b) \/ SweepStalled(b) PROVE FilesStep
<1>1. /\ upload' = upload /\ flight' = flight /\ object' = object /\ run' = run
      /\ records' = records /\ purge' = purge
  BY DEF PurgeStage, SweepStalled, storage
<1>2. Airborne(b)
  BY DEF FilesInv, Flow
<1>3. /\ Flow(b)' /\ Ebb(b) /\ Steady(b)
      /\ \A c \in Batches : c # b => row'[c] = row[c] /\ job'[c] = job[c]
  <2>1. CASE PurgeStage(b)
    BY <1>1, <1>2, <2>1, PurgeRowFlow DEF PurgeStage, Airborne
  <2>2. CASE SweepStalled(b)
    BY <1>1, <2>2, FailRowFlow DEF SweepStalled
  <2> QED BY <2>1, <2>2
<1> QED BY <1>1, <1>3, RunsStay, PurgesStay, AtOne DEF Only

LEMMA DiscardRecordsFiles ==
  ASSUME IInv, FilesInv, NEW b \in Batches, DiscardRecords(b) PROVE FilesStep
<1> PICK discarded \in (SUBSET records[b]) \ {{}} :
        /\ records' = [records EXCEPT ![b] = @ \ discarded]
        /\ IF records[b] = discarded /\ Exists(b) THEN PurgeRow(b) ELSE UNCHANGED <<row, job>>
        /\ UNCHANGED <<upload, run, storage, landed, purge, active, faults>>
  BY DEF DiscardRecords
<1>1. /\ upload' = upload /\ flight' = flight /\ object' = object /\ run' = run /\ purge' = purge
      /\ records' = [records EXCEPT ![b] = records[b] \ discarded]
  BY DEF storage
<1>2. records[b] # {}
  <2>1. discarded # {} /\ discarded \subseteq records[b]
    OBVIOUS
  <2> QED BY <2>1
<1>3. /\ records'[b] \in SUBSET records[b]
      /\ \A c \in Batches : c # b => records'[c] = records[c]
  <2>1. records \in [Batches -> SUBSET (1 .. Chunks)]
    BY DEF IInv, CsvTypeOK
  <2>2. records'[b] = records[b] \ discarded
    BY <1>1, <2>1
  <2> QED BY <1>1, <2>1, <2>2
<1>4. Flow(b) /\ ~flight[b]
  BY <1>2 DEF FilesInv, Flow, Airborne
<1>5. /\ Flow(b)' /\ Ebb(b) /\ Steady(b)
      /\ \A c \in Batches : c # b => row'[c] = row[c] /\ job'[c] = job[c]
  <2>1. CASE row' = row /\ job' = job
    BY <1>1, <1>3, <1>4, <2>1, FileMoves DEF Steady
  <2>2. CASE PurgeRow(b)
    BY <1>1, <1>4, <2>2, PurgeRowFlow
  <2> QED BY <2>1, <2>2
<1> QED BY <1>1, <1>3, <1>5, RunsStay, PurgesStay, AtOne DEF Only

LEMMA SourceGoes ==
  ASSUME CsvTypeOK, NEW b \in Batches, row' = [row EXCEPT ![b].source = FALSE]
  PROVE  /\ row'[b].state = row[b].state /\ ~row'[b].source
         /\ \A c \in Batches : c # b => row'[c] = row[c]
<1>1. row[b] \in BatchRow /\ DOMAIN row = Batches
  BY DEF CsvTypeOK
<1> QED BY <1>1 DEF BatchRow

LEMMA RetentionEndsFiles ==
  ASSUME IInv, FilesInv, NEW b \in Batches, RetentionEnds(b) PROVE FilesStep
<1>1. /\ upload' = upload /\ flight' = flight /\ object' = object /\ run' = run
      /\ records' = records /\ purge' = purge /\ QueueOwn(b, FALSE)
      /\ row[b].state = "COMPLETE" /\ row' = [row EXCEPT ![b].source = FALSE]
  BY DEF RetentionEnds, storage
<1>2. Flow(b) /\ ~flight[b] /\ CsvTypeOK /\ FALSE \in BOOLEAN
  BY <1>1 DEF FilesInv, Flow, Airborne, IInv
<1>3. row'[b].state = "COMPLETE" /\ ~row'[b].source /\ \A c \in Batches : c # b => row'[c] = row[c]
  BY <1>1, <1>2, SourceGoes
<1>4. Flow(b)' /\ Ebb(b) /\ Steady(b)
  BY <1>1, <1>2, <1>3, RowLetsGo DEF Steady
<1>5. \A c \in Batches : c # b => job'[c] = job[c]
  BY <1>1, <1>2, QueueOwnOnly
<1> QED BY <1>1, <1>3, <1>4, <1>5, RunsStay, PurgesStay, AtOne DEF Only

\* A heartbeat, or a lease that lapses.
LEMMA FlagFlow ==
  ASSUME IInv, FilesInv, NEW b \in Batches,
         row' = [row EXCEPT ![b].fresh = TRUE] \/ row' = [row EXCEPT ![b].fresh = FALSE],
         row[b].state \notin {"NONE", "GONE"},
         upload' = upload, flight' = flight, object' = object, records' = records, job' = job
  PROVE  Flow(b)' /\ (~active => Ebb(b)) /\ Steady(b) /\ Only(b)
<1>1. /\ row'[b].state = row[b].state /\ row'[b].staged = row[b].staged
      /\ row'[b].attempt = row[b].attempt /\ row'[b].holder = row[b].holder
      /\ row'[b].source = row[b].source
      /\ \A c \in Batches : c # b => row'[c] = row[c]
  <2>1. row[b] \in BatchRow /\ DOMAIN row = Batches
    BY DEF IInv, CsvTypeOK
  <2> QED BY <2>1 DEF BatchRow
<1>2. Flow(b) /\ Airborne(b)
  BY DEF FilesInv, Flow
<1>3. Flow(b)' /\ (~active => Ebb(b))
  BY <1>1, <1>2, RowGoesOn DEF Airborne, Held
<1> QED BY <1>1, <1>3 DEF Steady, Only

LEMMA LeaseLapsesFiles ==
  ASSUME IInv, FilesInv, NEW b \in Batches, LeaseLapses(b) PROVE FilesStep
<1>1. /\ upload' = upload /\ flight' = flight /\ object' = object /\ run' = run
      /\ records' = records /\ job' = job /\ purge' = purge
      /\ row' = [row EXCEPT ![b].fresh = FALSE] /\ row[b].state \notin {"NONE", "GONE"}
  BY DEF LeaseLapses, storage, purging
<1>2. Flow(b)' /\ (~active => Ebb(b)) /\ Steady(b) /\ Only(b)
  BY <1>1, FlagFlow
<1> QED BY <1>1, <1>2, RunsStay, PurgesStay, AtOne

LEMMA ConfirmStageFiles ==
  ASSUME IInv, FilesInv, NEW b \in Batches, ConfirmStage(b) PROVE FilesStep
<1>1. /\ upload' = upload /\ flight' = flight /\ object' = object /\ records' = records
      /\ job' = job /\ purge' = purge /\ active /\ row[b].state = "STAGED"
  BY DEF ConfirmStage, storage, purging
<1>2. Flow(b) /\ ~flight[b]
  BY <1>1 DEF FilesInv, Flow, Airborne
<1>3. CASE row' = [row EXCEPT ![b].state = "PENDING"] /\ UNCHANGED run
  <2>1. row[b] \in BatchRow /\ DOMAIN row = Batches
    BY DEF IInv, CsvTypeOK
  <2>2. /\ row'[b].state = "PENDING" /\ row'[b].source = row[b].source
        /\ \A c \in Batches : c # b => row'[c] = row[c]
    BY <1>3, <2>1 DEF BatchRow
  <2>3. Flow(b)' /\ Steady(b) /\ Only(b)
    BY <1>1, <1>2, <2>2, RowGoesOn DEF Steady, Only
  <2> QED BY <1>1, <1>3, <2>3, RunsStay, PurgesStay, AtOne
<1>4. CASE row' = [row EXCEPT ![b] = Taken(b, b, 1)] /\ Begins(b, b, 1, "inserting")
  <2>1. b \in Runners
    BY DEF Runners
  <2>2. /\ \A c \in Batches : c # b => row'[c] = row[c]
        /\ row'[b].state = "PROCESSING" /\ row'[b].source = row[b].source
    BY <1>4, TakenWhat DEF IInv
  <2>3. Flow(b)' /\ Steady(b) /\ Only(b)
    BY <1>1, <1>2, <2>2, RowGoesOn DEF Steady, Only
  <2>4. run'[b].batch = b /\ \A q \in Runners : q # b => run'[q] = run[q]
    BY <1>4, <2>1, BeginsWhat DEF IInv
  <2>5. RunsGo
    BY <1>1, <1>2, <2>1, <2>2, <2>4, OneRunGoes DEF RunFlow
  <2> QED BY <1>1, <2>3, <2>5, PurgesStay, AtOne
<1> QED BY <1>3, <1>4 DEF ConfirmStage

-----------------------------------------------------------------------------
(* The import attempts. *)

LEMMA RunGoesWhat ==
  ASSUME CsvTypeOK, NEW r \in Runners, NEW place, RunGoes(r, place)
  PROVE  /\ run'[r].at = place /\ run'[r].batch = run[r].batch
         /\ \A q \in Runners : q # r => run'[q] = run[q]
<1>1. run[r] \in Attempt /\ DOMAIN run = Runners
  BY DEF CsvTypeOK
<1> QED BY <1>1 DEF RunGoes, Attempt

\* A step of an attempt that leaves every batch as it was.
LEMMA OnlyTheRun ==
  ASSUME IInv, FilesInv, row' = row, upload' = upload, flight' = flight, object' = object,
         records' = records, job' = job, purge' = purge, RunsGo
  PROVE  FilesStep
<1>1. ASSUME NEW b \in Batches PROVE Flow(b)' /\ Ebb(b) /\ Steady(b)
  BY <1>1, Untouched DEF FilesInv, Steady
<1> QED BY <1>1, PurgesStay, FilesFrom DEF FilesStep

LEMMA ClaimFiles ==
  ASSUME IInv, FilesInv, NEW w \in Workers, NEW b \in Batches, Claim(w, b) PROVE FilesStep
<1>1. /\ upload' = upload /\ flight' = flight /\ object' = object /\ records' = records
      /\ job' = job /\ purge' = purge /\ active /\ Claimable(b)
      /\ row[b].attempt + 1 >= MaxAttempts => ~flight[b]
      /\ row' = [row EXCEPT ![b] = Taken(b, w, row[b].attempt + 1)]
      /\ Begins(w, b, row[b].attempt + 1, "restoring")
  BY DEF Claim, storage, purging
<1>2. w \in Runners /\ row[b] \in BatchRow /\ row[b].attempt + 1 \in Nat
  BY RowOf DEF IInv, Runners, BatchRow
<1>3. /\ \A c \in Batches : c # b => row'[c] = row[c]
      /\ row'[b].state = "PROCESSING"
      /\ row'[b].source = row[b].source /\ row'[b].staged = row[b].staged
  BY <1>1, TakenWhat DEF IInv
<1>4. row'[b].attempt = row[b].attempt + 1
  <2> DEFINE n == row[b].attempt + 1
  <2>1. row'[b] = Taken(b, w, n)
    BY <1>1 DEF IInv, CsvTypeOK
  <2> HIDE DEF n
  <2>2. Taken(b, w, n).attempt = n
    BY <1>2 DEF Taken, BatchRow
  <2> QED BY <2>1, <2>2 DEF n
<1>5. flight[b] => ~row[b].staged /\ row'[b].attempt < MaxAttempts
  BY <1>1, <1>2, <1>4 DEF FilesInv, Flow, Airborne, Claimable, CsvAssumption
<1>6. Flow(b)' /\ Steady(b)
  BY <1>1, <1>3, <1>5, RowGoesOn DEF FilesInv, Flow, Airborne, Steady
<1>7. run'[w].batch = b /\ run'[w].at = "restoring" /\ \A q \in Runners : q # w => run'[q] = run[q]
  BY <1>1, <1>2, BeginsWhat DEF IInv
<1>8. RunsGo
  BY <1>2, <1>3, <1>7, OneRunGoes DEF RunFlow, CsvAssumption
<1> QED BY <1>1, <1>3, <1>6, <1>8, PurgesStay, AtOne DEF Only

LEMMA RestoreFiles ==
  ASSUME IInv, FilesInv, NEW w \in Workers, Restore(w) PROVE FilesStep
<1> PICK b \in Batches : b = run[w].batch
  BY DEF Restore, IInv, Bound, Runners
<1>1. /\ upload' = upload /\ flight' = flight /\ object' = object /\ records' = records
      /\ job' = job /\ purge' = purge /\ run[w].at = "restoring" /\ Readable(b)
  BY DEF Restore, storage, purging
<1>2. w \in Runners /\ w \notin Batches
  BY DEF Runners, CsvAssumption
<1>3. CASE Owns(w) /\ row' = [row EXCEPT ![b].fresh = TRUE] /\ RunGoes(w, "inserting")
  <2>1. row[b].state = "PROCESSING"
    BY <1>3 DEF Owns
  <2>2. Flow(b) /\ ~flight[b]
    BY <1>1, <1>2, <2>1 DEF FilesInv, Flow, Airborne, Readable
  <2>3. Flow(b)' /\ (~active => Ebb(b)) /\ Steady(b) /\ Only(b)
    BY <1>1, <1>2, <1>3, <2>1, FlagFlow
  <2>4. RunFlow(w)'
    BY <1>1, <1>2, <1>3, <2>1, <2>2, <2>3, RunGoesWhat DEF IInv, RunFlow, Steady
  <2>5. RunsGo
    BY <1>2, <1>3, <2>4, RunGoesWhat, OneRunGoes DEF IInv
  <2> QED BY <1>1, <1>2, <2>3, <2>5, PurgesStay, AtOne
<1>4. CASE UNCHANGED row /\ Ends(w)
  BY <1>1, <1>2, <1>4, RunEnds, OnlyTheRun DEF IInv
<1> QED BY <1>3, <1>4 DEF Restore

\* An attempt that breaks off, loses its lease or dies.
LEMMA RunBreaksOffFiles ==
  ASSUME IInv, FilesInv, NEW r \in Runners,
         (r \in Workers /\ (RestoreFails(r) \/ CrashWorker(r))) \/ LeaseIsLost(r) \/ CompleteFails(r)
  PROVE  FilesStep
<1>1. /\ row' = row /\ upload' = upload /\ flight' = flight /\ object' = object
      /\ records' = records /\ job' = job /\ purge' = purge
  BY DEF RestoreFails, CrashWorker, LeaseIsLost, CompleteFails, storage, purging
<1>2. CASE Ends(r)
  BY <1>1, <1>2, RunEnds, OnlyTheRun DEF IInv
<1>3. CASE r \in Workers /\ run[r].at # "idle" /\ RunGoes(r, "deferring")
  <2>1. r \notin Batches
    BY <1>3 DEF CsvAssumption
  <2>2. RunFlow(r)'
    BY <1>1, <1>3, <2>1, RunGoesWhat DEF IInv, RunFlow, FilesInv
  <2> QED BY <1>1, <1>3, <2>2, RunGoesWhat, OneRunGoes, OnlyTheRun DEF IInv
<1> QED BY <1>2, <1>3 DEF RestoreFails, CrashWorker, LeaseIsLost, CompleteFails

\* The commit of a chunk, whatever becomes of the attempt.
LEMMA CommitFiles ==
  ASSUME IInv, FilesInv, NEW r \in Runners, Inserting(r), Owns(r), CommitChunk(r),
         upload' = upload, flight' = flight, object' = object, job' = job, purge' = purge,
         run'[r].at \in {"inserting", "deferring"}, run'[r].batch = run[r].batch,
         \A q \in Runners : q # r => run'[q] = run[q]
  PROVE  FilesStep
<1> PICK b \in Batches : b = run[r].batch
  BY DEF Inserting, IInv, Bound
<1>1. /\ row'[b].state = "PROCESSING" /\ row'[b].source = row[b].source
      /\ \A c \in Batches : c # b => row'[c] = row[c]
  BY CommitWhat
<1>2. \A c \in Batches : c # b => records'[c] = records[c]
  BY DEF CommitChunk, IInv, CsvTypeOK
<1>3. Flow(b) /\ ~flight[b]
  BY <1>1 DEF Inserting, FilesInv, RunFlow
<1>4. Flow(b)' /\ (~active => Ebb(b)) /\ Steady(b)
  BY <1>1, <1>3, RowGoesOn DEF Steady
<1>5. RunFlow(r)'
  BY <1>1, <1>3 DEF RunFlow
<1> QED BY <1>1, <1>2, <1>4, <1>5, OneRunGoes, PurgesStay, AtOne DEF Only

LEMMA InsertFiles ==
  ASSUME IInv, FilesInv, NEW r \in Runners, InsertChunk(r) \/ InsertFails(r) PROVE FilesStep
<1>1. /\ upload' = upload /\ flight' = flight /\ object' = object /\ job' = job /\ purge' = purge
      /\ Inserting(r)
  BY DEF InsertChunk, InsertFails, storage, purging
<1>2. /\ run'[r].at \in {"inserting", "deferring"} /\ run'[r].batch = run[r].batch
      /\ \A q \in Runners : q # r => run'[q] = run[q]
  <2>1. CASE RunGoes(r, "deferring")
    BY <2>1, RunGoesWhat DEF IInv
  <2>2. CASE run' = [run EXCEPT ![r].next = @ + 1]
    <3> DEFINE n == run[r].next + 1
    <3>1. run' = [run EXCEPT ![r].next = n]
      BY <2>2
    <3> HIDE DEF n
    <3>2. run[r] \in Attempt /\ DOMAIN run = Runners /\ run[r].at = "inserting"
      BY <1>1 DEF IInv, CsvTypeOK, Inserting
    <3> QED BY <3>1, <3>2 DEF Attempt
  <2> QED BY <2>1, <2>2 DEF InsertChunk, InsertFails
<1>3. CASE Owns(r) /\ CommitChunk(r)
  BY <1>1, <1>2, <1>3, CommitFiles
<1>4. CASE row' = row /\ records' = records
  <2>1. RunFlow(r)'
    BY <1>1, <1>2, <1>4 DEF RunFlow, FilesInv, Inserting
  <2> QED BY <1>1, <1>2, <1>4, <2>1, OneRunGoes, OnlyTheRun
<1> QED BY <1>3, <1>4 DEF InsertChunk, InsertFails

\* The row ends COMPLETE, or goes back into the queue, with the file it names.
LEMMA GivenUpFlow ==
  ASSUME IInv, FilesInv, NEW b \in Batches, NEW s \in {"COMPLETE", "PENDING"},
         row' = [row EXCEPT ![b] = Released(b, s)],
         upload' = upload, flight' = flight, object' = object, records' = records, job' = job,
         flight[b] => s = "PENDING" /\ ~row[b].staged /\ ~Held(b)
  PROVE  Flow(b)' /\ (~active => Ebb(b)) /\ Steady(b) /\ Only(b)
<1>1. CsvTypeOK /\ Flow(b) /\ Airborne(b)
  BY DEF IInv, FilesInv, Flow
<1>2. /\ row'[b].state = s /\ row'[b].source = row[b].source
      /\ row'[b].staged = row[b].staged /\ row'[b].attempt = row[b].attempt
      /\ \A c \in Batches : c # b => row'[c] = row[c]
  BY <1>1, ReleasedKept
<1>3. Flow(b)' /\ (~active => Ebb(b))
  BY <1>1, <1>2, RowGoesOn DEF Airborne
<1> QED BY <1>2, <1>3 DEF Steady, Only

LEMMA CompleteFiles ==
  ASSUME IInv, FilesInv, NEW r \in Runners, Complete(r) PROVE FilesStep
<1> PICK b \in Batches : b = run[r].batch
  BY DEF Complete, IInv, Bound
<1>1. /\ upload' = upload /\ flight' = flight /\ object' = object /\ records' = records
      /\ job' = job /\ purge' = purge /\ run[r].at = "inserting"
  BY DEF Complete, storage, purging
<1>2. RunsGo
  BY RunEnds DEF Complete, IInv
<1>3. CASE row' = row
  BY <1>1, <1>2, <1>3, OnlyTheRun
<1>4. CASE row' = [row EXCEPT ![b] = Released(b, "COMPLETE")]
  <2>1. ~flight[b]
    BY <1>1 DEF FilesInv, RunFlow
  <2>2. Flow(b)' /\ (~active => Ebb(b)) /\ Steady(b) /\ Only(b)
    BY <1>1, <1>4, <2>1, GivenUpFlow
  <2> QED BY <1>1, <1>2, <2>2, PurgesStay, AtOne
<1> QED BY <1>3, <1>4 DEF Complete

LEMMA DeferFiles ==
  ASSUME IInv, FilesInv, NEW r \in Runners, Defer(r) PROVE FilesStep
<1> PICK b \in Batches : b = run[r].batch
  BY DEF Defer, IInv, Bound
<1>1. /\ upload' = upload /\ flight' = flight /\ object' = object /\ records' = records
      /\ purge' = purge /\ run[r].at = "deferring"
  BY DEF Defer, storage
<1>2. RunsGo /\ b \in Batches /\ Flow(b)
  BY <1>1, RunEnds DEF Defer, IInv, Bound, FilesInv
<1>3. CASE row' = row /\ job' = job
  BY <1>1, <1>2, <1>3, OnlyTheRun
<1>4. ASSUME Owns(r)
      PROVE  /\ row[b].state = "PROCESSING" /\ row[b].holder = r
             /\ row[b].attempt = run[r].attempt
             /\ flight[b] => ~row[b].staged /\ row[b].attempt < MaxAttempts
  BY <1>2, <1>4 DEF Owns, Flow, Airborne
<1>5. CASE Owns(r) /\ run[r].attempt >= MaxAttempts /\ FailRow(b, FALSE)
  <2>1. ~flight[b]
    <3>1. row[b].attempt \in Nat
      BY <1>2, RowOf DEF IInv, BatchRow
    <3> QED BY <1>4, <1>5, <3>1 DEF CsvAssumption
  <2>2. /\ Flow(b)' /\ Ebb(b) /\ Steady(b)
        /\ \A c \in Batches : c # b => row'[c] = row[c] /\ job'[c] = job[c]
    BY <1>1, <1>2, <1>5, <2>1, FailRowFlow
  <2> QED BY <1>1, <1>2, <2>2, PurgesStay, AtOne DEF Only
<1>6. CASE Owns(r) /\ row' = [row EXCEPT ![b] = Released(b, "PENDING")] /\ UNCHANGED job
  <2>1. flight[b] => ~row[b].staged /\ ~Held(b)
    BY <1>1, <1>4, <1>6 DEF Held, FilesInv, RunFlow
  <2>2. Flow(b)' /\ (~active => Ebb(b)) /\ Steady(b) /\ Only(b)
    BY <1>1, <1>6, <2>1, GivenUpFlow
  <2> QED BY <1>1, <1>2, <2>2, PurgesStay, AtOne
<1> QED BY <1>3, <1>5, <1>6 DEF Defer

-----------------------------------------------------------------------------
(* The purge queue. *)

LEMMA JobWriteOnly ==
  ASSUME CsvTypeOK, NEW b \in Batches, NEW k \in Kinds, NEW x, job' = [job EXCEPT ![b][k] = x]
  PROVE  \A c \in Batches : c # b => job'[c] = job[c]
  BY DEF CsvTypeOK

LEMMA OnePurgeGoes ==
  ASSUME NEW p \in Purgers, \A q \in Purgers : q # p => purge'[q] = purge[q], PurgeFlow(p)'
  PROVE  PurgesGo
  BY DEF PurgesGo

LEMMA PurgeRests ==
  ASSUME CsvTypeOK, NEW p \in Purgers, Rests(p) PROVE PurgesGo
<1>1. purge'[p] = Resting /\ \A q \in Purgers : q # p => purge'[q] = purge[q]
  BY DEF Rests, CsvTypeOK
<1> QED BY <1>1, OnePurgeGoes DEF PurgeFlow, Resting

LEMMA PurgeGoesWhat ==
  ASSUME CsvTypeOK, NEW p \in Purgers, NEW place, PurgeGoes(p, place)
  PROVE  /\ purge'[p].at = place /\ purge'[p].batch = purge[p].batch
         /\ \A q \in Purgers : q # p => purge'[q] = purge[q]
<1>1. purge[p] \in Purge /\ DOMAIN purge = Purgers
  BY DEF CsvTypeOK
<1> QED BY <1>1 DEF PurgeGoes, Purge

LEMMA JobMoves ==
  ASSUME IInv, FilesInv, NEW b \in Batches, NEW k \in Kinds, NEW x \in PurgeJob,
         job' = [job EXCEPT ![b][k] = x],
         row' = row, run' = run, upload' = upload, flight' = flight, object' = object,
         records' = records, PurgesGo,
         ~flight[b], x.state # "NONE", ~x.early, x.state \in Live \/ ~object[b]
  PROVE  FilesStep
<1>1. Flow(b)' /\ Ebb(b) /\ Steady(b)
  BY JobGoesOn DEF IInv, FilesInv, Steady
<1>2. \A c \in Batches : c # b => job'[c] = job[c]
  BY JobWriteOnly DEF IInv
<1> QED BY <1>1, <1>2, RunsStay, AtOne DEF Only

LEMMA GraceEndsFiles ==
  ASSUME IInv, FilesInv, NEW b \in Batches, NEW k \in Kinds, GraceEnds(b, k) PROVE FilesStep
<1> DEFINE x == [job[b][k] EXCEPT !.early = FALSE]
<1>1. /\ row' = row /\ run' = run /\ upload' = upload /\ flight' = flight /\ object' = object
      /\ records' = records /\ purge' = purge /\ ~flight[b] /\ job[b][k].early
  BY DEF GraceEnds, imports, storage
<1>2. job[b][k] \in PurgeJob /\ job[b][k].state = "PENDING"
  BY <1>1, JobOfType DEF IInv, FilesInv, Flow, Graces
<1>3. x \in PurgeJob /\ x.state \in Live /\ x.state # "NONE" /\ ~x.early
  BY <1>2 DEF PurgeJob, Live
<1>4. job' = [job EXCEPT ![b][k] = x]
  BY DEF GraceEnds
<1> HIDE DEF x
<1> QED BY <1>1, <1>3, <1>4, PurgesStay, JobMoves

LEMMA PurgeLeaseLapsesFiles ==
  ASSUME IInv, FilesInv, NEW b \in Batches, NEW k \in Kinds, PurgeLeaseLapses(b, k)
  PROVE  FilesStep
<1> DEFINE x == [job[b][k] EXCEPT !.fresh = FALSE]
<1>1. /\ row' = row /\ run' = run /\ upload' = upload /\ flight' = flight /\ object' = object
      /\ records' = records /\ purge' = purge /\ job[b][k].state = "PROCESSING"
  BY DEF PurgeLeaseLapses, imports, storage
<1>2. job[b][k] \in PurgeJob /\ ~job[b][k].early /\ ~flight[b]
  BY <1>1, JobOfType DEF IInv, FilesInv, Flow, Graces
<1>3. x \in PurgeJob /\ x.state \in Live /\ x.state # "NONE" /\ ~x.early
  BY <1>1, <1>2 DEF PurgeJob, Live
<1>4. job' = [job EXCEPT ![b][k] = x]
  BY DEF PurgeLeaseLapses
<1> HIDE DEF x
<1> QED BY <1>1, <1>2, <1>3, <1>4, PurgesStay, JobMoves

LEMMA ExhaustFiles ==
  ASSUME IInv, FilesInv, NEW b \in Batches, NEW k \in Kinds, Exhaust(b, k) PROVE FilesStep
<1> DEFINE x == [job[b][k] EXCEPT !.state = "FAILED", !.holder = Nobody, !.fresh = FALSE]
<1>1. /\ row' = row /\ run' = run /\ upload' = upload /\ flight' = flight /\ object' = object
      /\ records' = records /\ purge' = purge
      /\ job[b][k].attempt >= PurgeCeiling /\ job[b][k].state \in {"PENDING", "PROCESSING"}
  BY DEF Exhaust, imports, storage
<1>2. job[b][k].attempt # 0
  BY <1>1 DEF CsvAssumption
<1>3. job[b][k] \in PurgeJob /\ ~job[b][k].early /\ ~flight[b]
  BY <1>1, <1>2, JobOfType DEF IInv, FilesInv, Flow, Graces
<1>4. x \in PurgeJob /\ x.state \in Live /\ x.state # "NONE" /\ ~x.early
  BY <1>3 DEF PurgeJob, Live
<1>5. job' = [job EXCEPT ![b][k] = x]
  BY DEF Exhaust
<1> HIDE DEF x
<1> QED BY <1>1, <1>3, <1>4, <1>5, PurgesStay, JobMoves

LEMMA ClaimPurgeFiles ==
  ASSUME IInv, FilesInv, NEW p \in Purgers, NEW b \in Batches, NEW k \in Kinds,
         ClaimPurge(p, b, k)
  PROVE  FilesStep
<1> DEFINE n == job[b][k].attempt + 1
           x == [job[b][k] EXCEPT !.state = "PROCESSING", !.holder = p, !.fresh = TRUE, !.attempt = n]
<1>1. /\ row' = row /\ run' = run /\ upload' = upload /\ flight' = flight /\ object' = object
      /\ records' = records /\ JobDue(job[b][k])
  BY DEF ClaimPurge, imports, storage
<1>2. job[b][k] \in PurgeJob /\ ~job[b][k].early /\ ~flight[b]
  BY <1>1, JobOfType DEF JobDue, IInv, FilesInv, Flow, Graces
<1>3. n \in Nat
  BY <1>2 DEF PurgeJob
<1>4. job' = [job EXCEPT ![b][k] = x]
  BY DEF ClaimPurge
<1>5. /\ purge'[p].batch = b /\ purge'[p].at = "checking"
      /\ \A q \in Purgers : q # p => purge'[q] = purge[q]
  BY DEF ClaimPurge, IInv, CsvTypeOK
<1> HIDE DEF n
<1>6. x \in PurgeJob /\ x.state \in Live /\ x.state # "NONE" /\ ~x.early
  BY <1>2, <1>3 DEF PurgeJob, Live
<1> HIDE DEF x
<1>7. PurgesGo
  BY <1>1, <1>2, <1>5, OnePurgeGoes DEF PurgeFlow
<1> QED BY <1>1, <1>2, <1>4, <1>6, <1>7, JobMoves

\* A purge ends its job, which may have been taken from it.
LEMMA EndsJobFiles ==
  ASSUME IInv, FilesInv, NEW p \in Purgers, purge[p].at # "idle",
         NEW state \in {"PENDING", "COMPLETE", "FAILED"}, EndsJob(p, state),
         state = "COMPLETE" => purge[p].at = "settling",
         row' = row, run' = run, upload' = upload, flight' = flight, object' = object,
         records' = records, Rests(p)
  PROVE  FilesStep
<1> PICK b \in Batches, k \in Kinds : b = purge[p].batch /\ k = purge[p].kind
  BY DEF IInv, Bound, CsvTypeOK, Purge
<1> DEFINE x == [job[b][k] EXCEPT !.state = state, !.holder = Nobody, !.fresh = FALSE]
<1>1. PurgesGo /\ RunsGo
  BY PurgeRests, RunsStay DEF IInv
<1>2. CASE job' = job
  <2>1. ASSUME NEW c \in Batches PROVE Flow(c)' /\ Ebb(c) /\ Steady(c)
    BY <1>2, <2>1, Untouched DEF FilesInv, Steady
  <2> QED BY <1>1, <2>1, FilesFrom DEF FilesStep
<1>3. CASE job[b][k].state = "PROCESSING" /\ job' = [job EXCEPT ![b][k] = x]
  <2>1. job[b][k] \in PurgeJob /\ ~job[b][k].early
    BY <1>3, JobOfType DEF IInv, FilesInv, Flow, Graces
  <2>2. ~flight[b] /\ (state = "COMPLETE" => ~object[b])
    BY DEF FilesInv, PurgeFlow
  <2>3. x \in PurgeJob /\ x.state = state /\ ~x.early
    BY <2>1 DEF PurgeJob
  <2>4. job' = [job EXCEPT ![b][k] = x]
    BY <1>3
  <2> HIDE DEF x
  <2>5. x.state # "NONE" /\ (x.state \in Live \/ ~object[b])
    BY <2>2, <2>3 DEF Live
  <2> QED BY <1>1, <2>2, <2>3, <2>4, <2>5, JobMoves
<1> QED BY <1>2, <1>3 DEF EndsJob, JobOf

LEMMA PurgeWorkFiles ==
  ASSUME IInv, FilesInv, NEW p \in Purgers,
         \/ CheckReference(p) \/ DeleteObject(p) \/ SettlePurge(p)
         \/ DeleteObjectFails(p) \/ CrashPurger(p)
  PROVE  FilesStep
<1>1. /\ row' = row /\ run' = run /\ upload' = upload /\ flight' = flight /\ records' = records
      /\ purge[p].at # "idle"
  BY DEF CheckReference, DeleteObject, SettlePurge, DeleteObjectFails, CrashPurger,
     imports, storage
<1> PICK b \in Batches : b = purge[p].batch
  BY <1>1 DEF IInv, Bound
<1>2. CASE /\ object' = object /\ Rests(p)
           /\ \E state \in {"PENDING", "COMPLETE", "FAILED"} :
                 EndsJob(p, state) /\ (state = "COMPLETE" => purge[p].at = "settling")
  BY <1>1, <1>2, EndsJobFiles
<1>3. CASE object' = object /\ job' = job /\ PurgesGo
  <2>1. ASSUME NEW c \in Batches PROVE Flow(c)' /\ Ebb(c) /\ Steady(c)
    BY <1>1, <1>3, <2>1, Untouched DEF FilesInv, Steady
  <2> QED BY <1>1, <1>3, <2>1, RunsStay, FilesFrom DEF FilesStep
<1>4. CASE DeleteObject(p)
  <2>1. object' = [object EXCEPT ![b] = FALSE] /\ job' = job /\ PurgeGoes(p, "settling")
    BY <1>4 DEF DeleteObject
  <2>2. ~object'[b] /\ \A c \in Batches : c # b => object'[c] = object[c]
    BY <2>1 DEF IInv, CsvTypeOK
  <2>3. Flow(b) /\ ~flight[b]
    BY <1>1 DEF FilesInv, PurgeFlow
  <2>4. Flow(b)' /\ Ebb(b) /\ Steady(b)
    BY <1>1, <2>1, <2>2, <2>3, FileMoves DEF Steady
  <2>5. PurgesGo
    BY <1>1, <2>1, <2>2, <2>3, PurgeGoesWhat, OnePurgeGoes DEF IInv, PurgeFlow
  <2> QED BY <1>1, <2>1, <2>2, <2>4, <2>5, RunsStay, AtOne DEF Only
<1>5. CASE CheckReference(p)
  <2>1. CASE UNCHANGED job /\ PurgeGoes(p, "deleting")
    <3>1. PurgesGo
      BY <1>1, <2>1, PurgeGoesWhat, OnePurgeGoes DEF IInv, FilesInv, PurgeFlow
    <3> QED BY <1>3, <1>5, <2>1, <3>1 DEF CheckReference, storage
  <2> QED BY <1>2, <1>5, <2>1 DEF CheckReference, storage
<1>6. CASE SettlePurge(p) \/ DeleteObjectFails(p)
  BY <1>2, <1>6 DEF SettlePurge, DeleteObjectFails, storage
<1>7. CASE CrashPurger(p)
  BY <1>3, <1>7, PurgeRests DEF CrashPurger, storage, IInv
<1> QED BY <1>4, <1>5, <1>6, <1>7

-----------------------------------------------------------------------------
(* Every step. *)

LEMMA CloseAccountFiles ==
  ASSUME IInv, FilesInv, CloseAccount \/ UNCHANGED vars PROVE FilesStep
<1>1. /\ row' = row /\ run' = run /\ upload' = upload /\ flight' = flight /\ object' = object
      /\ records' = records /\ job' = job /\ purge' = purge
  BY DEF CloseAccount, vars, imports, storage, purging
<1> QED BY <1>1, RunsStay, OnlyTheRun

LEMMA FilesInit == Init => FilesInv
<1> SUFFICES ASSUME Init PROVE FilesInv
  OBVIOUS
<1>1. ASSUME NEW b \in Batches PROVE Flow(b)
  BY <1>1 DEF Init, NoRow, NoJob, Flow, Airborne, Graces
<1> QED BY <1>1 DEF Init, Idle, Resting, FilesInv, RunFlow, PurgeFlow

LEMMA FilesNext == IInv /\ FilesInv /\ [Next]_vars => FilesStep
<1> SUFFICES ASSUME IInv, FilesInv, [Next]_vars PROVE FilesStep
  OBVIOUS
<1>1. ASSUME NEW b \in Batches, UploadStep(b) \/ StorageStep(b) PROVE FilesStep
  BY <1>1, PutFiles, FinishUploadFiles, CleanUpFiles, PlantTombstoneFiles, DeleteUploadFiles
     DEF UploadStep, StorageStep
<1>2. ASSUME NEW b \in Batches, SweepStep(b) \/ LeaseLapses(b) PROVE FilesStep
  BY <1>2, SweepFiles, RetentionEndsFiles, LeaseLapsesFiles DEF SweepStep
<1>3. ASSUME NEW b \in Batches, OwnerStep(b) PROVE FilesStep
  BY <1>3, ReserveStageFiles, ReserveImportFiles, ConfirmStageFiles, DiscardRecordsFiles
     DEF OwnerStep
<1>4. ASSUME NEW r \in Runners, RunStep(r) PROVE FilesStep
  BY <1>4, InsertFiles, RunBreaksOffFiles, CompleteFiles, DeferFiles DEF RunStep
<1>5. ASSUME NEW w \in Workers, WorkerStep(w) PROVE FilesStep
  BY <1>5, ClaimFiles, RestoreFiles, RunBreaksOffFiles DEF WorkerStep, Runners
<1>6. ASSUME NEW p \in Purgers, PurgeStep(p) PROVE FilesStep
  BY <1>6, ClaimPurgeFiles, PurgeWorkFiles DEF PurgeStep
<1>7. ASSUME NEW b \in Batches, NEW k \in Kinds, QueueStep(b, k) PROVE FilesStep
  BY <1>7, GraceEndsFiles, PurgeLeaseLapsesFiles, ExhaustFiles DEF QueueStep
<1>8. CASE CloseAccount \/ UNCHANGED vars
  BY <1>8, CloseAccountFiles
<1>9. CASE Trouble
  <2>1. ASSUME NEW b \in Batches, PutFails(b) \/ FinishFails(b) \/ CleanUpFails(b) \/ CrashRequest(b)
        PROVE  FilesStep
    BY <2>1, PutFiles, FinishFailsFiles, CrashRequestFiles
  <2>2. ASSUME NEW r \in Runners, InsertFails(r) \/ CompleteFails(r) PROVE FilesStep
    BY <2>2, InsertFiles, RunBreaksOffFiles
  <2>3. ASSUME NEW w \in Workers, CrashWorker(w) PROVE FilesStep
    BY <2>3, RunBreaksOffFiles DEF Runners
  <2>4. ASSUME NEW p \in Purgers, DeleteObjectFails(p) \/ CrashPurger(p) PROVE FilesStep
    BY <2>4, PurgeWorkFiles
  <2> QED BY <1>9, <2>1, <2>2, <2>3, <2>4 DEF Trouble
<1> QED BY <1>1, <1>2, <1>3, <1>4, <1>5, <1>6, <1>7, <1>8, <1>9 DEF Next

LEMMA FilesInvHolds == CsvSpec => [](IInv /\ FilesInv)
<1>1. Init => IInv /\ FilesInv
  BY IInvInit, FilesInit
<1>2. (IInv /\ FilesInv) /\ [Next]_vars => (IInv /\ FilesInv)'
  BY IInvNext, FilesNext DEF FilesStep
<1> QED BY <1>1, <1>2, PTL DEF CsvSpec

\* Whatever request, worker or purge dies, and whenever a PUT lands that its
\* request gave up on, a batch row or an open purge job names the file
\* (compensateCsvUploadAttempt, purgeStagedBatch, processCsvSourcePurgeJob).
THEOREM FileIsNamedHolds == CsvSpec => []FileIsNamed
<1>1. FilesInv => FileIsNamed
  BY DEF FilesInv, Flow, Airborne, Graces, Named, Early, Live, FileIsNamed
<1> QED BY <1>1, FilesInvHolds, PTL
=============================================================================
