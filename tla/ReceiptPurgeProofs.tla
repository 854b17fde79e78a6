-------------------------- MODULE ReceiptPurgeProofs --------------------------
(***************************************************************************)
(* Proofs about ReceiptPurge for any scans, workers and images, and any    *)
(* ceiling of attempts.  PInv is the inductive invariant.  Its parts: how  *)
(* job ids are used and which job of a scan may be active; what a          *)
(* checkpoint and a stage say of the store; what a process that deletes    *)
(* images knows of the scan it deletes them from.                          *)
(***************************************************************************)
EXTENDS ReceiptPurge, TLAPS

\* A job that is not there names no scan, a job with work to do has a stage to
\* do it in, and ids are used in order.
JobsShape ==
    \A j \in JobIds :
        /\ jobs[j].status \in {"UNUSED", "EXPIRED"} => jobs[j].of = NoScan
        /\ jobs[j].stage = "COMPLETE" => jobs[j].status = "COMPLETE"
        /\ jobs[j].status = "UNUSED" =>
              \A i \in JobIds : j <= i => jobs[i].status = "UNUSED"

\* Only the latest job of a scan may be active.
LatestIsActive ==
    \A i, k \in JobIds :
        (Active(i) /\ jobs[i].of # NoScan /\ jobs[k].of = jobs[i].of) => k <= i

RowEvidence ==
    \A s \in Scans : (rows[s].status = "Gone" \/ rows[s].erased) => store[s] = {}

\* A checkpoint never runs ahead of the store, whether its job is active or not.
JobEvidence ==
    \A j \in JobIds :
        jobs[j].of # NoScan =>
            /\ jobs[j].deleted \cap store[jobs[j].of] = {}
            /\ UpTo(jobs[j].expected, jobs[j].checkpoint) \subseteq jobs[j].deleted
            /\ jobs[j].stage \in {"DATABASE", "COMPLETE"} => store[jobs[j].of] = {}

\* Only a scan that somebody asked to erase has a job or loses its evidence, and
\* a draft that was asked for is no draft any more.
RowAsked(row) ==
    /\ row.requested => row.status # "Pending"
    /\ row.erased => row.requested

Asked ==
    /\ \A s \in Scans : RowAsked(rows[s])
    /\ \A j \in JobIds : jobs[j].of # NoScan => rows[jobs[j].of].requested

\* An attempt is at a job that was created; what it has still to delete
\* includes all that is left, and nothing before its page is left.
AttemptOK(w) ==
    worker[w].pc \in Attempting =>
        worker[w].job \in JobIds /\ jobs[worker[w].job].status # "UNUSED"

ErasingOK(w) ==
    worker[w].pc = "erasing" =>
        /\ worker[w].scan \in Scans /\ rows[worker[w].scan].requested
        /\ jobs[worker[w].job].of \in {worker[w].scan, NoScan}
        /\ store[worker[w].scan] \subseteq worker[w].todo
        /\ \A o \in worker[w].todo : worker[w].page <= PageOf[o]
        /\ worker[w].page = 0 => worker[w].todo = {}

OrphaningOK(w) == worker[w].pc = "orphaning" => worker[w].scan \in Scans

WorkersOK == \A w \in Workers : AttemptOK(w) /\ ErasingOK(w) /\ OrphaningOK(w)

PInv ==
    /\ PurgeTypeOK
    /\ JobsShape
    /\ LatestIsActive
    /\ BooksKeepTheirReceipt
    /\ ObligationIsKept
    /\ RowEvidence
    /\ JobEvidence
    /\ Asked
    /\ WorkersOK

USE PurgeAssumption

-----------------------------------------------------------------------------
(* What one write does to one job.                                         *)

JobOK(a) ==
    /\ a.status \in {"UNUSED", "EXPIRED"} => a.of = NoScan
    /\ a.stage = "COMPLETE" => a.status = "COMPLETE"

\* A job grows older: it may lose its scan or end, but not start again.
Aged(a, b) ==
    /\ b \in JobState
    /\ b.of \in {a.of, NoScan}
    /\ b.status = "UNUSED" <=> a.status = "UNUSED"
    /\ JobOK(b)
    /\ b.status \in ActiveStatus => a.status \in ActiveStatus

SameEvidence(a, b) ==
    /\ b.expected = a.expected /\ b.deleted = a.deleted
    /\ b.checkpoint = a.checkpoint /\ b.stage = a.stage

KeepsDebt(a, b) ==
    (a.mode = "DELETE_SCAN" /\ a.status \in ActiveStatus \cup {"FAILED"}) =>
        /\ b.of = a.of /\ b.mode = "DELETE_SCAN"
        /\ b.status \in ActiveStatus \cup {"FAILED"}

Kept(a, b) ==
    a.status \in Terminal =>
        \/ b.status = "EXPIRED"
        \/ b.status = a.status /\ b.checkpoint = a.checkpoint /\ b.attempt = a.attempt

\* A write that changes who is at a job and when, and nothing of its task.
Moved(a, b) == Aged(a, b) /\ SameEvidence(a, b) /\ KeepsDebt(a, b) /\ Kept(a, b)

LEMMA NotMoved == ASSUME NEW a \in JobState, JobOK(a) PROVE Moved(a, a)
  BY DEF Moved, Aged, SameEvidence, KeepsDebt, Kept, JobState

LEMMA UnusedJobType ==
  /\ UnusedJob \in JobState
  /\ UnusedJob.stage = "STORAGE" /\ UnusedJob.deleted = {} /\ UnusedJob.checkpoint = 0
  /\ UnusedJob.of = NoScan
  BY DEF UnusedJob, JobState, ActiveStatus, Modes

LEMMA ClaimWrite ==
  ASSUME NEW a \in JobState, JobOK(a), NEW w \in Workers, NEW n \in 0..MaxAttempts,
         a.status \in ActiveStatus
  PROVE  Moved(a, [a EXCEPT !.status = "PROCESSING", !.attempt = n, !.worker = w,
                            !.stale = FALSE])
  BY DEF Moved, Aged, SameEvidence, KeepsDebt, Kept, JobState, JobOK, ActiveStatus, Terminal

LEMMA FailureWrite ==
  ASSUME NEW a \in JobState, JobOK(a), NEW st \in {"FAILED", "RETRY"},
         a.status \in ActiveStatus
  PROVE  Moved(a, [a EXCEPT !.status = st, !.worker = Nobody, !.stale = FALSE,
                            !.due = FALSE])
  BY DEF Moved, Aged, SameEvidence, KeepsDebt, Kept, JobState, JobOK, ActiveStatus, Terminal

LEMMA LeaseWrites ==
  ASSUME NEW a \in JobState, JobOK(a), a.status \in ActiveStatus
  PROVE  /\ Moved(a, [a EXCEPT !.stale = FALSE])
         /\ Moved(a, [a EXCEPT !.stale = TRUE])
         /\ Moved(a, [a EXCEPT !.due = TRUE])
         /\ Moved(a, [a EXCEPT !.status = "FAILED", !.worker = Nobody, !.stale = FALSE])
<1> USE DEF Moved, Aged, SameEvidence, KeepsDebt, Kept, JobState, JobOK, ActiveStatus, Terminal
<1>1. Moved(a, [a EXCEPT !.stale = FALSE]) /\ Moved(a, [a EXCEPT !.stale = TRUE])
  OBVIOUS
<1>2. Moved(a, [a EXCEPT !.due = TRUE])
  OBVIOUS
<1>3. Moved(a, [a EXCEPT !.status = "FAILED", !.worker = Nobody, !.stale = FALSE])
  OBVIOUS
<1> HIDE DEF Moved
<1> QED BY <1>1, <1>2, <1>3

LEMMA ClockWrites ==
  ASSUME NEW a \in JobState, JobOK(a)
  PROVE  /\ Moved(a, [a EXCEPT !.quiet = TRUE])
         /\ Moved(a, [a EXCEPT !.expired = TRUE])
         /\ Moved(a, [a EXCEPT !.worker = Dead])
<1> USE DEF Moved, Aged, SameEvidence, KeepsDebt, Kept, JobState, JobOK
<1>1. Moved(a, [a EXCEPT !.quiet = TRUE]) /\ Moved(a, [a EXCEPT !.expired = TRUE])
  OBVIOUS
<1>2. Moved(a, [a EXCEPT !.worker = Dead])
  OBVIOUS
<1> HIDE DEF Moved
<1> QED BY <1>1, <1>2

-----------------------------------------------------------------------------
(* What a step that only ages the jobs keeps.                              *)

JobsAge ==
    /\ jobs' \in [JobIds -> JobState]
    /\ \A j \in JobIds : Aged(jobs[j], jobs'[j])

JobsMove ==
    /\ jobs' \in [JobIds -> JobState]
    /\ \A j \in JobIds : Moved(jobs[j], jobs'[j])

StoreShrinks ==
    /\ store' \in [Scans -> SUBSET Objects]
    /\ \A s \in Scans : store'[s] \subseteq store[s]

RequestsStay == \A s \in Scans : rows[s].requested => rows'[s].requested

\* A job that was created stays so, with its scan or without.
JobsLive ==
    \A j \in JobIds :
        jobs[j].status # "UNUSED" =>
            jobs'[j].status # "UNUSED" /\ jobs'[j].of \in {jobs[j].of, NoScan}

LEMMA PurgeTyped ==
  ASSUME PInv
  PROVE  /\ \A s \in Scans : rows[s] \in RowState /\ rows[s].records \in 0..MaxRecords
         /\ \A s \in Scans : store[s] \in SUBSET Objects
         /\ \A j \in JobIds : /\ jobs[j] \in JobState /\ JobOK(jobs[j])
                              /\ jobs[j].of \in Scans \cup {NoScan}
                              /\ jobs[j].attempt \in 0..MaxAttempts
                              /\ jobs[j].checkpoint \in Nat
                              /\ jobs[j].expected \in SUBSET Objects
                              /\ jobs[j].deleted \in SUBSET Objects
         /\ \A w \in Workers : /\ worker[w] \in PurgeWorkerState
                               /\ worker[w].attempt \in 0..MaxAttempts
                               /\ worker[w].todo \in SUBSET Objects
                               /\ worker[w].page \in Nat
                               /\ worker[w].scan \in Scans \cup {NoScan}
         /\ \A o \in Objects : PageOf[o] \in Nat /\ PageOf[o] # 0
<1>1. \A o \in Objects : PageOf[o] \in Nat /\ PageOf[o] # 0
  OBVIOUS
<1>2. \A s \in Scans : rows[s] \in RowState /\ rows[s].records \in 0..MaxRecords
  BY DEF PInv, PurgeTypeOK, RowState
<1>3. \A j \in JobIds : jobs[j] \in JobState /\ JobOK(jobs[j])
  BY DEF PInv, PurgeTypeOK, JobsShape, JobOK
<1>4. \A a \in JobState :
         /\ a.of \in Scans \cup {NoScan} /\ a.attempt \in 0..MaxAttempts
         /\ a.checkpoint \in Nat /\ a.expected \in SUBSET Objects
         /\ a.deleted \in SUBSET Objects
  BY DEF JobState
<1>5. \A w \in Workers : worker[w] \in PurgeWorkerState
  BY DEF PInv, PurgeTypeOK
<1>6. \A st \in PurgeWorkerState :
         /\ st.attempt \in 0..MaxAttempts /\ st.todo \in SUBSET Objects
         /\ st.page \in Nat /\ st.scan \in Scans \cup {NoScan}
  BY DEF PurgeWorkerState
<1>7. \A s \in Scans : store[s] \in SUBSET Objects
  BY DEF PInv, PurgeTypeOK
<1> QED BY <1>1, <1>2, <1>3, <1>4, <1>5, <1>6, <1>7

LEMMA MoveIsAge == JobsMove => JobsAge /\ JobsLive
  BY DEF JobsMove, JobsAge, JobsLive, Moved, Aged

LEMMA AgeLives == JobsAge => JobsLive
  BY DEF JobsAge, JobsLive, Aged

LEMMA ShapeAges ==
  ASSUME PInv, JobsAge
  PROVE  JobsShape' /\ LatestIsActive'
<1>1. \A j \in JobIds : /\ jobs'[j].of \in {jobs[j].of, NoScan}
                        /\ jobs'[j].status = "UNUSED" <=> jobs[j].status = "UNUSED"
                        /\ jobs'[j].status \in ActiveStatus => jobs[j].status \in ActiveStatus
                        /\ JobOK(jobs'[j])
  BY DEF JobsAge, Aged
<1>2. JobsShape'
  BY <1>1 DEF JobsShape, JobOK, PInv
<1>3. LatestIsActive'
  BY <1>1 DEF LatestIsActive, PInv, Active
<1> QED BY <1>2, <1>3

LEMMA EvidenceStays ==
  ASSUME PInv, StoreShrinks, JobsAge, NEW j \in JobIds, SameEvidence(jobs[j], jobs'[j]),
         jobs'[j].of # NoScan
  PROVE  /\ jobs'[j].deleted \cap store'[jobs'[j].of] = {}
         /\ UpTo(jobs'[j].expected, jobs'[j].checkpoint) \subseteq jobs'[j].deleted
         /\ jobs'[j].stage \in {"DATABASE", "COMPLETE"} => store'[jobs'[j].of] = {}
<1>1. jobs'[j].of = jobs[j].of /\ jobs[j].of \in Scans
  BY PurgeTyped DEF JobsAge, Aged
<1>2. store'[jobs[j].of] \subseteq store[jobs[j].of]
  BY <1>1 DEF StoreShrinks
<1>3. /\ jobs[j].deleted \cap store[jobs[j].of] = {}
      /\ UpTo(jobs[j].expected, jobs[j].checkpoint) \subseteq jobs[j].deleted
      /\ jobs[j].stage \in {"DATABASE", "COMPLETE"} => store[jobs[j].of] = {}
  BY <1>1 DEF PInv, JobEvidence
<1> QED BY <1>1, <1>2, <1>3 DEF SameEvidence

LEMMA DebtStays ==
  ASSUME PInv,
         \A s \in Scans : rows'[s].status = "Deletion Pending" =>
             /\ rows[s].status = "Deletion Pending"
             /\ \A j \in JobIds : jobs[j].of = s => KeepsDebt(jobs[j], jobs'[j])
  PROVE  ObligationIsKept'
<1> SUFFICES ASSUME NEW s \in Scans, rows'[s].status = "Deletion Pending"
             PROVE  \E j \in JobsOf(s)' : /\ jobs'[j].mode = "DELETE_SCAN"
                                          /\ Active(j)' \/ jobs'[j].status = "FAILED"
  BY DEF ObligationIsKept
<1>0. PICK j \in JobsOf(s) : /\ jobs[j].mode = "DELETE_SCAN"
                             /\ Active(j) \/ jobs[j].status = "FAILED"
  <2>1. rows[s].status = "Deletion Pending"
    OBVIOUS
  <2> QED BY <2>1 DEF PInv, ObligationIsKept
<1>1. /\ j \in JobIds /\ jobs[j].of = s /\ jobs[j].mode = "DELETE_SCAN"
      /\ jobs[j].status \in ActiveStatus \cup {"FAILED"}
  BY <1>0 DEF JobsOf, Active
<1>2. KeepsDebt(jobs[j], jobs'[j])
  BY <1>1
<1>3. /\ jobs'[j].of = s /\ jobs'[j].mode = "DELETE_SCAN"
      /\ jobs'[j].status \in ActiveStatus \cup {"FAILED"}
  BY <1>1, <1>2 DEF KeepsDebt
<1>4. j \in JobsOf(s)' /\ (Active(j)' \/ jobs'[j].status = "FAILED")
  BY <1>3 DEF JobsOf, Active
<1> QED BY <1>3, <1>4

LEMMA AskedStays ==
  ASSUME PInv, JobsAge, RequestsStay, \A s \in Scans : RowAsked(rows'[s])
  PROVE  Asked'
<1> SUFFICES ASSUME NEW j \in JobIds, jobs'[j].of # NoScan PROVE rows'[jobs'[j].of].requested
  BY DEF Asked, RowAsked
<1>1. jobs'[j].of = jobs[j].of /\ jobs[j].of \in Scans
  BY PurgeTyped DEF JobsAge, Aged
<1> QED BY <1>1 DEF PInv, Asked, RequestsStay

LEMMA RowsRest == ASSUME PInv, UNCHANGED rows
                  PROVE  RequestsStay /\ \A s \in Scans : RowAsked(rows'[s])
  BY DEF PInv, Asked, RequestsStay

\* A process that did not move still knows what it knew.
LEMMA OthersStay ==
  ASSUME PInv, StoreShrinks, JobsLive, RequestsStay, NEW u \in Workers,
         worker'[u] = worker[u]
  PROVE  AttemptOK(u)' /\ ErasingOK(u)' /\ OrphaningOK(u)'
<1>1. AttemptOK(u) /\ ErasingOK(u) /\ OrphaningOK(u)
  BY DEF PInv, WorkersOK
<1>2. AttemptOK(u)'
  BY <1>1 DEF AttemptOK, JobsLive
<1>3. ErasingOK(u)'
  <2> SUFFICES ASSUME worker[u].pc = "erasing"
               PROVE  /\ worker[u].scan \in Scans /\ rows'[worker[u].scan].requested
                      /\ jobs'[worker[u].job].of \in {worker[u].scan, NoScan}
                      /\ store'[worker[u].scan] \subseteq worker[u].todo
                      /\ \A o \in worker[u].todo : worker[u].page <= PageOf[o]
                      /\ worker[u].page = 0 => worker[u].todo = {}
    BY DEF ErasingOK
  <2>1. worker[u].job \in JobIds /\ jobs[worker[u].job].status # "UNUSED"
    BY <1>1 DEF AttemptOK, Attempting
  <2> QED BY <1>1, <2>1 DEF ErasingOK, JobsLive, StoreShrinks, RequestsStay
<1>4. OrphaningOK(u)'
  BY <1>1 DEF OrphaningOK
<1> QED BY <1>2, <1>3, <1>4

\* Neither does one that gives up, or only notes that its attempt failed.
LEMMA GivesUp ==
  ASSUME PInv, JobsLive, NEW u \in Workers,
         \/ worker'[u].pc \in {"idle", "claiming"}
         \/ /\ worker'[u].pc = "failing" /\ worker'[u].job = worker[u].job
            /\ worker[u].pc \in Attempting
  PROVE  AttemptOK(u)' /\ ErasingOK(u)' /\ OrphaningOK(u)'
<1>1. AttemptOK(u)
  BY DEF PInv, WorkersOK
<1>2. AttemptOK(u)'
  BY <1>1 DEF AttemptOK, JobsLive, Attempting
<1> QED BY <1>2 DEF ErasingOK, OrphaningOK

-----------------------------------------------------------------------------
(* What a step does to its process.                                        *)

LEMMA PurgerWrites ==
  ASSUME NEW st \in PurgeWorkerState, NEW s \in Scans, NEW j \in JobIds,
         NEW k \in 0..MaxAttempts, NEW stage \in {"STORAGE", "DATABASE"},
         NEW todo \in SUBSET Objects, NEW p \in Nat
  PROVE  /\ IdlePurger \in PurgeWorkerState
         /\ [st EXCEPT !.pc = "claiming"] \in PurgeWorkerState
         /\ [st EXCEPT !.pc = "failing"] \in PurgeWorkerState
         /\ [IdlePurger EXCEPT !.pc = "claimed", !.job = j, !.attempt = k,
                               !.stage = stage] \in PurgeWorkerState
         /\ [st EXCEPT !.pc = "erasing", !.todo = todo, !.page = p] \in PurgeWorkerState
         /\ [[st EXCEPT !.pc = "erasing", !.todo = todo, !.page = p]
                EXCEPT !.scan = s] \in PurgeWorkerState
         /\ [st EXCEPT !.todo = todo] \in PurgeWorkerState
         /\ [IdlePurger EXCEPT !.pc = "orphaning", !.scan = s] \in PurgeWorkerState
<1> USE DEF PurgeWorkerState, Attempting
<1>0. IdlePurger \in PurgeWorkerState
  BY DEF IdlePurger
<1>1. [st EXCEPT !.pc = "claiming"] \in PurgeWorkerState
  OBVIOUS
<1>2. [st EXCEPT !.pc = "failing"] \in PurgeWorkerState
  OBVIOUS
<1>3. [IdlePurger EXCEPT !.pc = "claimed", !.job = j, !.attempt = k, !.stage = stage]
         \in PurgeWorkerState
  <2>1. j \in 0..MaxJobs
    BY DEF JobIds
  <2> QED BY <1>0, <2>1
<1>4. [st EXCEPT !.pc = "erasing", !.todo = todo, !.page = p] \in PurgeWorkerState
  OBVIOUS
<1>5. [[st EXCEPT !.pc = "erasing", !.todo = todo, !.page = p] EXCEPT !.scan = s]
         \in PurgeWorkerState
  BY <1>4
<1>6. [st EXCEPT !.todo = todo] \in PurgeWorkerState
  OBVIOUS
<1>7. [IdlePurger EXCEPT !.pc = "orphaning", !.scan = s] \in PurgeWorkerState
  BY <1>0
<1> HIDE DEF PurgeWorkerState
<1> QED BY <1>0, <1>1, <1>2, <1>3, <1>4, <1>5, <1>6, <1>7

LEMMA PurgerFields ==
  ASSUME NEW st \in PurgeWorkerState
  PROVE  /\ IdlePurger.pc = "idle"
         /\ [st EXCEPT !.pc = "claiming"].pc = "claiming"
         /\ [st EXCEPT !.pc = "failing"].pc = "failing"
         /\ [st EXCEPT !.pc = "failing"].job = st.job
  BY DEF IdlePurger, PurgeWorkerState

LEMMA JobIsNat ==
  /\ \A j \in JobIds : j \in Nat
  /\ \A i, j \in JobIds : i <= j \/ j <= i
  /\ \A i, j \in JobIds : (i <= j /\ j <= i) => i = j
  /\ \A i, j \in JobIds : i \notin 1..(j - 1) => j <= i
<1>1. \A i, j \in Nat : i >= 1 /\ i \notin 1..(j - 1) => j <= i
  OBVIOUS
<1> QED BY <1>1 DEF JobIds

LEMMA FaultCounted ==
  ASSUME PInv, Fault \/ UNCHANGED faults
  PROVE  faults' \in 0..MaxFaults
  BY DEF PInv, PurgeTypeOK, Fault

LEMMA SetJobType ==
  ASSUME PInv, NEW j \in JobIds, NEW a \in JobState, SetJob(j, a)
  PROVE  /\ jobs' \in [JobIds -> JobState]
         /\ jobs'[j] = a
         /\ \A i \in JobIds : i # j => jobs'[i] = jobs[i]
  BY DEF PInv, PurgeTypeOK, SetJob

LEMMA SetJobMoves ==
  ASSUME PInv, NEW j \in JobIds, NEW a, Moved(jobs[j], a), SetJob(j, a)
  PROVE  JobsMove
<1>1. a \in JobState
  BY DEF Moved, Aged
<1> QED BY <1>1, SetJobType, PurgeTyped, NotMoved DEF JobsMove

LEMMA JobsRest == ASSUME PInv, UNCHANGED jobs PROVE JobsMove
  BY PurgeTyped, NotMoved DEF JobsMove, PInv, PurgeTypeOK

LEMMA StoreRests == ASSUME PInv, UNCHANGED store PROVE StoreShrinks
  BY DEF StoreShrinks, PInv, PurgeTypeOK

LEMMA BecomeKeeps ==
  ASSUME PInv, JobsLive, StoreShrinks, RequestsStay, NEW w \in Workers,
         NEW st \in PurgeWorkerState, Become(w, st), AttemptOK(w)' /\ ErasingOK(w)' /\ OrphaningOK(w)'
  PROVE  worker' \in [Workers -> PurgeWorkerState] /\ WorkersOK'
<1>1. /\ worker' \in [Workers -> PurgeWorkerState]
      /\ \A u \in Workers : u # w => worker'[u] = worker[u]
  BY DEF Become, PInv, PurgeTypeOK
<1>2. ASSUME NEW u \in Workers PROVE AttemptOK(u)' /\ ErasingOK(u)' /\ OrphaningOK(u)'
  BY <1>1, OthersStay
<1> QED BY <1>1, <1>2 DEF WorkersOK

\* The new state holds no task, or only that the attempt failed.
Light(w, st) ==
    /\ st \in PurgeWorkerState
    /\ \/ st.pc \in {"idle", "claiming"}
       \/ st.pc = "failing" /\ st.job = worker[w].job /\ worker[w].pc \in Attempting

LEMMA LightKeeps ==
  ASSUME PInv, JobsLive, StoreShrinks, RequestsStay, NEW w \in Workers, NEW st,
         Light(w, st), Become(w, st)
  PROVE  worker' \in [Workers -> PurgeWorkerState] /\ WorkersOK'
<1>1. worker'[w] = st /\ st \in PurgeWorkerState
  BY DEF Become, PInv, PurgeTypeOK, Light
<1>2. AttemptOK(w)' /\ ErasingOK(w)' /\ OrphaningOK(w)'
  BY <1>1, GivesUp DEF Light
<1> QED BY <1>1, <1>2, BecomeKeeps

LEMMA IdleIsLight == \A w \in Workers : PInv => Light(w, IdlePurger)
  BY PurgerFields DEF Light, IdlePurger, PurgeWorkerState, Attempting

LEMMA FailingIsLight ==
  \A w \in Workers : (PInv /\ worker[w].pc \in Attempting) =>
      Light(w, [worker[w] EXCEPT !.pc = "failing"])
  BY PurgerFields, PurgeTyped DEF Light, PurgeWorkerState, Attempting

-----------------------------------------------------------------------------
(* The owner and the sweeps.                                               *)

JobsKept == \A j \in JobIds : Kept(jobs[j], jobs'[j])

\* What rows, store and jobs owe the invariant, whatever the processes do.
DataOK ==
    /\ rows' \in [Scans -> RowState] /\ jobs' \in [JobIds -> JobState]
    /\ JobsShape' /\ LatestIsActive' /\ BooksKeepTheirReceipt'
    /\ ObligationIsKept' /\ RowEvidence' /\ JobEvidence' /\ Asked'
    /\ JobsLive /\ JobsKept /\ RequestsStay

LEMMA MoveIsKept == JobsMove => JobsKept
  BY DEF JobsMove, JobsKept, Moved

LEMMA MoveIsData ==
  ASSUME PInv, JobsMove, StoreShrinks, UNCHANGED rows
  PROVE  DataOK
<1>1. JobsShape' /\ LatestIsActive' /\ JobsLive /\ JobsKept
  BY MoveIsAge, ShapeAges, MoveIsKept
<1>2. BooksKeepTheirReceipt' /\ RowEvidence'
  BY DEF PInv, BooksKeepTheirReceipt, RowEvidence, StoreShrinks
<1>3. ObligationIsKept'
  BY DebtStays DEF JobsMove, Moved
<1>4. JobEvidence'
  BY MoveIsAge, EvidenceStays DEF JobEvidence, JobsMove, Moved
<1>5. Asked' /\ RequestsStay
  BY RowsRest, MoveIsAge, AskedStays
<1> QED BY <1>1, <1>2, <1>3, <1>4, <1>5 DEF DataOK, JobsMove, PInv, PurgeTypeOK

LEMMA RowKeeps ==
  ASSUME PInv, StoreShrinks, NEW s \in Scans, NEW row \in RowState, SetRow(s, row),
         (row.status = "Gone" \/ row.erased) => store[s] = {},
         row.records > 0 => row.status = "Confirmed",
         RowAsked(row), rows[s].requested => row.requested
  PROVE  /\ rows' \in [Scans -> RowState]
         /\ RequestsStay /\ \A t \in Scans : RowAsked(rows'[t])
         /\ rows'[s] = row /\ \A t \in Scans : t # s => rows'[t] = rows[t]
         /\ BooksKeepTheirReceipt' /\ RowEvidence'
<1>1. /\ rows' \in [Scans -> RowState]
      /\ rows'[s] = row /\ \A t \in Scans : t # s => rows'[t] = rows[t]
  BY DEF PInv, PurgeTypeOK, SetRow
<1>2. BooksKeepTheirReceipt'
  BY <1>1 DEF PInv, BooksKeepTheirReceipt
<1>3. RowEvidence'
  BY <1>1 DEF PInv, RowEvidence, StoreShrinks
<1>4. RequestsStay /\ \A t \in Scans : RowAsked(rows'[t])
  BY <1>1 DEF PInv, Asked, RequestsStay
<1> QED BY <1>1, <1>2, <1>3, <1>4

\* A row may change with the jobs as they are, if that condemns no scan.
LEMMA RowStep ==
  ASSUME PInv, JobsMove, UNCHANGED store, NEW s \in Scans, NEW row \in RowState,
         SetRow(s, row),
         (row.status = "Gone" \/ row.erased) => store[s] = {},
         row.records > 0 => row.status = "Confirmed",
         row.status = "Deletion Pending" => rows[s].status = "Deletion Pending",
         RowAsked(row), rows[s].requested => row.requested
  PROVE  DataOK
<1>1. StoreShrinks
  BY StoreRests
<1>2. rows' \in [Scans -> RowState] /\ BooksKeepTheirReceipt' /\ RowEvidence'
  BY <1>1, RowKeeps
<1>3. JobsShape' /\ LatestIsActive' /\ JobsLive /\ JobsKept
  BY MoveIsAge, ShapeAges, MoveIsKept
<1>4. ObligationIsKept'
  BY <1>1, RowKeeps, DebtStays DEF JobsMove, Moved
<1>5. JobEvidence'
  BY <1>1, MoveIsAge, EvidenceStays DEF JobEvidence, JobsMove, Moved
<1>6. Asked' /\ RequestsStay
  BY <1>1, RowKeeps, MoveIsAge, AskedStays
<1> QED BY <1>2, <1>3, <1>4, <1>5, <1>6 DEF JobsMove, DataOK

\* Deleting a row takes the scan from its jobs.
Unlinks(s) ==
    /\ JobsAge /\ JobsKept
    /\ \A j \in JobIds : IF jobs[j].of = s THEN jobs'[j].of = NoScan ELSE jobs'[j] = jobs[j]

LEMMA UnlinkWrite ==
  ASSUME NEW a \in JobState, JobOK(a)
  PROVE  /\ Aged(a, [a EXCEPT !.of = NoScan]) /\ Kept(a, [a EXCEPT !.of = NoScan])
         /\ [a EXCEPT !.of = NoScan].of = NoScan
  BY DEF Aged, JobOK, Kept, JobState

LEMMA UnlinkedUnlinks ==
  ASSUME PInv, NEW s \in Scans, jobs' = Unlinked(s)
  PROVE  Unlinks(s)
<1>1. \A j \in JobIds :
         jobs'[j] = IF jobs[j].of = s THEN [jobs[j] EXCEPT !.of = NoScan] ELSE jobs[j]
  BY DEF Unlinked
<1>2. \A j \in JobIds : /\ Aged(jobs[j], jobs'[j]) /\ Kept(jobs[j], jobs'[j])
                        /\ jobs[j].of = s => jobs'[j].of = NoScan
  BY <1>1, UnlinkWrite, NotMoved, PurgeTyped DEF Moved
<1>3. JobsAge
  <2>1. \A j \in JobIds : jobs'[j] \in JobState
    BY <1>2 DEF Aged
  <2>2. jobs' \in [JobIds -> JobState]
    BY <2>1 DEF Unlinked
  <2> QED BY <2>2, <1>2 DEF JobsAge
<1> QED BY <1>1, <1>2, <1>3 DEF Unlinks, JobsKept

LEMMA VanishStep ==
  ASSUME PInv, UNCHANGED store, NEW s \in Scans, NEW row \in RowState, SetRow(s, row),
         row.status = "Gone", row.records = 0, store[s] = {}, Unlinks(s),
         RowAsked(row), rows[s].requested => row.requested
  PROVE  DataOK
<1>1. StoreShrinks /\ JobsAge
  BY StoreRests DEF Unlinks
<1>2. /\ rows' \in [Scans -> RowState] /\ BooksKeepTheirReceipt' /\ RowEvidence'
      /\ rows'[s].status = "Gone" /\ \A t \in Scans : t # s => rows'[t] = rows[t]
  BY <1>1, RowKeeps
<1>3. \A j \in JobIds : /\ jobs'[j].of # NoScan => SameEvidence(jobs[j], jobs'[j])
                        /\ jobs[j].of # s => KeepsDebt(jobs[j], jobs'[j])
  BY NotMoved, PurgeTyped DEF Unlinks, Moved
<1>4. JobsShape' /\ LatestIsActive' /\ JobsLive
  BY <1>1, ShapeAges, AgeLives
<1>5. ObligationIsKept'
  BY <1>2, <1>3, DebtStays
<1>6. JobEvidence'
  BY <1>1, <1>3, EvidenceStays DEF JobEvidence
<1>7. Asked' /\ RequestsStay
  BY <1>1, RowKeeps, AskedStays
<1> QED BY <1>1, <1>2, <1>4, <1>5, <1>6, <1>7 DEF JobsAge, Unlinks, DataOK

\* What Schedule writes: the job, and the row it holds locked.
JobFor(s, mode, origin, expected) ==
    [UnusedJob EXCEPT !.of = s, !.mode = mode, !.origin = origin,
                      !.status = "PENDING", !.expected = expected]

RowFor(row, mode) ==
    [row EXCEPT !.requested = TRUE,
                !.status = IF mode = "DELETE_SCAN" THEN "Deletion Pending" ELSE @]

\* A job as it is scheduled: nothing is deleted yet, nothing is behind a page.
Fresh(new, s, mode) ==
    /\ new \in JobState /\ new.of = s /\ new.mode = mode /\ new.status = "PENDING"
    /\ new.stage = "STORAGE" /\ new.deleted = {} /\ UpTo(new.expected, new.checkpoint) = {}

LEMMA NewJob ==
  ASSUME NEW s \in Scans, NEW mode \in Modes,
         NEW origin \in {"owner", "orphan", "abandoned", "redrive"},
         NEW expected \in {{}, Objects}
  PROVE  Fresh(JobFor(s, mode, origin, expected), s, mode)
<1> DEFINE new == JobFor(s, mode, origin, expected)
<1>1. /\ new \in JobState /\ new.of = s /\ new.mode = mode /\ new.status = "PENDING"
      /\ new.stage = "STORAGE" /\ new.deleted = {} /\ new.checkpoint = 0
      /\ new.expected = expected
  BY UnusedJobType DEF JobFor, JobState, ActiveStatus
<1>2. \A o \in expected : ~(PageOf[o] <= 0)
  OBVIOUS
<1>3. UpTo(expected, 0) = {}
  BY <1>2 DEF UpTo
<1> HIDE DEF new
<1>4. Fresh(new, s, mode)
  BY <1>1, <1>3 DEF Fresh
<1> QED BY <1>4 DEF new

LEMMA RequestedRow ==
  ASSUME NEW row \in RowState, NEW mode \in Modes
  PROVE  /\ RowFor(row, mode) \in RowState /\ RowFor(row, mode).records = row.records
         /\ RowFor(row, mode).erased <=> row.erased
         /\ RowFor(row, mode).requested
         /\ mode = "DELETE_SCAN" => RowFor(row, mode).status = "Deletion Pending"
         /\ mode # "DELETE_SCAN" => RowFor(row, mode).status = row.status
  BY DEF RowState, RowFor

\* A new job for a scan without an active one.
LEMMA ScheduleStep ==
  ASSUME PInv, UNCHANGED store, NEW s \in Scans, NEW row \in RowState, NEW mode \in Modes,
         NEW origin \in {"owner", "orphan", "abandoned", "redrive"},
         Schedule(s, row, mode, origin),
         \A j \in JobIds : jobs[j].of = s => ~Active(j),
         row.status # "Gone", row.erased => store[s] = {},
         row.records > 0 => row.status = "Confirmed" /\ mode # "DELETE_SCAN",
         row.status \in {"Pending", "Deletion Pending"} => mode = "DELETE_SCAN"
  PROVE  DataOK
<1> DEFINE expected == IF row.erased THEN {} ELSE Objects
           new == JobFor(s, mode, origin, expected)
           newRow == RowFor(row, mode)
<1>1. PICK j \in JobIds :
         /\ jobs[j].status = "UNUSED" /\ \A i \in 1..(j - 1) : jobs[i].status # "UNUSED"
         /\ SetJob(j, new) /\ SetRow(s, newRow)
  BY DEF Schedule, JobFor, RowFor
<1>2. /\ new \in JobState /\ new.of = s /\ new.mode = mode /\ new.status = "PENDING"
      /\ new.stage = "STORAGE" /\ new.deleted = {} /\ UpTo(new.expected, new.checkpoint) = {}
  <2>1. expected \in {{}, Objects}
    OBVIOUS
  <2> HIDE DEF expected
  <2>2. Fresh(new, s, mode)
    BY <2>1, NewJob
  <2> HIDE DEF new
  <2> QED BY <2>2 DEF Fresh
<1>3. /\ newRow \in RowState /\ newRow.records = row.records
      /\ newRow.erased <=> row.erased
      /\ newRow.requested /\ RowAsked(newRow)
      /\ mode = "DELETE_SCAN" => newRow.status = "Deletion Pending"
      /\ mode # "DELETE_SCAN" => newRow.status = row.status
  BY RequestedRow DEF RowAsked
<1> HIDE DEF new, newRow
<1>4. /\ jobs' \in [JobIds -> JobState]
      /\ jobs'[j] = new /\ \A i \in JobIds : i # j => jobs'[i] = jobs[i]
  BY <1>1, <1>2, SetJobType
<1>5. StoreShrinks
  BY StoreRests
<1>6. /\ rows' \in [Scans -> RowState] /\ BooksKeepTheirReceipt' /\ RowEvidence'
      /\ rows'[s] = newRow /\ \A t \in Scans : t # s => rows'[t] = rows[t]
  BY <1>1, <1>3, <1>5, RowKeeps
<1>7. \A i \in JobIds : /\ j <= i => jobs[i].status = "UNUSED" /\ jobs[i].of = NoScan
                        /\ jobs[i].status # "UNUSED" => i <= j
  BY <1>1, JobIsNat DEF PInv, JobsShape
<1>8. JobsShape'
  <2>1. ASSUME NEW i \in JobIds, jobs'[i].status = "UNUSED", NEW k \in JobIds, i <= k
        PROVE  jobs'[k].status = "UNUSED"
    <3>1. i # j /\ jobs[i].status = "UNUSED"
      BY <2>1, <1>2, <1>4
    <3>2. jobs[k].status = "UNUSED"
      BY <2>1, <3>1 DEF PInv, JobsShape
    <3>3. j <= i
      <4>1. i \notin 1..(j - 1)
        BY <1>1, <3>1
      <4> QED BY <4>1, JobIsNat
    <3>4. k # j
      BY <2>1, <3>1, <3>3, JobIsNat
    <3> QED BY <3>2, <3>4, <1>4
  <2>2. \A i \in JobIds : /\ jobs'[i].status \in {"UNUSED", "EXPIRED"} => jobs'[i].of = NoScan
                          /\ jobs'[i].stage = "COMPLETE" => jobs'[i].status = "COMPLETE"
    <3>1. \A i \in JobIds : JobOK(jobs[i])
      BY PurgeTyped
    <3> QED BY <3>1, <1>2, <1>4 DEF JobOK
  <2> QED BY <2>1, <2>2 DEF JobsShape
<1>9. LatestIsActive'
  <2> SUFFICES ASSUME NEW i \in JobIds, NEW k \in JobIds, jobs'[i].status \in ActiveStatus,
                      jobs'[i].of # NoScan, jobs'[k].of = jobs'[i].of
               PROVE  k <= i
    BY DEF LatestIsActive, Active
  <2>1. CASE i = j
    <3>1. k # j => jobs[k].of = s
      BY <1>2, <1>4, <2>1
    <3>2. k # j => ~(j <= k)
      BY <3>1, <1>7
    <3> QED BY <2>1, <3>2, JobIsNat
  <2>2. CASE i # j /\ k = j
    BY <2>2, <1>2, <1>4 DEF Active
  <2>3. CASE i # j /\ k # j
    BY <2>3, <1>4 DEF PInv, LatestIsActive, Active
  <2> QED BY <2>1, <2>2, <2>3
<1>10. ObligationIsKept'
  <2> SUFFICES ASSUME NEW t \in Scans, rows'[t].status = "Deletion Pending"
               PROVE  \E i \in JobsOf(t)' : /\ jobs'[i].mode = "DELETE_SCAN"
                                            /\ Active(i)' \/ jobs'[i].status = "FAILED"
    BY DEF ObligationIsKept
  <2>1. CASE t = s
    <3>1. mode = "DELETE_SCAN"
      BY <2>1, <1>3, <1>6
    <3> QED BY <2>1, <3>1, <1>2, <1>4 DEF JobsOf, Active, ActiveStatus
  <2>2. CASE t # s
    <3>1. PICK i \in JobIds : /\ jobs[i].of = t /\ jobs[i].mode = "DELETE_SCAN"
                              /\ Active(i) \/ jobs[i].status = "FAILED"
      <4>1. rows[t].status = "Deletion Pending" /\ ObligationIsKept
        BY <2>2, <1>6 DEF PInv
      <4> QED BY <4>1 DEF ObligationIsKept, JobsOf
    <3>2. i # j
      BY <3>1, <1>1 DEF Active, ActiveStatus
    <3> QED BY <3>1, <3>2, <1>4 DEF JobsOf, Active
  <2> QED BY <2>1, <2>2
<1>11. JobEvidence'
  BY <1>2, <1>4 DEF PInv, JobEvidence
<1>12. JobsLive /\ JobsKept
  BY <1>1, <1>2, <1>4 DEF JobsLive, JobsKept, Kept, Terminal
<1>13. RequestsStay /\ Asked'
  <2>1. RequestsStay /\ \A t \in Scans : RowAsked(rows'[t])
    BY <1>1, <1>3, <1>5, RowKeeps
  <2>2. \A i \in JobIds : jobs[i].of # NoScan => rows'[jobs[i].of].requested
    BY <2>1, PurgeTyped DEF PInv, Asked, RequestsStay
  <2> QED BY <2>1, <2>2, <1>2, <1>3, <1>4, <1>6 DEF Asked
<1> QED BY <1>13, <1>4, <1>6, <1>8, <1>9, <1>10, <1>11, <1>12 DEF DataOK

LEMMA DataKeeps ==
  ASSUME PInv, DataOK, UNCHANGED <<store, worker>>, Fault \/ UNCHANGED faults
  PROVE  PInv' /\ JobsKept
<1>1. StoreShrinks
  BY StoreRests
<1>2. WorkersOK'
  BY <1>1, OthersStay DEF WorkersOK, DataOK
<1>3. PurgeTypeOK'
  BY FaultCounted DEF DataOK, PInv, PurgeTypeOK
<1> QED BY <1>2, <1>3 DEF DataOK, PInv

LEMMA IdleScan ==
  \A s \in Scans : ~InPurge(s) => \A j \in JobIds : jobs[j].of = s => ~Active(j)
  BY DEF InPurge, JobsOf

\* A row as it is, or with one record fewer, is a row RowStep accepts.
LEMMA RowFacts ==
  ASSUME PInv, NEW s \in Scans
  PROVE  /\ rows[s].erased => store[s] = {}
         /\ rows[s].status = "Gone" => store[s] = {}
         /\ rows[s].records > 0 => rows[s].status = "Confirmed"
         /\ rows[s].records \in Nat
         /\ RowAsked(rows[s])
  BY PurgeTyped DEF PInv, RowEvidence, BooksKeepTheirReceipt, Asked

LEMMA PurgeIfOrphanedStep ==
  ASSUME PInv, UNCHANGED store, NEW s \in Scans, NEW row \in RowState,
         PurgeIfOrphaned(s, row), rows[s].status # "Gone", row.status = rows[s].status,
         row.erased <=> rows[s].erased, row.requested <=> rows[s].requested,
         row.records > 0 => rows[s].records > 0
  PROVE  DataOK
<1>1. /\ row.erased => store[s] = {}
      /\ row.records > 0 => row.status = "Confirmed"
      /\ RowAsked(row) /\ (rows[s].requested => row.requested)
  BY RowFacts DEF RowAsked
<1>2. CASE SetRow(s, row) /\ UNCHANGED jobs
  BY <1>1, <1>2, RowStep, JobsRest
<1>3. CASE Orphaned(s, row) /\ row.erased /\ SetRow(s, [row EXCEPT !.status = "Gone"])
           /\ jobs' = Unlinked(s)
  <2> DEFINE new == [row EXCEPT !.status = "Gone"]
  <2>1. /\ new \in RowState /\ new.status = "Gone" /\ new.records = 0
        /\ RowAsked(new) /\ (rows[s].requested => new.requested)
    BY <1>1, <1>3 DEF RowState, Orphaned, RowAsked
  <2>2. SetRow(s, new) /\ store[s] = {}
    BY <1>1, <1>3
  <2> HIDE DEF new
  <2> QED BY <2>1, <2>2, <1>3, UnlinkedUnlinks, VanishStep
<1>4. CASE Orphaned(s, row) /\ ~row.erased /\ Schedule(s, row, "DELETE_SCAN", "orphan")
  <2>1. /\ \A j \in JobIds : jobs[j].of = s => ~Active(j)
        /\ row.status = "Confirmed" /\ ~(row.records > 0)
    BY <1>4, IdleScan DEF Orphaned
  <2>2. "DELETE_SCAN" \in Modes
    BY DEF Modes
  <2>3. Schedule(s, row, "DELETE_SCAN", "orphan") /\ row.status # "Gone"
    BY <1>4, <2>1
  <2> QED BY <1>1, <2>1, <2>2, <2>3, ScheduleStep
<1> QED BY <1>2, <1>3, <1>4 DEF PurgeIfOrphaned

LEMMA RequestKeeps == PInv /\ RequestNext => PInv' /\ JobsKept
<1> SUFFICES ASSUME PInv, RequestNext PROVE PInv' /\ JobsKept
  OBVIOUS
<1> USE DEF Modes
<1>1. ASSUME NEW s \in Scans, NEW n \in 1..MaxRecords, Confirm(s, n)
      PROVE  PInv' /\ JobsKept
  <2> DEFINE row == [rows[s] EXCEPT !.status = "Confirmed", !.records = n]
  <2>1. /\ row \in RowState /\ row.status = "Confirmed"
        /\ RowAsked(row) /\ (row.erased <=> rows[s].erased)
        /\ row.requested <=> rows[s].requested
    <3>1. n \in 0..MaxRecords
      OBVIOUS
    <3> QED BY <3>1, PurgeTyped, RowFacts DEF RowState, RowAsked
  <2>2. SetRow(s, row) /\ UNCHANGED <<store, jobs, worker, faults>>
    BY <1>1 DEF Confirm
  <2> HIDE DEF row
  <2>3. DataOK
    BY <2>1, <2>2, RowStep, RowFacts, JobsRest
  <2> QED BY <2>2, <2>3, DataKeeps
<1>2. ASSUME NEW s \in Scans, NEW mode \in Modes, RequestPurge(s, mode)
      PROVE  PInv' /\ JobsKept
  <2>1. /\ \A j \in JobIds : jobs[j].of = s => ~Active(j)
        /\ rows[s].status # "Gone"
        /\ rows[s].records > 0 => mode # "DELETE_SCAN"
        /\ rows[s].status \in {"Pending", "Deletion Pending"} => mode = "DELETE_SCAN"
        /\ Schedule(s, rows[s], mode, "owner") /\ UNCHANGED <<store, worker, faults>>
    BY <1>2, IdleScan, RowFacts DEF RequestPurge
  <2>2. DataOK
    <3>1. /\ rows[s] \in RowState /\ (rows[s].erased => store[s] = {})
          /\ rows[s].records > 0 => rows[s].status = "Confirmed"
      BY PurgeTyped, RowFacts
    <3> QED BY <2>1, <3>1, ScheduleStep
  <2> QED BY <2>1, <2>2, DataKeeps
<1>3. ASSUME NEW s \in Scans, DeleteRecord(s)
      PROVE  PInv' /\ JobsKept
  <2> DEFINE row == [rows[s] EXCEPT !.records = @ - 1]
  <2>1. rows[s].records > 0 /\ rows[s].records \in 0..MaxRecords
    BY <1>3, PurgeTyped DEF DeleteRecord
  <2>2. /\ row \in RowState /\ row.status = rows[s].status
        /\ row.erased <=> rows[s].erased
        /\ row.requested <=> rows[s].requested
    <3>1. rows[s].records - 1 \in 0..MaxRecords
      BY <2>1
    <3> QED BY <3>1, PurgeTyped DEF RowState
  <2>3. PurgeIfOrphaned(s, row) /\ UNCHANGED <<store, worker, faults>>
    BY <1>3 DEF DeleteRecord
  <2> HIDE DEF row
  <2>4. DataOK
    BY <2>1, <2>2, <2>3, PurgeIfOrphanedStep, RowFacts
  <2> QED BY <2>3, <2>4, DataKeeps
<1>4. ASSUME NEW s \in Scans, SweepAbandoned(s)
      PROVE  PInv' /\ JobsKept
  <2>1. /\ \A j \in JobIds : jobs[j].of = s => ~Active(j)
        /\ rows[s].status = "Pending" /\ rows[s].records = 0
        /\ Schedule(s, rows[s], "DELETE_SCAN", "abandoned")
        /\ UNCHANGED <<store, worker, faults>>
    BY <1>4, IdleScan DEF SweepAbandoned
  <2>2. DataOK
    BY <2>1, ScheduleStep, RowFacts, PurgeTyped
  <2> QED BY <2>1, <2>2, DataKeeps
<1>5. ASSUME NEW s \in Scans, Redrive(s)
      PROVE  PInv' /\ JobsKept
  <2>1. PICK j \in JobIds : BurnedOut(s, j)
    BY <1>5 DEF Redrive
  <2>2. \A i \in JobIds : jobs[i].of = s => ~Active(i)
    <3> SUFFICES ASSUME NEW i \in JobIds, jobs[i].of = s, Active(i) PROVE FALSE
      OBVIOUS
    <3>1. jobs[j].of = s /\ i <= j /\ jobs[j].status = "FAILED"
      BY <2>1 DEF BurnedOut, JobsOf
    <3>2. j <= i
      BY <3>1 DEF PInv, LatestIsActive
    <3> QED BY <3>1, <3>2, JobIsNat DEF Active, ActiveStatus
  <2>3. /\ rows[s].status = "Deletion Pending"
        /\ Schedule(s, rows[s], "DELETE_SCAN", "redrive")
        /\ UNCHANGED <<store, worker, faults>>
    BY <1>5, <2>1 DEF Redrive, BurnedOut
  <2>4. DataOK
    BY <2>2, <2>3, ScheduleStep, RowFacts, PurgeTyped
  <2> QED BY <2>3, <2>4, DataKeeps
<1> QED BY <1>1, <1>2, <1>3, <1>4, <1>5 DEF RequestNext

-----------------------------------------------------------------------------
(* The clock.                                                              *)

LEMMA MovedJob ==
  ASSUME PInv, NEW j \in JobIds, NEW a, Moved(jobs[j], a), SetJob(j, a),
         UNCHANGED <<rows, store, worker>>, Fault \/ UNCHANGED faults
  PROVE  PInv' /\ JobsKept
<1>1. JobsMove
  BY SetJobMoves
<1> QED BY <1>1, StoreRests, MoveIsData, DataKeeps

\* The premise of LeaseWrites and its like, for a job of the state.
LEMMA ActiveJob ==
  \A j \in JobIds :
      PInv => /\ jobs[j] \in JobState /\ JobOK(jobs[j])
              /\ jobs[j].status \in {"PENDING", "PROCESSING", "RETRY"} =>
                    jobs[j].status \in ActiveStatus
  BY PurgeTyped DEF ActiveStatus

LEMMA TickKeeps == PInv /\ PurgeTick => PInv' /\ JobsKept
<1> SUFFICES ASSUME PInv, NEW j \in JobIds,
                    \/ PurgeLeaseExpires(j) \/ RetryFallsDue(j)
                    \/ CooldownEnds(j) \/ ResultExpires(j)
             PROVE  PInv' /\ JobsKept
  BY DEF PurgeTick
<1>1. jobs[j].status \in ActiveStatus =>
         /\ Moved(jobs[j], [jobs[j] EXCEPT !.stale = TRUE])
         /\ Moved(jobs[j], [jobs[j] EXCEPT !.due = TRUE])
  BY ActiveJob, LeaseWrites
<1>2. /\ Moved(jobs[j], [jobs[j] EXCEPT !.quiet = TRUE])
      /\ Moved(jobs[j], [jobs[j] EXCEPT !.expired = TRUE])
  BY ActiveJob, ClockWrites
<1>3. CASE PurgeLeaseExpires(j)
  BY <1>1, <1>3, ActiveJob, MovedJob DEF PurgeLeaseExpires
<1>4. CASE RetryFallsDue(j)
  BY <1>1, <1>4, ActiveJob, MovedJob DEF RetryFallsDue
<1>5. CASE CooldownEnds(j)
  BY <1>2, <1>5, MovedJob DEF CooldownEnds
<1>6. CASE ResultExpires(j)
  BY <1>2, <1>6, MovedJob DEF ResultExpires
<1> QED BY <1>3, <1>4, <1>5, <1>6

-----------------------------------------------------------------------------
(* The worker.                                                             *)

\* A state that, once taken, knows what it must.
Sound(w, st) ==
    /\ st \in PurgeWorkerState
    /\ worker'[w] = st => AttemptOK(w)' /\ ErasingOK(w)' /\ OrphaningOK(w)'

LEMMA LightIsSound ==
  ASSUME PInv, JobsLive, NEW w \in Workers, NEW st, Light(w, st)
  PROVE  Sound(w, st)
  BY GivesUp DEF Light, Sound

LEMMA WorkerStep ==
  ASSUME PInv, DataOK, StoreShrinks, NEW w \in Workers, NEW st, Sound(w, st),
         Become(w, st), Fault \/ UNCHANGED faults
  PROVE  PInv' /\ JobsKept
<1>1. worker'[w] = st /\ st \in PurgeWorkerState
  BY DEF Become, PInv, PurgeTypeOK, Sound
<1>2. worker' \in [Workers -> PurgeWorkerState] /\ WorkersOK'
  BY <1>1, BecomeKeeps DEF Sound, DataOK
<1>3. PurgeTypeOK'
  BY <1>2, FaultCounted DEF DataOK, PurgeTypeOK, StoreShrinks
<1> QED BY <1>2, <1>3 DEF DataOK, PInv

LEMMA AfterStep ==
  ASSUME PInv, DataOK, StoreShrinks, NEW w \in Workers, worker[w].pc \in Attempting,
         NEW st, Leased(w) => Sound(w, st), NEW answered \in BOOLEAN, After(w, answered, st)
  PROVE  PInv' /\ JobsKept
<1>1. Sound(w, IdlePurger) /\ Sound(w, [worker[w] EXCEPT !.pc = "failing"])
  BY IdleIsLight, FailingIsLight, LightIsSound DEF DataOK
<1>2. CASE answered /\ Leased(w)
  BY <1>2, WorkerStep DEF After
<1>3. CASE answered /\ ~Leased(w)
  BY <1>1, <1>3, WorkerStep DEF After
<1>4. CASE ~answered
  BY <1>1, <1>4, WorkerStep DEF After
<1> QED BY <1>2, <1>3, <1>4

\* A light step that moves the jobs or leaves them alone.
LEMMA LightMove ==
  ASSUME PInv, NEW w \in Workers, NEW st, Light(w, st), Become(w, st), JobsMove,
         UNCHANGED <<rows, store>>, Fault \/ UNCHANGED faults
  PROVE  PInv' /\ JobsKept
  BY StoreRests, MoveIsData, MoveIsAge, LightIsSound, WorkerStep

LEMMA TidyKeeps ==
  ASSUME PInv, NEW w \in Workers, TidyJobs(w)
  PROVE  PInv' /\ JobsKept
<1> DEFINE gone == [UnusedJob EXCEPT !.status = "EXPIRED"]
           failed(j) == [jobs[j] EXCEPT !.status = "FAILED", !.worker = Nobody, !.stale = FALSE]
<1>1. \A j \in JobIds :
         jobs'[j] = IF Retirable(j) THEN gone ELSE IF Spent(j) THEN failed(j) ELSE jobs[j]
  BY DEF TidyJobs
<1>2. gone \in JobState /\ gone.status = "EXPIRED" /\ gone.of = NoScan /\ gone.stage = "STORAGE"
  BY UnusedJobType DEF JobState
<1>3. ASSUME NEW j \in JobIds, Spent(j) PROVE Moved(jobs[j], failed(j))
  BY <1>3, ActiveJob, LeaseWrites DEF Spent
<1>4. ASSUME NEW j \in JobIds PROVE Moved(jobs[j], jobs[j])
  BY NotMoved, ActiveJob
<1> HIDE DEF gone, failed
<1>5. ASSUME NEW j \in JobIds, Retirable(j)
      PROVE  /\ Aged(jobs[j], gone) /\ Kept(jobs[j], gone)
             /\ jobs[j].of # NoScan => KeepsDebt(jobs[j], gone)
  <2>1. jobs[j].status \in Terminal
    BY <1>5 DEF Retirable, Terminal
  <2>2. Aged(jobs[j], gone) /\ Kept(jobs[j], gone)
    BY <1>2, <2>1 DEF Aged, Kept, JobOK, Terminal, ActiveStatus
  <2>3. jobs[j].of # NoScan => KeepsDebt(jobs[j], gone)
    BY <1>5 DEF Retirable, KeepsDebt, ActiveStatus
  <2> QED BY <2>2, <2>3
<1>6. \A j \in JobIds : /\ Aged(jobs[j], jobs'[j]) /\ Kept(jobs[j], jobs'[j])
                        /\ jobs[j].of # NoScan => KeepsDebt(jobs[j], jobs'[j])
                        /\ jobs'[j].of # NoScan => SameEvidence(jobs[j], jobs'[j])
  BY <1>1, <1>2, <1>3, <1>4, <1>5 DEF Moved
<1>7. JobsAge
  <2>1. \A j \in JobIds : jobs'[j] \in JobState
    BY <1>6 DEF Aged
  <2>2. jobs' \in [JobIds -> JobState]
    BY <2>1 DEF TidyJobs
  <2> QED BY <2>2, <1>6 DEF JobsAge
<1>8. StoreShrinks /\ UNCHANGED rows
  BY StoreRests DEF TidyJobs
<1>9. DataOK
  <2>1. JobsShape' /\ LatestIsActive' /\ JobsLive /\ JobsKept
    BY <1>6, <1>7, ShapeAges, AgeLives DEF JobsKept
  <2>2. ObligationIsKept'
    BY <1>6, <1>8, DebtStays
  <2>3. JobEvidence'
    BY <1>6, <1>7, <1>8, EvidenceStays DEF JobEvidence
  <2>4. BooksKeepTheirReceipt' /\ RowEvidence'
    BY <1>8 DEF PInv, BooksKeepTheirReceipt, RowEvidence, StoreShrinks
  <2>5. Asked' /\ RequestsStay
    BY <1>7, <1>8, RowsRest, AskedStays
  <2> QED BY <1>7, <1>8, <2>1, <2>2, <2>3, <2>4, <2>5 DEF DataOK, JobsAge, PInv, PurgeTypeOK
<1>10. Light(w, [worker[w] EXCEPT !.pc = "claiming"])
  BY PurgeTyped, PurgerFields DEF Light, PurgeWorkerState
<1>11. Become(w, [worker[w] EXCEPT !.pc = "claiming"]) /\ UNCHANGED faults
  BY DEF TidyJobs
<1> QED BY <1>8, <1>9, <1>10, <1>11, LightIsSound, WorkerStep DEF DataOK

LEMMA ClaimKeeps ==
  ASSUME PInv, NEW w \in Workers, NEW j \in JobIds, NEW answered \in BOOLEAN,
         ClaimPurge(w, j, answered)
  PROVE  PInv' /\ JobsKept
<1> DEFINE n == jobs[j].attempt + 1
           a == [jobs[j] EXCEPT !.status = "PROCESSING", !.attempt = n, !.worker = w,
                                !.stale = FALSE]
           st == [IdlePurger EXCEPT !.pc = "claimed", !.job = j, !.attempt = n,
                                    !.stage = jobs[j].stage]
<1>1. Purgeable(j)
  BY DEF ClaimPurge
<1>2. n \in 0..MaxAttempts
  BY <1>1, PurgeTyped DEF Purgeable
<1>3. jobs[j].status \in ActiveStatus /\ jobs[j].stage \in {"STORAGE", "DATABASE"}
  <2>1. jobs[j].status \in {"PENDING", "RETRY", "PROCESSING"}
    BY <1>1 DEF Purgeable
  <2>2. jobs[j].stage # "COMPLETE"
    BY <2>1, ActiveJob DEF JobOK
  <2> QED BY <2>1, <2>2, ActiveJob DEF JobState, ActiveStatus
<1>4. SetJob(j, a) /\ UNCHANGED <<rows, store>>
  BY DEF ClaimPurge
<1>5. IF answered THEN Become(w, st) /\ UNCHANGED faults ELSE Become(w, IdlePurger) /\ Fault
  BY DEF ClaimPurge
<1>6. st \in PurgeWorkerState /\ st.job = j /\ st.pc = "claimed"
  <2>1. j \in 0..MaxJobs
    BY DEF JobIds
  <2>2. IdlePurger \in PurgeWorkerState
    BY IdleIsLight DEF Light
  <2> HIDE DEF n
  <2> QED BY <1>2, <1>3, <2>1, <2>2 DEF PurgeWorkerState, Attempting
<1>7. Moved(jobs[j], a)
  <2> HIDE DEF n
  <2> QED BY <1>2, <1>3, ActiveJob, ClaimWrite
<1> HIDE DEF n, a, st
<1>8. JobsMove
  BY <1>4, <1>7, SetJobMoves
<1>9. jobs'[j].status # "UNUSED"
  <2>1. jobs[j].status # "UNUSED"
    BY <1>3 DEF ActiveStatus
  <2> QED BY <2>1, <1>8 DEF JobsMove, Moved, Aged
<1>10. Sound(w, st)
  BY <1>6, <1>9 DEF Sound, AttemptOK, ErasingOK, OrphaningOK
<1>11. DataOK /\ StoreShrinks
  BY <1>4, <1>8, StoreRests, MoveIsData
<1>12. CASE answered
  BY <1>5, <1>10, <1>11, <1>12, WorkerStep
<1>13. CASE ~answered
  BY <1>5, <1>4, <1>8, <1>13, IdleIsLight, LightMove
<1> QED BY <1>12, <1>13

LEMMA LeasedJob ==
  ASSUME PInv, NEW w \in Workers, worker[w].pc \in Attempting
  PROVE  /\ worker[w].job \in JobIds
         /\ jobs[worker[w].job].status = "PROCESSING" =>
               jobs[worker[w].job].status \in ActiveStatus
         /\ Leased(w) => jobs[worker[w].job].status = "PROCESSING"
  BY DEF PInv, WorkersOK, AttemptOK, ActiveStatus, Leased

LEMMA HeartbeatKeeps ==
  ASSUME PInv, NEW w \in Workers, HeartbeatPurge(w)
  PROVE  PInv' /\ JobsKept
<1> DEFINE j == worker[w].job
<1>1. /\ worker[w].pc \in Attempting /\ Leased(w)
      /\ SetJob(j, [jobs[j] EXCEPT !.stale = FALSE])
      /\ UNCHANGED <<rows, store, worker>> /\ UNCHANGED faults
  BY DEF HeartbeatPurge
<1>2. j \in JobIds /\ jobs[j].status \in ActiveStatus
  BY <1>1, LeasedJob
<1> HIDE DEF j
<1>3. Moved(jobs[j], [jobs[j] EXCEPT !.stale = FALSE])
  BY <1>2, ActiveJob, LeaseWrites
<1> QED BY <1>1, <1>2, <1>3, MovedJob

LEMMA FailureKeeps ==
  ASSUME PInv, NEW w \in Workers, RecordPurgeFailure(w)
  PROVE  PInv' /\ JobsKept
<1> DEFINE j == worker[w].job
           st == IF worker[w].attempt >= MaxAttempts THEN "FAILED" ELSE "RETRY"
<1>1. /\ worker[w].pc \in Attempting
      /\ Become(w, IdlePurger) /\ UNCHANGED <<rows, store>> /\ UNCHANGED faults
  BY DEF RecordPurgeFailure, Attempting
<1>2. CASE jobs[j].status = "PROCESSING" /\ SetJob(j, [jobs[j] EXCEPT !.status = st,
                   !.worker = Nobody, !.stale = FALSE, !.due = FALSE])
  <2>1. j \in JobIds /\ jobs[j].status \in ActiveStatus /\ st \in {"FAILED", "RETRY"}
    BY <1>1, <1>2, LeasedJob
  <2> HIDE DEF j, st
  <2>2. Moved(jobs[j], [jobs[j] EXCEPT !.status = st, !.worker = Nobody, !.stale = FALSE,
                                       !.due = FALSE])
    BY <2>1, ActiveJob, FailureWrite
  <2>3. JobsMove
    BY <1>2, <2>1, <2>2, SetJobMoves
  <2> QED BY <1>1, <2>3, IdleIsLight, LightMove
<1>3. CASE UNCHANGED jobs
  BY <1>1, <1>3, JobsRest, IdleIsLight, LightMove
<1> QED BY <1>2, <1>3 DEF RecordPurgeFailure

LEMMA CrashKeeps ==
  ASSUME PInv, NEW w \in Workers, CrashPurger(w)
  PROVE  PInv' /\ JobsKept
<1>1. \A j \in JobIds : Moved(jobs[j], jobs[j]) /\ Moved(jobs[j], [jobs[j] EXCEPT !.worker = Dead])
  BY NotMoved, ActiveJob, ClockWrites
<1>2. \A j \in JobIds : Moved(jobs[j], jobs'[j])
  BY <1>1 DEF CrashPurger
<1>3. \A j \in JobIds : jobs'[j] \in JobState
  BY <1>2 DEF Moved, Aged
<1>4. JobsMove
  BY <1>2, <1>3 DEF JobsMove, CrashPurger
<1> QED BY <1>4, IdleIsLight, LightMove DEF CrashPurger

-----------------------------------------------------------------------------
(* The storage stage.                                                      *)

LEMMA FirstPageIsFirst ==
  ASSUME NEW todo \in SUBSET Objects, NEW page \in FirstPage(todo)
  PROVE  /\ page \in Nat
         /\ \A o \in todo : page <= PageOf[o]
         /\ page = 0 => todo = {}
<1>1. CASE todo = {}
  BY <1>1 DEF FirstPage
<1>2. CASE todo # {}
  <2>1. PICK o \in todo : page = PageOf[o] /\ \A b \in todo : PageOf[o] <= PageOf[b]
    BY <1>2 DEF FirstPage
  <2>2. PageOf[o] \in Nat /\ PageOf[o] # 0
    BY <2>1
  <2> QED BY <2>1, <2>2
<1> QED BY <1>1, <1>2

\* A process that goes on with `todo', at its first page.
LEMMA ErasingIsSound ==
  ASSUME PInv, RequestsStay, NEW w \in Workers, NEW s \in Scans, rows[s].requested,
         NEW todo \in SUBSET Objects, NEW page \in FirstPage(todo), NEW st \in PurgeWorkerState,
         st.pc = "erasing", st.job = worker[w].job, st.todo = todo, st.page = page, st.scan = s,
         worker[w].pc \in Attempting, JobsLive, StoreShrinks,
         jobs[worker[w].job].of \in {s, NoScan}, store[s] \subseteq todo
  PROVE  Sound(w, st)
<1> SUFFICES ASSUME worker'[w] = st
             PROVE  AttemptOK(w)' /\ ErasingOK(w)' /\ OrphaningOK(w)'
  BY DEF Sound
<1>1. worker[w].job \in JobIds /\ jobs[worker[w].job].status # "UNUSED"
  BY DEF PInv, WorkersOK, AttemptOK
<1>2. AttemptOK(w)'
  BY <1>1 DEF AttemptOK, JobsLive
<1>3. jobs'[worker[w].job].of \in {s, NoScan}
  BY <1>1 DEF JobsLive
<1>4. store'[s] \subseteq todo /\ rows'[s].requested
  BY DEF StoreShrinks, RequestsStay
<1>5. ErasingOK(w)'
  BY <1>3, <1>4, FirstPageIsFirst DEF ErasingOK
<1>6. OrphaningOK(w)'
  BY DEF OrphaningOK
<1> QED BY <1>2, <1>5, <1>6

LEMMA ReadKeeps ==
  ASSUME PInv, NEW w \in Workers, ReadTarget(w)
  PROVE  PInv' /\ JobsKept
<1> DEFINE job == jobs[worker[w].job]
           todo == job.expected \ UpTo(job.expected, job.checkpoint)
<1>1. /\ worker[w].pc \in Attempting /\ UNCHANGED <<rows, store>> /\ UNCHANGED faults
      /\ JobsMove /\ StoreShrinks
  BY JobsRest, StoreRests DEF ReadTarget, Attempting
<1>2. DataOK /\ JobsLive /\ RequestsStay
  BY <1>1, MoveIsData DEF DataOK
<1>3. worker[w].job \in JobIds
  BY <1>1, LeasedJob
<1>4. CASE Become(w, [worker[w] EXCEPT !.pc = "failing"])
  BY <1>1, <1>2, <1>4, FailingIsLight, LightIsSound, WorkerStep
<1>5. ASSUME job.of # NoScan, Artifacts(job.of) = job.expected,
             UpTo(job.expected, job.checkpoint) = job.deleted,
             NEW page \in FirstPage(todo),
             Become(w, [Erasing(w, todo, page) EXCEPT !.scan = job.of])
      PROVE  PInv' /\ JobsKept
  <2> DEFINE st == [Erasing(w, todo, page) EXCEPT !.scan = job.of]
  <2>1. job.of \in Scans /\ rows[job.of].requested /\ todo \in SUBSET Objects
    BY <1>3, <1>5, PurgeTyped DEF PInv, Asked
  <2>2. store[job.of] \subseteq todo
    <3>1. job.deleted \cap store[job.of] = {}
      BY <1>3, <1>5 DEF PInv, JobEvidence
    <3>2. store[job.of] \subseteq job.expected
      <4>1. rows[job.of].erased => store[job.of] = {}
        BY <2>1, RowFacts
      <4> QED BY <4>1, <2>1, <1>5, PurgeTyped DEF Artifacts
    <3> QED BY <3>1, <3>2, <1>5
  <2>3. page \in Nat
    BY <2>1, FirstPageIsFirst
  <2>4. /\ st \in PurgeWorkerState /\ st.pc = "erasing" /\ st.job = worker[w].job
        /\ st.todo = todo /\ st.page = page /\ st.scan = job.of
    <3>1. worker[w] \in PurgeWorkerState
      BY PurgeTyped
    <3> HIDE DEF job, todo
    <3> QED BY <2>1, <2>3, <3>1 DEF Erasing, PurgeWorkerState, Attempting
  <2> HIDE DEF st
  <2>5. Sound(w, st)
    <3>1. jobs[worker[w].job].of \in {job.of, NoScan}
      OBVIOUS
    <3> HIDE DEF job, todo
    <3> QED BY <1>1, <1>2, <1>5, <2>1, <2>2, <2>4, <3>1, ErasingIsSound
  <2> QED BY <1>1, <1>2, <1>5, <2>5, WorkerStep DEF st
<1> QED BY <1>4, <1>5 DEF ReadTarget

LEMMA DeleteKeeps ==
  ASSUME PInv, NEW w \in Workers, NEW o \in Objects, DeleteImage(w, o)
  PROVE  PInv' /\ JobsKept
<1> DEFINE s == worker[w].scan
           st == [worker[w] EXCEPT !.todo = @ \ {o}]
<1>1. /\ worker[w].pc = "erasing" /\ worker[w].pc \in Attempting
      /\ o \in worker[w].todo /\ PageOf[o] = worker[w].page
      /\ store' = [store EXCEPT ![s] = @ \ {o}]
      /\ Become(w, st) /\ UNCHANGED rows /\ UNCHANGED jobs /\ UNCHANGED faults
  BY DEF DeleteImage, Attempting
<1>2. AttemptOK(w) /\ ErasingOK(w)
  BY DEF PInv, WorkersOK
<1>3. s \in Scans
  BY <1>1, <1>2 DEF ErasingOK
<1>4. StoreShrinks /\ store'[s] = store[s] \ {o}
  BY <1>1, <1>3 DEF StoreShrinks, PInv, PurgeTypeOK
<1>5. DataOK
  BY <1>1, <1>4, JobsRest, MoveIsData
<1>6. /\ st \in PurgeWorkerState /\ st.pc = "erasing" /\ st.job = worker[w].job
      /\ st.todo = worker[w].todo \ {o} /\ st.page = worker[w].page /\ st.scan = s
  <2>1. worker[w] \in PurgeWorkerState /\ worker[w].todo \ {o} \in SUBSET Objects
    BY PurgeTyped
  <2> QED BY <1>1, <2>1 DEF PurgeWorkerState
<1> HIDE DEF st
<1>7. ASSUME worker'[w] = st PROVE AttemptOK(w)' /\ ErasingOK(w)' /\ OrphaningOK(w)'
  <2>1. AttemptOK(w)'
    BY <1>1, <1>2, <1>6, <1>7 DEF AttemptOK
  <2>2. ErasingOK(w)'
    <3>1. worker[w].page # 0
      BY <1>1
    <3> QED BY <1>1, <1>2, <1>4, <1>6, <1>7, <3>1 DEF ErasingOK
  <2>3. OrphaningOK(w)'
    BY <1>6, <1>7 DEF OrphaningOK
  <2> QED BY <2>1, <2>2, <2>3
<1>8. Sound(w, st)
  BY <1>6, <1>7 DEF Sound
<1> QED BY <1>1, <1>4, <1>5, <1>8, WorkerStep

\* A step that changes what one job has done.
LEMMA JobStep ==
  ASSUME PInv, UNCHANGED store, NEW j \in JobIds, NEW a, SetJob(j, a),
         Aged(jobs[j], a), Kept(jobs[j], a), jobs[j].of # NoScan => KeepsDebt(jobs[j], a),
         a.of # NoScan => /\ a.deleted \cap store[a.of] = {}
                          /\ UpTo(a.expected, a.checkpoint) \subseteq a.deleted
                          /\ a.stage \in {"DATABASE", "COMPLETE"} => store[a.of] = {},
         rows' \in [Scans -> RowState], BooksKeepTheirReceipt', RowEvidence',
         RequestsStay, \A s \in Scans : RowAsked(rows'[s]),
         \A s \in Scans :
            rows'[s].status = "Deletion Pending" => rows[s].status = "Deletion Pending"
  PROVE  DataOK
<1>1. a \in JobState
  BY DEF Aged
<1>2. /\ jobs' \in [JobIds -> JobState]
      /\ jobs'[j] = a /\ \A i \in JobIds : i # j => jobs'[i] = jobs[i]
  BY <1>1, SetJobType
<1>3. \A i \in JobIds : /\ Aged(jobs[i], jobs'[i]) /\ Kept(jobs[i], jobs'[i])
                        /\ jobs[i].of # NoScan => KeepsDebt(jobs[i], jobs'[i])
  BY <1>2, NotMoved, PurgeTyped DEF Moved
<1>4. JobsAge /\ JobsKept
  BY <1>2, <1>3 DEF JobsAge, JobsKept
<1>5. JobsShape' /\ LatestIsActive' /\ JobsLive
  BY <1>4, ShapeAges, AgeLives
<1>6. ObligationIsKept'
  BY <1>3, DebtStays
<1>7. JobEvidence'
  BY <1>2 DEF PInv, JobEvidence
<1>8. Asked'
  BY <1>4, AskedStays
<1> QED BY <1>8, <1>2, <1>4, <1>5, <1>6, <1>7 DEF DataOK

\* What a checkpoint and the end of the storage stage write.
Checkpointed(a, p, d) == [a EXCEPT !.checkpoint = p, !.stale = FALSE, !.deleted = d]

Advanced(a, d) ==
    [a EXCEPT !.status = "PENDING", !.stage = "DATABASE", !.deleted = d, !.attempt = 0,
              !.worker = Nobody, !.stale = FALSE, !.due = TRUE]

LEMMA CheckpointWrite ==
  ASSUME NEW a \in JobState, JobOK(a), a.status = "PROCESSING",
         NEW p \in Nat, NEW d \in SUBSET Objects
  PROVE  LET b == Checkpointed(a, p, d) IN
         /\ Aged(a, b) /\ KeepsDebt(a, b) /\ Kept(a, b)
         /\ b.of = a.of /\ b.expected = a.expected /\ b.stage = a.stage
         /\ b.checkpoint = p /\ b.deleted = d
<1> DEFINE b == Checkpointed(a, p, d)
<1>1. /\ b \in JobState /\ b.of = a.of /\ b.expected = a.expected
      /\ b.stage = a.stage /\ b.checkpoint = p /\ b.deleted = d
      /\ b.status = a.status /\ b.mode = a.mode
  BY DEF Checkpointed, JobState
<1> HIDE DEF b
<1>2. Aged(a, b) /\ KeepsDebt(a, b) /\ Kept(a, b)
  BY <1>1 DEF Aged, KeepsDebt, Kept, JobOK, ActiveStatus, Terminal
<1> QED BY <1>1, <1>2 DEF b

LEMMA AdvanceWrite ==
  ASSUME NEW a \in JobState, JobOK(a), a.status = "PROCESSING", NEW d \in SUBSET Objects
  PROVE  LET b == Advanced(a, d) IN
         /\ Aged(a, b) /\ KeepsDebt(a, b) /\ Kept(a, b)
         /\ b.of = a.of /\ b.expected = a.expected
         /\ b.checkpoint = a.checkpoint /\ b.deleted = d
<1> DEFINE b == Advanced(a, d)
<1>1. 0 \in 0..MaxAttempts
  OBVIOUS
<1>2. /\ b \in JobState /\ b.of = a.of /\ b.expected = a.expected
      /\ b.stage = "DATABASE" /\ b.checkpoint = a.checkpoint /\ b.deleted = d
      /\ b.status = "PENDING" /\ b.mode = a.mode
  BY <1>1 DEF Advanced, JobState, ActiveStatus
<1> HIDE DEF b
<1>3. Aged(a, b) /\ KeepsDebt(a, b) /\ Kept(a, b)
  BY <1>2 DEF Aged, KeepsDebt, Kept, JobOK, ActiveStatus, Terminal
<1> QED BY <1>2, <1>3 DEF b

LEMMA CheckpointKeeps ==
  ASSUME PInv, NEW w \in Workers, NEW answered \in BOOLEAN, CheckpointPage(w, answered)
  PROVE  PInv' /\ JobsKept
<1> DEFINE j == worker[w].job
           s == worker[w].scan
           todo == {o \in worker[w].todo : PageOf[o] > worker[w].page}
           d == UpTo(jobs[j].expected, worker[w].page)
           a == Checkpointed(jobs[j], worker[w].page, d)
<1>1. /\ worker[w].pc = "erasing" /\ worker[w].pc \in Attempting /\ PageDone(w)
      /\ UNCHANGED rows /\ UNCHANGED store
      /\ IF Leased(w) THEN SetJob(j, a) ELSE UNCHANGED jobs
  BY DEF CheckpointPage, Attempting, Checkpointed
<1>2. PICK page \in FirstPage(todo) : After(w, answered, Erasing(w, todo, page))
  BY DEF CheckpointPage
<1>3. /\ j \in JobIds /\ s \in Scans /\ jobs[j].of \in {s, NoScan}
      /\ store[s] \subseteq worker[w].todo /\ rows[s].requested
      /\ \A o \in worker[w].todo : worker[w].page <= PageOf[o]
  BY <1>1, LeasedJob DEF PInv, WorkersOK, ErasingOK
<1>4. store[s] \subseteq todo /\ todo \in SUBSET Objects
  <2>1. \A o \in worker[w].todo : o \in Objects /\ PageOf[o] # worker[w].page
    BY <1>1, PurgeTyped DEF PageDone
  <2>2. \A o \in worker[w].todo : PageOf[o] > worker[w].page
    BY <1>3, <2>1, PurgeTyped
  <2> QED BY <1>3, <2>1, <2>2
<1>5. StoreShrinks
  BY <1>1, StoreRests
<1>6. DataOK
  <2>1. CASE ~Leased(w)
    BY <1>1, <1>5, <2>1, JobsRest, MoveIsData
  <2>2. CASE Leased(w)
    <3>1. /\ jobs[j] \in JobState /\ JobOK(jobs[j]) /\ jobs[j].status = "PROCESSING"
          /\ worker[w].page \in Nat /\ d \in SUBSET Objects
      BY <1>1, <1>3, <2>2, ActiveJob, LeasedJob, PurgeTyped DEF UpTo
    <3>2. d \cap store[s] = {}
      <4>1. \A o \in d : ~(PageOf[o] > worker[w].page)
        BY <3>1, PurgeTyped DEF UpTo
      <4> QED BY <1>4, <4>1
    <3>3. UpTo(jobs[j].expected, worker[w].page) \subseteq d
      OBVIOUS
    <3>4. jobs[j].of # NoScan =>
             (jobs[j].stage \in {"DATABASE", "COMPLETE"} => store[jobs[j].of] = {})
      BY <1>3 DEF PInv, JobEvidence
    <3> HIDE DEF j, d
    <3>5. /\ Aged(jobs[j], a) /\ KeepsDebt(jobs[j], a) /\ Kept(jobs[j], a)
          /\ a.of = jobs[j].of /\ a.expected = jobs[j].expected /\ a.stage = jobs[j].stage
          /\ a.checkpoint = worker[w].page /\ a.deleted = d
      BY <3>1, CheckpointWrite
    <3>6. /\ rows' \in [Scans -> RowState] /\ BooksKeepTheirReceipt' /\ RowEvidence'
          /\ \A t \in Scans : rows'[t] = rows[t]
      BY <1>1 DEF PInv, PurgeTypeOK, BooksKeepTheirReceipt, RowEvidence
    <3> HIDE DEF a
    <3> QED BY <1>1, <1>3, <2>2, <3>2, <3>3, <3>4, <3>5, <3>6, JobStep, RowsRest
  <2> QED BY <2>1, <2>2
<1>7. Sound(w, Erasing(w, todo, page))
  <2> DEFINE st == Erasing(w, todo, page)
  <2>1. page \in Nat
    BY <1>4, FirstPageIsFirst
  <2>2. /\ st \in PurgeWorkerState /\ st.pc = "erasing" /\ st.job = j
        /\ st.todo = todo /\ st.page = page /\ st.scan = s
    <3>1. worker[w] \in PurgeWorkerState
      BY PurgeTyped
    <3> HIDE DEF todo
    <3> QED BY <1>4, <2>1, <3>1 DEF Erasing, PurgeWorkerState, Attempting
  <2> HIDE DEF st, todo
  <2>3. Sound(w, st)
    BY <1>1, <1>3, <1>4, <1>5, <1>6, <2>2, ErasingIsSound DEF DataOK
  <2> QED BY <2>3 DEF st
<1> HIDE DEF todo
<1> QED BY <1>1, <1>2, <1>5, <1>6, <1>7, AfterStep

LEMMA AdvanceKeeps ==
  ASSUME PInv, NEW w \in Workers, NEW answered \in BOOLEAN, AdvanceStage(w, answered)
  PROVE  PInv' /\ JobsKept
<1> DEFINE j == worker[w].job
           s == worker[w].scan
           d == jobs[j].expected
           a == Advanced(jobs[j], d)
<1>1. /\ worker[w].pc = "erasing" /\ worker[w].pc \in Attempting /\ worker[w].page = 0
      /\ UNCHANGED rows /\ UNCHANGED store
      /\ IF Leased(w) THEN SetJob(j, a) ELSE UNCHANGED jobs
      /\ After(w, answered, IdlePurger)
  BY DEF AdvanceStage, Attempting, Advanced
<1>2. j \in JobIds /\ s \in Scans /\ jobs[j].of \in {s, NoScan} /\ store[s] = {}
  BY <1>1, LeasedJob DEF PInv, WorkersOK, ErasingOK
<1>3. StoreShrinks
  BY <1>1, StoreRests
<1>4. DataOK
  <2>1. CASE ~Leased(w)
    BY <1>1, <1>3, <2>1, JobsRest, MoveIsData
  <2>2. CASE Leased(w)
    <3>1. /\ jobs[j] \in JobState /\ JobOK(jobs[j]) /\ jobs[j].status = "PROCESSING"
          /\ d \in SUBSET Objects /\ jobs[j].checkpoint \in Nat
          /\ UpTo(jobs[j].expected, jobs[j].checkpoint) \subseteq d
      BY <1>1, <1>2, <2>2, ActiveJob, LeasedJob, PurgeTyped DEF UpTo
    <3> HIDE DEF j, d
    <3>2. /\ Aged(jobs[j], a) /\ KeepsDebt(jobs[j], a) /\ Kept(jobs[j], a)
          /\ a.of = jobs[j].of /\ a.expected = jobs[j].expected
          /\ a.checkpoint = jobs[j].checkpoint /\ a.deleted = d
      BY <3>1, AdvanceWrite
    <3>3. /\ rows' \in [Scans -> RowState] /\ BooksKeepTheirReceipt' /\ RowEvidence'
          /\ \A t \in Scans : rows'[t] = rows[t]
      BY <1>1 DEF PInv, PurgeTypeOK, BooksKeepTheirReceipt, RowEvidence
    <3> HIDE DEF a
    <3> QED BY <1>1, <1>2, <2>2, <3>1, <3>2, <3>3, JobStep, RowsRest
  <2> QED BY <2>1, <2>2
<1>5. Sound(w, IdlePurger)
  BY <1>4, IdleIsLight, LightIsSound DEF DataOK
<1> QED BY <1>1, <1>3, <1>4, <1>5, AfterStep

-----------------------------------------------------------------------------
(* The database stage.                                                     *)

LEMMA CompletedWrite ==
  ASSUME NEW a \in JobState, JobOK(a), a.status = "PROCESSING"
  PROVE  LET b == Completed(a)
             c == [b EXCEPT !.of = NoScan] IN
         /\ Aged(a, b) /\ Kept(a, b)
         /\ b.of = a.of /\ b.expected = a.expected /\ b.deleted = a.deleted
         /\ b.checkpoint = a.checkpoint
         /\ Aged(a, c) /\ Kept(a, c) /\ c.of = NoScan
<1> DEFINE b == Completed(a)
           c == [b EXCEPT !.of = NoScan]
<1>1. /\ b \in JobState /\ b.of = a.of /\ b.expected = a.expected /\ b.deleted = a.deleted
      /\ b.checkpoint = a.checkpoint /\ b.status = "COMPLETE" /\ b.stage = "COMPLETE"
  BY DEF Completed, JobState, Terminal
<1> HIDE DEF b
<1>2. c \in JobState /\ c.of = NoScan /\ c.status = "COMPLETE" /\ c.stage = "COMPLETE"
  BY <1>1 DEF JobState
<1> HIDE DEF c
<1>3. Aged(a, b) /\ Kept(a, b) /\ Aged(a, c) /\ Kept(a, c)
  BY <1>1, <1>2 DEF Aged, Kept, JobOK, ActiveStatus, Terminal
<1> QED BY <1>1, <1>2, <1>3 DEF b, c

LEMMA RemoveKeeps ==
  ASSUME PInv, NEW w \in Workers, NEW answered \in BOOLEAN, RemoveTarget(w, answered)
  PROVE  PInv' /\ JobsKept
<1> DEFINE j == worker[w].job
           job == jobs[j]
           s == job.of
           orphaning == [IdlePurger EXCEPT !.pc = "orphaning", !.scan = s]
<1>1. /\ worker[w].pc \in Attempting /\ worker[w].stage = "DATABASE"
      /\ Leased(w) /\ Removable(job) /\ UNCHANGED store
      /\ After(w, answered, IF s # NoScan /\ job.mode = "DETACH_EVIDENCE"
                            THEN orphaning ELSE IdlePurger)
  BY DEF RemoveTarget, Attempting
<1>2. StoreShrinks
  BY <1>1, StoreRests
<1>3. /\ j \in JobIds /\ job \in JobState /\ JobOK(job) /\ job.status = "PROCESSING"
      /\ job.stage = "DATABASE" /\ s \in Scans \cup {NoScan}
  BY <1>1, LeasedJob, PurgeTyped DEF Leased
<1>4. s # NoScan => /\ s \in Scans /\ store[s] = {}
                    /\ job.deleted \cap store[s] = {}
                    /\ UpTo(job.expected, job.checkpoint) \subseteq job.deleted
  BY <1>3 DEF PInv, JobEvidence
<1>5. DataOK
  <2>1. CASE s = NoScan /\ SetJob(j, Completed(job)) /\ UNCHANGED rows
    <3>1. /\ rows' \in [Scans -> RowState] /\ BooksKeepTheirReceipt' /\ RowEvidence'
          /\ \A t \in Scans : rows'[t] = rows[t]
      BY <1>1, <2>1 DEF PInv, PurgeTypeOK, BooksKeepTheirReceipt, RowEvidence
    <3>2. /\ Aged(job, Completed(job)) /\ Kept(job, Completed(job))
          /\ Completed(job).of = NoScan
      BY <1>3, <2>1, CompletedWrite
    <3> HIDE DEF j
    <3> QED BY <1>1, <1>3, <2>1, <3>1, <3>2, JobStep, RowsRest
  <2>2. CASE /\ s # NoScan /\ job.mode = "DELETE_SCAN"
             /\ jobs' = [Unlinked(s) EXCEPT ![j] = [Completed(job) EXCEPT !.of = NoScan]]
             /\ SetRow(s, [rows[s] EXCEPT !.status = "Gone"])
    <3> DEFINE row == [rows[s] EXCEPT !.status = "Gone"]
               last == [Completed(job) EXCEPT !.of = NoScan]
    <3>1. /\ row \in RowState /\ row.status = "Gone" /\ row.records = 0
          /\ RowAsked(row) /\ (rows[s].requested => row.requested)
      <4>1. /\ rows[s] \in RowState /\ rows[s].requested /\ rows[s].records = 0
            /\ RowAsked(rows[s])
        BY <1>1, <1>4, <2>2, PurgeTyped, RowFacts DEF Removable
      <4>2. /\ row \in RowState /\ row.status = "Gone" /\ row.records = 0
            /\ row.requested = rows[s].requested
        BY <4>1 DEF RowState
      <4> QED BY <4>1, <4>2 DEF RowAsked
    <3>2. Aged(job, last) /\ Kept(job, last) /\ last.of = NoScan
      BY <1>3, CompletedWrite
    <3> HIDE DEF last, row
    <3>3. \A i \in JobIds :
             jobs'[i] = IF i = j THEN last
                        ELSE IF jobs[i].of = s THEN [jobs[i] EXCEPT !.of = NoScan] ELSE jobs[i]
      BY <2>2 DEF Unlinked, last
    <3>4. \A i \in JobIds : /\ Aged(jobs[i], jobs'[i]) /\ Kept(jobs[i], jobs'[i])
                            /\ jobs[i].of = s => jobs'[i].of = NoScan
                            /\ jobs[i].of # s => jobs'[i] = jobs[i]
      <4>1. \A i \in JobIds :
               /\ Aged(jobs[i], jobs[i]) /\ Kept(jobs[i], jobs[i])
               /\ Aged(jobs[i], [jobs[i] EXCEPT !.of = NoScan])
               /\ Kept(jobs[i], [jobs[i] EXCEPT !.of = NoScan])
               /\ [jobs[i] EXCEPT !.of = NoScan].of = NoScan
        BY NotMoved, UnlinkWrite, PurgeTyped DEF Moved
      <4> TAKE i \in JobIds
      <4>2. CASE i = j
        BY <1>3, <3>2, <3>3, <4>2
      <4>3. CASE i # j /\ jobs[i].of = s
        BY <3>3, <4>1, <4>3
      <4>4. CASE i # j /\ jobs[i].of # s
        BY <3>3, <4>1, <4>4
      <4> QED BY <4>2, <4>3, <4>4
    <3>5. jobs' \in [JobIds -> JobState]
      <4>1. \A i \in JobIds : jobs'[i] \in JobState
        BY <3>4 DEF Aged
      <4>2. jobs' = [i \in JobIds |-> jobs'[i]]
        BY <2>2 DEF Unlinked
      <4> QED BY <4>1, <4>2
    <3>6. Unlinks(s)
      BY <3>4, <3>5 DEF Unlinks, JobsAge, JobsKept
    <3>7. SetRow(s, row)
      BY <2>2 DEF row
    <3> QED BY <1>1, <1>4, <2>2, <3>1, <3>6, <3>7, VanishStep
  <2>3. CASE /\ s # NoScan /\ job.mode # "DELETE_SCAN" /\ SetJob(j, Completed(job))
             /\ SetRow(s, [rows[s] EXCEPT !.erased = TRUE])
    <3> DEFINE row == [rows[s] EXCEPT !.erased = TRUE]
    <3>1. /\ row \in RowState /\ row.status = rows[s].status /\ row.records = rows[s].records
          /\ RowAsked(row) /\ (rows[s].requested => row.requested)
      <4>1. /\ rows[s] \in RowState /\ rows[s].requested /\ RowAsked(rows[s])
        BY <1>1, <1>4, <2>3, PurgeTyped, RowFacts DEF Removable
      <4>2. /\ row \in RowState /\ row.status = rows[s].status /\ row.records = rows[s].records
            /\ row.requested = rows[s].requested
        BY <4>1 DEF RowState
      <4> QED BY <4>1, <4>2 DEF RowAsked
    <3>2. SetRow(s, row)
      BY <2>3
    <3> HIDE DEF row
    <3>3. /\ rows' \in [Scans -> RowState] /\ BooksKeepTheirReceipt' /\ RowEvidence'
          /\ rows'[s] = row /\ \A t \in Scans : t # s => rows'[t] = rows[t]
          /\ RequestsStay /\ \A t \in Scans : RowAsked(rows'[t])
      BY <1>2, <1>4, <2>3, <3>1, <3>2, RowFacts, RowKeeps
    <3>4. /\ Aged(job, Completed(job)) /\ Kept(job, Completed(job))
          /\ Completed(job).of = s /\ Completed(job).deleted = job.deleted
          /\ Completed(job).expected = job.expected
          /\ Completed(job).checkpoint = job.checkpoint
      BY <1>3, CompletedWrite
    <3>5. KeepsDebt(job, Completed(job))
      BY <2>3 DEF KeepsDebt
    <3> HIDE DEF j
    <3> QED BY <1>1, <1>3, <1>4, <2>3, <3>1, <3>3, <3>4, <3>5, JobStep, RowsRest
  <2> QED BY <2>1, <2>2, <2>3 DEF RemoveTarget
<1>6. Sound(w, IdlePurger)
  BY <1>5, IdleIsLight, LightIsSound DEF DataOK
<1>7. s # NoScan => Sound(w, orphaning)
  <2> SUFFICES ASSUME s # NoScan PROVE Sound(w, orphaning)
    OBVIOUS
  <2>1. IdlePurger \in PurgeWorkerState
    BY IdleIsLight DEF Light
  <2>2. orphaning \in PurgeWorkerState /\ orphaning.pc = "orphaning" /\ orphaning.scan = s
    <3>1. s \in Scans
      BY <1>4
    <3> HIDE DEF s
    <3> QED BY <2>1, <3>1 DEF PurgeWorkerState
  <2> HIDE DEF orphaning
  <2> QED BY <1>4, <2>2 DEF Sound, AttemptOK, ErasingOK, OrphaningOK, Attempting
<1> HIDE DEF orphaning
<1>8. CASE s # NoScan /\ job.mode = "DETACH_EVIDENCE"
  <2>1. After(w, answered, orphaning)
    BY <1>1, <1>8
  <2> QED BY <1>1, <1>2, <1>5, <1>7, <1>8, <2>1, AfterStep
<1>9. CASE ~(s # NoScan /\ job.mode = "DETACH_EVIDENCE")
  <2>1. After(w, answered, IdlePurger)
    BY <1>1, <1>9
  <2> QED BY <1>1, <1>2, <1>5, <1>6, <2>1, AfterStep
<1> QED BY <1>8, <1>9

LEMMA OrphanKeeps ==
  ASSUME PInv, NEW w \in Workers, PurgeDetachedOrphan(w)
  PROVE  PInv' /\ JobsKept
<1> DEFINE s == worker[w].scan
<1>1. /\ s \in Scans /\ Become(w, IdlePurger) /\ UNCHANGED store /\ UNCHANGED faults
  BY DEF PurgeDetachedOrphan, PInv, WorkersOK, OrphaningOK
<1>2. StoreShrinks
  BY <1>1, StoreRests
<1>3. DataOK
  <2>1. CASE UNCHANGED <<rows, jobs>>
    BY <1>2, <2>1, JobsRest, MoveIsData
  <2>2. CASE rows[s].status # "Gone" /\ PurgeIfOrphaned(s, rows[s])
    <3> HIDE DEF s
    <3> QED BY <1>1, <2>2, PurgeTyped, PurgeIfOrphanedStep
  <2> QED BY <2>1, <2>2 DEF PurgeDetachedOrphan
<1> QED BY <1>1, <1>2, <1>3, IdleIsLight, LightIsSound, WorkerStep DEF DataOK

LEMMA GiveUpKeeps ==
  ASSUME PInv, NEW w \in Workers, NothingToPurge(w) \/ RefuseTarget(w) \/ CallFails(w)
  PROVE  PInv' /\ JobsKept
<1>1. Light(w, IdlePurger)
  BY IdleIsLight
<1>2. worker[w].pc \in Attempting => Light(w, [worker[w] EXCEPT !.pc = "failing"])
  BY FailingIsLight
<1>3. CASE NothingToPurge(w)
  BY <1>1, <1>3, JobsRest, LightMove DEF NothingToPurge
<1>4. CASE RefuseTarget(w)
  BY <1>1, <1>2, <1>4, JobsRest, LightMove DEF RefuseTarget, Attempting
<1>5. CASE CallFails(w)
  BY <1>1, <1>2, <1>5, JobsRest, LightMove DEF CallFails, Attempting
<1> QED BY <1>3, <1>4, <1>5

-----------------------------------------------------------------------------
(* The invariant.                                                          *)

LEMMA PInvInit == PurgeInit => PInv
<1> SUFFICES ASSUME PurgeInit PROVE PInv
  OBVIOUS
<1>1. PurgeTypeOK
  <2>1. rows \in [Scans -> RowState]
    BY DEF PurgeInit, RowState
  <2>2. jobs \in [JobIds -> JobState]
    BY UnusedJobType DEF PurgeInit
  <2>3. worker \in [Workers -> PurgeWorkerState] /\ store \in [Scans -> SUBSET Objects]
    BY DEF PurgeInit, IdlePurger, PurgeWorkerState, Attempting
  <2>4. faults \in 0..MaxFaults
    BY DEF PurgeInit
  <2> QED BY <2>1, <2>2, <2>3, <2>4 DEF PurgeTypeOK
<1>2. \A j \in JobIds : /\ jobs[j].status = "UNUSED" /\ jobs[j].of = NoScan
                        /\ jobs[j].stage = "STORAGE"
  BY DEF PurgeInit, UnusedJob
<1>3. JobsShape /\ LatestIsActive /\ JobEvidence
  BY <1>2 DEF JobsShape, LatestIsActive, JobEvidence, Active
<1>4. \A s \in Scans : rows[s].status = "Pending" /\ ~rows[s].erased /\ rows[s].records = 0
  BY DEF PurgeInit
<1>5. BooksKeepTheirReceipt /\ ObligationIsKept /\ RowEvidence
  <2>1. BooksKeepTheirReceipt
    BY <1>4 DEF BooksKeepTheirReceipt
  <2>2. ObligationIsKept /\ RowEvidence
    BY <1>4, Zenon DEF ObligationIsKept, RowEvidence
  <2> QED BY <2>1, <2>2
<1>7. Asked
  BY <1>2 DEF PurgeInit, Asked, RowAsked
<1>6. WorkersOK
  BY DEF PurgeInit, IdlePurger, WorkersOK, AttemptOK, ErasingOK, OrphaningOK, Attempting
<1> QED BY <1>1, <1>3, <1>5, <1>6, <1>7 DEF PInv

LEMMA PInvNext == PInv /\ [PurgeNext]_purgeVars => PInv' /\ JobsKept
<1> SUFFICES ASSUME PInv, [PurgeNext]_purgeVars PROVE PInv' /\ JobsKept
  OBVIOUS
<1>1. ASSUME NEW w \in Workers, PurgerNext(w) PROVE PInv' /\ JobsKept
  <2>1. CASE StorageStep(w)
    BY <2>1, ReadKeeps, DeleteKeeps, CheckpointKeeps, AdvanceKeeps DEF StorageStep
  <2>2. CASE DatabaseStep(w)
    BY <2>2, RemoveKeeps, GiveUpKeeps, OrphanKeeps DEF DatabaseStep
  <2>3. CASE TidyJobs(w)
    BY <2>3, TidyKeeps
  <2>4. ASSUME NEW j \in JobIds, NEW answered \in BOOLEAN, ClaimPurge(w, j, answered)
        PROVE  PInv' /\ JobsKept
    BY <2>4, ClaimKeeps
  <2>5. CASE NothingToPurge(w) \/ CallFails(w)
    BY <2>5, GiveUpKeeps
  <2>6. CASE HeartbeatPurge(w)
    BY <2>6, HeartbeatKeeps
  <2>7. CASE RecordPurgeFailure(w)
    BY <2>7, FailureKeeps
  <2>8. CASE CrashPurger(w)
    BY <2>8, CrashKeeps
  <2> QED BY <1>1, <2>1, <2>2, <2>3, <2>4, <2>5, <2>6, <2>7, <2>8 DEF PurgerNext
<1>2. CASE RequestNext
  BY <1>2, RequestKeeps
<1>3. CASE PurgeTick
  BY <1>3, TickKeeps
<1>4. CASE UNCHANGED purgeVars
  <2>1. UNCHANGED <<rows, store, jobs, worker, faults>>
    BY <1>4 DEF purgeVars
  <2>2. DataOK
    BY <2>1, JobsRest, StoreRests, MoveIsData
  <2> QED BY <2>1, <2>2, DataKeeps
<1> QED BY <1>1, <1>2, <1>3, <1>4 DEF PurgeNext

LEMMA PInvAlways == PurgeSpec => []PInv
<1>1. PInv /\ [PurgeNext]_purgeVars => PInv'
  BY PInvNext
<1> QED BY PInvInit, <1>1, PTL DEF PurgeSpec

-----------------------------------------------------------------------------
(* The theorems.                                                           *)

\* Every row, job and process keeps its type: no attempt goes beyond
\* MAX_PURGE_ATTEMPTS and no process reads a stage that cannot be worked on.
THEOREM PurgeTypes == PurgeSpec => []PurgeTypeOK
<1>1. PInv => PurgeTypeOK
  BY DEF PInv
<1> QED BY <1>1, PInvAlways, PTL

\* Whatever requests, sweeps and workers meet on a scan, it never has two
\* active jobs.
THEOREM OneJob == PurgeSpec => []OneJobAtATime
<1>1. PInv => OneJobAtATime
  <2> SUFFICES ASSUME PInv, NEW s \in Scans, NEW i \in JobsOf(s), NEW j \in JobsOf(s),
                      Active(i), Active(j)
               PROVE  i = j
    BY DEF OneJobAtATime
  <2>1. i \in JobIds /\ j \in JobIds /\ jobs[i].of = s /\ jobs[j].of = s
    BY DEF JobsOf
  <2>2. i <= j /\ j <= i
    BY <2>1 DEF PInv, LatestIsActive
  <2> QED BY <2>1, <2>2, JobIsNat
<1> QED BY <1>1, PInvAlways, PTL

\* No row goes, or says its evidence is gone, before its images are, and no
\* checkpoint runs ahead of the store.
THEOREM EvidenceFirst == PurgeSpec => []EvidenceGoesFirst
<1>1. PInv => EvidenceGoesFirst
  BY DEF PInv, EvidenceGoesFirst, RowEvidence, JobEvidence
<1> QED BY <1>1, PInvAlways, PTL

\* A scan on its way out always has a job that owes the deletion.
THEOREM Obligation == PurgeSpec => []ObligationIsKept
<1>1. PInv => ObligationIsKept
  BY DEF PInv
<1> QED BY <1>1, PInvAlways, PTL

\* A receipt that records name is never condemned.
THEOREM Books == PurgeSpec => []BooksKeepTheirReceipt
<1>1. PInv => BooksKeepTheirReceipt
  BY DEF PInv
<1> QED BY <1>1, PInvAlways, PTL

\* A job that ended stays as it ended.
THEOREM Final == PurgeSpec => TerminalIsFinal
<1>1. PInv /\ [PurgeNext]_purgeVars =>
         [\A j \in JobIds :
            jobs[j].status \in Terminal =>
               \/ jobs'[j].status = "EXPIRED"
               \/ /\ jobs'[j].status = jobs[j].status
                  /\ jobs'[j].checkpoint = jobs[j].checkpoint
                  /\ jobs'[j].attempt = jobs[j].attempt]_purgeVars
  BY PInvNext DEF JobsKept, Kept
<1> QED BY <1>1, PInvAlways, PTL DEF PurgeSpec, TerminalIsFinal

===============================================================================
