------------------------- MODULE ReceiptErasureProofs -------------------------
(***************************************************************************)
(* That ReceiptPurge implements ReceiptErasure, for any scans, workers and *)
(* images: each step of an owner, a sweep, a worker or the clock is one    *)
(* step of the promised erasure, or none.  PInv says what a step may rely  *)
(* on: an image is deleted only for a scan somebody asked to erase, and a  *)
(* row goes only when no image of it is left.                              *)
(***************************************************************************)
EXTENDS ReceiptPurgeProofs

fates == [s \in Scans |-> Fate(s)]

FateOf(row) ==
    CASE row.status = "Gone" -> "gone"
      [] row.status = "Deletion Pending" -> "condemned"
      [] row.requested /\ row.status = "Confirmed" -> "detaching"
      [] OTHER -> "held"

\* The ways one fate may follow another; all but the last leave images be.
MayTurn(s, from, to) ==
    \/ to = from
    \/ from = "held" /\ to = "detaching"
    \/ from \in {"held", "detaching"} /\ to = "condemned"
    \/ from \in {"detaching", "condemned"} /\ to = "gone" /\ store[s] = {}

ErasureStep == [Erasure!ErasureNext]_(Erasure!erasureVars)

LEMMA FateIs == \A s \in Scans : Fate(s) = FateOf(rows[s]) /\ Fate(s)' = FateOf(rows'[s])
  BY DEF Fate, FateOf

\* One row changes and no image goes.
LEMMA TurnStep ==
  ASSUME PInv, UNCHANGED store, NEW s \in Scans, NEW row \in RowState, SetRow(s, row),
         MayTurn(s, FateOf(rows[s]), FateOf(row))
  PROVE  ErasureStep
<1>1. rows'[s] = row /\ \A t \in Scans : t # s => rows'[t] = rows[t]
  BY DEF PInv, PurgeTypeOK, SetRow
<1>2. fates' = [fates EXCEPT ![s] = FateOf(row)] /\ fates[s] = FateOf(rows[s])
  BY <1>1, FateIs DEF fates
<1>3. CASE FateOf(row) = FateOf(rows[s])
  <2>1. fates' = fates
    BY <1>2, <1>3 DEF fates
  <2> QED BY <2>1 DEF ErasureStep, Erasure!erasureVars, fates
<1>4. CASE FateOf(rows[s]) = "held" /\ FateOf(row) = "detaching"
  <2>1. Erasure!Release(s)
    BY <1>2, <1>4 DEF Erasure!Release, Erasure!Turn, fates
  <2> QED BY <2>1 DEF ErasureStep, Erasure!ErasureNext
<1>5. CASE FateOf(rows[s]) \in {"held", "detaching"} /\ FateOf(row) = "condemned"
  <2>1. Erasure!Condemn(s)
    BY <1>2, <1>5 DEF Erasure!Condemn, Erasure!Turn, fates
  <2> QED BY <2>1 DEF ErasureStep, Erasure!ErasureNext
<1>6. CASE FateOf(rows[s]) \in {"detaching", "condemned"} /\ FateOf(row) = "gone" /\ store[s] = {}
  <2>1. Erasure!Vanish(s)
    BY <1>2, <1>6 DEF Erasure!Vanish, Erasure!Turn, fates
  <2> QED BY <2>1 DEF ErasureStep, Erasure!ErasureNext
<1> QED BY <1>3, <1>4, <1>5, <1>6 DEF MayTurn

LEMMA RestStep == ASSUME UNCHANGED <<rows, store>> PROVE ErasureStep
<1>1. fates' = fates
  BY DEF fates, Fate
<1> QED BY <1>1 DEF ErasureStep, Erasure!erasureVars, fates

\* The row a request writes.
LEMMA ScheduleTurns ==
  ASSUME PInv, UNCHANGED store, NEW s \in Scans, NEW row \in RowState, NEW mode \in Modes,
         NEW origin, Schedule(s, row, mode, origin),
         row.status = rows[s].status, row.requested <=> rows[s].requested,
         \/ mode = "DELETE_SCAN" /\ row.status # "Gone"
         \/ row.status = "Confirmed"
  PROVE  ErasureStep
<1>1. SetRow(s, RowFor(row, mode))
  BY DEF Schedule, RowFor
<1>2. /\ RowFor(row, mode) \in RowState /\ RowFor(row, mode).requested
      /\ mode = "DELETE_SCAN" => RowFor(row, mode).status = "Deletion Pending"
      /\ mode # "DELETE_SCAN" => RowFor(row, mode).status = row.status
  BY RequestedRow
<1>3. rows[s].status \in {"Pending", "Confirmed", "Deletion Pending", "Gone"}
  BY PurgeTyped DEF RowState
<1>4. MayTurn(s, FateOf(rows[s]), FateOf(RowFor(row, mode)))
  BY <1>2, <1>3 DEF MayTurn, FateOf
<1> QED BY <1>1, <1>2, <1>4, TurnStep

LEMMA OrphanTurns ==
  ASSUME PInv, UNCHANGED store, NEW s \in Scans, NEW row \in RowState,
         PurgeIfOrphaned(s, row), row.status = rows[s].status,
         row.requested <=> rows[s].requested, row.erased <=> rows[s].erased
  PROVE  ErasureStep
<1>1. CASE SetRow(s, row)
  BY <1>1, TurnStep DEF MayTurn, FateOf
<1>2. CASE Orphaned(s, row) /\ row.erased /\ SetRow(s, [row EXCEPT !.status = "Gone"])
  <2> DEFINE new == [row EXCEPT !.status = "Gone"]
  <2>1. new \in RowState /\ new.status = "Gone"
    BY DEF RowState
  <2>2. rows[s].status = "Confirmed" /\ rows[s].requested /\ store[s] = {}
    BY <1>2, RowFacts DEF Orphaned, RowAsked
  <2>3. SetRow(s, new)
    BY <1>2
  <2> HIDE DEF new
  <2>4. MayTurn(s, FateOf(rows[s]), FateOf(new))
    BY <2>1, <2>2 DEF MayTurn, FateOf
  <2> QED BY <2>1, <2>3, <2>4, TurnStep
<1>3. CASE Orphaned(s, row) /\ Schedule(s, row, "DELETE_SCAN", "orphan")
  BY <1>3, ScheduleTurns DEF Orphaned, Modes
<1> QED BY <1>1, <1>2, <1>3 DEF PurgeIfOrphaned

LEMMA RequestRefines == ASSUME PInv, RequestNext PROVE ErasureStep
<1>1. ASSUME NEW s \in Scans, NEW n \in 1..MaxRecords, Confirm(s, n) PROVE ErasureStep
  <2> DEFINE row == [rows[s] EXCEPT !.status = "Confirmed", !.records = n]
  <2>1. n \in 0..MaxRecords
    OBVIOUS
  <2>2. /\ row \in RowState /\ row.status = "Confirmed"
        /\ row.requested <=> rows[s].requested
    BY <2>1, PurgeTyped DEF RowState
  <2>3. /\ SetRow(s, row) /\ UNCHANGED store
        /\ rows[s].status = "Pending" /\ ~rows[s].requested
    BY <1>1 DEF Confirm
  <2> HIDE DEF row
  <2>4. MayTurn(s, FateOf(rows[s]), FateOf(row))
    BY <2>2, <2>3 DEF MayTurn, FateOf
  <2> QED BY <2>2, <2>3, <2>4, TurnStep
<1>2. ASSUME NEW s \in Scans, NEW mode \in Modes, RequestPurge(s, mode) PROVE ErasureStep
  BY <1>2, ScheduleTurns, PurgeTyped DEF RequestPurge
<1>3. ASSUME NEW s \in Scans, DeleteRecord(s) PROVE ErasureStep
  <2> DEFINE row == [rows[s] EXCEPT !.records = @ - 1]
  <2>1. rows[s].records - 1 \in 0..MaxRecords
    <3>1. rows[s].records > 0 /\ rows[s].records \in 0..MaxRecords
      BY <1>3, PurgeTyped DEF DeleteRecord
    <3> QED BY <3>1, PurgeAssumption
  <2>2. /\ row \in RowState /\ row.status = rows[s].status
        /\ row.requested <=> rows[s].requested
        /\ row.erased <=> rows[s].erased
    BY <2>1, PurgeTyped DEF RowState
  <2>3. PurgeIfOrphaned(s, row) /\ UNCHANGED store
    BY <1>3 DEF DeleteRecord
  <2> HIDE DEF row
  <2> QED BY <2>2, <2>3, OrphanTurns
<1>4. ASSUME NEW s \in Scans, SweepAbandoned(s) PROVE ErasureStep
  BY <1>4, ScheduleTurns, PurgeTyped DEF SweepAbandoned, Modes
<1>5. ASSUME NEW s \in Scans, Redrive(s) PROVE ErasureStep
  BY <1>5, ScheduleTurns, PurgeTyped DEF Redrive, BurnedOut, Modes
<1> QED BY <1>1, <1>2, <1>3, <1>4, <1>5 DEF RequestNext

\* Deleting an image that is there is EraseImage; one that is gone stays gone.
LEMMA DeleteRefines ==
  ASSUME PInv, NEW w \in Workers, NEW o \in Objects, DeleteImage(w, o)
  PROVE  ErasureStep
<1> DEFINE s == worker[w].scan
<1>1. /\ s \in Scans /\ rows[s].requested
      /\ UNCHANGED rows /\ store' = [store EXCEPT ![s] = @ \ {o}]
  BY DEF DeleteImage, PInv, WorkersOK, ErasingOK
<1>2. fates' = fates
  BY <1>1 DEF fates, Fate
<1>3. CASE rows[s].status = "Gone"
  <2>1. store[s] = {}
    BY <1>1, <1>3 DEF PInv, RowEvidence
  <2>2. store' = store
    BY <1>1, <2>1 DEF PInv, PurgeTypeOK
  <2> QED BY <1>1, <2>2, RestStep
<1>4. CASE rows[s].status # "Gone"
  <2>1. rows[s].status \in {"Confirmed", "Deletion Pending"}
    BY <1>1, <1>4, PurgeTyped DEF PInv, Asked, RowAsked, RowState
  <2>2. fates[s] \in {"detaching", "condemned"}
    BY <1>1, <2>1 DEF fates, Fate
  <2> HIDE DEF s
  <2>3. Erasure!EraseImage(s, o)
    BY <1>1, <1>2, <2>2 DEF Erasure!EraseImage, fates
  <2> QED BY <1>1, <2>3 DEF ErasureStep, Erasure!ErasureNext
<1> QED BY <1>3, <1>4

LEMMA RemoveRefines ==
  ASSUME PInv, NEW w \in Workers, NEW answered \in BOOLEAN, RemoveTarget(w, answered)
  PROVE  ErasureStep
<1> DEFINE job == jobs[worker[w].job]
           s == job.of
<1>1. /\ worker[w].job \in JobIds /\ Removable(job) /\ job.stage = "DATABASE" /\ UNCHANGED store
  BY LeasedJob DEF RemoveTarget, Leased, Attempting
<1>2. s # NoScan => s \in Scans /\ store[s] = {}
  BY <1>1, PurgeTyped DEF PInv, JobEvidence
<1>3. CASE UNCHANGED rows
  BY <1>1, <1>3, RestStep
<1>4. CASE s # NoScan /\ job.mode = "DELETE_SCAN" /\ SetRow(s, [rows[s] EXCEPT !.status = "Gone"])
  <2> DEFINE row == [rows[s] EXCEPT !.status = "Gone"]
  <2>1. /\ row \in RowState /\ row.status = "Gone"
        /\ rows[s].status = "Deletion Pending"
    BY <1>1, <1>2, <1>4, PurgeTyped DEF RowState, Removable
  <2>2. SetRow(s, row) /\ s \in Scans /\ store[s] = {}
    BY <1>2, <1>4
  <2> HIDE DEF row, s
  <2>3. MayTurn(s, FateOf(rows[s]), FateOf(row))
    BY <2>1, <2>2 DEF MayTurn, FateOf
  <2> QED BY <1>1, <2>1, <2>2, <2>3, TurnStep
<1>5. CASE s # NoScan /\ SetRow(s, [rows[s] EXCEPT !.erased = TRUE])
  <2> DEFINE row == [rows[s] EXCEPT !.erased = TRUE]
  <2>1. /\ row \in RowState /\ row.status = rows[s].status
        /\ row.requested <=> rows[s].requested
    BY <1>2, <1>5, PurgeTyped DEF RowState
  <2>2. SetRow(s, row) /\ s \in Scans
    BY <1>2, <1>5
  <2> HIDE DEF row, s
  <2>3. MayTurn(s, FateOf(rows[s]), FateOf(row))
    BY <2>1 DEF MayTurn, FateOf
  <2> QED BY <1>1, <2>1, <2>2, <2>3, TurnStep
<1> QED BY <1>3, <1>4, <1>5 DEF RemoveTarget

LEMMA PurgerRefines ==
  ASSUME PInv, NEW w \in Workers, PurgerNext(w)
  PROVE  ErasureStep
<1>1. CASE TidyJobs(w) \/ NothingToPurge(w) \/ HeartbeatPurge(w) \/ CallFails(w)
           \/ RecordPurgeFailure(w) \/ CrashPurger(w) \/ ReadTarget(w) \/ RefuseTarget(w)
  BY <1>1, RestStep DEF TidyJobs, NothingToPurge, HeartbeatPurge, CallFails,
     RecordPurgeFailure, CrashPurger, ReadTarget, RefuseTarget
<1>2. ASSUME NEW answered \in BOOLEAN,
             \/ CheckpointPage(w, answered) \/ AdvanceStage(w, answered)
             \/ \E j \in JobIds : ClaimPurge(w, j, answered)
      PROVE  ErasureStep
  BY <1>2, RestStep DEF CheckpointPage, AdvanceStage, ClaimPurge
<1>3. CASE PurgeDetachedOrphan(w)
  <2> DEFINE s == worker[w].scan
  <2>1. s \in Scans /\ UNCHANGED store
    BY <1>3 DEF PurgeDetachedOrphan, PInv, WorkersOK, OrphaningOK
  <2>2. UNCHANGED rows \/ PurgeIfOrphaned(s, rows[s])
    BY <1>3 DEF PurgeDetachedOrphan
  <2> HIDE DEF s
  <2> QED BY <2>1, <2>2, RestStep, OrphanTurns, PurgeTyped
<1> QED BY <1>1, <1>2, <1>3, DeleteRefines, RemoveRefines
        DEF PurgerNext, StorageStep, DatabaseStep

\* Jobs, stages, leases and re-drives do what ReceiptErasure promises: nothing
\* is erased unasked, nothing condemned comes back, nothing goes before its images.
THEOREM Refinement == PurgeSpec => ImplementsErasure
<1>1. PurgeInit => Erasure!ErasureInit
  BY DEF PurgeInit, Erasure!ErasureInit, Fate
<1>2. PInv /\ [PurgeNext]_purgeVars => [Erasure!ErasureNext]_(Erasure!erasureVars)
  <2> SUFFICES ASSUME PInv, [PurgeNext]_purgeVars PROVE ErasureStep
    BY DEF ErasureStep
  <2>1. CASE PurgeTick
    BY <2>1, RestStep DEF PurgeTick, PurgeLeaseExpires, RetryFallsDue, CooldownEnds, ResultExpires
  <2>2. CASE UNCHANGED purgeVars
    BY <2>2, RestStep DEF purgeVars
  <2> QED BY <2>1, <2>2, PurgerRefines, RequestRefines DEF PurgeNext
<1> QED BY <1>1, <1>2, PInvAlways, PTL DEF PurgeSpec, ImplementsErasure, Erasure!ErasureSpec
=============================================================================
