------------------------ MODULE ReceiptLifecycleProofs ------------------------
(***************************************************************************)
(* The receipt queue keeps the promise of ReceiptLifecycle for any set of  *)
(* scans, workers and sessions: every step of ReceiptScan either moves one *)
(* receipt along its lifecycle (the sweep of exhausted attempts: several)  *)
(* or is invisible to its owner.  The invariant it rests on is IInv.       *)
(***************************************************************************)
EXTENDS ReceiptScanProofs

USE ScanAssumption

-----------------------------------------------------------------------------
(* What the lifecycle sees of a row and of the books. *)

RowPhase(row) ==
    CASE row.confirmation = "Confirmed" -> "booked"
      [] row.confirmation = "Deletion Pending" -> "discarded"
      [] row.confirmation = "Pending" ->
            CASE row.processing = "Absent" -> "absent"
              [] row.processing = "Processing" -> "reading"
              [] row.processing = "Complete" -> "ready"
              [] row.processing = "Failed" -> "unreadable"

PhaseMap == [s \in Scans |-> Phase(s)]
DraftMap == [s \in Scans |-> scan[s].items]
LedgerMap == [s \in Scans |-> [count |-> books[s].count, items |-> books[s].items]]

Invisible == PhaseMap' = PhaseMap /\ DraftMap' = DraftMap /\ LedgerMap' = LedgerMap
Stays == UNCHANGED Lifecycle!lifecycleVars

LEMMA Mapped ==
  /\ PhaseMap = [s \in Scans |-> RowPhase(scan[s])]
  /\ PhaseMap' = [s \in Scans |-> RowPhase(scan'[s])]
  BY DEF PhaseMap, Phase, RowPhase

LEMMA InvisibleStays ==
  ASSUME Invisible PROVE Stays
  BY DEF Invisible, Stays, Lifecycle!lifecycleVars, PhaseMap, DraftMap, LedgerMap

\* The books are as they were, but for whether records still exist.
LEMMA LedgerKept ==
  ASSUME \A s \in Scans : books'[s].count = books[s].count /\ books'[s].items = books[s].items
  PROVE  LedgerMap' = LedgerMap
  BY DEF LedgerMap

LEMMA DraftKept ==
  ASSUME \A s \in Scans : scan'[s].items = scan[s].items
  PROVE  DraftMap' = DraftMap
  BY DEF DraftMap

LEMMA PhaseKept ==
  ASSUME \A s \in Scans : RowPhase(scan'[s]) = RowPhase(scan[s])
  PROVE  PhaseMap' = PhaseMap
  BY Mapped

\* One row is written: its phase and its draft, and nothing of the others.
LEMMA OneRow ==
  ASSUME TypeOK, NEW s \in Scans, NEW row, SetScan(s, row)
  PROVE  /\ PhaseMap' = [PhaseMap EXCEPT ![s] = RowPhase(row)]
         /\ DraftMap' = [DraftMap EXCEPT ![s] = row.items]
         /\ PhaseMap[s] = RowPhase(scan[s]) /\ DraftMap[s] = scan[s].items
<1>1. \A t \in Scans : scan'[t] = IF t = s THEN row ELSE scan[t]
  BY SetScanRow
<1>2. PhaseMap' = [PhaseMap EXCEPT ![s] = RowPhase(row)]
  BY <1>1, Mapped
<1>3. DraftMap' = [DraftMap EXCEPT ![s] = row.items]
  BY <1>1 DEF DraftMap
<1> QED BY <1>2, <1>3, Mapped DEF DraftMap

\* A write the owner cannot tell from none.
LEMMA QuietWrite ==
  ASSUME TypeOK, NEW s \in Scans, NEW row, SetScan(s, row), books' = books,
         RowPhase(row) = RowPhase(scan[s]), row.items = scan[s].items
  PROVE  Invisible
<1>1. \A t \in Scans : scan'[t] = IF t = s THEN row ELSE scan[t]
  BY SetScanRow
<1>2. PhaseMap' = PhaseMap
  BY <1>1, PhaseKept
<1>3. DraftMap' = DraftMap
  BY <1>1, DraftKept
<1> QED BY <1>2, <1>3, LedgerKept DEF Invisible

LEMMA NoWrite ==
  ASSUME scan' = scan, books' = books PROVE Invisible
  BY PhaseKept, DraftKept, LedgerKept DEF Invisible

\* A receipt moves on and keeps its draft.
LEMMA MoveOn ==
  ASSUME TypeOK, NEW s \in Scans, NEW row, SetScan(s, row), row.items = scan[s].items,
         \A t \in Scans : books'[t].count = books[t].count /\ books'[t].items = books[t].items
  PROVE  /\ PhaseMap' = [PhaseMap EXCEPT ![s] = RowPhase(row)]
         /\ PhaseMap[s] = RowPhase(scan[s])
         /\ DraftMap' = DraftMap /\ LedgerMap' = LedgerMap
<1>1. \A t \in Scans : scan'[t].items = scan[t].items
  BY SetScanRow
<1> QED BY <1>1, OneRow, DraftKept, LedgerKept

\* Writes of one row that change neither its phase nor its draft.
Unseen(row, new) == RowPhase(new) = RowPhase(row) /\ new.items = row.items

LEMMA BeatUnseen ==
  ASSUME NEW row \in ScanRow
  PROVE  Unseen(row, [row EXCEPT !.stale = FALSE, !.quiet = FALSE])
  BY DEF Unseen, RowPhase, ScanRow

LEMMA ClaimUnseen ==
  ASSUME NEW row \in ScanRow, NEW w, NEW k
  PROVE  Unseen(row, [row EXCEPT !.workerId = w, !.stale = FALSE, !.quiet = FALSE,
                                 !.attempt = k])
  BY DEF Unseen, RowPhase, ScanRow

LEMMA DeferUnseen ==
  ASSUME NEW row \in ScanRow, NEW due
  PROVE  Unseen(row, [row EXCEPT !.workerId = Nobody, !.stale = FALSE, !.quiet = FALSE,
                                 !.due = due])
  BY DEF Unseen, RowPhase, ScanRow

LEMMA CrashUnseen ==
  ASSUME NEW row \in ScanRow
  PROVE  Unseen(row, [row EXCEPT !.workerId = Dead])
  BY DEF Unseen, RowPhase, ScanRow

LEMMA ClockUnseen ==
  ASSUME NEW row \in ScanRow, NEW q
  PROVE  /\ Unseen(row, [row EXCEPT !.stale = TRUE])
         /\ Unseen(row, [row EXCEPT !.due = TRUE])
         /\ Unseen(row, [row EXCEPT !.quiet = q])
  BY DEF Unseen, RowPhase, ScanRow

-----------------------------------------------------------------------------
(* The steps of the lifecycle, one by one. *)

LEMMA GiveUpIs ==
  ASSUME TypeOK, NEW set \in SUBSET Scans,
         \A s \in set : RowPhase(scan[s]) = "reading",
         \A s \in Scans : RowPhase(scan'[s]) = IF s \in set THEN "unreadable"
                                               ELSE RowPhase(scan[s]),
         DraftMap' = DraftMap, LedgerMap' = LedgerMap
  PROVE  Lifecycle!LifecycleNext
<1>1. \A s \in set : PhaseMap[s] = "reading"
  BY Mapped
<1>2. PhaseMap' = [s \in Scans |-> IF s \in set THEN "unreadable" ELSE PhaseMap[s]]
  BY Mapped
<1>3. Lifecycle!GiveUp(set)
  BY <1>1, <1>2 DEF Lifecycle!GiveUp, PhaseMap, DraftMap, LedgerMap
<1> QED BY <1>3 DEF Lifecycle!LifecycleNext

\* A deletion request ends a receipt that is not already discarded.
LEMMA DiscardIs ==
  ASSUME IInv, NEW s \in Scans, ScheduleDeletion(s), RecordsGone(s), Exists(s),
         scan[s].confirmation # "Deletion Pending"
  PROVE  Lifecycle!LifecycleNext
<1> DEFINE row == [scan[s] EXCEPT !.deleting = TRUE, !.confirmation = "Deletion Pending",
                     !.processing = "Failed", !.workerId = Nobody, !.stale = FALSE,
                     !.revision = @ + 1]
<1>1. /\ TypeOK /\ SetScan(s, row)
      /\ row.items = scan[s].items /\ RowPhase(row) = "discarded"
      /\ RowPhase(scan[s]) \in {"reading", "ready", "unreadable", "booked"}
  BY Typed DEF IInv, ScheduleDeletion, Exists, RowPhase, ScanRow, ProcessingStatus,
     ConfirmationStatus
<1>b. \A t \in Scans : books'[t].count = books[t].count /\ books'[t].items = books[t].items
  BY DEF RecordsGone
<1> HIDE DEF row
<1>c. /\ PhaseMap' = [PhaseMap EXCEPT ![s] = RowPhase(row)]
      /\ PhaseMap[s] = RowPhase(scan[s])
      /\ DraftMap' = DraftMap /\ LedgerMap' = LedgerMap
  <2>1. TypeOK /\ SetScan(s, row) /\ row.items = scan[s].items
    BY <1>1
  <2> QED BY <2>1, <1>b, MoveOn
<1>2. /\ PhaseMap' = [PhaseMap EXCEPT ![s] = "discarded"]
      /\ PhaseMap[s] \in {"reading", "ready", "unreadable", "booked"}
  BY <1>1, <1>c
<1>3. Lifecycle!Discard(s)
  BY <1>2, <1>c DEF Lifecycle!Discard, Lifecycle!Move, PhaseMap, DraftMap, LedgerMap
<1> QED BY <1>3 DEF Lifecycle!LifecycleNext

-----------------------------------------------------------------------------
(* The worker. *)

\* recordProcessingFailure gives the receipt up or shows nothing.
LEMMA FailureRefines ==
  ASSUME IInv, NEW w \in Workers, RecordFailure(w)
  PROVE  Invisible \/ Lifecycle!LifecycleNext
<1> DEFINE s == worker[w].job
           p == IF worker[w].attempt < MaxAttempts THEN "Processing" ELSE "Failed"
           row == [scan[s] EXCEPT !.processing = p, !.workerId = Nobody, !.stale = FALSE,
                                  !.quiet = FALSE, !.due = FALSE]
<1>t. TypeOK /\ RowOK /\ s \in Scans /\ scan[s] \in ScanRow /\ books' = books
  BY Typed DEF IInv, RecordFailure
<1>1. CASE ~LeaseHeld(w)
  BY <1>t, <1>1, NoWrite DEF RecordFailure
<1>2. CASE LeaseHeld(w)
  <2>1. /\ scan[s].processing = "Processing" /\ scan[s].confirmation = "Pending"
        /\ SetScan(s, row)
    BY <1>t, <1>2, HeldIsReading DEF RecordFailure
  <2>2. /\ row.items = scan[s].items /\ RowPhase(scan[s]) = "reading"
        /\ RowPhase(row) = IF worker[w].attempt < MaxAttempts THEN "reading" ELSE "unreadable"
    BY <1>t, <2>1 DEF RowPhase, ScanRow
  <2> HIDE DEF row
  <2>3. CASE worker[w].attempt < MaxAttempts
    BY <1>t, <2>1, <2>2, <2>3, QuietWrite
  <2>4. CASE ~(worker[w].attempt < MaxAttempts)
    <3>1. \A t \in Scans : scan'[t] = IF t = s THEN row ELSE scan[t]
      BY <1>t, <2>1, SetScanRow
    <3>2. \A t \in Scans : RowPhase(scan'[t]) = IF t \in {s} THEN "unreadable"
                                               ELSE RowPhase(scan[t])
      BY <2>2, <2>4, <3>1
    <3>3. DraftMap' = DraftMap /\ LedgerMap' = LedgerMap
      BY <1>t, <2>2, <3>1, DraftKept, LedgerKept
    <3> HIDE DEF s
    <3> QED BY <1>t, <2>2, <3>2, <3>3, GiveUpIs
  <2> QED BY <2>3, <2>4
<1> QED BY <1>1, <1>2

\* failExhaustedScans gives several receipts up at once.
LEMMA ExhaustedRefines ==
  ASSUME IInv, NEW w \in Workers, FailExhaustedScans(w)
  PROVE  Lifecycle!LifecycleNext
<1> DEFINE set == {s \in Scans : Exhausted(s)}
<1>t. TypeOK /\ books' = books /\ \A s \in Scans : scan[s] \in ScanRow
  BY Typed DEF IInv, FailExhaustedScans
<1>1. \A s \in Scans :
         scan'[s] = IF Exhausted(s)
                    THEN [scan[s] EXCEPT !.processing = "Failed", !.workerId = Nobody,
                                         !.stale = FALSE, !.quiet = FALSE]
                    ELSE scan[s]
  BY DEF FailExhaustedScans
<1>2. ASSUME NEW s \in Scans, Exhausted(s)
      PROVE  /\ RowPhase(scan[s]) = "reading" /\ RowPhase(scan'[s]) = "unreadable"
             /\ scan'[s].items = scan[s].items
  <2>1. scan[s].processing = "Processing" /\ scan[s].confirmation = "Pending"
    BY <1>2 DEF Exhausted, Open
  <2>2. scan'[s] = [scan[s] EXCEPT !.processing = "Failed", !.workerId = Nobody,
                                   !.stale = FALSE, !.quiet = FALSE]
    BY <1>1, <1>2
  <2> QED BY <1>t, <2>1, <2>2 DEF RowPhase, ScanRow
<1>3. \A s \in Scans : ~Exhausted(s) => scan'[s] = scan[s]
  BY <1>1
<1>4. DraftMap' = DraftMap /\ LedgerMap' = LedgerMap
  BY <1>t, <1>2, <1>3, DraftKept, LedgerKept
<1>5. set \in SUBSET Scans /\ \A s \in set : RowPhase(scan[s]) = "reading"
  BY <1>2
<1>6. \A s \in Scans : RowPhase(scan'[s]) = IF s \in set THEN "unreadable"
                                            ELSE RowPhase(scan[s])
  BY <1>2, <1>3
<1> HIDE DEF set
<1> QED BY <1>t, <1>4, <1>5, <1>6, GiveUpIs

\* persistReceiptProcessingOutput reads the receipt or writes nothing.
LEMMA PersistRefines ==
  ASSUME IInv, NEW w \in Workers, NEW r \in Readings, NEW answered \in BOOLEAN,
         Persist(w, r, answered)
  PROVE  Invisible \/ Lifecycle!LifecycleNext
<1> DEFINE s == worker[w].job
           row == [scan[s] EXCEPT !.processing = "Complete", !.items = r,
                     !.workerId = Nobody, !.stale = FALSE, !.quiet = FALSE]
<1>t. TypeOK /\ RowOK /\ s \in Scans /\ scan[s] \in ScanRow /\ books' = books
  BY Typed DEF IInv, Persist
<1>1. CASE ~(LeaseHeld(w) /\ scan[s].processing = "Processing")
  BY <1>t, <1>1, NoWrite DEF Persist
<1>2. CASE LeaseHeld(w) /\ scan[s].processing = "Processing"
  <2>1. SetScan(s, row) /\ scan[s].confirmation = "Pending"
    BY <1>t, <1>2, HeldIsReading DEF Persist
  <2>2. row.items = r /\ RowPhase(scan[s]) = "reading" /\ RowPhase(row) = "ready"
    BY <1>t, <1>2, <2>1 DEF RowPhase, ScanRow
  <2> HIDE DEF row
  <2>3. /\ PhaseMap' = [PhaseMap EXCEPT ![s] = "ready"] /\ PhaseMap[s] = "reading"
        /\ DraftMap' = [DraftMap EXCEPT ![s] = r]
    BY <1>t, <2>1, <2>2, OneRow
  <2>4. LedgerMap' = LedgerMap
    BY <1>t, LedgerKept
  <2>5. Lifecycle!Read(s, r)
    BY <1>t, <2>3, <2>4 DEF Lifecycle!Read, Lifecycle!Move, PhaseMap, DraftMap, LedgerMap
  <2> QED BY <1>t, <2>5 DEF Lifecycle!LifecycleNext
<1> QED BY <1>1, <1>2

\* Claims, heartbeats and delays are the queue's own business.
LEMMA BeatIsInvisible ==
  ASSUME TypeOK, NEW s \in Scans, books' = books,
         \/ SetScan(s, [scan[s] EXCEPT !.stale = FALSE, !.quiet = FALSE])
         \/ scan' = scan
  PROVE  Invisible
  BY Typed, NoWrite, QuietWrite, BeatUnseen DEF Unseen

LEMMA WorkerRefines ==
  ASSUME IInv, NEW w \in Workers, WorkerNext(w)
  PROVE  Invisible \/ Lifecycle!LifecycleNext
<1>t. /\ TypeOK /\ books' = books /\ worker[w].job \in Scans
      /\ scan[worker[w].job] \in ScanRow
  BY Typed, WorkerLeavesTheRest DEF IInv
<1>1. CASE FailExhaustedScans(w)
  BY <1>1, ExhaustedRefines
<1>2. CASE \/ \E s \in Scans : FindCandidate(w, s)
           \/ NoCandidate(w) \/ ClaimMissed(w) \/ AbandonAttempt(w)
  BY <1>t, <1>2, NoWrite DEF FindCandidate, NoCandidate, ClaimMissed, AbandonAttempt
<1>3. ASSUME NEW answered \in BOOLEAN, Claim(w, answered) PROVE Invisible
  <2> DEFINE s == worker[w].job
             row == [scan[s] EXCEPT !.workerId = w, !.stale = FALSE, !.quiet = FALSE,
                                    !.attempt = @ + 1]
  <2>0. Unseen(scan[s], row)
    BY <1>t, ClaimUnseen
  <2>1. SetScan(s, row)
    BY <1>3 DEF Claim
  <2> HIDE DEF row
  <2>2. RowPhase(row) = RowPhase(scan[s]) /\ row.items = scan[s].items
    BY <2>0 DEF Unseen
  <2> QED BY <1>t, <2>1, <2>2, QuietWrite
<1>4. CASE Restore(w) \/ Heartbeat(w) \/ BeginPersist(w)
  BY <1>t, <1>4, BeatIsInvisible DEF Restore, Heartbeat, BeginPersist
<1>5. CASE RestoreFails(w) \/ ReadingFails(w)
  BY <1>5, FailureRefines DEF RestoreFails, ReadingFails
<1>6. ASSUME NEW r \in Readings, NEW answered \in BOOLEAN, Persist(w, r, answered)
      PROVE  Invisible \/ Lifecycle!LifecycleNext
  BY <1>6, PersistRefines
<1>7. ASSUME NEW due \in BOOLEAN, Defer(w, due) PROVE Invisible
  <2> DEFINE s == worker[w].job
             row == [scan[s] EXCEPT !.workerId = Nobody, !.stale = FALSE,
                                    !.quiet = FALSE, !.due = due]
  <2>1. SetScan(s, row) \/ scan' = scan
    BY <1>7 DEF Defer
  <2>2. RowPhase(row) = RowPhase(scan[s]) /\ row.items = scan[s].items
    BY <1>t, DeferUnseen DEF Unseen
  <2> HIDE DEF row
  <2> QED BY <1>t, <2>1, <2>2, QuietWrite, NoWrite
<1>8. CASE Crash(w)
  <2>1. \A s \in Scans : scan'[s] = scan[s] \/ scan'[s] = [scan[s] EXCEPT !.workerId = Dead]
    BY <1>8 DEF Crash
  <2>2. \A s \in Scans : /\ RowPhase(scan'[s]) = RowPhase(scan[s])
                         /\ scan'[s].items = scan[s].items
    BY <1>t, <2>1, Typed, CrashUnseen DEF Unseen
  <2> QED BY <1>t, <2>2, PhaseKept, DraftKept, LedgerKept DEF Invisible
<1> QED BY <1>1, <1>2, <1>3, <1>4, <1>5, <1>6, <1>7, <1>8 DEF WorkerNext

-----------------------------------------------------------------------------
(* The owner, the sweep and the purge worker. *)

LEMMA UploadRefines ==
  ASSUME IInv, NEW s \in Scans, Upload(s)
  PROVE  Lifecycle!LifecycleNext
<1> DEFINE row == [scan[s] EXCEPT !.processing = "Processing"]
<1>1. TypeOK /\ SetScan(s, row) /\ books' = books /\ row.items = scan[s].items
  BY Typed DEF IInv, Upload, ScanRow
<1>2. scan[s].processing = "Absent" /\ scan[s].confirmation = "Pending"
  BY DEF IInv, RowOK, RowFits, Upload, Exists
<1>3. RowPhase(scan[s]) = "absent" /\ RowPhase(row) = "reading"
  BY <1>1, <1>2, Typed DEF RowPhase, ScanRow
<1> HIDE DEF row
<1>4. /\ PhaseMap' = [PhaseMap EXCEPT ![s] = "reading"] /\ PhaseMap[s] = "absent"
      /\ DraftMap' = DraftMap /\ LedgerMap' = LedgerMap
  BY <1>1, <1>3, MoveOn
<1>5. Lifecycle!Accept(s)
  BY <1>4 DEF Lifecycle!Accept, Lifecycle!Move, PhaseMap, DraftMap, LedgerMap
<1> QED BY <1>5 DEF Lifecycle!LifecycleNext

LEMMA RetryRefines ==
  ASSUME IInv, NEW s \in Scans, RetryScan(s)
  PROVE  Lifecycle!LifecycleNext
<1> DEFINE row == [scan[s] EXCEPT !.processing = "Processing", !.attempt = 0,
                     !.workerId = Nobody, !.stale = FALSE, !.due = TRUE, !.quiet = FALSE]
<1>1. /\ TypeOK /\ SetScan(s, row) /\ books' = books /\ row.items = scan[s].items
      /\ scan[s] \in ScanRow
  BY Typed DEF IInv, RetryScan, ScanRow
<1>2. scan[s].processing = "Failed" /\ scan[s].confirmation = "Pending"
  BY DEF RetryScan
<1>3. RowPhase(scan[s]) = "unreadable" /\ RowPhase(row) = "reading"
  BY <1>1, <1>2 DEF RowPhase, ScanRow
<1> HIDE DEF row
<1>4. /\ PhaseMap' = [PhaseMap EXCEPT ![s] = "reading"] /\ PhaseMap[s] = "unreadable"
      /\ DraftMap' = DraftMap /\ LedgerMap' = LedgerMap
  BY <1>1, <1>3, MoveOn
<1>5. Lifecycle!TryAgain(s)
  BY <1>4 DEF Lifecycle!TryAgain, Lifecycle!Move, PhaseMap, DraftMap, LedgerMap
<1> QED BY <1>5 DEF Lifecycle!LifecycleNext

LEMMA ViewRefines ==
  ASSUME IInv, NEW c \in Clients, NEW s \in Scans, View(c, s)
  PROVE  Invisible
<1> DEFINE q == IF scan[s].quiet /\ scan[s].confirmation # "Pending" THEN TRUE ELSE FALSE
           row == [scan[s] EXCEPT !.quiet = q]
<1>1. TypeOK /\ SetScan(s, row) /\ books' = books /\ scan[s] \in ScanRow
  BY Typed DEF IInv, View
<1>2. Unseen(scan[s], row)
  <2> HIDE DEF q
  <2> QED BY <1>1, ClockUnseen
<1> HIDE DEF row
<1> QED BY <1>1, <1>2, QuietWrite DEF Unseen

LEMMA EditRefines ==
  ASSUME IInv, NEW c \in Clients, NEW r \in Readings, NEW pinned \in BOOLEAN,
         EditItems(c, r, pinned)
  PROVE  Lifecycle!LifecycleNext
<1> DEFINE s == client[c].on
           row == [scan[s] EXCEPT !.revision = @ + 1, !.items = r, !.quiet = FALSE]
<1>1. /\ TypeOK /\ s \in Scans /\ SetScan(s, row) /\ books' = books
      /\ scan[s] \in ScanRow
  BY Typed DEF IInv, EditItems
<1>2. scan[s].processing = "Complete" /\ scan[s].confirmation = "Pending"
  BY DEF EditItems, Open
<1>3. RowPhase(scan[s]) = "ready" /\ RowPhase(row) = "ready" /\ row.items = r
  BY <1>1, <1>2 DEF RowPhase, ScanRow
<1> HIDE DEF row
<1>4. PhaseMap[s] = "ready" /\ DraftMap' = [DraftMap EXCEPT ![s] = r]
  BY <1>1, <1>3, OneRow
<1>5. \A t \in Scans : RowPhase(scan'[t]) = RowPhase(scan[t])
  BY <1>1, <1>3, SetScanRow
<1>6. PhaseMap' = PhaseMap /\ LedgerMap' = LedgerMap
  BY <1>1, <1>5, PhaseKept, LedgerKept
<1>7. Lifecycle!Amend(s, r)
  BY <1>1, <1>4, <1>6 DEF Lifecycle!Amend, PhaseMap, DraftMap, LedgerMap
<1> QED BY <1>1, <1>7 DEF Lifecycle!LifecycleNext

\* A confirmation books what the draft holds, and books it for the first time.
LEMMA ConfirmRefines ==
  ASSUME IInv, NEW c \in Clients, ConfirmCommit(c)
  PROVE  Lifecycle!LifecycleNext
<1>s. PICK s \in Scans : s = client[c].on
  BY Typed DEF IInv
<1> DEFINE row == [scan[s] EXCEPT !.confirmation = "Confirmed"]
<1>1. TypeOK /\ SetScan(s, row) /\ scan[s] \in ScanRow
  BY <1>s, Typed DEF IInv, ConfirmCommit
<1>2. scan[s].processing = "Complete" /\ scan[s].confirmation = "Pending"
  BY <1>s DEF ConfirmCommit, Confirmable, Open
<1>3. RowPhase(scan[s]) = "ready" /\ RowPhase(row) = "booked" /\ row.items = scan[s].items
  BY <1>1, <1>2 DEF RowPhase, ScanRow
<1>4. books[s].count = 0
  <2>1. books[s].count \in Nat
    BY <1>1 DEF TypeOK, Booking
  <2>2. ~(books[s].count > 0)
    BY <1>1, <1>2 DEF IInv, BookedOnceAsReviewed
  <2> QED BY <2>1, <2>2
<1>5. /\ books'[s].count = 1 /\ books'[s].items = scan[s].items
      /\ \A t \in Scans : t # s => books'[t] = books[t]
  BY <1>s, <1>1, <1>4 DEF ConfirmCommit, TypeOK
<1> HIDE DEF row
<1>6. /\ PhaseMap' = [PhaseMap EXCEPT ![s] = "booked"] /\ PhaseMap[s] = "ready"
      /\ DraftMap[s] = scan[s].items
  BY <1>1, <1>3, OneRow
<1>7. DraftMap' = DraftMap
  BY <1>1, <1>3, SetScanRow, DraftKept
<1>8. LedgerMap' = [LedgerMap EXCEPT ![s] = [count |-> 1, items |-> DraftMap[s]]]
  BY <1>1, <1>5, <1>6 DEF LedgerMap
<1>9. LedgerMap[s].count = 0
  BY <1>1, <1>4 DEF LedgerMap
<1>10. Lifecycle!Book(s)
  BY <1>1, <1>6, <1>7, <1>8, <1>9
  DEF Lifecycle!Book, Lifecycle!Move, PhaseMap, DraftMap, LedgerMap
<1> QED BY <1>10 DEF Lifecycle!LifecycleNext

LEMMA EraseRefines ==
  ASSUME IInv, NEW s \in Scans, EraseEvidence(s)
  PROVE  Lifecycle!LifecycleNext
<1> DEFINE row == [scan[s] EXCEPT !.items = NoReading, !.revision = @ + 1]
<1>1. /\ TypeOK /\ SetScan(s, row) /\ books' = books /\ scan[s] \in ScanRow
      /\ scan[s].confirmation = "Confirmed"
  BY Typed DEF IInv, EraseEvidence
<1>2. RowPhase(scan[s]) = "booked" /\ RowPhase(row) = "booked" /\ row.items = NoReading
  BY <1>1 DEF RowPhase, ScanRow
<1> HIDE DEF row
<1>3. PhaseMap[s] = "booked" /\ DraftMap' = [DraftMap EXCEPT ![s] = NoReading]
  BY <1>1, <1>2, OneRow
<1>4. \A t \in Scans : RowPhase(scan'[t]) = RowPhase(scan[t])
  BY <1>1, <1>2, SetScanRow
<1>5. PhaseMap' = PhaseMap /\ LedgerMap' = LedgerMap
  BY <1>1, <1>4, PhaseKept, LedgerKept
<1>6. Lifecycle!Forget(s)
  BY <1>3, <1>5 DEF Lifecycle!Forget, PhaseMap, DraftMap, LedgerMap
<1> QED BY <1>6 DEF Lifecycle!LifecycleNext

LEMMA DeleteRecordsRefines ==
  ASSUME IInv, NEW s \in Scans, NEW detaching \in BOOLEAN, DeleteRecords(s, detaching)
  PROVE  Invisible \/ Lifecycle!LifecycleNext
<1>1. RecordsGone(s)
  BY DeleteRecordsBooks DEF IInv, RecordsGone
<1>2. scan[s].confirmation = "Confirmed" /\ Exists(s)
  BY DEF DeleteRecords, IInv, RowOK, RowFits, Exists
<1>3. CASE detaching
  <2>1. scan' = scan
    BY <1>3 DEF DeleteRecords
  <2>2. \A t \in Scans : books'[t].count = books[t].count /\ books'[t].items = books[t].items
    BY <1>1 DEF RecordsGone
  <2> QED BY <2>1, <2>2, PhaseKept, DraftKept, LedgerKept DEF Invisible
<1>4. CASE ~detaching
  <2>1. ScheduleDeletion(s)
    BY <1>4 DEF DeleteRecords
  <2> QED BY <1>1, <1>2, <2>1, DiscardIs
<1> QED BY <1>3, <1>4

LEMMA TickRefines ==
  ASSUME IInv, Tick
  PROVE  Invisible
<1>t. TypeOK /\ \A s \in Scans : scan[s] \in ScanRow
  BY Typed DEF IInv
<1>1. ASSUME NEW s \in Scans, LeaseExpires(s) PROVE Invisible
  BY <1>t, <1>1, ClockUnseen, QuietWrite DEF LeaseExpires, Unseen
<1>2. ASSUME NEW s \in Scans, BackoffElapses(s) PROVE Invisible
  BY <1>t, <1>2, ClockUnseen, QuietWrite DEF BackoffElapses, Unseen
<1>3. ASSUME NEW s \in Scans, FallsQuiet(s) PROVE Invisible
  BY <1>t, <1>3, ClockUnseen, QuietWrite DEF FallsQuiet, Unseen
<1> QED BY <1>1, <1>2, <1>3 DEF Tick

\* Deletion by request, by the sweep, or of an orphan.
LEMMA GiveAwayRefines ==
  ASSUME IInv, NEW s \in Scans, RequestDeletion(s) \/ SweepAbandoned(s) \/ DiscardOrphan(s)
  PROVE  Lifecycle!LifecycleNext
<1>1. /\ ScheduleDeletion(s) /\ RecordsGone(s) /\ Exists(s)
      /\ scan[s].confirmation # "Deletion Pending"
  BY DEF RequestDeletion, SweepAbandoned, DiscardOrphan, RecordsGone, Exists, Open, IInv, RowOK, RowFits
<1> QED BY <1>1, DiscardIs

-----------------------------------------------------------------------------
LEMMA InitRefines == Init => Lifecycle!LifecycleInit
<1> SUFFICES ASSUME Init PROVE Lifecycle!LifecycleInit
  OBVIOUS
<1>1. \A s \in Scans : /\ RowPhase(scan[s]) = "absent" /\ scan[s].items = NoReading
                       /\ books[s].count = 0 /\ books[s].items = NoReading
  BY DEF Init, NoRow, NoBooking, RowPhase
<1>2. /\ PhaseMap = [s \in Scans |-> "absent"]
      /\ DraftMap = [s \in Scans |-> NoReading]
      /\ LedgerMap = [s \in Scans |-> [count |-> 0, items |-> NoReading]]
  BY <1>1, Mapped DEF DraftMap, LedgerMap
<1> QED BY <1>2 DEF Lifecycle!LifecycleInit, PhaseMap, DraftMap, LedgerMap

LEMMA NextRefines == IInv /\ [Next]_vars => [Lifecycle!LifecycleNext]_(Lifecycle!lifecycleVars)
<1> SUFFICES ASSUME IInv, [Next]_vars PROVE Invisible \/ Lifecycle!LifecycleNext
  BY InvisibleStays DEF Stays
<1>1. ASSUME NEW w \in Workers, WorkerNext(w) PROVE Invisible \/ Lifecycle!LifecycleNext
  BY <1>1, WorkerRefines
<1>2. CASE OwnerNext
  <2>1. ASSUME NEW s \in Scans, Upload(s) PROVE Lifecycle!LifecycleNext
    BY <2>1, UploadRefines
  <2>2. ASSUME NEW s \in Scans, RetryScan(s) PROVE Lifecycle!LifecycleNext
    BY <2>2, RetryRefines
  <2>3. ASSUME NEW s \in Scans, RequestDeletion(s) PROVE Lifecycle!LifecycleNext
    BY <2>3, GiveAwayRefines
  <2>4. ASSUME NEW s \in Scans, NEW detaching \in BOOLEAN, DeleteRecords(s, detaching)
        PROVE  Invisible \/ Lifecycle!LifecycleNext
    BY <2>4, DeleteRecordsRefines
  <2>5. ASSUME NEW c \in Clients, NEW s \in Scans, View(c, s) PROVE Invisible
    BY <2>5, ViewRefines
  <2>6. ASSUME NEW c \in Clients, NEW r \in Readings, NEW pinned \in BOOLEAN,
               EditItems(c, r, pinned)
        PROVE  Lifecycle!LifecycleNext
    BY <2>6, EditRefines
  <2>7. ASSUME NEW c \in Clients, NEW pinned \in BOOLEAN,
               ConfirmRead(c, pinned) \/ ConfirmRefused(c)
        PROVE  Invisible
    BY <2>7, NoWrite DEF ConfirmRead, ConfirmRefused
  <2>8. ASSUME NEW c \in Clients, ConfirmCommit(c) PROVE Lifecycle!LifecycleNext
    BY <2>8, ConfirmRefines
  <2>9. ASSUME NEW c \in Clients, ConfirmRefused(c) PROVE Invisible
    BY <2>9, NoWrite DEF ConfirmRefused
  <2> QED
    BY <1>2, <2>1, <2>2, <2>3, <2>4, <2>5, <2>6, <2>7, <2>8, <2>9 DEF OwnerNext
<1>3. CASE Sweep
  BY <1>3, GiveAwayRefines DEF Sweep
<1>4. CASE PurgeNext
  BY <1>4, EraseRefines, GiveAwayRefines DEF PurgeNext
<1>5. CASE Tick
  BY <1>5, TickRefines
<1>6. CASE UNCHANGED vars
  BY <1>6, NoWrite DEF vars
<1> QED BY <1>1, <1>2, <1>3, <1>4, <1>5, <1>6 DEF Next

\* Whatever workers, sessions, sweeps and lost answers do, an owner sees each
\* receipt read at most once per acceptance or retry, amended only as a finished
\* draft, booked at most once with the draft of that moment, and discarded for
\* good (claimScan, persistReceiptProcessingOutput, confirmReceipt and the rest).
THEOREM ImplementsLifecycleHolds == Spec => ImplementsLifecycle
<1> QED BY InitRefines, NextRefines, Invariant, PTL
    DEF Spec, ImplementsLifecycle, Lifecycle!LifecycleSpec
=============================================================================
