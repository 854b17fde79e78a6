------------------------ MODULE AccountDeletionProofs ------------------------
(***************************************************************************)
(* Proofs about AccountDeletion for any set of batches, images, workers    *)
(* and deletion workers and any budget of faults.  EInv says what each     *)
(* attempt has made sure of when it reaches a place, and that what runs    *)
(* beside it does not undo it: once the account is closed no PUT begins,   *)
(* no row names a file again, and what is gone stays gone.                 *)
(***************************************************************************)
EXTENDS AccountDeletion, CsvFilesProofs, FiniteSetTheorems

USE CsvAssumption, DeletionAssumption

-----------------------------------------------------------------------------
(* The inductive invariant. *)

\* The receipt request stores no further image.
Unwritten == request \in {"undoing", "over"}

Missing(f) == (f \in Images => f \notin images) /\ (f \in Batches => ~object[f])

NothingLands == \A b \in Batches : ~flight[b]

Reading == {"rows", "jobs"}
Late == {"planned", "clearing", "saving", "rowsAgain", "jobsAgain", "verified"}

\* What the attempt of d rests on at the place it has reached.
Sure(d) ==
    LET x == deleter[d]
    IN  /\ x.at # "idle" => ~active
        /\ x.at \in Reading \cup Late => settled
        /\ x.at \in {"jobs", "jobsAgain"} =>
              \A b \in Batches : /\ flight[b] => Early(b)
                                 /\ row[b].source => b \in x.found
        /\ x.at \in Late => NothingLands
        /\ x.at \in {"planned", "verified"} => \A b \in Batches : object[b] => b \in x.found
        /\ x.at = "clearing" => \A f \in FirstOf(x.plan, x.cleared) : Missing(f)
        /\ x.at = "saving" => \A f \in FirstOf(x.plan, UpTo(d)) : Missing(f)
        /\ x.at \in {"rowsAgain", "jobsAgain", "verified"} => \A f \in x.plan : Missing(f)
        /\ \A i \in Images : i \in x.found \cup x.plan => Unwritten
        /\ x.at = "advancing" => ~identity

ClosedIsClosed == active <=> user.stage = "NONE"

\* After the settling time a PUT under way is one the deletion will wait for.
SettledWaits == settled => ~active /\ \A b \in Batches : flight[b] => Held(b) \/ Early(b)

\* A saved plan was made when nothing could land any more.
PlanHolds ==
    /\ user.plan # NoPlan => ~active /\ NothingLands
    /\ \A i \in Images : i \in user.plan => Unwritten
    /\ \A f \in FirstOf(user.plan, user.cleared) : Missing(f)

StageHolds ==
    /\ ClearedMeansCleared
    /\ user.stage \in {"AUTH_DELETED", "GONE"} => ~identity

\* Who holds the lease is in the stage the row is in.
InStage(d) ==
    /\ deleter[d].at \in {"obligation", "identity", "advancing"} => user.stage = "STORAGE_CLEARED"
    /\ deleter[d].at \in {"records", "relations"} => user.stage = "AUTH_DELETED"

LeaseHolds == \A d \in Deleters : Leases(d) => InStage(d)

EInv ==
    /\ ClosedIsClosed
    /\ SettledWaits
    /\ scan => Unwritten
    /\ PlanHolds
    /\ StageHolds
    /\ LeaseHolds
    /\ \A d \in Deleters : Sure(d)

DInv == IInv /\ FilesInv /\ ErasureTypeOK /\ EInv

-----------------------------------------------------------------------------
(* What nothing beside the deletion undoes. *)

\* In a closed account files only go, and an upload under way is waited for.
Sinks ==
    /\ active' = active
    /\ ~active => \A b \in Batches : Ebb(b)
    /\ settled' = settled
    /\ identity' => identity
    /\ Unwritten => Unwritten' /\ images' \subseteq images
    /\ scan' => scan \/ Unwritten'

LEMMA MissingStays ==
  ASSUME Sinks, ~active, NothingLands, NEW f, Missing(f), f \in Images => Unwritten
  PROVE  Missing(f)'
  BY DEF Sinks, Ebb, Missing, NothingLands

LEMMA NothingComes ==
  ASSUME Sinks, ~active, NothingLands PROVE NothingLands'
  BY DEF Sinks, Ebb, NothingLands

LEMMA FirstOfIn == \A plan, n : FirstOf(plan, n) \subseteq plan
  BY DEF FirstOf

LEMMA SureStays ==
  ASSUME EInv, Sinks, NEW d \in Deleters, deleter'[d] = deleter[d] PROVE Sure(d)'
<1> DEFINE x == deleter[d]
<1>1. Sure(d) /\ SettledWaits
  BY DEF EInv
<1>2. x.at \in {"jobs", "jobsAgain"} =>
          \A b \in Batches : /\ flight'[b] => Early(b)'
                             /\ row'[b].source => b \in x.found
  BY <1>1 DEF Sure, Sinks, Ebb
<1>3. x.at \in Late => ~active /\ NothingLands /\ NothingLands'
  BY <1>1, NothingComes DEF Sure, Late
<1>4. x.at \in {"planned", "verified"} => \A b \in Batches : object'[b] => b \in x.found
  BY <1>1, <1>3 DEF Sure, Sinks, Ebb, Late, NothingLands
<1>5. ASSUME NEW f, Missing(f), f \in x.plan, x.at \in Late PROVE Missing(f)'
  BY <1>1, <1>3, <1>5, MissingStays DEF Sure
<1>6. /\ x.at = "clearing" => \A f \in FirstOf(x.plan, x.cleared) : Missing(f)'
      /\ x.at = "saving" => \A f \in FirstOf(x.plan, UpTo(d)) : Missing(f)'
      /\ x.at \in {"rowsAgain", "jobsAgain", "verified"} => \A f \in x.plan : Missing(f)'
  BY <1>1, <1>5, FirstOfIn DEF Sure, Late
<1>7. UpTo(d)' = UpTo(d)
  BY DEF UpTo, Total
<1>8. /\ x.at # "idle" => ~active'
      /\ x.at \in Reading \cup Late => settled'
      /\ \A i \in Images : i \in x.found \cup x.plan => Unwritten'
      /\ x.at = "advancing" => ~identity'
  BY <1>1 DEF Sure, Sinks
<1> QED BY <1>2, <1>3, <1>4, <1>6, <1>7, <1>8 DEF Sure, Reading, Late

LEMMA WaitsStay ==
  ASSUME EInv, Sinks PROVE SettledWaits' /\ (scan' => Unwritten')
<1>1. SettledWaits /\ (scan => Unwritten)
  BY DEF EInv
<1>2. SettledWaits'
  BY <1>1 DEF SettledWaits, Sinks, Ebb
<1> QED BY <1>1, <1>2 DEF Sinks

\* An attempt that is over rests on nothing.
LEMMA AsleepIsSure ==
  ASSUME NEW d \in Deleters, deleter'[d] = Asleep PROVE Sure(d)'
  BY DEF Asleep, Sure, Reading, Late

LEMMA PlanStays ==
  ASSUME EInv, Sinks, user'.plan = user.plan, user'.cleared = user.cleared PROVE PlanHolds'
<1>1. PlanHolds
  BY DEF EInv
<1>2. user.plan = NoPlan => FirstOf(user.plan, user.cleared) = {}
  BY DEF FirstOf
<1>3. ASSUME NEW f \in FirstOf(user.plan, user.cleared) PROVE Missing(f)'
  <2>1. user.plan # NoPlan /\ f \in user.plan
    BY <1>2, <1>3, FirstOfIn
  <2> QED BY <1>1, <2>1, MissingStays DEF PlanHolds
<1>4. user.plan # NoPlan => ~active' /\ NothingLands'
  BY <1>1, NothingComes DEF PlanHolds, Sinks
<1> QED BY <1>1, <1>3, <1>4 DEF PlanHolds, Sinks

LEMMA PlanDropped ==
  ASSUME user'.plan = NoPlan PROVE PlanHolds'
<1>1. FirstOf(user'.plan, user'.cleared) = {}
  BY DEF FirstOf
<1>2. \A i \in Images : i \notin NoPlan
  BY DEF NoPlan
<1> QED BY <1>1, <1>2 DEF PlanHolds

LEMMA StageStays ==
  ASSUME EInv, Sinks, user'.stage = user.stage PROVE ClosedIsClosed' /\ StageHolds'
<1>1. ClosedIsClosed /\ StageHolds
  BY DEF EInv
<1>2. ClearedMeansCleared'
  BY <1>1 DEF ClosedIsClosed, StageHolds, ClearedMeansCleared, Sinks, Ebb
<1> QED BY <1>1, <1>2 DEF ClosedIsClosed, StageHolds, Sinks

\* The deletion is taken back to its first stage.
LEMMA StageReopens ==
  ASSUME EInv, Sinks, user.stage # "NONE", user'.stage = "REQUESTED"
  PROVE  ClosedIsClosed' /\ StageHolds'
  BY DEF EInv, ClosedIsClosed, StageHolds, ClearedMeansCleared, Sinks

\* Nobody holds the lease.
LEMMA LeaseDropped ==
  ASSUME user'.holder = Nobody PROVE LeaseHolds'
  BY DEF LeaseHolds, Leases

\* The holder stays, or lets an attempt go on within its stage.
LEMMA LeaseStays ==
  ASSUME EInv, user'.holder = user.holder, user'.stage = user.stage, NEW d \in Deleters,
         \A e \in Deleters : e # d => deleter'[e] = deleter[e],
         Leases(d) => InStage(d)'
  PROVE  LeaseHolds'
<1> SUFFICES ASSUME NEW e \in Deleters, Leases(e)' PROVE InStage(e)'
  BY DEF LeaseHolds
<1>1. Leases(e)
  BY DEF Leases, Pending
<1> QED BY <1>1 DEF EInv, LeaseHolds, InStage

-----------------------------------------------------------------------------
(* From the parts to the whole. *)

LEMMA EInvFrom ==
  ASSUME EInv, Sinks, ClosedIsClosed', PlanHolds', StageHolds', LeaseHolds',
         NEW d \in Deleters, \A e \in Deleters : e # d => deleter'[e] = deleter[e], Sure(d)'
  PROVE  EInv'
<1>1. ASSUME NEW e \in Deleters PROVE Sure(e)'
  BY <1>1, SureStays
<1> QED BY <1>1, WaitsStay DEF EInv

\* A step beside the deletion.
LEMMA EInvBeside ==
  ASSUME EInv, Sinks, deleter' = deleter,
         \/ user'.stage = user.stage /\ user'.plan = user.plan /\ user'.cleared = user.cleared
            /\ user'.holder = user.holder
         \/ user.stage # "NONE" /\ user'.stage = "REQUESTED" /\ user'.plan = NoPlan
            /\ user'.holder = Nobody
  PROVE  EInv'
<1>1. \A d \in Deleters : Sure(d)'
  BY SureStays
<1>2. PlanHolds'
  BY PlanStays, PlanDropped
<1>3. ClosedIsClosed' /\ StageHolds'
  BY StageStays, StageReopens
<1>4. LeaseHolds'
  <2>1. CASE user'.stage = user.stage /\ user'.holder = user.holder
    BY <2>1 DEF EInv, LeaseHolds, Leases, Pending, InStage
  <2> QED BY <2>1, LeaseDropped
<1> QED BY <1>1, <1>2, <1>3, <1>4, WaitsStay DEF EInv

-----------------------------------------------------------------------------
(* Types. *)

LEMMA FilesAreFinite ==
  /\ IsFiniteSet(Files) /\ Cardinality(Files) \in Nat
  /\ \A plan \in SUBSET Files : /\ IsFiniteSet(plan) /\ Cardinality(plan) \in Nat
                                /\ Cardinality(plan) <= Cardinality(Files)
<1>1. IsFiniteSet(Files)
  BY FS_Union DEF Files
<1>2. \A plan \in SUBSET Files : IsFiniteSet(plan) /\ Cardinality(plan) <= Cardinality(Files)
  BY <1>1, FS_Subset
<1> QED BY <1>1, <1>2, FS_CardinalityType

LEMMA AsleepType == Asleep \in DeletionAttempt /\ NotDeleted \in UserRow
<1>1. 0 \in 0 .. Cardinality(Files)
  BY FilesAreFinite
<1> QED BY <1>1 DEF Asleep, NotDeleted, DeletionAttempt, DeleterPlace, UserRow, Stage

LEMMA YieldedIs ==
  ASSUME user \in UserRow
  PROVE  /\ Yielded \in UserRow /\ Yielded.holder = Nobody /\ Yielded.stage = user.stage
         /\ Yielded.plan = user.plan /\ Yielded.cleared = user.cleared
  BY DEF Yielded, UserRow

LEMMA AdvancedIs ==
  ASSUME user \in UserRow, NEW s \in Stage
  PROVE  /\ Advanced(s) \in UserRow /\ Advanced(s).holder = Nobody /\ Advanced(s).stage = s
         /\ Advanced(s).plan = NoPlan
<1> DEFINE y == Yielded
<1>1. y \in UserRow /\ y.holder = Nobody
  BY YieldedIs
<1>2. Advanced(s) = [y EXCEPT !.stage = s, !.plan = NoPlan, !.cleared = 0]
  BY DEF Advanced
<1>3. 0 \in 0 .. Cardinality(Files)
  BY FilesAreFinite
<1> HIDE DEF y
<1> QED BY <1>1, <1>2, <1>3 DEF UserRow

LEMMA ReopenedIs ==
  ASSUME user \in UserRow
  PROVE  /\ Reopened \in UserRow /\ Reopened.holder = Nobody /\ Reopened.stage = "REQUESTED"
         /\ Reopened.plan = NoPlan
<1> DEFINE y == Advanced("REQUESTED")
<1>1. y \in UserRow /\ y.holder = Nobody /\ y.stage = "REQUESTED" /\ y.plan = NoPlan
  BY AdvancedIs DEF Stage
<1>2. Reopened = [y EXCEPT !.attempts = 0]
  BY DEF Reopened
<1> HIDE DEF y
<1> QED BY <1>1, <1>2 DEF UserRow

LEMMA GoesToWhat ==
  ASSUME ErasureTypeOK, NEW d \in Deleters, NEW place \in DeleterPlace, GoesTo(d, place)
  PROVE  /\ deleter' \in [Deleters -> DeletionAttempt]
         /\ deleter'[d].at = place /\ deleter'[d].found = deleter[d].found
         /\ deleter'[d].plan = deleter[d].plan /\ deleter'[d].cleared = deleter[d].cleared
         /\ \A e \in Deleters : e # d => deleter'[e] = deleter[e]
<1> DEFINE x == [deleter[d] EXCEPT !.at = place]
<1>1. deleter[d] \in DeletionAttempt
  BY DEF ErasureTypeOK
<1>2. /\ x \in DeletionAttempt /\ x.at = place /\ x.found = deleter[d].found
      /\ x.plan = deleter[d].plan /\ x.cleared = deleter[d].cleared
  BY <1>1 DEF DeletionAttempt
<1>3. deleter' = [deleter EXCEPT ![d] = x]
  BY DEF GoesTo
<1> HIDE DEF x
<1> QED BY <1>2, <1>3 DEF ErasureTypeOK

LEMMA DeleterWrite ==
  ASSUME ErasureTypeOK, NEW d \in Deleters, NEW x \in DeletionAttempt,
         deleter' = [deleter EXCEPT ![d] = x]
  PROVE  /\ deleter' \in [Deleters -> DeletionAttempt] /\ deleter'[d] = x
         /\ \A e \in Deleters : e # d => deleter'[e] = deleter[e]
  BY DEF ErasureTypeOK

-----------------------------------------------------------------------------
(* A step of the deletion that leaves the import alone. *)

Alone == UNCHANGED <<vars, identity, settled, receipt>>

LEMMA QuietCsv ==
  ASSUME DInv, UNCHANGED vars
  PROVE  IInv' /\ FilesInv' /\ (~active => \A b \in Batches : Ebb(b))
  BY IInvNext, FilesNext DEF DInv, FilesStep

LEMMA AloneSinks ==
  ASSUME DInv, Alone
  PROVE  Sinks /\ IInv' /\ FilesInv'
  BY QuietCsv DEF Alone, Sinks, vars, receipt, Unwritten

\* One attempt goes on, within its stage.
LEMMA AttemptGoes ==
  ASSUME DInv, Sinks, IInv', FilesInv', identity' \in BOOLEAN, receipt' = receipt,
         NEW d \in Deleters, deleter' \in [Deleters -> DeletionAttempt],
         \A e \in Deleters : e # d => deleter'[e] = deleter[e],
         Sure(d)', user' = user, Leases(d) => InStage(d)'
  PROVE  DInv'
<1>1. ErasureTypeOK'
  BY DEF DInv, ErasureTypeOK, Sinks, receipt
<1>2. ClosedIsClosed' /\ PlanHolds' /\ StageHolds' /\ LeaseHolds'
  BY StageStays, PlanStays, LeaseStays DEF DInv
<1>3. EInv'
  BY <1>2, EInvFrom DEF DInv
<1> QED BY <1>1, <1>3 DEF DInv

\* One attempt ends, and what it writes gives the lease back.
LEMMA AttemptEnds ==
  ASSUME DInv, Sinks, IInv', FilesInv', identity' = identity, receipt' = receipt,
         NEW d \in Deleters, NEW w \in UserRow, EndsWith(d, w),
         Leases(d) =>
            /\ w.holder = Nobody
            /\ \/ w.stage = user.stage /\ w.plan = user.plan /\ w.cleared = user.cleared
               \/ w.stage = "REQUESTED" /\ w.plan = NoPlan
  PROVE  DInv'
<1>1. /\ deleter' \in [Deleters -> DeletionAttempt] /\ deleter'[d] = Asleep
      /\ \A e \in Deleters : e # d => deleter'[e] = deleter[e]
  BY AsleepType, DeleterWrite DEF EndsWith, DInv
<1>2. Sure(d)'
  BY <1>1, AsleepIsSure
<1>3. user' \in UserRow
  BY DEF EndsWith, DInv, ErasureTypeOK
<1>4. ErasureTypeOK'
  BY <1>1, <1>3 DEF DInv, ErasureTypeOK, Sinks, receipt
<1>5. CASE ~Leases(d)
  <2>1. user' = user
    BY <1>5 DEF EndsWith
  <2> QED BY <1>1, <1>2, <1>5, <2>1, AttemptGoes DEF DInv, ErasureTypeOK
<1>6. CASE Leases(d)
  <2>1. user' = w /\ user.stage # "NONE"
    BY <1>6 DEF EndsWith, Leases, Pending
  <2>2. LeaseHolds'
    BY <1>6, <2>1, LeaseDropped
  <2>3. PlanHolds' /\ ClosedIsClosed' /\ StageHolds'
    BY <1>6, <2>1, PlanStays, PlanDropped, StageStays, StageReopens DEF DInv
  <2>4. EInv'
    BY <1>1, <1>2, <2>2, <2>3, EInvFrom DEF DInv
  <2> QED BY <1>4, <2>4 DEF DInv
<1> QED BY <1>5, <1>6

LEMMA AttemptYields ==
  ASSUME DInv, Sinks, IInv', FilesInv', identity' = identity, receipt' = receipt,
         NEW d \in Deleters,
         EndsWith(d, Yielded) \/ EndsWith(d, Advanced("REQUESTED")) \/ EndsWith(d, Reopened)
  PROVE  DInv'
<1>1. user \in UserRow /\ "REQUESTED" \in Stage
  BY DEF DInv, ErasureTypeOK, Stage
<1>2. CASE EndsWith(d, Yielded)
  BY <1>1, <1>2, YieldedIs, AttemptEnds
<1>3. CASE EndsWith(d, Advanced("REQUESTED"))
  BY <1>1, <1>3, AdvancedIs, AttemptEnds
<1>4. CASE EndsWith(d, Reopened)
  BY <1>1, <1>4, ReopenedIs, AttemptEnds
<1> QED BY <1>2, <1>3, <1>4

\* The attempt goes to a place that asks nothing new of it.
LEMMA AttemptGoesTo ==
  ASSUME DInv, Alone, NEW d \in Deleters, NEW place \in DeleterPlace, GoesTo(d, place),
         user' = user, Sure(d)', Leases(d) => InStage(d)'
  PROVE  DInv'
<1>1. /\ deleter' \in [Deleters -> DeletionAttempt]
      /\ \A e \in Deleters : e # d => deleter'[e] = deleter[e]
  BY GoesToWhat DEF DInv
<1>2. Sinks /\ IInv' /\ FilesInv' /\ identity' \in BOOLEAN /\ receipt' = receipt
  BY AloneSinks DEF Alone, DInv, ErasureTypeOK
<1> QED BY <1>1, <1>2, AttemptGoes

LEMMA AloneKeeps ==
  ASSUME Alone
  PROVE  /\ active' = active /\ flight' = flight /\ object' = object /\ row' = row /\ job' = job
         /\ identity' = identity /\ settled' = settled /\ receipt' = receipt
         /\ request' = request /\ images' = images /\ scan' = scan
         /\ (NothingLands' <=> NothingLands) /\ (Unwritten' <=> Unwritten)
         /\ \A b \in Batches : Early(b)' <=> Early(b)
         /\ \A f : Missing(f)' <=> Missing(f)
  BY DEF Alone, vars, receipt, NothingLands, Unwritten, Early, Missing

-----------------------------------------------------------------------------
(* The storage stage. *)

LEMMA ClaimDeletionStep ==
  ASSUME DInv, NEW d \in Deleters, ClaimDeletion(d) PROVE DInv'
<1> DEFINE place == CASE user.stage = "REQUESTED" -> "settling"
                      [] user.stage = "STORAGE_CLEARED" -> "obligation"
                      [] OTHER -> "records"
           u == [user EXCEPT !.holder = d, !.fresh = TRUE]
<1>1. Alone /\ Pending /\ deleter[d].at = "idle" /\ GoesTo(d, place) /\ user' = u
  BY DEF ClaimDeletion, Alone
<1>2. place \in DeleterPlace /\ place \notin Reading \cup Late /\ place # "advancing"
  BY DEF DeleterPlace, Reading, Late
<1>3. /\ u \in UserRow /\ u.holder = d /\ u.stage = user.stage
      /\ u.plan = user.plan /\ u.cleared = user.cleared
  <2>1. user \in UserRow
    BY DEF DInv, ErasureTypeOK
  <2> QED BY <2>1 DEF UserRow
<1>4. /\ place \in {"obligation", "identity", "advancing"} => user.stage = "STORAGE_CLEARED"
      /\ place \in {"records", "relations"} => user.stage = "AUTH_DELETED"
  BY <1>1 DEF Pending
<1> HIDE DEF place, u
<1>5. Sinks /\ IInv' /\ FilesInv'
  BY <1>1, AloneSinks
<1>6. /\ deleter' \in [Deleters -> DeletionAttempt] /\ deleter'[d].at = place
      /\ deleter'[d].found = deleter[d].found /\ deleter'[d].plan = deleter[d].plan
      /\ \A e \in Deleters : e # d => deleter'[e] = deleter[e]
  BY <1>1, <1>2, GoesToWhat DEF DInv
<1>7. ~active
  BY <1>1 DEF DInv, EInv, ClosedIsClosed, Pending
<1>8. Sure(d)'
  BY <1>1, <1>2, <1>6, <1>7, AloneKeeps DEF DInv, EInv, Sure, Reading, Late
<1>9. LeaseHolds'
  BY <1>1, <1>3, <1>4, <1>6 DEF LeaseHolds, Leases, InStage
<1>10. ClosedIsClosed' /\ PlanHolds' /\ StageHolds'
  BY <1>1, <1>3, <1>5, StageStays, PlanStays DEF DInv
<1>11. ErasureTypeOK'
  BY <1>1, <1>3, <1>6, AloneKeeps DEF DInv, ErasureTypeOK
<1> QED BY <1>5, <1>6, <1>8, <1>9, <1>10, <1>11, EInvFrom DEF DInv

LEMMA WaitToSettleStep ==
  ASSUME DInv, NEW d \in Deleters, WaitToSettle(d) PROVE DInv'
<1>1. Alone /\ deleter[d].at = "settling"
  BY DEF WaitToSettle, Alone
<1>2. CASE settled /\ GoesTo(d, "rows") /\ user' = user
  <2>1. "rows" \in DeleterPlace
    BY DEF DeleterPlace
  <2>2. /\ deleter'[d].at = "rows" /\ deleter'[d].found = deleter[d].found
        /\ deleter'[d].plan = deleter[d].plan
    BY <1>2, <2>1, GoesToWhat DEF DInv
  <2>3. Sure(d)'
    BY <1>1, <1>2, <2>2, AloneKeeps DEF DInv, EInv, Sure, Reading, Late
  <2>4. InStage(d)'
    BY <2>2 DEF InStage
  <2> QED BY <1>1, <1>2, <2>1, <2>3, <2>4, AttemptGoesTo
<1>3. CASE EndsWith(d, Advanced("REQUESTED"))
  BY <1>1, <1>3, AloneSinks, AloneKeeps, AttemptYields
<1> QED BY <1>2, <1>3 DEF WaitToSettle

LEMMA ReadRowsStep ==
  ASSUME DInv, NEW d \in Deleters, ReadRows(d) PROVE DInv'
<1>1. Alone /\ deleter[d].at \in {"rows", "rowsAgain"}
  BY DEF ReadRows, Alone
<1>2. CASE EndsWith(d, Yielded) \/ EndsWith(d, Advanced("REQUESTED"))
  BY <1>1, <1>2, AloneSinks, AloneKeeps, AttemptYields
<1> DEFINE place == IF deleter[d].at = "rows" THEN "jobs" ELSE "jobsAgain"
           x == [deleter[d] EXCEPT !.found = NamedByRows, !.at = place]
<1>3. CASE ~AmbiguousUpload /\ deleter' = [deleter EXCEPT ![d] = x] /\ user' = user
  <2>1. NamedByRows \in SUBSET Files /\ \A i \in Images : i \in NamedByRows => scan
    BY DEF NamedByRows, Files, DeletionAssumption
  <2>2. place \in {"jobs", "jobsAgain"} /\ (place = "jobsAgain" <=> deleter[d].at = "rowsAgain")
    BY <1>1
  <2>3. deleter[d] \in DeletionAttempt
    BY DEF DInv, ErasureTypeOK
  <2>4. x \in DeletionAttempt /\ x.at = place /\ x.found = NamedByRows /\ x.plan = deleter[d].plan
    BY <2>1, <2>2, <2>3 DEF DeletionAttempt, DeleterPlace
  <2>5. Sure(d) /\ SettledWaits /\ (scan => Unwritten)
    BY DEF DInv, EInv
  <2>6. ASSUME NEW b \in Batches
        PROVE  /\ flight[b] => Early(b)
               /\ row[b].source => b \in NamedByRows
    <3>1. settled
      BY <1>1, <2>5 DEF Sure, Reading, Late
    <3>2. flight[b] => Early(b)
      BY <1>3, <2>5, <3>1 DEF SettledWaits, AmbiguousUpload, Reserved, Held
    <3>3. row[b].source => Exists(b)
      BY DEF DInv, FilesInv, Flow
    <3> QED BY <3>2, <3>3 DEF NamedByRows
  <2> HIDE DEF x, place
  <2>7. /\ deleter' \in [Deleters -> DeletionAttempt] /\ deleter'[d] = x
        /\ \A e \in Deleters : e # d => deleter'[e] = deleter[e]
    BY <1>3, <2>4, DeleterWrite DEF DInv
  <2>8. Sure(d)'
    BY <1>1, <2>1, <2>2, <2>4, <2>5, <2>6, <2>7, AloneKeeps DEF Sure, Reading, Late
  <2>9. InStage(d)'
    BY <2>2, <2>4, <2>7 DEF InStage
  <2> QED BY <1>1, <1>3, <2>7, <2>8, <2>9, AloneSinks, AloneKeeps, AttemptGoes DEF DInv, ErasureTypeOK
<1> QED BY <1>2, <1>3 DEF ReadRows

LEMMA ReadJobsStep ==
  ASSUME DInv, NEW d \in Deleters, ReadJobs(d) PROVE DInv'
<1>1. Alone /\ deleter[d].at \in {"jobs", "jobsAgain"}
  BY DEF ReadJobs, Alone
<1>2. CASE EndsWith(d, Advanced("REQUESTED"))
  BY <1>1, <1>2, AloneSinks, AloneKeeps, AttemptYields
<1> DEFINE place == IF deleter[d].at = "jobs" THEN "planned" ELSE "verified"
           both == deleter[d].found \cup NamedByJobs
           x == [deleter[d] EXCEPT !.found = both, !.at = place]
<1>3. CASE ~EarlyPurge /\ deleter' = [deleter EXCEPT ![d] = x] /\ user' = user
  <2>1. deleter[d] \in DeletionAttempt /\ deleter[d].found \in SUBSET Files
    BY DEF DInv, ErasureTypeOK, DeletionAttempt
  <2>2. both \in SUBSET Files /\ \A i \in Images : i \in both => i \in deleter[d].found
    BY <2>1 DEF NamedByJobs, Files, DeletionAssumption
  <2>3. place \in {"planned", "verified"} /\ (place = "verified" <=> deleter[d].at = "jobsAgain")
    BY <1>1
  <2>4. x \in DeletionAttempt /\ x.at = place /\ x.found = both /\ x.plan = deleter[d].plan
    <3> HIDE DEF both
    <3> QED BY <2>1, <2>2, <2>3 DEF DeletionAttempt, DeleterPlace
  <2>5. Sure(d)
    BY DEF DInv, EInv
  <2>6. ASSUME NEW b \in Batches PROVE ~flight[b] /\ (object[b] => b \in both)
    <3>1. Flow(b)
      BY DEF DInv, FilesInv
    <3>2. ~Early(b)
      BY <1>3, <3>1 DEF EarlyPurge, JobNames, Early, Flow, Graces
    <3>3. ~flight[b]
      BY <1>1, <2>5, <3>2 DEF Sure
    <3>4. object[b] => row[b].source \/ b \in NamedByJobs
      BY <3>1 DEF Flow, Named, NamedByJobs, JobNames, Live
    <3> QED BY <1>1, <2>5, <3>3, <3>4 DEF Sure
  <2> HIDE DEF x, place, both
  <2>7. /\ deleter' \in [Deleters -> DeletionAttempt] /\ deleter'[d] = x
        /\ \A e \in Deleters : e # d => deleter'[e] = deleter[e]
    BY <1>3, <2>4, DeleterWrite DEF DInv
  <2>8. NothingLands
    BY <2>6 DEF NothingLands
  <2>9. Sure(d)'
    <3>1. settled /\ ~active
      BY <1>1, <2>5 DEF Sure, Reading, Late
    <3>2. ~active' /\ settled' /\ NothingLands'
      BY <1>1, <2>8, <3>1, AloneKeeps
    <3>3. \A b \in Batches : object'[b] => b \in deleter'[d].found
      BY <1>1, <2>4, <2>6, <2>7, AloneKeeps
    <3>4. /\ deleter'[d].at \in {"planned", "verified"}
          /\ deleter'[d].plan = deleter[d].plan
      BY <2>3, <2>4, <2>7
    <3>5. deleter'[d].at = "verified" => \A f \in deleter'[d].plan : Missing(f)'
      BY <1>1, <2>3, <2>4, <2>5, <2>7, AloneKeeps DEF Sure
    <3>6. \A i \in Images : i \in deleter'[d].found \cup deleter'[d].plan => Unwritten'
      BY <1>1, <2>2, <2>4, <2>5, <2>7, AloneKeeps DEF Sure
    <3> QED BY <3>2, <3>3, <3>4, <3>5, <3>6 DEF Sure
  <2>10. InStage(d)'
    BY <2>3, <2>4, <2>7 DEF InStage
  <2> QED BY <1>1, <1>3, <2>7, <2>9, <2>10, AloneSinks, AloneKeeps, AttemptGoes DEF DInv, ErasureTypeOK
<1>4. \/ EndsWith(d, Advanced("REQUESTED"))
      \/ /\ ~EarlyPurge /\ user' = user
         /\ deleter' = [deleter EXCEPT ![d].found = both, ![d].at = place]
  BY DEF ReadJobs
<1> HIDE DEF both, place
<1>5. [deleter EXCEPT ![d].found = both, ![d].at = place] = [deleter EXCEPT ![d] = x]
  BY DEF DInv, ErasureTypeOK, DeletionAttempt
<1> HIDE DEF x
<1> QED BY <1>2, <1>3, <1>4, <1>5

\* The order of the keys ranks every file of a plan below the size of the plan.
LEMMA FirstOfNone == \A plan \in SUBSET Files : FirstOf(plan, 0) = {}
<1> SUFFICES ASSUME NEW plan \in SUBSET Files, NEW f \in FirstOf(plan, 0) PROVE FALSE
  OBVIOUS
<1> DEFINE ahead == {g \in plan \ NoPlan : Rank[g] < Rank[f]}
<1>1. ahead \in SUBSET Files /\ Cardinality(ahead) < 0
  BY DEF FirstOf
<1> HIDE DEF ahead
<1> QED BY <1>1, FilesAreFinite

LEMMA FirstOfAll == \A plan \in SUBSET Files : plan \subseteq FirstOf(plan, Cardinality(plan))
<1> SUFFICES ASSUME NEW plan \in SUBSET Files, NEW f \in plan
             PROVE  f \in FirstOf(plan, Cardinality(plan))
  OBVIOUS
<1> DEFINE ahead == {g \in plan \ NoPlan : Rank[g] < Rank[f]}
<1>1. f \in Files /\ f # Nobody /\ Rank[f] \in Nat
  BY DEF Files, DeletionAssumption
<1>2. ahead \in SUBSET plan /\ f \notin ahead /\ ahead # plan
  BY <1>1
<1>3. Cardinality(ahead) < Cardinality(plan)
  <2> HIDE DEF ahead
  <2>1. IsFiniteSet(plan) /\ Cardinality(plan) \in Nat /\ Cardinality(ahead) \in Nat
    BY <1>2, FilesAreFinite
  <2>2. Cardinality(ahead) <= Cardinality(plan) /\ Cardinality(ahead) # Cardinality(plan)
    BY <1>2, <2>1, FS_Subset
  <2> QED BY <2>1, <2>2
<1> QED BY <1>1, <1>3 DEF FirstOf, NoPlan

LEMMA UpToType ==
  ASSUME ErasureTypeOK, NEW d \in Deleters PROVE UpTo(d) \in 0 .. Cardinality(Files)
<1>1. deleter[d] \in DeletionAttempt
  BY DEF ErasureTypeOK
<1>2. /\ Total(d) \in Nat /\ Total(d) <= Cardinality(Files) /\ deleter[d].cleared \in Nat
      /\ Cardinality(Files) \in Nat
  BY <1>1, FilesAreFinite DEF DeletionAttempt, Total
<1> QED BY <1>2 DEF UpTo, DeletionAssumption

\* An attempt stops without a write.
LEMMA AttemptStops ==
  ASSUME DInv, Sinks, IInv', FilesInv', identity' = identity, receipt' = receipt,
         NEW d \in Deleters, deleter' = [deleter EXCEPT ![d] = Asleep], user' = user
  PROVE  DInv'
<1>1. /\ deleter' \in [Deleters -> DeletionAttempt] /\ deleter'[d] = Asleep
      /\ \A e \in Deleters : e # d => deleter'[e] = deleter[e]
  BY AsleepType, DeleterWrite DEF DInv
<1>2. Sure(d)' /\ InStage(d)'
  BY <1>1, AsleepIsSure DEF InStage, Asleep
<1> QED BY <1>1, <1>2, AttemptGoes DEF DInv, ErasureTypeOK

\* An attempt goes on and saves how far it is.
LEMMA AttemptSaves ==
  ASSUME DInv, Alone, NEW d \in Deleters, Leases(d), NEW x \in DeletionAttempt,
         deleter' = [deleter EXCEPT ![d] = x], Sure(d)', InStage(d)',
         user' \in UserRow, user'.holder = user.holder, user'.stage = user.stage, PlanHolds'
  PROVE  DInv'
<1>1. /\ deleter' \in [Deleters -> DeletionAttempt]
      /\ \A e \in Deleters : e # d => deleter'[e] = deleter[e]
  BY DeleterWrite DEF DInv
<1>2. Sinks /\ IInv' /\ FilesInv'
  BY AloneSinks
<1>3. ErasureTypeOK'
  BY <1>1, AloneKeeps DEF DInv, ErasureTypeOK
<1>4. ClosedIsClosed' /\ StageHolds' /\ LeaseHolds'
  BY <1>1, <1>2, StageStays, LeaseStays DEF DInv
<1>5. EInv'
  BY <1>1, <1>2, <1>4, EInvFrom DEF DInv
<1> QED BY <1>2, <1>3, <1>5 DEF DInv

LEMMA StartClearingStep ==
  ASSUME DInv, NEW d \in Deleters, StartClearing(d) PROVE DInv'
<1>1. Alone /\ deleter[d].at = "planned"
  BY DEF StartClearing, Alone
<1> DEFINE plan == deleter[d].found
           clear(n) == [Asleep EXCEPT !.at = "clearing", !.plan = plan, !.cleared = n]
<1>2. plan \in SUBSET Files /\ user \in UserRow /\ user.cleared \in 0 .. Cardinality(Files)
      /\ 0 \in 0 .. Cardinality(Files)
  BY FilesAreFinite DEF DInv, ErasureTypeOK, DeletionAttempt, UserRow
<1>3. ASSUME NEW n \in 0 .. Cardinality(Files)
      PROVE  /\ clear(n) \in DeletionAttempt /\ clear(n).at = "clearing" /\ clear(n).found = {}
             /\ clear(n).plan = plan /\ clear(n).cleared = n
  <2> HIDE DEF plan
  <2> QED BY <1>2, <1>3 DEF Asleep, DeletionAttempt, DeleterPlace
<1>4. /\ ~active /\ settled /\ NothingLands
      /\ \A i \in Images : i \in plan => Unwritten
  BY <1>1 DEF DInv, EInv, Sure, Late
<1>5. ASSUME NEW n \in 0 .. Cardinality(Files), deleter' = [deleter EXCEPT ![d] = clear(n)],
             \A f \in FirstOf(plan, n) : Missing(f)
      PROVE  Sure(d)' /\ InStage(d)' /\ deleter' \in [Deleters -> DeletionAttempt]
             /\ \A e \in Deleters : e # d => deleter'[e] = deleter[e]
  <2> HIDE DEF plan, clear
  <2>1. /\ deleter' \in [Deleters -> DeletionAttempt] /\ deleter'[d] = clear(n)
        /\ \A e \in Deleters : e # d => deleter'[e] = deleter[e]
    BY <1>3, <1>5, DeleterWrite DEF DInv
  <2> QED BY <1>1, <1>3, <1>4, <1>5, <2>1, AloneKeeps DEF Sure, InStage, Reading, Late
<1>6. CASE user.plan = plan /\ deleter' = [deleter EXCEPT ![d] = clear(user.cleared)] /\ user' = user
  <2>1. \A f \in FirstOf(plan, user.cleared) : Missing(f)
    BY <1>6 DEF DInv, EInv, PlanHolds
  <2> HIDE DEF plan, clear
  <2>2. Sure(d)' /\ InStage(d)' /\ deleter' \in [Deleters -> DeletionAttempt]
        /\ \A e \in Deleters : e # d => deleter'[e] = deleter[e]
    BY <1>2, <1>5, <1>6, <2>1
  <2> QED BY <1>1, <1>6, <2>2, AloneSinks, AloneKeeps, AttemptGoes DEF DInv, ErasureTypeOK
<1> DEFINE u == [user EXCEPT !.plan = plan, !.cleared = 0, !.fresh = TRUE]
<1>7. CASE GoesOn(d, u, clear(0))
  <2>1. CASE ~Leases(d)
    BY <1>1, <1>7, <2>1, AloneSinks, AloneKeeps, AttemptStops DEF GoesOn
  <2>2. CASE Leases(d)
    <3>1. FirstOf(plan, 0) = {}
      BY <1>2, FirstOfNone
    <3>2. /\ u \in UserRow /\ u.holder = user.holder /\ u.stage = user.stage
          /\ u.plan = plan /\ u.cleared = 0
      <4> HIDE DEF plan
      <4> QED BY <1>2 DEF UserRow
    <3> HIDE DEF plan, clear, u
    <3>3. user' = u /\ deleter' = [deleter EXCEPT ![d] = clear(0)]
      BY <1>7, <2>2 DEF GoesOn
    <3>4. Sure(d)' /\ InStage(d)'
      BY <1>2, <1>5, <3>1, <3>3
    <3>5. PlanHolds'
      BY <1>1, <1>4, <3>1, <3>2, <3>3, AloneKeeps DEF PlanHolds
    <3>6. clear(0) \in DeletionAttempt
      BY <1>2, <1>3
    <3> QED BY <1>1, <2>2, <3>2, <3>3, <3>4, <3>5, <3>6, AttemptSaves
  <2> QED BY <2>1, <2>2
<1> QED BY <1>6, <1>7 DEF StartClearing, SamePlan

LEMMA SaveCheckpointStep ==
  ASSUME DInv, NEW d \in Deleters, SaveCheckpoint(d) PROVE DInv'
<1>1. Alone /\ deleter[d].at = "saving"
  BY DEF SaveCheckpoint, Alone
<1> DEFINE n == UpTo(d)
           x == [deleter[d] EXCEPT !.at = "clearing", !.cleared = n]
           u == [user EXCEPT !.cleared = n, !.fresh = TRUE]
<1>2. CASE deleter' = [deleter EXCEPT ![d] = Asleep] /\ user' = user
  BY <1>1, <1>2, AloneSinks, AloneKeeps, AttemptStops
<1>3. CASE /\ Leases(d) /\ user.plan = deleter[d].plan
           /\ user' = u /\ deleter' = [deleter EXCEPT ![d] = x]
  <2>1. n \in 0 .. Cardinality(Files) /\ deleter[d] \in DeletionAttempt /\ user \in UserRow
    BY UpToType DEF DInv, ErasureTypeOK
  <2>2. \A f \in FirstOf(deleter[d].plan, n) : Missing(f)
    BY <1>1 DEF DInv, EInv, Sure
  <2> HIDE DEF n
  <2>3. /\ x \in DeletionAttempt /\ x.at = "clearing" /\ x.found = deleter[d].found
        /\ x.plan = deleter[d].plan /\ x.cleared = n
    BY <2>1 DEF DeletionAttempt, DeleterPlace
  <2>4. /\ u \in UserRow /\ u.holder = user.holder /\ u.stage = user.stage
        /\ u.plan = user.plan /\ u.cleared = n
    BY <2>1 DEF UserRow
  <2> HIDE DEF x, u
  <2>5. deleter'[d] = x
    BY <1>3, <2>3, DeleterWrite DEF DInv
  <2>6. Sure(d)' /\ InStage(d)'
    BY <1>1, <2>2, <2>3, <2>5, AloneKeeps DEF DInv, EInv, Sure, InStage, Reading, Late
  <2>7. PlanHolds'
    BY <1>1, <1>3, <2>2, <2>4, AloneKeeps DEF DInv, EInv, PlanHolds
  <2> QED BY <1>1, <1>3, <2>3, <2>4, <2>6, <2>7, AttemptSaves
<1> QED BY <1>2, <1>3 DEF SaveCheckpoint, GoesOn, EndsWith

LEMMA VerifyPlanStep ==
  ASSUME DInv, NEW d \in Deleters, VerifyPlan(d) PROVE DInv'
<1>1. /\ Alone /\ deleter[d].at = "clearing" /\ user' = user /\ GoesTo(d, "rowsAgain")
      /\ deleter[d].cleared = Cardinality(deleter[d].plan)
  BY DEF VerifyPlan, Alone, Total
<1>2. deleter[d].plan \in SUBSET Files /\ "rowsAgain" \in DeleterPlace
  BY DEF DInv, ErasureTypeOK, DeletionAttempt, DeleterPlace
<1>3. \A f \in deleter[d].plan : Missing(f)
  BY <1>1, <1>2, FirstOfAll DEF DInv, EInv, Sure
<1>4. /\ deleter'[d].at = "rowsAgain" /\ deleter'[d].found = deleter[d].found
      /\ deleter'[d].plan = deleter[d].plan
  BY <1>1, <1>2, GoesToWhat DEF DInv
<1>5. Sure(d)' /\ InStage(d)'
  BY <1>1, <1>3, <1>4, AloneKeeps DEF DInv, EInv, Sure, InStage, Reading, Late
<1> QED BY <1>1, <1>2, <1>5, AttemptGoesTo

-----------------------------------------------------------------------------
(* What the deletion does to the import. *)

\* Files and records go; nothing else of the import changes.
LEMMA FilesRemoved ==
  ASSUME IInv, FilesInv, row' = row, upload' = upload, run' = run, landed' = landed,
         flight' = flight, job' = job, purge' = purge, active' = active, faults' = faults,
         object' \in [Batches -> BOOLEAN], \A b \in Batches : object'[b] => object[b],
         records' \in [Batches -> SUBSET (1 .. Chunks)],
         \A b \in Batches : records'[b] \in SUBSET records[b]
  PROVE  IInv' /\ FilesInv' /\ \A b \in Batches : Ebb(b)
<1>1. ASSUME NEW b \in Batches PROVE Flow(b)' /\ Ebb(b) /\ Steady(b)
  <2>1. flight'[b] => flight[b] /\ ~object'[b] /\ upload'[b] # "stored"
    BY DEF FilesInv, Flow, Airborne
  <2>2. Flow(b)
    BY DEF FilesInv
  <2> QED BY <2>1, <2>2, FileMoves DEF Steady
<1>2. FilesInv'
  BY <1>1, RunsStay, PurgesStay, FilesFrom
<1>3. CsvTypeOK'
  BY DEF IInv, CsvTypeOK
<1>4. Calm
  BY AgesUnchanged, MovesUnchanged, UploadKept DEF Calm
<1> QED BY <1>1, <1>2, <1>3, <1>4, JobsUnchanged, CalmStep

LEMMA FaultyCsv ==
  ASSUME DInv, UNCHANGED csvVars, Fault \/ faults' = faults
  PROVE  IInv' /\ FilesInv' /\ active' = active /\ (~active => \A b \in Batches : Ebb(b))
<1>1. /\ row' = row /\ upload' = upload /\ run' = run /\ flight' = flight /\ object' = object
      /\ records' = records /\ landed' = landed /\ job' = job /\ purge' = purge /\ active' = active
  BY DEF csvVars
<1>2. IInv /\ FilesInv
  BY DEF DInv
<1>3. CsvTypeOK'
  <2>1. faults' \in 0 .. MaxFaults
    BY <1>2, FaultType DEF IInv, CsvTypeOK
  <2> QED BY <1>1, <1>2, <2>1 DEF IInv, CsvTypeOK
<1>4. Calm
  BY <1>1, AgesUnchanged, MovesUnchanged, UploadKept DEF Calm
<1>5. IInv'
  BY <1>1, <1>2, <1>3, <1>4, JobsUnchanged, CalmStep
<1>6. FilesStep
  BY <1>1, <1>2, RunsStay, OnlyTheRun
<1> QED BY <1>1, <1>5, <1>6 DEF FilesStep

\* The purge jobs of files that are gone are closed.
LEMMA CloseJobsKeeps ==
  ASSUME IInv, FilesInv, NEW plan, CloseJobs(plan), NothingLands, ~EarlyPurge,
         \A b \in Batches : b \in plan => ~object[b],
         UNCHANGED <<imports, upload, storage, purge, active, faults>>
  PROVE  IInv' /\ FilesInv' /\ \A b \in Batches : Ebb(b)
<1>1. /\ row' = row /\ upload' = upload /\ run' = run /\ landed' = landed /\ flight' = flight
      /\ object' = object /\ records' = records /\ purge' = purge
  BY DEF imports, storage
<1> DEFINE shut(b, k) == [job[b][k] EXCEPT !.state = "COMPLETE", !.holder = Nobody, !.fresh = FALSE]
<1>2. ASSUME NEW b \in Batches, NEW k \in Kinds
      PROVE  /\ job[b][k] \in PurgeJob /\ shut(b, k) \in PurgeJob
             /\ shut(b, k).state = "COMPLETE" /\ shut(b, k).early = job[b][k].early
  <2>1. job[b][k] \in PurgeJob
    BY JobOfType DEF IInv
  <2> QED BY <2>1 DEF PurgeJob
<1>3. job' = [b \in Batches |-> [k \in Kinds |->
                IF b \in plan /\ JobNames(b, k) THEN shut(b, k) ELSE job[b][k]]]
  BY DEF CloseJobs
<1> HIDE DEF shut
<1>4. CsvTypeOK'
  <2>1. job' \in [Batches -> [Kinds -> PurgeJob]]
    BY <1>2, <1>3
  <2> QED BY <1>1, <2>1 DEF IInv, CsvTypeOK
<1>5. JobsKnown
  BY <1>2, <1>3 DEF JobsKnown, JobNames
<1>6. Calm
  BY <1>1, AgesUnchanged, MovesUnchanged, UploadKept DEF Calm
<1>7. ASSUME NEW b \in Batches PROVE Flow(b)' /\ Ebb(b) /\ Steady(b)
  <2>1. Flow(b) /\ ~flight[b]
    BY DEF FilesInv, NothingLands
  <2>2. CASE b \notin plan
    <3>1. job'[b] = [k \in Kinds |-> job[b][k]]
      BY <1>3, <2>2
    <3>2. job[b] \in [Kinds -> PurgeJob]
      BY DEF IInv, CsvTypeOK
    <3>3. job'[b] = job[b]
      BY <3>1, <3>2
    <3> QED BY <1>1, <2>1, <3>3, Untouched DEF Steady
  <2>3. CASE b \in plan
    <3>1. ~object[b]
      BY <2>3
    <3>2. Graces(b)'
      <4> SUFFICES ASSUME NEW k \in Kinds
                   PROVE  job'[b][k].early => job'[b][k].state = "PENDING" /\ job'[b][k].attempt = 0
        BY <1>1, <2>1 DEF Graces
      <4>1. CASE JobNames(b, k)
        <5>1. ~job[b][k].early /\ job'[b][k] = shut(b, k)
          BY <1>3, <2>3, <4>1 DEF EarlyPurge
        <5> QED BY <1>2, <5>1
      <4>2. CASE ~JobNames(b, k)
        BY <1>3, <2>1, <4>2 DEF Flow, Graces
      <4> QED BY <4>1, <4>2
    <3>3. Airborne(b)'
      BY <1>1, <2>1 DEF Airborne
    <3> QED BY <1>1, <2>1, <3>1, <3>2, <3>3 DEF Flow, Ebb, Steady, Exists
  <2> QED BY <2>2, <2>3
<1>8. FilesInv'
  BY <1>1, <1>7, RunsStay, PurgesStay, FilesFrom
<1> QED BY <1>1, <1>4, <1>5, <1>6, <1>7, <1>8, CalmStep

\* The rows go when nothing is stored and nothing can land.
LEMMA RowsGoneKeeps ==
  ASSUME IInv, FilesInv, RowsGone, NothingLands, \A b \in Batches : ~object[b],
         UNCHANGED <<run, landed, upload, storage, purge, active, faults>>
  PROVE  IInv' /\ FilesInv' /\ \A b \in Batches : Ebb(b)
<1> DEFINE gone(b) == [Released(b, "GONE") EXCEPT !.source = FALSE]
<1>1. /\ upload' = upload /\ run' = run /\ landed' = landed /\ flight' = flight /\ object' = object
      /\ purge' = purge
  BY DEF storage
<1>2. ASSUME NEW b \in Batches
      PROVE  /\ row[b] \in BatchRow /\ gone(b) \in BatchRow /\ gone(b).state = "GONE"
             /\ ~gone(b).source /\ gone(b).processed = row[b].processed
             /\ gone(b).staged = row[b].staged
  <2>1. row[b] \in BatchRow
    BY RowOf DEF IInv
  <2> QED BY <2>1 DEF Released, BatchRow, RowState
<1>3. row' = [b \in Batches |-> IF Exists(b) THEN gone(b) ELSE row[b]]
  BY DEF RowsGone
<1> HIDE DEF gone
<1>4. /\ records' = [b \in Batches |-> {}]
      /\ job' = [b \in Batches |-> [k \in Kinds |-> NoJob]]
      /\ NoJob \in PurgeJob /\ NoJob.state = "NONE" /\ ~NoJob.early
  BY DEF RowsGone, NoJob, PurgeJob
<1>5. CsvTypeOK'
  <2>1. row' \in [Batches -> BatchRow]
    BY <1>2, <1>3
  <2>2. job' \in [Batches -> [Kinds -> PurgeJob]] /\ records' \in [Batches -> SUBSET (1 .. Chunks)]
    BY <1>4
  <2> QED BY <1>1, <2>1, <2>2 DEF IInv, CsvTypeOK, storage
<1>6. \A b \in Batches : Ages(b)
  BY <1>2, <1>3 DEF Ages
<1>7. JobsKnown
  BY <1>4 DEF JobsKnown
<1>8. Calm
  BY <1>1, <1>6, MovesUnchanged, UploadKept DEF Calm
<1>9. ASSUME NEW b \in Batches PROVE Flow(b)' /\ Ebb(b) /\ Steady(b)
  <2>1. Flow(b) /\ ~flight[b] /\ ~object[b]
    BY DEF FilesInv, NothingLands
  <2>2. ~row'[b].source /\ (row'[b].state = "NONE" => row[b].state = "NONE")
    BY <1>2, <1>3, <2>1 DEF Flow
  <2>3. Graces(b)' /\ Airborne(b)'
    BY <1>1, <1>4, <2>1 DEF Graces, Airborne
  <2> QED BY <1>1, <1>4, <2>1, <2>2, <2>3 DEF Flow, Ebb, Steady
<1>10. FilesInv'
  BY <1>1, <1>9, RunsStay, PurgesStay, FilesFrom
<1> QED BY <1>1, <1>5, <1>7, <1>8, <1>9, <1>10, CalmStep

-----------------------------------------------------------------------------
(* The end of the storage stage. *)

LEMMA RemoveFilesStep ==
  ASSUME DInv, NEW d \in Deleters, RemoveFiles(d) PROVE DInv'
<1> DEFINE x == deleter[d]
           part == FirstOf(x.plan, UpTo(d)) \ FirstOf(x.plan, x.cleared)
<1>1. /\ x.at = "clearing" /\ GoesTo(d, "saving") /\ user' = user
      /\ object' = [b \in Batches |-> object[b] /\ b \notin part]
      /\ images' = images \ part
      /\ row' = row /\ run' = run /\ records' = records /\ landed' = landed /\ upload' = upload
      /\ flight' = flight /\ job' = job /\ purge' = purge /\ active' = active /\ faults' = faults
      /\ identity' = identity /\ settled' = settled /\ request' = request /\ scan' = scan
  BY DEF RemoveFiles, imports, purging
<1>2. object' \in [Batches -> BOOLEAN] /\ \A b \in Batches : object'[b] => object[b]
  BY <1>1 DEF DInv, IInv, CsvTypeOK
<1>3. records \in [Batches -> SUBSET (1 .. Chunks)]
  BY DEF DInv, IInv, CsvTypeOK
<1>4. IInv' /\ FilesInv' /\ \A b \in Batches : Ebb(b)
  BY <1>1, <1>2, <1>3, FilesRemoved DEF DInv
<1>5. Sinks
  BY <1>1, <1>4 DEF Sinks, Unwritten
<1>6. "saving" \in DeleterPlace
  BY DEF DeleterPlace
<1>7. /\ deleter' \in [Deleters -> DeletionAttempt]
      /\ deleter'[d].at = "saving" /\ deleter'[d].found = deleter[d].found
      /\ deleter'[d].plan = deleter[d].plan /\ deleter'[d].cleared = deleter[d].cleared
      /\ \A e \in Deleters : e # d => deleter'[e] = deleter[e]
  BY <1>1, <1>6, GoesToWhat DEF DInv
<1>8. Sure(d) /\ ~active /\ settled /\ NothingLands
  BY <1>1 DEF DInv, EInv, Sure, Late
<1>9. \A f \in FirstOf(x.plan, UpTo(d)) : Missing(f)'
  <2> SUFFICES ASSUME NEW f \in FirstOf(x.plan, UpTo(d)) PROVE Missing(f)'
    OBVIOUS
  <2>1. CASE f \in part
    <3> HIDE DEF part
    <3> QED BY <1>1, <2>1 DEF Missing
  <2>2. CASE f \notin part
    <3>1. Missing(f)
      BY <1>1, <1>8, <2>2 DEF Sure
    <3> QED BY <1>1, <1>2, <3>1 DEF Missing
  <2> QED BY <2>1, <2>2
<1>10. UpTo(d)' = UpTo(d)
  BY <1>7 DEF UpTo, Total
<1>11. Sure(d)'
  BY <1>1, <1>7, <1>8, <1>9, <1>10 DEF Sure, Reading, Late, NothingLands, Unwritten
<1>12. InStage(d)'
  BY <1>7 DEF InStage
<1>13. ErasureTypeOK'
  BY <1>1, <1>7 DEF DInv, ErasureTypeOK
<1>14. ClosedIsClosed' /\ PlanHolds' /\ StageHolds' /\ LeaseHolds'
  BY <1>1, <1>5, <1>7, <1>12, StageStays, PlanStays, LeaseStays DEF DInv
<1> QED BY <1>4, <1>5, <1>7, <1>11, <1>13, <1>14, EInvFrom DEF DInv

\* An attempt ends and brings the deletion to a later stage.
LEMMA StageAdvances ==
  ASSUME DInv, Sinks, IInv', FilesInv', NEW d \in Deleters, NEW s \in Stage,
         user.stage # "NONE", s # "NONE", user' = Advanced(s), ErasureTypeOK',
         deleter' = [deleter EXCEPT ![d] = Asleep],
         \A b \in Batches : ~object'[b] /\ ~flight'[b],
         s \in {"AUTH_DELETED", "GONE"} => ~identity'
  PROVE  DInv'
<1>1. user' \in UserRow /\ user'.holder = Nobody /\ user'.stage = s /\ user'.plan = NoPlan
  BY AdvancedIs DEF DInv, ErasureTypeOK
<1>2. /\ deleter'[d] = Asleep
      /\ \A e \in Deleters : e # d => deleter'[e] = deleter[e]
  BY AsleepType, DeleterWrite DEF DInv
<1>3. ClosedIsClosed'
  BY <1>1 DEF DInv, EInv, ClosedIsClosed, Sinks
<1>4. StageHolds'
  BY <1>1 DEF StageHolds, ClearedMeansCleared
<1>5. EInv'
  BY <1>1, <1>2, <1>3, <1>4, AsleepIsSure, PlanDropped, LeaseDropped, EInvFrom DEF DInv
<1> QED BY <1>5 DEF DInv

LEMMA FinishStorageStep ==
  ASSUME DInv, NEW d \in Deleters, FinishStorage(d) PROVE DInv'
<1> DEFINE x == deleter[d]
           whole == Leases(d) /\ user.plan = x.plan /\ user.cleared = Total(d)
           u == [Yielded EXCEPT !.plan = x.found, !.cleared = 0]
<1>1. /\ x.at = "verified"
      /\ UNCHANGED <<imports, upload, storage, purge, active, faults>>
      /\ UNCHANGED <<identity, settled, receipt>>
  BY DEF FinishStorage
<1>2. Sure(d) /\ ~active /\ settled /\ NothingLands
  BY <1>1 DEF DInv, EInv, Sure, Late
<1>3. x \in DeletionAttempt /\ user \in UserRow
  BY DEF DInv, ErasureTypeOK
<1>4. ASSUME job' = job PROVE Alone
  BY <1>1, <1>4 DEF Alone, vars, imports, storage
<1>5. CASE whole /\ EndsWith(d, u) /\ job' = job
  <2>1. Alone
    BY <1>4, <1>5
  <2>2. x.found \in SUBSET Files /\ 0 \in 0 .. Cardinality(Files)
    BY <1>3, FilesAreFinite DEF DeletionAttempt
  <2>3. /\ u \in UserRow /\ u.holder = Nobody /\ u.stage = user.stage
        /\ u.plan = x.found /\ u.cleared = 0
    <3> DEFINE y == Yielded
               found == x.found
    <3>1. y \in UserRow /\ y.holder = Nobody /\ y.stage = user.stage
      BY <1>3, YieldedIs
    <3>2. u = [y EXCEPT !.plan = found, !.cleared = 0]
      OBVIOUS
    <3> HIDE DEF y, u, found
    <3> QED BY <2>2, <3>1, <3>2 DEF UserRow, found
  <2> HIDE DEF u
  <2>4. user' = u /\ deleter' = [deleter EXCEPT ![d] = Asleep]
    BY <1>5 DEF EndsWith
  <2>5. /\ deleter' \in [Deleters -> DeletionAttempt] /\ deleter'[d] = Asleep
        /\ \A e \in Deleters : e # d => deleter'[e] = deleter[e]
    BY <2>4, AsleepType, DeleterWrite DEF DInv
  <2>6. Sinks /\ IInv' /\ FilesInv'
    BY <2>1, AloneSinks
  <2>7. PlanHolds'
    <3>1. FirstOf(u.plan, u.cleared) = {}
      BY <2>2, <2>3, FirstOfNone
    <3>2. \A i \in Images : i \in u.plan => Unwritten
      BY <1>2, <2>3 DEF Sure
    <3> QED BY <1>2, <2>1, <2>4, <3>1, <3>2, AloneKeeps DEF PlanHolds
  <2>8. ErasureTypeOK'
    BY <2>1, <2>3, <2>4, <2>5, AloneKeeps DEF DInv, ErasureTypeOK
  <2>9. ClosedIsClosed' /\ StageHolds' /\ LeaseHolds'
    BY <2>3, <2>4, <2>6, StageStays, LeaseDropped DEF DInv
  <2> QED BY <2>5, <2>6, <2>7, <2>8, <2>9, AsleepIsSure, EInvFrom DEF DInv
<1>6. CASE /\ whole /\ x.found = x.plan /\ ~EarlyPurge
           /\ EndsWith(d, Advanced("STORAGE_CLEARED")) /\ CloseJobs(x.plan)
  <2>1. \A b \in Batches : ~object[b] /\ ~flight[b]
    <3>1. ASSUME NEW b \in Batches, object[b] PROVE FALSE
      <4>1. b \in x.plan
        BY <1>1, <1>2, <1>6, <3>1 DEF Sure
      <4> QED BY <1>1, <1>2, <3>1, <4>1 DEF Sure, Missing
    <3> QED BY <1>2, <3>1 DEF NothingLands
  <2>2. IInv' /\ FilesInv' /\ \A b \in Batches : Ebb(b)
    BY <1>1, <1>2, <1>6, <2>1, CloseJobsKeeps DEF DInv
  <2>3. Sinks
    BY <1>1, <2>2 DEF Sinks, receipt, Unwritten
  <2>4. /\ user' = Advanced("STORAGE_CLEARED") /\ deleter' = [deleter EXCEPT ![d] = Asleep]
        /\ user.stage # "NONE" /\ "STORAGE_CLEARED" \in Stage
    BY <1>6 DEF EndsWith, Leases, Pending, Stage
  <2>5. user' \in UserRow /\ deleter' \in [Deleters -> DeletionAttempt]
    BY <1>3, <2>4, AdvancedIs, AsleepType, DeleterWrite DEF DInv
  <2>6. ErasureTypeOK'
    BY <1>1, <2>5 DEF DInv, ErasureTypeOK, receipt
  <2>7. \A b \in Batches : ~object'[b] /\ ~flight'[b]
    BY <1>1, <2>1 DEF storage
  <2> QED BY <2>2, <2>3, <2>4, <2>6, <2>7, StageAdvances
<1>7. CASE EndsWith(d, IF whole THEN Advanced("REQUESTED") ELSE user) /\ job' = job
  <2>1. Alone
    BY <1>4, <1>7
  <2>2. CASE EndsWith(d, Advanced("REQUESTED"))
    BY <2>1, <2>2, AloneSinks, AloneKeeps, AttemptYields
  <2>3. CASE EndsWith(d, user)
    BY <2>1, <2>3, AloneSinks, AloneKeeps, AttemptStops DEF EndsWith
  <2> QED BY <1>7, <2>2, <2>3
<1> QED BY <1>5, <1>6, <1>7 DEF FinishStorage

-----------------------------------------------------------------------------
(* The identity and the rows. *)

LEMMA CheckObligationStep ==
  ASSUME DInv, NEW d \in Deleters, CheckObligation(d) PROVE DInv'
<1>1. Alone /\ deleter[d].at = "obligation"
  BY DEF CheckObligation, Alone
<1>2. CASE EndsWith(d, Reopened)
  BY <1>1, <1>2, AloneSinks, AloneKeeps, AttemptYields
<1>3. CASE GoesTo(d, "identity") /\ user' = user
  <2>1. "identity" \in DeleterPlace
    BY DEF DeleterPlace
  <2>2. /\ deleter'[d].at = "identity" /\ deleter'[d].found = deleter[d].found
        /\ deleter'[d].plan = deleter[d].plan
    BY <1>3, <2>1, GoesToWhat DEF DInv
  <2>3. Sure(d)'
    BY <1>1, <2>2, AloneKeeps DEF DInv, EInv, Sure, Reading, Late
  <2>4. Leases(d) => InStage(d)'
    BY <1>1, <1>3, <2>2 DEF DInv, EInv, LeaseHolds, InStage
  <2> QED BY <1>1, <1>3, <2>1, <2>3, <2>4, AttemptGoesTo
<1> QED BY <1>2, <1>3 DEF CheckObligation

LEMMA DeleteIdentityStep ==
  ASSUME DInv, NEW d \in Deleters, DeleteIdentity(d) PROVE DInv'
<1>1. /\ deleter[d].at = "identity" /\ identity' = FALSE /\ GoesTo(d, "advancing")
      /\ UNCHANGED vars /\ user' = user /\ settled' = settled /\ receipt' = receipt
  BY DEF DeleteIdentity
<1>2. Sinks /\ IInv' /\ FilesInv'
  BY <1>1, QuietCsv DEF Sinks, vars, receipt, Unwritten
<1>3. "advancing" \in DeleterPlace
  BY DEF DeleterPlace
<1>4. /\ deleter' \in [Deleters -> DeletionAttempt]
      /\ deleter'[d].at = "advancing" /\ deleter'[d].found = deleter[d].found
      /\ deleter'[d].plan = deleter[d].plan
      /\ \A e \in Deleters : e # d => deleter'[e] = deleter[e]
  BY <1>1, <1>3, GoesToWhat DEF DInv
<1>5. Sure(d)'
  BY <1>1, <1>2, <1>4 DEF DInv, EInv, Sure, Sinks, Reading, Late
<1>6. Leases(d) => InStage(d)'
  BY <1>1, <1>4 DEF DInv, EInv, LeaseHolds, InStage
<1> QED BY <1>1, <1>2, <1>4, <1>5, <1>6, AttemptGoes

LEMMA AdvanceAuthStep ==
  ASSUME DInv, NEW d \in Deleters, AdvanceAuth(d) PROVE DInv'
<1>1. Alone /\ deleter[d].at = "advancing" /\ EndsWith(d, Advanced("AUTH_DELETED"))
  BY DEF AdvanceAuth, Alone
<1>2. Sinks /\ IInv' /\ FilesInv'
  BY <1>1, AloneSinks
<1>3. CASE ~Leases(d)
  BY <1>1, <1>2, <1>3, AloneKeeps, AttemptStops DEF EndsWith
<1>4. CASE Leases(d)
  <2>1. user.stage = "STORAGE_CLEARED" /\ ~identity
    BY <1>1, <1>4 DEF DInv, EInv, LeaseHolds, InStage, Sure
  <2>2. \A b \in Batches : ~object'[b] /\ ~flight'[b]
    BY <1>1, <2>1, AloneKeeps DEF DInv, EInv, StageHolds, ClearedMeansCleared
  <2>3. /\ user' = Advanced("AUTH_DELETED") /\ deleter' = [deleter EXCEPT ![d] = Asleep]
        /\ "AUTH_DELETED" \in Stage
    BY <1>1, <1>4 DEF EndsWith, Stage
  <2>4. user' \in UserRow /\ deleter' \in [Deleters -> DeletionAttempt]
    BY <2>3, AdvancedIs, AsleepType, DeleterWrite DEF DInv, ErasureTypeOK
  <2>5. ErasureTypeOK' /\ ~identity'
    BY <1>1, <2>1, <2>4, AloneKeeps DEF DInv, ErasureTypeOK
  <2> QED BY <1>2, <2>1, <2>2, <2>3, <2>5, StageAdvances
<1> QED BY <1>3, <1>4

LEMMA DeleteRecordsStep ==
  ASSUME DInv, NEW d \in Deleters, DeleteRecords(d) PROVE DInv'
<1>1. /\ deleter[d].at = "records"
      /\ UNCHANGED <<row, run, landed, upload, storage, purging, active, faults>>
      /\ user' = user /\ identity' = identity /\ settled' = settled /\ receipt' = receipt
  BY DEF DeleteRecords
<1>2. CASE records' = records /\ deleter' = [deleter EXCEPT ![d] = Asleep]
  <2>1. Alone
    BY <1>1, <1>2 DEF Alone, vars, storage, purging
  <2> QED BY <1>1, <1>2, <2>1, AloneSinks, AttemptStops
<1>3. CASE Leases(d) /\ records' = [b \in Batches |-> {}] /\ GoesTo(d, "relations")
  <2>1. IInv' /\ FilesInv' /\ \A b \in Batches : Ebb(b)
    <3>1. object \in [Batches -> BOOLEAN]
      BY DEF DInv, IInv, CsvTypeOK
    <3> QED BY <1>1, <1>3, <3>1, FilesRemoved DEF DInv, storage, purging
  <2>2. Sinks
    BY <1>1, <2>1 DEF Sinks, receipt, Unwritten
  <2>3. "relations" \in DeleterPlace
    BY DEF DeleterPlace
  <2>4. /\ deleter' \in [Deleters -> DeletionAttempt]
        /\ deleter'[d].at = "relations" /\ deleter'[d].found = deleter[d].found
        /\ deleter'[d].plan = deleter[d].plan
        /\ \A e \in Deleters : e # d => deleter'[e] = deleter[e]
    BY <1>3, <2>3, GoesToWhat DEF DInv
  <2>5. Sure(d)'
    BY <1>1, <2>2, <2>4 DEF DInv, EInv, Sure, Sinks, Reading, Late
  <2>6. InStage(d)'
    BY <1>1, <1>3, <2>4 DEF DInv, EInv, LeaseHolds, InStage
  <2>7. identity' \in BOOLEAN
    BY <1>1 DEF DInv, ErasureTypeOK
  <2> QED BY <1>1, <2>1, <2>2, <2>4, <2>5, <2>6, <2>7, AttemptGoes
<1> QED BY <1>2, <1>3 DEF DeleteRecords

LEMMA DeleteRowsStep ==
  ASSUME DInv, NEW d \in Deleters, DeleteRows(d) PROVE DInv'
<1>1. /\ deleter[d].at = "relations"
      /\ UNCHANGED <<run, landed, upload, storage, purge, active, faults>>
      /\ identity' = identity /\ settled' = settled /\ request' = request /\ images' = images
  BY DEF DeleteRows
<1>2. CASE EndsWith(d, Reopened) /\ UNCHANGED <<row, records, job, scan>>
  <2>1. Alone
    BY <1>1, <1>2 DEF Alone, vars, storage, receipt
  <2> QED BY <1>2, <2>1, AloneSinks, AloneKeeps, AttemptYields
<1>3. CASE MayDeleteRows(d) /\ EndsWith(d, Advanced("GONE")) /\ RowsGone
  <2>1. user.stage = "AUTH_DELETED" /\ Leases(d)
    BY <1>1, <1>3 DEF MayDeleteRows, DInv, EInv, LeaseHolds, InStage
  <2>2. ~identity /\ \A b \in Batches : ~object[b] /\ ~flight[b]
    BY <2>1 DEF DInv, EInv, StageHolds, ClearedMeansCleared
  <2>3. IInv' /\ FilesInv' /\ \A b \in Batches : Ebb(b)
    BY <1>1, <1>3, <2>2, RowsGoneKeeps DEF DInv, NothingLands
  <2>4. scan' = FALSE
    BY <1>3 DEF RowsGone
  <2>5. Sinks
    BY <1>1, <2>3, <2>4 DEF Sinks, Unwritten
  <2>6. /\ user' = Advanced("GONE") /\ deleter' = [deleter EXCEPT ![d] = Asleep]
        /\ "GONE" \in Stage
    BY <1>3, <2>1 DEF EndsWith, Stage
  <2>7. user' \in UserRow /\ deleter' \in [Deleters -> DeletionAttempt]
    BY <2>6, AdvancedIs, AsleepType, DeleterWrite DEF DInv, ErasureTypeOK
  <2>8. ErasureTypeOK'
    BY <1>1, <2>4, <2>7 DEF DInv, ErasureTypeOK
  <2>9. ~identity' /\ \A b \in Batches : ~object'[b] /\ ~flight'[b]
    BY <1>1, <2>2 DEF storage
  <2> QED BY <2>1, <2>3, <2>5, <2>6, <2>8, <2>9, StageAdvances
<1> QED BY <1>2, <1>3 DEF DeleteRows

-----------------------------------------------------------------------------
(* Attempts fail and die. *)

LEMMA FaultSinks ==
  ASSUME DInv, UNCHANGED csvVars, Fault \/ faults' = faults,
         UNCHANGED <<identity, settled, receipt>>
  PROVE  Sinks /\ IInv' /\ FilesInv'
  BY FaultyCsv DEF Sinks, receipt, Unwritten

LEMMA DeletionFailsStep ==
  ASSUME DInv, NEW d \in Deleters, DeletionFails(d) PROVE DInv'
<1>1. /\ deleter[d].at # "idle" /\ GoesTo(d, "failing") /\ user' = user
      /\ identity' = identity /\ receipt' = receipt
  BY DEF DeletionFails
<1>2. Sinks /\ IInv' /\ FilesInv'
  BY FaultSinks DEF DeletionFails
<1>3. "failing" \in DeleterPlace
  BY DEF DeleterPlace
<1>4. /\ deleter' \in [Deleters -> DeletionAttempt]
      /\ deleter'[d].at = "failing" /\ deleter'[d].found = deleter[d].found
      /\ deleter'[d].plan = deleter[d].plan
      /\ \A e \in Deleters : e # d => deleter'[e] = deleter[e]
  BY <1>1, <1>3, GoesToWhat DEF DInv
<1>5. Sure(d)' /\ InStage(d)'
  BY <1>1, <1>2, <1>4 DEF DInv, EInv, Sure, InStage, Sinks, Reading, Late
<1> QED BY <1>1, <1>2, <1>4, <1>5, AttemptGoes DEF DInv, ErasureTypeOK

LEMMA RecordDeletionFailureStep ==
  ASSUME DInv, NEW d \in Deleters, RecordDeletionFailure(d) PROVE DInv'
<1> DEFINE y == Yielded
           u == [y EXCEPT !.attempts = @ + 1]
<1>1. Alone /\ EndsWith(d, u)
  BY DEF RecordDeletionFailure, Alone
<1>2. /\ y \in UserRow /\ y.holder = Nobody /\ y.stage = user.stage
      /\ y.plan = user.plan /\ y.cleared = user.cleared
  BY YieldedIs DEF DInv, ErasureTypeOK
<1> HIDE DEF y
<1>3. /\ u \in UserRow /\ u.holder = Nobody /\ u.stage = user.stage
      /\ u.plan = user.plan /\ u.cleared = user.cleared
  BY <1>2 DEF UserRow
<1> HIDE DEF u
<1> QED BY <1>1, <1>3, AloneSinks, AloneKeeps, AttemptEnds

LEMMA CrashDeleterStep ==
  ASSUME DInv, NEW d \in Deleters, CrashDeleter(d) PROVE DInv'
<1>1. Sinks /\ IInv' /\ FilesInv'
  BY FaultSinks DEF CrashDeleter
<1> QED BY <1>1, AttemptStops DEF CrashDeleter

LEMMA DeletionLeaseLapsesStep ==
  ASSUME DInv, DeletionLeaseLapses PROVE DInv'
<1> DEFINE u == [user EXCEPT !.fresh = FALSE]
<1>1. /\ user' = u /\ deleter' = deleter /\ identity' = identity /\ settled' = settled
      /\ receipt' = receipt
  BY DEF DeletionLeaseLapses
<1>2. Sinks /\ IInv' /\ FilesInv'
  BY <1>1, FaultSinks DEF DeletionLeaseLapses
<1>3. /\ u \in UserRow /\ u.holder = user.holder /\ u.stage = user.stage
      /\ u.plan = user.plan /\ u.cleared = user.cleared
  <2>1. user \in UserRow
    BY DEF DInv, ErasureTypeOK
  <2> QED BY <2>1 DEF UserRow
<1> HIDE DEF u
<1>4. EInv'
  BY <1>1, <1>2, <1>3, EInvBeside DEF DInv
<1>5. ErasureTypeOK'
  BY <1>1, <1>3 DEF DInv, ErasureTypeOK, receipt
<1> QED BY <1>2, <1>4, <1>5 DEF DInv

-----------------------------------------------------------------------------
(* What runs beside the deletion. *)

\* The request that uploads the receipt.
LEMMA ReceiptGoes ==
  ASSUME DInv, UNCHANGED csvVars, Fault \/ faults' = faults, UNCHANGED erasing,
         request' \in RequestPlace, images' \in SUBSET Images, scan' \in BOOLEAN,
         Unwritten => Unwritten' /\ images' \subseteq images, scan' => scan \/ Unwritten'
  PROVE  DInv'
<1>1. user' = user /\ identity' = identity /\ settled' = settled /\ deleter' = deleter
  BY DEF erasing
<1>2. IInv' /\ FilesInv' /\ Sinks
  BY <1>1, FaultyCsv DEF Sinks
<1>3. EInv'
  BY <1>1, <1>2, EInvBeside DEF DInv
<1>4. ErasureTypeOK'
  BY <1>1 DEF DInv, ErasureTypeOK
<1> QED BY <1>2, <1>3, <1>4 DEF DInv

LEMMA ReceiptSteps ==
  ASSUME DInv, BeginUpload \/ ReceiptStep \/ StoreFails \/ CreateIsUnanswered PROVE DInv'
<1>1. request \in RequestPlace /\ images \in SUBSET Images /\ scan \in BOOLEAN
  BY DEF DInv, ErasureTypeOK
<1>2. CASE BeginUpload
  <2>1. UNCHANGED csvVars /\ faults' = faults
    BY <1>2 DEF BeginUpload, vars, csvVars
  <2> QED BY <1>1, <1>2, <2>1, ReceiptGoes DEF BeginUpload, Unwritten, RequestPlace
<1>3. ASSUME NEW i \in Images, StoreImage(i) PROVE DInv'
  <2>1. UNCHANGED csvVars /\ faults' = faults
    BY <1>3 DEF StoreImage, vars, csvVars
  <2>2. /\ request = "storing" /\ images' = images \cup {i} /\ UNCHANGED erasing
        /\ request' = request /\ scan' = scan
    BY <1>3 DEF StoreImage
  <2> QED BY <1>1, <2>1, <2>2, ReceiptGoes DEF Unwritten
<1>4. CASE StoreFails
  BY <1>1, <1>4, ReceiptGoes DEF StoreFails, Unwritten, RequestPlace
<1>5. CASE CreateScan
  <2>1. UNCHANGED csvVars /\ faults' = faults
    BY <1>5 DEF CreateScan, vars, csvVars
  <2> QED BY <1>1, <1>5, <2>1, ReceiptGoes DEF CreateScan, Unwritten, RequestPlace
<1>6. CASE CreateIsUnanswered
  BY <1>1, <1>6, ReceiptGoes DEF CreateIsUnanswered, Unwritten, RequestPlace
<1>7. CASE UndoUpload
  BY <1>1, <1>7, ReceiptGoes DEF UndoUpload, Unwritten, RequestPlace
<1> QED BY <1>2, <1>3, <1>4, <1>5, <1>6, <1>7 DEF ReceiptStep

\* The account is closed while no attempt is under way.
LEMMA RequestDeletionStep ==
  ASSUME DInv, RequestDeletion PROVE DInv'
<1> DEFINE u == [NotDeleted EXCEPT !.stage = "REQUESTED"]
<1>1. /\ CloseAccount /\ user' = u /\ identity' = identity /\ settled' = settled
      /\ deleter' = deleter /\ receipt' = receipt
  BY DEF RequestDeletion
<1>2. /\ u \in UserRow /\ u.stage = "REQUESTED" /\ u.holder = Nobody /\ u.plan = NoPlan
  <2>1. NotDeleted \in UserRow
    BY AsleepType
  <2> QED BY <2>1 DEF UserRow, Stage, NotDeleted
<1> HIDE DEF u
<1>3. IInv' /\ FilesInv'
  BY <1>1, IInvNext, FilesNext DEF DInv, FilesStep, Next
<1>4. active /\ active' = FALSE
  BY <1>1 DEF CloseAccount
<1>5. ErasureTypeOK'
  BY <1>1, <1>2 DEF DInv, ErasureTypeOK, receipt
<1>6. ClosedIsClosed'
  BY <1>1, <1>2, <1>4 DEF ClosedIsClosed
<1>7. SettledWaits' /\ (scan' => Unwritten')
  BY <1>1, <1>4 DEF DInv, EInv, SettledWaits, receipt, Unwritten
<1>8. PlanHolds' /\ LeaseHolds'
  BY <1>1, <1>2, PlanDropped, LeaseDropped
<1>9. StageHolds'
  BY <1>1, <1>2 DEF StageHolds, ClearedMeansCleared
<1>10. ASSUME NEW d \in Deleters PROVE Sure(d)'
  <2>1. Sure(d) /\ deleter[d].at = "idle"
    BY <1>4 DEF DInv, EInv, Sure
  <2>2. deleter'[d] = deleter[d]
    BY <1>1
  <2>3. Unwritten' <=> Unwritten
    BY <1>1 DEF receipt, Unwritten
  <2> QED BY <2>1, <2>2, <2>3 DEF Sure, Reading, Late
<1> QED BY <1>3, <1>5, <1>6, <1>7, <1>8, <1>9, <1>10 DEF DInv, EInv

LEMMA SettleStep ==
  ASSUME DInv, Settle PROVE DInv'
<1>1. /\ settled' = TRUE /\ UNCHANGED vars /\ user' = user /\ identity' = identity
      /\ deleter' = deleter /\ receipt' = receipt /\ user.stage # "NONE"
  BY DEF Settle
<1>2. IInv' /\ FilesInv'
  BY <1>1, QuietCsv
<1>3. /\ active' = active /\ flight' = flight /\ object' = object /\ row' = row /\ job' = job
      /\ request' = request /\ images' = images /\ scan' = scan
  BY <1>1 DEF vars, receipt
<1>4. ~active
  BY <1>1 DEF DInv, EInv, ClosedIsClosed
<1>5. SettledWaits'
  BY <1>1, <1>3, <1>4 DEF Settle, SettledWaits, Held, Early, Reserved
<1>6. /\ NothingLands' <=> NothingLands
      /\ Unwritten' <=> Unwritten
      /\ \A b \in Batches : Early(b)' <=> Early(b)
      /\ \A f : Missing(f)' <=> Missing(f)
  BY <1>3 DEF NothingLands, Unwritten, Early, Missing
<1>7. ASSUME NEW d \in Deleters PROVE Sure(d)'
  <2>1. Sure(d) /\ deleter'[d] = deleter[d] /\ UpTo(d)' = UpTo(d)
    BY <1>1 DEF DInv, EInv, UpTo, Total
  <2> QED BY <1>1, <1>3, <1>6, <2>1 DEF Sure
<1>8. ClosedIsClosed' /\ StageHolds' /\ PlanHolds' /\ (scan' => Unwritten')
  BY <1>1, <1>3, <1>6 DEF DInv, EInv, ClosedIsClosed, StageHolds, ClearedMeansCleared, PlanHolds
<1>9. LeaseHolds'
  BY <1>1 DEF DInv, EInv, LeaseHolds, Leases, Pending, InStage
<1>10. ErasureTypeOK'
  BY <1>1, <1>3 DEF DInv, ErasureTypeOK
<1> QED BY <1>2, <1>5, <1>7, <1>8, <1>9, <1>10 DEF DInv, EInv

\* A step of the import: the account stays as it is, and a file comes only from
\* a PUT that was under way.
Comes(b) == flight[b] /\ object' = [object EXCEPT ![b] = TRUE]
Goes == \A b \in Batches : object'[b] => object[b]

LEMMA CsvOfKeeps ==
  ASSUME IInv, NEW b \in Batches, CsvOf(b) PROVE active' = active /\ (Comes(b) \/ Goes)
<1>1. object \in [Batches -> BOOLEAN]
  BY DEF IInv, CsvTypeOK
<1>2. CASE UploadStep(b)
  BY <1>1, <1>2 DEF UploadStep, PutIsAnswered, FinishUpload, FinishIsRefused, CleanUp,
     PlantTombstone, DeleteUpload, Goes, storage
<1>3. CASE StorageStep(b)
  BY <1>1, <1>3 DEF StorageStep, PutLands, PutIsDropped, Goes, Comes
<1>4. CASE SweepStep(b)
  BY <1>1, <1>4 DEF SweepStep, PurgeStage, SweepStalled, RetentionEnds, Goes, storage
<1>5. CASE OwnerStep(b)
  BY <1>1, <1>5 DEF OwnerStep, ReserveStage, ReserveImport, ConfirmStage, DiscardRecords, Goes,
     storage
<1>6. CASE LeaseLapses(b)
  BY <1>1, <1>6 DEF LeaseLapses, Goes, storage
<1> QED BY <1>2, <1>3, <1>4, <1>5, <1>6 DEF CsvOf

LEMMA WorkKeeps ==
  ASSUME IInv, \/ \E r \in Runners : RunStep(r)
               \/ \E w \in Workers : WorkerStep(w)
               \/ \E b \in Batches, k \in Kinds : QueueStep(b, k)
  PROVE  active' = active /\ object' = object
<1>1. ASSUME NEW r \in Runners, RunStep(r) PROVE active' = active /\ object' = object
  BY <1>1 DEF RunStep, InsertChunk, LeaseIsLost, Complete, Defer, storage
<1>2. ASSUME NEW w \in Workers, WorkerStep(w) PROVE active' = active /\ object' = object
  BY <1>2 DEF WorkerStep, Claim, Restore, RestoreFails, storage
<1>3. ASSUME NEW b \in Batches, NEW k \in Kinds, QueueStep(b, k)
      PROVE  active' = active /\ object' = object
  BY <1>3 DEF QueueStep, GraceEnds, PurgeLeaseLapses, Exhaust, storage
<1> QED BY <1>1, <1>2, <1>3

LEMMA PurgeKeeps ==
  ASSUME IInv, NEW p \in Purgers, PurgeStep(p) \/ DeleteObjectFails(p) \/ CrashPurger(p)
  PROVE  active' = active /\ Goes
<1>1. object \in [Batches -> BOOLEAN]
  BY DEF IInv, CsvTypeOK
<1>2. CASE \E b \in Batches, k \in Kinds : ClaimPurge(p, b, k)
  BY <1>1, <1>2 DEF ClaimPurge, Goes, storage
<1>3. CASE CheckReference(p) \/ DeleteObject(p) \/ SettlePurge(p)
  BY <1>1, <1>3 DEF CheckReference, DeleteObject, SettlePurge, Goes, storage
<1>4. CASE DeleteObjectFails(p) \/ CrashPurger(p)
  BY <1>1, <1>4 DEF DeleteObjectFails, CrashPurger, Goes, storage
<1> QED BY <1>2, <1>3, <1>4 DEF PurgeStep

LEMMA TroubleKeeps ==
  ASSUME IInv, Trouble PROVE active' = active /\ Goes
<1>1. ASSUME NEW b \in Batches, PutFails(b) \/ FinishFails(b) \/ CleanUpFails(b) \/ CrashRequest(b)
      PROVE  active' = active /\ Goes
  BY <1>1 DEF PutFails, FinishFails, CleanUpFails, CrashRequest, Goes, storage
<1>2. ASSUME NEW r \in Runners, InsertFails(r) \/ CompleteFails(r) PROVE active' = active /\ Goes
  BY <1>2 DEF InsertFails, CompleteFails, Goes, storage
<1>3. ASSUME NEW w \in Workers, CrashWorker(w) PROVE active' = active /\ Goes
  BY <1>3 DEF CrashWorker, Goes, storage
<1> QED BY <1>1, <1>2, <1>3, PurgeKeeps DEF Trouble

LEMMA CsvStepKeeps ==
  ASSUME IInv, CsvStep
  PROVE  Next /\ active' = active /\ (Goes \/ \E b \in Batches : Comes(b))
<1>1. CASE \E b \in Batches : CsvOf(b)
  BY <1>1, CsvOfKeeps DEF CsvOf, Next
<1>2. CASE \/ \E r \in Runners : RunStep(r)
           \/ \E w \in Workers : WorkerStep(w)
           \/ \E b \in Batches, k \in Kinds : QueueStep(b, k)
  <2>1. Next
    BY <1>2 DEF Next
  <2> QED BY <1>2, <2>1, WorkKeeps DEF Goes
<1>3. CASE \E p \in Purgers : PurgeStep(p)
  BY <1>3, PurgeKeeps DEF Next
<1>4. CASE Trouble
  BY <1>4, TroubleKeeps DEF Next
<1> QED BY <1>1, <1>2, <1>3, <1>4 DEF CsvStep

LEMMA BesideStep ==
  ASSUME DInv, Beside(CsvStep) PROVE DInv'
<1>1. /\ CsvStep /\ identity' = identity /\ settled' = settled /\ deleter' = deleter
      /\ receipt' = receipt /\ (user' = user \/ (Pending /\ user' = Reopened))
  BY DEF Beside
<1>2. Next /\ active' = active
  BY <1>1, CsvStepKeeps DEF DInv
<1>3. IInv' /\ FilesInv' /\ (~active => \A b \in Batches : Ebb(b))
  BY <1>2, IInvNext, FilesNext DEF DInv, FilesStep
<1>4. Sinks
  BY <1>1, <1>2, <1>3 DEF Sinks, receipt, Unwritten
<1>5. user' \in UserRow /\ (user' = user \/ (user.stage # "NONE" /\ user'.stage = "REQUESTED"
                             /\ user'.plan = NoPlan /\ user'.holder = Nobody))
  BY <1>1, ReopenedIs DEF DInv, ErasureTypeOK, Pending
<1>6. EInv'
  BY <1>1, <1>4, <1>5, EInvBeside DEF DInv
<1>7. ErasureTypeOK'
  BY <1>1, <1>5 DEF DInv, ErasureTypeOK, receipt
<1> QED BY <1>3, <1>6, <1>7 DEF DInv

-----------------------------------------------------------------------------
(* Every step. *)

LEMMA DInvInit == DeletionInit => DInv
<1> SUFFICES ASSUME DeletionInit PROVE DInv
  OBVIOUS
<1>1. Init /\ IInv /\ FilesInv
  BY IInvInit, FilesInit DEF DeletionInit
<1>2. /\ user = NotDeleted /\ identity = TRUE /\ settled = FALSE /\ request = "none"
      /\ images = {} /\ scan = FALSE /\ \A d \in Deleters : deleter[d] = Asleep
      /\ deleter = [d \in Deleters |-> Asleep]
  BY DEF DeletionInit
<1>3. /\ user.stage = "NONE" /\ user.holder = Nobody /\ user.plan = NoPlan /\ active
  BY <1>1, <1>2 DEF NotDeleted, Init
<1>4. ErasureTypeOK
  BY <1>2, AsleepType DEF ErasureTypeOK, RequestPlace
<1>5. \A d \in Deleters : Sure(d)
  BY <1>2 DEF Asleep, Sure, Reading, Late
<1>6. PlanHolds
  <2>1. FirstOf(user.plan, user.cleared) = {}
    BY <1>3 DEF FirstOf
  <2>2. \A i \in Images : i \notin NoPlan
    BY DEF NoPlan
  <2> QED BY <1>3, <2>1, <2>2 DEF PlanHolds
<1>7. ClosedIsClosed /\ SettledWaits /\ StageHolds
  BY <1>2, <1>3 DEF ClosedIsClosed, SettledWaits, StageHolds, ClearedMeansCleared
<1>8. LeaseHolds
  BY <1>3 DEF LeaseHolds, Leases, Pending
<1> QED BY <1>1, <1>2, <1>4, <1>5, <1>6, <1>7, <1>8 DEF DInv, EInv

LEMMA DeleterSteps ==
  ASSUME DInv, NEW d \in Deleters, DeleterStep(d) \/ DeletionFails(d) \/ CrashDeleter(d)
  PROVE  DInv'
<1>1. CASE StorageStage(d)
  BY <1>1, WaitToSettleStep, ReadRowsStep, ReadJobsStep, StartClearingStep, RemoveFilesStep,
     SaveCheckpointStep, VerifyPlanStep, FinishStorageStep DEF StorageStage
<1>2. CASE LaterStages(d)
  BY <1>2, CheckObligationStep, DeleteIdentityStep, AdvanceAuthStep, DeleteRecordsStep,
     DeleteRowsStep DEF LaterStages
<1> QED BY <1>1, <1>2, ClaimDeletionStep, RecordDeletionFailureStep, DeletionFailsStep,
           CrashDeleterStep DEF DeleterStep

LEMMA DInvNext == DInv /\ [DeletionNext]_allVars => DInv'
<1> SUFFICES ASSUME DInv, [DeletionNext]_allVars PROVE DInv'
  OBVIOUS
<1>1. CASE UNCHANGED allVars
  <2>1. UNCHANGED vars /\ UNCHANGED erasing /\ UNCHANGED receipt
    BY <1>1 DEF allVars
  <2>2. UNCHANGED csvVars /\ faults' = faults /\ request' = request /\ images' = images
        /\ scan' = scan
    BY <2>1 DEF vars, csvVars, receipt
  <2>3. Unwritten' <=> Unwritten
    BY <2>2 DEF Unwritten
  <2>4. request \in RequestPlace /\ images \in SUBSET Images /\ scan \in BOOLEAN
    BY DEF DInv, ErasureTypeOK
  <2> QED BY <2>1, <2>2, <2>3, <2>4, ReceiptGoes
<1>2. CASE DeletionNext
  BY <1>2, BesideStep, RequestDeletionStep, ReceiptSteps, SettleStep, DeletionLeaseLapsesStep,
     DeleterSteps DEF DeletionNext
<1> QED BY <1>1, <1>2

LEMMA DInvHolds == DeletionSpec => []DInv
  BY DInvInit, DInvNext, PTL DEF DeletionSpec

-----------------------------------------------------------------------------
(* The theorems. *)

\* The deletion columns, the attempts and the receipt request stay in their
\* types, however the deletion, the import and the upload interleave.
THEOREM ErasureTypeOKHolds == DeletionSpec => []ErasureTypeOK
<1>1. DInv => ErasureTypeOK
  BY DEF DInv
<1> QED BY <1>1, DInvHolds, PTL

\* What the import promises it still promises beside a deletion: no file is
\* beyond reach while its purge jobs are closed and its rows deleted
\* (processStorageStage, deleteRelationalDataInTransaction).
THEOREM FilesStayNamed == DeletionSpec => [](CsvTypeOK /\ CheckpointIsExact /\ FileIsNamed)
<1>1. DInv => CsvTypeOK /\ CheckpointIsExact /\ FileIsNamed
  BY DEF DInv, IInv, FilesInv, Flow, Airborne, Graces, Named, Early, Live, FileIsNamed
<1> QED BY <1>1, DInvHolds, PTL

\* Once the storage stage is over nothing is stored and no PUT can still land,
\* whichever uploads and dead attempts were under way (processStorageStage).
THEOREM ClearedMeansClearedHolds == DeletionSpec => []ClearedMeansCleared
<1>1. DInv => ClearedMeansCleared
  BY DEF DInv, EInv, StageHolds
<1> QED BY <1>1, DInvHolds, PTL

\* A checkpoint that was saved counts removed files, which stay removed, so that
\* the next attempt may skip them (deleteStoragePlan).
THEOREM CheckpointIsHonestHolds == DeletionSpec => []CheckpointIsHonest
<1>1. DInv => CheckpointIsHonest
  BY DEF DInv, EInv, ErasureTypeOK, PlanHolds, Missing, CheckpointIsHonest
<1> QED BY <1>1, DInvHolds, PTL

-----------------------------------------------------------------------------
(* The deletion keeps the promise of AccountErasure. *)

\* The deletion stays asked for and not ended.
Onward ==
    user'.stage = user.stage \/ {user.stage, user'.stage} \cap {"NONE", "GONE"} = {}

Promised == Erasure!ErasureNext \/ UNCHANGED Erasure!promise

LEMMA Forgets ==
  ASSUME Onward, Goes, identity' = identity PROVE Promised
<1>1. Kept' \in SUBSET Kept
  BY DEF Kept, Goes
<1> QED BY <1>1 DEF Onward, Promised, Erasure!ErasureNext, Erasure!Forget

LEMMA EndsOnward ==
  ASSUME NEW d \in Deleters, NEW w, EndsWith(d, w),
         Leases(d) => w.stage \notin {"NONE", "GONE"} \/ w.stage = user.stage
  PROVE  Onward
  BY DEF EndsWith, Leases, Pending, Onward

LEMMA YieldsOnward ==
  ASSUME DInv, NEW d \in Deleters,
         \/ EndsWith(d, Yielded) \/ EndsWith(d, user) \/ EndsWith(d, Reopened)
         \/ \E s \in {"REQUESTED", "STORAGE_CLEARED", "AUTH_DELETED"} : EndsWith(d, Advanced(s))
  PROVE  Onward
<1>1. user \in UserRow
  BY DEF DInv, ErasureTypeOK
<1>2. Yielded.stage = user.stage /\ Reopened.stage = "REQUESTED"
  BY <1>1, YieldedIs, ReopenedIs
<1>3. \A s \in {"REQUESTED", "STORAGE_CLEARED", "AUTH_DELETED"} : Advanced(s).stage = s
  BY <1>1, AdvancedIs DEF Stage
<1> QED BY <1>2, <1>3, EndsOnward

LEMMA StorageStageOnward ==
  ASSUME DInv, NEW d \in Deleters, StorageStage(d) PROVE Onward /\ Goes /\ identity' = identity
<1>1. user \in UserRow /\ object \in [Batches -> BOOLEAN]
  BY DEF DInv, ErasureTypeOK, IInv, CsvTypeOK
<1>2. CASE WaitToSettle(d) \/ ReadRows(d) \/ ReadJobs(d) \/ VerifyPlan(d)
  <2>1. object' = object /\ identity' = identity
    BY <1>2 DEF WaitToSettle, ReadRows, ReadJobs, VerifyPlan, vars
  <2>2. Onward
    BY <1>2, YieldsOnward DEF WaitToSettle, ReadRows, ReadJobs, VerifyPlan, Onward
  <2> QED BY <2>1, <2>2 DEF Goes
<1>3. CASE StartClearing(d)
  <2> DEFINE u == [user EXCEPT !.plan = deleter[d].found, !.cleared = 0, !.fresh = TRUE]
  <2>1. user' = user \/ user' = u
    BY <1>3 DEF StartClearing, GoesOn
  <2>2. u.stage = user.stage
    BY <1>1 DEF UserRow
  <2>3. object' = object /\ identity' = identity
    BY <1>3 DEF StartClearing, vars
  <2> HIDE DEF u
  <2> QED BY <2>1, <2>2, <2>3 DEF Onward, Goes
<1>4. CASE RemoveFiles(d)
  BY <1>1, <1>4 DEF RemoveFiles, Onward, Goes
<1>5. CASE SaveCheckpoint(d)
  <2> DEFINE u == [user EXCEPT !.cleared = UpTo(d), !.fresh = TRUE]
  <2>1. user' = user \/ user' = u
    BY <1>5 DEF SaveCheckpoint, GoesOn, EndsWith
  <2>2. u.stage = user.stage
    BY <1>1 DEF UserRow
  <2>3. object' = object /\ identity' = identity
    BY <1>5 DEF SaveCheckpoint, vars
  <2> HIDE DEF u
  <2> QED BY <2>1, <2>2, <2>3 DEF Onward, Goes
<1>6. CASE FinishStorage(d)
  <2> DEFINE u == [Yielded EXCEPT !.plan = deleter[d].found, !.cleared = 0]
  <2>1. object' = object /\ identity' = identity
    BY <1>6 DEF FinishStorage, storage
  <2>2. u.stage = user.stage
    <3> DEFINE y == Yielded
    <3>1. y \in UserRow /\ y.stage = user.stage
      BY <1>1, YieldedIs
    <3>2. u = [y EXCEPT !.plan = deleter[d].found, !.cleared = 0]
      OBVIOUS
    <3> HIDE DEF y, u
    <3> QED BY <3>1, <3>2 DEF UserRow
  <2>3. \/ EndsWith(d, u) \/ EndsWith(d, user)
        \/ EndsWith(d, Advanced("STORAGE_CLEARED")) \/ EndsWith(d, Advanced("REQUESTED"))
    BY <1>6 DEF FinishStorage
  <2> HIDE DEF u
  <2>4. Onward
    BY <2>2, <2>3, YieldsOnward, EndsOnward
  <2> QED BY <2>1, <2>4 DEF Goes
<1> QED BY <1>2, <1>3, <1>4, <1>5, <1>6 DEF StorageStage

LEMMA LaterStagesRefine ==
  ASSUME DInv, NEW d \in Deleters, LaterStages(d) PROVE Promised
<1>1. user \in UserRow /\ Sure(d)
  BY DEF DInv, ErasureTypeOK, EInv
<1>2. CASE CheckObligation(d) \/ AdvanceAuth(d)
  <2>1. object' = object /\ identity' = identity
    BY <1>2 DEF CheckObligation, AdvanceAuth, vars
  <2>2. Onward
    BY <1>2, YieldsOnward DEF CheckObligation, AdvanceAuth, Onward
  <2> QED BY <2>1, <2>2, Forgets DEF Goes
<1>3. CASE DeleteIdentity(d)
  <2>1. Kept' = Kept /\ user' = user /\ identity' = FALSE
    BY <1>3 DEF DeleteIdentity, vars, Kept
  <2>2. user.stage # "NONE"
    BY <1>1, <1>3 DEF DeleteIdentity, Sure, DInv, EInv, ClosedIsClosed
  <2>3. user.stage = "GONE" => identity = FALSE
    BY DEF DInv, EInv, StageHolds, ErasureTypeOK
  <2> QED BY <2>1, <2>2, <2>3
          DEF Promised, Erasure!ErasureNext, Erasure!RemoveIdentity, Erasure!promise
<1>4. CASE DeleteRecords(d)
  <2>1. object' = object /\ identity' = identity /\ user' = user
    BY <1>4 DEF DeleteRecords, storage
  <2> QED BY <2>1, Forgets DEF Goes, Onward
<1>5. CASE DeleteRows(d)
  <2>1. object' = object /\ identity' = identity
    BY <1>5 DEF DeleteRows, storage
  <2>2. CASE EndsWith(d, Reopened)
    BY <2>1, <2>2, YieldsOnward, Forgets DEF Goes
  <2>3. CASE Leases(d) /\ EndsWith(d, Advanced("GONE"))
    <3>1. user.stage = "AUTH_DELETED"
      BY <1>5, <2>3 DEF DeleteRows, DInv, EInv, LeaseHolds, InStage
    <3>2. user'.stage = "GONE"
      BY <1>1, <2>3, AdvancedIs DEF EndsWith, Stage
    <3>3. Kept = {} /\ Kept' = {} /\ ~identity
      BY <2>1, <3>1 DEF DInv, EInv, StageHolds, ClearedMeansCleared, Kept
    <3> QED BY <2>1, <3>1, <3>2, <3>3 DEF Promised, Erasure!ErasureNext, Erasure!Erase
  <2> QED BY <1>5, <2>2, <2>3 DEF DeleteRows, MayDeleteRows
<1> QED BY <1>2, <1>3, <1>4, <1>5 DEF LaterStages

LEMMA DeleterRefines ==
  ASSUME DInv, NEW d \in Deleters, DeleterStep(d) \/ DeletionFails(d) \/ CrashDeleter(d)
  PROVE  Promised
<1>1. user \in UserRow
  BY DEF DInv, ErasureTypeOK
<1>2. CASE ClaimDeletion(d)
  <2> DEFINE u == [user EXCEPT !.holder = d, !.fresh = TRUE]
  <2>1. user' = u /\ object' = object /\ identity' = identity
    BY <1>2 DEF ClaimDeletion, vars
  <2>2. u.stage = user.stage
    BY <1>1 DEF UserRow
  <2> HIDE DEF u
  <2> QED BY <2>1, <2>2, Forgets DEF Onward, Goes
<1>3. CASE RecordDeletionFailure(d)
  <2> DEFINE y == Yielded
             u == [y EXCEPT !.attempts = @ + 1]
  <2>1. EndsWith(d, u) /\ object' = object /\ identity' = identity
    BY <1>3 DEF RecordDeletionFailure, vars
  <2>2. y \in UserRow /\ y.stage = user.stage
    BY <1>1, YieldedIs
  <2> HIDE DEF y
  <2>3. u.stage = user.stage
    BY <2>2 DEF UserRow
  <2> HIDE DEF u
  <2> QED BY <2>1, <2>3, EndsOnward, Forgets DEF Goes
<1>4. CASE DeletionFails(d) \/ CrashDeleter(d)
  <2>1. user' = user /\ object' = object /\ identity' = identity
    BY <1>4 DEF DeletionFails, CrashDeleter, csvVars
  <2> QED BY <2>1, Forgets DEF Onward, Goes
<1> QED BY <1>2, <1>3, <1>4, StorageStageOnward, LaterStagesRefine, Forgets DEF DeleterStep

LEMMA AroundRefines ==
  ASSUME DInv, BeginUpload \/ ReceiptStep \/ StoreFails \/ CreateIsUnanswered \/ Settle
               \/ DeletionLeaseLapses
  PROVE  Promised
<1>1. object' = object /\ identity' = identity
  BY DEF BeginUpload, ReceiptStep, StoreImage, CreateScan, UndoUpload, StoreFails,
     CreateIsUnanswered, Settle, DeletionLeaseLapses, vars, csvVars, erasing
<1>2. Onward
  <2>1. CASE DeletionLeaseLapses
    <3> DEFINE u == [user EXCEPT !.fresh = FALSE]
    <3>1. user' = u
      BY <2>1 DEF DeletionLeaseLapses
    <3>2. u.stage = user.stage
      BY DEF DInv, ErasureTypeOK, UserRow
    <3> HIDE DEF u
    <3> QED BY <3>1, <3>2 DEF Onward
  <2>2. CASE ~DeletionLeaseLapses
    BY <2>2 DEF BeginUpload, ReceiptStep, StoreImage, CreateScan, UndoUpload, StoreFails,
       CreateIsUnanswered, Settle, erasing, Onward
  <2> QED BY <2>1, <2>2
<1> QED BY <1>1, <1>2, Forgets DEF Goes

LEMMA BesideRefines ==
  ASSUME DInv, Beside(CsvStep) PROVE Promised
<1>1. /\ CsvStep /\ identity' = identity /\ (user' = user \/ (Pending /\ user' = Reopened))
  BY DEF Beside
<1>2. Onward
  BY <1>1, ReopenedIs DEF DInv, ErasureTypeOK, Pending, Onward
<1>3. CASE Goes
  BY <1>1, <1>2, <1>3, Forgets
<1>4. ASSUME NEW b \in Batches, Comes(b) PROVE Promised
  <2>1. object \in [Batches -> BOOLEAN]
    BY DEF DInv, IInv, CsvTypeOK
  <2>2. Kept' = Kept \cup {b}
    BY <1>4, <2>1 DEF Comes, Kept
  <2>3. user.stage # "GONE"
    BY <1>4 DEF Comes, DInv, EInv, StageHolds, ClearedMeansCleared
  <2>4. b \in Files
    BY DEF Files
  <2> QED BY <1>1, <1>2, <2>2, <2>3, <2>4 DEF Onward, Promised, Erasure!ErasureNext, Erasure!Store
<1> QED BY <1>1, <1>3, <1>4, CsvStepKeeps DEF DInv

LEMMA RequestRefines ==
  ASSUME DInv, RequestDeletion PROVE Promised
<1>1. user.stage = "NONE"
  BY DEF RequestDeletion, CloseAccount, DInv, EInv, ClosedIsClosed
<1>2. user'.stage = "REQUESTED"
  BY DEF RequestDeletion, NotDeleted
<1>3. Kept' = Kept /\ identity' = identity
  BY DEF RequestDeletion, CloseAccount, storage, Kept
<1> QED BY <1>1, <1>2, <1>3 DEF Promised, Erasure!ErasureNext, Erasure!Close

LEMMA DeletionInitRefines == DeletionInit => Erasure!ErasureInit
  BY DEF DeletionInit, Init, NotDeleted, Kept, Erasure!ErasureInit

LEMMA DeletionNextRefines ==
  DInv /\ [DeletionNext]_allVars => [Erasure!ErasureNext]_(Erasure!promise)
<1> SUFFICES ASSUME DInv, [DeletionNext]_allVars PROVE Promised
  BY DEF Promised
<1>1. CASE UNCHANGED allVars
  BY <1>1 DEF allVars, vars, erasing, Kept, Promised, Erasure!promise
<1>2. CASE DeletionNext
  BY <1>2, BesideRefines, RequestRefines, AroundRefines, DeleterRefines DEF DeletionNext
<1> QED BY <1>1, <1>2

\* Whatever lease is lost and whatever stage is reopened, no request, worker or
\* crash takes the deletion back, the identity goes before the rows, and the rows, by which alone a
\* stored file is found, go when no CSV file is stored any more
\* (accountDeletion.service.ts).
THEOREM ImplementsErasureHolds == DeletionSpec => ImplementsErasure
<1> QED BY DeletionInitRefines, DeletionNextRefines, DInvHolds, PTL
    DEF DeletionSpec, ImplementsErasure, Erasure!ErasureSpec
=============================================================================
