----------------------- MODULE ReceiptProviderDispatch -----------------------
(***************************************************************************)
(* The only route from a receipt worker to a paid extraction provider      *)
(* (services/receiptProviderDispatch.service.ts), with the consent it      *)
(* needs (receiptProviderConsent.service.ts).  An attempt passes the gate: *)
(* it reserves units in the monthly budgets, marks the reservation         *)
(* submitted under the owner's consent, calls the provider and settles the *)
(* bill.  A maintenance pass reconciles what dead attempts left behind.    *)
(*                                                                         *)
(* One dispatch row per reservation key.  The key hashes the receipt, the  *)
(* configuration, the selected evidence and the reasons for the rescue.  A *)
(* receipt may have several: an attempt whose reading of a page fails may  *)
(* come with other reasons or another image than the attempt before it,    *)
(* and with other reasons for the same images.                             *)
(* Every reservation is of Units units (gemini always reserves the same    *)
(* number).                                                                *)
(* It implements ProviderLedger.                                           *)
(***************************************************************************)
EXTENDS Integers, FiniteSets

CONSTANTS Scans, Keys, ScanOf,    \* reservation keys, the receipt each is of
          Gates,                  \* the attempts that reach the gate
          None,                   \* no attempt, no key
          Businesses, BusinessOf, \* the profile whose receipt a key is of
          Budgets, BudgetsOf,     \* the budgets a dispatch of it reserves in
          Limit, Units,           \* units per month and budget, per dispatch
          Automatic,              \* RECEIPT_PROVIDER_CONSENT_MODE
          MaxConsents, MaxMonth   \* bounds: consent rows, months that pass

ASSUME DispatchAssumption ==
    /\ IsFiniteSet(Keys)
    /\ None \notin Gates \cup Keys
    /\ ScanOf \in [Keys -> Scans]
    /\ BusinessOf \in [Keys -> Businesses]
    /\ BudgetsOf \in [Keys -> SUBSET Budgets]
    /\ Limit \in [Budgets -> Nat]
    /\ Units \in Nat \ {0}
    /\ Automatic \in BOOLEAN
    /\ MaxConsents \in Nat
    /\ MaxMonth \in Nat \ {0}

VARIABLES
    scan,      \* scan[s]: what the gate reads of the receipt's row
    dispatch,  \* dispatch[k]: the ExternalProviderDispatch row of a key
    reserved,  \* reserved[b][m]: reserved units of the budget row of month m
    used,      \* used[b][m]: its used units
    month,     \* the current billing cycle
    consent,   \* consent[b]: how many grants the profile had, which is open
    gate,      \* gate[g]: where an attempt is, and the Reservation it holds
    charged    \* charged[k][m]: units the provider really billed (history)

vars == <<scan, dispatch, reserved, used, month, consent, gate, charged>>
rows == <<dispatch, reserved, used>>

Months == 1 .. MaxMonth
Consents == 0 .. MaxConsents  \* 0: none
Amounts == 0 .. Units
Unbilled == -1                \* finalBillableUnits is null

Status == {"NONE", "RESERVED", "SUBMITTED", "SUCCEEDED", "FAILED",
           "CANCELLED", "AMBIGUOUS"}

ScanView == [state : {"live", "withdrawn", "gone"},
             holder : Gates \cup {None}, fresh : BOOLEAN]

\* refusal: the outcome code is RATE_LIMITED or PROVIDER_SERVER_ERROR.
DispatchRow == [status : Status, consent : Consents, cycle : Months,
                aged : BOOLEAN, bill : Amounts \cup {Unbilled},
                refusal : BOOLEAN]

NoDispatch == [status |-> "NONE", consent |-> 0, cycle |-> 1, aged |-> FALSE,
               bill |-> Unbilled, refusal |-> FALSE]

Outcome == [status : {"SUCCEEDED", "FAILED", "AMBIGUOUS"},
            bill : Amounts \cup {Unbilled}, refusal : BOOLEAN]

NoOutcome == [status |-> "AMBIGUOUS", bill |-> Unbilled, refusal |-> FALSE]

Places == {"out", "lookup", "reserving", "ready", "cancelling", "calling",
           "answered", "marking", "done", "over"}

GateState == [at : Places, key : Keys \cup {None}, rearm : Status, consent : Consents,
              cycle : Months, outcome : Outcome]

-----------------------------------------------------------------------------
(* What the conditions of the code test. *)

\* dispatchableReceiptWhere: the attempt's own lease on an open receipt.
Leases(g) ==
    LET v == scan[ScanOf[gate[g].key]] IN v.state = "live" /\ v.holder = g

Dispatchable(g) == Leases(g) /\ scan[ScanOf[gate[g].key]].fresh

\* lockEligibleReceipt: anybody's live lease will do.
\* Slip: a lease counts however old it is.
EligibleWhileHeld(s) == scan[s].state = "live" /\ scan[s].holder # None

EligibleReceipt(s) ==
    scan[s].state = "live" /\ scan[s].holder # None /\ scan[s].fresh

Rearmable(row) ==
    \/ row.status = "CANCELLED" /\ row.bill = 0
    \/ row.status = "FAILED" /\ row.bill = 0 /\ row.refusal

\* Settled but for the owner: these reservations count against the month.
Outstanding == {"RESERVED", "SUBMITTED", "AMBIGUOUS"}

\* Slip: only what is used counts against the limit.
RoomForOne(k, m) ==
    \A b \in BudgetsOf[k] : used[b][m] + Units <= Limit[b]

RoomFor(k, m) ==
    \A b \in BudgetsOf[k] : reserved[b][m] <= Limit[b] - used[b][m] - Units

Releasable(k, m) == \A b \in BudgetsOf[k] : reserved[b][m] >= Units

\* Takes Units out of (sign 1: into) the reserved units of the month m.
Reserving(k, m, sign) ==
    reserved' = [b \in Budgets |-> IF b \in BudgetsOf[k]
                   THEN [reserved[b] EXCEPT ![m] = @ + sign * Units]
                   ELSE reserved[b]]

Using(k, m, units) ==
    used' = [b \in Budgets |-> IF b \in BudgetsOf[k]
               THEN [used[b] EXCEPT ![m] = @ + units]
               ELSE used[b]]

Goes(g, place) == gate' = [gate EXCEPT ![g].at = place]

NewGate == [at |-> "out", key |-> None, rearm |-> "NONE", consent |-> 0,
            cycle |-> 1, outcome |-> NoOutcome]

\* The gate has answered the attempt; what it held is forgotten.
Leaves(g) == gate' = [gate EXCEPT ![g] = [NewGate EXCEPT !.at = "done", !.key = gate[g].key]]
Ends(g) == gate' = [gate EXCEPT ![g] = [NewGate EXCEPT !.at = "over"]]

\* The provider bills the call for the month its reservation was made in.
Bills(g, units) ==
    charged' = [charged EXCEPT ![gate[g].key][gate[g].cycle] = @ + units]

Holding(g, row) ==
    gate' = [gate EXCEPT ![g] = [@ EXCEPT !.at = "ready", !.rearm = "NONE",
                                          !.consent = row.consent, !.cycle = row.cycle]]

-----------------------------------------------------------------------------
Init ==
    /\ scan = [s \in Scans |-> [state |-> "live", holder |-> None, fresh |-> FALSE]]
    /\ dispatch = [k \in Keys |-> NoDispatch]
    /\ reserved = [b \in Budgets |-> [m \in Months |-> 0]]
    /\ used = [b \in Budgets |-> [m \in Months |-> 0]]
    /\ month = 1
    /\ consent = [b \in Businesses |-> [granted |-> 0, open |-> 0]]
    /\ gate = [g \in Gates |-> NewGate]
    /\ charged = [k \in Keys |-> [m \in Months |-> 0]]

\* An attempt claims a receipt, and its reading of the pages brings it to the
\* gate with some key of that receipt.
ClaimScan(g, k) ==
    LET s == ScanOf[k] IN
    /\ gate[g].at = "out"
    /\ scan[s].state = "live"
    /\ scan[s].holder = None \/ ~scan[s].fresh
    /\ scan' = [scan EXCEPT ![s].holder = g, ![s].fresh = TRUE]
    /\ gate' = [gate EXCEPT ![g].at = "lookup", ![g].key = k]
    /\ UNCHANGED <<rows, month, consent, charged>>

\* The row of this reservation key, read before the transaction: a live
\* reservation is shared, a stored answer replayed (or not, if the receipt or
\* the consent is gone), a row that cost nothing re-armed, the rest refused.
\* A new reservation will be one of the month in which this is asked.
ReadExisting(g) ==
    LET row == dispatch[gate[g].key] IN
    /\ gate[g].at = "lookup"
    /\ \/ row.status = "RESERVED" /\ Holding(g, row)
       \/ /\ row.status = "NONE" \/ Rearmable(row)
          /\ gate' = [gate EXCEPT ![g] = [@ EXCEPT !.at = "reserving", !.rearm = row.status,
                                                   !.cycle = month]]
       \/ /\ row.status \notin {"NONE", "RESERVED"} /\ ~Rearmable(row)
          /\ Leaves(g)
    /\ UNCHANGED <<scan, rows, month, consent, charged>>

\* Cooldown, configuration, evidence metadata: the gate refuses unasked.
Refused(g) ==
    /\ gate[g].at = "lookup"
    /\ Leaves(g)
    /\ UNCHANGED <<scan, rows, month, consent, charged>>

\* The consent a reservation is made under: the open one, or in automatic
\* mode a grant by policy, never after an owner's revoke.
\* Slip: policy grants whenever nothing is open.
GrantWheneverClosed(b) == Automatic /\ consent[b].open = 0 /\ MaxConsents > 0

GrantByPolicy(b) ==
    /\ Automatic /\ consent[b].open = 0 /\ consent[b].granted = 0
    /\ MaxConsents > 0

ConsentForReserve(b) ==
    \/ consent[b].open # 0 /\ UNCHANGED consent
    \/ /\ GrantByPolicy(b)
       /\ consent' = [consent EXCEPT ![b] = [granted |-> 1, open |-> 1]]

NewReservation(b, m) ==
    [NoDispatch EXCEPT !.status = "RESERVED", !.consent = consent'[b].open,
                       !.cycle = m]

\* The serializable transaction of reserve: receipt, consent, budgets, row.
\* Month and lease are judged by the clock read before the lookup, so the month
\* may have turned and the lease have lapsed since (here: or just before); nobody
\* else may hold it.
Reserve(g) ==
    LET k == gate[g].key  b == BusinessOf[k]  m == gate[g].cycle IN
    /\ gate[g].at = "reserving"
    /\ Leases(g)
    /\ ConsentForReserve(b)
    /\ RoomFor(k, m)
    /\ Reserving(k, m, 1)
    /\ dispatch[k].status = gate[g].rearm
    /\ gate[g].rearm # "NONE" => dispatch[k].bill = 0
    /\ dispatch' = [dispatch EXCEPT ![k] = NewReservation(b, m)]
    /\ Holding(g, NewReservation(b, m))
    /\ UNCHANGED <<scan, used, month, charged>>

\* Its insert or its commit conflicted with another attempt's: the
\* reservation that won is shared.
ReserveRaced(g) ==
    /\ gate[g].at = "reserving"
    /\ dispatch[gate[g].key].status = "RESERVED"
    /\ Holding(g, dispatch[gate[g].key])
    /\ UNCHANGED <<scan, rows, month, consent, charged>>

\* No receipt, no consent, no room, a row that moved, or the database fails.
ReserveFails(g) ==
    /\ gate[g].at = "reserving"
    /\ Leaves(g)
    /\ UNCHANGED <<scan, rows, month, consent, charged>>

\* The evidence does not load, or the configuration changed meanwhile.
EvidenceFails(g) ==
    /\ gate[g].at = "ready"
    /\ Goes(g, "cancelling")
    /\ UNCHANGED <<scan, rows, month, consent, charged>>

\* The last look before bytes leave: receipt and consent row locked.
\* Slip: any open consent will do.
SomeConsentStands(g) == consent[BusinessOf[gate[g].key]].open # 0

ConsentStands(g) == consent[BusinessOf[gate[g].key]].open = gate[g].consent

Submit(g) ==
    LET k == gate[g].key IN
    /\ gate[g].at = "ready"
    /\ ConsentStands(g) /\ Dispatchable(g)
    /\ dispatch[k].status = "RESERVED"
    /\ dispatch' = [dispatch EXCEPT ![k].status = "SUBMITTED", ![k].aged = FALSE]
    /\ Goes(g, "calling")
    /\ UNCHANGED <<scan, reserved, used, month, consent, charged>>

SubmitRaced(g) ==
    /\ gate[g].at = "ready"
    /\ ConsentStands(g) /\ Dispatchable(g)
    /\ dispatch[gate[g].key].status # "RESERVED"
    /\ Leaves(g)
    /\ UNCHANGED <<scan, rows, month, consent, charged>>

SubmitRefused(g) ==
    /\ gate[g].at = "ready"
    /\ ~(ConsentStands(g) /\ Dispatchable(g))
    /\ Goes(g, "cancelling")
    /\ UNCHANGED <<scan, rows, month, consent, charged>>

\* releaseOrConsume of a CANCELLED outcome: what it cannot change it leaves,
\* and nobody hears of it.
Cancelled(row) == [row EXCEPT !.status = "CANCELLED", !.bill = 0, !.aged = FALSE]

\* Slip: cancelled by identity, without looking at what the rows say.
CancelUnconditionally(g) ==
    LET k == gate[g].key  m == gate[g].cycle IN
    /\ gate[g].at = "cancelling"
    /\ Reserving(k, m, -1)
    /\ dispatch' = [dispatch EXCEPT ![k] = Cancelled(@)]
    /\ Leaves(g)
    /\ UNCHANGED <<scan, used, month, consent, charged>>

CancelReservation(g) ==
    LET k == gate[g].key  m == gate[g].cycle IN
    /\ gate[g].at = "cancelling"
    /\ Releasable(k, m)
    /\ dispatch[k].status = "RESERVED"
    /\ Reserving(k, m, -1)
    /\ dispatch' = [dispatch EXCEPT ![k] = Cancelled(@)]
    /\ Leaves(g)
    /\ UNCHANGED <<scan, used, month, consent, charged>>

CancelFails(g) ==
    /\ gate[g].at = "cancelling"
    /\ Leaves(g)
    /\ UNCHANGED <<scan, rows, month, consent, charged>>

-----------------------------------------------------------------------------
(* The call.  What the provider charges is not what the gate learns: an    *)
(* answer that is lost, late or invalid may have been billed all the same. *)

\* A definite answer: the bill it quotes is what was charged.
ProviderAnswers(g) ==
    /\ gate[g].at = "calling"
    /\ \E status \in {"SUCCEEDED", "FAILED"}, bill \in Amounts, refusal \in BOOLEAN :
         /\ refusal => status = "FAILED"
         /\ gate' = [gate EXCEPT ![g].at = "answered",
                      ![g].outcome = [status |-> status, bill |-> bill, refusal |-> refusal]]
         /\ Bills(g, bill)
    /\ UNCHANGED <<scan, rows, month, consent>>

\* Slip: a call without an answer counts as a server error, which is free.
TimeoutIsARefusal(g) ==
    /\ gate[g].at = "calling"
    /\ \E bill \in Amounts : Bills(g, bill)
    /\ gate' = [gate EXCEPT ![g].at = "answered",
                 ![g].outcome = [status |-> "FAILED", bill |-> 0, refusal |-> TRUE]]
    /\ UNCHANGED <<scan, rows, month, consent>>

\* The gate's clock or the transport gave up: AMBIGUOUS, without a bill.
CallTimesOut(g) ==
    /\ gate[g].at = "calling"
    /\ \E bill \in Amounts : Bills(g, bill)
    /\ gate' = [gate EXCEPT ![g].at = "answered", ![g].outcome = NoOutcome]
    /\ UNCHANGED <<scan, rows, month, consent>>

\* Slip: an answer that does not validate counts as nothing.
InvalidAnswerIsFree(g) ==
    /\ gate[g].at = "calling"
    /\ \E bill \in Amounts : Bills(g, bill)
    /\ gate' = [gate EXCEPT ![g].at = "answered",
                 ![g].outcome = [status |-> "FAILED", bill |-> 0, refusal |-> FALSE]]
    /\ UNCHANGED <<scan, rows, month, consent>>

\* An answer that does not validate counts as a reading paid in full.
AnswerIsInvalid(g) ==
    /\ gate[g].at = "calling"
    /\ \E bill \in Amounts : Bills(g, bill)
    /\ gate' = [gate EXCEPT ![g].at = "answered",
                 ![g].outcome = [status |-> "FAILED", bill |-> Units, refusal |-> FALSE]]
    /\ UNCHANGED <<scan, rows, month, consent>>

Settled(row, outcome) ==
    [row EXCEPT !.status = outcome.status, !.bill = outcome.bill,
                !.refusal = outcome.refusal, !.aged = FALSE]

\* Slip: a late answer settles whatever row there is.
SettleLate(g) ==
    LET k == gate[g].key  m == gate[g].cycle  outcome == gate[g].outcome IN
    /\ gate[g].at = "answered" /\ outcome.status # "AMBIGUOUS"
    /\ outcome.status = "SUCCEEDED" => scan[ScanOf[k]].state # "gone"
    /\ Releasable(k, m) /\ Reserving(k, m, -1) /\ Using(k, m, outcome.bill)
    /\ dispatch' = [dispatch EXCEPT ![k] = Settled(@, outcome)]
    /\ Leaves(g)
    /\ UNCHANGED <<scan, month, consent, charged>>

\* releaseOrConsume of the outcome: budgets, row and, for a success, the
\* stored answer, whose foreign key needs the receipt.  The answer of the
\* transaction may be lost.
Settle(g) ==
    LET k == gate[g].key  m == gate[g].cycle  outcome == gate[g].outcome IN
    /\ gate[g].at = "answered"
    /\ dispatch[k].status = "SUBMITTED"
    /\ outcome.status = "SUCCEEDED" => scan[ScanOf[k]].state # "gone"
    /\ IF outcome.status = "AMBIGUOUS"
       THEN UNCHANGED <<reserved, used>>
       ELSE Releasable(k, m) /\ Reserving(k, m, -1) /\ Using(k, m, outcome.bill)
    /\ dispatch' = [dispatch EXCEPT ![k] = Settled(@, outcome)]
    /\ Leaves(g) \/ Goes(g, "marking")
    /\ UNCHANGED <<scan, month, consent, charged>>

SettleFails(g) ==
    /\ gate[g].at = "answered"
    /\ Goes(g, "marking")
    /\ UNCHANGED <<scan, rows, month, consent, charged>>

\* markFinalizationAmbiguous, and its own failure, which is ignored.
MarkAmbiguous(g) ==
    LET k == gate[g].key IN
    /\ gate[g].at = "marking"
    /\ \/ /\ dispatch[k].status = "SUBMITTED"
          /\ dispatch' = [dispatch EXCEPT ![k] = Settled(@, NoOutcome)]
       \/ UNCHANGED dispatch
    /\ Leaves(g)
    /\ UNCHANGED <<scan, reserved, used, month, consent, charged>>

\* The process dies, or the submitting transaction throws; a request that
\* had left may be billed.
Crash(g) ==
    /\ gate[g].at \notin {"out", "over"}
    /\ Ends(g)
    /\ IF gate[g].at = "calling" THEN \E bill \in Amounts : Bills(g, bill)
                                 ELSE UNCHANGED charged
    /\ UNCHANGED <<scan, rows, month, consent>>

\* The attempt persists, defers or fails its reading and lets the receipt go.
EndAttempt(g) ==
    LET s == ScanOf[gate[g].key] IN
    /\ gate[g].at = "done"
    /\ Ends(g)
    /\ scan' = IF scan[s].holder = g
               THEN [scan EXCEPT ![s].holder = None, ![s].fresh = FALSE]
               ELSE scan
    /\ UNCHANGED <<rows, month, consent, charged>>

-----------------------------------------------------------------------------
(* Maintenance: reconcileStaleReceiptProviderDispatches.                   *)

\* Slip: a call nobody heard of gives its units back.
ReleaseStaleSubmission(k) ==
    /\ dispatch[k].status = "SUBMITTED" /\ dispatch[k].aged
    /\ Reserving(k, dispatch[k].cycle, -1)
    /\ dispatch' = [dispatch EXCEPT ![k] = Settled(@, NoOutcome)]
    /\ UNCHANGED <<scan, used, month, consent, gate, charged>>

ReconcileSubmission(k) ==
    /\ dispatch[k].status = "SUBMITTED" /\ dispatch[k].aged
    /\ dispatch' = [dispatch EXCEPT ![k] = Settled(@, NoOutcome)]
    /\ UNCHANGED <<scan, reserved, used, month, consent, gate, charged>>

ReconcileReservation(k) ==
    /\ dispatch[k].status = "RESERVED" /\ dispatch[k].aged
    /\ ~EligibleReceipt(ScanOf[k])
    /\ Releasable(k, dispatch[k].cycle)
    /\ Reserving(k, dispatch[k].cycle, -1)
    /\ dispatch' = [dispatch EXCEPT ![k] = Cancelled(@)]
    /\ UNCHANGED <<scan, used, month, consent, gate, charged>>

-----------------------------------------------------------------------------
(* The owner and the clock.                                                *)

GrantConsent(b) ==
    /\ consent[b].open = 0
    /\ consent[b].granted < MaxConsents
    /\ consent' = [consent EXCEPT ![b] = [granted |-> @.granted + 1,
                                          open |-> @.granted + 1]]
    /\ UNCHANGED <<scan, rows, month, gate, charged>>

RevokeConsent(b) ==
    /\ consent[b].open # 0
    /\ consent' = [consent EXCEPT ![b].open = 0]
    /\ UNCHANGED <<scan, rows, month, gate, charged>>

\* The owner confirms or deletes the receipt; its purge erases the row.
WithdrawScan(s) ==
    /\ scan[s].state = "live"
    /\ scan' = [scan EXCEPT ![s].state = "withdrawn"]
    /\ UNCHANGED <<rows, month, consent, gate, charged>>

EraseScan(s) ==
    /\ scan[s].state = "withdrawn"
    /\ scan' = [scan EXCEPT ![s] = [state |-> "gone", holder |-> None, fresh |-> FALSE]]
    /\ UNCHANGED <<rows, month, consent, gate, charged>>

Heartbeat(g) ==
    LET s == ScanOf[gate[g].key] IN
    /\ gate[g].at \notin {"out", "over"}
    /\ scan[s].state = "live" /\ scan[s].holder = g /\ ~scan[s].fresh
    /\ scan' = [scan EXCEPT ![s].fresh = TRUE]
    /\ UNCHANGED <<rows, month, consent, gate, charged>>

LeaseLapses(s) ==
    /\ scan[s].fresh
    /\ scan' = [scan EXCEPT ![s].fresh = FALSE]
    /\ UNCHANGED <<rows, month, consent, gate, charged>>

\* RECEIPT_PROVIDER_DISPATCH_STALE_MS since it was reserved or submitted.
GrowsStale(k) ==
    /\ dispatch[k].status \in {"RESERVED", "SUBMITTED"} /\ ~dispatch[k].aged
    /\ dispatch' = [dispatch EXCEPT ![k].aged = TRUE]
    /\ UNCHANGED <<scan, reserved, used, month, consent, gate, charged>>

MonthTurns ==
    /\ month < MaxMonth
    /\ month' = month + 1
    /\ UNCHANGED <<scan, rows, consent, gate, charged>>

-----------------------------------------------------------------------------
GateNext(g) ==
    \/ \E k \in Keys : ClaimScan(g, k)
    \/ ReadExisting(g) \/ Refused(g)
    \/ Reserve(g) \/ ReserveRaced(g) \/ ReserveFails(g)
    \/ EvidenceFails(g) \/ Submit(g) \/ SubmitRaced(g) \/ SubmitRefused(g)
    \/ CancelReservation(g) \/ CancelFails(g)
    \/ ProviderAnswers(g) \/ CallTimesOut(g) \/ AnswerIsInvalid(g)
    \/ Settle(g) \/ SettleFails(g) \/ MarkAmbiguous(g)
    \/ EndAttempt(g) \/ Heartbeat(g)

Reconcile(k) == ReconcileSubmission(k) \/ ReconcileReservation(k)

Next ==
    \/ \E g \in Gates : GateNext(g) \/ Crash(g)
    \/ \E k \in Keys : Reconcile(k) \/ GrowsStale(k)
    \/ \E s \in Scans : LeaseLapses(s) \/ WithdrawScan(s) \/ EraseScan(s)
    \/ \E b \in Businesses : GrantConsent(b) \/ RevokeConsent(b)
    \/ MonthTurns

DispatchSpec == Init /\ [][Next]_vars

\* Every step of the gate is bounded by a timeout, leases and reservations
\* grow old, and the receipt lane reconciles at the head of every pass.
GateProgress(g) ==
    \/ ReadExisting(g) \/ ReserveFails(g) \/ EvidenceFails(g) \/ CancelFails(g)
    \/ CallTimesOut(g) \/ SettleFails(g) \/ MarkAmbiguous(g) \/ EndAttempt(g)

FairDispatchSpec ==
    /\ DispatchSpec
    /\ \A g \in Gates : WF_vars(GateProgress(g))
    /\ \A k \in Keys : WF_vars(Reconcile(k)) /\ WF_vars(GrowsStale(k))
    /\ \A s \in Scans : WF_vars(LeaseLapses(s))

-----------------------------------------------------------------------------
(* Properties.                                                             *)

\* The rows, the attempts and the history have their types: no unit count
\* below zero, no reservation or answer but those the schema allows.
DispatchTypeOK ==
    /\ scan \in [Scans -> ScanView]
    /\ dispatch \in [Keys -> DispatchRow]
    /\ reserved \in [Budgets -> [Months -> Nat]]
    /\ used \in [Budgets -> [Months -> Nat]]
    /\ month \in Months
    /\ consent \in [Businesses -> [granted : Consents, open : Consents]]
    /\ gate \in [Gates -> GateState]
    /\ charged \in [Keys -> [Months -> Nat]]

OutstandingIn(b, m) ==
    {k \in Keys : /\ b \in BudgetsOf[k] /\ dispatch[k].cycle = m
                  /\ dispatch[k].status \in Outstanding}

\* Within one billing month, the reserved units of every budget are those of
\* its outstanding reservations, ambiguous ones included: no attempt that
\* dies, races or comes late, and no reconciliation, releases units twice or
\* leaves them behind (reserve, releaseOrConsume, reconcileCandidate).
BooksBalance ==
    \A b \in Budgets, m \in Months :
        reserved[b][m] = Units * Cardinality(OutstandingIn(b, m))

\* Releases units of the month its attempt knew, for a reservation that was
\* made anew in another one.
LateCancel(g) == CancelReservation(g) /\ gate[g].cycle # dispatch[gate[g].key].cycle

\* Over any months, the one step that can unbalance the books is a cancellation
\* that comes late; no settlement, crash, retry or reconciliation does
\* (releaseOrConsume takes the month from the attempt, not from the row).
OnlyLateCancelsUnbalance ==
    [][BooksBalance /\ ~BooksBalance' => \E g \in Gates : LateCancel(g)]_vars

\* The units of an outstanding reservation can be released: nothing makes its
\* cancellation or settlement roll back, or the reconciler throw and leave what
\* is queued behind it (releaseReconciliationBudget).
NothingIsStuck ==
    \A k \in Keys : dispatch[k].status \in Outstanding => Releasable(k, dispatch[k].cycle)

\* Used and reserved units together stay within the limit of every budget and
\* month, whoever reserves at once and whatever comes back (incrementReservation).
WithinLimit ==
    \A b \in Budgets, m \in Months : used[b][m] + reserved[b][m] <= Limit[b]

\* The sum of a function's values, counted as single units.
Total(f) == Cardinality(UNION {{x} \X (1 .. f[x]) : x \in DOMAIN f})

KeysOf(b) == {k \in Keys : b \in BudgetsOf[k]}

Booked(b) == Total([m \in Months |-> used[b][m] + reserved[b][m]])

Billed(b) ==
    Total([p \in KeysOf(b) \X Months |-> charged[p[1]][p[2]]])

\* The units a row accounts for: all it reserved, then what it was billed.
Due(row) ==
    CASE row.status \in Outstanding -> Units
      [] row.status \in {"SUCCEEDED", "FAILED"} -> row.bill
      [] row.status \in {"NONE", "CANCELLED"} -> 0

\* Over all months, the used and reserved units of a budget are those its rows
\* account for.  Even a late attempt that takes its units out of the wrong
\* month loses none: the budgets of all months together stay exact.
UnitsAreAccounted ==
    \A b \in Budgets : Booked(b) = Total([k \in KeysOf(b) |-> Due(dispatch[k])])

\* Whatever the provider billed to a budget, calls whose answer was lost, late
\* or invalid included, is covered by its used and reserved units.
SpendIsCovered == \A b \in Budgets : Billed(b) <= Booked(b)

\* How far the ledger of the provider has come with a key.
Stage(row) ==
    CASE row.status \in {"NONE", "CANCELLED"} -> "idle"
      [] row.status = "FAILED" /\ row.bill = 0 -> "idle"
      [] row.status = "RESERVED" -> "held"
      [] row.status = "SUBMITTED" -> "sent"
      [] row.status = "AMBIGUOUS" -> "doubtful"
      [] row.status = "SUCCEEDED" \/ (row.status = "FAILED" /\ row.bill # 0) -> "closed"

Ledger == INSTANCE ProviderLedger WITH
    stage <- [k \in Keys |-> Stage(dispatch[k])],
    cost <- [k \in Keys |-> Due(dispatch[k])],
    charge <- [k \in Keys |-> Total(charged[k])],
    booked <- [b \in Budgets |-> Booked(b)]

\* Attempts, crashes, late answers and reconciliation keep the ledger: what is
\* billed was held and sent, is covered when it is settled, and neither doubt
\* nor a settled bill is ever reopened (reserve, releaseOrConsume).
ImplementsLedger == Ledger!LedgerSpec

\* What a reservation key stands for is billed by the provider at most once,
\* however many attempts, refusals, re-armed rows and lost answers it takes
\* (reservationRearmable).  Another key of the same receipt may be billed too.
PaidOnce ==
    [][\A k \in Keys : charged'[k] # charged[k]
                        => \A m \in Months : charged[k][m] = 0]_charged

\* What leaves for the provider leaves under the consent that is open at that
\* moment, and the dispatch row names that consent, whichever attempt made,
\* shared or re-armed the reservation (the submitting transaction).
SentUnderItsConsent ==
    [][\A k \in Keys :
          dispatch[k].status # "SUBMITTED" /\ dispatch'[k].status = "SUBMITTED"
          => /\ dispatch'[k].consent # 0
             /\ dispatch'[k].consent = consent[BusinessOf[k]].open]_vars

\* After an owner's revoke only the owner opens a consent again: automatic
\* mode does not override them, whatever reservations were under way.
RevocationStands ==
    [][\A b \in Businesses :
          consent[b].granted > 0 /\ consent[b].open = 0 /\ consent'[b].open # 0
          => GrantConsent(b)]_vars

Undecided(k) == dispatch[k].status \in {"RESERVED", "SUBMITTED"}

\* No reservation or call stays undecided: whatever crashes, the budgets are
\* told in the end (reconcileStaleReceiptProviderDispatches).
EveryCallIsDecided == \A k \in Keys : Undecided(k) ~> ~Undecided(k)

\* docs/COST-FIRST-CORE-FEATURES-IMPLEMENTATION-PLAN.md:388: an ambiguous
\* reservation continues to count against the cycle cap.
AmbiguousCounts ==
    \A b \in Budgets, m \in Months :
        reserved[b][m] >= Units * Cardinality({k \in OutstandingIn(b, m) :
                                                 dispatch[k].status = "AMBIGUOUS"})
=============================================================================
