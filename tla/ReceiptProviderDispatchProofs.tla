-------------------- MODULE ReceiptProviderDispatchProofs --------------------
(***************************************************************************)
(* Proofs about ReceiptProviderDispatch for any receipts, keys, attempts,  *)
(* businesses, budgets and limits, and any number of months and grants;    *)
(* BooksBalance and NothingIsStuck are about a single month.               *)
(***************************************************************************)
EXTENDS ReceiptProviderDispatch, FiniteSetTheorems, TLAPS

-----------------------------------------------------------------------------
(* Types.  What an attempt holds is enough for its next step.              *)

Knows(x) ==
    /\ x.at \notin {"out", "over"} => x.key \in Keys
    /\ x.at = "reserving" => x.rearm \in {"NONE", "CANCELLED", "FAILED"}
    /\ x.outcome.status # "AMBIGUOUS" => x.outcome.bill \in Amounts

TypeInv ==
    /\ DispatchTypeOK
    /\ \A g \in Gates : Knows(gate[g])

GatesTyped ==
    /\ gate \in [Gates -> GateState]
    /\ \A g \in Gates : Knows(gate[g])

LEMMA FirstMonth == 1 \in Months
  BY DispatchAssumption DEF Months

LEMMA NoDispatchType == NoDispatch \in DispatchRow
  BY FirstMonth, DispatchAssumption DEF NoDispatch, DispatchRow, Status, Consents, Unbilled

LEMMA NoOutcomeType == NoOutcome \in Outcome
  BY DEF NoOutcome, Outcome

LEMMA NewGateType == NewGate \in GateState /\ Knows(NewGate)
<1>1. NewGate \in GateState
  BY NoOutcomeType, FirstMonth, DispatchAssumption
  DEF NewGate, GateState, Places, Status, Consents
<1>2. Knows(NewGate)
  BY DEF NewGate, Knows, NoOutcome
<1> QED BY <1>1, <1>2

LEMMA GateOf ==
  ASSUME TypeInv, NEW g \in Gates
  PROVE  gate[g] \in GateState /\ Knows(gate[g])
  BY DEF TypeInv, DispatchTypeOK

\* One attempt's record is replaced.
LEMMA GateWrite ==
  ASSUME TypeInv, NEW g \in Gates, NEW x \in GateState, Knows(x),
         gate' = [gate EXCEPT ![g] = x]
  PROVE  GatesTyped'
  BY DEF TypeInv, DispatchTypeOK, GatesTyped

LEMMA LeavesType ==
  ASSUME TypeInv, NEW g \in Gates, Leaves(g), gate[g].key \in Keys
  PROVE  GatesTyped'
<1> DEFINE k == gate[g].key
           x == [NewGate EXCEPT !.at = "done", !.key = k]
<1>1. x \in GateState
  BY NewGateType DEF GateState, Places
<1>2. Knows(x)
  <2>1. NewGate \in GateState
    BY NewGateType
  <2>2. x.at = "done" /\ x.key = k /\ x.outcome = NoOutcome
    BY DEF NewGate
  <2> QED BY <2>2 DEF Knows, NoOutcome
<1>3. gate' = [gate EXCEPT ![g] = x]
  BY DEF Leaves
<1> HIDE DEF x
<1> QED BY <1>1, <1>2, <1>3, GateWrite

LEMMA EndsType ==
  ASSUME TypeInv, NEW g \in Gates, Ends(g)
  PROVE  GatesTyped'
<1> DEFINE x == [NewGate EXCEPT !.at = "over"]
<1>1. x \in GateState
  BY NewGateType DEF GateState, Places
<1>2. Knows(x)
  BY DEF Knows, NewGate, NoOutcome
<1>3. gate' = [gate EXCEPT ![g] = x]
  BY DEF Ends
<1> HIDE DEF x
<1> QED BY <1>1, <1>2, <1>3, GateWrite

LEMMA GoesType ==
  ASSUME TypeInv, NEW g \in Gates, NEW place \in {"cancelling", "calling", "marking"},
         gate[g].at \notin {"out", "over"}, Goes(g, place)
  PROVE  GatesTyped'
<1> DEFINE x == [gate[g] EXCEPT !.at = place]
<1>1. gate[g] \in GateState /\ Knows(gate[g])
  BY GateOf
<1>2. x \in GateState
  BY <1>1 DEF GateState, Places
<1>3. x.at = place /\ x.key = gate[g].key /\ x.outcome = gate[g].outcome
  BY <1>1 DEF GateState
<1>4. gate' = [gate EXCEPT ![g] = x]
  <2>1. gate \in [Gates -> GateState]
    BY DEF TypeInv, DispatchTypeOK
  <2> QED BY <2>1 DEF Goes
<1> HIDE DEF x
<1>5. Knows(x)
  BY <1>1, <1>3 DEF Knows
<1> QED BY <1>2, <1>4, <1>5, GateWrite

LEMMA HoldingType ==
  ASSUME TypeInv, NEW g \in Gates, NEW row \in DispatchRow,
         gate[g].key \in Keys, Holding(g, row)
  PROVE  GatesTyped'
<1> DEFINE c == row.consent
           m == row.cycle
           x == [gate[g] EXCEPT !.at = "ready", !.rearm = "NONE", !.consent = c, !.cycle = m]
<1>1. gate[g] \in GateState /\ Knows(gate[g])
  BY GateOf
<1>2. c \in Consents /\ m \in Months
  BY DEF DispatchRow
<1>3. gate' = [gate EXCEPT ![g] = x]
  BY DEF Holding
<1> HIDE DEF c, m
<1>4. x \in GateState
  BY <1>1, <1>2 DEF GateState, Places, Status
<1>5. x.at = "ready" /\ x.key = gate[g].key /\ x.outcome = gate[g].outcome
  BY <1>1 DEF GateState
<1> HIDE DEF x
<1>6. Knows(x)
  BY <1>1, <1>5 DEF Knows
<1> QED BY <1>3, <1>4, <1>6, GateWrite

LEMMA AnsweredType ==
  ASSUME TypeInv, NEW g \in Gates, NEW o \in Outcome, gate[g].key \in Keys,
         o.status # "AMBIGUOUS" => o.bill \in Amounts,
         gate' = [gate EXCEPT ![g].at = "answered", ![g].outcome = o]
  PROVE  GatesTyped'
<1> DEFINE x == [gate[g] EXCEPT !.at = "answered", !.outcome = o]
<1>1. gate[g] \in GateState
  BY GateOf
<1>2. x \in GateState
  BY <1>1 DEF GateState, Places
<1>3. x.at = "answered" /\ x.key = gate[g].key /\ x.outcome = o
  BY <1>1 DEF GateState
<1>4. gate' = [gate EXCEPT ![g] = x]
  <2>1. gate \in [Gates -> GateState]
    BY DEF TypeInv, DispatchTypeOK
  <2> QED BY <2>1
<1> HIDE DEF x
<1>5. Knows(x)
  BY <1>3 DEF Knows
<1> QED BY <1>2, <1>4, <1>5, GateWrite

-----------------------------------------------------------------------------
(* What is written to the other rows is of its type. *)

LEMMA RowWrite ==
  ASSUME TypeInv, NEW k \in Keys, NEW x \in DispatchRow, dispatch' = [dispatch EXCEPT ![k] = x]
  PROVE  dispatch' \in [Keys -> DispatchRow]
  BY DEF TypeInv, DispatchTypeOK

LEMMA RowOf ==
  ASSUME TypeInv, NEW k \in Keys
  PROVE  dispatch[k] \in DispatchRow
  BY DEF TypeInv, DispatchTypeOK

LEMMA CancelledType ==
  ASSUME NEW row \in DispatchRow
  PROVE  /\ Cancelled(row) \in DispatchRow
         /\ Cancelled(row).status = "CANCELLED"
         /\ Cancelled(row).bill = 0
         /\ Cancelled(row).cycle = row.cycle
         /\ Cancelled(row).consent = row.consent
<1>1. 0 \in Amounts
  BY DispatchAssumption DEF Amounts
<1> QED BY <1>1 DEF Cancelled, DispatchRow, Status

LEMMA SettledType ==
  ASSUME NEW row \in DispatchRow, NEW o \in Outcome
  PROVE  /\ Settled(row, o) \in DispatchRow
         /\ Settled(row, o).status = o.status
         /\ Settled(row, o).bill = o.bill
         /\ Settled(row, o).cycle = row.cycle
         /\ Settled(row, o).consent = row.consent
<1>1. o.status \in {"SUCCEEDED", "FAILED", "AMBIGUOUS"} /\ o.bill \in Amounts \cup {Unbilled}
      /\ o.refusal \in BOOLEAN
  BY DEF Outcome
<1> QED BY <1>1 DEF Settled, DispatchRow, Status

LEMMA TakesType ==
  ASSUME TypeInv, NEW k \in Keys, NEW m \in Months, Reserving(k, m, 1)
  PROVE  reserved' \in [Budgets -> [Months -> Nat]]
<1>1. Units \in Nat
  BY DispatchAssumption
<1>2. ASSUME NEW b \in Budgets PROVE reserved[b][m] + 1 * Units \in Nat
  <2>1. reserved[b][m] \in Nat
    BY DEF TypeInv, DispatchTypeOK
  <2> QED BY <1>1, <2>1
<1> QED BY <1>2 DEF Reserving, TypeInv, DispatchTypeOK

LEMMA ReleasesType ==
  ASSUME TypeInv, NEW k \in Keys, NEW m \in Months, Reserving(k, m, -1), Releasable(k, m)
  PROVE  reserved' \in [Budgets -> [Months -> Nat]]
<1>1. Units \in Nat
  BY DispatchAssumption
<1>2. ASSUME NEW b \in Budgets, b \in BudgetsOf[k] PROVE reserved[b][m] + (-1) * Units \in Nat
  <2>1. reserved[b][m] \in Nat
    BY DEF TypeInv, DispatchTypeOK
  <2>2. reserved[b][m] >= Units
    BY <1>2 DEF Releasable
  <2> QED BY <1>1, <2>1, <2>2
<1>3. ASSUME NEW b \in Budgets PROVE reserved'[b] \in [Months -> Nat]
  <2>1. reserved[b] \in [Months -> Nat]
    BY DEF TypeInv, DispatchTypeOK
  <2>2. CASE b \in BudgetsOf[k]
    <3>1. reserved'[b] = [reserved[b] EXCEPT ![m] = reserved[b][m] + (-1) * Units]
      BY <2>2 DEF Reserving
    <3> QED BY <2>1, <2>2, <3>1, <1>2
  <2>3. CASE b \notin BudgetsOf[k]
    BY <2>1, <2>3 DEF Reserving
  <2> QED BY <2>2, <2>3
<1> QED BY <1>3 DEF Reserving

LEMMA UsingType ==
  ASSUME TypeInv, NEW k \in Keys, NEW m \in Months, NEW u \in Nat, Using(k, m, u)
  PROVE  used' \in [Budgets -> [Months -> Nat]]
<1>1. ASSUME NEW b \in Budgets PROVE used[b][m] + u \in Nat
  BY DEF TypeInv, DispatchTypeOK
<1> QED BY <1>1 DEF Using, TypeInv, DispatchTypeOK

LEMMA BillsType ==
  ASSUME TypeInv, NEW g \in Gates, NEW bill \in Amounts, gate[g].key \in Keys, Bills(g, bill)
  PROVE  charged' \in [Keys -> [Months -> Nat]]
<1> DEFINE k == gate[g].key
           m == gate[g].cycle
<1>1. m \in Months
  BY GateOf DEF GateState
<1>2. bill \in Nat
  BY DispatchAssumption DEF Amounts
<1>3. charged[k] \in [Months -> Nat] /\ charged[k][m] + bill \in Nat
  BY <1>1, <1>2 DEF TypeInv, DispatchTypeOK
<1>4. charged' = [charged EXCEPT ![k] = [charged[k] EXCEPT ![m] = charged[k][m] + bill]]
  BY DEF Bills, TypeInv, DispatchTypeOK
<1> HIDE DEF k, m
<1> QED BY <1>1, <1>3, <1>4 DEF TypeInv, DispatchTypeOK

-----------------------------------------------------------------------------
(* The steps of an attempt. *)

LEMMA ConsentForReserveType ==
  ASSUME TypeInv, NEW b \in Businesses, ConsentForReserve(b)
  PROVE  /\ consent' \in [Businesses -> [granted : Consents, open : Consents]]
         /\ consent'[b].open \in Consents
<1>1. consent[b].open \in Consents
  BY DEF TypeInv, DispatchTypeOK
<1>2. CASE UNCHANGED consent
  BY <1>1, <1>2 DEF TypeInv, DispatchTypeOK
<1>3. CASE GrantByPolicy(b) /\ consent' = [consent EXCEPT ![b] = [granted |-> 1, open |-> 1]]
  <2>1. 1 \in Consents
    BY <1>3, DispatchAssumption DEF GrantByPolicy, Consents
  <2> QED BY <1>3, <2>1 DEF TypeInv, DispatchTypeOK
<1> QED BY <1>2, <1>3 DEF ConsentForReserve

LEMMA NewReservationType ==
  ASSUME TypeInv, NEW b \in Businesses, NEW m \in Months, ConsentForReserve(b)
  PROVE  /\ NewReservation(b, m) \in DispatchRow
         /\ NewReservation(b, m).status = "RESERVED"
         /\ NewReservation(b, m).cycle = m
         /\ NewReservation(b, m).consent = consent'[b].open
<1>1. consent'[b].open \in Consents
  BY ConsentForReserveType
<1> QED BY <1>1, NoDispatchType DEF NewReservation, DispatchRow, Status

LEMMA ClaimScanType ==
  ASSUME TypeInv, NEW g \in Gates, NEW k \in Keys, ClaimScan(g, k)
  PROVE  TypeInv'
<1> DEFINE s == ScanOf[k]
           x == [gate[g] EXCEPT !.at = "lookup", !.key = k]
           y == [scan[s] EXCEPT !.holder = g, !.fresh = TRUE]
<1>1. gate[g] \in GateState /\ Knows(gate[g])
  BY GateOf
<1>2. x \in GateState
  BY <1>1 DEF GateState, Places
<1>3. x.at = "lookup" /\ x.key = k /\ x.outcome = gate[g].outcome
  BY <1>1 DEF GateState
<1>4. s \in Scans /\ scan[s] \in ScanView
  BY DispatchAssumption DEF TypeInv, DispatchTypeOK
<1>5. y \in ScanView
  BY <1>4 DEF ScanView
<1>6. gate' = [gate EXCEPT ![g] = x] /\ scan' = [scan EXCEPT ![s] = y]
  BY DEF ClaimScan, TypeInv, DispatchTypeOK
<1> HIDE DEF x, y, s
<1>7. Knows(x)
  BY <1>1, <1>3 DEF Knows
<1>8. GatesTyped'
  BY <1>2, <1>6, <1>7, GateWrite
<1>9. scan' \in [Scans -> ScanView]
  BY <1>4, <1>5, <1>6 DEF TypeInv, DispatchTypeOK
<1> QED BY <1>8, <1>9 DEF ClaimScan, TypeInv, DispatchTypeOK, GatesTyped, rows

LEMMA ReadExistingType ==
  ASSUME TypeInv, NEW g \in Gates, ReadExisting(g)
  PROVE  TypeInv'
<1> DEFINE k == gate[g].key
           row == dispatch[k]
<1>1. gate[g] \in GateState /\ Knows(gate[g]) /\ gate[g].at = "lookup"
  BY GateOf DEF ReadExisting
<1>2. k \in Keys
  BY <1>1 DEF Knows
<1>3. row \in DispatchRow
  BY <1>2, RowOf
<1>4. ASSUME Holding(g, row) PROVE GatesTyped'
  BY <1>2, <1>3, <1>4, HoldingType
<1>5. ASSUME Leaves(g) PROVE GatesTyped'
  BY <1>2, <1>5, LeavesType
<1>6. ASSUME row.status = "NONE" \/ Rearmable(row),
             gate' = [gate EXCEPT ![g] = [@ EXCEPT !.at = "reserving", !.rearm = row.status,
                                                   !.cycle = month]]
      PROVE  GatesTyped'
  <2> DEFINE st == row.status
             x == [gate[g] EXCEPT !.at = "reserving", !.rearm = st, !.cycle = month]
  <2>1. st \in {"NONE", "CANCELLED", "FAILED"}
    BY <1>6 DEF Rearmable
  <2>2. gate' = [gate EXCEPT ![g] = x]
    BY <1>6 DEF TypeInv, DispatchTypeOK
  <2> HIDE DEF st
  <2>3. x \in GateState
    BY <1>1, <2>1 DEF GateState, Places, Status, TypeInv, DispatchTypeOK
  <2>4. x.at = "reserving" /\ x.rearm = st /\ x.key = k /\ x.outcome = gate[g].outcome
    BY <1>1 DEF GateState
  <2> HIDE DEF x
  <2>5. Knows(x)
    BY <1>1, <1>2, <2>1, <2>4 DEF Knows
  <2> QED BY <2>2, <2>3, <2>5, GateWrite
<1>7. GatesTyped'
  <2> HIDE DEF row
  <2> QED BY <1>4, <1>5, <1>6 DEF ReadExisting, row
<1> QED BY <1>7 DEF ReadExisting, TypeInv, DispatchTypeOK, GatesTyped, rows

\* Steps that leave, or go on to another place, and write nothing else.
LEMMA TurnType ==
  ASSUME TypeInv, NEW g \in Gates,
         \/ Refused(g) \/ ReserveFails(g) \/ EvidenceFails(g) \/ SubmitRaced(g)
         \/ SubmitRefused(g) \/ CancelFails(g) \/ SettleFails(g)
  PROVE  TypeInv'
<1>1. gate[g].at \notin {"out", "over"}
  BY DEF Refused, ReserveFails, EvidenceFails, SubmitRaced, SubmitRefused, CancelFails, SettleFails
<1>2. gate[g].key \in Keys
  BY <1>1, GateOf DEF Knows
<1>3. Leaves(g) \/ Goes(g, "cancelling") \/ Goes(g, "marking")
  BY DEF Refused, ReserveFails, EvidenceFails, SubmitRaced, SubmitRefused, CancelFails, SettleFails
<1>4. GatesTyped'
  BY <1>1, <1>2, <1>3, LeavesType, GoesType
<1> QED BY <1>4 DEF Refused, ReserveFails, EvidenceFails, SubmitRaced, SubmitRefused,
        CancelFails, SettleFails, TypeInv, DispatchTypeOK, GatesTyped, rows

LEMMA ReserveType ==
  ASSUME TypeInv, NEW g \in Gates, Reserve(g)
  PROVE  TypeInv'
<1> DEFINE k == gate[g].key
           b == BusinessOf[k]
           m == gate[g].cycle
           row == NewReservation(b, m)
<1>1. k \in Keys /\ m \in Months
  BY GateOf DEF Knows, Reserve, GateState
<1>2. b \in Businesses
  BY <1>1, DispatchAssumption
<1>3. row \in DispatchRow /\ consent' \in [Businesses -> [granted : Consents, open : Consents]]
  BY <1>1, <1>2, NewReservationType, ConsentForReserveType DEF Reserve
<1>4. dispatch' = [dispatch EXCEPT ![k] = row] /\ Holding(g, row)
  BY DEF Reserve
<1>5. reserved' \in [Budgets -> [Months -> Nat]]
  BY <1>1, TakesType DEF Reserve
<1> HIDE DEF row
<1>6. GatesTyped'
  BY <1>1, <1>3, <1>4, HoldingType
<1>7. dispatch' \in [Keys -> DispatchRow]
  BY <1>1, <1>3, <1>4, RowWrite
<1> QED BY <1>3, <1>5, <1>6, <1>7 DEF Reserve, TypeInv, DispatchTypeOK, GatesTyped

LEMMA ReserveRacedType ==
  ASSUME TypeInv, NEW g \in Gates, ReserveRaced(g)
  PROVE  TypeInv'
<1>1. gate[g].key \in Keys
  BY GateOf DEF Knows, ReserveRaced
<1>2. dispatch[gate[g].key] \in DispatchRow
  BY <1>1, RowOf
<1>3. GatesTyped'
  BY <1>1, <1>2, HoldingType DEF ReserveRaced
<1> QED BY <1>3 DEF ReserveRaced, TypeInv, DispatchTypeOK, GatesTyped, rows

LEMMA SubmitType ==
  ASSUME TypeInv, NEW g \in Gates, Submit(g)
  PROVE  TypeInv'
<1> DEFINE k == gate[g].key
           x == [dispatch[k] EXCEPT !.status = "SUBMITTED", !.aged = FALSE]
<1>1. k \in Keys
  BY GateOf DEF Knows, Submit
<1>2. dispatch[k] \in DispatchRow
  BY <1>1, RowOf
<1>3. x \in DispatchRow
  BY <1>2 DEF DispatchRow, Status
<1>4. dispatch' = [dispatch EXCEPT ![k] = x]
  BY DEF Submit, TypeInv, DispatchTypeOK
<1> HIDE DEF x
<1>5. dispatch' \in [Keys -> DispatchRow]
  BY <1>1, <1>3, <1>4, RowWrite
<1>6. GatesTyped'
  BY GoesType DEF Submit
<1> QED BY <1>5, <1>6 DEF Submit, TypeInv, DispatchTypeOK, GatesTyped

LEMMA CancelReservationType ==
  ASSUME TypeInv, NEW g \in Gates, CancelReservation(g)
  PROVE  TypeInv'
<1> DEFINE k == gate[g].key
           m == gate[g].cycle
<1>1. k \in Keys /\ m \in Months
  BY GateOf DEF Knows, CancelReservation, GateState
<1>2. Cancelled(dispatch[k]) \in DispatchRow
  BY <1>1, RowOf, CancelledType
<1>3. dispatch' = [dispatch EXCEPT ![k] = Cancelled(dispatch[k])]
  BY DEF CancelReservation, TypeInv, DispatchTypeOK
<1>4. dispatch' \in [Keys -> DispatchRow]
  BY <1>1, <1>2, <1>3, RowWrite
<1>5. reserved' \in [Budgets -> [Months -> Nat]]
  BY <1>1, ReleasesType DEF CancelReservation
<1>6. GatesTyped'
  BY <1>1, LeavesType DEF CancelReservation
<1> QED BY <1>4, <1>5, <1>6 DEF CancelReservation, TypeInv, DispatchTypeOK, GatesTyped

LEMMA CallType ==
  ASSUME TypeInv, NEW g \in Gates,
         ProviderAnswers(g) \/ CallTimesOut(g) \/ AnswerIsInvalid(g)
  PROVE  TypeInv'
<1>1. gate[g].key \in Keys
  BY GateOf DEF Knows, ProviderAnswers, CallTimesOut, AnswerIsInvalid
<1>2. PICK bill \in Amounts : Bills(g, bill)
  BY DEF ProviderAnswers, CallTimesOut, AnswerIsInvalid
<1>3. charged' \in [Keys -> [Months -> Nat]]
  BY <1>1, <1>2, BillsType
<1>4. ASSUME ProviderAnswers(g) PROVE GatesTyped'
  <2>1. PICK status \in {"SUCCEEDED", "FAILED"}, sum \in Amounts, refusal \in BOOLEAN :
             gate' = [gate EXCEPT ![g].at = "answered",
                       ![g].outcome = [status |-> status, bill |-> sum, refusal |-> refusal]]
    BY <1>4 DEF ProviderAnswers
  <2> DEFINE o == [status |-> status, bill |-> sum, refusal |-> refusal]
  <2>2. o \in Outcome /\ o.bill \in Amounts
    BY DEF Outcome
  <2>3. gate' = [gate EXCEPT ![g].at = "answered", ![g].outcome = o]
    BY <2>1
  <2> HIDE DEF o
  <2> QED BY <1>1, <2>2, <2>3, AnsweredType DEF GatesTyped
<1>5. ASSUME CallTimesOut(g) PROVE GatesTyped'
  BY <1>1, <1>5, NoOutcomeType, AnsweredType DEF CallTimesOut, NoOutcome
<1>6. ASSUME AnswerIsInvalid(g) PROVE GatesTyped'
  <2> DEFINE o == [status |-> "FAILED", bill |-> Units, refusal |-> FALSE]
  <2>1. Units \in Amounts
    BY DispatchAssumption DEF Amounts
  <2>2. o \in Outcome /\ o.bill \in Amounts
    BY <2>1 DEF Outcome
  <2>3. gate' = [gate EXCEPT ![g].at = "answered", ![g].outcome = o]
    BY <1>6 DEF AnswerIsInvalid
  <2> HIDE DEF o
  <2> QED BY <1>1, <2>2, <2>3, AnsweredType
<1>7. GatesTyped'
  BY <1>4, <1>5, <1>6
<1> QED BY <1>3, <1>7 DEF ProviderAnswers, CallTimesOut, AnswerIsInvalid, TypeInv,
        DispatchTypeOK, GatesTyped, rows

LEMMA SettleType ==
  ASSUME TypeInv, NEW g \in Gates, Settle(g)
  PROVE  TypeInv'
<1> DEFINE k == gate[g].key
           m == gate[g].cycle
           o == gate[g].outcome
<1>1. gate[g] \in GateState /\ Knows(gate[g]) /\ gate[g].at = "answered"
  BY GateOf DEF Settle
<1>2. k \in Keys /\ m \in Months /\ o \in Outcome
  BY <1>1 DEF GateState, Knows
<1>3. Settled(dispatch[k], o) \in DispatchRow
  BY <1>2, RowOf, SettledType
<1>4. dispatch' = [dispatch EXCEPT ![k] = Settled(dispatch[k], o)]
  BY DEF Settle, TypeInv, DispatchTypeOK
<1>5. dispatch' \in [Keys -> DispatchRow]
  BY <1>2, <1>3, <1>4, RowWrite
<1>6. GatesTyped'
  BY <1>1, <1>2, LeavesType, GoesType DEF Settle
<1>7. reserved' \in [Budgets -> [Months -> Nat]] /\ used' \in [Budgets -> [Months -> Nat]]
  <2>1. CASE o.status = "AMBIGUOUS"
    BY <2>1 DEF Settle, TypeInv, DispatchTypeOK
  <2>2. CASE o.status # "AMBIGUOUS"
    <3>1. o.bill \in Nat
      BY <1>1, <2>2, DispatchAssumption DEF Knows, Amounts
    <3>2. Releasable(k, m) /\ Reserving(k, m, -1) /\ Using(k, m, o.bill)
      BY <2>2 DEF Settle
    <3> QED BY <1>2, <3>1, <3>2, ReleasesType, UsingType
  <2> QED BY <2>1, <2>2
<1> QED BY <1>5, <1>6, <1>7 DEF Settle, TypeInv, DispatchTypeOK, GatesTyped

LEMMA MarkAmbiguousType ==
  ASSUME TypeInv, NEW g \in Gates, MarkAmbiguous(g)
  PROVE  TypeInv'
<1> DEFINE k == gate[g].key
<1>1. k \in Keys
  BY GateOf DEF Knows, MarkAmbiguous
<1>2. Settled(dispatch[k], NoOutcome) \in DispatchRow
  BY <1>1, RowOf, SettledType, NoOutcomeType
<1>3. dispatch' = [dispatch EXCEPT ![k] = Settled(dispatch[k], NoOutcome)] \/ UNCHANGED dispatch
  BY DEF MarkAmbiguous, TypeInv, DispatchTypeOK
<1>4. dispatch' \in [Keys -> DispatchRow]
  BY <1>1, <1>2, <1>3, RowWrite DEF TypeInv, DispatchTypeOK
<1>5. GatesTyped'
  BY <1>1, LeavesType DEF MarkAmbiguous
<1> QED BY <1>4, <1>5 DEF MarkAmbiguous, TypeInv, DispatchTypeOK, GatesTyped

LEMMA CrashType ==
  ASSUME TypeInv, NEW g \in Gates, Crash(g)
  PROVE  TypeInv'
<1>1. GatesTyped'
  BY EndsType DEF Crash
<1>2. charged' \in [Keys -> [Months -> Nat]]
  <2>1. CASE gate[g].at = "calling"
    <3>1. gate[g].key \in Keys
      BY <2>1, GateOf DEF Knows
    <3> QED BY <2>1, <3>1, BillsType DEF Crash
  <2>2. CASE gate[g].at # "calling"
    BY <2>2 DEF Crash, TypeInv, DispatchTypeOK
  <2> QED BY <2>1, <2>2
<1> QED BY <1>1, <1>2 DEF Crash, TypeInv, DispatchTypeOK, GatesTyped, rows

LEMMA EndAttemptType ==
  ASSUME TypeInv, NEW g \in Gates, EndAttempt(g)
  PROVE  TypeInv'
<1> DEFINE s == ScanOf[gate[g].key]
           x == [scan[s] EXCEPT !.holder = None, !.fresh = FALSE]
<1>1. s \in Scans
  BY GateOf, DispatchAssumption DEF Knows, EndAttempt
<1>2. scan[s] \in ScanView
  BY <1>1 DEF TypeInv, DispatchTypeOK
<1>3. x \in ScanView
  BY <1>2 DEF ScanView
<1>4. scan' = [scan EXCEPT ![s] = x] \/ scan' = scan
  BY DEF EndAttempt, TypeInv, DispatchTypeOK
<1> HIDE DEF x
<1>5. scan' \in [Scans -> ScanView]
  BY <1>1, <1>3, <1>4 DEF TypeInv, DispatchTypeOK
<1>6. GatesTyped'
  BY EndsType DEF EndAttempt
<1> QED BY <1>5, <1>6 DEF EndAttempt, TypeInv, DispatchTypeOK, GatesTyped, rows

LEMMA HeartbeatType ==
  ASSUME TypeInv, NEW g \in Gates, Heartbeat(g)
  PROVE  TypeInv'
<1> DEFINE s == ScanOf[gate[g].key]
           x == [scan[s] EXCEPT !.fresh = TRUE]
<1>1. s \in Scans
  BY GateOf, DispatchAssumption DEF Knows, Heartbeat
<1>2. scan[s] \in ScanView
  BY <1>1 DEF TypeInv, DispatchTypeOK
<1>3. x \in ScanView
  BY <1>2 DEF ScanView
<1>4. scan' = [scan EXCEPT ![s] = x]
  BY DEF Heartbeat, TypeInv, DispatchTypeOK
<1> HIDE DEF x
<1>5. scan' \in [Scans -> ScanView]
  BY <1>1, <1>3, <1>4 DEF TypeInv, DispatchTypeOK
<1> QED BY <1>5 DEF Heartbeat, TypeInv, DispatchTypeOK, rows

-----------------------------------------------------------------------------
(* The steps of the maintenance pass, the owner and the clock. *)

LEMMA ReconcileSubmissionType ==
  ASSUME TypeInv, NEW k \in Keys, ReconcileSubmission(k)
  PROVE  TypeInv'
<1>1. Settled(dispatch[k], NoOutcome) \in DispatchRow
  BY RowOf, SettledType, NoOutcomeType
<1>2. dispatch' = [dispatch EXCEPT ![k] = Settled(dispatch[k], NoOutcome)]
  BY DEF ReconcileSubmission, TypeInv, DispatchTypeOK
<1>3. dispatch' \in [Keys -> DispatchRow]
  BY <1>1, <1>2, RowWrite
<1> QED BY <1>3 DEF ReconcileSubmission, TypeInv, DispatchTypeOK

LEMMA ReconcileReservationType ==
  ASSUME TypeInv, NEW k \in Keys, ReconcileReservation(k)
  PROVE  TypeInv'
<1>1. dispatch[k] \in DispatchRow
  BY RowOf
<1>2. Cancelled(dispatch[k]) \in DispatchRow /\ dispatch[k].cycle \in Months
  BY <1>1, CancelledType DEF DispatchRow
<1>3. dispatch' = [dispatch EXCEPT ![k] = Cancelled(dispatch[k])]
  BY DEF ReconcileReservation, TypeInv, DispatchTypeOK
<1>4. dispatch' \in [Keys -> DispatchRow]
  BY <1>2, <1>3, RowWrite
<1>5. reserved' \in [Budgets -> [Months -> Nat]]
  BY <1>2, ReleasesType DEF ReconcileReservation
<1> QED BY <1>4, <1>5 DEF ReconcileReservation, TypeInv, DispatchTypeOK

LEMMA GrowsStaleType ==
  ASSUME TypeInv, NEW k \in Keys, GrowsStale(k)
  PROVE  TypeInv'
<1> DEFINE x == [dispatch[k] EXCEPT !.aged = TRUE]
<1>1. dispatch[k] \in DispatchRow
  BY RowOf
<1>2. x \in DispatchRow
  BY <1>1 DEF DispatchRow
<1>3. dispatch' = [dispatch EXCEPT ![k] = x]
  BY DEF GrowsStale, TypeInv, DispatchTypeOK
<1> HIDE DEF x
<1>4. dispatch' \in [Keys -> DispatchRow]
  BY <1>2, <1>3, RowWrite
<1> QED BY <1>4 DEF GrowsStale, TypeInv, DispatchTypeOK

\* What happens to a key whatever attempts are at work on it.
LEMMA ScanStepType ==
  ASSUME TypeInv, NEW s \in Scans, LeaseLapses(s) \/ WithdrawScan(s) \/ EraseScan(s)
  PROVE  TypeInv'
<1>1. scan[s] \in ScanView
  BY DEF TypeInv, DispatchTypeOK
<1>2. PICK x \in ScanView : scan' = [scan EXCEPT ![s] = x]
  <2>1. /\ [scan[s] EXCEPT !.fresh = FALSE] \in ScanView
        /\ [scan[s] EXCEPT !.state = "withdrawn"] \in ScanView
        /\ [state |-> "gone", holder |-> None, fresh |-> FALSE] \in ScanView
    BY <1>1 DEF ScanView
  <2>2. \/ scan' = [scan EXCEPT ![s] = [scan[s] EXCEPT !.fresh = FALSE]]
        \/ scan' = [scan EXCEPT ![s] = [scan[s] EXCEPT !.state = "withdrawn"]]
        \/ scan' = [scan EXCEPT ![s] = [state |-> "gone", holder |-> None, fresh |-> FALSE]]
    BY DEF LeaseLapses, WithdrawScan, EraseScan, TypeInv, DispatchTypeOK
  <2> QED BY <2>1, <2>2
<1>3. scan' \in [Scans -> ScanView]
  BY <1>2 DEF TypeInv, DispatchTypeOK
<1> QED BY <1>3 DEF LeaseLapses, WithdrawScan, EraseScan, TypeInv, DispatchTypeOK, rows

LEMMA ConsentStepType ==
  ASSUME TypeInv, NEW b \in Businesses, GrantConsent(b) \/ RevokeConsent(b)
  PROVE  TypeInv'
<1> DEFINE n == consent[b].granted + 1
<1>1. consent[b] \in [granted : Consents, open : Consents]
  BY DEF TypeInv, DispatchTypeOK
<1>2. CASE GrantConsent(b)
  <2>1. n \in Consents
    BY <1>1, <1>2, DispatchAssumption DEF GrantConsent, Consents
  <2>2. consent' = [consent EXCEPT ![b] = [granted |-> n, open |-> n]]
    BY <1>2 DEF GrantConsent, TypeInv, DispatchTypeOK
  <2> HIDE DEF n
  <2>3. consent' \in [Businesses -> [granted : Consents, open : Consents]]
    BY <2>1, <2>2 DEF TypeInv, DispatchTypeOK
  <2> QED BY <1>2, <2>3 DEF GrantConsent, TypeInv, DispatchTypeOK, rows
<1>3. CASE RevokeConsent(b)
  <2>1. 0 \in Consents
    BY DispatchAssumption DEF Consents
  <2>2. consent' \in [Businesses -> [granted : Consents, open : Consents]]
    BY <1>1, <1>3, <2>1 DEF RevokeConsent, TypeInv, DispatchTypeOK
  <2> QED BY <1>3, <2>2 DEF RevokeConsent, TypeInv, DispatchTypeOK, rows
<1> QED BY <1>2, <1>3

LEMMA MonthTurnsType ==
  ASSUME TypeInv, MonthTurns
  PROVE  TypeInv'
<1>1. month' \in Months
  BY DispatchAssumption DEF MonthTurns, TypeInv, DispatchTypeOK, Months
<1> QED BY <1>1 DEF MonthTurns, TypeInv, DispatchTypeOK, rows

LEMMA InitTypes == Init => TypeInv
<1> SUFFICES ASSUME Init PROVE TypeInv
  OBVIOUS
<1>1. scan \in [Scans -> ScanView] /\ dispatch \in [Keys -> DispatchRow]
  BY NoDispatchType DEF Init, ScanView
<1>2. /\ reserved \in [Budgets -> [Months -> Nat]] /\ used \in [Budgets -> [Months -> Nat]]
      /\ charged \in [Keys -> [Months -> Nat]] /\ month \in Months
  BY FirstMonth DEF Init
<1>3. consent \in [Businesses -> [granted : Consents, open : Consents]]
  BY DispatchAssumption DEF Init, Consents
<1>4. gate \in [Gates -> GateState] /\ \A g \in Gates : Knows(gate[g])
  BY NewGateType DEF Init
<1> QED BY <1>1, <1>2, <1>3, <1>4 DEF TypeInv, DispatchTypeOK

LEMMA TypesStep == TypeInv /\ [Next]_vars => TypeInv'
<1> SUFFICES ASSUME TypeInv, [Next]_vars PROVE TypeInv'
  OBVIOUS
<1>1. CASE UNCHANGED vars
  BY <1>1 DEF vars, TypeInv, DispatchTypeOK
<1>2. ASSUME NEW g \in Gates, GateNext(g) \/ Crash(g) PROVE TypeInv'
  BY <1>2, ClaimScanType, ReadExistingType, TurnType, ReserveType, ReserveRacedType, SubmitType,
     CancelReservationType, CallType, SettleType, MarkAmbiguousType, CrashType, EndAttemptType,
     HeartbeatType DEF GateNext
<1>3. ASSUME NEW k \in Keys, Reconcile(k) \/ GrowsStale(k) PROVE TypeInv'
  BY <1>3, ReconcileSubmissionType, ReconcileReservationType, GrowsStaleType DEF Reconcile
<1>6. ASSUME NEW s \in Scans, LeaseLapses(s) \/ WithdrawScan(s) \/ EraseScan(s) PROVE TypeInv'
  BY <1>6, ScanStepType
<1>4. ASSUME NEW b \in Businesses, GrantConsent(b) \/ RevokeConsent(b) PROVE TypeInv'
  BY <1>4, ConsentStepType
<1>5. CASE MonthTurns
  BY <1>5, MonthTurnsType
<1> QED BY <1>1, <1>2, <1>3, <1>4, <1>5, <1>6 DEF Next

LEMMA TypeInvHolds == DispatchSpec => []TypeInv
  BY InitTypes, TypesStep, PTL DEF DispatchSpec

\* Every row, attempt and unit count has its type whatever dies, races or comes
\* late: no count goes below zero (reserve, releaseOrConsume, reconcileCandidate).
THEOREM DispatchTypesHold == DispatchSpec => []DispatchTypeOK
<1>1. TypeInv => DispatchTypeOK
  BY DEF TypeInv
<1> QED BY <1>1, TypeInvHolds, PTL

-----------------------------------------------------------------------------
(* Who has been paid, and under which consent.                             *)

Free(k) == \A m \in Months : charged[k][m] = 0

\* A row that may still lead to a call.
Unpaid(x) == x.status \in {"NONE", "RESERVED", "CANCELLED"} \/ (x.status = "FAILED" /\ x.bill = 0)

AtCall(g) == gate[g].at \in {"calling", "answered"}

\* A key has one call at a time, which nothing but its own answer may
\* turn into a row that is free to be sent again.
CallInv ==
    /\ \A g, h \in Gates : AtCall(g) /\ AtCall(h) /\ gate[g].key = gate[h].key => g = h
    /\ \A g \in Gates : AtCall(g) => dispatch[gate[g].key].status \in {"SUBMITTED", "AMBIGUOUS"}
    /\ \A g \in Gates : gate[g].at = "calling" => Free(gate[g].key)
    /\ \A g \in Gates :
          gate[g].at = "answered" /\ gate[g].outcome.status = "FAILED" /\ gate[g].outcome.bill = 0
          => Free(gate[g].key)
    /\ \A k \in Keys : Unpaid(dispatch[k]) => Free(k)

\* Consents are numbered as they are granted; the row never names an older one
\* than an attempt that shares it.
ConsentInv ==
    /\ \A b \in Businesses : consent[b].open \in {0, consent[b].granted}
    /\ \A k \in Keys : dispatch[k].consent <= consent[BusinessOf[k]].granted
    /\ \A k \in Keys : dispatch[k].status # "NONE" => dispatch[k].consent # 0
    /\ \A g \in Gates : gate[g].at = "ready" =>
          gate[g].consent # 0 /\ gate[g].consent <= dispatch[gate[g].key].consent

DInv == TypeInv /\ CallInv /\ ConsentInv

\* The row goes on under its consent, or ends without becoming free.
Still(k) ==
    /\ dispatch'[k].consent = dispatch[k].consent
    /\ dispatch'[k].cycle = dispatch[k].cycle
    /\ dispatch[k].status = "NONE" => dispatch'[k].status = "NONE"
    /\ dispatch'[k].status \in {"RESERVED", "SUBMITTED"} => dispatch'[k].status = dispatch[k].status
    /\ Unpaid(dispatch'[k]) => Unpaid(dispatch[k])
    /\ dispatch[k].status \in {"SUBMITTED", "AMBIGUOUS"}
          => dispatch'[k].status \in {"SUBMITTED", "AMBIGUOUS"}
    /\ dispatch'[k].status \in {"SUCCEEDED", "FAILED"}
          => dispatch'[k].status = dispatch[k].status /\ dispatch'[k].bill = dispatch[k].bill

\* Nobody comes closer to a call.
Recedes(g) == gate'[g] = gate[g] \/ gate'[g].at \notin {"ready", "calling", "answered"}

Quiet ==
    /\ \A k \in Keys : Still(k)
    /\ \A g \in Gates : Recedes(g)
    /\ charged' = charged
    /\ consent' = consent

LEMMA StillUnchanged == dispatch' = dispatch => \A k \in Keys : Still(k)
  BY DEF Still

LEMMA StillWrite ==
  ASSUME TypeInv, NEW k \in Keys, NEW x \in DispatchRow, dispatch' = [dispatch EXCEPT ![k] = x],
         x.consent = dispatch[k].consent, x.cycle = dispatch[k].cycle,
         \/ x.status = "CANCELLED" /\ dispatch[k].status = "RESERVED"
         \/ x.status = "AMBIGUOUS" /\ dispatch[k].status = "SUBMITTED"
         \/ x.status = dispatch[k].status /\ x.bill = dispatch[k].bill
  PROVE  \A r \in Keys : Still(r)
<1>1. dispatch'[k] = x /\ \A r \in Keys : r # k => dispatch'[r] = dispatch[r]
  BY DEF TypeInv, DispatchTypeOK
<1>2. Still(k)
  BY <1>1 DEF Still, Unpaid
<1> QED BY <1>1, <1>2 DEF Still

LEMMA RecedesUnchanged == gate' = gate => \A g \in Gates : Recedes(g)
  BY DEF Recedes

LEMMA RecedesWrite ==
  ASSUME TypeInv, NEW g \in Gates, NEW x, gate' = [gate EXCEPT ![g] = x],
         x.at \notin {"ready", "calling", "answered"}
  PROVE  \A h \in Gates : Recedes(h)
  BY DEF TypeInv, DispatchTypeOK, Recedes

LEMMA LeavesRecedes ==
  ASSUME TypeInv, NEW g \in Gates, Leaves(g) \/ Ends(g)
  PROVE  \A h \in Gates : Recedes(h)
<1> DEFINE x == [NewGate EXCEPT !.at = "done", !.key = gate[g].key]
           y == [NewGate EXCEPT !.at = "over"]
<1>1. x.at = "done" /\ y.at = "over"
  BY DEF NewGate
<1>2. gate' = [gate EXCEPT ![g] = x] \/ gate' = [gate EXCEPT ![g] = y]
  BY DEF Leaves, Ends
<1> HIDE DEF x, y
<1> QED BY <1>1, <1>2, RecedesWrite

LEMMA GoesRecedes ==
  ASSUME TypeInv, NEW g \in Gates, Goes(g, "cancelling") \/ Goes(g, "marking")
  PROVE  \A h \in Gates : Recedes(h)
<1> DEFINE x == [gate[g] EXCEPT !.at = "cancelling"]
           y == [gate[g] EXCEPT !.at = "marking"]
<1>1. gate[g] \in GateState
  BY GateOf
<1>2. x.at = "cancelling" /\ y.at = "marking"
  BY <1>1 DEF GateState
<1>3. gate' = [gate EXCEPT ![g] = x] \/ gate' = [gate EXCEPT ![g] = y]
  BY DEF Goes, TypeInv, DispatchTypeOK
<1> HIDE DEF x, y
<1> QED BY <1>2, <1>3, RecedesWrite

LEMMA ClaimScanQuiet ==
  ASSUME TypeInv, NEW g \in Gates, NEW k \in Keys, ClaimScan(g, k)
  PROVE  Quiet
<1> DEFINE x == [gate[g] EXCEPT !.at = "lookup", !.key = k]
<1>1. gate[g] \in GateState
  BY GateOf
<1>2. x.at = "lookup"
  BY <1>1 DEF GateState
<1>3. gate' = [gate EXCEPT ![g] = x]
  BY DEF ClaimScan, TypeInv, DispatchTypeOK
<1> HIDE DEF x
<1>4. \A h \in Gates : Recedes(h)
  BY <1>2, <1>3, RecedesWrite
<1> QED BY <1>4, StillUnchanged DEF ClaimScan, rows, Quiet

LEMMA ReadExistingQuiet ==
  ASSUME TypeInv, NEW g \in Gates, ReadExisting(g),
         ~(dispatch[gate[g].key].status = "RESERVED" /\ Holding(g, dispatch[gate[g].key]))
  PROVE  Quiet
<1> DEFINE st == dispatch[gate[g].key].status
           x == [gate[g] EXCEPT !.at = "reserving", !.rearm = st, !.cycle = month]
<1>1. gate[g] \in GateState
  BY GateOf
<1>2. x.at = "reserving"
  BY <1>1 DEF GateState
<1>3. gate' = [gate EXCEPT ![g] = x] \/ Leaves(g)
  BY DEF ReadExisting, TypeInv, DispatchTypeOK
<1> HIDE DEF x, st
<1>4. \A h \in Gates : Recedes(h)
  BY <1>2, <1>3, RecedesWrite, LeavesRecedes
<1> QED BY <1>4, StillUnchanged DEF ReadExisting, rows, Quiet

LEMMA TurnQuiet ==
  ASSUME TypeInv, NEW g \in Gates,
         \/ Refused(g) \/ ReserveFails(g) \/ EvidenceFails(g) \/ SubmitRaced(g)
         \/ SubmitRefused(g) \/ CancelFails(g) \/ SettleFails(g)
  PROVE  Quiet
<1>1. Leaves(g) \/ Goes(g, "cancelling") \/ Goes(g, "marking")
  BY DEF Refused, ReserveFails, EvidenceFails, SubmitRaced, SubmitRefused, CancelFails, SettleFails
<1>2. \A h \in Gates : Recedes(h)
  BY <1>1, LeavesRecedes, GoesRecedes
<1> QED BY <1>2, StillUnchanged DEF Refused, ReserveFails, EvidenceFails, SubmitRaced,
        SubmitRefused, CancelFails, SettleFails, rows, Quiet

LEMMA CancelQuiet ==
  ASSUME TypeInv, NEW g \in Gates, CancelReservation(g)
  PROVE  Quiet
<1> DEFINE k == gate[g].key
<1>1. k \in Keys
  BY GateOf DEF Knows, CancelReservation
<1>2. dispatch[k] \in DispatchRow
  BY <1>1, RowOf
<1>3. dispatch' = [dispatch EXCEPT ![k] = Cancelled(dispatch[k])] /\ dispatch[k].status = "RESERVED"
  BY DEF CancelReservation, TypeInv, DispatchTypeOK
<1>4. \A r \in Keys : Still(r)
  BY <1>1, <1>2, <1>3, CancelledType, StillWrite
<1> QED BY <1>4, LeavesRecedes DEF CancelReservation, Quiet

LEMMA MarkQuiet ==
  ASSUME TypeInv, NEW g \in Gates, MarkAmbiguous(g)
  PROVE  Quiet
<1> DEFINE k == gate[g].key
<1>1. k \in Keys
  BY GateOf DEF Knows, MarkAmbiguous
<1>2. dispatch[k] \in DispatchRow
  BY <1>1, RowOf
<1>3. \/ /\ dispatch' = [dispatch EXCEPT ![k] = Settled(dispatch[k], NoOutcome)]
         /\ dispatch[k].status = "SUBMITTED"
      \/ dispatch' = dispatch
  BY DEF MarkAmbiguous, TypeInv, DispatchTypeOK
<1>4. NoOutcome.status = "AMBIGUOUS"
  BY DEF NoOutcome
<1>5. \A r \in Keys : Still(r)
  BY <1>1, <1>2, <1>3, <1>4, SettledType, NoOutcomeType, StillWrite, StillUnchanged
<1> QED BY <1>5, LeavesRecedes DEF MarkAmbiguous, Quiet

LEMMA EndQuiet ==
  ASSUME TypeInv, NEW g \in Gates,
         \/ EndAttempt(g) \/ Heartbeat(g) \/ (Crash(g) /\ gate[g].at # "calling")
  PROVE  Quiet
<1>1. \A h \in Gates : Recedes(h)
  BY LeavesRecedes, RecedesUnchanged DEF EndAttempt, Heartbeat, Crash
<1> QED BY <1>1, StillUnchanged DEF EndAttempt, Heartbeat, Crash, rows, Quiet

LEMMA ReconcileQuiet ==
  ASSUME TypeInv, NEW k \in Keys, Reconcile(k) \/ GrowsStale(k)
  PROVE  Quiet
<1> DEFINE x == [dispatch[k] EXCEPT !.aged = TRUE]
<1>1. dispatch[k] \in DispatchRow
  BY RowOf
<1>2. NoOutcome.status = "AMBIGUOUS"
  BY DEF NoOutcome
<1>3. CASE ReconcileSubmission(k)
  <2>1. /\ dispatch' = [dispatch EXCEPT ![k] = Settled(dispatch[k], NoOutcome)]
        /\ dispatch[k].status = "SUBMITTED"
    BY <1>3 DEF ReconcileSubmission, TypeInv, DispatchTypeOK
  <2>2. \A r \in Keys : Still(r)
    BY <1>1, <1>2, <2>1, SettledType, NoOutcomeType, StillWrite
  <2> QED BY <1>3, <2>2, RecedesUnchanged DEF ReconcileSubmission, Quiet
<1>4. CASE ReconcileReservation(k)
  <2>1. /\ dispatch' = [dispatch EXCEPT ![k] = Cancelled(dispatch[k])]
        /\ dispatch[k].status = "RESERVED"
    BY <1>4 DEF ReconcileReservation, TypeInv, DispatchTypeOK
  <2>2. \A r \in Keys : Still(r)
    BY <1>1, <2>1, CancelledType, StillWrite
  <2> QED BY <1>4, <2>2, RecedesUnchanged DEF ReconcileReservation, Quiet
<1>5. CASE GrowsStale(k)
  <2>1. x \in DispatchRow /\ x.consent = dispatch[k].consent /\ x.cycle = dispatch[k].cycle
        /\ x.status = dispatch[k].status /\ x.bill = dispatch[k].bill
    BY <1>1 DEF DispatchRow
  <2>2. dispatch' = [dispatch EXCEPT ![k] = x]
    BY <1>5 DEF GrowsStale, TypeInv, DispatchTypeOK
  <2> HIDE DEF x
  <2>3. \A r \in Keys : Still(r)
    BY <2>1, <2>2, StillWrite
  <2> QED BY <1>5, <2>3, RecedesUnchanged DEF GrowsStale, Quiet
<1> QED BY <1>3, <1>4, <1>5 DEF Reconcile

LEMMA OutsideQuiet ==
  ASSUME \/ \E s \in Scans : LeaseLapses(s) \/ WithdrawScan(s) \/ EraseScan(s)
         \/ MonthTurns
         \/ UNCHANGED vars
  PROVE  Quiet
  BY StillUnchanged, RecedesUnchanged
  DEF LeaseLapses, WithdrawScan, EraseScan, MonthTurns, vars, rows, Quiet

LEMMA QuietKeeps ==
  ASSUME DInv, TypeInv', Quiet
  PROVE  DInv'
<1>1. \A k \in Keys : Still(k) /\ (Free(k) => Free(k)')
  BY DEF Quiet, Free
<1>2. \A g \in Gates : AtCall(g)' \/ gate'[g].at = "ready" => gate'[g] = gate[g]
  BY DEF Quiet, Recedes, AtCall
<1>3. \A g \in Gates : gate[g].at \in {"ready", "calling", "answered"} => gate[g].key \in Keys
  BY GateOf DEF DInv, Knows
<1>4. CallInv'
  <2>1. \A g, h \in Gates : AtCall(g)' /\ AtCall(h)' /\ gate'[g].key = gate'[h].key => g = h
    BY <1>2 DEF DInv, CallInv, AtCall
  <2>2. \A g \in Gates : AtCall(g)' => dispatch'[gate'[g].key].status \in {"SUBMITTED", "AMBIGUOUS"}
    BY <1>1, <1>2, <1>3 DEF DInv, CallInv, AtCall, Still
  <2>3. \A g \in Gates : gate'[g].at = "calling" => Free(gate[g].key)'
    BY <1>1, <1>2, <1>3 DEF DInv, CallInv, AtCall
  <2>4. \A g \in Gates :
          gate'[g].at = "answered" /\ gate'[g].outcome.status = "FAILED" /\ gate'[g].outcome.bill = 0
          => Free(gate[g].key)'
    BY <1>1, <1>2, <1>3 DEF DInv, CallInv, AtCall
  <2>5. \A k \in Keys : Unpaid(dispatch[k])' => Free(k)'
    BY <1>1 DEF DInv, CallInv, Still
  <2> QED BY <2>1, <2>2, <2>3, <2>4, <2>5 DEF CallInv
<1>5. ConsentInv'
  <2>1. \A k \in Keys : dispatch'[k].consent = dispatch[k].consent
    BY <1>1 DEF Still
  <2>6. \A k \in Keys : dispatch[k].status = "NONE" => dispatch'[k].status = "NONE"
    BY <1>1 DEF Still
  <2>2. consent' = consent
    BY DEF Quiet
  <2>3. ASSUME NEW g \in Gates, gate'[g].at = "ready"
        PROVE  gate'[g].consent # 0 /\ gate'[g].consent <= dispatch'[gate'[g].key].consent
    <3>1. gate'[g] = gate[g] /\ gate[g].at = "ready"
      BY <2>3 DEF Quiet, Recedes
    <3>2. gate[g].key \in Keys
      BY <1>3, <3>1
    <3> QED BY <2>1, <3>1, <3>2 DEF DInv, ConsentInv
  <2>4. \A b \in Businesses : consent'[b].open \in {0, consent'[b].granted}
    BY <2>2 DEF DInv, ConsentInv
  <2>5. ASSUME NEW k \in Keys
        PROVE  /\ dispatch'[k].consent <= consent'[BusinessOf[k]].granted
               /\ dispatch'[k].status # "NONE" => dispatch'[k].consent # 0
    <3>1. /\ dispatch[k].consent <= consent[BusinessOf[k]].granted
          /\ dispatch[k].status # "NONE" => dispatch[k].consent # 0
      BY DEF DInv, ConsentInv
    <3> QED BY <2>1, <2>2, <2>6, <3>1
  <2> QED BY <2>3, <2>4, <2>5 DEF ConsentInv
<1> QED BY <1>4, <1>5 DEF DInv

-----------------------------------------------------------------------------
(* The steps that bring an attempt closer to a call, or make one.          *)

\* What an attempt that holds a reservation knows of it.
LEMMA HoldingIs ==
  ASSUME TypeInv, NEW g \in Gates, NEW row \in DispatchRow, Holding(g, row)
  PROVE  /\ gate'[g].at = "ready"
         /\ gate'[g].consent = row.consent
         /\ gate'[g].key = gate[g].key
         /\ \A h \in Gates : h # g => gate'[h] = gate[h]
<1> DEFINE c == row.consent
           m == row.cycle
           x == [gate[g] EXCEPT !.at = "ready", !.rearm = "NONE", !.consent = c, !.cycle = m]
<1>1. gate[g] \in GateState /\ gate \in [Gates -> GateState]
  BY GateOf DEF TypeInv, DispatchTypeOK
<1>2. gate' = [gate EXCEPT ![g] = x]
  BY DEF Holding
<1> HIDE DEF c, m
<1>3. x.at = "ready" /\ x.consent = c /\ x.key = gate[g].key
  BY <1>1 DEF GateState
<1> HIDE DEF x
<1> QED BY <1>1, <1>2, <1>3 DEF c

\* The attempt shares a reservation that stands.
LEMMA ShareKeeps ==
  ASSUME DInv, TypeInv', NEW g \in Gates, gate[g].key \in Keys,
         dispatch[gate[g].key].status = "RESERVED",
         Holding(g, dispatch[gate[g].key]),
         UNCHANGED <<dispatch, consent, charged>>
  PROVE  DInv'
<1>1. dispatch[gate[g].key] \in DispatchRow
  BY RowOf DEF DInv
<1>2. /\ gate'[g].at = "ready"
      /\ gate'[g].consent = dispatch[gate[g].key].consent
      /\ gate'[g].key = gate[g].key
      /\ \A h \in Gates : h # g => gate'[h] = gate[h]
  BY <1>1, HoldingIs DEF DInv
<1>3. \A h \in Gates : gate'[h].at \in {"calling", "answered"} => gate'[h] = gate[h]
  BY <1>2
<1>4. CallInv'
  BY <1>3 DEF DInv, CallInv, AtCall, Free, Unpaid
<1>5. dispatch[gate[g].key].consent \in Nat /\ dispatch[gate[g].key].consent # 0
  <2>1. dispatch[gate[g].key].consent # 0
    BY DEF DInv, ConsentInv
  <2> QED BY <1>1, <2>1, DispatchAssumption DEF DispatchRow, Consents
<1>6. ConsentInv'
  BY <1>2, <1>5 DEF DInv, ConsentInv
<1> QED BY <1>4, <1>6 DEF DInv

LEMMA ReserveKeeps ==
  ASSUME DInv, TypeInv', NEW g \in Gates, Reserve(g)
  PROVE  DInv'
<1> DEFINE k == gate[g].key
           b == BusinessOf[k]
           m == gate[g].cycle
           row == NewReservation(b, m)
<1>0. gate[g] \in GateState /\ Knows(gate[g]) /\ gate[g].at = "reserving"
  BY GateOf DEF DInv, Reserve
<1>1. k \in Keys /\ gate[g].rearm \in {"NONE", "CANCELLED", "FAILED"}
  BY <1>0 DEF Knows
<1>2. b \in Businesses /\ m \in Months
  BY <1>0, <1>1, DispatchAssumption DEF GateState
<1>3. /\ row \in DispatchRow
      /\ row.status = "RESERVED"
      /\ row.consent = consent'[b].open
  BY <1>2, NewReservationType DEF Reserve, DInv
<1>4. dispatch' = [dispatch EXCEPT ![k] = row] /\ Holding(g, row) /\ ConsentForReserve(b)
      /\ charged' = charged
  BY DEF Reserve
<1>5. Unpaid(dispatch[k])
  BY <1>1 DEF Reserve, Unpaid
<1> HIDE DEF row
<1>6. dispatch'[k] = row /\ \A r \in Keys : r # k => dispatch'[r] = dispatch[r]
  BY <1>1, <1>4 DEF DInv, TypeInv, DispatchTypeOK
<1>7. /\ gate'[g].at = "ready"
      /\ gate'[g].consent = row.consent
      /\ gate'[g].key = k
      /\ \A h \in Gates : h # g => gate'[h] = gate[h]
  BY <1>3, <1>4, HoldingIs DEF DInv
<1>8. \A h \in Gates : gate[h].at \in {"ready", "calling", "answered"} => gate[h].key \in Keys
  BY GateOf DEF DInv, Knows
<1>9. CallInv'
  <2>1. \A h \in Gates : AtCall(h)' => AtCall(h) /\ gate'[h] = gate[h] /\ gate[h].key # k
    BY <1>5, <1>7 DEF DInv, CallInv, AtCall, Unpaid
  <2>2. \A h \in Gates : AtCall(h)' => dispatch'[gate'[h].key] = dispatch[gate[h].key]
    BY <1>6, <1>8, <2>1 DEF AtCall
  <2>3. Free(k)
    BY <1>1, <1>5 DEF DInv, CallInv
  <2>4. \A r \in Keys : Unpaid(dispatch[r])' => Free(r)'
    BY <1>4, <1>6, <2>3 DEF DInv, CallInv, Free
  <2> QED BY <1>4, <2>1, <2>2, <2>4 DEF DInv, CallInv, AtCall, Free
<1>10. /\ consent'[b].open # 0
       /\ consent'[b].open = consent'[b].granted
       /\ consent[b].granted <= consent'[b].granted
       /\ \A c \in Businesses : c # b => consent'[c] = consent[c]
  <2>1. /\ consent \in [Businesses -> [granted : Consents, open : Consents]]
        /\ consent[b].open \in {0, consent[b].granted}
    BY <1>2 DEF DInv, TypeInv, DispatchTypeOK, ConsentInv
  <2>2. consent[b].granted \in Nat
    BY <1>2, <2>1, DispatchAssumption DEF Consents
  <2>3. CASE consent[b].open # 0 /\ UNCHANGED consent
    BY <2>1, <2>2, <2>3
  <2>4. CASE GrantByPolicy(b) /\ consent' = [consent EXCEPT ![b] = [granted |-> 1, open |-> 1]]
    BY <1>2, <2>1, <2>4 DEF GrantByPolicy
  <2> QED BY <1>4, <2>3, <2>4 DEF ConsentForReserve
<1>11. /\ \A c \in Businesses : consent[c].granted \in Nat /\ consent'[c].granted \in Nat
       /\ \A c \in Businesses : consent[c].granted <= consent'[c].granted
  <2>1. \A c \in Businesses : consent[c].granted \in Nat /\ consent'[c].granted \in Nat
    BY DispatchAssumption DEF DInv, TypeInv, DispatchTypeOK, Consents
  <2> QED BY <1>10, <2>1
<1>12. \A r \in Keys : dispatch[r].consent \in Nat /\ dispatch[r].consent <= dispatch'[r].consent
  <2>1. \A r \in Keys : dispatch[r].consent \in Nat
    BY RowOf, DispatchAssumption DEF DInv, DispatchRow, Consents
  <2>2. dispatch[k].consent <= consent[b].granted
    BY <1>1 DEF DInv, ConsentInv
  <2>3. dispatch'[k].consent = consent'[b].granted
    BY <1>3, <1>6, <1>10
  <2>4. dispatch[k].consent <= dispatch'[k].consent
    BY <1>1, <1>2, <1>11, <2>1, <2>2, <2>3
  <2> QED BY <1>6, <2>1, <2>4
<1>13. ConsentInv'
  <2>1. \A c \in Businesses : consent'[c].open \in {0, consent'[c].granted}
    BY <1>10 DEF DInv, ConsentInv
  <2>2. ASSUME NEW r \in Keys
        PROVE  /\ dispatch'[r].consent <= consent'[BusinessOf[r]].granted
               /\ dispatch'[r].status # "NONE" => dispatch'[r].consent # 0
    <3>1. BusinessOf[r] \in Businesses
      BY DispatchAssumption
    <3>2. CASE r = k
      BY <1>3, <1>6, <1>10, <1>11, <3>1, <3>2
    <3>3. CASE r # k
      BY <1>6, <1>11, <1>12, <3>1, <3>3 DEF DInv, ConsentInv
    <3> QED BY <3>2, <3>3
  <2>3. ASSUME NEW h \in Gates, gate'[h].at = "ready"
        PROVE  gate'[h].consent # 0 /\ gate'[h].consent <= dispatch'[gate'[h].key].consent
    <3>1. CASE h = g
      <4>1. /\ gate'[g].consent = consent'[b].granted
            /\ dispatch'[gate'[g].key].consent = consent'[b].granted
        BY <1>3, <1>6, <1>7, <1>10
      <4> QED BY <1>2, <1>3, <1>7, <1>10, <1>11, <3>1, <4>1
    <3>2. CASE h # g
      <4>1. gate'[h] = gate[h] /\ gate[h].key \in Keys
        BY <1>7, <1>8, <2>3, <3>2
      <4>2. gate[h].consent # 0 /\ gate[h].consent <= dispatch[gate[h].key].consent
        BY <2>3, <4>1 DEF DInv, ConsentInv
      <4>3. gate[h].consent \in Nat
        BY GateOf, DispatchAssumption DEF DInv, GateState, Consents
      <4>4. dispatch'[gate[h].key].consent \in Nat
        BY <4>1, DispatchAssumption DEF TypeInv, DispatchTypeOK, DispatchRow, Consents
      <4> QED BY <1>12, <4>1, <4>2, <4>3, <4>4
    <3> QED BY <3>1, <3>2
  <2> QED BY <2>1, <2>2, <2>3 DEF ConsentInv
<1> QED BY <1>9, <1>13 DEF DInv

LEMMA SubmitKeeps ==
  ASSUME DInv, TypeInv', NEW g \in Gates, Submit(g)
  PROVE  DInv'
<1> DEFINE k == gate[g].key
           x == [dispatch[k] EXCEPT !.status = "SUBMITTED", !.aged = FALSE]
           y == [gate[g] EXCEPT !.at = "calling"]
<1>0. gate[g] \in GateState /\ Knows(gate[g]) /\ gate[g].at = "ready"
  BY GateOf DEF DInv, Submit
<1>1. k \in Keys /\ dispatch[k] \in DispatchRow /\ dispatch[k].status = "RESERVED"
  BY <1>0, RowOf DEF DInv, Knows, Submit
<1>2. dispatch' = [dispatch EXCEPT ![k] = x] /\ gate' = [gate EXCEPT ![g] = y]
      /\ charged' = charged /\ consent' = consent
  BY DEF Submit, Goes, DInv, TypeInv, DispatchTypeOK
<1>3. x.status = "SUBMITTED" /\ x.consent = dispatch[k].consent
  BY <1>1 DEF DispatchRow
<1>4. y.at = "calling" /\ y.key = k
  BY <1>0 DEF GateState
<1> HIDE DEF x, y
<1>5. /\ dispatch'[k] = x /\ gate'[g] = y
      /\ \A r \in Keys : r # k => dispatch'[r] = dispatch[r]
      /\ \A h \in Gates : h # g => gate'[h] = gate[h]
  BY <1>1, <1>2 DEF DInv, TypeInv, DispatchTypeOK
<1>6. \A h \in Gates : gate[h].at \in {"ready", "calling", "answered"} => gate[h].key \in Keys
  BY GateOf DEF DInv, Knows
<1>7. Free(k)
  BY <1>1 DEF DInv, CallInv, Unpaid
<1>8. CallInv'
  <2>1. \A h \in Gates : AtCall(h) => gate[h].key # k
    BY <1>1 DEF DInv, CallInv
  <2>2. \A h \in Gates : AtCall(h)' /\ h # g => AtCall(h) /\ gate'[h] = gate[h]
    BY <1>5 DEF AtCall
  <2>3. \A h, j \in Gates : AtCall(h)' /\ AtCall(j)' /\ gate'[h].key = gate'[j].key => h = j
    BY <1>4, <1>5, <2>1, <2>2 DEF DInv, CallInv
  <2>4. \A h \in Gates : AtCall(h)' => dispatch'[gate'[h].key].status \in {"SUBMITTED", "AMBIGUOUS"}
    <3>1. \A h \in Gates : AtCall(h) => gate[h].key \in Keys
      BY <1>6 DEF AtCall
    <3> QED BY <1>3, <1>4, <1>5, <2>2, <3>1 DEF DInv, CallInv
  <2>5. \A h \in Gates : gate'[h].at = "calling" => Free(gate[h].key)'
    BY <1>2, <1>4, <1>5, <1>7 DEF DInv, CallInv, Free
  <2>6. \A h \in Gates :
          gate'[h].at = "answered" /\ gate'[h].outcome.status = "FAILED" /\ gate'[h].outcome.bill = 0
          => Free(gate[h].key)'
    BY <1>2, <1>4, <1>5 DEF DInv, CallInv, Free
  <2>7. \A r \in Keys : Unpaid(dispatch[r])' => Free(r)'
    BY <1>2, <1>3, <1>5 DEF DInv, CallInv, Free, Unpaid
  <2> QED BY <2>3, <2>4, <2>5, <2>6, <2>7 DEF CallInv
<1>9. ConsentInv'
  <2>1. \A r \in Keys : dispatch'[r].consent = dispatch[r].consent
    BY <1>3, <1>5
  <2>2. \A r \in Keys : dispatch'[r].status # "NONE" => dispatch[r].status # "NONE"
    BY <1>1, <1>5
  <2>3. \A h \in Gates : gate'[h].at = "ready" => gate'[h] = gate[h] /\ gate[h].key \in Keys
    BY <1>4, <1>5, <1>6
  <2> QED BY <1>2, <2>1, <2>2, <2>3 DEF DInv, ConsentInv
<1> QED BY <1>8, <1>9 DEF DInv

-----------------------------------------------------------------------------
(* The call and its settlement.                                            *)

\* The call of g is over; whatever was billed, it was the key's first bill.
LEMMA BilledKeeps ==
  ASSUME DInv, TypeInv', NEW g \in Gates, gate[g].at = "calling",
         NEW bill \in Amounts, Bills(g, bill),
         UNCHANGED <<dispatch, consent>>,
         \A h \in Gates : h # g => gate'[h] = gate[h],
         \/ gate'[g].at = "over"
         \/ /\ gate'[g].at = "answered"
            /\ gate'[g].key = gate[g].key
            /\ gate'[g].outcome.status = "FAILED" /\ gate'[g].outcome.bill = 0 => bill = 0
  PROVE  DInv'
<1> DEFINE k == gate[g].key
           m == gate[g].cycle
<1>1. gate[g] \in GateState /\ Knows(gate[g])
  BY GateOf DEF DInv
<1>2. k \in Keys /\ m \in Months
  BY <1>1 DEF GateState, Knows
<1>3. charged' = [charged EXCEPT ![k][m] = @ + bill] /\ charged \in [Keys -> [Months -> Nat]]
  BY DEF Bills, DInv, TypeInv, DispatchTypeOK
<1>4. \A r \in Keys : r # k => charged'[r] = charged[r]
  BY <1>2, <1>3
<1>5. Free(k)
  BY DEF DInv, CallInv
<1>6. bill = 0 => \A n \in Months : charged'[k][n] = 0
  <2>1. charged[k][m] + bill = bill
    BY <1>2, <1>3, <1>5, DispatchAssumption DEF Free, Amounts
  <2> QED BY <1>2, <1>3, <1>5, <2>1 DEF Free
<1>7. \A h \in Gates : gate[h].at \in {"ready", "calling", "answered"} => gate[h].key \in Keys
  BY GateOf DEF DInv, Knows
<1>8. dispatch[k].status \in {"SUBMITTED", "AMBIGUOUS"}
  BY DEF DInv, CallInv, AtCall
<1>9. \A h \in Gates : h # g /\ AtCall(h) => gate[h].key # k
  BY DEF DInv, CallInv, AtCall
<1>10. \A h \in Gates : h # g /\ AtCall(h)' => AtCall(h) /\ gate'[h] = gate[h]
  BY DEF AtCall
<1>11. CallInv'
  <2>1. \A h, j \in Gates : AtCall(h)' /\ AtCall(j)' /\ gate'[h].key = gate'[j].key => h = j
    BY <1>9, <1>10 DEF DInv, CallInv, AtCall
  <2>2. \A h \in Gates : AtCall(h)' => dispatch'[gate'[h].key].status \in {"SUBMITTED", "AMBIGUOUS"}
    BY <1>8, <1>10 DEF DInv, CallInv, AtCall
  <2>3. ASSUME NEW h \in Gates, gate'[h].at = "calling" PROVE Free(gate[h].key)'
    <3>1. h # g /\ gate'[h] = gate[h] /\ gate[h].key \in Keys
      BY <1>7, <2>3
    <3>2. gate[h].key # k /\ Free(gate[h].key)
      BY <1>9, <2>3, <3>1 DEF DInv, CallInv, AtCall
    <3> QED BY <1>4, <3>1, <3>2 DEF Free
  <2>4. ASSUME NEW h \in Gates, gate'[h].at = "answered", gate'[h].outcome.status = "FAILED",
               gate'[h].outcome.bill = 0
        PROVE  Free(gate[h].key)'
    <3>1. CASE h = g
      BY <1>6, <2>4, <3>1 DEF Free
    <3>2. CASE h # g
      <4>1. gate'[h] = gate[h] /\ gate[h].key \in Keys
        BY <1>7, <2>4, <3>2
      <4>2. gate[h].key # k /\ Free(gate[h].key)
        BY <1>9, <2>4, <3>2, <4>1 DEF DInv, CallInv, AtCall
      <4> QED BY <1>4, <4>1, <4>2 DEF Free
    <3> QED BY <3>1, <3>2
  <2>5. ASSUME NEW r \in Keys, Unpaid(dispatch[r])' PROVE Free(r)'
    <3>1. Unpaid(dispatch[r]) /\ r # k
      BY <1>8, <2>5 DEF Unpaid
    <3> QED BY <1>4, <3>1 DEF DInv, CallInv, Free
  <2> QED BY <2>1, <2>2, <2>3, <2>4, <2>5 DEF CallInv
<1>12. ConsentInv'
  BY <1>7 DEF DInv, ConsentInv
<1> QED BY <1>11, <1>12 DEF DInv

LEMMA AnsweredIs ==
  ASSUME TypeInv, NEW g \in Gates, NEW o,
         gate' = [gate EXCEPT ![g].at = "answered", ![g].outcome = o]
  PROVE  /\ gate'[g].at = "answered"
         /\ gate'[g].key = gate[g].key
         /\ gate'[g].outcome = o
         /\ \A h \in Gates : h # g => gate'[h] = gate[h]
<1> DEFINE x == [gate[g] EXCEPT !.at = "answered", !.outcome = o]
<1>1. gate[g] \in GateState /\ gate \in [Gates -> GateState]
  BY GateOf DEF TypeInv, DispatchTypeOK
<1>2. x.at = "answered" /\ x.key = gate[g].key /\ x.outcome = o
  BY <1>1 DEF GateState
<1>3. gate' = [gate EXCEPT ![g] = x]
  BY <1>1
<1> HIDE DEF x
<1> QED BY <1>1, <1>2, <1>3

LEMMA CallKeeps ==
  ASSUME DInv, TypeInv', NEW g \in Gates,
         \/ ProviderAnswers(g) \/ CallTimesOut(g) \/ AnswerIsInvalid(g)
         \/ (Crash(g) /\ gate[g].at = "calling")
  PROVE  DInv'
<1>1. gate[g].at = "calling" /\ UNCHANGED <<dispatch, consent>>
  BY DEF ProviderAnswers, CallTimesOut, AnswerIsInvalid, Crash, rows
<1>2. CASE ProviderAnswers(g)
  <2>1. PICK status \in {"SUCCEEDED", "FAILED"}, bill \in Amounts, refusal \in BOOLEAN :
          /\ gate' = [gate EXCEPT ![g].at = "answered",
                       ![g].outcome = [status |-> status, bill |-> bill, refusal |-> refusal]]
          /\ Bills(g, bill)
    BY <1>2 DEF ProviderAnswers
  <2> DEFINE o == [status |-> status, bill |-> bill, refusal |-> refusal]
  <2>2. gate' = [gate EXCEPT ![g].at = "answered", ![g].outcome = o] /\ o.bill = bill
    BY <2>1
  <2> HIDE DEF o
  <2>3. /\ gate'[g].at = "answered" /\ gate'[g].key = gate[g].key /\ gate'[g].outcome = o
        /\ \A h \in Gates : h # g => gate'[h] = gate[h]
    BY <2>2, AnsweredIs DEF DInv
  <2> QED BY <1>1, <2>1, <2>2, <2>3, BilledKeeps
<1>3. CASE CallTimesOut(g)
  <2>1. PICK bill \in Amounts : Bills(g, bill)
    BY <1>3 DEF CallTimesOut
  <2>2. /\ gate'[g].at = "answered" /\ gate'[g].key = gate[g].key /\ gate'[g].outcome = NoOutcome
        /\ \A h \in Gates : h # g => gate'[h] = gate[h]
    BY <1>3, AnsweredIs DEF DInv, CallTimesOut
  <2>3. NoOutcome.status = "AMBIGUOUS"
    BY DEF NoOutcome
  <2> QED BY <1>1, <2>1, <2>2, <2>3, BilledKeeps
<1>4. CASE AnswerIsInvalid(g)
  <2> DEFINE o == [status |-> "FAILED", bill |-> Units, refusal |-> FALSE]
  <2>1. PICK bill \in Amounts : Bills(g, bill)
    BY <1>4 DEF AnswerIsInvalid
  <2>2. gate' = [gate EXCEPT ![g].at = "answered", ![g].outcome = o] /\ o.bill = Units
    BY <1>4 DEF AnswerIsInvalid
  <2> HIDE DEF o
  <2>3. /\ gate'[g].at = "answered" /\ gate'[g].key = gate[g].key /\ gate'[g].outcome = o
        /\ \A h \in Gates : h # g => gate'[h] = gate[h]
    BY <2>2, AnsweredIs DEF DInv
  <2>4. Units # 0
    BY DispatchAssumption
  <2> QED BY <1>1, <2>1, <2>2, <2>3, <2>4, BilledKeeps
<1>5. CASE Crash(g)
  <2> DEFINE x == [NewGate EXCEPT !.at = "over"]
  <2>1. PICK bill \in Amounts : Bills(g, bill)
    BY <1>1, <1>5 DEF Crash
  <2>2. gate' = [gate EXCEPT ![g] = x] /\ x.at = "over"
    BY <1>5 DEF Crash, Ends, NewGate
  <2> HIDE DEF x
  <2>3. gate'[g].at = "over" /\ \A h \in Gates : h # g => gate'[h] = gate[h]
    BY <2>2 DEF DInv, TypeInv, DispatchTypeOK
  <2> QED BY <1>1, <2>1, <2>3, BilledKeeps
<1> QED BY <1>2, <1>3, <1>4, <1>5

LEMMA SettleKeeps ==
  ASSUME DInv, TypeInv', NEW g \in Gates, Settle(g)
  PROVE  DInv'
<1> DEFINE k == gate[g].key
           o == gate[g].outcome
           x == Settled(dispatch[k], o)
<1>0. gate[g] \in GateState /\ Knows(gate[g]) /\ gate[g].at = "answered"
  BY GateOf DEF DInv, Settle
<1>1. k \in Keys /\ o \in Outcome /\ dispatch[k] \in DispatchRow /\ dispatch[k].status = "SUBMITTED"
  BY <1>0, RowOf DEF DInv, Knows, Settle, GateState
<1>2. dispatch' = [dispatch EXCEPT ![k] = x] /\ charged' = charged /\ consent' = consent
  BY DEF Settle, DInv, TypeInv, DispatchTypeOK
<1>3. x.status = o.status /\ x.bill = o.bill /\ x.consent = dispatch[k].consent
  BY <1>1, SettledType
<1>4. o.status \in {"SUCCEEDED", "FAILED", "AMBIGUOUS"}
  BY <1>1 DEF Outcome
<1>5. \A h \in Gates : Recedes(h)
  BY LeavesRecedes, GoesRecedes DEF DInv, Settle
<1>6. gate'[g].at \notin {"ready", "calling", "answered"}
  <2> DEFINE y == [NewGate EXCEPT !.at = "done", !.key = k]
             z == [gate[g] EXCEPT !.at = "marking"]
  <2>1. y.at = "done" /\ z.at = "marking"
    BY <1>0 DEF NewGate, GateState
  <2>2. gate' = [gate EXCEPT ![g] = y] \/ gate' = [gate EXCEPT ![g] = z]
    BY DEF Settle, Leaves, Goes, DInv, TypeInv, DispatchTypeOK
  <2> HIDE DEF y, z
  <2> QED BY <2>1, <2>2 DEF DInv, TypeInv, DispatchTypeOK
<1> HIDE DEF x
<1>7. dispatch'[k] = x /\ \A r \in Keys : r # k => dispatch'[r] = dispatch[r]
  BY <1>1, <1>2 DEF DInv, TypeInv, DispatchTypeOK
<1>8. \A h \in Gates : gate[h].at \in {"ready", "calling", "answered"} => gate[h].key \in Keys
  BY GateOf DEF DInv, Knows
<1>9. \A h \in Gates : gate'[h].at \in {"ready", "calling", "answered"} => gate'[h] = gate[h] /\ h # g
  BY <1>5, <1>6 DEF Recedes
<1>10. CallInv'
  <2>1. \A h \in Gates : AtCall(h)' => AtCall(h) /\ gate'[h] = gate[h] /\ gate[h].key # k
    BY <1>0, <1>9 DEF DInv, CallInv, AtCall
  <2>2. \A h \in Gates : AtCall(h)' => dispatch'[gate'[h].key] = dispatch[gate[h].key]
    BY <1>7, <1>8, <2>1 DEF AtCall
  <2>3. Unpaid(x) => Free(k)
    BY <1>0, <1>3, <1>4 DEF DInv, CallInv, Unpaid
  <2>4. \A r \in Keys : Unpaid(dispatch[r])' => Free(r)'
    BY <1>2, <1>7, <2>3 DEF DInv, CallInv, Free
  <2> QED BY <1>2, <2>1, <2>2, <2>4 DEF DInv, CallInv, AtCall, Free
<1>11. ConsentInv'
  <2>1. \A r \in Keys : dispatch'[r].consent = dispatch[r].consent
    BY <1>3, <1>7
  <2>2. \A r \in Keys : dispatch'[r].status # "NONE" => dispatch[r].status # "NONE"
    BY <1>1, <1>7
  <2>3. \A h \in Gates : gate'[h].at = "ready" => gate'[h] = gate[h] /\ gate[h].key \in Keys
    BY <1>8, <1>9
  <2> QED BY <1>2, <2>1, <2>2, <2>3 DEF DInv, ConsentInv
<1> QED BY <1>10, <1>11 DEF DInv

LEMMA OwnerKeeps ==
  ASSUME DInv, TypeInv', NEW b \in Businesses, GrantConsent(b) \/ RevokeConsent(b)
  PROVE  DInv'
<1>1. UNCHANGED <<dispatch, gate, charged>>
  BY DEF GrantConsent, RevokeConsent, rows
<1>2. consent \in [Businesses -> [granted : Consents, open : Consents]]
  BY DEF DInv, TypeInv, DispatchTypeOK
<1>3. /\ consent'[b].open \in {0, consent'[b].granted}
      /\ consent[b].granted <= consent'[b].granted
      /\ \A c \in Businesses : c # b => consent'[c] = consent[c]
  <2>1. consent[b].granted \in Nat /\ consent[b].open \in {0, consent[b].granted}
    BY <1>2, DispatchAssumption DEF Consents, DInv, ConsentInv
  <2>2. CASE GrantConsent(b)
    <3> DEFINE n == consent[b].granted + 1
    <3>1. consent' = [consent EXCEPT ![b] = [granted |-> n, open |-> n]]
      BY <1>2, <2>2 DEF GrantConsent
    <3>2. consent[b].granted <= n
      BY <2>1
    <3> HIDE DEF n
    <3> QED BY <1>2, <3>1, <3>2
  <2>3. CASE RevokeConsent(b)
    <3> DEFINE x == [consent[b] EXCEPT !.open = 0]
    <3>1. x.open = 0 /\ x.granted = consent[b].granted
      BY <1>2
    <3>2. consent' = [consent EXCEPT ![b] = x]
      BY <1>2, <2>3 DEF RevokeConsent
    <3> HIDE DEF x
    <3> QED BY <1>2, <2>1, <3>1, <3>2
  <2> QED BY <2>2, <2>3
<1>4. \A c \in Businesses : /\ consent[c].granted \in Nat
                            /\ consent'[c].granted \in Nat
                            /\ consent[c].granted <= consent'[c].granted
  <2>1. \A c \in Businesses : consent[c].granted \in Nat /\ consent'[c].granted \in Nat
    BY DispatchAssumption DEF DInv, TypeInv, DispatchTypeOK, Consents
  <2> QED BY <1>3, <2>1
<1>5. CallInv'
  BY <1>1 DEF DInv, CallInv, AtCall, Free, Unpaid
<1>6. ConsentInv'
  <2>1. \A c \in Businesses : consent'[c].open \in {0, consent'[c].granted}
    BY <1>3 DEF DInv, ConsentInv
  <2>2. ASSUME NEW r \in Keys PROVE dispatch'[r].consent <= consent'[BusinessOf[r]].granted
    <3>1. BusinessOf[r] \in Businesses
      BY DispatchAssumption
    <3>2. dispatch[r].consent \in Nat
      BY RowOf, DispatchAssumption DEF DInv, DispatchRow, Consents
    <3>3. dispatch[r].consent <= consent[BusinessOf[r]].granted
      BY DEF DInv, ConsentInv
    <3> QED BY <1>1, <1>4, <3>1, <3>2, <3>3
  <2> QED BY <1>1, <2>1, <2>2 DEF DInv, ConsentInv
<1> QED BY <1>5, <1>6 DEF DInv

-----------------------------------------------------------------------------
(* The invariant, and what it says of every step.                          *)

LEMMA InitInv == Init => DInv
<1> SUFFICES ASSUME Init PROVE DInv
  OBVIOUS
<1>1. TypeInv
  BY InitTypes
<1>2. CallInv
  BY DEF Init, CallInv, AtCall, Free, NewGate
<1>3. ConsentInv
  BY DispatchAssumption DEF Init, ConsentInv, NewGate, NoDispatch
<1> QED BY <1>1, <1>2, <1>3 DEF DInv

LEMMA GateKeeps ==
  ASSUME DInv, TypeInv', NEW g \in Gates, GateNext(g) \/ Crash(g)
  PROVE  DInv'
<1> USE DEF DInv
<1>1. ASSUME NEW k \in Keys, ClaimScan(g, k) PROVE DInv'
  BY <1>1, ClaimScanQuiet, QuietKeeps
<1>2. CASE ReadExisting(g)
  <2>1. gate[g].key \in Keys
    BY <1>2, GateOf DEF Knows, ReadExisting
  <2>2. CASE dispatch[gate[g].key].status = "RESERVED" /\ Holding(g, dispatch[gate[g].key])
    <3>1. UNCHANGED <<dispatch, consent, charged>>
      BY <1>2 DEF ReadExisting, rows
    <3> QED BY <2>1, <2>2, <3>1, ShareKeeps
  <2> QED BY <1>2, <2>2, ReadExistingQuiet, QuietKeeps
<1>3. CASE ReserveRaced(g)
  <2>1. gate[g].key \in Keys /\ UNCHANGED <<dispatch, consent, charged>>
    BY <1>3, GateOf DEF Knows, ReserveRaced, rows
  <2> QED BY <1>3, <2>1, ShareKeeps DEF ReserveRaced
<1>4. CASE \/ Refused(g) \/ ReserveFails(g) \/ EvidenceFails(g) \/ SubmitRaced(g)
           \/ SubmitRefused(g) \/ CancelFails(g) \/ SettleFails(g)
  BY <1>4, TurnQuiet, QuietKeeps
<1>5. CASE CancelReservation(g) \/ MarkAmbiguous(g)
  BY <1>5, CancelQuiet, MarkQuiet, QuietKeeps
<1>6. CASE \/ EndAttempt(g) \/ Heartbeat(g) \/ (Crash(g) /\ gate[g].at # "calling")
  BY <1>6, EndQuiet, QuietKeeps
<1>7. CASE \/ ProviderAnswers(g) \/ CallTimesOut(g) \/ AnswerIsInvalid(g)
           \/ (Crash(g) /\ gate[g].at = "calling")
  BY <1>7, CallKeeps
<1>8. CASE Reserve(g) \/ Submit(g) \/ Settle(g)
  BY <1>8, ReserveKeeps, SubmitKeeps, SettleKeeps
<1> QED BY <1>1, <1>2, <1>3, <1>4, <1>5, <1>6, <1>7, <1>8 DEF GateNext

LEMMA InvStep == DInv /\ [Next]_vars => DInv'
<1> SUFFICES ASSUME DInv, [Next]_vars PROVE DInv'
  OBVIOUS
<1>1. TypeInv'
  BY TypesStep DEF DInv
<1>2. ASSUME NEW g \in Gates, GateNext(g) \/ Crash(g) PROVE DInv'
  BY <1>1, <1>2, GateKeeps
<1>3. ASSUME NEW k \in Keys, Reconcile(k) \/ GrowsStale(k) PROVE DInv'
  BY <1>1, <1>3, ReconcileQuiet, QuietKeeps DEF DInv
<1>4. ASSUME NEW b \in Businesses, GrantConsent(b) \/ RevokeConsent(b) PROVE DInv'
  BY <1>1, <1>4, OwnerKeeps
<1>5. CASE \/ \E s \in Scans : LeaseLapses(s) \/ WithdrawScan(s) \/ EraseScan(s)
           \/ MonthTurns
           \/ UNCHANGED vars
  BY <1>1, <1>5, OutsideQuiet, QuietKeeps
<1> QED BY <1>2, <1>3, <1>4, <1>5 DEF Next

LEMMA InvHolds == DispatchSpec => []DInv
  BY InitInv, InvStep, PTL DEF DispatchSpec

\* Nothing but the call itself is billed, and the first billed call of a key is
\* the only one.
LEMMA PaidStep ==
  ASSUME DInv, [Next]_vars, charged' # charged
  PROVE  \A k \in Keys : charged'[k] # charged[k] => Free(k)
<1>1. PICK g \in Gates : gate[g].at = "calling" /\ \E bill \in Amounts : Bills(g, bill)
  <2>1. ASSUME NEW g \in Gates, GateNext(g) \/ Crash(g)
        PROVE  gate[g].at = "calling" /\ \E bill \in Amounts : Bills(g, bill)
    <3>1. \/ ProviderAnswers(g) \/ CallTimesOut(g) \/ AnswerIsInvalid(g) \/ Crash(g)
      BY <2>1 DEF GateNext, ClaimScan, ReadExisting, Refused, Reserve, ReserveRaced, ReserveFails,
         EvidenceFails, Submit, SubmitRaced, SubmitRefused, CancelReservation, CancelFails,
         Settle, SettleFails, MarkAmbiguous, EndAttempt, Heartbeat
    <3> QED BY <3>1 DEF ProviderAnswers, CallTimesOut, AnswerIsInvalid, Crash
  <2>2. ASSUME NEW k \in Keys, Reconcile(k) \/ GrowsStale(k) PROVE FALSE
    BY <2>2, ReconcileQuiet DEF DInv, Quiet
  <2>3. ASSUME NEW b \in Businesses, GrantConsent(b) \/ RevokeConsent(b) PROVE FALSE
    BY <2>3 DEF GrantConsent, RevokeConsent
  <2>4. ASSUME \/ \E s \in Scans : LeaseLapses(s) \/ WithdrawScan(s) \/ EraseScan(s)
               \/ MonthTurns
               \/ UNCHANGED vars
        PROVE FALSE
    BY <2>4, OutsideQuiet DEF Quiet
  <2> QED BY <2>1, <2>2, <2>3, <2>4 DEF Next
<1>2. Free(gate[g].key)
  BY <1>1 DEF DInv, CallInv
<1>3. \A k \in Keys : k # gate[g].key => charged'[k] = charged[k]
  BY <1>1 DEF Bills, DInv, TypeInv, DispatchTypeOK
<1> QED BY <1>2, <1>3

\* A reservation key is billed at most once, for every number of attempts, months
\* and re-armed rows, and of other keys of its receipt (reservationRearmable).
THEOREM PaidOnceHolds == DispatchSpec => PaidOnce
<1>1. DInv /\ [Next]_vars => [\A k \in Keys : charged'[k] # charged[k]
                                 => \A m \in Months : charged[k][m] = 0]_charged
  BY PaidStep DEF Free
<1> QED BY <1>1, InvHolds, PTL DEF DispatchSpec, PaidOnce

LEMMA SentStep ==
  ASSUME DInv, [Next]_vars, NEW k \in Keys,
         dispatch[k].status # "SUBMITTED", dispatch'[k].status = "SUBMITTED"
  PROVE  /\ dispatch'[k].consent # 0
         /\ dispatch'[k].consent = consent[BusinessOf[k]].open
<1>1. ~Quiet /\ dispatch' # dispatch
  BY DEF Quiet, Still
<1>2. PICK g \in Gates : Reserve(g) \/ Submit(g) \/ Settle(g)
  <2>1. ASSUME NEW g \in Gates, GateNext(g) \/ Crash(g) PROVE Reserve(g) \/ Submit(g) \/ Settle(g)
    <3>1. \/ Reserve(g) \/ Submit(g) \/ Settle(g) \/ CancelReservation(g) \/ MarkAmbiguous(g)
      BY <1>1, <2>1 DEF GateNext, ClaimScan, ReadExisting, Refused, ReserveRaced, ReserveFails,
         EvidenceFails, SubmitRaced, SubmitRefused, CancelFails, ProviderAnswers, CallTimesOut,
         AnswerIsInvalid, SettleFails, EndAttempt, Heartbeat, Crash, rows
    <3> QED BY <1>1, <3>1, CancelQuiet, MarkQuiet DEF DInv
  <2>2. ASSUME NEW r \in Keys, Reconcile(r) \/ GrowsStale(r) PROVE FALSE
    BY <1>1, <2>2, ReconcileQuiet DEF DInv
  <2>3. ASSUME NEW b \in Businesses, GrantConsent(b) \/ RevokeConsent(b) PROVE FALSE
    BY <1>1, <2>3 DEF GrantConsent, RevokeConsent, rows
  <2>4. ASSUME \/ \E s \in Scans : LeaseLapses(s) \/ WithdrawScan(s) \/ EraseScan(s)
               \/ MonthTurns
               \/ UNCHANGED vars
        PROVE FALSE
    BY <1>1, <2>4, OutsideQuiet
  <2> QED BY <2>1, <2>2, <2>3, <2>4 DEF Next
<1> DEFINE t == gate[g].key
<1>3. gate[g] \in GateState /\ Knows(gate[g]) /\ t \in Keys
  BY <1>2, GateOf DEF DInv, Knows, Reserve, Submit, Settle
<1>4. dispatch[t] \in DispatchRow
  BY <1>3, RowOf DEF DInv
<1>5. ~Reserve(g)
  <2>1. ASSUME Reserve(g) PROVE FALSE
    <3>1. BusinessOf[t] \in Businesses /\ gate[g].cycle \in Months
      BY <1>3, DispatchAssumption DEF GateState
    <3>2. NewReservation(BusinessOf[t], gate[g].cycle).status = "RESERVED"
      BY <2>1, <3>1, NewReservationType DEF DInv, Reserve
    <3>3. dispatch' = [dispatch EXCEPT ![t] = NewReservation(BusinessOf[t], gate[g].cycle)]
      BY <2>1 DEF Reserve
    <3>4. dispatch'[k] = dispatch[k] \/ dispatch'[k] = NewReservation(BusinessOf[t], gate[g].cycle)
      BY <1>3, <3>3 DEF DInv, TypeInv, DispatchTypeOK
    <3> QED BY <3>2, <3>4
  <2> QED BY <2>1
<1>6. ~Settle(g)
  <2>1. ASSUME Settle(g) PROVE FALSE
    <3>1. gate[g].outcome \in Outcome
      BY <1>3 DEF GateState
    <3>2. Settled(dispatch[t], gate[g].outcome).status # "SUBMITTED"
      BY <1>4, <3>1, SettledType DEF Outcome
    <3>3. dispatch' = [dispatch EXCEPT ![t] = Settled(dispatch[t], gate[g].outcome)]
      BY <2>1 DEF Settle, DInv, TypeInv, DispatchTypeOK
    <3>4. dispatch'[k] = dispatch[k] \/ dispatch'[k] = Settled(dispatch[t], gate[g].outcome)
      BY <1>3, <3>3 DEF DInv, TypeInv, DispatchTypeOK
    <3> QED BY <3>2, <3>4
  <2> QED BY <2>1
<1>7. Submit(g)
  BY <1>2, <1>5, <1>6
<1> DEFINE x == [dispatch[t] EXCEPT !.status = "SUBMITTED", !.aged = FALSE]
<1>8. dispatch' = [dispatch EXCEPT ![t] = x]
  BY <1>7 DEF Submit, DInv, TypeInv, DispatchTypeOK
<1>9. x.consent = dispatch[t].consent
  BY <1>4 DEF DispatchRow
<1> HIDE DEF x
<1>10. k = t /\ dispatch'[k] = x
  BY <1>3, <1>8 DEF DInv, TypeInv, DispatchTypeOK
<1> DEFINE c == consent[BusinessOf[t]]
<1>11. c.open = gate[g].consent /\ gate[g].at = "ready"
  BY <1>7 DEF Submit, ConsentStands
<1>12. BusinessOf[t] \in Businesses
  BY <1>3, DispatchAssumption
<1>13. /\ gate[g].consent # 0 /\ gate[g].consent <= dispatch[t].consent
       /\ dispatch[t].consent <= c.granted
       /\ c.open \in {0, c.granted}
  BY <1>3, <1>11, <1>12 DEF DInv, ConsentInv
<1>14. gate[g].consent \in Nat /\ dispatch[t].consent \in Nat /\ c.granted \in Nat
  BY <1>3, <1>4, <1>12, DispatchAssumption
  DEF DInv, TypeInv, DispatchTypeOK, GateState, DispatchRow, Consents
<1>15. dispatch[t].consent = gate[g].consent
  BY <1>11, <1>13, <1>14
<1> QED BY <1>9, <1>10, <1>11, <1>13, <1>15

\* What leaves for the provider leaves under the open consent, which the row
\* names, however often the row was shared or re-armed.
THEOREM SentUnderItsConsentHolds == DispatchSpec => SentUnderItsConsent
<1>1. DInv /\ [Next]_vars =>
        [\A k \in Keys :
            dispatch[k].status # "SUBMITTED" /\ dispatch'[k].status = "SUBMITTED"
            => /\ dispatch'[k].consent # 0
               /\ dispatch'[k].consent = consent[BusinessOf[k]].open]_vars
  BY SentStep
<1> QED BY <1>1, InvHolds, PTL DEF DispatchSpec, SentUnderItsConsent

LEMMA RevokedStep ==
  ASSUME DInv, [Next]_vars, NEW b \in Businesses,
         consent[b].granted > 0, consent[b].open = 0, consent'[b].open # 0
  PROVE  GrantConsent(b)
<1>1. consent' # consent
  OBVIOUS
<1>2. ASSUME NEW g \in Gates, GateNext(g) \/ Crash(g) PROVE FALSE
  <2>1. Reserve(g)
    BY <1>1, <1>2 DEF GateNext, ClaimScan, ReadExisting, Refused, ReserveRaced, ReserveFails,
       EvidenceFails, Submit, SubmitRaced, SubmitRefused, CancelReservation, CancelFails,
       ProviderAnswers, CallTimesOut, AnswerIsInvalid, Settle, SettleFails, MarkAmbiguous,
       EndAttempt, Heartbeat, Crash
  <2> DEFINE c == BusinessOf[gate[g].key]
  <2>2. c \in Businesses
    BY <2>1, GateOf, DispatchAssumption DEF DInv, Knows, Reserve
  <2>3. /\ GrantByPolicy(c)
        /\ consent' = [consent EXCEPT ![c] = [granted |-> 1, open |-> 1]]
    BY <1>1, <2>1 DEF Reserve, ConsentForReserve
  <2>4. b = c
    BY <2>2, <2>3 DEF DInv, TypeInv, DispatchTypeOK
  <2> QED BY <2>3, <2>4 DEF GrantByPolicy
<1>3. ASSUME NEW k \in Keys, Reconcile(k) \/ GrowsStale(k) PROVE FALSE
  BY <1>1, <1>3, ReconcileQuiet DEF DInv, Quiet
<1>4. ASSUME NEW c \in Businesses, GrantConsent(c) \/ RevokeConsent(c) PROVE GrantConsent(b)
  <2>1. \A d \in Businesses : d # c => consent'[d] = consent[d]
    BY <1>4 DEF GrantConsent, RevokeConsent, DInv, TypeInv, DispatchTypeOK
  <2>2. b = c
    BY <2>1
  <2>3. RevokeConsent(b) => consent'[b].open = 0
    BY DEF RevokeConsent, DInv, TypeInv, DispatchTypeOK
  <2> QED BY <1>4, <2>2, <2>3
<1>5. ASSUME \/ \E s \in Scans : LeaseLapses(s) \/ WithdrawScan(s) \/ EraseScan(s)
             \/ MonthTurns
             \/ UNCHANGED vars
      PROVE FALSE
  BY <1>1, <1>5, OutsideQuiet DEF Quiet
<1> QED BY <1>2, <1>3, <1>4, <1>5 DEF Next

\* After an owner's revoke only the owner opens a consent again, whatever
\* reservations are under way (grantReceiptProviderConsentByPolicy).
THEOREM RevocationStandsHolds == DispatchSpec => RevocationStands
<1>1. DInv /\ [Next]_vars =>
        [\A b \in Businesses :
            consent[b].granted > 0 /\ consent[b].open = 0 /\ consent'[b].open # 0
            => GrantConsent(b)]_vars
  BY RevokedStep
<1> QED BY <1>1, InvHolds, PTL DEF DispatchSpec, RevocationStands

-----------------------------------------------------------------------------
(* The books, month by month.                                              *)

Counts(x) == x.status \in Outstanding

\* The steps that change what is reserved or what counts.
KeepsBooks ==
    /\ reserved' = reserved
    /\ \A k \in Keys : /\ Counts(dispatch'[k]) <=> Counts(dispatch[k])
                       /\ Counts(dispatch[k]) => dispatch'[k].cycle = dispatch[k].cycle

TakesUnits ==
    \E k \in Keys, m \in Months, x \in DispatchRow :
        /\ ~Counts(dispatch[k]) /\ Counts(x) /\ x.cycle = m
        /\ dispatch' = [dispatch EXCEPT ![k] = x]
        /\ Reserving(k, m, 1)

GivesUnits ==
    \E k \in Keys, m \in Months, x \in DispatchRow :
        /\ Counts(dispatch[k]) /\ dispatch[k].cycle = m /\ ~Counts(x)
        /\ dispatch' = [dispatch EXCEPT ![k] = x]
        /\ Reserving(k, m, -1)

BookStep == KeepsBooks \/ TakesUnits \/ GivesUnits

LEMMA FiniteCount ==
  ASSUME NEW b, NEW m
  PROVE  IsFiniteSet(OutstandingIn(b, m)) /\ Cardinality(OutstandingIn(b, m)) \in Nat
<1>1. OutstandingIn(b, m) \subseteq Keys
  BY DEF OutstandingIn
<1> QED BY <1>1, DispatchAssumption, FS_Subset, FS_CardinalityType

LEMMA UnitsDistribute ==
  ASSUME NEW n \in Nat
  PROVE  /\ Units * (n + 1) = Units * n + 1 * Units
         /\ n > 0 => Units * (n - 1) = Units * n + (-1) * Units
<1>1. Units \in Nat
  BY DispatchAssumption
<1> QED BY <1>1

LEMMA BooksKept ==
  ASSUME TypeInv, BooksBalance, KeepsBooks
  PROVE  BooksBalance'
<1>1. ASSUME NEW b \in Budgets, NEW m \in Months
      PROVE  OutstandingIn(b, m)' = OutstandingIn(b, m)
  BY DEF KeepsBooks, Counts, OutstandingIn
<1> QED BY <1>1 DEF BooksBalance, KeepsBooks

LEMMA BooksTaken ==
  ASSUME TypeInv, TypeInv', BooksBalance, TakesUnits
  PROVE  BooksBalance'
<1>1. PICK k \in Keys, m \in Months, x \in DispatchRow :
        /\ ~Counts(dispatch[k]) /\ Counts(x) /\ x.cycle = m
        /\ dispatch' = [dispatch EXCEPT ![k] = x]
        /\ Reserving(k, m, 1)
  BY DEF TakesUnits
<1>2. dispatch'[k] = x /\ \A r \in Keys : r # k => dispatch'[r] = dispatch[r]
  BY <1>1 DEF TypeInv, DispatchTypeOK
<1>3. ASSUME NEW b \in Budgets, NEW n \in Months
      PROVE  reserved'[b][n] = Units * Cardinality(OutstandingIn(b, n)')
  <2>1. reserved[b] \in [Months -> Nat] /\ reserved[b][n] = Units * Cardinality(OutstandingIn(b, n))
    BY DEF TypeInv, DispatchTypeOK, BooksBalance
  <2>2. CASE b \in BudgetsOf[k] /\ n = m
    <3>1. reserved'[b][n] = reserved[b][n] + 1 * Units
      BY <1>1, <2>1, <2>2 DEF Reserving
    <3>2. OutstandingIn(b, n)' = OutstandingIn(b, n) \cup {k} /\ k \notin OutstandingIn(b, n)
      BY <1>1, <1>2, <2>2 DEF OutstandingIn, Counts
    <3>3. Cardinality(OutstandingIn(b, n)') = Cardinality(OutstandingIn(b, n)) + 1
      BY <3>2, FiniteCount, FS_AddElement
    <3> QED BY <2>1, <3>1, <3>3, FiniteCount, UnitsDistribute
  <2>3. CASE ~(b \in BudgetsOf[k] /\ n = m)
    <3>1. reserved'[b][n] = reserved[b][n]
      BY <1>1, <2>1, <2>3 DEF Reserving
    <3>2. OutstandingIn(b, n)' = OutstandingIn(b, n)
      BY <1>1, <1>2, <2>3 DEF OutstandingIn, Counts
    <3> QED BY <2>1, <3>1, <3>2
  <2> QED BY <2>2, <2>3
<1> QED BY <1>3 DEF BooksBalance

LEMMA BooksGiven ==
  ASSUME TypeInv, TypeInv', BooksBalance, GivesUnits
  PROVE  BooksBalance'
<1>1. PICK k \in Keys, m \in Months, x \in DispatchRow :
        /\ Counts(dispatch[k]) /\ dispatch[k].cycle = m /\ ~Counts(x)
        /\ dispatch' = [dispatch EXCEPT ![k] = x]
        /\ Reserving(k, m, -1)
  BY DEF GivesUnits
<1>2. dispatch'[k] = x /\ \A r \in Keys : r # k => dispatch'[r] = dispatch[r]
  BY <1>1 DEF TypeInv, DispatchTypeOK
<1>3. ASSUME NEW b \in Budgets, NEW n \in Months
      PROVE  reserved'[b][n] = Units * Cardinality(OutstandingIn(b, n)')
  <2>1. reserved[b] \in [Months -> Nat] /\ reserved[b][n] = Units * Cardinality(OutstandingIn(b, n))
    BY DEF TypeInv, DispatchTypeOK, BooksBalance
  <2>2. CASE b \in BudgetsOf[k] /\ n = m
    <3>1. reserved'[b][n] = reserved[b][n] + (-1) * Units
      BY <1>1, <2>1, <2>2 DEF Reserving
    <3>2. OutstandingIn(b, n)' = OutstandingIn(b, n) \ {k} /\ k \in OutstandingIn(b, n)
      BY <1>1, <1>2, <2>2 DEF OutstandingIn, Counts
    <3>3. /\ Cardinality(OutstandingIn(b, n)') = Cardinality(OutstandingIn(b, n)) - 1
          /\ Cardinality(OutstandingIn(b, n)) > 0
      <4>1. Cardinality(OutstandingIn(b, n)') = Cardinality(OutstandingIn(b, n)) - 1
        BY <3>2, FiniteCount, FS_RemoveElement
      <4>2. Cardinality(OutstandingIn(b, n)) # 0
        BY <3>2, FiniteCount, FS_EmptySet
      <4> QED BY <4>1, <4>2, FiniteCount
    <3> QED BY <2>1, <3>1, <3>3, FiniteCount, UnitsDistribute
  <2>3. CASE ~(b \in BudgetsOf[k] /\ n = m)
    <3>1. reserved'[b][n] = reserved[b][n]
      BY <1>1, <2>1, <2>3 DEF Reserving
    <3>2. OutstandingIn(b, n)' = OutstandingIn(b, n)
      BY <1>1, <1>2, <2>3 DEF OutstandingIn, Counts
    <3> QED BY <2>1, <3>1, <3>2
  <2> QED BY <2>2, <2>3
<1> QED BY <1>3 DEF BooksBalance

\* What an attempt releases is of the month of the row.
InTime(g) ==
    CancelReservation(g) \/ Settle(g) => gate[g].cycle = dispatch[gate[g].key].cycle

LEMMA GateBooks ==
  ASSUME TypeInv, NEW g \in Gates, GateNext(g) \/ Crash(g), InTime(g)
  PROVE  BookStep
<1> DEFINE k == gate[g].key
           m == gate[g].cycle
           o == gate[g].outcome
<1>1. gate[g] \in GateState /\ Knows(gate[g])
  BY GateOf
<1>2. m \in Months /\ o \in Outcome
  BY <1>1 DEF GateState
<1>3. CASE dispatch' = dispatch /\ reserved' = reserved
  BY <1>3 DEF BookStep, KeepsBooks
<1>4. CASE Reserve(g)
  <2>1. k \in Keys /\ BusinessOf[k] \in Businesses
    BY <1>1, <1>4, DispatchAssumption DEF Reserve, Knows
  <2>2. /\ NewReservation(BusinessOf[k], gate[g].cycle) \in DispatchRow
        /\ NewReservation(BusinessOf[k], gate[g].cycle).status = "RESERVED"
        /\ NewReservation(BusinessOf[k], gate[g].cycle).cycle = m
    BY <1>2, <1>4, <2>1, NewReservationType DEF Reserve
  <2>3. dispatch[k].status \in {"NONE", "CANCELLED", "FAILED"}
    BY <1>1, <1>4 DEF Reserve, Knows
  <2>4. /\ dispatch' = [dispatch EXCEPT ![k] = NewReservation(BusinessOf[k], gate[g].cycle)]
        /\ Reserving(k, m, 1)
    BY <1>4 DEF Reserve
  <2> QED BY <1>2, <2>1, <2>2, <2>3, <2>4 DEF BookStep, TakesUnits, Counts, Outstanding
<1>5. CASE Submit(g)
  <2> DEFINE x == [dispatch[k] EXCEPT !.status = "SUBMITTED", !.aged = FALSE]
  <2>1. k \in Keys /\ dispatch[k] \in DispatchRow /\ dispatch[k].status = "RESERVED"
    BY <1>1, <1>5, RowOf DEF Knows, Submit
  <2>2. x.status = "SUBMITTED" /\ x.cycle = dispatch[k].cycle
    BY <2>1 DEF DispatchRow
  <2>3. dispatch' = [dispatch EXCEPT ![k] = x]
    BY <1>5 DEF Submit, TypeInv, DispatchTypeOK
  <2> HIDE DEF x
  <2>4. dispatch'[k] = x /\ \A r \in Keys : r # k => dispatch'[r] = dispatch[r]
    BY <2>1, <2>3 DEF TypeInv, DispatchTypeOK
  <2> QED BY <1>5, <2>1, <2>2, <2>4 DEF Submit, BookStep, KeepsBooks, Counts, Outstanding
<1>6. CASE CancelReservation(g)
  <2>1. k \in Keys /\ dispatch[k] \in DispatchRow /\ dispatch[k].status = "RESERVED"
    BY <1>1, <1>6, RowOf DEF Knows, CancelReservation
  <2>2. Cancelled(dispatch[k]) \in DispatchRow /\ Cancelled(dispatch[k]).status = "CANCELLED"
    BY <2>1, CancelledType
  <2>3. dispatch[k].cycle = m
    BY <1>6 DEF InTime
  <2>4. dispatch' = [dispatch EXCEPT ![k] = Cancelled(dispatch[k])] /\ Reserving(k, m, -1)
    BY <1>6 DEF CancelReservation, TypeInv, DispatchTypeOK
  <2> HIDE DEF m
  <2> QED BY <1>2, <2>1, <2>2, <2>3, <2>4 DEF BookStep, GivesUnits, Counts, Outstanding
<1>7. CASE Settle(g)
  <2> DEFINE x == Settled(dispatch[k], o)
  <2>1. k \in Keys /\ dispatch[k] \in DispatchRow /\ dispatch[k].status = "SUBMITTED"
    BY <1>1, <1>7, RowOf DEF Knows, Settle
  <2>2. x \in DispatchRow /\ x.status = o.status /\ x.cycle = dispatch[k].cycle
    BY <1>2, <2>1, SettledType
  <2>3. dispatch[k].cycle = m
    BY <1>7 DEF InTime
  <2>4. dispatch' = [dispatch EXCEPT ![k] = x]
    BY <1>7 DEF Settle, TypeInv, DispatchTypeOK
  <2> HIDE DEF x
  <2>5. CASE o.status = "AMBIGUOUS"
    <3>1. dispatch'[k] = x /\ \A r \in Keys : r # k => dispatch'[r] = dispatch[r]
      BY <2>1, <2>4 DEF TypeInv, DispatchTypeOK
    <3>2. reserved' = reserved
      BY <1>7, <2>5 DEF Settle
    <3> QED BY <2>1, <2>2, <2>5, <3>1, <3>2 DEF BookStep, KeepsBooks, Counts, Outstanding
  <2>6. CASE o.status # "AMBIGUOUS"
    <3>1. Reserving(k, m, -1)
      BY <1>7, <2>6 DEF Settle
    <3>2. x.status \in {"SUCCEEDED", "FAILED"}
      BY <1>2, <2>2, <2>6 DEF Outcome
    <3> HIDE DEF m
    <3> QED BY <1>2, <2>1, <2>2, <2>3, <2>4, <3>1, <3>2
        DEF BookStep, GivesUnits, Counts, Outstanding
  <2> QED BY <2>5, <2>6
<1>8. CASE MarkAmbiguous(g)
  <2> DEFINE x == Settled(dispatch[k], NoOutcome)
  <2>1. k \in Keys /\ dispatch[k] \in DispatchRow
    BY <1>1, <1>8, RowOf DEF Knows, MarkAmbiguous
  <2>2. x.status = "AMBIGUOUS" /\ x.cycle = dispatch[k].cycle
    BY <2>1, SettledType, NoOutcomeType DEF NoOutcome
  <2>3. \/ dispatch[k].status = "SUBMITTED" /\ dispatch' = [dispatch EXCEPT ![k] = x]
        \/ dispatch' = dispatch
    BY <1>8 DEF MarkAmbiguous, TypeInv, DispatchTypeOK
  <2> HIDE DEF x
  <2>4. CASE dispatch[k].status = "SUBMITTED" /\ dispatch' = [dispatch EXCEPT ![k] = x]
    <3>1. dispatch'[k] = x /\ \A r \in Keys : r # k => dispatch'[r] = dispatch[r]
      BY <2>1, <2>4 DEF TypeInv, DispatchTypeOK
    <3> QED BY <1>8, <2>2, <2>4, <3>1
        DEF MarkAmbiguous, BookStep, KeepsBooks, Counts, Outstanding
  <2> QED BY <1>3, <1>8, <2>3, <2>4 DEF MarkAmbiguous
<1>9. \/ Reserve(g) \/ Submit(g) \/ CancelReservation(g) \/ Settle(g) \/ MarkAmbiguous(g)
      \/ UNCHANGED <<dispatch, reserved>>
  BY DEF GateNext, ClaimScan, ReadExisting, Refused, ReserveRaced, ReserveFails, EvidenceFails,
     SubmitRaced, SubmitRefused, CancelFails, ProviderAnswers, CallTimesOut, AnswerIsInvalid,
     SettleFails, EndAttempt, Heartbeat, Crash, rows
<1> QED BY <1>3, <1>4, <1>5, <1>6, <1>7, <1>8, <1>9

LEMMA ReconcileBooks ==
  ASSUME TypeInv, NEW k \in Keys, Reconcile(k) \/ GrowsStale(k)
  PROVE  BookStep
<1>1. dispatch[k] \in DispatchRow
  BY RowOf
<1>2. CASE ReconcileReservation(k)
  <2> DEFINE m == dispatch[k].cycle
  <2>1. m \in Months
    BY <1>1 DEF DispatchRow
  <2>2. Cancelled(dispatch[k]) \in DispatchRow /\ Cancelled(dispatch[k]).status = "CANCELLED"
    BY <1>1, CancelledType
  <2>3. /\ dispatch' = [dispatch EXCEPT ![k] = Cancelled(dispatch[k])]
        /\ Reserving(k, m, -1)
        /\ dispatch[k].status = "RESERVED"
    BY <1>2 DEF ReconcileReservation, TypeInv, DispatchTypeOK
  <2> QED BY <2>1, <2>2, <2>3 DEF BookStep, GivesUnits, Counts, Outstanding
<1>3. ASSUME NEW x, dispatch' = [dispatch EXCEPT ![k] = x], reserved' = reserved,
             x.cycle = dispatch[k].cycle, Counts(x), Counts(dispatch[k])
      PROVE  BookStep
  <2>1. dispatch'[k] = x /\ \A r \in Keys : r # k => dispatch'[r] = dispatch[r]
    BY <1>3 DEF TypeInv, DispatchTypeOK
  <2> QED BY <1>3, <2>1 DEF BookStep, KeepsBooks
<1>4. CASE ReconcileSubmission(k)
  <2> DEFINE x == Settled(dispatch[k], NoOutcome)
  <2>1. x.status = "AMBIGUOUS" /\ x.cycle = dispatch[k].cycle
    BY <1>1, SettledType, NoOutcomeType DEF NoOutcome
  <2>2. /\ dispatch' = [dispatch EXCEPT ![k] = x] /\ reserved' = reserved
        /\ dispatch[k].status = "SUBMITTED"
    BY <1>4 DEF ReconcileSubmission, TypeInv, DispatchTypeOK
  <2> HIDE DEF x
  <2>3. Counts(x) /\ Counts(dispatch[k])
    BY <2>1, <2>2 DEF Counts, Outstanding
  <2> QED BY <1>3, <2>1, <2>2, <2>3
<1>5. CASE GrowsStale(k)
  <2> DEFINE x == [dispatch[k] EXCEPT !.aged = TRUE]
  <2>1. x.status = dispatch[k].status /\ x.cycle = dispatch[k].cycle
    BY <1>1 DEF DispatchRow
  <2>2. /\ dispatch' = [dispatch EXCEPT ![k] = x] /\ reserved' = reserved
        /\ dispatch[k].status \in {"RESERVED", "SUBMITTED"}
    BY <1>5 DEF GrowsStale, TypeInv, DispatchTypeOK
  <2> HIDE DEF x
  <2>3. Counts(x) /\ Counts(dispatch[k])
    BY <2>1, <2>2 DEF Counts, Outstanding
  <2> QED BY <1>3, <2>1, <2>2, <2>3
<1> QED BY <1>2, <1>4, <1>5 DEF Reconcile

LEMMA BooksStep ==
  ASSUME TypeInv, TypeInv', [Next]_vars, \A g \in Gates : InTime(g), BooksBalance
  PROVE  BooksBalance'
<1>1. ASSUME NEW g \in Gates, GateNext(g) \/ Crash(g) PROVE BookStep
  BY <1>1, GateBooks
<1>2. ASSUME NEW k \in Keys, Reconcile(k) \/ GrowsStale(k) PROVE BookStep
  BY <1>2, ReconcileBooks
<1>3. ASSUME \/ \E s \in Scans : LeaseLapses(s) \/ WithdrawScan(s) \/ EraseScan(s)
             \/ \E b \in Businesses : GrantConsent(b) \/ RevokeConsent(b)
             \/ MonthTurns
             \/ UNCHANGED vars
      PROVE BookStep
  BY <1>3 DEF LeaseLapses, WithdrawScan, EraseScan, GrantConsent, RevokeConsent, MonthTurns,
     vars, rows, BookStep, KeepsBooks
<1>4. BookStep
  BY <1>1, <1>2, <1>3 DEF Next
<1> QED BY <1>4, BooksKept, BooksTaken, BooksGiven DEF BookStep

\* Within a month no race, retry, late answer or reconciliation releases units
\* twice or leaves them behind; over a month's end it does (AmbiguousCounts).
THEOREM BooksBalanceHolds == MaxMonth = 1 /\ DispatchSpec => []BooksBalance
<1> SUFFICES ASSUME MaxMonth = 1 PROVE DispatchSpec => []BooksBalance
  OBVIOUS
<1>1. Init => BooksBalance
  <2> SUFFICES ASSUME Init, NEW b \in Budgets, NEW m \in Months
               PROVE  reserved[b][m] = Units * Cardinality(OutstandingIn(b, m))
    BY DEF BooksBalance
  <2>1. OutstandingIn(b, m) = {}
    BY DEF Init, OutstandingIn, NoDispatch, Outstanding
  <2> QED BY <2>1, FS_EmptySet, DispatchAssumption DEF Init
<1>2. TypeInv => \A g \in Gates : InTime(g)
  <2> SUFFICES ASSUME TypeInv, NEW g \in Gates, CancelReservation(g) \/ Settle(g)
               PROVE  gate[g].cycle = dispatch[gate[g].key].cycle
    BY DEF InTime
  <2>1. gate[g] \in GateState /\ gate[g].key \in Keys
    BY GateOf DEF Knows, CancelReservation, Settle
  <2>2. gate[g].cycle \in Months /\ dispatch[gate[g].key].cycle \in Months
    BY <2>1, RowOf DEF GateState, DispatchRow
  <2> QED BY <2>2 DEF Months
<1>3. TypeInv /\ TypeInv' /\ BooksBalance /\ [Next]_vars => BooksBalance'
  BY <1>2, BooksStep
<1> QED BY <1>1, <1>3, TypeInvHolds, PTL DEF DispatchSpec

-----------------------------------------------------------------------------
(* Any number of months: which attempts know the month of the row.         *)

\* An attempt that may still submit knows it, for only the holder of the lease
\* makes a reservation, and so does one whose call has left.
CycleInv ==
    /\ \A g \in Gates :
          /\ gate[g].at = "ready"
          /\ scan[ScanOf[gate[g].key]].holder = g
          /\ dispatch[gate[g].key].status = "RESERVED"
          => dispatch[gate[g].key].cycle = gate[g].cycle
    /\ \A g \in Gates : AtCall(g) => dispatch[gate[g].key].cycle = gate[g].cycle

\* A lease comes to an attempt only with its claim.
HoldersKept ==
    \A g \in Gates, s \in Scans :
        scan'[s].holder = g => scan[s].holder = g \/ gate'[g].at = "lookup"

\* No reservation is made, and nobody comes to hold one.
CyclesStill ==
    /\ \A k \in Keys : /\ dispatch'[k].cycle = dispatch[k].cycle
                       /\ dispatch'[k].status = "RESERVED" => dispatch[k].status = "RESERVED"
    /\ \A g \in Gates : gate'[g].at = "ready" => gate'[g] = gate[g]
    /\ \A g \in Gates : AtCall(g)' => /\ AtCall(g)
                                      /\ gate'[g].key = gate[g].key
                                      /\ gate'[g].cycle = gate[g].cycle

LEMMA NearOf ==
  ASSUME TypeInv
  PROVE  \A g \in Gates : gate[g].at = "ready" \/ AtCall(g) => gate[g].key \in Keys
  BY GateOf DEF Knows, AtCall

LEMMA CyclesKept ==
  ASSUME TypeInv, CycleInv, HoldersKept, CyclesStill
  PROVE  CycleInv'
<1>1. \A g \in Gates : gate[g].at = "ready" \/ AtCall(g) => gate[g].key \in Keys
  BY NearOf
<1>2. ASSUME NEW g \in Gates, gate'[g].at = "ready", scan'[ScanOf[gate'[g].key]].holder = g,
             dispatch'[gate'[g].key].status = "RESERVED"
      PROVE  dispatch'[gate'[g].key].cycle = gate'[g].cycle
  <2>1. gate'[g] = gate[g] /\ gate[g].at = "ready" /\ gate[g].key \in Keys
    BY <1>1, <1>2 DEF CyclesStill
  <2>2. scan[ScanOf[gate[g].key]].holder = g
    <3>1. ScanOf[gate[g].key] \in Scans
      BY <2>1, DispatchAssumption
    <3>2. scan'[ScanOf[gate[g].key]].holder = g
      BY <1>2, <2>1
    <3> QED BY <2>1, <3>1, <3>2 DEF HoldersKept
  <2>3. /\ dispatch[gate[g].key].status = "RESERVED"
        /\ dispatch'[gate[g].key].cycle = dispatch[gate[g].key].cycle
    BY <1>2, <2>1 DEF CyclesStill
  <2> QED BY <2>1, <2>2, <2>3 DEF CycleInv
<1>3. ASSUME NEW g \in Gates, AtCall(g)'
      PROVE  dispatch'[gate'[g].key].cycle = gate'[g].cycle
  BY <1>1, <1>3 DEF CyclesStill, CycleInv
<1> QED BY <1>2, <1>3 DEF CycleInv

LEMMA HoldersStep ==
  ASSUME TypeInv, [Next]_vars
  PROVE  HoldersKept
<1>1. scan \in [Scans -> ScanView]
  BY DEF TypeInv, DispatchTypeOK
<1>2. CASE scan' = scan
  BY <1>2 DEF HoldersKept
<1>3. ASSUME NEW g \in Gates, NEW k \in Keys, ClaimScan(g, k) PROVE HoldersKept
  <2> DEFINE s == ScanOf[k]
             x == [scan[s] EXCEPT !.holder = g, !.fresh = TRUE]
             y == [gate[g] EXCEPT !.at = "lookup", !.key = k]
  <2>1. s \in Scans /\ scan[s] \in ScanView /\ gate[g] \in GateState
    BY <1>1, GateOf, DispatchAssumption
  <2>2. x.holder = g /\ y.at = "lookup"
    BY <2>1 DEF ScanView, GateState
  <2>3. scan' = [scan EXCEPT ![s] = x] /\ gate' = [gate EXCEPT ![g] = y]
    BY <1>1, <1>3 DEF ClaimScan, TypeInv, DispatchTypeOK
  <2> HIDE DEF x, y, s
  <2>4. gate'[g].at = "lookup"
    BY <2>2, <2>3 DEF TypeInv, DispatchTypeOK
  <2>5. scan'[s].holder = g /\ \A r \in Scans : r # s => scan'[r] = scan[r]
    BY <1>1, <2>1, <2>2, <2>3
  <2> QED BY <2>4, <2>5 DEF HoldersKept
<1>4. ASSUME NEW s \in Scans, NEW v, scan' = [scan EXCEPT ![s] = v],
             v.holder = scan[s].holder \/ v.holder = None
      PROVE  HoldersKept
  BY <1>1, <1>4, DispatchAssumption DEF HoldersKept
<1>5. ASSUME NEW s \in Scans, LeaseLapses(s) \/ WithdrawScan(s) \/ EraseScan(s)
      PROVE  HoldersKept
  <2> DEFINE x == [scan[s] EXCEPT !.fresh = FALSE]
             y == [scan[s] EXCEPT !.state = "withdrawn"]
             z == [state |-> "gone", holder |-> None, fresh |-> FALSE]
  <2>1. scan[s] \in ScanView
    BY <1>1
  <2>2. x.holder = scan[s].holder /\ y.holder = scan[s].holder /\ z.holder = None
    BY <2>1 DEF ScanView
  <2>3. \/ scan' = [scan EXCEPT ![s] = x]
        \/ scan' = [scan EXCEPT ![s] = y]
        \/ scan' = [scan EXCEPT ![s] = z]
    BY <1>1, <1>5 DEF LeaseLapses, WithdrawScan, EraseScan
  <2> HIDE DEF x, y, z
  <2> QED BY <1>4, <2>2, <2>3
<1>6. ASSUME NEW g \in Gates, EndAttempt(g) \/ Heartbeat(g) PROVE HoldersKept
  <2> DEFINE s == ScanOf[gate[g].key]
             x == [scan[s] EXCEPT !.holder = None, !.fresh = FALSE]
             y == [scan[s] EXCEPT !.fresh = TRUE]
  <2>1. s \in Scans /\ scan[s] \in ScanView
    BY <1>1, <1>6, GateOf, DispatchAssumption DEF Knows, EndAttempt, Heartbeat
  <2>2. x.holder = None /\ y.holder = scan[s].holder
    BY <2>1 DEF ScanView
  <2>3. \/ scan' = scan
        \/ scan' = [scan EXCEPT ![s] = x]
        \/ scan' = [scan EXCEPT ![s] = y]
    BY <1>1, <1>6 DEF EndAttempt, Heartbeat
  <2> HIDE DEF x, y, s
  <2> QED BY <1>2, <1>4, <2>1, <2>2, <2>3
<1>7. ASSUME NEW g \in Gates, GateNext(g) \/ Crash(g) PROVE HoldersKept
  BY <1>2, <1>3, <1>6, <1>7
  DEF GateNext, ReadExisting, Refused, Reserve, ReserveRaced, ReserveFails, EvidenceFails, Submit,
      SubmitRaced, SubmitRefused, CancelReservation, CancelFails, ProviderAnswers, CallTimesOut,
      AnswerIsInvalid, Settle, SettleFails, MarkAmbiguous, Crash
<1>8. CASE UNCHANGED vars \/ MonthTurns
  BY <1>2, <1>8 DEF vars, MonthTurns
<1>9. ASSUME NEW k \in Keys, Reconcile(k) \/ GrowsStale(k) PROVE HoldersKept
  BY <1>2, <1>9 DEF Reconcile, ReconcileSubmission, ReconcileReservation, GrowsStale
<1>10. ASSUME NEW b \in Businesses, GrantConsent(b) \/ RevokeConsent(b) PROVE HoldersKept
  BY <1>2, <1>10 DEF GrantConsent, RevokeConsent
<1> QED BY <1>5, <1>7, <1>8, <1>9, <1>10 DEF Next

LEMMA QuietCycles ==
  ASSUME TypeInv, CycleInv, HoldersKept, Quiet
  PROVE  CycleInv'
<1>1. \A k \in Keys : /\ dispatch'[k].cycle = dispatch[k].cycle
                      /\ dispatch'[k].status = "RESERVED" => dispatch[k].status = "RESERVED"
  BY DEF Quiet, Still
<1>2. \A g \in Gates : gate'[g].at \in {"ready", "calling", "answered"} => gate'[g] = gate[g]
  BY DEF Quiet, Recedes
<1>3. CyclesStill
  BY <1>1, <1>2 DEF CyclesStill, AtCall
<1> QED BY <1>3, CyclesKept

\* The call is answered, given up or settled.
LEMMA CallCycles ==
  ASSUME TypeInv, CycleInv, HoldersKept, NEW g \in Gates,
         \/ ProviderAnswers(g) \/ CallTimesOut(g) \/ AnswerIsInvalid(g) \/ Settle(g) \/ Crash(g)
  PROVE  CycleInv'
<1> DEFINE k == gate[g].key
           o == gate[g].outcome
           x == Settled(dispatch[k], o)
<1>1. gate[g] \in GateState /\ gate \in [Gates -> GateState]
  BY GateOf DEF TypeInv, DispatchTypeOK
<1>2. \A r \in Keys : /\ dispatch'[r].cycle = dispatch[r].cycle
                      /\ dispatch'[r].status = "RESERVED" => dispatch[r].status = "RESERVED"
  <2>1. CASE Settle(g)
    <3>1. k \in Keys /\ dispatch[k] \in DispatchRow /\ o \in Outcome
      BY <1>1, <2>1, GateOf, RowOf DEF Knows, Settle, GateState
    <3>2. x.status # "RESERVED" /\ x.cycle = dispatch[k].cycle
      BY <3>1, SettledType DEF Outcome
    <3>3. dispatch' = [dispatch EXCEPT ![k] = x]
      BY <2>1 DEF Settle, TypeInv, DispatchTypeOK
    <3> HIDE DEF x
    <3>4. dispatch'[k] = x /\ \A r \in Keys : r # k => dispatch'[r] = dispatch[r]
      BY <3>1, <3>3 DEF TypeInv, DispatchTypeOK
    <3> QED BY <3>2, <3>4
  <2>2. CASE ~Settle(g)
    BY <2>2 DEF ProviderAnswers, CallTimesOut, AnswerIsInvalid, Crash, rows
  <2> QED BY <2>1, <2>2
<1>3. ASSUME NEW z, gate' = [gate EXCEPT ![g] = z],
             \/ z.at \notin {"ready", "calling", "answered"}
             \/ z.at = "answered" /\ gate[g].at = "calling" /\ z.key = k /\ z.cycle = gate[g].cycle
      PROVE  CyclesStill
  <2>1. gate'[g] = z /\ \A h \in Gates : h # g => gate'[h] = gate[h]
    BY <1>1, <1>3
  <2>2. \A h \in Gates : gate'[h].at = "ready" => gate'[h] = gate[h]
    BY <1>3, <2>1
  <2>3. \A h \in Gates : AtCall(h)' => /\ AtCall(h)
                                       /\ gate'[h].key = gate[h].key
                                       /\ gate'[h].cycle = gate[h].cycle
    BY <1>3, <2>1 DEF AtCall
  <2> QED BY <1>2, <2>2, <2>3 DEF CyclesStill
<1>4. CASE ProviderAnswers(g) \/ CallTimesOut(g) \/ AnswerIsInvalid(g)
  <2>1. PICK p : gate' = [gate EXCEPT ![g].at = "answered", ![g].outcome = p]
    BY <1>4 DEF ProviderAnswers, CallTimesOut, AnswerIsInvalid
  <2> DEFINE z == [gate[g] EXCEPT !.at = "answered", !.outcome = p]
  <2>2. z.at = "answered" /\ z.key = k /\ z.cycle = gate[g].cycle
    BY <1>1 DEF GateState
  <2>3. gate' = [gate EXCEPT ![g] = z]
    BY <1>1, <2>1
  <2>4. gate[g].at = "calling"
    BY <1>4 DEF ProviderAnswers, CallTimesOut, AnswerIsInvalid
  <2> HIDE DEF z
  <2>5. CyclesStill
    BY <1>3, <2>2, <2>3, <2>4
  <2> QED BY <2>5, CyclesKept
<1>5. CASE Settle(g) \/ Crash(g)
  <2> DEFINE z1 == [NewGate EXCEPT !.at = "done", !.key = k]
             z2 == [NewGate EXCEPT !.at = "over"]
             z3 == [gate[g] EXCEPT !.at = "marking"]
  <2>1. z1.at = "done" /\ z2.at = "over" /\ z3.at = "marking"
    BY <1>1 DEF NewGate, GateState
  <2>2. \/ gate' = [gate EXCEPT ![g] = z1]
        \/ gate' = [gate EXCEPT ![g] = z2]
        \/ gate' = [gate EXCEPT ![g] = z3]
    BY <1>1, <1>5 DEF Settle, Crash, Leaves, Ends, Goes
  <2> HIDE DEF z1, z2, z3
  <2>3. CyclesStill
    BY <1>3, <2>1, <2>2
  <2> QED BY <2>3, CyclesKept
<1> QED BY <1>4, <1>5

\* The attempt holds a reservation as the row now has it.
LEMMA HoldCycles ==
  ASSUME DInv, CycleInv, NEW g \in Gates, gate[g].key \in Keys, NEW row \in DispatchRow,
         Holding(g, row), dispatch'[gate[g].key] = row, scan' = scan,
         \A r \in Keys : r # gate[g].key => dispatch'[r] = dispatch[r],
         \/ row = dispatch[gate[g].key]
         \/ /\ Unpaid(dispatch[gate[g].key])
            /\ scan[ScanOf[gate[g].key]].holder = g
  PROVE  CycleInv'
<1> DEFINE k == gate[g].key
<1>1. /\ gate'[g].at = "ready"
      /\ gate'[g].key = k
      /\ \A h \in Gates : h # g => gate'[h] = gate[h]
  BY HoldingIs DEF DInv
<1>2. gate'[g].cycle = row.cycle
  <2> DEFINE c == row.consent
             m == row.cycle
             x == [gate[g] EXCEPT !.at = "ready", !.rearm = "NONE", !.consent = c, !.cycle = m]
  <2>1. gate[g] \in GateState
    BY GateOf DEF DInv
  <2>2. gate' = [gate EXCEPT ![g] = x] /\ gate \in [Gates -> GateState]
    BY DEF Holding, DInv, TypeInv, DispatchTypeOK
  <2> HIDE DEF c, m
  <2>3. x.cycle = m
    BY <2>1 DEF GateState
  <2> HIDE DEF x
  <2> QED BY <2>2, <2>3 DEF m
<1>3. \A h \in Gates : gate[h].at = "ready" \/ AtCall(h) => gate[h].key \in Keys
  BY NearOf DEF DInv
<1>4. ASSUME NEW h \in Gates, gate'[h].at = "ready", scan'[ScanOf[gate'[h].key]].holder = h,
             dispatch'[gate'[h].key].status = "RESERVED"
      PROVE  dispatch'[gate'[h].key].cycle = gate'[h].cycle
  <2>1. CASE h = g
    BY <1>1, <1>2, <2>1
  <2>2. CASE h # g
    <3>1. gate'[h] = gate[h] /\ gate[h].key \in Keys
      BY <1>1, <1>3, <1>4, <2>2
    <3>2. dispatch'[gate[h].key] = dispatch[gate[h].key]
      BY <1>4, <2>2, <3>1
    <3> QED BY <1>4, <3>1, <3>2 DEF CycleInv
  <2> QED BY <2>1, <2>2
<1>5. ASSUME NEW h \in Gates, AtCall(h)'
      PROVE  dispatch'[gate'[h].key].cycle = gate'[h].cycle
  <2>1. h # g
    BY <1>1, <1>5 DEF AtCall
  <2>2. gate'[h] = gate[h] /\ AtCall(h) /\ gate[h].key \in Keys
    BY <1>1, <1>3, <1>5, <2>1 DEF AtCall
  <2>3. ~Unpaid(dispatch[gate[h].key])
    BY <2>2 DEF DInv, CallInv, Unpaid
  <2>4. dispatch'[gate[h].key] = dispatch[gate[h].key]
    BY <2>2, <2>3
  <2> QED BY <2>2, <2>4 DEF CycleInv
<1> QED BY <1>4, <1>5 DEF CycleInv

LEMMA ApproachCycles ==
  ASSUME DInv, CycleInv, NEW g \in Gates,
         \/ Reserve(g)
         \/ (ReadExisting(g) \/ ReserveRaced(g)) /\ Holding(g, dispatch[gate[g].key])
  PROVE  CycleInv'
<1> DEFINE k == gate[g].key
<1>1. Knows(gate[g]) /\ k \in Keys
  BY GateOf DEF DInv, Knows, Reserve, ReadExisting, ReserveRaced
<1>2. dispatch[k] \in DispatchRow /\ BusinessOf[k] \in Businesses
  BY <1>1, RowOf, DispatchAssumption DEF DInv
<1>3. CASE Reserve(g)
  <2>0. gate[g].cycle \in Months
    BY GateOf DEF DInv, GateState
  <2> DEFINE row == NewReservation(BusinessOf[k], gate[g].cycle)
  <2>1. row \in DispatchRow
    BY <1>2, <1>3, <2>0, NewReservationType DEF Reserve, DInv
  <2>2. dispatch' = [dispatch EXCEPT ![k] = row] /\ Holding(g, row) /\ scan' = scan
    BY <1>3 DEF Reserve
  <2>3. Unpaid(dispatch[k]) /\ scan[ScanOf[k]].holder = g
    BY <1>1, <1>3 DEF Reserve, Leases, Unpaid, Knows
  <2> HIDE DEF row
  <2>4. dispatch'[k] = row /\ \A r \in Keys : r # k => dispatch'[r] = dispatch[r]
    BY <1>1, <2>2 DEF DInv, TypeInv, DispatchTypeOK
  <2> QED BY <1>1, <2>1, <2>2, <2>3, <2>4, HoldCycles
<1>4. CASE (ReadExisting(g) \/ ReserveRaced(g)) /\ Holding(g, dispatch[k])
  <2>1. dispatch' = dispatch /\ scan' = scan
    BY <1>4 DEF ReadExisting, ReserveRaced, rows
  <2> QED BY <1>1, <1>2, <1>4, <2>1, HoldCycles
<1> QED BY <1>3, <1>4

LEMMA SubmitCycles ==
  ASSUME DInv, CycleInv, NEW g \in Gates, Submit(g)
  PROVE  CycleInv'
<1> DEFINE k == gate[g].key
           x == [dispatch[k] EXCEPT !.status = "SUBMITTED", !.aged = FALSE]
           y == [gate[g] EXCEPT !.at = "calling"]
<1>1. gate[g] \in GateState /\ gate[g].at = "ready" /\ k \in Keys
  BY GateOf DEF DInv, Knows, Submit
<1>2. dispatch[k] \in DispatchRow /\ dispatch[k].status = "RESERVED"
      /\ scan[ScanOf[k]].holder = g
  BY <1>1, RowOf DEF DInv, Submit, Dispatchable, Leases
<1>3. x.status = "SUBMITTED" /\ x.cycle = dispatch[k].cycle
  BY <1>2 DEF DispatchRow
<1>4. y.at = "calling" /\ y.key = k /\ y.cycle = gate[g].cycle
  BY <1>1 DEF GateState
<1>5. dispatch' = [dispatch EXCEPT ![k] = x] /\ gate' = [gate EXCEPT ![g] = y] /\ scan' = scan
  BY DEF Submit, Goes, DInv, TypeInv, DispatchTypeOK
<1> HIDE DEF x, y
<1>6. /\ dispatch'[k] = x /\ gate'[g] = y
      /\ \A r \in Keys : r # k => dispatch'[r] = dispatch[r]
      /\ \A h \in Gates : h # g => gate'[h] = gate[h]
  BY <1>1, <1>5 DEF DInv, TypeInv, DispatchTypeOK
<1>7. \A h \in Gates : gate[h].at = "ready" \/ AtCall(h) => gate[h].key \in Keys
  BY NearOf DEF DInv
<1>8. dispatch[k].cycle = gate[g].cycle
  BY <1>1, <1>2 DEF CycleInv
<1>9. ASSUME NEW h \in Gates, gate'[h].at = "ready", scan'[ScanOf[gate'[h].key]].holder = h,
             dispatch'[gate'[h].key].status = "RESERVED"
      PROVE  dispatch'[gate'[h].key].cycle = gate'[h].cycle
  <2>1. h # g
    BY <1>4, <1>6, <1>9
  <2>2. gate'[h] = gate[h] /\ gate[h].key \in Keys
    BY <1>6, <1>7, <1>9, <2>1
  <2>3. dispatch'[gate[h].key] = dispatch[gate[h].key]
    BY <1>3, <1>6, <1>9, <2>2
  <2> QED BY <1>5, <1>9, <2>2, <2>3 DEF CycleInv
<1>10. ASSUME NEW h \in Gates, AtCall(h)'
       PROVE  dispatch'[gate'[h].key].cycle = gate'[h].cycle
  <2>1. CASE h = g
    BY <1>3, <1>4, <1>6, <1>8, <2>1
  <2>2. CASE h # g
    <3>1. gate'[h] = gate[h] /\ AtCall(h) /\ gate[h].key \in Keys
      BY <1>6, <1>7, <1>10, <2>2 DEF AtCall
    <3>2. dispatch'[gate[h].key].cycle = dispatch[gate[h].key].cycle
      BY <1>3, <1>6, <3>1
    <3> QED BY <3>1, <3>2 DEF CycleInv
  <2> QED BY <2>1, <2>2
<1> QED BY <1>9, <1>10 DEF CycleInv

LEMMA GateCycles ==
  ASSUME DInv, CycleInv, HoldersKept, NEW g \in Gates, GateNext(g) \/ Crash(g)
  PROVE  CycleInv'
<1> USE DEF DInv
<1>1. ASSUME NEW k \in Keys, ClaimScan(g, k) PROVE CycleInv'
  BY <1>1, ClaimScanQuiet, QuietCycles
<1>2. CASE ReadExisting(g)
  BY <1>2, ApproachCycles, ReadExistingQuiet, QuietCycles
<1>3. CASE ReserveRaced(g)
  BY <1>3, ApproachCycles DEF ReserveRaced
<1>4. CASE \/ Refused(g) \/ ReserveFails(g) \/ EvidenceFails(g) \/ SubmitRaced(g)
           \/ SubmitRefused(g) \/ CancelFails(g) \/ SettleFails(g)
  BY <1>4, TurnQuiet, QuietCycles
<1>5. CASE CancelReservation(g) \/ MarkAmbiguous(g)
  BY <1>5, CancelQuiet, MarkQuiet, QuietCycles
<1>6. CASE EndAttempt(g) \/ Heartbeat(g)
  BY <1>6, EndQuiet, QuietCycles
<1>7. CASE \/ ProviderAnswers(g) \/ CallTimesOut(g) \/ AnswerIsInvalid(g)
           \/ Settle(g) \/ Crash(g)
  BY <1>7, CallCycles
<1>8. CASE Reserve(g) \/ Submit(g)
  BY <1>8, ApproachCycles, SubmitCycles
<1> QED BY <1>1, <1>2, <1>3, <1>4, <1>5, <1>6, <1>7, <1>8 DEF GateNext

LEMMA CyclesStep == DInv /\ CycleInv /\ [Next]_vars => CycleInv'
<1> SUFFICES ASSUME DInv, CycleInv, [Next]_vars PROVE CycleInv'
  OBVIOUS
<1>0. HoldersKept
  BY HoldersStep DEF DInv
<1>1. ASSUME NEW g \in Gates, GateNext(g) \/ Crash(g) PROVE CycleInv'
  BY <1>0, <1>1, GateCycles
<1>2. ASSUME NEW k \in Keys, Reconcile(k) \/ GrowsStale(k) PROVE CycleInv'
  BY <1>0, <1>2, ReconcileQuiet, QuietCycles DEF DInv
<1>3. ASSUME NEW b \in Businesses, GrantConsent(b) \/ RevokeConsent(b) PROVE CycleInv'
  <2>1. UNCHANGED <<scan, dispatch, gate>>
    BY <1>3 DEF GrantConsent, RevokeConsent, rows
  <2> QED BY <2>1 DEF CycleInv, AtCall
<1>4. CASE \/ \E s \in Scans : LeaseLapses(s) \/ WithdrawScan(s) \/ EraseScan(s)
           \/ MonthTurns
           \/ UNCHANGED vars
  BY <1>0, <1>4, OutsideQuiet, QuietCycles DEF DInv
<1> QED BY <1>1, <1>2, <1>3, <1>4 DEF Next

LEMMA CycleInvHolds == DispatchSpec => [](DInv /\ CycleInv)
<1>1. Init => CycleInv
  BY DEF Init, CycleInv, AtCall, NewGate
<1> QED BY <1>1, CyclesStep, InvHolds, PTL DEF DispatchSpec

\* Over any number of months the books are only ever unbalanced by an attempt
\* that cancels, with the month it knew, what was reserved anew in another.
THEOREM OnlyLateCancelsUnbalanceHolds == DispatchSpec => OnlyLateCancelsUnbalance
<1>1. TypeInv /\ TypeInv' /\ CycleInv /\ [Next]_vars =>
        [BooksBalance /\ ~BooksBalance' => \E g \in Gates : LateCancel(g)]_vars
  <2> SUFFICES ASSUME TypeInv, TypeInv', CycleInv, [Next]_vars, BooksBalance,
                      ~(\E g \in Gates : LateCancel(g))
               PROVE  BooksBalance'
    OBVIOUS
  <2>1. ASSUME NEW g \in Gates PROVE InTime(g)
    BY DEF InTime, LateCancel, CycleInv, AtCall, Settle
  <2> QED BY <2>1, BooksStep
<1>2. DInv => TypeInv
  BY DEF DInv
<1> QED BY <1>1, <1>2, CycleInvHolds, PTL DEF DispatchSpec, OnlyLateCancelsUnbalance

-----------------------------------------------------------------------------
(* Sums.  A sum of natural numbers is the number of its units, so that what *)
(* is proved of cardinalities gives what is needed of sums without an       *)
(* induction over the set summed over.                                      *)

UnitsOf(f) == UNION {{x} \X (1 .. f[x]) : x \in DOMAIN f}

LEMMA UnitsAre ==
  ASSUME NEW D, NEW f \in [D -> Nat]
  PROVE  UnitsOf(f) = {t \in D \X Nat : t[2] \in 1 .. f[t[1]]}
<1> DEFINE T == {t \in D \X Nat : t[2] \in 1 .. f[t[1]]}
<1>1. ASSUME NEW t \in UnitsOf(f) PROVE t \in T
  <2>1. PICK x \in D : t \in {x} \X (1 .. f[x])
    BY DEF UnitsOf
  <2>2. t[1] = x /\ t[2] \in 1 .. f[x] /\ t = <<t[1], t[2]>>
    BY <2>1
  <2>3. f[x] \in Nat
    OBVIOUS
  <2>4. t[2] \in Nat
    BY <2>2, <2>3
  <2> QED BY <2>2, <2>4
<1>2. ASSUME NEW t \in T PROVE t \in UnitsOf(f)
  <2>1. t = <<t[1], t[2]>> /\ t[1] \in D /\ t[2] \in 1 .. f[t[1]]
    OBVIOUS
  <2>2. t \in {t[1]} \X (1 .. f[t[1]])
    BY <2>1
  <2> QED BY <2>1, <2>2 DEF UnitsOf
<1> QED BY <1>1, <1>2

\* The units of one index.
LEMMA Column ==
  ASSUME NEW x, NEW n \in Nat
  PROVE  IsFiniteSet({x} \X (1 .. n)) /\ Cardinality({x} \X (1 .. n)) = n
<1>1. IsFiniteSet({x}) /\ Cardinality({x}) = 1
  BY FS_Singleton
<1>2. IsFiniteSet(1 .. n) /\ Cardinality(1 .. n) = n
  <2>1. 1 \in Int /\ n \in Int
    OBVIOUS
  <2>2. IsFiniteSet(1 .. n) /\ Cardinality(1 .. n) = IF 1 > n THEN 0 ELSE n - 1 + 1
    BY <2>1, FS_Interval, Zenon
  <2> QED BY <2>2
<1> DEFINE S == {x}
           T == 1 .. n
<1>3. IsFiniteSet(S) /\ Cardinality(S) = 1 /\ IsFiniteSet(T) /\ Cardinality(T) = n
  BY <1>1, <1>2
<1> HIDE DEF S, T
<1>4. IsFiniteSet(S \X T) /\ Cardinality(S \X T) = Cardinality(S) * Cardinality(T)
  BY <1>3, FS_Product, Zenon
<1>5. IsFiniteSet(S \X T) /\ Cardinality(S \X T) = n
  BY <1>3, <1>4
<1> QED BY <1>5 DEF S, T

LEMMA UnitsFinite ==
  ASSUME NEW D, IsFiniteSet(D), NEW f \in [D -> Nat]
  PROVE  IsFiniteSet(UnitsOf(f))
<1> DEFINE R == {{x} \X (1 .. f[x]) : x \in D}
           F == [x \in D |-> {x} \X (1 .. f[x])]
<1>1. IsFiniteSet(R)
  <2>1. F \in Surjection(D, R)
    BY DEF Surjection
  <2> QED BY <2>1, FS_Surjection
<1>2. ASSUME NEW S \in R PROVE IsFiniteSet(S)
  <2>1. PICK x \in D : S = {x} \X (1 .. f[x])
    OBVIOUS
  <2>2. f[x] \in Nat
    OBVIOUS
  <2> QED BY <2>1, <2>2, Column
<1>3. UnitsOf(f) = UNION R
  BY DEF UnitsOf
<1> HIDE DEF R
<1> QED BY <1>1, <1>2, <1>3, FS_UNION

LEMMA TotalType ==
  ASSUME NEW D, IsFiniteSet(D), NEW f \in [D -> Nat]
  PROVE  Total(f) \in Nat /\ Total(f) = Cardinality(UnitsOf(f))
<1>1. Total(f) = Cardinality(UnitsOf(f))
  BY DEF Total, UnitsOf
<1> QED BY <1>1, UnitsFinite, FS_CardinalityType

LEMMA TotalSplit ==
  ASSUME NEW D, IsFiniteSet(D), NEW f \in [D -> Nat], NEW x \in D
  PROVE  Total(f) = Cardinality({t \in UnitsOf(f) : t[1] # x}) + f[x]
<1> DEFINE A == {t \in UnitsOf(f) : t[1] # x}
           B == {x} \X (1 .. f[x])
<1>1. UnitsOf(f) = A \cup B
  <2>1. ASSUME NEW t \in UnitsOf(f), t[1] = x PROVE t \in B
    <3>1. t \in D \X Nat /\ t[2] \in 1 .. f[t[1]]
      BY UnitsAre
    <3> QED BY <2>1, <3>1
  <2>2. B \subseteq UnitsOf(f)
    BY DEF UnitsOf
  <2> QED BY <2>1, <2>2
<1>2. A \cap B = {}
  OBVIOUS
<1>3. IsFiniteSet(A) /\ IsFiniteSet(B) /\ Cardinality(B) = f[x]
  BY UnitsFinite, Column, FS_Subset
<1>4. Cardinality(A) \in Nat
  BY <1>3, FS_CardinalityType
<1>5. Cardinality(UnitsOf(f)) = Cardinality(A) + f[x]
  <2> HIDE DEF A, B
  <2>1. Cardinality(A \cup B) = Cardinality(A) + Cardinality(B) - Cardinality(A \cap B)
    BY <1>3, FS_Union
  <2>2. Cardinality(A \cap B) = 0
    BY <1>2, FS_EmptySet
  <2> QED BY <1>1, <1>3, <1>4, <2>1, <2>2
<1> QED BY <1>5, TotalType

\* The sum changes by what one of its terms changes.
LEMMA TotalWrite ==
  ASSUME NEW D, IsFiniteSet(D), NEW f \in [D -> Nat], NEW g \in [D -> Nat], NEW x \in D,
         \A y \in D : y # x => g[y] = f[y]
  PROVE  Total(g) - g[x] = Total(f) - f[x]
<1>1. {t \in UnitsOf(f) : t[1] # x} = {t \in UnitsOf(g) : t[1] # x}
  BY UnitsAre
<1>2. Cardinality({t \in UnitsOf(f) : t[1] # x}) \in Nat
  BY UnitsFinite, FS_Subset, FS_CardinalityType
<1>3. f[x] \in Nat /\ g[x] \in Nat
  OBVIOUS
<1> QED BY <1>1, <1>2, <1>3, TotalSplit

LEMMA TotalOfNothing ==
  ASSUME NEW D, NEW f \in [D -> Nat], \A x \in D : f[x] = 0
  PROVE  Total(f) = 0
<1>1. UnitsOf(f) = {}
  BY UnitsAre
<1> QED BY <1>1, FS_EmptySet DEF Total, UnitsOf

\* A sum over pairs, of which each row has one term at most, is bounded by a
\* sum over the rows.
LEMMA TotalOfRows ==
  ASSUME NEW D, IsFiniteSet(D), NEW M, IsFiniteSet(M), NEW f \in [D \X M -> Nat],
         NEW g \in [D -> Nat],
         \A x \in D, m \in M : f[<<x, m>>] <= g[x],
         \A x \in D, m, n \in M : f[<<x, m>>] # 0 /\ f[<<x, n>>] # 0 => m = n
  PROVE  Total(f) <= Total(g)
<1> DEFINE F == [t \in UnitsOf(f) |-> <<t[1][1], t[2]>>]
<1>1. ASSUME NEW t \in UnitsOf(f)
      PROVE  /\ t = <<<<t[1][1], t[1][2]>>, t[2]>>
             /\ t[1][1] \in D /\ t[1][2] \in M
             /\ t[2] \in Nat /\ 1 <= t[2] /\ t[2] <= f[<<t[1][1], t[1][2]>>]
  <2>1. t \in (D \X M) \X Nat /\ t[2] \in 1 .. f[t[1]]
    BY UnitsAre
  <2>2. t = <<t[1], t[2]>> /\ t[1] \in D \X M /\ t[2] \in Nat
    BY <2>1
  <2>3. t[1] = <<t[1][1], t[1][2]>> /\ t[1][1] \in D /\ t[1][2] \in M
    BY <2>2
  <2>4. f[t[1]] \in Nat
    BY <2>2
  <2> QED BY <2>1, <2>2, <2>3, <2>4
<1>2. F \in [UnitsOf(f) -> UnitsOf(g)]
  <2>1. ASSUME NEW t \in UnitsOf(f) PROVE <<t[1][1], t[2]>> \in UnitsOf(g)
    <3> DEFINE x == t[1][1]
               m == t[1][2]
    <3>1. x \in D /\ m \in M /\ t[2] \in Nat /\ 1 <= t[2] /\ t[2] <= f[<<x, m>>]
      BY <1>1
    <3> HIDE DEF x, m
    <3>2. f[<<x, m>>] \in Nat /\ g[x] \in Nat /\ f[<<x, m>>] <= g[x]
      BY <3>1
    <3>3. t[2] \in 1 .. g[x]
      BY <3>1, <3>2
    <3>4. <<x, t[2]>> \in UnitsOf(g)
      BY <3>1, <3>3, UnitsAre
    <3> QED BY <3>4 DEF x
  <2> QED BY <2>1
<1>3. ASSUME NEW t \in UnitsOf(f), NEW u \in UnitsOf(f), F[t] = F[u] PROVE t = u
  <2>1. t[1][1] = u[1][1] /\ t[2] = u[2]
    BY <1>3
  <2>2. f[<<t[1][1], t[1][2]>>] # 0 /\ f[<<u[1][1], u[1][2]>>] # 0
    <3>1. f[<<t[1][1], t[1][2]>>] \in Nat /\ f[<<u[1][1], u[1][2]>>] \in Nat
      BY <1>1
    <3> QED BY <3>1, <1>1
  <2>3. t[1][2] = u[1][2]
    BY <1>1, <2>1, <2>2
  <2> QED BY <1>1, <2>1, <2>3
<1>4. F \in Injection(UnitsOf(f), UnitsOf(g))
  BY <1>2, <1>3 DEF Injection, IsInjective
<1>5. IsFiniteSet(D \X M)
  BY FS_Product
<1>6. Cardinality(UnitsOf(f)) <= Cardinality(UnitsOf(g))
  BY <1>4, UnitsFinite, FS_Injection
<1> QED BY <1>5, <1>6, TotalType

-----------------------------------------------------------------------------
(* The books of all months together, and the limits.                       *)

Bookings(b, m) == used[b][m] + reserved[b][m]

Priced(x) == x.status \in {"SUCCEEDED", "FAILED"} => x.bill \in Amounts

AccountInv ==
    /\ \A k \in Keys : Priced(dispatch[k])
    /\ UnitsAreAccounted
    /\ WithinLimit

\* The units booked for k in month m change by d.
Books(k, m, d) ==
    \A b \in Budgets, n \in Months :
        Bookings(b, n)' = IF b \in BudgetsOf[k] /\ n = m THEN Bookings(b, n) + d
                                                         ELSE Bookings(b, n)

KeepsAccounts ==
    /\ used' = used /\ reserved' = reserved
    /\ \A k \in Keys : /\ Due(dispatch'[k]) = Due(dispatch[k])
                       /\ Priced(dispatch[k]) => Priced(dispatch'[k])

MovesUnits ==
    \E k \in Keys, m \in Months, x \in DispatchRow, d \in Int :
        /\ dispatch' = [dispatch EXCEPT ![k] = x]
        /\ Priced(x)
        /\ Due(x) = Due(dispatch[k]) + d
        /\ Books(k, m, d)
        /\ d > 0 => \A b \in BudgetsOf[k] : Bookings(b, m) + d <= Limit[b]

AccountStep == KeepsAccounts \/ MovesUnits

LEMMA DueIs ==
  ASSUME NEW x
  PROVE  /\ x.status \in {"RESERVED", "SUBMITTED", "AMBIGUOUS"} => Due(x) = Units
         /\ x.status \in {"SUCCEEDED", "FAILED"} => Due(x) = x.bill
         /\ x.status \in {"NONE", "CANCELLED"} => Due(x) = 0
  BY DEF Due, Outstanding

LEMMA DueType ==
  ASSUME NEW x \in DispatchRow, Priced(x)
  PROVE  Due(x) \in Nat
<1>1. x.status \in Status
  BY DEF DispatchRow
<1>2. Amounts \subseteq Nat /\ Units \in Nat
  BY DispatchAssumption DEF Amounts
<1>3. CASE x.status \in {"SUCCEEDED", "FAILED"}
  BY <1>2, <1>3, DueIs DEF Priced
<1>4. CASE x.status \in {"RESERVED", "SUBMITTED", "AMBIGUOUS"}
  BY <1>2, <1>4, DueIs
<1>5. CASE x.status \in {"NONE", "CANCELLED"}
  BY <1>5, DueIs
<1> QED BY <1>1, <1>3, <1>4, <1>5 DEF Status

LEMMA BookingsType ==
  ASSUME TypeInv, NEW b \in Budgets, NEW m \in Months
  PROVE  used[b][m] \in Nat /\ reserved[b][m] \in Nat /\ Bookings(b, m) \in Nat
<1>1. used[b][m] \in Nat /\ reserved[b][m] \in Nat
  BY DEF TypeInv, DispatchTypeOK
<1> QED BY <1>1 DEF Bookings

LEMMA ReservedIs ==
  ASSUME TypeInv, NEW k \in Keys, NEW m \in Months, NEW sign \in {1, -1},
         Reserving(k, m, sign), NEW b \in Budgets, NEW n \in Months
  PROVE  reserved'[b][n] = IF b \in BudgetsOf[k] /\ n = m THEN reserved[b][n] + sign * Units
                                                          ELSE reserved[b][n]
<1>1. reserved[b] \in [Months -> Nat]
  BY DEF TypeInv, DispatchTypeOK
<1> DEFINE j == reserved[b][m] + sign * Units
<1>2. reserved'[b] = IF b \in BudgetsOf[k] THEN [reserved[b] EXCEPT ![m] = j] ELSE reserved[b]
  BY <1>1 DEF Reserving
<1> HIDE DEF j
<1>3. reserved'[b][n] = IF b \in BudgetsOf[k] /\ n = m THEN j ELSE reserved[b][n]
  BY <1>1, <1>2
<1> QED BY <1>3 DEF j

LEMMA UsedIs ==
  ASSUME TypeInv, NEW k \in Keys, NEW m \in Months, NEW u \in Nat,
         Using(k, m, u), NEW b \in Budgets, NEW n \in Months
  PROVE  used'[b][n] = IF b \in BudgetsOf[k] /\ n = m THEN used[b][n] + u ELSE used[b][n]
<1>1. used[b] \in [Months -> Nat]
  BY DEF TypeInv, DispatchTypeOK
<1> DEFINE j == used[b][m] + u
<1>2. used'[b] = IF b \in BudgetsOf[k] THEN [used[b] EXCEPT ![m] = j] ELSE used[b]
  BY <1>1 DEF Using
<1> HIDE DEF j
<1>3. used'[b][n] = IF b \in BudgetsOf[k] /\ n = m THEN j ELSE used[b][n]
  BY <1>1, <1>2
<1> QED BY <1>3 DEF j

\* Units are taken or given back without a bill.
LEMMA ReservingBooks ==
  ASSUME TypeInv, NEW k \in Keys, NEW m \in Months, NEW sign \in {1, -1},
         Reserving(k, m, sign), used' = used
  PROVE  Books(k, m, sign * Units)
<1> DEFINE j == sign * Units
<1>1. j \in Int
  BY DispatchAssumption
<1>2. ASSUME NEW b \in Budgets, NEW n \in Months
      PROVE  Bookings(b, n)' = IF b \in BudgetsOf[k] /\ n = m THEN Bookings(b, n) + j
                                                              ELSE Bookings(b, n)
  <2>1. reserved'[b][n] = IF b \in BudgetsOf[k] /\ n = m THEN reserved[b][n] + j ELSE reserved[b][n]
    BY ReservedIs
  <2> HIDE DEF j
  <2> QED BY <1>1, <2>1, BookingsType DEF Bookings
<1> QED BY <1>2 DEF Books

\* A reservation is settled: what it held goes, what it cost is used.
LEMMA SettlingBooks ==
  ASSUME TypeInv, NEW k \in Keys, NEW m \in Months, NEW u \in Nat,
         Reserving(k, m, -1), Using(k, m, u)
  PROVE  Books(k, m, u - Units)
<1>1. Units \in Nat
  BY DispatchAssumption
<1>2. ASSUME NEW b \in Budgets, NEW n \in Months
      PROVE  Bookings(b, n)' = IF b \in BudgetsOf[k] /\ n = m THEN Bookings(b, n) + (u - Units)
                                                              ELSE Bookings(b, n)
  <2>1. reserved'[b][n] = IF b \in BudgetsOf[k] /\ n = m THEN reserved[b][n] + (-1) * Units
                                                         ELSE reserved[b][n]
    BY ReservedIs
  <2>2. used'[b][n] = IF b \in BudgetsOf[k] /\ n = m THEN used[b][n] + u ELSE used[b][n]
    BY UsedIs
  <2> QED BY <1>1, <2>1, <2>2, BookingsType DEF Bookings
<1> QED BY <1>2 DEF Books

LEMMA AccountsKept ==
  ASSUME AccountInv, KeepsAccounts
  PROVE  AccountInv'
<1>1. \A k \in Keys : Priced(dispatch'[k])
  BY DEF AccountInv, KeepsAccounts
<1>2. UnitsAreAccounted'
  <2>1. ASSUME NEW b \in Budgets
        PROVE  [k \in KeysOf(b) |-> Due(dispatch'[k])] = [k \in KeysOf(b) |-> Due(dispatch[k])]
    BY DEF KeepsAccounts, KeysOf
  <2>2. ASSUME NEW b \in Budgets PROVE Booked(b)' = Booked(b)
    BY DEF KeepsAccounts, Booked
  <2> QED BY <2>1, <2>2 DEF AccountInv, UnitsAreAccounted, KeysOf
<1>3. WithinLimit'
  BY DEF AccountInv, KeepsAccounts, WithinLimit
<1> QED BY <1>1, <1>2, <1>3 DEF AccountInv

LEMMA FiniteSums ==
  ASSUME NEW b
  PROVE  IsFiniteSet(Months) /\ IsFiniteSet(KeysOf(b)) /\ KeysOf(b) \subseteq Keys
<1>1. IsFiniteSet(Months)
  <2>1. 1 \in Int /\ MaxMonth \in Int
    BY DispatchAssumption
  <2> QED BY <2>1, FS_Interval DEF Months
<1>2. KeysOf(b) \subseteq Keys
  BY DEF KeysOf
<1> QED BY <1>1, <1>2, DispatchAssumption, FS_Subset

LEMMA AccountsMoved ==
  ASSUME TypeInv, TypeInv', AccountInv, MovesUnits
  PROVE  AccountInv'
<1>1. PICK k \in Keys, m \in Months, x \in DispatchRow, d \in Int :
        /\ dispatch' = [dispatch EXCEPT ![k] = x]
        /\ Priced(x)
        /\ Due(x) = Due(dispatch[k]) + d
        /\ Books(k, m, d)
        /\ d > 0 => \A b \in BudgetsOf[k] : Bookings(b, m) + d <= Limit[b]
  BY DEF MovesUnits
<1>2. dispatch'[k] = x /\ \A r \in Keys : r # k => dispatch'[r] = dispatch[r]
  BY <1>1 DEF TypeInv, DispatchTypeOK
<1>3. \A r \in Keys : Priced(dispatch'[r])
  BY <1>1, <1>2 DEF AccountInv
<1>4. \A r \in Keys : Due(dispatch[r]) \in Nat /\ Due(dispatch'[r]) \in Nat
  <2>1. \A r \in Keys : dispatch[r] \in DispatchRow /\ dispatch'[r] \in DispatchRow
    BY DEF TypeInv, DispatchTypeOK
  <2> QED BY <1>3, <2>1, DueType DEF AccountInv
<1>5. ASSUME NEW b \in Budgets
      PROVE  Booked(b)' = Total([r \in KeysOf(b) |-> Due(dispatch'[r])])
  <2> DEFINE f == [n \in Months |-> Bookings(b, n)]
             g == [n \in Months |-> Bookings(b, n)']
             u == [r \in KeysOf(b) |-> Due(dispatch[r])]
             v == [r \in KeysOf(b) |-> Due(dispatch'[r])]
  <2>1. f \in [Months -> Nat] /\ g \in [Months -> Nat]
    <3>1. \A n \in Months : Bookings(b, n) \in Nat
      BY BookingsType
    <3>2. \A n \in Months : Bookings(b, n)' \in Nat
      BY DEF TypeInv, DispatchTypeOK, Bookings
    <3> QED BY <3>1, <3>2
  <2>2. u \in [KeysOf(b) -> Nat] /\ v \in [KeysOf(b) -> Nat]
    BY <1>4, FiniteSums
  <2>3. Booked(b) = Total(f) /\ Booked(b)' = Total(g) /\ Total(f) = Total(u)
    <3>1. Booked(b) = Total(f)
      BY DEF Booked, Bookings
    <3>2. Booked(b)' = Total(g)
      BY DEF Booked, Bookings
    <3> QED BY <3>1, <3>2 DEF AccountInv, UnitsAreAccounted
  <2>4. IsFiniteSet(Months) /\ IsFiniteSet(KeysOf(b))
    BY FiniteSums
  <2>5. CASE b \in BudgetsOf[k]
    <3>1. k \in KeysOf(b)
      BY <2>5 DEF KeysOf
    <3>2. g[m] = f[m] + d /\ \A n \in Months : n # m => g[n] = f[n]
      BY <1>1, <2>5 DEF Books
    <3>3. v[k] = u[k] + d /\ \A r \in KeysOf(b) : r # k => v[r] = u[r]
      BY <1>1, <1>2, <3>1, FiniteSums
    <3>4. f[m] \in Nat /\ g[m] \in Nat /\ u[k] \in Nat /\ v[k] \in Nat
      BY <2>1, <2>2, <3>1
    <3> HIDE DEF f, g, u, v
    <3>5. Total(g) - g[m] = Total(f) - f[m]
      BY <2>1, <2>4, <3>2, TotalWrite
    <3>6. Total(v) - v[k] = Total(u) - u[k]
      BY <2>2, <2>4, <3>1, <3>3, TotalWrite
    <3>7. Total(f) \in Nat /\ Total(g) \in Nat /\ Total(u) \in Nat /\ Total(v) \in Nat
      BY <2>1, <2>2, <2>4, TotalType
    <3>8. Total(g) = Total(v)
      BY <2>3, <3>2, <3>3, <3>4, <3>5, <3>6, <3>7
    <3> QED BY <2>3, <3>8 DEF v
  <2>6. CASE b \notin BudgetsOf[k]
    <3>1. g = f
      BY <1>1, <2>6 DEF Books
    <3>2. v = u
      BY <1>2, <2>6, FiniteSums DEF KeysOf
    <3> QED BY <2>3, <3>1, <3>2
  <2> QED BY <2>5, <2>6
<1>6. ASSUME NEW b \in Budgets, NEW n \in Months
      PROVE  used'[b][n] + reserved'[b][n] <= Limit[b]
  <2>1. Bookings(b, n) <= Limit[b] /\ Bookings(b, n) \in Nat /\ Limit[b] \in Nat
    BY BookingsType, DispatchAssumption DEF AccountInv, WithinLimit, Bookings
  <2>2. Bookings(b, n)' = IF b \in BudgetsOf[k] /\ n = m THEN Bookings(b, n) + d
                                                         ELSE Bookings(b, n)
    BY <1>1 DEF Books
  <2>3. Bookings(b, n)' <= Limit[b]
    BY <1>1, <2>1, <2>2
  <2> QED BY <2>3 DEF Bookings
<1>7. UnitsAreAccounted'
  BY <1>5 DEF UnitsAreAccounted, KeysOf
<1>8. WithinLimit'
  BY <1>6 DEF WithinLimit
<1> QED BY <1>3, <1>7, <1>8 DEF AccountInv

LEMMA DueOf ==
  ASSUME NEW x, NEW y, Counts(x), Counts(y)
  PROVE  Due(x) = Due(y) /\ Priced(y)
  BY DueIs DEF Counts, Outstanding, Priced

LEMMA StandingAccounts ==
  ASSUME TypeInv, NEW k \in Keys, NEW x, dispatch' = [dispatch EXCEPT ![k] = x],
         Counts(dispatch[k]), Counts(x), UNCHANGED <<reserved, used>>
  PROVE  AccountStep
<1>1. dispatch'[k] = x /\ \A r \in Keys : r # k => dispatch'[r] = dispatch[r]
  BY DEF TypeInv, DispatchTypeOK
<1> QED BY <1>1, DueOf DEF AccountStep, KeepsAccounts

LEMMA CancelledAccounts ==
  ASSUME TypeInv, NEW k \in Keys, NEW m \in Months, dispatch[k].status = "RESERVED",
         dispatch' = [dispatch EXCEPT ![k] = Cancelled(dispatch[k])],
         Reserving(k, m, -1), used' = used
  PROVE  AccountStep
<1> DEFINE x == Cancelled(dispatch[k])
           d == (-1) * Units
<1>1. x \in DispatchRow /\ x.status = "CANCELLED"
  BY RowOf, CancelledType
<1>2. Due(x) = 0 /\ Priced(x) /\ Due(dispatch[k]) = Units
  BY <1>1, DueIs DEF Priced
<1>3. d \in Int /\ Due(x) = Due(dispatch[k]) + d /\ ~(d > 0)
  BY <1>2, DispatchAssumption
<1>4. Books(k, m, d)
  BY ReservingBooks
<1> HIDE DEF x, d
<1> QED BY <1>1, <1>2, <1>3, <1>4 DEF AccountStep, MovesUnits, x

LEMMA ReserveAccounts ==
  ASSUME TypeInv, \A k \in Keys : Priced(dispatch[k]), NEW g \in Gates, Reserve(g)
  PROVE  AccountStep
<1> DEFINE k == gate[g].key
           m == gate[g].cycle
           x == NewReservation(BusinessOf[k], m)
           d == 1 * Units
<1>1. k \in Keys /\ m \in Months
  BY GateOf DEF Knows, Reserve, GateState
<1>2. BusinessOf[k] \in Businesses
  BY <1>1, DispatchAssumption
<1>3. x \in DispatchRow /\ x.status = "RESERVED" /\ dispatch' = [dispatch EXCEPT ![k] = x]
  BY <1>1, <1>2, NewReservationType DEF Reserve
<1>4. Due(dispatch[k]) = 0
  <2>1. gate[g].rearm \in {"NONE", "CANCELLED", "FAILED"}
    BY GateOf DEF Knows, Reserve
  <2>2. dispatch[k].status = gate[g].rearm /\ (gate[g].rearm # "NONE" => dispatch[k].bill = 0)
    BY DEF Reserve
  <2> QED BY <2>1, <2>2, DueIs
<1>5. Due(x) = Units /\ Priced(x)
  BY <1>3, DueIs DEF Priced
<1>6. d \in Int /\ Due(x) = Due(dispatch[k]) + d
  BY <1>4, <1>5, DispatchAssumption
<1>7. Books(k, m, d)
  BY <1>1, ReservingBooks DEF Reserve
<1>8. ASSUME NEW b \in BudgetsOf[k] PROVE Bookings(b, m) + d <= Limit[b]
  <2>1. b \in Budgets
    BY <1>1, DispatchAssumption
  <2>2. reserved[b][m] <= Limit[b] - used[b][m] - Units
    BY DEF Reserve, RoomFor
  <2>3. Limit[b] \in Nat /\ Units \in Nat
    BY <2>1, DispatchAssumption
  <2> QED BY <1>1, <2>1, <2>2, <2>3, BookingsType DEF Bookings
<1> HIDE DEF x, d
<1> QED BY <1>1, <1>3, <1>5, <1>6, <1>7, <1>8 DEF AccountStep, MovesUnits

LEMMA SettleAccounts ==
  ASSUME TypeInv, NEW g \in Gates, Settle(g)
  PROVE  AccountStep
<1> DEFINE k == gate[g].key
           m == gate[g].cycle
           o == gate[g].outcome
           x == Settled(dispatch[k], o)
<1>1. gate[g] \in GateState /\ Knows(gate[g])
  BY GateOf
<1>2. k \in Keys /\ m \in Months /\ o \in Outcome
  BY <1>1 DEF GateState, Knows, Settle
<1>3. dispatch[k] \in DispatchRow /\ dispatch[k].status = "SUBMITTED"
  BY <1>2, RowOf DEF Settle
<1>4. x \in DispatchRow /\ x.status = o.status /\ x.bill = o.bill
  BY <1>2, <1>3, SettledType
<1>5. dispatch' = [dispatch EXCEPT ![k] = x]
  BY DEF Settle, TypeInv, DispatchTypeOK
<1> HIDE DEF x
<1>6. CASE o.status = "AMBIGUOUS"
  <2>1. Counts(x) /\ Counts(dispatch[k])
    BY <1>3, <1>4, <1>6 DEF Counts, Outstanding
  <2>2. UNCHANGED <<reserved, used>>
    BY <1>6 DEF Settle
  <2> QED BY <1>2, <1>5, <2>1, <2>2, StandingAccounts
<1>7. CASE o.status # "AMBIGUOUS"
  <2> DEFINE d == o.bill - Units
  <2>1. o.bill \in Amounts /\ o.status \in {"SUCCEEDED", "FAILED"}
    BY <1>1, <1>2, <1>7 DEF Knows, Outcome
  <2>2. o.bill \in Nat /\ Units \in Nat /\ o.bill <= Units
    BY <2>1, DispatchAssumption DEF Amounts
  <2>3. Priced(x) /\ Due(x) = o.bill /\ Due(dispatch[k]) = Units
    BY <1>3, <1>4, <2>1, DueIs DEF Priced
  <2>4. d \in Int /\ Due(x) = Due(dispatch[k]) + d /\ ~(d > 0)
    BY <2>2, <2>3
  <2>5. Reserving(k, m, -1) /\ Using(k, m, o.bill)
    BY <1>7 DEF Settle
  <2>6. Books(k, m, d)
    BY <1>2, <2>2, <2>5, SettlingBooks
  <2> HIDE DEF d
  <2> QED BY <1>2, <1>4, <1>5, <2>3, <2>4, <2>6 DEF AccountStep, MovesUnits
<1> QED BY <1>6, <1>7

LEMMA GateAccounts ==
  ASSUME TypeInv, \A k \in Keys : Priced(dispatch[k]), NEW g \in Gates, GateNext(g) \/ Crash(g)
  PROVE  AccountStep
<1> DEFINE k == gate[g].key
<1>1. gate[g] \in GateState /\ Knows(gate[g])
  BY GateOf
<1>2. CASE UNCHANGED rows
  BY <1>2 DEF AccountStep, KeepsAccounts, rows
<1>3. CASE Submit(g)
  <2> DEFINE x == [dispatch[k] EXCEPT !.status = "SUBMITTED", !.aged = FALSE]
  <2>1. k \in Keys /\ dispatch[k] \in DispatchRow /\ dispatch[k].status = "RESERVED"
    BY <1>1, <1>3, RowOf DEF Knows, Submit
  <2>2. x.status = "SUBMITTED"
    BY <2>1 DEF DispatchRow
  <2>3. dispatch' = [dispatch EXCEPT ![k] = x] /\ UNCHANGED <<reserved, used>>
    BY <1>3 DEF Submit, TypeInv, DispatchTypeOK
  <2> HIDE DEF x
  <2>4. Counts(x) /\ Counts(dispatch[k])
    BY <2>1, <2>2 DEF Counts, Outstanding
  <2> QED BY <2>1, <2>3, <2>4, StandingAccounts
<1>4. CASE CancelReservation(g)
  <2>1. k \in Keys /\ gate[g].cycle \in Months
    BY <1>1, <1>4 DEF Knows, CancelReservation, GateState
  <2>2. /\ dispatch' = [dispatch EXCEPT ![k] = Cancelled(dispatch[k])]
        /\ dispatch[k].status = "RESERVED" /\ used' = used
        /\ Reserving(k, gate[g].cycle, -1)
    BY <1>4 DEF CancelReservation, TypeInv, DispatchTypeOK
  <2> QED BY <2>1, <2>2, CancelledAccounts
<1>5. CASE MarkAmbiguous(g)
  <2> DEFINE x == Settled(dispatch[k], NoOutcome)
  <2>1. k \in Keys /\ dispatch[k] \in DispatchRow
    BY <1>1, <1>5, RowOf DEF Knows, MarkAmbiguous
  <2>2. x.status = "AMBIGUOUS"
    BY <2>1, SettledType, NoOutcomeType DEF NoOutcome
  <2>3. /\ UNCHANGED <<reserved, used>>
        /\ \/ dispatch[k].status = "SUBMITTED" /\ dispatch' = [dispatch EXCEPT ![k] = x]
           \/ dispatch' = dispatch
    BY <1>5 DEF MarkAmbiguous, TypeInv, DispatchTypeOK
  <2> HIDE DEF x
  <2>4. dispatch[k].status = "SUBMITTED" => Counts(x) /\ Counts(dispatch[k])
    BY <2>2 DEF Counts, Outstanding
  <2> QED BY <1>2, <2>1, <2>3, <2>4, StandingAccounts DEF rows
<1>6. \/ Reserve(g) \/ Submit(g) \/ CancelReservation(g) \/ Settle(g) \/ MarkAmbiguous(g)
      \/ UNCHANGED rows
  BY DEF GateNext, ClaimScan, ReadExisting, Refused, ReserveRaced, ReserveFails, EvidenceFails,
     SubmitRaced, SubmitRefused, CancelFails, ProviderAnswers, CallTimesOut, AnswerIsInvalid,
     SettleFails, EndAttempt, Heartbeat, Crash
<1> QED BY <1>2, <1>3, <1>4, <1>5, <1>6, ReserveAccounts, SettleAccounts

LEMMA ReconcileAccounts ==
  ASSUME TypeInv, NEW k \in Keys, Reconcile(k) \/ GrowsStale(k)
  PROVE  AccountStep
<1>1. dispatch[k] \in DispatchRow
  BY RowOf
<1>2. CASE ReconcileReservation(k)
  <2>1. dispatch[k].cycle \in Months
    BY <1>1 DEF DispatchRow
  <2>2. /\ dispatch' = [dispatch EXCEPT ![k] = Cancelled(dispatch[k])]
        /\ dispatch[k].status = "RESERVED" /\ used' = used
        /\ Reserving(k, dispatch[k].cycle, -1)
    BY <1>2 DEF ReconcileReservation, TypeInv, DispatchTypeOK
  <2> QED BY <2>1, <2>2, CancelledAccounts
<1>3. CASE ReconcileSubmission(k)
  <2> DEFINE x == Settled(dispatch[k], NoOutcome)
  <2>1. x.status = "AMBIGUOUS"
    BY <1>1, SettledType, NoOutcomeType DEF NoOutcome
  <2>2. /\ dispatch' = [dispatch EXCEPT ![k] = x] /\ UNCHANGED <<reserved, used>>
        /\ dispatch[k].status = "SUBMITTED"
    BY <1>3 DEF ReconcileSubmission, TypeInv, DispatchTypeOK
  <2> HIDE DEF x
  <2>3. Counts(x) /\ Counts(dispatch[k])
    BY <2>1, <2>2 DEF Counts, Outstanding
  <2> QED BY <2>2, <2>3, StandingAccounts
<1>4. CASE GrowsStale(k)
  <2> DEFINE x == [dispatch[k] EXCEPT !.aged = TRUE]
  <2>1. x.status = dispatch[k].status
    BY <1>1 DEF DispatchRow
  <2>2. /\ dispatch' = [dispatch EXCEPT ![k] = x] /\ UNCHANGED <<reserved, used>>
        /\ dispatch[k].status \in {"RESERVED", "SUBMITTED"}
    BY <1>4 DEF GrowsStale, TypeInv, DispatchTypeOK
  <2> HIDE DEF x
  <2>3. Counts(x) /\ Counts(dispatch[k])
    BY <2>1, <2>2 DEF Counts, Outstanding
  <2> QED BY <2>2, <2>3, StandingAccounts
<1> QED BY <1>2, <1>3, <1>4 DEF Reconcile

LEMMA InitAccounts == Init => AccountInv
<1> SUFFICES ASSUME Init PROVE AccountInv
  OBVIOUS
<1>1. \A k \in Keys : dispatch[k].status = "NONE"
  BY DEF Init, NoDispatch
<1>2. \A k \in Keys : Due(dispatch[k]) = 0 /\ Priced(dispatch[k])
  BY <1>1, DueIs DEF Priced
<1>3. \A b \in Budgets, m \in Months : used[b][m] = 0 /\ reserved[b][m] = 0
  BY DEF Init
<1>4. ASSUME NEW b \in Budgets
      PROVE  Booked(b) = Total([k \in KeysOf(b) |-> Due(dispatch[k])])
  <2> DEFINE f == [m \in Months |-> used[b][m] + reserved[b][m]]
             u == [k \in KeysOf(b) |-> Due(dispatch[k])]
  <2>1. f \in [Months -> Nat] /\ \A m \in Months : f[m] = 0
    BY <1>3
  <2>2. u \in [KeysOf(b) -> Nat] /\ \A k \in KeysOf(b) : u[k] = 0
    BY <1>2, FiniteSums
  <2> HIDE DEF f, u
  <2>3. Total(f) = 0 /\ Total(u) = 0
    BY <2>1, <2>2, TotalOfNothing
  <2> QED BY <2>3 DEF Booked, f, u
<1>5. WithinLimit
  BY <1>3, DispatchAssumption DEF WithinLimit
<1> QED BY <1>2, <1>4, <1>5 DEF AccountInv, UnitsAreAccounted

LEMMA AccountsStep == TypeInv /\ TypeInv' /\ AccountInv /\ [Next]_vars => AccountInv'
<1> SUFFICES ASSUME TypeInv, TypeInv', AccountInv, [Next]_vars PROVE AccountInv'
  OBVIOUS
<1>1. ASSUME NEW g \in Gates, GateNext(g) \/ Crash(g) PROVE AccountStep
  BY <1>1, GateAccounts DEF AccountInv
<1>2. ASSUME NEW k \in Keys, Reconcile(k) \/ GrowsStale(k) PROVE AccountStep
  BY <1>2, ReconcileAccounts
<1>3. ASSUME \/ \E s \in Scans : LeaseLapses(s) \/ WithdrawScan(s) \/ EraseScan(s)
             \/ \E b \in Businesses : GrantConsent(b) \/ RevokeConsent(b)
             \/ MonthTurns
             \/ UNCHANGED vars
      PROVE AccountStep
  BY <1>3 DEF LeaseLapses, WithdrawScan, EraseScan, GrantConsent, RevokeConsent, MonthTurns,
     vars, rows, AccountStep, KeepsAccounts
<1>4. AccountStep
  BY <1>1, <1>2, <1>3 DEF Next
<1> QED BY <1>4, AccountsKept, AccountsMoved DEF AccountStep

LEMMA AccountInvHolds == DispatchSpec => [](TypeInv /\ AccountInv)
  BY InitTypes, TypesStep, InitAccounts, AccountsStep, PTL DEF DispatchSpec

\* Used and reserved units stay within every budget's limit in every month, for
\* any number of keys, attempts and months (incrementReservation).
THEOREM WithinLimitHolds == DispatchSpec => []WithinLimit
<1>1. AccountInv => WithinLimit
  BY DEF AccountInv
<1> QED BY <1>1, AccountInvHolds, PTL

\* Whatever races, dies or comes late, even in another month, the units booked
\* in a budget over all months are those its rows account for.
THEOREM UnitsAreAccountedHolds == DispatchSpec => []UnitsAreAccounted
<1>1. AccountInv => UnitsAreAccounted
  BY DEF AccountInv
<1> QED BY <1>1, AccountInvHolds, PTL

-----------------------------------------------------------------------------
(* What the provider billed, row by row: in one month only, no more than    *)
(* was reserved, and no more than the bill a definite answer quotes.        *)

BilledOnce(k) ==
    /\ \A m \in Months : charged[k][m] <= Units
    /\ \A m, n \in Months : charged[k][m] # 0 /\ charged[k][n] # 0 => m = n

BilledWithin(k, bill) == \A m \in Months : charged[k][m] <= bill

BillInv ==
    /\ \A k \in Keys : BilledOnce(k)
    /\ \A k \in Keys : dispatch[k].status \in {"SUCCEEDED", "FAILED"}
                          => BilledWithin(k, dispatch[k].bill)
    /\ \A g \in Gates : gate[g].at = "answered" /\ gate[g].outcome.status # "AMBIGUOUS"
                          => BilledWithin(gate[g].key, gate[g].outcome.bill)

\* Nothing is billed, answered or settled.
LEMMA BillsKept ==
  ASSUME BillInv, charged' = charged,
         \A k \in Keys : dispatch'[k].status \in {"SUCCEEDED", "FAILED"} =>
            dispatch'[k].status = dispatch[k].status /\ dispatch'[k].bill = dispatch[k].bill,
         \A g \in Gates : gate'[g].at = "answered" => gate'[g] = gate[g]
  PROVE  BillInv'
<1>1. \A k \in Keys : BilledOnce(k)'
  BY DEF BillInv, BilledOnce
<1>2. \A k \in Keys : dispatch'[k].status \in {"SUCCEEDED", "FAILED"}
                          => BilledWithin(k, dispatch[k].bill)'
  BY DEF BillInv, BilledWithin
<1>3. \A g \in Gates : gate'[g].at = "answered" /\ gate'[g].outcome.status # "AMBIGUOUS"
                          => BilledWithin(gate[g].key, gate[g].outcome.bill)'
  BY DEF BillInv, BilledWithin
<1> QED BY <1>1, <1>2, <1>3 DEF BillInv

LEMMA QuietBills ==
  ASSUME BillInv, Quiet
  PROVE  BillInv'
<1>1. \A k \in Keys : dispatch'[k].status \in {"SUCCEEDED", "FAILED"} =>
        dispatch'[k].status = dispatch[k].status /\ dispatch'[k].bill = dispatch[k].bill
  BY DEF Quiet, Still
<1>2. \A g \in Gates : gate'[g].at = "answered" => gate'[g] = gate[g]
  BY DEF Quiet, Recedes
<1> QED BY <1>1, <1>2, BillsKept DEF Quiet

\* The call of g is over: the first bill of its key.
LEMMA BilledBills ==
  ASSUME DInv, BillInv, NEW g \in Gates, gate[g].at = "calling",
         NEW bill \in Amounts, Bills(g, bill), UNCHANGED dispatch,
         \A h \in Gates : h # g => gate'[h] = gate[h],
         \/ gate'[g].at = "over"
         \/ /\ gate'[g].at = "answered"
            /\ gate'[g].key = gate[g].key
            /\ gate'[g].outcome.status # "AMBIGUOUS"
                 => gate'[g].outcome.bill \in Amounts /\ bill <= gate'[g].outcome.bill
  PROVE  BillInv'
<1> DEFINE k == gate[g].key
           m == gate[g].cycle
<1>1. k \in Keys /\ m \in Months
  BY GateOf DEF DInv, GateState, Knows
<1>2. charged' = [charged EXCEPT ![k][m] = @ + bill] /\ charged \in [Keys -> [Months -> Nat]]
  BY DEF Bills, DInv, TypeInv, DispatchTypeOK
<1>3. \A r \in Keys : r # k => charged'[r] = charged[r]
  BY <1>1, <1>2
<1>4. Free(k)
  BY DEF DInv, CallInv
<1>5. bill \in Nat /\ bill <= Units /\ Units \in Nat
  BY DispatchAssumption DEF Amounts
<1>6. charged'[k][m] = bill /\ \A n \in Months : n # m => charged'[k][n] = 0
  <2>1. charged'[k][m] = charged[k][m] + bill /\ charged[k][m] = 0
    BY <1>1, <1>2, <1>4 DEF Free
  <2>2. \A n \in Months : n # m => charged'[k][n] = charged[k][n]
    BY <1>1, <1>2
  <2> QED BY <1>4, <1>5, <2>1, <2>2 DEF Free
<1> HIDE DEF k, m
<1>7. /\ \A n \in Months : charged'[k][n] <= Units
      /\ \A n, j \in Months : charged'[k][n] # 0 /\ charged'[k][j] # 0 => n = j
  <2>1. \A n \in Months : charged'[k][n] <= Units
    BY <1>5, <1>6
  <2>2. \A n, j \in Months : charged'[k][n] # 0 /\ charged'[k][j] # 0 => n = j
    BY <1>6
  <2> QED BY <2>1, <2>2
<1>8. ASSUME NEW r \in Keys PROVE BilledOnce(r)'
  BY <1>3, <1>7 DEF BillInv, BilledOnce
<1>9. dispatch[k].status \in {"SUBMITTED", "AMBIGUOUS"}
  BY DEF DInv, CallInv, AtCall, k
<1>10. ASSUME NEW r \in Keys, dispatch'[r].status \in {"SUCCEEDED", "FAILED"}
       PROVE  BilledWithin(r, dispatch[r].bill)'
  <2>1. r # k
    BY <1>9, <1>10
  <2> QED BY <1>3, <1>10, <2>1 DEF BillInv, BilledWithin
<1>11. ASSUME NEW h \in Gates, gate'[h].at = "answered", gate'[h].outcome.status # "AMBIGUOUS"
       PROVE  BilledWithin(gate[h].key, gate[h].outcome.bill)'
  <2>1. CASE h = g
    <3>1. gate'[g].key = k /\ gate'[g].outcome.bill \in Nat /\ bill <= gate'[g].outcome.bill
      BY <1>11, <2>1, DispatchAssumption DEF Amounts, k
    <3>2. \A n \in Months : charged'[k][n] <= gate'[g].outcome.bill
      BY <1>5, <1>6, <3>1
    <3> QED BY <2>1, <3>1, <3>2 DEF BilledWithin
  <2>2. CASE h # g
    <3>1. gate'[h] = gate[h] /\ gate[h].at = "answered"
      BY <1>11, <2>2
    <3>2. gate[h].key \in Keys /\ gate[h].key # k
      BY <2>2, <3>1, GateOf DEF DInv, Knows, CallInv, AtCall, k
    <3>3. BilledWithin(gate[h].key, gate[h].outcome.bill)
      BY <1>11, <3>1 DEF BillInv
    <3> QED BY <1>3, <3>1, <3>2, <3>3 DEF BilledWithin
  <2> QED BY <2>1, <2>2
<1> QED BY <1>8, <1>10, <1>11 DEF BillInv

LEMMA CallBills ==
  ASSUME DInv, BillInv, NEW g \in Gates,
         \/ ProviderAnswers(g) \/ CallTimesOut(g) \/ AnswerIsInvalid(g)
         \/ (Crash(g) /\ gate[g].at = "calling")
  PROVE  BillInv'
<1>1. gate[g].at = "calling" /\ UNCHANGED dispatch
  BY DEF ProviderAnswers, CallTimesOut, AnswerIsInvalid, Crash, rows
<1>2. CASE ProviderAnswers(g)
  <2>1. PICK status \in {"SUCCEEDED", "FAILED"}, bill \in Amounts, refusal \in BOOLEAN :
          /\ gate' = [gate EXCEPT ![g].at = "answered",
                       ![g].outcome = [status |-> status, bill |-> bill, refusal |-> refusal]]
          /\ Bills(g, bill)
    BY <1>2 DEF ProviderAnswers
  <2> DEFINE o == [status |-> status, bill |-> bill, refusal |-> refusal]
  <2>2. gate' = [gate EXCEPT ![g].at = "answered", ![g].outcome = o] /\ o.bill = bill
    BY <2>1
  <2> HIDE DEF o
  <2>3. /\ gate'[g].at = "answered" /\ gate'[g].key = gate[g].key /\ gate'[g].outcome = o
        /\ \A h \in Gates : h # g => gate'[h] = gate[h]
    BY <2>2, AnsweredIs DEF DInv
  <2>4. bill <= bill
    BY DispatchAssumption DEF Amounts
  <2> QED BY <1>1, <2>1, <2>2, <2>3, <2>4, BilledBills
<1>3. CASE CallTimesOut(g)
  <2>1. PICK bill \in Amounts : Bills(g, bill)
    BY <1>3 DEF CallTimesOut
  <2>2. /\ gate'[g].at = "answered" /\ gate'[g].key = gate[g].key /\ gate'[g].outcome = NoOutcome
        /\ \A h \in Gates : h # g => gate'[h] = gate[h]
    BY <1>3, AnsweredIs DEF DInv, CallTimesOut
  <2>3. NoOutcome.status = "AMBIGUOUS"
    BY DEF NoOutcome
  <2> QED BY <1>1, <2>1, <2>2, <2>3, BilledBills
<1>4. CASE AnswerIsInvalid(g)
  <2> DEFINE o == [status |-> "FAILED", bill |-> Units, refusal |-> FALSE]
  <2>1. PICK bill \in Amounts : Bills(g, bill)
    BY <1>4 DEF AnswerIsInvalid
  <2>2. gate' = [gate EXCEPT ![g].at = "answered", ![g].outcome = o] /\ o.bill = Units
    BY <1>4 DEF AnswerIsInvalid
  <2> HIDE DEF o
  <2>3. /\ gate'[g].at = "answered" /\ gate'[g].key = gate[g].key /\ gate'[g].outcome = o
        /\ \A h \in Gates : h # g => gate'[h] = gate[h]
    BY <2>2, AnsweredIs DEF DInv
  <2>4. Units \in Amounts /\ bill <= Units
    BY DispatchAssumption DEF Amounts
  <2> QED BY <1>1, <2>1, <2>2, <2>3, <2>4, BilledBills
<1>5. CASE Crash(g)
  <2> DEFINE x == [NewGate EXCEPT !.at = "over"]
  <2>1. PICK bill \in Amounts : Bills(g, bill)
    BY <1>1, <1>5 DEF Crash
  <2>2. gate' = [gate EXCEPT ![g] = x] /\ x.at = "over"
    BY <1>5 DEF Crash, Ends, NewGate
  <2> HIDE DEF x
  <2>3. gate'[g].at = "over" /\ \A h \in Gates : h # g => gate'[h] = gate[h]
    BY <2>2 DEF DInv, TypeInv, DispatchTypeOK
  <2> QED BY <1>1, <2>1, <2>3, BilledBills
<1> QED BY <1>2, <1>3, <1>4, <1>5

\* The row takes over the bill of the answer.
LEMMA SettleBills ==
  ASSUME DInv, BillInv, NEW g \in Gates, Settle(g)
  PROVE  BillInv'
<1> DEFINE k == gate[g].key
           o == gate[g].outcome
           x == Settled(dispatch[k], o)
<1>1. gate[g] \in GateState /\ Knows(gate[g]) /\ gate[g].at = "answered"
  BY GateOf DEF DInv, Settle
<1>2. k \in Keys /\ o \in Outcome /\ dispatch[k] \in DispatchRow
  BY <1>1, RowOf DEF DInv, Knows, GateState
<1>3. dispatch' = [dispatch EXCEPT ![k] = x] /\ charged' = charged
  BY DEF Settle, DInv, TypeInv, DispatchTypeOK
<1>4. x.status = o.status /\ x.bill = o.bill
  BY <1>2, SettledType
<1> HIDE DEF x
<1>5. dispatch'[k] = x /\ \A r \in Keys : r # k => dispatch'[r] = dispatch[r]
  BY <1>2, <1>3 DEF DInv, TypeInv, DispatchTypeOK
<1>6. \A h \in Gates : Recedes(h)
  BY LeavesRecedes, GoesRecedes DEF DInv, Settle
<1>7. gate'[g].at # "answered"
  <2> DEFINE y == [NewGate EXCEPT !.at = "done", !.key = k]
             z == [gate[g] EXCEPT !.at = "marking"]
  <2>1. y.at = "done" /\ z.at = "marking"
    BY <1>1 DEF NewGate, GateState
  <2>2. gate' = [gate EXCEPT ![g] = y] \/ gate' = [gate EXCEPT ![g] = z]
    BY DEF Settle, Leaves, Goes, DInv, TypeInv, DispatchTypeOK
  <2> HIDE DEF y, z
  <2> QED BY <2>1, <2>2 DEF DInv, TypeInv, DispatchTypeOK
<1>8. \A r \in Keys : BilledOnce(r)'
  BY <1>3 DEF BillInv, BilledOnce
<1>9. ASSUME NEW r \in Keys, dispatch'[r].status \in {"SUCCEEDED", "FAILED"}
      PROVE  BilledWithin(r, dispatch[r].bill)'
  <2>1. CASE r = k
    <3>1. o.status # "AMBIGUOUS" /\ dispatch'[r].bill = o.bill
      BY <1>4, <1>5, <1>9, <2>1
    <3>2. BilledWithin(k, o.bill)
      BY <1>1, <3>1 DEF BillInv
    <3> QED BY <1>3, <2>1, <3>1, <3>2 DEF BilledWithin
  <2>2. CASE r # k
    BY <1>3, <1>5, <1>9, <2>2 DEF BillInv, BilledWithin
  <2> QED BY <2>1, <2>2
<1>10. ASSUME NEW h \in Gates, gate'[h].at = "answered", gate'[h].outcome.status # "AMBIGUOUS"
       PROVE  BilledWithin(gate[h].key, gate[h].outcome.bill)'
  <2>1. gate'[h] = gate[h]
    BY <1>6, <1>10 DEF Recedes
  <2> QED BY <1>3, <1>10, <2>1 DEF BillInv, BilledWithin
<1> QED BY <1>8, <1>9, <1>10 DEF BillInv

\* A reservation is made, shared or submitted: no row is settled, no call answered.
LEMMA ApproachBills ==
  ASSUME DInv, BillInv, NEW g \in Gates,
         \/ Reserve(g) \/ Submit(g)
         \/ (ReadExisting(g) \/ ReserveRaced(g)) /\ Holding(g, dispatch[gate[g].key])
  PROVE  BillInv'
<1> DEFINE k == gate[g].key
<1>1. gate[g] \in GateState /\ Knows(gate[g]) /\ k \in Keys
  BY GateOf DEF DInv, Knows, Reserve, Submit, ReadExisting, ReserveRaced
<1>2. /\ dispatch[k] \in DispatchRow /\ BusinessOf[k] \in Businesses
      /\ gate[g].cycle \in Months
  BY <1>1, RowOf, DispatchAssumption DEF DInv, GateState
<1>3. \A h \in Gates : gate'[h].at = "answered" => gate'[h] = gate[h]
  <2>1. CASE Submit(g)
    <3> DEFINE y == [gate[g] EXCEPT !.at = "calling"]
    <3>1. y.at = "calling"
      BY <1>1 DEF GateState
    <3>2. gate' = [gate EXCEPT ![g] = y]
      BY <2>1 DEF Submit, Goes, DInv, TypeInv, DispatchTypeOK
    <3> HIDE DEF y
    <3> QED BY <3>1, <3>2 DEF DInv, TypeInv, DispatchTypeOK
  <2>2. CASE Reserve(g)
    <3> DEFINE new == NewReservation(BusinessOf[k], gate[g].cycle)
    <3>1. ConsentForReserve(BusinessOf[k]) /\ Holding(g, new)
      BY <2>2 DEF Reserve
    <3>2. new \in DispatchRow
      BY <1>2, <3>1, NewReservationType DEF DInv
    <3> HIDE DEF new
    <3>3. /\ gate'[g].at = "ready"
          /\ \A h \in Gates : h # g => gate'[h] = gate[h]
      BY <3>1, <3>2, HoldingIs DEF DInv
    <3> QED BY <3>3
  <2>3. CASE Holding(g, dispatch[k])
    BY <1>2, <2>3, HoldingIs DEF DInv
  <2> QED BY <2>1, <2>2, <2>3
<1>4. PICK x : /\ dispatch' = dispatch \/ dispatch' = [dispatch EXCEPT ![k] = x]
               /\ x.status \in {"RESERVED", "SUBMITTED"}
  <2>1. CASE Reserve(g)
    <3> DEFINE new == NewReservation(BusinessOf[k], gate[g].cycle)
    <3>1. ConsentForReserve(BusinessOf[k]) /\ dispatch' = [dispatch EXCEPT ![k] = new]
      BY <2>1 DEF Reserve
    <3>2. new.status = "RESERVED"
      BY <1>2, <3>1, NewReservationType DEF DInv
    <3> HIDE DEF new
    <3> QED BY <3>1, <3>2
  <2>2. CASE Submit(g)
    <3> DEFINE y == [dispatch[k] EXCEPT !.status = "SUBMITTED", !.aged = FALSE]
    <3>1. y.status = "SUBMITTED"
      BY <1>2 DEF DispatchRow
    <3>2. dispatch' = [dispatch EXCEPT ![k] = y]
      BY <2>2 DEF Submit, DInv, TypeInv, DispatchTypeOK
    <3> HIDE DEF y
    <3> QED BY <3>1, <3>2
  <2>3. CASE ReadExisting(g) \/ ReserveRaced(g)
    <3>1. dispatch' = dispatch
      BY <2>3 DEF ReadExisting, ReserveRaced, rows
    <3>2. [status |-> "RESERVED"].status = "RESERVED"
      OBVIOUS
    <3> QED BY <3>1, <3>2
  <2> QED BY <2>1, <2>2, <2>3
<1>5. \A r \in Keys : dispatch'[r].status \in {"SUCCEEDED", "FAILED"} => dispatch'[r] = dispatch[r]
  BY <1>1, <1>4 DEF DInv, TypeInv, DispatchTypeOK
<1>6. charged' = charged
  BY DEF Reserve, Submit, ReadExisting, ReserveRaced
<1> QED BY <1>3, <1>5, <1>6, BillsKept

LEMMA InitBills == Init => BillInv
<1> SUFFICES ASSUME Init PROVE BillInv
  OBVIOUS
<1>1. \A k \in Keys, m \in Months : charged[k][m] = 0
  BY DEF Init
<1>2. \A k \in Keys : BilledOnce(k)
  BY <1>1, DispatchAssumption DEF BilledOnce
<1>3. \A k \in Keys : dispatch[k].status = "NONE"
  BY DEF Init, NoDispatch
<1>4. \A g \in Gates : gate[g].at = "out"
  BY DEF Init, NewGate
<1> QED BY <1>2, <1>3, <1>4 DEF BillInv

LEMMA GateBills ==
  ASSUME DInv, BillInv, NEW g \in Gates, GateNext(g) \/ Crash(g)
  PROVE  BillInv'
<1> USE DEF DInv
<1>1. ASSUME NEW k \in Keys, ClaimScan(g, k) PROVE BillInv'
  BY <1>1, ClaimScanQuiet, QuietBills
<1>2. CASE ReadExisting(g)
  BY <1>2, ApproachBills, ReadExistingQuiet, QuietBills
<1>3. CASE ReserveRaced(g)
  BY <1>3, ApproachBills DEF ReserveRaced
<1>4. CASE \/ Refused(g) \/ ReserveFails(g) \/ EvidenceFails(g) \/ SubmitRaced(g)
           \/ SubmitRefused(g) \/ CancelFails(g) \/ SettleFails(g)
  BY <1>4, TurnQuiet, QuietBills
<1>5. CASE CancelReservation(g) \/ MarkAmbiguous(g)
  BY <1>5, CancelQuiet, MarkQuiet, QuietBills
<1>6. CASE \/ EndAttempt(g) \/ Heartbeat(g) \/ (Crash(g) /\ gate[g].at # "calling")
  BY <1>6, EndQuiet, QuietBills
<1>7. CASE \/ ProviderAnswers(g) \/ CallTimesOut(g) \/ AnswerIsInvalid(g)
           \/ (Crash(g) /\ gate[g].at = "calling")
  BY <1>7, CallBills
<1>8. CASE Reserve(g) \/ Submit(g) \/ Settle(g)
  BY <1>8, ApproachBills, SettleBills
<1> QED BY <1>1, <1>2, <1>3, <1>4, <1>5, <1>6, <1>7, <1>8 DEF GateNext

LEMMA BillsStep == DInv /\ BillInv /\ [Next]_vars => BillInv'
<1> SUFFICES ASSUME DInv, BillInv, [Next]_vars PROVE BillInv'
  OBVIOUS
<1>1. ASSUME NEW g \in Gates, GateNext(g) \/ Crash(g) PROVE BillInv'
  BY <1>1, GateBills
<1>2. ASSUME NEW k \in Keys, Reconcile(k) \/ GrowsStale(k) PROVE BillInv'
  BY <1>2, ReconcileQuiet, QuietBills DEF DInv
<1>3. ASSUME NEW b \in Businesses, GrantConsent(b) \/ RevokeConsent(b) PROVE BillInv'
  <2>1. UNCHANGED <<dispatch, gate, charged>>
    BY <1>3 DEF GrantConsent, RevokeConsent, rows
  <2> QED BY <2>1, BillsKept
<1>4. CASE \/ \E s \in Scans : LeaseLapses(s) \/ WithdrawScan(s) \/ EraseScan(s)
           \/ MonthTurns
           \/ UNCHANGED vars
  BY <1>4, OutsideQuiet, QuietBills
<1> QED BY <1>1, <1>2, <1>3, <1>4 DEF Next

LEMMA BillInvHolds == DispatchSpec => [](DInv /\ AccountInv /\ BillInv)
<1>1. DInv => TypeInv
  BY DEF DInv
<1> QED BY <1>1, InitInv, InvStep, InitAccounts, AccountsStep, InitBills, BillsStep, PTL
    DEF DispatchSpec

\* Of every row, no more was billed than it accounts for.
LEMMA DueCovers ==
  ASSUME DInv, AccountInv, BillInv, NEW k \in Keys
  PROVE  Due(dispatch[k]) \in Nat /\ BilledWithin(k, Due(dispatch[k]))
<1>1. dispatch[k] \in DispatchRow
  BY RowOf DEF DInv
<1>2. Due(dispatch[k]) \in Nat
  BY <1>1, DueType DEF AccountInv
<1>3. dispatch[k].status \in Status
  BY <1>1 DEF DispatchRow
<1>4. CASE dispatch[k].status \in {"SUCCEEDED", "FAILED"}
  BY <1>2, <1>4, DueIs DEF BillInv
<1>5. CASE dispatch[k].status \in {"RESERVED", "SUBMITTED", "AMBIGUOUS"}
  <2>1. Due(dispatch[k]) = Units
    BY <1>5, DueIs
  <2> QED BY <1>2, <2>1 DEF BillInv, BilledOnce, BilledWithin
<1>6. CASE dispatch[k].status \in {"NONE", "CANCELLED"}
  <2>1. Free(k)
    BY <1>6 DEF DInv, CallInv, Unpaid
  <2> QED BY <1>2, <2>1 DEF Free, BilledWithin
<1> QED BY <1>3, <1>4, <1>5, <1>6 DEF Status

LEMMA CoveredSpend ==
  ASSUME DInv, AccountInv, BillInv, NEW b \in Budgets
  PROVE  Billed(b) <= Booked(b)
<1> DEFINE D == KeysOf(b)
           f == [p \in D \X Months |-> charged[p[1]][p[2]]]
           u == [k \in D |-> Due(dispatch[k])]
<1>1. IsFiniteSet(D) /\ IsFiniteSet(Months) /\ D \subseteq Keys
  BY FiniteSums
<1>2. f \in [D \X Months -> Nat]
  <2>1. ASSUME NEW p \in D \X Months PROVE charged[p[1]][p[2]] \in Nat
    <3>1. p[1] \in Keys /\ p[2] \in Months
      BY <1>1
    <3> QED BY <3>1 DEF DInv, TypeInv, DispatchTypeOK
  <2> QED BY <2>1
<1>3. u \in [D -> Nat]
  BY <1>1, DueCovers
<1>4. \A k \in D, m \in Months : f[<<k, m>>] = charged[k][m]
  OBVIOUS
<1>5. \A k \in D, m \in Months : f[<<k, m>>] <= u[k]
  BY <1>1, <1>4, DueCovers DEF BilledWithin
<1>6. \A k \in D, m, n \in Months : f[<<k, m>>] # 0 /\ f[<<k, n>>] # 0 => m = n
  BY <1>1, <1>4 DEF BillInv, BilledOnce
<1>7. Billed(b) = Total(f) /\ Booked(b) = Total(u)
  BY DEF Billed, AccountInv, UnitsAreAccounted
<1> HIDE DEF D, f, u
<1>8. Total(f) <= Total(u)
  BY <1>1, <1>2, <1>3, <1>5, <1>6, TotalOfRows
<1> QED BY <1>7, <1>8

\* Whatever was billed to a budget, by calls whose answer was lost, late or
\* invalid as well, is covered by what it booked, for any number of keys,
\* attempts and months (releaseOrConsume, invalidOutcome, ambiguousOutcome).
THEOREM SpendIsCoveredHolds == DispatchSpec => []SpendIsCovered
<1>1. DInv /\ AccountInv /\ BillInv => SpendIsCovered
  BY CoveredSpend DEF SpendIsCovered
<1> QED BY <1>1, BillInvHolds, PTL

\* Within a month nothing makes a cancellation, a settlement or the reconciler
\* fail for want of the units it releases; over a month's end something may.
THEOREM NothingIsStuckHolds == MaxMonth = 1 /\ DispatchSpec => []NothingIsStuck
<1> SUFFICES ASSUME MaxMonth = 1 PROVE DispatchSpec => []NothingIsStuck
  OBVIOUS
<1>1. TypeInv /\ BooksBalance => NothingIsStuck
  <2> SUFFICES ASSUME TypeInv, BooksBalance, NEW k \in Keys, dispatch[k].status \in Outstanding,
                      NEW b \in BudgetsOf[k]
               PROVE  reserved[b][dispatch[k].cycle] >= Units
    BY DEF NothingIsStuck, Releasable
  <2> DEFINE m == dispatch[k].cycle
             n == Cardinality(OutstandingIn(b, m))
  <2>1. m \in Months /\ b \in Budgets
    BY RowOf, DispatchAssumption DEF DispatchRow
  <2>2. k \in OutstandingIn(b, m)
    BY DEF OutstandingIn
  <2>3. n \in Nat /\ n # 0
    BY <2>2, FiniteCount, FS_EmptySet
  <2>4. reserved[b][m] = Units * n
    BY <2>1 DEF BooksBalance
  <2>5. Units \in Nat
    BY DispatchAssumption
  <2> HIDE DEF m, n
  <2>6. PICK j \in Nat : n = j + 1
    BY <2>3
  <2>7. Units * n = Units * j + 1 * Units /\ Units * j \in Nat
    BY <2>5, <2>6, UnitsDistribute
  <2> QED BY <2>4, <2>5, <2>7 DEF m
<1> QED BY <1>1, TypeInvHolds, BooksBalanceHolds, PTL

-----------------------------------------------------------------------------
(* The ledger of the provider, step by step.                               *)

LInv == DInv /\ AccountInv /\ BillInv

Promised == [Ledger!LedgerNext]_(Ledger!ledger)

LEMMA StageIs ==
  ASSUME NEW x
  PROVE  /\ x.status \in {"NONE", "CANCELLED"} => Stage(x) = "idle"
         /\ x.status = "FAILED" /\ x.bill = 0 => Stage(x) = "idle"
         /\ x.status = "RESERVED" => Stage(x) = "held"
         /\ x.status = "SUBMITTED" => Stage(x) = "sent"
         /\ x.status = "AMBIGUOUS" => Stage(x) = "doubtful"
         /\ x.status = "SUCCEEDED" \/ (x.status = "FAILED" /\ x.bill # 0) => Stage(x) = "closed"
  BY DEF Stage

\* A sum with one term at most is that term.
LEMMA TotalOfOne ==
  ASSUME NEW D, IsFiniteSet(D), NEW f \in [D -> Nat], NEW x \in D,
         \A y \in D : y # x => f[y] = 0
  PROVE  Total(f) = f[x]
<1> DEFINE g == [y \in D |-> 0]
<1>1. g \in [D -> Nat] /\ (\A y \in D : g[y] = 0) /\ \A y \in D : y # x => g[y] = f[y]
  OBVIOUS
<1> HIDE DEF g
<1>2. Total(g) = 0
  BY <1>1, TotalOfNothing
<1>3. Total(g) - g[x] = Total(f) - f[x]
  BY <1>1, TotalWrite
<1>4. Total(f) \in Nat /\ f[x] \in Nat
  BY TotalType
<1>5. g[x] = 0
  BY <1>1
<1>6. 0 - 0 = Total(f) - f[x]
  BY <1>2, <1>3, <1>5
<1> QED BY <1>4, <1>6

LEMMA ChargeWithin ==
  ASSUME LInv, NEW k \in Keys, NEW bill \in Nat, BilledWithin(k, bill)
  PROVE  Total(charged[k]) \in Nat /\ Total(charged[k]) <= bill
<1>1. charged[k] \in [Months -> Nat]
  BY DEF LInv, DInv, TypeInv, DispatchTypeOK
<1>2. IsFiniteSet(Months)
  BY FiniteSums
<1>3. CASE \A m \in Months : charged[k][m] = 0
  BY <1>1, <1>3, TotalOfNothing
<1>4. CASE \E m \in Months : charged[k][m] # 0
  <2>1. PICK m \in Months : charged[k][m] # 0
    BY <1>4
  <2>2. \A n \in Months : n # m => charged[k][n] = 0
    BY <2>1 DEF LInv, BillInv, BilledOnce
  <2>3. Total(charged[k]) = charged[k][m]
    BY <1>1, <1>2, <2>2, TotalOfOne
  <2> QED BY <1>1, <2>3 DEF BilledWithin
<1> QED BY <1>3, <1>4

LEMMA CostType ==
  ASSUME LInv
  PROVE  \A k \in Keys : Due(dispatch[k]) \in Nat
<1> SUFFICES ASSUME NEW k \in Keys PROVE Due(dispatch[k]) \in Nat
  OBVIOUS
<1>1. dispatch[k] \in DispatchRow /\ Priced(dispatch[k])
  BY RowOf DEF LInv, DInv, AccountInv
<1> QED BY <1>1, DueType

\* What is booked changes with the rows, whichever months the units are in.
LEMMA BookedMoves ==
  ASSUME LInv, LInv', NEW k \in Keys, NEW x, dispatch' = [dispatch EXCEPT ![k] = x],
         NEW b \in Budgets
  PROVE  /\ Booked(b) \in Nat
         /\ Booked(b)' = IF b \in BudgetsOf[k] THEN Booked(b) - Due(dispatch[k]) + Due(x)
                                               ELSE Booked(b)
<1> DEFINE D == KeysOf(b)
           u == [r \in D |-> Due(dispatch[r])]
           v == [r \in D |-> Due(dispatch'[r])]
<1>1. D \subseteq Keys /\ IsFiniteSet(D)
  BY FiniteSums
<1>2. dispatch'[k] = x /\ \A r \in Keys : r # k => dispatch'[r] = dispatch[r]
  BY DEF LInv, DInv, TypeInv, DispatchTypeOK
<1>3. (\A r \in Keys : Due(dispatch[r]) \in Nat) /\ \A r \in Keys : Due(dispatch'[r]) \in Nat
  <2>1. \A r \in Keys : dispatch'[r] \in DispatchRow /\ Priced(dispatch'[r])
    BY DEF LInv, DInv, TypeInv, DispatchTypeOK, AccountInv
  <2> QED BY <2>1, CostType, DueType
<1>4. u \in [D -> Nat] /\ v \in [D -> Nat]
  BY <1>1, <1>3
<1>5. Booked(b) = Total(u)
  BY DEF LInv, AccountInv, UnitsAreAccounted
<1>6. Booked(b)' = Total(v)
  BY DEF LInv, AccountInv, UnitsAreAccounted, KeysOf
<1>7. CASE b \in BudgetsOf[k]
  <2>1. k \in D
    BY <1>7 DEF KeysOf
  <2>2. \A r \in D : r # k => v[r] = u[r]
    BY <1>1, <1>2
  <2>3. u[k] = Due(dispatch[k]) /\ v[k] = Due(x) /\ u[k] \in Nat /\ v[k] \in Nat
    BY <1>2, <1>4, <2>1
  <2> HIDE DEF D, u, v
  <2>4. Total(v) - v[k] = Total(u) - u[k] /\ Total(u) \in Nat /\ Total(v) \in Nat
    BY <1>1, <1>4, <2>1, <2>2, TotalType, TotalWrite
  <2> QED BY <1>5, <1>6, <1>7, <2>3, <2>4
<1>8. CASE b \notin BudgetsOf[k]
  <2>1. v = u
    BY <1>1, <1>2, <1>8 DEF KeysOf
  <2> HIDE DEF D, u, v
  <2>2. Total(u) \in Nat
    BY <1>1, <1>4, TotalType
  <2> QED BY <1>5, <1>6, <1>8, <2>1, <2>2
<1> QED BY <1>7, <1>8

LEMMA OneWritten ==
  ASSUME NEW S, NEW f, NEW g, f = [r \in S |-> f[r]], g = [r \in S |-> g[r]],
         NEW k \in S, NEW v, g[k] = v, \A r \in S : r # k => g[r] = f[r]
  PROVE  g = [f EXCEPT ![k] = v]
  OBVIOUS

LEMMA RowTurns ==
  ASSUME LInv, LInv', NEW k \in Keys, NEW x, dispatch' = [dispatch EXCEPT ![k] = x],
         charged' = charged
  PROVE  /\ Ledger!Turns(k, Stage(dispatch[k]), Stage(x))
         /\ Ledger!Costs(k, Due(x))
<1> DEFINE stages == [r \in Keys |-> Stage(dispatch[r])]
           newStages == [r \in Keys |-> Stage(dispatch'[r])]
           costs == [r \in Keys |-> Due(dispatch[r])]
           newCosts == [r \in Keys |-> Due(dispatch'[r])]
<1>1. dispatch'[k] = x /\ \A r \in Keys : r # k => dispatch'[r] = dispatch[r]
  BY DEF LInv, DInv, TypeInv, DispatchTypeOK
<1>2. newStages = [stages EXCEPT ![k] = Stage(x)]
  <2>1. newStages[k] = Stage(x) /\ \A r \in Keys : r # k => newStages[r] = stages[r]
    BY <1>1
  <2>2. stages = [r \in Keys |-> stages[r]] /\ newStages = [r \in Keys |-> newStages[r]]
    OBVIOUS
  <2> HIDE DEF stages, newStages
  <2> QED BY <2>1, <2>2, OneWritten
<1>3. newCosts = [costs EXCEPT ![k] = Due(x)]
  <2>1. newCosts[k] = Due(x) /\ \A r \in Keys : r # k => newCosts[r] = costs[r]
    BY <1>1
  <2>2. costs = [r \in Keys |-> costs[r]] /\ newCosts = [r \in Keys |-> newCosts[r]]
    OBVIOUS
  <2> HIDE DEF costs, newCosts
  <2> QED BY <2>1, <2>2, OneWritten
<1>4. stages[k] = Stage(dispatch[k]) /\ costs[k] = Due(dispatch[k])
  OBVIOUS
<1>5. \A b \in Budgets :
        Booked(b)' = IF b \in BudgetsOf[k] THEN Booked(b) - costs[k] + Due(x) ELSE Booked(b)
  BY <1>4, BookedMoves
<1>6. Ledger!Turns(k, Stage(dispatch[k]), Stage(x))
  BY <1>2, <1>4 DEF Ledger!Turns
<1>7. Ledger!Costs(k, Due(x))
  BY <1>3, <1>5 DEF Ledger!Costs
<1> QED BY <1>6, <1>7

LEMMA RowStands ==
  ASSUME LInv, LInv', NEW k \in Keys, NEW x, dispatch' = [dispatch EXCEPT ![k] = x],
         Due(x) = Due(dispatch[k])
  PROVE  /\ [r \in Keys |-> Due(dispatch'[r])] = [r \in Keys |-> Due(dispatch[r])]
         /\ [b \in Budgets |-> Booked(b)'] = [b \in Budgets |-> Booked(b)]
<1>1. dispatch'[k] = x /\ \A r \in Keys : r # k => dispatch'[r] = dispatch[r]
  BY DEF LInv, DInv, TypeInv, DispatchTypeOK
<1>2. [r \in Keys |-> Due(dispatch'[r])] = [r \in Keys |-> Due(dispatch[r])]
  BY <1>1
<1>3. ASSUME NEW b \in Budgets PROVE Booked(b)' = Booked(b)
  <2>1. Due(dispatch[k]) \in Nat
    BY CostType
  <2>2. /\ Booked(b) \in Nat
        /\ Booked(b)' = IF b \in BudgetsOf[k] THEN Booked(b) - Due(dispatch[k]) + Due(x)
                                              ELSE Booked(b)
    BY BookedMoves
  <2> QED BY <2>1, <2>2
<1> QED BY <1>2, <1>3

LEMMA LedgerKept ==
  ASSUME LInv, LInv', UNCHANGED <<dispatch, charged>>
  PROVE  Promised
<1>1. \A b \in Budgets : Booked(b)' = Booked(b)
  BY DEF LInv, AccountInv, UnitsAreAccounted, KeysOf
<1> QED BY <1>1 DEF Promised, Ledger!ledger

LEMMA HoldRefines ==
  ASSUME LInv, LInv', NEW k \in Keys, NEW x, dispatch' = [dispatch EXCEPT ![k] = x],
         charged' = charged, Unpaid(dispatch[k]), dispatch[k].status # "RESERVED",
         x.status = "RESERVED"
  PROVE  Promised
<1>1. Stage(dispatch[k]) = "idle" /\ Stage(x) = "held" /\ Due(x) = Units
  BY StageIs, DueIs DEF Unpaid
<1>2. Ledger!Turns(k, "idle", "held") /\ Ledger!Costs(k, Units)
  BY <1>1, RowTurns
<1> QED BY <1>2 DEF Promised, Ledger!LedgerNext, Ledger!Hold

LEMMA LetGoRefines ==
  ASSUME LInv, LInv', NEW k \in Keys, NEW x, dispatch' = [dispatch EXCEPT ![k] = x],
         charged' = charged, dispatch[k].status = "RESERVED", x.status = "CANCELLED"
  PROVE  Promised
<1>1. Stage(dispatch[k]) = "held" /\ Stage(x) = "idle" /\ Due(x) = 0
  BY StageIs, DueIs
<1>2. Ledger!Turns(k, "held", "idle") /\ Ledger!Costs(k, 0)
  BY <1>1, RowTurns
<1> QED BY <1>2 DEF Promised, Ledger!LedgerNext, Ledger!LetGo

LEMMA SendRefines ==
  ASSUME LInv, LInv', NEW k \in Keys, NEW x, dispatch' = [dispatch EXCEPT ![k] = x],
         charged' = charged,
         \/ dispatch[k].status = "RESERVED" /\ x.status = "SUBMITTED"
         \/ dispatch[k].status = "SUBMITTED" /\ x.status = "AMBIGUOUS"
         \/ dispatch[k].status = x.status /\ dispatch[k].bill = x.bill
  PROVE  Promised
<1>1. dispatch[k].status \in Status
  BY RowOf DEF LInv, DInv, DispatchRow
<1>2. Due(x) = Due(dispatch[k])
  BY <1>1, DueIs DEF Status
<1>3. /\ [r \in Keys |-> Due(dispatch'[r])] = [r \in Keys |-> Due(dispatch[r])]
      /\ [b \in Budgets |-> Booked(b)'] = [b \in Budgets |-> Booked(b)]
  BY <1>2, RowStands
<1>4. CASE dispatch[k].status = "RESERVED" /\ x.status = "SUBMITTED"
  <2>1. Ledger!Turns(k, "held", "sent")
    BY <1>4, StageIs, RowTurns
  <2> QED BY <1>3, <2>1 DEF Promised, Ledger!LedgerNext, Ledger!Send
<1>5. CASE dispatch[k].status = "SUBMITTED" /\ x.status = "AMBIGUOUS"
  <2>1. Ledger!Turns(k, "sent", "doubtful")
    BY <1>5, StageIs, RowTurns
  <2> QED BY <1>3, <2>1 DEF Promised, Ledger!LedgerNext, Ledger!Doubt
<1>6. CASE dispatch[k].status = x.status /\ dispatch[k].bill = x.bill
  <2>1. Stage(x) = Stage(dispatch[k])
    BY <1>1, <1>6, StageIs DEF Status
  <2>2. dispatch'[k] = x /\ \A r \in Keys : r # k => dispatch'[r] = dispatch[r]
    BY DEF LInv, DInv, TypeInv, DispatchTypeOK
  <2>3. [r \in Keys |-> Stage(dispatch'[r])] = [r \in Keys |-> Stage(dispatch[r])]
    BY <2>1, <2>2
  <2> QED BY <1>3, <2>3 DEF Promised, Ledger!ledger
<1> QED BY <1>4, <1>5, <1>6

LEMMA SettleRefines ==
  ASSUME LInv, LInv', NEW k \in Keys, NEW x, dispatch' = [dispatch EXCEPT ![k] = x],
         charged' = charged, dispatch[k].status = "SUBMITTED",
         x.status \in {"SUCCEEDED", "FAILED"}, x.bill \in Amounts, BilledWithin(k, x.bill)
  PROVE  Promised
<1> DEFINE units == x.bill
           charges == [r \in Keys |-> Total(charged[r])]
<1>1. units \in Nat /\ units <= Units /\ Units \in Nat
  BY DispatchAssumption DEF Amounts
<1>2. charges[k] \in Nat /\ charges[k] <= units
  BY <1>1, ChargeWithin
<1>3. units \in charges[k] .. Units
  BY <1>1, <1>2
<1>4. Due(x) = units
  BY DueIs
<1>5. Ledger!Costs(k, units)
  BY <1>4, RowTurns
<1>6. Ledger!Turns(k, "sent", "closed") \/ (units = 0 /\ Ledger!Turns(k, "sent", "idle"))
  BY StageIs, RowTurns
<1> HIDE DEF units
<1>7. Ledger!Settle(k)
  BY <1>3, <1>5, <1>6 DEF Ledger!Settle
<1> QED BY <1>7 DEF Promised, Ledger!LedgerNext

\* The only bill a key gets, of a call that is held and sent.
LEMMA BillRefines ==
  ASSUME LInv, LInv', NEW g \in Gates, gate[g].at = "calling", NEW bill \in Amounts,
         Bills(g, bill), UNCHANGED dispatch
  PROVE  Promised
<1> DEFINE k == gate[g].key
           m == gate[g].cycle
           charges == [r \in Keys |-> Total(charged[r])]
           newCharges == [r \in Keys |-> Total(charged'[r])]
<1>1. k \in Keys /\ m \in Months
  BY GateOf DEF LInv, DInv, GateState, Knows
<1>2. charged' = [charged EXCEPT ![k][m] = @ + bill] /\ charged \in [Keys -> [Months -> Nat]]
  BY DEF Bills, LInv, DInv, TypeInv, DispatchTypeOK
<1>3. bill \in Nat /\ bill <= Units /\ Units \in Nat
  BY DispatchAssumption DEF Amounts
<1>4. Free(k) /\ Stage(dispatch[k]) \in {"sent", "doubtful"}
  BY StageIs DEF LInv, DInv, CallInv, AtCall
<1>5. /\ charged'[k] \in [Months -> Nat] /\ charged'[k][m] = bill
      /\ \A n \in Months : n # m => charged'[k][n] = 0
      /\ \A r \in Keys : r # k => charged'[r] = charged[r]
  <2> DEFINE f == [charged[k] EXCEPT ![m] = charged[k][m] + bill]
  <2>1. charged'[k] = f /\ \A r \in Keys : r # k => charged'[r] = charged[r]
    BY <1>1, <1>2
  <2>2. charged[k] \in [Months -> Nat] /\ charged[k][m] = 0
    BY <1>1, <1>2, <1>4 DEF Free
  <2>3. f[m] = bill
    BY <1>1, <1>3, <2>2
  <2>4. \A n \in Months : n # m => f[n] = 0
    BY <1>4, <2>2 DEF Free
  <2>5. f \in [Months -> Nat]
    BY <1>1, <1>3, <2>2
  <2> QED BY <2>1, <2>3, <2>4, <2>5
<1> HIDE DEF k, m
<1>6. Total(charged'[k]) = bill
  BY <1>1, <1>5, FiniteSums, TotalOfOne
<1>7. Total(charged[k]) = 0
  BY <1>1, <1>2, <1>4, TotalOfNothing DEF Free
<1>8. newCharges = [charges EXCEPT ![k] = bill]
  <2>1. newCharges[k] = bill /\ \A r \in Keys : r # k => newCharges[r] = charges[r]
    BY <1>1, <1>5, <1>6
  <2>2. charges = [r \in Keys |-> charges[r]] /\ newCharges = [r \in Keys |-> newCharges[r]]
    OBVIOUS
  <2> HIDE DEF charges, newCharges
  <2> QED BY <1>1, <2>1, <2>2, OneWritten
<1>9. /\ [r \in Keys |-> Stage(dispatch'[r])] = [r \in Keys |-> Stage(dispatch[r])]
      /\ [r \in Keys |-> Due(dispatch'[r])] = [r \in Keys |-> Due(dispatch[r])]
      /\ [b \in Budgets |-> Booked(b)'] = [b \in Budgets |-> Booked(b)]
  <2>1. \A b \in Budgets : Booked(b)' = Booked(b)
    BY DEF LInv, AccountInv, UnitsAreAccounted, KeysOf
  <2> QED BY <2>1
<1>10. CASE bill = 0
  <2>1. newCharges = charges
    <3>1. \A r \in Keys : Total(charged'[r]) = Total(charged[r])
      BY <1>5, <1>6, <1>7, <1>10
    <3> QED BY <3>1
  <2> QED BY <1>9, <2>1 DEF Promised, Ledger!ledger
<1>11. CASE bill # 0
  <2>1. bill \in 1 .. Units
    BY <1>3, <1>11
  <2>2. charges[k] = 0
    BY <1>1, <1>7
  <2>3. Ledger!Bill(k)
    BY <1>1, <1>4, <1>8, <1>9, <2>1, <2>2 DEF Ledger!Bill
  <2> QED BY <1>1, <2>3 DEF Promised, Ledger!LedgerNext
<1> QED BY <1>10, <1>11

LEMMA GateRefines ==
  ASSUME LInv, LInv', NEW g \in Gates, GateNext(g) \/ Crash(g)
  PROVE  Promised
<1> DEFINE k == gate[g].key
           o == gate[g].outcome
<1>1. TypeInv /\ gate[g] \in GateState /\ Knows(gate[g]) /\ o \in Outcome
  BY GateOf DEF LInv, DInv, GateState
<1>2. ASSUME gate[g].at \in {"reserving", "ready", "cancelling", "answered", "marking"}
      PROVE  k \in Keys /\ dispatch[k] \in DispatchRow /\ BusinessOf[k] \in Businesses
  BY <1>1, <1>2, RowOf, DispatchAssumption DEF Knows
<1>3. CASE Reserve(g)
  <2>1. gate[g].at = "reserving" /\ gate[g].rearm \in {"NONE", "CANCELLED", "FAILED"}
    BY <1>1, <1>3 DEF Reserve, Knows
  <2>2. k \in Keys /\ BusinessOf[k] \in Businesses /\ gate[g].cycle \in Months
    BY <1>1, <1>2, <2>1 DEF GateState
  <2>3. NewReservation(BusinessOf[k], gate[g].cycle).status = "RESERVED"
    BY <1>1, <1>3, <2>2, NewReservationType DEF Reserve
  <2>4. Unpaid(dispatch[k]) /\ dispatch[k].status # "RESERVED"
    BY <1>3, <2>1 DEF Reserve, Unpaid
  <2>5. /\ dispatch' = [dispatch EXCEPT ![k] = NewReservation(BusinessOf[k], gate[g].cycle)]
        /\ charged' = charged
    BY <1>3 DEF Reserve
  <2> QED BY <2>2, <2>3, <2>4, <2>5, HoldRefines
<1>4. CASE Submit(g)
  <2> DEFINE x == [dispatch[k] EXCEPT !.status = "SUBMITTED", !.aged = FALSE]
  <2>1. k \in Keys /\ dispatch[k] \in DispatchRow
    BY <1>2, <1>4 DEF Submit
  <2>2. x.status = "SUBMITTED"
    BY <2>1 DEF DispatchRow
  <2>3. /\ dispatch' = [dispatch EXCEPT ![k] = x] /\ charged' = charged
        /\ dispatch[k].status = "RESERVED"
    BY <1>1, <1>4 DEF Submit, TypeInv, DispatchTypeOK
  <2> HIDE DEF x
  <2> QED BY <2>1, <2>2, <2>3, SendRefines
<1>5. CASE CancelReservation(g)
  <2>1. k \in Keys /\ dispatch[k] \in DispatchRow
    BY <1>2, <1>5 DEF CancelReservation
  <2>2. Cancelled(dispatch[k]).status = "CANCELLED"
    BY <2>1, CancelledType
  <2>3. /\ dispatch' = [dispatch EXCEPT ![k] = Cancelled(dispatch[k])] /\ charged' = charged
        /\ dispatch[k].status = "RESERVED"
    BY <1>1, <1>5 DEF CancelReservation, TypeInv, DispatchTypeOK
  <2> QED BY <2>1, <2>2, <2>3, LetGoRefines
<1>6. CASE Settle(g)
  <2>1. k \in Keys /\ dispatch[k] \in DispatchRow /\ gate[g].at = "answered"
    BY <1>2, <1>6 DEF Settle
  <2>2. Settled(dispatch[k], o).status = o.status /\ Settled(dispatch[k], o).bill = o.bill
    BY <1>1, <2>1, SettledType
  <2>3. /\ dispatch' = [dispatch EXCEPT ![k] = Settled(dispatch[k], o)] /\ charged' = charged
        /\ dispatch[k].status = "SUBMITTED"
    BY <1>1, <1>6 DEF Settle, TypeInv, DispatchTypeOK
  <2>4. CASE o.status = "AMBIGUOUS"
    BY <2>1, <2>2, <2>3, <2>4, SendRefines
  <2>5. CASE o.status # "AMBIGUOUS"
    <3>1. o.status \in {"SUCCEEDED", "FAILED"} /\ o.bill \in Amounts
      BY <1>1, <2>5 DEF Outcome, Knows
    <3>2. BilledWithin(k, o.bill)
      BY <2>1, <2>5 DEF LInv, BillInv
    <3> QED BY <2>1, <2>2, <2>3, <3>1, <3>2, SettleRefines
  <2> QED BY <2>4, <2>5
<1>7. CASE MarkAmbiguous(g)
  <2>1. k \in Keys /\ dispatch[k] \in DispatchRow
    BY <1>2, <1>7 DEF MarkAmbiguous
  <2>2. Settled(dispatch[k], NoOutcome).status = "AMBIGUOUS"
    BY <2>1, SettledType, NoOutcomeType DEF NoOutcome
  <2>3. /\ charged' = charged
        /\ \/ dispatch' = dispatch
           \/ /\ dispatch' = [dispatch EXCEPT ![k] = Settled(dispatch[k], NoOutcome)]
              /\ dispatch[k].status = "SUBMITTED"
    BY <1>1, <1>7 DEF MarkAmbiguous, TypeInv, DispatchTypeOK
  <2> QED BY <2>1, <2>2, <2>3, SendRefines, LedgerKept
<1>8. CASE ProviderAnswers(g) \/ CallTimesOut(g) \/ AnswerIsInvalid(g)
  <2>1. gate[g].at = "calling" /\ (\E bill \in Amounts : Bills(g, bill)) /\ UNCHANGED dispatch
    BY <1>8 DEF ProviderAnswers, CallTimesOut, AnswerIsInvalid, rows
  <2> QED BY <2>1, BillRefines
<1>9. CASE Crash(g)
  <2>1. UNCHANGED dispatch
    BY <1>9 DEF Crash, rows
  <2>2. \/ charged' = charged
        \/ gate[g].at = "calling" /\ \E bill \in Amounts : Bills(g, bill)
    BY <1>9 DEF Crash
  <2> QED BY <2>1, <2>2, BillRefines, LedgerKept
<1>10. \/ Reserve(g) \/ Submit(g) \/ CancelReservation(g) \/ Settle(g) \/ MarkAmbiguous(g)
       \/ ProviderAnswers(g) \/ CallTimesOut(g) \/ AnswerIsInvalid(g) \/ Crash(g)
       \/ UNCHANGED <<dispatch, charged>>
  BY DEF GateNext, ClaimScan, ReadExisting, Refused, ReserveRaced, ReserveFails, EvidenceFails,
     SubmitRaced, SubmitRefused, CancelFails, SettleFails, EndAttempt, Heartbeat, rows
<1> QED BY <1>3, <1>4, <1>5, <1>6, <1>7, <1>8, <1>9, <1>10, LedgerKept

LEMMA ReconcileRefines ==
  ASSUME LInv, LInv', NEW k \in Keys, Reconcile(k) \/ GrowsStale(k)
  PROVE  Promised
<1>1. TypeInv /\ dispatch[k] \in DispatchRow
  BY RowOf DEF LInv, DInv
<1>2. CASE ReconcileSubmission(k)
  <2>1. Settled(dispatch[k], NoOutcome).status = "AMBIGUOUS"
    BY <1>1, SettledType, NoOutcomeType DEF NoOutcome
  <2>2. /\ dispatch' = [dispatch EXCEPT ![k] = Settled(dispatch[k], NoOutcome)]
        /\ charged' = charged /\ dispatch[k].status = "SUBMITTED"
    BY <1>1, <1>2 DEF ReconcileSubmission, TypeInv, DispatchTypeOK
  <2> QED BY <2>1, <2>2, SendRefines
<1>3. CASE ReconcileReservation(k)
  <2>1. Cancelled(dispatch[k]).status = "CANCELLED"
    BY <1>1, CancelledType
  <2>2. /\ dispatch' = [dispatch EXCEPT ![k] = Cancelled(dispatch[k])]
        /\ charged' = charged /\ dispatch[k].status = "RESERVED"
    BY <1>1, <1>3 DEF ReconcileReservation, TypeInv, DispatchTypeOK
  <2> QED BY <2>1, <2>2, LetGoRefines
<1>4. CASE GrowsStale(k)
  <2> DEFINE x == [dispatch[k] EXCEPT !.aged = TRUE]
  <2>1. dispatch[k].status = x.status /\ dispatch[k].bill = x.bill
    BY <1>1 DEF DispatchRow
  <2>2. dispatch' = [dispatch EXCEPT ![k] = x] /\ charged' = charged
    BY <1>1, <1>4 DEF GrowsStale, TypeInv, DispatchTypeOK
  <2> HIDE DEF x
  <2> QED BY <2>1, <2>2, SendRefines
<1> QED BY <1>2, <1>3, <1>4 DEF Reconcile

LEMMA LedgerStep == LInv /\ LInv' /\ [Next]_vars => Promised
<1> SUFFICES ASSUME LInv, LInv', [Next]_vars PROVE Promised
  OBVIOUS
<1>1. ASSUME NEW g \in Gates, GateNext(g) \/ Crash(g) PROVE Promised
  BY <1>1, GateRefines
<1>2. ASSUME NEW k \in Keys, Reconcile(k) \/ GrowsStale(k) PROVE Promised
  BY <1>2, ReconcileRefines
<1>3. ASSUME \/ \E s \in Scans : LeaseLapses(s) \/ WithdrawScan(s) \/ EraseScan(s)
             \/ \E b \in Businesses : GrantConsent(b) \/ RevokeConsent(b)
             \/ MonthTurns
             \/ UNCHANGED vars
      PROVE Promised
  <2>1. UNCHANGED <<dispatch, charged>>
    BY <1>3 DEF LeaseLapses, WithdrawScan, EraseScan, GrantConsent, RevokeConsent, MonthTurns,
       vars, rows
  <2> QED BY <2>1, LedgerKept
<1> QED BY <1>1, <1>2, <1>3 DEF Next

LEMMA LedgerOpens == Init => Ledger!LedgerInit
<1> SUFFICES ASSUME Init PROVE Ledger!LedgerInit
  OBVIOUS
<1>1. ASSUME NEW k \in Keys
      PROVE  Stage(dispatch[k]) = "idle" /\ Due(dispatch[k]) = 0 /\ Total(charged[k]) = 0
  <2>1. dispatch[k].status = "NONE"
    BY DEF Init, NoDispatch
  <2>2. charged[k] \in [Months -> Nat] /\ \A m \in Months : charged[k][m] = 0
    BY DEF Init
  <2> QED BY <2>1, <2>2, StageIs, DueIs, TotalOfNothing
<1>2. ASSUME NEW b \in Budgets PROVE Booked(b) = 0
  <2> DEFINE f == [m \in Months |-> used[b][m] + reserved[b][m]]
  <2>1. f \in [Months -> Nat] /\ \A m \in Months : f[m] = 0
    BY DEF Init
  <2> HIDE DEF f
  <2>2. Total(f) = 0
    BY <2>1, TotalOfNothing
  <2> QED BY <2>2 DEF Booked, f
<1> QED BY <1>1, <1>2 DEF Ledger!LedgerInit

\* Attempts that race, die, come late or are reconciled keep the ledger of the
\* provider: nothing is billed that was not held and sent, nothing settled below
\* its bill, and neither doubt nor a settled bill is reopened, in any month.
THEOREM ImplementsLedgerHolds == DispatchSpec => ImplementsLedger
<1>1. LInv /\ LInv' /\ [Next]_vars => [Ledger!LedgerNext]_(Ledger!ledger)
  BY LedgerStep DEF Promised
<1>2. DispatchSpec => []LInv
  BY BillInvHolds DEF LInv
<1> QED BY <1>1, <1>2, LedgerOpens, PTL DEF DispatchSpec, ImplementsLedger, Ledger!LedgerSpec
=============================================================================
