--------------------------- MODULE ProviderLedger ---------------------------
(***************************************************************************)
(* What the books are promised about what is sent to a paid provider, with *)
(* no attempts, leases, months or maintenance in sight.  A reservation key *)
(* is held its units before it is sent, billed once at most, and then      *)
(* either costs what was billed or more, or stays in doubt at its full     *)
(* price; doubt and a settled price are final.  ReceiptProviderDispatch    *)
(* implements it.                                                          *)
(***************************************************************************)
EXTENDS Integers

CONSTANTS Keys, Budgets, BudgetsOf, Units

VARIABLES stage,   \* stage[k]: how far the dispatch of a key has come
          cost,    \* cost[k]: the units set aside for it, or spent on it
          charge,  \* charge[k]: the units the provider billed
          booked   \* booked[b]: the units of all keys of the budget

ledger == <<stage, cost, charge, booked>>

Stages == {"idle", "held", "sent", "doubtful", "closed"}

LedgerInit ==
    /\ stage = [k \in Keys |-> "idle"]
    /\ cost = [k \in Keys |-> 0]
    /\ charge = [k \in Keys |-> 0]
    /\ booked = [b \in Budgets |-> 0]

Turns(k, from, to) ==
    /\ stage[k] = from
    /\ stage' = [stage EXCEPT ![k] = to]
    /\ UNCHANGED charge

\* The key now costs so much, in each of its budgets.
Costs(k, units) ==
    /\ cost' = [cost EXCEPT ![k] = units]
    /\ booked' = [b \in Budgets |-> IF b \in BudgetsOf[k] THEN booked[b] - cost[k] + units
                                                          ELSE booked[b]]

Hold(k) == Turns(k, "idle", "held") /\ Costs(k, Units)

LetGo(k) == Turns(k, "held", "idle") /\ Costs(k, 0)

Send(k) == Turns(k, "held", "sent") /\ UNCHANGED <<cost, booked>>

Bill(k) ==
    /\ stage[k] \in {"sent", "doubtful"}
    /\ charge[k] = 0
    /\ \E units \in 1 .. Units : charge' = [charge EXCEPT ![k] = units]
    /\ UNCHANGED <<stage, cost, booked>>

\* A call that cost nothing may be made again.
Settle(k) ==
    \E units \in charge[k] .. Units :
        /\ Turns(k, "sent", "closed") \/ (units = 0 /\ Turns(k, "sent", "idle"))
        /\ Costs(k, units)

Doubt(k) == Turns(k, "sent", "doubtful") /\ UNCHANGED <<cost, booked>>

LedgerNext ==
    \E k \in Keys : Hold(k) \/ LetGo(k) \/ Send(k) \/ Bill(k) \/ Settle(k) \/ Doubt(k)

LedgerSpec == LedgerInit /\ [][LedgerNext]_ledger
=============================================================================
