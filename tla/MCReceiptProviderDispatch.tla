--------------------- MODULE MCReceiptProviderDispatch ---------------------
(* TLC instances of ReceiptProviderDispatch: one business, whose receipts  *)
(* share the resource-wide budget and the business's own.                  *)
EXTENDS ReceiptProviderDispatch, TLC

CONSTANTS owner, resourceBudget, businessBudget,
          firstScan, otherScan,  \* the receipts that the keys are of,
          OtherKeys              \* and the keys that are of the second

MCScanOf == [k \in Keys |-> IF k \in OtherKeys THEN otherScan ELSE firstScan]
MCBusinessOf == [k \in Keys |-> owner]
MCBudgetsOf == [k \in Keys |-> {resourceBudget, businessBudget}]
MCLimit == (resourceBudget :> 3) @@ (businessBudget :> 2)

\* Behaviours in which the owner neither touches a receipt nor revokes: three
\* attempts over several keys are more than TLC finishes with the owner there.
OwnerAway ==
    \/ \E g \in Gates : GateNext(g) \/ Crash(g)
    \/ \E k \in Keys : Reconcile(k) \/ GrowsStale(k)
    \/ \E s \in Scans : LeaseLapses(s)
    \/ MonthTurns

UnattendedSpec == Init /\ [][OwnerAway]_vars

Interchangeable ==
    Permutations(Gates) \cup
    {p[1] @@ p[2] : p \in {q \in Permutations(Keys) \X Permutations(Scans) :
                              \A k \in Keys : ScanOf[q[1][k]] = q[2][ScanOf[k]]}}
=============================================================================
