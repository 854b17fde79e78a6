-------------------------- MODULE ReceiptLifecycle --------------------------
(***************************************************************************)
(* What the receipt queue promises an owner, with no workers, leases,      *)
(* revisions or requests in sight: a receipt is read at most once per      *)
(* acceptance or retry, amended only while it is a finished draft, booked  *)
(* at most once, with the content the draft had at that moment, and        *)
(* discarded for good.  A booked receipt's evidence may be forgotten.      *)
(***************************************************************************)
EXTENDS Naturals

CONSTANTS Receipts, Contents, Nothing

VARIABLES phase, draft, ledger

lifecycleVars == <<phase, draft, ledger>>

Phases == {"absent", "reading", "ready", "unreadable", "booked", "discarded"}

LifecycleInit ==
    /\ phase = [r \in Receipts |-> "absent"]
    /\ draft = [r \in Receipts |-> Nothing]
    /\ ledger = [r \in Receipts |-> [count |-> 0, items |-> Nothing]]

Move(r, from, to) ==
    /\ phase[r] \in from
    /\ phase' = [phase EXCEPT ![r] = to]

Accept(r) == Move(r, {"absent"}, "reading") /\ UNCHANGED <<draft, ledger>>

Read(r, content) ==
    /\ Move(r, {"reading"}, "ready")
    /\ draft' = [draft EXCEPT ![r] = content]
    /\ UNCHANGED ledger

\* One sweep may give up on several receipts.
GiveUp(set) ==
    /\ \A r \in set : phase[r] = "reading"
    /\ phase' = [r \in Receipts |-> IF r \in set THEN "unreadable" ELSE phase[r]]
    /\ UNCHANGED <<draft, ledger>>

TryAgain(r) == Move(r, {"unreadable"}, "reading") /\ UNCHANGED <<draft, ledger>>

Amend(r, content) ==
    /\ phase[r] = "ready"
    /\ draft' = [draft EXCEPT ![r] = content]
    /\ UNCHANGED <<phase, ledger>>

Book(r) ==
    /\ Move(r, {"ready"}, "booked")
    /\ ledger[r].count = 0
    /\ ledger' = [ledger EXCEPT ![r] = [count |-> 1, items |-> draft[r]]]
    /\ UNCHANGED draft

Forget(r) ==
    /\ phase[r] = "booked"
    /\ draft' = [draft EXCEPT ![r] = Nothing]
    /\ UNCHANGED <<phase, ledger>>

Discard(r) ==
    /\ Move(r, {"reading", "ready", "unreadable", "booked"}, "discarded")
    /\ UNCHANGED <<draft, ledger>>

LifecycleNext ==
    \/ \E r \in Receipts : Accept(r) \/ TryAgain(r) \/ Book(r) \/ Forget(r) \/ Discard(r)
    \/ \E r \in Receipts, content \in Contents : Read(r, content) \/ Amend(r, content)
    \/ \E set \in SUBSET Receipts : GiveUp(set)

LifecycleSpec == LifecycleInit /\ [][LifecycleNext]_lifecycleVars
=============================================================================
