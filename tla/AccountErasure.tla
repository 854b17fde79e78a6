---------------------------- MODULE AccountErasure ----------------------------
(***************************************************************************)
(* What the deletion of an account promises: once it is asked for no       *)
(* request, worker or crash takes it back, the identity goes before the    *)
(* rows do, and the rows, the only map of the stored files, go when no     *)
(* file is stored any more.  AccountDeletion implements it with stages,    *)
(* leases and checkpoints.                                                 *)
(***************************************************************************)
CONSTANT Files

VARIABLES account,   \* "open", "closing" or "erased"
          signIn,    \* the identity exists
          kept       \* the files that are stored

promise == <<account, signIn, kept>>

ErasureInit ==
    /\ account = "open"
    /\ signIn = TRUE
    /\ kept = {}

Close ==
    /\ account = "open"
    /\ account' = "closing"
    /\ UNCHANGED <<signIn, kept>>

\* A request that is under way may still store its file.
Store(f) ==
    /\ account # "erased"
    /\ kept' = kept \cup {f}
    /\ UNCHANGED <<account, signIn>>

Forget ==
    /\ kept' \in SUBSET kept
    /\ UNCHANGED <<account, signIn>>

RemoveIdentity ==
    /\ account = "closing"
    /\ signIn' = FALSE
    /\ UNCHANGED <<account, kept>>

Erase ==
    /\ account = "closing"
    /\ ~signIn
    /\ kept = {}
    /\ account' = "erased"
    /\ UNCHANGED <<signIn, kept>>

ErasureNext ==
    \/ Close \/ Forget \/ RemoveIdentity \/ Erase
    \/ \E f \in Files : Store(f)

ErasureSpec == ErasureInit /\ [][ErasureNext]_promise
=============================================================================
