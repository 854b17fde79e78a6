-------------------------- MODULE MCAccountDeletion --------------------------
(***************************************************************************)
(* A small instance of AccountDeletion for TLC.  The key of a CSV file     *)
(* ("csv:...") comes before the key of an image ("receipt:...").           *)
(***************************************************************************)
EXTENDS AccountDeletion, TLC

CONSTANTS file, image

KeyOrder == (file :> 1) @@ (image :> 2)
=============================================================================
