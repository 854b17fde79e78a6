---------------------------- MODULE MCReceiptPurge ----------------------------
(***************************************************************************)
(* Small instances of ReceiptPurge for TLC.  A scan of two pages: the      *)
(* first has the photograph and its processed copy, the second one image.  *)
(***************************************************************************)
EXTENDS ReceiptPurge, TLC

CONSTANTS original, processed, second

Images == {original, processed, second}
Pages == (original :> 1) @@ (processed :> 1) @@ (second :> 2)

OneImage == {original}
OnePage == (original :> 1)
=============================================================================
