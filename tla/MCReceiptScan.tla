---------------------------- MODULE MCReceiptScan ----------------------------
(***************************************************************************)
(* Small instances of ReceiptScan for TLC.  Worker processes, sessions and *)
(* contents are interchangeable, so safety runs use their permutations.    *)
(***************************************************************************)
EXTENDS ReceiptScan, TLC

Symmetry ==
    Permutations(Workers) \cup Permutations(Clients) \cup Permutations(Readings)
=============================================================================
