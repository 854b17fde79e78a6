----------------------------- MODULE MCCsvImport -----------------------------
(***************************************************************************)
(* Small instances of CsvImport for TLC.                                   *)
(***************************************************************************)
EXTENDS CsvImport, TLC
=============================================================================
