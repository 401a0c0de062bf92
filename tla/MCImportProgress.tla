-------------------------- MODULE MCImportProgress --------------------------
(* The instance of ImportProgress for TLC.                                 *)
EXTENDS ImportProgress
=============================================================================
