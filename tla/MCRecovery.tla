------------------------------ MODULE MCRecovery ------------------------------
(***************************************************************************)
(* Small instances of Recovery for TLC, with the catalogues of             *)
(* MCDocumentSync.                                                         *)
(***************************************************************************)
EXTENDS Recovery, MCDocumentSync

=============================================================================
