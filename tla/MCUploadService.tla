-------------------------- MODULE MCUploadService --------------------------
(***************************************************************************)
(* Instances of UploadService for TLC.                                     *)
(***************************************************************************)
EXTENDS UploadService, TLC
=============================================================================
