---------------------------- MODULE MCFileUpload ----------------------------
(* Small instances of FileUpload for TLC. *)
EXTENDS FileUpload, TLC
=============================================================================
