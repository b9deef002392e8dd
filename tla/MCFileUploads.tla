--------------------------- MODULE MCFileUploads ---------------------------
(* FileUploads for TLC. *)
EXTENDS FileUploads
=============================================================================
