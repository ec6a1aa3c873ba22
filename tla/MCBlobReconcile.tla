-------------------------- MODULE MCBlobReconcile --------------------------
(***************************************************************************)
(* One external upload and one direct upload, one request at a time that   *)
(* writes bytes, and an auditor and a cleanup worker beside them.          *)
(***************************************************************************)
EXTENDS BlobReconcile
=============================================================================
