---------------------------- MODULE MCCanvasText ----------------------------
(***************************************************************************)
(* Two editors and writers of whole documents on one canvas.               *)
(***************************************************************************)
EXTENDS CanvasText
=============================================================================
