--------------------------- MODULE MCLibrarySync ---------------------------
(* LibrarySync for TLC: one asset and a short history. *)
EXTENDS LibrarySync

CONSTANT a1
=============================================================================
