----------------------------- MODULE PassNodes -----------------------------
(***************************************************************************)
(* The nodes that both halves of a pass's end are about.                   *)
(***************************************************************************)
CONSTANT Node
=============================================================================
