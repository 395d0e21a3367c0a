----------------------------- MODULE MCSppNotes -----------------------------
(***************************************************************************)
(* Two operations of one or two units beside the recoveries.               *)
(***************************************************************************)
EXTENDS SppNotes

CONSTANTS o1, o2
=============================================================================
