--------------------------- MODULE MCIndexerCursor ---------------------------
(***************************************************************************)
(* Five blocks, two of them with an event, a withdrawal before a           *)
(* commitment and batches of two; a gap of three blocks is too long to     *)
(* replay, and two reconnects may overlap.                                 *)
(***************************************************************************)
EXTENDS IndexerCursor, TLC

CONSTANTS a, b

Kinds == 3 :> "withdrawal" @@ 4 :> "commitment"
=============================================================================
