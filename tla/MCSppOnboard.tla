---------------------------- MODULE MCSppOnboard ----------------------------
(***************************************************************************)
(* Two concurrent set-ups, two deployments; one contract traps on a leaf   *)
(* it has, the other takes it again.                                       *)
(***************************************************************************)
EXTENDS SppOnboard

CONSTANTS c1, c2, d1, d2
=============================================================================
