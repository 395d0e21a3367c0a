----------------------------- MODULE MCVeilPool -----------------------------
(***************************************************************************)
(* A tree of four leaves with a ring of two roots, so that it fills up and *)
(* roots fall out; three notes, two of which share a nullifier, one of     *)
(* which is above the cap.                                                 *)
(***************************************************************************)
EXTENDS VeilPool, TLC

CONSTANTS n1, n2, n3, x1, x2, alice, bob, usdc

Amounts == n1 :> 3 @@ n2 :> 2 @@ n3 :> 4
Tokens == [n \in Note |-> usdc]
Nullifiers == n1 :> x1 @@ n2 :> x2 @@ n3 :> x2
Wealth == alice :> (usdc :> 12) @@ bob :> (usdc :> 0)
=============================================================================
