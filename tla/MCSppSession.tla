---------------------------- MODULE MCSppSession ----------------------------
(***************************************************************************)
(* Three calls on two chains, of which one has a second endpoint.          *)
(***************************************************************************)
EXTENDS SppSession, TLC

CONSTANTS c1, c2, c3, mainnet, testnet

AnyOrder == Permutations(Call)
=============================================================================
