-------------------------- MODULE MCWalletActivity --------------------------
(***************************************************************************)
(* Two scopes, one payment, one private operation, two fetches at a time.  *)
(***************************************************************************)
EXTENDS WalletActivity

CONSTANTS a, b, f1, f2, p1, o1
=============================================================================
