---------------------------- MODULE MCWalletStore ----------------------------
(***************************************************************************)
(* Two recovery phrases, two accounts, the three chain types.              *)
(***************************************************************************)
EXTENDS WalletStore

CONSTANTS s1, s2, i0, i1, evm, svm, xlm
=============================================================================
