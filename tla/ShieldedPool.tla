---------------------------- MODULE ShieldedPool ----------------------------
(***************************************************************************)
(* What a shielded pool promises to those who deposit: a note can be       *)
(* redeemed for what was paid in for it, once, and nothing else ever takes *)
(* money out.  Roots, rings and fees are the business of the contract that *)
(* implements this.                                                        *)
(***************************************************************************)
EXTENDS Naturals

CONSTANTS
  Note,          \* what can be deposited
  Token,
  AmountOf,      \* [Note -> what it is worth]
  TokenOf,       \* [Note -> in which token]
  NullifierOf    \* [Note -> what is published when it is redeemed]

VARIABLES
  deposited,     \* notes ever paid for
  redeemed,      \* nullifiers published
  vault          \* [Token -> what the pool holds]

vars == <<deposited, redeemed, vault>>

Init ==
  /\ deposited = {}
  /\ redeemed = {}
  /\ vault = [t \in Token |-> 0]

\* A note is paid for in full.
Deposit(n) ==
  /\ deposited' = deposited \cup {n}
  /\ vault' = [vault EXCEPT ![TokenOf[n]] = @ + AmountOf[n]]
  /\ UNCHANGED redeemed

\* A deposited note is redeemed for at most its worth, in its own token.
Redeem(n) ==
  /\ n \in deposited
  /\ NullifierOf[n] \notin redeemed
  /\ redeemed' = redeemed \cup {NullifierOf[n]}
  /\ \E paid \in 0 .. AmountOf[n] :
       /\ paid <= vault[TokenOf[n]]
       /\ vault' = [vault EXCEPT ![TokenOf[n]] = @ - paid]
  /\ UNCHANGED deposited

Next == \E n \in Note : Deposit(n) \/ Redeem(n)

Spec == Init /\ [][Next]_vars
=============================================================================
