------------------------------ MODULE VeilPool ------------------------------
(***************************************************************************)
(* The shielded pool of packages/contracts-evm/src/VeilPool.sol: deposits  *)
(* fold a commitment into an incremental Merkle tree, withdrawals show a   *)
(* nullifier and a root of the ring of recent roots.                       *)
(*                                                                         *)
(* A transaction is one step: the chain runs one at a time, takes back all *)
(* of one that reverts, and nonReentrant refuses a call made from within   *)
(* a token transfer.  Poseidon is a free constructor, a note stands for    *)
(* its opening, and the two verifiers accept exactly what the circuits     *)
(* deposit.circom and withdraw.circom state.                               *)
(***************************************************************************)
EXTENDS Integers, Sequences, FiniteSets, FiniteSetsExt, Functions

CONSTANTS
  Note,                 \* commitments somebody can open
  Token,                \* ERC-20 tokens
  AmountOf,             \* [Note -> the amount it commits to]
  TokenOf,              \* [Note -> the token it commits to]
  NullifierOf,          \* [Note -> the nullifier hash it opens to]
  Account,              \* every address but the pool's and 0
  Pool,                 \* address(this)
  Funds,                \* [Account -> [Token -> tokens before the first call]]
  Zero,                 \* bytes32(0)
  LEVELS,
  ROOT_HISTORY,
  WITHDRAW_FEE_BPS,
  MAX_WITHDRAW_AMOUNT,  \* 0: no cap
  AmountBound,          \* 1 << 128
  FirstFeeRecipient

BPS_DENOMINATOR == 10000

ASSUME TreeAssumption == LEVELS \in Nat \ {0} /\ ROOT_HISTORY \in Nat \ {0}

ASSUME FeeAssumption ==
  /\ WITHDRAW_FEE_BPS \in 0 .. BPS_DENOMINATOR
  /\ MAX_WITHDRAW_AMOUNT \in Nat
  /\ FirstFeeRecipient \in Account \cup {Pool}

ASSUME NoteAssumption ==
  /\ AmountOf \in [Note -> Nat] /\ TokenOf \in [Note -> Token]
  /\ DOMAIN NullifierOf = Note
  /\ Zero \notin Note
  /\ AmountBound \in Nat

ASSUME AccountAssumption ==
  /\ Pool \notin Account
  /\ Funds \in [Account -> [Token -> Nat]]

VARIABLES
  filledSubtrees,    \* [level -> left sibling waiting for its right one]
  nextLeafIndex,
  roots,             \* the ring
  currentRootIndex,
  nullifierSpent,    \* nullifier hashes
  feeRecipient,
  paused,
  owned,             \* ERC-20 balances: [Account and Pool -> [Token -> Nat]]
  deposits,          \* the Deposit events: <<[commitment, merkleRoot]>>
  withdrawals        \* the Withdrawal events: <<[nullifierHash, note, fee]>>

tree == <<filledSubtrees, nextLeafIndex, roots, currentRootIndex>>
events == <<deposits, withdrawals>>
vars == <<tree, nullifierSpent, feeRecipient, paused, owned, events>>

Level == 0 .. LEVELS - 1
Slot == 0 .. ROOT_HISTORY - 1
Holder == Account \cup {Pool}

-----------------------------------------------------------------------------
(* The tree.                                                               *)

poseidon(left, right) == <<left, right>>

\* zeros[i] is the root of an empty tree of depth i.
zeros[i \in 0 .. LEVELS] ==
  IF i = 0 THEN Zero ELSE poseidon(zeros[i - 1], zeros[i - 1])

\* shift[i] is 1 << i, the leaves of a tree of depth i.
shift[i \in 0 .. LEVELS] == IF i = 0 THEN 1 ELSE 2 * shift[i - 1]

Capacity == shift[LEVELS]

IsLeft(leafIndex, i) == (leafIndex \div shift[i]) % 2 = 0

\* The hashes on the path of a leaf inserted at nextLeafIndex, bottom up.
PathOf(leaf) ==
  LET hash[i \in 0 .. LEVELS] ==
        IF i = 0 THEN leaf
        ELSE IF IsLeft(nextLeafIndex, i - 1) THEN poseidon(hash[i - 1], zeros[i - 1])
        ELSE poseidon(filledSubtrees[i - 1], hash[i - 1])
  IN  hash

\* Mutant: the sibling is kept at odd indices too.
InsertAlwaysCached(leaf) ==
  /\ nextLeafIndex < Capacity
  /\ filledSubtrees' = [i \in Level |-> PathOf(leaf)[i]]
  /\ currentRootIndex' = (currentRootIndex + 1) % ROOT_HISTORY
  /\ roots' = [roots EXCEPT ![currentRootIndex'] = PathOf(leaf)[LEVELS]]
  /\ nextLeafIndex' = nextLeafIndex + 1

\* Mutant: the ring is written before its index moves.
InsertInPlace(leaf) ==
  /\ nextLeafIndex < Capacity
  /\ filledSubtrees' = [i \in Level |-> IF IsLeft(nextLeafIndex, i) THEN PathOf(leaf)[i]
                                        ELSE filledSubtrees[i]]
  /\ currentRootIndex' = (currentRootIndex + 1) % ROOT_HISTORY
  /\ roots' = [roots EXCEPT ![currentRootIndex] = PathOf(leaf)[LEVELS]]
  /\ nextLeafIndex' = nextLeafIndex + 1

\* TreeFull, then the path is folded and the ring advances.
Insert(leaf) ==
  /\ nextLeafIndex < Capacity
  /\ filledSubtrees' = [i \in Level |-> IF IsLeft(nextLeafIndex, i) THEN PathOf(leaf)[i]
                                        ELSE filledSubtrees[i]]
  /\ currentRootIndex' = (currentRootIndex + 1) % ROOT_HISTORY
  /\ roots' = [roots EXCEPT ![currentRootIndex'] = PathOf(leaf)[LEVELS]]
  /\ nextLeafIndex' = nextLeafIndex + 1

\* The ring read backwards from the current root; empty slots never match.
IsKnownRoot(root) == root # Zero /\ \E s \in Slot : roots[s] = root

-----------------------------------------------------------------------------
(* What the circuits let a prover show.                                    *)

Leaves == [k \in 1 .. Len(deposits) |-> deposits[k].commitment]

\* Every root the pool ever had, the empty one at 0.
RootAfter(k) == IF k = 0 THEN zeros[LEVELS] ELSE deposits[k].merkleRoot

\* withdraw.circom: some leaf of the tree of that root opens to this note, and
\* its nullifier, amount and token are those of the call.
Opens(root, n) ==
  \E k \in 1 .. Len(deposits) :
    RootAfter(k) = root /\ \E j \in 1 .. k : Leaves[j] = n

Moved(balances, from, to, t, amount) ==
  LET less == [balances EXCEPT ![from][t] = @ - amount]
  IN  [less EXCEPT ![to][t] = @ + amount]

\* safeTransfer: the call reverts when the sender has too little.
Transfer(from, to, t, amount) ==
  /\ owned[from][t] >= amount
  /\ owned' = Moved(owned, from, to, t, amount)

-----------------------------------------------------------------------------
TypeOK ==
  /\ DOMAIN filledSubtrees = Level
  /\ nextLeafIndex \in 0 .. Capacity
  /\ DOMAIN roots = Slot
  /\ currentRootIndex \in Slot
  /\ nullifierSpent \subseteq Range(NullifierOf)
  /\ feeRecipient \in Holder
  /\ paused \in BOOLEAN
  /\ owned \in [Holder -> [Token -> Nat]]
  /\ deposits \in Seq(Range(deposits))
  /\ \A k \in 1 .. Len(deposits) : deposits[k].commitment \in Note
  /\ withdrawals \in Seq([nullifierHash : Range(NullifierOf), note : Note, fee : Nat])

Init ==
  /\ filledSubtrees = [i \in Level |-> zeros[i]]
  /\ nextLeafIndex = 0
  /\ roots = [s \in Slot |-> IF s = 0 THEN zeros[LEVELS] ELSE Zero]
  /\ currentRootIndex = 0
  /\ nullifierSpent = {}
  /\ feeRecipient = FirstFeeRecipient
  /\ paused = FALSE
  /\ owned = [h \in Holder |-> IF h = Pool THEN [t \in Token |-> 0] ELSE Funds[h]]
  /\ deposits = <<>>
  /\ withdrawals = <<>>

IsAmount(amount) == 0 < amount /\ amount < AmountBound

\* The proof binds the leaf to the amount and token that are transferred.
Deposit(from, n) ==
  /\ ~ paused
  /\ IsAmount(AmountOf[n])
  /\ Transfer(from, Pool, TokenOf[n], AmountOf[n])
  /\ Insert(n)
  /\ deposits' = Append(deposits, [commitment |-> n, merkleRoot |-> roots'[currentRootIndex']])
  /\ UNCHANGED <<nullifierSpent, feeRecipient, paused, withdrawals>>

FeeOf(amount) == (amount * WITHDRAW_FEE_BPS) \div BPS_DENOMINATOR

\* Mutant: the fee comes on top of the note.
PayOutFeeOnTop(to, t, amount, fee) ==
  LET paid == Moved(owned, Pool, to, t, amount)
  IN  /\ owned[Pool][t] >= amount /\ paid[Pool][t] >= fee
      /\ owned' = Moved(paid, Pool, feeRecipient, t, fee)

\* payout to the recipient, then the fee, if any, to the fee recipient.
PayOut(to, t, amount, fee) ==
  LET paid == Moved(owned, Pool, to, t, amount - fee)
  IN  /\ owned[Pool][t] >= amount - fee /\ paid[Pool][t] >= fee
      /\ owned' = IF fee > 0 THEN Moved(paid, Pool, feeRecipient, t, fee) ELSE paid

Withdrawable(n, root) ==
  /\ ~ paused
  /\ IsKnownRoot(root)
  /\ NullifierOf[n] \notin nullifierSpent
  /\ IsAmount(AmountOf[n])
  /\ MAX_WITHDRAW_AMOUNT # 0 => AmountOf[n] <= MAX_WITHDRAW_AMOUNT
  /\ Opens(root, n)

\* Mutant: the nullifier is not marked.
WithdrawUnmarked(n, root, to) ==
  /\ Withdrawable(n, root)
  /\ PayOut(to, TokenOf[n], AmountOf[n], FeeOf(AmountOf[n]))
  /\ withdrawals' = Append(withdrawals, [nullifierHash |-> NullifierOf[n], note |-> n,
                                         fee |-> FeeOf(AmountOf[n])])
  /\ UNCHANGED <<tree, nullifierSpent, feeRecipient, paused, deposits>>

Withdraw(n, root, to) ==
  /\ Withdrawable(n, root)
  /\ nullifierSpent' = nullifierSpent \cup {NullifierOf[n]}
  /\ PayOut(to, TokenOf[n], AmountOf[n], FeeOf(AmountOf[n]))
  /\ withdrawals' = Append(withdrawals, [nullifierHash |-> NullifierOf[n], note |-> n,
                                         fee |-> FeeOf(AmountOf[n])])
  /\ UNCHANGED <<tree, feeRecipient, paused, deposits>>

SetPaused(on) ==
  /\ paused # on
  /\ paused' = on
  /\ UNCHANGED <<tree, nullifierSpent, feeRecipient, owned, events>>

\* Any address, the pool's own too.
UpdateFeeRecipient(a) ==
  /\ feeRecipient' = a
  /\ UNCHANGED <<tree, nullifierSpent, paused, owned, events>>

\* A sender may offer any root the pool ever had, however old.
Next ==
  \/ \E a \in Account, n \in Note : Deposit(a, n)
  \/ \E n \in Note, k \in 0 .. Len(deposits), to \in Holder : Withdraw(n, RootAfter(k), to)
  \/ \E on \in BOOLEAN : SetPaused(on)
  \/ \E a \in Holder : UpdateFeeRecipient(a)

Spec == Init /\ [][Next]_vars

-----------------------------------------------------------------------------
(* What the pool promises.                                                 *)

\* The reference: the complete tree over all leaves, level by level.
MerkleTree(leaves) ==
  LET node[i \in 0 .. LEVELS] ==
        [k \in 0 .. shift[LEVELS - i] - 1 |->
           IF i = 0 THEN IF k < Len(leaves) THEN leaves[k + 1] ELSE Zero
           ELSE poseidon(node[i - 1][2 * k], node[i - 1][2 * k + 1])]
  IN  node

MerkleRoot(leaves) == MerkleTree(leaves)[LEVELS][0]

\* The root kept incrementally, from the cached left siblings alone, is the
\* root of the tree of all leaves: off-chain trees and the pool agree.
RootIsTreeRoot == roots[currentRootIndex] = MerkleRoot(Leaves)

\* The ring knows exactly the last ROOT_HISTORY roots: a proof made against
\* one of them is not refused, and one made against an older root is.
RecentRootsKnown ==
  \A k \in 0 .. Len(deposits) :
    IsKnownRoot(RootAfter(k)) <=> k > Len(deposits) - ROOT_HISTORY

Committed == {deposits[k].commitment : k \in 1 .. Len(deposits)}

\* The notes that can still be redeemed.
Unspent(t) ==
  {n \in Committed : TokenOf[n] = t /\ NullifierOf[n] \notin nullifierSpent}

\* The most each nullifier can take.
Worth(notes) ==
  [x \in {NullifierOf[n] : n \in notes} |->
     Max({AmountOf[n] : n \in {m \in notes : NullifierOf[m] = x}})]

\* The pool can pay every note that can still be redeemed, in every order and
\* through fees, changed fee recipients and withdrawals to the pool itself.
\* Of two notes of one nullifier only one can be redeemed.
Solvent == \A t \in Token : owned[Pool][t] >= SumFunction(Worth(Unspent(t)))

\* The pool implements the abstract one: a nullifier is published once, for
\* a note that was paid for, and takes at most what that note is worth.
Abstract ==
  INSTANCE ShieldedPool WITH deposited <- Committed, redeemed <- nullifierSpent,
                             vault <- owned[Pool]

ImplementsShieldedPool == Abstract!Spec
=============================================================================
