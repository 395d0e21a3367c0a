------------------------------- MODULE SppNotes -------------------------------
(***************************************************************************)
(* The private balance of a Stellar account (apps/consumer-app/src:        *)
(* utils/stellarSpp/sppClient.ts, stores/sppNoteStore.ts,                  *)
(* utils/stellarSpp/sppRecoveryCoordinator.ts).  What can be spent is in   *)
(* the pool and in the native wallet, which syncs from the chain; what the *)
(* app shows and plans with are the notes it keeps in SecureStore, a       *)
(* record each and an index of their ids.  Deposits and spends write them  *)
(* after the native call, and a recovery reconciles them with the native   *)
(* balance.                                                                *)
(*                                                                         *)
(* Each operation runs once: its id stands for its transaction.  The set   *)
(* up of the account (SppOnboard) is done; the native wallet, its proofs   *)
(* and its lock are one step that takes or refuses an amount.              *)
(***************************************************************************)
EXTENDS Integers, Sequences, FiniteSets, FiniteSetsExt, Functions

CONSTANTS
  Op,          \* deposits and spends
  Amount,      \* what they move
  FirstPool,   \* balances a fresh install may find in the pool
  None,
  MaxUpsets    \* bound: transfers received, restarts, reinstallations

ASSUME NotesAssumption ==
  Amount \subseteq Nat \ {0} /\ FirstPool \subseteq Nat /\ MaxUpsets \in Nat

VARIABLES
  pool,      \* the native balance, once synced
  store,     \* the records: Seq of [id, amount, spent], oldest first
  index,     \* the ids listed
  ops,       \* [Op -> call]
  recovery,  \* the recovery in flight, one at a time
  mixed,     \* calls have overlapped, or a restart has cut one
  upsets

notesVars == <<pool, store, index, ops, recovery, mixed, upsets>>

Recover == <<"recover", None>>
Dep(o) == <<"dep", o>>
Chg(o) == <<"chg", o>>
NewNote(id, amount) == [id |-> id, amount |-> amount, spent |-> FALSE]

Ids(notes) == {n.id : n \in notes}
SumOf(notes) == SumFunction([n \in notes |-> n.amount])

\* listSppNotes: listed, there, unspent.
Shown == {n \in Range(store) : n.id \in index /\ ~ n.spent}
Local == SumOf(Shown)
IsReal(n) == n.id # Recover
RowListed == \E n \in Shown : ~ IsReal(n)

IdleOp == [pc |-> "idle", amount |-> 0, items |-> <<>>, note |-> None, seen |-> {}]
IdleRecovery == [pc |-> "idle", real |-> FALSE, local |-> 0, native |-> 0,
                 note |-> None, seen |-> {}, alone |-> FALSE]

Running(o) == ops[o].pc \notin {"idle", "done"}
Recovering == recovery.pc # "idle"
Quiet == ~ Recovering /\ \A o \in Op : ~ Running(o)

NoteRecord == [id : {Recover} \cup {Dep(o) : o \in Op} \cup {Chg(o) : o \in Op}, amount : Nat, spent : BOOLEAN]

NotesTypeOK ==
  /\ pool \in Nat
  /\ \A i \in DOMAIN store : store[i] \in NoteRecord
  /\ IsInjective([i \in DOMAIN store |-> store[i].id])
  /\ index \subseteq Ids(Range(store))
  /\ \A o \in Op : ops[o].pc \in {"idle", "planned", "commit", "save", "index", "done"}
  /\ recovery.pc \in {"idle", "sync", "save", "index"}
  /\ mixed \in BOOLEAN /\ upsets \in 0 .. MaxUpsets

NotesInit ==
  /\ pool \in FirstPool
  /\ store = <<>> /\ index = {}
  /\ ops = [o \in Op |-> IdleOp] /\ recovery = IdleRecovery
  /\ mixed = FALSE /\ upsets = 0

Upset == upsets < MaxUpsets /\ upsets' = upsets + 1

\* A call that begins beside another.
Begins ==
  /\ mixed' = (mixed \/ ~ Quiet)
  /\ UNCHANGED upsets

Place(id) == CHOOSE i \in DOMAIN store : store[i].id = id
Others(id) ==
  IF id \in Ids(Range(store))
  THEN SubSeq(store, 1, Place(id) - 1) \o SubSeq(store, Place(id) + 1, Len(store))
  ELSE store

\* A record takes the place of the one of its id, and is the newest.
Put(n) == Append(Others(n.id), n)

-----------------------------------------------------------------------------
(* Deposits and spends.                                                    *)

\* Funds go in first, their note is saved afterwards.
DepositImpl(o, a) ==
  /\ ops[o].pc = "idle" /\ Begins
  /\ pool' = pool + a
  /\ ops' = [ops EXCEPT ![o] = [IdleOp EXCEPT !.pc = "save", !.note = NewNote(Dep(o), a)]]
  /\ recovery' = [recovery EXCEPT !.alone = FALSE]
  /\ UNCHANGED <<store, index>>

\* planNotesForAmount: newest first, as many as cover the amount.  A plan has
\* them at their places.
Covering(a) ==
  LET Newer(i) == {n \in Shown : \E j \in DOMAIN store : j > i /\ store[j] = n}
  IN [i \in {i \in DOMAIN store : store[i] \in Shown /\ SumOf(Newer(i)) < a} |-> store[i]]

Newest(plan) == Max(DOMAIN plan)
Rest(plan) == Restrict(plan, DOMAIN plan \ {Newest(plan)})

\* Mutant: the notes are marked when they are planned.
PlanAndMark(o, a) ==
  /\ ops[o].pc = "idle" /\ Local >= a /\ Begins
  /\ ops' = [ops EXCEPT ![o] = [IdleOp EXCEPT !.pc = "planned", !.amount = a, !.items = Covering(a)]]
  /\ store' = [i \in DOMAIN store |-> [store[i] EXCEPT !.spent = @ \/ \E n \in Range(Covering(a)) : n.id = store[i].id]]
  /\ recovery' = [recovery EXCEPT !.alone = FALSE]
  /\ UNCHANGED <<pool, index>>

\* A transfer or a withdrawal plans before it syncs and proves.
PlanSpend(o, a) ==
  /\ ops[o].pc = "idle" /\ Local >= a /\ Begins
  /\ ops' = [ops EXCEPT ![o] = [IdleOp EXCEPT !.pc = "planned", !.amount = a, !.items = Covering(a)]]
  /\ recovery' = [recovery EXCEPT !.alone = FALSE]
  /\ UNCHANGED <<pool, store, index>>

NativeSpend(o) ==
  /\ ops[o].pc = "planned" /\ ops[o].amount <= pool
  /\ pool' = pool - ops[o].amount
  /\ ops' = [ops EXCEPT ![o].pc = "commit"]
  /\ UNCHANGED <<store, index, recovery, mixed, upsets>>

\* The readiness check, the sync or the native call refuses.
SpendFails(o) ==
  /\ ops[o].pc = "planned"
  /\ ops' = [ops EXCEPT ![o] = [IdleOp EXCEPT !.pc = "done"]]
  /\ UNCHANGED <<pool, store, index, recovery, mixed, upsets>>

\* Mutant: the change is the whole note.
CommitWholeNote(o) ==
  /\ ops[o].pc = "commit"
  /\ LET plan == ops[o].items
         n == plan[Newest(plan)]
         left == ops[o].amount - n.amount
     IN /\ store' = [i \in DOMAIN store |-> [store[i] EXCEPT !.spent = @ \/ store[i].id = n.id]]
        /\ index' = index \cup ({n.id} \cap Ids(Range(store)))
        /\ ops' = [ops EXCEPT ![o] =
             IF left < 0 THEN [IdleOp EXCEPT !.pc = "save", !.note = NewNote(Chg(o), n.amount)]
             ELSE IF left = 0 THEN [IdleOp EXCEPT !.pc = "done"]
             ELSE [@ EXCEPT !.amount = left, !.items = Rest(plan)]]
  /\ UNCHANGED <<pool, recovery, mixed, upsets>>

\* commitSpendPlan, note by note: the record as it is by now is marked spent
\* (and listed), the change of the last is saved as a note of its own.
CommitNote(o) ==
  /\ ops[o].pc = "commit"
  /\ LET plan == ops[o].items
         n == plan[Newest(plan)]
         left == ops[o].amount - n.amount
     IN /\ store' = [i \in DOMAIN store |-> [store[i] EXCEPT !.spent = @ \/ store[i].id = n.id]]
        /\ index' = index \cup ({n.id} \cap Ids(Range(store)))
        /\ ops' = [ops EXCEPT ![o] =
             IF left < 0 THEN [IdleOp EXCEPT !.pc = "save", !.note = NewNote(Chg(o), - left)]
             ELSE IF left = 0 THEN [IdleOp EXCEPT !.pc = "done"]
             ELSE [@ EXCEPT !.amount = left, !.items = Rest(plan)]]
  /\ UNCHANGED <<pool, recovery, mixed, upsets>>

\* saveSppNote: the record, then the index read and written back.
SaveNote(o) ==
  /\ ops[o].pc = "save"
  /\ store' = Put(ops[o].note)
  /\ ops' = [ops EXCEPT ![o].pc = "index", ![o].seen = index]
  /\ UNCHANGED <<pool, index, recovery, mixed, upsets>>

ListNote(o) ==
  /\ ops[o].pc = "index"
  /\ index' = ops[o].seen \cup {ops[o].note.id}
  /\ ops' = [ops EXCEPT ![o] = [IdleOp EXCEPT !.pc = "done"]]
  /\ UNCHANGED <<pool, store, recovery, mixed, upsets>>

-----------------------------------------------------------------------------
(* Recovery.                                                               *)

\* recoverSppNotesFromChain reads the notes, then syncs twice.
BeginRecover ==
  /\ ~ Recovering /\ Begins
  /\ recovery' = [IdleRecovery EXCEPT !.pc = "sync", !.real = \E n \in Shown : IsReal(n),
                                      !.local = Local, !.alone = Quiet]
  /\ UNCHANGED <<pool, store, index, ops>>

\* Mutant: the whole balance is added beside the notes.
AllOfIt(r) == pool

\* What the recovery row is to hold: all, or what the notes leave over.
Missing(r) == IF r.real THEN pool - r.local ELSE pool

ReadNative ==
  /\ recovery.pc = "sync" /\ pool > 0
  /\ recovery.real => pool > recovery.local
  /\ recovery' = [recovery EXCEPT !.pc = "save", !.native = pool,
                                  !.note = NewNote(Recover, Missing(recovery))]
  /\ UNCHANGED <<pool, store, index, ops, mixed, upsets>>

\* Nothing is missing, or the sync or the balance fails.
EndRecover ==
  /\ recovery.pc = "sync"
  /\ recovery' = IdleRecovery
  /\ UNCHANGED <<pool, store, index, ops, mixed, upsets>>

SaveRow ==
  /\ recovery.pc = "save"
  /\ store' = Put(recovery.note)
  /\ recovery' = IF Recover \in index THEN IdleRecovery ELSE [recovery EXCEPT !.pc = "index", !.seen = index]
  /\ UNCHANGED <<pool, index, ops, mixed, upsets>>

ListRow ==
  /\ recovery.pc = "index"
  /\ index' = recovery.seen \cup {Recover}
  /\ recovery' = IdleRecovery
  /\ UNCHANGED <<pool, store, ops, mixed, upsets>>

-----------------------------------------------------------------------------
(* The world.                                                              *)

\* Another account transfers to this one.
Receive(a) ==
  /\ Upset
  /\ pool' = pool + a
  /\ UNCHANGED <<store, index, ops, recovery, mixed>>

\* The app stops: calls are gone, and after a reinstallation the notes too.
Stop ==
  /\ Upset
  /\ ops' = [o \in Op |-> IF Running(o) THEN [IdleOp EXCEPT !.pc = "done"] ELSE ops[o]]
  /\ recovery' = IdleRecovery
  /\ mixed' = (mixed \/ ~ Quiet)
  /\ UNCHANGED pool

Restart == Stop /\ UNCHANGED <<store, index>>
Reinstall == Stop /\ store' = <<>> /\ index' = {}

NotesNext ==
  \/ \E o \in Op, a \in Amount : DepositImpl(o, a) \/ PlanSpend(o, a)
  \/ \E o \in Op : NativeSpend(o) \/ SpendFails(o) \/ CommitNote(o) \/ SaveNote(o) \/ ListNote(o)
  \/ BeginRecover \/ ReadNative \/ EndRecover \/ SaveRow \/ ListRow
  \/ \E a \in Amount : Receive(a)
  \/ Restart \/ Reinstall

NotesSpec == NotesInit /\ [][NotesNext]_notesVars

-----------------------------------------------------------------------------
(* Properties.                                                             *)

\* Between calls the app shows no more than the native wallet can spend,
\* unless calls have overlapped or a restart has cut one: a recovery beside a
\* deposit counts it twice, two spends plan with the same note.
NothingTwice == (Quiet /\ ~ mixed) => Local <= pool

\* A recovery that no other call overlaps ends with the native balance it
\* read, unless the notes showed more, or a row of an earlier recovery stands
\* beside notes: the gap is then written over that row, not added to it.
RecoveryReconciles ==
  [][(recovery.pc \in {"save", "index"} /\ recovery'.pc = "idle" /\ recovery.alone /\ upsets' = upsets) =>
       \/ Local' = recovery.native
       \/ RowListed /\ recovery.real]_notesVars

\* What is shown shrinks only when a spend the native wallet took is written
\* down, when the gap replaces an earlier row, when an index is written back
\* over another's, or with the storage.
LossHasCause ==
  [][Local' < Local =>
       \/ \E o \in Op : ops[o].pc = "commit" /\ ops'[o].pc # "commit"
       \/ \E o \in Op : ops[o].pc = "commit" /\ ops'[o].items # ops[o].items
       \/ recovery.pc = "save" /\ RowListed
       \/ \E o \in Op : ops[o].pc = "index" /\ ops[o].seen # index
       \/ recovery.pc = "index" /\ recovery.seen # index
       \/ upsets' # upsets /\ store' = <<>>]_notesVars
=============================================================================
