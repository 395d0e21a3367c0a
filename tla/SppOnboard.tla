------------------------------ MODULE SppOnboard ------------------------------
(***************************************************************************)
(* The set-up of a private Stellar account (apps/consumer-app/src:         *)
(* utils/stellarSpp/sppOnboard.ts, stores/sppAccountStore.ts): sign the    *)
(* derivation message, derive the membership leaf, insert it into the      *)
(* membership contract (ASP), publish the receive keys.  The start of the  *)
(* app, the token selector, home and a deposit each begin the set-up,      *)
(* several at a time; each step reads the record of the account, awaits,   *)
(* and writes the whole record.                                            *)
(*                                                                         *)
(* A deployment stands for its membership contract and its registry; the   *)
(* app may be updated to a later one.  Of the chain the model has the leaf *)
(* of this account, the transactions that insert it, the keys, and whether *)
(* the endpoint still has the events since the deployment: it keeps about  *)
(* a week of them.  One wallet: its wipe (accountWipe.ts) is left out.     *)
(***************************************************************************)
EXTENDS Integers

CONSTANTS
  Call,          \* set-ups that may be under way at once
  Deployment, FirstDeployment,
  None,
  Legacy,        \* the mark of a build that kept no contract id
  RejectsTwice,  \* a contract may trap on a leaf it has
  MaxFaults      \* bound: failed requests, unclear answers, restarts and updates

ASSUME OnboardAssumption ==
  /\ FirstDeployment \in Deployment /\ {None, Legacy} \cap Deployment = {} /\ None # Legacy
  /\ RejectsTwice \subseteq Deployment
  /\ MaxFaults \in Nat

VARIABLES
  record,    \* the account in SecureStore, or None
  config,    \* the deployment this build uses
  calls,     \* [Call -> call]
  leaves,    \* deployments whose contract has the leaf
  sent,      \* transactions under way: [call, of]
  failed,    \* calls whose transaction failed
  published, \* deployments whose registry has the keys
  retained,  \* deployments whose first ledger the endpoint still has
  skipped,   \* those whose event of the leaf falls between two pages
  assumed,   \* <<what, deployment>> marked on an answer that confirms nothing
  faults

events == <<retained, skipped>>
chain == <<leaves, sent, failed, published, events>>
vars == <<record, config, calls, chain, assumed, faults>>

Mark == Deployment \cup {None, Legacy}
Account == [signed : BOOLEAN, leaf : BOOLEAN, inserted : Mark, keys : Mark]
NoAccount == [signed |-> FALSE, leaf |-> FALSE, inserted |-> None, keys |-> None]

Step == {"idle", "sign", "derive", "insert", "find", "submit", "wait", "register",
         "clear", "clearKeys", "mark", "markKeys"}
Idle == [pc |-> "idle", account |-> NoAccount, seen |-> None, full |-> FALSE]

TypeOK ==
  /\ record \in Account \cup {None} /\ config \in Deployment
  /\ calls \in [Call -> [pc : Step, account : Account, seen : Account \cup {None}, full : BOOLEAN]]
  /\ {leaves, published, retained, skipped} \subseteq SUBSET Deployment
  /\ assumed \subseteq {"leaf", "keys"} \X Deployment
  /\ sent \subseteq [call : Call, of : Deployment] /\ failed \subseteq Call
  /\ faults \in 0 .. MaxFaults

Init ==
  /\ record \in {None, [NoAccount EXCEPT !.signed = TRUE],
                 [signed |-> TRUE, leaf |-> TRUE, inserted |-> Legacy, keys |-> Legacy]}
  /\ config = FirstDeployment
  /\ calls = [c \in Call |-> Idle]
  /\ leaves \in SUBSET {FirstDeployment}
  /\ retained = Deployment /\ skipped = {}
  /\ sent = {} /\ failed = {} /\ published = {} /\ assumed = {} /\ faults = 0

Fault == faults < MaxFaults /\ faults' = faults + 1

Goto(c, pc) == calls' = [calls EXCEPT ![c].pc = pc]
Await(c, pc, a) == calls' = [calls EXCEPT ![c].pc = pc, ![c].account = a, ![c].seen = None]
End(c) == calls' = [calls EXCEPT ![c] = Idle]
At(c, pc) == calls[c].pc = pc

-----------------------------------------------------------------------------
(* ensureSppAccountReady, step by step.                                    *)

\* Where the set-up goes on from an account it holds.
AfterKeys(a) ==
  IF ~ a.signed \/ ~ a.leaf THEN "sign" ELSE IF a.inserted # config THEN "insert" ELSE "register"

\* Mutant: the marks are cleared whatever deployment they name.
StaleAlways(m) == m # None

Stale(m) == m \notin {None, config}

FirstStep(a) ==
  IF Stale(a.inserted) THEN "clear" ELSE IF Stale(a.keys) THEN "clearKeys" ELSE AfterKeys(a)

Ensure(c) ==
  /\ At(c, "idle")
  /\ LET a == IF record = None THEN NoAccount ELSE record
     IN calls' = [calls EXCEPT ![c] = [pc |-> FirstStep(a), account |-> a, seen |-> None,
                                       full |-> ~ a.signed]]   \* onboardSppAccount
  /\ UNCHANGED <<record, config, chain, assumed, faults>>

\* markX and clearX read the record, then write it back with one field set.
Fields == [clear |-> "inserted", mark |-> "inserted", clearKeys |-> "keys", markKeys |-> "keys"]

ReadRecord(c) ==
  /\ calls[c].pc \in DOMAIN Fields \cup {"derive"} /\ calls[c].seen = None
  /\ calls' = [calls EXCEPT ![c].seen = IF record = None THEN NoAccount ELSE record]
  /\ UNCHANGED <<record, config, chain, assumed, faults>>

WriteMark(c) ==
  /\ calls[c].pc \in DOMAIN Fields /\ calls[c].seen # None
  /\ LET pc == calls[c].pc
         value == IF pc \in {"mark", "markKeys"} THEN config ELSE None
         a == [calls[c].seen EXCEPT ![Fields[pc]] = value]
     IN /\ record' = a
        /\ CASE pc = "clear" -> Await(c, IF Stale(a.keys) THEN "clearKeys" ELSE AfterKeys(a), a)
             [] pc = "clearKeys" -> Await(c, AfterKeys(a), a)
             [] pc = "mark" -> Await(c, "register", a)
             [] pc = "markKeys" -> End(c)
  /\ UNCHANGED <<config, chain, assumed, faults>>

\* The message is signed with the phrase, or the set-up ends.
Sign(c) ==
  /\ At(c, "sign") /\ Await(c, "derive", calls[c].account)
  /\ UNCHANGED <<record, config, chain, assumed, faults>>

\* onboardSppAccount looks for any mark, ensureSppAccountReady for its own.
AfterDerive(c, a) ==
  IF calls[c].full /\ a.inserted # None THEN "register" ELSE AfterKeys(a)

\* The keys are derived and join the record that was read.
Derive(c) ==
  /\ At(c, "derive") /\ calls[c].seen # None
  /\ LET a == [calls[c].seen EXCEPT !.signed = TRUE, !.leaf = TRUE]
     IN record' = a /\ Await(c, AfterDerive(c, a), a)
  /\ UNCHANGED <<config, chain, assumed, faults>>

\* Without the native module the fingerprint is saved and no leaf.
DeriveNothing(c) ==
  /\ Fault /\ At(c, "derive") /\ calls[c].seen # None
  /\ record' = [calls[c].seen EXCEPT !.signed = TRUE]
  /\ IF calls[c].seen.leaf THEN Await(c, AfterDerive(c, record'), record') ELSE End(c)
  /\ UNCHANGED <<config, chain, assumed>>

\* A failed insertion ends the set-up; onboardSppAccount still publishes.
InsertFailed(c) == IF calls[c].full THEN Await(c, "register", calls[c].account) ELSE End(c)

\* insertAspMembershipLeaf reads the record again.
InsertLeaf(c) ==
  /\ At(c, "insert")
  /\ Goto(c, IF record # None /\ record.inserted = config THEN "register" ELSE "find")
  /\ UNCHANGED <<record, config, chain, assumed, faults>>


\* findAspLeafSeen: an event of the current contract names the leaf.  The
\* events are asked for from the ledger of the deployment, which an endpoint
\* that no longer has it refuses; the refusal reads as no event.  The scan
\* goes on after the last ledger of a page of 200, past what was cut from it.
LeafSeen == config \in (leaves \cap retained) \ skipped

FindLeaf(c) ==
  /\ At(c, "find")
  /\ IF LeafSeen THEN Await(c, "mark", calls[c].account) ELSE Goto(c, "submit")
  /\ UNCHANGED <<record, config, chain, assumed, faults>>

\* A request that fails reads as no event.
FindFails(c) ==
  /\ Fault /\ At(c, "find") /\ Goto(c, "submit")
  /\ UNCHANGED <<record, config, chain, assumed>>

Confirmed(c) == IF LeafSeen THEN Await(c, "mark", calls[c].account) ELSE InsertFailed(c)

\* The simulation traps on a leaf the contract has; the events decide then.
SubmitTraps(c) ==
  /\ At(c, "submit") /\ config \in leaves \cap RejectsTwice
  /\ Confirmed(c)
  /\ UNCHANGED <<record, config, chain, assumed, faults>>

SubmitInsertLeaf(c) ==
  /\ At(c, "submit") /\ config \notin leaves \cap RejectsTwice
  /\ sent' = sent \cup {[call |-> c, of |-> config]}
  /\ Goto(c, "wait")
  /\ UNCHANGED <<record, config, leaves, failed, published, events, assumed, faults>>

\* The hash of a DUPLICATE, the same transaction already under way for another
\* set-up, is taken for success at once; that of a transaction put off
\* (TRY_AGAIN_LATER) after twenty polls that do not find it.
SubmitUnconfirmed(c) ==
  /\ At(c, "submit") /\ config \notin leaves \cap RejectsTwice
  /\ \/ (\E x \in sent : x.of = config) /\ UNCHANGED faults
     \/ Fault
  /\ Await(c, "mark", calls[c].account)
  /\ assumed' = assumed \cup {<<"leaf", config>>}
  /\ UNCHANGED <<record, config, chain>>

\* Mutant: the transaction's failure is not told from its success.
WaitOver(c) ==
  /\ At(c, "wait") /\ [call |-> c, of |-> config] \notin sent
  /\ Await(c, "mark", calls[c].account)
  /\ failed' = failed \ {c}
  /\ UNCHANGED <<record, config, leaves, sent, published, events, assumed, faults>>

\* The transaction is polled: it succeeded, or it failed and the events decide.
WaitEnds(c) ==
  /\ At(c, "wait") /\ [call |-> c, of |-> config] \notin sent
  /\ IF c \in failed THEN Confirmed(c) ELSE Await(c, "mark", calls[c].account)
  /\ failed' = failed \ {c}
  /\ UNCHANGED <<record, config, leaves, sent, published, events, assumed, faults>>

\* After twenty polls its hash is taken for its success.
WaitTimesOut(c) ==
  /\ Fault /\ At(c, "wait") /\ [call |-> c, of |-> config] \in sent
  /\ Await(c, "mark", calls[c].account)
  /\ assumed' = assumed \cup {<<"leaf", config>>}
  /\ UNCHANGED <<record, config, chain>>

Registered(c) == calls[c].account.keys = config \/ (record # None /\ record.keys = config)

\* tryRegisterPublicKeysSoft: skipped when the account held has them already.
Register(c) ==
  /\ At(c, "register")
  /\ IF Registered(c)
       THEN End(c) /\ UNCHANGED published
       ELSE published' = published \cup {config} /\ Await(c, "markKeys", calls[c].account)
  /\ UNCHANGED <<record, config, leaves, sent, failed, events, assumed, faults>>

\* The same for the registration, by a duplicate or twenty polls; and an error
\* of the simulation with "exist", "already", "duplicate" or "noop" in it is
\* taken for keys that are there.  They may or may not get there.
RegisterUnconfirmed(c) ==
  /\ Fault /\ At(c, "register") /\ ~ Registered(c)
  /\ Await(c, "markKeys", calls[c].account)
  /\ published' \in {published, published \cup {config}}
  /\ assumed' = assumed \cup {<<"keys", config>>}
  /\ UNCHANGED <<record, config, leaves, sent, failed, events>>

\* A request or the signature fails; the caller is told and tries again.
Fails(c) ==
  /\ Fault
  /\ \/ calls[c].pc \in {"sign", "register"} /\ End(c)
     \/ At(c, "submit") /\ InsertFailed(c)
  /\ UNCHANGED <<record, config, chain, assumed>>

-----------------------------------------------------------------------------
(* The chain and the app.                                                  *)

\* The call that waits for a transaction is told of its failure.
Told(x) == IF At(x.call, "wait") /\ x.of = config THEN failed \cup {x.call} ELSE failed

\* A transaction runs: it traps on a leaf the contract has, or leaves an event.
Runs(x) ==
  /\ x \in sent
  /\ leaves' = leaves \cup {x.of}
  /\ failed' = IF x.of \in leaves \cap RejectsTwice THEN Told(x) ELSE failed
  /\ sent' = sent \ {x}
  /\ UNCHANGED <<record, config, calls, published, retained, assumed>>

Land(x) ==
  /\ Runs(x)
  /\ skipped' = IF x.of \in leaves \cap RejectsTwice THEN skipped ELSE skipped \ {x.of}
  /\ UNCHANGED faults

\* Its event is one of more than a page in its ledger.
LandCut(x) ==
  /\ Fault /\ Runs(x)
  /\ skipped' = IF x.of \in leaves THEN skipped ELSE skipped \cup {x.of}

\* The ledger of the deployment leaves what the endpoint keeps; for another
\* one it is told only by a build that uses it.
Age ==
  /\ config \in retained /\ retained' = retained \ {config}
  /\ UNCHANGED <<record, config, calls, leaves, sent, failed, published, skipped, assumed, faults>>

\* A transaction fails, or its time bound passes.
Drop(x) ==
  /\ Fault /\ x \in sent
  /\ sent' = sent \ {x} /\ failed' = Told(x)
  /\ UNCHANGED <<record, config, calls, leaves, published, events, assumed>>

\* The app starts again, perhaps in a build for another deployment.
Restart(d) ==
  /\ Fault
  /\ config' = d
  /\ calls' = [c \in Call |-> Idle] /\ failed' = {}
  /\ UNCHANGED <<record, leaves, sent, published, events, assumed>>

CallStep(c) ==
  \/ ReadRecord(c) \/ WriteMark(c) \/ Sign(c) \/ Derive(c) \/ InsertLeaf(c) \/ FindLeaf(c)
  \/ SubmitTraps(c) \/ SubmitInsertLeaf(c) \/ WaitEnds(c) \/ Register(c)

Next ==
  \/ \E c \in Call : \/ Ensure(c) \/ CallStep(c)
                     \/ DeriveNothing(c) \/ FindFails(c) \/ SubmitUnconfirmed(c)
                     \/ WaitTimesOut(c) \/ RegisterUnconfirmed(c) \/ Fails(c)
  \/ \E x \in sent : Land(x) \/ LandCut(x) \/ Drop(x)
  \/ Age \/ \E d \in Deployment : Restart(d)

Spec == Init /\ [][Next]_vars

\* Requests answer, the network takes a transaction or lets it expire, and
\* the set-up is begun again: by every start of the app, every selection of
\* the private asset and every deposit.
Fairness ==
  /\ \A c \in Call : WF_vars(Ensure(c)) /\ WF_vars(CallStep(c))
  /\ WF_vars(\E x \in sent : Land(x))

FairSpec == Spec /\ Fairness

-----------------------------------------------------------------------------
(* Properties.                                                             *)

\* The record names a contract as done only when it has the leaf, or the keys,
\* or when a call took an answer that confirms nothing for a success: a
\* duplicate, a transaction put off or not found in twenty polls, or, for the
\* keys, a simulation error that reads like one.  No concurrent set-up, trap,
\* crash, lost event or update makes it name anything else.
InsertedIsOnChain ==
  record # None =>
    /\ record.inserted \in Deployment =>
         record.inserted \in leaves \/ <<"leaf", record.inserted>> \in assumed
    /\ record.keys \in Deployment =>
         record.keys \in published \/ <<"keys", record.keys>> \in assumed

\* A write takes the mark of the current contract away only with an account
\* read, or a decision taken, before the mark was there.
MarkStays ==
  [][(record # None /\ record.inserted = config /\ record'.inserted # config /\ config' = config) =>
       \E c \in Call : \/ calls[c].seen # None /\ calls[c].seen.inserted # config
                       \/ calls[c].account.inserted # config]_vars

Ready ==
  /\ record # None /\ record.inserted = config /\ record.keys = config
  /\ config \in leaves \/ <<"leaf", config>> \in assumed
  /\ config \in published \/ <<"keys", config>> \in assumed

\* The contract traps on the leaf it has, and no event is there to tell.
Unseen == config \in leaves \cap RejectsTwice /\ (config \notin retained \/ config \in skipped)

=============================================================================
