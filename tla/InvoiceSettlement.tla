------------------------- MODULE InvoiceSettlement -------------------------
(***************************************************************************)
(* How an invoice is settled: the rows of the invoices and payments tables *)
(* and the writers of them that the services run.                          *)
(*                                                                         *)
(*   - merchant HTTP requests that pay or cancel (controllers/             *)
(*     invoiceController.ts, controllers/paymentController.ts);            *)
(*   - the polling sweep of Solana and Stellar (jobs/chainIndexer.ts), one *)
(*     worker per address, sweeps of two instances overlapping when the    *)
(*     10 s lock lapses;                                                   *)
(*   - the EVM event handlers of the indexer service (websocket.ts);       *)
(*   - the expiry sweep (lib/invoiceExpiry.ts).                            *)
(*                                                                         *)
(* Requests and sweep workers share confirmInvoicePayment, so both are     *)
(* Callers with one record of where they are. A step is one awaited call:  *)
(* everything between two awaits happens at once, a $transaction commits   *)
(* at once or not at all. A process that dies loses where it was and       *)
(* keeps its rows.                                                         *)
(***************************************************************************)
EXTENDS Naturals, FiniteSets

CONSTANTS
  Invoice,       \* rows of the invoices table
  Tx,            \* on-chain transactions
  Hash,          \* spellings of transaction hashes: the key is (chainKey, txHash)
  OnChain,       \* [Hash -> Tx], the transaction a spelling names
  Spelling,      \* [Tx -> Hash], how the chain's own history and events spell it
  Terms,         \* [Invoice -> what must be paid]
  Transfer,      \* [Tx -> what was paid]
  EvmChain,      \* the chains the indexer service listens to
  EchoChain,     \* chains whose verifier returns the hash as the caller spelled it
  Lifetime,      \* [Invoice -> expiresInMinutes], in ticks
  Request,       \* HTTP requests in flight at once
  Sweeper,       \* chainIndexer sweeps that may overlap
  Handler,       \* EVM event handlers in flight at once
  Expirer,       \* expiry sweeps that may overlap
  SweepLimit,    \* MAX_PENDING_INVOICES_PER_SWEEP
  HistoryPage,   \* transactions one address-history fetch returns
  MaxTime,       \* bound: ticks of the clock
  MaxFaults,     \* bound: crashes and failed calls
  None           \* no transaction, no hash, no invoice

Address == {Terms[i].to : i \in Invoice}
Worker == Sweeper \X Address
Caller == Request \cup Worker

\* A tick is the grain at which the code compares dates with `now`.
ASSUME BoundsAssumption ==
  /\ MaxTime \in Nat /\ MaxFaults \in Nat
  /\ SweepLimit \in Nat \ {0} /\ HistoryPage \in Nat \ {0}
  /\ Lifetime \in [Invoice -> Nat \ {0}]

ASSUME NoneAssumption == None \notin Tx /\ None \notin Hash /\ None \notin Invoice

ASSUME TxAssumption == IsFiniteSet(Tx)

\* Hex digits have two cases and the key compares them as they are: one
\* transaction may have many spellings, the chain's own among them.
ASSUME HashAssumption ==
  /\ OnChain \in [Hash -> Tx]
  /\ Spelling \in [Tx -> Hash]
  /\ \A t \in Tx : OnChain[Spelling[t]] = t

\* Terms and transfers: chain, recipient, token and amount.
ASSUME FactsAssumption ==
  /\ DOMAIN Terms = Invoice
  /\ DOMAIN Transfer = Tx
  /\ \A i \in Invoice : Terms[i].amount \in Nat
  /\ \A t \in Tx : Transfer[t].amount \in Nat

ASSUME ProcessAssumption == Request \cap Worker = {}

VARIABLES
  status,        \* invoices.status, "absent" before the row exists
  createdAt,     \* invoices.createdAt
  expiresAt,     \* invoices.expiresAt
  paymentTxHash, \* invoices.paymentTxHash
  recorded,      \* payments.txHash of every payments row
  invoiceId,     \* payments.invoiceId, None for null
  landedAt,      \* height at which a transaction is on chain, 0 if it is not
  now,           \* the clock
  received,      \* payment.received events handed to enqueueWebhook
  expired,       \* invoice.expired events handed to enqueueWebhook
  call,          \* where each Caller is: [pc, inv, hash]
  todo,          \* invoices a sweep worker has still to match
  seen,          \* the history page a sweep worker fetched
  expiry,        \* where each Expirer is: [pc, inv, due]
  handler,       \* where each Handler is: [pc, inv, tx]
  faults         \* crashes and failed calls so far

rows == <<status, createdAt, expiresAt, paymentTxHash, recorded, invoiceId>>
events == <<received, expired>>
sweep == <<todo, seen>>
world == <<landedAt, now>>
vars == <<rows, events, call, sweep, expiry, handler, world, faults>>

-----------------------------------------------------------------------------
(* Facts about a transaction and an invoice.                               *)

SameChain(t, i) == Transfer[t].chain = Terms[i].chain
SameTo(t, i) == Transfer[t].to = Terms[i].to
SameToken(t, i) == Transfer[t].token = Terms[i].token
SameAmount(t, i) == Transfer[t].amount = Terms[i].amount

\* The polling sweep's comparison of a history entry with an invoice.
SweepMatches(t, i) ==
  SameChain(t, i) /\ SameTo(t, i) /\ SameToken(t, i) /\ SameAmount(t, i)

\* verifyPaymentTxOnChain: an EVM transfer may exceed the invoice.
Verifies(t, i) ==
  /\ SameChain(t, i) /\ SameTo(t, i) /\ SameToken(t, i)
  /\ IF Terms[i].chain \in EvmChain
     THEN Transfer[t].amount >= Terms[i].amount
     ELSE SameAmount(t, i)

\* The where clause of matchPaymentToInvoice: the token is not part of it.
EventMatches(t, i) == SameChain(t, i) /\ SameTo(t, i) /\ SameAmount(t, i)

\* Mutant: no verifier looks the hash up in the chain's history.
StoredAsClaimed(h) == h

\* Echoing, or reading the chain's history, the verifier settles what is stored.
Stored(h) ==
  IF Transfer[OnChain[h]].chain \in EchoChain THEN h ELSE Spelling[OnChain[h]]

GoodFor ==
  {p \in Tx \X Invoice :
     \/ Verifies(p[1], p[2])
     \/ SweepMatches(p[1], p[2])
     \/ EventMatches(p[1], p[2]) /\ Transfer[p[1]].chain \in EvmChain}

Landed == {t \in Tx : landedAt[t] > 0}
Pending == {i \in Invoice : status[i] = "pending"}

\* orderBy [{ expiresAt: asc }, { createdAt: asc }]
SoonerDue(i, j) ==
  \/ expiresAt[i] < expiresAt[j]
  \/ expiresAt[i] = expiresAt[j] /\ createdAt[i] < createdAt[j]

Sweepable == {i \in Pending : Terms[i].chain \notin EvmChain /\ expiresAt[i] > now}

\* take: MAX_PENDING_INVOICES_PER_SWEEP of the ordered rows; ties fall anyhow.
Batches ==
  {B \in SUBSET Sweepable :
     /\ \/ Cardinality(B) = SweepLimit
        \/ Cardinality(B) < SweepLimit /\ B = Sweepable
     /\ \A i \in B, j \in Sweepable \ B : ~ SoonerDue(j, i)}

\* What fetchPaymentsForChain returns for address a: the newest page.
History(a) ==
  LET credits == {t \in Landed : Transfer[t].to = a /\ Transfer[t].chain \notin EvmChain}
  IN  {t \in credits :
         Cardinality({u \in credits : landedAt[u] > landedAt[t]}) < HistoryPage}

-----------------------------------------------------------------------------
Idle == [pc |-> "idle", inv |-> None, hash |-> None]
Refused == [Idle EXCEPT !.pc = "refused"]
Idempotent == [Idle EXCEPT !.pc = "idempotent"]
Listening == [pc |-> "idle", inv |-> None, tx |-> None]
Watching == [pc |-> "loop", inv |-> None, due |-> {}]

\* A request at rest remembers the reply it gave.
Replies == {"created", "idempotent", "refused", "cancelled"}
AtRest == {"idle"} \cup Replies

CallPC == AtRest \cup {"verify", "record", "notify", "duplicate", "raced", "noWinner",
                       "cancel", "fetch", "scan"}

TypeOK ==
  /\ status \in [Invoice -> {"absent", "pending", "paid", "expired", "cancelled"}]
  /\ createdAt \in [Invoice -> Nat]
  /\ expiresAt \in [Invoice -> Nat]
  /\ paymentTxHash \in [Invoice -> Hash \cup {None}]
  /\ recorded \subseteq Hash
  /\ invoiceId \in [Hash -> Invoice \cup {None}]
  /\ landedAt \in [Tx -> Nat]
  /\ now \in Nat
  /\ received \in [Invoice -> Nat]
  /\ expired \in [Invoice -> Nat]
  /\ call \in [Caller -> [pc : CallPC, inv : Invoice \cup {None}, hash : Hash \cup {None}]]
  /\ todo \in [Worker -> SUBSET Invoice]
  /\ seen \in [Worker -> SUBSET Tx]
  /\ expiry \in [Expirer -> [pc : {"loop", "notify"}, inv : Invoice \cup {None},
                             due : SUBSET Invoice]]
  /\ handler \in [Handler -> [pc : {"idle", "open", "begin", "commit", "notify"},
                              inv : Invoice \cup {None}, tx : Tx \cup {None}]]
  /\ faults \in Nat

Init ==
  /\ status = [i \in Invoice |-> "absent"]
  /\ createdAt = [i \in Invoice |-> 0]
  /\ expiresAt = [i \in Invoice |-> 0]
  /\ paymentTxHash = [i \in Invoice |-> None]
  /\ recorded = {}
  /\ invoiceId = [h \in Hash |-> None]
  /\ landedAt = [t \in Tx |-> 0]
  /\ now = 0
  /\ received = [i \in Invoice |-> 0]
  /\ expired = [i \in Invoice |-> 0]
  /\ call = [p \in Caller |-> Idle]
  /\ todo = [w \in Worker |-> {}]
  /\ seen = [w \in Worker |-> {}]
  /\ expiry = [e \in Expirer |-> Watching]
  /\ handler = [h \in Handler |-> Listening]
  /\ faults = 0

-----------------------------------------------------------------------------
(* The world: the clock, the chains, and invoices being created.           *)

Tick ==
  /\ now < MaxTime
  /\ now' = now + 1
  /\ UNCHANGED <<rows, events, call, sweep, expiry, handler, landedAt, faults>>

\* A block with the transaction; no block is ever reorganised away.
Land(t) ==
  /\ landedAt[t] = 0
  /\ landedAt' = [landedAt EXCEPT ![t] = Cardinality(Landed) + 1]
  /\ UNCHANGED <<rows, events, call, sweep, expiry, handler, now, faults>>

CreateInvoice(i) ==
  /\ status[i] = "absent"
  /\ status' = [status EXCEPT ![i] = "pending"]
  /\ createdAt' = [createdAt EXCEPT ![i] = now]
  /\ expiresAt' = [expiresAt EXCEPT ![i] = now + Lifetime[i]]
  /\ UNCHANGED <<paymentTxHash, recorded, invoiceId, events, call, sweep, expiry,
                 handler, world, faults>>

-----------------------------------------------------------------------------
(* confirmInvoicePayment, entered at "record" by a request or a worker p.  *)
(* The invoice it was given may have changed since p read it.              *)

Goto(p, pc) == call' = [call EXCEPT ![p].pc = pc]

\* Only p's own place changes.
OnlyMoves(p, pc) ==
  /\ Goto(p, pc)
  /\ UNCHANGED <<rows, events, sweep, expiry, handler, world, faults>>

Place(p, place) ==
  /\ call' = [call EXCEPT ![p] = place]
  /\ UNCHANGED <<rows, events, sweep, expiry, handler, world, faults>>

\* pending -> paid with its transaction, the payments row with it.
Pay(i, h, link) ==
  /\ status' = [status EXCEPT ![i] = "paid"]
  /\ paymentTxHash' = [paymentTxHash EXCEPT ![i] = h]
  /\ recorded' = recorded \cup {h}
  /\ invoiceId' = [invoiceId EXCEPT ![h] = link]
  /\ UNCHANGED <<createdAt, expiresAt>>

\* payment.create meets the unique (chainKey, txHash): P2002.
RecordDuplicate(p) ==
  /\ call[p].pc = "record"
  /\ call[p].hash \in recorded
  /\ OnlyMoves(p, "duplicate")

\* updateMany touched no row: InvoiceStatusRaceError rolls the create back.
RecordRaced(p) ==
  /\ call[p].pc = "record"
  /\ call[p].hash \notin recorded
  /\ status[call[p].inv] # "pending"
  /\ OnlyMoves(p, "raced")

\* Mutants: the unique key, or the compare of the compare-and-set, is gone.
RecordPaymentTwice(p) ==
  /\ call[p].pc = "record"
  /\ status[call[p].inv] = "pending"
  /\ Pay(call[p].inv, call[p].hash, call[p].inv)
  /\ Goto(p, "notify")
  /\ UNCHANGED <<events, sweep, expiry, handler, world, faults>>

RecordPaymentUnchecked(p) ==
  /\ call[p].pc = "record"
  /\ call[p].hash \notin recorded
  /\ Pay(call[p].inv, call[p].hash, call[p].inv)
  /\ Goto(p, "notify")
  /\ UNCHANGED <<events, sweep, expiry, handler, world, faults>>

RecordPayment(p) ==
  /\ call[p].pc = "record"
  /\ call[p].hash \notin recorded
  /\ status[call[p].inv] = "pending"
  /\ Pay(call[p].inv, call[p].hash, call[p].inv)
  /\ Goto(p, "notify")
  /\ UNCHANGED <<events, sweep, expiry, handler, world, faults>>

\* Mutant: the reply does not wait for the enqueue.
NotifyReceivedLost(p) ==
  /\ call[p].pc = "notify"
  /\ OnlyMoves(p, "created")

NotifyReceived(p) ==
  /\ call[p].pc = "notify"
  /\ received' = [received EXCEPT ![call[p].inv] = @ + 1]
  /\ Goto(p, "created")
  /\ UNCHANGED <<rows, expired, sweep, expiry, handler, world, faults>>

\* The row that caused P2002 answers the call, whatever invoice it pays.
AnswerDuplicate(p) ==
  /\ call[p].pc = "duplicate"
  /\ call[p].hash \in recorded
  /\ Place(p, Idempotent)

\* findFirst a confirmed payment linked to the invoice.
FindWinner(p) ==
  /\ call[p].pc = "raced"
  /\ Place(p, IF \E h \in recorded : invoiceId[h] = call[p].inv
              THEN Idempotent ELSE [call[p] EXCEPT !.pc = "noWinner"])

\* InvoiceNotPayableError, whatever the status read last says.
NotPayable(p) ==
  /\ call[p].pc = "noWinner"
  /\ Place(p, Refused)

ConfirmInvoicePayment(p) ==
  \/ RecordDuplicate(p) \/ RecordRaced(p) \/ RecordPayment(p)
  \/ NotifyReceived(p) \/ AnswerDuplicate(p) \/ FindWinner(p) \/ NotPayable(p)

-----------------------------------------------------------------------------
(* payInvoice, confirmPayment and cancelInvoice.                           *)

\* Mutant: the arguments are swapped.
PayInvoiceSwapped(r, i, h) ==
  /\ call[r].pc \in AtRest
  /\ status[i] = "pending"
  /\ Place(r, [pc |-> "verify", inv |-> h, hash |-> i])

\* 409 unless pending, otherwise on to the verifier.
PayInvoice(r, i, h) ==
  /\ call[r].pc \in AtRest
  /\ status[i] # "absent"
  /\ Place(r, IF status[i] = "pending"
              THEN [pc |-> "verify", inv |-> i, hash |-> h] ELSE Refused)

\* Mutant: a transaction that is in no block passes.
VerifyUnconfirmed(r) ==
  /\ call[r].pc = "verify"
  /\ Place(r, IF Verifies(OnChain[call[r].hash], call[r].inv)
              THEN [call[r] EXCEPT !.pc = "record"] ELSE Refused)

\* A transaction that fits may still have too few confirmations.  What is
\* settled is the hash the verifier returns.
VerifyPaymentTxOnChain(r) ==
  /\ call[r].pc = "verify"
  /\ \/ /\ OnChain[call[r].hash] \in Landed
        /\ Verifies(OnChain[call[r].hash], call[r].inv)
        /\ Place(r, [pc |-> "record", inv |-> call[r].inv, hash |-> Stored(call[r].hash)])
     \/ Place(r, Refused)

\* The other way to pay: the body names a chain, which must be the invoice's.
ConfirmPayment(r, i, h) ==
  \/ PayInvoice(r, i, h)
  \/ /\ call[r].pc \in AtRest
     /\ status[i] = "pending"
     /\ Place(r, Refused)

CancelInvoice(r, i) ==
  /\ call[r].pc \in AtRest
  /\ status[i] # "absent"
  /\ Place(r, IF status[i] = "pending"
              THEN [pc |-> "cancel", inv |-> i, hash |-> None] ELSE Refused)

\* prisma.invoice.update by id alone: the status read before is not checked again.
WriteCancelled(r) ==
  /\ call[r].pc = "cancel"
  /\ status' = [status EXCEPT ![call[r].inv] = "cancelled"]
  /\ call' = [call EXCEPT ![r] = [Idle EXCEPT !.pc = "cancelled"]]
  /\ UNCHANGED <<createdAt, expiresAt, paymentTxHash, recorded, invoiceId, events,
                 sweep, expiry, handler, world, faults>>

HttpNext ==
  \E r \in Request :
    \/ \E i \in Invoice, h \in Hash : PayInvoice(r, i, h) \/ ConfirmPayment(r, i, h)
    \/ \E i \in Invoice : CancelInvoice(r, i)
    \/ VerifyPaymentTxOnChain(r)
    \/ WriteCancelled(r)

-----------------------------------------------------------------------------
(* sweepPendingInvoices: one list of invoices, then one worker per address. *)

WorkersOf(s) == {w \in Worker : w[1] = s}

StartSweep(s) ==
  /\ \A w \in WorkersOf(s) : call[w].pc = "idle"
  /\ Sweepable # {}
  /\ \E B \in Batches :
       /\ todo' = [w \in Worker |->
                     IF w[1] = s THEN {i \in B : Terms[i].to = w[2]} ELSE todo[w]]
       /\ call' = [p \in Caller |->
                     IF p \in WorkersOf(s) /\ \E i \in B : Terms[i].to = p[2]
                     THEN [Idle EXCEPT !.pc = "fetch"]
                     ELSE call[p]]
  /\ UNCHANGED <<rows, events, seen, expiry, handler, world, faults>>

FetchHistory(w) ==
  /\ call[w].pc = "fetch"
  /\ seen' = [seen EXCEPT ![w] = History(w[2])]
  /\ Goto(w, "scan")
  /\ UNCHANGED <<rows, events, todo, expiry, handler, world, faults>>

\* Ready for the next invoice of the group.
Scanning(w) == call[w].pc \in {"scan", "created", "idempotent"}

Matching(w, i) == {t \in seen[w] : SweepMatches(t, i)}

\* The first match of the page, newest first, is confirmed and ends the
\* invoice's turn, even when the transaction is spent already.
MatchInvoice(w, i, t) ==
  /\ Scanning(w)
  /\ i \in todo[w]
  /\ \A j \in todo[w] : ~ SoonerDue(j, i)
  /\ t \in Matching(w, i)
  /\ \A u \in Matching(w, i) : landedAt[u] <= landedAt[t]
  /\ todo' = [todo EXCEPT ![w] = @ \ {i}]
  /\ call' = [call EXCEPT ![w] = [pc |-> "record", inv |-> i, hash |-> Spelling[t]]]
  /\ UNCHANGED <<rows, events, seen, expiry, handler, world, faults>>

SkipInvoice(w, i) ==
  /\ Scanning(w)
  /\ i \in todo[w]
  /\ \A j \in todo[w] : ~ SoonerDue(j, i)
  /\ Matching(w, i) = {}
  /\ todo' = [todo EXCEPT ![w] = @ \ {i}]
  /\ Goto(w, "scan")
  /\ UNCHANGED <<rows, events, seen, expiry, handler, world, faults>>

DropGroup(w) ==
  /\ call' = [call EXCEPT ![w] = Idle]
  /\ todo' = [todo EXCEPT ![w] = {}]
  /\ seen' = [seen EXCEPT ![w] = {}]

\* The group is done, or an InvoiceNotPayableError ends it early.
EndGroup(w) ==
  /\ \/ Scanning(w) /\ todo[w] = {}
     \/ call[w].pc = "refused"
  /\ DropGroup(w)
  /\ UNCHANGED <<rows, events, expiry, handler, world, faults>>

WorkerStep(w) ==
  \/ FetchHistory(w)
  \/ \E i \in Invoice, t \in Tx : MatchInvoice(w, i, t)
  \/ \E i \in Invoice : SkipInvoice(w, i)
  \/ EndGroup(w)

SweepNext ==
  \/ \E s \in Sweeper : StartSweep(s)
  \/ \E w \in Worker : WorkerStep(w)

-----------------------------------------------------------------------------
(* expirePendingInvoices.                                                  *)

\* Mutant: only what falls due at this very tick.
DueNow == {i \in Pending : expiresAt[i] = now}

Overdue == {i \in Pending : expiresAt[i] < now}

FindOverdue(e) ==
  /\ expiry[e] = Watching
  /\ Overdue # {}
  /\ expiry' = [expiry EXCEPT ![e].due = Overdue]
  /\ UNCHANGED <<rows, events, call, sweep, handler, world, faults>>

\* Mutant: update by id, as if the list were still true.
ExpireUnchecked(e, i) ==
  /\ expiry[e].pc = "loop"
  /\ i \in expiry[e].due
  /\ status' = [status EXCEPT ![i] = "expired"]
  /\ expiry' = [expiry EXCEPT ![e] = [pc |-> "notify", inv |-> i, due |-> @.due \ {i}]]
  /\ UNCHANGED <<createdAt, expiresAt, paymentTxHash, recorded, invoiceId, events,
                 call, sweep, handler, world, faults>>

\* updateMany where pending: notify only if this sweep flipped the row.
ExpireInvoice(e, i) ==
  /\ expiry[e].pc = "loop"
  /\ i \in expiry[e].due
  /\ status[i] = "pending"
  /\ status' = [status EXCEPT ![i] = "expired"]
  /\ expiry' = [expiry EXCEPT ![e] = [pc |-> "notify", inv |-> i, due |-> @.due \ {i}]]
  /\ UNCHANGED <<createdAt, expiresAt, paymentTxHash, recorded, invoiceId, events,
                 call, sweep, handler, world, faults>>

SkipExpiry(e, i) ==
  /\ expiry[e].pc = "loop"
  /\ i \in expiry[e].due
  /\ status[i] # "pending"
  /\ expiry' = [expiry EXCEPT ![e].due = @ \ {i}]
  /\ UNCHANGED <<rows, events, call, sweep, handler, world, faults>>

NotifyExpired(e) ==
  /\ expiry[e].pc = "notify"
  /\ expired' = [expired EXCEPT ![expiry[e].inv] = @ + 1]
  /\ expiry' = [expiry EXCEPT ![e].pc = "loop", ![e].inv = None]
  /\ UNCHANGED <<rows, received, call, sweep, handler, world, faults>>

ExpirerStep(e) ==
  \/ FindOverdue(e)
  \/ \E i \in Invoice : ExpireInvoice(e, i) \/ SkipExpiry(e, i)
  \/ NotifyExpired(e)

-----------------------------------------------------------------------------
(* handleEvent and processEvent of the indexer service.  The live listener *)
(* and a replay may both deliver an event, any number of times.            *)

OnlyHandler(h, place) ==
  /\ handler' = [handler EXCEPT ![h] = place]
  /\ UNCHANGED <<rows, events, call, sweep, expiry, world, faults>>

DeliverEvent(h, t) ==
  /\ handler[h].pc = "idle"
  /\ t \in Landed
  /\ Transfer[t].chain \in EvmChain
  /\ OnlyHandler(h, [pc |-> "open", inv |-> None, tx |-> t])

\* event.txHash, which comes from the node.
EventHash(h) == Spelling[handler[h].tx]

\* The transaction is known, or is none of a merchant's, or goes on.
FindExistingPayment(h) ==
  /\ handler[h].pc = "open"
  /\ \/ OnlyHandler(h, Listening)
     \/ /\ EventHash(h) \notin recorded
        /\ OnlyHandler(h, [handler[h] EXCEPT !.pc = "begin"])

\* findFirst ... orderBy createdAt asc
Candidates(t) == {i \in Pending : expiresAt[i] >= now /\ EventMatches(t, i)}
Oldest(S) == {i \in S : \A j \in S : createdAt[i] <= createdAt[j]}

\* The payment is inserted for the merchant found, then the invoice is read
\* that it may settle: none, when that merchant is the payer.
MatchPaymentToInvoice(h) ==
  /\ handler[h].pc = "begin"
  /\ EventHash(h) \notin recorded
  /\ \E i \in Oldest(Candidates(handler[h].tx)) \cup {None} :
       OnlyHandler(h, [handler[h] EXCEPT !.pc = "commit", !.inv = i])

\* Mutant: the compare of the compare-and-set is gone.
CommitUnchecked(h) ==
  /\ handler[h].pc = "commit" /\ handler[h].inv # None
  /\ EventHash(h) \notin recorded
  /\ Pay(handler[h].inv, EventHash(h), None)
  /\ handler' = [handler EXCEPT ![h].pc = "notify"]
  /\ UNCHANGED <<events, call, sweep, expiry, world, faults>>

\* updateMany where pending, and the commit: the payment has no invoiceId.
CommitSettled(h) ==
  /\ handler[h].pc = "commit"
  /\ EventHash(h) \notin recorded
  /\ handler[h].inv # None
  /\ status[handler[h].inv] = "pending"
  /\ Pay(handler[h].inv, EventHash(h), None)
  /\ handler' = [handler EXCEPT ![h].pc = "notify"]
  /\ UNCHANGED <<events, call, sweep, expiry, world, faults>>

\* No invoice, or it is no longer pending: the payment stands alone.
CommitUnmatched(h) ==
  /\ handler[h].pc = "commit"
  /\ EventHash(h) \notin recorded
  /\ handler[h].inv # None => status[handler[h].inv] # "pending"
  /\ recorded' = recorded \cup {EventHash(h)}
  /\ handler' = [handler EXCEPT ![h] = Listening]
  /\ UNCHANGED <<status, createdAt, expiresAt, paymentTxHash, invoiceId, events, call,
                 sweep, expiry, world, faults>>

\* Another writer recorded the transaction first: P2002 is logged and dropped.
CommitDuplicate(h) ==
  /\ handler[h].pc \in {"begin", "commit"}
  /\ EventHash(h) \in recorded
  /\ OnlyHandler(h, Listening)

NotifySettled(h) ==
  /\ handler[h].pc = "notify"
  /\ received' = [received EXCEPT ![handler[h].inv] = @ + 1]
  /\ handler' = [handler EXCEPT ![h] = Listening]
  /\ UNCHANGED <<rows, expired, call, sweep, expiry, world, faults>>

HandlerStep(h) ==
  \/ FindExistingPayment(h) \/ MatchPaymentToInvoice(h)
  \/ CommitSettled(h) \/ CommitUnmatched(h) \/ CommitDuplicate(h)
  \/ NotifySettled(h)

-----------------------------------------------------------------------------
(* Faults.  A process that stops keeps nothing but its committed rows; a   *)
(* rejected database or network call answers 500, ends the worker's group, *)
(* ends the expiry sweep, or is logged by the handler.                     *)

Fault == faults < MaxFaults /\ faults' = faults + 1

BackendCrash ==
  /\ Fault
  /\ call' = [p \in Caller |-> Idle]
  /\ todo' = [w \in Worker |-> {}]
  /\ seen' = [w \in Worker |-> {}]
  /\ expiry' = [e \in Expirer |-> Watching]
  /\ UNCHANGED <<rows, events, handler, world>>

IndexerCrash ==
  /\ Fault
  /\ handler' = [h \in Handler |-> Listening]
  /\ UNCHANGED <<rows, events, call, sweep, expiry, world>>

RequestFails(r) ==
  /\ Fault
  /\ call[r].pc \notin AtRest
  /\ call' = [call EXCEPT ![r] = Idle]
  /\ UNCHANGED <<rows, events, sweep, expiry, handler, world>>

WorkerFails(w) ==
  /\ Fault
  /\ call[w].pc # "idle"
  /\ DropGroup(w)
  /\ UNCHANGED <<rows, events, expiry, handler, world>>

ExpirerFails(e) ==
  /\ Fault
  /\ expiry[e] # Watching
  /\ expiry' = [expiry EXCEPT ![e] = Watching]
  /\ UNCHANGED <<rows, events, call, sweep, handler, world>>

HandlerFails(h) ==
  /\ Fault
  /\ handler[h].pc # "idle"
  /\ handler' = [handler EXCEPT ![h] = Listening]
  /\ UNCHANGED <<rows, events, call, sweep, expiry, world>>

FaultNext ==
  \/ BackendCrash \/ IndexerCrash
  \/ \E r \in Request : RequestFails(r)
  \/ \E w \in Worker : WorkerFails(w)
  \/ \E e \in Expirer : ExpirerFails(e)
  \/ \E h \in Handler : HandlerFails(h)

-----------------------------------------------------------------------------
Next ==
  \/ Tick
  \/ \E t \in Tx : Land(t)
  \/ \E i \in Invoice : CreateInvoice(i)
  \/ \E p \in Caller : ConfirmInvoicePayment(p)
  \/ HttpNext
  \/ SweepNext
  \/ \E e \in Expirer : ExpirerStep(e)
  \/ \E h \in Handler : (\E t \in Tx : DeliverEvent(h, t)) \/ HandlerStep(h)
  \/ FaultNext

Spec == Init /\ [][Next]_vars

(***************************************************************************)
(* A process the event loop runs is not stopped forever, the timers start  *)
(* the sweeps again and again; nobody promises that a request, an event or *)
(* a new block ever comes.                                                 *)
(***************************************************************************)
Fairness ==
  /\ \A p \in Caller : WF_vars(ConfirmInvoicePayment(p))
  /\ \A s \in Sweeper : WF_vars(StartSweep(s))
  /\ \A w \in Worker : WF_vars(WorkerStep(w))
  /\ \A e \in Expirer : WF_vars(ExpirerStep(e))
  /\ \A h \in Handler : WF_vars(HandlerStep(h))

FairSpec == Spec /\ Fairness

-----------------------------------------------------------------------------
(* What settlement promises.                                               *)

\* No stored hash pays two invoices: the unique (chainKey, txHash) and the
\* rollback hold through every race of requests, sweeps and event handlers.
OneHashOneInvoice ==
  \A i, j \in Invoice :
    paymentTxHash[i] # None /\ paymentTxHash[i] = paymentTxHash[j] => i = j

\* No transaction pays two invoices.  The key compares spellings, so this
\* rests on the hash that is stored being the chain's own.
OneTxOneInvoice ==
  \A i, j \in Invoice :
    paymentTxHash[i] # None /\ paymentTxHash[j] # None
      /\ OnChain[paymentTxHash[i]] = OnChain[paymentTxHash[j]] => i = j

\* What a chain must give for that: where the verifier returns the caller's
\* spelling, a transaction has one.  It is so of Solana, whose verifier returns
\* the spelling of the history; hex hashes (EVM, Stellar) have more than one.
SpelledOnce ==
  \A g, h \in Hash :
    OnChain[g] = OnChain[h] /\ Transfer[OnChain[g]].chain \in EchoChain => g = h

\* A paid invoice has a landed transaction good for it, with a payments row;
\* the row is linked when the backend settled it, and a linked row belongs to
\* the invoice it settled.  The two tables never disagree, whoever wrote them.
SettlementBacked ==
  /\ \A i \in Invoice :
       /\ status[i] = "paid" => paymentTxHash[i] # None
       /\ paymentTxHash[i] # None =>
            LET h == paymentTxHash[i]
            IN  /\ OnChain[h] \in Landed /\ h \in recorded
                /\ <<OnChain[h], i>> \in GoodFor
                /\ status[i] \in {"paid", "cancelled"}
                /\ invoiceId[h] \in {i, None}
                /\ Terms[i].chain \notin EvmChain => invoiceId[h] = i
  /\ \A h \in Hash : invoiceId[h] # None => paymentTxHash[invoiceId[h]] = h

\* The merchant hears of one end of an invoice, once, and of the true one:
\* the losers of every settle/settle and settle/expire race stay silent.
OneNotice ==
  \A i \in Invoice :
    /\ received[i] + expired[i] <= 1
    /\ received[i] = 1 => paymentTxHash[i] # None
    /\ expired[i] = 1 => paymentTxHash[i] = None

\* A reply "created" is about this invoice and this transaction, and the
\* event went out before it (the enqueue is awaited before the response).
CreatedMeansSettled ==
  \A p \in Caller :
    call[p].pc = "created" =>
      /\ paymentTxHash[call[p].inv] = call[p].hash
      /\ received[call[p].inv] = 1

\* What closed stays closed: a transaction once written to an invoice is never
\* replaced, and an expired or cancelled invoice is never paid or reopened.
Irrevocable ==
  [][\A i \in Invoice :
       /\ paymentTxHash[i] # None => paymentTxHash'[i] = paymentTxHash[i]
       /\ status[i] \in {"expired", "cancelled"} => status'[i] \in {"expired", "cancelled"}
       /\ status[i] # "absent" => status'[i] # "absent"]_vars

\* The expiry sweep closes every invoice past its deadline, crashes or not.
OverdueIsClosed ==
  \A i \in Invoice :
    (status[i] = "pending" /\ expiresAt[i] < now) ~> (status[i] # "pending")

\* Unless a process dies on the way, a settlement is announced.
SettlementIsAnnounced ==
  \A i \in Invoice : (paymentTxHash[i] # None) ~> (received[i] = 1 \/ faults > 0)

\* The settlement tables keep the promise of the ledger, with a stored hash for
\* what the ledger counts as a payment: on every chain, whoever writes.
HashLedger == INSTANCE InvoiceLedger WITH
  Payment <- Hash,
  GoodFor <- {p \in Hash \X Invoice : <<OnChain[p[1]], p[2]>> \in GoodFor},
  issued <- {i \in Invoice : status[i] # "absent"},
  open <- Pending,
  settledBy <- paymentTxHash,
  landed <- {h \in Hash : OnChain[h] \in Landed},
  spent <- recorded,
  told <- {i \in Invoice : received[i] > 0},
  lapsed <- {i \in Invoice : expired[i] > 0}

ImplementsHashLedger == HashLedger!LedgerSpec

\* And with the transaction itself, as a merchant would count: where SpelledOnce.
Ledger == INSTANCE InvoiceLedger WITH
  Payment <- Tx,
  issued <- {i \in Invoice : status[i] # "absent"},
  open <- Pending,
  settledBy <- [i \in Invoice |-> IF paymentTxHash[i] = None
                                  THEN None ELSE OnChain[paymentTxHash[i]]],
  landed <- Landed,
  spent <- {OnChain[h] : h \in recorded},
  told <- {i \in Invoice : received[i] > 0},
  lapsed <- {i \in Invoice : expired[i] > 0}

ImplementsLedger == Ledger!LedgerSpec

-----------------------------------------------------------------------------
(* The inductive invariant behind these properties: what each process may  *)
(* rely on at each place, and that an announcement has one owner.          *)

RowInv ==
  /\ SettlementBacked
  /\ OneHashOneInvoice
  /\ \A h \in Hash : h \notin recorded => invoiceId[h] = None
  /\ \A h \in recorded : OnChain[h] \in Landed /\ Stored(h) = h

NoticeInv ==
  \A i \in Invoice :
    /\ received[i] \in {0, 1} /\ expired[i] \in {0, 1}
    /\ received[i] = 1 => paymentTxHash[i] # None
    /\ expired[i] = 1 => status[i] \in {"expired", "cancelled"} /\ paymentTxHash[i] = None

HoldsInvoice(p) ==
  call[p].pc \in {"verify", "record", "notify", "duplicate", "raced", "noWinner",
                  "cancel", "created"}

HoldsHash(p) == HoldsInvoice(p) /\ call[p].pc # "cancel"

CallInv ==
  /\ \A p \in Caller :
       /\ HoldsInvoice(p) => call[p].inv \in Invoice /\ status[call[p].inv] # "absent"
       /\ HoldsHash(p) => call[p].hash \in Hash
       /\ call[p].pc = "record" =>
            /\ OnChain[call[p].hash] \in Landed
            /\ <<OnChain[call[p].hash], call[p].inv>> \in GoodFor
            /\ Stored(call[p].hash) = call[p].hash
       /\ call[p].pc = "notify" =>
            /\ paymentTxHash[call[p].inv] = call[p].hash
            /\ received[call[p].inv] = 0
       /\ call[p].pc = "created" =>
            /\ paymentTxHash[call[p].inv] = call[p].hash
            /\ received[call[p].inv] = 1
  /\ \A w \in Worker :
       /\ seen[w] \subseteq Landed
       /\ \A i \in todo[w] : status[i] # "absent"

HandlerInv ==
  \A h \in Handler :
    /\ handler[h].pc # "idle" =>
         handler[h].tx \in Landed /\ Transfer[handler[h].tx].chain \in EvmChain
    /\ handler[h].pc = "commit" /\ handler[h].inv # None =>
         EventMatches(handler[h].tx, handler[h].inv)
    /\ handler[h].pc = "notify" =>
         /\ handler[h].inv \in Invoice
         /\ paymentTxHash[handler[h].inv] = EventHash(h)
         /\ received[handler[h].inv] = 0

ExpiryInv ==
  \A e \in Expirer :
    expiry[e].pc = "notify" =>
      /\ expiry[e].inv \in Invoice
      /\ status[expiry[e].inv] \in {"expired", "cancelled"}
      /\ paymentTxHash[expiry[e].inv] = None
      /\ expired[expiry[e].inv] = 0

OwnerInv ==
  /\ \A p, q \in Caller :
       call[p].pc = "notify" /\ call[q].pc = "notify" /\ call[p].inv = call[q].inv => p = q
  /\ \A h, g \in Handler :
       handler[h].pc = "notify" /\ handler[g].pc = "notify"
         /\ handler[h].inv = handler[g].inv => h = g
  /\ \A p \in Caller, h \in Handler :
       ~ (call[p].pc = "notify" /\ handler[h].pc = "notify" /\ call[p].inv = handler[h].inv)
  /\ \A e, f \in Expirer :
       expiry[e].pc = "notify" /\ expiry[f].pc = "notify"
         /\ expiry[e].inv = expiry[f].inv => e = f

IInv ==
  TypeOK /\ RowInv /\ NoticeInv /\ CallInv /\ HandlerInv /\ ExpiryInv /\ OwnerInv
=============================================================================
