---------------------------- MODULE OnrampOrders ----------------------------
(***************************************************************************)
(* Fiat onramp orders: the rows of fiat_orders, moved by the provider's    *)
(* webhooks (controllers/onrampController.ts) and by the status poller     *)
(* (services/onrampOrderStatus.ts), whose sweeps may overlap.              *)
(*                                                                         *)
(* A step is one awaited call.  The provider is external: it moves its own *)
(* order on, and delivers the events of the statuses it has been in late,  *)
(* twice, out of order or never.                                           *)
(***************************************************************************)
EXTENDS Naturals, FiniteSets

CONSTANTS
  Order,          \* rows of fiat_orders
  Hash,           \* values of txHash
  Amount,         \* values of cryptoAmount
  Handler,        \* webhook requests in flight at once
  Poller,         \* sweeps of pollStaleOnrampOrders that may overlap
  BatchLimit,     \* POLL_BATCH_LIMIT
  MaxDeliveries,  \* bound: webhook deliveries
  MaxFaults,      \* bound: crashes and failed calls
  None            \* undefined

ASSUME BoundsAssumption ==
  BatchLimit \in Nat \ {0} /\ MaxDeliveries \in Nat /\ MaxFaults \in Nat

ASSUME NoneAssumption == None \notin Order \cup Hash \cup Amount

ASSUME ProcessAssumption == Handler \cap Poller = {}

Caller == Handler \cup Poller

VARIABLES
  status,        \* fiat_orders.status, "absent" before the row exists
  txHash,        \* fiat_orders.txHash
  cryptoAmount,  \* fiat_orders.cryptoAmount
  before,        \* <<o, n>>: row o was last written before row n
  stale,         \* rows whose updatedAt is older than the stale threshold
  truth,         \* the status an order has at the provider
  past,          \* the statuses it has had there
  call,          \* where each caller of applyOnrampStatusTransition is
  todo,          \* the snapshots a sweep has still to look at
  deliveries,    \* deliveries so far
  faults         \* faults so far

fields == <<txHash, cryptoAmount>>
updatedAt == <<before, stale>>
provider == <<truth, past>>
bounds == <<deliveries, faults>>
vars == <<status, fields, updatedAt, provider, call, todo, bounds>>

-----------------------------------------------------------------------------
Terminal == {"completed", "cancelled", "failed", "refunded"}
Open == {"pending", "processing"}
FiatOrderStatus == Open \cup Terminal

\* What a provider may say: our vocabulary, or a word we do not know.
RawStatus == FiatOrderStatus \cup {"unknown"}

\* Mutant: the status is written as it comes.
rawStatusAsIs(raw) == raw

mapProviderWebhookStatus(raw) == IF raw = "unknown" THEN "failed" ELSE raw
mapProviderPollingStatus(raw) == IF raw = "unknown" THEN None ELSE raw

Fields == [txHash : Hash \cup {None}, cryptoAmount : Amount \cup {None}]
NoFields == [txHash |-> None, cryptoAmount |-> None]

\* A handler at rest remembers its reply.
AtRest == {"idle", "applied", "ignored"}
Idle == [pc |-> "idle", order |-> None, next |-> None, event |-> NoFields, seen |-> NoFields]

Snapshot == [order : Order, status : Open]

TypeOK ==
  /\ status \in [Order -> FiatOrderStatus \cup {"absent"}]
  /\ txHash \in [Order -> Hash \cup {None}]
  /\ cryptoAmount \in [Order -> Amount \cup {None}]
  /\ before \subseteq Order \X Order
  /\ stale \subseteq Order
  /\ truth \in [Order -> RawStatus \cup {"absent"}]
  /\ past \in [Order -> SUBSET RawStatus]
  /\ call \in [Caller -> [pc : AtRest \cup {"write", "refund", "loop"},
                          order : Order \cup {None},
                          next : FiatOrderStatus \cup {None},
                          event : Fields, seen : Fields]]
  /\ todo \in [Poller -> SUBSET Snapshot]
  /\ deliveries \in Nat /\ faults \in Nat

Init ==
  /\ status = [o \in Order |-> "absent"]
  /\ txHash = [o \in Order |-> None]
  /\ cryptoAmount = [o \in Order |-> None]
  /\ before = {} /\ stale = {}
  /\ truth = [o \in Order |-> "absent"]
  /\ past = [o \in Order |-> {}]
  /\ call = [c \in Caller |-> Idle]
  /\ todo = [s \in Poller |-> {}]
  /\ deliveries = 0 /\ faults = 0

-----------------------------------------------------------------------------
(* The table: @updatedAt moves with every write of a row.                  *)

Rows == {o \in Order : status[o] # "absent"}

Touch(o) ==
  /\ stale' = stale \ {o}
  /\ before' = {p \in before : o \notin {p[1], p[2]}} \cup ((Rows \ {o}) \X {o})

\* The threshold passes the oldest row it has not passed yet.
Age(o) ==
  /\ o \in Rows \ stale
  /\ \A n \in Rows \ stale : <<n, o>> \notin before
  /\ stale' = stale \cup {o}
  /\ UNCHANGED <<status, fields, before, provider, call, todo, bounds>>

CreateOnrampUrl(o) ==
  /\ status[o] = "absent"
  /\ status' = [status EXCEPT ![o] = "pending"]
  /\ truth' = [truth EXCEPT ![o] = "pending"]
  /\ past' = [past EXCEPT ![o] = {"pending"}]
  /\ Touch(o)
  /\ UNCHANGED <<fields, call, todo, bounds>>

\* The provider moves on: a completed order may still be refunded.
ProviderMoves(o, raw) ==
  /\ \/ truth[o] \in Open \cup {"unknown"} /\ raw # "pending"
     \/ truth[o] = "completed" /\ raw = "refunded"
  /\ truth' = [truth EXCEPT ![o] = raw]
  /\ past' = [past EXCEPT ![o] = @ \cup {raw}]
  /\ UNCHANGED <<status, fields, updatedAt, call, todo, bounds>>

-----------------------------------------------------------------------------
(* applyOnrampStatusTransition, entered by a webhook or by a sweep with    *)
(* the status it read.                                                     *)

\* The terminal guard, on the status that was read.
Guard(read, next) ==
  IF read \notin Terminal THEN "write"
  ELSE IF read = "completed" /\ next = "refunded" THEN "refund" ELSE "ignored"

\* The fields a caller hands over: the event's, else those that were read.
\* A sweep hands over none.
Handed(c) ==
  [txHash |-> IF call[c].event.txHash = None THEN call[c].seen.txHash
              ELSE call[c].event.txHash,
   cryptoAmount |-> IF call[c].event.cryptoAmount = None THEN call[c].seen.cryptoAmount
                    ELSE call[c].event.cryptoAmount]

\* A field that is undefined is not written.
Written(value, old) == IF value = None THEN old ELSE value

Return(c, result) ==
  call' = [call EXCEPT ![c] = IF c \in Poller THEN [Idle EXCEPT !.pc = "loop"]
                              ELSE [@ EXCEPT !.pc = result, !.event = NoFields,
                                             !.seen = NoFields]]

Apply(c) ==
  LET o == call[c].order
  IN  /\ status' = [status EXCEPT ![o] = call[c].next]
      /\ txHash' = [txHash EXCEPT ![o] = Written(Handed(c).txHash, @)]
      /\ Touch(o)
      /\ Return(c, "applied")
      /\ UNCHANGED <<provider, todo, bounds>>

\* Mutant: the write trusts the read.
WriteStatusUnchecked(c) ==
  /\ call[c].pc = "write"
  /\ Apply(c)
  /\ cryptoAmount' = [cryptoAmount EXCEPT ![call[c].order] =
                        Written(Handed(c).cryptoAmount, @)]

\* updateMany where status notIn TERMINAL_STATUS_VALUES.
WriteStatus(c) ==
  /\ call[c].pc = "write"
  /\ status[call[c].order] \notin Terminal
  /\ Apply(c)
  /\ cryptoAmount' = [cryptoAmount EXCEPT ![call[c].order] =
                        Written(Handed(c).cryptoAmount, @)]

\* Mutant: the loser of the race gives up, refund or not.
LoseWriteSilently(c) ==
  /\ call[c].pc = "write"
  /\ status[call[c].order] \in Terminal
  /\ Return(c, "ignored")
  /\ UNCHANGED <<status, fields, updatedAt, provider, todo, bounds>>

\* No row matched: a refund tries again, the rest is inert.
LoseWrite(c) ==
  /\ call[c].pc = "write"
  /\ status[call[c].order] \in Terminal
  /\ IF call[c].next = "refunded"
     THEN call' = [call EXCEPT ![c].pc = "refund"] ELSE Return(c, "ignored")
  /\ UNCHANGED <<status, fields, updatedAt, provider, todo, bounds>>

\* casCompletedToRefunded: the amount delivered is kept.
CasCompletedToRefunded(c) ==
  /\ call[c].pc = "refund"
  /\ status[call[c].order] = "completed"
  /\ Apply(c)
  /\ UNCHANGED cryptoAmount

LoseRefund(c) ==
  /\ call[c].pc = "refund"
  /\ status[call[c].order] # "completed"
  /\ Return(c, "ignored")
  /\ UNCHANGED <<status, fields, updatedAt, provider, todo, bounds>>

TransitionStep(c) ==
  WriteStatus(c) \/ LoseWrite(c) \/ CasCompletedToRefunded(c) \/ LoseRefund(c)

-----------------------------------------------------------------------------
(* handleOnrampWebhook, past the signature and the freshness window: the   *)
(* row is read, the guard is evaluated, the transition begins.             *)

HandleOnrampWebhook(h, o, raw, event) ==
  /\ call[h].pc \in AtRest
  /\ deliveries < MaxDeliveries
  /\ raw \in past[o]
  /\ LET next == mapProviderWebhookStatus(raw)
         pc == Guard(status[o], next)
     IN  call' = [call EXCEPT ![h] =
           IF pc = "ignored" THEN [Idle EXCEPT !.pc = pc, !.order = o, !.next = next]
           ELSE [pc |-> pc, order |-> o, next |-> next, event |-> event,
                 seen |-> [txHash |-> txHash[o], cryptoAmount |-> cryptoAmount[o]]]]
  /\ deliveries' = deliveries + 1
  /\ UNCHANGED <<status, fields, updatedAt, provider, todo, faults>>

-----------------------------------------------------------------------------
(* pollStaleOnrampOrders.                                                  *)

\* Mutant: orders in processing are taken to be on their way.
DuePendingOnly == {o \in stale : status[o] = "pending"}

Due == {o \in stale : status[o] \in Open}

\* orderBy updatedAt asc, take POLL_BATCH_LIMIT
Batches ==
  {B \in SUBSET Due :
     /\ \/ Cardinality(B) = BatchLimit
        \/ Cardinality(B) < BatchLimit /\ B = Due
     /\ \A o \in B, n \in Due \ B : <<n, o>> \notin before}

FindStale(s) ==
  /\ call[s].pc = "idle"
  /\ Due # {}
  /\ \E B \in Batches :
       todo' = [todo EXCEPT ![s] = {[order |-> o, status |-> status[o]] : o \in B}]
  /\ call' = [call EXCEPT ![s].pc = "loop"]
  /\ UNCHANGED <<status, fields, updatedAt, provider, bounds>>

\* The provider's answer, or nothing to do: the row's updatedAt is left alone.
FetchStatus(s, order) ==
  /\ call[s].pc = "loop"
  /\ order \in todo[s]
  /\ todo' = [todo EXCEPT ![s] = @ \ {order}]
  /\ LET next == mapProviderPollingStatus(truth[order.order])
     IN  IF next \in {None, order.status} THEN UNCHANGED call
         ELSE call' = [call EXCEPT ![s] =
                [Idle EXCEPT !.pc = "write", !.order = order.order, !.next = next]]
  /\ UNCHANGED <<status, fields, updatedAt, provider, bounds>>

EndSweep(s) ==
  /\ call[s].pc = "loop"
  /\ todo[s] = {}
  /\ call' = [call EXCEPT ![s] = Idle]
  /\ UNCHANGED <<status, fields, updatedAt, provider, todo, bounds>>

SweepStep(s) ==
  FindStale(s) \/ (\E order \in Snapshot : FetchStatus(s, order)) \/ EndSweep(s)

-----------------------------------------------------------------------------
(* Faults: a caller stops where it is, with its process or by a rejected   *)
(* database call; a fetch that fails skips the order.                      *)

Fault == faults < MaxFaults /\ faults' = faults + 1

CallerFails(c) ==
  /\ Fault
  /\ call[c].pc \notin AtRest
  /\ call' = [call EXCEPT ![c] = Idle]
  /\ todo' = IF c \in Poller THEN [todo EXCEPT ![c] = {}] ELSE todo
  /\ UNCHANGED <<status, fields, updatedAt, provider, deliveries>>

FetchFails(s, order) ==
  /\ Fault
  /\ call[s].pc = "loop"
  /\ order \in todo[s]
  /\ todo' = [todo EXCEPT ![s] = @ \ {order}]
  /\ UNCHANGED <<status, fields, updatedAt, provider, call, deliveries>>

-----------------------------------------------------------------------------
TableNext ==
  \E o \in Order : Age(o) \/ CreateOnrampUrl(o) \/ \E raw \in RawStatus : ProviderMoves(o, raw)

WebhookNext ==
  \E h \in Handler, o \in Order, raw \in RawStatus, event \in Fields :
    HandleOnrampWebhook(h, o, raw, event)

FaultNext ==
  \/ \E c \in Caller : CallerFails(c)
  \/ \E s \in Poller, order \in Snapshot : FetchFails(s, order)

Next ==
  \/ TableNext
  \/ WebhookNext
  \/ \E c \in Caller : TransitionStep(c)
  \/ \E s \in Poller : SweepStep(s)
  \/ FaultNext

Spec == Init /\ [][Next]_vars

(***************************************************************************)
(* Time passes, a call in progress goes on, and the interval starts the    *)
(* next sweep.  The provider need not move, nor deliver anything.          *)
(***************************************************************************)
Fairness ==
  /\ \A o \in Order : WF_vars(Age(o))
  /\ \A c \in Caller : WF_vars(TransitionStep(c))
  /\ \A s \in Poller : WF_vars(SweepStep(s))

FairSpec == Spec /\ Fairness

-----------------------------------------------------------------------------
(* What the order book promises.                                           *)

\* A closed order is inert, whatever arrives late and whoever lost a race:
\* completed -> refunded is the one exit from a terminal status, the amount
\* delivered is never rewritten, and the hash only in that one step.
ClosedIsInert ==
  [][\A o \in Order : status[o] \in Terminal =>
       /\ \/ status'[o] = status[o] /\ txHash'[o] = txHash[o]
          \/ status[o] = "completed" /\ status'[o] = "refunded"
       /\ cryptoAmount'[o] = cryptoAmount[o]]_vars

\* What the provider was told holds: "applied" of a final status is still the
\* row's status, or a refund of it; "ignored" left a closed row behind; and a
\* refund is only ignored by an order that was never paid out, or is refunded.
RepliesHold ==
  \A h \in Handler :
    LET s == status[call[h].order]
        next == call[h].next
    IN  /\ call[h].pc = "applied" /\ next \in Terminal =>
             s = next \/ (next = "completed" /\ s = "refunded")
        /\ call[h].pc = "ignored" =>
             /\ s \in Terminal
             /\ next = "refunded" => s # "completed"

\* A lost webhook does not strand an order: once the provider is done with it
\* the poller closes it, provided the batch has room for every stale order.
OrderIsReconciled ==
  \A o \in Order : (truth[o] \in Terminal) ~> (status[o] \in Terminal)

-----------------------------------------------------------------------------
(* The inductive invariant behind ClosedIsInert and RepliesHold.           *)

\* A row exists as soon as the provider has anything to say about it.
RowInv ==
  /\ \A o \in Order :
       /\ status[o] = "absent" <=> truth[o] = "absent"
       /\ status[o] = "absent" => past[o] = {}
  /\ \A s \in Poller : \A order \in todo[s] : status[order.order] # "absent"

\* A caller works on a row that exists; a refund is tried again only on a row
\* that was seen closed.
CallInv ==
  \A c \in Caller :
    /\ call[c].pc \in {"write", "refund", "applied", "ignored"} =>
         /\ call[c].order \in Order
         /\ call[c].next \in FiatOrderStatus
         /\ status[call[c].order] # "absent"
    /\ call[c].pc = "refund" =>
         call[c].next = "refunded" /\ status[call[c].order] \in Terminal

IInv == TypeOK /\ RowInv /\ CallInv /\ RepliesHold
=============================================================================
