---------------------- MODULE InvoiceSettlement_proofs ----------------------
(***************************************************************************)
(* The safety of settlement for every set of invoices, transactions and    *)
(* processes: IInv is inductive, the invariants follow from it, and every  *)
(* step is a step of InvoiceLedger or leaves the ledger alone.             *)
(***************************************************************************)
EXTENDS InvoiceSettlement, FiniteSetTheorems, TLAPS

Places == [pc : CallPC, inv : Invoice \cup {None}, hash : Hash \cup {None}]

HandlerPlaces ==
  [pc : {"idle", "open", "begin", "commit", "notify"},
   inv : Invoice \cup {None}, tx : Tx \cup {None}]

ExpirerPlaces == [pc : {"loop", "notify"}, inv : Invoice \cup {None}, due : SUBSET Invoice]

\* A place that a caller may take without touching a row: it announces
\* nothing, and what it holds is what CallInv asks of it.
QuietPlace(c) ==
  /\ c \in Places
  /\ c.pc \notin {"notify", "created"}
  /\ c.pc \in {"verify", "record", "duplicate", "raced", "noWinner", "cancel"} =>
       c.inv \in Invoice /\ status[c.inv] # "absent"
  /\ c.pc \in {"verify", "record", "duplicate", "raced", "noWinner"} => c.hash \in Hash
  /\ c.pc = "record" =>
       /\ OnChain[c.hash] \in Landed /\ <<OnChain[c.hash], c.inv>> \in GoodFor
       /\ Stored(c.hash) = c.hash

-----------------------------------------------------------------------------
(* Spellings.                                                              *)

\* What the verifier returns names the same transaction, and it would be
\* returned again.
LEMMA StoredNames ==
  ASSUME NEW h \in Hash
  PROVE  /\ OnChain[h] \in Tx
         /\ Stored(h) \in Hash
         /\ OnChain[Stored(h)] = OnChain[h]
         /\ Stored(Stored(h)) = Stored(h)
BY HashAssumption DEF Stored

\* The chain's own spelling is one that can be stored.
LEMMA SpellingNames ==
  ASSUME NEW t \in Tx
  PROVE  Spelling[t] \in Hash /\ OnChain[Spelling[t]] = t /\ Stored(Spelling[t]) = Spelling[t]
BY HashAssumption DEF Stored

-----------------------------------------------------------------------------
(* Frames: a conjunct holds after a step that touches none of its variables. *)

\* A step that touches none of the settled columns keeps the tables in agreement.
LEMMA RowFrame ==
  ASSUME RowInv, UNCHANGED <<status, paymentTxHash, recorded, invoiceId, landedAt>>
  PROVE  RowInv'
BY DEF RowInv, SettlementBacked, OneHashOneInvoice, Landed

\* A step that announces nothing and settles nothing keeps the announcements true.
LEMMA NoticeFrame ==
  ASSUME NoticeInv, UNCHANGED <<status, paymentTxHash, received, expired>>
  PROVE  NoticeInv'
BY DEF NoticeInv

\* A step outside requests and workers that changes no row keeps what they rely on.
LEMMA CallFrame ==
  ASSUME CallInv, UNCHANGED <<call, todo, seen, status, paymentTxHash, received, landedAt>>
  PROVE  CallInv'
BY DEF CallInv, HoldsInvoice, HoldsHash, Landed

\* A step outside the event handlers that settles nothing keeps what they rely on.
LEMMA HandlerFrame ==
  ASSUME HandlerInv, UNCHANGED <<handler, paymentTxHash, received, landedAt>>
  PROVE  HandlerInv'
BY DEF HandlerInv, EventHash, Landed

\* A step outside the expiry sweep that closes nothing keeps what it relies on.
LEMMA ExpiryFrame ==
  ASSUME ExpiryInv, UNCHANGED <<expiry, status, paymentTxHash, expired>>
  PROVE  ExpiryInv'
BY DEF ExpiryInv

\* A step that moves no process keeps every announcement with its one owner.
LEMMA OwnerFrame ==
  ASSUME OwnerInv, UNCHANGED <<call, handler, expiry>>
  PROVE  OwnerInv'
BY DEF OwnerInv

-----------------------------------------------------------------------------
(* Moves: one process changes its place and no row changes.                *)

\* A request or a worker that goes to a quiet place disturbs nothing.
LEMMA CallerMoves ==
  ASSUME IInv, NEW p \in Caller, NEW c, QuietPlace(c),
         call' = [call EXCEPT ![p] = c],
         UNCHANGED <<rows, events, expiry, handler, world>>,
         faults' \in Nat,
         todo' \in [Worker -> SUBSET Invoice], seen' \in [Worker -> SUBSET Tx],
         \A w \in Worker : seen'[w] \subseteq Landed,
         \A w \in Worker : \A i \in todo'[w] : status[i] # "absent"
  PROVE  IInv'
<1> USE DEF rows, events, world
<1>1. TypeOK'
  BY DEF IInv, TypeOK, QuietPlace, Places
<1>2. RowInv' /\ NoticeInv' /\ HandlerInv' /\ ExpiryInv'
  BY RowFrame, NoticeFrame, HandlerFrame, ExpiryFrame DEF IInv
<1>3. CallInv'
  <2>1. ASSUME NEW q \in Caller, q # p
        PROVE  call'[q] = call[q]
    BY <2>1 DEF IInv, TypeOK
  <2>2. call'[p] = c
    BY DEF IInv, TypeOK
  <2>3. QED
    BY <2>1, <2>2 DEF IInv, CallInv, HoldsInvoice, HoldsHash, QuietPlace, Landed
<1>4. OwnerInv'
  BY DEF IInv, TypeOK, OwnerInv, QuietPlace
<1>5. QED
  BY <1>1, <1>2, <1>3, <1>4 DEF IInv

\* An event handler that goes anywhere but to its announcement disturbs nothing.
LEMMA HandlerMoves ==
  ASSUME IInv, NEW h \in Handler, NEW c \in HandlerPlaces,
         c.pc # "notify",
         c.pc # "idle" => c.tx \in Landed /\ Transfer[c.tx].chain \in EvmChain,
         c.pc = "commit" /\ c.inv # None => EventMatches(c.tx, c.inv),
         handler' = [handler EXCEPT ![h] = c],
         UNCHANGED <<rows, events, call, sweep, expiry, world>>,
         faults' \in Nat
  PROVE  IInv'
<1> USE DEF rows, events, sweep, world
<1>1. TypeOK'
  BY DEF IInv, TypeOK, HandlerPlaces
<1>2. RowInv' /\ NoticeInv' /\ CallInv' /\ ExpiryInv'
  BY RowFrame, NoticeFrame, CallFrame, ExpiryFrame DEF IInv
<1>3. HandlerInv'
  BY DEF IInv, TypeOK, HandlerInv, EventHash, Landed, HandlerPlaces
<1>4. OwnerInv'
  BY DEF IInv, TypeOK, OwnerInv, HandlerPlaces
<1>5. QED
  BY <1>1, <1>2, <1>3, <1>4 DEF IInv

\* An expiry sweep that goes anywhere but to its announcement disturbs nothing.
LEMMA ExpirerMoves ==
  ASSUME IInv, NEW e \in Expirer, NEW c \in ExpirerPlaces,
         c.pc # "notify",
         expiry' = [expiry EXCEPT ![e] = c],
         UNCHANGED <<rows, events, call, sweep, handler, world>>,
         faults' \in Nat
  PROVE  IInv'
<1> USE DEF rows, events, sweep, world
<1>1. TypeOK'
  BY DEF IInv, TypeOK, ExpirerPlaces
<1>2. RowInv' /\ NoticeInv' /\ CallInv' /\ HandlerInv'
  BY RowFrame, NoticeFrame, CallFrame, HandlerFrame DEF IInv
<1>3. ExpiryInv' /\ OwnerInv'
  BY DEF IInv, TypeOK, ExpiryInv, OwnerInv, ExpirerPlaces
<1>4. QED
  BY <1>1, <1>2, <1>3 DEF IInv

-----------------------------------------------------------------------------
\* Empty tables and idle processes satisfy the inductive invariant.
THEOREM InitEstablishes == Init => IInv
<1> SUFFICES ASSUME Init PROVE IInv
  OBVIOUS
<1> USE DEF Init, Idle, Listening, Watching
<1>1. TypeOK
  BY DEF TypeOK, CallPC, AtRest
<1>2. RowInv /\ NoticeInv
  BY DEF RowInv, NoticeInv, SettlementBacked, OneHashOneInvoice
<1>3. CallInv /\ HandlerInv /\ ExpiryInv /\ OwnerInv
  BY DEF CallInv, HandlerInv, ExpiryInv, OwnerInv, HoldsInvoice, HoldsHash
<1>4. QED
  BY <1>1, <1>2, <1>3 DEF IInv

-----------------------------------------------------------------------------
(* The world.                                                              *)

\* The height given to a landing transaction is a positive number.
LEMMA NextHeight ==
  ASSUME landedAt \in [Tx -> Nat]
  PROVE  Cardinality(Landed) + 1 \in Nat \ {0}
<1>1. IsFiniteSet(Landed)
  BY TxAssumption, FS_Subset DEF Landed
<1>2. Cardinality(Landed) \in Nat
  BY <1>1, FS_CardinalityType
<1>3. QED
  BY <1>2

\* The clock disturbs nothing: dates are only compared with it.
LEMMA TickStep ==
  ASSUME IInv, Tick
  PROVE  IInv'
<1> USE DEF Tick, rows, events, sweep
<1>1. TypeOK'
  BY DEF IInv, TypeOK
<1>2. RowInv' /\ NoticeInv' /\ CallInv' /\ HandlerInv' /\ ExpiryInv' /\ OwnerInv'
  BY RowFrame, NoticeFrame, CallFrame, HandlerFrame, ExpiryFrame, OwnerFrame DEF IInv
<1>3. QED
  BY <1>1, <1>2 DEF IInv

\* A transaction that becomes final disturbs nothing.
LEMMA LandStep ==
  ASSUME IInv, NEW t \in Tx, Land(t)
  PROVE  IInv'
<1> USE DEF Land, rows, events, sweep
<1>1. TypeOK'
  BY NextHeight DEF IInv, TypeOK
<1>2. Landed \subseteq Landed'
  BY NextHeight DEF IInv, TypeOK, Landed
<1>3. RowInv'
  BY <1>2 DEF IInv, RowInv, SettlementBacked, OneHashOneInvoice
<1>4. NoticeInv' /\ ExpiryInv' /\ OwnerInv'
  BY NoticeFrame, ExpiryFrame, OwnerFrame DEF IInv
<1>5. CallInv'
  BY <1>2 DEF IInv, CallInv, HoldsInvoice, HoldsHash
<1>6. HandlerInv'
  BY <1>2 DEF IInv, HandlerInv, EventHash
<1>7. QED
  BY <1>1, <1>3, <1>4, <1>5, <1>6 DEF IInv

\* createInvoice adds a pending row that no transaction pays.
LEMMA CreateStep ==
  ASSUME IInv, NEW i \in Invoice, CreateInvoice(i)
  PROVE  IInv'
<1> USE DEF CreateInvoice, events, sweep, world
<1>1. TypeOK'
  <2>1. now + Lifetime[i] \in Nat
    <3>1. Lifetime[i] \in Nat
      BY ONLY BoundsAssumption, i \in Invoice DEF BoundsAssumption
    <3>2. now \in Nat
      BY DEF IInv, TypeOK
    <3>3. QED
      BY <3>1, <3>2
  <2>2. expiresAt' \in [Invoice -> Nat] /\ createdAt' \in [Invoice -> Nat]
    BY <2>1 DEF IInv, TypeOK
  <2>3. QED
    BY <2>2 DEF IInv, TypeOK
<1>2. paymentTxHash[i] = None
  BY DEF IInv, RowInv, SettlementBacked
<1>3. RowInv'
  BY <1>2 DEF IInv, TypeOK, RowInv, SettlementBacked, OneHashOneInvoice, Landed
<1>4. NoticeInv'
  BY DEF IInv, TypeOK, NoticeInv
<1>5. CallInv'
  BY DEF IInv, TypeOK, CallInv, HoldsInvoice, HoldsHash, Landed
<1>6. ExpiryInv'
  BY DEF IInv, TypeOK, ExpiryInv
<1>7. HandlerInv' /\ OwnerInv'
  BY HandlerFrame, OwnerFrame DEF IInv
<1>8. QED
  BY <1>1, <1>3, <1>4, <1>5, <1>6, <1>7 DEF IInv

-----------------------------------------------------------------------------
(* Settling an invoice: the same update by a caller or an event handler.   *)

\* The one update that settles, with or without a link, keeps the tables in agreement.
LEMMA PayRows ==
  ASSUME IInv, NEW i \in Invoice, NEW h \in Hash, NEW link \in {i, None},
         status[i] = "pending", h \notin recorded,
         OnChain[h] \in Landed, Stored(h) = h, <<OnChain[h], i>> \in GoodFor,
         Terms[i].chain \notin EvmChain => link = i,
         Pay(i, h, link), UNCHANGED landedAt
  PROVE  RowInv'
<1> USE DEF IInv, TypeOK, Pay
<1>1. paymentTxHash[i] = None
  BY DEF RowInv, SettlementBacked
<1>2. \A j \in Invoice : paymentTxHash[j] # h
  BY NoneAssumption DEF RowInv, SettlementBacked
<1>3. SettlementBacked'
  <2>1. ASSUME NEW j \in Invoice
        PROVE  /\ (status[j] = "paid" => paymentTxHash[j] # None)'
               /\ (paymentTxHash[j] # None =>
                     /\ OnChain[paymentTxHash[j]] \in Landed /\ paymentTxHash[j] \in recorded
                     /\ <<OnChain[paymentTxHash[j]], j>> \in GoodFor
                     /\ status[j] \in {"paid", "cancelled"}
                     /\ invoiceId[paymentTxHash[j]] \in {j, None}
                     /\ Terms[j].chain \notin EvmChain => invoiceId[paymentTxHash[j]] = j)'
    <3>1. CASE j = i
      BY <3>1, NoneAssumption DEF Landed
    <3>2. CASE j # i
      BY <3>2, <1>2 DEF RowInv, SettlementBacked, Landed
    <3>3. QED
      BY <3>1, <3>2
  <2>2. ASSUME NEW g \in Hash, (invoiceId[g] # None)'
        PROVE  (paymentTxHash[invoiceId[g]] = g)'
    <3>1. CASE g = h
      BY <3>1, <2>2
    <3>2. CASE g # h
      <4>1. invoiceId'[g] = invoiceId[g] /\ invoiceId[g] \in Invoice
        BY <3>2, <2>2
      <4>2. paymentTxHash[invoiceId[g]] = g
        BY <4>1, NoneAssumption DEF RowInv, SettlementBacked
      <4>3. invoiceId[g] # i
        BY <4>2, <1>1, NoneAssumption
      <4>4. QED
        BY <4>1, <4>2, <4>3
    <3>3. QED
      BY <3>1, <3>2
  <2>3. QED
    BY <2>1, <2>2 DEF SettlementBacked
<1>4. OneHashOneInvoice'
  BY <1>1, <1>2 DEF RowInv, OneHashOneInvoice
<1>5. (\A g \in Hash : g \notin recorded => invoiceId[g] = None)'
  BY DEF RowInv
<1>6. (\A g \in recorded : OnChain[g] \in Landed /\ Stored(g) = g)'
  BY DEF RowInv, Landed
<1>7. QED
  BY <1>3, <1>4, <1>5, <1>6 DEF RowInv

\* A pending invoice has been announced neither paid nor expired, and no
\* process is about to announce it.
LEMMA PendingIsSilent ==
  ASSUME IInv, NEW i \in Invoice, status[i] = "pending"
  PROVE  /\ paymentTxHash[i] = None /\ received[i] = 0 /\ expired[i] = 0
         /\ \A p \in Caller : call[p].pc \in {"notify", "created"} => call[p].inv # i
         /\ \A h \in Handler : handler[h].pc = "notify" => handler[h].inv # i
         /\ \A e \in Expirer : expiry[e].pc = "notify" => expiry[e].inv # i
<1>1. paymentTxHash[i] = None
  BY DEF IInv, RowInv, SettlementBacked
<1>2. received[i] = 0 /\ expired[i] = 0
  BY <1>1 DEF IInv, NoticeInv
<1>3. \A p \in Caller : call[p].pc \in {"notify", "created"} => call[p].inv # i
  BY <1>1, NoneAssumption DEF IInv, CallInv, HoldsInvoice, HoldsHash
<1>4. \A h \in Handler : handler[h].pc = "notify" => handler[h].inv # i
  BY <1>1, NoneAssumption, SpellingNames DEF IInv, HandlerInv, EventHash, Landed
<1>5. \A e \in Expirer : expiry[e].pc = "notify" => expiry[e].inv # i
  BY DEF IInv, ExpiryInv
<1>6. QED
  BY <1>1, <1>2, <1>3, <1>4, <1>5

\* The $transaction of confirmInvoicePayment keeps the invariant.
LEMMA RecordPaymentStep ==
  ASSUME IInv, NEW p \in Caller, RecordPayment(p)
  PROVE  IInv'
<1> DEFINE i == call[p].inv
           t == call[p].hash
<1> USE DEF RecordPayment, Goto, events, sweep, world
<1>1. /\ i \in Invoice /\ t \in Hash /\ Stored(t) = t
      /\ OnChain[t] \in Landed /\ <<OnChain[t], i>> \in GoodFor
  BY DEF IInv, CallInv, HoldsInvoice, HoldsHash
<1>2. status[i] = "pending" /\ t \notin recorded /\ Pay(i, t, i)
  OBVIOUS
<1>3. TypeOK'
  <2>1. call' \in [Caller -> Places]
    BY DEF IInv, TypeOK, Places, CallPC
  <2>2. QED
    BY <1>1, <2>1 DEF IInv, TypeOK, Pay, Places
<1>4. RowInv'
  BY <1>1, <1>2, PayRows
<1>5. /\ paymentTxHash[i] = None /\ received[i] = 0 /\ expired[i] = 0
      /\ \A q \in Caller : call[q].pc \in {"notify", "created"} => call[q].inv # i
      /\ \A h \in Handler : handler[h].pc = "notify" => handler[h].inv # i
      /\ \A e \in Expirer : expiry[e].pc = "notify" => expiry[e].inv # i
  BY <1>1, <1>2, PendingIsSilent
<1>6. NoticeInv'
  BY <1>1, <1>5, NoneAssumption DEF IInv, TypeOK, NoticeInv, Pay
<1>7. CallInv'
  BY <1>1, <1>5 DEF IInv, TypeOK, CallInv, HoldsInvoice, HoldsHash, Pay, Landed
<1>8. HandlerInv'
  BY <1>1, <1>5 DEF IInv, TypeOK, HandlerInv, EventHash, Pay, Landed
<1>9. ExpiryInv'
  BY <1>1, <1>5 DEF IInv, TypeOK, ExpiryInv, Pay
<1>10. OwnerInv'
  BY <1>1, <1>5 DEF IInv, TypeOK, OwnerInv
<1>11. QED
  BY <1>3, <1>4, <1>6, <1>7, <1>8, <1>9, <1>10 DEF IInv

\* The enqueueWebhook of confirmInvoicePayment announces what only it could.
LEMMA NotifyReceivedStep ==
  ASSUME IInv, NEW p \in Caller, NotifyReceived(p)
  PROVE  IInv'
<1> DEFINE i == call[p].inv
<1> USE DEF NotifyReceived, Goto, rows, sweep, world
<1>1. i \in Invoice /\ call[p].hash \in Hash /\ paymentTxHash[i] = call[p].hash /\ received[i] = 0
  BY DEF IInv, CallInv, HoldsInvoice, HoldsHash
<1>2. TypeOK'
  BY <1>1 DEF IInv, TypeOK, CallPC, AtRest, Replies
<1>3. RowInv' /\ ExpiryInv'
  BY RowFrame, ExpiryFrame DEF IInv
<1>4. NoticeInv'
  BY <1>1, NoneAssumption DEF IInv, TypeOK, NoticeInv
<1>5. CallInv'
  BY <1>1 DEF IInv, TypeOK, CallInv, OwnerInv, HoldsInvoice, HoldsHash, Landed
<1>6. HandlerInv'
  BY <1>1 DEF IInv, TypeOK, HandlerInv, EventHash, OwnerInv, Landed
<1>7. OwnerInv'
  BY DEF IInv, TypeOK, OwnerInv
<1>8. QED
  BY <1>2, <1>3, <1>4, <1>5, <1>6, <1>7 DEF IInv

\* The places of a caller that holds nothing are quiet.
LEMMA QuietRefused == QuietPlace(Refused) /\ QuietPlace(Idempotent) /\ QuietPlace(Idle)
BY DEF QuietPlace, Refused, Idempotent, Idle, Places, CallPC, AtRest, Replies

\* A caller goes to a quiet place of its choice.
LEMMA CallerPlaced ==
  ASSUME IInv, NEW p \in Caller, NEW c, QuietPlace(c), Place(p, c)
  PROVE  IInv'
<1>1. \A w \in Worker : seen[w] \subseteq Landed /\ \A i \in todo[w] : status[i] # "absent"
  BY DEF IInv, CallInv
<1>2. QED
  BY <1>1, CallerMoves DEF Place, IInv, TypeOK, sweep

\* Every step of confirmInvoicePayment keeps the invariant.
LEMMA ConfirmStep ==
  ASSUME IInv, NEW p \in Caller, ConfirmInvoicePayment(p)
  PROVE  IInv'
<1> USE DEF OnlyMoves, Goto, sweep, IInv, TypeOK
<1>1. CASE RecordPayment(p)
  BY <1>1, RecordPaymentStep
<1>2. CASE NotifyReceived(p)
  BY <1>2, NotifyReceivedStep
<1>3. ASSUME NEW pc \in {"duplicate", "raced", "noWinner"}, HoldsHash(p),
             Place(p, [call[p] EXCEPT !.pc = pc])
      PROVE  IInv'
  <2> DEFINE c == [call[p] EXCEPT !.pc = pc]
  <2>1. QuietPlace(c)
    BY <1>3 DEF QuietPlace, Places, CallPC, AtRest, Replies, CallInv, HoldsInvoice, HoldsHash
  <2>2. QED
    BY <1>3, <2>1, CallerPlaced
<1>4. CASE RecordDuplicate(p) \/ RecordRaced(p)
  BY <1>3, <1>4 DEF RecordDuplicate, RecordRaced, Place, HoldsHash, HoldsInvoice
<1>5. CASE AnswerDuplicate(p) \/ FindWinner(p) \/ NotPayable(p)
  BY <1>3, <1>5, QuietRefused, CallerPlaced
     DEF AnswerDuplicate, FindWinner, NotPayable, HoldsHash, HoldsInvoice
<1>6. QED
  BY <1>1, <1>2, <1>4, <1>5 DEF ConfirmInvoicePayment

-----------------------------------------------------------------------------
(* HTTP requests.                                                          *)

\* A request goes to a quiet place of its choice.
LEMMA RequestPlaced ==
  ASSUME IInv, NEW r \in Request, NEW c, QuietPlace(c), Place(r, c)
  PROVE  IInv'
BY CallerPlaced DEF Caller

\* The unconditional update of cancelInvoice keeps the invariant, also when
\* it overwrites a paid status.
LEMMA WriteCancelledStep ==
  ASSUME IInv, NEW r \in Request, WriteCancelled(r)
  PROVE  IInv'
<1> DEFINE i == call[r].inv
<1> USE DEF WriteCancelled, events, sweep, world
<1>1. r \in Caller
  BY DEF Caller
<1>2. i \in Invoice /\ status[i] # "absent"
  BY <1>1 DEF IInv, CallInv, HoldsInvoice
<1>3. TypeOK'
  <2>1. call' \in [Caller -> Places]
    BY <1>1 DEF IInv, TypeOK, Places, Idle, CallPC, AtRest, Replies
  <2>2. QED
    BY <1>2, <2>1 DEF IInv, TypeOK, Places
<1>4. RowInv'
  BY <1>2 DEF IInv, TypeOK, RowInv, SettlementBacked, OneHashOneInvoice, Landed
<1>5. NoticeInv'
  BY <1>2 DEF IInv, TypeOK, NoticeInv
<1>6. CallInv'
  BY <1>1, <1>2 DEF IInv, TypeOK, CallInv, HoldsInvoice, HoldsHash, Landed, Idle
<1>7. ExpiryInv'
  BY <1>2 DEF IInv, TypeOK, ExpiryInv
<1>8. HandlerInv'
  BY HandlerFrame DEF IInv
<1>9. OwnerInv'
  BY <1>1 DEF IInv, TypeOK, OwnerInv, Idle
<1>10. QED
  BY <1>3, <1>4, <1>5, <1>6, <1>7, <1>8, <1>9 DEF IInv

\* Every step of payInvoice, confirmPayment and cancelInvoice keeps the invariant.
LEMMA HttpStep ==
  ASSUME IInv, HttpNext
  PROVE  IInv'
<1>1. ASSUME NEW r \in Request, NEW i \in Invoice, NEW h \in Hash, PayInvoice(r, i, h)
      PROVE  IInv'
  <2>1. status[i] = "pending" => QuietPlace([pc |-> "verify", inv |-> i, hash |-> h])
    BY DEF QuietPlace, Places, CallPC
  <2>2. QED
    BY <1>1, <2>1, QuietRefused, RequestPlaced DEF PayInvoice
<1>2. ASSUME NEW r \in Request, NEW i \in Invoice, NEW h \in Hash, ConfirmPayment(r, i, h)
      PROVE  IInv'
  BY <1>1, <1>2, QuietRefused, RequestPlaced DEF ConfirmPayment
<1>3. ASSUME NEW r \in Request, NEW i \in Invoice, CancelInvoice(r, i)
      PROVE  IInv'
  <2>1. status[i] = "pending" => QuietPlace([pc |-> "cancel", inv |-> i, hash |-> None])
    BY DEF QuietPlace, Places, CallPC
  <2>2. QED
    BY <1>3, <2>1, QuietRefused, RequestPlaced DEF CancelInvoice
<1>4. ASSUME NEW r \in Request, VerifyPaymentTxOnChain(r)
      PROVE  IInv'
  <2> DEFINE h == call[r].hash
             i == call[r].inv
             c == [pc |-> "record", inv |-> i, hash |-> Stored(h)]
  <2>1. r \in Caller
    BY DEF Caller
  <2>2. i \in Invoice /\ status[i] # "absent" /\ h \in Hash
    BY <1>4, <2>1 DEF VerifyPaymentTxOnChain, IInv, CallInv, HoldsInvoice, HoldsHash
  <2>3. /\ OnChain[h] \in Tx /\ Stored(h) \in Hash
        /\ OnChain[Stored(h)] = OnChain[h] /\ Stored(Stored(h)) = Stored(h)
    BY <2>2, StoredNames
  <2>4. Verifies(OnChain[h], i) => <<OnChain[h], i>> \in GoodFor
    BY <2>2, <2>3 DEF GoodFor
  <2>5. c \in Places /\ c.pc = "record" /\ c.inv = i /\ c.hash = Stored(h)
    BY <2>2, <2>3 DEF Places, CallPC
  <2>6. OnChain[h] \in Landed /\ Verifies(OnChain[h], i) => QuietPlace(c)
    BY <2>2, <2>3, <2>4, <2>5 DEF QuietPlace
  <2>7. QED
    BY <1>4, <2>6, QuietRefused, RequestPlaced DEF VerifyPaymentTxOnChain
<1>5. ASSUME NEW r \in Request, WriteCancelled(r)
      PROVE  IInv'
  BY <1>5, WriteCancelledStep
<1>6. QED
  BY <1>1, <1>2, <1>3, <1>4, <1>5 DEF HttpNext

-----------------------------------------------------------------------------
(* The sweep.                                                              *)

\* A sweep that takes its batch keeps the invariant.
LEMMA StartSweepStep ==
  ASSUME IInv, NEW s \in Sweeper, StartSweep(s)
  PROVE  IInv'
<1> USE DEF StartSweep, rows, events, world
<1>1. PICK B \in Batches :
        /\ todo' = [w \in Worker |->
                      IF w[1] = s THEN {i \in B : Terms[i].to = w[2]} ELSE todo[w]]
        /\ call' = [p \in Caller |->
                      IF p \in WorkersOf(s) /\ \E i \in B : Terms[i].to = p[2]
                      THEN [Idle EXCEPT !.pc = "fetch"]
                      ELSE call[p]]
  OBVIOUS
<1>2. B \subseteq Invoice /\ \A i \in B : status[i] # "absent"
  BY DEF Batches, Sweepable, Pending
<1>3. \A p \in Caller : call'[p] = call[p]
                          \/ call'[p] = [pc |-> "fetch", inv |-> None, hash |-> None]
  BY <1>1 DEF Idle
<1>4. \A w \in Worker : todo'[w] \subseteq B \/ todo'[w] = todo[w]
  BY <1>1
<1>5. TypeOK'
  <2>1. call' \in [Caller -> Places]
    <3>1. call \in [Caller -> Places]
      BY DEF IInv, TypeOK, Places
    <3>2. [pc |-> "fetch", inv |-> None, hash |-> None] \in Places
      BY DEF Places, CallPC
    <3>3. \A p \in Caller : call'[p] \in Places
      BY <1>3, <3>1, <3>2
    <3>4. call' = [p \in Caller |-> call'[p]]
      BY <1>1
    <3>5. QED
      BY <3>3, <3>4
  <2>2. todo' \in [Worker -> SUBSET Invoice]
    BY <1>1, <1>2, <1>4 DEF IInv, TypeOK
  <2>3. QED
    BY <2>1, <2>2 DEF IInv, TypeOK, Places
<1>6. RowInv' /\ NoticeInv' /\ HandlerInv' /\ ExpiryInv'
  BY RowFrame, NoticeFrame, HandlerFrame, ExpiryFrame DEF IInv
<1>7. CallInv'
  <2>1. \A w \in Worker : \A i \in todo'[w] : status[i] # "absent"
    BY <1>2, <1>4 DEF IInv, CallInv
  <2>2. \A p \in Caller : call'[p] = call[p] \/ call'[p].pc = "fetch"
    BY <1>3
  <2>3. UNCHANGED <<status, paymentTxHash, received, landedAt, seen>>
    OBVIOUS
  <2> HIDE DEF StartSweep
  <2>4. QED
    BY <2>1, <2>2, <2>3 DEF IInv, CallInv, HoldsInvoice, HoldsHash, Landed
<1>8. OwnerInv'
  BY <1>3 DEF IInv, OwnerInv
<1>9. QED
  BY <1>5, <1>6, <1>7, <1>8 DEF IInv

\* A worker may go on to the next invoice from anywhere.
LEMMA ScanIsQuiet ==
  ASSUME IInv, NEW w \in Caller
  PROVE  QuietPlace([call[w] EXCEPT !.pc = "scan"])
<1>1. call[w] \in Places
  BY DEF IInv, TypeOK, Places
<1>2. QED
  BY <1>1 DEF QuietPlace, Places, CallPC

\* Every step of a sweep worker outside confirmInvoicePayment keeps the invariant.
LEMMA WorkerStepKeeps ==
  ASSUME IInv, NEW w \in Worker, WorkerStep(w)
  PROVE  IInv'
<1>0. w \in Caller
  BY DEF Caller
<1> USE <1>0 DEF IInv, TypeOK
<1>1. \A v \in Worker : seen[v] \subseteq Landed /\ \A i \in todo[v] : status[i] # "absent"
  BY DEF CallInv
<1>2. CASE FetchHistory(w)
  <2> DEFINE c == [call[w] EXCEPT !.pc = "scan"]
  <2>1. QuietPlace(c)
    BY ScanIsQuiet
  <2>2. History(w[2]) \subseteq Landed /\ Landed \subseteq Tx
    BY DEF History, Landed
  <2>3. call' = [call EXCEPT ![w] = c]
    BY <1>2 DEF FetchHistory, Goto
  <2>4. QED
    BY <1>1, <1>2, <2>1, <2>2, <2>3, CallerMoves DEF FetchHistory
<1>3. ASSUME NEW i \in Invoice, NEW t \in Tx, MatchInvoice(w, i, t)
      PROVE  IInv'
  <2> DEFINE c == [pc |-> "record", inv |-> i, hash |-> Spelling[t]]
  <2>1. t \in Landed /\ SweepMatches(t, i) /\ status[i] # "absent"
    BY <1>1, <1>3 DEF MatchInvoice, Matching
  <2>2. QuietPlace(c)
    BY <2>1, SpellingNames DEF QuietPlace, Places, CallPC, GoodFor
  <2>3. QED
    BY <1>1, <1>3, <2>2, CallerMoves DEF MatchInvoice
<1>4. ASSUME NEW i \in Invoice, SkipInvoice(w, i)
      PROVE  IInv'
  <2> DEFINE c == [call[w] EXCEPT !.pc = "scan"]
  <2>1. QuietPlace(c)
    BY ScanIsQuiet
  <2>2. call' = [call EXCEPT ![w] = c]
    BY <1>4 DEF SkipInvoice, Goto
  <2>3. QED
    BY <1>1, <1>4, <2>1, <2>2, CallerMoves DEF SkipInvoice
<1>5. CASE EndGroup(w)
  BY <1>1, <1>5, QuietRefused, CallerMoves DEF EndGroup, DropGroup
<1>6. QED
  BY <1>2, <1>3, <1>4, <1>5 DEF WorkerStep

\* The polling sweep keeps the invariant.
LEMMA SweepStep ==
  ASSUME IInv, SweepNext
  PROVE  IInv'
BY StartSweepStep, WorkerStepKeeps DEF SweepNext

-----------------------------------------------------------------------------
(* The expiry sweep.                                                       *)

\* The compare-and-set of the expiry sweep keeps the invariant.
LEMMA ExpireInvoiceStep ==
  ASSUME IInv, NEW e \in Expirer, NEW i \in Invoice, ExpireInvoice(e, i)
  PROVE  IInv'
<1> USE DEF ExpireInvoice, events, sweep, world
<1>1. /\ paymentTxHash[i] = None /\ received[i] = 0 /\ expired[i] = 0
      /\ \A f \in Expirer : expiry[f].pc = "notify" => expiry[f].inv # i
  BY PendingIsSilent
<1>2. TypeOK'
  <2>1. expiry' \in [Expirer -> ExpirerPlaces]
    BY DEF IInv, TypeOK, ExpirerPlaces
  <2>2. QED
    BY <2>1 DEF IInv, TypeOK, ExpirerPlaces
<1>3. RowInv'
  BY <1>1 DEF IInv, TypeOK, RowInv, SettlementBacked, OneHashOneInvoice, Landed
<1>4. NoticeInv'
  BY <1>1 DEF IInv, TypeOK, NoticeInv
<1>5. CallInv'
  BY DEF IInv, TypeOK, CallInv, HoldsInvoice, HoldsHash, Landed
<1>6. HandlerInv'
  BY HandlerFrame DEF IInv
<1>7. ExpiryInv'
  BY <1>1 DEF IInv, TypeOK, ExpiryInv
<1>8. OwnerInv'
  BY <1>1 DEF IInv, TypeOK, OwnerInv
<1>9. QED
  BY <1>2, <1>3, <1>4, <1>5, <1>6, <1>7, <1>8 DEF IInv

\* The enqueueWebhook of the expiry sweep announces what only it could.
LEMMA NotifyExpiredStep ==
  ASSUME IInv, NEW e \in Expirer, NotifyExpired(e)
  PROVE  IInv'
<1> DEFINE i == expiry[e].inv
<1> USE DEF NotifyExpired, rows, sweep, world
<1>1. /\ i \in Invoice /\ expired[i] = 0 /\ paymentTxHash[i] = None
      /\ status[i] \in {"expired", "cancelled"}
  BY DEF IInv, ExpiryInv
<1>2. TypeOK'
  <2> DEFINE c == [expiry[e] EXCEPT !.pc = "loop", !.inv = None]
  <2>1. c \in ExpirerPlaces /\ expiry \in [Expirer -> ExpirerPlaces]
    BY DEF IInv, TypeOK, ExpirerPlaces
  <2>2. expiry' = [expiry EXCEPT ![e] = c]
    OBVIOUS
  <2>3. expiry' \in [Expirer -> ExpirerPlaces]
    BY <2>1, <2>2
  <2>4. QED
    BY <1>1, <2>3 DEF IInv, TypeOK, ExpirerPlaces
<1>3. RowInv' /\ CallInv' /\ HandlerInv'
  BY RowFrame, CallFrame, HandlerFrame DEF IInv
<1>4. NoticeInv'
  BY <1>1 DEF IInv, TypeOK, NoticeInv
<1>5. ExpiryInv'
  BY <1>1 DEF IInv, TypeOK, ExpiryInv, OwnerInv
<1>6. OwnerInv'
  BY DEF IInv, TypeOK, OwnerInv
<1>7. QED
  BY <1>2, <1>3, <1>4, <1>5, <1>6 DEF IInv

\* Every step of the expiry sweep keeps the invariant.
LEMMA ExpirerStepKeeps ==
  ASSUME IInv, NEW e \in Expirer, ExpirerStep(e)
  PROVE  IInv'
<1>1. expiry[e] \in ExpirerPlaces /\ faults \in Nat
  BY DEF IInv, TypeOK, ExpirerPlaces
<1>2. ASSUME NEW c \in ExpirerPlaces, c.pc = "loop", expiry' = [expiry EXCEPT ![e] = c],
             UNCHANGED <<rows, events, call, sweep, handler, world, faults>>
      PROVE  IInv'
  BY <1>1, <1>2, ExpirerMoves
<1>3. CASE FindOverdue(e)
  <2>1. Overdue \subseteq Invoice
    BY DEF Overdue, Pending
  <2> DEFINE c == [expiry[e] EXCEPT !.due = Overdue]
  <2>2. c \in ExpirerPlaces /\ c.pc = expiry[e].pc
    BY <1>1, <2>1 DEF ExpirerPlaces
  <2>3. expiry[e].pc = "loop" /\ expiry' = [expiry EXCEPT ![e] = c]
    BY <1>3 DEF FindOverdue, Watching
  <2>4. UNCHANGED <<rows, events, call, sweep, handler, world, faults>>
    BY <1>3 DEF FindOverdue
  <2>5. QED
    BY <1>2, <2>2, <2>3, <2>4
<1>4. ASSUME NEW i \in Invoice, ExpireInvoice(e, i)
      PROVE  IInv'
  BY <1>4, ExpireInvoiceStep
<1>5. ASSUME NEW i \in Invoice, SkipExpiry(e, i)
      PROVE  IInv'
  <2> DEFINE c == [expiry[e] EXCEPT !.due = @ \ {i}]
  <2>1. c \in ExpirerPlaces /\ c.pc = expiry[e].pc
    BY <1>1 DEF ExpirerPlaces
  <2>2. QED
    BY <1>2, <1>5, <2>1 DEF SkipExpiry
<1>6. CASE NotifyExpired(e)
  BY <1>6, NotifyExpiredStep
<1>7. QED
  BY <1>3, <1>4, <1>5, <1>6 DEF ExpirerStep

-----------------------------------------------------------------------------
(* The EVM event handlers.                                                 *)

\* The $transaction of processEvent that settles an invoice keeps the invariant.
LEMMA CommitSettledStep ==
  ASSUME IInv, NEW h \in Handler, CommitSettled(h)
  PROVE  IInv'
<1> DEFINE i == handler[h].inv
           t == handler[h].tx
           k == EventHash(h)
<1> USE DEF CommitSettled, events, sweep, world
<1>1. i \in Invoice /\ t \in Tx /\ t \in Landed /\ Transfer[t].chain \in EvmChain
  BY DEF IInv, TypeOK, HandlerInv, Landed
<1>2. EventMatches(t, i)
  BY DEF IInv, HandlerInv
<1>3. <<t, i>> \in GoodFor /\ Terms[i].chain \in EvmChain
  BY <1>1, <1>2 DEF GoodFor, EventMatches, SameChain
<1>4. /\ status[i] = "pending" /\ k \notin recorded /\ Pay(i, k, None) /\ landedAt' = landedAt
      /\ k \in Hash /\ OnChain[k] = t /\ Stored(k) = k
  BY <1>1, SpellingNames DEF EventHash
<1>5. TypeOK'
  <2>1. handler' \in [Handler -> HandlerPlaces]
    BY DEF IInv, TypeOK, HandlerPlaces
  <2>2. QED
    BY <1>1, <1>4, <2>1 DEF IInv, TypeOK, Pay, HandlerPlaces
<1>6. RowInv'
  BY <1>1, <1>3, <1>4, PayRows
<1>7. /\ paymentTxHash[i] = None /\ received[i] = 0 /\ expired[i] = 0
      /\ \A q \in Caller : call[q].pc \in {"notify", "created"} => call[q].inv # i
      /\ \A g \in Handler : handler[g].pc = "notify" => handler[g].inv # i
      /\ \A e \in Expirer : expiry[e].pc = "notify" => expiry[e].inv # i
  BY <1>1, <1>4, PendingIsSilent
<1>8. NoticeInv'
  BY <1>1, <1>4, <1>7, NoneAssumption DEF IInv, TypeOK, NoticeInv, Pay
<1>9. CallInv'
  BY <1>1, <1>4, <1>7 DEF IInv, TypeOK, CallInv, HoldsInvoice, HoldsHash, Pay, Landed
<1>10. HandlerInv'
  BY <1>1, <1>4, <1>7 DEF IInv, TypeOK, HandlerInv, Pay, Landed, EventHash
<1>11. ExpiryInv'
  BY <1>1, <1>4, <1>7 DEF IInv, TypeOK, ExpiryInv, Pay
<1>12. OwnerInv'
  BY <1>1, <1>7 DEF IInv, TypeOK, OwnerInv
<1>13. QED
  BY <1>5, <1>6, <1>8, <1>9, <1>10, <1>11, <1>12 DEF IInv

\* The $transaction of processEvent that settles none keeps the invariant.
LEMMA CommitUnmatchedStep ==
  ASSUME IInv, NEW h \in Handler, CommitUnmatched(h)
  PROVE  IInv'
<1> DEFINE k == EventHash(h)
<1> USE DEF CommitUnmatched, events, sweep, world
<1>1. k \in Hash /\ OnChain[k] \in Landed /\ Stored(k) = k
  BY SpellingNames DEF IInv, HandlerInv, Landed, EventHash
<1>2. TypeOK'
  <2>1. handler' \in [Handler -> HandlerPlaces]
    BY DEF IInv, TypeOK, HandlerPlaces, Listening
  <2>2. QED
    BY <1>1, <2>1 DEF IInv, TypeOK, HandlerPlaces
<1>3. RowInv'
  BY <1>1 DEF IInv, RowInv, SettlementBacked, OneHashOneInvoice, Landed
<1>4. NoticeInv' /\ CallInv' /\ ExpiryInv'
  BY NoticeFrame, CallFrame, ExpiryFrame DEF IInv
<1>5. HandlerInv' /\ OwnerInv'
  BY DEF IInv, TypeOK, HandlerInv, OwnerInv, Landed, Listening, EventHash
<1>6. QED
  BY <1>2, <1>3, <1>4, <1>5 DEF IInv

\* The enqueueWebhook of processEvent announces what only it could.
LEMMA NotifySettledStep ==
  ASSUME IInv, NEW h \in Handler, NotifySettled(h)
  PROVE  IInv'
<1> DEFINE i == handler[h].inv
<1> USE DEF NotifySettled, rows, sweep, world
<1>1. /\ i \in Invoice /\ EventHash(h) \in Hash
      /\ paymentTxHash[i] = EventHash(h) /\ received[i] = 0
  BY SpellingNames DEF IInv, HandlerInv, Landed, EventHash
<1>2. TypeOK'
  <2>1. handler' \in [Handler -> HandlerPlaces]
    BY DEF IInv, TypeOK, HandlerPlaces, Listening
  <2>2. QED
    BY <1>1, <2>1 DEF IInv, TypeOK, HandlerPlaces
<1>3. RowInv' /\ ExpiryInv'
  BY RowFrame, ExpiryFrame DEF IInv
<1>4. NoticeInv'
  BY <1>1, NoneAssumption DEF IInv, TypeOK, NoticeInv
<1>5. CallInv'
  BY <1>1 DEF IInv, TypeOK, CallInv, OwnerInv, NoticeInv, HoldsInvoice, HoldsHash, Landed
<1>6. HandlerInv'
  BY <1>1 DEF IInv, TypeOK, HandlerInv, OwnerInv, Landed, Listening, EventHash
<1>7. OwnerInv'
  BY DEF IInv, TypeOK, OwnerInv, Listening
<1>8. QED
  BY <1>2, <1>3, <1>4, <1>5, <1>6, <1>7 DEF IInv

\* Every step of an event handler keeps the invariant.
LEMMA HandlerStepKeeps ==
  ASSUME IInv, NEW h \in Handler,
         (\E t \in Tx : DeliverEvent(h, t)) \/ HandlerStep(h)
  PROVE  IInv'
<1>1. handler[h] \in HandlerPlaces /\ faults \in Nat
  BY DEF IInv, TypeOK, HandlerPlaces
<1>2. Listening \in HandlerPlaces
  BY DEF Listening, HandlerPlaces
<1>3. ASSUME NEW c \in HandlerPlaces, c.pc # "notify",
             c.pc # "idle" => c.tx \in Landed /\ Transfer[c.tx].chain \in EvmChain,
             c.pc = "commit" /\ c.inv # None => EventMatches(c.tx, c.inv),
             OnlyHandler(h, c)
      PROVE  IInv'
  BY <1>1, <1>3, HandlerMoves DEF OnlyHandler
<1>4. handler[h].pc # "idle" =>
        handler[h].tx \in Landed /\ Transfer[handler[h].tx].chain \in EvmChain
  BY DEF IInv, HandlerInv
<1>5. ASSUME NEW t \in Tx, DeliverEvent(h, t)
      PROVE  IInv'
  BY <1>3, <1>5 DEF DeliverEvent, HandlerPlaces
<1>6. CASE FindExistingPayment(h)
  <2> DEFINE c == [handler[h] EXCEPT !.pc = "begin"]
  <2>1. c \in HandlerPlaces /\ c.pc = "begin" /\ c.tx = handler[h].tx
    BY <1>1 DEF HandlerPlaces
  <2>2. QED
    BY <1>2, <1>3, <1>4, <1>6, <2>1 DEF FindExistingPayment, Listening
<1>7. CASE MatchPaymentToInvoice(h)
  <2> DEFINE t == handler[h].tx
             c(i) == [handler[h] EXCEPT !.pc = "commit", !.inv = i]
  <2>1. PICK i \in Oldest(Candidates(t)) \cup {None} :
          OnlyHandler(h, c(i))
    BY <1>7 DEF MatchPaymentToInvoice
  <2>2. i \in Invoice \cup {None} /\ (i # None => EventMatches(t, i))
    BY <2>1 DEF Candidates, Oldest, Pending
  <2>3. c(i) \in HandlerPlaces /\ c(i).pc = "commit" /\ c(i).tx = t /\ c(i).inv = i
    BY <1>1, <2>2 DEF HandlerPlaces
  <2>4. t \in Landed /\ Transfer[t].chain \in EvmChain
    BY <1>4, <1>7 DEF MatchPaymentToInvoice
  <2>5. QED
    BY <1>3, <2>1, <2>2, <2>3, <2>4
<1>8. CASE CommitSettled(h)
  BY <1>8, CommitSettledStep
<1>9. CASE CommitUnmatched(h)
  BY <1>9, CommitUnmatchedStep
<1>10. CASE CommitDuplicate(h)
  BY <1>2, <1>3, <1>10 DEF CommitDuplicate, Listening
<1>11. CASE NotifySettled(h)
  BY <1>11, NotifySettledStep
<1>12. QED
  BY <1>5, <1>6, <1>7, <1>8, <1>9, <1>10, <1>11 DEF HandlerStep

-----------------------------------------------------------------------------
(* Faults.                                                                 *)

\* A backend that dies between any two awaits leaves rows that agree.
LEMMA BackendCrashStep ==
  ASSUME IInv, BackendCrash
  PROVE  IInv'
<1> USE DEF BackendCrash, Fault, rows, events, world
<1>1. TypeOK'
  BY DEF IInv, TypeOK, CallPC, AtRest, Idle, Watching
<1>2. RowInv' /\ NoticeInv' /\ HandlerInv'
  BY RowFrame, NoticeFrame, HandlerFrame DEF IInv
<1>3. CallInv' /\ ExpiryInv' /\ OwnerInv'
  BY DEF IInv, CallInv, ExpiryInv, OwnerInv, HoldsInvoice, HoldsHash, Idle, Watching
<1>4. QED
  BY <1>1, <1>2, <1>3 DEF IInv

\* An indexer that dies between any two awaits leaves rows that agree.
LEMMA IndexerCrashStep ==
  ASSUME IInv, IndexerCrash
  PROVE  IInv'
<1> USE DEF IndexerCrash, Fault, rows, events, sweep, world
<1>1. TypeOK'
  BY DEF IInv, TypeOK, Listening
<1>2. RowInv' /\ NoticeInv' /\ CallInv' /\ ExpiryInv'
  BY RowFrame, NoticeFrame, CallFrame, ExpiryFrame DEF IInv
<1>3. HandlerInv' /\ OwnerInv'
  BY DEF IInv, HandlerInv, OwnerInv, Listening
<1>4. QED
  BY <1>1, <1>2, <1>3 DEF IInv

\* No crash and no failed call breaks the invariant.
LEMMA FaultStep ==
  ASSUME IInv, FaultNext
  PROVE  IInv'
<1>1. Fault => faults' \in Nat
  BY DEF IInv, TypeOK, Fault
<1>2. \A w \in Worker : seen[w] \subseteq Landed /\ \A i \in todo[w] : status[i] # "absent"
  BY DEF IInv, CallInv
<1>3. ASSUME NEW r \in Request, RequestFails(r)
      PROVE  IInv'
  BY <1>1, <1>2, <1>3, QuietRefused, CallerMoves DEF RequestFails, Caller, IInv, TypeOK, sweep
<1>4. ASSUME NEW w \in Worker, WorkerFails(w)
      PROVE  IInv'
  BY <1>1, <1>2, <1>4, QuietRefused, CallerMoves
     DEF WorkerFails, DropGroup, Caller, IInv, TypeOK
<1>5. ASSUME NEW e \in Expirer, ExpirerFails(e)
      PROVE  IInv'
  BY <1>1, <1>5, ExpirerMoves DEF ExpirerFails, ExpirerPlaces, Watching
<1>6. ASSUME NEW h \in Handler, HandlerFails(h)
      PROVE  IInv'
  BY <1>1, <1>6, HandlerMoves DEF HandlerFails, HandlerPlaces, Listening
<1>7. QED
  BY <1>3, <1>4, <1>5, <1>6, BackendCrashStep, IndexerCrashStep DEF FaultNext

-----------------------------------------------------------------------------
(* The invariants of the specification.                                    *)

\* The invariant is inductive: every step of the system, and every stutter, keeps it.
THEOREM NextPreserves == IInv /\ [Next]_vars => IInv'
<1> SUFFICES ASSUME IInv, [Next]_vars PROVE IInv'
  OBVIOUS
<1>1. CASE UNCHANGED vars
  <2> USE DEF vars, rows, events, sweep, world
  <2>1. TypeOK'
    BY <1>1 DEF IInv, TypeOK
  <2>2. QED
    BY <1>1, <2>1, RowFrame, NoticeFrame, CallFrame, HandlerFrame, ExpiryFrame, OwnerFrame
       DEF IInv
<1>2. CASE Next
  BY <1>2, TickStep, LandStep, CreateStep, ConfirmStep, HttpStep, SweepStep,
     ExpirerStepKeeps, HandlerStepKeeps, FaultStep DEF Next
<1>3. QED
  BY <1>1, <1>2

\* The inductive invariant holds in every state of every behaviour.
THEOREM SettlementInvariant == Spec => []IInv
BY InitEstablishes, NextPreserves, PTL DEF Spec

\* The rows and the places of the processes keep their types.
THEOREM TypeSafety == Spec => []TypeOK
<1>1. IInv => TypeOK
  BY DEF IInv
<1>2. QED
  BY <1>1, SettlementInvariant, PTL

\* For any set of invoices, transactions and processes, and however a transaction
\* is spelled, no stored hash pays two invoices: confirmInvoicePayment and
\* processEvent race on one unique key.
THEOREM NoHashPaysTwice == Spec => []OneHashOneInvoice
<1>1. IInv => OneHashOneInvoice
  BY DEF IInv, RowInv
<1>2. QED
  BY <1>1, SettlementInvariant, PTL

\* Where a transaction has one spelling that can be stored, two recorded hashes
\* name two transactions.
LEMMA RecordedApart ==
  ASSUME RowInv, recorded \subseteq Hash, SpelledOnce,
         NEW g \in recorded, NEW h \in recorded, OnChain[g] = OnChain[h]
  PROVE  g = h
<1>1. Stored(g) = g /\ Stored(h) = h
  BY DEF RowInv
<1>2. CASE Transfer[OnChain[g]].chain \in EchoChain
  BY <1>2 DEF SpelledOnce
<1>3. CASE Transfer[OnChain[g]].chain \notin EchoChain
  BY <1>1, <1>3 DEF Stored
<1>4. QED
  BY <1>2, <1>3

\* On a chain whose verifier answers with the chain's own spelling, and on any
\* other where a transaction has one spelling, no transaction pays two invoices,
\* whoever races.  Without SpelledOnce it is false: a transaction on an EVM chain
\* pays one invoice per spelling.
THEOREM NoDoubleSpend == SpelledOnce /\ Spec => []OneTxOneInvoice
<1>1. SpelledOnce /\ IInv => OneTxOneInvoice
  <2> SUFFICES ASSUME SpelledOnce, IInv, NEW i \in Invoice, NEW j \in Invoice,
                      paymentTxHash[i] # None, paymentTxHash[j] # None,
                      OnChain[paymentTxHash[i]] = OnChain[paymentTxHash[j]]
               PROVE  i = j
    BY DEF OneTxOneInvoice
  <2>1. paymentTxHash[i] \in recorded /\ paymentTxHash[j] \in recorded
    BY DEF IInv, RowInv, SettlementBacked
  <2>2. paymentTxHash[i] = paymentTxHash[j]
    BY <2>1, RecordedApart DEF IInv, TypeOK
  <2>3. QED
    BY <2>2 DEF IInv, RowInv, OneHashOneInvoice
<1>2. SpelledOnce /\ Spec => []SpelledOnce
  <2>1. SpelledOnce => SpelledOnce'
    BY DEF SpelledOnce
  <2>2. QED
    BY <2>1, PTL DEF Spec
<1>3. QED
  BY <1>1, <1>2, SettlementInvariant, PTL

\* For any set of invoices, transactions and processes, an invoice is paid only by
\* a landed transaction that is good for it, and its payments row agrees with it.
THEOREM TablesAgree == Spec => []SettlementBacked
<1>1. IInv => SettlementBacked
  BY DEF IInv, RowInv
<1>2. QED
  BY <1>1, SettlementInvariant, PTL

\* For any number of racing processes the merchant is sent at most one of
\* payment.received and invoice.expired, once, and the true one.
THEOREM NoticeOnce == Spec => []OneNotice
<1>1. IInv => OneNotice
  BY DEF IInv, NoticeInv, OneNotice
<1>2. QED
  BY <1>1, SettlementInvariant, PTL

\* A caller answered "created" settled the invoice it names and the event was sent.
THEOREM CreatedIsTrue == Spec => []CreatedMeansSettled
<1>1. IInv => CreatedMeansSettled
  BY DEF IInv, CallInv, CreatedMeansSettled
<1>2. QED
  BY <1>1, SettlementInvariant, PTL

-----------------------------------------------------------------------------
(* What a step may never do.                                               *)

\* Only five steps write invoices.status or invoices.paymentTxHash.
LEMMA RowWriters ==
  ASSUME Next
  PROVE  \/ UNCHANGED <<status, paymentTxHash>>
         \/ \E i \in Invoice : CreateInvoice(i)
         \/ \E p \in Caller : RecordPayment(p)
         \/ \E r \in Request : WriteCancelled(r)
         \/ \E e \in Expirer, i \in Invoice : ExpireInvoice(e, i)
         \/ \E h \in Handler : CommitSettled(h)
<1> USE DEF rows
<1>1. CASE Tick \/ \E t \in Tx : Land(t)
  BY <1>1 DEF Tick, Land
<1>2. CASE \E p \in Caller : ConfirmInvoicePayment(p)
  BY <1>2 DEF ConfirmInvoicePayment, RecordDuplicate, RecordRaced, NotifyReceived,
              AnswerDuplicate, FindWinner, NotPayable, OnlyMoves, Place
<1>3. CASE HttpNext
  BY <1>3 DEF HttpNext, PayInvoice, ConfirmPayment, CancelInvoice, VerifyPaymentTxOnChain, Place
<1>4. CASE SweepNext
  BY <1>4 DEF SweepNext, StartSweep, WorkerStep, FetchHistory, MatchInvoice, SkipInvoice, EndGroup
<1>5. CASE \E e \in Expirer : ExpirerStep(e)
  BY <1>5 DEF ExpirerStep, FindOverdue, SkipExpiry, NotifyExpired
<1>6. CASE \E h \in Handler : (\E t \in Tx : DeliverEvent(h, t)) \/ HandlerStep(h)
  BY <1>6 DEF DeliverEvent, HandlerStep, FindExistingPayment, MatchPaymentToInvoice,
              CommitUnmatched, CommitDuplicate, NotifySettled, OnlyHandler
<1>7. CASE FaultNext
  BY <1>7 DEF FaultNext, BackendCrash, IndexerCrash, RequestFails, WorkerFails,
              ExpirerFails, HandlerFails
<1>8. QED
  BY <1>1, <1>2, <1>3, <1>4, <1>5, <1>6, <1>7 DEF Next

\* No step replaces the transaction of an invoice or pays a closed one.
THEOREM ClosedStaysClosed == Spec => Irrevocable
<1> DEFINE Kept(i) ==
      /\ paymentTxHash[i] # None => paymentTxHash'[i] = paymentTxHash[i]
      /\ status[i] \in {"expired", "cancelled"} => status'[i] \in {"expired", "cancelled"}
      /\ status[i] # "absent" => status'[i] # "absent"
<1>1. IInv /\ [Next]_vars => [\A i \in Invoice : Kept(i)]_vars
  <2> SUFFICES ASSUME IInv, Next, NEW i \in Invoice
               PROVE  Kept(i)
    OBVIOUS
  <2>1. status[i] = "pending" => paymentTxHash[i] = None
    BY DEF IInv, RowInv, SettlementBacked
  <2>2. ASSUME NEW j \in Invoice, NEW t, NEW link, status[j] = "pending", Pay(j, t, link)
        PROVE  Kept(i)
    BY <2>1, <2>2 DEF IInv, TypeOK, Pay
  <2>3. ASSUME NEW p \in Caller, RecordPayment(p)
        PROVE  Kept(i)
    <3>1. call[p].inv \in Invoice
      BY <2>3 DEF RecordPayment, IInv, CallInv, HoldsInvoice
    <3>2. QED
      BY <2>2, <2>3, <3>1 DEF RecordPayment
  <2>4. ASSUME NEW h \in Handler, CommitSettled(h)
        PROVE  Kept(i)
    <3>1. handler[h].inv \in Invoice
      BY <2>4 DEF CommitSettled, IInv, TypeOK
    <3>2. QED
      BY <2>2, <2>4, <3>1 DEF CommitSettled
  <2>5. ASSUME NEW r \in Request, WriteCancelled(r)
        PROVE  Kept(i)
    BY <2>5 DEF WriteCancelled, IInv, TypeOK
  <2>6. ASSUME NEW j \in Invoice, CreateInvoice(j)
        PROVE  Kept(i)
    BY <2>6 DEF CreateInvoice, IInv, TypeOK
  <2>7. ASSUME NEW e \in Expirer, NEW j \in Invoice, ExpireInvoice(e, j)
        PROVE  Kept(i)
    BY <2>7 DEF ExpireInvoice, IInv, TypeOK
  <2>8. QED
    BY <2>3, <2>4, <2>5, <2>6, <2>7, RowWriters
<1>2. QED
  BY <1>1, SettlementInvariant, PTL DEF Spec, Irrevocable

-----------------------------------------------------------------------------
(* Settlement implements the ledger.                                       *)

\* A step that leaves these columns alone is a stutter of the ledger.
LEMMA LedgerStutters ==
  ASSUME UNCHANGED <<status, paymentTxHash, recorded, landedAt, received, expired>>
  PROVE  UNCHANGED HashLedger!ledgerVars
BY DEF HashLedger!ledgerVars, Pending, Landed

\* Paying an open invoice settles it in the ledger.
LEMMA PaySettles ==
  ASSUME IInv, NEW i \in Invoice, NEW h \in Hash, NEW link,
         status[i] = "pending", h \notin recorded,
         OnChain[h] \in Landed, <<OnChain[h], i>> \in GoodFor,
         Pay(i, h, link), UNCHANGED <<landedAt, received, expired>>
  PROVE  HashLedger!Settle(i, h)
BY DEF HashLedger!Settle, Pay, Pending, Landed, IInv, TypeOK

\* Announcing a settled invoice for the first time tells the merchant.
LEMMA NotifyTells ==
  ASSUME IInv, NEW i \in Invoice, paymentTxHash[i] # None, received[i] = 0,
         received' = [received EXCEPT ![i] = @ + 1],
         UNCHANGED <<status, paymentTxHash, recorded, landedAt, expired>>
  PROVE  HashLedger!TellPaid(i)
<1>1. {j \in Invoice : received'[j] > 0} = {j \in Invoice : received[j] > 0} \cup {i}
  BY DEF IInv, TypeOK
<1>2. i \notin {j \in Invoice : received[j] > 0}
  OBVIOUS
<1>3. QED
  BY <1>1, <1>2 DEF HashLedger!TellPaid, Pending, Landed

\* A step of the expiry sweep closes, tells of a lapse, or is invisible.
LEMMA ExpiryImplements ==
  ASSUME IInv, NEW e \in Expirer, ExpirerStep(e)
  PROVE  [HashLedger!LedgerNext]_HashLedger!ledgerVars
<1> USE DEF rows, events, world
<1>1. ASSUME NEW i \in Invoice, ExpireInvoice(e, i)
      PROVE  HashLedger!Close(i)
  <2>1. UNCHANGED <<paymentTxHash, recorded, landedAt, received, expired>>
    BY <1>1 DEF ExpireInvoice
  <2>2. Pending' = Pending \ {i} /\ i \in Pending
    BY <1>1 DEF ExpireInvoice, Pending, IInv, TypeOK
  <2>3. \A j \in Invoice : (status'[j] # "absent") = (status[j] # "absent")
    BY <1>1 DEF ExpireInvoice, IInv, TypeOK
  <2>4. QED
    BY <2>1, <2>2, <2>3 DEF HashLedger!Close, Landed
<1>2. CASE NotifyExpired(e)
  <2>1. PICK i \in Invoice :
          /\ i = expiry[e].inv
          /\ expired[i] = 0 /\ paymentTxHash[i] = None
          /\ status[i] \in {"expired", "cancelled"}
    BY <1>2 DEF NotifyExpired, IInv, ExpiryInv
  <2>2. {j \in Invoice : expired'[j] > 0} = {j \in Invoice : expired[j] > 0} \cup {i}
    BY <1>2, <2>1 DEF NotifyExpired, IInv, TypeOK
  <2>3. i \notin {j \in Invoice : expired[j] > 0}
    BY <2>1
  <2>4. UNCHANGED <<status, paymentTxHash, recorded, landedAt, received>>
    BY <1>2 DEF NotifyExpired
  <2>5. HashLedger!TellLapsed(i)
    BY <2>1, <2>2, <2>3, <2>4 DEF HashLedger!TellLapsed, Pending, Landed
  <2>6. QED
    BY <2>1, <2>5 DEF HashLedger!LedgerNext
<1>3. CASE FindOverdue(e) \/ \E i \in Invoice : SkipExpiry(e, i)
  BY <1>3, LedgerStutters DEF FindOverdue, SkipExpiry
<1>4. QED
  BY <1>1, <1>2, <1>3 DEF ExpirerStep, HashLedger!LedgerNext

\* A step of confirmInvoicePayment settles, tells of it, or is invisible.
LEMMA ConfirmImplements ==
  ASSUME IInv, NEW p \in Caller, ConfirmInvoicePayment(p)
  PROVE  [HashLedger!LedgerNext]_HashLedger!ledgerVars
<1> DEFINE i == call[p].inv
           h == call[p].hash
<1> USE DEF rows, events, world
<1>1. CASE RecordPayment(p)
  <2>1. i \in Invoice /\ h \in Hash /\ OnChain[h] \in Landed /\ <<OnChain[h], i>> \in GoodFor
    BY <1>1 DEF RecordPayment, IInv, CallInv, HoldsInvoice, HoldsHash
  <2>2. HashLedger!Settle(i, h)
    BY <1>1, <2>1, PaySettles DEF RecordPayment
  <2>3. QED
    BY <2>1, <2>2 DEF HashLedger!LedgerNext
<1>2. CASE NotifyReceived(p)
  <2>1. PICK j \in Invoice : j = call[p].inv /\ paymentTxHash[j] # None /\ received[j] = 0
    BY <1>2, NoneAssumption DEF NotifyReceived, IInv, CallInv, HoldsInvoice, HoldsHash
  <2>2. HashLedger!TellPaid(j)
    BY <1>2, <2>1, NotifyTells DEF NotifyReceived
  <2>3. QED
    BY <2>1, <2>2 DEF HashLedger!LedgerNext
<1>3. CASE RecordDuplicate(p) \/ RecordRaced(p) \/ AnswerDuplicate(p) \/ FindWinner(p)
           \/ NotPayable(p)
  BY <1>3, LedgerStutters DEF RecordDuplicate, RecordRaced, AnswerDuplicate, FindWinner,
     NotPayable, OnlyMoves, Place
<1>4. QED
  BY <1>1, <1>2, <1>3 DEF ConfirmInvoicePayment

\* A step of an event handler settles, records, tells, or is invisible.
LEMMA HandlerImplements ==
  ASSUME IInv, NEW h \in Handler, (\E t \in Tx : DeliverEvent(h, t)) \/ HandlerStep(h)
  PROVE  [HashLedger!LedgerNext]_HashLedger!ledgerVars
<1> DEFINE i == handler[h].inv
           t == handler[h].tx
<1> USE DEF rows, events, world
<1>1. handler[h].pc # "idle" =>
        /\ t \in Tx /\ t \in Landed /\ Transfer[t].chain \in EvmChain
        /\ EventHash(h) \in Hash /\ OnChain[EventHash(h)] = t
  BY SpellingNames DEF IInv, HandlerInv, Landed, EventHash
<1>2. CASE CommitSettled(h)
  <2>1. i \in Invoice /\ EventMatches(t, i)
    BY <1>2 DEF CommitSettled, IInv, TypeOK, HandlerInv
  <2>2. <<t, i>> \in GoodFor
    BY <1>1, <1>2, <2>1 DEF CommitSettled, GoodFor
  <2>3. HashLedger!Settle(i, EventHash(h))
    BY <1>1, <1>2, <2>1, <2>2, PaySettles DEF CommitSettled
  <2>4. QED
    BY <1>1, <1>2, <2>1, <2>3 DEF CommitSettled, HashLedger!LedgerNext
<1>3. CASE CommitUnmatched(h)
  <2>1. HashLedger!RecordUnmatched(EventHash(h))
    BY <1>1, <1>3 DEF CommitUnmatched, HashLedger!RecordUnmatched, Pending, Landed
  <2>2. QED
    BY <1>1, <1>3, <2>1 DEF CommitUnmatched, HashLedger!LedgerNext
<1>4. CASE NotifySettled(h)
  <2>1. PICK j \in Invoice : j = handler[h].inv /\ paymentTxHash[j] # None /\ received[j] = 0
    BY <1>1, <1>4, NoneAssumption DEF NotifySettled, IInv, HandlerInv
  <2>2. HashLedger!TellPaid(j)
    BY <1>4, <2>1, NotifyTells DEF NotifySettled
  <2>3. QED
    BY <2>1, <2>2 DEF HashLedger!LedgerNext
<1>5. CASE (\E u \in Tx : DeliverEvent(h, u)) \/ FindExistingPayment(h)
           \/ MatchPaymentToInvoice(h) \/ CommitDuplicate(h)
  BY <1>5, LedgerStutters DEF DeliverEvent, FindExistingPayment, MatchPaymentToInvoice,
     CommitDuplicate, OnlyHandler
<1>6. QED
  BY <1>2, <1>3, <1>4, <1>5 DEF HandlerStep

\* A request outside confirmInvoicePayment closes an open invoice or is invisible.
LEMMA HttpImplements ==
  ASSUME IInv, HttpNext
  PROVE  [HashLedger!LedgerNext]_HashLedger!ledgerVars
<1> USE DEF rows, events, world
<1>1. ASSUME NEW r \in Request, WriteCancelled(r)
      PROVE  [HashLedger!LedgerNext]_HashLedger!ledgerVars
  <2> DEFINE i == call[r].inv
  <2>1. i \in Invoice /\ status[i] # "absent"
    BY <1>1 DEF WriteCancelled, Caller, IInv, CallInv, HoldsInvoice
  <2>2. UNCHANGED <<paymentTxHash, recorded, landedAt, received, expired>>
    BY <1>1 DEF WriteCancelled
  <2>3. \A j \in Invoice : (status'[j] # "absent") = (status[j] # "absent")
    BY <1>1, <2>1 DEF WriteCancelled, IInv, TypeOK
  <2>4. Pending' = Pending \ {i}
    BY <1>1, <2>1 DEF WriteCancelled, Pending, IInv, TypeOK
  <2>5. CASE i \in Pending
    <3>1. HashLedger!Close(i)
      BY <2>2, <2>3, <2>4, <2>5 DEF HashLedger!Close, Landed
    <3>2. QED
      BY <2>1, <3>1 DEF HashLedger!LedgerNext
  <2>6. CASE i \notin Pending
    BY <2>2, <2>3, <2>4, <2>6 DEF HashLedger!ledgerVars, Landed
  <2>7. QED
    BY <2>5, <2>6
<1>2. QED
  BY <1>1, LedgerStutters DEF HttpNext, PayInvoice, ConfirmPayment, CancelInvoice, VerifyPaymentTxOnChain, Place

\* A new invoice is issued, a landing transaction is mined, time is invisible.
LEMMA WorldImplements ==
  ASSUME IInv, Tick \/ (\E t \in Tx : Land(t)) \/ \E i \in Invoice : CreateInvoice(i)
  PROVE  [HashLedger!LedgerNext]_HashLedger!ledgerVars
<1> USE DEF rows, events, world
<1>1. CASE Tick
  BY <1>1, LedgerStutters DEF Tick
<1>2. ASSUME NEW t \in Tx, Land(t)
      PROVE  HashLedger!Mine({h \in Hash : OnChain[h] = t})
  <2>1. t \notin Landed /\ Landed' = Landed \cup {t}
    <3> DEFINE height == Cardinality(Landed) + 1
    <3>1. height \in Nat \ {0}
      BY NextHeight DEF IInv, TypeOK
    <3>2. landedAt[t] = 0 /\ landedAt' = [landedAt EXCEPT ![t] = height]
      BY <1>2 DEF Land
    <3> HIDE DEF height
    <3>3. QED
      BY <3>1, <3>2 DEF Landed, IInv, TypeOK
  <2>2. UNCHANGED <<status, paymentTxHash, recorded, received, expired>>
    BY <1>2 DEF Land
  <2>3. Spelling[t] \in {h \in Hash : OnChain[h] = t}
    BY SpellingNames
  <2>4. QED
    BY <2>1, <2>2, <2>3 DEF HashLedger!Mine, Pending
<1>3. ASSUME NEW i \in Invoice, CreateInvoice(i)
      PROVE  HashLedger!Issue(i)
  <2>1. UNCHANGED <<paymentTxHash, recorded, landedAt, received, expired>>
    BY <1>3 DEF CreateInvoice
  <2>2. /\ Pending' = Pending \cup {i}
        /\ {j \in Invoice : status'[j] # "absent"} =
             {j \in Invoice : status[j] # "absent"} \cup {i}
    BY <1>3 DEF CreateInvoice, Pending, IInv, TypeOK
  <2>3. status[i] = "absent"
    BY <1>3 DEF CreateInvoice
  <2>4. QED
    BY <2>1, <2>2, <2>3 DEF HashLedger!Issue, Landed
<1>4. QED
  BY <1>1, <1>2, <1>3 DEF HashLedger!LedgerNext

\* Every step of settlement is a step of the ledger or leaves it alone.
LEMMA StepImplements ==
  ASSUME IInv, [Next]_vars
  PROVE  [HashLedger!LedgerNext]_HashLedger!ledgerVars
<1> USE DEF rows, events, world
<1>1. CASE SweepNext
  BY <1>1, LedgerStutters
     DEF SweepNext, StartSweep, WorkerStep, FetchHistory, MatchInvoice, SkipInvoice, EndGroup
<1>2. CASE FaultNext
  BY <1>2, LedgerStutters
     DEF FaultNext, BackendCrash, IndexerCrash, RequestFails, WorkerFails, ExpirerFails, HandlerFails
<1>3. CASE UNCHANGED vars
  BY <1>3, LedgerStutters DEF vars
<1>4. QED
  BY <1>1, <1>2, <1>3, WorldImplements, ConfirmImplements, HttpImplements, ExpiryImplements,
     HandlerImplements DEF Next

\* The settlement of invoices by four kinds of racing writers implements the
\* ledger of stored hashes, in which paying is one indivisible step.
THEOREM SettlementImplementsHashLedger == Spec => ImplementsHashLedger
<1>1. Init => HashLedger!LedgerInit
  BY DEF Init, HashLedger!LedgerInit, Pending, Landed
<1>2. IInv /\ [Next]_vars => [HashLedger!LedgerNext]_HashLedger!ledgerVars
  BY StepImplements
<1>3. QED
  BY <1>1, <1>2, SettlementInvariant, PTL
     DEF Spec, ImplementsHashLedger, HashLedger!LedgerSpec

-----------------------------------------------------------------------------
(* From hashes to transactions.                                            *)

SettledTx == [i \in Invoice |-> IF paymentTxHash[i] = None
                               THEN None ELSE OnChain[paymentTxHash[i]]]
SpentTx == {OnChain[h] : h \in recorded}

\* A hash that is recorded next to others makes one more transaction spent.
LEMMA NewTxSpent ==
  ASSUME TypeOK, TypeOK', RowInv', SpelledOnce,
         NEW h \in Hash, h \notin recorded, recorded' = recorded \cup {h}
  PROVE  OnChain[h] \notin SpentTx /\ SpentTx' = SpentTx \cup {OnChain[h]}
<1>1. ASSUME OnChain[h] \in SpentTx
      PROVE  FALSE
  <2>1. PICK g \in recorded : OnChain[g] = OnChain[h]
    BY <1>1 DEF SpentTx
  <2>2. \A k \in recorded' : Stored(k) = k
    BY DEF RowInv
  <2>3. Stored(g) = g /\ Stored(h) = h /\ g \in Hash
    BY <2>2 DEF TypeOK
  <2>4. CASE Transfer[OnChain[g]].chain \in EchoChain
    BY <2>1, <2>3, <2>4 DEF SpelledOnce
  <2>5. CASE Transfer[OnChain[g]].chain \notin EchoChain
    BY <2>1, <2>3, <2>5 DEF Stored
  <2>6. QED
    BY <2>4, <2>5
<1>2. SpentTx' = SpentTx \cup {OnChain[h]}
  BY DEF SpentTx
<1>3. QED
  BY <1>1, <1>2

\* A step of the ledger of hashes is a step of the ledger of transactions.
LEMMA HashStepCounts ==
  ASSUME SpelledOnce, TypeOK, TypeOK', RowInv', HashLedger!LedgerNext
  PROVE  Ledger!LedgerNext
<1> DEFINE issued == {i \in Invoice : status[i] # "absent"}
<1>1. UNCHANGED paymentTxHash => UNCHANGED SettledTx
  BY DEF SettledTx
<1>2. UNCHANGED recorded => UNCHANGED SpentTx
  BY DEF SpentTx
<1>3. \A i \in Invoice : (SettledTx[i] = None) = (paymentTxHash[i] = None)
  BY StoredNames, NoneAssumption DEF SettledTx, TypeOK
<1>4. ASSUME UNCHANGED {h \in Hash : OnChain[h] \in Landed}
      PROVE  UNCHANGED Landed
  BY <1>4, SpellingNames DEF Landed
<1>5. ASSUME NEW i \in Invoice, HashLedger!Issue(i)
      PROVE  Ledger!Issue(i)
  BY <1>1, <1>2, <1>4, <1>5 DEF HashLedger!Issue, Ledger!Issue, SettledTx, SpentTx
<1>6. ASSUME NEW i \in Invoice, HashLedger!Close(i)
      PROVE  Ledger!Close(i)
  BY <1>1, <1>2, <1>4, <1>6 DEF HashLedger!Close, Ledger!Close, SettledTx, SpentTx
<1>7. ASSUME NEW i \in Invoice, HashLedger!TellPaid(i)
      PROVE  Ledger!TellPaid(i)
  BY <1>1, <1>2, <1>3, <1>4, <1>7 DEF HashLedger!TellPaid, Ledger!TellPaid, SettledTx, SpentTx
<1>8. ASSUME NEW i \in Invoice, HashLedger!TellLapsed(i)
      PROVE  Ledger!TellLapsed(i)
  BY <1>1, <1>2, <1>3, <1>4, <1>8 DEF HashLedger!TellLapsed, Ledger!TellLapsed, SettledTx, SpentTx
<1>9. ASSUME NEW h \in Hash, HashLedger!RecordUnmatched(h)
      PROVE  Ledger!RecordUnmatched(OnChain[h])
  <2>1. OnChain[h] \in Landed \ SpentTx /\ SpentTx' = SpentTx \cup {OnChain[h]}
    BY <1>9, NewTxSpent DEF HashLedger!RecordUnmatched
  <2>2. QED
    BY <1>1, <1>4, <1>9, <2>1 DEF HashLedger!RecordUnmatched, Ledger!RecordUnmatched, SettledTx, SpentTx
<1>10. ASSUME NEW i \in Invoice, NEW h \in Hash, HashLedger!Settle(i, h)
       PROVE  Ledger!Settle(i, OnChain[h])
  <2>1. OnChain[h] \in Landed \ SpentTx /\ SpentTx' = SpentTx \cup {OnChain[h]}
    BY <1>10, NewTxSpent DEF HashLedger!Settle
  <2>2. SettledTx' = [SettledTx EXCEPT ![i] = OnChain[h]]
    BY <1>10, NoneAssumption DEF HashLedger!Settle, SettledTx, TypeOK
  <2>3. <<OnChain[h], i>> \in GoodFor
    BY <1>10 DEF HashLedger!Settle
  <2>4. QED
    BY <1>4, <1>10, <2>1, <2>2, <2>3 DEF HashLedger!Settle, Ledger!Settle, SettledTx, SpentTx
<1>11. ASSUME NEW P \in SUBSET Hash, HashLedger!Mine(P)
       PROVE  Ledger!Mine({OnChain[h] : h \in P})
  <2>1. /\ {h \in Hash : OnChain[h] \in Landed'} = {h \in Hash : OnChain[h] \in Landed} \cup P
        /\ P # {} /\ P \cap {h \in Hash : OnChain[h] \in Landed} = {}
    BY <1>11 DEF HashLedger!Mine
  <2>2. Landed \subseteq Tx /\ Landed' \subseteq Tx
    BY DEF Landed
  <2>3. /\ Landed' = Landed \cup {OnChain[h] : h \in P}
        /\ {OnChain[h] : h \in P} \cap Landed = {} /\ {OnChain[h] : h \in P} # {}
    BY <2>1, <2>2, SpellingNames
  <2>4. QED
    BY <1>1, <1>2, <1>11, <2>3 DEF HashLedger!Mine, Ledger!Mine, SettledTx, SpentTx
<1>12. \A h \in Hash : OnChain[h] \in Tx
  BY StoredNames
<1>13. \A P \in SUBSET Hash : {OnChain[h] : h \in P} \in SUBSET Tx
  BY <1>12
<1>14. QED
  BY <1>5, <1>6, <1>7, <1>8, <1>9, <1>10, <1>11, <1>12, <1>13
     DEF HashLedger!LedgerNext, Ledger!LedgerNext

\* Where a transaction has one spelling that can be stored, settlement keeps the
\* promise of the ledger for the transactions themselves.
THEOREM SettlementImplementsLedger == SpelledOnce /\ Spec => ImplementsLedger
<1>1. Init => Ledger!LedgerInit
  BY DEF Init, Ledger!LedgerInit, Pending, Landed
<1>2. SpelledOnce /\ IInv /\ IInv' /\ [Next]_vars => [Ledger!LedgerNext]_Ledger!ledgerVars
  <2> SUFFICES ASSUME SpelledOnce, IInv, IInv', [Next]_vars
               PROVE  [Ledger!LedgerNext]_Ledger!ledgerVars
    OBVIOUS
  <2>1. CASE HashLedger!LedgerNext
    BY <2>1, HashStepCounts DEF IInv
  <2>2. CASE UNCHANGED HashLedger!ledgerVars
    <3>1. UNCHANGED Landed
      BY <2>2, SpellingNames DEF HashLedger!ledgerVars, Landed
    <3>2. QED
      BY <2>2, <3>1 DEF HashLedger!ledgerVars, Ledger!ledgerVars
  <2>3. QED
    BY <2>1, <2>2, StepImplements
<1>3. SpelledOnce /\ Spec => []SpelledOnce
  <2>1. SpelledOnce => SpelledOnce'
    BY DEF SpelledOnce
  <2>2. QED
    BY <2>1, PTL DEF Spec
<1>4. QED
  BY <1>1, <1>2, <1>3, SettlementInvariant, PTL
     DEF Spec, ImplementsLedger, Ledger!LedgerSpec
=============================================================================
