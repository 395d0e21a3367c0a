------------------------- MODULE OnrampOrders_proofs -------------------------
(***************************************************************************)
(* The safety of the order book for every set of orders, requests and      *)
(* sweeps: IInv is inductive, and what it says of the callers gives both   *)
(* the truth of the replies and the inertness of closed orders.            *)
(***************************************************************************)
EXTENDS OnrampOrders, TLAPS

Places ==
  [pc : AtRest \cup {"write", "refund", "loop"}, order : Order \cup {None},
   next : FiatOrderStatus \cup {None}, event : Fields, seen : Fields]

\* A place a caller may take without writing a row.
GoodPlace(c, place) ==
  /\ place \in Places
  /\ place.pc \in {"write", "refund", "applied", "ignored"} =>
       /\ place.order \in Order /\ place.next \in FiatOrderStatus
       /\ status[place.order] # "absent"
  /\ place.pc = "refund" =>
       place.next = "refunded" /\ status[place.order] \in Terminal
  /\ c \in Handler => place.pc # "applied"
  /\ c \in Handler /\ place.pc = "ignored" =>
       /\ status[place.order] \in Terminal
       /\ place.next = "refunded" => status[place.order] # "completed"

-----------------------------------------------------------------------------
\* An empty table and idle callers satisfy the inductive invariant.
THEOREM InitEstablishes == Init => IInv
<1> SUFFICES ASSUME Init PROVE IInv
  OBVIOUS
<1> USE DEF Init
<1>1. Idle \in Places
  BY DEF Idle, Places, AtRest, NoFields, Fields
<1>2. Idle.pc = "idle"
  BY DEF Idle
<1>3. TypeOK
  BY <1>1 DEF TypeOK, Places
<1>4. RowInv /\ CallInv /\ RepliesHold
  BY <1>2 DEF RowInv, CallInv, RepliesHold, Caller
<1>5. QED
  BY <1>3, <1>4 DEF IInv

\* A caller that moves without writing keeps the invariant.
LEMMA CallerMoves ==
  ASSUME IInv, NEW c \in Caller, NEW place, GoodPlace(c, place),
         call' = [call EXCEPT ![c] = place],
         UNCHANGED <<status, fields, updatedAt, provider>>,
         todo' \in [Poller -> SUBSET Snapshot],
         \A s \in Poller : \A order \in todo'[s] : status[order.order] # "absent",
         deliveries' \in Nat, faults' \in Nat
  PROVE  IInv'
<1> USE DEF fields, updatedAt, provider
<1>1. TypeOK'
  BY DEF IInv, TypeOK, GoodPlace, Places
<1>2. RowInv'
  BY DEF IInv, RowInv
<1>3. ASSUME NEW d \in Caller
      PROVE  call'[d] = IF d = c THEN place ELSE call[d]
  BY DEF IInv, TypeOK
<1>4. CallInv'
  BY <1>3 DEF IInv, CallInv, GoodPlace
<1>5. RepliesHold'
  BY <1>3 DEF IInv, RepliesHold, GoodPlace, Caller
<1>6. QED
  BY <1>1, <1>2, <1>4, <1>5 DEF IInv

\* A step that moves no caller and only adds rows keeps the invariant.
LEMMA TableMoves ==
  ASSUME IInv, TypeOK', UNCHANGED <<call, todo>>,
         \A o \in Order : status[o] # "absent" => status'[o] = status[o],
         \A o \in Order :
           /\ status'[o] = "absent" <=> truth'[o] = "absent"
           /\ status'[o] = "absent" => past'[o] = {}
  PROVE  IInv'
<1>1. RowInv'
  BY DEF IInv, TypeOK, RowInv, Snapshot
<1>2. CallInv'
  BY DEF IInv, CallInv
<1>3. RepliesHold'
  BY DEF IInv, RepliesHold, CallInv, Caller
<1>4. QED
  BY <1>1, <1>2, <1>3 DEF IInv

-----------------------------------------------------------------------------
(* The write of a transition.                                              *)

\* What a caller hands over are fields of the table.
LEMMA HandedType ==
  ASSUME TypeOK, NEW c \in Caller
  PROVE  Handed(c) \in Fields
BY DEF TypeOK, Handed, Fields

\* The place of a caller whose call returned.
LEMMA ReturnPlace ==
  ASSUME TypeOK, NEW c \in Caller, NEW result \in {"applied", "ignored"}, Return(c, result)
  PROVE  /\ call' \in [Caller -> Places]
         /\ \A d \in Caller : d # c => call'[d] = call[d]
         /\ c \in Poller => call'[c].pc = "loop"
         /\ c \notin Poller => /\ call'[c].pc = result
                               /\ call'[c].order = call[c].order
                               /\ call'[c].next = call[c].next
BY DEF TypeOK, Return, Places, Idle, AtRest, NoFields, Fields

\* An applied transition keeps the invariant, if it obeys the order of statuses.
LEMMA ApplyPreserves ==
  ASSUME IInv, NEW c \in Caller, call[c].pc \in {"write", "refund"}, Apply(c),
         cryptoAmount' \in [Order -> Amount \cup {None}],
         \/ status[call[c].order] \notin Terminal
         \/ status[call[c].order] = "completed" /\ call[c].next = "refunded"
  PROVE  IInv'
<1> DEFINE o == call[c].order
<1> USE DEF fields, updatedAt, provider, bounds
<1>1. /\ o \in Order /\ call[c].next \in FiatOrderStatus
      /\ status \in [Order -> FiatOrderStatus \cup {"absent"}]
      /\ status[o] # "absent"
  BY DEF IInv, CallInv, TypeOK
<1>2. /\ status' = [status EXCEPT ![o] = call[c].next]
      /\ txHash' = [txHash EXCEPT ![o] = Written(Handed(c).txHash, @)]
      /\ Touch(o) /\ Return(c, "applied")
      /\ UNCHANGED <<provider, todo, bounds>>
  BY DEF Apply
<1>3. /\ call' \in [Caller -> Places]
      /\ \A d \in Caller : d # c => call'[d] = call[d]
      /\ c \in Poller => call'[c].pc = "loop"
      /\ c \notin Poller => /\ call'[c].pc = "applied"
                            /\ call'[c].order = call[c].order
                            /\ call'[c].next = call[c].next
  BY <1>2, ReturnPlace DEF IInv
<1>4. TypeOK'
  <2>1. status' \in [Order -> FiatOrderStatus \cup {"absent"}]
    BY <1>1, <1>2
  <2>2. txHash' \in [Order -> Hash \cup {None}]
    BY <1>1, <1>2, HandedType DEF IInv, TypeOK, Fields, Written
  <2>3. before' \subseteq Order \X Order /\ stale' \subseteq Order
    BY <1>1, <1>2 DEF IInv, TypeOK, Touch, Rows
  <2>4. QED
    BY <1>2, <1>3, <2>1, <2>2, <2>3 DEF IInv, TypeOK, Places
<1>5. \A n \in Order : status[n] # "absent" => status'[n] # "absent"
  BY <1>1, <1>2 DEF FiatOrderStatus, Open, Terminal
<1>6. \A n \in Order : status[n] \in Terminal =>
        status'[n] = status[n] \/ (status[n] = "completed" /\ status'[n] = "refunded")
  BY <1>1, <1>2
<1>7. RowInv'
  BY <1>1, <1>2, <1>5 DEF IInv, RowInv, TypeOK, Snapshot, FiatOrderStatus, Open, Terminal
<1>8. CallInv'
  <2>1. ASSUME NEW d \in Caller, d # c
        PROVE  /\ call'[d].pc \in {"write", "refund", "applied", "ignored"} =>
                    /\ call'[d].order \in Order
                    /\ call'[d].next \in FiatOrderStatus
                    /\ status'[call'[d].order] # "absent"
               /\ call'[d].pc = "refund" =>
                    call'[d].next = "refunded" /\ status'[call'[d].order] \in Terminal
    BY <1>3, <1>5, <1>6, <2>1 DEF IInv, CallInv, Terminal
  <2>2. call'[c].pc \in {"loop", "applied"}
    BY <1>3
  <2>3. call'[c].pc = "applied" =>
          /\ call'[c].order \in Order
          /\ call'[c].next \in FiatOrderStatus
          /\ status'[call'[c].order] # "absent"
    BY <1>1, <1>3, <1>5
  <2>4. QED
    BY <2>1, <2>2, <2>3 DEF CallInv
<1>9. RepliesHold'
  <2> SUFFICES ASSUME NEW h \in Handler
               PROVE  /\ call'[h].pc = "applied" /\ call'[h].next \in Terminal =>
                           \/ status'[call'[h].order] = call'[h].next
                           \/ call'[h].next = "completed" /\ status'[call'[h].order] = "refunded"
                      /\ call'[h].pc = "ignored" =>
                           /\ status'[call'[h].order] \in Terminal
                           /\ call'[h].next = "refunded" => status'[call'[h].order] # "completed"
    BY DEF RepliesHold
  <2>1. CASE h = c
    <3>1. call'[h].pc = "applied" /\ status'[call'[h].order] = call'[h].next
      BY <1>1, <1>2, <1>3, <2>1, ProcessAssumption
    <3>2. QED
      BY <3>1
  <2>2. CASE h # c
    <3>1. call'[h] = call[h]
      BY <1>3, <2>2 DEF Caller
    <3>2. call[h].pc \in {"applied", "ignored"} => call[h].order \in Order
      BY DEF IInv, CallInv, Caller
    <3>3. QED
      BY <1>6, <3>1, <3>2 DEF IInv, RepliesHold, Terminal
  <2>3. QED
    BY <2>1, <2>2
<1>10. QED
  BY <1>4, <1>7, <1>8, <1>9 DEF IInv

\* A caller that lost its race returns "ignored" of a closed order.
LEMMA IgnoredPreserves ==
  ASSUME IInv, NEW c \in Caller, call[c].pc \in {"write", "refund"}, Return(c, "ignored"),
         status[call[c].order] \in Terminal,
         call[c].next = "refunded" => status[call[c].order] # "completed",
         UNCHANGED <<status, fields, updatedAt, provider, todo, bounds>>
  PROVE  IInv'
<1> DEFINE place == IF c \in Poller THEN [Idle EXCEPT !.pc = "loop"]
                    ELSE [call[c] EXCEPT !.pc = "ignored", !.event = NoFields, !.seen = NoFields]
<1>1. call' = [call EXCEPT ![c] = place]
  BY DEF IInv, TypeOK, Return
<1>2. GoodPlace(c, place)
  <2>1. place \in Places
    <3>1. call[c] \in Places
      BY DEF IInv, TypeOK, Places
    <3>2. NoFields \in Fields
      BY DEF NoFields, Fields
    <3>3. QED
      BY <3>1, <3>2 DEF Places, Idle, AtRest
  <2>2. c \notin Poller => /\ place.pc = "ignored" /\ place.order = call[c].order
                           /\ place.next = call[c].next
    BY DEF IInv, TypeOK
  <2>3. c \in Poller => place.pc = "loop"
    BY DEF Idle
  <2>4. QED
    BY <2>1, <2>2, <2>3 DEF IInv, CallInv, GoodPlace
<1>3. QED
  BY <1>1, <1>2, CallerMoves DEF IInv, RowInv, TypeOK, bounds

-----------------------------------------------------------------------------
\* A sweep that drops snapshots still holds snapshots of rows that exist.
LEMMA FewerTodo ==
  ASSUME RowInv, todo' \in [Poller -> SUBSET Snapshot],
         \A t \in Poller : todo'[t] \subseteq todo[t]
  PROVE  \A t \in Poller : \A order \in todo'[t] : status[order.order] # "absent"
BY DEF RowInv

\* Every step keeps the inductive invariant.
LEMMA NextPreserves == IInv /\ [Next]_vars => IInv'
<1> SUFFICES ASSUME IInv, [Next]_vars PROVE IInv'
  OBVIOUS
<1> USE DEF fields, updatedAt, provider, bounds
<1>1. CASE UNCHANGED vars
  BY <1>1 DEF vars, IInv, TypeOK, RowInv, CallInv, RepliesHold
<1>2. ASSUME NEW o \in Order, Age(o) PROVE IInv'
  <2>1. TypeOK'
    BY <1>2 DEF IInv, TypeOK, Age
  <2>2. QED
    BY <1>2, <2>1, TableMoves DEF IInv, RowInv, Age
<1>3. ASSUME NEW o \in Order, CreateOnrampUrl(o) PROVE IInv'
  <2>1. TypeOK'
    BY <1>3 DEF IInv, TypeOK, CreateOnrampUrl, Touch, Rows, FiatOrderStatus, Open, RawStatus
  <2>2. QED
    BY <1>3, <2>1, TableMoves DEF IInv, TypeOK, RowInv, CreateOnrampUrl
<1>4. ASSUME NEW o \in Order, NEW raw \in RawStatus, ProviderMoves(o, raw) PROVE IInv'
  <2>1. TypeOK'
    BY <1>4 DEF IInv, TypeOK, ProviderMoves
  <2>2. truth[o] # "absent" /\ raw # "absent"
    BY <1>4 DEF ProviderMoves, RawStatus, FiatOrderStatus, Open, Terminal
  <2>3. ASSUME NEW n \in Order
        PROVE  /\ status'[n] = "absent" <=> truth'[n] = "absent"
               /\ status'[n] = "absent" => past'[n] = {}
    BY <1>4, <2>2 DEF IInv, TypeOK, RowInv, ProviderMoves
  <2>4. QED
    BY <1>4, <2>1, <2>3, TableMoves DEF ProviderMoves
<1>5. ASSUME NEW h \in Handler, NEW o \in Order, NEW raw \in RawStatus, NEW event \in Fields,
             HandleOnrampWebhook(h, o, raw, event)
      PROVE  IInv'
  <2> DEFINE next == mapProviderWebhookStatus(raw)
             pc == Guard(status[o], next)
             place == IF pc = "ignored" THEN [Idle EXCEPT !.pc = pc, !.order = o, !.next = next]
                      ELSE [pc |-> pc, order |-> o, next |-> next, event |-> event,
                            seen |-> [txHash |-> txHash[o], cryptoAmount |-> cryptoAmount[o]]]
  <2>1. call' = [call EXCEPT ![h] = place]
    BY <1>5 DEF HandleOnrampWebhook
  <2>2. next \in FiatOrderStatus
    BY DEF mapProviderWebhookStatus, RawStatus, FiatOrderStatus, Terminal
  <2>3. status[o] # "absent"
    BY <1>5 DEF IInv, RowInv, HandleOnrampWebhook
  <2>4. /\ pc \in {"write", "refund", "ignored"}
        /\ pc = "refund" => next = "refunded" /\ status[o] \in Terminal
        /\ pc = "ignored" => /\ status[o] \in Terminal
                             /\ next = "refunded" => status[o] # "completed"
    BY DEF Guard, Terminal
  <2>5. place \in Places /\ place.pc = pc /\ place.order = o /\ place.next = next
    <3>1. [txHash |-> txHash[o], cryptoAmount |-> cryptoAmount[o]] \in Fields
      BY DEF IInv, TypeOK, Fields
    <3>2. QED
      BY <2>2, <2>4, <3>1 DEF Places, Idle, AtRest, NoFields, Fields
  <2>6. GoodPlace(h, place)
    BY <2>2, <2>3, <2>4, <2>5 DEF GoodPlace
  <2>7. h \in Caller
    BY DEF Caller
  <2>8. UNCHANGED <<status, fields, updatedAt, provider, todo, faults>> /\ deliveries' = deliveries + 1
    BY <1>5 DEF HandleOnrampWebhook
  <2>9. /\ todo' \in [Poller -> SUBSET Snapshot]
        /\ \A s \in Poller : \A order \in todo'[s] : status[order.order] # "absent"
        /\ deliveries' \in Nat /\ faults' \in Nat
    BY <2>8 DEF IInv, TypeOK, RowInv
  <2>10. QED
    BY <2>1, <2>6, <2>7, <2>8, <2>9, CallerMoves
<1>6. ASSUME NEW c \in Caller, TransitionStep(c) PROVE IInv'
  <2>1. CASE WriteStatus(c)
    <3>1. call[c].order \in Order
      BY <2>1 DEF IInv, CallInv, WriteStatus
    <3>2. cryptoAmount' \in [Order -> Amount \cup {None}]
      BY <2>1, <3>1, HandedType DEF IInv, TypeOK, WriteStatus, Fields, Written
    <3>3. QED
      BY <2>1, <3>2, ApplyPreserves DEF WriteStatus
  <2>2. CASE LoseWrite(c)
    <3>1. CASE call[c].next = "refunded"
      <4> DEFINE place == [call[c] EXCEPT !.pc = "refund"]
      <4>1. call' = [call EXCEPT ![c] = place]
        BY <2>2, <3>1 DEF LoseWrite
      <4>2. GoodPlace(c, place)
        BY <2>2, <3>1 DEF IInv, TypeOK, CallInv, LoseWrite, GoodPlace, Places
      <4>3. QED
        BY <2>2, <4>1, <4>2, CallerMoves DEF IInv, TypeOK, RowInv, LoseWrite
    <3>2. CASE call[c].next # "refunded"
      BY <2>2, <3>2, IgnoredPreserves DEF LoseWrite
    <3>3. QED
      BY <3>1, <3>2
  <2>3. CASE CasCompletedToRefunded(c)
    BY <2>3, ApplyPreserves DEF CasCompletedToRefunded, IInv, CallInv, TypeOK
  <2>4. CASE LoseRefund(c)
    BY <2>4, IgnoredPreserves DEF LoseRefund, IInv, CallInv
  <2>5. QED
    BY <1>6, <2>1, <2>2, <2>3, <2>4 DEF TransitionStep
<1>7. ASSUME NEW s \in Poller, SweepStep(s) PROVE IInv'
  <2>1. s \in Caller
    BY DEF Caller
  <2>2. CASE FindStale(s)
    <3> DEFINE place == [call[s] EXCEPT !.pc = "loop"]
    <3>1. PICK B \in Batches :
            todo' = [todo EXCEPT ![s] = {[order |-> o, status |-> status[o]] : o \in B}]
      BY <2>2 DEF FindStale
    <3>2. \A o \in B : o \in Order /\ status[o] \in Open
      BY DEF Batches, Due, IInv, TypeOK
    <3>3. {[order |-> o, status |-> status[o]] : o \in B} \subseteq Snapshot
      BY <3>2 DEF Snapshot
    <3>4. todo' \in [Poller -> SUBSET Snapshot]
      BY <3>1, <3>3 DEF IInv, TypeOK
    <3>5. ASSUME NEW t \in Poller, NEW order \in todo'[t]
          PROVE  status[order.order] # "absent"
      <4>1. CASE t = s
        <5>1. order.order \in B
          BY <3>1, <3>5, <4>1 DEF IInv, TypeOK
        <5>2. QED
          BY <3>2, <5>1 DEF Open
      <4>2. CASE t # s
        BY <3>1, <3>5, <4>2 DEF IInv, TypeOK, RowInv
      <4>3. QED
        BY <4>1, <4>2
    <3>6. GoodPlace(s, place) /\ call' = [call EXCEPT ![s] = place]
      BY <2>1, <2>2 DEF IInv, TypeOK, FindStale, GoodPlace, Places
    <3>7. QED
      BY <2>1, <2>2, <3>4, <3>5, <3>6, CallerMoves DEF IInv, TypeOK, FindStale
  <2>3. ASSUME NEW order \in Snapshot, FetchStatus(s, order) PROVE IInv'
    <3> DEFINE next == mapProviderPollingStatus(truth[order.order])
               place == IF next \in {None, order.status} THEN call[s]
                        ELSE [Idle EXCEPT !.pc = "write", !.order = order.order, !.next = next]
    <3>1. call' = [call EXCEPT ![s] = place]
      BY <2>1, <2>3 DEF FetchStatus, IInv, TypeOK
    <3>2. order.order \in Order /\ status[order.order] # "absent"
      BY <2>3 DEF FetchStatus, IInv, RowInv, Snapshot
    <3>3. next \in FiatOrderStatus \/ place = call[s]
      <4>1. truth[order.order] \in RawStatus
        BY <3>2 DEF IInv, TypeOK, RowInv
      <4>2. next \in FiatOrderStatus \cup {None}
        BY <4>1 DEF mapProviderPollingStatus, RawStatus
      <4>3. QED
        BY <4>2
    <3>4. GoodPlace(s, place)
      BY <2>1, <2>3, <3>2, <3>3, ProcessAssumption
         DEF IInv, TypeOK, FetchStatus, GoodPlace, Places, Idle, AtRest, NoFields, Fields
    <3>5. todo' \in [Poller -> SUBSET Snapshot]
      BY <2>3 DEF IInv, TypeOK, FetchStatus
    <3>6. \A t \in Poller : todo'[t] \subseteq todo[t]
      BY <2>3 DEF IInv, TypeOK, FetchStatus
    <3>7. QED
      BY <2>1, <2>3, <3>1, <3>4, <3>5, <3>6, FewerTodo, CallerMoves DEF IInv, TypeOK, FetchStatus
  <2>4. CASE EndSweep(s)
    <3>1. GoodPlace(s, Idle)
      BY DEF GoodPlace, Places, Idle, AtRest, NoFields, Fields
    <3>2. QED
      BY <2>1, <2>4, <3>1, CallerMoves DEF IInv, TypeOK, RowInv, EndSweep
  <2>5. QED
    BY <1>7, <2>2, <2>3, <2>4 DEF SweepStep
<1>8. ASSUME NEW c \in Caller, CallerFails(c) PROVE IInv'
  <2>1. GoodPlace(c, Idle)
    BY DEF GoodPlace, Places, Idle, AtRest, NoFields, Fields
  <2>2. todo' \in [Poller -> SUBSET Snapshot] /\ \A t \in Poller : todo'[t] \subseteq todo[t]
    BY <1>8 DEF IInv, TypeOK, CallerFails
  <2>3. deliveries' \in Nat /\ faults' \in Nat
    BY <1>8 DEF IInv, TypeOK, CallerFails, Fault
  <2>4. \A t \in Poller : \A order \in todo'[t] : status[order.order] # "absent"
    BY <2>2, FewerTodo DEF IInv
  <2>5. call' = [call EXCEPT ![c] = Idle] /\ UNCHANGED <<status, fields, updatedAt, provider>>
    BY <1>8 DEF CallerFails
  <2>6. QED
    BY <2>1, <2>2, <2>3, <2>4, <2>5, CallerMoves
<1>9. ASSUME NEW s \in Poller, NEW order \in Snapshot, FetchFails(s, order) PROVE IInv'
  <2>1. s \in Caller
    BY DEF Caller
  <2>2. GoodPlace(s, call[s]) /\ call' = [call EXCEPT ![s] = call[s]]
    BY <1>9, <2>1, ProcessAssumption DEF IInv, TypeOK, FetchFails, GoodPlace, Places
  <2>3. todo' \in [Poller -> SUBSET Snapshot] /\ \A t \in Poller : todo'[t] \subseteq todo[t]
    BY <1>9 DEF IInv, TypeOK, FetchFails
  <2>4. deliveries' \in Nat /\ faults' \in Nat
    BY <1>9 DEF IInv, TypeOK, FetchFails, Fault
  <2>5. \A t \in Poller : \A x \in todo'[t] : status[x.order] # "absent"
    BY <2>3, FewerTodo DEF IInv
  <2>6. UNCHANGED <<status, fields, updatedAt, provider>>
    BY <1>9 DEF FetchFails
  <2>7. QED
    BY <2>1, <2>2, <2>3, <2>4, <2>5, <2>6, CallerMoves
<1>10. QED
  BY <1>1, <1>2, <1>3, <1>4, <1>5, <1>6, <1>7, <1>8, <1>9
     DEF Next, TableNext, WebhookNext, FaultNext

\* The inductive invariant holds in every reachable state.
THEOREM OrderInvariant == Spec => []IInv
BY InitEstablishes, NextPreserves, PTL DEF Spec

\* Every variable keeps its type.
THEOREM TypeSafety == Spec => []TypeOK
<1>1. IInv => TypeOK
  BY DEF IInv
<1>2. QED
  BY <1>1, OrderInvariant, PTL

\* What the provider was told of an order stays true.
THEOREM RepliesStayTrue == Spec => []RepliesHold
<1>1. IInv => RepliesHold
  BY DEF IInv
<1>2. QED
  BY <1>1, OrderInvariant, PTL

-----------------------------------------------------------------------------
\* No step of any caller disturbs a closed order, but for its refund.
THEOREM ClosedStaysInert == Spec => ClosedIsInert
<1> DEFINE Inert == \A o \in Order : status[o] \in Terminal =>
             /\ \/ status'[o] = status[o] /\ txHash'[o] = txHash[o]
                \/ status[o] = "completed" /\ status'[o] = "refunded"
             /\ cryptoAmount'[o] = cryptoAmount[o]
<1>1. IInv /\ [Next]_vars => [Inert]_vars
  <2> SUFFICES ASSUME IInv, Next PROVE Inert
    OBVIOUS
  <2> USE DEF fields, updatedAt, provider, bounds
  <2>1. CASE UNCHANGED <<status, txHash, cryptoAmount>>
    BY <2>1
  <2>2. ASSUME NEW o \in Order, CreateOnrampUrl(o) PROVE Inert
    BY <2>2 DEF CreateOnrampUrl, Terminal, IInv, TypeOK
  <2>3. ASSUME NEW c \in Caller, WriteStatus(c) PROVE Inert
    BY <2>3 DEF WriteStatus, Apply, IInv, TypeOK, CallInv
  <2>4. ASSUME NEW c \in Caller, CasCompletedToRefunded(c) PROVE Inert
    BY <2>4 DEF CasCompletedToRefunded, Apply, IInv, TypeOK, CallInv
  <2>5. QED
    BY <2>1, <2>2, <2>3, <2>4
       DEF Next, TableNext, WebhookNext, FaultNext, TransitionStep, SweepStep, Age,
           ProviderMoves, HandleOnrampWebhook, LoseWrite, LoseRefund, FindStale, FetchStatus,
           EndSweep, CallerFails, FetchFails
<1>2. QED
  BY <1>1, OrderInvariant, PTL DEF Spec, ClosedIsInert
=============================================================================
