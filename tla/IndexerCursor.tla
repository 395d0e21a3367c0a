---------------------------- MODULE IndexerCursor ----------------------------
(***************************************************************************)
(* How the indexer service keeps its place on an EVM chain                 *)
(* (apps/indexer/src/indexers/websocket.ts): the block cursor in Redis and *)
(* in the database, the replay at a start, the live listeners, and the     *)
(* reconnects that stop and start the indexer inside its process.          *)
(*                                                                         *)
(* An event is the number of its block (one event per block; the chain     *)
(* does not reorganise).  What processing an event does to invoices is in  *)
(* InvoiceSettlement; here it is processed, or not.                        *)
(***************************************************************************)
EXTENDS Integers, Sequences, FiniteSets, Functions

CONSTANTS
  KindAt,          \* [blocks with an event -> "commitment" or "withdrawal"]
  FirstHeight,     \* the head when the service is first deployed
  MaxHeight,       \* bound: blocks ever mined
  Reconnector,     \* handleReconnect calls that may be under way at once
  Boot,            \* the start by main(), one of them
  None,
  Window,          \* 1000 blocks, the place of a first start
  MaxGap,          \* 10000 blocks, the longest replay
  BatchSize,       \* 1000 blocks per query
  Confirmations,
  MaxReconnectAttempts,
  MaxFaults        \* bound: deaths, lost connections, failed calls

Event == DOMAIN KindAt

ASSUME ChainAssumption ==
  /\ FirstHeight \in Nat /\ MaxHeight \in Nat /\ FirstHeight <= MaxHeight
  /\ Event \subseteq 1 .. MaxHeight
  /\ \A e \in Event : KindAt[e] \in {"commitment", "withdrawal"}

ASSUME LimitAssumption ==
  /\ Boot \in Reconnector /\ IsFiniteSet(Reconnector)
  /\ {Window, MaxGap, BatchSize, MaxReconnectAttempts} \subseteq Nat \ {0}
  /\ Confirmations \in Nat /\ MaxFaults \in Nat
  /\ None \notin Int

VARIABLES
  height,      \* the head of the chain
  redisBlock,  \* veilpay:block:<chainKey>, None while the key is missing
  dbBlock,     \* processedBlock.blockNumber, None while there is no row
  upserts,     \* blocks of the upserts sent and not awaited (equal ones are one)
  up,          \* the process is running
  attempts,    \* reconnectAttempts
  listeners,   \* subscriptions to the pool's events
  connected,   \* they deliver
  starts,      \* [Reconnector -> [pc, main, last, from, upTo, todo]]
  handlers,    \* handleEvent calls: [event, by, processed]
  processed,   \* events processEvent has finished
  excused,     \* events a known gap of the code has skipped
  faults

cursors == <<redisBlock, dbBlock, upserts>>
process == <<up, attempts, listeners, connected>>
vars == <<height, cursors, process, starts, handlers, processed, excused, faults>>

Mined == {e \in Event : e <= height}
Blocks == Event \cup (FirstHeight - Window - Confirmations .. MaxHeight)
Live == "live"

Idle == [pc |-> "idle", main |-> FALSE, last |-> 0, from |-> 1, upTo |-> 0, todo |-> <<>>]

\* Handlers a start awaits, and events it has still to hand over.
Awaiting(s) == \E h \in handlers : h.by = s
ToReplay(s) == Range(starts[s].todo) \cup
  (IF starts[s].pc = "replay" THEN {e \in Event : starts[s].from <= e /\ e <= starts[s].upTo} ELSE {})

InHand == {h.event : h \in {x \in handlers : ~ x.processed}} \cup UNION {ToReplay(s) : s \in Reconnector}

Start == [pc : {"idle", "backoff", "read", "head", "replay", "listen"}, main : BOOLEAN,
          last : Blocks \cup {0}, from : Int, upTo : Int, todo : Seq(Event)]

TypeOK ==
  /\ height \in FirstHeight .. MaxHeight
  /\ redisBlock \in Blocks \cup {None} /\ dbBlock \in Blocks \cup {None}
  /\ upserts \subseteq Blocks
  /\ up \in BOOLEAN /\ connected \in BOOLEAN
  /\ attempts \in 0 .. MaxReconnectAttempts
  /\ listeners \in 0 .. Cardinality(Reconnector)
  /\ starts \in [Reconnector -> Start]
  /\ \A s \in Reconnector : Range(starts[s].todo) \subseteq Mined /\ starts[s].upTo <= height
  /\ handlers \subseteq [event : Mined, by : Reconnector \cup {Live}, processed : BOOLEAN]
  /\ processed \subseteq Mined /\ excused \subseteq Mined
  /\ faults \in 0 .. MaxFaults

Init ==
  /\ height = FirstHeight
  /\ redisBlock = None /\ dbBlock = None
  /\ upserts = {}
  /\ up = FALSE /\ attempts = 0 /\ listeners = 0 /\ connected = FALSE
  /\ starts = [s \in Reconnector |-> Idle]
  /\ handlers = {} /\ processed = {} /\ excused = {}
  /\ faults = 0

Fault == faults < MaxFaults /\ faults' = faults + 1

-----------------------------------------------------------------------------
(* The cursor.                                                             *)

\* Redis is awaited and its errors swallowed; the upsert is only sent.
UpdateLastProcessedBlock(b) ==
  /\ upserts' = upserts \cup {b}
  /\ UNCHANGED dbBlock
  /\ \/ redisBlock' = b /\ UNCHANGED faults
     \/ UNCHANGED redisBlock /\ Fault

\* Upserts reach the database in any order.
Upsert(b) ==
  /\ b \in upserts
  /\ dbBlock' = b
  /\ upserts' = upserts \ {b}
  /\ UNCHANGED <<height, redisBlock, process, starts, handlers, processed, excused, faults>>

LoseRedis ==
  /\ Fault
  /\ redisBlock # None /\ redisBlock' = None
  /\ UNCHANGED <<height, dbBlock, upserts, process, starts, handlers, processed, excused>>

InDb == IF dbBlock = None THEN 0 ELSE dbBlock

\* Redis first; the database fills a missing key.
GetLastProcessedBlock(s) ==
  /\ starts[s].pc = "read"
  /\ \/ /\ redisBlock # None
        /\ starts' = [starts EXCEPT ![s] = [@ EXCEPT !.pc = "head", !.last = redisBlock]]
        /\ UNCHANGED <<redisBlock, faults>>
     \/ /\ redisBlock = None
        /\ starts' = [starts EXCEPT ![s] = [@ EXCEPT !.pc = "head", !.last = InDb]]
        /\ redisBlock' = dbBlock
        /\ UNCHANGED faults
     \/ /\ redisBlock # None /\ Fault   \* the read fails, the write back may not
        /\ starts' = [starts EXCEPT ![s] = [@ EXCEPT !.pc = "head", !.last = InDb]]
        /\ redisBlock' \in {redisBlock} \cup ({dbBlock} \ {None})
  /\ UNCHANGED <<height, dbBlock, upserts, process, handlers, processed, excused>>

-----------------------------------------------------------------------------
(* Starting.                                                               *)

\* The supervisor starts the process; main() starts the indexer.
StartProcess ==
  /\ ~ up /\ up' = TRUE
  /\ attempts' = 0 /\ listeners' = 0 /\ connected' = TRUE
  /\ starts' = [starts EXCEPT ![Boot] = [@ EXCEPT !.pc = "read", !.main = TRUE]]
  /\ UNCHANGED <<height, cursors, handlers, processed, excused, faults>>

To(s, pc, from, upTo) ==
  starts' = [starts EXCEPT ![s] = [@ EXCEPT !.pc = pc, !.from = from, !.upTo = upTo]]

\* Mutant: the replay starts one block late.
RecoverOffByOne(s) ==
  LET last == starts[s].last
      gap == height - last
  IN  /\ starts[s].pc = "head"
      /\ IF last # 0 /\ gap < MaxGap
         THEN /\ To(s, "replay", last + 2, height)
              /\ UNCHANGED <<cursors, excused, faults>>
         ELSE /\ UpdateLastProcessedBlock(height)
              /\ excused' = excused \cup Mined
              /\ To(s, "listen", 1, height)
      /\ UNCHANGED <<height, process, handlers, processed>>

\* recoverFromCrash: cursor 0, a short gap, a long gap, or nothing to do.
RecoverFromCrash(s) ==
  LET last == starts[s].last
      gap == height - last
  IN  /\ starts[s].pc = "head"
      /\ \/ /\ last = 0
            /\ UpdateLastProcessedBlock(height - Window)
            /\ excused' = excused \cup Mined
            /\ To(s, "listen", 1, height)
         \/ /\ last # 0 /\ gap > 0 /\ gap < MaxGap
            /\ To(s, "replay", last + 1, height)
            /\ UNCHANGED <<cursors, excused, faults>>
         \/ /\ last # 0 /\ gap >= MaxGap
            /\ UpdateLastProcessedBlock(height - Confirmations)
            /\ excused' = excused \cup Mined
            /\ To(s, "listen", 1, height)
         \/ /\ last # 0 /\ gap <= 0
            /\ To(s, "listen", 1, height)
            /\ UNCHANGED <<cursors, excused, faults>>
      /\ UNCHANGED <<height, process, handlers, processed>>

\* What a query finds, by block.
Between(kind, from, to) ==
  LET found == {e \in Event : KindAt[e] = kind /\ from <= e /\ e <= to}
  IN  CHOOSE q \in [1 .. Cardinality(found) -> found] :
        \A i, j \in DOMAIN q : i < j => q[i] < q[j]

\* Commitments of a batch come before its withdrawals.  A failed query is
\* logged, and the next batch follows.
ReplayBatch(s) ==
  LET st == starts[s]
      end == IF st.from + BatchSize - 1 < st.upTo THEN st.from + BatchSize - 1 ELSE st.upTo
      batch == Between("commitment", st.from, end) \o Between("withdrawal", st.from, end)
  IN  /\ st.pc = "replay" /\ st.from <= st.upTo /\ st.todo = <<>>
      /\ \/ /\ starts' = [starts EXCEPT ![s] = [@ EXCEPT !.from = end + 1, !.todo = batch]]
            /\ UNCHANGED <<excused, faults>>
         \/ /\ Fault
            /\ starts' = [starts EXCEPT ![s].from = end + 1]
            /\ excused' = excused \cup Range(batch)
      /\ UNCHANGED <<height, cursors, process, handlers, processed>>

ReplayEvent(s) ==
  /\ starts[s].todo # <<>> /\ ~ Awaiting(s)
  /\ handlers' = handlers \cup {[event |-> Head(starts[s].todo), by |-> s, processed |-> FALSE]}
  /\ starts' = [starts EXCEPT ![s].todo = Tail(@)]
  /\ UNCHANGED <<height, cursors, process, processed, excused, faults>>

\* Mutant: the replay does not wait for its last event.
ReplayDoneEarly(s) ==
  /\ starts[s].pc = "replay" /\ starts[s].from > starts[s].upTo
  /\ UpdateLastProcessedBlock(starts[s].upTo)
  /\ starts' = [starts EXCEPT ![s] = [@ EXCEPT !.pc = "listen", !.todo = <<>>]]
  /\ UNCHANGED <<height, process, handlers, processed, excused>>

ReplayDone(s) ==
  /\ starts[s].pc = "replay" /\ starts[s].from > starts[s].upTo
  /\ starts[s].todo = <<>> /\ ~ Awaiting(s)
  /\ UpdateLastProcessedBlock(starts[s].upTo)
  /\ starts' = [starts EXCEPT ![s].pc = "listen"]
  /\ UNCHANGED <<height, process, handlers, processed, excused>>

\* setupEventListeners: blocks since the head was read are in no replay and
\* in no subscription.  A reconnect resets its counter.
Listen(s) ==
  /\ starts[s].pc = "listen"
  /\ listeners' = listeners + 1
  /\ attempts' = 0
  /\ excused' = excused \cup {e \in Mined : e > starts[s].upTo}
  /\ starts' = [starts EXCEPT ![s] = Idle]
  /\ UNCHANGED <<height, cursors, up, connected, handlers, processed, faults>>

-----------------------------------------------------------------------------
(* Events.                                                                 *)

Delivered(b) == IF listeners > 0 /\ connected /\ b \in Event THEN {b} ELSE {}

\* External: a block, whose event goes to the listeners if any are on.
Mine ==
  /\ height < MaxHeight
  /\ height' = height + 1
  /\ handlers' = handlers \cup
       {[event |-> e, by |-> Live, processed |-> FALSE] : e \in Delivered(height + 1)}
  /\ UNCHANGED <<cursors, process, starts, processed, excused, faults>>

\* handleEvent up to processEvent.  The wait for confirmations ends after
\* five minutes in any case, so it only delays.
ProcessEvent(h) ==
  /\ ~ h.processed
  /\ processed' = processed \cup {h.event}
  /\ handlers' = (handlers \ {h}) \cup {[h EXCEPT !.processed = TRUE]}
  /\ UNCHANGED <<height, cursors, process, starts, excused, faults>>

\* The cursor becomes the block of this event, whatever it was.
FinishEvent(h) ==
  /\ h.processed
  /\ UpdateLastProcessedBlock(h.event)
  /\ handlers' = handlers \ {h}
  /\ UNCHANGED <<height, process, starts, processed, excused>>

\* An error anywhere in handleEvent is logged and the event forgotten.
FailEvent(h) ==
  /\ Fault
  /\ handlers' = handlers \ {h}
  /\ excused' = excused \cup ({h.event} \ processed)
  /\ UNCHANGED <<height, cursors, process, starts, processed>>

-----------------------------------------------------------------------------
(* Losing the connection and the process.                                  *)

\* Places a later start could take up from.
Recorded == {redisBlock, dbBlock} \cup upserts
Passed(e) == \E b \in Recorded \ {None} : e <= b

\* The process ends: events in hand that the cursor has passed are gone.
Die ==
  /\ up' = FALSE /\ listeners' = 0 /\ connected' = FALSE /\ attempts' = 0
  /\ upserts' = {}
  /\ handlers' = {}
  /\ starts' = [s \in Reconnector |-> Idle]
  /\ excused' = excused \cup {e \in InHand : Passed(e)}
  /\ UNCHANGED <<height, redisBlock, dbBlock, processed>>

Crash == up /\ Fault /\ Die

\* Where a start of S is put back to, in so many attempts.
Again(S, n) ==
  /\ attempts' = n
  /\ starts' = [s \in Reconnector |-> IF s \in S THEN [Idle EXCEPT !.pc = "backoff"] ELSE starts[s]]
  /\ connected' = FALSE
  /\ UNCHANGED <<height, cursors, up, listeners, handlers, processed, excused>>

\* Mutant: the attempts run out and the process stays up.
BackOffOrGiveUp(S) ==
  IF attempts + Cardinality(S) > MaxReconnectAttempts
  THEN /\ starts' = [s \in Reconnector |-> IF s \in S THEN Idle ELSE starts[s]]
       /\ connected' = FALSE
       /\ UNCHANGED <<height, cursors, up, attempts, listeners, handlers, processed, excused>>
  ELSE Again(S, attempts + Cardinality(S))

\* handleReconnect by each of S: exit when the attempts are used up.
BackOff(S) ==
  IF attempts + Cardinality(S) > MaxReconnectAttempts THEN Die
  ELSE Again(S, attempts + Cardinality(S))

\* The error event, the close event, or both.
Disconnect ==
  /\ listeners > 0 /\ Fault
  /\ \E S \in SUBSET {s \in Reconnector : starts[s].pc = "idle"} \ {{}} : BackOff(S)

\* stop() and start() after the delay.
Reconnect(s) ==
  /\ starts[s].pc = "backoff"
  /\ listeners' = 0 /\ connected' = TRUE
  /\ starts' = [starts EXCEPT ![s].pc = "read"]
  /\ UNCHANGED <<height, cursors, up, attempts, handlers, processed, excused, faults>>

\* getBlockNumber throws: main() exits, a reconnect tries again.
RecoverThrows(s) ==
  /\ starts[s].pc = "head"
  /\ IF starts[s].main THEN Fault /\ Die ELSE UNCHANGED faults /\ BackOff({s})

-----------------------------------------------------------------------------
Step(s) ==
  \/ GetLastProcessedBlock(s)
  \/ RecoverFromCrash(s)
  \/ ReplayBatch(s)
  \/ ReplayEvent(s)
  \/ ReplayDone(s)
  \/ Listen(s)
  \/ Reconnect(s)

Handle(h) == ProcessEvent(h) \/ FinishEvent(h)

Next ==
  \/ Mine
  \/ StartProcess
  \/ \E s \in Reconnector : Step(s) \/ RecoverThrows(s)
  \/ \E h \in handlers : Handle(h) \/ FailEvent(h)
  \/ \E b \in upserts : Upsert(b)
  \/ LoseRedis
  \/ Crash
  \/ Disconnect

\* The supervisor restarts the process; its event loop serves every promise.
Fairness ==
  /\ WF_vars(StartProcess)
  /\ \A s \in Reconnector : WF_vars(Step(s))
  /\ \A e \in Event, by \in Reconnector \cup {Live}, p \in BOOLEAN :
       LET h == [event |-> e, by |-> by, processed |-> p]
       IN  WF_vars(h \in handlers /\ Handle(h))

Spec == Init /\ [][Next]_vars /\ Fairness

-----------------------------------------------------------------------------
Cursor == IF redisBlock # None THEN redisBlock ELSE InDb

\* An event the cursor has passed was processed, is in hand, or fell into
\* one of the gaps of the code: the blocks before a first start and in a gap
\* too long to replay, the blocks between the reading of the head and the
\* subscription, a handler or a batch that failed, or a death while a later
\* block was already recorded.  Any other loss is a defect.
LossHasCause ==
  \A e \in Mined : e <= Cursor => e \in processed \cup excused \cup InHand

\* Every event is processed in the end, through crashes, lost connections
\* and lost cursors, unless it fell into one of those gaps.
EventIsHandled == \A e \in Event : e \in Mined ~> e \in processed \cup excused

\* The service never stays alive without listening: it reconnects or leaves
\* and is started again.
ComesBack == []<>(listeners > 0 /\ connected)
=============================================================================
