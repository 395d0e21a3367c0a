------------------------ MODULE IndexerCursor_proofs ------------------------
(***************************************************************************)
(* Proofs about IndexerCursor: for any events at any heights, any limits   *)
(* and any number of overlapping reconnects, an event behind the cursor    *)
(* was processed, is in hand, or fell into a gap the module names.         *)
(***************************************************************************)
EXTENDS IndexerCursor, FiniteSetTheorems, SequenceTheorems, WellFoundedInduction, TLAPS

-----------------------------------------------------------------------------
(* The inductive invariant.                                                *)

Accounted == processed \cup excused \cup InHand

\* Places of the chain with no unaccounted event behind them.
Safe == {b \in Int : b <= height /\ \A e \in Mined : e <= b => e \in Accounted}

\* A start relies on the cursor it read, then, in its replay and after it, on
\* the head it read.
StartOk(s) ==
  /\ starts[s].pc = "head" => starts[s].last \in Safe
  /\ starts[s].pc \in {"replay", "listen"} => starts[s].upTo \in Safe \cap Blocks
  /\ starts[s].pc # "replay" => starts[s].todo = <<>>
  /\ \A e \in Range(starts[s].todo) : e <= starts[s].upTo

StartInv == \A s \in Reconnector : StartOk(s)

\* Calls of handleReconnect that have subscribed, or have not yet dropped the
\* subscriptions.
Settled == {s \in Reconnector : starts[s].pc \in {"idle", "backoff"}}

ProcessInv ==
  /\ ~ up => listeners = 0 /\ \A s \in Reconnector : starts[s] = Idle
  /\ listeners <= Cardinality(Settled)

CursorInv ==
  /\ TypeOK
  /\ Recorded \ {None} \subseteq Safe
  /\ \A h \in handlers : h.event \in Safe
  /\ StartInv
  /\ listeners > 0 /\ connected => height \in Safe
  /\ ProcessInv

-----------------------------------------------------------------------------
(* The events of a query, by block: such a sequence exists, and lists them *)
(* all.  Numbers are well founded, which stands for induction.             *)

LEMMA LeastNumber ==
  ASSUME NEW T, T \subseteq Nat, T # {}
  PROVE  \E x \in T : \A y \in T : x <= y
<1> DEFINE R == OpToRel(<, Nat)
<1>1. IsWellFoundedOn(R, Nat)
  BY NatLessThanWellFounded
<1>2. \A x, y \in Nat : <<x, y>> \in R <=> x < y
  BY DEF OpToRel
<1> HIDE DEF R
<1>3. PICK x \in T : \A y \in T : ~ (<<y, x>> \in R)
  BY <1>1, WFMin
<1>4. \A y \in T : ~ (y < x) /\ y \in Nat /\ x \in Nat
  BY <1>2, <1>3
<1> QED
  BY <1>3, <1>4

Increasing(q) == \A i, j \in DOMAIN q : i < j => q[i] < q[j]

\* The numbers up to n whose sets can all be listed in order.
Listed == {n \in Nat : \A S \in SUBSET (1 .. n) :
             \E q \in [1 .. Cardinality(S) -> S] : Increasing(q)}

LEMMA ListedNext ==
  ASSUME NEW n \in Listed
  PROVE  n + 1 \in Listed
<1> SUFFICES ASSUME NEW S \in SUBSET (1 .. n + 1)
             PROVE  \E q \in [1 .. Cardinality(S) -> S] : Increasing(q)
  BY DEF Listed
<1>1. n \in Nat
  BY DEF Listed
<1>2. CASE n + 1 \notin S
  <2>1. S \in SUBSET (1 .. n)
    BY <1>1, <1>2
  <2> QED
    BY <2>1 DEF Listed
<1>3. CASE n + 1 \in S
  <2> DEFINE T == S \ {n + 1}
  <2>1. T \in SUBSET (1 .. n) /\ \A x \in T : x < n + 1
    BY <1>1
  <2>2. IsFiniteSet(S)
    <3>1. 1 \in Int /\ n + 1 \in Int
      BY <1>1
    <3>2. IsFiniteSet(1 .. n + 1)
      BY <3>1, FS_Interval
    <3> QED
      BY <3>2, FS_Subset
  <2>3. /\ IsFiniteSet(T) /\ Cardinality(T) = Cardinality(S) - 1
        /\ Cardinality(S) \in Nat /\ Cardinality(T) \in Nat
    BY <1>3, <2>2, FS_RemoveElement, FS_CardinalityType
  <2>4. PICK k \in Nat : k = Cardinality(T)
    BY <2>3
  <2>5. Cardinality(S) = k + 1
    BY <2>3, <2>4
  <2>6. PICK q \in [1 .. k -> T] : Increasing(q)
    BY <2>1, <2>4 DEF Listed
  <2> DEFINE p == [i \in 1 .. k + 1 |-> IF i = k + 1 THEN n + 1 ELSE q[i]]
  <2>7. p \in [1 .. k + 1 -> S]
    BY <1>3, <2>6
  <2>8. \A i, j \in 1 .. k + 1 : i < j => p[i] < p[j]
    <3> SUFFICES ASSUME NEW i \in 1 .. k + 1, NEW j \in 1 .. k + 1, i < j
                 PROVE  p[i] < p[j]
      OBVIOUS
    <3>1. i \in 1 .. k /\ p[i] = q[i] /\ q[i] \in T
      BY <2>6
    <3>2. CASE j = k + 1
      BY <2>1, <3>1, <3>2
    <3>3. CASE j # k + 1
      <4>1. j \in 1 .. k /\ p[j] = q[j]
        BY <3>3
      <4> QED
        BY <2>6, <3>1, <4>1 DEF Increasing
    <3> QED
      BY <3>2, <3>3
  <2> HIDE DEF p
  <2>9. DOMAIN p = 1 .. k + 1
    BY <2>7
  <2>10. Increasing(p)
    BY <2>8, <2>9 DEF Increasing
  <2> QED
    BY <2>5, <2>7, <2>10
<1> QED
  BY <1>2, <1>3

LEMMA AllListed == Listed = Nat
<1> DEFINE T == Nat \ Listed
<1>1. SUFFICES ASSUME T # {} PROVE FALSE
  BY DEF Listed
<1>2. PICK x \in T : \A y \in T : x <= y
  <2>1. T \subseteq Nat
    OBVIOUS
  <2> HIDE DEF T
  <2> QED
    BY <1>1, <2>1, LeastNumber
<1>3. 0 \in Listed
  <2> SUFFICES ASSUME NEW S \in SUBSET (1 .. 0)
               PROVE  \E q \in [1 .. Cardinality(S) -> S] : Increasing(q)
    BY DEF Listed
  <2>1. S = {} /\ Cardinality(S) = 0
    <3>1. S = {}
      OBVIOUS
    <3> QED
      BY <3>1, FS_EmptySet
  <2>2. [i \in 1 .. 0 |-> i] \in [1 .. Cardinality(S) -> S]
    BY <2>1
  <2>3. Increasing([i \in 1 .. 0 |-> i])
    BY DEF Increasing
  <2> QED
    BY <2>2, <2>3
<1>4. x \in Nat /\ x # 0
  BY <1>3
<1>5. x - 1 \in Nat /\ x - 1 \in Listed /\ x - 1 + 1 = x
  BY <1>2, <1>4
<1>6. x \in Listed
  BY <1>5, ListedNext
<1> QED
  BY <1>6

LEMMA BetweenIs ==
  ASSUME NEW kind, NEW from, NEW to
  PROVE  /\ Between(kind, from, to) \in Seq(Event)
         /\ Range(Between(kind, from, to)) = {e \in Event : KindAt[e] = kind /\ from <= e /\ e <= to}
<1> DEFINE found == {e \in Event : KindAt[e] = kind /\ from <= e /\ e <= to}
<1>1. found \in SUBSET (1 .. MaxHeight) /\ MaxHeight \in Nat
  BY ChainAssumption
<1> DEFINE n == Cardinality(found)
           q == Between(kind, from, to)
<1>2. IsFiniteSet(found) /\ n \in Nat
  <2>1. 1 \in Int /\ MaxHeight \in Int
    BY <1>1
  <2>2. IsFiniteSet(1 .. MaxHeight)
    BY <2>1, FS_Interval
  <2> HIDE DEF found
  <2>3. IsFiniteSet(found)
    BY <1>1, <2>2, FS_Subset
  <2> QED
    BY <2>3, FS_CardinalityType
<1>3. \E p \in [1 .. n -> found] : Increasing(p)
  BY <1>1, AllListed DEF Listed
<1>4. q = CHOOSE p \in [1 .. n -> found] : \A i, j \in DOMAIN p : i < j => p[i] < p[j]
  BY DEF Between
<1> HIDE DEF found, q
<1>5. q \in [1 .. n -> found] /\ \A i, j \in 1 .. n : i < j => q[i] < q[j]
  <2>1. \E p \in [1 .. n -> found] : \A i, j \in DOMAIN p : i < j => p[i] < p[j]
    BY <1>3 DEF Increasing
  <2>2. q \in [1 .. n -> found] /\ \A i, j \in DOMAIN q : i < j => q[i] < q[j]
    BY <1>4, <2>1
  <2> QED
    BY <2>2
<1>6. q \in Injection(1 .. n, found)
  <2>1. \A i \in 1 .. n : q[i] \in Nat
    <3>1. found \subseteq Nat
      BY <1>1
    <3> QED
      BY <1>5, <3>1
  <2>2. \A i, j \in 1 .. n : q[i] = q[j] => i = j
    BY <1>2, <1>5, <2>1
  <2> QED
    BY <1>5, <2>2 DEF Injection, IsInjective
<1>7. q \in Surjection(1 .. n, found)
  <2>1. Cardinality(1 .. n) = n
    BY <1>2, FS_Interval
  <2> QED
    BY <1>2, <1>6, <2>1, FS_Injection
<1>8. q \in Seq(found) /\ Range(q) = found
  BY <1>2, <1>5, <1>7 DEF Surjection, Range
<1>9. found \subseteq Event
  BY DEF found
<1> QED
  BY <1>8, <1>9 DEF found, q

\* The events of a batch, commitments first, are the events of its blocks.
LEMMA BatchIs ==
  ASSUME NEW from, NEW to
  PROVE  LET batch == Between("commitment", from, to) \o Between("withdrawal", from, to)
         IN  batch \in Seq(Event) /\ Range(batch) = {e \in Event : from <= e /\ e <= to}
<1> DEFINE c == Between("commitment", from, to)
           w == Between("withdrawal", from, to)
<1>1. c \in Seq(Event) /\ w \in Seq(Event)
  BY BetweenIs
<1>2. Range(c) \cup Range(w) = {e \in Event : from <= e /\ e <= to}
  <2>1. /\ Range(c) = {e \in Event : KindAt[e] = "commitment" /\ from <= e /\ e <= to}
        /\ Range(w) = {e \in Event : KindAt[e] = "withdrawal" /\ from <= e /\ e <= to}
    BY BetweenIs
  <2>2. \A e \in Event : KindAt[e] = "commitment" \/ KindAt[e] = "withdrawal"
    BY ChainAssumption
  <2> HIDE DEF c, w
  <2> QED
    BY <2>1, <2>2, Zenon
<1> HIDE DEF c, w
<1>3. c \o w \in Seq(Event) /\ Range(c \o w) = Range(c) \cup Range(w)
  BY <1>1, RangeConcatenation
<1> QED
  BY <1>2, <1>3 DEF c, w

-----------------------------------------------------------------------------
(* What the parts of the invariant are about.                              *)

LEMMA Numbers ==
  /\ Event \subseteq 1 .. MaxHeight /\ Event \subseteq Int /\ Blocks \subseteq Int
  /\ {FirstHeight, MaxHeight, Window, MaxGap, BatchSize, MaxReconnectAttempts,
      Confirmations, MaxFaults} \subseteq Nat
  /\ Window > 0 /\ BatchSize > 0 /\ None \notin Blocks /\ None \notin Int
<1>1. /\ {FirstHeight, MaxHeight, Window, MaxGap, BatchSize, MaxReconnectAttempts,
          Confirmations, MaxFaults} \subseteq Nat
      /\ Window > 0 /\ BatchSize > 0 /\ None \notin Int
  BY ChainAssumption, LimitAssumption
<1>2. Event \subseteq 1 .. MaxHeight /\ Event \subseteq Int
  BY <1>1, ChainAssumption
<1>3. Blocks \subseteq Int
  <2>1. PICK first \in Int : first = FirstHeight - Window - Confirmations
    BY <1>1
  <2>2. Blocks = Event \cup (first .. MaxHeight)
    BY <2>1 DEF Blocks
  <2>3. first .. MaxHeight \subseteq Int
    OBVIOUS
  <2> QED
    BY <1>2, <2>2, <2>3, Zenon
<1> QED
  BY <1>1, <1>2, <1>3

LEMMA InHandIs ==
  \A e : e \in InHand <=>
    \/ \E h \in handlers : ~ h.processed /\ h.event = e
    \/ \E s \in Reconnector : e \in ToReplay(s)
BY DEF InHand

LEMMA ToReplayIs ==
  \A s : \A e : e \in ToReplay(s) <=>
    \/ e \in Range(starts[s].todo)
    \/ starts[s].pc = "replay" /\ e \in Event /\ starts[s].from <= e /\ e <= starts[s].upTo
BY DEF ToReplay

LEMMA EmptyRange == Range(<<>>) = {}
BY DEF Range

\* A start that is not replaying has nothing in hand.
LEMMA NothingToReplay ==
  ASSUME StartInv, NEW s \in Reconnector, starts[s].pc # "replay"
  PROVE  ToReplay(s) = {}
BY ToReplayIs, EmptyRange, Zenon DEF StartInv, StartOk

\* What a step has to keep so that nothing accounted for is lost.
LEMMA AccountedStays ==
  ASSUME processed \subseteq processed', excused \subseteq excused',
         \A h \in handlers : h.processed \/ h \in handlers' \/ h.event \in processed' \cup excused',
         \A s \in Reconnector : ToReplay(s) \subseteq Accounted'
  PROVE  Accounted \subseteq Accounted'
<1> SUFFICES ASSUME NEW e \in Accounted
             PROVE  e \in Accounted'
  OBVIOUS
<1>1. \A h \in handlers' : ~ h.processed => h.event \in Accounted'
  BY DEF Accounted, InHand
<1>2. processed' \subseteq Accounted' /\ excused' \subseteq Accounted'
  BY DEF Accounted
<1>3. CASE e \in processed \cup excused
  BY <1>2, <1>3
<1>4. CASE e \in InHand
  BY <1>1, <1>2, <1>4, InHandIs
<1> QED
  BY <1>3, <1>4 DEF Accounted

LEMMA ReplaySame ==
  ASSUME NEW s \in Reconnector, starts'[s] = starts[s]
  PROVE  ToReplay(s) \subseteq Accounted'
<1>1. ToReplay(s)' = ToReplay(s)
  BY DEF ToReplay
<1>2. ToReplay(s)' \subseteq Accounted'
  BY DEF Accounted, InHand
<1> QED
  BY <1>1, <1>2

\* What a start is to replay, handed over as it was or in part.
LEMMA ReplayKept ==
  ASSUME NEW s \in Reconnector, ToReplay(s) \subseteq ToReplay(s)' \cup Accounted'
  PROVE  ToReplay(s) \subseteq Accounted'
<1>1. ToReplay(s)' \subseteq Accounted'
  BY DEF Accounted, InHand
<1> QED
  BY <1>1

LEMMA SafeIs ==
  \A b : b \in Safe <=> /\ b \in Int /\ b <= height
                        /\ \A e \in Event : e <= height /\ e <= b => e \in Accounted
BY DEF Safe, Mined

LEMMA SafeStays ==
  ASSUME TypeOK, height' \in Int, height <= height', Accounted \subseteq Accounted'
  PROVE  Safe \subseteq Safe'
<1> SUFFICES ASSUME NEW b \in Safe
             PROVE  b \in Safe'
  OBVIOUS
<1>1. height \in Int
  BY Numbers DEF TypeOK
<1>2. b \in Int /\ b <= height'
  BY <1>1 DEF Safe
<1>3. ASSUME NEW e \in Mined', e <= b
      PROVE  e \in Accounted'
  <2>1. e \in Event /\ e \in Int
    BY Numbers DEF Mined
  <2>2. e <= height
    BY <1>1, <1>3, <2>1 DEF Safe
  <2> QED
    BY <1>3, <2>1, <2>2 DEF Safe, Mined
<1> QED
  BY <1>2, <1>3 DEF Safe

\* The head is safe when every mined event is accounted for.
LEMMA HeadSafe ==
  ASSUME TypeOK, Mined \subseteq Accounted, NEW b \in Int, b <= height
  PROVE  b \in Safe
BY DEF Safe

LEMMA FaultIs ==
  ASSUME TypeOK, Fault \/ faults' = faults
  PROVE  faults' \in 0 .. MaxFaults
<1>1. faults \in Nat /\ MaxFaults \in Nat
  BY Numbers DEF TypeOK
<1> QED
  BY <1>1 DEF TypeOK, Fault

\* A safe block written to the cursor.
LEMMA CursorWritten ==
  ASSUME TypeOK, Recorded \ {None} \subseteq Safe, Safe \subseteq Safe',
         NEW b \in Blocks, b \in Safe', UpdateLastProcessedBlock(b)
  PROVE  /\ redisBlock' \in Blocks \cup {None} /\ dbBlock' \in Blocks \cup {None}
         /\ upserts' \subseteq Blocks /\ faults' \in 0 .. MaxFaults
         /\ (Recorded \ {None} \subseteq Safe)'
<1>1. Fault \/ faults' = faults
  BY DEF UpdateLastProcessedBlock
<1>2. /\ redisBlock' \in {redisBlock, b} /\ dbBlock' = dbBlock /\ upserts' = upserts \cup {b}
  BY DEF UpdateLastProcessedBlock
<1>3. Recorded' \subseteq Recorded \cup {b}
  BY <1>2 DEF Recorded
<1> QED
  BY <1>1, <1>2, <1>3, FaultIs DEF TypeOK

LEMMA CursorUntouched ==
  ASSUME Recorded \ {None} \subseteq Safe, Safe \subseteq Safe', UNCHANGED cursors
  PROVE  (Recorded \ {None} \subseteq Safe)'
BY DEF cursors, Recorded

\* The process and its subscriptions stay as they are, and no call settles or
\* leaves its place.
LEMMA ProcessUntouched ==
  ASSUME TypeOK, ProcessInv, UNCHANGED <<up, listeners>>, up,
         \A s \in Reconnector : starts'[s].pc \in {"idle", "backoff"} <=> starts[s].pc \in {"idle", "backoff"}
  PROVE  ProcessInv'
<1>1. Settled' = Settled
  BY DEF Settled
<1> QED
  BY <1>1 DEF ProcessInv

\* A start under way means that the process is up.
LEMMA StartIsUp ==
  ASSUME TypeOK, ProcessInv, NEW s \in Reconnector, starts[s].pc # "idle"
  PROVE  up
BY DEF TypeOK, ProcessInv, Idle

-----------------------------------------------------------------------------
(* One lemma per action.                                                   *)

LEMMA StartsKept ==
  ASSUME StartInv, Safe \subseteq Safe',
         \A t \in Reconnector : starts'[t] = starts[t] \/ StartOk(t)'
  PROVE  StartInv'
<1> SUFFICES ASSUME NEW t \in Reconnector PROVE StartOk(t)'
  BY DEF StartInv
<1>1. CASE starts'[t] = starts[t]
  BY <1>1 DEF StartInv, StartOk
<1> QED
  BY <1>1

LEMMA HandlersKept ==
  ASSUME Safe \subseteq Safe', handlers' \subseteq handlers, \A h \in handlers : h.event \in Safe
  PROVE  (\A h \in handlers : h.event \in Safe)'
OBVIOUS

LEMMA OtherStarts ==
  ASSUME TypeOK, NEW s \in Reconnector, NEW r \in Start, starts' = [starts EXCEPT ![s] = r]
  PROVE  /\ starts' \in [Reconnector -> Start] /\ starts'[s] = r
         /\ \A t \in Reconnector \ {s} : starts'[t] = starts[t]
BY DEF TypeOK

\* The head, as a number, and the events up to it.
LEMMA HeightIs ==
  ASSUME TypeOK
  PROVE  /\ height \in Int /\ height >= 0 /\ height <= MaxHeight /\ FirstHeight <= height
         /\ Mined = {e \in Event : e <= height} /\ Mined \subseteq Blocks
         /\ 0 \in Safe /\ height \in Blocks
<1>1. height \in Int /\ height >= 0 /\ height <= MaxHeight /\ FirstHeight <= height
  BY Numbers DEF TypeOK
<1>2. \A e \in Event : ~ (e <= 0)
  BY Numbers
<1> QED
  BY <1>1, <1>2, Numbers DEF Mined, Blocks, Safe

LEMMA GetLastProcessedBlockKeeps ==
  ASSUME CursorInv, NEW s \in Reconnector, GetLastProcessedBlock(s)
  PROVE  CursorInv'
<1> USE DEF CursorInv
<1>1. starts[s].pc = "read" /\ starts[s] \in Start
  BY DEF GetLastProcessedBlock, TypeOK
<1>2. PICK v \in {redisBlock, InDb} :
        /\ v = redisBlock => redisBlock # None
        /\ starts' = [starts EXCEPT ![s] = [starts[s] EXCEPT !.pc = "head", !.last = v]]
  <2>1. \/ /\ redisBlock # None
           /\ starts' = [starts EXCEPT ![s] = [starts[s] EXCEPT !.pc = "head", !.last = redisBlock]]
        \/ starts' = [starts EXCEPT ![s] = [starts[s] EXCEPT !.pc = "head", !.last = InDb]]
    BY DEF GetLastProcessedBlock
  <2>2. InDb = redisBlock => redisBlock # None
    BY Numbers DEF InDb
  <2> QED
    BY <2>1, <2>2, Zenon
<1>3. /\ redisBlock' \in {redisBlock, dbBlock}
      /\ Fault \/ faults' = faults
      /\ UNCHANGED <<height, dbBlock, upserts, up, attempts, listeners, connected, handlers, processed, excused>>
  BY DEF GetLastProcessedBlock, process
<1>4. v \in Blocks \cup {0} /\ v \in Safe
  BY <1>2, HeightIs DEF InDb, TypeOK, Recorded
<1> DEFINE r == [starts[s] EXCEPT !.pc = "head", !.last = v]
<1>5. r \in Start /\ r.pc = "head" /\ r.last = v /\ r.todo = starts[s].todo /\ r.upTo = starts[s].upTo
  BY <1>1, <1>4 DEF Start
<1>6. starts' = [starts EXCEPT ![s] = r]
  BY <1>2
<1> HIDE DEF r
<1>7. /\ starts' \in [Reconnector -> Start] /\ starts'[s] = r
      /\ \A t \in Reconnector \ {s} : starts'[t] = starts[t]
  BY <1>5, <1>6, OtherStarts
<1>8. TypeOK'
  <2>1. faults' \in 0 .. MaxFaults
    BY <1>3, FaultIs
  <2>2. \A t \in Reconnector : Range(starts'[t].todo) \subseteq Mined' /\ starts'[t].upTo <= height'
    BY <1>3, <1>5, <1>7 DEF TypeOK, Mined
  <2> QED
    BY <1>3, <1>7, <2>1, <2>2 DEF TypeOK, Mined
<1>9. Accounted \subseteq Accounted'
  <2>1. ToReplay(s) = {}
    BY <1>1, NothingToReplay
  <2>2. \A t \in Reconnector : ToReplay(t) \subseteq Accounted'
    BY <1>7, <2>1, ReplaySame
  <2> QED
    BY <1>3, <2>2, AccountedStays
<1>10. Safe \subseteq Safe'
  BY <1>3, <1>9, HeightIs, SafeStays
<1>11. (Recorded \ {None} \subseteq Safe)'
  BY <1>3, <1>10 DEF Recorded
<1>12. StartInv'
  <2>1. StartOk(s)'
    BY <1>1, <1>4, <1>5, <1>7, <1>10, EmptyRange DEF StartInv, StartOk
  <2> QED
    BY <1>7, <1>10, <2>1, StartsKept
<1>13. listeners' > 0 /\ connected' => height' \in Safe'
  BY <1>3, <1>10
<1>14. ProcessInv'
  <2>1. up /\ Settled' = Settled
    BY <1>1, <1>5, <1>7, StartIsUp DEF Settled
  <2> QED
    BY <1>3, <2>1 DEF ProcessInv
<1> QED
  BY <1>3, <1>8, <1>10, <1>11, <1>12, <1>13, <1>14, HandlersKept

LEMMA StartIs ==
  ASSUME TypeOK, NEW s \in Reconnector
  PROVE  /\ starts[s] \in Start /\ starts[s].todo \in Seq(Event)
         /\ starts[s].last \in Int /\ starts[s].from \in Int /\ starts[s].upTo \in Int
<1>1. starts[s] \in Start
  BY DEF TypeOK
<1>2. Blocks \cup {0} \subseteq Int
  BY Numbers
<1> QED
  BY <1>1, <1>2 DEF Start

\* When every mined event is accounted for, so is what lies behind any place
\* up to the head.
LEMMA AllSafe ==
  ASSUME height' = height, Mined \subseteq Accounted', NEW b \in Int, b <= height
  PROVE  b \in Safe'
BY DEF Safe, Mined

LEMMA RecoverFromCrashKeeps ==
  ASSUME CursorInv, NEW s \in Reconnector, RecoverFromCrash(s)
  PROVE  CursorInv'
<1> USE DEF CursorInv
<1> DEFINE last == starts[s].last
<1>1. /\ starts[s].pc = "head" /\ starts[s] \in Start /\ starts[s].todo = <<>>
      /\ last \in Int /\ last \in Safe /\ height \in Int
  <2>1. starts[s].pc = "head"
    BY DEF RecoverFromCrash
  <2>2. last \in Safe /\ starts[s].todo = <<>>
    BY <2>1 DEF StartInv, StartOk
  <2> QED
    BY <2>1, <2>2, StartIs, HeightIs
<1>2. /\ UNCHANGED <<height, up, attempts, listeners, connected, handlers, processed>>
      /\ excused' \in {excused, excused \cup Mined}
  BY DEF RecoverFromCrash, process
<1>3. PICK pc \in {"replay", "listen"}, from \in Int :
        /\ starts' = [starts EXCEPT ![s] = [starts[s] EXCEPT !.pc = pc, !.from = from, !.upTo = height]]
        /\ \/ excused' = excused \cup Mined
           \/ pc = "replay" /\ from = last + 1
           \/ pc = "listen" /\ height <= last
  <2>1. CASE \/ To(s, "listen", 1, height) /\ excused' = excused \cup Mined
             \/ To(s, "listen", 1, height) /\ height - last <= 0
    <3>1. height - last <= 0 => height <= last
      BY <1>1
    <3>2. To(s, "listen", 1, height) /\ 1 \in Int
      BY <2>1
    <3>3. excused' = excused \cup Mined \/ height <= last
      BY <2>1, <3>1
    <3> HIDE DEF last
    <3> QED
      BY <3>2, <3>3, Zenon DEF To
  <2>2. CASE To(s, "replay", last + 1, height)
    <3>1. last + 1 \in Int
      BY <1>1
    <3> QED
      BY <2>2, <3>1, Zenon DEF To
  <2> QED
    BY <2>1, <2>2 DEF RecoverFromCrash
<1>4. \/ UNCHANGED <<cursors, faults>>
      \/ \E b \in Blocks : b <= height /\ UpdateLastProcessedBlock(b)
  <2>1. \A n \in {Window, Confirmations} : height - n \in Blocks /\ height - n <= height
    <3>1. PICK first \in Int : first = FirstHeight - Window - Confirmations
      BY Numbers
    <3>2. \A n \in {Window, Confirmations} :
            height - n \in Int /\ first <= height - n /\ height - n <= MaxHeight /\ height - n <= height
      BY <1>1, <3>1, HeightIs, Numbers
    <3>3. MaxHeight \in Int
      BY Numbers
    <3> QED
      BY <3>1, <3>2, <3>3 DEF Blocks
  <2> QED
    BY <2>1 DEF RecoverFromCrash
<1> DEFINE r == [starts[s] EXCEPT !.pc = pc, !.from = from, !.upTo = height]
<1>5. /\ r \in Start /\ r.pc = pc /\ r.from = from /\ r.upTo = height /\ r.todo = <<>>
      /\ starts' = [starts EXCEPT ![s] = r]
  BY <1>1, <1>3 DEF Start
<1> HIDE DEF r, last
<1>6. /\ starts' \in [Reconnector -> Start] /\ starts'[s] = r
      /\ \A t \in Reconnector \ {s} : starts'[t] = starts[t]
  BY <1>5, OtherStarts
<1>7. Accounted \subseteq Accounted'
  <2>1. ToReplay(s) = {}
    BY <1>1, NothingToReplay
  <2>2. \A t \in Reconnector : ToReplay(t) \subseteq Accounted'
    BY <1>6, <2>1, ReplaySame
  <2> QED
    BY <1>2, <2>2, AccountedStays
<1>8. Safe \subseteq Safe'
  BY <1>2, <1>7, HeightIs, SafeStays
<1>9. Mined \subseteq Accounted'
  <2>1. CASE excused' = excused \cup Mined
    BY <2>1 DEF Accounted
  <2>2. CASE pc = "replay" /\ from = last + 1
    <3> SUFFICES ASSUME NEW e \in Mined PROVE e \in Accounted'
      OBVIOUS
    <3>1. e \in Int /\ e \in Event /\ e <= height
      BY HeightIs, Numbers
    <3>2. CASE e <= last
      BY <1>1, <1>7, <3>2 DEF Safe
    <3>3. CASE ~ (e <= last)
      <4>1. from <= e
        BY <1>1, <2>2, <3>1, <3>3
      <4>2. e \in ToReplay(s)'
        BY <1>5, <1>6, <2>2, <3>1, <4>1 DEF ToReplay
      <4> QED
        BY <4>2 DEF Accounted, InHand
    <3> QED
      BY <3>2, <3>3
  <2>3. CASE pc = "listen" /\ height <= last
    <3> SUFFICES ASSUME NEW e \in Mined PROVE e \in Accounted'
      OBVIOUS
    <3>1. e \in Int /\ e <= height
      BY HeightIs, Numbers
    <3>2. e <= last
      BY <1>1, <2>3, <3>1
    <3> QED
      BY <1>1, <1>7, <3>2 DEF Safe
  <2> QED
    BY <1>3, <2>1, <2>2, <2>3
<1>10. height \in Safe'
  BY <1>1, <1>2, <1>9, AllSafe
<1>11. /\ redisBlock' \in Blocks \cup {None} /\ dbBlock' \in Blocks \cup {None}
       /\ upserts' \subseteq Blocks /\ faults' \in 0 .. MaxFaults
       /\ (Recorded \ {None} \subseteq Safe)'
  <2>1. CASE UNCHANGED <<cursors, faults>>
    BY <1>8, <2>1, CursorUntouched DEF TypeOK, cursors
  <2>2. ASSUME NEW b \in Blocks, b <= height, UpdateLastProcessedBlock(b)
        PROVE  /\ redisBlock' \in Blocks \cup {None} /\ dbBlock' \in Blocks \cup {None}
               /\ upserts' \subseteq Blocks /\ faults' \in 0 .. MaxFaults
               /\ (Recorded \ {None} \subseteq Safe)'
    <3>1. b \in Safe'
      BY <1>2, <1>9, <2>2, Numbers, AllSafe
    <3> QED
      BY <1>8, <2>2, <3>1, CursorWritten
  <2> QED
    BY <1>4, <2>1, <2>2
<1>12. TypeOK'
  <2>1. \A t \in Reconnector : Range(starts'[t].todo) \subseteq Mined' /\ starts'[t].upTo <= height'
    BY <1>1, <1>2, <1>5, <1>6, EmptyRange DEF TypeOK, Mined
  <2>2. excused' \subseteq Mined' /\ Mined' = Mined
    BY <1>2 DEF TypeOK, Mined
  <2> QED
    BY <1>2, <1>6, <1>11, <2>1, <2>2 DEF TypeOK
<1>13. StartInv'
  <2>1. StartOk(s)'
    BY <1>2, <1>3, <1>5, <1>6, <1>10, EmptyRange, HeightIs DEF StartOk
  <2> QED
    BY <1>6, <1>8, <2>1, StartsKept
<1>14. listeners' > 0 /\ connected' => height' \in Safe'
  BY <1>2, <1>8
<1>15. ProcessInv'
  <2>1. up /\ Settled' = Settled
    BY <1>1, <1>3, <1>5, <1>6, StartIsUp DEF Settled
  <2> QED
    BY <1>2, <2>1 DEF ProcessInv
<1> QED
  BY <1>2, <1>8, <1>11, <1>12, <1>13, <1>14, <1>15, HandlersKept

LEMMA ReplayBatchKeeps ==
  ASSUME CursorInv, NEW s \in Reconnector, ReplayBatch(s)
  PROVE  CursorInv'
<1> USE DEF CursorInv
<1> DEFINE st == starts[s]
<1>1. /\ st \in Start /\ st.pc = "replay" /\ st.todo = <<>> /\ st.upTo \in Safe \cap Blocks
      /\ st.from \in Int /\ st.upTo \in Int /\ st.from <= st.upTo /\ st.upTo <= height
      /\ height \in Int
  <2>1. st.pc = "replay" /\ st.todo = <<>> /\ st.from <= st.upTo
    BY DEF ReplayBatch
  <2>2. st.upTo \in Safe \cap Blocks /\ st.upTo <= height
    BY <2>1 DEF StartInv, StartOk, TypeOK
  <2> QED
    BY <2>1, <2>2, StartIs, HeightIs
<1>2. PICK end \in Int : end = IF st.from + BatchSize - 1 < st.upTo THEN st.from + BatchSize - 1 ELSE st.upTo
  BY <1>1, Numbers
<1>3. end <= st.upTo /\ st.from <= end
  BY <1>1, <1>2, Numbers
<1> DEFINE batch == Between("commitment", st.from, end) \o Between("withdrawal", st.from, end)
<1>4. batch \in Seq(Event) /\ Range(batch) = {e \in Event : st.from <= e /\ e <= end}
  BY BatchIs
<1>5. \/ /\ starts' = [starts EXCEPT ![s] = [starts[s] EXCEPT !.from = end + 1, !.todo = batch]]
         /\ UNCHANGED <<excused, faults>>
      \/ /\ Fault
         /\ starts' = [starts EXCEPT ![s] = [starts[s] EXCEPT !.from = end + 1]]
         /\ excused' = excused \cup Range(batch)
  BY <1>2 DEF ReplayBatch
<1> HIDE DEF batch
<1>6. PICK todo \in {<<>>, batch} :
        /\ starts' = [starts EXCEPT ![s] = [starts[s] EXCEPT !.from = end + 1, !.todo = todo]]
        /\ \/ todo = batch /\ excused' = excused
           \/ excused' = excused \cup Range(batch)
  <2>1. [starts[s] EXCEPT !.from = end + 1] = [starts[s] EXCEPT !.from = end + 1, !.todo = <<>>]
    BY <1>1 DEF Start
  <2> QED
    BY <1>5, <2>1, Zenon
<1>7. /\ UNCHANGED <<height, redisBlock, dbBlock, upserts, up, attempts, listeners, connected, handlers, processed>>
      /\ Fault \/ faults' = faults
  BY <1>5 DEF ReplayBatch, cursors, process
<1>8. todo \in Seq(Event) /\ Range(todo) \subseteq Range(batch)
  <2>1. CASE todo = <<>>
    BY <2>1, EmptyRange
  <2>2. CASE todo = batch
    BY <1>4, <2>2
  <2> QED
    BY <2>1, <2>2
<1>9. Range(batch) \subseteq Mined /\ \A e \in Range(batch) : e <= st.upTo /\ e \in Event
  <2>1. \A e \in Event : e <= end => e <= st.upTo /\ e <= height
    BY <1>1, <1>3, Numbers
  <2> QED
    BY <1>4, <2>1 DEF Mined
<1> DEFINE r == [starts[s] EXCEPT !.from = end + 1, !.todo = todo]
<1>10. /\ r \in Start /\ r.pc = "replay" /\ r.upTo = st.upTo /\ r.from = end + 1 /\ r.todo = todo
       /\ starts' = [starts EXCEPT ![s] = r]
  <2>1. starts' = [starts EXCEPT ![s] = r]
    BY <1>6
  <2>2. end + 1 \in Int /\ starts[s] \in Start
    BY <1>1
  <2> QED
    BY <1>1, <1>8, <2>1, <2>2 DEF Start
<1> HIDE DEF r, st
<1>11. /\ starts' \in [Reconnector -> Start] /\ starts'[s] = r
       /\ \A t \in Reconnector \ {s} : starts'[t] = starts[t]
  BY <1>10, OtherStarts
<1>12. ToReplay(s) \subseteq ToReplay(s)' \cup Accounted'
  <2> SUFFICES ASSUME NEW e \in ToReplay(s) PROVE e \in ToReplay(s)' \cup Accounted'
    OBVIOUS
  <2>1. e \in Event /\ st.from <= e /\ e <= st.upTo /\ e \in Int
    BY <1>1, ToReplayIs, EmptyRange, Numbers DEF st
  <2>2. CASE e <= end /\ todo = batch
    <3>1. e \in Range(todo)
      BY <1>4, <2>1, <2>2
    <3> QED
      BY <1>10, <1>11, <3>1 DEF ToReplay
  <2>3. CASE e <= end /\ excused' = excused \cup Range(batch)
    BY <1>4, <2>1, <2>3 DEF Accounted
  <2>4. CASE ~ (e <= end)
    <3>1. end + 1 <= e
      BY <2>1, <2>4
    <3> QED
      BY <1>10, <1>11, <2>1, <3>1 DEF ToReplay
  <2> QED
    BY <1>6, <2>2, <2>3, <2>4
<1>13. Accounted \subseteq Accounted'
  <2>1. excused \subseteq excused'
    BY <1>6
  <2>2. \A t \in Reconnector : ToReplay(t) \subseteq Accounted'
    BY <1>11, <1>12, ReplaySame, ReplayKept
  <2> QED
    BY <1>7, <2>1, <2>2, AccountedStays
<1>14. Safe \subseteq Safe'
  BY <1>1, <1>7, <1>13, SafeStays
<1>15. (Recorded \ {None} \subseteq Safe)'
  BY <1>7, <1>14, CursorUntouched DEF cursors
<1>16. TypeOK'
  <2>1. Mined' = Mined
    BY <1>7 DEF Mined
  <2>2. \A t \in Reconnector : Range(starts'[t].todo) \subseteq Mined' /\ starts'[t].upTo <= height'
    BY <1>1, <1>7, <1>8, <1>9, <1>10, <1>11, <2>1 DEF TypeOK
  <2>3. excused' \subseteq Mined'
    BY <1>6, <1>9, <2>1 DEF TypeOK
  <2>4. faults' \in 0 .. MaxFaults
    BY <1>7, FaultIs
  <2> QED
    BY <1>7, <1>11, <2>1, <2>2, <2>3, <2>4 DEF TypeOK
<1>17. StartInv'
  <2>1. StartOk(s)'
    BY <1>1, <1>8, <1>9, <1>10, <1>11, <1>14 DEF StartOk
  <2> QED
    BY <1>11, <1>14, <2>1, StartsKept
<1>18. listeners' > 0 /\ connected' => height' \in Safe'
  BY <1>7, <1>14
<1>19. ProcessInv'
  <2>1. up /\ Settled' = Settled
    BY <1>1, <1>10, <1>11, StartIsUp DEF Settled, st
  <2> QED
    BY <1>7, <2>1 DEF ProcessInv
<1> QED
  BY <1>7, <1>14, <1>15, <1>16, <1>17, <1>18, <1>19, HandlersKept

LEMMA SafeDown ==
  ASSUME TypeOK, NEW b \in Safe, NEW c \in Int, c <= b
  PROVE  c \in Safe
<1>1. b \in Int /\ b <= height /\ height \in Int
  BY HeightIs DEF Safe
<1>2. \A e \in Mined : e \in Int
  BY HeightIs, Numbers
<1> QED
  BY <1>1, <1>2 DEF Safe

LEMMA HeadTail ==
  ASSUME NEW q \in Seq(Event), q # <<>>
  PROVE  Head(q) \in Event /\ Tail(q) \in Seq(Event) /\ Range(q) = {Head(q)} \cup Range(Tail(q))
<1>1. Len(q) \in Nat /\ Len(q) > 0 /\ DOMAIN q = 1 .. Len(q)
  OBVIOUS
<1>2. Tail(q) \in Seq(Event) /\ Len(Tail(q)) = Len(q) - 1 /\ Head(q) = q[1]
  BY <1>1
<1>3. Range(q) = {q[i] : i \in 1 .. Len(q)} /\ Range(Tail(q)) = {Tail(q)[i] : i \in 1 .. Len(q) - 1}
  BY <1>2, RangeEquality
<1>4. \A i \in 1 .. Len(q) - 1 : Tail(q)[i] = q[i + 1] /\ i + 1 \in 1 .. Len(q)
  BY <1>1
<1>5. Range(q) \subseteq {Head(q)} \cup Range(Tail(q))
  <2> SUFFICES ASSUME NEW i \in 1 .. Len(q) PROVE q[i] \in {Head(q)} \cup Range(Tail(q))
    BY <1>3
  <2>1. CASE i = 1
    BY <1>2, <2>1
  <2>2. CASE i # 1
    <3>1. i - 1 \in 1 .. Len(q) - 1 /\ i - 1 + 1 = i
      BY <1>1, <2>2
    <3>2. q[i] = Tail(q)[i - 1]
      BY <1>4, <3>1
    <3> QED
      BY <1>3, <3>1, <3>2
  <2> QED
    BY <2>1, <2>2
<1>6. {Head(q)} \cup Range(Tail(q)) \subseteq Range(q)
  BY <1>1, <1>2, <1>3, <1>4
<1> QED
  BY <1>2, <1>5, <1>6

LEMMA ReplayEventKeeps ==
  ASSUME CursorInv, NEW s \in Reconnector, ReplayEvent(s)
  PROVE  CursorInv'
<1> USE DEF CursorInv
<1> DEFINE todo == starts[s].todo
           h == [event |-> Head(todo), by |-> s, processed |-> FALSE]
           r == [starts[s] EXCEPT !.todo = Tail(todo)]
<1>1. /\ todo # <<>> /\ handlers' = handlers \cup {h}
      /\ starts' = [starts EXCEPT ![s] = r]
      /\ UNCHANGED <<height, redisBlock, dbBlock, upserts, up, attempts, listeners, connected, processed, excused, faults>>
  BY DEF ReplayEvent, cursors, process
<1>2. starts[s].pc = "replay" /\ starts[s].upTo \in Safe \cap Blocks
  BY <1>1 DEF StartInv, StartOk
<1>3. starts[s] \in Start /\ todo \in Seq(Event)
  BY StartIs
<1>4. Head(todo) \in Event /\ Tail(todo) \in Seq(Event) /\ Range(todo) = {Head(todo)} \cup Range(Tail(todo))
  BY <1>1, <1>3, HeadTail
<1>5. Range(todo) \subseteq Mined /\ \A e \in Range(todo) : e <= starts[s].upTo
  BY DEF StartInv, StartOk, TypeOK
<1>6. /\ r \in Start /\ r.pc = "replay" /\ r.upTo = starts[s].upTo /\ r.from = starts[s].from
      /\ r.todo = Tail(todo)
  BY <1>2, <1>3, <1>4 DEF Start
<1> HIDE DEF r, todo
<1>7. /\ starts' \in [Reconnector -> Start] /\ starts'[s] = r
      /\ \A t \in Reconnector \ {s} : starts'[t] = starts[t]
  BY <1>1, <1>6, OtherStarts
<1>8. ToReplay(s) \subseteq ToReplay(s)' \cup Accounted'
  <2> SUFFICES ASSUME NEW e \in ToReplay(s) PROVE e \in ToReplay(s)' \cup Accounted'
    OBVIOUS
  <2>1. CASE e \in Range(Tail(todo))
    BY <1>6, <1>7, <2>1 DEF ToReplay
  <2>2. CASE e = Head(todo)
    <3>1. h \in handlers' /\ ~ h.processed /\ h.event = e
      BY <1>1, <2>2
    <3>2. \A x \in handlers' : ~ x.processed => x.event \in Accounted'
      BY DEF Accounted, InHand
    <3> HIDE DEF h
    <3> QED
      BY <3>1, <3>2
  <2>3. CASE e \in Event /\ starts[s].from <= e /\ e <= starts[s].upTo
    BY <1>6, <1>7, <2>3 DEF ToReplay
  <2> QED
    BY <1>4, <2>1, <2>2, <2>3, ToReplayIs DEF todo
<1>9. Accounted \subseteq Accounted'
  <2>1. \A t \in Reconnector : ToReplay(t) \subseteq Accounted'
    BY <1>7, <1>8, ReplaySame, ReplayKept
  <2> QED
    BY <1>1, <2>1, AccountedStays
<1>10. Safe \subseteq Safe'
  BY <1>1, <1>9, HeightIs, SafeStays
<1>11. (Recorded \ {None} \subseteq Safe)'
  BY <1>1, <1>10, CursorUntouched DEF cursors
<1>12. TypeOK'
  <2>1. Mined' = Mined
    BY <1>1 DEF Mined
  <2>2. \A t \in Reconnector : Range(starts'[t].todo) \subseteq Mined' /\ starts'[t].upTo <= height'
    BY <1>1, <1>4, <1>5, <1>6, <1>7, <2>1 DEF TypeOK
  <2>3. h \in [event : Mined, by : Reconnector \cup {Live}, processed : BOOLEAN]
    BY <1>4, <1>5
  <2> QED
    BY <1>1, <1>7, <2>1, <2>2, <2>3 DEF TypeOK
<1>13. (\A x \in handlers : x.event \in Safe)'
  <2>1. Head(todo) \in Safe
    BY <1>2, <1>4, <1>5, Numbers, SafeDown
  <2> QED
    BY <1>1, <1>10, <2>1
<1>14. StartInv'
  <2>1. StartOk(s)'
    BY <1>2, <1>4, <1>5, <1>6, <1>7, <1>10 DEF StartOk
  <2> QED
    BY <1>7, <1>10, <2>1, StartsKept
<1>15. listeners' > 0 /\ connected' => height' \in Safe'
  BY <1>1, <1>10
<1>16. ProcessInv'
  <2>1. up /\ Settled' = Settled
    BY <1>2, <1>6, <1>7, StartIsUp DEF Settled
  <2> QED
    BY <1>1, <2>1 DEF ProcessInv
<1> QED
  BY <1>11, <1>12, <1>13, <1>14, <1>15, <1>16

LEMMA ReplayDoneKeeps ==
  ASSUME CursorInv, NEW s \in Reconnector, ReplayDone(s)
  PROVE  CursorInv'
<1> USE DEF CursorInv
<1> DEFINE r == [starts[s] EXCEPT !.pc = "listen"]
<1>1. /\ starts[s].pc = "replay" /\ starts[s].from > starts[s].upTo /\ starts[s].todo = <<>>
      /\ UpdateLastProcessedBlock(starts[s].upTo)
      /\ starts' = [starts EXCEPT ![s] = r]
      /\ UNCHANGED <<height, up, attempts, listeners, connected, handlers, processed, excused>>
  BY DEF ReplayDone, process
<1>2. starts[s].upTo \in Safe \cap Blocks
  BY <1>1 DEF StartInv, StartOk
<1>3. starts[s] \in Start /\ starts[s].from \in Int /\ starts[s].upTo \in Int
  BY StartIs
<1>4. r \in Start /\ r.pc = "listen" /\ r.upTo = starts[s].upTo /\ r.todo = <<>>
  BY <1>1, <1>3 DEF Start
<1> HIDE DEF r
<1>5. /\ starts' \in [Reconnector -> Start] /\ starts'[s] = r
      /\ \A t \in Reconnector \ {s} : starts'[t] = starts[t]
  BY <1>1, <1>4, OtherStarts
<1>6. ToReplay(s) = {}
  <2> SUFFICES ASSUME NEW e \in ToReplay(s) PROVE FALSE
    OBVIOUS
  <2>1. e \in Event /\ starts[s].from <= e /\ e <= starts[s].upTo
    BY <1>1, EmptyRange, ToReplayIs
  <2>2. e \in Int
    BY <2>1, Numbers
  <2> QED
    BY <1>1, <1>3, <2>1, <2>2
<1>7. Accounted \subseteq Accounted'
  <2>1. \A t \in Reconnector : ToReplay(t) \subseteq Accounted'
    BY <1>5, <1>6, ReplaySame
  <2> QED
    BY <1>1, <2>1, AccountedStays
<1>8. Safe \subseteq Safe'
  BY <1>1, <1>7, HeightIs, SafeStays
<1>9. /\ redisBlock' \in Blocks \cup {None} /\ dbBlock' \in Blocks \cup {None}
      /\ upserts' \subseteq Blocks /\ faults' \in 0 .. MaxFaults
      /\ (Recorded \ {None} \subseteq Safe)'
  BY <1>1, <1>2, <1>8, CursorWritten
<1>10. TypeOK'
  <2>1. Mined' = Mined
    BY <1>1 DEF Mined
  <2>2. \A t \in Reconnector : Range(starts'[t].todo) \subseteq Mined' /\ starts'[t].upTo <= height'
    BY <1>1, <1>4, <1>5, <2>1, EmptyRange DEF TypeOK
  <2> QED
    BY <1>1, <1>5, <1>9, <2>1, <2>2 DEF TypeOK
<1>11. StartInv'
  <2>1. StartOk(s)'
    BY <1>2, <1>4, <1>5, <1>8, EmptyRange DEF StartOk
  <2> QED
    BY <1>5, <1>8, <2>1, StartsKept
<1>12. listeners' > 0 /\ connected' => height' \in Safe'
  BY <1>1, <1>8
<1>13. ProcessInv'
  <2>1. up /\ Settled' = Settled
    BY <1>1, <1>4, <1>5, StartIsUp DEF Settled
  <2> QED
    BY <1>1, <2>1 DEF ProcessInv
<1> QED
  BY <1>1, <1>8, <1>9, <1>10, <1>11, <1>12, <1>13, HandlersKept

LEMMA IdleIs == Idle \in Start /\ Idle.pc = "idle" /\ Idle.todo = <<>> /\ Idle.upTo = 0
BY DEF Idle, Start

LEMMA SettledIs ==
  /\ IsFiniteSet(Reconnector) /\ Cardinality(Reconnector) \in Nat
  /\ IsFiniteSet(Settled) /\ Cardinality(Settled) \in Nat
  /\ Cardinality(Settled) <= Cardinality(Reconnector)
<1>1. IsFiniteSet(Reconnector) /\ Settled \subseteq Reconnector
  BY LimitAssumption DEF Settled
<1> QED
  BY <1>1, FS_Subset, FS_CardinalityType

LEMMA ListenKeeps ==
  ASSUME CursorInv, NEW s \in Reconnector, Listen(s)
  PROVE  CursorInv'
<1> USE DEF CursorInv
<1>1. /\ starts[s].pc = "listen" /\ listeners' = listeners + 1 /\ attempts' = 0
      /\ excused' = excused \cup {e \in Mined : e > starts[s].upTo}
      /\ starts' = [starts EXCEPT ![s] = Idle]
      /\ UNCHANGED <<height, redisBlock, dbBlock, upserts, up, connected, handlers, processed, faults>>
  BY DEF Listen, cursors
<1>2. starts[s].upTo \in Safe /\ starts[s].upTo \in Int
  BY <1>1, StartIs DEF StartInv, StartOk
<1>3. /\ starts' \in [Reconnector -> Start] /\ starts'[s] = Idle
      /\ \A t \in Reconnector \ {s} : starts'[t] = starts[t]
  BY <1>1, IdleIs, OtherStarts
<1>4. Accounted \subseteq Accounted'
  <2>1. ToReplay(s) = {}
    BY <1>1, NothingToReplay
  <2>2. \A t \in Reconnector : ToReplay(t) \subseteq Accounted'
    BY <1>3, <2>1, ReplaySame
  <2> QED
    BY <1>1, <2>2, AccountedStays
<1>5. Safe \subseteq Safe'
  BY <1>1, <1>4, HeightIs, SafeStays
<1>6. (Recorded \ {None} \subseteq Safe)'
  BY <1>1, <1>5, CursorUntouched DEF cursors
<1>7. height' \in Safe'
  <2>1. Mined \subseteq Accounted'
    <3> SUFFICES ASSUME NEW e \in Mined PROVE e \in Accounted'
      OBVIOUS
    <3>1. e \in Int
      BY HeightIs, Numbers
    <3>2. CASE e <= starts[s].upTo
      BY <1>2, <1>4, <3>2 DEF Safe
    <3>3. CASE ~ (e <= starts[s].upTo)
      <4>1. e > starts[s].upTo
        BY <1>2, <3>1, <3>3
      <4> QED
        BY <1>1, <4>1 DEF Accounted
    <3> QED
      BY <3>2, <3>3
  <2> QED
    BY <1>1, <2>1, HeightIs, AllSafe
<1>8. Cardinality(Settled') = Cardinality(Settled) + 1 /\ Cardinality(Settled') <= Cardinality(Reconnector)
  <2>1. Settled' = Settled \cup {s} /\ s \notin Settled
    BY <1>1, <1>3, IdleIs DEF Settled
  <2>2. Settled \cup {s} \subseteq Reconnector
    BY DEF Settled
  <2>3. PICK S : S = Settled \cup {s}
    OBVIOUS
  <2>4. Cardinality(S) = Cardinality(Settled) + 1
    BY <2>1, <2>3, SettledIs, FS_AddElement
  <2>5. Cardinality(S) <= Cardinality(Reconnector)
    BY <2>2, <2>3, SettledIs, FS_Subset
  <2> QED
    BY <2>1, <2>3, <2>4, <2>5
<1>9. listeners' <= Cardinality(Settled') /\ listeners' \in 0 .. Cardinality(Reconnector)
  <2>1. listeners \in Nat /\ listeners <= Cardinality(Settled)
    BY SettledIs DEF TypeOK, ProcessInv
  <2> QED
    BY <1>1, <1>8, <2>1, SettledIs
<1>10. TypeOK'
  <2>1. Mined' = Mined
    BY <1>1 DEF Mined
  <2>2. \A t \in Reconnector : Range(starts'[t].todo) \subseteq Mined' /\ starts'[t].upTo <= height'
    BY <1>1, <1>3, <2>1, IdleIs, EmptyRange, HeightIs DEF TypeOK
  <2>3. attempts' \in 0 .. MaxReconnectAttempts
    BY <1>1, Numbers
  <2> QED
    BY <1>1, <1>3, <1>9, <2>1, <2>2, <2>3 DEF TypeOK
<1>11. StartInv'
  <2>1. StartOk(s)'
    BY <1>3, IdleIs, EmptyRange DEF StartOk
  <2> QED
    BY <1>3, <1>5, <2>1, StartsKept
<1>12. ProcessInv'
  <2>1. up
    BY <1>1, StartIsUp
  <2> QED
    BY <1>1, <1>9, <2>1 DEF ProcessInv
<1> QED
  BY <1>1, <1>5, <1>6, <1>7, <1>10, <1>11, <1>12, HandlersKept

LEMMA MineKeeps ==
  ASSUME CursorInv, Mine
  PROVE  CursorInv'
<1> USE DEF CursorInv
<1>1. /\ height < MaxHeight /\ height' = height + 1
      /\ handlers' = handlers \cup
           {[event |-> e, by |-> Live, processed |-> FALSE] : e \in Delivered(height + 1)}
      /\ UNCHANGED <<redisBlock, dbBlock, upserts, up, attempts, listeners, connected, starts,
                     processed, excused, faults>>
  BY DEF Mine, cursors, process
<1>2. /\ height \in Int /\ height' \in Int /\ height <= height' /\ height' \in FirstHeight .. MaxHeight
  BY <1>1, HeightIs, Numbers
<1>3. Accounted \subseteq Accounted'
  <2>1. \A t \in Reconnector : ToReplay(t) \subseteq Accounted'
    BY <1>1, ReplaySame
  <2> QED
    BY <1>1, <2>1, AccountedStays
<1>4. Safe \subseteq Safe'
  BY <1>2, <1>3, SafeStays
<1>5. (Recorded \ {None} \subseteq Safe)'
  BY <1>1, <1>4, CursorUntouched DEF cursors
<1>6. Mined \subseteq Mined' /\ \A e \in Mined' : e \in Mined \/ e = height'
  <2>1. \A e \in Event : e \in Int
    BY Numbers
  <2> QED
    BY <1>1, <1>2, <2>1 DEF Mined
<1>7. \A e \in Delivered(height + 1) : e = height' /\ e \in Event /\ e \in Mined' /\ listeners > 0 /\ connected
  BY <1>1, <1>2 DEF Delivered, Mined
<1>8. listeners' > 0 /\ connected' => height' \in Safe'
  <2> SUFFICES ASSUME listeners > 0, connected PROVE height' \in Safe'
    BY <1>1
  <2>1. ASSUME NEW e \in Mined' PROVE e \in Accounted'
    <3>1. CASE e \in Mined
      <4>1. e <= height
        BY <3>1, HeightIs
      <4> QED
        BY <1>3, <3>1, <4>1 DEF Safe
    <3>2. CASE e = height'
      <4>1. e \in Delivered(height + 1)
        BY <1>1, <2>1, <3>2 DEF Delivered, Mined
      <4>2. [event |-> e, by |-> Live, processed |-> FALSE] \in handlers'
        BY <1>1, <4>1
      <4>3. \A x \in handlers' : ~ x.processed => x.event \in Accounted'
        BY DEF Accounted, InHand
      <4> QED
        BY <4>2, <4>3
    <3> QED
      BY <1>6, <3>1, <3>2
  <2> QED
    BY <1>2, <2>1 DEF Safe
<1>9. (\A h \in handlers : h.event \in Safe)'
  <2> SUFFICES ASSUME NEW h \in handlers' PROVE h.event \in Safe'
    OBVIOUS
  <2>1. CASE h \in handlers
    BY <1>4, <2>1
  <2>2. CASE h \notin handlers
    <3>1. h.event = height' /\ listeners > 0 /\ connected
      BY <1>1, <1>7, <2>2
    <3> QED
      BY <1>1, <1>8, <3>1
  <2> QED
    BY <2>1, <2>2
<1>10. TypeOK'
  <2>1. \A t \in Reconnector : Range(starts'[t].todo) \subseteq Mined' /\ starts'[t].upTo <= height'
    <3> SUFFICES ASSUME NEW t \in Reconnector
                 PROVE  Range(starts'[t].todo) \subseteq Mined' /\ starts'[t].upTo <= height'
      OBVIOUS
    <3>1. starts[t].upTo \in Int /\ starts[t].upTo <= height /\ Range(starts[t].todo) \subseteq Mined
      BY StartIs DEF TypeOK
    <3> QED
      BY <1>1, <1>2, <1>6, <3>1
  <2>2. handlers' \subseteq [event : Mined', by : Reconnector \cup {Live}, processed : BOOLEAN]
    <3>1. \A e \in Delivered(height + 1) : [event |-> e, by |-> Live, processed |-> FALSE]
            \in [event : Mined', by : Reconnector \cup {Live}, processed : BOOLEAN]
      BY <1>7
    <3> QED
      BY <1>1, <1>6, <3>1 DEF TypeOK
  <2> QED
    BY <1>1, <1>2, <1>6, <2>1, <2>2 DEF TypeOK
<1>11. StartInv'
  BY <1>1, <1>4, StartsKept
<1>12. ProcessInv'
  BY <1>1 DEF ProcessInv, Settled
<1> QED
  BY <1>5, <1>8, <1>9, <1>10, <1>11, <1>12

\* Steps of the handlers, of the cursor and of its copies.
LEMMA QuietStep ==
  ASSUME CursorInv, UNCHANGED <<height, up, attempts, listeners, connected, starts>>,
         redisBlock' \in Blocks \cup {None}, dbBlock' \in Blocks \cup {None}, upserts' \subseteq Blocks,
         faults' \in 0 .. MaxFaults,
         handlers' \subseteq [event : Mined, by : Reconnector \cup {Live}, processed : BOOLEAN],
         \A h \in handlers' : h.event \in Safe,
         processed \subseteq processed', processed' \subseteq Mined,
         excused \subseteq excused', excused' \subseteq Mined,
         \A h \in handlers : h.processed \/ h \in handlers' \/ h.event \in processed' \cup excused',
         Safe \subseteq Safe' => (Recorded \ {None} \subseteq Safe)'
  PROVE  CursorInv'
<1> USE DEF CursorInv
<1>1. Accounted \subseteq Accounted'
  <2>1. \A t \in Reconnector : ToReplay(t) \subseteq Accounted'
    BY ReplaySame
  <2> QED
    BY <2>1, AccountedStays
<1>2. Safe \subseteq Safe'
  BY <1>1, HeightIs, SafeStays
<1>3. TypeOK'
  BY DEF TypeOK, Mined
<1>4. StartInv'
  BY <1>2, StartsKept
<1>5. listeners' > 0 /\ connected' => height' \in Safe'
  BY <1>2
<1>6. ProcessInv'
  BY DEF ProcessInv, Settled
<1> QED
  BY <1>2, <1>3, <1>4, <1>5, <1>6

LEMMA ProcessEventKeeps ==
  ASSUME CursorInv, NEW h \in handlers, ProcessEvent(h)
  PROVE  CursorInv'
<1> USE DEF CursorInv
<1> DEFINE g == [h EXCEPT !.processed = TRUE]
<1>1. /\ processed' = processed \cup {h.event}
      /\ handlers' = (handlers \ {h}) \cup {g}
      /\ UNCHANGED <<height, redisBlock, dbBlock, upserts, up, attempts, listeners, connected, starts, excused, faults>>
  BY DEF ProcessEvent, cursors, process
<1>2. h \in [event : Mined, by : Reconnector \cup {Live}, processed : BOOLEAN]
  BY DEF TypeOK
<1>3. g \in [event : Mined, by : Reconnector \cup {Live}, processed : BOOLEAN] /\ g.event = h.event
  BY <1>2
<1> HIDE DEF g
<1>4. /\ handlers' \subseteq [event : Mined, by : Reconnector \cup {Live}, processed : BOOLEAN]
      /\ \A x \in handlers' : x.event \in Safe
      /\ processed' \subseteq Mined /\ excused' \subseteq Mined
      /\ redisBlock' \in Blocks \cup {None} /\ dbBlock' \in Blocks \cup {None}
      /\ upserts' \subseteq Blocks /\ faults' \in 0 .. MaxFaults
  BY <1>1, <1>2, <1>3 DEF TypeOK
<1>5. Safe \subseteq Safe' => (Recorded \ {None} \subseteq Safe)'
  BY <1>1, CursorUntouched DEF cursors
<1>6. \A x \in handlers : x.processed \/ x \in handlers' \/ x.event \in processed' \cup excused'
  BY <1>1
<1> QED
  BY <1>1, <1>4, <1>5, <1>6, QuietStep

LEMMA FinishEventKeeps ==
  ASSUME CursorInv, NEW h \in handlers, FinishEvent(h)
  PROVE  CursorInv'
<1> USE DEF CursorInv
<1>1. /\ h.processed /\ UpdateLastProcessedBlock(h.event) /\ handlers' = handlers \ {h}
      /\ UNCHANGED <<height, up, attempts, listeners, connected, starts, processed, excused>>
  BY DEF FinishEvent, process
<1>2. h.event \in Blocks /\ h.event \in Safe
  BY HeightIs DEF TypeOK
<1>3. /\ redisBlock' \in Blocks \cup {None} /\ dbBlock' \in Blocks \cup {None}
      /\ upserts' \subseteq Blocks /\ faults' \in 0 .. MaxFaults
  <2>1. /\ redisBlock' \in {redisBlock, h.event} /\ dbBlock' = dbBlock /\ upserts' = upserts \cup {h.event}
        /\ Fault \/ faults' = faults
    BY <1>1 DEF UpdateLastProcessedBlock
  <2> QED
    BY <1>2, <2>1, FaultIs DEF TypeOK
<1>4. Safe \subseteq Safe' => (Recorded \ {None} \subseteq Safe)'
  BY <1>1, <1>2, CursorWritten
<1>5. /\ handlers' \subseteq [event : Mined, by : Reconnector \cup {Live}, processed : BOOLEAN]
      /\ \A x \in handlers' : x.event \in Safe
      /\ processed' \subseteq Mined /\ excused' \subseteq Mined
  BY <1>1 DEF TypeOK
<1>6. \A x \in handlers : x.processed \/ x \in handlers' \/ x.event \in processed' \cup excused'
  BY <1>1
<1> QED
  BY <1>1, <1>3, <1>4, <1>5, <1>6, QuietStep

LEMMA FailEventKeeps ==
  ASSUME CursorInv, NEW h \in handlers, FailEvent(h)
  PROVE  CursorInv'
<1> USE DEF CursorInv
<1>1. /\ Fault /\ handlers' = handlers \ {h}
      /\ excused' = excused \cup ({h.event} \ processed)
      /\ UNCHANGED <<height, redisBlock, dbBlock, upserts, up, attempts, listeners, connected, starts, processed>>
  BY DEF FailEvent, cursors, process
<1>2. h.event \in Mined
  BY DEF TypeOK
<1>3. /\ handlers' \subseteq [event : Mined, by : Reconnector \cup {Live}, processed : BOOLEAN]
      /\ \A x \in handlers' : x.event \in Safe
      /\ processed' \subseteq Mined /\ excused' \subseteq Mined
      /\ redisBlock' \in Blocks \cup {None} /\ dbBlock' \in Blocks \cup {None}
      /\ upserts' \subseteq Blocks /\ faults' \in 0 .. MaxFaults
  BY <1>1, <1>2, FaultIs DEF TypeOK
<1>4. Safe \subseteq Safe' => (Recorded \ {None} \subseteq Safe)'
  BY <1>1, CursorUntouched DEF cursors
<1>5. \A x \in handlers : x.processed \/ x \in handlers' \/ x.event \in processed' \cup excused'
  BY <1>1
<1> QED
  BY <1>1, <1>3, <1>4, <1>5, QuietStep

LEMMA CopiesKeep ==
  ASSUME CursorInv, LoseRedis \/ \E b \in upserts : Upsert(b)
  PROVE  CursorInv'
<1> USE DEF CursorInv
<1>1. /\ UNCHANGED <<height, up, attempts, listeners, connected, starts, handlers, processed, excused>>
      /\ Fault \/ faults' = faults
      /\ redisBlock' \in {redisBlock, None} /\ dbBlock' \in {dbBlock} \cup upserts /\ upserts' \subseteq upserts
  BY DEF LoseRedis, Upsert, process
<1>2. (Recorded' \ {None}) \subseteq Recorded \ {None}
  BY <1>1 DEF Recorded
<1>3. /\ redisBlock' \in Blocks \cup {None} /\ dbBlock' \in Blocks \cup {None}
      /\ upserts' \subseteq Blocks /\ faults' \in 0 .. MaxFaults
  BY <1>1, FaultIs DEF TypeOK
<1>4. Safe \subseteq Safe' => (Recorded \ {None} \subseteq Safe)'
  BY <1>2
<1>5. /\ handlers' \subseteq [event : Mined, by : Reconnector \cup {Live}, processed : BOOLEAN]
      /\ \A x \in handlers' : x.event \in Safe
      /\ processed' \subseteq Mined /\ excused' \subseteq Mined
  BY <1>1 DEF TypeOK
<1> QED
  BY <1>1, <1>3, <1>4, <1>5, QuietStep

-----------------------------------------------------------------------------
(* Losing the connection and the process, and coming back.                 *)

LEMMA SettledNext ==
  /\ IsFiniteSet(Settled') /\ Cardinality(Settled') \in Nat
  /\ Settled \subseteq Settled' => Cardinality(Settled) <= Cardinality(Settled')
<1>1. IsFiniteSet(Reconnector) /\ Settled' \subseteq Reconnector
  BY LimitAssumption DEF Settled
<1>2. PICK S : S = Settled'
  OBVIOUS
<1>3. IsFiniteSet(S) /\ Cardinality(S) \in Nat
  BY <1>1, <1>2, FS_Subset, FS_CardinalityType
<1>4. Settled \subseteq S => Cardinality(Settled) <= Cardinality(S)
  BY <1>3, FS_Subset
<1> QED
  BY <1>2, <1>3, <1>4

LEMMA DieKeeps ==
  ASSUME CursorInv, Die, Fault \/ faults' = faults
  PROVE  CursorInv'
<1> USE DEF CursorInv
<1>1. /\ up' = FALSE /\ listeners' = 0 /\ connected' = FALSE /\ attempts' = 0
      /\ upserts' = {} /\ handlers' = {}
      /\ starts' = [s \in Reconnector |-> Idle]
      /\ excused' = excused \cup {e \in InHand : Passed(e)}
      /\ UNCHANGED <<height, redisBlock, dbBlock, processed>>
  BY DEF Die
<1>2. InHand \subseteq Mined
  <2> SUFFICES ASSUME NEW e \in InHand PROVE e \in Mined
    OBVIOUS
  <2>1. CASE \E h \in handlers : ~ h.processed /\ h.event = e
    BY <2>1 DEF TypeOK
  <2>2. ASSUME NEW s \in Reconnector, e \in ToReplay(s)
        PROVE  e \in Mined
    <3>1. CASE e \in Range(starts[s].todo)
      BY <3>1 DEF TypeOK
    <3>2. CASE e \in Event /\ e <= starts[s].upTo
      <4>1. e \in Int /\ starts[s].upTo \in Int /\ starts[s].upTo <= height /\ height \in Int
        BY <3>2, StartIs, HeightIs, Numbers DEF TypeOK
      <4> QED
        BY <3>2, <4>1 DEF Mined
    <3> QED
      BY <2>2, <3>1, <3>2, ToReplayIs
  <2> QED
    BY <2>1, <2>2, InHandIs
<1>3. (Recorded \ {None} \subseteq Safe)'
  <2>1. Recorded' \subseteq Recorded \cup {} /\ height' = height /\ Mined' = Mined
    BY <1>1 DEF Recorded, Mined
  <2> SUFFICES ASSUME NEW b \in Recorded, b # None PROVE b \in Safe'
    BY <2>1
  <2>2. b \in Safe
    OBVIOUS
  <2>3. ASSUME NEW e \in Mined, e <= b
        PROVE  e \in Accounted'
    <3>1. e \in Accounted
      BY <2>2, <2>3 DEF Safe
    <3>2. CASE e \in processed \cup excused
      BY <1>1, <3>2 DEF Accounted
    <3>3. CASE e \in InHand
      <4>1. Passed(e)
        BY <2>3 DEF Passed
      <4> QED
        BY <1>1, <3>3, <4>1 DEF Accounted
    <3> QED
      BY <3>1, <3>2, <3>3 DEF Accounted
  <2> QED
    BY <2>1, <2>2, <2>3 DEF Safe
<1>4. TypeOK'
  <2>1. Mined' = Mined
    BY <1>1 DEF Mined
  <2>2. \A t \in Reconnector : Range(starts'[t].todo) \subseteq Mined' /\ starts'[t].upTo <= height'
    BY <1>1, IdleIs, EmptyRange, HeightIs
  <2>3. starts' \in [Reconnector -> Start]
    BY <1>1, IdleIs
  <2>4. faults' \in 0 .. MaxFaults /\ attempts' \in 0 .. MaxReconnectAttempts
    BY <1>1, FaultIs, Numbers
  <2>5. listeners' \in 0 .. Cardinality(Reconnector)
    BY <1>1, SettledIs
  <2> QED
    BY <1>1, <1>2, <2>1, <2>2, <2>3, <2>4, <2>5 DEF TypeOK
<1>5. StartInv'
  BY <1>1, IdleIs, EmptyRange DEF StartInv, StartOk
<1>6. ProcessInv'
  BY <1>1, SettledNext DEF ProcessInv
<1> QED
  BY <1>1, <1>3, <1>4, <1>5, <1>6

\* Starts put back before their replay had nothing in hand.
LEMMA AgainKeeps ==
  ASSUME CursorInv, NEW S \in SUBSET Reconnector, NEW n \in 0 .. MaxReconnectAttempts, Again(S, n),
         \A s \in S : starts[s].pc \in {"idle", "head"}, up, Fault \/ faults' = faults
  PROVE  CursorInv'
<1> USE DEF CursorInv
<1> DEFINE again == [Idle EXCEPT !.pc = "backoff"]
<1>1. again \in Start /\ again.pc = "backoff" /\ again.todo = <<>> /\ again.upTo = 0
  BY IdleIs DEF Start
<1>2. /\ attempts' = n /\ connected' = FALSE
      /\ starts' = [s \in Reconnector |-> IF s \in S THEN again ELSE starts[s]]
      /\ UNCHANGED <<height, redisBlock, dbBlock, upserts, up, listeners, handlers, processed, excused>>
  BY DEF Again, cursors
<1> HIDE DEF again
<1>3. Accounted \subseteq Accounted'
  <2>1. ASSUME NEW t \in Reconnector PROVE ToReplay(t) \subseteq Accounted'
    <3>1. CASE t \in S
      BY <3>1, NothingToReplay
    <3>2. CASE t \notin S
      BY <1>2, <3>2, ReplaySame
    <3> QED
      BY <3>1, <3>2
  <2> QED
    BY <1>2, <2>1, AccountedStays
<1>4. Safe \subseteq Safe'
  BY <1>2, <1>3, HeightIs, SafeStays
<1>5. (Recorded \ {None} \subseteq Safe)'
  BY <1>2, <1>4, CursorUntouched DEF cursors
<1>6. TypeOK'
  <2>1. Mined' = Mined
    BY <1>2 DEF Mined
  <2>2. \A t \in Reconnector : Range(starts'[t].todo) \subseteq Mined' /\ starts'[t].upTo <= height'
    BY <1>1, <1>2, <2>1, EmptyRange, HeightIs DEF TypeOK
  <2>3. starts' \in [Reconnector -> Start]
    BY <1>1, <1>2 DEF TypeOK
  <2>4. faults' \in 0 .. MaxFaults
    BY FaultIs
  <2> QED
    BY <1>2, <2>1, <2>2, <2>3, <2>4 DEF TypeOK
<1>7. StartInv'
  <2>1. \A t \in Reconnector : starts'[t] = starts[t] \/ StartOk(t)'
    BY <1>1, <1>2, EmptyRange DEF StartOk
  <2> QED
    BY <1>4, <2>1, StartsKept
<1>8. ProcessInv'
  <2>1. Settled \subseteq Settled'
    BY <1>1, <1>2 DEF Settled
  <2>2. Cardinality(Settled) <= Cardinality(Settled')
    BY <2>1, SettledNext
  <2>3. listeners \in Int /\ listeners <= Cardinality(Settled)
    BY SettledIs DEF TypeOK, ProcessInv
  <2>4. listeners' <= Cardinality(Settled')
    BY <1>2, <2>2, <2>3, SettledIs, SettledNext
  <2> QED
    BY <1>2, <2>4 DEF ProcessInv
<1> QED
  BY <1>2, <1>4, <1>5, <1>6, <1>7, <1>8, HandlersKept

LEMMA BackOffKeeps ==
  ASSUME CursorInv, NEW S \in SUBSET Reconnector, BackOff(S),
         \A s \in S : starts[s].pc \in {"idle", "head"}, up, Fault \/ faults' = faults
  PROVE  CursorInv'
<1>1. CASE Die
  BY <1>1, DieKeeps
<1>2. CASE ~ (attempts + Cardinality(S) > MaxReconnectAttempts) /\ Again(S, attempts + Cardinality(S))
  <2>1. Cardinality(S) \in Nat
    BY LimitAssumption, FS_Subset, FS_CardinalityType
  <2>2. attempts + Cardinality(S) \in 0 .. MaxReconnectAttempts
    BY <1>2, <2>1, Numbers DEF CursorInv, TypeOK
  <2> QED
    BY <1>2, <2>2, AgainKeeps
<1> QED
  BY <1>1, <1>2 DEF BackOff

LEMMA DisconnectKeeps ==
  ASSUME CursorInv, Disconnect
  PROVE  CursorInv'
<1>1. up
  <2>1. listeners > 0 /\ up \in BOOLEAN
    BY DEF Disconnect, CursorInv, TypeOK
  <2> QED
    BY <2>1 DEF CursorInv, ProcessInv
<1>2. PICK S \in SUBSET Reconnector : BackOff(S) /\ \A s \in S : starts[s].pc = "idle"
  BY DEF Disconnect
<1>3. Fault
  BY DEF Disconnect
<1> QED
  BY <1>1, <1>2, <1>3, BackOffKeeps

LEMMA RecoverThrowsKeeps ==
  ASSUME CursorInv, NEW s \in Reconnector, RecoverThrows(s)
  PROVE  CursorInv'
<1>1. starts[s].pc = "head"
  BY DEF RecoverThrows
<1>2. up
  BY <1>1, StartIsUp DEF CursorInv
<1>3. CASE Fault /\ Die
  BY <1>3, DieKeeps
<1>4. CASE UNCHANGED faults /\ BackOff({s})
  BY <1>1, <1>2, <1>4, BackOffKeeps
<1> QED
  BY <1>3, <1>4 DEF RecoverThrows

\* A start at its beginning: no subscription, nothing in hand.
LEMMA BeginKeeps ==
  ASSUME CursorInv, NEW s \in Reconnector, NEW r \in Start,
         starts' = [starts EXCEPT ![s] = r], r.pc = "read", r.todo = <<>>, r.upTo = starts[s].upTo,
         starts[s].pc # "replay", listeners' = 0, up', attempts' \in 0 .. MaxReconnectAttempts,
         connected' \in BOOLEAN,
         UNCHANGED <<height, redisBlock, dbBlock, upserts, handlers, processed, excused, faults>>
  PROVE  CursorInv'
<1> USE DEF CursorInv
<1>1. /\ starts' \in [Reconnector -> Start] /\ starts'[s] = r
      /\ \A t \in Reconnector \ {s} : starts'[t] = starts[t]
  BY OtherStarts
<1>2. Accounted \subseteq Accounted'
  <2>1. ToReplay(s) = {}
    BY NothingToReplay
  <2>2. \A t \in Reconnector : ToReplay(t) \subseteq Accounted'
    BY <1>1, <2>1, ReplaySame
  <2> QED
    BY <2>2, AccountedStays
<1>3. Safe \subseteq Safe'
  BY <1>2, HeightIs, SafeStays
<1>4. (Recorded \ {None} \subseteq Safe)'
  BY <1>3, CursorUntouched DEF cursors
<1>5. TypeOK'
  <2>1. Mined' = Mined
    BY DEF Mined
  <2>2. \A t \in Reconnector : Range(starts'[t].todo) \subseteq Mined' /\ starts'[t].upTo <= height'
    BY <1>1, <2>1, EmptyRange DEF TypeOK
  <2>3. listeners' \in 0 .. Cardinality(Reconnector) /\ up' \in BOOLEAN
    BY SettledIs
  <2> QED
    BY <1>1, <2>1, <2>2, <2>3 DEF TypeOK
<1>6. StartInv'
  <2>1. StartOk(s)'
    BY <1>1, EmptyRange DEF StartOk
  <2> QED
    BY <1>1, <1>3, <2>1, StartsKept
<1>7. ProcessInv'
  BY SettledNext DEF ProcessInv
<1> QED
  BY <1>3, <1>4, <1>5, <1>6, <1>7, HandlersKept

LEMMA StartProcessKeeps ==
  ASSUME CursorInv, StartProcess
  PROVE  CursorInv'
<1> DEFINE r == [starts[Boot] EXCEPT !.pc = "read", !.main = TRUE]
<1>1. /\ ~ up /\ up' = TRUE /\ attempts' = 0 /\ listeners' = 0 /\ connected' = TRUE
      /\ starts' = [starts EXCEPT ![Boot] = r]
      /\ UNCHANGED <<height, redisBlock, dbBlock, upserts, handlers, processed, excused, faults>>
  BY DEF StartProcess, cursors
<1>2. Boot \in Reconnector /\ starts[Boot] = Idle
  BY <1>1, LimitAssumption DEF CursorInv, ProcessInv
<1>3. r \in Start /\ r.pc = "read" /\ r.todo = <<>> /\ r.upTo = starts[Boot].upTo
  BY <1>2, IdleIs DEF Start
<1>4. attempts' \in 0 .. MaxReconnectAttempts
  BY <1>1, Numbers
<1> HIDE DEF r
<1> QED
  BY <1>1, <1>2, <1>3, <1>4, IdleIs, BeginKeeps

LEMMA ReconnectKeeps ==
  ASSUME CursorInv, NEW s \in Reconnector, Reconnect(s)
  PROVE  CursorInv'
<1> DEFINE r == [starts[s] EXCEPT !.pc = "read"]
<1>1. /\ starts[s].pc = "backoff" /\ listeners' = 0 /\ connected' = TRUE
      /\ starts' = [starts EXCEPT ![s] = r]
      /\ UNCHANGED <<height, redisBlock, dbBlock, upserts, up, attempts, handlers, processed, excused, faults>>
  BY DEF Reconnect, cursors
<1>2. up
  BY <1>1, StartIsUp DEF CursorInv
<1>3. starts[s] \in Start /\ starts[s].todo = <<>>
  BY <1>1, StartIs DEF CursorInv, StartInv, StartOk
<1>4. r \in Start /\ r.pc = "read" /\ r.todo = <<>> /\ r.upTo = starts[s].upTo
  BY <1>3 DEF Start
<1>5. attempts' \in 0 .. MaxReconnectAttempts
  BY <1>1 DEF CursorInv, TypeOK
<1> HIDE DEF r
<1> QED
  BY <1>1, <1>2, <1>4, <1>5, BeginKeeps

-----------------------------------------------------------------------------
(* The theorems.                                                           *)

\* The invariant holds when the service is deployed, and no step breaks it.
THEOREM Invariance == Spec => []CursorInv
<1>1. Init => CursorInv
  <2> SUFFICES ASSUME Init PROVE CursorInv
    OBVIOUS
  <2>1. TypeOK
    <3>1. FirstHeight \in FirstHeight .. MaxHeight /\ FirstHeight \in Nat
      BY ChainAssumption
    <3>2. \A s \in Reconnector : Range(Idle.todo) \subseteq Mined /\ Idle.upTo <= height
      BY <3>1, IdleIs, EmptyRange DEF Init
    <3>3. 0 \in 0 .. MaxReconnectAttempts /\ 0 \in 0 .. MaxFaults /\ 0 \in 0 .. Cardinality(Reconnector)
      BY Numbers, SettledIs
    <3> QED
      BY <3>1, <3>2, <3>3, IdleIs DEF Init, TypeOK
  <2>2. Recorded \ {None} \subseteq Safe /\ \A h \in handlers : h.event \in Safe
    BY DEF Init, Recorded
  <2>3. StartInv
    BY IdleIs, EmptyRange DEF Init, StartInv, StartOk
  <2>4. ProcessInv
    BY SettledIs DEF Init, ProcessInv
  <2> QED
    BY <2>1, <2>2, <2>3, <2>4 DEF CursorInv, Init
<1>2. CursorInv /\ [Next]_vars => CursorInv'
  <2> SUFFICES ASSUME CursorInv, [Next]_vars PROVE CursorInv'
    OBVIOUS
  <2>1. CASE Mine \/ StartProcess \/ LoseRedis \/ Disconnect
    BY <2>1, MineKeeps, StartProcessKeeps, CopiesKeep, DisconnectKeeps
  <2>2. ASSUME NEW s \in Reconnector, Step(s) \/ RecoverThrows(s)
        PROVE  CursorInv'
    BY <2>2, GetLastProcessedBlockKeeps, RecoverFromCrashKeeps, ReplayBatchKeeps, ReplayEventKeeps,
       ReplayDoneKeeps, ListenKeeps, ReconnectKeeps, RecoverThrowsKeeps DEF Step
  <2>3. ASSUME NEW h \in handlers, Handle(h) \/ FailEvent(h)
        PROVE  CursorInv'
    BY <2>3, ProcessEventKeeps, FinishEventKeeps, FailEventKeeps DEF Handle
  <2>4. CASE \E b \in upserts : Upsert(b)
    BY <2>4, CopiesKeep
  <2>5. CASE Crash
    BY <2>5, DieKeeps DEF Crash
  <2>6. CASE UNCHANGED vars
    BY <2>6 DEF vars, cursors, process, CursorInv, TypeOK, Recorded, Safe, Accounted, InHand, ToReplay,
                Mined, StartInv, StartOk, ProcessInv, Settled
  <2> QED
    BY <2>1, <2>2, <2>3, <2>4, <2>5, <2>6 DEF Next
<1> QED
  BY <1>1, <1>2, PTL DEF Spec

\* Every variable keeps its type; there are never more subscriptions than
\* calls that could have made them.
THEOREM TypeCorrect == Spec => []TypeOK
BY Invariance, PTL DEF CursorInv

\* An event behind the cursor was processed, is in hand, or fell into a gap
\* of the code that the module names.
THEOREM NothingElseLost == Spec => []LossHasCause
<1>1. CursorInv => LossHasCause
  <2> SUFFICES ASSUME CursorInv, NEW e \in Mined, e <= Cursor
               PROVE  e \in processed \cup excused \cup InHand
    BY DEF LossHasCause
  <2>1. ~ (e <= 0)
    BY Numbers DEF Mined
  <2>2. CASE redisBlock # None
    <3>1. redisBlock \in Safe /\ e <= redisBlock
      BY <2>2 DEF CursorInv, Recorded, Cursor
    <3> QED
      BY <3>1 DEF Safe, Accounted
  <2>3. CASE redisBlock = None
    <3>1. dbBlock # None /\ e <= dbBlock
      BY <2>1, <2>3 DEF Cursor, InDb
    <3>2. dbBlock \in Safe
      BY <3>1 DEF CursorInv, Recorded
    <3> QED
      BY <3>1, <3>2 DEF Safe, Accounted
  <2> QED
    BY <2>2, <2>3
<1> QED
  BY <1>1, Invariance, PTL

\* The same of every place a later start may take up from, the copies not yet
\* written included: whichever of them is lost, the next start misses no
\* event but those.
THEOREM EveryCopyIsSafe == Spec => [](Recorded \ {None} \subseteq Safe)
BY Invariance, PTL DEF CursorInv

\* While the service listens, no event up to the head is missing but those: a
\* replay and the subscriptions of overlapping reconnects leave no other gap.
THEOREM ListeningMissesNothing ==
  Spec => [](listeners > 0 /\ connected => Mined \subseteq processed \cup excused \cup InHand)
<1>1. CursorInv => (listeners > 0 /\ connected => Mined \subseteq processed \cup excused \cup InHand)
  <2> SUFFICES ASSUME CursorInv, listeners > 0, connected, NEW e \in Mined
               PROVE  e \in Accounted
    BY DEF Accounted
  <2>1. height \in Safe /\ e <= height
    BY DEF CursorInv, Mined
  <2> QED
    BY <2>1 DEF Safe
<1> QED
  BY <1>1, Invariance, PTL
=============================================================================
