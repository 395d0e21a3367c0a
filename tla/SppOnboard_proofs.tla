-------------------------- MODULE SppOnboard_proofs --------------------------
(***************************************************************************)
(* What the set-up of a private account writes down is true: proofs about  *)
(* SppOnboard for any set of calls and deployments.                        *)
(***************************************************************************)
EXTENDS SppOnboard, TLAPS

Calls == [pc : Step, account : Account, seen : Account \cup {None}, full : BOOLEAN]

\* A mark is earned by what the chain has, or by an answer taken for success.
HasLeaf(d) == d \in leaves \/ <<"leaf", d>> \in assumed
HasKeys(d) == d \in published \/ <<"keys", d>> \in assumed
Earned(a) ==
  /\ a.inserted \in Deployment => HasLeaf(a.inserted)
  /\ a.keys \in Deployment => HasKeys(a.keys)

-----------------------------------------------------------------------------
(* The inductive invariant.                                                *)

\* Every copy of the record that a call holds is as true as the record.
CopiesEarned ==
  \A c \in Call : /\ Earned(calls[c].account)
                  /\ calls[c].seen # None => Earned(calls[c].seen)

\* A call about to write a mark has earned it.
MarksEarned ==
  \A c \in Call : /\ At(c, "mark") => HasLeaf(config)
                  /\ At(c, "markKeys") => HasKeys(config)

\* A transaction that is over succeeded, or its call was told that it failed.
WaitsEarned ==
  \A c \in Call :
    (At(c, "wait") /\ [call |-> c, of |-> config] \notin sent /\ c \notin failed) => HasLeaf(config)

\* Only the mark of another deployment is cleared.
ClearsStale ==
  \A c \in Call : At(c, "clear") => calls[c].account.inserted # config

IInv ==
  /\ TypeOK
  /\ InsertedIsOnChain
  /\ CopiesEarned
  /\ MarksEarned
  /\ WaitsEarned
  /\ ClearsStale

-----------------------------------------------------------------------------
(* What the helpers return.                                                *)

LEMMA MarkWritten ==
  ASSUME NEW a \in Account, NEW m \in Mark
  PROVE  /\ [a EXCEPT !.inserted = m] \in Account
         /\ [a EXCEPT !.inserted = m].inserted = m /\ [a EXCEPT !.inserted = m].keys = a.keys
         /\ [a EXCEPT !.keys = m] \in Account
         /\ [a EXCEPT !.keys = m].keys = m /\ [a EXCEPT !.keys = m].inserted = a.inserted
BY DEF Account

LEMMA FieldsAre ==
  ASSUME NEW pc \in DOMAIN Fields
  PROVE  /\ pc \in {"clear", "mark", "clearKeys", "markKeys"}
         /\ pc \in {"clear", "mark"} => Fields[pc] = "inserted"
         /\ pc \in {"clearKeys", "markKeys"} => Fields[pc] = "keys"
BY DEF Fields

LEMMA FieldWritten ==
  ASSUME NEW a \in Account, NEW m \in Mark, NEW pc \in DOMAIN Fields
  PROVE  /\ [a EXCEPT ![Fields[pc]] = m] \in Account
         /\ pc \in {"clear", "mark"} => [a EXCEPT ![Fields[pc]] = m] = [a EXCEPT !.inserted = m]
         /\ pc \in {"clearKeys", "markKeys"} => [a EXCEPT ![Fields[pc]] = m] = [a EXCEPT !.keys = m]
<1>1. CASE pc \in {"clear", "mark"}
  BY <1>1, FieldsAre DEF Account
<1>2. CASE pc \in {"clearKeys", "markKeys"}
  BY <1>2, FieldsAre DEF Account
<1>3. QED
  BY <1>1, <1>2, FieldsAre

-----------------------------------------------------------------------------
(* The moves of a call.                                                    *)

\* What a step of call c leaves of everything but its own place: a true
\* record, the same deployment, a chain that keeps what it has.
Keeps(c) ==
  /\ record' \in Account \cup {None} /\ (record' # None => Earned(record'))
  /\ UNCHANGED config
  /\ leaves \subseteq leaves' /\ leaves' \subseteq Deployment
  /\ published \subseteq published' /\ published' \subseteq Deployment
  /\ assumed \subseteq assumed' /\ assumed' \subseteq {"leaf", "keys"} \X Deployment
  /\ sent \subseteq sent' /\ sent' \subseteq [call : Call, of : Deployment]
  /\ failed' \in {failed, failed \ {c}}
  /\ UNCHANGED events
  /\ faults' \in 0 .. MaxFaults

\* A call may go where its marks are earned and its wait has an end.
LEMMA CallMoves ==
  ASSUME IInv, NEW c \in Call, NEW new \in Calls, Keeps(c),
         calls' = [calls EXCEPT ![c] = new],
         Earned(new.account), new.seen # None => Earned(new.seen),
         new.pc = "mark" => HasLeaf(config)', new.pc = "markKeys" => HasKeys(config)',
         new.pc = "wait" => [call |-> c, of |-> config] \in sent',
         new.pc = "clear" => new.account.inserted # config
  PROVE  IInv'
<1> USE DEF IInv
<1>1. /\ calls \in [Call -> Calls] /\ calls' \in [Call -> Calls]
      /\ calls'[c] = new /\ \A x \in Call : x # c => calls'[x] = calls[x]
  BY DEF TypeOK, Calls
<1>2. TypeOK'
  BY <1>1 DEF TypeOK, Keeps, Calls, events
<1>3. \A d : (HasLeaf(d) => HasLeaf(d)') /\ (HasKeys(d) => HasKeys(d)')
  BY DEF HasLeaf, HasKeys, Keeps
<1>4. \A a : Earned(a) => Earned(a)'
  BY <1>3 DEF Earned
<1>5. InsertedIsOnChain'
  <2>1. record' # None => Earned(record')
    BY DEF Keeps
  <2>2. QED
    BY <2>1 DEF InsertedIsOnChain, Earned, HasLeaf, HasKeys, Keeps
<1>6. CopiesEarned'
  <2>1. \A x \in Call : /\ Earned(calls'[x].account)
                        /\ calls'[x].seen # None => Earned(calls'[x].seen)
    BY <1>1 DEF CopiesEarned
  <2>2. QED
    BY <2>1, <1>3 DEF CopiesEarned, Earned
<1>7. MarksEarned'
  BY <1>1, <1>3 DEF MarksEarned, At, Keeps
<1>8. WaitsEarned'
  BY <1>1, <1>3 DEF WaitsEarned, At, Keeps
<1>9. ClearsStale'
  BY <1>1 DEF ClearsStale, At, Keeps
<1>10. QED
  BY <1>2, <1>5, <1>6, <1>7, <1>8, <1>9

LEMMA GotoMoves ==
  ASSUME IInv, NEW c \in Call, NEW pc \in Step \ {"clear"}, Keeps(c), Goto(c, pc),
         pc = "mark" => HasLeaf(config)', pc = "markKeys" => HasKeys(config)',
         pc = "wait" => [call |-> c, of |-> config] \in sent'
  PROVE  IInv'
<1> DEFINE new == [calls[c] EXCEPT !.pc = pc]
<1>1. calls[c] \in Calls /\ calls \in [Call -> Calls]
  BY DEF IInv, TypeOK, Calls
<1>2. /\ new \in Calls /\ new.pc = pc
      /\ new.account = calls[c].account /\ new.seen = calls[c].seen
      /\ calls' = [calls EXCEPT ![c] = new]
  BY <1>1 DEF Calls, Goto
<1>3. Earned(new.account) /\ (new.seen # None => Earned(new.seen))
  BY <1>2 DEF IInv, CopiesEarned
<1> HIDE DEF new
<1>4. QED
  BY <1>2, <1>3, CallMoves

LEMMA AwaitMoves ==
  ASSUME IInv, NEW c \in Call, NEW pc \in Step \ {"wait"}, NEW a \in Account,
         Keeps(c), Await(c, pc, a), Earned(a),
         pc = "mark" => HasLeaf(config)', pc = "markKeys" => HasKeys(config)',
         pc = "clear" => a.inserted # config
  PROVE  IInv'
<1> DEFINE new == [calls[c] EXCEPT !.pc = pc, !.account = a, !.seen = None]
<1>1. calls[c] \in Calls /\ calls \in [Call -> Calls]
  BY DEF IInv, TypeOK, Calls
<1>2. /\ new \in Calls /\ new.pc = pc /\ new.account = a /\ new.seen = None
      /\ calls' = [calls EXCEPT ![c] = new]
  BY <1>1 DEF Calls, Await
<1> HIDE DEF new
<1>3. QED
  BY <1>2, CallMoves

LEMMA NoAccountEarned == NoAccount \in Account /\ Earned(NoAccount) /\ NoAccount.inserted = None
BY OnboardAssumption DEF NoAccount, Account, Mark, Earned

LEMMA EndMoves ==
  ASSUME IInv, NEW c \in Call, Keeps(c), End(c)
  PROVE  IInv'
<1>1. Idle \in Calls /\ Idle.pc = "idle" /\ Idle.account = NoAccount /\ Idle.seen = None
  BY NoAccountEarned DEF Idle, Calls, Step
<1>2. calls' = [calls EXCEPT ![c] = Idle]
  BY DEF End
<1>3. QED
  BY <1>1, <1>2, NoAccountEarned, CallMoves

-----------------------------------------------------------------------------
(* Every step preserves the invariant.                                     *)

LEMMA InitInv == Init => IInv
<1> SUFFICES ASSUME Init PROVE IInv
  OBVIOUS
<1>1. Idle \in Calls /\ Idle.pc = "idle" /\ Idle.account = NoAccount /\ Idle.seen = None
  BY NoAccountEarned DEF Idle, Calls, Step
<1>2. record # None => record \in Account /\ {record.inserted, record.keys} \cap Deployment = {}
  <2>1. NoAccount \in Account /\ NoAccount.inserted = None /\ NoAccount.keys = None
    BY DEF NoAccount, Account, Mark
  <2>2. LET a == [NoAccount EXCEPT !.signed = TRUE]
        IN a \in Account /\ a.inserted = None /\ a.keys = None
    BY <2>1 DEF Account
  <2>3. LET a == [signed |-> TRUE, leaf |-> TRUE, inserted |-> Legacy, keys |-> Legacy]
        IN a \in Account /\ a.inserted = Legacy /\ a.keys = Legacy
    BY DEF Account, Mark
  <2>4. QED
    BY <2>2, <2>3, OnboardAssumption DEF Init
<1>3. TypeOK
  BY <1>1, <1>2, OnboardAssumption DEF TypeOK, Init, Calls
<1>4. InsertedIsOnChain /\ CopiesEarned
  BY <1>1, <1>2, NoAccountEarned DEF Init, InsertedIsOnChain, CopiesEarned
<1>5. MarksEarned /\ WaitsEarned /\ ClearsStale
  BY <1>1 DEF Init, MarksEarned, WaitsEarned, ClearsStale, At
<1>6. QED
  BY <1>3, <1>4, <1>5 DEF IInv

\* The steps that leave the chain alone keep what it has.
LEMMA QuietKeeps ==
  ASSUME IInv, NEW c \in Call, UNCHANGED <<config, chain>>,
         assumed' = assumed \/ \E m \in {"leaf", "keys"} : assumed' = assumed \cup {<<m, config>>},
         UNCHANGED faults \/ Fault,
         record' \in Account \cup {None}, record' # None => Earned(record')
  PROVE  Keeps(c)
<1>1. TypeOK
  BY DEF IInv
<1>2. faults' \in 0 .. MaxFaults
  BY <1>1, OnboardAssumption DEF TypeOK, Fault
<1>3. QED
  BY <1>1, <1>2 DEF Keeps, chain, events, TypeOK

LEMMA RecordEarned ==
  ASSUME IInv
  PROVE  record \in Account \cup {None} /\ (record # None => Earned(record))
BY DEF IInv, TypeOK, InsertedIsOnChain, Earned, HasLeaf, HasKeys

LEMMA StillKeeps ==
  ASSUME IInv, NEW c \in Call, UNCHANGED <<record, config, chain, assumed>>, UNCHANGED faults \/ Fault
  PROVE  Keeps(c)
BY QuietKeeps, RecordEarned

LEMMA PlaceOf ==
  ASSUME IInv, NEW c \in Call
  PROVE  /\ calls[c] \in Calls
         /\ calls[c].account \in Account /\ Earned(calls[c].account)
         /\ calls[c].seen # None => calls[c].seen \in Account /\ Earned(calls[c].seen)
BY DEF IInv, TypeOK, CopiesEarned, Calls

\* A call goes to clear only a mark of another deployment.
LEMMA NextPlaces ==
  ASSUME NEW a \in Account
  PROVE  /\ AfterKeys(a) \in {"sign", "insert", "register"}
         /\ FirstStep(a) \in {"clear", "clearKeys", "sign", "insert", "register"}
         /\ FirstStep(a) = "clear" => a.inserted # config
BY DEF AfterKeys, FirstStep, Stale

LEMMA EnsurePreserves ==
  ASSUME IInv, NEW c \in Call, Ensure(c)
  PROVE  IInv'
<1> DEFINE a == IF record = None THEN NoAccount ELSE record
<1>1. a \in Account /\ Earned(a)
  BY RecordEarned, NoAccountEarned
<1> DEFINE new == [pc |-> FirstStep(a), account |-> a, seen |-> None, full |-> ~ a.signed]
<1>2. a.signed \in BOOLEAN
  BY <1>1 DEF Account
<1>3. /\ new \in Calls /\ new.account = a /\ new.seen = None
      /\ new.pc \in {"clear", "clearKeys", "sign", "insert", "register"}
      /\ new.pc = "clear" => a.inserted # config
  BY <1>1, <1>2, NextPlaces DEF Calls, Step
<1>4. calls' = [calls EXCEPT ![c] = new]
  BY DEF Ensure
<1>5. Keeps(c)
  BY StillKeeps DEF Ensure
<1> HIDE DEF a, new
<1>6. QED
  BY <1>1, <1>3, <1>4, <1>5, CallMoves

LEMMA ReadRecordPreserves ==
  ASSUME IInv, NEW c \in Call, ReadRecord(c)
  PROVE  IInv'
<1> DEFINE a == IF record = None THEN NoAccount ELSE record
           new == [calls[c] EXCEPT !.seen = a]
<1>1. a \in Account /\ Earned(a)
  BY RecordEarned, NoAccountEarned
<1>2. /\ new \in Calls /\ new.pc = calls[c].pc /\ new.account = calls[c].account /\ new.seen = a
      /\ calls' = [calls EXCEPT ![c] = new]
  BY <1>1, PlaceOf DEF Calls, ReadRecord
<1>3. Keeps(c)
  BY StillKeeps DEF ReadRecord
<1>4. /\ calls[c].pc \in DOMAIN Fields \cup {"derive"}
      /\ calls[c].pc = "clear" => calls[c].account.inserted # config
      /\ calls[c].pc = "mark" => HasLeaf(config)
      /\ calls[c].pc = "markKeys" => HasKeys(config)
  BY DEF ReadRecord, IInv, ClearsStale, MarksEarned, At
<1>5. (HasLeaf(config) => HasLeaf(config)') /\ (HasKeys(config) => HasKeys(config)')
  BY DEF ReadRecord, HasLeaf, HasKeys, chain
<1>6. calls[c].pc # "wait"
  BY <1>4, FieldsAre
<1> HIDE DEF a, new
<1>7. QED
  BY <1>1, <1>2, <1>3, <1>4, <1>5, <1>6, PlaceOf, CallMoves

\* What WriteMark writes is earned: the mark of a call that has earned it, or
\* none, over an earned copy.
LEMMA WrittenEarned ==
  ASSUME IInv, NEW c \in Call, calls[c].pc \in DOMAIN Fields, calls[c].seen # None,
         NEW value, value = IF calls[c].pc \in {"mark", "markKeys"} THEN config ELSE None
  PROVE  LET a == [calls[c].seen EXCEPT ![Fields[calls[c].pc]] = value]
         IN a \in Account /\ Earned(a)
<1>1. PICK pc \in DOMAIN Fields, seen \in Account :
        pc = calls[c].pc /\ seen = calls[c].seen /\ Earned(seen)
  BY PlaceOf
<1>2. value \in Mark /\ (pc \notin {"mark", "markKeys"} => value \notin Deployment)
  BY <1>1, OnboardAssumption DEF IInv, TypeOK, Mark
<1>3. (pc = "mark" => HasLeaf(config) /\ value = config) /\ (pc = "markKeys" => HasKeys(config) /\ value = config)
  BY <1>1 DEF IInv, MarksEarned, At
<1>4. CASE pc \in {"clear", "mark"}
  <2> DEFINE a == [seen EXCEPT !.inserted = value]
  <2>1. a \in Account /\ a.inserted = value /\ a.keys = seen.keys
    BY <1>2, MarkWritten
  <2>2. [seen EXCEPT ![Fields[pc]] = value] = a
    <3>1. Fields[pc] = "inserted"
      BY <1>4, FieldsAre
    <3>2. QED
      BY <3>1
  <2> HIDE DEF a
  <2>3. Earned(a)
    BY <1>1, <1>2, <1>3, <1>4, <2>1 DEF Earned
  <2>4. QED
    BY <1>1, <2>1, <2>2, <2>3
<1>5. CASE pc \in {"clearKeys", "markKeys"}
  <2> DEFINE a == [seen EXCEPT !.keys = value]
  <2>1. a \in Account /\ a.keys = value /\ a.inserted = seen.inserted
    BY <1>2, MarkWritten
  <2>2. [seen EXCEPT ![Fields[pc]] = value] = a
    <3>1. Fields[pc] = "keys"
      BY <1>5, FieldsAre
    <3>2. QED
      BY <3>1
  <2> HIDE DEF a
  <2>3. Earned(a)
    BY <1>1, <1>2, <1>3, <1>5, <2>1 DEF Earned
  <2>4. QED
    BY <1>1, <2>1, <2>2, <2>3
<1>6. QED
  BY <1>4, <1>5, FieldsAre

LEMMA WriteMarkPreserves ==
  ASSUME IInv, NEW c \in Call, WriteMark(c)
  PROVE  IInv'
<1>1. PICK value : value = IF calls[c].pc \in {"mark", "markKeys"} THEN config ELSE None
  OBVIOUS
<1> DEFINE a == [calls[c].seen EXCEPT ![Fields[calls[c].pc]] = value]
<1>2. a \in Account /\ Earned(a)
  BY <1>1, WrittenEarned DEF WriteMark
<1>3. /\ calls[c].pc \in DOMAIN Fields /\ record' = a
      /\ CASE calls[c].pc = "clear" -> Await(c, IF Stale(a.keys) THEN "clearKeys" ELSE AfterKeys(a), a)
           [] calls[c].pc = "clearKeys" -> Await(c, AfterKeys(a), a)
           [] calls[c].pc = "mark" -> Await(c, "register", a)
           [] calls[c].pc = "markKeys" -> End(c)
      /\ UNCHANGED <<config, chain, assumed, faults>>
  BY <1>1 DEF WriteMark
<1> HIDE DEF a
<1>4. Keeps(c)
  BY <1>2, <1>3, QuietKeeps
<1>5. End(c) \/ \E pc \in {"clearKeys", "sign", "insert", "register"} : Await(c, pc, a)
  <2>1. calls[c].pc \in {"clear", "mark", "clearKeys", "markKeys"}
    BY <1>3, FieldsAre
  <2>2. AfterKeys(a) \in {"sign", "insert", "register"}
    BY <1>2, NextPlaces
  <2>3. QED
    BY <1>3, <2>1, <2>2
<1>6. QED
  BY <1>2, <1>4, <1>5, EndMoves, AwaitMoves DEF Step

LEMMA SignPreserves ==
  ASSUME IInv, NEW c \in Call, Sign(c)
  PROVE  IInv'
<1>1. Keeps(c) /\ Await(c, "derive", calls[c].account)
  BY StillKeeps DEF Sign
<1>2. QED
  BY <1>1, PlaceOf, AwaitMoves DEF Step

LEMMA DerivedEarned ==
  ASSUME NEW a \in Account, Earned(a), NEW b \in {[a EXCEPT !.signed = TRUE],
                                                 [a EXCEPT !.signed = TRUE, !.leaf = TRUE]}
  PROVE  b \in Account /\ Earned(b) /\ b.inserted = a.inserted
<1>1. b \in Account /\ b.inserted = a.inserted /\ b.keys = a.keys
  BY DEF Account
<1>2. QED
  BY <1>1 DEF Earned

LEMMA AfterDeriveIs ==
  ASSUME NEW c \in Call, NEW a \in Account
  PROVE  AfterDerive(c, a) \in {"sign", "insert", "register"}
BY NextPlaces DEF AfterDerive

LEMMA DerivePreserves ==
  ASSUME IInv, NEW c \in Call, Derive(c) \/ DeriveNothing(c)
  PROVE  IInv'
<1>1. calls[c].seen \in Account /\ Earned(calls[c].seen)
  BY PlaceOf DEF Derive, DeriveNothing
<1>2. /\ record' \in {[calls[c].seen EXCEPT !.signed = TRUE],
                      [calls[c].seen EXCEPT !.signed = TRUE, !.leaf = TRUE]}
      /\ Await(c, AfterDerive(c, record'), record') \/ End(c)
      /\ UNCHANGED <<config, chain, assumed>> /\ (UNCHANGED faults \/ Fault)
  BY DEF Derive, DeriveNothing
<1>3. PICK b \in Account : record' = b /\ Earned(b)
  BY <1>1, <1>2, DerivedEarned
<1>4. Keeps(c)
  BY <1>2, <1>3, QuietKeeps
<1>5. QED
  BY <1>2, <1>3, <1>4, AfterDeriveIs, EndMoves, AwaitMoves DEF Step

\* A failed insertion publishes the keys all the same, or ends.
LEMMA InsertFailedMoves ==
  ASSUME IInv, NEW c \in Call, Keeps(c), InsertFailed(c)
  PROVE  IInv'
BY PlaceOf, AwaitMoves, EndMoves DEF InsertFailed, Step

LEMMA ConfirmedMoves ==
  ASSUME IInv, NEW c \in Call, Keeps(c), Confirmed(c)
  PROVE  IInv'
<1>1. CASE LeafSeen
  <2>1. HasLeaf(config)'
    BY <1>1 DEF LeafSeen, HasLeaf, Keeps
  <2>2. Await(c, "mark", calls[c].account)
    BY <1>1 DEF Confirmed
  <2>3. QED
    BY <2>1, <2>2, PlaceOf, AwaitMoves DEF Step
<1>2. CASE ~ LeafSeen
  BY <1>2, InsertFailedMoves DEF Confirmed
<1>3. QED
  BY <1>1, <1>2

LEMMA FindPreserves ==
  ASSUME IInv, NEW c \in Call, InsertLeaf(c) \/ FindLeaf(c) \/ FindFails(c)
  PROVE  IInv'
<1>1. Keeps(c)
  BY StillKeeps DEF InsertLeaf, FindLeaf, FindFails
<1>2. CASE FindLeaf(c) /\ LeafSeen
  <2>1. Await(c, "mark", calls[c].account) /\ HasLeaf(config)'
    BY <1>1, <1>2 DEF FindLeaf, LeafSeen, HasLeaf, Keeps
  <2>2. QED
    BY <1>1, <2>1, PlaceOf, AwaitMoves DEF Step
<1>3. CASE ~ (FindLeaf(c) /\ LeafSeen)
  <2>1. \E pc \in {"register", "find", "submit"} : Goto(c, pc)
    BY <1>3 DEF InsertLeaf, FindLeaf, FindFails
  <2>2. QED
    BY <1>1, <2>1, GotoMoves DEF Step
<1>4. QED
  BY <1>2, <1>3

LEMMA SubmitPreserves ==
  ASSUME IInv, NEW c \in Call,
         SubmitTraps(c) \/ SubmitInsertLeaf(c) \/ SubmitUnconfirmed(c)
  PROVE  IInv'
<1>1. CASE SubmitTraps(c)
  BY <1>1, StillKeeps, ConfirmedMoves DEF SubmitTraps
<1>2. CASE SubmitInsertLeaf(c)
  <2>1. TypeOK
    BY DEF IInv
  <2>2. Keeps(c)
    BY <1>2, <2>1, RecordEarned DEF Keeps, SubmitInsertLeaf, TypeOK
  <2>3. Goto(c, "wait") /\ [call |-> c, of |-> config] \in sent'
    BY <1>2 DEF SubmitInsertLeaf
  <2>4. QED
    BY <2>2, <2>3, GotoMoves DEF Step, SubmitInsertLeaf
<1>3. CASE SubmitUnconfirmed(c)
  <2>1. Keeps(c)
    BY <1>3, QuietKeeps, RecordEarned DEF SubmitUnconfirmed
  <2>2. Await(c, "mark", calls[c].account) /\ HasLeaf(config)'
    BY <1>3 DEF SubmitUnconfirmed, HasLeaf
  <2>3. QED
    BY <2>1, <2>2, PlaceOf, AwaitMoves DEF Step
<1>4. QED
  BY <1>1, <1>2, <1>3

\* A wait that ends unfailed has seen the transaction over, and so the leaf.
LEMMA WaitPreserves ==
  ASSUME IInv, NEW c \in Call, WaitEnds(c) \/ WaitTimesOut(c)
  PROVE  IInv'
<1>1. CASE WaitEnds(c)
  <2>1. TypeOK
    BY DEF IInv
  <2>2. Keeps(c)
    BY <1>1, <2>1, RecordEarned DEF Keeps, WaitEnds, TypeOK
  <2>3. c \notin failed => HasLeaf(config)'
    BY <1>1 DEF WaitEnds, IInv, WaitsEarned, HasLeaf
  <2>4. CASE c \in failed
    BY <1>1, <2>2, <2>4, ConfirmedMoves DEF WaitEnds
  <2>5. CASE c \notin failed
    BY <1>1, <2>2, <2>3, <2>5, PlaceOf, AwaitMoves DEF WaitEnds, Step
  <2>6. QED
    BY <2>4, <2>5
<1>2. CASE WaitTimesOut(c)
  <2>1. Keeps(c)
    BY <1>2, QuietKeeps, RecordEarned DEF WaitTimesOut
  <2>2. Await(c, "mark", calls[c].account) /\ HasLeaf(config)'
    BY <1>2 DEF WaitTimesOut, HasLeaf
  <2>3. QED
    BY <2>1, <2>2, PlaceOf, AwaitMoves DEF Step
<1>3. QED
  BY <1>1, <1>2

LEMMA RegisterPreserves ==
  ASSUME IInv, NEW c \in Call, Register(c) \/ RegisterUnconfirmed(c)
  PROVE  IInv'
<1>1. TypeOK
  BY DEF IInv
<1>2. Keeps(c)
  <2>1. faults' \in 0 .. MaxFaults
    BY <1>1, OnboardAssumption DEF Register, RegisterUnconfirmed, TypeOK, Fault
  <2>2. published \subseteq published' /\ published' \subseteq Deployment
    BY <1>1 DEF Register, RegisterUnconfirmed, TypeOK
  <2>3. QED
    BY <1>1, <2>1, <2>2, RecordEarned DEF Keeps, Register, RegisterUnconfirmed, TypeOK
<1>3. End(c) \/ (Await(c, "markKeys", calls[c].account) /\ HasKeys(config)')
  BY DEF Register, RegisterUnconfirmed, HasKeys
<1>4. QED
  BY <1>2, <1>3, PlaceOf, EndMoves, AwaitMoves DEF Step

LEMMA FailsPreserves ==
  ASSUME IInv, NEW c \in Call, Fails(c)
  PROVE  IInv'
BY StillKeeps, EndMoves, InsertFailedMoves DEF Fails

\* The call that waits is told when its transaction leaves without success.
LEMMA ChainPreserves ==
  ASSUME IInv, NEW x \in sent, Land(x) \/ LandCut(x) \/ Drop(x)
  PROVE  IInv'
<1>1. TypeOK
  BY DEF IInv
<1>2. /\ x.call \in Call /\ x.of \in Deployment
      /\ x = [call |-> x.call, of |-> x.of]
  BY <1>1 DEF TypeOK
<1>3. /\ UNCHANGED <<record, config, calls, published, assumed>>
      /\ sent' = sent \ {x} /\ failed' \in {failed, Told(x)}
      /\ leaves' = leaves \cup {x.of} \/ (leaves' = leaves /\ failed' = Told(x))
      /\ faults' \in 0 .. MaxFaults
  BY <1>1, OnboardAssumption DEF Land, LandCut, Runs, Drop, TypeOK, Fault
<1>4. failed \subseteq failed' /\ failed' \subseteq Call
  BY <1>1, <1>2, <1>3 DEF Told, TypeOK
<1>5. leaves \subseteq leaves' /\ leaves' \subseteq Deployment
  BY <1>1, <1>2, <1>3 DEF TypeOK
<1>6. TypeOK'
  <2>1. retained' = retained /\ skipped' \subseteq Deployment
    BY <1>1, <1>2 DEF Land, LandCut, Runs, Drop, events, TypeOK
  <2>2. QED
    BY <1>1, <1>3, <1>4, <1>5, <2>1 DEF TypeOK
<1>7. \A d : (HasLeaf(d) => HasLeaf(d)') /\ (HasKeys(d) => HasKeys(d)')
  BY <1>3, <1>5 DEF HasLeaf, HasKeys
<1>8. InsertedIsOnChain' /\ CopiesEarned'
  BY <1>3, <1>7 DEF IInv, InsertedIsOnChain, CopiesEarned, Earned, HasLeaf, HasKeys
<1>9. MarksEarned' /\ ClearsStale'
  BY <1>3, <1>7 DEF IInv, MarksEarned, ClearsStale, At
<1>10. WaitsEarned'
  <2> SUFFICES ASSUME NEW c \in Call, At(c, "wait"), [call |-> c, of |-> config] \notin sent',
                      c \notin failed'
               PROVE  HasLeaf(config)'
    BY <1>3 DEF WaitsEarned, At
  <2>1. CASE [call |-> c, of |-> config] \notin sent
    <3>1. HasLeaf(config)
      BY <2>1, <1>4 DEF IInv, WaitsEarned
    <3>2. QED
      BY <3>1, <1>3, <1>5 DEF HasLeaf
  <2>2. CASE [call |-> c, of |-> config] = x
    <3>1. x.call = c /\ x.of = config
      BY <2>2
    <3>2. Told(x) = failed \cup {c}
      BY <3>1 DEF Told
    <3>3. config \in leaves'
      BY <1>3, <3>1, <3>2
    <3>4. QED
      BY <1>3, <3>3 DEF HasLeaf
  <2>3. QED
    BY <1>3, <2>1, <2>2
<1>11. QED
  BY <1>6, <1>8, <1>9, <1>10 DEF IInv

LEMMA AgePreserves == IInv /\ Age => IInv'
BY DEF Age, IInv, TypeOK, InsertedIsOnChain, CopiesEarned, Earned, HasLeaf, HasKeys,
       MarksEarned, WaitsEarned, ClearsStale, At

LEMMA RestartPreserves ==
  ASSUME IInv, NEW d \in Deployment, Restart(d)
  PROVE  IInv'
<1>1. TypeOK
  BY DEF IInv
<1>2. Idle \in Calls /\ Idle.pc = "idle" /\ Idle.account = NoAccount /\ Idle.seen = None
  BY NoAccountEarned DEF Idle, Calls, Step
<1>3. calls' \in [Call -> Calls] /\ \A c \in Call : calls'[c] = Idle
  BY <1>2 DEF Restart
<1>4. TypeOK'
  BY <1>1, <1>3, OnboardAssumption DEF TypeOK, Restart, Fault, Calls, events
<1>5. InsertedIsOnChain'
  BY DEF IInv, InsertedIsOnChain, Restart
<1>6. CopiesEarned'
  <2>1. Earned(NoAccount)'
    BY NoAccountEarned, OnboardAssumption DEF NoAccount, Earned, Mark
  <2>2. QED
    BY <1>2, <1>3, <2>1 DEF CopiesEarned, Earned
<1>7. MarksEarned' /\ WaitsEarned' /\ ClearsStale'
  BY <1>2, <1>3 DEF MarksEarned, WaitsEarned, ClearsStale, At
<1>8. QED
  BY <1>4, <1>5, <1>6, <1>7 DEF IInv

LEMMA StutterPreserves == IInv /\ UNCHANGED vars => IInv'
BY DEF vars, chain, events, IInv, TypeOK, InsertedIsOnChain, CopiesEarned, Earned, HasLeaf, HasKeys,
       MarksEarned, WaitsEarned, ClearsStale, At

LEMMA NextPreserves == IInv /\ [Next]_vars => IInv'
<1> SUFFICES ASSUME IInv, [Next]_vars PROVE IInv'
  OBVIOUS
<1>1. ASSUME NEW c \in Call, Ensure(c) PROVE IInv'
  BY <1>1, EnsurePreserves
<1>2. ASSUME NEW c \in Call, CallStep(c) PROVE IInv'
  BY <1>2, ReadRecordPreserves, WriteMarkPreserves, SignPreserves, DerivePreserves, FindPreserves,
     SubmitPreserves, WaitPreserves, RegisterPreserves DEF CallStep
<1>3. ASSUME NEW c \in Call, \/ DeriveNothing(c) \/ FindFails(c) \/ SubmitUnconfirmed(c)
                             \/ WaitTimesOut(c) \/ RegisterUnconfirmed(c) \/ Fails(c)
      PROVE  IInv'
  BY <1>3, DerivePreserves, FindPreserves, SubmitPreserves, WaitPreserves, RegisterPreserves, FailsPreserves
<1>4. ASSUME NEW x \in sent, Land(x) \/ LandCut(x) \/ Drop(x) PROVE IInv'
  BY <1>4, ChainPreserves
<1>5. ASSUME NEW d \in Deployment, Restart(d) PROVE IInv'
  BY <1>5, RestartPreserves
<1>6. CASE Age
  BY <1>6, AgePreserves
<1>7. CASE UNCHANGED vars
  BY <1>7, StutterPreserves
<1>8. QED
  BY <1>1, <1>2, <1>3, <1>4, <1>5, <1>6, <1>7 DEF Next

-----------------------------------------------------------------------------
(* The theorems.                                                           *)

\* The inductive invariant holds in every behaviour.
THEOREM Invariance == Spec => []IInv
<1>1. IInv /\ [Next]_vars => IInv'
  BY NextPreserves
<1>2. QED
  BY InitInv, <1>1, PTL DEF Spec

\* Every variable keeps its type.
THEOREM TypeCorrect == Spec => []TypeOK
<1>1. IInv => TypeOK
  BY DEF IInv
<1>2. QED
  BY <1>1, Invariance, PTL

\* The record in SecureStore never names a contract that lacks the leaf, or a
\* registry that lacks the keys, unless a call took one of the answers that
\* confirm nothing for a success: a duplicate, a transaction put off or not
\* found in twenty polls, a simulation error that reads like "already there".
\* For any number of set-ups at a time, deployments, traps, lost events,
\* failures, restarts and updates (utils/stellarSpp/sppOnboard.ts).
THEOREM InsertedTruly == Spec => []InsertedIsOnChain
<1>1. IInv => InsertedIsOnChain
  BY DEF IInv
<1>2. QED
  BY <1>1, Invariance, PTL

-----------------------------------------------------------------------------
(* The step that takes a mark away.                                        *)

\* Taken before the mark was there: the copy read, or the account held.
Outdated(c) ==
  \/ calls[c].seen # None /\ calls[c].seen.inserted # config
  \/ calls[c].account.inserted # config

LEMMA WriteMarkOutdated ==
  ASSUME IInv, NEW c \in Call, WriteMark(c), record'.inserted # config
  PROVE  Outdated(c)
<1>1. PICK pc \in DOMAIN Fields, seen \in Account : pc = calls[c].pc /\ seen = calls[c].seen
  BY PlaceOf DEF WriteMark
<1>2. PICK value : /\ value = IF pc \in {"mark", "markKeys"} THEN config ELSE None
                   /\ record' = [seen EXCEPT ![Fields[pc]] = value]
  BY <1>1 DEF WriteMark
<1>3. value \in Mark
  BY <1>2 DEF IInv, TypeOK, Mark
<1>4. CASE pc \in {"clear", "mark"}
  <2>1. record'.inserted = value
    <3>1. [seen EXCEPT ![Fields[pc]] = value] = [seen EXCEPT !.inserted = value]
      <4>1. Fields[pc] = "inserted"
        BY <1>4, FieldsAre
      <4>2. QED
        BY <4>1
    <3>2. [seen EXCEPT !.inserted = value].inserted = value
      BY <1>3, MarkWritten
    <3>3. QED
      BY <1>2, <3>1, <3>2
  <2>2. pc = "clear"
    BY <1>2, <1>4, <2>1
  <2>3. QED
    BY <1>1, <2>2 DEF IInv, ClearsStale, At, Outdated
<1>5. CASE pc \in {"clearKeys", "markKeys"}
  <2>1. record'.inserted = seen.inserted
    <3>1. [seen EXCEPT ![Fields[pc]] = value] = [seen EXCEPT !.keys = value]
      <4>1. Fields[pc] = "keys"
        BY <1>5, FieldsAre
      <4>2. QED
        BY <4>1
    <3>2. [seen EXCEPT !.keys = value].inserted = seen.inserted
      BY <1>3, MarkWritten
    <3>3. QED
      BY <1>2, <3>1, <3>2
  <2>2. QED
    BY <1>1, <2>1 DEF Outdated, WriteMark
<1>6. QED
  BY <1>4, <1>5, FieldsAre

LEMMA DeriveOutdated ==
  ASSUME IInv, NEW c \in Call, Derive(c) \/ DeriveNothing(c), record'.inserted # config
  PROVE  Outdated(c)
<1>1. /\ calls[c].seen \in Account /\ Earned(calls[c].seen) /\ calls[c].seen # None
      /\ record' \in {[calls[c].seen EXCEPT !.signed = TRUE],
                      [calls[c].seen EXCEPT !.signed = TRUE, !.leaf = TRUE]}
  BY PlaceOf DEF Derive, DeriveNothing
<1>2. record'.inserted = calls[c].seen.inserted
  BY <1>1, DerivedEarned
<1>3. QED
  BY <1>1, <1>2 DEF Outdated

\* A step takes the mark of the current contract away only with an account
\* read, or a decision taken, before the mark was there; no failure, restart
\* or step of the chain does (stores/sppAccountStore.ts).
THEOREM MarkOutlivesCalls == Spec => MarkStays
<1> DEFINE MarkGone == record # None /\ record.inserted = config /\ record'.inserted # config /\ config' = config
           MarkStep == MarkGone => \E c \in Call : \/ calls[c].seen # None /\ calls[c].seen.inserted # config
                                                   \/ calls[c].account.inserted # config
<1>1. IInv /\ [Next]_vars => MarkStep
  <2> SUFFICES ASSUME IInv, [Next]_vars, MarkGone
               PROVE  \E c \in Call : Outdated(c)
    BY DEF Outdated
  <2>1. record' # record
    OBVIOUS
  <2>2. \E c \in Call : WriteMark(c) \/ Derive(c) \/ DeriveNothing(c)
    BY <2>1 DEF Next, vars, chain, events, Ensure, CallStep, ReadRecord, Sign, InsertLeaf, FindLeaf, SubmitTraps,
       SubmitInsertLeaf, SubmitUnconfirmed, WaitEnds, Register, FindFails, WaitTimesOut,
       RegisterUnconfirmed, Fails, Runs, Land, LandCut, Drop, Age, Restart
  <2>3. QED
    BY <2>2, WriteMarkOutdated, DeriveOutdated
<1>2. IInv /\ [Next]_vars => [MarkStep]_vars
  BY <1>1
<1>3. QED
  BY Invariance, <1>2, PTL DEF Spec, MarkStays
=============================================================================
