-------------------------- MODULE SppSession_proofs --------------------------
(***************************************************************************)
(* The shared session for every set of calls and chains: a call that was   *)
(* not disturbed works on the session it opened, and no payment goes out   *)
(* twice or unnoticed.                                                     *)
(***************************************************************************)
EXTENDS SppSession, TLAPS

\* A call under way has named its chain.
ChainNamed == \A c \in Call : Running(c) => calls[c].chain \in Chain

\* Only a recovery syncs again and reads the balance.
StepOfKind == \A c \in Call : calls[c].pc \in {"again", "balance"} => calls[c].kind = "recovery"

\* What the app gives up and leaves running is never a payment.
LateIsBounded == \A j \in late : j.do \in Bounded

\* The inductive invariant.  A job given up may still take the session away
\* from everyone, so OwnSession needs the types and the chain of its caller;
\* PaymentsAccounted needs that no job given up is a payment, and that a call
\* answered without one is no payment.
IInv == TypeOK /\ ChainNamed /\ StepOfKind /\ LateIsBounded /\ OwnSession /\ PaymentsAccounted

Sessions == [chain : Chain, url : Url, synced : BOOLEAN]
CallState ==
  [pc : {"idle", "select", "notes"} \cup Native \cup Ended, kind : Kind, chain : Chain \cup {None},
   url : Url, round : 1 .. 2, disturbed : BOOLEAN, why : Why]
Jobs == [by : Call, do : Native, chain : Chain, url : Url]

-----------------------------------------------------------------------------
\* No session, no call under way and no payment made satisfy the invariant.
LEMMA InitEstablishes == Init => IInv
BY DEF Init, IInv, TypeOK, ChainNamed, StepOfKind, LateIsBounded, OwnSession, PaymentsAccounted, Rest, Running,
       Kind, Url, Ended, Native, Why, Made

\* The job of a call at a native step is well formed.
LEMMA JobType ==
  ASSUME IInv, NEW c \in Call, calls[c].pc \in Native
  PROVE  Job(c) \in Jobs
BY DEF IInv, TypeOK, ChainNamed, Running, Job, Jobs, Native, Ended

\* What a job leaves is a session or none; an open leaves its own session, a
\* close none, a sync the same one, synced, and the others the same one.
LEMMA PerformSession ==
  ASSUME TypeOK, NEW j, j.do \in Native, j.chain \in Chain, j.url \in Url, Perform(j)
  PROVE  /\ session' \in Sessions \cup {None}
         /\ j.do = "open" =>
              /\ session' # None
              /\ session'.chain = j.chain /\ session'.url = j.url
         /\ j.do = "close" => session' = None
         /\ j.do \notin {"open", "close"} =>
              /\ session # None /\ session' # None
              /\ session'.chain = session.chain /\ session'.url = session.url
              /\ session.synced => session'.synced
         /\ j.do = "sync" => session'.synced
<1>1. session \in Sessions \cup {None} /\ None \notin Sessions
  BY NoneAssumption DEF TypeOK, Sessions
<1>2. CASE j.do = "open"
  <2>1. session' = Opened(j)
    BY <1>2 DEF Perform
  <2>2. session' \in Sessions /\ session'.chain = j.chain /\ session'.url = j.url
    BY <2>1 DEF Opened, Sessions
  <2>3. QED
    BY <1>1, <1>2, <2>2
<1>3. CASE j.do = "close"
  <2>1. session' = None
    BY <1>3 DEF Perform
  <2>2. QED
    BY <1>3, <2>1
<1>4. CASE j.do \in {"sync", "again"}
  <2>1. session \in Sessions /\ session' = [session EXCEPT !.synced = TRUE]
    BY <1>1, <1>4 DEF Perform, Binds
  <2>2. /\ session' \in Sessions /\ session'.synced
        /\ session'.chain = session.chain /\ session'.url = session.url
    BY <2>1 DEF Sessions
  <2>3. QED
    BY <1>1, <1>4, <2>1, <2>2
<1>5. CASE j.do \in {"act", "balance"}
  <2>1. session \in Sessions /\ session' = session
    BY <1>1, <1>5 DEF Perform, Binds
  <2>2. QED
    BY <1>1, <1>5, <2>1
<1>6. QED
  BY <1>2, <1>3, <1>4, <1>5 DEF Native

\* What the other calls see of a job: an open or a close disturbs all that run
\* but its own caller, and nothing else of a call changes.
LEMMA AfterJobEffect ==
  ASSUME TypeOK, NEW j
  PROVE  /\ AfterJob(j) \in [Call -> CallState]
         /\ \A c \in Call :
              /\ AfterJob(j)[c].pc = calls[c].pc /\ AfterJob(j)[c].kind = calls[c].kind
              /\ AfterJob(j)[c].chain = calls[c].chain /\ AfterJob(j)[c].url = calls[c].url
              /\ AfterJob(j)[c].round = calls[c].round /\ AfterJob(j)[c].why = calls[c].why
              /\ j.do \in {"open", "close"} /\ Running(c) =>
                   (AfterJob(j)[c].disturbed <=> c # j.by)
              /\ ~ (j.do \in {"open", "close"} /\ Running(c)) =>
                   AfterJob(j)[c].disturbed = calls[c].disturbed
BY DEF TypeOK, AfterJob, CallState

\* What is known of a payment from what was made of it.
Accounted(call, m) ==
  /\ m # "twice"
  /\ m # "nothing" =>
       \/ call.pc \in {"notes", "answered"}
       \/ call.pc = "failed" /\ call.why \in {"payment", "noHash", "notes"}
  /\ (call.pc \in {"notes", "answered"} /\ call.kind = "payment") => m = "whole"

\* A call that moves while the session stays, to a place where it relies on
\* none, keeps the invariant if its payment is still accounted for.
LEMMA CallMoves ==
  ASSUME IInv, NEW c \in Call, NEW place \in CallState, NEW m \in Made,
         calls' = [calls EXCEPT ![c] = place],
         made' = [made EXCEPT ![c] = m],
         UNCHANGED session,
         late' \subseteq Jobs, \A j \in late' : j.do \in Bounded,
         Accounted(place, m),
         place.pc \notin {"sync", "again", "act", "balance"},
         place.pc \in Ended \cup {"idle"} \/ place.chain \in Chain
  PROVE  IInv'
<1>1. /\ \A d \in Call : calls'[d] = IF d = c THEN place ELSE calls[d]
      /\ \A d \in Call : made'[d] = IF d = c THEN m ELSE made[d]
  BY DEF IInv, TypeOK
<1>2. TypeOK'
  BY DEF IInv, TypeOK, CallState, Jobs
<1>3. ChainNamed'
  BY <1>1 DEF IInv, ChainNamed, Running
<1>4. LateIsBounded'
  BY DEF LateIsBounded
<1>5. OwnSession'
  BY <1>1 DEF IInv, OwnSession
<1>6. PaymentsAccounted'
  BY <1>1 DEF IInv, PaymentsAccounted, Accounted
<1>7. StepOfKind'
  BY <1>1 DEF IInv, StepOfKind
<1>8. QED
  BY <1>2, <1>3, <1>4, <1>5, <1>6, <1>7 DEF IInv

\* One whose payment has not begun: nothing is made of it, and stays so.
LEMMA IdleMoves ==
  ASSUME IInv, NEW c \in Call, NEW place \in CallState,
         calls[c].pc \in {"idle", "select"} \cup Native,
         calls' = [calls EXCEPT ![c] = place],
         UNCHANGED <<session, made>>,
         late' \subseteq Jobs, \A j \in late' : j.do \in Bounded,
         place.pc \notin {"sync", "again", "act", "balance", "notes", "answered"},
         place.pc \in Ended \cup {"idle"} \/ place.chain \in Chain
  PROVE  IInv'
<1>1. made[c] = "nothing"
  BY DEF IInv, PaymentsAccounted, Native
<1>2. made' = [made EXCEPT ![c] = "nothing"] /\ "nothing" \in Made
  BY <1>1 DEF IInv, TypeOK, Made
<1>3. Accounted(place, "nothing")
  BY DEF Accounted
<1>4. QED
  BY <1>2, <1>3, CallMoves

\* The place of a call that ended is one.
LEMMA RestType ==
  ASSUME NEW pc \in {"idle", "select"} \cup Ended
  PROVE  /\ Rest(pc) \in CallState
         /\ Rest(pc).pc = pc
BY DEF Rest, CallState, Native, Ended, Kind, Url, Why

LEMMA OverType ==
  ASSUME TypeOK, NEW c \in Call, NEW answer \in Ended, NEW why \in Why
  PROVE  /\ Over(c, answer, why) \in CallState
         /\ Over(c, answer, why).pc = answer /\ Over(c, answer, why).why = why
         /\ Over(c, answer, why).kind = calls[c].kind
<1>1. Rest(answer) \in CallState /\ Rest(answer).pc = answer
  BY RestType
<1>2. calls[c].kind \in Kind
  BY DEF TypeOK
<1>3. Over(c, answer, why) = [Rest(answer) EXCEPT !.kind = calls[c].kind, !.why = why]
  BY DEF Over
<1>4. QED
  BY <1>1, <1>2, <1>3 DEF CallState

-----------------------------------------------------------------------------
\* A call that begins keeps the invariant.
LEMMA BeginPreserves ==
  ASSUME IInv, NEW c \in Call, NEW kind \in Kind, NEW chain \in Chain, Begin(c, kind, chain)
  PROVE  IInv'
<1> DEFINE place == [Rest("select") EXCEPT !.kind = kind, !.chain = chain]
<1>1. place \in CallState /\ place.pc = "select" /\ place.chain \in Chain
  <2>1. Rest("select") \in CallState /\ Rest("select").pc = "select"
    BY RestType
  <2>2. QED
    BY <2>1 DEF CallState
<1>2. calls[c].pc = "idle" /\ calls' = [calls EXCEPT ![c] = place] /\ UNCHANGED <<session, late, made>>
  BY DEF Begin
<1>3. QED
  BY <1>1, <1>2, IdleMoves DEF IInv, TypeOK, LateIsBounded, Jobs

\* A call that fails before its payment keeps the invariant.
LEMMA EndPreserves ==
  ASSUME IInv, NEW c \in Call, calls[c].pc \in {"select"} \cup Native,
         NEW why \in Why, End(c, "failed", why),
         UNCHANGED <<session, made>>,
         late' \subseteq Jobs, \A j \in late' : j.do \in Bounded
  PROVE  IInv'
<1>1. Over(c, "failed", why) \in CallState /\ Over(c, "failed", why).pc = "failed"
  BY OverType DEF IInv, Ended
<1>2. calls' = [calls EXCEPT ![c] = Over(c, "failed", why)]
  BY DEF End
<1>3. QED
  BY <1>1, <1>2, IdleMoves DEF Ended

\* The choice of an endpoint keeps the invariant.
LEMMA SelectPreserves ==
  ASSUME IInv, NEW c \in Call, SelectUrl(c)
  PROVE  IInv'
<1>1. calls[c] \in CallState /\ calls[c].pc = "select" /\ UNCHANGED <<session, late, made>>
  BY DEF IInv, TypeOK, CallState, SelectUrl
<1>2. late' \subseteq Jobs /\ \A j \in late' : j.do \in Bounded
  BY <1>1 DEF IInv, TypeOK, LateIsBounded, Jobs
<1>3. ASSUME NEW url \in Url, calls' = [calls EXCEPT ![c].pc = "open", ![c].url = url]
      PROVE  IInv'
  <2> DEFINE place == [calls[c] EXCEPT !.pc = "open", !.url = url]
  <2>1. place \in CallState /\ place.pc = "open" /\ place.chain = calls[c].chain
    BY <1>1 DEF CallState, Native
  <2>2. calls' = [calls EXCEPT ![c] = place]
    BY <1>3 DEF IInv, TypeOK
  <2>3. calls[c].chain \in Chain
    BY <1>1 DEF IInv, ChainNamed, Running, Ended
  <2>4. QED
    BY <1>1, <1>2, <2>1, <2>2, <2>3, IdleMoves
<1>4. CASE End(c, "failed", "session")
  BY <1>1, <1>2, <1>4, EndPreserves DEF Why
<1>5. QED
  BY <1>3, <1>4 DEF SelectUrl

\* A failover, or the failure that takes its place, keeps the invariant.
LEMMA FailOverPreserves ==
  ASSUME IInv, NEW c \in Call, calls[c].pc \in Native, NEW why \in Why, FailOver(c, why),
         UNCHANGED <<session, made>>,
         late' \subseteq Jobs, \A j \in late' : j.do \in Bounded
  PROVE  IInv'
<1>1. CASE CanFailOver(c)
  <2> DEFINE place == [calls[c] EXCEPT !.pc = "close"]
  <2>1. place \in CallState /\ place.pc = "close" /\ place.chain = calls[c].chain
    BY DEF IInv, TypeOK, CallState, Native
  <2>2. calls' = [calls EXCEPT ![c] = place]
    BY <1>1 DEF FailOver, Go, IInv, TypeOK
  <2>3. calls[c].chain \in Chain
    BY DEF IInv, ChainNamed, Running, Ended, Native
  <2>4. QED
    BY <2>1, <2>2, <2>3, IdleMoves DEF Native
<1>2. CASE ~ CanFailOver(c)
  BY <1>2, EndPreserves DEF FailOver
<1>3. QED
  BY <1>1, <1>2

\* A native call that fails keeps the invariant.
LEMMA FailPreserves ==
  ASSUME IInv, NEW c \in Call, Fail(c)
  PROVE  IInv'
<1>1. calls[c].pc \in Native /\ calls[c].pc # "answered" /\ UNCHANGED <<session, late, made>>
  BY DEF Fail, Native
<1>2. late' \subseteq Jobs /\ \A j \in late' : j.do \in Bounded
  BY <1>1 DEF IInv, TypeOK, LateIsBounded, Jobs
<1>3. QED
  BY <1>1, <1>2, EndPreserves, FailOverPreserves DEF Fail, Why

\* A native call the app gives up keeps the invariant: it is not a payment.
LEMMA GiveUpPreserves ==
  ASSUME IInv, NEW c \in Call, GiveUp(c)
  PROVE  IInv'
<1>1. calls[c].pc \in Native /\ calls[c].pc \in Bounded
  BY DEF GiveUp, Bounded, Native
<1>2. Job(c) \in Jobs /\ Job(c).do \in Bounded
  BY <1>1, JobType DEF Job
<1>3. late' \subseteq Jobs /\ \A j \in late' : j.do \in Bounded
  BY <1>2 DEF GiveUp, IInv, TypeOK, LateIsBounded, Jobs
<1>4. FailOver(c, "ceiling") /\ UNCHANGED <<session, made>>
  BY DEF GiveUp
<1>5. QED
  BY <1>1, <1>3, <1>4, FailOverPreserves DEF Why

-----------------------------------------------------------------------------
(* The end of a payment.                                                   *)

\* What goes out of a payment goes out for the first time.
LEMMA SubmitOnce ==
  ASSUME IInv, NEW c \in Call, calls[c].pc = "act", NEW m \in {"part", "whole"}, Submit(c, m)
  PROVE  made' = [made EXCEPT ![c] = m]
<1>1. made[c] = "nothing"
  BY DEF IInv, PaymentsAccounted
<1>2. QED
  BY <1>1 DEF Submit, IInv, TypeOK

\* An error the library reports of a payment keeps the invariant, whatever
\* went out before it.
LEMMA PaymentFailsPreserves ==
  ASSUME IInv, NEW c \in Call, PaymentFails(c)
  PROVE  IInv'
<1> DEFINE place == Over(c, "failed", "payment")
<1>1. place \in CallState /\ place.pc = "failed" /\ place.why = "payment"
  BY OverType DEF IInv, Ended, Why
<1>2. /\ calls[c].pc = "act" /\ UNCHANGED <<session, late>>
      /\ calls' = [calls EXCEPT ![c] = place]
  BY DEF PaymentFails, End
<1>3. late' \subseteq Jobs /\ \A j \in late' : j.do \in Bounded
  BY <1>2 DEF IInv, TypeOK, LateIsBounded, Jobs
<1> HIDE DEF place
<1>4. CASE UNCHANGED made
  BY <1>1, <1>2, <1>3, <1>4, IdleMoves DEF Native, Ended
<1>5. ASSUME NEW m \in {"part", "whole"}, Submit(c, m)
      PROVE  IInv'
  <2>1. made' = [made EXCEPT ![c] = m] /\ m \in Made
    BY <1>2, <1>5, SubmitOnce DEF Made
  <2>2. Accounted(place, m)
    BY <1>1 DEF Accounted
  <2>3. QED
    BY <1>1, <1>2, <1>3, <2>1, <2>2, CallMoves DEF Ended
<1>6. QED
  BY <1>4, <1>5 DEF PaymentFails

\* A success without a hash keeps it: the payment is made in whole.
LEMMA NoHashPreserves ==
  ASSUME IInv, NEW c \in Call, NoHash(c)
  PROVE  IInv'
<1> DEFINE place == Over(c, "failed", "noHash")
<1>1. place \in CallState /\ place.pc = "failed" /\ place.why = "noHash"
  BY OverType DEF IInv, Ended, Why
<1>2. /\ calls[c].pc = "act" /\ UNCHANGED <<session, late>> /\ Submit(c, "whole")
      /\ calls' = [calls EXCEPT ![c] = place]
  BY DEF NoHash, End, Perform, Job
<1>3. late' \subseteq Jobs /\ \A j \in late' : j.do \in Bounded
  BY <1>2 DEF IInv, TypeOK, LateIsBounded, Jobs
<1> HIDE DEF place
<1>4. made' = [made EXCEPT ![c] = "whole"] /\ "whole" \in Made
  BY <1>2, SubmitOnce DEF Made
<1>5. Accounted(place, "whole")
  BY <1>1 DEF Accounted
<1>6. QED
  BY <1>1, <1>2, <1>3, <1>4, <1>5, CallMoves DEF Ended

\* The notes are written, or not: the payment is made in whole either way.
LEMMA WriteNotesPreserves ==
  ASSUME IInv, NEW c \in Call, WriteNotes(c)
  PROVE  IInv'
<1>1. /\ calls[c].pc = "notes" /\ UNCHANGED <<session, late, made>>
      /\ made[c] # "twice" /\ (calls[c].kind = "payment" => made[c] = "whole")
  BY DEF WriteNotes, IInv, PaymentsAccounted
<1>2. /\ late' \subseteq Jobs /\ \A j \in late' : j.do \in Bounded
      /\ made' = [made EXCEPT ![c] = made[c]] /\ made[c] \in Made
  BY <1>1 DEF IInv, TypeOK, LateIsBounded, Jobs
<1>3. ASSUME NEW answer \in Ended, NEW why \in Why, End(c, answer, why),
             answer = "answered" \/ why = "notes"
      PROVE  IInv'
  <2> DEFINE place == Over(c, answer, why)
  <2>1. /\ place \in CallState /\ place.pc = answer /\ place.why = why
        /\ place.kind = calls[c].kind
    BY OverType DEF IInv
  <2>2. calls' = [calls EXCEPT ![c] = place]
    BY <1>3 DEF End
  <2> HIDE DEF place
  <2>3. Accounted(place, made[c])
    BY <1>1, <1>3, <2>1 DEF Accounted, Ended
  <2>4. QED
    BY <1>1, <1>2, <2>1, <2>2, <2>3, CallMoves DEF Ended
<1>4. QED
  BY <1>3 DEF WriteNotes, Ended, Why

-----------------------------------------------------------------------------
(* A job that runs.                                                        *)

\* What a job does to the calls that do not wait for it: they keep their
\* place, and those on a session of their own keep it or are disturbed.
LEMMA OthersUndisturbed ==
  ASSUME IInv, NEW j, j.do \in Native, j.chain \in Chain, j.url \in Url, Perform(j),
         NEW d \in Call, d # j.by,
         calls'[d] = AfterJob(j)[d]
  PROVE  /\ Running(d)' => calls'[d].chain \in Chain
         /\ (calls'[d].pc \in {"sync", "again", "act", "balance"} /\ ~ calls'[d].disturbed) =>
              /\ session' # None
              /\ session'.chain = calls'[d].chain /\ session'.url = calls'[d].url
              /\ calls'[d].pc = "sync" \/ session'.synced
<1>1. /\ calls'[d].pc = calls[d].pc /\ calls'[d].chain = calls[d].chain /\ calls'[d].url = calls[d].url
      /\ j.do \in {"open", "close"} /\ Running(d) => calls'[d].disturbed
      /\ ~ (j.do \in {"open", "close"} /\ Running(d)) => calls'[d].disturbed = calls[d].disturbed
  <2>1. TypeOK
    BY DEF IInv
  <2>2. /\ AfterJob(j)[d].pc = calls[d].pc
        /\ AfterJob(j)[d].chain = calls[d].chain /\ AfterJob(j)[d].url = calls[d].url
    BY <2>1, AfterJobEffect
  <2>3. j.do \in {"open", "close"} /\ Running(d) => AfterJob(j)[d].disturbed
    BY <2>1, AfterJobEffect
  <2>4. ~ (j.do \in {"open", "close"} /\ Running(d)) =>
          AfterJob(j)[d].disturbed = calls[d].disturbed
    BY <2>1, AfterJobEffect
  <2>5. QED
    BY <2>2, <2>3, <2>4
<1>2. Running(d)' => calls'[d].chain \in Chain
  BY <1>1 DEF IInv, ChainNamed, Running
<1>3. ASSUME calls'[d].pc \in {"sync", "again", "act", "balance"}, ~ calls'[d].disturbed
      PROVE  /\ session' # None
             /\ session'.chain = calls'[d].chain /\ session'.url = calls'[d].url
             /\ calls'[d].pc = "sync" \/ session'.synced
  <2>1. Running(d)
    BY <1>1, <1>3 DEF Running, Ended
  <2>2. j.do \notin {"open", "close"} /\ ~ calls[d].disturbed
    BY <1>1, <1>3, <2>1
  <2>3. /\ session # None
        /\ session.chain = calls[d].chain /\ session.url = calls[d].url
        /\ calls[d].pc = "sync" \/ session.synced
    BY <1>1, <1>3, <2>2 DEF IInv, OwnSession
  <2>4. /\ session' # None
        /\ session'.chain = session.chain /\ session'.url = session.url
        /\ session.synced => session'.synced
    BY <2>2, PerformSession DEF IInv
  <2>5. QED
    BY <1>1, <2>3, <2>4
<1>4. QED
  BY <1>2, <1>3

\* A job given up that ends after all keeps the invariant: it is no payment,
\* and every call on the session it replaces is disturbed.
LEMMA EndLatePreserves ==
  ASSUME IInv, NEW j \in late, EndLate(j)
  PROVE  IInv'
<1>1. j \in Jobs /\ j.do \in Bounded
  BY DEF IInv, TypeOK, LateIsBounded, Jobs
<1>2. late' \subseteq Jobs /\ (\A i \in late' : i.do \in Bounded)
  BY DEF EndLate, IInv, TypeOK, LateIsBounded, Jobs
<1>3. CASE UNCHANGED <<session, calls, made>>
  BY <1>2, <1>3 DEF IInv, TypeOK, ChainNamed, StepOfKind, Running, LateIsBounded, OwnSession, PaymentsAccounted, Jobs
<1>4. CASE Perform(j) /\ calls' = AfterJob([j EXCEPT !.by = None])
  <2> DEFINE i == [j EXCEPT !.by = None]
  <2>1. /\ i.by = None /\ i.do = j.do /\ i.chain = j.chain /\ i.url = j.url
        /\ j.do \in Native /\ j.do # "act" /\ j.chain \in Chain /\ j.url \in Url
    BY <1>1 DEF Jobs, Bounded
  <2>2. made' = made
    BY <1>4, <2>1 DEF Perform
  <2>3. Perform(i)
    BY <1>4, <2>1 DEF Perform, Binds, Opened
  <2> HIDE DEF i
  <2>4. /\ calls' \in [Call -> CallState]
        /\ \A d \in Call : /\ calls'[d].pc = calls[d].pc /\ calls'[d].kind = calls[d].kind
                            /\ calls'[d].why = calls[d].why
    BY <1>4, AfterJobEffect DEF IInv, i
  <2>5. \A d \in Call : d # i.by /\ calls'[d] = AfterJob(i)[d]
    BY <1>4, <2>1, NoneAssumption DEF i
  <2>6. ChainNamed' /\ OwnSession'
    BY <2>1, <2>3, <2>5, OthersUndisturbed DEF ChainNamed, OwnSession
  <2>7. session' \in Sessions \cup {None}
    BY <2>1, <2>3, PerformSession DEF IInv
  <2>8. TypeOK'
    BY <1>2, <2>2, <2>4, <2>7 DEF IInv, TypeOK, CallState, Jobs, Sessions
  <2>9. PaymentsAccounted' /\ StepOfKind'
    BY <2>2, <2>4 DEF IInv, PaymentsAccounted, StepOfKind
  <2>10. QED
    BY <1>2, <2>6, <2>8, <2>9 DEF IInv, LateIsBounded
<1>5. QED
  BY <1>3, <1>4 DEF EndLate

\* Where a native call leads its caller.
LEMMA NextStepCases ==
  ASSUME IInv, NEW c \in Call, calls[c].pc \in Native
  PROVE  /\ NextStep(c) \in {"open", "sync", "act", "again", "select", "balance", "notes", "answered"}
         /\ NextStep(c) = "sync" => calls[c].pc = "open"
         /\ NextStep(c) \in {"act", "again"} => calls[c].pc = "sync"
         /\ NextStep(c) = "balance" => calls[c].pc = "again"
         /\ NextStep(c) = "notes" <=> calls[c].pc = "act"
         /\ NextStep(c) \in {"again", "balance"} => calls[c].kind = "recovery"
         /\ NextStep(c) = "answered" => calls[c].kind # "payment"
BY DEF IInv, TypeOK, StepOfKind, NextStep, Native, Kind

\* A native call that succeeds keeps the invariant: its caller goes on with the
\* session the job left, and only a payment adds to what is made.
LEMMA SucceedPreserves ==
  ASSUME IInv, NEW c \in Call, Succeed(c)
  PROVE  IInv'
<1> DEFINE j == Job(c)
           n == NextStep(c)
           after == AfterJob(j)[c]
           next == [after EXCEPT !.pc = n,
                                 !.url = IF after.pc = "close" THEN "fallback" ELSE @,
                                 !.round = IF after.pc = "sync" THEN 2 ELSE @]
<1>1. calls[c].pc \in Native /\ Perform(j) /\ calls' = Advance(c) /\ late' = late
  BY DEF Succeed
<1>2. /\ j \in Jobs /\ j.do = calls[c].pc /\ j.by = c
      /\ j.chain = calls[c].chain /\ j.url = calls[c].url
      /\ j.do \in Native /\ j.chain \in Chain /\ j.url \in Url
  <2>1. j \in Jobs
    BY <1>1, JobType
  <2>2. j.do = calls[c].pc /\ j.by = c /\ j.chain = calls[c].chain /\ j.url = calls[c].url
    BY DEF Job
  <2>3. QED
    BY <2>1, <2>2 DEF Jobs
<1>3. TypeOK
  BY DEF IInv
<1>4. /\ AfterJob(j) \in [Call -> CallState] /\ after \in CallState
      /\ after.pc = calls[c].pc /\ after.chain = calls[c].chain /\ after.url = calls[c].url
      /\ after.kind = calls[c].kind
  BY <1>3, AfterJobEffect
<1>5. /\ j.do = "open" => ~ after.disturbed
      /\ j.do \notin {"open", "close"} => after.disturbed = calls[c].disturbed
  <2>1. Running(c)
    BY <1>1 DEF Running, Native, Ended
  <2>2. j.do \in {"open", "close"} => (after.disturbed <=> c # j.by)
    BY <1>3, <2>1, AfterJobEffect
  <2>3. j.do \notin {"open", "close"} => after.disturbed = calls[c].disturbed
    BY <1>3, AfterJobEffect
  <2>4. QED
    BY <1>2, <2>2, <2>3
<1>6. calls' = [AfterJob(j) EXCEPT ![c] = IF n \in Ended THEN Over(c, n, "none") ELSE next]
  BY <1>1, <1>4 DEF Advance
<1>7. /\ n \in {"open", "sync", "act", "again", "select", "balance", "notes", "answered"}
      /\ n = "sync" => j.do = "open"
      /\ n \in {"act", "again"} => j.do = "sync"
      /\ n = "balance" => j.do = "again"
      /\ n = "notes" <=> j.do = "act"
      /\ n \in {"again", "balance"} => calls[c].kind = "recovery"
      /\ n = "answered" => calls[c].kind # "payment"
  BY <1>1, <1>2, NextStepCases
<1> HIDE DEF j, n, after
<1>8. /\ next \in CallState /\ next.pc = n /\ next.chain = calls[c].chain /\ next.kind = calls[c].kind
      /\ next.disturbed = after.disturbed
      /\ n \in {"sync", "act", "again", "balance"} => next.url = calls[c].url
  <2> DEFINE url == IF after.pc = "close" THEN "fallback" ELSE after.url
             round == IF after.pc = "sync" THEN 2 ELSE after.round
  <2>1. next = [after EXCEPT !.pc = n, !.url = url, !.round = round]
    BY <1>4 DEF CallState
  <2>2. url \in Url /\ round \in 1 .. 2 /\ n \in {"idle", "select", "notes"} \cup Native \cup Ended
    BY <1>4, <1>7 DEF CallState, Native, Url, Ended
  <2>3. n \in {"sync", "act", "again", "balance"} => url = calls[c].url
    BY <1>2, <1>4, <1>7
  <2> HIDE DEF url, round, next
  <2>4. next \in CallState /\ next.pc = n /\ next.chain = after.chain
        /\ next.disturbed = after.disturbed /\ next.url = url /\ next.kind = after.kind
    BY <1>4, <2>1, <2>2 DEF CallState
  <2>5. QED
    BY <1>4, <2>3, <2>4
<1>9. n \in Ended => /\ Over(c, n, "none") \in CallState /\ Over(c, n, "none").pc = n
                    /\ Over(c, n, "none").kind = calls[c].kind
  BY <1>3, OverType DEF Why
<1> HIDE DEF next
<1>10. /\ calls' \in [Call -> CallState]
       /\ calls'[c].pc = n /\ calls'[c].kind = calls[c].kind
       /\ n \notin Ended => calls'[c] = next
       /\ \A d \in Call : d # c => calls'[d] = AfterJob(j)[d]
  BY <1>4, <1>6, <1>8, <1>9
<1>11. ASSUME NEW d \in Call, d # c
       PROVE  /\ calls'[d].pc = calls[d].pc /\ calls'[d].kind = calls[d].kind
              /\ calls'[d].why = calls[d].why
  <2>1. /\ AfterJob(j)[d].pc = calls[d].pc /\ AfterJob(j)[d].kind = calls[d].kind
        /\ AfterJob(j)[d].why = calls[d].why
    BY <1>3, AfterJobEffect
  <2>2. QED
    BY <1>10, <1>11, <2>1
<1>12. calls[c].chain \in Chain
  BY <1>2
<1>13. ChainNamed'
  <2>1. Running(c)' => calls'[c].chain \in Chain
    BY <1>7, <1>8, <1>10, <1>12 DEF Running, Ended
  <2>2. QED
    BY <1>2, <1>1, <1>10, <2>1, OthersUndisturbed DEF ChainNamed
<1>14. ASSUME calls'[c].pc \in {"sync", "again", "act", "balance"}, ~ calls'[c].disturbed
       PROVE  /\ session' # None
              /\ session'.chain = calls'[c].chain /\ session'.url = calls'[c].url
              /\ calls'[c].pc = "sync" \/ session'.synced
  <2>1. /\ n \in {"sync", "again", "act", "balance"} /\ ~ after.disturbed
        /\ calls'[c].pc = n /\ calls'[c].chain = calls[c].chain /\ calls'[c].url = calls[c].url
    BY <1>8, <1>10, <1>14 DEF Ended
  <2>2. CASE n = "sync"
    BY <1>1, <1>2, <1>3, <1>7, <2>1, <2>2, PerformSession
  <2>3. CASE n # "sync"
    <3>1. j.do \in {"sync", "again"} /\ ~ calls[c].disturbed
      BY <1>5, <1>7, <2>1, <2>3
    <3>2. /\ session # None
          /\ session.chain = calls[c].chain /\ session.url = calls[c].url
          /\ calls[c].pc = "sync" \/ session.synced
      BY <1>2, <3>1 DEF IInv, OwnSession
    <3>3. /\ session' # None
          /\ session'.chain = session.chain /\ session'.url = session.url
          /\ session.synced => session'.synced
          /\ j.do = "sync" => session'.synced
      BY <1>1, <1>2, <1>3, <3>1, PerformSession
    <3>4. QED
      BY <1>2, <2>1, <3>1, <3>2, <3>3
  <2>4. QED
    BY <2>2, <2>3
<1>15. OwnSession'
  BY <1>1, <1>2, <1>10, <1>14, OthersUndisturbed DEF OwnSession
<1>16. session' \in Sessions \cup {None}
  BY <1>1, <1>2, <1>3, PerformSession
<1>17. made' = IF j.do = "act" THEN [made EXCEPT ![c] = "whole"] ELSE made
  <2>1. CASE j.do = "act"
    <3>1. Submit(c, "whole")
      BY <1>1, <1>2, <2>1 DEF Perform
    <3>2. QED
      BY <1>2, <2>1, <3>1, SubmitOnce
  <2>2. CASE j.do # "act"
    BY <1>1, <2>2 DEF Perform
  <2>3. QED
    BY <2>1, <2>2
<1>18. TypeOK'
  BY <1>1, <1>3, <1>10, <1>16, <1>17 DEF TypeOK, CallState, Sessions, Made
<1>19. PaymentsAccounted' /\ StepOfKind'
  <2>1. made[c] = "nothing"
    BY <1>1 DEF IInv, PaymentsAccounted, Native
  <2>2. /\ \A d \in Call : d # c => made'[d] = made[d]
        /\ made'[c] = IF j.do = "act" THEN "whole" ELSE "nothing"
    BY <1>3, <1>17, <2>1 DEF TypeOK
  <2>3. PaymentsAccounted'
    BY <1>7, <1>10, <1>11, <2>2 DEF IInv, PaymentsAccounted
  <2>4. StepOfKind'
    BY <1>7, <1>10, <1>11 DEF IInv, StepOfKind
  <2>5. QED
    BY <2>3, <2>4
<1>20. QED
  BY <1>1, <1>13, <1>15, <1>18, <1>19 DEF IInv, LateIsBounded

-----------------------------------------------------------------------------
\* Every step of the session and its calls keeps the invariant.
LEMMA NextPreserves == IInv /\ [Next]_vars => IInv'
<1> SUFFICES ASSUME IInv, [Next]_vars PROVE IInv'
  OBVIOUS
<1>1. ASSUME NEW c \in Call, NEW kind \in Kind, NEW chain \in Chain, Begin(c, kind, chain)
      PROVE  IInv'
  BY <1>1, BeginPreserves
<1>2. ASSUME NEW c \in Call, SelectUrl(c) PROVE IInv'
  BY <1>2, SelectPreserves
<1>3. ASSUME NEW c \in Call, Succeed(c) PROVE IInv'
  BY <1>3, SucceedPreserves
<1>4. ASSUME NEW c \in Call, Fail(c) PROVE IInv'
  BY <1>4, FailPreserves
<1>5. ASSUME NEW c \in Call, GiveUp(c) PROVE IInv'
  BY <1>5, GiveUpPreserves
<1>6. ASSUME NEW j \in late, EndLate(j) PROVE IInv'
  BY <1>6, EndLatePreserves
<1>7. ASSUME NEW c \in Call, PaymentFails(c) \/ NoHash(c) \/ WriteNotes(c) PROVE IInv'
  BY <1>7, PaymentFailsPreserves, NoHashPreserves, WriteNotesPreserves
<1>8. CASE UNCHANGED vars
  BY <1>8 DEF vars, IInv, TypeOK, ChainNamed, StepOfKind, Running, LateIsBounded, OwnSession, PaymentsAccounted
<1>9. QED
  BY <1>1, <1>2, <1>3, <1>4, <1>5, <1>6, <1>7, <1>8 DEF Next

\* In every reachable state the session, its calls, the jobs given up and the
\* payments made satisfy the inductive invariant.
THEOREM Invariance == Spec => []IInv
BY InitEstablishes, NextPreserves, PTL DEF Spec

\* The session and its calls are well typed (session.rs, sppPoolSession.ts).
THEOREM TypeCorrect == Spec => []TypeOK
<1>1. IInv => TypeOK
  BY DEF IInv
<1>2. QED
  BY <1>1, Invariance, PTL

\* Every native call of an undisturbed caller runs on the session that caller
\* opened, of its chain and at its endpoint, synced before money moves
\* (ensurePoolSession before each use, failover by close and reopen).
THEOREM SessionIsOwn == Spec => []OwnSession
<1>1. IInv => OwnSession
  BY DEF IInv
<1>2. QED
  BY <1>1, Invariance, PTL

\* No payment goes out twice or after its call has ended; a payment answered
\* as done is made in whole, and one reported as failed is made only when the
\* library reported an error or no hash, or its notes could not be written
\* (sppRpcFailover.ts fails over before a payment and never after; the bridge
\* puts no ceiling on one).
THEOREM PaymentsAreAccounted == Spec => []PaymentsAccounted
<1>1. IInv => PaymentsAccounted
  BY DEF IInv
<1>2. QED
  BY <1>1, Invariance, PTL
=============================================================================
