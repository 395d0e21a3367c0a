------------------------ MODULE WebhookOutbox_proofs ------------------------
(***************************************************************************)
(* The outbox for every set of deliveries, callers and bounds: a row is    *)
(* tied to the jobs and callers that still owe it a decision, an accepted  *)
(* event to the one job that delivered it, and the ids of the retry jobs   *)
(* stay in their range although retries run at once.                       *)
(***************************************************************************)
EXTENDS WebhookOutbox, FiniteSetTheorems, TLAPS

MaxAttempts == IF Attempts > IndexerAttempts THEN Attempts ELSE IndexerAttempts

Statuses == {"none", "pending", "retrying", "delivered", "failed"}
JobPlaces == Live \cup {"absent", "completed", "failed"}
Jobs == [at : JobPlaces, made : 0 .. MaxCount, stalls : {0, 1}]
CallPlaces == [pc : Places, del : Delivery \cup {None}, key : JobKey]

\* A call that works on a delivery.
AtWork(place) == place.pc \notin {"idle", "loop", "swept"}

\* Retries accepted whose update of the row is still to come.
Bumping == {c \in Caller : call[c].pc = "bump"}

\* A job, and a call, that will still write the row or add the job that does.
LastTry(k, job) == job.made + 1 >= AttemptsOf(k)
JobOwes(k, job) ==
  \/ job.at \in {"waiting", "mark", "send", "noUrl", "sent", "gaveUp", "note", "exhausted"}
  \/ job.at = "throw" /\ (k = IndexerJob \/ ~ LastTry(k, job))
  \/ job.at = "dlq" /\ k # IndexerJob
CallOwes(c, d) ==
  /\ call[c].pc = "add" /\ call[c].del = d
  /\ jobs[d][call[c].key] = NoJob \/ c \in Request

-----------------------------------------------------------------------------
(* The inductive invariant.                                                *)

\* A count written by a job stays below the attempts of the job, and every
\* retry raises it by one: a retry accepted has its place in the range.
CountInv ==
  /\ \A d \in Delivery, k \in JobKey : jobs[d][k].made < AttemptsOf(k)
  /\ IsFiniteSet(Bumping) /\ Cardinality(Bumping) <= retries
  /\ \A d \in Delivery : retryCount[d] + Cardinality(Bumping) <= MaxAttempts + retries

\* A delivery nobody has announced is nowhere.
OriginInv ==
  /\ \A c \in Caller : AtWork(call[c]) => call[c].del \in Delivery
  /\ \A c \in Caller : call[c].del \in Delivery => origin[call[c].del] # "none"
  /\ \A s \in Sweeper, d \in Delivery : d \in todo[s] => origin[d] # "none"
  /\ \A d \in Delivery : origin[d] = "none" =>
       status[d] = "none" /\ accepted[d] = 0 /\ \A k \in JobKey : jobs[d][k] = NoJob

\* What a job does after an answer is decided by the answer.
AnswerInv ==
  \A d \in Delivery, k \in JobKey :
    /\ jobs[d][k].at = "sent" => accepted[d] > 0
    /\ jobs[d][k].at = "note" => k # IndexerJob /\ ~ LastTry(k, jobs[d][k])

\* Without a fault, a delivery has its row before it has a job.
RowInv ==
  /\ \A s \in Sweeper, d \in Delivery : d \in todo[s] => HasRow(d)
  /\ \A c \in Caller :
       /\ call[c].pc # "failRow"
       /\ call[c].pc \in {"add", "bump", "claim"} => HasRow(call[c].del)
       /\ call[c].pc = "create" => ~ HasRow(call[c].del)
  /\ \A c, e \in Caller :
       (call[c].pc = "create" /\ call[e].pc = "create" /\ call[c].del = call[e].del) => c = e
  /\ \A d \in Delivery, k \in JobKey : jobs[d][k] # NoJob => HasRow(d)

\* Without a fault, a row to be decided has a job or a caller that owes it.
OwedInv ==
  \A d \in Delivery :
    Undecided(d) =>
      \/ \E k \in JobKey : JobOwes(k, jobs[d][k])
      \/ \E c \in Caller : CallOwes(c, d)
      \/ d \in swallowed

\* Without a fault or a retry, an event of the backend has one job, and an
\* accepted one has left that job with nothing to send.
CopyInv ==
  \A d \in Delivery : origin[d] = "backend" =>
    /\ \A c \in Caller : call[c].del = d => call[c].key = FirstJob
    /\ \A k \in JobKey : k # FirstJob => jobs[d][k] = NoJob
    /\ d \notin lost =>
         /\ accepted[d] <= 1
         /\ accepted[d] = 1 => jobs[d][FirstJob].at \in {"sent", "done", "completed"}

IInv ==
  /\ TypeOK /\ CountInv /\ OriginInv /\ AnswerInv /\ DeliveredWasAccepted
  /\ faults = 0 => RowInv /\ OwedInv
  /\ faults = 0 /\ retries = 0 => CopyInv

-----------------------------------------------------------------------------
\* The bounds of the counts are numbers, and no job has more attempts.
LEMMA Bounds ==
  /\ MaxAttempts \in Nat \ {0} /\ MaxCount \in Nat /\ MaxCount = MaxAttempts + MaxRetries
  /\ \A k \in JobKey : AttemptsOf(k) \in 1 .. MaxAttempts
  /\ IndexerJob \in JobKey /\ FirstJob \in JobKey
  /\ \A n \in 0 .. MaxCount : RetryJob(n) \in JobKey
BY BoundsAssumption DEF MaxAttempts, MaxCount, AttemptsOf, JobKey, IndexerJob, FirstJob, RetryJob

\* The job that is not there, one just added and one that ended are jobs.
LEMMA JobsTyped ==
  /\ NoJob \in Jobs /\ NoJob.at = "absent" /\ NoJob.made = 0
  /\ NewJob \in Jobs /\ NewJob.at = "waiting" /\ NewJob.made = 0
  /\ \A at \in JobPlaces : Finished(at) \in Jobs /\ Finished(at).at = at /\ Finished(at).made = 0
BY Bounds DEF NoJob, NewJob, Finished, Jobs, JobPlaces, Live, Running

\* An idle call is one.
LEMMA IdleTyped ==
  /\ Idle \in CallPlaces /\ Idle.pc = "idle" /\ Idle.del = None /\ Idle.key = FirstJob
  /\ \A pc \in Places : [Idle EXCEPT !.pc = pc] \in CallPlaces
BY Bounds DEF Idle, CallPlaces, Places

\* Nothing announced satisfies the inductive invariant.
LEMMA InitEstablishes == Init => IInv
<1> SUFFICES ASSUME Init PROVE IInv
  OBVIOUS
<1> USE DEF Init
<1>1. TypeOK
  BY Bounds, JobsTyped, IdleTyped, BoundsAssumption
  DEF TypeOK, Jobs, JobPlaces, CallPlaces
<1>2. Bumping = {}
  BY IdleTyped DEF Bumping
<1>3. CountInv
  BY <1>2, Bounds, JobsTyped, FS_EmptySet, BoundsAssumption DEF CountInv
<1>4. OriginInv
  BY IdleTyped, NoneAssumption DEF OriginInv, AtWork
<1>5. AnswerInv /\ DeliveredWasAccepted
  BY JobsTyped DEF AnswerInv, DeliveredWasAccepted
<1>6. RowInv
  BY IdleTyped DEF RowInv, HasRow
<1>7. OwedInv
  BY DEF OwedInv, Undecided
<1>8. CopyInv
  BY DEF CopyInv
<1>9. QED
  BY <1>1, <1>3, <1>4, <1>5, <1>6, <1>7, <1>8 DEF IInv

-----------------------------------------------------------------------------
(* A step of a job.                                                        *)

\* A job put in its place is there, and every other job is where it was.
LEMMA PutJobEffect ==
  ASSUME TypeOK, NEW d \in Delivery, NEW k \in JobKey, NEW job \in Jobs, PutJob(d, k, job)
  PROVE  /\ jobs' \in [Delivery -> [JobKey -> Jobs]]
         /\ jobs'[d][k] = job
         /\ \A e \in Delivery, m \in JobKey : (e # d \/ m # k) => jobs'[e][m] = jobs[e][m]
<1>1. jobs \in [Delivery -> [JobKey -> Jobs]] /\ jobs' = [jobs EXCEPT ![d][k] = job]
  BY DEF TypeOK, PutJob, Jobs, JobPlaces
<1>2. QED
  BY <1>1

\* A job that exists goes on to another place.  It keeps the invariant if its
\* new place is one it may be in, and if it owes no decision only where the row
\* has one or where it owed none before.
LEMMA JobMoves ==
  ASSUME IInv, NEW d \in Delivery, NEW k \in JobKey, NEW job \in Jobs, PutJob(d, k, job),
         jobs[d][k] # NoJob,
         UNCHANGED <<origin, call, sweep, swallowed, retries>>,
         faults' \in 0 .. MaxFaults, faults' = 0 => faults = 0 /\ job # NoJob,
         NEW new \in Statuses, status' = [status EXCEPT ![d] = new],
         NEW count \in Nat, retryCount' = [retryCount EXCEPT ![d] = count],
         count <= MaxAttempts \/ count = retryCount[d],
         NEW yes \in 0 .. 2, accepted' = [accepted EXCEPT ![d] = yes], yes >= accepted[d],
         lost' \subseteq Delivery, lost \subseteq lost',
         job.made < AttemptsOf(k),
         job.at = "sent" => yes > 0,
         job.at = "note" => k # IndexerJob /\ ~ LastTry(k, job),
         new = "delivered" => yes > 0 \/ status[d] = "delivered",
         new = "none" => status[d] = "none",
         faults' = 0 /\ new \in {"pending", "retrying"} =>
           \/ JobOwes(k, job)
           \/ new = status[d] /\ ~ JobOwes(k, jobs[d][k]),
         faults' = 0 /\ retries = 0 /\ k = FirstJob /\ origin[d] = "backend" /\ d \notin lost' =>
           yes <= 1 /\ (yes = 1 => job.at \in {"sent", "done", "completed"})
  PROVE  IInv'
<1> USE DEF sweep
<1>1. TypeOK
  BY DEF IInv
<1>2. /\ jobs' \in [Delivery -> [JobKey -> Jobs]]
      /\ jobs'[d][k] = job
      /\ \A e \in Delivery, m \in JobKey : (e # d \/ m # k) => jobs'[e][m] = jobs[e][m]
  BY <1>1, PutJobEffect
<1>3. /\ \A e \in Delivery : status'[e] = IF e = d THEN new ELSE status[e]
      /\ \A e \in Delivery : retryCount'[e] = IF e = d THEN count ELSE retryCount[e]
      /\ \A e \in Delivery : accepted'[e] = IF e = d THEN yes ELSE accepted[e]
  BY <1>1 DEF TypeOK
<1>4. \A e \in Delivery : accepted[e] > 0 => accepted'[e] > 0
  <2>1. \A e \in Delivery : accepted[e] \in 0 .. 2
    BY <1>1 DEF TypeOK
  <2>2. QED
    BY <1>3, <2>1
<1>5. CountInv'
  <2>1. Bumping' = Bumping
    BY DEF Bumping
  <2>2. \A e \in Delivery, m \in JobKey : jobs'[e][m].made < AttemptsOf(m)
    BY <1>2 DEF IInv, CountInv
  <2>3. Cardinality(Bumping) \in Nat /\ retries \in Nat /\ MaxAttempts \in Nat
    BY <1>1, Bounds, FS_CardinalityType, BoundsAssumption DEF IInv, CountInv, TypeOK
  <2>4. \A e \in Delivery : retryCount'[e] + Cardinality(Bumping) <= MaxAttempts + retries
    BY <1>3, <2>3 DEF IInv, CountInv
  <2>5. QED
    BY <2>1, <2>2, <2>4 DEF IInv, CountInv
<1>6. TypeOK'
  <2>1. count \in 0 .. MaxCount
    BY <1>1, Bounds, BoundsAssumption DEF TypeOK
  <2>2. status' \in [Delivery -> Statuses] /\ retryCount' \in [Delivery -> 0 .. MaxCount]
    BY <1>1, <2>1 DEF TypeOK, Statuses
  <2>3. accepted' \in [Delivery -> 0 .. 2]
    BY <1>1 DEF TypeOK
  <2>4. QED
    BY <1>1, <1>2, <2>2, <2>3 DEF TypeOK, Statuses, Jobs, JobPlaces
<1>7. OriginInv'
  <2>1. origin[d] # "none"
    BY DEF IInv, OriginInv
  <2>2. QED
    BY <1>2, <1>3, <2>1 DEF IInv, OriginInv, AtWork
<1>8. AnswerInv'
  <2>1. ASSUME NEW e \in Delivery, NEW m \in JobKey
        PROVE  /\ jobs'[e][m].at = "sent" => accepted'[e] > 0
               /\ jobs'[e][m].at = "note" => m # IndexerJob /\ ~ LastTry(m, jobs'[e][m])
    <3>1. CASE e = d /\ m = k
      BY <1>2, <1>3, <3>1
    <3>2. CASE ~ (e = d /\ m = k)
      BY <1>2, <1>4, <3>2 DEF IInv, AnswerInv
    <3>3. QED
      BY <3>1, <3>2
  <2>2. QED
    BY <2>1 DEF AnswerInv, LastTry, AttemptsOf
<1>9. DeliveredWasAccepted'
  BY <1>3, <1>4 DEF IInv, DeliveredWasAccepted
<1>10. ASSUME faults' = 0
       PROVE  RowInv' /\ OwedInv'
  <2>1. RowInv /\ OwedInv
    BY <1>10 DEF IInv
  <2>2. HasRow(d)
    BY <2>1 DEF RowInv
  <2>3. \A e \in Delivery : HasRow(e)' <=> HasRow(e)
    BY <1>3, <2>2 DEF HasRow
  <2>4. RowInv'
    <3>1. \A e \in Delivery, m \in JobKey : jobs'[e][m] # NoJob => HasRow(e)
      BY <1>2, <2>1, <2>2 DEF RowInv
    <3>2. \A c \in Caller :
            /\ call[c].pc \in {"add", "bump", "claim", "create"} => call[c].del \in Delivery
      BY DEF IInv, OriginInv, AtWork
    <3>3. QED
      BY <2>1, <2>3, <3>1, <3>2 DEF RowInv
  <2>5. OwedInv'
    <3>1. ASSUME NEW e \in Delivery, Undecided(e)'
          PROVE  \/ \E m \in JobKey : JobOwes(m, jobs'[e][m])
                 \/ \E c \in Caller : CallOwes(c, e)'
                 \/ e \in swallowed
      <4>1. CASE JobOwes(k, job) /\ e = d
        BY <1>2, <4>1
      <4>2. CASE ~ (JobOwes(k, job) /\ e = d)
        <5>1. Undecided(e)
          BY <1>3, <3>1, <4>2, <1>10 DEF Undecided
        <5>2. CASE \E m \in JobKey : JobOwes(m, jobs[e][m])
          BY <1>2, <1>3, <1>10, <3>1, <4>2, <5>2 DEF Undecided
        <5>3. ASSUME NEW c \in Caller, CallOwes(c, e)
              PROVE  CallOwes(c, e)'
          <6>1. call[c].key \in JobKey
            BY <1>1 DEF TypeOK
          <6>2. jobs'[e][call[c].key] = jobs[e][call[c].key] \/ jobs[e][call[c].key] # NoJob
            BY <1>2, <6>1
          <6>3. QED
            BY <5>3, <6>2 DEF CallOwes
        <5>4. QED
          BY <2>1, <5>1, <5>2, <5>3 DEF OwedInv
      <4>3. QED
        BY <4>1, <4>2
    <3>2. QED
      BY <3>1 DEF OwedInv, JobOwes, LastTry, AttemptsOf
  <2>6. QED
    BY <2>4, <2>5
<1>11. ASSUME faults' = 0, retries' = 0
       PROVE  CopyInv'
  <2>1. CopyInv
    BY <1>11 DEF IInv
  <2>2. ASSUME NEW e \in Delivery, origin[e] = "backend"
        PROVE  /\ \A c \in Caller : call[c].del = e => call[c].key = FirstJob
               /\ \A m \in JobKey : m # FirstJob => jobs'[e][m] = NoJob
               /\ e \notin lost' =>
                    /\ accepted'[e] <= 1
                    /\ accepted'[e] = 1 => jobs'[e][FirstJob].at \in {"sent", "done", "completed"}
    <3>1. CASE e # d
      BY <1>2, <1>3, <2>1, <2>2, <3>1, Bounds DEF CopyInv
    <3>2. CASE e = d
      <4>1. k = FirstJob
        BY <2>1, <2>2, <3>2 DEF CopyInv
      <4>2. (yes <= 1 /\ (yes = 1 => job.at \in {"sent", "done", "completed"})) \/ d \in lost'
        BY <1>11, <2>2, <3>2, <4>1
      <4>3. QED
        BY <1>2, <1>3, <2>1, <2>2, <3>2, <4>1, <4>2 DEF CopyInv
    <3>3. QED
      BY <3>1, <3>2
  <2>3. QED
    BY <2>2 DEF CopyInv
<1>12. QED
  BY <1>5, <1>6, <1>7, <1>8, <1>9, <1>10, <1>11 DEF IInv

\* The same for a step that writes the row and leaves the merchant alone.
LEMMA RowMoves ==
  ASSUME IInv, NEW d \in Delivery, NEW k \in JobKey, NEW job \in Jobs, PutJob(d, k, job),
         jobs[d][k] # NoJob, job # NoJob,
         UNCHANGED <<origin, call, sweep, merchant, swallowed, bounds>>,
         NEW new \in Statuses \ {"none"}, status' = [status EXCEPT ![d] = new],
         NEW count \in Nat, retryCount' = [retryCount EXCEPT ![d] = count],
         count <= MaxAttempts \/ count = retryCount[d],
         job.made < AttemptsOf(k),
         job.at \notin {"sent", "note"},
         new = "delivered" => accepted[d] > 0,
         new \in {"pending", "retrying"} => JobOwes(k, job),
         origin[d] = "backend" /\ accepted[d] = 1 /\ k = FirstJob /\ d \notin lost
           /\ jobs[d][k].at \in {"sent", "done", "completed"} =>
           job.at \in {"sent", "done", "completed"}
  PROVE  IInv'
<1> USE DEF merchant, bounds
<1>1. TypeOK
  BY DEF IInv
<1>2. accepted[d] \in 0 .. 2 /\ accepted' = [accepted EXCEPT ![d] = accepted[d]]
  BY <1>1 DEF TypeOK
<1>3. faults' \in 0 .. MaxFaults /\ (faults' = 0 => faults = 0)
  BY <1>1 DEF TypeOK
<1>4. lost' \subseteq Delivery /\ lost \subseteq lost'
  BY <1>1 DEF TypeOK
<1>5. faults' = 0 /\ retries = 0 /\ k = FirstJob /\ origin[d] = "backend" /\ d \notin lost' =>
        accepted[d] <= 1 /\ (accepted[d] = 1 => job.at \in {"sent", "done", "completed"})
  BY DEF IInv, CopyInv
<1>6. accepted[d] >= accepted[d]
  BY <1>2
<1>7. QED
  BY <1>2, <1>3, <1>4, <1>5, <1>6, JobMoves

\* The same for a step that changes nothing but the job, and may be a fault.
LEMMA PlainMoves ==
  ASSUME IInv, NEW d \in Delivery, NEW k \in JobKey, NEW job \in Jobs, PutJob(d, k, job),
         jobs[d][k] # NoJob,
         UNCHANGED <<origin, row, call, sweep, merchant, swallowed, retries>>,
         faults' = faults \/ Fault, faults' = faults => job # NoJob,
         job.made < AttemptsOf(k),
         job.at = "sent" => accepted[d] > 0,
         job.at = "note" => k # IndexerJob /\ ~ LastTry(k, job),
         faults' = faults /\ HasRow(d) => (JobOwes(k, job) \/ ~ JobOwes(k, jobs[d][k])),
         faults' = faults /\ jobs[d][k].at \in {"sent", "done", "completed"} =>
           job.at \in {"sent", "done", "completed"}
  PROVE  IInv'
<1> USE DEF merchant, row
<1>1. TypeOK
  BY DEF IInv
<1>2. /\ status[d] \in Statuses /\ status' = [status EXCEPT ![d] = status[d]]
      /\ retryCount[d] \in Nat /\ retryCount' = [retryCount EXCEPT ![d] = retryCount[d]]
      /\ accepted[d] \in 0 .. 2 /\ accepted' = [accepted EXCEPT ![d] = accepted[d]]
      /\ accepted[d] >= accepted[d]
  <2>1. status \in [Delivery -> Statuses]
    BY <1>1 DEF TypeOK, Statuses
  <2>2. retryCount \in [Delivery -> 0 .. MaxCount] /\ accepted \in [Delivery -> 0 .. 2]
    BY <1>1 DEF TypeOK
  <2>3. QED
    BY <2>1, <2>2
<1>3. faults' \in 0 .. MaxFaults /\ (faults' = 0 => faults' = faults)
  BY <1>1, BoundsAssumption DEF TypeOK, Fault
<1>4. lost' \subseteq Delivery /\ lost \subseteq lost'
  BY <1>1 DEF TypeOK
<1>5. status[d] = "delivered" => accepted[d] > 0 \/ status[d] = "delivered"
  OBVIOUS
<1>6. faults' = 0 /\ status[d] \in {"pending", "retrying"} =>
        \/ JobOwes(k, job)
        \/ status[d] = status[d] /\ ~ JobOwes(k, jobs[d][k])
  BY <1>3 DEF HasRow
<1>7. faults' = 0 /\ retries = 0 /\ k = FirstJob /\ origin[d] = "backend" /\ d \notin lost' =>
        accepted[d] <= 1 /\ (accepted[d] = 1 => job.at \in {"sent", "done", "completed"})
  BY <1>3 DEF IInv, CopyInv
<1>8. /\ faults' = 0 => faults = 0 /\ job # NoJob
      /\ status[d] = "none" => status[d] = "none"
      /\ retryCount[d] <= MaxAttempts \/ retryCount[d] = retryCount[d]
  BY <1>3
<1>9. QED
  BY <1>2, <1>3, <1>4, <1>5, <1>6, <1>7, <1>8, JobMoves

\* A job sent on keeps the count of its attempts.
LEMMA AtEffect ==
  ASSUME TypeOK, NEW d \in Delivery, NEW k \in JobKey, NEW at \in JobPlaces
  PROVE  LET job == [jobs[d][k] EXCEPT !.at = at]
         IN  /\ job \in Jobs /\ job.at = at /\ job.made = jobs[d][k].made
             /\ at # "absent" => job # NoJob
             /\ LastTry(k, job) <=> Last(d, k)
<1>1. jobs[d][k] \in Jobs
  BY DEF TypeOK, Jobs, JobPlaces
<1>2. QED
  BY <1>1, JobsTyped DEF Jobs, LastTry, Last

\* A job that is somewhere is a job, and one of its places.
LEMMA JobThere ==
  ASSUME IInv, NEW d \in Delivery, NEW k \in JobKey
  PROVE  /\ jobs[d][k] \in Jobs /\ jobs[d][k].made < AttemptsOf(k)
         /\ jobs[d][k].at # "absent" => jobs[d][k] # NoJob
         /\ jobs[d][k].made + 1 \in Nat /\ jobs[d][k].made \in Nat
         /\ jobs[d][k].made + 1 <= MaxAttempts /\ jobs[d][k].made <= MaxAttempts
<1>1. jobs[d][k] \in Jobs /\ jobs[d][k].made < AttemptsOf(k)
  BY DEF IInv, TypeOK, CountInv, Jobs, JobPlaces
<1>2. AttemptsOf(k) \in 1 .. MaxAttempts /\ MaxAttempts \in Nat /\ MaxCount \in Nat
  BY Bounds
<1>3. jobs[d][k].made \in 0 .. MaxCount
  BY <1>1 DEF Jobs
<1>4. QED
  BY <1>1, <1>2, <1>3, JobsTyped

\* Every step of a processor keeps the invariant.
LEMMA JobStepPreserves ==
  ASSUME IInv, NEW d \in Delivery, NEW k \in JobKey, JobStep(d, k)
  PROVE  IInv'
<1> DEFINE old == jobs[d][k]
           Sent(at) == [old EXCEPT !.at = at]
<1>1. TypeOK
  BY DEF IInv
<1>2. /\ old \in Jobs /\ old.made < AttemptsOf(k)
      /\ old.at # "absent" => old # NoJob
      /\ old.made + 1 \in Nat /\ old.made \in Nat
      /\ old.made + 1 <= MaxAttempts /\ old.made <= MaxAttempts
  BY JobThere
<1>3. ASSUME NEW at \in JobPlaces
      PROVE  /\ Sent(at) \in Jobs /\ Sent(at).at = at /\ Sent(at).made = old.made
             /\ at # "absent" => Sent(at) # NoJob
             /\ LastTry(k, Sent(at)) <=> Last(d, k)
  BY <1>1, AtEffect
<1>4. LastTry(k, old) <=> Last(d, k)
  BY DEF LastTry, Last
<1>5. retryCount[d] \in Nat
  <2>1. retryCount \in [Delivery -> 0 .. MaxCount]
    BY <1>1 DEF TypeOK
  <2>2. QED
    BY <2>1
<1> HIDE DEF old, Sent
<1>6. ASSUME NEW at \in JobPlaces \ {"absent", "sent", "note"}, OnlyJob(d, k, at),
             old.at \notin {"absent", "sent", "done", "completed"},
             JobOwes(k, Sent(at)) \/ ~ JobOwes(k, old) \/ ~ HasRow(d)
      PROVE  IInv'
  <2>1. PutJob(d, k, Sent(at)) /\ UNCHANGED <<origin, row, call, sweep, merchant, swallowed, bounds>>
    BY <1>6 DEF OnlyJob, At, Sent, old
  <2>2. faults' = faults /\ retries' = retries
    BY <2>1 DEF bounds
  <2>3. QED
    BY <1>2, <1>3, <1>6, <2>1, <2>2, PlainMoves DEF old
<1>7. ASSUME NEW at \in {"done", "send", "throw", "dlq"},
             NEW new \in {"failed", "retrying", "delivered"},
             NEW count \in Nat, count <= MaxAttempts \/ count = retryCount[d],
             WritesRow(d, k, new, count, at), old.at # "absent",
             new = "delivered" => accepted[d] > 0,
             new = "retrying" => JobOwes(k, Sent(at)),
             old.at \in {"sent", "done", "completed"} => at = "done"
      PROVE  IInv'
  <2>1. /\ PutJob(d, k, Sent(at))
        /\ UNCHANGED <<origin, call, sweep, merchant, swallowed, bounds>>
        /\ status' = [status EXCEPT ![d] = new]
        /\ retryCount' = [retryCount EXCEPT ![d] = count]
    BY <1>7 DEF WritesRow, At, Sent, old
  <2>2. at \in JobPlaces \ {"absent"} /\ new \in Statuses \ {"none"}
    BY DEF JobPlaces, Live, Running, Statuses
  <2>3. /\ Sent(at) \in Jobs /\ Sent(at).at = at /\ Sent(at).made < AttemptsOf(k)
        /\ Sent(at) # NoJob /\ old # NoJob
    BY <1>2, <1>3, <1>7, <2>2
  <2>4. QED
    BY <1>7, <2>1, <2>2, <2>3, RowMoves DEF old
<1>8. ASSUME TakeJob(d, k) PROVE IInv'
  <2>1. old.at = "waiting"
    BY <1>8 DEF TakeJob, old
  <2>2. ASSUME NEW at \in {"noUrl", "mark", "send"}, OnlyJob(d, k, at)
        PROVE  IInv'
    <3>1. at \in JobPlaces \ {"absent", "sent", "note"}
      BY DEF JobPlaces, Live, Running
    <3>2. JobOwes(k, Sent(at))
      BY <1>3, <3>1 DEF JobOwes
    <3>3. QED
      BY <1>6, <2>1, <2>2, <3>1, <3>2
  <2>3. QED
    BY <1>8, <2>2 DEF TakeJob
<1>9. ASSUME WriteNoUrl(d, k) PROVE IInv'
  <2>1. old.at = "noUrl"
    BY <1>9 DEF WriteNoUrl, old
  <2>2. CASE WritesRow(d, k, "failed", retryCount[d], "done")
    BY <1>5, <1>7, <2>1, <2>2
  <2>3. CASE WritesRow(d, k, "failed", jobs[d][k].made + 1, "done")
    BY <1>2, <1>7, <2>1, <2>3 DEF old
  <2>4. CASE OnlyJob(d, k, "done") /\ ~ HasRow(d)
    BY <1>6, <2>1, <2>4 DEF JobPlaces, Live, Running
  <2>5. QED
    BY <1>9, <2>2, <2>3, <2>4 DEF WriteNoUrl
<1>10. ASSUME MarkRetrying(d, k) PROVE IInv'
  <2>1. old.at = "mark" /\ WritesRow(d, k, "retrying", old.made, "send")
    BY <1>10 DEF MarkRetrying, old
  <2>2. JobOwes(k, Sent("send"))
    BY <1>3 DEF JobOwes, JobPlaces, Live, Running
  <2>3. QED
    BY <1>2, <1>7, <2>1, <2>2
<1>11. ASSUME WriteDelivered(d, k) PROVE IInv'
  <2>1. old.at = "sent"
    BY <1>11 DEF WriteDelivered, old
  <2>2. accepted[d] > 0
    BY <2>1 DEF IInv, AnswerInv, old
  <2>3. CASE WritesRow(d, k, "delivered", retryCount[d], "done")
    BY <1>5, <1>7, <2>1, <2>2, <2>3
  <2>4. CASE WritesRow(d, k, "delivered", jobs[d][k].made + 1, "done")
    BY <1>2, <1>7, <2>1, <2>2, <2>4 DEF old
  <2>5. QED
    BY <1>11, <2>3, <2>4 DEF WriteDelivered
<1>12. ASSUME NoteFailure(d, k) PROVE IInv'
  <2>1. old.at = "note" /\ k # IndexerJob /\ ~ Last(d, k)
    BY <1>12, <1>4 DEF NoteFailure, IInv, AnswerInv, old
  <2>2. JobOwes(k, Sent("throw"))
    BY <1>3, <2>1 DEF JobOwes, JobPlaces, Live, Running
  <2>3. CASE WritesRow(d, k, "retrying", jobs[d][k].made + 1, "throw")
    BY <1>2, <1>7, <2>1, <2>2, <2>3 DEF old
  <2>4. CASE OnlyJob(d, k, "throw")
    BY <1>6, <2>1, <2>2, <2>4 DEF JobPlaces, Live, Running
  <2>5. QED
    BY <1>12, <2>3, <2>4 DEF NoteFailure
<1>13. ASSUME WriteFailed(d, k) PROVE IInv'
  <2>1. CASE jobs[d][k].at = "gaveUp" /\ WritesRow(d, k, "failed", jobs[d][k].made + 1, "throw")
    BY <1>2, <1>7, <2>1 DEF old
  <2>2. CASE jobs[d][k].at = "exhausted" /\ WritesRow(d, k, "failed", retryCount[d], "dlq")
    BY <1>5, <1>7, <2>2 DEF old
  <2>3. QED
    BY <1>13, <2>1, <2>2 DEF WriteFailed
<1>14. ASSUME NEW at \in JobPlaces \ {"absent", "sent", "note"}, PutJob(d, k, Finished(at)),
              UNCHANGED <<origin, row, call, sweep, merchant, swallowed, bounds>>,
              old.at \notin {"absent"}, old.at \in {"sent", "done", "completed"} => at = "completed",
              JobOwes(k, Finished(at)) \/ ~ JobOwes(k, old)
       PROVE  IInv'
  <2>1. /\ Finished(at) \in Jobs /\ Finished(at).at = at /\ Finished(at).made < AttemptsOf(k)
        /\ Finished(at) # NoJob /\ old # NoJob
    BY <1>2, <1>14, JobsTyped, Bounds
  <2>2. faults' = faults /\ retries' = retries
    BY <1>14 DEF bounds
  <2>3. QED
    BY <1>14, <2>1, <2>2, PlainMoves DEF old
<1>15. ASSUME DeadLetter(d, k) PROVE IInv'
  <2>1. old.at = "dlq"
    BY <1>15 DEF DeadLetter, old
  <2>2. CASE k = IndexerJob
    BY <1>14, <1>15, <2>1, <2>2 DEF DeadLetter, JobOwes, JobPlaces
  <2>3. CASE k # IndexerJob
    <3>1. OnlyJob(d, k, "gaveUp")
      BY <1>15, <2>3 DEF DeadLetter, OnlyJob
    <3>2. JobOwes(k, Sent("gaveUp"))
      BY <1>3 DEF JobOwes, JobPlaces, Live, Running
    <3>3. QED
      BY <1>6, <2>1, <3>1, <3>2 DEF JobPlaces, Live, Running
  <2>4. QED
    BY <2>2, <2>3
<1>16. ASSUME CompleteJob(d, k) PROVE IInv'
  <2>1. old.at = "done" /\ ~ JobOwes(k, old)
    BY <1>16 DEF CompleteJob, JobOwes, old
  <2>2. QED
    BY <1>14, <1>16, <2>1 DEF CompleteJob, JobPlaces
<1>17. /\ status[d] \in Statuses /\ status' = status => status' = [status EXCEPT ![d] = status[d]]
       /\ retryCount' = retryCount => retryCount' = [retryCount EXCEPT ![d] = retryCount[d]]
       /\ accepted[d] \in 0 .. 2 /\ accepted' = accepted => accepted' = [accepted EXCEPT ![d] = accepted[d]]
       /\ accepted[d] >= accepted[d]
       /\ faults' = faults => faults' \in 0 .. MaxFaults
       /\ status[d] \in Statuses /\ accepted[d] \in 0 .. 2 /\ lost \subseteq Delivery
  <2>1. status \in [Delivery -> Statuses] /\ retryCount \in [Delivery -> 0 .. MaxCount]
    BY <1>1 DEF TypeOK, Statuses
  <2>2. accepted \in [Delivery -> 0 .. 2] /\ faults \in 0 .. MaxFaults /\ lost \subseteq Delivery
    BY <1>1 DEF TypeOK
  <2>3. QED
    BY <2>1, <2>2
<1>18. status[d] = "delivered" => accepted[d] > 0
  BY DEF IInv, DeliveredWasAccepted
<1>19. ASSUME FailAttempt(d, k) PROVE IInv'
  <2>1. old.at = "throw" /\ UNCHANGED <<origin, status, call, sweep, merchant, swallowed, bounds>>
    BY <1>19 DEF FailAttempt, old
  <2>2. CASE Last(d, k)
    <3>1. retryCount' = retryCount
      BY <1>19, <2>2 DEF FailAttempt
    <3>2. UNCHANGED <<origin, row, call, sweep, merchant, swallowed, bounds>>
      BY <2>1, <3>1 DEF row
    <3>3. CASE k = IndexerJob
      <4>1. PutJob(d, k, Finished("exhausted"))
        BY <1>19, <2>2, <3>3 DEF FailAttempt
      <4>2. "exhausted" \in JobPlaces \ {"absent", "sent", "note"}
        BY DEF JobPlaces, Live, Running
      <4>3. JobOwes(k, Finished("exhausted"))
        BY <4>2, JobsTyped DEF JobOwes
      <4>4. QED
        BY <1>14, <2>1, <3>2, <4>1, <4>2, <4>3
    <3>4. CASE k # IndexerJob
      <4>1. PutJob(d, k, Finished("failed"))
        BY <1>19, <2>2, <3>4 DEF FailAttempt
      <4>2. ~ JobOwes(k, old)
        BY <1>4, <2>1, <2>2, <3>4 DEF JobOwes
      <4>3. QED
        BY <1>14, <2>1, <3>2, <4>1, <4>2 DEF JobPlaces
    <3>5. QED
      BY <3>3, <3>4
  <2>3. CASE ~ Last(d, k)
    <3> DEFINE job == [old EXCEPT !.at = "waiting", !.made = old.made + 1]
               count == IF k = IndexerJob /\ HasRow(d) THEN old.made + 1 ELSE retryCount[d]
    <3>1. PutJob(d, k, job) /\ retryCount' = [retryCount EXCEPT ![d] = count]
      BY <1>17, <1>19, <2>3 DEF FailAttempt, old
    <3>2. count \in Nat /\ (count <= MaxAttempts \/ count = retryCount[d])
      BY <1>2, <1>5
    <3>3. old.made + 1 < AttemptsOf(k) /\ old.made + 1 \in 0 .. MaxCount
      <4>1. ~ (old.made + 1 >= AttemptsOf(k)) /\ AttemptsOf(k) \in 1 .. MaxAttempts
            /\ MaxAttempts \in Nat /\ MaxCount = MaxAttempts + MaxRetries /\ MaxRetries \in Nat
        BY <2>3, Bounds, BoundsAssumption DEF Last, old
      <4>2. QED
        BY <1>2, <4>1
    <3>4. /\ job \in Jobs /\ job.at = "waiting" /\ job.made < AttemptsOf(k) /\ job # NoJob
          /\ old # NoJob
      BY <1>2, <2>1, <3>3, JobsTyped DEF Jobs, JobPlaces, Live
    <3> HIDE DEF job, count
    <3>5. JobOwes(k, job) /\ job.at \notin {"sent", "note"}
      BY <3>4 DEF JobOwes
    <3>6. /\ UNCHANGED <<origin, call, sweep, swallowed, retries>>
          /\ status' = [status EXCEPT ![d] = status[d]] /\ accepted' = [accepted EXCEPT ![d] = accepted[d]]
          /\ lost' \subseteq Delivery /\ lost \subseteq lost'
          /\ faults' = faults /\ faults' \in 0 .. MaxFaults
      BY <1>17, <2>1 DEF merchant, bounds
    <3>7. faults' = 0 /\ retries = 0 /\ k = FirstJob /\ origin[d] = "backend" /\ d \notin lost' =>
            accepted[d] <= 1 /\ (accepted[d] = 1 => job.at \in {"sent", "done", "completed"})
      BY <2>1, <3>6 DEF IInv, CopyInv, old
    <3>8. QED
      BY <1>17, <1>18, <3>1, <3>2, <3>4, <3>5, <3>6, <3>7, JobMoves DEF old
  <2>4. QED
    BY <2>2, <2>3
<1>20. ASSUME NEW isAccepted \in BOOLEAN, NEW isAnswered \in BOOLEAN,
              Deliver(d, k, isAccepted, isAnswered)
       PROVE  IInv'
  <2> DEFINE at == IF isAccepted /\ isAnswered THEN "sent" ELSE Rejected(d, k)
             yes == IF isAccepted THEN (IF accepted[d] = 2 THEN 2 ELSE accepted[d] + 1) ELSE accepted[d]
  <2>1. /\ old.at = "send" /\ PutJob(d, k, Sent(at))
        /\ accepted' = [accepted EXCEPT ![d] = yes]
        /\ lost' = IF isAccepted /\ ~ isAnswered THEN lost \cup {d} ELSE lost
        /\ UNCHANGED <<origin, row, call, sweep, swallowed, bounds>>
    BY <1>17, <1>20 DEF Deliver, At, Sent, old
  <2>2. at \in {"sent", "throw", "dlq", "note"} /\ at \in JobPlaces \ {"absent"}
    BY DEF Rejected, JobPlaces, Live, Running
  <2>3. /\ at = "note" => k # IndexerJob /\ ~ Last(d, k)
        /\ at = "dlq" => k # IndexerJob
        /\ at = "throw" => k = IndexerJob
        /\ at = "sent" => isAccepted /\ isAnswered
    BY DEF Rejected
  <2>4. yes \in 0 .. 2 /\ yes >= accepted[d] /\ (isAccepted => yes > 0)
    BY <1>17
  <2>5. /\ Sent(at) \in Jobs /\ Sent(at).at = at /\ Sent(at).made < AttemptsOf(k)
        /\ Sent(at) # NoJob /\ old # NoJob
        /\ LastTry(k, Sent(at)) <=> Last(d, k)
    BY <1>2, <1>3, <2>1, <2>2
  <2>6. JobOwes(k, Sent(at))
    BY <2>2, <2>3, <2>5 DEF JobOwes
  <2>7. /\ UNCHANGED <<origin, call, sweep, swallowed, retries>>
        /\ status' = [status EXCEPT ![d] = status[d]]
        /\ retryCount' = [retryCount EXCEPT ![d] = retryCount[d]]
        /\ lost' \subseteq Delivery /\ lost \subseteq lost'
        /\ faults' = faults /\ faults' \in 0 .. MaxFaults
    BY <1>17, <2>1 DEF row, bounds
  <2>8. faults' = 0 /\ retries = 0 /\ k = FirstJob /\ origin[d] = "backend" /\ d \notin lost' =>
          yes <= 1 /\ (yes = 1 => at \in {"sent", "done", "completed"})
    <3>1. ASSUME faults' = 0, retries = 0, k = FirstJob, origin[d] = "backend", d \notin lost'
          PROVE  accepted[d] = 0 /\ (isAccepted => isAnswered)
      BY <1>17, <2>1, <2>7, <3>1 DEF IInv, CopyInv, old
    <3>2. QED
      BY <3>1
  <2> HIDE DEF at, yes
  <2>9. /\ Sent(at).at = "sent" => yes > 0
        /\ Sent(at).at = "note" => k # IndexerJob /\ ~ LastTry(k, Sent(at))
    BY <2>3, <2>4, <2>5
  <2>10. QED
    BY <1>5, <1>17, <1>18, <2>1, <2>4, <2>5, <2>6, <2>7, <2>8, <2>9, JobMoves DEF old
<1>21. QED
  BY <1>8, <1>9, <1>10, <1>11, <1>12, <1>13, <1>15, <1>16, <1>19, <1>20 DEF JobStep

\* A worker that dies, a call of it that fails and a purged job keep the
\* invariant: after a fault only what the merchant answered is still promised.
LEMMA WorkerFaultPreserves ==
  ASSUME IInv, NEW d \in Delivery, NEW k \in JobKey,
         WorkerDies(d, k) \/ WorkerCallFails(d, k) \/ PurgeJob(d, k)
  PROVE  IInv'
<1> DEFINE old == jobs[d][k]
           Sent(at) == [old EXCEPT !.at = at]
<1>1. TypeOK
  BY DEF IInv
<1>2. /\ old \in Jobs /\ old.made < AttemptsOf(k) /\ AttemptsOf(k) > 0
      /\ old.at # "absent" => old # NoJob
  BY JobThere, Bounds
<1>3. ASSUME NEW at \in JobPlaces
      PROVE  Sent(at) \in Jobs /\ Sent(at).at = at /\ Sent(at).made = old.made
  BY <1>1, AtEffect
<1> HIDE DEF old, Sent
<1>4. /\ Fault /\ UNCHANGED <<origin, row, call, sweep, merchant, swallowed, retries>>
      /\ old.at # "absent"
  BY DEF WorkerDies, WorkerCallFails, PurgeJob, Running, old
<1>5. faults' # faults
  BY <1>1, <1>4, BoundsAssumption DEF Fault, TypeOK
<1>6. ASSUME NEW job \in Jobs, PutJob(d, k, job), job.made < AttemptsOf(k),
             job.at \notin {"sent", "note"}
      PROVE  IInv'
  BY <1>2, <1>4, <1>5, <1>6, PlainMoves DEF old
<1>7. ASSUME WorkerDies(d, k) PROVE IInv'
  <2>1. CASE PutJob(d, k, Finished("failed"))
    BY <1>2, <1>6, <2>1, JobsTyped DEF JobPlaces
  <2>2. CASE PutJob(d, k, [old EXCEPT !.at = "waiting", !.stalls = 1])
    <3> DEFINE job == [old EXCEPT !.at = "waiting", !.stalls = 1]
    <3>1. job \in Jobs /\ job.at = "waiting" /\ job.made = old.made
      BY <1>2 DEF Jobs, JobPlaces, Live
    <3> HIDE DEF job
    <3>2. PutJob(d, k, job)
      BY <2>2 DEF job
    <3>3. QED
      BY <1>2, <1>6, <3>1, <3>2
  <2>3. QED
    BY <1>7, <2>1, <2>2 DEF WorkerDies, old
<1>8. ASSUME NEW at \in {"send", "done", "throw", "gaveUp"}, At(d, k, at)
      PROVE  IInv'
  <2>1. at \in JobPlaces
    BY DEF JobPlaces, Live, Running
  <2>2. PutJob(d, k, Sent(at))
    BY <1>8 DEF At, Sent, old
  <2>3. QED
    BY <1>2, <1>3, <1>6, <2>1, <2>2
<1>9. ASSUME WorkerCallFails(d, k) PROVE IInv'
  <2>1. CASE PutJob(d, k, Finished("failed"))
    BY <1>2, <1>6, <2>1, JobsTyped DEF JobPlaces
  <2>2. QED
    BY <1>8, <1>9, <2>1 DEF WorkerCallFails
<1>10. ASSUME PurgeJob(d, k) PROVE IInv'
  BY <1>2, <1>6, <1>10, JobsTyped DEF PurgeJob
<1>11. QED
  BY <1>7, <1>9, <1>10

-----------------------------------------------------------------------------
(* A step of a caller.                                                     *)

\* Retries under way are counted: one more when a request is accepted, and no
\* more when a caller goes on.
LEMMA BumpingMoves ==
  ASSUME IInv, NEW c \in Caller, NEW place \in CallPlaces, call' = [call EXCEPT ![c] = place]
  PROVE  /\ IsFiniteSet(Bumping) /\ Cardinality(Bumping) \in Nat
         /\ IsFiniteSet(Bumping') /\ Cardinality(Bumping') \in Nat
         /\ Cardinality(Bumping') <= Cardinality(Bumping) + 1
         /\ place.pc # "bump" => Cardinality(Bumping') <= Cardinality(Bumping)
         /\ place.pc # "bump" /\ call[c].pc = "bump" => Cardinality(Bumping') = Cardinality(Bumping) - 1
<1>1. \A e \in Caller : call'[e] = IF e = c THEN place ELSE call[e]
  BY DEF IInv, TypeOK
<1>2. IsFiniteSet(Bumping) /\ Cardinality(Bumping) \in Nat
  BY FS_CardinalityType DEF IInv, CountInv
<1>3. CASE place.pc = "bump"
  <2>1. Bumping' = Bumping \cup {c}
    BY <1>1, <1>3 DEF Bumping
  <2>2. /\ IsFiniteSet(Bumping \cup {c})
        /\ Cardinality(Bumping \cup {c}) = IF c \in Bumping THEN Cardinality(Bumping) ELSE Cardinality(Bumping) + 1
    BY <1>2, FS_AddElement
  <2>3. IsFiniteSet(Bumping') /\ Cardinality(Bumping') \in {Cardinality(Bumping), Cardinality(Bumping) + 1}
    BY <2>1, <2>2
  <2>4. QED
    BY <1>2, <1>3, <2>3
<1>4. CASE place.pc # "bump"
  <2>1. Bumping' = Bumping \ {c}
    BY <1>1, <1>4 DEF Bumping
  <2>2. call[c].pc = "bump" => c \in Bumping
    BY DEF Bumping
  <2>3. /\ IsFiniteSet(Bumping \ {c})
        /\ Cardinality(Bumping \ {c}) = IF c \in Bumping THEN Cardinality(Bumping) - 1 ELSE Cardinality(Bumping)
    BY <1>2, FS_RemoveElement
  <2>4. /\ IsFiniteSet(Bumping')
        /\ Cardinality(Bumping') = IF c \in Bumping THEN Cardinality(Bumping) - 1 ELSE Cardinality(Bumping)
    BY <2>1, <2>3
  <2>5. Cardinality(Bumping') \in Nat
    BY <2>4, FS_CardinalityType
  <2> DEFINE n == Cardinality(Bumping)
             m == Cardinality(Bumping')
  <2>6. n \in Nat /\ m \in Nat /\ (m = n \/ m = n - 1) /\ (call[c].pc = "bump" => m = n - 1)
    BY <1>2, <2>2, <2>4, <2>5
  <2> HIDE DEF n, m
  <2>7. m <= n + 1 /\ m <= n
    BY <2>6
  <2>8. QED
    BY <1>2, <1>4, <2>4, <2>5, <2>6, <2>7 DEF n, m
<1>5. QED
  BY <1>3, <1>4

\* A call goes on to another place, and no row, job or answer changes.  It
\* keeps the invariant if its new place is one it may be in, and if what it
\* owed it still owes, or its retry met a job id in use.
LEMMA CallMoves ==
  ASSUME IInv, NEW c \in Caller, NEW place \in CallPlaces, call' = [call EXCEPT ![c] = place],
         UNCHANGED <<origin, row, jobs, merchant>>,
         AtWork(place) => place.del \in Delivery,
         place.del \in Delivery => origin[place.del] # "none",
         place.pc # "create",
         retries' \in 0 .. MaxRetries, retries' >= retries,
         place.pc = "bump" => retries' = retries + 1,
         faults' \in 0 .. MaxFaults, faults' = 0 => faults = 0,
         claimed' \subseteq Delivery, todo' \in [Sweeper -> SUBSET Delivery],
         \A s \in Sweeper, d \in Delivery : d \in todo'[s] =>
           origin[d] # "none" /\ (faults' = 0 => HasRow(d)),
         swallowed' \subseteq Delivery, swallowed \subseteq swallowed',
         faults' = 0 => place.pc # "failRow",
         faults' = 0 /\ place.pc \in {"add", "bump", "claim"} => HasRow(place.del),
         retries' = 0 /\ faults' = 0 =>
           place.key = FirstJob \/ place.del = None \/ origin[place.del] # "backend",
         faults' = 0 => \A d \in Delivery : CallOwes(c, d) =>
           d \in swallowed' \/ (place.pc = "add" /\ place.del = d /\ place.key = call[c].key)
  PROVE  IInv'
<1> USE DEF row, merchant
<1>1. TypeOK
  BY DEF IInv
<1>2. /\ call' \in [Caller -> CallPlaces]
      /\ \A e \in Caller : call'[e] = IF e = c THEN place ELSE call[e]
  BY <1>1 DEF TypeOK, CallPlaces
<1>3. TypeOK'
  BY <1>1, <1>2 DEF TypeOK, CallPlaces
<1>4. CountInv'
  <2> DEFINE n == Cardinality(Bumping)
             m == Cardinality(Bumping')
  <2>1. /\ n \in Nat /\ m \in Nat /\ IsFiniteSet(Bumping')
        /\ m <= n + 1 /\ (place.pc # "bump" => m <= n)
    BY BumpingMoves
  <2>2. n <= retries /\ \A d \in Delivery : retryCount[d] + n <= MaxAttempts + retries
    BY DEF IInv, CountInv
  <2>3. /\ retries \in Nat /\ retries' \in Nat /\ MaxAttempts \in Nat
        /\ \A d \in Delivery : retryCount[d] \in Nat
    <3>1. retryCount \in [Delivery -> 0 .. MaxCount] /\ retries \in 0 .. MaxRetries
      BY <1>1 DEF TypeOK
    <3>2. QED
      BY <3>1, Bounds
  <2> HIDE DEF n, m
  <2>4. m <= retries' /\ \A d \in Delivery : retryCount[d] + m <= MaxAttempts + retries'
    <3>1. CASE place.pc = "bump"
      BY <2>1, <2>2, <2>3, <3>1
    <3>2. CASE place.pc # "bump"
      BY <2>1, <2>2, <2>3, <3>2
    <3>3. QED
      BY <3>1, <3>2
  <2>5. \A d \in Delivery, k \in JobKey : jobs'[d][k].made < AttemptsOf(k)
    BY DEF IInv, CountInv
  <2>6. QED
    BY <2>1, <2>4, <2>5 DEF CountInv, m
<1>5. OriginInv'
  BY <1>2 DEF IInv, OriginInv, AtWork
<1>6. AnswerInv' /\ DeliveredWasAccepted'
  BY DEF IInv, AnswerInv, DeliveredWasAccepted, LastTry, AttemptsOf
<1>7. ASSUME faults' = 0
      PROVE  RowInv' /\ OwedInv'
  <2>1. RowInv /\ OwedInv
    BY <1>7 DEF IInv
  <2>2. \A d : HasRow(d)' <=> HasRow(d)
    BY DEF HasRow
  <2>3. RowInv'
    BY <1>2, <1>7, <2>1, <2>2 DEF RowInv
  <2>4. ASSUME NEW d \in Delivery, Undecided(d)'
        PROVE  \/ \E k \in JobKey : JobOwes(k, jobs'[d][k])
               \/ \E e \in Caller : CallOwes(e, d)'
               \/ d \in swallowed'
    <3>1. Undecided(d)
      BY <2>4 DEF Undecided
    <3>2. ASSUME NEW e \in Caller, CallOwes(e, d)
          PROVE  CallOwes(e, d)' \/ d \in swallowed'
      BY <1>2, <1>7, <3>2 DEF CallOwes
    <3>3. QED
      BY <2>1, <3>1, <3>2 DEF OwedInv
  <2>5. QED
    BY <2>3, <2>4 DEF OwedInv, JobOwes, LastTry, AttemptsOf
<1>8. ASSUME faults' = 0, retries' = 0
      PROVE  CopyInv'
  <2>1. CopyInv
    <3>1. retries \in Nat
      <4>1. retries \in 0 .. MaxRetries
        BY <1>1 DEF TypeOK
      <4>2. QED
        BY <4>1
    <3>2. retries = 0
      BY <1>8, <3>1
    <3>3. QED
      BY <1>8, <3>2 DEF IInv
  <2>2. \A e \in Caller, d \in Delivery :
          origin[d] = "backend" /\ call'[e].del = d => call'[e].key = FirstJob
    BY <1>2, <1>8, <2>1, NoneAssumption DEF CopyInv
  <2>3. QED
    BY <2>1, <2>2 DEF CopyInv
<1>9. QED
  BY <1>3, <1>4, <1>5, <1>6, <1>7, <1>8 DEF IInv

\* A call that goes on with the same delivery and job id is a call.
LEMMA GotoEffect ==
  ASSUME IInv, NEW c \in Caller, NEW pc \in Places
  PROVE  LET place == [call[c] EXCEPT !.pc = pc]
         IN  /\ place \in CallPlaces /\ place.pc = pc
             /\ place.del = call[c].del /\ place.key = call[c].key
             /\ Goto(c, pc) => call' = [call EXCEPT ![c] = place]
             /\ place.del \in Delivery => origin[place.del] # "none"
<1>1. call \in [Caller -> CallPlaces]
  BY DEF IInv, TypeOK, CallPlaces
<1>2. call[c].del \in Delivery => origin[call[c].del] # "none"
  BY DEF IInv, OriginInv
<1>3. QED
  BY <1>1, <1>2 DEF CallPlaces, Goto

\* A call that ends at an idle place, or goes on with its sweep, keeps the
\* invariant if the delivery it owed is marked, or something failed.
LEMMA IdleMoves ==
  ASSUME IInv, NEW c \in Caller, NEW pc \in {"idle", "loop"},
         call' = [call EXCEPT ![c] = [Idle EXCEPT !.pc = pc]],
         UNCHANGED <<origin, row, jobs, merchant, retries>>,
         faults' = faults \/ Fault,
         claimed' \subseteq Delivery,
         todo' \in [Sweeper -> SUBSET Delivery],
         \A s \in Sweeper : todo'[s] \subseteq todo[s],
         swallowed' \subseteq Delivery, swallowed \subseteq swallowed',
         faults' = faults => \A d \in Delivery : CallOwes(c, d) => d \in swallowed'
  PROVE  IInv'
<1> DEFINE place == [Idle EXCEPT !.pc = pc]
<1>1. /\ place \in CallPlaces /\ place.pc = pc /\ place.del = None /\ place.key = FirstJob
  BY IdleTyped DEF Idle, Places
<1>2. TypeOK
  BY DEF IInv
<1>3. /\ faults' \in 0 .. MaxFaults /\ (faults' = 0 => faults' = faults /\ faults = 0)
      /\ retries' \in 0 .. MaxRetries /\ retries' >= retries
  BY <1>2, BoundsAssumption DEF TypeOK, Fault
<1> HIDE DEF place
<1>4. call' = [call EXCEPT ![c] = place]
  BY DEF place
<1>5. ~ AtWork(place) /\ place.del \notin Delivery
  BY <1>1, NoneAssumption DEF AtWork
<1>6. \A s \in Sweeper, d \in Delivery : d \in todo'[s] =>
        origin[d] # "none" /\ (faults' = 0 => HasRow(d))
  BY <1>3 DEF IInv, OriginInv, RowInv
<1>7. QED
  BY <1>1, <1>3, <1>4, <1>5, <1>6, CallMoves

\* A call that goes on keeps the invariant, if nothing but the sweep changes.
LEMMA GotoMoves ==
  ASSUME IInv, NEW c \in Caller, NEW pc \in Places \ {"create", "bump"}, Goto(c, pc),
         UNCHANGED <<origin, row, jobs, merchant, swallowed, retries>>,
         faults' = faults \/ Fault,
         claimed' \subseteq Delivery,
         todo' \in [Sweeper -> SUBSET Delivery],
         \A s \in Sweeper, d \in Delivery : d \in todo'[s] => origin[d] # "none" /\ (faults' = 0 => HasRow(d)),
         pc \notin {"idle", "loop", "swept"} => AtWork(call[c]),
         faults' = faults => /\ pc # "failRow" /\ \A d \in Delivery : ~ CallOwes(c, d)
                             /\ pc = "add" => call[c].pc \in {"claim", "bump"}
                             /\ pc # "claim"
  PROVE  IInv'
<1> DEFINE place == [call[c] EXCEPT !.pc = pc]
<1>1. /\ place \in CallPlaces /\ place.pc = pc
      /\ place.del = call[c].del /\ place.key = call[c].key
      /\ call' = [call EXCEPT ![c] = place]
      /\ place.del \in Delivery => origin[place.del] # "none"
  BY GotoEffect
<1>2. TypeOK
  BY DEF IInv
<1>3. /\ faults' \in 0 .. MaxFaults /\ (faults' = 0 => faults' = faults /\ faults = 0)
      /\ retries' \in 0 .. MaxRetries /\ retries' >= retries
  BY <1>2, BoundsAssumption DEF TypeOK, Fault
<1> HIDE DEF place
<1>4. AtWork(place) => place.del \in Delivery
  BY <1>1 DEF AtWork, IInv, OriginInv
<1>5. faults' = 0 /\ place.pc \in {"add", "bump", "claim"} => HasRow(place.del)
  BY <1>1, <1>3 DEF IInv, RowInv
<1>6. retries' = 0 /\ faults' = 0 =>
        place.key = FirstJob \/ place.del = None \/ origin[place.del] # "backend"
  <2>1. place.del = None \/ place.del \in Delivery
    BY <1>1 DEF CallPlaces
  <2>2. QED
    BY <1>1, <1>3, <2>1 DEF IInv, CopyInv
<1>7. swallowed' \subseteq Delivery /\ swallowed \subseteq swallowed'
  BY <1>2 DEF TypeOK
<1>8. faults' = 0 => \A d \in Delivery : ~ CallOwes(c, d)
  BY <1>3
<1>9. QED
  BY <1>1, <1>3, <1>4, <1>5, <1>6, <1>7, <1>8, CallMoves

\* Where enqueueWebhook returns to.
LEMMA ReturnEffect ==
  ASSUME NEW c \in Caller, NEW job \in BOOLEAN, Return(c, job)
  PROVE  \/ c \in Sweeper /\ Goto(c, "revert")
         \/ \E pc \in {"idle", "loop"} : call' = [call EXCEPT ![c] = [Idle EXCEPT !.pc = pc]]
BY DEF Return

\* Every step of a sweep keeps the invariant.
LEMMA SweepStepPreserves ==
  ASSUME IInv, NEW s \in Sweeper, SweepStep(s)
  PROVE  IInv'
<1> USE DEF sweep, bounds, CallOwes
<1>1. TypeOK /\ s \in Caller
  BY DEF IInv, Caller
<1>2. /\ claimed \subseteq Delivery /\ todo \in [Sweeper -> SUBSET Delivery]
      /\ call[s] \in CallPlaces
      /\ \A z \in Sweeper, d \in Delivery : d \in todo[z] => origin[d] # "none" /\ (faults = 0 => HasRow(d))
  BY <1>1 DEF TypeOK, CallPlaces, IInv, OriginInv, RowInv
<1>3. /\ {"loop", "claim", "add", "revert", "swept"} \subseteq Places \ {"create", "bump"}
      /\ AtWork(call[s]) => call[s].del \in Delivery
  BY <1>1 DEF Places, IInv, OriginInv
<1>4. ASSUME FindStale(s) PROVE IInv'
  <2>1. PICK stale \in SUBSET {d \in Delivery : status[d] = "pending" /\ d \notin claimed} :
          todo' = [todo EXCEPT ![s] = stale]
    BY <1>4 DEF FindStale
  <2>2. /\ call[s].pc = "idle" /\ Goto(s, "loop")
        /\ UNCHANGED <<origin, row, jobs, claimed, merchant, swallowed, bounds>>
    BY <1>4 DEF FindStale
  <2>3. todo' \in [Sweeper -> SUBSET Delivery]
    BY <1>2, <2>1
  <2>4. \A d \in Delivery : status[d] = "pending" => origin[d] # "none" /\ HasRow(d)
    BY DEF IInv, OriginInv, HasRow
  <2>5. \A z \in Sweeper, d \in Delivery : d \in todo'[z] => origin[d] # "none" /\ (faults' = 0 => HasRow(d))
    BY <1>2, <2>1, <2>2, <2>4
  <2>6. QED
    BY <1>1, <1>2, <1>3, <2>2, <2>3, <2>5, GotoMoves
<1>5. ASSUME NEW d \in Delivery, CheckJob(s, d) PROVE IInv'
  <2>1. /\ call[s].pc = "loop" /\ d \in todo[s] /\ todo' = [todo EXCEPT ![s] = @ \ {d}]
        /\ UNCHANGED <<origin, row, jobs, claimed, merchant, swallowed, bounds>>
    BY <1>5 DEF CheckJob
  <2>2. todo' \in [Sweeper -> SUBSET Delivery]
    BY <1>2, <2>1
  <2>3. \A z \in Sweeper, e \in Delivery : e \in todo'[z] => origin[e] # "none" /\ (faults' = 0 => HasRow(e))
    BY <1>2, <2>1
  <2>4. CASE UNCHANGED call
    <3>1. Goto(s, "loop")
      BY <1>1, <2>1, <2>4 DEF Goto, TypeOK
    <3>2. QED
      BY <1>1, <1>2, <1>3, <2>1, <2>2, <2>3, <3>1, GotoMoves
  <2>5. CASE call' = [call EXCEPT ![s] = [pc |-> "claim", del |-> d, key |-> FirstJob]]
    <3> DEFINE place == [pc |-> "claim", del |-> d, key |-> FirstJob]
    <3>1. place \in CallPlaces /\ place.pc = "claim" /\ place.del = d /\ place.key = FirstJob
      BY Bounds DEF CallPlaces, Places
    <3> HIDE DEF place
    <3>2. origin[d] # "none" /\ (faults = 0 => HasRow(d))
      BY <1>2, <2>1
    <3>3. /\ retries' \in 0 .. MaxRetries /\ retries' >= retries
          /\ faults' \in 0 .. MaxFaults /\ swallowed' \subseteq Delivery /\ swallowed \subseteq swallowed'
      BY <1>1, <2>1 DEF TypeOK
    <3>4. call' = [call EXCEPT ![s] = place]
      BY <2>5 DEF place
    <3>5. QED
      BY <1>1, <1>2, <2>1, <2>2, <2>3, <3>1, <3>2, <3>3, <3>4, CallMoves
  <2>6. QED
    BY <1>5, <2>4, <2>5 DEF CheckJob
<1>6. ASSUME ClaimRow(s) PROVE IInv'
  <2>1. /\ call[s].pc = "claim" /\ claimed' = claimed \cup {call[s].del} /\ Goto(s, "add")
        /\ UNCHANGED <<origin, row, jobs, todo, merchant, swallowed, bounds>>
    BY <1>6 DEF ClaimRow
  <2>2. AtWork(call[s])
    BY <2>1 DEF AtWork
  <2>3. claimed' \subseteq Delivery
    BY <1>2, <1>3, <2>1, <2>2
  <2>4. QED
    BY <1>1, <1>2, <1>3, <2>1, <2>2, <2>3, GotoMoves
<1>7. ASSUME RevertClaim(s) PROVE IInv'
  <2>1. /\ call[s].pc = "revert" /\ claimed' = claimed \ {call[s].del}
        /\ call' = [call EXCEPT ![s] = [Idle EXCEPT !.pc = "loop"]]
        /\ UNCHANGED <<origin, row, jobs, todo, merchant, swallowed, bounds>>
    BY <1>7 DEF RevertClaim
  <2>2. swallowed' \subseteq Delivery /\ swallowed \subseteq swallowed'
    BY <1>1, <2>1 DEF TypeOK
  <2>3. QED
    BY <1>1, <1>2, <2>1, <2>2, IdleMoves
<1>8. ASSUME EndSweep(s) PROVE IInv'
  <2>1. /\ call[s].pc = "loop" /\ Goto(s, "swept")
        /\ UNCHANGED <<origin, row, jobs, claimed, todo, merchant, swallowed, bounds>>
    BY <1>8 DEF EndSweep
  <2>2. QED
    BY <1>1, <1>2, <1>3, <2>1, GotoMoves
<1>9. QED
  BY <1>4, <1>5, <1>6, <1>7, <1>8 DEF SweepStep

\* A taken job id, an accepted retry and the faults of callers keep the
\* invariant.
LEMMA CallerMovesPreserve ==
  ASSUME IInv, NEW c \in Caller,
         \/ AddExisting(c)
         \/ c \in Request /\ \E d \in Delivery : RetryWebhook(c, d)
         \/ CreateRowFails(c) \/ CallerDies(c) \/ CallerCallFails(c)
  PROVE  IInv'
<1> USE DEF sweep, bounds, CallOwes
<1>1. TypeOK
  BY DEF IInv
<1>2. /\ claimed \subseteq Delivery /\ todo \in [Sweeper -> SUBSET Delivery] /\ swallowed \subseteq Delivery
      /\ call[c] \in CallPlaces
      /\ \A z \in Sweeper, d \in Delivery : d \in todo[z] => origin[d] # "none" /\ (faults = 0 => HasRow(d))
      /\ AtWork(call[c]) => call[c].del \in Delivery
  BY <1>1 DEF TypeOK, CallPlaces, IInv, OriginInv, RowInv
<1>3. {"loop", "claim", "add", "revert", "swept"} \subseteq Places \ {"create", "bump"}
  BY DEF Places
<1>4. Fault => (faults' = 0 => faults = 0) /\ faults' # faults
  BY <1>1, BoundsAssumption DEF Fault, TypeOK
<1>5. ASSUME AddExisting(c) PROVE IInv'
  <2>1. /\ call[c].pc = "add" /\ jobs[call[c].del][call[c].key] # NoJob
        /\ swallowed' = IF c \in Request THEN swallowed \cup {call[c].del} ELSE swallowed
        /\ UNCHANGED <<origin, row, jobs, sweep, merchant, bounds>>
    BY <1>5 DEF AddExisting
  <2>2. AtWork(call[c])
    BY <2>1 DEF AtWork
  <2>3. swallowed' \subseteq Delivery /\ swallowed \subseteq swallowed'
    BY <1>2, <2>1, <2>2
  <2>4. CASE c \in Sweeper /\ Goto(c, "revert")
    <3>1. c \notin Request
      BY <2>4, ProcessAssumption
    <3>2. QED
      BY <1>2, <1>3, <2>1, <2>2, <2>4, <3>1, GotoMoves
  <2>5. ASSUME NEW pc \in {"idle", "loop"}, call' = [call EXCEPT ![c] = [Idle EXCEPT !.pc = pc]]
        PROVE  IInv'
    BY <1>2, <2>1, <2>3, <2>5, IdleMoves
  <2>6. QED
    BY <1>5, <2>4, <2>5, ReturnEffect DEF AddExisting
<1>6. ASSUME c \in Request, NEW d \in Delivery, RetryWebhook(c, d) PROVE IInv'
  <2> DEFINE place == [pc |-> "bump", del |-> d, key |-> FirstJob]
  <2>1. place \in CallPlaces /\ place.pc = "bump" /\ place.del = d /\ place.key = FirstJob
    BY Bounds DEF CallPlaces, Places
  <2>2. call' = [call EXCEPT ![c] = place]
    BY <1>6 DEF RetryWebhook
  <2> HIDE DEF place
  <2>3. /\ call[c].pc = "idle" /\ retries < MaxRetries /\ status[d] = "failed" /\ retries' = retries + 1
        /\ UNCHANGED <<origin, row, jobs, claimed, todo, merchant, swallowed, faults>>
    BY <1>6 DEF RetryWebhook
  <2>4. origin[d] # "none" /\ HasRow(d)
    BY <2>3 DEF IInv, OriginInv, HasRow
  <2>5. retries' \in 0 .. MaxRetries /\ retries' >= retries /\ faults' \in 0 .. MaxFaults
    BY <1>1, <2>3, BoundsAssumption DEF TypeOK
  <2>6. swallowed' \subseteq Delivery /\ swallowed \subseteq swallowed'
    BY <1>2, <2>3
  <2>7. QED
    BY <1>2, <2>1, <2>2, <2>3, <2>4, <2>5, <2>6, CallMoves
<1>7. ASSUME CreateRowFails(c) PROVE IInv'
  <2>1. /\ Fault /\ call[c].pc = "create" /\ Goto(c, "add")
        /\ UNCHANGED <<origin, row, jobs, claimed, todo, merchant, swallowed, retries>>
    BY <1>7 DEF CreateRowFails
  <2>2. AtWork(call[c])
    BY <2>1 DEF AtWork
  <2>3. QED
    BY <1>2, <1>3, <1>4, <2>1, <2>2, GotoMoves
<1>8. ASSUME CallerDies(c) PROVE IInv'
  <2>1. /\ Fault /\ call' = [call EXCEPT ![c] = Idle]
        /\ todo' = IF c \in Sweeper THEN [todo EXCEPT ![c] = {}] ELSE todo
        /\ UNCHANGED <<origin, row, jobs, claimed, merchant, swallowed, retries>>
    BY <1>8 DEF CallerDies
  <2>2. Idle = [Idle EXCEPT !.pc = "idle"]
    BY DEF Idle
  <2>3. todo' \in [Sweeper -> SUBSET Delivery] /\ \A s \in Sweeper : todo'[s] \subseteq todo[s]
    BY <1>2, <2>1
  <2>4. call' = [call EXCEPT ![c] = [Idle EXCEPT !.pc = "idle"]]
    BY <2>1, <2>2
  <2>5. QED
    BY <1>2, <1>4, <2>1, <2>3, <2>4, IdleMoves
<1>9. ASSUME CallerCallFails(c) PROVE IInv'
  <2>1. Fault /\ UNCHANGED <<origin, row, jobs, claimed, todo, merchant, swallowed, retries>>
    BY <1>9 DEF CallerCallFails
  <2>2. ASSUME NEW pc \in {"idle", "loop"}, call' = [call EXCEPT ![c] = [Idle EXCEPT !.pc = pc]]
        PROVE  IInv'
    BY <1>2, <1>4, <2>1, <2>2, IdleMoves
  <2>3. CASE call[c].pc = "failRow" /\ Return(c, FALSE)
    <3>1. ASSUME Goto(c, "revert") PROVE IInv'
      <4>1. AtWork(call[c])
        BY <2>3 DEF AtWork
      <4>2. QED
        BY <1>2, <1>3, <1>4, <2>1, <3>1, <4>1, GotoMoves
    <3>2. QED
      BY <2>2, <2>3, <3>1, ReturnEffect
  <2>4. CASE call' = [call EXCEPT ![c] = Idle]
    <3>1. Idle = [Idle EXCEPT !.pc = "idle"]
      BY DEF Idle
    <3>2. call' = [call EXCEPT ![c] = [Idle EXCEPT !.pc = "idle"]]
      BY <2>4, <3>1
    <3>3. QED
      BY <2>2, <3>2
  <2>5. CASE call' = [call EXCEPT ![c] = [Idle EXCEPT !.pc = "loop"]]
    BY <2>2, <2>5
  <2>6. QED
    BY <1>9, <2>3, <2>4, <2>5 DEF CallerCallFails
<1>10. QED
  BY <1>5, <1>6, <1>7, <1>8, <1>9

\* A call that goes on somewhere, and not to a retry's update, keeps the counts.
LEMMA CountKept ==
  ASSUME IInv, NEW c \in Caller, NEW place \in CallPlaces, call' = [call EXCEPT ![c] = place],
         place.pc # "bump", UNCHANGED <<retryCount, retries>>,
         \A d \in Delivery, k \in JobKey : jobs'[d][k].made < AttemptsOf(k)
  PROVE  CountInv'
<1> DEFINE n == Cardinality(Bumping)
           m == Cardinality(Bumping')
<1>1. n \in Nat /\ m \in Nat /\ IsFiniteSet(Bumping') /\ m <= n
  BY BumpingMoves
<1>2. n <= retries /\ \A d \in Delivery : retryCount[d] + n <= MaxAttempts + retries
  BY DEF IInv, CountInv
<1>3. /\ retries \in Nat /\ MaxAttempts \in Nat
      /\ \A d \in Delivery : retryCount[d] \in Nat
  <2>1. retryCount \in [Delivery -> 0 .. MaxCount] /\ retries \in 0 .. MaxRetries
    BY DEF IInv, TypeOK
  <2>2. QED
    BY <2>1, Bounds
<1> HIDE DEF n, m
<1>4. m <= retries /\ \A d \in Delivery : retryCount[d] + m <= MaxAttempts + retries
  BY <1>1, <1>2, <1>3
<1>5. QED
  BY <1>1, <1>4 DEF CountInv, m

\* An event that is announced keeps the invariant.
LEMMA ProducePreserves ==
  ASSUME IInv, NEW p \in Producer, NEW d \in Delivery, NEW service \in {"backend", "indexer"},
         Produce(p, d, service)
  PROVE  IInv'
<1> USE DEF row, sweep, merchant, bounds
<1> DEFINE key == IF service = "indexer" THEN IndexerJob ELSE FirstJob
           place == [pc |-> "create", del |-> d, key |-> key]
<1>1. TypeOK /\ p \in Caller
  BY DEF IInv, Caller
<1>2. /\ place \in CallPlaces /\ place.pc = "create" /\ place.del = d
      /\ service = "backend" => place.key = FirstJob
  BY Bounds DEF CallPlaces, Places
<1>3. /\ call[p].pc = "idle" /\ origin[d] = "none" /\ origin' = [origin EXCEPT ![d] = service]
      /\ call' = [call EXCEPT ![p] = place]
      /\ UNCHANGED <<row, jobs, sweep, merchant, swallowed, bounds>>
  BY DEF Produce
<1> HIDE DEF place
<1>4. /\ call' \in [Caller -> CallPlaces]
      /\ \A e \in Caller : call'[e] = IF e = p THEN place ELSE call[e]
      /\ \A e \in Delivery : origin'[e] = IF e = d THEN service ELSE origin[e]
  BY <1>1, <1>2, <1>3 DEF TypeOK, CallPlaces
<1>5. TypeOK'
  BY <1>1, <1>3, <1>4 DEF TypeOK, CallPlaces
<1>6. CountInv'
  BY <1>1, <1>2, <1>3, CountKept DEF IInv, CountInv
<1>7. status[d] = "none" /\ accepted[d] = 0 /\ \A k \in JobKey : jobs[d][k] = NoJob
  BY <1>3 DEF IInv, OriginInv
<1>8. \A e \in Caller : call[e].del # d
  BY <1>3 DEF IInv, OriginInv
<1>9. OriginInv'
  BY <1>2, <1>3, <1>4 DEF IInv, OriginInv, AtWork
<1>10. AnswerInv' /\ DeliveredWasAccepted'
  BY <1>3 DEF IInv, AnswerInv, DeliveredWasAccepted, LastTry, AttemptsOf
<1>11. ASSUME faults' = 0 PROVE RowInv' /\ OwedInv'
  <2>1. RowInv /\ OwedInv
    BY <1>3, <1>11 DEF IInv
  <2>2. RowInv'
    BY <1>2, <1>3, <1>4, <1>7, <1>8, <2>1 DEF RowInv, HasRow
  <2>3. \A e \in Caller, f \in Delivery : CallOwes(e, f) => CallOwes(e, f)'
    BY <1>3, <1>4 DEF CallOwes
  <2>4. OwedInv'
    BY <1>3, <2>1, <2>3 DEF OwedInv, Undecided, JobOwes, LastTry, AttemptsOf
  <2>5. QED
    BY <2>2, <2>4
<1>12. ASSUME faults' = 0, retries' = 0 PROVE CopyInv'
  <2>1. CopyInv
    BY <1>3, <1>12 DEF IInv
  <2>2. ASSUME NEW e \in Delivery, origin'[e] = "backend"
        PROVE  /\ \A c \in Caller : call'[c].del = e => call'[c].key = FirstJob
               /\ \A m \in JobKey : m # FirstJob => jobs'[e][m] = NoJob
               /\ e \notin lost' =>
                    /\ accepted'[e] <= 1
                    /\ accepted'[e] = 1 => jobs'[e][FirstJob].at \in {"sent", "done", "completed"}
    <3>1. CASE e = d
      BY <1>2, <1>3, <1>4, <1>7, <1>8, <2>2, <3>1
    <3>2. CASE e # d
      BY <1>2, <1>3, <1>4, <2>1, <2>2, <3>2 DEF CopyInv
    <3>3. QED
      BY <3>1, <3>2
  <2>3. QED
    BY <2>2 DEF CopyInv
<1>13. QED
  BY <1>5, <1>6, <1>9, <1>10, <1>11, <1>12 DEF IInv

\* The insert of the row keeps the invariant: its caller owes it a job.
LEMMA CreateRowPreserves ==
  ASSUME IInv, NEW p \in Producer, CreateRow(p)
  PROVE  IInv'
<1> USE DEF sweep, merchant, bounds
<1> DEFINE place == [call[p] EXCEPT !.pc = "add"]
<1>1. TypeOK /\ p \in Caller
  BY DEF IInv, Caller
<1>a. call[p].del \in Delivery
  BY <1>1 DEF CreateRow, IInv, OriginInv, AtWork
<1>b. PICK d \in Delivery : d = call[p].del
  BY <1>a
<1>2. /\ call[p].pc = "create" /\ status' = [status EXCEPT ![d] = "pending"] /\ Goto(p, "add")
      /\ UNCHANGED <<origin, retryCount, jobs, sweep, merchant, swallowed, bounds>>
  BY <1>b DEF CreateRow
<1>3. d \in Delivery /\ origin[d] # "none"
  BY <1>1, <1>b DEF IInv, OriginInv
<1>4. /\ place \in CallPlaces /\ place.pc = "add" /\ place.del = d /\ place.key = call[p].key
      /\ call' = [call EXCEPT ![p] = place]
  BY <1>1, <1>2, <1>b, GotoEffect DEF Places
<1> HIDE DEF place
<1>5. /\ call' \in [Caller -> CallPlaces]
      /\ \A e \in Caller : call'[e] = IF e = p THEN place ELSE call[e]
      /\ \A e \in Delivery : status'[e] = IF e = d THEN "pending" ELSE status[e]
  BY <1>1, <1>2, <1>4 DEF TypeOK, CallPlaces
<1>6. TypeOK'
  BY <1>1, <1>2, <1>5 DEF TypeOK, CallPlaces
<1>7. CountInv'
  BY <1>1, <1>2, <1>4, CountKept DEF IInv, CountInv
<1>8. OriginInv'
  BY <1>2, <1>3, <1>4, <1>5 DEF IInv, OriginInv, AtWork
<1>9. AnswerInv' /\ DeliveredWasAccepted'
  BY <1>2, <1>5 DEF IInv, AnswerInv, DeliveredWasAccepted, LastTry, AttemptsOf
<1>10. ASSUME faults' = 0 PROVE RowInv' /\ OwedInv'
  <2>1. RowInv /\ OwedInv
    BY <1>2, <1>10 DEF IInv
  <2>2. ~ HasRow(d) /\ \A e \in Caller : call[e].pc = "create" /\ call[e].del = d => e = p
    BY <1>1, <1>2, <1>b, <2>1 DEF RowInv
  <2>3. /\ HasRow(d)' /\ \A e \in Delivery : HasRow(e) => HasRow(e)'
        /\ \A e \in Delivery : e # d /\ HasRow(e)' => HasRow(e)
    BY <1>3, <1>5 DEF HasRow
  <2>4. \A e \in Caller : call[e].pc \in {"add", "bump", "claim", "create"} => call[e].del \in Delivery
    BY DEF IInv, OriginInv, AtWork
  <2>5. RowInv'
    BY <1>2, <1>4, <1>5, <2>1, <2>2, <2>3, <2>4 DEF RowInv
  <2>6. CallOwes(p, d)'
    <3>1. call[p].key \in JobKey
      BY <1>1 DEF TypeOK
    <3>2. jobs[d][call[p].key] = NoJob
      BY <1>3, <2>1, <2>2, <3>1 DEF RowInv
    <3>3. QED
      BY <1>1, <1>2, <1>4, <1>5, <3>2 DEF CallOwes
  <2>7. \A e \in Caller, f \in Delivery : CallOwes(e, f) => CallOwes(e, f)'
    BY <1>2, <1>5 DEF CallOwes
  <2>8. OwedInv'
    BY <1>1, <1>2, <1>5, <2>1, <2>6, <2>7 DEF OwedInv, Undecided, JobOwes, LastTry, AttemptsOf
  <2>9. QED
    BY <2>5, <2>8
<1>11. ASSUME faults' = 0, retries' = 0 PROVE CopyInv'
  <2>1. CopyInv
    BY <1>2, <1>11 DEF IInv
  <2>2. \A e \in Caller : call'[e].del = call[e].del /\ call'[e].key = call[e].key
    BY <1>4, <1>5, <1>b
  <2>3. QED
    BY <1>2, <2>1, <2>2 DEF CopyInv
<1>12. QED
  BY <1>6, <1>7, <1>8, <1>9, <1>10, <1>11 DEF IInv

\* A job that is added keeps the invariant: it owes what its caller owed.
LEMMA AddJobPreserves ==
  ASSUME IInv, NEW c \in Caller, AddJob(c)
  PROVE  IInv'
<1> USE DEF row, sweep, merchant, bounds
<1>1. TypeOK
  BY DEF IInv
<1>2. call[c].pc = "add" /\ call[c].del \in Delivery /\ call[c].key \in JobKey
  BY <1>1 DEF AddJob, IInv, OriginInv, AtWork, TypeOK
<1>3. PICK d \in Delivery, k \in JobKey : d = call[c].del /\ k = call[c].key
  BY <1>2
<1>4. /\ jobs[d][k] = NoJob /\ PutJob(d, k, NewJob) /\ Return(c, TRUE)
      /\ UNCHANGED <<origin, row, sweep, merchant, swallowed, bounds>>
  BY <1>3 DEF AddJob
<1>5. PICK pc \in {"idle", "loop"} : call' = [call EXCEPT ![c] = [Idle EXCEPT !.pc = pc]]
  BY <1>4 DEF Return
<1> DEFINE place == [Idle EXCEPT !.pc = pc]
<1>6. /\ place \in CallPlaces /\ place.pc = pc /\ place.del = None /\ place.key = FirstJob
  BY IdleTyped DEF Idle, Places
<1>7. call' = [call EXCEPT ![c] = place]
  BY <1>5
<1> HIDE DEF place
<1>8. /\ call' \in [Caller -> CallPlaces]
      /\ \A e \in Caller : call'[e] = IF e = c THEN place ELSE call[e]
  BY <1>1, <1>6, <1>7 DEF TypeOK, CallPlaces
<1>9. /\ jobs' \in [Delivery -> [JobKey -> Jobs]] /\ jobs'[d][k] = NewJob
      /\ \A e \in Delivery, m \in JobKey : (e # d \/ m # k) => jobs'[e][m] = jobs[e][m]
      /\ NewJob.at = "waiting" /\ NewJob.made = 0 /\ NoJob.at = "absent"
  BY <1>1, <1>4, JobsTyped, PutJobEffect
<1>10. TypeOK'
  BY <1>1, <1>4, <1>8, <1>9 DEF TypeOK, CallPlaces, Jobs, JobPlaces
<1>11. CountInv'
  <2>1. \A e \in Delivery, m \in JobKey : jobs'[e][m].made < AttemptsOf(m)
    BY <1>9, Bounds DEF IInv, CountInv
  <2>2. QED
    BY <1>4, <1>6, <1>7, <2>1, CountKept
<1>12. origin[d] # "none"
  BY <1>3 DEF IInv, OriginInv
<1>13. OriginInv'
  BY <1>4, <1>6, <1>8, <1>9, <1>12, NoneAssumption DEF IInv, OriginInv, AtWork
<1>14. AnswerInv' /\ DeliveredWasAccepted'
  <2>1. ASSUME NEW e \in Delivery, NEW m \in JobKey
        PROVE  /\ jobs'[e][m].at = "sent" => accepted'[e] > 0
               /\ jobs'[e][m].at = "note" => m # IndexerJob /\ ~ LastTry(m, jobs'[e][m])
    <3>1. CASE e = d /\ m = k
      BY <1>9, <3>1
    <3>2. CASE ~ (e = d /\ m = k)
      BY <1>4, <1>9, <3>2 DEF IInv, AnswerInv
    <3>3. QED
      BY <3>1, <3>2
  <2>2. QED
    BY <1>4, <2>1 DEF IInv, AnswerInv, DeliveredWasAccepted, LastTry, AttemptsOf
<1>15. ASSUME faults' = 0 PROVE RowInv' /\ OwedInv'
  <2>1. RowInv /\ OwedInv
    BY <1>4, <1>15 DEF IInv
  <2>2. HasRow(d)
    BY <1>2, <1>3, <2>1 DEF RowInv
  <2>3. RowInv'
    BY <1>4, <1>6, <1>8, <1>9, <2>1, <2>2 DEF RowInv, HasRow
  <2>4. ASSUME NEW f \in Delivery, Undecided(f)'
        PROVE  \/ \E m \in JobKey : JobOwes(m, jobs'[f][m])
               \/ \E e \in Caller : CallOwes(e, f)'
               \/ f \in swallowed'
    <3>1. CASE f = d
      <4>1. JobOwes(k, jobs'[f][k])
        BY <1>9, <3>1 DEF JobOwes
      <4>2. QED
        BY <4>1
    <3>2. CASE f # d
      <4>1. \A m \in JobKey : jobs'[f][m] = jobs[f][m]
        BY <1>9, <3>2
      <4>2. \A e \in Caller : CallOwes(e, f) => CallOwes(e, f)'
        BY <1>1, <1>3, <1>8, <3>2, <4>1 DEF CallOwes, TypeOK
      <4>3. Undecided(f)
        BY <1>4, <2>4 DEF Undecided
      <4>4. QED
        BY <1>4, <2>1, <4>1, <4>2, <4>3 DEF OwedInv
    <3>3. QED
      BY <3>1, <3>2
  <2>5. QED
    BY <2>3, <2>4 DEF OwedInv, JobOwes, LastTry, AttemptsOf
<1>16. ASSUME faults' = 0, retries' = 0 PROVE CopyInv'
  <2>1. CopyInv
    BY <1>4, <1>16 DEF IInv
  <2>2. ASSUME NEW e \in Delivery, origin'[e] = "backend"
        PROVE  /\ \A b \in Caller : call'[b].del = e => call'[b].key = FirstJob
               /\ \A m \in JobKey : m # FirstJob => jobs'[e][m] = NoJob
               /\ e \notin lost' =>
                    /\ accepted'[e] <= 1
                    /\ accepted'[e] = 1 => jobs'[e][FirstJob].at \in {"sent", "done", "completed"}
    <3>1. e = d => k = FirstJob
      BY <1>3, <1>4, <2>1, <2>2 DEF CopyInv
    <3>2. e = d /\ e \notin lost => accepted[e] <= 1 /\ accepted[e] # 1
      BY <1>4, <1>9, <2>1, <2>2, <3>1 DEF CopyInv
    <3>3. QED
      BY <1>4, <1>6, <1>8, <1>9, <2>1, <2>2, <3>1, <3>2, Bounds DEF CopyInv
  <2>3. QED
    BY <2>2 DEF CopyInv
<1>17. QED
  BY <1>10, <1>11, <1>13, <1>14, <1>15, <1>16 DEF IInv

\* A failed call of the queue keeps what holds in spite of faults, whether or
\* not it added the job.
LEMMA AddFailsPreserves ==
  ASSUME IInv, NEW c \in Caller, AddFails(c)
  PROVE  IInv'
<1> USE DEF row, sweep, merchant
<1>1. TypeOK
  BY DEF IInv
<1>2. call[c].pc = "add" /\ call[c].del \in Delivery /\ call[c].key \in JobKey
  BY <1>1 DEF AddFails, IInv, OriginInv, AtWork, TypeOK
<1>3. PICK d \in Delivery, k \in JobKey : d = call[c].del /\ k = call[c].key
  BY <1>2
<1>4. /\ UNCHANGED jobs \/ (jobs[d][k] = NoJob /\ PutJob(d, k, NewJob))
      /\ Goto(c, "failRow") /\ UNCHANGED <<origin, row, sweep, merchant, swallowed, retries>>
      /\ faults' \in 0 .. MaxFaults /\ faults' # 0
  BY <1>1, <1>3, BoundsAssumption DEF AddFails, Fault, TypeOK
<1> DEFINE place == [call[c] EXCEPT !.pc = "failRow"]
<1>5. /\ place \in CallPlaces /\ place.pc = "failRow" /\ place.del = call[c].del
      /\ call' = [call EXCEPT ![c] = place]
  BY <1>4, GotoEffect DEF Places
<1> HIDE DEF place
<1>6. /\ call' \in [Caller -> CallPlaces]
      /\ \A e \in Caller : call'[e] = IF e = c THEN place ELSE call[e]
  BY <1>1, <1>5 DEF TypeOK, CallPlaces
<1>7. /\ jobs' \in [Delivery -> [JobKey -> Jobs]]
      /\ \A e \in Delivery, m \in JobKey :
           jobs'[e][m] = jobs[e][m] \/ (e = d /\ jobs'[e][m] = NewJob)
      /\ NewJob.at = "waiting" /\ NewJob.made = 0
  <2>1. CASE UNCHANGED jobs
    BY <1>1, <2>1, JobsTyped DEF TypeOK, Jobs, JobPlaces
  <2>2. CASE PutJob(d, k, NewJob)
    BY <1>1, <2>2, JobsTyped, PutJobEffect
  <2>3. QED
    BY <1>4, <2>1, <2>2
<1>8. TypeOK'
  BY <1>1, <1>4, <1>6, <1>7 DEF TypeOK, CallPlaces, Jobs, JobPlaces
<1>9. CountInv'
  <2>1. \A e \in Delivery, m \in JobKey : jobs'[e][m].made < AttemptsOf(m)
    BY <1>7, Bounds DEF IInv, CountInv
  <2>2. QED
    BY <1>4, <1>5, <2>1, CountKept
<1>10. origin[d] # "none"
  BY <1>3 DEF IInv, OriginInv
<1>11. OriginInv'
  BY <1>2, <1>4, <1>5, <1>6, <1>7, <1>10 DEF IInv, OriginInv, AtWork
<1>12. AnswerInv' /\ DeliveredWasAccepted'
  <2>1. ASSUME NEW e \in Delivery, NEW m \in JobKey
        PROVE  /\ jobs'[e][m].at = "sent" => accepted'[e] > 0
               /\ jobs'[e][m].at = "note" => m # IndexerJob /\ ~ LastTry(m, jobs'[e][m])
    BY <1>4, <1>7 DEF IInv, AnswerInv
  <2>2. QED
    BY <1>4, <2>1 DEF IInv, AnswerInv, DeliveredWasAccepted, LastTry, AttemptsOf
<1>13. QED
  BY <1>4, <1>8, <1>9, <1>11, <1>12 DEF IInv

\* The row a caller fails after the queue failed it keeps what holds in spite
\* of faults.
LEMMA FailRowPreserves ==
  ASSUME IInv, NEW c \in Caller, FailRow(c)
  PROVE  IInv'
<1> USE DEF sweep, merchant, bounds
<1>1. TypeOK
  BY DEF IInv
<1>2. call[c].pc = "failRow" /\ call[c].del \in Delivery
  BY <1>1 DEF FailRow, IInv, OriginInv, AtWork
<1>3. PICK d \in Delivery : d = call[c].del
  BY <1>2
<1>4. /\ status' = [status EXCEPT ![d] = "failed"] \/ status' = status
      /\ Return(c, FALSE)
      /\ UNCHANGED <<origin, retryCount, jobs, sweep, merchant, swallowed, bounds>>
  BY <1>3 DEF FailRow
<1>5. faults' # 0
  BY <1>2, <1>4 DEF IInv, RowInv
<1>6. PICK place \in CallPlaces :
        /\ call' = [call EXCEPT ![c] = place] /\ place.pc \in {"idle", "loop", "revert"}
        /\ place.del = d \/ (place.del = None /\ ~ AtWork(place))
  <2>1. ASSUME NEW pc \in {"idle", "loop"}, call' = [call EXCEPT ![c] = [Idle EXCEPT !.pc = pc]]
        PROVE  \E place \in CallPlaces :
                 /\ call' = [call EXCEPT ![c] = place] /\ place.pc \in {"idle", "loop", "revert"}
                 /\ place.del = d \/ (place.del = None /\ ~ AtWork(place))
    <3>1. [Idle EXCEPT !.pc = pc] \in CallPlaces
      BY IdleTyped DEF Places
    <3>2. [Idle EXCEPT !.pc = pc].pc = pc /\ [Idle EXCEPT !.pc = pc].del = None
      BY DEF Idle
    <3>3. QED
      BY <2>1, <3>1, <3>2 DEF AtWork
  <2>2. ASSUME Goto(c, "revert")
        PROVE  \E place \in CallPlaces :
                 /\ call' = [call EXCEPT ![c] = place] /\ place.pc \in {"idle", "loop", "revert"}
                 /\ place.del = d \/ (place.del = None /\ ~ AtWork(place))
    <3>1. [call[c] EXCEPT !.pc = "revert"] \in CallPlaces
      BY GotoEffect DEF Places
    <3>2. /\ [call[c] EXCEPT !.pc = "revert"].pc = "revert" /\ [call[c] EXCEPT !.pc = "revert"].del = d
          /\ call' = [call EXCEPT ![c] = [call[c] EXCEPT !.pc = "revert"]]
      BY <1>3, <2>2, GotoEffect DEF Places
    <3>3. QED
      BY <3>1, <3>2
  <2>3. QED
    BY <1>4, <2>1, <2>2, ReturnEffect
<1>7. /\ call' \in [Caller -> CallPlaces]
      /\ \A e \in Caller : call'[e] = IF e = c THEN place ELSE call[e]
      /\ status' \in [Delivery -> Statuses]
      /\ \A e \in Delivery : status'[e] = status[e] \/ (e = d /\ status'[e] = "failed")
  BY <1>1, <1>4, <1>6 DEF TypeOK, CallPlaces, Statuses
<1>8. TypeOK'
  BY <1>1, <1>4, <1>7 DEF TypeOK, CallPlaces, Statuses
<1>9. CountInv'
  BY <1>4, <1>6, CountKept DEF IInv, CountInv
<1>10. origin[d] # "none"
  BY <1>3 DEF IInv, OriginInv
<1>11. OriginInv'
  <2>1. \A e \in Delivery : origin[e] = "none" => status'[e] = "none"
    BY <1>7, <1>10 DEF IInv, OriginInv
  <2>2. /\ AtWork(place) => place.del \in Delivery
        /\ place.del \in Delivery => place.del = d
    BY <1>6, NoneAssumption
  <2>3. QED
    BY <1>4, <1>6, <1>7, <1>10, <2>1, <2>2 DEF IInv, OriginInv, AtWork
<1>12. AnswerInv' /\ DeliveredWasAccepted'
  BY <1>4, <1>7 DEF IInv, AnswerInv, DeliveredWasAccepted, LastTry, AttemptsOf
<1>13. QED
  BY <1>5, <1>8, <1>9, <1>11, <1>12 DEF IInv

\* The update of a retry keeps the invariant: its count and its job id stay in
\* range, and the request owes the row the job.
LEMMA BumpPreserves ==
  ASSUME IInv, NEW r \in Request, BumpRetryCount(r)
  PROVE  IInv'
<1> USE DEF sweep, merchant, bounds
<1>1. TypeOK /\ r \in Caller
  BY DEF IInv, Caller
<1>2. call[r].pc = "bump" /\ call[r].del \in Delivery
  BY <1>1 DEF BumpRetryCount, IInv, OriginInv, AtWork
<1>3. PICK d \in Delivery : d = call[r].del
  BY <1>2
<1> DEFINE attempt == retryCount[d] + 1
<1>4. /\ status' = [status EXCEPT ![d] = "retrying"]
      /\ retryCount' = [retryCount EXCEPT ![d] = attempt]
      /\ call' = [call EXCEPT ![r].pc = "add", ![r].key = RetryJob(attempt)]
      /\ UNCHANGED <<origin, jobs, sweep, merchant, swallowed, bounds>>
  BY <1>3 DEF BumpRetryCount
<1> DEFINE place == [call[r] EXCEPT !.pc = "add", !.key = RetryJob(attempt)]
           n == Cardinality(Bumping)
           m == Cardinality(Bumping')
<1>5. /\ retries \in 0 .. MaxRetries /\ retries \in Nat /\ MaxRetries \in Nat /\ MaxAttempts \in Nat
      /\ MaxCount = MaxAttempts + MaxRetries
      /\ \A e \in Delivery : retryCount[e] \in Nat
  <2>1. retryCount \in [Delivery -> 0 .. MaxCount] /\ retries \in 0 .. MaxRetries
    BY <1>1 DEF TypeOK
  <2>2. QED
    BY <2>1, Bounds, BoundsAssumption
<1>6. n \in Nat /\ n <= retries /\ \A e \in Delivery : retryCount[e] + n <= MaxAttempts + retries
  BY FS_CardinalityType DEF IInv, CountInv
<1>7. n >= 1
  <2>1. r \in Bumping /\ IsFiniteSet(Bumping)
    BY <1>1, <1>2 DEF Bumping, IInv, CountInv
  <2>2. n # 0
    BY <2>1, FS_EmptySet
  <2> HIDE DEF n
  <2>3. QED
    BY <1>6, <2>2
<1> HIDE DEF n
<1>8. attempt \in 0 .. MaxCount /\ attempt \in Nat
  BY <1>5, <1>6, <1>7
<1>9. place \in CallPlaces /\ place.pc = "add" /\ place.del = d /\ place.key = RetryJob(attempt)
      /\ call' = [call EXCEPT ![r] = place]
  <2>1. call[r] \in CallPlaces /\ RetryJob(attempt) \in JobKey /\ "add" \in Places
    BY <1>1, <1>8, Bounds DEF TypeOK, CallPlaces, Places
  <2> HIDE DEF attempt
  <2>2. place \in CallPlaces /\ place.pc = "add" /\ place.del = d /\ place.key = RetryJob(attempt)
    BY <1>3, <2>1 DEF CallPlaces
  <2>3. QED
    BY <1>1, <1>4, <2>2 DEF TypeOK
<1> HIDE DEF place, attempt
<1>10. m = n - 1 /\ IsFiniteSet(Bumping')
  BY <1>1, <1>2, <1>9, BumpingMoves DEF n
<1> HIDE DEF m
<1>11. /\ call' \in [Caller -> CallPlaces]
       /\ \A e \in Caller : call'[e] = IF e = r THEN place ELSE call[e]
       /\ \A e \in Delivery : status'[e] = IF e = d THEN "retrying" ELSE status[e]
       /\ \A e \in Delivery : retryCount'[e] = IF e = d THEN attempt ELSE retryCount[e]
  BY <1>1, <1>4, <1>9 DEF TypeOK, CallPlaces
<1>12. TypeOK'
  BY <1>1, <1>4, <1>8, <1>11 DEF TypeOK, CallPlaces
<1>13. CountInv'
  <2>1. m <= retries
    BY <1>5, <1>6, <1>10
  <2>2. \A e \in Delivery : retryCount'[e] + m <= MaxAttempts + retries
    <3>1. retryCount[d] + n <= MaxAttempts + retries /\ retryCount[d] \in Nat
      BY <1>5, <1>6
    <3>2. attempt + m <= MaxAttempts + retries
      BY <1>5, <1>6, <1>10, <3>1 DEF attempt
    <3>3. \A e \in Delivery : retryCount[e] + m <= MaxAttempts + retries
      BY <1>5, <1>6, <1>10
    <3>4. QED
      BY <1>11, <3>2, <3>3
  <2>3. \A e \in Delivery, k \in JobKey : jobs'[e][k].made < AttemptsOf(k)
    BY <1>4 DEF IInv, CountInv
  <2>4. QED
    BY <1>4, <1>10, <2>1, <2>2, <2>3 DEF CountInv, m
<1>14. origin[d] # "none"
  BY <1>1, <1>3 DEF IInv, OriginInv
<1>15. OriginInv'
  BY <1>4, <1>9, <1>11, <1>14 DEF IInv, OriginInv, AtWork
<1>16. AnswerInv' /\ DeliveredWasAccepted'
  BY <1>4, <1>11 DEF IInv, AnswerInv, DeliveredWasAccepted, LastTry, AttemptsOf
<1>17. ASSUME faults' = 0 PROVE RowInv' /\ OwedInv'
  <2>1. RowInv /\ OwedInv
    BY <1>4, <1>17 DEF IInv
  <2>2. HasRow(d)
    BY <1>1, <1>2, <1>3, <2>1 DEF RowInv
  <2>3. \A e \in Delivery : HasRow(e)' <=> HasRow(e)
    BY <1>11, <2>2 DEF HasRow
  <2>4. \A e \in Caller : call[e].pc \in {"add", "bump", "claim", "create"} => call[e].del \in Delivery
    BY DEF IInv, OriginInv, AtWork
  <2>5. RowInv'
    <3>1. \A e \in Caller :
            /\ call'[e].pc # "failRow"
            /\ call'[e].pc \in {"add", "bump", "claim"} => HasRow(call'[e].del)
            /\ call'[e].pc = "create" => ~ HasRow(call'[e].del)
      BY <1>9, <1>11, <2>1, <2>2 DEF RowInv
    <3>2. \A e \in Caller :
            call'[e].pc \in {"add", "bump", "claim", "create"} => call'[e].del \in Delivery
      BY <1>9, <1>11, <2>4
    <3>3. \A e \in Caller : call'[e].pc = "create" => call'[e] = call[e]
      BY <1>9, <1>11
    <3>4. \A e \in Caller :
            call'[e].pc \in {"add", "bump", "claim", "create"} =>
              (HasRow(call'[e].del) <=> status'[call'[e].del] # "none")
      BY <2>3, <3>2 DEF HasRow
    <3>5. \A e, f \in Caller :
            (call'[e].pc = "create" /\ call'[f].pc = "create" /\ call'[e].del = call'[f].del) => e = f
      BY <2>1, <3>3 DEF RowInv
    <3>6. /\ \A s \in Sweeper, e \in Delivery : e \in todo'[s] => HasRow(e)'
          /\ \A e \in Delivery, k \in JobKey : jobs'[e][k] # NoJob => HasRow(e)'
      BY <1>4, <2>1, <2>3 DEF RowInv
    <3>7. QED
      BY <3>1, <3>4, <3>5, <3>6 DEF RowInv, HasRow
  <2>6. CallOwes(r, d)'
    BY <1>1, <1>9, <1>11 DEF CallOwes
  <2>7. \A e \in Caller, f \in Delivery : CallOwes(e, f) => CallOwes(e, f)'
    BY <1>2, <1>4, <1>11 DEF CallOwes
  <2>8. OwedInv'
    BY <1>1, <1>4, <1>11, <2>1, <2>6, <2>7 DEF OwedInv, Undecided, JobOwes, LastTry, AttemptsOf
  <2>9. QED
    BY <2>5, <2>8
<1>18. retries' # 0
  BY <1>4, <1>5, <1>6, <1>7
<1>19. QED
  BY <1>12, <1>13, <1>15, <1>16, <1>17, <1>18 DEF IInv

-----------------------------------------------------------------------------
\* Every step of the outbox keeps the invariant.
LEMMA NextPreserves == IInv /\ [Next]_vars => IInv'
<1> SUFFICES ASSUME IInv, [Next]_vars PROVE IInv'
  OBVIOUS
<1>1. ASSUME NEW p \in Producer, NEW d \in Delivery, NEW service \in {"backend", "indexer"},
             Produce(p, d, service)
      PROVE  IInv'
  BY <1>1, ProducePreserves
<1>2. ASSUME NEW c \in Caller, EnqueueWebhook(c) PROVE IInv'
  BY <1>2, CreateRowPreserves, AddJobPreserves, CallerMovesPreserve, FailRowPreserves DEF EnqueueWebhook
<1>3. ASSUME NEW r \in Request, BumpRetryCount(r) \/ \E d \in Delivery : RetryWebhook(r, d)
      PROVE  IInv'
  <2>1. r \in Caller
    BY DEF Caller
  <2>2. QED
    BY <1>3, <2>1, BumpPreserves, CallerMovesPreserve
<1>4. ASSUME NEW s \in Sweeper, SweepStep(s) PROVE IInv'
  BY <1>4, SweepStepPreserves
<1>5. ASSUME NEW d \in Delivery, NEW k \in JobKey, JobStep(d, k) PROVE IInv'
  BY <1>5, JobStepPreserves
<1>6. ASSUME FaultNext PROVE IInv'
  <2>1. ASSUME NEW p \in Producer, CreateRowFails(p) PROVE IInv'
    <3>1. p \in Caller
      BY DEF Caller
    <3>2. QED
      BY <2>1, <3>1, CallerMovesPreserve
  <2>2. ASSUME NEW c \in Caller, AddFails(c) \/ CallerDies(c) \/ CallerCallFails(c) PROVE IInv'
    BY <2>2, AddFailsPreserves, CallerMovesPreserve
  <2>3. ASSUME NEW d \in Delivery, NEW k \in JobKey,
               WorkerDies(d, k) \/ WorkerCallFails(d, k) \/ PurgeJob(d, k)
        PROVE  IInv'
    BY <2>3, WorkerFaultPreserves
  <2>4. QED
    BY <1>6, <2>1, <2>2, <2>3 DEF FaultNext
<1>7. CASE UNCHANGED vars
  <2> USE DEF vars, row, sweep, merchant, bounds
  <2>1. TypeOK' /\ OriginInv' /\ DeliveredWasAccepted'
    BY <1>7 DEF IInv, TypeOK, OriginInv, AtWork, DeliveredWasAccepted
  <2>2. CountInv' /\ AnswerInv'
    BY <1>7 DEF IInv, CountInv, Bumping, AnswerInv, LastTry, AttemptsOf
  <2>3. (faults' = 0 => RowInv' /\ OwedInv') /\ (faults' = 0 /\ retries' = 0 => CopyInv')
    BY <1>7 DEF IInv, RowInv, HasRow, OwedInv, Undecided, JobOwes, CallOwes, LastTry, AttemptsOf, CopyInv
  <2>4. QED
    BY <2>1, <2>2, <2>3 DEF IInv
<1>8. QED
  BY <1>1, <1>2, <1>3, <1>4, <1>5, <1>6, <1>7 DEF Next

\* In every reachable state the rows, jobs, calls and answers of the outbox
\* satisfy the inductive invariant.
THEOREM Invariance == Spec => []IInv
BY InitEstablishes, NextPreserves, PTL DEF Spec

\* The outbox is well typed: no retry count and no id of a retry job leaves its
\* range, although retries of one row run at once (retryWebhook).
THEOREM TypeCorrect == Spec => []TypeOK
<1>1. IInv => TypeOK
  BY DEF IInv
<1>2. QED
  BY <1>1, Invariance, PTL

\* A row says delivered only if the merchant accepted the event, whatever
\* crashed and whoever wrote the row last (webhookWorker.ts, dispatcher.ts).
THEOREM DeliveredTruly == Spec => []DeliveredWasAccepted
<1>1. IInv => DeliveredWasAccepted
  BY DEF IInv
<1>2. QED
  BY <1>1, Invariance, PTL

\* No order of producers, retries, sweeps and workers strands a row: without a
\* fault, one not decided has a live job or a caller that is adding one.
THEOREM NoneStranded == Spec => []NothingStranded
<1>1. IInv => NothingStranded
  <2> SUFFICES ASSUME IInv, NEW d \in Delivery, Undecided(d), ~ (faults > 0), d \notin swallowed
               PROVE  (\E k \in JobKey : LiveJob(d, k)) \/ Enqueuing(d)
    BY DEF NothingStranded
  <2>1. faults = 0
    <3>1. faults \in 0 .. MaxFaults
      BY DEF IInv, TypeOK
    <3>2. QED
      BY <3>1, BoundsAssumption
  <2>2. (\E k \in JobKey : JobOwes(k, jobs[d][k])) \/ \E c \in Caller : CallOwes(c, d)
    BY <2>1 DEF IInv, OwedInv
  <2>3. \A k \in JobKey : JobOwes(k, jobs[d][k]) => LiveJob(d, k)
    BY DEF JobOwes, LiveJob, Live, Running
  <2>4. \A c \in Caller : CallOwes(c, d) => Enqueuing(d)
    BY DEF CallOwes, Enqueuing
  <2>5. QED
    BY <2>2, <2>3, <2>4
<1>2. QED
  BY <1>1, Invariance, PTL

\* The merchant is sent one copy of a backend event, although its producer and
\* the sweep may both add a job, unless an answer was lost, a retry asked for it
\* or something failed (jobId `wh-<id>` of both).
THEOREM OneCopyOnly == Spec => []OneCopy
<1>1. IInv => OneCopy
  <2>1. ASSUME IInv PROVE retries \in Nat /\ faults \in Nat
    <3>1. retries \in 0 .. MaxRetries /\ faults \in 0 .. MaxFaults
      BY <2>1 DEF IInv, TypeOK
    <3>2. QED
      BY <3>1
  <2>2. ASSUME IInv PROVE \A d \in Delivery : accepted[d] \in 0 .. 2
    BY <2>2 DEF IInv, TypeOK
  <2>3. QED
    BY <2>1, <2>2 DEF IInv, CopyInv, OneCopy
<1>2. QED
  BY <1>1, Invariance, PTL
=============================================================================
