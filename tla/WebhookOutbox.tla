--------------------------- MODULE WebhookOutbox ---------------------------
(***************************************************************************)
(* The durable outbox of merchant webhooks: the rows of webhook_deliveries *)
(* and the two BullMQ queues that deliver them.                            *)
(*                                                                         *)
(*   - enqueueWebhook of the backend (jobs/webhookQueue.ts) and of the     *)
(*     indexer (queue/index.ts) write a row, then add a job named after it;*)
(*   - the workers of both services (jobs/webhookWorker.ts,                *)
(*     webhook/dispatcher.ts) send the event and write the outcome;        *)
(*   - a backend that starts sweeps the table for orphans;                 *)
(*   - the merchant retries a failed row (controllers/webhookController.ts).*)
(*                                                                         *)
(* A step is one awaited call.  BullMQ is external: a job id that is taken *)
(* is not added again, a job whose worker died is run once more.           *)
(***************************************************************************)
EXTENDS Naturals, FiniteSets

CONSTANTS
  Delivery,         \* events to announce, one webhook_deliveries row each
  Producer,         \* calls of enqueueWebhook for new events, in flight at once
  Request,          \* retry requests of merchants in flight at once
  Sweeper,          \* starting backends that sweep for orphans
  Attempts,         \* attempts of a backend job
  IndexerAttempts,  \* attempts of an indexer job
  MaxRetries,       \* bound: manual retries
  MaxFaults,        \* bound: crashes, failed calls and purged jobs
  None              \* no delivery

ASSUME BoundsAssumption ==
  /\ Attempts \in Nat \ {0} /\ IndexerAttempts \in Nat \ {0}
  /\ MaxRetries \in Nat /\ MaxFaults \in Nat

ASSUME NoneAssumption == None \notin Delivery

ASSUME ProcessAssumption ==
  Producer \cap Request = {} /\ Producer \cap Sweeper = {} /\ Request \cap Sweeper = {}

Caller == Producer \cup Request \cup Sweeper

\* The jobs a delivery may have: one of the indexer's queue, `wh-<id>` of the
\* backend's, and `wh-<id>-retry-<attempt>`.
IndexerJob == 0
FirstJob == 1
RetryJob(attempt) == FirstJob + attempt

\* retryCount never passes the attempts of a job by more than the retries.
MaxCount == (IF Attempts > IndexerAttempts THEN Attempts ELSE IndexerAttempts) + MaxRetries
JobKey == 0 .. RetryJob(MaxCount)

VARIABLES
  origin,        \* the service that enqueued a delivery
  status,        \* webhook_deliveries.status, "none" before the row exists
  retryCount,    \* webhook_deliveries.retryCount
  claimed,       \* deliveries whose nextRetryAt is set
  jobs,          \* [Delivery -> [JobKey -> where the job is]]
  call,          \* where each caller of enqueueWebhook is
  todo,          \* stale rows a sweep has still to look at
  accepted,      \* how often the merchant accepted the event; 2 stands for more
  lost,          \* deliveries one of whose answers was lost
  swallowed,     \* deliveries one of whose retries met a job id in use
  retries,       \* manual retries so far
  faults         \* faults so far

row == <<status, retryCount>>
sweep == <<claimed, todo>>
merchant == <<accepted, lost>>
bounds == <<retries, faults>>
vars == <<origin, row, jobs, call, sweep, merchant, swallowed, bounds>>

-----------------------------------------------------------------------------
Places == {"idle", "create", "add", "failRow",         \* enqueueWebhook
           "bump",                                     \* retryWebhook
           "loop", "claim", "revert", "swept"}         \* the orphan sweep

Running == {"mark", "send", "noUrl", "sent", "dlq", "gaveUp", "note", "done", "throw",
            "exhausted"}
Live == Running \cup {"waiting"}

NoJob == [at |-> "absent", made |-> 0, stalls |-> 0]
NewJob == [NoJob EXCEPT !.at = "waiting"]
Idle == [pc |-> "idle", del |-> None, key |-> FirstJob]

\* A finished job is kept for its id only.
Finished(at) == [NoJob EXCEPT !.at = at]

TypeOK ==
  /\ origin \in [Delivery -> {"none", "backend", "indexer"}]
  /\ status \in [Delivery -> {"none", "pending", "retrying", "delivered", "failed"}]
  /\ retryCount \in [Delivery -> 0 .. MaxCount]
  /\ claimed \subseteq Delivery
  /\ jobs \in [Delivery -> [JobKey ->
       [at : Live \cup {"absent", "completed", "failed"},
        made : 0 .. MaxCount, stalls : {0, 1}]]]
  /\ call \in [Caller -> [pc : Places, del : Delivery \cup {None}, key : JobKey]]
  /\ todo \in [Sweeper -> SUBSET Delivery]
  /\ accepted \in [Delivery -> 0 .. 2]
  /\ lost \subseteq Delivery
  /\ swallowed \subseteq Delivery
  /\ retries \in 0 .. MaxRetries /\ faults \in 0 .. MaxFaults

Init ==
  /\ origin = [d \in Delivery |-> "none"]
  /\ status = [d \in Delivery |-> "none"]
  /\ retryCount = [d \in Delivery |-> 0]
  /\ claimed = {}
  /\ jobs = [d \in Delivery |-> [k \in JobKey |-> NoJob]]
  /\ call = [c \in Caller |-> Idle]
  /\ todo = [s \in Sweeper |-> {}]
  /\ accepted = [d \in Delivery |-> 0]
  /\ lost = {} /\ swallowed = {}
  /\ retries = 0 /\ faults = 0

HasRow(d) == status[d] # "none"
LiveJob(d, k) == jobs[d][k].at \in Live
Fault == faults < MaxFaults /\ faults' = faults + 1

Goto(c, pc) == call' = [call EXCEPT ![c].pc = pc]

-----------------------------------------------------------------------------
(* enqueueWebhook, entered at "create" for a new event and at "add" by a   *)
(* retry or by the sweep.                                                  *)

Produce(p, d, service) ==
  /\ call[p].pc = "idle"
  /\ origin[d] = "none"
  /\ origin' = [origin EXCEPT ![d] = service]
  /\ call' = [call EXCEPT ![p] =
       [pc |-> "create", del |-> d,
        key |-> IF service = "indexer" THEN IndexerJob ELSE FirstJob]]
  /\ UNCHANGED <<row, jobs, sweep, merchant, swallowed, bounds>>

CreateRow(p) ==
  /\ call[p].pc = "create"
  /\ status' = [status EXCEPT ![call[p].del] = "pending"]
  /\ Goto(p, "add")
  /\ UNCHANGED <<origin, retryCount, jobs, sweep, merchant, swallowed, bounds>>

\* "Continue without durable id if DB write fails": a job without a row.
CreateRowFails(p) ==
  /\ Fault
  /\ call[p].pc = "create"
  /\ Goto(p, "add")
  /\ UNCHANGED <<origin, row, jobs, sweep, merchant, swallowed, retries>>

\* Where the caller goes on when enqueueWebhook returns a job, or null.
Return(c, job) ==
  IF c \in Sweeper /\ ~ job THEN Goto(c, "revert")
  ELSE call' = [call EXCEPT ![c] =
         [Idle EXCEPT !.pc = IF c \in Sweeper THEN "loop" ELSE "idle"]]

PutJob(d, k, job) == jobs' = [jobs EXCEPT ![d][k] = job]

AddJob(c) ==
  /\ call[c].pc = "add"
  /\ jobs[call[c].del][call[c].key] = NoJob
  /\ PutJob(call[c].del, call[c].key, NewJob)
  /\ Return(c, TRUE)
  /\ UNCHANGED <<origin, row, sweep, merchant, swallowed, bounds>>

\* The id is taken, by a live job or by a finished one that is kept.
AddExisting(c) ==
  /\ call[c].pc = "add"
  /\ jobs[call[c].del][call[c].key] # NoJob
  /\ swallowed' = IF c \in Request THEN swallowed \cup {call[c].del} ELSE swallowed
  /\ Return(c, TRUE) \/ Return(c, FALSE)
  /\ UNCHANGED <<origin, row, jobs, sweep, merchant, bounds>>

\* Redis is down, or its answer is: the job may have been added.
AddFails(c) ==
  /\ Fault
  /\ call[c].pc = "add"
  /\ \/ UNCHANGED jobs
     \/ /\ jobs[call[c].del][call[c].key] = NoJob
        /\ PutJob(call[c].del, call[c].key, NewJob)
  /\ Goto(c, "failRow")
  /\ UNCHANGED <<origin, row, sweep, merchant, swallowed, retries>>

\* Only the path without a queue creates a failed row where there is none.
FailRow(c) ==
  /\ call[c].pc = "failRow"
  /\ LET d == call[c].del
     IN  \/ status' = [status EXCEPT ![d] = "failed"]
         \/ ~ HasRow(d) /\ UNCHANGED status
  /\ Return(c, FALSE)
  /\ UNCHANGED <<origin, retryCount, jobs, sweep, merchant, swallowed, bounds>>

EnqueueWebhook(c) ==
  \/ c \in Producer /\ CreateRow(c)
  \/ AddJob(c) \/ AddExisting(c) \/ FailRow(c)

-----------------------------------------------------------------------------
(* retryWebhook.                                                           *)

\* 400 unless the row reads failed.
RetryWebhook(r, d) ==
  /\ call[r].pc = "idle"
  /\ retries < MaxRetries
  /\ status[d] = "failed"
  /\ retries' = retries + 1
  /\ call' = [call EXCEPT ![r] = [pc |-> "bump", del |-> d, key |-> FirstJob]]
  /\ UNCHANGED <<origin, row, jobs, sweep, merchant, swallowed, faults>>

\* The update does not ask again that the row is failed.
BumpRetryCount(r) ==
  /\ call[r].pc = "bump"
  /\ LET d == call[r].del
         attempt == retryCount[d] + 1
     IN  /\ status' = [status EXCEPT ![d] = "retrying"]
         /\ retryCount' = [retryCount EXCEPT ![d] = attempt]
         /\ call' = [call EXCEPT ![r].pc = "add", ![r].key = RetryJob(attempt)]
  /\ UNCHANGED <<origin, jobs, sweep, merchant, swallowed, bounds>>

-----------------------------------------------------------------------------
(* recoverOrphanedPendingDeliveries, once per start of a backend.          *)

\* Any pending row may be older than ORPHAN_PENDING_AGE_MS by now.
FindStale(s) ==
  /\ call[s].pc = "idle"
  /\ \E stale \in SUBSET {d \in Delivery : status[d] = "pending" /\ d \notin claimed} :
       todo' = [todo EXCEPT ![s] = stale]
  /\ Goto(s, "loop")
  /\ UNCHANGED <<origin, row, jobs, claimed, merchant, swallowed, bounds>>

\* getJob looks in the backend's queue only.
CheckJob(s, d) ==
  /\ call[s].pc = "loop"
  /\ d \in todo[s]
  /\ todo' = [todo EXCEPT ![s] = @ \ {d}]
  /\ IF jobs[d][FirstJob] # NoJob
     THEN UNCHANGED call
     ELSE call' = [call EXCEPT ![s] = [pc |-> "claim", del |-> d, key |-> FirstJob]]
  /\ UNCHANGED <<origin, row, jobs, claimed, merchant, swallowed, bounds>>

ClaimRow(s) ==
  /\ call[s].pc = "claim"
  /\ claimed' = claimed \cup {call[s].del}
  /\ Goto(s, "add")
  /\ UNCHANGED <<origin, row, jobs, todo, merchant, swallowed, bounds>>

RevertClaim(s) ==
  /\ call[s].pc = "revert"
  /\ claimed' = claimed \ {call[s].del}
  /\ call' = [call EXCEPT ![s] = [Idle EXCEPT !.pc = "loop"]]
  /\ UNCHANGED <<origin, row, jobs, todo, merchant, swallowed, bounds>>

EndSweep(s) ==
  /\ call[s].pc = "loop"
  /\ todo[s] = {}
  /\ Goto(s, "swept")
  /\ UNCHANGED <<origin, row, jobs, sweep, merchant, swallowed, bounds>>

SweepStep(s) ==
  \/ FindStale(s) \/ (\E d \in Delivery : CheckJob(s, d))
  \/ ClaimRow(s) \/ RevertClaim(s) \/ EndSweep(s)

-----------------------------------------------------------------------------
(* The processors of the two queues, on job k of delivery d.               *)

AttemptsOf(k) == IF k = IndexerJob THEN IndexerAttempts ELSE Attempts
Last(d, k) == jobs[d][k].made + 1 >= AttemptsOf(k)
At(d, k, at) == PutJob(d, k, [jobs[d][k] EXCEPT !.at = at])

\* The job goes on to `at` and nothing else changes.
OnlyJob(d, k, at) ==
  /\ At(d, k, at)
  /\ UNCHANGED <<origin, row, call, sweep, merchant, swallowed, bounds>>

\* The job goes on to `at` once it has written the row.
WritesRow(d, k, new, count, at) ==
  /\ status' = [status EXCEPT ![d] = new]
  /\ retryCount' = [retryCount EXCEPT ![d] = count]
  /\ At(d, k, at)
  /\ UNCHANGED <<origin, call, sweep, merchant, swallowed, bounds>>

\* The processor starts by reading the merchant, who may have no webhookUrl.
TakeJob(d, k) ==
  /\ jobs[d][k].at = "waiting"
  /\ \/ OnlyJob(d, k, "noUrl")
     \/ OnlyJob(d, k, IF k # IndexerJob /\ jobs[d][k].made > 0 /\ HasRow(d)
                      THEN "mark" ELSE "send")

\* A backend job without a row leaves no trace here, an indexer job does.
WriteNoUrl(d, k) ==
  /\ jobs[d][k].at = "noUrl"
  /\ IF k = IndexerJob THEN WritesRow(d, k, "failed", retryCount[d], "done")
     ELSE IF HasRow(d) THEN WritesRow(d, k, "failed", jobs[d][k].made + 1, "done")
     ELSE OnlyJob(d, k, "done")

MarkRetrying(d, k) ==
  /\ jobs[d][k].at = "mark"
  /\ WritesRow(d, k, "retrying", jobs[d][k].made, "send")

\* A failed attempt: the backend writes first, the indexer throws.
Rejected(d, k) ==
  IF k = IndexerJob THEN "throw" ELSE IF Last(d, k) THEN "dlq" ELSE "note"

\* Mutant: every answer counts as a success.
DeliverAnyAnswer(d, k, isAccepted, isAnswered) ==
  /\ jobs[d][k].at = "send"
  /\ accepted' = IF isAccepted THEN [accepted EXCEPT ![d] = 1] ELSE accepted
  /\ At(d, k, IF isAnswered THEN "sent" ELSE Rejected(d, k))
  /\ UNCHANGED <<origin, row, call, sweep, lost, swallowed, bounds>>

Deliver(d, k, isAccepted, isAnswered) ==
  /\ jobs[d][k].at = "send"
  /\ accepted' = IF isAccepted THEN [accepted EXCEPT ![d] = IF @ = 2 THEN 2 ELSE @ + 1]
                  ELSE accepted
  /\ lost' = IF isAccepted /\ ~ isAnswered THEN lost \cup {d} ELSE lost
  /\ At(d, k, IF isAccepted /\ isAnswered THEN "sent" ELSE Rejected(d, k))
  /\ UNCHANGED <<origin, row, call, sweep, swallowed, bounds>>

WriteDelivered(d, k) ==
  /\ jobs[d][k].at = "sent"
  /\ WritesRow(d, k, "delivered",
               IF k = IndexerJob THEN retryCount[d] ELSE jobs[d][k].made + 1, "done")

\* Mutant: the failed attempt is noted and not thrown.
NoteAndReturn(d, k) ==
  /\ jobs[d][k].at = "note"
  /\ WritesRow(d, k, "retrying", jobs[d][k].made + 1, "done")

NoteFailure(d, k) ==
  /\ jobs[d][k].at = "note"
  /\ IF HasRow(d) THEN WritesRow(d, k, "retrying", jobs[d][k].made + 1, "throw")
     ELSE OnlyJob(d, k, "throw")

\* The backend dead-letters before it writes the row, the indexer after.
\* Nothing reads the dead-letter queue.
DeadLetter(d, k) ==
  /\ jobs[d][k].at = "dlq"
  /\ IF k = IndexerJob THEN PutJob(d, k, Finished("failed")) ELSE At(d, k, "gaveUp")
  /\ UNCHANGED <<origin, row, call, sweep, merchant, swallowed, bounds>>

WriteFailed(d, k) ==
  \/ jobs[d][k].at = "gaveUp" /\ WritesRow(d, k, "failed", jobs[d][k].made + 1, "throw")
  \/ jobs[d][k].at = "exhausted" /\ WritesRow(d, k, "failed", retryCount[d], "dlq")

\* Mutant: removeOnComplete: true.
CompleteAndRemove(d, k) ==
  /\ jobs[d][k].at = "done"
  /\ PutJob(d, k, NoJob)
  /\ UNCHANGED <<origin, row, call, sweep, merchant, swallowed, bounds>>

CompleteJob(d, k) ==
  /\ jobs[d][k].at = "done"
  /\ PutJob(d, k, Finished("completed"))
  /\ UNCHANGED <<origin, row, call, sweep, merchant, swallowed, bounds>>

\* BullMQ counts the attempt and runs the job again after a while, or not.
\* The indexer writes the count of a job it runs again.
FailAttempt(d, k) ==
  /\ jobs[d][k].at = "throw"
  /\ LET made == jobs[d][k].made + 1
     IN  /\ PutJob(d, k,
              IF ~ Last(d, k) THEN [jobs[d][k] EXCEPT !.at = "waiting", !.made = made]
              ELSE Finished(IF k = IndexerJob THEN "exhausted" ELSE "failed"))
         /\ retryCount' = IF k = IndexerJob /\ ~ Last(d, k) /\ HasRow(d)
                          THEN [retryCount EXCEPT ![d] = made] ELSE retryCount
  /\ UNCHANGED <<origin, status, call, sweep, merchant, swallowed, bounds>>

JobStep(d, k) ==
  \/ TakeJob(d, k) \/ WriteNoUrl(d, k) \/ MarkRetrying(d, k)
  \/ (\E isAccepted, isAnswered \in BOOLEAN : Deliver(d, k, isAccepted, isAnswered))
  \/ WriteDelivered(d, k) \/ NoteFailure(d, k) \/ DeadLetter(d, k) \/ WriteFailed(d, k)
  \/ CompleteJob(d, k) \/ FailAttempt(d, k)

-----------------------------------------------------------------------------
(* Faults.                                                                 *)

\* The process of a caller stops; a backend that starts again sweeps again.
CallerDies(c) ==
  /\ Fault
  /\ call[c].pc # "idle"
  /\ call' = [call EXCEPT ![c] = Idle]
  /\ todo' = IF c \in Sweeper THEN [todo EXCEPT ![c] = {}] ELSE todo
  /\ UNCHANGED <<origin, row, jobs, claimed, merchant, swallowed, retries>>

\* The worker of a job stops: BullMQ runs a stalled job once more
\* (maxStalledCount 1), then fails it without a word to the processor.  What
\* the indexer does after its last attempt is lost.
WorkerDies(d, k) ==
  /\ Fault
  /\ jobs[d][k].at \in Running
  /\ LET after == k = IndexerJob /\ jobs[d][k].at \in {"exhausted", "dlq"}
     IN  PutJob(d, k, IF jobs[d][k].stalls = 0 /\ ~ after
                      THEN [jobs[d][k] EXCEPT !.at = "waiting", !.stalls = 1]
                      ELSE Finished("failed"))
  /\ UNCHANGED <<origin, row, call, sweep, merchant, swallowed, retries>>

\* A rejected database or queue call is swallowed, or ends the attempt.
WorkerCallFails(d, k) ==
  /\ Fault
  /\ \/ jobs[d][k].at = "mark" /\ At(d, k, "send")
     \/ jobs[d][k].at = "noUrl" /\ At(d, k, "done")
     \/ jobs[d][k].at \in {"waiting", "note", "sent", "gaveUp"} /\ At(d, k, "throw")
     \/ jobs[d][k].at = "dlq" /\ k # IndexerJob /\ At(d, k, "gaveUp")
     \/ jobs[d][k].at \in {"dlq", "exhausted"} /\ k = IndexerJob
        /\ PutJob(d, k, Finished("failed"))
  /\ UNCHANGED <<origin, row, call, sweep, merchant, swallowed, retries>>

CallerCallFails(c) ==
  /\ Fault
  /\ \/ call[c].pc = "failRow" /\ Return(c, FALSE)
     \/ call[c].pc = "bump" /\ call' = [call EXCEPT ![c] = Idle]
     \/ call[c].pc \in {"claim", "revert"} /\ call' = [call EXCEPT ![c] = [Idle EXCEPT !.pc = "loop"]]
  /\ UNCHANGED <<origin, row, jobs, sweep, merchant, swallowed, retries>>

\* removeOnComplete and removeOnFail.
PurgeJob(d, k) ==
  /\ Fault
  /\ jobs[d][k].at \in {"completed", "failed"}
  /\ PutJob(d, k, NoJob)
  /\ UNCHANGED <<origin, row, call, sweep, merchant, swallowed, retries>>

FaultNext ==
  \/ \E p \in Producer : CreateRowFails(p)
  \/ \E c \in Caller : AddFails(c) \/ CallerDies(c) \/ CallerCallFails(c)
  \/ \E d \in Delivery, k \in JobKey : WorkerDies(d, k) \/ WorkerCallFails(d, k) \/ PurgeJob(d, k)

-----------------------------------------------------------------------------
Next ==
  \/ \E p \in Producer, d \in Delivery, service \in {"backend", "indexer"} : Produce(p, d, service)
  \/ \E c \in Caller : EnqueueWebhook(c)
  \/ \E r \in Request : BumpRetryCount(r) \/ \E d \in Delivery : RetryWebhook(r, d)
  \/ \E s \in Sweeper : SweepStep(s)
  \/ \E d \in Delivery, k \in JobKey : JobStep(d, k)
  \/ FaultNext

Spec == Init /\ [][Next]_vars

(***************************************************************************)
(* A call in progress goes on, a worker takes and finishes its jobs, and a *)
(* backend that starts sweeps.  Nobody has to retry.                       *)
(***************************************************************************)
Fairness ==
  /\ \A c \in Caller : WF_vars(EnqueueWebhook(c))
  /\ \A r \in Request : WF_vars(BumpRetryCount(r))
  /\ \A s \in Sweeper : WF_vars(SweepStep(s))
  /\ \A d \in Delivery, k \in JobKey : WF_vars(JobStep(d, k))

FairSpec == Spec /\ Fairness

-----------------------------------------------------------------------------
(* What the outbox promises.                                               *)

Undecided(d) == status[d] \in {"pending", "retrying"}

Enqueuing(d) == \E c \in Caller : call[c].del = d /\ call[c].pc \in {"add", "failRow"}

\* Without a fault, and unless a retry met a used job id, a row that is not
\* decided has a job at work on it or a caller about to add one: no order of
\* producers, retries, sweeps and workers strands a row.
NothingStranded ==
  \A d \in Delivery :
    Undecided(d) =>
      \/ \E k \in JobKey : LiveJob(d, k)
      \/ Enqueuing(d)
      \/ faults > 0
      \/ d \in swallowed

\* A row says delivered only if the merchant accepted the event, whatever
\* crashed, and whoever wrote the row last.
DeliveredWasAccepted ==
  \A d \in Delivery : status[d] = "delivered" => accepted[d] > 0

\* The merchant is sent one copy of a backend event, although its producer and
\* the sweep may both add a job: a second copy needs a lost answer, a retry the
\* merchant asked for, or a fault.  An event of the indexer is excepted: the
\* sweep takes its row too, and asks a queue that never held its job.
OneCopy ==
  \A d \in Delivery :
    (origin[d] = "backend" /\ accepted[d] > 1) => d \in lost \/ retries > 0 \/ faults > 0

\* Every event is decided: delivered, or failed and open to a retry.
EventIsDecided ==
  \A d \in Delivery :
    Undecided(d) ~> (~ Undecided(d) \/ faults > 0 \/ d \in swallowed)
=============================================================================
