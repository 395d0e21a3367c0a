------------------------------ MODULE SppSession ------------------------------
(***************************************************************************)
(* The native session of the private pool (apps/consumer-app/src/utils/    *)
(* stellarSpp: sppRpcFailover.ts, sppPoolSession.ts, sppNativeBridge.ts,   *)
(* and packages/spp-native/src/session.rs).  The native library keeps one  *)
(* session for the process, behind a mutex, and every native operation     *)
(* runs on whichever is bound: it names an amount, and no network, pool or *)
(* endpoint.  The app therefore opens the session anew before it syncs,    *)
(* and closes and reopens it when it falls over to the other endpoint.     *)
(*                                                                         *)
(* A call is a payment, a recovery or the indexing that ends a set-up.  A  *)
(* native call is one step, taken under the mutex in any order; an open    *)
(* stands for ensurePoolSession, with the key and circuit checks before    *)
(* it.  A payment is one or more transactions: the library may report an   *)
(* error after any of them.  Once it has succeeded the app still writes    *)
(* the notes (SppNotes), which may fail.  One phrase, so one address,      *)
(* which the chains share.                                                 *)
(***************************************************************************)
EXTENDS Naturals, FiniteSets

CONSTANTS
  Call,         \* calls made, each id once
  Chain,        \* chain keys with a pool configured
  HasFallback,  \* those with a second endpoint: mainnet
  None

ASSUME SessionAssumption == HasFallback \subseteq Chain

VARIABLES
  session,   \* SESSION: [chain, url, synced], or None
  calls,     \* [Call -> call]
  late,      \* native calls given up by the app and still under way
  made       \* [Call -> what the native library has submitted of a payment]

vars == <<session, calls, late, made>>

Kind == {"payment", "recovery", "setup"}
Url == {"primary", "fallback"}
Ended == {"answered", "failed"}
Native == {"open", "sync", "close", "again", "act", "balance"}
Made == {"nothing", "part", "whole", "twice"}

\* Why a call failed: no endpoint or no session, a ceiling of the bridge, an
\* error of the payment, no hash for it, or its notes.
Why == {"none", "session", "ceiling", "payment", "noHash", "notes"}

\* No call and no session is None.
ASSUME NoneAssumption == None \notin Call /\ None \notin [chain : Chain, url : Url, synced : BOOLEAN]

\* A call at rest; its end leaves nothing of it but its kind and the answer.
Rest(pc) == [pc |-> pc, kind |-> "payment", chain |-> None, url |-> "primary", round |-> 1,
             disturbed |-> FALSE, why |-> "none"]
Over(c, answer, why) == [Rest(answer) EXCEPT !.kind = calls[c].kind, !.why = why]

Running(c) == calls[c].pc \notin Ended \cup {"idle"}

TypeOK ==
  /\ session \in [chain : Chain, url : Url, synced : BOOLEAN] \cup {None}
  /\ calls \in [Call -> [pc : {"idle", "select", "notes"} \cup Native \cup Ended, kind : Kind,
                         chain : Chain \cup {None}, url : Url, round : 1 .. 2,
                         disturbed : BOOLEAN, why : Why]]
  /\ late \subseteq [by : Call, do : Native, chain : Chain, url : Url]
  /\ made \in [Call -> Made]

Init ==
  /\ session = None /\ late = {} /\ made = [c \in Call |-> "nothing"]
  /\ calls = [c \in Call |-> Rest("idle")]

-----------------------------------------------------------------------------
(* The native library: what a job does once it has the mutex.              *)

Job(c) == [by |-> c, do |-> calls[c].pc, chain |-> calls[c].chain, url |-> calls[c].url]

\* ensurePoolSession and open_session: the session of the chain, at the
\* endpoint the caller names, in place of any other.  Mutant: the endpoint of
\* the configuration, whatever the caller names.
OpenedAtFirst(j) == [chain |-> j.chain, url |-> "primary", synced |-> FALSE]
Opened(j) == [chain |-> j.chain, url |-> j.url, synced |-> FALSE]

\* An open always may; anything else needs a session to be bound.
Binds(j) == j.do \in {"open", "close"} \/ session # None

\* Transactions of a payment go out.
Submit(c, m) == made' = [made EXCEPT ![c] = IF @ = "nothing" THEN m ELSE "twice"]

Perform(j) ==
  /\ Binds(j)
  /\ session' = CASE j.do = "open" -> Opened(j)
                  [] j.do = "close" -> None
                  [] j.do \in {"sync", "again"} -> [session EXCEPT !.synced = TRUE]
                  [] OTHER -> session
  /\ IF j.do = "act" THEN Submit(j.by, "whole") ELSE UNCHANGED made

\* The calls after a job has run: an open or a close takes the session away
\* from every other call that runs, and an open is a call's own start.
AfterJob(j) ==
  [c \in Call |-> IF j.do \notin {"open", "close"} \/ ~ Running(c) THEN calls[c]
                  ELSE [calls[c] EXCEPT !.disturbed = c # j.by]]

-----------------------------------------------------------------------------
(* A call.                                                                 *)

\* One recovery of a chain at a time: a second caller shares its promise.
Begin(c, kind, chain) ==
  /\ calls[c].pc = "idle"
  /\ kind = "recovery" =>
       \A d \in Call : ~ (Running(d) /\ calls[d].kind = kind /\ calls[d].chain = chain)
  /\ calls' = [calls EXCEPT ![c] = [Rest("select") EXCEPT !.kind = kind, !.chain = chain]]
  /\ UNCHANGED <<session, late, made>>

Go(c, pc) == calls' = [calls EXCEPT ![c].pc = pc]
End(c, answer, why) == calls' = [calls EXCEPT ![c] = Over(c, answer, why)]

\* selectBestRpcUrl: the first endpoint that answers the preflight.
SelectUrl(c) ==
  /\ calls[c].pc = "select"
  /\ \/ \E url \in Url :
          /\ url = "fallback" => calls[c].chain \in HasFallback
          /\ calls' = [calls EXCEPT ![c].pc = "open", ![c].url = url]
     \/ End(c, "failed", "session")
  /\ UNCHANGED <<session, late, made>>

\* Where a call goes on after a native call that succeeded.
NextStep(c) ==
  LET call == calls[c]
  IN  CASE call.pc = "open" -> "sync"
        [] call.pc = "close" -> "open"
        [] call.pc = "sync" -> CASE call.kind = "payment" -> "act"
                                 [] call.kind = "recovery" -> "again"
                                 [] OTHER -> IF call.round = 1 THEN "select" ELSE "answered"
        [] call.pc = "again" -> "balance"
        [] call.pc = "act" -> "notes"
        [] OTHER -> "answered"

Advance(c) ==
  LET call == AfterJob(Job(c))[c]
      next == [call EXCEPT !.pc = NextStep(c),
                           !.url = IF call.pc = "close" THEN "fallback" ELSE @,
                           !.round = IF call.pc = "sync" THEN 2 ELSE @]
  IN  [AfterJob(Job(c)) EXCEPT ![c] = IF next.pc \in Ended THEN Over(c, next.pc, "none") ELSE next]

\* A native call runs while the app waits for it, and succeeds.
Succeed(c) ==
  /\ calls[c].pc \in Native
  /\ Perform(Job(c))
  /\ calls' = Advance(c)
  /\ UNCHANGED late

\* A sync that failed for the network is tried once more, at the other
\* endpoint; the session is closed first.
CanFailOver(c) ==
  calls[c].pc = "sync" /\ calls[c].chain \in HasFallback /\ calls[c].url = "primary"

FailOver(c, why) == IF CanFailOver(c) THEN Go(c, "close") ELSE End(c, "failed", why)

\* A native call other than a payment fails: by the network, or without a
\* session, or otherwise.  A close has nothing to fail.
Fail(c) ==
  /\ calls[c].pc \in Native \ {"close", "act"}
  /\ \/ End(c, "failed", "session")
     \/ Binds(Job(c)) /\ FailOver(c, "session")
  /\ UNCHANGED <<session, late, made>>

\* Mutant: a payment that fails for the network is tried at the other endpoint.
PaymentRetried(c) ==
  /\ calls[c].pc = "act"
  /\ IF calls[c].chain \in HasFallback /\ calls[c].url = "primary"
       THEN Go(c, "close") ELSE End(c, "failed", "payment")
  /\ \/ UNCHANGED made
     \/ Binds(Job(c)) /\ \E m \in {"part", "whole"} : Submit(c, m)
  /\ UNCHANGED <<session, late>>

\* The library reports an error of the payment, before or after any of its
\* transactions went out.
PaymentFails(c) ==
  /\ calls[c].pc = "act"
  /\ End(c, "failed", "payment")
  /\ \/ UNCHANGED made
     \/ Binds(Job(c)) /\ \E m \in {"part", "whole"} : Submit(c, m)
  /\ UNCHANGED <<session, late>>

\* The payment succeeds and its answer has no hash, or cannot be read.
NoHash(c) ==
  /\ calls[c].pc = "act"
  /\ Perform(Job(c))
  /\ End(c, "failed", "noHash")
  /\ UNCHANGED late

\* saveSppNote or commitSpendPlan, after a payment that succeeded.
WriteNotes(c) ==
  /\ calls[c].pc = "notes"
  /\ End(c, "answered", "none") \/ End(c, "failed", "notes")
  /\ UNCHANGED <<session, late, made>>

\* What the bridge waits for no longer than a ceiling.
Bounded == {"open", "sync", "again", "balance"}

\* The app gives a native call up, which runs on.  The message of the ceiling
\* reads as a failure of the network.
GiveUp(c) ==
  /\ calls[c].pc \in Bounded
  /\ late' = late \cup {Job(c)}
  /\ FailOver(c, "ceiling")
  /\ UNCHANGED <<session, made>>

\* A call given up ends after all, whoever uses the session by then.
EndLate(j) ==
  /\ j \in late
  /\ late' = late \ {j}
  /\ \/ Perform(j) /\ calls' = AfterJob([j EXCEPT !.by = None])
     \/ UNCHANGED <<session, calls, made>>

Next ==
  \/ \E c \in Call :
       \/ \E kind \in Kind, chain \in Chain : Begin(c, kind, chain)
       \/ SelectUrl(c) \/ Succeed(c) \/ Fail(c) \/ GiveUp(c)
       \/ PaymentFails(c) \/ NoHash(c) \/ WriteNotes(c)
  \/ \E j \in late : EndLate(j)

Spec == Init /\ [][Next]_vars

-----------------------------------------------------------------------------
\* A native operation runs on the session its call opened: of its chain, at
\* the endpoint it chose, and synced before money moves or a balance is read;
\* unless the session was opened or closed for another call, or by an open
\* given up, since.  A payment of one network is then made on the other
\* (sppClient.ts passes an amount alone), or finds no session and fails.
OwnSession ==
  \A c \in Call :
    (calls[c].pc \in {"sync", "again", "act", "balance"} /\ ~ calls[c].disturbed) =>
      /\ session # None
      /\ session.chain = calls[c].chain /\ session.url = calls[c].url
      /\ calls[c].pc = "sync" \/ session.synced

\* No transaction of a payment goes out twice, and none for a call that has
\* ended: the failover to the other endpoint and the ceilings never reach a
\* payment.  A payment answered as done is made in whole, and one reported as
\* failed may be made only when the library itself reported an error or no
\* hash, or when the notes could not be written after it.
PaymentsAccounted ==
  \A c \in Call :
    /\ made[c] # "twice"
    /\ made[c] # "nothing" =>
         \/ calls[c].pc \in {"notes", "answered"}
         \/ calls[c].pc = "failed" /\ calls[c].why \in {"payment", "noHash", "notes"}
    /\ (calls[c].pc \in {"notes", "answered"} /\ calls[c].kind = "payment") => made[c] = "whole"
=============================================================================
