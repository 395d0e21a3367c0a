--------------------------- MODULE WalletActivity ---------------------------
(***************************************************************************)
(* The wallet's activity list (apps/consumer-app/src:                      *)
(* stores/transactionStore.ts) with what writes it: fetches of the chain's *)
(* history for the address shown, the poller that follows a payment        *)
(* (utils/txStatusPoller.ts), private payments                             *)
(* (hooks/usePaymentTransaction.ts) and the wipe (utils/accountWipe.ts).   *)
(*                                                                         *)
(* What the wallet store does (WalletStore) is seen from here as a change  *)
(* of the scope shown, an address on a chain, with clearTransactions.      *)
(*                                                                         *)
(* A row is public (what the chain shows) or private (what only this       *)
(* device knows); a list has one row per hash and lane.  A payment that    *)
(* failed on chain is settled like one that went through.  The history of  *)
(* a scope is its payments, newest first, above one old receipt whose hash *)
(* is the scope itself, a row a page.                                      *)
(***************************************************************************)
EXTENDS Integers, FiniteSets

CONSTANTS
  Scope,        \* addresses on chains
  None,
  Fetch,        \* fetchTransactions calls that may be under way at once
  Payment,      \* payments sent in public
  Op,           \* private operations
  Cap,          \* 50: rows the device keeps
  MaxUpsets     \* bound: changes of scope, wipes, restarts and failed fetches

ASSUME ActivityAssumption ==
  /\ None \notin Scope /\ Scope \cap (Payment \cup Op) = {}
  /\ {Cap, MaxUpsets} \subseteq Nat

VARIABLES
  here,      \* the scope shown, None while disconnected
  wiping,    \* "no", "begun", "done"
  notifying, \* notificationsEnabled of the settings, off by default
  rows,      \* transactions: [hash, lane, scope, status]
  disk,      \* veilpay-transaction-storage
  loading,   \* isLoadingTransactions
  cursor, more,
  fetches,   \* [Fetch -> call]
  payments,  \* [Payment -> [pc, scope]], the poller of each
  onChain,   \* [Payment -> "none", "sent", "settled"]
  indexed,   \* payments the history shows
  ops,       \* [Op -> [pc, scope]]
  late,      \* rows written by a call of another address or an erased wallet
  upsets

wallet == <<here, wiping, notifying>>
chainVars == <<onChain, indexed>>
vars == <<wallet, rows, disk, loading, cursor, more, fetches, payments, chainVars, ops, late, upsets>>

Row(hash, lane, scope, status) == [hash |-> hash, lane |-> lane, scope |-> scope, status |-> status]
InLane(R, lane) == {r \in R : r.lane = lane}
Hashes(R) == {r.hash : r \in R}
SameRow(r, q) == r.hash = q.hash /\ r.lane = q.lane
Key(r) == <<r.hash, r.lane, r.scope>>

\* dedupeTransactions over two lists: the first wins.
Over(first, second) == first \cup {r \in second : ~ \E q \in first : SameRow(r, q)}

\* What is persisted: private rows first, then the newest, up to the cap.
Kept(R) ==
  IF Cardinality(R) <= Cap THEN {R}
  ELSE {K \in SUBSET R : /\ Cardinality(K) = Cap
                         /\ InLane(R, "private") \subseteq K \/ K \subseteq InLane(R, "private")}

PrivateRows == InLane(rows, "private")
SetRows(R) == rows' = R /\ disk' \in Kept(R)

IdleFetch == [pc |-> "idle", reset |-> FALSE, scope |-> None, snapshot |-> {}, after |-> None]
IdleCall == [pc |-> "none", scope |-> None]

\* The history of a scope below a cursor: payments, then the old receipt.
History(s, after) ==
  LET paid == {Row(p, "public", s, "settled") : p \in {x \in indexed : payments[x].scope = s}}
      old == {Row(s, "public", s, "settled")}
  IN IF after = None /\ paid # {} THEN paid ELSE old

NextCursor(page) == IF Hashes(page) \subseteq Scope THEN None ELSE CHOOSE h \in Hashes(page) : TRUE

RowType == [hash : Scope \cup Payment \cup Op, lane : {"public", "private"},
            scope : Scope, status : {"pending", "settled"}]

TypeOK ==
  /\ here \in Scope \cup {None} /\ wiping \in {"no", "begun", "done"} /\ notifying \in BOOLEAN
  /\ rows \subseteq RowType /\ disk \subseteq rows
  /\ \A r, q \in rows : SameRow(r, q) => r = q
  /\ loading \in BOOLEAN /\ more \in BOOLEAN
  /\ cursor \in Payment \cup {None}
  /\ fetches \in [Fetch -> [pc : {"idle", "sent"}, reset : BOOLEAN, scope : Scope \cup {None},
                            snapshot : SUBSET RowType, after : Payment \cup {None}]]
  /\ payments \in [Payment -> [pc : {"none", "sent", "polling", "done"}, scope : Scope \cup {None}]]
  /\ onChain \in [Payment -> {"none", "sent", "settled"}] /\ indexed \subseteq Payment
  /\ ops \in [Op -> [pc : {"none", "proving", "done"}, scope : Scope \cup {None}]]
  /\ late \subseteq (Scope \cup Payment \cup Op) \X {"public", "private"} \X Scope
  /\ upsets \in 0 .. MaxUpsets

Init ==
  /\ here \in Scope /\ wiping = "no" /\ notifying \in BOOLEAN
  /\ rows = {} /\ disk = {} /\ loading = FALSE /\ cursor = None /\ more = TRUE
  /\ fetches = [f \in Fetch |-> IdleFetch]
  /\ payments = [p \in Payment |-> IdleCall]
  /\ onChain = [p \in Payment |-> "none"]
  /\ indexed = {} /\ ops = [o \in Op |-> IdleCall]
  /\ late = {} /\ upsets = 0

Upset == upsets < MaxUpsets /\ upsets' = upsets + 1

-----------------------------------------------------------------------------
(* The list.                                                               *)

\* fetchTransactions keeps the scope and the list it read before its request.
BeginFetch(f, reset, silent) ==
  /\ fetches[f].pc = "idle" /\ here # None
  /\ reset \/ ~ loading
  /\ fetches' = [fetches EXCEPT ![f] = [IdleFetch EXCEPT
       !.pc = "sent", !.reset = reset, !.scope = here, !.snapshot = rows,
       !.after = IF reset THEN None ELSE cursor]]
  /\ loading' = (loading \/ ~ silent \/ rows = {})
  /\ UNCHANGED <<wallet, rows, disk, cursor, more, payments, chainVars, ops, late, upsets>>

\* Home, history and the return of the app refresh, when the user has them do
\* so; the list asks for more.
Refresh(f) == \E silent \in BOOLEAN : BeginFetch(f, TRUE, silent)

\* The tick of the watcher of incoming payments, which runs while the user
\* has notifications on and an address is shown.
Watch(f) == notifying /\ BeginFetch(f, TRUE, FALSE)

LoadMore(f) == more /\ ~ loading /\ BeginFetch(f, FALSE, FALSE)

\* Mutant: the list read before the request wins.
MergedOldFirst(c, page) == IF c.reset THEN Over(c.snapshot, page) ELSE Over(c.snapshot, page)

Merged(c, page) == IF c.reset THEN Over(page, InLane(c.snapshot, "private")) ELSE Over(c.snapshot, page)

\* Nothing compares the scope of the call with the one shown.
EndFetch(f) ==
  /\ fetches[f].pc = "sent"
  /\ LET c == fetches[f]
         page == History(c.scope, c.after)
         list == Merged(c, page)
     IN /\ SetRows(list)
        /\ cursor' = NextCursor(page) /\ more' = (cursor' # None)
        /\ late' = IF c.scope = here THEN late ELSE late \cup {Key(r) : r \in list}
  /\ loading' = FALSE
  /\ fetches' = [fetches EXCEPT ![f] = IdleFetch]
  /\ UNCHANGED <<wallet, payments, chainVars, ops, upsets>>

FetchFails(f) ==
  /\ Upset /\ fetches[f].pc # "idle"
  /\ loading' = FALSE
  /\ fetches' = [fetches EXCEPT ![f] = IdleFetch]
  /\ UNCHANGED <<wallet, rows, disk, cursor, more, payments, chainVars, ops, late>>

AddTransaction(r) ==
  /\ SetRows(Over({r}, rows))
  /\ late' = IF r.scope = here THEN late ELSE late \cup {Key(r)}

-----------------------------------------------------------------------------
(* Payments.                                                               *)

\* A public payment is broadcast for the address and chain of the render that
\* began it; the answer is awaited.
Send(p) ==
  /\ here # None /\ payments[p].pc = "none"
  /\ payments' = [payments EXCEPT ![p] = [pc |-> "sent", scope |-> here]]
  /\ onChain' = [onChain EXCEPT ![p] = "sent"]
  /\ UNCHANGED <<wallet, rows, disk, loading, cursor, more, fetches, indexed, ops, late, upsets>>

\* The answer, if one comes: pollTransactionStatus lists the payment as
\* pending, over what a fetch has listed of it, whatever is shown by then.
ListPending(p) ==
  /\ payments[p].pc = "sent"
  /\ AddTransaction(Row(p, "public", payments[p].scope, "pending"))
  /\ payments' = [payments EXCEPT ![p].pc = "polling"]
  /\ UNCHANGED <<wallet, loading, cursor, more, fetches, chainVars, ops, upsets>>

Settle(p) ==
  /\ onChain[p] = "sent"
  /\ onChain' = [onChain EXCEPT ![p] = "settled"]
  /\ UNCHANGED <<wallet, rows, disk, loading, cursor, more, fetches, payments, indexed, ops, late, upsets>>

Index(p) ==
  /\ onChain[p] = "settled" /\ p \notin indexed
  /\ indexed' = indexed \cup {p}
  /\ UNCHANGED <<wallet, rows, disk, loading, cursor, more, fetches, payments, onChain, ops, late, upsets>>

\* The poller lists the outcome, whatever the wallet shows by then; it gives
\* up after two minutes or with its screen, so it may never take this step.
PollSettled(p) ==
  /\ payments[p].pc = "polling" /\ onChain[p] = "settled"
  /\ AddTransaction(Row(p, "public", payments[p].scope, "settled"))
  /\ payments' = [payments EXCEPT ![p].pc = "done"]
  /\ UNCHANGED <<wallet, loading, cursor, more, fetches, chainVars, ops, upsets>>

BeginPrivate(o) ==
  /\ here # None /\ ops[o].pc = "none"
  /\ ops' = [ops EXCEPT ![o] = [pc |-> "proving", scope |-> here]]
  /\ UNCHANGED <<wallet, rows, disk, loading, cursor, more, fetches, payments, chainVars, late, upsets>>

\* The operation, if it does not fail, is listed even when its screen is
\* gone; a silent refresh follows for the address shown by then.
EndPrivate(o) ==
  /\ ops[o].pc = "proving"
  /\ ops' = [ops EXCEPT ![o].pc = "done"]
  /\ AddTransaction(Row(o, "private", ops[o].scope, "settled"))
  /\ \/ here = None /\ UNCHANGED fetches
     \/ /\ here # None
        /\ \E f \in Fetch :
             /\ fetches[f].pc = "idle"
             /\ fetches' = [fetches EXCEPT ![f] = [IdleFetch EXCEPT
                  !.pc = "sent", !.reset = TRUE, !.scope = here, !.snapshot = rows']]
  /\ UNCHANGED <<wallet, loading, cursor, more, payments, chainVars, upsets>>

-----------------------------------------------------------------------------
(* The wallet, its wipe and its restart.                                   *)

\* Mutant: every row goes.
ClearEveryTransaction ==
  /\ SetRows({})
  /\ cursor' = None /\ more' = TRUE
  /\ UNCHANGED <<loading, fetches, payments, chainVars, ops, late>>

\* Public rows go, private ones stay; a load under way goes on.
ClearTransactions ==
  /\ SetRows(PrivateRows)
  /\ cursor' = None /\ more' = TRUE
  /\ UNCHANGED <<loading, fetches, payments, chainVars, ops, late>>

\* Mutant: the list is left as it is.
ShowScopeKeepsList(s) ==
  /\ Upset
  /\ here' = s /\ wiping' = "no"
  /\ UNCHANGED <<notifying, rows, disk, loading, cursor, more, fetches, payments, chainVars, ops, late>>

\* connect, disconnect, setActiveChain, switchAccount.
ShowScope(s) ==
  /\ Upset
  /\ here' = s /\ wiping' = "no" /\ UNCHANGED notifying
  /\ ClearTransactions

\* setNotificationsEnabled, or the default that comes back after a wipe.
SetNotifications ==
  /\ Upset
  /\ notifying' = ~ notifying
  /\ UNCHANGED <<here, wiping, rows, disk, loading, cursor, more, fetches, payments, chainVars, ops, late>>

\* wipeLocalAccountData: the session, then the list and its key; the steps
\* after them touch neither.  The calls under way go on.
WipeSession ==
  /\ Upset /\ here # None
  /\ here' = None /\ wiping' = "begun" /\ UNCHANGED notifying
  /\ ClearTransactions

\* Mutant: the wipe clears the list as a switch does.
WipePublicState ==
  /\ wiping = "begun" /\ wiping' = "done"
  /\ ClearTransactions
  /\ UNCHANGED <<here, notifying, upsets>>

WipePersistedState ==
  /\ wiping = "begun" /\ wiping' = "done"
  /\ rows' = {} /\ disk' = {}
  /\ loading' = FALSE /\ cursor' = None /\ more' = TRUE
  /\ UNCHANGED <<here, notifying, fetches, payments, chainVars, ops, late, upsets>>

\* The app stops and starts: the calls are gone, the device's rows are back.
Restart ==
  /\ Upset
  /\ rows' = disk /\ UNCHANGED disk
  /\ loading' = FALSE /\ cursor' = None /\ more' = TRUE
  /\ fetches' = [f \in Fetch |-> IdleFetch]
  /\ payments' = [p \in Payment |-> IF payments[p].pc \in {"sent", "polling"} THEN [payments[p] EXCEPT !.pc = "done"] ELSE payments[p]]
  /\ ops' = [o \in Op |-> IF ops[o].pc = "proving" THEN [ops[o] EXCEPT !.pc = "done"] ELSE ops[o]]
  /\ UNCHANGED <<wallet, chainVars, late>>

Next ==
  \/ \E f \in Fetch : Refresh(f) \/ Watch(f) \/ LoadMore(f) \/ EndFetch(f) \/ FetchFails(f)
  \/ \E p \in Payment : Send(p) \/ ListPending(p) \/ Settle(p) \/ Index(p) \/ PollSettled(p)
  \/ \E o \in Op : BeginPrivate(o) \/ EndPrivate(o)
  \/ \E s \in Scope \cup {None} : ShowScope(s)
  \/ SetNotifications \/ WipeSession \/ WipePersistedState \/ Restart

Spec == Init /\ [][Next]_vars

\* Requests answer or fail, and the interval of the watcher goes on while it
\* runs (a free call of Fetch is not a resource of the code, hence SF).  No
\* other refresh is periodic: without the watcher nothing is promised.
Fairness ==
  /\ \A f \in Fetch : WF_vars(EndFetch(f))
  /\ SF_vars(\E f \in Fetch : Watch(f))

FairSpec == Spec /\ Fairness

-----------------------------------------------------------------------------
(* Properties.                                                             *)

\* The list shows public rows of another address or chain only when a call
\* begun for it has ended since: every change of scope takes the rest away.
ForeignHasCause ==
  \A r \in InLane(rows, "public") : r.scope = here \/ Key(r) \in late

\* After a wipe the device keeps no row, but for those a call under way
\* writes afterwards.
WipeLeavesNothing == wiping = "done" => \A r \in disk : Key(r) \in late

Landed(f) == fetches[f].pc = "sent" /\ fetches'[f].pc = "idle" /\ upsets' = upsets

\* A private row, which no chain gives back, is lost to the wipe or to a
\* fetch that began before it was listed, and to nothing else: not to a
\* switch, a disconnection, a restart or the cap of rows kept.
PrivateRowsKept ==
  [][\A r \in PrivateRows :
       \/ r \in rows'
       \/ wiping = "begun" /\ wiping' = "done"
       \/ \E f \in Fetch : Landed(f) /\ r \notin fetches[f].snapshot]_vars

Listed(p) == \E r \in rows : r.hash = p /\ r.status # "pending"

Watched(p) == p \in indexed /\ here = payments[p].scope /\ notifying

\* With notifications on, a payment the history shows gets listed as settled,
\* though its poller gave up, its pending row came late or other fetches
\* overlap; unless its address is left or notifications go off.
SettledShows == \A p \in Payment : Watched(p) ~> (Listed(p) \/ ~ Watched(p))
=============================================================================
