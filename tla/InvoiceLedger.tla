--------------------------- MODULE InvoiceLedger ---------------------------
(***************************************************************************)
(* What VeilPay promises a merchant about invoices and on-chain payments,  *)
(* with none of the machinery that keeps the promise: an invoice is issued *)
(* once; it is closed at most once, either settled by one landed payment   *)
(* that is good for it and was never used before, or lapsed or withdrawn   *)
(* without payment; and the merchant is told of the settlement, or of the  *)
(* lapse, once and never of both.                                          *)
(*                                                                         *)
(* What counts as one payment is a parameter.  InvoiceSettlement keeps the *)
(* promise for stored hashes, and for transactions where each has only one *)
(* spelling that can be stored.                                            *)
(***************************************************************************)

CONSTANTS Invoice,   \* the invoices
          Payment,   \* what may pay an invoice: transactions, or their hashes
          GoodFor,   \* the pairs <<p, i>> such that p may settle i
          None       \* no payment

VARIABLES issued,    \* invoices that exist
          open,      \* invoices that await payment
          settledBy, \* the payment that settled an invoice, or None
          landed,    \* payments on chain
          spent,     \* payments recorded
          told,      \* invoices announced as paid
          lapsed     \* invoices announced as expired

ledgerVars == <<issued, open, settledBy, landed, spent, told, lapsed>>

LedgerTypeOK ==
  /\ issued \subseteq Invoice
  /\ open \subseteq issued
  /\ settledBy \in [Invoice -> Payment \cup {None}]
  /\ landed \subseteq Payment
  /\ spent \subseteq landed
  /\ told \subseteq Invoice
  /\ lapsed \subseteq Invoice

LedgerInit ==
  /\ issued = {}
  /\ open = {}
  /\ settledBy = [i \in Invoice |-> None]
  /\ landed = {}
  /\ spent = {}
  /\ told = {}
  /\ lapsed = {}

Issue(i) ==
  /\ i \notin issued
  /\ issued' = issued \cup {i}
  /\ open' = open \cup {i}
  /\ UNCHANGED <<settledBy, landed, spent, told, lapsed>>

\* All the spellings of a transaction land with it.
Mine(P) ==
  /\ P # {} /\ P \cap landed = {}
  /\ landed' = landed \cup P
  /\ UNCHANGED <<issued, open, settledBy, spent, told, lapsed>>

\* The payment and the invoice are used up together.
Settle(i, p) ==
  /\ i \in open
  /\ p \in landed \ spent
  /\ <<p, i>> \in GoodFor
  /\ open' = open \ {i}
  /\ settledBy' = [settledBy EXCEPT ![i] = p]
  /\ spent' = spent \cup {p}
  /\ UNCHANGED <<issued, landed, told, lapsed>>

\* A payment that belongs to no open invoice is recorded all the same.
RecordUnmatched(p) ==
  /\ p \in landed \ spent
  /\ spent' = spent \cup {p}
  /\ UNCHANGED <<issued, open, settledBy, landed, told, lapsed>>

Close(i) ==
  /\ i \in open
  /\ open' = open \ {i}
  /\ UNCHANGED <<issued, settledBy, landed, spent, told, lapsed>>

TellPaid(i) ==
  /\ settledBy[i] # None
  /\ i \notin told
  /\ told' = told \cup {i}
  /\ UNCHANGED <<issued, open, settledBy, landed, spent, lapsed>>

TellLapsed(i) ==
  /\ i \in issued \ open
  /\ settledBy[i] = None
  /\ i \notin lapsed
  /\ lapsed' = lapsed \cup {i}
  /\ UNCHANGED <<issued, open, settledBy, landed, spent, told>>

LedgerNext ==
  \/ \E i \in Invoice : Issue(i) \/ Close(i) \/ TellPaid(i) \/ TellLapsed(i)
  \/ \E P \in SUBSET Payment : Mine(P)
  \/ \E p \in Payment : RecordUnmatched(p)
  \/ \E i \in Invoice, p \in Payment : Settle(i, p)

LedgerSpec == LedgerInit /\ [][LedgerNext]_ledgerVars
=============================================================================
