-------------------------- MODULE MCWebhookOutbox --------------------------
(***************************************************************************)
(* One event, the processes that may announce it, a manual retry and one   *)
(* sweep.  Rows are independent of each other but for the sweep, which     *)
(* takes them one by one.                                                  *)
(***************************************************************************)
EXTENDS WebhookOutbox

CONSTANTS d1, p1, r1, s1
=============================================================================
