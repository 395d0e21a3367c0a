--------------------------- MODULE MCOnrampOrders ---------------------------
(***************************************************************************)
(* One order under two concurrent webhooks and a sweep.                    *)
(***************************************************************************)
EXTENDS OnrampOrders

CONSTANTS o1, x1, a1, h1, h2, s1
=============================================================================
