------------------------ MODULE MCInvoiceSettlement ------------------------
(***************************************************************************)
(* Two invoices of one merchant and the transactions that may pay them,    *)
(* with the settlement writers of one kind of chain at a time.             *)
(***************************************************************************)
EXTENDS InvoiceSettlement, TLC

CONSTANTS i1, i2, t1, t2, x1, x2, y1, r1, s1, e1, h1, h2

\* Two invoices of equal terms: both transactions are good for both.
SolanaTerms == [chain |-> "solana", to |-> "settle", token |-> "USDC", amount |-> 1]
PolledTerms == i1 :> SolanaTerms @@ i2 :> SolanaTerms
PolledTransfer == t1 :> SolanaTerms @@ t2 :> SolanaTerms

\* Invoice i2 names another token; t2 overpays i1.
PoolTerms == [chain |-> "base", to |-> "pool", token |-> "USDC", amount |-> 1]
EvmTerms == i1 :> PoolTerms @@ i2 :> [PoolTerms EXCEPT !.token = "ETH"]
EvmTransfer == t1 :> PoolTerms @@ t2 :> [PoolTerms EXCEPT !.amount = 2]

\* x1 and x2 are the chain's spellings, y1 is t1 with its digits in the other case.
Hashes == {x1, x2, y1}
Names == x1 :> t1 @@ y1 :> t1 @@ x2 :> t2
ChainSpelling == t1 :> x1 @@ t2 :> x2

EvmChains == {"base"}
EchoChains == {"base", "stellar"}
EqualLives == i1 :> 1 @@ i2 :> 1
ShortLives == i1 :> 1 @@ i2 :> 2
=============================================================================
