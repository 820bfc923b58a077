--------------------------------- MODULE Funding ---------------------------------
(***************************************************************************)
(* The sender accounts of a performance run and their money                *)
(* (prepareSenderAccounts and fundAccounts of scripts/perf/loadgen.go).    *)
(* The accounts have fixed keys, 0, 1, ..: a later run on the same network *)
(* meets the accounts, and the funder's transactions, of the earlier ones. *)
(* A transaction of the funder is its nonce and the account it pays.       *)
(***************************************************************************)
EXTENDS Integers, Sequences, FiniteSets, SequencesExt

VARIABLES
  \* fundAccounts
  fpc,        \* "nonce", "loop", "await", then "funded" or "unfunded"
  wanted,     \* number of accounts of this run
  acct,       \* the account the loop is at
  baseNonce,  \* the funder's nonce that was read at the start
  hashes,     \* transactions to wait for
  \* the node
  pool,       \* transactions of the funder that are not in a block
  mined,      \* number of those that are
  money,      \* accounts that have been paid
  used,       \* accounts with a transaction of their own in a block
  \* bound: calls that may still fail
  faults,
  \* history
  known       \* accounts of this run whose transaction the node has refused as known

fundVars  == <<fpc, wanted, acct, baseNonce, hashes, known>>
chainVars == <<pool, mined, money, used>>

FundInit ==
  /\ fpc = "nonce" /\ acct = 0 /\ baseNonce = 0 /\ hashes = <<>> /\ known = {}
  /\ pool = {} /\ mined = 0 /\ money = {} /\ used = {}

BeginFunding(count) ==
  /\ fpc' = "nonce" /\ wanted' = count /\ acct' = 0 /\ hashes' = <<>> /\ known' = {}
  /\ UNCHANGED baseNonce

-----------------------------------------------------------------------------
(* The node.                                                               *)

Taken(n) == n < mined \/ \E tx \in pool : tx[1] = n

\* PendingNonceAt of the funder: behind a gap a transaction only waits
PendingNonce == CHOOSE n \in mined..(mined + Cardinality(pool)) :
                  ~Taken(n) /\ \A k \in mined..(n - 1) : Taken(k)

Minable == \E tx \in pool : tx[1] = mined

MineFunding ==
  /\ \E tx \in pool :
       /\ tx[1] = mined
       /\ pool' = pool \ {tx} /\ mined' = mined + 1 /\ money' = money \cup {tx[2]}
  /\ UNCHANGED <<fundVars, used, faults>>

Fault == faults > 0 /\ faults' = faults - 1

-----------------------------------------------------------------------------
(* The program.                                                            *)

ReadNonce ==
  /\ fpc = "nonce"
  /\ \/ baseNonce' = PendingNonce /\ fpc' = "loop" /\ UNCHANGED faults
     \/ fpc' = "unfunded" /\ Fault /\ UNCHANGED baseNonce
  /\ UNCHANGED <<wanted, acct, hashes, known, chainVars>>

NextAccount == acct' = acct + 1 /\ UNCHANGED <<fpc, wanted, baseNonce>>

\* NonceAt says that the account has been sending already
SkipAccount ==
  /\ fpc = "loop" /\ acct < wanted /\ acct \in used
  /\ NextAccount
  /\ UNCHANGED <<hashes, known, chainVars, faults>>

Tx == <<baseNonce + acct, acct>>

\* an account that is new, or whose NonceAt has failed
Unused == fpc = "loop" /\ acct < wanted /\ IF acct \in used THEN Fault ELSE UNCHANGED faults

\* The node never holds a different payment with this nonce: those of earlier
\* runs stand behind the same gap in the same order.  One that it holds may have
\* another price: the new one takes its place if it offers enough more.
SendTaken ==
  /\ Unused /\ (~Taken(Tx[1]) \/ Tx \in pool)
  /\ pool' = pool \cup {Tx}
  /\ hashes' = Append(hashes, Tx)
  /\ NextAccount /\ UNCHANGED <<known, mined, money, used>>

\* "already known" or "nonce too low": the account is passed over, its transaction not waited for
SendKnown ==
  /\ Unused /\ (Tx \in pool \/ Tx[1] < mined)
  /\ known' = known \cup {acct}
  /\ NextAccount /\ UNCHANGED <<hashes, chainVars>>

\* "replacement transaction underpriced": the price suggestion is another one,
\* and not enough above that of an earlier run
SendUnderpriced ==
  /\ Unused /\ Tx \in pool
  /\ fpc' = "unfunded"
  /\ UNCHANGED <<wanted, acct, baseNonce, hashes, known, chainVars>>

\* the node may have taken the transaction; a NonceAt that failed before counts with it
SendFails ==
  /\ fpc = "loop" /\ acct < wanted /\ Fault
  /\ pool' \in {pool, IF Taken(Tx[1]) THEN pool ELSE pool \cup {Tx}}
  /\ fpc' = "unfunded"
  /\ UNCHANGED <<wanted, acct, baseNonce, hashes, known, mined, money, used>>

AllSent ==
  /\ fpc = "loop" /\ acct = wanted /\ fpc' = "await"
  /\ UNCHANGED <<wanted, acct, baseNonce, hashes, known, chainVars, faults>>

\* Mutant of Unconfirmed: only the first transaction is waited for.
Unconfirmed_first == hashes # <<>> /\ Head(hashes) \in pool

Unconfirmed == \E i \in DOMAIN hashes : hashes[i] \in pool

Confirmed ==
  /\ fpc = "await" /\ ~Unconfirmed /\ fpc' = "funded"
  /\ UNCHANGED <<wanted, acct, baseNonce, hashes, known, chainVars, faults>>

\* Mutant of FundingDeadline: the receipts are waited for without one.
FundingDeadline_none == FALSE

\* after five minutes: blocks come much sooner, so the chain has stopped or
\* it cannot include the transaction
FundingDeadline ==
  /\ fpc = "await" /\ Unconfirmed
  /\ IF Minable THEN Fault ELSE UNCHANGED faults
  /\ fpc' = "unfunded"
  /\ UNCHANGED <<wanted, acct, baseNonce, hashes, known, chainVars>>

FundStep == \/ ReadNonce \/ SkipAccount \/ SendTaken \/ SendKnown \/ SendUnderpriced
            \/ SendFails \/ AllSent \/ Confirmed \/ FundingDeadline

=================================================================================
