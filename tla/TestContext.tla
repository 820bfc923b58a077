------------------------------ MODULE TestContext ------------------------------
(***************************************************************************)
(* The test accounts of internal/context/context.go: a process of go test  *)
(* builds a CIContext, which pays for new accounts out of one funder key   *)
(* until the process ends and the next one builds its own on the same      *)
(* chain.  What has to fit together is the funder's nonce (a cache, the    *)
(* pools of several nodes and the chain) and the account index, which a    *)
(* new context seeds from that nonce.                                      *)
(*                                                                         *)
(* One goroutine drives a context (-p 1 -parallel=1), so its own steps are *)
(* sequential; the nodes move between any two of them.  Transactions that  *)
(* other keys send are left out, and so is the funder's balance: a node    *)
(* refuses for lack of it with an error the code does not single out.  A   *)
(* transfer of 21000 gas to an account without code is never reverted.     *)
(***************************************************************************)
EXTENDS Integers, Sequences, FiniteSets

CONSTANTS
  Nodes,         \* the nodes of cfg.RPCs
  Primary,       \* Clients[0], the only node that transactions are sent to
  Attempts,      \* tries to fund one account, 5 in the code
  MaxContexts,   \* bound: processes that build a context
  MaxCreations,  \* bound: accounts asked for, over all contexts
  MaxDummies,    \* bound: dummy transactions that a node takes
  MaxTroubles,   \* bound: calls that fail and transactions that get lost
  MaxNonce       \* bound: nonces are below it

ASSUME ContextAssumption ==
  /\ IsFiniteSet(Nodes)
  /\ Primary \in Nodes
  /\ Attempts \in Nat \ {0}
  /\ MaxContexts \in Nat /\ MaxCreations \in Nat
  /\ MaxDummies \in Nat /\ MaxTroubles \in Nat
  /\ MaxNonce \in Nat \ {0}

VARIABLES
  \* the nodes
  chain,      \* mined transactions of the funder; the n-th has nonce n - 1
  pool,       \* per node: its pending transactions of the funder
  \* the context
  place,      \* "off" without a process, "boot" in NewCIContext, "idle"
              \* between calls, and the steps of CreateAndFundAccount
  cached,     \* nonces[funder], Unknown when the map has no entry
  index,      \* accountIndex
  account,    \* the account being funded, Funder between calls
  attempt,    \* tries so far
  tx,         \* the transaction to send or to wait for, NoTx without one
  \* history
  contexts,   \* contexts so far
  creations,  \* calls of CreateAndFundAccount so far
  dummies,    \* dummy transactions that a node took
  troubles,   \* failed calls and lost transactions
  losses,     \* transactions that a pool lost
  blind,      \* an index or a nonce was chosen without the primary's answer
  landed,     \* a transaction of the current call was taken by a node
  unsent,     \* calls that failed before any of their transactions was taken
  asked,      \* per account: calls that funded it or tried to
  late,       \* per account: waits for a payment that timed out
  given       \* the <<context, account>> that tests were given

node == <<chain, pool>>
call == <<account, attempt, tx>>
tallies == <<contexts, creations, asked, given>>
env == <<dummies, troubles, losses>>
seen == <<landed, unsent, blind, late>>
contextVars == <<node, place, cached, index, call, tallies, env, seen>>

Funder == 0                     \* an account, and the target of dummies
Accounts == 1..(MaxNonce + MaxCreations)
Unknown == -1
Places == {"off", "boot", "idle", "take", "send", "mining"}
Creating == {"take", "send", "mining"}

\* The price separates the tries of one nonce: it is a multiple of what the
\* primary suggests.
Tx == [nonce : 0..(MaxNonce - 1), to : {Funder} \cup Accounts, price : 1..Attempts]
Signed(n, to, try) == [nonce |-> n, to |-> to, price |-> try + 1]
NoTx == Signed(0, Funder, 0)

Nonces(S) == {t.nonce : t \in S}
Mined == {chain[n] : n \in DOMAIN chain}
Payments(a) == {n \in DOMAIN chain : chain[n].to = a}

\* What PendingNonceAt answers: the first nonce from the chain's on that the
\* pool has no transaction for.
PendingNonce(i) ==
  CHOOSE n \in Len(chain)..MaxNonce :
    /\ n \notin Nonces(pool[i])
    /\ Len(chain)..(n - 1) \subseteq Nonces(pool[i])

\* The largest answer of the nodes that answer, 0 when none does.
Largest(S) == CHOOSE n \in S : \A m \in S : m <= n
MaxPending(answering) == Largest({0} \cup {PendingNonce(i) : i \in answering})

--------------------------------------------------------------------------------
ContextInit ==
  /\ chain = <<>> /\ pool = [i \in Nodes |-> {}]
  /\ place = "off" /\ cached = Unknown /\ index = 0
  /\ account = Funder /\ attempt = 0 /\ tx = NoTx /\ landed = FALSE
  /\ contexts = 0 /\ creations = 0 /\ unsent = 0
  /\ asked = [a \in Accounts |-> 0] /\ given = {}
  /\ dummies = 0 /\ troubles = 0 /\ losses = 0
  /\ blind = FALSE /\ late = [a \in Accounts |-> 0]

\* k more things go wrong.
Trouble(k) ==
  /\ troubles + k <= MaxTroubles
  /\ troubles' = troubles + k

\* A node keeps one transaction per nonce.
Put(t) ==
  pool' = [pool EXCEPT ![Primary] = {u \in @ : u.nonce # t.nonce} \cup {t}]

\* sendDummyTx: the next free nonce of the primary, back to the funder.  It
\* gives up in silence when a call fails, also when the failure only hides that
\* the node took the transaction.  Reading the nonce and sending are one step:
\* nobody else sends, and what the nodes do in between comes to the same when they
\* do it before or after.
DummyTaken ==
  LET n == PendingNonce(Primary) IN
    /\ dummies < MaxDummies /\ dummies' = dummies + 1
    /\ n < MaxNonce
    /\ Put(Signed(n, Funder, 0))
    /\ \/ cached' = (IF n + 1 > cached THEN n + 1 ELSE cached) /\ UNCHANGED troubles
       \/ Trouble(1) /\ UNCHANGED cached
    /\ UNCHANGED <<chain, losses>>

DummyGivenUp ==
  Trouble(1) /\ UNCHANGED <<node, cached, dummies, losses>>

\* Mutant of Refreshed: a refresh never lowers the cache, as sendDummyTx does not.
Refreshed_keeps(answering) == Largest({cached, MaxPending(answering)})

\* RefreshNonce overwrites the cache with the largest answer.
Refreshed(answering) == MaxPending(answering)

\* The nodes of S answer a question that all are asked.
Answering(S) == Trouble(Cardinality(Nodes \ S))

Refresh == \E S \in SUBSET Nodes : Answering(S) /\ cached' = Refreshed(S)

--------------------------------------------------------------------------------
(* The life of a context. *)

\* NewCIContext up to its first dummy transaction.
Boot ==
  /\ place = "off" /\ contexts < MaxContexts
  /\ place' = "boot" /\ contexts' = contexts + 1
  /\ DummyTaken \/ DummyGivenUp
  /\ UNCHANGED <<index, call, creations, asked, given, seen>>

\* Mutant of SeedIndex: the seed is forgotten.
SeedIndex_none(answering) == 0

\* seedAccountIndexFromFunderNonce, the last step of NewCIContext.
SeedIndex(answering) == MaxPending(answering)

Seed ==
  /\ place = "boot" /\ place' = "idle"
  /\ \E S \in SUBSET Nodes :
       /\ Answering(S)
       /\ index' = SeedIndex(S)
       /\ blind' = (blind \/ Primary \notin S)
  /\ UNCHANGED <<node, cached, call, tallies, dummies, losses, landed, unsent,
                 late>>

\* The process of go test ends, or gives up in NewCIContext because the chain
\* makes no progress or autoInitialize fails.
Exit ==
  /\ place \in {"boot", "idle"} /\ place' = "off"
  /\ cached' = Unknown /\ index' = 0
  /\ UNCHANGED <<node, call, tallies, env, seen>>

\* A wait (for blocks, for an epoch, for a receipt) pokes the chain.
Poke ==
  /\ place \in {"boot", "idle", "take", "mining"}
  /\ DummyTaken \/ DummyGivenUp
  /\ UNCHANGED <<place, index, call, tallies, seen>>

--------------------------------------------------------------------------------
(* CreateAndFundAccount. *)

\* nextDeterministicKey.
Create ==
  /\ place = "idle" /\ creations < MaxCreations
  /\ creations' = creations + 1
  /\ account' = index + 1 /\ index' = index + 1
  /\ asked' = [asked EXCEPT ![index + 1] = @ + 1]
  /\ place' = "take"
  /\ UNCHANGED <<node, cached, attempt, tx, contexts, given, env, seen>>

Return ==
  place' = "idle" /\ account' = Funder /\ attempt' = 0 /\ tx' = NoTx

\* The call returns an error; so far, sent says, a node took a transaction.
Fail(sent) ==
  /\ Return
  /\ landed' = FALSE /\ unsent' = IF sent THEN unsent ELSE unsent + 1

\* Mutant of Retry: an attempt that is retried is not counted.
Retry_uncounted ==
  \/ /\ attempt + 1 < Attempts
     /\ place' = "take" /\ tx' = NoTx
     /\ UNCHANGED <<account, attempt, landed, unsent>>
  \/ attempt + 1 >= Attempts /\ Fail(landed)

\* One attempt too many.
Retry_more ==
  \/ /\ attempt + 1 <= Attempts
     /\ attempt' = attempt + 1 /\ place' = "take" /\ tx' = NoTx
     /\ UNCHANGED <<account, landed, unsent>>
  \/ attempt + 1 > Attempts /\ Fail(landed)

\* continue in the loop over the attempts, whose end is a failure.
Retry ==
  \/ /\ attempt + 1 < Attempts
     /\ attempt' = attempt + 1 /\ place' = "take" /\ tx' = NoTx
     /\ UNCHANGED <<account, landed, unsent>>
  \/ attempt + 1 >= Attempts /\ Fail(landed)

\* GetTransactorEx, which refreshes every time, and signing.
Take ==
  /\ place = "take" /\ place' = "send"
  /\ \E S \in SUBSET Nodes :
       LET n == Refreshed(S) IN
         /\ Answering(S)
         /\ n < MaxNonce
         /\ cached' = n + 1
         /\ tx' = Signed(n, account, attempt)
         /\ blind' = (blind \/ Primary \notin S)
  /\ UNCHANGED <<node, index, account, attempt, tallies, dummies, losses,
                 landed, unsent, late>>

\* The epoch wait of GetTransactorEx stalls or times out.
TakeFails ==
  /\ place = "take"
  /\ Trouble(1) /\ Retry
  /\ UNCHANGED <<node, cached, index, tallies, dummies, losses, blind, late>>

\* The primary can take the transaction, in place of another one of its nonce
\* when the price allows it.
Acceptable == tx.nonce >= Len(chain) /\ tx \notin pool[Primary]

\* SendTransaction succeeds.
Accepted ==
  /\ place = "send" /\ Acceptable /\ Put(tx)
  /\ place' = "mining" /\ landed' = TRUE
  /\ UNCHANGED <<chain, cached, index, call, tallies, env, unsent, blind, late>>

\* The errors of the primary that the loop retries, when they apply.
RetriedErrors ==
  {e \in {"nonce too low", "already known", "replacement underpriced"} :
     \/ e = "nonce too low" /\ tx.nonce < Len(chain)
     \/ e = "already known" /\ tx \in pool[Primary]
     \/ e = "replacement underpriced" /\ Acceptable
        /\ tx.nonce \in Nonces(pool[Primary])}

Refused ==
  /\ place = "send" /\ RetriedErrors # {}
  /\ Refresh /\ Retry
  /\ UNCHANGED <<node, index, tallies, dummies, losses, blind, late>>

\* Mutant of SendFails: any error of SendTransaction is worth another attempt.
SendFails_retried ==
  /\ place = "send" /\ Trouble(1)
  /\ \/ UNCHANGED node
     \/ Acceptable /\ Put(tx) /\ UNCHANGED chain
  /\ Retry
  /\ UNCHANGED <<cached, index, tallies, dummies, losses, blind, late>>

\* Any other error, which may hide that the primary took the transaction.
SendFails ==
  /\ place = "send" /\ Trouble(1)
  /\ \/ UNCHANGED node /\ Fail(landed)
     \/ Acceptable /\ Put(tx) /\ UNCHANGED chain /\ Fail(TRUE)
  /\ UNCHANGED <<cached, index, tallies, dummies, losses, blind, late>>

\* WaitMined finds the receipt.
Confirm ==
  /\ place = "mining" /\ tx \in Mined
  /\ given' = given \cup {<<contexts, account>>}
  /\ Return /\ landed' = FALSE
  /\ UNCHANGED <<node, cached, index, contexts, creations, asked, env, unsent,
                 blind, late>>

\* WaitMined times out; the transaction may be mined afterwards, or has been
\* since the last look for its receipt.
Timeout ==
  /\ place = "mining"
  /\ late' = [late EXCEPT ![account] = @ + 1]
  /\ Refresh /\ Retry
  /\ UNCHANGED <<node, index, tallies, dummies, losses, blind>>

--------------------------------------------------------------------------------
(* The nodes. *)

\* A block with the next transaction of the funder, from any node's pool.
Mine ==
  /\ \E i \in Nodes : \E t \in pool[i] :
       /\ t.nonce = Len(chain)
       /\ chain' = Append(chain, t)
  /\ pool' = [i \in Nodes |-> {t \in pool[i] : t.nonce > Len(chain)}]
  /\ UNCHANGED <<place, cached, index, call, tallies, env, seen>>

\* A transaction spreads to a node that has none of that nonce.
Gossip ==
  /\ \E i, j \in Nodes : \E t \in pool[i] :
       /\ t.nonce \notin Nonces(pool[j])
       /\ pool' = [pool EXCEPT ![j] = @ \cup {t}]
  /\ UNCHANGED <<chain, place, cached, index, call, tallies, env, seen>>

\* A restart or an eviction.
Lose ==
  /\ Trouble(1) /\ losses' = losses + 1
  /\ \E i \in Nodes : \E t \in pool[i] : pool' = [pool EXCEPT ![i] = @ \ {t}]
  /\ UNCHANGED <<chain, place, cached, index, call, tallies, dummies, seen>>

--------------------------------------------------------------------------------
Caller ==
  Take \/ TakeFails \/ Accepted \/ Refused \/ SendFails \/ Confirm \/ Timeout

ContextNext ==
  \/ Boot \/ Seed \/ Exit \/ Poke \/ Create \/ Caller
  \/ Mine \/ Gossip \/ Lose

ContextSpec == ContextInit /\ [][ContextNext]_contextVars

\* Every wait of the calls has a deadline and every loop over attempts a limit.
FairContextSpec == ContextSpec /\ WF_contextVars(Caller)

--------------------------------------------------------------------------------
(* Properties. *)

ContextTypeOK ==
  /\ chain \in Seq(Tx)
  /\ pool \in [Nodes -> SUBSET Tx]
  /\ place \in Places
  /\ cached \in {Unknown} \cup 0..MaxNonce
  /\ index \in 0..(MaxNonce + MaxCreations)
  /\ account \in {Funder} \cup Accounts
  /\ attempt \in 0..(Attempts - 1)
  /\ tx \in Tx
  /\ landed \in BOOLEAN /\ blind \in BOOLEAN
  /\ contexts \in 0..MaxContexts /\ creations \in 0..MaxCreations
  /\ dummies \in Nat /\ troubles \in Nat /\ losses \in Nat /\ unsent \in Nat
  /\ asked \in [Accounts -> Nat] /\ late \in [Accounts -> Nat]
  /\ given \subseteq (1..MaxContexts) \X Accounts

\* A payment that a test waits for is never parked behind a nonce that no
\* transaction has, however many earlier calls failed or timed out and whoever
\* answered the refreshes, as long as no pool loses a transaction: the nonce
\* that GetTransactorEx took for a transaction that was never sent is handed
\* out again.
NoGap ==
  place = "mining" /\ losses = 0 =>
    Len(chain)..tx.nonce \subseteq Nonces(pool[Primary])

\* An account that a test was given has been paid for, and it is paid for again
\* only by another call or after the wait for a payment timed out: the errors
\* that CreateAndFundAccount retries at once never hide a payment.
PaidOnce ==
  \A a \in Accounts :
    LET paid == Cardinality(Payments(a)) IN
      /\ (\E c \in 1..MaxContexts : <<c, a>> \in given) => paid >= 1
      /\ paid <= asked[a] + late[a]

\* "Keep generated test accounts unique across sequential runs that share one
\* chain": no two contexts give their tests the same account.
AccountsUnique ==
  \A g, h \in given : g[2] = h[2] => g[1] = h[1]

\* What the seed does achieve: the accounts are unique as long as no call fails
\* before it has sent anything, the primary answers when an index is seeded or a
\* nonce is taken, and no pool loses a transaction.
UniqueWhenSeeded ==
  unsent = 0 /\ ~blind /\ losses = 0 => AccountsUnique

\* Every call returns, whatever the nodes do.
CallsReturn == (place \in Creating) ~> (place \notin Creating)

================================================================================
