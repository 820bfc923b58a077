------------------------------- MODULE Delegation -------------------------------
(* RobustDelegate: one delegation that a test asks for, sent again and again  *)
(* until one of the transactions is mined. The nonce of each is read from the *)
(* nodes, whose answers may be behind, and a transaction that was waited for  *)
(* in vain stays in the pool.                                                 *)
EXTENDS Integers, FiniteSets

CONSTANTS
  Retries,     \* defaultDelegateRetries
  Balances,    \* how many delegations the delegator can pay for
  MaxTroubles  \* bound: calls that go wrong

VARIABLES
  purse,     \* delegations the delegator can pay for, at the start
  retry,     \* attempts so far
  step,      \* try; send, with the nonce in slot; wait for slot; done, failed
  slot,      \* the nonce of the transaction at hand
  pool,      \* nonces of the transactions that are pending
  nonce,     \* of the account on the chain
  reverted,  \* nonces of the transactions that were mined and reverted
  staked,    \* delegations on the chain
  inVain,    \* nonces whose wait has timed out
  lost,      \* a transaction was accepted, but not the answer to its sender
  troubles   \* calls that may still go wrong

delegationVars ==
  <<purse, retry, step, slot, pool, nonce, reverted, staked, inVain, lost, troubles>>
chainVars == <<pool, nonce, reverted, staked>>

Init ==
  /\ purse \in Balances
  /\ retry = 0 /\ step = "try" /\ slot = 0
  /\ pool = {} /\ nonce = 0 /\ reverted = {} /\ staked = 0
  /\ inVain = {} /\ lost = FALSE
  /\ troubles = MaxTroubles

Trouble == troubles > 0 /\ troubles' = troubles - 1

PendingNonce == CHOOSE n \in nonce..(nonce + Cardinality(pool)) :
  n \notin pool /\ \A k \in nonce..(n - 1) : k \in pool

(* Every failure of an attempt leads to the next one while there is one. *)
NextTry ==
  /\ retry' = retry + 1
  /\ step' = IF retry + 1 < Retries THEN "try" ELSE "failed"
  /\ UNCHANGED slot

(* GetTransactor: the greatest pending nonce that a node tells. Nodes that are *)
(* behind tell an earlier one, and if none answers it is zero.                 *)
Transactor ==
  /\ step = "try"
  /\ \/ slot' = PendingNonce /\ UNCHANGED troubles
     \/ Trouble /\ slot' \in 0..(PendingNonce - 1)
  /\ step' = "send"
  /\ UNCHANGED <<purse, retry, chainVars, inVain, lost>>

(* The wait for the epoch block to pass times out. *)
NoTransactor ==
  /\ step = "try" /\ Trouble
  /\ NextTry
  /\ UNCHANGED <<purse, chainVars, inVain, lost>>

Payable == purse - staked >= 1

(* nonce too low, replacement transaction underpriced, already known, *)
(* insufficient funds.                                                *)
Refused == slot < nonce \/ slot \in pool \/ ~Payable

(* Mutant of IsRetryable: an error without a meaning is retried as well. *)
IsRetryable_lost(error) == error \in {"refused", "epoch block", "lost"}

IsRetryable(error) == error \in {"refused", "epoch block"}

SendFails(error) ==
  IF IsRetryable(error) THEN NextTry
  ELSE step' = "failed" /\ UNCHANGED <<retry, slot>>

DelegateRefused ==
  /\ step = "send" /\ Refused
  /\ SendFails("refused")
  /\ UNCHANGED <<purse, chainVars, inVain, lost, troubles>>

(* The gas estimate runs into an epoch block, or the call fails: then the *)
(* transaction may have reached the pool or not.                          *)
DelegateFails(error, arrives) ==
  /\ step = "send" /\ ~Refused /\ Trouble
  /\ SendFails(error)
  /\ arrives => error = "lost"
  /\ pool' = IF arrives THEN pool \cup {slot} ELSE pool
  /\ lost' = (lost \/ arrives)
  /\ UNCHANGED <<purse, nonce, reverted, staked, inVain>>

Delegate ==
  /\ step = "send" /\ ~Refused
  /\ pool' = pool \cup {slot}
  /\ step' = "wait"
  /\ UNCHANGED <<purse, retry, slot, nonce, reverted, staked, inVain, lost, troubles>>

(* The chain takes the transaction that is next, if it can be paid. One that *)
(* lands in an epoch block is reverted.                                      *)
Mine(ok) ==
  /\ nonce \in pool /\ Payable
  /\ IF ok THEN staked' = staked + 1 /\ UNCHANGED <<reverted, troubles>>
     ELSE Trouble /\ reverted' = reverted \cup {nonce} /\ UNCHANGED staked
  /\ pool' = pool \ {nonce}
  /\ nonce' = nonce + 1
  /\ UNCHANGED <<purse, retry, step, slot, inVain, lost>>

(* Mutant of Mined: any receipt will do. *)
Mined_any == slot < nonce

Mined == slot < nonce /\ slot \notin reverted

WaitMinedOk ==
  /\ step = "wait" /\ Mined
  /\ step' = "done"
  /\ UNCHANGED <<purse, retry, slot, chainVars, inVain, lost, troubles>>

WaitMinedReverted ==
  /\ step = "wait" /\ slot < nonce /\ ~Mined
  /\ NextTry
  /\ UNCHANGED <<purse, chainVars, inVain, lost, troubles>>

WaitMinedTimesOut ==
  /\ step = "wait" /\ slot >= nonce /\ Trouble
  /\ NextTry
  /\ inVain' = inVain \cup {slot}
  /\ UNCHANGED <<purse, chainVars, lost>>

Next ==
  \/ Transactor \/ NoTransactor
  \/ DelegateRefused \/ Delegate
  \/ \E error \in {"epoch block", "lost"}, arrives \in BOOLEAN : DelegateFails(error, arrives)
  \/ \E ok \in BOOLEAN : Mine(ok)
  \/ WaitMinedOk \/ WaitMinedReverted \/ WaitMinedTimesOut

Spec == Init /\ [][Next]_delegationVars

--------------------------------------------------------------------------------
(* A delegation that is reported is on the chain. One more than that is there, *)
(* or will be, for each wait that timed out and for none else: where no wait   *)
(* was in vain there is one at most, and none after a failure, unless the last *)
(* transaction was accepted and its sender never heard of it.                  *)
DelegationTrue ==
  /\ step = "done" => staked >= 1
  /\ staked + Cardinality(pool) <= 1 + Cardinality(inVain)
  /\ inVain = {} /\ ~lost /\ step = "failed" => staked = 0 /\ pool = {}

================================================================================
