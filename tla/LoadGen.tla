------------------------------- MODULE LoadGen -------------------------------
(***************************************************************************)
(* The transaction load generator of the performance suite                 *)
(* (scripts/perf/loadgen.go) together with the loop that drives it through *)
(* the TPS tiers (runTier and the tier loop of scripts/perf/perf_runner.go).*)
(*                                                                         *)
(* One process (the main goroutine) walks through the tiers: it re-reads   *)
(* the senders' nonces, starts a generator, samples, stops it, waits for   *)
(* the confirmations to drain and judges the tier.  Every tier has its own *)
(* generator (one dispatcher goroutine, one worker goroutine per account)  *)
(* but the senderAccount records are shared by all of them.  Stop waits    *)
(* for the dispatcher only, so a worker of an earlier tier may still be    *)
(* sending when the next tier re-reads the nonces.                         *)
(*                                                                         *)
(* The node is modelled by what its RPCs return: for every account the     *)
(* nonce of the latest block and the transactions the node holds.          *)
(***************************************************************************)
EXTENDS Integers, FiniteSets

CONSTANTS
  NumAccounts,    \* number of sender accounts
  NumTiers,       \* number of entries of the tier list
  QueueDepth,     \* capacity of an account's token channel (defaultQueueDepth)
  MinSuccessPct,  \* -min-success-rate, in percent
  StopAtFailure,  \* TRUE in mode "max": the first failing tier ends the search
  MaxDispatch,    \* bound: tokens one generator dispatches (TPS * duration)
  MaxBurst,       \* bound: tokens of one dispatch window
  MaxPolls,       \* bound: polls of DrainConfirmations before its deadline
  MaxNonce        \* bound: highest nonce a worker sends

ASSUME LoadGenAssumption ==
  /\ NumAccounts \in Nat \ {0}
  /\ NumTiers \in Nat \ {0}
  /\ QueueDepth \in Nat \ {0}
  /\ MinSuccessPct \in 0..100
  /\ StopAtFailure \in BOOLEAN
  /\ MaxDispatch \in Nat
  /\ MaxBurst \in Nat \ {0}
  /\ MaxPolls \in Nat
  /\ MaxNonce \in Nat

Accounts == 0..(NumAccounts - 1)
Tiers    == 1..NumTiers

VARIABLES
  \* the main goroutine
  phase,            \* where it is, see Phases
  tier,             \* the tier, and so the generator, it is working on
  idx,              \* the account the current loop over the accounts is at
  readPending,      \* pendingNonce and confirmedNonce, the locals of
  readConfirmed,    \*   syncSenderAccountNonces
  snap,             \* the snapshot DrainConfirmations is taking
  polls,            \* snapshots DrainConfirmations has slept after
  status,           \* the verdict on the current tier
  \* the dispatcher of the current generator
  burst,            \* tokens left in this window; 0 while it waits in its select
  nextAccount,      \* round-robin position
  dispatcherDone,   \* no dispatcher runs: doneCh is closed, or nothing was started
  \* the generators' shared counters, and stopCh
  dispatched, sent, accepted, failed, backpressureDrop, stopped,
  \* the workers: one per generator and account
  wpc,              \* where it is, see WorkerStates
  wnonce,           \* the nonce it holds in a local or a register
  \* the sender accounts, shared by all generators
  queue,            \* tokens in the channel
  nextNonce, startNonce, startConfirmed, confirmedLatest,
  \* the node
  confirmed,        \* NonceAt(account, latest block)
  txs,              \* per generator, the <<account, nonce>> the node took from it
  \* history
  overlap           \* accounts re-synchronised while an old worker was alive

mainVars    == <<phase, tier, idx, readPending, readConfirmed, snap, polls, status>>
dispVars    == <<burst, nextAccount, dispatcherDone>>
counterVars == <<dispatched, sent, accepted, failed, backpressureDrop>>
workerVars  == <<wpc, wnonce>>
accountVars == <<nextNonce, startNonce, startConfirmed, confirmedLatest>>
nodeVars    == <<confirmed, txs>>
world       == <<dispVars, counterVars, stopped, workerVars, queue, accountVars,
                 nodeVars, overlap>>
vars        == <<mainVars, world>>

Phases ==
  {"syncPending", "syncConfirmed", "syncWrite", "queueLen", "queueRecv",
   "start", "run", "stopping", "loadSent", "loadAccepted", "confirm",
   "decide", "verdict", "done", "aborted"}
Syncing == {"syncPending", "syncConfirmed", "syncWrite", "queueLen", "queueRecv"}
Final   == {"done", "aborted"}

WorkerStates ==
  {"none",      \* its generator has not been started
   "idle",      \* in its select
   "send",      \* took a token and read nextNonce, SendTransaction not yet served
   "ack",       \* SendTransaction returned nil
   "store",     \* counted as accepted, nextNonce loaded for the increment
   "refresh",   \* a nonce error came back, PendingNonceAt not yet served
   "assign",    \* PendingNonceAt answered, nextNonce not yet assigned
   "exit"}      \* returned

Alive(g, a)    == wpc[g][a] \notin {"none", "exit"}
InFlight(g, a) == wpc[g][a] \in {"send", "ack"}

-----------------------------------------------------------------------------
(* The node.                                                               *)

\* The nonces the node has taken for an account, mined or pooled.
Held(a) == {n \in 0..MaxNonce : \E g \in Tiers : <<a, n>> \in txs[g]}

\* PendingNonceAt: the first nonce the node holds no transaction for.
PendingNonce(a) ==
  CHOOSE n \in 0..(MaxNonce + 1) :
     n \notin Held(a) /\ \A m \in 0..(n - 1) : m \in Held(a)

\* The node takes a transaction, in place of the one it holds at that nonce.
Take(g, a, n) ==
  txs' = [h \in Tiers |-> IF h = g THEN txs[h] \union {<<a, n>>}
                                   ELSE txs[h] \ {<<a, n>>}]

\* A block includes the next transaction of an account.
Mine(a) ==
  /\ confirmed[a] \in Held(a)
  /\ confirmed' = [confirmed EXCEPT ![a] = @ + 1]
  /\ UNCHANGED <<mainVars, dispVars, counterVars, stopped, workerVars, queue, accountVars, txs,
                 overlap>>

-----------------------------------------------------------------------------
(* syncSenderAccountNonces: one account after the other.                   *)

Goto(p) == phase' = p
NoSnap  == [sent |-> 0, accepted |-> 0, confirmed |-> 0]

\* Mutant: the senders are synchronised with NonceAt.
SyncNonce_latest(a) == confirmed[a]

SyncNonce(a) == PendingNonce(a)

\* First RPC of the loop body.
SyncPending ==
  /\ phase = "syncPending"
  /\ readPending' = SyncNonce(idx)
  /\ overlap' = IF \E g \in Tiers : Alive(g, idx) THEN overlap \union {idx} ELSE overlap
  /\ Goto("syncConfirmed")
  /\ UNCHANGED <<tier, idx, readConfirmed, snap, polls, status, dispVars, counterVars, stopped,
                 workerVars, queue, accountVars, nodeVars>>

\* Second RPC of the loop body.
SyncConfirmed ==
  /\ phase = "syncConfirmed"
  /\ readConfirmed' = confirmed[idx]
  /\ Goto("syncWrite")
  /\ UNCHANGED <<tier, idx, readPending, snap, polls, status, world>>

\* Either RPC fails: the process exits, and its goroutines with it.
SyncError ==
  /\ phase \in {"syncPending", "syncConfirmed"}
  /\ Goto("aborted")
  /\ UNCHANGED <<tier, idx, readPending, readConfirmed, snap, polls, status, world>>

SyncWrite ==
  /\ phase = "syncWrite"
  /\ nextNonce'       = [nextNonce EXCEPT ![idx] = readPending]
  /\ startNonce'      = [startNonce EXCEPT ![idx] = readPending]
  /\ startConfirmed'  = [startConfirmed EXCEPT ![idx] = readConfirmed]
  /\ confirmedLatest' = [confirmedLatest EXCEPT ![idx] = readConfirmed]
  /\ readPending' = 0 /\ readConfirmed' = 0
  /\ Goto("queueLen")
  /\ UNCHANGED <<tier, idx, snap, polls, status, dispVars, counterVars, stopped, workerVars,
                 queue, nodeVars, overlap>>

\* The loop condition len(queue) > 0; an empty queue ends this account.
QueueLen ==
  /\ phase = "queueLen"
  /\ IF queue[idx] > 0
       THEN Goto("queueRecv") /\ UNCHANGED idx
       ELSE IF idx + 1 < NumAccounts
              THEN Goto("syncPending") /\ idx' = idx + 1
              ELSE Goto("start") /\ idx' = 0
  /\ UNCHANGED <<tier, readPending, readConfirmed, snap, polls, status, world>>

\* The receive in the loop body: it blocks when a worker emptied the queue.
QueueRecv ==
  /\ phase = "queueRecv"
  /\ queue[idx] > 0
  /\ queue' = [queue EXCEPT ![idx] = @ - 1]
  /\ Goto("queueLen")
  /\ UNCHANGED <<tier, idx, readPending, readConfirmed, snap, polls, status, dispVars,
                 counterVars, stopped, workerVars, accountVars, nodeVars, overlap>>

-----------------------------------------------------------------------------
(* runTier and the tier loop.                                              *)

\* newLoadGenerator and Start.
Start ==
  /\ phase = "start"
  /\ wpc' = [wpc EXCEPT ![tier] = [a \in Accounts |-> "idle"]]
  /\ burst' = 0 /\ nextAccount' = 0 /\ dispatcherDone' = FALSE
  /\ Goto("run")
  /\ UNCHANGED <<tier, idx, readPending, readConfirmed, snap, polls, status, counterVars,
                 stopped, wnonce, queue, accountVars, nodeVars, overlap>>

\* A sample of the measuring loop; the RPC answers for the accounts of S only.
Sample ==
  /\ phase = "run"
  /\ \E S \in SUBSET Accounts :
       confirmedLatest' =
         [a \in Accounts |-> IF a \in S THEN confirmed[a] ELSE confirmedLatest[a]]
  /\ UNCHANGED <<mainVars, dispVars, counterVars, stopped, workerVars, queue, nextNonce,
                 startNonce, startConfirmed, nodeVars, overlap>>

\* The tier's duration is over: Stop closes stopCh ...
StopCall ==
  /\ phase = "run"
  /\ stopped' = [stopped EXCEPT ![tier] = TRUE]
  /\ Goto("stopping")
  /\ UNCHANGED <<tier, idx, readPending, readConfirmed, snap, polls, status, dispVars,
                 counterVars, workerVars, queue, accountVars, nodeVars, overlap>>

\* Mutant: Stop does not wait.
AwaitDone_skipped == TRUE

\* <-doneCh
AwaitDone == dispatcherDone

\* ... and returns once the dispatcher has closed doneCh.
StopReturn ==
  /\ phase = "stopping"
  /\ AwaitDone
  /\ Goto("loadSent")
  /\ polls' = 0
  /\ UNCHANGED <<tier, idx, readPending, readConfirmed, snap, status, world>>

\* Snapshot loads the counters one by one ...
LoadSent ==
  /\ phase = "loadSent"
  /\ snap' = [snap EXCEPT !.sent = sent[tier]]
  /\ Goto("loadAccepted")
  /\ UNCHANGED <<tier, idx, readPending, readConfirmed, polls, status, world>>

LoadAccepted ==
  /\ phase = "loadAccepted"
  /\ snap' = [snap EXCEPT !.accepted = accepted[tier], !.confirmed = 0]
  /\ idx' = 0
  /\ Goto("confirm")
  /\ UNCHANGED <<tier, readPending, readConfirmed, polls, status, world>>

\* ... and refreshConfirmedCount asks the node for one account after the other,
\* falling back to the last answer when the RPC fails.
Confirm ==
  /\ phase = "confirm"
  /\ \E c \in {confirmed[idx], confirmedLatest[idx]} :
       /\ confirmedLatest' = [confirmedLatest EXCEPT ![idx] = c]
       /\ snap' = [snap EXCEPT !.confirmed =
                     @ + (IF c >= startConfirmed[idx] THEN c - startConfirmed[idx] ELSE 0)]
  /\ IF idx + 1 < NumAccounts
       THEN idx' = idx + 1 /\ UNCHANGED phase
       ELSE idx' = 0 /\ Goto("decide")
  /\ UNCHANGED <<tier, readPending, readConfirmed, polls, status, dispVars, counterVars,
                 stopped, workerVars, queue, nextNonce, startNonce, startConfirmed, nodeVars,
                 overlap>>

\* Mutant: the backlog is not looked at.
PendingBacklog_ignored == 0

PendingBacklog == IF snap.accepted > snap.confirmed THEN snap.accepted - snap.confirmed ELSE 0

\* A rate of 0 when nothing was sent.
RateOK(count) == snap.sent > 0 /\ count * 100 >= MinSuccessPct * snap.sent

TierPasses == PendingBacklog = 0 /\ RateOK(snap.accepted) /\ RateOK(snap.confirmed)

\* DrainConfirmations sleeps and takes another snapshot.
PollAgain ==
  /\ phase = "decide"
  /\ PendingBacklog > 0 /\ polls < MaxPolls
  /\ polls' = polls + 1
  /\ Goto("loadSent")
  /\ UNCHANGED <<tier, idx, readPending, readConfirmed, snap, status, world>>

\* It returns, drained or past its deadline, and runTier judges the tier.  Height
\* lag, latency and stalls are not modelled and may fail it at will.
Judge ==
  /\ phase = "decide"
  /\ \E healthy \in BOOLEAN :
       status' = IF TierPasses /\ healthy THEN "PASS" ELSE "FAIL"
  /\ Goto("verdict")
  /\ UNCHANGED <<tier, idx, readPending, readConfirmed, snap, polls, world>>

\* The tier loop goes on, or ends at the last tier or at the first unstable one.
NextTier ==
  /\ phase = "verdict"
  /\ IF tier = NumTiers \/ (StopAtFailure /\ status = "FAIL")
       THEN Goto("done") /\ UNCHANGED <<tier, idx, snap, polls, status>>
       ELSE /\ Goto("syncPending") /\ tier' = tier + 1 /\ idx' = 0
            /\ snap' = NoSnap /\ polls' = 0 /\ status' = "none"
  /\ UNCHANGED <<readPending, readConfirmed, world>>

-----------------------------------------------------------------------------
(* runDispatcher of the current generator.                                 *)

\* Nothing but its return, or the end of the process, stops the goroutine.
Dispatching == phase \notin Final /\ ~dispatcherDone

\* The select picks the ticker; it may do so after stopCh was closed.
Window ==
  /\ Dispatching /\ burst = 0
  /\ \E b \in 1..MaxBurst :
       /\ dispatched[tier] + b <= MaxDispatch
       /\ burst' = b
  /\ UNCHANGED <<mainVars, nextAccount, dispatcherDone, counterVars, stopped, workerVars,
                 queue, accountVars, nodeVars, overlap>>

\* Mutant: one token more than the channel holds.
HasRoom_offByOne(a) == queue[a] <= QueueDepth

HasRoom(a) == queue[a] < QueueDepth

\* One token: into the channel, or dropped when the channel is full.
Dispatch ==
  /\ Dispatching /\ burst > 0
  /\ burst' = burst - 1
  /\ nextAccount' = (nextAccount + 1) % NumAccounts
  /\ dispatched' = [dispatched EXCEPT ![tier] = @ + 1]
  /\ IF HasRoom(nextAccount)
       THEN /\ queue' = [queue EXCEPT ![nextAccount] = @ + 1]
            /\ UNCHANGED <<failed, backpressureDrop>>
       ELSE /\ failed' = [failed EXCEPT ![tier] = @ + 1]
            /\ backpressureDrop' = [backpressureDrop EXCEPT ![tier] = @ + 1]
            /\ UNCHANGED queue
  /\ UNCHANGED <<mainVars, dispatcherDone, sent, accepted, stopped, workerVars, accountVars,
                 nodeVars, overlap>>

\* Mutant: the dispatcher returns without closing doneCh.
CloseDone_missing == UNCHANGED dispatcherDone

CloseDone == dispatcherDone' = TRUE

\* The select picks stopCh: the dispatcher returns and closes doneCh.
DispatcherExit ==
  /\ Dispatching /\ burst = 0 /\ stopped[tier]
  /\ CloseDone
  /\ UNCHANGED <<mainVars, burst, nextAccount, counterVars, stopped, workerVars, queue,
                 accountVars, nodeVars, overlap>>

-----------------------------------------------------------------------------
(* runAccountWorker(a) of generator g.                                     *)

WorkerAt(g, a, s) == phase \notin Final /\ wpc[g][a] = s
WorkerGoto(g, a, s) == wpc' = [wpc EXCEPT ![g][a] = s]
\* Back to the select; the loop body's locals are gone.
WorkerLoop(g, a) ==
  WorkerGoto(g, a, "idle") /\ wnonce' = [wnonce EXCEPT ![g][a] = 0]
Count(counter, g) == [counter EXCEPT ![g] = @ + 1]

\* Mutant: a failed send is not counted.
CountFailure_missing(g) == UNCHANGED failed

CountFailure(g) == failed' = Count(failed, g)

\* Mutant: the nonce is consumed whatever the node answered.
KeepNonce_consumed(a) == nextNonce' = [nextNonce EXCEPT ![a] = @ + 1]

\* A failed send leaves the nonce for the next token.
KeepNonce(a) == UNCHANGED nextNonce

\* Mutant: the worker looks at stopCh only after it received a token.
SeesStop_afterToken(g, a) == stopped[g] /\ queue[a] > 0

SeesStop(g, a) == stopped[g]

\* The select picks stopCh.
WorkerExit(g, a) ==
  /\ WorkerAt(g, a, "idle") /\ SeesStop(g, a)
  /\ WorkerGoto(g, a, "exit")
  /\ UNCHANGED <<mainVars, dispVars, counterVars, stopped, wnonce, queue, accountVars,
                 nodeVars, overlap>>

\* The select picks the queue; it may do so after stopCh was closed.
WorkerTake(g, a) ==
  /\ WorkerAt(g, a, "idle") /\ queue[a] > 0
  /\ queue' = [queue EXCEPT ![a] = @ - 1]
  /\ sent' = Count(sent, g)
  /\ wnonce' = [wnonce EXCEPT ![g][a] = nextNonce[a]]
  /\ WorkerGoto(g, a, "send")
  /\ UNCHANGED <<mainVars, dispVars, dispatched, accepted, failed, backpressureDrop, stopped,
                 accountVars, nodeVars, overlap>>

\* The node takes the transaction; one it already holds at that nonce is replaced,
\* which needs the gas price of another generator.
SendAccepted(g, a) ==
  /\ WorkerAt(g, a, "send")
  /\ wnonce[g][a] \in confirmed[a]..MaxNonce
  /\ <<a, wnonce[g][a]>> \notin txs[g]
  /\ Take(g, a, wnonce[g][a])
  /\ WorkerGoto(g, a, "ack")
  /\ UNCHANGED <<mainVars, dispVars, counterVars, stopped, wnonce, queue, accountVars,
                 confirmed, overlap>>

\* The node takes it but the reply is lost: the worker sees a transport error.
SendReplyLost(g, a) ==
  /\ WorkerAt(g, a, "send")
  /\ wnonce[g][a] \in confirmed[a]..MaxNonce
  /\ <<a, wnonce[g][a]>> \notin txs[g]
  /\ Take(g, a, wnonce[g][a])
  /\ CountFailure(g) /\ KeepNonce(a)
  /\ WorkerLoop(g, a)
  /\ UNCHANGED <<mainVars, dispVars, dispatched, sent, accepted, backpressureDrop, stopped,
                 queue, startNonce, startConfirmed, confirmedLatest, confirmed, overlap>>

\* "nonce too low", "already known" or "replacement transaction underpriced".
SendNonceError(g, a) ==
  /\ WorkerAt(g, a, "send")
  /\ wnonce[g][a] < confirmed[a] \/ wnonce[g][a] \in Held(a)
  /\ CountFailure(g)
  /\ WorkerGoto(g, a, "refresh")
  /\ UNCHANGED <<mainVars, dispVars, dispatched, sent, accepted, backpressureDrop, stopped,
                 wnonce, queue, accountVars, nodeVars, overlap>>

\* Any other error: the nonce is kept for the next token.
SendOtherError(g, a) ==
  /\ WorkerAt(g, a, "send")
  /\ CountFailure(g) /\ KeepNonce(a)
  /\ WorkerLoop(g, a)
  /\ UNCHANGED <<mainVars, dispVars, dispatched, sent, accepted, backpressureDrop, stopped,
                 queue, startNonce, startConfirmed, confirmedLatest, nodeVars, overlap>>

\* accepted.Add(1), then the load of the unsynchronised nextNonce++ ...
AckCount(g, a) ==
  /\ WorkerAt(g, a, "ack")
  /\ accepted' = Count(accepted, g)
  /\ wnonce' = [wnonce EXCEPT ![g][a] = nextNonce[a]]
  /\ WorkerGoto(g, a, "store")
  /\ UNCHANGED <<mainVars, dispVars, dispatched, sent, failed, backpressureDrop, stopped,
                 queue, accountVars, nodeVars, overlap>>

\* ... and its store.
AckStore(g, a) ==
  /\ WorkerAt(g, a, "store")
  /\ nextNonce' = [nextNonce EXCEPT ![a] = wnonce[g][a] + 1]
  /\ WorkerLoop(g, a)
  /\ UNCHANGED <<mainVars, dispVars, counterVars, stopped, queue, startNonce, startConfirmed,
                 confirmedLatest, nodeVars, overlap>>

\* The answer of PendingNonceAt after a nonce error ...
RefreshRead(g, a) ==
  /\ WorkerAt(g, a, "refresh")
  /\ wnonce' = [wnonce EXCEPT ![g][a] = PendingNonce(a)]
  /\ WorkerGoto(g, a, "assign")
  /\ UNCHANGED <<mainVars, dispVars, counterVars, stopped, queue, accountVars, nodeVars, overlap>>

\* ... which may be an error as well ...
RefreshError(g, a) ==
  /\ WorkerAt(g, a, "refresh")
  /\ WorkerLoop(g, a)
  /\ UNCHANGED <<mainVars, dispVars, counterVars, stopped, queue, accountVars, nodeVars, overlap>>

\* ... and its assignment.
RefreshAssign(g, a) ==
  /\ WorkerAt(g, a, "assign")
  /\ nextNonce' = [nextNonce EXCEPT ![a] = wnonce[g][a]]
  /\ WorkerLoop(g, a)
  /\ UNCHANGED <<mainVars, dispVars, counterVars, stopped, queue, startNonce, startConfirmed,
                 confirmedLatest, nodeVars, overlap>>

-----------------------------------------------------------------------------
Init ==
  /\ phase = "syncPending" /\ tier = 1 /\ idx = 0
  /\ readPending = 0 /\ readConfirmed = 0
  /\ snap = NoSnap
  /\ polls = 0 /\ status = "none"
  /\ burst = 0 /\ nextAccount = 0 /\ dispatcherDone = TRUE
  /\ dispatched = [g \in Tiers |-> 0]
  /\ sent = [g \in Tiers |-> 0]
  /\ accepted = [g \in Tiers |-> 0]
  /\ failed = [g \in Tiers |-> 0]
  /\ backpressureDrop = [g \in Tiers |-> 0]
  /\ stopped = [g \in Tiers |-> FALSE]
  /\ wpc = [g \in Tiers |-> [a \in Accounts |-> "none"]]
  /\ wnonce = [g \in Tiers |-> [a \in Accounts |-> 0]]
  /\ queue = [a \in Accounts |-> 0]
  /\ nextNonce = [a \in Accounts |-> 0]
  /\ startNonce = [a \in Accounts |-> 0]
  /\ startConfirmed = [a \in Accounts |-> 0]
  /\ confirmedLatest = [a \in Accounts |-> 0]
  /\ confirmed = [a \in Accounts |-> 0]
  /\ txs = [g \in Tiers |-> {}]
  /\ overlap = {}

Sync == SyncPending \/ SyncConfirmed \/ SyncError \/ SyncWrite \/ QueueLen \/ QueueRecv

RunTier ==
  \/ Start \/ Sample \/ StopCall \/ StopReturn
  \/ LoadSent \/ LoadAccepted \/ Confirm \/ PollAgain \/ Judge \/ NextTier

Dispatcher == Window \/ Dispatch \/ DispatcherExit

Worker(g, a) ==
  \/ WorkerExit(g, a) \/ WorkerTake(g, a)
  \/ SendAccepted(g, a) \/ SendReplyLost(g, a)
  \/ SendNonceError(g, a) \/ SendOtherError(g, a)
  \/ AckCount(g, a) \/ AckStore(g, a)
  \/ RefreshRead(g, a) \/ RefreshError(g, a) \/ RefreshAssign(g, a)

Next ==
  \/ Sync \/ RunTier \/ Dispatcher
  \/ \E g \in Tiers, a \in Accounts : Worker(g, a)
  \/ \E a \in Accounts : Mine(a)

Spec == Init /\ [][Next]_vars

-----------------------------------------------------------------------------
(* Invariants.                                                             *)

TypeOK ==
  /\ phase \in Phases
  /\ tier \in Tiers
  /\ idx \in Accounts
  /\ readPending \in Nat
  /\ readConfirmed \in Nat
  /\ snap \in [sent : Nat, accepted : Nat, confirmed : Nat]
  /\ polls \in 0..MaxPolls
  /\ status \in {"none", "PASS", "FAIL"}
  /\ burst \in 0..MaxBurst
  /\ nextAccount \in Accounts
  /\ dispatcherDone \in BOOLEAN
  /\ dispatched \in [Tiers -> Nat]
  /\ sent \in [Tiers -> Nat]
  /\ accepted \in [Tiers -> Nat]
  /\ failed \in [Tiers -> Nat]
  /\ backpressureDrop \in [Tiers -> Nat]
  /\ stopped \in [Tiers -> BOOLEAN]
  /\ wpc \in [Tiers -> [Accounts -> WorkerStates]]
  /\ wnonce \in [Tiers -> [Accounts -> Nat]]
  /\ queue \in [Accounts -> 0..QueueDepth]
  /\ nextNonce \in [Accounts -> Nat]
  /\ startNonce \in [Accounts -> Nat]
  /\ startConfirmed \in [Accounts -> Nat]
  /\ confirmedLatest \in [Accounts -> Nat]
  /\ confirmed \in [Accounts -> Nat]
  /\ txs \in [Tiers -> SUBSET (Accounts \X (0..MaxNonce))]
  /\ overlap \in SUBSET Accounts

\* Every token a worker took is counted exactly once, as accepted or as a failed
\* send, unless its send is still in flight: the counters behind accepted_rate and
\* confirmed_rate stay consistent whatever the interleaving of dispatcher, workers
\* and surviving workers of earlier tiers.
SentAccounting ==
  \A g \in Tiers :
    sent[g] = accepted[g] + (failed[g] - backpressureDrop[g])
                + Cardinality({a \in Accounts : InFlight(g, a)})

\* The transactions the node holds for an account have no nonce gap, so none of
\* them is stuck behind a nonce nobody will send: losing replies, nonce errors and
\* refreshes never make a worker skip a nonce.  The one exception is an account
\* whose nonces were re-read while a worker of an earlier tier was still alive.
NoNonceGap ==
  \A a \in Accounts \ overlap :
    \A n \in Held(a) : \A m \in 0..n : m \in Held(a)

Measuring == phase \notin (Syncing \union {"start", "aborted"})

\* Nothing of this account was pending when the tier's baseline was read.
CleanStart(a) == a \notin overlap /\ startNonce[a] = startConfirmed[a]

\* What refreshConfirmedCount counts for the tier was sent by the tier: on an
\* account with a clean start, every nonce confirmed above the baseline is one
\* the tier's own generator delivered.
ConfirmedIsOwn ==
  Measuring =>
    \A a \in Accounts : CleanStart(a) =>
      \A n \in startConfirmed[a]..(confirmed[a] - 1) : <<a, n>> \in txs[tier]

OwnConfirmed == {t \in txs[tier] : t[2] < confirmed[t[1]]}

\* docs/runbook.md:383: perf "fails tiers that leave backlog".  As many of a passing
\* tier's own transactions are in blocks as it reports accepted, at least when no
\* worker outlived its tier.
BacklogFailsTier ==
  phase = "verdict" /\ status = "PASS" /\ overlap = {}
    => Cardinality(OwnConfirmed) >= snap.accepted

\* The same for the tiers that found nothing pending on their accounts: there the
\* drain loop's arithmetic on counters and nonces does tell a backlog.
CleanPassMeansConfirmed ==
  (\A a \in Accounts : startNonce[a] = startConfirmed[a]) => BacklogFailsTier

-----------------------------------------------------------------------------
(* Action and liveness properties.                                         *)

\* Once Stop has returned, its generator dispatches nothing more: the counters of
\* the tier are not moved by its dispatcher while the drain loop reads them.
NoDispatchAfterStop ==
  [][\A g \in Tiers :
       (g < tier \/ phase \notin (Syncing \union {"start", "run", "stopping"}))
          /\ stopped[g] => dispatched'[g] = dispatched[g]]_vars

\* Goroutines are scheduled, tickers tick, RPCs return and the run's deadlines
\* pass; no RPC needs to fail and no block needs to be mined.
MainStep == (Sync /\ ~SyncError) \/ (RunTier /\ ~Sample)

Fairness ==
  /\ WF_vars(MainStep)
  /\ WF_vars(Dispatcher)
  /\ \A g \in Tiers, a \in Accounts : WF_vars(Worker(g, a))

FairSpec == Spec /\ Fairness

\* Stop gets rid of every worker in the end.
WorkersExit ==
  \A g \in Tiers, a \in Accounts :
    stopped[g] ~> (wpc[g][a] = "exit" \/ phase \in Final)

\* docs/runbook.md:377: a max search runs each step "until the first unstable step
\* or PERF_MAX_TARGET_TPS": the tier loop comes to an end.
SearchEnds == <>(phase \in Final)

\* It does when no worker outlives its tier.
CleanSearchEnds == [](overlap = {}) => SearchEnds

=============================================================================
