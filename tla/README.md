# Verification of chain-tests

`chain-tests` is the integration harness of a Congress-PoSA chain: Go programs and
shell scripts that generate a network, start and stop it, drive it with
transactions and governance proposals, and judge what they see.  This directory
holds TLA+ models of the harness's own control logic, the TLC runs that check
them, and TLAPS proofs of the properties that matter most.  The chain itself is
the environment of every model: it appears as what its RPCs can answer.

The files, in groups:

| Modules | What they are | Instances and proofs |
|---|---|---|
| `LoadGen` | the load generator and the loop over TPS tiers | `LoadGen_proofs` |
| `TestContext` | the funder's nonces and the test accounts of `CIContext` | `MCTestContext`, `CI_proofs` |
| `Governance`, `ConfigStore` | `EnsureConfig` and `autoInitialize` over the governance contracts; the abstract store of parameters they implement | `MCGovernance`, `Governance_proofs` |
| `Funding`, `PerfRun` | a run of the performance suite from its flags to its exit code, with the senders' money | `MCPerfRun`, `PerfRun_proofs` |
| `SignerRotation` | new signers, stops, restarts and reconnections of validator nodes | `MCSignerRotation`, `SignerRotation_proofs` |
| `Waits`, `CanonicalSync` | the poll loops of the tests | `MCWaits`, `Waits_proofs` |
| `Runner`, `MakeTargets` | the CI runner, the recipe of a test group, and what each make target does to the network they share | `MCRunner`, `CI_proofs` |
| `Forks`, `Reports`, `Network`, `Delegation`, `Bootstrap`, `Netem`, `HeadEvidence` | fork schedules and capability checks; CI reports; the scripts behind the make targets; and four helpers of the tests | `MCSuite`, `Suite_proofs`, `Reports_proofs` |
| `Lists` | the operators on lists that three of these share: a proof carries a copy of every operator for each instance, so the parts of `MCSuite` do without the larger libraries | |

`PROJECT.json` maps every definition to the lines it models, lists the runs with
their properties, a mutant of the code for each property, the hazards and the
theorems.  Run a configuration with `tlc -config Runner_main.cfg MCRunner.tla`
and the proofs with `tlapm CI_proofs.tla`.  `CI_proofs` holds the proofs of two
components, `Runner` first, then `TestContext`, which have nothing to do with each
other; the names of `TestContext` (`ContextInit`, `place`) differ from `Runner`'s so
that one module can extend both.

## Inventory

| Part | Source | State | Operations | Module |
|---|---|---|---|---|
| Load generator and tier loop | `scripts/perf/loadgen.go`, `perf_runner.go` | sender accounts (token channel, nonces, baselines), per-tier counters, stop and done channels | synchronise, start, dispatch, send, stop, snapshot, drain | `LoadGen` |
| Sender funding | `loadgen.go` | funder's nonce, pool and chain over several runs | prepare, fund, wait | `Funding` |
| Performance run | `perf_runner.go` | steps of the search, samples, lag and stall counters, verdict, artifacts | flags, tier, search, verdict, artifacts, exit code | `PerfRun` |
| Test context | `internal/context/context.go` | nonce cache, account index, clients, last proposal block | dial, seed, make transactors, refresh nonces, fund accounts | `TestContext`, `Bootstrap` |
| Governance calls | `context.go` | proposals, votes, cooldowns, pending transactions | initialise contracts, `EnsureConfig`, `autoInitialize` | `Governance` |
| Waits | `internal/testkit/chain_window.go`, `context.go`, `perf_runner.go` | deadlines, heights, streaks | progress, height, stall, jail, epoch, transition, warm-up, canonical sync | `Waits`, `CanonicalSync` |
| Signer rotation | `internal/testkit/checkpoint_rotation.go` | key files, keystore, environment file, pm2's arguments, peers | schedule, restart with a signer, stop, restart, reconnect | `SignerRotation` |
| Robust staking | `internal/testkit/staking_retry.go` | nonce, pool, receipts | delegate with retries | `Delegation` |
| Consensus evidence | `internal/testkit/consensus_liveness.go`, `tests/punish/liveness_repro_test.go` | heads, windows, log lines | observe, confirm, stop, classify | `HeadEvidence` |
| Network faults | `internal/testkit/native_loopback_netem.go`, `scripts/repro/loopback_netem.sh` | root queue, filters, state file | apply, clear | `Netem` |
| CI runner | `ci.go`, `Makefile` | run lock, shared network, group results, failure flag | set up, initialise, run, stop, test, tear down, report | `Runner` |
| CI reports and budgets | `ci.go` | cases, budgets, summary, manifest | read logs, attribute failures, check budgets, summarise | `Reports` |
| Network scripts | `Makefile`, `scripts/network/*.sh`, `scripts/native/pm2_init.sh` | session file, environment file, pm2 processes, node data | clean, init, run, stop | `Network`, `MakeTargets` |
| Fork schedules and capabilities | `internal/testkit/fork_*.go`, `internal/testkit/forkcap/*.go`, `scripts/forkcap/run_suite.sh`, `scripts/fork/set_fork_schedule.py` | schedule, capability table | validate, generate, probe, compare | `Forks` |
| Fork, smoke and coverage matrices, scenario scripts | `scripts/{fork,smoke,coverage,ci,scenarios}/*` | result tables | one CI run per case | none |
| Network generator, configuration | `scripts/gen_network_config.sh`, `cmd/genkeys`, `internal/config` | files | generate, parse | none |
| Contract bindings | `contracts/*.go` | none | generated by abigen | none |
| Tests | `tests/**` | none of their own | scenarios over the parts above | none |

What interacts with what, and what is hard about it:

- **Load generator and tier loop.**  One process, many goroutines: the main
  goroutine, a dispatcher per tier, a worker per account and tier.  They share
  counters (atomic), token channels (bounded) and the fields of `senderAccount`
  (plain memory, without a lock).  `Stop` waits for the dispatcher and not for the
  workers; a `select` may pick the queue after the stop channel was closed; the
  node may take a transaction whose sender sees an error; the verdict compares
  counters with nonces read at other moments.
- **Performance run.**  One goroutine that reads the heights of several nodes one
  after the other while they move, and whose files outlive it.  A failed query
  drops a sample; a later run meets the accounts, the pending transactions and the
  artifacts of the earlier one.
- **CI runner and scripts.**  A top-level run starts `make`, which starts a nested
  run per phase.  They share the flock, the data directory, the session file and
  the pm2 processes.  A run that dies leaves children behind while its lock is
  released; commands fail half way or report success and did nothing; groups that
  may share a network alternate with groups that must not; sessions, data and
  processes can each exist without the others.
- **Test context.**  One goroutine against several nodes, and one process after
  the other against one chain.  The nonce cache is filled from answers of nodes
  that may lag or be silent, a nonce is used up before its transaction is sent, a
  payment can be mined after the wait for it gave up, and the account index has to
  survive the end of the process although nothing is stored.
- **Governance.**  Proposals and votes of several validators with cooldowns; what
  `WaitMined` has given up on stays in the pool and may change a parameter long
  after the call returned; a process that dies leaves contracts half initialised.
- **Waits and signer rotation.**  Polling loops over several nodes with deadlines,
  stall detection and streaks; the rotation of a signer changes key files, an
  environment file and a pm2 process in steps any of which can fail, and the next
  call has to go on from there.
- **Reports.**  Logs that may break off, cases that several places report, and an
  exit code that has to agree with all of them.
- **Fork checks.**  They judge a node by its answers: a check that passes on a node
  without the fork, or with it too early, has shown nothing.

## Plan

Done, in this order: `LoadGen`, `Runner`, `TestContext`, `Governance` with
`ConfigStore`, `Waits` and `CanonicalSync`, `Funding` and `PerfRun`,
`SignerRotation`, `Reports`, `Forks`, `Delegation`, `Bootstrap`, `Netem`,
`HeadEvidence`, and `Network` with `MakeTargets`.  Three pairs of an abstract and
a detailed specification connect them: `Governance` implements `ConfigStore`,
`Network` implements the outcomes on which `Runner` stands, and the tier outcomes
and warm-up verdicts of `PerfRun` stand for `LoadGen` and `Waits`.

Proved, in this order: `LoadGen`, `Runner`, `TestContext`, `CanonicalSync` and
`ConfigStore`, then `Governance` with its refinement of `ConfigStore`,
`SignerRotation`, `PerfRun` with `Funding`, `Waits`, the parts of `HelpersTrue`:
`Delegation`, `Bootstrap`, `Netem`, `Network` with its outcomes, and `HeadEvidence`,
then `Forks`, and `Reports`.  With it every invariant that a run checks is proved.

## LoadGen

*State and actions.*  The variables are grouped by owner: the main goroutine
(`phase` is its program counter through `syncSenderAccountNonces`, `Start`, the
measuring loop, `Stop`, `Snapshot`, `DrainConfirmations` and the verdict), the
dispatcher of the current tier, the atomic counters of each generator, one worker
per generator and account (`wpc`), the shared account fields, and the node.  An
action is the code between two points at which another goroutine can see or
change something: one RPC, one atomic add, one channel operation, the load or the
store of the unsynchronised `nextNonce++`.  `SyncError` is the error path that
ends the process.

*The node* holds transactions (`txs`, by the generator that sent them) and mines
them in order.  It may take a transaction and lose the reply, refuse with a nonce
error when the nonce is used, or refuse with any other error.  A transaction it
already holds at a nonce is replaced only by one of another generator, whose gas
price can differ.  The node does not lose transactions: it is a local node that
lives as long as the tier.

*Left out.*  Lag, latency and stall measurements, which can only fail a tier (here
`Judge` may do that at will, `PerfRun` has the detail).  Windows of the dispatcher
are bursts of any size up to `MaxBurst`.

*History variable.*  `overlap` collects the accounts that were re-synchronised
while a worker of an earlier tier was alive: the case the code does not exclude.

| Run | Instance | Distinct states | Shows |
|---|---|---|---|
| `loadgen_safety` | 1 account, 2 tiers, queue of 1, 2 tokens per tier, 2 snapshots | 4,309,655 | counters, nonces and verdict survive every interleaving, surviving workers included |
| `loadgen_live` | 1 account, 2 tiers, 1 token per tier | 38,152 | stopped workers exit; without overlap the search ends |
| `loadgen_backlog` | as `loadgen_safety`, one snapshot | violation | a tier passes although its own transactions are not in blocks |
| `loadgen_hang` | 2 tiers, 2 tokens | violation | the drain of a token channel blocks for ever |

*Bounds.*  A queue of one is full after one token, so that the drop path, the
empty channel and the channel with a stale token all occur.  Two tiers are what it
takes for a worker to outlive its tier; a third adds no new kind of overlap, since
`Stop` closes every earlier channel before.  Two tokens per tier make one tier's
transaction pending while another is confirmed.

*Fairness.*  Weak fairness of the main goroutine, the dispatcher and each worker:
the Go scheduler runs every runnable goroutine, tickers tick and RPC calls return
with an answer or an error.  Nothing is assumed about mining, and `SyncError` and
`Sample` are not forced.

*Findings.*  `loadgen_backlog`: confirmations are counted from the nonce of the
latest block at the start of the tier (`loadgen.go:370`), so transactions that an
earlier tier left pending count for this one; `docs/runbook.md:383` says that a
tier that leaves a backlog fails.  `CleanPassMeansConfirmed` is what does hold: on
accounts with nothing pending at the start, a pass means confirmed.
`loadgen_hang`: `len(queue) > 0` and the receive are two steps
(`loadgen.go:220-221`), and a worker that survived takes the token in between.

*Proved* (`LoadGen_proofs`), for any number of accounts and tiers, any queue
length and all bounds:

- `TypeCorrect`: types and bounds, the capacity of the channels included.
- `StopIsFinal`: after `Stop` returned, its generator dispatches nothing.  The
  invariant is that a closed `doneCh` means there is no dispatcher, and that the
  main goroutine gets past `Stop` only then (`DispatcherGone`); counters of tiers
  not yet started are 0 (`Unstarted`).
- `TokensAccounted`: `SentAccounting`, by counting the workers in flight; each
  worker step moves one worker into or out of the set, or none.
- `NoncesContiguous`: `NoNonceGap`.  The property alone is not inductive: what a
  worker holds in a local variable, or the main goroutine in `readPending`, must
  not be above the first nonce the node does not hold, and an account outside
  `overlap` has one live worker at most (`Solo`), which is why its load and store
  are not interleaved with another writer (`NonceInv`).

- `ConfirmedAreOwn`: `ConfirmedIsOwn`.  On an account that was read clean, whatever
  the node holds at or above the tier's baseline came from the tier's generator
  (`Owned`), because no worker of an earlier tier is left there to send; and a
  block takes only nonces the node holds (`BlocksHeld`).
- `CleanPassIsConfirmed`: `CleanPassMeansConfirmed`.  The sum that
  `refreshConfirmedCount` builds account by account never exceeds the number of
  nonces confirmed above the baselines (`CountInv`, over the cardinality of
  `Counted`), although blocks arrive between two reads; `ConfirmedAreOwn` makes
  these the tier's own.

## Runner

*State and actions.*  Per run: where `main` is (`pc`), its flags (`job`), the
position of the loop over groups or tests (`at`), the phase of the group's recipe,
the command that it or its child is executing (`step`), `sharedReady`, `hadFailure`
and the exit code.  Shared: the lock's holder and the network.  `ItemStep` is the
end of a command of `runSingleTest` or `runPatternTest`, with what the code does on
success and on failure; `Setup`, `Teardown` and `Closing` are `setupShared` and
`teardownShared`; `Report` is the end of `main`.

*The network* is what the make targets leave: data and session (`data`), the
processes (`down`, `up`, or `stray` when they run on deleted data), and the tests
that ran on this chain.  Each target has a set of outcomes (`MakeTargets`), the
failures that the scripts hide included: `make stop` reports success with
processes left, `make clean` with data that `rm -rf ... || true` could not remove,
`make init` succeeds on an old session when the generator fails, or on an old chain
(`pm2_init.sh` initialises only a node that has none), `make run` fails with
processes up.  `Network` has the scripts command by command
and is checked to stay within these outcomes, so nothing about them is assumed
here that is not checked there.

*Deaths.*  `Crash`: the top-level process dies alone; the kernel releases the
flock, `make` and its nested runs go on to the end of the group (`ItemStep` without
`alive`), and any other command in progress finishes (`OrphanCommand`).  `Interrupt`: all of
its processes die in the middle of a command.

*Left out.*  What a run makes of its logs is module `Reports`; here it can fail a
run, one nondeterministic outcome of `EndPhase` and `Report`.  What a user starts
by hand outside `ci.go` takes no lock and is not part of any run.

| Run | Instance | Distinct states | Shows |
|---|---|---|---|
| `runner_main` | 2 runs with 7 kinds of jobs, 3 groups (2 that may share; one has two phases), 1 death | 1,556,403 | tests keep their network, the exit code is the verdict, networks are stopped, every run ends |

*Bounds.*  Two runs are what mutual exclusion and a leftover child need.  The
lists hold a shared group before, after and around one that may not share, which
are all the transitions of `sharedReady`.  One death is enough for a nested run to
meet a new run; a second one would only add a second leftover.  `RunEnds` says that
again and again no run and no leftover is going on, which TLC checks as one formula
for all runs; as there are only so many runs, it is the same as that each one ends.

*Fairness.*  Weak fairness of each run's steps: `go test` has a timeout and the
waits of the scripts have deadlines.

*What the properties exempt, and why.*  `OwnNetwork` and `NetworkStopped` say
nothing once a run started while commands of a dead run were going on, or once
`make init` ended well on a chain with tests on it that neither it nor `make clean`
could remove (`tainted`): the code prevents neither and notices neither.  `-skip-setup` asks for whatever network is there.
`NetworkStopped` relies on `make stop` having done what it reported.

*Proved* (first half of `CI_proofs`), for any number of runs, groups, phases and deaths:

- `TypeCorrect`: `TypeOK`, together with `Placed`: a run executes a command exactly
  where `main` waits for one, and there only one of the commands that `main`
  executes.  Without it the effect of `NextCommand` is not typed.
- `RunsExclusive`: `OneRun`.
- `TestUndisturbed`: `NetworkStable`; from `OneRun` and the fact that only a live
  run or the leftover of a dead one changes the network.
- `TestIsIsolated`: `OwnNetwork`.  It is not inductive: a test finds the right
  network because of what every command before it left.  `Shape` says, for each
  place of `main`, what the run knows of the network there: a private one has no
  test on it from `make clean` to `make run` and then the run's own, a shared one is
  up and has tests of the run's shared groups only (`sharedReady` is TRUE for
  eligible groups only).  `Isolated` has it for the one run that is busy, live or
  with commands that outlive it, and that there is one such run at most unless
  `tainted`; `Fresh` and `Brings`, that only a started run has tests on the chain.
- `EndsStopped`: `NetworkStopped`.  Between items without a shared network, and
  after the loop, the last command was a `make stop` (`Stopped`); no run has an exit
  code before its report (`Unjudged`).
- `ExitIsVerdict`: `VerdictExact`.  Its strengthening `Tally` says for every run
  under way that `hadFailure` is what broke, that every phase before the position
  has passed, and that the loop is left early only with a failure.

## TestContext

*State and actions.*  The chain (the funder's mined transactions), a pool per node,
and the context: `place`, the cached nonce, `accountIndex`, and the account, attempt
and transaction of the current `CreateAndFundAccount`.  A context starts (`Boot`,
`Seed`: the dummy transaction and the seed of the index, first and last step of
`NewCIContext`), serves calls and ends (`Exit`); the next one starts on the same
chain with nothing but the chain.  `Take` is `GetTransactorEx` with its refresh,
`Accepted`, `Refused` and `SendFails` are the answers to `SendTransaction`,
`Confirm` and `Timeout` those of `WaitMined`, and `Poke` a dummy transaction that
any of the waits sends.  Tests run with `-p 1 -parallel=1`: one goroutine drives
the context, and the nodes move between its steps.

*The nodes.*  Transactions go to `Primary` (`Clients[0]`), spread between pools, get
mined from any of them, and can get lost (a restart, an eviction).  `RefreshNonce`
takes the largest answer, and 0 when no node answers.  A transaction of a nonce
that the pool holds is taken in its place or refused as underpriced, because the
price suggestion moves.  An error that is none of the retried ones may hide that
the node took the transaction.

*Left out.*  All nodes see one chain: a lagging head is a node that does not answer.
The nonces of other keys and balances, and reverted receipts: a transfer of 21000 gas
to an account without code has none.  A wait may give up on a payment that has just
been mined.  A dummy reads its nonce and is sent in one step, because nobody else
sends to the primary and the nodes' steps in between can be put before or after it.
Dialling is `Bootstrap`, `autoInitialize` and
`EnsureConfig` are `Governance`.

*History variables* record what the properties speak about: which accounts were
given out by which context, how often an account was asked for, waits that timed
out (`late`), calls that failed before anything was sent (`unsent`), choices made
without the primary's answer (`blind`), and losses.

| Run | Instance | Distinct states | Shows |
|---|---|---|---|
| `context_main` | 2 contexts, 2 nodes, 2 calls of 2 attempts, 1 dummy, 2 troubles | 239,294 | payments are executable and made once, accounts unique on good days, every call returns |
| `context_unique` | 2 contexts, 4 calls, 4 troubles | violation | accounts are not unique on bad ones |

*Bounds.*  `MaxTroubles` counts unanswered questions, failed calls and lost
transactions: two allow a call that fails, one that gets lost, or a refresh that
nobody answers.  Two attempts instead of five keep the retry and its end; two
calls allow a failure before a success within a context and across two.

*Fairness.*  Weak fairness of the caller: `WaitMined` and the epoch wait have
deadlines and the attempts are counted.  `waitBlocks` has no deadline; it is not
part of `CreateAndFundAccount`.

*Finding.*  `context_unique`: the comment at `context.go:416` wants accounts to be
unique across runs that share a chain.  The index is used up by a call that fails
before it sends, and the next context seeds its index from the funder's nonce,
which that call did not move; a seed that no node answered starts at 0.
`UniqueWhenSeeded` is what does hold.

*Proved* (second half of `CI_proofs`), for any set of nodes and all bounds:

- `ContextTypeCorrect`: `ContextTypeOK`, with the order of nonces on the chain and in the pools
  (`InOrder`) and the counters of a call (`CallOK`).
- `NeverParked`: `NoGap`.  Inductive with `Gapless`: while nothing is lost the
  primary knows every nonce another node knows, its nonces have no gap, and neither
  has the one about to be sent.
- `UniqueOnGoodDays`: `UniqueWhenSeeded`.  Inductive with `Behind`: the index never
  runs ahead of the funder's nonce by more than the account being made, and the
  accounts given are behind both, so that the next seed starts above them.
- `PaymentsAccounted`: `PaidOnce`.  The mined payments alone are not inductive: a
  pool may hold another one.  `Ledger` counts the claims of an account, the places
  on the chain that its payments have or may still get from any node's pool, and
  keeps one call or timed-out wait for a payment about to be sent.

`PendingNonce` is a CHOOSE; that the number it chooses exists is shown from the
well-foundedness of the naturals (`LeastNatural`), which needs no induction.

## Governance and ConfigStore

*State and actions.*  The chain has the parameters, the proposals with their votes,
which contracts are initialised, who is active, the blocks since each validator's last
proposal (`age`) and its pending transactions in nonce order.  The process goes through `autoInitialize`
(initialise three contracts, set every parameter, reconcile, verify) and then
serves calls of `EnsureConfig`: enter, pick a proposer (`turn` is
`proposerIndex`), create a proposal, take its number from the receipt, have every
validator vote with retries, check, wait a block, try again.  `Mine` executes the
first transaction of a validator; `Refuse` and `Jail` are what makes calls fail;
`Halt` stops the chain; `Die` kills the process, and the next one starts on what
it left.  A transaction that `WaitMined` gives up on stays in the pool and is no
longer the caller's `own`; nor is one that the node has taken although sending it
reported an error (`SendFails`).

*ConfigStore* is the promise without proposals and votes: a write that succeeds has
been seen in its place, a write that was given up on is *owed* and may be carried
out at any later time over whatever is there.  `StoreSpec` is the refinement, checked
by the run and proved by `ImplementsStore`:
`owed` is what the votes still in the pools ask for, `request` is the call's.  What
it says of the code: besides the current call only a vote that an earlier one
abandoned changes a parameter, and a success is never reported for another value.
`KnownStays` proves of the abstract store itself what a caller may rely on; with the
refinement this is `EnsuredStays` of the calls (defined in `Governance`, not run on
its own, and proved directly by `EnsuredValuesStay`).

*Assumptions.*  The contracts are not in the repository: that a majority of votes
passes a proposal, that a proposal cooldown refuses a second one, and that
`Initialized` can be asked are taken from how the Go code uses them.
The first parameter that `autoInitialize` sets is `ProposalCooldown` itself
(`context.go:625`): `Cooldown` is what its present value asks for, counted from a
validator's last proposal as in `tests/config/helpers_test.go:169-191`, and the calls
wait for the value that is in force when they look (`context.go:1308-1314`).  Without
`Staking` the validators' other calls are taken to work as they do with it.

| Run | Instance | Distinct states | Shows |
|---|---|---|---|
| `governance_main` | 3 validators, 2 parameters of 2 values, 2 rounds, 2 tries, 2 processes; cooldown from 1 to 2 with 1 call and 2 faults; from 1 to 5, always 10, from 10 to 1 with 3 or 4 calls and none | 928,651 | refinement, no failure without a fault, every call returns except in `waitBlocks` |

*Bounds.*  Three validators need two votes: one may be missing.  A call takes three
blocks or more and goes to the next proposer, so short cooldowns are never felt
without faults.  One of 5 refuses a proposal after a restart has reset the turn, and
the rotation finds another validator; under one of 10 all three are cooling down, and
the call waits for its second round; lowering it from 10 to 1 has both.  Two rounds
leave an abandoned proposal behind, two faults let it be mined after the next one's
success.

*Fairness.*  Weak fairness of the process, of the clock of blocks, and of each
validator's transactions being mined, all of which `Halt` may end.  `Ends` therefore
exempts one place: `waitBlocks` has no deadline (`context.go:1393`), and on a chain
that stopped it polls for ever below loops that count their retries.

*Proved* (`Governance_proofs`), for any number of validators, contracts of the code,
parameters and values, rounds, retries, cooldowns, processes and faults:

- `Correct`: the inductive invariant `Inv`.  To types it adds where the process can be
  (`Position`, `Loops`), which proposal it is voting on (`Votes`), what each pending
  transaction is about (`PoolOK`), and that the process waits for at most one
  transaction, the one it has just sent (`OneOwn`): without that, a late answer could
  be taken for the answer of another call.  `TypeCorrect` is `TypeOK`.
- `EnsuredValuesStay`: `EnsuredStays`.  A parameter that is being written counts as
  unknown until the write has been seen (`Asking`).
- `ReadyOnlyInitialised`: `ReadyMeansInitialised`.  It speaks of `Proposal` and
  `Validators` whatever has failed, and of `Staking` only when nothing has: the code
  drops the error of `Staking`'s initialisation (`context.go:597-603`), goes on and
  never looks again, so after a failure there a context is ready without it.  A value
  that differs from its
  default has been proposed, and proposing takes an initialised `Proposal` and
  `Validators` (`Touched`);
  so the pass that verifies the targets has verified initialisation too
  (`CheckedTouched`).  Without a fault the three calls come one after the other
  (`BootInv`).  The hypothesis is that some target differs from its default:
  without one, `autoInitialize` has nothing to change and looks at no proposal.
- `SuccessVerified`: `Verified`, an action property.
- `ImplementsStore`: `StoreSpec`.  Each step of the process, of the chain and of the
  faults is a step of `ConfigStore` or none, with `owed` mapped to what the votes in
  the pools still ask for.  The cases that needed thought are a block that executes
  an abandoned vote (the write it owes is carried out), a vote of the call itself
  (its write happens), and giving up (the write becomes owed), each of them together
  with what else the same step does to the pools.
- `CleanCallsSucceed`: `CleanRunsSucceed`.  `Clean` follows a run without a fault
  through its passes and rounds: contracts are initialised one after the other, the
  second round starts when the cooldown of every validator is over, every vote is accepted until
  the majority is there.  The hypothesis is that there may be a second round: with one
  round a validator that is still cooling down makes a call fail.

## Funding and PerfRun

*Funding* has the sender accounts, the funder's pool and chain, and
`prepareSenderAccounts`/`fundAccounts`: one base nonce, one transaction per account
that needs money, `baseNonce + i` with `i` counting skipped accounts too, a deadline
for the receipts.  The keys are fixed, so a later run meets what the earlier one
left: paid accounts, and transactions parked behind a nonce that nobody uses.  To a
payment that is parked already the node says that it is known, or, as the price
suggestion moves, that the new one is underpriced (the preparation fails), or it lets
the new one take its place.

*PerfRun* puts the rest of a run around it: the flags and the errors they can make,
the numbers of a list or the steps of a search, warm-up, funding, each tier with its
samples (`queryHeights` asks node by node while `Grow` and `DropBlock` move them),
the verdict with its reasons, and the artifacts in the order in which they are
written; then another run on the same directory.  What the generator counts is one
of the setup's `drains` (`LoadGen` says which are possible).

| Run | Instance | Distinct states | Shows |
|---|---|---|---|
| `perf_main` | five families of setups, see `MCPerfRun`: readings, searches, lists, refused flags, repeated runs | 253,716 | exit code and artifacts, the search, what a tier says of the chain, funded senders, every run exits |

*Bounds.*  *Readings* has one tier of two to four samples on one or two nodes, with
a failing call or a lost block, and one of twenty samples, which is the least number
at which the 95th percentile lets one slow sample pass and a second fail.
*Searches* has all of base 0 to 3, step 0 to 3 and target 1 to 7: every way in which
the last step can be cut.  *Lists* has repeated numbers and one that is not
positive.  *Again* has three runs with more, fewer and as many senders.  Heights are
far below `Word`, which stands for 2^64: what matters is that a lost block makes the
unsigned growth of a tier wrap around.

*Fairness.*  Weak fairness of `main`, of the tier and of mining (the deadlines of
funding can pass only while the funder's transactions are blocked or after a fault);
of the chain in the steady setup, where a sample is taken once per block.

*Proved* (`PerfRun_proofs`), for any flags, numbers of nodes, tiers, samples and runs,
thresholds, and outcomes of the load generator:

- `TypeCorrect`: `TypeOK`.  Its strengthening `Typed` says where `main` can be and what
  its variables hold there (`Control`, `Progress`), and that readings are heights of
  the nodes that are asked (`Readings`, `Measures`).
- `ArtifactsCorrect`: `ArtifactsExact`.  `Files` has, for every place of `main`, which
  files are of this run; `Verdict`, that a verdict of this run is about what the run
  still holds; `Complete`, that a run without a failed tier has been through all of
  them, which in a search rests on `SearchCorrect`; `Left`, what an exit code means.
  What the reasons say is proved of `collectFailedReasons` tier by tier (`Explained`),
  what the slow windows show from the order of the samples: each has a place of its
  own, so the places are 1 to the number of samples.
- `SearchCorrect`: `SearchExact`.  `buildMaxTPSSteps` rises to the target in steps of
  at most the size (`StepsClimb`); every tier before the current one has passed
  (`Climbed`).
- `TiersTold`: `TierTrue`.  The nodes are asked one after the other, so the invariant
  `Told` relates each answer that is there to where its node was when the query began
  and is now, until a node loses blocks (the property says nothing from then on); the
  counted stall is compared with the real one sample by sample (`Stalls`).
- `Funds`: `SendersFunded`, over all runs on one network.  Every account before the
  current one has its money or a transaction that brings it (`Paid`), and on the first
  run nobody else has used a nonce (`FirstRun`).

The definitions that the code computes step by step (`Sift`, `LagNodes`, `Reasons`) are
recursive functions on an interval; that they exist, and what they return, is proved by
counting up (`StepByStep`).

## Waits and CanonicalSync

*Waits* has seven loops that read heights and contract state call after call while
the nodes move.  `Call` is one RPC, `Round` the judgement after the last of them: it
ends the wait, or sleeps one unit of time.  The history variables keep what really
happened (`produced`, `best`, `grown`, `base`), and `Truthful` compares it with what
the wait reports.  *CanonicalSync* is the wait for a restarted validator to follow
the others, over chains that fork and are given up for longer ones.

| Run | Instance | Distinct states | Shows |
|---|---|---|---|
| `waits_main` | one wait at a time on one or two nodes: failing, lagging, steady, not moving; or a canonical sync with two references | 829,616 | what a wait reports is true, and it returns |

*Bounds.*  Timeouts are two to four polls, enough for a stall (two or three) to end
a wait before the timeout and after it.  Epochs 0 to 5 on the steady chain show with
which epochs the epoch wait can pass at all: with 1 or 2 no height satisfies it.
Two branches and heights up to 2 let a match be lost and found again.

*Fairness.*  Weak fairness of the waiting goroutine: calls return, with an answer or
an error.  Nothing of the chain is fair.  `AllReturn` leaves out the steady setup,
whose chain would have to grow beyond the bound of its height.

*Assumptions.*  In `WaitsAssumption`, a node that makes its blocks steadily
(`steady`) loses none and stalls for at most half the timeout: all callers wait 45
seconds and call 15 seconds a stall (`context.go:50-51`).

*Proved* (`Waits_proofs`), for any number of nodes, heights, epochs and timeouts that
satisfy the assumptions:

- `WaitsTruthful`: `Truthful`.  Its inductive invariant `WaitInv` has a part for each
  wait.  In the wait for progress every increment that was counted is paid for by a
  block that was made since (`ProgressInv`), and the highest head at the start of a
  round is one that the last round saw or this one will see (`OrStallInv`).  An
  epoch block that is reached after the first reading is installed
  (`TransitionInv`), and the wait around an epoch block lasts at most a block each
  for the one before and the epoch block itself (`EpochInv`).  A stall is real as
  long as no block was lost; an epoch of 0 returns before anything is read.
- `WarmUpTold`: `WarmUpReal`.
- `SyncNeverBehind`: `NeverBehind` of `CanonicalSync`, for any number of references,
  branches and length of the match.  A success has not seen the validator behind a
  reference and on the head of none since its first match; the strengthening is that
  a streak that is under way has not seen it either.

## SignerRotation

*State and actions.*  On disk: key file, address file, keystore and environment per
node; at pm2: the arguments it keeps and the state of the process; connections and
the peers a node was told to keep; the chain with the rotations that are sent, pending
and in force.  A call is a sequence of `Step`s, one per write or command; `Errors`
lets any of them fail, `TimesOut` ends a poll loop, `Kill` ends the test between any
two, and `Node` is what nodes and pm2 do meanwhile: boot, crash, start again, connect,
make blocks.  The test has the RPC URL of some nodes (`known`): without one a restart
returns as soon as the process runs, a stop judges the pid alone, and a reconnection
leaves the node out.  The answer to the rotation's transaction may be lost after the
node has taken it.

*What earlier calls may leave.*  A call that failed or was killed can leave the next
one what it cannot repair.  `Able` says what a call has to find: a process that pm2
knows (`stop` and `restart` fail on one that a killed rotation has left deleted), for
`restart` arguments that the keystore unlocks, for a rotation the keystores of the
other reth validators with the account that their environment names (the ecosystem
file reads them all), for a reconnection two nodes to connect.  `Company` says that the
other nodes the call asks are up.  Both are read when the call begins.
`CleanCallSucceeds` says that a call during which nothing failed and no deadline passed
succeeds when it began with both, and that no call succeeds that began without the
first: these are the leftovers that matter.  A deadline that passes is an excuse by
itself.

| Run | Instance | Distinct states | Shows |
|---|---|---|---|
| `rotation_main` | six families of networks, see `MCSignerRotation`; 2 or 3 calls, 1 or 2 faults | 365,077 | a success is real, nodes stay startable, a call that meets nothing wrong succeeds if it found what it needs and fails if it did not, calls return, a rotation takes effect |

*Bounds.*  Two nodes are a validator and one to connect to; two validators, because
the environment of each is read when the other starts; four nodes once, for the three
that remain after a stop.  Two calls are a failure and its retry.

*Fairness.*  Weak fairness of the steps, strong fairness of the deadlines (a poll may
end otherwise again and again, the clock goes on), weak fairness of booting and of
blocks.  `Seals` asks that no other rotation is pending and that nothing fails.

*Assumptions.*  `pm2 stop` returns before the process is gone, `pm2 delete` and `pm2
start` are taken as done when they return; reconnecting is called only after a stop;
a write of one file is not interrupted in the middle.  An RPC call returns, with an
error at the worst: most calls of the poll loops have no deadline of their own
(`context.Background()`, for one at `checkpoint_rotation.go:783`), and the loops look
at theirs only between two calls.  The liveness properties of the other modules assume
the same of such calls.

*Proved* (`SignerRotation_proofs`), for any networks of geth and reth nodes, with any
calls, failures, crashes and kills before and during a call:

- `Correct`: the inductive invariant `Inv`.  `Files` says, for every place in a call,
  which of key file, address file, keystore, environment and arguments have the new
  signer; `Unlocked`, that only the reth node whose keystore is being replaced, or
  was when a call failed, has arguments that do not unlock; `Judged`, where a call
  that lacks something can be; `Unharmed`, what a call that found it all still has
  as long as nothing has gone wrong during it; `Stopped`, `Told`, `Counted` and
  `Rotations`, what a call knows when it reports success.
- `StaysRestartable`: `Restartable`, which exempts a reth node whose keystore a
  failed call has emptied (`broken`).  `CleanCalls`: `CleanCallSucceeds`, both ways.
- `SuccessReal`: `SuccessIsReal`.  That no part of the network is left cut off is stated
  for at most four nodes, for the rest of a larger network may hold together in pairs
  although each node has a peer, which is all the code asks.

## The suite's judges and helpers (MCSuite)

Seven modules that share no state are checked in one run, one at a time: `who` says
which, and the others stand still.  Each has its own conjunct in one of the three
properties.

- **Forks** (`ForkChecksTrue`).  Which schedules validation accepts and the
  generator writes; the registry of capabilities with its gates; every check of the
  suites as a list of calls with the answers it wants.  A node is faithful, lacks
  one surface, or shows it too early; the suite of a fork must fail on the flawed
  ones.  Exempt are the surfaces that no check of their own fork looks at before it
  (`SeenLate`), blob schedules that later forks supersede, and the pre-phase checks
  of the blob-parameter forks, which take any error for the schedule that is not
  there yet.  In `posa` mode all times are 0 and `forkIsActive` is false, so nothing
  is verified there.  Suites run on static networks; only in upgrade networks do
  forks come while a test asks.
- **Reports** (`ReportsTrue`).  The line reader, implicit failures, the summaries of
  nested runs with their padding, budgets, summary, manifest, exit code; logs may
  break off, hide a line that is too long, or lose a file.  Assumed: all tests of an
  item are in one package, test names are unique, nested runs use a `-run` pattern,
  `go test` prints the end lines of subtests after their parent's, and directories
  named by the second (`ci.go:191`) are distinct.  The proof needs of the constants
  (`SetupsAssumption`) that limits and durations are numbers, and that the tests of an
  item, and those that are found, are different tests and no subtests.
- **Network** (`HelpersTrue`).  `make clean`, `init`, `run` and `stop` over pm2,
  command by command, with nodes that die, commands that fail, data that cannot be
  removed or only in part (`RemoveSome`), a make that is killed, and a configuration
  that changes between them.  `used` says that tests ran on the chain that is there.  When a target returns or
  is killed, its result is one of `MakeTargets`: the network of `Runner` is
  implemented by the scripts.  A `run` that succeeds has every node of the session
  on its data.  No other node runs, unless pm2 failed to stop what it was told to or
  `make init` was called on running nodes (`messy`).  Nodes die only while a network
  starts and not after they answered the last time; pm2's own restarts of stray
  processes, two makes at once and ports shared by names are left out; whether reth
  nodes converge is a free outcome.
- **Delegation** (`HelpersTrue`).  One `RobustDelegate` with stale nonces, lost
  replies and reverted receipts: more than one delegation only for each wait that
  was in vain.
- **Bootstrap** (`HelpersTrue`).  Dialling with a backoff that is clamped to the
  rest of the time and one attempt after the deadline.  After two waits for a block
  in vain the clients stay open (`context.go:397`): `BootTrue` promises closed ones
  for failed dialling only.
- **Netem** (`HelpersTrue`).  One filter stands for the two of a port.  A root queue
  that an earlier, killed test left stays, because the script resets `ROOT_CREATED`.
  Every deletion is `tc ... || true`: one that fails leaves its filter, the delay or
  the root queue behind, the state file goes all the same, and the script reports
  success (`Missed`).  `NetemTrue` then promises nothing of that test's clean-up, and
  nothing of foreign packets afterwards (`astray`).
- **HeadEvidence** (`HelpersTrue`).  Three signers have at most three siblings of a
  height, and a node leaves a block only for one of higher rank.  Probes are judged
  one by one, each when it is read.  The code's own looseness is kept: log lines of
  earlier attempts count as evidence, `advanced_immediately` passes even if the
  target made its block before it was stopped, and a failed restart leaves the node
  down.

| Run | Instance | Distinct states | Shows |
|---|---|---|---|
| `suite_main` | the sets of `MCSuite` | 1,109,655 | the three properties above |

*Bounds.*  Forks: all schedules of two times and absence, every suite on every
flawed node.  Reports: three tests, one with a subtest, one or two phases, one or two
faults.  Network: two layouts that share names, four faults.  Bootstrap: two or
three nodes, two flips.  Netem: three tests on overlapping ports.  HeadEvidence: three
probes and four after the stop, where the code reads five.  All of these
modules are checked for safety; they have no run of their own for liveness, because
their loops are counted.

*Proved* (`Suite_proofs`, and `Reports_proofs` for `ReportsTrue`): the three
properties, for any values of the constants that the named assumptions of `MCSuite`
allow.  A step of the suite is a step of one part (`PartsStep`), so each part has a theorem of its own.  Those of `HelpersTrue`
(`HelpersCorrect`):

- `DelegatedAsReported`.  What is in the pool or was mined without being reverted
  (`Counted`) has a nonce of the current try, or of a wait that was in vain; so stake
  beyond the first delegation is bounded by the number of such waits.
- `ContextConnected`.  Clients have been opened in the order of the nodes and on the
  chain of the first one.  Its subtle case is a node that comes up while an attempt
  waits for it, is missed, and has answered for at most one attempt when its time is
  over.  Assumed (`BootAssumption`): every network is one that a fork target starts.
- `DeviceCleared`.  The state file, the filters and the device agree as far as the
  script has come (`SetUp`, `NothingElse`), and what a killed test left is not
  taken for the next one's.  Assumed (`NetemAssumption`): ports are numbers.
- `TargetsKeepTheirWord`.  At every command of a target the network is what the
  target was called on, with some nodes stopped (`Halted`), or with its data gone,
  all of it or a part (`Remade`); so whatever ends it, its result is one that `MakeTargets` allows, and `Runner`
  stands on outcomes that the scripts really have.  Assumed (`LayoutsAssumption`): a
  network's processes have different names.
- `StopsOnlyInSplits`.  Suppose that the survivors never sat on siblings of one
  height at the same moment.  Then a reading that seems to show that they do, one
  node after the other, means that both have left a block for a sibling of higher
  rank (`OneMore`), so after `r` such readings each has had `r + 1` (`Together`), and
  readings soon outnumber the siblings.  Assumed (`HeadsAssumption`): the contract
  knows the validator of every signer, the configuration knows the same or nothing,
  and a height has no more siblings than the window has readings (one and
  `Probes`, at least three in the code) and than `MinSplits` asks for after the stop
  (three unless the environment lowers it to two).  Three validators whose signers
  each make one block of a height satisfy this.  `TailIs` adds that the evidence,
  collected from the end of a log, is the log's last lines.

`ForkChecksCorrect` is `ForkChecksTrue`, for any networks, times and number of calls
that get no answer.  Assumed (`NetworksAssumption`): suites run on geth nodes, and a
network that is asked was written by the generator for one of its targets.  The
constants of the project are the forks, the surfaces and the checks; what is general
is the schedule, the flaw, the moment a test asks, and the order of the checks.

- *Schedules.*  Validation compares a fork only with the next one that has a time;
  that is enough for all pairs (`NextIsEnough`).  What the generator writes is in
  order and without holes (`GeneratedSound`).
- *Checks.*  The invariant speaks of the calls a check still has to make: if all are
  answered, they fail exactly when the whole check would have (`Fails`, `AskDoes`).
  So what has failed is what the checks that are over had to find (`FoundSo`), and
  it is left to look at each check once: what it wants is what its phase shows
  (`MainIs`, `ScheduleChecksAre`), on a faithful node none fails (`FaithfulFine`),
  and a flaw fails one check at least, before the fork (`PreFound`) or after it
  (`PostFound`).  A missing blob schedule that the fork's own one hides is
  seen only before the fork; therefore the invariant keeps for the second phase that nothing
  of the kind was there in the first.
- *Questions in an upgrade network.*  As long as no fork comes between two calls,
  time changes no answer (`SameAnswers`); a test that waits for the last fork is
  never overtaken by one, because no time is left that could come.

`ReportsCorrect` is `ReportsTrue`, for any items, tests and subtests, phases,
durations, limits and numbers of faults.  The inductive invariant (`ReportsInv`) goes
from a line of a log to the exit code:

- *While a test process runs* (`Tested`).  Test and subtest on the stack, what ended,
  and what was printed belong together: what the reader has made of the log so far is
  what ended without what a parent still holds back (`Behind`), down to the test it
  takes for the running one.  If a line was too long it is a part of that (`Fits`).
- *A result of a step* (`StepSound`) is what the reader made of the whole log, with a
  failure added when there is none to be read.
- *A run inside a group* (`RunSound`) has sound results, a summary that counts them,
  and an exit code of 0 only if all of them passed.  The group step adds up, per
  status, what the summaries list, padded to their counts (`NestedLength`); what is
  padded has no duration, so the limits for slow cases see the real ones only
  (`NestedDurations`).
- *At the end* (`Written`) the exit code and those of report, summary and manifest
  that could be written are those of the results; the first that could not be written
  ends `main`.  The first failing step ends a run of single steps, so it is the last
  result (`OfSteps`), and the manifest, which keeps the last status of a name, shows it.
- The sums are taken over the lists of a run, on one side, and over the flattened
  lists of all runs, on the other; `FlattenIs` says that these agree for any weights.
  Cases counted in lists and in sets agree because a test ends once (`CountedOnce`).

## What is proved and what is not

Eight modules hold theorems: `LoadGen_proofs`, `CI_proofs`, `Governance_proofs`,
`PerfRun_proofs`, `SignerRotation_proofs`, `Waits_proofs`, `Suite_proofs` and
`Reports_proofs`.  They prove properties that the runs check, for every value of the
constants that satisfies the module's named assumptions, which TLC evaluates on every
run; two theorems of `Governance_proofs` have a hypothesis of their own, given above.

Every invariant of a passing run is the property of one of these theorems.
Model-checked only: liveness under fairness, for the prover has no rules for ENABLED
(`WorkersExit`, `CleanSearchEnds`, `CallsReturn`, `Ends`, `RunExits`, `Returns`,
`Seals`, `RunEnds` and `AllReturn`).  Where an argument needs induction, the lemmas use the least element of a set of
numbers (`CountUp`), because the library's induction theorems cannot be instantiated.

Each property of a passing run has a mutant of the code (an operator named after
the definition it changes) under which TLC finds it violated.

## Findings

Three runs expect a violation: `loadgen_backlog`, `loadgen_hang` and
`context_unique`, described above with the lines they contradict.

## Not modelled

For good: the generated contract bindings (the contracts are not in this repository;
most of the repository's Go lines), the network generator and the configuration
(files in, files out), the matrices and scenario scripts (fixed sequences of runs
that `Runner` models one by one), and the tests themselves (they fix how the parts
are called).

Of the parts that are modelled: the single-node backend of the scripts
(`native_single.sh`, except where `SignerRotation` needs it), `make reset`, logs and
status; the scripts that aggregate the reports of several runs; the nonces of keys
other than the funder's; the helpers for sync nodes that sign; the undelegate, claim
and exit loops of the test packages; `ChooseCompetingWindowHeight`, which nothing
calls; the bytes of transactions and tokens in the capability probes.  `PROJECT.json`
says the same per component.
