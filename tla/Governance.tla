------------------------------- MODULE Governance -------------------------------
(***************************************************************************)
(* How a test process brings the parameters of the governance contracts to *)
(* the values it needs (internal/context/context.go): autoInitialize, and  *)
(* EnsureConfig, which creates a proposal, has every genesis validator     *)
(* vote for it and looks at the parameter again and again on the way.      *)
(*                                                                         *)
(* One goroutine drives a process.  What moves beside it is the chain: a   *)
(* transaction that WaitMined has given up on, or that a killed process    *)
(* has sent, stays in the pool and takes effect at any later time.  The    *)
(* contracts are not part of the repository; Creates, Votes and the        *)
(* majority say what the Go code relies on.  Values are numbers, and so    *)
(* are the parameters, in the order in which autoInitialize goes through   *)
(* them.  The epoch waits inside GetTransactor are an outcome here         *)
(* (Waits models them), and a refused vote or an epoch block is a fault. *)
(***************************************************************************)
EXTENDS Integers, Sequences, FiniteSets

CONSTANTS
  N,           \* genesis validators
  Params,      \* parameters that autoInitialize sets are 1..Params
  Values,      \* values of a parameter
  Target,      \* per parameter: the value autoInitialize wants
  Default,     \* per parameter: the value before
  Attempts,    \* rounds of EnsureConfig, 5 in the code
  Retries,     \* tries of one vote, 3 in the code
  MaxStarts,   \* bound: processes
  Limits       \* the cooldowns, and the bounds that go with them

(* The first parameter is the cooldown of proposals: cooldown has the      *)
(* blocks that each of its values asks for.  Bounds: calls of EnsureConfig *)
(* by tests; calls that fail, timeouts, kills, jailings, a chain that      *)
(* stops; blocks since a proposal that are told apart.                     *)
Limit == [cooldown : [Values -> Nat \ {0}], calls : Nat, faults : Nat, ages : Nat]

ASSUME GovernanceAssumption ==
  /\ N \in Nat \ {0} /\ Params \in Nat \ {0} /\ Attempts \in Nat \ {0}
  /\ Retries \in Nat \ {0}
  /\ 0 \notin Values          \* stands for no value
  /\ Target \in [1..Params -> Values] /\ Default \in [1..Params -> Values]
  /\ MaxStarts \in Nat

ASSUME LimitsAssumption ==
  Limits \subseteq Limit /\ \A l \in Limits, x \in Values : l.cooldown[x] <= l.ages
Validators == 1..N
Cids == 1..Params
Contracts == 1..3               \* Proposal, Staking, Validators
Requests == [cid : Cids, val : Values]

VARIABLES
  \* the chain
  value,      \* the parameters
  props,      \* proposals so far: what they ask for, who voted, passed
  inited,     \* contracts that were initialised
  active,     \* validators that are active and not jailed
  age,        \* per validator: blocks since its last proposal
  pool,       \* per validator: its pending transactions, in nonce order
  halted,     \* no more blocks
  \* the process
  pc,         \* where it is; "off" without one
  pass,       \* the loop of autoInitialize it is in, "user" afterwards
  k,          \* the contract or parameter of that loop
  unresolved, \* the last loop of autoInitialize found a wrong value
  request,    \* the first two arguments of EnsureConfig
  current,    \* its third argument, read before
  at,         \* its loop variables and the proposal it votes for
  turn,       \* proposerIndex
  wait,       \* blocks that waitBlocks still waits for
  answer,     \* what WaitMined has to report: "none", "ok" or "reverted"
  receipt,    \* the proposal of the log in the receipt, 0 without one
  \* history
  settled,    \* per parameter: the value that was last seen there by a call
              \* that succeeds with it; None after a call that fails, and when
              \* a vote that nobody waits for any more has changed the value
  faults, calls, starts,
  limits      \* the cooldowns and bounds of this behaviour

contracts == <<value, props, inited>>
chainVars == <<contracts, active, age, pool, halted>>
auto == <<pass, k, unresolved>>
call == <<request, current, at>>
mining == <<answer, receipt>>
counters == <<calls, starts, limits>>
vars == <<chainVars, pc, auto, call, turn, wait, mining, settled, faults, counters>>

None == 0                       \* no value; values are positive
NoRequest == [cid |-> 1, val |-> None]
Asked == Requests \cup {NoRequest}
Fresh == [attempt |-> 0, tried |-> 0, voter |-> 1, retry |-> 0, prop |-> 0]

Idle == {"off", "idle", "failed", "panic"}
Booting == {"init", "initMined", "next"}
Ensuring == {"enter", "attempt", "propose", "createMined", "vote", "cast",
             "voteMined", "recheck"}
PCs == Idle \cup Booting \cup Ensuring

Tx == [kind : {"init", "create", "vote"}, id : Nat, asks : Asked, own : BOOLEAN]
Proposal == [asks : Requests, voters : SUBSET Validators, passed : BOOLEAN]

Init ==
  /\ value = Default /\ props = <<>> /\ inited = {} /\ active = Validators
  /\ limits \in Limits
  /\ age = [v \in Validators |-> limits.ages] /\ pool = [v \in Validators |-> <<>>]
  /\ halted = FALSE
  /\ pc = "off" /\ pass = "ensure" /\ k = 1 /\ unresolved = FALSE
  /\ request = NoRequest /\ current = None /\ at = Fresh /\ turn = 0
  /\ wait = 0 /\ answer = "none" /\ receipt = 0
  /\ settled = [c \in Cids |-> None]
  /\ faults = 0 /\ calls = 0 /\ starts = 0

Fault == faults < limits.faults /\ faults' = faults + 1
NoFault == UNCHANGED faults

-----------------------------------------------------------------------------
(* The contracts and the pool.                                             *)

Eligible == IF 3 \in inited THEN active ELSE {}
Majority(voters) == 2 * Cardinality(voters) > Cardinality(Eligible)
Cooldown == limits.cooldown[value[1]]

Accepted(v, t) ==
  \/ t.kind = "init" /\ t.id \notin inited
  \/ t.kind = "create" /\ 1 \in inited /\ v \in Eligible /\ age[v] >= Cooldown
  \/ t.kind = "vote" /\ v \in Eligible /\ v \notin props[t.id].voters /\ ~props[t.id].passed

\* one block later
Older(a) == IF a < limits.ages THEN a + 1 ELSE a
Aged(starting) ==
  /\ age' = [v \in Validators |-> IF v \in starting THEN 0 ELSE Older(age[v])]
  /\ wait' = IF wait > 0 THEN wait - 1 ELSE 0

Reverts(t) ==
  /\ answer' = IF t.own THEN "reverted" ELSE answer
  /\ Aged({}) /\ UNCHANGED <<contracts, receipt, settled>>

Initialises(t) ==
  /\ inited' = inited \cup {t.id}
  /\ Aged({}) /\ UNCHANGED <<value, props, receipt, settled>>

Proposes(v, t) ==
  /\ props' = Append(props, [asks |-> t.asks, voters |-> {}, passed |-> FALSE])
  /\ receipt' = IF t.own THEN Len(props) + 1 ELSE receipt
  /\ Aged({v}) /\ UNCHANGED <<value, inited, settled>>

VotesFor(v, t) ==
  LET p == props[t.id]
      voters == p.voters \cup {v}
  IN /\ props' = [props EXCEPT ![t.id].voters = voters, ![t.id].passed = Majority(voters)]
     /\ value' = IF Majority(voters) THEN [value EXCEPT ![p.asks.cid] = p.asks.val]
                 ELSE value
     /\ settled' = IF t.own \/ settled[p.asks.cid] = value'[p.asks.cid] THEN settled
                   ELSE [settled EXCEPT ![p.asks.cid] = None]
     /\ Aged({}) /\ UNCHANGED <<inited, receipt>>

Succeeds(v, t) ==
  /\ Accepted(v, t)
  /\ \/ t.kind = "init" /\ Initialises(t)
     \/ t.kind = "create" /\ Proposes(v, t)
     \/ t.kind = "vote" /\ VotesFor(v, t)
  /\ answer' = IF t.own THEN "ok" ELSE answer

Process == <<pc, auto, call, turn>>

\* the next transaction of v is taken into a block
Mine(v) ==
  /\ ~halted /\ pool[v] # <<>>
  /\ Succeeds(v, Head(pool[v])) \/ (~Accepted(v, Head(pool[v])) /\ Reverts(Head(pool[v])))
  /\ pool' = [pool EXCEPT ![v] = Tail(@)]
  /\ UNCHANGED <<active, halted, Process, faults, counters>>

\* it reverts all the same: an epoch block, or a proposal that has expired
Refuse(v) ==
  /\ ~halted /\ pool[v] # <<>> /\ Fault
  /\ Reverts(Head(pool[v]))
  /\ pool' = [pool EXCEPT ![v] = Tail(@)]
  /\ UNCHANGED <<active, halted, Process, counters>>

\* a block without any of these transactions
Tick ==
  /\ ~halted /\ (wait > 0 \/ \E v \in Validators : age[v] < limits.ages)
  /\ Aged({})
  /\ UNCHANGED <<contracts, active, pool, halted, Process, mining, settled, faults, counters>>

Jail(v) ==
  /\ v \in active /\ Fault
  /\ active' = active \ {v}
  /\ UNCHANGED <<contracts, age, pool, halted, Process, wait, mining, settled, counters>>

Halt ==
  /\ ~halted /\ Fault
  /\ halted' = TRUE
  /\ UNCHANGED <<contracts, active, age, pool, Process, wait, mining, settled, counters>>

-----------------------------------------------------------------------------
(* What the steps of the process are made of.                              *)

Quiet == UNCHANGED chainVars

\* v has another transaction in the pool
Adds(v, kind, id, asks, own) ==
  /\ pool' = [pool EXCEPT ![v] = Append(@, [kind |-> kind, id |-> id, asks |-> asks, own |-> own])]
  /\ UNCHANGED <<contracts, active, age, halted>>

Sends(v, kind, id, asks) ==
  /\ Adds(v, kind, id, asks, TRUE)
  /\ answer' = "none" /\ receipt' = 0

\* sending fails; the node may have taken the transaction all the same
SendFails(v, kind, id, asks) ==
  /\ Quiet \/ Adds(v, kind, id, asks, FALSE)
  /\ UNCHANGED mining

\* nobody waits any more for what is in the pool
Disowned ==
  /\ pool' = [v \in Validators |->
                [i \in DOMAIN pool[v] |-> [pool[v][i] EXCEPT !.own = FALSE]]]
  /\ UNCHANGED <<contracts, active, age, halted>>

\* WaitMined reports the transaction as mined / as failed, or times out
Mined == answer = "ok" /\ NoFault /\ Quiet
NotMined ==
  \/ answer = "reverted" /\ NoFault /\ Quiet
  \/ answer = "none" /\ ((halted /\ NoFault) \/ Fault) /\ Disowned

Go(there, where, blocks) ==
  /\ pc' = there /\ at' = where /\ wait' = blocks
  /\ UNCHANGED <<auto, request, current, settled>>

Leave ==
  /\ request' = NoRequest /\ current' = None /\ at' = Fresh
  /\ pc' = IF pass = "user" THEN "idle" ELSE "next"
  /\ k' = IF pass = "user" THEN k ELSE k + 1
  /\ UNCHANGED <<pass, unresolved, wait>>

Return(result) ==
  /\ Leave
  /\ settled' = [settled EXCEPT ![request.cid] = IF result = "ok" THEN request.val ELSE None]

Holds == value[request.cid] = request.val

\* GetConfigValue: success when it finds the target, otherwise the next step
Check(there, where) ==
  \/ Holds /\ NoFault /\ Return("ok")
  \/ ((~Holds /\ NoFault) \/ (Holds /\ Fault)) /\ Go(there, where, 0)

\* the same after an error, which may make this call fail as well
CheckAgain(there, where, blocks) ==
  \/ Holds /\ Return("ok")
  \/ Go(there, where, blocks)

-----------------------------------------------------------------------------
(* autoInitialize.                                                         *)

\* NewCIContext gets there; Initialized may fail, which counts as FALSE
Start ==
  /\ pc \in {"off", "failed", "panic"} /\ starts < MaxStarts
  /\ starts' = starts + 1
  /\ \/ NoFault /\ pc' = IF 1 \in inited THEN "next" ELSE "init"
     \/ 1 \in inited /\ Fault /\ pc' = "init"
  /\ pass' = "ensure" /\ k' = 1 /\ unresolved' = FALSE /\ turn' = 0
  /\ Quiet /\ UNCHANGED <<call, wait, mining, settled, calls, limits>>

NextContract ==
  /\ pc' = IF k = 3 THEN "next" ELSE "init"
  /\ k' = IF k = 3 THEN 1 ELSE k + 1

(* Initialize one of the three contracts: the error of GetTransactor is    *)
(* dropped and its nil options are written to, the other errors are        *)
(* dropped and the next contract follows.                                  *)
Initialize ==
  /\ pc = "init"
  /\ LET v == IF k <= N THEN k ELSE N
     IN \/ NoFault /\ Sends(v, "init", k, NoRequest) /\ pc' = "initMined" /\ k' = k
        \/ Fault /\ Quiet /\ pc' = "panic" /\ k' = k /\ UNCHANGED mining
        \/ Fault /\ SendFails(v, "init", k, NoRequest) /\ NextContract
  /\ UNCHANGED <<pass, unresolved, call, turn, wait, settled, counters>>

InitializeMined ==
  /\ pc = "initMined" /\ (Mined \/ NotMined) /\ NextContract
  /\ UNCHANGED <<pass, unresolved, call, turn, wait, mining, settled, counters>>

\* Mutant of NextPass: what is unresolved is only logged.
NextPass_lenient ==
  /\ pc = "next" /\ k > Params
  /\ \/ pass = "ensure" /\ pass' = "reconcile" /\ pc' = pc /\ k' = 1
     \/ pass = "reconcile" /\ pass' = "verify" /\ pc' = pc /\ k' = 1
     \/ pass = "verify" /\ pass' = "user" /\ k' = k /\ pc' = "idle"
  /\ Quiet /\ UNCHANGED <<unresolved, call, turn, wait, mining, settled, faults, counters>>

\* the three loops over the targets
NextPass ==
  /\ pc = "next" /\ k > Params
  /\ \/ pass = "ensure" /\ pass' = "reconcile" /\ pc' = pc /\ k' = 1
     \/ pass = "reconcile" /\ pass' = "verify" /\ pc' = pc /\ k' = 1
     \/ pass = "verify" /\ pass' = "user" /\ k' = k
          /\ pc' = IF unresolved THEN "failed" ELSE "idle"
  /\ Quiet /\ UNCHANGED <<unresolved, call, turn, wait, mining, settled, faults, counters>>

Enters(cid, val) ==
  /\ request' = [cid |-> cid, val |-> val] /\ current' = value[cid] /\ pc' = "enter"
  /\ settled' = [settled EXCEPT ![cid] = IF value[cid] = val THEN val ELSE None]
  /\ UNCHANGED <<auto, at>>

Skip == pc' = pc /\ k' = k + 1 /\ UNCHANGED <<pass, call>>

EnsureTarget ==
  /\ pc = "next" /\ k <= Params /\ pass # "verify"
  /\ \/ NoFault /\ IF pass = "reconcile" /\ value[k] = Target[k]
                   THEN Skip /\ UNCHANGED <<unresolved, settled>> ELSE Enters(k, Target[k])
     \/ Fault /\ Skip /\ UNCHANGED <<unresolved, settled>>
  /\ Quiet /\ UNCHANGED <<turn, wait, mining, counters>>

\* Mutant of VerifyTarget: only the last parameter decides.
VerifyTarget_last ==
  /\ pc = "next" /\ k <= Params /\ pass = "verify"
  /\ unresolved' = (value[k] # Target[k]) /\ NoFault
  /\ settled' = [settled EXCEPT ![k] = IF value[k] = Target[k] THEN Target[k] ELSE @]
  /\ Skip /\ Quiet /\ UNCHANGED <<turn, wait, mining, counters>>

VerifyTarget ==
  /\ pc = "next" /\ k <= Params /\ pass = "verify"
  /\ \/ /\ value[k] = Target[k] /\ NoFault
        /\ settled' = [settled EXCEPT ![k] = Target[k]] /\ UNCHANGED unresolved
     \/ /\ (value[k] # Target[k] /\ NoFault) \/ Fault
        /\ unresolved' = TRUE /\ UNCHANGED settled
  /\ Skip /\ Quiet /\ UNCHANGED <<turn, wait, mining, counters>>

-----------------------------------------------------------------------------
(* EnsureConfig.                                                           *)

\* a test asks for a value, having read the one before
Ask(cid, val) ==
  /\ pc = "idle" /\ calls < limits.calls /\ calls' = calls + 1
  /\ Enters(cid, val)
  /\ Quiet /\ UNCHANGED <<turn, wait, mining, faults, starts, limits>>

Enter ==
  /\ pc = "enter" /\ NoFault
  /\ IF current = request.val THEN Leave /\ UNCHANGED settled ELSE Go("attempt", Fresh, 0)
  /\ Quiet /\ UNCHANGED <<turn, mining, counters>>

\* Mutant of Attempt: one round too many.
Attempt_more ==
  /\ pc = "attempt" /\ wait = 0
  /\ \/ at.attempt > Attempts /\ NoFault /\ Return("error")
     \/ at.attempt <= Attempts /\ Check("propose", [at EXCEPT !.tried = 0])
  /\ Quiet /\ UNCHANGED <<turn, mining, counters>>

\* Mutant of Attempt: one round too few.
Attempt_fewer ==
  /\ pc = "attempt" /\ wait = 0
  /\ \/ at.attempt = Attempts - 1 /\ NoFault /\ Return("error")
     \/ at.attempt < Attempts - 1 /\ Check("propose", [at EXCEPT !.tried = 0])
  /\ Quiet /\ UNCHANGED <<turn, mining, counters>>

Attempt ==
  /\ pc = "attempt" /\ wait = 0
  /\ \/ at.attempt = Attempts /\ NoFault /\ Return("error")
     \/ at.attempt < Attempts /\ Check("propose", [at EXCEPT !.tried = 0])
  /\ Quiet /\ UNCHANGED <<turn, mining, counters>>

\* at the end of an attempt: the cooldown, or one block if it cannot be read
Pause(blocks) == Go("attempt", [Fresh EXCEPT !.attempt = at.attempt + 1], blocks)

NoProposer ==
  /\ pc = "propose" /\ wait = 0 /\ at.tried = N
  /\ (NoFault /\ Pause(Cooldown)) \/ (Fault /\ Pause(1))
  /\ Quiet /\ UNCHANGED <<turn, mining, counters>>

(* The next proposer: not eligible, without options, or refused by the     *)
(* node; otherwise its transaction is sent.                                *)
Propose ==
  /\ pc = "propose" /\ wait = 0 /\ at.tried < N
  /\ turn' = (turn + 1) % N
  /\ LET v == turn + 1
         there == [at EXCEPT !.tried = @ + 1]
     IN \/ /\ (v \notin Eligible /\ NoFault) \/ (v \in Eligible /\ Fault)
           /\ Go("propose", there, 0) /\ Quiet /\ UNCHANGED mining
        \/ /\ v \in Eligible /\ Fault
           /\ SendFails(v, "create", 0, request) /\ CheckAgain("propose", there, 1)
        \/ /\ v \in Eligible /\ NoFault
           /\ Sends(v, "create", 0, request) /\ Go("createMined", there, 0)
  /\ UNCHANGED counters

\* Mutant of CreateMined: the votes go to the first proposal ever made.
CreateMined_first ==
  /\ pc = "createMined"
  /\ \/ Mined /\ Go("vote", [at EXCEPT !.voter = 1, !.prop = 1], 0)
     \/ answer = "ok" /\ Fault /\ Quiet /\ Go("propose", at, 1)
     \/ NotMined /\ CheckAgain("propose", at, 1)
  /\ UNCHANGED <<turn, mining, counters>>

CreateMined ==
  /\ pc = "createMined"
  /\ \/ Mined /\ Go("vote", [at EXCEPT !.voter = 1, !.prop = receipt], 0)
     \/ answer = "ok" /\ Fault /\ Quiet /\ Go("propose", at, 1)
     \/ NotMined /\ CheckAgain("propose", at, 1)
  /\ UNCHANGED <<turn, mining, counters>>

NextVoter == [at EXCEPT !.voter = @ + 1, !.retry = 0]
\* Mutant of Retry: a vote is tried until it gets through.
Retry_endless == at

Retry == [at EXCEPT !.retry = @ + 1]

\* the next voter, unless the parameter has its value by now
Vote ==
  /\ pc = "vote" /\ wait = 0
  /\ \/ at.voter > N /\ NoFault /\ Go("recheck", at, 0)
     \/ at.voter <= N /\ Holds /\ NoFault /\ Return("ok")
     \/ /\ at.voter <= N /\ ((~Holds /\ NoFault) \/ (Holds /\ Fault))
        /\ Go(IF at.voter \in Eligible THEN "cast" ELSE "vote",
              IF at.voter \in Eligible THEN at ELSE NextVoter, 0)
     \/ at.voter \in Eligible /\ ~Holds /\ Fault /\ Go("vote", NextVoter, 0)
  /\ Quiet /\ UNCHANGED <<turn, mining, counters>>

(* Up to Retries tries of one vote.                                        *)
Cast ==
  /\ pc = "cast" /\ wait = 0
  /\ \/ at.retry = Retries /\ NoFault /\ Go("vote", NextVoter, 0) /\ Quiet /\ UNCHANGED mining
     \/ /\ at.retry < Retries /\ NoFault
        /\ Sends(at.voter, "vote", at.prop, NoRequest) /\ Go("voteMined", at, 0)
     \/ /\ at.retry < Retries /\ Fault
        /\ Go("cast", Retry, 1) /\ Quiet /\ UNCHANGED mining
     \/ /\ at.retry < Retries /\ Fault
        /\ SendFails(at.voter, "vote", at.prop, NoRequest) /\ CheckAgain("vote", NextVoter, 0)
  /\ UNCHANGED <<turn, counters>>

VoteMined ==
  /\ pc = "voteMined"
  /\ \/ answer = "ok" /\ Quiet /\ Check("vote", NextVoter)
     \/ NotMined /\ CheckAgain("cast", Retry, 1)
  /\ UNCHANGED <<turn, mining, counters>>

\* Mutant of Recheck: all have voted, so the parameter must have changed.
Recheck_trusting ==
  /\ pc = "recheck" /\ NoFault /\ Return("ok")
  /\ Quiet /\ UNCHANGED <<turn, mining, counters>>

Recheck ==
  /\ pc = "recheck"
  /\ \/ Holds /\ NoFault /\ Return("ok")
     \/ ~Holds /\ NoFault /\ Pause(Cooldown)
     \/ Fault /\ (Pause(1) \/ Pause(Cooldown))
  /\ Quiet /\ UNCHANGED <<turn, mining, counters>>

\* both reads of the height at the start of waitBlocks have failed
NoWait ==
  /\ pc \in Ensuring /\ wait > 0 /\ Fault
  /\ wait' = 0
  /\ Quiet /\ UNCHANGED <<pc, auto, call, settled, turn, mining, counters>>

-----------------------------------------------------------------------------
\* the tests are done / the process is killed
Gone ==
  /\ pc' = "off" /\ pass' = "ensure" /\ k' = 1 /\ unresolved' = FALSE
  /\ request' = NoRequest /\ current' = None /\ at' = Fresh /\ turn' = 0 /\ wait' = 0
  /\ UNCHANGED <<settled, mining, counters>>

Exit == pc = "idle" /\ Gone /\ Quiet /\ NoFault
Die == pc \notin Idle /\ Fault /\ Gone /\ Disowned

EnsureSteps == Enter \/ Attempt \/ NoProposer \/ Propose \/ CreateMined \/ Vote \/ Cast
               \/ VoteMined \/ Recheck
AutoSteps == Initialize \/ InitializeMined \/ NextPass \/ EnsureTarget \/ VerifyTarget
Steps == EnsureSteps \/ AutoSteps

Next ==
  \/ Start \/ Steps \/ NoWait \/ Exit \/ Die
  \/ \E cid \in Cids, val \in Values : Ask(cid, val)
  \/ \E v \in Validators : Mine(v) \/ Refuse(v) \/ Jail(v)
  \/ Tick \/ Halt

(* The process runs, and a chain that has not stopped makes blocks and     *)
(* gets round to every pending transaction.                                *)
Fairness ==
  /\ WF_vars(Steps) /\ WF_vars(Tick)
  /\ \A v \in Validators : WF_vars(Mine(v))

Spec == Init /\ [][Next]_vars /\ Fairness

-----------------------------------------------------------------------------
TypeOK ==
  /\ value \in [Cids -> Values] /\ props \in Seq(Proposal) /\ inited \subseteq Contracts
  /\ active \subseteq Validators /\ age \in [Validators -> Nat]
  /\ pool \in [Validators -> Seq(Tx)] /\ halted \in BOOLEAN
  /\ pc \in PCs /\ pass \in {"ensure", "reconcile", "verify", "user"}
  /\ k \in 1..(Params + 1) \cup Contracts /\ unresolved \in BOOLEAN
  /\ request \in Asked /\ current \in Values \cup {None}
  /\ at \in [attempt : 0..Attempts, tried : 0..N, voter : 1..(N + 1),
             retry : 0..Retries, prop : 0..Len(props)]
  /\ turn \in 0..(N - 1) /\ wait \in Nat
  /\ answer \in {"none", "ok", "reverted"} /\ receipt \in 0..Len(props)
  /\ settled \in [Cids -> Values \cup {None}]
  /\ limits \in Limits /\ faults \in 0..limits.faults /\ calls \in 0..limits.calls /\ starts \in 0..MaxStarts

(* A value that a call has succeeded with stays until somebody asks for    *)
(* another one, as long as no vote that WaitMined has given up on, or that *)
(* a killed process has left behind, is mined (EnsureConfig returns only   *)
(* after all that it waits for).                                           *)
EnsuredStays == \A c \in Cids : settled[c] # None => value[c] = settled[c]

(* Without a fault no call fails: the rotation finds a proposer that is    *)
(* not cooling down, or waits in its first round for the cooldown that is  *)
(* in force by then, the votes of the genesis validators are a majority,   *)
(* and autoInitialize leaves nothing unresolved.                           *)
CleanRunsSucceed ==
  faults = 0 => /\ pc \notin {"failed", "panic"}
                /\ pc = "idle" => \A c \in Cids : settled[c] # None

(* A process gets to its tests only when Proposal and Validators are       *)
(* initialised, and Staking too if nothing has failed.  Initialized asks   *)
(* the Proposal contract alone: when the process before died between the   *)
(* three calls, the others stay as they are.  Without Validators no        *)
(* parameter can be set, so autoInitialize ends with an error; without     *)
(* Staking it does not: a failure of that call is dropped                  *)
(* (context.go:597-603), and nothing later notices it.                     *)
ReadyMeansInitialised ==
  pass = "user" /\ pc # "failed" =>
    {1, 3} \subseteq inited /\ (2 \in inited \/ faults > 0)

(* autoInitialize succeeds only when every parameter has its target, read  *)
(* one after the other, unless a late vote has changed one since.          *)
Verified ==
  [][pass = "verify" /\ pass' = "user" /\ pc' = "idle" =>
       \A c \in Cids : value[c] = Target[c] \/ settled[c] = None]_vars

(* What a process starts comes to an end, except in waitBlocks on a chain  *)
(* that has stopped: it has no deadline, the loops around it do.           *)
Ends == pc \notin Idle ~> (pc \in Idle \/ (halted /\ wait > 0))

(* EnsureConfig is a write that, when it is not waited for to the end, may *)
(* take effect at any later time: ConfigStore says so without proposals,   *)
(* votes and retries.                                                      *)
Left == UNION {{pool[v][i] : i \in DOMAIN pool[v]} : v \in Validators}
Owed == {props[t.id].asks : t \in {u \in Left : u.kind = "vote" /\ ~u.own}}
Returning == pc = "enter" /\ current = request.val
Store == INSTANCE ConfigStore WITH
  Writes <- Requests,
  request <- IF Returning THEN NoRequest ELSE request,
  owed <- Owed
StoreSpec == Store!Spec

=================================================================================
