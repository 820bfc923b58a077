---------------------------- MODULE Governance_proofs ----------------------------
(***************************************************************************)
(* Proofs about EnsureConfig and autoInitialize, for any validators,       *)
(* parameters, values and numbers of attempts and retries, any cooldown    *)
(* and any bounds on calls, faults and processes.                          *)
(***************************************************************************)
EXTENDS Governance, FiniteSetTheorems, TLAPS

USE GovernanceAssumption DEF GovernanceAssumption

-----------------------------------------------------------------------------
(***************************************************************************)
(* The inductive invariant.  Position, Loops and Votes say what the type   *)
(* invariant leaves open about the program counter, PoolOK and OneOwn what *)
(* is in the pool (the process waits for at most one transaction, the one  *)
(* that it has just sent), Asking and EnsuredStays what is known of the    *)
(* parameters.                                                             *)
(***************************************************************************)
Voting == {"vote", "cast", "voteMined"}
InAttempt == {"propose", "createMined", "recheck"} \cup Voting

Position ==
  /\ pc \in {"init", "initMined"} => pass = "ensure" /\ k \in Contracts
  /\ pc = "next" => pass # "user" /\ k \in 1..(Params + 1)
  /\ pc = "idle" => pass = "user"
  /\ pass = "verify" => pc = "next"
  /\ pc \in Ensuring => request \in Requests /\ (pass # "user" => k \in Cids)
  /\ pc \notin Ensuring => request = NoRequest

Loops ==
  /\ pc \in InAttempt => at.attempt < Attempts
  /\ pc \in {"cast", "voteMined"} => at.voter <= N
  /\ pc = "voteMined" => at.retry < Retries

Votes ==
  /\ pc \in Voting => at.prop > 0 /\ props[at.prop].asks = request
  /\ pc = "createMined" /\ answer = "ok" => receipt > 0 /\ props[receipt].asks = request

\* the transaction that the process waits for
Awaited(t) ==
  /\ answer = "none"
  /\ \/ pc = "initMined" /\ t.kind = "init" /\ t.id = k
     \/ pc = "createMined" /\ t.kind = "create" /\ t.asks = request
     \/ pc = "voteMined" /\ t.kind = "vote" /\ t.id = at.prop

TxOK(t) ==
  /\ t.kind = "init" => t.id \in Contracts
  /\ t.kind = "create" => t.asks \in Requests
  /\ t.kind = "vote" => t.id \in 1..Len(props)
  /\ t.own => Awaited(t)

Pooled(v, i) == TxOK(pool[v][i])

PoolOK == \A v \in Validators : \A i \in 1..Len(pool[v]) : Pooled(v, i)

OneOwn ==
  \A v, w \in Validators : \A i \in 1..Len(pool[v]), j \in 1..Len(pool[w]) :
    pool[v][i].own /\ pool[w][j].own => v = w /\ i = j

Asking == pc \in Ensuring /\ ~Returning => settled[request.cid] = None

Inv == TypeOK /\ Position /\ Loops /\ Votes /\ PoolOK /\ OneOwn /\ Asking /\ EnsuredStays

-----------------------------------------------------------------------------
(* What autoInitialize has verified so far. *)
Checked ==
  pass = "verify" /\ ~unresolved =>
    \A c \in Cids : c < k => settled[c] \in {Target[c], None}

(* A parameter that is not as it was at first was changed by a proposal,   *)
(* which takes two initialised contracts.                                  *)
Touched == (props # <<>> => {1, 3} \subseteq inited) /\ (props = <<>> => value = Default)

CheckedTouched ==
  /\ pass = "verify" /\ ~unresolved =>
       \A c \in Cids : c < k /\ Target[c] # Default[c] => {1, 3} \subseteq inited
  /\ pass = "user" /\ pc # "failed" /\ (\E c \in Cids : Target[c] # Default[c]) =>
       {1, 3} \subseteq inited

-----------------------------------------------------------------------------
(***************************************************************************)
(* Runs without a fault: every transaction in the pool is waited for, all  *)
(* validators are active, and                                              *)
(*   - autoInitialize goes through the contracts and then the parameters;  *)
(*   - the second attempt of EnsureConfig starts when no validator is      *)
(*     cooling down, and its first proposal is accepted;                   *)
(*   - every vote is accepted until the value is there.                    *)
(***************************************************************************)
CleanChain ==
  /\ active = Validators /\ ~halted
  /\ \A v \in Validators : \A i \in 1..Len(pool[v]) : pool[v][i].own
  /\ \A v \in Validators : pc = "voteMined" /\ Len(pool[v]) > 0 => v = at.voter
  /\ pc \notin {"failed", "panic", "recheck"}
  /\ pc = "createMined" /\ answer = "reverted" => at.attempt = 0

CleanInit ==
  /\ pc # "off" => starts > 0
  /\ pc = "off" => inited = (IF starts = 0 THEN {} ELSE Contracts)
  /\ pc = "init" => inited = 1..(k - 1)
  /\ pc = "initMined" =>
       (answer = "none" /\ inited = 1..(k - 1)) \/ (answer = "ok" /\ inited = 1..k)
  /\ pc \notin {"off", "init", "initMined"} => inited = Contracts

CleanPasses ==
  /\ ~unresolved
  /\ pass = "ensure" /\ pc \notin {"off", "init", "initMined"} =>
       \A c \in Cids : c < k => settled[c] = Target[c]
  /\ pass \in {"reconcile", "verify"} => pc = "next" /\ \A c \in Cids : settled[c] = Target[c]
  /\ pass = "ensure" /\ pc \in Ensuring => request = [cid |-> k, val |-> Target[k]]
  /\ pass = "user" => \A c \in Cids : settled[c] # None \/ (pc \in Ensuring /\ c = request.cid)
  /\ pc = "enter" /\ Returning => settled[request.cid] = request.val

CleanAttempts ==
  /\ at.attempt \in {0, 1}
  /\ pc = "attempt" /\ at.attempt = 1 => \A v \in Validators : age[v] + wait >= Cooldown
  /\ pc = "propose" /\ at.attempt = 1 => at.tried = 0 /\ \A v \in Validators : age[v] + wait >= Cooldown
  /\ pc = "createMined" /\ answer = "none" /\ at.attempt = 1 => \A v \in Validators : age[v] >= Cooldown

CleanVotes ==
  /\ at.retry = 0
  /\ pc \in Voting => at.voter <= N /\ answer # "reverted"
  /\ pc \in {"vote", "cast"} \/ (pc = "voteMined" /\ answer = "none") =>
       ~props[at.prop].passed /\ props[at.prop].voters = 1..(at.voter - 1)
  /\ pc = "createMined" /\ answer = "ok" =>
       ~props[receipt].passed /\ props[receipt].voters = {}
  /\ pc = "voteMined" /\ answer = "ok" =>
       \/ value[request.cid] = request.val
       \/ at.voter < N /\ ~props[at.prop].passed /\ props[at.prop].voters = 1..at.voter

Clean == CleanChain /\ CleanInit /\ CleanPasses /\ CleanAttempts /\ CleanVotes
CleanInv == faults = 0 /\ Attempts > 1 => Clean

-----------------------------------------------------------------------------
(***************************************************************************)
(* What the steps do to the pool: the first transaction of a validator is  *)
(* taken out, one is added at the end, or all of them are disowned.        *)
(***************************************************************************)
LEMMA FunctionIsSeq ==
  ASSUME NEW S, NEW n \in Nat, NEW f \in [1..n -> S]
  PROVE  f \in Seq(S) /\ Len(f) = n
OBVIOUS

TookOut(v) ==
  /\ pool' \in [Validators -> Seq(Tx)]
  /\ Head(pool[v]) = pool[v][1] /\ pool[v][1] \in Tx /\ 1 \in 1..Len(pool[v])
  /\ \A w \in Validators \ {v} : pool'[w] = pool[w]
  /\ Len(pool'[v]) = Len(pool[v]) - 1
  /\ \A i \in 1..Len(pool'[v]) : i + 1 \in 1..Len(pool[v]) /\ pool'[v][i] = pool[v][i + 1]

LEMMA TakeOut ==
  ASSUME TypeOK, NEW v \in Validators, pool[v] # <<>>,
         pool' = [pool EXCEPT ![v] = Tail(@)]
  PROVE  TookOut(v)
<1>1. pool \in [Validators -> Seq(Tx)] /\ pool[v] \in Seq(Tx)
  BY DEF TypeOK
<1>2. /\ Tail(pool[v]) \in Seq(Tx) /\ Head(pool[v]) = pool[v][1] /\ pool[v][1] \in Tx
      /\ Len(pool[v]) \in Nat /\ Len(pool[v]) > 0
      /\ Len(Tail(pool[v])) = Len(pool[v]) - 1
      /\ \A i \in 1..Len(Tail(pool[v])) : Tail(pool[v])[i] = pool[v][i + 1]
  BY <1>1
<1> QED
  BY <1>1, <1>2 DEF TookOut

Added(v, t) ==
  /\ pool' \in [Validators -> Seq(Tx)]
  /\ \A w \in Validators \ {v} : pool'[w] = pool[w]
  /\ Len(pool'[v]) = Len(pool[v]) + 1
  /\ \A i \in 1..Len(pool[v]) : pool'[v][i] = pool[v][i]
  /\ pool'[v][Len(pool[v]) + 1] = t

LEMMA Add ==
  ASSUME TypeOK, NEW v \in Validators, NEW t \in Tx,
         pool' = [pool EXCEPT ![v] = Append(@, t)]
  PROVE  Added(v, t)
<1>1. pool \in [Validators -> Seq(Tx)] /\ pool[v] \in Seq(Tx)
  BY DEF TypeOK
<1> QED
  BY <1>1 DEF Added

Released ==
  /\ pool' \in [Validators -> Seq(Tx)]
  /\ \A w \in Validators : Len(pool'[w]) = Len(pool[w])
  /\ \A w \in Validators : \A i \in 1..Len(pool[w]) :
       pool[w][i] \in Tx /\ pool'[w][i] = [pool[w][i] EXCEPT !.own = FALSE]

LEMMA DisownedTx ==
  ASSUME NEW t \in Tx
  PROVE  LET u == [t EXCEPT !.own = FALSE]
         IN u \in Tx /\ u.kind = t.kind /\ u.id = t.id /\ u.asks = t.asks /\ ~u.own
BY DEF Tx

LEMMA Release ==
  ASSUME TypeOK, Disowned
  PROVE  Released
<1>1. pool \in [Validators -> Seq(Tx)]
  BY DEF TypeOK
<1>2. ASSUME NEW w \in Validators
      PROVE  /\ pool'[w] \in Seq(Tx) /\ Len(pool'[w]) = Len(pool[w])
             /\ \A i \in 1..Len(pool[w]) :
                  pool[w][i] \in Tx /\ pool'[w][i] = [pool[w][i] EXCEPT !.own = FALSE]
  <2>1. pool[w] \in Seq(Tx) /\ DOMAIN pool[w] = 1..Len(pool[w]) /\ Len(pool[w]) \in Nat
    BY <1>1
  <2>2. pool'[w] = [i \in 1..Len(pool[w]) |-> [pool[w][i] EXCEPT !.own = FALSE]]
    BY <2>1 DEF Disowned
  <2>3. \A i \in 1..Len(pool[w]) : pool[w][i] \in Tx
    BY <2>1
  <2>4. \A i \in 1..Len(pool[w]) : [pool[w][i] EXCEPT !.own = FALSE] \in Tx
    BY <2>3, DisownedTx
  <2> QED
    BY <2>1, <2>2, <2>3, <2>4, FunctionIsSeq
<1>3. pool' = [w \in Validators |-> pool'[w]]
  BY DEF Disowned
<1> QED
  BY <1>2, <1>3 DEF Released

-----------------------------------------------------------------------------
(***************************************************************************)
(* The type invariant in two parts: what the chain and what the process    *)
(* changes.                                                                *)
(***************************************************************************)
ChainOK ==
  /\ value \in [Cids -> Values] /\ props \in Seq(Proposal) /\ inited \subseteq Contracts
  /\ active \subseteq Validators /\ age \in [Validators -> Nat]
  /\ pool \in [Validators -> Seq(Tx)] /\ halted \in BOOLEAN

Places == [attempt : 0..Attempts, tried : 0..N, voter : 1..(N + 1),
           retry : 0..Retries, prop : 0..Len(props)]

CallOK ==
  /\ request \in Asked /\ current \in Values \cup {None}
  /\ at \in Places /\ wait \in Nat
  /\ settled \in [Cids -> Values \cup {None}]

AutoOK ==
  /\ pc \in PCs /\ pass \in {"ensure", "reconcile", "verify", "user"}
  /\ k \in 1..(Params + 1) \cup Contracts /\ unresolved \in BOOLEAN

RestOK ==
  /\ turn \in 0..(N - 1)
  /\ answer \in {"none", "ok", "reverted"} /\ receipt \in 0..Len(props)
  /\ limits \in Limits /\ faults \in 0..limits.faults /\ calls \in 0..limits.calls
  /\ starts \in 0..MaxStarts

LEMMA TypeParts ==
  /\ TypeOK <=> ChainOK /\ CallOK /\ AutoOK /\ RestOK
  /\ TypeOK' <=> ChainOK' /\ CallOK' /\ AutoOK' /\ RestOK'
BY Zenon DEF TypeOK, ChainOK, CallOK, AutoOK, RestOK, Places

\* the bounds of a behaviour, and its cooldowns
LEMMA LimitsOK ==
  ASSUME NEW l \in Limits
  PROVE  /\ l.faults \in Nat /\ l.calls \in Nat /\ l.ages \in Nat
         /\ \A x \in Values : l.cooldown[x] \in Nat \ {0} /\ l.cooldown[x] <= l.ages
<1>1. l \in Limit /\ \A x \in Values : l.cooldown[x] <= l.ages
  BY Zenon, LimitsAssumption DEF LimitsAssumption
<1>2. l.cooldown \in [Values -> Nat \ {0}] /\ l.faults \in Nat /\ l.calls \in Nat /\ l.ages \in Nat
  BY <1>1 DEF Limit
<1> QED
  BY <1>1, <1>2

LEMMA CountersKept ==
  ASSUME RestOK, Fault \/ NoFault, UNCHANGED counters
  PROVE  /\ limits' \in Limits /\ faults' \in 0..limits'.faults /\ calls' \in 0..limits'.calls
         /\ starts' \in 0..MaxStarts
<1>1. limits \in Limits /\ limits' = limits /\ calls' = calls /\ starts' = starts
  BY DEF RestOK, counters
<1>2. limits.faults \in Nat
  BY <1>1, LimitsOK
<1> QED
  BY <1>1, <1>2 DEF RestOK, Fault, NoFault

(***************************************************************************)
(* What a step of the process does to the chain: nothing but to send a     *)
(* transaction or to disown what it has sent.                              *)
(***************************************************************************)
ChainKept ==
  /\ pool' \in [Validators -> Seq(Tx)]
  /\ UNCHANGED <<value, props, inited, active, age, halted>>

LEMMA ChainKeptType ==
  ASSUME ChainOK, ChainKept
  PROVE  ChainOK'
BY DEF ChainOK, ChainKept

LEMMA Kept ==
  ASSUME TypeOK, Quiet \/ Disowned
  PROVE  ChainKept
<1>1. CASE Quiet
  BY <1>1 DEF Quiet, chainVars, contracts, ChainKept, TypeOK
<1>2. CASE Disowned
  BY <1>2, Release DEF Released, Disowned, contracts, ChainKept
<1> QED
  BY <1>1, <1>2

LEMMA SendsKept ==
  ASSUME TypeOK, NEW v \in Validators, NEW kind \in {"init", "create", "vote"}, NEW id \in Nat,
         NEW asks \in Asked, Sends(v, kind, id, asks)
  PROVE  /\ ChainKept
         /\ Added(v, [kind |-> kind, id |-> id, asks |-> asks, own |-> TRUE])
         /\ answer' = "none" /\ receipt' = 0
<1>1. [kind |-> kind, id |-> id, asks |-> asks, own |-> TRUE] \in Tx
  BY DEF Tx
<1>2. Added(v, [kind |-> kind, id |-> id, asks |-> asks, own |-> TRUE])
  BY <1>1, Add DEF Sends, Adds
<1> QED
  BY <1>2 DEF Sends, Adds, Added, ChainKept, contracts

LEMMA SendFailsKept ==
  ASSUME TypeOK, NEW v \in Validators, NEW kind \in {"init", "create", "vote"}, NEW id \in Nat,
         NEW asks \in Asked, SendFails(v, kind, id, asks)
  PROVE  /\ ChainKept /\ UNCHANGED mining
         /\ Quiet \/ Added(v, [kind |-> kind, id |-> id, asks |-> asks, own |-> FALSE])
<1>1. [kind |-> kind, id |-> id, asks |-> asks, own |-> FALSE] \in Tx
  BY DEF Tx
<1>2. Quiet \/ (Added(v, [kind |-> kind, id |-> id, asks |-> asks, own |-> FALSE])
                /\ Adds(v, kind, id, asks, FALSE))
  BY <1>1, Add DEF SendFails, Adds
<1>3. ChainKept
  BY <1>2, Kept DEF Adds, Added, ChainKept, contracts
<1> QED
  BY <1>2, <1>3 DEF SendFails

\* the cooldown in force, and the waits that it allows
LEMMA CooldownOK ==
  ASSUME TypeOK
  PROVE  /\ Cooldown \in Nat \ {0} /\ Cooldown <= limits.ages /\ limits.ages \in Nat
<1>1. limits \in Limits /\ value[1] \in Values
  <2>1. 1 \in Cids /\ value \in [Cids -> Values] /\ limits \in Limits
    BY DEF TypeOK, Cids
  <2> QED
    BY <2>1
<1> QED
  BY <1>1, LimitsOK DEF Cooldown

LEMMA MiningOK ==
  ASSUME Mined \/ NotMined, TypeOK
  PROVE  ChainKept /\ (Fault \/ NoFault)
BY Kept DEF Mined, NotMined

-----------------------------------------------------------------------------
(***************************************************************************)
(* The pieces that the steps of EnsureConfig are made of.                  *)
(***************************************************************************)
LEMMA GoOK ==
  ASSUME CallOK, AutoOK, ChainKept, NEW there \in PCs, NEW where \in Places, NEW blocks \in Nat,
         Go(there, where, blocks)
  PROVE  CallOK' /\ AutoOK'
BY DEF CallOK, AutoOK, Go, ChainKept, Places, auto

LEMMA LeaveOK ==
  ASSUME CallOK, AutoOK, Position, pc \in Ensuring, ChainKept, Leave,
         settled' \in [Cids -> Values \cup {None}]
  PROVE  CallOK' /\ AutoOK'
<1>1. Fresh \in Places'
  BY DEF Fresh, Places, CallOK, ChainKept
<1>2. CallOK'
  BY <1>1 DEF CallOK, Leave, Asked
<1>3. AutoOK'
  BY DEF AutoOK, Leave, Position, PCs, Idle, Booting, Cids
<1> QED
  BY <1>2, <1>3

LEMMA ReturnOK ==
  ASSUME CallOK, AutoOK, Position, pc \in Ensuring, ChainKept, NEW result, Return(result)
  PROVE  CallOK' /\ AutoOK'
<1>1. request \in Requests
  BY DEF Position
<1>2. settled' \in [Cids -> Values \cup {None}]
  BY <1>1 DEF Return, CallOK, Requests
<1> QED
  BY <1>2, LeaveOK DEF Return

LEMMA CheckOK ==
  ASSUME CallOK, AutoOK, Position, pc \in Ensuring, ChainKept, NEW there \in PCs,
         NEW where \in Places, Check(there, where)
  PROVE  CallOK' /\ AutoOK' /\ (Fault \/ NoFault)
BY ReturnOK, GoOK DEF Check

LEMMA CheckAgainOK ==
  ASSUME CallOK, AutoOK, Position, pc \in Ensuring, ChainKept, NEW there \in PCs,
         NEW where \in Places, NEW blocks \in Nat, CheckAgain(there, where, blocks)
  PROVE  CallOK' /\ AutoOK'
BY ReturnOK, GoOK DEF CheckAgain

LEMMA RestKept ==
  ASSUME RestOK, ChainKept, Fault \/ NoFault, UNCHANGED counters, turn' \in 0..(N - 1),
         UNCHANGED mining \/ (answer' = "none" /\ receipt' = 0)
  PROVE  RestOK'
<1>1. receipt' \in 0..Len(props') /\ answer' \in {"none", "ok", "reverted"}
  BY DEF RestOK, ChainKept, mining
<1> QED
  BY <1>1, CountersKept DEF RestOK

LEMMA PlacesKept ==
  ASSUME CallOK
  PROVE  /\ at.attempt < Attempts => [Fresh EXCEPT !.attempt = at.attempt + 1] \in Places
         /\ [at EXCEPT !.tried = 0] \in Places /\ Fresh \in Places /\ at \in Places
         /\ at.tried < N => [at EXCEPT !.tried = @ + 1] \in Places
         /\ at.voter <= N => NextVoter \in Places
         /\ at.retry < Retries => Retry \in Places
         /\ \A i \in 0..Len(props) : [at EXCEPT !.voter = 1, !.prop = i] \in Places
<1>1. /\ at \in Places
      /\ at.attempt \in 0..Attempts /\ at.tried \in 0..N /\ at.voter \in 1..(N + 1)
      /\ at.retry \in 0..Retries /\ at.prop \in 0..Len(props)
  BY DEF CallOK, Places
<1>a. 0 \in 0..Attempts /\ 0 \in 0..N /\ 1 \in 1..(N + 1) /\ 0 \in 0..Retries /\ 0 \in 0..Len(props)
  BY <1>1
<1>2. at.attempt < Attempts => [Fresh EXCEPT !.attempt = at.attempt + 1] \in Places
  <2>1. ASSUME at.attempt < Attempts PROVE at.attempt + 1 \in 0..Attempts
    BY <1>1, <2>1
  <2> QED
    BY <1>1, <1>a, <2>1 DEF Places, Fresh
<1>3. [at EXCEPT !.tried = 0] \in Places /\ Fresh \in Places
  BY <1>1, <1>a DEF Places, Fresh
<1>4. at.tried < N => [at EXCEPT !.tried = @ + 1] \in Places
  <2>1. ASSUME at.tried < N PROVE at.tried + 1 \in 0..N
    BY <1>1, <2>1
  <2> QED
    BY <1>1, <2>1 DEF Places
<1>5. at.voter <= N => NextVoter \in Places
  <2>1. ASSUME at.voter <= N PROVE at.voter + 1 \in 1..(N + 1) /\ 0 \in 0..Retries
    BY <1>1, <2>1
  <2> QED
    BY <1>1, <2>1 DEF Places, NextVoter
<1>6. at.retry < Retries => Retry \in Places
  <2>1. ASSUME at.retry < Retries PROVE at.retry + 1 \in 0..Retries
    BY <1>1, <2>1
  <2> QED
    BY <1>1, <2>1 DEF Places, Retry
<1>7. \A i \in 0..Len(props) : [at EXCEPT !.voter = 1, !.prop = i] \in Places
  BY <1>1, <1>a DEF Places
<1> QED
  BY <1>1, <1>2, <1>3, <1>4, <1>5, <1>6, <1>7

-----------------------------------------------------------------------------
(***************************************************************************)
(* Every step of EnsureConfig keeps the types.                             *)
(***************************************************************************)
LEMMA EnsureTypes ==
  ASSUME Inv, EnsureSteps
  PROVE  TypeOK' /\ ChainKept
<1> USE DEF Inv
<1>0. ChainOK /\ CallOK /\ AutoOK /\ RestOK /\ turn \in 0..(N - 1)
  BY TypeParts DEF RestOK
<1>a. \A x \in Ensuring : x \in PCs
  BY DEF PCs
<1>1. CASE Enter
  <2>1. ChainKept
    BY <1>1, Kept DEF Enter
  <2>2. CallOK' /\ AutoOK'
    <3>1. CASE Leave /\ UNCHANGED settled
      BY <3>1, <1>0, <1>1, <2>1, LeaveOK DEF Enter, CallOK, Ensuring
    <3>2. CASE Go("attempt", Fresh, 0)
      BY <3>2, <1>0, <2>1, GoOK, PlacesKept DEF PCs, Ensuring
    <3> QED
      BY <1>1, <3>1, <3>2 DEF Enter
  <2>3. RestOK'
    BY <1>0, <1>1, <2>1, RestKept DEF Enter
  <2> QED
    BY <1>0, <2>1, <2>2, <2>3, ChainKeptType, TypeParts
<1>2. CASE Attempt
  <2>1. ChainKept
    BY <1>2, Kept DEF Attempt
  <2>2. CallOK' /\ AutoOK' /\ (Fault \/ NoFault)
    BY <1>0, <1>2, <2>1, ReturnOK, CheckOK, PlacesKept DEF Attempt, PCs, Ensuring
  <2>3. RestOK'
    BY <1>0, <1>2, <2>1, <2>2, RestKept DEF Attempt
  <2> QED
    BY <1>0, <2>1, <2>2, <2>3, ChainKeptType, TypeParts
<1>3. CASE NoProposer
  <2>1. ChainKept
    BY <1>3, Kept DEF NoProposer
  <2>2. CallOK' /\ AutoOK'
    <3>1. Pause(1) \/ Pause(Cooldown)
      BY <1>3 DEF NoProposer
    <3> QED
      BY <3>1, <1>0, <1>3, <2>1, GoOK, PlacesKept, CooldownOK
         DEF NoProposer, Pause, PCs, Ensuring, Loops, InAttempt
  <2>3. RestOK'
    BY <1>0, <1>3, <2>1, RestKept DEF NoProposer
  <2> QED
    BY <1>0, <2>1, <2>2, <2>3, ChainKeptType, TypeParts
<1>4. CASE Propose
  <2> DEFINE there == [at EXCEPT !.tried = @ + 1]
  <2>1. there \in Places
    BY <1>0, <1>4, PlacesKept DEF Propose
  <2>2. turn + 1 \in Validators /\ turn' \in 0..(N - 1) /\ request \in Requests
    BY <1>0, <1>4 DEF Propose, Validators, Position, Ensuring
  <2> HIDE DEF there
  <2>3. \/ (Fault \/ NoFault) /\ Go("propose", there, 0) /\ Quiet /\ UNCHANGED mining
        \/ /\ Fault /\ CheckAgain("propose", there, 1)
           /\ SendFails(turn + 1, "create", 0, request)
        \/ NoFault /\ Sends(turn + 1, "create", 0, request) /\ Go("createMined", there, 0)
    BY <1>4 DEF Propose, there
  <2>4. ChainKept /\ (Fault \/ NoFault) /\ (UNCHANGED mining \/ (answer' = "none" /\ receipt' = 0))
    BY <2>2, <2>3, Kept, SendsKept, SendFailsKept DEF Asked
  <2>5. CallOK' /\ AutoOK'
    BY <1>0, <1>4, <2>1, <2>3, <2>4, GoOK, CheckAgainOK, CooldownOK DEF Propose, PCs, Ensuring
  <2>6. RestOK'
    BY <1>0, <1>4, <2>2, <2>4, RestKept DEF Propose
  <2> QED
    BY <1>0, <2>4, <2>5, <2>6, ChainKeptType, TypeParts
<1>5. CASE CreateMined
  <2>1. ChainKept /\ (Fault \/ NoFault)
    BY <1>5, Kept, MiningOK DEF CreateMined
  <2>2. CallOK' /\ AutoOK'
    <3>1. CASE Go("vote", [at EXCEPT !.voter = 1, !.prop = receipt], 0)
      BY <3>1, <1>0, <2>1, GoOK, PlacesKept DEF PCs, Ensuring, RestOK
    <3>2. CASE Go("propose", at, 1)
      BY <3>2, <1>0, <2>1, GoOK, PlacesKept DEF PCs, Ensuring
    <3>3. CASE CheckAgain("propose", at, 1)
      BY <3>3, <1>0, <1>5, <2>1, CheckAgainOK, PlacesKept DEF PCs, Ensuring, CreateMined
    <3> QED
      BY <1>5, <3>1, <3>2, <3>3 DEF CreateMined
  <2>3. RestOK'
    BY <1>0, <1>5, <2>1, RestKept DEF CreateMined
  <2> QED
    BY <1>0, <2>1, <2>2, <2>3, ChainKeptType, TypeParts
<1>6. CASE Vote
  <2>1. ChainKept /\ (Fault \/ NoFault)
    BY <1>6, Kept DEF Vote
  <2>2. at.voter \in Eligible => at.voter <= N
    <3>1. Eligible \subseteq Validators
      BY <1>0 DEF Eligible, ChainOK
    <3>2. ASSUME at.voter \in Validators PROVE at.voter <= N
      BY <3>2 DEF Validators
    <3> QED
      BY <3>1, <3>2
  <2>3. CallOK' /\ AutoOK'
    <3>1. CASE Go("recheck", at, 0)
      BY <3>1, <1>0, <2>1, GoOK, PlacesKept DEF PCs, Ensuring
    <3>2. CASE Return("ok")
      BY <3>2, <1>0, <1>6, <2>1, ReturnOK DEF Ensuring, Vote
    <3>3. CASE Go("cast", at, 0) \/ Go("vote", at, 0)
      BY <3>3, <1>0, <2>1, GoOK, PlacesKept DEF PCs, Ensuring
    <3>4. CASE at.voter <= N /\ Go("vote", NextVoter, 0)
      BY <3>4, <1>0, <2>1, GoOK, PlacesKept DEF PCs, Ensuring
    <3> QED
      BY <1>6, <2>2, <3>1, <3>2, <3>3, <3>4 DEF Vote
  <2>4. RestOK'
    BY <1>0, <1>6, <2>1, RestKept DEF Vote
  <2> QED
    BY <1>0, <2>1, <2>3, <2>4, ChainKeptType, TypeParts
<1>7. CASE Cast
  <2>1. at.voter \in Validators /\ at.prop \in Nat /\ at.voter <= N
    BY <1>0, <1>7 DEF CallOK, Places, Validators, Loops, Cast
  <2>2. ChainKept /\ (Fault \/ NoFault) /\ (UNCHANGED mining \/ (answer' = "none" /\ receipt' = 0))
    <3>1. CASE Sends(at.voter, "vote", at.prop, NoRequest) /\ NoFault
      BY <3>1, <2>1, SendsKept DEF Asked
    <3>2. CASE Quiet /\ UNCHANGED mining
      BY <3>2, <1>7, Kept DEF Cast
    <3>3. CASE SendFails(at.voter, "vote", at.prop, NoRequest) /\ Fault
      BY <3>3, <2>1, SendFailsKept DEF Asked
    <3> QED
      BY <1>7, <3>1, <3>2, <3>3 DEF Cast
  <2>3. CallOK' /\ AutoOK'
    <3>1. CASE Go("vote", NextVoter, 0)
      BY <3>1, <1>0, <2>1, <2>2, GoOK, PlacesKept DEF PCs, Ensuring
    <3>2. CASE Go("voteMined", at, 0)
      BY <3>2, <1>0, <2>2, GoOK, PlacesKept DEF PCs, Ensuring
    <3>3. CASE at.retry < Retries /\ Go("cast", Retry, 1)
      BY <3>3, <1>0, <2>2, GoOK, PlacesKept DEF PCs, Ensuring
    <3>4. CASE CheckAgain("vote", NextVoter, 0)
      BY <3>4, <1>0, <1>7, <2>1, <2>2, CheckAgainOK, PlacesKept DEF PCs, Ensuring, Cast
    <3> QED
      BY <1>7, <3>1, <3>2, <3>3, <3>4 DEF Cast
  <2>4. RestOK'
    BY <1>0, <1>7, <2>2, RestKept DEF Cast
  <2> QED
    BY <1>0, <2>2, <2>3, <2>4, ChainKeptType, TypeParts
<1>8. CASE VoteMined
  <2>1. ChainKept
    BY <1>8, Kept, MiningOK DEF VoteMined
  <2>2. at.voter <= N /\ at.retry < Retries
    BY <1>8 DEF VoteMined, Loops
  <2>3. CallOK' /\ AutoOK' /\ (Fault \/ NoFault)
    <3>1. CASE Check("vote", NextVoter)
      BY <3>1, <1>0, <1>8, <2>1, <2>2, CheckOK, PlacesKept DEF PCs, Ensuring, VoteMined
    <3>2. CASE NotMined /\ CheckAgain("cast", Retry, 1)
      BY <3>2, <1>0, <1>8, <2>1, <2>2, CheckAgainOK, MiningOK, PlacesKept DEF PCs, Ensuring, VoteMined
    <3> QED
      BY <1>8, <3>1, <3>2 DEF VoteMined
  <2>4. RestOK'
    BY <1>0, <1>8, <2>1, <2>3, RestKept DEF VoteMined
  <2> QED
    BY <1>0, <2>1, <2>3, <2>4, ChainKeptType, TypeParts
<1>9. CASE Recheck
  <2>1. ChainKept /\ (Fault \/ NoFault)
    BY <1>9, Kept DEF Recheck
  <2>2. CallOK' /\ AutoOK'
    <3>1. CASE Return("ok")
      BY <3>1, <1>0, <1>9, <2>1, ReturnOK DEF Ensuring, Recheck
    <3>2. CASE Pause(1) \/ Pause(Cooldown)
      BY <3>2, <1>0, <1>9, <2>1, GoOK, PlacesKept, CooldownOK
         DEF PCs, Ensuring, Recheck, Pause, Loops, InAttempt
    <3> QED
      BY <1>9, <3>1, <3>2 DEF Recheck
  <2>3. RestOK'
    BY <1>0, <1>9, <2>1, RestKept DEF Recheck
  <2> QED
    BY <1>0, <2>1, <2>2, <2>3, ChainKeptType, TypeParts
<1> QED
  BY <1>1, <1>2, <1>3, <1>4, <1>5, <1>6, <1>7, <1>8, <1>9 DEF EnsureSteps


(***************************************************************************)
(* So does every step of autoInitialize.                                   *)
(***************************************************************************)
LEMMA CallKept ==
  ASSUME CallOK, ChainKept, UNCHANGED <<call, wait>>, settled' \in [Cids -> Values \cup {None}]
  PROVE  CallOK'
BY DEF CallOK, ChainKept, Places, call

LEMMA NextContractOK ==
  ASSUME AutoOK, k \in Contracts, NextContract, UNCHANGED <<pass, unresolved>>
  PROVE  AutoOK'
BY DEF AutoOK, NextContract, Contracts, PCs, Booting

LEMMA EntersOK ==
  ASSUME CallOK, AutoOK, ChainOK, ChainKept, NEW cid \in Cids, NEW val \in Values, Enters(cid, val),
         UNCHANGED wait
  PROVE  CallOK' /\ AutoOK'
<1>1. request' \in Asked /\ current' \in Values \cup {None}
  BY DEF Enters, Asked, Requests, ChainOK
<1>2. settled' \in [Cids -> Values \cup {None}]
  BY DEF Enters, CallOK
<1>3. at' \in Places'
  BY DEF Enters, CallOK, ChainKept, Places
<1>4. AutoOK'
  BY DEF Enters, AutoOK, auto, PCs, Ensuring
<1> QED
  BY <1>1, <1>2, <1>3, <1>4 DEF CallOK

LEMMA AutoTypes ==
  ASSUME Inv, AutoSteps
  PROVE  TypeOK' /\ ChainKept
<1> USE DEF Inv
<1>0. ChainOK /\ CallOK /\ AutoOK /\ RestOK /\ turn \in 0..(N - 1)
  BY TypeParts DEF RestOK
<1>s. settled \in [Cids -> Values \cup {None}]
  BY <1>0 DEF CallOK
<1>1. CASE Initialize
  <2>1. k \in Contracts /\ pass = "ensure"
    BY <1>1 DEF Initialize, Position
  <2>2. (IF k <= N THEN k ELSE N) \in Validators /\ k \in Nat
    BY <2>1 DEF Validators, Contracts
  <2>3. ChainKept /\ (Fault \/ NoFault) /\ (UNCHANGED mining \/ (answer' = "none" /\ receipt' = 0))
    <3>1. CASE Quiet /\ UNCHANGED mining
      BY <3>1, <1>1, Kept DEF Initialize
    <3>2. CASE NoFault /\ Sends(IF k <= N THEN k ELSE N, "init", k, NoRequest)
      BY <3>2, <2>2, SendsKept DEF Asked
    <3>3. CASE Fault /\ SendFails(IF k <= N THEN k ELSE N, "init", k, NoRequest)
      BY <3>3, <2>2, SendFailsKept DEF Asked
    <3> QED
      BY <1>1, <3>1, <3>2, <3>3 DEF Initialize
  <2>4. CallOK'
    BY <1>0, <1>1, <1>s, <2>3, CallKept DEF Initialize
  <2>5. AutoOK'
    <3>1. CASE NextContract
      BY <3>1, <1>0, <1>1, <2>1, NextContractOK DEF Initialize
    <3>2. CASE pc' \in {"initMined", "panic"} /\ k' = k
      BY <3>2, <1>0, <1>1 DEF Initialize, AutoOK, PCs, Booting, Idle
    <3> QED
      BY <1>1, <3>1, <3>2 DEF Initialize
  <2>6. RestOK'
    BY <1>0, <1>1, <2>3, RestKept DEF Initialize
  <2> QED
    BY <1>0, <2>3, <2>4, <2>5, <2>6, ChainKeptType, TypeParts
<1>2. CASE InitializeMined
  <2>1. k \in Contracts
    BY <1>2 DEF InitializeMined, Position
  <2>2. ChainKept /\ (Fault \/ NoFault)
    BY <1>2, MiningOK DEF InitializeMined
  <2>3. CallOK' /\ AutoOK'
    BY <1>0, <1>2, <1>s, <2>1, <2>2, CallKept, NextContractOK DEF InitializeMined
  <2>4. RestOK'
    BY <1>0, <1>2, <2>2, RestKept DEF InitializeMined
  <2> QED
    BY <1>0, <2>2, <2>3, <2>4, ChainKeptType, TypeParts
<1>3. CASE NextPass
  <2>1. ChainKept
    BY <1>3, Kept DEF NextPass
  <2>2. CallOK'
    BY <1>0, <1>3, <1>s, <2>1, CallKept DEF NextPass
  <2>3. AutoOK'
    BY <1>0, <1>3 DEF NextPass, AutoOK, PCs, Booting, Idle
  <2>4. RestOK'
    BY <1>0, <1>3, <2>1, RestKept DEF NextPass, NoFault
  <2> QED
    BY <1>0, <2>1, <2>2, <2>3, <2>4, ChainKeptType, TypeParts
<1>4. CASE EnsureTarget
  <2>1. ChainKept /\ k \in Cids /\ Target[k] \in Values
    <3>1. k \in Cids
      BY <1>4 DEF EnsureTarget, Position, Cids
    <3> QED
      BY <3>1, <1>4, Kept DEF EnsureTarget, Cids
  <2>2. CallOK' /\ AutoOK'
    <3>1. CASE Enters(k, Target[k])
      BY <3>1, <1>0, <1>4, <2>1, EntersOK DEF EnsureTarget
    <3>2. CASE Skip /\ UNCHANGED <<unresolved, settled>>
      <4>1. CallOK'
        BY <3>2, <1>0, <1>4, <1>s, <2>1, CallKept DEF EnsureTarget, Skip
      <4>2. AutoOK'
        BY <3>2, <1>0, <2>1 DEF Skip, AutoOK, Cids
      <4> QED
        BY <4>1, <4>2
    <3> QED
      BY <1>4, <3>1, <3>2 DEF EnsureTarget
  <2>3. RestOK'
    BY <1>0, <1>4, <2>1, RestKept DEF EnsureTarget
  <2> QED
    BY <1>0, <2>1, <2>2, <2>3, ChainKeptType, TypeParts
<1>5. CASE VerifyTarget
  <2>1. ChainKept /\ k \in Cids /\ Target[k] \in Values
    <3>1. k \in Cids
      BY <1>5 DEF VerifyTarget, Position, Cids
    <3> QED
      BY <3>1, <1>5, Kept DEF VerifyTarget, Cids
  <2>2. settled' \in [Cids -> Values \cup {None}] /\ (Fault \/ NoFault)
    BY <1>5, <1>s, <2>1 DEF VerifyTarget
  <2>3. CallOK'
    BY <1>0, <1>5, <2>1, <2>2, CallKept DEF VerifyTarget, Skip
  <2>4. AutoOK'
    <3>0. k + 1 \in 1..(Params + 1)
      BY <2>1 DEF Cids
    <3>1. unresolved' \in BOOLEAN
      BY <1>0, <1>5, Zenon DEF VerifyTarget, AutoOK
    <3>2. pc' = pc /\ pass' = pass /\ k' = k + 1
      BY <1>5 DEF VerifyTarget, Skip
    <3> QED
      BY <1>0, <3>0, <3>1, <3>2 DEF AutoOK
  <2>5. RestOK'
    BY <1>0, <1>5, <2>1, <2>2, RestKept DEF VerifyTarget
  <2> QED
    BY <1>0, <2>1, <2>3, <2>4, <2>5, ChainKeptType, TypeParts
<1> QED
  BY <1>1, <1>2, <1>3, <1>4, <1>5 DEF AutoSteps

(***************************************************************************)
(* And the steps that start, interrupt and end a process.                  *)
(***************************************************************************)
OtherSteps ==
  Start \/ NoWait \/ Exit \/ Die \/ \E cid \in Cids, val \in Values : Ask(cid, val)

LEMMA OtherTypes ==
  ASSUME Inv, OtherSteps
  PROVE  TypeOK' /\ ChainKept
<1> USE DEF Inv
<1>0. ChainOK /\ CallOK /\ AutoOK /\ RestOK /\ turn \in 0..(N - 1)
  BY TypeParts DEF RestOK
<1>s. settled \in [Cids -> Values \cup {None}]
  BY <1>0 DEF CallOK
<1>m. limits.faults \in Nat /\ limits.calls \in Nat
  BY <1>0, LimitsOK DEF RestOK
<1>1. CASE Start
  <2>1. ChainKept /\ (Fault \/ NoFault)
    BY <1>1, Kept DEF Start
  <2>2. CallOK'
    BY <1>0, <1>1, <1>s, <2>1, CallKept DEF Start
  <2>3. AutoOK'
    <3>1. pc' \in {"next", "init"}
      BY <1>1 DEF Start
    <3>2. pass' = "ensure" /\ k' = 1 /\ unresolved' = FALSE
      BY <1>1 DEF Start
    <3>3. unresolved' \in BOOLEAN
      BY <3>2, Zenon
    <3> QED
      BY <3>1, <3>2, <3>3 DEF AutoOK, PCs, Booting
  <2>4. turn' \in 0..(N - 1) /\ receipt' \in 0..Len(props') /\ answer' \in {"none", "ok", "reverted"}
    BY <1>0, <1>1, <2>1 DEF Start, RestOK, mining, ChainKept
  <2>5. limits' \in Limits /\ faults' \in 0..limits'.faults
    BY <1>0, <1>1, <1>m, <2>1 DEF Start, RestOK, Fault, NoFault
  <2>6. calls' \in 0..limits'.calls /\ starts' \in 0..MaxStarts
    BY <1>0, <1>1 DEF Start, RestOK
  <2> QED
    BY <1>0, <2>1, <2>2, <2>3, <2>4, <2>5, <2>6, ChainKeptType, TypeParts DEF RestOK
<1>2. CASE NoWait
  <2>1. ChainKept
    BY <1>2, Kept DEF NoWait
  <2>2. CallOK' /\ AutoOK'
    BY <1>0, <1>2, <2>1 DEF NoWait, CallOK, AutoOK, Places, auto, call, ChainKept
  <2>3. RestOK'
    BY <1>0, <1>2, <2>1, RestKept DEF NoWait
  <2> QED
    BY <1>0, <2>1, <2>2, <2>3, ChainKeptType, TypeParts
<1>3. CASE Exit \/ Die
  <2>1. ChainKept /\ Gone /\ (Fault \/ NoFault)
    BY <1>3, Kept DEF Exit, Die
  <2>2. Fresh \in Places'
    BY <1>0, <2>1, PlacesKept DEF ChainKept, Places
  <2>3. CallOK' /\ AutoOK'
    <3>1. CallOK'
      BY <1>0, <2>1, <2>2 DEF Gone, CallOK, Asked
    <3>2. AutoOK'
      <4>1. unresolved' \in BOOLEAN
        BY <2>1, Zenon DEF Gone
      <4> QED
        BY <4>1, <2>1 DEF Gone, AutoOK, PCs, Idle
    <3> QED
      BY <3>1, <3>2
  <2>4. RestOK'
    BY <1>0, <2>1, RestKept DEF Gone
  <2> QED
    BY <1>0, <2>1, <2>3, <2>4, ChainKeptType, TypeParts
<1>4. ASSUME NEW cid \in Cids, NEW val \in Values, Ask(cid, val)
      PROVE  TypeOK' /\ ChainKept
  <2>1. ChainKept
    BY <1>4, Kept DEF Ask
  <2>2. CallOK' /\ AutoOK'
    BY <1>0, <1>4, <2>1, EntersOK DEF Ask
  <2>3. receipt' \in 0..Len(props') /\ answer' \in {"none", "ok", "reverted"} /\ turn' \in 0..(N - 1)
    BY <1>0, <1>4, <2>1 DEF Ask, RestOK, mining, ChainKept
  <2>4. limits' \in Limits /\ faults' \in 0..limits'.faults /\ starts' \in 0..MaxStarts
    BY <1>0, <1>4 DEF Ask, RestOK
  <2>5. calls' \in 0..limits'.calls
    BY <1>0, <1>4, <1>m DEF Ask, RestOK
  <2> QED
    BY <1>0, <2>1, <2>2, <2>3, <2>4, <2>5, ChainKeptType, TypeParts DEF RestOK
<1> QED
  BY <1>1, <1>2, <1>3, <1>4 DEF OtherSteps

-----------------------------------------------------------------------------
(***************************************************************************)
(* What a block does.  Proposals are added and collect votes; what they    *)
(* ask for stays.                                                          *)
(***************************************************************************)
Grown ==
  /\ props' \in Seq(Proposal) /\ Len(props) \in Nat /\ Len(props') \in Nat
  /\ Len(props) <= Len(props')
  /\ \A i \in 1..Len(props) : props[i] \in Proposal /\ props'[i].asks = props[i].asks

LEMMA VoteCounted ==
  ASSUME props \in Seq(Proposal), NEW i \in 1..Len(props), NEW voters \in SUBSET Validators,
         NEW passed \in BOOLEAN,
         props' = [props EXCEPT ![i].voters = voters, ![i].passed = passed]
  PROVE  /\ Grown /\ Len(props') = Len(props)
         /\ props'[i] = [asks |-> props[i].asks, voters |-> voters, passed |-> passed]
         /\ \A j \in 1..Len(props) : j # i => props'[j] = props[j]
<1> DEFINE p == [asks |-> props[i].asks, voters |-> voters, passed |-> passed]
           f == [j \in 1..Len(props) |-> IF j = i THEN p ELSE props[j]]
<1>1. Len(props) \in Nat /\ props \in [1..Len(props) -> Proposal]
  OBVIOUS
<1>2. props[i] \in Proposal
  BY <1>1
<1>3. p \in Proposal
  BY <1>2 DEF Proposal
<1>4. [props[i] EXCEPT !.voters = voters] = [asks |-> props[i].asks, voters |-> voters, passed |-> props[i].passed]
  BY <1>2 DEF Proposal
<1>5. props' = f
  <2>1. props' = [j \in 1..Len(props) |-> props'[j]]
    BY <1>1
  <2>2. ASSUME NEW j \in 1..Len(props), j # i PROVE props'[j] = props[j]
    BY <1>1, <2>2
  <2>3. props'[i] = [[props[i] EXCEPT !.voters = voters] EXCEPT !.passed = passed]
    BY <1>1
  <2>4. props'[i] = p
    BY <1>4, <2>3
  <2>5. \A j \in 1..Len(props) : props'[j] = f[j]
    BY <2>2, <2>4
  <2> HIDE DEF f
  <2>6. f = [j \in 1..Len(props) |-> f[j]]
    BY DEF f
  <2> QED
    BY <2>1, <2>5, <2>6
<1>6. f \in [1..Len(props) -> Proposal]
  BY <1>1, <1>3
<1>7. props'[i] = p /\ \A j \in 1..Len(props) : j # i => props'[j] = props[j]
  BY <1>5
<1> HIDE DEF f, p
<1>8. props' \in Seq(Proposal) /\ Len(props') = Len(props)
  <2>1. f \in Seq(Proposal) /\ Len(f) = Len(props)
    BY <1>1, <1>6, FunctionIsSeq
  <2> QED
    BY <1>5, <2>1
<1>9. p.asks = props[i].asks
  BY DEF p
<1>10. \A j \in 1..Len(props) : props[j] \in Proposal /\ props'[j].asks = props[j].asks
  BY <1>1, <1>7, <1>9
<1>11. Grown
  <2>1. Len(props) \in Nat /\ Len(props') \in Nat /\ Len(props) <= Len(props')
    BY <1>1, <1>8
  <2> QED
    BY <2>1, <1>8, <1>10, Zenon DEF Grown
<1> QED
  BY <1>7, <1>8, <1>11 DEF p

LEMMA AgedOK ==
  ASSUME ChainOK, CallOK, NEW starting, Aged(starting)
  PROVE  age' \in [Validators -> Nat] /\ wait' \in Nat
<1>1. \A a \in Nat : Older(a) \in Nat
  BY DEF Older
<1>2. wait' \in Nat
  BY DEF Aged, CallOK
<1>3. age' \in [Validators -> Nat]
  BY <1>1 DEF Aged, ChainOK
<1> QED
  BY <1>2, <1>3

(***************************************************************************)
(* A transaction of v is taken into the next block, where it succeeds as   *)
(* an initialisation, a proposal or a vote, or reverts.                    *)
(***************************************************************************)
Block(v) == Mine(v) \/ Refuse(v)

LEMMA BlockFrame ==
  ASSUME Inv, NEW v \in Validators, Block(v)
  PROVE  /\ TookOut(v) /\ ~halted /\ TxOK(pool[v][1]) /\ (Fault \/ NoFault)
         /\ UNCHANGED <<active, halted, Process, counters>>
         /\ wait' = (IF wait > 0 THEN wait - 1 ELSE 0)
         /\ \/ Reverts(pool[v][1])
            \/ /\ NoFault /\ Succeeds(v, pool[v][1])
<1> USE DEF Inv
<1>1. TookOut(v)
  BY TakeOut DEF Block, Mine, Refuse
<1>2. Head(pool[v]) = pool[v][1] /\ 1 \in 1..Len(pool[v])
  BY <1>1 DEF TookOut
<1>3. TxOK(pool[v][1])
  BY <1>2, Zenon DEF PoolOK, Pooled
<1>4. Reverts(pool[v][1]) \/ (NoFault /\ Succeeds(v, pool[v][1]))
  BY <1>2, Zenon DEF Block, Mine, Refuse, NoFault
<1>5. wait' = (IF wait > 0 THEN wait - 1 ELSE 0)
  BY <1>4, Zenon DEF Reverts, Succeeds, Initialises, Proposes, VotesFor, Aged
<1>6. UNCHANGED <<active, halted, Process, counters>> /\ ~halted /\ (Fault \/ NoFault)
  BY DEF Block, Mine, Refuse, NoFault
<1> QED
  BY <1>1, <1>3, <1>4, <1>5, <1>6

LEMMA BlockTypes ==
  ASSUME Inv, NEW v \in Validators, Block(v)
  PROVE  TypeOK' /\ Grown
<1> USE DEF Inv
<1> DEFINE t == pool[v][1]
<1>0. ChainOK /\ CallOK /\ AutoOK /\ RestOK
  BY TypeParts
<1>1. /\ TookOut(v) /\ TxOK(t) /\ (Fault \/ NoFault)
      /\ UNCHANGED <<active, halted, Process, counters>>
      /\ (Reverts(t) \/ Succeeds(v, t))
  BY BlockFrame
<1>2. t \in Tx
  BY <1>1 DEF TookOut
<1> HIDE DEF t
<1>3. Len(props) \in Nat /\ \A i \in 1..Len(props) : props[i] \in Proposal
  BY <1>0 DEF ChainOK
<1>a. CASE /\ UNCHANGED <<value, props, receipt, settled>> /\ Aged({}) /\ inited' \subseteq Contracts
           /\ answer' \in {answer, "ok", "reverted"}
  <2>1. Grown
    BY <1>a, <1>0, <1>3 DEF Grown, ChainOK
  <2>2. ChainOK'
    BY <1>0, <1>1, <1>a, AgedOK DEF ChainOK, TookOut
  <2>3. CallOK' /\ AutoOK'
    BY <1>0, <1>1, <1>a, AgedOK DEF CallOK, AutoOK, Process, call, auto, Places
  <2>4. RestOK'
    <3>1. answer' \in {"none", "ok", "reverted"} /\ receipt' \in 0..Len(props') /\ turn' \in 0..(N - 1)
      BY <1>0, <1>1, <1>a DEF RestOK, Process
    <3> QED
      BY <3>1, <1>0, <1>1, CountersKept DEF RestOK
  <2> QED
    BY <2>1, <2>2, <2>3, <2>4, TypeParts
<1>b. CASE t.kind = "create" /\ Proposes(v, t) /\ answer' = IF t.own THEN "ok" ELSE answer
  <2> DEFINE p == [asks |-> t.asks, voters |-> {}, passed |-> FALSE]
  <2>1. p \in Proposal
    BY <1>1, <1>b DEF TxOK, Proposal
  <2>2. props' = Append(props, p)
    BY <1>b DEF Proposes
  <2> HIDE DEF p
  <2>3. props' \in Seq(Proposal) /\ Len(props') = Len(props) + 1
        /\ \A i \in 1..Len(props) : props'[i] = props[i]
    BY <1>0, <2>1, <2>2 DEF ChainOK
  <2>4. Grown
    BY <1>3, <2>3 DEF Grown
  <2>5. ChainOK'
    BY <1>0, <1>1, <1>b, <2>3, AgedOK DEF ChainOK, TookOut, Proposes
  <2>6. CallOK' /\ AutoOK'
    <3>1. at' \in Places'
      BY <1>0, <1>1, <1>3, <2>3 DEF CallOK, Places, Process, call
    <3> QED
      BY <3>1, <1>0, <1>1, <1>b, AgedOK DEF CallOK, AutoOK, Process, call, auto, Proposes
  <2>7. RestOK'
    <3>1. answer' \in {"none", "ok", "reverted"} /\ turn' \in 0..(N - 1)
      BY <1>0, <1>1, <1>b DEF RestOK, Process
    <3>2. receipt' \in 0..Len(props')
      BY <1>0, <1>b, <1>3, <2>3 DEF RestOK, Proposes
    <3> QED
      BY <3>1, <3>2, <1>0, <1>1, CountersKept DEF RestOK
  <2> QED
    BY <2>4, <2>5, <2>6, <2>7, TypeParts
<1>c. CASE t.kind = "vote" /\ VotesFor(v, t) /\ answer' = IF t.own THEN "ok" ELSE answer
  <2> DEFINE p == props[t.id]
             voters == p.voters \cup {v}
  <2>1. t.id \in 1..Len(props) /\ p \in Proposal
    BY <1>1, <1>3, <1>c DEF TxOK
  <2>2. voters \in SUBSET Validators /\ Majority(voters) \in BOOLEAN /\ p.asks.cid \in Cids
        /\ p.asks.val \in Values
    BY <2>1 DEF Proposal, Majority, Requests
  <2>3. /\ props' = [props EXCEPT ![t.id].voters = voters, ![t.id].passed = Majority(voters)]
        /\ value' = IF Majority(voters) THEN [value EXCEPT ![p.asks.cid] = p.asks.val] ELSE value
        /\ settled' \in {settled, [settled EXCEPT ![p.asks.cid] = None]}
        /\ Aged({}) /\ UNCHANGED <<inited, receipt>>
    BY <1>c DEF VotesFor
  <2> HIDE DEF p, voters
  <2>4. Grown /\ Len(props') = Len(props)
    BY <1>0, <2>1, <2>2, <2>3, VoteCounted DEF ChainOK
  <2>5. ChainOK'
    <3>1. value' \in [Cids -> Values]
      BY <1>0, <2>2, <2>3 DEF ChainOK
    <3> QED
      BY <3>1, <1>0, <1>1, <2>3, <2>4, AgedOK DEF ChainOK, TookOut, Grown
  <2>6. CallOK' /\ AutoOK'
    <3>1. settled' \in [Cids -> Values \cup {None}]
      BY <1>0, <2>2, <2>3 DEF CallOK
    <3> QED
      BY <3>1, <1>0, <1>1, <2>3, <2>4, AgedOK DEF CallOK, AutoOK, Process, call, auto, Places
  <2>7. RestOK'
    <3>1. answer' \in {"none", "ok", "reverted"} /\ turn' \in 0..(N - 1) /\ receipt' \in 0..Len(props')
      BY <1>0, <1>1, <1>c, <2>3, <2>4 DEF RestOK, Process
    <3> QED
      BY <3>1, <1>0, <1>1, CountersKept DEF RestOK
  <2> QED
    BY <2>4, <2>5, <2>6, <2>7, TypeParts
<1>d. CASE Reverts(t)
  BY <1>0, <1>d, <1>a DEF Reverts, ChainOK, contracts
<1>e. CASE t.kind = "init" /\ Initialises(t) /\ answer' = IF t.own THEN "ok" ELSE answer
  BY <1>0, <1>1, <1>e, <1>a DEF Initialises, ChainOK, TxOK
<1> QED
  BY <1>1, <1>b, <1>c, <1>d, <1>e DEF Succeeds

(***************************************************************************)
(* The steps of the chain that touch no transaction.                       *)
(***************************************************************************)
IdleChainSteps == Tick \/ Halt \/ \E v \in Validators : Jail(v)

LEMMA IdleChainTypes ==
  ASSUME TypeOK, IdleChainSteps
  PROVE  /\ TypeOK'
         /\ UNCHANGED <<contracts, pool, pc, auto, call, turn, mining, settled, counters>>
<1>0. ChainOK /\ CallOK /\ AutoOK /\ RestOK
  BY TypeParts
<1>1. CASE Tick
  <2>1. ChainOK'
    BY <1>0, <1>1, AgedOK DEF Tick, ChainOK, contracts
  <2>2. CallOK' /\ AutoOK'
    BY <1>0, <1>1, AgedOK DEF Tick, CallOK, AutoOK, contracts, Process, auto, call, Places
  <2>3. RestOK'
    BY <1>0, <1>1 DEF Tick, RestOK, contracts, Process, mining, counters
  <2> QED
    BY <1>1, <2>1, <2>2, <2>3, TypeParts DEF Tick, Process
<1>2. CASE Halt
  <2>1. ChainOK'
    BY <1>0, <1>2 DEF Halt, ChainOK, contracts
  <2>2. CallOK' /\ AutoOK'
    BY <1>0, <1>2 DEF Halt, CallOK, AutoOK, contracts, Process, auto, call, Places
  <2>3. RestOK'
    BY <1>0, <1>2, CountersKept DEF Halt, RestOK, contracts, Process, mining
  <2> QED
    BY <1>2, <2>1, <2>2, <2>3, TypeParts DEF Halt, Process
<1>3. ASSUME NEW v \in Validators, Jail(v)
      PROVE  /\ TypeOK'
             /\ UNCHANGED <<contracts, pool, pc, auto, call, turn, mining, settled, counters>>
  <2>1. ChainOK'
    BY <1>0, <1>3 DEF Jail, ChainOK, contracts
  <2>2. CallOK' /\ AutoOK'
    BY <1>0, <1>3 DEF Jail, CallOK, AutoOK, contracts, Process, auto, call, Places
  <2>3. RestOK'
    BY <1>0, <1>3, CountersKept DEF Jail, RestOK, contracts, Process, mining
  <2> QED
    BY <1>3, <2>1, <2>2, <2>3, TypeParts DEF Jail, Process
<1> QED
  BY <1>1, <1>2, <1>3 DEF IdleChainSteps

-----------------------------------------------------------------------------
(***************************************************************************)
(* The pool: what the process waits for is the one transaction that it has *)
(* sent last.                                                              *)
(***************************************************************************)
NoOwn == \A v \in Validators : \A i \in 1..Len(pool[v]) : ~pool[v][i].own

WaitingPCs == {"initMined", "createMined", "voteMined"}

LEMMA NoneOwned ==
  ASSUME PoolOK, pc \notin WaitingPCs \/ answer # "none"
  PROVE  NoOwn
BY Zenon DEF PoolOK, Pooled, TxOK, Awaited, NoOwn, WaitingPCs

LEMMA QuietPool ==
  ASSUME PoolOK, NoOwn, UNCHANGED <<pool, props>>
  PROVE  PoolOK' /\ OneOwn'
BY Zenon DEF PoolOK, Pooled, TxOK, NoOwn, OneOwn

LEMMA ReleasedPool ==
  ASSUME PoolOK, Released, UNCHANGED props
  PROVE  PoolOK' /\ OneOwn' /\ NoOwn'
<1>1. ASSUME NEW v \in Validators, NEW i \in 1..Len(pool'[v])
      PROVE  Pooled(v, i)' /\ ~pool'[v][i].own
  <2>1. i \in 1..Len(pool[v])
    BY <1>1 DEF Released
  <2>2. pool[v][i] \in Tx /\ pool'[v][i] = [pool[v][i] EXCEPT !.own = FALSE]
    BY <2>1 DEF Released
  <2>3. TxOK(pool[v][i])
    BY <2>1 DEF PoolOK, Pooled
  <2>4. pool'[v][i].kind = pool[v][i].kind /\ pool'[v][i].id = pool[v][i].id
        /\ pool'[v][i].asks = pool[v][i].asks /\ ~pool'[v][i].own
    BY <2>2, DisownedTx
  <2> QED
    BY <2>3, <2>4, Zenon DEF TxOK, Pooled
<1> QED
  BY <1>1, Zenon DEF PoolOK, OneOwn, NoOwn

LEMMA AddedPool ==
  ASSUME TypeOK, PoolOK, NoOwn, UNCHANGED props, NEW v \in Validators, NEW t \in Tx, Added(v, t),
         TxOK(t)'
  PROVE  PoolOK' /\ OneOwn'
<1>0. \A w \in Validators : Len(pool[w]) \in Nat
  BY DEF TypeOK
<1>1. ASSUME NEW w \in Validators, NEW i \in 1..Len(pool'[w])
      PROVE  /\ Pooled(w, i)'
             /\ pool'[w][i].own => w = v /\ i = Len(pool[v]) + 1
  <2>1. CASE w = v /\ i = Len(pool[v]) + 1
    BY <2>1, Zenon DEF Added, Pooled, TxOK, Awaited
  <2>2. CASE ~(w = v /\ i = Len(pool[v]) + 1)
    <3>1. i \in 1..Len(pool[w]) /\ pool'[w][i] = pool[w][i]
      BY <1>0, <2>2 DEF Added
    <3>2. TxOK(pool[w][i]) /\ ~pool[w][i].own
      BY <3>1, Zenon DEF PoolOK, Pooled, NoOwn
    <3> QED
      BY <3>1, <3>2, Zenon DEF TxOK, Pooled
  <2> QED
    BY <2>1, <2>2
<1>2. PoolOK'
  BY <1>1, Zenon DEF PoolOK
<1>3. OneOwn'
  BY <1>1, Zenon DEF OneOwn
<1> QED
  BY <1>2, <1>3

LEMMA SentPool ==
  ASSUME Inv, NoOwn, NEW v \in Validators, NEW kind \in {"init", "create", "vote"}, NEW id \in Nat,
         NEW asks \in Asked, Sends(v, kind, id, asks),
         kind = "init" => id \in Contracts /\ pc' = "initMined" /\ k' = id,
         kind = "create" => asks \in Requests /\ pc' = "createMined" /\ request' = asks,
         kind = "vote" => id \in 1..Len(props) /\ pc' = "voteMined" /\ at'.prop = id
  PROVE  PoolOK' /\ OneOwn'
<1> DEFINE t == [kind |-> kind, id |-> id, asks |-> asks, own |-> TRUE]
<1>1. t \in Tx
  BY DEF Tx
<1>2. Added(v, t) /\ answer' = "none" /\ UNCHANGED props
  BY SendsKept DEF Inv, ChainKept
<1>3. t.kind = kind /\ t.id = id /\ t.asks = asks
  OBVIOUS
<1> HIDE DEF t
<1>4. TxOK(t)'
  BY <1>2, <1>3 DEF TxOK, Awaited
<1> QED
  BY <1>1, <1>2, <1>4, AddedPool DEF Inv

LEMMA FailedPool ==
  ASSUME Inv, pc \notin WaitingPCs, NEW v \in Validators, NEW kind \in {"init", "create", "vote"},
         NEW id \in Nat, NEW asks \in Asked, SendFails(v, kind, id, asks),
         kind = "init" => id \in Contracts,
         kind = "create" => asks \in Requests,
         kind = "vote" => id \in 1..Len(props)
  PROVE  PoolOK' /\ OneOwn'
<1>0. PoolOK /\ NoOwn /\ TypeOK
  BY NoneOwned DEF Inv
<1> DEFINE t == [kind |-> kind, id |-> id, asks |-> asks, own |-> FALSE]
<1>1. t \in Tx
  BY DEF Tx
<1>2. (Quiet \/ Added(v, t)) /\ UNCHANGED props
  BY <1>0, SendFailsKept DEF ChainKept
<1>3. t.kind = kind /\ t.id = id /\ t.asks = asks /\ ~t.own
  OBVIOUS
<1> HIDE DEF t
<1>4. TxOK(t)'
  BY <1>2, <1>3 DEF TxOK
<1>5. CASE Quiet
  BY <1>0, <1>5, QuietPool DEF Quiet, chainVars, contracts
<1>6. CASE Added(v, t)
  BY <1>0, <1>1, <1>2, <1>4, <1>6, AddedPool
<1> QED
  BY <1>2, <1>5, <1>6

LEMMA QuietKeepsPool ==
  ASSUME Inv, Quiet, pc \notin WaitingPCs \/ answer # "none"
  PROVE  PoolOK' /\ OneOwn'
BY NoneOwned, QuietPool, Zenon DEF Inv, Quiet, chainVars, contracts

LEMMA DisownedKeepsPool ==
  ASSUME Inv, Disowned
  PROVE  PoolOK' /\ OneOwn' /\ NoOwn'
<1>1. UNCHANGED props
  BY DEF Disowned, contracts
<1> QED
  BY <1>1, Release, ReleasedPool DEF Inv

LEMMA MiningKeepsPool ==
  ASSUME Inv, Mined \/ NotMined
  PROVE  PoolOK' /\ OneOwn'
BY QuietKeepsPool, DisownedKeepsPool DEF Mined, NotMined

LEMMA ProcessPool ==
  ASSUME Inv, EnsureSteps \/ AutoSteps \/ OtherSteps
  PROVE  PoolOK' /\ OneOwn'
<1>0. TypeOK /\ PoolOK /\ OneOwn
  BY DEF Inv
<1>1. CASE Enter \/ Attempt \/ NoProposer \/ Vote \/ Recheck
  <2>1. Quiet /\ pc \notin WaitingPCs
    BY <1>1 DEF Enter, Attempt, NoProposer, Vote, Recheck, WaitingPCs
  <2> QED
    BY <2>1, QuietKeepsPool
<1>2. CASE Propose
  <2>1. NoOwn
    BY <1>0, <1>2, NoneOwned DEF Propose, WaitingPCs
  <2>2. CASE Quiet
    BY <1>2, <2>2, QuietKeepsPool DEF Propose, WaitingPCs
  <2>b. \/ Quiet
        \/ Sends(turn + 1, "create", 0, request) /\ Go("createMined", [at EXCEPT !.tried = @ + 1], 0)
        \/ SendFails(turn + 1, "create", 0, request)
    BY <1>2 DEF Propose
  <2>3. CASE Sends(turn + 1, "create", 0, request) /\ pc' = "createMined" /\ request' = request
    <3>1. turn + 1 \in Validators
      BY <1>0 DEF TypeOK, Validators
    <3>2. request \in Requests
      BY <1>2 DEF Inv, Position, Propose, Ensuring
    <3> QED
      BY <2>1, <2>3, <3>1, <3>2, SentPool DEF Asked
  <2>4. CASE SendFails(turn + 1, "create", 0, request)
    <3>1. turn + 1 \in Validators
      BY <1>0 DEF TypeOK, Validators
    <3>2. request \in Requests /\ pc \notin WaitingPCs
      BY <1>2 DEF Inv, Position, Propose, Ensuring, WaitingPCs
    <3> QED
      BY <2>4, <3>1, <3>2, FailedPool DEF Asked
  <2> QED
    BY <2>b, <2>2, <2>3, <2>4 DEF Go
<1>3. CASE CreateMined
  <2>1. CASE Mined \/ NotMined
    BY <2>1, MiningKeepsPool
  <2>2. CASE answer = "ok" /\ Quiet
    BY <2>2, QuietKeepsPool
  <2> QED
    BY <1>3, <2>1, <2>2 DEF CreateMined
<1>4. CASE Cast
  <2>1. NoOwn
    BY <1>0, <1>4, NoneOwned DEF Cast, WaitingPCs
  <2>2. CASE Quiet
    BY <1>4, <2>2, QuietKeepsPool DEF Cast, WaitingPCs
  <2>3. CASE Sends(at.voter, "vote", at.prop, NoRequest) /\ pc' = "voteMined" /\ at' = at
    <3>1. at.voter \in Validators /\ at.prop \in 0..Len(props) /\ at.prop > 0
      BY <1>0, <1>4 DEF Inv, TypeOK, Validators, Loops, Votes, Voting, Cast
    <3>2. at.prop \in 1..Len(props) /\ at.prop \in Nat
      BY <3>1
    <3> QED
      BY <2>1, <2>3, <3>1, <3>2, SentPool DEF Asked
  <2>4. CASE SendFails(at.voter, "vote", at.prop, NoRequest)
    <3>1. /\ at.voter \in Validators /\ at.prop \in 0..Len(props) /\ at.prop > 0
          /\ pc \notin WaitingPCs
      BY <1>0, <1>4 DEF Inv, TypeOK, Validators, Loops, Votes, Voting, Cast, WaitingPCs
    <3>2. at.prop \in 1..Len(props) /\ at.prop \in Nat
      BY <3>1
    <3> QED
      BY <2>4, <3>1, <3>2, FailedPool DEF Asked
  <2> QED
    BY <1>4, <2>2, <2>3, <2>4 DEF Cast, Go
<1>5. CASE VoteMined
  <2>1. CASE NotMined
    BY <2>1, MiningKeepsPool
  <2>2. CASE answer = "ok" /\ Quiet
    BY <2>2, QuietKeepsPool
  <2> QED
    BY <1>5, <2>1, <2>2 DEF VoteMined
<1>6. CASE Initialize
  <2>1. NoOwn
    BY <1>0, <1>6, NoneOwned DEF Initialize, WaitingPCs
  <2>2. CASE Quiet
    BY <1>6, <2>2, QuietKeepsPool DEF Initialize, WaitingPCs
  <2>3. CASE Sends(IF k <= N THEN k ELSE N, "init", k, NoRequest) /\ pc' = "initMined" /\ k' = k
    <3>1. k \in Contracts
      BY <1>6 DEF Inv, Position, Initialize
    <3>2. (IF k <= N THEN k ELSE N) \in Validators /\ k \in Nat
      BY <3>1 DEF Validators, Contracts
    <3> QED
      BY <2>1, <2>3, <3>1, <3>2, SentPool DEF Asked
  <2>4. CASE SendFails(IF k <= N THEN k ELSE N, "init", k, NoRequest)
    <3>1. k \in Contracts /\ pc \notin WaitingPCs
      BY <1>6 DEF Inv, Position, Initialize, WaitingPCs
    <3>2. (IF k <= N THEN k ELSE N) \in Validators /\ k \in Nat
      BY <3>1 DEF Validators, Contracts
    <3> QED
      BY <2>4, <3>1, <3>2, FailedPool DEF Asked
  <2> QED
    BY <1>6, <2>2, <2>3, <2>4 DEF Initialize
<1>7. CASE InitializeMined
  BY <1>7, MiningKeepsPool DEF InitializeMined
<1>8. CASE NextPass \/ EnsureTarget \/ VerifyTarget \/ Start \/ Exit
  <2>1. Quiet /\ pc \notin WaitingPCs
    BY <1>8 DEF NextPass, EnsureTarget, VerifyTarget, Start, Exit, WaitingPCs
  <2> QED
    BY <2>1, QuietKeepsPool
<1>9. ASSUME NEW cid \in Cids, NEW val \in Values, Ask(cid, val)
      PROVE  PoolOK' /\ OneOwn'
  BY <1>9, QuietKeepsPool DEF Ask, WaitingPCs
<1>10. CASE NoWait
  <2>1. /\ pool' = pool /\ props' = props /\ pc' = pc /\ answer' = answer /\ at' = at
        /\ k' = k /\ request' = request
    BY <1>10 DEF NoWait, Quiet, chainVars, contracts, auto, call, mining
  <2>2. \A v : \A i : Pooled(v, i)' <=> Pooled(v, i)
    BY <2>1 DEF Pooled, TxOK, Awaited
  <2> QED
    BY <2>1, <2>2, <1>0 DEF PoolOK, OneOwn
<1>11. CASE Die
  BY <1>11, DisownedKeepsPool DEF Die
<1> QED
  BY <1>1, <1>2, <1>3, <1>4, <1>5, <1>6, <1>7, <1>8, <1>9, <1>10, <1>11
     DEF EnsureSteps, AutoSteps, OtherSteps


(***************************************************************************)
(* What a block does to the rest of the invariant.                         *)
(***************************************************************************)
LEMMA ProcessKept ==
  ASSUME UNCHANGED Process
  PROVE  /\ pc' = pc /\ pass' = pass /\ k' = k /\ unresolved' = unresolved /\ turn' = turn
         /\ request' = request /\ current' = current /\ at' = at
BY DEF Process, auto, call

LEMMA PlaceKept ==
  ASSUME Position, Loops, UNCHANGED Process
  PROVE  Position' /\ Loops'
BY ProcessKept DEF Position, Loops

LEMMA BlockAnswers ==
  ASSUME Inv, NEW v \in Validators, Block(v)
  PROVE  /\ ~pool[v][1].own => answer' = answer /\ receipt' = receipt
         /\ pool[v][1].own => Awaited(pool[v][1]) /\ answer' \in {"ok", "reverted"}
         /\ answer' # answer => pool[v][1].own
<1>1. Reverts(pool[v][1]) \/ Succeeds(v, pool[v][1])
  BY BlockFrame
<1>2. TxOK(pool[v][1])
  BY BlockFrame
<1>3. /\ ~pool[v][1].own => answer' = answer
      /\ pool[v][1].own => answer' \in {"ok", "reverted"}
  BY <1>1 DEF Reverts, Succeeds
<1>4. ~pool[v][1].own => receipt' = receipt
  BY <1>1 DEF Reverts, Succeeds, Initialises, Proposes, VotesFor
<1> QED
  BY <1>2, <1>3, <1>4 DEF TxOK

LEMMA BlockPool ==
  ASSUME Inv, NEW v \in Validators, Block(v)
  PROVE  PoolOK' /\ OneOwn'
<1>a. TypeOK /\ PoolOK /\ OneOwn
  BY DEF Inv
<1>b. \A w \in Validators : Len(pool[w]) \in Nat
  BY <1>a DEF TypeOK
<1>0. PoolOK /\ OneOwn /\ \A w \in Validators : Len(pool[w]) \in Nat
  BY <1>a, <1>b
<1>1. TookOut(v) /\ UNCHANGED Process
  BY BlockFrame
<1>2. Grown
  BY BlockTypes
<1> DEFINE before(w, i) == IF w = v THEN i + 1 ELSE i
<1>3. ASSUME NEW w \in Validators, NEW i \in 1..Len(pool'[w])
      PROVE  /\ before(w, i) \in 1..Len(pool[w]) /\ pool'[w][i] = pool[w][before(w, i)]
             /\ ~(w = v /\ before(w, i) = 1)
  <2>1. CASE w = v
    <3>1. i + 1 \in 1..Len(pool[v]) /\ pool'[v][i] = pool[v][i + 1]
      BY <1>1, <2>1 DEF TookOut
    <3>2. i + 1 # 1
      OBVIOUS
    <3> QED
      BY <2>1, <3>1, <3>2
  <2>2. CASE w # v
    BY <1>0, <1>1, <2>2 DEF TookOut
  <2> QED
    BY <2>1, <2>2
<1>4. ASSUME NEW w \in Validators, NEW i \in 1..Len(pool'[w])
      PROVE  Pooled(w, i)'
  <2>1. PICK j : /\ j \in 1..Len(pool[w]) /\ pool'[w][i] = pool[w][j] /\ ~(w = v /\ j = 1)
    BY <1>3
  <2>2. PICK u : u = pool[w][j]
    OBVIOUS
  <2>3. TxOK(u)
    BY <1>0, <2>1, <2>2 DEF PoolOK, Pooled
  <2>4. u.own => ~pool[v][1].own
    <3>1. 1 \in 1..Len(pool[v])
      BY <1>1 DEF TookOut
    <3> QED
      BY <1>0, <2>1, <2>2, <3>1 DEF OneOwn
  <2>5. u.own => Awaited(u) /\ answer' = answer
    BY <2>3, <2>4, BlockAnswers DEF TxOK
  <2>6. u.kind = "vote" => u.id \in 1..Len(props')
    BY <1>2, <2>3 DEF TxOK, Grown
  <2>7. pc' = pc /\ k' = k /\ request' = request /\ at' = at
    BY <1>1, ProcessKept
  <2>8. u.own => Awaited(u)'
    BY <2>5, <2>7 DEF Awaited
  <2>9. TxOK(u)'
    BY <2>3, <2>6, <2>8, Zenon DEF TxOK
  <2>10. pool'[w][i] = u
    BY <2>1, <2>2
  <2> QED
    BY <2>9, <2>10 DEF Pooled, TxOK, Awaited
<1>5. OneOwn'
  <2> SUFFICES ASSUME NEW u \in Validators, NEW w \in Validators,
                      NEW i \in 1..Len(pool'[u]), NEW j \in 1..Len(pool'[w]),
                      pool'[u][i].own, pool'[w][j].own
               PROVE  u = w /\ i = j
    BY DEF OneOwn
  <2>a. PICK a : a = before(u, i)
    OBVIOUS
  <2>b. PICK b : b = before(w, j)
    OBVIOUS
  <2>c. /\ a \in 1..Len(pool[u]) /\ pool'[u][i] = pool[u][a]
        /\ b \in 1..Len(pool[w]) /\ pool'[w][j] = pool[w][b]
    BY <1>3, <2>a, <2>b
  <2>1. u = w /\ before(u, i) = before(w, j)
    BY <1>0, <2>a, <2>b, <2>c DEF OneOwn
  <2> QED
    BY <1>0, <1>1, <2>1 DEF TookOut
<1> QED
  BY <1>4, <1>5 DEF PoolOK

LEMMA BlockVotes ==
  ASSUME Inv, NEW v \in Validators, Block(v)
  PROVE  Votes'
<1> DEFINE t == pool[v][1]
<1>0. TypeOK /\ Votes /\ Position
  BY DEF Inv
<1>1. pc' = pc /\ request' = request /\ at' = at
  BY BlockFrame, ProcessKept
<1>2. Grown
  BY BlockTypes
<1>3. Reverts(t) \/ Succeeds(v, t)
  BY BlockFrame
<1>4. /\ ~t.own => answer' = answer /\ receipt' = receipt
      /\ t.own => Awaited(t)
  BY BlockAnswers
<1>5. at.prop \in 0..Len(props) /\ receipt \in 0..Len(props)
  BY <1>0 DEF TypeOK
<1> HIDE DEF t
<1>6. ASSUME pc' \in Voting
      PROVE  at'.prop > 0 /\ props'[at'.prop].asks = request'
  <2>1. at.prop \in 1..Len(props) /\ props[at.prop].asks = request
    BY <1>0, <1>1, <1>5, <1>6 DEF Votes
  <2> QED
    BY <1>1, <1>2, <2>1 DEF Grown
<1>7. ASSUME pc' = "createMined", answer' = "ok"
      PROVE  receipt' > 0 /\ props'[receipt'].asks = request'
  <2>1. CASE t.own
    <3>1. t.kind = "create" /\ t.asks = request
      BY <1>1, <1>4, <1>7, <2>1 DEF Awaited
    <3>2. Proposes(v, t)
      BY <1>3, <1>7, <2>1, <3>1 DEF Reverts, Succeeds
    <3>3. receipt' = Len(props) + 1 /\ props' = Append(props, [asks |-> t.asks, voters |-> {}, passed |-> FALSE])
      BY <2>1, <3>2 DEF Proposes
    <3>4. props'[Len(props) + 1].asks = t.asks
      BY <1>0, <3>3 DEF TypeOK
    <3> QED
      BY <1>1, <1>2, <3>1, <3>3, <3>4 DEF Grown
  <2>2. CASE ~t.own
    <3>1. receipt \in 1..Len(props) /\ props[receipt].asks = request /\ receipt' = receipt
      BY <1>0, <1>1, <1>4, <1>5, <1>7, <2>2 DEF Votes
    <3> QED
      BY <1>1, <1>2, <3>1 DEF Grown
  <2> QED
    BY <2>1, <2>2
<1> QED
  BY <1>6, <1>7 DEF Votes

LEMMA BlockSettled ==
  ASSUME Inv, NEW v \in Validators, Block(v)
  PROVE  Asking' /\ EnsuredStays'
<1> DEFINE t == pool[v][1]
<1>0. TypeOK /\ Position /\ Votes /\ Asking /\ EnsuredStays
  BY DEF Inv
<1>1. pc' = pc /\ request' = request /\ current' = current
  BY BlockFrame, ProcessKept
<1>2. Reverts(t) \/ Succeeds(v, t)
  BY BlockFrame
<1>3. t.own => Awaited(t)
  BY BlockAnswers
<1>4. TxOK(t)
  BY BlockFrame
<1>5. (Returning' <=> Returning) /\ (pc \in Ensuring => request.cid \in Cids)
  <2>1. pc \in Ensuring => request.cid \in Cids
    BY <1>0 DEF Position, Requests
  <2> QED
    BY <1>1, <2>1 DEF Returning
<1> HIDE DEF t
<1>6. CASE UNCHANGED <<value, settled>>
  BY <1>0, <1>1, <1>5, <1>6 DEF Asking, EnsuredStays
<1>7. CASE t.kind = "vote" /\ VotesFor(v, t)
  <2> DEFINE p == props[t.id]
  <2>1. t.id \in 1..Len(props) /\ p \in Proposal
    BY <1>0, <1>4, <1>7 DEF TxOK, TypeOK
  <2>2. p.asks \in Requests /\ p.asks.cid \in Cids /\ p.asks.val \in Values
    BY <2>1 DEF Proposal, Requests
  <2>3. /\ value' \in {value, [value EXCEPT ![p.asks.cid] = p.asks.val]}
        /\ settled' = IF t.own \/ settled[p.asks.cid] = value'[p.asks.cid] THEN settled
                      ELSE [settled EXCEPT ![p.asks.cid] = None]
    BY <1>7 DEF VotesFor
  <2>4. t.own => p.asks = request /\ settled[request.cid] = None
    <3>1. ASSUME t.own PROVE pc = "voteMined" /\ t.id = at.prop
      BY <1>3, <1>7, <3>1 DEF Awaited
    <3>2. ASSUME t.own PROVE props[at.prop].asks = request /\ pc \in Ensuring /\ ~Returning
      BY <1>0, <3>1, <3>2 DEF Votes, Voting, Ensuring, Returning
    <3> QED
      BY <1>0, <3>1, <3>2 DEF Asking
  <2> HIDE DEF p
  <2>5. value \in [Cids -> Values] /\ settled \in [Cids -> Values \cup {None}]
    BY <1>0 DEF TypeOK
  <2>6. Asking'
    BY <1>0, <1>1, <1>5, <2>2, <2>3, <2>5 DEF Asking
  <2>7. EnsuredStays'
    BY <1>0, <2>2, <2>3, <2>4, <2>5 DEF EnsuredStays
  <2> QED
    BY <2>6, <2>7
<1> QED
  BY <1>2, <1>6, <1>7 DEF Reverts, Succeeds, Initialises, Proposes, contracts

(***************************************************************************)
(* A block, and any other step of the chain, keeps the invariant.          *)
(***************************************************************************)
ChainSteps == (\E v \in Validators : Block(v)) \/ IdleChainSteps

LEMMA ChainInv ==
  ASSUME Inv, ChainSteps
  PROVE  Inv'
<1>1. ASSUME NEW v \in Validators, Block(v)
      PROVE  Inv'
  <2>1. TypeOK' /\ PoolOK' /\ OneOwn' /\ Votes' /\ Asking' /\ EnsuredStays'
    BY <1>1, BlockTypes, BlockPool, BlockVotes, BlockSettled
  <2>2. Position' /\ Loops'
    BY <1>1, BlockFrame, PlaceKept DEF Inv
  <2> QED
    BY <2>1, <2>2 DEF Inv
<1>2. CASE IdleChainSteps
  <2>1. TypeOK' /\ UNCHANGED <<contracts, pool, pc, auto, call, turn, mining, settled, counters>>
    BY <1>2, IdleChainTypes DEF Inv
  <2>2. Position' /\ Loops'
    BY <2>1, PlaceKept DEF Inv, Process
  <2>3. /\ pc' = pc /\ request' = request /\ current' = current /\ at' = at /\ k' = k
        /\ value' = value /\ props' = props /\ pool' = pool
        /\ answer' = answer /\ receipt' = receipt /\ settled' = settled
    BY <2>1 DEF contracts, auto, call, mining
  <2>4. \A v : \A i : Pooled(v, i)' <=> Pooled(v, i)
    BY <2>3 DEF Pooled, TxOK, Awaited
  <2>5. PoolOK' /\ OneOwn'
    BY <2>3, <2>4 DEF Inv, PoolOK, OneOwn
  <2>6. Votes' /\ Asking' /\ EnsuredStays'
    BY <2>3 DEF Inv, Votes, Asking, Returning, EnsuredStays
  <2> QED
    BY <2>1, <2>2, <2>5, <2>6 DEF Inv
<1> QED
  BY <1>1, <1>2 DEF ChainSteps

-----------------------------------------------------------------------------
(***************************************************************************)
(* The steps of the process: where they go, and what they settle.          *)
(***************************************************************************)
Rest == Position /\ Loops /\ Votes /\ Asking /\ EnsuredStays

LEMMA LeaveKeeps ==
  ASSUME Inv, pc \in Ensuring, Leave, EnsuredStays'
  PROVE  Rest'
<1>1. pc' \notin Ensuring /\ pc' \notin Voting /\ pc' \notin InAttempt /\ pc' # "createMined"
      /\ request' = NoRequest /\ pass' = pass
      /\ (IF pass = "user" THEN pc' = "idle" ELSE pc' = "next" /\ k' = k + 1)
  BY DEF Leave, Ensuring, Voting, InAttempt
<1>2. pass # "verify" /\ (pass # "user" => k \in Cids) /\ pass \in {"ensure", "reconcile", "verify", "user"}
  BY DEF Inv, Position, Ensuring, TypeOK
<1>3. Position'
  BY <1>1, <1>2 DEF Position, Cids
<1>4. Loops' /\ Votes' /\ Asking'
  BY <1>1 DEF Loops, Votes, Asking, InAttempt
<1> QED
  BY <1>3, <1>4 DEF Rest

LEMMA ReturnKeeps ==
  ASSUME Inv, pc \in Ensuring, NEW result, Return(result), result = "ok" => Holds, UNCHANGED value
  PROVE  Rest'
<1>1. request.cid \in Cids
  BY DEF Inv, Position, Requests
<1>2. EnsuredStays'
  BY <1>1 DEF Inv, TypeOK, Return, Holds, EnsuredStays
<1> QED
  BY <1>2, LeaveKeeps DEF Return

\* what a step that goes on has to show
Going(there, where) ==
  /\ there \in InAttempt => where.attempt < Attempts
  /\ there \in {"cast", "voteMined"} => where.voter <= N
  /\ there = "voteMined" => where.retry < Retries
  /\ there \in Voting => where.prop > 0 /\ props[where.prop].asks = request
  /\ there = "createMined" => answer' # "ok"

LEMMA GoKeeps ==
  ASSUME Inv, pc \in Ensuring, ~Returning, UNCHANGED <<value, props>>,
         NEW there \in Ensuring \ {"enter"}, NEW where, NEW blocks,
         Go(there, where, blocks), Going(there, where)
  PROVE  Rest'
<1>1. /\ pc' = there /\ at' = where /\ request' = request /\ pass' = pass /\ k' = k
      /\ settled' = settled /\ value' = value /\ props' = props /\ current' = current
  BY DEF Go, auto
<1>2. Position'
  BY <1>1 DEF Inv, Position, Ensuring
<1>3. Loops' /\ Votes'
  BY <1>1, Zenon DEF Loops, Votes, Going
<1>4. Asking' /\ EnsuredStays'
  BY <1>1 DEF Inv, Asking, EnsuredStays
<1> QED
  BY <1>2, <1>3, <1>4 DEF Rest

LEMMA CheckKeeps ==
  ASSUME Inv, pc \in Ensuring, ~Returning, UNCHANGED <<value, props>>,
         NEW there \in Ensuring \ {"enter"}, NEW where, NEW blocks,
         Check(there, where) \/ CheckAgain(there, where, blocks), Going(there, where)
  PROVE  Rest'
BY ReturnKeeps, GoKeeps DEF Check, CheckAgain

LEMMA EnsureRest ==
  ASSUME Inv, EnsureSteps
  PROVE  Rest'
<1>0. TypeOK /\ Position /\ Loops /\ Votes
  BY DEF Inv
<1>1. UNCHANGED <<value, props>>
  BY EnsureTypes DEF ChainKept
<1>t. /\ at \in Places /\ receipt \in 0..Len(props)
      /\ at.attempt \in 0..Attempts /\ at.voter \in 1..(N + 1) /\ at.prop \in 0..Len(props)
      /\ at.retry \in 0..Retries /\ at.tried \in 0..N
  BY <1>0 DEF TypeOK, Places
<1>a. /\ \A n : LET w == [at EXCEPT !.tried = n]
                IN w.attempt = at.attempt /\ w.voter = at.voter /\ w.retry = at.retry /\ w.prop = at.prop
      /\ \A n : LET w == [at EXCEPT !.voter = 1, !.prop = n]
                IN w.attempt = at.attempt /\ w.prop = n
      /\ NextVoter.attempt = at.attempt /\ NextVoter.prop = at.prop
      /\ Retry.attempt = at.attempt /\ Retry.voter = at.voter /\ Retry.prop = at.prop
  BY <1>t DEF Places, NextVoter, Retry
<1>2. CASE Enter
  <2>1. CASE Leave /\ UNCHANGED settled
    BY <2>1, <1>1, <1>2, LeaveKeeps DEF Enter, Inv, EnsuredStays, Ensuring
  <2>2. CASE current # request.val /\ Go("attempt", Fresh, 0)
    BY <2>2, <1>1, <1>2, GoKeeps DEF Enter, Ensuring, Returning, Going, InAttempt, Voting
  <2> QED
    BY <1>2, <2>1, <2>2 DEF Enter
<1>3. CASE Attempt
  <2>1. pc \in Ensuring /\ ~Returning
    BY <1>3 DEF Attempt, Ensuring, Returning
  <2>2. CASE Return("error")
    BY <2>1, <2>2, <1>1, ReturnKeeps
  <2>3. CASE at.attempt < Attempts /\ Check("propose", [at EXCEPT !.tried = 0])
    <3>1. Going("propose", [at EXCEPT !.tried = 0])
      BY <1>a, <2>3 DEF Going, Voting
    <3> QED
      BY <2>1, <2>3, <3>1, <1>1, CheckKeeps DEF Ensuring
  <2> QED
    BY <1>3, <2>2, <2>3 DEF Attempt
<1>4. ASSUME NEW blocks, NoProposer \/ Recheck, Pause(blocks) PROVE Rest'
  <2>1. pc \in Ensuring /\ ~Returning
    BY <1>4 DEF NoProposer, Recheck, Ensuring, Returning
  <2>2. Going("attempt", [Fresh EXCEPT !.attempt = at.attempt + 1])
    BY DEF Going, Voting, InAttempt
  <2> QED
    BY <1>4, <2>1, <2>2, <1>1, GoKeeps DEF Pause, Ensuring
<1>5. CASE Propose
  <2>1. pc \in Ensuring /\ ~Returning
    BY <1>5 DEF Propose, Ensuring, Returning
  <2> DEFINE there == [at EXCEPT !.tried = @ + 1]
  <2>2. Going("propose", there)
    BY <1>0, <1>5, <1>a DEF Going, Voting, Propose, Loops, InAttempt
  <2>3. Sends(turn + 1, "create", 0, request) => Going("createMined", there)
    BY <1>0, <1>5, <1>a DEF Going, Voting, Propose, Loops, InAttempt, Sends
  <2> HIDE DEF there
  <2>4. \/ Go("propose", there, 0)
        \/ CheckAgain("propose", there, 1)
        \/ Sends(turn + 1, "create", 0, request) /\ Go("createMined", there, 0)
    BY <1>5 DEF Propose, there
  <2>5. "propose" \in Ensuring \ {"enter"} /\ "createMined" \in Ensuring \ {"enter"}
    BY DEF Ensuring
  <2> QED
    BY <2>1, <2>2, <2>3, <2>4, <2>5, <1>1, GoKeeps, CheckKeeps
<1>6. CASE CreateMined
  <2>1. pc \in Ensuring /\ ~Returning
    BY <1>6 DEF CreateMined, Ensuring, Returning
  <2>2. Going("propose", at)
    BY <1>0, <1>6 DEF Going, Voting, CreateMined, Loops, InAttempt
  <2>3. answer = "ok" => Going("vote", [at EXCEPT !.voter = 1, !.prop = receipt])
    BY <1>0, <1>6, <1>a, <1>t DEF Going, Voting, CreateMined, Loops, InAttempt, Votes
  <2>4. \/ answer = "ok" /\ Go("vote", [at EXCEPT !.voter = 1, !.prop = receipt], 0)
        \/ Go("propose", at, 1)
        \/ CheckAgain("propose", at, 1)
    BY <1>6 DEF CreateMined, Mined
  <2>5. "propose" \in Ensuring \ {"enter"} /\ "vote" \in Ensuring \ {"enter"}
    BY DEF Ensuring
  <2> QED
    BY <2>1, <2>2, <2>3, <2>4, <2>5, <1>1, GoKeeps, CheckKeeps
<1>7. CASE Vote
  <2>1. pc \in Ensuring /\ ~Returning
    BY <1>7 DEF Vote, Ensuring, Returning
  <2>2. at.voter \in Eligible => at.voter <= N
    <3>1. Eligible \subseteq Validators
      BY <1>0 DEF Eligible, TypeOK
    <3>2. ASSUME at.voter \in Validators PROVE at.voter <= N
      BY <3>2 DEF Validators
    <3> QED
      BY <3>1, <3>2
  <2>3. Going("recheck", at) /\ Going("vote", at) /\ Going("vote", NextVoter)
    BY <1>0, <1>7, <1>a DEF Going, Voting, Vote, Loops, InAttempt, Votes
  <2>4. at.voter <= N => Going("cast", at)
    BY <1>0, <1>7 DEF Going, Voting, Vote, Loops, InAttempt, Votes
  <2>5. \/ Go("recheck", at, 0)
        \/ Holds /\ Return("ok")
        \/ at.voter <= N /\ Go("cast", at, 0)
        \/ Go("vote", at, 0)
        \/ Go("vote", NextVoter, 0)
    BY <1>7, <2>2 DEF Vote
  <2>6. {"recheck", "cast", "vote"} \subseteq Ensuring \ {"enter"}
    BY DEF Ensuring
  <2> QED
    BY <2>1, <2>3, <2>4, <2>5, <2>6, <1>1, GoKeeps, ReturnKeeps
<1>8. CASE Cast
  <2>1. pc \in Ensuring /\ ~Returning
    BY <1>8 DEF Cast, Ensuring, Returning
  <2>2. Going("vote", NextVoter) /\ Going("cast", Retry) /\ (at.retry < Retries => Going("voteMined", at))
    BY <1>0, <1>8, <1>a DEF Going, Voting, Cast, Loops, InAttempt, Votes
  <2>3. \/ Go("vote", NextVoter, 0)
        \/ at.retry < Retries /\ Go("voteMined", at, 0)
        \/ Go("cast", Retry, 1)
        \/ CheckAgain("vote", NextVoter, 0)
    BY <1>8 DEF Cast
  <2>4. {"voteMined", "cast", "vote"} \subseteq Ensuring \ {"enter"}
    BY DEF Ensuring
  <2> QED
    BY <2>1, <2>2, <2>3, <2>4, <1>1, GoKeeps, CheckKeeps
<1>9. CASE VoteMined
  <2>1. pc \in Ensuring /\ ~Returning
    BY <1>9 DEF VoteMined, Ensuring, Returning
  <2>2. Going("vote", NextVoter) /\ Going("cast", Retry)
    BY <1>0, <1>9, <1>a DEF Going, Voting, VoteMined, Loops, InAttempt, Votes
  <2>3. Check("vote", NextVoter) \/ CheckAgain("cast", Retry, 1)
    BY <1>9 DEF VoteMined
  <2>4. {"cast", "vote"} \subseteq Ensuring \ {"enter"}
    BY DEF Ensuring
  <2> QED
    BY <2>1, <2>2, <2>3, <2>4, <1>1, CheckKeeps
<1>10. CASE Recheck /\ Holds /\ Return("ok")
  BY <1>1, <1>10, ReturnKeeps DEF Recheck, Ensuring
<1>11. NoProposer \/ Recheck => (\E b : Pause(b)) \/ (Recheck /\ Holds /\ Return("ok"))
  BY DEF NoProposer, Recheck
<1> QED
  BY <1>2, <1>3, <1>4, <1>5, <1>6, <1>7, <1>8, <1>9, <1>10, <1>11 DEF EnsureSteps

LEMMA EntersKeeps ==
  ASSUME Inv, NEW cid \in Cids, NEW val \in Values, Enters(cid, val), UNCHANGED value,
         pass # "verify", pass # "user" => k \in Cids
  PROVE  Rest'
<1>1. /\ pc' = "enter" /\ request' = [cid |-> cid, val |-> val] /\ current' = value[cid]
      /\ pass' = pass /\ k' = k
      /\ settled' = [settled EXCEPT ![cid] = IF value[cid] = val THEN val ELSE None]
  BY DEF Enters, auto
<1>2. settled \in [Cids -> Values \cup {None}]
  BY DEF Inv, TypeOK
<1>3. Position' /\ Loops' /\ Votes'
  BY <1>1 DEF Position, Loops, Votes, InAttempt, Voting, Ensuring, Requests
<1>4. Asking'
  BY <1>1, <1>2 DEF Asking, Returning
<1>5. EnsuredStays'
  BY <1>1, <1>2 DEF Inv, EnsuredStays
<1> QED
  BY <1>3, <1>4, <1>5 DEF Rest

LEMMA OutsideKeeps ==
  ASSUME Inv, pc' \notin Ensuring, request' = NoRequest, EnsuredStays', Position'
  PROVE  Rest'
BY DEF Rest, Loops, Votes, Asking, InAttempt, Voting, Ensuring

LEMMA AutoRest ==
  ASSUME Inv, AutoSteps
  PROVE  Rest'
<1>0. TypeOK /\ Position
  BY DEF Inv
<1>1. UNCHANGED <<value, props>>
  BY AutoTypes DEF ChainKept
<1>2. pc \notin Ensuring /\ request = NoRequest
  BY <1>0 DEF AutoSteps, Initialize, InitializeMined, NextPass, EnsureTarget, VerifyTarget, Position, Ensuring
<1>3. CASE Initialize \/ InitializeMined
  <2>1. pass' = "ensure" /\ k \in Contracts /\ request' = NoRequest /\ settled' = settled
    BY <1>0, <1>2, <1>3 DEF Initialize, InitializeMined, Position, call
  <2>2. (pc' \in {"initMined", "panic"} /\ k' = k) \/ NextContract
    BY <1>3 DEF Initialize, InitializeMined
  <2>3. Position' /\ pc' \notin Ensuring
    BY <2>1, <2>2 DEF NextContract, Position, Contracts, Ensuring
  <2> QED
    BY <1>1, <2>1, <2>3, OutsideKeeps DEF Inv, EnsuredStays
<1>4. CASE NextPass
  <2>1. request' = NoRequest /\ settled' = settled
    BY <1>2, <1>4 DEF NextPass, call
  <2>2. Position' /\ pc' \notin Ensuring
    BY <1>0, <1>4, <2>1 DEF NextPass, Position, Ensuring
  <2> QED
    BY <1>1, <2>1, <2>2, OutsideKeeps DEF Inv, EnsuredStays
<1>5. CASE EnsureTarget \/ VerifyTarget
  <2>1. k \in Cids /\ pc = "next" /\ pass # "user" /\ Target[k] \in Values
    <3>1. k \in Cids /\ pc = "next" /\ pass # "user"
      BY <1>0, <1>5 DEF EnsureTarget, VerifyTarget, Position, Cids
    <3> QED
      BY <3>1 DEF Cids
  <2>2. CASE Enters(k, Target[k]) /\ pass # "verify"
    BY <1>1, <2>1, <2>2, EntersKeeps
  <2>3. CASE Skip /\ (settled' = settled \/ (value[k] = Target[k] /\ settled' = [settled EXCEPT ![k] = Target[k]]))
    <3>1. request' = NoRequest /\ pc' = "next" /\ pass' = pass /\ k' = k + 1
      BY <1>2, <2>1, <2>3 DEF Skip, call
    <3>2. Position' /\ pc' \notin Ensuring
      BY <2>1, <3>1 DEF Position, Ensuring, Cids
    <3>3. settled \in [Cids -> Values \cup {None}]
      BY <1>0 DEF TypeOK
    <3>4. EnsuredStays'
      BY <1>1, <2>1, <2>3, <3>3 DEF Inv, EnsuredStays
    <3> QED
      BY <3>1, <3>2, <3>4, OutsideKeeps
  <2> QED
    BY <1>5, <2>2, <2>3 DEF EnsureTarget, VerifyTarget
<1> QED
  BY <1>3, <1>4, <1>5 DEF AutoSteps

LEMMA OtherRest ==
  ASSUME Inv, OtherSteps
  PROVE  Rest'
<1>0. TypeOK /\ Position
  BY DEF Inv
<1>1. UNCHANGED <<value, props>>
  BY OtherTypes DEF ChainKept
<1>2. CASE Start
  <2>1. request' = NoRequest /\ settled' = settled /\ pc' \in {"next", "init"} /\ pass' = "ensure" /\ k' = 1
    BY <1>0, <1>2 DEF Start, Position, Ensuring, call
  <2>2. Position' /\ pc' \notin Ensuring
    BY <2>1 DEF Position, Ensuring, Contracts
  <2> QED
    BY <1>1, <2>1, <2>2, OutsideKeeps DEF Inv, EnsuredStays
<1>3. CASE NoWait
  <2>1. /\ pc' = pc /\ pass' = pass /\ k' = k /\ request' = request /\ current' = current
        /\ at' = at /\ settled' = settled /\ answer' = answer /\ receipt' = receipt
        /\ value' = value /\ props' = props
    BY <1>1, <1>3 DEF NoWait, auto, call, mining
  <2> QED
    BY <2>1 DEF Inv, Rest, Position, Loops, Votes, Asking, Returning, EnsuredStays
<1>4. CASE Exit \/ Die
  <2>1. request' = NoRequest /\ settled' = settled /\ pc' = "off" /\ pass' = "ensure" /\ k' = 1
    BY <1>4 DEF Exit, Die, Gone
  <2>2. Position' /\ pc' \notin Ensuring
    BY <2>1 DEF Position, Ensuring
  <2> QED
    BY <1>1, <2>1, <2>2, OutsideKeeps DEF Inv, EnsuredStays
<1>5. ASSUME NEW cid \in Cids, NEW val \in Values, Ask(cid, val)
      PROVE  Rest'
  <2>1. pass = "user"
    BY <1>0, <1>5 DEF Ask, Position
  <2> QED
    BY <1>1, <1>5, <2>1, EntersKeeps DEF Ask
<1> QED
  BY <1>2, <1>3, <1>4, <1>5 DEF OtherSteps

(***************************************************************************)
(* The invariant is inductive.                                             *)
(***************************************************************************)
LEMMA NextParts == Next => EnsureSteps \/ AutoSteps \/ OtherSteps \/ ChainSteps
BY Zenon DEF Next, Steps, OtherSteps, ChainSteps, IdleChainSteps, Block

LEMMA InvStep ==
  ASSUME Inv, Next
  PROVE  Inv'
<1>1. CASE EnsureSteps
  BY <1>1, EnsureTypes, ProcessPool, EnsureRest DEF Inv, Rest
<1>2. CASE AutoSteps
  BY <1>2, AutoTypes, ProcessPool, AutoRest DEF Inv, Rest
<1>3. CASE OtherSteps
  BY <1>3, OtherTypes, ProcessPool, OtherRest DEF Inv, Rest
<1>4. CASE ChainSteps
  BY <1>4, ChainInv
<1> QED
  BY <1>1, <1>2, <1>3, <1>4, NextParts

LEMMA InvStutter ==
  ASSUME Inv, UNCHANGED vars
  PROVE  Inv'
<1>1. /\ value' = value /\ props' = props /\ inited' = inited /\ active' = active /\ age' = age
      /\ pool' = pool /\ halted' = halted /\ pc' = pc /\ pass' = pass /\ k' = k
      /\ unresolved' = unresolved /\ request' = request /\ current' = current /\ at' = at
      /\ turn' = turn /\ wait' = wait /\ answer' = answer /\ receipt' = receipt
      /\ settled' = settled /\ faults' = faults /\ calls' = calls /\ starts' = starts /\ limits' = limits
  BY DEF vars, chainVars, contracts, auto, call, mining, counters
<1>2. TypeOK'
  BY <1>1 DEF Inv, TypeOK
<1>3. \A v : \A i : Pooled(v, i)' <=> Pooled(v, i)
  BY <1>1 DEF Pooled, TxOK, Awaited
<1>4. PoolOK' /\ OneOwn'
  BY <1>1, <1>3 DEF Inv, PoolOK, OneOwn
<1>5. Position' /\ Loops' /\ Votes' /\ Asking' /\ EnsuredStays'
  BY <1>1 DEF Inv, Position, Loops, Votes, Asking, Returning, EnsuredStays
<1> QED
  BY <1>2, <1>4, <1>5 DEF Inv

LEMMA InvInit == Init => Inv
<1> SUFFICES ASSUME Init PROVE Inv
  OBVIOUS
<1>1. pool = [v \in Validators |-> <<>>] /\ \A v \in Validators : Len(pool[v]) = 0
  BY DEF Init
<1>2. PoolOK /\ OneOwn
  BY <1>1 DEF PoolOK, OneOwn
<1>3. Position /\ Loops /\ Votes /\ Asking /\ EnsuredStays
  BY DEF Init, Position, Loops, Votes, Asking, EnsuredStays, InAttempt, Voting, Ensuring
<1>4. ChainOK
  <2>1. pool \in [Validators -> Seq(Tx)] /\ props \in Seq(Proposal)
    BY <1>1 DEF Init
  <2>2. age \in [Validators -> Nat]
    <3>1. limits \in Limits /\ age = [v \in Validators |-> limits.ages]
      BY DEF Init
    <3> QED
      BY <3>1, LimitsOK
  <2>3. value \in [Cids -> Values]
    BY DEF Init, Cids
  <2> QED
    BY <2>1, <2>2, <2>3 DEF Init, ChainOK
<1>5. CallOK
  BY DEF Init, CallOK, Places, Fresh, Asked, Cids
<1>6. AutoOK
  <2>1. unresolved \in BOOLEAN
    BY Zenon DEF Init
  <2> QED
    BY <2>1 DEF Init, AutoOK, PCs, Idle
<1>7. RestOK
  <2>1. limits \in Limits /\ limits.faults \in Nat /\ limits.calls \in Nat
    BY LimitsOK DEF Init
  <2> QED
    BY <2>1 DEF Init, RestOK
<1> QED
  BY <1>2, <1>3, <1>4, <1>5, <1>6, <1>7, TypeParts DEF Inv

(***************************************************************************)
(* The bookkeeping of EnsureConfig and autoInitialize is consistent for    *)
(* any number of validators, parameters, attempts, retries and faults.     *)
(***************************************************************************)
THEOREM Correct == Spec => []Inv
<1>1. Inv /\ [Next]_vars => Inv'
  BY InvStep, InvStutter
<1> QED
  BY <1>1, InvInit, PTL DEF Spec

(* The state of autoInitialize and EnsureConfig keeps its type: attempts,  *)
(* proposers tried, voters and retries stay within their bounds.           *)
THEOREM TypeCorrect == Spec => []TypeOK
<1>1. Inv => TypeOK
  BY DEF Inv
<1> QED
  BY <1>1, Correct, PTL

(* A value that a call of EnsureConfig has succeeded with stays until      *)
(* somebody asks for another one or a late vote changes it: no vote that   *)
(* the call itself has waited for is still to come.                        *)
THEOREM EnsuredValuesStay == Spec => []EnsuredStays
<1>1. Inv => EnsuredStays
  BY DEF Inv
<1> QED
  BY <1>1, Correct, PTL

-----------------------------------------------------------------------------
(***************************************************************************)
(* The three loops of autoInitialize: which steps take part in them.       *)
(***************************************************************************)
LEMMA BlockEffects ==
  ASSUME Inv, NEW v \in Validators, Block(v)
  PROVE  /\ inited \subseteq inited'
         /\ \A c \in Cids : settled'[c] \in {settled[c], None}
<1>1. Reverts(pool[v][1]) \/ Succeeds(v, pool[v][1])
  BY BlockFrame
<1>2. settled \in [Cids -> Values \cup {None}]
  BY DEF Inv, TypeOK
<1>3. inited \subseteq inited'
  BY <1>1 DEF Reverts, Succeeds, Initialises, Proposes, VotesFor, contracts
<1>4. ASSUME NEW c \in Cids PROVE settled'[c] \in {settled[c], None}
  <2>1. CASE settled' = settled
    BY <2>1
  <2>2. CASE VotesFor(v, pool[v][1])
    BY <1>2, <2>2 DEF VotesFor
  <2> QED
    BY <1>1, <2>1, <2>2 DEF Reverts, Succeeds, Initialises, Proposes
<1> QED
  BY <1>3, <1>4

LEMMA PassKept ==
  ASSUME Inv, [Next]_vars, ~NextPass, ~VerifyTarget
  PROVE  /\ pass' = "verify" => /\ pass = "verify" /\ k' = k /\ unresolved' = unresolved
                                /\ \A c \in Cids : settled'[c] \in {settled[c], None}
         /\ pass' = "user" => pass = "user" /\ (pc = "failed" => pc' = "failed")
         /\ inited \subseteq inited'
<1>0. Position
  BY DEF Inv
<1>1. CASE EnsureSteps
  <2>1. pass # "verify" /\ pc # "failed"
    BY <1>0, <1>1 DEF EnsureSteps, Enter, Attempt, NoProposer, Propose, CreateMined, Vote, Cast,
                      VoteMined, Recheck, Position
  <2>2. pass' = pass
    BY <1>1 DEF EnsureSteps, Enter, Attempt, NoProposer, Propose, CreateMined, Vote, Cast,
                VoteMined, Recheck, Pause, Go, Check, CheckAgain, Return, Leave, auto
  <2>3. inited' = inited
    BY <1>1, EnsureTypes DEF ChainKept
  <2> QED
    BY <2>1, <2>2, <2>3
<1>2. CASE AutoSteps
  <2>1. inited' = inited
    BY <1>2, AutoTypes DEF ChainKept
  <2>2. pass' = pass /\ pass # "verify" /\ pc # "failed"
    BY <1>0, <1>2 DEF AutoSteps, Initialize, InitializeMined, EnsureTarget, Skip, Enters, auto, Position
  <2> QED
    BY <2>1, <2>2
<1>3. CASE OtherSteps
  <2>1. inited' = inited
    BY <1>3, OtherTypes DEF ChainKept
  <2>2. CASE Start \/ Exit \/ Die
    BY <2>1, <2>2 DEF Start, Exit, Die, Gone
  <2>3. CASE NoWait
    BY <2>1, <2>3 DEF NoWait, auto
  <2>4. ASSUME NEW cid \in Cids, NEW val \in Values, Ask(cid, val)
        PROVE  pass' = pass /\ pass = "user" /\ pc # "failed"
    BY <1>0, <2>4 DEF Ask, Enters, auto, Position
  <2> QED
    BY <1>3, <2>1, <2>2, <2>3, <2>4 DEF OtherSteps
<1>4. ASSUME NEW v \in Validators, Block(v)
      PROVE  /\ pass' = pass /\ k' = k /\ pc' = pc /\ unresolved' = unresolved
             /\ \A c \in Cids : settled'[c] \in {settled[c], None}
             /\ inited \subseteq inited'
  BY <1>4, BlockFrame, BlockEffects, ProcessKept
<1>5. CASE IdleChainSteps
  BY <1>5, IdleChainTypes DEF Inv, contracts, auto
<1>6. CASE UNCHANGED vars
  BY <1>6 DEF vars, chainVars, contracts, auto
<1> QED
  BY <1>1, <1>2, <1>3, <1>4, <1>5, <1>6, NextParts DEF ChainSteps

(***************************************************************************)
(* A parameter differs from its default only once a proposal was made.     *)
(***************************************************************************)
LEMMA TouchedStep ==
  ASSUME Inv, Touched, [Next]_vars
  PROVE  Touched'
<1>1. CASE EnsureSteps \/ AutoSteps \/ OtherSteps
  <2>1. ChainKept
    BY <1>1, EnsureTypes, AutoTypes, OtherTypes
  <2> QED
    BY <2>1 DEF ChainKept, Touched
<1>2. ASSUME NEW v \in Validators, Block(v)
      PROVE  Touched'
  <2> DEFINE t == pool[v][1]
  <2>1. Reverts(t) \/ Succeeds(v, t)
    BY <1>2, BlockFrame
  <2>2. Grown /\ TxOK(t)
    BY <1>2, BlockTypes, BlockFrame
  <2>3. props \in Seq(Proposal)
    BY DEF Inv, TypeOK
  <2>4. inited \subseteq inited'
    BY <1>2, BlockEffects
  <2> HIDE DEF t
  <2>5. CASE UNCHANGED <<value, props>>
    BY <2>4, <2>5 DEF Touched
  <2>6. CASE t.kind = "create" /\ Accepted(v, t) /\ Proposes(v, t)
    <3>1. 1 \in inited /\ v \in Eligible
      BY <2>6 DEF Accepted
    <3>2. {1, 3} \subseteq inited
      BY <3>1 DEF Eligible
    <3>3. props' # <<>>
      BY <2>3, <2>6 DEF Proposes
    <3> QED
      BY <2>4, <3>2, <3>3 DEF Touched
  <2>7. CASE t.kind = "vote" /\ VotesFor(v, t)
    <3>1. props # <<>> /\ props' # <<>>
      BY <2>2, <2>3, <2>7 DEF TxOK, Grown
    <3> QED
      BY <2>4, <3>1 DEF Touched
  <2> QED
    BY <2>1, <2>5, <2>6, <2>7 DEF Reverts, Succeeds, Initialises, contracts
<1>3. CASE IdleChainSteps
  BY <1>3, IdleChainTypes DEF Inv, contracts, Touched
<1>4. CASE UNCHANGED vars
  BY <1>4 DEF vars, chainVars, contracts, Touched
<1> QED
  BY <1>1, <1>2, <1>3, <1>4, NextParts DEF ChainSteps

LEMMA CheckedTouchedStep ==
  ASSUME Inv, Touched, CheckedTouched, [Next]_vars
  PROVE  CheckedTouched'
<1>1. CASE ~NextPass /\ ~VerifyTarget
  BY <1>1, PassKept DEF CheckedTouched
<1>2. CASE NextPass
  <2>1. inited' = inited /\ unresolved' = unresolved /\ k > Params /\ k \in Nat
    BY <1>2 DEF NextPass, Quiet, chainVars, contracts, Inv, TypeOK, Contracts
  <2>2. \A c \in Cids : c < k
    BY <2>1 DEF Cids
  <2>3. CASE pass' = "reconcile"
    BY <2>3 DEF CheckedTouched
  <2>4. CASE pass' = "verify" /\ k' = 1
    BY <2>4 DEF CheckedTouched, Cids
  <2>5. CASE pass = "verify" /\ pass' = "user" /\ pc' = (IF unresolved THEN "failed" ELSE "idle")
    BY <2>1, <2>2, <2>5 DEF CheckedTouched
  <2> QED
    BY <1>2, <2>3, <2>4, <2>5 DEF NextPass
<1>3. CASE VerifyTarget
  <2>1. /\ inited' = inited /\ pass = "verify" /\ pass' = "verify" /\ k' = k + 1 /\ k \in Cids
        /\ ~unresolved' => ~unresolved /\ value[k] = Target[k]
    BY <1>3 DEF VerifyTarget, Skip, Quiet, chainVars, contracts, Inv, Position, Cids
  <2>2. ASSUME ~unresolved', Target[k] # Default[k]
        PROVE  {1, 3} \subseteq inited
    BY <2>1, <2>2 DEF Touched
  <2>3. \A c \in Cids : c < k + 1 => c < k \/ c = k
    BY <2>1 DEF Cids
  <2> QED
    BY <2>1, <2>2, <2>3 DEF CheckedTouched
<1> QED
  BY <1>1, <1>2, <1>3

(***************************************************************************)
(* What autoInitialize has verified was there when it looked, and only a   *)
(* late vote has changed it since.                                         *)
(***************************************************************************)
LEMMA CheckedStep ==
  ASSUME Inv, Checked, [Next]_vars
  PROVE  Checked'
<1>1. CASE ~NextPass /\ ~VerifyTarget
  BY <1>1, PassKept DEF Checked
<1>2. CASE NextPass
  BY <1>2 DEF NextPass, Checked, Cids
<1>3. CASE VerifyTarget
  <2>1. /\ pass = "verify" /\ pass' = "verify" /\ k' = k + 1 /\ k \in Cids
        /\ ~unresolved' => ~unresolved /\ settled' = [settled EXCEPT ![k] = Target[k]]
    BY <1>3 DEF VerifyTarget, Skip, Inv, Position, Cids
  <2>2. settled \in [Cids -> Values \cup {None}]
    BY DEF Inv, TypeOK
  <2>3. \A c \in Cids : c < k + 1 => c < k \/ c = k
    BY <2>1 DEF Cids
  <2> QED
    BY <2>1, <2>2, <2>3 DEF Checked
<1> QED
  BY <1>1, <1>2, <1>3

(* autoInitialize succeeds only when every parameter has its target, read  *)
(* one after the other, unless a late vote has changed one since.          *)
THEOREM SuccessVerified == Spec => Verified
<1> DEFINE VInv == Inv /\ Checked
           Sound == pass = "verify" /\ pass' = "user" /\ pc' = "idle" =>
                      \A c \in Cids : value[c] = Target[c] \/ settled[c] = None
<1>1. Init => VInv
  BY InvInit DEF Init, Checked
<1>2. VInv /\ [Next]_vars => VInv'
  BY InvStep, InvStutter, CheckedStep
<1>3. VInv /\ [Next]_vars => [Sound]_vars
  <2> SUFFICES ASSUME Inv, Checked, [Next]_vars, pass = "verify", pass' = "user", pc' = "idle",
                      NEW c \in Cids
               PROVE  value[c] = Target[c] \/ settled[c] = None
    OBVIOUS
  <2>1. NextPass /\ ~unresolved
    <3>1. NextPass \/ VerifyTarget
      BY PassKept
    <3> QED
      BY <3>1 DEF NextPass, VerifyTarget, Skip
  <2>2. c < k
    BY <2>1 DEF NextPass, Inv, TypeOK, Contracts, Cids
  <2>3. settled[c] \in {Target[c], None}
    BY <2>1, <2>2 DEF Checked
  <2> QED
    BY <2>3 DEF Inv, EnsuredStays
<1>4. [][Sound]_vars => Verified
  BY PTL DEF Verified
<1> QED
  BY <1>1, <1>2, <1>3, <1>4, PTL DEF Spec

-----------------------------------------------------------------------------
(***************************************************************************)
(* EnsureConfig is the write of ConfigStore.  First the writes that are    *)
(* owed: what the votes in the pool ask for that nobody waits for.         *)
(***************************************************************************)
Owes(v, i, w) ==
  pool[v][i].kind = "vote" /\ ~pool[v][i].own /\ w = props[pool[v][i].id].asks

LEMMA OwedIs ==
  ASSUME pool \in [Validators -> Seq(Tx)]
  PROVE  \A w : w \in Owed <=> \E v \in Validators : \E i \in 1..Len(pool[v]) : Owes(v, i, w)
<1>1. \A v \in Validators : DOMAIN pool[v] = 1..Len(pool[v])
  OBVIOUS
<1>2. \A t : t \in Left <=> \E v \in Validators : \E i \in 1..Len(pool[v]) : t = pool[v][i]
  BY <1>1 DEF Left
<1>3. \A w : w \in Owed <=> \E t \in Left : t.kind = "vote" /\ ~t.own /\ w = props[t.id].asks
  BY DEF Owed
<1>4. ASSUME NEW w, w \in Owed PROVE \E v \in Validators : \E i \in 1..Len(pool[v]) : Owes(v, i, w)
  <2>1. PICK t \in Left : t.kind = "vote" /\ ~t.own /\ w = props[t.id].asks
    BY <1>3, <1>4
  <2>2. PICK v \in Validators : \E i \in 1..Len(pool[v]) : t = pool[v][i]
    BY <1>2
  <2> QED
    BY <2>1, <2>2 DEF Owes
<1>5. ASSUME NEW w, NEW v \in Validators, NEW i \in 1..Len(pool[v]), Owes(v, i, w) PROVE w \in Owed
  BY <1>2, <1>3, <1>5 DEF Owes
<1> QED
  BY <1>4, <1>5

LEMMA OwedIsNext ==
  ASSUME pool' \in [Validators -> Seq(Tx)]
  PROVE  \A w : w \in Owed' <=> \E v \in Validators : \E i \in 1..Len(pool'[v]) : Owes(v, i, w)'
<1>1. \A v \in Validators : DOMAIN pool'[v] = 1..Len(pool'[v])
  OBVIOUS
<1>2. \A t : t \in Left' <=> \E v \in Validators : \E i \in 1..Len(pool'[v]) : t = pool'[v][i]
  BY <1>1 DEF Left
<1>3. \A w : w \in Owed' <=> \E t \in Left' : t.kind = "vote" /\ ~t.own /\ w = props'[t.id].asks
  BY DEF Owed
<1>4. ASSUME NEW w, w \in Owed'
      PROVE  \E v \in Validators : \E i \in 1..Len(pool'[v]) : Owes(v, i, w)'
  <2>1. PICK t \in Left' : t.kind = "vote" /\ ~t.own /\ w = props'[t.id].asks
    BY <1>3, <1>4
  <2>2. PICK v \in Validators : \E i \in 1..Len(pool'[v]) : t = pool'[v][i]
    BY <1>2
  <2> QED
    BY <2>1, <2>2 DEF Owes
<1>5. ASSUME NEW w, NEW v \in Validators, NEW i \in 1..Len(pool'[v]), Owes(v, i, w)'
      PROVE  w \in Owed'
  BY <1>2, <1>3, <1>5 DEF Owes
<1> QED
  BY <1>4, <1>5

LEMMA OwedQuiet ==
  ASSUME UNCHANGED <<pool, props>>
  PROVE  Owed' = Owed
<1>1. pool' = pool /\ props' = props
  OBVIOUS
<1> QED
  BY <1>1 DEF Owed, Left

LEMMA OwedSends ==
  ASSUME TypeOK, NEW v \in Validators, NEW t, Added(v, t), t.own \/ t.kind # "vote", UNCHANGED props
  PROVE  Owed' = Owed
<1>0. pool \in [Validators -> Seq(Tx)] /\ pool' \in [Validators -> Seq(Tx)]
  BY DEF TypeOK, Added
<1>1. \A u \in Validators : Len(pool[u]) \in Nat
  BY <1>0
<1>2. ASSUME NEW u \in Validators, NEW i \in 1..Len(pool[u]), NEW w
      PROVE  i \in 1..Len(pool'[u]) /\ (Owes(u, i, w)' <=> Owes(u, i, w))
  <2>1. i \in 1..Len(pool'[u]) /\ pool'[u][i] = pool[u][i]
    BY <1>1 DEF Added
  <2> QED
    BY <2>1 DEF Owes
<1>3. ASSUME NEW u \in Validators, NEW i \in 1..Len(pool'[u]), NEW w, Owes(u, i, w)'
      PROVE  i \in 1..Len(pool[u])
  <2>1. ~(u = v /\ i = Len(pool[v]) + 1)
    BY <1>3 DEF Owes, Added
  <2> QED
    BY <1>1, <2>1 DEF Added
<1>4. \A w : w \in Owed' <=> w \in Owed
  BY <1>0, <1>2, <1>3, OwedIs, OwedIsNext
<1> QED
  BY <1>4

LEMMA OwedSlips ==
  ASSUME TypeOK, NEW v \in Validators, NEW t, Added(v, t), ~t.own, t.kind = "vote", UNCHANGED props
  PROVE  Owed' = Owed \cup {props[t.id].asks}
<1>0. pool \in [Validators -> Seq(Tx)] /\ pool' \in [Validators -> Seq(Tx)]
  BY DEF TypeOK, Added
<1>1. \A u \in Validators : Len(pool[u]) \in Nat
  BY <1>0
<1>2. ASSUME NEW u \in Validators, NEW i \in 1..Len(pool[u]), NEW w
      PROVE  i \in 1..Len(pool'[u]) /\ (Owes(u, i, w)' <=> Owes(u, i, w))
  <2>1. i \in 1..Len(pool'[u]) /\ pool'[u][i] = pool[u][i]
    <3>1. CASE u # v
      BY <3>1 DEF Added
    <3>2. CASE u = v
      BY <1>1, <3>2 DEF Added
    <3> QED
      BY <3>1, <3>2
  <2> QED
    BY <2>1 DEF Owes
<1>3. ASSUME NEW u \in Validators, NEW i \in 1..Len(pool'[u]), NEW w, Owes(u, i, w)'
      PROVE  i \in 1..Len(pool[u]) \/ w = props[t.id].asks
  <2>1. CASE u = v /\ i = Len(pool[v]) + 1
    BY <1>3, <2>1 DEF Owes, Added
  <2>2. CASE ~(u = v /\ i = Len(pool[v]) + 1)
    BY <1>1, <2>2 DEF Added
  <2> QED
    BY <2>1, <2>2
<1>4. PICK n : n = Len(pool[v]) + 1
  OBVIOUS
<1>6. n \in 1..Len(pool'[v]) /\ pool'[v][n] = t
  BY <1>1, <1>4 DEF Added
<1>7. Owes(v, n, props[t.id].asks)'
  BY <1>6 DEF Owes
<1>5. \A w : w \in Owed' <=> w \in Owed \/ w = props[t.id].asks
  BY <1>0, <1>2, <1>3, <1>6, <1>7, OwedIs, OwedIsNext
<1> QED
  BY <1>5

LEMMA OwedDisowned ==
  ASSUME Inv, Disowned
  PROVE  /\ pc # "voteMined" => Owed' = Owed
         /\ pc = "voteMined" => Owed' \in {Owed, Owed \cup {request}}
<1>0. pool \in [Validators -> Seq(Tx)] /\ pool' \in [Validators -> Seq(Tx)] /\ Released /\ props' = props
  BY Release DEF Inv, TypeOK, Released, Disowned, contracts
<1>1. ASSUME NEW u \in Validators, NEW i \in 1..Len(pool[u]), NEW w
      PROVE  Owes(u, i, w)' <=> pool[u][i].kind = "vote" /\ w = props[pool[u][i].id].asks
  <2>1. pool'[u][i].kind = pool[u][i].kind /\ pool'[u][i].id = pool[u][i].id /\ ~pool'[u][i].own
    <3>1. pool[u][i] \in Tx /\ pool'[u][i] = [pool[u][i] EXCEPT !.own = FALSE]
      BY <1>0 DEF Released
    <3> QED
      BY <3>1, DisownedTx
  <2> QED
    BY <1>0, <2>1 DEF Owes
<1>2. \A u \in Validators : 1..Len(pool'[u]) = 1..Len(pool[u])
  BY <1>0 DEF Released
<1>3. ASSUME NEW w, w \in Owed
      PROVE  w \in Owed'
  <2>1. PICK u \in Validators : \E i \in 1..Len(pool[u]) : Owes(u, i, w)
    BY <1>0, <1>3, OwedIs
  <2>2. PICK i \in 1..Len(pool[u]) : Owes(u, i, w)
    BY <2>1
  <2>3. Owes(u, i, w)'
    BY <1>1, <2>2 DEF Owes
  <2>4. i \in 1..Len(pool'[u])
    BY <1>2
  <2> QED
    BY <1>0, <2>3, <2>4, OwedIsNext
<1>4. ASSUME NEW w, w \in Owed', w \notin Owed
      PROVE  pc = "voteMined" /\ w = request
  <2>1. PICK u \in Validators : \E i \in 1..Len(pool'[u]) : Owes(u, i, w)'
    BY <1>0, <1>4, OwedIsNext
  <2>2. PICK i \in 1..Len(pool'[u]) : Owes(u, i, w)'
    BY <2>1
  <2>3. i \in 1..Len(pool[u])
    BY <1>2
  <2>4. pool[u][i].kind = "vote" /\ w = props[pool[u][i].id].asks
    BY <1>1, <2>2, <2>3
  <2>5. pool[u][i].own
    BY <1>0, <1>4, <2>3, <2>4, OwedIs DEF Owes
  <2>6. Awaited(pool[u][i])
    BY <2>3, <2>5, Zenon DEF Inv, PoolOK, Pooled, TxOK
  <2>7. pc = "voteMined" /\ pool[u][i].id = at.prop
    BY <2>4, <2>6 DEF Awaited
  <2> QED
    BY <2>4, <2>7 DEF Inv, Votes, Voting
<1>5. ASSUME pc # "voteMined" PROVE Owed' = Owed
  BY <1>3, <1>4, <1>5
<1>6. ASSUME pc = "voteMined" PROVE Owed' = Owed \/ Owed' = Owed \cup {request}
  <2>1. \A w : w \in Owed => w \in Owed'
    BY <1>3
  <2>2. \A w : w \in Owed' => w \in Owed \/ w = request
    BY <1>4
  <2>3. CASE request \in Owed'
    <3>1. Owed' = Owed \cup {request}
      BY <2>1, <2>2, <2>3
    <3> QED
      BY <3>1
  <2>4. CASE request \notin Owed'
    <3>1. Owed' = Owed
      BY <2>1, <2>2, <2>4
    <3> QED
      BY <3>1
  <2> QED
    BY <2>3, <2>4
<1> QED
  BY <1>5, <1>6

LEMMA OwedBlock ==
  ASSUME Inv, NEW v \in Validators, Block(v)
  PROVE  LET t == pool[v][1]
         IN /\ t.kind = "vote" /\ ~t.own =>
                 /\ props[t.id].asks \in Owed
                 /\ Owed' \in {Owed, Owed \ {props[t.id].asks}}
            /\ ~(t.kind = "vote" /\ ~t.own) => Owed' = Owed
<1>0. pool \in [Validators -> Seq(Tx)] /\ TookOut(v) /\ Grown
  BY BlockFrame, BlockTypes DEF Inv, TypeOK
<1>a. pool' \in [Validators -> Seq(Tx)] /\ \A u \in Validators : Len(pool[u]) \in Nat
  BY <1>0 DEF TookOut
<1>1. ASSUME NEW u \in Validators, NEW i \in 1..Len(pool[u]), NEW w
      PROVE  Owes(u, i, w) <=> /\ pool[u][i].kind = "vote" /\ ~pool[u][i].own
                               /\ w = props'[pool[u][i].id].asks
  <2>1. pool[u][i].kind = "vote" => pool[u][i].id \in 1..Len(props)
    BY Zenon DEF Inv, PoolOK, Pooled, TxOK
  <2>2. pool[u][i].kind = "vote" => props'[pool[u][i].id].asks = props[pool[u][i].id].asks
    BY <1>0, <2>1 DEF Grown
  <2> QED
    BY <2>2 DEF Owes
<1>2. ASSUME NEW u \in Validators, NEW i \in 1..Len(pool'[u]), NEW w, Owes(u, i, w)'
      PROVE  w \in Owed
  <2>1. PICK j \in 1..Len(pool[u]) : pool'[u][i] = pool[u][j]
    BY <1>0, <1>a DEF TookOut
  <2>2. Owes(u, j, w)
    BY <1>1, <1>2, <2>1 DEF Owes
  <2> QED
    BY <1>0, <2>2, OwedIs
<1>3. ASSUME NEW u \in Validators, NEW j \in 1..Len(pool[u]), NEW w, Owes(u, j, w), ~(u = v /\ j = 1)
      PROVE  w \in Owed'
  <2>1. PICK i \in 1..Len(pool'[u]) : pool'[u][i] = pool[u][j]
    <3>1. CASE u # v
      BY <1>0, <3>1 DEF TookOut
    <3>2. CASE u = v
      <4>1. j - 1 \in 1..Len(pool'[u]) /\ pool'[u][j - 1] = pool[u][(j - 1) + 1] /\ (j - 1) + 1 = j
        BY <1>0, <1>3, <1>a, <3>2 DEF TookOut
      <4> QED
        BY <4>1
    <3> QED
      BY <3>1, <3>2
  <2>2. Owes(u, i, w)'
    BY <1>1, <1>3, <2>1 DEF Owes
  <2> QED
    BY <1>a, <2>2, OwedIsNext
<1>4. \A w : w \in Owed' => w \in Owed
  BY <1>2, <1>a, OwedIsNext
<1>5. ASSUME NEW w, w \in Owed, w \notin Owed'
      PROVE  Owes(v, 1, w)
  BY <1>0, <1>3, <1>5, OwedIs
<1>6. 1 \in 1..Len(pool[v])
  BY <1>0 DEF TookOut
<1>7. ASSUME pool[v][1].kind = "vote", ~pool[v][1].own
      PROVE  /\ props[pool[v][1].id].asks \in Owed
             /\ Owed' \in {Owed, Owed \ {props[pool[v][1].id].asks}}
  <2> DEFINE a == props[pool[v][1].id].asks
  <2>1. Owes(v, 1, a)
    BY <1>7 DEF Owes
  <2>2. a \in Owed
    BY <1>0, <1>6, <2>1, OwedIs
  <2>3. \A w : w \in Owed /\ w \notin Owed' => w = a
    BY <1>5 DEF Owes
  <2> HIDE DEF a
  <2>4. CASE a \in Owed'
    <3>1. Owed' = Owed
      BY <1>4, <2>3, <2>4
    <3> QED
      BY <2>2, <3>1 DEF a
  <2>5. CASE a \notin Owed'
    <3>1. Owed' = Owed \ {a}
      BY <1>4, <2>2, <2>3, <2>5
    <3> QED
      BY <2>2, <3>1 DEF a
  <2> QED
    BY <2>2, <2>4, <2>5 DEF a
<1>8. ASSUME ~(pool[v][1].kind = "vote" /\ ~pool[v][1].own)
      PROVE  Owed' = Owed
  <2>1. \A w : ~Owes(v, 1, w)
    BY <1>8 DEF Owes
  <2> QED
    BY <1>4, <1>5, <2>1
<1> QED
  BY <1>7, <1>8

(***************************************************************************)
(* Then every step as a step of ConfigStore, or as none.                   *)
(***************************************************************************)
Write == IF Returning THEN NoRequest ELSE request

Simulated == Store!Next \/ UNCHANGED Store!vars

LEMMA NoRequestIsNone == NoRequest \notin Requests
BY DEF NoRequest, Requests, None

LEMMA Unseen ==
  ASSUME UNCHANGED <<value, settled>>, Write' = Write, Owed' = Owed
  PROVE  Simulated
BY DEF Simulated, Store!vars, Write

LEMMA ReturnSimulated ==
  ASSUME Inv, pc \in Ensuring, ~Returning, UNCHANGED value, Owed' \in {Owed, Owed \cup {request}},
         NEW result \in {"ok", "error"}, Return(result), result = "ok" => Holds
  PROVE  Simulated
<1>1. Write = request /\ request \in Requests /\ request # NoRequest /\ request.cid \in Cids
  BY NoRequestIsNone DEF Write, Inv, Position, Requests
<1>2. Write' = NoRequest
  BY DEF Write, Return, Leave
<1>3. CASE result = "ok"
  <2>1. Store!Succeed
    BY <1>1, <1>2, <1>3 DEF Store!Succeed, Write, Return, Holds
  <2> QED
    BY <2>1 DEF Simulated, Store!Next
<1>4. CASE result = "error"
  <2>1. settled' = [settled EXCEPT ![request.cid] = None]
    BY <1>4 DEF Return
  <2>2. settled[request.cid] = None /\ settled \in [Cids -> Values \cup {None}]
    BY DEF Inv, Asking, TypeOK
  <2>3. settled' = settled
    BY <1>1, <2>1, <2>2
  <2>4. Store!GiveUp
    BY <1>1, <1>2, <2>3 DEF Store!GiveUp, Write
  <2> QED
    BY <2>4 DEF Simulated, Store!Next
<1> QED
  BY <1>3, <1>4

LEMMA GoSimulated ==
  ASSUME Inv, pc \in Ensuring, ~Returning, UNCHANGED value, Owed' \in {Owed, Owed \cup {request}},
         NEW there \in Ensuring \ {"enter"}, NEW where, NEW blocks, Go(there, where, blocks)
  PROVE  Simulated
<1>1. Write = request /\ request # NoRequest
  BY NoRequestIsNone DEF Write, Inv, Position
<1>2. Write' = request /\ settled' = settled
  BY DEF Write, Go, Returning
<1>3. Store!GiveUp
  BY <1>1, <1>2 DEF Store!GiveUp, Write
<1> QED
  BY <1>3 DEF Simulated, Store!Next

LEMMA CheckSimulated ==
  ASSUME Inv, pc \in Ensuring, ~Returning, UNCHANGED value, Owed' \in {Owed, Owed \cup {request}},
         NEW there \in Ensuring \ {"enter"}, NEW where, NEW blocks,
         Check(there, where) \/ CheckAgain(there, where, blocks)
  PROVE  Simulated
BY ReturnSimulated, GoSimulated DEF Check, CheckAgain

LEMMA QuietOwed ==
  ASSUME Quiet
  PROVE  Owed' = Owed
BY OwedQuiet DEF Quiet, chainVars, contracts

LEMMA MiningOwed ==
  ASSUME Inv, Mined \/ NotMined
  PROVE  /\ pc # "voteMined" => Owed' = Owed
         /\ pc = "voteMined" => Owed' \in {Owed, Owed \cup {request}}
BY QuietOwed, OwedDisowned DEF Mined, NotMined

LEMMA SendsOwed ==
  ASSUME Inv, NEW v \in Validators, NEW kind \in {"init", "create", "vote"}, NEW id \in Nat,
         NEW asks \in Asked, Sends(v, kind, id, asks)
  PROVE  Owed' = Owed
<1> DEFINE t == [kind |-> kind, id |-> id, asks |-> asks, own |-> TRUE]
<1>1. Added(v, t) /\ UNCHANGED props
  BY SendsKept DEF Inv, ChainKept
<1>2. t.own
  OBVIOUS
<1> HIDE DEF t
<1> QED
  BY <1>1, <1>2, OwedSends DEF Inv

LEMMA FailsOwed ==
  ASSUME Inv, NEW v \in Validators, NEW kind \in {"init", "create", "vote"}, NEW id \in Nat,
         NEW asks \in Asked, SendFails(v, kind, id, asks)
  PROVE  /\ kind # "vote" => Owed' = Owed
         /\ kind = "vote" => Owed' \in {Owed, Owed \cup {props[id].asks}}
<1> DEFINE t == [kind |-> kind, id |-> id, asks |-> asks, own |-> FALSE]
<1>1. (Quiet \/ Added(v, t)) /\ UNCHANGED props
  BY SendFailsKept DEF Inv, ChainKept
<1>2. t.kind = kind /\ ~t.own /\ t.id = id
  OBVIOUS
<1> HIDE DEF t
<1> QED
  BY <1>1, <1>2, OwedSends, OwedSlips, QuietOwed DEF Inv

LEMMA EnsureSimulated ==
  ASSUME Inv, EnsureSteps
  PROVE  Simulated
<1>0. TypeOK /\ Position /\ Loops
  BY DEF Inv
<1>1. UNCHANGED value
  BY EnsureTypes DEF ChainKept
<1>2. CASE Enter
  <2>1. Owed' = Owed
    BY <1>2, QuietOwed DEF Enter
  <2>2. CASE current = request.val /\ Leave /\ UNCHANGED settled
    <3>1. Write = NoRequest /\ Write' = NoRequest
      BY <1>2, <2>2 DEF Enter, Write, Returning, Leave
    <3> QED
      BY <1>1, <2>1, <2>2, <3>1, Unseen
  <2>3. CASE current # request.val /\ Go("attempt", Fresh, 0)
    BY <1>1, <1>2, <2>1, <2>3, GoSimulated DEF Enter, Ensuring, Returning
  <2> QED
    BY <1>2, <2>2, <2>3 DEF Enter
<1>3. CASE Attempt
  <2>1. pc \in Ensuring /\ ~Returning /\ "propose" \in Ensuring \ {"enter"} /\ Owed' = Owed
    BY <1>3, QuietOwed DEF Attempt, Ensuring, Returning
  <2> QED
    BY <1>1, <1>3, <2>1, ReturnSimulated, CheckSimulated DEF Attempt
<1>4. ASSUME NEW blocks, NoProposer \/ Recheck, Pause(blocks) PROVE Simulated
  <2>1. pc \in Ensuring /\ ~Returning /\ "attempt" \in Ensuring \ {"enter"} /\ Owed' = Owed
    BY <1>4, QuietOwed DEF NoProposer, Recheck, Ensuring, Returning
  <2> QED
    BY <1>1, <1>4, <2>1, GoSimulated DEF Pause
<1>5. CASE Propose
  <2> DEFINE there == [at EXCEPT !.tried = @ + 1]
  <2>1. /\ pc \in Ensuring /\ ~Returning
        /\ "propose" \in Ensuring \ {"enter"} /\ "createMined" \in Ensuring \ {"enter"}
    BY <1>5 DEF Propose, Ensuring, Returning
  <2> HIDE DEF there
  <2>2. turn + 1 \in Validators /\ request \in Asked
    BY <1>0, <2>1 DEF TypeOK, Validators
  <2>3. \/ Quiet /\ Go("propose", there, 0)
        \/ SendFails(turn + 1, "create", 0, request) /\ CheckAgain("propose", there, 1)
        \/ Sends(turn + 1, "create", 0, request) /\ Go("createMined", there, 0)
    BY <1>5 DEF Propose, there
  <2>4. Owed' = Owed
    BY <2>2, <2>3, QuietOwed, SendsOwed, FailsOwed
  <2> QED
    BY <1>1, <2>1, <2>3, <2>4, GoSimulated, CheckSimulated
<1>6. CASE CreateMined
  <2>1. /\ pc \in Ensuring /\ ~Returning /\ pc # "voteMined"
        /\ "propose" \in Ensuring \ {"enter"} /\ "vote" \in Ensuring \ {"enter"}
    BY <1>6 DEF CreateMined, Ensuring, Returning
  <2>2. Owed' = Owed
    BY <1>6, <2>1, QuietOwed, MiningOwed DEF CreateMined
  <2> QED
    BY <1>1, <1>6, <2>1, <2>2, GoSimulated, CheckSimulated DEF CreateMined
<1>7. CASE Vote
  <2>1. /\ pc \in Ensuring /\ ~Returning /\ Owed' = Owed
        /\ {"recheck", "cast", "vote"} \subseteq Ensuring \ {"enter"}
    BY <1>7, QuietOwed DEF Vote, Ensuring, Returning
  <2>2. \/ Go("recheck", at, 0) \/ Go("cast", at, 0) \/ Go("vote", at, 0)
        \/ Go("cast", NextVoter, 0) \/ Go("vote", NextVoter, 0)
        \/ Holds /\ Return("ok")
    BY <1>7 DEF Vote
  <2> QED
    BY <1>1, <2>1, <2>2, GoSimulated, ReturnSimulated
<1>8. CASE Cast
  <2>1. /\ pc \in Ensuring /\ ~Returning
        /\ {"voteMined", "cast", "vote"} \subseteq Ensuring \ {"enter"}
    BY <1>8 DEF Cast, Ensuring, Returning
  <2>2. at.voter \in Validators /\ at.prop \in Nat /\ props[at.prop].asks = request
    BY <1>0, <1>8 DEF TypeOK, Validators, Loops, Cast, Inv, Votes, Voting
  <2>3. \/ Quiet \/ Sends(at.voter, "vote", at.prop, NoRequest)
        \/ SendFails(at.voter, "vote", at.prop, NoRequest)
    BY <1>8 DEF Cast
  <2>4. Owed' \in {Owed, Owed \cup {request}}
    BY <2>2, <2>3, QuietOwed, SendsOwed, FailsOwed DEF Asked
  <2>5. \/ Go("vote", NextVoter, 0) \/ Go("voteMined", at, 0) \/ Go("cast", Retry, 1)
        \/ CheckAgain("vote", NextVoter, 0)
    BY <1>8 DEF Cast
  <2> QED
    BY <1>1, <2>1, <2>4, <2>5, GoSimulated, CheckSimulated
<1>9. CASE VoteMined
  <2>1. /\ pc \in Ensuring /\ ~Returning /\ pc = "voteMined"
        /\ {"cast", "vote"} \subseteq Ensuring \ {"enter"}
    BY <1>9 DEF VoteMined, Ensuring, Returning
  <2>2. Owed' \in {Owed, Owed \cup {request}}
    BY <1>9, <2>1, QuietOwed, MiningOwed DEF VoteMined
  <2>3. Check("vote", NextVoter) \/ CheckAgain("cast", Retry, 1)
    BY <1>9 DEF VoteMined
  <2> QED
    BY <1>1, <2>1, <2>2, <2>3, CheckSimulated
<1>10. CASE Recheck /\ Holds /\ Return("ok")
  <2>1. pc \in Ensuring /\ ~Returning /\ Owed' = Owed
    BY <1>10, QuietOwed DEF Recheck, Ensuring, Returning
  <2> QED
    BY <1>1, <1>10, <2>1, ReturnSimulated
<1>11. NoProposer \/ Recheck => (\E b : Pause(b)) \/ (Recheck /\ Holds /\ Return("ok"))
  BY DEF NoProposer, Recheck
<1> QED
  BY <1>2, <1>3, <1>4, <1>5, <1>6, <1>7, <1>8, <1>9, <1>10, <1>11 DEF EnsureSteps


LEMMA EntersSimulated ==
  ASSUME Inv, pc \notin Ensuring, NEW cid \in Cids, NEW val \in Values, Enters(cid, val), UNCHANGED value,
         Owed' = Owed
  PROVE  Simulated
<1> DEFINE w == [cid |-> cid, val |-> val]
<1>1. w \in Requests /\ w.cid = cid /\ w.val = val
  BY DEF Requests
<1>2. Write = NoRequest
  BY DEF Write, Inv, Position
<1>3. /\ pc' = "enter" /\ request' = w /\ current' = value[cid]
      /\ settled' = [settled EXCEPT ![cid] = IF value[cid] = val THEN val ELSE None]
  BY DEF Enters
<1> HIDE DEF w
<1>4. Write' = IF value[cid] = val THEN NoRequest ELSE w
  BY <1>1, <1>3 DEF Write, Returning
<1>5. Store!Ask(w)
  <2>1. CASE value[cid] = val
    BY <1>1, <1>2, <1>3, <1>4, <2>1 DEF Store!Ask, Write
  <2>2. CASE value[cid] # val
    BY <1>1, <1>2, <1>3, <1>4, <2>2 DEF Store!Ask, Write
  <2> QED
    BY <2>1, <2>2
<1> QED
  BY <1>1, <1>5 DEF Simulated, Store!Next

LEMMA AutoSimulated ==
  ASSUME Inv, AutoSteps
  PROVE  Simulated
<1>0. TypeOK /\ Position
  BY DEF Inv
<1>1. UNCHANGED value
  BY AutoTypes DEF ChainKept
<1>2. pc \notin Ensuring /\ request = NoRequest
  BY <1>0 DEF AutoSteps, Initialize, InitializeMined, NextPass, EnsureTarget, VerifyTarget, Position, Ensuring
<1>3. pc # "voteMined" /\ pc # "enter" /\ Write = NoRequest
  BY <1>2 DEF Ensuring, Write
<1>4. CASE Initialize
  <2>1. k \in Contracts
    BY <1>0, <1>4 DEF Initialize, Position
  <2>2. (IF k <= N THEN k ELSE N) \in Validators /\ k \in Nat
    BY <2>1 DEF Validators, Contracts
  <2>3. Owed' = Owed
    <3>1. CASE Quiet
      BY <3>1, QuietOwed
    <3>2. CASE Sends(IF k <= N THEN k ELSE N, "init", k, NoRequest)
      BY <2>2, <3>2, SendsOwed DEF Asked
    <3>3. CASE SendFails(IF k <= N THEN k ELSE N, "init", k, NoRequest)
      BY <2>2, <3>3, FailsOwed DEF Asked
    <3> QED
      BY <1>4, <3>1, <3>2, <3>3 DEF Initialize
  <2>4. Write' = NoRequest /\ settled' = settled
    BY <1>2, <1>4 DEF Initialize, Write, call
  <2> QED
    BY <1>1, <1>3, <2>3, <2>4, Unseen
<1>5. CASE InitializeMined
  <2>1. Owed' = Owed
    BY <1>3, <1>5, MiningOwed DEF InitializeMined
  <2>2. Write' = NoRequest /\ settled' = settled
    BY <1>2, <1>5 DEF InitializeMined, Write, call
  <2> QED
    BY <1>1, <1>3, <2>1, <2>2, Unseen
<1>6. CASE NextPass
  <2>1. Owed' = Owed /\ Write' = NoRequest /\ settled' = settled
    BY <1>2, <1>6, QuietOwed DEF NextPass, Write, call
  <2> QED
    BY <1>1, <1>3, <2>1, Unseen
<1>7. CASE EnsureTarget \/ VerifyTarget
  <2>1. k \in Cids /\ Owed' = Owed /\ Target[k] \in Values
    <3>1. k \in Cids /\ Owed' = Owed
      BY <1>0, <1>7, QuietOwed DEF EnsureTarget, VerifyTarget, Position, Cids
    <3> QED
      BY <3>1 DEF Cids
  <2>2. CASE Enters(k, Target[k])
    BY <1>1, <1>2, <2>1, <2>2, EntersSimulated
  <2>3. CASE Skip /\ settled' = settled
    <3>1. Write' = NoRequest
      BY <1>2, <2>3 DEF Skip, Write, call
    <3> QED
      BY <1>1, <1>3, <2>1, <2>3, <3>1, Unseen
  <2>4. CASE Skip /\ value[k] = Target[k] /\ settled' = [settled EXCEPT ![k] = Target[k]]
    <3>1. Write' = NoRequest /\ k \in DOMAIN Default
      BY <1>2, <2>1, <2>4 DEF Skip, Write, call, Cids
    <3>2. Store!Learn(k)
      BY <1>1, <1>3, <2>1, <2>4, <3>1 DEF Store!Learn, Write
    <3> QED
      BY <3>1, <3>2 DEF Simulated, Store!Next
  <2> QED
    BY <1>7, <2>2, <2>3, <2>4 DEF EnsureTarget, VerifyTarget
<1> QED
  BY <1>4, <1>5, <1>6, <1>7 DEF AutoSteps

LEMMA OtherSimulated ==
  ASSUME Inv, OtherSteps
  PROVE  Simulated
<1>0. TypeOK /\ Position
  BY DEF Inv
<1>1. UNCHANGED value
  BY OtherTypes DEF ChainKept
<1>2. CASE Start \/ Exit
  <2>1. Owed' = Owed /\ settled' = settled
    BY <1>2, QuietOwed DEF Start, Exit, Gone
  <2>2. request = NoRequest /\ request' = NoRequest
    BY <1>0, <1>2 DEF Start, Exit, Gone, Position, Ensuring, call
  <2> QED
    BY <1>1, <2>1, <2>2, Unseen DEF Write
<1>3. CASE NoWait
  <2>1. Owed' = Owed /\ settled' = settled /\ Write' = Write
    BY <1>3, QuietOwed DEF NoWait, Write, Returning, call
  <2> QED
    BY <1>1, <2>1, Unseen
<1>4. CASE Die
  <2>1. Write' = NoRequest /\ settled' = settled /\ Disowned
    BY <1>4 DEF Die, Gone, Write
  <2>2. CASE pc # "voteMined"
    <3>1. Owed' = Owed
      BY <2>1, <2>2, OwedDisowned
    <3>2. CASE Write = NoRequest
      BY <1>1, <2>1, <3>1, <3>2, Unseen
    <3>3. CASE Write # NoRequest
      <4>1. Store!GiveUp
        BY <1>1, <2>1, <3>1, <3>3 DEF Store!GiveUp, Write
      <4> QED
        BY <4>1 DEF Simulated, Store!Next
    <3> QED
      BY <3>2, <3>3
  <2>3. CASE pc = "voteMined"
    <3>1. Write = request /\ request # NoRequest
      BY <1>0, <2>3, NoRequestIsNone DEF Write, Returning, Position, Ensuring
    <3>2. Owed' \in {Owed, Owed \cup {request}}
      BY <2>1, <2>3, OwedDisowned
    <3>3. Store!GiveUp
      BY <1>1, <2>1, <3>1, <3>2 DEF Store!GiveUp, Write
    <3> QED
      BY <3>3 DEF Simulated, Store!Next
  <2> QED
    BY <2>2, <2>3
<1>5. ASSUME NEW cid \in Cids, NEW val \in Values, Ask(cid, val)
      PROVE  Simulated
  BY <1>1, <1>5, QuietOwed, EntersSimulated DEF Ask, Ensuring
<1> QED
  BY <1>2, <1>3, <1>4, <1>5 DEF OtherSteps

LEMMA BlockSimulated ==
  ASSUME Inv, NEW v \in Validators, Block(v)
  PROVE  Simulated
<1> DEFINE t == pool[v][1]
           a == props[t.id].asks
<1>1. Write' = Write
  BY BlockFrame, ProcessKept DEF Write, Returning
<1>2. /\ t.kind = "vote" /\ ~t.own => a \in Owed /\ Owed' \in {Owed, Owed \ {a}}
      /\ ~(t.kind = "vote" /\ ~t.own) => Owed' = Owed
  BY OwedBlock
<1>3. TxOK(t)
  BY BlockFrame
<1>4. Reverts(t) \/ Succeeds(v, t)
  BY BlockFrame
<1>5. settled \in [Cids -> Values \cup {None}] /\ value \in [Cids -> Values] /\ EnsuredStays
  BY DEF Inv, TypeOK
<1>6. t.kind = "vote" => a \in Requests /\ a.cid \in Cids
  <2>1. t.kind = "vote" => t.id \in 1..Len(props)
    BY <1>3 DEF TxOK
  <2>2. \A i \in 1..Len(props) : props[i] \in Proposal
    BY DEF Inv, TypeOK
  <2>3. \A i \in 1..Len(props) : props[i].asks \in Requests /\ props[i].asks.cid \in Cids
    BY <2>2 DEF Proposal, Requests
  <2> HIDE DEF t
  <2> QED
    BY <2>1, <2>3
<1>7. t.own => Awaited(t)
  BY BlockAnswers
<1> HIDE DEF t
<1>8. CASE UNCHANGED <<value, settled>>
  <2>1. CASE Owed' = Owed
    BY <1>1, <1>8, <2>1, Unseen
  <2>2. CASE Owed' # Owed
    <3>1. t.kind = "vote" /\ ~t.own
      BY <1>2, <2>2
    <3>2. a \in Owed /\ Owed' = Owed \ {a}
      BY <1>2, <2>2, <3>1
    <3>3. Store!Drop(a)
      BY <1>1, <1>8, <3>2 DEF Store!Drop, Write
    <3> QED
      BY <3>2, <3>3 DEF Simulated, Store!Next
  <2> QED
    BY <2>1, <2>2
<1>9. CASE t.kind = "vote" /\ VotesFor(v, t)
  <2>1. /\ \/ value' = value
           \/ value' = [value EXCEPT ![a.cid] = a.val]
        /\ settled' = IF t.own \/ settled[a.cid] = value'[a.cid] THEN settled
                      ELSE [settled EXCEPT ![a.cid] = None]
    BY <1>9 DEF VotesFor
  <2>2. a.cid \in Cids /\ a \in Requests /\ a.val \in Values
    BY <1>6, <1>9 DEF Requests
  <2>3. CASE t.own
    <3>1. pc = "voteMined" /\ t.id = at.prop /\ Owed' = Owed
      BY <1>2, <1>7, <1>9, <2>3 DEF Awaited
    <3>2. a = request
      BY <3>1 DEF Inv, Votes, Voting
    <3>3. Write = request /\ request # NoRequest
      BY <2>2, <3>1, <3>2, NoRequestIsNone DEF Write, Returning
    <3>4. CASE value' = value
      BY <1>8, <2>1, <2>3, <3>4
    <3>5. CASE value' = [value EXCEPT ![a.cid] = a.val]
      <4>1. Store!CarryOut
        BY <1>1, <2>1, <2>3, <3>1, <3>2, <3>3, <3>5 DEF Store!CarryOut, Write
      <4> QED
        BY <4>1 DEF Simulated, Store!Next
    <3> QED
      BY <2>1, <3>4, <3>5
  <2>4. CASE ~t.own
    <3> HIDE DEF a
    <3>1. CASE value' = value
      <4>1. settled' = settled
        BY <1>5, <2>1, <2>2, <2>4, <3>1 DEF EnsuredStays
      <4> QED
        BY <1>8, <3>1, <4>1
    <3>2. CASE value' = [value EXCEPT ![a.cid] = a.val]
      <4>1. a \in Owed /\ Owed' \in {Owed, Owed \ {a}}
        BY <1>2, <1>9, <2>4
      <4>2. value'[a.cid] = a.val
        BY <1>5, <2>2, <3>2
      <4>3. Store!CarryOutOwed(a)
        BY <1>1, <2>1, <2>4, <3>2, <4>1, <4>2 DEF Store!CarryOutOwed, Write
      <4> QED
        BY <4>1, <4>3 DEF Simulated, Store!Next
    <3> QED
      BY <2>1, <3>1, <3>2
  <2> QED
    BY <2>3, <2>4
<1> QED
  BY <1>4, <1>8, <1>9 DEF Reverts, Succeeds, Initialises, Proposes, contracts

LEMMA StepSimulated ==
  ASSUME Inv, [Next]_vars
  PROVE  Simulated
<1>1. CASE IdleChainSteps
  <2>1. /\ pool' = pool /\ props' = props /\ value' = value /\ settled' = settled
        /\ pc' = pc /\ request' = request /\ current' = current
    BY <1>1, IdleChainTypes DEF Inv, contracts, call
  <2> QED
    BY <2>1, OwedQuiet, Unseen DEF Write, Returning
<1>2. CASE UNCHANGED vars
  <2>1. /\ pool' = pool /\ props' = props /\ value' = value /\ settled' = settled
        /\ pc' = pc /\ request' = request /\ current' = current
    BY <1>2 DEF vars, chainVars, contracts, call
  <2> QED
    BY <2>1, OwedQuiet, Unseen DEF Write, Returning
<1> QED
  BY <1>1, <1>2, EnsureSimulated, AutoSimulated, OtherSimulated, BlockSimulated, NextParts DEF ChainSteps

LEMMA InitSimulated == Init => Store!Init
<1> SUFFICES ASSUME Init PROVE Store!Init
  OBVIOUS
<1>1. pool = [v \in Validators |-> <<>>] /\ \A v \in Validators : Len(pool[v]) = 0
  BY DEF Init
<1>2. pool \in [Validators -> Seq(Tx)]
  BY <1>1
<1>3. \A w : w \notin Owed
  BY <1>1, <1>2, OwedIs
<1>4. DOMAIN Default = Cids
  BY DEF Cids
<1> QED
  BY <1>3, <1>4 DEF Init, Store!Init

(***************************************************************************)
(* EnsureConfig implements the configuration store: every step of the      *)
(* process, the pool and the contracts is a step of the store or leaves it *)
(* as it is.  The proposals, votes, retries and waits are thereby shown to *)
(* be only a way to write a parameter, and the transactions that are given *)
(* up on to be writes that are owed.                                       *)
(***************************************************************************)
THEOREM ImplementsStore == Spec => StoreSpec
<1>1. Inv /\ [Next]_vars => [Store!Next]_(Store!vars)
  BY StepSimulated DEF Simulated
<1> QED
  BY <1>1, InitSimulated, Correct, PTL DEF Spec, StoreSpec, Store!Spec

(***************************************************************************)
(* And the store keeps what it promises, whatever EnsureConfig does: first *)
(* types, then that nothing is known of the parameter that is written.     *)
(***************************************************************************)
StoreTyped ==
  /\ value \in [Cids -> Values]
  /\ settled \in [Cids -> Values \cup {None}]
  /\ Write \in Requests \cup {NoRequest}
  /\ Owed \subseteq Requests

Unsettled == Write # NoRequest => settled[Write.cid] = None

StoreInv == StoreTyped /\ Unsettled /\ EnsuredStays

LEMMA StoreStep ==
  ASSUME StoreInv, [Store!Next]_(Store!vars)
  PROVE  StoreInv'
<1> USE DEF StoreInv, StoreTyped, Unsettled, EnsuredStays
<1>0. /\ \A w \in Requests : w.cid \in Cids /\ w.val \in Values /\ w # NoRequest
      /\ DOMAIN Default = Cids
  BY GovernanceAssumption DEF Requests, Cids, NoRequest, None
<1>1. ASSUME NEW w \in Requests, Store!Ask(w) PROVE StoreInv'
  <2>1. /\ UNCHANGED <<value, Owed>> /\ Write = NoRequest
        /\ IF value[w.cid] = w.val
           THEN settled' = [settled EXCEPT ![w.cid] = w.val] /\ Write' = Write
           ELSE settled' = [settled EXCEPT ![w.cid] = None] /\ Write' = w
    BY <1>1 DEF Store!Ask, Write
  <2> QED BY <1>0, <2>1
<1>2. ASSUME NEW w \in Owed, Store!CarryOutOwed(w) PROVE StoreInv'
  <2>1. /\ value' = [value EXCEPT ![w.cid] = w.val] /\ Write' = Write /\ Owed' \subseteq Owed
        /\ settled' = IF settled[w.cid] = w.val THEN settled ELSE [settled EXCEPT ![w.cid] = None]
    BY <1>2 DEF Store!CarryOutOwed, Write
  <2> QED BY <1>0, <2>1
<1>3. ASSUME NEW w \in Owed, Store!Drop(w) PROVE StoreInv'
  <2>1. UNCHANGED <<value, settled, Write>> /\ Owed' \subseteq Owed
    BY <1>3 DEF Store!Drop, Write
  <2> QED BY <1>0, <2>1
<1>4. ASSUME NEW c \in Cids, Store!Learn(c) PROVE StoreInv'
  <2>1. Write = NoRequest /\ settled' = [settled EXCEPT ![c] = value[c]] /\ UNCHANGED <<value, Write, Owed>>
    BY <1>4 DEF Store!Learn, Write
  <2> QED BY <1>0, <2>1
<1>5. CASE Store!CarryOut
  <2>1. /\ Write # NoRequest /\ value' = [value EXCEPT ![Write.cid] = Write.val]
        /\ UNCHANGED <<settled, Write, Owed>>
    BY <1>5 DEF Store!CarryOut, Write
  <2> QED BY <1>0, <2>1
<1>6. CASE Store!GiveUp
  <2>1. /\ Write # NoRequest /\ Owed' \in {Owed, Owed \cup {Write}} /\ Write' \in {Write, NoRequest}
        /\ UNCHANGED <<value, settled>>
    BY <1>6 DEF Store!GiveUp, Write
  <2> QED BY <1>0, <2>1
<1>7. CASE Store!Succeed
  <2>1. /\ Write # NoRequest /\ value[Write.cid] = Write.val
        /\ Owed' \in {Owed, Owed \cup {Write}} /\ Write' = NoRequest
        /\ settled' = [settled EXCEPT ![Write.cid] = Write.val] /\ UNCHANGED value
    BY <1>7 DEF Store!Succeed, Write
  <2> QED BY <1>0, <2>1
<1>8. CASE UNCHANGED Store!vars
  <2>1. UNCHANGED <<value, settled, Write, Owed>>
    BY <1>8 DEF Store!vars, Write
  <2> QED BY <2>1
<1> QED BY <1>0, <1>1, <1>2, <1>3, <1>4, <1>5, <1>6, <1>7, <1>8 DEF Store!Next

(***************************************************************************)
(* What is known of a parameter of the store stays true until a write to   *)
(* it is asked for or an owed one is carried out.  It is the promise of    *)
(* ConfigStore alone, for whatever EnsureConfig does to keep it.           *)
(***************************************************************************)
THEOREM KnownStays == StoreSpec => []EnsuredStays
<1>1. Store!Init => StoreInv
  <2> SUFFICES ASSUME Store!Init PROVE StoreInv
    OBVIOUS
  <2>1. /\ value = Default /\ Write = NoRequest /\ Owed = {}
        /\ settled = [c \in DOMAIN Default |-> None]
    BY DEF Store!Init, Write
  <2>2. DOMAIN Default = Cids /\ Default \in [Cids -> Values]
    BY GovernanceAssumption DEF Cids
  <2> QED BY <2>1, <2>2 DEF StoreInv, StoreTyped, Unsettled, EnsuredStays
<1>2. StoreInv => EnsuredStays
  BY DEF StoreInv
<1> QED BY <1>1, <1>2, StoreStep, PTL DEF StoreSpec, Store!Spec

-----------------------------------------------------------------------------
(***************************************************************************)
(* Runs without a fault.                                                   *)
(***************************************************************************)
LEMMA FaultsGrow ==
  ASSUME Inv, [Next]_vars, faults' = 0
  PROVE  ~Fault /\ faults = 0
<1>0. faults \in Nat
  BY DEF Inv, TypeOK
<1>1. ~Fault
  BY <1>0 DEF Fault
<1>2. [Next]_vars => Fault \/ faults' = faults
  <2>1. Enter \/ Attempt \/ NoProposer \/ Propose \/ CreateMined => Fault \/ faults' = faults
    BY DEF Enter, Attempt, NoProposer, Propose, CreateMined, Check, Mined, NotMined, NoFault
  <2>2. Vote \/ Cast \/ VoteMined \/ Recheck => Fault \/ faults' = faults
    BY DEF Vote, Cast, VoteMined, Recheck, Check, Mined, NotMined, NoFault
  <2>3. AutoSteps => Fault \/ faults' = faults
    BY DEF AutoSteps, Initialize, InitializeMined, NextPass, EnsureTarget, VerifyTarget, Mined, NotMined, NoFault
  <2>4. Start \/ NoWait \/ Exit \/ Die => Fault \/ faults' = faults
    BY DEF Start, NoWait, Exit, Die, NoFault
  <2>5. ASSUME NEW cid \in Cids, NEW val \in Values, Ask(cid, val) PROVE faults' = faults
    BY <2>5 DEF Ask
  <2>6. ASSUME NEW v \in Validators, Block(v) PROVE Fault \/ faults' = faults
    BY <2>6 DEF Block, Mine, Refuse
  <2>7. IdleChainSteps => Fault \/ faults' = faults
    BY DEF IdleChainSteps, Tick, Halt, Jail
  <2>8. UNCHANGED vars => faults' = faults
    BY DEF vars
  <2> QED
    BY <2>1, <2>2, <2>3, <2>4, <2>5, <2>6, <2>7, <2>8, NextParts DEF EnsureSteps, OtherSteps, ChainSteps
<1> QED
  BY <1>1, <1>2

(***************************************************************************)
(* Without a fault the three contracts are initialised one after the       *)
(* other: nobody waits in vain, and nothing is left behind in the pool.    *)
(* This holds for any number of attempts.                                  *)
(***************************************************************************)
AllOwn == \A v \in Validators : \A i \in 1..Len(pool[v]) : pool[v][i].own
Boot == ~halted /\ AllOwn /\ CleanInit /\ (pc = "off" => pass = "ensure")
BootInv == faults = 0 => Boot

\* a step of the process without a fault sends one transaction or none
BootSteps ==
  /\ UNCHANGED <<inited, halted, counters>>
  /\ \/ pool' = pool
     \/ \E v \in Validators, t \in Tx : t.own /\ Added(v, t)

LEMMA BootQuiet ==
  ASSUME Quiet, UNCHANGED counters
  PROVE  BootSteps
BY DEF Quiet, chainVars, contracts, BootSteps

LEMMA BootSends ==
  ASSUME TypeOK, NEW v \in Validators, NEW kind \in {"init", "create", "vote"}, NEW id \in Nat,
         NEW asks \in Asked, Sends(v, kind, id, asks), UNCHANGED counters
  PROVE  BootSteps
<1> DEFINE t == [kind |-> kind, id |-> id, asks |-> asks, own |-> TRUE]
<1>1. ChainKept /\ Added(v, t)
  BY SendsKept
<1>2. t \in Tx /\ t.own
  BY DEF Tx
<1> QED
  BY <1>1, <1>2 DEF ChainKept, BootSteps

LEMMA BootOwn ==
  ASSUME TypeOK, AllOwn, BootSteps
  PROVE  AllOwn'
<1>1. CASE pool' = pool
  BY <1>1 DEF AllOwn
<1>2. ASSUME NEW v \in Validators, NEW t \in Tx, t.own, Added(v, t) PROVE AllOwn'
  <2> SUFFICES ASSUME NEW w \in Validators, NEW i \in 1..Len(pool'[w]) PROVE pool'[w][i].own
    BY DEF AllOwn
  <2>1. CASE w # v
    BY <1>2, <2>1 DEF Added, AllOwn
  <2>2. CASE w = v
    <3>1. Len(pool[v]) \in Nat
      BY DEF TypeOK
    <3>2. i \in 1..Len(pool[v]) \/ i = Len(pool[v]) + 1
      BY <1>2, <2>2, <3>1 DEF Added
    <3> QED
      BY <1>2, <2>2, <3>2 DEF Added, AllOwn
  <2> QED
    BY <2>1, <2>2
<1> QED
  BY <1>1, <1>2 DEF BootSteps

LEMMA BootEnsure ==
  ASSUME Inv, Boot, EnsureSteps, ~Fault
  PROVE  Boot'
<1>0. TypeOK /\ ~halted /\ pc \in Ensuring /\ request \in Asked
  BY DEF Inv, Boot, TypeOK, EnsureSteps, Enter, Attempt, NoProposer, Propose, CreateMined, Vote, Cast,
         VoteMined, Recheck, Ensuring
<1>1. NotMined \/ Mined => Quiet
  BY <1>0 DEF NotMined, Mined
<1>2. Propose \/ Cast => BootSteps
  <2>1. ASSUME Propose PROVE BootSteps
    <3>1. turn + 1 \in Validators
      BY <1>0 DEF TypeOK, Validators
    <3>2. Quiet \/ Sends(turn + 1, "create", 0, request)
      BY <2>1 DEF Propose
    <3> QED
      BY <1>0, <2>1, <3>1, <3>2, BootQuiet, BootSends DEF Propose
  <2>2. ASSUME Cast PROVE BootSteps
    <3>1. at.voter \in Validators /\ at.prop \in Nat /\ NoRequest \in Asked
      BY <1>0, <2>2 DEF Cast, Inv, Loops, TypeOK, Validators, Asked
    <3>2. Quiet \/ Sends(at.voter, "vote", at.prop, NoRequest)
      BY <2>2 DEF Cast
    <3> QED
      BY <1>0, <2>2, <3>1, <3>2, BootQuiet, BootSends DEF Cast
  <2> QED
    BY <2>1, <2>2
<1>3. Enter \/ Attempt \/ NoProposer \/ CreateMined \/ Vote \/ VoteMined \/ Recheck => BootSteps
  BY <1>1, BootQuiet DEF Enter, Attempt, NoProposer, CreateMined, Vote, VoteMined, Recheck
<1>4. BootSteps
  BY <1>2, <1>3 DEF EnsureSteps
<1>5. pc' \notin {"off", "init", "initMined"}
  <2>1. Enter \/ Attempt \/ NoProposer \/ Propose \/ CreateMined => pc' \notin {"off", "init", "initMined"}
    BY DEF Enter, Attempt, NoProposer, Propose, CreateMined, Check, CheckAgain, Pause, Return, Leave, Go
  <2>2. Vote \/ Cast \/ VoteMined \/ Recheck => pc' \notin {"off", "init", "initMined"}
    BY DEF Vote, Cast, VoteMined, Recheck, Check, CheckAgain, Pause, Return, Leave, Go
  <2> QED
    BY <2>1, <2>2 DEF EnsureSteps
<1>6. CleanInit'
  BY <1>0, <1>4, <1>5 DEF Boot, CleanInit, BootSteps, counters, Ensuring
<1> QED
  BY <1>4, <1>5, <1>6, BootOwn DEF Boot, BootSteps, Inv

LEMMA BootAuto ==
  ASSUME Inv, Boot, AutoSteps, ~Fault
  PROVE  Boot'
<1>0. TypeOK /\ Position /\ ~halted /\ CleanInit
  BY DEF Inv, Boot
<1>1. CASE Initialize
  <2>1. pc = "init" /\ k \in Contracts
    BY <1>0, <1>1 DEF Initialize, Position
  <2> DEFINE v == IF k <= N THEN k ELSE N
  <2>2. v \in Validators /\ k \in Nat /\ NoRequest \in Asked
    BY <2>1 DEF Validators, Contracts, Asked
  <2> HIDE DEF v
  <2>3. Sends(v, "init", k, NoRequest) /\ pc' = "initMined" /\ k' = k /\ UNCHANGED counters
    BY <1>1 DEF Initialize, v
  <2>4. BootSteps /\ answer' = "none"
    BY <1>0, <2>2, <2>3, BootSends DEF Sends
  <2>5. CleanInit'
    BY <1>0, <2>1, <2>3, <2>4 DEF CleanInit, BootSteps, counters
  <2> QED
    BY <2>3, <2>4, <2>5, BootOwn DEF Boot, BootSteps, Inv
<1>2. CASE InitializeMined
  <2>1. pc = "initMined" /\ k \in 1..3 /\ starts > 0 /\ answer # "reverted"
    BY <1>0, <1>2 DEF InitializeMined, Position, Contracts, CleanInit
  <2>2. answer = "ok" /\ inited = 1..k /\ Quiet /\ UNCHANGED counters /\ NextContract
    BY <1>0, <1>2, <2>1 DEF InitializeMined, Mined, NotMined, CleanInit
  <2>3. BootSteps
    BY <2>2, BootQuiet
  <2>4. CleanInit'
    <3>1. CASE k = 3
      BY <2>1, <2>2, <2>3, <3>1 DEF NextContract, CleanInit, BootSteps, counters, Contracts
    <3>2. CASE k # 3
      <4>1. pc' = "init" /\ k' - 1 = k
        BY <2>1, <2>2, <3>2 DEF NextContract
      <4> QED
        BY <2>1, <2>2, <2>3, <4>1 DEF CleanInit, BootSteps, counters
    <3> QED
      BY <3>1, <3>2
  <2>5. pc' # "off"
    BY <2>2 DEF NextContract
  <2> QED
    BY <2>3, <2>4, <2>5, BootOwn DEF Boot, BootSteps, Inv
<1>3. CASE NextPass \/ EnsureTarget \/ VerifyTarget
  <2>1. Quiet /\ UNCHANGED counters /\ pc = "next" /\ pc' \notin {"off", "init", "initMined"}
    BY <1>3 DEF NextPass, EnsureTarget, VerifyTarget, Enters, Skip, counters
  <2>2. BootSteps
    BY <2>1, BootQuiet
  <2>3. CleanInit'
    BY <1>0, <2>1, <2>2 DEF CleanInit, BootSteps, counters
  <2> QED
    BY <2>1, <2>2, <2>3, BootOwn DEF Boot, BootSteps, Inv
<1> QED
  BY <1>1, <1>2, <1>3 DEF AutoSteps

LEMMA BootOther ==
  ASSUME Inv, Boot, OtherSteps, ~Fault
  PROVE  Boot'
<1>0. TypeOK /\ Position /\ ~halted /\ AllOwn /\ CleanInit /\ starts \in Nat
  BY DEF Inv, Boot, TypeOK
<1>1. ASSUME Quiet PROVE halted' = halted /\ inited' = inited /\ AllOwn'
  BY <1>0, <1>1 DEF Quiet, chainVars, contracts, AllOwn
<1>2. CASE Start
  <2>1. pc \in {"off", "failed", "panic"} /\ starts' = starts + 1 /\ Quiet /\ k' = 1
        /\ pc' = (IF 1 \in inited THEN "next" ELSE "init")
    BY <1>2 DEF Start
  <2>2. inited = {} \/ inited = Contracts
    BY <1>0, <2>1 DEF CleanInit
  <2>3. 1 \in Contracts /\ {} = 1..(1 - 1)
    BY DEF Contracts
  <2>4. starts' > 0 /\ ((pc' = "init" /\ inited = {}) \/ (pc' = "next" /\ inited = Contracts))
    BY <1>0, <2>1, <2>2, <2>3
  <2>5. CleanInit'
    BY <1>1, <2>1, <2>3, <2>4 DEF CleanInit
  <2> QED
    BY <1>0, <1>1, <2>1, <2>4, <2>5 DEF Boot
<1>3. CASE Exit
  <2>1. pc = "idle" /\ Quiet /\ pc' = "off" /\ pass' = "ensure" /\ starts' = starts
    BY <1>3 DEF Exit, Gone, counters
  <2>2. CleanInit'
    BY <1>0, <1>1, <2>1 DEF CleanInit
  <2> QED
    BY <1>0, <1>1, <2>1, <2>2 DEF Boot
<1>4. ASSUME NEW cid \in Cids, NEW val \in Values, Ask(cid, val) PROVE Boot'
  <2>1. pc = "idle" /\ Quiet /\ pc' = "enter" /\ starts' = starts
    BY <1>4 DEF Ask, Enters
  <2>2. CleanInit'
    BY <1>0, <1>1, <2>1 DEF CleanInit
  <2> QED
    BY <1>0, <1>1, <2>1, <2>2 DEF Boot
<1>5. ~NoWait /\ ~Die
  BY DEF NoWait, Die
<1> QED
  BY <1>2, <1>3, <1>4, <1>5 DEF OtherSteps

LEMMA BootBlock ==
  ASSUME Inv, Boot, NEW v \in Validators, Block(v), ~Fault
  PROVE  Boot'
<1> DEFINE t == pool[v][1]
<1>1. TookOut(v) /\ UNCHANGED <<halted, pc, pass, k, starts>> /\ t.own
  <2>1. TookOut(v) /\ UNCHANGED <<halted, pc, pass, k, starts>>
    BY BlockFrame DEF Process, auto, counters
  <2>2. 1 \in 1..Len(pool[v])
    BY <2>1 DEF TookOut
  <2> QED
    BY <2>1, <2>2 DEF Boot, AllOwn
<1>2. Awaited(t) /\ answer = "none" /\ answer' \in {"ok", "reverted"}
  BY <1>1, BlockAnswers DEF Awaited
<1>3. Succeeds(v, t) \/ (~Accepted(v, t) /\ Reverts(t))
  BY <1>1 DEF TookOut, Block, Mine, Refuse
<1>4. AllOwn'
  <2> SUFFICES ASSUME NEW w \in Validators, NEW i \in 1..Len(pool'[w]) PROVE pool'[w][i].own
    BY DEF AllOwn
  <2>1. CASE w = v
    BY <1>1, <2>1 DEF TookOut, Boot, AllOwn
  <2>2. CASE w # v
    BY <1>1, <2>2 DEF TookOut, Boot, AllOwn
  <2> QED
    BY <2>1, <2>2
<1> HIDE DEF t
<1>5. CleanInit'
  <2>1. CASE pc = "initMined"
    <3>1. t.kind = "init" /\ t.id = k /\ inited = 1..(k - 1) /\ k \in Nat /\ k > 0
      BY <1>2, <2>1 DEF Awaited, Boot, CleanInit, Inv, Position, Contracts
    <3>2. Succeeds(v, t) /\ answer' = "ok" /\ Initialises(t)
      BY <1>1, <1>3, <3>1 DEF Accepted, Succeeds
    <3>3. inited' = 1..k
      <4>1. inited' = inited \cup {k}
        BY <3>1, <3>2 DEF Initialises
      <4> QED
        BY <3>1, <4>1
    <3> QED
      BY <1>1, <2>1, <3>2, <3>3 DEF Boot, CleanInit
  <2>2. CASE pc # "initMined"
    <3>1. pc \in {"createMined", "voteMined"} /\ t.kind # "init"
      BY <1>2, <2>2 DEF Awaited
    <3>2. inited' = inited
      BY <1>3, <3>1 DEF Succeeds, Reverts, Proposes, VotesFor, contracts
    <3> QED
      BY <1>1, <3>1, <3>2 DEF Boot, CleanInit
  <2> QED
    BY <2>1, <2>2
<1> QED
  BY <1>1, <1>4, <1>5 DEF Boot

LEMMA BootStep ==
  ASSUME Inv, BootInv, [Next]_vars
  PROVE  BootInv'
<1> SUFFICES ASSUME faults' = 0 PROVE Boot'
  BY DEF BootInv
<1>1. ~Fault /\ Boot
  BY FaultsGrow DEF BootInv
<1>2. CASE IdleChainSteps \/ UNCHANGED vars
  <2>1. UNCHANGED <<halted, pool, inited, pc, pass, k, starts, answer>>
    BY <1>1, <1>2 DEF IdleChainSteps, Tick, Jail, Halt, contracts, Process, auto, mining, counters,
                      vars, chainVars
  <2> QED
    BY <1>1, <2>1 DEF Boot, AllOwn, CleanInit
<1> QED
  BY <1>1, <1>2, NextParts, BootEnsure, BootAuto, BootOther, BootBlock DEF ChainSteps

(***************************************************************************)
(* A process reaches its tests only on a chain where Proposal and          *)
(* Validators are initialised, whatever has happened to the processes      *)
(* before it, provided that autoInitialize has anything to do: a parameter *)
(* whose target is not its default.  Staking is initialised as well when   *)
(* nothing has failed, and then by the order of the three calls alone;     *)
(* otherwise nobody looks at it.                                           *)
(***************************************************************************)
THEOREM ReadyOnlyInitialised ==
  ASSUME \E c \in Cids : Target[c] # Default[c]
  PROVE  Spec => []ReadyMeansInitialised
<1> DEFINE RInv == Inv /\ Touched /\ CheckedTouched /\ BootInv
<1>1. Init => RInv
  <2>1. Init => BootInv
    BY DEF Init, BootInv, Boot, AllOwn, CleanInit
  <2> QED
    BY <2>1, InvInit DEF Init, Touched, CheckedTouched
<1>2. RInv /\ [Next]_vars => RInv'
  BY InvStep, InvStutter, TouchedStep, CheckedTouchedStep, BootStep
<1>3. RInv => ReadyMeansInitialised
  <2> SUFFICES ASSUME RInv, pass = "user", pc # "failed"
               PROVE  {1, 3} \subseteq inited /\ (2 \in inited \/ faults > 0)
    BY DEF ReadyMeansInitialised
  <2>1. {1, 3} \subseteq inited
    BY DEF CheckedTouched
  <2>a. pc \notin {"init", "initMined"}
    BY DEF Inv, Position
  <2>2. faults = 0 => 2 \in inited
    BY <2>a DEF BootInv, Boot, CleanInit, Contracts
  <2>3. faults \in Nat
    BY DEF Inv, TypeOK
  <2> QED
    BY <2>1, <2>2, <2>3
<1> QED
  BY <1>1, <1>2, <1>3, PTL DEF Spec

LEMMA AllVotes == Cardinality(Validators) = N /\ IsFiniteSet(Validators) /\ Validators = 1..N
BY FS_Interval DEF Validators

LEMMA CleanEligible ==
  ASSUME CleanChain, CleanInit, pc \notin {"off", "init", "initMined"}
  PROVE  Eligible = Validators
BY DEF CleanChain, CleanInit, Eligible, Contracts

LEMMA CleanEmpty ==
  ASSUME Inv, CleanChain, pc \notin WaitingPCs \/ answer # "none"
  PROVE  \A v \in Validators : pool[v] = <<>> /\ Len(pool[v]) = 0
<1>1. NoOwn
  BY NoneOwned DEF Inv
<1>2. ASSUME NEW v \in Validators PROVE pool[v] = <<>> /\ Len(pool[v]) = 0
  <2>1. pool[v] \in Seq(Tx)
    BY DEF Inv, TypeOK
  <2>2. \A i \in 1..Len(pool[v]) : FALSE
    BY <1>1, Zenon DEF NoOwn, CleanChain
  <2>3. Len(pool[v]) = 0
    <3>1. Len(pool[v]) \in Nat
      BY <2>1
    <3>2. 1 \notin 1..Len(pool[v])
      BY <2>2
    <3> QED
      BY <3>1, <3>2
  <2> QED
    BY <2>1, <2>3
<1> QED
  BY <1>2

(***************************************************************************)
(* The pool and the chain through a step of the process without a fault.   *)
(***************************************************************************)
LEMMA CleanQuiet ==
  ASSUME Inv, CleanChain, Quiet, pc \notin WaitingPCs \/ answer # "none"
  PROVE  /\ active' = Validators /\ ~halted'
         /\ \A v \in Validators : \A i \in 1..Len(pool'[v]) : pool'[v][i].own
         /\ \A v \in Validators : Len(pool'[v]) = 0
         /\ value' = value /\ props' = props /\ inited' = inited /\ age' = age
<1>1. \A v \in Validators : pool[v] = <<>> /\ Len(pool[v]) = 0
  BY CleanEmpty
<1> QED
  BY <1>1 DEF Quiet, chainVars, contracts, CleanChain

LEMMA CleanSends ==
  ASSUME Inv, CleanChain, pc \notin WaitingPCs, NEW v \in Validators,
         NEW kind \in {"init", "create", "vote"}, NEW id \in Nat, NEW asks \in Asked,
         Sends(v, kind, id, asks)
  PROVE  /\ active' = Validators /\ ~halted' /\ answer' = "none"
         /\ \A w \in Validators : \A i \in 1..Len(pool'[w]) : pool'[w][i].own
         /\ \A w \in Validators : Len(pool'[w]) > 0 => w = v
         /\ value' = value /\ props' = props /\ inited' = inited /\ age' = age
<1>1. \A w \in Validators : pool[w] = <<>> /\ Len(pool[w]) = 0
  BY CleanEmpty
<1> DEFINE t == [kind |-> kind, id |-> id, asks |-> asks, own |-> TRUE]
<1>2. Added(v, t) /\ ChainKept /\ answer' = "none"
  BY SendsKept DEF Inv
<1>3. t.own
  OBVIOUS
<1> HIDE DEF t
<1>4. /\ \A w \in Validators : \A i \in 1..Len(pool'[w]) : pool'[w][i].own
      /\ \A w \in Validators : Len(pool'[w]) > 0 => w = v
  <2>1. ASSUME NEW w \in Validators, w # v PROVE Len(pool'[w]) = 0
    BY <1>1, <1>2, <2>1 DEF Added
  <2>2. Len(pool'[v]) = 1 /\ pool'[v][1] = t
    BY <1>1, <1>2 DEF Added
  <2>3. \A i \in 1..Len(pool'[v]) : pool'[v][i].own
    <3>1. \A i \in 1..Len(pool'[v]) : i = 1
      BY <2>2
    <3> QED
      BY <1>3, <2>2, <3>1
  <2>4. ASSUME NEW w \in Validators PROVE \A i \in 1..Len(pool'[w]) : pool'[w][i].own
    BY <2>1, <2>3
  <2>5. ASSUME NEW w \in Validators, Len(pool'[w]) > 0 PROVE w = v
    BY <2>1, <2>5
  <2> QED
    BY <2>4, <2>5
<1> QED
  BY <1>2, <1>4 DEF ChainKept, CleanChain

LEMMA CleanLeave ==
  ASSUME Inv, Clean, pc \in Ensuring, Quiet, pc \notin WaitingPCs \/ answer # "none", Leave,
         UNCHANGED <<mining, counters>>,
         settled' = [settled EXCEPT ![request.cid] = request.val]
  PROVE  Clean'
<1>1. /\ active' = Validators /\ ~halted'
      /\ \A v \in Validators : \A i \in 1..Len(pool'[v]) : pool'[v][i].own
      /\ value' = value /\ props' = props /\ inited' = inited /\ age' = age
  BY CleanQuiet DEF Clean
<1>2. /\ request' = NoRequest /\ at' = Fresh /\ pass' = pass /\ unresolved' = unresolved
      /\ starts' = starts
      /\ IF pass = "user" THEN pc' = "idle" /\ k' = k ELSE pc' = "next" /\ k' = k + 1
  BY DEF Leave, counters
<1>3. pc' \in {"idle", "next"}
  BY <1>2
<1>4. CleanChain'
  BY <1>1, <1>3 DEF CleanChain
<1>5. CleanInit'
  BY <1>1, <1>2, <1>3 DEF Clean, CleanInit, Ensuring
<1>6. CleanAttempts' /\ CleanVotes'
  BY <1>2, <1>3 DEF CleanAttempts, CleanVotes, Fresh, Voting
<1>7. request.cid \in Cids /\ request.val \in Values /\ settled \in [Cids -> Values \cup {None}]
      /\ request \in Requests
  BY DEF Inv, Position, Requests, TypeOK
<1>8. CleanPasses'
  <2>1. pass \in {"ensure", "user"} /\ (pass = "ensure" => k \in Cids)
    BY DEF Clean, CleanPasses, Inv, TypeOK, Position, Ensuring
  <2>2. CASE pass = "ensure"
    <3>1. request.cid = k /\ request.val = Target[k] /\ k \in Nat
      BY <2>1, <2>2 DEF Clean, CleanPasses, Cids
    <3>2. \A c \in Cids : c < k + 1 => c < k \/ c = k
      BY <3>1 DEF Cids
    <3>3. \A c \in Cids : c < k + 1 => settled'[c] = Target[c]
      BY <1>7, <2>2, <3>1, <3>2 DEF Clean, CleanPasses, Ensuring
    <3> QED
      BY <1>2, <1>3, <2>2, <3>3 DEF Clean, CleanPasses, Ensuring
  <2>3. CASE pass = "user"
    <3>1. \A c \in Cids : settled'[c] # None
      BY <1>7, <2>3 DEF Clean, CleanPasses, None
    <3> QED
      BY <1>2, <1>3, <2>3, <3>1 DEF Clean, CleanPasses, Ensuring
  <2> QED
    BY <2>1, <2>2, <2>3
<1> QED
  BY <1>4, <1>5, <1>6, <1>8 DEF Clean


LEMMA CleanGo ==
  ASSUME Inv, Clean, pc \in Ensuring, NEW there \in Ensuring \ {"enter"}, NEW where, NEW blocks,
         Go(there, where, blocks), UNCHANGED <<inited, counters>>
  PROVE  /\ CleanInit' /\ CleanPasses'
         /\ pc' = there /\ at' = where /\ wait' = blocks /\ request' = request
<1>1. /\ pc' = there /\ at' = where /\ wait' = blocks /\ request' = request
      /\ pass' = pass /\ k' = k /\ unresolved' = unresolved /\ settled' = settled
      /\ inited' = inited /\ starts' = starts
  BY DEF Go, auto, counters
<1>2. CleanInit'
  BY <1>1 DEF Clean, CleanInit, Ensuring
<1>3. CleanPasses'
  BY <1>1 DEF Clean, CleanPasses, Ensuring
<1> QED
  BY <1>1, <1>2, <1>3

LEMMA CleanCheck ==
  ASSUME Inv, Clean, pc \in Ensuring, Quiet, pc \notin WaitingPCs \/ answer # "none", ~Fault,
         UNCHANGED <<mining, counters>>, NEW there, NEW where, Check(there, where)
  PROVE  Clean' \/ (~Holds /\ Go(there, where, 0))
BY CleanLeave DEF Check, Return

LEMMA Unfaulted ==
  ASSUME ~Fault, Clean, NotMined
  PROVE  answer = "reverted" /\ Quiet
BY DEF NotMined, Clean, CleanChain

LEMMA EnsureClean ==
  ASSUME Inv, Clean, Attempts > 1, EnsureSteps, ~Fault
  PROVE  Clean'
<1>0. TypeOK /\ Position /\ Loops
  BY DEF Inv
<1>t. /\ at \in Places /\ at.voter \in Nat /\ at.attempt \in {0, 1} /\ at.retry = 0
      /\ age \in [Validators -> Nat] /\ Cooldown \in Nat
  BY <1>0, CooldownOK DEF Clean, CleanAttempts, CleanVotes, TypeOK, Places
<1>c. ASSUME value' = value, UNCHANGED counters PROVE Cooldown' = Cooldown
  BY <1>c DEF Cooldown, counters
<1>1. CASE Enter
  <2>1. Quiet /\ pc = "enter" /\ pc \in Ensuring /\ pc \notin WaitingPCs /\ UNCHANGED <<mining, counters>>
    BY <1>1 DEF Enter, Ensuring, WaitingPCs
  <2>2. CASE current = request.val /\ Leave /\ UNCHANGED settled
    <3>1. settled[request.cid] = request.val
      BY <2>1, <2>2 DEF Clean, CleanPasses, Returning
    <3>2. settled' = [settled EXCEPT ![request.cid] = request.val]
      BY <1>0, <2>2, <3>1 DEF TypeOK
    <3> QED
      BY <2>1, <2>2, <3>2, CleanLeave
  <2>3. CASE Go("attempt", Fresh, 0)
    <3>1. /\ CleanInit' /\ CleanPasses' /\ pc' = "attempt" /\ at' = Fresh
      BY <2>1, <2>3, CleanGo DEF Quiet, chainVars, contracts, Ensuring
    <3>2. CleanChain'
      BY <2>1, <3>1, CleanQuiet DEF Clean, CleanChain
    <3>3. CleanAttempts' /\ CleanVotes'
      BY <3>1 DEF CleanAttempts, CleanVotes, Fresh, Voting
    <3> QED
      BY <3>1, <3>2, <3>3 DEF Clean
  <2> QED
    BY <1>1, <2>2, <2>3 DEF Enter
<1>2. CASE Attempt
  <2>1. /\ Quiet /\ pc = "attempt" /\ wait = 0 /\ pc \in Ensuring /\ pc \notin WaitingPCs
        /\ UNCHANGED <<mining, counters>>
    BY <1>2 DEF Attempt, Ensuring, WaitingPCs
  <2> DEFINE there == [at EXCEPT !.tried = 0]
  <2>2. there.attempt = at.attempt /\ there.tried = 0 /\ there.retry = 0
    BY <1>t DEF Places
  <2>3. Check("propose", there)
    BY <1>2, <1>t DEF Attempt
  <2> HIDE DEF there
  <2>4. Clean' \/ Go("propose", there, 0)
    BY <2>1, <2>3, CleanCheck
  <2>5. CASE Go("propose", there, 0)
    <3>1. CleanInit' /\ CleanPasses' /\ pc' = "propose" /\ at' = there /\ wait' = 0
      BY <2>1, <2>5, CleanGo DEF Quiet, chainVars, contracts, Ensuring
    <3>2. CleanChain' /\ age' = age /\ Cooldown' = Cooldown
      BY <1>c, <2>1, <3>1, CleanQuiet DEF Clean, CleanChain
    <3>3. CleanAttempts'
      BY <1>t, <2>1, <2>2, <3>1, <3>2 DEF Clean, CleanAttempts
    <3>4. CleanVotes'
      BY <2>2, <3>1 DEF CleanVotes, Voting
    <3> QED
      BY <3>1, <3>2, <3>3, <3>4 DEF Clean
  <2> QED
    BY <2>4, <2>5
<1>3. CASE NoProposer
  <2>1. /\ Quiet /\ pc = "propose" /\ at.tried = N /\ pc \in Ensuring /\ pc \notin WaitingPCs
        /\ UNCHANGED <<mining, counters>> /\ Pause(Cooldown)
    BY <1>3 DEF NoProposer, Ensuring, WaitingPCs
  <2>2. at.attempt = 0
    BY <1>t, <2>1 DEF Clean, CleanAttempts
  <2> DEFINE there == [Fresh EXCEPT !.attempt = at.attempt + 1]
  <2>3. there.attempt = 1 /\ there.retry = 0
    BY <2>2 DEF Fresh
  <2>4. Go("attempt", there, Cooldown)
    BY <2>1 DEF Pause
  <2> HIDE DEF there
  <2>a. PICK blocks : blocks = Cooldown
    OBVIOUS
  <2>5. CleanInit' /\ CleanPasses' /\ pc' = "attempt" /\ at' = there /\ wait' = Cooldown
    BY <2>1, <2>4, <2>a, CleanGo DEF Quiet, chainVars, contracts, Ensuring
  <2>b. CleanChain' /\ age' = age /\ value' = value
    BY <2>1, <2>5, CleanQuiet DEF Clean, CleanChain
  <2>6. CleanChain' /\ age' = age /\ Cooldown' = Cooldown /\ Cooldown \in Nat
    BY <1>c, <1>t, <2>1, <2>b
  <2>7. \A v \in Validators : age'[v] + wait' >= Cooldown'
    BY <1>t, <2>5, <2>6
  <2>8. CleanAttempts' /\ CleanVotes'
    BY <1>t, <2>3, <2>5, <2>7 DEF CleanAttempts, CleanVotes, Voting
  <2> QED
    BY <2>5, <2>6, <2>8 DEF Clean
<1>4. CASE Propose
  <2> DEFINE there == [at EXCEPT !.tried = @ + 1]
             v == turn + 1
  <2>1. pc = "propose" /\ pc \in Ensuring /\ pc \notin WaitingPCs /\ UNCHANGED counters /\ wait = 0
    BY <1>4 DEF Propose, Ensuring, WaitingPCs
  <2>2. v \in Validators /\ request \in Asked
    BY <1>0 DEF TypeOK, Validators
  <2>3. v \in Eligible
    BY <2>1, <2>2, CleanEligible DEF Clean
  <2>4. there.attempt = at.attempt /\ there.retry = 0
    BY <1>t DEF Places
  <2> HIDE DEF v, there
  <2>5. Sends(v, "create", 0, request) /\ Go("createMined", there, 0)
    BY <1>4, <2>3 DEF Propose, v, there
  <2>6. /\ active' = Validators /\ ~halted' /\ answer' = "none"
        /\ \A w \in Validators : \A i \in 1..Len(pool'[w]) : pool'[w][i].own
        /\ inited' = inited /\ age' = age /\ value' = value
    BY <2>1, <2>2, <2>5, CleanSends DEF Clean
  <2>7. CleanInit' /\ CleanPasses' /\ pc' = "createMined" /\ at' = there
    BY <2>1, <2>5, <2>6, CleanGo DEF Ensuring
  <2>8. CleanChain'
    BY <2>6, <2>7 DEF CleanChain
  <2>9. CleanAttempts'
    <3>1. at.attempt = 1 => \A w \in Validators : age[w] >= Cooldown
      BY <1>t, <2>1 DEF Clean, CleanAttempts
    <3>2. Cooldown' = Cooldown
      BY <1>c, <2>1, <2>6
    <3> QED
      BY <1>t, <2>4, <2>6, <2>7, <3>1, <3>2 DEF CleanAttempts
  <2>10. CleanVotes'
    BY <2>4, <2>6, <2>7 DEF CleanVotes, Voting
  <2> QED
    BY <2>7, <2>8, <2>9, <2>10 DEF Clean
<1>5. CASE CreateMined
  <2>1. /\ pc = "createMined" /\ pc \in Ensuring /\ UNCHANGED <<mining, counters>>
    BY <1>5 DEF CreateMined, Ensuring
  <2>2. Quiet /\ answer # "none"
    BY <1>5, Unfaulted DEF CreateMined, Mined
  <2>3. CASE answer = "ok" /\ Go("vote", [at EXCEPT !.voter = 1, !.prop = receipt], 0)
    <3> DEFINE there == [at EXCEPT !.voter = 1, !.prop = receipt]
    <3>1. there.voter = 1 /\ there.prop = receipt /\ there.retry = 0 /\ there.attempt = at.attempt
      BY <1>t DEF Places
    <3> HIDE DEF there
    <3>2. CleanInit' /\ CleanPasses' /\ pc' = "vote" /\ at' = there
      BY <2>1, <2>2, <2>3, CleanGo DEF Quiet, chainVars, contracts, Ensuring, there
    <3>3. CleanChain' /\ props' = props
      BY <2>1, <2>2, <3>2, CleanQuiet DEF Clean, CleanChain
    <3>4. CleanAttempts'
      BY <1>t, <3>1, <3>2 DEF CleanAttempts
    <3>5. ~props[receipt].passed /\ props[receipt].voters = {} /\ answer' = "ok"
      BY <2>1, <2>3 DEF Clean, CleanVotes, mining
    <3>6. CleanVotes'
      <4>1. at'.voter = 1 /\ at'.prop = receipt /\ at'.retry = 0 /\ pc' = "vote" /\ answer' = "ok"
        BY <3>1, <3>2, <3>5
      <4>2. props'[at'.prop] = props[receipt]
        BY <3>3, <4>1
      <4>3. {} = 1..(at'.voter - 1) /\ at'.voter <= N
        BY <4>1
      <4>4. ~props'[at'.prop].passed /\ props'[at'.prop].voters = 1..(at'.voter - 1)
        BY <3>5, <4>2, <4>3
      <4> QED
        BY <4>1, <4>3, <4>4 DEF CleanVotes
    <3> QED
      BY <3>2, <3>3, <3>4, <3>6 DEF Clean
  <2>4. CASE answer = "reverted" /\ CheckAgain("propose", at, 1)
    <3>1. Clean' \/ Go("propose", at, 1)
      BY <2>1, <2>2, <2>4, CleanLeave DEF CheckAgain, Return
    <3>2. CASE Go("propose", at, 1)
      <4>1. CleanInit' /\ CleanPasses' /\ pc' = "propose" /\ at' = at
        BY <2>1, <2>2, <3>2, CleanGo DEF Quiet, chainVars, contracts, Ensuring
      <4>2. CleanChain'
        BY <2>1, <2>2, <4>1, CleanQuiet DEF Clean, CleanChain
      <4>3. at.attempt = 0
        BY <2>1, <2>4 DEF Clean, CleanChain
      <4>4. CleanAttempts' /\ CleanVotes'
        BY <1>t, <4>1, <4>3 DEF CleanAttempts, CleanVotes, Voting
      <4> QED
        BY <4>1, <4>2, <4>4 DEF Clean
    <3> QED
      BY <3>1, <3>2
  <2> QED
    BY <1>5, <2>3, <2>4, Unfaulted DEF CreateMined, Mined
<1>6. CASE Vote
  <2>1. /\ pc = "vote" /\ Quiet /\ pc \in Ensuring /\ pc \notin WaitingPCs /\ UNCHANGED <<mining, counters>>
    BY <1>6 DEF Vote, Ensuring, WaitingPCs
  <2>2. at.voter <= N /\ at.voter \in Validators
    <3>1. at.voter <= N /\ at.voter \in 1..(N + 1)
      BY <1>0, <2>1 DEF Clean, CleanVotes, Voting, TypeOK
    <3> QED
      BY <3>1 DEF Validators
  <2>3. at.voter \in Eligible
    BY <2>1, <2>2, CleanEligible DEF Clean
  <2>a. Return("ok") \/ Go("cast", at, 0)
    <3>1. \/ at.voter > N
          \/ Return("ok")
          \/ Go(IF at.voter \in Eligible THEN "cast" ELSE "vote",
                IF at.voter \in Eligible THEN at ELSE NextVoter, 0)
          \/ Fault
      BY <1>6 DEF Vote
    <3> QED
      BY <1>t, <2>2, <2>3, <3>1
  <2>4. Clean' \/ Go("cast", at, 0)
    BY <2>1, <2>a, CleanLeave DEF Return
  <2>5. CASE Go("cast", at, 0)
    <3>1. CleanInit' /\ CleanPasses' /\ pc' = "cast" /\ at' = at
      BY <2>1, <2>5, CleanGo DEF Quiet, chainVars, contracts, Ensuring
    <3>2. CleanChain' /\ props' = props
      BY <2>1, <3>1, CleanQuiet DEF Clean, CleanChain
    <3>3. CleanAttempts'
      BY <1>t, <3>1 DEF CleanAttempts
    <3>4. CleanVotes'
      BY <2>1, <3>1, <3>2 DEF Clean, CleanVotes, Voting, mining
    <3> QED
      BY <3>1, <3>2, <3>3, <3>4 DEF Clean
  <2> QED
    BY <2>4, <2>5
<1>7. CASE Cast
  <2>1. pc = "cast" /\ pc \in Ensuring /\ pc \notin WaitingPCs /\ UNCHANGED counters
    BY <1>7 DEF Cast, Ensuring, WaitingPCs
  <2>2. at.voter \in Validators /\ at.prop \in Nat /\ at.voter <= N
    BY <1>0, <2>1 DEF TypeOK, Validators, Loops
  <2>3. Sends(at.voter, "vote", at.prop, NoRequest) /\ Go("voteMined", at, 0)
    BY <1>7, <1>t DEF Cast
  <2>4. /\ active' = Validators /\ ~halted' /\ answer' = "none"
        /\ \A w \in Validators : \A i \in 1..Len(pool'[w]) : pool'[w][i].own
        /\ \A w \in Validators : Len(pool'[w]) > 0 => w = at.voter
        /\ inited' = inited /\ props' = props
    BY <2>1, <2>2, <2>3, CleanSends DEF Clean, Asked
  <2>5. CleanInit' /\ CleanPasses' /\ pc' = "voteMined" /\ at' = at
    BY <2>1, <2>3, <2>4, CleanGo DEF Ensuring
  <2>6. CleanChain'
    BY <2>4, <2>5 DEF CleanChain
  <2>7. CleanAttempts'
    BY <1>t, <2>5 DEF CleanAttempts
  <2>8. CleanVotes'
    BY <2>1, <2>2, <2>4, <2>5 DEF Clean, CleanVotes, Voting
  <2> QED
    BY <2>5, <2>6, <2>7, <2>8 DEF Clean
<1>8. CASE VoteMined
  <2>1. pc = "voteMined" /\ pc \in Ensuring /\ UNCHANGED <<mining, counters>>
    BY <1>8 DEF VoteMined, Ensuring
  <2>2. answer # "reverted"
    BY <2>1 DEF Clean, CleanVotes, Voting
  <2>3. answer = "ok" /\ Quiet /\ Check("vote", NextVoter)
    BY <1>8, <2>2, Unfaulted DEF VoteMined
  <2>4. Clean' \/ (~Holds /\ Go("vote", NextVoter, 0))
    BY <2>1, <2>3, CleanCheck
  <2>5. CASE ~Holds /\ Go("vote", NextVoter, 0)
    <3>1. CleanInit' /\ CleanPasses' /\ pc' = "vote" /\ at' = NextVoter
      BY <2>1, <2>3, <2>5, CleanGo DEF Quiet, chainVars, contracts, Ensuring
    <3>2. CleanChain' /\ props' = props
      BY <2>1, <2>3, <3>1, CleanQuiet DEF Clean, CleanChain
    <3>3. /\ NextVoter.attempt = at.attempt /\ NextVoter.prop = at.prop /\ NextVoter.retry = 0
          /\ NextVoter.voter = at.voter + 1
      BY <1>t DEF Places, NextVoter
    <3>4. CleanAttempts'
      BY <1>t, <3>1, <3>3 DEF CleanAttempts
    <3>5. at.voter < N /\ ~props[at.prop].passed /\ props[at.prop].voters = 1..at.voter
      BY <2>1, <2>3, <2>5 DEF Clean, CleanVotes, Holds
    <3>6. (at.voter + 1) - 1 = at.voter /\ at.voter + 1 <= N
      BY <1>t, <3>5
    <3>7. CleanVotes'
      <4>1. /\ at'.voter = at.voter + 1 /\ at'.prop = at.prop /\ at'.retry = 0 /\ pc' = "vote"
            /\ answer' = "ok"
        BY <2>1, <2>3, <3>1, <3>3 DEF mining
      <4>2. props'[at'.prop] = props[at.prop]
        BY <3>2, <4>1
      <4>3. at'.voter - 1 = at.voter /\ at'.voter <= N
        BY <3>6, <4>1
      <4>4. ~props'[at'.prop].passed /\ props'[at'.prop].voters = 1..(at'.voter - 1)
        BY <3>5, <4>2, <4>3
      <4> QED
        BY <4>1, <4>3, <4>4 DEF CleanVotes
    <3> QED
      BY <3>1, <3>2, <3>4, <3>7 DEF Clean
  <2> QED
    BY <2>4, <2>5
<1>9. ~Recheck
  BY DEF Recheck, Clean, CleanChain
<1> QED
  BY <1>1, <1>2, <1>3, <1>4, <1>5, <1>6, <1>7, <1>8, <1>9 DEF EnsureSteps


(***************************************************************************)
(* The passes of autoInitialize.  A parameter that a call has succeeded    *)
(* with is still there when autoInitialize comes back to it.               *)
(***************************************************************************)
LEMMA CleanTargets ==
  ASSUME Inv, Clean, pc = "next", k \in Cids, pass \in {"reconcile", "verify"}
  PROVE  value[k] = Target[k] /\ settled[k] = Target[k]
<1>1. settled[k] = Target[k] /\ Target[k] # None
  BY DEF Clean, CleanPasses, Cids, None
<1> QED
  BY <1>1 DEF Inv, EnsuredStays

LEMMA AutoClean ==
  ASSUME Inv, Clean, AutoSteps, ~Fault
  PROVE  Clean'
<1>0. TypeOK /\ Position /\ CleanChain /\ CleanInit /\ CleanPasses /\ CleanAttempts /\ CleanVotes
  BY DEF Inv, Clean
<1>a. at' = at /\ starts' = starts /\ (pc = "next" => k \in 1..(Params + 1))
  BY <1>0 DEF AutoSteps, Initialize, InitializeMined, NextPass, EnsureTarget, VerifyTarget, call,
              counters, Enters, Skip, Position
<1>b. ASSUME pc' \in {"init", "initMined", "next", "idle", "enter"} PROVE CleanAttempts' /\ CleanVotes'
  BY <1>0, <1>a, <1>b DEF CleanAttempts, CleanVotes, Voting
<1>1. CASE Initialize
  <2>1. pc = "init" /\ pc \notin WaitingPCs /\ pass = "ensure" /\ k \in Contracts
    BY <1>0, <1>1 DEF Initialize, Position, WaitingPCs
  <2> DEFINE v == IF k <= N THEN k ELSE N
  <2>2. v \in Validators /\ k \in Nat /\ NoRequest \in Asked
    BY <2>1 DEF Validators, Contracts, Asked
  <2> HIDE DEF v
  <2>3. Sends(v, "init", k, NoRequest) /\ pc' = "initMined" /\ k' = k
    BY <1>1 DEF Initialize, v
  <2>4. /\ active' = Validators /\ ~halted' /\ answer' = "none"
        /\ \A w \in Validators : \A i \in 1..Len(pool'[w]) : pool'[w][i].own
        /\ inited' = inited
    BY <1>0, <2>1, <2>2, <2>3, CleanSends
  <2>5. pass' = pass /\ unresolved' = unresolved
    BY <1>1 DEF Initialize
  <2>6. CleanChain'
    BY <2>3, <2>4 DEF CleanChain
  <2>7. CleanInit'
    BY <1>0, <1>a, <2>1, <2>3, <2>4 DEF CleanInit
  <2>8. CleanPasses'
    BY <1>0, <2>1, <2>3, <2>5 DEF CleanPasses, Ensuring
  <2> QED
    BY <1>b, <2>3, <2>6, <2>7, <2>8 DEF Clean
<1>2. CASE InitializeMined
  <2>1. pc = "initMined" /\ pass = "ensure" /\ k \in 1..3 /\ starts > 0
    BY <1>0, <1>2 DEF InitializeMined, Position, Contracts, CleanInit
  <2>2. Quiet /\ answer = "ok"
    BY <1>0, <1>2, <2>1, Unfaulted DEF InitializeMined, Mined, CleanInit
  <2>3. inited = 1..k
    BY <1>0, <2>1, <2>2 DEF CleanInit
  <2>4. /\ pass' = pass /\ unresolved' = unresolved /\ NextContract
    BY <1>2 DEF InitializeMined
  <2>5. /\ active' = Validators /\ ~halted' /\ inited' = inited
        /\ \A v \in Validators : \A i \in 1..Len(pool'[v]) : pool'[v][i].own
    BY <1>0, <2>2, CleanQuiet
  <2>6. CASE k = 3
    <3>1. pc' = "next" /\ k' = 1 /\ inited = Contracts
      BY <2>3, <2>4, <2>6 DEF NextContract, Contracts
    <3>2. CleanChain' /\ CleanInit'
      BY <1>a, <2>1, <2>5, <3>1 DEF CleanChain, CleanInit
    <3>3. CleanPasses'
      BY <1>0, <2>1, <2>4, <3>1 DEF CleanPasses, Ensuring, Cids
    <3> QED
      BY <1>b, <3>1, <3>2, <3>3 DEF Clean
  <2>7. CASE k # 3
    <3>1. pc' = "init" /\ k' = k + 1 /\ k' - 1 = k
      BY <2>1, <2>4, <2>7 DEF NextContract
    <3>2. CleanChain' /\ CleanInit'
      BY <1>a, <2>1, <2>3, <2>5, <3>1 DEF CleanChain, CleanInit
    <3>3. CleanPasses'
      BY <1>0, <2>1, <2>4, <3>1 DEF CleanPasses, Ensuring
    <3> QED
      BY <1>b, <3>1, <3>2, <3>3 DEF Clean
  <2> QED
    BY <2>6, <2>7
<1>n. ASSUME pc = "next", Quiet, pc' \in {"next", "idle", "enter"} PROVE CleanChain' /\ CleanInit'
  <2>1. /\ active' = Validators /\ ~halted' /\ inited' = inited
        /\ \A v \in Validators : \A i \in 1..Len(pool'[v]) : pool'[v][i].own
    BY <1>0, <1>n, CleanQuiet DEF WaitingPCs
  <2>2. CleanChain'
    BY <1>n, <2>1 DEF CleanChain
  <2>3. CleanInit'
    BY <1>0, <1>a, <1>n, <2>1 DEF CleanInit
  <2> QED
    BY <2>2, <2>3
<1>3. CASE NextPass
  <2>1. pc = "next" /\ k > Params /\ Quiet /\ unresolved' = unresolved /\ settled' = settled /\ ~unresolved
        /\ request' = request
    BY <1>0, <1>3 DEF NextPass, CleanPasses, call
  <2>2. \A c \in Cids : settled[c] = Target[c]
    <3>1. \A c \in Cids : c < k
      BY <1>0, <1>a, <2>1 DEF Cids
    <3> QED
      BY <1>0, <1>3, <2>1, <3>1 DEF CleanPasses, NextPass
  <2>3. \A c \in Cids : Target[c] # None
    BY DEF None, Cids
  <2>4. (pass' \in {"reconcile", "verify"} /\ pc' = "next") \/ (pass' = "user" /\ pc' = "idle")
    BY <1>3, <2>1 DEF NextPass
  <2>5. CleanPasses'
    BY <2>1, <2>2, <2>3, <2>4 DEF CleanPasses, Ensuring
  <2> QED
    BY <1>b, <1>n, <2>1, <2>4, <2>5 DEF Clean
<1>4. CASE EnsureTarget
  <2>1. pc = "next" /\ k \in Cids /\ pass # "verify" /\ Quiet /\ pass # "user"
    BY <1>0, <1>a, <1>4 DEF EnsureTarget, Position, Cids
  <2>2. unresolved' = unresolved /\ ~unresolved
    BY <1>0, <1>4 DEF EnsureTarget, Enters, auto, CleanPasses
  <2>3. CASE pass = "reconcile"
    <3>1. value[k] = Target[k]
      BY <2>1, <2>3, CleanTargets
    <3>2. pc' = pc /\ pass' = pass /\ settled' = settled /\ k' = k + 1
      BY <1>4, <2>3, <3>1 DEF EnsureTarget, Skip
    <3>3. CleanPasses'
      BY <1>0, <2>1, <2>2, <2>3, <3>2 DEF CleanPasses, Ensuring
    <3> QED
      BY <1>b, <1>n, <2>1, <3>2, <3>3 DEF Clean
  <2>4. CASE pass = "ensure"
    <3>1. Enters(k, Target[k])
      BY <1>4, <2>4 DEF EnsureTarget
    <3>2. /\ request' = [cid |-> k, val |-> Target[k]] /\ current' = value[k] /\ pc' = "enter"
          /\ pass' = pass /\ k' = k
          /\ settled' = [settled EXCEPT ![k] = IF value[k] = Target[k] THEN Target[k] ELSE None]
      BY <3>1 DEF Enters, auto
    <3>3. settled \in [Cids -> Values \cup {None}] /\ \A c \in Cids : c < k => settled[c] = Target[c]
      BY <1>0, <2>1, <2>4 DEF TypeOK, CleanPasses
    <3>4. \A c \in Cids : c < k => settled'[c] = Target[c]
      <4>1. k \in Nat /\ \A c \in Cids : c < k => c # k
        BY <2>1 DEF Cids
      <4> QED
        BY <3>2, <3>3, <4>1
    <3>5. current' = Target[k] => settled'[k] = Target[k]
      BY <2>1, <3>2, <3>3
    <3>6. CleanPasses'
      BY <2>2, <2>4, <3>2, <3>4, <3>5 DEF CleanPasses, Returning, Ensuring
    <3> QED
      BY <1>b, <1>n, <2>1, <3>2, <3>6 DEF Clean
  <2> QED
    BY <1>0, <2>1, <2>3, <2>4 DEF TypeOK
<1>5. CASE VerifyTarget
  <2>1. pc = "next" /\ k \in Cids /\ pass = "verify" /\ Quiet /\ Skip
    BY <1>0, <1>a, <1>5 DEF VerifyTarget, Position, Cids
  <2>2. value[k] = Target[k] /\ settled[k] = Target[k]
    BY <2>1, CleanTargets
  <2>3. unresolved' = unresolved /\ settled' = [settled EXCEPT ![k] = Target[k]]
    BY <1>5, <2>2 DEF VerifyTarget
  <2>4. settled' = settled
    BY <1>0, <2>1, <2>2, <2>3 DEF TypeOK
  <2>5. pc' = pc /\ pass' = pass
    BY <2>1 DEF Skip
  <2>6. CleanPasses'
    BY <1>0, <2>1, <2>3, <2>4, <2>5 DEF CleanPasses, Ensuring
  <2> QED
    BY <1>b, <1>n, <2>1, <2>5, <2>6 DEF Clean
<1> QED
  BY <1>1, <1>2, <1>3, <1>4, <1>5 DEF AutoSteps

(***************************************************************************)
(* A process starts on a chain that is as the process before has left it.  *)
(***************************************************************************)
LEMMA OtherClean ==
  ASSUME Inv, Clean, OtherSteps, ~Fault
  PROVE  Clean'
<1>0. TypeOK /\ Position /\ CleanChain /\ CleanInit /\ CleanPasses /\ CleanAttempts /\ CleanVotes
  BY DEF Inv, Clean
<1>1. CASE Start
  <2>1. pc = "off" /\ starts \in Nat /\ starts' = starts + 1 /\ Quiet
    BY <1>0, <1>1 DEF Start, CleanChain, TypeOK
  <2>2. pc' = (IF 1 \in inited THEN "next" ELSE "init")
    BY <1>1 DEF Start
  <2>3. pass' = "ensure" /\ k' = 1 /\ ~unresolved' /\ at' = at
    BY <1>1 DEF Start, call
  <2>4. /\ active' = Validators /\ ~halted' /\ inited' = inited
        /\ \A v \in Validators : \A i \in 1..Len(pool'[v]) : pool'[v][i].own
    BY <1>0, <2>1, CleanQuiet DEF WaitingPCs
  <2>5. CleanChain'
    BY <2>2, <2>4 DEF CleanChain
  <2>6. CleanInit'
    <3>1. inited = {} \/ inited = Contracts
      BY <1>0, <2>1 DEF CleanInit
    <3>2. 1 \in Contracts /\ {} = 1..(1 - 1)
      BY DEF Contracts
    <3>3. (pc' = "init" /\ inited' = {}) \/ (pc' = "next" /\ inited' = Contracts)
      BY <2>2, <2>4, <3>1, <3>2
    <3>4. starts' > 0
      BY <2>1
    <3> QED
      BY <2>3, <3>2, <3>3, <3>4 DEF CleanInit
  <2>7. CleanPasses'
    BY <2>2, <2>3 DEF CleanPasses, Ensuring, Cids
  <2>8. CleanAttempts' /\ CleanVotes'
    BY <1>0, <2>2, <2>3 DEF CleanAttempts, CleanVotes, Voting
  <2> QED
    BY <2>5, <2>6, <2>7, <2>8 DEF Clean
<1>2. CASE Exit
  <2>1. pc = "idle" /\ Quiet /\ Gone
    BY <1>2 DEF Exit
  <2>2. pc' = "off" /\ pass' = "ensure" /\ ~unresolved' /\ at' = Fresh /\ starts' = starts
    BY <2>1 DEF Gone, counters
  <2>3. /\ active' = Validators /\ ~halted' /\ inited' = inited
        /\ \A v \in Validators : \A i \in 1..Len(pool'[v]) : pool'[v][i].own
    BY <1>0, <2>1, CleanQuiet DEF WaitingPCs
  <2>4. CleanChain'
    BY <2>2, <2>3 DEF CleanChain
  <2>5. CleanInit'
    <3>1. starts > 0 /\ starts \in Nat /\ inited = Contracts
      BY <1>0, <2>1 DEF CleanInit, TypeOK
    <3> QED
      BY <2>2, <2>3, <3>1 DEF CleanInit
  <2>6. CleanPasses' /\ CleanAttempts' /\ CleanVotes'
    BY <2>2 DEF CleanPasses, CleanAttempts, CleanVotes, Fresh, Voting, Ensuring
  <2> QED
    BY <2>4, <2>5, <2>6 DEF Clean
<1>3. ASSUME NEW cid \in Cids, NEW val \in Values, Ask(cid, val) PROVE Clean'
  <2>1. pc = "idle" /\ pass = "user" /\ Quiet /\ starts' = starts
    BY <1>0, <1>3 DEF Ask, Position
  <2>2. /\ request' = [cid |-> cid, val |-> val] /\ current' = value[cid] /\ pc' = "enter"
        /\ pass' = pass /\ k' = k /\ unresolved' = unresolved /\ at' = at
        /\ settled' = [settled EXCEPT ![cid] = IF value[cid] = val THEN val ELSE None]
    BY <1>3 DEF Ask, Enters, auto
  <2>3. /\ active' = Validators /\ ~halted' /\ inited' = inited
        /\ \A v \in Validators : \A i \in 1..Len(pool'[v]) : pool'[v][i].own
    BY <1>0, <2>1, CleanQuiet DEF WaitingPCs
  <2>4. CleanChain'
    BY <2>2, <2>3 DEF CleanChain
  <2>5. CleanInit'
    BY <1>0, <2>1, <2>2, <2>3 DEF CleanInit
  <2>6. CleanPasses'
    <3>1. settled \in [Cids -> Values \cup {None}] /\ \A c \in Cids : settled[c] # None
      BY <1>0, <2>1 DEF TypeOK, CleanPasses, Ensuring
    <3>2. \A c \in Cids : c = cid \/ settled'[c] # None
      BY <2>2, <3>1
    <3>3. current' = val => settled'[cid] = val
      BY <1>3, <2>2, <3>1
    <3> QED
      BY <1>0, <2>1, <2>2, <3>2, <3>3 DEF CleanPasses, Returning, Ensuring
  <2>7. CleanAttempts' /\ CleanVotes'
    BY <1>0, <2>2 DEF CleanAttempts, CleanVotes, Voting
  <2> QED
    BY <2>4, <2>5, <2>6, <2>7 DEF Clean
<1>4. ~NoWait /\ ~Die
  BY DEF NoWait, Die
<1> QED
  BY <1>1, <1>2, <1>3, <1>4 DEF OtherSteps

(***************************************************************************)
(* The transaction that the process waits for is taken into a block.       *)
(***************************************************************************)
LEMMA CleanMined ==
  ASSUME Inv, Clean, NEW v \in Validators, Block(v), ~Fault
  PROVE  /\ pool[v][1].own /\ Awaited(pool[v][1]) /\ answer' \in {"ok", "reverted"}
         /\ pool[v][1].kind \in {"init", "create", "vote"}
         /\ \/ Succeeds(v, pool[v][1])
            \/ ~Accepted(v, pool[v][1]) /\ Reverts(pool[v][1])
         /\ settled' = settled
         /\ \A w \in Validators : \A i \in 1..Len(pool'[w]) : pool'[w][i].own
         /\ \A w \in Validators : Len(pool'[w]) > 0 => Len(pool[w]) > 0
         /\ Len(pool[v]) > 0
<1>1. TookOut(v)
  BY BlockFrame
<1>a. \A w \in Validators : Len(pool[w]) \in Nat
  BY DEF Inv, TypeOK
<1>2. /\ \A w \in Validators : w # v => pool'[w] = pool[w]
      /\ 1 \in 1..Len(pool[v]) /\ Len(pool'[v]) = Len(pool[v]) - 1 /\ pool[v][1] \in Tx
      /\ \A i \in 1..Len(pool'[v]) : i + 1 \in 1..Len(pool[v]) /\ pool'[v][i] = pool[v][i + 1]
      /\ Head(pool[v]) = pool[v][1]
  BY <1>1 DEF TookOut
<1>3. \A w \in Validators : \A i \in 1..Len(pool[w]) : pool[w][i].own
  BY DEF Clean, CleanChain
<1>4. pool[v][1].own
  BY <1>2, <1>3
<1>5. Awaited(pool[v][1]) /\ answer' \in {"ok", "reverted"}
  BY <1>4, BlockAnswers
<1>6. \/ Succeeds(v, pool[v][1])
      \/ ~Accepted(v, pool[v][1]) /\ Reverts(pool[v][1])
  BY <1>2 DEF Block, Mine, Refuse
<1>7. settled' = settled
  BY <1>4, <1>6 DEF Succeeds, Reverts, Initialises, Proposes, VotesFor
<1>8. ASSUME NEW w \in Validators, NEW i \in 1..Len(pool'[w]) PROVE pool'[w][i].own
  <2>1. CASE w = v
    BY <1>2, <1>3, <2>1
  <2>2. CASE w # v
    BY <1>2, <1>3, <2>2
  <2> QED
    BY <2>1, <2>2
<1>9. ASSUME NEW w \in Validators, Len(pool'[w]) > 0 PROVE Len(pool[w]) > 0
  <2>1. CASE w = v
    BY <1>a, <1>2, <2>1
  <2>2. CASE w # v
    BY <1>2, <1>9, <2>2
  <2> QED
    BY <2>1, <2>2
<1>10. pool[v][1].kind \in {"init", "create", "vote"} /\ Len(pool[v]) > 0
  BY <1>a, <1>2 DEF Tx
<1> QED
  BY <1>4, <1>5, <1>6, <1>7, <1>8, <1>9, <1>10

LEMMA CleanAccepted ==
  ASSUME Inv, Clean, NEW v \in Validators, Block(v), ~Fault
  PROVE  \/ pc = "initMined" /\ Initialises(pool[v][1]) /\ answer' = "ok" /\ pool[v][1].id = k
         \/ pc = "createMined" /\ Proposes(v, pool[v][1]) /\ answer' = "ok"
         \/ pc = "createMined" /\ Reverts(pool[v][1]) /\ at.attempt = 0
         \/ pc = "voteMined" /\ VotesFor(v, pool[v][1]) /\ answer' = "ok"
              /\ pool[v][1].id = at.prop /\ v = at.voter
<1> DEFINE t == pool[v][1]
<1>1. /\ t.own /\ Awaited(t) /\ Len(pool[v]) > 0
      /\ Succeeds(v, t) \/ (~Accepted(v, t) /\ Reverts(t))
  BY CleanMined
<1> HIDE DEF t
<1>2. Succeeds(v, t) => answer' = "ok"
  BY <1>1 DEF Succeeds
<1>3. answer = "none"
  BY <1>1 DEF Awaited
<1>4. CASE pc = "initMined"
  <2>1. t.kind = "init" /\ t.id = k
    BY <1>1, <1>4 DEF Awaited
  <2>2. inited = 1..(k - 1) /\ k \in Nat
    BY <1>3, <1>4 DEF Clean, CleanInit, Inv, Position, Contracts
  <2>3. Accepted(v, t)
    BY <2>1, <2>2 DEF Accepted
  <2> QED
    BY <1>1, <1>2, <1>4, <2>1, <2>3 DEF Succeeds, t
<1>5. CASE pc = "createMined"
  <2>1. t.kind = "create"
    BY <1>1, <1>5 DEF Awaited
  <2>2. CASE Succeeds(v, t)
    BY <1>2, <1>5, <2>1, <2>2 DEF Succeeds, t
  <2>3. CASE ~Accepted(v, t) /\ Reverts(t)
    <3>1. 1 \in inited /\ v \in Eligible
      BY <1>5, CleanEligible DEF Clean, CleanInit, Contracts
    <3>2. ~(age[v] >= Cooldown)
      BY <2>1, <2>3, <3>1 DEF Accepted
    <3>3. at.attempt = 0
      BY <1>3, <1>5, <3>2 DEF Clean, CleanAttempts
    <3> QED
      BY <1>5, <2>3, <3>3 DEF t
  <2> QED
    BY <1>1, <2>2, <2>3
<1>6. CASE pc = "voteMined"
  <2>1. t.kind = "vote" /\ t.id = at.prop
    BY <1>1, <1>6 DEF Awaited
  <2>2. v = at.voter
    BY <1>1, <1>6 DEF Clean, CleanChain
  <2>3. v \in Eligible
    BY <1>6, CleanEligible DEF Clean
  <2>4. ~props[at.prop].passed /\ props[at.prop].voters = 1..(v - 1)
    BY <1>3, <1>6, <2>2 DEF Clean, CleanVotes
  <2>5. v \notin 1..(v - 1)
    BY DEF Validators
  <2>6. Accepted(v, t)
    BY <2>1, <2>3, <2>4, <2>5 DEF Accepted
  <2> QED
    BY <1>1, <1>2, <1>6, <2>1, <2>2, <2>6 DEF Succeeds, t
<1> QED
  BY <1>1, <1>4, <1>5, <1>6 DEF Awaited

LEMMA BlockClean ==
  ASSUME Inv, Clean, NEW v \in Validators, Block(v), ~Fault
  PROVE  Clean'
<1> DEFINE t == pool[v][1]
<1>0. TypeOK /\ Position /\ CleanChain /\ CleanInit /\ CleanPasses /\ CleanAttempts /\ CleanVotes /\ Votes
  BY DEF Inv, Clean
<1>1. /\ active' = active /\ halted' = halted /\ starts' = starts
      /\ pc' = pc /\ at' = at /\ pass' = pass /\ k' = k /\ unresolved' = unresolved
      /\ request' = request /\ current' = current
  BY BlockFrame DEF Process, auto, call, counters
<1>2. /\ t.own /\ answer = "none" /\ answer' # "none" /\ settled' = settled
      /\ \A w \in Validators : \A i \in 1..Len(pool'[w]) : pool'[w][i].own
      /\ \A w \in Validators : Len(pool'[w]) > 0 => Len(pool[w]) > 0
  BY CleanMined DEF Awaited
<1>3. \/ pc = "initMined" /\ Initialises(t) /\ answer' = "ok" /\ t.id = k
      \/ pc = "createMined" /\ Proposes(v, t) /\ answer' = "ok"
      \/ pc = "createMined" /\ Reverts(t) /\ at.attempt = 0
      \/ pc = "voteMined" /\ VotesFor(v, t) /\ answer' = "ok" /\ t.id = at.prop /\ v = at.voter
  BY CleanAccepted
<1> HIDE DEF t
<1>4. CleanChain'
  BY <1>0, <1>1, <1>2, <1>3 DEF CleanChain
<1>5. CleanPasses'
  <2>1. Returning' = Returning
    BY <1>1 DEF Returning
  <2> QED
    BY <1>0, <1>1, <1>2, <2>1 DEF CleanPasses
<1>6. CleanAttempts'
  BY <1>0, <1>1, <1>2, <1>3 DEF CleanAttempts
<1>7. CleanInit' /\ CleanVotes'
  <2>1. CASE pc = "initMined" /\ Initialises(t) /\ answer' = "ok" /\ t.id = k
    <3>1. inited' = 1..k
      <4>1. inited = 1..(k - 1) /\ k \in Nat /\ k > 0
        BY <1>0, <1>2, <2>1 DEF CleanInit, Position, Contracts
      <4>2. inited' = inited \cup {k}
        BY <2>1 DEF Initialises
      <4> QED
        BY <4>1, <4>2
    <3>2. CleanInit'
      BY <1>0, <1>1, <2>1, <3>1 DEF CleanInit
    <3>3. CleanVotes'
      BY <1>0, <1>1, <2>1 DEF CleanVotes, Voting
    <3> QED
      BY <3>2, <3>3
  <2>c. ASSUME pc \in {"createMined", "voteMined"}, inited' = inited PROVE CleanInit'
    BY <1>0, <1>1, <2>c DEF CleanInit
  <2>2. CASE pc = "createMined" /\ Proposes(v, t) /\ answer' = "ok"
    <3>1. /\ inited' = inited /\ receipt' = Len(props) + 1
          /\ props' = Append(props, [asks |-> t.asks, voters |-> {}, passed |-> FALSE])
      BY <1>2, <2>2 DEF Proposes
    <3>2. props'[receipt'] = [asks |-> t.asks, voters |-> {}, passed |-> FALSE]
      BY <1>0, <3>1 DEF TypeOK
    <3>3. ~props'[receipt'].passed /\ props'[receipt'].voters = {}
      BY <3>2
    <3>4. CleanVotes'
      BY <1>0, <1>1, <2>2, <3>3 DEF CleanVotes, Voting
    <3> QED
      BY <2>c, <2>2, <3>1, <3>4
  <2>3. CASE pc = "createMined" /\ Reverts(t) /\ at.attempt = 0
    <3>1. inited' = inited /\ answer' = "reverted"
      BY <1>2, <2>3 DEF Reverts, contracts
    <3>2. CleanVotes'
      BY <1>0, <1>1, <2>3, <3>1 DEF CleanVotes, Voting
    <3> QED
      BY <2>c, <2>3, <3>1, <3>2
  <2>4. CASE pc = "voteMined" /\ VotesFor(v, t) /\ answer' = "ok" /\ t.id = at.prop /\ v = at.voter
    <3> DEFINE voters == 1..v
    <3>1. /\ ~props[at.prop].passed /\ props[at.prop].voters = 1..(v - 1)
          /\ props[at.prop].asks = request /\ at.prop \in 1..Len(props)
      <4>1. ~props[at.prop].passed /\ props[at.prop].voters = 1..(v - 1)
        BY <1>0, <1>2, <2>4 DEF CleanVotes
      <4>2. at.prop > 0 /\ props[at.prop].asks = request
        BY <1>0, <2>4 DEF Votes, Voting
      <4>3. at.prop \in 0..Len(props)
        BY <1>0 DEF TypeOK
      <4> QED
        BY <4>1, <4>2, <4>3
    <3>2. props[at.prop].voters \cup {v} = voters /\ voters \in SUBSET Validators /\ v \in 1..N
      BY <3>1 DEF Validators
    <3> HIDE DEF voters
    <3>3. /\ props' = [props EXCEPT ![at.prop].voters = voters, ![at.prop].passed = Majority(voters)]
          /\ value' = IF Majority(voters) THEN [value EXCEPT ![request.cid] = request.val] ELSE value
          /\ inited' = inited
      BY <2>4, <3>1, <3>2 DEF VotesFor
    <3>4. request.cid \in Cids /\ value \in [Cids -> Values]
      BY <1>0, <2>4 DEF TypeOK, Position, Ensuring, Requests
    <3>5. CASE Majority(voters)
      <4>1. value'[request.cid] = request.val
        BY <3>3, <3>4, <3>5
      <4>2. CleanVotes'
        BY <1>0, <1>1, <2>4, <4>1 DEF CleanVotes, Voting
      <4> QED
        BY <2>c, <2>4, <3>3, <4>2
    <3>6. CASE ~Majority(voters)
      <4>1. v # N
        <5>1. Eligible = Validators
          BY <1>0, <2>4, CleanEligible
        <5>2. v = N => voters = Validators
          BY DEF voters, Validators
        <5> QED
          BY <3>6, <5>1, <5>2, AllVotes DEF Majority
      <4>a. Majority(voters) = FALSE
        BY <3>6 DEF Majority
      <4>b. props' = [props EXCEPT ![at.prop].voters = voters, ![at.prop].passed = FALSE]
        BY <3>3, <4>a
      <4>2. props'[at.prop] = [asks |-> props[at.prop].asks, voters |-> voters, passed |-> FALSE]
        <5>1. props \in Seq(Proposal)
          BY <1>0 DEF TypeOK
        <5> QED
          BY <3>1, <3>2, <4>b, <5>1, VoteCounted
      <4>3. ~props'[at.prop].passed /\ props'[at.prop].voters = voters
        BY <4>2
      <4>4. at.voter < N
        BY <2>4, <3>2, <4>1
      <4>5. CleanVotes'
        BY <1>0, <1>1, <2>4, <4>3, <4>4 DEF CleanVotes, Voting, voters
      <4> QED
        BY <2>c, <2>4, <3>3, <4>5
    <3> QED
      BY <3>5, <3>6
  <2> QED
    BY <1>3, <2>1, <2>2, <2>3, <2>4
<1> QED
  BY <1>4, <1>5, <1>6, <1>7 DEF Clean

LEMMA IdleChainClean ==
  ASSUME Inv, Clean, IdleChainSteps, ~Fault
  PROVE  Clean'
<1>0. TypeOK /\ CleanChain /\ CleanInit /\ CleanPasses /\ CleanAttempts /\ CleanVotes
  BY DEF Inv, Clean
<1>1. Tick
  BY DEF IdleChainSteps, Jail, Halt
<1>2. /\ active' = active /\ halted' = halted /\ starts' = starts /\ pool' = pool
      /\ value' = value /\ props' = props /\ inited' = inited /\ settled' = settled
      /\ pc' = pc /\ at' = at /\ pass' = pass /\ k' = k /\ unresolved' = unresolved
      /\ request' = request /\ current' = current /\ answer' = answer /\ receipt' = receipt
  BY <1>1 DEF Tick, contracts, Process, mining, counters, auto, call
<1>3. \A v \in Validators : age'[v] = Older(age[v])
  BY <1>1 DEF Tick, Aged
<1>4. wait' = (IF wait > 0 THEN wait - 1 ELSE 0)
  BY <1>1 DEF Tick, Aged
<1>5. age \in [Validators -> Nat] /\ wait \in Nat /\ limits' = limits
  BY <1>0, <1>1 DEF TypeOK, Tick, counters
<1>a. Cooldown' = Cooldown
  BY <1>2, <1>5 DEF Cooldown
<1>b. Cooldown \in Nat /\ limits.ages \in Nat /\ Cooldown <= limits.ages
  BY <1>0, CooldownOK
<1>6. ASSUME NEW v \in Validators
      PROVE  /\ age[v] + wait >= Cooldown => age'[v] + wait' >= Cooldown
             /\ age[v] >= Cooldown => age'[v] >= Cooldown
  <2>1. age[v] \in Nat /\ age'[v] = (IF age[v] < limits.ages THEN age[v] + 1 ELSE age[v])
    BY <1>3, <1>5 DEF Older
  <2> QED
    BY <1>4, <1>5, <1>b, <2>1
<1>7. CleanAttempts'
  BY <1>0, <1>2, <1>6, <1>a DEF CleanAttempts
<1>8. CleanChain' /\ CleanInit' /\ CleanVotes'
  BY <1>0, <1>2 DEF CleanChain, CleanInit, CleanVotes
<1>9. CleanPasses'
  BY <1>0, <1>2 DEF CleanPasses, Returning
<1> QED
  BY <1>7, <1>8, <1>9 DEF Clean

LEMMA CleanStep ==
  ASSUME Inv, CleanInv, [Next]_vars
  PROVE  CleanInv'
<1> SUFFICES ASSUME faults' = 0, Attempts > 1 PROVE Clean'
  BY DEF CleanInv
<1>1. ~Fault /\ faults = 0
  BY FaultsGrow
<1>2. Clean
  BY <1>1 DEF CleanInv
<1>3. CASE UNCHANGED vars
  <2>1. Cooldown' = Cooldown
    BY <1>3 DEF Cooldown, vars, chainVars, contracts, counters
  <2> QED
    BY <1>2, <1>3, <2>1 DEF Clean, CleanChain, CleanInit, CleanPasses, CleanAttempts, CleanVotes,
                            Returning, vars, chainVars, contracts, auto, call, mining, counters
<1>4. CASE Next
  BY <1>1, <1>2, <1>4, NextParts, EnsureClean, AutoClean, OtherClean, BlockClean, IdleChainClean
     DEF ChainSteps
<1> QED
  BY <1>3, <1>4

(* Without a fault no call of EnsureConfig fails and autoInitialize        *)
(* reaches every target, when EnsureConfig may start a second round: the   *)
(* first one may run into a validator that is still cooling down.          *)
THEOREM CleanCallsSucceed ==
  ASSUME Attempts > 1
  PROVE  Spec => []CleanRunsSucceed
<1>1. Init => CleanInv
  <2> SUFFICES ASSUME Init PROVE Clean
    BY DEF CleanInv
  <2>1. /\ active = Validators /\ ~halted /\ pc = "off" /\ inited = {} /\ starts = 0 /\ ~unresolved
        /\ pass = "ensure" /\ at = Fresh /\ pool = [v \in Validators |-> <<>>]
    BY DEF Init
  <2>2. CleanChain /\ CleanInit
    BY <2>1 DEF CleanChain, CleanInit
  <2>3. CleanPasses /\ CleanAttempts /\ CleanVotes
    BY <2>1 DEF CleanPasses, CleanAttempts, CleanVotes, Fresh, Voting, Ensuring
  <2> QED
    BY <2>2, <2>3 DEF Clean
<1>2. Inv /\ CleanInv => CleanRunsSucceed
  <2> SUFFICES ASSUME Inv, Clean PROVE /\ pc \notin {"failed", "panic"}
                                       /\ pc = "idle" => \A c \in Cids : settled[c] # None
    BY DEF CleanInv, CleanRunsSucceed
  <2> QED
    BY DEF Inv, Position, Clean, CleanChain, CleanPasses, Ensuring
<1> QED
  BY <1>1, <1>2, CleanStep, Correct, PTL DEF Spec

==================================================================================
