------------------------------ MODULE SignerRotation ------------------------------
(***************************************************************************)
(* internal/testkit/checkpoint_rotation.go: a test gives a validator a new *)
(* signer and restarts its node with it, stops and restarts nodes, and     *)
(* reconnects the ones that are left.  One test process makes one call at  *)
(* a time; a call is a sequence of changes to files, to pm2, to nodes, and *)
(* any of them may fail or be the last one before the test is killed.  The *)
(* nodes run beside it: they crash, pm2 starts them again, they make       *)
(* blocks, connect and lose connections.                                   *)
(*                                                                         *)
(* A signer is a number: n is what node n starts with, the ones above NN   *)
(* are created by rotations.  A key file, an account in a keystore, the    *)
(* addresses and paths of the environment file and the arguments that pm2  *)
(* keeps of a process stand for the signer they belong to.                 *)
(***************************************************************************)
EXTENDS Integers, FiniteSets

CONSTANTS
  Epoch,       \* blocks of an epoch
  Setups       \* the networks to look at, the calls, and the bounds

AllKinds == {"prepare", "restartWith", "restart", "stop", "reconnect", "activate", "coinbase"}
Renewing == {"restartWith", "activate"}

(* A setup: its nodes are 1..nodes; the validators have a signer, the      *)
(* others only follow; those in reth run reth, the others geth; the test   *)
(* has the RPC URL of those in known; single is one node under             *)
(* native_single.sh instead of pm2; emits, whether receipts                *)
(* have a ScheduleValidatorSigner event.  Bounds: calls; failing steps,    *)
(* crashes, lost connections and kills; heights that are told apart.       *)
Setup ==
  [nodes : Nat \ {0}, validators : SUBSET Nat, reth : SUBSET Nat, known : SUBSET Nat,
   single : BOOLEAN, emits : BOOLEAN, kinds : SUBSET AllKinds, calls : Nat, faults : Nat,
   height : Nat \ {0}]

ASSUME RotationAssumption ==
  /\ Epoch \in Nat \ {0}
  /\ \A s \in Setups : s \in Setup /\ s.validators \cup s.reth \subseteq 1..s.nodes

None == 0

VARIABLES
  setup,
  \* what a node has on disk
  keyFile, addrFile,  \* signer.key and signer.addr
  store,              \* accounts in its keystore
  env,                \* its lines in data/native/.env
  \* processes
  argv,               \* signer in the arguments that the process runs with
  proc,               \* "online", "starting", "down", "stopping", "stopped" or
                      \* "deleted"
  peers,              \* connections, as sets of two nodes
  wanted,             \* peers that a node was told to keep up
  \* the chain
  height, coinbase,
  signerOf, pendingOf, effectiveAt, \* the Validators contract, per validator
  pool,               \* rotations that are sent and not mined
  \* the test
  held,               \* signers whose key it has
  call,               \* the call it is making, and what it finds
  pc, todo,           \* its next step, the nodes it is still to ask
  pid,                \* lastPID of StopValidatorNode
  effective,          \* EffectiveBlock that the last rotation returned
  res,
  \* history
  clean,              \* nothing has failed since this call began, no deadline passed
  broken,             \* validators whose last call with a new signer failed
  due,                \* block from which the last mined rotation counts
  calls, faults

disk == <<setup, keyFile, addrFile, store, env>>
procs == <<argv, proc, peers, wanted>>
contract == <<height, coinbase, signerOf, pendingOf, effectiveAt, pool, due>>
test == <<held, call, todo, pid, effective, calls>>
vars == <<disk, procs, contract, test, pc, res, clean, broken, faults>>

NN == setup.nodes
Nodes == 1..NN
Validators == setup.validators
reth == setup.reth
Single == setup.single
Emits == setup.emits
Signers == 1..(NN + setup.calls)

n == call.node
Online(S) == \A m \in S : proc[m] = "online"
Others == Nodes \ {n}
Known == setup.known
Heard == Others \cap Known   \* the others that a call can ask
HasPeer(m) == \E e \in peers : m \in e
Pairs(S) == {e \in SUBSET S : Cardinality(e) = 2}
Own == [m \in Nodes |-> m]

Init ==
  /\ setup \in Setups
  /\ keyFile = Own /\ addrFile = Own /\ env = Own /\ argv = Own
  /\ store = [m \in Nodes |-> {m}]
  /\ proc = [m \in Nodes |-> "online"] /\ peers = Pairs(Nodes)
  /\ wanted = [m \in Nodes |-> {}]
  /\ height = 1 /\ coinbase = 1 /\ signerOf = Own
  /\ pendingOf = [m \in Nodes |-> None] /\ effectiveAt = [m \in Nodes |-> 0]
  /\ pool = {} /\ due = 0
  /\ held = Nodes
  /\ call = [kind |-> "none", node |-> 1, key |-> 1, able |-> TRUE, company |-> TRUE]
  /\ pc = "idle" /\ todo = {} /\ pid = "unknown" /\ effective = 0 /\ res = "ok"
  /\ clean = TRUE /\ broken = {} /\ calls = 0 /\ faults = 0

Fault == faults < setup.faults /\ faults' = faults + 1 /\ clean' = FALSE
NoFault == UNCHANGED <<clean, faults>>

-----------------------------------------------------------------------------
(* The nodes and the chain.                                                *)

\* the process of m ends; its connections end with it
Ends(m, state) ==
  /\ proc' = [proc EXCEPT ![m] = state]
  /\ peers' = {e \in peers : m \notin e}
  /\ wanted' = [wanted EXCEPT ![m] = {}]

\* a started node comes up if it can unlock the signer of its arguments
Boot(m) ==
  /\ proc[m] = "starting"
  /\ proc' = [proc EXCEPT ![m] = IF argv[m] \in store[m] \/ m \notin Validators
                                 THEN "online" ELSE "down"]
  /\ UNCHANGED <<disk, argv, peers, wanted, contract, test, pc, res, clean, broken, faults>>

Crash(m) ==
  /\ proc[m] \in {"starting", "online"} /\ Fault /\ Ends(m, "down")
  /\ UNCHANGED <<disk, argv, contract, test, pc, res, broken>>

\* autorestart of pm2, with the arguments it has kept
Autorestart(m) ==  \* without fairness: max_restarts may have been reached
  /\ ~Single /\ proc[m] = "down" /\ proc' = [proc EXCEPT ![m] = "starting"]
  /\ UNCHANGED <<disk, argv, peers, wanted, contract, test, pc, res, clean, broken, faults>>

\* a node that was told to stop has flushed its state and exits
Exit(m) ==
  /\ proc[m] = "stopping" /\ proc' = [proc EXCEPT ![m] = "stopped"]
  /\ UNCHANGED <<disk, argv, peers, wanted, contract, test, pc, res, clean, broken, faults>>

Connect(e) ==
  /\ Online(e) /\ e \notin peers /\ \E a, b \in e : b \in wanted[a]
  /\ peers' = peers \cup {e}
  /\ UNCHANGED <<disk, argv, proc, wanted, contract, test, pc, res, clean, broken, faults>>

\* discovery by the bootnodes of the arguments: may happen, need not
Discover(e) ==
  /\ Online(e) /\ e \notin peers /\ peers' = peers \cup {e}
  /\ UNCHANGED <<disk, argv, proc, wanted, contract, test, pc, res, clean, broken, faults>>

Disconnect(e) ==
  /\ e \in peers /\ Fault /\ peers' = peers \ {e}
  /\ UNCHANGED <<disk, argv, proc, wanted, contract, test, pc, res, broken>>

\* node m makes a block if it runs with the signer that is in effect; a
\* signer counts for the blocks after its checkpoint
Block(m) ==
  /\ m \in Validators /\ proc[m] = "online" /\ argv[m] = signerOf[m]
  /\ coinbase' = argv[m] /\ height' = (IF height < setup.height THEN height + 1 ELSE height)
  /\ <<coinbase', height'>> # <<coinbase, height>>
  /\ LET comes(v) == pendingOf[v] # None /\ height' >= effectiveAt[v]
     IN /\ signerOf' = [v \in Nodes |-> IF comes(v) THEN pendingOf[v] ELSE signerOf[v]]
        /\ pendingOf' = [v \in Nodes |-> IF comes(v) THEN None ELSE pendingOf[v]]
  /\ UNCHANGED <<disk, procs, effectiveAt, pool, due, test, pc, res, clean, broken, faults>>

NextCheckpoint(x) == ((x \div Epoch) + 1) * Epoch

\* a rotation is mined, in the order of the nonces: the contract schedules it
\* for the next checkpoint
Mine(tx) ==
  /\ tx \in pool /\ \A t \in pool : t.node = tx.node => tx.key <= t.key
  /\ NextCheckpoint(height) <= setup.height
  /\ pool' = pool \ {tx}
  /\ pendingOf' = [pendingOf EXCEPT ![tx.node] = tx.key]
  /\ effectiveAt' = [effectiveAt EXCEPT ![tx.node] = NextCheckpoint(height)]
  /\ due' = IF tx.key = call.key THEN NextCheckpoint(height) ELSE due
  /\ UNCHANGED <<disk, procs, height, coinbase, signerOf, test, pc, res, clean, broken, faults>>

-----------------------------------------------------------------------------
(* Calls.                                                                  *)

First(kind) ==
  CASE kind = "prepare" -> "create"
    [] kind \in Renewing -> "key"
    [] kind = "restart" -> "restart"
    [] kind = "stop" -> "stop"
    [] kind = "reconnect" -> "add"
    [] kind = "coinbase" -> "coinbase"

(* What a call cannot do without: a process that pm2 knows, arguments that *)
(* the node can unlock, keystores from which the ecosystem file can make   *)
(* the arguments of the other reth validators, two nodes to connect.       *)
Able(kind, node) ==
  /\ kind \in {"restart", "stop"} => proc[node] # "deleted"
  /\ kind = "restart" /\ node \in Known => argv[node] \in store[node]
  /\ kind \in Renewing /\ ~Single =>
       \A m \in (reth \cap Validators) \ {node} : env[m] \in store[m]
  /\ kind = "reconnect" => Cardinality((Nodes \ {node}) \cap Known) >= 2

\* the nodes that a call connects to each other are up when it begins
Company(kind, node) ==
  kind \in Renewing \cup {"restart", "reconnect"} => Online((Nodes \ {node}) \cap Known)

\* a rotated signer belongs to the validator it was created for
Belongs(key, node) == key = node \/ key = pendingOf[node] \/ key = signerOf[node]

Begin ==
  /\ pc = "idle" /\ calls < setup.calls /\ calls' = calls + 1
  /\ \E kind \in setup.kinds, node \in Validators, key \in held :
       /\ Belongs(key, node)
       /\ kind = "reconnect" => proc[node] \in {"stopping", "stopped"}
       /\ call' = [kind |-> kind, node |-> node, key |-> key,
                   able |-> Able(kind, node), company |-> Company(kind, node)]
       /\ pc' = First(kind)
       /\ todo' = IF kind = "reconnect" THEN (Nodes \ {node}) \cap Known ELSE {}
  /\ res' = "running" /\ pid' = "unknown" /\ clean' = TRUE
  /\ UNCHANGED <<disk, procs, contract, held, effective, broken, faults>>

Return(result) ==
  /\ pc' = "idle" /\ res' = result
  /\ broken' = IF call.kind \in Renewing
               THEN IF result = "ok" THEN broken \ {n} ELSE broken \cup {n}
               ELSE broken

Go(next) == pc' = next /\ UNCHANGED <<res, broken>>

\* a step that fails; the call returns its error
Fails(steps) ==
  /\ pc \in steps /\ Fault /\ Return("error")
  /\ UNCHANGED <<disk, procs, contract, test>>

\* a deadline passes
Late(steps) ==
  /\ pc \in steps /\ Return("error") /\ clean' = FALSE
  /\ UNCHANGED <<disk, procs, contract, test, faults>>

\* the test process is killed, by go test -timeout or with the run
Kill ==
  /\ pc # "idle" /\ Fault /\ Return("killed")
  /\ held' = Nodes
  /\ UNCHANGED <<disk, procs, contract, call, todo, pid, effective, calls>>

-----------------------------------------------------------------------------
(* PrepareValidatorSignerRotation.                                         *)

CreateSigner ==
  /\ pc = "create"
  /\ call' = [call EXCEPT !.key = NN + calls]
  /\ Go("send") /\ NoFault
  /\ UNCHANGED <<disk, procs, contract, held, todo, pid, effective, calls>>

\* the node takes the transaction; the answer may be lost
Send ==
  /\ pc = "send" /\ pool' = pool \cup {[node |-> n, key |-> call.key]}
  /\ \/ Go("mined") /\ NoFault
     \/ Fault /\ Return("error")
  /\ UNCHANGED <<disk, procs, height, coinbase, signerOf, pendingOf, effectiveAt, due, test>>

Mined ==
  /\ pc = "mined" /\ [node |-> n, key |-> call.key] \notin pool
  /\ Go("receipt") /\ NoFault
  /\ UNCHANGED <<disk, procs, contract, test>>

\* Mutant of Fallback: the checkpoint that has been.
Fallback_previous == (height \div Epoch) * Epoch
\* no event in the receipt: the checkpoint after the present height
Fallback == ((height \div Epoch) + 1) * Epoch

\* Mutant of Receipt: the event is not looked for.
Receipt_guess ==
  /\ pc = "receipt" /\ effective' = Fallback /\ held' = held \cup {call.key}
  /\ Return("ok") /\ NoFault
  /\ UNCHANGED <<disk, procs, contract, call, todo, pid, calls>>

Receipt ==
  /\ pc = "receipt"
  /\ effective' = IF Emits THEN effectiveAt[n] ELSE Fallback
  /\ held' = held \cup {call.key}
  /\ Return("ok") /\ NoFault
  /\ UNCHANGED <<disk, procs, contract, call, todo, pid, calls>>

-----------------------------------------------------------------------------
(* The files: writeRotatedSignerArtifacts, replaceNodeKeystore and         *)
(* updateEnvFile.                                                          *)

Writes == UNCHANGED <<procs, contract, test>> /\ NoFault

WriteKey ==
  /\ pc = "key" /\ keyFile' = [keyFile EXCEPT ![n] = call.key]
  /\ Go("addr") /\ Writes /\ UNCHANGED <<setup, addrFile, store, env>>

AfterArtifacts == IF Single THEN "down" ELSE "env"

\* Mutant of WriteAddr: only the key is written.
WriteAddr_key ==
  /\ pc = "addr" /\ Go(IF n \in reth THEN "clear" ELSE AfterArtifacts) /\ Writes
  /\ UNCHANGED disk

WriteAddr ==
  /\ pc = "addr" /\ addrFile' = [addrFile EXCEPT ![n] = call.key]
  /\ Go(IF n \in reth THEN "clear" ELSE AfterArtifacts) /\ Writes
  /\ UNCHANGED <<setup, keyFile, store, env>>

ClearStore ==
  /\ pc = "clear" /\ store' = [store EXCEPT ![n] = {}]
  /\ Go("import") /\ Writes /\ UNCHANGED <<setup, keyFile, addrFile, env>>

ImportStore ==
  /\ pc = "import" /\ store' = [store EXCEPT ![n] = {call.key}]
  /\ Go(AfterArtifacts) /\ Writes /\ UNCHANGED <<setup, keyFile, addrFile, env>>

SetEnv == env' = [env EXCEPT ![n] = call.key]

\* Mutant of UpdateEnv: the account is not imported.
UpdateEnv_noImport ==
  /\ pc = "env" /\ SetEnv
  /\ Go("delete") /\ Writes /\ UNCHANGED <<setup, keyFile, addrFile, store>>

UpdateEnv ==
  /\ pc = "env" /\ SetEnv
  /\ Go(IF \E m \in Nodes : m \notin reth THEN "account" ELSE "delete") /\ Writes
  /\ UNCHANGED <<setup, keyFile, addrFile, store>>

\* geth account import; an account that exists already is as good
ImportAccount ==
  /\ pc = "account" /\ store' = [store EXCEPT ![n] = @ \cup {keyFile[n]}]
  /\ Go("delete") /\ Writes /\ UNCHANGED <<setup, keyFile, addrFile, env>>

-----------------------------------------------------------------------------
(* pm2 and native_single.sh.                                               *)

Runs == UNCHANGED <<disk, contract, test>> /\ NoFault

\* Mutant of Delete: pm2 restart in its place, which keeps the arguments.
Delete_restart ==
  /\ pc = "delete" /\ Ends(n, "starting") /\ UNCHANGED argv /\ Go("ready") /\ Runs

\* Mutant of Delete: a process that is not there is an error.
Delete_strict ==
  /\ pc = "delete" /\ Ends(n, "deleted") /\ argv' = [argv EXCEPT ![n] = None]
  /\ (IF proc[n] = "deleted" THEN Return("error") ELSE Go("start")) /\ Runs

\* pm2 delete; a process that is not there is as good
Delete ==
  /\ pc = "delete" /\ Ends(n, "deleted") /\ argv' = [argv EXCEPT ![n] = None]
  /\ Go("start") /\ Runs

\* a node whose RPC URL is not known is not waited for
Started == IF n \in Known THEN Go("ready") ELSE Return("ok")

\* pm2 start: the ecosystem file makes the arguments of all nodes and
\* throws when one of them is to run reth without its keystore file
Ecosystem == \A m \in reth \cap Validators : (IF m = n THEN call.key ELSE env[m]) \in store[m]

StartProcess ==
  /\ pc = "start"
  /\ IF Ecosystem
     THEN /\ argv' = [argv EXCEPT ![n] = call.key]
          /\ proc' = [proc EXCEPT ![n] = "starting"] /\ Started
     ELSE UNCHANGED <<argv, proc>> /\ Return("error")
  /\ Runs /\ UNCHANGED <<peers, wanted>>

\* pm2 restart --update-env keeps the arguments
RestartProcess ==
  /\ pc = "restart"
  /\ IF proc[n] = "deleted" THEN UNCHANGED procs /\ Return("error")
     ELSE Ends(n, "starting") /\ UNCHANGED argv /\ Started
  /\ Runs

Stop ==
  /\ pc = "stop"
  /\ IF proc[n] = "deleted" THEN UNCHANGED procs /\ Return("error")
     ELSE Ends(n, IF proc[n] = "stopped" THEN "stopped" ELSE "stopping")
          /\ UNCHANGED argv /\ Go("pid")
  /\ Runs

\* Mutant of Down: a node that is not running is an error.
Down_strict ==
  /\ pc = "down" /\ Ends(n, "stopped") /\ UNCHANGED argv
  /\ (IF proc[n] = "online" THEN Go("up") ELSE Return("error")) /\ Runs

\* native_single.sh down, then up, which imports the key file when the
\* keystore lacks the address of the address file; reth runs with the
\* account that it finds in the keystore
Down ==
  /\ pc = "down" /\ Ends(n, "stopped") /\ UNCHANGED argv /\ Go("up") /\ Runs

\* Mutant of Up: the key file is not imported.
Up_noImport ==
  /\ pc = "up" /\ NoFault
  /\ argv' = [argv EXCEPT ![n] = addrFile[n]]
  /\ proc' = [proc EXCEPT ![n] = "starting"] /\ Go("ready")
  /\ UNCHANGED <<disk, peers, wanted, contract, test>>

Up ==
  /\ pc = "up" /\ NoFault
  /\ IF n \in reth /\ store[n] = {} THEN UNCHANGED <<store, argv, proc>> /\ Return("error")
     ELSE /\ store' = [store EXCEPT ![n] =
               IF n \notin reth /\ addrFile[n] \notin @ THEN @ \cup {keyFile[n]} ELSE @]
          /\ \E k \in (IF n \in reth THEN store[n] ELSE {addrFile[n]}) :
               argv' = [argv EXCEPT ![n] = k]
          /\ proc' = [proc EXCEPT ![n] = "starting"] /\ Go("ready")
  /\ UNCHANGED <<setup, keyFile, addrFile, env, peers, wanted, contract, test>>

-----------------------------------------------------------------------------
(* Waiting for a node and its peers.                                       *)

AddPeers(m, S) == wanted' = [wanted EXCEPT ![m] = @ \cup S]

\* Mutant of Ready: the answer of the node is not reported.
Ready_silent ==
  /\ pc = "ready" /\ proc[n] = "online" /\ pc' = "idle" /\ UNCHANGED <<res, broken>>
  /\ Runs /\ UNCHANGED procs

\* ethclient.Dial and BlockNumber; a single node has no peers
Ready ==
  /\ pc = "ready" /\ proc[n] = "online"
  /\ IF Single THEN Return("ok") /\ UNCHANGED todo
     ELSE Go("mesh") /\ todo' = Heard
  /\ NoFault /\ UNCHANGED <<disk, procs, contract, held, call, pid, effective, calls>>

\* Mutant of AddOthers: only the restarted node is told.
AddOthers_only ==
  /\ pc = "mesh" /\ Runs /\ UNCHANGED <<argv, proc, peers>>
  /\ IF proc[n] = "online" THEN AddPeers(n, Others) /\ Go("peers")
     ELSE UNCHANGED wanted /\ Return("error")

\* admin_addPeer for every other node on the restarted one
AddOthers ==
  /\ pc = "mesh" /\ Runs /\ UNCHANGED <<argv, proc, peers>>
  /\ IF proc[n] = "online" THEN AddPeers(n, Others) /\ Go("others")
     ELSE UNCHANGED wanted /\ Return("error")

\* and for the restarted one on every other node that is known, one after the other
AddSelf ==
  /\ pc = "others" /\ todo # {} /\ NoFault
  /\ LET m == CHOOSE x \in todo : \A y \in todo : x <= y
     IN /\ todo' = todo \ {m} /\ UNCHANGED <<argv, proc, peers>>
        /\ IF proc[m] = "online" THEN AddPeers(m, {n}) /\ Go(pc)
           ELSE UNCHANGED wanted /\ Return("error")
  /\ UNCHANGED <<disk, contract, held, call, pid, effective, calls>>

AllTold == pc = "others" /\ todo = {} /\ Go("peers") /\ Runs /\ UNCHANGED procs

PeerCount ==
  /\ pc = "peers" /\ proc[n] = "online" /\ HasPeer(n)
  /\ Return("ok") /\ Runs /\ UNCHANGED procs

\* StopValidatorNode: the process id that pm2 reports, if it does, then the RPC
AskPid ==
  /\ pc = "pid" /\ Go("rpc")
  /\ \/ pid' = (IF proc[n] \in {"online", "starting", "stopping"} THEN "some" ELSE "none") /\ NoFault
     \/ pid' = pid /\ Fault
  /\ UNCHANGED <<disk, procs, contract, held, call, todo, effective, calls>>

\* a node whose URL is not known counts as down
Answers(m) == m \in Known /\ proc[m] \in {"online", "stopping"}

\* Mutant of AskRpc: a node that does not answer has stopped.
AskRpc_only ==
  /\ pc = "rpc" /\ UNCHANGED <<disk, procs, contract, test>>
  /\ \E down \in {~Answers(n), TRUE} :
       /\ IF down = ~Answers(n) THEN NoFault ELSE Fault
       /\ IF down THEN Return("ok") ELSE Go("pid")

AskRpc ==
  /\ pc = "rpc" /\ UNCHANGED <<disk, procs, contract, test>>
  /\ \E down \in {~Answers(n), TRUE} :
       /\ IF down = ~Answers(n) THEN NoFault ELSE Fault
       /\ IF down /\ pid = "none" THEN Return("ok") ELSE Go("pid")

\* ReconnectRemainingNodePeers: every live node is told of every other one
Enough == Cardinality(Heard) >= 2
AddAll ==
  /\ pc = "add" /\ (Enough => todo # {}) /\ NoFault
  /\ LET m == CHOOSE x \in todo : \A y \in todo : x <= y
     IN IF Enough /\ proc[m] = "online"
        THEN /\ AddPeers(m, Heard \ {m})
             /\ todo' = todo \ {m} /\ Go(pc)
        ELSE UNCHANGED <<wanted, todo>> /\ Return("error")
  /\ UNCHANGED <<disk, argv, proc, peers, contract, held, call, pid, effective, calls>>

StartCounting ==
  /\ pc = "add" /\ Enough /\ todo = {} /\ todo' = Heard /\ Go("count") /\ NoFault
  /\ UNCHANGED <<disk, procs, contract, held, call, pid, effective, calls>>

\* Mutant of CountPeers: one node with peers is enough.
CountPeers_any ==
  /\ pc = "count" /\ NoFault
  /\ IF \E m \in todo : HasPeer(m) THEN Return("ok") ELSE Go(pc)
  /\ UNCHANGED <<disk, procs, contract, test>>

\* one poll asks node after node and starts over at the first without peers
CountPeers ==
  /\ pc = "count" /\ NoFault
  /\ LET m == CHOOSE x \in todo : \A y \in todo : x <= y
     IN IF proc[m] = "online" /\ HasPeer(m)
        THEN IF todo = {m} THEN Return("ok") /\ UNCHANGED todo
             ELSE todo' = todo \ {m} /\ Go(pc)
        ELSE todo' = Heard /\ Go(pc)
  /\ UNCHANGED <<disk, procs, contract, held, call, pid, effective, calls>>

\* WaitForCoinbaseSigner
SeeCoinbase ==
  /\ pc = "coinbase" /\ coinbase = call.key /\ Return("ok") /\ Runs /\ UNCHANGED procs

Prepare == CreateSigner \/ Send \/ Mined \/ Receipt
Artifacts == WriteKey \/ WriteAddr \/ ClearStore \/ ImportStore \/ UpdateEnv \/ ImportAccount
Process == Delete \/ StartProcess \/ RestartProcess \/ Stop \/ Down \/ Up
Peering == Ready \/ AddOthers \/ AddSelf \/ AllTold \/ PeerCount
Stopping == AskPid \/ AskRpc
Reconnect == AddAll \/ StartCounting \/ CountPeers
\* Mutant of TimesOut: the wait for the process to stop has no deadline.
TimesOut_stop == Late({"mined", "ready", "peers", "count", "coinbase"})

TimesOut == Late({"mined", "ready", "peers", "pid", "count", "coinbase"})
Step == Prepare \/ Artifacts \/ Process \/ Peering \/ Stopping \/ Reconnect \/ SeeCoinbase

Errors ==
  Fails({"create", "send", "mined", "receipt", "key", "addr", "clear", "import", "env",
         "account", "delete", "start", "restart", "stop", "down", "up", "mesh", "others",
         "add"})

Node ==
  \/ \E m \in Nodes : Boot(m) \/ Exit(m) \/ Crash(m) \/ Autorestart(m) \/ Block(m)
  \/ \E e \in Pairs(Nodes) : Connect(e) \/ Discover(e) \/ Disconnect(e)
  \/ \E tx \in pool : Mine(tx)

Next == Begin \/ Step \/ TimesOut \/ Errors \/ Kill \/ Node

\* every loop has a deadline that passes however its polls end; nodes boot, dial the peers they are told of
\* and make blocks
Spec ==
  /\ Init /\ [][Next]_vars
  /\ WF_vars(Step) /\ SF_vars(TimesOut)
  /\ \A m \in UNION {1..s.nodes : s \in Setups} :
       WF_vars(m \in Nodes /\ Boot(m)) /\ WF_vars(m \in Nodes /\ Block(m))

-----------------------------------------------------------------------------
TypeOK ==
  /\ setup \in Setups /\ keyFile \in [Nodes -> Signers] /\ addrFile \in [Nodes -> Signers]
  /\ store \in [Nodes -> SUBSET Signers] /\ env \in [Nodes -> Signers]
  /\ argv \in [Nodes -> Signers \cup {None}]
  /\ proc \in [Nodes -> {"online", "starting", "down", "stopping", "stopped", "deleted"}]
  /\ peers \subseteq Pairs(Nodes) /\ wanted \in [Nodes -> SUBSET Nodes]
  /\ \A e \in peers : Online(e)
  /\ height \in 1..setup.height /\ coinbase \in Signers
  /\ signerOf \in [Nodes -> Signers] /\ pendingOf \in [Nodes -> Signers \cup {None}]
  /\ held \subseteq Signers /\ todo \subseteq Nodes
  /\ pid \in {"unknown", "none", "some"} /\ res \in {"ok", "error", "killed", "running"}
  /\ broken \subseteq Validators /\ (pc = "idle") = (res # "running")

Idle(kinds) == pc = "idle" /\ call.kind \in kinds

(* A restart with a new signer that reports success leaves the new signer  *)
(* everywhere: in the files, in the environment of later starts and in the *)
(* arguments of the process, whatever earlier calls have left half done.   *)
NewSignerEverywhere ==
  Idle(Renewing) /\ res = "ok" =>
    /\ keyFile[n] = call.key /\ addrFile[n] = call.key /\ argv[n] = call.key
    /\ ~Single => env[n] = call.key
    /\ call.key \in store[n]

(* A node that pm2 knows can be started again with the arguments that pm2  *)
(* keeps of it: their signer is in the keystore.  The exception is a reth  *)
(* node whose last change of the signer has failed or is under way, since  *)
(* its keystore is emptied before pm2 forgets the old arguments.           *)
Restartable ==
  \A m \in Validators :
    argv[m] # None /\ argv[m] \notin store[m] =>
      m \in reth /\ (m \in broken \/ (pc # "idle" /\ n = m))

(* What decides a call during which nothing fails and no deadline passes   *)
(* is Able and Company alone, whatever else the failed and killed calls    *)
(* before it have left: files that are written, accounts that exist, nodes *)
(* that crashed.  What Able names stays in the way of the call for good: a *)
(* process that a killed rotation has left deleted, old arguments beside a *)
(* new keystore, another reth validator whose keystore was emptied, fewer  *)
(* than two nodes to connect; then no success is reported.  The nodes of   *)
(* Company may come up in time, so without them both can happen.           *)
CleanCallSucceeds ==
  pc = "idle" =>
    /\ clean /\ call.able /\ call.company => res = "ok"
    /\ ~call.able => res # "ok"

(* StopValidatorNode does not take a node that has crashed, does not       *)
(* answer or is starting for one that is stopped.                          *)
StopMeansStopped == Idle({"stop"}) /\ res = "ok" => proc[n] = "stopped"

(* The block from which a rotation is said to count is never before the    *)
(* one from which it counts, and is that one when the event was found.     *)
EffectiveNotEarly ==
  Idle({"prepare"}) /\ res = "ok" => effective >= due /\ (Emits => effective = due)

(* After a restart without faults the restarted node keeps a connection up *)
(* to every other one, and the ones that can be asked to it.               *)
Meshed ==
  Idle(Renewing \cup {"restart"}) /\ res = "ok" /\ clean /\ ~Single /\ n \in Known =>
    Others \subseteq wanted[n] /\ \A m \in Heard : n \in wanted[m]

(* ReconnectRemainingNodePeers only counts peers; in a network of four     *)
(* nodes or less that is enough to leave no part of the remaining ones cut *)
(* off from the others, if each of the two has a node that was asked.      *)
Crosses(S) == \E e \in peers : e \cap S # {} /\ e \cap (Others \ S) # {}
RemainingConnected ==
  Idle({"reconnect"}) /\ res = "ok" /\ clean /\ NN <= 4 =>
    \A S \in SUBSET Others : S \cap Heard # {} /\ Heard \ S # {} => Crosses(S)

(* A call that reports success has done what it is for: the five           *)
(* statements above that begin with Idle.                                  *)
SuccessIsReal ==
  /\ TypeOK
  /\ NewSignerEverywhere /\ StopMeansStopped /\ EffectiveNotEarly /\ Meshed /\ RemainingConnected

(* Every call returns.                                                     *)
Returns == pc # "idle" ~> pc = "idle"

(* A rotation that is carried through takes effect: once the node has been *)
(* restarted with the signer that the contract expects, and no other one   *)
(* is on its way, a block by that signer comes, unless something fails or  *)
(* the next call is made.  Before the checkpoint that would be wrong: the  *)
(* only validator of a chain that is restarted too early never gets there. *)
Expected == call.key = signerOf[n] /\ pendingOf[n] = None /\ \A tx \in pool : tx.node # n
Seals ==
  (Idle({"restartWith"}) /\ res = "ok" /\ Expected) ~>
    (coinbase = call.key \/ faults > 0 \/ pc # "idle")
===================================================================================
