-------------------------- MODULE SignerRotation_proofs --------------------------
(***************************************************************************)
(* Proofs about the calls of checkpoint_rotation.go, for any networks and  *)
(* calls, any length of an epoch and any bounds on calls and faults.       *)
(***************************************************************************)
EXTENDS SignerRotation, FiniteSetTheorems, WellFoundedInduction, TLAPS

USE RotationAssumption DEF RotationAssumption

-----------------------------------------------------------------------------
(***************************************************************************)
(* The inductive invariant.  Position says which call a step belongs to,   *)
(* Files what the steps of a call with a new signer have written so far,   *)
(* Unlocked which validators could not unlock their signer, Judged that    *)
(* what a call needs stays as it found it and how far it comes without,    *)
(* Unharmed what a call meets as long as nothing has gone wrong, and the   *)
(* others what a call has come to know.                                    *)
(***************************************************************************)
Preparing == {"create", "send", "mined", "receipt"}
Writing == {"key", "addr", "clear", "import", "env", "account", "delete", "start", "down", "up"}
Meeting == {"mesh", "others", "peers"}
PCs == {"idle", "restart", "stop", "pid", "rpc", "add", "count", "coinbase", "ready"}
         \cup Preparing \cup Writing \cup Meeting
Done == pc = "idle" /\ res = "ok"

DiskOK ==
  /\ setup \in Setups /\ keyFile \in [Nodes -> Signers] /\ addrFile \in [Nodes -> Signers]
  /\ store \in [Nodes -> SUBSET Signers] /\ env \in [Nodes -> Signers]

ProcsOK ==
  /\ argv \in [Nodes -> Signers \cup {None}]
  /\ proc \in [Nodes -> {"online", "starting", "down", "stopping", "stopped", "deleted"}]
  /\ peers \subseteq Pairs(Nodes) /\ wanted \in [Nodes -> SUBSET Nodes]
  /\ \A e \in peers : Online(e)

ChainOK ==
  /\ height \in 1..setup.height /\ coinbase \in Signers
  /\ signerOf \in [Nodes -> Signers] /\ pendingOf \in [Nodes -> Signers \cup {None}]
  /\ effectiveAt \in [Nodes -> Nat] /\ due \in Nat
  /\ pool \subseteq [node : Nodes, key : Signers]

TestOK ==
  /\ call \in [kind : AllKinds \cup {"none"}, node : Nodes, key : Signers,
               able : BOOLEAN, company : BOOLEAN]
  /\ held \subseteq Signers /\ todo \subseteq Nodes /\ pid \in {"unknown", "none", "some"}
  /\ effective \in Nat /\ calls \in 0..setup.calls

ControlOK ==
  /\ pc \in PCs /\ res \in {"ok", "error", "killed", "running"} /\ broken \subseteq Validators
  /\ clean \in BOOLEAN /\ faults \in Nat /\ (pc = "idle") = (res # "running")

Types == DiskOK /\ ProcsOK /\ ChainOK /\ TestOK /\ ControlOK

Position ==
  /\ pc \in Preparing => call.kind = "prepare"
  /\ pc \in Writing => call.kind \in Renewing
  /\ pc = "restart" => call.kind = "restart"
  /\ pc \in {"ready"} \cup Meeting => call.kind \in Renewing \cup {"restart"}
  /\ pc \in {"stop", "pid", "rpc"} => call.kind = "stop"
  /\ pc \in {"add", "count"} => call.kind = "reconnect"
  /\ pc = "coinbase" => call.kind = "coinbase"
  /\ pc \in {"clear", "import"} => n \in reth
  /\ pc \in {"env", "account", "delete", "start"} \cup Meeting => ~Single
  /\ pc \in {"down", "up"} => Single
  /\ pc # "idle" => n \in Validators

Renewed == call.kind \in Renewing /\ (pc \in {"ready"} \cup Meeting \/ Done)

Files ==
  /\ pc \in Writing \ {"key"} \/ Renewed => keyFile[n] = call.key
  /\ pc \in Writing \ {"key", "addr"} \/ Renewed => addrFile[n] = call.key
  /\ pc \in {"account", "delete", "start"} \/ (Renewed /\ ~Single) => env[n] = call.key
  /\ pc \in {"env", "account", "delete", "start", "down", "up"} /\ n \in reth =>
       store[n] = {call.key}
  /\ pc \in {"delete", "start"} \/ Renewed => call.key \in store[n]
  /\ Renewed => argv[n] = call.key

Unlocked ==
  \A m \in Validators :
    argv[m] # None /\ argv[m] \notin store[m] =>
      m \in reth /\ (m \in broken \/ (pc \in Writing \ {"key", "addr", "clear"} /\ n = m))

Locked == argv[n] \notin store[n] /\ proc[n] # "online"

Judged ==
  pc # "idle" =>
    /\ pc \in {"restart", "stop"} \/ call.kind \in Renewing \cup {"reconnect"} =>
         call.able = Able(call.kind, n)
    /\ pc = "ready" /\ ~call.able => call.kind = "restart" /\ Locked
    /\ pc \in {"pid", "rpc", "count", "coinbase"} \cup Meeting \cup Preparing => call.able

Meets == call.kind \in Renewing \cup {"restart", "reconnect"}

Unharmed ==
  clean /\ pc # "idle" =>
    /\ call.company /\ Meets => Online(Heard)
    /\ pc = "ready" /\ call.able =>
         argv[n] \in store[n] /\ proc[n] \in {"starting", "online"}
    /\ pc \in Meeting => proc[n] = "online"

Asked ==
  /\ pc \in {"mesh", "others", "add", "count"} => todo \subseteq Heard
  /\ pc = "mesh" => todo = Heard

Stopped ==
  call.kind = "stop" /\ (pc \in {"pid", "rpc"} \/ Done) =>
    /\ proc[n] \in {"stopping", "stopped"} /\ (pid = "none" => proc[n] = "stopped")
    /\ pc = "idle" => pid = "none"

Fresh ==
  /\ pc = "stop" => pid = "unknown"
  /\ pc = "start" => proc[n] = "deleted"
  /\ pc = "up" => proc[n] = "stopped"

Told ==
  clean /\ call.kind \in Renewing \cup {"restart"} /\ ~Single /\ n \in Known
        /\ (pc \in {"others", "peers"} \/ Done) =>
    /\ Others \subseteq wanted[n]
    /\ \A m \in Heard : (pc = "others" /\ m \in todo) \/ n \in wanted[m]

Counted ==
  call.kind = "reconnect" /\ (pc # "idle" \/ Done) =>
    /\ proc[n] \in {"stopping", "stopped"}
    /\ clean /\ (pc = "count" \/ Done) =>
         \A m \in Heard : (pc = "count" /\ m \in todo) \/ HasPeer(m)

\* the rotation of this call is scheduled
Scheduled ==
  \/ pc = "mined" /\ [node |-> n, key |-> call.key] \notin pool
  \/ pc = "receipt"
  \/ Done /\ call.kind = "prepare"

Rotations ==
  /\ \A tx \in pool : tx.key <= NN + calls
  /\ pc \in {"create", "send"} => \A tx \in pool : tx.key # NN + calls
  /\ pc \in Preparing \ {"create"} => call.key = NN + calls
  /\ pc = "mined" => \A tx \in pool : tx.key = call.key => tx.node = n
  /\ Scheduled => /\ \A tx \in pool : tx.key # call.key /\ tx.node # n
                  /\ effectiveAt[n] = due /\ due <= NextCheckpoint(height)
  /\ Done /\ call.kind = "prepare" => effective >= due /\ (Emits => effective = due)

Inv ==
  /\ Types /\ Position /\ Files /\ Unlocked /\ Judged /\ Unharmed /\ CleanCallSucceeds
  /\ Asked /\ Fresh /\ Stopped /\ Told /\ Counted /\ Rotations

-----------------------------------------------------------------------------
LEMMA TypesImply == Types => TypeOK
BY DEF Types, DiskOK, ProcsOK, ChainOK, TestOK, ControlOK, TypeOK

LEMMA Constants ==
  ASSUME DiskOK
  PROVE  /\ NN \in Nat \ {0} /\ Nodes = 1..NN /\ Validators \subseteq Nodes /\ reth \subseteq Nodes
         /\ setup.calls \in Nat /\ Nodes \subseteq Signers /\ setup.height \in Nat \ {0}
         /\ setup.faults \in Nat /\ None \notin Signers
<1>1. setup \in Setup /\ setup.validators \cup setup.reth \subseteq 1..setup.nodes
  BY DEF DiskOK
<1>2. /\ setup.nodes \in Nat \ {0} /\ setup.calls \in Nat /\ setup.faults \in Nat
      /\ setup.height \in Nat \ {0}
  BY <1>1 DEF Setup
<1> QED
  BY <1>1, <1>2 DEF NN, Nodes, Validators, reth, Signers, None

(* What a step that leaves the setup alone does not change. *)
LEMMA SetupKept ==
  ASSUME setup' = setup
  PROVE  /\ NN' = NN /\ Nodes' = Nodes /\ Validators' = Validators /\ reth' = reth
         /\ Single' = Single /\ Emits' = Emits /\ Signers' = Signers /\ Known' = Known
BY DEF NN, Nodes, Validators, reth, Single, Emits, Signers, Known

LEMMA CallKept ==
  ASSUME setup' = setup, call' = call
  PROVE  n' = n /\ Others' = Others /\ Heard' = Heard
BY SetupKept DEF n, Others, Heard

LEMMA DiskKept ==
  ASSUME UNCHANGED disk, DiskOK
  PROVE  DiskOK' /\ setup' = setup
BY SetupKept DEF disk, DiskOK

LEMMA ProcsKept ==
  ASSUME setup' = setup, UNCHANGED procs, ProcsOK
  PROVE  ProcsOK'
BY SetupKept DEF procs, ProcsOK, Pairs, Online

LEMMA ChainKept ==
  ASSUME setup' = setup, UNCHANGED contract, ChainOK
  PROVE  ChainOK'
BY SetupKept DEF contract, ChainOK

LEMMA TestKept ==
  ASSUME setup' = setup, UNCHANGED test, TestOK
  PROVE  TestOK'
BY SetupKept DEF test, TestOK


-----------------------------------------------------------------------------
(***************************************************************************)
(* The kinds of steps.                                                     *)
(***************************************************************************)
Breaks == Errors \/ TimesOut \/ Kill

LEMMA BreaksTo ==
  ASSUME Breaks
  PROVE  /\ pc # "idle" /\ pc' = "idle" /\ res' \in {"error", "killed"} /\ clean' = FALSE
         /\ faults' \in {faults, faults + 1}
         /\ UNCHANGED <<disk, procs, contract, call, todo, pid, effective, calls>>
         /\ held' \in {held, Nodes}
         /\ broken' = IF call.kind \in Renewing THEN broken \cup {n} ELSE broken
<1>1. ASSUME NEW steps, "idle" \notin steps, Fails(steps) \/ Late(steps)
      PROVE  /\ pc # "idle" /\ pc' = "idle" /\ res' = "error" /\ clean' = FALSE
             /\ faults' \in {faults, faults + 1}
             /\ UNCHANGED <<disk, procs, contract, test>>
             /\ broken' = IF call.kind \in Renewing THEN broken \cup {n} ELSE broken
  BY <1>1 DEF Fails, Late, Fault, Return, Renewing
<1>2. CASE Kill
  BY <1>2 DEF Kill, Fault, Return, Renewing
<1>3. CASE Errors
  BY <1>1, <1>3 DEF Errors, test
<1>4. CASE TimesOut
  BY <1>1, <1>4 DEF TimesOut, test
<1> QED
  BY <1>2, <1>3, <1>4 DEF Breaks

\* what moves beside the test
NodeStep(m) == Boot(m) \/ Exit(m) \/ Crash(m) \/ Autorestart(m)
LinkStep(e) == Connect(e) \/ Discover(e) \/ Disconnect(e)

LEMMA NextParts ==
  ASSUME Next
  PROVE  \/ Begin \/ Step \/ Breaks
         \/ \E m \in Nodes : NodeStep(m) \/ Block(m)
         \/ \E e \in Pairs(Nodes) : LinkStep(e)
         \/ \E tx \in pool : Mine(tx)
BY DEF Next, Breaks, Node, NodeStep, LinkStep

\* a fault is remembered
LEMMA Faulty ==
  ASSUME ControlOK, Fault \/ NoFault
  PROVE  clean' \in BOOLEAN /\ faults' \in Nat /\ (clean' => clean)
<1>1. clean' = clean \/ clean' = FALSE
  BY DEF Fault, NoFault
<1>2. clean \in BOOLEAN /\ faults \in Nat
  BY DEF ControlOK
<1>3. faults' \in Nat
  BY <1>2 DEF Fault, NoFault
<1>4. clean' \in BOOLEAN
  BY <1>1, <1>2, Zenon
<1>5. clean' => clean
  BY <1>1
<1> QED
  BY <1>3, <1>4, <1>5

LEMMA NodeStepOnly ==
  ASSUME Inv, NEW m \in Nodes, NodeStep(m)
  PROVE  /\ UNCHANGED <<disk, argv, contract, test, pc, res, broken>>
         /\ Fault \/ NoFault
         /\ \A x \in Nodes : x # m => proc'[x] = proc[x] /\ wanted'[x] = wanted[x]
         /\ proc' \in [Nodes -> {"online", "starting", "down", "stopping", "stopped", "deleted"}]
         /\ wanted' \in [Nodes -> SUBSET Nodes]
         /\ \/ /\ clean' = clean /\ proc[m] # "online" /\ UNCHANGED <<peers, wanted>>
               /\ \/ /\ proc[m] = "starting" /\ proc'[m] = "online"
                     /\ argv[m] \in store[m] \/ m \notin Validators
                  \/ /\ proc[m] = "starting" /\ proc'[m] = "down"
                     /\ argv[m] \notin store[m] /\ m \in Validators
                  \/ proc[m] = "stopping" /\ proc'[m] = "stopped"
                  \/ proc[m] = "down" /\ proc'[m] = "starting"
            \/ /\ clean' = FALSE /\ proc[m] \in {"starting", "online"} /\ proc'[m] = "down"
               /\ peers' = {e \in peers : m \notin e}
<1>0. proc \in [Nodes -> {"online", "starting", "down", "stopping", "stopped", "deleted"}]
  BY DEF Inv, Types, ProcsOK
<1>1. wanted \in [Nodes -> SUBSET Nodes]
  BY DEF Inv, Types, ProcsOK
<1>2. CASE Boot(m)
  BY <1>0, <1>1, <1>2 DEF Boot, NoFault
<1>3. CASE Exit(m)
  BY <1>0, <1>1, <1>3 DEF Exit, NoFault
<1>4. CASE Autorestart(m)
  BY <1>0, <1>1, <1>4 DEF Autorestart, NoFault
<1>5. CASE Crash(m)
  BY <1>0, <1>1, <1>5 DEF Crash, Ends, Fault
<1> QED
  BY <1>2, <1>3, <1>4, <1>5 DEF NodeStep

LEMMA LinkStepOnly ==
  ASSUME Inv, NEW e \in Pairs(Nodes), LinkStep(e)
  PROVE  /\ UNCHANGED <<disk, argv, proc, wanted, contract, test, pc, res, broken>>
         /\ Fault \/ NoFault
         /\ \/ clean' = clean /\ Online(e) /\ peers' = peers \cup {e}
            \/ clean' = FALSE /\ peers' = peers \ {e}
BY DEF LinkStep, Connect, Discover, Disconnect, Fault, NoFault


(***************************************************************************)
(* The next checkpoint is a number that grows with the height.             *)
(***************************************************************************)
LEMMA NextCheckpointNat ==
  ASSUME NEW x \in Nat
  PROVE  NextCheckpoint(x) \in Nat
<1>1. x \div Epoch \in Nat
  OBVIOUS
<1> QED
  BY <1>1 DEF NextCheckpoint

LEMMA NextCheckpointGrows ==
  ASSUME NEW x \in Nat, NEW y \in Nat, x <= y
  PROVE  NextCheckpoint(x) <= NextCheckpoint(y)
<1> DEFINE p == x \div Epoch
           q == y \div Epoch
<1>1. p \in Nat /\ q \in Nat
  OBVIOUS
<1>2. p * Epoch <= x /\ y < (q + 1) * Epoch
  OBVIOUS
<1> HIDE DEF p, q
<1>3. p * Epoch < (q + 1) * Epoch
  BY <1>1, <1>2
<1>4. p < q + 1
  BY <1>1, <1>3
<1>5. (p + 1) * Epoch <= (q + 1) * Epoch
  BY <1>1, <1>4
<1> QED
  BY <1>5 DEF NextCheckpoint, p, q


-----------------------------------------------------------------------------
(***************************************************************************)
(* Types.                                                                  *)
(***************************************************************************)
LEMMA ControlTypes ==
  ASSUME Inv, Step
  PROVE  ControlOK'
<1>0. ControlOK /\ Position /\ TestOK
  BY DEF Inv, Types
<1>1. Fault \/ NoFault
  BY DEF Step, Prepare, Artifacts, Process, Peering, Stopping, Reconnect, CreateSigner, Send, Mined,
         Receipt, WriteKey, WriteAddr, ClearStore, ImportStore, UpdateEnv, ImportAccount, Writes,
         Delete, StartProcess, RestartProcess, Stop, Down, Up, Runs, Ready, AddOthers, AddSelf,
         AllTold, PeerCount, AskPid, AskRpc, AddAll, StartCounting, CountPeers, SeeCoinbase
<1>2. clean' \in BOOLEAN /\ faults' \in Nat
  BY <1>0, <1>1, Faulty
<1>3. ASSUME NEW next \in PCs \ {"idle"}, Go(next) \/ Return("ok") \/ Return("error"), pc # "idle", setup' = setup
      PROVE  /\ pc' \in PCs /\ res' \in {"ok", "error", "killed", "running"}
             /\ broken' \subseteq Validators' /\ (pc' = "idle") = (res' # "running")
  <2>1. n \in Validators /\ broken \subseteq Validators /\ res = "running" /\ Validators' = Validators
    BY <1>0, <1>3, SetupKept DEF Position, ControlOK
  <2> QED
    BY <1>3, <2>1 DEF Go, Return, PCs
<1>4. setup' = setup /\ pc # "idle"
  BY DEF Step, Prepare, Artifacts, Process, Peering, Stopping, Reconnect, CreateSigner, Send, Mined,
         Receipt, WriteKey, WriteAddr, ClearStore, ImportStore, UpdateEnv, ImportAccount, Writes,
         Delete, StartProcess, RestartProcess, Stop, Down, Up, Runs, Ready, AddOthers, AddSelf,
         AllTold, PeerCount, AskPid, AskRpc, AddAll, StartCounting, CountPeers, SeeCoinbase, disk
<1>5. \E next \in PCs \ {"idle"} : Go(next) \/ Return("ok") \/ Return("error")
  <2>1. CASE Prepare
    BY <2>1 DEF Prepare, CreateSigner, Send, Mined, Receipt, PCs, Preparing
  <2>2. CASE Artifacts
    BY <2>2 DEF Artifacts, WriteKey, WriteAddr, ClearStore, ImportStore, UpdateEnv, ImportAccount,
                AfterArtifacts, PCs, Writing
  <2>3. CASE Process
    BY <2>3 DEF Process, Delete, StartProcess, Started, RestartProcess, Stop, Down, Up, PCs, Writing
  <2>4. CASE Peering
    BY <2>4 DEF Peering, Ready, AddOthers, AddSelf, AllTold, PeerCount, PCs, Meeting
  <2>5. CASE Stopping \/ Reconnect \/ SeeCoinbase
    BY <2>5 DEF Stopping, Reconnect, AskPid, AskRpc, AddAll, StartCounting, CountPeers, SeeCoinbase, PCs
  <2> QED
    BY <2>1, <2>2, <2>3, <2>4, <2>5 DEF Step
<1> QED
  BY <1>2, <1>3, <1>4, <1>5 DEF ControlOK

LEMMA StepTypes ==
  ASSUME Inv, Step
  PROVE  Types'
<1>0. DiskOK /\ ProcsOK /\ ChainOK /\ TestOK /\ ControlOK
  BY DEF Inv, Types
<1>c. ControlOK'
  BY ControlTypes
<1>n. /\ n \in Nodes /\ call.key \in Signers /\ Others \subseteq Nodes /\ Heard \subseteq Nodes
      /\ NN \in Nat /\ setup.calls \in Nat /\ Nodes = 1..NN
  BY <1>0, Constants DEF TestOK, n, Others, Heard
<1>1. CASE Prepare
  <2>1. UNCHANGED <<disk, procs>>
    BY <1>1 DEF Prepare, CreateSigner, Send, Mined, Receipt
  <2>2. DiskOK' /\ ProcsOK' /\ setup' = setup
    BY <1>0, <2>1, DiskKept, ProcsKept
  <2>3. CASE CreateSigner
    <3>1. call' = [call EXCEPT !.key = NN + calls] /\ UNCHANGED <<contract, held, todo, pid, effective, calls>>
      BY <2>3 DEF CreateSigner
    <3>2. NN + calls \in Signers
      BY <1>0, <1>n, Constants DEF TestOK, Signers
    <3>3. call' \in [kind : AllKinds \cup {"none"}, node : Nodes, key : Signers,
                     able : BOOLEAN, company : BOOLEAN]
      BY <1>0, <3>1, <3>2 DEF TestOK
    <3>4. TestOK'
      BY <1>0, <2>2, <3>1, <3>3, SetupKept DEF TestOK
    <3> QED
      BY <1>0, <1>c, <2>2, <3>1, <3>4, ChainKept DEF Types
  <2>4. CASE Send
    <3>1. pool' = pool \cup {[node |-> n, key |-> call.key]} /\ UNCHANGED test
          /\ UNCHANGED <<height, coinbase, signerOf, pendingOf, effectiveAt, due>>
      BY <2>4 DEF Send
    <3>2. ChainOK'
      BY <1>0, <1>n, <2>2, <3>1, SetupKept DEF ChainOK
    <3> QED
      BY <1>0, <1>c, <2>2, <3>1, <3>2, TestKept DEF Types
  <2>5. CASE Mined
    BY <1>0, <1>c, <2>2, <2>5, ChainKept, TestKept DEF Types, Mined
  <2>6. CASE Receipt
    <3>1. /\ effective' = (IF Emits THEN effectiveAt[n] ELSE Fallback) /\ held' = held \cup {call.key}
          /\ UNCHANGED <<contract, call, todo, pid, calls>>
      BY <2>6 DEF Receipt
    <3>2. effectiveAt[n] \in Nat
      BY <1>0, <1>n DEF ChainOK
    <3>3. Fallback \in Nat
      BY <1>0, Constants, NextCheckpointNat DEF ChainOK, Fallback, NextCheckpoint
    <3>4. TestOK'
      BY <1>0, <1>n, <2>2, <3>1, <3>2, <3>3, SetupKept DEF TestOK
    <3> QED
      BY <1>0, <1>c, <2>2, <3>1, <3>4, ChainKept DEF Types
  <2> QED
    BY <1>1, <2>3, <2>4, <2>5, <2>6 DEF Prepare
<1>2. CASE Artifacts
  <2>1. UNCHANGED <<procs, contract, test>> /\ setup' = setup
    BY <1>2 DEF Artifacts, Writes, WriteKey, WriteAddr, ClearStore, ImportStore, UpdateEnv, ImportAccount
  <2>2. DiskOK'
    <3>1. CASE WriteKey \/ WriteAddr \/ UpdateEnv
      BY <1>0, <1>n, <2>1, <3>1, SetupKept DEF DiskOK, WriteKey, WriteAddr, UpdateEnv, SetEnv
    <3>2. CASE ClearStore \/ ImportStore
      BY <1>0, <1>n, <2>1, <3>2, SetupKept DEF DiskOK, ClearStore, ImportStore
    <3>3. CASE ImportAccount
      BY <1>0, <1>n, <2>1, <3>3, SetupKept DEF DiskOK, ImportAccount
    <3> QED
      BY <1>2, <3>1, <3>2, <3>3 DEF Artifacts
  <2> QED
    BY <1>0, <1>c, <2>1, <2>2, ProcsKept, ChainKept, TestKept DEF Types
<1>e. ASSUME NEW state \in {"starting", "stopping", "stopped", "deleted"}, Ends(n, state), setup' = setup,
             argv' \in [Nodes -> Signers \cup {None}]
      PROVE  ProcsOK'
  <2>1. proc' \in [Nodes -> {"online", "starting", "down", "stopping", "stopped", "deleted"}]
    BY <1>0, <1>e DEF ProcsOK, Ends
  <2>2. wanted' \in [Nodes -> SUBSET Nodes]
    BY <1>0, <1>e DEF ProcsOK, Ends
  <2>3. peers' \subseteq Pairs(Nodes)
    BY <1>0, <1>e DEF ProcsOK, Ends
  <2>4. ASSUME NEW e \in peers' PROVE Online(e)'
    BY <1>0, <1>e, <2>4 DEF ProcsOK, Ends, Online, Pairs
  <2> QED
    BY <1>e, <2>1, <2>2, <2>3, <2>4, SetupKept DEF ProcsOK, Pairs
<1>s. ASSUME proc' = [proc EXCEPT ![n] = "starting"], proc[n] # "online", setup' = setup,
             argv' \in [Nodes -> Signers \cup {None}], UNCHANGED <<peers, wanted>>
      PROVE  ProcsOK'
  <2>1. proc' \in [Nodes -> {"online", "starting", "down", "stopping", "stopped", "deleted"}]
    BY <1>0, <1>s DEF ProcsOK
  <2>2. ASSUME NEW e \in peers' PROVE Online(e)'
    BY <1>0, <1>s, <2>2 DEF ProcsOK, Online, Pairs
  <2> QED
    BY <1>0, <1>s, <2>1, <2>2, SetupKept DEF ProcsOK, Pairs
<1>3. CASE Process /\ ~Up
  <2>1. UNCHANGED <<disk, contract, test>>
    BY <1>3 DEF Process, Delete, StartProcess, RestartProcess, Stop, Down, Runs
  <2>2. setup' = setup
    BY <2>1 DEF disk
  <2>3. ProcsOK'
    <3>1. CASE Delete
      BY <1>0, <1>n, <1>e, <2>2, <3>1 DEF Delete, ProcsOK
    <3>2. CASE StartProcess
      <4>1. proc[n] # "online"
        BY <3>2 DEF StartProcess, Inv, Fresh
      <4>2. CASE Ecosystem
        BY <1>0, <1>n, <1>s, <2>2, <3>2, <4>1, <4>2 DEF StartProcess, ProcsOK
      <4>3. CASE ~Ecosystem
        BY <1>0, <2>2, <3>2, <4>3, ProcsKept DEF StartProcess, procs
      <4> QED
        BY <4>2, <4>3
    <3>3. CASE RestartProcess
      BY <1>0, <1>e, <2>2, <3>3, ProcsKept DEF RestartProcess, ProcsOK
    <3>4. CASE Stop
      BY <1>0, <1>e, <2>2, <3>4, ProcsKept DEF Stop, ProcsOK
    <3>5. CASE Down
      BY <1>0, <1>e, <2>2, <3>5 DEF Down, ProcsOK
    <3> QED
      BY <1>3, <3>1, <3>2, <3>3, <3>4, <3>5 DEF Process
  <2> QED
    BY <1>0, <1>c, <2>1, <2>2, <2>3, DiskKept, ChainKept, TestKept DEF Types
<1>4. CASE Up
  <2>1. setup' = setup /\ UNCHANGED <<keyFile, addrFile, env, peers, wanted, contract, test>>
    BY <1>4 DEF Up
  <2>2. CASE n \in reth /\ store[n] = {}
    BY <1>0, <1>c, <1>4, <2>1, <2>2, DiskKept, ProcsKept, ChainKept, TestKept DEF Types, Up, disk, procs
  <2>3. CASE ~(n \in reth /\ store[n] = {})
    <3>1. /\ store' = [store EXCEPT ![n] =
               IF n \notin reth /\ addrFile[n] \notin @ THEN @ \cup {keyFile[n]} ELSE @]
          /\ \E k \in (IF n \in reth THEN store[n] ELSE {addrFile[n]}) :
               argv' = [argv EXCEPT ![n] = k]
          /\ proc' = [proc EXCEPT ![n] = "starting"]
      BY <1>4, <2>3 DEF Up
    <3>2. store' \in [Nodes -> SUBSET Signers]
      BY <1>0, <1>n, <3>1 DEF DiskOK
    <3>3. argv' \in [Nodes -> Signers \cup {None}]
      BY <1>0, <1>n, <3>1 DEF DiskOK, ProcsOK
    <3>4. DiskOK'
      BY <1>0, <2>1, <3>2, SetupKept DEF DiskOK
    <3>5. proc[n] # "online"
      BY <1>4 DEF Up, Inv, Fresh
    <3>6. ProcsOK'
      BY <1>s, <2>1, <3>1, <3>3, <3>5
    <3> QED
      BY <1>0, <1>c, <2>1, <3>4, <3>6, ChainKept, TestKept DEF Types
  <2> QED
    BY <2>2, <2>3
<1>w. ASSUME NEW m, NEW S \in SUBSET Nodes, AddPeers(m, S) \/ UNCHANGED wanted, UNCHANGED <<argv, proc, peers>>,
             setup' = setup
      PROVE  ProcsOK'
  <2>1. wanted' \in [Nodes -> SUBSET Nodes]
    BY <1>0, <1>w DEF ProcsOK, AddPeers
  <2> QED
    BY <1>0, <1>w, <2>1, SetupKept DEF ProcsOK, Pairs, Online
<1>5. CASE Peering \/ Stopping \/ Reconnect \/ SeeCoinbase
  <2>1. UNCHANGED <<disk, contract, argv, proc, peers, held, call, effective, calls>>
    BY <1>5 DEF Peering, Stopping, Reconnect, Ready, AddOthers, AddSelf, AllTold, PeerCount, AskPid,
                AskRpc, AddAll, StartCounting, CountPeers, SeeCoinbase, Runs, procs, test
  <2>2. setup' = setup
    BY <2>1 DEF disk
  <2>3. todo' \subseteq Nodes /\ pid' \in {"unknown", "none", "some"}
    BY <1>0, <1>n, <1>5 DEF Peering, Stopping, Reconnect, Ready, AddOthers, AddSelf, AllTold, PeerCount, AskPid,
                AskRpc, AddAll, StartCounting, CountPeers, SeeCoinbase, Runs, procs, test, TestOK
  <2>4. TestOK'
    BY <1>0, <2>1, <2>2, <2>3, SetupKept DEF TestOK
  <2>5. \E m : \E S \in SUBSET Nodes : AddPeers(m, S) \/ UNCHANGED wanted
    <3>1. CASE AddOthers
      BY <1>n, <3>1 DEF AddOthers
    <3>2. CASE AddSelf
      BY <1>n, <3>2 DEF AddSelf
    <3>3. CASE AddAll
      BY <1>n, <3>3 DEF AddAll
    <3>4. CASE Ready \/ AllTold \/ PeerCount \/ Stopping \/ StartCounting \/ CountPeers \/ SeeCoinbase
      BY <3>4 DEF Stopping, Ready, AllTold, PeerCount, AskPid,
                AskRpc, StartCounting, CountPeers, SeeCoinbase, procs
    <3> QED
      BY <1>5, <3>1, <3>2, <3>3, <3>4 DEF Peering, Reconnect
  <2>6. ProcsOK'
    BY <1>w, <2>1, <2>2, <2>5
  <2> QED
    BY <1>0, <1>c, <2>1, <2>2, <2>4, <2>6, DiskKept, ChainKept DEF Types
<1> QED
  BY <1>1, <1>2, <1>3, <1>4, <1>5 DEF Step, Process



LEMMA BeginTypes ==
  ASSUME Inv, Begin
  PROVE  Types'
<1>0. DiskOK /\ ProcsOK /\ ChainOK /\ TestOK /\ ControlOK
  BY DEF Inv, Types
<1>1. UNCHANGED <<disk, procs, contract, held, effective, broken, faults>> /\ setup' = setup
  BY DEF Begin, disk
<1>2. DiskOK' /\ ProcsOK' /\ ChainOK'
  BY <1>0, <1>1, DiskKept, ProcsKept, ChainKept
<1>3. setup \in Setup
  BY <1>0 DEF DiskOK
<1>4. setup.kinds \subseteq AllKinds /\ setup.calls \in Nat
  BY <1>3 DEF Setup
<1>5. PICK kind \in setup.kinds, node \in Validators, key \in held :
        /\ call' = [kind |-> kind, node |-> node, key |-> key,
                    able |-> Able(kind, node), company |-> Company(kind, node)]
        /\ pc' = First(kind)
        /\ todo' = IF kind = "reconnect" THEN (Nodes \ {node}) \cap Known ELSE {}
  BY DEF Begin
<1>b. Able(kind, node) \in BOOLEAN /\ Company(kind, node) \in BOOLEAN
  BY DEF Able, Company
<1>6. node \in Nodes /\ key \in Signers /\ kind \in AllKinds
  BY <1>0, <1>4, Constants DEF TestOK
<1>7. TestOK'
  <2>1. calls' \in 0..setup.calls /\ pid' = "unknown"
    BY <1>0, <1>4 DEF Begin, TestOK
  <2>2. todo' \subseteq Nodes
    BY <1>5
  <2>3. call' \in [kind : AllKinds \cup {"none"}, node : Nodes, key : Signers,
                   able : BOOLEAN, company : BOOLEAN]
    <3> DEFINE a == Able(kind, node)  c == Company(kind, node)
    <3>1. a \in BOOLEAN /\ c \in BOOLEAN
      BY <1>b
    <3>2. call' = [kind |-> kind, node |-> node, key |-> key, able |-> a, company |-> c]
      BY <1>5
    <3> HIDE DEF a, c
    <3> QED
      BY <1>6, <3>1, <3>2
  <2> QED
    BY <1>0, <1>1, <2>1, <2>2, <2>3, SetupKept DEF TestOK
<1>8. ControlOK'
  <2>1. clean' \in BOOLEAN
    BY DEF Begin
  <2>2. pc' \in PCs \ {"idle"}
    BY <1>5, <1>6 DEF First, AllKinds, PCs, Preparing, Writing, Renewing
  <2>3. res' = "running"
    BY DEF Begin
  <2> QED
    BY <1>0, <1>1, <2>1, <2>2, <2>3, SetupKept DEF ControlOK
<1> QED
  BY <1>2, <1>7, <1>8 DEF Types

LEMMA ControlKept ==
  ASSUME ControlOK, Fault \/ NoFault, UNCHANGED <<pc, res, broken>>, setup' = setup
  PROVE  ControlOK'
<1>1. clean' \in BOOLEAN /\ faults' \in Nat
  BY Faulty
<1> QED
  BY <1>1, SetupKept DEF ControlOK

LEMMA NodeTypes ==
  ASSUME Inv, NEW m \in Nodes, NodeStep(m)
  PROVE  Types'
<1>0. DiskOK /\ ProcsOK /\ ChainOK /\ TestOK /\ ControlOK
  BY DEF Inv, Types
<1>1. /\ UNCHANGED <<disk, argv, contract, test, pc, res, broken>> /\ (Fault \/ NoFault)
      /\ \A x \in Nodes : x # m => proc'[x] = proc[x]
      /\ proc' \in [Nodes -> {"online", "starting", "down", "stopping", "stopped", "deleted"}]
      /\ wanted' \in [Nodes -> SUBSET Nodes]
      /\ \/ proc[m] # "online" /\ UNCHANGED peers
         \/ peers' = {e \in peers : m \notin e}
  BY NodeStepOnly
<1>2. setup' = setup
  BY <1>1 DEF disk
<1>3. DiskOK' /\ ChainOK' /\ TestOK' /\ ControlOK'
  BY <1>0, <1>1, <1>2, DiskKept, ChainKept, TestKept, ControlKept
<1>4. peers' \subseteq peers /\ \A e \in peers' : m \notin e
  BY <1>0, <1>1 DEF ProcsOK, Online
<1>5. ASSUME NEW e \in peers' PROVE Online(e)'
  <2>1. e \subseteq Nodes /\ Online(e) /\ m \notin e
    BY <1>0, <1>4, <1>5 DEF ProcsOK, Pairs
  <2>2. \A x \in e : proc'[x] = "online"
    BY <1>1, <2>1 DEF Online
  <2> QED
    BY <2>2 DEF Online
<1>6. ProcsOK'
  BY <1>0, <1>1, <1>2, <1>4, <1>5, SetupKept DEF ProcsOK, Pairs
<1> QED
  BY <1>3, <1>6 DEF Types

LEMMA LinkTypes ==
  ASSUME Inv, NEW e \in Pairs(Nodes), LinkStep(e)
  PROVE  Types'
<1>0. DiskOK /\ ProcsOK /\ ChainOK /\ TestOK /\ ControlOK
  BY DEF Inv, Types
<1>1. /\ UNCHANGED <<disk, argv, proc, wanted, contract, test, pc, res, broken>> /\ (Fault \/ NoFault)
      /\ \/ Online(e) /\ peers' = peers \cup {e}
         \/ peers' = peers \ {e}
  BY LinkStepOnly
<1>2. setup' = setup
  BY <1>1 DEF disk
<1>3. DiskOK' /\ ChainOK' /\ TestOK' /\ ControlOK'
  BY <1>0, <1>1, <1>2, DiskKept, ChainKept, TestKept, ControlKept
<1>4. ProcsOK'
  BY <1>0, <1>1, <1>2, SetupKept DEF ProcsOK, Pairs, Online
<1> QED
  BY <1>3, <1>4 DEF Types

\* what a step of the chain changes
LEMMA ChainStepOnly ==
  ASSUME Inv, (\E m \in Nodes : Block(m)) \/ (\E tx \in pool : Mine(tx))
  PROVE  /\ UNCHANGED <<disk, procs, test, pc, res, clean, broken, faults>>
         /\ ChainOK' /\ height <= height'
<1>0. DiskOK /\ ProcsOK /\ ChainOK /\ TestOK /\ ControlOK
  BY DEF Inv, Types
<1>1. UNCHANGED <<disk, procs, test, pc, res, clean, broken, faults>>
  BY DEF Block, Mine
<1>2. setup' = setup
  BY <1>1 DEF disk
<1>3. ASSUME NEW m \in Nodes, Block(m) PROVE ChainOK' /\ height <= height'
  <2>1. height' \in 1..setup.height /\ height <= height'
    BY <1>0, <1>3, Constants DEF ChainOK, Block
  <2>2. coinbase' \in Signers
    BY <1>0, <1>3 DEF ChainOK, Block
  <2>3. PICK new : new = [v \in Nodes |-> pendingOf[v] # None /\ height' >= effectiveAt[v]]
    OBVIOUS
  <2>4. /\ signerOf' = [v \in Nodes |-> IF new[v] THEN pendingOf[v] ELSE signerOf[v]]
        /\ pendingOf' = [v \in Nodes |-> IF new[v] THEN None ELSE pendingOf[v]]
        /\ UNCHANGED <<effectiveAt, pool, due>>
    BY <1>3, <2>3 DEF Block
  <2>5. \A v \in Nodes : new[v] => pendingOf[v] # None
    BY <2>3
  <2>6. signerOf' \in [Nodes -> Signers]
    BY <1>0, <2>4, <2>5 DEF ChainOK
  <2>7. pendingOf' \in [Nodes -> Signers \cup {None}]
    BY <1>0, <2>4 DEF ChainOK
  <2> QED
    BY <1>0, <1>2, <2>1, <2>2, <2>4, <2>6, <2>7, SetupKept DEF ChainOK
<1>4. ASSUME NEW tx \in pool, Mine(tx) PROVE ChainOK' /\ height <= height'
  <2>1. tx.node \in Nodes /\ tx.key \in Signers /\ height \in Nat
    BY <1>0, Constants DEF ChainOK
  <2>2. NextCheckpoint(height) \in Nat
    BY <2>1, NextCheckpointNat
  <2>3. /\ pool' = pool \ {tx} /\ UNCHANGED <<height, coinbase, signerOf>>
        /\ pendingOf' = [pendingOf EXCEPT ![tx.node] = tx.key]
        /\ effectiveAt' = [effectiveAt EXCEPT ![tx.node] = NextCheckpoint(height)]
        /\ due' = IF tx.key = call.key THEN NextCheckpoint(height) ELSE due
    BY <1>4 DEF Mine
  <2> HIDE DEF NextCheckpoint
  <2>4. ChainOK'
    BY <1>0, <1>2, <2>1, <2>2, <2>3, SetupKept DEF ChainOK
  <2> QED
    BY <2>1, <2>3, <2>4
<1> QED
  BY <1>1, <1>3, <1>4

LEMMA TypesStep ==
  ASSUME Inv, Next
  PROVE  Types'
<1>0. DiskOK /\ ProcsOK /\ ChainOK /\ TestOK /\ ControlOK
  BY DEF Inv, Types
<1>1. CASE Breaks
  <2>1. /\ pc # "idle" /\ pc' = "idle" /\ res' \in {"error", "killed"} /\ clean' = FALSE
        /\ faults' \in {faults, faults + 1}
        /\ UNCHANGED <<disk, procs, contract, call, todo, pid, effective, calls>>
        /\ held' \in {held, Nodes}
        /\ broken' = IF call.kind \in Renewing THEN broken \cup {n} ELSE broken
    BY <1>1, BreaksTo
  <2>2. setup' = setup
    BY <2>1 DEF disk
  <2>3. TestOK'
    BY <1>0, <2>1, <2>2, SetupKept, Constants DEF TestOK
  <2>4. ControlOK'
    <3>1. n \in Validators
      BY <2>1 DEF Inv, Position
    <3>2. broken' \subseteq Validators' /\ faults' \in Nat
      BY <1>0, <2>1, <2>2, <3>1, SetupKept DEF ControlOK
    <3>3. clean' \in BOOLEAN
      BY <2>1
    <3> QED
      BY <2>1, <3>2, <3>3 DEF ControlOK, PCs
  <2> QED
    BY <1>0, <2>1, <2>2, <2>3, <2>4, DiskKept, ProcsKept, ChainKept DEF Types
<1>2. CASE (\E m \in Nodes : Block(m)) \/ (\E tx \in pool : Mine(tx))
  <2>1. UNCHANGED <<disk, procs, test, pc, res, clean, broken, faults>> /\ ChainOK'
    BY <1>2, ChainStepOnly
  <2>2. setup' = setup
    BY <2>1 DEF disk
  <2>3. ControlOK'
    BY <1>0, <2>1, <2>2, ControlKept DEF NoFault
  <2> QED
    BY <1>0, <2>1, <2>2, <2>3, DiskKept, ProcsKept, TestKept DEF Types
<1> QED
  BY <1>1, <1>2, NextParts, StepTypes, BeginTypes, NodeTypes, LinkTypes


-----------------------------------------------------------------------------
(***************************************************************************)
(* The parts of the invariant through what moves beside the test, a call   *)
(* that breaks off and one that begins.                                    *)
(***************************************************************************)
\* what a call needs of other nodes is not changed by what it does to its own
LEMMA AbleKept ==
  ASSUME setup' = setup, UNCHANGED call, DiskOK, call.kind \in Renewing \cup {"reconnect"},
         \A m \in Nodes \ {n} : store'[m] = store[m] /\ env'[m] = env[m]
  PROVE  Able(call.kind, n)' = Able(call.kind, n)
<1>1. /\ n' = n /\ Nodes' = Nodes /\ Known' = Known /\ reth' = reth /\ Validators' = Validators
      /\ Single' = Single /\ call'.kind = call.kind
  BY CallKept, SetupKept
<1>2. call.kind \notin {"restart", "stop"}
  BY DEF Renewing
<1>3. reth \cap Validators \subseteq Nodes
  BY Constants
<1> QED
  BY <1>1, <1>2, <1>3 DEF Able

LEMMA JudgedStays ==
  ASSUME Inv, UNCHANGED <<disk, argv, proc, test, pc>>
  PROVE  Judged'
<1>1. setup' = setup /\ call' = call /\ UNCHANGED <<store, env>>
  BY DEF disk, test
<1>2. /\ n' = n /\ Nodes' = Nodes /\ Known' = Known /\ reth' = reth /\ Validators' = Validators
      /\ Single' = Single
  BY <1>1, CallKept, SetupKept
<1>3. Able(call.kind, n)' = Able(call.kind, n) /\ Locked' = Locked
  BY <1>1, <1>2 DEF Able, Locked
<1> QED
  BY <1>1, <1>2, <1>3 DEF Inv, Judged

LEMMA BesideKeeps ==
  ASSUME Inv, UNCHANGED <<disk, argv, test, pc, res, broken>>, clean' => clean
  PROVE  /\ Position' /\ Asked' /\ Files' /\ Unlocked' /\ CleanCallSucceeds'
         /\ n' = n /\ Nodes' = Nodes /\ Others' = Others /\ Heard' = Heard /\ setup' = setup
<1>1. setup' = setup /\ call' = call /\ todo' = todo
  BY DEF disk, test
<1>2. /\ NN' = NN /\ Nodes' = Nodes /\ Validators' = Validators /\ reth' = reth
      /\ Single' = Single /\ n' = n /\ Others' = Others /\ Heard' = Heard
  BY <1>1, SetupKept, CallKept
<1>3. Position' /\ Asked' /\ CleanCallSucceeds'
  BY <1>1, <1>2 DEF Inv, Position, Asked, CleanCallSucceeds
<1>4. Files'
  BY <1>1, <1>2 DEF Inv, Files, Renewed, Done, disk
<1>5. Unlocked'
  BY <1>1, <1>2 DEF Inv, Unlocked, disk
<1> QED
  BY <1>1, <1>2, <1>3, <1>4, <1>5

LEMMA RotationsKept ==
  ASSUME Rotations, setup' = setup, UNCHANGED <<contract, test, pc, res>>
  PROVE  Rotations'
<1>1. call' = call /\ n' = n /\ NN' = NN /\ Emits' = Emits
  BY SetupKept, CallKept DEF test
<1>2. Scheduled' = Scheduled
  BY <1>1 DEF Scheduled, contract, test, Done
<1> QED
  BY <1>1, <1>2 DEF Rotations, contract, test, Done, NextCheckpoint

LEMMA NodeKeeps ==
  ASSUME Inv, NEW m \in Nodes, NodeStep(m)
  PROVE  Inv'
<1>0. Types' /\ DiskOK /\ ProcsOK /\ ControlOK /\ TestOK
  BY NodeTypes DEF Inv, Types
<1>1. /\ UNCHANGED <<disk, argv, contract, test, pc, res, broken>> /\ (Fault \/ NoFault)
      /\ \A x \in Nodes : x # m => proc'[x] = proc[x] /\ wanted'[x] = wanted[x]
      /\ \/ /\ clean' = clean /\ proc[m] # "online" /\ UNCHANGED <<peers, wanted>>
            /\ \/ /\ proc[m] = "starting" /\ proc'[m] = "online"
                  /\ argv[m] \in store[m] \/ m \notin Validators
               \/ /\ proc[m] = "starting" /\ proc'[m] = "down"
                  /\ argv[m] \notin store[m] /\ m \in Validators
               \/ proc[m] = "stopping" /\ proc'[m] = "stopped"
               \/ proc[m] = "down" /\ proc'[m] = "starting"
         \/ /\ clean' = FALSE /\ proc[m] \in {"starting", "online"} /\ proc'[m] = "down"
  BY NodeStepOnly
<1>2. clean' => clean
  BY <1>0, <1>1, Faulty
<1>3. /\ Position' /\ Asked' /\ Files' /\ Unlocked' /\ CleanCallSucceeds'
      /\ n' = n /\ Nodes' = Nodes /\ Others' = Others /\ Heard' = Heard /\ setup' = setup
  BY <1>1, <1>2, BesideKeeps
<1>4. n \in Nodes /\ Others \subseteq Nodes
  BY <1>0 DEF TestOK, n, Others
<1>5. Fresh'
  BY <1>1, <1>3, <1>4 DEF Inv, Fresh, test
<1>6. Unharmed'
  <2> SUFFICES ASSUME clean', pc' # "idle"
               PROVE  /\ call'.company /\ Meets' => Online(Heard)'
                      /\ pc' = "ready" /\ call'.able =>
                           argv'[n'] \in store'[n'] /\ proc'[n'] \in {"starting", "online"}
                      /\ pc' \in Meeting => proc'[n'] = "online"
    BY DEF Unharmed
  <2>1. clean /\ pc # "idle"
    BY <1>1, <1>2
  <2>2. /\ call.company /\ Meets => Online(Heard)
        /\ pc = "ready" /\ call.able => argv[n] \in store[n] /\ proc[n] \in {"starting", "online"}
        /\ pc \in Meeting => proc[n] = "online"
    BY <2>1 DEF Inv, Unharmed
  <2>3. Online(Heard) => \A x \in Heard : proc'[x] = "online"
    BY <1>1, <1>4, <2>1 DEF Online, Heard
  <2>4. /\ pc = "ready" /\ call.able => proc'[n] \in {"starting", "online"}
        /\ pc \in Meeting => proc'[n] = "online"
    BY <1>1, <1>4, <2>2
  <2> QED
    BY <1>1, <1>3, <2>2, <2>3, <2>4, SetupKept DEF Online, Meets, disk, test
<1>10. Judged'
  <2>1. call' = call /\ pc' = pc /\ store' = store /\ argv' = argv /\ env' = env
    BY <1>1 DEF disk, test
  <2>2. Known' = Known /\ reth' = reth /\ Validators' = Validators /\ Single' = Single
    BY <1>3, SetupKept
  <2>3. (proc'[n] = "deleted") = (proc[n] = "deleted")
    BY <1>0, <1>1, <1>4 DEF ProcsOK
  <2>4. Able(call.kind, n)' = Able(call.kind, n)
    BY <1>3, <2>1, <2>2, <2>3 DEF Able
  <2>5. pc # "idle" /\ Locked => Locked'
    BY <1>1, <1>3, <1>4, <2>1 DEF Inv, Position, Locked
  <2> QED
    BY <1>3, <2>1, <2>4, <2>5 DEF Inv, Judged
<1>7. Stopped' /\ Told'
  <2>1. Stopped'
    BY <1>1, <1>3, <1>4 DEF Inv, Stopped, Done, test
  <2>2. Told'
    BY <1>1, <1>2, <1>3, <1>4, SetupKept DEF Inv, Told, Done, test
  <2> QED
    BY <2>1, <2>2
<1>8. Counted'
  <2>1. clean' => peers' = peers
    BY <1>1
  <2> QED
    BY <1>1, <1>2, <1>3, <1>4, <2>1 DEF Inv, Counted, Done, test, HasPeer
<1>9. Rotations'
  BY <1>1, <1>3, RotationsKept DEF Inv
<1> QED
  BY <1>0, <1>3, <1>5, <1>6, <1>7, <1>8, <1>9, <1>10 DEF Inv

LEMMA LinkKeeps ==
  ASSUME Inv, NEW e \in Pairs(Nodes), LinkStep(e)
  PROVE  Inv'
<1>0. Types' /\ ControlOK
  BY LinkTypes DEF Inv, Types
<1>1. /\ UNCHANGED <<disk, argv, proc, wanted, contract, test, pc, res, broken>>
      /\ (Fault \/ NoFault) /\ (clean' => peers \subseteq peers')
  BY LinkStepOnly
<1>2. clean' => clean
  BY <1>0, <1>1, Faulty
<1>3. /\ Position' /\ Asked' /\ Files' /\ Unlocked' /\ CleanCallSucceeds'
      /\ n' = n /\ Nodes' = Nodes /\ Others' = Others /\ Heard' = Heard /\ setup' = setup
  BY <1>1, <1>2, BesideKeeps
<1>4. Fresh' /\ Stopped'
  BY <1>1, <1>3 DEF Inv, Fresh, Stopped, Done, test
<1>5. Unharmed' /\ Judged'
  <2>1. Unharmed'
    BY <1>1, <1>2, <1>3 DEF Inv, Unharmed, Meets, Online, test, disk
  <2>2. Judged'
    BY <1>1, JudgedStays
  <2> QED
    BY <2>1, <2>2
<1>6. Told'
  BY <1>1, <1>2, <1>3, SetupKept DEF Inv, Told, Done, test
<1>7. Counted'
  BY <1>1, <1>2, <1>3 DEF Inv, Counted, Done, test, HasPeer
<1>8. Rotations'
  BY <1>1, <1>3, RotationsKept DEF Inv
<1> QED
  BY <1>0, <1>3, <1>4, <1>5, <1>6, <1>7, <1>8 DEF Inv

LEMMA ChainKeeps ==
  ASSUME Inv, (\E m \in Nodes : Block(m)) \/ (\E tx \in pool : Mine(tx))
  PROVE  Inv'
<1>0. Types' /\ ChainOK /\ TestOK /\ DiskOK
  <2>1. Next
    BY DEF Next, Node
  <2> QED
    BY <2>1, TypesStep DEF Inv, Types
<1>1. /\ UNCHANGED <<disk, procs, test, pc, res, clean, broken, faults>>
      /\ height <= height'
  BY ChainStepOnly
<1>3. /\ Position' /\ Asked' /\ Files' /\ Unlocked' /\ CleanCallSucceeds'
      /\ n' = n /\ Nodes' = Nodes /\ Others' = Others /\ Heard' = Heard /\ setup' = setup
  BY <1>1, BesideKeeps DEF procs
<1>4. Fresh' /\ Stopped' /\ Unharmed' /\ Judged'
  <2>1. Judged'
    BY <1>1, JudgedStays DEF procs
  <2> QED
    BY <1>1, <1>3, <2>1 DEF Inv, Fresh, Stopped, Done, Unharmed, Meets, Online, test, procs, disk
<1>5. Told' /\ Counted'
  BY <1>1, <1>3, SetupKept DEF Inv, Told, Counted, Done, test, procs, HasPeer
<1>6. Rotations'
  <2>1. call' = call /\ calls' = calls /\ effective' = effective /\ NN' = NN /\ Emits' = Emits
    BY <1>1, <1>3, SetupKept DEF test
  <2>2. NextCheckpoint(height) <= NextCheckpoint(height') /\ NextCheckpoint(height) \in Nat
        /\ NextCheckpoint(height') \in Nat
    <3>1. height \in Nat /\ height' \in Nat
      BY <1>0, Constants, <1>3 DEF Types, ChainOK
    <3> QED
      BY <1>1, <3>1, NextCheckpointGrows, NextCheckpointNat
  <2>3. effectiveAt \in [Nodes -> Nat] /\ due \in Nat /\ \A tx \in pool : tx \in [node : Nodes, key : Signers]
    BY <1>0 DEF ChainOK
  <2>4. CASE \E m \in Nodes : Block(m)
    <3>1. pool' = pool /\ effectiveAt' = effectiveAt /\ due' = due
      BY <2>4 DEF Block
    <3>2. Scheduled' = Scheduled
      BY <1>1, <1>3, <2>1, <3>1 DEF Scheduled, Done
    <3> QED
      BY <1>1, <1>3, <2>1, <2>2, <2>3, <3>1, <3>2 DEF Inv, Rotations, Done
  <2>5. ASSUME NEW tx \in pool, Mine(tx) PROVE Rotations'
    <3>1. /\ pool' = pool \ {tx} /\ height' = height
          /\ effectiveAt' = [effectiveAt EXCEPT ![tx.node] = NextCheckpoint(height)]
          /\ due' = IF tx.key = call.key THEN NextCheckpoint(height) ELSE due
          /\ \A t \in pool : t.node = tx.node => tx.key <= t.key
      BY <2>5 DEF Mine
    <3>2. Rotations
      BY DEF Inv
    <3>3. CASE Scheduled
      <4>1. tx.key # call.key /\ tx.node # n
        BY <3>2, <3>3 DEF Rotations
      <4>2. due' = due /\ effectiveAt'[n] = effectiveAt[n]
        BY <2>3, <3>1, <4>1
      <4> QED
        BY <1>1, <1>3, <2>1, <2>2, <2>3, <3>1, <3>2, <3>3, <4>2 DEF Rotations, Scheduled, Done
    <3>4. CASE ~Scheduled /\ Scheduled'
      <4>1. pc = "mined" /\ [node |-> n, key |-> call.key] \in pool /\ tx = [node |-> n, key |-> call.key]
        BY <1>1, <1>3, <2>1, <3>1, <3>4 DEF Scheduled, Done
      <4>2. call.key = NN + calls /\ \A t \in pool : t.key <= call.key /\ (t.key = call.key => t.node = n)
        BY <3>2, <4>1 DEF Rotations, Preparing
      <4>3. ASSUME NEW t \in pool', t.key = call.key \/ t.node = n PROVE FALSE
        <5>1. t \in pool /\ t # tx /\ t \in [node : Nodes, key : Signers] /\ tx.node = n /\ tx.key = call.key
          BY <2>3, <3>1, <4>1
        <5>2. t.key \in Int /\ tx.key \in Int
          BY <5>1, <2>3 DEF Signers
        <5>3. t.key = call.key /\ t.node = n
          BY <3>1, <4>2, <4>3, <5>1, <5>2
        <5> QED
          BY <4>1, <5>1, <5>3
      <4>4. n \in Nodes
        BY <1>0 DEF TestOK, n
      <4>5. due' = NextCheckpoint(height) /\ effectiveAt'[n] = due'
        BY <2>3, <3>1, <4>1, <4>4
      <4> QED
        BY <1>1, <1>3, <2>1, <2>2, <3>1, <3>2, <4>1, <4>3, <4>5 DEF Rotations, Scheduled, Done, Preparing
    <3>5. CASE ~Scheduled'
      BY <1>1, <1>3, <2>1, <3>1, <3>2, <3>5 DEF Rotations, Scheduled, Done
    <3> QED
      BY <3>3, <3>4, <3>5
  <2> QED
    BY <2>4, <2>5
<1> QED
  BY <1>0, <1>3, <1>4, <1>5, <1>6 DEF Inv

LEMMA BreaksKeep ==
  ASSUME Inv, Breaks
  PROVE  Inv'
<1>0. Types'
  <2>1. Next
    BY DEF Next, Breaks
  <2> QED
    BY <2>1, TypesStep
<1>1. /\ pc # "idle" /\ pc' = "idle" /\ res' \in {"error", "killed"} /\ clean' = FALSE
      /\ UNCHANGED <<disk, procs, contract, call, todo, pid, effective, calls>>
      /\ broken' = IF call.kind \in Renewing THEN broken \cup {n} ELSE broken
  BY BreaksTo
<1>2. setup' = setup /\ n' = n
  BY <1>1, CallKept DEF disk
<1>3. ~Renewed' /\ ~Done' /\ ~Scheduled'
  BY <1>1 DEF Renewed, Done, Scheduled, Meeting
<1>4. Position' /\ Files' /\ Judged' /\ Unharmed' /\ CleanCallSucceeds' /\ Asked' /\ Fresh'
  BY <1>1, <1>3 DEF Position, Files, Judged, Unharmed, CleanCallSucceeds, Asked, Fresh,
     Preparing, Writing, Meeting
<1>5. Stopped' /\ Told' /\ Counted'
  BY <1>1, <1>3 DEF Stopped, Told, Counted
<1>6. Unlocked'
  <2>1. pc \in Writing => call.kind \in Renewing
    BY DEF Inv, Position
  <2> QED
    BY <1>1, <1>2, <2>1, SetupKept DEF Inv, Unlocked, disk, procs
<1>7. Rotations'
  BY <1>1, <1>2, <1>3, SetupKept DEF Inv, Rotations, Preparing, contract
<1> QED
  BY <1>0, <1>4, <1>5, <1>6, <1>7 DEF Inv

LEMMA BeginKeeps ==
  ASSUME Inv, Begin
  PROVE  Inv'
<1>0. Types' /\ DiskOK /\ ChainOK /\ TestOK
  BY BeginTypes DEF Inv, Types
<1>1. /\ UNCHANGED <<disk, procs, contract, held, effective, broken, faults>> /\ setup' = setup
      /\ pc = "idle" /\ calls' = calls + 1 /\ res' = "running" /\ pid' = "unknown"
  BY DEF Begin, disk
<1>2. setup.kinds \subseteq AllKinds
  BY <1>0 DEF DiskOK, Setup
<1>3. PICK kind \in setup.kinds, node \in Validators, key \in held :
        /\ kind = "reconnect" => proc[node] \in {"stopping", "stopped"}
        /\ call' = [kind |-> kind, node |-> node, key |-> key,
                    able |-> Able(kind, node), company |-> Company(kind, node)]
        /\ pc' = First(kind)
        /\ todo' = IF kind = "reconnect" THEN (Nodes \ {node}) \cap Known ELSE {}
  BY DEF Begin
<1>4. /\ n' = node /\ call'.kind = kind /\ Others' = Nodes \ {node} /\ Nodes' = Nodes
      /\ Heard' = (Nodes \ {node}) \cap Known
      /\ call'.able = Able(kind, node) /\ call'.company = Company(kind, node)
  BY <1>1, <1>3, SetupKept DEF n, Others, Heard
<1>5. \/ kind = "prepare" /\ pc' = "create"
      \/ kind \in Renewing /\ pc' = "key"
      \/ kind = "restart" /\ pc' = "restart"
      \/ kind = "stop" /\ pc' = "stop"
      \/ kind = "reconnect" /\ pc' = "add"
      \/ kind = "coinbase" /\ pc' = "coinbase"
  BY <1>2, <1>3 DEF First, AllKinds, Renewing
<1>6. ~Renewed' /\ ~Done' /\ ~Scheduled'
  BY <1>1, <1>5 DEF Renewed, Done, Scheduled, Meeting
<1>7. Position' /\ CleanCallSucceeds' /\ Asked' /\ Fresh'
  BY <1>1, <1>3, <1>4, <1>5, SetupKept DEF Position, CleanCallSucceeds, Asked, Fresh, Preparing, Writing, Meeting, Renewing
<1>8. Files' /\ Stopped' /\ Told'
  BY <1>4, <1>5, <1>6 DEF Files, Stopped, Told, Writing, Renewing
<1>9. Counted'
  BY <1>1, <1>3, <1>4, <1>5, <1>6 DEF Counted, procs
<1>10. Unlocked'
  BY <1>1, SetupKept DEF Inv, Unlocked, disk, procs, Writing
<1>11. Unharmed'
  BY <1>1, <1>4, <1>5, SetupKept DEF Unharmed, Meets, Company, Online, procs, Meeting
<1>13. Judged'
  <2>1. /\ Known' = Known /\ reth' = reth /\ Validators' = Validators /\ Single' = Single
        /\ UNCHANGED <<proc, argv, store, env>>
    BY <1>1, SetupKept DEF disk, procs
  <2>2. Able(call.kind, n)' = Able(kind, node)
    BY <1>4, <2>1 DEF Able
  <2>3. kind \in {"prepare", "coinbase"} => Able(kind, node)
    BY DEF Able, Renewing
  <2> QED
    BY <1>4, <1>5, <2>2, <2>3 DEF Judged, Meeting, Preparing, Renewing
<1>12. Rotations'
  <2>1. \A tx \in pool : tx.key \in Int /\ tx.key <= NN + calls
    BY <1>0 DEF Inv, Rotations, ChainOK, Signers
  <2>2. calls \in Int /\ NN \in Int
    BY <1>0, Constants DEF TestOK
  <2> QED
    BY <1>1, <1>5, <1>6, <2>1, <2>2, SetupKept DEF Rotations, Preparing, contract
<1> QED
  BY <1>0, <1>7, <1>8, <1>9, <1>10, <1>11, <1>12, <1>13 DEF Inv


-----------------------------------------------------------------------------
(***************************************************************************)
(* The steps of a call.                                                    *)
(***************************************************************************)
LEMMA PrepareKeeps ==
  ASSUME Inv, Prepare
  PROVE  Inv'
<1>0. Types' /\ DiskOK /\ ChainOK /\ TestOK
  BY StepTypes DEF Step, Inv, Types
<1>1. /\ UNCHANGED <<disk, procs, pid, todo, calls, height>> /\ setup' = setup
      /\ call'.node = call.node /\ call'.kind = call.kind /\ pc \in Preparing
      /\ call'.able = call.able /\ call'.company = call.company
      /\ \/ pc' \in Preparing /\ UNCHANGED <<res, broken, clean>>
         \/ pc' = "idle" /\ res' = "ok" /\ UNCHANGED <<call, pool, clean>>
         \/ pc' = "idle" /\ res' = "error" /\ ~clean' /\ UNCHANGED <<call, effectiveAt, due>>
  BY <1>0 DEF Prepare, CreateSigner, Send, Mined, Receipt, Go, Return, Fault, NoFault, Preparing, contract, test, disk, TestOK
<1>2. call.kind = "prepare" /\ n \in Validators
  BY <1>1 DEF Inv, Position, Preparing
<1>3. n' = n /\ Others' = Others /\ Nodes' = Nodes
  BY <1>1, SetupKept DEF n, Others
<1>4. broken' = broken
  BY <1>2 DEF Prepare, CreateSigner, Send, Mined, Receipt, Go, Return, Renewing
<1>5. Position' /\ Asked' /\ Fresh' /\ CleanCallSucceeds' /\ Judged'
  BY <1>1, <1>2, <1>3, SetupKept DEF Inv, Position, Asked, Fresh, CleanCallSucceeds, Judged,
     Preparing, Writing, Meeting, Renewing
<1>6. Files' /\ Stopped' /\ Told' /\ Counted'
  BY <1>1, <1>2 DEF Files, Renewed, Stopped, Told, Counted, Preparing, Writing, Renewing
<1>7. Unlocked'
  BY <1>1, <1>4, SetupKept DEF Inv, Unlocked, Preparing, Writing, disk, procs
<1>8. Unharmed'
  BY <1>1, <1>2, <1>3, SetupKept DEF Inv, Unharmed, Preparing, Meeting, Renewing, Meets
<1>9. Rotations'
  <2>1. \A tx \in pool : tx \in [node : Nodes, key : Signers]
    BY <1>0 DEF ChainOK
  <2>2. NN' = NN /\ Emits' = Emits /\ calls' = calls /\ Rotations
    BY <1>1, SetupKept DEF Inv
  <2>3. CASE CreateSigner
    <3>1. pc' = "send" /\ pool' = pool /\ call'.key = NN + calls /\ pc = "create"
      BY <1>0, <2>3 DEF CreateSigner, Go, contract, TestOK
    <3> QED
      BY <1>1, <2>2, <3>1 DEF Rotations, Scheduled, Done, Preparing
  <2>4. CASE Send
    <3>1. /\ pc' = "mined" \/ (pc' = "idle" /\ res' = "error")
          /\ pool' = pool \cup {[node |-> n, key |-> call.key]} /\ call' = call /\ pc = "send"
      BY <2>4 DEF Send, Go, Return, test
    <3>2. call.key = NN + calls /\ NN + calls \in Int
      BY <1>0, <2>2, <3>1, Constants DEF Rotations, Preparing, TestOK
    <3>3. \A tx \in pool' : tx.key <= NN + calls /\ (tx.key = call.key => tx.node = n)
      BY <2>2, <3>1, <3>2 DEF Rotations
    <3>4. ~Scheduled'
      BY <1>3, <3>1 DEF Scheduled, Done
    <3> QED
      BY <1>1, <1>3, <2>2, <3>1, <3>2, <3>3, <3>4 DEF Rotations, Preparing, Done
  <2>5. CASE Mined
    <3>1. pc' = "receipt" /\ call' = call /\ pc = "mined" /\ UNCHANGED <<pool, effectiveAt, due, height>>
          /\ [node |-> n, key |-> call.key] \notin pool
      BY <2>5 DEF Mined, Go, test, contract
    <3>2. Scheduled
      BY <3>1 DEF Scheduled
    <3> QED
      BY <1>1, <1>3, <2>2, <3>1, <3>2 DEF Rotations, Preparing, Done, NextCheckpoint
  <2>6. CASE Receipt
    <3>1. /\ pc' = "idle" /\ call' = call /\ pc = "receipt" /\ UNCHANGED <<pool, effectiveAt, due, height>>
          /\ effective' = IF Emits THEN effectiveAt[n] ELSE Fallback
      BY <2>6 DEF Receipt, Return, contract
    <3>2. Scheduled
      BY <3>1 DEF Scheduled
    <3>3. effectiveAt[n] = due /\ due <= Fallback
      BY <2>2, <3>2 DEF Rotations, NextCheckpoint, Fallback
    <3>4. due \in Nat
      BY <1>0 DEF ChainOK
    <3>5. effective' >= due /\ (Emits => effective' = due)
      BY <3>1, <3>3, <3>4 DEF Fallback
    <3> QED
      BY <1>1, <1>3, <2>2, <3>1, <3>2, <3>5 DEF Rotations, Preparing, Done, NextCheckpoint
  <2> QED
    BY <2>3, <2>4, <2>5, <2>6 DEF Prepare
<1> QED
  BY <1>0, <1>5, <1>6, <1>7, <1>8, <1>9 DEF Inv

\* every other step of a call
OtherSteps == Artifacts \/ Process \/ Peering \/ Stopping \/ Reconnect \/ SeeCoinbase

LEMMA OtherFrame ==
  ASSUME Inv, OtherSteps
  PROVE  /\ Types' /\ Types /\ setup' = setup /\ pc # "idle" /\ res = "running"
         /\ UNCHANGED <<contract, call, calls, effective>>
         /\ n' = n /\ Others' = Others /\ Heard' = Heard /\ Known' = Known
      /\ Nodes' = Nodes /\ Validators' = Validators /\ reth' = reth
         /\ Single' = Single /\ NN' = NN
         /\ call.kind # "prepare" /\ n \in Validators /\ n \in Nodes
         /\ Rotations'
<1>1. Types' /\ Types
  BY StepTypes DEF Step, OtherSteps, Inv
<1>2. setup' = setup /\ UNCHANGED <<contract, call, calls, effective>>
  BY DEF OtherSteps, Artifacts, Process, Peering, Stopping, Reconnect,
         WriteKey, WriteAddr, ClearStore, ImportStore, UpdateEnv, ImportAccount, Writes,
         Delete, StartProcess, RestartProcess, Stop, Down, Up, Runs, Ready, AddOthers, AddSelf,
         AllTold, PeerCount, AskPid, AskRpc, AddAll, StartCounting, CountPeers, SeeCoinbase, disk, test
<1>3. pc \notin Preparing \cup {"idle"}
  BY DEF OtherSteps, Artifacts, Process, Peering, Stopping, Reconnect, Preparing,
         WriteKey, WriteAddr, ClearStore, ImportStore, UpdateEnv, ImportAccount,
         Delete, StartProcess, RestartProcess, Stop, Down, Up, Ready, AddOthers, AddSelf,
         AllTold, PeerCount, AskPid, AskRpc, AddAll, StartCounting, CountPeers, SeeCoinbase
<1>4. pc' \notin Preparing
  BY <1>3 DEF OtherSteps, Artifacts, Process, Peering, Stopping, Reconnect, Preparing, Started, AfterArtifacts,
         WriteKey, WriteAddr, ClearStore, ImportStore, UpdateEnv, ImportAccount, Go, Return,
         Delete, StartProcess, RestartProcess, Stop, Down, Up, Ready, AddOthers, AddSelf,
         AllTold, PeerCount, AskPid, AskRpc, AddAll, StartCounting, CountPeers, SeeCoinbase
<1>5. call.kind # "prepare" /\ n \in Validators
  BY <1>1, <1>3 DEF Inv, Position, Types, ControlOK, PCs, Renewing
<1>6. /\ n' = n /\ Others' = Others /\ Heard' = Heard /\ Known' = Known
      /\ Nodes' = Nodes /\ Validators' = Validators /\ reth' = reth
      /\ Single' = Single /\ NN' = NN
  BY <1>2, SetupKept, CallKept
<1>7. Rotations'
  BY <1>2, <1>4, <1>5, <1>6 DEF Inv, Rotations, Scheduled, Done, Preparing, contract
<1>8. res = "running" /\ n \in Nodes
  BY <1>1, <1>3, <1>5, Constants DEF Types, ControlOK
<1> QED
  BY <1>1, <1>2, <1>3, <1>5, <1>6, <1>7, <1>8

LEMMA ArtifactsKeep ==
  ASSUME Inv, Artifacts
  PROVE  Inv'
<1>0. /\ Types' /\ Types /\ setup' = setup /\ UNCHANGED call
      /\ n' = n /\ Others' = Others /\ Heard' = Heard /\ Known' = Known
      /\ Nodes' = Nodes /\ Validators' = Validators /\ reth' = reth
      /\ Single' = Single /\ NN' = NN /\ n \in Validators /\ n \in Nodes
      /\ Rotations'
  BY OtherFrame DEF OtherSteps
<1>a. DiskOK /\ TestOK /\ ControlOK
  BY <1>0 DEF Types
<1>1. /\ UNCHANGED <<procs, test, clean, res, broken>> /\ pc \in Writing /\ pc' \in Writing
      /\ pc' \notin {"start", "up", "key"}
  BY DEF Artifacts, WriteKey, WriteAddr, ClearStore, ImportStore, UpdateEnv, ImportAccount, Writes,
         AfterArtifacts, Go, NoFault, Writing
<1>2. call.kind \in Renewing
  BY <1>1 DEF Inv, Position
<1>3. ~Renewed' /\ ~Done'
  BY <1>1 DEF Renewed, Done, Writing, Meeting
<1>4. Position'
  BY <1>0, <1>1, <1>2 DEF Inv, Position, Artifacts, WriteKey, WriteAddr, ClearStore, ImportStore, UpdateEnv,
     ImportAccount, AfterArtifacts, Go, Writing, Preparing, Meeting
<1>5. Asked' /\ Fresh' /\ CleanCallSucceeds' /\ Stopped' /\ Told' /\ Counted'
  BY <1>0, <1>1, <1>2, <1>3 DEF Asked, Fresh, CleanCallSucceeds, Stopped, Told, Counted, Writing, Renewing
<1>6. \A m \in Nodes \ {n} : store'[m] = store[m] /\ env'[m] = env[m]
  BY <1>a DEF DiskOK, Artifacts, WriteKey, WriteAddr, ClearStore, ImportStore, UpdateEnv, SetEnv, ImportAccount
<1>7. Unharmed' /\ Judged'
  <2>1. Able(call.kind, n)' = Able(call.kind, n)
    BY <1>0, <1>2, <1>6, <1>a, AbleKept
  <2>2. Judged'
    BY <1>0, <1>1, <1>2, <2>1 DEF Inv, Judged, Writing, Meeting, Preparing
  <2> QED
    BY <1>0, <1>1, <2>2 DEF Inv, Unharmed, Meets, Online, procs, Writing, Meeting
<1>8. Files'
  <2>1. CASE WriteKey
    BY <1>0, <1>a, <1>3, <2>1 DEF Inv, Files, WriteKey, Go, DiskOK, Writing
  <2>2. CASE WriteAddr
    BY <1>0, <1>a, <1>3, <2>2 DEF Inv, Files, Position, WriteAddr, AfterArtifacts, Go, DiskOK, Writing
  <2>3. CASE ClearStore
    BY <1>0, <1>a, <1>3, <2>3 DEF Inv, Files, ClearStore, Go, DiskOK, Writing
  <2>4. CASE ImportStore
    BY <1>0, <1>a, <1>3, <2>4 DEF Inv, Files, ImportStore, AfterArtifacts, Go, DiskOK, Writing
  <2>5. CASE UpdateEnv
    BY <1>0, <1>a, <1>3, <2>5 DEF Inv, Files, UpdateEnv, SetEnv, Go, DiskOK, Writing
  <2>6. CASE ImportAccount
    BY <1>0, <1>a, <1>3, <2>6 DEF Inv, Files, ImportAccount, Go, DiskOK, Writing
  <2> QED
    BY <2>1, <2>2, <2>3, <2>4, <2>5, <2>6 DEF Artifacts
<1>9. Unlocked'
  <2>1. argv' = argv /\ broken' = broken
    BY <1>1 DEF procs
  <2>2. CASE WriteKey \/ WriteAddr \/ UpdateEnv
    BY <1>0, <2>1, <2>2 DEF Inv, Unlocked, WriteKey, WriteAddr, UpdateEnv, Go, AfterArtifacts, Writing
  <2>3. CASE ClearStore \/ ImportStore
    <3>1. n \in reth /\ pc' \in Writing \ {"key", "addr", "clear"}
      BY <1>1, <2>3 DEF Inv, Position, ClearStore, ImportStore, Go, AfterArtifacts, Writing
    <3>2. ASSUME NEW m \in Validators, m # n PROVE store'[m] = store[m]
      BY <1>0, <1>6, <3>2, <1>a, Constants
    <3> QED
      BY <1>0, <2>1, <2>3, <3>1, <3>2 DEF Inv, Unlocked, ClearStore, ImportStore, Writing
  <2>4. CASE ImportAccount
    BY <1>0, <1>a, <2>1, <2>4 DEF Inv, Unlocked, ImportAccount, Go, Writing, DiskOK
  <2> QED
    BY <2>2, <2>3, <2>4 DEF Artifacts
<1> QED
  BY <1>0, <1>4, <1>5, <1>7, <1>8, <1>9 DEF Inv


LEMMA EndsOnly ==
  ASSUME Types, n \in Nodes, NEW state \in {"starting", "stopping", "stopped", "deleted"}, Ends(n, state)
  PROVE  proc'[n] = state /\ \A m \in Nodes \ {n} : proc'[m] = proc[m]
BY DEF Types, ProcsOK, Ends

LEMMA ProcessKeeps ==
  ASSUME Inv, Process
  PROVE  Inv'
<1>0. /\ Types' /\ Types /\ setup' = setup /\ UNCHANGED call
      /\ n' = n /\ Others' = Others /\ Heard' = Heard /\ Known' = Known
      /\ Nodes' = Nodes /\ Validators' = Validators /\ reth' = reth
      /\ Single' = Single /\ NN' = NN /\ n \in Validators /\ n \in Nodes
      /\ Rotations'
  BY OtherFrame DEF OtherSteps
<1>a. DiskOK /\ ProcsOK /\ TestOK /\ ControlOK
  BY <1>0 DEF Types
<1>b. Position /\ Files /\ Unlocked /\ Judged /\ Unharmed /\ CleanCallSucceeds /\ Fresh
  BY DEF Inv
<1>1. UNCHANGED <<clean, faults, keyFile, addrFile, env, pid>> /\ (Up \/ UNCHANGED store)
  BY DEF Process, Delete, StartProcess, RestartProcess, Stop, Down, Up, Runs, NoFault, disk, test
<1>2. \A m \in Nodes \ {n} : proc'[m] = proc[m] /\ store'[m] = store[m] /\ argv'[m] = argv[m]
  <2>1. CASE Delete \/ Stop \/ Down \/ RestartProcess
    BY <1>0, <1>a, <2>1, EndsOnly DEF Delete, Stop, Down, RestartProcess, Runs, disk, procs, ProcsOK
  <2>2. CASE StartProcess
    BY <1>0, <1>a, <2>2 DEF StartProcess, Runs, disk, ProcsOK
  <2>3. CASE Up
    BY <1>0, <1>a, <2>3 DEF Up, ProcsOK, DiskOK, disk
  <2> QED
    BY <2>1, <2>2, <2>3 DEF Process
<1>3. Online(Heard) => Online(Heard)'
  BY <1>0, <1>2 DEF Online, Others, Heard
<1>4. call.kind \in Renewing => call.able = Able(call.kind, n) /\ Able(call.kind, n)' = Able(call.kind, n)
  BY <1>0, <1>1, <1>2, <1>a, <1>b, AbleKept DEF Judged, Process, Delete, StartProcess, RestartProcess,
     Stop, Down, Up
<1>5. Position' /\ Asked'
  BY <1>0, <1>b DEF Position, Asked, Process, Delete, StartProcess, Started, RestartProcess, Stop, Down, Up,
     Go, Return, Writing, Preparing, Meeting, Renewing
<1>6. Told' /\ Counted'
  BY <1>0, <1>b DEF Position, Told, Counted, Process, Delete, StartProcess, Started, RestartProcess, Stop,
     Down, Up, Go, Return, Done, Writing, Renewing
<1>7. CASE Delete
  <2>1. /\ pc = "delete" /\ pc' = "start" /\ proc'[n] = "deleted" /\ argv'[n] = None
        /\ UNCHANGED <<store, res, broken>>
    BY <1>0, <1>a, <1>7, EndsOnly DEF Delete, Go, Runs, disk, ProcsOK
  <2>2. call.kind \in Renewing
    BY <1>b, <2>1 DEF Position, Writing
  <2>3. Fresh' /\ Stopped' /\ CleanCallSucceeds'
    BY <1>0, <2>1, <2>2 DEF Fresh, Stopped, CleanCallSucceeds, Renewing
  <2>4. Files'
    BY <1>0, <1>1, <1>b, <2>1 DEF Files, Renewed, Done, Writing, Meeting
  <2>5. Unlocked'
    BY <1>0, <1>2, <1>a, <1>b, <2>1, Constants DEF Unlocked, Writing
  <2>6. Unharmed' /\ Judged'
    BY <1>0, <1>1, <1>3, <1>4, <1>b, <2>1, <2>2 DEF Unharmed, Meets, Judged, Meeting, Preparing
  <2> QED
    BY <1>0, <1>5, <1>6, <2>3, <2>4, <2>5, <2>6 DEF Inv
<1>8. CASE StartProcess
  <2>1. /\ pc = "start" /\ UNCHANGED store /\ call.kind \in Renewing /\ call.key \in store[n]
        /\ ~Single
    BY <1>b, <1>8 DEF StartProcess, Runs, disk, Position, Writing, Files
  <2>4. Ecosystem = call.able
    BY <1>4, <2>1 DEF Ecosystem, Able, Renewing
  <2>2. CASE Ecosystem
    <3>1. /\ proc'[n] = "starting" /\ argv'[n] = call.key
          /\ \/ pc' = "ready" /\ UNCHANGED <<res, broken>>
             \/ pc' = "idle" /\ res' = "ok" /\ broken' = broken \ {n} /\ n \notin Known
      BY <1>0, <1>a, <1>8, <2>1, <2>2 DEF StartProcess, Started, Go, Return, ProcsOK
    <3>2. Fresh' /\ Stopped' /\ CleanCallSucceeds'
      BY <1>0, <2>1, <2>2, <2>4, <3>1 DEF Fresh, Stopped, CleanCallSucceeds, Renewing
    <3>3. Files'
      BY <1>0, <1>1, <1>b, <2>1, <3>1 DEF Files, Renewed, Done, Writing, Meeting
    <3>4. Unlocked'
      BY <1>0, <1>2, <1>a, <1>b, <2>1, <3>1, Constants DEF Unlocked
    <3>5. Unharmed' /\ Judged'
      BY <1>0, <1>1, <1>3, <1>4, <1>b, <2>1, <2>2, <2>4, <3>1 DEF Unharmed, Meets, Judged, Meeting, Preparing
    <3> QED
      BY <1>0, <1>5, <1>6, <3>2, <3>3, <3>4, <3>5 DEF Inv
  <2>3. CASE ~Ecosystem
    <3>1. pc' = "idle" /\ res' = "error" /\ broken' = broken \cup {n} /\ UNCHANGED <<argv, proc>>
      BY <1>8, <2>1, <2>3 DEF StartProcess, Return, Renewing
    <3>2. ~call'.able
      BY <1>0, <2>3, <2>4
    <3>3. Fresh' /\ Stopped' /\ CleanCallSucceeds' /\ Files' /\ Unharmed' /\ Judged'
      BY <1>1, <3>1, <3>2 DEF Fresh, Stopped, CleanCallSucceeds, Files, Unharmed, Judged, Renewed, Done,
         Writing, Meeting
    <3>4. Unlocked'
      BY <1>0, <1>b, <2>1, <3>1 DEF Unlocked
    <3> QED
      BY <1>0, <1>5, <1>6, <3>3, <3>4 DEF Inv
  <2> QED
    BY <2>2, <2>3
<1>9. CASE RestartProcess \/ Stop
  <2>1. pc \in {"restart", "stop"} /\ UNCHANGED store /\ UNCHANGED argv /\ call.kind \notin Renewing
    BY <1>b, <1>9 DEF RestartProcess, Stop, Runs, disk, procs, Position, Renewing
  <2>2. ~Renewed'
    BY <1>0, <2>1 DEF Renewed
  <2>5. /\ call.able = Able(call.kind, n) /\ call.kind = pc
    BY <1>b, <2>1 DEF Judged, Position
  <2>3. CASE proc[n] = "deleted"
    <3>1. pc' = "idle" /\ res' = "error" /\ broken' = broken /\ UNCHANGED proc
      BY <1>9, <2>1, <2>3 DEF RestartProcess, Stop, Return, Renewing, procs
    <3>2. ~call'.able
      BY <1>0, <2>1, <2>3, <2>5 DEF Able
    <3>3. Fresh' /\ Stopped' /\ CleanCallSucceeds' /\ Files' /\ Unharmed' /\ Judged'
      BY <1>1, <3>1, <3>2 DEF Fresh, Stopped, CleanCallSucceeds, Files, Unharmed, Judged, Renewed, Done,
         Writing, Meeting
    <3>4. Unlocked'
      BY <1>0, <1>b, <2>1, <3>1 DEF Unlocked, Writing
    <3> QED
      BY <1>0, <1>5, <1>6, <3>3, <3>4 DEF Inv
  <2>4. CASE proc[n] # "deleted"
    <3>1. /\ broken' = broken
          /\ \/ pc = "restart" /\ pc' = "ready" /\ proc'[n] = "starting" /\ n \in Known /\ res' = res
             \/ pc = "restart" /\ pc' = "idle" /\ n \notin Known /\ res' = "ok"
             \/ pc = "stop" /\ pc' = "pid" /\ proc'[n] \in {"stopping", "stopped"} /\ res' = res
      BY <1>0, <1>9, <2>1, <2>4, <2>5, EndsOnly DEF RestartProcess, Started, Stop, Go, Return
    <3>6. /\ pc = "restart" => call.able = (n \in Known => argv[n] \in store[n])
          /\ pc = "stop" => call.able
      BY <2>1, <2>4, <2>5 DEF Able
    <3>2. Fresh' /\ CleanCallSucceeds' /\ Files'
      BY <1>0, <2>2, <3>1, <3>6 DEF Fresh, CleanCallSucceeds, Files, Writing
    <3>3. Stopped'
      BY <1>0, <1>1, <1>b, <2>1, <2>5, <3>1 DEF Stopped, Fresh, Position
    <3>4. Unlocked'
      BY <1>0, <1>b, <2>1, <3>1 DEF Unlocked, Writing
    <3>5. Unharmed' /\ Judged'
      BY <1>0, <1>1, <1>3, <1>b, <2>1, <2>5, <3>1, <3>6 DEF Unharmed, Meets, Judged, Locked, Meeting,
         Preparing, Renewing
    <3> QED
      BY <1>0, <1>5, <1>6, <3>2, <3>3, <3>4, <3>5 DEF Inv
  <2> QED
    BY <2>3, <2>4
<1>10. CASE Down
  <2>1. /\ pc = "down" /\ pc' = "up" /\ proc'[n] = "stopped" /\ argv' = argv
        /\ UNCHANGED <<store, res, broken>>
    BY <1>0, <1>a, <1>10, EndsOnly DEF Down, Go, Runs, disk
  <2>2. call.kind \in Renewing
    BY <1>b, <2>1 DEF Position, Writing
  <2>3. Fresh' /\ Stopped' /\ CleanCallSucceeds'
    BY <1>0, <2>1, <2>2 DEF Fresh, Stopped, CleanCallSucceeds, Renewing
  <2>4. Files'
    BY <1>0, <1>1, <1>b, <2>1 DEF Files, Renewed, Done, Writing, Meeting
  <2>5. Unlocked'
    BY <1>0, <1>b, <2>1 DEF Unlocked, Writing
  <2>6. Unharmed' /\ Judged'
    BY <1>0, <1>1, <1>3, <1>4, <1>b, <2>1, <2>2 DEF Unharmed, Meets, Judged, Meeting, Preparing
  <2> QED
    BY <1>0, <1>5, <1>6, <2>3, <2>4, <2>5, <2>6 DEF Inv
<1>11. CASE Up
  <2>1. /\ pc = "up" /\ call.kind \in Renewing /\ keyFile[n] = call.key /\ addrFile[n] = call.key
        /\ (n \in reth => store[n] = {call.key}) /\ Single
    BY <1>b, <1>11 DEF Up, Position, Writing, Files
  <2>2. /\ store' = [store EXCEPT ![n] = IF n \notin reth /\ addrFile[n] \notin @ THEN @ \cup {keyFile[n]} ELSE @]
        /\ \E x \in (IF n \in reth THEN store[n] ELSE {addrFile[n]}) : argv' = [argv EXCEPT ![n] = x]
        /\ proc' = [proc EXCEPT ![n] = "starting"] /\ Go("ready")
    BY <1>11, <2>1 DEF Up
  <2>3. pc' = "ready" /\ proc'[n] = "starting" /\ UNCHANGED <<res, broken>>
    BY <1>0, <1>a, <2>2 DEF Go, ProcsOK
  <2>4. argv'[n] = call.key /\ call.key \in store'[n]
    BY <1>0, <1>a, <2>1, <2>2 DEF ProcsOK, DiskOK
  <2>5. Fresh' /\ Stopped' /\ CleanCallSucceeds'
    BY <1>0, <2>1, <2>3 DEF Fresh, Stopped, CleanCallSucceeds, Renewing
  <2>6. Files'
    BY <1>0, <1>1, <1>b, <2>1, <2>3, <2>4 DEF Files, Renewed, Done, Writing, Meeting
  <2>7. Unlocked'
    BY <1>0, <1>2, <1>a, <1>b, <2>3, <2>4, Constants DEF Unlocked
  <2>9. call.able
    BY <1>4, <2>1 DEF Able, Renewing
  <2>8. Unharmed' /\ Judged'
    BY <1>0, <1>1, <1>3, <1>4, <1>b, <2>1, <2>3, <2>4, <2>9 DEF Unharmed, Meets, Judged, Meeting, Preparing
  <2> QED
    BY <1>0, <1>5, <1>6, <2>5, <2>6, <2>7, <2>8 DEF Inv
<1> QED
  BY <1>7, <1>8, <1>9, <1>10, <1>11 DEF Process


\* the node that is asked next
LEMMA FirstOf ==
  ASSUME NEW S, S # {}, S \subseteq Nat
  PROVE  (CHOOSE x \in S : \A y \in S : x <= y) \in S
<1>1. \E x \in S : \A y \in S : ~(<<y, x>> \in OpToRel(<, Nat))
  BY NatLessThanWellFounded, WFMin
<1>2. PICK x \in S : \A y \in S : ~(<<y, x>> \in OpToRel(<, Nat))
  BY <1>1
<1>3. ASSUME NEW y \in S PROVE x <= y
  <2>1. <<y, x>> \in Nat \X Nat /\ <<y, x>>[1] = y /\ <<y, x>>[2] = x
    BY <1>2
  <2>2. ~(y < x)
    BY <1>2, <2>1 DEF OpToRel
  <2>3. x \in Nat /\ y \in Nat
    BY <2>1
  <2> QED
    BY <2>2, <2>3
<1> QED
  BY <1>3

LEMMA PeeringKeeps ==
  ASSUME Inv, Peering
  PROVE  Inv'
<1>0. /\ Types' /\ Types /\ setup' = setup /\ UNCHANGED call
      /\ n' = n /\ Others' = Others /\ Heard' = Heard /\ Known' = Known
      /\ Nodes' = Nodes /\ Validators' = Validators /\ reth' = reth
      /\ Single' = Single /\ NN' = NN /\ n \in Validators /\ n \in Nodes
      /\ Rotations'
  BY OtherFrame DEF OtherSteps
<1>a. DiskOK /\ ProcsOK /\ TestOK /\ ControlOK
  BY <1>0 DEF Types
<1>b. Position /\ Files /\ Unlocked /\ Judged /\ Unharmed /\ CleanCallSucceeds /\ Asked /\ Told
  BY DEF Inv
<1>1. /\ UNCHANGED <<disk, argv, proc, peers, clean, faults, pid>> /\ pc \in {"ready"} \cup Meeting
      /\ \/ pc' \in Meeting /\ UNCHANGED <<res, broken>>
         \/ pc' = "idle" /\ res' \in {"ok", "error"}
  BY DEF Peering, Ready, AddOthers, AddSelf, AllTold, PeerCount, Runs, NoFault, Go, Return, Meeting, procs, test
<1>2. call.kind \in Renewing \cup {"restart"}
  BY <1>1, <1>b DEF Position
<1>3. \/ broken' = broken
      \/ pc' = "idle" /\ res' = "ok" /\ broken' = broken \ {n} /\ call.kind \in Renewing
      \/ pc' = "idle" /\ res' = "error" /\ broken' = broken \cup {n}
  BY <1>1 DEF Peering, Ready, AddOthers, AddSelf, AllTold, PeerCount, Go, Return, Renewing
<1>4. Position'
  BY <1>0, <1>1, <1>2, <1>b DEF Position, Peering, Ready, AddOthers, AddSelf, AllTold, PeerCount, Go, Return,
     Writing, Preparing, Meeting
<1>5. Renewed' => Renewed
  BY <1>0, <1>1 DEF Renewed
<1>6. Files'
  BY <1>0, <1>1, <1>5, <1>b DEF Files, Writing, Meeting, disk
<1>7. Unlocked'
  <2>1. ASSUME NEW m \in Validators, argv[m] # None, argv[m] \notin store[m]
        PROVE  m \in reth /\ m \in broken'
    <3>1. m \in reth /\ m \in broken
      BY <1>1, <1>b, <2>1 DEF Unlocked, Writing, Meeting
    <3>2. call.kind \in Renewing => m # n
      BY <1>1, <1>b, <2>1 DEF Files, Renewed
    <3> QED
      BY <1>3, <3>1, <3>2
  <2> QED
    BY <1>0, <1>1, <2>1 DEF Unlocked, disk
<1>8. Stopped' /\ Counted' /\ Fresh'
  BY <1>0, <1>1, <1>2 DEF Stopped, Counted, Fresh, Renewing, Meeting
<1>9. clean /\ ~Single /\ n \in Known /\ pc \in {"others", "peers"} =>
        Others \subseteq wanted[n] /\ \A m \in Heard : (pc = "others" /\ m \in todo) \/ n \in wanted[m]
  BY <1>2, <1>b DEF Told
<1>14. Judged' /\ (call.able \/ (pc = "ready" /\ proc[n] # "online"))
  <2>1. call.able \/ (pc = "ready" /\ proc[n] # "online")
    BY <1>1, <1>b DEF Judged, Locked, Meeting
  <2>2. call.kind \in Renewing \cup {"reconnect"} => Able(call.kind, n)' = Able(call.kind, n)
    BY <1>0, <1>1, <1>a, AbleKept DEF disk
  <2>3. pc' \in Meeting => call.able
    BY <1>1, <1>b DEF Judged, Locked, Peering, Ready, AddOthers, AddSelf, AllTold, PeerCount, Meeting
  <2> QED
    BY <1>0, <1>1, <1>2, <1>b, <2>1, <2>2, <2>3 DEF Judged, Meeting, Preparing, Renewing
<1>10. CASE Ready
  <2>1. /\ pc = "ready" /\ proc[n] = "online" /\ UNCHANGED wanted
        /\ \/ Single /\ pc' = "idle" /\ res' = "ok"
           \/ ~Single /\ pc' = "mesh" /\ todo' = Heard
    BY <1>10 DEF Ready, Return, Go, procs
  <2>2. Asked' /\ CleanCallSucceeds' /\ Told'
    BY <1>0, <1>14, <2>1 DEF Asked, CleanCallSucceeds, Told, Done
  <2>3. Unharmed'
    BY <1>0, <1>1, <1>2, <1>b, <2>1 DEF Unharmed, Meets, Online, Meeting, disk
  <2> QED
    BY <1>0, <1>4, <1>6, <1>7, <1>8, <1>14, <2>2, <2>3 DEF Inv
<1>11. CASE AddOthers
  <2>1. pc = "mesh" /\ todo = Heard /\ ~Single /\ todo' = todo
    BY <1>b, <1>11 DEF AddOthers, Position, Asked, Runs, test, Meeting
  <2>2. CASE proc[n] = "online"
    <3>1. pc' = "others" /\ wanted'[n] = wanted[n] \cup Others /\ UNCHANGED res
      BY <1>0, <1>a, <1>11, <2>2 DEF AddOthers, AddPeers, Go, ProcsOK
    <3>2. Asked' /\ CleanCallSucceeds'
      BY <1>0, <2>1, <3>1 DEF Asked, CleanCallSucceeds
    <3>4. Told'
      BY <1>0, <2>1, <3>1 DEF Told
    <3>3. Unharmed'
      BY <1>0, <1>1, <1>2, <1>b, <2>1, <2>2, <3>1 DEF Unharmed, Meets, Online, Meeting, disk
    <3> QED
      BY <1>0, <1>4, <1>6, <1>7, <1>8, <1>14, <3>2, <3>3, <3>4 DEF Inv
  <2>3. CASE proc[n] # "online"
    <3>1. pc' = "idle" /\ res' = "error" /\ ~clean
      BY <1>b, <1>11, <2>1, <2>3 DEF AddOthers, Return, Unharmed, Meeting
    <3>2. Asked' /\ CleanCallSucceeds' /\ Told' /\ Unharmed'
      BY <1>1, <3>1 DEF Asked, CleanCallSucceeds, Told, Unharmed, Done
    <3> QED
      BY <1>0, <1>4, <1>6, <1>7, <1>8, <1>14, <3>2 DEF Inv
  <2> QED
    BY <2>2, <2>3
<1>12. CASE AddSelf
  <2>1. pc = "others" /\ todo \subseteq Heard /\ todo \subseteq Nat /\ todo # {} /\ ~Single
    BY <1>a, <1>b, <1>12, Constants DEF AddSelf, Position, Asked, Meeting, TestOK
  <2>2. PICK m \in todo :
          /\ todo' = todo \ {m}
          /\ \/ proc[m] = "online" /\ AddPeers(m, {n}) /\ Go(pc)
             \/ proc[m] # "online" /\ UNCHANGED wanted /\ Return("error")
    <3> DEFINE m == CHOOSE x \in todo : \A y \in todo : x <= y
    <3>1. m \in todo
      BY <2>1, FirstOf
    <3>2. /\ todo' = todo \ {m}
          /\ \/ proc[m] = "online" /\ AddPeers(m, {n}) /\ Go(pc)
             \/ proc[m] # "online" /\ UNCHANGED wanted /\ Return("error")
      BY <1>12 DEF AddSelf
    <3> QED
      BY <3>1, <3>2
  <2>3. CASE proc[m] = "online" /\ AddPeers(m, {n}) /\ Go(pc)
    <3>1. pc' = "others" /\ UNCHANGED res
      BY <2>1, <2>3 DEF Go
    <3>2. /\ m \in Nodes /\ m # n /\ wanted'[m] = wanted[m] \cup {n}
          /\ \A x \in Nodes \ {m} : wanted'[x] = wanted[x]
      BY <1>a, <2>1, <2>3 DEF AddPeers, ProcsOK, Others, Heard
    <3>3. Asked' /\ CleanCallSucceeds'
      BY <1>0, <2>1, <2>2, <3>1 DEF Asked, CleanCallSucceeds
    <3>4. Told'
      BY <1>0, <1>1, <1>9, <2>1, <2>2, <3>1, <3>2 DEF Told, Others, Heard
    <3>5. Unharmed'
      BY <1>0, <1>1, <1>2, <1>b, <2>1, <3>1 DEF Unharmed, Meets, Online, Meeting, disk
    <3> QED
      BY <1>0, <1>4, <1>6, <1>7, <1>8, <1>14, <3>3, <3>4, <3>5 DEF Inv
  <2>4. CASE proc[m] # "online" /\ UNCHANGED wanted /\ Return("error")
    <3>1. pc' = "idle" /\ res' = "error"
      BY <2>4 DEF Return
    <3>2. ~(clean /\ call.company)
      BY <1>2, <1>b, <2>1, <2>4 DEF Unharmed, Meets, Online
    <3>3. Asked' /\ CleanCallSucceeds' /\ Told' /\ Unharmed'
      BY <1>0, <1>1, <3>1, <3>2 DEF Asked, CleanCallSucceeds, Told, Unharmed, Done
    <3> QED
      BY <1>0, <1>4, <1>6, <1>7, <1>8, <1>14, <3>3 DEF Inv
  <2> QED
    BY <2>2, <2>3, <2>4
<1>13. CASE AllTold \/ PeerCount
  <2>1. /\ UNCHANGED <<wanted, todo>>
        /\ \/ pc = "others" /\ todo = {} /\ pc' = "peers" /\ UNCHANGED res
           \/ pc = "peers" /\ pc' = "idle" /\ res' = "ok"
    BY <1>13 DEF AllTold, PeerCount, Go, Return, Runs, procs, test
  <2>2. Asked' /\ CleanCallSucceeds'
    BY <1>0, <1>1, <1>14, <1>b, <2>1 DEF Asked, CleanCallSucceeds
  <2>3. Told'
    BY <1>0, <1>1, <1>9, <2>1 DEF Told
  <2>4. Unharmed'
    BY <1>0, <1>1, <1>2, <1>b, <2>1 DEF Unharmed, Meets, Online, Meeting, disk
  <2> QED
    BY <1>0, <1>4, <1>6, <1>7, <1>8, <1>14, <2>2, <2>3, <2>4 DEF Inv
<1> QED
  BY <1>10, <1>11, <1>12, <1>13 DEF Peering


LEMMA StoppingKeeps ==
  ASSUME Inv, Stopping
  PROVE  Inv'
<1>0. /\ Types' /\ Types /\ setup' = setup /\ UNCHANGED call
      /\ n' = n /\ Others' = Others /\ Heard' = Heard /\ Known' = Known
      /\ Nodes' = Nodes /\ Validators' = Validators /\ reth' = reth
      /\ Single' = Single /\ NN' = NN /\ n \in Validators /\ n \in Nodes
      /\ Rotations'
  BY OtherFrame DEF OtherSteps
<1>a. Position /\ Files /\ Unlocked /\ Judged /\ Unharmed /\ CleanCallSucceeds /\ Stopped /\ ControlOK
  BY <1>0 DEF Inv, Types
<1>1. /\ UNCHANGED <<disk, procs, todo>> /\ pc \in {"pid", "rpc"} /\ (Fault \/ NoFault)
      /\ \/ pc' \in {"pid", "rpc"} /\ UNCHANGED <<res, broken>>
         \/ pc' = "idle" /\ res' = "ok" /\ pid' = "none" /\ Return("ok")
      /\ pid' = "none" => pid = "none" \/ proc[n] \notin {"online", "starting", "stopping"}
  BY DEF Stopping, AskPid, AskRpc, Go, Return, test
<1>2. call.kind = "stop"
  BY <1>1, <1>a DEF Position
<1>3. broken' = broken
  BY <1>1, <1>2 DEF Return, Renewing
<1>4. clean' => clean
  BY <1>a, <1>1, Faulty
<1>5. Position' /\ Asked' /\ Fresh' /\ Files'
  BY <1>0, <1>1, <1>2, <1>a DEF Position, Asked, Fresh, Files, Renewed, Writing, Preparing, Meeting, Renewing
<1>6. Stopped'
  BY <1>0, <1>1, <1>2, <1>a DEF Stopped, Done, procs
<1>7. Unlocked'
  BY <1>0, <1>1, <1>3, <1>a DEF Unlocked, Writing, disk, procs
<1>8. Unharmed'
  BY <1>0, <1>1, <1>2, <1>4, <1>a DEF Unharmed, Meets, Meeting, Renewing
<1>9. CleanCallSucceeds' /\ Judged' /\ Told' /\ Counted'
  BY <1>0, <1>1, <1>2, <1>a DEF CleanCallSucceeds, Judged, Told, Counted, Renewing, Meeting, Preparing
<1> QED
  BY <1>0, <1>5, <1>6, <1>7, <1>8, <1>9 DEF Inv

LEMMA ReconnectKeeps ==
  ASSUME Inv, Reconnect
  PROVE  Inv'
<1>0. /\ Types' /\ Types /\ setup' = setup /\ UNCHANGED call
      /\ n' = n /\ Others' = Others /\ Heard' = Heard /\ Known' = Known
      /\ Nodes' = Nodes /\ Validators' = Validators /\ reth' = reth
      /\ Single' = Single /\ NN' = NN /\ n \in Validators /\ n \in Nodes
      /\ Rotations'
  BY OtherFrame DEF OtherSteps
<1>a. DiskOK /\ ProcsOK /\ TestOK /\ ControlOK
  BY <1>0 DEF Types
<1>b. Position /\ Unlocked /\ Judged /\ Unharmed /\ CleanCallSucceeds /\ Asked /\ Counted
  BY DEF Inv
<1>1. /\ UNCHANGED <<disk, argv, proc, peers, clean, faults, pid>> /\ pc \in {"add", "count"}
      /\ \/ pc' \in {"add", "count"} /\ UNCHANGED <<res, broken>>
         \/ pc' = "idle" /\ (Return("ok") \/ Return("error"))
  BY DEF Reconnect, AddAll, StartCounting, CountPeers, NoFault, Go, Return, procs
<1>2. call.kind = "reconnect"
  BY <1>1, <1>b DEF Position
<1>3. broken' = broken /\ ~Renewed'
  BY <1>0, <1>1, <1>2 DEF Return, Renewed, Renewing
<1>4. Position' /\ Fresh' /\ Files' /\ Stopped' /\ Told'
  BY <1>0, <1>1, <1>2, <1>3, <1>b DEF Position, Fresh, Files, Stopped, Told, Writing, Preparing, Meeting, Renewing
<1>5. Unlocked'
  BY <1>0, <1>1, <1>3, <1>b DEF Unlocked, Writing, disk
<1>6. Unharmed'
  BY <1>0, <1>1, <1>2, <1>b DEF Unharmed, Meets, Online, Meeting
<1>11. call.able = Enough
  <2>1. call.able = Able(call.kind, n)
    BY <1>1, <1>2, <1>b DEF Judged
  <2>2. (Nodes \ {n}) \cap Known = Heard
    BY DEF Heard, Others
  <2>3. Able("reconnect", n) <=> Cardinality((Nodes \ {n}) \cap Known) >= 2
    BY DEF Able, Renewing
  <2>4. call.able <=> Enough
    BY <1>2, <2>1, <2>2, <2>3 DEF Enough
  <2>5. call.able \in BOOLEAN /\ Enough \in BOOLEAN
    BY <1>a DEF TestOK, Enough
  <2> QED
    BY <2>4, <2>5
<1>12. (pc' = "count" => call.able) => Judged'
  <2>1. Able(call.kind, n)' = Able(call.kind, n)
    BY <1>0, <1>1, <1>2, <1>a, AbleKept DEF disk
  <2> QED
    BY <1>0, <1>1, <1>2, <1>b, <2>1 DEF Judged, Meeting, Preparing
<1>7. proc'[n] \in {"stopping", "stopped"} /\ \A m \in Nodes : HasPeer(m) => HasPeer(m)'
  BY <1>0, <1>1, <1>2, <1>b DEF Counted, HasPeer
<1>8. CASE AddAll
  <2>1. pc = "add" /\ todo \subseteq Heard /\ todo \subseteq Nat /\ (Enough => todo # {})
    BY <1>a, <1>b, <1>8, Constants DEF AddAll, Asked, TestOK
  <2>2. \/ pc' = "add" /\ todo' \subseteq todo /\ UNCHANGED res
        \/ ~(clean /\ call.able /\ call.company) /\ pc' = "idle" /\ res' = "error"
    <3> DEFINE m == CHOOSE x \in todo : \A y \in todo : x <= y
    <3>1. \/ todo' = todo \ {m} /\ Go(pc)
          \/ ~(Enough /\ proc[m] = "online") /\ Return("error")
      BY <1>8 DEF AddAll
    <3>3. Enough => m \in todo
      BY <2>1, FirstOf
    <3> HIDE DEF m
    <3>4. clean /\ call.company /\ Enough => proc[m] = "online"
      BY <1>1, <1>2, <1>b, <2>1, <3>3 DEF Unharmed, Meets, Online
    <3> QED
      BY <1>11, <2>1, <3>1, <3>4 DEF Go, Return
  <2>3. Asked' /\ CleanCallSucceeds' /\ Counted' /\ Judged'
    BY <1>0, <1>1, <1>7, <1>12, <2>1, <2>2 DEF Asked, CleanCallSucceeds, Counted, Done
  <2> QED
    BY <1>0, <1>4, <1>5, <1>6, <2>3 DEF Inv
<1>9. CASE StartCounting
  <2>1. pc' = "count" /\ todo' = Heard /\ Enough
    BY <1>9 DEF StartCounting, Go
  <2>2. Asked' /\ CleanCallSucceeds' /\ Counted' /\ Judged'
    BY <1>0, <1>1, <1>7, <1>11, <1>12, <2>1 DEF Asked, CleanCallSucceeds, Counted, Done
  <2> QED
    BY <1>0, <1>4, <1>5, <1>6, <2>2 DEF Inv
<1>10. CASE CountPeers
  <2> DEFINE m == CHOOSE x \in todo : \A y \in todo : x <= y
  <2>1. pc = "count" /\ todo \subseteq Heard /\ call.able
    BY <1>b, <1>10 DEF CountPeers, Asked, Judged
  <2>2. \/ HasPeer(m) /\ todo = {m} /\ pc' = "idle" /\ res' = "ok"
        \/ HasPeer(m) /\ pc' = "count" /\ todo' = todo \ {m}
        \/ pc' = "count" /\ todo' = Heard
    BY <1>10, <2>1 DEF CountPeers, Go, Return
  <2> HIDE DEF m
  <2>3. Asked' /\ CleanCallSucceeds' /\ Judged'
    BY <1>0, <1>1, <1>12, <2>1, <2>2 DEF Asked, CleanCallSucceeds
  <2>4. clean => \A x \in Heard : x \in todo \/ HasPeer(x)
    BY <1>2, <1>b, <2>1 DEF Counted
  <2>5. Heard \subseteq Nodes
    BY DEF Others, Heard
  <2>6. Counted'
    BY <1>0, <1>1, <1>7, <2>2, <2>4, <2>5 DEF Counted, Done
  <2> QED
    BY <1>0, <1>4, <1>5, <1>6, <2>3, <2>6 DEF Inv
<1> QED
  BY <1>8, <1>9, <1>10 DEF Reconnect

LEMMA SeeCoinbaseKeeps ==
  ASSUME Inv, SeeCoinbase
  PROVE  Inv'
<1>0. /\ Types' /\ Types /\ setup' = setup /\ UNCHANGED call
      /\ n' = n /\ Others' = Others /\ Heard' = Heard /\ Known' = Known
      /\ Nodes' = Nodes /\ Validators' = Validators /\ reth' = reth
      /\ Single' = Single /\ NN' = NN /\ n \in Validators /\ n \in Nodes
      /\ Rotations'
  BY OtherFrame DEF OtherSteps
<1>1. UNCHANGED <<disk, procs, todo, pid>> /\ pc = "coinbase" /\ pc' = "idle" /\ res' = "ok"
  BY DEF SeeCoinbase, Runs, Return, test
<1>2. call.kind = "coinbase"
  BY <1>1 DEF Inv, Position
<1>3. broken' = broken
  BY <1>2 DEF SeeCoinbase, Return, Renewing
<1>4. Position' /\ Asked' /\ Fresh' /\ Judged' /\ Unharmed' /\ CleanCallSucceeds'
  BY <1>0, <1>1 DEF Inv, Position, Asked, Fresh, Judged, Unharmed, CleanCallSucceeds,
     Writing, Preparing, Meeting
<1>5. Files' /\ Stopped' /\ Told' /\ Counted'
  BY <1>0, <1>1, <1>2 DEF Files, Renewed, Stopped, Told, Counted, Writing, Renewing
<1>6. Unlocked'
  BY <1>0, <1>1, <1>3 DEF Inv, Unlocked, Writing, disk, procs
<1> QED
  BY <1>0, <1>4, <1>5, <1>6 DEF Inv


-----------------------------------------------------------------------------
(***************************************************************************)
(* The invariant holds.                                                    *)
(***************************************************************************)
LEMMA InvInit ==
  ASSUME Init
  PROVE  Inv
<1>1. /\ setup \in Setups /\ keyFile = Own /\ addrFile = Own /\ env = Own /\ argv = Own
      /\ store = [m \in Nodes |-> {m}] /\ proc = [m \in Nodes |-> "online"] /\ peers = Pairs(Nodes)
      /\ wanted = [m \in Nodes |-> {}] /\ height = 1 /\ coinbase = 1 /\ signerOf = Own
      /\ pendingOf = [m \in Nodes |-> None] /\ effectiveAt = [m \in Nodes |-> 0]
      /\ pool = {} /\ due = 0 /\ held = Nodes /\ todo = {} /\ pid = "unknown"
      /\ call = [kind |-> "none", node |-> 1, key |-> 1, able |-> TRUE, company |-> TRUE] /\ pc = "idle" /\ effective = 0
      /\ res = "ok" /\ clean = TRUE /\ broken = {} /\ calls = 0 /\ faults = 0
  BY DEF Init
<1>2. setup \in Setup /\ setup.validators \cup setup.reth \subseteq 1..setup.nodes
  BY <1>1
<1>3. NN \in Nat \ {0} /\ Nodes = 1..NN /\ Validators \subseteq Nodes /\ setup.calls \in Nat
      /\ setup.height \in Nat \ {0} /\ Nodes \subseteq Signers
  BY <1>2 DEF Setup, NN, Nodes, Validators, Signers
<1>4. Own \in [Nodes -> Signers] /\ store \in [Nodes -> SUBSET Signers] /\ 1 \in Nodes
  BY <1>1, <1>3 DEF Own
<1>5. DiskOK
  BY <1>1, <1>4 DEF DiskOK
<1>6. ProcsOK
  <2>1. argv \in [Nodes -> Signers \cup {None}] /\ wanted \in [Nodes -> SUBSET Nodes]
        /\ proc \in [Nodes -> {"online", "starting", "down", "stopping", "stopped", "deleted"}]
    BY <1>1, <1>4
  <2>2. \A e \in peers : Online(e)
    BY <1>1 DEF Online, Pairs
  <2> QED
    BY <1>1, <2>1, <2>2 DEF ProcsOK
<1>7. ChainOK
  BY <1>1, <1>3, <1>4 DEF ChainOK
<1>8. TestOK
  BY <1>1, <1>3, <1>4 DEF TestOK
<1>9. ControlOK
  BY <1>1 DEF ControlOK, PCs
<1>10. Position /\ Asked /\ Fresh /\ Judged /\ Unharmed /\ CleanCallSucceeds
  BY <1>1 DEF Position, Asked, Fresh, Judged, Unharmed, CleanCallSucceeds, Preparing, Writing, Meeting
<1>11. Files /\ Stopped /\ Told /\ Counted
  BY <1>1 DEF Files, Renewed, Stopped, Told, Counted, Writing, Renewing
<1>12. Unlocked
  BY <1>1, <1>3 DEF Unlocked, Own
<1>13. Rotations
  BY <1>1 DEF Rotations, Scheduled, Preparing
<1> QED
  BY <1>5, <1>6, <1>7, <1>8, <1>9, <1>10, <1>11, <1>12, <1>13 DEF Inv, Types

LEMMA StutterKeeps ==
  ASSUME Inv, UNCHANGED vars
  PROVE  Inv'
<1>1. UNCHANGED <<disk, procs, contract, test, pc, res, clean, broken, faults>>
  BY DEF vars
<1>2. setup' = setup /\ call' = call /\ Types
  BY <1>1 DEF Inv, Types, DiskOK, disk, test
<1>3. Types'
  <2>1. DiskOK' /\ ProcsOK' /\ ChainOK' /\ TestOK'
    BY <1>1, <1>2, DiskKept, ProcsKept, ChainKept, TestKept DEF Types
  <2>2. ControlOK'
    BY <1>1, <1>2, SetupKept DEF Types, ControlOK
  <2> QED
    BY <2>1, <2>2 DEF Types
<1>4. Position' /\ Files' /\ Unlocked' /\ Asked' /\ CleanCallSucceeds'
  <2>1. UNCHANGED <<disk, argv, test, pc, res, broken>> /\ (clean' => clean)
    BY <1>1 DEF procs
  <2> QED
    BY <2>1, BesideKeeps
<1>5. /\ n' = n /\ Others' = Others /\ Heard' = Heard /\ Known' = Known /\ NN' = NN
      /\ Single' = Single /\ Emits' = Emits
  BY <1>2, SetupKept, CallKept
<1>6. Unharmed' /\ Judged' /\ Fresh' /\ Stopped' /\ Told' /\ Counted'
  <2>1. Judged'
    BY <1>1, JudgedStays DEF procs
  <2> QED
    BY <1>1, <1>5, <2>1 DEF Inv, disk, Unharmed, Meets, Fresh, Stopped, Told, Counted, Done, Online,
       HasPeer, procs, test
<1>7. Rotations'
  BY <1>1, <1>5 DEF Inv, Rotations, Scheduled, Done, NextCheckpoint, contract, test
<1> QED
  BY <1>3, <1>4, <1>6, <1>7 DEF Inv

LEMMA InvStep ==
  ASSUME Inv, [Next]_vars
  PROVE  Inv'
<1>1. CASE Begin
  BY <1>1, BeginKeeps
<1>2. CASE Prepare
  BY <1>2, PrepareKeeps
<1>3. CASE Artifacts \/ Process \/ Peering
  BY <1>3, ArtifactsKeep, ProcessKeeps, PeeringKeeps
<1>4. CASE Stopping \/ Reconnect \/ SeeCoinbase
  BY <1>4, StoppingKeeps, ReconnectKeeps, SeeCoinbaseKeeps
<1>5. CASE Breaks
  BY <1>5, BreaksKeep
<1>6. ASSUME NEW m \in Nodes, NodeStep(m) PROVE Inv'
  BY <1>6, NodeKeeps
<1>7. ASSUME NEW e \in Pairs(Nodes), LinkStep(e) PROVE Inv'
  BY <1>7, LinkKeeps
<1>8. CASE (\E m \in Nodes : Block(m)) \/ (\E tx \in pool : Mine(tx))
  BY <1>8, ChainKeeps
<1>9. CASE UNCHANGED vars
  BY <1>9, StutterKeeps
<1>10. CASE Next
  BY <1>1, <1>2, <1>3, <1>4, <1>5, <1>6, <1>7, <1>8, <1>10, NextParts DEF Step
<1> QED
  BY <1>9, <1>10

(* In every state of every run the inductive invariant of the calls of     *)
(* checkpoint_rotation.go holds.                                           *)
THEOREM Correct == Spec => []Inv
<1>1. Init => Inv
  BY InvInit
<1>2. Inv /\ [Next]_vars => Inv'
  BY InvStep
<1> QED
  BY <1>1, <1>2, PTL DEF Spec

-----------------------------------------------------------------------------
(***************************************************************************)
(* What it means.                                                          *)
(***************************************************************************)
(* A node that pm2 knows can be started again with the arguments that pm2  *)
(* keeps of it, except a reth node whose change of the signer has failed   *)
(* or is under way (replaceNodeKeystore empties its keystore first).       *)
THEOREM StaysRestartable == Spec => []Restartable
<1>1. Inv => Restartable
  BY DEF Inv, Unlocked, Restartable, Writing
<1> QED
  BY <1>1, Correct, PTL

(* A call during which nothing fails and no deadline passes succeeds if it *)
(* found what Able and Company name, whatever else the failed and killed   *)
(* calls before it have left of files, accounts and processes; and no call *)
(* that lacks what Able names reports success.                             *)
THEOREM CleanCalls == Spec => []CleanCallSucceeds
<1>1. Inv => CleanCallSucceeds
  BY DEF Inv
<1> QED
  BY <1>1, Correct, PTL

\* a connection of one of the others leads to another of them
LEMMA PeerIsOther ==
  ASSUME Inv, proc[n] # "online", NEW m \in Others, HasPeer(m)
  PROVE  \E e \in peers : \E x \in Others : m \in e /\ x \in e /\ x # m
<1>1. PICK e \in peers : m \in e
  BY DEF HasPeer
<1>2. e \subseteq Nodes /\ Cardinality(e) = 2 /\ Online(e)
  BY <1>1 DEF Inv, Types, ProcsOK, Pairs
<1>3. n \notin e
  BY <1>2 DEF Online
<1>4. e # {m}
  <2>1. Cardinality({m}) = 1
    BY FS_Singleton
  <2> QED
    BY <1>2, <2>1
<1>5. PICK x \in e : x # m
  BY <1>1, <1>4
<1> QED
  BY <1>1, <1>2, <1>3, <1>5 DEF Others

\* of at most three nodes in two parts, one part is a single node
LEMMA OneAlone ==
  ASSUME DiskOK, n \in Nodes, NN <= 4, NEW S \in SUBSET Others, S \cap Heard # {}, Heard \ S # {}
  PROVE  \E m \in Heard : S = {m} \/ Others \ S = {m}
<1>1. Others \subseteq 1..4 /\ n \in 1..4 /\ n \notin Others /\ Heard \subseteq Others
  BY Constants DEF Others, Heard
<1>2. PICK a \in S \cap Heard : TRUE
  OBVIOUS
<1>3. PICK c \in Heard \ S : TRUE
  OBVIOUS
<1>4. CASE S = {a}
  BY <1>2, <1>4
<1>5. CASE S # {a}
  <2>1. PICK b \in S : b # a
    BY <1>2, <1>5
  <2>2. ASSUME NEW d \in Others \ S PROVE d = c
    <3>1. a \in 1..4 /\ b \in 1..4 /\ c \in 1..4 /\ d \in 1..4 /\ n \in 1..4
      BY <1>1, <1>2, <1>3, <2>1, <2>2
    <3>2. a # b /\ a # c /\ a # d /\ b # c /\ b # d /\ n # a /\ n # b /\ n # c /\ n # d
      BY <1>1, <1>2, <1>3, <2>1, <2>2
    <3> QED
      BY <3>1, <3>2
  <2>3. Others \ S = {c}
    BY <1>1, <1>3, <2>2
  <2> QED
    BY <1>3, <2>3
<1> QED
  BY <1>4, <1>5

LEMMA SuccessFollows ==
  ASSUME Inv
  PROVE  SuccessIsReal
<1>1. TypeOK
  BY TypesImply DEF Inv
<1>2. NewSignerEverywhere
  BY DEF Inv, Files, Renewed, Renewing, Done, NewSignerEverywhere, Idle
<1>3. StopMeansStopped
  BY DEF Inv, Stopped, Done, StopMeansStopped, Idle
<1>4. EffectiveNotEarly
  BY DEF Inv, Rotations, Done, EffectiveNotEarly, Idle
<1>5. Meshed
  BY DEF Inv, Told, Renewing, Done, Meshed, Idle
<1>6. RemainingConnected
  <2> SUFFICES ASSUME Idle({"reconnect"}), res = "ok", clean, NN <= 4,
                      NEW S \in SUBSET Others, S \cap Heard # {}, Heard \ S # {}
               PROVE  Crosses(S)
    BY DEF RemainingConnected
  <2>1. DiskOK /\ n \in Nodes
    BY DEF Inv, Types, n, TestOK
  <2>2. proc[n] # "online" /\ \A m \in Heard : HasPeer(m)
    BY DEF Inv, Counted, Done, Idle
  <2>3. PICK m \in Heard : S = {m} \/ Others \ S = {m}
    BY <2>1, OneAlone
  <2>5. m \in Others
    BY DEF Heard
  <2>4. \E e \in peers : \E x \in Others : m \in e /\ x \in e /\ x # m
    BY <2>2, <2>5, PeerIsOther
  <2> QED
    BY <2>3, <2>4 DEF Crosses
<1> QED
  BY <1>1, <1>2, <1>3, <1>4, <1>5, <1>6 DEF SuccessIsReal

(* A call that reports success has done what it is for: the new signer is  *)
(* in every file and in the arguments of the process, the node has         *)
(* stopped, the effective block is not too early, and, without faults, the *)
(* nodes are told of each other and no part of four is cut off.            *)
THEOREM SuccessReal == Spec => []SuccessIsReal
<1> QED
  BY SuccessFollows, Correct, PTL

==================================================================================
