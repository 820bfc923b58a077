--------------------------- MODULE LoadGen_proofs ---------------------------
(***************************************************************************)
(* Proofs about the load generator, for every number of accounts and tiers *)
(* and every value of the bounds.                                          *)
(***************************************************************************)
EXTENDS LoadGen, WellFoundedInduction, FiniteSetTheorems, TLAPS

(***************************************************************************)
(* A nonempty set of naturals has a smallest element.                      *)
(***************************************************************************)
LEMMA SmallestNat ==
  ASSUME NEW S \in SUBSET Nat, S # {}
  PROVE  \E n \in S : \A m \in S : n <= m
<1> DEFINE R == {ss \in Nat \X Nat : ss[1] < ss[2]}
<1>1. R = OpToRel(<, Nat)
  BY DEF OpToRel
<1>2. IsWellFoundedOn(R, Nat)
  BY <1>1, NatLessThanWellFounded
<1>3. PICK n \in S : \A m \in S : ~(<<m, n>> \in R)
  <2> HIDE DEF R
  <2> QED BY <1>2, WFMin
<1>4. ASSUME NEW m \in S PROVE n <= m
  <2>1. m \in Nat /\ n \in Nat
    OBVIOUS
  <2>2. <<m, n>> \in Nat \X Nat /\ <<m, n>>[1] = m /\ <<m, n>>[2] = n
    BY <2>1
  <2>3. ~(m < n)
    BY <1>3, <2>2
  <2> QED BY <2>1, <2>3
<1> QED BY <1>4

(***************************************************************************)
(* PendingNonceAt answers the first nonce the node holds nothing for.      *)
(***************************************************************************)
LEMMA PendingNonceProps ==
  ASSUME LoadGenAssumption, NEW a
  PROVE  /\ PendingNonce(a) \in 0..(MaxNonce + 1)
         /\ PendingNonce(a) \notin Held(a)
         /\ \A m \in 0..(PendingNonce(a) - 1) : m \in Held(a)
<1> DEFINE Free == {n \in Nat : n <= MaxNonce + 1 /\ n \notin Held(a)}
<1>0. MaxNonce \in Nat
  BY DEF LoadGenAssumption
<1>1. MaxNonce + 1 \in Free
  BY <1>0 DEF Held
<1>2. PICK n \in Free : \A m \in Free : n <= m
  <2>1. Free \in SUBSET Nat /\ Free # {}
    BY <1>1
  <2> HIDE DEF Free
  <2> QED BY <2>1, SmallestNat
<1>3. n \in 0..(MaxNonce + 1) /\ n \notin Held(a)
  BY <1>0, <1>2
<1>4. \A m \in 0..(n - 1) : m \in Held(a)
  BY <1>0, <1>2, <1>3
<1> HIDE DEF Free
<1> QED BY <1>3, <1>4 DEF PendingNonce

(***************************************************************************)
(* Stepping to the next account, round-robin or not, and to the next tier. *)
(***************************************************************************)
LEMMA NextIndex ==
  ASSUME LoadGenAssumption
  PROVE  /\ 0 \in Accounts
         /\ 1 \in Tiers
         /\ \A a \in Accounts : a + 1 < NumAccounts => a + 1 \in Accounts
         /\ \A a \in Accounts : (a + 1) % NumAccounts \in Accounts
         /\ \A t \in Tiers : t # NumTiers => t + 1 \in Tiers
<1>1. NumAccounts \in Nat /\ NumAccounts > 0
  BY DEF LoadGenAssumption
<1>2. \A n \in Nat : n % NumAccounts \in 0..(NumAccounts - 1)
  BY <1>1
<1> QED BY <1>1, <1>2 DEF LoadGenAssumption, Accounts, Tiers

(***************************************************************************)
(* Every step of the program keeps the type invariant.                     *)
(***************************************************************************)
LEMMA TypeInductive ==
  ASSUME TypeOK, [Next]_vars
  PROVE  TypeOK'
<1> USE LoadGenAssumption DEF TypeOK, mainVars, dispVars, counterVars, workerVars,
        accountVars, nodeVars, world
<1>0. 0 \in Accounts
  BY NextIndex
<1>1. CASE SyncPending
  BY <1>0, <1>1, PendingNonceProps DEF SyncPending, SyncNonce, Goto, Phases
<1>2. CASE SyncConfirmed
  BY <1>0, <1>2 DEF SyncConfirmed, Goto, Phases
<1>3. CASE SyncError
  BY <1>0, <1>3 DEF SyncError, Goto, Phases
<1>4. CASE SyncWrite
  BY <1>0, <1>4 DEF SyncWrite, Goto, Phases
<1>5. CASE QueueLen
  <2>1. idx' \in Accounts
    BY NextIndex, <1>5 DEF QueueLen, Goto
  <2>2. phase' \in Phases
    BY <1>5 DEF QueueLen, Goto, Phases
  <2> QED BY <1>5, <2>1, <2>2 DEF QueueLen
<1>6. CASE QueueRecv
  BY <1>0, <1>6 DEF QueueRecv, Goto, Phases
<1>7. CASE Start
  <2>1. [a \in Accounts |-> "idle"] \in [Accounts -> WorkerStates]
    BY DEF WorkerStates
  <2>2. wpc' \in [Tiers -> [Accounts -> WorkerStates]]
    BY <1>7, <2>1 DEF Start
  <2>3. phase' \in Phases /\ burst' \in 0..MaxBurst
    BY <1>7 DEF Start, Goto, Phases, LoadGenAssumption
  <2>4. nextAccount' \in Accounts /\ dispatcherDone' \in BOOLEAN
    BY <1>0, <1>7 DEF Start
  <2> QED BY <1>7, <2>2, <2>3, <2>4 DEF Start
<1>8. CASE Sample
  BY <1>8 DEF Sample
<1>9. CASE StopCall
  BY <1>0, <1>9 DEF StopCall, Goto, Phases
<1>10. CASE StopReturn
  BY <1>0, <1>10 DEF StopReturn, Goto, Phases
<1>11. CASE LoadSent
  BY <1>0, <1>11 DEF LoadSent, Goto, Phases
<1>12. CASE LoadAccepted
  BY <1>0, <1>12 DEF LoadAccepted, Goto, Phases
<1>13. CASE Confirm
  <2>1. idx' \in Accounts
    BY NextIndex, <1>13 DEF Confirm, Goto
  <2>2. phase' \in Phases
    BY <1>13 DEF Confirm, Goto, Phases
  <2>3. PICK c \in {confirmed[idx], confirmedLatest[idx]} :
          /\ confirmedLatest' = [confirmedLatest EXCEPT ![idx] = c]
          /\ snap' = [snap EXCEPT !.confirmed =
                @ + (IF c >= startConfirmed[idx] THEN c - startConfirmed[idx] ELSE 0)]
    BY <1>13 DEF Confirm
  <2>4. c \in Nat /\ startConfirmed[idx] \in Nat
    OBVIOUS
  <2>5. snap.confirmed + (IF c >= startConfirmed[idx] THEN c - startConfirmed[idx] ELSE 0) \in Nat
    BY <2>4
  <2>6. snap' \in [sent : Nat, accepted : Nat, confirmed : Nat]
    BY <2>3, <2>5
  <2>7. confirmedLatest' \in [Accounts -> Nat]
    BY <2>3, <2>4
  <2> QED BY <1>13, <2>1, <2>2, <2>6, <2>7 DEF Confirm
<1>14. CASE PollAgain
  BY <1>0, <1>14 DEF PollAgain, Goto, Phases
<1>15. CASE Judge
  BY <1>0, <1>15 DEF Judge, Goto, Phases
<1>16. CASE NextTier
  <2>1. tier' \in Tiers
    BY NextIndex, <1>16 DEF NextTier, Goto
  <2> QED BY <1>0, <1>16, <2>1 DEF NextTier, Goto, Phases, NoSnap
<1>17. CASE Window
  BY <1>17 DEF Window
<1>18. CASE Dispatch
  <2>1. nextAccount' \in Accounts
    BY NextIndex, <1>18 DEF Dispatch
  <2>2. queue' \in [Accounts -> 0..QueueDepth]
    <3>1. CASE HasRoom(nextAccount)
      <4>1. queue[nextAccount] \in 0..QueueDepth /\ QueueDepth \in Nat
        BY DEF LoadGenAssumption
      <4>2. queue[nextAccount] + 1 \in 0..QueueDepth
        BY <3>1, <4>1 DEF HasRoom
      <4> QED BY <1>18, <3>1, <4>2 DEF Dispatch
    <3>2. CASE ~HasRoom(nextAccount)
      BY <1>18, <3>2 DEF Dispatch
    <3> QED BY <3>1, <3>2
  <2>3. burst' \in 0..MaxBurst
    BY <1>18 DEF Dispatch
  <2>4. /\ dispatched' \in [Tiers -> Nat]
        /\ failed' \in [Tiers -> Nat]
        /\ backpressureDrop' \in [Tiers -> Nat]
    <3>1. \A f \in [Tiers -> Nat] : [f EXCEPT ![tier] = @ + 1] \in [Tiers -> Nat]
      OBVIOUS
    <3> QED BY <1>18, <3>1 DEF Dispatch
  <2> QED BY <1>18, <2>1, <2>2, <2>3, <2>4 DEF Dispatch
<1>19. CASE DispatcherExit
  BY <1>0, <1>19 DEF DispatcherExit, CloseDone
<1>20. ASSUME NEW g \in Tiers, NEW a \in Accounts, WorkerExit(g, a) PROVE TypeOK'
  BY <1>0, <1>20 DEF WorkerExit, WorkerAt, WorkerGoto, WorkerStates
<1>21. ASSUME NEW g \in Tiers, NEW a \in Accounts, WorkerTake(g, a) PROVE TypeOK'
  BY <1>0, <1>21 DEF WorkerTake, WorkerAt, WorkerGoto, WorkerStates, Count
<1>22. ASSUME NEW g \in Tiers, NEW a \in Accounts, SendAccepted(g, a) PROVE TypeOK'
  BY <1>0, <1>22 DEF SendAccepted, WorkerAt, WorkerGoto, WorkerStates, Take
<1>23. ASSUME NEW g \in Tiers, NEW a \in Accounts, SendReplyLost(g, a) PROVE TypeOK'
  BY <1>0, <1>23 DEF SendReplyLost, WorkerAt, WorkerGoto, WorkerStates, WorkerLoop, Take, CountFailure, KeepNonce, Count
<1>24. ASSUME NEW g \in Tiers, NEW a \in Accounts, SendNonceError(g, a) PROVE TypeOK'
  BY <1>0, <1>24 DEF SendNonceError, WorkerAt, WorkerGoto, WorkerStates, CountFailure, Count
<1>25. ASSUME NEW g \in Tiers, NEW a \in Accounts, SendOtherError(g, a) PROVE TypeOK'
  BY <1>0, <1>25 DEF SendOtherError, WorkerAt, WorkerGoto, WorkerStates, WorkerLoop, CountFailure, KeepNonce, Count
<1>26. ASSUME NEW g \in Tiers, NEW a \in Accounts, AckCount(g, a) PROVE TypeOK'
  BY <1>0, <1>26 DEF AckCount, WorkerAt, WorkerGoto, WorkerStates, Count
<1>27. ASSUME NEW g \in Tiers, NEW a \in Accounts, AckStore(g, a) PROVE TypeOK'
  BY <1>0, <1>27 DEF AckStore, WorkerAt, WorkerGoto, WorkerStates, WorkerLoop
<1>28. ASSUME NEW g \in Tiers, NEW a \in Accounts, RefreshRead(g, a) PROVE TypeOK'
  BY <1>0, <1>28, PendingNonceProps DEF RefreshRead, WorkerAt, WorkerGoto, WorkerStates
<1>29. ASSUME NEW g \in Tiers, NEW a \in Accounts, RefreshError(g, a) PROVE TypeOK'
  BY <1>0, <1>29 DEF RefreshError, WorkerAt, WorkerGoto, WorkerStates, WorkerLoop
<1>30. ASSUME NEW g \in Tiers, NEW a \in Accounts, RefreshAssign(g, a) PROVE TypeOK'
  BY <1>0, <1>30 DEF RefreshAssign, WorkerAt, WorkerGoto, WorkerStates, WorkerLoop
<1>31. ASSUME NEW a \in Accounts, Mine(a) PROVE TypeOK'
  BY <1>0, <1>31 DEF Mine
<1>32. CASE UNCHANGED vars
  BY <1>32 DEF vars
<1> QED
  BY <1>1, <1>2, <1>3, <1>4, <1>5, <1>6, <1>7, <1>8, <1>9, <1>10, <1>11, <1>12, <1>13, <1>14, <1>15, <1>16, <1>17, <1>18, <1>19, <1>20, <1>21, <1>22, <1>23, <1>24, <1>25, <1>26, <1>27, <1>28, <1>29, <1>30, <1>31, <1>32
     DEF Next, Sync, RunTier, Dispatcher, Worker

(***************************************************************************)
(* Type correctness: in particular no account's channel ever holds more    *)
(* tokens than its capacity and every nonce stays a natural number.        *)
(***************************************************************************)
THEOREM TypeCorrect == Spec => []TypeOK
<1>1. Init => TypeOK
  BY NextIndex, LoadGenAssumption
     DEF Init, TypeOK, Phases, WorkerStates, NoSnap, LoadGenAssumption
<1> QED BY <1>1, TypeInductive, PTL DEF Spec

-----------------------------------------------------------------------------
(* Stop waits for the dispatcher.                                          *)

\* Outside of its tier's measuring no dispatcher runs.
DispatcherGone == phase \notin Final \union {"run", "stopping"} => dispatcherDone

LEMMA DispatcherGoneInductive ==
  ASSUME TypeOK, DispatcherGone, [Next]_vars
  PROVE  DispatcherGone'
<1> USE DEF DispatcherGone, Final, Goto
<1>1. CASE Sync
  BY <1>1 DEF Sync, SyncPending, SyncConfirmed, SyncError, SyncWrite, QueueLen, QueueRecv,
              dispVars, world
<1>2. CASE RunTier
  BY <1>2 DEF RunTier, Start, Sample, StopCall, StopReturn, AwaitDone, LoadSent, LoadAccepted,
              Confirm, PollAgain, Judge, NextTier, dispVars, world, mainVars
<1>3. CASE Dispatcher
  BY <1>3 DEF Dispatcher, Window, Dispatch, DispatcherExit, CloseDone, mainVars
<1>4. ASSUME NEW g \in Tiers, NEW a \in Accounts, Worker(g, a) PROVE DispatcherGone'
  BY <1>4 DEF Worker, WorkerExit, WorkerTake, SendAccepted, SendReplyLost, SendNonceError,
              SendOtherError, AckCount, AckStore, RefreshRead, RefreshError, RefreshAssign,
              mainVars, dispVars
<1>5. ASSUME NEW a \in Accounts, Mine(a) PROVE DispatcherGone'
  BY <1>5 DEF Mine, mainVars, dispVars
<1>6. CASE UNCHANGED vars
  BY <1>6 DEF vars, mainVars, world, dispVars
<1> QED BY <1>1, <1>2, <1>3, <1>4, <1>5, <1>6 DEF Next

\* The dispatcher is the only one to count a dispatched token, for its own tier.
LEMMA DispatchedByDispatch ==
  ASSUME TypeOK, [Next]_vars, dispatched' # dispatched
  PROVE  Dispatch
<1>1. CASE Sync
  BY <1>1 DEF Sync, SyncPending, SyncConfirmed, SyncError, SyncWrite, QueueLen, QueueRecv,
              counterVars, world
<1>2. CASE RunTier
  BY <1>2 DEF RunTier, Start, Sample, StopCall, StopReturn, LoadSent, LoadAccepted,
              Confirm, PollAgain, Judge, NextTier, counterVars, world
<1>3. CASE Dispatcher
  BY <1>3 DEF Dispatcher, Window, DispatcherExit, counterVars
<1>4. ASSUME NEW g \in Tiers, NEW a \in Accounts, Worker(g, a) PROVE FALSE
  BY <1>4 DEF Worker, WorkerExit, WorkerTake, SendAccepted, SendReplyLost, SendNonceError,
              SendOtherError, AckCount, AckStore, RefreshRead, RefreshError, RefreshAssign,
              counterVars
<1>5. ASSUME NEW a \in Accounts, Mine(a) PROVE FALSE
  BY <1>5 DEF Mine, counterVars
<1>6. CASE UNCHANGED vars
  BY <1>6 DEF vars, world, counterVars
<1> QED BY <1>1, <1>2, <1>3, <1>4, <1>5, <1>6 DEF Next

(***************************************************************************)
(* Once Stop has returned for a generator, the generator dispatches        *)
(* nothing more: its counters stand still for the drain loop.              *)
(***************************************************************************)
THEOREM StopIsFinal == Spec => NoDispatchAfterStop
<1>1. Init => DispatcherGone
  BY DEF Init, DispatcherGone
<1>2. ASSUME TypeOK, DispatcherGone, [Next]_vars,
             NEW g \in Tiers,
             g < tier \/ phase \notin (Syncing \union {"start", "run", "stopping"})
      PROVE  dispatched'[g] = dispatched[g]
  <2>1. CASE dispatched' = dispatched
    BY <2>1
  <2>2. CASE dispatched' # dispatched
    <3>1. Dispatch
      BY <1>2, <2>2, DispatchedByDispatch
    <3>2. phase \in {"run", "stopping"} /\ g # tier
      BY <1>2, <3>1 DEF Dispatch, Dispatching, DispatcherGone, TypeOK, Tiers
    <3>3. dispatched' = [dispatched EXCEPT ![tier] = @ + 1] /\ dispatched \in [Tiers -> Nat]
      BY <1>2, <3>1 DEF Dispatch, TypeOK
    <3> QED BY <3>2, <3>3
  <2> QED BY <2>1, <2>2
<1>3. TypeOK /\ DispatcherGone /\ [Next]_vars
        => [\A g \in Tiers :
              (g < tier \/ phase \notin (Syncing \union {"start", "run", "stopping"}))
                 /\ stopped[g] => dispatched'[g] = dispatched[g]]_vars
  BY <1>2
<1> QED
  BY <1>1, <1>3, DispatcherGoneInductive, TypeCorrect, PTL DEF Spec, NoDispatchAfterStop

-----------------------------------------------------------------------------
(* The counters of a generator.                                            *)

Flying(g) == {a \in Accounts : InFlight(g, a)}

\* A generator that was not started has no worker.
Unstarted ==
  \A g \in Tiers, a \in Accounts :
    g > tier \/ (g = tier /\ phase \in Syncing \union {"start"}) => wpc[g][a] = "none"

\* The main goroutine changes no worker but to start those of the current tier.
LEMMA MainWorkers ==
  ASSUME TypeOK, Sync \/ RunTier
  PROVE  /\ Start \/ wpc' = wpc
         /\ UNCHANGED counterVars
<1>1. CASE Sync
  BY <1>1 DEF Sync, SyncPending, SyncConfirmed, SyncError, SyncWrite, QueueLen, QueueRecv,
              workerVars, world, counterVars
<1>2. CASE RunTier
  BY <1>2 DEF RunTier, Start, Sample, StopCall, StopReturn, LoadSent, LoadAccepted,
              Confirm, PollAgain, Judge, NextTier, workerVars, world, counterVars
<1> QED BY <1>1, <1>2

LEMMA UnstartedInductive ==
  ASSUME TypeOK, Unstarted, [Next]_vars
  PROVE  Unstarted'
<1> USE DEF Unstarted, Syncing, Goto
<1>0. tier \in Int /\ \A g \in Tiers : g \in Int
  BY DEF TypeOK, Tiers
<1>1. CASE Sync
  BY <1>0, <1>1 DEF Sync, SyncPending, SyncConfirmed, SyncError, SyncWrite, QueueLen, QueueRecv,
                    world, workerVars
<1>2. CASE Start
  BY <1>0, <1>2 DEF Start, TypeOK
<1>3. CASE RunTier /\ ~Start
  BY <1>0, <1>3 DEF RunTier, Sample, StopCall, StopReturn, LoadSent, LoadAccepted,
                    Confirm, PollAgain, Judge, NextTier, world, mainVars, workerVars
<1>4. CASE Dispatcher
  BY <1>4 DEF Dispatcher, Window, Dispatch, DispatcherExit, mainVars, workerVars
<1>5. ASSUME NEW g \in Tiers, NEW a \in Accounts, Worker(g, a) PROVE Unstarted'
  <2>1. wpc[g][a] # "none" /\ UNCHANGED mainVars
    BY <1>5 DEF Worker, WorkerExit, WorkerTake, SendAccepted, SendReplyLost, SendNonceError,
              SendOtherError, AckCount, AckStore, RefreshRead, RefreshError, RefreshAssign,
              WorkerAt
  <2>2. \E s \in WorkerStates : wpc' = [wpc EXCEPT ![g][a] = s]
    BY <1>5 DEF Worker, WorkerExit, WorkerTake, SendAccepted, SendReplyLost, SendNonceError,
              SendOtherError, AckCount, AckStore, RefreshRead, RefreshError, RefreshAssign,
              WorkerGoto, WorkerLoop, WorkerStates
  <2> QED BY <2>1, <2>2 DEF TypeOK, mainVars
<1>6. ASSUME NEW a \in Accounts, Mine(a) PROVE Unstarted'
  BY <1>6 DEF Mine, mainVars, workerVars
<1>7. CASE UNCHANGED vars
  BY <1>7 DEF vars, mainVars, world, workerVars
<1> QED BY <1>1, <1>2, <1>3, <1>4, <1>5, <1>6, <1>7 DEF Next

\* Token balance of one generator.
Balance(g) ==
  sent[g] = accepted[g] + (failed[g] - backpressureDrop[g]) + Cardinality(Flying(g))

LEMMA FlyingCount ==
  ASSUME LoadGenAssumption, NEW S \in SUBSET Accounts, NEW a \in Accounts
  PROVE  /\ Cardinality(S) \in Nat
         /\ a \notin S => Cardinality(S \union {a}) = Cardinality(S) + 1
         /\ a \in S => Cardinality(S \ {a}) = Cardinality(S) - 1
<1>1. IsFiniteSet(Accounts)
  BY FS_Interval DEF Accounts, LoadGenAssumption
<1>2. IsFiniteSet(S)
  BY <1>1, FS_Subset
<1> QED BY <1>2, FS_CardinalityType, FS_AddElement, FS_RemoveElement

\* A worker's step changes the state of that worker and counters of its generator.
LEMMA WorkerFrame ==
  ASSUME TypeOK, NEW g \in Tiers, NEW a \in Accounts, Worker(g, a)
  PROVE  /\ wpc' \in [Tiers -> [Accounts -> WorkerStates]]
         /\ \A h \in Tiers, b \in Accounts : h # g \/ b # a => wpc'[h][b] = wpc[h][b]
         /\ \A h \in Tiers : h # g =>
               /\ sent'[h] = sent[h] /\ accepted'[h] = accepted[h]
               /\ failed'[h] = failed[h] /\ backpressureDrop'[h] = backpressureDrop[h]
<1>1. PICK s \in WorkerStates : wpc' = [wpc EXCEPT ![g][a] = s]
  BY DEF Worker, WorkerExit, WorkerTake, SendAccepted, SendReplyLost, SendNonceError,
         SendOtherError, AckCount, AckStore, RefreshRead, RefreshError, RefreshAssign,
         WorkerGoto, WorkerLoop, WorkerStates
<1>2. \A c \in {sent, accepted, failed, backpressureDrop} : c \in [Tiers -> Nat]
  BY DEF TypeOK
<1>3. /\ sent' \in {sent, Count(sent, g)}
      /\ accepted' \in {accepted, Count(accepted, g)}
      /\ failed' \in {failed, Count(failed, g)}
      /\ backpressureDrop' = backpressureDrop
  BY DEF Worker, WorkerExit, WorkerTake, SendAccepted, SendReplyLost, SendNonceError,
         SendOtherError, AckCount, AckStore, RefreshRead, RefreshError, RefreshAssign,
         CountFailure, counterVars
<1> QED BY <1>1, <1>2, <1>3 DEF TypeOK, Count

LEMMA BalanceWorker ==
  ASSUME TypeOK, TypeOK', NEW g \in Tiers, NEW a \in Accounts, Worker(g, a),
         NEW h \in Tiers, Balance(h)
  PROVE  Balance(h)'
<1> USE WorkerFrame
<1>0. /\ Flying(h) \in SUBSET Accounts
      /\ Cardinality(Flying(h)) \in Nat
      /\ sent[h] \in Nat /\ accepted[h] \in Nat /\ failed[h] \in Nat
      /\ backpressureDrop[h] \in Nat
  BY LoadGenAssumption, FlyingCount DEF Flying, TypeOK
<1>1. CASE h # g
  <2>1. Flying(h)' = Flying(h)
    BY <1>1 DEF Flying, InFlight
  <2> QED BY <1>1, <2>1 DEF Balance
<1>2. CASE h = g /\ WorkerTake(g, a)
  <2>1. a \notin Flying(g) /\ Flying(g)' = Flying(g) \union {a}
    BY <1>2 DEF WorkerTake, WorkerAt, WorkerGoto, Flying, InFlight, TypeOK
  <2>2. sent'[g] = sent[g] + 1 /\ UNCHANGED <<accepted, failed, backpressureDrop>>
    BY <1>2 DEF WorkerTake, Count, TypeOK
  <2>3. Cardinality(Flying(g)') = Cardinality(Flying(g)) + 1
    BY <1>0, <1>2, <2>1, FlyingCount, LoadGenAssumption
  <2> QED BY <1>0, <1>2, <2>2, <2>3 DEF Balance
<1>3. CASE h = g /\ (SendReplyLost(g, a) \/ SendNonceError(g, a) \/ SendOtherError(g, a))
  <2>1. a \in Flying(g) /\ Flying(g)' = Flying(g) \ {a}
    BY <1>3 DEF SendReplyLost, SendNonceError, SendOtherError, WorkerAt, WorkerGoto, WorkerLoop,
                Flying, InFlight, TypeOK
  <2>2. failed'[g] = failed[g] + 1 /\ UNCHANGED <<sent, accepted, backpressureDrop>>
    BY <1>3 DEF SendReplyLost, SendNonceError, SendOtherError, CountFailure, Count, TypeOK
  <2>3. Cardinality(Flying(g)') = Cardinality(Flying(g)) - 1
    BY <1>0, <1>3, <2>1, FlyingCount, LoadGenAssumption
  <2> QED BY <1>0, <1>3, <2>2, <2>3 DEF Balance
<1>4. CASE h = g /\ AckCount(g, a)
  <2>1. a \in Flying(g) /\ Flying(g)' = Flying(g) \ {a}
    BY <1>4 DEF AckCount, WorkerAt, WorkerGoto, Flying, InFlight, TypeOK
  <2>2. accepted'[g] = accepted[g] + 1 /\ UNCHANGED <<sent, failed, backpressureDrop>>
    BY <1>4 DEF AckCount, Count, TypeOK
  <2>3. Cardinality(Flying(g)') = Cardinality(Flying(g)) - 1
    BY <1>0, <1>4, <2>1, FlyingCount, LoadGenAssumption
  <2> QED BY <1>0, <1>4, <2>2, <2>3 DEF Balance
<1>5. CASE h = g /\ (\/ WorkerExit(g, a) \/ SendAccepted(g, a) \/ AckStore(g, a)
                     \/ RefreshRead(g, a) \/ RefreshError(g, a) \/ RefreshAssign(g, a))
  <2>1. Flying(g)' = Flying(g)
    BY <1>5 DEF WorkerExit, SendAccepted, AckStore, RefreshRead, RefreshError, RefreshAssign,
                WorkerAt, WorkerGoto, WorkerLoop, Flying, InFlight, TypeOK
  <2>2. UNCHANGED counterVars
    BY <1>5 DEF WorkerExit, SendAccepted, AckStore, RefreshRead, RefreshError, RefreshAssign
  <2> QED BY <1>5, <2>1, <2>2 DEF Balance, counterVars
<1> QED BY <1>1, <1>2, <1>3, <1>4, <1>5 DEF Worker

(***************************************************************************)
(* Every token a worker took is accounted for exactly once, whatever the   *)
(* interleaving of dispatcher, workers and workers of earlier tiers.       *)
(***************************************************************************)
THEOREM TokensAccounted == Spec => []SentAccounting
<1>1. Init => Unstarted /\ SentAccounting
  <2> SUFFICES ASSUME Init PROVE Unstarted /\ SentAccounting
    OBVIOUS
  <2>1. \A g \in Tiers : {a \in Accounts : InFlight(g, a)} = {}
    BY DEF Init, InFlight
  <2>2. Cardinality({}) = 0
    BY FS_EmptySet
  <2>3. \A g \in Tiers :
          sent[g] = 0 /\ accepted[g] = 0 /\ failed[g] = 0 /\ backpressureDrop[g] = 0
    BY DEF Init
  <2>4. SentAccounting
    BY <2>1, <2>2, <2>3 DEF SentAccounting
  <2> QED BY <2>4 DEF Init, Unstarted
<1>2. ASSUME TypeOK, TypeOK', Unstarted, SentAccounting, [Next]_vars
      PROVE  SentAccounting'
  <2> SUFFICES ASSUME NEW h \in Tiers, Balance(h) PROVE Balance(h)'
    BY <1>2 DEF SentAccounting, Balance, Flying
  <2>1. CASE Sync \/ RunTier
    <3>1. UNCHANGED counterVars
      BY <1>2, <2>1, MainWorkers
    <3>2. CASE wpc' = wpc
      BY <3>1, <3>2 DEF Balance, Flying, InFlight, counterVars
    <3>3. CASE Start
      <4>1. Flying(h)' = Flying(h)
        BY <1>2, <3>3 DEF Start, Unstarted, Flying, InFlight, TypeOK
      <4> QED BY <3>1, <4>1 DEF Balance, counterVars
    <3> QED BY <1>2, <2>1, <3>2, <3>3, MainWorkers
  <2>2. CASE Dispatcher
    <3>1. Flying(h)' = Flying(h) /\ sent' = sent /\ accepted' = accepted
      BY <2>2 DEF Dispatcher, Window, Dispatch, DispatcherExit, workerVars, counterVars,
                  Flying, InFlight
    <3>2. failed'[h] - backpressureDrop'[h] = failed[h] - backpressureDrop[h]
      <4>1. failed \in [Tiers -> Nat] /\ backpressureDrop \in [Tiers -> Nat]
        BY <1>2 DEF TypeOK
      <4>2. \/ UNCHANGED <<failed, backpressureDrop>>
            \/ /\ failed' = [failed EXCEPT ![tier] = @ + 1]
               /\ backpressureDrop' = [backpressureDrop EXCEPT ![tier] = @ + 1]
        BY <2>2 DEF Dispatcher, Window, Dispatch, DispatcherExit, counterVars
      <4> QED BY <4>1, <4>2
    <3> QED BY <3>1, <3>2 DEF Balance
  <2>3. ASSUME NEW g \in Tiers, NEW a \in Accounts, Worker(g, a) PROVE Balance(h)'
    BY <1>2, <2>3, BalanceWorker
  <2>4. CASE (\E a \in Accounts : Mine(a)) \/ UNCHANGED vars
    BY <2>4 DEF Mine, vars, world, workerVars, counterVars, Balance, Flying, InFlight
  <2> QED BY <1>2, <2>1, <2>2, <2>3, <2>4 DEF Next
<1> QED BY <1>1, <1>2, UnstartedInductive, TypeCorrect, PTL DEF Spec

-----------------------------------------------------------------------------
(* The nonces of the sender accounts.                                      *)

\* The account's nonces of this tier were read and its worker was not started yet.
Synced(a) ==
  \/ phase = "start"
  \/ phase \in Syncing /\ (a < idx \/ (a = idx /\ phase # "syncPending"))

\* Only the current generator's worker is alive, or, up to the moment the account
\* is synchronised, only the previous one's.
Solo(a) ==
  \A g \in Tiers :
    Alive(g, a) /\ phase \notin Final =>
      ~Synced(a) /\ g = (IF phase \in Syncing THEN tier - 1 ELSE tier)

\* The node holds all nonces below n.
Below(a, n) == \A m \in 0..(n - 1) : m \in Held(a)

\* What a worker knows about the nonce it holds.
WorkerNonce(g, a) ==
  /\ wpc[g][a] \in {"send", "ack"} => wnonce[g][a] = nextNonce[a]
  /\ wpc[g][a] \in {"ack", "store"} => wnonce[g][a] \in Held(a)
  /\ wpc[g][a] = "assign" => Below(a, wnonce[g][a])

Contiguous(a) == \A n \in Held(a) : Below(a, n)

NonceKept(a) ==
  /\ Contiguous(a)
  /\ Below(a, nextNonce[a])
  /\ \A g \in Tiers : WorkerNonce(g, a)

NonceInv ==
  /\ \A a \in Accounts \ overlap : Solo(a) /\ NonceKept(a)
  /\ phase \in {"syncConfirmed", "syncWrite"} => Below(idx, readPending)

LEMMA OverlapGrows ==
  ASSUME [Next]_vars
  PROVE  overlap \subseteq overlap'
<1>1. CASE Sync
  BY <1>1 DEF Sync, SyncPending, SyncConfirmed, SyncError, SyncWrite, QueueLen, QueueRecv, world
<1>2. CASE RunTier
  BY <1>2 DEF RunTier, Start, Sample, StopCall, StopReturn, LoadSent, LoadAccepted, Confirm,
              PollAgain, Judge, NextTier, world
<1>3. CASE Dispatcher \/ (\E a \in Accounts : Mine(a)) \/ UNCHANGED vars
  BY <1>3 DEF Dispatcher, Window, Dispatch, DispatcherExit, Mine, vars, world
<1>4. ASSUME NEW g \in Tiers, NEW a \in Accounts, Worker(g, a) PROVE overlap' = overlap
  BY <1>4 DEF Worker, WorkerExit, WorkerTake, SendAccepted, SendReplyLost, SendNonceError,
              SendOtherError, AckCount, AckStore, RefreshRead, RefreshError, RefreshAssign
<1> QED BY <1>1, <1>2, <1>3, <1>4 DEF Next

LEMMA SoloInductive ==
  ASSUME TypeOK, [Next]_vars, NEW a \in Accounts \ overlap', Solo(a)
  PROVE  Solo(a)'
<1> USE DEF Solo, Synced, Syncing, Final, Goto
<1>0. tier \in Int /\ (\A g \in Tiers : g \in Int) /\ idx \in Int /\ a \in Int /\ idx >= 0
      /\ a < NumAccounts /\ a >= 0
  BY LoadGenAssumption DEF TypeOK, Tiers, Accounts, LoadGenAssumption
<1>1. CASE SyncPending
  <2>1. \A g \in Tiers : a = idx => ~Alive(g, a)
    BY <1>1 DEF SyncPending
  <2>2. phase = "syncPending" /\ phase' = "syncConfirmed" /\ UNCHANGED <<idx, tier, wpc>>
    BY <1>1 DEF SyncPending, workerVars
  <2> QED BY <2>1, <2>2 DEF Alive
<1>2. CASE SyncConfirmed \/ SyncError \/ SyncWrite \/ QueueLen \/ QueueRecv
  <2>1. UNCHANGED <<tier, wpc>>
    BY <1>2 DEF SyncConfirmed, SyncError, SyncWrite, QueueLen, QueueRecv, world, workerVars
  <2>2. CASE SyncConfirmed \/ SyncError \/ SyncWrite \/ QueueRecv
    BY <2>1, <2>2 DEF SyncConfirmed, SyncError, SyncWrite, QueueRecv, Alive
  <2>3. CASE QueueLen
    <3>1. phase = "queueLen"
      BY <2>3 DEF QueueLen
    <3>2. \/ phase' = "queueRecv" /\ idx' = idx
          \/ phase' = "syncPending" /\ idx' = idx + 1
          \/ phase' = "start" /\ idx + 1 >= NumAccounts
      BY <1>0, <2>3, LoadGenAssumption DEF QueueLen, LoadGenAssumption
    <3>3. Synced(a)' => Synced(a)
      BY <1>0, <3>1, <3>2, LoadGenAssumption DEF LoadGenAssumption
    <3>4. \A g \in Tiers : Alive(g, a) => ~Synced(a) /\ g = tier - 1
      BY <3>1
    <3>5. CASE phase' = "start"
      BY <1>0, <3>1, <3>2, <3>3, <3>4, <3>5, <2>1 DEF Alive
    <3>6. CASE phase' # "start"
      BY <3>2, <3>3, <3>4, <3>6, <2>1 DEF Alive
    <3> QED BY <2>1, <3>5, <3>6
  <2> QED BY <1>2, <2>2, <2>3
<1>3. CASE Start
  <2>1. \A g \in Tiers : ~Alive(g, a)
    BY <1>3 DEF Start
  <2>2. phase' = "run" /\ UNCHANGED tier
    BY <1>3 DEF Start
  <2>3. \A g \in Tiers : g # tier => wpc'[g] = wpc[g]
    BY <1>3 DEF Start, TypeOK
  <2> QED BY <2>1, <2>2, <2>3 DEF Alive
<1>4. CASE NextTier
  <2>1. UNCHANGED wpc /\ phase = "verdict"
    BY <1>4 DEF NextTier, world, workerVars
  <2>2. \A g \in Tiers : Alive(g, a) => g = tier
    BY <2>1
  <2>3. phase' = "done" \/ (phase' = "syncPending" /\ tier' = tier + 1 /\ idx' = 0)
    BY <1>4 DEF NextTier
  <2> QED BY <1>0, <2>1, <2>2, <2>3 DEF Alive
<1>5. CASE RunTier /\ ~Start /\ ~NextTier
  <2>1. UNCHANGED <<tier, wpc>>
    BY <1>5 DEF RunTier, Sample, StopCall, StopReturn, LoadSent, LoadAccepted,
                Confirm, PollAgain, Judge, world, workerVars, mainVars
  <2>2. phase \notin Syncing \union Final \union {"start"}
        /\ phase' \notin Syncing \union Final \union {"start"}
    BY <1>5 DEF RunTier, Sample, StopCall, StopReturn, LoadSent, LoadAccepted,
                Confirm, PollAgain, Judge, mainVars
  <2> QED BY <2>1, <2>2 DEF Alive
<1>6. CASE Dispatcher \/ (\E b \in Accounts : Mine(b)) \/ UNCHANGED vars
  BY <1>6 DEF Dispatcher, Window, Dispatch, DispatcherExit, Mine, vars, world, mainVars,
              workerVars, Alive
<1>7. ASSUME NEW g \in Tiers, NEW b \in Accounts, Worker(g, b)
      PROVE  Solo(a)'
  <2>1. UNCHANGED <<phase, tier, idx>> /\ Alive(g, b)
    BY <1>7 DEF Worker, WorkerExit, WorkerTake, SendAccepted, SendReplyLost, SendNonceError,
              SendOtherError, AckCount, AckStore, RefreshRead, RefreshError, RefreshAssign,
              WorkerAt, mainVars, Alive
  <2>2. \A h \in Tiers : Alive(h, a)' => Alive(h, a)
    BY <1>7, <2>1, WorkerFrame DEF Alive
  <2> QED BY <2>1, <2>2
<1> QED BY <1>1, <1>2, <1>3, <1>4, <1>5, <1>6, <1>7 DEF Next, Sync, RunTier

LEMMA TakeHolds ==
  ASSUME TypeOK, NEW g \in Tiers, NEW a \in Accounts, NEW n \in 0..MaxNonce, Take(g, a, n)
  PROVE  \A b \in Accounts : Held(b)' = IF b = a THEN Held(b) \union {n} ELSE Held(b)
<1>1. \A h \in Tiers : txs'[h] = IF h = g THEN txs[h] \union {<<a, n>>} ELSE txs[h] \ {<<a, n>>}
  BY DEF Take
<1>2. ASSUME NEW b \in Accounts, NEW m \in 0..MaxNonce
      PROVE  (\E h \in Tiers : <<b, m>> \in txs'[h])
               <=> (\E h \in Tiers : <<b, m>> \in txs[h]) \/ (b = a /\ m = n)
  <2>1. CASE b = a /\ m = n
    BY <1>1, <2>1
  <2>2. CASE ~(b = a /\ m = n)
    <3>1. <<b, m>> # <<a, n>>
      BY <2>2
    <3>2. \A h \in Tiers : <<b, m>> \in txs'[h] <=> <<b, m>> \in txs[h]
      BY <1>1, <3>1
    <3> QED BY <2>2, <3>2
  <2> QED BY <2>1, <2>2
<1> QED BY <1>2 DEF Held

\* What a worker's step may change of the nonces: those of its own account.
LEMMA WorkerNonceFrame ==
  ASSUME TypeOK, NEW g \in Tiers, NEW a \in Accounts, Worker(g, a)
  PROVE  /\ UNCHANGED <<phase, idx, readPending, overlap>>
         /\ \A b \in Accounts : Held(b) \subseteq Held(b)'
         /\ \A b \in Accounts : b # a =>
              /\ nextNonce'[b] = nextNonce[b] /\ Held(b)' = Held(b)
              /\ \A h \in Tiers : wnonce'[h][b] = wnonce[h][b] /\ wpc'[h][b] = wpc[h][b]
<1>1. UNCHANGED <<phase, idx, readPending, overlap>>
  BY DEF Worker, WorkerExit, WorkerTake, SendAccepted, SendReplyLost, SendNonceError,
         SendOtherError, AckCount, AckStore, RefreshRead, RefreshError, RefreshAssign, mainVars
<1>2. txs' = txs \/ \E n \in 0..MaxNonce : Take(g, a, n)
  <2>1. CASE SendAccepted(g, a) \/ SendReplyLost(g, a)
    <3>1. wnonce[g][a] \in 0..MaxNonce
      BY <2>1 DEF SendAccepted, SendReplyLost, TypeOK
    <3> QED BY <2>1, <3>1 DEF SendAccepted, SendReplyLost
  <2>2. CASE ~(SendAccepted(g, a) \/ SendReplyLost(g, a))
    BY <2>2 DEF Worker, WorkerExit, WorkerTake, SendNonceError, SendOtherError, AckCount,
                AckStore, RefreshRead, RefreshError, RefreshAssign, nodeVars
  <2> QED BY <2>1, <2>2
<1>3. \A b \in Accounts : /\ Held(b) \subseteq Held(b)'
                          /\ b # a => Held(b)' = Held(b)
  <2>1. CASE txs' = txs
    BY <2>1 DEF Held
  <2>2. ASSUME NEW n \in 0..MaxNonce, Take(g, a, n)
        PROVE  \A b \in Accounts : /\ Held(b) \subseteq Held(b)'
                                   /\ b # a => Held(b)' = Held(b)
    BY <2>2, TakeHolds
  <2> QED BY <1>2, <2>1, <2>2
<1>4. \E n : nextNonce' \in {nextNonce, [nextNonce EXCEPT ![a] = n]}
  BY DEF Worker, WorkerExit, WorkerTake, SendAccepted, SendReplyLost, SendNonceError,
         SendOtherError, AckCount, AckStore, RefreshRead, RefreshError, RefreshAssign,
         KeepNonce, accountVars
<1>5. \E n : wnonce' \in {wnonce, [wnonce EXCEPT ![g][a] = n]}
  BY DEF Worker, WorkerExit, WorkerTake, SendAccepted, SendReplyLost, SendNonceError,
         SendOtherError, AckCount, AckStore, RefreshRead, RefreshError, RefreshAssign,
         WorkerLoop
<1>6. \A b \in Accounts : b # a =>
        nextNonce'[b] = nextNonce[b] /\ \A h \in Tiers : wnonce'[h][b] = wnonce[h][b]
  <2>1. PICK n : nextNonce' \in {nextNonce, [nextNonce EXCEPT ![a] = n]}
    BY <1>4
  <2>2. PICK k : wnonce' \in {wnonce, [wnonce EXCEPT ![g][a] = k]}
    BY <1>5
  <2>3. nextNonce \in [Accounts -> Nat] /\ wnonce \in [Tiers -> [Accounts -> Nat]]
    BY DEF TypeOK
  <2>4. \A b \in Accounts : b # a => nextNonce'[b] = nextNonce[b]
    BY <2>1, <2>3
  <2>5. \A b \in Accounts, h \in Tiers : b # a => wnonce'[h][b] = wnonce[h][b]
    BY <2>2, <2>3
  <2> QED BY <2>4, <2>5
<1> QED BY <1>1, <1>3, <1>6, WorkerFrame

\* A step of the account's only worker keeps what is known of its nonces.
LEMMA NonceWorker ==
  ASSUME TypeOK, TypeOK', NEW g \in Tiers, NEW a \in Accounts, Worker(g, a),
         Solo(a), NonceKept(a)
  PROVE  NonceKept(a)'
<1> USE DEF NonceKept, Contiguous, Below, WorkerNonce
<1>0. /\ nextNonce[a] \in Nat /\ wnonce[g][a] \in Nat
      /\ phase \notin Final
      /\ Held(a) \subseteq Nat
  BY DEF TypeOK, Worker, WorkerExit, WorkerTake, SendAccepted, SendReplyLost, SendNonceError,
         SendOtherError, AckCount, AckStore, RefreshRead, RefreshError, RefreshAssign,
         WorkerAt, Held
<1>1. \A h \in Tiers : h # g => WorkerNonce(h, a)'
  <2>1. Alive(g, a)
    BY DEF Worker, WorkerExit, WorkerTake, SendAccepted, SendReplyLost, SendNonceError,
           SendOtherError, AckCount, AckStore, RefreshRead, RefreshError, RefreshAssign,
           WorkerAt, Alive
  <2>2. \A h \in Tiers : h # g => ~Alive(h, a) /\ wpc'[h][a] = wpc[h][a]
    BY <1>0, <2>1, WorkerFrame DEF Solo
  <2> QED BY <2>2 DEF Alive
<1>2. CASE SendAccepted(g, a) \/ SendReplyLost(g, a)
  <2>1. wnonce[g][a] \in 0..MaxNonce /\ Take(g, a, wnonce[g][a])
        /\ wpc[g][a] = "send" /\ nextNonce' = nextNonce
    BY <1>0, <1>2 DEF SendAccepted, SendReplyLost, KeepNonce, accountVars, WorkerAt
  <2>2. Held(a)' = Held(a) \union {nextNonce[a]} /\ wnonce[g][a] = nextNonce[a]
    BY <2>1, TakeHolds
  <2>3. Contiguous(a)' /\ Below(a, nextNonce[a])'
    BY <1>0, <2>1, <2>2
  <2>4. WorkerNonce(g, a)'
    <3>1. CASE SendAccepted(g, a)
      <4>1. wpc'[g][a] = "ack" /\ wnonce' = wnonce
        BY <3>1 DEF SendAccepted, WorkerGoto, TypeOK
      <4> QED BY <2>1, <2>2, <4>1
    <3>2. CASE SendReplyLost(g, a)
      <4>1. wpc'[g][a] = "idle"
        BY <3>2 DEF SendReplyLost, WorkerLoop, WorkerGoto, TypeOK
      <4> QED BY <4>1
    <3> QED BY <1>2, <3>1, <3>2
  <2> QED BY <1>1, <2>1, <2>3, <2>4
<1>3. CASE ~(SendAccepted(g, a) \/ SendReplyLost(g, a))
  <2>1. Held(a)' = Held(a)
    BY <1>3 DEF Worker, WorkerExit, WorkerTake, SendNonceError, SendOtherError, AckCount,
                AckStore, RefreshRead, RefreshError, RefreshAssign, nodeVars, Held
  <2>2. CASE AckStore(g, a)
    <3>1. nextNonce'[a] = wnonce[g][a] + 1 /\ wpc'[g][a] = "idle" /\ wpc[g][a] = "store"
      BY <2>2 DEF AckStore, WorkerLoop, WorkerGoto, WorkerAt, TypeOK
    <3>2. Below(a, nextNonce[a])'
      BY <1>0, <2>1, <3>1
    <3> QED BY <1>1, <2>1, <3>1, <3>2
  <2>3. CASE RefreshAssign(g, a)
    <3>1. nextNonce'[a] = wnonce[g][a] /\ wpc'[g][a] = "idle" /\ wpc[g][a] = "assign"
      BY <2>3 DEF RefreshAssign, WorkerLoop, WorkerGoto, WorkerAt, TypeOK
    <3> QED BY <1>0, <1>1, <2>1, <3>1
  <2>4. CASE WorkerTake(g, a) \/ AckCount(g, a)
    <3>1. /\ nextNonce' = nextNonce /\ wnonce'[g][a] = nextNonce[a]
          /\ \/ wpc'[g][a] = "send"
             \/ wpc[g][a] = "ack" /\ wpc'[g][a] = "store"
      BY <2>4 DEF WorkerTake, AckCount, WorkerGoto, WorkerAt, accountVars, TypeOK
    <3> QED BY <1>0, <1>1, <2>1, <3>1
  <2>5. CASE RefreshRead(g, a)
    <3>1. nextNonce' = nextNonce /\ wnonce'[g][a] = PendingNonce(a) /\ wpc'[g][a] = "assign"
      BY <2>5 DEF RefreshRead, WorkerGoto, accountVars, TypeOK
    <3>2. Below(a, PendingNonce(a))
      BY PendingNonceProps, LoadGenAssumption
    <3> QED BY <1>0, <1>1, <2>1, <3>1, <3>2
  <2>6. CASE WorkerExit(g, a) \/ SendNonceError(g, a) \/ SendOtherError(g, a) \/ RefreshError(g, a)
    <3>1. nextNonce' = nextNonce /\ wpc'[g][a] \in {"exit", "refresh", "idle"}
      BY <2>6 DEF WorkerExit, SendNonceError, SendOtherError, RefreshError, KeepNonce,
                  WorkerLoop, WorkerGoto, accountVars, TypeOK
    <3> QED BY <1>0, <1>1, <2>1, <3>1
  <2> QED BY <1>3, <2>2, <2>3, <2>4, <2>5, <2>6 DEF Worker
<1> QED BY <1>2, <1>3

\* The main goroutine's steps: only SyncWrite assigns nonces, and to an account
\* none of whose workers is alive.
LEMMA NonceMain ==
  ASSUME TypeOK, TypeOK', Sync \/ RunTier, NonceInv, NEW a \in Accounts \ overlap'
  PROVE  NonceKept(a)'
<1> USE DEF NonceKept, Contiguous, Below, WorkerNonce
<1>1. UNCHANGED <<txs, wnonce>> /\ overlap \subseteq overlap'
  BY DEF Sync, SyncPending, SyncConfirmed, SyncError, SyncWrite, QueueLen, QueueRecv, RunTier,
         Start, Sample, StopCall, StopReturn, LoadSent, LoadAccepted, Confirm, PollAgain, Judge,
         NextTier, world, nodeVars, workerVars
<1>2. Held(a)' = Held(a)
  BY <1>1 DEF Held
<1>3. a \notin overlap /\ Solo(a) /\ NonceKept(a)
  BY <1>1 DEF NonceInv
<1>4. CASE SyncWrite
  <2>1. wpc' = wpc /\ nextNonce' = [nextNonce EXCEPT ![idx] = readPending]
    BY <1>4 DEF SyncWrite, workerVars
  <2>2. CASE a = idx
    <3>1. \A g \in Tiers : ~Alive(g, a)
      BY <1>3, <1>4, <2>2 DEF SyncWrite, Solo, Synced, Syncing, Final
    <3>2. Below(a, readPending)
      BY <1>4, <2>2 DEF NonceInv, SyncWrite
    <3>3. nextNonce'[a] = readPending
      BY <2>1, <2>2 DEF TypeOK
    <3> QED BY <1>1, <1>2, <1>3, <2>1, <3>1, <3>2, <3>3 DEF Alive
  <2>3. CASE a # idx
    BY <1>1, <1>2, <1>3, <2>1, <2>3 DEF TypeOK
  <2> QED BY <2>2, <2>3
<1>5. CASE Start
  <2>1. nextNonce' = nextNonce
    BY <1>5 DEF Start, accountVars
  <2>2. \A g \in Tiers : wpc'[g][a] = wpc[g][a] \/ wpc'[g][a] = "idle"
    BY <1>5 DEF Start, TypeOK
  <2> QED BY <1>1, <1>2, <1>3, <2>1, <2>2
<1>6. CASE ~SyncWrite /\ ~Start
  <2>1. nextNonce' = nextNonce /\ wpc' = wpc
    BY <1>6 DEF Sync, SyncPending, SyncConfirmed, SyncError, QueueLen, QueueRecv, RunTier,
           Sample, StopCall, StopReturn, LoadSent, LoadAccepted, Confirm, PollAgain, Judge,
           NextTier, world, accountVars, workerVars
  <2> QED BY <1>1, <1>2, <1>3, <2>1
<1> QED BY <1>4, <1>5, <1>6

\* The local pendingNonce stays below the first free nonce.
LEMMA ReadMain ==
  ASSUME TypeOK, Sync \/ RunTier, NonceInv, phase' \in {"syncConfirmed", "syncWrite"}
  PROVE  Below(idx, readPending)'
<1>1. CASE SyncPending
  <2>1. Below(idx, PendingNonce(idx))
    BY PendingNonceProps, LoadGenAssumption DEF Below
  <2>2. UNCHANGED <<txs, idx>> /\ readPending' = PendingNonce(idx)
    BY <1>1 DEF SyncPending, SyncNonce, nodeVars
  <2> QED BY <2>1, <2>2 DEF Below, Held
<1>2. CASE ~SyncPending
  <2>1. phase = "syncConfirmed" /\ UNCHANGED <<txs, idx, readPending>>
    BY <1>2 DEF Goto, Sync, SyncConfirmed, SyncError, SyncWrite, QueueLen, QueueRecv, RunTier,
           Start, Sample, StopCall, StopReturn, LoadSent, LoadAccepted, Confirm, PollAgain,
           Judge, NextTier, world, nodeVars, mainVars
  <2> QED BY <2>1 DEF NonceInv, Below, Held
<1> QED BY <1>1, <1>2

LEMMA NonceInductive ==
  ASSUME TypeOK, TypeOK', NonceInv, [Next]_vars
  PROVE  NonceInv'
<1>1. ASSUME NEW a \in Accounts \ overlap'
      PROVE  a \notin overlap /\ Solo(a)'
  <2>1. a \notin overlap
    BY OverlapGrows
  <2> QED BY <2>1, SoloInductive DEF NonceInv
<1>2. CASE Sync \/ RunTier
  BY <1>1, <1>2, NonceMain, ReadMain DEF NonceInv
<1>3. CASE Dispatcher \/ (\E b \in Accounts : Mine(b)) \/ UNCHANGED vars
  <2>1. UNCHANGED <<phase, idx, readPending, wpc, wnonce, nextNonce, txs, overlap>>
    BY <1>3 DEF Dispatcher, Window, Dispatch, DispatcherExit, Mine, vars, world, mainVars,
                workerVars, accountVars, nodeVars
  <2>2. \A a \in Accounts : NonceKept(a)' = NonceKept(a)
    BY <2>1 DEF NonceKept, Contiguous, Below, WorkerNonce, Held
  <2>3. Below(idx, readPending)' = Below(idx, readPending)
    BY <2>1 DEF Below, Held
  <2> QED BY <1>1, <2>1, <2>2, <2>3 DEF NonceInv
<1>4. ASSUME NEW g \in Tiers, NEW b \in Accounts, Worker(g, b)
      PROVE  NonceInv'
  <2>1. ASSUME NEW a \in Accounts \ overlap', a = b
        PROVE  NonceKept(a)'
    BY <1>1, <1>4, <2>1, NonceWorker DEF NonceInv
  <2>2. ASSUME NEW a \in Accounts \ overlap', a # b
        PROVE  NonceKept(a)'
    <3>1. NonceKept(a)
      BY <1>1 DEF NonceInv
    <3> QED BY <1>4, <2>2, <3>1, WorkerNonceFrame DEF NonceKept, Contiguous, Below, WorkerNonce
  <2>3. phase' \in {"syncConfirmed", "syncWrite"} => Below(idx, readPending)'
    <3>1. idx \in Accounts
      BY DEF TypeOK
    <3> QED BY <1>4, <3>1, WorkerNonceFrame DEF NonceInv, Below
  <2> QED BY <1>1, <2>1, <2>2, <2>3 DEF NonceInv
<1> QED BY <1>2, <1>3, <1>4 DEF Next

\* It holds throughout.
LEMMA NonceInvariant == Spec => []NonceInv
<1>1. Init => NonceInv
  <2> SUFFICES ASSUME Init PROVE NonceInv
    OBVIOUS
  <2>1. \A a \in Accounts : Held(a) = {} /\ nextNonce[a] = 0
    BY DEF Init, Held
  <2>2. \A g \in Tiers, a \in Accounts : wpc[g][a] = "none"
    BY DEF Init
  <2>3. phase = "syncPending"
    BY DEF Init
  <2> QED BY <2>1, <2>2, <2>3
          DEF NonceInv, NonceKept, Solo, Contiguous, Below, WorkerNonce, Alive
<1> QED BY <1>1, NonceInductive, TypeCorrect, PTL DEF Spec

(***************************************************************************)
(* No worker leaves a nonce gap behind: lost replies, nonce errors and     *)
(* refreshes never strand a transaction behind a nonce nobody sends.       *)
(***************************************************************************)
THEOREM NoncesContiguous == Spec => []NoNonceGap
<1>1. NonceInv => NoNonceGap
  <2> SUFFICES ASSUME NonceInv, NEW a \in Accounts \ overlap, NEW n \in Held(a), NEW m \in 0..n
               PROVE  m \in Held(a)
    BY DEF NoNonceGap
  <2>1. m = n \/ m \in 0..(n - 1)
    BY DEF Held
  <2> QED BY <2>1 DEF NonceInv, NonceKept, Contiguous, Below
<1> QED BY <1>1, NonceInvariant, PTL

-----------------------------------------------------------------------------
(* What is counted as confirmed.                                           *)

\* The account's baseline is that of the current tier.
Based(a) ==
  \/ phase \notin Syncing \union {"aborted"}
  \/ phase \in Syncing /\ (a < idx \/ (a = idx /\ phase \in {"queueLen", "queueRecv"}))

\* Whatever the node holds above the baseline is of the current generator, and
\* there is nothing above a baseline that is being read.
Owned(a) ==
  /\ Based(a) => \A n \in Held(a) : n >= startNonce[a] => <<a, n>> \in txs[tier]
  /\ phase \in {"syncConfirmed", "syncWrite"} /\ a = idx => \A n \in Held(a) : n < readPending

\* Only what the node holds gets into blocks.
BlocksHeld == \A a \in Accounts : \A n \in 0..(confirmed[a] - 1) : n \in Held(a)

OwnInv == BlocksHeld /\ \A a \in Accounts \ overlap : Owned(a)

\* A baseline above which there is nothing.
LEMMA PendingIsAbove ==
  ASSUME NEW a \in Accounts, Contiguous(a)
  PROVE  \A n \in Held(a) : n < PendingNonce(a)
<1>1. PendingNonce(a) \in Nat /\ PendingNonce(a) \notin Held(a)
  BY PendingNonceProps, LoadGenAssumption DEF LoadGenAssumption
<1> SUFFICES ASSUME NEW n \in Held(a), n >= PendingNonce(a) PROVE FALSE
  BY <1>1 DEF Held
<1>2. n \in Nat /\ n # PendingNonce(a)
  BY <1>1 DEF Held
<1>3. PendingNonce(a) \in 0..(n - 1)
  BY <1>1, <1>2
<1> QED BY <1>1, <1>3 DEF Contiguous, Below

\* The main goroutine's steps: only SyncWrite moves a baseline.
LEMMA OwnedMain ==
  ASSUME TypeOK, Sync \/ RunTier, NEW a \in Accounts \ overlap', NonceInv, OwnInv
  PROVE  Owned(a)'
<1> USE DEF Owned, Based, Syncing, Goto
<1>0. /\ a \notin overlap /\ Owned(a) /\ Contiguous(a)
      /\ idx \in Int /\ a \in Int /\ a < NumAccounts /\ 0 <= a /\ Held(a) \subseteq Int
  <2>1. [Next]_vars
    BY DEF Next
  <2>2. a \notin overlap
    BY <2>1, OverlapGrows
  <2>3. Owned(a) /\ Contiguous(a)
    BY <2>2 DEF OwnInv, NonceInv, NonceKept
  <2>4. idx \in Int /\ a \in Int /\ a < NumAccounts /\ 0 <= a
    BY LoadGenAssumption DEF TypeOK, Accounts, LoadGenAssumption
  <2>5. Held(a) \subseteq Int
    BY DEF Held
  <2> QED BY <2>2, <2>3, <2>4, <2>5
<1>1. UNCHANGED txs /\ Held(a)' = Held(a)
  BY DEF Sync, SyncPending, SyncConfirmed, SyncError, SyncWrite, QueueLen, QueueRecv, RunTier,
         Start, Sample, StopCall, StopReturn, LoadSent, LoadAccepted, Confirm, PollAgain, Judge,
         NextTier, world, nodeVars, Held
<1>2. CASE SyncPending
  <2>1. /\ phase = "syncPending" /\ phase' = "syncConfirmed" /\ UNCHANGED <<idx, tier, startNonce>>
        /\ readPending' = PendingNonce(idx)
    BY <1>2 DEF SyncPending, SyncNonce, accountVars
  <2>2. a = idx => \A n \in Held(a) : n < readPending'
    BY <1>0, <2>1, PendingIsAbove
  <2> QED BY <1>0, <1>1, <2>1, <2>2
<1>3. CASE SyncConfirmed
  BY <1>0, <1>1, <1>3 DEF SyncConfirmed, world, accountVars
<1>4. CASE SyncError
  BY <1>0, <1>1, <1>4 DEF SyncError
<1>5. CASE SyncWrite
  <2>1. /\ phase = "syncWrite" /\ phase' = "queueLen" /\ UNCHANGED <<idx, tier>>
        /\ startNonce'[a] = IF a = idx THEN readPending ELSE startNonce[a]
    BY <1>5 DEF SyncWrite, TypeOK
  <2>2. readPending \in Int
    BY DEF TypeOK
  <2>3. CASE a = idx
    BY <1>0, <1>1, <2>1, <2>2, <2>3
  <2>4. CASE a # idx
    BY <1>0, <1>1, <2>1, <2>4
  <2> QED BY <2>3, <2>4
<1>6. CASE QueueLen
  <2>1. UNCHANGED <<tier, startNonce>> /\ phase = "queueLen"
    BY <1>6 DEF QueueLen, world, accountVars
  <2>2. \/ phase' = "queueRecv" /\ idx' = idx
        \/ phase' = "syncPending" /\ idx' = idx + 1
        \/ phase' = "start" /\ idx + 1 >= NumAccounts
    BY <1>0, <1>6, LoadGenAssumption DEF QueueLen, LoadGenAssumption
  <2>3. Based(a)' => Based(a)
    BY <1>0, <2>1, <2>2, LoadGenAssumption DEF LoadGenAssumption
  <2> QED BY <1>0, <1>1, <2>1, <2>2, <2>3
<1>7. CASE QueueRecv
  BY <1>0, <1>1, <1>7 DEF QueueRecv, accountVars
<1>8. CASE NextTier
  <2>1. UNCHANGED startNonce /\ phase = "verdict"
    BY <1>8 DEF NextTier, world, accountVars
  <2>2. \/ phase' = "done" /\ tier' = tier
        \/ phase' = "syncPending" /\ idx' = 0
    BY <1>8 DEF NextTier
  <2> QED BY <1>0, <1>1, <2>1, <2>2
<1>9. CASE RunTier /\ ~NextTier
  <2>1. UNCHANGED <<tier, startNonce>>
    BY <1>9 DEF RunTier, Start, Sample, StopCall, StopReturn, LoadSent, LoadAccepted,
                Confirm, PollAgain, Judge, world, accountVars, mainVars
  <2>2. phase \notin Syncing \union {"aborted"} /\ phase' \notin Syncing \union {"aborted"}
    BY <1>9 DEF RunTier, Start, Sample, StopCall, StopReturn, LoadSent, LoadAccepted,
                Confirm, PollAgain, Judge, mainVars
  <2> QED BY <1>0, <1>1, <2>1, <2>2
<1> QED BY <1>2, <1>3, <1>4, <1>5, <1>6, <1>7, <1>8, <1>9 DEF Sync, RunTier

\* A worker's step: the node takes the transactions of the current generator only.
LEMMA OwnedWorker ==
  ASSUME TypeOK, NEW g \in Tiers, NEW b \in Accounts, Worker(g, b),
         NEW a \in Accounts \ overlap, NonceInv, Owned(a)
  PROVE  Owned(a)'
<1>1. UNCHANGED <<phase, tier, idx, readPending, startNonce>>
  BY DEF Worker, WorkerExit, WorkerTake, SendAccepted, SendReplyLost, SendNonceError,
         SendOtherError, AckCount, AckStore, RefreshRead, RefreshError, RefreshAssign,
         mainVars, accountVars
<1>2. Based(a)' = Based(a)
  BY <1>1 DEF Based
<1>3. CASE SendAccepted(g, b) \/ SendReplyLost(g, b)
  <2> DEFINE n == wnonce[g][b]
  <2>1. n \in 0..MaxNonce /\ Take(g, b, n) /\ Alive(g, b) /\ phase \notin Final
    BY <1>3 DEF SendAccepted, SendReplyLost, TypeOK, WorkerAt, Alive
  <2>2. \A h \in Tiers : txs'[h] = IF h = g THEN txs[h] \union {<<b, n>>} ELSE txs[h] \ {<<b, n>>}
    BY <2>1 DEF Take
  <2> HIDE DEF n
  <2>3. tier \in Tiers /\ Held(a)' = IF a = b THEN Held(a) \union {n} ELSE Held(a)
    BY <2>1, TakeHolds DEF TypeOK
  <2>4. CASE a = b
    <3>1. ~Synced(a) /\ g = (IF phase \in Syncing THEN tier - 1 ELSE tier)
      BY <2>1, <2>4 DEF NonceInv, Solo
    <3>2. ~(phase \in {"syncConfirmed", "syncWrite"} /\ a = idx)
      BY <3>1 DEF Synced, Syncing
    <3>3. Based(a) => g = tier
      BY <3>1 DEF Based, Synced
    <3>4. Based(a) => txs'[tier] = txs[tier] \union {<<a, n>>} /\ Held(a)' = Held(a) \union {n}
      BY <2>2, <2>3, <2>4, <3>3
    <3> QED BY <1>1, <1>2, <3>2, <3>4 DEF Owned
  <2>5. CASE a # b
    <3>1. Held(a)' = Held(a) /\ \A m : <<a, m>> \in txs[tier] => <<a, m>> \in txs'[tier]
      BY <2>2, <2>3, <2>5
    <3> QED BY <1>1, <1>2, <3>1 DEF Owned
  <2> QED BY <2>4, <2>5
<1>4. CASE ~(SendAccepted(g, b) \/ SendReplyLost(g, b))
  <2>1. txs' = txs
    BY <1>4 DEF Worker, WorkerExit, WorkerTake, SendNonceError, SendOtherError, AckCount,
                AckStore, RefreshRead, RefreshError, RefreshAssign, nodeVars
  <2> QED BY <1>1, <1>2, <2>1 DEF Owned, Held
<1> QED BY <1>3, <1>4

\* A block takes up only what the node holds, and the node forgets nothing.
LEMMA BlocksInductive ==
  ASSUME TypeOK, BlocksHeld, [Next]_vars
  PROVE  BlocksHeld'
<1>1. \A a \in Accounts : Held(a) \subseteq Held(a)'
  <2>1. ASSUME NEW g \in Tiers, NEW b \in Accounts, Worker(g, b)
        PROVE  \A a \in Accounts : Held(a) \subseteq Held(a)'
    BY <2>1, WorkerNonceFrame
  <2>2. ASSUME ~\E g \in Tiers, b \in Accounts : Worker(g, b)
        PROVE  txs' = txs
    BY <2>2 DEF Next, Sync, SyncPending, SyncConfirmed, SyncError, SyncWrite, QueueLen, QueueRecv,
         RunTier, Start, Sample, StopCall, StopReturn, LoadSent, LoadAccepted, Confirm, PollAgain,
         Judge, NextTier, Dispatcher, Window, Dispatch, DispatcherExit, Mine, vars, world, nodeVars
  <2> QED BY <2>1, <2>2 DEF Held
<1>2. ASSUME NEW a \in Accounts, Mine(a) PROVE BlocksHeld'
  <2>1. ASSUME NEW b \in Accounts, NEW n \in 0..(confirmed'[b] - 1) PROVE n \in Held(b)
    <3>1. confirmed[b] \in Nat /\ confirmed'[b] = IF b = a THEN confirmed[b] + 1 ELSE confirmed[b]
      BY <1>2 DEF Mine, TypeOK
    <3>2. n \in 0..(confirmed[b] - 1) \/ (b = a /\ n = confirmed[b])
      BY <3>1
    <3> QED BY <1>2, <3>2 DEF BlocksHeld, Mine
  <2> QED BY <1>1, <2>1 DEF BlocksHeld
<1>3. ASSUME ~\E a \in Accounts : Mine(a) PROVE confirmed' = confirmed
  <2>1. ASSUME NEW g \in Tiers, NEW b \in Accounts, Worker(g, b) PROVE confirmed' = confirmed
    BY <2>1 DEF Worker, WorkerExit, WorkerTake, SendAccepted, SendReplyLost, SendNonceError,
         SendOtherError, AckCount, AckStore, RefreshRead, RefreshError, RefreshAssign, nodeVars
  <2>2. CASE Sync \/ RunTier
    BY <2>2 DEF Sync, SyncPending, SyncConfirmed, SyncError, SyncWrite, QueueLen, QueueRecv,
         RunTier, Start, Sample, StopCall, StopReturn, LoadSent, LoadAccepted, Confirm, PollAgain,
         Judge, NextTier, world, nodeVars
  <2>3. CASE Dispatcher \/ UNCHANGED vars
    BY <2>3 DEF Dispatcher, Window, Dispatch, DispatcherExit, vars, world, nodeVars
  <2> QED BY <1>3, <2>1, <2>2, <2>3 DEF Next
<1> QED BY <1>1, <1>2, <1>3 DEF BlocksHeld

LEMMA OwnInductive ==
  ASSUME TypeOK, TypeOK', NonceInv, OwnInv, [Next]_vars
  PROVE  OwnInv'
<1>1. BlocksHeld'
  BY BlocksInductive DEF OwnInv
<1>2. ASSUME NEW a \in Accounts \ overlap' PROVE Owned(a)'
  <2>1. a \notin overlap /\ Owned(a)
    BY OverlapGrows DEF OwnInv
  <2>2. CASE Sync \/ RunTier
    BY <2>2, OwnedMain
  <2>3. CASE Dispatcher \/ (\E b \in Accounts : Mine(b)) \/ UNCHANGED vars
    <3>1. UNCHANGED <<phase, tier, idx, readPending, startNonce, txs>>
      BY <2>3 DEF Dispatcher, Window, Dispatch, DispatcherExit, Mine, vars, world, mainVars,
                  accountVars, nodeVars
    <3> QED BY <2>1, <3>1 DEF Owned, Based, Held
  <2>4. ASSUME NEW g \in Tiers, NEW b \in Accounts, Worker(g, b) PROVE Owned(a)'
    BY <2>1, <2>4, OwnedWorker
  <2> QED BY <2>2, <2>3, <2>4 DEF Next
<1> QED BY <1>1, <1>2 DEF OwnInv

\* It holds throughout.
LEMMA OwnInvariant == Spec => []OwnInv
<1>1. Init => OwnInv
  <2> SUFFICES ASSUME Init PROVE OwnInv
    OBVIOUS
  <2>1. \A a \in Accounts : Held(a) = {} /\ confirmed[a] = 0
    BY DEF Init, Held
  <2> QED BY <2>1 DEF OwnInv, BlocksHeld, Owned
<1> QED BY <1>1, OwnInductive, NonceInvariant, TypeCorrect, PTL DEF Spec

(***************************************************************************)
(* What refreshConfirmedCount counts for a tier was sent by its generator, *)
(* on the accounts that had nothing pending when the baseline was read.    *)
(***************************************************************************)
THEOREM ConfirmedAreOwn == Spec => []ConfirmedIsOwn
<1>1. TypeOK /\ OwnInv => ConfirmedIsOwn
  <2> SUFFICES ASSUME TypeOK, OwnInv, Measuring, NEW a \in Accounts, CleanStart(a),
                      NEW n \in startConfirmed[a]..(confirmed[a] - 1)
               PROVE  <<a, n>> \in txs[tier]
    BY DEF ConfirmedIsOwn
  <2>1. n \in 0..(confirmed[a] - 1) /\ n >= startNonce[a]
    BY DEF TypeOK, CleanStart
  <2>2. n \in Held(a)
    BY <2>1 DEF OwnInv, BlocksHeld
  <2>3. Based(a) /\ a \notin overlap
    BY DEF Based, Measuring, CleanStart
  <2> QED BY <2>1, <2>2, <2>3 DEF OwnInv, Owned
<1> QED BY <1>1, OwnInvariant, TypeCorrect, PTL

-----------------------------------------------------------------------------
(* The arithmetic of the drain loop.                                       *)

\* What the accounts below i have got into blocks since the baseline.
Counted(i) ==
  {t \in Accounts \X (0..MaxNonce) :
     t[1] < i /\ startConfirmed[t[1]] <= t[2] /\ t[2] < confirmed[t[1]]}

\* The snapshot never counts more than that, and a tier passes only without a
\* backlog.
CountInv ==
  /\ \A a \in Accounts : confirmedLatest[a] <= confirmed[a]
  /\ phase = "syncWrite" => readConfirmed <= confirmed[idx]
  /\ phase = "confirm" => snap.confirmed <= Cardinality(Counted(idx))
  /\ phase = "decide" => snap.confirmed <= Cardinality(Counted(NumAccounts))
  /\ phase = "verdict" /\ status = "PASS" => snap.accepted <= Cardinality(Counted(NumAccounts))

LEMMA FiniteCounted ==
  ASSUME NEW S, S \subseteq Accounts \X (0..MaxNonce)
  PROVE  IsFiniteSet(S) /\ Cardinality(S) \in Nat
<1>1. IsFiniteSet(Accounts) /\ IsFiniteSet(0..MaxNonce)
  BY LoadGenAssumption, FS_Interval DEF Accounts, LoadGenAssumption
<1>2. IsFiniteSet(Accounts \X (0..MaxNonce))
  BY <1>1, FS_Product
<1> QED BY <1>2, FS_Subset, FS_CardinalityType

\* One more account.
LEMMA CountedNext ==
  ASSUME TypeOK, BlocksHeld, NEW c \in Nat, c <= confirmed[idx]
  PROVE  Cardinality(Counted(idx)) + (IF c >= startConfirmed[idx] THEN c - startConfirmed[idx] ELSE 0)
           <= Cardinality(Counted(idx + 1))
<1> DEFINE low == startConfirmed[idx]
           high == confirmed[idx] - 1
           Column == {idx} \X (low..high)
<1>1. low \in Int /\ high \in Int /\ idx \in Accounts /\ confirmed[idx] \in Nat /\ low >= 0
  BY DEF TypeOK
<1>2. low..high \subseteq 0..MaxNonce
  <2>1. \A n \in 0..high : n \in 0..MaxNonce
    BY <1>1 DEF BlocksHeld, Held
  <2> QED BY <1>1, <2>1
<1>3. Column \subseteq Accounts \X (0..MaxNonce)
  BY <1>1, <1>2
<1>4. Cardinality(Column) = IF low <= high THEN high - low + 1 ELSE 0
  <2> HIDE DEF low, high
  <2>0. low \in Int /\ high \in Int
    BY <1>1
  <2>1. /\ IsFiniteSet(low..high)
        /\ Cardinality(low..high) = IF low > high THEN 0 ELSE high - low + 1
    BY <2>0, FS_Interval
  <2>2. IsFiniteSet({idx}) /\ Cardinality({idx}) = 1
    BY FS_Singleton
  <2>3. Cardinality(Column) = Cardinality({idx}) * Cardinality(low..high)
    BY <2>1, <2>2, FS_Product
  <2>4. Cardinality(low..high) \in Int
    BY <2>0, <2>1
  <2> QED BY <2>0, <2>1, <2>2, <2>3, <2>4
<1>5. Counted(idx + 1) = Counted(idx) \union Column
  <2>1. \A a \in Accounts : a < idx + 1 <=> a < idx \/ a = idx
    BY <1>1 DEF Accounts
  <2>2. ASSUME NEW t \in Accounts \X (0..MaxNonce)
        PROVE  t \in Counted(idx + 1) <=> t \in Counted(idx) \/ t \in Column
    <3>1. t = <<t[1], t[2]>> /\ t[1] \in Accounts /\ t[2] \in Nat
      OBVIOUS
    <3>2. CASE t[1] = idx
      <4>1. t \in Column <=> low <= t[2] /\ t[2] < confirmed[idx]
        BY <1>1, <3>1, <3>2
      <4>2. t \in Counted(idx + 1) <=> low <= t[2] /\ t[2] < confirmed[idx]
        BY <2>1, <3>1, <3>2 DEF Counted
      <4>3. t \notin Counted(idx)
        BY <1>1, <3>2 DEF Counted, Accounts
      <4> QED BY <4>1, <4>2, <4>3
    <3>3. CASE t[1] # idx
      BY <2>1, <3>1, <3>3 DEF Counted
    <3> QED BY <3>2, <3>3
  <2>3. Counted(idx) \subseteq Accounts \X (0..MaxNonce) /\ Counted(idx + 1) \subseteq Accounts \X (0..MaxNonce)
    BY DEF Counted
  <2> QED BY <1>3, <2>2, <2>3
<1>6. Counted(idx) \intersect Column = {}
  BY <1>1 DEF Counted, Accounts
<1>7. IsFiniteSet(Counted(idx)) /\ Cardinality(Counted(idx)) \in Nat
      /\ IsFiniteSet(Column) /\ Cardinality(Column) \in Nat
  BY <1>3, FiniteCounted DEF Counted
<1>8. Cardinality(Counted(idx + 1)) = Cardinality(Counted(idx)) + Cardinality(Column)
  <2> HIDE DEF Column
  <2>1. Cardinality(Counted(idx) \union Column)
          = Cardinality(Counted(idx)) + Cardinality(Column) - Cardinality({})
    BY <1>6, <1>7, FS_Union
  <2>2. Cardinality({}) = 0
    BY FS_EmptySet
  <2>3. Cardinality(Counted(idx + 1)) = Cardinality(Counted(idx)) + Cardinality(Column) - 0
    BY <1>5, <2>1, <2>2
  <2> QED BY <1>7, <2>3
<1>9. (IF c >= low THEN c - low ELSE 0) <= Cardinality(Column)
  BY <1>1, <1>4
<1> QED BY <1>1, <1>7, <1>8, <1>9

\* Later blocks add to what is counted, as long as the baseline stays.
LEMMA CountedGrows ==
  ASSUME TypeOK, TypeOK', startConfirmed' = startConfirmed,
         \A a \in Accounts : confirmed[a] <= confirmed'[a], NEW i \in Int
  PROVE  Cardinality(Counted(i)) <= Cardinality(Counted(i)')
<1>1. Counted(i) \subseteq Counted(i)'
  BY DEF Counted, TypeOK
<1>2. Counted(i)' \subseteq Accounts \X (0..MaxNonce)
  BY DEF Counted
<1>3. IsFiniteSet(Counted(i)')
  BY <1>2, FiniteCounted
<1> QED BY <1>1, <1>3, FS_Subset

\* Nothing else moves the snapshot, the verdict or the nonces that were read.
LEMMA CountFrame ==
  ASSUME TypeOK, [Next]_vars, ~(Sync \/ RunTier)
  PROVE  /\ UNCHANGED <<phase, idx, snap, status, readConfirmed, startConfirmed, confirmedLatest>>
         /\ \A a \in Accounts : confirmed[a] <= confirmed'[a]
<1>1. ASSUME NEW g \in Tiers, NEW a \in Accounts, Worker(g, a)
      PROVE  UNCHANGED <<mainVars, startConfirmed, confirmedLatest, confirmed>>
  BY <1>1 DEF Worker, WorkerExit, WorkerTake, SendAccepted, SendReplyLost, SendNonceError,
         SendOtherError, AckCount, AckStore, RefreshRead, RefreshError, RefreshAssign,
         accountVars, nodeVars
<1>2. CASE Dispatcher \/ UNCHANGED vars
  BY <1>2 DEF Dispatcher, Window, Dispatch, DispatcherExit, vars, world, mainVars, accountVars,
              nodeVars, TypeOK
<1>3. ASSUME NEW a \in Accounts, Mine(a)
      PROVE  /\ UNCHANGED <<mainVars, startConfirmed, confirmedLatest>>
             /\ \A b \in Accounts : confirmed[b] <= confirmed'[b]
  BY <1>3 DEF Mine, accountVars, TypeOK
<1>4. \A b \in Accounts : confirmed[b] <= confirmed[b]
  BY DEF TypeOK
<1> QED BY <1>1, <1>2, <1>3, <1>4 DEF Next, mainVars

LEMMA CountInductive ==
  ASSUME TypeOK, TypeOK', BlocksHeld, CountInv, [Next]_vars
  PROVE  CountInv'
<1> USE DEF CountInv, Goto
<1>0. /\ idx \in Accounts /\ idx \in Int /\ NumAccounts \in Int /\ snap.confirmed \in Nat
      /\ \A a \in Accounts : confirmed[a] \in Nat /\ confirmedLatest[a] \in Nat
  <2>1. idx \in Accounts /\ snap.confirmed \in Nat
    BY DEF TypeOK
  <2>2. \A a \in Accounts : confirmed[a] \in Nat /\ confirmedLatest[a] \in Nat
    BY DEF TypeOK
  <2>3. NumAccounts \in Int /\ idx \in Int
    BY <2>1, LoadGenAssumption DEF Accounts, LoadGenAssumption
  <2> QED BY <2>1, <2>2, <2>3
<1>1. CASE ~(Sync \/ RunTier)
  <2>1. /\ UNCHANGED <<phase, idx, snap, status, readConfirmed, startConfirmed, confirmedLatest>>
        /\ \A a \in Accounts : confirmed[a] <= confirmed'[a]
    BY <1>1, CountFrame
  <2>2. \A i \in {idx, NumAccounts} :
          /\ Cardinality(Counted(i)) <= Cardinality(Counted(i)')
          /\ Cardinality(Counted(i)) \in Nat /\ Cardinality(Counted(i)') \in Nat
    BY <1>0, <2>1, CountedGrows, FiniteCounted DEF Counted
  <2>3. snap.accepted \in Nat /\ readConfirmed \in Nat /\ \A a \in Accounts : confirmed'[a] \in Nat
    BY DEF TypeOK
  <2> QED BY <1>0, <2>1, <2>2, <2>3
<1>2. CASE Sync
  <2>1. confirmed' = confirmed
    BY <1>2 DEF Sync, SyncPending, SyncConfirmed, SyncError, SyncWrite, QueueLen, QueueRecv,
           world, nodeVars
  <2>2. phase' \notin {"confirm", "decide", "verdict"}
    BY <1>2 DEF Sync, SyncPending, SyncConfirmed, SyncError, SyncWrite, QueueLen, QueueRecv
  <2>3. \A a \in Accounts : confirmedLatest'[a] <= confirmed[a]
    <3>1. CASE SyncWrite
      <4>1. readConfirmed <= confirmed[idx]
        BY <3>1 DEF SyncWrite
      <4>2. confirmedLatest' = [confirmedLatest EXCEPT ![idx] = readConfirmed]
        BY <3>1 DEF SyncWrite
      <4>3. ASSUME NEW a \in Accounts PROVE confirmedLatest'[a] <= confirmed[a]
        BY <1>0, <4>1, <4>2 DEF TypeOK
      <4> QED BY <4>3
    <3>2. CASE ~SyncWrite
      BY <1>2, <3>2 DEF Sync, SyncPending, SyncConfirmed, SyncError, QueueLen, QueueRecv, world,
             accountVars
    <3> QED BY <3>1, <3>2
  <2>4. phase' = "syncWrite" => readConfirmed' <= confirmed[idx']
    <3>1. CASE SyncConfirmed
      <4>1. readConfirmed' = confirmed[idx] /\ idx' = idx
        BY <3>1 DEF SyncConfirmed
      <4> QED BY <1>0, <4>1
    <3>2. CASE ~SyncConfirmed
      BY <1>2, <3>2 DEF Sync, SyncPending, SyncError, SyncWrite, QueueLen, QueueRecv
    <3> QED BY <3>1, <3>2
  <2> QED BY <2>1, <2>2, <2>3, <2>4
<1>3. CASE Start \/ StopCall \/ StopReturn \/ LoadSent \/ PollAgain \/ NextTier
  BY <1>3 DEF Start, StopCall, StopReturn, LoadSent, PollAgain, NextTier, world, accountVars,
         nodeVars
<1>4. CASE Sample
  <2>1. phase = "run" /\ phase' = phase /\ confirmed' = confirmed
    BY <1>4 DEF Sample, mainVars, nodeVars
  <2>2. \A a \in Accounts : confirmedLatest'[a] \in {confirmed[a], confirmedLatest[a]}
    BY <1>4 DEF Sample
  <2> QED BY <1>0, <2>1, <2>2
<1>5. CASE LoadAccepted
  <2>1. phase' = "confirm" /\ idx' = 0 /\ snap'.confirmed = 0
        /\ UNCHANGED <<confirmed, confirmedLatest, startConfirmed>>
    BY <1>5 DEF LoadAccepted, world, accountVars, nodeVars, TypeOK
  <2>2. Cardinality(Counted(idx)') \in Nat
    BY FiniteCounted DEF Counted
  <2> QED BY <2>1, <2>2
<1>6. CASE Confirm
  <2>1. PICK c \in {confirmed[idx], confirmedLatest[idx]} :
          /\ confirmedLatest' = [confirmedLatest EXCEPT ![idx] = c]
          /\ snap' = [snap EXCEPT !.confirmed =
                @ + (IF c >= startConfirmed[idx] THEN c - startConfirmed[idx] ELSE 0)]
    BY <1>6 DEF Confirm
  <2>2. c \in Nat /\ c <= confirmed[idx] /\ UNCHANGED <<confirmed, startConfirmed>>
    BY <1>0, <1>6, <2>1 DEF Confirm, nodeVars
  <2>3. \A a \in Accounts : confirmedLatest'[a] <= confirmed'[a]
    BY <1>0, <2>1, <2>2 DEF TypeOK
  <2>4. snap'.confirmed <= Cardinality(Counted(idx + 1))
    <3> DEFINE gain == IF c >= startConfirmed[idx] THEN c - startConfirmed[idx] ELSE 0
    <3>1. snap'.confirmed = snap.confirmed + gain /\ gain \in Nat
      BY <2>1, <2>2 DEF TypeOK
    <3>2. Cardinality(Counted(idx)) + gain <= Cardinality(Counted(idx + 1))
      BY <2>2, CountedNext
    <3>3. snap.confirmed <= Cardinality(Counted(idx))
      BY <1>6 DEF Confirm
    <3>4. Cardinality(Counted(idx)) \in Nat /\ Cardinality(Counted(idx + 1)) \in Nat
      BY FiniteCounted DEF Counted
    <3> HIDE DEF gain
    <3> QED BY <1>0, <3>1, <3>2, <3>3, <3>4
  <2>5. \A i : Counted(i)' = Counted(i)
    BY <2>2 DEF Counted
  <2>6. CASE idx + 1 < NumAccounts
    <3>1. idx' = idx + 1 /\ phase' = "confirm"
      BY <1>6, <2>6 DEF Confirm
    <3> QED BY <2>3, <2>4, <2>5, <3>1
  <2>7. CASE ~(idx + 1 < NumAccounts)
    <3>1. phase' = "decide" /\ idx + 1 = NumAccounts
      BY <1>0, <1>6, <2>7, LoadGenAssumption DEF Confirm, Accounts, LoadGenAssumption
    <3> QED BY <2>3, <2>4, <2>5, <3>1
  <2> QED BY <2>6, <2>7
<1>7. CASE Judge
  <2>1. phase = "decide" /\ phase' = "verdict"
        /\ UNCHANGED <<snap, confirmed, confirmedLatest, startConfirmed>>
        /\ (status' = "PASS" => snap.accepted <= snap.confirmed)
    BY <1>7 DEF Judge, TierPasses, PendingBacklog, world, accountVars, nodeVars, TypeOK
  <2>2. Cardinality(Counted(NumAccounts)) \in Nat /\ Counted(NumAccounts)' = Counted(NumAccounts)
    BY <2>1, FiniteCounted DEF Counted
  <2>3. snap.accepted \in Nat
    BY DEF TypeOK
  <2> QED BY <1>0, <2>1, <2>2, <2>3
<1> QED BY <1>1, <1>2, <1>3, <1>4, <1>5, <1>6, <1>7 DEF RunTier

(***************************************************************************)
(* A tier that passes and found nothing pending on its accounts has as     *)
(* many of its own transactions in blocks as it reports accepted: there    *)
(* the drain loop's arithmetic on counters and nonces tells a backlog.     *)
(***************************************************************************)
THEOREM CleanPassIsConfirmed == Spec => []CleanPassMeansConfirmed
<1>1. Init => CountInv
  BY DEF Init, CountInv
<1>2. TypeOK /\ ConfirmedIsOwn /\ CountInv => CleanPassMeansConfirmed
  <2> SUFFICES ASSUME TypeOK, ConfirmedIsOwn, CountInv, phase = "verdict", status = "PASS",
                      overlap = {}, \A a \in Accounts : startNonce[a] = startConfirmed[a]
               PROVE  Cardinality(OwnConfirmed) >= snap.accepted
    BY DEF CleanPassMeansConfirmed, BacklogFailsTier
  <2>1. Counted(NumAccounts) \subseteq OwnConfirmed
    <3> SUFFICES ASSUME NEW t \in Counted(NumAccounts) PROVE t \in OwnConfirmed
      OBVIOUS
    <3>1. /\ t = <<t[1], t[2]>> /\ t[1] \in Accounts /\ t[2] \in 0..MaxNonce
          /\ startConfirmed[t[1]] <= t[2] /\ t[2] < confirmed[t[1]]
      BY DEF Counted
    <3>2. t[2] \in startConfirmed[t[1]]..(confirmed[t[1]] - 1)
      BY <3>1 DEF TypeOK
    <3>3. <<t[1], t[2]>> \in txs[tier]
      BY <3>1, <3>2 DEF ConfirmedIsOwn, Measuring, Syncing, CleanStart
    <3> QED BY <3>1, <3>3 DEF OwnConfirmed
  <2>2. OwnConfirmed \subseteq Accounts \X (0..MaxNonce)
    BY DEF OwnConfirmed, TypeOK
  <2>3. Cardinality(Counted(NumAccounts)) <= Cardinality(OwnConfirmed)
    BY <2>1, <2>2, FiniteCounted, FS_Subset
  <2>4. Cardinality(Counted(NumAccounts)) \in Nat /\ Cardinality(OwnConfirmed) \in Nat
    BY <2>2, FiniteCounted DEF Counted
  <2>5. snap.accepted <= Cardinality(Counted(NumAccounts)) /\ snap.accepted \in Nat
    BY DEF CountInv, TypeOK
  <2> QED BY <2>3, <2>4, <2>5
<1>3. OwnInv => BlocksHeld
  BY DEF OwnInv
<1> QED BY <1>1, <1>2, <1>3, CountInductive, OwnInvariant, ConfirmedAreOwn, TypeCorrect, PTL DEF Spec

=============================================================================
