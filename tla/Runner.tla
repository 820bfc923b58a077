-------------------------------- MODULE Runner --------------------------------
(***************************************************************************)
(* The CI runner: main of ci.go, the test-group recipe of the Makefile and *)
(* the one network that every run of the runner starts, tests and stops.   *)
(*                                                                         *)
(* A run is one top-level process.  In mode "groups" it starts a           *)
(* "make test-group" per group, whose recipe starts one nested ci.go per   *)
(* phase; a nested ci.go skips the run lock.  Groups of the allow list may *)
(* share one network (-shared-setup).  In mode "tests" (and "all") the run *)
(* itself gives every test a network of its own.  Mode "attach" is         *)
(* -skip-setup: the test uses whatever network is there.                   *)
(*                                                                         *)
(* A top-level process can die alone, and then what it started goes on     *)
(* without it (the lock is released with the process), or die with all     *)
(* that it started (an interrupt from the terminal).                       *)
(*                                                                         *)
(* The network is what make clean, init, run and stop leave behind; the    *)
(* scripts below them are abstracted to their outcomes, for the pm2        *)
(* (multi-node) backend.                                                   *)
(***************************************************************************)
EXTENDS Integers, Sequences, MakeTargets

CONSTANTS
  Runs,        \* the top-level processes
  NoRun,       \* not a run: the lock is free
  Items,       \* groups (mode "groups") or tests (modes "tests" and "attach")
  Shareable,   \* the groups of -shared-groups, without punish
  Phases,      \* number of nested runs in the recipe of each group
  Jobs,        \* what a run can be asked to do
  MaxCrashes   \* bound: processes that die

Modes == {"groups", "tests", "attach"}

ASSUME RunnerAssumption ==
  /\ NoRun \notin Runs
  /\ Shareable \subseteq Items
  /\ Phases \in [Items -> Nat \ {0}]
  /\ Jobs \subseteq [mode : Modes, items : Seq(Items), shared : BOOLEAN]
  /\ MaxCrashes \in Nat

VARIABLES
  \* per run
  pc,        \* where main is, see PCs
  alive,     \* FALSE after the process died
  job,       \* its flags
  at,        \* position of the loop in job.items
  phase,     \* phase of the group's recipe
  step,      \* the command it, or what it started, is executing
  ready,     \* sharedReady
  failed,    \* hadFailure
  exit,      \* exit code, -1 before there is one
  \* shared by all runs
  lock,      \* holder of the flock on .chain-tests-run.lock
  net,       \* the network
  crashes,   \* processes that died so far
  \* history
  passed,    \* per run: the <<position, phase>> whose tests passed
  broke,     \* per run: something went wrong that the run must not hide
  kept,      \* per run: its last stop left processes running
  tainted    \* a run started while commands of a dead run were going on, or on the
             \* chain of other tests, which neither its clean nor its init could remove

runVars  == <<pc, alive, job, at, phase, step, ready, failed, exit>>
histVars == <<passed, broke, kept, tainted>>
vars     == <<runVars, lock, net, crashes, histVars>>

PCs == {"idle", "pick", "setup", "teardown", "item", "after", "closing",
        "finish", "ended", "refused"}

(* The networks of MakeTargets, with the tests of these runs.             *)
Networks == [data : BOOLEAN, procs : {"down", "up", "stray"},
             users : SUBSET (Runs \X (Nat \X Nat))]

NoJob == [mode |-> "tests", items |-> <<>>, shared |-> FALSE]

TypeOK ==
  /\ pc \in [Runs -> PCs]
  /\ alive \in [Runs -> BOOLEAN]
  /\ job \in [Runs -> Jobs \cup {NoJob}]
  /\ at \in [Runs -> Nat \ {0}]
  /\ phase \in [Runs -> Nat \ {0}]
  /\ step \in [Runs -> Commands \cup {"none"}]
  /\ ready \in [Runs -> BOOLEAN]
  /\ failed \in [Runs -> BOOLEAN]
  /\ exit \in [Runs -> {-1, 0, 1}]
  /\ lock \in Runs \cup {NoRun}
  /\ net \in Networks
  /\ crashes \in 0..MaxCrashes
  /\ passed \in [Runs -> SUBSET (Nat \X Nat)]
  /\ broke \in [Runs -> BOOLEAN]
  /\ kept \in [Runs -> BOOLEAN]
  /\ tainted \in BOOLEAN

Init ==
  /\ pc = [r \in Runs |-> "idle"]
  /\ alive = [r \in Runs |-> TRUE]
  /\ job = [r \in Runs |-> NoJob]
  /\ at = [r \in Runs |-> 1]
  /\ phase = [r \in Runs |-> 1]
  /\ step = [r \in Runs |-> "none"]
  /\ ready = [r \in Runs |-> FALSE]
  /\ failed = [r \in Runs |-> FALSE]
  /\ exit = [r \in Runs |-> -1]
  /\ lock = NoRun
  /\ net \in [data : BOOLEAN, procs : {"down", "up"}, users : {{}}]
  /\ crashes = 0
  /\ passed = [r \in Runs |-> {}]
  /\ broke = [r \in Runs |-> FALSE]
  /\ kept = [r \in Runs |-> FALSE]
  /\ tainted = FALSE

Live(r)   == alive[r] /\ pc[r] \notin {"idle", "ended", "refused"}
Orphan(r) == ~alive[r] /\ step[r] # "none"

-------------------------------------------------------------------------------
\* Mutant of NextCommand: a step of the list that no one knows how to run.
NextCommand_ready ==
  [clean |-> "init", init |-> "run", run |-> "ready", test |-> "stop"]

\* The steps of runSingleTest and runPatternTest, and of setupShared.
NextCommand ==
  [clean |-> "init", init |-> "run", run |-> "test", test |-> "stop"]

\* Command c of w = <<run, <<position, phase>>>> starts on network n.
Enter(n, c, w) == IF c = "test" /\ n.procs = "up"
                  THEN [n EXCEPT !.users = @ \cup {w}] ELSE n

\* make init ends well, on a chain that has tests on it.
Soiled(c, o) == c = "init" /\ o.ok /\ o.net.users # {}

-------------------------------------------------------------------------------
\* Mutants of LockNeeded: a nested run takes the lock as well; no run takes it.
LockNeeded_always(nested) == TRUE
LockNeeded_never(nested) == FALSE

\* Does a process take the run lock?  nested: CHAIN_TESTS_NESTED_RUN is set.
LockNeeded(nested) == ~nested

Grouped(r) == job[r].mode = "groups"

\* Mutant of UseShared: -shared-setup alone is enough to share.
UseShared_any(r) == Grouped(r) /\ job[r].shared

\* isSharedSetupEligibleGroup, for the group the loop is at
UseShared(r) ==
  Grouped(r) /\ job[r].shared /\ job[r].items[at[r]] \in Shareable

SkipSetup(r) == job[r].mode = "attach" \/ UseShared(r)

LastPhase(r) == IF Grouped(r) THEN Phases[job[r].items[at[r]]] ELSE 1

\* Mutant of FailItem: the loop is not left, so the item is tried again.
FailItem_again(r, n, why) ==
  /\ failed' = [failed EXCEPT ![r] = TRUE]
  /\ broke' = [broke EXCEPT ![r] = @ \/ why]
  /\ pc' = [pc EXCEPT ![r] = "pick"]
  /\ step' = [step EXCEPT ![r] = "none"]
  /\ net' = n
  /\ UNCHANGED phase

\* The item r is at fails: hadFailure, and the loop is left.
FailItem(r, n, why) ==
  /\ failed' = [failed EXCEPT ![r] = TRUE]
  /\ broke' = [broke EXCEPT ![r] = @ \/ why]
  /\ pc' = [pc EXCEPT ![r] = "after"]
  /\ step' = [step EXCEPT ![r] = "none"]
  /\ net' = n
  /\ UNCHANGED phase

\* Phase p of the item starts on network n, or fails before its first command
\* (its log, its report directory, or the lock if it needs one).
StartPhase(r, p, n) ==
  LET refused == Grouped(r) /\ LockNeeded(TRUE) /\ lock # NoRun
      first   == IF SkipSetup(r) THEN "test" ELSE "clean"
  IN  \/ /\ ~refused
         /\ pc' = [pc EXCEPT ![r] = "item"]
         /\ phase' = [phase EXCEPT ![r] = p]
         /\ step' = [step EXCEPT ![r] = first]
         /\ net' = Enter(n, first, <<r, <<at[r], p>>>>)
         /\ UNCHANGED <<failed, broke>>
      \/ FailItem(r, n, ~refused)

\* Every test of the phase has passed, and its own stop is done.
EndPhase(r, n) ==
  \/ /\ Grouped(r)          \* the nested run fails on its report or budgets
     /\ FailItem(r, n, TRUE)
     /\ UNCHANGED <<at, passed>>
  \/ /\ passed' = [passed EXCEPT ![r] = @ \cup {<<at[r], phase[r]>>}]
     /\ IF phase[r] < LastPhase(r)
        THEN StartPhase(r, phase[r] + 1, n) /\ UNCHANGED at
        ELSE /\ at' = [at EXCEPT ![r] = @ + 1]
             /\ pc' = [pc EXCEPT ![r] = "pick"]
             /\ step' = [step EXCEPT ![r] = "none"]
             /\ net' = n
             /\ UNCHANGED <<phase, failed, broke>>

-------------------------------------------------------------------------------
(* The actions of a run.                                                   *)

\* main up to the loop: the flags are valid and the lock is free.
Acquire(r) ==
  /\ pc[r] = "idle"
  /\ LockNeeded(FALSE) => lock = NoRun
  /\ \E j \in Jobs : job' = [job EXCEPT ![r] = j]
  /\ lock' = r
  /\ pc' = [pc EXCEPT ![r] = "pick"]
  /\ tainted' = (tainted \/ \E q \in Runs : Orphan(q))
  /\ UNCHANGED <<alive, at, phase, step, ready, failed, exit, net, crashes,
                 passed, broke, kept>>

\* LOCK_NB: another run holds the lock.
Refuse(r) ==
  /\ pc[r] = "idle"
  /\ LockNeeded(FALSE) /\ lock # NoRun
  /\ pc' = [pc EXCEPT ![r] = "refused"]
  /\ exit' = [exit EXCEPT ![r] = 1]
  /\ UNCHANGED <<alive, job, at, phase, step, ready, failed, lock, net, crashes,
                 histVars>>

\* os.Exit(1) between the lock and the loop: no report directory, no test to
\* run, an impossible combination of flags.
Abort(r) ==
  /\ pc[r] = "pick" /\ alive[r] /\ at[r] = 1
  /\ pc' = [pc EXCEPT ![r] = "ended"]
  /\ exit' = [exit EXCEPT ![r] = 1]
  /\ broke' = [broke EXCEPT ![r] = TRUE]
  /\ lock' = NoRun
  /\ UNCHANGED <<alive, job, at, phase, step, ready, failed, net, crashes,
                 passed, kept, tainted>>

\* The loop is over.
LeaveLoop(r) ==
  /\ pc[r] = "pick" /\ alive[r]
  /\ at[r] > Len(job[r].items)
  /\ pc' = [pc EXCEPT ![r] = "after"]
  /\ UNCHANGED <<alive, job, at, phase, step, ready, failed, exit, lock, net,
                 crashes, histVars>>

\* The head of the loop: set up or tear down the shared network, or go on.
Pick(r) ==
  /\ pc[r] = "pick" /\ alive[r]
  /\ at[r] <= Len(job[r].items)
  /\ \/ /\ UseShared(r) /\ ~ready[r]
        /\ pc' = [pc EXCEPT ![r] = "setup"]
        /\ step' = [step EXCEPT ![r] = "clean"]
        /\ UNCHANGED <<phase, failed, net, broke>>
     \/ /\ ~UseShared(r) /\ ready[r]
        /\ pc' = [pc EXCEPT ![r] = "teardown"]
        /\ step' = [step EXCEPT ![r] = "stop"]
        /\ UNCHANGED <<phase, failed, net, broke>>
     \/ /\ UseShared(r) <=> ready[r]
        /\ StartPhase(r, 1, net)
  /\ UNCHANGED <<alive, job, at, ready, exit, lock, crashes, passed, kept, tainted>>

\* setupShared
Setup(r) ==
  /\ pc[r] = "setup" /\ alive[r]
  /\ \E o \in Outcomes(step[r], net) :
       /\ tainted' = (tainted \/ Soiled(step[r], o))
       /\ \/ /\ o.ok /\ step[r] # "run"
             /\ step' = [step EXCEPT ![r] = NextCommand[@]]
             /\ net' = o.net
             /\ UNCHANGED <<pc, phase, ready, failed, broke>>
          \/ /\ o.ok /\ step[r] = "run"
             /\ ready' = [ready EXCEPT ![r] = TRUE]
             /\ StartPhase(r, 1, o.net)
          \/ /\ ~o.ok
             /\ FailItem(r, o.net, TRUE)
             /\ UNCHANGED ready
  /\ UNCHANGED <<alive, job, at, exit, lock, crashes, passed, kept>>

\* teardownShared before a group that does not share
Teardown(r) ==
  /\ pc[r] = "teardown" /\ alive[r]
  /\ \E o \in Outcomes("stop", net) :
       /\ kept' = [kept EXCEPT ![r] = o.net.procs # "down"]
       /\ IF o.ok THEN StartPhase(r, 1, o.net) ELSE FailItem(r, o.net, TRUE)
  /\ ready' = [ready EXCEPT ![r] = FALSE]
  /\ UNCHANGED <<alive, job, at, exit, lock, crashes, passed, tainted>>

\* A command of the item ends: runSingleTest, or runPatternTest of a nested
\* run, which goes on when the top-level process is dead.
ItemStep(r) ==
  /\ pc[r] = "item" /\ step[r] # "none"
  /\ alive[r] \/ Grouped(r)
  /\ \E o \in Outcomes(step[r], net) :
       /\ tainted' = (tainted \/ Soiled(step[r], o))
       /\ \/ /\ o.ok /\ step[r] \in {"clean", "init", "run"}
             /\ LET c == NextCommand[step[r]]
                IN  /\ step' = [step EXCEPT ![r] = c]
                    /\ net' = Enter(o.net, c, <<r, <<at[r], phase[r]>>>>)
             /\ UNCHANGED <<pc, at, phase, failed, broke, passed, kept>>
          \/ /\ o.ok /\ step[r] = "test" /\ ~SkipSetup(r)
             /\ step' = [step EXCEPT ![r] = "stop"]
             /\ net' = o.net
             /\ UNCHANGED <<pc, at, phase, failed, broke, passed, kept>>
          \/ /\ o.ok /\ step[r] = "test" /\ SkipSetup(r)
             /\ EndPhase(r, o.net)
             /\ UNCHANGED kept
          \/ /\ step[r] = "stop"            \* a failure of it is ignored
             /\ EndPhase(r, o.net)
             /\ kept' = [kept EXCEPT ![r] = o.net.procs # "down"]
          \/ /\ ~o.ok                       \* and the network is left as it is;
             /\ FailItem(r, o.net, TRUE)    \* a stop only without its log line
             /\ UNCHANGED <<at, passed, kept>>
  /\ UNCHANGED <<alive, job, ready, exit, lock, crashes>>

\* The networks to stop after the loop.  Mutant: only after a failure.
MustTearDown_failed(r) == ready[r] /\ failed[r]
MustTearDown(r) == ready[r]

\* After the loop, the shared network is torn down.
AfterLoop(r) ==
  /\ pc[r] = "after" /\ alive[r]
  /\ IF MustTearDown(r)
     THEN /\ pc' = [pc EXCEPT ![r] = "closing"]
          /\ step' = [step EXCEPT ![r] = "stop"]
     ELSE /\ pc' = [pc EXCEPT ![r] = "finish"]
          /\ UNCHANGED step
  /\ UNCHANGED <<alive, job, at, phase, ready, failed, exit, lock, net, crashes,
                 histVars>>

Closing(r) ==
  /\ pc[r] = "closing" /\ alive[r]
  /\ \E o \in Outcomes("stop", net) :
       /\ net' = o.net
       /\ kept' = [kept EXCEPT ![r] = o.net.procs # "down"]
       /\ failed' = [failed EXCEPT ![r] = @ \/ ~o.ok]
       /\ broke' = [broke EXCEPT ![r] = @ \/ ~o.ok]
  /\ ready' = [ready EXCEPT ![r] = FALSE]
  /\ step' = [step EXCEPT ![r] = "none"]
  /\ pc' = [pc EXCEPT ![r] = "finish"]
  /\ UNCHANGED <<alive, job, at, phase, exit, lock, crashes, passed, tainted>>

\* ci-log, report, budgets, summary and manifest: each may spoil the run.
Report(r) ==
  /\ pc[r] = "finish" /\ alive[r]
  /\ \E trouble \in BOOLEAN :
       /\ exit' = [exit EXCEPT ![r] = IF failed[r] \/ trouble THEN 1 ELSE 0]
       /\ broke' = [broke EXCEPT ![r] = @ \/ trouble]
  /\ pc' = [pc EXCEPT ![r] = "ended"]
  /\ lock' = NoRun
  /\ UNCHANGED <<alive, job, at, phase, step, ready, failed, net, crashes,
                 passed, kept, tainted>>

\* The command a dead run was executing itself ends; nothing follows it.
OrphanCommand(r) ==
  /\ Orphan(r)
  /\ pc[r] # "item" \/ ~Grouped(r)
  /\ \E o \in Outcomes(step[r], net) : net' = o.net
  /\ step' = [step EXCEPT ![r] = "none"]
  /\ UNCHANGED <<pc, alive, job, at, phase, ready, failed, exit, lock, crashes,
                 histVars>>

Die(r) ==
  /\ Live(r) /\ crashes < MaxCrashes
  /\ crashes' = crashes + 1
  /\ alive' = [alive EXCEPT ![r] = FALSE]
  /\ lock' = IF lock = r THEN NoRun ELSE lock
  /\ UNCHANGED <<pc, job, at, phase, ready, failed, exit, histVars>>

\* The process dies alone: the kernel releases its lock, its children go on.
Crash(r) == Die(r) /\ UNCHANGED <<step, net>>

\* The process dies with all it started, in the middle of a command.
Interrupt(r) ==
  /\ Die(r)
  /\ step' = [step EXCEPT ![r] = "none"]
  /\ net' \in IF step[r] = "none" THEN {net} ELSE Interrupted(step[r], net)

Advance(r) ==
  \/ Abort(r) \/ LeaveLoop(r) \/ Pick(r) \/ Setup(r) \/ Teardown(r)
  \/ ItemStep(r) \/ AfterLoop(r) \/ Closing(r) \/ Report(r) \/ OrphanCommand(r)

Next ==
  \E r \in Runs :
    Acquire(r) \/ Refuse(r) \/ Advance(r) \/ Crash(r) \/ Interrupt(r)

Spec == Init /\ [][Next]_vars

\* Every command ends: go test has a timeout and the scripts' waits have deadlines.
FairSpec == Spec /\ \A r \in Runs : WF_vars(Advance(r))

-------------------------------------------------------------------------------
(* Properties.                                                             *)

\* One run at a time: the flock of acquireRunLock admits a run only after the
\* previous one has ended or died.
OneRun == \A r \in Runs : Live(r) => lock = r

Attached(w) == job[w[1]].mode = "attach"
Sharing(w) ==
  LET j == job[w[1]]
  IN  j.mode = "groups" /\ j.shared /\ j.items[w[2][1]] \in Shareable

\* Isolation: a test of a run (started by clean, init, run or on the shared
\* network) has the nodes up, and finds on its chain no other test than those
\* of state-compatible groups of the same run - unless commands of a dead run
\* interfere, the old chain could not be removed, or the user asked to skip the
\* setup.
OwnNetwork ==
  ~tainted =>
    /\ \A r \in Runs :
         (Live(r) /\ step[r] = "test" /\ job[r].mode # "attach") =>
           net.procs = "up" /\ <<r, <<at[r], phase[r]>>>> \in net.users
    /\ \A v, w \in net.users :
         \/ v = w
         \/ Attached(v) \/ Attached(w)
         \/ v[1] = w[1] /\ Sharing(v) /\ Sharing(w)

\* While a run's test is going on, the network changes only by a step of that
\* run: no other run cleans, restarts or stops it (but the commands of a dead
\* run, which hold no lock, can).
NetworkStable ==
  [][\A r \in Runs :
       (Live(r) /\ step[r] = "test" /\ ~ \E q \in Runs : Orphan(q)) =>
          \/ net' = net
          \/ <<step, at, phase, alive>>' # <<step, at, phase, alive>>
             /\ \A q \in Runs \ {r} : step'[q] = step[q]]_vars

AllPassed(r) ==
  \A i \in 1..Len(job[r].items) :
    \A p \in 1..(IF Grouped(r) THEN Phases[job[r].items[i]] ELSE 1) :
      <<i, p>> \in passed[r]

\* The exit code is the verdict: 0 exactly when every phase of every requested
\* item has passed and nothing failed on the way but a test's own make stop.  The
\* log line of that stop counts: without it the test has failed.
VerdictExact ==
  \A r \in Runs :
    pc[r] = "ended" =>
      /\ exit[r] = 0 => AllPassed(r) /\ ~broke[r]
      /\ exit[r] = 1 => broke[r]

\* A run that ends well has stopped the network it started, shared or not, as
\* far as make stop does what it reports.
NetworkStopped ==
  [][\A r \in Runs :
       (pc[r] = "finish" /\ exit'[r] = 0 /\ passed[r] # {} /\ ~kept[r]
          /\ ~tainted /\ job[r].mode # "attach") => net.procs = "down"]_vars

\* Every run ends, and so does what a dead run has left: again and again nothing
\* is going on.
RunEnds ==
  []<>(\A r \in Runs : ~(Live(r) \/ Orphan(r)))
===============================================================================
