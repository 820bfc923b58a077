--------------------------------- MODULE MCSuite ---------------------------------
(* The smaller parts of the suite, one at a time: the fork checks of a network *)
(* (Forks), the reports of a CI run (Reports), the scripts that start and stop *)
(* the nodes (Network), and four helpers of the tests:                         *)
(* delegations that are retried (Delegation), the start of a test context      *)
(* (Bootstrap), the slowed-down loopback device (Netem), and the attempt to    *)
(* reproduce a split of the validators (HeadEvidence).                         *)
EXTENDS Forks

--------------------------------------------------------------------------------
(* The networks of Forks: the suite of every fork on every flawed node, all   *)
(* schedules of three times, and what the generator writes, asked at any time *)
(* or when all forks have come.                                               *)

Flaws == {[surface |-> s, early |-> e] : s \in Surfaces, e \in BOOLEAN}
Whole == [surface |-> None, early |-> FALSE]
Lacking(s) == [surface |-> s, early |-> FALSE]
Plain(run, fork, genesis) ==
  [run |-> run, fork |-> fork, mode |-> "upgrade", target |-> None, genesis |-> genesis,
   flaw |-> Whole, impl |-> "geth", waits |-> FALSE, generated |-> FALSE, faults |-> 0]

Suites ==
  {[Plain("suite", f, Upto(0, 0)) EXCEPT !.flaw = w] : f \in AllForks, w \in Flaws \cup {Whole}}
FaultySuites ==
  {[Plain("suite", f, Upto(0, 0)) EXCEPT !.faults = 1] : f \in {"fixheader", "bpo1", "bpo2"}}

Times == {Absent, 1, 2}
Schedules ==
  {Plain("schedule", None, [f \in AllForks |-> IF f = "bpo2" THEN t ELSE g[ForkOrderIndex(f)]]) :
     g \in [1..7 -> Times], t \in Times}

Targets ==
  {<<"upgrade", "allStaggered">>, <<"upgrade", "allSame">>, <<"upgrade", "cancun">>,
   <<"upgrade", "bpo2">>, <<"smoke", "osaka">>, <<"smoke", "poa">>, <<"posa", None>>,
   <<"poa", None>>}
Asked ==
  {[Plain("ask", None, Genesis(t[1], t[2], 2)) EXCEPT
      !.mode = t[1], !.target = t[2], !.flaw = w, !.impl = i, !.waits = b,
      !.generated = TRUE, !.faults = 1] :
   t \in Targets, w \in {Whole, Lacking("beaconRoot"), Lacking("pragueBlobs")},
   i \in {"geth", "reth"}, b \in BOOLEAN}
MCNetworks == Suites \cup FaultySuites \cup Schedules \cup Asked

--------------------------------------------------------------------------------
(* The runs of Reports: three tests, of which A has a subtest, in one go test *)
(* process, one by one, and in the phases of a group; names that are found.   *)

CONSTANT NoTest

MCParent == [s \in {"A1"} |-> "A"]

NoFlags == [slow |-> 0, slowFail |-> FALSE, time |-> 0, timeFail |-> FALSE, maxSkips |-> -1]
Slow == [NoFlags EXCEPT !.slow = 3, !.slowFail = TRUE]
OneSkip == [NoFlags EXCEPT !.maxSkips = 1]
Base ==
  [all |-> FALSE, found |-> {}, items |-> <<>>, phases |-> <<>>, flags |-> NoFlags,
   outerFlags |-> NoFlags, short |-> 1, times |-> {1}, faults |-> 1]
Pattern(p, ts) == [name |-> "test_run_pattern", given |-> <<>>, pattern |-> p, tests |-> ts]
One(t) == [name |-> t, given |-> <<t>>, pattern |-> "", tests |-> <<t>>]

Refusing == [Base EXCEPT !.items = <<One("B")>>, !.flags.slowFail = TRUE]
Alone ==
  {[Base EXCEPT !.items = <<Pattern("AB", <<"A", "B">>)>>],
   [Base EXCEPT !.items = <<One("B"), One("C")>>, !.times = {1, 3},
                !.flags = [Slow EXCEPT !.maxSkips = 1]],
   Refusing}
Grouped ==
  {[Base EXCEPT !.phases = <<Pattern("A", <<"A">>), Pattern("B", <<"B">>)>>, !.faults = 2,
                !.flags = OneSkip, !.outerFlags = OneSkip],
   [Base EXCEPT !.phases = <<Pattern("B", <<"B">>)>>, !.times = {1, 3},
                !.outerFlags = [Slow EXCEPT !.time = 3, !.timeFail = TRUE]]}
Found(name, pkg) == [name |-> name, pkg |-> pkg]
Everything ==
  {[Base EXCEPT !.all = TRUE, !.found = f] : f \in
     {{}, {Found("B", "x"), Found("B", "smoke"), Found("TestMain", "x")},
      {Found("B", "x"), Found("B", "y")}}}
MCSetups == Alone \cup Grouped \cup Everything

--------------------------------------------------------------------------------

(* The helpers: nodes that come up, some of another chain, in networks of *)
(* every fork mode; three tests with other ports; three validators and at *)
(* most three siblings at one height, the first validator with a signer   *)
(* the configuration knows or does not know.                              *)

Fleet(mode, target, chains) ==
  LET g == Genesis(mode, target, 1) IN
    [mode |-> mode, forks |-> {f \in AllForks : g[f] # Absent},
     posaFromStart |-> g["posa"] = 0, chains |-> chains]
MCFleets ==
  {Fleet("posa", None, c) : c \in {<<1, 1>>, <<1, 2>>, <<1, 1, 1>>}} \cup
  {Fleet(t[1], t[2], <<1>>) : t \in Targets}

MCPortLists == {<<1>>, <<1, 2, 1>>, <<3>>}
MCLayouts == {<<"validator1", "syncnode">>, <<"validator1", "validator2", "syncnode">>}

Signers(first) == (first :> 1) @@ (12 :> 2) @@ (13 :> 3)
SignerCase(first, history) ==
  [signers |-> <<first, 12, 13>>, contract |-> Signers(first), history |-> history,
   config |-> Signers(11),
   logs |-> <<<<>>, <<"competing", "other", "competing", "competing">>, <<"recently">>>>]
Known == SignerCase(11, <<>>)
Rotated == SignerCase(21, 11 :> 1)
MCCases == {Known, Rotated}
MCUrls == <<1, 1, 2, 3>>
MCSiblings == <<1, 3, 1>>

CONSTANTS
  Parent, Setups,                                          \* of Reports
  Retries, Balances, MaxTroubles,                          \* of Delegation
  InitTimeout, ProbeTime, MaxBackoff, Fleets, MaxFlips,    \* of Bootstrap
  PortLists, MaxTests, MaxBreaks,                          \* of Netem
  Urls, Cases, Siblings, Probes, PostProbes, MinSplits,    \* of HeadEvidence
  MaxPolls, MaxErrors, MaxLines, MaxRecent,
  Layouts, MaxSlips                                        \* of Network

(* A limit is a number, and the tests an item names, and those that are      *)
(* found, are tests of their own and no subtests.                            *)
RunFlags == [slow : Nat, slowFail : BOOLEAN, time : Nat, timeFail : BOOLEAN, maxSkips : Int]
IsTest(t) == t \in STRING /\ t # NoTest /\ t \notin DOMAIN Parent
IsItem(i) ==
  /\ i.given \in Seq(STRING) /\ i.tests \in Seq(STRING)
  /\ \A j, k \in DOMAIN i.tests : i.tests[j] = i.tests[k] => j = k
  /\ \A j \in DOMAIN i.tests : IsTest(i.tests[j])

ASSUME SetupsAssumption ==
  /\ NoTest \notin DOMAIN Parent
  /\ \A x \in Setups :
       /\ x.short \in Nat /\ x.times \in SUBSET Nat
       /\ x.flags \in RunFlags /\ x.outerFlags \in RunFlags
       /\ IsFiniteSet(x.found) /\ \A f \in x.found : IsTest(f.name)
       /\ x.items \in Seq(ToSet(x.items)) /\ \A i \in ToSet(x.items) : IsItem(i)
       /\ x.phases \in Seq(ToSet(x.phases)) /\ \A i \in ToSet(x.phases) : IsItem(i)

ASSUME BootAssumption ==
  /\ InitTimeout \in Nat /\ ProbeTime \in Nat
  /\ \A f \in Fleets :
       /\ f.chains \in Seq(Nat) /\ f.chains # <<>>
       /\ \E t \in ForkTargets : f = Fleet(t[1], t[2], f.chains)

ASSUME NetemAssumption == \A l \in PortLists : l \in Seq(Nat)

(* Who signs is what the contract says; the configuration may know less, and   *)
(* a signer it does not know is none of the validators. A height has no more   *)
(* sibling blocks than readings have to show the split: the first one and the  *)
(* probes before the stop, and those that count after it.                      *)
ASSUME HeadsAssumption ==
  /\ Urls \in Seq(1..3)
  /\ Probes \in Nat \ {0} /\ MinSplits \in Nat /\ MaxLines \in Nat
  /\ Siblings \in Seq(Nat \ {0}) /\ Siblings # <<>>
  /\ \A h \in DOMAIN Siblings : Siblings[h] <= Probes + 1 /\ Siblings[h] <= MinSplits
  /\ \A c \in Cases :
       /\ Len(c.signers) = 3 /\ c.logs \in [1..3 -> Seq(STRING)]
       /\ \A i \in 1..3 :
            /\ c.signers[i] \in DOMAIN c.contract
            /\ IF c.signers[i] \in DOMAIN c.config
               THEN c.config[c.signers[i]] = c.contract[c.signers[i]]
               ELSE c.signers[i] \notin 1..3

(* The processes of a network have names of their own. *)
ASSUME LayoutsAssumption ==
  \A l \in Layouts :
    l \in Seq(STRING) /\ l # <<>> /\ \A i, j \in DOMAIN l : l[i] = l[j] => i = j

VARIABLES
  who,         \* the part at work
  setup, pc, outer, todo, queue, stack, log, real, results, runs, book, exit, mishaps

reportVars ==
  <<setup, pc, outer, todo, queue, stack, log, real, results, runs, book, exit, mishaps>>

CI == INSTANCE Reports WITH faults <- mishaps

VARIABLES purse, retry, step, slot, pool, nonce, reverted, staked, inVain, unheard, troubles
Stakes == INSTANCE Delegation WITH lost <- unheard

VARIABLES fleet, up, since, clients, stage, spent, backoff, alive, flips
Boot == INSTANCE Bootstrap

VARIABLES root, netem, filters, file, job, ports, created, began, astray, tests, breaks
Device == INSTANCE Netem

VARIABLES
  case, head, stopped, work, read, polls, window, good, seen, class, result, evidence, splits, errors
Heads == INSTANCE HeadEvidence

VARIABLES config, session, env, used, proc, target, at, list, pos, outcome, slips, before, messy
Scripts == INSTANCE Network WITH MaxFaults <- MaxSlips, faults <- slips, verdict <- outcome

(* The parts that are not at work stand at a first state of their own. *)
ForksRest == net = Plain("schedule", None, Upto(0, Absent))
ReportsRest == setup = Refusing
StakesRest == purse = 1
BootRest == fleet = Fleet("poa", None, <<1>>) /\ up = {1}
DeviceRest == root = "none"
HeadsRest == case = Known
ScriptsRest == config = <<"validator1", "syncnode">>

MCInit ==
  /\ who \in {"forks", "reports", "stakes", "boot", "netem", "heads", "scripts"}
  /\ IF who = "forks" THEN TRUE ELSE ForksRest
  /\ IF who = "reports" THEN TRUE ELSE ReportsRest
  /\ IF who = "stakes" THEN TRUE ELSE StakesRest
  /\ IF who = "boot" THEN TRUE ELSE BootRest
  /\ IF who = "netem" THEN TRUE ELSE DeviceRest
  /\ IF who = "heads" THEN TRUE ELSE HeadsRest
  /\ IF who = "scripts" THEN TRUE ELSE ScriptsRest
  /\ Init /\ CI!Init /\ Stakes!Init /\ Boot!Init /\ Device!Init /\ Heads!Init /\ Scripts!Init

stakeVars ==
  <<purse, retry, step, slot, pool, nonce, reverted, staked, inVain, unheard, troubles>>
bootVars == <<fleet, up, since, clients, stage, spent, backoff, alive, flips>>
netemVars == <<root, netem, filters, file, job, ports, created, began, astray, tests, breaks>>
headVars ==
  <<case, head, stopped, work, read, polls, window, good, seen, class, result, evidence,
    splits, errors>>

scriptVars ==
  <<config, session, env, used, proc, target, at, list, pos, outcome, slips, before, messy>>

MCNext ==
  /\ UNCHANGED who
  /\ \/ who = "forks" /\ Next
        /\ UNCHANGED <<reportVars, stakeVars, bootVars, netemVars, headVars, scriptVars>>
     \/ who = "reports" /\ CI!Next
        /\ UNCHANGED <<vars, stakeVars, bootVars, netemVars, headVars, scriptVars>>
     \/ who = "stakes" /\ Stakes!Next
        /\ UNCHANGED <<vars, reportVars, bootVars, netemVars, headVars, scriptVars>>
     \/ who = "boot" /\ Boot!Next
        /\ UNCHANGED <<vars, reportVars, stakeVars, netemVars, headVars, scriptVars>>
     \/ who = "netem" /\ Device!Next
        /\ UNCHANGED <<vars, reportVars, stakeVars, bootVars, headVars, scriptVars>>
     \/ who = "heads" /\ Heads!Next
        /\ UNCHANGED <<vars, reportVars, stakeVars, bootVars, netemVars, scriptVars>>
     \/ who = "scripts" /\ Scripts!Next
        /\ UNCHANGED <<vars, reportVars, stakeVars, bootVars, netemVars, headVars>>

MCSpec ==
  MCInit /\ [][MCNext]_<<who, vars, reportVars, stakeVars, bootVars, netemVars, headVars, scriptVars>>

(* As in Reports: the cases of every step, the failures named, the sums of a *)
(* group and the exit code tell what happened, as far as it was shown.       *)
ReportsTrue == CI!ReportsTrue

(* What the runs and the tests rely on in their helpers: the make targets do  *)
(* to the nodes what the CI runner takes them to do; a delegation that is     *)
(* reported is there, once unless a wait was in vain; a context has one chain *)
(* or no client; only the tested ports are slowed down, and none after a      *)
(* test; a validator is stopped only in a split that really was there.        *)
HelpersTrue ==
  /\ Scripts!NetworkTrue
  /\ Stakes!DelegationTrue /\ Boot!BootTrue /\ Device!NetemTrue /\ Heads!HeadsTrue

=================================================================================
