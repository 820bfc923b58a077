--------------------------------- MODULE PerfRun ---------------------------------
(***************************************************************************)
(* A run of the performance suite, from its flags to its exit code (main   *)
(* and runTier of scripts/perf/perf_runner.go), and the runs after it on   *)
(* the same network and the same output directory.  The senders' funding   *)
(* is module Funding; what the load generator makes of a tier (module      *)
(* LoadGen) is here one of a set of possible counts, and the outcome of    *)
(* the warm-up (module Waits) one of two.                                  *)
(***************************************************************************)
EXTENDS Funding

CONSTANTS
  Setups,
  PerAccount, FewestSenders, MostSenders,    \* recommendedSenderAccountCount
  MinSuccessPct, MaxHeightLag, MaxStall,     \* thresholds; MaxStall in seconds
  Worst,                                     \* slow windows of the verdict
  Word                                       \* width of a height: 2^64

(* A setup: flags and test configuration - mode, list (the numbers of      *)
(* -tiers), base, step and target of a search, senders, scope, topology,   *)
(* rpcs and urls (nodes, by number; 0 is a blank entry), interval between  *)
(* samples in half seconds - and the bounds: runs on the network, calls    *)
(* that fail, samples of a tier, slow ones among them, heights, blocks a    *)
(* node loses, and counts (drains) a generator may come back with; steady  *)
(* when there is exactly one block between two samples.                    *)
Setup ==
  [mode : STRING, list : Seq(Int), base : Int, step : Int, target : Int, senders : SUBSET Int,
   scope : STRING, topology : STRING, rpcs : Seq(Nat \ {0}), urls : Seq(Nat),
   interval : Nat \ {0}, runs : Nat \ {0}, faults : Nat, samples : Nat \ {0}, height : Nat \ {0},
   drops : Nat, slows : Nat, steady : BOOLEAN,
   drains : SUBSET [sent : Nat, accepted : Nat, confirmed : Nat, backlog : Nat, drop : Nat]]

ASSUME PerfRunAssumption ==
  /\ Setups \subseteq Setup /\ \A s \in Setups : s.rpcs # <<>>
  /\ PerAccount \in Nat \ {0} /\ FewestSenders \in Nat \ {0} /\ MostSenders \in Nat
  /\ MinSuccessPct \in 0..100 /\ MaxHeightLag \in Nat /\ MaxStall \in Nat /\ Worst \in Nat
  /\ Word \in Nat /\ \A s \in Setups : s.height < Word

VARIABLES
  setup,
  phase,      \* where main is, see Phases
  run,        \* runs begun on this network
  tiers,      \* TPS of the tiers
  tier,       \* the tier it is at
  read,       \* heights that queryHeights has so far, in the order of the nodes
  failed,     \* queryHeights has returned an error
  \* runTier
  startHeight, lastPrimary, stall, maxStall, maxLag, slow, taken, drain,
  \* main
  warmup, summaries, search, samples, exit,
  disk,       \* the output directory: what it holds, and of which run
  \* the chain
  h, drops,
  \* history of the tier: samples since the first node has moved and the most
  \* there were, the lag that no reading can miss and the greatest one a
  \* reading can give, blocks of the first node, and a query that has failed
  moved, still, maxStill, sureLag, farLag, made, base, blank

sampling == <<startHeight, lastPrimary, stall, maxStall, maxLag, slow, taken, drain>>
truth == <<moved, still, maxStill, sureLag, farLag, made, base, blank>>
query == <<read, failed>>
results == <<warmup, summaries, search, samples, exit, disk>>
control == <<setup, phase, run, tiers, tier>>
perfVars == <<control, query, sampling, results, h, drops, truth>>
vars == <<perfVars, fundVars, chainVars, faults>>

\* the entries of s that are in keep, in their order
Sift(s, keep) ==
  LET out[i \in 0..Len(s)] ==
        IF i = 0 THEN <<>>
        ELSE LET before == out[i - 1] IN IF s[i] \in keep THEN Append(before, s[i]) ELSE before
  IN out[Len(s)]

MaxOf(S) == CHOOSE x \in S : \A y \in S : y <= x
MinOf(S) == CHOOSE x \in S : \A y \in S : x <= y

-----------------------------------------------------------------------------
(* The flags.                                                              *)

\* Mutant of MaxTPSSteps: the last step may fall short of the target.
MaxTPSSteps_short(low, step, target) ==
  [i \in 1..((target - low) \div step + 1) |-> low + (i - 1) * step]

\* buildMaxTPSSteps
MaxTPSSteps(low, step, target) ==
  LET even == [i \in 1..((target - low) \div step + 1) |-> low + (i - 1) * step]
  IN IF Last(even) = target THEN even ELSE Append(even, target)

\* parseTPSList: -1 is an entry that is empty
TPSList(list) == Sift(list, ToSet(list) \ {-1})

ValidFlags ==
  IF setup.mode = "max"
    THEN setup.base > 0 /\ setup.step > 0 /\ setup.target >= setup.base
    ELSE setup.mode \in {"tiers", "soak"} /\ TPSList(setup.list) # <<>>
         /\ \A i \in DOMAIN TPSList(setup.list) : TPSList(setup.list)[i] > 0
ValidScope == setup.scope \in {"", "single", "multi"} /\ setup.topology \in {"", "single", "multi"}
Multi == setup.scope = "multi" \/ setup.topology = "multi"

TierList ==
  IF setup.mode = "max" THEN MaxTPSSteps(setup.base, setup.step, setup.target)
  ELSE TPSList(setup.list)

\* the clients whose heights are compared
LagNodes ==
  IF ~Multi THEN <<setup.rpcs[1]>>
  ELSE IF setup.urls = <<>> THEN setup.rpcs
  ELSE LET seen[i \in 0..Len(setup.urls)] ==
             IF i = 0 THEN <<>>
             ELSE LET before == seen[i - 1] u == setup.urls[i]
                  IN IF u \in {0} \cup ToSet(before) THEN before ELSE Append(before, u)
       IN seen[Len(setup.urls)]

\* recommendedSenderAccountCount(plannedMaxTPS)
PlannedMax == MaxOf({setup.target} \cup ToSet(tiers))
Recommended ==
  IF PlannedMax <= 0 THEN 1
  ELSE MinOf({MostSenders, MaxOf({FewestSenders, (PlannedMax + PerAccount - 1) \div PerAccount})})
SenderCount(flag) == IF flag > 0 THEN flag ELSE Recommended

-----------------------------------------------------------------------------
(* The chain and the queries.                                              *)

Nodes == ToSet(setup.rpcs) \cup (ToSet(setup.urls) \ {0})
Primary == LagNodes[1]
Querying == phase \in {"first", "sample", "last"}

Grow(n) ==
  /\ Querying /\ h[n] < setup.height /\ (setup.steady => ~moved)
  /\ h' = [h EXCEPT ![n] = @ + 1]
  /\ made' = IF n = Primary THEN made + 1 ELSE made
  /\ moved' = (moved \/ n = Primary)
  /\ UNCHANGED <<control, query, sampling, results, drops, still, maxStill, sureLag, farLag,
                 base, blank, fundVars, chainVars, faults>>

\* a restarted node comes back without its last block
DropBlock(n) ==
  /\ Querying /\ drops < setup.drops /\ h[n] > 1
  /\ h' = [h EXCEPT ![n] = @ - 1] /\ drops' = drops + 1
  /\ moved' = (moved \/ n = Primary)
  /\ UNCHANGED <<control, query, sampling, results, still, maxStill, sureLag, farLag, made,
                 base, blank, fundVars, chainVars, faults>>

\* queryHeights asks the next node, or gives up at the first error
Ask ==
  /\ Querying /\ ~failed /\ Len(read) < Len(LagNodes) /\ (setup.steady => moved)
  /\ \/ read' = Append(read, h[LagNodes[Len(read) + 1]]) /\ UNCHANGED <<failed, faults>>
     \/ failed' = TRUE /\ Fault /\ UNCHANGED read
  /\ base' = IF read = <<>> THEN h ELSE base
  /\ moved' = IF read = <<>> THEN FALSE ELSE moved
  /\ still' = IF read # <<>> THEN still
              ELSE IF moved \/ phase = "first" THEN 0 ELSE still + 1
  /\ maxStill' = IF phase = "sample" THEN MaxOf({maxStill, still'}) ELSE maxStill
  /\ blank' = (blank \/ failed')
  /\ UNCHANGED <<control, sampling, results, h, drops, sureLag, farLag, made, fundVars, chainVars>>

Answered == failed \/ Len(read) = Len(LagNodes)
NextQuery == read' = <<>> /\ failed' = FALSE

\* Mutant of LagRead: how far the first node is behind.
LagRead_primary == IF failed THEN 0 ELSE MaxOf(ToSet(read)) - read[1]

LagRead == IF failed THEN 0 ELSE MaxOf(ToSet(read)) - MinOf(ToSet(read))

\* what a reading of this moment can and cannot say
Spread ==
  /\ sureLag' = IF failed THEN sureLag
       ELSE MaxOf({sureLag} \cup {base[n] - h[k] : n \in ToSet(LagNodes), k \in ToSet(LagNodes)})
  /\ farLag' = IF failed THEN farLag
       ELSE MaxOf({farLag} \cup {h[n] - base[k] : n \in ToSet(LagNodes), k \in ToSet(LagNodes)})

-----------------------------------------------------------------------------
(* runTier.                                                                *)

BeginTier ==
  /\ startHeight' = 0 /\ lastPrimary' = 0 /\ stall' = 0 /\ maxStall' = 0 /\ maxLag' = 0
  /\ slow' = 0 /\ taken' = 0 /\ UNCHANGED drain
  /\ moved' = FALSE /\ still' = 0 /\ maxStill' = 0 /\ sureLag' = 0 /\ farLag' = 0 /\ made' = 0
  /\ blank' = FALSE /\ UNCHANGED base

FirstQuery ==
  /\ phase = "first" /\ Answered
  /\ startHeight' = IF failed THEN 0 ELSE read[1]
  /\ lastPrimary' = startHeight'
  /\ maxLag' = LagRead
  /\ Spread /\ NextQuery /\ phase' = "sample"
  /\ UNCHANGED <<setup, run, tiers, tier, stall, maxStall, slow, taken, drain, results, h, drops,
                 moved, still, maxStill, made, base, blank, fundVars, chainVars, faults>>

\* Mutant of StallAfter: a blank sample counts as one without a new block.
StallAfter_blank(height) ==
  IF height = 0 \/ height = lastPrimary THEN stall + 1 ELSE 0

StallAfter(height) ==
  IF height = 0 THEN stall ELSE IF height = lastPrimary THEN stall + 1 ELSE 0

Sample ==
  /\ phase = "sample" /\ Answered
  /\ LET height == IF failed THEN 0 ELSE read[1] IN
     /\ stall' = StallAfter(height)
     /\ lastPrimary' = IF height > 0 THEN height ELSE lastPrimary
  /\ maxStall' = MaxOf({maxStall, stall'})
  /\ maxLag' = MaxOf({maxLag, LagRead})
  /\ \E delayed \in 0..MinOf({1, setup.slows - slow}) :
       /\ slow' = slow + delayed
       /\ samples' = Append(samples, [tps |-> tiers[tier], slow |-> delayed, stall |-> stall',
                                      lag |-> LagRead])
  /\ taken' = taken + 1
  /\ Spread /\ NextQuery
  /\ phase' \in {"drain"} \cup (IF taken' < setup.samples THEN {"sample"} ELSE {})
  /\ UNCHANGED <<setup, run, tiers, tier, startHeight, drain, warmup, summaries, search, exit, disk,
                 h, drops, moved, still, maxStill, made, base, blank, fundVars, chainVars, faults>>

\* Stop and DrainConfirmations: what is counted then, and who got to send
Drain ==
  /\ phase = "drain" /\ drain' \in setup.drains
  /\ used' = used \cup {a \in money : a < wanted /\ drain'.confirmed > a}
  /\ phase' = "last"
  /\ UNCHANGED <<setup, run, tiers, tier, query, startHeight, lastPrimary, stall, maxStall, maxLag,
                 slow, taken, results, h, drops, truth, fundVars, pool, mined, money, faults>>

NoteOrder == <<"accepted_rate", "confirmed_rate", "pending_backlog", "max_height_lag",
               "p95_latency", "stall_window", "sender_backpressure_drop">>

\* Mutant of LowRate: a tier that sent nothing.
LowRate_empty(count) == count * 100 < MinSuccessPct * drain.sent

LowRate(count) ==
  IF drain.sent = 0 THEN MinSuccessPct > 0 ELSE count * 100 < MinSuccessPct * drain.sent

\* percentile95: the latency at this position is above the limit
P95Slow == slow > taken - (95 * taken + 99) \div 100

\* seconds, with the interval cut to whole ones
StallWindow(count, interval) == count * MaxOf({interval \div 2, 1})

Broken(lag) ==
  {n \in ToSet(NoteOrder) :
     CASE n = "accepted_rate"    -> LowRate(drain.accepted)
       [] n = "confirmed_rate"   -> LowRate(drain.confirmed)
       [] n = "pending_backlog"  -> drain.backlog > 0
       [] n = "max_height_lag"   -> lag > MaxHeightLag
       [] n = "p95_latency"      -> P95Slow
       [] n = "stall_window"     -> StallWindow(maxStall, setup.interval) > MaxStall
       [] OTHER                  -> drain.drop > 0}

Judge ==
  /\ phase = "last" /\ Answered
  /\ maxLag' = MaxOf({maxLag, LagRead})
  /\ LET broken == Broken(maxLag')
         end == IF failed THEN 0 ELSE read[1] IN
     summaries' = Append(summaries,
       [tps |-> tiers[tier], growth |-> (end - startHeight) % Word,
        status |-> IF broken \subseteq {"sender_backpressure_drop"} THEN "PASS" ELSE "FAIL",
        notes |-> Sift(NoteOrder, broken)])
  /\ Spread /\ NextQuery /\ phase' = "judged"
  /\ UNCHANGED <<setup, run, tiers, tier, startHeight, lastPrimary, stall, maxStall, slow, taken,
                 drain, warmup, search, samples, exit, disk, h, drops, moved, still, maxStill, made,
                 base, blank, fundVars, chainVars, faults>>

-----------------------------------------------------------------------------
(* main.                                                                   *)

NoSearch == [stable |-> 0, unstable |-> 0, reason |-> "none"]
UnchangedTier == UNCHANGED <<query, sampling, h, drops, truth>>

Exit(code) == phase' = "exit" /\ exit' = code

Fresh ==
  /\ phase = "flags" /\ tiers = <<>> /\ tier = 0 /\ read = <<>> /\ failed = FALSE
  /\ startHeight = 0 /\ lastPrimary = 0 /\ stall = 0 /\ maxStall = 0 /\ maxLag = 0 /\ slow = 0
  /\ taken = 0 /\ drain = [sent |-> 0, accepted |-> 0, confirmed |-> 0, backlog |-> 0, drop |-> 0]
  /\ warmup = "none" /\ summaries = <<>> /\ search = NoSearch /\ samples = <<>> /\ exit = -1
  /\ moved = FALSE /\ still = 0 /\ maxStill = 0 /\ sureLag = 0 /\ farLag = 0 /\ made = 0
  /\ blank = FALSE

Init ==
  /\ setup \in Setups /\ run = 1 /\ FundInit /\ wanted = 0 /\ faults = setup.faults
  /\ h = [n \in Nodes |-> 1] /\ drops = 0 /\ base = h
  /\ disk = [metrics |-> 0, verdict |-> 0, summary |-> 0, status |-> "none", reasons |-> <<>>,
             worst |-> <<>>]
  /\ Fresh

\* flags, connections and the chain id
Flags ==
  /\ phase = "flags"
  /\ \/ /\ ValidFlags /\ ValidScope
        /\ tiers' = TierList /\ phase' = (IF Multi THEN "warmup" ELSE "prepare")
        /\ UNCHANGED <<exit, faults>>
     \/ /\ IF ValidFlags /\ ValidScope THEN Fault ELSE UNCHANGED faults
        /\ Exit(1) /\ UNCHANGED tiers
  /\ UnchangedTier
  /\ UNCHANGED <<setup, run, tier, warmup, summaries, search, samples, disk, fundVars, chainVars>>

\* waitForMultiScopeWarmup; without a node to ask it never succeeds
WarmUp ==
  /\ phase = "warmup"
  /\ \/ warmup' = "PASS" /\ LagNodes # <<>> /\ phase' = "prepare"
     \/ warmup' = "FAIL" /\ phase' = "metrics"
  /\ UnchangedTier
  /\ UNCHANGED <<setup, run, tiers, tier, summaries, search, samples, exit, disk, fundVars,
                 chainVars, faults>>

Prepare ==
  /\ phase = "prepare"
  /\ \E flag \in setup.senders : BeginFunding(SenderCount(flag))
  /\ phase' = "fund"
  /\ UnchangedTier
  /\ UNCHANGED <<setup, run, tiers, tier, results, chainVars, faults>>

Fund == phase = "fund" /\ FundStep /\ UNCHANGED perfVars

\* prepareSenderAccounts returns; it has synchronised the nonces once
Funded ==
  /\ phase = "fund" /\ fpc \in {"funded", "unfunded"}
  /\ \/ fpc = "funded" /\ phase' = "sync" /\ tier' = 1 /\ UNCHANGED <<exit, faults>>
     \/ (IF fpc = "funded" THEN Fault ELSE UNCHANGED faults) /\ Exit(1) /\ UNCHANGED tier
  /\ UnchangedTier
  /\ UNCHANGED <<setup, run, tiers, warmup, summaries, search, samples, disk, fundVars, chainVars>>

Sync ==
  /\ phase = "sync"
  /\ \/ /\ phase' = "first" /\ BeginTier /\ UNCHANGED <<exit, faults>>
     \/ /\ Fault /\ Exit(1) /\ UNCHANGED <<sampling, truth>>
  /\ UNCHANGED <<setup, run, tiers, tier, query, warmup, summaries, search, samples, disk, h,
                 drops, fundVars, chainVars>>

\* Mutant of SearchAfter: the search goes on behind an unstable tier.
SearchAfter_goesOn(s) ==
  CASE s.status = "PASS" /\ s.tps >= setup.target ->
         [search EXCEPT !.stable = s.tps, !.reason = "target_reached"]
    [] s.status = "PASS" /\ s.tps < setup.target -> [search EXCEPT !.stable = s.tps]
    [] OTHER -> [search EXCEPT !.unstable = s.tps]

SearchAfter(s) ==
  CASE s.status = "PASS" /\ s.tps >= setup.target ->
         [search EXCEPT !.stable = s.tps, !.reason = "target_reached"]
    [] s.status = "PASS" /\ s.tps < setup.target -> [search EXCEPT !.stable = s.tps]
    [] OTHER -> [search EXCEPT !.unstable = s.tps, !.reason = "first_unstable_tps"]

NextTier ==
  /\ phase = "judged"
  /\ search' = IF setup.mode = "max" THEN SearchAfter(Last(summaries)) ELSE search
  /\ IF search'.reason # "none" \/ tier = Len(tiers)
       THEN phase' = "metrics" /\ UNCHANGED tier
       ELSE phase' = "sync" /\ tier' = tier + 1
  /\ UnchangedTier
  /\ UNCHANGED <<setup, run, tiers, warmup, summaries, samples, exit, disk, fundVars, chainVars,
                 faults>>

\* collectFailedReasons: tier s after those that have given the reasons out;
\* a note is the limit that was missed, without the numbers
ReasonsWith(out, s) ==
  LET items == [i \in DOMAIN s.notes |-> <<s.tps, s.notes[i]>>]
      new == Sift(items, ToSet(items) \ ToSet(out))
      unknown == <<s.tps, "unknown">>
  IN CASE s.status = "PASS" -> out
       [] s.status # "PASS" /\ new # <<>> -> out \o new
       [] s.status # "PASS" /\ new = <<>> ->
            IF unknown \in ToSet(out) THEN out ELSE Append(out, unknown)

Reasons ==
  LET out[i \in 0..Len(summaries)] ==
        IF i = 0 THEN <<>> ELSE ReasonsWith(out[i - 1], summaries[i])
  IN out[Len(summaries)]

FailedReasons == (IF warmup = "FAIL" THEN <<<<0, "warmup">>>> ELSE <<>>) \o Reasons
Status == IF FailedReasons = <<>> THEN "PASS" ELSE "FAIL"
StopReason ==
  IF setup.mode = "max" /\ search.reason = "none" THEN "exhausted_search_range" ELSE search.reason

\* sample i comes before sample k in the list of slow windows
Slower(i, k) ==
  LET a == samples[i] b == samples[k] IN
  \/ a.slow > b.slow
  \/ a.slow = b.slow /\ a.stall > b.stall
  \/ a.slow = b.slow /\ a.stall = b.stall /\ a.lag > b.lag
  \/ a.slow = b.slow /\ a.stall = b.stall /\ a.lag = b.lag /\ i > k

\* collectTopSlowWindows: the samples in that order, as many as are shown
Place(i) == Cardinality({k \in DOMAIN samples : Slower(k, i)}) + 1
TopSlow ==
  [j \in 1..MinOf({Worst, Len(samples)}) |-> CHOOSE i \in DOMAIN samples : Place(i) = j]

\* writeVerdictArtifacts, one file after the other; os.Create empties the file
\* before its rows are written, so a metrics file that exists is of this run
Write(file, next) ==
  \/ /\ disk' = [disk EXCEPT ![file] = run] /\ phase' = next /\ UNCHANGED <<exit, faults>>
  \/ Fault /\ Exit(1) /\ UNCHANGED disk

WriteMetrics ==
  /\ phase = "metrics" /\ Write("metrics", "verdict")
  /\ UnchangedTier
  /\ UNCHANGED <<setup, run, tiers, tier, warmup, summaries, search, samples, fundVars, chainVars>>

WriteVerdict ==
  /\ phase = "verdict"
  /\ \/ /\ disk' = [disk EXCEPT !.verdict = run, !.status = Status, !.reasons = FailedReasons,
                                !.worst = TopSlow]
        /\ phase' = "summary" /\ UNCHANGED <<exit, faults>>
     \/ Fault /\ Exit(1) /\ UNCHANGED disk
  /\ UnchangedTier
  /\ UNCHANGED <<setup, run, tiers, tier, warmup, summaries, search, samples, fundVars, chainVars>>

WriteSummary ==
  /\ phase = "summary" /\ Write("summary", "end")
  /\ UnchangedTier
  /\ UNCHANGED <<setup, run, tiers, tier, warmup, summaries, search, samples, fundVars, chainVars>>

\* Mutant of ExitCode: a failed warm-up ends like a run without tiers.
ExitCode_tiers == IF Reasons = <<>> THEN 0 ELSE 1

ExitCode == IF Status = "PASS" THEN 0 ELSE 1

End ==
  /\ phase = "end" /\ Exit(ExitCode)
  /\ UnchangedTier
  /\ UNCHANGED <<setup, run, tiers, tier, warmup, summaries, search, samples, disk, fundVars,
                 chainVars, faults>>

\* another run on the network, which was not rebuilt
Rerun ==
  /\ phase = "exit" /\ run < setup.runs
  /\ run' = run + 1 /\ phase' = "flags" /\ tiers' = <<>> /\ tier' = 0
  /\ warmup' = "none" /\ summaries' = <<>> /\ search' = NoSearch /\ samples' = <<>> /\ exit' = -1
  /\ UnchangedTier /\ UNCHANGED <<setup, disk, fundVars, chainVars, faults>>

Mine == MineFunding /\ phase \in {"fund", "exit"} /\ UNCHANGED perfVars

RunTier == Ask \/ FirstQuery \/ Sample \/ Drain \/ Judge
Main == Flags \/ WarmUp \/ Prepare \/ Fund \/ Funded \/ Sync \/ NextTier \/ WriteMetrics
        \/ WriteVerdict \/ WriteSummary \/ End
Chain == \E n \in Nodes : Grow(n) \/ DropBlock(n)

Next == Main \/ RunTier \/ Chain \/ Mine \/ Rerun

Spec ==
  /\ Init /\ [][Next]_vars
  /\ WF_vars(Main) /\ WF_vars(RunTier) /\ WF_vars(Mine) /\ WF_vars(setup.steady /\ Chain)

-----------------------------------------------------------------------------
(* Properties.                                                             *)

TypeOK ==
  /\ setup \in Setups /\ run \in 1..setup.runs /\ tier \in 0..Len(tiers)
  /\ phase \in {"flags", "warmup", "prepare", "fund", "sync", "first", "sample", "drain", "last",
                "judged", "metrics", "verdict", "summary", "end", "exit"}
  /\ exit \in {-1, 0, 1} /\ (exit = -1 <=> phase # "exit")
  /\ Len(summaries) <= Len(tiers) /\ taken \in 0..setup.samples /\ slow \in 0..taken

(* A run exits with 0 exactly when it has written all three artifacts, the *)
(* verdict among them says PASS without a reason, the warm-up has passed   *)
(* and so has every tier: all tiers of the list, or, in a search, all up   *)
(* to the target.  An artifact of an earlier run or a verdict that could   *)
(* not be completed never comes with exit code 0, and a verdict of this    *)
(* run is FAIL exactly when the warm-up or a tier has failed.              *)
AllPassed == warmup # "FAIL" /\ \A i \in DOMAIN summaries : summaries[i].status = "PASS"
OfThisRun == disk.metrics = run /\ disk.verdict = run /\ disk.summary = run
ExitExact ==
  TypeOK /\ (phase = "exit" =>
    /\ exit = 0 => /\ OfThisRun /\ disk.status = "PASS" /\ disk.reasons = <<>>
                   /\ AllPassed /\ Len(summaries) = Len(tiers)
    /\ disk.verdict = run => (disk.status = "PASS" <=> AllPassed)
    /\ exit = 1 /\ disk.verdict = run /\ disk.status = "PASS" => disk.summary # run)

(* Every failing tier has a reason in the verdict, and a tier whose reason *)
(* is unknown only repeats what an earlier one of the same TPS has said;   *)
(* the slow windows are the worst samples.                                 *)
ReasonsExplain ==
  disk.verdict = run =>
    /\ \A i \in DOMAIN summaries : summaries[i].status = "FAIL" =>
         \E r \in ToSet(disk.reasons) : r[1] = summaries[i].tps /\ r[2] # "unknown"
    /\ \A r \in ToSet(disk.reasons) : r[2] = "unknown" =>
         Cardinality({i \in DOMAIN summaries : summaries[i].tps = r[1]}) > 1
    /\ \A i \in ToSet(disk.worst), k \in DOMAIN samples \ ToSet(disk.worst) : ~Slower(k, i)

(* Both: the exit code, the artifacts and what the verdict says.           *)
ArtifactsExact == ExitExact /\ ReasonsExplain

(* A search climbs from its base to its target in steps of at most the     *)
(* configured size; what it calls stable and unstable are neighbours on    *)
(* that way, everything below has passed, and it ends at the first that    *)
(* fails or at the target, never for want of another step.                 *)
SearchExact ==
  setup.mode = "max" /\ tiers # <<>> =>
    /\ tiers[1] = setup.base /\ Last(tiers) = setup.target
    /\ \A i \in 1..(Len(tiers) - 1) : tiers[i + 1] - tiers[i] \in 1..setup.step
    /\ \A i \in 1..(Len(summaries) - 1) : summaries[i].status = "PASS"
    /\ phase = "metrics" /\ warmup # "FAIL" =>
         LET n == Len(summaries) IN
         CASE StopReason = "target_reached" -> search.stable = setup.target /\ search.unstable = 0
           [] StopReason = "first_unstable_tps" ->
                search.unstable = tiers[n] /\ search.stable = (IF n = 1 THEN 0 ELSE tiers[n - 1])
           [] OTHER -> FALSE

(* What a tier says of the chain is true of it, although its nodes are     *)
(* asked one after the other while they move: the lag lies between what    *)
(* nobody could miss and what anybody could have seen; the longest stall   *)
(* is the longest time the first node has stood still, unless a query has  *)
(* failed, and then it is not longer; the growth is no more than the       *)
(* blocks that were made, unless the first or the last query has failed.   *)
SamplesTrue ==
  phase = "judged" /\ drops = 0 =>
    /\ maxLag \in sureLag..farLag
    /\ maxStall <= maxStill /\ (~blank => maxStall = maxStill)
    /\ ~blank => Last(summaries).growth <= made

(* On a tier that ends as PASS the chain has not stood still for longer    *)
(* than the limit, all queries having succeeded and the interval being one *)
(* of whole seconds; nor has a node lagged behind for the whole of a query *)
(* by more than the limit; nor was more than one sample in twenty slow; and *)
(* a tier that has sent nothing does not pass.                             *)
NoFalsePass ==
  phase = "judged" /\ drops = 0 /\ Last(summaries).status = "PASS" =>
    /\ ~blank /\ setup.interval % 2 = 0 => maxStill * setup.interval <= 2 * MaxStall
    /\ sureLag <= MaxHeightLag
    /\ 20 * slow <= taken
    /\ MinSuccessPct > 0 => drain.sent > 0

(* Both: what is reported of a tier, and what its PASS is worth.           *)
TierTrue == SamplesTrue /\ NoFalsePass

(* When the preparation of the senders succeeds every sender has its       *)
(* money, unless the node has called one of the transactions known: then   *)
(* an earlier run has left it waiting for a nonce that nobody uses.  The   *)
(* first run on a network meets neither, and its preparation fails only    *)
(* when a call does.                                                       *)
SendersFunded ==
  /\ fpc = "funded" => \A a \in 0..(wanted - 1) : a \in money \cup known
  /\ known # {} => run > 1
  /\ fpc = "unfunded" /\ run = 1 => faults < setup.faults

(* Every run exits (the load generator's own ways of hanging are module    *)
(* LoadGen's).                                                             *)
RunExits == phase # "exit" ~> phase = "exit"

=================================================================================
