---------------------------------- MODULE Waits ----------------------------------
(***************************************************************************)
(* The waits of the test code for a chain to get somewhere: one poll loop  *)
(* each, that reads heights (and contract state) from nodes one call after *)
(* the other while the nodes move on, and ends with success, a timeout or  *)
(* a verdict that the chain has stalled.                                   *)
(*   progress    WaitForBlockProgress                                      *)
(*   height      waitUntilHeight                                           *)
(*   orstall     WaitUntilHeightOrStall, over all nodes                    *)
(*   jail        WaitForJailTransitionOrStall                              *)
(*   epoch       WaitIfEpochBlockWithTimeout                               *)
(*   transition  WaitForNextEpochTransition, which is height, then epoch,  *)
(*               then a loop that compares two validator sets              *)
(*   warmup      waitForMultiScopeWarmup of the perf runner                *)
(* Time is counted in polls: each reading is followed by one unit of sleep *)
(* and all clocks that a loop compares are read after that.  A validator   *)
(* set is a number.                                                        *)
(***************************************************************************)
EXTENDS Integers, Sequences, FiniteSets

CONSTANTS
  Need,        \* increments that progress waits for
  From, Until, \* the window of jail
  Lag, Streak, \* warmup: tolerated difference, samples in a row
  Setups       \* chains, waits on them, and bounds

AllKinds == {"progress", "height", "orstall", "jail", "epoch", "transition", "warmup"}

(* A setup: its nodes are 1..nodes, read in this order, the first is       *)
(* Clients[0]; kinds of waits; epoch lengths, 0 for one that is not known; *)
(* heights that height and orstall wait for; the timeout of every loop and *)
(* the time without progress that counts as a stall, in polls; flaky when  *)
(* calls may fail; steady when the chain loses no block, makes one in less *)
(* than stall polls, and no two without a poll between them.  Every call   *)
(* of the epoch wait gives 45 seconds, and 15 of them are a stall.         *)
(* Bounds: heights at the beginning, heights, and blocks that the first    *)
(* node loses.                                                             *)
Setup ==
  [nodes : Nat \ {0}, kinds : SUBSET AllKinds, epochs : SUBSET Nat, goals : SUBSET Nat,
   timeout : Nat, stall : Nat \ {0}, flaky : BOOLEAN, steady : BOOLEAN,
   start : Nat, height : Nat, drops : Nat]

ASSUME WaitsAssumption ==
  /\ Need \in Nat \ {0} /\ From \in Nat \ {0} /\ Until \in Nat /\ From <= Until
  /\ Lag \in Nat /\ Streak \in Nat \ {0}
  /\ \A s \in Setups :
       /\ s \in Setup /\ s.stall <= s.timeout /\ s.start <= s.height
       /\ s.steady => s.drops = 0 /\ 2 * s.stall <= s.timeout

Sets == {1, 2}

VARIABLES
  setup,
  \* the chain
  h,          \* per node: its height
  jailed,     \* the validator is jailed and reset from this height on
  top,        \* the validators that ought to be active, by stake
  active,     \* the ones that are, since the last epoch block
  installed,  \* that epoch block, 0 before the first one
  \* the wait
  kind, epoch, goal,
  phase,      \* "first" before the loop, then the loop it is in
  read,       \* answers of the calls of this round, Failed for an error
  last,       \* lastHeight, the highest or the latest height so far
  count,      \* increments or stable samples
  since,      \* lastProgress
  time,       \* polls since the loop has started
  res, got,   \* how the wait has ended, and the height it returns
  \* history
  produced,   \* blocks of the first node since the wait began
  best,       \* the greatest height of all nodes at the start of any round
  grown,      \* the poll of that round
  quiet,      \* polls since the first node has got a block
  base,       \* the heights before the first call of this round
  drops

chain == <<h, jailed, top, active, installed>>
input == <<setup, kind, epoch>>
loop == <<goal, phase, last, count, since>>
history == <<produced, best, grown, base, drops>>
vars == <<chain, input, loop, read, time, res, got, history, quiet>>

Failed == -1
Nodes == 1..setup.nodes
Timeout == setup.timeout
Stall == setup.stall
Flaky == setup.flaky
Steady == setup.steady
MaxHeight == setup.height

TwoPhase == {"orstall", "jail", "transition"}

MaxOf(S) == CHOOSE x \in S : \A y \in S : y <= x
MinOf(S) == CHOOSE x \in S : \A y \in S : x <= y
Heights == {h[n] : n \in Nodes}

Init ==
  /\ setup \in Setups /\ h \in [Nodes -> 0..setup.start]
  /\ jailed \in (IF "jail" \in setup.kinds THEN 1..(MaxHeight + 1) ELSE {1})
  /\ top = 1 /\ active = 1 /\ installed = 0
  /\ kind \in setup.kinds /\ epoch \in setup.epochs /\ goal \in setup.goals
  /\ phase = IF kind \in TwoPhase THEN "first" ELSE "loop"
  /\ read = <<>> /\ last = 0 /\ count = 0 /\ since = 0 /\ time = 0
  /\ res = "running" /\ got = 0
  /\ produced = 0 /\ best = MaxOf(Heights) /\ grown = 0 /\ quiet = 0 /\ base = h
  /\ drops = 0

-----------------------------------------------------------------------------
(* The chain.                                                              *)

EpochBlock(x) == epoch > 0 /\ x % epoch = 0

\* a node gets its next block
Grow(n) ==
  /\ res = "running" /\ h[n] < MaxHeight
  /\ Steady /\ n = 1 => quiet > 1
  /\ h' = [h EXCEPT ![n] = @ + 1]
  /\ active' = IF n = 1 /\ EpochBlock(h'[1]) THEN top ELSE active
  /\ installed' = IF n = 1 /\ EpochBlock(h'[1]) THEN h'[1] ELSE installed
  /\ produced' = IF n = 1 THEN produced + 1 ELSE produced
  /\ quiet' = IF n = 1 THEN 0 ELSE quiet
  /\ UNCHANGED <<jailed, top, input, loop, read, time, res, got, base, best, grown, drops>>

\* the first node comes back without its last block (not explored for the
\* waits whose contract state or lag would have to go back with it)
DropBlock ==
  /\ res = "running" /\ kind \notin {"transition", "warmup"} /\ drops < setup.drops /\ h[1] > 1
  /\ h' = [h EXCEPT ![1] = @ - 1] /\ drops' = drops + 1
  /\ UNCHANGED <<jailed, top, active, installed, input, loop, read, time, res, got, produced,
                 best, grown, base, quiet>>

Restake ==
  /\ res = "running" /\ kind = "transition" /\ top' \in Sets \ {top}
  /\ UNCHANGED <<h, jailed, active, installed, input, loop, read, time, res, got, history, quiet>>

-----------------------------------------------------------------------------
(* One round of calls.                                                     *)

\* what the calls of a round ask for, as answered now
Answers ==
  CASE kind \in {"epoch", "transition"} /\ epoch = 0 -> <<>>
    [] kind \in {"orstall", "warmup"} -> h
    [] kind = "transition" /\ phase = "settle" /\ epoch > 0 -> <<h[1], top, active>>
    [] OTHER -> <<h[1]>>

Call ==
  /\ res = "running" /\ Len(read) < Len(Answers)
  /\ \E answer \in {Answers[Len(read) + 1]} \cup (IF Flaky THEN {Failed} ELSE {}) :
       read' = Append(read, answer)
  /\ base' = IF read = <<>> THEN h ELSE base
  /\ best' = MaxOf({best} \cup {base'[n] : n \in Nodes})
  /\ grown' = IF best' > best THEN time ELSE grown
  /\ UNCHANGED <<chain, input, loop, time, res, got, produced, quiet, drops>>

Complete == res = "running" /\ Len(read) = Len(Answers)
\* Mutant of Answered: the lag of the first node to itself.
Answered_primary == {read[1]} \ {Failed}

Answered == {read[i] : i \in DOMAIN read} \ {Failed}
Height == read[1]               \* BlockNumber of Clients[0]
Highest == MaxOf({0} \cup Answered)

Finish(result, height) ==
  /\ res' = result /\ got' = height
  /\ read' = <<>> /\ UNCHANGED <<time, quiet>>

Sleep ==
  /\ Steady => quiet + 1 < Stall
  /\ quiet' = IF Steady THEN quiet + 1 ELSE 0
  /\ time' = time + 1
  /\ read' = <<>>
  /\ UNCHANGED got

\* for time.Since(start) < timeout { ... sleep }
Again ==
  /\ Sleep
  /\ res' = IF time + 1 < Timeout THEN res ELSE "timeout"

\* Mutant of AgainUnlessLate: no deadline.
AgainUnlessLate_never == Sleep /\ UNCHANGED res

\* for { ... if time.Now().After(deadline) { return } sleep }
AgainUnlessLate ==
  IF time > Timeout THEN Finish("timeout", 0) ELSE Sleep /\ UNCHANGED res

\* the next loop of the same wait
Begin(next) ==
  /\ phase' = next /\ last' = 0 /\ since' = 0 /\ time' = 0
  /\ read' = <<>> /\ UNCHANGED <<count, res, got, quiet>>

\* Mutant of Stalled: one poll too early.
Stalled_early(progress) == time - progress >= Stall - 1

\* the time without progress is up: the chain has stalled
Stalled(progress) == time - progress >= Stall
AgainUnlessStalled(progress) ==
  IF Stalled(progress) THEN Finish("stalled", 0) ELSE Again

-----------------------------------------------------------------------------
\* Mutant of Progress: any other height is progress.
Progress_change ==
  /\ kind = "progress" /\ Complete /\ Height # Failed
  /\ count' = (IF last # 0 /\ Height # last THEN count + 1 ELSE count)
  /\ last' = Height /\ UNCHANGED <<goal, phase, since>>
  /\ IF count' >= Need THEN Finish("ok", Height) ELSE Again

Progress ==
  /\ kind = "progress" /\ Complete
  /\ LET up == last # 0 /\ Height > last
         n == IF up THEN count + 1 ELSE count
     IN \/ Height = Failed /\ Again /\ UNCHANGED loop
        \/ /\ Height # Failed
           /\ count' = n /\ last' = Height /\ UNCHANGED <<goal, phase, since>>
           /\ IF n >= Need THEN Finish("ok", Height) ELSE Again

UntilHeight ==
  /\ kind = "height" \/ (kind = "transition" /\ phase = "height")
  /\ Complete
  /\ IF Height >= goal
     THEN IF kind = "height" THEN Finish("ok", Height) /\ UNCHANGED loop
          ELSE Begin("epoch") /\ UNCHANGED goal
     ELSE AgainUnlessLate /\ UNCHANGED loop

OrStallFirst ==
  /\ kind = "orstall" /\ phase = "first" /\ Complete
  /\ \/ /\ Highest = 0 /\ \E i \in DOMAIN read : read[i] = Failed
        /\ Finish("error", 0) /\ UNCHANGED loop
     \/ /\ Highest > 0 \/ \A i \in DOMAIN read : read[i] # Failed
        /\ IF Highest >= goal THEN Finish("ok", Highest) /\ UNCHANGED loop
           ELSE /\ last' = Highest /\ phase' = "loop" /\ read' = <<>>
                /\ UNCHANGED <<goal, count, since, time, res, got, quiet>>

OrStall ==
  /\ kind = "orstall" /\ phase = "loop" /\ Complete
  /\ UNCHANGED <<goal, phase, count>>
  /\ IF Highest >= goal THEN Finish("ok", Highest) /\ UNCHANGED <<last, since>>
     ELSE /\ last' = MaxOf({last, Highest})
          /\ since' = IF Highest > last THEN time ELSE since
          /\ AgainUnlessStalled(since')

\* Mutant of JailFirst: the first height is asked for until there is one.
JailFirst_again ==
  /\ kind = "jail" /\ phase = "first" /\ Complete
  /\ last' = Height /\ phase' = (IF Height = Failed THEN phase ELSE "loop") /\ read' = <<>>
  /\ UNCHANGED <<goal, count, since, time, res, got, quiet>>

JailFirst ==
  /\ kind = "jail" /\ phase = "first" /\ Complete
  /\ IF Height = Failed THEN Finish("error", 0) /\ UNCHANGED loop
     ELSE /\ last' = Height /\ phase' = "loop" /\ read' = <<>>
          /\ UNCHANGED <<goal, count, since, time, res, got, quiet>>

\* Mutant of Jail: the end of the window is looked at first.
Jail_windowFirst ==
  /\ kind = "jail" /\ phase = "loop" /\ Complete
  /\ UNCHANGED <<goal, phase, count>>
  /\ last' = MaxOf({last, Height})
  /\ since' = IF Height > last THEN time ELSE since
  /\ IF Height >= From /\ Height >= Until THEN Finish("missed", Height)
     ELSE IF Height >= From /\ Height >= jailed THEN Finish("ok", Height)
     ELSE AgainUnlessStalled(since')

\* the contracts are asked about the height that was read; that may fail too
Jail ==
  /\ kind = "jail" /\ phase = "loop" /\ Complete
  /\ UNCHANGED <<goal, phase, count>>
  /\ last' = MaxOf({last, Height})
  /\ since' = IF Height > last THEN time ELSE since
  /\ \E seen \in {Height >= jailed} \cup (IF Flaky THEN {FALSE} ELSE {}) :
       IF Height >= From /\ seen THEN Finish("ok", Height)
       ELSE IF Height >= From /\ Height >= Until THEN Finish("missed", Height)
       ELSE AgainUnlessStalled(since')

\* Mutant of Safe: an epoch block itself will do.
Safe_boundary(x) == x % epoch # epoch - 1

\* neither an epoch block nor the one before
Safe(x) == x % epoch \notin {0, epoch - 1}

EpochWait ==
  /\ kind = "epoch" \/ (kind = "transition" /\ phase = "epoch")
  /\ Complete
  /\ \/ epoch = 0 /\ Finish("ok", 0) /\ UNCHANGED loop
     \/ epoch > 0 /\ Height = Failed /\ Again /\ UNCHANGED loop
     \/ /\ epoch > 0 /\ Height # Failed /\ Safe(Height)
        /\ IF kind = "epoch" THEN Finish("ok", Height) /\ UNCHANGED loop
           ELSE Begin("settle") /\ UNCHANGED goal
     \/ /\ epoch > 0 /\ Height # Failed /\ ~Safe(Height)
        /\ last' = Height /\ since' = IF Height # last THEN time ELSE since
        /\ AgainUnlessStalled(since')
        /\ UNCHANGED <<goal, phase, count>>

\* Mutant of TransitionFirst: the epoch block that has been.
TransitionFirst_previous ==
  /\ kind = "transition" /\ phase = "first" /\ Complete
  /\ IF epoch = 0 \/ Height = Failed THEN Finish("error", 0) /\ UNCHANGED loop
     ELSE Begin("height") /\ goal' = (Height \div epoch) * epoch

TransitionFirst ==
  /\ kind = "transition" /\ phase = "first" /\ Complete
  /\ IF epoch = 0 \/ Height = Failed THEN Finish("error", 0) /\ UNCHANGED loop
     ELSE Begin("height") /\ goal' = ((Height \div epoch) + 1) * epoch

\* read = <<height, GetTopValidators, GetActiveValidators>>
Settle ==
  /\ kind = "transition" /\ phase = "settle" /\ Complete
  /\ IF Failed \notin {read[i] : i \in DOMAIN read} /\ read[2] = read[3]
     THEN Finish("ok", Height) ELSE AgainUnlessLate
  /\ UNCHANGED loop

Warmup ==
  /\ kind = "warmup" /\ Complete
  /\ LET all == \A i \in DOMAIN read : read[i] # Failed
         near == all /\ MinOf(Answered) > 0 /\ MaxOf(Answered) - MinOf(Answered) <= Lag
         n == IF near THEN count + 1 ELSE 0
     IN /\ count' = n
        /\ IF n >= Streak THEN Finish("ok", MinOf(Answered)) ELSE AgainUnlessLate
  /\ UNCHANGED <<goal, phase, last, since>>

Round ==
  /\ Progress \/ UntilHeight \/ OrStallFirst \/ OrStall \/ JailFirst \/ Jail \/ EpochWait
     \/ TransitionFirst \/ Settle \/ Warmup
  /\ UNCHANGED <<chain, input, history>>

Next == Call \/ Round \/ (\E n \in Nodes : Grow(n)) \/ DropBlock \/ Restake

\* the waiting goroutine runs and its calls return
Spec == Init /\ [][Next]_vars /\ WF_vars(Call \/ Round)

-----------------------------------------------------------------------------
TypeOK ==
  /\ h \in [Nodes -> 0..MaxHeight] /\ jailed \in 1..(MaxHeight + 1)
  /\ top \in Sets /\ active \in Sets /\ installed \in 0..MaxHeight
  /\ setup \in Setups /\ kind \in setup.kinds /\ epoch \in setup.epochs /\ goal \in Nat
  /\ phase \in {"first", "loop", "height", "epoch", "settle"}
  /\ read \in Seq(Nat \cup {Failed}) /\ Len(read) <= Len(Answers)
  /\ last \in Nat /\ count \in Nat
  /\ since \in 0..time /\ time \in 0..(Timeout + 1)
  /\ res \in {"running", "ok", "timeout", "stalled", "error", "missed"}
  /\ got \in Nat

(* A wait for progress that succeeds has seen a chain that produces: as    *)
(* many blocks as it was to wait for, whatever the node lost and got again *)
(* in between.                                                             *)
ProgressReal == kind = "progress" /\ res = "ok" => produced >= Need

(* WaitForNextEpochTransition compares sets that are read by separate      *)
(* calls; the active set that it accepts is none from before the epoch     *)
(* block it has waited for, and the height it returns lies past it.        *)
FreshSet ==
  kind = "transition" /\ res = "ok" =>
    installed > 0 /\ installed >= goal /\ got >= goal

(* "chain stalled" is said only of a chain that stands still: no node has  *)
(* got a block beyond the highest for all but one of the last Stall polls, *)
(* although the nodes are asked one after the other and some lag behind    *)
(* (a block that was lost and made again is no new one).                   *)
StallIsReal ==
  ~Flaky /\ drops = 0 /\ kind = "orstall" /\ res = "stalled" => grown <= time - Stall + 1

(* The jail wait reports a success only for a validator that was in jail   *)
(* at the height it returns, and, when all calls are answered, that the    *)
(* window was missed only when it was not in jail by the end of it.        *)
JailVerdict ==
  kind = "jail" => /\ res = "ok" => jailed <= got /\ got >= From
                   /\ res = "missed" /\ ~Flaky => jailed > Until

(* The epoch wait ends in time on a chain that makes blocks, unless no     *)
(* height can satisfy it: with an epoch of 1 or 2 every block is an epoch  *)
(* block or the one before.                                                *)
EpochWaitPasses ==
  Steady /\ ~Flaky /\ kind = "epoch" =>
    IF epoch \in {1, 2} THEN res # "ok" ELSE res \in {"running", "ok"}

(* What a wait reports is true of the chain: the five statements above.    *)
Truthful ==
  TypeOK /\ ProgressReal /\ FreshSet /\ StallIsReal /\ JailVerdict /\ EpochWaitPasses

(* A warm-up that passes says that the nodes were within the tolerated     *)
(* difference, up to the blocks that came while they were being asked.     *)
WarmUpReal ==
  [][kind = "warmup" /\ res = "running" /\ res' = "ok" =>
       MaxOf(Heights) - MinOf(Heights) <= Lag + MaxOf({h[n] - base[n] : n \in Nodes})]_vars

(* Every wait returns, whatever the chain does.                            *)
Returns == <>(res # "running")

=================================================================================
