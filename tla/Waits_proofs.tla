------------------------------- MODULE Waits_proofs -------------------------------
(***************************************************************************)
(* Proofs about the waits of the tests: what a wait reports is true of the *)
(* chain, for any number of nodes, any heights, any epoch and any timeout, *)
(* and the wait for a validator to follow the other nodes, for any number  *)
(* of them, any forks and any length of the match.                         *)
(***************************************************************************)
EXTENDS MCWaits, SequenceTheorems, WellFoundedInduction, TLAPS

-----------------------------------------------------------------------------
(***************************************************************************)
(* The largest and the smallest of some heights.                           *)
(***************************************************************************)
LEMMA SmallestOf ==
  ASSUME NEW T \in SUBSET Nat, T # {}
  PROVE  \E x \in T : \A y \in T : x <= y
<1>1. PICK x \in T : \A y \in T : ~(<<y, x>> \in OpToRel(<, Nat))
  BY NatLessThanWellFounded, WFMin
<1>2. \A y \in T : ~(y < x)
  BY <1>1 DEF OpToRel
<1> QED BY <1>2

LEMMA LargestOf ==
  ASSUME NEW S \in SUBSET Int, S # {}, NEW bound \in Int, \A x \in S : x <= bound
  PROVE  MaxOf(S) \in S /\ \A y \in S : y <= MaxOf(S)
<1> DEFINE T == {bound - x : x \in S}
<1>1. T \in SUBSET Nat /\ T # {}
  <2>1. \A x \in S : bound - x \in Nat /\ bound - x \in T
    OBVIOUS
  <2> QED BY <2>1
<1>2. PICK t \in T : \A y \in T : t <= y
  <2> HIDE DEF T
  <2> QED BY <1>1, SmallestOf
<1>3. PICK x \in S : t = bound - x
  BY <1>2
<1>4. \A y \in S : y <= x
  <2> TAKE y \in S
  <2>1. bound - x <= bound - y
    BY <1>2, <1>3
  <2> QED BY <2>1
<1> QED BY <1>3, <1>4 DEF MaxOf

LEMMA LeastOf ==
  ASSUME NEW S \in SUBSET Nat, S # {}
  PROVE  MinOf(S) \in S /\ \A y \in S : MinOf(S) <= y
BY SmallestOf DEF MinOf

LEMMA LargerOf ==
  ASSUME NEW a \in Int, NEW b \in Int
  PROVE  MaxOf({a, b}) = IF a < b THEN b ELSE a
<1> DEFINE m == IF a < b THEN b ELSE a
<1>1. m \in Int /\ \A x \in {a, b} : x <= m
  OBVIOUS
<1>2. MaxOf({a, b}) \in {a, b} /\ \A y \in {a, b} : y <= MaxOf({a, b})
  BY <1>1, LargestOf
<1> QED BY <1>2

-----------------------------------------------------------------------------
(***************************************************************************)
(* Epochs.                                                                 *)
(***************************************************************************)
LEMMA Remainder ==
  ASSUME NEW e \in Nat \ {0}, NEW q \in Nat, NEW r \in 0..(e - 1)
  PROVE  (e * q + r) % e = r /\ (e * q + r) \div e = q
OBVIOUS

LEMMA Divided ==
  ASSUME NEW e \in Nat \ {0}, NEW x \in Nat
  PROVE  /\ x \div e \in Nat /\ x % e \in 0..(e - 1)
         /\ x = e * (x \div e) + (x % e)
OBVIOUS

LEMMA NextMultiple ==
  ASSUME NEW e \in Nat \ {0}, NEW x \in Nat
  PROVE  /\ ((x \div e) + 1) * e \in Nat
         /\ x < ((x \div e) + 1) * e
         /\ (((x \div e) + 1) * e) % e = 0
<1>1. x \div e \in Nat /\ x % e \in 0..(e - 1) /\ x = e * (x \div e) + (x % e)
  BY Divided
<1>2. PICK q \in Nat : q = x \div e
  BY <1>1
<1>3. (q + 1) * e = e * q + e /\ (q + 1) * e = e * (q + 1) + 0 /\ (q + 1) * e \in Nat
  OBVIOUS
<1>4. (e * (q + 1) + 0) % e = 0
  BY Remainder
<1> QED BY <1>1, <1>2, <1>3, <1>4

LEMMA NextRemainder ==
  ASSUME NEW e \in Nat \ {0}, NEW x \in Nat, e > 1
  PROVE  (x + 1) % e = (IF x % e = e - 1 THEN 0 ELSE (x % e) + 1)
<1>1. x \div e \in Nat /\ x % e \in 0..(e - 1) /\ x = e * (x \div e) + (x % e)
  BY Divided
<1>2. PICK q \in Nat, r \in 0..(e - 1) : q = x \div e /\ r = x % e /\ x = e * q + r
  BY <1>1
<1>3. CASE r = e - 1
  <2>1. x + 1 = e * (q + 1) + 0
    BY <1>2, <1>3
  <2>2. (e * (q + 1) + 0) % e = 0
    BY Remainder
  <2>3. (x + 1) % e = 0
    BY <2>1, <2>2, Zenon
  <2> QED BY <1>2, <1>3, <2>3
<1>4. CASE r # e - 1
  <2>1. x + 1 = e * q + (r + 1) /\ r + 1 \in 0..(e - 1)
    BY <1>2, <1>4
  <2>2. (e * q + (r + 1)) % e = r + 1
    BY <2>1, Remainder
  <2>3. (x + 1) % e = r + 1
    BY <2>1, <2>2, Zenon
  <2> QED BY <1>2, <1>4, <2>3
<1> QED BY <1>3, <1>4


-----------------------------------------------------------------------------
(***************************************************************************)
(* The inductive invariant: types first, then what each wait knows of the  *)
(* chain between its calls.                                                *)
(***************************************************************************)
ChainInv ==
  /\ h \in [Nodes -> 0..MaxHeight] /\ jailed \in 1..(MaxHeight + 1)
  /\ top \in Sets /\ active \in Sets /\ installed \in 0..MaxHeight
  /\ setup \in Setups /\ kind \in setup.kinds /\ epoch \in setup.epochs
  /\ produced \in Nat /\ quiet \in Nat /\ drops \in 0..setup.drops
  /\ base \in [Nodes -> 0..MaxHeight] /\ best \in 0..MaxHeight /\ grown \in Nat

Phases ==
  IF kind \in {"orstall", "jail"} THEN {"first", "loop"}
  ELSE IF kind = "transition" THEN {"first", "height", "epoch", "settle"} ELSE {"loop"}

Results == {"running", "ok", "timeout", "stalled", "error", "missed"}

\* waits that give up as soon as the timeout is reached
Prompt == kind \in {"progress", "orstall", "jail", "epoch"} \/ phase = "epoch"

PollInv ==
  /\ goal \in Nat /\ phase \in Phases /\ last \in Nat /\ count \in Nat
  /\ kind = "transition" /\ phase # "first" => epoch > 0
  /\ phase = "first" => time = 0 /\ since = 0
  /\ since \in 0..time /\ time \in 0..(Timeout + 1)
  /\ res = "running" /\ Prompt => time < Timeout
  /\ res \in Results /\ got \in Nat

ReadInv ==
  /\ read \in Seq(Nat \cup {Failed}) /\ Len(read) <= Len(Answers)
  /\ kind \in {"orstall", "warmup"} => \A i \in DOMAIN read : read[i] <= MaxHeight
  /\ Failed \in {read[i] : i \in DOMAIN read} => Flaky
  /\ res # "running" => read = <<>>

Typed == ChainInv /\ PollInv /\ ReadInv

Up(x) == IF x > 0 THEN x ELSE 0

\* an increment is paid for by a block that was made: those that have been
\* counted, one for the reading of this round if it is higher than the last,
\* and those that the chain is ahead of it
ProgressInv ==
  /\ res = "ok" => produced >= Need
  /\ res = "running" =>
     /\ last = 0 => count = 0
     /\ last > 0 => h[1] > 0
     /\ IF read = <<>> \/ Height = Failed
        THEN last > 0 => count + Up(h[1] - last) <= produced
        ELSE /\ last > 0 \/ Height > 0 => h[1] > 0
             /\ last > 0 => Height > 0
             /\ count + (IF last > 0 THEN Up(Height - last) ELSE 0) + Up(h[1] - Height) <= produced

\* every epoch block after the first reading has been installed
TransitionInv ==
  /\ phase = "first" /\ read # <<>> /\ Height # Failed =>
       /\ Height <= h[1]
       /\ \A m \in (Height + 1)..h[1] : EpochBlock(m) => installed >= m
  /\ phase # "first" =>
       /\ goal > 0 /\ EpochBlock(goal)
       /\ h[1] >= goal => installed >= goal
       /\ read # <<>> => Height <= h[1]
  /\ phase \in {"epoch", "settle"} =>
       /\ h[1] >= goal
       /\ read # <<>> /\ Height # Failed => Height >= goal
  /\ res = "ok" => installed > 0 /\ installed >= goal /\ got >= goal

\* a height is read after the round has begun, and the chain only grows
InOrder ==
  /\ \A n \in Nodes : base[n] <= h[n]
  /\ \A i \in DOMAIN read : read[i] # Failed => base[i] <= read[i] /\ read[i] <= h[i]

\* the highest height at the start of a round is one that the round will see,
\* and one that the round before has seen is there when the next one begins
OrStallInv ==
  ~Flaky /\ drops = 0 =>
  /\ grown <= time
  /\ read # <<>> => InOrder /\ \A n \in Nodes : base[n] <= best
  /\ res = "running" /\ phase = "first" =>
       IF read = <<>> THEN \E n \in Nodes : best <= h[n] ELSE \E n \in Nodes : best <= base[n]
  /\ res = "running" /\ phase = "loop" =>
       /\ \E n \in Nodes : last <= h[n]
       /\ best < last => time <= since + 1
       /\ best <= last => grown <= since + 1
       /\ IF read = <<>> THEN best <= last
          ELSE best >= last /\ (best > last => \E n \in Nodes : best <= base[n])
  /\ res = "stalled" => grown <= time - Stall + 1

JailInv ==
  /\ res = "ok" => jailed <= got /\ got >= From
  /\ res = "missed" /\ ~Flaky => jailed > Until

\* the wait has lasted at most as long as a block each for the one before an
\* epoch block and the epoch block takes
EpochInv ==
  Steady /\ ~Flaky =>
    /\ IF epoch \in {1, 2} THEN res # "ok" ELSE res \in {"running", "ok"}
    /\ quiet < Stall
    /\ res = "running" /\ epoch > 2 =>
       /\ last <= h[1]
       /\ h[1] = last => time - since <= quiet
       /\ read # <<>> => /\ last <= Height /\ Height <= h[1]
                         /\ Height = last => time - since < Stall
       /\ h[1] % epoch = epoch - 1 => time <= quiet
       /\ h[1] % epoch = 0 => time <= Stall - 1 + quiet
       /\ Safe(h[1]) => /\ quiet <= 1 /\ time <= 2 * (Stall - 1) + quiet
                        /\ read # <<>> => Height = h[1] \/ quiet = 0

WarmupInv == read # <<>> => InOrder

WaitInv ==
  /\ Typed
  /\ kind = "progress" => ProgressInv
  /\ kind = "transition" => TransitionInv
  /\ kind = "orstall" => OrStallInv
  /\ kind = "jail" => JailInv
  /\ kind = "epoch" => EpochInv
  /\ kind = "warmup" => WarmupInv

LEMMA SetupFacts ==
  ASSUME setup \in Setups, kind \in setup.kinds, epoch \in setup.epochs
  PROVE  /\ setup.nodes \in Nat /\ setup.nodes >= 1 /\ 1 \in Nodes
         /\ setup.drops \in Nat /\ setup.start \in Nat /\ setup.start <= MaxHeight
         /\ MaxHeight \in Nat /\ Timeout \in Nat /\ Stall \in Nat /\ Stall >= 1 /\ Stall <= Timeout
         /\ Flaky \in BOOLEAN /\ Steady \in BOOLEAN
         /\ Steady => setup.drops = 0 /\ 2 * Stall <= Timeout
         /\ kind \in AllKinds /\ epoch \in Nat /\ setup.goals \subseteq Nat
<1>1. setup \in Setup /\ setup.stall <= setup.timeout /\ setup.start <= setup.height
      /\ (setup.steady => setup.drops = 0 /\ 2 * setup.stall <= setup.timeout)
  BY WaitsAssumption
<1>2. /\ setup.nodes \in Nat \ {0} /\ setup.kinds \in SUBSET AllKinds
      /\ setup.epochs \in SUBSET Nat /\ setup.goals \in SUBSET Nat
      /\ setup.timeout \in Nat /\ setup.stall \in Nat \ {0} /\ setup.flaky \in BOOLEAN
      /\ setup.steady \in BOOLEAN /\ setup.start \in Nat /\ setup.height \in Nat
      /\ setup.drops \in Nat
  BY <1>1 DEF Setup
<1> QED BY <1>1, <1>2 DEF Nodes, Timeout, Stall, Flaky, Steady, MaxHeight

LEMMA ConstantFacts ==
  /\ Need \in Nat /\ Need >= 1 /\ From \in Nat /\ From >= 1 /\ Until \in Nat
  /\ From <= Until /\ Lag \in Nat /\ Streak \in Nat /\ Streak >= 1
BY WaitsAssumption

\* what the calls of a round ask for
LEMMA Asked ==
  ASSUME ChainInv, PollInv
  PROVE  /\ Answers \in Seq(Nat)
         /\ kind \in {"epoch", "transition"} /\ epoch = 0 => Answers = <<>>
         /\ kind \in {"orstall", "warmup"} =>
              Answers = h /\ Len(Answers) = setup.nodes /\ h \in Seq(0..MaxHeight)
         /\ kind = "transition" /\ phase = "settle" => Answers = <<h[1], top, active>>
         /\ kind \in {"progress", "height", "jail"} \/ (kind \in {"epoch", "transition"} /\ epoch > 0 /\ phase # "settle")
              => Answers = <<h[1]>>
<1> USE DEF ChainInv, PollInv
<1>1. /\ MaxHeight \in Nat /\ setup.nodes \in Nat /\ 1 \in Nodes /\ epoch \in Nat
      /\ kind \in AllKinds
  BY SetupFacts
<1>2. h[1] \in Nat /\ top \in Nat /\ active \in Nat
  BY <1>1 DEF Sets
<1>3. h \in Seq(0..MaxHeight) /\ Len(h) = setup.nodes
  BY <1>1 DEF Nodes
<1>4. h \in Seq(Nat)
  BY <1>1, <1>3
<1>5. CASE kind \in {"epoch", "transition"} /\ epoch = 0
  BY <1>5 DEF Answers
<1>6. CASE kind \in {"orstall", "warmup"}
  <2>1. Answers = h
    BY <1>6 DEF Answers
  <2> QED BY <1>3, <1>4, <1>6, <2>1
<1>7. CASE kind = "transition" /\ phase = "settle" /\ epoch > 0
  <2>1. Answers = <<h[1], top, active>>
    BY <1>1, <1>7 DEF Answers
  <2> QED BY <1>2, <1>7, <2>1
<1>8. CASE /\ ~(kind \in {"epoch", "transition"} /\ epoch = 0)
           /\ kind \notin {"orstall", "warmup"}
           /\ ~(kind = "transition" /\ phase = "settle" /\ epoch > 0)
  <2>1. Answers = <<h[1]>>
    BY <1>1, <1>8 DEF Answers
  <2> QED BY <1>1, <1>2, <1>8, <2>1
<1> QED BY <1>1, <1>5, <1>6, <1>7, <1>8


-----------------------------------------------------------------------------
(***************************************************************************)
(* Steps: what no step changes, and the rounds of each kind of wait.       *)
(***************************************************************************)
LEMMA RoundOf ==
  ASSUME Round
  PROVE  /\ res = "running" /\ read' = <<>> /\ Complete
         /\ UNCHANGED <<chain, input, history>>
         /\ kind = "progress" => Progress
         /\ kind = "height" => UntilHeight
         /\ kind = "orstall" => OrStallFirst \/ OrStall
         /\ kind = "jail" => JailFirst \/ Jail
         /\ kind = "epoch" => EpochWait
         /\ kind = "transition" => UntilHeight \/ EpochWait \/ TransitionFirst \/ Settle
         /\ kind = "warmup" => Warmup
<1> USE DEF Finish, Sleep, Again, AgainUnlessLate, AgainUnlessStalled, Begin
<1>1. CASE Progress
  BY <1>1 DEF Round, Progress, Complete
<1>2. CASE UntilHeight
  BY <1>2 DEF Round, UntilHeight, Complete
<1>3. CASE OrStallFirst
  BY <1>3 DEF Round, OrStallFirst, Complete
<1>4. CASE OrStall
  BY <1>4 DEF Round, OrStall, Complete
<1>5. CASE JailFirst
  BY <1>5 DEF Round, JailFirst, Complete
<1>6. CASE Jail
  BY <1>6 DEF Round, Jail, Complete
<1>7. CASE EpochWait
  BY <1>7 DEF Round, EpochWait, Complete
<1>8. CASE TransitionFirst
  BY <1>8 DEF Round, TransitionFirst, Complete
<1>9. CASE Settle
  BY <1>9 DEF Round, Settle, Complete
<1>10. CASE Warmup
  BY <1>10 DEF Round, Warmup, Complete
<1> QED BY <1>1, <1>2, <1>3, <1>4, <1>5, <1>6, <1>7, <1>8, <1>9, <1>10 DEF Round

LEMMA Fixed ==
  ASSUME [Next]_vars
  PROVE  /\ setup' = setup /\ kind' = kind /\ epoch' = epoch /\ jailed' = jailed
         /\ Nodes' = Nodes /\ MaxHeight' = MaxHeight /\ Timeout' = Timeout /\ Stall' = Stall
         /\ Flaky' = Flaky /\ Steady' = Steady
<1>1. setup' = setup /\ kind' = kind /\ epoch' = epoch /\ jailed' = jailed
  <2>1. CASE Call
    BY <2>1 DEF Call, chain, input
  <2>2. CASE Round
    BY <2>2 DEF Round, chain, input
  <2>3. CASE \E n \in Nodes : Grow(n)
    BY <2>3 DEF Grow, input
  <2>4. CASE DropBlock
    BY <2>4 DEF DropBlock, input
  <2>5. CASE Restake
    BY <2>5 DEF Restake, input
  <2>6. CASE UNCHANGED vars
    BY <2>6 DEF vars, chain, input
  <2> QED BY <2>1, <2>2, <2>3, <2>4, <2>5, <2>6 DEF Next
<1> QED BY <1>1 DEF Nodes, MaxHeight, Timeout, Stall, Flaky, Steady

\* the heights of a wait's own round are not changed by the chain
LEMMA GrowOf ==
  ASSUME ChainInv, NEW n \in Nodes, Grow(n)
  PROVE  /\ h' = [h EXCEPT ![n] = h[n] + 1] /\ h' \in [Nodes -> 0..MaxHeight]
         /\ installed' \in 0..MaxHeight /\ active' \in Sets
         /\ n = 1 => h'[1] = h[1] + 1 /\ produced' = produced + 1 /\ quiet' = 0
         /\ n # 1 => UNCHANGED <<active, installed, produced, quiet>> /\ h'[1] = h[1]
         /\ n = 1 /\ EpochBlock(h[1] + 1) => installed' = h[1] + 1
         /\ ~(n = 1 /\ EpochBlock(h[1] + 1)) => installed' = installed
         /\ \A m \in Nodes : h[m] <= h'[m]
<1>1. MaxHeight \in Nat /\ 1 \in Nodes
  BY SetupFacts DEF ChainInv
<1>2. h[n] < MaxHeight /\ h' = [h EXCEPT ![n] = h[n] + 1] /\ h \in [Nodes -> 0..MaxHeight]
  BY DEF Grow, ChainInv
<1>3. h' \in [Nodes -> 0..MaxHeight] /\ h'[n] = h[n] + 1 /\ \A m \in Nodes \ {n} : h'[m] = h[m]
  BY <1>1, <1>2
<1>4. \A m \in Nodes : h[m] <= h'[m]
  BY <1>1, <1>2, <1>3
<1>5. n = 1 => h'[1] = h[1] + 1 /\ h'[1] \in 0..MaxHeight
  BY <1>3
<1>6. n # 1 => h'[1] = h[1]
  BY <1>1, <1>3
<1> QED BY <1>2, <1>3, <1>4, <1>5, <1>6 DEF Grow, ChainInv, EpochBlock


LEMMA CallOf ==
  ASSUME ChainInv, PollInv, ReadInv, Call
  PROVE  /\ res = "running" /\ Len(read) < Len(Answers)
         /\ UNCHANGED <<chain, input, loop, time, res, got, produced, quiet, drops>>
         /\ base' = (IF read = <<>> THEN h ELSE base) /\ base' \in [Nodes -> 0..MaxHeight]
         /\ best' \in 0..MaxHeight /\ best' >= best /\ \A n \in Nodes : base'[n] <= best'
         /\ best' > best => \E n \in Nodes : best' <= base'[n]
         /\ grown' = IF best' > best THEN time ELSE grown
         /\ \E answer : /\ read' = Append(read, answer)
                        /\ answer = Answers[Len(read) + 1] \/ (answer = Failed /\ Flaky)
         /\ read' # <<>> /\ read' \in Seq(Nat \cup {Failed}) /\ Len(read') = Len(read) + 1
         /\ \A i \in DOMAIN read : read'[i] = read[i]
         /\ read'[Len(read) + 1] = Answers[Len(read) + 1] \/ (read'[Len(read) + 1] = Failed /\ Flaky)
         /\ DOMAIN read' = 1..(Len(read) + 1) /\ DOMAIN read = 1..Len(read)
<1>1. MaxHeight \in Nat /\ 1 \in Nodes
  BY SetupFacts DEF ChainInv
<1>2. base' = (IF read = <<>> THEN h ELSE base) /\ base' \in [Nodes -> 0..MaxHeight]
  BY DEF Call, ChainInv
<1>3. PICK answer : /\ read' = Append(read, answer)
                    /\ answer = Answers[Len(read) + 1] \/ (answer = Failed /\ Flaky)
  <2>1. PICK answer \in {Answers[Len(read) + 1]} \cup (IF Flaky THEN {Failed} ELSE {}) :
          read' = Append(read, answer)
    BY DEF Call
  <2> QED BY <2>1
<1>4. answer \in Nat \cup {Failed}
  <2>1. Answers \in Seq(Nat) /\ Len(read) + 1 \in 1..Len(Answers)
    BY Asked DEF Call, ReadInv
  <2>2. Answers[Len(read) + 1] \in Nat
    BY <2>1
  <2> QED BY <1>3, <2>2
<1>5. read \in Seq(Nat \cup {Failed})
  BY DEF ReadInv
<1>6. /\ read' # <<>> /\ read' \in Seq(Nat \cup {Failed}) /\ Len(read') = Len(read) + 1
      /\ \A i \in DOMAIN read : read'[i] = read[i]
      /\ read'[Len(read) + 1] = answer
      /\ DOMAIN read' = 1..(Len(read) + 1) /\ DOMAIN read = 1..Len(read)
  BY <1>3, <1>4, <1>5
<1> DEFINE S == {best} \cup {base'[n] : n \in Nodes}
<1>7. best' = MaxOf(S) /\ (grown' = IF best' > best THEN time ELSE grown)
  BY DEF Call
<1>8. S \in SUBSET (0..MaxHeight) /\ S # {} /\ best \in S
  BY <1>2 DEF ChainInv
<1>9. best' \in S /\ \A x \in S : x <= best'
  <2>1. S \in SUBSET Int /\ MaxHeight \in Int /\ \A x \in S : x <= MaxHeight
    BY <1>1, <1>8
  <2> HIDE DEF S
  <2>2. MaxOf(S) \in S /\ \A y \in S : y <= MaxOf(S)
    BY <1>8, <2>1, LargestOf
  <2> QED BY <1>7, <2>2
<1>10. \A n \in Nodes : base'[n] \in S
  OBVIOUS
<1>11. best' \in 0..MaxHeight /\ best' >= best /\ \A n \in Nodes : base'[n] <= best'
  BY <1>1, <1>8, <1>9, <1>10
<1>12. best' > best => \E n \in Nodes : best' <= base'[n]
  <2> SUFFICES ASSUME best' > best PROVE \E n \in Nodes : best' <= base'[n]
    OBVIOUS
  <2>1. best \in Int /\ best' # best
    BY <1>8, <1>11 DEF ChainInv
  <2>2. PICK n \in Nodes : best' = base'[n]
    BY <1>9, <2>1
  <2>3. base'[n] \in Int
    BY <1>2, <2>2
  <2> QED BY <2>2, <2>3
<1> QED BY <1>2, <1>3, <1>6, <1>7, <1>11, <1>12 DEF Call

-----------------------------------------------------------------------------
(***************************************************************************)
(* Types.                                                                  *)
(***************************************************************************)
LEMMA ChainStep ==
  ASSUME ChainInv, PollInv, ReadInv, [Next]_vars
  PROVE  ChainInv'
<1>0. /\ setup' = setup /\ kind' = kind /\ epoch' = epoch /\ jailed' = jailed
      /\ Nodes' = Nodes /\ MaxHeight' = MaxHeight
  BY Fixed
<1>1. MaxHeight \in Nat /\ 1 \in Nodes /\ setup.drops \in Nat
  BY SetupFacts DEF ChainInv
<1>2. CASE Call
  <2>1. UNCHANGED <<chain, produced, quiet, drops>> /\ base' \in [Nodes -> 0..MaxHeight]
        /\ best' \in 0..MaxHeight /\ grown' = IF best' > best THEN time ELSE grown
    BY <1>2, CallOf
  <2>2. grown' \in Nat
    BY <2>1 DEF PollInv, ChainInv
  <2> QED BY <1>0, <2>1, <2>2 DEF ChainInv, chain
<1>3. CASE Round
  <2>1. UNCHANGED <<chain, input, history>>
    BY <1>3, RoundOf
  <2>2. quiet' \in Nat
    <3>1. quiet' = quiet \/ quiet' = quiet + 1 \/ quiet' = 0
      <4> USE DEF Finish, Again, AgainUnlessLate, AgainUnlessStalled, Sleep, Begin
      <4>1. CASE Progress
        BY <4>1 DEF Progress
      <4>2. CASE UntilHeight
        BY <4>2 DEF UntilHeight
      <4>3. CASE OrStallFirst
        BY <4>3 DEF OrStallFirst
      <4>4. CASE OrStall
        BY <4>4 DEF OrStall
      <4>5. CASE JailFirst
        BY <4>5 DEF JailFirst
      <4>6. CASE Jail
        BY <4>6 DEF Jail
      <4>7. CASE EpochWait
        BY <4>7 DEF EpochWait
      <4>8. CASE TransitionFirst
        BY <4>8 DEF TransitionFirst
      <4>9. CASE Settle
        BY <4>9 DEF Settle
      <4>10. CASE Warmup
        BY <4>10 DEF Warmup
      <4> QED BY <1>3, <4>1, <4>2, <4>3, <4>4, <4>5, <4>6, <4>7, <4>8, <4>9, <4>10 DEF Round
    <3> QED BY <3>1 DEF ChainInv
  <2> QED BY <1>0, <2>1, <2>2 DEF ChainInv, chain, history
<1>4. CASE \E n \in Nodes : Grow(n)
  <2> PICK n \in Nodes : Grow(n)
    BY <1>4
  <2>1. /\ h' \in [Nodes -> 0..MaxHeight] /\ installed' \in 0..MaxHeight /\ active' \in Sets
        /\ n = 1 => produced' = produced + 1 /\ quiet' = 0
        /\ n # 1 => UNCHANGED <<produced, quiet>>
    BY GrowOf
  <2>2. UNCHANGED <<top, base, best, grown, drops>>
    BY DEF Grow
  <2> QED BY <1>0, <2>1, <2>2 DEF ChainInv
<1>5. CASE DropBlock
  <2>1. h' = [h EXCEPT ![1] = h[1] - 1] /\ h[1] > 1 /\ h[1] \in 0..MaxHeight
    BY <1>1, <1>5 DEF DropBlock, ChainInv
  <2>2. h' \in [Nodes -> 0..MaxHeight]
    BY <1>1, <2>1 DEF ChainInv
  <2>3. drops' \in 0..setup.drops
    BY <1>1, <1>5 DEF DropBlock, ChainInv
  <2> QED BY <1>0, <1>5, <2>2, <2>3 DEF ChainInv, DropBlock
<1>6. CASE Restake
  BY <1>0, <1>6 DEF ChainInv, Restake, history
<1>7. CASE UNCHANGED vars
  BY <1>0, <1>7 DEF ChainInv, vars, chain, history
<1> QED BY <1>2, <1>3, <1>4, <1>5, <1>6, <1>7 DEF Next


LEMMA HighestOf ==
  ASSUME ChainInv, PollInv, ReadInv, kind \in {"orstall", "warmup"}
  PROVE  /\ Highest \in 0..MaxHeight
         /\ \A i \in DOMAIN read : read[i] <= Highest
         /\ Highest > 0 => \E i \in DOMAIN read : read[i] = Highest
<1>1. MaxHeight \in Nat
  BY SetupFacts DEF ChainInv
<1>2. /\ \A i \in DOMAIN read : read[i] \in Nat \cup {Failed} /\ read[i] <= MaxHeight
  BY DEF ReadInv
<1> DEFINE S == {0} \cup Answered
<1>3. S \in SUBSET (0..MaxHeight) /\ S # {}
  BY <1>1, <1>2 DEF Answered, Failed
<1>4. MaxOf(S) \in S /\ \A y \in S : y <= MaxOf(S)
  <2>1. S \in SUBSET Int /\ MaxHeight \in Int /\ \A x \in S : x <= MaxHeight
    BY <1>1, <1>3
  <2> HIDE DEF S
  <2> QED BY <1>3, <2>1, LargestOf
<1>5. Highest = MaxOf(S)
  BY DEF Highest
<1>6. Highest \in S /\ (\A y \in S : y <= Highest) /\ Highest \in 0..MaxHeight
  BY <1>3, <1>4, <1>5
<1>7. ASSUME NEW i \in DOMAIN read PROVE read[i] <= Highest
  <2>1. CASE read[i] = Failed
    BY <1>6, <2>1 DEF Failed
  <2>2. CASE read[i] # Failed
    BY <1>6, <2>2 DEF Answered
  <2> QED BY <2>1, <2>2
<1>8. Highest > 0 => \E i \in DOMAIN read : read[i] = Highest
  BY <1>1, <1>6 DEF Answered
<1> QED BY <1>6, <1>7, <1>8

LEMMA HeightOf ==
  ASSUME ChainInv, PollInv, ReadInv, Complete, kind \notin {"orstall", "warmup"},
         kind \in {"epoch", "transition"} => epoch > 0
  PROVE  /\ Height \in Nat \cup {Failed} /\ read # <<>> /\ 1 \in DOMAIN read
         /\ phase = "settle" => read[2] \in Nat \cup {Failed} /\ read[3] \in Nat \cup {Failed}
<1>1. Len(read) >= 1 /\ (phase = "settle" => Len(read) = 3)
  <2>1. kind \in AllKinds
    BY SetupFacts DEF ChainInv
  <2>2. epoch \in Nat
    BY SetupFacts DEF ChainInv
  <2>3. phase = "settle" => kind = "transition"
    BY DEF PollInv, Phases
  <2>4. Len(Answers) = IF phase = "settle" THEN 3 ELSE 1
    BY <2>1, <2>2, <2>3, Asked DEF AllKinds
  <2> QED BY <2>4 DEF Complete
<1>2. read \in Seq(Nat \cup {Failed})
  BY DEF ReadInv
<1> QED BY <1>1, <1>2 DEF Height

\* the ways in which a round may end
LEMMA AgainTyped ==
  ASSUME ChainInv, PollInv, res = "running", time < Timeout, Again
  PROVE  /\ time' = time + 1 /\ time' \in 0..Timeout /\ got' = got
         /\ res' \in {"running", "timeout"} /\ (res' = "running" => time' < Timeout)
         /\ res' = "running" <=> time + 1 < Timeout
<1>1. Timeout \in Nat /\ time \in Nat
  BY SetupFacts DEF ChainInv, PollInv
<1> QED BY <1>1 DEF Again, Sleep

LEMMA UnlessLateTyped ==
  ASSUME ChainInv, PollInv, res = "running", AgainUnlessLate
  PROVE  /\ time' \in time..(Timeout + 1) /\ got' \in Nat
         /\ res' \in {"running", "timeout"}
<1>1. Timeout \in Nat /\ time \in 0..(Timeout + 1) /\ got \in Nat
  BY SetupFacts DEF ChainInv, PollInv
<1> QED BY <1>1 DEF AgainUnlessLate, Sleep, Finish

LEMMA UnlessStalledTyped ==
  ASSUME ChainInv, PollInv, res = "running", time < Timeout,
         NEW progress \in 0..time, AgainUnlessStalled(progress)
  PROVE  \/ /\ time - progress >= Stall /\ time' = time /\ res' = "stalled" /\ got' = 0
            /\ quiet' = quiet
         \/ /\ time - progress < Stall /\ time' = time + 1 /\ time' \in 0..Timeout /\ got' = got
            /\ res' \in {"running", "timeout"} /\ (res' = "running" => time' < Timeout)
            /\ res' = "running" <=> time + 1 < Timeout
            /\ Sleep
<1>1. Stall \in Nat /\ time \in Nat
  BY SetupFacts DEF ChainInv, PollInv
<1>2. CASE Stalled(progress)
  BY <1>1, <1>2 DEF AgainUnlessStalled, Stalled, Finish
<1>3. CASE ~Stalled(progress)
  <2>1. Again
    BY <1>3 DEF AgainUnlessStalled
  <2> QED BY <1>1, <1>3, <2>1, AgainTyped DEF Stalled, Again
<1> QED BY <1>2, <1>3


LEMMA PollRound ==
  ASSUME ChainInv, PollInv, ReadInv, Round
  PROVE  PollInv'
<1> USE DEF Failed
<1>0. /\ setup' = setup /\ kind' = kind /\ epoch' = epoch /\ Timeout' = Timeout
      /\ res = "running" /\ Complete
  BY Fixed, RoundOf DEF Next
<1>1. /\ Timeout \in Nat /\ Stall \in Nat /\ Stall >= 1 /\ Stall <= Timeout /\ epoch \in Nat
      /\ kind \in AllKinds
  BY SetupFacts DEF ChainInv
<1>2. /\ goal \in Nat /\ phase \in Phases /\ last \in Nat /\ count \in Nat
      /\ since \in 0..time /\ time \in 0..(Timeout + 1) /\ got \in Nat
      /\ phase = "first" => time = 0 /\ since = 0
      /\ Prompt => time < Timeout
      /\ kind = "transition" /\ phase # "first" => epoch > 0
  BY <1>0 DEF PollInv
<1> USE DEF Phases, Prompt, Results
<1>3. CASE Progress
  <2>1. kind = "progress" /\ Height \in Nat \cup {Failed}
    BY <1>3, HeightOf DEF Progress
  <2>2. count' \in Nat /\ last' \in Nat /\ UNCHANGED <<goal, phase, since>>
    BY <1>2, <1>3, <2>1 DEF Progress, loop
  <2>3. Again \/ (Finish("ok", Height) /\ Height \in Nat)
    BY <1>3, <2>1 DEF Progress
  <2>4. time < Timeout
    BY <1>2, <2>1
  <2>5. CASE Again
    <3>1. time' = time + 1 /\ time' \in 0..Timeout /\ got' = got /\ res' \in {"running", "timeout"}
          /\ (res' = "running" => time' < Timeout)
      BY <1>0, <2>4, <2>5, AgainTyped
    <3> QED BY <1>0, <1>1, <1>2, <2>1, <2>2, <3>1 DEF PollInv
  <2>6. CASE Finish("ok", Height) /\ Height \in Nat
    BY <1>0, <1>1, <1>2, <2>1, <2>2, <2>6 DEF PollInv, Finish
  <2> QED BY <2>3, <2>5, <2>6
<1>4. CASE UntilHeight
  <2>1. kind \in {"height", "transition"} /\ (kind = "transition" => phase = "height" /\ epoch > 0)
        /\ Height \in Nat \cup {Failed}
    BY <1>2, <1>4, HeightOf DEF UntilHeight
  <2>2. CASE Height >= goal /\ kind = "height"
    BY <1>0, <1>1, <1>2, <1>4, <2>1, <2>2 DEF PollInv, Finish, UntilHeight, loop
  <2>3. CASE Height >= goal /\ kind # "height"
    <3>1. Begin("epoch") /\ goal' = goal
      BY <1>4, <2>3 DEF UntilHeight
    <3> QED BY <1>0, <1>1, <1>2, <2>1, <2>3, <3>1 DEF PollInv, Begin
  <2>4. CASE ~(Height >= goal)
    <3>1. AgainUnlessLate /\ UNCHANGED loop
      BY <1>4, <2>4 DEF UntilHeight
    <3>2. time' \in time..(Timeout + 1) /\ got' \in Nat /\ res' \in {"running", "timeout"}
      BY <1>0, <3>1, UnlessLateTyped
    <3> QED BY <1>0, <1>1, <1>2, <2>1, <3>1, <3>2 DEF PollInv, loop
  <2> QED BY <2>2, <2>3, <2>4
<1>5. CASE OrStallFirst
  <2>1. kind = "orstall" /\ phase = "first"
    BY <1>5 DEF OrStallFirst
  <2>2. Highest \in Nat
    BY <2>1, HighestOf
  <2> QED BY <1>0, <1>1, <1>2, <1>5, <2>1, <2>2 DEF PollInv, Finish, OrStallFirst, loop
<1>6. CASE OrStall
  <2>1. kind = "orstall" /\ phase = "loop" /\ UNCHANGED <<goal, phase, count>>
    BY <1>6 DEF OrStall
  <2>2. Highest \in Nat
    BY <2>1, HighestOf
  <2>3. CASE Highest >= goal
    BY <1>0, <1>1, <1>2, <1>6, <2>1, <2>2, <2>3 DEF PollInv, Finish, OrStall
  <2>4. CASE ~(Highest >= goal)
    <3>1. /\ last' = MaxOf({last, Highest}) /\ since' = (IF Highest > last THEN time ELSE since)
          /\ AgainUnlessStalled(since')
      BY <1>6, <2>4 DEF OrStall
    <3>2. last' \in Nat /\ since' \in 0..time /\ time < Timeout
      BY <1>2, <2>1, <2>2, <3>1, LargerOf
    <3>3. PICK progress \in 0..time : progress = since'
      BY <3>2
    <3>4. AgainUnlessStalled(progress)
      BY <3>1, <3>3
    <3>5. \/ time' = time /\ res' = "stalled" /\ got' = 0
          \/ /\ time' = time + 1 /\ time' \in 0..Timeout /\ got' = got
             /\ res' \in {"running", "timeout"} /\ (res' = "running" => time' < Timeout)
      BY <1>0, <3>2, <3>4, UnlessStalledTyped
    <3> QED BY <1>0, <1>1, <1>2, <2>1, <3>2, <3>5 DEF PollInv
  <2> QED BY <2>3, <2>4
<1>7. CASE JailFirst
  <2>1. kind = "jail" /\ phase = "first" /\ Height \in Nat \cup {Failed}
    BY <1>7, HeightOf DEF JailFirst
  <2> QED BY <1>0, <1>1, <1>2, <1>7, <2>1 DEF PollInv, Finish, JailFirst, loop
<1>8. CASE Jail
  <2>1. kind = "jail" /\ phase = "loop" /\ UNCHANGED <<goal, phase, count>>
        /\ Height \in Nat \cup {Failed}
    BY <1>8, HeightOf DEF Jail
  <2>2. /\ last' = MaxOf({last, Height}) /\ since' = (IF Height > last THEN time ELSE since)
        /\ \/ Finish("ok", Height) /\ Height >= From
           \/ Finish("missed", Height) /\ Height >= From
           \/ AgainUnlessStalled(since')
    BY <1>8, Zenon DEF Jail
  <2>3. last' \in Nat /\ since' \in 0..time /\ time < Timeout
    BY <1>2, <2>1, <2>2, LargerOf
  <2>4. CASE (Finish("ok", Height) \/ Finish("missed", Height)) /\ Height >= From
    <3>1. Height \in Nat
      BY <2>1, <2>4, ConstantFacts
    <3> QED BY <1>0, <1>1, <1>2, <2>1, <2>3, <2>4, <3>1 DEF PollInv, Finish
  <2>5. CASE AgainUnlessStalled(since')
    <3>3. PICK progress \in 0..time : progress = since'
      BY <2>3
    <3>4. AgainUnlessStalled(progress)
      BY <2>5, <3>3
    <3>5. \/ time' = time /\ res' = "stalled" /\ got' = 0
          \/ /\ time' = time + 1 /\ time' \in 0..Timeout /\ got' = got
             /\ res' \in {"running", "timeout"} /\ (res' = "running" => time' < Timeout)
      BY <1>0, <2>3, <3>4, UnlessStalledTyped
    <3> QED BY <1>0, <1>1, <1>2, <2>1, <2>3, <3>5 DEF PollInv
  <2> QED BY <2>2, <2>4, <2>5
<1>9. CASE EpochWait
  <2>1. kind \in {"epoch", "transition"} /\ (kind = "transition" => phase = "epoch" /\ epoch > 0)
        /\ time < Timeout
    BY <1>2, <1>9 DEF EpochWait
  <2>2. CASE epoch = 0
    <3>1. kind = "epoch" /\ Finish("ok", 0) /\ UNCHANGED loop
      BY <1>9, <2>1, <2>2 DEF EpochWait
    <3> QED BY <1>0, <1>1, <1>2, <3>1 DEF PollInv, Finish, loop
  <2>3. CASE epoch > 0
    <3>1. Height \in Nat \cup {Failed}
      BY <1>0, <1>1, <2>1, <2>3, HeightOf
    <3>2. CASE Height = Failed
      <4>1. Again /\ UNCHANGED loop
        BY <1>9, <2>3, <3>2 DEF EpochWait
      <4>2. time' = time + 1 /\ time' \in 0..Timeout /\ got' = got /\ res' \in {"running", "timeout"}
            /\ (res' = "running" => time' < Timeout)
        BY <1>0, <2>1, <4>1, AgainTyped
      <4> QED BY <1>0, <1>1, <1>2, <2>1, <4>1, <4>2 DEF PollInv, loop
    <3>3. CASE Height # Failed /\ Safe(Height) /\ kind = "epoch"
      <4>1. Finish("ok", Height) /\ UNCHANGED loop
        BY <1>9, <2>3, <3>3 DEF EpochWait
      <4> QED BY <1>0, <1>1, <1>2, <3>1, <3>3, <4>1 DEF PollInv, Finish, loop
    <3>4. CASE Height # Failed /\ Safe(Height) /\ kind # "epoch"
      <4>1. Begin("settle") /\ goal' = goal
        BY <1>9, <2>3, <3>4 DEF EpochWait
      <4> QED BY <1>0, <1>1, <1>2, <2>1, <3>4, <4>1 DEF PollInv, Begin
    <3>5. CASE Height # Failed /\ ~Safe(Height)
      <4>1. /\ last' = Height /\ since' = (IF Height # last THEN time ELSE since)
            /\ AgainUnlessStalled(since') /\ UNCHANGED <<goal, phase, count>>
        BY <1>9, <2>3, <3>5 DEF EpochWait
      <4>2. last' \in Nat /\ since' \in 0..time
        BY <1>2, <3>1, <3>5, <4>1
      <4>3. PICK progress \in 0..time : progress = since'
        BY <4>2
      <4>4. AgainUnlessStalled(progress)
        BY <4>1, <4>3
      <4>5. \/ time' = time /\ res' = "stalled" /\ got' = 0
            \/ /\ time' = time + 1 /\ time' \in 0..Timeout /\ got' = got
               /\ res' \in {"running", "timeout"} /\ (res' = "running" => time' < Timeout)
        BY <1>0, <2>1, <4>4, UnlessStalledTyped
      <4> QED BY <1>0, <1>1, <1>2, <2>1, <4>1, <4>2, <4>5 DEF PollInv
    <3> QED BY <3>2, <3>3, <3>4, <3>5
  <2> QED BY <1>1, <2>2, <2>3
<1>10. CASE TransitionFirst
  <2>1. kind = "transition" /\ phase = "first"
    BY <1>10 DEF TransitionFirst
  <2>2. CASE epoch = 0 \/ Height = Failed
    BY <1>0, <1>1, <1>2, <1>10, <2>1, <2>2 DEF PollInv, Finish, TransitionFirst, loop
  <2>3. CASE epoch # 0 /\ Height # Failed
    <3>1. Begin("height") /\ goal' = ((Height \div epoch) + 1) * epoch
      BY <1>10, <2>3 DEF TransitionFirst
    <3>2. Height \in Nat /\ epoch \in Nat \ {0}
      BY <1>0, <1>1, <2>1, <2>3, HeightOf
    <3>3. goal' \in Nat
      BY <3>1, <3>2, NextMultiple
    <3> QED BY <1>0, <1>1, <1>2, <2>1, <3>1, <3>2, <3>3 DEF PollInv, Begin
  <2> QED BY <2>2, <2>3
<1>11. CASE Settle
  <2>1. kind = "transition" /\ phase = "settle" /\ UNCHANGED loop
    BY <1>11 DEF Settle
  <2>2. Height \in Nat \cup {Failed} /\ 1 \in DOMAIN read
    BY <1>0, <1>1, <1>2, <2>1, HeightOf
  <2>3. \/ Finish("ok", Height) /\ Height \in Nat
        \/ AgainUnlessLate
    BY <1>11, <2>2 DEF Settle, Height
  <2>4. CASE Finish("ok", Height) /\ Height \in Nat
    BY <1>0, <1>1, <1>2, <2>1, <2>4 DEF PollInv, Finish, loop
  <2>5. CASE AgainUnlessLate
    <3>1. time' \in time..(Timeout + 1) /\ got' \in Nat /\ res' \in {"running", "timeout"}
      BY <1>0, <2>5, UnlessLateTyped
    <3> QED BY <1>0, <1>1, <1>2, <2>1, <3>1 DEF PollInv, loop
  <2> QED BY <2>3, <2>4, <2>5
<1>12. CASE Warmup
  <2>1. kind = "warmup" /\ UNCHANGED <<goal, phase, last, since>>
    BY <1>12 DEF Warmup
  <2>2. PICK near \in BOOLEAN, n \in {0, count + 1} :
          /\ near => /\ \A i \in DOMAIN read : read[i] # Failed
                     /\ MinOf(Answered) > 0
          /\ n > 0 => near
          /\ count' = n
          /\ IF n >= Streak THEN Finish("ok", MinOf(Answered)) ELSE AgainUnlessLate
    <3> DEFINE all == \A i \in DOMAIN read : read[i] # Failed
               near == all /\ MinOf(Answered) > 0 /\ MaxOf(Answered) - MinOf(Answered) <= Lag
               n == IF near THEN count + 1 ELSE 0
    <3>1. count' = n /\ IF n >= Streak THEN Finish("ok", MinOf(Answered)) ELSE AgainUnlessLate
      BY <1>12 DEF Warmup
    <3>2. near \in BOOLEAN /\ n \in {0, count + 1} /\ (n > 0 => near)
          /\ (near => /\ \A i \in DOMAIN read : read[i] # Failed
                      /\ MinOf(Answered) > 0)
      BY <1>2
    <3> HIDE DEF near, n
    <3> QED BY <3>1, <3>2
  <2>3. count' \in Nat
    BY <1>2, <2>2
  <2>4. CASE n >= Streak
    <3>1. Finish("ok", MinOf(Answered)) /\ \A i \in DOMAIN read : read[i] # Failed
      BY <2>2, <2>4, ConstantFacts
    <3>2. Answered \in SUBSET Nat /\ Answered # {}
      <4>1. \A i \in DOMAIN read : read[i] \in Nat
        BY <3>1 DEF ReadInv
      <4>2. Len(read) = setup.nodes /\ setup.nodes \in Nat /\ setup.nodes >= 1
        BY <1>0, <2>1, Asked, SetupFacts DEF ChainInv, Complete
      <4>3. 1 \in DOMAIN read
        BY <4>2 DEF ReadInv
      <4> QED BY <3>1, <4>1, <4>3 DEF Answered
    <3>3. MinOf(Answered) \in Nat
      BY <3>2, LeastOf
    <3> QED BY <1>0, <1>1, <1>2, <2>1, <2>3, <3>1, <3>3 DEF PollInv, Finish
  <2>5. CASE ~(n >= Streak)
    <3>1. AgainUnlessLate
      BY <2>2, <2>5
    <3>2. time' \in time..(Timeout + 1) /\ got' \in Nat /\ res' \in {"running", "timeout"}
      BY <1>0, <3>1, UnlessLateTyped
    <3> QED BY <1>0, <1>1, <1>2, <2>1, <2>3, <3>2 DEF PollInv
  <2> QED BY <2>4, <2>5
<1> QED BY <1>3, <1>4, <1>5, <1>6, <1>7, <1>8, <1>9, <1>10, <1>11, <1>12 DEF Round


\* how many calls a round makes
Calls ==
  IF kind \in {"epoch", "transition"} /\ epoch = 0 THEN 0
  ELSE IF kind \in {"orstall", "warmup"} THEN setup.nodes
  ELSE IF kind = "transition" /\ phase = "settle" THEN 3 ELSE 1

LEMMA AskedLength == ChainInv /\ PollInv => Len(Answers) = Calls /\ Calls \in Nat
<1> SUFFICES ASSUME ChainInv, PollInv PROVE Len(Answers) = Calls /\ Calls \in Nat
  OBVIOUS
<1>1. kind \in AllKinds /\ epoch \in Nat /\ setup.nodes \in Nat
  BY SetupFacts DEF ChainInv
<1>2. phase = "settle" => kind = "transition"
  BY DEF PollInv, Phases
<1> QED BY <1>1, <1>2, Asked DEF Calls, AllKinds

LEMMA TypedStep ==
  ASSUME Typed, [Next]_vars
  PROVE  Typed'
<1> USE DEF Typed
<1>0. /\ setup' = setup /\ kind' = kind /\ epoch' = epoch /\ jailed' = jailed
      /\ Nodes' = Nodes /\ MaxHeight' = MaxHeight /\ Timeout' = Timeout /\ Flaky' = Flaky
  BY Fixed
<1>1. ChainInv'
  BY ChainStep
<1>2. CASE Round
  <2>1. PollInv'
    BY <1>2, PollRound
  <2>2. (ChainInv /\ PollInv => Len(Answers) = Calls /\ Calls \in Nat)'
    BY AskedLength, PTL
  <2>3. read' = <<>>
    BY <1>2, RoundOf
  <2> QED BY <1>0, <1>1, <2>1, <2>2, <2>3 DEF ReadInv
<1>3. CASE UNCHANGED <<loop, time, res, got>>
  <2>1. PollInv'
    BY <1>0, <1>3 DEF PollInv, Phases, Prompt, loop
  <2>2. (ChainInv /\ PollInv => Len(Answers) = Calls /\ Calls \in Nat)'
    BY AskedLength, PTL
  <2>3. Len(Answers') = Len(Answers)
    BY <1>0, <1>1, <1>3, <2>1, <2>2, AskedLength DEF Calls, loop
  <2>4. CASE UNCHANGED read
    BY <1>0, <1>1, <1>3, <2>1, <2>3, <2>4 DEF ReadInv
  <2>5. CASE Call
    <3>1. /\ res = "running" /\ Len(read) < Len(Answers) /\ read' \in Seq(Nat \cup {Failed})
          /\ Len(read') = Len(read) + 1 /\ \A i \in DOMAIN read : read'[i] = read[i]
          /\ read'[Len(read) + 1] = Answers[Len(read) + 1] \/ (read'[Len(read) + 1] = Failed /\ Flaky)
          /\ DOMAIN read' = 1..(Len(read) + 1) /\ DOMAIN read = 1..Len(read)
      BY <2>5, CallOf
    <3>2. Len(read) \in Nat /\ Answers \in Seq(Nat)
      BY Asked DEF ReadInv
    <3>3. \A i \in DOMAIN read' : i \in DOMAIN read \/ i = Len(read) + 1
      BY <3>1, <3>2
    <3>4. Len(read') <= Len(Answers')
      BY <2>3, <3>1, <3>2
    <3>5. kind \in {"orstall", "warmup"} => \A i \in DOMAIN read' : read'[i] <= MaxHeight
      <4> SUFFICES ASSUME kind \in {"orstall", "warmup"} PROVE \A i \in DOMAIN read' : read'[i] <= MaxHeight
        OBVIOUS
      <4>1. Answers = h /\ h \in Seq(0..MaxHeight) /\ Len(Answers) = setup.nodes
        BY Asked
      <4>2. Answers[Len(read) + 1] \in 0..MaxHeight
        <5>1. Len(h) \in Nat /\ Len(read) + 1 \in 1..Len(h)
          BY <3>1, <3>2, <4>1
        <5>2. \A k \in 1..Len(h) : h[k] \in 0..MaxHeight
          BY <4>1, ElementOfSeq
        <5> QED BY <4>1, <5>1, <5>2
      <4>3. MaxHeight \in Nat
        BY SetupFacts DEF ChainInv
      <4>4. read'[Len(read) + 1] <= MaxHeight
        BY <3>1, <4>2, <4>3 DEF Failed
      <4>5. \A i \in DOMAIN read : read'[i] <= MaxHeight
        BY <3>1 DEF ReadInv
      <4> QED BY <3>3, <4>4, <4>5
    <3>6. Failed \in {read'[i] : i \in DOMAIN read'} => Flaky
      <4> SUFFICES ASSUME NEW i \in DOMAIN read', read'[i] = Failed PROVE Flaky
        OBVIOUS
      <4>1. CASE i \in DOMAIN read
        BY <3>1, <4>1 DEF ReadInv
      <4>2. CASE i = Len(read) + 1
        <5>1. Answers[Len(read) + 1] \in Nat
          BY <3>1, <3>2
        <5> QED BY <3>1, <4>2, <5>1 DEF Failed
      <4> QED BY <3>3, <4>1, <4>2
    <3> QED BY <1>0, <1>1, <1>3, <2>1, <3>1, <3>4, <3>5, <3>6 DEF ReadInv
  <2>6. UNCHANGED read \/ Call \/ Round
    BY DEF Next, Grow, DropBlock, Restake, vars
  <2> QED BY <1>2, <2>4, <2>5, <2>6
<1>4. Round \/ UNCHANGED <<loop, time, res, got>>
  BY DEF Next, Call, Grow, DropBlock, Restake, vars
<1> QED BY <1>2, <1>3, <1>4

LEMMA TypedSays == Typed => TypeOK
<1> SUFFICES ASSUME Typed PROVE TypeOK
  OBVIOUS
<1>1. Timeout \in Nat
  BY SetupFacts DEF Typed, ChainInv
<1> QED BY <1>1 DEF Typed, ChainInv, PollInv, ReadInv, TypeOK, Phases, Results


LEMMA OneCall ==
  ASSUME Typed, Call, Answers = <<h[1]>>
  PROVE  /\ read = <<>> /\ read' # <<>> /\ res = "running" /\ DOMAIN read' = {1}
         /\ Height' = h[1] \/ (Height' = Failed /\ Flaky)
<1>1. /\ res = "running" /\ Len(read) < Len(Answers) /\ read' # <<>>
      /\ read'[Len(read) + 1] = Answers[Len(read) + 1] \/ (read'[Len(read) + 1] = Failed /\ Flaky)
      /\ DOMAIN read' = 1..(Len(read) + 1)
  BY CallOf DEF Typed
<1>2. read \in Seq(Nat \cup {Failed}) /\ Len(read) \in Nat /\ Len(Answers) = 1
  BY DEF Typed, ReadInv
<1>3. Len(read) = 0
  BY <1>1, <1>2
<1>4. read = <<>>
  BY <1>2, <1>3
<1> QED BY <1>1, <1>3, <1>4 DEF Height

-----------------------------------------------------------------------------
(***************************************************************************)
(* The wait for progress: every increment is a block that was made.        *)
(***************************************************************************)
LEMMA ProgressStep ==
  ASSUME Typed, kind = "progress", ProgressInv, [Next]_vars
  PROVE  ProgressInv'
<1> USE DEF Failed, Up
<1>0. Answers = <<h[1]>> /\ (Complete => Height \in Nat \cup {Failed} /\ read # <<>>)
  BY Asked, HeightOf DEF Typed
<1>1. /\ h[1] \in Nat /\ 1 \in Nodes /\ produced \in Nat /\ last \in Nat /\ count \in Nat
      /\ h \in [Nodes -> 0..MaxHeight] /\ MaxHeight \in Nat
      /\ Need \in Nat /\ (res # "running" => read = <<>>)
  <2>1. 1 \in Nodes /\ MaxHeight \in Nat
    BY SetupFacts DEF Typed, ChainInv
  <2> QED BY <2>1, ConstantFacts DEF Typed, ChainInv, PollInv, ReadInv
<1>2. read # <<>> => Height \in Nat \cup {Failed}
  BY DEF Typed, ReadInv, Height
<1>3. CASE Call
  <2>1. /\ read = <<>> /\ read' # <<>> /\ res = "running"
        /\ Height' = h[1] \/ (Height' = Failed /\ Flaky)
    BY <1>0, <1>3, OneCall
  <2>2. UNCHANGED <<h, last, count, res, produced>>
    BY <1>3 DEF Call, chain, loop
  <2> QED BY <1>1, <2>1, <2>2 DEF ProgressInv
<1>4. CASE Round
  <2>1. Progress /\ read' = <<>> /\ h' = h /\ produced' = produced /\ res = "running" /\ Complete
    BY <1>4, RoundOf DEF chain, history
  <2>2. read # <<>> /\ Height \in Nat \cup {Failed}
    BY <1>0, <2>1
  <2>3. CASE Height = Failed
    <3>1. Again /\ UNCHANGED loop
      BY <2>1, <2>3 DEF Progress
    <3>2. res' \in {"running", "timeout"} /\ UNCHANGED <<last, count>>
      BY <2>1, <3>1 DEF Again, loop
    <3> QED BY <1>1, <2>1, <2>2, <2>3, <3>2 DEF ProgressInv
  <2>4. CASE Height # Failed
    <3>1. /\ count' = (IF last # 0 /\ Height > last THEN count + 1 ELSE count) /\ last' = Height
          /\ IF count' >= Need THEN Finish("ok", Height) ELSE Again
      BY <2>1, <2>4 DEF Progress
    <3>2. Height \in Nat
      BY <2>2, <2>4
    <3>3. /\ last' = 0 => count' = 0
          /\ last' > 0 => h[1] > 0
          /\ count' + Up(h[1] - last') <= produced
      BY <1>1, <2>1, <2>2, <2>4, <3>1, <3>2 DEF ProgressInv
    <3>4. count' <= produced
      BY <1>1, <3>1, <3>2, <3>3
    <3>5. res' = "ok" => count' >= Need
      BY <2>1, <3>1 DEF Again, Finish
    <3>6. produced >= Need \/ res' # "ok"
      BY <1>1, <3>1, <3>4, <3>5
    <3> QED BY <2>1, <3>3, <3>6 DEF ProgressInv
  <2> QED BY <2>3, <2>4
<1>5. ASSUME NEW n \in Nodes, Grow(n) PROVE ProgressInv'
  <2>1. /\ n = 1 => h'[1] = h[1] + 1 /\ produced' = produced + 1
        /\ n # 1 => produced' = produced /\ h'[1] = h[1]
    BY <1>5, GrowOf DEF Typed
  <2>2. UNCHANGED <<read, last, count, res>> /\ res = "running" /\ Height' = Height
    BY <1>5 DEF Grow, loop, Height
  <2>3. CASE n # 1
    BY <2>1, <2>2, <2>3 DEF ProgressInv
  <2>4. CASE n = 1 /\ (read = <<>> \/ Height = Failed)
    BY <1>1, <2>1, <2>2, <2>4 DEF ProgressInv
  <2>5. CASE n = 1 /\ ~(read = <<>> \/ Height = Failed)
    <3>1. Height \in Nat
      BY <1>2, <2>5
    <3> QED BY <1>1, <2>1, <2>2, <2>5, <3>1 DEF ProgressInv
  <2> QED BY <2>3, <2>4, <2>5
<1>6. CASE DropBlock
  <2>1. h'[1] = h[1] - 1 /\ h[1] > 1
    BY <1>1, <1>6 DEF DropBlock
  <2>2. UNCHANGED <<read, last, count, res, produced>> /\ res = "running" /\ Height' = Height
    BY <1>6 DEF DropBlock, loop, Height
  <2>3. CASE read = <<>> \/ Height = Failed
    BY <1>1, <2>1, <2>2, <2>3 DEF ProgressInv
  <2>4. CASE ~(read = <<>> \/ Height = Failed)
    <3>1. Height \in Nat
      BY <1>2, <2>4
    <3> QED BY <1>1, <2>1, <2>2, <2>4, <3>1 DEF ProgressInv
  <2> QED BY <2>3, <2>4
<1>7. CASE Restake
  BY <1>7 DEF Restake
<1>8. CASE UNCHANGED vars
  BY <1>8 DEF vars, chain, loop, history, ProgressInv, Height
<1> QED BY <1>3, <1>4, <1>5, <1>6, <1>7, <1>8 DEF Next


-----------------------------------------------------------------------------
(***************************************************************************)
(* The wait for an epoch transition: the epoch block that it waits for is  *)
(* one that comes after the first reading, so it is installed when the     *)
(* chain gets there.                                                       *)
(***************************************************************************)
LEMMA TransitionStep ==
  ASSUME Typed, kind = "transition", TransitionInv, [Next]_vars
  PROVE  TransitionInv'
<1> USE DEF Failed
<1>0. /\ setup' = setup /\ kind' = kind /\ epoch' = epoch
  BY Fixed
<1>1. /\ h[1] \in Nat /\ 1 \in Nodes /\ installed \in Nat /\ epoch \in Nat /\ goal \in Nat
      /\ h \in [Nodes -> 0..MaxHeight] /\ MaxHeight \in Nat
      /\ phase \in {"first", "height", "epoch", "settle"} /\ (phase # "first" => epoch > 0)
      /\ (res # "running" => read = <<>>)
  <2>1. 1 \in Nodes /\ MaxHeight \in Nat /\ epoch \in Nat
    BY SetupFacts DEF Typed, ChainInv
  <2> QED BY <2>1 DEF Typed, ChainInv, PollInv, ReadInv, Phases
<1>2. read # <<>> => Height \in Nat \cup {Failed}
  BY DEF Typed, ReadInv, Height
<1>3. CASE Call
  <2>1. /\ read' # <<>> /\ res = "running"
        /\ Height' = Failed \/ Height' = h[1] \/ (read # <<>> /\ Height' = Height)
    <3>1. CASE epoch = 0
      <4>1. Len(Answers) = 0 /\ Len(read) \in Nat
        BY <3>1, Asked DEF Typed, ReadInv
      <4> QED BY <1>3, <4>1, CallOf DEF Typed
    <3>2. CASE epoch > 0 /\ phase # "settle"
      <4>1. Answers = <<h[1]>>
        BY <3>2, Asked DEF Typed
      <4> QED BY <1>3, <4>1, OneCall
    <3>3. CASE epoch > 0 /\ phase = "settle"
      <4>1. Answers = <<h[1], top, active>> /\ Answers[1] = h[1]
        BY <3>3, Asked DEF Typed
      <4>2. /\ res = "running" /\ read' # <<>>
            /\ \A i \in DOMAIN read : read'[i] = read[i]
            /\ read'[Len(read) + 1] = Answers[Len(read) + 1] \/ (read'[Len(read) + 1] = Failed /\ Flaky)
            /\ DOMAIN read = 1..Len(read)
        BY <1>3, CallOf DEF Typed
      <4>3. read \in Seq(Nat \cup {Failed})
        BY DEF Typed, ReadInv
      <4>4. CASE read = <<>>
        <5>1. Len(read) + 1 = 1
          BY <4>4
        <5> QED BY <4>1, <4>2, <5>1 DEF Height
      <4>5. CASE read # <<>>
        <5>1. 1 \in DOMAIN read
          BY <4>3, <4>5
        <5> QED BY <4>2, <4>5, <5>1 DEF Height
      <4> QED BY <4>4, <4>5
    <3> QED BY <1>1, <3>1, <3>2, <3>3
  <2>2. UNCHANGED <<h, installed, phase, goal, res, got>>
    BY <1>3 DEF Call, chain, loop
  <2>3. CASE phase = "first"
    <3>1. Height' # Failed => /\ Height' <= h[1]
                             /\ \A m \in (Height' + 1)..h[1] : EpochBlock(m) => installed >= m
      <4>1. CASE Height' = h[1]
        <5>1. (h[1] + 1)..h[1] = {} /\ h[1] <= h[1]
          BY <1>1
        <5> QED BY <4>1, <5>1
      <4>2. CASE read # <<>> /\ Height' = Height
        BY <2>3, <4>2 DEF TransitionInv
      <4> QED BY <2>1, <4>1, <4>2
    <3> QED BY <1>0, <2>1, <2>2, <2>3, <3>1 DEF TransitionInv, EpochBlock
  <2>4. CASE phase # "first"
    <3>1. Height' <= h[1]
      BY <1>1, <2>1, <2>4 DEF TransitionInv
    <3>2. phase \in {"epoch", "settle"} /\ Height' # Failed => Height' >= goal
      BY <1>1, <2>1, <2>4 DEF TransitionInv
    <3> QED BY <1>0, <2>1, <2>2, <2>4, <3>1, <3>2 DEF TransitionInv, EpochBlock
  <2> QED BY <2>3, <2>4
<1>4. CASE Round
  <2>1. /\ UntilHeight \/ EpochWait \/ TransitionFirst \/ Settle
        /\ read' = <<>> /\ res = "running" /\ Complete
        /\ UNCHANGED <<h, installed>>
    BY <1>4, RoundOf DEF chain
  <2>2. phase # "first" => /\ Height \in Nat \cup {Failed} /\ read # <<>>
    BY <1>1, <2>1, HeightOf DEF Typed
  <2>3. CASE UntilHeight
    <3>1. phase = "height"
      BY <2>3 DEF UntilHeight
    <3>2. CASE Height >= goal
      <4>1. phase' = "epoch" /\ goal' = goal /\ res' = res
        BY <2>3, <3>2 DEF UntilHeight, Begin
      <4>2. h[1] >= goal
        BY <1>1, <2>2, <3>1, <3>2 DEF TransitionInv
      <4> QED BY <1>0, <2>1, <3>1, <4>1, <4>2 DEF TransitionInv, EpochBlock
    <3>3. CASE ~(Height >= goal)
      <4>1. UNCHANGED <<phase, goal>> /\ res' # "ok"
        BY <2>1, <2>3, <3>3 DEF UntilHeight, AgainUnlessLate, Finish, Sleep, loop
      <4> QED BY <1>0, <2>1, <3>1, <4>1 DEF TransitionInv, EpochBlock
    <3> QED BY <3>2, <3>3
  <2>4. CASE EpochWait
    <3>1. phase = "epoch" /\ epoch > 0
      BY <1>1, <2>4 DEF EpochWait
    <3>2. goal' = goal /\ phase' \in {"epoch", "settle"} /\ res' # "ok"
      <4> USE DEF Begin, Again, AgainUnlessStalled, Sleep, Finish, loop
      <4>1. \/ Again /\ UNCHANGED loop
            \/ Begin("settle") /\ UNCHANGED goal
            \/ \E x \in {IF Height # last THEN time ELSE since} :
                 AgainUnlessStalled(x) /\ UNCHANGED <<goal, phase, count>>
        BY <2>4, <3>1 DEF EpochWait
      <4>2. CASE Again /\ UNCHANGED loop
        BY <2>1, <3>1, <4>2
      <4>3. CASE Begin("settle") /\ UNCHANGED goal
        BY <2>1, <3>1, <4>3
      <4>4. ASSUME NEW x, AgainUnlessStalled(x), UNCHANGED <<goal, phase, count>>
            PROVE  goal' = goal /\ phase' \in {"epoch", "settle"} /\ res' # "ok"
        BY <2>1, <3>1, <4>4
      <4> QED BY <4>1, <4>2, <4>3, <4>4
    <3> QED BY <1>0, <2>1, <3>1, <3>2 DEF TransitionInv, EpochBlock
  <2>5. CASE TransitionFirst
    <3>1. phase = "first"
      BY <2>5 DEF TransitionFirst
    <3>2. CASE epoch = 0 \/ Height = Failed
      <4>1. phase' = phase /\ res' # "ok"
        BY <2>5, <3>2 DEF TransitionFirst, Finish, loop
      <4> QED BY <2>1, <3>1, <4>1 DEF TransitionInv
    <3>3. CASE epoch # 0 /\ Height # Failed
      <4>1. goal' = ((Height \div epoch) + 1) * epoch /\ phase' = "height" /\ res' = res
        BY <2>5, <3>3 DEF TransitionFirst, Begin
      <4>2. read # <<>> /\ Height \in Nat /\ epoch \in Nat \ {0}
        BY <1>1, <2>1, <3>1, <3>3, HeightOf DEF Typed
      <4>3. goal' \in Nat /\ Height < goal' /\ goal' % epoch = 0
        BY <4>1, <4>2, NextMultiple
      <4>4. goal' > 0 /\ EpochBlock(goal')
        <5>1. goal' > 0
          BY <4>2, <4>3
        <5>2. epoch > 0
          BY <4>2
        <5> QED BY <4>3, <5>1, <5>2 DEF EpochBlock
      <4>5. h[1] >= goal' => installed >= goal'
        <5> SUFFICES ASSUME h[1] >= goal' PROVE installed >= goal'
          OBVIOUS
        <5>1. goal' \in (Height + 1)..h[1]
          BY <1>1, <4>2, <4>3
        <5> QED BY <3>1, <3>3, <4>2, <4>4, <5>1 DEF TransitionInv
      <4> QED BY <1>0, <2>1, <4>1, <4>4, <4>5 DEF TransitionInv, EpochBlock
    <3> QED BY <3>2, <3>3
  <2>6. CASE Settle
    <3>1. phase = "settle" /\ UNCHANGED <<goal, phase>>
      BY <2>6 DEF Settle, loop
    <3>2. h[1] >= goal /\ goal > 0 /\ installed >= goal /\ EpochBlock(goal)
      BY <3>1 DEF TransitionInv
    <3>3. CASE Failed \notin {read[i] : i \in DOMAIN read} /\ read[2] = read[3]
      <4>1. res' = "ok" /\ got' = Height
        BY <2>6, <3>3 DEF Settle, Finish
      <4>2. 1 \in DOMAIN read
        BY <1>1, <2>1, <3>1, HeightOf DEF Typed
      <4>3. Height # Failed
        BY <3>3, <4>2 DEF Height
      <4>4. Height >= goal
        BY <2>2, <3>1, <4>3 DEF TransitionInv
      <4> QED BY <1>0, <1>1, <2>1, <3>1, <3>2, <4>1, <4>4 DEF TransitionInv, EpochBlock
    <3>4. CASE ~(Failed \notin {read[i] : i \in DOMAIN read} /\ read[2] = read[3])
      <4>1. res' # "ok"
        BY <2>1, <2>6, <3>4 DEF Settle, AgainUnlessLate, Sleep, Finish
      <4> QED BY <1>0, <2>1, <3>1, <3>2, <4>1 DEF TransitionInv, EpochBlock
    <3> QED BY <3>3, <3>4
  <2> QED BY <2>1, <2>3, <2>4, <2>5, <2>6
<1>5. ASSUME NEW n \in Nodes, Grow(n) PROVE TransitionInv'
  <2>1. /\ n = 1 => h'[1] = h[1] + 1
        /\ n # 1 => installed' = installed /\ h'[1] = h[1]
        /\ n = 1 /\ EpochBlock(h[1] + 1) => installed' = h[1] + 1
        /\ ~(n = 1 /\ EpochBlock(h[1] + 1)) => installed' = installed
    BY <1>5, GrowOf DEF Typed
  <2>2. UNCHANGED <<read, phase, goal, res, got>> /\ res = "running" /\ Height' = Height
    BY <1>5 DEF Grow, loop, Height
  <2>3. CASE n # 1
    BY <1>0, <2>1, <2>2, <2>3 DEF TransitionInv, EpochBlock
  <2>4. CASE n = 1
    <3>1. ASSUME phase = "first", read # <<>>, Height # Failed
          PROVE  /\ Height <= h'[1]
                 /\ \A m \in (Height + 1)..h'[1] : EpochBlock(m) => installed' >= m
      <4>1. Height \in Nat /\ Height <= h[1]
        BY <1>2, <3>1 DEF TransitionInv
      <4>2. ASSUME NEW m \in (Height + 1)..h'[1], EpochBlock(m) PROVE installed' >= m
        <5>1. CASE EpochBlock(h[1] + 1)
          BY <1>1, <2>1, <2>4, <4>1, <5>1
        <5>2. CASE ~EpochBlock(h[1] + 1)
          <6>1. m # h[1] + 1
            BY <4>2, <5>2
          <6>2. m \in (Height + 1)..h[1]
            BY <1>1, <2>1, <2>4, <4>1, <6>1
          <6> QED BY <2>1, <3>1, <4>2, <5>2, <6>2 DEF TransitionInv
        <5> QED BY <5>1, <5>2
      <4> QED BY <1>1, <2>1, <2>4, <4>1, <4>2
    <3>2. ASSUME phase # "first"
          PROVE  /\ goal > 0 /\ EpochBlock(goal)
                 /\ h'[1] >= goal => installed' >= goal
                 /\ read # <<>> => Height <= h'[1]
      <4>1. goal > 0 /\ EpochBlock(goal) /\ (h[1] >= goal => installed >= goal)
            /\ (read # <<>> => Height <= h[1])
        BY <3>2 DEF TransitionInv
      <4>2. CASE EpochBlock(h[1] + 1)
        BY <1>1, <1>2, <2>1, <2>4, <4>1, <4>2
      <4>3. CASE ~EpochBlock(h[1] + 1)
        <5>1. goal # h[1] + 1
          BY <4>1, <4>3
        <5> QED BY <1>1, <1>2, <2>1, <2>4, <4>1, <4>3, <5>1
      <4> QED BY <4>2, <4>3
    <3>3. phase \in {"epoch", "settle"} =>
            /\ h'[1] >= goal
            /\ read # <<>> /\ Height # Failed => Height >= goal
      BY <1>1, <2>1, <2>4 DEF TransitionInv
    <3> QED BY <1>0, <2>2, <3>1, <3>2, <3>3 DEF TransitionInv, EpochBlock
  <2> QED BY <2>3, <2>4
<1>6. CASE DropBlock
  BY <1>6 DEF DropBlock
<1>7. CASE Restake
  BY <1>0, <1>7 DEF Restake, TransitionInv, EpochBlock, Height, loop
<1>8. CASE UNCHANGED vars
  BY <1>0, <1>8 DEF vars, chain, loop, TransitionInv, EpochBlock, Height
<1> QED BY <1>3, <1>4, <1>5, <1>6, <1>7, <1>8 DEF Next


-----------------------------------------------------------------------------
(***************************************************************************)
(* Rounds over all nodes: what is read of a node lies between its height   *)
(* at the start of the round and the one it has now.                       *)
(***************************************************************************)
LEMMA AllNodes ==
  ASSUME Typed, kind \in {"orstall", "warmup"}
  PROVE  /\ Answers = h /\ Len(Answers) = setup.nodes /\ Nodes = 1..setup.nodes
         /\ setup.nodes \in Nat /\ 1 \in Nodes /\ MaxHeight \in Nat
         /\ DOMAIN read = 1..Len(read) /\ DOMAIN read \subseteq Nodes /\ Len(read) \in Nat
         /\ Complete => DOMAIN read = Nodes
         /\ \A n \in Nodes : h[n] \in Nat /\ base[n] \in Nat
         /\ \A i \in DOMAIN read : read[i] \in Nat \cup {Failed} /\ (~Flaky => read[i] \in Nat)
         /\ Len(read) < Len(Answers) => Len(read) + 1 \in Nodes
<1>1. Answers = h /\ Len(Answers) = setup.nodes
  BY Asked DEF Typed
<1>2. setup.nodes \in Nat /\ 1 \in Nodes /\ MaxHeight \in Nat
  BY SetupFacts DEF Typed, ChainInv
<1>3. read \in Seq(Nat \cup {Failed}) /\ Len(read) <= Len(Answers)
      /\ (Failed \in {read[i] : i \in DOMAIN read} => Flaky)
  BY DEF Typed, ReadInv
<1>4. DOMAIN read = 1..Len(read) /\ Len(read) \in Nat
      /\ \A i \in DOMAIN read : read[i] \in Nat \cup {Failed}
  BY <1>3
<1>5. \A i \in DOMAIN read : ~Flaky => read[i] \in Nat
  BY <1>3, <1>4
<1>6. h \in [Nodes -> 0..MaxHeight] /\ base \in [Nodes -> 0..MaxHeight]
  BY DEF Typed, ChainInv
<1> QED BY <1>1, <1>2, <1>3, <1>4, <1>5, <1>6 DEF Nodes, Complete

LEMMA CallInOrder ==
  ASSUME Typed, kind \in {"orstall", "warmup"}, read # <<>> => InOrder, Call
  PROVE  InOrder' /\ Nodes' = Nodes /\ h' = h
<1>1. Nodes' = Nodes
  BY Fixed DEF Next
<1>2. /\ Len(read) < Len(Answers) /\ h' = h
      /\ base' = IF read = <<>> THEN h ELSE base
      /\ \A i \in DOMAIN read : read'[i] = read[i]
      /\ read'[Len(read) + 1] = Answers[Len(read) + 1] \/ read'[Len(read) + 1] = Failed
      /\ DOMAIN read' = 1..(Len(read) + 1) /\ DOMAIN read = 1..Len(read)
  BY CallOf DEF Typed, chain
<1>3. /\ Answers = h /\ DOMAIN read \subseteq Nodes /\ Len(read) + 1 \in Nodes /\ Len(read) \in Nat
      /\ \A n \in Nodes : h[n] \in Nat /\ base[n] \in Nat
  BY <1>2, AllNodes
<1>4. \A n \in Nodes : base'[n] <= h[n]
  BY <1>2, <1>3 DEF InOrder
<1>5. ASSUME NEW i \in DOMAIN read', read'[i] # Failed PROVE base'[i] <= read'[i] /\ read'[i] <= h[i]
  <2>1. CASE i \in DOMAIN read
    <3>1. read # <<>>
      BY <2>1
    <3> QED BY <1>2, <1>5, <2>1, <3>1 DEF InOrder
  <2>2. CASE i = Len(read) + 1
    <3>1. read'[i] = h[i]
      BY <1>2, <1>3, <1>5, <2>2
    <3> QED BY <1>3, <1>4, <2>2, <3>1
  <2> QED BY <1>2, <1>3, <2>1, <2>2
<1> QED BY <1>1, <1>2, <1>4, <1>5 DEF InOrder, Failed

LEMMA GrowInOrder ==
  ASSUME Typed, kind \in {"orstall", "warmup"}, InOrder, NEW n \in Nodes, Grow(n)
  PROVE  InOrder'
<1>1. Nodes' = Nodes
  BY Fixed DEF Next
<1>2. h' \in [Nodes -> 0..MaxHeight] /\ \A m \in Nodes : h[m] <= h'[m]
  BY GrowOf DEF Typed
<1>3. UNCHANGED <<read, base>>
  BY DEF Grow
<1>4. /\ DOMAIN read \subseteq Nodes /\ MaxHeight \in Nat
      /\ \A m \in Nodes : h[m] \in Nat /\ base[m] \in Nat
      /\ \A i \in DOMAIN read : read[i] \in Nat \cup {Failed}
  BY AllNodes
<1>5. \A m \in Nodes : h'[m] \in Nat
  BY <1>2, <1>4
<1>6. \A m \in Nodes : base[m] <= h'[m]
  BY <1>2, <1>4, <1>5 DEF InOrder
<1>7. \A i \in DOMAIN read : read[i] # Failed => base[i] <= read[i] /\ read[i] <= h'[i]
  BY <1>2, <1>4, <1>5 DEF InOrder
<1> QED BY <1>1, <1>3, <1>6, <1>7 DEF InOrder, Failed

LEMMA WarmupStep ==
  ASSUME Typed, kind = "warmup", WarmupInv, [Next]_vars
  PROVE  WarmupInv'
<1>1. CASE Call
  BY <1>1, CallInOrder DEF WarmupInv
<1>2. CASE Round
  BY <1>2, RoundOf DEF WarmupInv
<1>3. ASSUME NEW n \in Nodes, Grow(n) PROVE WarmupInv'
  <2>1. read' = read
    BY <1>3 DEF Grow
  <2> QED BY <1>3, <2>1, GrowInOrder DEF WarmupInv
<1>4. ~DropBlock /\ ~Restake
  BY DEF DropBlock, Restake
<1>5. CASE UNCHANGED vars
  <2>1. Nodes' = Nodes
    BY Fixed
  <2> QED BY <1>5, <2>1 DEF vars, chain, history, WarmupInv, InOrder, Failed
<1> QED BY <1>1, <1>2, <1>3, <1>4, <1>5 DEF Next

\* a completed round has seen the highest of the heights it started with
LEMMA SeenHighest ==
  ASSUME Typed, kind = "orstall", Complete, InOrder, ~Flaky
  PROVE  /\ \A n \in Nodes : base[n] <= Highest
         /\ \E n \in Nodes : Highest <= h[n]
         /\ Highest \in Nat /\ \A i \in DOMAIN read : read[i] # Failed
<1>1. /\ DOMAIN read = Nodes /\ 1 \in Nodes /\ MaxHeight \in Nat
      /\ \A n \in Nodes : h[n] \in Nat /\ base[n] \in Nat
      /\ \A i \in DOMAIN read : read[i] \in Nat
  BY AllNodes
<1>2. /\ Highest \in 0..MaxHeight
      /\ \A i \in DOMAIN read : read[i] <= Highest
      /\ Highest > 0 => \E i \in DOMAIN read : read[i] = Highest
  BY HighestOf DEF Typed
<1>3. \A i \in DOMAIN read : read[i] # Failed
  BY <1>1 DEF Failed
<1>4. ASSUME NEW n \in Nodes PROVE base[n] <= Highest
  <2>1. n \in DOMAIN read /\ base[n] <= read[n] /\ read[n] <= Highest
    BY <1>1, <1>2, <1>3 DEF InOrder
  <2> QED BY <1>1, <1>2, <2>1
<1>5. \E n \in Nodes : Highest <= h[n]
  <2>1. CASE Highest > 0
    <3>1. PICK i \in DOMAIN read : read[i] = Highest
      BY <1>2, <2>1
    <3> QED BY <1>1, <1>3, <3>1 DEF InOrder
  <2>2. CASE Highest = 0
    BY <1>1, <2>2
  <2> QED BY <1>2, <2>1, <2>2
<1> QED BY <1>2, <1>3, <1>4, <1>5


-----------------------------------------------------------------------------
(***************************************************************************)
(* "Chain stalled": the highest height at the start of a round is one that *)
(* the last round has seen or one that this round will see as progress.    *)
(***************************************************************************)
LEMMA OrStallStep ==
  ASSUME Typed, kind = "orstall", OrStallInv, [Next]_vars
  PROVE  OrStallInv'
<1>0. Flaky' = Flaky /\ Nodes' = Nodes /\ Stall' = Stall /\ kind' = kind
  BY Fixed
<1>1. /\ time \in Nat /\ since \in 0..time /\ best \in Nat /\ last \in Nat /\ grown \in Nat
      /\ phase \in {"first", "loop"} /\ (phase = "first" => time = 0 /\ since = 0)
      /\ (res # "running" => read = <<>>) /\ (res = "running" => time < Timeout)
      /\ Stall \in Nat /\ Stall >= 1 /\ MaxHeight \in Nat /\ drops \in Nat
      /\ h \in [Nodes -> 0..MaxHeight] /\ base \in [Nodes -> 0..MaxHeight]
  <2>1. Stall \in Nat /\ Stall >= 1 /\ MaxHeight \in Nat /\ setup.drops \in Nat
    BY SetupFacts DEF Typed, ChainInv
  <2> QED BY <2>1 DEF Typed, ChainInv, PollInv, ReadInv, Phases, Prompt
<1>2. /\ 1 \in Nodes /\ \A n \in Nodes : h[n] \in Nat /\ base[n] \in Nat
  BY AllNodes
<1>3. CASE DropBlock
  <2>1. drops' = drops + 1
    BY <1>3 DEF DropBlock
  <2>2. drops' # 0
    BY <1>1, <2>1
  <2> QED BY <2>2 DEF OrStallInv
<1>4. CASE UNCHANGED drops /\ ~(~Flaky /\ drops = 0)
  BY <1>0, <1>4 DEF OrStallInv
<1>5. CASE Call /\ ~Flaky /\ drops = 0
  <2>1. /\ res = "running" /\ UNCHANGED <<h, phase, last, since, time, res, drops>> /\ read' # <<>>
        /\ base' = (IF read = <<>> THEN h ELSE base) /\ base' \in [Nodes -> 0..MaxHeight]
        /\ best' \in 0..MaxHeight /\ best' >= best /\ \A n \in Nodes : base'[n] <= best'
        /\ best' > best => \E n \in Nodes : best' <= base'[n]
        /\ grown' = IF best' > best THEN time ELSE grown
    BY <1>5, CallOf DEF Typed, chain, loop
  <2>2. InOrder'
    BY <1>5, CallInOrder DEF OrStallInv
  <2>3. grown' <= time
    BY <1>1, <1>5, <2>1 DEF OrStallInv
  <2>4. ASSUME phase = "first" PROVE \E n \in Nodes : best' <= base'[n]
    <3>1. CASE best' > best
      BY <2>1, <3>1
    <3>2. CASE best' = best
      BY <1>5, <2>1, <2>4, <3>2 DEF OrStallInv
    <3> QED BY <1>1, <2>1, <3>1, <3>2
  <2>5. ASSUME phase = "loop"
        PROVE  /\ \E n \in Nodes : last <= h[n]
               /\ best' >= last /\ (best' > last => \E n \in Nodes : best' <= base'[n])
               /\ best' <= last => grown' <= since + 1
    <3>1. /\ \E n \in Nodes : last <= h[n]
          /\ best < last => time <= since + 1
          /\ best <= last => grown <= since + 1
          /\ IF read = <<>> THEN best <= last
             ELSE best >= last /\ (best > last => \E n \in Nodes : best <= base[n])
      BY <1>5, <2>1, <2>5 DEF OrStallInv
    <3>2. best' >= last
      <4>1. CASE read = <<>>
        <5>1. PICK n \in Nodes : last <= h[n]
          BY <3>1
        <5>2. h[n] <= best' /\ h[n] \in Nat
          BY <1>2, <2>1, <4>1
        <5> QED BY <1>1, <2>1, <5>1, <5>2
      <4>2. CASE read # <<>>
        BY <1>1, <2>1, <3>1, <4>2
      <4> QED BY <4>1, <4>2
    <3>3. best' > last => \E n \in Nodes : best' <= base'[n]
      <4>1. CASE best' > best
        BY <2>1, <4>1
      <4>2. CASE best' = best
        <5>1. CASE read = <<>>
          BY <1>1, <3>1, <4>2, <5>1
        <5>2. CASE read # <<>>
          BY <2>1, <3>1, <4>2, <5>2
        <5> QED BY <5>1, <5>2
      <4> QED BY <1>1, <2>1, <4>1, <4>2
    <3>4. best' <= last => grown' <= since + 1
      <4>1. CASE best' > best
        <5>1. grown' = time
          BY <2>1, <4>1
        <5> QED BY <1>1, <2>1, <3>1, <4>1, <5>1
      <4>2. CASE best' = best
        BY <1>1, <2>1, <3>1, <4>2
      <4> QED BY <1>1, <2>1, <4>1, <4>2
    <3> QED BY <3>1, <3>2, <3>3, <3>4
  <2>6. best' < last => phase # "loop"
    BY <1>1, <2>1, <2>5
  <2> QED BY <1>0, <1>1, <2>1, <2>2, <2>3, <2>4, <2>5, <2>6 DEF OrStallInv
<1>6. CASE Round /\ ~Flaky /\ drops = 0
  <2>1. /\ OrStallFirst \/ OrStall
        /\ res = "running" /\ read' = <<>> /\ Complete
        /\ UNCHANGED <<h, best, grown, drops>>
    BY <1>6, RoundOf DEF chain, history
  <2>2. /\ \A n \in Nodes : base[n] <= Highest
        /\ \E n \in Nodes : Highest <= h[n]
        /\ Highest \in Nat /\ \A i \in DOMAIN read : read[i] # Failed
    <3>1. DOMAIN read # {}
      BY <1>2, <2>1, AllNodes
    <3>2. InOrder
      BY <1>6, <3>1 DEF OrStallInv
    <3> QED BY <1>6, <2>1, <3>2, SeenHighest
  <2>3. read # <<>>
    BY <1>2, <2>1, AllNodes
  <2>4. grown <= time
    BY <1>6 DEF OrStallInv
  <2>5. CASE OrStallFirst
    <3>1. phase = "first" /\ time = 0 /\ since = 0
      BY <1>1, <2>5 DEF OrStallFirst
    <3>2. PICK n \in Nodes : best <= base[n]
      BY <1>6, <2>1, <2>3, <3>1 DEF OrStallInv
    <3>3. best <= Highest
      BY <1>1, <1>2, <2>2, <3>2
    <3>4. CASE Finish("error", 0) \/ Finish("ok", Highest)
      BY <1>0, <2>1, <2>4, <3>4 DEF OrStallInv, Finish
    <3>5. CASE last' = Highest /\ phase' = "loop" /\ UNCHANGED <<since, time, res>>
      <4>1. time <= since + 1 /\ grown <= since + 1
        BY <1>1, <2>4, <3>1
      <4> QED BY <1>0, <2>1, <2>2, <2>4, <3>3, <3>5, <4>1 DEF OrStallInv
    <3> QED BY <2>5, <3>4, <3>5 DEF OrStallFirst
  <2>6. CASE OrStall
    <3>1. phase = "loop" /\ phase' = phase
      BY <2>6 DEF OrStall
    <3>2. /\ \E n \in Nodes : last <= h[n]
          /\ best <= last => grown <= since + 1
          /\ best >= last /\ (best > last => \E n \in Nodes : best <= base[n])
      BY <1>6, <2>1, <2>3, <3>1 DEF OrStallInv
    <3>3. best > last => best <= Highest
      BY <1>1, <1>2, <2>2, <3>2
    <3>4. CASE Finish("ok", Highest)
      BY <1>0, <2>1, <2>4, <3>4 DEF OrStallInv, Finish
    <3>5. CASE /\ last' = MaxOf({last, Highest}) /\ since' = (IF Highest > last THEN time ELSE since)
               /\ AgainUnlessStalled(since')
      <4>1. last' = IF last < Highest THEN Highest ELSE last
        BY <1>1, <2>2, <3>5, LargerOf
      <4>2. best <= last' /\ grown <= since' + 1 /\ \E n \in Nodes : last' <= h[n]
        <5>1. CASE Highest > last
          <6>1. last' = Highest /\ since' = time
            BY <1>1, <2>2, <3>5, <4>1, <5>1
          <6>2. best <= Highest
            BY <1>1, <2>2, <3>2, <3>3, <5>1
          <6>3. grown <= time + 1
            BY <1>1, <2>4
          <6> QED BY <2>2, <6>1, <6>2, <6>3
        <5>2. CASE ~(Highest > last)
          <6>1. last' = last /\ since' = since
            BY <1>1, <2>2, <3>5, <4>1, <5>2
          <6>2. best = last
            BY <1>1, <2>2, <3>2, <3>3, <5>2
          <6>3. best <= last /\ grown <= since + 1
            BY <1>1, <3>2, <6>2
          <6> QED BY <3>2, <6>1, <6>3
        <5> QED BY <5>1, <5>2
      <4>3. PICK progress \in 0..time : progress = since'
        BY <1>1, <3>5
      <4>4. \/ time - progress >= Stall /\ time' = time /\ res' = "stalled"
            \/ time' = time + 1 /\ res' \in {"running", "timeout"}
        BY <1>1, <2>1, <3>5, <4>3, UnlessStalledTyped DEF Typed
      <4>5. CASE time - progress >= Stall /\ time' = time /\ res' = "stalled"
        <5>1. grown <= progress + 1
          BY <4>2, <4>3
        <5>2. time - progress >= Stall
          BY <4>5
        <5>3. grown <= time - Stall + 1
          BY <1>1, <5>1, <5>2
        <5> QED BY <1>0, <2>1, <2>4, <4>5, <5>3 DEF OrStallInv
      <4>6. CASE time' = time + 1 /\ res' \in {"running", "timeout"}
        <5>1. best < last' => time' <= since' + 1
          <6>1. best < last' => Highest > last
            BY <1>1, <2>2, <3>2, <4>1
          <6>2. Highest > last => since' = time
            BY <3>5
          <6>3. time' = time + 1
            BY <4>6
          <6> QED BY <1>1, <6>1, <6>2, <6>3
        <5>2. grown <= time'
          BY <1>1, <2>4, <4>6
        <5>3. res' # "stalled" /\ phase' = "loop"
          BY <3>1, <4>6
        <5>4. /\ \E n \in Nodes : last' <= h'[n]
              /\ best' <= last'
              /\ grown' <= since' + 1
              /\ best' < last' => time' <= since' + 1
              /\ grown' <= time'
          BY <2>1, <4>2, <5>1, <5>2
        <5> QED BY <1>0, <2>1, <5>3, <5>4 DEF OrStallInv
      <4> QED BY <4>4, <4>5, <4>6
    <3> QED BY <2>6, <3>4, <3>5 DEF OrStall
  <2> QED BY <2>1, <2>5, <2>6
<1>7. ASSUME NEW n \in Nodes, Grow(n), ~Flaky, drops = 0 PROVE OrStallInv'
  <2>1. h' \in [Nodes -> 0..MaxHeight] /\ \A m \in Nodes : h[m] <= h'[m]
    BY <1>7, GrowOf DEF Typed
  <2>2. UNCHANGED <<read, phase, last, since, time, res, base, best, grown, drops>> /\ res = "running"
    BY <1>7 DEF Grow, loop
  <2>3. read # <<>> => InOrder'
    BY <1>7, GrowInOrder DEF OrStallInv
  <2>4. \A m \in Nodes, x \in Nat : x <= h[m] => x <= h'[m]
    BY <1>1, <1>2, <2>1
  <2>5. (\E m \in Nodes : best <= h[m]) => \E m \in Nodes : best <= h'[m]
    BY <1>1, <2>4
  <2>6. (\E m \in Nodes : last <= h[m]) => \E m \in Nodes : last <= h'[m]
    BY <1>1, <2>4
  <2> QED BY <1>0, <1>7, <2>2, <2>3, <2>5, <2>6 DEF OrStallInv
<1>8. CASE UNCHANGED vars
  BY <1>0, <1>8 DEF vars, chain, loop, history, OrStallInv, InOrder, Failed
<1>9. ~Restake
  BY DEF Restake
<1>10. UNCHANGED drops \/ DropBlock
  <2>1. Round => UNCHANGED drops
    BY RoundOf DEF history
  <2> QED BY <2>1 DEF Next, Call, Grow, Restake, vars, history
<1> QED BY <1>3, <1>4, <1>5, <1>6, <1>7, <1>8, <1>9, <1>10 DEF Next


-----------------------------------------------------------------------------
(***************************************************************************)
(* The verdict of the jail wait.                                           *)
(***************************************************************************)
LEMMA JailStep ==
  ASSUME Typed, kind = "jail", JailInv, [Next]_vars
  PROVE  JailInv'
<1>0. Flaky' = Flaky /\ jailed' = jailed
  BY Fixed
<1>1. CASE UNCHANGED <<res, got>>
  BY <1>0, <1>1 DEF JailInv
<1>2. CASE Round
  <2>1. JailFirst \/ Jail
    BY <1>2, RoundOf
  <2>2. res = "running" /\ Complete
    BY <1>2, RoundOf
  <2>3. Height \in Nat \cup {Failed}
    BY <2>2, HeightOf DEF Typed
  <2>4. jailed \in Nat /\ From \in Nat /\ Until \in Nat
    <3>1. MaxHeight \in Nat
      BY SetupFacts DEF Typed, ChainInv
    <3> QED BY <3>1, ConstantFacts DEF Typed, ChainInv
  <2>5. CASE JailFirst
    <3>1. res' \in {"running", "error"}
      BY <2>2, <2>5 DEF JailFirst, Finish
    <3> QED BY <3>1 DEF JailInv
  <2>6. CASE Jail
    <3>1. PICK seen \in {Height >= jailed} \cup (IF Flaky THEN {FALSE} ELSE {}) :
            IF Height >= From /\ seen THEN Finish("ok", Height)
            ELSE IF Height >= From /\ Height >= Until THEN Finish("missed", Height)
            ELSE AgainUnlessStalled(since')
      BY <2>6, Zenon DEF Jail
    <3>2. CASE Height >= From /\ seen
      <4>1. res' = "ok" /\ got' = Height
        BY <3>1, <3>2 DEF Finish
      <4>2. Height >= jailed
        BY <3>1, <3>2
      <4> QED BY <1>0, <2>3, <2>4, <3>2, <4>1, <4>2 DEF JailInv
    <3>3. CASE ~(Height >= From /\ seen) /\ Height >= From /\ Height >= Until
      <4>1. res' = "missed"
        BY <3>1, <3>3 DEF Finish
      <4>2. ~Flaky => ~(Height >= jailed)
        BY <3>1, <3>3
      <4>3. ~Flaky => jailed > Until
        BY <2>3, <2>4, <3>3, <4>2 DEF Failed
      <4> QED BY <1>0, <4>1, <4>3 DEF JailInv
    <3>4. CASE ~(Height >= From /\ seen) /\ ~(Height >= From /\ Height >= Until)
      <4>1. AgainUnlessStalled(since')
        BY <3>1, <3>4
      <4>2. res' \in {"running", "stalled", "timeout"}
        BY <2>2, <4>1 DEF AgainUnlessStalled, Again, Sleep, Finish
      <4> QED BY <4>2 DEF JailInv
    <3> QED BY <3>2, <3>3, <3>4
  <2> QED BY <2>1, <2>5, <2>6
<1>3. Round \/ UNCHANGED <<res, got>>
  BY DEF Next, Call, Grow, DropBlock, Restake, vars
<1> QED BY <1>1, <1>2, <1>3

-----------------------------------------------------------------------------
(***************************************************************************)
(* The epoch wait on a steady chain.                                       *)
(***************************************************************************)
LEMMA Unsafe ==
  ASSUME NEW x \in Nat, epoch \in Nat
  PROVE  /\ epoch \in {1, 2} => ~Safe(x)
         /\ epoch > 2 => /\ Safe(x) <=> x % epoch # 0 /\ x % epoch # epoch - 1
                         /\ x % epoch = epoch - 1 => (x + 1) % epoch = 0
                         /\ x % epoch = 0 => (x + 1) % epoch = 1
                         /\ x % epoch \in Nat
<1>1. epoch > 0 => x % epoch \in 0..(epoch - 1)
  BY Divided
<1>2. ASSUME epoch > 2
      PROVE  (x + 1) % epoch = (IF x % epoch = epoch - 1 THEN 0 ELSE (x % epoch) + 1)
  <2>1. epoch \in Nat \ {0} /\ epoch > 1
    BY <1>2
  <2> QED BY <2>1, NextRemainder
<1> QED BY <1>1, <1>2 DEF Safe

LEMMA EpochRound ==
  ASSUME Typed, kind = "epoch", EpochInv, Round, Steady, ~Flaky
  PROVE  EpochInv'
<1>0. Flaky' = Flaky /\ Steady' = Steady /\ Stall' = Stall /\ epoch' = epoch
  BY Fixed DEF Next
<1>1. /\ EpochWait /\ res = "running" /\ read' = <<>> /\ Complete /\ h' = h
  BY <1>0, RoundOf DEF chain
<1>2. /\ Stall \in Nat /\ Stall >= 1 /\ Timeout \in Nat /\ 2 * Stall <= Timeout /\ epoch \in Nat
      /\ 1 \in Nodes /\ MaxHeight \in Nat
  BY SetupFacts DEF Typed, ChainInv
<1>3. /\ quiet \in Nat /\ time \in Nat /\ since \in 0..time /\ last \in Nat /\ time < Timeout
      /\ h[1] \in Nat /\ quiet < Stall
  BY <1>1, <1>2 DEF Typed, ChainInv, PollInv, Prompt, EpochInv
<1>4. CASE epoch = 0
  <2>1. res' = "ok" /\ quiet' = quiet
    BY <1>1, <1>4 DEF EpochWait, Finish
  <2> QED BY <1>0, <1>3, <1>4, <2>1 DEF EpochInv
<1>5. CASE epoch > 0
  <2>1. Height \in Nat /\ read # <<>>
    <3>1. Height \in Nat \cup {Failed} /\ read # <<>> /\ 1 \in DOMAIN read
      BY <1>1, <1>5, HeightOf DEF Typed
    <3>2. Height # Failed
      BY <3>1 DEF Typed, ReadInv, Height
    <3> QED BY <3>1, <3>2
  <2>2. Height # Failed
    BY <2>1 DEF Failed
  <2>3. CASE Safe(Height)
    <3>1. res' = "ok" /\ quiet' = quiet
      BY <1>1, <1>5, <2>2, <2>3 DEF EpochWait, Finish
    <3>2. epoch \notin {1, 2}
      BY <1>2, <2>1, <2>3, Unsafe
    <3> QED BY <1>0, <1>3, <3>1, <3>2 DEF EpochInv
  <2>4. CASE ~Safe(Height)
    <3>1. /\ last' = Height /\ since' = (IF Height # last THEN time ELSE since)
          /\ AgainUnlessStalled(since')
      BY <1>1, <1>5, <2>2, <2>4 DEF EpochWait
    <3>2. PICK progress \in 0..time : progress = since'
      BY <1>3, <3>1
    <3>3. \/ /\ time - progress >= Stall /\ res' = "stalled" /\ quiet' = quiet
          \/ /\ time - progress < Stall /\ time' = time + 1
             /\ res' \in {"running", "timeout"} /\ (res' = "running" <=> time + 1 < Timeout)
             /\ quiet + 1 < Stall /\ quiet' = quiet + 1
      BY <1>1, <1>3, <3>1, <3>2, UnlessStalledTyped DEF Typed, Sleep
    <3>4. quiet' < Stall
      BY <1>3, <3>3
    <3>5. CASE epoch \in {1, 2}
      BY <1>0, <3>3, <3>4, <3>5 DEF EpochInv
    <3>6. CASE epoch > 2
      <4>1. /\ last <= h[1]
            /\ h[1] = last => time - since <= quiet
            /\ last <= Height /\ Height <= h[1]
            /\ Height = last => time - since < Stall
            /\ h[1] % epoch = epoch - 1 => time <= quiet
            /\ h[1] % epoch = 0 => time <= Stall - 1 + quiet
            /\ Safe(h[1]) => time <= 2 * (Stall - 1) + quiet /\ (Height = h[1] \/ quiet = 0)
        BY <1>1, <2>1, <3>6 DEF EpochInv
      <4>2. time - progress < Stall
        BY <1>2, <1>3, <3>1, <3>2, <4>1
      <4>3. /\ time' = time + 1 /\ quiet + 1 < Stall /\ quiet' = quiet + 1
            /\ res' \in {"running", "timeout"} /\ (res' = "running" <=> time + 1 < Timeout)
        BY <1>2, <1>3, <3>3, <4>2
      <4>4. h[1] % epoch = epoch - 1 \/ h[1] % epoch = 0 \/ Safe(h[1])
        BY <1>2, <1>3, <3>6, Unsafe
      <4>5. Safe(h[1]) => quiet = 0
        BY <2>4, <4>1
      <4>6. time + 1 < Timeout
        <5>1. CASE h[1] % epoch = epoch - 1
          BY <1>2, <1>3, <4>1, <4>3, <5>1
        <5>2. CASE h[1] % epoch = 0
          BY <1>2, <1>3, <4>1, <4>3, <5>2
        <5>3. CASE Safe(h[1])
          BY <1>2, <1>3, <4>1, <4>3, <4>5, <5>3
        <5> QED BY <4>4, <5>1, <5>2, <5>3
      <4>7. res' = "running"
        BY <4>3, <4>6
      <4>8. h[1] = last' => time' - since' <= quiet'
        <5>1. CASE Height # last
          BY <1>3, <3>1, <4>3, <5>1
        <5>2. CASE Height = last
          BY <1>3, <3>1, <4>1, <4>3, <5>2
        <5> QED BY <5>1, <5>2
      <4>9. /\ h[1] % epoch = epoch - 1 => time' <= quiet'
            /\ h[1] % epoch = 0 => time' <= Stall - 1 + quiet'
            /\ Safe(h[1]) => quiet' <= 1 /\ time' <= 2 * (Stall - 1) + quiet'
        BY <1>2, <1>3, <4>1, <4>3, <4>5
      <4>10. Safe(h[1])' <=> Safe(h[1])
        BY <1>0, <1>1 DEF Safe
      <4>11. last' <= h[1]
        BY <3>1, <4>1
      <4> QED BY <1>0, <1>1, <3>4, <3>6, <4>7, <4>8, <4>9, <4>10, <4>11 DEF EpochInv
    <3> QED BY <1>2, <1>5, <3>5, <3>6
  <2> QED BY <2>3, <2>4
<1> QED BY <1>2, <1>4, <1>5

LEMMA EpochStep ==
  ASSUME Typed, kind = "epoch", EpochInv, [Next]_vars
  PROVE  EpochInv'
<1>0. Flaky' = Flaky /\ Steady' = Steady /\ Stall' = Stall /\ epoch' = epoch /\ Nodes' = Nodes
  BY Fixed
<1>1. CASE ~(Steady /\ ~Flaky)
  BY <1>0, <1>1 DEF EpochInv
<1>2. ASSUME Steady, ~Flaky PROVE EpochInv'
  <2>1. /\ Stall \in Nat /\ Stall >= 1 /\ epoch \in Nat /\ 1 \in Nodes /\ MaxHeight \in Nat
        /\ setup.drops = 0
    BY <1>2, SetupFacts DEF Typed, ChainInv
  <2>2. /\ quiet \in Nat /\ time \in Nat /\ since \in 0..time /\ last \in Nat /\ h[1] \in Nat
        /\ (res # "running" => read = <<>>)
    BY <2>1 DEF Typed, ChainInv, PollInv, ReadInv
  <2>3. ~DropBlock /\ ~Restake
    BY <2>1 DEF DropBlock, Restake, Typed, ChainInv
  <2>4. CASE Round
    BY <1>2, <2>4, EpochRound
  <2>5. CASE Call
    <3>1. epoch > 0 /\ Answers = <<h[1]>>
      <4>1. epoch # 0
        <5>1. epoch = 0 => Len(Answers) = 0
          BY Asked DEF Typed
        <5>2. Len(read) < Len(Answers) /\ Len(read) \in Nat
          BY <2>5, CallOf DEF Typed, ReadInv
        <5> QED BY <5>1, <5>2
      <4>2. phase # "settle"
        BY DEF Typed, PollInv, Phases
      <4> QED BY <2>1, <4>1, <4>2, Asked DEF Typed
    <3>2. read = <<>> /\ read' # <<>> /\ res = "running" /\ Height' = h[1]
      BY <1>2, <2>5, <3>1, OneCall
    <3>3. UNCHANGED <<h, last, since, time, res, quiet>>
      BY <2>5 DEF Call, chain, loop
    <3>4. Safe(h[1])' <=> Safe(h[1])
      BY <1>0, <3>3 DEF Safe
    <3>5. ASSUME epoch > 2
          PROVE  /\ last <= h[1] /\ h[1] <= h[1]
                 /\ h[1] = last => time - since < Stall
      <4>1. last <= h[1] /\ (h[1] = last => time - since <= quiet) /\ quiet < Stall
        BY <1>2, <3>2, <3>5 DEF EpochInv
      <4> QED BY <2>1, <2>2, <4>1
    <3> QED BY <1>0, <1>2, <3>2, <3>3, <3>4, <3>5 DEF EpochInv
  <2>6. ASSUME NEW n \in Nodes, Grow(n), n # 1 PROVE EpochInv'
    <3>1. UNCHANGED quiet /\ h'[1] = h[1]
      BY <2>6, GrowOf DEF Typed
    <3>2. UNCHANGED <<read, last, since, time, res>>
      BY <2>6 DEF Grow, loop
    <3> QED BY <1>0, <3>1, <3>2 DEF EpochInv, Height, Safe
  <2>7. ASSUME Grow(1) PROVE EpochInv'
    <3>1. h'[1] = h[1] + 1 /\ quiet' = 0
      BY <2>1, <2>7, GrowOf DEF Typed
    <3>2. quiet > 1 /\ UNCHANGED <<read, last, since, time, res>> /\ res = "running" /\ Height' = Height
      BY <1>2, <2>7 DEF Grow, loop, Height
    <3>3. quiet < Stall
      BY <1>2 DEF EpochInv
    <3>4. CASE epoch > 2
      <4>1. /\ last <= h[1]
            /\ read # <<>> => /\ last <= Height /\ Height <= h[1]
                              /\ Height = last => time - since < Stall
            /\ h[1] % epoch = epoch - 1 => time <= quiet
            /\ h[1] % epoch = 0 => time <= Stall - 1 + quiet
            /\ Safe(h[1]) => quiet <= 1
        BY <1>2, <3>2, <3>4 DEF EpochInv
      <4>2. /\ Safe(h[1]) <=> h[1] % epoch # 0 /\ h[1] % epoch # epoch - 1
            /\ h[1] % epoch = epoch - 1 => (h[1] + 1) % epoch = 0
            /\ h[1] % epoch = 0 => (h[1] + 1) % epoch = 1
        BY <2>1, <2>2, <3>4, Unsafe
      <4>3. ~Safe(h[1])
        BY <2>2, <3>2, <4>1
      <4>4. read # <<>> => Height \in Nat \cup {Failed}
        BY DEF Typed, ReadInv, Height
      <4>5. last <= h'[1] /\ h'[1] # last
        BY <2>2, <3>1, <4>1
      <4>6. read # <<>> => Height <= h'[1]
        BY <2>2, <3>1, <4>1, <4>4 DEF Failed
      <4>7. /\ h'[1] % epoch = epoch - 1 => time <= 0
            /\ h'[1] % epoch = 0 => time <= Stall - 1 + 0
            /\ time <= 2 * (Stall - 1) + 0
        <5>1. CASE h[1] % epoch = epoch - 1
          <6>1. h'[1] % epoch = 0
            BY <3>1, <4>2, <5>1
          <6>2. time <= Stall - 1
            BY <2>1, <2>2, <3>3, <4>1, <5>1
          <6> QED BY <2>1, <2>2, <3>4, <6>1, <6>2
        <5>2. CASE h[1] % epoch = 0
          <6>1. h'[1] % epoch = 1
            BY <3>1, <4>2, <5>2
          <6>2. time <= 2 * (Stall - 1)
            BY <2>1, <2>2, <3>3, <4>1, <5>2
          <6> QED BY <2>1, <2>2, <3>4, <6>1, <6>2
        <5> QED BY <4>2, <4>3, <5>1, <5>2
      <4> QED BY <1>0, <1>2, <2>1, <3>1, <3>2, <3>4, <4>1, <4>5, <4>6, <4>7 DEF EpochInv
    <3>5. CASE ~(epoch > 2)
      BY <1>0, <1>2, <2>1, <3>1, <3>2, <3>5 DEF EpochInv
    <3> QED BY <3>4, <3>5
  <2>8. CASE UNCHANGED vars
    BY <1>0, <2>8 DEF vars, chain, loop, EpochInv, Height, Safe
  <2> QED BY <2>3, <2>4, <2>5, <2>6, <2>7, <2>8 DEF Next
<1> QED BY <1>1, <1>2


-----------------------------------------------------------------------------
(***************************************************************************)
(* All waits.                                                              *)
(***************************************************************************)
LEMMA WaitInit == Init => WaitInv
<1> SUFFICES ASSUME Init PROVE WaitInv
  OBVIOUS
<1>1. /\ setup \in Setups /\ kind \in setup.kinds /\ epoch \in setup.epochs /\ goal \in setup.goals
      /\ h \in [Nodes -> 0..setup.start] /\ base = h /\ best = MaxOf(Heights)
      /\ phase = IF kind \in TwoPhase THEN "first" ELSE "loop"
      /\ jailed \in IF "jail" \in setup.kinds THEN 1..(MaxHeight + 1) ELSE {1}
      /\ top = 1 /\ active = 1 /\ installed = 0 /\ read = <<>> /\ last = 0 /\ count = 0
      /\ since = 0 /\ time = 0 /\ res = "running" /\ got = 0 /\ produced = 0 /\ grown = 0
      /\ quiet = 0 /\ drops = 0
  BY DEF Init
<1>2. /\ setup.nodes \in Nat /\ setup.nodes >= 1 /\ 1 \in Nodes
      /\ setup.drops \in Nat /\ setup.start \in Nat /\ setup.start <= MaxHeight
      /\ MaxHeight \in Nat /\ Timeout \in Nat /\ Stall \in Nat /\ Stall >= 1 /\ Stall <= Timeout
      /\ kind \in AllKinds /\ epoch \in Nat /\ setup.goals \subseteq Nat
  BY <1>1, SetupFacts
<1>3. h \in [Nodes -> 0..MaxHeight] /\ h[1] \in Nat
  BY <1>1, <1>2
<1>4. best \in 0..MaxHeight /\ \E n \in Nodes : best <= h[n]
  <2>1. Heights \in SUBSET (0..MaxHeight) /\ Heights # {} /\ Heights \in SUBSET Int
        /\ MaxHeight \in Int /\ \A x \in Heights : x <= MaxHeight
    BY <1>2, <1>3 DEF Heights
  <2>2. best \in Heights
    BY <1>1, <2>1, LargestOf
  <2>3. PICK n \in Nodes : best = h[n]
    BY <2>2 DEF Heights
  <2> QED BY <1>2, <2>1, <2>2, <2>3
<1>5. ChainInv
  <2>1. jailed \in 1..(MaxHeight + 1) /\ 0 \in 0..MaxHeight /\ 0 \in 0..setup.drops
    BY <1>1, <1>2
  <2> QED BY <1>1, <1>3, <1>4, <2>1 DEF ChainInv, Sets
<1>6. PollInv
  <2>1. 0 \in 0..0 /\ 0 \in 0..(Timeout + 1) /\ 0 < Timeout
    BY <1>2
  <2>2. phase \in Phases /\ (phase = "first" <=> kind \in TwoPhase)
    BY <1>1 DEF Phases, TwoPhase
  <2> QED BY <1>1, <1>2, <2>1, <2>2 DEF PollInv, Results, TwoPhase
<1>7. ReadInv
  <2>1. Len(Answers) \in Nat
    BY <1>5, <1>6, AskedLength
  <2>2. Len(read) = 0 /\ DOMAIN read = {} /\ read \in Seq(Nat \cup {Failed})
    BY <1>1
  <2> QED BY <1>1, <2>1, <2>2 DEF ReadInv
<1>8. ProgressInv /\ JailInv /\ WarmupInv
  BY <1>1, <1>3 DEF ProgressInv, JailInv, WarmupInv, Up
<1>9. kind = "transition" => TransitionInv
  BY <1>1 DEF TransitionInv, TwoPhase
<1>10. kind = "orstall" => OrStallInv
  <2>1. kind = "orstall" => phase = "first"
    BY <1>1 DEF TwoPhase
  <2> QED BY <1>1, <1>4, <2>1 DEF OrStallInv
<1>11. EpochInv
  <2>1. 0 <= 2 * (Stall - 1) + 0 /\ 0 <= Stall - 1 + 0 /\ 0 < Stall /\ 0 - 0 <= 0 /\ 0 <= h[1]
    BY <1>2, <1>3
  <2> QED BY <1>1, <2>1 DEF EpochInv
<1> QED BY <1>5, <1>6, <1>7, <1>8, <1>9, <1>10, <1>11 DEF WaitInv, Typed

LEMMA WaitStep ==
  ASSUME WaitInv, [Next]_vars
  PROVE  WaitInv'
<1>1. Typed' /\ kind' = kind
  BY TypedStep, Fixed DEF WaitInv
<1>2. kind = "progress" => ProgressInv'
  BY ProgressStep DEF WaitInv
<1>3. kind = "transition" => TransitionInv'
  BY TransitionStep DEF WaitInv
<1>4. kind = "orstall" => OrStallInv'
  BY OrStallStep DEF WaitInv
<1>5. kind = "jail" => JailInv'
  BY JailStep DEF WaitInv
<1>6. kind = "epoch" => EpochInv'
  BY EpochStep DEF WaitInv
<1>7. kind = "warmup" => WarmupInv'
  BY WarmupStep DEF WaitInv
<1> QED BY <1>1, <1>2, <1>3, <1>4, <1>5, <1>6, <1>7 DEF WaitInv

(***************************************************************************)
(* What a wait reports is true of the chain: a wait for progress has seen  *)
(* as many blocks made as it was to wait for; the validator set that a     *)
(* transition accepts is none from before the epoch block; a stall is said *)
(* of a chain that stands still; a jail verdict is true of the height it   *)
(* names; and the epoch wait passes on a steady chain exactly when some    *)
(* height could satisfy it.                                                *)
(***************************************************************************)
THEOREM WaitsTruthful == Spec => []Truthful
<1>1. WaitInv => Truthful
  <2> SUFFICES ASSUME WaitInv PROVE Truthful
    OBVIOUS
  <2>1. TypeOK
    BY TypedSays DEF WaitInv
  <2>2. ProgressReal
    BY DEF WaitInv, ProgressReal, ProgressInv
  <2>3. FreshSet
    BY DEF WaitInv, FreshSet, TransitionInv
  <2>4. StallIsReal
    BY DEF WaitInv, StallIsReal, OrStallInv
  <2>5. JailVerdict
    BY DEF WaitInv, JailVerdict, JailInv
  <2>6. EpochWaitPasses
    BY DEF WaitInv, EpochWaitPasses, EpochInv
  <2> QED BY <2>1, <2>2, <2>3, <2>4, <2>5, <2>6 DEF Truthful
<1> QED BY <1>1, WaitInit, WaitStep, PTL DEF Spec

-----------------------------------------------------------------------------
LEMMA WarmUpRound ==
  ASSUME WaitInv, [Next]_vars, kind = "warmup", res = "running", res' = "ok"
  PROVE  MaxOf(Heights) - MinOf(Heights) <= Lag + MaxOf({h[n] - base[n] : n \in Nodes})
<1>1. Typed /\ WarmupInv
  BY DEF WaitInv
<1>2. Round
  BY DEF Next, Call, Grow, DropBlock, Restake, vars
<1>3. Warmup /\ Complete
  BY <1>2, RoundOf
<1>4. /\ DOMAIN read = Nodes /\ 1 \in Nodes /\ MaxHeight \in Nat
      /\ \A n \in Nodes : h[n] \in Nat /\ base[n] \in Nat
      /\ \A i \in DOMAIN read : read[i] \in Nat \cup {Failed}
  BY <1>1, <1>3, AllNodes
<1>5. InOrder
  BY <1>1, <1>4 DEF WarmupInv
<1>6. /\ \A i \in DOMAIN read : read[i] # Failed
      /\ MaxOf(Answered) - MinOf(Answered) <= Lag
  <2> DEFINE all == \A i \in DOMAIN read : read[i] # Failed
             near == all /\ MinOf(Answered) > 0 /\ MaxOf(Answered) - MinOf(Answered) <= Lag
             n == IF near THEN count + 1 ELSE 0
  <2>1. IF n >= Streak THEN Finish("ok", MinOf(Answered)) ELSE AgainUnlessLate
    BY <1>3 DEF Warmup
  <2>2. ~AgainUnlessLate
    BY DEF AgainUnlessLate, Finish, Sleep
  <2>3. n >= Streak
    BY <2>1, <2>2
  <2>4. Streak \in Nat /\ Streak >= 1
    BY ConstantFacts
  <2>5. near
    <3> HIDE DEF near
    <3> QED BY <2>3, <2>4
  <2> QED BY <2>5
<1>7. \A n \in Nodes : read[n] \in Nat /\ base[n] <= read[n] /\ read[n] <= h[n] /\ read[n] \in Answered
  BY <1>4, <1>5, <1>6 DEF InOrder, Answered
<1>8. /\ MaxOf(Answered) \in Nat /\ MinOf(Answered) \in Nat
      /\ \A n \in Nodes : read[n] <= MaxOf(Answered) /\ MinOf(Answered) <= read[n]
  <2>1. Answered \in SUBSET (0..MaxHeight) /\ Answered # {}
    <3>1. \A n \in Nodes : read[n] <= MaxHeight
      BY <1>1, <1>4 DEF Typed, ReadInv
    <3> QED BY <1>4, <1>6, <1>7, <3>1 DEF Answered
  <2>2. Answered \in SUBSET Nat /\ Answered \in SUBSET Int /\ MaxHeight \in Int
        /\ \A x \in Answered : x <= MaxHeight
    BY <1>4, <2>1
  <2>3. MaxOf(Answered) \in Answered /\ \A y \in Answered : y <= MaxOf(Answered)
    BY <2>1, <2>2, LargestOf
  <2>4. MinOf(Answered) \in Answered /\ \A y \in Answered : MinOf(Answered) <= y
    BY <2>1, <2>2, LeastOf
  <2> QED BY <1>7, <2>2, <2>3, <2>4
<1>9. h \in [Nodes -> 0..MaxHeight]
  BY <1>1 DEF Typed, ChainInv
<1>10. PICK high \in Nodes : MaxOf(Heights) = h[high]
  <2>1. Heights \in SUBSET Int /\ Heights # {} /\ MaxHeight \in Int /\ \A x \in Heights : x <= MaxHeight
    BY <1>4, <1>9 DEF Heights
  <2>2. MaxOf(Heights) \in Heights
    BY <2>1, LargestOf
  <2> QED BY <2>2 DEF Heights
<1>11. PICK low \in Nodes : MinOf(Heights) = h[low]
  <2>1. Heights \in SUBSET Nat /\ Heights # {}
    BY <1>4 DEF Heights
  <2>2. MinOf(Heights) \in Heights
    BY <2>1, LeastOf
  <2> QED BY <2>2 DEF Heights
<1> DEFINE D == {h[n] - base[n] : n \in Nodes}
<1>12. h[high] - base[high] <= MaxOf(D) /\ MaxOf(D) \in Int
  <2>1. D \in SUBSET Int /\ D # {} /\ h[high] - base[high] \in D
    BY <1>4
  <2>2. \A x \in D : x <= MaxHeight
    <3> SUFFICES ASSUME NEW n \in Nodes PROVE h[n] - base[n] <= MaxHeight
      OBVIOUS
    <3>1. h[n] \in 0..MaxHeight /\ base[n] \in Nat
      BY <1>4, <1>9
    <3> QED BY <1>4, <3>1
  <2>3. MaxHeight \in Int
    BY <1>4
  <2> HIDE DEF D
  <2>4. MaxOf(D) \in D /\ \A y \in D : y <= MaxOf(D)
    BY <2>1, <2>2, <2>3, LargestOf
  <2> QED BY <2>1, <2>4
<1>13. Lag \in Nat
  BY ConstantFacts
<1>14. read[high] <= MaxOf(Answered) /\ MinOf(Answered) <= read[low] /\ read[low] <= h[low]
       /\ base[high] <= read[high] /\ read[high] \in Nat /\ read[low] \in Nat
  BY <1>7, <1>8
<1>15. h[high] \in Nat /\ h[low] \in Nat /\ base[high] \in Nat
  BY <1>4
<1> HIDE DEF D
<1>16. h[high] - h[low] <= Lag + MaxOf(D)
  BY <1>6, <1>8, <1>12, <1>13, <1>14, <1>15
<1> QED BY <1>10, <1>11, <1>16 DEF D

(***************************************************************************)
(* A warm-up that passes says that the nodes were within the tolerated     *)
(* difference, up to the blocks that came while they were being asked.     *)
(***************************************************************************)
THEOREM WarmUpTold == Spec => WarmUpReal
<1>1. WaitInv /\ [Next]_vars =>
        [kind = "warmup" /\ res = "running" /\ res' = "ok" =>
           MaxOf(Heights) - MinOf(Heights) <= Lag + MaxOf({h[n] - base[n] : n \in Nodes})]_vars
  BY WarmUpRound
<1> QED BY <1>1, WaitInit, WaitStep, PTL DEF Spec, WarmUpReal


-----------------------------------------------------------------------------
(***************************************************************************)
(* Chains: the empty one, those of one block, and what a block makes of a  *)
(* chain that is not at the bound.                                         *)
(***************************************************************************)
LEMMA ShortChains ==
  ASSUME SyncHeight \in Nat \ {0}
  PROVE  {<<>>} \cup [1..1 -> Branches] \subseteq Sync!Chains
<1>1. <<>> \in [1..0 -> Branches]
  OBVIOUS
<1>2. 0 \in 0..SyncHeight /\ 1 \in 0..SyncHeight
  OBVIOUS
<1> QED BY <1>1, <1>2 DEF Sync!Chains

LEMMA ChainLength ==
  ASSUME SyncHeight \in Nat, NEW c \in Sync!Chains
  PROVE  c \in Seq(Branches) /\ Len(c) \in 0..SyncHeight
<1>1. PICK k \in 0..SyncHeight : c \in [1..k -> Branches]
  BY DEF Sync!Chains
<1>2. c \in Seq(Branches) /\ Len(c) = k
  BY <1>1
<1> QED BY <1>2

LEMMA LongerChain ==
  ASSUME SyncHeight \in Nat, NEW c \in Sync!Chains, Len(c) < SyncHeight, NEW b \in Branches
  PROVE  Append(c, b) \in Sync!Chains
<1>1. c \in Seq(Branches) /\ Len(c) \in 0..SyncHeight
  BY ChainLength
<1>2. Append(c, b) \in Seq(Branches) /\ Len(Append(c, b)) = Len(c) + 1
  BY <1>1, AppendProperties
<1>3. Append(c, b) \in [1..Len(Append(c, b)) -> Branches]
  BY <1>2, LenProperties
<1>4. Len(c) + 1 \in 0..SyncHeight
  BY <1>1
<1>5. Append(c, b) \in [1..(Len(c) + 1) -> Branches]
  BY <1>2, <1>3
<1> QED BY <1>4, <1>5 DEF Sync!Chains

-----------------------------------------------------------------------------
(***************************************************************************)
(* A sample is taken only before the timeout, and a streak has not seen    *)
(* the validator behind.                                                   *)
(***************************************************************************)
SyncInv ==
  /\ Sync!TypeOK
  /\ haveTarget => polls < MaxPolls
  /\ haveMatchedStart => ~behind
  /\ Sync!NeverBehind

LEMMA SyncStep ==
  ASSUME References \in Nat, SyncHeight \in Nat \ {0}, MaxPolls \in Nat \ {0},
         SyncInv, [Sync!Next]_(Sync!vars)
  PROVE  SyncInv'
<1> USE DEF SyncInv, Sync!TypeOK, Sync!NeverBehind
<1>0. /\ \A c \in Sync!Chains : Len(c) \in 0..SyncHeight
      /\ <<>> \in Sync!Chains /\ 0 \in 0..SyncHeight /\ 0 \in 0..References
      /\ \A n \in Sync!Nodes : chainOf[n] \in Sync!Chains
      /\ Sync!Validator \in Sync!Nodes
  BY ChainLength, ShortChains DEF Sync!Nodes, Sync!Validator
<1>1. CASE Sync!AskValidator
  <2>1. chainOf[Sync!Validator] \in Sync!Chains
    BY <1>0
  <2>2. target' \in Sync!Chains /\ haveTarget' \in BOOLEAN
    BY <1>1, <2>1 DEF Sync!AskValidator
  <2>3. polls' \in 0..MaxPolls /\ (haveTarget' => polls' < MaxPolls)
    BY <1>1 DEF Sync!AskValidator
  <2> QED BY <1>0, <1>1, <2>2, <2>3 DEF Sync!AskValidator, Sync!streak
<1>2. CASE Sync!AskReference
  <2>1. asked + 1 \in Sync!Nodes /\ asked + 1 \in 0..References
    BY <1>2 DEF Sync!AskReference, Sync!Nodes
  <2>2. Len(chainOf[asked + 1]) \in 0..SyncHeight
    BY <1>0, <2>1
  <2>3. highestRef' \in 0..SyncHeight /\ matched' \in BOOLEAN /\ asked' \in 0..References
    BY <1>2, <2>1, <2>2 DEF Sync!AskReference
  <2> QED BY <1>2, <2>3 DEF Sync!AskReference, Sync!streak
<1>3. CASE Sync!Match
  <2>1. Sync!Height \in 0..SyncHeight
    BY <1>0 DEF Sync!Height
  <2>2. matchedStart' \in 0..SyncHeight /\ haveMatchedStart' = TRUE /\ chainOf' = chainOf
    BY <1>3, <2>1 DEF Sync!Match
  <2>3. behind' = FALSE
    BY <1>3 DEF Sync!Match
  <2>4. verdict' \in {"running", "ok", "timeout"}
    BY <1>3 DEF Sync!Match
  <2>5. polls' \in 0..MaxPolls
    BY <1>3 DEF Sync!Match, Sync!Sampled, Sync!NextPoll
  <2>6. haveTarget' = FALSE /\ target' = <<>> /\ asked' = 0 /\ matched' = FALSE /\ highestRef' = 0
    BY <1>3 DEF Sync!Match, Sync!NextPoll
  <2> QED BY <1>0, <2>2, <2>3, <2>4, <2>5, <2>6
<1>4. CASE Sync!NoMatch
  <2>1. polls' \in 0..MaxPolls
    BY <1>4 DEF Sync!NoMatch, Sync!NoMatchUnless, Sync!Sampled, Sync!NextPoll
  <2>2. haveTarget' = FALSE /\ target' = <<>> /\ asked' = 0 /\ matched' = FALSE /\ highestRef' = 0
    BY <1>4 DEF Sync!NoMatch, Sync!NoMatchUnless, Sync!NextPoll
  <2>3. /\ haveMatchedStart' \in BOOLEAN /\ behind' \in BOOLEAN
        /\ haveMatchedStart' => ~behind'
    BY <1>4 DEF Sync!NoMatch, Sync!NoMatchUnless
  <2>4. verdict = "running" /\ UNCHANGED <<chainOf, matchedStart, verdict>>
    BY <1>4 DEF Sync!NoMatch, Sync!NoMatchUnless, Sync!Sampled
  <2> QED BY <1>0, <2>1, <2>2, <2>3, <2>4
<1>5. CASE Sync!Timeout
  BY <1>5 DEF Sync!Timeout, Sync!sample, Sync!streak
<1>6. ASSUME NEW n \in Sync!Nodes, Sync!Extend(n) PROVE SyncInv'
  <2>1. PICK b \in Branches : chainOf' = [chainOf EXCEPT ![n] = Append(@, b)]
    BY <1>6 DEF Sync!Extend
  <2>2. Append(chainOf[n], b) \in Sync!Chains
    BY <1>0, <1>6, LongerChain DEF Sync!Extend
  <2>3. chainOf' \in [Sync!Nodes -> Sync!Chains]
    BY <2>1, <2>2
  <2> QED BY <1>6, <2>3 DEF Sync!Extend, Sync!sample, Sync!streak
<1>7. ASSUME NEW n \in Sync!Nodes, NEW m \in Sync!Nodes, Sync!Adopt(n, m) PROVE SyncInv'
  BY <1>7 DEF Sync!Adopt, Sync!sample, Sync!streak
<1>8. CASE UNCHANGED Sync!vars
  BY <1>8 DEF Sync!vars, Sync!sample, Sync!streak
<1> QED BY <1>1, <1>2, <1>3, <1>4, <1>5, <1>6, <1>7, <1>8 DEF Sync!Next, Sync!Wait

(***************************************************************************)
(* The wait keeps its types, and one that succeeds has not seen the        *)
(* validator behind a reference, and on the head of none, since the first  *)
(* of its matches.                                                         *)
(***************************************************************************)
THEOREM SyncNeverBehind == Sync!Spec => []NeverBehind
<1>1. Sync!Init => SyncInv
  <2> SUFFICES ASSUME Sync!Init PROVE SyncInv
    OBVIOUS
  <2>1. chainOf \in [Sync!Nodes -> Sync!Chains] /\ <<>> \in Sync!Chains
    BY ShortChains, SyncAssumption DEF Sync!Init
  <2>2. 0 \in 0..References /\ 0 \in 0..SyncHeight /\ 0 \in 0..MaxPolls /\ 0 < MaxPolls
    BY SyncAssumption
  <2> QED BY <2>1, <2>2 DEF Sync!Init, SyncInv, Sync!TypeOK, Sync!NeverBehind
<1>2. SyncInv /\ [Sync!Next]_(Sync!vars) => SyncInv'
  BY SyncStep, SyncAssumption
<1>3. SyncInv => NeverBehind
  BY DEF SyncInv, NeverBehind
<1> QED BY <1>1, <1>2, <1>3, PTL DEF Sync!Spec

===================================================================================
