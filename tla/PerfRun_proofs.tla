----------------------------- MODULE PerfRun_proofs -----------------------------
(***************************************************************************)
(* Proofs about runs of the performance suite, for any flags, networks,    *)
(* thresholds and outcomes of the load generator.                          *)
(***************************************************************************)
EXTENDS PerfRun, FiniteSetTheorems, WellFoundedInduction, TLAPS

-----------------------------------------------------------------------------
(***************************************************************************)
(* Numbers: the least and the greatest of a set, counting upwards, and     *)
(* what is computed step by step.                                          *)
(***************************************************************************)
LEMMA LeastExists ==
  ASSUME NEW S, S # {}, S \subseteq Nat
  PROVE  \E x \in S : \A y \in S : x <= y
<1>1. PICK x \in S : \A y \in S : ~(<<y, x>> \in OpToRel(<, Nat))
  BY NatLessThanWellFounded, WFMin
<1>2. ASSUME NEW y \in S PROVE x <= y
  <2>1. <<y, x>> \in Nat \X Nat /\ <<y, x>>[1] = y /\ <<y, x>>[2] = x
    BY <1>1
  <2>2. ~(y < x)
    BY <1>1, <2>1 DEF OpToRel
  <2>3. x \in Nat /\ y \in Nat
    BY <2>1
  <2> QED
    BY <2>2, <2>3
<1> QED
  BY <1>2

LEMMA MaxOfIs ==
  ASSUME NEW S, S # {}, S \subseteq Int, NEW bound \in Int, \A x \in S : x <= bound
  PROVE  MaxOf(S) \in S /\ \A y \in S : y <= MaxOf(S)
<1> DEFINE T == {bound - x : x \in S}
<1>1. T # {} /\ T \subseteq Nat
  <2>1. PICK x \in S : TRUE
    OBVIOUS
  <2>2. bound - x \in T
    OBVIOUS
  <2>3. ASSUME NEW y \in S PROVE bound - y \in Nat
    <3>1. y <= bound /\ y \in Int
      OBVIOUS
    <3> QED
      BY <3>1
  <2> QED
    BY <2>2, <2>3
<1>2. PICK t \in T : \A u \in T : t <= u
  BY <1>1, LeastExists
<1>3. PICK x \in S : t = bound - x
  BY <1>2
<1>4. ASSUME NEW y \in S PROVE y <= x
  <2>1. t <= bound - y
    BY <1>2
  <2> QED
    BY <1>3, <2>1
<1>5. \E z \in S : \A y \in S : y <= z
  BY <1>4
<1> QED
  BY <1>5 DEF MaxOf

LEMMA MinOfIs ==
  ASSUME NEW S, S # {}, S \subseteq Nat
  PROVE  MinOf(S) \in S /\ \A y \in S : MinOf(S) <= y
<1>1. \E x \in S : \A y \in S : x <= y
  BY LeastExists
<1> QED
  BY <1>1 DEF MinOf

LEMMA Greater ==
  ASSUME NEW a \in Nat, NEW b \in Nat
  PROVE  MaxOf({a, b}) = IF a <= b THEN b ELSE a
<1>1. MaxOf({a, b}) \in {a, b} /\ \A y \in {a, b} : y <= MaxOf({a, b})
  <2>1. \A x \in {a, b} : x <= a + b
    OBVIOUS
  <2> QED
    BY <2>1, MaxOfIs
<1> QED
  BY <1>1

LEMMA Lesser ==
  ASSUME NEW a \in Nat, NEW b \in Nat
  PROVE  MinOf({a, b}) = IF a <= b THEN a ELSE b
<1>1. MinOf({a, b}) \in {a, b} /\ \A y \in {a, b} : MinOf({a, b}) <= y
  BY MinOfIs
<1> QED
  BY <1>1

LEMMA CountUp ==
  ASSUME NEW T, 0 \in T, \A k \in Nat : k \in T => k + 1 \in T
  PROVE  Nat \subseteq T
<1> SUFFICES ASSUME Nat \ T # {} PROVE FALSE
  OBVIOUS
<1>1. PICK x \in Nat \ T : \A y \in Nat \ T : x <= y
  BY LeastExists
<1>2. x # 0 /\ x - 1 \in Nat
  BY <1>1
<1>3. x - 1 \in T
  BY <1>1, <1>2
<1>4. (x - 1) + 1 \in T
  BY <1>2, <1>3
<1> QED
  BY <1>1, <1>4

\* a function that is computed step by step exists
Computed(X, first, last, step) ==
  \E g \in [0..last -> X] : g[0] = first /\ \A i \in 1..last : g[i] = step[i][g[i - 1]]

LEMMA StepByStep ==
  ASSUME NEW X, NEW first \in X, NEW last \in Nat, NEW step \in [1..last -> [X -> X]]
  PROVE  Computed(X, first, last, step)
<1> DEFINE Upto(k) == \E g \in [0..k -> X] : g[0] = first /\ \A i \in 1..k : g[i] = step[i][g[i - 1]]
           T == {k \in Nat : k <= last => Upto(k)}
<1>1. 0 \in T
  <2> DEFINE g == [j \in 0..0 |-> first]
  <2>1. g \in [0..0 -> X] /\ g[0] = first
    OBVIOUS
  <2> HIDE DEF g
  <2>2. Upto(0)
    BY <2>1
  <2> QED
    BY <2>2
<1>2. ASSUME NEW k \in Nat, k \in T PROVE k + 1 \in T
  <2> SUFFICES ASSUME k + 1 <= last PROVE Upto(k + 1)
    OBVIOUS
  <2>1. Upto(k)
    BY <1>2
  <2>2. PICK g \in [0..k -> X] : g[0] = first /\ \A i \in 1..k : g[i] = step[i][g[i - 1]]
    BY <2>1
  <2> DEFINE next == step[k + 1][g[k]]
             f == [j \in 0..(k + 1) |-> IF j = k + 1 THEN next ELSE g[j]]
  <2>3. next \in X
    <3>1. k + 1 \in 1..last /\ k \in 0..k
      OBVIOUS
    <3>2. step[k + 1] \in [X -> X] /\ g[k] \in X
      BY <3>1
    <3> QED
      BY <3>2
  <2> HIDE DEF next
  <2>4. f \in [0..(k + 1) -> X]
    BY <2>3
  <2>5. f[0] = first
    BY <2>2
  <2>6. ASSUME NEW i \in 1..(k + 1) PROVE f[i] = step[i][f[i - 1]]
    <3>1. f[i - 1] = g[i - 1]
      OBVIOUS
    <3>2. CASE i = k + 1
      BY <3>1, <3>2 DEF next
    <3>3. CASE i # k + 1
      BY <2>2, <3>1, <3>3
    <3> QED
      BY <3>2, <3>3
  <2> QED
    BY <2>4, <2>5, <2>6
<1>3. last \in T
  <2> HIDE DEF T
  <2> QED
    BY <1>1, <1>2, CountUp
<1> QED
  BY <1>3 DEF Computed

(***************************************************************************)
(* Sequences that are computed step by step.                               *)
(***************************************************************************)
LEMMA ToSetOf ==
  ASSUME NEW S, NEW s \in Seq(S)
  PROVE  /\ Len(s) \in Nat /\ DOMAIN s = 1..Len(s) /\ ToSet(s) \subseteq S
         /\ ToSet(s) = {s[i] : i \in 1..Len(s)}
         /\ s # <<>> <=> ToSet(s) # {}
BY DEF ToSet

LEMMA ElementsOf ==
  ASSUME NEW S, NEW s \in Seq(S)
  PROVE  \A i \in 1..Len(s) : s[i] \in ToSet(s) /\ s[i] \in S
BY ToSetOf

LEMMA ToSetOfAppend ==
  ASSUME NEW S, NEW s \in Seq(S), NEW x \in S
  PROVE  Append(s, x) \in Seq(S) /\ ToSet(Append(s, x)) = ToSet(s) \cup {x}
<1>1. Append(s, x) \in Seq(S) /\ Len(s) \in Nat /\ Len(Append(s, x)) = Len(s) + 1
  OBVIOUS
<1>2. \A i \in 1..(Len(s) + 1) : Append(s, x)[i] = IF i = Len(s) + 1 THEN x ELSE s[i]
  OBVIOUS
<1>3. ToSet(Append(s, x)) = {Append(s, x)[i] : i \in 1..(Len(s) + 1)}
  <2> DEFINE t == Append(s, x)
  <2>1. t \in Seq(S) /\ Len(t) = Len(s) + 1
    BY <1>1
  <2> HIDE DEF t
  <2>2. ToSet(t) = {t[i] : i \in 1..Len(t)}
    BY <2>1, ToSetOf
  <2>3. ToSet(t) = {t[i] : i \in 1..(Len(s) + 1)}
    BY <2>1, <2>2
  <2> QED
    BY <2>3 DEF t
<1>4. ToSet(s) = {s[i] : i \in 1..Len(s)}
  BY ToSetOf
<1> HIDE DEF ToSet
<1>5. ASSUME NEW y \in ToSet(Append(s, x)) PROVE y \in ToSet(s) \cup {x}
  BY <1>1, <1>2, <1>3, <1>4, <1>5
<1>6. ASSUME NEW y \in ToSet(s) PROVE y \in ToSet(Append(s, x))
  <2>1. PICK i \in 1..Len(s) : y = s[i]
    BY <1>4
  <2>2. i \in 1..(Len(s) + 1) /\ i # Len(s) + 1
    BY <1>1
  <2> QED
    BY <1>2, <1>3, <2>1, <2>2
<1>7. x \in ToSet(Append(s, x))
  <2>1. Len(s) + 1 \in 1..(Len(s) + 1)
    BY <1>1
  <2> QED
    BY <1>2, <1>3, <2>1
<1> QED
  BY <1>1, <1>5, <1>6, <1>7

LEMMA Sifted ==
  ASSUME NEW S, NEW s \in Seq(S), NEW keep, NEW out, out[0] = <<>>,
         \A i \in 1..Len(s) : out[i] = IF s[i] \in keep THEN Append(out[i - 1], s[i]) ELSE out[i - 1]
  PROVE  /\ out[Len(s)] \in Seq(S)
         /\ \A x : x \in ToSet(out[Len(s)]) <=> x \in ToSet(s) /\ x \in keep
<1> DEFINE Some(k) == {s[i] : i \in 1..k}
           Right(k) == out[k] \in Seq(S) /\ \A x : x \in ToSet(out[k]) <=> x \in Some(k) /\ x \in keep
           T == {k \in Nat : k <= Len(s) => Right(k)}
<1>1. Len(s) \in Nat /\ \A i \in 1..Len(s) : s[i] \in S
  OBVIOUS
<1>2. Right(0)
  <2>1. ToSet(<<>>) = {} /\ <<>> \in Seq(S)
    BY DEF ToSet
  <2>2. Some(0) = {}
    OBVIOUS
  <2> HIDE DEF Some
  <2> QED
    BY <2>1, <2>2
<1>3. ASSUME NEW k \in Nat, k + 1 <= Len(s), Right(k) PROVE Right(k + 1)
  <2>1. k + 1 \in 1..Len(s) /\ (k + 1) - 1 = k
    BY <1>1, <1>3
  <2>2. out[k + 1] = IF s[k + 1] \in keep THEN Append(out[k], s[k + 1]) ELSE out[k]
    BY <2>1
  <2>3. Some(k + 1) = Some(k) \cup {s[k + 1]}
    <3>1. 1..(k + 1) = (1..k) \cup {k + 1}
      OBVIOUS
    <3> QED
      BY <3>1
  <2>4. s[k + 1] \in S
    BY <1>1, <2>1
  <2> HIDE DEF Some
  <2>5. CASE s[k + 1] \notin keep
    BY <1>3, <2>2, <2>3, <2>5
  <2>6. CASE s[k + 1] \in keep
    BY <1>3, <2>2, <2>3, <2>4, <2>6, ToSetOfAppend
  <2> QED
    BY <2>5, <2>6
<1> HIDE DEF Right
<1>4. Nat \subseteq T
  <2>1. 0 \in T
    BY <1>2
  <2>2. \A k \in Nat : k \in T => k + 1 \in T
    BY <1>1, <1>3
  <2> HIDE DEF T
  <2> QED
    BY <2>1, <2>2, CountUp
<1>5. Right(Len(s))
  BY <1>1, <1>4
<1>6. ToSet(s) = Some(Len(s))
  BY ToSetOf
<1> QED
  BY <1>5, <1>6 DEF Right

LEMMA SiftIs ==
  ASSUME NEW S, NEW s \in Seq(S), NEW keep
  PROVE  /\ Sift(s, keep) \in Seq(S)
         /\ \A x : x \in ToSet(Sift(s, keep)) <=> x \in ToSet(s) /\ x \in keep
<1> DEFINE Then(i, before) == IF s[i] \in keep THEN Append(before, s[i]) ELSE before
           Is(f) == f = [i \in 0..Len(s) |-> IF i = 0 THEN <<>> ELSE Then(i, f[i - 1])]
           out == CHOOSE f : Is(f)
           step == [i \in 1..Len(s) |-> [before \in Seq(S) |-> Then(i, before)]]
<1>1. Len(s) \in Nat /\ \A i \in 1..Len(s) : s[i] \in S
  OBVIOUS
<1>2. \E f : Is(f)
  <2>1. step \in [1..Len(s) -> [Seq(S) -> Seq(S)]]
    <3>1. \A i \in 1..Len(s) : \A before \in Seq(S) : Then(i, before) \in Seq(S)
      BY <1>1
    <3> QED
      BY <3>1
  <2>2. <<>> \in Seq(S)
    OBVIOUS
  <2>3. PICK g \in [0..Len(s) -> Seq(S)] :
          g[0] = <<>> /\ \A i \in 1..Len(s) : g[i] = step[i][g[i - 1]]
    <3> HIDE DEF step
    <3>1. Computed(Seq(S), <<>>, Len(s), step)
      BY <1>1, <2>1, <2>2, StepByStep
    <3> QED
      BY <3>1 DEF Computed
  <2>4. ASSUME NEW i \in 1..Len(s) PROVE g[i] = Then(i, g[i - 1])
    <3>1. g[i - 1] \in Seq(S)
      BY <1>1
    <3>2. step[i][g[i - 1]] = Then(i, g[i - 1])
      <4> HIDE DEF Then
      <4> QED
        BY <3>1
    <3> QED
      BY <2>3, <3>2
  <2> HIDE DEF Then
  <2>5. \A i \in 0..Len(s) : g[i] = IF i = 0 THEN <<>> ELSE Then(i, g[i - 1])
    BY <1>1, <2>3, <2>4
  <2>6. Is(g)
    BY <2>5
  <2> QED
    BY <2>6
<1>3. Is(out)
  BY <1>2
<1>4. out[0] = <<>> /\ \A i \in 1..Len(s) : out[i] = Then(i, out[i - 1])
  <2> HIDE DEF Then, out
  <2> QED
    BY <1>1, <1>3
<1>5. Sift(s, keep) = out[Len(s)]
  BY DEF Sift
<1> HIDE DEF out
<1> QED
  BY <1>4, <1>5, Sifted

-----------------------------------------------------------------------------
(***************************************************************************)
(* The senders' funding.                                                   *)
(***************************************************************************)
Sent(a) == a \in money \cup known \/ \E i \in DOMAIN hashes : hashes[i] \in pool /\ hashes[i][2] = a

\* transactions of this run, and what has become of the accounts so far
Paid ==
  /\ fpc \in {"nonce", "loop", "await", "funded", "unfunded"}
  /\ acct \in Nat /\ used \subseteq money
  /\ hashes \in Seq({<<baseNonce + a, a>> : a \in Nat})
  /\ fpc = "nonce" => hashes = <<>> /\ acct = 0
  /\ fpc \in {"loop", "await"} => \A a \in Nat : a < acct => Sent(a)
  /\ fpc \in {"await", "funded"} => acct = wanted
  /\ fpc = "funded" => \A a \in 0..(wanted - 1) : a \in money \cup known

\* on a new network nobody has been paid or has sent before the funder, and
\* his transactions stand in the pool without a gap
FirstRun ==
  /\ known = {}
  /\ phase \in {"flags", "warmup", "prepare"} => fpc = "nonce"
  /\ fpc = "nonce" => pool = {} /\ mined = 0 /\ used = {} /\ money = {}
  /\ fpc \in {"loop", "await"} =>
       /\ phase = "fund" /\ baseNonce = 0 /\ used = {} /\ mined \in 0..acct
       /\ pool = {<<n, n>> : n \in mined..(acct - 1)}
  /\ fpc = "unfunded" => faults < setup.faults

FundInv ==
  /\ setup \in Setups /\ run \in Nat \ {0} /\ faults \in 0..setup.faults
  /\ Paid /\ (run = 1 => FirstRun)

LEMMA PaidFundStep ==
  ASSUME Paid, FundStep
  PROVE  Paid'
<1> USE DEF Paid, Sent
<1> DEFINE Txs == {<<baseNonce + a, a>> : a \in Nat}
<1>t. hashes \in Seq(Txs) /\ Len(hashes) \in Nat /\ DOMAIN hashes = 1..Len(hashes)
  OBVIOUS
<1>1. CASE ReadNonce
  <2>1. hashes' = <<>> /\ acct' = 0 /\ hashes' \in Seq(Txs') /\ UNCHANGED <<wanted, known, chainVars>>
    BY <1>1 DEF ReadNonce
  <2>2. fpc' \in {"loop", "unfunded"}
    BY <1>1 DEF ReadNonce
  <2> QED
    BY <2>1, <2>2 DEF chainVars
<1>2. CASE SkipAccount
  <2>1. /\ fpc = "loop" /\ acct \in used /\ acct' = acct + 1
        /\ UNCHANGED <<fpc, wanted, baseNonce, hashes, known, chainVars>>
    BY <1>2 DEF SkipAccount, NextAccount
  <2>2. ASSUME NEW a \in Nat, a < acct' PROVE Sent(a)
    BY <2>1, <2>2
  <2> QED
    BY <2>1, <2>2 DEF chainVars
<1>3. CASE SendTaken
  <2>1. /\ fpc = "loop" /\ pool' = pool \cup {Tx} /\ hashes' = Append(hashes, Tx)
        /\ acct' = acct + 1 /\ UNCHANGED <<fpc, wanted, baseNonce, known, mined, money, used>>
    BY <1>3 DEF SendTaken, Unused, NextAccount
  <2>2. Tx \in Txs /\ Tx[2] = acct
    BY DEF Tx
  <2>3. hashes' \in Seq(Txs)
    BY <1>t, <2>1, <2>2
  <2>4. /\ DOMAIN hashes' = 1..(Len(hashes) + 1) /\ hashes'[Len(hashes) + 1] = Tx
        /\ \A i \in DOMAIN hashes : hashes'[i] = hashes[i] /\ i \in DOMAIN hashes'
    BY <1>t, <2>1, <2>2
  <2>5. ASSUME NEW a \in Nat, a < acct' PROVE Sent(a)'
    <3>1. CASE a = acct
      <4>1. Len(hashes) + 1 \in DOMAIN hashes'
        BY <1>t, <2>4
      <4> QED
        BY <2>1, <2>2, <2>4, <3>1, <4>1
    <3>2. CASE a # acct
      <4>1. Sent(a)
        BY <2>1, <2>5, <3>2
      <4> QED
        BY <2>1, <2>4, <4>1
    <3> QED
      BY <3>1, <3>2
  <2> QED
    BY <2>1, <2>3, <2>5
<1>4. CASE SendKnown
  <2>1. /\ fpc = "loop" /\ known' = known \cup {acct} /\ acct' = acct + 1
        /\ UNCHANGED <<fpc, wanted, baseNonce, hashes, chainVars>>
    BY <1>4 DEF SendKnown, Unused, NextAccount
  <2>2. ASSUME NEW a \in Nat, a < acct' PROVE Sent(a)'
    BY <2>1, <2>2 DEF chainVars
  <2> QED
    BY <2>1, <2>2 DEF chainVars
<1>9. CASE SendUnderpriced
  BY <1>9 DEF SendUnderpriced, chainVars
<1>5. CASE SendFails
  BY <1>5 DEF SendFails
<1>6. CASE AllSent
  BY <1>6 DEF AllSent, chainVars
<1>7. CASE Confirmed
  <2>1. /\ fpc = "await" /\ fpc' = "funded"
        /\ UNCHANGED <<wanted, acct, baseNonce, hashes, known, chainVars>>
    BY <1>7 DEF Confirmed
  <2>2. ASSUME NEW a \in 0..(wanted - 1) PROVE a \in money \cup known
    <3>1. Sent(a)
      BY <2>1
    <3> QED
      BY <1>7, <3>1 DEF Confirmed, Unconfirmed
  <2> QED
    BY <2>1, <2>2 DEF chainVars
<1>8. CASE FundingDeadline
  BY <1>8 DEF FundingDeadline, chainVars
<1> QED
  BY <1>1, <1>2, <1>3, <1>4, <1>5, <1>6, <1>7, <1>8, <1>9 DEF FundStep

LEMMA PaidMine ==
  ASSUME Paid, MineFunding
  PROVE  Paid'
<1> USE DEF Paid, Sent
<1>1. PICK tx \in pool : pool' = pool \ {tx} /\ money' = money \cup {tx[2]}
  BY DEF MineFunding
<1>2. UNCHANGED <<fpc, wanted, acct, baseNonce, hashes, known, used>>
  BY DEF MineFunding, fundVars
<1>3. ASSUME NEW a \in Nat, Sent(a) PROVE Sent(a)'
  BY <1>1, <1>2, <1>3
<1> QED
  BY <1>1, <1>2, <1>3

LEMMA PaidDrain ==
  ASSUME Paid, used' \subseteq used \cup money, UNCHANGED <<fundVars, pool, mined, money>>
  PROVE  Paid'
BY DEF Paid, Sent, fundVars

LEMMA PaidBegin ==
  ASSUME Paid, NEW count, BeginFunding(count), UNCHANGED chainVars
  PROVE  Paid'
<1>1. hashes' \in Seq({<<baseNonce' + a, a>> : a \in Nat})
  BY DEF BeginFunding
<1> QED
  BY <1>1 DEF Paid, BeginFunding, chainVars

LEMMA FaultsCount ==
  ASSUME FundInv, Fault \/ UNCHANGED faults, UNCHANGED setup
  PROVE  faults' \in 0..setup'.faults
<1>1. setup.faults \in Nat
  BY PerfRunAssumption DEF FundInv, Setup
<1> QED
  BY <1>1 DEF FundInv, Fault

LEMMA FirstFundStep ==
  ASSUME FundInv, run = 1, phase = "fund", FundStep, UNCHANGED <<setup, run, phase>>
  PROVE  FirstRun'
<1> USE DEF FundInv, FirstRun, chainVars
<1>0. /\ FirstRun /\ acct \in Nat /\ setup.faults \in Nat /\ faults \in 0..setup.faults
      /\ hashes \in Seq({<<baseNonce + a, a>> : a \in Nat})
  BY PerfRunAssumption DEF Setup, Paid
<1>1. CASE ReadNonce
  <2>1. fpc = "nonce" /\ pool = {} /\ mined = 0 /\ used = {} /\ acct = 0
    BY <1>0, <1>1 DEF ReadNonce, Paid
  <2>2. PendingNonce = 0
    <3>1. Cardinality(pool) = 0 /\ mined..(mined + Cardinality(pool)) = {0}
      BY <2>1, FS_EmptySet
    <3>2. ~Taken(0) /\ \A k \in mined..(0 - 1) : Taken(k)
      BY <2>1 DEF Taken
    <3> QED
      BY <2>1, <3>1, <3>2 DEF PendingNonce
  <2>3. UNCHANGED <<acct, known, chainVars>>
    BY <1>1 DEF ReadNonce
  <2>4. CASE baseNonce' = PendingNonce /\ fpc' = "loop"
    <3>1. {<<n, n>> : n \in 0..(0 - 1)} = {}
      OBVIOUS
    <3> QED
      BY <1>0, <2>1, <2>2, <2>3, <2>4, <3>1
  <2>5. CASE fpc' = "unfunded" /\ Fault
    BY <1>0, <2>1, <2>3, <2>5 DEF Fault
  <2> QED
    BY <1>1, <2>4, <2>5 DEF ReadNonce
<1>2. CASE SkipAccount
  BY <1>0, <1>2 DEF SkipAccount
<1>3. CASE SendTaken
  <2>1. /\ fpc = "loop" /\ baseNonce = 0 /\ used = {} /\ mined \in 0..acct
        /\ pool = {<<n, n>> : n \in mined..(acct - 1)}
    BY <1>0, <1>3 DEF SendTaken, Unused
  <2>2. /\ pool' = pool \cup {<<acct, acct>>} /\ acct' = acct + 1
        /\ UNCHANGED <<fpc, baseNonce, known, mined, money, used>>
    BY <1>0, <1>3, <2>1 DEF SendTaken, NextAccount, Tx
  <2>3. pool' = {<<n, n>> : n \in mined..acct}
    <3>1. mined..acct = (mined..(acct - 1)) \cup {acct}
      BY <1>0, <2>1
    <3> QED
      BY <2>1, <2>2, <3>1
  <2>4. (acct + 1) - 1 = acct /\ mined \in 0..(acct + 1)
    BY <1>0, <2>1
  <2> QED
    BY <1>0, <2>1, <2>2, <2>3, <2>4
<1>4. CASE SendKnown \/ SendUnderpriced
  <2>1. /\ baseNonce = 0 /\ mined \in 0..acct /\ pool = {<<n, n>> : n \in mined..(acct - 1)}
    BY <1>0, <1>4 DEF SendKnown, SendUnderpriced, Unused
  <2>2. Tx = <<acct, acct>> /\ Tx[1] = acct
    BY <1>0, <2>1 DEF Tx
  <2>3. Tx \in pool
    BY <1>0, <1>4, <2>1, <2>2 DEF SendKnown, SendUnderpriced
  <2>4. PICK n \in mined..(acct - 1) : Tx = <<n, n>>
    BY <2>1, <2>3
  <2>5. n = acct
    BY <2>2, <2>4
  <2> QED
    BY <1>0, <2>1, <2>5
<1>5. CASE SendFails
  BY <1>0, <1>5 DEF SendFails, Fault
<1>6. CASE AllSent
  BY <1>0, <1>6 DEF AllSent
<1>7. CASE Confirmed
  BY <1>0, <1>7 DEF Confirmed
<1>8. CASE FundingDeadline
  <2>1. /\ fpc = "await" /\ fpc' = "unfunded" /\ Unconfirmed /\ UNCHANGED <<known, chainVars>>
    BY <1>8 DEF FundingDeadline
  <2>2. mined \in 0..acct /\ pool = {<<n, n>> : n \in mined..(acct - 1)}
    BY <1>0, <2>1
  <2>3. PICK n \in mined..(acct - 1) : <<n, n>> \in pool
    BY <2>1, <2>2 DEF Unconfirmed
  <2>4. mined \in mined..(acct - 1)
    BY <1>0, <2>2, <2>3
  <2>5. <<mined, mined>> \in pool /\ <<mined, mined>>[1] = mined
    BY <2>2, <2>4
  <2>6. Fault
    BY <1>8, <2>5 DEF FundingDeadline, Minable
  <2> QED
    BY <1>0, <2>1, <2>6 DEF Fault
<1> QED
  BY <1>1, <1>2, <1>3, <1>4, <1>5, <1>6, <1>7, <1>8 DEF FundStep

LEMMA FirstMine ==
  ASSUME FundInv, run = 1, MineFunding, UNCHANGED <<setup, run, phase>>
  PROVE  FirstRun'
<1> USE DEF FundInv, FirstRun, fundVars
<1>0. FirstRun /\ acct \in Nat
  BY DEF Paid
<1>1. PICK tx \in pool : tx[1] = mined /\ pool' = pool \ {tx} /\ mined' = mined + 1
  BY DEF MineFunding
<1>2. UNCHANGED <<fundVars, used, faults>>
  BY DEF MineFunding
<1>3. fpc # "nonce"
  BY <1>0, <1>1
<1>4. CASE fpc \in {"loop", "await"}
  <2>1. mined \in 0..acct /\ pool = {<<n, n>> : n \in mined..(acct - 1)}
    BY <1>0, <1>4
  <2>2. PICK n \in mined..(acct - 1) : tx = <<n, n>>
    BY <1>1, <2>1
  <2>3. n = mined /\ mined' \in 0..acct
    BY <1>0, <1>1, <2>1, <2>2
  <2>4. pool' = {<<k, k>> : k \in mined'..(acct - 1)}
    <3>1. (mined..(acct - 1)) \ {mined} = mined'..(acct - 1)
      BY <1>0, <1>1, <2>1, <2>3
    <3>2. \A k : <<k, k>> = tx <=> k = mined
      BY <2>2, <2>3
    <3> QED
      BY <1>1, <2>1, <3>1, <3>2
  <2> QED
    BY <1>0, <1>2, <1>4, <2>3, <2>4
<1>5. CASE fpc \notin {"loop", "await"}
  BY <1>0, <1>2, <1>3, <1>5
<1> QED
  BY <1>4, <1>5

\* what the steps that leave the funding alone have to respect
Early == {"flags", "warmup", "prepare"}

LEMMA FundingRests ==
  ASSUME FundInv, UNCHANGED <<setup, fundVars, chainVars>>, Fault \/ UNCHANGED faults,
         run' \in {run, run + 1}, run' = run => phase' \notin Early \/ phase \in Early,
         phase = "fund" => phase' = "fund" \/ fpc \in {"funded", "unfunded"}
  PROVE  FundInv'
<1>1. faults' \in 0..setup'.faults
  BY FaultsCount
<1>2. Paid'
  BY PaidDrain DEF FundInv, chainVars
<1>3. run' \in Nat \ {0} /\ (run' = 1 => run = 1)
  BY DEF FundInv
<1>4. setup.faults \in Nat /\ faults' <= faults /\ faults \in Nat
  BY PerfRunAssumption DEF FundInv, Setup, Fault
<1>5. ASSUME run' = 1 PROVE FirstRun'
  <2>1. FirstRun /\ run' = run
    BY <1>3, <1>5 DEF FundInv
  <2>2. /\ fpc = "unfunded" => faults' < setup'.faults
        /\ fpc \in {"loop", "await"} => phase' = "fund"
        /\ phase' \in Early => fpc = "nonce"
    BY <1>1, <1>4, <2>1 DEF FirstRun, Early
  <2> QED
    BY <2>1, <2>2 DEF FirstRun, fundVars, chainVars, Early
<1> QED
  BY <1>1, <1>2, <1>3, <1>5 DEF FundInv

LEMMA FundingStarts ==
  ASSUME Init
  PROVE  FundInv
<1>1. hashes \in Seq({<<baseNonce + a, a>> : a \in Nat})
  BY DEF Init, FundInit
<1>2. setup.faults \in Nat
  BY PerfRunAssumption DEF Init, Setup
<1>3. Paid
  BY <1>1 DEF Paid, Init, FundInit
<1> QED
  BY <1>2, <1>3 DEF Init, FundInit, FundInv, FirstRun, Fresh

LEMMA FundingStep ==
  ASSUME FundInv, Next
  PROVE  FundInv'
<1> USE DEF Early
<1>1. CASE Flags
  <2>1. /\ phase \in Early /\ phase # "fund" /\ UNCHANGED <<setup, run, fundVars, chainVars>>
        /\ Fault \/ UNCHANGED faults
    BY <1>1 DEF Flags
  <2> QED
    BY <2>1, FundingRests
<1>2. CASE WarmUp
  <2>1. /\ phase \in Early /\ phase # "fund"
        /\ UNCHANGED <<setup, run, fundVars, chainVars, faults>>
    BY <1>2 DEF WarmUp
  <2> QED
    BY <2>1, FundingRests
<1>3. CASE Prepare
  <2>1. PICK count : BeginFunding(count)
    BY <1>3 DEF Prepare
  <2>2. phase = "prepare" /\ phase' = "fund" /\ UNCHANGED <<setup, run, chainVars, faults>>
    BY <1>3 DEF Prepare
  <2>3. Paid'
    BY <2>1, <2>2, PaidBegin DEF FundInv
  <2>4. ASSUME run = 1 PROVE FirstRun'
    BY <2>1, <2>2, <2>4 DEF FundInv, FirstRun, BeginFunding, chainVars
  <2> QED
    BY <2>2, <2>3, <2>4 DEF FundInv
<1>4. CASE Fund
  <2>1. phase = "fund" /\ FundStep /\ UNCHANGED <<setup, run, phase>>
    BY <1>4 DEF Fund, perfVars, control
  <2>2. Fault \/ UNCHANGED faults
    <3> USE <2>1 DEF FundStep
    <3>1. ASSUME Unused PROVE Fault \/ UNCHANGED faults
      BY <3>1 DEF Unused
    <3>2. ReadNonce \/ AllSent \/ Confirmed \/ FundingDeadline => Fault \/ UNCHANGED faults
      BY DEF ReadNonce, AllSent, Confirmed, FundingDeadline
    <3>3. SkipAccount \/ SendFails => Fault \/ UNCHANGED faults
      BY DEF SkipAccount, SendFails
    <3>4. SendTaken \/ SendKnown \/ SendUnderpriced => Unused
      BY DEF SendTaken, SendKnown, SendUnderpriced
    <3> QED
      BY <3>1, <3>2, <3>3, <3>4
  <2>3. faults' \in 0..setup'.faults
    BY <2>1, <2>2, FaultsCount
  <2>4. Paid'
    BY <2>1, PaidFundStep DEF FundInv
  <2>5. run = 1 => FirstRun'
    BY <2>1, FirstFundStep
  <2> QED
    BY <2>1, <2>3, <2>4, <2>5 DEF FundInv
<1>5. CASE Funded
  <2>1. /\ fpc \in {"funded", "unfunded"} /\ phase' \notin Early
        /\ UNCHANGED <<setup, run, fundVars, chainVars>> /\ (Fault \/ UNCHANGED faults)
    BY <1>5 DEF Funded, Exit
  <2> QED
    BY <2>1, FundingRests
<1>6. CASE Sync
  <2>1. /\ phase # "fund" /\ phase' \notin Early
        /\ UNCHANGED <<setup, run, fundVars, chainVars>> /\ (Fault \/ UNCHANGED faults)
    BY <1>6 DEF Sync, Exit
  <2> QED
    BY <2>1, FundingRests
<1>7. CASE NextTier
  <2>1. /\ phase # "fund" /\ phase' \notin Early
        /\ UNCHANGED <<setup, run, fundVars, chainVars, faults>>
    BY <1>7 DEF NextTier
  <2> QED
    BY <2>1, FundingRests
<1>8. CASE WriteMetrics \/ WriteVerdict \/ WriteSummary \/ End
  <2>1. /\ phase # "fund" /\ phase' \notin Early
        /\ UNCHANGED <<setup, run, fundVars, chainVars>> /\ (Fault \/ UNCHANGED faults)
    BY <1>8 DEF WriteMetrics, WriteVerdict, WriteSummary, End, Write, Exit
  <2> QED
    BY <2>1, FundingRests
<1>9. CASE Ask
  <2>1. /\ phase # "fund" /\ UNCHANGED <<setup, run, phase, fundVars, chainVars>>
        /\ Fault \/ UNCHANGED faults
    BY <1>9 DEF Ask, control, Querying
  <2> QED
    BY <2>1, FundingRests
<1>10. CASE FirstQuery \/ Sample \/ Judge
  <2>1. /\ phase # "fund" /\ phase' \notin Early
        /\ UNCHANGED <<setup, run, fundVars, chainVars, faults>>
    BY <1>10 DEF FirstQuery, Sample, Judge
  <2> QED
    BY <2>1, FundingRests
<1>11. CASE Drain
  <2>1. /\ phase = "drain" /\ phase' = "last" /\ used' \subseteq used \cup money
        /\ UNCHANGED <<setup, run, fundVars, pool, mined, money, faults>>
    BY <1>11 DEF Drain
  <2>2. Paid'
    BY <2>1, PaidDrain DEF FundInv
  <2>3. ASSUME run = 1 PROVE FirstRun'
    <3>1. FirstRun /\ fpc \notin {"loop", "await"} /\ (fpc = "nonce" => used' = {})
      BY <2>1, <2>3 DEF FundInv, FirstRun
    <3> QED
      BY <2>1, <3>1 DEF FirstRun, fundVars
  <2> QED
    BY <2>1, <2>2, <2>3 DEF FundInv
<1>12. CASE Chain
  <2>1. /\ phase # "fund" /\ UNCHANGED <<setup, run, phase, fundVars, chainVars, faults>>
    BY <1>12 DEF Chain, Grow, DropBlock, control, Querying
  <2> QED
    BY <2>1, FundingRests
<1>13. CASE Mine
  <2>1. MineFunding /\ UNCHANGED <<setup, run, phase, faults>>
    BY <1>13 DEF Mine, perfVars, control, MineFunding
  <2>2. Paid'
    BY <2>1, PaidMine DEF FundInv
  <2>3. run = 1 => FirstRun'
    BY <2>1, FirstMine
  <2> QED
    BY <2>1, <2>2, <2>3 DEF FundInv
<1>14. CASE Rerun
  <2>1. phase = "exit" /\ run' = run + 1 /\ UNCHANGED <<setup, fundVars, chainVars, faults>>
    BY <1>14 DEF Rerun
  <2>2. run' # run
    BY <2>1 DEF FundInv
  <2> QED
    BY <2>1, <2>2, FundingRests
<1> QED
  BY <1>1, <1>2, <1>3, <1>4, <1>5, <1>6, <1>7, <1>8, <1>9, <1>10, <1>11, <1>12, <1>13, <1>14
     DEF Next, Main, RunTier

LEMMA FundingStutters ==
  ASSUME FundInv, UNCHANGED vars
  PROVE  FundInv'
<1>1. UNCHANGED <<setup, run, phase, fundVars, chainVars, faults>>
  BY DEF vars, perfVars, control
<1> QED
  BY <1>1, FundingRests

LEMMA FundingAlways == Spec => []FundInv
<1>1. FundInv /\ [Next]_vars => FundInv'
  BY FundingStep, FundingStutters
<1> QED
  BY <1>1, FundingStarts, PTL DEF Spec

\* On every network, with any number of runs, senders and failing calls: a
\* preparation that succeeds has paid every sender whose transaction the node
\* did not already know, the first run never meets one it knows, and its
\* preparation fails only when a call does (prepareSenderAccounts).
THEOREM Funds == Spec => []SendersFunded
<1>1. FundInv => SendersFunded
  <2> SUFFICES ASSUME FundInv PROVE SendersFunded
    OBVIOUS
  <2>1. run # 1 => run > 1
    BY DEF FundInv
  <2> QED
    BY <2>1 DEF FundInv, Paid, FirstRun, SendersFunded
<1> QED
  BY <1>1, FundingAlways, PTL

-----------------------------------------------------------------------------
(***************************************************************************)
(* The tiers and the nodes of a run.                                       *)
(***************************************************************************)
Climbs(t, low, step, target) ==
  /\ t \in Seq(Int) /\ t # <<>> /\ t[1] = low /\ t[Len(t)] = target
  /\ \A i \in 1..(Len(t) - 1) : t[i + 1] - t[i] \in 1..step /\ t[i] < target

LEMMA StepsClimb ==
  ASSUME NEW low \in Int, NEW step \in Int, step > 0, NEW target \in Int, target >= low
  PROVE  Climbs(MaxTPSSteps(low, step, target), low, step, target)
<1> DEFINE q == (target - low) \div step
           even == [i \in 1..(q + 1) |-> low + (i - 1) * step]
<1>1. q \in Nat /\ step * q <= target - low /\ target - low < step * q + step
  <2>1. target - low \in Nat
    OBVIOUS
  <2>2. \A d \in Nat : d \div step \in Nat /\ step * (d \div step) <= d /\ d < step * (d \div step) + step
    OBVIOUS
  <2> QED
    BY <2>1, <2>2
<1> HIDE DEF q
<1>2. \A i \in Int : (i - 1) * step \in Int /\ i * step = (i - 1) * step + step
  OBVIOUS
<1>3. even \in Seq(Int) /\ Len(even) = q + 1
  BY <1>1, <1>2
<1>4. \A i \in 1..(q + 1) : even[i] = low + (i - 1) * step
  OBVIOUS
<1>5. even[1] = low /\ even[q + 1] = low + step * q
  BY <1>1, <1>4
<1>6. ASSUME NEW i \in 1..q PROVE even[i + 1] = even[i] + step /\ even[i + 1] <= target
  <2>1. even[i + 1] = low + i * step /\ even[i] = low + (i - 1) * step
    BY <1>1, <1>4
  <2>2. i * step <= q * step
    BY <1>1
  <2> QED
    BY <1>1, <1>2, <2>1, <2>2
<1>7. Last(even) = even[q + 1]
  BY <1>3 DEF Last
<1>8. CASE Last(even) = target
  <2>1. MaxTPSSteps(low, step, target) = even
    BY <1>8 DEF MaxTPSSteps, q
  <2> HIDE DEF even
  <2>2. ASSUME NEW i \in 1..q PROVE even[i + 1] - even[i] \in 1..step /\ even[i] < target
    <3>1. i \in 1..(q + 1)
      BY <1>1
    <3>2. even[i] \in Int
      BY <1>3, <3>1
    <3>3. even[i + 1] = even[i] + step /\ even[i + 1] <= target
      BY <1>6
    <3> QED
      BY <3>2, <3>3
  <2> QED
    BY <1>1, <1>3, <1>5, <1>7, <1>8, <2>1, <2>2 DEF Climbs
<1>9. CASE Last(even) # target
  <2> DEFINE t == Append(even, target)
  <2>1. MaxTPSSteps(low, step, target) = t
    BY <1>9 DEF MaxTPSSteps, q
  <2> HIDE DEF even
  <2>2. /\ t \in Seq(Int) /\ Len(t) = q + 2 /\ t[q + 2] = target
        /\ \A i \in 1..(q + 1) : t[i] = even[i]
    BY <1>1, <1>3
  <2> HIDE DEF t
  <2>3. even[q + 1] < target /\ target - even[q + 1] \in 1..step
    BY <1>1, <1>2, <1>5, <1>7, <1>9
  <2>4. ASSUME NEW i \in 1..(q + 1) PROVE t[i + 1] - t[i] \in 1..step /\ t[i] < target
    <3>1. CASE i = q + 1
      BY <1>1, <2>2, <2>3, <3>1
    <3>2. CASE i # q + 1
      <4>1. i \in 1..q /\ i + 1 \in 1..(q + 1) /\ even[i] \in Int
        BY <1>1, <1>3, <3>2
      <4> QED
        BY <1>6, <2>2, <4>1
    <3> QED
      BY <3>1, <3>2
  <2> QED
    BY <1>1, <1>5, <2>1, <2>2, <2>4 DEF Climbs
<1> QED
  BY <1>8, <1>9

LEMMA TiersOf ==
  ASSUME setup \in Setups, ValidFlags
  PROVE  /\ TierList \in Seq(Int) /\ TierList # <<>>
         /\ setup.mode = "max" => Climbs(TierList, setup.base, setup.step, setup.target)
<1>1. /\ setup.base \in Int /\ setup.step \in Int /\ setup.target \in Int
      /\ setup.list \in Seq(Int)
  BY PerfRunAssumption DEF Setup
<1>2. CASE setup.mode = "max"
  <2>1. setup.step > 0 /\ setup.target >= setup.base
    BY <1>2 DEF ValidFlags
  <2>2. Climbs(MaxTPSSteps(setup.base, setup.step, setup.target), setup.base, setup.step, setup.target)
    BY <1>1, <2>1, StepsClimb
  <2> QED
    BY <1>2, <2>2 DEF TierList, Climbs
<1>3. CASE setup.mode # "max"
  BY <1>1, <1>3, SiftIs DEF TierList, ValidFlags, TPSList
<1> QED
  BY <1>2, <1>3

\* every node that is asked is one of the network
Asked ==
  /\ LagNodes \in Seq(Nodes) /\ Nodes \subseteq Nat \ {0}
  /\ (~Multi => LagNodes # <<>>)

LEMMA AskedNodes ==
  ASSUME setup \in Setups
  PROVE  Asked
<1>1. setup.rpcs \in Seq(Nat \ {0}) /\ setup.urls \in Seq(Nat) /\ setup.rpcs # <<>>
  BY PerfRunAssumption DEF Setup
<1>2. /\ ToSet(setup.rpcs) \subseteq Nat \ {0} /\ ToSet(setup.urls) \subseteq Nat
      /\ \A i \in 1..Len(setup.rpcs) : setup.rpcs[i] \in ToSet(setup.rpcs)
      /\ \A i \in 1..Len(setup.urls) : setup.urls[i] \in ToSet(setup.urls)
      /\ Len(setup.rpcs) \in Nat \ {0} /\ Len(setup.urls) \in Nat
  <2>1. ToSet(setup.rpcs) \subseteq Nat \ {0} /\ ToSet(setup.urls) \subseteq Nat
    BY <1>1, ToSetOf
  <2>2. \A i \in 1..Len(setup.rpcs) : setup.rpcs[i] \in ToSet(setup.rpcs)
    BY <1>1, ElementsOf
  <2>3. \A i \in 1..Len(setup.urls) : setup.urls[i] \in ToSet(setup.urls)
    BY <1>1, ElementsOf
  <2>4. Len(setup.rpcs) \in Nat \ {0} /\ Len(setup.urls) \in Nat
    BY <1>1
  <2> QED
    BY <2>1, <2>2, <2>3, <2>4
<1>3. Nodes \subseteq Nat \ {0}
  BY <1>2 DEF Nodes
<1>4. CASE ~Multi
  <2>1. 1 \in 1..Len(setup.rpcs)
    BY <1>2
  <2>2. setup.rpcs[1] \in Nodes
    BY <1>2, <2>1 DEF Nodes
  <2> QED
    BY <1>3, <1>4, <2>2 DEF LagNodes, Asked
<1>5. CASE Multi /\ setup.urls = <<>>
  <2>1. setup.rpcs \in Seq(Nodes)
    <3>1. \A i \in 1..Len(setup.rpcs) : setup.rpcs[i] \in Nodes
      BY <1>2 DEF Nodes
    <3> QED
      BY <1>1, <3>1
  <2> QED
    BY <1>3, <1>5, <2>1 DEF LagNodes, Asked
<1>6. CASE Multi /\ setup.urls # <<>>
  <2> DEFINE last == Len(setup.urls)
             Then(i, before) == IF setup.urls[i] \in {0} \cup ToSet(before) THEN before
                                ELSE Append(before, setup.urls[i])
             Is(f) == f = [i \in 0..last |-> IF i = 0 THEN <<>> ELSE Then(i, f[i - 1])]
             seen == CHOOSE f : Is(f)
             step == [i \in 1..last |-> [before \in Seq(Nodes) |-> Then(i, before)]]
  <2>1. step \in [1..last -> [Seq(Nodes) -> Seq(Nodes)]]
    <3>1. ASSUME NEW i \in 1..last, NEW before \in Seq(Nodes) PROVE Then(i, before) \in Seq(Nodes)
      <4>1. setup.urls[i] # 0 => setup.urls[i] \in Nodes
        BY <1>2 DEF Nodes
      <4> QED
        BY <4>1
    <3> QED
      BY <3>1
  <2>2. last \in Nat /\ <<>> \in Seq(Nodes)
    BY <1>2
  <2>3. PICK g \in [0..last -> Seq(Nodes)] : g[0] = <<>> /\ \A i \in 1..last : g[i] = step[i][g[i - 1]]
    <3> HIDE DEF step, last
    <3>1. Computed(Seq(Nodes), <<>>, last, step)
      BY <2>1, <2>2, StepByStep
    <3> QED
      BY <3>1 DEF Computed
  <2> HIDE DEF last
  <2>4. ASSUME NEW i \in 1..last PROVE g[i] = Then(i, g[i - 1])
    <3>1. g[i - 1] \in Seq(Nodes)
      BY <2>2
    <3>2. step[i][g[i - 1]] = Then(i, g[i - 1])
      <4> HIDE DEF Then
      <4> QED
        BY <3>1
    <3> QED
      BY <2>3, <3>2
  <2>5. Is(g)
    <3> HIDE DEF Then, step
    <3>1. \A i \in 0..last : g[i] = IF i = 0 THEN <<>> ELSE Then(i, g[i - 1])
      BY <2>2, <2>3, <2>4
    <3> QED
      BY <3>1
  <2>6. \A f : Is(f) => f[last] = g[last]
    <3> HIDE DEF Then
    <3>1. SUFFICES ASSUME NEW f, Is(f) PROVE f[last] = g[last]
      OBVIOUS
    <3>2. \A i \in 0..last : f[i] = IF i = 0 THEN <<>> ELSE Then(i, f[i - 1])
      BY <3>1
    <3>3. \A i \in 0..last : g[i] = IF i = 0 THEN <<>> ELSE Then(i, g[i - 1])
      BY <2>5
    <3> DEFINE T == {k \in Nat : k <= last => f[k] = g[k]}
    <3>4. 0 \in T
      BY <2>2, <3>2, <3>3
    <3>5. \A k \in Nat : k \in T => k + 1 \in T
      <4> SUFFICES ASSUME NEW k \in Nat, k \in T, k + 1 <= last PROVE f[k + 1] = g[k + 1]
        OBVIOUS
      <4>1. k + 1 \in 0..last /\ k + 1 # 0 /\ (k + 1) - 1 = k /\ f[k] = g[k]
        BY <2>2
      <4> QED
        BY <3>2, <3>3, <4>1
    <3> HIDE DEF T
    <3>6. last \in T
      BY <2>2, <3>4, <3>5, CountUp
    <3> QED
      BY <3>6 DEF T
  <2>7. Is(seen)
    <3> HIDE DEF Is
    <3> QED
      BY <2>5
  <2>8. LagNodes = seen[last]
    BY <1>6 DEF LagNodes, last
  <2>9. LagNodes = g[last]
    <3> HIDE DEF Is, seen
    <3> QED
      BY <2>6, <2>7, <2>8
  <2> QED
    BY <1>3, <1>6, <2>2, <2>3, <2>9 DEF Asked
<1> QED
  BY <1>4, <1>5, <1>6

LEMMA NodesStay ==
  ASSUME UNCHANGED setup
  PROVE  UNCHANGED <<LagNodes, Nodes, Primary, Multi>>
<1>1. UNCHANGED Multi
  BY DEF Multi
<1>2. UNCHANGED LagNodes
  BY <1>1 DEF LagNodes
<1> QED
  BY <1>1, <1>2 DEF Nodes, Primary

-----------------------------------------------------------------------------
(***************************************************************************)
(* Where a run can be, and what its variables hold there.                  *)
(***************************************************************************)
Opening == {"flags", "warmup", "prepare", "fund"}
InTier == {"first", "sample", "drain", "last"}
Closing == {"metrics", "verdict", "summary", "end", "exit"}
Notes == {"accepted_rate", "confirmed_rate", "pending_backlog", "max_height_lag", "p95_latency",
          "stall_window", "sender_backpressure_drop"}
Summary == [tps : Int, growth : Nat, status : {"PASS", "FAIL"}, notes : Seq(Notes)]

Control ==
  /\ setup \in Setups /\ run \in 1..setup.runs
  /\ phase \in Opening \cup {"sync", "judged"} \cup InTier \cup Closing
  /\ exit \in {-1, 0, 1} /\ (exit = -1 <=> phase # "exit")
  /\ warmup \in {"none", "PASS", "FAIL"} /\ (warmup = "FAIL" => phase \in Closing /\ summaries = <<>>)
  /\ phase \in {"prepare", "fund", "sync", "judged"} \cup InTier => LagNodes # <<>>

Progress ==
  /\ tiers = <<>> \/ (ValidFlags /\ tiers = TierList)
  /\ phase = "flags" => tiers = <<>>
  /\ phase \notin {"flags", "exit"} => tiers # <<>>
  /\ tier \in 0..Len(tiers)
  /\ summaries \in Seq(Summary) /\ Len(summaries) <= Len(tiers)
  /\ phase \in Opening => tier = 0 /\ summaries = <<>> /\ search = NoSearch
  /\ phase \in {"sync"} \cup InTier => tier > 0 /\ Len(summaries) = tier - 1
  /\ phase = "judged" => tier > 0 /\ Len(summaries) = tier

Readings ==
  /\ h \in [Nodes -> 1..setup.height] /\ base \in [Nodes -> 1..setup.height] /\ drops \in Nat
  /\ read \in Seq(1..setup.height) /\ Len(read) <= Len(LagNodes)
  /\ failed \in BOOLEAN /\ moved \in BOOLEAN /\ blank \in BOOLEAN
  /\ ~Querying => read = <<>> /\ failed = FALSE

Measures ==
  /\ startHeight \in 0..setup.height /\ lastPrimary \in 0..setup.height
  /\ stall \in Nat /\ maxStall \in Nat /\ maxLag \in Nat
  /\ taken \in 0..setup.samples /\ slow \in 0..taken /\ (phase = "sample" => taken < setup.samples)
  /\ slow <= setup.slows /\ (phase = "first" => taken = 0)
  /\ drain \in [sent : Nat, accepted : Nat, confirmed : Nat, backlog : Nat, drop : Nat]
  /\ still \in Nat /\ maxStill \in Nat /\ sureLag \in Nat /\ farLag \in Nat /\ made \in Nat

\* what a query that has been answered returns
LEMMA Reads ==
  ASSUME Control, Readings, Querying, Answered
  PROVE  /\ LagRead \in Nat /\ setup.height \in Nat \ {0}
         /\ ~failed => /\ Len(read) = Len(LagNodes) /\ Len(read) \in Nat \ {0}
                       /\ read[1] \in 1..setup.height
                       /\ \A i, k \in 1..Len(read) : read[i] - read[k] <= LagRead
                       /\ \E i, k \in 1..Len(read) : LagRead = read[i] - read[k]
<1>1. setup.height \in Nat \ {0}
  BY PerfRunAssumption DEF Control, Setup
<1>2. LagNodes \in Seq(Nodes) /\ LagNodes # <<>>
  BY AskedNodes DEF Asked, Control, Querying, InTier
<1>5. read \in Seq(1..setup.height)
  BY DEF Readings
<1>3. CASE failed
  BY <1>1, <1>3 DEF LagRead
<1>4. CASE ~failed
  <2>1. Len(read) = Len(LagNodes) /\ Len(read) \in Nat \ {0}
    BY <1>2, <1>4, <1>5 DEF Answered
  <2>2. \A i \in 1..Len(read) : read[i] \in ToSet(read) /\ read[i] \in 1..setup.height
    BY <1>5, ElementsOf
  <2> DEFINE S == ToSet(read)
  <2>3. S \subseteq 1..setup.height /\ S = {read[i] : i \in 1..Len(read)} /\ S # {}
    <3>1. read # <<>>
      BY <1>5, <2>1
    <3>2. PICK R : R = 1..setup.height
      OBVIOUS
    <3>3. read \in Seq(R)
      BY <1>5, <3>2
    <3>4. /\ ToSet(read) \subseteq R /\ ToSet(read) = {read[i] : i \in 1..Len(read)}
          /\ read # <<>> <=> ToSet(read) # {}
      BY <3>3, ToSetOf
    <3> QED
      BY <3>1, <3>2, <3>4
  <2> HIDE DEF S
  <2>4. MaxOf(S) \in S /\ \A x \in S : x <= MaxOf(S)
    <3>1. S \subseteq Int /\ setup.height \in Int /\ \A x \in S : x <= setup.height
      BY <1>1, <2>3
    <3> QED
      BY <2>3, <3>1, MaxOfIs
  <2>5. MinOf(S) \in S /\ \A x \in S : MinOf(S) <= x
    <3>1. S \subseteq Nat
      BY <1>1, <2>3
    <3> QED
      BY <2>3, <3>1, MinOfIs
  <2>6. LagRead = MaxOf(S) - MinOf(S)
    BY <1>4 DEF LagRead, S
  <2>7. LagRead \in Nat
    <3>1. MaxOf(S) \in 1..setup.height /\ MinOf(S) \in 1..setup.height /\ MinOf(S) <= MaxOf(S)
      BY <2>3, <2>4, <2>5
    <3> QED
      BY <1>1, <2>6, <3>1
  <2>8. ASSUME NEW i \in 1..Len(read), NEW k \in 1..Len(read) PROVE read[i] - read[k] <= LagRead
    <3>1. read[i] \in S /\ read[k] \in S
      BY <2>2 DEF S
    <3>2. read[i] <= MaxOf(S) /\ MinOf(S) <= read[k]
      BY <2>4, <2>5, <3>1
    <3>3. read[i] \in Int /\ read[k] \in Int /\ MaxOf(S) \in Int /\ MinOf(S) \in Int
      BY <2>3, <2>4, <2>5, <3>1
    <3> QED
      BY <2>6, <3>2, <3>3
  <2>9. \E i, k \in 1..Len(read) : LagRead = read[i] - read[k]
    BY <2>3, <2>4, <2>5, <2>6
  <2>10. 1 \in 1..Len(read)
    BY <2>1
  <2>11. read[1] \in 1..setup.height
    BY <2>2, <2>10
  <2> QED
    BY <1>1, <2>1, <2>7, <2>8, <2>9, <2>11
<1> QED
  BY <1>3, <1>4

\* a number that is raised to what a set of differences holds
LEMMA Raised ==
  ASSUME NEW m \in Nat, NEW D, D \subseteq Int, NEW bound \in Nat, \A x \in D : x <= bound
  PROVE  /\ MaxOf({m} \cup D) \in Nat /\ m <= MaxOf({m} \cup D)
         /\ \A x \in D : x <= MaxOf({m} \cup D)
         /\ MaxOf({m} \cup D) \in {m} \cup D
<1> DEFINE S == {m} \cup D
<1>1. S # {} /\ S \subseteq Int /\ m \in S /\ \A x \in S : x <= m + bound
  OBVIOUS
<1>2. m + bound \in Int
  OBVIOUS
<1> HIDE DEF S
<1>3. MaxOf(S) \in S /\ \A x \in S : x <= MaxOf(S)
  BY <1>1, <1>2, MaxOfIs
<1>4. MaxOf(S) \in Int /\ m <= MaxOf(S)
  BY <1>1, <1>3
<1>5. MaxOf(S) \in Nat
  BY <1>4
<1> QED
  BY <1>3, <1>4, <1>5 DEF S

Sure == {base[n] - h[k] : n \in ToSet(LagNodes), k \in ToSet(LagNodes)}
Far == {h[n] - base[k] : n \in ToSet(LagNodes), k \in ToSet(LagNodes)}

LEMMA Spreads ==
  ASSUME Control, Readings, sureLag \in Nat, farLag \in Nat, Spread
  PROVE  /\ sureLag' \in Nat /\ farLag' \in Nat /\ sureLag <= sureLag' /\ farLag <= farLag'
         /\ IF failed THEN sureLag' = sureLag /\ farLag' = farLag
            ELSE sureLag' \in {sureLag} \cup Sure /\ \A x \in Far : x <= farLag'
<1>1. ToSet(LagNodes) \subseteq Nodes /\ setup.height \in Nat
  BY AskedNodes, ToSetOf, PerfRunAssumption DEF Control, Asked, Setup
<1>2. \A n \in Nodes : h[n] \in 1..setup.height /\ base[n] \in 1..setup.height
  BY DEF Readings
<1>3. \A n, k \in ToSet(LagNodes) :
        /\ base[n] - h[k] \in Int /\ base[n] - h[k] <= setup.height
        /\ h[n] - base[k] \in Int /\ h[n] - base[k] <= setup.height
  BY <1>1, <1>2
<1>4. Sure \subseteq Int /\ Far \subseteq Int /\ \A x \in Sure \cup Far : x <= setup.height
  BY <1>3 DEF Sure, Far
<1>5. /\ sureLag' = IF failed THEN sureLag ELSE MaxOf({sureLag} \cup Sure)
      /\ farLag' = IF failed THEN farLag ELSE MaxOf({farLag} \cup Far)
  BY DEF Spread, Sure, Far
<1> HIDE DEF Sure, Far
<1>6. /\ MaxOf({sureLag} \cup Sure) \in Nat /\ sureLag <= MaxOf({sureLag} \cup Sure)
      /\ MaxOf({sureLag} \cup Sure) \in {sureLag} \cup Sure
  BY <1>1, <1>4, Raised
<1>7. /\ MaxOf({farLag} \cup Far) \in Nat /\ farLag <= MaxOf({farLag} \cup Far)
      /\ \A x \in Far : x <= MaxOf({farLag} \cup Far)
  BY <1>1, <1>4, Raised
<1> QED
  BY <1>5, <1>6, <1>7

Typed == Control /\ Progress /\ Readings /\ Measures

LEMMA ControlStep ==
  ASSUME Typed, Next
  PROVE  Control'
<1> USE DEF Control, Opening, InTier, Closing
<1>0. Control /\ Progress /\ run \in Nat /\ setup.runs \in Nat
  BY PerfRunAssumption DEF Typed, Setup
<1>1. CASE Flags
  <2>1. UNCHANGED <<setup, LagNodes>> /\ (~Multi => LagNodes # <<>>)
    BY <1>0, <1>1, NodesStay, AskedNodes DEF Flags, Asked
  <2> QED
    BY <1>0, <1>1, <2>1 DEF Flags, Exit
<1>2. CASE WarmUp
  <2>1. UNCHANGED <<setup, LagNodes>>
    BY <1>2, NodesStay DEF WarmUp
  <2> QED
    BY <1>0, <1>2, <2>1 DEF WarmUp, Progress
<1>3. CASE Prepare
  <2>1. UNCHANGED <<setup, LagNodes>>
    BY <1>3, NodesStay DEF Prepare
  <2> QED
    BY <1>0, <1>3, <2>1 DEF Prepare, results
<1>4. CASE Fund
  <2>1. UNCHANGED <<setup, LagNodes>>
    BY <1>4, NodesStay DEF Fund, perfVars, control
  <2> QED
    BY <1>0, <1>4, <2>1 DEF Fund, perfVars, control, results
<1>5. CASE Funded
  <2>1. UNCHANGED <<setup, LagNodes>>
    BY <1>5, NodesStay DEF Funded
  <2> QED
    BY <1>0, <1>5, <2>1 DEF Funded, Exit
<1>6. CASE Sync
  <2>1. UNCHANGED <<setup, LagNodes>>
    BY <1>6, NodesStay DEF Sync
  <2> QED
    BY <1>0, <1>6, <2>1 DEF Sync, Exit
<1>7. CASE NextTier
  <2>1. UNCHANGED <<setup, LagNodes>>
    BY <1>7, NodesStay DEF NextTier
  <2>2. phase = "judged" /\ phase' \in {"metrics", "sync"} /\ UNCHANGED <<run, warmup, exit, summaries>>
    BY <1>7 DEF NextTier
  <2> QED
    BY <1>0, <2>1, <2>2
<1>8. CASE WriteMetrics \/ WriteVerdict \/ WriteSummary \/ End
  <2>1. UNCHANGED <<setup, LagNodes, run, warmup, summaries>>
    BY <1>8, NodesStay DEF WriteMetrics, WriteVerdict, WriteSummary, End
  <2>2. /\ phase \in Closing /\ phase # "exit"
        /\ \/ phase' \in {"verdict", "summary", "end"} /\ exit' = exit
           \/ phase' = "exit" /\ exit' \in {0, 1}
    BY <1>8 DEF WriteMetrics, WriteVerdict, WriteSummary, End, Write, Exit, ExitCode
  <2> QED
    BY <1>0, <2>1, <2>2
<1>9. CASE Ask \/ Chain \/ Mine
  <2>1. UNCHANGED <<setup, LagNodes, control, results>>
    BY <1>9, NodesStay DEF Ask, Chain, Grow, DropBlock, Mine, perfVars, control
  <2> QED
    BY <1>0, <2>1 DEF control, results
<1>10. CASE FirstQuery \/ Sample \/ Drain \/ Judge
  <2>1. UNCHANGED <<setup, LagNodes, run, warmup, exit>>
    BY <1>10, NodesStay DEF FirstQuery, Sample, Drain, Judge, results
  <2>2. phase \in InTier /\ phase' \in InTier \cup {"judged"}
    BY <1>10 DEF FirstQuery, Sample, Drain, Judge
  <2> QED
    BY <1>0, <2>1, <2>2
<1>11. CASE Rerun
  <2>1. UNCHANGED <<setup, LagNodes>>
    BY <1>11, NodesStay DEF Rerun
  <2> QED
    BY <1>0, <1>11, <2>1 DEF Rerun
<1> QED
  BY <1>1, <1>2, <1>3, <1>4, <1>5, <1>6, <1>7, <1>8, <1>9, <1>10, <1>11
     DEF Next, Main, RunTier

LEMMA ReadingsRest ==
  ASSUME Typed, UNCHANGED <<setup, query, h, drops, base, moved, blank>>, ~Querying \/ Querying'
  PROVE  Readings'
<1>1. UNCHANGED <<LagNodes, Nodes, read, failed>>
  BY NodesStay DEF query
<1> QED
  BY <1>1 DEF Typed, Readings

LEMMA ReadingsStep ==
  ASSUME Typed, Next
  PROVE  Readings'
<1>0. Control /\ Readings /\ setup.height \in Nat \ {0}
  BY PerfRunAssumption DEF Typed, Control, Setup
<1>1. CASE Flags \/ WarmUp \/ Prepare \/ Funded \/ NextTier \/ WriteMetrics \/ WriteVerdict
           \/ WriteSummary \/ End \/ Rerun
  <2>1. ~Querying /\ UNCHANGED <<setup, query, h, drops, truth>>
    BY <1>1 DEF Flags, WarmUp, Prepare, Funded, NextTier, WriteMetrics, WriteVerdict, WriteSummary,
                End, Rerun, UnchangedTier, Querying
  <2> QED
    BY <2>1, ReadingsRest DEF truth
<1>2. CASE Fund \/ Mine \/ Drain
  <2>1. ~Querying /\ UNCHANGED <<setup, query, h, drops, truth>>
    BY <1>2 DEF Fund, Mine, Drain, perfVars, control, Querying
  <2> QED
    BY <2>1, ReadingsRest DEF truth
<1>3. CASE Sync
  <2>1. /\ ~Querying /\ UNCHANGED <<setup, query, h, drops, base>>
        /\ (moved' = FALSE /\ blank' = FALSE) \/ UNCHANGED <<moved, blank>>
    BY <1>3 DEF Sync, BeginTier, Querying, truth
  <2>2. UNCHANGED <<LagNodes, Nodes, read, failed>>
    BY <2>1, NodesStay DEF query
  <2> QED
    BY <1>0, <2>1, <2>2 DEF Readings
<1>4. CASE FirstQuery \/ Sample \/ Judge
  <2>1. NextQuery /\ UNCHANGED <<setup, h, drops, base, moved, blank>>
    BY <1>4 DEF FirstQuery, Sample, Judge
  <2>2. UNCHANGED <<LagNodes, Nodes>> /\ Len(LagNodes) \in Nat
    BY <1>0, <2>1, NodesStay, AskedNodes DEF Asked, Control
  <2>3. read' \in Seq(1..setup.height) /\ Len(read') <= Len(LagNodes)
    BY <2>1, <2>2 DEF NextQuery
  <2>4. failed' = FALSE /\ read' = <<>>
    BY <2>1 DEF NextQuery
  <2> QED
    BY <1>0, <2>1, <2>2, <2>3, <2>4 DEF Readings
<1>5. CASE Chain
  <2>1. PICK n \in Nodes : Grow(n) \/ DropBlock(n)
    BY <1>5 DEF Chain
  <2>2. h' \in [Nodes -> 1..setup.height] /\ drops' \in Nat
    <3>1. h \in [Nodes -> 1..setup.height] /\ drops \in Nat
      BY <1>0 DEF Readings
    <3>2. h[n] \in 1..setup.height
      BY <3>1
    <3>3. CASE Grow(n)
      <4>1. h[n] + 1 \in 1..setup.height /\ h' = [h EXCEPT ![n] = @ + 1] /\ drops' = drops
        BY <1>0, <3>2, <3>3 DEF Grow
      <4> QED
        BY <3>1, <4>1
    <3>4. CASE DropBlock(n)
      <4>1. h[n] - 1 \in 1..setup.height /\ h' = [h EXCEPT ![n] = @ - 1] /\ drops' = drops + 1
        BY <1>0, <3>2, <3>4 DEF DropBlock
      <4> QED
        BY <3>1, <4>1
    <3> QED
      BY <2>1, <3>3, <3>4
  <2>3. UNCHANGED <<control, read, failed, base, blank>> /\ moved' = (moved \/ n = Primary)
    BY <2>1 DEF Grow, DropBlock, query
  <2>4. moved' \in BOOLEAN
    BY <2>3
  <2>5. UNCHANGED <<LagNodes, Nodes, setup, Querying>>
    BY <2>3, NodesStay DEF control, Querying
  <2> QED
    BY <1>0, <2>2, <2>3, <2>4, <2>5 DEF Readings
<1>6. CASE Ask
  <2>1. /\ Querying /\ UNCHANGED <<control, h, drops>>
        /\ base' = IF read = <<>> THEN h ELSE base
        /\ moved' = IF read = <<>> THEN FALSE ELSE moved
        /\ blank' = (blank \/ failed') /\ Len(read) < Len(LagNodes)
        /\ \/ read' = Append(read, h[LagNodes[Len(read) + 1]]) /\ UNCHANGED failed
           \/ failed' = TRUE /\ UNCHANGED read
    BY <1>6 DEF Ask
  <2>2. UNCHANGED <<LagNodes, Nodes, setup, Querying>>
    BY <2>1, NodesStay DEF control, Querying
  <2>3. LagNodes \in Seq(Nodes) /\ read \in Seq(1..setup.height) /\ h \in [Nodes -> 1..setup.height]
    BY <1>0, AskedNodes DEF Asked, Control, Readings
  <2>4. LagNodes[Len(read) + 1] \in Nodes
    BY <2>1, <2>3
  <2>5. h[LagNodes[Len(read) + 1]] \in 1..setup.height
    BY <2>3, <2>4
  <2> DEFINE R == 1..setup.height
             x == h[LagNodes[Len(read) + 1]]
  <2>6. read' \in Seq(R) /\ Len(read') <= Len(LagNodes)
    <3>1. x \in R /\ read \in Seq(R) /\ Len(LagNodes) \in Nat
      BY <2>3, <2>5
    <3>2. read' = Append(read, x) \/ read' = read
      BY <2>1
    <3> HIDE DEF R, x
    <3> QED
      BY <2>1, <3>1, <3>2
  <2>7. failed' \in BOOLEAN /\ moved' \in BOOLEAN /\ blank' \in BOOLEAN
    <3>1. failed \in BOOLEAN /\ moved \in BOOLEAN
      BY <1>0 DEF Readings
    <3>2. failed' \in BOOLEAN
      BY <2>1, <3>1
    <3>3. moved' \in BOOLEAN
      BY <2>1, <3>1
    <3>4. blank' \in BOOLEAN
      BY <2>1
    <3> QED
      BY <3>2, <3>3, <3>4
  <2>8. base' \in [Nodes -> 1..setup.height]
    BY <1>0, <2>1 DEF Readings
  <2> QED
    BY <1>0, <2>1, <2>2, <2>6, <2>7, <2>8 DEF Readings
<1> QED
  BY <1>1, <1>2, <1>3, <1>4, <1>5, <1>6 DEF Next, Main, RunTier

LEMMA MeasuresRest ==
  ASSUME Typed, UNCHANGED <<setup, sampling, truth>>, phase' \notin {"first", "sample"} \/ phase' = phase
  PROVE  Measures'
BY DEF Typed, Measures, sampling, truth

LEMMA MeasuresStep ==
  ASSUME Typed, Next
  PROVE  Measures'
<1>0. /\ Control /\ Readings /\ Measures /\ setup.height \in Nat \ {0} /\ setup.samples \in Nat \ {0}
      /\ setup.slows \in Nat
      /\ setup.drains \subseteq [sent : Nat, accepted : Nat, confirmed : Nat, backlog : Nat, drop : Nat]
  BY PerfRunAssumption DEF Typed, Control, Setup
<1>1. CASE Flags \/ WarmUp \/ Prepare \/ Funded \/ NextTier \/ WriteMetrics \/ WriteVerdict
           \/ WriteSummary \/ End \/ Rerun
  <2>1. UNCHANGED <<setup, sampling, truth>> /\ phase' \notin {"first", "sample"}
    BY <1>1 DEF Flags, WarmUp, Prepare, Funded, NextTier, WriteMetrics, WriteVerdict, WriteSummary,
                End, Rerun, UnchangedTier, Write, Exit
  <2> QED
    BY <2>1, MeasuresRest
<1>2. CASE Fund \/ Mine
  <2>1. UNCHANGED <<setup, phase, sampling, truth>>
    BY <1>2 DEF Fund, Mine, perfVars, control
  <2> QED
    BY <2>1, MeasuresRest
<1>3. CASE Sync
  BY <1>0, <1>3 DEF Sync, BeginTier, Exit, sampling, truth, Measures
<1>4. CASE FirstQuery
  <2>1. Querying /\ Answered /\ Spread
    BY <1>4 DEF FirstQuery, Querying
  <2>2. sureLag' \in Nat /\ farLag' \in Nat
    BY <1>0, <2>1, Spreads DEF Measures
  <2>3. /\ UNCHANGED <<setup, stall, maxStall, slow, taken, drain, still, maxStill, made>>
        /\ phase = "first" /\ startHeight' = (IF failed THEN 0 ELSE read[1])
        /\ lastPrimary' = startHeight' /\ maxLag' = LagRead
    BY <1>4 DEF FirstQuery
  <2>4. startHeight' \in 0..setup.height /\ maxLag' \in Nat
    BY <1>0, <2>1, <2>3, Reads
  <2> QED
    BY <1>0, <2>2, <2>3, <2>4 DEF Measures
<1>5. CASE Sample
  <2>1. Querying /\ Answered /\ Spread
    BY <1>5 DEF Sample, Querying
  <2>2. sureLag' \in Nat /\ farLag' \in Nat
    BY <1>0, <2>1, Spreads DEF Measures
  <2> DEFINE height == IF failed THEN 0 ELSE read[1]
  <2>3. height \in 0..setup.height /\ LagRead \in Nat
    BY <1>0, <2>1, Reads
  <2>4. /\ UNCHANGED <<setup, startHeight, drain, still, maxStill, made>>
        /\ phase = "sample" /\ stall' = StallAfter(height)
        /\ lastPrimary' = (IF height > 0 THEN height ELSE lastPrimary)
        /\ maxStall' = MaxOf({maxStall, stall'}) /\ maxLag' = MaxOf({maxLag, LagRead})
        /\ taken' = taken + 1
        /\ phase' \in {"drain"} \cup (IF taken' < setup.samples THEN {"sample"} ELSE {})
    BY <1>5 DEF Sample
  <2>5. \E delayed \in 0..MinOf({1, setup.slows - slow}) : slow' = slow + delayed
    BY <1>5 DEF Sample
  <2> HIDE DEF height
  <2>6. stall' \in Nat /\ lastPrimary' \in 0..setup.height
    BY <1>0, <2>3, <2>4 DEF StallAfter, Measures
  <2>7. maxStall' \in Nat
    BY <1>0, <2>4, <2>6, Greater DEF Measures
  <2>8. maxLag' \in Nat
    BY <1>0, <2>3, <2>4, Greater DEF Measures
  <2>9. /\ taken' \in 0..setup.samples /\ slow' \in 0..taken' /\ slow' <= setup.slows
        /\ phase' = "sample" => taken' < setup.samples
    <3>1. taken \in Nat /\ taken < setup.samples /\ slow \in 0..taken /\ slow <= setup.slows
      BY <1>0, <2>4 DEF Measures
    <3>2. MinOf({1, setup.slows - slow}) = IF 1 <= setup.slows - slow THEN 1 ELSE setup.slows - slow
      <4>1. setup.slows - slow \in Nat
        BY <1>0, <3>1
      <4> QED
        BY <4>1, Lesser
    <3>3. slow' \in {slow, slow + 1} /\ slow' <= setup.slows
      BY <1>0, <2>5, <3>1, <3>2
    <3> QED
      BY <1>0, <2>4, <3>1, <3>3
  <2>10. phase' # "first"
    BY <2>4
  <2> QED
    BY <1>0, <2>2, <2>4, <2>6, <2>7, <2>8, <2>9, <2>10 DEF Measures
<1>6. CASE Drain
  <2>1. /\ drain' \in setup.drains /\ phase' = "last"
        /\ UNCHANGED <<setup, startHeight, lastPrimary, stall, maxStall, maxLag, slow, taken, truth>>
    BY <1>6 DEF Drain
  <2> QED
    BY <1>0, <2>1 DEF Measures, truth
<1>7. CASE Judge
  <2>1. Querying /\ Answered /\ Spread
    BY <1>7 DEF Judge, Querying
  <2>2. sureLag' \in Nat /\ farLag' \in Nat
    BY <1>0, <2>1, Spreads DEF Measures
  <2>3. LagRead \in Nat
    BY <1>0, <2>1, Reads
  <2>4. /\ UNCHANGED <<setup, startHeight, lastPrimary, stall, maxStall, slow, taken, drain, still,
                       maxStill, made>>
        /\ phase' = "judged" /\ maxLag' = MaxOf({maxLag, LagRead})
    BY <1>7 DEF Judge
  <2>5. maxLag' \in Nat
    BY <1>0, <2>3, <2>4, Greater DEF Measures
  <2> QED
    BY <1>0, <2>2, <2>4, <2>5 DEF Measures
<1>8. CASE Chain
  <2>1. /\ UNCHANGED <<control, sampling, still, maxStill, sureLag, farLag>>
        /\ made' \in {made, made + 1}
    BY <1>8 DEF Chain, Grow, DropBlock
  <2> QED
    BY <1>0, <2>1 DEF Measures, control, sampling
<1>9. CASE Ask
  <2>1. /\ UNCHANGED <<control, sampling, sureLag, farLag, made>>
        /\ still' \in {still, 0, still + 1}
        /\ maxStill' = IF phase = "sample" THEN MaxOf({maxStill, still'}) ELSE maxStill
    BY <1>9 DEF Ask
  <2>2. still' \in Nat /\ maxStill' \in Nat
    BY <1>0, <2>1, Greater DEF Measures
  <2> QED
    BY <1>0, <2>1, <2>2 DEF Measures, control, sampling
<1> QED
  BY <1>1, <1>2, <1>3, <1>4, <1>5, <1>6, <1>7, <1>8, <1>9 DEF Next, Main, RunTier

LEMMA TiersAre ==
  ASSUME Typed
  PROVE  tiers \in Seq(Int) /\ Len(tiers) \in Nat /\ summaries \in Seq(Summary) /\ Len(summaries) \in Nat
         /\ (\A i \in 1..Len(tiers) : tiers[i] \in Int)
         /\ \A i \in 1..Len(summaries) : summaries[i] \in Summary
<1>1. tiers \in Seq(Int)
  BY TiersOf DEF Typed, Control, Progress
<1>2. summaries \in Seq(Summary)
  BY DEF Typed, Progress
<1> HIDE DEF Summary
<1> QED
  BY <1>1, <1>2

\* what is put on record at the end of a tier
LEMMA Judged ==
  ASSUME Typed, Judge
  PROVE  /\ \E s \in Summary :
              /\ summaries' = Append(summaries, s) /\ s.tps = tiers[tier]
              /\ s.growth = ((IF failed THEN 0 ELSE read[1]) - startHeight) % Word
              /\ s.status = (IF Broken(maxLag') \subseteq {"sender_backpressure_drop"} THEN "PASS" ELSE "FAIL")
              /\ s.notes = Sift(NoteOrder, Broken(maxLag'))
         /\ phase = "last" /\ phase' = "judged" /\ Answered /\ Querying /\ Spread
         /\ UNCHANGED <<setup, run, tiers, tier, warmup, search, samples, exit, disk>>
<1> DEFINE end == IF failed THEN 0 ELSE read[1]
           s == [tps |-> tiers[tier], growth |-> (end - startHeight) % Word,
                 status |-> IF Broken(maxLag') \subseteq {"sender_backpressure_drop"} THEN "PASS" ELSE "FAIL",
                 notes |-> Sift(NoteOrder, Broken(maxLag'))]
<1>1. summaries' = Append(summaries, s)
  BY DEF Judge
<1>2. phase = "last" /\ Answered /\ Querying
  BY DEF Judge, Querying
<1>3. end \in Int /\ startHeight \in Int /\ Word \in Nat \ {0}
  <2>1. end \in Int
    BY <1>2, Reads DEF Typed
  <2>2. Word \in Nat \ {0} /\ setup.height \in Nat
    BY PerfRunAssumption DEF Typed, Control, Setup
  <2> QED
    BY <2>1, <2>2 DEF Typed, Measures
<1>4. tiers[tier] \in Int
  BY <1>2, TiersAre DEF Typed, Progress, InTier
<1>5. NoteOrder \in Seq(Notes)
  BY DEF NoteOrder, Notes
<1>6. Sift(NoteOrder, Broken(maxLag')) \in Seq(Notes)
  BY <1>5, SiftIs
<1>7. (end - startHeight) % Word \in Nat
  BY <1>3
<1> HIDE DEF end
<1>8. s \in Summary
  BY <1>4, <1>6, <1>7 DEF Summary
<1>9. /\ s.tps = tiers[tier] /\ s.growth = (end - startHeight) % Word
      /\ s.status = (IF Broken(maxLag') \subseteq {"sender_backpressure_drop"} THEN "PASS" ELSE "FAIL")
      /\ s.notes = Sift(NoteOrder, Broken(maxLag'))
  OBVIOUS
<1>10. /\ phase' = "judged" /\ Spread
       /\ UNCHANGED <<setup, run, tiers, tier, warmup, search, samples, exit, disk>>
  BY DEF Judge
<1> HIDE DEF s
<1> QED
  BY <1>1, <1>2, <1>8, <1>9, <1>10 DEF end

LEMMA ProgressStep ==
  ASSUME Typed, Next
  PROVE  Progress'
<1> USE DEF Opening, InTier, Closing
<1>0. Control /\ Progress /\ Len(tiers) \in Nat /\ Len(summaries) \in Nat
  BY TiersAre DEF Typed
<1>a. ASSUME UNCHANGED <<setup, tiers>>
      PROVE  tiers' = <<>> \/ (ValidFlags' /\ tiers' = TierList')
  BY <1>0, <1>a DEF Progress, ValidFlags, TierList, TPSList
<1>1. CASE Flags
  <2>1. /\ phase = "flags" /\ UNCHANGED <<setup, tier, summaries, search>>
        /\ \/ ValidFlags /\ tiers' = TierList /\ phase' \in {"warmup", "prepare"}
           \/ phase' = "exit" /\ UNCHANGED tiers
    BY <1>1 DEF Flags, Exit
  <2>2. tiers = <<>> /\ tier = 0 /\ summaries = <<>> /\ Len(summaries) = 0 /\ search = NoSearch
    BY <1>0, <2>1 DEF Progress
  <2>3. CASE ValidFlags /\ tiers' = TierList /\ phase' \in {"warmup", "prepare"}
    <3>1. ValidFlags' /\ tiers' = TierList'
      BY <2>1, <2>3 DEF ValidFlags, TierList, TPSList
    <3>2. tiers' # <<>> /\ Len(tiers') \in Nat
      BY <1>0, <2>3, TiersOf DEF Control
    <3> QED
      BY <2>1, <2>2, <2>3, <3>1, <3>2 DEF Progress
  <2>4. CASE phase' = "exit" /\ UNCHANGED tiers
    BY <1>0, <2>1, <2>2, <2>4 DEF Progress
  <2> QED
    BY <2>1, <2>3, <2>4
<1>2. CASE WarmUp \/ Prepare
  <2>1. /\ phase \in {"warmup", "prepare"} /\ phase' \in {"prepare", "metrics", "fund"}
        /\ UNCHANGED <<setup, tiers, tier, summaries, search>>
    BY <1>2 DEF WarmUp, Prepare, results
  <2> QED
    BY <1>0, <1>a, <2>1 DEF Progress
<1>3. CASE Fund \/ Mine \/ Ask \/ Chain
  <2>1. UNCHANGED <<control, results>>
    BY <1>3 DEF Fund, Mine, Ask, Chain, Grow, DropBlock, perfVars
  <2>2. UNCHANGED <<setup, phase, tiers, tier, summaries, search>>
    BY <2>1 DEF control, results
  <2> QED
    BY <1>0, <1>a, <2>2 DEF Progress
<1>4. CASE Funded
  <2>1. /\ phase = "fund" /\ UNCHANGED <<setup, tiers, summaries, search>>
        /\ \/ phase' = "sync" /\ tier' = 1
           \/ phase' = "exit" /\ UNCHANGED tier
    BY <1>4 DEF Funded, Exit
  <2>2. tiers # <<>> /\ tier = 0 /\ Len(summaries) = 0 /\ Len(tiers) > 0
    BY <1>0, <2>1, TiersAre DEF Progress
  <2> QED
    BY <1>0, <1>a, <2>1, <2>2 DEF Progress
<1>5. CASE Sync \/ FirstQuery \/ Sample \/ Drain
  <2>1. /\ phase \in {"sync"} \cup InTier /\ phase' \in InTier \cup {"exit"}
        /\ UNCHANGED <<setup, tiers, tier, summaries, search>>
    BY <1>5 DEF Sync, FirstQuery, Sample, Drain, Exit, results
  <2> QED
    BY <1>0, <1>a, <2>1 DEF Progress
<1>6. CASE Judge
  <2>1. PICK s \in Summary : summaries' = Append(summaries, s)
    BY <1>6, Judged
  <2>2. phase = "last" /\ phase' = "judged" /\ UNCHANGED <<setup, tiers, tier>>
    BY <1>6, Judged
  <2>3. summaries' \in Seq(Summary) /\ Len(summaries') = Len(summaries) + 1
    <3> HIDE DEF Summary
    <3> QED
      BY <1>0, <2>1 DEF Progress
  <2> QED
    BY <1>0, <1>a, <2>2, <2>3 DEF Progress
<1>7. CASE NextTier
  <2>1. /\ phase = "judged" /\ UNCHANGED <<setup, tiers, summaries>>
        /\ \/ phase' = "metrics" /\ UNCHANGED tier
           \/ tier # Len(tiers) /\ phase' = "sync" /\ tier' = tier + 1
    BY <1>7 DEF NextTier
  <2> QED
    BY <1>0, <1>a, <2>1 DEF Progress
<1>8. CASE WriteMetrics \/ WriteVerdict \/ WriteSummary \/ End
  <2>1. /\ phase \in Closing /\ phase # "exit" /\ phase' \in Closing
        /\ UNCHANGED <<setup, tiers, tier, summaries>>
    BY <1>8 DEF WriteMetrics, WriteVerdict, WriteSummary, End, Write, Exit
  <2> QED
    BY <1>0, <1>a, <2>1 DEF Progress
<1>9. CASE Rerun
  <2>1. tiers' = <<>> /\ tier' = 0 /\ summaries' = <<>> /\ search' = NoSearch /\ phase' = "flags"
    BY <1>9 DEF Rerun
  <2>2. summaries' \in Seq(Summary) /\ Len(summaries') = 0 /\ Len(tiers') = 0
    BY <2>1
  <2> QED
    BY <2>1, <2>2 DEF Progress, NoSearch
<1> QED
  BY <1>1, <1>2, <1>3, <1>4, <1>5, <1>6, <1>7, <1>8, <1>9 DEF Next, Main, RunTier

LEMMA TypedStarts ==
  ASSUME Init
  PROVE  Typed
<1> USE DEF Init, Fresh
<1>1. /\ setup \in Setups /\ setup.runs \in Nat \ {0} /\ setup.height \in Nat \ {0}
      /\ setup.samples \in Nat /\ setup.slows \in Nat
  BY PerfRunAssumption DEF Setup
<1>2. Control
  BY <1>1 DEF Control, Opening, InTier, Closing
<1>3. Progress
  <2>1. summaries \in Seq(Summary) /\ Len(summaries) = 0 /\ Len(tiers) = 0
    OBVIOUS
  <2> QED
    BY <2>1 DEF Progress, InTier
<1>4. Readings
  <2>1. read \in Seq(1..setup.height) /\ Len(read) = 0 /\ Len(LagNodes) \in Nat
    BY <1>1, AskedNodes DEF Asked
  <2>2. h \in [Nodes -> 1..setup.height] /\ base \in [Nodes -> 1..setup.height]
    BY <1>1
  <2>3. /\ drops = 0 /\ read = <<>> /\ failed \in BOOLEAN /\ moved \in BOOLEAN /\ blank \in BOOLEAN
        /\ failed = FALSE
    OBVIOUS
  <2> HIDE DEF Init, Fresh
  <2> QED
    BY <2>1, <2>2, <2>3 DEF Readings
<1>5. Measures
  BY <1>1 DEF Measures
<1> QED
  BY <1>2, <1>3, <1>4, <1>5 DEF Typed

LEMMA TypedStep ==
  ASSUME Typed, [Next]_vars
  PROVE  Typed'
<1>1. CASE Next
  BY <1>1, ControlStep, ProgressStep, ReadingsStep, MeasuresStep DEF Typed
<1>2. CASE UNCHANGED vars
  <2>1. UNCHANGED <<setup, LagNodes, control, results, query, sampling, truth, h, drops>>
    BY <1>2, NodesStay DEF vars, perfVars, control
  <2>2. Control'
    BY <2>1 DEF Typed, Control, control, results
  <2>3. Progress'
    BY <2>1 DEF Typed, Progress, ValidFlags, TierList, TPSList, control, results
  <2>4. Readings'
    BY <2>1, ReadingsRest DEF control, truth, Querying
  <2>5. Measures'
    BY <2>1, MeasuresRest DEF control
  <2> QED
    BY <2>2, <2>3, <2>4, <2>5 DEF Typed
<1> QED
  BY <1>1, <1>2

LEMMA TypedAlways == Spec => []Typed
BY TypedStarts, TypedStep, PTL DEF Spec

\* The variables of main and runTier hold what their code can put there, and a
\* run never has more summaries than tiers (main and runTier).
THEOREM TypeCorrect == Spec => []TypeOK
<1>1. Typed => TypeOK
  BY TiersAre DEF Typed, Control, Progress, Measures, TypeOK, Opening, InTier, Closing
<1> QED
  BY <1>1, TypedAlways, PTL

-----------------------------------------------------------------------------
(***************************************************************************)
(* The search.                                                             *)
(***************************************************************************)

\* the first n tiers have passed, and nothing has stopped the search
Climbed(n) ==
  /\ \A i \in 1..n : summaries[i].status = "PASS"
  /\ search = [stable |-> IF n = 0 THEN 0 ELSE tiers[n], unstable |-> 0, reason |-> "none"]

Ended ==
  LET n == Len(summaries) IN
  /\ n > 0 /\ \A i \in 1..(n - 1) : summaries[i].status = "PASS"
  /\ \/ search = [stable |-> setup.target, unstable |-> 0, reason |-> "target_reached"]
     \/ search = [stable |-> IF n = 1 THEN 0 ELSE tiers[n - 1], unstable |-> tiers[n],
                  reason |-> "first_unstable_tps"]

Searching ==
  setup.mode = "max" =>
    /\ phase \in Opening \cup {"sync"} \cup InTier => Climbed(Len(summaries))
    /\ phase = "judged" => Climbed(tier - 1) /\ summaries[tier].tps = tiers[tier]
    /\ \A i \in 1..(Len(summaries) - 1) : summaries[i].status = "PASS"
    /\ phase = "metrics" /\ warmup # "FAIL" => Ended

LEMMA SearchingNext ==
  ASSUME Typed, Searching, setup.mode = "max", NextTier
  PROVE  Searching'
<1>0. /\ tier \in 1..Len(tiers) /\ Len(summaries) = tier /\ Len(tiers) \in Nat /\ phase = "judged"
      /\ summaries[tier] \in Summary /\ Last(summaries) = summaries[tier]
  <2>1. phase = "judged"
    BY DEF NextTier
  <2>2. tier \in 1..Len(tiers) /\ Len(summaries) = tier /\ Len(tiers) \in Nat
    BY <2>1, TiersAre DEF Typed, Progress
  <2>3. summaries[tier] \in Summary
    BY <2>2, TiersAre
  <2> QED
    BY <2>1, <2>2, <2>3 DEF Last
<1>1. Climbs(tiers, setup.base, setup.step, setup.target) /\ setup.target \in Int
  BY <1>0, TiersOf, PerfRunAssumption DEF Typed, Control, Progress, Setup
<1>2. Climbed(tier - 1) /\ summaries[tier].tps = tiers[tier]
  BY <1>0 DEF Searching
<1>3. tiers[tier] \in Int /\ summaries[tier].status \in {"PASS", "FAIL"}
  BY <1>0, TiersAre DEF Summary
<1>4. /\ tier < Len(tiers) => tiers[tier] < setup.target
      /\ tier = Len(tiers) => tiers[tier] = setup.target
  BY <1>0, <1>1 DEF Climbs
<1>5. /\ UNCHANGED <<setup, tiers, summaries, warmup>> /\ search' = SearchAfter(summaries[tier])
      /\ IF search'.reason # "none" \/ tier = Len(tiers) THEN phase' = "metrics"
         ELSE phase' = "sync"
  BY <1>0 DEF NextTier
<1>6. search = [stable |-> IF tier = 1 THEN 0 ELSE tiers[tier - 1], unstable |-> 0, reason |-> "none"]
  BY <1>0, <1>2 DEF Climbed
<1>7. \A i \in 1..(tier - 1) : summaries[i].status = "PASS"
  BY <1>2 DEF Climbed
<1>8. CASE summaries[tier].status = "PASS" /\ tier = Len(tiers)
  <2>1. search' = [stable |-> setup.target, unstable |-> 0, reason |-> "target_reached"]
    <3>1. summaries[tier].tps = setup.target /\ summaries[tier].tps >= setup.target
      BY <1>1, <1>2, <1>4, <1>8
    <3>2. search' = [search EXCEPT !.stable = setup.target, !.reason = "target_reached"]
      BY <1>1, <1>5, <1>8, <3>1 DEF SearchAfter
    <3> QED
      BY <1>6, <3>2
  <2>2. phase' = "metrics"
    BY <1>5, <2>1
  <2>3. Ended'
    BY <1>0, <1>5, <1>7, <2>1 DEF Ended
  <2> QED
    BY <1>0, <1>5, <1>7, <2>2, <2>3 DEF Searching, Opening, InTier
<1>9. CASE summaries[tier].status = "PASS" /\ tier # Len(tiers)
  <2>1. search' = [stable |-> tiers[tier], unstable |-> 0, reason |-> "none"]
    BY <1>0, <1>1, <1>2, <1>3, <1>4, <1>5, <1>6, <1>9 DEF SearchAfter
  <2>2. phase' = "sync"
    BY <1>5, <1>9, <2>1
  <2>3. \A i \in 1..tier : summaries[i].status = "PASS"
    BY <1>0, <1>7, <1>9
  <2>4. Climbed(Len(summaries))' /\ \A i \in 1..(Len(summaries') - 1) : summaries'[i].status = "PASS"
    BY <1>0, <1>5, <1>7, <2>1, <2>3 DEF Climbed
  <2> QED
    BY <2>2, <2>4 DEF Searching
<1>10. CASE summaries[tier].status # "PASS"
  <2>1. search' = [stable |-> IF tier = 1 THEN 0 ELSE tiers[tier - 1], unstable |-> tiers[tier],
                   reason |-> "first_unstable_tps"]
    BY <1>2, <1>5, <1>6, <1>10 DEF SearchAfter
  <2>2. phase' = "metrics"
    BY <1>5, <2>1
  <2>3. Ended'
    <3>1. Len(summaries') = tier /\ tiers' = tiers /\ summaries' = summaries /\ tier > 0
      BY <1>0, <1>5
    <3>2. \A i \in 1..(tier - 1) : summaries'[i].status = "PASS"
      BY <1>7, <3>1
    <3> QED
      BY <2>1, <3>1, <3>2 DEF Ended
  <2> QED
    BY <1>0, <1>5, <1>7, <2>2, <2>3 DEF Searching, Opening, InTier
<1> QED
  BY <1>8, <1>9, <1>10

LEMMA SearchingStep ==
  ASSUME Typed, Searching, [Next]_vars
  PROVE  Searching'
<1> USE DEF Opening, InTier, Closing
<1>0. Len(summaries) \in Nat /\ summaries \in Seq(Summary)
  BY TiersAre
<1>1. UNCHANGED setup
  <2>1. Next => UNCHANGED setup
    BY DEF Next, Main, RunTier, Flags, WarmUp, Prepare, Fund, Funded, Sync, NextTier, WriteMetrics,
           WriteVerdict, WriteSummary, End, Ask, FirstQuery, Sample, Drain, Judge, Chain, Grow,
           DropBlock, Mine, Rerun, perfVars, control
  <2> QED
    BY <2>1 DEF vars, perfVars, control
<1> SUFFICES ASSUME setup.mode = "max" PROVE Searching'
  BY <1>1 DEF Searching
<1>2. ASSUME UNCHANGED <<tiers, tier, summaries, search, warmup>>,
             phase' = phase \/ (phase # "judged" /\ phase' \in {"exit"})
                            \/ (phase \in Opening \cup {"sync"} \cup InTier /\ phase' \in {"exit"} \cup InTier)
                            \/ (phase \in Opening /\ phase' \in Opening \cup {"sync"})
                            \/ (phase \in Closing /\ phase' \in Closing \ {"metrics"})
      PROVE  Searching'
  <2>1. UNCHANGED <<Climbed(Len(summaries)), Climbed(tier - 1), Ended>>
    BY <1>1, <1>2 DEF Climbed, Ended
  <2> QED
    BY <1>1, <1>2, <2>1 DEF Searching
<1>3. CASE Flags
  <2>1. /\ phase = "flags" /\ UNCHANGED <<summaries, search>> /\ phase' \in {"warmup", "prepare", "exit"}
    BY <1>3 DEF Flags, Exit
  <2>2. summaries = <<>> /\ Len(summaries) = 0 /\ search = NoSearch
    BY <2>1 DEF Typed, Progress
  <2>3. Climbed(Len(summaries))'
    BY <2>1, <2>2 DEF Climbed, NoSearch
  <2> QED
    BY <1>1, <2>1, <2>2, <2>3 DEF Searching
<1>4. CASE WarmUp
  <2>1. /\ phase = "warmup" /\ UNCHANGED <<tiers, tier, summaries, search>>
        /\ \/ phase' = "prepare"
           \/ warmup' = "FAIL" /\ phase' = "metrics"
    BY <1>4 DEF WarmUp
  <2>2. UNCHANGED Climbed(Len(summaries))
    BY <2>1 DEF Climbed
  <2> QED
    BY <1>1, <2>1, <2>2 DEF Searching
<1>5. CASE Prepare \/ Funded \/ Sync \/ FirstQuery \/ Sample \/ Drain
  <2>1. /\ UNCHANGED <<tiers, summaries, search, warmup>>
        /\ phase \in Opening \cup {"sync"} \cup InTier
        /\ phase' \in {"fund", "sync", "exit"} \cup InTier
    BY <1>5 DEF Prepare, Funded, Sync, FirstQuery, Sample, Drain, Exit, results
  <2>2. UNCHANGED Climbed(Len(summaries))
    BY <2>1 DEF Climbed
  <2> QED
    BY <1>1, <2>1, <2>2 DEF Searching
<1>6. CASE Fund \/ Mine \/ Ask \/ Chain \/ UNCHANGED vars
  <2>1. UNCHANGED <<control, results>>
    BY <1>6 DEF Fund, Mine, Ask, Chain, Grow, DropBlock, vars, perfVars
  <2>2. UNCHANGED <<phase, tiers, tier, summaries, search, warmup>>
    BY <2>1 DEF control, results
  <2> QED
    BY <1>2, <2>2
<1>7. CASE Judge
  <2>1. PICK s \in Summary : summaries' = Append(summaries, s) /\ s.tps = tiers[tier]
    BY <1>7, Judged
  <2>2. phase = "last" /\ phase' = "judged" /\ UNCHANGED <<tiers, tier, search>>
    BY <1>7, Judged
  <2>3. tier \in Nat /\ tier > 0 /\ Len(summaries) = tier - 1
    BY <2>2, TiersAre DEF Typed, Progress
  <2>4. /\ Len(summaries') = tier /\ summaries'[tier] = s
        /\ \A i \in 1..(tier - 1) : summaries'[i] = summaries[i]
    <3> HIDE DEF Summary
    <3> QED
      BY <1>0, <2>1, <2>3
  <2>5. Climbed(tier - 1)
    BY <2>2, <2>3 DEF Searching
  <2>6. \A i \in 1..(tier - 1) : summaries'[i].status = "PASS"
    BY <2>4, <2>5 DEF Climbed
  <2>7. Climbed(tier - 1)'
    BY <2>2, <2>5, <2>6 DEF Climbed
  <2> QED
    BY <1>1, <2>1, <2>2, <2>4, <2>6, <2>7 DEF Searching
<1>8. CASE NextTier
  BY <1>8, SearchingNext
<1>9. CASE WriteMetrics \/ WriteVerdict \/ WriteSummary \/ End
  <2>1. /\ UNCHANGED <<tiers, tier, summaries, search, warmup>>
        /\ phase \in Closing /\ phase' \in Closing \ {"metrics"}
    BY <1>9 DEF WriteMetrics, WriteVerdict, WriteSummary, End, Write, Exit
  <2> QED
    BY <1>2, <2>1
<1>10. CASE Rerun
  <2>1. phase' = "flags" /\ summaries' = <<>> /\ search' = NoSearch
    BY <1>10 DEF Rerun
  <2>2. Len(summaries') = 0
    BY <2>1
  <2>3. Climbed(Len(summaries))'
    BY <2>1, <2>2 DEF Climbed, NoSearch
  <2> QED
    BY <1>1, <2>1, <2>2, <2>3 DEF Searching
<1> QED
  BY <1>3, <1>4, <1>5, <1>6, <1>7, <1>8, <1>9, <1>10 DEF Next, Main, RunTier

LEMMA SearchingAlways == Spec => []Searching
<1>1. Init => Searching
  <2> SUFFICES ASSUME Init PROVE Searching
    OBVIOUS
  <2>1. phase = "flags" /\ summaries = <<>> /\ Len(summaries) = 0 /\ search = NoSearch
    BY DEF Init, Fresh
  <2> QED
    BY <2>1 DEF Searching, Climbed, NoSearch
<1>2. Typed /\ Searching /\ [Next]_vars => Searching'
  BY SearchingStep
<1> QED
  BY <1>1, <1>2, TypedAlways, PTL DEF Spec

\* With any base, step and target: the tiers of a search rise from the base to
\* the target in steps of at most the configured size; what the search calls
\* stable and unstable are neighbours among them, all below has passed, and it
\* ends at the first that fails or at the target (buildMaxTPSSteps, main).
THEOREM SearchCorrect == Spec => []SearchExact
<1>1. Typed /\ Searching => SearchExact
  <2> SUFFICES ASSUME Typed, Searching, setup.mode = "max", tiers # <<>> PROVE SearchExact
    BY DEF SearchExact
  <2>1. Climbs(tiers, setup.base, setup.step, setup.target)
    BY TiersOf DEF Typed, Control, Progress
  <2>2. Last(tiers) = setup.target
    BY <2>1 DEF Climbs, Last
  <2>3. ASSUME phase = "metrics", warmup # "FAIL"
        PROVE  LET n == Len(summaries) IN
               CASE StopReason = "target_reached" -> search.stable = setup.target /\ search.unstable = 0
                 [] StopReason = "first_unstable_tps" ->
                      search.unstable = tiers[n] /\ search.stable = (IF n = 1 THEN 0 ELSE tiers[n - 1])
                 [] OTHER -> FALSE
    <3>1. Ended
      BY <2>3 DEF Searching
    <3> QED
      BY <3>1 DEF Ended, StopReason
  <2>4. \A i \in 1..(Len(summaries) - 1) : summaries[i].status = "PASS"
    BY DEF Searching
  <2> QED
    BY <2>1, <2>2, <2>3, <2>4 DEF SearchExact, Climbs
<1> QED
  BY <1>1, SearchingAlways, TypedAlways, PTL

-----------------------------------------------------------------------------
(***************************************************************************)
(* What a tier says of the chain.                                          *)
(***************************************************************************)
Started == read # <<>> \/ failed      \* the first node has been asked

\* what the queries have to do with the chain
Seen ==
  /\ \A n \in Nodes : base[n] <= h[n]
  /\ ~(phase = "first" /\ ~Started) =>
       (moved => base[Primary] < h[Primary]) /\ (~moved => base[Primary] = h[Primary])
  /\ read # <<>> => read[1] = base[Primary]
  /\ \A i \in 1..Len(read) : base[LagNodes[i]] <= read[i] /\ read[i] <= h[LagNodes[i]]
  /\ failed => blank

AtFirst ==
  phase = "first" =>
    /\ startHeight = 0 /\ lastPrimary = 0 /\ stall = 0 /\ maxStall = 0 /\ maxLag = 0
    /\ still = 0 /\ maxStill = 0 /\ sureLag = 0 /\ farLag = 0

\* the stall that is counted and how long the first node has stood still
Stalls ==
  /\ lastPrimary <= base[Primary] /\ (lastPrimary = 0 => stall = 0)
  /\ lastPrimary = base[Primary] => IF Started THEN stall < still ELSE stall <= still
  /\ stall <= maxStall /\ maxStall <= maxStill
  /\ phase = "sample" /\ Started => still <= maxStill
  /\ ~blank =>
       IF phase = "sample" /\ Started
       THEN /\ maxStill = (IF maxStall <= still THEN still ELSE maxStall)
            /\ still = (IF lastPrimary = base[Primary] THEN stall + 1 ELSE 0)
       ELSE /\ maxStill = maxStall
            /\ phase = "sample" => lastPrimary = base[Primary] /\ stall = still

Grown ==
  /\ startHeight <= base[Primary]
  /\ ~blank /\ phase # "first" => startHeight > 0
  /\ phase = "first" /\ Started => h[Primary] <= base[Primary] + made
  /\ phase # "first" /\ startHeight > 0 => h[Primary] <= startHeight + made

Lags == sureLag <= maxLag /\ maxLag <= farLag

\* the growth on record, and what a PASS means
OnRecord ==
  phase = "judged" =>
    /\ ~blank => Last(summaries).growth <= made
    /\ Last(summaries).status = "PASS" =>
         /\ ~blank /\ setup.interval % 2 = 0 => maxStill * setup.interval <= 2 * MaxStall
         /\ sureLag <= MaxHeightLag /\ 20 * slow <= taken
         /\ MinSuccessPct > 0 => drain.sent > 0

Told ==
  drops = 0 =>
    /\ \A n \in Nodes : base[n] <= h[n]
    /\ phase \in InTier \cup {"judged"} => Seen /\ AtFirst /\ Stalls /\ Grown /\ Lags /\ OnRecord

Running == phase \in InTier \cup {"judged"}

LEMMA Heights ==
  ASSUME Typed, Running
  PROVE  /\ Primary \in Nodes /\ setup.height \in Nat \ {0}
         /\ \A n \in Nodes : h[n] \in 1..setup.height /\ base[n] \in 1..setup.height
         /\ \A i \in 1..Len(LagNodes) : LagNodes[i] \in Nodes
         /\ Len(LagNodes) \in Nat \ {0} /\ Len(read) \in 0..Len(LagNodes)
         /\ read # <<>> <=> Len(read) > 0
         /\ \A i \in 1..Len(read) : read[i] \in 1..setup.height
<1>1. LagNodes \in Seq(Nodes) /\ LagNodes # <<>> /\ setup.height \in Nat \ {0}
  BY AskedNodes, PerfRunAssumption DEF Typed, Control, Asked, Setup, Running, InTier
<1>2. LagNodes[1] \in Nodes /\ Len(LagNodes) \in Nat \ {0} /\ \A i \in 1..Len(LagNodes) : LagNodes[i] \in Nodes
  BY <1>1
<1>3. read \in Seq(1..setup.height) /\ Len(read) <= Len(LagNodes)
  BY DEF Typed, Readings
<1>4. Len(read) \in 0..Len(LagNodes) /\ (read # <<>> <=> Len(read) > 0)
  BY <1>2, <1>3
<1>5. \A i \in 1..Len(read) : read[i] \in 1..setup.height
  BY <1>3, ElementsOf
<1>6. \A n \in Nodes : h[n] \in 1..setup.height /\ base[n] \in 1..setup.height
  BY DEF Typed, Readings
<1> QED
  BY <1>1, <1>2, <1>4, <1>5, <1>6 DEF Primary

LEMMA ToldFirstAsk ==
  ASSUME Typed, Told, Ask, read = <<>>
  PROVE  Told'
<1> SUFFICES ASSUME drops = 0 PROVE Told'
  BY DEF Told, Ask
<1>0. phase \in {"first", "sample", "last"} /\ Running /\ Len(read) = 0 /\ failed = FALSE
  BY DEF Ask, Querying, Running, InTier, Typed, Readings
<1>1. Seen /\ AtFirst /\ Stalls /\ Grown /\ Lags
  BY <1>0 DEF Told, Running
<1> DEFINE b == base[Primary] top == h[Primary]
<1>2. /\ b \in Nat \ {0} /\ top \in Nat \ {0} /\ b <= top /\ Len(LagNodes) \in Nat \ {0}
      /\ \A n \in Nodes : h[n] \in Nat
      /\ stall \in Nat /\ maxStall \in Nat /\ still \in Nat /\ maxStill \in Nat /\ lastPrimary \in Nat
      /\ startHeight \in Nat /\ made \in Nat
  BY <1>0, <1>1, Heights DEF Typed, Measures, Seen
<1>3. /\ UNCHANGED <<LagNodes, Nodes, Primary, setup, phase, sampling, h, drops, sureLag, farLag, made,
                     summaries>>
      /\ base' = h /\ moved' = FALSE
      /\ still' = (IF moved \/ phase = "first" THEN 0 ELSE still + 1)
      /\ maxStill' = (IF phase = "sample" THEN MaxOf({maxStill, still'}) ELSE maxStill)
      /\ blank' = (blank \/ failed')
  BY NodesStay DEF Ask, control, results
<1>4. \/ read' = <<h[Primary]>> /\ failed' = FALSE
      \/ failed' = TRUE /\ read' = <<>>
  BY <1>0 DEF Ask, Primary
<1>5. Started' /\ Len(read') \in {0, 1} /\ (Len(read') = 1 => read'[1] = h[Primary])
  BY <1>4 DEF Started
<1>6. moved \in BOOLEAN /\ blank \in BOOLEAN /\ failed' \in BOOLEAN
  BY <1>4 DEF Typed, Readings
<1>7. Seen'
  <2>1. \A n \in Nodes' : base'[n] <= h'[n]
    BY <1>2, <1>3
  <2>2. /\ ~moved' /\ base'[Primary'] = h'[Primary']
        /\ read' # <<>> => read'[1] = base'[Primary']
    BY <1>3, <1>4, <1>5
  <2>3. failed' => blank'
    BY <1>3
  <2>4. \A i \in 1..Len(read') : base'[LagNodes'[i]] <= read'[i] /\ read'[i] <= h'[LagNodes'[i]]
    BY <1>2, <1>3, <1>4, <1>5 DEF Primary
  <2> QED
    BY <2>1, <2>2, <2>3, <2>4 DEF Seen
<1>8. AtFirst'
  BY <1>1, <1>2, <1>3 DEF AtFirst, sampling
<1>9. CASE phase = "first"
  <2>1. stall = 0 /\ still' = 0 /\ lastPrimary = 0 /\ maxStall = 0 /\ maxStill' = 0 /\ startHeight = 0
    BY <1>1, <1>3, <1>9 DEF AtFirst
  <2>2. Stalls'
    BY <1>2, <1>3, <1>9, <2>1 DEF Stalls, sampling
  <2>3. Grown'
    BY <1>2, <1>3, <1>9, <2>1 DEF Grown, sampling
  <2> QED
    BY <1>1, <1>2, <1>3, <1>7, <1>8, <1>9, <2>2, <2>3 DEF Told, Seen, Lags, OnRecord, sampling
<1>10. CASE phase # "first"
  <2>1. (moved => b < top) /\ (~moved => b = top) /\ ~Started
    BY <1>0, <1>1, <1>10 DEF Seen, Started
  <2>2. /\ lastPrimary <= b /\ (lastPrimary = b => stall <= still) /\ stall <= maxStall
        /\ maxStall <= maxStill /\ (lastPrimary = 0 => stall = 0)
    BY <1>1, <2>1 DEF Stalls
  <2>3. still' \in Nat /\ (lastPrimary = top => stall < still')
    <3>1. CASE moved
      BY <1>2, <1>3, <2>1, <2>2, <3>1
    <3>2. CASE ~moved
      BY <1>2, <1>3, <1>10, <2>1, <2>2, <3>2
    <3> QED
      BY <3>1, <3>2
  <2>4. phase = "sample" => maxStill' = (IF maxStill <= still' THEN still' ELSE maxStill)
    BY <1>2, <1>3, <2>3, Greater
  <2>5. maxStall <= maxStill' /\ (phase = "sample" => still' <= maxStill')
    BY <1>2, <1>3, <2>2, <2>3, <2>4
  <2>6. ASSUME ~blank PROVE maxStill = maxStall /\ (phase = "sample" => lastPrimary = b /\ stall = still)
    BY <1>1, <2>1, <2>6 DEF Stalls
  <2>7. ASSUME ~blank, phase = "sample" PROVE still' = (IF lastPrimary = top THEN stall + 1 ELSE 0)
    <3>1. CASE moved
      BY <1>2, <1>3, <2>1, <2>6, <2>7, <3>1
    <3>2. CASE ~moved
      BY <1>2, <1>3, <1>10, <2>1, <2>6, <2>7, <3>2
    <3> QED
      BY <3>1, <3>2
  <2>8. ~blank' => ~blank
    BY <1>3, <1>6
  <2>9. Stalls'
    <3>1. ASSUME ~blank'
          PROVE IF phase' = "sample" /\ Started'
                THEN /\ maxStill' = (IF maxStall' <= still' THEN still' ELSE maxStall')
                     /\ still' = (IF lastPrimary' = base'[Primary'] THEN stall' + 1 ELSE 0)
                ELSE maxStill' = maxStall'
      <4>1. CASE phase = "sample"
        BY <1>2, <1>3, <1>5, <2>3, <2>4, <2>6, <2>7, <2>8, <3>1, <4>1 DEF sampling
      <4>2. CASE phase # "sample"
        BY <1>3, <2>6, <2>8, <3>1, <4>2 DEF sampling
      <4> QED
        BY <4>1, <4>2
    <3> QED
      BY <1>2, <1>3, <1>5, <2>2, <2>3, <2>5, <3>1 DEF Stalls, sampling
  <2>10. Grown'
    <3>1. /\ startHeight <= b /\ (~blank => startHeight > 0)
          /\ startHeight > 0 => top <= startHeight + made
      BY <1>1, <1>10 DEF Grown
    <3> QED
      BY <1>2, <1>3, <1>10, <2>8, <3>1 DEF Grown, sampling
  <2> QED
    BY <1>1, <1>0, <1>3, <1>7, <1>8, <2>9, <2>10 DEF Told, Seen, Lags, OnRecord, sampling
<1> QED
  BY <1>9, <1>10

LEMMA ToldLaterAsk ==
  ASSUME Typed, Told, Ask, read # <<>>
  PROVE  Told'
<1> SUFFICES ASSUME drops = 0 PROVE Told'
  BY DEF Told, Ask
<1>0. phase \in {"first", "sample", "last"} /\ Running /\ failed = FALSE
  BY DEF Ask, Querying, Running, InTier, Typed, Readings
<1>1. Seen /\ AtFirst /\ Stalls /\ Grown /\ Lags /\ Started
  BY <1>0 DEF Told, Running, Started
<1> DEFINE k == Len(read) + 1
           x == h[LagNodes[k]]
<1>2. /\ UNCHANGED <<LagNodes, Nodes, Primary, setup, phase, sampling, h, drops, sureLag, farLag, made,
                     summaries, base, moved, still>>
      /\ maxStill' = (IF phase = "sample" THEN MaxOf({maxStill, still}) ELSE maxStill)
      /\ blank' = (blank \/ failed')
  BY NodesStay DEF Ask, control, results
<1>3. \/ read' = Append(read, x) /\ failed' = FALSE /\ k \in 1..Len(LagNodes)
      \/ failed' = TRUE /\ read' = read
  BY <1>0, Heights DEF Ask
<1>4. maxStill' = maxStill
  BY <1>1, <1>2, Greater DEF Stalls, Typed, Measures
<1>5. read \in Seq(1..setup.height) /\ Len(read) \in Nat
  BY DEF Typed, Readings
<1>6. ASSUME failed' = FALSE
      PROVE  /\ Len(read') = k /\ read'[k] = x
             /\ \A i \in 1..Len(read) : read'[i] = read[i]
             /\ base[LagNodes[k]] <= x /\ x <= h[LagNodes[k]]
  <2>1. read' = Append(read, x) /\ k \in 1..Len(LagNodes)
    BY <1>3, <1>6
  <2>2. LagNodes[k] \in Nodes /\ x \in 1..setup.height
    BY <1>0, <2>1, Heights
  <2>3. PICK R : R = 1..setup.height
    OBVIOUS
  <2>4. read \in Seq(R) /\ x \in R
    BY <1>5, <2>2, <2>3
  <2>5. base[LagNodes[k]] <= x /\ x <= h[LagNodes[k]]
    BY <1>1, <2>2 DEF Seen
  <2> HIDE DEF x
  <2> QED
    BY <1>5, <2>1, <2>4, <2>5
<1>7. read' # <<>> /\ read'[1] = read[1] /\ Started'
  <2>1. 1 \in 1..Len(read)
    BY <1>0, <1>5, Heights
  <2>2. CASE failed' = FALSE
    <3>1. Len(read') = Len(read) + 1 /\ \A i \in 1..Len(read) : read'[i] = read[i]
      BY <1>6, <2>2
    <3>2. read'[1] = read[1]
      BY <2>1, <3>1
    <3>3. Len(read') # 0
      BY <1>5, <3>1
    <3>4. read' # <<>>
      BY <3>3
    <3> QED
      BY <3>2, <3>4 DEF Started
  <2>3. CASE failed' = TRUE
    BY <1>3, <2>3 DEF Started
  <2> QED
    BY <1>3, <2>2, <2>3
<1>8. \A i \in 1..Len(read') : base[LagNodes[i]] <= read'[i] /\ read'[i] <= h[LagNodes[i]]
  <2>1. CASE failed' = FALSE
    <3> SUFFICES ASSUME NEW i \in 1..k
                 PROVE  base[LagNodes[i]] <= read'[i] /\ read'[i] <= h[LagNodes[i]]
      BY <1>6, <2>1
    <3>1. CASE i = k
      BY <1>6, <2>1, <3>1
    <3>2. CASE i # k
      <4>1. i \in 1..Len(read)
        BY <1>5, <3>2
      <4>2. read'[i] = read[i]
        BY <1>6, <2>1, <4>1
      <4>3. base[LagNodes[i]] <= read[i] /\ read[i] <= h[LagNodes[i]]
        BY <1>1, <4>1 DEF Seen
      <4> QED
        BY <4>2, <4>3
    <3> QED
      BY <3>1, <3>2
  <2>2. CASE failed' = TRUE
    BY <1>1, <1>3, <2>2 DEF Seen
  <2> QED
    BY <1>3, <2>1, <2>2
<1>9. Seen'
  <2>1. failed' => blank'
    BY <1>2
  <2>2. (moved => base[Primary] < h[Primary]) /\ (~moved => base[Primary] = h[Primary])
    BY <1>1 DEF Seen
  <2>3. \A n \in Nodes' : base'[n] <= h'[n]
    BY <1>1, <1>2 DEF Seen
  <2>4. read'[1] = base[Primary]
    BY <1>1, <1>7 DEF Seen
  <2>5. \A i \in 1..Len(read') : base'[LagNodes'[i]] <= read'[i] /\ read'[i] <= h'[LagNodes'[i]]
    BY <1>2, <1>8
  <2> QED
    BY <1>2, <2>1, <2>2, <2>3, <2>4, <2>5 DEF Seen
<1>10. AtFirst'
  BY <1>1, <1>2, <1>4 DEF AtFirst, sampling
<1>11. ~blank' => ~blank
  BY <1>2
<1>12. Stalls'
  BY <1>1, <1>2, <1>4, <1>7, <1>11 DEF Stalls, sampling
<1>13. Grown'
  BY <1>1, <1>2, <1>7, <1>11 DEF Grown, sampling
<1> QED
  BY <1>0, <1>1, <1>2, <1>9, <1>10, <1>12, <1>13 DEF Told, Seen, Lags, OnRecord, sampling

LEMMA ToldGrow ==
  ASSUME Typed, Told, NEW n \in Nodes, Grow(n)
  PROVE  Told'
<1> SUFFICES ASSUME drops = 0 PROVE Told'
  BY DEF Told, Grow
<1>0. phase \in {"first", "sample", "last"} /\ Running
  BY DEF Grow, Querying, Running, InTier
<1>1. Seen /\ AtFirst /\ Stalls /\ Grown /\ Lags
  BY <1>0 DEF Told, Running
<1>2. /\ UNCHANGED <<LagNodes, Nodes, Primary, setup, phase, sampling, drops, sureLag, farLag, summaries,
                     base, still, maxStill, blank, read, failed, Started>>
      /\ made' = (IF n = Primary THEN made + 1 ELSE made) /\ moved' = (moved \/ n = Primary)
  BY NodesStay DEF Grow, control, results, query, Started
<1>3. \A k \in Nodes : h'[k] = IF k = n THEN h[k] + 1 ELSE h[k]
  BY DEF Grow, Typed, Readings
<1>4. \A k \in Nodes : h[k] \in Nat /\ base[k] \in Nat /\ h[k] <= h'[k] /\ base[k] <= h[k]
  BY <1>0, <1>1, <1>3, Heights DEF Seen
<1>5. Primary \in Nodes /\ made \in Nat /\ startHeight \in Nat
  BY <1>0, Heights DEF Typed, Measures
<1>6. Seen'
  <2>1. \A k \in Nodes' : base'[k] <= h'[k]
    BY <1>2, <1>3, <1>4
  <2>2. ASSUME ~(phase = "first" /\ ~Started)
        PROVE  (moved' => base[Primary] < h'[Primary]) /\ (~moved' => base[Primary] = h'[Primary])
    <3>1. (moved => base[Primary] < h[Primary]) /\ (~moved => base[Primary] = h[Primary])
      BY <1>1, <2>2 DEF Seen
    <3>2. CASE n = Primary
      <4>1. moved' /\ h'[Primary] = h[Primary] + 1 /\ base[Primary] <= h[Primary]
        BY <1>2, <1>3, <1>4, <1>5, <3>2
      <4> QED
        BY <1>4, <1>5, <4>1
    <3>3. CASE n # Primary
      <4>1. h'[Primary] = h[Primary]
        BY <1>3, <1>5, <3>3
      <4>2. moved' = moved
        BY <1>2, <3>3 DEF Typed, Readings
      <4> QED
        BY <3>1, <4>1, <4>2
    <3> QED
      BY <3>2, <3>3
  <2>3. \A i \in 1..Len(read') : base'[LagNodes'[i]] <= read'[i] /\ read'[i] <= h'[LagNodes'[i]]
    <3> SUFFICES ASSUME NEW i \in 1..Len(read)
                 PROVE  base[LagNodes[i]] <= read[i] /\ read[i] <= h'[LagNodes[i]]
      BY <1>2
    <3>1. base[LagNodes[i]] <= read[i] /\ read[i] <= h[LagNodes[i]]
      BY <1>1 DEF Seen
    <3>2. LagNodes[i] \in Nodes /\ read[i] \in Nat
      BY <1>0, Heights
    <3>3. h[LagNodes[i]] \in Nat /\ h'[LagNodes[i]] \in Nat /\ h[LagNodes[i]] <= h'[LagNodes[i]]
      BY <1>3, <1>4, <3>2
    <3> QED
      BY <3>1, <3>2, <3>3
  <2>4. (read # <<>> => read[1] = base[Primary]) /\ (failed => blank)
    BY <1>1 DEF Seen
  <2> QED
    BY <1>2, <2>1, <2>2, <2>3, <2>4 DEF Seen
<1>7. Stalls'
  BY <1>1, <1>2 DEF Stalls, sampling
<1>8. Grown'
  <2>1. h'[Primary] - made' = h[Primary] - made /\ h'[Primary] \in Nat
    BY <1>2, <1>3, <1>4, <1>5
  <2>2. made' \in Nat
    BY <1>2, <1>5
  <2>3. /\ phase = "first" /\ Started => h'[Primary] <= base[Primary] + made'
        /\ phase # "first" /\ startHeight > 0 => h'[Primary] <= startHeight + made'
    BY <1>1, <1>4, <1>5, <2>1, <2>2 DEF Grown
  <2> QED
    BY <1>1, <1>2, <2>3 DEF Grown, sampling
<1> QED
  BY <1>0, <1>1, <1>2, <1>6, <1>7, <1>8 DEF Told, Seen, AtFirst, Lags, OnRecord, sampling

\* whatever moved while the nodes were asked, the lag that is read lies
\* between the one nobody could miss and the one anybody could have seen
LEMMA LagsTrue ==
  ASSUME Typed, Running, Seen, Querying, Answered, Spread
  PROVE  /\ LagRead \in Nat /\ sureLag' \in Nat /\ farLag' \in Nat
         /\ sureLag' = sureLag \/ sureLag' <= LagRead
         /\ LagRead = 0 \/ LagRead <= farLag'
         /\ farLag <= farLag'
<1>1. sureLag' \in Nat /\ farLag' \in Nat /\ farLag <= farLag' /\ LagRead \in Nat
  BY Reads, Spreads DEF Typed, Measures
<1>2. CASE failed
  BY <1>1, <1>2, Spreads DEF Typed, Measures, LagRead
<1>3. CASE ~failed
  <2>1. /\ Len(read) = Len(LagNodes) /\ Len(read) \in Nat \ {0}
        /\ \A i, k \in 1..Len(read) : read[i] - read[k] <= LagRead
    BY <1>3, Reads DEF Typed
  <2>2. PICK i \in 1..Len(read), k \in 1..Len(read) : LagRead = read[i] - read[k]
    BY <1>3, Reads DEF Typed
  <2>3. sureLag' \in {sureLag} \cup Sure /\ \A x \in Far : x <= farLag'
    BY <1>3, Spreads DEF Typed, Measures
  <2>4. ToSet(LagNodes) = {LagNodes[j] : j \in 1..Len(LagNodes)}
    BY AskedNodes, ToSetOf DEF Typed, Control, Asked
  <2>5. \A j \in 1..Len(read) :
          /\ LagNodes[j] \in Nodes /\ LagNodes[j] \in ToSet(LagNodes)
          /\ base[LagNodes[j]] \in Nat /\ h[LagNodes[j]] \in Nat /\ read[j] \in Nat
          /\ base[LagNodes[j]] <= read[j] /\ read[j] <= h[LagNodes[j]]
    BY <2>1, <2>4, Heights DEF Seen
  <2>6. LagRead <= farLag'
    <3> DEFINE far == h[LagNodes[i]] - base[LagNodes[k]]
    <3>1. far \in Far
      BY <2>5 DEF Far
    <3>2. far \in Int /\ LagRead <= far
      BY <2>2, <2>5
    <3>3. far <= farLag'
      BY <2>3, <3>1
    <3> HIDE DEF far
    <3> QED
      BY <1>1, <3>2, <3>3
  <2>7. ASSUME sureLag' # sureLag PROVE sureLag' <= LagRead
    <3>1. PICK m \in ToSet(LagNodes), n \in ToSet(LagNodes) : sureLag' = base[m] - h[n]
      BY <2>3, <2>7 DEF Sure
    <3>2. PICK a \in 1..Len(read), b \in 1..Len(read) : m = LagNodes[a] /\ n = LagNodes[b]
      BY <2>1, <2>4, <3>1
    <3>3. sureLag' <= read[a] - read[b]
      BY <2>5, <3>1, <3>2
    <3>4. read[a] - read[b] <= LagRead /\ read[a] - read[b] \in Int
      BY <2>1, <2>5
    <3> QED
      BY <1>1, <3>3, <3>4
  <2> QED
    BY <1>1, <2>6, <2>7
<1> QED
  BY <1>2, <1>3

LEMMA ToldFirstQuery ==
  ASSUME Typed, Told, FirstQuery
  PROVE  Told'
<1> SUFFICES ASSUME drops = 0 PROVE Told'
  BY DEF Told, FirstQuery
<1>0. phase = "first" /\ Running /\ Querying /\ Answered /\ Spread
  BY DEF FirstQuery, Querying, Running, InTier
<1>1. Seen /\ AtFirst /\ Stalls /\ Grown /\ Lags
  BY <1>0 DEF Told, Running
<1>2. /\ UNCHANGED <<LagNodes, Nodes, Primary, setup, h, base, drops, summaries, moved, blank, stall,
                     maxStall, still, maxStill, made>>
      /\ phase' = "sample" /\ read' = <<>> /\ failed' = FALSE
      /\ startHeight' = (IF failed THEN 0 ELSE read[1]) /\ lastPrimary' = startHeight'
      /\ maxLag' = LagRead
  BY NodesStay DEF FirstQuery, NextQuery, results
<1>3. /\ base[Primary] \in Nat \ {0} /\ h[Primary] \in Nat /\ made \in Nat
      /\ moved \in BOOLEAN /\ blank \in BOOLEAN /\ failed \in BOOLEAN
  BY <1>0, Heights DEF Typed, Measures, Readings
<1>4. ~failed => read # <<>> /\ read[1] = base[Primary]
  <2>1. ~failed => Len(read) \in Nat \ {0}
    BY <1>0, Reads DEF Typed
  <2>2. ~failed => read # <<>>
    BY <1>0, <2>1, Heights
  <2> QED
    BY <1>1, <2>2 DEF Seen
<1>5. Started /\ ~Started' /\ (~blank => ~failed)
  BY <1>1, <1>2, <1>4 DEF Started, Seen
<1>6. startHeight' \in {0, base[Primary]} /\ (~blank => startHeight' = base[Primary])
      /\ startHeight' \in Nat
  BY <1>2, <1>3, <1>4, <1>5
<1>7. Seen'
  <2>1. Len(read') = 0
    BY <1>2
  <2>2. (moved => base[Primary] < h[Primary]) /\ (~moved => base[Primary] = h[Primary])
    BY <1>1, <1>5 DEF Seen
  <2>3. \A n \in Nodes : base[n] <= h[n]
    BY <1>1 DEF Seen
  <2> QED
    BY <1>2, <2>1, <2>2, <2>3 DEF Seen
<1>8. stall = 0 /\ still = 0 /\ maxStall = 0 /\ maxStill = 0 /\ sureLag = 0
  BY <1>0, <1>1 DEF AtFirst
<1>9. Stalls'
  BY <1>2, <1>3, <1>5, <1>6, <1>8 DEF Stalls
<1>10. Grown'
  <2>1. h[Primary] <= base[Primary] + made
    BY <1>0, <1>1, <1>5 DEF Grown
  <2> QED
    BY <1>2, <1>3, <1>6, <2>1 DEF Grown
<1>11. Lags'
  <2>1. /\ LagRead \in Nat /\ sureLag' \in Nat /\ farLag' \in Nat
        /\ sureLag' = sureLag \/ sureLag' <= LagRead
        /\ LagRead = 0 \/ LagRead <= farLag'
    BY <1>0, <1>1, LagsTrue
  <2> QED
    BY <1>2, <1>8, <2>1 DEF Lags
<1> QED
  BY <1>2, <1>7, <1>9, <1>10, <1>11 DEF Told, Seen, AtFirst, OnRecord

LEMMA ToldSample ==
  ASSUME Typed, Told, Sample
  PROVE  Told'
<1> SUFFICES ASSUME drops = 0 PROVE Told'
  BY DEF Told, Sample
<1>0. phase = "sample" /\ Running /\ Querying /\ Answered /\ Spread
  BY DEF Sample, Querying, Running, InTier
<1>1. Seen /\ AtFirst /\ Stalls /\ Grown /\ Lags
  BY <1>0 DEF Told, Running
<1> DEFINE height == IF failed THEN 0 ELSE read[1]
<1>2. /\ UNCHANGED <<LagNodes, Nodes, Primary, setup, h, base, drops, summaries, moved, blank,
                     startHeight, still, maxStill, made>>
      /\ phase' \in {"sample", "drain"} /\ read' = <<>> /\ failed' = FALSE
      /\ stall' = StallAfter(height) /\ lastPrimary' = (IF height > 0 THEN height ELSE lastPrimary)
      /\ maxStall' = MaxOf({maxStall, stall'}) /\ maxLag' = MaxOf({maxLag, LagRead})
  BY NodesStay DEF Sample, NextQuery
<1>3. /\ base[Primary] \in Nat \ {0} /\ h[Primary] \in Nat /\ made \in Nat
      /\ moved \in BOOLEAN /\ blank \in BOOLEAN /\ failed \in BOOLEAN
      /\ stall \in Nat /\ maxStall \in Nat /\ still \in Nat /\ maxStill \in Nat /\ lastPrimary \in Nat
  BY <1>0, Heights DEF Typed, Measures, Readings
<1>4. ~failed => read # <<>> /\ read[1] = base[Primary]
  <2>1. ~failed => Len(read) \in Nat \ {0}
    BY <1>0, Reads DEF Typed
  <2>2. ~failed => read # <<>>
    BY <1>0, <2>1, Heights
  <2> QED
    BY <1>1, <2>2 DEF Seen
<1>5. Started /\ ~Started' /\ (~blank => ~failed)
  BY <1>1, <1>2, <1>4 DEF Started, Seen
<1>6. height = (IF failed THEN 0 ELSE base[Primary])
  BY <1>4
<1> HIDE DEF height
<1>7. Seen'
  <2>1. Len(read') = 0
    BY <1>2
  <2>2. (moved => base[Primary] < h[Primary]) /\ (~moved => base[Primary] = h[Primary])
    BY <1>1, <1>5 DEF Seen
  <2>3. \A n \in Nodes : base[n] <= h[n]
    BY <1>1 DEF Seen
  <2> QED
    BY <1>2, <2>1, <2>2, <2>3 DEF Seen
<1>8. /\ lastPrimary <= base[Primary] /\ (lastPrimary = 0 => stall = 0)
      /\ (lastPrimary = base[Primary] => stall < still)
      /\ stall <= maxStall /\ maxStall <= maxStill /\ still <= maxStill
  BY <1>0, <1>1, <1>5 DEF Stalls
<1>9. stall' = (IF failed THEN stall ELSE IF lastPrimary = base[Primary] THEN stall + 1 ELSE 0)
  BY <1>2, <1>3, <1>6 DEF StallAfter
<1>10. lastPrimary' = (IF failed THEN lastPrimary ELSE base[Primary])
  BY <1>2, <1>3, <1>6
<1>11. /\ stall' \in Nat /\ (stall' <= still \/ stall' <= maxStall)
       /\ maxStall' = (IF maxStall <= stall' THEN stall' ELSE maxStall)
  <2>1. stall' \in Nat
    BY <1>3, <1>9
  <2> QED
    BY <1>2, <1>3, <1>8, <1>9, <2>1, Greater
<1>12. /\ lastPrimary' <= base[Primary] /\ (lastPrimary' = 0 => stall' = 0)
       /\ (lastPrimary' = base[Primary] => stall' <= still)
       /\ stall' <= maxStall' /\ maxStall' <= maxStill
  <2>1. CASE failed
    BY <1>3, <1>8, <1>9, <1>10, <1>11, <2>1
  <2>2. CASE ~failed
    BY <1>3, <1>8, <1>9, <1>10, <1>11, <2>2
  <2> QED
    BY <2>1, <2>2
<1>13. ASSUME ~blank
       PROVE  maxStill = maxStall' /\ lastPrimary' = base[Primary] /\ stall' = still
  <2>1. /\ maxStill = (IF maxStall <= still THEN still ELSE maxStall)
        /\ still = (IF lastPrimary = base[Primary] THEN stall + 1 ELSE 0)
    BY <1>0, <1>1, <1>5, <1>13 DEF Stalls
  <2>2. ~failed
    BY <1>5, <1>13
  <2> QED
    BY <1>3, <1>9, <1>10, <1>11, <2>1, <2>2
<1>14. Stalls'
  BY <1>2, <1>5, <1>12, <1>13 DEF Stalls
<1>15. Grown'
  <2>1. /\ startHeight <= base[Primary] /\ (~blank => startHeight > 0)
        /\ startHeight > 0 => h[Primary] <= startHeight + made
    BY <1>0, <1>1 DEF Grown
  <2> QED
    BY <1>2, <2>1 DEF Grown
<1>16. Lags'
  <2>1. /\ LagRead \in Nat /\ sureLag' \in Nat /\ farLag' \in Nat
        /\ sureLag' = sureLag \/ sureLag' <= LagRead
        /\ LagRead = 0 \/ LagRead <= farLag'
        /\ farLag <= farLag'
    BY <1>0, <1>1, LagsTrue
  <2>2. maxLag \in Nat /\ farLag \in Nat /\ sureLag \in Nat /\ sureLag <= maxLag /\ maxLag <= farLag
    BY <1>1 DEF Lags, Typed, Measures
  <2>3. maxLag' = (IF maxLag <= LagRead THEN LagRead ELSE maxLag)
    BY <1>2, <2>1, <2>2, Greater
  <2> QED
    BY <2>1, <2>2, <2>3 DEF Lags
<1> QED
  BY <1>2, <1>7, <1>14, <1>15, <1>16 DEF Told, Seen, AtFirst, OnRecord

LEMMA ToldDrain ==
  ASSUME Typed, Told, Drain
  PROVE  Told'
<1> SUFFICES ASSUME drops = 0 PROVE Told'
  BY DEF Told, Drain
<1>0. phase = "drain" /\ Running
  BY DEF Drain, Running, InTier
<1>1. Seen /\ Stalls /\ Grown /\ Lags
  BY <1>0 DEF Told, Running
<1>2. /\ UNCHANGED <<LagNodes, Nodes, Primary, setup, h, base, drops, moved, blank, read, failed,
                     startHeight, lastPrimary, stall, maxStall, maxLag, sureLag, farLag, still,
                     maxStill, made>>
      /\ phase' = "last"
  BY NodesStay DEF Drain, query, truth
<1>3. ~Started /\ ~Started'
  <2>1. read = <<>> /\ failed = FALSE
    BY <1>0 DEF Typed, Readings, Querying
  <2> QED
    BY <1>2, <2>1 DEF Started
<1>4. Seen'
  BY <1>0, <1>1, <1>2, <1>3 DEF Seen
<1>5. Stalls'
  BY <1>0, <1>1, <1>2, <1>3 DEF Stalls
<1>6. Grown' /\ Lags'
  BY <1>0, <1>1, <1>2 DEF Grown, Lags
<1> QED
  BY <1>2, <1>4, <1>5, <1>6 DEF Told, Seen, AtFirst, OnRecord

\* the position of the percentile leaves no more than one sample in twenty
LEMMA Percentile ==
  ASSUME NEW t \in Nat, NEW s \in Nat, s <= t - (95 * t + 99) \div 100
  PROVE  20 * s <= t
<1> DEFINE q == (95 * t + 99) \div 100
<1>1. q \in Int /\ 95 * t + 99 < 100 * q + 100
  OBVIOUS
<1> QED
  BY <1>1

LEMMA WholeSeconds ==
  ASSUME NEW interval \in Nat \ {0}, interval % 2 = 0, NEW count \in Nat, NEW limit \in Nat,
         StallWindow(count, interval) <= limit
  PROVE  count * interval <= 2 * limit
<1> DEFINE half == interval \div 2
<1>1. half \in Nat \ {0} /\ interval = 2 * half
  OBVIOUS
<1> HIDE DEF half
<1>2. MaxOf({half, 1}) = half
  BY <1>1, Greater
<1>3. StallWindow(count, interval) = count * half
  BY <1>2 DEF StallWindow, half
<1>4. count * half <= limit /\ count * half \in Nat
  BY <1>1, <1>3
<1>5. count * interval = 2 * (count * half)
  BY <1>1
<1> QED
  BY <1>4, <1>5

LEMMA NotesInOrder == ToSet(NoteOrder) = Notes
<1>1. NoteOrder \in Seq(Notes) /\ Len(NoteOrder) = 7
  BY DEF NoteOrder, Notes
<1>2. ToSet(NoteOrder) = {NoteOrder[i] : i \in 1..7}
  <2>1. PICK s, S : s = NoteOrder /\ S = Notes
    OBVIOUS
  <2>2. s \in Seq(S) /\ Len(s) = 7
    BY <1>1, <2>1
  <2>3. DOMAIN s = 1..7
    BY <2>2
  <2>4. ToSet(s) = {s[i] : i \in 1..7}
    BY <2>3 DEF ToSet
  <2> QED
    BY <2>1, <2>4
<1>3. \A i : i \in 1..7 <=> i \in {1, 2, 3, 4, 5, 6, 7}
  OBVIOUS
<1>4. ToSet(NoteOrder) = {NoteOrder[1], NoteOrder[2], NoteOrder[3], NoteOrder[4], NoteOrder[5],
                          NoteOrder[6], NoteOrder[7]}
  BY <1>2, <1>3
<1> QED
  BY <1>4 DEF NoteOrder, Notes

\* what a PASS excludes
LEMMA Unbroken ==
  ASSUME NEW lag, Broken(lag) \subseteq {"sender_backpressure_drop"}
  PROVE  /\ ~(lag > MaxHeightLag) /\ ~P95Slow /\ ~LowRate(drain.accepted)
         /\ ~(StallWindow(maxStall, setup.interval) > MaxStall)
<1>1. /\ "max_height_lag" \notin Broken(lag) /\ "p95_latency" \notin Broken(lag)
      /\ "accepted_rate" \notin Broken(lag) /\ "stall_window" \notin Broken(lag)
  OBVIOUS
<1>2. {"max_height_lag", "p95_latency", "accepted_rate", "stall_window"} \subseteq ToSet(NoteOrder)
  BY NotesInOrder DEF Notes
<1>3. ~(lag > MaxHeightLag)
  BY <1>1, <1>2 DEF Broken
<1>4. ~P95Slow
  BY <1>1, <1>2 DEF Broken
<1>5. ~LowRate(drain.accepted)
  BY <1>1, <1>2 DEF Broken
<1>6. ~(StallWindow(maxStall, setup.interval) > MaxStall)
  BY <1>1, <1>2 DEF Broken
<1> QED
  BY <1>3, <1>4, <1>5, <1>6

LEMMA ToldJudge ==
  ASSUME Typed, Told, Judge
  PROVE  Told'
<1> SUFFICES ASSUME drops = 0 PROVE Told'
  BY DEF Told, Judge
<1>0. phase = "last" /\ phase' = "judged" /\ Running /\ Querying /\ Answered /\ Spread
  BY DEF Judge, Querying, Running, InTier
<1>1. Seen /\ Stalls /\ Grown /\ Lags
  BY <1>0 DEF Told, Running
<1>2. /\ UNCHANGED <<LagNodes, Nodes, Primary, setup, h, base, drops, moved, blank, startHeight,
                     lastPrimary, stall, maxStall, slow, taken, drain, still, maxStill, made>>
      /\ read' = <<>> /\ failed' = FALSE /\ maxLag' = MaxOf({maxLag, LagRead})
  BY NodesStay DEF Judge, NextQuery
<1>3. /\ base[Primary] \in Nat \ {0} /\ h[Primary] \in Nat /\ made \in Nat /\ startHeight \in Nat
      /\ moved \in BOOLEAN /\ blank \in BOOLEAN /\ failed \in BOOLEAN
      /\ stall \in Nat /\ maxStall \in Nat /\ still \in Nat /\ maxStill \in Nat /\ lastPrimary \in Nat
      /\ taken \in Nat /\ slow \in 0..taken /\ drain.sent \in Nat
  <2>1. base[Primary] \in Nat \ {0} /\ h[Primary] \in Nat /\ setup.height \in Nat
    BY <1>0, Heights
  <2>2. setup.samples \in Nat
    BY PerfRunAssumption DEF Typed, Control, Setup
  <2>3. /\ made \in Nat /\ startHeight \in Nat /\ stall \in Nat /\ maxStall \in Nat /\ still \in Nat
        /\ maxStill \in Nat /\ lastPrimary \in Nat /\ taken \in Nat /\ slow \in 0..taken
    BY <2>1, <2>2 DEF Typed, Measures
  <2>4. drain.sent \in Nat
    BY DEF Typed, Measures
  <2>5. moved \in BOOLEAN /\ blank \in BOOLEAN /\ failed \in BOOLEAN
    BY DEF Typed, Readings
  <2> QED
    BY <2>1, <2>3, <2>4, <2>5
<1>4. ~failed => read # <<>> /\ read[1] = base[Primary]
  <2>1. ~failed => Len(read) \in Nat \ {0}
    BY <1>0, Reads DEF Typed
  <2>2. ~failed => read # <<>>
    BY <1>0, <2>1, Heights
  <2> QED
    BY <1>1, <2>2 DEF Seen
<1>5. Started /\ ~Started' /\ (~blank => ~failed)
  BY <1>1, <1>2, <1>4 DEF Started, Seen
<1>6. PICK s \in Summary :
         /\ summaries' = Append(summaries, s)
         /\ s.growth = ((IF failed THEN 0 ELSE read[1]) - startHeight) % Word
         /\ s.status = (IF Broken(maxLag') \subseteq {"sender_backpressure_drop"} THEN "PASS" ELSE "FAIL")
  BY Judged
<1>7. Last(summaries') = s
  <2>1. summaries \in Seq(Summary) /\ Len(summaries) \in Nat
    BY TiersAre
  <2> HIDE DEF Summary
  <2>2. Len(summaries') = Len(summaries) + 1 /\ summaries'[Len(summaries) + 1] = s
    BY <1>6, <2>1
  <2> QED
    BY <2>2 DEF Last
<1>8. Seen'
  <2>1. Len(read') = 0
    BY <1>2
  <2>2. (moved => base[Primary] < h[Primary]) /\ (~moved => base[Primary] = h[Primary])
    BY <1>0, <1>1 DEF Seen
  <2>3. \A n \in Nodes : base[n] <= h[n]
    BY <1>1 DEF Seen
  <2> QED
    BY <1>2, <2>1, <2>2, <2>3 DEF Seen
<1>9. Stalls'
  <2>1. /\ lastPrimary <= base[Primary] /\ (lastPrimary = 0 => stall = 0)
        /\ (lastPrimary = base[Primary] => stall <= still)
        /\ stall <= maxStall /\ maxStall <= maxStill /\ (~blank => maxStill = maxStall)
    BY <1>0, <1>1, <1>3, <1>5 DEF Stalls
  <2> QED
    BY <1>0, <1>2, <1>5, <2>1 DEF Stalls
<1>10. /\ startHeight <= base[Primary] /\ (~blank => startHeight > 0)
       /\ startHeight > 0 => h[Primary] <= startHeight + made
  BY <1>0, <1>1 DEF Grown
<1>11. Grown'
  BY <1>0, <1>2, <1>10 DEF Grown
<1>12. /\ LagRead \in Nat /\ sureLag' \in Nat /\ farLag' \in Nat
       /\ sureLag' = sureLag \/ sureLag' <= LagRead
       /\ LagRead = 0 \/ LagRead <= farLag'
       /\ farLag <= farLag'
  BY <1>0, <1>1, LagsTrue
<1>13. maxLag' \in Nat /\ sureLag' <= maxLag' /\ maxLag' <= farLag'
  <2>1. maxLag \in Nat /\ farLag \in Nat /\ sureLag \in Nat /\ sureLag <= maxLag /\ maxLag <= farLag
    BY <1>1 DEF Lags, Typed, Measures
  <2>2. maxLag' = (IF maxLag <= LagRead THEN LagRead ELSE maxLag)
    BY <1>2, <1>12, <2>1, Greater
  <2> QED
    BY <1>12, <2>1, <2>2
<1>14. ASSUME ~blank PROVE s.growth <= made
  <2>1. s.growth = (base[Primary] - startHeight) % Word
    BY <1>4, <1>5, <1>6, <1>14
  <2>2. base[Primary] <= h[Primary] /\ h[Primary] <= startHeight + made
    BY <1>0, <1>1, <1>10, <1>14, Heights DEF Seen
  <2>3. base[Primary] - startHeight \in 0..(Word - 1) /\ Word \in Nat
    <3>1. base[Primary] <= setup.height /\ setup.height < Word /\ Word \in Nat /\ setup.height \in Nat
      BY <1>0, Heights, PerfRunAssumption DEF Typed, Control
    <3> QED
      BY <1>3, <1>10, <3>1
  <2>4. (base[Primary] - startHeight) % Word = base[Primary] - startHeight
    <3> DEFINE d == base[Primary] - startHeight
    <3>1. \A e, w \in Nat : e < w => e % w = e
      OBVIOUS
    <3> HIDE DEF d
    <3>2. d \in Nat /\ Word \in Nat /\ d < Word
      BY <2>3 DEF d
    <3> QED
      BY <3>1, <3>2 DEF d
  <2> QED
    BY <1>3, <2>1, <2>2, <2>4
<1>15. ASSUME s.status = "PASS"
       PROVE  /\ ~blank /\ setup.interval % 2 = 0 => maxStill * setup.interval <= 2 * MaxStall
              /\ sureLag' <= MaxHeightLag /\ 20 * slow <= taken
              /\ MinSuccessPct > 0 => drain.sent > 0
  <2>1. Broken(maxLag') \subseteq {"sender_backpressure_drop"}
    BY <1>6, <1>15
  <2>2. /\ ~(maxLag' > MaxHeightLag) /\ ~P95Slow /\ ~LowRate(drain.accepted)
        /\ ~(StallWindow(maxStall, setup.interval) > MaxStall)
    BY <2>1, Unbroken
  <2>3. /\ MaxHeightLag \in Nat /\ MaxStall \in Nat /\ MinSuccessPct \in Nat
        /\ setup.interval \in Nat \ {0}
    BY PerfRunAssumption DEF Typed, Control, Setup
  <2>4. sureLag' <= MaxHeightLag
    BY <1>12, <1>13, <2>2, <2>3
  <2>5. 20 * slow <= taken
    <3>1. slow <= taken - (95 * taken + 99) \div 100 /\ slow \in Nat
      BY <1>3, <2>2 DEF P95Slow
    <3> QED
      BY <1>3, <3>1, Percentile
  <2>6. MinSuccessPct > 0 => drain.sent > 0
    BY <1>3, <2>2, <2>3 DEF LowRate
  <2>7. ASSUME ~blank, setup.interval % 2 = 0 PROVE maxStill * setup.interval <= 2 * MaxStall
    <3>1. maxStill = maxStall
      BY <1>0, <1>1, <2>7 DEF Stalls
    <3>2. StallWindow(maxStall, setup.interval) \in Int
      <4>1. MaxOf({setup.interval \div 2, 1}) \in Int
        BY <2>3, Greater
      <4> QED
        BY <1>3, <4>1 DEF StallWindow
    <3>3. StallWindow(maxStall, setup.interval) <= MaxStall
      BY <2>2, <2>3, <3>2
    <3> QED
      BY <1>3, <2>3, <2>7, <3>1, <3>3, WholeSeconds
  <2> QED
    BY <2>4, <2>5, <2>6, <2>7
<1>16. OnRecord'
  <2>1. ~blank' => s.growth <= made'
    BY <1>2, <1>14
  <2> QED
    BY <1>2, <1>7, <1>15, <2>1 DEF OnRecord
<1> QED
  BY <1>0, <1>2, <1>8, <1>9, <1>11, <1>13, <1>16 DEF Told, Seen, AtFirst, Lags

LEMMA ToldBegin ==
  ASSUME Typed, Told, Sync
  PROVE  Told'
<1> SUFFICES ASSUME drops = 0 PROVE Told'
  BY DEF Told, Sync
<1>1. phase = "sync" /\ UNCHANGED <<setup, Nodes, LagNodes, Primary, h, base, drops, read, failed>>
  BY NodesStay DEF Sync, BeginTier, query, truth
<1>2. \A n \in Nodes : base[n] <= h[n]
  BY DEF Told
<1>3. CASE phase' = "exit"
  BY <1>1, <1>2, <1>3 DEF Told, InTier
<1>4. CASE phase' = "first" /\ BeginTier
  <2>1. read = <<>> /\ failed = FALSE /\ Len(read) = 0
    BY <1>1 DEF Typed, Readings, Querying
  <2>2. ~Started' /\ Len(read') = 0
    BY <1>1, <2>1 DEF Started
  <2>3. base'[Primary'] \in Nat \ {0}
    <3>1. Primary \in Nodes
      <4>1. LagNodes \in Seq(Nodes) /\ LagNodes # <<>>
        BY <1>1, AskedNodes DEF Typed, Control, Asked
      <4> QED
        BY <4>1 DEF Primary
    <3> QED
      BY <1>1, <3>1 DEF Typed, Readings
  <2>4. Seen'
    BY <1>1, <1>2, <1>4, <2>1, <2>2 DEF Seen
  <2>5. AtFirst' /\ Lags'
    BY <1>4 DEF AtFirst, BeginTier, Lags
  <2>6. Stalls' /\ Grown'
    BY <1>4, <2>2, <2>3 DEF Stalls, Grown, BeginTier
  <2> QED
    BY <1>1, <1>2, <1>4, <2>4, <2>5, <2>6 DEF Told, OnRecord
<1> QED
  BY <1>3, <1>4 DEF Sync, Exit

LEMMA ToldOutside ==
  ASSUME Typed, Told, UNCHANGED <<setup, h, base, drops>>, phase' \notin InTier \cup {"judged"}
  PROVE  Told'
<1>1. UNCHANGED Nodes
  BY NodesStay
<1> QED
  BY <1>1 DEF Told

LEMMA ToldStep ==
  ASSUME Typed, Told, [Next]_vars
  PROVE  Told'
<1>1. CASE Flags \/ WarmUp \/ Prepare \/ Funded \/ NextTier \/ WriteMetrics \/ WriteVerdict
           \/ WriteSummary \/ End \/ Rerun
  <2>1. UNCHANGED <<setup, h, drops, truth>> /\ phase' \notin InTier \cup {"judged"}
    BY <1>1 DEF Flags, WarmUp, Prepare, Funded, NextTier, WriteMetrics, WriteVerdict, WriteSummary,
                End, Rerun, UnchangedTier, Write, Exit, InTier
  <2> QED
    BY <2>1, ToldOutside DEF truth
<1>2. CASE Fund \/ Mine
  <2>1. UNCHANGED perfVars /\ phase \in {"fund", "exit"}
    BY <1>2 DEF Fund, Mine
  <2> QED
    BY <2>1, ToldOutside DEF perfVars, control, truth, InTier
<1>3. CASE Ask
  BY <1>3, ToldFirstAsk, ToldLaterAsk
<1>4. CASE Chain
  <2>1. PICK n \in Nodes : Grow(n) \/ DropBlock(n)
    BY <1>4 DEF Chain
  <2>2. CASE Grow(n)
    BY <2>2, ToldGrow
  <2>3. CASE DropBlock(n)
    <3>1. drops' = drops + 1 /\ drops \in Nat
      BY <2>3 DEF DropBlock, Typed, Readings
    <3>2. drops' # 0
      BY <3>1
    <3> QED
      BY <3>2 DEF Told
  <2> QED
    BY <2>1, <2>2, <2>3
<1>5. CASE UNCHANGED vars
  <2>1. UNCHANGED <<perfVars, LagNodes, Nodes, Primary>>
    BY <1>5, NodesStay DEF vars, perfVars, control
  <2>2. UNCHANGED <<Seen, AtFirst>>
    BY <2>1 DEF Seen, AtFirst, Started, perfVars, control, query, sampling, truth
  <2>3. UNCHANGED <<Stalls, Grown>>
    BY <2>1 DEF Stalls, Grown, Started, perfVars, control, query, sampling, truth
  <2>4. UNCHANGED <<Lags, OnRecord>>
    BY <2>1 DEF Lags, OnRecord, perfVars, control, sampling, truth, results
  <2> QED
    BY <2>1, <2>2, <2>3, <2>4 DEF Told, perfVars, control, truth
<1> QED
  BY <1>1, <1>2, <1>3, <1>4, <1>5, ToldBegin, ToldFirstQuery, ToldSample, ToldDrain, ToldJudge
     DEF Next, Main, RunTier

\* For any nodes, intervals, thresholds and outcomes of the load generator, as
\* long as no node loses a block: the lag, the longest stall and the growth
\* that a tier reports are true of a chain that moves while its nodes are
\* asked, and a PASS means what the thresholds say (runTier).
THEOREM TiersTold == Spec => []TierTrue
<1>1. Init => Told
  <2> SUFFICES ASSUME Init PROVE Told
    OBVIOUS
  <2>1. base = h /\ h = [n \in Nodes |-> 1] /\ phase = "flags"
    BY DEF Init, Fresh
  <2> QED
    BY <2>1 DEF Told, InTier
<1>2. Typed /\ Told => TierTrue
  <2> SUFFICES ASSUME Typed, Told, phase = "judged", drops = 0 PROVE TierTrue
    BY DEF TierTrue, SamplesTrue, NoFalsePass
  <2>1. Stalls /\ Lags /\ OnRecord
    BY DEF Told
  <2>2. maxLag \in sureLag..farLag
    BY <2>1 DEF Typed, Measures, Lags
  <2>3. maxStall <= maxStill /\ (~blank => maxStall = maxStill)
    BY <2>1 DEF Stalls
  <2> QED
    BY <2>1, <2>2, <2>3 DEF TierTrue, SamplesTrue, NoFalsePass, OnRecord
<1>3. Spec => []Told
  <2>1. Typed /\ Told /\ [Next]_vars => Told'
    BY ToldStep
  <2> QED
    BY <1>1, <2>1, TypedAlways, PTL DEF Spec
<1> QED
  BY <1>2, <1>3, TypedAlways, PTL

-----------------------------------------------------------------------------
(***************************************************************************)
(* The slow windows: every sample has a place of its own among them.       *)
(***************************************************************************)
SampleSet == [tps : Int, slow : Nat, stall : Nat, lag : Nat]

LEMMA SlowerOrders ==
  ASSUME samples \in Seq(SampleSet)
  PROVE  \A i, k, l \in 1..Len(samples) :
           /\ ~Slower(i, i) /\ (i # k => Slower(i, k) \/ Slower(k, i))
           /\ Slower(i, k) /\ Slower(k, l) => Slower(i, l)
<1> SUFFICES ASSUME NEW i \in 1..Len(samples), NEW k \in 1..Len(samples), NEW l \in 1..Len(samples)
             PROVE  /\ ~Slower(i, i) /\ (i # k => Slower(i, k) \/ Slower(k, i))
                    /\ Slower(i, k) /\ Slower(k, l) => Slower(i, l)
  OBVIOUS
<1>1. \A j \in 1..Len(samples) : samples[j].slow \in Nat /\ samples[j].stall \in Nat /\ samples[j].lag \in Nat
  <2>1. \A j \in 1..Len(samples) : samples[j] \in SampleSet
    OBVIOUS
  <2> QED
    BY <2>1 DEF SampleSet
<1>2. Len(samples) \in Nat
  OBVIOUS
<1>3. ~Slower(i, i)
  BY <1>1, <1>2 DEF Slower
<1>4. i # k => Slower(i, k) \/ Slower(k, i)
  BY <1>1, <1>2 DEF Slower
<1>5. Slower(i, k) /\ Slower(k, l) => Slower(i, l)
  BY <1>1, <1>2 DEF Slower
<1> QED
  BY <1>3, <1>4, <1>5

LEMMA Places ==
  ASSUME samples \in Seq(SampleSet)
  PROVE  /\ \A i \in 1..Len(samples) : Place(i) \in 1..Len(samples)
         /\ \A i, k \in 1..Len(samples) : Slower(k, i) => Place(k) < Place(i)
         /\ \A i, k \in 1..Len(samples) : Place(k) = Place(i) => k = i
         /\ \A j \in 1..Len(samples) : \E i \in 1..Len(samples) : Place(i) = j
<1> DEFINE D == 1..Len(samples)
           Before(i) == {k \in D : Slower(k, i)}
<1>1. Len(samples) \in Nat /\ DOMAIN samples = D /\ IsFiniteSet(D) /\ Cardinality(D) = Len(samples)
  <2>1. Len(samples) \in Nat /\ DOMAIN samples = D
    OBVIOUS
  <2>2. PICK n : n = Len(samples)
    OBVIOUS
  <2>3. IsFiniteSet(1..n) /\ Cardinality(1..n) = IF 1 > n THEN 0 ELSE n - 1 + 1
    <3>1. n \in Int /\ 1 \in Int
      BY <2>1, <2>2
    <3> QED
      BY <3>1, FS_Interval
  <2>4. Cardinality(1..n) = n
    BY <2>1, <2>2, <2>3
  <2> QED
    BY <2>1, <2>2, <2>3, <2>4
<1>2. \A i \in D : Place(i) = Cardinality(Before(i)) + 1
  BY <1>1 DEF Place
<1>3. \A i \in D : IsFiniteSet(Before(i)) /\ Cardinality(Before(i)) \in Nat
  <2>1. \A i \in D : Before(i) \in SUBSET D
    OBVIOUS
  <2> HIDE DEF D, Before
  <2> QED
    BY <1>1, <2>1, FS_Subset, FS_CardinalityType
<1>4. ASSUME NEW i \in D, NEW k \in D, Slower(k, i) PROVE Place(k) < Place(i)
  <2>1. Before(k) \in SUBSET Before(i)
    BY <1>4, SlowerOrders
  <2>2. k \in Before(i) /\ k \notin Before(k)
    BY <1>4, SlowerOrders
  <2> HIDE DEF D, Before
  <2>3. Cardinality(Before(k)) <= Cardinality(Before(i)) /\ Cardinality(Before(k)) # Cardinality(Before(i))
    BY <1>3, <2>1, <2>2, FS_Subset
  <2> QED
    BY <1>2, <1>3, <2>3
<1>5. ASSUME NEW i \in D PROVE Place(i) \in D
  <2>1. Before(i) \in SUBSET D /\ i \notin Before(i)
    BY SlowerOrders
  <2>2. Cardinality(Before(i)) <= Cardinality(D) /\ Cardinality(Before(i)) # Cardinality(D)
    <3> HIDE DEF D, Before
    <3> QED
      BY <1>1, <2>1, FS_Subset
  <2>3. Place(i) \in Nat /\ Place(i) >= 1 /\ Place(i) <= Len(samples)
    <3> HIDE DEF D, Before
    <3> QED
      BY <1>1, <1>2, <1>3, <2>2
  <2> QED
    BY <1>1, <2>3
<1>6. ASSUME NEW i \in D, NEW k \in D, Place(k) = Place(i) PROVE k = i
  <2>1. Place(i) \in Int /\ Place(k) \in Int
    BY <1>5
  <2>2. ~Slower(k, i) /\ ~Slower(i, k)
    BY <1>4, <1>6, <2>1
  <2> QED
    BY <2>2, SlowerOrders
<1>7. ASSUME NEW j \in D PROVE \E i \in D : Place(i) = j
  <2> DEFINE f == [i \in D |-> Place(i)]
  <2> HIDE DEF D
  <2>1. f \in Injection(D, D)
    BY <1>5, <1>6 DEF Injection, IsInjective
  <2>2. f \in Surjection(D, D)
    <3> HIDE DEF f
    <3> QED
      BY <1>1, <2>1, FS_Injection
  <2> QED
    BY <2>2 DEF Surjection
<1> QED
  BY <1>4, <1>5, <1>6, <1>7

LEMMA WorstShown ==
  ASSUME samples \in Seq(SampleSet)
  PROVE  \A i \in ToSet(TopSlow), k \in DOMAIN samples \ ToSet(TopSlow) : ~Slower(k, i)
<1> DEFINE n == Len(samples)  m == MinOf({Worst, n})
           D == 1..n
<1>1. n \in Nat /\ DOMAIN samples = D /\ Worst \in Nat
  BY PerfRunAssumption
<1>2. m \in Nat /\ m <= n
  <2> HIDE DEF n
  <2> QED
    BY <1>1, Lesser
<1> HIDE DEF m
<1>3. TopSlow = [j \in 1..m |-> CHOOSE i \in D : Place(i) = j]
  BY <1>1 DEF TopSlow, m
<1>4. \A j \in 1..m : j \in D
  BY <1>1, <1>2
<1>5. \A j \in 1..m : TopSlow[j] \in D /\ Place(TopSlow[j]) = j
  <2>1. \A j \in 1..m : \E i \in D : Place(i) = j
    BY <1>4, Places
  <2> HIDE DEF D
  <2> QED
    BY <1>3, <2>1
<1>6. ToSet(TopSlow) = {TopSlow[j] : j \in 1..m}
  <2>1. DOMAIN TopSlow = 1..m
    BY <1>3
  <2> QED
    BY <2>1 DEF ToSet
<1>7. ASSUME NEW i \in ToSet(TopSlow), NEW k \in DOMAIN samples \ ToSet(TopSlow), Slower(k, i)
      PROVE  FALSE
  <2>1. PICK j \in 1..m : i = TopSlow[j]
    BY <1>6
  <2>2. i \in D /\ Place(i) = j /\ k \in D
    BY <1>1, <1>5, <2>1
  <2>3. Place(k) < Place(i) /\ Place(k) \in D
    BY <1>7, <2>2, Places
  <2>4. Place(k) \in 1..m
    BY <1>1, <1>2, <2>2, <2>3
  <2>5. TopSlow[Place(k)] \in D /\ Place(TopSlow[Place(k)]) = Place(k)
    BY <1>5, <2>4
  <2>6. TopSlow[Place(k)] = k
    BY <2>2, <2>5, Places
  <2> QED
    BY <1>6, <1>7, <2>4, <2>6
<1> QED
  BY <1>7

-----------------------------------------------------------------------------
(***************************************************************************)
(* The reasons.                                                            *)
(***************************************************************************)
Reason == Int \X (Notes \cup {"unknown", "warmup"})

LEMMA ToSetOfBoth ==
  ASSUME NEW S, NEW s \in Seq(S), NEW t \in Seq(S)
  PROVE  s \o t \in Seq(S) /\ ToSet(s \o t) = ToSet(s) \cup ToSet(t)
<1>1. /\ s \o t \in Seq(S) /\ Len(s) \in Nat /\ Len(t) \in Nat /\ Len(s \o t) = Len(s) + Len(t)
      /\ \A i \in 1..(Len(s) + Len(t)) : (s \o t)[i] = IF i <= Len(s) THEN s[i] ELSE t[i - Len(s)]
  OBVIOUS
<1>2. PICK u : u = s \o t
  OBVIOUS
<1>3. /\ ToSet(s) = {s[i] : i \in 1..Len(s)} /\ ToSet(t) = {t[i] : i \in 1..Len(t)}
  BY ToSetOf
<1>4. ToSet(u) = {u[i] : i \in 1..Len(u)} /\ Len(u) = Len(s) + Len(t)
  <2>1. u \in Seq(S) /\ Len(u) = Len(s) + Len(t)
    BY <1>1, <1>2
  <2> QED
    BY <2>1, ToSetOf
<1>5. \A i \in 1..(Len(s) + Len(t)) : u[i] = IF i <= Len(s) THEN s[i] ELSE t[i - Len(s)]
  BY <1>1, <1>2
<1> HIDE DEF ToSet
<1>6. ASSUME NEW x \in ToSet(u) PROVE x \in ToSet(s) \cup ToSet(t)
  <2>1. PICK i \in 1..(Len(s) + Len(t)) : x = u[i]
    BY <1>4
  <2>2. CASE i <= Len(s)
    <3>1. i \in 1..Len(s) /\ x = s[i]
      BY <1>1, <1>5, <2>1, <2>2
    <3> QED
      BY <1>3, <3>1
  <2>3. CASE ~(i <= Len(s))
    <3>1. i - Len(s) \in 1..Len(t) /\ x = t[i - Len(s)]
      BY <1>1, <1>5, <2>1, <2>3
    <3> QED
      BY <1>3, <3>1
  <2> QED
    BY <2>2, <2>3
<1>7. ASSUME NEW x \in ToSet(s) PROVE x \in ToSet(u)
  <2>1. PICK i \in 1..Len(s) : x = s[i]
    BY <1>3
  <2>2. i \in 1..(Len(s) + Len(t)) /\ x = u[i]
    BY <1>1, <1>5, <2>1
  <2> QED
    BY <1>4, <2>2
<1>8. ASSUME NEW x \in ToSet(t) PROVE x \in ToSet(u)
  <2>1. PICK i \in 1..Len(t) : x = t[i]
    BY <1>3
  <2>2. Len(s) + i \in 1..(Len(s) + Len(t)) /\ x = u[Len(s) + i]
    BY <1>1, <1>5, <2>1
  <2> QED
    BY <1>4, <2>2
<1> QED
  BY <1>1, <1>2, <1>6, <1>7, <1>8

\* new is what a tier s makes of the reasons out of the tiers before it
Of(r, s) == r[1] = s.tps /\ r[2] \in Notes
Tells(out, s, new) ==
  /\ s.status = "PASS" => new = out
  /\ s.status = "FAIL" => 
       /\ ToSet(out) \subseteq ToSet(new) /\ \E r \in ToSet(new) : Of(r, s)
       /\ \A r \in ToSet(new) :
            \/ r \in ToSet(out) \/ Of(r, s)
            \/ r = <<s.tps, "unknown">> /\ \E q \in ToSet(out) : Of(q, s)

LEMMA OneTells ==
  ASSUME NEW out \in Seq(Reason), NEW s \in Summary, s.status = "FAIL" => s.notes # <<>>
  PROVE  ReasonsWith(out, s) \in Seq(Reason) /\ Tells(out, s, ReasonsWith(out, s))
<1> DEFINE items == [i \in DOMAIN s.notes |-> <<s.tps, s.notes[i]>>]
           keep == ToSet(items) \ ToSet(out)
           new == Sift(items, keep)
           unknown == <<s.tps, "unknown">>
<1>1. s.tps \in Int /\ s.notes \in Seq(Notes) /\ s.status \in {"PASS", "FAIL"}
  BY DEF Summary
<1>2. unknown \in Reason
  BY <1>1 DEF Reason
<1>3. items \in Seq(Reason) /\ Len(items) = Len(s.notes) /\ \A i \in 1..Len(items) : Of(items[i], s)
  <2>1. PICK notes \in Seq(Notes) : notes = s.notes
    BY <1>1
  <2>2. Len(notes) \in Nat /\ DOMAIN notes = 1..Len(notes) /\ \A i \in 1..Len(notes) : notes[i] \in Notes
    OBVIOUS
  <2>3. items = [i \in 1..Len(notes) |-> <<s.tps, notes[i]>>]
    BY <2>1, <2>2
  <2> HIDE DEF items
  <2>4. \A i \in 1..Len(notes) : <<s.tps, notes[i]>> \in Reason
    <3> HIDE DEF Notes
    <3> QED
      BY <1>1, <2>2 DEF Reason
  <2>5. items \in Seq(Reason) /\ Len(items) = Len(notes)
    <3> HIDE DEF Reason
    <3> QED
      BY <2>2, <2>3, <2>4
  <2>6. \A i \in 1..Len(notes) : Of(items[i], s)
    BY <2>2, <2>3 DEF Of
  <2> QED
    BY <2>1, <2>5, <2>6
<1> HIDE DEF Reason, Summary, Notes, items
<1>4. ToSet(items) = {items[i] : i \in 1..Len(items)} /\ (items # <<>> <=> ToSet(items) # {})
  BY <1>3, ToSetOf
<1>5. \A r \in ToSet(items) : Of(r, s)
  BY <1>3, <1>4
<1>6. new \in Seq(Reason) /\ \A x : x \in ToSet(new) <=> x \in ToSet(items) /\ x \in keep
  <2>1. PICK k : k = keep
    OBVIOUS
  <2>2. Sift(items, k) \in Seq(Reason) /\ \A x : x \in ToSet(Sift(items, k)) <=> x \in ToSet(items) /\ x \in k
    BY <1>3, SiftIs
  <2> QED
    BY <2>1, <2>2
<1>7. ToSet(new) = keep
  <2>1. keep \subseteq ToSet(items)
    OBVIOUS
  <2> HIDE DEF keep, new
  <2> QED
    BY <1>6, <2>1
<1> HIDE DEF new
<1>8. new # <<>> <=> ToSet(new) # {}
  BY <1>6, ToSetOf
<1>9. /\ s.status = "PASS" => ReasonsWith(out, s) = out
      /\ s.status # "PASS" /\ new # <<>> => ReasonsWith(out, s) = out \o new
      /\ s.status # "PASS" /\ new = <<>> =>
           ReasonsWith(out, s) = IF unknown \in ToSet(out) THEN out ELSE Append(out, unknown)
  BY DEF ReasonsWith, items, keep, new
<1>10. CASE s.status = "PASS"
  BY <1>9, <1>10 DEF Tells
<1>11. ASSUME s.status = "FAIL" PROVE \E r \in ToSet(items) : Of(r, s)
  <2>1. s.notes # <<>> /\ Len(s.notes) > 0
    BY <1>1, <1>11
  <2>2. 1 \in 1..Len(items)
    BY <1>1, <1>3, <2>1
  <2> QED
    BY <1>4, <1>5, <2>2
<1>12. CASE s.status = "FAIL" /\ new # <<>>
  <2>1. ReasonsWith(out, s) = out \o new
    BY <1>9, <1>12
  <2>2. ToSet(out \o new) = ToSet(out) \cup keep /\ out \o new \in Seq(Reason)
    BY <1>6, <1>7, ToSetOfBoth
  <2>3. \E r \in keep : Of(r, s)
    BY <1>5, <1>7, <1>8, <1>12
  <2>4. \A r \in keep : Of(r, s)
    BY <1>5
  <2> HIDE DEF keep
  <2> QED
    BY <1>12, <2>1, <2>2, <2>3, <2>4 DEF Tells
<1>13. CASE s.status = "FAIL" /\ new = <<>>
  <2>1. ReasonsWith(out, s) = IF unknown \in ToSet(out) THEN out ELSE Append(out, unknown)
    BY <1>9, <1>13
  <2>2. \E q \in ToSet(out) : Of(q, s)
    <3>1. keep = {}
      BY <1>7, <1>8, <1>13
    <3> QED
      BY <1>11, <1>13, <3>1
  <2>3. Append(out, unknown) \in Seq(Reason) /\ ToSet(Append(out, unknown)) = ToSet(out) \cup {unknown}
    BY <1>2, ToSetOfAppend
  <2>4. ReasonsWith(out, s) \in Seq(Reason)
    BY <2>1, <2>3
  <2>5. ToSet(ReasonsWith(out, s)) = ToSet(out) \cup {unknown}
    BY <2>1, <2>3
  <2>6. PICK t : t = ReasonsWith(out, s)
    OBVIOUS
  <2>7. Tells(out, s, t)
    BY <1>13, <2>2, <2>5, <2>6 DEF Tells
  <2> QED
    BY <2>4, <2>6, <2>7
<1> QED
  BY <1>1, <1>10, <1>12, <1>13

\* what the reasons out of the first k tiers say
Explained(k, out) ==
  /\ out \in Seq(Reason) /\ (out = <<>> <=> \A j \in 1..k : summaries[j].status = "PASS")
  /\ \A j \in 1..k : summaries[j].status = "FAIL" => \E r \in ToSet(out) : Of(r, summaries[j])
  /\ \A r \in ToSet(out) : r[2] # "unknown" => \E j \in 1..k : Of(r, summaries[j])
  /\ \A r \in ToSet(out) : r[2] = "unknown" =>
       \E j, l \in 1..k : j # l /\ summaries[j].tps = r[1] /\ summaries[l].tps = r[1]

LEMMA ExplainedNext ==
  ASSUME Typed, NEW k \in Nat, k + 1 <= Len(summaries), NEW out, Explained(k, out),
         NEW new \in Seq(Reason), Tells(out, summaries[k + 1], new)
  PROVE  Explained(k + 1, new)
<1>1. PICK s : s = summaries[k + 1]
  OBVIOUS
<1>2. s.status \in {"PASS", "FAIL"}
  <2>1. k + 1 \in 1..Len(summaries) /\ \A i \in 1..Len(summaries) : summaries[i] \in Summary
    BY TiersAre
  <2> QED
    BY <1>1, <2>1 DEF Summary
<1>3. 1..(k + 1) = (1..k) \cup {k + 1} /\ k + 1 \notin 1..k
  OBVIOUS
<1>4. "unknown" \notin Notes
  BY DEF Notes
<1>5. \A r : Of(r, s) => r[1] = s.tps /\ r[2] # "unknown"
  BY <1>4 DEF Of
<1>6. CASE s.status = "PASS"
  <2>1. new = out
    BY <1>1, <1>6 DEF Tells
  <2> QED
    BY <1>1, <1>3, <1>6, <2>1 DEF Explained
<1>7. CASE s.status = "FAIL"
  <2>1. /\ ToSet(out) \subseteq ToSet(new) /\ \E r \in ToSet(new) : Of(r, s)
        /\ \A r \in ToSet(new) :
             \/ r \in ToSet(out) \/ Of(r, s)
             \/ r = <<s.tps, "unknown">> /\ \E q \in ToSet(out) : Of(q, s)
    BY <1>1, <1>7 DEF Tells
  <2>2. new # <<>>
    BY <2>1, ToSetOf
  <2>3. \A j \in 1..(k + 1) :
          summaries[j].status = "FAIL" => \E r \in ToSet(new) : Of(r, summaries[j])
    BY <1>1, <1>3, <2>1 DEF Explained
  <2>4. ASSUME NEW r \in ToSet(new), r[2] # "unknown" PROVE \E j \in 1..(k + 1) : Of(r, summaries[j])
    <3>1. r \in ToSet(out) \/ Of(r, s)
      BY <2>1, <2>4
    <3>2. CASE r \in ToSet(out)
      BY <1>3, <2>4, <3>2 DEF Explained
    <3>3. CASE Of(r, s)
      BY <1>1, <1>3, <3>3
    <3> QED
      BY <3>1, <3>2, <3>3
  <2>5. ASSUME NEW r \in ToSet(new), r[2] = "unknown"
        PROVE  \E j, l \in 1..(k + 1) : j # l /\ summaries[j].tps = r[1] /\ summaries[l].tps = r[1]
    <3>1. CASE r \in ToSet(out)
      BY <1>3, <2>5, <3>1 DEF Explained
    <3>2. CASE r \notin ToSet(out)
      <4>1. r = <<s.tps, "unknown">> /\ \E q \in ToSet(out) : Of(q, s)
        BY <1>5, <2>1, <2>5, <3>2
      <4>2. PICK q \in ToSet(out) : Of(q, s)
        BY <4>1
      <4>3. PICK j \in 1..k : Of(q, summaries[j])
        BY <1>5, <4>2 DEF Explained
      <4>4. summaries[j].tps = s.tps
        BY <1>5, <4>2, <4>3 DEF Of
      <4> QED
        BY <1>1, <1>3, <4>1, <4>4
    <3> QED
      BY <3>1, <3>2
  <2>6. ~\A j \in 1..(k + 1) : summaries[j].status = "PASS"
    BY <1>1, <1>3, <1>7
  <2> QED
    BY <2>2, <2>3, <2>4, <2>5, <2>6 DEF Explained
<1> QED
  BY <1>2, <1>6, <1>7

Noted == \A i \in 1..Len(summaries) : summaries[i].status = "FAIL" => summaries[i].notes # <<>>

LEMMA ReasonsExplained ==
  ASSUME Typed, Noted
  PROVE  Explained(Len(summaries), Reasons)
<1> DEFINE n == Len(summaries)
           Is(f) == f = [i \in 0..n |-> IF i = 0 THEN <<>> ELSE ReasonsWith(f[i - 1], summaries[i])]
           out == CHOOSE f : Is(f)
           step == [i \in 1..n |-> [before \in Seq(Reason) |-> ReasonsWith(before, summaries[i])]]
<1>1. n \in Nat /\ \A i \in 1..n : summaries[i] \in Summary /\ (summaries[i].status = "FAIL" => summaries[i].notes # <<>>)
  BY TiersAre DEF Noted
<1> HIDE DEF Reason, Summary
<1>2. \E f : Is(f)
  <2>1. step \in [1..n -> [Seq(Reason) -> Seq(Reason)]]
    <3>1. \A i \in 1..n : \A before \in Seq(Reason) : ReasonsWith(before, summaries[i]) \in Seq(Reason)
      BY <1>1, OneTells
    <3> QED
      BY <3>1
  <2>2. <<>> \in Seq(Reason)
    OBVIOUS
  <2>3. PICK g \in [0..n -> Seq(Reason)] :
          g[0] = <<>> /\ \A i \in 1..n : g[i] = step[i][g[i - 1]]
    <3> HIDE DEF step, n
    <3>1. Computed(Seq(Reason), <<>>, n, step)
      BY <1>1, <2>1, <2>2, StepByStep
    <3> QED
      BY <3>1 DEF Computed
  <2>4. ASSUME NEW i \in 1..n PROVE g[i] = ReasonsWith(g[i - 1], summaries[i])
    <3>1. g[i - 1] \in Seq(Reason)
      BY <1>1
    <3>2. step[i][g[i - 1]] = ReasonsWith(g[i - 1], summaries[i])
      BY <3>1
    <3> QED
      BY <2>3, <3>2
  <2>5. \A i \in 0..n : g[i] = IF i = 0 THEN <<>> ELSE ReasonsWith(g[i - 1], summaries[i])
    BY <1>1, <2>3, <2>4
  <2>6. Is(g)
    BY <2>5
  <2> QED
    BY <2>6
<1>3. Is(out)
  BY <1>2
<1>4. out[0] = <<>> /\ \A i \in 1..n : out[i] = ReasonsWith(out[i - 1], summaries[i])
  <2> HIDE DEF out
  <2> QED
    BY <1>1, <1>3
<1>5. Reasons = out[n]
  BY DEF Reasons
<1> HIDE DEF out
<1> DEFINE T == {k \in Nat : k <= n => Explained(k, out[k])}
<1>6. 0 \in T
  <2>1. <<>> \in Seq(Reason) /\ ToSet(<<>>) = {}
    BY DEF ToSet
  <2>2. Explained(0, <<>>)
    BY <2>1 DEF Explained
  <2> QED
    BY <1>4, <2>2
<1>7. \A k \in Nat : k \in T => k + 1 \in T
  <2> SUFFICES ASSUME NEW k \in Nat, Explained(k, out[k]), k + 1 <= n
               PROVE  Explained(k + 1, out[k + 1])
    BY <1>1
  <2>1. k + 1 \in 1..n /\ (k + 1) - 1 = k
    BY <1>1
  <2>2. out[k + 1] = ReasonsWith(out[k], summaries[k + 1])
    BY <1>4, <2>1
  <2>3. out[k] \in Seq(Reason)
    BY DEF Explained
  <2>4. out[k + 1] \in Seq(Reason) /\ Tells(out[k], summaries[k + 1], out[k + 1])
    BY <1>1, <2>1, <2>2, <2>3, OneTells
  <2> QED
    BY <2>4, ExplainedNext
<1>8. n \in T
  <2> HIDE DEF T
  <2> QED
    BY <1>1, <1>6, <1>7, CountUp
<1> QED
  BY <1>1, <1>5, <1>8

\* what a verdict says of the run it is written for
LEMMA VerdictSays ==
  ASSUME Typed, Noted
  PROVE  /\ FailedReasons = <<>> <=> AllPassed
         /\ Status = "PASS" <=> AllPassed
         /\ \A i \in DOMAIN summaries : summaries[i].status = "FAIL" =>
              \E r \in ToSet(FailedReasons) : r[1] = summaries[i].tps /\ r[2] # "unknown"
         /\ \A r \in ToSet(FailedReasons) : r[2] = "unknown" =>
              Cardinality({i \in DOMAIN summaries : summaries[i].tps = r[1]}) > 1
<1> DEFINE n == Len(summaries)
<1>1. n \in Nat /\ DOMAIN summaries = 1..n
  BY TiersAre
<1>2. Explained(n, Reasons)
  BY ReasonsExplained
<1>3. FailedReasons = <<>> => Status = "PASS"
  BY DEF Status
<1>4. FailedReasons # <<>> => Status = "FAIL"
  BY DEF Status
<1>5. CASE warmup = "FAIL"
  <2>1. summaries = <<>> /\ n = 0
    BY <1>5 DEF Typed, Control
  <2>2. Reasons \in Seq(Reason) /\ Reasons = <<>>
    BY <1>2, <2>1 DEF Explained
  <2>3. FailedReasons = <<<<0, "warmup">>>>
    BY <1>5, <2>2 DEF FailedReasons
  <2>4. ToSet(FailedReasons) = {<<0, "warmup">>}
    BY <2>3 DEF ToSet
  <2>5. FailedReasons # <<>>
    BY <2>3
  <2> QED
    BY <1>1, <1>4, <1>5, <2>1, <2>4, <2>5 DEF AllPassed
<1>6. CASE warmup # "FAIL"
  <2>1. Reasons \in Seq(Reason)
    BY <1>2 DEF Explained
  <2>2. FailedReasons = Reasons
    <3>1. <<>> \o Reasons = Reasons
      BY <2>1
    <3> QED
      BY <1>6, <3>1 DEF FailedReasons
  <2>3. FailedReasons = <<>> <=> AllPassed
    BY <1>1, <1>2, <1>6, <2>2 DEF Explained, AllPassed
  <2>4. \A i \in DOMAIN summaries : summaries[i].status = "FAIL" =>
          \E r \in ToSet(FailedReasons) : r[1] = summaries[i].tps /\ r[2] # "unknown"
    BY <1>1, <1>2, <2>2 DEF Explained, Of, Notes
  <2>5. ASSUME NEW r \in ToSet(FailedReasons), r[2] = "unknown"
        PROVE  Cardinality({i \in DOMAIN summaries : summaries[i].tps = r[1]}) > 1
    <3> DEFINE S == {i \in DOMAIN summaries : summaries[i].tps = r[1]}
    <3>1. PICK j \in 1..n, l \in 1..n : j # l /\ summaries[j].tps = r[1] /\ summaries[l].tps = r[1]
      BY <1>2, <2>2, <2>5 DEF Explained
    <3>2. S \in SUBSET (1..n) /\ {j, l} \in SUBSET S
      BY <1>1, <3>1
    <3> HIDE DEF S
    <3>3. IsFiniteSet(1..n)
      <4>1. 1 \in Int /\ n \in Int
        BY <1>1
      <4> HIDE DEF n
      <4> QED
        BY <4>1, FS_Interval
    <3>4. IsFiniteSet(S) /\ Cardinality(S) \in Nat
      BY <3>2, <3>3, FS_Subset, FS_CardinalityType
    <3>5. Cardinality({j, l}) = 2
      <4>1. IsFiniteSet({j}) /\ Cardinality({j}) = 1
        BY FS_Singleton
      <4>2. Cardinality({j} \cup {l}) = Cardinality({j}) + 1
        BY <3>1, <4>1, FS_AddElement
      <4>3. {j} \cup {l} = {j, l}
        OBVIOUS
      <4>4. Cardinality({j, l}) = Cardinality({j}) + 1
        BY <4>2, <4>3
      <4> QED
        BY <4>1, <4>4
    <3>6. Cardinality({j, l}) <= Cardinality(S)
      BY <3>2, <3>4, FS_Subset
    <3> QED
      BY <3>4, <3>5, <3>6 DEF S
  <2> QED
    BY <1>3, <1>4, <2>3, <2>4, <2>5
<1> QED
  BY <1>5, <1>6

-----------------------------------------------------------------------------
(***************************************************************************)
(* The artifacts.                                                          *)
(***************************************************************************)
Files ==
  /\ disk.metrics \in 0..run /\ disk.verdict \in 0..run /\ disk.summary \in 0..run
  /\ disk = [metrics |-> disk.metrics, verdict |-> disk.verdict, summary |-> disk.summary,
             status |-> disk.status, reasons |-> disk.reasons, worst |-> disk.worst]
  /\ phase \notin {"summary", "end", "exit"} => disk.verdict < run
  /\ phase \notin {"end", "exit"} => disk.summary < run
  /\ phase \in {"verdict", "summary", "end"} => disk.metrics = run
  /\ phase \in {"summary", "end"} => disk.verdict = run
  /\ phase = "end" => disk.summary = run

\* a verdict of this run is about this run
Verdict ==
  disk.verdict = run =>
    disk.status = Status /\ disk.reasons = FailedReasons /\ disk.worst = TopSlow

\* no tier is left out of a run that has passed
Complete ==
  /\ setup.mode # "max" => search = NoSearch
  /\ phase \in Closing \ {"exit"} /\ AllPassed => Len(summaries) = Len(tiers)

Left ==
  /\ exit = 0 => OfThisRun /\ Status = "PASS" /\ (AllPassed => Len(summaries) = Len(tiers))
  /\ exit = 1 => Status = "FAIL" \/ disk.summary # run

Sampled == samples \in Seq(SampleSet)

Written == Files /\ Verdict /\ Complete /\ Left /\ Noted /\ Sampled

\* the verdict depends on what main and runTier have left behind
LEMMA VerdictStays ==
  ASSUME UNCHANGED <<warmup, summaries, samples>>
  PROVE  UNCHANGED <<Status, FailedReasons, TopSlow, AllPassed, Noted, Sampled>>
<1>1. UNCHANGED FailedReasons
  BY DEF FailedReasons, Reasons
<1>2. UNCHANGED TopSlow
  BY DEF TopSlow, Place, Slower
<1> QED
  BY <1>1, <1>2 DEF Status, AllPassed, Noted, Sampled

LEMMA SampledStep ==
  ASSUME Typed, Sampled, [Next]_vars
  PROVE  Sampled'
<1>1. CASE Sample
  <2>1. phase = "sample" /\ Answered /\ Querying /\ UNCHANGED <<tiers, tier>>
    BY <1>1 DEF Sample, Querying
  <2>2. LagRead \in Nat /\ tiers[tier] \in Int
    BY <2>1, Reads, TiersAre DEF Typed, Progress, InTier
  <2>3. stall' \in Nat
    <3>1. Typed'
      BY TypedStep
    <3> QED
      BY <3>1 DEF Typed, Measures
  <2>4. PICK delayed \in 0..MinOf({1, setup.slows - slow}) :
          samples' = Append(samples, [tps |-> tiers[tier], slow |-> delayed, stall |-> stall',
                                      lag |-> LagRead])
    BY <1>1 DEF Sample
  <2>5. delayed \in Nat
    OBVIOUS
  <2>6. PICK s \in SampleSet : samples' = Append(samples, s)
    BY <2>2, <2>3, <2>4, <2>5 DEF SampleSet
  <2> QED
    BY <2>6 DEF Sampled
<1>2. CASE Rerun
  <2>1. samples' = <<>>
    BY <1>2 DEF Rerun
  <2> QED
    BY <2>1 DEF Sampled
<1>3. CASE Main \/ Ask \/ FirstQuery \/ Drain \/ Judge \/ Chain \/ Mine \/ UNCHANGED vars
  <2>1. UNCHANGED samples
    BY <1>3 DEF Main, Flags, WarmUp, Prepare, Fund, Funded, Sync, NextTier, WriteMetrics,
         WriteVerdict, WriteSummary, End, Ask, FirstQuery, Drain, Judge, Chain, Grow, DropBlock,
         Mine, vars, perfVars, results
  <2> QED
    BY <2>1 DEF Sampled
<1> QED
  BY <1>1, <1>2, <1>3 DEF Next, RunTier

\* a tier that fails has something to say
LEMMA NotedStep ==
  ASSUME Typed, Noted, [Next]_vars
  PROVE  Noted'
<1>1. CASE Judge
  <2>1. PICK s \in Summary :
          /\ summaries' = Append(summaries, s)
          /\ s.status = (IF Broken(maxLag') \subseteq {"sender_backpressure_drop"} THEN "PASS" ELSE "FAIL")
          /\ s.notes = Sift(NoteOrder, Broken(maxLag'))
    BY <1>1, Judged
  <2>2. ASSUME s.status = "FAIL" PROVE s.notes # <<>>
    <3>1. PICK broken : broken = Broken(maxLag')
      OBVIOUS
    <3>2. broken \subseteq ToSet(NoteOrder)
      BY <3>1 DEF Broken
    <3>3. PICK note \in broken : note # "sender_backpressure_drop"
      BY <2>1, <2>2, <3>1
    <3>4. NoteOrder \in Seq(Notes)
      BY DEF NoteOrder, Notes
    <3>5. /\ Sift(NoteOrder, broken) \in Seq(Notes)
          /\ \A x : x \in ToSet(Sift(NoteOrder, broken)) <=> x \in ToSet(NoteOrder) /\ x \in broken
      BY <3>4, SiftIs
    <3>6. note \in ToSet(Sift(NoteOrder, broken))
      BY <3>2, <3>3, <3>5
    <3>7. Sift(NoteOrder, broken) # <<>>
      BY <3>5, <3>6, ToSetOf
    <3> QED
      BY <2>1, <3>1, <3>7
  <2>3. /\ Len(summaries) \in Nat /\ Len(summaries') = Len(summaries) + 1
        /\ \A i \in 1..Len(summaries') :
             summaries'[i] = IF i = Len(summaries) + 1 THEN s ELSE summaries[i]
    <3>1. summaries \in Seq(Summary)
      BY TiersAre
    <3> HIDE DEF Summary
    <3> QED
      BY <2>1, <3>1
  <2> QED
    BY <2>2, <2>3 DEF Noted
<1>2. CASE Rerun
  <2>1. summaries' = <<>>
    BY <1>2 DEF Rerun
  <2> QED
    BY <2>1 DEF Noted
<1>3. CASE Main \/ Ask \/ FirstQuery \/ Sample \/ Drain \/ Chain \/ Mine \/ UNCHANGED vars
  <2>1. UNCHANGED summaries
    BY <1>3 DEF Main, Flags, WarmUp, Prepare, Fund, Funded, Sync, NextTier, WriteMetrics,
         WriteVerdict, WriteSummary, End, Ask, FirstQuery, Sample, Drain, Chain, Grow, DropBlock,
         Mine, vars, perfVars, results
  <2> QED
    BY <2>1 DEF Noted
<1> QED
  BY <1>1, <1>2, <1>3 DEF Next, RunTier

LEMMA CompleteStep ==
  ASSUME Typed, Searching, Complete, [Next]_vars
  PROVE  Complete'
<1> USE DEF Opening, InTier, Closing
<1>0. UNCHANGED setup
  <2>1. Next => UNCHANGED setup
    BY DEF Next, Main, RunTier, Flags, WarmUp, Prepare, Fund, Funded, Sync, NextTier, WriteMetrics,
           WriteVerdict, WriteSummary, End, Ask, FirstQuery, Sample, Drain, Judge, Chain, Grow,
           DropBlock, Mine, Rerun, perfVars, control
  <2> QED
    BY <2>1 DEF vars, perfVars, control
<1>1. CASE WarmUp
  <2>1. /\ UNCHANGED search
        /\ phase' = "prepare" \/ warmup' = "FAIL"
    BY <1>1 DEF WarmUp
  <2> QED
    BY <1>0, <2>1 DEF Complete, AllPassed
<1>2. CASE NextTier
  <2>1. /\ phase = "judged" /\ UNCHANGED <<tiers, warmup, summaries>>
        /\ search' = IF setup.mode = "max" THEN SearchAfter(Last(summaries)) ELSE search
        /\ \/ phase' = "metrics" /\ (search'.reason # "none" \/ tier = Len(tiers))
           \/ phase' = "sync"
    BY <1>2 DEF NextTier
  <2>2. tier \in 1..Len(tiers) /\ Len(summaries) = tier /\ Len(tiers) \in Nat
    BY <2>1, TiersAre DEF Typed, Progress
  <2>3. setup.mode # "max" => search' = NoSearch
    BY <2>1 DEF Complete
  <2>4. ASSUME phase' = "metrics", AllPassed', tier # Len(tiers) PROVE FALSE
    <3>1. search'.reason # "none" /\ setup.mode = "max"
      BY <2>1, <2>3, <2>4 DEF NoSearch
    <3>2. Last(summaries) = summaries[tier] /\ summaries[tier] \in Summary
      BY <2>2, TiersAre DEF Last
    <3>3. summaries[tier].status = "PASS"
      <4>1. DOMAIN summaries = 1..tier
        BY <2>2, TiersAre
      <4> QED
        BY <2>1, <2>2, <2>4, <4>1 DEF AllPassed
    <3>4. summaries[tier].tps = tiers[tier] /\ search.reason = "none"
      BY <2>1, <3>1 DEF Searching, Climbed
    <3>5. tiers[tier] < setup.target /\ tiers[tier] \in Int /\ setup.target \in Int
      <4>1. Climbs(tiers, setup.base, setup.step, setup.target) /\ setup.target \in Int
        BY <2>2, <3>1, TiersOf, PerfRunAssumption DEF Typed, Control, Progress, Setup
      <4>2. tiers[tier] \in Int
        BY <2>2, TiersAre
      <4> QED
        BY <2>2, <2>4, <4>1, <4>2 DEF Climbs
    <3>6. search' = [search EXCEPT !.stable = summaries[tier].tps]
      BY <2>1, <3>1, <3>2, <3>3, <3>4, <3>5 DEF SearchAfter
    <3>7. search'.reason = search.reason
      BY <3>6
    <3> QED
      BY <3>1, <3>4, <3>7
  <2> QED
    BY <1>0, <2>1, <2>2, <2>3, <2>4 DEF Complete
<1>3. CASE WriteMetrics \/ WriteVerdict \/ WriteSummary \/ End
  <2>1. /\ UNCHANGED <<tiers, summaries, search, warmup>> /\ phase \in Closing \ {"exit"}
    BY <1>3 DEF WriteMetrics, WriteVerdict, WriteSummary, End
  <2> QED
    BY <1>0, <2>1 DEF Complete, AllPassed
<1>4. CASE Fund \/ Ask \/ Chain \/ Mine \/ UNCHANGED vars
  <2>1. UNCHANGED <<control, results>>
    BY <1>4 DEF Fund, Mine, Ask, Chain, Grow, DropBlock, vars, perfVars
  <2>2. UNCHANGED <<phase, tiers, summaries, search, warmup>>
    BY <2>1 DEF control, results
  <2> QED
    BY <1>0, <2>2 DEF Complete, AllPassed
<1>5. CASE Flags \/ Prepare \/ Funded \/ Sync \/ FirstQuery \/ Sample \/ Drain \/ Judge
  <2>1. UNCHANGED search /\ phase' \notin Closing \ {"exit"}
    BY <1>5 DEF Flags, Prepare, Funded, Sync, FirstQuery, Sample, Drain, Judge, Exit, results
  <2> QED
    BY <1>0, <2>1 DEF Complete
<1>6. CASE Rerun
  BY <1>0, <1>6 DEF Rerun, Complete
<1> QED
  BY <1>1, <1>2, <1>3, <1>4, <1>5, <1>6 DEF Next, Main, RunTier

\* before the first artifact of the run, and when the run ends there
LEMMA NothingWritten ==
  ASSUME Typed, Written, UNCHANGED <<run, disk>>, phase \notin Closing \ {"metrics"},
         phase' \notin Closing \ {"metrics", "exit"}, phase' = "exit" => exit' = 1,
         phase' # "exit" => exit' = -1
  PROVE  Files' /\ Verdict' /\ Left'
<1>1. run \in Nat /\ disk.verdict < run /\ disk.summary < run /\ disk.verdict \in Nat /\ disk.summary \in Nat
  <2>1. setup.runs \in Nat /\ run \in Nat
    BY PerfRunAssumption DEF Typed, Control, Setup
  <2> QED
    BY <2>1 DEF Written, Files, Closing
<1>2. Files'
  BY <1>1 DEF Written, Files, Closing
<1>3. Verdict'
  BY <1>1 DEF Verdict
<1>4. Left'
  BY <1>1 DEF Left
<1> QED
  BY <1>2, <1>3, <1>4

LEMMA FilesStep ==
  ASSUME Typed, Written, [Next]_vars
  PROVE  Files' /\ Verdict' /\ Left'
<1> USE DEF Opening, InTier, Closing
<1>0. /\ run \in Nat \ {0} /\ run' \in Nat /\ (exit = -1 <=> phase # "exit")
      /\ phase \in Opening \cup {"sync", "judged"} \cup InTier \cup Closing
      /\ disk.metrics \in Nat /\ disk.verdict \in Nat /\ disk.summary \in Nat /\ disk.verdict <= run
      /\ disk.summary <= run /\ disk.metrics <= run
  <2>1. Typed'
    BY TypedStep
  <2>2. setup.runs \in Nat /\ setup'.runs \in Nat
    BY <2>1, PerfRunAssumption DEF Typed, Control, Setup
  <2>3. run \in Nat \ {0} /\ run' \in Nat
    BY <2>1, <2>2 DEF Typed, Control
  <2> QED
    BY <2>3 DEF Typed, Control, Written, Files
<1>f. Files /\ Verdict /\ Left
  BY DEF Written
<1>1. CASE Flags \/ WarmUp \/ Prepare \/ Funded \/ Sync \/ NextTier
  <2>1. /\ UNCHANGED <<run, disk>> /\ phase \notin Closing
        /\ phase' \notin Closing \ {"metrics", "exit"}
        /\ phase' = "exit" => exit' = 1
        /\ phase' # "exit" => exit' = exit
    BY <1>1 DEF Flags, WarmUp, Prepare, Funded, Sync, NextTier, Exit, results
  <2> QED
    BY <1>0, <2>1, NothingWritten
<1>2. CASE FirstQuery \/ Sample \/ Drain \/ Judge
  <2>1. /\ UNCHANGED <<run, disk, exit>> /\ phase \notin Closing /\ phase' \notin Closing
    BY <1>2 DEF FirstQuery, Sample, Drain, Judge, results
  <2> QED
    BY <1>0, <2>1, NothingWritten
<1>3. CASE Fund \/ Ask \/ Chain \/ Mine \/ UNCHANGED vars
  <2>1. UNCHANGED <<control, results>>
    BY <1>3 DEF Fund, Mine, Ask, Chain, Grow, DropBlock, vars, perfVars
  <2>2. UNCHANGED <<phase, run, disk, exit, warmup, summaries, samples, tiers>>
    BY <2>1 DEF control, results
  <2>3. UNCHANGED <<Status, FailedReasons, TopSlow, AllPassed>>
    BY <2>2, VerdictStays
  <2> QED
    BY <1>f, <2>2, <2>3 DEF Files, Verdict, Left, OfThisRun
<1>4. CASE WriteMetrics
  <2>1. /\ phase = "metrics" /\ UNCHANGED <<run, warmup, summaries, samples, tiers>>
        /\ \/ disk' = [disk EXCEPT !.metrics = run] /\ phase' = "verdict" /\ exit' = exit
           \/ UNCHANGED disk /\ phase' = "exit" /\ exit' = 1
    BY <1>4 DEF WriteMetrics, Write, Exit
  <2>2. CASE UNCHANGED disk /\ phase' = "exit" /\ exit' = 1
    BY <2>1, <2>2, NothingWritten
  <2>3. CASE disk' = [disk EXCEPT !.metrics = run] /\ phase' = "verdict" /\ exit' = exit
    <3>1. /\ disk'.metrics = run /\ disk'.verdict = disk.verdict /\ disk'.summary = disk.summary
          /\ disk' = [metrics |-> disk'.metrics, verdict |-> disk'.verdict, summary |-> disk'.summary,
                      status |-> disk'.status, reasons |-> disk'.reasons, worst |-> disk'.worst]
      BY <1>f, <2>3 DEF Files
    <3>2. disk.verdict < run /\ disk.summary < run /\ exit' = -1
      BY <1>0, <1>f, <2>1, <2>3 DEF Files
    <3>3. Files'
      BY <1>0, <2>1, <2>3, <3>1, <3>2 DEF Files
    <3> QED
      BY <1>0, <2>1, <3>1, <3>2, <3>3 DEF Verdict, Left
  <2> QED
    BY <2>1, <2>2, <2>3
<1>5. CASE WriteVerdict
  <2>1. /\ phase = "verdict" /\ UNCHANGED <<run, warmup, summaries, samples, tiers>>
        /\ \/ /\ disk' = [disk EXCEPT !.verdict = run, !.status = Status, !.reasons = FailedReasons,
                                      !.worst = TopSlow]
              /\ phase' = "summary" /\ exit' = exit
           \/ UNCHANGED disk /\ phase' = "exit" /\ exit' = 1
    BY <1>5 DEF WriteVerdict, Exit
  <2>2. disk.verdict < run /\ disk.summary < run /\ disk.metrics = run /\ exit = -1
    BY <1>0, <1>f, <2>1 DEF Files
  <2>3. CASE UNCHANGED disk /\ phase' = "exit" /\ exit' = 1
    <3>1. Files'
      BY <1>0, <1>f, <2>1, <2>2, <2>3 DEF Files
    <3> QED
      BY <1>0, <2>1, <2>2, <2>3, <3>1 DEF Verdict, Left
  <2>4. CASE /\ disk' = [disk EXCEPT !.verdict = run, !.status = Status, !.reasons = FailedReasons,
                                     !.worst = TopSlow]
             /\ phase' = "summary" /\ exit' = exit
    <3>1. /\ disk'.metrics = run /\ disk'.verdict = run /\ disk'.summary = disk.summary
          /\ disk'.status = Status /\ disk'.reasons = FailedReasons /\ disk'.worst = TopSlow
          /\ disk' = [metrics |-> disk'.metrics, verdict |-> disk'.verdict, summary |-> disk'.summary,
                      status |-> disk'.status, reasons |-> disk'.reasons, worst |-> disk'.worst]
      BY <1>f, <2>2, <2>4 DEF Files
    <3>2. Files'
      BY <1>0, <2>1, <2>2, <2>4, <3>1 DEF Files
    <3>3. UNCHANGED <<Status, FailedReasons, TopSlow>>
      BY <2>1, VerdictStays
    <3> QED
      BY <2>2, <2>4, <3>1, <3>2, <3>3 DEF Verdict, Left
  <2> QED
    BY <2>1, <2>3, <2>4
<1>6. CASE WriteSummary
  <2>1. /\ phase = "summary" /\ UNCHANGED <<run, warmup, summaries, samples, tiers>>
        /\ \/ disk' = [disk EXCEPT !.summary = run] /\ phase' = "end" /\ exit' = exit
           \/ UNCHANGED disk /\ phase' = "exit" /\ exit' = 1
    BY <1>6 DEF WriteSummary, Write, Exit
  <2>2. disk.verdict = run /\ disk.summary < run /\ disk.metrics = run /\ exit = -1
    BY <1>0, <1>f, <2>1 DEF Files
  <2>3. UNCHANGED <<Status, FailedReasons, TopSlow>>
    BY <2>1, VerdictStays
  <2>4. CASE UNCHANGED disk /\ phase' = "exit" /\ exit' = 1
    <3>1. Files'
      BY <1>0, <1>f, <2>1, <2>2, <2>4 DEF Files
    <3>2. Verdict'
      BY <1>f, <2>1, <2>3, <2>4 DEF Verdict
    <3> QED
      BY <1>0, <2>1, <2>2, <2>4, <3>1, <3>2 DEF Left
  <2>5. CASE disk' = [disk EXCEPT !.summary = run] /\ phase' = "end" /\ exit' = exit
    <3>1. /\ disk'.metrics = run /\ disk'.verdict = run /\ disk'.summary = run
          /\ disk'.status = disk.status /\ disk'.reasons = disk.reasons /\ disk'.worst = disk.worst
          /\ disk' = [metrics |-> disk'.metrics, verdict |-> disk'.verdict, summary |-> disk'.summary,
                      status |-> disk'.status, reasons |-> disk'.reasons, worst |-> disk'.worst]
      BY <1>f, <2>2, <2>5 DEF Files
    <3>2. Files'
      BY <1>0, <2>1, <2>2, <2>5, <3>1 DEF Files
    <3>3. Verdict'
      BY <1>f, <2>1, <2>2, <2>3, <3>1 DEF Verdict
    <3> QED
      BY <2>2, <2>5, <3>2, <3>3 DEF Left
  <2> QED
    BY <2>1, <2>4, <2>5
<1>7. CASE End
  <2>1. /\ phase = "end" /\ phase' = "exit" /\ exit' = ExitCode
        /\ UNCHANGED <<run, warmup, summaries, samples, tiers, disk>>
    BY <1>7 DEF End, Exit
  <2>2. UNCHANGED <<Status, FailedReasons, TopSlow, AllPassed>>
    BY <2>1, VerdictStays
  <2>3. disk.verdict = run /\ disk.summary = run /\ disk.metrics = run
    BY <1>f, <2>1 DEF Files
  <2>4. Files'
    BY <1>0, <1>f, <2>1, <2>3 DEF Files
  <2>5. Verdict'
    BY <1>f, <2>1, <2>2 DEF Verdict
  <2>6. AllPassed => Len(summaries) = Len(tiers)
    BY <2>1 DEF Written, Complete
  <2>7. Status \in {"PASS", "FAIL"}
    BY DEF Status
  <2>8. Left'
    BY <2>1, <2>2, <2>3, <2>6, <2>7 DEF Left, OfThisRun, ExitCode
  <2> QED
    BY <2>4, <2>5, <2>8
<1>8. CASE Rerun
  <2>1. run' = run + 1 /\ phase' = "flags" /\ exit' = -1 /\ UNCHANGED disk
    BY <1>8 DEF Rerun
  <2>2. disk.verdict < run + 1 /\ disk.summary < run + 1 /\ disk.metrics < run + 1
    BY <1>0
  <2>3. Files'
    BY <1>0, <1>f, <2>1, <2>2 DEF Files
  <2> QED
    BY <1>0, <2>1, <2>2, <2>3 DEF Verdict, Left
<1> QED
  BY <1>1, <1>2, <1>3, <1>4, <1>5, <1>6, <1>7, <1>8 DEF Next, Main, RunTier

LEMMA WrittenStep ==
  ASSUME Typed, Searching, Written, [Next]_vars
  PROVE  Written'
<1>1. Files' /\ Verdict' /\ Left'
  BY FilesStep
<1>2. Complete' /\ Noted' /\ Sampled'
  BY CompleteStep, NotedStep, SampledStep DEF Written
<1> QED
  BY <1>1, <1>2 DEF Written

LEMMA WrittenStarts ==
  ASSUME Init
  PROVE  Written
<1>1. /\ phase = "flags" /\ summaries = <<>> /\ samples = <<>> /\ search = NoSearch /\ exit = -1 /\ run = 1
      /\ disk = [metrics |-> 0, verdict |-> 0, summary |-> 0, status |-> "none", reasons |-> <<>>,
                 worst |-> <<>>]
  BY DEF Init, Fresh
<1>2. Files /\ Verdict
  BY <1>1 DEF Files, Verdict
<1>3. Complete /\ Left
  BY <1>1 DEF Complete, Left, Closing
<1>4. Noted /\ Sampled
  BY <1>1 DEF Noted, Sampled
<1> QED
  BY <1>2, <1>3, <1>4 DEF Written

\* With any flags, tiers, thresholds and failures: a run exits with 0 exactly
\* when it has written all its artifacts and warm-up and all tiers have passed;
\* its verdict gives every failing tier a reason, repeats only what an earlier
\* tier of the same rate has said, and shows the worst samples (main,
\* collectFailedReasons, collectTopSlowWindows, writeVerdictArtifacts).
THEOREM ArtifactsCorrect == Spec => []ArtifactsExact
<1>1. Typed /\ Written => ExitExact
  <2> SUFFICES ASSUME Typed, Written PROVE ExitExact
    OBVIOUS
  <2>1. TypeOK
    BY TiersAre DEF Typed, Control, Progress, Measures, TypeOK, Opening, InTier, Closing
  <2>2. /\ FailedReasons = <<>> <=> AllPassed
        /\ Status = "PASS" <=> AllPassed
    BY VerdictSays DEF Written
  <2>3. disk.verdict = run => disk.status = Status /\ disk.reasons = FailedReasons
    BY DEF Written, Verdict
  <2>4. /\ exit = 0 => OfThisRun /\ Status = "PASS" /\ (AllPassed => Len(summaries) = Len(tiers))
        /\ exit = 1 => Status = "FAIL" \/ disk.summary # run
    BY DEF Written, Left
  <2> QED
    BY <2>1, <2>2, <2>3, <2>4 DEF ExitExact, OfThisRun
<1>2. Typed /\ Written => ReasonsExplain
  <2> SUFFICES ASSUME Typed, Written, disk.verdict = run PROVE ReasonsExplain
    BY DEF ReasonsExplain
  <2>1. disk.reasons = FailedReasons /\ disk.worst = TopSlow
    BY DEF Written, Verdict
  <2>2. /\ \A i \in DOMAIN summaries : summaries[i].status = "FAIL" =>
             \E r \in ToSet(FailedReasons) : r[1] = summaries[i].tps /\ r[2] # "unknown"
        /\ \A r \in ToSet(FailedReasons) : r[2] = "unknown" =>
             Cardinality({i \in DOMAIN summaries : summaries[i].tps = r[1]}) > 1
    BY VerdictSays DEF Written
  <2>3. \A i \in ToSet(TopSlow), k \in DOMAIN samples \ ToSet(TopSlow) : ~Slower(k, i)
    BY WorstShown DEF Written, Sampled
  <2> QED
    BY <2>1, <2>2, <2>3 DEF ReasonsExplain
<1>3. Typed /\ Searching /\ Written /\ [Next]_vars => Written'
  BY WrittenStep
<1>4. Spec => []Written
  BY <1>3, WrittenStarts, SearchingAlways, TypedAlways, PTL DEF Spec
<1> QED
  BY <1>1, <1>2, <1>4, TypedAlways, PTL DEF ArtifactsExact

=================================================================================
