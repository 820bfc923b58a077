------------------------------- MODULE Suite_proofs -------------------------------
(***************************************************************************)
(* Proofs about the fork checks, the helpers of the tests and the scripts  *)
(* behind the make targets, for any values of their constants that the     *)
(* named assumptions of MCSuite allow.                                     *)
(***************************************************************************)
EXTENDS MCSuite, SequenceTheorems, FiniteSetTheorems, WellFoundedInduction, TLAPS

-----------------------------------------------------------------------------
(***************************************************************************)
(* Counting up, and sequences that are computed step by step.              *)
(***************************************************************************)
LEMMA LeastExists ==
  ASSUME NEW T \in SUBSET Nat, T # {}
  PROVE  \E x \in T : \A y \in T : x <= y
<1>1. PICK x \in T : \A y \in T : ~(<<y, x>> \in OpToRel(<, Nat))
  BY NatLessThanWellFounded, WFMin
<1>2. \A y \in T : ~(y < x)
  BY <1>1 DEF OpToRel
<1> QED BY <1>2

LEMMA CountUp ==
  ASSUME NEW T, 0 \in T, \A k \in Nat : k \in T => k + 1 \in T
  PROVE  Nat \subseteq T
<1> SUFFICES ASSUME Nat \ T # {} PROVE FALSE
  OBVIOUS
<1>1. PICK x \in Nat \ T : \A y \in Nat \ T : x <= y
  BY LeastExists
<1>2. x # 0 /\ x - 1 \in Nat
  BY <1>1
<1>3. x - 1 \in T
  BY <1>1, <1>2
<1>4. (x - 1) + 1 \in T
  BY <1>2, <1>3
<1> QED
  BY <1>1, <1>4

\* a function that is computed step by step exists
Computed(X, first, last, steps) ==
  \E g \in [0..last -> X] : g[0] = first /\ \A i \in 1..last : g[i] = steps[i][g[i - 1]]

LEMMA StepByStep ==
  ASSUME NEW X, NEW first \in X, NEW last \in Nat, NEW steps \in [1..last -> [X -> X]]
  PROVE  Computed(X, first, last, steps)
<1> DEFINE Reaches(k) == \E g \in [0..k -> X] : g[0] = first /\ \A i \in 1..k : g[i] = steps[i][g[i - 1]]
           T == {k \in Nat : k <= last => Reaches(k)}
<1>1. 0 \in T
  <2> DEFINE g == [j \in 0..0 |-> first]
  <2>1. g \in [0..0 -> X] /\ g[0] = first
    OBVIOUS
  <2> HIDE DEF g
  <2>2. Reaches(0)
    BY <2>1
  <2> QED
    BY <2>2
<1>2. ASSUME NEW k \in Nat, k \in T PROVE k + 1 \in T
  <2> SUFFICES ASSUME k + 1 <= last PROVE Reaches(k + 1)
    OBVIOUS
  <2>1. Reaches(k)
    BY <1>2
  <2>2. PICK g \in [0..k -> X] : g[0] = first /\ \A i \in 1..k : g[i] = steps[i][g[i - 1]]
    BY <2>1
  <2> DEFINE next == steps[k + 1][g[k]]
             f == [j \in 0..(k + 1) |-> IF j = k + 1 THEN next ELSE g[j]]
  <2>3. next \in X
    <3>1. k + 1 \in 1..last /\ k \in 0..k
      OBVIOUS
    <3>2. steps[k + 1] \in [X -> X] /\ g[k] \in X
      BY <3>1
    <3> QED
      BY <3>2
  <2> HIDE DEF next
  <2>4. f \in [0..(k + 1) -> X]
    BY <2>3
  <2>5. f[0] = first
    BY <2>2
  <2>6. ASSUME NEW i \in 1..(k + 1) PROVE f[i] = steps[i][f[i - 1]]
    <3>1. f[i - 1] = g[i - 1]
      OBVIOUS
    <3>2. CASE i = k + 1
      BY <3>1, <3>2 DEF next
    <3>3. CASE i # k + 1
      BY <2>2, <3>1, <3>3
    <3> QED
      BY <3>2, <3>3
  <2> QED
    BY <2>4, <2>5, <2>6
<1>3. last \in T
  <2> HIDE DEF T
  <2> QED
    BY <1>1, <1>2, CountUp
<1> QED
  BY <1>3 DEF Computed

(***************************************************************************)
(* Sequences that are computed step by step.                               *)
(***************************************************************************)
LEMMA ToSetOf ==
  ASSUME NEW S, NEW s \in Seq(S)
  PROVE  /\ Len(s) \in Nat /\ DOMAIN s = 1..Len(s) /\ ToSet(s) \subseteq S
         /\ ToSet(s) = {s[i] : i \in 1..Len(s)}
         /\ s # <<>> <=> ToSet(s) # {}
BY DEF ToSet

LEMMA ElementsOf ==
  ASSUME NEW S, NEW s \in Seq(S)
  PROVE  \A i \in 1..Len(s) : s[i] \in ToSet(s) /\ s[i] \in S
BY ToSetOf

LEMMA ToSetOfAppend ==
  ASSUME NEW S, NEW s \in Seq(S), NEW x \in S
  PROVE  Append(s, x) \in Seq(S) /\ ToSet(Append(s, x)) = ToSet(s) \cup {x}
<1>1. Append(s, x) \in Seq(S) /\ Len(s) \in Nat /\ Len(Append(s, x)) = Len(s) + 1
  OBVIOUS
<1>2. \A i \in 1..(Len(s) + 1) : Append(s, x)[i] = IF i = Len(s) + 1 THEN x ELSE s[i]
  OBVIOUS
<1>3. ToSet(Append(s, x)) = {Append(s, x)[i] : i \in 1..(Len(s) + 1)}
  <2> DEFINE t == Append(s, x)
  <2>1. t \in Seq(S) /\ Len(t) = Len(s) + 1
    BY <1>1
  <2> HIDE DEF t
  <2>2. ToSet(t) = {t[i] : i \in 1..Len(t)}
    BY <2>1, ToSetOf
  <2>3. ToSet(t) = {t[i] : i \in 1..(Len(s) + 1)}
    BY <2>1, <2>2
  <2> QED
    BY <2>3 DEF t
<1>4. ToSet(s) = {s[i] : i \in 1..Len(s)}
  BY ToSetOf
<1> HIDE DEF ToSet
<1>5. ASSUME NEW y \in ToSet(Append(s, x)) PROVE y \in ToSet(s) \cup {x}
  BY <1>1, <1>2, <1>3, <1>4, <1>5
<1>6. ASSUME NEW y \in ToSet(s) PROVE y \in ToSet(Append(s, x))
  <2>1. PICK i \in 1..Len(s) : y = s[i]
    BY <1>4
  <2>2. i \in 1..(Len(s) + 1) /\ i # Len(s) + 1
    BY <1>1
  <2> QED
    BY <1>2, <1>3, <2>1, <2>2
<1>7. x \in ToSet(Append(s, x))
  <2>1. Len(s) + 1 \in 1..(Len(s) + 1)
    BY <1>1
  <2> QED
    BY <1>2, <1>3, <2>1
<1> QED
  BY <1>1, <1>5, <1>6, <1>7

\* the elements of a sequence, each where it comes first
Uniques(s) ==
  LET taken[n \in 0..Len(s)] ==
        IF n = 0 THEN <<>>
        ELSE IF s[n] \in ToSet(taken[n - 1]) THEN taken[n - 1]
        ELSE Append(taken[n - 1], s[n])
  IN  taken[Len(s)]

LEMMA UniquesStep ==
  ASSUME NEW S, NEW u \in Seq(S), NEW x \in S, \A i, j \in DOMAIN u : u[i] = u[j] => i = j
  PROVE  LET v == IF x \in ToSet(u) THEN u ELSE Append(u, x)
         IN  /\ v \in Seq(S) /\ ToSet(v) = ToSet(u) \cup {x}
             /\ \A i, j \in DOMAIN v : v[i] = v[j] => i = j
<1>1. CASE x \in ToSet(u)
  <2>1. ToSet(u) = ToSet(u) \cup {x}
    BY <1>1
  <2> QED BY <1>1, <2>1
<1>2. CASE x \notin ToSet(u)
  <2> DEFINE v == Append(u, x)
  <2>1. v \in Seq(S) /\ ToSet(v) = ToSet(u) \cup {x}
    BY ToSetOfAppend
  <2>2. /\ Len(u) \in Nat /\ Len(v) = Len(u) + 1 /\ DOMAIN v = 1..(Len(u) + 1)
        /\ \A i \in 1..(Len(u) + 1) : v[i] = IF i = Len(u) + 1 THEN x ELSE u[i]
    OBVIOUS
  <2>3. \A i \in 1..Len(u) : u[i] # x
    BY <1>2, ToSetOf
  <2>4. DOMAIN u = 1..Len(u)
    OBVIOUS
  <2> HIDE DEF v
  <2>5. ASSUME NEW i \in DOMAIN v, NEW j \in DOMAIN v, v[i] = v[j] PROVE i = j
    BY <2>2, <2>3, <2>4, <2>5
  <2> QED BY <1>2, <2>1, <2>5 DEF v
<1> QED BY <1>1, <1>2

LEMMA UniquesIs ==
  ASSUME NEW S, NEW s \in Seq(S)
  PROVE  /\ Uniques(s) \in Seq(S) /\ ToSet(Uniques(s)) = ToSet(s)
         /\ \A i, j \in DOMAIN Uniques(s) : Uniques(s)[i] = Uniques(s)[j] => i = j
<1> DEFINE Then(i, prev) == IF s[i] \in ToSet(prev) THEN prev ELSE Append(prev, s[i])
           Is(f) == f = [n \in 0..Len(s) |-> IF n = 0 THEN <<>> ELSE Then(n, f[n - 1])]
           out == CHOOSE f : Is(f)
           then == [i \in 1..Len(s) |-> [prev \in Seq(S) |-> Then(i, prev)]]
<1>1. Len(s) \in Nat /\ \A i \in 1..Len(s) : s[i] \in S
  OBVIOUS
<1>2. \E f : Is(f)
  <2>1. then \in [1..Len(s) -> [Seq(S) -> Seq(S)]]
    <3>1. \A i \in 1..Len(s) : \A prev \in Seq(S) : Then(i, prev) \in Seq(S)
      BY <1>1
    <3> QED BY <3>1
  <2>2. <<>> \in Seq(S)
    OBVIOUS
  <2>3. PICK g \in [0..Len(s) -> Seq(S)] :
          g[0] = <<>> /\ \A i \in 1..Len(s) : g[i] = then[i][g[i - 1]]
    <3> HIDE DEF then
    <3>1. Computed(Seq(S), <<>>, Len(s), then)
      BY <1>1, <2>1, <2>2, StepByStep
    <3> QED BY <3>1 DEF Computed
  <2>4. ASSUME NEW i \in 1..Len(s) PROVE g[i] = Then(i, g[i - 1])
    <3>1. g[i - 1] \in Seq(S)
      BY <1>1
    <3>2. then[i][g[i - 1]] = Then(i, g[i - 1])
      <4> HIDE DEF Then
      <4> QED BY <3>1
    <3> QED BY <2>3, <3>2
  <2> HIDE DEF Then
  <2>5. \A i \in 0..Len(s) : g[i] = IF i = 0 THEN <<>> ELSE Then(i, g[i - 1])
    BY <1>1, <2>3, <2>4
  <2>6. Is(g)
    BY <2>5
  <2> QED BY <2>6
<1>3. Is(out)
  BY <1>2
<1>4. out[0] = <<>> /\ \A i \in 1..Len(s) : out[i] = Then(i, out[i - 1])
  <2> HIDE DEF Then, out
  <2> QED BY <1>1, <1>3
<1>5. Uniques(s) = out[Len(s)]
  BY DEF Uniques
<1> HIDE DEF out
<1> DEFINE Some(k) == {s[i] : i \in 1..k}
           Right(k) == /\ out[k] \in Seq(S) /\ ToSet(out[k]) = Some(k)
                       /\ \A i, j \in DOMAIN out[k] : out[k][i] = out[k][j] => i = j
           T == {k \in Nat : k <= Len(s) => Right(k)}
<1>6. Right(0)
  <2>1. ToSet(<<>>) = {} /\ <<>> \in Seq(S) /\ DOMAIN <<>> = {}
    BY DEF ToSet
  <2>2. Some(0) = {}
    OBVIOUS
  <2> HIDE DEF Some
  <2> QED BY <1>4, <2>1, <2>2
<1>7. ASSUME NEW k \in Nat, k + 1 <= Len(s), Right(k) PROVE Right(k + 1)
  <2>1. k + 1 \in 1..Len(s) /\ (k + 1) - 1 = k
    BY <1>1, <1>7
  <2>2. out[k + 1] = IF s[k + 1] \in ToSet(out[k]) THEN out[k] ELSE Append(out[k], s[k + 1])
    BY <1>4, <2>1
  <2>3. Some(k + 1) = Some(k) \cup {s[k + 1]}
    <3>1. 1..(k + 1) = (1..k) \cup {k + 1}
      OBVIOUS
    <3> QED BY <3>1
  <2>4. s[k + 1] \in S
    BY <1>1, <2>1
  <2> DEFINE u == out[k]
             v == out[k + 1]
  <2>5. u \in Seq(S) /\ ToSet(u) = Some(k) /\ \A i, j \in DOMAIN u : u[i] = u[j] => i = j
    BY <1>7
  <2> HIDE DEF Some, out, u
  <2>6. v = IF s[k + 1] \in ToSet(u) THEN u ELSE Append(u, s[k + 1])
    BY <2>2 DEF u
  <2> HIDE DEF v
  <2>7. /\ v \in Seq(S) /\ ToSet(v) = ToSet(u) \cup {s[k + 1]}
        /\ \A i, j \in DOMAIN v : v[i] = v[j] => i = j
    BY <2>4, <2>5, <2>6, UniquesStep
  <2> QED BY <2>3, <2>5, <2>7 DEF v
<1> HIDE DEF Right
<1>8. Nat \subseteq T
  <2>1. 0 \in T
    BY <1>6
  <2>2. \A k \in Nat : k \in T => k + 1 \in T
    BY <1>1, <1>7
  <2> HIDE DEF T
  <2> QED BY <2>1, <2>2, CountUp
<1>9. Right(Len(s))
  BY <1>1, <1>8
<1>10. ToSet(s) = Some(Len(s))
  BY ToSetOf
<1> QED BY <1>5, <1>9, <1>10 DEF Right

LEMMA UniquePortsIs ==
  ASSUME NEW S, NEW s \in Seq(S)
  PROVE  Device!UniquePorts(s) \in Seq(S) /\ Device!ToSet(Device!UniquePorts(s)) = ToSet(s)
<1>1. Device!UniquePorts(s) = Uniques(s)
  BY DEF Device!UniquePorts, Uniques, Device!ToSet, ToSet
<1>2. \A t : Device!ToSet(t) = ToSet(t)
  BY DEF Device!ToSet, ToSet
<1> QED BY <1>1, <1>2, UniquesIs

-----------------------------------------------------------------------------
(***************************************************************************)
(* Delegation.                                                             *)
(***************************************************************************)

LEMMA SizeInStakes == \A S : Stakes!Cardinality(S) = Cardinality(S)
BY DEF Stakes!Cardinality, Cardinality

\* the nonces whose transaction is a delegation on the chain, or may become one
Counted == pool \cup ((0..(nonce - 1)) \ reverted)

\* of these, the one that no wait was given up for
Awaited ==
  IF step \in {"wait", "done"} \/ (step = "failed" /\ unheard) THEN {slot} ELSE {}

StakesInv ==
  /\ slot \in Nat /\ nonce \in Nat /\ staked \in Nat
  /\ step \in {"try", "send", "wait", "done", "failed"} /\ unheard \in BOOLEAN
  /\ pool \in SUBSET Nat /\ \A n \in pool : n >= nonce
  /\ reverted \in SUBSET (0..(nonce - 1))
  /\ inVain \in SUBSET Nat
  /\ IsFiniteSet(pool) /\ IsFiniteSet(inVain)
  /\ nonce = staked + Cardinality(reverted)
  /\ unheard => step = "failed"
  /\ step = "done" => slot < nonce /\ slot \notin reverted
  /\ Counted \subseteq inVain \cup Awaited

LEMMA CountOfStakes ==
  ASSUME StakesInv
  PROVE  /\ IsFiniteSet(Counted) /\ IsFiniteSet(reverted)
         /\ Cardinality(Counted) = staked + Cardinality(pool)
<1> DEFINE sent == 0..(nonce - 1)
<1>1. IsFiniteSet(sent) /\ Cardinality(sent) = nonce
  <2>1. 0 \in Int /\ nonce - 1 \in Int
    BY DEF StakesInv
  <2>2. IsFiniteSet(sent) /\ Cardinality(sent) = IF 0 > nonce - 1 THEN 0 ELSE (nonce - 1) - 0 + 1
    BY <2>1, FS_Interval
  <2> QED BY <2>2 DEF StakesInv
<1>2. IsFiniteSet(reverted) /\ Cardinality(reverted) \in Nat
  <2>1. reverted \subseteq sent
    BY DEF StakesInv
  <2> HIDE DEF sent
  <2>2. IsFiniteSet(reverted)
    BY <1>1, <2>1, FS_Subset
  <2> QED BY <2>2, FS_CardinalityType
<1>3. IsFiniteSet(sent \ reverted) /\ Cardinality(sent \ reverted) = staked
  <2>1. reverted \subseteq sent
    BY DEF StakesInv
  <2>2. sent \cap reverted = reverted
    BY <2>1
  <2> HIDE DEF sent
  <2>3. /\ IsFiniteSet(sent \ reverted)
        /\ Cardinality(sent \ reverted) = Cardinality(sent) - Cardinality(sent \cap reverted)
    BY <1>1, FS_Difference
  <2>4. Cardinality(sent \ reverted) = nonce - Cardinality(reverted)
    BY <1>1, <2>2, <2>3
  <2> QED BY <1>2, <2>3, <2>4 DEF StakesInv
<1>4. pool \cap (sent \ reverted) = {}
  BY DEF StakesInv
<1>5. IsFiniteSet(pool)
  BY DEF StakesInv
<1> DEFINE mined == sent \ reverted
<1>6. /\ IsFiniteSet(pool \cup mined)
      /\ Cardinality(pool \cup mined)
           = Cardinality(pool) + Cardinality(mined) - Cardinality(pool \cap mined)
  <2> HIDE DEF mined
  <2>1. IsFiniteSet(mined)
    BY <1>3 DEF mined
  <2> QED BY <1>5, <2>1, FS_Union
<1>7. Cardinality(pool \cap mined) = 0
  BY <1>4, FS_EmptySet
<1>8. Cardinality(pool) \in Nat /\ staked \in Nat
  BY <1>5, FS_CardinalityType DEF StakesInv
<1>9. Counted = pool \cup mined
  BY DEF Counted
<1> QED BY <1>2, <1>3, <1>6, <1>7, <1>8, <1>9

LEMMA PendingNonceType ==
  ASSUME StakesInv
  PROVE  Stakes!PendingNonce \in Nat
<1> DEFINE size == Cardinality(pool)
           free == {n \in nonce..(nonce + size) : n \notin pool}
           next(n) == n \notin pool /\ \A k \in nonce..(n - 1) : k \in pool
<1>1. size \in Nat /\ nonce \in Nat
  BY FS_CardinalityType DEF StakesInv
<1>2. free # {}
  <2> DEFINE some == nonce..(nonce + size)
  <2>1. IsFiniteSet(some) /\ Cardinality(some) = size + 1
    <3>1. nonce \in Int /\ nonce + size \in Int /\ ~(nonce > nonce + size)
      BY <1>1
    <3>2. /\ IsFiniteSet(some)
          /\ Cardinality(some) = IF nonce > nonce + size THEN 0 ELSE (nonce + size) - nonce + 1
      BY <3>1, FS_Interval
    <3> QED BY <1>1, <3>2
  <2> HIDE DEF some
  <2>2. CASE some \subseteq pool
    <3>1. IsFiniteSet(pool)
      BY DEF StakesInv
    <3>2. Cardinality(some) <= Cardinality(pool)
      BY <2>2, <3>1, FS_Subset
    <3> QED BY <1>1, <2>1, <3>2
  <2> QED BY <2>2 DEF some
<1>3. free \in SUBSET Nat
  BY <1>1
<1>4. PICK n \in free : \A m \in free : ~(<<m, n>> \in OpToRel(<, Nat))
  <2> HIDE DEF free
  <2> QED BY <1>2, <1>3, NatLessThanWellFounded, WFMin
<1>5. \A m \in free : ~(m < n)
  BY <1>3, <1>4 DEF OpToRel
<1>6. n \in nonce..(nonce + size) /\ next(n)
  BY <1>1, <1>5
<1>7. \E m \in nonce..(nonce + Cardinality(pool)) :
        m \notin pool /\ \A k \in nonce..(m - 1) : k \in pool
  BY <1>6
<1>8. Stakes!PendingNonce \in nonce..(nonce + Cardinality(pool))
  BY <1>7, SizeInStakes DEF Stakes!PendingNonce
<1> QED BY <1>1, <1>8

LEMMA StakesInit ==
  ASSUME Stakes!Init
  PROVE  StakesInv
<1>1. reverted = {} /\ Cardinality(reverted) = 0 /\ IsFiniteSet({})
  BY FS_EmptySet DEF Stakes!Init
<1>2. Counted = {}
  BY DEF Stakes!Init, Counted
<1>3. nonce = staked + Cardinality(reverted) /\ staked \in Nat
  BY <1>1 DEF Stakes!Init
<1> QED BY <1>1, <1>2, <1>3 DEF Stakes!Init, StakesInv

\* a transaction that is sent, and whose wait may come
LEMMA StakesSent ==
  ASSUME StakesInv, Stakes!Next, step = "send", slot >= nonce,
         pool' = pool \cup {slot}, step' \in {"wait", "failed"},
         step' = "failed" => unheard', step' = "wait" => unheard' = unheard,
         unheard' \in BOOLEAN,
         UNCHANGED <<slot, nonce, reverted, staked, inVain>>
  PROVE  StakesInv'
<1>1. IsFiniteSet(pool')
  BY FS_AddElement DEF StakesInv
<1>2. Awaited = {} /\ Awaited' = {slot}
  BY DEF Awaited, StakesInv
<1>3. Counted' = Counted \cup {slot}
  BY DEF Counted
<1> QED BY <1>1, <1>2, <1>3 DEF StakesInv

\* an attempt that has failed, with the next one to come or not
LEMMA StakesNextTry ==
  ASSUME StakesInv, Stakes!NextTry, step \in {"try", "send", "wait"},
         UNCHANGED <<pool, nonce, reverted, staked, unheard>>,
         inVain' \in SUBSET Nat, IsFiniteSet(inVain'), inVain \subseteq inVain',
         step = "wait" => slot \in inVain' \/ slot \in reverted
  PROVE  StakesInv'
<1>1. step' \in {"try", "failed"} /\ ~unheard /\ slot' = slot
  BY DEF Stakes!NextTry, StakesInv
<1>2. Awaited' = {}
  BY <1>1 DEF Awaited
<1>3. Counted' = Counted
  BY DEF Counted
<1>4. Counted \subseteq inVain'
  <2>1. CASE step = "wait"
    <3>1. Counted \subseteq inVain \cup {slot} /\ step = "wait"
      BY <2>1 DEF StakesInv, Awaited
    <3>2. slot \in reverted => slot \notin Counted
      BY DEF Counted, StakesInv
    <3> QED BY <3>1, <3>2
  <2>2. CASE step # "wait"
    <3>1. Awaited = {}
      BY <2>2 DEF StakesInv, Awaited
    <3> QED BY <3>1 DEF StakesInv
  <2> QED BY <2>1, <2>2
<1> QED BY <1>1, <1>2, <1>3, <1>4 DEF StakesInv

LEMMA StakesStep ==
  ASSUME StakesInv, [Stakes!Next]_(Stakes!delegationVars)
  PROVE  StakesInv'
<1>1. CASE Stakes!Transactor
  <2>1. slot' \in Nat
    BY <1>1, PendingNonceType DEF Stakes!Transactor
  <2>2. /\ step = "try" /\ step' = "send"
        /\ UNCHANGED <<pool, nonce, reverted, staked, inVain, unheard>>
    BY <1>1 DEF Stakes!Transactor, Stakes!chainVars
  <2>3. Counted' = Counted /\ Awaited' = {} /\ Awaited = {}
    BY <2>2 DEF Counted, Awaited
  <2> QED BY <2>1, <2>2, <2>3 DEF StakesInv
<1>2. CASE Stakes!NoTransactor
  BY <1>2, StakesNextTry DEF Stakes!NoTransactor, Stakes!chainVars, StakesInv
<1>3. CASE Stakes!DelegateRefused
  BY <1>3, StakesNextTry
     DEF Stakes!DelegateRefused, Stakes!SendFails, Stakes!IsRetryable, Stakes!chainVars, StakesInv
<1>4. CASE Stakes!Delegate
  <2>1. slot >= nonce
    <3>1. ~(slot < nonce)
      BY <1>4 DEF Stakes!Delegate, Stakes!Refused
    <3> QED BY <3>1 DEF StakesInv
  <2> QED BY <1>4, <2>1, StakesSent DEF Stakes!Delegate, Stakes!Next, StakesInv
<1>5. ASSUME NEW error, error \in {"epoch block", "lost"}, NEW arrives \in BOOLEAN,
             Stakes!DelegateFails(error, arrives)
      PROVE  StakesInv'
  <2>1. slot >= nonce /\ step = "send"
    <3>1. ~(slot < nonce) /\ step = "send"
      BY <1>5 DEF Stakes!DelegateFails, Stakes!Refused
    <3>2. slot \in Nat /\ nonce \in Nat
      BY DEF StakesInv
    <3> QED BY <3>1, <3>2
  <2>2. CASE error = "epoch block"
    <3>1. ~arrives /\ Stakes!NextTry /\ UNCHANGED <<pool, nonce, reverted, staked, inVain>>
      BY <1>5, <2>2 DEF Stakes!DelegateFails, Stakes!SendFails, Stakes!IsRetryable
    <3>2. unheard' = unheard
      BY <1>5, <3>1 DEF Stakes!DelegateFails, StakesInv
    <3> QED BY <2>1, <3>1, <3>2, StakesNextTry DEF StakesInv
  <2>3. CASE error = "lost"
    <3>1. step' = "failed" /\ UNCHANGED <<slot, nonce, reverted, staked, inVain>>
      BY <1>5, <2>3 DEF Stakes!DelegateFails, Stakes!SendFails, Stakes!IsRetryable
    <3>2. CASE arrives
      <4>1. pool' = pool \cup {slot} /\ unheard' = TRUE
        BY <1>5, <3>2 DEF Stakes!DelegateFails
      <4>2. Stakes!Next
        BY <1>5 DEF Stakes!Next
      <4> QED BY <2>1, <3>1, <4>1, <4>2, StakesSent
    <3>3. CASE ~arrives
      <4>1. pool' = pool /\ unheard' = unheard
        BY <1>5, <3>3 DEF Stakes!DelegateFails, StakesInv
      <4>2. Counted' = Counted /\ Awaited = {} /\ Awaited' = {}
        BY <2>1, <3>1, <4>1 DEF Counted, Awaited, StakesInv
      <4> QED BY <2>1, <3>1, <4>1, <4>2 DEF StakesInv
    <3> QED BY <3>2, <3>3
  <2> QED BY <1>5, <2>2, <2>3
<1>6. ASSUME NEW ok \in BOOLEAN, Stakes!Mine(ok) PROVE StakesInv'
  <2>1. /\ nonce \in pool /\ pool' = pool \ {nonce} /\ nonce' = nonce + 1
        /\ UNCHANGED <<step, slot, inVain, unheard>>
    BY <1>6 DEF Stakes!Mine
  <2>2. IsFiniteSet(pool') /\ pool' \in SUBSET Nat /\ \A n \in pool' : n >= nonce'
    <3>1. IsFiniteSet(pool) /\ pool \in SUBSET Nat /\ nonce \in Nat /\ \A n \in pool : n >= nonce
      BY DEF StakesInv
    <3>2. IsFiniteSet(pool \ {nonce})
      BY <3>1, FS_RemoveElement
    <3> QED BY <2>1, <3>1, <3>2
  <2>3. nonce \in Nat /\ nonce \notin reverted
    BY DEF StakesInv
  <2>4. IsFiniteSet(reverted) /\ Cardinality(reverted) \in Nat
    BY CountOfStakes, FS_CardinalityType
  <2>5. Awaited' = Awaited
    BY <2>1 DEF Awaited
  <2>6. CASE ok
    <3>1. staked' = staked + 1 /\ reverted' = reverted
      BY <1>6, <2>6 DEF Stakes!Mine
    <3>2. Counted' = Counted
      BY <2>1, <2>3, <3>1 DEF Counted, StakesInv
    <3> QED BY <2>1, <2>2, <2>3, <2>4, <2>5, <3>1, <3>2 DEF StakesInv
  <2>7. CASE ~ok
    <3>1. staked' = staked /\ reverted' = reverted \cup {nonce}
      BY <1>6, <2>7 DEF Stakes!Mine
    <3>2. Counted' = Counted \ {nonce}
      BY <2>1, <2>3, <3>1 DEF Counted, StakesInv
    <3>3. Cardinality(reverted') = Cardinality(reverted) + 1
      BY <2>3, <2>4, <3>1, FS_AddElement
    <3>4. step = "done" => slot < nonce /\ slot # nonce
      BY DEF StakesInv
    <3>5. nonce' = staked' + Cardinality(reverted')
      BY <2>1, <2>3, <2>4, <3>1, <3>3 DEF StakesInv
    <3>6. step' = "done" => slot' < nonce' /\ slot' \notin reverted'
      BY <2>1, <2>3, <3>1, <3>4 DEF StakesInv
    <3>7. reverted' \in SUBSET (0..(nonce' - 1)) /\ nonce' \in Nat
      <4>1. nonce \in Nat /\ nonce' = nonce + 1 /\ \A n \in reverted : n \in 0..(nonce - 1)
        BY <2>1 DEF StakesInv
      <4>2. \A n \in reverted \cup {nonce} : n \in 0..(nonce' - 1)
        BY <4>1
      <4> QED BY <3>1, <4>1, <4>2
    <3>8. Counted' \subseteq inVain' \cup Awaited'
      BY <2>1, <2>5, <3>2 DEF StakesInv
    <3> QED BY <2>1, <2>2, <3>1, <3>5, <3>6, <3>7, <3>8 DEF StakesInv
  <2> QED BY <2>6, <2>7
<1>7. CASE Stakes!WaitMinedOk
  <2>1. step = "wait" /\ step' = "done" /\ UNCHANGED <<slot, pool, nonce, reverted, staked, inVain, unheard>>
    BY <1>7 DEF Stakes!WaitMinedOk, Stakes!chainVars
  <2>2. Counted' = Counted /\ Awaited' = Awaited
    BY <2>1 DEF Counted, Awaited
  <2>3. slot < nonce /\ slot \notin reverted
    BY <1>7 DEF Stakes!WaitMinedOk, Stakes!Mined
  <2> QED BY <2>1, <2>2, <2>3 DEF StakesInv
<1>8. CASE Stakes!WaitMinedReverted
  BY <1>8, StakesNextTry DEF Stakes!WaitMinedReverted, Stakes!Mined, Stakes!chainVars, StakesInv
<1>9. CASE Stakes!WaitMinedTimesOut
  <2>1. IsFiniteSet(inVain \cup {slot}) /\ inVain \cup {slot} \in SUBSET Nat
    BY FS_AddElement DEF StakesInv
  <2> QED BY <1>9, <2>1, StakesNextTry DEF Stakes!WaitMinedTimesOut, Stakes!chainVars, StakesInv
<1>10. CASE UNCHANGED Stakes!delegationVars
  BY <1>10 DEF Stakes!delegationVars, StakesInv, Counted, Awaited
<1> QED BY <1>1, <1>2, <1>3, <1>4, <1>5, <1>6, <1>7, <1>8, <1>9, <1>10 DEF Stakes!Next

LEMMA StakesTrue ==
  ASSUME StakesInv
  PROVE  Stakes!DelegationTrue
<1>1. /\ IsFiniteSet(Counted) /\ Cardinality(Counted) = staked + Cardinality(pool)
      /\ Cardinality(Counted) \in Nat
  BY CountOfStakes, FS_CardinalityType
<1>2. Cardinality(pool) \in Nat /\ staked \in Nat
  BY FS_CardinalityType DEF StakesInv
<1>3. IsFiniteSet(inVain) /\ Cardinality(inVain) \in Nat
  BY FS_CardinalityType DEF StakesInv
<1>4. ASSUME step = "done" PROVE staked >= 1
  <2>1. slot \in (0..(nonce - 1)) \ reverted
    BY <1>4 DEF StakesInv
  <2>2. reverted \in SUBSET (0..(nonce - 1)) /\ IsFiniteSet(reverted) /\ nonce \in Nat
    BY CountOfStakes DEF StakesInv
  <2> DEFINE sent == 0..(nonce - 1)
  <2>3. IsFiniteSet(sent) /\ Cardinality(sent) = nonce
    <3>1. IsFiniteSet(sent) /\ Cardinality(sent) = IF 0 > nonce - 1 THEN 0 ELSE (nonce - 1) - 0 + 1
      BY <2>2, FS_Interval
    <3> QED BY <2>2, <3>1
  <2>4. reverted \in SUBSET sent /\ reverted # sent
    BY <2>1, <2>2
  <2> HIDE DEF sent
  <2>5. Cardinality(reverted) \in Nat /\ Cardinality(reverted) < Cardinality(sent)
    <3>1. /\ Cardinality(reverted) <= Cardinality(sent)
          /\ Cardinality(sent) = Cardinality(reverted) => sent = reverted
      BY <2>3, <2>4, FS_Subset
    <3>2. Cardinality(reverted) \in Nat /\ Cardinality(sent) \in Nat
      BY <2>2, <2>3, FS_CardinalityType
    <3> QED BY <2>4, <3>1, <3>2
  <2> QED BY <1>2, <2>2, <2>3, <2>5 DEF StakesInv
<1>5. Cardinality(Counted) <= 1 + Cardinality(inVain)
  <2>1. PICK last : Counted \subseteq inVain \cup {last}
    BY DEF StakesInv, Awaited
  <2>2. /\ IsFiniteSet(inVain \cup {last})
        /\ Cardinality(inVain \cup {last}) <= 1 + Cardinality(inVain)
    BY <1>3, FS_AddElement
  <2>3. Cardinality(Counted) <= Cardinality(inVain \cup {last})
    BY <2>1, <2>2, FS_Subset
  <2>4. Cardinality(inVain \cup {last}) \in Nat
    BY <2>2, FS_CardinalityType
  <2> QED BY <1>1, <1>3, <2>2, <2>3, <2>4
<1>6. ASSUME inVain = {}, ~unheard, step = "failed" PROVE staked = 0 /\ pool = {}
  <2>1. Counted = {}
    BY <1>6 DEF StakesInv, Awaited
  <2>2. pool = {} /\ Cardinality(Counted) = 0
    BY <2>1, FS_EmptySet DEF Counted
  <2> QED BY <1>1, <1>2, <2>2
<1> QED BY <1>1, <1>4, <1>5, <1>6, SizeInStakes DEF Stakes!DelegationTrue

(***************************************************************************)
(* A delegation that RobustDelegate reports is on the chain, and one more  *)
(* than that is there, or may come, only for each wait that was in vain,   *)
(* for any number of attempts and any answers about the nonce.             *)
(***************************************************************************)
THEOREM DelegatedAsReported == Stakes!Spec => []Stakes!DelegationTrue
<1>1. StakesInv /\ [Stakes!Next]_(Stakes!delegationVars) => StakesInv'
  BY StakesStep
<1>2. Stakes!Init => StakesInv
  BY StakesInit
<1>3. StakesInv => Stakes!DelegationTrue
  BY StakesTrue
<1> QED BY <1>1, <1>2, <1>3, PTL DEF Stakes!Spec

-----------------------------------------------------------------------------
(***************************************************************************)
(* Bootstrap.                                                              *)
(***************************************************************************)

\* a schedule gives a fork its time in the genesis, or none
LEMMA PosaFromStart ==
  ASSUME NEW t \in ForkTargets, NEW chains
  PROVE  LET f == Fleet(t[1], t[2], chains)
         IN  Boot!ShouldAutoInitialize(f.mode, f.forks) <=> f.posaFromStart
<1> DEFINE g == Genesis(t[1], t[2], 1)
           f == Fleet(t[1], t[2], chains)
<1>1. "posa" \in AllForks /\ \E i \in 1..4 : ForkOrder[i] = "posa"
  <2>1. ForkOrder[4] = "posa" /\ 4 \in DOMAIN ForkOrder
    BY DEF ForkOrder
  <2> QED BY <2>1 DEF AllForks, ToSet
<1>2. "posa" \in Prefix(4) /\ "allSame" \notin AllForks /\ "allStaggered" \notin AllForks
  BY <1>1 DEF Prefix, AllForks, ToSet, ForkOrder
<1>3. \A n, time : Upto(n, time)["posa"] = IF "posa" \in Prefix(n) THEN time ELSE -1
  BY <1>1 DEF Upto, Absent
<1>4. /\ f.mode = t[1] /\ f.posaFromStart = (g["posa"] = 0)
      /\ "posa" \in f.forks <=> g["posa"] # -1
  <2> HIDE DEF g
  <2>1. f = [mode |-> t[1], forks |-> {h \in AllForks : g[h] # Absent},
             posaFromStart |-> g["posa"] = 0, chains |-> chains]
    BY DEF Fleet, g
  <2> QED BY <1>1, <2>1 DEF Absent
<1>5. CASE t[1] = "posa"
  <2>1. g = Upto(4, 0)
    BY <1>5 DEF Genesis
  <2>2. g["posa"] = 0
    BY <1>2, <1>3, <2>1
  <2> QED BY <1>4, <1>5, <2>2 DEF Boot!ShouldAutoInitialize
<1>6. CASE t[1] = "poa"
  <2>1. g = Upto(0, 0) /\ "posa" \notin Prefix(0)
    BY <1>6 DEF Genesis, Prefix
  <2>2. g["posa"] = -1
    BY <1>3, <2>1
  <2>3. g["posa"] # 0
    BY <2>2
  <2> QED BY <1>4, <1>6, <2>3 DEF Boot!ShouldAutoInitialize
<1>7. CASE t[1] = "smoke"
  <2>1. PICK n : g = Upto(n, 0)
    BY <1>7 DEF Genesis
  <2>2. g["posa"] = 0 <=> g["posa"] # -1
    <3> HIDE DEF g
    <3>1. g["posa"] = IF "posa" \in Prefix(n) THEN 0 ELSE -1
      BY <1>3, <2>1
    <3> QED BY <3>1
  <2>3. "posa" \in f.forks <=> f.posaFromStart
    BY <1>4, <2>2
  <2> QED BY <1>4, <1>7, <2>3 DEF Boot!ShouldAutoInitialize
<1>8. CASE t[1] = "upgrade"
  <2>1. t[2] \in AllForks \cup {"allSame", "allStaggered"}
    BY <1>8 DEF ForkTargets
  <2>2. CASE t[2] = "allStaggered"
    <3>1. g["posa"] = IF "posa" \in Prefix(6) THEN 1 + ForkOrderIndex("posa") - 1 ELSE -1
      <4>1. g = [h \in AllForks |-> IF h \in Prefix(6) THEN 1 + ForkOrderIndex(h) - 1 ELSE Absent]
        BY <1>2, <1>8, <2>2 DEF Genesis
      <4> HIDE DEF g
      <4> QED BY <1>1, <4>1 DEF Absent
    <3>2. ForkOrderIndex("posa") \in 1..8
      <4>1. DOMAIN ForkOrder = 1..8
        BY DEF ForkOrder
      <4>2. \E i \in DOMAIN ForkOrder : ForkOrder[i] = "posa"
        BY <1>1, <4>1
      <4>3. ForkOrderIndex("posa") \in DOMAIN ForkOrder
        BY <4>2 DEF ForkOrderIndex
      <4> QED BY <4>1, <4>3
    <3>3. g["posa"] # 0
      BY <3>1, <3>2
    <3> QED BY <1>4, <1>8, <3>3 DEF Boot!ShouldAutoInitialize
  <2>3. CASE t[2] # "allStaggered"
    <3>1. PICK n : g = Upto(n, 1)
      <4>1. CASE t[2] = "allSame"
        BY <1>2, <1>8, <4>1 DEF Genesis
      <4>2. CASE t[2] # "allSame"
        BY <1>8, <2>1, <2>3, <4>2 DEF Genesis
      <4> QED BY <4>1, <4>2
    <3>2. g["posa"] # 0
      BY <1>3, <3>1
    <3> QED BY <1>4, <1>8, <3>2 DEF Boot!ShouldAutoInitialize
  <2> QED BY <2>2, <2>3
<1>9. t[1] \in {"posa", "poa", "smoke", "upgrade"}
  BY DEF ForkTargets
<1> QED BY <1>5, <1>6, <1>7, <1>8, <1>9

Chains == fleet.chains
Dialling == stage \in {"dial", "probe", "sleep"}
HasAll == stage \in {"alive", "initialise", "ready"}

BootInv ==
  /\ fleet \in Fleets
  /\ since = [n \in DOMAIN Chains |-> since[n]]
  /\ clients \in Seq([chain : Nat, open : BOOLEAN])
  /\ Dialling \/ HasAll \/ stage = "failed"
  /\ \A i \in DOMAIN clients : clients[i].chain = Chains[1]
  /\ Dialling => Len(clients) < Len(Chains)
  /\ HasAll => Len(clients) = Len(Chains)
  /\ Dialling \/ HasAll => \A i \in DOMAIN clients : clients[i].open
  /\ stage = "probe" /\ Boot!Answers(Boot!Dialled) => since[Boot!Dialled] = 0
  /\ stage = "failed" /\ Len(clients) < Len(Chains) =>
       /\ \A i \in DOMAIN clients : ~clients[i].open
       /\ Boot!Answers(Boot!Dialled) => since[Boot!Dialled] <= ProbeTime
  /\ stage = "initialise" => fleet.posaFromStart
  /\ stage = "ready" => ~fleet.posaFromStart

LEMMA BootInit ==
  ASSUME Boot!Init
  PROVE  BootInv
<1>1. clients = <<>> /\ Len(clients) = 0 /\ DOMAIN clients = {}
  BY DEF Boot!Init
<1>2. Chains \in Seq(Nat) /\ Chains # <<>> /\ fleet \in Fleets
  BY BootAssumption DEF Boot!Init, Chains
<1>3. Len(Chains) > 0
  BY <1>2
<1> QED BY <1>1, <1>2, <1>3 DEF Boot!Init, BootInv, Dialling, HasAll, Boot!Nodes, Chains

\* nothing that a step leaves alone can have been lost
LEMMA BootSame ==
  ASSUME BootInv, UNCHANGED <<fleet, clients>>
  PROVE  /\ Chains' = Chains /\ Boot!Dialled' = Boot!Dialled
         /\ \A n : Boot!RightChain(n)' <=> Boot!RightChain(n)
BY DEF Chains, Boot!Dialled, Boot!RightChain

LEMMA BootStep ==
  ASSUME BootInv, [Boot!Next]_(Boot!bootVars)
  PROVE  BootInv'
<1> DEFINE Client == [chain : Nat, open : BOOLEAN]
<1>1. /\ fleet.chains \in Seq(Nat) /\ Len(Chains) \in Nat /\ Len(Chains) > 0
      /\ clients \in Seq(Client) /\ Len(clients) \in Nat
      /\ DOMAIN clients = 1..Len(clients) /\ DOMAIN Chains = 1..Len(Chains)
  BY BootAssumption DEF BootInv, Chains
<1>2. InitTimeout \in Nat /\ ProbeTime \in Nat
  BY BootAssumption
<1>3. ASSUME NEW n \in Boot!Nodes, Boot!Flip(n) PROVE BootInv'
  <2>1. /\ Dialling /\ UNCHANGED <<fleet, clients, stage>>
        /\ since' = [since EXCEPT ![n] = 0] /\ up' = (up \ {n}) \cup ({n} \ up)
    BY <1>3 DEF Boot!Flip, Dialling
  <2>2. since' = [m \in DOMAIN Chains |-> since'[m]]
    BY <2>1 DEF BootInv
  <2>3. Dialling' /\ ~HasAll' /\ stage' # "failed"
    BY <2>1 DEF Dialling, HasAll
  <2>4. ASSUME stage' = "probe", Boot!Answers(Boot!Dialled)' PROVE since'[Boot!Dialled'] = 0
    <3>1. Boot!Dialled' = Boot!Dialled /\ Boot!RightChain(Boot!Dialled)
      BY <2>1, <2>4 DEF Boot!Answers, Boot!Dialled, Boot!RightChain
    <3>2. Boot!Dialled \in DOMAIN since
      <4>1. Len(clients) < Len(Chains)
        BY <2>1 DEF BootInv
      <4>2. DOMAIN since = DOMAIN Chains
        BY DEF BootInv
      <4> QED BY <1>1, <4>1, <4>2 DEF Boot!Dialled
    <3>3. CASE Boot!Dialled = n
      BY <2>1, <3>1, <3>2, <3>3
    <3>4. CASE Boot!Dialled # n
      <4>1. Boot!Dialled \in up
        BY <2>1, <2>4, <3>1, <3>4 DEF Boot!Answers
      <4>2. since[Boot!Dialled] = 0
        BY <2>1, <2>4, <3>1, <4>1 DEF BootInv, Boot!Answers
      <4> QED BY <2>1, <3>1, <3>2, <3>4, <4>2
    <3> QED BY <3>3, <3>4
  <2> QED BY <2>1, <2>2, <2>3, <2>4 DEF BootInv, Chains, Dialling, HasAll
<1>4. CASE Boot!DialAnswered
  <2> DEFINE new == [chain |-> fleet.chains[Boot!Dialled], open |-> TRUE]
  <2>1. /\ stage \in {"dial", "probe"} /\ Boot!RightChain(Boot!Dialled)
        /\ clients' = Append(clients, new)
        /\ stage' = IF Boot!Dialled = Len(fleet.chains) THEN "alive" ELSE "dial"
        /\ UNCHANGED <<fleet, since>>
    BY <1>4 DEF Boot!DialAnswered, Boot!Answers
  <2>2. /\ Len(clients) < Len(Chains) /\ Boot!Dialled = Len(clients) + 1
        /\ \A i \in DOMAIN clients : clients[i].open /\ clients[i].chain = Chains[1]
    BY <2>1 DEF BootInv, Dialling, Boot!Dialled
  <2>3. new \in Client /\ new.open /\ new.chain = Chains[Boot!Dialled]
    BY <1>1, <2>2 DEF Chains
  <2>4. new.chain = Chains[1]
    <3>1. CASE Len(clients) = 0
      BY <2>2, <2>3, <3>1
    <3>2. CASE Len(clients) # 0
      <4>1. 1 \in DOMAIN clients \cap {1}
        BY <1>1, <3>2
      <4>2. fleet.chains[Boot!Dialled] = clients[1].chain
        BY <2>1, <4>1 DEF Boot!RightChain
      <4> QED BY <2>2, <2>3, <4>1, <4>2 DEF Chains
    <3> QED BY <3>1, <3>2
  <2> HIDE DEF new
  <2>5. /\ clients' \in Seq(Client) /\ Len(clients') = Len(clients) + 1
        /\ \A i \in DOMAIN clients' :
             IF i = Len(clients) + 1 THEN clients'[i] = new
             ELSE i \in DOMAIN clients /\ clients'[i] = clients[i]
    BY <1>1, <2>1, <2>3
  <2>6. \A i \in DOMAIN clients' : clients'[i].open /\ clients'[i].chain = Chains[1]
    BY <2>2, <2>3, <2>4, <2>5
  <2>7. /\ Chains' = Chains
        /\ \/ stage' = "alive" /\ Len(clients') = Len(Chains)
           \/ stage' = "dial" /\ Len(clients') < Len(Chains)
    BY <1>1, <2>1, <2>2, <2>5 DEF Chains
  <2> QED BY <2>1, <2>5, <2>6, <2>7 DEF BootInv, Dialling, HasAll
<1>5. CASE Boot!DialUnanswered
  <2>1. /\ stage = "dial" /\ stage' = "probe" /\ ~Boot!Answers(Boot!Dialled)
        /\ UNCHANGED <<fleet, up, since, clients>>
    BY <1>5 DEF Boot!DialUnanswered
  <2>2. Chains' = Chains /\ ~Boot!Answers(Boot!Dialled)'
    BY <2>1 DEF Chains, Boot!Answers, Boot!RightChain, Boot!Dialled
  <2> QED BY <2>1, <2>2 DEF BootInv, Dialling, HasAll
<1>6. CASE Boot!SleepBackoff
  <2>1. /\ stage = "sleep" /\ stage' = "dial" /\ UNCHANGED <<fleet, up, clients>>
        /\ since' = [n \in DOMAIN Chains |-> since'[n]]
    BY <1>6 DEF Boot!SleepBackoff, Boot!Passes, Boot!Nodes, Chains
  <2>2. Chains' = Chains
    BY <2>1 DEF Chains
  <2> QED BY <2>1, <2>2 DEF BootInv, Dialling, HasAll
<1>7. ASSUME NEW d \in 0..ProbeTime, Boot!DialFails(d) PROVE BootInv'
  <2>1. /\ stage = "probe" /\ UNCHANGED <<fleet, up>>
        /\ \/ stage' = "failed" /\ clients' = Boot!CloseClients(clients)
           \/ stage' = "sleep" /\ clients' = clients
    BY <1>7 DEF Boot!DialFails
  <2>2. since' = [n \in DOMAIN Chains |-> since'[n]]
    BY <1>7 DEF Boot!DialFails, Boot!Passes, Boot!Nodes, Chains
  <2>3. Chains' = Chains /\ Len(clients) < Len(Chains)
    BY <2>1 DEF Chains, BootInv, Dialling
  <2>4. CASE stage' = "sleep"
    BY <2>1, <2>2, <2>3, <2>4 DEF BootInv, Dialling, HasAll
  <2>5. CASE stage' = "failed"
    <3>1. clients' = [i \in DOMAIN clients |-> [clients[i] EXCEPT !.open = FALSE]]
      BY <2>1, <2>5 DEF Boot!CloseClients
    <3>2. \A i \in DOMAIN clients : clients[i] \in Client
      <4> HIDE DEF Client
      <4> QED BY <1>1, ElementOfSeq
    <3>3. \A i \in DOMAIN clients : /\ clients'[i] \in Client /\ ~clients'[i].open
                                    /\ clients'[i].chain = clients[i].chain
      BY <3>1, <3>2
    <3>4. clients' \in Seq(Client) /\ Len(clients') = Len(clients) /\ DOMAIN clients' = DOMAIN clients
      <4>1. clients' = [i \in 1..Len(clients) |-> clients'[i]]
        BY <1>1, <3>1
      <4>2. clients' \in [1..Len(clients) -> Client]
        BY <1>1, <3>3, <4>1
      <4> QED BY <1>1, <4>2, SeqDef
    <3>5. ASSUME Boot!Answers(Boot!Dialled)' PROVE since'[Boot!Dialled'] <= ProbeTime
      <4>1. Boot!Dialled' = Boot!Dialled /\ Boot!Dialled \in DOMAIN Chains
        BY <1>1, <2>3, <3>4 DEF Boot!Dialled
      <4>2. Boot!Answers(Boot!Dialled)
        <5>1. Boot!Dialled \in up
          BY <2>1, <3>5, <4>1 DEF Boot!Answers
        <5>2. ASSUME NEW i \in DOMAIN clients \cap {1}
              PROVE  fleet.chains[Boot!Dialled] = clients[i].chain
          BY <2>1, <3>3, <3>4, <3>5, <4>1 DEF Boot!Answers, Boot!RightChain
        <5> QED BY <5>1, <5>2 DEF Boot!Answers, Boot!RightChain
      <4>3. since[Boot!Dialled] = 0
        BY <2>1, <4>2 DEF BootInv
      <4>4. since'[Boot!Dialled] = IF 0 + d > InitTimeout + ProbeTime THEN InitTimeout + ProbeTime ELSE 0 + d
        <5>1. since' = [n \in DOMAIN Chains |-> IF since[n] + d > InitTimeout + ProbeTime
                                             THEN InitTimeout + ProbeTime ELSE since[n] + d]
          BY <1>7 DEF Boot!DialFails, Boot!Passes, Boot!Nodes, Chains
        <5> QED BY <4>1, <4>3, <5>1
      <4> QED BY <1>2, <4>1, <4>4
    <3>6. \A i \in DOMAIN clients' : clients'[i].chain = Chains[1]
      BY <3>3, <3>4 DEF BootInv
    <3> QED BY <2>1, <2>2, <2>3, <2>5, <3>3, <3>4, <3>5, <3>6 DEF BootInv, Dialling, HasAll
  <2> QED BY <2>1, <2>4, <2>5
<1>8. ASSUME NEW b \in BOOLEAN, Boot!BlocksComing(b) PROVE BootInv'
  <2>1. /\ stage = "alive" /\ UNCHANGED <<fleet, up, since, clients>>
        /\ stage' = IF ~b THEN "failed"
                    ELSE IF Boot!ShouldAutoInitialize(fleet.mode, fleet.forks)
                    THEN "initialise" ELSE "ready"
    BY <1>8 DEF Boot!BlocksComing
  <2>2. Boot!ShouldAutoInitialize(fleet.mode, fleet.forks) <=> fleet.posaFromStart
    <3>1. PICK t \in ForkTargets : fleet = Fleet(t[1], t[2], fleet.chains)
      BY BootAssumption DEF BootInv
    <3> QED BY <3>1, PosaFromStart
  <2>3. Chains' = Chains /\ Len(clients) = Len(Chains)
    BY <2>1 DEF Chains, BootInv, HasAll
  <2> QED BY <1>1, <2>1, <2>2, <2>3 DEF BootInv, Dialling, HasAll
<1>9. CASE UNCHANGED Boot!bootVars
  <2>1. UNCHANGED <<fleet, up, since, clients, stage>>
    BY <1>9 DEF Boot!bootVars
  <2> QED BY <2>1 DEF BootInv, Chains, Dialling, HasAll, Boot!Answers, Boot!RightChain, Boot!Dialled
<1> QED BY <1>3, <1>4, <1>5, <1>6, <1>7, <1>8, <1>9 DEF Boot!Next

(***************************************************************************)
(* NewCIContext has a connection to every node, and all of them are on one *)
(* chain, or dialling failed and no connection is left open.  A node is    *)
(* given up only if it did not answer until the last attempt had begun.    *)
(* The system contracts are initialised in the networks that have them     *)
(* from the start, for any nodes and any of the fork targets.              *)
(***************************************************************************)
THEOREM ContextConnected == Boot!Spec => []Boot!BootTrue
<1>1. BootInv => Boot!BootTrue
  <2> SUFFICES ASSUME BootInv PROVE Boot!BootTrue
    OBVIOUS
  <2>1. \A i, j \in DOMAIN clients : clients[i].chain = clients[j].chain
    BY DEF BootInv
  <2>2. HasAll => Boot!Open = Boot!Nodes
    <3>1. DOMAIN clients = 1..Len(clients) /\ DOMAIN fleet.chains = 1..Len(fleet.chains)
      BY BootAssumption DEF BootInv
    <3> QED BY <3>1 DEF BootInv, Boot!Open, Boot!Nodes, Chains
  <2>3. ASSUME stage = "failed", Len(clients) < Len(fleet.chains)
        PROVE  /\ Boot!Open = {}
               /\ Boot!RightChain(Boot!Dialled) /\ Boot!Dialled \in up =>
                    since[Boot!Dialled] <= ProbeTime
    BY <2>3 DEF BootInv, Boot!Open, Boot!Answers, Chains
  <2> QED BY <2>1, <2>2, <2>3 DEF Boot!BootTrue, BootInv, HasAll
<1>2. Boot!Init => BootInv
  BY BootInit
<1>3. BootInv /\ [Boot!Next]_(Boot!bootVars) => BootInv'
  BY BootStep
<1> QED BY <1>1, <1>2, <1>3, PTL DEF Boot!Spec

-----------------------------------------------------------------------------
(***************************************************************************)
(* Netem.                                                                  *)
(***************************************************************************)
Saved == file[1]
Filters == [place : Nat \ {0}, port : Nat]

\* a filter of the test at hand
Own(f) == f.place \in DOMAIN ports /\ f.port = ports[f.place]

\* from the removal of old filters to the test that runs slowed down
Applying == job \in {"root", "netem", "filters", "slow"}
Rooted == job \in {"netem", "filters", "slow"}

DeviceTypes ==
  /\ root \in {"none", "prio", "other"} /\ netem \in BOOLEAN /\ created \in BOOLEAN
  /\ astray \in BOOLEAN /\ began.missed \in BOOLEAN /\ began.clean \in BOOLEAN
  /\ began = [root |-> began.root, clean |-> began.clean, missed |-> began.missed]
  /\ filters \subseteq Filters
  /\ ports \in Seq(Nat)
  /\ file # <<>> =>
       /\ file = <<Saved>> /\ Saved = [ports |-> Saved.ports, created |-> Saved.created]
       /\ Saved.ports \in Seq(Nat) /\ Saved.created \in BOOLEAN
  /\ job \in {"idle", "apply", "cleared"} \/ Applying

\* which filters there are, while none is astray
NothingElse ==
  ~astray =>
    /\ job \in {"idle", "apply"} => \A f \in filters : f.place \in 1..Device!SavedPorts
    /\ Applying => \A f \in filters : Own(f)
    /\ job = "cleared" => filters = {}

\* what the test at hand has set up
SetUp ==
  /\ job \in {"filters", "slow"} => netem
  /\ job = "slow" =>
       /\ \A i \in DOMAIN ports : Device!FilterOf(i) \in filters
       /\ file = <<[ports |-> ports, created |-> created]>>
  /\ job = "cleared" => (~began.missed => ~netem) /\ file = <<>>

\* a test that found the device clean, and whose deletions worked
FoundClean ==
  /\ job = "apply" => filters = {}
  /\ Applying => \A f \in filters : Own(f)
  /\ job \in {"apply", "root"} => root = began.root
  /\ Rooted => root = "prio" /\ began.root = IF created THEN "none" ELSE "prio"
  /\ job = "cleared" => root = began.root /\ filters = {}

DeviceInv ==
  DeviceTypes /\ NothingElse /\ SetUp /\ (began.clean /\ ~began.missed => FoundClean)

LEMMA NetemInit ==
  ASSUME Device!Init
  PROVE  DeviceInv
<1>1. /\ root \in {"none", "prio", "other"} /\ ports = <<>> /\ filters = {} /\ file = <<>>
      /\ job = "idle" /\ netem = FALSE /\ created = FALSE /\ astray = FALSE
      /\ began = [root |-> root, clean |-> TRUE, missed |-> FALSE]
  BY DEF Device!Init
<1>2. /\ ports \in Seq(Nat) /\ began.root = root /\ began.clean = TRUE /\ began.missed = FALSE
      /\ began = [root |-> began.root, clean |-> began.clean, missed |-> began.missed]
  BY <1>1
<1>3. DeviceTypes
  BY <1>1, <1>2 DEF DeviceTypes
<1> QED BY <1>1, <1>3 DEF DeviceInv, NothingElse, SetUp, FoundClean, Applying, Rooted

\* what a step leaves behind when it ends the test without a word
LEMMA NetemFails ==
  ASSUME DeviceInv, UNCHANGED <<root, netem, filters, file, ports, created, began>>,
         job' = "idle", astray' = TRUE
  PROVE  DeviceInv'
BY DEF DeviceInv, DeviceTypes, NothingElse, SetUp, FoundClean, Applying, Rooted, Saved

\* filters that are deleted from the first place on
LEMMA FiltersBut ==
  ASSUME DeviceInv, NEW n \in Nat
  PROVE  LET rest == Device!FiltersBut(n)
         IN  /\ rest \subseteq filters
             /\ \A f \in filters : f.place \in Nat \ {0} /\ (f \in rest <=> f.place \notin 1..n)
             /\ (\A f \in filters : f.place \in 1..n) => rest = {}
<1> DEFINE rest == Device!FiltersBut(n)
<1>1. \A f \in filters : f.place \in Nat \ {0}
  BY DEF DeviceInv, DeviceTypes, Filters
<1>2. rest = {f \in filters : f.place > n}
  BY DEF Device!FiltersBut
<1> HIDE DEF rest
<1>3. \A f \in filters : f \in rest <=> f.place \notin 1..n
  BY <1>1, <1>2
<1> QED BY <1>1, <1>2, <1>3 DEF rest

LEMMA SavedPortsIs ==
  ASSUME DeviceInv
  PROVE  /\ Device!SavedPorts \in Nat
         /\ file = <<>> => Device!SavedPorts = 0
         /\ file = <<[ports |-> ports, created |-> created]>> => Device!SavedPorts = Len(ports)
<1>1. CASE file = <<>>
  BY <1>1 DEF Device!SavedPorts
<1>2. CASE file # <<>>
  <2>1. Device!SavedPorts = Len(Saved.ports) /\ Saved.ports \in Seq(Nat)
    BY <1>2 DEF Device!SavedPorts, DeviceInv, DeviceTypes, Saved
  <2>2. file = <<[ports |-> ports, created |-> created]>> => Saved.ports = ports
    BY DEF Saved
  <2> QED BY <1>2, <2>1, <2>2
<1> QED BY <1>1, <1>2

\* what is recorded of deletions that failed
LEMMA MissedIs ==
  ASSUME DeviceInv, NEW stays \in BOOLEAN, Device!Missed(stays)
  PROVE  /\ began'.root = began.root /\ began'.clean = began.clean
         /\ began'.missed \in BOOLEAN /\ astray' \in BOOLEAN
         /\ began' = [root |-> began'.root, clean |-> began'.clean, missed |-> began'.missed]
         /\ ~began'.missed => ~stays /\ ~began.missed
         /\ ~astray' => ~stays /\ ~astray
<1> DEFINE b == [root |-> began.root, clean |-> began.clean, missed |-> began.missed]
<1>1. began = b /\ began.missed \in BOOLEAN /\ astray \in BOOLEAN
  BY DEF DeviceInv, DeviceTypes
<1>2. CASE stays
  <2>1. began' = [b EXCEPT !.missed = TRUE] /\ astray' = TRUE
    BY <1>1, <1>2 DEF Device!Missed
  <2>2. began' = [root |-> began.root, clean |-> began.clean, missed |-> TRUE]
    BY <2>1
  <2> QED BY <2>1, <2>2
<1>3. CASE ~stays
  <2>1. began' = began /\ astray' = astray
    BY <1>3 DEF Device!Missed
  <2> QED BY <1>1, <1>3, <2>1
<1> QED BY <1>2, <1>3

LEMMA NetemStep ==
  ASSUME DeviceInv, [Device!Next]_(Device!netemVars)
  PROVE  DeviceInv'
<1> USE DEF DeviceInv, Applying, Rooted
<1>1. ASSUME NEW l \in PortLists, Device!ApplyLoopbackNetem(l) PROVE DeviceInv'
  <2>1. /\ job = "idle" /\ job' = "apply" /\ ports' = Device!UniquePorts(l)
        /\ began' = [root |-> root, clean |-> Device!Clean, missed |-> FALSE]
        /\ UNCHANGED <<root, netem, filters, file, created, astray>>
    BY <1>1 DEF Device!ApplyLoopbackNetem, Device!device
  <2>2. ports' \in Seq(Nat)
    BY <2>1, NetemAssumption, UniquePortsIs
  <2>3. (began'.clean => filters = {}) /\ Device!Clean \in BOOLEAN
    BY <2>1 DEF Device!Clean
  <2>4. Device!SavedPorts' = Device!SavedPorts
    BY <2>1 DEF Device!SavedPorts
  <2>5. DeviceTypes'
    BY <2>1, <2>2, <2>3 DEF DeviceTypes, Saved
  <2>6. NothingElse'
    BY <2>1, <2>4 DEF NothingElse
  <2>7. SetUp'
    BY <2>1 DEF SetUp
  <2>8. began'.clean => FoundClean'
    BY <2>1, <2>3 DEF FoundClean
  <2> QED BY <2>5, <2>6, <2>7, <2>8
<1>2. CASE Device!DropOld
  <2> DEFINE n == IF Device!SavedPorts > Len(ports) THEN Device!SavedPorts ELSE Len(ports)
             rest == Device!FiltersBut(n)
  <2>1. PICK held \in SUBSET (filters \ rest), slow \in {FALSE, netem} :
          filters' = rest \cup held /\ netem' = slow /\ Device!Missed(held # {} \/ slow)
    BY <1>2 DEF Device!DropOld
  <2>2. /\ job = "apply" /\ job' = "root"
        /\ UNCHANGED <<root, file, ports, created>>
    BY <1>2 DEF Device!DropOld, Device!test
  <2>3. /\ n \in Nat /\ Device!SavedPorts \in Nat /\ Len(ports) \in Nat
        /\ 1..Device!SavedPorts \subseteq 1..n
    BY SavedPortsIs DEF DeviceTypes
  <2>4. slow \in BOOLEAN /\ (held # {} \/ slow) \in BOOLEAN
    BY <2>1 DEF DeviceTypes
  <2>5. /\ began'.root = began.root /\ began'.clean = began.clean
        /\ began'.missed \in BOOLEAN /\ astray' \in BOOLEAN
        /\ began' = [root |-> began'.root, clean |-> began'.clean, missed |-> began'.missed]
        /\ ~began'.missed => held = {} /\ ~began.missed
        /\ ~astray' => held = {} /\ ~astray
    BY <2>1, <2>4, MissedIs
  <2> HIDE DEF n
  <2>6. rest \subseteq filters /\ ((\A f \in filters : f.place \in 1..n) => rest = {})
    BY <2>3, FiltersBut
  <2> HIDE DEF rest
  <2>7. filters' \subseteq filters
    BY <2>1, <2>6
  <2>8. DeviceTypes'
    BY <2>1, <2>2, <2>4, <2>5, <2>7 DEF DeviceTypes, Saved
  <2>9. NothingElse'
    <3>1. ~astray' => filters' = {}
      BY <2>1, <2>2, <2>3, <2>5, <2>6 DEF NothingElse
    <3> QED BY <2>2, <3>1 DEF NothingElse
  <2>10. SetUp'
    BY <2>2 DEF SetUp
  <2>11. ASSUME began'.clean, ~began'.missed PROVE FoundClean'
    <3>1. FoundClean
      BY <2>5, <2>11
    <3>2. filters' = {}
      BY <2>2, <2>7, <3>1 DEF FoundClean
    <3> QED BY <2>2, <2>5, <3>1, <3>2 DEF FoundClean
  <2> QED BY <2>8, <2>9, <2>10, <2>11
<1>3. CASE Device!EnsureSupportedRootQdisc
  <2>1. /\ job = "root" /\ root # "other" /\ root' = "prio" /\ created' = (root = "none")
        /\ job' = "netem" /\ UNCHANGED <<netem, filters, file, ports, began, astray>>
    BY <1>3 DEF Device!EnsureSupportedRootQdisc, Device!test
  <2>2. DeviceTypes'
    BY <2>1 DEF DeviceTypes, Saved
  <2>3. NothingElse'
    BY <2>1 DEF NothingElse, Own
  <2>4. SetUp'
    BY <2>1 DEF SetUp
  <2>5. began'.clean /\ ~began'.missed => FoundClean'
    BY <2>1 DEF FoundClean, DeviceTypes, Own
  <2> QED BY <2>2, <2>3, <2>4, <2>5
<1>4. CASE Device!UnsupportedRootQdisc
  <2>1. /\ UNCHANGED <<root, netem, filters, file, ports, created, began>>
        /\ job' = "idle" /\ astray' = TRUE
    BY <1>4 DEF Device!UnsupportedRootQdisc, Device!Fails, Device!device, Device!test
  <2> QED BY <2>1, NetemFails
<1>5. CASE Device!SlowBand
  <2>1. /\ job = "netem" /\ job' = "filters" /\ netem' = TRUE
        /\ UNCHANGED <<root, filters, file, ports, began, created, astray>>
    BY <1>5 DEF Device!SlowBand, Device!test
  <2>2. DeviceTypes'
    BY <2>1 DEF DeviceTypes, Saved
  <2>3. NothingElse' /\ SetUp' /\ (began'.clean /\ ~began'.missed => FoundClean')
    BY <2>1 DEF NothingElse, SetUp, FoundClean, Own
  <2> QED BY <2>2, <2>3
<1>6. CASE Device!ApplyFilter
  <2>1. /\ job = "filters"
        /\ UNCHANGED <<root, netem, file, job, ports, began, created, astray>>
    BY <1>6 DEF Device!ApplyFilter, Device!test
  <2>2. PICK i \in DOMAIN ports : filters' = filters \cup {Device!FilterOf(i)}
    BY <1>6 DEF Device!ApplyFilter
  <2>3. Device!FilterOf(i) \in Filters /\ Own(Device!FilterOf(i))
    <3>1. i \in Nat \ {0} /\ ports[i] \in Nat
      BY DEF DeviceTypes
    <3> QED BY <3>1 DEF Device!FilterOf, Filters, Own
  <2>4. DeviceTypes'
    BY <2>1, <2>2, <2>3 DEF DeviceTypes, Saved
  <2>5. NothingElse'
    BY <2>1, <2>2, <2>3 DEF NothingElse, Own
  <2>6. SetUp'
    BY <2>1, <2>2 DEF SetUp
  <2>7. began'.clean /\ ~began'.missed => FoundClean'
    BY <2>1, <2>2, <2>3 DEF FoundClean, Own
  <2> QED BY <2>4, <2>5, <2>6, <2>7
<1>7. CASE Device!Applied
  <2>1. /\ job = "filters" /\ job' = "slow"
        /\ \A i \in DOMAIN ports : Device!FilterOf(i) \in filters
        /\ file' = <<[ports |-> ports, created |-> created]>>
        /\ UNCHANGED <<root, netem, filters, ports, began, created, astray>>
    BY <1>7 DEF Device!Applied, Device!SaveState, Device!test, Device!device
  <2>2. DeviceTypes'
    BY <2>1 DEF DeviceTypes, Saved
  <2>3. SetUp'
    BY <2>1 DEF SetUp, Device!FilterOf
  <2>4. NothingElse' /\ (began'.clean /\ ~began'.missed => FoundClean')
    BY <2>1 DEF NothingElse, FoundClean, Own
  <2> QED BY <2>2, <2>3, <2>4
<1>8. CASE Device!CallFails
  <2>1. /\ UNCHANGED <<root, netem, filters, file, ports, created, began>>
        /\ job' = "idle" /\ astray' = TRUE
    BY <1>8 DEF Device!CallFails, Device!Fails, Device!device, Device!test
  <2> QED BY <2>1, NetemFails
<1>9. CASE Device!TestDies
  <2>1. /\ job = "slow" /\ job' = "idle"
        /\ UNCHANGED <<root, netem, filters, file, ports, began, created, astray>>
    BY <1>9 DEF Device!TestDies, Device!device, Device!test
  <2>2. DeviceTypes'
    BY <2>1 DEF DeviceTypes, Saved
  <2>3. NothingElse'
    <3>1. Device!SavedPorts' = Device!SavedPorts /\ Device!SavedPorts = Len(ports)
      BY <2>1, SavedPortsIs DEF Device!SavedPorts, SetUp
    <3>2. DOMAIN ports = 1..Len(ports)
      BY DEF DeviceTypes
    <3> QED BY <2>1, <3>1, <3>2 DEF NothingElse, Own
  <2>4. SetUp' /\ (began'.clean /\ ~began'.missed => FoundClean')
    BY <2>1 DEF SetUp, FoundClean
  <2> QED BY <2>2, <2>3, <2>4
<1>10. CASE Device!ClearLoopbackNetem
  <2>1. /\ job = "slow" /\ job' = "cleared" /\ file' = <<>>
        /\ UNCHANGED <<ports, created>>
    BY <1>10 DEF Device!ClearLoopbackNetem, Device!test
  <2>2. file # <<>> /\ file[1].created = created /\ Device!SavedPorts = Len(ports)
    BY <2>1, SavedPortsIs DEF SetUp
  <2>3. CASE created /\ root' = "none" /\ filters' = {} /\ netem' = FALSE
             /\ UNCHANGED <<began, astray>>
    <3>1. DeviceTypes'
      BY <2>1, <2>3 DEF DeviceTypes, Saved
    <3>2. NothingElse' /\ SetUp' /\ (began'.clean /\ ~began'.missed => FoundClean')
      BY <2>1, <2>3 DEF NothingElse, SetUp, FoundClean
    <3> QED BY <3>1, <3>2
  <2>4. ASSUME NEW held \in SUBSET (filters \ Device!Kept), NEW slow \in {FALSE, netem},
               filters' = Device!Kept \cup held, netem' = slow,
               Device!Missed(created \/ held # {} \/ slow), root' = root
        PROVE  DeviceInv'
    <3>1. slow \in BOOLEAN /\ (created \/ held # {} \/ slow) \in BOOLEAN
      BY <2>4 DEF DeviceTypes
    <3>2. /\ began'.root = began.root /\ began'.clean = began.clean
          /\ began'.missed \in BOOLEAN /\ astray' \in BOOLEAN
          /\ began' = [root |-> began'.root, clean |-> began'.clean, missed |-> began'.missed]
          /\ ~began'.missed => ~created /\ held = {} /\ ~slow /\ ~began.missed
          /\ ~astray' => held = {} /\ ~astray
      BY <2>4, <3>1, MissedIs
    <3>3. Len(ports) \in Nat /\ DOMAIN ports = 1..Len(ports)
      BY DEF DeviceTypes
    <3>4. Device!Kept \subseteq filters /\ ((\A f \in filters : Own(f)) => Device!Kept = {})
      BY <2>2, <3>3, FiltersBut DEF Device!Kept, Own
    <3>5. DeviceTypes'
      BY <2>1, <2>4, <3>1, <3>2, <3>4 DEF DeviceTypes, Saved
    <3>6. NothingElse'
      BY <2>1, <2>4, <3>2, <3>4 DEF NothingElse
    <3>7. SetUp'
      BY <2>1, <2>4, <3>2 DEF SetUp
    <3>8. began'.clean /\ ~began'.missed => FoundClean'
      BY <2>1, <2>4, <3>2, <3>4 DEF FoundClean
    <3> QED BY <3>5, <3>6, <3>7, <3>8
  <2>5. created \in BOOLEAN /\ (file # <<>> /\ file[1].created <=> created)
    BY <2>2 DEF DeviceTypes
  <2> QED BY <1>10, <2>2, <2>3, <2>4, <2>5 DEF Device!ClearLoopbackNetem
<1>11. CASE Device!NextTest
  <2>1. /\ job = "cleared" /\ job' = "idle"
        /\ UNCHANGED <<root, netem, filters, file, ports, began, created, astray>>
    BY <1>11 DEF Device!NextTest, Device!device, Device!test
  <2>2. DeviceTypes'
    BY <2>1 DEF DeviceTypes, Saved
  <2>3. NothingElse' /\ SetUp' /\ (began'.clean /\ ~began'.missed => FoundClean')
    BY <2>1 DEF NothingElse, SetUp, FoundClean
  <2> QED BY <2>2, <2>3
<1>12. CASE UNCHANGED Device!netemVars
  <2>1. UNCHANGED <<root, netem, filters, file, job, ports, began, created, astray>>
    BY <1>12 DEF Device!netemVars
  <2> QED BY <2>1 DEF DeviceTypes, NothingElse, SetUp, FoundClean, Own, Saved,
                      Device!SavedPorts, Device!FilterOf
<1> QED BY <1>1, <1>2, <1>3, <1>4, <1>5, <1>6, <1>7, <1>8, <1>9, <1>10, <1>11, <1>12
       DEF Device!Next

(***************************************************************************)
(* While a test runs slowed down, the packets of its validators are, and   *)
(* those of nobody else unless a script ended before it wrote its file or  *)
(* a deletion failed. After a test that cleared up nothing is slow, and a  *)
(* device that was found clean is what it was, unless a deletion of this   *)
(* very test failed and was taken for done: for any ports of the tests,    *)
(* and however many of them failed or died before.                         *)
(***************************************************************************)
THEOREM DeviceCleared == Device!Spec => []Device!NetemTrue
<1>1. DeviceInv => Device!NetemTrue
  <2> SUFFICES ASSUME DeviceInv PROVE Device!NetemTrue
    OBVIOUS
  <2>1. ASSUME job = "slow"
        PROVE  /\ netem /\ Device!ToSet(ports) \subseteq Device!Slowed
               /\ ~astray => Device!Slowed = Device!ToSet(ports)
    <3>1. Device!ToSet(ports) = {ports[p] : p \in DOMAIN ports}
      BY DEF Device!ToSet
    <3>2. \A p \in DOMAIN ports : \E f \in filters : f.port = ports[p]
      BY <2>1 DEF DeviceInv, SetUp, Device!FilterOf
    <3>3. ~astray => \A f \in filters : Own(f)
      BY <2>1 DEF DeviceInv, NothingElse, Applying
    <3>4. netem
      BY <2>1 DEF DeviceInv, SetUp
    <3>5. ~astray => Device!Slowed \subseteq Device!ToSet(ports)
      BY <3>1, <3>3 DEF Device!Slowed, Own
    <3>6. Device!ToSet(ports) \subseteq Device!Slowed
      BY <3>1, <3>2 DEF Device!Slowed
    <3> QED BY <3>4, <3>5, <3>6
  <2>2. ASSUME job = "cleared"
        PROVE  /\ ~began.missed => ~netem
               /\ ~astray => filters = {}
               /\ began.clean /\ ~began.missed => root = began.root /\ filters = {}
    BY <2>2 DEF DeviceInv, SetUp, NothingElse, FoundClean
  <2> QED BY <2>1, <2>2 DEF Device!NetemTrue
<1>2. Device!Init => DeviceInv
  BY NetemInit
<1>3. DeviceInv /\ [Device!Next]_(Device!netemVars) => DeviceInv'
  BY NetemStep
<1> QED BY <1>1, <1>2, <1>3, PTL DEF Device!Spec

-----------------------------------------------------------------------------
(***************************************************************************)
(* Network.                                                                *)
(***************************************************************************)
States == {"none", "stopped", "current", "removed"}
Places ==
  ({"stop", "clean"} \X {"stop", "delete"}) \cup {<<"clean", "remove">>}
    \cup ({"init"} \X {"generate", "pm2init"})
    \cup ({"run"} \X {"check", "start", "await", "ready"})

\* a make target is going on, one of these, at one of these places
During(targets, places) == outcome = "running" /\ target \in targets /\ at \in places

ScriptTypes ==
  /\ config \in Layouts /\ session \in Layouts \cup {<<>>}
  /\ list \in Layouts \cup {<<>>} /\ pos \in Nat \ {0}
  /\ env \in BOOLEAN /\ used \in BOOLEAN /\ messy \in BOOLEAN
  /\ proc \in [Scripts!Names -> States]
  /\ before \in [data : BOOLEAN, users : SUBSET {"test"}, procs : {"up", "stray", "down"}]
  /\ outcome \in {"running", "ok", "failed", "killed"} /\ target \in {"stop", "clean", "init", "run"}
  /\ outcome = "running" => <<target, at>> \in Places

\* what the generator makes of the network n, or what is left of it
Remade(n) ==
  [data : BOOLEAN, users : {{}, n.users},
   procs : {n.procs, IF n.procs = "down" THEN "down" ELSE "stray"}]

\* the network, compared with the one that the target was called on
NetSince ==
  /\ During({"stop", "clean"}, {"stop"}) \/ During({"init"}, {"generate"}) => Scripts!Net = before
  /\ During({"stop", "clean"}, {"delete", "remove"}) => Scripts!Net \in Scripts!Halted(before)
  /\ During({"init"}, {"pm2init"}) => Scripts!Net \in Remade(before)
  /\ During({"run"}, {"check", "start", "await", "ready"}) =>
       /\ Scripts!Net.data = before.data /\ Scripts!Net.users = before.users
       /\ ~before.data => at = "check" /\ Scripts!Net \in Scripts!Halted(before)
  /\ outcome \in {"ok", "failed"} =>
       Scripts!Result(outcome = "ok", Scripts!Net) \in Scripts!Outcomes(target, before)
  /\ outcome = "killed" => Scripts!Net \in Scripts!Interrupted(target, before)

\* the nodes of the session, while they are started
Starting ==
  /\ During({"run"}, {"start", "await", "ready"}) => list = session /\ session # <<>> /\ env
  /\ During({"run"}, {"start"}) =>
       \A k \in DOMAIN list : k < pos => proc[list[k]] \in {"current", "stopped"}
  /\ During({"run"}, {"await"}) =>
       /\ pos \in DOMAIN list
       /\ \A k \in DOMAIN list : k <= pos => proc[list[k]] \in {"current", "stopped"}
  /\ During({"run"}, {"ready"}) =>
       \A k \in DOMAIN list : /\ proc[list[k]] \in {"current", "stopped"}
                              /\ k < pos => proc[list[k]] = "current"
  /\ outcome = "ok" /\ target = "run" => \A k \in DOMAIN session : proc[session[k]] = "current"

\* no other node runs, as far as pm2 did what it was told to
Tidy ==
  /\ \A p \in Scripts!Running : proc[p] = "current" /\ \E k \in DOMAIN session : session[k] = p
  /\ During({"stop", "clean"}, {"delete"}) =>
       /\ list = Scripts!SourceFile
       /\ \A k \in DOMAIN list : k < pos => list[k] \notin Scripts!Running
  /\ During({"clean"}, {"remove"}) \/ During({"init"}, {"generate", "pm2init"}) =>
       Scripts!Running = {}

ScriptsInv == ScriptTypes /\ NetSince /\ Starting /\ (~messy => Tidy)

LEMMA LayoutIs ==
  ASSUME NEW l \in Layouts
  PROVE  /\ Len(l) \in Nat \ {0} /\ DOMAIN l = 1..Len(l)
         /\ \A k \in DOMAIN l : l[k] \in Scripts!Names
         /\ \A i, j \in DOMAIN l : l[i] = l[j] => i = j
<1>1. l \in Seq(STRING) /\ l # <<>>
  BY LayoutsAssumption
<1>2. Len(l) \in Nat \ {0} /\ DOMAIN l = 1..Len(l)
  BY <1>1
<1>3. \A k \in DOMAIN l : l[k] \in Scripts!Names
  BY DEF Scripts!Names
<1> QED BY <1>2, <1>3, LayoutsAssumption

Net3 == [data : BOOLEAN, users : SUBSET {"test"}, procs : {"up", "stray", "down"}]

LEMMA NetIs ==
  /\ Scripts!Net \in Net3
  /\ Scripts!Net.data = (session # <<>> /\ env)
  /\ Scripts!Net.users = IF used THEN {"test"} ELSE {}
  /\ Scripts!Net.procs = "up" <=> \E p \in Scripts!Names : proc[p] = "current"
  /\ Scripts!Net.procs = "down" <=> Scripts!Running = {}
<1>1. Scripts!Net.procs = "up" <=> \E p \in Scripts!Names : proc[p] = "current"
  BY DEF Scripts!Net
<1>2. (\E p \in Scripts!Names : proc[p] = "current") => Scripts!Running # {}
  BY DEF Scripts!Running
<1>3. Scripts!Net.procs = "down" <=> Scripts!Running = {}
  BY <1>2 DEF Scripts!Net
<1>4. /\ Scripts!Net \in Net3
      /\ Scripts!Net.data = (session # <<>> /\ env)
      /\ Scripts!Net.users = IF used THEN {"test"} ELSE {}
  BY DEF Scripts!Net, Scripts!NoSession, Net3
<1> QED BY <1>1, <1>3, <1>4

LEMMA NextNetIs ==
  /\ Scripts!Net' \in Net3
  /\ Scripts!Net'.data = (session' # <<>> /\ env')
  /\ Scripts!Net'.users = IF used' THEN {"test"} ELSE {}
  /\ Scripts!Net'.procs = "up" <=> \E p \in Scripts!Names : proc'[p] = "current"
  /\ Scripts!Net'.procs = "down" <=> Scripts!Running' = {}
<1>1. (/\ Scripts!Net \in Net3
       /\ Scripts!Net.data = (session # <<>> /\ env)
       /\ Scripts!Net.users = IF used THEN {"test"} ELSE {}
       /\ Scripts!Net.procs = "up" <=> \E p \in Scripts!Names : proc[p] = "current"
       /\ Scripts!Net.procs = "down" <=> Scripts!Running = {})'
  BY NetIs, PTL
<1> QED BY <1>1 DEF Net3

LEMMA NetUnchanged ==
  ASSUME UNCHANGED <<session, env, used, proc>>
  PROVE  Scripts!Net' = Scripts!Net /\ Scripts!Running' = Scripts!Running
BY DEF Scripts!Net, Scripts!Running

\* what make stop leaves, of what it left
LEMMA HaltedIs ==
  ASSUME NEW n \in Net3
  PROVE  /\ n \in Scripts!Halted(n)
         /\ \A m \in Scripts!Halted(n) :
              /\ m \in Net3 /\ m.data = n.data /\ m.users = n.users
              /\ Scripts!Halted(m) \subseteq Scripts!Halted(n)
         /\ \A m \in Net3 :
              (/\ m.data = n.data /\ m.users = n.users
               /\ m.procs = n.procs \/ m.procs = "down" \/ (n.procs = "up" /\ m.procs = "stray"))
              => m \in Scripts!Halted(n)
BY DEF Scripts!Halted, Scripts!Down, Net3

LEMMA NetShrinks ==
  ASSUME UNCHANGED <<session, env, used>>,
         \A p \in Scripts!Names : proc'[p] \in {"current", "removed"} => proc'[p] = proc[p]
  PROVE  Scripts!Net' \in Scripts!Halted(Scripts!Net) /\ Scripts!Running' \subseteq Scripts!Running
<1>1. Scripts!Running' \subseteq Scripts!Running
  BY DEF Scripts!Running
<1>2. (\E p \in Scripts!Names : proc'[p] = "current") => \E p \in Scripts!Names : proc[p] = "current"
  OBVIOUS
<1>3. Scripts!Net'.data = Scripts!Net.data /\ Scripts!Net'.users = Scripts!Net.users
  BY NetIs, NextNetIs
<1>4. Scripts!Net'.procs \in {"up", "stray", "down"} /\ Scripts!Net.procs \in {"up", "stray", "down"}
  BY NetIs, NextNetIs DEF Net3
<1>5. /\ Scripts!Net'.procs = "up" => Scripts!Net.procs = "up"
      /\ Scripts!Net.procs = "down" => Scripts!Net'.procs = "down"
  BY <1>1, <1>2, NetIs, NextNetIs
<1> QED BY <1>1, <1>3, <1>4, <1>5, NetIs, NextNetIs, HaltedIs

\* rm -rf of the data directory, of all that is in it or of a part
LEMMA NetRemade ==
  ASSUME ScriptTypes, Scripts!RemoveData \/ Scripts!RemoveSome
  PROVE  /\ Scripts!Net' \in Remade(Scripts!Net) /\ Scripts!Running' = Scripts!Running
         /\ proc' \in [Scripts!Names -> States] /\ env' \in {FALSE, env} /\ used' \in {FALSE, used}
<1>1. PICK ps \in SUBSET Scripts!Names : Scripts!Delete(ps)
  BY DEF Scripts!RemoveData, Scripts!RemoveSome
<1>2. \A p \in Scripts!Names :
        proc'[p] = IF p \in ps /\ proc[p] = "current" THEN "removed" ELSE proc[p]
  BY <1>1 DEF Scripts!Delete
<1>3. proc' \in [Scripts!Names -> States]
  BY <1>1 DEF Scripts!Delete, ScriptTypes, States
<1>4. Scripts!Running' = Scripts!Running
  BY <1>2 DEF Scripts!Running
<1>5. env' \in {FALSE, env} /\ used' \in {FALSE, used}
  <2>1. CASE Scripts!RemoveData
    BY <2>1 DEF Scripts!RemoveData
  <2>2. CASE Scripts!RemoveSome
    BY <2>2 DEF Scripts!RemoveSome
  <2> QED BY <2>1, <2>2
<1>6. Scripts!Net'.users \in {{}, Scripts!Net.users}
  <2>1. CASE used' = FALSE
    BY <2>1, NextNetIs
  <2>2. CASE used' = used
    BY <2>2, NetIs, NextNetIs
  <2> QED BY <1>5, <2>1, <2>2
<1>7. Scripts!Net'.procs = "up" => Scripts!Net.procs = "up"
  BY <1>2, NetIs, NextNetIs
<1>8. Scripts!Net'.procs = "down" <=> Scripts!Net.procs = "down"
  BY <1>4, NetIs, NextNetIs
<1>9. Scripts!Net'.procs \in {"up", "stray", "down"} /\ Scripts!Net.procs \in {"up", "stray", "down"}
      /\ Scripts!Net' = [data |-> Scripts!Net'.data, users |-> Scripts!Net'.users, procs |-> Scripts!Net'.procs]
      /\ Scripts!Net'.data \in BOOLEAN
  BY NetIs, NextNetIs DEF Net3
<1>10. Scripts!Net' \in Remade(Scripts!Net)
  BY <1>6, <1>7, <1>8, <1>9 DEF Remade
<1> QED BY <1>3, <1>4, <1>5, <1>10

(***************************************************************************)
(* The outcomes of the make targets.                                       *)
(***************************************************************************)
LEMMA NothingDone ==
  ASSUME NEW c, NEW n
  PROVE  Scripts!Result(FALSE, n) \in Scripts!Outcomes(c, n) /\ n \in Scripts!Interrupted(c, n)
BY DEF Scripts!Outcomes, Scripts!Interrupted

LEMMA InterruptedBy ==
  ASSUME NEW c, NEW n, NEW ok, NEW m, Scripts!Result(ok, m) \in Scripts!Outcomes(c, n)
  PROVE  m \in Scripts!Interrupted(c, n) /\ (c = "stop" => m \in Scripts!Interrupted("clean", n))
<1>1. Scripts!Result(ok, m).net = m
  BY DEF Scripts!Result
<1> DEFINE o == Scripts!Result(ok, m)
<1> HIDE DEF o
<1>2. o \in Scripts!Outcomes(c, n) /\ o.net = m
  BY <1>1 DEF o
<1> QED BY <1>2 DEF Scripts!Interrupted

LEMMA StopOutcome ==
  ASSUME NEW n \in Net3, NEW k \in Scripts!Halted(n)
  PROVE  /\ Scripts!Result(TRUE, k) \in Scripts!Outcomes("stop", n)
         /\ \A m \in Scripts!Cleared(k) : Scripts!Result(TRUE, m) \in Scripts!Outcomes("clean", n)
<1>1. Scripts!Result(TRUE, k) \in Scripts!StopOutcomes(n)
  BY DEF Scripts!StopOutcomes
<1>2. \A m \in Scripts!Cleared(k) : Scripts!Result(TRUE, m) \in Scripts!CleanOutcomes(n)
  BY DEF Scripts!CleanOutcomes
<1> QED BY <1>1, <1>2 DEF Scripts!Outcomes

LEMMA InitOutcome ==
  ASSUME NEW n \in Net3, NEW m \in Remade(n)
  PROVE  /\ Scripts!Result(FALSE, m) \in Scripts!Outcomes("init", n)
         /\ m.data => Scripts!Result(TRUE, m) \in Scripts!Outcomes("init", n)
<1> DEFINE there == {[k EXCEPT !.data = TRUE] : k \in Scripts!Cleared(n)}
           gone == [m EXCEPT !.data = FALSE]
<1>1. gone \in Scripts!Cleared(n)
  BY DEF Remade, Scripts!Cleared, Net3
<1>2. CASE ~m.data
  <2>1. m = gone
    BY <1>2 DEF Remade
  <2> HIDE DEF gone
  <2>2. Scripts!Result(FALSE, m) \in Scripts!InitOutcomes(n)
    BY <1>1, <2>1 DEF Scripts!InitOutcomes
  <2> QED BY <1>2, <2>2 DEF Scripts!Outcomes
<1>3. CASE m.data
  <2>1. m = [gone EXCEPT !.data = TRUE]
    BY <1>3 DEF Remade
  <2> HIDE DEF gone
  <2>2. m \in there
    BY <1>1, <2>1
  <2> HIDE DEF there
  <2>3. Scripts!InitOutcomes(n) =
          {Scripts!Result(TRUE, k) : k \in there}
            \cup {Scripts!Result(FALSE, k) : k \in Scripts!Cleared(n) \cup there}
    BY DEF Scripts!InitOutcomes, there
  <2>4. /\ Scripts!Result(FALSE, m) \in Scripts!InitOutcomes(n)
        /\ Scripts!Result(TRUE, m) \in Scripts!InitOutcomes(n)
    BY <2>2, <2>3
  <2> QED BY <2>4 DEF Scripts!Outcomes
<1>4. m.data \in BOOLEAN
  BY DEF Remade
<1> QED BY <1>2, <1>3, <1>4

LEMMA RunOutcome ==
  ASSUME NEW n \in Net3, NEW m \in Net3, m.data = n.data, m.users = n.users,
         n.data \/ m \in Scripts!Halted(n)
  PROVE  /\ Scripts!Result(FALSE, m) \in Scripts!Outcomes("run", n)
         /\ n.data /\ m.procs = "up" => Scripts!Result(TRUE, m) \in Scripts!Outcomes("run", n)
<1>4. Scripts!RunOutcomes(n) \subseteq Scripts!Outcomes("run", n)
  BY DEF Scripts!Outcomes
<1>5. CASE ~n.data
  <2>1. Scripts!Result(FALSE, m) \in Scripts!RunOutcomes(n)
    BY <1>5 DEF Scripts!RunOutcomes
  <2> QED BY <1>4, <1>5, <2>1
<1>6. CASE n.data
  <2> USE <1>6
  <2>1. m = [n EXCEPT !.procs = m.procs] /\ m.procs \in {"down", "up", "stray"}
    BY DEF Net3
  <2>2. Scripts!Result(FALSE, [n EXCEPT !.procs = m.procs]) \in Scripts!RunOutcomes(n)
    BY <2>1 DEF Scripts!RunOutcomes
  <2>3. Scripts!Result(TRUE, [n EXCEPT !.procs = "up"]) \in Scripts!RunOutcomes(n)
    BY DEF Scripts!RunOutcomes
  <2> QED BY <1>4, <2>1, <2>2, <2>3
<1>7. n.data \in BOOLEAN
  BY DEF Net3
<1> QED BY <1>5, <1>6, <1>7

(***************************************************************************)
(* The steps of the scripts.                                               *)
(***************************************************************************)
LEMMA ScriptsInit ==
  ASSUME Scripts!Init
  PROVE  ScriptsInv
<1>1. \A p \in Scripts!Names : proc[p] = "none"
  BY DEF Scripts!Init
<1>2. Scripts!Running = {} /\ Scripts!Net \in Net3
  <2>1. Scripts!Running = {}
    BY <1>1 DEF Scripts!Running
  <2> QED BY <2>1, NetIs
<1>3. ScriptTypes
  <2>1. /\ config \in Layouts /\ session = <<>> /\ env = FALSE /\ used = FALSE /\ target = "stop" /\ list = <<>>
        /\ pos = 1 /\ outcome = "ok" /\ before = Scripts!Net /\ messy = FALSE
    BY DEF Scripts!Init, Scripts!NoSession
  <2>2. proc \in [Scripts!Names -> States]
    BY <1>1 DEF Scripts!Init, States
  <2>3. before \in [data : BOOLEAN, users : SUBSET {"test"}, procs : {"up", "stray", "down"}]
    BY <1>2, <2>1 DEF Net3
  <2>4. session \in Layouts \cup {<<>>} /\ list \in Layouts \cup {<<>>} /\ pos \in Nat \ {0}
    BY <2>1
  <2>5. outcome \in {"running", "ok", "failed", "killed"} /\ target \in {"stop", "clean", "init", "run"}
    BY <2>1
  <2>6. outcome = "running" => <<target, at>> \in Places
    BY <2>1
  <2>7. env \in BOOLEAN /\ used \in BOOLEAN /\ messy \in BOOLEAN /\ config \in Layouts
    BY <2>1
  <2> HIDE <2>1
  <2> QED BY <2>2, <2>3, <2>4, <2>5, <2>6, <2>7, Zenon DEF ScriptTypes
<1>5. Scripts!Result(TRUE, Scripts!Net) \in Scripts!Outcomes("stop", Scripts!Net)
  BY <1>2, HaltedIs, StopOutcome
<1>6. NetSince /\ Starting
  BY <1>5 DEF Scripts!Init, NetSince, Starting, During
<1>7. Tidy
  BY <1>2 DEF Scripts!Init, Tidy, During
<1> QED BY <1>3, <1>6, <1>7 DEF ScriptsInv

LEMMA CallStep ==
  ASSUME ScriptsInv, NEW c \in Scripts!Commands \ {"test"}, Scripts!Call(c)
  PROVE  ScriptsInv'
<1> USE DEF ScriptsInv
<1>1. /\ target' = c /\ outcome' = "running" /\ pos' = 1 /\ before' = Scripts!Net' /\ list' = <<>>
      /\ at' = CASE c \in {"stop", "clean"} -> "stop" [] c = "init" -> "generate" [] c = "run" -> "check"
      /\ messy' = (messy \/ (c = "init" /\ Scripts!Running # {}))
      /\ config' \in Layouts /\ used' \in {used, used \/ Scripts!Net.procs = "up"}
      /\ UNCHANGED <<session, env, proc>>
  BY DEF Scripts!Call
<1>2. c \in {"stop", "clean", "init", "run"}
  BY DEF Scripts!Commands
<1>3. /\ Scripts!Running' = Scripts!Running /\ Scripts!Net' \in Net3
      /\ c \in {"stop", "clean"} => at' = "stop"
      /\ c = "init" => at' = "generate"
      /\ c = "run" => at' = "check"
  BY <1>1, <1>2, NextNetIs DEF Scripts!Running
<1>4. ScriptTypes'
  <2>1. used' \in BOOLEAN
    BY <1>1 DEF ScriptTypes
  <2>2. before' \in [data : BOOLEAN, users : SUBSET {"test"}, procs : {"up", "stray", "down"}]
    BY <1>1, <1>3 DEF Net3
  <2>3. messy' \in BOOLEAN
    BY <1>1 DEF ScriptTypes
  <2>4. <<target', at'>> \in Places
    BY <1>1, <1>2, <1>3 DEF Places
  <2> QED BY <1>1, <1>2, <2>1, <2>2, <2>3, <2>4 DEF ScriptTypes
<1>6. NetSince'
  <2>1. Scripts!Net' \in Scripts!Halted(Scripts!Net')
    BY <1>3, HaltedIs
  <2> QED BY <1>1, <1>2, <1>3, <2>1 DEF NetSince, During
<1>7. Starting'
  BY <1>1, <1>2, <1>3 DEF Starting, During
<1>8. ~messy' => Tidy'
  BY <1>1, <1>2, <1>3 DEF Tidy, During
<1> QED BY <1>4, <1>6, <1>7, <1>8

\* what a killed target leaves, wherever it was
LEMMA KilledNet ==
  ASSUME ScriptsInv, outcome = "running"
  PROVE  Scripts!Net \in Scripts!Interrupted(target, before)
<1>1. before \in Net3 /\ Scripts!Net \in Net3 /\ <<target, at>> \in Places
  BY NetIs DEF ScriptsInv, ScriptTypes, Net3
<1>2. CASE Scripts!Net = before
  BY <1>2, NothingDone
<1>3. CASE target \in {"stop", "clean"} /\ at \in {"delete", "remove"}
  <2>1. Scripts!Net \in Scripts!Halted(before)
    BY <1>3 DEF ScriptsInv, NetSince, During
  <2>2. Scripts!Result(TRUE, Scripts!Net) \in Scripts!Outcomes("stop", before)
    BY <1>1, <2>1, StopOutcome
  <2> QED BY <1>3, <2>2, InterruptedBy
<1>4. CASE target = "init" /\ at = "pm2init" /\ Scripts!Net # before
  <2>1. Scripts!Net \in Remade(before)
    BY <1>4 DEF ScriptsInv, NetSince, During
  <2>2. Scripts!Result(FALSE, Scripts!Net) \in Scripts!Outcomes("init", before)
    BY <1>1, <2>1, InitOutcome
  <2> QED BY <1>4, <2>2, InterruptedBy
<1>5. CASE target = "run" /\ Scripts!Net # before
  <2>1. /\ Scripts!Net.data = before.data /\ Scripts!Net.users = before.users
        /\ before.data \/ Scripts!Net \in Scripts!Halted(before)
    BY <1>1, <1>5 DEF ScriptsInv, NetSince, During, Places
  <2>2. Scripts!Result(FALSE, Scripts!Net) \in Scripts!Outcomes("run", before)
    BY <1>1, <2>1, RunOutcome
  <2> QED BY <1>5, <2>2, InterruptedBy
<1>6. at \in {"stop", "generate"} => Scripts!Net = before
  BY <1>1 DEF ScriptsInv, NetSince, During, Places
<1>7. \/ at \in {"stop", "generate"} \/ target = "run"
      \/ target \in {"stop", "clean"} /\ at \in {"delete", "remove"}
      \/ target = "init" /\ at = "pm2init"
  BY <1>1 DEF Places
<1> QED BY <1>2, <1>3, <1>4, <1>5, <1>6, <1>7

\* a target that returns, with the network it leaves
LEMMA Returned ==
  ASSUME ScriptsInv, NEW r \in {"ok", "failed", "killed"}, Scripts!Return(r),
         UNCHANGED <<config, session, env, used, proc, target, before>>,
         list' \in Layouts \cup {<<>>}, messy' \in BOOLEAN, messy => messy',
         r \in {"ok", "failed"} =>
           Scripts!Result(r = "ok", Scripts!Net) \in Scripts!Outcomes(target, before),
         r = "killed" => Scripts!Net \in Scripts!Interrupted(target, before),
         r = "ok" /\ target = "run" => \A k \in DOMAIN session : proc[session[k]] = "current"
  PROVE  ScriptsInv'
<1>1. at' = "end" /\ pos' = 1 /\ outcome' = r
  BY DEF Scripts!Return
<1>2. Scripts!Net' = Scripts!Net /\ Scripts!Running' = Scripts!Running
  BY NetUnchanged
<1>3. ScriptTypes'
  BY <1>1 DEF ScriptsInv, ScriptTypes
<1>5. NetSince'
  BY <1>1, <1>2 DEF NetSince, During
<1>6. Starting'
  BY <1>1 DEF Starting, During
<1>7. ~messy' => Tidy'
  BY <1>1, <1>2 DEF ScriptsInv, Tidy, During
<1> QED BY <1>3, <1>5, <1>6, <1>7 DEF ScriptsInv

LEMMA KillStep ==
  ASSUME ScriptsInv, Scripts!Kill
  PROVE  ScriptsInv'
<1>1. /\ outcome = "running" /\ Scripts!Return("killed")
      /\ UNCHANGED <<config, session, env, used, proc, target, list, before, messy>>
  BY DEF Scripts!Kill
<1>2. list' \in Layouts \cup {<<>>} /\ messy' \in BOOLEAN
  BY <1>1 DEF ScriptsInv, ScriptTypes
<1> QED BY <1>1, <1>2, KilledNet, Returned

\* make stop and make clean go on: nodes are stopped, none is started
LEMMA StopGoesOn ==
  ASSUME ScriptsInv, outcome = "running", target \in {"stop", "clean"},
         UNCHANGED <<config, session, env, used, target, outcome, before>>,
         at' \in {"delete", "remove"}, at' = "remove" => target = "clean", pos' \in Nat \ {0},
         list' \in Layouts \cup {<<>>}, messy' \in BOOLEAN, messy => messy',
         proc' \in [Scripts!Names -> States],
         \A p \in Scripts!Names : proc'[p] \in {"current", "removed"} => proc'[p] = proc[p],
         ~messy' /\ at' = "delete" =>
           list' = Scripts!SourceFile /\ \A k \in DOMAIN list' : k < pos' => list'[k] \notin Scripts!Running',
         ~messy' /\ at' = "remove" => Scripts!Running' = {}
  PROVE  ScriptsInv'
<1>1. Scripts!Net' \in Scripts!Halted(Scripts!Net) /\ Scripts!Running' \subseteq Scripts!Running
  BY NetShrinks
<1>2. ScriptTypes'
  BY DEF ScriptsInv, ScriptTypes, Places
<1>4. NetSince'
  <2>1. <<target, at>> \in Places
    BY DEF ScriptsInv, ScriptTypes
  <2>2. at \in {"stop", "delete", "remove"}
    BY <2>1 DEF Places
  <2>3. at = "stop" => Scripts!Net = before
    BY DEF ScriptsInv, NetSince, During
  <2>4. at \in {"delete", "remove"} => Scripts!Net \in Scripts!Halted(before)
    BY DEF ScriptsInv, NetSince, During
  <2>5. before \in Net3
    BY DEF ScriptsInv, ScriptTypes, Net3
  <2>6. Scripts!Net \in Scripts!Halted(before)
    BY <2>2, <2>3, <2>4, <2>5, HaltedIs
  <2>7. Scripts!Net' \in Scripts!Halted(before)
    BY <1>1, <2>5, <2>6, HaltedIs
  <2> QED BY <2>7 DEF NetSince, During
<1>5. Starting'
  BY DEF Starting, During
<1>6. ~messy' => Tidy'
  <2> SUFFICES ASSUME ~messy' PROVE Tidy'
    OBVIOUS
  <2>1. \A p \in Scripts!Running' :
          proc'[p] = "current" /\ \E k \in DOMAIN session' : session'[k] = p
    BY <1>1 DEF ScriptsInv, Tidy, Scripts!Running
  <2>2. Scripts!SourceFile' = Scripts!SourceFile
    BY DEF Scripts!SourceFile
  <2> QED BY <2>1, <2>2 DEF Tidy, During
<1> QED BY <1>2, <1>4, <1>5, <1>6 DEF ScriptsInv

LEMMA CannotStopStep ==
  ASSUME ScriptsInv, Scripts!CannotStop
  PROVE  ScriptsInv'
<1>1. /\ outcome = "running" /\ target \in {"stop", "clean"} /\ at = "stop"
      /\ Scripts!EndStop("failed") /\ messy' = (messy \/ Scripts!Running # {})
      /\ UNCHANGED <<config, session, env, used, proc, target, list, before>>
  BY DEF Scripts!CannotStop, Scripts!Stopping, Scripts!At
<1>2. /\ Scripts!Net = before /\ list' \in Layouts \cup {<<>>} /\ proc' \in [Scripts!Names -> States]
      /\ messy' \in BOOLEAN /\ (messy => messy')
  BY <1>1 DEF ScriptsInv, ScriptTypes, NetSince, During
<1>3. CASE target = "stop"
  <2>1. Scripts!Return("failed")
    BY <1>1, <1>3 DEF Scripts!EndStop
  <2>2. Scripts!Result(FALSE, Scripts!Net) \in Scripts!Outcomes(target, before)
    BY <1>2, NothingDone
  <2> QED BY <1>1, <1>2, <2>1, <2>2, Returned
<1>4. CASE target = "clean"
  <2>1. at' = "remove" /\ pos' = 1 /\ UNCHANGED outcome
    BY <1>1, <1>4 DEF Scripts!EndStop, Scripts!Go
  <2>2. ~messy' => Scripts!Running' = {}
    BY <1>1, NetUnchanged
  <2> QED BY <1>1, <1>2, <1>4, <2>1, <2>2, StopGoesOn
<1> QED BY <1>1, <1>3, <1>4

LEMMA StopKnownStep ==
  ASSUME ScriptsInv, Scripts!StopKnown
  PROVE  ScriptsInv'
<1>1. /\ outcome = "running" /\ target \in {"stop", "clean"} /\ at = "stop"
      /\ list' = Scripts!SourceFile /\ at' = "delete" /\ pos' = 1
      /\ UNCHANGED <<config, session, env, used, target, outcome, before, messy>>
  BY DEF Scripts!StopKnown, Scripts!Stopping, Scripts!At, Scripts!Go
<1>2. PICK S \in SUBSET Scripts!Running :
        proc' = [p \in Scripts!Names |-> IF p \in S THEN "stopped" ELSE proc[p]]
  BY DEF Scripts!StopKnown
<1>3. proc' \in [Scripts!Names -> States]
  BY <1>2 DEF ScriptsInv, ScriptTypes, States
<1>4. \A p \in Scripts!Names : proc'[p] \in {"current", "removed"} => proc'[p] = proc[p]
  BY <1>2
<1>5. list' \in Layouts \cup {<<>>} /\ messy' \in BOOLEAN
  BY <1>1 DEF ScriptsInv, ScriptTypes, Scripts!SourceFile, Scripts!NoSession
<1>6. \A k \in DOMAIN list' : ~(k < pos')
  <2>1. DOMAIN list' \subseteq Nat \ {0}
    BY <1>5, LayoutIs
  <2> QED BY <1>1, <2>1
<1> QED BY <1>1, <1>3, <1>4, <1>5, <1>6, StopGoesOn

LEMMA DeleteKnownStep ==
  ASSUME ScriptsInv, Scripts!DeleteKnown
  PROVE  ScriptsInv'
<1>1. /\ outcome = "running" /\ target \in {"stop", "clean"} /\ at = "delete"
      /\ pos \in 1..Len(list) /\ pos' = pos + 1
      /\ UNCHANGED <<config, session, env, used, target, at, list, outcome, before>>
  BY DEF Scripts!DeleteKnown, Scripts!Stopping, Scripts!At, ScriptsInv, ScriptTypes
<1>3. \/ proc' = [proc EXCEPT ![list[pos]] = "none"] /\ UNCHANGED messy
      \/ messy' = (messy \/ list[pos] \in Scripts!Running) /\ UNCHANGED proc
  BY DEF Scripts!DeleteKnown
<1>2. /\ pos' \in Nat \ {0} /\ list' \in Layouts \cup {<<>>}
      /\ messy' \in BOOLEAN /\ (messy => messy')
  <2>1. pos \in Nat \ {0} /\ list \in Layouts \cup {<<>>} /\ messy \in BOOLEAN
    BY DEF ScriptsInv, ScriptTypes
  <2>2. pos' \in Nat \ {0} /\ list' \in Layouts \cup {<<>>}
    BY <1>1, <2>1
  <2>3. messy' \in BOOLEAN /\ (messy => messy')
    BY <1>3, <2>1
  <2> QED BY <2>2, <2>3
<1>4. /\ proc' \in [Scripts!Names -> States]
      /\ \A p \in Scripts!Names : proc'[p] \in {"current", "removed"} => proc'[p] = proc[p]
  BY <1>3 DEF ScriptsInv, ScriptTypes, States
<1>5. ~messy' => list[pos] \notin Scripts!Running'
  BY <1>3 DEF ScriptsInv, ScriptTypes, Scripts!Running
<1>6. Scripts!Running' \subseteq Scripts!Running
  BY <1>4 DEF Scripts!Running
<1>7. ASSUME ~messy'
      PROVE  /\ list' = Scripts!SourceFile
             /\ \A k \in DOMAIN list' : k < pos' => list'[k] \notin Scripts!Running'
  <2>1. /\ list = Scripts!SourceFile
        /\ \A k \in DOMAIN list : k < pos => list[k] \notin Scripts!Running
    BY <1>1, <1>2, <1>7 DEF ScriptsInv, Tidy, During
  <2>2. \A k \in DOMAIN list : k < pos + 1 => k < pos \/ k = pos
    <3>1. DOMAIN list \subseteq Nat /\ pos \in Nat
      BY LayoutIs DEF ScriptsInv, ScriptTypes
    <3> QED BY <3>1
  <2> QED BY <1>1, <1>5, <1>6, <1>7, <2>1, <2>2
<1> QED BY <1>1, <1>2, <1>4, <1>7, StopGoesOn

LEMMA DeletedStep ==
  ASSUME ScriptsInv, Scripts!Deleted
  PROVE  ScriptsInv'
<1>1. /\ outcome = "running" /\ target \in {"stop", "clean"} /\ at = "delete" /\ pos > Len(list)
      /\ Scripts!EndStop("ok")
      /\ UNCHANGED <<config, session, env, used, proc, target, list, before, messy>>
  BY DEF Scripts!Deleted, Scripts!Stopping, Scripts!At
<1>2. /\ list' \in Layouts \cup {<<>>} /\ proc' \in [Scripts!Names -> States]
      /\ messy' \in BOOLEAN /\ before \in Net3 /\ pos \in Nat \ {0}
  BY <1>1 DEF ScriptsInv, ScriptTypes, Net3
<1>3. CASE target = "stop"
  <2>1. Scripts!Return("ok")
    BY <1>1, <1>3 DEF Scripts!EndStop
  <2>2. Scripts!Net \in Scripts!Halted(before)
    BY <1>1 DEF ScriptsInv, NetSince, During
  <2>3. Scripts!Result(TRUE, Scripts!Net) \in Scripts!Outcomes(target, before)
    BY <1>2, <1>3, <2>2, NetIs, StopOutcome DEF Net3
  <2> QED BY <1>1, <1>2, <1>3, <2>1, <2>3, Returned
<1>4. CASE target = "clean"
  <2>1. at' = "remove" /\ pos' = 1 /\ UNCHANGED outcome
    BY <1>1, <1>4 DEF Scripts!EndStop, Scripts!Go
  <2>2. ASSUME ~messy' PROVE Scripts!Running' = {}
    <3>1. /\ list = Scripts!SourceFile
          /\ \A k \in DOMAIN list : k < pos => list[k] \notin Scripts!Running
          /\ \A p \in Scripts!Running : \E k \in DOMAIN session : session[k] = p
      BY <1>1, <2>2 DEF ScriptsInv, Tidy, During
    <3>2. CASE session = <<>>
      <4>1. DOMAIN session = {}
        BY <3>2
      <4> QED BY <1>1, <3>1, <4>1, NetUnchanged
    <3>3. CASE session # <<>>
      <4>1. list = session /\ session \in Layouts
        BY <3>1, <3>3 DEF Scripts!SourceFile, Scripts!NoSession, ScriptsInv, ScriptTypes
      <4>2. \A k \in DOMAIN list : k < pos
        BY <1>1, <1>2, <4>1, LayoutIs
      <4> QED BY <1>1, <3>1, <4>1, <4>2, NetUnchanged
    <3> QED BY <3>2, <3>3
  <2> QED BY <1>1, <1>2, <1>4, <2>1, <2>2, StopGoesOn
<1> QED BY <1>1, <1>3, <1>4

LEMMA RemoveStep ==
  ASSUME ScriptsInv, Scripts!Remove
  PROVE  ScriptsInv'
<1>1. /\ outcome = "running" /\ target = "clean" /\ at = "remove"
      /\ Scripts!RemoveData \/ Scripts!RemoveSome
      /\ session' \in {<<>>, session} /\ at' = "end" /\ pos' = 1 /\ outcome' = "ok"
      /\ UNCHANGED <<config, target, list, before, messy>>
  BY DEF Scripts!Remove, Scripts!At, Scripts!Return, Scripts!NoSession
<1>2. /\ Scripts!Net' \in Remade(Scripts!Net) /\ Scripts!Running' = Scripts!Running
      /\ proc' \in [Scripts!Names -> States] /\ env' \in {FALSE, env} /\ used' \in {FALSE, used}
  BY <1>1, NetRemade DEF ScriptsInv
<1>3. ScriptTypes'
  <2>2. ScriptTypes
    BY DEF ScriptsInv
  <2>1. env' \in BOOLEAN /\ used' \in BOOLEAN
    BY <1>2, <2>2 DEF ScriptTypes
  <2>3. outcome' \in {"running", "ok", "failed", "killed"} /\ outcome' # "running"
    BY <1>1
  <2>4. session' \in Layouts \cup {<<>>} /\ pos' \in Nat \ {0}
    BY <1>1, <2>2 DEF ScriptTypes
  <2>5. config' \in Layouts /\ list' \in Layouts \cup {<<>>} /\ messy' \in BOOLEAN
    BY <1>1, <2>2 DEF ScriptTypes
  <2>6. /\ before' \in [data : BOOLEAN, users : SUBSET {"test"}, procs : {"up", "stray", "down"}]
        /\ target' \in {"stop", "clean", "init", "run"}
    BY <1>1, <2>2 DEF ScriptTypes
  <2> QED BY <1>2, <2>1, <2>3, <2>4, <2>5, <2>6, Zenon DEF ScriptTypes
<1>5. NetSince'
  <2>1. Scripts!Net \in Scripts!Halted(before)
    BY <1>1 DEF ScriptsInv, NetSince, During
  <2>2. before \in Net3
    BY DEF ScriptsInv, ScriptTypes, Net3
  <2>3. Scripts!Net'.data \in {FALSE, Scripts!Net.data}
    <3>1. session' # <<>> /\ env' => session # <<>> /\ env
      BY <1>1, <1>2
    <3>2. Scripts!Net.data \in BOOLEAN /\ Scripts!Net'.data \in BOOLEAN
      BY NetIs, NextNetIs DEF Net3
    <3> QED BY <3>1, <3>2, NetIs, NextNetIs
  <2>4. Scripts!Net' \in Scripts!Cleared(Scripts!Net)
    BY <1>2, <2>3 DEF Remade, Scripts!Cleared
  <2>5. Scripts!Result(TRUE, Scripts!Net') \in Scripts!Outcomes("clean", before)
    BY <2>1, <2>2, <2>4, StopOutcome
  <2> QED BY <1>1, <2>5 DEF NetSince, During
<1>6. Starting'
  BY <1>1 DEF Starting, During
<1>7. ~messy' => Tidy'
  <2>1. ~messy => Scripts!Running = {}
    BY <1>1 DEF ScriptsInv, Tidy, During
  <2> QED BY <1>1, <1>2, <2>1 DEF Tidy, During
<1> QED BY <1>3, <1>5, <1>6, <1>7 DEF ScriptsInv

LEMMA GenerateStep ==
  ASSUME ScriptsInv, Scripts!Generate
  PROVE  ScriptsInv'
<1>1. /\ outcome = "running" /\ target = "init" /\ at = "generate"
      /\ at' = "pm2init" /\ pos' = 1
      /\ UNCHANGED <<config, target, list, outcome, before, messy>>
  BY DEF Scripts!Generate, Scripts!At, Scripts!Go
<1>2. /\ Scripts!RemoveData \/ Scripts!RemoveSome
      /\ session' \in {config, session, <<>>}
  BY DEF Scripts!Generate, Scripts!NoSession
<1>3. Scripts!Net = before /\ (~messy => Scripts!Running = {})
  BY <1>1 DEF ScriptsInv, NetSince, Tidy, During
<1>4. /\ Scripts!Net' \in Remade(before) /\ Scripts!Running' = Scripts!Running
      /\ proc' \in [Scripts!Names -> States] /\ session' \in Layouts \cup {<<>>}
      /\ env' \in BOOLEAN /\ used' \in BOOLEAN
  BY <1>2, <1>3, NetRemade DEF ScriptsInv, ScriptTypes
<1>5. ScriptTypes'
  BY <1>1, <1>4 DEF ScriptsInv, ScriptTypes, Places
<1>7. NetSince'
  BY <1>1, <1>4 DEF NetSince, During
<1>8. Starting'
  BY <1>1 DEF Starting, During
<1>9. ~messy' => Tidy'
  BY <1>1, <1>3, <1>4 DEF Tidy, During
<1> QED BY <1>5, <1>7, <1>8, <1>9 DEF ScriptsInv

LEMMA RunInitStep ==
  ASSUME ScriptsInv, Scripts!RunInit
  PROVE  ScriptsInv'
<1>1. /\ outcome = "running" /\ target = "init" /\ at = "pm2init"
      /\ at' = "end" /\ pos' = 1 /\ outcome' \in {"ok", "failed"}
      /\ UNCHANGED <<config, session, used, proc, target, list, before, messy>>
  BY DEF Scripts!RunInit, Scripts!At, Scripts!Return
<1>2. \/ session # <<>> /\ env' = TRUE
      \/ outcome' = "failed" /\ UNCHANGED env
  BY DEF Scripts!RunInit, Scripts!Return, Scripts!NoSession
<1>3. before \in Net3 /\ Scripts!Net \in Remade(before)
  BY <1>1 DEF ScriptsInv, ScriptTypes, NetSince, During, Net3
<1>4. /\ Scripts!Running' = Scripts!Running /\ Scripts!Net'.procs = Scripts!Net.procs
      /\ Scripts!Net'.users = Scripts!Net.users
  BY <1>1 DEF Scripts!Net, Scripts!Running
<1>5. env' \in BOOLEAN
  BY <1>2 DEF ScriptsInv, ScriptTypes
<1>6. ScriptTypes'
  BY <1>1, <1>5 DEF ScriptsInv, ScriptTypes
<1>8. NetSince'
  <2>1. Scripts!Net' \in Remade(before)
    <3>1. Scripts!Net' = [data |-> Scripts!Net'.data, users |-> Scripts!Net'.users, procs |-> Scripts!Net'.procs]
          /\ Scripts!Net'.data \in BOOLEAN
      BY NextNetIs DEF Net3
    <3> QED BY <1>3, <1>4, <3>1 DEF Remade
  <2>2. outcome' = "ok" => Scripts!Net'.data
    BY <1>1, <1>2, NextNetIs
  <2>3. Scripts!Result(outcome' = "ok", Scripts!Net') \in Scripts!Outcomes("init", before)
    <3>1. CASE outcome' = "ok"
      BY <1>3, <2>1, <2>2, <3>1, InitOutcome
    <3>2. CASE outcome' = "failed"
      BY <1>3, <2>1, <3>2, InitOutcome
    <3> QED BY <1>1, <3>1, <3>2
  <2> QED BY <1>1, <2>3 DEF NetSince, During
<1>9. Starting'
  BY <1>1 DEF Starting, During
<1>10. ~messy' => Tidy'
  <2>1. ~messy => Scripts!Running = {}
    BY <1>1 DEF ScriptsInv, Tidy, During
  <2> QED BY <1>1, <1>4, <2>1 DEF Tidy, During
<1> QED BY <1>6, <1>8, <1>9, <1>10 DEF ScriptsInv

\* make run goes on: nodes of the session are started, on its data
LEMMA RunGoesOn ==
  ASSUME ScriptsInv, outcome = "running", target = "run", env, session # <<>>,
         UNCHANGED <<config, session, env, used, target, outcome, before, messy>>,
         at' \in {"start", "await", "ready"}, pos' \in Nat \ {0}, list' = session,
         proc' \in [Scripts!Names -> States],
         \A p \in Scripts!Names : proc'[p] \in {"current", "removed"} =>
           \/ proc'[p] = proc[p]
           \/ proc'[p] = "current" /\ \E k \in DOMAIN session : session[k] = p,
         Starting'
  PROVE  ScriptsInv'
<1>1. Scripts!Net'.data = Scripts!Net.data /\ Scripts!Net'.users = Scripts!Net.users
  BY DEF Scripts!Net
<1>2. ScriptTypes'
  <2>1. session \in Layouts \cup {<<>>}
    BY DEF ScriptsInv, ScriptTypes
  <2> QED BY <2>1 DEF ScriptsInv, ScriptTypes, Places
<1>4. NetSince'
  <2>1. <<target, at>> \in Places /\ before \in Net3
    BY DEF ScriptsInv, ScriptTypes, Net3
  <2>2. at \in {"check", "start", "await", "ready"}
    BY <2>1 DEF Places
  <2>3. /\ Scripts!Net.data = before.data /\ Scripts!Net.users = before.users
        /\ Scripts!Net.data = TRUE
    <3>1. Scripts!Net.data = before.data /\ Scripts!Net.users = before.users
      BY <2>2 DEF ScriptsInv, NetSince, During
    <3>2. Scripts!Net.data = (session # <<>> /\ env)
      BY NetIs
    <3>3. env = TRUE
      BY DEF ScriptsInv, ScriptTypes
    <3> QED BY <3>1, <3>2, <3>3
  <2> QED BY <1>1, <2>3 DEF NetSince, During
<1>5. ~messy' => Tidy'
  <2>1. ~messy => \A p \in Scripts!Running :
          proc[p] = "current" /\ \E k \in DOMAIN session : session[k] = p
    BY DEF ScriptsInv, Tidy
  <2>2. ~messy' => \A p \in Scripts!Running' :
          proc'[p] = "current" /\ \E k \in DOMAIN session' : session'[k] = p
    BY <2>1 DEF Scripts!Running
  <2> QED BY <2>2 DEF Tidy, During
<1> QED BY <1>2, <1>4, <1>5 DEF ScriptsInv

\* make run gives up
LEMMA RunFails ==
  ASSUME ScriptsInv, outcome = "running", target = "run", Scripts!Return("failed"),
         UNCHANGED <<config, session, env, used, proc, target, list, before, messy>>
  PROVE  ScriptsInv'
<1>1. /\ list' \in Layouts \cup {<<>>} /\ messy' \in BOOLEAN /\ before \in Net3
      /\ <<target, at>> \in Places
  BY DEF ScriptsInv, ScriptTypes, Net3
<1>2. at \in {"check", "start", "await", "ready"}
  BY <1>1 DEF Places
<1>3. /\ Scripts!Net.data = before.data /\ Scripts!Net.users = before.users
      /\ before.data \/ Scripts!Net \in Scripts!Halted(before)
  BY <1>2 DEF ScriptsInv, NetSince, During
<1>4. Scripts!Result(FALSE, Scripts!Net) \in Scripts!Outcomes(target, before)
  BY <1>1, <1>3, NetIs, RunOutcome
<1> QED BY <1>1, <1>4, Returned

LEMMA CheckStep ==
  ASSUME ScriptsInv, Scripts!Check
  PROVE  ScriptsInv'
<1>1. /\ outcome = "running" /\ target = "run" /\ at = "check"
      /\ UNCHANGED <<config, session, env, used, proc, target, before, messy>>
  BY DEF Scripts!Check, Scripts!At
<1>2. CASE Scripts!Return("failed") /\ UNCHANGED list
  BY <1>1, <1>2, RunFails
<1>3. CASE session # <<>> /\ env /\ list' = session /\ Scripts!Go("start")
  <2>1. at' = "start" /\ pos' = 1 /\ UNCHANGED outcome
    BY <1>3 DEF Scripts!Go
  <2>2. session \in Layouts
    BY <1>3 DEF ScriptsInv, ScriptTypes
  <2>3. \A k \in DOMAIN session : ~(k < 1)
    BY <2>2, LayoutIs
  <2>4. Starting'
    BY <1>1, <1>3, <2>1, <2>3 DEF Starting, During
  <2>5. proc' \in [Scripts!Names -> States] /\ pos' \in Nat \ {0}
    BY <1>1, <2>1 DEF ScriptsInv, ScriptTypes
  <2> QED BY <1>1, <1>3, <2>1, <2>4, <2>5, RunGoesOn
<1> QED BY <1>2, <1>3 DEF Scripts!Check, Scripts!NoSession

\* the nodes that are started, and where
LEMMA StartingIs ==
  ASSUME ScriptsInv, outcome = "running", target = "run", at \in {"start", "await", "ready"}
  PROVE  /\ list = session /\ session # <<>> /\ session \in Layouts /\ env
         /\ DOMAIN list = 1..Len(list) /\ Len(list) \in Nat \ {0} /\ pos \in Nat \ {0}
         /\ \A k \in DOMAIN list : list[k] \in Scripts!Names
         /\ proc \in [Scripts!Names -> States]
<1>1. list = session /\ session # <<>> /\ env
  BY DEF ScriptsInv, Starting, During
<1>2. session \in Layouts /\ pos \in Nat \ {0} /\ proc \in [Scripts!Names -> States]
  BY <1>1 DEF ScriptsInv, ScriptTypes
<1> QED BY <1>1, <1>2, LayoutIs

LEMMA StartNextStep ==
  ASSUME ScriptsInv, Scripts!StartNext
  PROVE  ScriptsInv'
<1>1. /\ outcome = "running" /\ target = "run" /\ at = "start" /\ pos <= Len(list)
      /\ UNCHANGED <<config, session, env, used, target, list, before, messy>>
  BY DEF Scripts!StartNext, Scripts!At
<1>2. CASE Scripts!Return("failed") /\ UNCHANGED proc
  BY <1>1, <1>2, RunFails
<1>3. ASSUME NEW s \in {"current", "stopped"}, proc' = [proc EXCEPT ![list[pos]] = s],
             at' = "await", UNCHANGED <<pos, outcome>>
      PROVE  ScriptsInv'
  <2>1. /\ list = session /\ session # <<>> /\ session \in Layouts /\ env
        /\ DOMAIN list = 1..Len(list) /\ Len(list) \in Nat \ {0} /\ pos \in Nat \ {0}
        /\ proc \in [Scripts!Names -> States]
        /\ \A k \in DOMAIN list : list[k] \in Scripts!Names
    BY <1>1, StartingIs
  <2>2. pos \in DOMAIN list
    BY <1>1, <2>1
  <2>3. proc' \in [Scripts!Names -> States]
    BY <1>3, <2>1 DEF States
  <2>4. \A k \in DOMAIN list : k < pos => proc[list[k]] \in {"current", "stopped"}
    BY <1>1 DEF ScriptsInv, Starting, During
  <2>5. \A k \in DOMAIN list : k <= pos => proc'[list[k]] \in {"current", "stopped"}
    BY <1>3, <2>1, <2>4
  <2>6. Starting'
    BY <1>1, <1>3, <2>1, <2>2, <2>5 DEF Starting, During
  <2>7. \A p \in Scripts!Names : proc'[p] \in {"current", "removed"} =>
          \/ proc'[p] = proc[p]
          \/ proc'[p] = "current" /\ \E k \in DOMAIN session : session[k] = p
    BY <1>3, <2>1, <2>2
  <2> QED BY <1>1, <1>3, <2>1, <2>3, <2>6, <2>7, RunGoesOn
<1> QED BY <1>2, <1>3 DEF Scripts!StartNext

\* the nodes stay what they are, the script goes on to the next one
LEMMA SameNodes ==
  ASSUME ScriptsInv, outcome = "running", target = "run", at \in {"start", "await", "ready"},
         UNCHANGED <<config, session, env, used, proc, target, list, outcome, before, messy>>,
         at' \in {"start", "await", "ready"}, pos' \in Nat \ {0}, Starting'
  PROVE  ScriptsInv'
<1>1. list = session /\ session # <<>> /\ env /\ proc \in [Scripts!Names -> States]
  BY StartingIs
<1> QED BY <1>1, RunGoesOn

LEMMA AwaitRpcStep ==
  ASSUME ScriptsInv, Scripts!AwaitRpc
  PROVE  ScriptsInv'
<1>1. /\ outcome = "running" /\ target = "run" /\ at = "await"
      /\ UNCHANGED <<config, session, env, used, proc, target, list, before, messy>>
  BY DEF Scripts!AwaitRpc, Scripts!At
<1>2. CASE Scripts!Return("failed")
  BY <1>1, <1>2, RunFails
<1>3. CASE at' = "start" /\ pos' = pos + 1 /\ UNCHANGED outcome
  <2>1. /\ list = session /\ session # <<>> /\ env
        /\ DOMAIN list = 1..Len(list) /\ Len(list) \in Nat \ {0} /\ pos \in Nat \ {0}
    BY <1>1, StartingIs
  <2>2. \A k \in DOMAIN list : k <= pos => proc[list[k]] \in {"current", "stopped"}
    BY <1>1 DEF ScriptsInv, Starting, During
  <2>3. \A k \in DOMAIN list : k < pos + 1 => proc[list[k]] \in {"current", "stopped"}
    BY <2>1, <2>2
  <2>4. Starting'
    BY <1>1, <1>3, <2>1, <2>3 DEF Starting, During
  <2>5. pos' \in Nat \ {0}
    BY <1>3, <2>1
  <2> QED BY <1>1, <1>3, <2>4, <2>5, SameNodes
<1> QED BY <1>2, <1>3 DEF Scripts!AwaitRpc

LEMMA AllOnlineStep ==
  ASSUME ScriptsInv, Scripts!AllOnline
  PROVE  ScriptsInv'
<1>1. /\ outcome = "running" /\ target = "run" /\ at = "start" /\ pos > Len(list)
      /\ UNCHANGED <<config, session, env, used, proc, target, list, before, messy>>
  BY DEF Scripts!AllOnline, Scripts!At
<1>2. CASE Scripts!Return("failed")
  BY <1>1, <1>2, RunFails
<1>3. CASE Scripts!Go("ready")
  <2>1. at' = "ready" /\ pos' = 1 /\ UNCHANGED outcome
    BY <1>3 DEF Scripts!Go
  <2>2. /\ list = session /\ session # <<>> /\ env
        /\ DOMAIN list = 1..Len(list) /\ Len(list) \in Nat \ {0} /\ pos \in Nat \ {0}
    BY <1>1, StartingIs
  <2>3. \A k \in DOMAIN list : k < pos => proc[list[k]] \in {"current", "stopped"}
    BY <1>1 DEF ScriptsInv, Starting, During
  <2>4. \A k \in DOMAIN list : proc[list[k]] \in {"current", "stopped"} /\ ~(k < 1)
    BY <1>1, <2>2, <2>3
  <2>5. Starting'
    BY <1>1, <2>1, <2>2, <2>4 DEF Starting, During
  <2> QED BY <1>1, <2>1, <2>5, SameNodes
<1> QED BY <1>2, <1>3 DEF Scripts!AllOnline

LEMMA ReadyNextStep ==
  ASSUME ScriptsInv, Scripts!ReadyNext
  PROVE  ScriptsInv'
<1>1. /\ outcome = "running" /\ target = "run" /\ at = "ready" /\ pos <= Len(list)
      /\ UNCHANGED <<config, session, env, used, proc, target, list, before, messy>>
  BY DEF Scripts!ReadyNext, Scripts!At
<1>2. CASE Scripts!Return("failed")
  BY <1>1, <1>2, RunFails
<1>3. CASE Scripts!Answers(list[pos]) /\ pos' = pos + 1 /\ UNCHANGED <<at, outcome>>
  <2>1. /\ list = session /\ session # <<>> /\ env
        /\ DOMAIN list = 1..Len(list) /\ Len(list) \in Nat \ {0} /\ pos \in Nat \ {0}
    BY <1>1, StartingIs
  <2>2. \A k \in DOMAIN list : /\ proc[list[k]] \in {"current", "stopped"}
                               /\ k < pos => proc[list[k]] = "current"
    BY <1>1 DEF ScriptsInv, Starting, During
  <2>3. proc[list[pos]] = "current"
    BY <1>1, <1>3, <2>1, <2>2 DEF Scripts!Answers
  <2>4. \A k \in DOMAIN list : k < pos + 1 => proc[list[k]] = "current"
    <3>1. \A k \in DOMAIN list : k < pos + 1 => k < pos \/ k = pos
      BY <2>1
    <3> QED BY <2>2, <2>3, <3>1
  <2>5. Starting'
    BY <1>1, <1>3, <2>1, <2>2, <2>4 DEF Starting, During
  <2>6. pos' \in Nat \ {0}
    BY <1>3, <2>1
  <2> QED BY <1>1, <1>3, <2>5, <2>6, SameNodes
<1> QED BY <1>2, <1>3 DEF Scripts!ReadyNext

LEMMA AllReadyStep ==
  ASSUME ScriptsInv, Scripts!AllReady
  PROVE  ScriptsInv'
<1>1. /\ outcome = "running" /\ target = "run" /\ at = "ready" /\ pos > Len(list)
      /\ UNCHANGED <<config, session, env, used, proc, target, list, before, messy>>
  BY DEF Scripts!AllReady, Scripts!At
<1>2. CASE Scripts!Return("failed")
  BY <1>1, <1>2, RunFails
<1>3. CASE Scripts!Return("ok")
  <2>1. /\ list = session /\ session # <<>> /\ session \in Layouts /\ env
        /\ DOMAIN list = 1..Len(list) /\ Len(list) \in Nat \ {0} /\ pos \in Nat \ {0}
        /\ \A k \in DOMAIN list : list[k] \in Scripts!Names
    BY <1>1, StartingIs
  <2>2. \A k \in DOMAIN list : k < pos => proc[list[k]] = "current"
    BY <1>1 DEF ScriptsInv, Starting, During
  <2>3. \A k \in DOMAIN session : proc[session[k]] = "current"
    BY <1>1, <2>1, <2>2
  <2>4. Scripts!Net.procs = "up"
    <3>1. 1 \in DOMAIN list
      BY <2>1
    <3> QED BY <2>1, <2>3, <3>1, NetIs
  <2>5. Scripts!Net.data = before.data /\ Scripts!Net.users = before.users
    BY <1>1 DEF ScriptsInv, NetSince, During
  <2>6. before \in Net3 /\ Scripts!Net \in Net3
    BY NetIs DEF ScriptsInv, ScriptTypes, Net3
  <2>7. Scripts!Net.data = TRUE
    <3>1. Scripts!Net.data = (session # <<>> /\ env)
      BY NetIs
    <3>2. env = TRUE
      BY <2>1 DEF ScriptsInv, ScriptTypes
    <3> QED BY <2>1, <3>1, <3>2
  <2>8. Scripts!Result(TRUE, Scripts!Net) \in Scripts!Outcomes(target, before)
    BY <1>1, <2>4, <2>5, <2>6, <2>7, RunOutcome
  <2>9. list' \in Layouts \cup {<<>>} /\ messy' \in BOOLEAN
    BY <1>1 DEF ScriptsInv, ScriptTypes
  <2> QED BY <1>1, <1>3, <2>3, <2>8, <2>9, Returned
<1> QED BY <1>2, <1>3 DEF Scripts!AllReady

LEMMA DiesStep ==
  ASSUME ScriptsInv, NEW p \in Scripts!Names, Scripts!Dies(p)
  PROVE  ScriptsInv'
<1>1. /\ outcome = "running" /\ target = "run" /\ proc[p] = "current"
      /\ at = "ready" => \E k \in pos..Len(list) : list[k] = p
      /\ proc' = [proc EXCEPT ![p] = "stopped"]
      /\ UNCHANGED <<config, session, env, used, target, at, list, pos, outcome, before, messy>>
  BY DEF Scripts!Dies
<1>2. /\ <<target, at>> \in Places /\ proc \in [Scripts!Names -> States] /\ env \in BOOLEAN
      /\ session \in Layouts \cup {<<>>}
  BY <1>1 DEF ScriptsInv, ScriptTypes
<1>3. at \in {"check", "start", "await", "ready"}
  BY <1>1, <1>2 DEF Places
<1>4. proc' \in [Scripts!Names -> States]
  BY <1>1, <1>2 DEF States
<1>6. ScriptTypes'
  BY <1>1, <1>4 DEF ScriptsInv, ScriptTypes
<1>8. Scripts!Net' \in Scripts!Halted(Scripts!Net) /\ Scripts!Running' \subseteq Scripts!Running
  BY <1>1, <1>2, NetShrinks
<1>9. NetSince'
  <2>1. before \in Net3
    BY DEF ScriptsInv, ScriptTypes, Net3
  <2>2. /\ before.data = Scripts!Net.data /\ Scripts!Net.users = before.users
        /\ ~before.data => at = "check" /\ Scripts!Net \in Scripts!Halted(before)
    BY <1>1, <1>3 DEF ScriptsInv, NetSince, During
  <2>3. Scripts!Net'.data = Scripts!Net.data /\ Scripts!Net'.users = Scripts!Net.users
    BY <1>8, NetIs, HaltedIs
  <2>4. ~before.data => Scripts!Net' \in Scripts!Halted(before)
    BY <1>8, <2>1, <2>2, HaltedIs
  <2> QED BY <1>1, <2>2, <2>3, <2>4 DEF NetSince, During
<1>10. Starting'
  <2>1. CASE at = "check"
    BY <1>1, <2>1 DEF Starting, During
  <2>2. CASE at = "ready"
    <3>1. /\ list = session /\ session \in Layouts /\ env /\ session # <<>>
          /\ DOMAIN list = 1..Len(list) /\ Len(list) \in Nat \ {0} /\ pos \in Nat \ {0}
          /\ \A k \in DOMAIN list : list[k] \in Scripts!Names
      BY <1>1, <2>2, StartingIs
    <3>2. \A k \in DOMAIN list : /\ proc[list[k]] \in {"current", "stopped"}
                                 /\ k < pos => proc[list[k]] = "current"
      BY <1>1, <2>2 DEF ScriptsInv, Starting, During
    <3>3. PICK j \in pos..Len(list) : list[j] = p
      BY <1>1, <2>2
    <3>4. j \in DOMAIN list /\ j >= pos /\ j \in Nat
      BY <3>1, <3>3
    <3>5. \A k \in DOMAIN list : k < pos => k # j
      BY <3>1, <3>4
    <3>6. \A k \in DOMAIN list : k < pos => list[k] # p
      BY <3>1, <3>3, <3>4, <3>5, LayoutIs
    <3>7. \A k \in DOMAIN list : /\ proc'[list[k]] \in {"current", "stopped"}
                                 /\ k < pos => proc'[list[k]] = "current"
      BY <1>1, <1>2, <3>1, <3>2, <3>6
    <3> QED BY <1>1, <2>2, <3>1, <3>7 DEF Starting, During
  <2>3. CASE at \in {"start", "await"}
    <3>1. /\ list = session /\ session # <<>> /\ env
          /\ \A k \in DOMAIN list : list[k] \in Scripts!Names
      BY <1>1, <2>3, StartingIs
    <3>2. /\ at = "start" =>
               \A k \in DOMAIN list : k < pos => proc'[list[k]] \in {"current", "stopped"}
          /\ at = "await" =>
               /\ pos \in DOMAIN list
               /\ \A k \in DOMAIN list : k <= pos => proc'[list[k]] \in {"current", "stopped"}
      BY <1>1, <1>2, <3>1 DEF ScriptsInv, Starting, During
    <3> QED BY <1>1, <2>3, <3>1, <3>2 DEF Starting, During
  <2> QED BY <1>3, <2>1, <2>2, <2>3
<1>11. ~messy' => Tidy'
  <2>1. ~messy => \A q \in Scripts!Running' :
          proc'[q] = "current" /\ \E k \in DOMAIN session : session[k] = q
    BY <1>1, <1>2, <1>8 DEF ScriptsInv, Tidy, Scripts!Running
  <2> QED BY <1>1, <2>1 DEF Tidy, During
<1> QED BY <1>6, <1>9, <1>10, <1>11 DEF ScriptsInv

LEMMA ScriptsStutter ==
  ASSUME ScriptsInv, UNCHANGED Scripts!vars
  PROVE  ScriptsInv'
<1>1. UNCHANGED <<config, session, env, used, proc, target, at, list, pos, outcome, before, messy>>
  BY DEF Scripts!vars
<1>2. Scripts!Net' = Scripts!Net /\ Scripts!Running' = Scripts!Running
  BY <1>1, NetUnchanged
<1>3. ScriptTypes'
  BY <1>1 DEF ScriptsInv, ScriptTypes
<1>4. NetSince'
  BY <1>1, <1>2 DEF ScriptsInv, NetSince, During
<1>5. Starting'
  BY <1>1 DEF ScriptsInv, Starting, During
<1>6. ~messy' => Tidy'
  BY <1>1, <1>2 DEF ScriptsInv, Tidy, During, Scripts!SourceFile
<1> QED BY <1>3, <1>4, <1>5, <1>6 DEF ScriptsInv

(***************************************************************************)
(* The make targets do to the network what MakeTargets, and so the CI      *)
(* runner, takes them to do, for any layouts and however often they change *)
(* and commands fail: a command that returns has one of its outcomes, a    *)
(* killed one has done part of it, after a run that succeeds every node of *)
(* the session is up, and no other one runs, unless pm2 failed to stop it  *)
(* or make init was called over it.                                        *)
(***************************************************************************)
THEOREM TargetsKeepTheirWord == Scripts!Spec => []Scripts!NetworkTrue
<1>1. ScriptsInv => Scripts!NetworkTrue
  BY DEF ScriptsInv, NetSince, Starting, Tidy, Scripts!NetworkTrue
<1>2. Scripts!Init => ScriptsInv
  BY ScriptsInit
<1>3. ScriptsInv /\ [Scripts!Next]_(Scripts!vars) => ScriptsInv'
  BY CallStep, KillStep, CannotStopStep, StopKnownStep, DeleteKnownStep, DeletedStep, RemoveStep,
     GenerateStep, RunInitStep, CheckStep, StartNextStep, AwaitRpcStep, AllOnlineStep,
     ReadyNextStep, AllReadyStep, DiesStep, ScriptsStutter
     DEF Scripts!Next
<1> QED BY <1>1, <1>2, <1>3, PTL DEF Scripts!Spec

-----------------------------------------------------------------------------
(***************************************************************************)
(* HeadEvidence.                                                           *)
(***************************************************************************)
Left == window.survivors[1]
Right == window.survivors[2]
Below == window.height - 1

Blocks == {b \in [height : 1..Heads!Top, rank : Nat \ {0}] : b.rank <= Siblings[b.height]}

\* a node that sat on y may sit on x later
Ahead(x, y) == x.height > y.height \/ (x.height = y.height /\ x.rank >= y.rank)

RightWindow ==
  /\ window.target \in Heads!Nodes /\ window.survivors = Heads!OtherValidators(window.target)
  /\ window.height \in Nat /\ Below \in 1..Heads!Top
  /\ window.target = case.contract[case.signers[(window.height % 3) + 1]]

HeadTypes ==
  /\ case \in Cases /\ head \in [Heads!Nodes -> Blocks]
  /\ read \in Seq(Blocks \cup {Heads!NoSample}) /\ Len(read) <= Len(Heads!ObserveHeads)
  /\ \A q \in DOMAIN read :
       read[q] # Heads!NoSample => Ahead(head[Heads!ObserveHeads[q]], read[q])
  /\ good \in Nat /\ errors \in Nat
  /\ seen \in [probes : Nat, split : Nat, agreed : Nat, missing : BOOLEAN, advanced : BOOLEAN]

Hunting == {"search", "confirm", "probe", "stop"}

Phases ==
  /\ work \in Hunting \cup {"post", "judge", "restart", "over"}
  /\ work \in {"confirm", "probe", "stop", "post", "judge", "restart"} => RightWindow
  /\ work \in Hunting => stopped = 0 /\ seen = Heads!Unseen
  /\ work \in Hunting \cup {"post"} => class = "" /\ evidence = <<>>
  /\ work \in {"search", "confirm"} => good = 0
  /\ work = "stop" => good = Probes /\ read = <<>>
  /\ work = "over" /\ errors = 0 => stopped = 0

\* readings in which the survivors seemed to sit on siblings
Readings ==
  IF work = "confirm" THEN 0
  ELSE IF work \in {"probe", "stop"} THEN good + 1 ELSE seen.split

(***************************************************************************)
(* What follows for two survivors that never sat on siblings at the same   *)
(* moment, when r readings seemed to show that they do: they left a block  *)
(* for the next one in every reading.                                      *)
(***************************************************************************)
Equal ==
  head[Left].height = Below /\ head[Right].height = Below => head[Left].rank = head[Right].rank
There(r) == r >= 1 => head[Left].height >= Below /\ head[Right].height >= Below
High(r) ==
  head[Left].height <= Below /\ head[Right].height <= Below =>
    \A n \in {Left, Right} : head[n].height = Below => head[n].rank >= r + 1
Enough(r) == r >= 1 => Siblings[Below] >= r + 1

\* in the reading that goes on, one of them has been asked
Half(r) ==
  r >= 1 => \A a, b \in {Left, Right} : \A q \in DOMAIN read :
    /\ a # b /\ Heads!ObserveHeads[q] = a /\ read[q].height = Below /\ head[b].height = Below
    /\ \A p \in DOMAIN read : Heads!ObserveHeads[p] # b
    => read[q].rank >= r + 1 /\ head[b].rank >= read[q].rank
\* both have been asked
Both(r) ==
  \A p, q \in DOMAIN read :
    /\ {Heads!ObserveHeads[p], Heads!ObserveHeads[q]} = {Left, Right}
    /\ read[p].height = Below /\ read[q].height = Below
    => read[p].rank >= r + 1

Together(r) == Equal /\ There(r) /\ High(r) /\ Enough(r) /\ Half(r) /\ Both(r)

Apart ==
  work \in {"confirm", "probe", "stop", "post"} /\ ~Heads!ReallySplit =>
    \A r \in Nat : r = Readings => Together(r)

Said == class = "still_split_same_height" => Heads!ReallySplit

Kept ==
  evidence # <<>> =>
    \A n \in DOMAIN evidence.lines, k \in {"competing", "recently"} :
      /\ Heads!ToSet(evidence.lines[n][k]) = Heads!LastLines(case.logs[n], k)
      /\ evidence.lines[n][k] # <<>> => k \in evidence.observed

HeadsInv == HeadTypes /\ Phases /\ Apart /\ Said /\ Kept

LEMMA AskedIs ==
  /\ Heads!ObserveHeads \in Seq(Heads!Nodes) /\ Len(Heads!ObserveHeads) \in Nat
  /\ DOMAIN Heads!ObserveHeads = 1..Len(Heads!ObserveHeads)
  /\ \A i \in 1..Len(Heads!ObserveHeads) : Heads!ObserveHeads[i] \in Heads!Nodes
  /\ \A i, j \in 1..Len(Heads!ObserveHeads) : Heads!ObserveHeads[i] = Heads!ObserveHeads[j] => i = j
<1>1. Heads!ObserveHeads = Uniques(Urls)
  BY DEF Heads!ObserveHeads, Uniques, Heads!ToSet, ToSet
<1>2. Urls \in Seq(Heads!Nodes)
  <2>1. 1..3 = Heads!Nodes
    BY DEF Heads!Nodes
  <2> QED BY <2>1, HeadsAssumption
<1> DEFINE u == Uniques(Urls)
<1>3. u \in Seq(Heads!Nodes) /\ \A i, j \in DOMAIN u : u[i] = u[j] => i = j
  BY <1>2, UniquesIs
<1> HIDE DEF u
<1>4. Len(u) \in Nat /\ DOMAIN u = 1..Len(u) /\ \A i \in 1..Len(u) : u[i] \in Heads!Nodes
  BY <1>3
<1>5. Heads!ObserveHeads = u
  BY <1>1 DEF u
<1> QED BY <1>3, <1>4, <1>5

LEMMA BlockIs ==
  /\ Heads!Top \in Nat \ {0}
  /\ \A h \in 1..Heads!Top : Siblings[h] \in Nat \ {0} /\ Siblings[h] <= Probes + 1 /\ Siblings[h] <= MinSplits
  /\ \A b \in Blocks : /\ b.height \in 1..Heads!Top /\ b.height \in Nat \ {0} /\ b.rank \in Nat \ {0}
                       /\ b.rank <= Siblings[b.height] /\ b # Heads!NoSample
  /\ Heads!NoSample.height = 0
<1>1. Heads!Top \in Nat \ {0} /\ DOMAIN Siblings = 1..Heads!Top
  BY HeadsAssumption DEF Heads!Top
<1>2. \A h \in 1..Heads!Top : Siblings[h] \in Nat \ {0}
  BY HeadsAssumption, <1>1
<1>3. \A b \in Blocks : /\ b.height \in 1..Heads!Top /\ b.rank \in Nat \ {0}
                        /\ b.rank <= Siblings[b.height]
  BY DEF Blocks
<1>4. \A b \in Blocks : b.height \in Nat \ {0} /\ b # Heads!NoSample
  BY <1>1, <1>3 DEF Heads!NoSample
<1> QED BY <1>1, <1>2, <1>3, <1>4, HeadsAssumption DEF Heads!NoSample

LEMMA SurvivorsAre ==
  ASSUME NEW t
  PROVE  /\ Len(Heads!OtherValidators(t)) = 2 => t \in Heads!Nodes
         /\ t \in Heads!Nodes =>
              LET s == Heads!OtherValidators(t)
              IN  s[1] \in Heads!Nodes /\ s[2] \in Heads!Nodes /\ s[1] < s[2] /\ Len(s) = 2
<1>1. CASE t = 1
  BY <1>1 DEF Heads!OtherValidators, Heads!Nodes
<1>2. CASE t = 2
  BY <1>2 DEF Heads!OtherValidators, Heads!Nodes
<1>3. CASE t = 3
  BY <1>3 DEF Heads!OtherValidators, Heads!Nodes
<1>4. CASE t \notin {1, 2, 3}
  BY <1>4 DEF Heads!OtherValidators, Heads!Nodes
<1> QED BY <1>1, <1>2, <1>3, <1>4

LEMMA LeftRight ==
  ASSUME RightWindow
  PROVE  /\ Left \in Heads!Nodes /\ Right \in Heads!Nodes /\ Left # Right /\ Left < Right
         /\ Below \in 1..Heads!Top /\ Below \in Nat \ {0} /\ Heads!Current(window) = Below
<1>1. Left \in Heads!Nodes /\ Right \in Heads!Nodes /\ Left < Right
  BY SurvivorsAre DEF RightWindow, Left, Right
<1>2. Left # Right
  BY <1>1 DEF Heads!Nodes
<1> QED BY <1>1, <1>2, BlockIs DEF RightWindow, Heads!Current, Below

LEMMA SplitSeen ==
  ASSUME NEW h \in [Heads!Nodes -> Blocks], RightWindow,
         h[Left].height = Below, h[Right].height = Below, h[Left].rank # h[Right].rank
  PROVE  <<<<Left, Right>>, Below>> \in Heads!Pairs(h)
<1> DEFINE p == <<Left, Right>>
<1>1. Left \in Heads!Nodes /\ Right \in Heads!Nodes /\ Left < Right
  BY LeftRight
<1>2. p \in Heads!Nodes \X Heads!Nodes /\ p[1] = Left /\ p[2] = Right
  BY <1>1
<1> HIDE DEF p
<1>3. <<p, h[p[1]].height>> \in Heads!Pairs(h)
  BY <1>1, <1>2 DEF Heads!Pairs
<1>4. <<p, Below>> \in Heads!Pairs(h)
  BY <1>2, <1>3
<1> QED BY <1>4 DEF p
LEMMA Passing ==
  ASSUME NEW x \in Blocks, NEW y \in Blocks, NEW z \in Blocks, Ahead(x, y), Ahead(y, z)
  PROVE  Ahead(x, z)
BY BlockIs DEF Ahead

LEMMA SampleIs ==
  ASSUME NEW n, Heads!Observed, HeadTypes
  PROVE  \/ Heads!FindValidatorHeadSample(n) = Heads!NoSample
         \/ \E q \in DOMAIN read :
              Heads!ObserveHeads[q] = n /\ Heads!FindValidatorHeadSample(n) = read[q]
<1> DEFINE i == {q \in DOMAIN Heads!ObserveHeads : Heads!ObserveHeads[q] = n}
<1>1. DOMAIN read = DOMAIN Heads!ObserveHeads /\ DOMAIN Heads!ObserveHeads \subseteq Nat
  BY AskedIs DEF Heads!Observed, HeadTypes
<1>2. CASE i = {}
  BY <1>2 DEF Heads!FindValidatorHeadSample
<1>3. CASE i # {}
  <2>1. PICK x \in i : \A y \in i : x <= y
    BY <1>1, <1>3, LeastExists
  <2>2. Heads!Min(i) \in i
    BY <2>1 DEF Heads!Min
  <2> QED BY <1>1, <1>3, <2>2 DEF Heads!FindValidatorHeadSample
<1> QED BY <1>2, <1>3

(***************************************************************************)
(* The nodes move, and are asked one after the other.                      *)
(***************************************************************************)
LEMMA MovesAhead ==
  ASSUME HeadTypes, NEW n \in Heads!Nodes, Heads!HeadMoves(n)
  PROVE  /\ head' \in [Heads!Nodes -> Blocks]
         /\ \A m \in Heads!Nodes : Ahead(head'[m], head[m])
<1>1. PICK height \in {head[n].height, head[n].height + 1} \cap 1..Heads!Top :
        \E rank \in 1..Siblings[height] :
          /\ height = head[n].height => rank > head[n].rank
          /\ head' = [head EXCEPT ![n] = [height |-> height, rank |-> rank]]
  BY DEF Heads!HeadMoves
<1>2. PICK rank \in 1..Siblings[height] :
        /\ height = head[n].height => rank > head[n].rank
        /\ head' = [head EXCEPT ![n] = [height |-> height, rank |-> rank]]
  BY <1>1
<1> DEFINE b == [height |-> height, rank |-> rank]
<1>3. Siblings[height] \in Nat \ {0}
  BY BlockIs
<1>4. b \in Blocks
  BY <1>3 DEF Blocks
<1>5. head[n] \in Blocks
  BY DEF HeadTypes
<1>6. Ahead(b, head[n])
  BY <1>1, <1>2, <1>3, <1>5, BlockIs DEF Ahead
<1>7. b \in Blocks /\ Ahead(b, head[n]) /\ head' = [head EXCEPT ![n] = b]
  BY <1>2, <1>4, <1>6
<1> HIDE DEF b
<1>8. head' \in [Heads!Nodes -> Blocks]
  BY <1>7 DEF HeadTypes
<1>9. ASSUME NEW m \in Heads!Nodes PROVE Ahead(head'[m], head[m])
  <2>1. CASE m = n
    BY <1>7, <2>1 DEF HeadTypes
  <2>2. CASE m # n
    <3>1. head'[m] = head[m] /\ head[m] \in Blocks
      BY <1>7, <2>2 DEF HeadTypes
    <3> QED BY <3>1, BlockIs DEF Ahead
  <2> QED BY <2>1, <2>2
<1> QED BY <1>8, <1>9

\* the types of what is read, when the nodes move
LEMMA StillAhead ==
  ASSUME HeadTypes, NEW n \in Heads!Nodes, Heads!HeadMoves(n), NEW q \in DOMAIN read,
         read[q] # Heads!NoSample
  PROVE  Ahead(head'[Heads!ObserveHeads[q]], read[q])
<1>1. Heads!ObserveHeads[q] \in Heads!Nodes
  BY AskedIs DEF HeadTypes
<1>2. read[q] \in Blocks /\ Ahead(head[Heads!ObserveHeads[q]], read[q])
  BY DEF HeadTypes
<1>3. /\ head'[Heads!ObserveHeads[q]] \in Blocks /\ head[Heads!ObserveHeads[q]] \in Blocks
      /\ Ahead(head'[Heads!ObserveHeads[q]], head[Heads!ObserveHeads[q]])
  BY <1>1, MovesAhead DEF HeadTypes
<1> QED BY <1>2, <1>3, Passing

LEMMA MovesTogether ==
  ASSUME HeadTypes, RightWindow, NEW r \in Nat, Together(r), NEW n \in Heads!Nodes,
         Heads!HeadMoves(n), UNCHANGED <<window, read>>, ~Heads!ReallySplit'
  PROVE  Together(r)'
<1>1. /\ Left' = Left /\ Right' = Right /\ Below' = Below
      /\ splits' = splits \cup Heads!Pairs(head')
  BY DEF Left, Right, Below, Heads!HeadMoves
<1>2. /\ Left \in Heads!Nodes /\ Right \in Heads!Nodes /\ Left # Right
      /\ Below \in 1..Heads!Top /\ Below \in Nat \ {0}
  BY LeftRight
<1>3. head' \in [Heads!Nodes -> Blocks] /\ \A m \in Heads!Nodes : Ahead(head'[m], head[m])
  BY MovesAhead
<1>4. \A m \in {Left, Right} :
        /\ head[m] \in Blocks /\ head'[m] \in Blocks /\ Ahead(head'[m], head[m])
        /\ head[m].height \in Nat /\ head'[m].height \in Nat /\ head[m].height <= head'[m].height
        /\ head[m].rank \in Nat \ {0} /\ head'[m].rank \in Nat \ {0}
        /\ head'[m].height = head[m].height => head[m].rank <= head'[m].rank
  <2>1. \A m \in {Left, Right} :
          head[m] \in Blocks /\ head'[m] \in Blocks /\ Ahead(head'[m], head[m])
    BY <1>2, <1>3 DEF HeadTypes
  <2> QED BY <2>1, BlockIs DEF Ahead
<1>5. Equal'
  <2>1. <<<<Left, Right>>, Below>> \notin Heads!Pairs(head')
    <3>1. Heads!Current(window) = Below
      BY LeftRight
    <3> QED BY <1>1, <3>1 DEF Heads!ReallySplit, Heads!Current, Left, Right, Below
  <2> QED BY <1>1, <1>3, <2>1, SplitSeen DEF Equal
<1>6. There(r)'
  BY <1>1, <1>2, <1>4 DEF Together, There
<1>7. High(r)'
  <2> SUFFICES ASSUME head'[Left].height <= Below, head'[Right].height <= Below,
                      NEW m \in {Left, Right}, head'[m].height = Below
               PROVE  head'[m].rank >= r + 1
    BY <1>1 DEF High
  <2>1. head[Left].height <= Below /\ head[Right].height <= Below
    BY <1>2, <1>4
  <2>2. CASE r = 0
    BY <1>4, <2>2
  <2>3. CASE r >= 1
    <3>1. head[m].height = Below
      BY <1>2, <1>4, <2>1, <2>3 DEF Together, There
    <3>2. head[m].rank >= r + 1
      BY <2>1, <3>1 DEF Together, High
    <3> QED BY <1>4, <3>1, <3>2
  <2> QED BY <2>2, <2>3
<1>8. Enough(r)'
  BY <1>1 DEF Together, Enough
<1>9. Half(r)'
  <2> SUFFICES ASSUME r >= 1, NEW a \in {Left, Right}, NEW b \in {Left, Right}, NEW q \in DOMAIN read,
                      a # b, Heads!ObserveHeads[q] = a, read[q].height = Below,
                      head'[b].height = Below, \A p \in DOMAIN read : Heads!ObserveHeads[p] # b
               PROVE  read[q].rank >= r + 1 /\ head'[b].rank >= read[q].rank
    BY <1>1 DEF Half
  <2>1. head[b].height = Below
    <3>1. head[b].height >= Below
      BY DEF Together, There
    <3> QED BY <1>2, <1>4, <3>1
  <2>2. read[q].rank >= r + 1 /\ head[b].rank >= read[q].rank
    BY <2>1 DEF Together, Half
  <2>3. read[q].rank \in Nat
    <3>1. read[q] \in Blocks \cup {Heads!NoSample}
      BY DEF HeadTypes
    <3> QED BY <3>1, BlockIs DEF Heads!NoSample
  <2> QED BY <1>4, <2>1, <2>2, <2>3
<1>10. Both(r)'
  BY <1>1 DEF Together, Both
<1> QED BY <1>5, <1>6, <1>7, <1>8, <1>9, <1>10 DEF Together

\* the answer of the node that is asked next, or none
LEMMA Asks ==
  ASSUME HeadTypes, NEW answers \in BOOLEAN, Heads!ObserveRPCHead(answers)
  PROVE  LET q == Len(read) + 1
             n == Heads!ObserveHeads[q]
         IN  /\ q \in DOMAIN Heads!ObserveHeads /\ n \in Heads!Nodes
             /\ \E x \in {head[n], Heads!NoSample} : read' = Append(read, x)
             /\ read' \in Seq(Blocks \cup {Heads!NoSample}) /\ Len(read') <= Len(Heads!ObserveHeads)
             /\ DOMAIN read' = DOMAIN read \cup {q} /\ q \notin DOMAIN read
             /\ DOMAIN read \subseteq DOMAIN Heads!ObserveHeads
             /\ \A p \in DOMAIN read : read'[p] = read[p]
             /\ read'[q] \in {head[n], Heads!NoSample}
<1> DEFINE q == Len(read) + 1
           n == Heads!ObserveHeads[q]
           S == Blocks \cup {Heads!NoSample}
<1>1. Len(read) < Len(Heads!ObserveHeads) /\ read \in Seq(S) /\ Len(read) \in Nat
  BY DEF Heads!ObserveRPCHead, Heads!Observing, HeadTypes
<1>2. q \in DOMAIN Heads!ObserveHeads /\ n \in Heads!Nodes
  BY <1>1, AskedIs
<1>3. PICK x \in {head[n], Heads!NoSample} : read' = Append(read, x)
  BY DEF Heads!ObserveRPCHead
<1>4. x \in S
  BY <1>2, <1>3 DEF HeadTypes
<1> HIDE DEF S
<1>5. /\ read' \in Seq(S) /\ Len(read') = Len(read) + 1
      /\ DOMAIN read' = 1..(Len(read) + 1) /\ DOMAIN read = 1..Len(read)
      /\ \A p \in 1..Len(read) : read'[p] = read[p]
      /\ read'[Len(read) + 1] = x
  BY <1>1, <1>3, <1>4
<1>6. DOMAIN read' = DOMAIN read \cup {q} /\ q \notin DOMAIN read
  BY <1>1, <1>5
<1>7. Len(read') <= Len(Heads!ObserveHeads) /\ DOMAIN read \subseteq DOMAIN Heads!ObserveHeads
  BY <1>1, <1>5, AskedIs
<1> QED BY <1>2, <1>3, <1>5, <1>6, <1>7 DEF S

LEMMA AsksTogether ==
  ASSUME HeadTypes, RightWindow, NEW r \in Nat, Together(r), NEW answers \in BOOLEAN,
         Heads!ObserveRPCHead(answers), UNCHANGED <<window, head>>
  PROVE  Together(r)'
<1> DEFINE q == Len(read) + 1
           n == Heads!ObserveHeads[q]
<1>1. /\ q \in DOMAIN Heads!ObserveHeads /\ n \in Heads!Nodes
      /\ DOMAIN read' = DOMAIN read \cup {q} /\ q \notin DOMAIN read
      /\ DOMAIN read \subseteq DOMAIN Heads!ObserveHeads
      /\ \A p \in DOMAIN read : read'[p] = read[p]
      /\ read'[q] \in {head[n], Heads!NoSample}
  BY Asks
<1>2. Left' = Left /\ Right' = Right /\ Below' = Below
  BY DEF Left, Right, Below
<1>3. /\ Left \in Heads!Nodes /\ Right \in Heads!Nodes /\ Left # Right
      /\ Below \in 1..Heads!Top /\ Below \in Nat \ {0}
  BY LeftRight
<1> HIDE DEF q
<1>4. read'[q].height = Below => read'[q] = head[n]
  BY <1>1, <1>3, BlockIs
<1>5. \A i, j \in DOMAIN Heads!ObserveHeads :
        Heads!ObserveHeads[i] = Heads!ObserveHeads[j] => i = j
  BY AskedIs
<1>6. Half(r)'
  <2> SUFFICES ASSUME r >= 1, NEW a \in {Left, Right}, NEW b \in {Left, Right}, NEW i \in DOMAIN read',
                      a # b, Heads!ObserveHeads[i] = a, read'[i].height = Below,
                      head[b].height = Below, \A p \in DOMAIN read' : Heads!ObserveHeads[p] # b
               PROVE  read'[i].rank >= r + 1 /\ head[b].rank >= read'[i].rank
    BY <1>2 DEF Half
  <2>1. CASE i \in DOMAIN read
    BY <1>1, <2>1 DEF Together, Half
  <2>2. CASE i = q
    <3>1. read'[i] = head[a]
      BY <1>4, <2>2
    <3>2. /\ head[Left].height = Below /\ head[Right].height = Below
          /\ head[Left].rank = head[Right].rank
      BY <3>1 DEF Together, Equal
    <3>3. head[a].rank >= r + 1
      BY <1>3, <3>2 DEF Together, High
    <3>4. head[a].rank \in Nat /\ head[a].rank = head[b].rank
      <4>1. head[a] \in Blocks
        BY <1>3 DEF HeadTypes
      <4> QED BY <3>2, <4>1, BlockIs
    <3> QED BY <3>1, <3>3, <3>4
  <2> QED BY <1>1, <2>1, <2>2
<1>7. Both(r)'
  <2> SUFFICES ASSUME NEW i \in DOMAIN read', NEW j \in DOMAIN read',
                      {Heads!ObserveHeads[i], Heads!ObserveHeads[j]} = {Left, Right},
                      read'[i].height = Below, read'[j].height = Below
               PROVE  read'[i].rank >= r + 1
    BY <1>2 DEF Both
  <2>1. i # j
    BY <1>3
  <2>2. read'[i] \in Blocks
    <3>1. read'[i] \in Blocks \cup {Heads!NoSample}
      <4>1. CASE i = q
        BY <1>1, <4>1 DEF HeadTypes
      <4>2. CASE i \in DOMAIN read
        BY <1>1, <4>2 DEF HeadTypes
      <4> QED BY <1>1, <4>1, <4>2
    <3> QED BY <1>3, <3>1, BlockIs
  <2>3. CASE i \in DOMAIN read /\ j \in DOMAIN read
    BY <1>1, <2>3 DEF Together, Both
  <2>4. CASE r = 0
    BY <2>2, <2>4, BlockIs
  <2>5. ASSUME NEW x \in DOMAIN read, r >= 1, {x, q} = {i, j}
        PROVE  read'[i].rank >= r + 1
    <3>1. PICK a, b \in {Left, Right} :
            a # b /\ Heads!ObserveHeads[x] = a /\ n = b
      <4>1. CASE i = x /\ j = q
        BY <1>3, <4>1
      <4>2. CASE i = q /\ j = x
        BY <1>3, <4>2
      <4> QED BY <2>5, <4>1, <4>2
    <3>2. \A p \in DOMAIN read : Heads!ObserveHeads[p] # b
      BY <1>1, <1>5, <3>1
    <3>3. read[x].height = Below /\ head[b].height = Below /\ read'[q] = head[b]
      <4>1. read'[x].height = Below /\ read'[q].height = Below
        BY <2>5
      <4> QED BY <1>1, <1>4, <3>1, <4>1
    <3>4. read[x].rank >= r + 1 /\ head[b].rank >= read[x].rank
      BY <2>5, <3>1, <3>2, <3>3 DEF Together, Half
    <3>5. read[x].rank \in Nat /\ head[b].rank \in Nat
      <4>1. read[x] \in Blocks \cup {Heads!NoSample} /\ head[b] \in Blocks
        BY <1>3, <3>1 DEF HeadTypes
      <4> QED BY <1>3, <3>3, <4>1, BlockIs
    <3>6. read'[x] = read[x] /\ read'[q] = head[b]
      BY <1>1, <3>3
    <3> QED BY <2>5, <3>4, <3>5, <3>6
  <2>6. CASE r >= 1 /\ i = q /\ j \in DOMAIN read
    BY <2>5, <2>6
  <2>7. CASE r >= 1 /\ j = q /\ i \in DOMAIN read
    BY <2>5, <2>7
  <2> QED BY <1>1, <2>1, <2>3, <2>4, <2>6, <2>7
<1> QED BY <1>2, <1>6, <1>7 DEF Together, Equal, There, High, Enough

(***************************************************************************)
(* A reading that seems to show the survivors on siblings: both have left  *)
(* a block for the other's, or for the one after it.                       *)
(***************************************************************************)
LEMMA OneMore ==
  ASSUME HeadTypes, RightWindow, NEW r \in Nat, Together(r),
         Heads!Observed, Heads!OnSiblings(window)
  PROVE  There(r + 1) /\ High(r + 1) /\ Enough(r + 1)
<1>1. /\ Left \in Heads!Nodes /\ Right \in Heads!Nodes /\ Left # Right
      /\ Below \in 1..Heads!Top /\ Below \in Nat \ {0} /\ Heads!Current(window) = Below
  BY LeftRight
<1> DEFINE x == Heads!FindValidatorHeadSample(Left)
           y == Heads!FindValidatorHeadSample(Right)
<1>2. x.height = Below /\ y.height = Below /\ x.rank # y.rank
  BY <1>1 DEF Heads!OnSiblings, Heads!SampleOf, Left, Right
<1>3. x # Heads!NoSample /\ y # Heads!NoSample
  BY <1>1, <1>2, BlockIs
<1>4. PICK p \in DOMAIN read : Heads!ObserveHeads[p] = Left /\ x = read[p]
  BY <1>3, SampleIs
<1>5. PICK q \in DOMAIN read : Heads!ObserveHeads[q] = Right /\ y = read[q]
  BY <1>3, SampleIs
<1> HIDE DEF x, y
<1>6. x \in Blocks /\ y \in Blocks /\ Ahead(head[Left], x) /\ Ahead(head[Right], y)
  BY <1>3, <1>4, <1>5 DEF HeadTypes
<1>7. /\ x.rank \in Nat \ {0} /\ y.rank \in Nat \ {0}
      /\ x.rank <= Siblings[Below] /\ y.rank <= Siblings[Below]
  BY <1>2, <1>6, BlockIs
<1>8. x.rank >= r + 1 /\ y.rank >= r + 1
  BY <1>2, <1>4, <1>5 DEF Together, Both
<1>9. Siblings[Below] \in Nat
  BY <1>1, BlockIs
<1>10. Enough(r + 1)
  BY <1>2, <1>7, <1>8, <1>9 DEF Enough
<1>11. /\ head[Left] \in Blocks /\ head[Right] \in Blocks
       /\ head[Left].height \in Nat /\ head[Right].height \in Nat
       /\ head[Left].rank \in Nat /\ head[Right].rank \in Nat
  <2>1. head[Left] \in Blocks /\ head[Right] \in Blocks
    BY <1>1 DEF HeadTypes
  <2> QED BY <2>1, BlockIs
<1>12. head[Left].height >= Below /\ head[Right].height >= Below
  BY <1>1, <1>2, <1>6, <1>11 DEF Ahead
<1>13. High(r + 1)
  <2> SUFFICES ASSUME head[Left].height <= Below, head[Right].height <= Below
               PROVE  head[Left].rank >= (r + 1) + 1 /\ head[Right].rank >= (r + 1) + 1
    BY DEF High
  <2>1. head[Left].height = Below /\ head[Right].height = Below
    BY <1>1, <1>11, <1>12
  <2>2. head[Left].rank = head[Right].rank
    BY <2>1 DEF Together, Equal
  <2>3. head[Left].rank >= x.rank /\ head[Right].rank >= y.rank
    BY <1>1, <1>2, <1>6, <1>11, <2>1 DEF Ahead
  <2> QED BY <1>2, <1>7, <1>8, <1>11, <2>2, <2>3
<1> QED BY <1>10, <1>12, <1>13 DEF There

\* the next reading starts
LEMMA NextReading ==
  ASSUME NEW r, Equal, There(r), High(r), Enough(r), UNCHANGED <<head, window>>, read' = <<>>
  PROVE  Together(r)'
<1>1. Left' = Left /\ Right' = Right /\ Below' = Below /\ DOMAIN read' = {}
  BY DEF Left, Right, Below
<1>2. Half(r)' /\ Both(r)'
  BY <1>1 DEF Half, Both
<1> QED BY <1>1, <1>2 DEF Together, Equal, There, High, Enough

\* the moment that readings are counted from
LEMMA FirstReading ==
  HeadTypes /\ RightWindow /\ read = <<>> /\ splits = Heads!Pairs(head) /\ ~Heads!ReallySplit
    => Together(0)
<1> SUFFICES ASSUME HeadTypes, RightWindow, read = <<>>, splits = Heads!Pairs(head),
                    ~Heads!ReallySplit
             PROVE  Together(0)
  OBVIOUS
<1>1. Left \in Heads!Nodes /\ Right \in Heads!Nodes /\ Heads!Current(window) = Below
  BY LeftRight
<1>2. Equal
  <2>1. <<<<Left, Right>>, Below>> \notin Heads!Pairs(head)
    BY <1>1 DEF Heads!ReallySplit, Left, Right
  <2> QED BY <2>1, SplitSeen DEF Equal, HeadTypes
<1>3. There(0) /\ Enough(0) /\ Half(0)
  BY DEF There, Enough, Half
<1>4. High(0)
  <2>1. \A n \in {Left, Right} : head[n] \in Blocks
    BY <1>1 DEF HeadTypes
  <2>2. \A n \in {Left, Right} : head[n].rank \in Nat \ {0}
    BY <2>1, BlockIs
  <2> QED BY <2>2 DEF High
<1>5. Both(0)
  BY DEF Both
<1> QED BY <1>2, <1>3, <1>4, <1>5 DEF Together

(***************************************************************************)
(* The lines of a log.                                                     *)
(***************************************************************************)
LEMMA SizeInHeads == \A S : Heads!Cardinality(S) = Cardinality(S)
BY DEF Heads!Cardinality, Cardinality

\* the lines of one kind after the first ones, so many of them at most
Matching(text, kind, from) == {j \in (from + 1)..Len(text) : text[j] = kind}
LastOf(text, kind, from) ==
  {i \in Matching(text, kind, from) : Cardinality(Matching(text, kind, i)) < MaxLines}

LEMMA MatchingIs ==
  ASSUME NEW text \in Seq(STRING), NEW kind, NEW k \in Nat
  PROVE  IsFiniteSet(Matching(text, kind, k)) /\ Cardinality(Matching(text, kind, k)) \in Nat
<1>1. IsFiniteSet((k + 1)..Len(text))
  BY FS_Interval
<1>2. Matching(text, kind, k) \subseteq (k + 1)..Len(text)
  BY DEF Matching
<1>3. IsFiniteSet(Matching(text, kind, k))
  BY <1>1, <1>2, FS_Subset
<1> QED BY <1>3, FS_CardinalityType

LEMMA LastLinesAre ==
  ASSUME NEW text \in Seq(STRING), NEW kind
  PROVE  Heads!LastLines(text, kind) = LastOf(text, kind, 0)
<1>1. Len(text) \in Nat /\ DOMAIN text = 1..Len(text)
  OBVIOUS
<1>2. \A i \in 1..Len(text) : {j \in DOMAIN text : j > i /\ text[j] = kind} = Matching(text, kind, i)
  BY <1>1 DEF Matching
<1>3. Matching(text, kind, 0) = {i \in DOMAIN text : text[i] = kind}
  BY <1>1 DEF Matching
<1> QED BY <1>1, <1>2, <1>3, SizeInHeads DEF Heads!LastLines, LastOf

\* one line more at the front
LEMMA OneLineMore ==
  ASSUME NEW text \in Seq(STRING), NEW kind, NEW k \in Nat, k + 1 <= Len(text)
  PROVE  /\ text[k + 1] # kind =>
              Matching(text, kind, k) = Matching(text, kind, k + 1) /\ LastOf(text, kind, k) = LastOf(text, kind, k + 1)
         /\ text[k + 1] = kind =>
              /\ Matching(text, kind, k) = Matching(text, kind, k + 1) \cup {k + 1}
              /\ Cardinality(Matching(text, kind, k)) = Cardinality(Matching(text, kind, k + 1)) + 1
              /\ LastOf(text, kind, k) =
                   IF Cardinality(Matching(text, kind, k + 1)) < MaxLines
                   THEN LastOf(text, kind, k + 1) \cup {k + 1} ELSE LastOf(text, kind, k + 1)
<1>1. (k + 1)..Len(text) = ((k + 2)..Len(text)) \cup {k + 1} /\ (k + 1) + 1 = k + 2
  OBVIOUS
<1>2. text[k + 1] # kind => Matching(text, kind, k) = Matching(text, kind, k + 1)
  BY <1>1 DEF Matching
<1>3. text[k + 1] = kind => Matching(text, kind, k) = Matching(text, kind, k + 1) \cup {k + 1}
  BY <1>1 DEF Matching
<1>4. k + 1 \notin Matching(text, kind, k + 1)
  BY DEF Matching
<1>5. IsFiniteSet(Matching(text, kind, k + 1))
  BY MatchingIs
<1>6. Cardinality(Matching(text, kind, k + 1) \cup {k + 1}) = Cardinality(Matching(text, kind, k + 1)) + 1
  BY <1>4, <1>5, FS_AddElement
<1> QED BY <1>2, <1>3, <1>6 DEF LastOf

LEMMA InFront ==
  ASSUME NEW s \in Seq(Nat), NEW i \in Nat
  PROVE  <<i>> \o s \in Seq(Nat) /\ Len(<<i>> \o s) = Len(s) + 1 /\ ToSet(<<i>> \o s) = ToSet(s) \cup {i}
<1> DEFINE t == <<i>> \o s
<1>1. <<i>> \in Seq(Nat) /\ Len(<<i>>) = 1 /\ Len(s) \in Nat
  OBVIOUS
<1>2. /\ t \in Seq(Nat) /\ Len(t) = Len(s) + 1
      /\ \A j \in 1..(Len(s) + 1) : t[j] = IF j = 1 THEN i ELSE s[j - 1]
  BY <1>1
<1> HIDE DEF t
<1>3. ToSet(t) = {t[j] : j \in 1..Len(t)} /\ ToSet(s) = {s[j] : j \in 1..Len(s)}
  BY <1>2, ToSetOf
<1>4. ASSUME NEW x \in ToSet(t) PROVE x \in ToSet(s) \cup {i}
  <2>1. PICK j \in 1..(Len(s) + 1) : x = t[j]
    BY <1>2, <1>3
  <2>2. j # 1 => j - 1 \in 1..Len(s)
    BY <1>1
  <2> QED BY <1>2, <1>3, <2>1, <2>2
<1>5. ASSUME NEW x \in ToSet(s) PROVE x \in ToSet(t)
  <2>1. PICK j \in 1..Len(s) : x = s[j]
    BY <1>3
  <2>2. j + 1 \in 1..(Len(s) + 1) /\ j + 1 # 1 /\ (j + 1) - 1 = j
    BY <1>1
  <2>3. t[j + 1] = x
    BY <1>2, <2>1, <2>2
  <2> QED BY <1>2, <1>3, <2>2, <2>3
<1>6. i \in ToSet(t)
  <2>1. 1 \in 1..(Len(s) + 1)
    BY <1>1
  <2> QED BY <1>2, <1>3, <2>1
<1>7. ToSet(t) = ToSet(s) \cup {i}
  BY <1>4, <1>5, <1>6
<1> QED BY <1>2, <1>7 DEF t

(***************************************************************************)
(* Going through a log from its end, the code keeps the last lines.        *)
(***************************************************************************)
LEMMA TailIs ==
  ASSUME NEW text \in Seq(STRING), NEW kind
  PROVE  Heads!ToSet(Heads!TailMatchingLogLines(text, kind)) = Heads!LastLines(text, kind)
<1> DEFINE L == Len(text)
           At(n) == L - n + 1
           Then(n, prev) == IF text[At(n)] = kind /\ Len(prev) < MaxLines THEN <<At(n)>> \o prev ELSE prev
           Is(f) == f = [n \in 0..L |-> IF n = 0 THEN <<>> ELSE Then(n, f[n - 1])]
           out == CHOOSE f : Is(f)
           then == [n \in 1..L |-> [prev \in Seq(Nat) |-> Then(n, prev)]]
<1>1. L \in Nat /\ MaxLines \in Nat
  BY HeadsAssumption
<1> HIDE DEF L
<1>a. \A n \in 1..L : At(n) \in Nat
  BY <1>1
<1>2. \E f : Is(f)
  <2>1. then \in [1..L -> [Seq(Nat) -> Seq(Nat)]]
    <3>1. \A n \in 1..L : \A prev \in Seq(Nat) : Then(n, prev) \in Seq(Nat)
      <4> HIDE DEF At
      <4> QED BY <1>a, InFront
    <3> HIDE DEF Then
    <3> QED BY <3>1
  <2>2. <<>> \in Seq(Nat)
    OBVIOUS
  <2>3. PICK g \in [0..L -> Seq(Nat)] :
          g[0] = <<>> /\ \A n \in 1..L : g[n] = then[n][g[n - 1]]
    <3> HIDE DEF then
    <3>1. Computed(Seq(Nat), <<>>, L, then)
      BY <1>1, <2>1, <2>2, StepByStep
    <3> QED BY <3>1 DEF Computed
  <2> HIDE DEF Then
  <2>4. ASSUME NEW n \in 1..L PROVE g[n] = Then(n, g[n - 1])
    <3>1. g[n - 1] \in Seq(Nat)
      BY <1>1
    <3>2. then[n][g[n - 1]] = Then(n, g[n - 1])
      BY <3>1
    <3> HIDE DEF then
    <3> QED BY <2>3, <3>2
  <2>5. \A n \in 0..L : g[n] = IF n = 0 THEN <<>> ELSE Then(n, g[n - 1])
    BY <1>1, <2>3, <2>4
  <2>6. Is(g)
    BY <2>5
  <2> QED BY <2>6
<1>3. Is(out)
  BY <1>2
<1>4. out[0] = <<>> /\ \A n \in 1..L : out[n] = Then(n, out[n - 1])
  <2> HIDE DEF Then, out
  <2> QED BY <1>1, <1>3
<1>5. Heads!TailMatchingLogLines(text, kind) = out[L]
  BY DEF Heads!TailMatchingLogLines, L
<1> HIDE DEF out
<1> DEFINE From(n) == Matching(text, kind, L - n)
           Right1(n) == /\ out[n] \in Seq(Nat) /\ ToSet(out[n]) = LastOf(text, kind, L - n)
                        /\ Len(out[n]) = IF Cardinality(From(n)) < MaxLines THEN Cardinality(From(n)) ELSE MaxLines
           T == {n \in Nat : n <= L => Right1(n)}
<1>6. Right1(0)
  <2>1. ToSet(<<>>) = {} /\ <<>> \in Seq(Nat) /\ Len(<<>>) = 0
    BY DEF ToSet
  <2>2. From(0) = {} /\ LastOf(text, kind, L - 0) = {}
    BY <1>1 DEF Matching, LastOf, L
  <2>3. Cardinality(From(0)) = 0
    BY <2>2, FS_EmptySet
  <2>4. ~(0 < MaxLines) => MaxLines = 0
    BY <1>1
  <2> HIDE DEF From, Then
  <2> QED BY <1>4, <2>1, <2>2, <2>3, <2>4
<1>7. ASSUME NEW n \in Nat, n + 1 <= L, Right1(n) PROVE Right1(n + 1)
  <2> DEFINE k == L - (n + 1)
             u == out[n]
             v == out[n + 1]
             c == Cardinality(Matching(text, kind, k + 1))
  <2>1. /\ n + 1 \in 1..L /\ (n + 1) - 1 = n /\ k \in Nat /\ k + 1 = L - n /\ k + 1 <= L
        /\ At(n + 1) = k + 1
    BY <1>1, <1>7
  <2>2. v = Then(n + 1, u)
    <3> HIDE DEF Then
    <3> QED BY <1>4, <2>1
  <2>3. v = IF text[k + 1] = kind /\ Len(u) < MaxLines THEN <<k + 1>> \o u ELSE u
    BY <2>1, <2>2
  <2>4. /\ u \in Seq(Nat) /\ ToSet(u) = LastOf(text, kind, k + 1)
        /\ Len(u) = IF c < MaxLines THEN c ELSE MaxLines
    BY <1>7, <2>1
  <2>5. c \in Nat
    BY <2>1, MatchingIs
  <2> HIDE DEF u, v, k, c, Then, At
  <2>6. Len(u) < MaxLines <=> c < MaxLines
    BY <1>1, <2>4, <2>5
  <2>7. CASE text[k + 1] # kind
    <3>1. /\ v = u /\ LastOf(text, kind, k) = LastOf(text, kind, k + 1)
          /\ Matching(text, kind, k) = Matching(text, kind, k + 1)
      BY <2>1, <2>3, <2>7, OneLineMore DEF L
    <3> QED BY <2>4, <3>1 DEF v, u, c, k
  <2>8. CASE text[k + 1] = kind
    <3>1. /\ Cardinality(Matching(text, kind, k)) = c + 1
          /\ LastOf(text, kind, k) =
               IF c < MaxLines THEN LastOf(text, kind, k + 1) \cup {k + 1} ELSE LastOf(text, kind, k + 1)
      BY <2>1, <2>8, OneLineMore DEF L, c
    <3>2. CASE c < MaxLines
      <4>1. v = <<k + 1>> \o u
        BY <2>3, <2>6, <2>8, <3>2
      <4>2. v \in Seq(Nat) /\ Len(v) = c + 1 /\ ToSet(v) = LastOf(text, kind, k)
        BY <2>1, <2>4, <3>1, <3>2, <4>1, InFront
      <4>3. Len(v) = IF c + 1 < MaxLines THEN c + 1 ELSE MaxLines
        BY <1>1, <2>5, <3>2, <4>2
      <4> QED BY <3>1, <4>2, <4>3 DEF v, k
    <3>3. CASE ~(c < MaxLines)
      <4>1. v = u
        BY <2>3, <2>6, <3>3
      <4>2. v \in Seq(Nat) /\ ToSet(v) = LastOf(text, kind, k)
        BY <2>4, <3>1, <3>3, <4>1
      <4>3. Len(v) = IF c + 1 < MaxLines THEN c + 1 ELSE MaxLines
        BY <1>1, <2>4, <2>5, <3>3, <4>1
      <4> QED BY <3>1, <4>2, <4>3 DEF v, k
    <3> QED BY <3>2, <3>3
  <2> QED BY <2>7, <2>8
<1> HIDE DEF Right1
<1>8. Nat \subseteq T
  <2>1. 0 \in T
    BY <1>6
  <2>2. \A n \in Nat : n \in T => n + 1 \in T
    BY <1>1, <1>7
  <2> HIDE DEF T
  <2> QED BY <2>1, <2>2, CountUp
<1>9. Right1(L)
  BY <1>1, <1>8
<1>10. ToSet(out[L]) = LastOf(text, kind, 0)
  <2>1. L - L = 0
    BY <1>1
  <2> QED BY <1>9, <2>1 DEF Right1
<1>11. \A s : Heads!ToSet(s) = ToSet(s)
  BY DEF Heads!ToSet, ToSet
<1> QED BY <1>5, <1>10, <1>11, LastLinesAre

(***************************************************************************)
(* The steps of an attempt.                                                *)
(***************************************************************************)
LEMMA HeadsInit ==
  ASSUME Heads!Init
  PROVE  HeadsInv
<1>1. /\ case \in Cases /\ head = [n \in Heads!Nodes |-> Heads!First] /\ stopped = 0 /\ work = "search"
      /\ read = <<>> /\ good = 0 /\ seen = Heads!Unseen /\ class = "" /\ evidence = <<>> /\ errors = 0
  BY DEF Heads!Init
<1>2. Heads!First \in Blocks
  <2>1. 1 \in 1..Heads!Top /\ Siblings[1] \in Nat \ {0}
    BY BlockIs
  <2> QED BY <2>1 DEF Heads!First, Blocks
<1>3. HeadTypes
  <2>1. /\ read \in Seq(Blocks \cup {Heads!NoSample}) /\ Len(read) <= Len(Heads!ObserveHeads)
        /\ DOMAIN read = {}
    <3>1. \A S : <<>> \in Seq(S) /\ Len(<<>>) = 0 /\ DOMAIN <<>> = {}
      OBVIOUS
    <3>2. read = <<>>
      BY <1>1
    <3> QED BY <3>1, <3>2, AskedIs
  <2>2. head \in [Heads!Nodes -> Blocks]
    BY <1>1, <1>2
  <2>3. /\ good \in Nat /\ errors \in Nat /\ case \in Cases
        /\ seen \in [probes : Nat, split : Nat, agreed : Nat, missing : BOOLEAN, advanced : BOOLEAN]
    BY <1>1 DEF Heads!Unseen
  <2> QED BY <2>1, <2>2, <2>3 DEF HeadTypes
<1>4. Phases
  BY <1>1 DEF Phases, Hunting
<1> QED BY <1>1, <1>3, <1>4 DEF HeadsInv, Apart, Said, Kept

\* what a step that starts a reading leaves as it is
LEMMA FreshTypes ==
  ASSUME HeadTypes, Heads!Fresh, good' \in Nat, errors' \in Nat,
         seen' \in [probes : Nat, split : Nat, agreed : Nat, missing : BOOLEAN, advanced : BOOLEAN]
  PROVE  HeadTypes' /\ UNCHANGED <<case, head, stopped>> /\ read' = <<>>
<1>1. read' = <<>> /\ UNCHANGED <<case, head, stopped>>
  BY DEF Heads!Fresh
<1>2. read' \in Seq(Blocks \cup {Heads!NoSample}) /\ Len(read') = 0 /\ DOMAIN read' = {}
  BY <1>1
<1>3. Len(read') <= Len(Heads!ObserveHeads)
  BY <1>2, AskedIs
<1>4. case' \in Cases /\ head' \in [Heads!Nodes -> Blocks]
  BY <1>1 DEF HeadTypes
<1> QED BY <1>1, <1>2, <1>3, <1>4 DEF HeadTypes

LEMMA SameWindow ==
  ASSUME UNCHANGED <<window, case>>
  PROVE  /\ RightWindow' <=> RightWindow
         /\ Left' = Left /\ Right' = Right /\ Below' = Below
BY DEF RightWindow, Left, Right, Below

LEMMA PollsAgain ==
  ASSUME HeadsInv, work \in {"search", "confirm", "probe"}, Heads!PollAgain, Heads!Fresh, errors' \in Nat
  PROVE  HeadsInv'
<1>1. /\ work' \in {"search", "over"} /\ good' = 0
      /\ UNCHANGED <<seen, class, evidence, splits, case, head, stopped>>
  BY DEF Heads!PollAgain, Heads!Fresh
<1>2. HeadTypes' /\ read' = <<>>
  <2>1. seen' \in [probes : Nat, split : Nat, agreed : Nat, missing : BOOLEAN, advanced : BOOLEAN]
    BY <1>1 DEF HeadsInv, HeadTypes
  <2> QED BY <1>1, <2>1, FreshTypes DEF HeadsInv
<1>3. class = "" /\ evidence = <<>> /\ stopped = 0 /\ seen = Heads!Unseen
  BY DEF HeadsInv, Phases, Hunting
<1>4. Phases'
  BY <1>1, <1>3 DEF Phases, Hunting
<1> QED BY <1>1, <1>2, <1>3, <1>4 DEF HeadsInv, Apart, Said, Kept

LEMMA HeadMovesStep ==
  ASSUME HeadsInv, NEW n \in Heads!Nodes, Heads!HeadMoves(n)
  PROVE  HeadsInv'
<1>1. /\ UNCHANGED <<case, stopped, work, read, polls, window, good, seen, class, result, evidence, errors>>
      /\ splits' = splits \cup Heads!Pairs(head')
  BY DEF Heads!HeadMoves, Heads!attempt
<1>2. HeadTypes
  BY DEF HeadsInv
<1>3. HeadTypes'
  <2>1. head' \in [Heads!Nodes -> Blocks]
    BY <1>2, MovesAhead
  <2>2. \A q \in DOMAIN read : read[q] # Heads!NoSample => Ahead(head'[Heads!ObserveHeads[q]], read[q])
    BY <1>2, StillAhead
  <2> QED BY <1>1, <1>2, <2>1, <2>2 DEF HeadTypes, Heads!ObserveHeads
<1>4. Phases'
  BY <1>1, SameWindow DEF HeadsInv, Phases
<1>5. Heads!ReallySplit => Heads!ReallySplit'
  BY <1>1 DEF Heads!ReallySplit, Heads!Current
<1>6. Apart'
  <2> SUFFICES ASSUME work \in {"confirm", "probe", "stop", "post"}, ~Heads!ReallySplit',
                      NEW r \in Nat, r = Readings'
               PROVE  Together(r)'
    BY <1>1 DEF Apart
  <2>1. Readings' = Readings
    BY <1>1 DEF Readings
  <2>2. RightWindow /\ Together(r)
    BY <1>5, <2>1 DEF HeadsInv, Phases, Apart
  <2> QED BY <1>1, <1>2, <2>2, MovesTogether
<1>7. Said' /\ Kept'
  BY <1>1, <1>5 DEF HeadsInv, Said, Kept
<1> QED BY <1>3, <1>4, <1>6, <1>7 DEF HeadsInv

LEMMA ObserveStep ==
  ASSUME HeadsInv, NEW answers \in BOOLEAN, Heads!ObserveRPCHead(answers)
  PROVE  HeadsInv'
<1>1. /\ UNCHANGED <<case, head, stopped, work, polls, window, good, seen, class, result, evidence, splits>>
      /\ work # "stop"
  BY DEF Heads!ObserveRPCHead, Heads!Observing, Heads!attempt
<1>2. HeadTypes
  BY DEF HeadsInv
<1> DEFINE q == Len(read) + 1
           n == Heads!ObserveHeads[q]
<1>3. /\ n \in Heads!Nodes
      /\ read' \in Seq(Blocks \cup {Heads!NoSample}) /\ Len(read') <= Len(Heads!ObserveHeads)
      /\ DOMAIN read' = DOMAIN read \cup {q}
      /\ \A p \in DOMAIN read : read'[p] = read[p]
      /\ read'[q] \in {head[n], Heads!NoSample}
  BY <1>2, Asks
<1>4. errors' \in Nat /\ (work' = "over" => UNCHANGED errors)
  <2>1. errors' = errors \/ errors' = errors + 1
    BY DEF Heads!ObserveRPCHead
  <2>2. work # "over"
    BY DEF Heads!ObserveRPCHead, Heads!Observing
  <2> QED BY <1>1, <1>2, <2>1, <2>2 DEF HeadTypes
<1>5. HeadTypes'
  <2>1. \A p \in DOMAIN read' : read'[p] # Heads!NoSample => Ahead(head[Heads!ObserveHeads[p]], read'[p])
    <3>1. ASSUME read'[q] # Heads!NoSample PROVE Ahead(head[n], read'[q])
      <4>1. head[n] \in Blocks /\ read'[q] = head[n]
        BY <1>2, <1>3, <3>1 DEF HeadTypes
      <4> QED BY <4>1, BlockIs DEF Ahead
    <3>2. \A p \in DOMAIN read : read'[p] # Heads!NoSample => Ahead(head[Heads!ObserveHeads[p]], read'[p])
      BY <1>2, <1>3 DEF HeadTypes
    <3> QED BY <1>3, <3>1, <3>2
  <2> HIDE DEF q
  <2> QED BY <1>1, <1>2, <1>3, <1>4, <2>1 DEF HeadTypes
<1>6. Phases'
  BY <1>1, <1>4, SameWindow DEF HeadsInv, Phases
<1>7. Heads!ReallySplit' <=> Heads!ReallySplit
  BY <1>1 DEF Heads!ReallySplit, Heads!Current
<1>8. Apart'
  <2> SUFFICES ASSUME work \in {"confirm", "probe", "stop", "post"}, ~Heads!ReallySplit,
                      NEW r \in Nat, r = Readings'
               PROVE  Together(r)'
    BY <1>1, <1>7 DEF Apart
  <2>1. Readings' = Readings
    BY <1>1 DEF Readings
  <2>2. RightWindow /\ Together(r)
    BY <2>1 DEF HeadsInv, Phases, Apart
  <2> QED BY <1>1, <1>2, <2>2, AsksTogether
<1>9. Said' /\ Kept'
  BY <1>1, <1>7 DEF HeadsInv, Said, Kept
<1> QED BY <1>5, <1>6, <1>8, <1>9 DEF HeadsInv

LEMMA NoConflictStep ==
  ASSUME HeadsInv, Heads!NoConflict
  PROVE  HeadsInv'
<1>1. work = "search" /\ Heads!PollAgain /\ Heads!Fresh /\ errors' = errors
  BY DEF Heads!NoConflict
<1>2. errors' \in Nat
  BY <1>1 DEF HeadsInv, HeadTypes
<1> QED BY <1>1, <1>2, PollsAgain

(***************************************************************************)
(* The window is one height above a conflict that was read, and its target *)
(* is the one whose turn it is, whichever lookup answered.                 *)
(***************************************************************************)
LEMMA HighestConflict ==
  ASSUME HeadTypes, Heads!SameHeightHashConflicts # {}
  PROVE  Heads!Max(Heads!SameHeightHashConflicts) \in 1..Heads!Top
<1> DEFINE C == Heads!SameHeightHashConflicts
<1>1. C \subseteq 1..Heads!Top
  <2> SUFFICES ASSUME NEW h \in C PROVE h \in 1..Heads!Top
    OBVIOUS
  <2>1. PICK i \in DOMAIN read : h = read[i].height /\ read[i] # Heads!NoSample
    BY DEF Heads!SameHeightHashConflicts
  <2>2. read[i] \in Blocks
    BY <2>1 DEF HeadTypes
  <2> QED BY <2>1, <2>2, BlockIs
<1> HIDE DEF C
<1> DEFINE D == {Heads!Top - h : h \in C}
<1>2. D \subseteq Nat /\ D # {}
  <2>1. \A h \in C : Heads!Top - h \in Nat
    BY <1>1, BlockIs
  <2> QED BY <2>1 DEF C
<1>3. PICK d \in D : \A e \in D : d <= e
  <2> HIDE DEF D
  <2> QED BY <1>2, LeastExists
<1>4. PICK m \in C : d = Heads!Top - m
  BY <1>3
<1>5. \A h \in C : h <= m
  <2> SUFFICES ASSUME NEW h \in C PROVE h <= m
    OBVIOUS
  <2>1. Heads!Top - m <= Heads!Top - h
    BY <1>3, <1>4
  <2>2. Heads!Top \in Nat /\ h \in Nat /\ m \in Nat
    BY <1>1, <1>4, BlockIs
  <2> HIDE DEF D
  <2> QED BY <2>1, <2>2
<1>6. Heads!Max(C) \in C
  BY <1>4, <1>5 DEF Heads!Max
<1> QED BY <1>1, <1>6 DEF C

LEMMA CandidateRight ==
  ASSUME HeadTypes, Heads!SameHeightHashConflicts # {}, NEW answered \in BOOLEAN,
         Len(Heads!Candidate(answered).survivors) = 2, window' = Heads!Candidate(answered),
         case' = case
  PROVE  RightWindow'
<1> DEFINE h == Heads!Max(Heads!SameHeightHashConflicts) + 1
           s == Heads!SelectInTurnSignerAtHeight(h)
           t == Heads!ValidatorAddressBySigner(s, answered)
<1>1. /\ window'.height = h /\ window'.target = t
      /\ window'.survivors = Heads!OtherValidators(t)
  BY DEF Heads!Candidate
<1>2. h \in Nat /\ h - 1 \in 1..Heads!Top
  BY HighestConflict, BlockIs
<1>3. t \in Heads!Nodes
  BY SurvivorsAre DEF Heads!Candidate
<1> HIDE DEF h
<1>4. /\ Len(case.signers) = 3
      /\ \A i \in 1..3 :
           /\ case.signers[i] \in DOMAIN case.contract
           /\ IF case.signers[i] \in DOMAIN case.config
              THEN case.config[case.signers[i]] = case.contract[case.signers[i]]
              ELSE case.signers[i] \notin 1..3
  BY HeadsAssumption DEF HeadTypes
<1>5. s = case.signers[(h % 3) + 1] /\ (h % 3) + 1 \in 1..3
  BY <1>2, <1>4 DEF Heads!SelectInTurnSignerAtHeight
<1> HIDE DEF s
<1>6. t = case.contract[s]
  BY <1>3, <1>4, <1>5 DEF Heads!ValidatorAddressBySigner, Heads!Nodes
<1> HIDE DEF t
<1> QED BY <1>1, <1>2, <1>3, <1>5, <1>6 DEF RightWindow, Below

LEMMA ConflictStep ==
  ASSUME HeadsInv, NEW answered \in BOOLEAN, Heads!Conflict(answered)
  PROVE  HeadsInv'
<1>1. /\ work = "search" /\ Heads!SameHeightHashConflicts # {} /\ Heads!Fresh
      /\ errors' = (IF answered THEN errors ELSE errors + 1) /\ HeadTypes
  BY DEF Heads!Conflict, HeadsInv
<1>2. errors' \in Nat
  BY <1>1 DEF HeadTypes
<1>3. CASE Len(Heads!Candidate(answered).survivors) = 2
  <2>1. /\ window' = Heads!Candidate(answered) /\ work' = "confirm" /\ splits' = Heads!Pairs(head)
        /\ UNCHANGED <<good, seen, class, evidence>>
    BY <1>3 DEF Heads!Conflict
  <2>2. HeadTypes' /\ UNCHANGED <<case, head, stopped>> /\ read' = <<>>
    <3>1. good' \in Nat
          /\ seen' \in [probes : Nat, split : Nat, agreed : Nat, missing : BOOLEAN, advanced : BOOLEAN]
      BY <1>1, <2>1 DEF HeadTypes
    <3> QED BY <1>1, <1>2, <3>1, FreshTypes
  <2>3. RightWindow'
    BY <1>1, <1>3, <2>1, <2>2, CandidateRight
  <2>4. class = "" /\ evidence = <<>> /\ stopped = 0 /\ seen = Heads!Unseen /\ good = 0
    BY <1>1 DEF HeadsInv, Phases, Hunting
  <2>5. Phases'
    BY <2>1, <2>2, <2>3, <2>4 DEF Phases, Hunting
  <2>6. splits' = Heads!Pairs(head')
    BY <2>1, <2>2
  <2>7. ~Heads!ReallySplit' => Together(0)'
    <3>1. (HeadTypes /\ RightWindow /\ read = <<>> /\ splits = Heads!Pairs(head) /\ ~Heads!ReallySplit
             => Together(0))'
      BY FirstReading, PTL
    <3>2. splits' = Heads!Pairs(head)'
      BY <2>6 DEF Heads!Pairs
    <3> QED BY <2>2, <2>3, <3>1, <3>2
  <2>8. Readings' = 0
    BY <2>1 DEF Readings
  <2>9. Apart'
    BY <2>7, <2>8 DEF Apart
  <2>10. Said' /\ Kept'
    BY <2>1, <2>4 DEF Said, Kept
  <2> QED BY <2>2, <2>5, <2>9, <2>10 DEF HeadsInv
<1>4. CASE Len(Heads!Candidate(answered).survivors) # 2
  <2>1. Heads!PollAgain
    BY <1>4 DEF Heads!Conflict
  <2> QED BY <1>1, <1>2, <2>1, PollsAgain
<1> QED BY <1>3, <1>4

(***************************************************************************)
(* A look that seems to show the split once more.                          *)
(***************************************************************************)
LEMMA LooksAgain ==
  ASSUME HeadsInv, work \in {"confirm", "probe"}, Heads!Observed, Heads!OnSiblings(window),
         Heads!Fresh, work' \in {"probe", "stop"}, good' \in Nat, Readings' = Readings + 1,
         work' = "stop" => good' = Probes,
         UNCHANGED <<window, seen, class, evidence, splits, errors>>
  PROVE  HeadsInv'
<1>1. HeadTypes' /\ UNCHANGED <<case, head, stopped>> /\ read' = <<>>
  <2>1. /\ errors' \in Nat
        /\ seen' \in [probes : Nat, split : Nat, agreed : Nat, missing : BOOLEAN, advanced : BOOLEAN]
    BY DEF HeadsInv, HeadTypes
  <2> QED BY <2>1, FreshTypes DEF HeadsInv
<1>2. RightWindow /\ RightWindow'
  BY <1>1, SameWindow DEF HeadsInv, Phases
<1>3. class = "" /\ evidence = <<>> /\ stopped = 0 /\ seen = Heads!Unseen
  BY DEF HeadsInv, Phases, Hunting
<1>4. Phases'
  BY <1>1, <1>2, <1>3 DEF Phases, Hunting
<1>5. Heads!ReallySplit' <=> Heads!ReallySplit
  BY DEF Heads!ReallySplit, Heads!Current
<1>6. Apart'
  <2> SUFFICES ASSUME ~Heads!ReallySplit, NEW r \in Nat, r = Readings'
               PROVE  Together(r)'
    BY <1>5 DEF Apart
  <2> DEFINE r0 == r - 1
  <2>1. Readings \in Nat /\ r0 = Readings /\ r = r0 + 1 /\ r0 \in Nat
    <3>1. Readings \in Nat
      BY DEF Readings, HeadsInv, HeadTypes
    <3> QED BY <3>1
  <2> HIDE DEF r0
  <2>2. Together(r0)
    BY <2>1 DEF HeadsInv, Apart
  <2>3. Equal /\ There(r) /\ High(r) /\ Enough(r)
    <3>1. HeadTypes
      BY DEF HeadsInv
    <3>2. There(r0 + 1) /\ High(r0 + 1) /\ Enough(r0 + 1)
      BY <1>2, <2>1, <2>2, <3>1, OneMore
    <3> QED BY <2>1, <2>2, <3>2 DEF Together
  <2> QED BY <1>1, <2>3, NextReading
<1>7. Said' /\ Kept'
  BY <1>3 DEF Said, Kept
<1> QED BY <1>1, <1>4, <1>6, <1>7 DEF HeadsInv

LEMMA ConfirmStep ==
  ASSUME HeadsInv, Heads!ConfirmCompetingStopWindow
  PROVE  HeadsInv'
<1>1. work = "confirm" /\ Heads!Observed /\ Heads!Fresh /\ errors' = errors /\ good = 0
  BY DEF Heads!ConfirmCompetingStopWindow, HeadsInv, Phases
<1>2. CASE Heads!OnSiblings(window) /\ Heads!FindValidatorHeadSample(window.target).height <= window.height
  <2>1. work' = "probe" /\ UNCHANGED <<window, good, seen, class, evidence, splits>>
    BY <1>2 DEF Heads!ConfirmCompetingStopWindow, Heads!attempt
  <2>2. Readings' = Readings + 1 /\ good' \in Nat
    BY <1>1, <2>1 DEF Readings
  <2> QED BY <1>1, <1>2, <2>1, <2>2, LooksAgain
<1>3. CASE ~(Heads!OnSiblings(window) /\ Heads!FindValidatorHeadSample(window.target).height <= window.height)
  <2>1. Heads!PollAgain
    BY <1>3 DEF Heads!ConfirmCompetingStopWindow
  <2>2. errors' \in Nat
    BY <1>1 DEF HeadsInv, HeadTypes
  <2> QED BY <1>1, <2>1, <2>2, PollsAgain
<1> QED BY <1>2, <1>3

LEMMA StableStep ==
  ASSUME HeadsInv, Heads!StableSiblingWindow
  PROVE  HeadsInv'
<1>1. work = "probe" /\ Heads!Observed /\ Heads!Fresh /\ errors' = errors /\ good \in Nat
  BY DEF Heads!StableSiblingWindow, HeadsInv, HeadTypes
<1>2. CASE Heads!WindowStable
  <2>1. /\ good' = good + 1 /\ work' = (IF good + 1 = Probes THEN "stop" ELSE "probe")
        /\ UNCHANGED <<window, seen, class, evidence, splits>>
    BY <1>2 DEF Heads!StableSiblingWindow
  <2>2. work' \in {"probe", "stop"} /\ good' \in Nat /\ (work' = "stop" => good' = Probes)
    BY <1>1, <2>1
  <2>3. Readings' = Readings + 1
    <3>1. Readings = good + 1
      BY <1>1 DEF Readings
    <3>2. Readings' = good' + 1
      BY <2>2 DEF Readings
    <3> QED BY <2>1, <3>1, <3>2
  <2>4. Heads!OnSiblings(window)
    BY <1>2 DEF Heads!WindowStable
  <2> QED BY <1>1, <2>1, <2>2, <2>3, <2>4, LooksAgain
<1>3. CASE ~Heads!WindowStable
  <2>1. Heads!PollAgain
    BY <1>3 DEF Heads!StableSiblingWindow
  <2>2. errors' \in Nat
    BY <1>1 DEF HeadsInv, HeadTypes
  <2> QED BY <1>1, <2>1, <2>2, PollsAgain
<1> QED BY <1>2, <1>3

LEMMA StopStep ==
  ASSUME HeadsInv, Heads!StopValidatorNode
  PROVE  HeadsInv'
<1>1. /\ work = "stop" /\ work' = "post" /\ splits' = Heads!Pairs(head)
      /\ UNCHANGED <<case, head, read, window, good, seen, class, evidence, errors>>
  BY DEF Heads!StopValidatorNode, Heads!attempt
<1>2. /\ RightWindow /\ read = <<>> /\ seen = Heads!Unseen /\ class = "" /\ evidence = <<>>
  BY <1>1 DEF HeadsInv, Phases, Hunting
<1>3. HeadTypes'
  BY <1>1 DEF HeadsInv, HeadTypes, Heads!ObserveHeads
<1>4. Phases' /\ RightWindow'
  BY <1>1, <1>2, SameWindow DEF Phases, Hunting
<1>5. Apart'
  <2>1. (HeadTypes /\ RightWindow /\ read = <<>> /\ splits = Heads!Pairs(head) /\ ~Heads!ReallySplit
           => Together(0))'
    BY FirstReading, PTL
  <2>2. splits' = Heads!Pairs(head)' /\ read' = <<>>
    BY <1>1, <1>2 DEF Heads!Pairs
  <2>3. ~Heads!ReallySplit' => Together(0)'
    BY <1>3, <1>4, <2>1, <2>2
  <2>4. Readings' = 0
    BY <1>1, <1>2 DEF Readings, Heads!Unseen
  <2> QED BY <2>3, <2>4 DEF Apart
<1>6. Said' /\ Kept'
  BY <1>1, <1>2 DEF Said, Kept
<1> QED BY <1>3, <1>4, <1>5, <1>6 DEF HeadsInv

LEMMA StopFailsStep ==
  ASSUME HeadsInv, Heads!StopFails
  PROVE  HeadsInv'
<1>1. /\ work = "stop" /\ work' = "over" /\ errors' = errors + 1
      /\ UNCHANGED <<case, head, read, window, good, seen, class, evidence, splits>>
  BY DEF Heads!StopFails
<1>2. class = "" /\ evidence = <<>>
  BY <1>1 DEF HeadsInv, Phases, Hunting
<1>3. errors \in Nat /\ errors' \in Nat /\ errors' # 0
  BY <1>1 DEF HeadsInv, HeadTypes
<1>4. HeadTypes'
  BY <1>1, <1>3 DEF HeadsInv, HeadTypes, Heads!ObserveHeads
<1>5. Phases'
  BY <1>1, <1>3 DEF Phases, Hunting
<1> QED BY <1>1, <1>2, <1>4, <1>5 DEF HeadsInv, Apart, Said, Kept

Sights == [probes : Nat, split : Nat, agreed : Nat, missing : BOOLEAN, advanced : BOOLEAN]

LEMMA SeeProbeIs ==
  ASSUME seen \in Sights
  PROVE  /\ Heads!SeeProbe \in Sights
         /\ \/ Heads!SeeProbe.split = seen.split
            \/ Heads!SeeProbe.split = seen.split + 1 /\ Heads!OnSiblings(window)
<1> DEFINE one == [seen EXCEPT !.probes = @ + 1]
<1>1. one \in Sights /\ one.split = seen.split
  BY DEF Sights
<1> HIDE DEF one
<1>2. /\ [one EXCEPT !.missing = TRUE] \in Sights /\ [one EXCEPT !.advanced = TRUE] \in Sights
      /\ [one EXCEPT !.split = @ + 1] \in Sights /\ [one EXCEPT !.agreed = @ + 1] \in Sights
      /\ [one EXCEPT !.missing = TRUE].split = one.split
      /\ [one EXCEPT !.advanced = TRUE].split = one.split
      /\ [one EXCEPT !.split = @ + 1].split = one.split + 1
      /\ [one EXCEPT !.agreed = @ + 1].split = one.split
  <2>1. [one EXCEPT !.missing = TRUE] \in Sights
    BY <1>1 DEF Sights
  <2>2. [one EXCEPT !.advanced = TRUE] \in Sights
    BY <1>1 DEF Sights
  <2>3. [one EXCEPT !.split = @ + 1] \in Sights
    BY <1>1 DEF Sights
  <2>4. [one EXCEPT !.agreed = @ + 1] \in Sights
    BY <1>1 DEF Sights
  <2>5. /\ [one EXCEPT !.missing = TRUE].split = one.split
        /\ [one EXCEPT !.advanced = TRUE].split = one.split
        /\ [one EXCEPT !.agreed = @ + 1].split = one.split
    BY <1>1 DEF Sights
  <2>6. [one EXCEPT !.split = @ + 1].split = one.split + 1
    BY <1>1 DEF Sights
  <2> QED BY <2>1, <2>2, <2>3, <2>4, <2>5, <2>6
<1>3. \/ Heads!SeeProbe = one \/ Heads!SeeProbe = [one EXCEPT !.missing = TRUE]
      \/ Heads!SeeProbe = [one EXCEPT !.advanced = TRUE]
      \/ Heads!SeeProbe = [one EXCEPT !.split = @ + 1] /\ Heads!OnSiblings(window)
      \/ Heads!SeeProbe = [one EXCEPT !.agreed = @ + 1]
  BY DEF Heads!SeeProbe, one
<1> QED BY <1>1, <1>2, <1>3

LEMMA PostStopStep ==
  ASSUME HeadsInv, Heads!PostStopObservation
  PROVE  HeadsInv'
<1>1. /\ work = "post" /\ Heads!Observed /\ Heads!Fresh /\ seen' = Heads!SeeProbe
      /\ UNCHANGED <<window, good, evidence, splits, errors>>
      /\ \/ UNCHANGED <<work, class>>
         \/ work' = "judge" /\ class' = Heads!ClassifyPostStopObservation(seen')
  BY DEF Heads!PostStopObservation
<1>2. seen \in Sights /\ HeadTypes
  BY DEF HeadsInv, HeadTypes, Sights
<1>3. /\ seen' \in Sights
      /\ seen'.split = seen.split \/ (seen'.split = seen.split + 1 /\ Heads!OnSiblings(window))
  BY <1>1, <1>2, SeeProbeIs
<1>4. HeadTypes' /\ UNCHANGED <<case, head, stopped>> /\ read' = <<>>
  <2>1. errors' \in Nat /\ good' \in Nat
    BY <1>1 DEF HeadsInv, HeadTypes
  <2> QED BY <1>1, <1>2, <1>3, <2>1, FreshTypes DEF Sights
<1>5. RightWindow /\ class = "" /\ evidence = <<>>
  BY <1>1 DEF HeadsInv, Phases
<1>6. Phases'
  BY <1>1, <1>4, <1>5, SameWindow DEF Phases, Hunting
<1>7. Heads!ReallySplit' <=> Heads!ReallySplit
  BY <1>1 DEF Heads!ReallySplit, Heads!Current
<1> DEFINE r == seen'.split
<1>8. r \in Nat /\ seen.split \in Nat
  BY <1>2, <1>3 DEF Sights
<1>9. ASSUME ~Heads!ReallySplit PROVE Equal /\ There(r) /\ High(r) /\ Enough(r)
  <2>1. Readings = seen.split
    BY <1>1 DEF Readings
  <2>2. Together(seen.split)
    BY <1>1, <1>8, <1>9, <2>1 DEF HeadsInv, Apart
  <2>3. CASE r = seen.split
    BY <2>2, <2>3 DEF Together
  <2>4. CASE r = seen.split + 1 /\ Heads!OnSiblings(window)
    <3>1. There(seen.split + 1) /\ High(seen.split + 1) /\ Enough(seen.split + 1)
      BY <1>1, <1>2, <1>5, <1>8, <2>2, <2>4, OneMore
    <3> HIDE DEF r
    <3> QED BY <2>2, <2>4, <3>1 DEF Together
  <2> HIDE DEF r
  <2> QED BY <1>3, <2>3, <2>4 DEF r
<1>10. Apart'
  <2> SUFFICES ASSUME work' = "post", ~Heads!ReallySplit, NEW r1 \in Nat, r1 = Readings'
               PROVE  Together(r1)'
    BY <1>1, <1>7 DEF Apart
  <2>1. r1 = r
    BY DEF Readings
  <2>2. Equal /\ There(r1) /\ High(r1) /\ Enough(r1)
    BY <1>9, <2>1
  <2> QED BY <1>1, <1>4, <2>2, NextReading
<1>11. Said'
  <2> SUFFICES ASSUME class' = "still_split_same_height", ~Heads!ReallySplit
               PROVE  FALSE
    BY <1>7 DEF Said
  <2>1. r >= MinSplits
    <3>1. class' = Heads!ClassifyPostStopObservation(seen')
      BY <1>1, <1>5
    <3> QED BY <3>1 DEF Heads!ClassifyPostStopObservation
  <2>2. Enough(r)
    BY <1>9
  <2>3. Below \in 1..Heads!Top
    BY <1>5 DEF RightWindow
  <2>4. Siblings[Below] \in Nat \ {0} /\ Siblings[Below] <= MinSplits
    BY <2>3, BlockIs
  <2> HIDE DEF r
  <2> QED BY <1>8, <2>1, <2>2, <2>4, HeadsAssumption DEF Enough
<1>12. Kept'
  BY <1>1, <1>5 DEF Kept
<1> QED BY <1>4, <1>6, <1>10, <1>11, <1>12 DEF HeadsInv

(***************************************************************************)
(* The evidence is the last lines of the survivors' logs.                  *)
(***************************************************************************)
LEMMA JudgeStep ==
  ASSUME HeadsInv, Heads!Judge
  PROVE  HeadsInv'
<1>1. /\ work = "judge" /\ work' = "restart" /\ evidence' = Heads!CollectConsensusConflictEvidence
      /\ UNCHANGED <<case, head, stopped, read, window, good, seen, class, splits, errors>>
  BY DEF Heads!Judge
<1>2. HeadTypes'
  BY <1>1 DEF HeadsInv, HeadTypes, Heads!ObserveHeads
<1>3. RightWindow
  BY <1>1 DEF HeadsInv, Phases
<1>4. Phases'
  BY <1>1, <1>3, SameWindow DEF Phases, Hunting
<1>5. Apart' /\ Said'
  BY <1>1 DEF HeadsInv, Apart, Said, Heads!ReallySplit, Heads!Current
<1>6. Kept'
  <2> DEFINE K == {"competing", "recently"}
             N == Heads!ToSet(window.survivors)
             lines == [n \in N |-> [k \in K |-> Heads!TailMatchingLogLines(case.logs[n], k)]]
  <2>1. /\ evidence'.lines = lines
        /\ evidence'.observed =
             {k \in K : \E n \in N : Heads!TailMatchingLogLines(case.logs[n], k) # <<>>}
    BY <1>1 DEF Heads!CollectConsensusConflictEvidence
  <2>2. ASSUME NEW n \in N, NEW k \in K
        PROVE  Heads!ToSet(lines[n][k]) = Heads!LastLines(case.logs[n], k)
    <3>1. window.survivors = Heads!OtherValidators(window.target) /\ window.target \in Heads!Nodes
      BY <1>3 DEF RightWindow
    <3>2. n \in Heads!Nodes
      <4>1. LET s == window.survivors
            IN  s[1] \in Heads!Nodes /\ s[2] \in Heads!Nodes /\ Len(s) = 2 /\ DOMAIN s = {1, 2}
        BY <3>1 DEF Heads!OtherValidators, Heads!Nodes
      <4> QED BY <4>1 DEF Heads!ToSet
    <3>3. case.logs[n] \in Seq(STRING)
      <4>1. case \in Cases
        BY DEF HeadsInv, HeadTypes
      <4>2. n \in 1..3
        BY <3>2 DEF Heads!Nodes
      <4> QED BY <4>1, <4>2, HeadsAssumption
    <3> QED BY <3>3, TailIs
  <2> HIDE DEF N, K
  <2>3. DOMAIN evidence'.lines = N
    BY <2>1
  <2>4. \A n \in N, k \in K : lines[n][k] # <<>> => k \in evidence'.observed
    BY <2>1
  <2> HIDE DEF lines
  <2>5. \A n \in N, k \in K :
          /\ Heads!ToSet(evidence'.lines[n][k]) = Heads!LastLines(case.logs[n], k)
          /\ evidence'.lines[n][k] # <<>> => k \in evidence'.observed
    BY <2>1, <2>2, <2>4
  <2> QED BY <1>1, <2>3, <2>5 DEF Kept, K
<1> QED BY <1>2, <1>4, <1>5, <1>6 DEF HeadsInv

LEMMA RestartStep ==
  ASSUME HeadsInv, NEW ok \in BOOLEAN, Heads!RestartValidatorNode(ok)
  PROVE  HeadsInv'
<1>1. /\ work = "restart" /\ work' = "over"
      /\ errors' = (IF ok THEN errors ELSE errors + 1) /\ stopped' = (IF ok THEN 0 ELSE stopped)
      /\ UNCHANGED <<case, head, read, window, good, seen, class, evidence, splits>>
  BY DEF Heads!RestartValidatorNode, Heads!attempt
<1>2. errors \in Nat
  BY DEF HeadsInv, HeadTypes
<1>3. errors' \in Nat /\ (errors' = 0 => stopped' = 0)
  BY <1>1, <1>2
<1>4. HeadTypes'
  BY <1>1, <1>3 DEF HeadsInv, HeadTypes, Heads!ObserveHeads
<1>5. Phases'
  BY <1>1, <1>3 DEF Phases, Hunting
<1>6. Apart' /\ Said' /\ Kept'
  BY <1>1 DEF HeadsInv, Apart, Said, Kept, Heads!ReallySplit, Heads!Current
<1> QED BY <1>4, <1>5, <1>6 DEF HeadsInv

LEMMA HeadsStep ==
  ASSUME HeadsInv, [Heads!Next]_(Heads!headVars)
  PROVE  HeadsInv'
<1>1. CASE UNCHANGED Heads!headVars
  <2>1. UNCHANGED <<case, head, stopped, work, read, window, good, seen, class, evidence, splits, errors>>
    BY <1>1 DEF Heads!headVars
  <2>2. HeadTypes'
    BY <2>1 DEF HeadsInv, HeadTypes, Heads!ObserveHeads
  <2>3. Phases' /\ Said' /\ Kept'
    BY <2>1, SameWindow DEF HeadsInv, Phases, Said, Kept, Heads!ReallySplit, Heads!Current
  <2>4. Apart'
    <3>1. ASSUME NEW r \in Nat, Together(r) PROVE Together(r)'
      <4>1. Left' = Left /\ Right' = Right /\ Below' = Below
        BY <2>1 DEF Left, Right, Below
      <4>2. Equal' /\ There(r)' /\ High(r)' /\ Enough(r)'
        BY <2>1, <3>1, <4>1 DEF Together, Equal, There, High, Enough
      <4>3. Half(r)' /\ Both(r)'
        BY <2>1, <3>1, <4>1 DEF Together, Half, Both
      <4> QED BY <4>2, <4>3 DEF Together
    <3>2. Readings' = Readings /\ (Heads!ReallySplit' <=> Heads!ReallySplit)
      BY <2>1 DEF Readings, Heads!ReallySplit, Heads!Current
    <3> QED BY <2>1, <3>1, <3>2 DEF HeadsInv, Apart
  <2> QED BY <2>2, <2>3, <2>4 DEF HeadsInv
<1>2. ASSUME NEW n \in Heads!Nodes, Heads!HeadMoves(n) PROVE HeadsInv'
  BY <1>2, HeadMovesStep
<1>3. ASSUME NEW b \in BOOLEAN,
             Heads!ObserveRPCHead(b) \/ Heads!Conflict(b) \/ Heads!RestartValidatorNode(b)
      PROVE  HeadsInv'
  BY <1>3, ObserveStep, ConflictStep, RestartStep
<1>4. CASE Heads!NoConflict \/ Heads!ConfirmCompetingStopWindow \/ Heads!StableSiblingWindow
  BY <1>4, NoConflictStep, ConfirmStep, StableStep
<1>5. CASE \/ Heads!StopValidatorNode \/ Heads!StopFails \/ Heads!PostStopObservation
           \/ Heads!Judge
  BY <1>5, StopStep, StopFailsStep, PostStopStep, JudgeStep
<1> QED BY <1>1, <1>2, <1>3, <1>4, <1>5 DEF Heads!Next

LEMMA HeadsInvImplies ==
  ASSUME HeadsInv
  PROVE  Heads!HeadsTrue
<1>1. ASSUME work = "stop" PROVE Heads!ReallySplit
  <2> SUFFICES ASSUME ~Heads!ReallySplit PROVE FALSE
    OBVIOUS
  <2>1. Readings = Probes + 1 /\ RightWindow
    BY <1>1 DEF HeadsInv, Phases, Readings
  <2>2. Probes \in Nat /\ Probes + 1 \in Nat
    BY HeadsAssumption
  <2>3. Enough(Probes + 1)
    BY <1>1, <2>1, <2>2 DEF HeadsInv, Apart, Together
  <2>4. Siblings[Below] \in Nat /\ Siblings[Below] <= Probes + 1
    BY <2>1, BlockIs DEF RightWindow
  <2> QED BY <2>2, <2>3, <2>4 DEF Enough
<1>2. work = "stop" => window.target = case.contract[case.signers[(window.height % 3) + 1]]
  BY DEF HeadsInv, Phases, RightWindow
<1>3. Said /\ Kept /\ (work = "over" /\ errors = 0 => stopped = 0)
  BY DEF HeadsInv, Phases
<1> QED BY <1>1, <1>2, <1>3 DEF Heads!HeadsTrue, Said, Kept

(***************************************************************************)
(* HeadEvidence: the test looks at one validator after the other while     *)
(* they move on, and yet it stops only the one that signs next, and only   *)
(* when the other two really sat on siblings at one moment; a split that   *)
(* it says outlived the stop was there after it.                           *)
(***************************************************************************)
THEOREM StopsOnlyInSplits == Heads!Spec => []Heads!HeadsTrue
<1>1. Heads!Init => HeadsInv
  BY HeadsInit
<1>2. HeadsInv /\ [Heads!Next]_(Heads!headVars) => HeadsInv'
  BY HeadsStep
<1>3. HeadsInv => Heads!HeadsTrue
  BY HeadsInvImplies
<1> QED BY <1>1, <1>2, <1>3, PTL DEF Heads!Spec

-----------------------------------------------------------------------------
(***************************************************************************)
(* Forks.                                                                  *)
(***************************************************************************)
LEMMA IndexIs ==
  /\ ForkOrderIndex("shanghai") = 1 /\ ForkOrderIndex("cancun") = 2
  /\ ForkOrderIndex("fixheader") = 3 /\ ForkOrderIndex("posa") = 4
  /\ ForkOrderIndex("prague") = 5 /\ ForkOrderIndex("osaka") = 6
  /\ ForkOrderIndex("bpo1") = 7 /\ ForkOrderIndex("bpo2") = 8
BY DEF ForkOrderIndex, ForkOrder

LEMMA OrderIs ==
  /\ DOMAIN ForkOrder = 1..8
  /\ AllForks = {"shanghai", "cancun", "fixheader", "posa", "prague", "osaka", "bpo1", "bpo2"}
  /\ \A i \in 1..8 : ForkOrder[i] \in AllForks /\ ForkOrderIndex(ForkOrder[i]) = i
  /\ \A f \in AllForks : ForkOrderIndex(f) \in 1..8 /\ ForkOrder[ForkOrderIndex(f)] = f
<1>1. DOMAIN ForkOrder = 1..8
  BY DEF ForkOrder
<1>2. /\ ForkOrder[1] = "shanghai" /\ ForkOrder[2] = "cancun" /\ ForkOrder[3] = "fixheader"
      /\ ForkOrder[4] = "posa" /\ ForkOrder[5] = "prague" /\ ForkOrder[6] = "osaka"
      /\ ForkOrder[7] = "bpo1" /\ ForkOrder[8] = "bpo2"
  BY DEF ForkOrder
<1>3. \A i \in 1..8 : i \in {1, 2, 3, 4, 5, 6, 7, 8}
  OBVIOUS
<1>4. AllForks = {"shanghai", "cancun", "fixheader", "posa", "prague", "osaka", "bpo1", "bpo2"}
  BY <1>1, <1>2, <1>3 DEF AllForks, ToSet
<1>5. \A i \in {1, 2, 3, 4, 5, 6, 7, 8} : ForkOrder[i] \in AllForks /\ ForkOrderIndex(ForkOrder[i]) = i
  BY <1>2, <1>4, IndexIs
<1>6. \A f \in AllForks : ForkOrderIndex(f) \in 1..8 /\ ForkOrder[ForkOrderIndex(f)] = f
  BY <1>2, <1>4, IndexIs
<1> QED BY <1>1, <1>3, <1>4, <1>5, <1>6

\* what the generator writes in the genesis, for the first n forks
LEMMA UptoIs ==
  ASSUME NEW n \in 0..8, NEW t
  PROVE  /\ \A f \in AllForks : f \in Prefix(n) <=> ForkOrderIndex(f) <= n
         /\ \A f \in AllForks : Upto(n, t)[f] = IF ForkOrderIndex(f) <= n THEN t ELSE Absent
<1>1. \A f \in AllForks : f \in Prefix(n) <=> ForkOrderIndex(f) <= n
  <2> SUFFICES ASSUME NEW f \in AllForks PROVE f \in Prefix(n) <=> ForkOrderIndex(f) <= n
    OBVIOUS
  <2>1. ForkOrderIndex(f) \in 1..8 /\ ForkOrder[ForkOrderIndex(f)] = f
    BY OrderIs
  <2>2. \A i \in 1..n : ForkOrderIndex(ForkOrder[i]) = i
    BY OrderIs
  <2> QED BY <2>1, <2>2 DEF Prefix
<1> QED BY <1>1 DEF Upto

(***************************************************************************)
(* Schedules.                                                              *)
(***************************************************************************)
\* as in ScheduleExact: some fork, in order, without a hole among the first six
Sound(times) ==
  LET on == {i \in 1..8 : times[ForkOrder[i]] > 0}
      six == on \cap 1..6
  IN  /\ on # {}
      /\ \A i, j \in on : i < j => times[ForkOrder[i]] <= times[ForkOrder[j]]
      /\ \A i, j \in six : i..j \subseteq six

\* it is enough to compare each fork with the next one
LEMMA NextIsEnough ==
  ASSUME NEW on \in SUBSET (1..8), NEW when \in [1..8 -> Int],
         \A i, j \in on : i < j /\ (\A k \in on : k <= i \/ j <= k) => when[i] <= when[j]
  PROVE  \A i, j \in on : i < j => when[i] <= when[j]
<1> DEFINE D == {d \in Nat : \E i, j \in on : i < j /\ when[j] < when[i] /\ d = j - i}
<1> SUFFICES ASSUME NEW i0 \in on, NEW j0 \in on, i0 < j0, when[j0] < when[i0] PROVE FALSE
  OBVIOUS
<1>1. j0 - i0 \in D
  OBVIOUS
<1>2. PICK d \in D : \A e \in D : d <= e
  <2> HIDE DEF D
  <2> QED
    <3>1. D \in SUBSET Nat
      BY DEF D
    <3> QED BY <1>1, <3>1, LeastExists
<1>3. PICK i \in on, j \in on : i < j /\ when[j] < when[i] /\ d = j - i
  BY <1>2
<1>4. PICK k \in on : i < k /\ k < j
  BY <1>3
<1>5. CASE when[k] < when[i]
  <2>1. k - i \in D
    BY <1>4, <1>5
  <2>2. d <= k - i
    BY <1>2, <2>1
  <2> HIDE DEF D
  <2> QED BY <1>3, <1>4, <2>2
<1>6. CASE when[i] <= when[k]
  <2>1. when[j] < when[k] /\ j - k \in Nat
    BY <1>3, <1>4, <1>6
  <2>2. j - k \in D
    BY <1>4, <2>1
  <2>3. d <= j - k
    BY <1>2, <2>2
  <2> HIDE DEF D
  <2> QED BY <1>3, <1>4, <2>3
<1> QED BY <1>5, <1>6

LEMMA ValidatedIs ==
  ASSUME NEW times \in [AllForks -> Int]
  PROVE  ValidateUpgradeForkSchedule("upgrade", times) <=> Sound(times)
<1> DEFINE on == {i \in 1..8 : times[ForkOrder[i]] > 0}
           when == [i \in 1..8 |-> times[ForkOrder[i]]]
           six == on \cap 1..6
<1>1. when \in [1..8 -> Int] /\ \A i \in 1..8 : when[i] = times[ForkOrder[i]]
  BY OrderIs
<1>2. UpgradeForkSchedulePhases(times) = on
  BY OrderIs DEF UpgradeForkSchedulePhases
<1>3. (\A i, j \in on : i < j /\ (\A k \in on : k <= i \/ j <= k)
         => times[ForkOrder[i]] <= times[ForkOrder[j]])
      <=> \A i, j \in on : i < j => times[ForkOrder[i]] <= times[ForkOrder[j]]
  <2>1. ASSUME \A i, j \in on : i < j /\ (\A k \in on : k <= i \/ j <= k) => when[i] <= when[j]
        PROVE  \A i, j \in on : i < j => when[i] <= when[j]
    <3> HIDE DEF when
    <3>1. on \in SUBSET (1..8)
      OBVIOUS
    <3> HIDE DEF on
    <3> QED BY <1>1, <2>1, <3>1, NextIsEnough
  <2> HIDE DEF when
  <2> QED BY <1>1, <2>1
<1>4. (\A i, j, k \in 1..6 : i < j /\ j < k =>
         ~(times[ForkOrder[i]] > 0 /\ times[ForkOrder[j]] <= 0 /\ times[ForkOrder[k]] > 0))
      <=> \A i, j \in six : i..j \subseteq six
  <2> HIDE DEF when
  <2>1. \A i \in 1..8 : i \in on <=> when[i] > 0
    BY <1>1
  <2>2. \A i \in 1..6 : i \in six <=> when[i] > 0
    BY <2>1
  <2>3. six \subseteq 1..6
    OBVIOUS
  <2> HIDE DEF six, on
  <2>4. ASSUME \A i, j, k \in 1..6 : i < j /\ j < k => ~(when[i] > 0 /\ when[j] <= 0 /\ when[k] > 0),
               NEW i \in six, NEW j \in six, NEW k \in i..j
        PROVE  k \in six
    <3>1. k \in 1..6 /\ when[k] \in Int
      BY <1>1, <2>3
    <3> QED BY <1>1, <2>2, <2>3, <2>4, <3>1
  <2>5. ASSUME \A i, j \in six : i..j \subseteq six,
               NEW i \in 1..6, NEW j \in 1..6, NEW k \in 1..6, i < j, j < k, when[i] > 0, when[k] > 0
        PROVE  ~(when[j] <= 0)
    <3>1. i \in six /\ k \in six /\ j \in i..k
      BY <2>2, <2>5
    <3>2. when[j] > 0 /\ when[j] \in Int
      BY <1>1, <2>2, <2>5, <3>1
    <3> QED BY <3>2
  <2>6. \A i, j, k \in 1..6 :
          (times[ForkOrder[i]] > 0 /\ times[ForkOrder[j]] <= 0 /\ times[ForkOrder[k]] > 0)
          <=> (when[i] > 0 /\ when[j] <= 0 /\ when[k] > 0)
    BY <1>1
  <2> QED BY <2>4, <2>5, <2>6
<1> QED BY <1>2, <1>3, <1>4 DEF ValidateUpgradeForkSchedule, Sound

LEMMA TimesAre ==
  ASSUME NEW genesis \in [AllForks -> Int]
  PROVE  /\ ScheduleOf(genesis) \in [AllForks -> Int]
         /\ \A f \in AllForks : /\ ScheduleOf(genesis)[f] = IF genesis[f] > 0 THEN genesis[f] ELSE 0
                                /\ ScheduleOf(genesis)[f] > 0 <=> genesis[f] > 0
BY DEF ScheduleOf

\* how the generator starts the forks of a network
Legal(mode, tgt, start, genesis) ==
  <<mode, tgt>> \in ForkTargets /\ start \in Nat \ {0} /\ genesis = Genesis(mode, tgt, start)

\* the number of forks that a target names
Named(mode, tgt) ==
  CASE mode = "poa" -> 0
    [] mode = "posa" -> 4
    [] mode = "smoke" -> IF tgt = "poa" THEN 0 ELSE ForkOrderIndex(tgt)
    [] mode = "upgrade" -> IF tgt \in {"allSame", "allStaggered"} THEN 6 ELSE ForkOrderIndex(tgt)

LEMMA GenesisIs ==
  ASSUME NEW mode, NEW tgt, NEW start, NEW genesis, Legal(mode, tgt, start, genesis)
  PROVE  /\ genesis \in [AllForks -> Int] /\ mode \in {"poa", "posa", "smoke", "upgrade"}
         /\ Named(mode, tgt) \in 0..8
         /\ mode = "upgrade" => Named(mode, tgt) >= 1
         /\ \A f \in AllForks : ForkOrderIndex(f) > Named(mode, tgt) => genesis[f] = Absent
         /\ mode # "upgrade" =>
              \A f \in AllForks : ForkOrderIndex(f) <= Named(mode, tgt) => genesis[f] = 0
         /\ mode = "upgrade" =>
              \/ \A f \in AllForks : ForkOrderIndex(f) <= Named(mode, tgt) => genesis[f] = start
              \/ \A f \in AllForks : ForkOrderIndex(f) <= Named(mode, tgt) =>
                   genesis[f] = start + ForkOrderIndex(f) - 1
         /\ mode = "smoke" => tgt \in AllForks \cup {"poa"}
<1> DEFINE N == Named(mode, tgt)
<1>1. /\ mode \in {"poa", "posa", "smoke", "upgrade"} /\ start \in Nat \ {0}
      /\ mode = "smoke" => tgt \in AllForks \cup {"poa"}
      /\ mode = "upgrade" => tgt \in AllForks \cup {"allSame", "allStaggered"}
      /\ genesis = Genesis(mode, tgt, start)
  BY DEF Legal, ForkTargets
<1>2. "poa" \notin AllForks /\ "allSame" \notin AllForks /\ "allStaggered" \notin AllForks
  BY OrderIs
<1>3. N \in 0..8 /\ (mode = "upgrade" => N >= 1)
  BY <1>1, OrderIs DEF Named
<1>4. CASE mode # "upgrade"
  <2>1. genesis = Upto(N, 0)
    BY <1>1, <1>4 DEF Genesis, Named
  <2>2. genesis \in [AllForks -> Int]
    BY <2>1 DEF Upto, Absent
  <2> HIDE DEF N
  <2> QED BY <1>1, <1>3, <1>4, <2>1, <2>2, UptoIs, OrderIs DEF N
<1>5. CASE mode = "upgrade" /\ tgt # "allStaggered"
  <2>1. genesis = Upto(N, start)
    BY <1>1, <1>2, <1>5 DEF Genesis, Named
  <2>2. genesis \in [AllForks -> Int]
    BY <1>1, <2>1 DEF Upto, Absent
  <2> HIDE DEF N
  <2> QED BY <1>1, <1>3, <1>5, <2>1, <2>2, UptoIs, OrderIs DEF N
<1>6. CASE mode = "upgrade" /\ tgt = "allStaggered"
  <2>1. genesis = [f \in AllForks |-> IF f \in Prefix(6) THEN start + ForkOrderIndex(f) - 1 ELSE Absent]
    BY <1>1, <1>2, <1>6 DEF Genesis
  <2>2. N = 6
    BY <1>6 DEF Named
  <2>3. \A f \in AllForks : f \in Prefix(6) <=> ForkOrderIndex(f) <= 6
    BY UptoIs
  <2>4. genesis \in [AllForks -> Int]
    BY <1>1, <2>1, OrderIs DEF Absent
  <2> HIDE DEF N
  <2> QED BY <1>1, <1>6, <2>1, <2>2, <2>3, <2>4, OrderIs DEF N
<1> QED BY <1>4, <1>5, <1>6

\* what the generator writes is accepted
LEMMA GeneratedSound ==
  ASSUME NEW mode, NEW tgt, NEW start, NEW genesis, Legal(mode, tgt, start, genesis)
  PROVE  ValidateUpgradeForkSchedule(mode, ScheduleOf(genesis))
<1>1. CASE mode # "upgrade"
  BY <1>1 DEF ValidateUpgradeForkSchedule
<1>2. CASE mode = "upgrade"
  <2> DEFINE times == ScheduleOf(genesis)
             when(i) == times[ForkOrder[i]]
             N == Named(mode, tgt)
  <2>1. genesis \in [AllForks -> Int] /\ N \in 1..8 /\ start \in Nat \ {0}
    BY <1>2, GenesisIs DEF Legal
  <2>2. times \in [AllForks -> Int]
    BY <2>1, TimesAre
  <2>3. \A i \in 1..8 : ForkOrder[i] \in AllForks /\ ForkOrderIndex(ForkOrder[i]) = i
    BY OrderIs
  <2>4. \A i \in 1..8 : i > N => when(i) = 0
    BY <2>1, <2>3, GenesisIs, TimesAre DEF Absent
  <2>5. \/ \A i \in 1..8 : i <= N => when(i) = start
        \/ \A i \in 1..8 : i <= N => when(i) = start + i - 1
    <3>1. \/ \A f \in AllForks : ForkOrderIndex(f) <= N => genesis[f] = start
          \/ \A f \in AllForks : ForkOrderIndex(f) <= N => genesis[f] = start + ForkOrderIndex(f) - 1
      BY <1>2, GenesisIs
    <3>2. \A i \in 1..8 : when(i) = IF genesis[ForkOrder[i]] > 0 THEN genesis[ForkOrder[i]] ELSE 0
      BY <2>1, <2>3, TimesAre
    <3> HIDE DEF when, N
    <3> QED BY <2>1, <2>3, <3>1, <3>2
  <2> HIDE DEF N, times
  <2>6. \A i \in 1..8 : when(i) \in Int /\ (when(i) > 0 <=> i <= N)
    BY <2>1, <2>4, <2>5
  <2>7. Sound(times)
    <3> DEFINE on == {i \in 1..8 : when(i) > 0}
    <3>1. \A i \in 1..8 : i \in on <=> i <= N
      BY <2>6
    <3>2. 1 \in on
      BY <2>1, <3>1
    <3>3. \A i, j \in on : i < j => when(i) <= when(j)
      <4> SUFFICES ASSUME NEW i \in on, NEW j \in on, i < j PROVE when(i) <= when(j)
        OBVIOUS
      <4>1. i \in 1..8 /\ j \in 1..8 /\ i <= N /\ j <= N
        BY <3>1
      <4> HIDE DEF when
      <4> QED BY <2>1, <2>5, <4>1
    <3>4. \A i, j \in on \cap 1..6 : i..j \subseteq on \cap 1..6
      <4> SUFFICES ASSUME NEW i \in on \cap 1..6, NEW j \in on \cap 1..6, NEW k \in i..j
                   PROVE  k \in on /\ k \in 1..6
        OBVIOUS
      <4>1. i \in 1..6 /\ j \in 1..6 /\ j <= N
        BY <3>1
      <4>2. k \in 1..6 /\ k <= N
        BY <2>1, <4>1
      <4> HIDE DEF on
      <4> QED BY <3>1, <4>2
    <3> QED BY <3>2, <3>3, <3>4 DEF Sound
  <2> QED BY <1>2, <2>2, <2>7, ValidatedIs DEF times
<1> QED BY <1>1, <1>2


(***************************************************************************)
(* What a node of the network n answers at the time t. These are Started,  *)
(* Shows, Answer, Answers and Cfg of Forks, for a network and a time that  *)
(* are given.                                                              *)
(***************************************************************************)
StartedIn(n, t, f) == n.genesis[f] # Absent /\ t >= n.genesis[f]
ShowsIn(n, t, s) == IF n.flaw.surface = s THEN n.flaw.early ELSE StartedIn(n, t, BroughtBy[s])
BlobsIn(n, t) ==
  IF ShowsIn(n, t, "bpo2Blobs") THEN "bpo2" ELSE IF ShowsIn(n, t, "bpo1Blobs") THEN "bpo1"
  ELSE IF ShowsIn(n, t, "pragueBlobs") THEN "prague"
  ELSE IF ShowsIn(n, t, "cancunBlobs") THEN "cancun" ELSE None
NextIn(n, t) == \E f \in AllForks : n.genesis[f] > t
Certain == {"deployed", "payloadBuilt", "blobsV2null", "modexpHigh"}
AnswerIn(n, t, what) ==
  CASE what = "blobs" -> BlobsIn(n, t)
    [] what = "next" -> YesNo(NextIn(n, t))
    [] what = "payloadV4" -> YesNo(~ShowsIn(n, t, "payloadV5"))
    [] what \in Certain -> "yes"
    [] OTHER -> YesNo(ShowsIn(n, t, what))
AnswersIn(n, t, want) == \A what \in DOMAIN want : AnswerIn(n, t, what) = want[what]
CfgIn(n) == [mode |-> n.mode, target |-> n.target, times |-> ScheduleOf(n.genesis)]
ActiveIn(n, t, f) == ForkIsActive(CfgIn(n), f, t)

LEMMA AsGiven ==
  /\ \A want : Answers(want) <=> AnswersIn(net, now, want)
  /\ Cfg = CfgIn(net)
<1>1. \A f : Started(f) <=> StartedIn(net, now, f)
  BY DEF Started, StartedIn
<1>2. \A s : Shows(s) <=> ShowsIn(net, now, s)
  BY <1>1 DEF Shows, ShowsIn
<1>3. \A w : Answer(w) = AnswerIn(net, now, w)
  <2> SUFFICES ASSUME NEW w PROVE Answer(w) = AnswerIn(net, now, w)
    OBVIOUS
  <2>0. \A x \in {"blobs", "next", "payloadV4"} : x \notin Certain
    BY DEF Certain
  <2>1. CASE w = "blobs"
    BY <1>2, <2>0, <2>1 DEF Answer, AnswerIn, BlobsIn, Certain
  <2>2. CASE w = "next"
    BY <2>0, <2>2 DEF Answer, AnswerIn, NextIn, Certain
  <2>3. CASE w \notin {"blobs", "next"}
    <3>1. YesNo(Shows(w)) = YesNo(ShowsIn(net, now, w))
          /\ YesNo(~Shows("payloadV5")) = YesNo(~ShowsIn(net, now, "payloadV5"))
      BY <1>2 DEF YesNo
    <3>2. CASE w = "payloadV4"
      BY <2>0, <3>1, <3>2 DEF Answer, AnswerIn, Certain
    <3>3. CASE w \in Certain
      BY <2>0, <2>3, <3>3 DEF Answer, AnswerIn, Certain
    <3>4. CASE w \notin Certain \cup {"payloadV4"}
      BY <2>3, <3>1, <3>4 DEF Answer, AnswerIn, Certain
    <3> QED BY <3>2, <3>3, <3>4
  <2> QED BY <2>1, <2>2, <2>3
<1>4. \A want : Answers(want) <=> AnswersIn(net, now, want)
  BY <1>3 DEF Answers, AnswersIn
<1> QED BY <1>4 DEF Cfg, CfgIn

LEMMA AnswerIs ==
  ASSUME NEW n, NEW t, n.flaw.early \in BOOLEAN
  PROVE  /\ \A s \in Surfaces : (AnswerIn(n, t, s) = "yes" <=> ShowsIn(n, t, s))
                                /\ (AnswerIn(n, t, s) = "no" <=> ~ShowsIn(n, t, s))
         /\ \A w \in Certain : AnswerIn(n, t, w) = "yes"
         /\ (AnswerIn(n, t, "payloadV4") = "yes" <=> ~ShowsIn(n, t, "payloadV5"))
         /\ (AnswerIn(n, t, "payloadV4") = "no" <=> ShowsIn(n, t, "payloadV5"))
         /\ AnswerIn(n, t, "blobs") = BlobsIn(n, t)
         /\ AnswerIn(n, t, "next") = "no" <=> ~NextIn(n, t)
<1>1. /\ \A w \in {"blobs", "next", "payloadV4"} : w \notin Surfaces /\ w \notin Certain
      /\ \A w \in Certain : w \notin Surfaces
  BY DEF Surfaces, BroughtBy, Certain
<1>2. \A s \in Surfaces : AnswerIn(n, t, s) = YesNo(ShowsIn(n, t, s))
  BY <1>1 DEF AnswerIn
<1>3. /\ AnswerIn(n, t, "payloadV4") = YesNo(~ShowsIn(n, t, "payloadV5"))
      /\ AnswerIn(n, t, "next") = YesNo(NextIn(n, t))
      /\ AnswerIn(n, t, "blobs") = BlobsIn(n, t)
  BY <1>1 DEF AnswerIn
<1>4. \A w \in Certain : AnswerIn(n, t, w) = "yes"
  BY <1>1 DEF AnswerIn, Certain
<1>5. \A b : (YesNo(b) = "yes" <=> b) /\ (YesNo(b) = "no" <=> ~b)
  BY DEF YesNo
<1> QED BY <1>2, <1>3, <1>4, <1>5

(***************************************************************************)
(* A list of calls, if all of them are answered.                           *)
(***************************************************************************)
CallFails(n, t, c) ==
  IF c.kind = "surface"
  THEN \/ ~AnswersIn(n, t, BlockWanted(CfgIn(n), t))
       \/ /\ n.impl = "geth" /\ BlobsWanted(CfgIn(n), t) # "unasked"
          /\ BlobsIn(n, t) # BlobsWanted(CfgIn(n), t)
  ELSE ~AnswersIn(n, t, c.want)
Fine(n, t, l) == \A i \in DOMAIN l : ~CallFails(n, t, l[i])
Whats == Surfaces \cup Certain \cup {"blobs", "next", "payloadV4"}
Proper(c, K) == c.kind \in K /\ DOMAIN c.want \subseteq Whats
Listed(l, K) == (\E S : l \in Seq(S)) /\ \A i \in DOMAIN l : Proper(l[i], K)
Plain2 == {"call", "surface"}
Inverse2 == {"mismatch"}

LEMMA NoCall ==
  ASSUME NEW n, NEW t, NEW K
  PROVE  Listed(<<>>, K) /\ Fine(n, t, <<>>)
<1>1. <<>> \in Seq({}) /\ DOMAIN <<>> = {}
  OBVIOUS
<1> QED BY <1>1 DEF Listed, Fine

LEMMA OneCall ==
  ASSUME NEW n, NEW t, NEW K, NEW x
  PROVE  /\ Fine(n, t, <<x>>) <=> ~CallFails(n, t, x)
         /\ Proper(x, K) => Listed(<<x>>, K)
         /\ <<x>> # <<>> /\ Head(<<x>>) = x
<1>1. <<x>> \in Seq({x}) /\ DOMAIN <<x>> = {1} /\ <<x>>[1] = x /\ <<x>> # <<>> /\ Head(<<x>>) = x
  OBVIOUS
<1> QED BY <1>1 DEF Fine, Listed

LEMMA TwoCalls ==
  ASSUME NEW n, NEW t, NEW K, NEW x, NEW y
  PROVE  /\ Fine(n, t, <<x, y>>) <=> ~CallFails(n, t, x) /\ ~CallFails(n, t, y)
         /\ Proper(x, K) /\ Proper(y, K) => Listed(<<x, y>>, K)
         /\ <<x, y>> # <<>> /\ Head(<<x, y>>) = x
<1> DEFINE l == <<x, y>>
<1>1. l \in Seq({x, y}) /\ DOMAIN l = {1, 2} /\ l[1] = x /\ l[2] = y /\ l # <<>> /\ Head(l) = x
  OBVIOUS
<1> HIDE DEF l
<1>2. Fine(n, t, l) <=> ~CallFails(n, t, x) /\ ~CallFails(n, t, y)
  BY <1>1 DEF Fine
<1>3. Proper(x, K) /\ Proper(y, K) => Listed(l, K)
  BY <1>1 DEF Listed
<1> QED BY <1>1, <1>2, <1>3 DEF l

LEMMA ThreeCalls ==
  ASSUME NEW n, NEW t, NEW K, NEW x, NEW y, NEW z
  PROVE  /\ Fine(n, t, <<x, y, z>>) <=>
              ~CallFails(n, t, x) /\ ~CallFails(n, t, y) /\ ~CallFails(n, t, z)
         /\ Proper(x, K) /\ Proper(y, K) /\ Proper(z, K) => Listed(<<x, y, z>>, K)
         /\ <<x, y, z>> # <<>> /\ Head(<<x, y, z>>) = x
<1> DEFINE l == <<x, y, z>>
<1>1. /\ l \in Seq({x, y, z}) /\ DOMAIN l = {1, 2, 3} /\ l[1] = x /\ l[2] = y /\ l[3] = z
      /\ l # <<>> /\ Head(l) = x
  OBVIOUS
<1> HIDE DEF l
<1>2. Fine(n, t, l) <=> ~CallFails(n, t, x) /\ ~CallFails(n, t, y) /\ ~CallFails(n, t, z)
  BY <1>1 DEF Fine
<1>3. Proper(x, K) /\ Proper(y, K) /\ Proper(z, K) => Listed(l, K)
  BY <1>1 DEF Listed
<1> QED BY <1>1, <1>2, <1>3 DEF l

\* two lists after one another
LEMMA Joined ==
  ASSUME NEW n, NEW t, NEW K, NEW l, NEW m, Listed(l, K), Listed(m, K)
  PROVE  /\ Listed(l \o m, K)
         /\ Fine(n, t, l \o m) <=> Fine(n, t, l) /\ Fine(n, t, m)
         /\ l # <<>> => l \o m # <<>> /\ Head(l \o m) = Head(l)
<1>1. PICK S1, S2 : l \in Seq(S1) /\ m \in Seq(S2)
  BY DEF Listed
<1>2. PICK S : l \in Seq(S) /\ m \in Seq(S)
  <2>1. l \in Seq(S1 \cup S2) /\ m \in Seq(S1 \cup S2)
    BY <1>1, SeqMonotonic
  <2> QED BY <2>1
<1> DEFINE j == l \o m
<1>3. /\ j \in Seq(S) /\ Len(l) \in Nat /\ Len(m) \in Nat
      /\ DOMAIN l = 1..Len(l) /\ DOMAIN m = 1..Len(m) /\ DOMAIN j = 1..(Len(l) + Len(m))
      /\ \A i \in 1..(Len(l) + Len(m)) : j[i] = IF i <= Len(l) THEN l[i] ELSE m[i - Len(l)]
  BY <1>2, ConcatProperties, LenProperties
<1> HIDE DEF j
<1>4. \A i \in DOMAIN l : i \in DOMAIN j /\ j[i] = l[i]
  BY <1>3
<1>5. \A i \in DOMAIN m : i + Len(l) \in DOMAIN j /\ j[i + Len(l)] = m[i]
  BY <1>3
<1>6. \A i \in DOMAIN j : (i \in DOMAIN l /\ j[i] = l[i]) \/ (i - Len(l) \in DOMAIN m /\ j[i] = m[i - Len(l)])
  BY <1>3
<1>7. Listed(j, K)
  BY <1>3, <1>6 DEF Listed
<1>8. Fine(n, t, j) <=> Fine(n, t, l) /\ Fine(n, t, m)
  BY <1>4, <1>5, <1>6 DEF Fine
<1>9. ASSUME l # <<>> PROVE j # <<>> /\ Head(j) = Head(l)
  <2>1. Len(l) > 0 /\ Len(j) = Len(l) + Len(m)
    BY <1>2, <1>3, <1>9, EmptySeq, ConcatProperties DEF j
  <2>2. 1 \in DOMAIN l /\ j[1] = l[1] /\ Head(l) = l[1]
    BY <1>2, <1>3, <1>4, <2>1
  <2>3. j # <<>> /\ Head(j) = j[1]
    BY <1>3, <2>1
  <2> QED BY <2>2, <2>3
<1> QED BY <1>7, <1>8, <1>9 DEF j

\* the first call, and the rest
LEMMA FirstCall ==
  ASSUME NEW n, NEW t, NEW K, NEW l, Listed(l, K), l # <<>>
  PROVE  /\ Head(l).kind \in K /\ Listed(Tail(l), K)
         /\ Fine(n, t, l) <=> ~CallFails(n, t, Head(l)) /\ Fine(n, t, Tail(l))
<1>1. PICK S : l \in Seq(S)
  BY DEF Listed
<1>2. /\ Len(l) \in Nat \ {0} /\ DOMAIN l = 1..Len(l) /\ Head(l) = l[1] /\ Tail(l) \in Seq(S)
      /\ Len(Tail(l)) = Len(l) - 1 /\ DOMAIN Tail(l) = 1..(Len(l) - 1)
      /\ \A i \in 1..(Len(l) - 1) : Tail(l)[i] = l[i + 1]
  BY <1>1, HeadTailProperties, LenProperties, EmptySeq
<1> DEFINE m == Tail(l)
<1>3. \A i \in DOMAIN m : i + 1 \in DOMAIN l /\ m[i] = l[i + 1]
  BY <1>2
<1>4. \A i \in DOMAIN l : i = 1 \/ (i - 1 \in DOMAIN m /\ m[i - 1] = l[i])
  BY <1>2
<1>5. 1 \in DOMAIN l /\ Head(l) = l[1] /\ m \in Seq(S)
  BY <1>2
<1> HIDE DEF m
<1>6. Head(l).kind \in K /\ Listed(m, K)
  BY <1>3, <1>5 DEF Listed, Proper
<1>7. Fine(n, t, l) <=> ~CallFails(n, t, Head(l)) /\ Fine(n, t, m)
  BY <1>3, <1>4, <1>5 DEF Fine
<1> QED BY <1>6, <1>7 DEF m

\* a call that asks one thing
LEMMA AsksOne ==
  ASSUME NEW n, NEW t, NEW want, NEW what, DOMAIN want = {what}
  PROVE  /\ CallFails(n, t, Call(want)) <=> AnswerIn(n, t, what) # want[what]
         /\ CallFails(n, t, Mismatch(want)) <=> AnswerIn(n, t, what) # want[what]
         /\ what \in Whats => Proper(Call(want), Plain2) /\ Proper(Mismatch(want), Inverse2)
BY DEF CallFails, Call, Mismatch, AnswersIn, Proper, Plain2, Inverse2

\* a call that wants to see a surface, or not to see it
LEMMA ProperCall ==
  ASSUME NEW want, NEW what \in Whats, DOMAIN want = {what}
  PROVE  Proper(Call(want), Plain2) /\ Proper(Mismatch(want), Inverse2)
BY DEF Call, Mismatch, Proper, Plain2, Inverse2

LEMMA SeesIs ==
  ASSUME NEW n, NEW t, NEW s \in Surfaces, NEW a \in BOOLEAN, n.flaw.early \in BOOLEAN
  PROVE  /\ Proper(Sees(s, a), Plain2)
         /\ CallFails(n, t, Sees(s, a)) <=> (ShowsIn(n, t, s) <=> a)
         /\ Listed(<<Sees(s, a)>>, Plain2) /\ <<Sees(s, a)>> # <<>>
         /\ Fine(n, t, <<Sees(s, a)>>) <=> (ShowsIn(n, t, s) <=> ~a)
<1> DEFINE want == [x \in {s} |-> YesNo(~a)]
           c == Call(want)
<1>1. DOMAIN want = {s} /\ want[s] = YesNo(~a) /\ s \in Whats
  BY DEF Whats
<1> HIDE DEF want
<1>2. Proper(c, Plain2)
  BY <1>1, ProperCall
<1>3. CallFails(n, t, c) <=> AnswerIn(n, t, s) # want[s]
  BY <1>1, AsksOne
<1>4. AnswerIn(n, t, s) # want[s] <=> (ShowsIn(n, t, s) <=> a)
  <2>1. (AnswerIn(n, t, s) = "yes" <=> ShowsIn(n, t, s)) /\ (AnswerIn(n, t, s) = "no" <=> ~ShowsIn(n, t, s))
    BY AnswerIs
  <2>2. CASE a = TRUE
    BY <1>1, <2>1, <2>2 DEF YesNo
  <2>3. CASE a = FALSE
    BY <1>1, <2>1, <2>3 DEF YesNo
  <2> QED BY <2>2, <2>3
<1> HIDE DEF c
<1>5. Listed(<<c>>, Plain2) /\ <<c>> # <<>> /\ (Fine(n, t, <<c>>) <=> ~CallFails(n, t, c))
  BY <1>2, OneCall
<1>6. Sees(s, a) = c
  BY DEF Sees, c, want
<1> QED BY <1>2, <1>3, <1>4, <1>5, <1>6

\* calls whose answer is certain
LEMMA CertainCalls ==
  ASSUME NEW n, NEW t, n.flaw.early \in BOOLEAN
  PROVE  \A c \in {Call([deployed |-> "yes"]), Call([payloadBuilt |-> "yes"]),
                   Call([blobsV2null |-> "yes"]), Call([modexpHigh |-> "yes"])} :
           Proper(c, Plain2) /\ ~CallFails(n, t, c)
<1>1. ASSUME NEW want, NEW w \in Certain, DOMAIN want = {w}, want[w] = "yes"
      PROVE  Proper(Call(want), Plain2) /\ ~CallFails(n, t, Call(want))
  <2>1. CallFails(n, t, Call(want)) <=> AnswerIn(n, t, w) # want[w]
    BY <1>1, AsksOne
  <2>2. AnswerIn(n, t, w) = "yes"
    BY AnswerIs
  <2>3. Proper(Call(want), Plain2)
    BY <1>1, ProperCall DEF Whats
  <2> QED BY <1>1, <2>1, <2>2, <2>3
<1>2. /\ DOMAIN [deployed |-> "yes"] = {"deployed"} /\ [deployed |-> "yes"]["deployed"] = "yes"
      /\ DOMAIN [payloadBuilt |-> "yes"] = {"payloadBuilt"}
      /\ [payloadBuilt |-> "yes"]["payloadBuilt"] = "yes"
      /\ DOMAIN [blobsV2null |-> "yes"] = {"blobsV2null"}
      /\ [blobsV2null |-> "yes"]["blobsV2null"] = "yes"
      /\ DOMAIN [modexpHigh |-> "yes"] = {"modexpHigh"} /\ [modexpHigh |-> "yes"]["modexpHigh"] = "yes"
  OBVIOUS
<1>3. "deployed" \in Certain /\ "payloadBuilt" \in Certain /\ "blobsV2null" \in Certain /\ "modexpHigh" \in Certain
  BY DEF Certain
<1> QED BY <1>1, <1>2, <1>3

(***************************************************************************)
(* Networks that the generator has written: which forks have come, and     *)
(* which of them the tests take to be active.                              *)
(***************************************************************************)
InOrder(n, t) ==
  /\ \A f \in AllForks : ActiveIn(n, t, f) => StartedIn(n, t, f)
  /\ (\E f \in AllForks : ActiveIn(n, t, f)) =>
       \A f \in AllForks : ActiveIn(n, t, f) <=> StartedIn(n, t, f)
  /\ \A f, g \in AllForks :
       ForkOrderIndex(f) <= ForkOrderIndex(g) /\ StartedIn(n, t, g) => StartedIn(n, t, f)

LEMMA ActiveIs ==
  ASSUME NEW n, NEW t, n.genesis \in [AllForks -> Int], NEW f \in AllForks
  PROVE  ActiveIn(n, t, f) <=>
           IF n.mode = "smoke"
           THEN n.target # "poa" /\ ForkOrderIndex(f) <= ForkOrderIndex(n.target)
           ELSE n.genesis[f] > 0 /\ t >= n.genesis[f]
BY TimesAre DEF ActiveIn, CfgIn, ForkIsActive

LEMMA GeneratedInOrder ==
  ASSUME NEW n, NEW t \in Nat, NEW start, Legal(n.mode, n.target, start, n.genesis)
  PROVE  /\ InOrder(n, t)
         /\ n.mode \in {"poa", "smoke"} =>
              \A f \in AllForks : /\ StartedIn(n, t, f) <=> ForkOrderIndex(f) <= Named(n.mode, n.target)
                                  /\ ActiveIn(n, t, f) <=> ForkOrderIndex(f) <= Named(n.mode, n.target)
                                  /\ n.genesis[f] <= 0
<1> DEFINE N == Named(n.mode, n.target)
<1>1. /\ n.genesis \in [AllForks -> Int] /\ n.mode \in {"poa", "posa", "smoke", "upgrade"}
      /\ N \in 0..8 /\ start \in Nat \ {0}
      /\ \A f \in AllForks : ForkOrderIndex(f) > N => n.genesis[f] = Absent
      /\ n.mode = "smoke" => n.target \in AllForks \cup {"poa"}
  BY GenesisIs DEF Legal
<1>2. \A f \in AllForks : ForkOrderIndex(f) \in 1..8
  BY OrderIs
<1>3. CASE n.mode # "upgrade"
  <2>1. \A f \in AllForks : n.genesis[f] = IF ForkOrderIndex(f) <= N THEN 0 ELSE Absent
    BY <1>1, <1>2, <1>3, GenesisIs
  <2>2. \A f \in AllForks : StartedIn(n, t, f) <=> ForkOrderIndex(f) <= N
    BY <1>1, <1>2, <2>1 DEF StartedIn, Absent
  <2>3. n.mode = "smoke" => \A f \in AllForks : ActiveIn(n, t, f) <=> ForkOrderIndex(f) <= N
    <3> SUFFICES ASSUME n.mode = "smoke", NEW f \in AllForks
                 PROVE  ActiveIn(n, t, f) <=> ForkOrderIndex(f) <= N
      OBVIOUS
    <3>1. ActiveIn(n, t, f) <=> n.target # "poa" /\ ForkOrderIndex(f) <= ForkOrderIndex(n.target)
      BY <1>1, ActiveIs
    <3>2. N = IF n.target = "poa" THEN 0 ELSE ForkOrderIndex(n.target)
      BY DEF Named
    <3> HIDE DEF N
    <3> QED BY <1>2, <3>1, <3>2
  <2>4. n.mode # "smoke" => \A f \in AllForks : ~ActiveIn(n, t, f)
    BY <1>1, <2>1, ActiveIs DEF Absent
  <2>5. n.mode = "poa" => N = 0
    BY DEF Named
  <2>6. \A f \in AllForks : n.genesis[f] <= 0
    BY <2>1 DEF Absent
  <2> HIDE DEF N
  <2>7. InOrder(n, t)
    BY <1>1, <1>2, <2>2, <2>3, <2>4 DEF InOrder
  <2> QED BY <1>2, <2>2, <2>3, <2>4, <2>5, <2>6, <2>7 DEF N
<1>4. CASE n.mode = "upgrade"
  <2>1. \A f \in AllForks : n.genesis[f] = Absent \/ n.genesis[f] > 0
    <3>1. \/ \A f \in AllForks : ForkOrderIndex(f) <= N => n.genesis[f] = start
          \/ \A f \in AllForks : ForkOrderIndex(f) <= N => n.genesis[f] = start + ForkOrderIndex(f) - 1
      BY <1>4, GenesisIs
    <3> HIDE DEF N
    <3> QED BY <1>1, <1>2, <3>1
  <2>2. \A f \in AllForks : ActiveIn(n, t, f) <=> StartedIn(n, t, f)
    BY <1>1, <1>4, <2>1, ActiveIs DEF StartedIn, Absent
  <2>3. ASSUME NEW f \in AllForks, NEW g \in AllForks,
               ForkOrderIndex(f) <= ForkOrderIndex(g), StartedIn(n, t, g)
        PROVE  StartedIn(n, t, f)
    <3>1. n.genesis[g] # Absent /\ t >= n.genesis[g]
      BY <2>3 DEF StartedIn
    <3>2. ForkOrderIndex(g) <= N /\ ForkOrderIndex(f) <= N
      BY <1>1, <1>2, <2>3, <3>1
    <3>3. \/ \A h \in AllForks : ForkOrderIndex(h) <= N => n.genesis[h] = start
          \/ \A h \in AllForks : ForkOrderIndex(h) <= N => n.genesis[h] = start + ForkOrderIndex(h) - 1
      BY <1>4, GenesisIs
    <3>4. n.genesis[f] <= n.genesis[g] /\ n.genesis[f] > 0 /\ n.genesis[f] \in Int /\ n.genesis[g] \in Int
      <4> HIDE DEF N
      <4> QED BY <1>1, <1>2, <2>3, <3>2, <3>3
    <3> QED BY <3>1, <3>4 DEF StartedIn, Absent
  <2> QED BY <1>4, <2>2, <2>3 DEF InOrder
<1> QED BY <1>3, <1>4

\* what the surface call looks at
SurfaceFails(n, t) ==
  \/ \E w \in {"blobFields", "beaconRoot", "requestsHash"} :
       ActiveIn(n, t, BroughtBy[w]) /\ ~ShowsIn(n, t, w)
  \/ /\ n.impl = "geth" /\ BlobsWanted(CfgIn(n), t) # "unasked"
     /\ BlobsIn(n, t) # BlobsWanted(CfgIn(n), t)

LEMMA SurfaceIs ==
  ASSUME NEW n, NEW t, n.flaw.early \in BOOLEAN
  PROVE  /\ CallFails(n, t, SurfaceCall) <=> SurfaceFails(n, t)
         /\ AnswersIn(n, t, BlockWanted(CfgIn(n), t)) <=>
              \A w \in {"blobFields", "beaconRoot", "requestsHash"} :
                ActiveIn(n, t, BroughtBy[w]) => ShowsIn(n, t, w)
         /\ BlobsWanted(CfgIn(n), t) =
              IF ActiveIn(n, t, "bpo2") THEN "bpo2" ELSE IF ActiveIn(n, t, "bpo1") THEN "bpo1"
              ELSE IF ActiveIn(n, t, "osaka") \/ ActiveIn(n, t, "prague") THEN "prague"
              ELSE IF ActiveIn(n, t, "cancun") THEN "cancun" ELSE "unasked"
<1> DEFINE W == {"blobFields", "beaconRoot", "requestsHash"}
           B == BlockWanted(CfgIn(n), t)
<1>1. DOMAIN B = {w \in W : ActiveIn(n, t, BroughtBy[w])} /\ \A w \in DOMAIN B : B[w] = "yes"
  BY DEF BlockWanted, ActiveIn
<1>2. \A w \in W : w \in Surfaces
  BY DEF Surfaces, BroughtBy
<1>3. \A w \in W : AnswerIn(n, t, w) = "yes" <=> ShowsIn(n, t, w)
  BY <1>2, AnswerIs
<1> HIDE DEF B
<1>4. AnswersIn(n, t, B) <=> \A w \in W : ActiveIn(n, t, BroughtBy[w]) => ShowsIn(n, t, w)
  BY <1>1, <1>3 DEF AnswersIn
<1>5. CallFails(n, t, SurfaceCall) <=> SurfaceFails(n, t)
  BY <1>4 DEF CallFails, SurfaceCall, SurfaceFails, B
<1>6. BlobsWanted(CfgIn(n), t) =
        IF ActiveIn(n, t, "bpo2") THEN "bpo2" ELSE IF ActiveIn(n, t, "bpo1") THEN "bpo1"
        ELSE IF ActiveIn(n, t, "osaka") \/ ActiveIn(n, t, "prague") THEN "prague"
        ELSE IF ActiveIn(n, t, "cancun") THEN "cancun" ELSE "unasked"
  BY DEF BlobsWanted, ActiveIn
<1> QED BY <1>4, <1>5, <1>6 DEF B

\* the surface of a faithful node is not found wanting
LEMMA FaithfulSurface ==
  ASSUME NEW n, NEW t, n.flaw.early \in BOOLEAN, n.flaw.surface = None, InOrder(n, t)
  PROVE  /\ \A s \in Surfaces : ShowsIn(n, t, s) <=> StartedIn(n, t, BroughtBy[s])
         /\ ~CallFails(n, t, SurfaceCall)
         /\ BlobsWanted(CfgIn(n), t) # "unasked" => BlobsIn(n, t) = BlobsWanted(CfgIn(n), t)
<1> DEFINE S(f) == StartedIn(n, t, f)
           A(f) == ActiveIn(n, t, f)
<1>1. \A s \in Surfaces : ShowsIn(n, t, s) <=> S(BroughtBy[s])
  BY DEF ShowsIn, Surfaces, BroughtBy, None
<1>2. /\ \A s \in {"blobFields", "beaconRoot", "requestsHash", "bpo2Blobs", "bpo1Blobs", "pragueBlobs",
                   "cancunBlobs"} : s \in Surfaces
      /\ BroughtBy["bpo2Blobs"] = "bpo2" /\ BroughtBy["bpo1Blobs"] = "bpo1"
      /\ BroughtBy["pragueBlobs"] = "prague" /\ BroughtBy["cancunBlobs"] = "cancun"
      /\ BroughtBy["blobFields"] = "cancun" /\ BroughtBy["beaconRoot"] = "fixheader"
      /\ BroughtBy["requestsHash"] = "prague"
  BY DEF Surfaces, BroughtBy
<1>3. BlobsIn(n, t) = IF S("bpo2") THEN "bpo2" ELSE IF S("bpo1") THEN "bpo1"
                      ELSE IF S("prague") THEN "prague" ELSE IF S("cancun") THEN "cancun" ELSE None
  BY <1>1, <1>2 DEF BlobsIn
<1> HIDE DEF S, A
<1>4. /\ \A f \in AllForks : A(f) => S(f)
      /\ (\E f \in AllForks : A(f)) => \A f \in AllForks : A(f) <=> S(f)
      /\ S("osaka") => S("prague")
  BY OrderIs, IndexIs DEF InOrder, S, A
<1>5. BlobsWanted(CfgIn(n), t) =
        IF A("bpo2") THEN "bpo2" ELSE IF A("bpo1") THEN "bpo1"
        ELSE IF A("osaka") \/ A("prague") THEN "prague"
        ELSE IF A("cancun") THEN "cancun" ELSE "unasked"
  BY SurfaceIs DEF A
<1>6. BlobsWanted(CfgIn(n), t) # "unasked" => BlobsIn(n, t) = BlobsWanted(CfgIn(n), t)
  BY <1>3, <1>4, <1>5, OrderIs
<1>7. \A w \in {"blobFields", "beaconRoot", "requestsHash"} : A(BroughtBy[w]) => ShowsIn(n, t, w)
  BY <1>1, <1>2, <1>4, OrderIs
<1> QED BY <1>1, <1>6, <1>7, SurfaceIs DEF SurfaceFails, S, A

(***************************************************************************)
(* One call of a check: the check goes on with a list that fails when the  *)
(* one before it does, or it ends, and has failed when the list did.       *)
(***************************************************************************)
Fails(n, t, l) == IF Head(l).kind = "mismatch" THEN Fine(n, t, l) ELSE ~Fine(n, t, l)
GoesOn(l) ==
  /\ asks' = l /\ UNCHANGED <<check, failed, verdict>>
  /\ l # <<>> /\ (Fails(net, now, l) <=> Fails(net, now, asks))
BlockIsFine == AnswersIn(net, now, BlockWanted(CfgIn(net), now))

LEMMA BlobProper == \A b : Proper(VerifyEthConfigBlobSchedule(b), Plain2)
BY DEF VerifyEthConfigBlobSchedule, Call, Proper, Plain2, Whats

LEMMA BlobCall ==
  ASSUME NEW n, NEW t, NEW b, n.flaw.early \in BOOLEAN
  PROVE  CallFails(n, t, VerifyEthConfigBlobSchedule(b)) <=> BlobsIn(n, t) # b
<1> DEFINE want == [blobs |-> b]
<1>1. DOMAIN want = {"blobs"} /\ want["blobs"] = b
  OBVIOUS
<1> HIDE DEF want
<1>2. CallFails(n, t, Call(want)) <=> AnswerIn(n, t, "blobs") # b
  BY <1>1, AsksOne
<1> QED BY <1>2, AnswerIs DEF VerifyEthConfigBlobSchedule, want

LEMMA AskDoes ==
  ASSUME Ask, net.flaw.early \in BOOLEAN, asks # <<>>, NEW K \in {Plain2, Inverse2}, Listed(asks, K)
  PROVE  \/ \E l : GoesOn(l) /\ Listed(l, K) /\ (Head(asks).kind = "surface" => BlockIsFine)
         \/ EndCheck(TRUE) /\ ~Fails(net, now, asks) /\ (Head(asks).kind = "surface" => BlockIsFine)
         \/ EndCheck(FALSE) /\ Fails(net, now, asks)
<1> DEFINE call == Head(asks)
           rest == Tail(asks)
           blobs == BlobsWanted(CfgIn(net), now)
           more == IF net.impl = "geth" /\ blobs # "unasked"
                   THEN <<VerifyEthConfigBlobSchedule(blobs)>> ELSE <<>>
           F(l) == Fine(net, now, l)
<1>1. /\ call.kind \in K /\ Listed(rest, K)
      /\ F(asks) <=> ~CallFails(net, now, call) /\ F(rest)
  BY FirstCall
<1>2. F(<<>>)
  BY NoCall
<1>3. \A l : l # <<>> /\ Listed(l, K) => Head(l).kind \in K
  BY FirstCall
<1>4. \A want : Answers(want) <=> AnswersIn(net, now, want)
  BY AsGiven
<1>5. CASE call.kind = "call" \/ call.kind = "mismatch"
  <2>1. CallFails(net, now, call) <=> ~Answers(call.want)
    BY <1>4, <1>5 DEF CallFails
  <2>2. \/ /\ call.kind = "call"
           /\ IF ~Answers(call.want) THEN EndCheck(FALSE)
              ELSE IF rest = <<>> THEN EndCheck(TRUE)
              ELSE asks' = rest /\ UNCHANGED <<check, failed, verdict>>
        \/ /\ call.kind = "mismatch"
           /\ IF ~Answers(call.want) THEN EndCheck(TRUE)
              ELSE IF rest = <<>> THEN EndCheck(FALSE)
              ELSE asks' = rest /\ UNCHANGED <<check, failed, verdict>>
    BY <1>5 DEF Ask
  <2>3. Fails(net, now, asks) <=> IF call.kind = "mismatch" THEN F(asks) ELSE ~F(asks)
    BY DEF Fails
  <2>4. ASSUME rest # <<>>
        PROVE  Fails(net, now, rest) <=> IF call.kind = "mismatch" THEN F(rest) ELSE ~F(rest)
    <3>1. Head(rest).kind \in K /\ call.kind \in K
      BY <1>1, <1>3, <2>4
    <3>2. Head(rest).kind = "mismatch" <=> call.kind = "mismatch"
      <4> DEFINE a == Head(rest).kind
                 b == call.kind
      <4>1. a \in K /\ b \in K
        BY <3>1
      <4> HIDE DEF a, b
      <4>2. a = "mismatch" <=> b = "mismatch"
        BY <4>1 DEF Plain2, Inverse2
      <4> QED BY <4>2 DEF a, b
    <3> QED BY <3>2 DEF Fails
  <2> HIDE DEF call, rest, F
  <2>5. CASE ~Answers(call.want)
    <3>1. ~F(asks)
      BY <1>1, <2>1, <2>5
    <3>2. CASE call.kind = "call"
      <4>1. EndCheck(FALSE) /\ Fails(net, now, asks)
        BY <2>2, <2>3, <2>5, <3>1, <3>2
      <4> QED BY <4>1
    <3>3. CASE call.kind = "mismatch"
      <4>1. EndCheck(TRUE) /\ ~Fails(net, now, asks)
        BY <2>2, <2>3, <2>5, <3>1, <3>3
      <4> QED BY <3>3, <4>1 DEF call
    <3> QED BY <1>5, <3>2, <3>3
  <2>6. CASE Answers(call.want) /\ rest = <<>>
    <3>1. F(asks)
      BY <1>1, <1>2, <2>1, <2>6
    <3>2. CASE call.kind = "call"
      <4>1. EndCheck(TRUE) /\ ~Fails(net, now, asks)
        BY <2>2, <2>3, <2>6, <3>1, <3>2
      <4> QED BY <3>2, <4>1 DEF call
    <3>3. CASE call.kind = "mismatch"
      <4>1. EndCheck(FALSE) /\ Fails(net, now, asks)
        BY <2>2, <2>3, <2>6, <3>1, <3>3
      <4> QED BY <4>1
    <3> QED BY <1>5, <3>2, <3>3
  <2>7. CASE Answers(call.want) /\ rest # <<>>
    <3>1. F(asks) <=> F(rest)
      BY <1>1, <2>1, <2>7
    <3>2. asks' = rest /\ UNCHANGED <<check, failed, verdict>>
      BY <1>5, <2>2, <2>7
    <3>3. GoesOn(rest)
      BY <2>3, <2>4, <2>7, <3>1, <3>2 DEF GoesOn
    <3> QED BY <1>1, <1>5, <3>3 DEF call
  <2> QED BY <2>5, <2>6, <2>7
<1>6. CASE call.kind = "surface"
  <2>1. K = Plain2
    BY <1>1, <1>6 DEF Plain2, Inverse2
  <2>2. Cfg = CfgIn(net) /\ (Answers(BlockWanted(Cfg, now)) <=> BlockIsFine)
    BY <1>4, AsGiven DEF BlockIsFine
  <2>3. CallFails(net, now, call) <=>
          ~BlockIsFine \/ (net.impl = "geth" /\ blobs # "unasked" /\ BlobsIn(net, now) # blobs)
    BY <1>6 DEF CallFails, BlockIsFine
  <2>4. Listed(more, K) /\ (F(more) <=> ~(net.impl = "geth" /\ blobs # "unasked" /\ BlobsIn(net, now) # blobs))
    <3>1. CASE net.impl = "geth" /\ blobs # "unasked"
      <4> DEFINE v == VerifyEthConfigBlobSchedule(blobs)
      <4>1. Proper(v, K) /\ (CallFails(net, now, v) <=> BlobsIn(net, now) # blobs)
        <5>1. Proper(v, Plain2)
          BY BlobProper
        <5>2. CallFails(net, now, v) <=> BlobsIn(net, now) # blobs
          BY BlobCall
        <5> QED BY <2>1, <5>1, <5>2
      <4> HIDE DEF v
      <4>2. Listed(<<v>>, K) /\ (F(<<v>>) <=> ~CallFails(net, now, v))
        BY <4>1, OneCall
      <4> QED BY <3>1, <4>1, <4>2 DEF v
    <3>2. CASE ~(net.impl = "geth" /\ blobs # "unasked")
      BY <3>2, NoCall
    <3> QED BY <3>1, <3>2
  <2> DEFINE nxt == more \o rest
  <2>5. Listed(nxt, K) /\ (F(nxt) <=> F(more) /\ F(rest))
    <3> HIDE DEF more, rest
    <3> QED BY <1>1, <2>4, Joined
  <2>6. F(asks) <=> BlockIsFine /\ F(nxt)
    <3> HIDE DEF nxt, F, call, rest, more
    <3> QED BY <1>1, <2>3, <2>4, <2>5
  <2>7. IF ~BlockIsFine THEN EndCheck(FALSE)
        ELSE IF nxt = <<>> THEN EndCheck(TRUE)
        ELSE asks' = nxt /\ UNCHANGED <<check, failed, verdict>>
    BY <1>6, <2>2 DEF Ask
  <2>8. Fails(net, now, asks) <=> ~F(asks)
    BY <1>6 DEF Fails
  <2>9. nxt # <<>> => (Fails(net, now, nxt) <=> ~F(nxt))
    <3>1. nxt # <<>> => Head(nxt).kind \in K
      BY <1>3, <2>5
    <3> HIDE DEF nxt
    <3> QED BY <2>1, <3>1 DEF Plain2, Fails
  <2> HIDE DEF nxt, F
  <2>10. CASE ~BlockIsFine
    <3>1. EndCheck(FALSE) /\ Fails(net, now, asks)
      BY <2>6, <2>7, <2>8, <2>10
    <3> QED BY <3>1
  <2>11. CASE BlockIsFine /\ nxt = <<>>
    <3>1. EndCheck(TRUE) /\ ~Fails(net, now, asks)
      BY <1>2, <2>6, <2>7, <2>8, <2>11 DEF F
    <3> QED BY <2>11, <3>1
  <2>12. CASE BlockIsFine /\ nxt # <<>>
    <3>1. GoesOn(nxt)
      BY <2>6, <2>7, <2>8, <2>9, <2>12 DEF GoesOn
    <3> QED BY <2>5, <2>12, <3>1
  <2> QED BY <2>10, <2>11, <2>12
<1>7. call.kind \in {"call", "mismatch", "surface"}
  BY <1>1 DEF Plain2, Inverse2
<1> QED BY <1>5, <1>6, <1>7

(***************************************************************************)
(* The network.                                                            *)
(***************************************************************************)
NetType ==
  [run : {"suite", "schedule", "ask"}, fork : AllForks \cup {None},
   mode : {"poa", "posa", "smoke", "upgrade"},
   target : AllForks \cup {"poa", "allSame", "allStaggered", None}, genesis : [AllForks -> Int],
   flaw : [surface : Surfaces \cup {None}, early : BOOLEAN],
   impl : {"geth", "reth"}, waits : BOOLEAN, generated : BOOLEAN, faults : Nat]

\* how many forks are there in the phase
Come == ForkOrderIndex(net.fork) - (IF phase = "pre" THEN 1 ELSE 0)

NetInv ==
  /\ net \in NetType /\ now \in Nat
  /\ net.run = "ask" => net.generated
  /\ net.run # "suite" =>
       /\ phase \in {"start", "ask"}
       /\ net.generated => \E start : Legal(net.mode, net.target, start, net.genesis)
  /\ net.run = "suite" =>
       /\ net.fork # None /\ net.impl = "geth" /\ phase \in {"start", "pre", "post"}
       /\ phase # "start" => /\ now = 1 /\ net.mode \in {"poa", "smoke"}
                             /\ Legal(net.mode, net.target, 1, net.genesis)
                             /\ Named(net.mode, net.target) = Come

LEMMA NetInit == Init => NetInv
<1> SUFFICES ASSUME Init PROVE NetInv
  OBVIOUS
<1>1. net \in Networks /\ now = 0 /\ phase = "start"
  BY DEF Init
<1>2. /\ net \in NetType
      /\ net.run = "suite" => net.fork # None /\ net.impl = "geth"
      /\ net.run = "ask" => net.generated
      /\ net.generated =>
           \E t \in ForkTargets :
             LET start == IF t[1] = "upgrade" THEN net.genesis[ForkOrder[1]] ELSE 1 IN
               /\ net.mode = t[1] /\ net.target = t[2] /\ start > 0
               /\ net.genesis = Genesis(net.mode, net.target, start)
  BY <1>1, NetworksAssumption DEF NetType
<1>3. ASSUME net.generated PROVE \E start : Legal(net.mode, net.target, start, net.genesis)
  <2>1. PICK t \in ForkTargets :
          LET start == IF t[1] = "upgrade" THEN net.genesis[ForkOrder[1]] ELSE 1 IN
            /\ net.mode = t[1] /\ net.target = t[2] /\ start > 0
            /\ net.genesis = Genesis(net.mode, net.target, start)
    BY <1>2, <1>3
  <2> DEFINE start == IF t[1] = "upgrade" THEN net.genesis[ForkOrder[1]] ELSE 1
  <2>2. t = <<t[1], t[2]>>
    BY DEF ForkTargets
  <2>3. start \in Int
    <3>1. ForkOrder[1] \in AllForks
      BY OrderIs
    <3>2. net.genesis \in [AllForks -> Int]
      BY <1>2 DEF NetType
    <3> QED BY <3>1, <3>2
  <2>4. start > 0 /\ net.genesis = Genesis(net.mode, net.target, start) /\ <<net.mode, net.target>> \in ForkTargets
    BY <2>1, <2>2
  <2> HIDE DEF start
  <2> QED BY <2>3, <2>4 DEF Legal
<1> QED BY <1>1, <1>2, <1>3 DEF NetInv

LEMMA PhaseStarts ==
  ASSUME NetInv, NEW ph \in {"pre", "post"}, StartPhase(ph)
  PROVE  NetInv'
<1> DEFINE i == ForkOrderIndex(net.fork)
           c == PhaseConfig(net.fork, ph)
           genesis == Genesis(c.mode, c.target, 0)
<1>1. /\ net.run = "suite" /\ phase' = ph /\ now' = 1
      /\ net' = [net EXCEPT !.mode = c.mode, !.target = c.target, !.genesis = genesis]
  BY DEF StartPhase
<1>2. net.fork \in AllForks /\ i \in 1..8 /\ ForkOrder[i] = net.fork
  BY <1>1, OrderIs DEF NetInv, NetType
<1>3. \/ /\ c.mode = "smoke" /\ c.target \in AllForks
         /\ ForkOrderIndex(c.target) = i - (IF ph = "pre" THEN 1 ELSE 0)
      \/ c.mode = "poa" /\ c.target = None /\ ph = "pre" /\ i = 1
  <2>1. CASE ph = "post"
    BY <1>2, <2>1 DEF PhaseConfig
  <2>2. CASE ph = "pre" /\ i = 1
    BY <2>2 DEF PhaseConfig
  <2>3. CASE ph = "pre" /\ i # 1
    <3>1. i - 1 \in 1..8
      BY <1>2, <2>3
    <3>2. ForkOrder[i - 1] \in AllForks /\ ForkOrderIndex(ForkOrder[i - 1]) = i - 1
      BY <3>1, OrderIs
    <3> QED BY <2>3, <3>2 DEF PhaseConfig
  <2> QED BY <2>1, <2>2, <2>3
<1> HIDE DEF c, i
<1>4. "poa" \notin AllForks
  BY OrderIs
<1>5. Named(c.mode, c.target) = i - (IF ph = "pre" THEN 1 ELSE 0)
  BY <1>2, <1>3, <1>4 DEF Named
<1>6. genesis = Genesis(c.mode, c.target, 1)
  BY <1>3 DEF Genesis
<1>7. <<c.mode, c.target>> \in ForkTargets
  BY <1>3 DEF ForkTargets
<1> HIDE DEF genesis
<1>8. Legal(c.mode, c.target, 1, genesis)
  BY <1>6, <1>7 DEF Legal
<1>9. /\ c.mode \in {"poa", "posa", "smoke", "upgrade"}
      /\ c.target \in AllForks \cup {"poa", "allSame", "allStaggered", None}
  BY <1>3
<1>10. genesis \in [AllForks -> Int]
  BY <1>8, GenesisIs
<1>11. net \in NetType
  BY DEF NetInv
<1>12. /\ net' \in NetType /\ net'.run = net.run /\ net'.fork = net.fork /\ net'.impl = net.impl
       /\ net'.mode = c.mode /\ net'.target = c.target /\ net'.genesis = genesis
  BY <1>1, <1>9, <1>10, <1>11 DEF NetType
<1>13. Come' = i - (IF ph = "pre" THEN 1 ELSE 0)
  BY <1>1, <1>12 DEF Come, i
<1> QED
  BY <1>1, <1>2, <1>3, <1>5, <1>8, <1>12, <1>13 DEF NetInv

LEMMA NetStep ==
  ASSUME NetInv, [Next]_vars
  PROVE  NetInv'
<1>1. CASE UNCHANGED <<net, now, phase>>
  <2>1. Come' = Come
    BY <1>1 DEF Come
  <2> QED BY <1>1, <2>1 DEF NetInv
<1>2. ASSUME NEW ph \in {"pre", "post"}, StartPhase(ph) PROVE NetInv'
  BY <1>2, PhaseStarts
<1>3. CASE CheckSchedule
  <2>1. UNCHANGED <<net, now>> /\ phase' = "ask" /\ net.run # "suite"
    BY <1>3 DEF CheckSchedule
  <2> QED BY <2>1 DEF NetInv
<1>4. CASE Tick
  <2>1. UNCHANGED <<net, phase>> /\ now' = now + 1 /\ net.run = "ask"
    BY <1>4 DEF Tick
  <2> QED BY <2>1 DEF NetInv
<1>5. CASE EndSuite \/ StartCheck \/ AskSurface \/ Ask \/ LoseCall \/ UNCHANGED vars
  <2>1. UNCHANGED <<net, now, phase>>
    BY <1>5 DEF EndSuite, StartCheck, AskSurface, Ask, LoseCall, vars
  <2> QED BY <1>1, <2>1
<1> QED BY <1>2, <1>3, <1>4, <1>5 DEF Next

(***************************************************************************)
(* Runs that ask a network that is there: what an answer says while no     *)
(* fork comes.                                                             *)
(***************************************************************************)
\* a field of the block, which has to be there, is missing
Missing ==
  /\ net.flaw.surface \in {"blobFields", "beaconRoot", "requestsHash"} /\ ~net.flaw.early
  /\ ActiveIn(net, now, BroughtBy[net.flaw.surface])

Asking ==
  /\ net.run = "ask" /\ phase = "ask" /\ verdict = "going"
  /\ asks # <<>> /\ Listed(asks, Plain2)
  /\ net.waits => \A f \in AllForks : now >= ScheduleOf(net.genesis)[f]
  /\ net.flaw.surface = None /\ ~crossed => Fine(net, now, asks)
  /\ Missing /\ ~crossed => Head(asks).kind = "surface"

AskInv ==
  net.run # "suite" =>
    /\ checks = {} /\ crossed \in BOOLEAN /\ (crossed => ~net.waits)
    /\ phase = "start" => check = None /\ verdict = "going"
    /\ phase = "ask" =>
         (verdict = "refused" <=> ~ValidateUpgradeForkSchedule(net.mode, ScheduleOf(net.genesis)))
    /\ net.run = "schedule" /\ phase = "ask" => verdict # "going"
    /\ check # None => Asking
    /\ net.run = "ask" /\ verdict = "failed" /\ net.flaw.surface = None /\ lost = {} => crossed
    /\ net.run = "ask" /\ verdict = "passed" /\ ~crossed => ~Missing

LEMMA AskInit == Init => AskInv
BY DEF Init, AskInv

LEMMA CheckScheduleAsks ==
  ASSUME AskInv, CheckSchedule
  PROVE  AskInv'
<1>1. /\ phase = "start" /\ phase' = "ask" /\ check = None /\ UNCHANGED <<net, now, checks, check, lost, crossed>>
      /\ verdict' = IF ~ValidateUpgradeForkSchedule(net.mode, Cfg.times) THEN "refused"
                    ELSE IF net.run = "schedule" THEN "passed" ELSE "going"
      /\ net.run # "suite"
  BY DEF CheckSchedule, vCheck, Idle
<1>2. Cfg.times = ScheduleOf(net.genesis)
  BY AsGiven DEF CfgIn
<1>3. checks = {} /\ crossed \in BOOLEAN /\ (crossed => ~net.waits)
  BY <1>1 DEF AskInv
<1> QED BY <1>1, <1>2, <1>3 DEF AskInv

LEMMA GasCall ==
  ASSUME NEW n, NEW t, n.flaw.early \in BOOLEAN
  PROVE  /\ Listed(VerifyOsakaTxGasCap, Plain2)
         /\ Fine(n, t, VerifyOsakaTxGasCap) <=> ShowsIn(n, t, "gasCap")
<1>1. "gasCap" \in Surfaces
  BY DEF Surfaces, BroughtBy
<1> QED BY <1>1, SeesIs DEF VerifyOsakaTxGasCap

LEMMA NetFacts ==
  ASSUME NetInv
  PROVE  /\ net.flaw.early \in BOOLEAN /\ net.genesis \in [AllForks -> Int] /\ now \in Nat
         /\ net.run = "ask" => InOrder(net, now)
<1>1. net.flaw.early \in BOOLEAN /\ net.genesis \in [AllForks -> Int] /\ now \in Nat
  BY DEF NetInv, NetType
<1>2. ASSUME net.run = "ask" PROVE InOrder(net, now)
  <2>1. PICK start : Legal(net.mode, net.target, start, net.genesis)
    BY <1>2 DEF NetInv
  <2> QED BY <1>1, <2>1, GeneratedInOrder
<1> QED BY <1>1, <1>2

LEMMA AskSurfaceAsks ==
  ASSUME NetInv, AskInv, AskSurface
  PROVE  AskInv'
<1> DEFINE gas == IF net.waits /\ net.impl = "geth" /\ Cfg.times["osaka"] > 0
                  THEN VerifyOsakaTxGasCap ELSE <<>>
<1>1. /\ Idle /\ phase = "ask" /\ check' = "surface" /\ asks' = VerifyForkRPCSurface \o gas
      /\ net.waits => \A f \in AllForks : now >= Cfg.times[f]
      /\ UNCHANGED <<net, now, phase, checks, failed, lost, crossed, verdict, faults>>
  BY DEF AskSurface
<1>2. Cfg.times = ScheduleOf(net.genesis) /\ ScheduleOf(net.genesis) \in [AllForks -> Int]
  BY AsGiven, NetFacts, TimesAre DEF CfgIn
<1>3. CASE net.run = "suite"
  BY <1>1, <1>3 DEF AskInv
<1>4. CASE net.run # "suite"
  <2>1. net.run = "ask" /\ verdict = "going" /\ phase = "ask"
    BY <1>1, <1>4 DEF NetInv, NetType, AskInv, Idle
  <2>2. /\ Listed(VerifyForkRPCSurface, Plain2) /\ VerifyForkRPCSurface # <<>>
        /\ Head(VerifyForkRPCSurface).kind = "surface"
        /\ Fine(net, now, VerifyForkRPCSurface) <=> ~CallFails(net, now, SurfaceCall)
    <3>1. SurfaceCall.kind = "surface" /\ Proper(SurfaceCall, Plain2)
      BY DEF SurfaceCall, Plain2, Proper
    <3> QED BY <3>1, OneCall DEF VerifyForkRPCSurface
  <2>3. Listed(gas, Plain2) /\ (net.flaw.surface = None => Fine(net, now, gas))
    <3>1. CASE net.waits /\ net.impl = "geth" /\ Cfg.times["osaka"] > 0
      <4>1. Listed(gas, Plain2) /\ (Fine(net, now, gas) <=> ShowsIn(net, now, "gasCap"))
        BY <3>1, GasCall, NetFacts
      <4>2. "osaka" \in AllForks /\ BroughtBy["gasCap"] = "osaka" /\ "gasCap" \in Surfaces
        BY OrderIs DEF BroughtBy, Surfaces
      <4>3. now >= net.genesis["osaka"] /\ net.genesis["osaka"] # Absent
        <5>1. now >= Cfg.times["osaka"] /\ Cfg.times["osaka"] > 0
          BY <1>1, <3>1, <4>2
        <5>2. Cfg.times["osaka"] = IF net.genesis["osaka"] > 0 THEN net.genesis["osaka"] ELSE 0
          BY <1>2, <4>2, NetFacts, TimesAre
        <5> QED BY <5>1, <5>2, <4>2, NetFacts DEF Absent
      <4>4. net.flaw.surface = None => ShowsIn(net, now, "gasCap")
        BY <4>2, <4>3 DEF ShowsIn, StartedIn, None
      <4> QED BY <4>1, <4>4
    <3>2. CASE ~(net.waits /\ net.impl = "geth" /\ Cfg.times["osaka"] > 0)
      BY <3>2, NoCall
    <3> QED BY <3>1, <3>2
  <2> HIDE DEF gas
  <2> DEFINE l == VerifyForkRPCSurface \o gas
  <2>4. /\ Listed(l, Plain2) /\ l # <<>> /\ Head(l).kind = "surface"
        /\ Fine(net, now, l) <=> Fine(net, now, VerifyForkRPCSurface) /\ Fine(net, now, gas)
    BY <2>2, <2>3, Joined
  <2>5. net.flaw.surface = None => Fine(net, now, l)
    BY <2>1, <2>2, <2>3, <2>4, FaithfulSurface, NetFacts
  <2>6. asks' = l
    BY <1>1
  <2> HIDE DEF l
  <2>7. Asking'
    BY <1>1, <1>2, <2>1, <2>4, <2>5, <2>6 DEF Asking
  <2>8. Missing' = Missing
    BY <1>1 DEF Missing
  <2> QED BY <1>1, <2>1, <2>7, <2>8 DEF AskInv
<1> QED BY <1>3, <1>4

\* what changes with the time, and when
LEMMA NoForkComes ==
  ASSUME NEW n, n.genesis \in [AllForks -> Int], NEW t \in Nat,
         ~\E f \in AllForks : n.genesis[f] = t + 1
  PROVE  \A f \in AllForks : /\ StartedIn(n, t + 1, f) <=> StartedIn(n, t, f)
                             /\ ActiveIn(n, t + 1, f) <=> ActiveIn(n, t, f)
<1> SUFFICES ASSUME NEW f \in AllForks
             PROVE  /\ StartedIn(n, t + 1, f) <=> StartedIn(n, t, f)
                    /\ ActiveIn(n, t + 1, f) <=> ActiveIn(n, t, f)
  OBVIOUS
<1>1. n.genesis[f] \in Int /\ n.genesis[f] # t + 1
  OBVIOUS
<1>2. t + 1 >= n.genesis[f] <=> t >= n.genesis[f]
  BY <1>1
<1> QED BY <1>2, ActiveIs DEF StartedIn

LEMMA SameAnswers ==
  ASSUME NEW n, n.genesis \in [AllForks -> Int], NEW t \in Nat, n.flaw.early \in BOOLEAN,
         ~\E f \in AllForks : n.genesis[f] = t + 1
  PROVE  /\ \A f \in AllForks : ActiveIn(n, t + 1, f) <=> ActiveIn(n, t, f)
         /\ \A l, K : Listed(l, K) => (Fine(n, t + 1, l) <=> Fine(n, t, l))
<1>1. \A f \in AllForks : /\ StartedIn(n, t + 1, f) <=> StartedIn(n, t, f)
                          /\ ActiveIn(n, t + 1, f) <=> ActiveIn(n, t, f)
  BY NoForkComes
<1>2. \A s \in Surfaces : BroughtBy[s] \in AllForks
  BY OrderIs DEF Surfaces, BroughtBy
<1>3. \A s \in Surfaces : ShowsIn(n, t + 1, s) <=> ShowsIn(n, t, s)
  BY <1>1, <1>2 DEF ShowsIn
<1>4. \A s \in {"blobFields", "beaconRoot", "requestsHash", "bpo2Blobs", "bpo1Blobs", "pragueBlobs",
               "cancunBlobs", "payloadV5"} : s \in Surfaces
  BY DEF Surfaces, BroughtBy
<1>5. BlobsIn(n, t + 1) = BlobsIn(n, t)
  BY <1>3, <1>4 DEF BlobsIn
<1>6. NextIn(n, t + 1) <=> NextIn(n, t)
  <2>1. \A f \in AllForks : n.genesis[f] > t + 1 <=> n.genesis[f] > t
    <3> SUFFICES ASSUME NEW f \in AllForks PROVE n.genesis[f] > t + 1 <=> n.genesis[f] > t
      OBVIOUS
    <3>1. n.genesis[f] \in Int /\ n.genesis[f] # t + 1
      OBVIOUS
    <3> QED BY <3>1
  <2> QED BY <2>1 DEF NextIn
<1>7. \A w \in Whats : AnswerIn(n, t + 1, w) = AnswerIn(n, t, w)
  <2>1. \A b, c : (b <=> c) => YesNo(b) = YesNo(c)
    BY DEF YesNo
  <2>2. \A s \in Surfaces : YesNo(ShowsIn(n, t + 1, s)) = YesNo(ShowsIn(n, t, s))
    BY <1>3, <2>1
  <2>3. YesNo(NextIn(n, t + 1)) = YesNo(NextIn(n, t))
    BY <1>6, <2>1
  <2>4. YesNo(~ShowsIn(n, t + 1, "payloadV5")) = YesNo(~ShowsIn(n, t, "payloadV5"))
    BY <1>3, <1>4, <2>1
  <2> QED BY <1>5, <2>2, <2>3, <2>4 DEF AnswerIn, Whats, Certain
<1>8. \A want : DOMAIN want \subseteq Whats => (AnswersIn(n, t + 1, want) <=> AnswersIn(n, t, want))
  BY <1>7 DEF AnswersIn
<1>9. SurfaceFails(n, t + 1) <=> SurfaceFails(n, t)
  <2>1. BlobsWanted(CfgIn(n), t + 1) = BlobsWanted(CfgIn(n), t)
    BY <1>1, SurfaceIs, OrderIs
  <2>2. \A w \in {"blobFields", "beaconRoot", "requestsHash"} :
          /\ ActiveIn(n, t + 1, BroughtBy[w]) <=> ActiveIn(n, t, BroughtBy[w])
          /\ ShowsIn(n, t + 1, w) <=> ShowsIn(n, t, w)
    BY <1>1, <1>2, <1>3, <1>4
  <2> QED BY <1>5, <2>1, <2>2 DEF SurfaceFails
<1>10. \A c, K : Proper(c, K) => (CallFails(n, t + 1, c) <=> CallFails(n, t, c))
  <2> SUFFICES ASSUME NEW c, NEW K, Proper(c, K)
               PROVE  CallFails(n, t + 1, c) <=> CallFails(n, t, c)
    OBVIOUS
  <2>1. CASE c.kind = "surface"
    <3>1. SurfaceCall.kind = "surface"
      BY DEF SurfaceCall
    <3>2. /\ CallFails(n, t + 1, c) <=> CallFails(n, t + 1, SurfaceCall)
          /\ CallFails(n, t, c) <=> CallFails(n, t, SurfaceCall)
      BY <2>1, <3>1 DEF CallFails
    <3> QED BY <1>9, <3>2, SurfaceIs
  <2>2. CASE c.kind # "surface"
    BY <1>8, <2>2 DEF CallFails, Proper
  <2> QED BY <2>1, <2>2
<1> QED BY <1>1, <1>10 DEF Fine, Listed

LEMMA TickAsks ==
  ASSUME NetInv, AskInv, Tick
  PROVE  AskInv'
<1>1. /\ verdict = "going" /\ net.run = "ask" /\ phase = "ask" /\ now' = now + 1
      /\ crossed' = (crossed \/ (check # None /\ \E f \in AllForks : net.genesis[f] = now + 1))
      /\ UNCHANGED <<net, phase, checks, check, asks, failed, lost, verdict, faults>>
  BY DEF Tick
<1>2. net.genesis \in [AllForks -> Int] /\ now \in Nat /\ net.flaw.early \in BOOLEAN
  BY NetFacts
<1>3. /\ checks = {} /\ crossed \in BOOLEAN /\ (crossed => ~net.waits)
      /\ phase = "ask" =>
           (verdict = "refused" <=> ~ValidateUpgradeForkSchedule(net.mode, ScheduleOf(net.genesis)))
      /\ check # None => Asking
  BY <1>1 DEF AskInv
<1>4. CASE check = None
  BY <1>1, <1>3, <1>4 DEF AskInv
<1>5. CASE check # None
  <2>1. ASSUME net.waits PROVE ~crossed'
    <3>1. \A f \in AllForks : now >= ScheduleOf(net.genesis)[f]
      BY <1>3, <1>5, <2>1 DEF Asking
    <3>2. ASSUME NEW f \in AllForks, net.genesis[f] = now + 1 PROVE FALSE
      BY <1>2, <3>1, <3>2, TimesAre
    <3> QED BY <1>1, <1>3, <2>1, <3>2
  <2>2. crossed' \in BOOLEAN
    BY <1>1, <1>3
  <2>3. net.waits => \A f \in AllForks : now + 1 >= ScheduleOf(net.genesis)[f]
    BY <1>2, <1>3, <1>5, TimesAre DEF Asking
  <2>4. ASSUME ~crossed'
        PROVE  /\ Missing' <=> Missing
               /\ Fine(net, now + 1, asks) <=> Fine(net, now, asks)
    <3>1. ~\E f \in AllForks : net.genesis[f] = now + 1
      BY <1>1, <1>5, <2>4
    <3>2. /\ \A f \in AllForks : ActiveIn(net, now + 1, f) <=> ActiveIn(net, now, f)
          /\ Fine(net, now + 1, asks) <=> Fine(net, now, asks)
      BY <1>2, <1>3, <1>5, <3>1, SameAnswers DEF Asking
    <3>3. \A w \in {"blobFields", "beaconRoot", "requestsHash"} : BroughtBy[w] \in AllForks
      BY OrderIs DEF BroughtBy
    <3>4. Missing' <=> Missing
      BY <1>1, <3>2, <3>3 DEF Missing
    <3> QED BY <3>2, <3>4
  <2>5. Asking'
    <3>1. ~crossed' => ~crossed
      BY <1>1
    <3>2. Asking
      BY <1>3, <1>5
    <3>3. net.flaw.surface = None /\ ~crossed' => Fine(net, now + 1, asks)
      BY <2>4, <3>1, <3>2 DEF Asking
    <3>4. Missing' /\ ~crossed' => Head(asks).kind = "surface"
      BY <2>4, <3>1, <3>2 DEF Asking
    <3>5. net.run = "ask" /\ phase = "ask" /\ verdict = "going" /\ asks # <<>> /\ Listed(asks, Plain2)
      BY <3>2 DEF Asking
    <3> QED BY <1>1, <2>3, <3>3, <3>4, <3>5 DEF Asking
  <2> QED BY <1>1, <1>3, <2>1, <2>2, <2>5 DEF AskInv
<1> QED BY <1>4, <1>5

LEMMA AskAsks ==
  ASSUME NetInv, AskInv, Ask
  PROVE  AskInv'
<1>1. check # None /\ UNCHANGED <<net, now, phase, checks, lost, crossed, faults>>
  BY DEF Ask
<1>2. CASE net.run = "suite"
  BY <1>1, <1>2 DEF AskInv
<1>3. CASE net.run # "suite"
  <2>1. Asking /\ checks = {} /\ crossed \in BOOLEAN /\ (crossed => ~net.waits)
        /\ ValidateUpgradeForkSchedule(net.mode, ScheduleOf(net.genesis))
    BY <1>1, <1>3 DEF AskInv, Asking
  <2>2. Missing' <=> Missing
    BY <1>1 DEF Missing
  <2>3. net.flaw.early \in BOOLEAN /\ asks # <<>> /\ Listed(asks, Plain2) /\ Plain2 \in {Plain2, Inverse2}
    BY <2>1, NetFacts DEF Asking
  <2>4. \A l : l # <<>> /\ Listed(l, Plain2) => (Fails(net, now, l) <=> ~Fine(net, now, l))
    <3>1. \A l : l # <<>> /\ Listed(l, Plain2) => Head(l).kind \in Plain2
      BY FirstCall
    <3> QED BY <3>1 DEF Fails, Plain2
  <2>5. Missing => ~BlockIsFine
    BY <2>3, SurfaceIs DEF Missing, BlockIsFine, ShowsIn
  <2>6. CASE \E l : GoesOn(l) /\ Listed(l, Plain2) /\ (Head(asks).kind = "surface" => BlockIsFine)
    <3>1. PICK l : GoesOn(l) /\ Listed(l, Plain2) /\ (Head(asks).kind = "surface" => BlockIsFine)
      BY <2>6
    <3>2. /\ asks' = l /\ UNCHANGED <<check, failed, verdict>>
          /\ l # <<>> /\ (Fine(net, now, l) <=> Fine(net, now, asks))
      BY <2>3, <2>4, <3>1 DEF GoesOn
    <3>3. ~(Missing /\ ~crossed)
      BY <2>1, <2>5, <3>1 DEF Asking
    <3>4. Asking'
      BY <1>1, <2>1, <2>2, <3>1, <3>2, <3>3 DEF Asking
    <3> QED BY <1>1, <2>1, <2>2, <3>2, <3>4 DEF AskInv, Asking
  <2>7. CASE EndCheck(TRUE) /\ ~Fails(net, now, asks) /\ (Head(asks).kind = "surface" => BlockIsFine)
    <3>1. check' = None /\ verdict' = "passed"
      BY <2>1, <2>7 DEF EndCheck, Asking
    <3>2. ~(Missing /\ ~crossed)
      BY <2>1, <2>5, <2>7 DEF Asking
    <3> QED BY <1>1, <1>3, <2>1, <2>2, <3>1, <3>2 DEF AskInv, Asking
  <2>8. CASE EndCheck(FALSE) /\ Fails(net, now, asks)
    <3>1. check' = None /\ verdict' = "failed"
      BY <2>1, <2>8 DEF EndCheck, Asking
    <3>2. net.flaw.surface = None => crossed
      BY <2>1, <2>3, <2>4, <2>8 DEF Asking
    <3> QED BY <1>1, <1>3, <2>1, <2>2, <3>1, <3>2 DEF AskInv, Asking
  <2> QED BY <2>3, <2>6, <2>7, <2>8, AskDoes
<1> QED BY <1>2, <1>3

LEMMA AskStep ==
  ASSUME NetInv, AskInv, [Next]_vars
  PROVE  AskInv'
<1>1. CASE UNCHANGED vars
  <2>1. Missing' = Missing
    BY <1>1 DEF vars, Missing
  <2>2. Asking' = Asking
    BY <1>1, <2>1 DEF vars, Asking
  <2> QED BY <1>1, <2>1, <2>2 DEF vars, AskInv
<1>2. ASSUME NEW ph \in {"pre", "post"}, StartPhase(ph) PROVE AskInv'
  <2>1. /\ net.run = "suite"
        /\ LET c == PhaseConfig(net.fork, ph) IN
             net' = [net EXCEPT !.mode = c.mode, !.target = c.target,
                                !.genesis = Genesis(c.mode, c.target, 0)]
    BY <1>2 DEF StartPhase
  <2>2. net'.run = "suite"
    BY <2>1 DEF NetInv, NetType
  <2> QED BY <2>2 DEF AskInv
<1>3. CASE EndSuite
  BY <1>3 DEF EndSuite, AskInv
<1>4. CASE StartCheck
  BY <1>4 DEF StartCheck, AskInv
<1>5. CASE LoseCall
  <2>1. /\ check # None /\ lost' = lost \cup {<<phase, check>>} /\ EndCheck(Head(asks).kind = "mismatch")
        /\ UNCHANGED <<net, now, phase, checks, crossed>>
    BY <1>5 DEF LoseCall
  <2>2. CASE net.run = "suite"
    BY <2>1, <2>2 DEF AskInv
  <2>3. CASE net.run # "suite"
    <3>1. Asking /\ checks = {} /\ crossed \in BOOLEAN /\ (crossed => ~net.waits)
          /\ ValidateUpgradeForkSchedule(net.mode, ScheduleOf(net.genesis))
      BY <2>1, <2>3 DEF AskInv, Asking
    <3>2. Head(asks).kind \in Plain2
      BY <3>1, FirstCall DEF Asking
    <3>3. check' = None /\ verdict' = "failed" /\ lost' # {}
      BY <2>1, <3>1, <3>2 DEF EndCheck, Asking, Plain2
    <3> QED BY <2>1, <2>3, <3>1, <3>3 DEF AskInv, Asking
  <2> QED BY <2>2, <2>3
<1> QED BY <1>1, <1>2, <1>3, <1>4, <1>5, CheckScheduleAsks, AskSurfaceAsks, TickAsks, AskAsks DEF Next

(***************************************************************************)
(* The suite of a fork: its checks, and what each of them finds.           *)
(***************************************************************************)
ForkFor ==
  [push0_execution |-> "shanghai", mcopy_execution |-> "cancun",
   transient_storage_lifecycle |-> "cancun", cancun_header_surface |-> "cancun",
   fixheader_rpc_surface |-> "fixheader", posa_contract_surface |-> "posa",
   posa_proposal_wiring_surface |-> "posa", posa_proposal_params_surface |-> "posa",
   prague_rpc_surface |-> "prague", prague_eth_config_precompile_surface |-> "prague",
   prague_authorization_rpc_surface |-> "prague", prague_setcode_tx |-> "prague",
   bpo1_blob_schedule |-> "bpo1", bpo1_eth_config_transition_surface |-> "bpo1",
   bpo2_blob_schedule |-> "bpo2", bpo2_eth_config_transition_surface |-> "bpo2",
   osaka_engine_blob_api_transition |-> "osaka", osaka_engine_getpayload_transition |-> "osaka",
   osaka_eth_config_precompile_surface |-> "osaka", osaka_modexp_gas_semantics |-> "osaka",
   osaka_p256verify_precompile |-> "osaka", osaka_tx_gas_cap |-> "osaka"]

SuiteNames(fork) ==
  {name \in DOMAIN ForkFor : /\ ForkOrderIndex(ForkFor[name]) <= ForkOrderIndex(fork)
                             /\ name \in OneForkOnly => ForkFor[name] = fork}

LEMMA RegistryIs ==
  /\ \A c \in DefaultRegistry :
       \/ ~c.deferred /\ c.name \in DOMAIN ForkFor /\ c.fork = ForkFor[c.name]
       \/ c.deferred /\ c.name \notin DOMAIN ForkFor
  /\ \A name \in DOMAIN ForkFor : \E c \in DefaultRegistry : c.name = name
  /\ \A name \in DOMAIN ForkFor : ForkFor[name] \in AllForks
<1>1. \A c \in DefaultRegistry :
        \/ ~c.deferred /\ c.name \in DOMAIN ForkFor /\ c.fork = ForkFor[c.name]
        \/ c.deferred /\ c.name \notin DOMAIN ForkFor
  BY DEF DefaultRegistry, Cap, Deferred, ForkFor
<1>2. \A name \in DOMAIN ForkFor : Cap(name, ForkFor[name]) \in DefaultRegistry
  BY DEF DefaultRegistry, ForkFor
<1>3. \A name \in DOMAIN ForkFor : \E c \in DefaultRegistry : c.name = name
  BY <1>2 DEF Cap
<1>4. \A name \in DOMAIN ForkFor : ForkFor[name] \in AllForks
  BY OrderIs DEF ForkFor
<1> QED BY <1>1, <1>3, <1>4

LEMMA NamesAre ==
  ASSUME NEW fork \in AllForks
  PROVE  {c.name : c \in DefaultSuite(fork)} = SuiteNames(fork)
<1>1. fork # "all"
  BY OrderIs
<1>2. \A c : c \in DefaultSuite(fork) <=>
        /\ c \in DefaultRegistry /\ ForkOrderIndex(c.fork) <= ForkOrderIndex(fork)
        /\ ~c.deferred /\ (c.name \in OneForkOnly => c.fork = fork)
  BY <1>1 DEF DefaultSuite, FilterByFork
<1>3. ASSUME NEW c \in DefaultSuite(fork) PROVE c.name \in SuiteNames(fork)
  BY <1>2, RegistryIs DEF SuiteNames
<1>4. ASSUME NEW name \in SuiteNames(fork) PROVE \E c \in DefaultSuite(fork) : c.name = name
  <2>1. PICK c \in DefaultRegistry : c.name = name
    BY RegistryIs DEF SuiteNames
  <2>2. c \in DefaultSuite(fork)
    BY <1>2, <2>1, RegistryIs DEF SuiteNames
  <2> QED BY <2>1, <2>2
<1> QED BY <1>3, <1>4

LEMMA CapIs ==
  ASSUME NEW name \in DOMAIN ForkFor
  PROVE  (CHOOSE c \in DefaultRegistry : c.name = name).fork = ForkFor[name]
<1> DEFINE cap == CHOOSE c \in DefaultRegistry : c.name = name
<1>1. cap \in DefaultRegistry /\ cap.name = name
  BY RegistryIs
<1> HIDE DEF cap
<1>2. cap.fork = ForkFor[name]
  BY <1>1, RegistryIs
<1> QED BY <1>2 DEF cap

\* more calls, after the fork only
LEMMA AndThen ==
  ASSUME NEW n, NEW t, NEW a \in BOOLEAN, NEW l, NEW m,
         Listed(l, Plain2), l # <<>>, Listed(m, Plain2)
  PROVE  LET j == l \o (IF a THEN <<>> ELSE m) IN
           Listed(j, Plain2) /\ j # <<>> /\ (Fine(n, t, j) <=> Fine(n, t, l) /\ (a \/ Fine(n, t, m)))
<1> DEFINE k == IF a THEN <<>> ELSE m
<1>1. Listed(k, Plain2) /\ (Fine(n, t, k) <=> a \/ Fine(n, t, m))
  BY NoCall
<1> HIDE DEF k
<1>2. Listed(l \o k, Plain2) /\ l \o k # <<>> /\ (Fine(n, t, l \o k) <=> Fine(n, t, l) /\ Fine(n, t, k))
  BY <1>1, Joined
<1> QED BY <1>1, <1>2 DEF k

LEMMA ProbeIs ==
  ASSUME NEW n, NEW t, NEW s \in Surfaces, NEW a \in BOOLEAN, n.flaw.early \in BOOLEAN
  PROVE  /\ Listed(Probe(s, a), Plain2) /\ Probe(s, a) # <<>>
         /\ Fine(n, t, Probe(s, a)) <=> (ShowsIn(n, t, s) <=> ~a)
<1> DEFINE x == DeployRawContract
           y == Sees(s, a)
<1>1. Proper(x, Plain2) /\ ~CallFails(n, t, x)
  BY CertainCalls DEF DeployRawContract
<1>2. Proper(y, Plain2) /\ (CallFails(n, t, y) <=> (ShowsIn(n, t, s) <=> a))
  BY SeesIs
<1> HIDE DEF x, y
<1>3. /\ Listed(<<x, y>>, Plain2) /\ <<x, y>> # <<>>
      /\ Fine(n, t, <<x, y>>) <=> ~CallFails(n, t, x) /\ ~CallFails(n, t, y)
  BY <1>1, <1>2, TwoCalls
<1>4. Probe(s, a) = <<x, y>>
  BY DEF Probe, x, y
<1> QED BY <1>1, <1>2, <1>3, <1>4

LEMMA SurfaceList ==
  ASSUME NEW n, NEW t, n.flaw.early \in BOOLEAN
  PROVE  /\ Listed(VerifyForkRPCSurface, Plain2) /\ VerifyForkRPCSurface # <<>>
         /\ Fine(n, t, VerifyForkRPCSurface) <=> ~CallFails(n, t, SurfaceCall)
         /\ Listed(CheckFixHeaderSurface, Plain2)
         /\ Fine(n, t, CheckFixHeaderSurface) <=>
              ~CallFails(n, t, SurfaceCall) /\ ShowsIn(n, t, "baseFee")
<1>1. Proper(SurfaceCall, Plain2)
  BY DEF SurfaceCall, Plain2, Proper
<1>2. /\ Listed(VerifyForkRPCSurface, Plain2) /\ VerifyForkRPCSurface # <<>>
      /\ Fine(n, t, VerifyForkRPCSurface) <=> ~CallFails(n, t, SurfaceCall)
  BY <1>1, OneCall DEF VerifyForkRPCSurface
<1> DEFINE m == <<Sees("baseFee", FALSE)>>
<1>3. Listed(m, Plain2) /\ (Fine(n, t, m) <=> ShowsIn(n, t, "baseFee"))
  <2>1. "baseFee" \in Surfaces
    BY DEF Surfaces, BroughtBy
  <2> QED BY <2>1, SeesIs
<1> HIDE DEF m
<1>4. /\ Listed(VerifyForkRPCSurface \o m, Plain2)
      /\ Fine(n, t, VerifyForkRPCSurface \o m) <=> Fine(n, t, VerifyForkRPCSurface) /\ Fine(n, t, m)
  BY <1>2, <1>3, Joined
<1>5. CheckFixHeaderSurface = VerifyForkRPCSurface \o m
  BY DEF CheckFixHeaderSurface, VerifyLatestBlockBaseFee, m
<1> QED BY <1>2, <1>3, <1>4, <1>5

\* what a check looks for, and what else it looks at after the fork
Main ==
  [push0_execution |-> "push0", mcopy_execution |-> "mcopy",
   transient_storage_lifecycle |-> "transient", cancun_header_surface |-> "blobFields",
   fixheader_rpc_surface |-> "beaconRoot", posa_contract_surface |-> "contracts",
   posa_proposal_wiring_surface |-> "contracts", posa_proposal_params_surface |-> "contracts",
   prague_rpc_surface |-> "requestsHash", prague_eth_config_precompile_surface |-> "bls",
   prague_authorization_rpc_surface |-> "setCode", prague_setcode_tx |-> "setCode",
   osaka_engine_blob_api_transition |-> "blobsV3",
   osaka_engine_getpayload_transition |-> "payloadV5",
   osaka_eth_config_precompile_surface |-> "p256listed", osaka_modexp_gas_semantics |-> "modexp",
   osaka_p256verify_precompile |-> "p256", osaka_tx_gas_cap |-> "gasCap"]

WithSurface == {"cancun_header_surface", "fixheader_rpc_surface", "prague_rpc_surface"}
Also(n, t, name) ==
  /\ name \in WithSurface => ~CallFails(n, t, SurfaceCall)
  /\ name = "fixheader_rpc_surface" => ShowsIn(n, t, "baseFee")
  /\ name = "posa_proposal_wiring_surface" => ShowsIn(n, t, "wiring")
  /\ name = "posa_proposal_params_surface" => ShowsIn(n, t, "params")
  /\ name = "prague_authorization_rpc_surface" => ShowsIn(n, t, "authList")

ListIs(n, t, name, a) ==
  LET l == ChecksOf(name, a) IN
    /\ Listed(l, Plain2) /\ l # <<>>
    /\ Fine(n, t, l) <=> (ShowsIn(n, t, Main[name]) <=> ~a) /\ (a \/ Also(n, t, name))

\* a check that looks for one surface, and then goes on
LEMMA LooksOn ==
  ASSUME NEW n, NEW t, NEW a \in BOOLEAN, NEW s \in Surfaces, n.flaw.early \in BOOLEAN,
         NEW m, Listed(m, Plain2), NEW name \in DOMAIN Main, Main[name] = s,
         ChecksOf(name, a) = <<Sees(s, a)>> \o (IF a THEN <<>> ELSE m),
         (ShowsIn(n, t, s) => (Fine(n, t, m) <=> Also(n, t, name)))
  PROVE  ListIs(n, t, name, a)
<1> DEFINE l == <<Sees(s, a)>>
<1>1. /\ Listed(l, Plain2) /\ l # <<>>
      /\ Fine(n, t, l) <=> (ShowsIn(n, t, s) <=> ~a)
  BY SeesIs
<1> HIDE DEF l
<1> DEFINE j == l \o (IF a THEN <<>> ELSE m)
<1>2. Listed(j, Plain2) /\ j # <<>> /\ (Fine(n, t, j) <=> Fine(n, t, l) /\ (a \/ Fine(n, t, m)))
  BY <1>1, AndThen
<1>3. ChecksOf(name, a) = j
  BY DEF l
<1> HIDE DEF j
<1>4. Fine(n, t, j) <=> (ShowsIn(n, t, s) <=> ~a) /\ (a \/ Also(n, t, name))
  <2>1. CASE a = TRUE
    BY <1>1, <1>2, <2>1
  <2>2. CASE a = FALSE
    BY <1>1, <1>2, <2>2
  <2> QED BY <2>1, <2>2
<1> QED BY <1>2, <1>3, <1>4 DEF ListIs

LEMMA LooksOnce ==
  ASSUME NEW n, NEW t, NEW a \in BOOLEAN, NEW s \in Surfaces, n.flaw.early \in BOOLEAN,
         NEW name \in DOMAIN Main, Main[name] = s, ChecksOf(name, a) = <<Sees(s, a)>>,
         Also(n, t, name)
  PROVE  ListIs(n, t, name, a)
<1>1. /\ Listed(<<Sees(s, a)>>, Plain2) /\ <<Sees(s, a)>> # <<>>
      /\ Fine(n, t, <<Sees(s, a)>>) <=> (ShowsIn(n, t, s) <=> ~a)
  BY SeesIs
<1> QED BY <1>1 DEF ListIs

LEMMA ProbesAre ==
  ASSUME NEW n, NEW t, NEW a \in BOOLEAN, n.flaw.early \in BOOLEAN
  PROVE  /\ ListIs(n, t, "push0_execution", a) /\ ListIs(n, t, "mcopy_execution", a)
         /\ ListIs(n, t, "transient_storage_lifecycle", a)
<1>1. /\ "push0" \in Surfaces /\ "mcopy" \in Surfaces /\ "transient" \in Surfaces
      /\ Main["push0_execution"] = "push0" /\ Main["mcopy_execution"] = "mcopy"
      /\ Main["transient_storage_lifecycle"] = "transient"
  BY DEF Surfaces, BroughtBy, Main
<1>2. /\ Also(n, t, "push0_execution") /\ Also(n, t, "mcopy_execution")
      /\ Also(n, t, "transient_storage_lifecycle")
  BY DEF Also, WithSurface
<1>3. /\ ChecksOf("push0_execution", a) = Probe("push0", a)
      /\ ChecksOf("mcopy_execution", a) = Probe("mcopy", a)
      /\ ChecksOf("transient_storage_lifecycle", a) = TransientStorage(a)
  BY DEF ChecksOf
<1>4. ListIs(n, t, "push0_execution", a)
  BY <1>1, <1>2, <1>3, ProbeIs DEF ListIs
<1>5. ListIs(n, t, "mcopy_execution", a)
  BY <1>1, <1>2, <1>3, ProbeIs DEF ListIs
<1>6. ListIs(n, t, "transient_storage_lifecycle", a)
  <2> DEFINE l == Probe("transient", a)
             m == <<Sees("transient", FALSE)>>
             j == l \o (IF a THEN <<>> ELSE m)
  <2>1. Listed(l, Plain2) /\ l # <<>> /\ (Fine(n, t, l) <=> (ShowsIn(n, t, "transient") <=> ~a))
    BY <1>1, ProbeIs
  <2>2. Listed(m, Plain2) /\ (Fine(n, t, m) <=> ShowsIn(n, t, "transient"))
    BY <1>1, SeesIs
  <2> HIDE DEF l, m
  <2>3. Listed(j, Plain2) /\ j # <<>> /\ (Fine(n, t, j) <=> Fine(n, t, l) /\ (a \/ Fine(n, t, m)))
    BY <2>1, <2>2, AndThen
  <2>4. ChecksOf("transient_storage_lifecycle", a) = j
    BY <1>3 DEF TransientStorage, l, m
  <2> HIDE DEF j
  <2>5. Fine(n, t, j) <=> (ShowsIn(n, t, "transient") <=> ~a)
    <3>1. CASE a = TRUE
      BY <2>1, <2>3, <3>1
    <3>2. CASE a = FALSE
      BY <2>1, <2>2, <2>3, <3>2
    <3> QED BY <3>1, <3>2
  <2> QED BY <1>1, <1>2, <2>3, <2>4, <2>5 DEF ListIs
<1> QED BY <1>4, <1>5, <1>6

LEMMA HeadersAre ==
  ASSUME NEW n, NEW t, NEW a \in BOOLEAN, n.flaw.early \in BOOLEAN
  PROVE  \A name \in WithSurface : ListIs(n, t, name, a)
<1>1. /\ "blobFields" \in Surfaces /\ "beaconRoot" \in Surfaces /\ "requestsHash" \in Surfaces
      /\ Main["cancun_header_surface"] = "blobFields" /\ Main["fixheader_rpc_surface"] = "beaconRoot"
      /\ Main["prague_rpc_surface"] = "requestsHash"
      /\ \A name \in WithSurface : name \in DOMAIN Main
  BY DEF Surfaces, BroughtBy, Main, WithSurface
<1> DEFINE v == VerifyForkRPCSurface
           x == CheckFixHeaderSurface
<1>2. /\ Listed(v, Plain2) /\ (Fine(n, t, v) <=> ~CallFails(n, t, SurfaceCall))
      /\ Listed(x, Plain2)
      /\ Fine(n, t, x) <=> ~CallFails(n, t, SurfaceCall) /\ ShowsIn(n, t, "baseFee")
  BY SurfaceList
<1> DEFINE H(s, m) == <<Sees(s, a)>> \o (IF a THEN <<>> ELSE m)
<1>3. /\ ChecksOf("cancun_header_surface", a) = H("blobFields", v)
      /\ ChecksOf("fixheader_rpc_surface", a) = H("beaconRoot", x)
      /\ ChecksOf("prague_rpc_surface", a) = H("requestsHash", v)
  BY DEF ChecksOf, HeaderSurface, LatestBlockField
<1>4. /\ Also(n, t, "cancun_header_surface") <=> Fine(n, t, v)
      /\ Also(n, t, "prague_rpc_surface") <=> Fine(n, t, v)
      /\ Also(n, t, "fixheader_rpc_surface") <=> Fine(n, t, x)
  BY <1>2 DEF Also, WithSurface
<1> HIDE DEF v, x
<1>5. ListIs(n, t, "cancun_header_surface", a)
  BY <1>1, <1>2, <1>3, <1>4, LooksOn DEF WithSurface
<1>6. ListIs(n, t, "fixheader_rpc_surface", a)
  BY <1>1, <1>2, <1>3, <1>4, LooksOn DEF WithSurface
<1>7. ListIs(n, t, "prague_rpc_surface", a)
  BY <1>1, <1>2, <1>3, <1>4, LooksOn DEF WithSurface
<1> QED BY <1>5, <1>6, <1>7 DEF WithSurface

LEMMA ContractsAre ==
  ASSUME NEW n, NEW t, NEW a \in BOOLEAN, n.flaw.early \in BOOLEAN
  PROVE  /\ ListIs(n, t, "posa_contract_surface", a)
         /\ ListIs(n, t, "posa_proposal_wiring_surface", a)
         /\ ListIs(n, t, "posa_proposal_params_surface", a)
<1>1. /\ "contracts" \in Surfaces /\ "wiring" \in Surfaces /\ "params" \in Surfaces
      /\ \A name \in {"posa_contract_surface", "posa_proposal_wiring_surface",
                      "posa_proposal_params_surface"} : name \in DOMAIN Main /\ Main[name] = "contracts"
  BY DEF Surfaces, BroughtBy, Main
<1> DEFINE w == <<Sees("wiring", FALSE)>>
           p == <<Sees("params", FALSE)>>
<1>2. /\ Listed(w, Plain2) /\ (Fine(n, t, w) <=> ShowsIn(n, t, "wiring"))
      /\ Listed(p, Plain2) /\ (Fine(n, t, p) <=> ShowsIn(n, t, "params"))
  BY <1>1, SeesIs
<1> DEFINE H(m) == <<Sees("contracts", a)>> \o (IF a THEN <<>> ELSE m)
<1>3. /\ ChecksOf("posa_contract_surface", a) = <<Sees("contracts", a)>>
      /\ ChecksOf("posa_proposal_wiring_surface", a) = H(w)
      /\ ChecksOf("posa_proposal_params_surface", a) = H(p)
  BY DEF ChecksOf, CheckPosaContractSurface, CheckPosaProposalWiringSurface, CheckPosaProposalParamsSurface
<1>4. /\ Also(n, t, "posa_contract_surface")
      /\ Also(n, t, "posa_proposal_wiring_surface") <=> Fine(n, t, w)
      /\ Also(n, t, "posa_proposal_params_surface") <=> Fine(n, t, p)
  BY <1>2 DEF Also, WithSurface
<1> HIDE DEF w, p
<1>5. ListIs(n, t, "posa_contract_surface", a)
  BY <1>1, <1>3, <1>4, LooksOnce
<1>6. ListIs(n, t, "posa_proposal_wiring_surface", a)
  BY <1>1, <1>2, <1>3, <1>4, LooksOn
<1>7. ListIs(n, t, "posa_proposal_params_surface", a)
  BY <1>1, <1>2, <1>3, <1>4, LooksOn
<1> QED BY <1>5, <1>6, <1>7

LEMMA PragueChecksAre ==
  ASSUME NEW n, NEW t, NEW a \in BOOLEAN, n.flaw.early \in BOOLEAN
  PROVE  /\ ListIs(n, t, "prague_eth_config_precompile_surface", a)
         /\ ListIs(n, t, "prague_authorization_rpc_surface", a) /\ ListIs(n, t, "prague_setcode_tx", a)
<1>1. /\ "bls" \in Surfaces /\ "setCode" \in Surfaces /\ "authList" \in Surfaces
      /\ \A name \in {"prague_eth_config_precompile_surface", "prague_authorization_rpc_surface",
                      "prague_setcode_tx"} : name \in DOMAIN Main
      /\ Main["prague_eth_config_precompile_surface"] = "bls"
      /\ Main["prague_authorization_rpc_surface"] = "setCode" /\ Main["prague_setcode_tx"] = "setCode"
  BY DEF Surfaces, BroughtBy, Main
<1> DEFINE w == <<Sees("authList", FALSE)>>
           p == <<Sees("setCode", FALSE)>>
<1>2. /\ Listed(w, Plain2) /\ (Fine(n, t, w) <=> ShowsIn(n, t, "authList"))
      /\ Listed(p, Plain2) /\ (Fine(n, t, p) <=> ShowsIn(n, t, "setCode"))
  BY <1>1, SeesIs
<1> DEFINE H(m) == <<Sees("setCode", a)>> \o (IF a THEN <<>> ELSE m)
<1>3. /\ ChecksOf("prague_eth_config_precompile_surface", a) = <<Sees("bls", a)>>
      /\ ChecksOf("prague_authorization_rpc_surface", a) = H(w)
      /\ ChecksOf("prague_setcode_tx", a) = H(p)
  BY DEF ChecksOf, CheckPragueEthConfigPrecompileSurface, CheckPragueAuthorizationRPCSurface,
         CheckPragueSetCodeTx, SetCodeSent
<1>4. /\ Also(n, t, "prague_eth_config_precompile_surface") /\ Also(n, t, "prague_setcode_tx")
      /\ Also(n, t, "prague_authorization_rpc_surface") <=> Fine(n, t, w)
  BY <1>2 DEF Also, WithSurface
<1> HIDE DEF w, p
<1>5. ListIs(n, t, "prague_eth_config_precompile_surface", a)
  BY <1>1, <1>3, <1>4, LooksOnce
<1>6. ListIs(n, t, "prague_authorization_rpc_surface", a)
  BY <1>1, <1>2, <1>3, <1>4, LooksOn
<1>7. ListIs(n, t, "prague_setcode_tx", a)
  BY <1>1, <1>2, <1>3, <1>4, LooksOn
<1> QED BY <1>5, <1>6, <1>7

LEMMA OsakaChecksAre ==
  ASSUME NEW n, NEW t, NEW a \in BOOLEAN, n.flaw.early \in BOOLEAN
  PROVE  /\ ListIs(n, t, "osaka_engine_blob_api_transition", a)
         /\ ListIs(n, t, "osaka_engine_getpayload_transition", a)
         /\ ListIs(n, t, "osaka_eth_config_precompile_surface", a)
         /\ ListIs(n, t, "osaka_modexp_gas_semantics", a)
         /\ ListIs(n, t, "osaka_p256verify_precompile", a) /\ ListIs(n, t, "osaka_tx_gas_cap", a)
<1> DEFINE N == {"osaka_engine_blob_api_transition", "osaka_engine_getpayload_transition",
                 "osaka_eth_config_precompile_surface", "osaka_modexp_gas_semantics",
                 "osaka_p256verify_precompile", "osaka_tx_gas_cap"}
<1>1. /\ \A s \in {"blobsV3", "payloadV5", "p256listed", "modexp", "p256", "gasCap"} : s \in Surfaces
      /\ \A name \in N : name \in DOMAIN Main
      /\ Main["osaka_engine_blob_api_transition"] = "blobsV3"
      /\ Main["osaka_engine_getpayload_transition"] = "payloadV5"
      /\ Main["osaka_eth_config_precompile_surface"] = "p256listed"
      /\ Main["osaka_modexp_gas_semantics"] = "modexp" /\ Main["osaka_p256verify_precompile"] = "p256"
      /\ Main["osaka_tx_gas_cap"] = "gasCap"
  BY DEF Surfaces, BroughtBy, Main
<1>2. \A name \in N : Also(n, t, name)
  BY DEF Also, WithSurface
<1> DEFINE x == Call([blobsV2null |-> "yes"])
           y == Call([payloadBuilt |-> "yes"])
           z == Call([modexpHigh |-> "yes"])
           v == Call([payloadV4 |-> YesNo(a)])
<1>3. /\ Proper(x, Plain2) /\ ~CallFails(n, t, x) /\ Proper(y, Plain2) /\ ~CallFails(n, t, y)
      /\ Proper(z, Plain2) /\ ~CallFails(n, t, z)
  BY CertainCalls
<1>4. Proper(v, Plain2) /\ (CallFails(n, t, v) <=> (ShowsIn(n, t, "payloadV5") <=> a))
  <2> DEFINE want == [payloadV4 |-> YesNo(a)]
  <2>1. DOMAIN want = {"payloadV4"} /\ want["payloadV4"] = YesNo(a) /\ "payloadV4" \in Whats
    BY DEF Whats
  <2> HIDE DEF want
  <2>2. Proper(Call(want), Plain2)
    BY <2>1, ProperCall
  <2>3. CallFails(n, t, Call(want)) <=> AnswerIn(n, t, "payloadV4") # want["payloadV4"]
    BY <2>1, AsksOne
  <2>4. /\ AnswerIn(n, t, "payloadV4") = "yes" <=> ~ShowsIn(n, t, "payloadV5")
        /\ AnswerIn(n, t, "payloadV4") = "no" <=> ShowsIn(n, t, "payloadV5")
    BY AnswerIs
  <2>5. CASE a = TRUE
    BY <2>1, <2>2, <2>3, <2>4, <2>5 DEF YesNo, want
  <2>6. CASE a = FALSE
    BY <2>1, <2>2, <2>3, <2>4, <2>6 DEF YesNo, want
  <2> QED BY <2>5, <2>6
<1>5. /\ ChecksOf("osaka_engine_blob_api_transition", a) = <<x, Sees("blobsV3", a)>>
      /\ ChecksOf("osaka_engine_getpayload_transition", a) = <<y, v, Sees("payloadV5", a)>>
      /\ ChecksOf("osaka_eth_config_precompile_surface", a) = <<Sees("p256listed", a)>>
      /\ ChecksOf("osaka_modexp_gas_semantics", a) = <<Sees("modexp", a)>> \o (IF a THEN <<>> ELSE <<z>>)
      /\ ChecksOf("osaka_p256verify_precompile", a) = <<Sees("p256", a)>>
      /\ ChecksOf("osaka_tx_gas_cap", a) = <<Sees("gasCap", a)>>
  <2>1. ChecksOf("osaka_tx_gas_cap", a) = IF a THEN <<Sees("gasCap", TRUE)>> ELSE <<Sees("gasCap", FALSE)>>
    BY DEF ChecksOf, VerifyOsakaTxGasCap, CheckOsakaTxGasCapInactive
  <2>2. CASE a = TRUE
    BY <2>1, <2>2 DEF ChecksOf, CheckOsakaEngineBlobAPITransition, CheckOsakaEngineGetPayloadTransition,
         BuildEnginePayloadV3, CheckOsakaEthConfigPrecompileSurface, CheckOsakaModexpGasSemantics,
         CheckOsakaP256Verify
  <2>3. CASE a = FALSE
    BY <2>1, <2>3 DEF ChecksOf, CheckOsakaEngineBlobAPITransition, CheckOsakaEngineGetPayloadTransition,
         BuildEnginePayloadV3, CheckOsakaEthConfigPrecompileSurface, CheckOsakaModexpGasSemantics,
         CheckOsakaP256Verify
  <2> QED BY <2>2, <2>3
<1> HIDE DEF x, y, z, v
<1>6. ListIs(n, t, "osaka_engine_blob_api_transition", a)
  <2> DEFINE u == Sees("blobsV3", a)
  <2>1. Proper(u, Plain2) /\ (CallFails(n, t, u) <=> (ShowsIn(n, t, "blobsV3") <=> a))
    BY <1>1, SeesIs
  <2> HIDE DEF u
  <2>2. /\ Listed(<<x, u>>, Plain2) /\ <<x, u>> # <<>>
        /\ Fine(n, t, <<x, u>>) <=> ~CallFails(n, t, x) /\ ~CallFails(n, t, u)
    BY <1>3, <2>1, TwoCalls
  <2> QED BY <1>1, <1>2, <1>3, <1>5, <2>1, <2>2 DEF ListIs, u
<1>7. ListIs(n, t, "osaka_engine_getpayload_transition", a)
  <2> DEFINE u == Sees("payloadV5", a)
  <2>1. Proper(u, Plain2) /\ (CallFails(n, t, u) <=> (ShowsIn(n, t, "payloadV5") <=> a))
    BY <1>1, SeesIs
  <2> HIDE DEF u
  <2>2. /\ Listed(<<y, v, u>>, Plain2) /\ <<y, v, u>> # <<>>
        /\ Fine(n, t, <<y, v, u>>) <=> ~CallFails(n, t, y) /\ ~CallFails(n, t, v) /\ ~CallFails(n, t, u)
    BY <1>3, <1>4, <2>1, ThreeCalls
  <2> QED BY <1>1, <1>2, <1>3, <1>4, <1>5, <2>1, <2>2 DEF ListIs, u
<1>8. ListIs(n, t, "osaka_modexp_gas_semantics", a)
  <2>1. Listed(<<z>>, Plain2) /\ Fine(n, t, <<z>>)
    BY <1>3, OneCall
  <2> QED BY <1>1, <1>2, <1>5, <2>1, LooksOn
<1>9. /\ ListIs(n, t, "osaka_eth_config_precompile_surface", a)
      /\ ListIs(n, t, "osaka_p256verify_precompile", a)
      /\ ListIs(n, t, "osaka_tx_gas_cap", a)
  BY <1>1, <1>2, <1>5, LooksOnce
<1> QED BY <1>6, <1>7, <1>8, <1>9

LEMMA MainIs ==
  ASSUME NEW n, NEW t, NEW a \in BOOLEAN, n.flaw.early \in BOOLEAN, NEW name \in DOMAIN Main
  PROVE  ListIs(n, t, name, a)
BY ProbesAre, HeadersAre, ContractsAre, PragueChecksAre, OsakaChecksAre DEF Main, WithSurface

LEMMA ScheduleChecksAre ==
  ASSUME NEW n, NEW t, NEW a \in BOOLEAN, n.flaw.early \in BOOLEAN, NEW fork
  PROVE  LET l == CheckBPOBlobSchedule(fork, a)
             m == CheckBPOEthConfigTransitionSurface(fork, a)
         IN  /\ Listed(l, IF a THEN Inverse2 ELSE Plain2) /\ l # <<>>
             /\ Fine(n, t, l) <=> ShowsIn(n, t, "blobFields") /\ BlobsIn(n, t) = fork
             /\ Listed(m, Plain2) /\ m # <<>>
             /\ Fine(n, t, m) <=>
                  /\ ~NextIn(n, t)
                  /\ BlobsIn(n, t) = IF ~a THEN fork ELSE IF fork = "bpo1" THEN "prague" ELSE "bpo1"
<1> DEFINE fields == [blobFields |-> "yes"]
           blobs == [blobs |-> fork]
           x == Mismatch(fields)
           y == Mismatch(blobs)
           u == Sees("blobFields", FALSE)
           v == VerifyEthConfigBlobSchedule(fork)
           b == IF ~a THEN fork ELSE IF fork = "bpo1" THEN "prague" ELSE "bpo1"
           both == [next |-> "no", blobs |-> b]
           z == Call(both)
<1>1. /\ DOMAIN fields = {"blobFields"} /\ fields["blobFields"] = "yes"
      /\ DOMAIN blobs = {"blobs"} /\ blobs["blobs"] = fork
      /\ DOMAIN both = {"next", "blobs"} /\ both["next"] = "no" /\ both["blobs"] = b
      /\ "blobFields" \in Surfaces /\ "blobFields" \in Whats /\ "blobs" \in Whats /\ "next" \in Whats
  BY DEF Surfaces, BroughtBy, Whats
<1> HIDE DEF fields, blobs, both, b
<1>2. Proper(x, Inverse2) /\ (CallFails(n, t, x) <=> ~ShowsIn(n, t, "blobFields"))
  <2>1. Proper(x, Inverse2)
    BY <1>1, ProperCall
  <2>2. CallFails(n, t, x) <=> AnswerIn(n, t, "blobFields") # fields["blobFields"]
    BY <1>1, AsksOne
  <2> QED BY <1>1, <2>1, <2>2, AnswerIs
<1>3. Proper(y, Inverse2) /\ (CallFails(n, t, y) <=> BlobsIn(n, t) # fork)
  <2>1. Proper(y, Inverse2)
    BY <1>1, ProperCall
  <2>2. CallFails(n, t, y) <=> AnswerIn(n, t, "blobs") # blobs["blobs"]
    BY <1>1, AsksOne
  <2> QED BY <1>1, <2>1, <2>2, AnswerIs
<1>4. Proper(u, Plain2) /\ (CallFails(n, t, u) <=> ~ShowsIn(n, t, "blobFields"))
  BY <1>1, SeesIs
<1>5. Proper(v, Plain2) /\ (CallFails(n, t, v) <=> BlobsIn(n, t) # fork)
  BY BlobProper, BlobCall
<1>6. Proper(z, Plain2) /\ (CallFails(n, t, z) <=> NextIn(n, t) \/ BlobsIn(n, t) # b)
  <2>1. Proper(z, Plain2)
    BY <1>1 DEF Proper, Plain2, Call
  <2>2. CallFails(n, t, z) <=>
          ~(AnswerIn(n, t, "next") = both["next"] /\ AnswerIn(n, t, "blobs") = both["blobs"])
    BY <1>1 DEF CallFails, Call, AnswersIn
  <2> QED BY <1>1, <2>1, <2>2, AnswerIs
<1>7. CheckBPOEthConfigTransitionSurface(fork, a) = <<z>>
  BY DEF CheckBPOEthConfigTransitionSurface, both, b
<1>8. CheckBPOBlobSchedule(fork, a) = IF a THEN <<x, y>> ELSE <<u, v>>
  BY DEF CheckBPOBlobSchedule, LatestBlockField, fields, blobs
<1> HIDE DEF x, y, z, u, v
<1>9. /\ Listed(<<z>>, Plain2) /\ <<z>> # <<>> /\ (Fine(n, t, <<z>>) <=> ~CallFails(n, t, z))
  BY <1>6, OneCall
<1>10. CASE a = TRUE
  <2>1. /\ Listed(<<x, y>>, Inverse2) /\ <<x, y>> # <<>>
        /\ Fine(n, t, <<x, y>>) <=> ~CallFails(n, t, x) /\ ~CallFails(n, t, y)
    BY <1>2, <1>3, TwoCalls
  <2> QED BY <1>2, <1>3, <1>6, <1>7, <1>8, <1>9, <1>10, <2>1 DEF b
<1>11. CASE a = FALSE
  <2>1. /\ Listed(<<u, v>>, Plain2) /\ <<u, v>> # <<>>
        /\ Fine(n, t, <<u, v>>) <=> ~CallFails(n, t, u) /\ ~CallFails(n, t, v)
    BY <1>4, <1>5, TwoCalls
  <2> QED BY <1>4, <1>5, <1>6, <1>7, <1>8, <1>9, <1>11, <2>1 DEF b
<1> QED BY <1>10, <1>11

LEMMA ScheduleNames ==
  \A a : /\ ChecksOf("bpo1_blob_schedule", a) = CheckBPOBlobSchedule("bpo1", a)
         /\ ChecksOf("bpo2_blob_schedule", a) = CheckBPOBlobSchedule("bpo2", a)
         /\ ChecksOf("bpo1_eth_config_transition_surface", a) = CheckBPOEthConfigTransitionSurface("bpo1", a)
         /\ ChecksOf("bpo2_eth_config_transition_surface", a) = CheckBPOEthConfigTransitionSurface("bpo2", a)
BY DEF ChecksOf

(***************************************************************************)
(* The node of a suite in one of its phases.                               *)
(***************************************************************************)
ComeIn(n, ph) == ForkOrderIndex(n.fork) - (IF ph = "pre" THEN 1 ELSE 0)
SuiteAt(n, t, ph) ==
  /\ n.fork \in AllForks /\ n.impl = "geth" /\ ph \in {"pre", "post"}
  /\ n.flaw.surface \in Surfaces \cup {None} /\ n.flaw.early \in BOOLEAN
  /\ \A f \in AllForks : /\ StartedIn(n, t, f) <=> ForkOrderIndex(f) <= ComeIn(n, ph)
                         /\ ActiveIn(n, t, f) <=> ForkOrderIndex(f) <= ComeIn(n, ph)
  /\ ~NextIn(n, t)
Lacked(n, ph, name) == ExpectationForCapability(n.fork, ph, ForkFor[name])
Bad(n, t, ph, name) == Fails(n, t, ChecksOf(name, Lacked(n, ph, name)))

\* what a check of the suite expects is what has come
LEMMA Expected ==
  ASSUME NEW n, NEW t, NEW ph, SuiteAt(n, t, ph), NEW name \in SuiteNames(n.fork)
  PROVE  /\ Lacked(n, ph, name) \in BOOLEAN
         /\ Lacked(n, ph, name) <=> ph = "pre" /\ n.fork = ForkFor[name]
         /\ StartedIn(n, t, ForkFor[name]) <=> ~Lacked(n, ph, name)
<1>1. Lacked(n, ph, name) \in BOOLEAN /\ (Lacked(n, ph, name) <=> ph = "pre" /\ n.fork = ForkFor[name])
  BY DEF Lacked, ExpectationForCapability
<1> DEFINE f == ForkFor[name]
<1>2. /\ f \in AllForks /\ n.fork \in AllForks /\ ForkOrderIndex(f) <= ForkOrderIndex(n.fork)
      /\ ForkOrderIndex(f) \in 1..8 /\ ForkOrderIndex(n.fork) \in 1..8 /\ ph \in {"pre", "post"}
  BY RegistryIs, OrderIs DEF SuiteNames, SuiteAt
<1>3. ForkOrderIndex(f) = ForkOrderIndex(n.fork) => f = n.fork
  BY <1>2, OrderIs
<1>4. StartedIn(n, t, f) <=> ForkOrderIndex(f) <= ForkOrderIndex(n.fork) - (IF ph = "pre" THEN 1 ELSE 0)
  BY <1>2 DEF SuiteAt, ComeIn
<1> HIDE DEF f
<1>5. StartedIn(n, t, f) <=> ~(ph = "pre" /\ n.fork = f)
  BY <1>2, <1>3, <1>4
<1> QED BY <1>1, <1>5 DEF f

\* a surface that the flaw is not about
LEMMA ShowsAsCome ==
  ASSUME NEW n, NEW t, NEW ph, SuiteAt(n, t, ph), NEW s \in Surfaces
  PROVE  ShowsIn(n, t, s) <=>
           IF n.flaw.surface = s THEN n.flaw.early ELSE ForkOrderIndex(BroughtBy[s]) <= ComeIn(n, ph)
<1>1. BroughtBy[s] \in AllForks
  BY OrderIs DEF Surfaces, BroughtBy
<1> QED BY <1>1 DEF ShowsIn, SuiteAt

LEMMA MainFork ==
  /\ \A name \in DOMAIN Main : name \in DOMAIN ForkFor /\ Main[name] \in Surfaces
                               /\ BroughtBy[Main[name]] = ForkFor[name] /\ name \notin OneForkOnly
  /\ DOMAIN ForkFor = DOMAIN Main \cup OneForkOnly
BY DEF Main, ForkFor, Surfaces, BroughtBy, OneForkOnly

LEMMA BadMain ==
  ASSUME NEW n, NEW t, NEW ph, SuiteAt(n, t, ph), NEW name \in SuiteNames(n.fork), name \in DOMAIN Main
  PROVE  Bad(n, t, ph, name) <=>
           LET a == Lacked(n, ph, name) IN
             (ShowsIn(n, t, Main[name]) <=> a) \/ (~a /\ ~Also(n, t, name))
<1> DEFINE a == Lacked(n, ph, name)
           l == ChecksOf(name, a)
<1>1. a \in BOOLEAN /\ n.flaw.early \in BOOLEAN
  BY Expected DEF SuiteAt
<1>2. /\ Listed(l, Plain2) /\ l # <<>>
      /\ Fine(n, t, l) <=> (ShowsIn(n, t, Main[name]) <=> ~a) /\ (a \/ Also(n, t, name))
  BY <1>1, MainIs DEF ListIs
<1> HIDE DEF l
<1>3. Head(l).kind \in Plain2
  BY <1>2, FirstCall
<1>4. Fails(n, t, l) <=> ~Fine(n, t, l)
  BY <1>3 DEF Fails, Plain2
<1>5. Bad(n, t, ph, name) <=> ~Fine(n, t, l)
  BY <1>4 DEF Bad, l
<1> HIDE DEF a
<1>6. CASE a = TRUE
  BY <1>2, <1>5, <1>6 DEF a
<1>7. CASE a = FALSE
  BY <1>2, <1>5, <1>7 DEF a
<1> QED BY <1>1, <1>6, <1>7

LEMMA BadSchedule ==
  ASSUME NEW n, NEW t, NEW ph, SuiteAt(n, t, ph), NEW name \in SuiteNames(n.fork), name \in OneForkOnly
  PROVE  /\ n.fork \in {"bpo1", "bpo2"} /\ n.fork = ForkFor[name]
         /\ Lacked(n, ph, name) <=> ph = "pre"
         /\ name \in {"bpo1_blob_schedule", "bpo2_blob_schedule"} =>
              (Bad(n, t, ph, name) <=>
                 ((ShowsIn(n, t, "blobFields") /\ BlobsIn(n, t) = n.fork) <=> ph = "pre"))
         /\ name \notin {"bpo1_blob_schedule", "bpo2_blob_schedule"} =>
              (Bad(n, t, ph, name) <=>
                 BlobsIn(n, t) # IF ph # "pre" THEN n.fork
                                 ELSE IF n.fork = "bpo1" THEN "prague" ELSE "bpo1")
<1> DEFINE a == Lacked(n, ph, name)
           k == CheckBPOBlobSchedule(n.fork, a)
           m == CheckBPOEthConfigTransitionSurface(n.fork, a)
<1>1. /\ n.fork = ForkFor[name] /\ name \in DOMAIN ForkFor /\ n.fork \in {"bpo1", "bpo2"}
      /\ n.fork = "bpo1" <=> name \in {"bpo1_blob_schedule", "bpo1_eth_config_transition_surface"}
  BY DEF SuiteNames, OneForkOnly, ForkFor
<1>2. a \in BOOLEAN /\ (a <=> ph = "pre") /\ n.flaw.early \in BOOLEAN /\ ~NextIn(n, t)
  BY <1>1, Expected DEF SuiteAt
<1>3. name \in {"bpo1_blob_schedule", "bpo2_blob_schedule"} => ChecksOf(name, a) = k
  BY <1>1, ScheduleNames
<1>4. name \notin {"bpo1_blob_schedule", "bpo2_blob_schedule"} => ChecksOf(name, a) = m
  BY <1>1, ScheduleNames DEF OneForkOnly
<1>5. /\ Listed(k, IF a THEN Inverse2 ELSE Plain2) /\ k # <<>>
      /\ Fine(n, t, k) <=> ShowsIn(n, t, "blobFields") /\ BlobsIn(n, t) = n.fork
      /\ Listed(m, Plain2) /\ m # <<>>
      /\ Fine(n, t, m) <=>
           BlobsIn(n, t) = IF ~a THEN n.fork ELSE IF n.fork = "bpo1" THEN "prague" ELSE "bpo1"
  BY <1>2, ScheduleChecksAre
<1> HIDE DEF k, m
<1>6. Head(k).kind \in (IF a THEN Inverse2 ELSE Plain2)
  BY <1>5, FirstCall
<1>7. Head(m).kind \in Plain2
  BY <1>5, FirstCall
<1>8. /\ Fails(n, t, k) <=> IF a THEN Fine(n, t, k) ELSE ~Fine(n, t, k)
      /\ Fails(n, t, m) <=> ~Fine(n, t, m)
  <2>1. Fails(n, t, m) <=> ~Fine(n, t, m)
    BY <1>7 DEF Fails, Plain2
  <2>2. CASE a
    BY <1>6, <2>1, <2>2 DEF Fails, Inverse2
  <2>3. CASE ~a
    BY <1>6, <2>1, <2>3 DEF Fails, Plain2
  <2> QED BY <2>2, <2>3
<1>9. name \in {"bpo1_blob_schedule", "bpo2_blob_schedule"} => (Bad(n, t, ph, name) <=> Fails(n, t, k))
  BY <1>3 DEF Bad
<1>10. name \notin {"bpo1_blob_schedule", "bpo2_blob_schedule"} => (Bad(n, t, ph, name) <=> Fails(n, t, m))
  BY <1>4 DEF Bad
<1> HIDE DEF a
<1>11. CASE a
  BY <1>1, <1>2, <1>5, <1>8, <1>9, <1>10, <1>11 DEF a
<1>12. CASE ~a
  BY <1>1, <1>2, <1>5, <1>8, <1>9, <1>10, <1>12 DEF a
<1> QED BY <1>11, <1>12

\* the lists of a suite
LEMMA SuiteLists ==
  ASSUME NEW n, NEW t, NEW ph, SuiteAt(n, t, ph), NEW name \in SuiteNames(n.fork)
  PROVE  LET l == ChecksOf(name, Lacked(n, ph, name)) IN
           /\ l # <<>>
           /\ \/ Listed(l, Plain2)
              \/ Listed(l, Inverse2) /\ ph = "pre" /\ name \in {"bpo1_blob_schedule", "bpo2_blob_schedule"}
<1> DEFINE a == Lacked(n, ph, name)
<1>1. a \in BOOLEAN /\ n.flaw.early \in BOOLEAN
  BY Expected DEF SuiteAt
<1>2. CASE name \in DOMAIN Main
  BY <1>1, <1>2, MainIs DEF ListIs
<1>3. CASE name \in OneForkOnly
  <2>1. \A f : LET k == CheckBPOBlobSchedule(f, a)
                   m == CheckBPOEthConfigTransitionSurface(f, a)
               IN  /\ Listed(k, IF a THEN Inverse2 ELSE Plain2) /\ k # <<>>
                   /\ Listed(m, Plain2) /\ m # <<>>
    BY <1>1, ScheduleChecksAre
  <2>2. a <=> ph = "pre"
    BY <1>3, BadSchedule
  <2> HIDE DEF a
  <2>3. CASE name = "bpo1_blob_schedule"
    BY <2>1, <2>2, <2>3, ScheduleNames DEF a
  <2>4. CASE name = "bpo2_blob_schedule"
    BY <2>1, <2>2, <2>4, ScheduleNames DEF a
  <2>5. CASE name = "bpo1_eth_config_transition_surface"
    BY <2>1, <2>5, ScheduleNames DEF a
  <2>6. CASE name = "bpo2_eth_config_transition_surface"
    BY <2>1, <2>6, ScheduleNames DEF a
  <2> QED BY <1>3, <2>3, <2>4, <2>5, <2>6 DEF OneForkOnly
<1> QED BY <1>2, <1>3, MainFork DEF SuiteNames

LEMMA SuiteBlobs ==
  ASSUME NEW n, NEW t, NEW ph, SuiteAt(n, t, ph)
  PROVE  LET C == ComeIn(n, ph)
             s == n.flaw.surface
             there(b, i) == IF s = b THEN n.flaw.early ELSE i <= C
         IN  /\ C \in 0..8
             /\ BlobsWanted(CfgIn(n), t) =
                  IF 8 <= C THEN "bpo2" ELSE IF 7 <= C THEN "bpo1" ELSE IF 5 <= C THEN "prague"
                  ELSE IF 2 <= C THEN "cancun" ELSE "unasked"
             /\ BlobsIn(n, t) =
                  IF there("bpo2Blobs", 8) THEN "bpo2" ELSE IF there("bpo1Blobs", 7) THEN "bpo1"
                  ELSE IF there("pragueBlobs", 5) THEN "prague"
                  ELSE IF there("cancunBlobs", 2) THEN "cancun" ELSE None
<1> DEFINE C == ComeIn(n, ph)
<1>1. C \in 0..8
  BY OrderIs DEF ComeIn, SuiteAt
<1>2. /\ \A s \in {"bpo2Blobs", "bpo1Blobs", "pragueBlobs", "cancunBlobs"} : s \in Surfaces
      /\ BroughtBy["bpo2Blobs"] = "bpo2" /\ BroughtBy["bpo1Blobs"] = "bpo1"
      /\ BroughtBy["pragueBlobs"] = "prague" /\ BroughtBy["cancunBlobs"] = "cancun"
  BY DEF Surfaces, BroughtBy
<1> HIDE DEF C
<1>3. /\ ActiveIn(n, t, "bpo2") <=> 8 <= C
      /\ ActiveIn(n, t, "bpo1") <=> 7 <= C
      /\ ActiveIn(n, t, "osaka") <=> 6 <= C
      /\ ActiveIn(n, t, "prague") <=> 5 <= C
      /\ ActiveIn(n, t, "cancun") <=> 2 <= C
  BY OrderIs, IndexIs DEF SuiteAt, C
<1>4. BlobsWanted(CfgIn(n), t) =
        IF 8 <= C THEN "bpo2" ELSE IF 7 <= C THEN "bpo1" ELSE IF 5 <= C THEN "prague"
        ELSE IF 2 <= C THEN "cancun" ELSE "unasked"
  <2>1. BlobsWanted(CfgIn(n), t) =
          IF 8 <= C THEN "bpo2" ELSE IF 7 <= C THEN "bpo1" ELSE IF 6 <= C \/ 5 <= C THEN "prague"
          ELSE IF 2 <= C THEN "cancun" ELSE "unasked"
    BY <1>3, SurfaceIs DEF SuiteAt
  <2> QED BY <1>1, <2>1
<1>5. \A s \in {"bpo2Blobs", "bpo1Blobs", "pragueBlobs", "cancunBlobs"} :
        ShowsIn(n, t, s) <=> IF n.flaw.surface = s THEN n.flaw.early
                             ELSE ForkOrderIndex(BroughtBy[s]) <= C
  BY <1>2, ShowsAsCome DEF C
<1> QED BY <1>1, <1>2, <1>4, <1>5, IndexIs DEF BlobsIn, C

\* the suite passes a faithful node
LEMMA FaithfulFine ==
  ASSUME NEW n, NEW t, NEW ph, SuiteAt(n, t, ph), n.flaw.surface = None,
         NEW name \in SuiteNames(n.fork)
  PROVE  ~Bad(n, t, ph, name)
<1> DEFINE a == Lacked(n, ph, name)
           C == ComeIn(n, ph)
<1>1. InOrder(n, t)
  <2>1. C \in Int /\ \A f \in AllForks : ForkOrderIndex(f) \in 1..8
    BY OrderIs DEF ComeIn, SuiteAt
  <2> HIDE DEF C
  <2> QED BY <2>1 DEF InOrder, SuiteAt, C
<1>2. n.flaw.early \in BOOLEAN
  BY DEF SuiteAt
<1>3. /\ \A s \in Surfaces : ShowsIn(n, t, s) <=> StartedIn(n, t, BroughtBy[s])
      /\ ~CallFails(n, t, SurfaceCall)
  BY <1>1, <1>2, FaithfulSurface
<1>4. StartedIn(n, t, ForkFor[name]) <=> ~a
  BY Expected
<1>5. CASE name \in DOMAIN Main
  <2>1. ShowsIn(n, t, Main[name]) <=> ~a
    BY <1>3, <1>4, <1>5, MainFork
  <2>2. ~a => Also(n, t, name)
    <3>1. /\ \A s \in {"baseFee", "wiring", "params", "authList"} : s \in Surfaces
          /\ BroughtBy["baseFee"] = ForkFor["fixheader_rpc_surface"]
          /\ BroughtBy["wiring"] = ForkFor["posa_proposal_wiring_surface"]
          /\ BroughtBy["params"] = ForkFor["posa_proposal_params_surface"]
          /\ BroughtBy["authList"] = ForkFor["prague_authorization_rpc_surface"]
      BY DEF Surfaces, BroughtBy, ForkFor
    <3> HIDE DEF a
    <3> QED BY <1>3, <1>4, <3>1 DEF Also
  <2>3. Bad(n, t, ph, name) <=> (ShowsIn(n, t, Main[name]) <=> a) \/ (~a /\ ~Also(n, t, name))
    BY <1>5, BadMain
  <2>4. a \in BOOLEAN
    BY Expected
  <2> HIDE DEF a
  <2>5. CASE a = TRUE
    BY <2>1, <2>3, <2>5
  <2>6. CASE a = FALSE
    BY <2>1, <2>2, <2>3, <2>6
  <2> QED BY <2>4, <2>5, <2>6
<1>6. CASE name \in OneForkOnly
  <2>1. /\ n.fork \in {"bpo1", "bpo2"}
        /\ name \in {"bpo1_blob_schedule", "bpo2_blob_schedule"} =>
             (Bad(n, t, ph, name) <=>
                ((ShowsIn(n, t, "blobFields") /\ BlobsIn(n, t) = n.fork) <=> ph = "pre"))
        /\ name \notin {"bpo1_blob_schedule", "bpo2_blob_schedule"} =>
             (Bad(n, t, ph, name) <=>
                BlobsIn(n, t) # IF ph # "pre" THEN n.fork
                                ELSE IF n.fork = "bpo1" THEN "prague" ELSE "bpo1")
    BY <1>6, BadSchedule
  <2>2. C = (IF n.fork = "bpo1" THEN 7 ELSE 8) - (IF ph = "pre" THEN 1 ELSE 0)
    BY <2>1, IndexIs DEF ComeIn
  <2>3. BlobsIn(n, t) = IF 8 <= C THEN "bpo2" ELSE IF 7 <= C THEN "bpo1"
                        ELSE IF 5 <= C THEN "prague" ELSE IF 2 <= C THEN "cancun" ELSE None
    BY SuiteBlobs DEF None
  <2>4. ShowsIn(n, t, "blobFields")
    <3>1. "blobFields" \in Surfaces /\ BroughtBy["blobFields"] = "cancun"
      BY DEF Surfaces, BroughtBy
    <3>2. n.flaw.surface # "blobFields" /\ 2 <= C
      BY <2>1, <2>2 DEF None
    <3> QED BY <3>1, <3>2, ShowsAsCome, IndexIs
  <2>5. ph \in {"pre", "post"}
    BY DEF SuiteAt
  <2> HIDE DEF C
  <2> QED BY <2>1, <2>2, <2>3, <2>4, <2>5
<1> QED BY <1>5, <1>6, MainFork DEF SuiteNames

(***************************************************************************)
(* What a suite finds before its fork, and what is left for after it.      *)
(***************************************************************************)
PreBad(n) ==
  LET s == n.flaw.surface IN
    /\ s # None
    /\ IF n.flaw.early THEN BroughtBy[s] = n.fork /\ s \notin SeenLate
       ELSE \/ s = "cancunBlobs" /\ n.fork = "prague"
            \/ s = "pragueBlobs" /\ n.fork = "bpo1"
            \/ s = "bpo1Blobs" /\ n.fork = "bpo2"
PostBad(n) ==
  LET s == n.flaw.surface IN
    /\ s # None /\ ~n.flaw.early /\ ~Superseded(s, n.fork) /\ ~PreBad(n)
    /\ ForkOrderIndex(BroughtBy[s]) <= ForkOrderIndex(n.fork)

\* a wrong blob schedule is seen by the check of the Cancun header
LEMMA BlobsFound ==
  ASSUME NEW n, NEW t, NEW ph, SuiteAt(n, t, ph), ComeIn(n, ph) >= 2,
         BlobsIn(n, t) # BlobsWanted(CfgIn(n), t)
  PROVE  \E name \in SuiteNames(n.fork) : Bad(n, t, ph, name)
<1> DEFINE name == "cancun_header_surface"
           C == ComeIn(n, ph)
           i == ForkOrderIndex(n.fork)
<1>1. i \in 1..8 /\ C = i - (IF ph = "pre" THEN 1 ELSE 0) /\ ph \in {"pre", "post"} /\ n.fork \in AllForks
  BY OrderIs DEF SuiteAt, ComeIn
<1>2. ForkFor[name] = "cancun" /\ name \in DOMAIN ForkFor /\ name \in DOMAIN Main /\ name \notin OneForkOnly
      /\ name \in WithSurface
  BY DEF ForkFor, Main, OneForkOnly, WithSurface
<1> HIDE DEF name, C, i
<1>3. name \in SuiteNames(n.fork)
  BY <1>1, <1>2, IndexIs DEF SuiteNames, C, i
<1>4. ~Lacked(n, ph, name)
  <2>1. ~(ph = "pre" /\ n.fork = "cancun")
    BY <1>1, IndexIs DEF C, i
  <2> QED BY <1>2, <1>3, <2>1, Expected
<1>5. CallFails(n, t, SurfaceCall)
  <2>1. BlobsWanted(CfgIn(n), t) # "unasked"
    BY <1>1, SuiteBlobs DEF C
  <2>2. n.impl = "geth" /\ n.flaw.early \in BOOLEAN
    BY DEF SuiteAt
  <2> QED BY <2>1, <2>2, SurfaceIs DEF SurfaceFails
<1>6. ~Also(n, t, name)
  BY <1>2, <1>5 DEF Also
<1>7. Bad(n, t, ph, name)
  BY <1>2, <1>3, <1>4, <1>6, BadMain
<1> QED BY <1>3, <1>7

\* a surface of its own check
LEMMA MainFound ==
  ASSUME NEW n, NEW t, NEW ph, SuiteAt(n, t, ph), NEW name \in SuiteNames(n.fork), name \in DOMAIN Main,
         n.flaw.surface = Main[name], n.flaw.early = Lacked(n, ph, name)
  PROVE  Bad(n, t, ph, name)
<1>1. Main[name] \in Surfaces
  BY MainFork
<1>2. ShowsIn(n, t, Main[name]) <=> n.flaw.early
  BY <1>1, ShowsAsCome
<1> QED BY <1>2, BadMain

\* the check that looks for a surface
SeenBy(s) == CHOOSE name \in DOMAIN Main : Main[name] = s
Looked == {Main[name] : name \in DOMAIN Main}

LEMMA SeenByIs ==
  /\ \A s \in Looked : /\ SeenBy(s) \in DOMAIN Main /\ Main[SeenBy(s)] = s
                       /\ ForkFor[SeenBy(s)] = BroughtBy[s] /\ SeenBy(s) \notin OneForkOnly
                       /\ SeenBy(s) \in DOMAIN ForkFor
  /\ \A s \in Surfaces : s \in Looked \/ s \in SeenLate \/ s \in {"pragueBlobs", "bpo1Blobs", "bpo2Blobs"}
<1>1. \A s \in Looked : SeenBy(s) \in DOMAIN Main /\ Main[SeenBy(s)] = s
  BY DEF Looked, SeenBy
<1>2. \A s \in {"push0", "mcopy", "transient", "blobFields", "beaconRoot", "contracts", "requestsHash", "bls",
               "setCode", "blobsV3", "payloadV5", "p256listed", "modexp", "p256", "gasCap"} : s \in Looked
  <2> DEFINE in(name) == name \in DOMAIN Main
  <2>1. /\ in("push0_execution") /\ Main["push0_execution"] = "push0"
        /\ in("mcopy_execution") /\ Main["mcopy_execution"] = "mcopy"
        /\ in("transient_storage_lifecycle") /\ Main["transient_storage_lifecycle"] = "transient"
        /\ in("cancun_header_surface") /\ Main["cancun_header_surface"] = "blobFields"
        /\ in("fixheader_rpc_surface") /\ Main["fixheader_rpc_surface"] = "beaconRoot"
        /\ in("posa_contract_surface") /\ Main["posa_contract_surface"] = "contracts"
        /\ in("prague_rpc_surface") /\ Main["prague_rpc_surface"] = "requestsHash"
        /\ in("prague_eth_config_precompile_surface") /\ Main["prague_eth_config_precompile_surface"] = "bls"
        /\ in("prague_setcode_tx") /\ Main["prague_setcode_tx"] = "setCode"
        /\ in("osaka_engine_blob_api_transition") /\ Main["osaka_engine_blob_api_transition"] = "blobsV3"
        /\ in("osaka_engine_getpayload_transition") /\ Main["osaka_engine_getpayload_transition"] = "payloadV5"
        /\ in("osaka_eth_config_precompile_surface") /\ Main["osaka_eth_config_precompile_surface"] = "p256listed"
        /\ in("osaka_modexp_gas_semantics") /\ Main["osaka_modexp_gas_semantics"] = "modexp"
        /\ in("osaka_p256verify_precompile") /\ Main["osaka_p256verify_precompile"] = "p256"
        /\ in("osaka_tx_gas_cap") /\ Main["osaka_tx_gas_cap"] = "gasCap"
    BY DEF Main
  <2> QED BY <2>1 DEF Looked
<1>3. \A s \in Surfaces : s \in Looked \/ s \in SeenLate \/ s \in {"pragueBlobs", "bpo1Blobs", "bpo2Blobs"}
  BY <1>2 DEF Surfaces, BroughtBy, SeenLate
<1> QED BY <1>1, <1>3, MainFork

LEMMA PreFound ==
  ASSUME NEW n, NEW t, SuiteAt(n, t, "pre"), PreBad(n)
  PROVE  \E name \in SuiteNames(n.fork) : Bad(n, t, "pre", name)
<1> DEFINE s == n.flaw.surface
           C == ComeIn(n, "pre")
<1>1. s \in Surfaces /\ n.flaw.early \in BOOLEAN /\ n.fork \in AllForks
  BY DEF PreBad, SuiteAt
<1>2. CASE n.flaw.early /\ s \in Looked
  <2> DEFINE name == SeenBy(s)
  <2>1. /\ name \in DOMAIN Main /\ Main[name] = s /\ ForkFor[name] = n.fork /\ name \notin OneForkOnly
        /\ name \in DOMAIN ForkFor
    BY <1>2, SeenByIs DEF PreBad
  <2> HIDE DEF name
  <2>2. name \in SuiteNames(n.fork)
    BY <1>1, <2>1, OrderIs DEF SuiteNames
  <2>3. Lacked(n, "pre", name) = TRUE
    BY <2>1, <2>2, Expected
  <2>4. n.flaw.early = TRUE
    BY <1>1, <1>2
  <2> QED BY <2>1, <2>2, <2>3, <2>4, MainFound
<1>3. CASE n.flaw.early /\ s \notin Looked
  <2>1. \/ s = "pragueBlobs" /\ n.fork = "prague"
        \/ s = "bpo1Blobs" /\ n.fork = "bpo1"
        \/ s = "bpo2Blobs" /\ n.fork = "bpo2"
    <3>1. s \in {"pragueBlobs", "bpo1Blobs", "bpo2Blobs"} /\ BroughtBy[s] = n.fork
      BY <1>1, <1>3, SeenByIs DEF PreBad
    <3> QED BY <3>1 DEF BroughtBy
  <2>2. C = ForkOrderIndex(n.fork) - 1
    BY DEF ComeIn
  <2>3. C >= 2
    BY <2>1, <2>2, IndexIs
  <2>4. BlobsIn(n, t) # BlobsWanted(CfgIn(n), t)
    BY <1>3, <2>1, <2>2, IndexIs, SuiteBlobs
  <2> QED BY <2>3, <2>4, BlobsFound
<1>4. CASE ~n.flaw.early
  <2>1. \/ s = "cancunBlobs" /\ n.fork = "prague"
        \/ s = "pragueBlobs" /\ n.fork = "bpo1"
        \/ s = "bpo1Blobs" /\ n.fork = "bpo2"
    BY <1>4 DEF PreBad
  <2>2. C = ForkOrderIndex(n.fork) - 1
    BY DEF ComeIn
  <2>3. C >= 2
    BY <2>1, <2>2, IndexIs
  <2>4. BlobsIn(n, t) # BlobsWanted(CfgIn(n), t)
    BY <1>4, <2>1, <2>2, IndexIs, SuiteBlobs DEF None
  <2> QED BY <2>3, <2>4, BlobsFound
<1> QED BY <1>1, <1>2, <1>3, <1>4

LEMMA PostFound ==
  ASSUME NEW n, NEW t, SuiteAt(n, t, "post"), PostBad(n)
  PROVE  \E name \in SuiteNames(n.fork) : Bad(n, t, "post", name)
<1> DEFINE s == n.flaw.surface
           i == ForkOrderIndex(n.fork)
<1>1. /\ s \in Surfaces /\ n.flaw.early \in BOOLEAN /\ n.flaw.early = FALSE /\ n.fork \in AllForks
      /\ ForkOrderIndex(BroughtBy[s]) <= i /\ i \in 1..8
  BY OrderIs DEF PostBad, SuiteAt
<1>2. ComeIn(n, "post") = i
  BY <1>1 DEF ComeIn
<1>3. ASSUME NEW name \in SuiteNames(n.fork) PROVE Lacked(n, "post", name) = FALSE
  BY Expected
<1>4. CASE s \in Looked
  <2> DEFINE name == SeenBy(s)
  <2>1. /\ name \in DOMAIN Main /\ Main[name] = s /\ ForkFor[name] = BroughtBy[s] /\ name \notin OneForkOnly
        /\ name \in DOMAIN ForkFor
    BY <1>4, SeenByIs
  <2> HIDE DEF name
  <2>2. name \in SuiteNames(n.fork)
    BY <1>1, <2>1 DEF SuiteNames
  <2> QED BY <1>1, <1>3, <2>1, <2>2, MainFound
<1>5. CASE s \in {"baseFee", "wiring", "params", "authList"}
  <2> DEFINE name == IF s = "baseFee" THEN "fixheader_rpc_surface"
                     ELSE IF s = "wiring" THEN "posa_proposal_wiring_surface"
                     ELSE IF s = "params" THEN "posa_proposal_params_surface"
                     ELSE "prague_authorization_rpc_surface"
  <2>1. /\ name \in DOMAIN Main /\ ForkFor[name] = BroughtBy[s] /\ name \notin OneForkOnly
        /\ name \in DOMAIN ForkFor
    BY <1>5 DEF Main, ForkFor, BroughtBy, OneForkOnly
  <2>2. ~ShowsIn(n, t, s)
    BY <1>1 DEF ShowsIn
  <2>3. ~Also(n, t, name)
    BY <1>5, <2>2 DEF Also, WithSurface
  <2> HIDE DEF name
  <2>4. name \in SuiteNames(n.fork)
    BY <1>1, <2>1 DEF SuiteNames
  <2>5. Bad(n, t, "post", name)
    BY <1>3, <2>1, <2>3, <2>4, BadMain
  <2> QED BY <2>4, <2>5
<1>6. CASE s \in {"cancunBlobs", "pragueBlobs", "bpo1Blobs", "bpo2Blobs"}
  <2>1. /\ BroughtBy["cancunBlobs"] = "cancun" /\ BroughtBy["pragueBlobs"] = "prague"
        /\ BroughtBy["bpo1Blobs"] = "bpo1" /\ BroughtBy["bpo2Blobs"] = "bpo2"
    BY DEF BroughtBy
  <2>2. /\ s = "cancunBlobs" => i <= 5 /\ n.fork # "prague"
        /\ s = "pragueBlobs" => i <= 7 /\ n.fork # "bpo1"
        /\ s = "bpo1Blobs" => n.fork # "bpo2"
    BY <1>1, IndexIs DEF PostBad, Superseded, PreBad, None
  <2>3. /\ n.fork # "prague" => i # 5
        /\ n.fork # "bpo1" => i # 7
        /\ n.fork # "bpo2" => i # 8
    BY <1>1, IndexIs, OrderIs
  <2>4. \/ s = "cancunBlobs" /\ i \in {2, 3, 4}
        \/ s = "pragueBlobs" /\ i \in {5, 6}
        \/ s = "bpo1Blobs" /\ i = 7
        \/ s = "bpo2Blobs" /\ i = 8
    BY <1>1, <1>6, <2>1, <2>2, <2>3, IndexIs
  <2>5. BlobsIn(n, t) # BlobsWanted(CfgIn(n), t)
    BY <1>1, <1>2, <2>4, SuiteBlobs DEF None
  <2> QED BY <1>2, <2>4, <2>5, BlobsFound
<1>7. s \in Looked \/ s \in {"baseFee", "wiring", "params", "authList"}
      \/ s \in {"cancunBlobs", "pragueBlobs", "bpo1Blobs", "bpo2Blobs"}
  BY <1>1, SeenByIs DEF SeenLate
<1> QED BY <1>4, <1>5, <1>6, <1>7

(***************************************************************************)
(* A suite: what has failed is what the checks that are over had to find.  *)
(***************************************************************************)
LEMMA AtPhase ==
  ASSUME NetInv, net.run = "suite", phase # "start"
  PROVE  SuiteAt(net, now, phase)
<1>1. /\ net \in NetType /\ now = 1 /\ net.fork # None /\ net.impl = "geth" /\ phase \in {"pre", "post"}
      /\ net.mode \in {"poa", "smoke"} /\ Legal(net.mode, net.target, 1, net.genesis)
      /\ Named(net.mode, net.target) = Come
  BY DEF NetInv
<1>2. /\ net.fork \in AllForks /\ net.flaw.surface \in Surfaces \cup {None} /\ net.flaw.early \in BOOLEAN
      /\ net.genesis \in [AllForks -> Int]
  BY <1>1 DEF NetType
<1>3. Come = ComeIn(net, phase)
  BY DEF Come, ComeIn
<1>4. \A f \in AllForks : /\ StartedIn(net, now, f) <=> ForkOrderIndex(f) <= Named(net.mode, net.target)
                          /\ ActiveIn(net, now, f) <=> ForkOrderIndex(f) <= Named(net.mode, net.target)
                          /\ net.genesis[f] <= 0
  BY <1>1, GeneratedInOrder
<1>5. ~NextIn(net, now)
  BY <1>1, <1>2, <1>4 DEF NextIn
<1> QED BY <1>1, <1>2, <1>3, <1>4, <1>5 DEF SuiteAt

BPOBlobs == {"bpo1_blob_schedule", "bpo2_blob_schedule"}
Pending == checks \cup {check}

\* the check that is going on
Checking ==
  /\ check \in SuiteNames(net.fork) \ checks /\ verdict = "going" /\ asks # <<>>
  /\ Listed(asks, Plain2) \/ (Listed(asks, Inverse2) /\ phase = "pre" /\ check \in BPOBlobs)
  /\ lost = {} => (Fails(net, now, asks) <=> Bad(net, now, phase, check))

\* the checks that are over
FoundSo ==
  lost = {} =>
    (failed # {} <=> \E name \in SuiteNames(net.fork) \ Pending : Bad(net, now, phase, name))

Ended ==
  /\ check = None /\ checks = {} /\ (verdict = "passed" <=> failed = {})
  /\ phase = "post" \/ failed # {}

SuiteInv ==
  net.run = "suite" =>
    /\ phase = "start" => /\ checks = {} /\ check = None /\ failed = {} /\ lost = {}
                          /\ verdict = "going"
    /\ phase # "start" =>
         /\ checks \subseteq SuiteNames(net.fork) /\ verdict \in {"going", "passed", "failed"}
         /\ check # None => Checking
         /\ FoundSo
         /\ verdict # "going" => Ended
         /\ phase = "post" /\ lost = {} => ~PreBad(net)

LEMMA SuiteInit == Init => SuiteInv
BY DEF Init, SuiteInv

LEMMA NoneIsNoName == \A fork : None \notin SuiteNames(fork)
BY DEF None, SuiteNames, ForkFor

LEMMA StartsPhase ==
  ASSUME NetInv, SuiteInv, NEW ph \in {"pre", "post"}, StartPhase(ph)
  PROVE  SuiteInv'
<1>1. /\ verdict = "going" /\ check = None /\ checks = {} /\ net.run = "suite" /\ failed = {}
      /\ phase = (IF ph = "pre" THEN "start" ELSE "pre") /\ phase' = ph
      /\ checks' = {c.name : c \in DefaultSuite(net.fork)}
      /\ UNCHANGED <<check, asks, failed, lost, verdict>>
  BY DEF StartPhase, Idle, vCheck
<1>2. net'.run = "suite" /\ net'.fork = net.fork /\ net'.flaw = net.flaw /\ net.fork \in AllForks
  BY DEF StartPhase, NetInv, NetType
<1>3. checks' = SuiteNames(net'.fork)
  BY <1>1, <1>2, NamesAre
<1>4. FoundSo'
  BY <1>1, <1>3 DEF FoundSo, Pending
<1>5. PreBad(net') <=> PreBad(net)
  BY <1>2 DEF PreBad
<1>6. CASE ph = "pre"
  BY <1>1, <1>2, <1>3, <1>4, <1>6 DEF SuiteInv
<1>7. CASE ph = "post"
  <2>1. phase = "pre" /\ FoundSo /\ SuiteAt(net, now, "pre")
    BY <1>1, <1>7, AtPhase DEF SuiteInv
  <2>2. SuiteNames(net.fork) \ Pending = SuiteNames(net.fork)
    BY <1>1, NoneIsNoName DEF Pending
  <2>3. lost = {} => ~PreBad(net)
    BY <1>1, <2>1, <2>2, PreFound DEF FoundSo
  <2> QED BY <1>1, <1>2, <1>3, <1>4, <1>5, <1>7, <2>3 DEF SuiteInv
<1> QED BY <1>6, <1>7

LEMMA EndsSuite ==
  ASSUME NetInv, SuiteInv, EndSuite
  PROVE  SuiteInv'
<1>1. /\ verdict = "going" /\ check = None /\ checks = {} /\ net.run = "suite"
      /\ phase = "post" \/ failed # {}
      /\ verdict' = IF failed = {} THEN "passed" ELSE "failed"
      /\ UNCHANGED <<net, now, phase, checks, check, asks, failed, lost>> /\ phase # "start"
  BY DEF EndSuite, Idle, vCheck
<1>2. Ended' /\ (FoundSo' <=> FoundSo)
  BY <1>1 DEF Ended, FoundSo, Pending
<1> QED BY <1>1, <1>2 DEF SuiteInv

LEMMA StartsCheck ==
  ASSUME NetInv, SuiteInv, StartCheck
  PROVE  SuiteInv'
<1>1. CASE net.run # "suite"
  BY <1>1 DEF StartCheck, SuiteInv
<1>2. CASE net.run = "suite"
  <2> DEFINE name == CHOOSE c \in checks : TRUE
             cap == CHOOSE c \in DefaultRegistry : c.name = name
  <2>1. /\ verdict = "going" /\ check = None /\ checks # {} /\ check' = name /\ checks' = checks \ {name}
        /\ asks' = ChecksOf(name, ExpectationForCapability(net.fork, phase, cap.fork))
        /\ UNCHANGED <<net, now, phase, failed, lost, verdict>>
    BY DEF StartCheck
  <2>2. phase # "start" /\ checks \subseteq SuiteNames(net.fork) /\ FoundSo
        /\ (phase = "post" /\ lost = {} => ~PreBad(net))
    BY <1>2, <2>1 DEF SuiteInv
  <2>3. name \in checks
    BY <2>1
  <2> HIDE DEF name
  <2>4. name \in SuiteNames(net.fork) /\ name \in DOMAIN ForkFor /\ name # None
    BY <2>2, <2>3, NoneIsNoName DEF SuiteNames
  <2>5. cap.fork = ForkFor[name]
    BY <2>4, CapIs
  <2>6. asks' = ChecksOf(name, Lacked(net, phase, name))
    BY <2>1, <2>5 DEF Lacked
  <2>7. SuiteAt(net, now, phase)
    BY <1>2, <2>2, AtPhase
  <2>8. /\ asks' # <<>>
        /\ \/ Listed(asks', Plain2)
           \/ Listed(asks', Inverse2) /\ phase = "pre" /\ name \in BPOBlobs
    BY <2>4, <2>6, <2>7, SuiteLists DEF BPOBlobs
  <2>9. Fails(net, now, asks') <=> Bad(net, now, phase, name)
    BY <2>6 DEF Bad
  <2>10. Checking'
    BY <2>1, <2>4, <2>8, <2>9 DEF Checking
  <2>11. SuiteNames(net.fork) \ Pending' = SuiteNames(net.fork) \ Pending
    BY <2>1, <2>3, NoneIsNoName DEF Pending
  <2>12. FoundSo'
    BY <2>1, <2>2, <2>11 DEF FoundSo
  <2> QED BY <1>2, <2>1, <2>2, <2>10, <2>12 DEF SuiteInv
<1> QED BY <1>1, <1>2

\* a check ends
LEMMA EndsCheck ==
  ASSUME NetInv, SuiteInv, net.run = "suite", check # None, NEW ok \in BOOLEAN, EndCheck(ok),
         UNCHANGED <<net, now, phase, checks>>,          lost' # {} \/ (lost' = lost /\ (ok <=> ~Fails(net, now, asks)))
  PROVE  SuiteInv'
<1>1. phase # "start" /\ Checking /\ FoundSo /\ (phase = "post" /\ lost = {} => ~PreBad(net))
      /\ checks \subseteq SuiteNames(net.fork) /\ phase # "ask"
  BY DEF SuiteInv, NetInv
<1>2. check' = None /\ failed' = (IF ok THEN failed ELSE failed \cup {<<phase, check>>}) /\ verdict' = "going"
  BY <1>1 DEF EndCheck
<1>3. /\ SuiteNames(net.fork) \ Pending' = (SuiteNames(net.fork) \ Pending) \cup {check}
  BY <1>1, <1>2, NoneIsNoName DEF Pending, Checking
<1>4. FoundSo'
  <2>1. CASE lost' # {}
    BY <2>1 DEF FoundSo
  <2>2. CASE lost' = {} /\ lost = {} /\ (ok <=> ~Fails(net, now, asks))
    <3>1. ok <=> ~Bad(net, now, phase, check)
      BY <1>1, <2>2 DEF Checking
    <3>2. failed # {} <=> \E name \in SuiteNames(net.fork) \ Pending : Bad(net, now, phase, name)
      BY <1>1, <2>2 DEF FoundSo
    <3>3. failed' # {} <=> failed # {} \/ Bad(net, now, phase, check)
      BY <1>2, <3>1
    <3>4. (\E name \in SuiteNames(net.fork) \ Pending' : Bad(net, now, phase, name)) <=>
            (\E name \in SuiteNames(net.fork) \ Pending : Bad(net, now, phase, name)) \/ Bad(net, now, phase, check)
      BY <1>3
    <3> QED BY <3>2, <3>3, <3>4 DEF FoundSo
  <2> QED BY <2>1, <2>2
<1>5. lost' = {} => lost = {}
  OBVIOUS
<1> QED BY <1>1, <1>2, <1>4, <1>5 DEF SuiteInv

LEMMA SuiteAsks ==
  ASSUME NetInv, SuiteInv, Ask
  PROVE  SuiteInv'
<1>1. check # None /\ UNCHANGED <<net, now, phase, checks, lost, crossed, faults>>
  BY DEF Ask
<1>2. CASE net.run # "suite"
  BY <1>1, <1>2 DEF SuiteInv
<1>3. CASE net.run = "suite"
  <2>1. /\ phase # "start" /\ Checking /\ FoundSo /\ (phase = "post" /\ lost = {} => ~PreBad(net))
        /\ checks \subseteq SuiteNames(net.fork)
    BY <1>1, <1>3 DEF SuiteInv
  <2>2. PICK K \in {Plain2, Inverse2} :
          Listed(asks, K) /\ (K = Plain2 \/ (phase = "pre" /\ check \in BPOBlobs))
    BY <2>1 DEF Checking
  <2>3. net.flaw.early \in BOOLEAN /\ asks # <<>>
    BY <2>1, NetFacts DEF Checking
  <2>4. CASE \E l : GoesOn(l) /\ Listed(l, K)
    <3>1. PICK l : GoesOn(l) /\ Listed(l, K)
      BY <2>4
    <3>2. /\ asks' = l /\ UNCHANGED <<check, failed, verdict>>
          /\ l # <<>> /\ (Fails(net, now, l) <=> Fails(net, now, asks))
      BY <3>1 DEF GoesOn
    <3>3. Listed(asks', Plain2) \/ (Listed(asks', Inverse2) /\ phase = "pre" /\ check \in BPOBlobs)
      BY <2>2, <3>1, <3>2
    <3>4. Checking'
      BY <1>1, <2>1, <3>2, <3>3 DEF Checking
    <3>5. FoundSo'
      BY <1>1, <2>1, <3>2 DEF FoundSo, Pending
    <3> QED BY <1>1, <2>1, <3>2, <3>4, <3>5 DEF SuiteInv, Checking
  <2>5. CASE EndCheck(TRUE) /\ ~Fails(net, now, asks)
    BY <1>1, <1>3, <2>5, EndsCheck
  <2>6. CASE EndCheck(FALSE) /\ Fails(net, now, asks)
    BY <1>1, <1>3, <2>6, EndsCheck
  <2> QED BY <2>2, <2>3, <2>4, <2>5, <2>6, AskDoes
<1> QED BY <1>2, <1>3

LEMMA SuiteLoses ==
  ASSUME NetInv, SuiteInv, LoseCall
  PROVE  SuiteInv'
<1>1. /\ check # None /\ lost' = lost \cup {<<phase, check>>} /\ EndCheck(Head(asks).kind = "mismatch")
      /\ UNCHANGED <<net, now, phase, checks, crossed>>
  BY DEF LoseCall
<1>2. (Head(asks).kind = "mismatch") \in BOOLEAN /\ lost' # {}
  BY <1>1
<1> QED BY <1>1, <1>2, EndsCheck DEF SuiteInv

LEMMA SuiteStep ==
  ASSUME NetInv, SuiteInv, [Next]_vars
  PROVE  SuiteInv'
<1>1. CASE UNCHANGED vars
  <2>1. Checking' = Checking /\ FoundSo' = FoundSo /\ Ended' = Ended
    BY <1>1 DEF vars, Checking, FoundSo, Ended, Pending
  <2> QED BY <1>1, <2>1 DEF vars, SuiteInv
<1>2. ASSUME NEW ph \in {"pre", "post"}, StartPhase(ph) PROVE SuiteInv'
  BY <1>2, StartsPhase
<1>3. CASE CheckSchedule
  BY <1>3 DEF CheckSchedule, SuiteInv
<1>4. CASE AskSurface \/ Tick
  BY <1>4 DEF AskSurface, Tick, NetInv, SuiteInv
<1> QED BY <1>1, <1>2, <1>3, <1>4, EndsSuite, StartsCheck, SuiteAsks, SuiteLoses DEF Next

LEMMA LostStep ==
  ASSUME NetInv, AskInv, SuiteInv, LostFails, [Next]_vars
  PROVE  LostFails'
<1>1. CASE UNCHANGED <<lost, failed>>
  BY <1>1 DEF LostFails
<1>2. CASE Ask
  <2>1. lost' = lost /\ failed \subseteq failed'
    BY <1>2 DEF Ask, EndCheck
  <2> QED BY <2>1 DEF LostFails
<1>3. CASE LoseCall
  <2>1. /\ check # None /\ lost' = lost \cup {<<phase, check>>} /\ EndCheck(Head(asks).kind = "mismatch")
    BY <1>3 DEF LoseCall
  <2>2. failed' = IF Head(asks).kind = "mismatch" THEN failed ELSE failed \cup {<<phase, check>>}
    BY <2>1 DEF EndCheck
  <2>3. Head(asks).kind = "mismatch" => phase = "pre" /\ check \in BPOBlobs
    <3>1. CASE net.run = "suite"
      <4>1. Checking
        BY <2>1, <3>1 DEF SuiteInv
      <4>2. Listed(asks, Plain2) => Head(asks).kind \in Plain2
        BY <4>1, FirstCall DEF Checking
      <4> QED BY <4>1, <4>2 DEF Checking, Plain2
    <3>2. CASE net.run # "suite"
      <4>1. Asking
        BY <2>1, <3>2 DEF AskInv
      <4>2. Head(asks).kind \in Plain2
        BY <4>1, FirstCall DEF Asking
      <4> QED BY <4>2 DEF Plain2
    <3> QED BY <3>1, <3>2
  <2> QED BY <2>1, <2>2, <2>3 DEF LostFails, BPOBlobs
<1>4. CASE EndSuite \/ StartCheck \/ CheckSchedule \/ AskSurface \/ Tick \/ UNCHANGED vars
  BY <1>1, <1>4 DEF EndSuite, StartCheck, CheckSchedule, AskSurface, Tick, vars, vCheck
<1>5. ASSUME NEW ph \in {"pre", "post"}, StartPhase(ph) PROVE LostFails'
  BY <1>1, <1>5 DEF StartPhase, vCheck
<1> QED BY <1>2, <1>3, <1>4, <1>5 DEF Next

ForksInv == NetInv /\ AskInv /\ SuiteInv /\ LostFails

LEMMA ForksInit == Init => ForksInv
BY NetInit, AskInit, SuiteInit DEF ForksInv, Init, LostFails

LEMMA ForksStep == ForksInv /\ [Next]_vars => ForksInv'
BY NetStep, AskStep, SuiteStep, LostStep DEF ForksInv

LEMMA ScheduleTold ==
  ASSUME NetInv, AskInv
  PROVE  ScheduleExact
<1> SUFFICES ASSUME phase = "ask" PROVE ScheduleExact
  BY DEF ScheduleExact
<1> DEFINE times == ScheduleOf(net.genesis)
<1>1. net.run # "suite" /\ Cfg.times = times /\ times \in [AllForks -> Int]
  BY NetFacts, TimesAre DEF NetInv, Cfg
<1>2. verdict = "refused" <=> ~ValidateUpgradeForkSchedule(net.mode, times)
  BY <1>1 DEF AskInv
<1>3. ValidateUpgradeForkSchedule(net.mode, times) <=> (net.mode = "upgrade" => Sound(times))
  <2>1. CASE net.mode = "upgrade"
    BY <1>1, <2>1, ValidatedIs
  <2>2. CASE net.mode # "upgrade"
    BY <2>2 DEF ValidateUpgradeForkSchedule
  <2> QED BY <2>1, <2>2
<1>4. net.generated => ValidateUpgradeForkSchedule(net.mode, times)
  BY <1>1, GeneratedSound DEF NetInv
<1> HIDE DEF times
<1>5. (verdict = "refused") = (net.mode = "upgrade" /\ ~Sound(times))
  BY <1>2, <1>3
<1> QED BY <1>1, <1>2, <1>4, <1>5 DEF ScheduleExact, Sound

LEMMA SuiteTold ==
  ASSUME NetInv, SuiteInv
  PROVE  SuiteFinds
<1> SUFFICES ASSUME Over, net.run = "suite", lost = {} PROVE SuiteFinds
  BY DEF SuiteFinds
<1>1. /\ phase # "start" /\ Ended /\ FoundSo /\ verdict \in {"passed", "failed"}
      /\ phase = "post" => ~PreBad(net)
  BY DEF SuiteInv, Over
<1>2. SuiteAt(net, now, phase)
  BY <1>1, AtPhase
<1>3. SuiteNames(net.fork) \ Pending = SuiteNames(net.fork)
  BY <1>1, NoneIsNoName DEF Ended, Pending
<1>4. failed # {} <=> \E name \in SuiteNames(net.fork) : Bad(net, now, phase, name)
  BY <1>1, <1>3 DEF FoundSo
<1>5. Faithful => verdict = "passed"
  BY <1>1, <1>2, <1>4, FaithfulFine DEF Faithful, Ended
<1>6. verdict # "failed" => ~PreBad(net) /\ ~PostBad(net)
  <2> SUFFICES ASSUME verdict # "failed" PROVE ~PreBad(net) /\ ~PostBad(net)
    OBVIOUS
  <2>1. failed = {} /\ phase = "post"
    BY <1>1 DEF Ended
  <2> QED BY <1>1, <1>2, <1>4, <2>1, PostFound
<1>7. net.flaw.surface # None /\ net.flaw.early /\ BroughtBy[net.flaw.surface] = net.fork
      /\ net.flaw.surface \notin SeenLate => PreBad(net)
  BY DEF PreBad
<1>8. net.flaw.surface # None /\ ~net.flaw.early /\ ~Superseded(net.flaw.surface, net.fork)
      /\ ForkOrderIndex(BroughtBy[net.flaw.surface]) <= ForkOrderIndex(net.fork)
      => PreBad(net) \/ PostBad(net)
  BY DEF PostBad
<1> QED BY <1>5, <1>6, <1>7, <1>8 DEF SuiteFinds, Faithful

LEMMA SurfaceTold ==
  ASSUME NetInv, AskInv
  PROVE  SurfaceExact
<1>1. Cfg = CfgIn(net)
  BY AsGiven
<1> SUFFICES ASSUME Over, net.run = "ask", lost = {} PROVE SurfaceExact
  BY DEF SurfaceExact
<1>2. /\ verdict = "failed" /\ Faithful => crossed /\ ~net.waits
      /\ verdict = "passed" /\ ~crossed => ~Missing
  BY DEF AskInv, Faithful
<1>3. verdict = "failed" \/ verdict = "passed"
  BY DEF Over
<1> QED BY <1>1, <1>2, <1>3 DEF SurfaceExact, Missing, ActiveIn

\* the schedules and the checks tell the truth
LEMMA ForksTold == ForksInv => ForkChecksTrue
BY ScheduleTold, SuiteTold, SurfaceTold DEF ForksInv, ForkChecksTrue

(***************************************************************************)
(* A schedule is refused exactly when it does not hold together, and never *)
(* when the generator wrote it. A suite that got all its answers passes on *)
(* a faithful node and fails on one that lacks a surface of the fork or    *)
(* has it too early, as far as its checks look. A call without an answer   *)
(* fails the check, but where any failure is what is waited for. A         *)
(* faithful node that is asked fails only if a fork came meanwhile.        *)
(***************************************************************************)
THEOREM ForkChecksCorrect == Spec => []ForkChecksTrue
<1>1. Spec => []ForksInv
  BY ForksInit, ForksStep, PTL DEF Spec
<1> QED BY <1>1, ForksTold, PTL

-----------------------------------------------------------------------------
(***************************************************************************)
(* The parts side by side: a step of the suite is a step of one part and   *)
(* leaves the others alone, so each keeps what it promises.                *)
(***************************************************************************)
LEMMA PartsStart ==
  MCInit => Init /\ Scripts!Init /\ Stakes!Init /\ Boot!Init /\ Device!Init /\ Heads!Init
BY DEF MCInit

LEMMA PartsStep ==
  [MCNext]_<<who, vars, reportVars, stakeVars, bootVars, netemVars, headVars, scriptVars>> =>
    /\ [Next]_vars
    /\ [Scripts!Next]_(Scripts!vars)
    /\ [Stakes!Next]_(Stakes!delegationVars)
    /\ [Boot!Next]_(Boot!bootVars)
    /\ [Device!Next]_(Device!netemVars)
    /\ [Heads!Next]_(Heads!headVars)
<1>1. UNCHANGED scriptVars => UNCHANGED Scripts!vars
  BY DEF scriptVars, Scripts!vars
<1>2. UNCHANGED stakeVars => UNCHANGED Stakes!delegationVars
  BY DEF stakeVars, Stakes!delegationVars
<1>3. UNCHANGED bootVars => UNCHANGED Boot!bootVars
  BY DEF bootVars, Boot!bootVars
<1>4. UNCHANGED netemVars => UNCHANGED Device!netemVars
  BY DEF netemVars, Device!netemVars
<1>5. UNCHANGED headVars => UNCHANGED Heads!headVars
  BY DEF headVars, Heads!headVars
<1> QED BY <1>1, <1>2, <1>3, <1>4, <1>5 DEF MCNext

(***************************************************************************)
(* The fork checks tell the truth beside the other parts as well.          *)
(***************************************************************************)
THEOREM ForkChecksInSuite == MCSpec => []ForkChecksTrue
<1>1. MCSpec => Spec
  BY PartsStart, PartsStep, PTL DEF MCSpec, Spec
<1> QED BY <1>1, ForkChecksCorrect, PTL

(***************************************************************************)
(* What the runs and the tests rely on in their helpers: the make targets  *)
(* do to the nodes what the CI runner takes them to do, a delegation that  *)
(* is reported is there, a context has one chain or no client, only the    *)
(* tested ports are slowed down, and a validator is stopped only in a      *)
(* split that really was there.                                            *)
(***************************************************************************)
THEOREM HelpersCorrect == MCSpec => []HelpersTrue
<1>1. MCSpec => Scripts!Spec /\ Stakes!Spec /\ Boot!Spec /\ Device!Spec /\ Heads!Spec
  BY PartsStart, PartsStep, PTL
     DEF MCSpec, Scripts!Spec, Stakes!Spec, Boot!Spec, Device!Spec, Heads!Spec
<1>2. /\ Scripts!NetworkTrue /\ Stakes!DelegationTrue /\ Boot!BootTrue /\ Device!NetemTrue
      /\ Heads!HeadsTrue
      => HelpersTrue
  BY DEF HelpersTrue
<1> QED
  BY <1>1, <1>2, TargetsKeepTheirWord, DelegatedAsReported, ContextConnected, DeviceCleared,
     StopsOnlyInSplits, PTL

==================================================================================
