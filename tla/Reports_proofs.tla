----------------------------- MODULE Reports_proofs -----------------------------
(***************************************************************************)
(* Proofs about what a CI run reports, for any values of the constants     *)
(* that SetupsAssumption of MCSuite allows.                                *)
(***************************************************************************)
EXTENDS MCSuite, SequenceTheorems, FiniteSetTheorems, WellFoundedInduction, TLAPS

-----------------------------------------------------------------------------
(***************************************************************************)
(* Counting up.                                                            *)
(***************************************************************************)
LEMMA LeastExists ==
  ASSUME NEW T \in SUBSET Nat, T # {}
  PROVE  \E x \in T : \A y \in T : x <= y
<1>1. PICK x \in T : \A y \in T : ~(<<y, x>> \in OpToRel(<, Nat))
  BY NatLessThanWellFounded, WFMin
<1>2. \A y \in T : ~(y < x)
  BY <1>1 DEF OpToRel
<1> QED BY <1>2

LEMMA CountUp ==
  ASSUME NEW T, 0 \in T, \A k \in Nat : k \in T => k + 1 \in T
  PROVE  Nat \subseteq T
<1> SUFFICES ASSUME Nat \ T # {} PROVE FALSE
  OBVIOUS
<1>1. PICK x \in Nat \ T : \A y \in Nat \ T : x <= y
  BY LeastExists
<1>2. x # 0 /\ x - 1 \in Nat
  BY <1>1
<1>3. x - 1 \in T
  BY <1>1, <1>2
<1>4. (x - 1) + 1 \in T
  BY <1>2, <1>3
<1> QED
  BY <1>1, <1>4

(***************************************************************************)
(* Sequences, whatever is in them.                                         *)
(***************************************************************************)
Elems(s) == {s[i] : i \in DOMAIN s}
IsSeq(s) == s \in Seq(Elems(s))

LEMMA SeqTyped ==
  ASSUME NEW S, NEW s \in Seq(S)
  PROVE  IsSeq(s) /\ Elems(s) \subseteq S
BY DEF IsSeq, Elems

LEMMA SeqIs ==
  ASSUME NEW s, IsSeq(s)
  PROVE  /\ Len(s) \in Nat /\ DOMAIN s = 1..Len(s)
         /\ s = <<>> <=> Len(s) = 0
         /\ Elems(s) = {s[i] : i \in 1..Len(s)}
         /\ Elems(s) = {} <=> s = <<>>
         /\ \A i \in 1..Len(s) : s[i] \in Elems(s)
BY DEF IsSeq, Elems

LEMMA SeqEmpty == IsSeq(<<>>) /\ Len(<<>>) = 0 /\ Elems(<<>>) = {} /\ DOMAIN <<>> = {}
BY DEF IsSeq, Elems

LEMMA SeqOne ==
  ASSUME NEW x
  PROVE  IsSeq(<<x>>) /\ Len(<<x>>) = 1 /\ <<x>>[1] = x /\ Elems(<<x>>) = {x} /\ <<x>> # <<>>
BY DEF IsSeq, Elems

\* a function on 1..n is a sequence
LEMMA SeqMade ==
  ASSUME NEW n \in Nat, NEW s, DOMAIN s = 1..n, s = [i \in 1..n |-> s[i]]
  PROVE  IsSeq(s) /\ Len(s) = n /\ (s = <<>> <=> n = 0)
<1>1. s \in [1..n -> Elems(s)]
  BY DEF Elems
<1>2. s \in Seq(Elems(s))
  BY <1>1
<1> QED BY <1>1, <1>2 DEF IsSeq

LEMMA SeqMore ==
  ASSUME NEW s, IsSeq(s), NEW x
  PROVE  /\ IsSeq(Append(s, x)) /\ Len(Append(s, x)) = Len(s) + 1 /\ Append(s, x) # <<>>
         /\ Elems(Append(s, x)) = Elems(s) \cup {x}
         /\ \A i \in 1..Len(s) : Append(s, x)[i] = s[i]
         /\ Append(s, x)[Len(s) + 1] = x
<1> DEFINE t == Append(s, x)
<1>1. s \in Seq(Elems(s) \cup {x}) /\ Len(s) \in Nat /\ Elems(s) = {s[i] : i \in 1..Len(s)}
  BY SeqIs DEF IsSeq
<1>2. t \in Seq(Elems(s) \cup {x}) /\ Len(t) = Len(s) + 1
  BY <1>1
<1>3. \A i \in 1..(Len(s) + 1) : t[i] = IF i = Len(s) + 1 THEN x ELSE s[i]
  BY <1>1
<1>4. IsSeq(t)
  <2> HIDE DEF t
  <2> QED BY <1>2, SeqTyped
<1>5. Elems(t) = {t[i] : i \in 1..(Len(s) + 1)}
  <2> HIDE DEF t
  <2> QED BY <1>2, <1>4, SeqIs
<1>6. Elems(t) = Elems(s) \cup {x}
  <2> HIDE DEF t
  <2>1. \A y \in Elems(t) : y \in Elems(s) \cup {x}
    BY <1>1, <1>3, <1>5
  <2>2. \A y \in Elems(s) : y \in Elems(t)
    <3> TAKE y \in Elems(s)
    <3>1. PICK i \in 1..Len(s) : y = s[i]
      BY <1>1
    <3>2. i \in 1..(Len(s) + 1) /\ i # Len(s) + 1
      BY <1>1
    <3> QED BY <1>3, <1>5, <3>1, <3>2
  <2>3. Len(s) + 1 \in 1..(Len(s) + 1)
    BY <1>1
  <2>4. x \in Elems(t)
    BY <1>3, <1>5, <2>3
  <2> QED BY <2>1, <2>2, <2>4
<1> QED BY <1>1, <1>2, <1>3, <1>4, <1>6

LEMMA SeqJoin ==
  ASSUME NEW s, IsSeq(s), NEW t, IsSeq(t)
  PROVE  /\ IsSeq(s \o t) /\ Len(s \o t) = Len(s) + Len(t)
         /\ Elems(s \o t) = Elems(s) \cup Elems(t)
         /\ \A i \in 1..Len(s) : (s \o t)[i] = s[i]
         /\ \A i \in 1..Len(t) : (s \o t)[Len(s) + i] = t[i]
<1> DEFINE u == s \o t
           S == Elems(s) \cup Elems(t)
<1>1. /\ s \in Seq(S) /\ t \in Seq(S) /\ Len(s) \in Nat /\ Len(t) \in Nat
      /\ Elems(s) = {s[i] : i \in 1..Len(s)} /\ Elems(t) = {t[i] : i \in 1..Len(t)}
  BY SeqIs DEF IsSeq
<1>2. u \in Seq(S) /\ Len(u) = Len(s) + Len(t)
  <2> HIDE DEF S
  <2> QED BY <1>1
<1>3. \A i \in 1..(Len(s) + Len(t)) : u[i] = IF i <= Len(s) THEN s[i] ELSE t[i - Len(s)]
  <2> HIDE DEF S
  <2> QED BY <1>1
<1>4. IsSeq(u) /\ Elems(u) \subseteq S
  <2> HIDE DEF u
  <2> QED BY <1>2, SeqTyped
<1>5. Elems(u) = {u[i] : i \in 1..(Len(s) + Len(t))}
  <2> HIDE DEF u
  <2> QED BY <1>2, <1>4, SeqIs
<1>6. \A i \in 1..Len(s) : u[i] = s[i] /\ u[i] \in Elems(u)
  <2> HIDE DEF u
  <2> TAKE i \in 1..Len(s)
  <2>1. i \in 1..(Len(s) + Len(t)) /\ i <= Len(s)
    BY <1>1
  <2> QED BY <1>3, <1>5, <2>1
<1>7. \A i \in 1..Len(t) : u[Len(s) + i] = t[i] /\ u[Len(s) + i] \in Elems(u)
  <2> HIDE DEF u
  <2> TAKE i \in 1..Len(t)
  <2>1. Len(s) + i \in 1..(Len(s) + Len(t)) /\ ~(Len(s) + i <= Len(s)) /\ (Len(s) + i) - Len(s) = i
    BY <1>1
  <2> QED BY <1>3, <1>5, <2>1
<1>8. S \subseteq Elems(u)
  <2> HIDE DEF u
  <2> QED BY <1>1, <1>6, <1>7
<1> QED BY <1>2, <1>4, <1>6, <1>7, <1>8

LEMMA SeqRest ==
  ASSUME NEW s, IsSeq(s), s # <<>>
  PROVE  /\ IsSeq(Tail(s)) /\ Len(Tail(s)) = Len(s) - 1 /\ Head(s) = s[1]
         /\ \A i \in 1..Len(Tail(s)) : Tail(s)[i] = s[i + 1]
<1> DEFINE t == Tail(s)
<1>1. s \in Seq(Elems(s)) /\ Len(s) \in Nat \ {0}
  BY SeqIs DEF IsSeq
<1>2. t \in Seq(Elems(s)) /\ Len(t) = Len(s) - 1 /\ Head(s) = s[1]
  BY <1>1
<1>3. IsSeq(t)
  <2> HIDE DEF t
  <2> QED BY <1>2, SeqTyped
<1>4. \A i \in 1..Len(t) : t[i] = s[i + 1]
  BY <1>1
<1> QED BY <1>2, <1>3, <1>4

LEMMA SeqFront ==
  ASSUME NEW s, IsSeq(s), NEW k \in 0..Len(s)
  PROVE  /\ IsSeq(SubSeq(s, 1, k)) /\ Len(SubSeq(s, 1, k)) = k
         /\ \A i \in 1..k : SubSeq(s, 1, k)[i] = s[i]
         /\ Elems(SubSeq(s, 1, k)) = {s[i] : i \in 1..k}
         /\ SubSeq(s, 1, 0) = <<>> /\ SubSeq(s, 1, Len(s)) = s
         /\ k < Len(s) => SubSeq(s, 1, k + 1) = Append(SubSeq(s, 1, k), s[k + 1])
<1> DEFINE S == Elems(s)
           t == SubSeq(s, 1, k)
<1>1. s \in Seq(S) /\ Len(s) \in Nat /\ k \in Nat
  BY SeqIs DEF IsSeq
<1> HIDE DEF S
<1>2. t \in Seq(S) /\ Len(t) = k /\ \A i \in 1..k : t[i] = s[i]
  BY <1>1
<1>3. SubSeq(s, 1, 0) = <<>> /\ SubSeq(s, 1, Len(s)) = s
  BY <1>1
<1>4. k < Len(s) => SubSeq(s, 1, k + 1) = Append(SubSeq(s, 1, k), s[k + 1])
  BY <1>1
<1> HIDE DEF t
<1>5. IsSeq(t)
  BY <1>2, SeqTyped
<1>6. Elems(t) = {t[i] : i \in 1..k}
  BY <1>2, <1>5, SeqIs
<1>7. Elems(t) = {s[i] : i \in 1..k}
  BY <1>2, <1>6
<1> QED BY <1>2, <1>3, <1>4, <1>5, <1>7 DEF t

LEMMA AppendIs ==
  ASSUME NEW s, IsSeq(s), NEW x
  PROVE  Append(s, x) = [i \in 1..(Len(s) + 1) |-> IF i = Len(s) + 1 THEN x ELSE s[i]]
<1> DEFINE t == Append(s, x)
<1>1. IsSeq(t) /\ Len(t) = Len(s) + 1 /\ Len(s) \in Nat
  BY SeqIs, SeqMore
<1>2. \A i \in 1..(Len(s) + 1) : t[i] = IF i = Len(s) + 1 THEN x ELSE s[i]
  BY SeqMore, SeqIs
<1> HIDE DEF t
<1>3. t = [i \in 1..(Len(s) + 1) |-> t[i]]
  BY <1>1 DEF IsSeq
<1> QED BY <1>2, <1>3 DEF t

(***************************************************************************)
(* Sums of sequences of numbers.                                           *)
(***************************************************************************)
Sums(ns, n, g) == g = [k \in 0..n |-> IF k = 0 THEN 0 ELSE g[k - 1] + ns[k]]

LEMMA SumsMore ==
  ASSUME NEW ns, NEW n \in Nat, NEW g, Sums(ns, n, g)
  PROVE  Sums(ns, n + 1, [k \in 0..(n + 1) |-> IF k = n + 1 THEN g[n] + ns[n + 1] ELSE g[k]])
<1> DEFINE f == [k \in 0..(n + 1) |-> IF k = n + 1 THEN g[n] + ns[n + 1] ELSE g[k]]
<1>1. \A k \in 0..n : g[k] = IF k = 0 THEN 0 ELSE g[k - 1] + ns[k]
  BY DEF Sums
<1>2. ASSUME NEW k \in 0..(n + 1) PROVE f[k] = IF k = 0 THEN 0 ELSE f[k - 1] + ns[k]
  <2>1. CASE k = n + 1
    <3>1. k - 1 \in 0..(n + 1) /\ k - 1 # n + 1 /\ k - 1 = n /\ k # 0
      BY <2>1
    <3> QED BY <2>1, <3>1
  <2>2. CASE k = 0
    BY <1>1, <2>2
  <2>3. CASE k # n + 1 /\ k # 0
    <3>1. k \in 0..n /\ k - 1 \in 0..(n + 1) /\ k - 1 # n + 1
      BY <2>3
    <3> QED BY <1>1, <2>3, <3>1
  <2> QED BY <2>1, <2>2, <2>3
<1>3. f = [k \in 0..(n + 1) |-> f[k]]
  OBVIOUS
<1> HIDE DEF f
<1>4. f = [k \in 0..(n + 1) |-> IF k = 0 THEN 0 ELSE f[k - 1] + ns[k]]
  BY <1>2, <1>3
<1> QED BY <1>4 DEF Sums, f

LEMMA SumsExist ==
  ASSUME NEW ns
  PROVE  \A n \in Nat : \E g : Sums(ns, n, g)
<1> DEFINE T == {n \in Nat : \E g : Sums(ns, n, g)}
<1>1. 0 \in T
  <2>1. Sums(ns, 0, [k \in 0..0 |-> 0])
    BY DEF Sums
  <2> QED BY <2>1
<1>2. ASSUME NEW n \in Nat, n \in T PROVE n + 1 \in T
  <2>1. PICK g : Sums(ns, n, g)
    BY <1>2
  <2>2. Sums(ns, n + 1, [k \in 0..(n + 1) |-> IF k = n + 1 THEN g[n] + ns[n + 1] ELSE g[k]])
    BY <2>1, SumsMore
  <2> QED BY <2>2
<1> HIDE DEF T
<1>3. Nat \subseteq T
  BY <1>1, <1>2, CountUp
<1> QED BY <1>3 DEF T

\* two sums of the same numbers are the same
SameSums(ns, n, g, ms, m, h) ==
  Sums(ns, n, g) /\ Sums(ms, m, h) /\ n <= m /\ \A i \in 1..n : ns[i] = ms[i]

LEMMA SumsAgree ==
  ASSUME NEW ns, NEW ms, NEW n \in Nat, NEW m \in Nat, NEW g, NEW h, SameSums(ns, n, g, ms, m, h)
  PROVE  g[n] = h[n]
<1> DEFINE T == {k \in Nat : k <= n => g[k] = h[k]}
<1>0. /\ \A k \in 0..n : g[k] = IF k = 0 THEN 0 ELSE g[k - 1] + ns[k]
      /\ \A k \in 0..m : h[k] = IF k = 0 THEN 0 ELSE h[k - 1] + ms[k]
      /\ n <= m /\ \A i \in 1..n : ns[i] = ms[i]
  BY DEF SameSums, Sums
<1>a. n <= m
  BY <1>0
<1>1. 0 \in T
  BY <1>0
<1>2. \A k \in Nat : k \in T => k + 1 \in T
  <2> SUFFICES ASSUME NEW k \in Nat, g[k] = h[k], k + 1 <= n PROVE g[k + 1] = h[k + 1]
    OBVIOUS
  <2>1. k + 1 \in 0..n /\ k + 1 \in 0..m /\ k + 1 \in 1..n /\ (k + 1) - 1 = k /\ k + 1 # 0
    BY <1>a
  <2> QED BY <1>0, <2>1
<1> HIDE DEF T
<1>3. Nat \subseteq T
  BY <1>1, <1>2, CountUp
<1> QED BY <1>3 DEF T

LEMMA SumIs ==
  ASSUME NEW ns, NEW h, Len(ns) \in Nat, Sums(ns, Len(ns), h)
  PROVE  CI!AddUp(ns) = h[Len(ns)]
<1> DEFINE sum == CHOOSE g : Sums(ns, Len(ns), g)
<1>1. Sums(ns, Len(ns), sum)
  BY SumsExist
<1>2. CI!AddUp(ns) = sum[Len(ns)]
  BY DEF CI!AddUp, Sums
<1> HIDE DEF sum
<1>3. sum[Len(ns)] = h[Len(ns)]
  <2>1. SameSums(ns, Len(ns), sum, ns, Len(ns), h)
    BY <1>1 DEF SameSums
  <2> QED BY <2>1, SumsAgree
<1> QED BY <1>2, <1>3

LEMMA AddUpNone == CI!AddUp(<<>>) = 0
<1>1. Sums(<<>>, 0, [k \in 0..0 |-> 0])
  BY DEF Sums
<1>2. Len(<<>>) = 0 /\ Len(<<>>) \in Nat
  OBVIOUS
<1> QED BY <1>1, <1>2, SumIs

LEMMA AddUpMore ==
  ASSUME NEW ns, IsSeq(ns), NEW m
  PROVE  CI!AddUp(Append(ns, m)) = CI!AddUp(ns) + m
<1> DEFINE n == Len(ns)
           ms == Append(ns, m)
<1>1. n \in Nat /\ Len(ms) = n + 1 /\ ms[n + 1] = m /\ \A i \in 1..n : ns[i] = ms[i]
  BY SeqIs, SeqMore
<1> HIDE DEF ms, n
<1>2. PICK h : Sums(ms, n + 1, h)
  BY <1>1, SumsExist
<1>3. PICK g : Sums(ns, n, g)
  BY <1>1, SumsExist
<1>4. CI!AddUp(ms) = h[n + 1] /\ CI!AddUp(ns) = g[n]
  BY <1>1, <1>2, <1>3, SumIs DEF n
<1>5. g[n] = h[n]
  <2>1. PICK l : l = n + 1 /\ l \in Nat /\ n <= l
    BY <1>1
  <2>2. SameSums(ns, n, g, ms, l, h)
    BY <1>1, <1>2, <1>3, <2>1 DEF SameSums
  <2> QED BY <1>1, <2>1, <2>2, SumsAgree
<1>6. h[n + 1] = h[n] + ms[n + 1]
  <2>1. n + 1 \in 0..(n + 1) /\ n + 1 # 0 /\ (n + 1) - 1 = n
    BY <1>1
  <2> QED BY <1>2, <2>1 DEF Sums
<1> QED BY <1>1, <1>4, <1>5, <1>6 DEF ms

\* a sum of natural numbers is one, and 0 if and only if all of them are
LEMMA AddUpNat ==
  ASSUME NEW ns \in Seq(Nat)
  PROVE  CI!AddUp(ns) \in Nat /\ (CI!AddUp(ns) = 0 <=> \A i \in 1..Len(ns) : ns[i] = 0)
<1> DEFINE Agreed(ms) == /\ CI!AddUp(ms) \in Nat
                         /\ CI!AddUp(ms) = 0 <=> \A i \in 1..Len(ms) : ms[i] = 0
           T == {k \in Nat : \A ms \in Seq(Nat) : Len(ms) = k => Agreed(ms)}
<1>1. 0 \in T
  <2>1. \A ms \in Seq(Nat) : Len(ms) = 0 => ms = <<>>
    OBVIOUS
  <2>2. Agreed(<<>>)
    BY AddUpNone
  <2> QED BY <2>1, <2>2
<1>2. ASSUME NEW k \in Nat, k \in T PROVE k + 1 \in T
  <2> SUFFICES ASSUME NEW ms \in Seq(Nat), Len(ms) = k + 1 PROVE Agreed(ms)
    OBVIOUS
  <2> DEFINE f == SubSeq(ms, 1, k)
  <2>1. f \in Seq(Nat) /\ Len(f) = k /\ ms = Append(f, ms[k + 1]) /\ ms[k + 1] \in Nat
        /\ \A i \in 1..k : f[i] = ms[i]
    OBVIOUS
  <2>2. Agreed(f)
    BY <1>2, <2>1
  <2> HIDE DEF f
  <2>3. CI!AddUp(ms) = CI!AddUp(f) + ms[k + 1]
    <3>1. IsSeq(f)
      BY <2>1, SeqTyped
    <3> QED BY <2>1, <3>1, AddUpMore
  <2>4. CI!AddUp(ms) \in Nat /\ (CI!AddUp(ms) = 0 <=> CI!AddUp(f) = 0 /\ ms[k + 1] = 0)
    BY <2>1, <2>2, <2>3
  <2>5. (\A i \in 1..Len(ms) : ms[i] = 0) <=> (\A i \in 1..k : f[i] = 0) /\ ms[k + 1] = 0
    <3>1. 1..(k + 1) = (1..k) \cup {k + 1}
      OBVIOUS
    <3> QED BY <2>1, <3>1
  <2> QED BY <2>1, <2>2, <2>4, <2>5
<1>3. Nat \subseteq T
  <2> HIDE DEF T
  <2> QED BY <1>1, <1>2, CountUp
<1>4. Len(ns) \in Nat
  OBVIOUS
<1> QED BY <1>3, <1>4

(***************************************************************************)
(* Sequences of sequences, flattened.                                      *)
(***************************************************************************)
Flats(ss, n, g) == g = [i \in 1..n |-> IF i = 1 THEN ss[i] ELSE g[i - 1] \o ss[i]]

LEMMA FlatsMore ==
  ASSUME NEW ss, NEW n \in Nat, NEW g, Flats(ss, n, g)
  PROVE  \E f : Flats(ss, n + 1, f)
<1> DEFINE next == IF n = 0 THEN ss[1] ELSE g[n] \o ss[n + 1]
           f == [i \in 1..(n + 1) |-> IF i = n + 1 THEN next ELSE g[i]]
<1>1. \A i \in 1..n : g[i] = IF i = 1 THEN ss[i] ELSE g[i - 1] \o ss[i]
  BY DEF Flats
<1>2. ASSUME NEW i \in 1..(n + 1) PROVE f[i] = IF i = 1 THEN ss[i] ELSE f[i - 1] \o ss[i]
  <2>1. CASE i = n + 1 /\ n = 0
    BY <2>1
  <2>2. CASE i = n + 1 /\ n # 0
    <3>1. i - 1 \in 1..(n + 1) /\ i - 1 # n + 1 /\ i - 1 = n /\ i # 1
      BY <2>2
    <3>2. f[i - 1] = g[n]
      BY <3>1
    <3> QED BY <2>2, <3>1, <3>2
  <2>3. CASE i # n + 1 /\ i = 1
    BY <1>1, <2>3
  <2>4. CASE i # n + 1 /\ i # 1
    <3>1. i \in 1..n /\ i - 1 \in 1..(n + 1) /\ i - 1 # n + 1
      BY <2>4
    <3>2. f[i - 1] = g[i - 1] /\ f[i] = g[i]
      BY <2>4, <3>1
    <3> QED BY <1>1, <2>4, <3>1, <3>2
  <2> QED BY <2>1, <2>2, <2>3, <2>4
<1>3. f = [i \in 1..(n + 1) |-> f[i]]
  OBVIOUS
<1> HIDE DEF f
<1>4. f = [i \in 1..(n + 1) |-> IF i = 1 THEN ss[i] ELSE f[i - 1] \o ss[i]]
  BY <1>2, <1>3
<1> QED BY <1>4 DEF Flats

LEMMA FlatsExist ==
  ASSUME NEW ss
  PROVE  \A n \in Nat : \E g : Flats(ss, n, g)
<1> DEFINE T == {n \in Nat : \E g : Flats(ss, n, g)}
<1>1. 0 \in T
  <2>1. Flats(ss, 0, [i \in 1..0 |-> 0])
    BY DEF Flats
  <2> QED BY <2>1
<1>2. ASSUME NEW n \in Nat, n \in T PROVE n + 1 \in T
  <2>1. PICK g : Flats(ss, n, g)
    BY <1>2
  <2>2. \E f : Flats(ss, n + 1, f)
    BY <2>1, FlatsMore
  <2> QED BY <2>2
<1> HIDE DEF T
<1>3. Nat \subseteq T
  BY <1>1, <1>2, CountUp
<1> QED BY <1>3 DEF T

SameFlats(ss, n, g, ts, m, h) ==
  Flats(ss, n, g) /\ Flats(ts, m, h) /\ n <= m /\ \A i \in 1..n : ss[i] = ts[i]

LEMMA FlatsAgree ==
  ASSUME NEW ss, NEW ts, NEW n \in Nat \ {0}, NEW m \in Nat, NEW g, NEW h,
         SameFlats(ss, n, g, ts, m, h)
  PROVE  g[n] = h[n]
<1> DEFINE T == {k \in Nat : k + 1 <= n => g[k + 1] = h[k + 1]}
<1>0. /\ \A i \in 1..n : g[i] = IF i = 1 THEN ss[i] ELSE g[i - 1] \o ss[i]
      /\ \A i \in 1..m : h[i] = IF i = 1 THEN ts[i] ELSE h[i - 1] \o ts[i]
      /\ n <= m /\ \A i \in 1..n : ss[i] = ts[i]
  BY DEF SameFlats, Flats
<1>a. n <= m
  BY <1>0
<1>1. 0 \in T
  BY <1>0
<1>2. \A k \in Nat : k \in T => k + 1 \in T
  <2> SUFFICES ASSUME NEW k \in Nat, g[k + 1] = h[k + 1], k + 2 <= n PROVE g[k + 2] = h[k + 2]
    OBVIOUS
  <2>1. k + 2 \in 1..n /\ k + 2 \in 1..m /\ (k + 2) - 1 = k + 1 /\ k + 2 # 1
    BY <1>a
  <2> QED BY <1>0, <2>1
<1> HIDE DEF T
<1>3. Nat \subseteq T
  BY <1>1, <1>2, CountUp
<1>4. n - 1 \in Nat /\ (n - 1) + 1 = n
  OBVIOUS
<1> QED BY <1>3, <1>4 DEF T

LEMMA FlatIs ==
  ASSUME NEW ss, NEW h, Len(ss) \in Nat \ {0}, Flats(ss, Len(ss), h)
  PROVE  CI!FlattenSeq(ss) = h[Len(ss)]
<1> DEFINE flat == CHOOSE g : Flats(ss, Len(ss), g)
<1>1. Flats(ss, Len(ss), flat)
  BY FlatsExist
<1>2. CI!FlattenSeq(ss) = flat[Len(ss)]
  BY DEF CI!FlattenSeq, Flats
<1> HIDE DEF flat
<1>3. flat[Len(ss)] = h[Len(ss)]
  <2>1. SameFlats(ss, Len(ss), flat, ss, Len(ss), h)
    BY <1>1 DEF SameFlats
  <2> QED BY <2>1, FlatsAgree
<1> QED BY <1>2, <1>3

LEMMA FlatNone == CI!FlattenSeq(<<>>) = <<>>
BY DEF CI!FlattenSeq

LEMMA FlatMore ==
  ASSUME NEW ss, IsSeq(ss), NEW t, IsSeq(t)
  PROVE  CI!FlattenSeq(Append(ss, t)) = CI!FlattenSeq(ss) \o t
<1> DEFINE n == Len(ss)
           ts == Append(ss, t)
<1>1. n \in Nat /\ Len(ts) = n + 1 /\ ts[n + 1] = t /\ \A i \in 1..n : ss[i] = ts[i]
  BY SeqIs, SeqMore
<1> HIDE DEF ts, n
<1>a. n + 1 \in Nat
  BY <1>1
<1>2. PICK h : Flats(ts, n + 1, h)
  BY <1>1, <1>a, FlatsExist
<1>3. CI!FlattenSeq(ts) = h[n + 1]
  BY <1>1, <1>2, FlatIs
<1>4. h[n + 1] = IF n = 0 THEN t ELSE h[n] \o t
  <2>1. n + 1 \in 1..(n + 1) /\ (n + 1) - 1 = n /\ (n + 1 = 1 <=> n = 0)
    BY <1>1
  <2> QED BY <1>1, <1>2, <2>1 DEF Flats
<1>5. CASE n = 0
  <2>1. ss = <<>> /\ CI!FlattenSeq(ss) = <<>>
    BY <1>5, SeqIs, FlatNone DEF n
  <2>2. <<>> \o t = t
    BY DEF IsSeq
  <2> QED BY <1>3, <1>4, <1>5, <2>1, <2>2 DEF ts
<1>6. CASE n # 0
  <2>1. PICK g : Flats(ss, n, g)
    BY <1>1, FlatsExist
  <2>2. CI!FlattenSeq(ss) = g[n]
    BY <1>1, <1>6, <2>1, FlatIs DEF n
  <2>3. PICK l : l = n + 1 /\ l \in Nat /\ n <= l
    BY <1>1
  <2>4. SameFlats(ss, n, g, ts, l, h) /\ n \in Nat \ {0}
    BY <1>1, <1>2, <1>6, <2>1, <2>3 DEF SameFlats
  <2>5. g[n] = h[n]
    BY <2>3, <2>4, FlatsAgree
  <2> QED BY <1>3, <1>4, <1>6, <2>2, <2>5 DEF ts
<1> QED BY <1>5, <1>6

Weights(w, s) == [i \in DOMAIN s |-> w[s[i]]]
Weigh(w, s) == CI!AddUp(Weights(w, s))

LEMMA WeighMore ==
  ASSUME NEW X, NEW w \in [X -> Nat], NEW s \in Seq(X), NEW x \in X
  PROVE  /\ Weigh(w, Append(s, x)) = Weigh(w, s) + w[x]
         /\ Weigh(w, s) \in Nat /\ w[x] \in Nat /\ Weigh(w, <<>>) = 0
<1> DEFINE t == Append(s, x)
           ws == Weights(w, s)
<1>1. /\ t \in Seq(X) /\ Len(t) = Len(s) + 1 /\ Len(s) \in Nat /\ DOMAIN t = 1..(Len(s) + 1)
      /\ DOMAIN s = 1..Len(s)
      /\ \A i \in 1..(Len(s) + 1) : t[i] = IF i = Len(s) + 1 THEN x ELSE s[i]
  OBVIOUS
<1>2. ws \in [1..Len(s) -> Nat]
  <2>1. \A i \in 1..Len(s) : s[i] \in X
    BY <1>1
  <2> QED BY <1>1, <2>1 DEF Weights
<1> HIDE DEF t
<1>3. ws \in Seq(Nat) /\ Len(ws) = Len(s)
  <2> HIDE DEF ws
  <2>1. PICK n : n = Len(s) /\ n \in Nat
    BY <1>1
  <2>2. ws \in [1..n -> Nat]
    BY <1>2, <2>1
  <2>3. ws \in Seq(Nat) /\ Len(ws) = n
    BY <2>1, <2>2
  <2> QED BY <2>1, <2>3
<1>4. w[x] \in Nat /\ CI!AddUp(ws) \in Nat
  BY <1>3, AddUpNat
<1>5. Weights(w, t) = Append(ws, w[x])
  <2>1. Weights(w, t) = [i \in 1..(Len(s) + 1) |-> IF i = Len(s) + 1 THEN w[x] ELSE w[s[i]]]
    BY <1>1 DEF Weights
  <2>2. Append(ws, w[x]) = [i \in 1..(Len(s) + 1) |-> IF i = Len(s) + 1 THEN w[x] ELSE ws[i]]
    <3> HIDE DEF ws
    <3> QED BY <1>3, <1>4
  <2>3. \A i \in 1..(Len(s) + 1) : i # Len(s) + 1 => ws[i] = w[s[i]]
    BY <1>1 DEF Weights
  <2> HIDE DEF ws
  <2> QED BY <2>1, <2>2, <2>3
<1>6. IsSeq(ws)
  <2> HIDE DEF ws
  <2> QED BY <1>3, SeqTyped
<1>7. CI!AddUp(Append(ws, w[x])) = CI!AddUp(ws) + w[x]
  <2> HIDE DEF ws
  <2> QED BY <1>6, AddUpMore
<1>8. Weights(w, <<>>) = <<>>
  BY DEF Weights
<1> QED BY <1>4, <1>5, <1>7, <1>8, AddUpNone DEF Weigh, t

LEMMA WeighJoin ==
  ASSUME NEW X, NEW w \in [X -> Nat], NEW s \in Seq(X), NEW t \in Seq(X)
  PROVE  Weigh(w, s \o t) = Weigh(w, s) + Weigh(w, t) /\ Weigh(w, s) \in Nat /\ Weigh(w, t) \in Nat
<1>0. \A u \in Seq(X) : Weigh(w, u) \in Nat
  <2> TAKE u \in Seq(X)
  <2>1. CASE X = {}
    <3>1. u = <<>>
      BY <2>1
    <3>2. Weights(w, <<>>) = <<>>
      BY DEF Weights
    <3> QED BY <3>1, <3>2, AddUpNone DEF Weigh
  <2>2. CASE X # {}
    BY <2>2, WeighMore
  <2> QED BY <2>1, <2>2
<1> DEFINE T == {k \in Nat : \A u \in Seq(X) : Len(u) = k => Weigh(w, s \o u) = Weigh(w, s) + Weigh(w, u)}
<1>1. 0 \in T
  <2>1. \A u \in Seq(X) : Len(u) = 0 => u = <<>> /\ s \o u = s
    OBVIOUS
  <2>2. Weigh(w, <<>>) = 0
    <3>1. Weights(w, <<>>) = <<>>
      BY DEF Weights
    <3> QED BY <3>1, AddUpNone DEF Weigh
  <2>3. Weigh(w, s) + 0 = Weigh(w, s)
    BY <1>0
  <2> QED BY <2>1, <2>2, <2>3
<1>2. ASSUME NEW k \in Nat, k \in T PROVE k + 1 \in T
  <2> SUFFICES ASSUME NEW u \in Seq(X), Len(u) = k + 1
               PROVE  Weigh(w, s \o u) = Weigh(w, s) + Weigh(w, u)
    OBVIOUS
  <2> DEFINE f == SubSeq(u, 1, k)
             x == u[k + 1]
  <2>1. f \in Seq(X) /\ Len(f) = k /\ u = Append(f, x) /\ x \in X
    OBVIOUS
  <2> HIDE DEF f, x
  <2>2. s \o Append(f, x) = Append(s \o f, x) /\ s \o f \in Seq(X)
    BY <2>1
  <2>3. Weigh(w, s \o f) = Weigh(w, s) + Weigh(w, f)
    BY <1>2, <2>1
  <2>4. Weigh(w, Append(s \o f, x)) = Weigh(w, s \o f) + w[x]
    BY <2>1, <2>2, WeighMore
  <2>5. Weigh(w, Append(f, x)) = Weigh(w, f) + w[x] /\ w[x] \in Nat
    BY <2>1, WeighMore
  <2>6. Weigh(w, s) \in Nat /\ Weigh(w, f) \in Nat
    BY <1>0, <2>1
  <2> QED BY <2>1, <2>2, <2>3, <2>4, <2>5, <2>6
<1>3. Nat \subseteq T
  <2> HIDE DEF T
  <2> QED BY <1>1, <1>2, CountUp
<1>4. Len(t) \in Nat
  OBVIOUS
<1> QED BY <1>0, <1>3, <1>4

Sizes(ss) == [i \in DOMAIN ss |-> Len(ss[i])]
WeighEach(w, ss) == [i \in DOMAIN ss |-> Weigh(w, ss[i])]

Flattened(X, ss) ==
  LET flat == CI!FlattenSeq(ss) IN
    /\ flat \in Seq(X)
    /\ Elems(flat) = UNION {Elems(ss[i]) : i \in DOMAIN ss}
    /\ Len(flat) = CI!AddUp(Sizes(ss))
    /\ \A w \in [X -> Nat] : Weigh(w, flat) = CI!AddUp(WeighEach(w, ss))
    /\ ss # <<>> /\ ss[1] # <<>> => flat # <<>> /\ flat[1] = ss[1][1]

LEMMA FlattenedMore ==
  ASSUME NEW X, NEW ss \in Seq(Seq(X)), Flattened(X, ss), NEW t \in Seq(X)
  PROVE  Flattened(X, Append(ss, t))
<1> DEFINE ts == Append(ss, t)
           n == Len(ss)
           flat == CI!FlattenSeq(ss)
           more == CI!FlattenSeq(ts)
<1>1. /\ n \in Nat /\ DOMAIN ss = 1..n /\ DOMAIN ts = 1..(n + 1) /\ ts \in Seq(Seq(X))
      /\ \A i \in 1..n : ts[i] = ss[i] /\ ss[i] \in Seq(X)
      /\ ts[n + 1] = t /\ (n + 1) \notin 1..n /\ 1..(n + 1) = (1..n) \cup {n + 1}
      /\ \A i \in 1..(n + 1) : i # n + 1 => i \in 1..n
  OBVIOUS
<1>2. more = flat \o t
  <2>1. IsSeq(ss) /\ IsSeq(t)
    BY SeqTyped
  <2> QED BY <2>1, FlatMore
<1>3. flat \in Seq(X)
  BY DEF Flattened
<1>4. more \in Seq(X) /\ Len(more) = Len(flat) + Len(t) /\ Elems(more) = Elems(flat) \cup Elems(t)
  <2>1. IsSeq(flat) /\ IsSeq(t)
    BY <1>3, SeqTyped
  <2> HIDE DEF flat
  <2>2. flat \o t \in Seq(X)
    BY <1>3
  <2> QED BY <1>2, <2>1, <2>2, SeqJoin
<1> HIDE DEF ts, flat, more
<1>5. Elems(more) = UNION {Elems(ts[i]) : i \in DOMAIN ts}
  <2>1. Elems(flat) = UNION {Elems(ss[i]) : i \in 1..n}
    BY <1>1 DEF Flattened, flat
  <2>2. {Elems(ts[i]) : i \in 1..(n + 1)} = {Elems(ss[i]) : i \in 1..n} \cup {Elems(t)}
    <3>1. ASSUME NEW i \in 1..(n + 1)
          PROVE  Elems(ts[i]) \in {Elems(ss[j]) : j \in 1..n} \cup {Elems(t)}
      BY <1>1
    <3>2. ASSUME NEW i \in 1..n PROVE Elems(ss[i]) \in {Elems(ts[j]) : j \in 1..(n + 1)}
      <4>1. i \in 1..(n + 1) /\ ts[i] = ss[i]
        BY <1>1
      <4> QED BY <4>1
    <3>3. Elems(t) \in {Elems(ts[j]) : j \in 1..(n + 1)}
      <4>1. n + 1 \in 1..(n + 1)
        BY <1>1
      <4> QED BY <1>1, <4>1
    <3> QED BY <3>1, <3>2, <3>3
  <2>3. UNION ({Elems(ss[i]) : i \in 1..n} \cup {Elems(t)}) = (UNION {Elems(ss[i]) : i \in 1..n}) \cup Elems(t)
    OBVIOUS
  <2> QED BY <1>1, <1>4, <2>1, <2>2, <2>3
<1>6. Len(more) = CI!AddUp(Sizes(ts))
  <2>1. Sizes(ss) \in [1..n -> Nat]
    BY <1>1 DEF Sizes
  <2>2. Sizes(ss) \in Seq(Nat) /\ Len(Sizes(ss)) = n
    <3> HIDE DEF n
    <3> QED BY <1>1, <2>1
  <2>3. Sizes(ts) = Append(Sizes(ss), Len(t))
    <3>1. Sizes(ts) = [i \in 1..(n + 1) |-> IF i = n + 1 THEN Len(t) ELSE Sizes(ss)[i]]
      BY <1>1 DEF Sizes
    <3>2. Append(Sizes(ss), Len(t)) = [i \in 1..(n + 1) |-> IF i = n + 1 THEN Len(t) ELSE Sizes(ss)[i]]
      BY <2>2, SeqTyped, AppendIs
    <3> QED BY <3>1, <3>2
  <2>4. IsSeq(Sizes(ss))
    BY <2>2, SeqTyped
  <2>5. CI!AddUp(Append(Sizes(ss), Len(t))) = CI!AddUp(Sizes(ss)) + Len(t)
    BY <2>4, AddUpMore
  <2>6. Len(flat) = CI!AddUp(Sizes(ss))
    BY DEF Flattened, flat
  <2> QED BY <1>4, <2>3, <2>5, <2>6
<1>7. ASSUME NEW w \in [X -> Nat] PROVE Weigh(w, more) = CI!AddUp(WeighEach(w, ts))
  <2>1. WeighEach(w, ss) = [i \in 1..n |-> Weigh(w, ss[i])]
    BY <1>1 DEF WeighEach
  <2>2. IsSeq(WeighEach(w, ss)) /\ Len(WeighEach(w, ss)) = n
    <3> HIDE DEF n
    <3>1. DOMAIN WeighEach(w, ss) = 1..n
      BY <2>1
    <3>2. WeighEach(w, ss) = [i \in 1..n |-> WeighEach(w, ss)[i]]
      BY <2>1
    <3> QED BY <1>1, <3>1, <3>2, SeqMade
  <2>3. WeighEach(w, ts) = Append(WeighEach(w, ss), Weigh(w, t))
    <3>1. WeighEach(w, ts) = [i \in 1..(n + 1) |-> IF i = n + 1 THEN Weigh(w, t) ELSE WeighEach(w, ss)[i]]
      BY <1>1, <2>1 DEF WeighEach
    <3>2. Append(WeighEach(w, ss), Weigh(w, t))
          = [i \in 1..(n + 1) |-> IF i = n + 1 THEN Weigh(w, t) ELSE WeighEach(w, ss)[i]]
      BY <2>2, AppendIs
    <3> QED BY <3>1, <3>2
  <2>4. CI!AddUp(Append(WeighEach(w, ss), Weigh(w, t))) = CI!AddUp(WeighEach(w, ss)) + Weigh(w, t)
    BY <2>2, AddUpMore
  <2>5. Weigh(w, flat) = CI!AddUp(WeighEach(w, ss))
    BY DEF Flattened, flat
  <2>6. Weigh(w, flat \o t) = Weigh(w, flat) + Weigh(w, t)
    BY <1>3, WeighJoin
  <2> QED BY <1>2, <2>3, <2>4, <2>5, <2>6
<1>8. ts # <<>> /\ ts[1] # <<>> => more # <<>> /\ more[1] = ts[1][1]
  <2> SUFFICES ASSUME ts[1] # <<>> PROVE more # <<>> /\ more[1] = ts[1][1]
    OBVIOUS
  <2>1. CASE n = 0
    <3>1. ss = <<>> /\ flat = <<>>
      BY <2>1, FlatNone DEF flat
    <3>2. more = t /\ ts[1] = t
      BY <1>1, <1>2, <2>1, <3>1
    <3> QED BY <2>1, <3>2
  <2>2. CASE n # 0
    <3>1. 1 \in 1..n /\ ts[1] = ss[1] /\ ss # <<>>
      BY <1>1, <2>2
    <3>2. flat # <<>> /\ flat[1] = ss[1][1]
      BY <3>1 DEF Flattened, flat
    <3> QED BY <1>2, <1>3, <3>1, <3>2
  <2> QED BY <2>1, <2>2
<1> QED BY <1>4, <1>5, <1>6, <1>7, <1>8 DEF Flattened, ts, more

LEMMA FlattenIs ==
  ASSUME NEW X, NEW ss \in Seq(Seq(X))
  PROVE  Flattened(X, ss)
<1> DEFINE T == {k \in Nat : \A ts \in Seq(Seq(X)) : Len(ts) = k => Flattened(X, ts)}
<1>1. 0 \in T
  <2>1. \A ts \in Seq(Seq(X)) : Len(ts) = 0 => ts = <<>>
    OBVIOUS
  <2>2. Flattened(X, <<>>)
    <3>1. <<>> \in Seq(X) /\ Elems(<<>>) = {} /\ DOMAIN <<>> = {} /\ Sizes(<<>>) = <<>>
      BY DEF Elems, Sizes
    <3>2. ASSUME NEW w PROVE Weigh(w, <<>>) = CI!AddUp(WeighEach(w, <<>>))
      <4>1. WeighEach(w, <<>>) = <<>> /\ Weights(w, <<>>) = <<>>
        BY DEF WeighEach, Weights
      <4> QED BY <4>1 DEF Weigh
    <3> QED BY <3>1, <3>2, FlatNone, AddUpNone DEF Flattened
  <2> QED BY <2>1, <2>2
<1>2. ASSUME NEW k \in Nat, k \in T PROVE k + 1 \in T
  <2> SUFFICES ASSUME NEW ts \in Seq(Seq(X)), Len(ts) = k + 1 PROVE Flattened(X, ts)
    OBVIOUS
  <2> DEFINE f == SubSeq(ts, 1, k)
             x == ts[k + 1]
  <2>1. f \in Seq(Seq(X)) /\ Len(f) = k /\ ts = Append(f, x) /\ x \in Seq(X)
    OBVIOUS
  <2> HIDE DEF f, x
  <2>2. Flattened(X, f)
    BY <1>2, <2>1
  <2> QED BY <2>1, <2>2, FlattenedMore
<1>3. Nat \subseteq T
  <2> HIDE DEF T
  <2> QED BY <1>1, <1>2, CountUp
<1>4. Len(ss) \in Nat
  OBVIOUS
<1> QED BY <1>3, <1>4

(***************************************************************************)
(* Reading a log back, line by line.                                       *)
(***************************************************************************)
Reads(lines, n, g) == g = [k \in 0..n |-> IF k = 0 THEN CI!Blank ELSE CI!ReadLine(g[k - 1], lines[k])]

LEMMA ReadsExist ==
  ASSUME NEW lines
  PROVE  \A n \in Nat : \E g : Reads(lines, n, g)
<1> DEFINE T == {n \in Nat : \E g : Reads(lines, n, g)}
<1>1. 0 \in T
  <2>1. Reads(lines, 0, [k \in 0..0 |-> CI!Blank])
    BY DEF Reads
  <2> QED BY <2>1
<1>2. ASSUME NEW n \in Nat, n \in T PROVE n + 1 \in T
  <2>1. PICK g : Reads(lines, n, g)
    BY <1>2
  <2> DEFINE next == CI!ReadLine(g[n], lines[n + 1])
             f == [k \in 0..(n + 1) |-> IF k = n + 1 THEN next ELSE g[k]]
  <2>2. \A k \in 0..n : g[k] = IF k = 0 THEN CI!Blank ELSE CI!ReadLine(g[k - 1], lines[k])
    BY <2>1 DEF Reads
  <2>3. ASSUME NEW k \in 0..(n + 1)
        PROVE  f[k] = IF k = 0 THEN CI!Blank ELSE CI!ReadLine(f[k - 1], lines[k])
    <3>1. CASE k = n + 1
      <4>1. k - 1 \in 0..(n + 1) /\ k - 1 # n + 1 /\ k - 1 = n /\ k # 0
        BY <3>1
      <4> QED BY <3>1, <4>1
    <3>2. CASE k = 0
      BY <2>2, <3>2
    <3>3. CASE k # n + 1 /\ k # 0
      <4>1. k \in 0..n /\ k - 1 \in 0..(n + 1) /\ k - 1 # n + 1
        BY <3>3
      <4> QED BY <2>2, <3>3, <4>1
    <3> QED BY <3>1, <3>2, <3>3
  <2>4. f = [k \in 0..(n + 1) |-> f[k]]
    OBVIOUS
  <2> HIDE DEF f
  <2>5. Reads(lines, n + 1, f)
    BY <2>3, <2>4 DEF Reads
  <2> QED BY <2>5
<1> HIDE DEF T
<1>3. Nat \subseteq T
  BY <1>1, <1>2, CountUp
<1> QED BY <1>3 DEF T

LEMMA ReadsAgree ==
  ASSUME NEW lines, NEW more, NEW n \in Nat, NEW m \in Nat, n <= m,
         \A i \in 1..n : lines[i] = more[i],
         NEW g, Reads(lines, n, g), NEW h, Reads(more, m, h)
  PROVE  g[n] = h[n]
<1> DEFINE T == {k \in Nat : k <= n => g[k] = h[k]}
<1>0. /\ \A k \in 0..n : g[k] = IF k = 0 THEN CI!Blank ELSE CI!ReadLine(g[k - 1], lines[k])
      /\ \A k \in 0..m : h[k] = IF k = 0 THEN CI!Blank ELSE CI!ReadLine(h[k - 1], more[k])
  BY DEF Reads
<1>1. 0 \in T
  BY <1>0
<1>2. \A k \in Nat : k \in T => k + 1 \in T
  <2> SUFFICES ASSUME NEW k \in Nat, g[k] = h[k], k + 1 <= n PROVE g[k + 1] = h[k + 1]
    OBVIOUS
  <2>1. k + 1 \in 0..n /\ k + 1 \in 0..m /\ k + 1 \in 1..n /\ (k + 1) - 1 = k /\ k + 1 # 0
    OBVIOUS
  <2> QED BY <1>0, <2>1
<1> HIDE DEF T
<1>3. Nat \subseteq T
  BY <1>1, <1>2, CountUp
<1> QED BY <1>3 DEF T

LEMMA ParseIs ==
  ASSUME NEW lines, NEW h, Len(lines) \in Nat, Reads(lines, Len(lines), h)
  PROVE  CI!ParseTestOutput(lines) = h[Len(lines)]
<1> DEFINE got == CHOOSE g : Reads(lines, Len(lines), g)
<1>1. Reads(lines, Len(lines), got)
  BY ReadsExist
<1>2. CI!ParseTestOutput(lines) = got[Len(lines)]
  BY DEF CI!ParseTestOutput, Reads
<1> HIDE DEF got
<1>3. got[Len(lines)] = h[Len(lines)]
  BY <1>1, ReadsAgree
<1> QED BY <1>2, <1>3

LEMMA ParseNone == CI!ParseTestOutput(<<>>) = CI!Blank
<1>1. Reads(<<>>, 0, [k \in 0..0 |-> CI!Blank])
  BY DEF Reads
<1>2. Len(<<>>) = 0 /\ Len(<<>>) \in Nat
  OBVIOUS
<1> QED BY <1>1, <1>2, ParseIs

LEMMA ParseMore ==
  ASSUME NEW lines, IsSeq(lines), NEW line
  PROVE  CI!ParseTestOutput(Append(lines, line)) = CI!ReadLine(CI!ParseTestOutput(lines), line)
<1> DEFINE n == Len(lines)
           more == Append(lines, line)
<1>1. n \in Nat /\ Len(more) = n + 1 /\ more[n + 1] = line /\ \A i \in 1..n : lines[i] = more[i]
  BY SeqIs, SeqMore
<1> HIDE DEF more, n
<1>2. PICK l : l = n + 1 /\ l \in Nat /\ n <= l
  BY <1>1
<1>3. PICK h : Reads(more, l, h)
  BY <1>2, ReadsExist
<1>4. PICK g : Reads(lines, n, g)
  BY <1>1, ReadsExist
<1>5. CI!ParseTestOutput(more) = h[l] /\ CI!ParseTestOutput(lines) = g[n]
  BY <1>1, <1>2, <1>3, <1>4, ParseIs DEF n
<1>6. g[n] = h[n]
  <2>1. n \in Nat /\ l \in Nat /\ n <= l /\ \A i \in 1..n : lines[i] = more[i]
    BY <1>1, <1>2
  <2>2. Reads(lines, n, g) /\ Reads(more, l, h)
    BY <1>3, <1>4
  <2> QED BY <2>1, <2>2, ReadsAgree
<1>7. h[l] = CI!ReadLine(h[n], line)
  <2>1. l \in 0..l /\ l # 0 /\ l - 1 = n
    BY <1>1, <1>2
  <2> QED BY <1>1, <1>2, <1>3, <2>1 DEF Reads
<1> QED BY <1>5, <1>6, <1>7 DEF more

\* nothing is read behind a line that is too long
LEMMA ParseCut ==
  ASSUME NEW lines, IsSeq(lines), lines # <<>>, lines[1] = CI!LongLine
  PROVE  CI!ParseTestOutput(lines) = [CI!Blank EXCEPT !.cut = TRUE]
<1> DEFINE cut == [CI!Blank EXCEPT !.cut = TRUE]
           T == {k \in Nat : k + 1 <= Len(lines) => CI!ParseTestOutput(SubSeq(lines, 1, k + 1)) = cut}
<1>1. Len(lines) \in Nat \ {0}
  BY SeqIs
<1>2. ASSUME NEW k \in Nat, k + 1 <= Len(lines)
      PROVE  CI!ParseTestOutput(SubSeq(lines, 1, k + 1))
             = CI!ReadLine(CI!ParseTestOutput(SubSeq(lines, 1, k)), lines[k + 1])
  <2>1. k \in 0..Len(lines) /\ k < Len(lines)
    BY <1>1, <1>2
  <2>2. IsSeq(SubSeq(lines, 1, k)) /\ SubSeq(lines, 1, k + 1) = Append(SubSeq(lines, 1, k), lines[k + 1])
    BY <2>1, SeqFront
  <2> QED BY <2>2, ParseMore
<1>3. 0 \in T
  <2>1. SubSeq(lines, 1, 0) = <<>>
    BY <1>1, SeqFront
  <2>2. CI!ParseTestOutput(SubSeq(lines, 1, 0 + 1)) = CI!ReadLine(CI!Blank, CI!LongLine)
    <3>1. 0 \in Nat /\ 0 + 1 <= Len(lines) /\ 0 + 1 = 1
      BY <1>1
    <3>2. CI!ParseTestOutput(SubSeq(lines, 1, 0 + 1))
          = CI!ReadLine(CI!ParseTestOutput(SubSeq(lines, 1, 0)), lines[0 + 1])
      BY <1>2, <3>1
    <3> QED BY <2>1, <3>1, <3>2, ParseNone
  <2>3. CI!ReadLine(CI!Blank, CI!LongLine) = cut
    BY DEF CI!ReadLine, CI!Blank, CI!LongLine, CI!NameLine
  <2> QED BY <2>2, <2>3
<1>4. ASSUME NEW k \in Nat, k \in T PROVE k + 1 \in T
  <2>1. \A line : CI!ReadLine(cut, line) = cut
    BY DEF CI!ReadLine, CI!Blank
  <2> HIDE DEF cut
  <2> QED BY <1>1, <1>2, <1>4, <2>1
<1>5. Nat \subseteq T
  <2> HIDE DEF T
  <2> QED BY <1>3, <1>4, CountUp
<1>6. Len(lines) - 1 \in Nat /\ (Len(lines) - 1) + 1 = Len(lines)
  BY <1>1
<1>7. SubSeq(lines, 1, Len(lines)) = lines
  BY <1>1, SeqFront
<1>8. CI!ParseTestOutput(SubSeq(lines, 1, (Len(lines) - 1) + 1)) = cut
  <2>1. PICK k \in Nat : k + 1 = Len(lines) /\ k = Len(lines) - 1
    BY <1>1
  <2> HIDE DEF cut
  <2>2. CI!ParseTestOutput(SubSeq(lines, 1, k + 1)) = cut
    BY <1>1, <1>5, <2>1
  <2> QED BY <1>6, <2>1, <2>2
<1> QED BY <1>6, <1>7, <1>8
(***************************************************************************)
(* What a log that was read shows of the tests that ended.                 *)
(***************************************************************************)
CasesOf(R, s) == {CI!Case(c.name, c.dur) : c \in {c \in R : c.status = s}}

Fields == {"cur", "cand", "timed", "cut", "PASS", "FAIL", "SKIP", "DEFERRED"}
Shaped(p) == p = [x \in Fields |-> p[x]]

Distinct(l) == IsSeq(l) /\ \A i, j \in DOMAIN l : l[i].name = l[j].name => i = j

\* the lists of p are what ended in R, but for who was deferred
Reveals(p, R) ==
  /\ \A s \in {"PASS", "FAIL"} : Elems(p[s]) = CasesOf(R, s)
  /\ Elems(p["SKIP"]) \cup Elems(p["DEFERRED"]) = CasesOf(R, "SKIP") \cup CasesOf(R, "DEFERRED")
  /\ IsSeq(p.timed) /\ {p.timed[i].dur : i \in DOMAIN p.timed} = {c.dur : c \in R}
  /\ \A s \in CI!Statuses : Distinct(p[s])

Told(p, R) == \A s \in {"SKIP", "DEFERRED"} : Elems(p[s]) = CasesOf(R, s)

RecordOf(status, c, said) ==
  [name |-> c.name, dur |-> c.dur,
   status |-> IF status = "SKIP" /\ c.name \in said THEN "DEFERRED" ELSE status]

\* of what ended in B and was printed, all was read unless a line was too long
Fits(p, B, cut, late, said) ==
  /\ Shaped(p) /\ p.cut \in BOOLEAN /\ (p.cut => cut)
  /\ \E R \in SUBSET B :
       /\ cut \/ R = B
       /\ Reveals(p, R)
       /\ ~p.cut /\ ~late => Told(p, R) /\ p.cand = said

LEMMA BlankFits == Fits(CI!Blank, {}, FALSE, FALSE, {})
<1>1. Reveals(CI!Blank, {}) /\ Told(CI!Blank, {})
  BY SeqEmpty DEF Reveals, Told, CasesOf, CI!Blank, CI!Statuses, Distinct
<1>2. Shaped(CI!Blank)
  BY DEF Shaped, Fields, CI!Blank
<1> QED BY <1>1, <1>2 DEF Fits, CI!Blank

Added(l, c) == Append(l, c)
AddedTime(l, c, s) == Append(l, [name |-> c.name, dur |-> c.dur, status |-> s])

LEMMA ListedIs ==
  ASSUME NEW p, Shaped(p), NEW s \in CI!Statuses, NEW c, c.dur # CI!Untimed
  PROVE  /\ Shaped(CI!Listed(p, s, c))
         /\ CI!Listed(p, s, c).cur = p.cur /\ CI!Listed(p, s, c).cand = p.cand
         /\ CI!Listed(p, s, c).cut = p.cut
         /\ CI!Listed(p, s, c)[s] = Added(p[s], c)
         /\ \A r \in CI!Statuses \ {s} : CI!Listed(p, s, c)[r] = p[r]
         /\ CI!Listed(p, s, c).timed = AddedTime(p.timed, c, s)
<1> DEFINE q == CI!Listed(p, s, c)
           more == Added(p[s], c)
           new == AddedTime(p.timed, c, s)
<1>1. q = [p EXCEPT ![s] = more, !.timed = new]
  BY DEF CI!Listed, Added, AddedTime
<1> HIDE DEF q, more, new
<1>2. /\ "timed" # s /\ s \in Fields /\ CI!Statuses \subseteq Fields
      /\ {"timed", "cur", "cand", "cut"} \subseteq Fields
      /\ \A r \in CI!Statuses : r \notin {"timed", "cur", "cand", "cut"}
  BY DEF CI!Statuses, Fields
<1>3. DOMAIN p = Fields
  BY DEF Shaped
<1>4. q = [x \in Fields |-> IF x = "timed" THEN new ELSE IF x = s THEN more ELSE p[x]]
  BY <1>1, <1>2, <1>3
<1>5. Shaped(q)
  BY <1>4 DEF Shaped
<1>6. q[s] = more /\ q.timed = new /\ \A r \in CI!Statuses \ {s} : q[r] = p[r]
  BY <1>2, <1>4
<1>7. q.cur = p.cur /\ q.cand = p.cand /\ q.cut = p.cut
  BY <1>2, <1>4
<1> QED BY <1>5, <1>6, <1>7 DEF q, more, new

LEMMA DistinctMore ==
  ASSUME NEW l, Distinct(l), NEW c, \A x \in Elems(l) : x.name # c.name
  PROVE  Distinct(Append(l, c)) /\ Elems(Append(l, c)) = Elems(l) \cup {c}
<1> DEFINE m == Append(l, c)
           n == Len(l)
<1>1. IsSeq(l) /\ n \in Nat /\ DOMAIN l = 1..n /\ \A i \in 1..n : l[i] \in Elems(l)
  BY SeqIs DEF Distinct
<1>2. /\ IsSeq(m) /\ Elems(m) = Elems(l) \cup {c} /\ Len(m) = n + 1
      /\ \A i \in 1..n : m[i] = l[i]
      /\ m[n + 1] = c
  BY <1>1, SeqMore
<1>3. DOMAIN m = 1..(n + 1)
  <2> HIDE DEF m
  <2> QED BY <1>2, SeqIs
<1> HIDE DEF m
<1>4. ASSUME NEW i \in 1..(n + 1), NEW j \in 1..(n + 1), m[i].name = m[j].name
      PROVE  i = j
  <2>1. \A k \in 1..(n + 1) : k # n + 1 => k \in 1..n
    BY <1>1
  <2>2. \A k \in 1..n : m[k].name # c.name
    BY <1>1, <1>2
  <2>3. CASE i = n + 1 \/ j = n + 1
    BY <1>2, <1>4, <2>1, <2>2, <2>3
  <2>4. CASE i # n + 1 /\ j # n + 1
    BY <1>1, <1>2, <1>4, <2>1, <2>4 DEF Distinct
  <2> QED BY <2>3, <2>4
<1> QED BY <1>2, <1>3, <1>4 DEF Distinct, m

LEMMA EndShown ==
  ASSUME NEW p, Shaped(p), NEW R, Reveals(p, R), NEW said,
         NEW st \in {"PASS", "FAIL", "SKIP"}, NEW c, c.dur \in Nat, c = CI!Case(c.name, c.dur),
         \A x \in R : x.name # c.name,
         NEW rs \in CI!Statuses, rs = st \/ (rs = "DEFERRED" /\ st = "SKIP")
  PROVE  /\ Reveals(CI!Listed(p, rs, c), R \cup {RecordOf(st, c, said)})
         /\ Told(p, R) /\ rs = RecordOf(st, c, said).status
            => Told(CI!Listed(p, rs, c), R \cup {RecordOf(st, c, said)})
<1> DEFINE q == CI!Listed(p, rs, c)
           rec == RecordOf(st, c, said)
           Q == R \cup {rec}
<1>1. c.dur # CI!Untimed
  BY DEF CI!Untimed
<1>2. /\ q[rs] = Append(p[rs], c)
      /\ \A r \in CI!Statuses \ {rs} : q[r] = p[r]
      /\ q.timed = Append(p.timed, [name |-> c.name, dur |-> c.dur, status |-> rs])
  <2>1. /\ q[rs] = Added(p[rs], c)
        /\ \A r \in CI!Statuses \ {rs} : q[r] = p[r]
        /\ q.timed = AddedTime(p.timed, c, rs)
    BY <1>1, ListedIs
  <2> QED BY <2>1 DEF Added, AddedTime
<1> HIDE DEF q
<1>3. rec.status \in CI!Statuses /\ CI!Case(rec.name, rec.dur) = c /\ rec.dur = c.dur
  BY DEF RecordOf, CI!Statuses
<1>4. rec.status = IF st = "SKIP" /\ c.name \in said THEN "DEFERRED" ELSE st
  BY DEF RecordOf
<1> HIDE DEF rec
<1>5. \A s \in CI!Statuses : CasesOf(Q, s) = IF s = rec.status THEN CasesOf(R, s) \cup {c} ELSE CasesOf(R, s)
  BY <1>3 DEF CasesOf
<1>6. \A s \in CI!Statuses : \A x \in Elems(p[s]) : x.name # c.name
  <2> TAKE s \in CI!Statuses
  <2> TAKE x \in Elems(p[s])
  <2>1. \E r \in CI!Statuses : x \in CasesOf(R, r)
    BY DEF Reveals, CI!Statuses
  <2>2. \E y \in R : x = CI!Case(y.name, y.dur)
    BY <2>1 DEF CasesOf
  <2> QED BY <2>2 DEF CI!Case
<1>7. \A s \in CI!Statuses : /\ Distinct(q[s])
                             /\ Elems(q[s]) = IF s = rs THEN Elems(p[s]) \cup {c} ELSE Elems(p[s])
  <2> TAKE s \in CI!Statuses
  <2>1. Distinct(p[s])
    BY DEF Reveals
  <2>2. CASE s = rs
    <3>1. Distinct(Append(p[s], c)) /\ Elems(Append(p[s], c)) = Elems(p[s]) \cup {c}
      BY <1>6, <2>1, DistinctMore
    <3> QED BY <1>2, <2>2, <3>1
  <2>3. CASE s # rs
    BY <1>2, <2>1, <2>3
  <2> QED BY <2>2, <2>3
<1>8. IsSeq(q.timed) /\ {q.timed[i].dur : i \in DOMAIN q.timed} = {x.dur : x \in Q}
  <2> DEFINE new == [name |-> c.name, dur |-> c.dur, status |-> rs]
  <2>1. IsSeq(p.timed) /\ {x.dur : x \in Elems(p.timed)} = {x.dur : x \in R}
    BY DEF Reveals, Elems
  <2>2. IsSeq(q.timed) /\ Elems(q.timed) = Elems(p.timed) \cup {new}
    <3> HIDE DEF new
    <3>1. q.timed = Append(p.timed, new)
      BY <1>2 DEF new
    <3> QED BY <2>1, <3>1, SeqMore
  <2>3. {x.dur : x \in Elems(q.timed)} = {x.dur : x \in Elems(p.timed)} \cup {c.dur}
    <3>1. new.dur = c.dur
      OBVIOUS
    <3> HIDE DEF new
    <3> QED BY <2>2, <3>1
  <2>4. {x.dur : x \in Q} = {x.dur : x \in R} \cup {c.dur}
    BY <1>3
  <2>5. {q.timed[i].dur : i \in DOMAIN q.timed} = {x.dur : x \in Elems(q.timed)}
    BY DEF Elems
  <2> QED BY <2>1, <2>2, <2>3, <2>4, <2>5
<1>9. Reveals(q, Q)
  <2>1. \A s \in {"PASS", "FAIL"} : Elems(q[s]) = CasesOf(Q, s)
    BY <1>4, <1>5, <1>7 DEF Reveals, CI!Statuses
  <2>2. Elems(q["SKIP"]) \cup Elems(q["DEFERRED"]) = CasesOf(Q, "SKIP") \cup CasesOf(Q, "DEFERRED")
    <3>1. Elems(p["SKIP"]) \cup Elems(p["DEFERRED"]) = CasesOf(R, "SKIP") \cup CasesOf(R, "DEFERRED")
      BY DEF Reveals
    <3>2. /\ Elems(q["SKIP"]) = IF rs = "SKIP" THEN Elems(p["SKIP"]) \cup {c} ELSE Elems(p["SKIP"])
          /\ Elems(q["DEFERRED"]) = IF rs = "DEFERRED" THEN Elems(p["DEFERRED"]) \cup {c}
                                    ELSE Elems(p["DEFERRED"])
      BY <1>7 DEF CI!Statuses
    <3>3. /\ CasesOf(Q, "SKIP") = IF rec.status = "SKIP" THEN CasesOf(R, "SKIP") \cup {c}
                                ELSE CasesOf(R, "SKIP")
          /\ CasesOf(Q, "DEFERRED") = IF rec.status = "DEFERRED" THEN CasesOf(R, "DEFERRED") \cup {c}
                                    ELSE CasesOf(R, "DEFERRED")
      BY <1>5 DEF CI!Statuses
    <3>4. rs \in {"SKIP", "DEFERRED"} <=> rec.status \in {"SKIP", "DEFERRED"}
      BY <1>4
    <3> QED BY <3>1, <3>2, <3>3, <3>4
  <2> QED BY <1>7, <1>8, <2>1, <2>2 DEF Reveals
<1>10. Told(p, R) /\ rs = rec.status => Told(q, Q)
  BY <1>5, <1>7 DEF Told, CI!Statuses
<1> QED BY <1>9, <1>10 DEF q, rec

LEMMA SameShown ==
  ASSUME NEW p, NEW q, \A s \in CI!Statuses : q[s] = p[s], q.timed = p.timed, NEW R
  PROVE  (Reveals(p, R) => Reveals(q, R)) /\ (Told(p, R) => Told(q, R))
BY DEF Reveals, Told, CI!Statuses

LEMMA FitsEnd ==
  ASSUME NEW p, NEW B, NEW cut, NEW late, NEW said, Fits(p, B, cut, late, said),
         NEW st \in {"PASS", "FAIL", "SKIP"}, NEW c, c.dur \in Nat, c = CI!Case(c.name, c.dur),
         \A x \in B : x.name # c.name
  PROVE  /\ Fits(CI!ReadLine(p, CI!EndLine(st, c)), B \cup {RecordOf(st, c, said)}, cut, late, said)
         /\ CI!ReadLine(p, CI!EndLine(st, c)).cur = p.cur
         /\ CI!ReadLine(p, CI!EndLine(st, c)).cut = p.cut
<1> DEFINE line == CI!EndLine(st, c)
           q == CI!ReadLine(p, line)
           rec == RecordOf(st, c, said)
<1>1. PICK R \in SUBSET B : /\ cut \/ R = B
                            /\ Reveals(p, R)
                            /\ ~p.cut /\ ~late => Told(p, R) /\ p.cand = said
  BY DEF Fits
<1>2. Shaped(p) /\ p.cut \in BOOLEAN /\ (p.cut => cut)
  BY DEF Fits
<1>3. CASE p.cut
  <2>1. q = p
    BY <1>3 DEF CI!ReadLine
  <2> HIDE DEF q, rec
  <2>2. R \in SUBSET (B \cup {rec})
    BY <1>1
  <2>3. Fits(p, B \cup {rec}, cut, late, said)
    BY <1>1, <1>2, <1>3, <2>2 DEF Fits
  <2> QED BY <2>1, <2>3 DEF q, rec
<1>4. CASE ~p.cut
  <2> DEFINE rs == CI!ReadStatus(p, line)
  <2>1. rs = IF st = "SKIP" /\ c.name \in p.cand THEN "DEFERRED" ELSE st
    BY DEF CI!ReadStatus, CI!EndLine, CI!Untimed
  <2>2. q = CI!Listed(p, rs, c)
    BY <1>4 DEF CI!ReadLine, CI!EndLine
  <2> HIDE DEF rs, q
  <2>3. rs \in CI!Statuses /\ (rs = st \/ (rs = "DEFERRED" /\ st = "SKIP"))
    BY <2>1 DEF CI!Statuses
  <2>4. \A x \in R : x.name # c.name
    BY <1>1
  <2>5. /\ Reveals(q, R \cup {rec})
        /\ Told(p, R) /\ rs = rec.status => Told(q, R \cup {rec})
    BY <1>1, <1>2, <2>2, <2>3, <2>4, EndShown
  <2>6. c.dur # CI!Untimed
    BY DEF CI!Untimed
  <2>7. Shaped(q) /\ q.cur = p.cur /\ q.cand = p.cand /\ q.cut = p.cut
    BY <1>2, <2>2, <2>3, <2>6, ListedIs
  <2>8. p.cand = said => rs = rec.status
    BY <2>1 DEF RecordOf
  <2> HIDE DEF rec
  <2>9. Fits(q, B \cup {rec}, cut, late, said)
    <3>1. R \cup {rec} \in SUBSET (B \cup {rec}) /\ (cut \/ R \cup {rec} = B \cup {rec})
      BY <1>1
    <3>2. ~late => Told(q, R \cup {rec}) /\ q.cand = said
      BY <1>1, <1>4, <2>5, <2>7, <2>8
    <3> QED BY <1>2, <1>4, <2>5, <2>7, <3>1, <3>2 DEF Fits
  <2> QED BY <2>7, <2>9 DEF rec, q
<1> QED BY <1>2, <1>3, <1>4

LEMMA FitsRun ==
  ASSUME NEW p, NEW B, NEW cut, NEW late, NEW said, Fits(p, B, cut, late, said), NEW t
  PROVE  /\ Fits(CI!ReadLine(p, CI!NameLine("run", t)), B, cut, late, said)
         /\ CI!ReadLine(p, CI!NameLine("run", t)).cut = p.cut
         /\ ~p.cut => CI!ReadLine(p, CI!NameLine("run", t)).cur = t
<1> DEFINE q == CI!ReadLine(p, CI!NameLine("run", t))
<1>1. Shaped(p) /\ p.cut \in BOOLEAN /\ (p.cut => cut)
  BY DEF Fits
<1>2. CASE p.cut
  BY <1>2 DEF CI!ReadLine
<1>3. CASE ~p.cut
  <2>1. q = [p EXCEPT !.cur = t]
    BY <1>3 DEF CI!ReadLine, CI!NameLine, CI!Case
  <2> HIDE DEF q
  <2>2. /\ Shaped(q) /\ q.cur = t /\ q.cand = p.cand /\ q.cut = p.cut /\ q.timed = p.timed
        /\ \A s \in CI!Statuses : q[s] = p[s]
    BY <1>1, <2>1 DEF Shaped, Fields, CI!Statuses
  <2>3. Fits(q, B, cut, late, said)
    BY <1>1, <2>2, SameShown DEF Fits
  <2> QED BY <2>2, <2>3 DEF q
<1> QED BY <1>1, <1>2, <1>3

LEMMA SayKeeps ==
  ASSUME NEW p, Shaped(p), p.cut \in BOOLEAN
  PROVE  LET q == CI!ReadLine(p, CI!NameLine("deferred", NoTest)) IN
         /\ q = IF p.cut \/ p.cur = NoTest THEN p ELSE [p EXCEPT !.cand = @ \cup {p.cur}]
         /\ Shaped(q) /\ q.cur = p.cur /\ q.cut = p.cut /\ q.timed = p.timed
         /\ \A s \in CI!Statuses : q[s] = p[s]
<1> DEFINE q == CI!ReadLine(p, CI!NameLine("deferred", NoTest))
<1>1. q = IF p.cut \/ p.cur = NoTest THEN p ELSE [p EXCEPT !.cand = @ \cup {p.cur}]
  BY DEF CI!ReadLine, CI!NameLine, CI!Case
<1> HIDE DEF q
<1>2. /\ Shaped(q) /\ q.cur = p.cur /\ q.cut = p.cut /\ q.timed = p.timed
      /\ \A s \in CI!Statuses : q[s] = p[s]
  BY <1>1 DEF Shaped, Fields, CI!Statuses
<1> QED BY <1>1, <1>2 DEF q

LEMMA FitsSay ==
  ASSUME NEW p, NEW B, NEW cut, NEW late, NEW said, Fits(p, B, cut, late, said),
         NEW t, t # NoTest, NEW later, late => later, ~p.cut /\ ~later => p.cur = t
  PROVE  Fits(CI!ReadLine(p, CI!NameLine("deferred", NoTest)), B, cut, later, said \cup {t})
<1> DEFINE q == CI!ReadLine(p, CI!NameLine("deferred", NoTest))
<1>1. Shaped(p) /\ p.cut \in BOOLEAN /\ (p.cut => cut)
  BY DEF Fits
<1>2. q = IF p.cut \/ p.cur = NoTest THEN p ELSE [p EXCEPT !.cand = @ \cup {p.cur}]
  BY <1>1, SayKeeps
<1>3. /\ Shaped(q) /\ q.cur = p.cur /\ q.cut = p.cut /\ q.timed = p.timed
      /\ \A s \in CI!Statuses : q[s] = p[s]
  BY <1>1, SayKeeps
<1> HIDE DEF q
<1>4. ~p.cut /\ ~later /\ p.cand = said => q.cand = said \cup {t}
  BY <1>1, <1>2 DEF Shaped, Fields
<1>5. Fits(q, B, cut, later, said \cup {t})
  <2>1. PICK R \in SUBSET B : /\ cut \/ R = B
                              /\ Reveals(p, R)
                              /\ ~p.cut /\ ~late => Told(p, R) /\ p.cand = said
    BY DEF Fits
  <2>2. Reveals(q, R) /\ (Told(p, R) => Told(q, R))
    BY <1>3, <2>1, SameShown
  <2>3. ~q.cut /\ ~later => Told(q, R) /\ q.cand = said \cup {t}
    BY <1>3, <1>4, <2>1, <2>2
  <2> QED BY <1>1, <1>3, <2>1, <2>2, <2>3 DEF Fits
<1> QED BY <1>5 DEF q

LEMMA FitsLong ==
  ASSUME NEW p, NEW B, NEW cut, NEW late, NEW said, Fits(p, B, cut, late, said)
  PROVE  /\ Fits(CI!ReadLine(p, CI!LongLine), B, TRUE, late, said)
         /\ CI!ReadLine(p, CI!LongLine).cut
<1> DEFINE q == CI!ReadLine(p, CI!LongLine)
<1>1. Shaped(p) /\ p.cut \in BOOLEAN
  BY DEF Fits
<1>2. q = IF p.cut THEN p ELSE [p EXCEPT !.cut = TRUE]
  BY <1>1 DEF CI!ReadLine, CI!LongLine, CI!NameLine
<1> HIDE DEF q
<1>3. Shaped(q) /\ q.cut = TRUE /\ q.timed = p.timed /\ \A s \in CI!Statuses : q[s] = p[s]
  BY <1>1, <1>2 DEF Shaped, Fields, CI!Statuses
<1>4. Fits(q, B, TRUE, late, said)
  BY <1>3, SameShown DEF Fits
<1> QED BY <1>3, <1>4 DEF q

LEMMA JoinMore ==
  ASSUME NEW a, IsSeq(a), NEW b, IsSeq(b), NEW x
  PROVE  /\ a \o Append(b, x) = Append(a \o b, x)
         /\ a \o <<x>> = Append(a, x)
         /\ a \o (<<x>> \o b) = Append(a, x) \o b
         /\ a \o <<>> = a
<1> DEFINE S == Elems(a) \cup Elems(b) \cup {x}
<1>1. a \in Seq(S) /\ b \in Seq(S) /\ x \in S
  BY DEF IsSeq
<1> HIDE DEF S
<1> QED BY <1>1

IsEnd(line) ==
  /\ line = CI!EndLine(line.status, line.case)
  /\ line.status \in {"PASS", "FAIL", "SKIP"}
  /\ line.case = CI!Case(line.case.name, line.case.dur) /\ line.case.dur \in Nat

\* lines that were held back, and what they say
Waiting(out) ==
  /\ IsSeq(out) /\ \A k \in DOMAIN out : IsEnd(out[k])
  /\ \A i, j \in DOMAIN out : out[i].case.name = out[j].case.name => i = j

RecOf(line, said) == RecordOf(line.status, line.case, said)
HeldBack(out, said) == {RecOf(out[k], said) : k \in DOMAIN out}

LEMMA FitsAll ==
  ASSUME NEW lines, IsSeq(lines), NEW B, NEW cut, NEW late, NEW said,
         Fits(CI!ParseTestOutput(lines), B, cut, late, said),
         NEW out, Waiting(out), \A x \in B, k \in DOMAIN out : x.name # out[k].case.name
  PROVE  Fits(CI!ParseTestOutput(lines \o out), B \cup HeldBack(out, said), cut, late, said)
<1> DEFINE Read(k) == CI!ParseTestOutput(lines \o SubSeq(out, 1, k))
           Upon(k) == B \cup {RecOf(out[j], said) : j \in 1..k}
           T == {k \in Nat : k <= Len(out) => Fits(Read(k), Upon(k), cut, late, said)}
<1>1. IsSeq(out) /\ Len(out) \in Nat /\ DOMAIN out = 1..Len(out)
  BY SeqIs DEF Waiting
<1>2. 0 \in T
  <2>1. SubSeq(out, 1, 0) = <<>>
    BY <1>1, SeqFront
  <2>2. lines \o <<>> = lines
    BY <1>1, JoinMore
  <2>3. Upon(0) = B
    OBVIOUS
  <2> HIDE DEF Upon
  <2>4. Read(0) = CI!ParseTestOutput(lines)
    BY <2>1, <2>2
  <2> HIDE DEF Read
  <2> QED BY <2>3, <2>4
<1>3. ASSUME NEW k \in Nat, k \in T PROVE k + 1 \in T
  <2> SUFFICES ASSUME k + 1 <= Len(out) PROVE Fits(Read(k + 1), Upon(k + 1), cut, late, said)
    OBVIOUS
  <2> DEFINE x == out[k + 1]
  <2>1. k \in 0..Len(out) /\ k < Len(out) /\ k + 1 \in DOMAIN out
    BY <1>1
  <2>2. Fits(Read(k), Upon(k), cut, late, said)
    BY <1>3, <2>1
  <2>3. Read(k + 1) = CI!ReadLine(Read(k), x)
    <3> DEFINE f == SubSeq(out, 1, k)
    <3>1. IsSeq(f) /\ SubSeq(out, 1, k + 1) = Append(f, x)
      BY <1>1, <2>1, SeqFront
    <3> HIDE DEF f, x
    <3>2. lines \o Append(f, x) = Append(lines \o f, x)
      BY <3>1, JoinMore
    <3>3. IsSeq(lines \o f)
      BY <3>1, SeqJoin
    <3>4. CI!ParseTestOutput(Append(lines \o f, x)) = CI!ReadLine(CI!ParseTestOutput(lines \o f), x)
      BY <3>3, ParseMore
    <3> QED BY <3>1, <3>2, <3>4 DEF f
  <2>4. /\ x = CI!EndLine(x.status, x.case) /\ x.status \in {"PASS", "FAIL", "SKIP"}
        /\ x.case = CI!Case(x.case.name, x.case.dur) /\ x.case.dur \in Nat
    BY <2>1 DEF Waiting, IsEnd
  <2>5. \A y \in Upon(k) : y.name # x.case.name
    <3>1. \A y \in B : y.name # x.case.name
      BY <2>1
    <3>2. \A j \in 1..k : RecOf(out[j], said).name # x.case.name
      <4> TAKE j \in 1..k
      <4>1. j \in DOMAIN out /\ j # k + 1
        BY <1>1, <2>1
      <4>2. RecOf(out[j], said).name = out[j].case.name
        BY DEF RecOf, RecordOf
      <4> QED BY <2>1, <4>1, <4>2 DEF Waiting
    <3> QED BY <3>1, <3>2
  <2>6. Upon(k + 1) = Upon(k) \cup {RecordOf(x.status, x.case, said)}
    <3>1. 1..(k + 1) = (1..k) \cup {k + 1}
      OBVIOUS
    <3> QED BY <3>1 DEF RecOf
  <2> HIDE DEF Upon, Read, x
  <2> DEFINE st == x.status
             c == x.case
  <2>7. /\ st \in {"PASS", "FAIL", "SKIP"} /\ c.dur \in Nat /\ c = CI!Case(c.name, c.dur)
        /\ \A y \in Upon(k) : y.name # c.name
        /\ x = CI!EndLine(st, c)
    BY <2>4, <2>5
  <2> HIDE DEF st, c
  <2>8. Fits(CI!ReadLine(Read(k), CI!EndLine(st, c)), Upon(k) \cup {RecordOf(st, c, said)}, cut, late, said)
    BY <2>2, <2>7, FitsEnd
  <2> QED BY <2>3, <2>6, <2>7, <2>8 DEF st, c
<1>4. Nat \subseteq T
  <2> HIDE DEF T
  <2> QED BY <1>2, <1>3, CountUp
<1>5. Fits(Read(Len(out)), Upon(Len(out)), cut, late, said)
  <2> HIDE DEF Read, Upon
  <2> QED BY <1>1, <1>4
<1>6. SubSeq(out, 1, Len(out)) = out
  BY <1>1, SeqFront
<1>7. Upon(Len(out)) = B \cup HeldBack(out, said)
  BY <1>1 DEF HeldBack
<1> QED BY <1>5, <1>6, <1>7

(***************************************************************************)
(* The result of one step.                                                 *)
(***************************************************************************)
Recorded(D) ==
  /\ IsFiniteSet(D) /\ \A c \in D : c.dur \in Nat /\ c.status \in CI!Statuses
  /\ \A c, d \in D : c.name = d.name => c = d

StepSound(r) ==
  LET p == CI!ParseTestOutput(r.log) IN
    /\ ~r.group /\ r.status \in {"PASS", "FAIL"}
    /\ Recorded(r.real.ended)
    /\ Fits(p, r.real.ended, r.real.cut, r.real.late, r.real.said)
    /\ r.PASS = p.PASS /\ r.SKIP = p.SKIP /\ r.DEFERRED = p.DEFERRED /\ r.timed = p.timed
    /\ IsSeq(r.FAIL)
    /\ p.FAIL # <<>> => r.FAIL = p.FAIL
    /\ p.FAIL = <<>> => \A i \in DOMAIN r.FAIL : r.FAIL[i].dur = CI!Untimed
    /\ r.status = "FAIL" /\ r.logged => r.FAIL # <<>>
    /\ r.status = "PASS" => r.FAIL = <<>> /\ \A c \in r.real.ended : c.status # "FAIL"

\* the names a failed step falls back to
LEMMA UntimedsAre ==
  ASSUME NEW names, IsSeq(names)
  PROVE  /\ IsSeq(CI!Untimeds(names)) /\ Len(CI!Untimeds(names)) = Len(names)
         /\ \A i \in DOMAIN CI!Untimeds(names) : CI!Untimeds(names)[i].dur = CI!Untimed
         /\ names # <<>> => CI!Untimeds(names) # <<>>
<1>1. Len(names) \in Nat /\ DOMAIN names = 1..Len(names) /\ (names = <<>> <=> Len(names) = 0)
  BY SeqIs
<1>2. CI!Untimeds(names) = [i \in 1..Len(names) |-> CI!Case(names[i], CI!Untimed)]
  BY <1>1 DEF CI!Untimeds
<1>3. DOMAIN CI!Untimeds(names) = 1..Len(names)
  BY <1>2
<1>4. CI!Untimeds(names) = [i \in 1..Len(names) |-> CI!Untimeds(names)[i]]
  BY <1>2
<1>5. \A i \in 1..Len(names) : CI!Untimeds(names)[i].dur = CI!Untimed
  BY <1>2 DEF CI!Case
<1> QED BY <1>1, <1>3, <1>4, <1>5, SeqMade

Attributed(status, fail, f) ==
  /\ status # "FAIL" \/ fail # <<>> => f = fail
  /\ status = "FAIL" => f # <<>>
  /\ status = "FAIL" /\ fail = <<>> => IsSeq(f) /\ \A i \in DOMAIN f : f[i].dur = CI!Untimed

LEMMA AttributedIs ==
  ASSUME NEW status, NEW fail, NEW named, IsSeq(named), NEW pattern, NEW fallback
  PROVE  Attributed(status, fail,
           CI!AttributeImplicitFailures(status, fail, named, pattern, fallback))
<1> DEFINE names == IF pattern # "" THEN <<pattern>> ELSE IF named # <<>> THEN named ELSE <<fallback>>
           f == CI!AttributeImplicitFailures(status, fail, named, pattern, fallback)
<1>1. IsSeq(names) /\ names # <<>>
  BY SeqOne
<1>2. f = IF status # "FAIL" \/ fail # <<>> THEN fail ELSE CI!Untimeds(names)
  BY DEF CI!AttributeImplicitFailures
<1> HIDE DEF names, f
<1>3. /\ IsSeq(CI!Untimeds(names)) /\ CI!Untimeds(names) # <<>>
      /\ \A i \in DOMAIN CI!Untimeds(names) : CI!Untimeds(names)[i].dur = CI!Untimed
  BY <1>1, UntimedsAre
<1>4. Attributed(status, fail, f)
  BY <1>2, <1>3 DEF Attributed
<1> QED BY <1>4 DEF f

LEMMA MadeSound ==
  ASSUME NEW item, IsItem(item), NEW status \in {"PASS", "FAIL"}, NEW lines, NEW truth,
         Recorded(truth.ended),
         Fits(CI!ParseTestOutput(lines), truth.ended, truth.cut, truth.late, truth.said),
         status = "PASS" => \A c \in truth.ended : c.status # "FAIL"
  PROVE  StepSound(CI!StepResult(item, status, lines, truth))
<1> DEFINE r == CI!StepResult(item, status, lines, truth)
           p == CI!ParseTestOutput(lines)
<1>1. /\ r.group = FALSE /\ r.status = status /\ r.log = lines /\ r.real = truth
      /\ r.PASS = p.PASS /\ r.SKIP = p.SKIP /\ r.DEFERRED = p.DEFERRED /\ r.timed = p.timed
      /\ r.FAIL = CI!AttributeImplicitFailures(status, p.FAIL, item.given, item.pattern, item.name)
  BY DEF CI!StepResult
<1> HIDE DEF r, p
<1>2. PICK R \in SUBSET truth.ended : Reveals(p, R)
  BY DEF Fits, p
<1>3. IsSeq(p.FAIL) /\ Elems(p.FAIL) = CasesOf(R, "FAIL")
  BY <1>2 DEF Reveals, CI!Statuses, Distinct
<1>4. status = "PASS" => p.FAIL = <<>>
  <2>1. status = "PASS" => CasesOf(R, "FAIL") = {}
    BY DEF CasesOf
  <2> QED BY <1>3, <2>1, SeqIs
<1>5. IsSeq(item.given)
  BY SeqTyped DEF IsItem
<1>6. /\ status # "FAIL" \/ p.FAIL # <<>> => r.FAIL = p.FAIL
      /\ status = "FAIL" => r.FAIL # <<>>
      /\ status = "FAIL" /\ p.FAIL = <<>> =>
           IsSeq(r.FAIL) /\ \A i \in DOMAIN r.FAIL : r.FAIL[i].dur = CI!Untimed
  <2>1. Attributed(status, p.FAIL, r.FAIL)
    BY <1>1, <1>5, AttributedIs
  <2> QED BY <2>1 DEF Attributed
<1>7. IsSeq(r.FAIL) /\ (p.FAIL = <<>> => \A i \in DOMAIN r.FAIL : r.FAIL[i].dur = CI!Untimed)
  BY <1>3, <1>6, SeqEmpty
<1>8. status = "PASS" => r.FAIL = <<>>
  BY <1>4, <1>6
<1> QED BY <1>1, <1>6, <1>7, <1>8 DEF StepSound, r, p

LEMMA UnloggedSound ==
  ASSUME NEW item
  PROVE  StepSound([CI!StepResult(item, "FAIL", <<>>, CI!Nothing) EXCEPT
                      !.logged = FALSE, !.FAIL = <<>>])
<1> DEFINE r == [CI!StepResult(item, "FAIL", <<>>, CI!Nothing) EXCEPT !.logged = FALSE, !.FAIL = <<>>]
           p == CI!ParseTestOutput(<<>>)
<1>1. /\ r.group = FALSE /\ r.status = "FAIL" /\ r.log = <<>> /\ r.real = CI!Nothing
      /\ r.PASS = p.PASS /\ r.SKIP = p.SKIP /\ r.DEFERRED = p.DEFERRED /\ r.timed = p.timed
      /\ r.FAIL = <<>> /\ r.logged = FALSE
  BY DEF CI!StepResult
<1> HIDE DEF r
<1>2. p = CI!Blank
  BY ParseNone
<1>3. Recorded({})
  BY FS_EmptySet DEF Recorded
<1>4. p.FAIL = <<>>
  BY <1>2 DEF CI!Blank
<1> HIDE DEF p
<1>5. Fits(p, {}, FALSE, FALSE, {})
  BY <1>2, BlankFits
<1>6. r.real.ended = {} /\ r.real.cut = FALSE /\ r.real.late = FALSE /\ r.real.said = {}
  BY <1>1 DEF CI!Nothing
<1>7. p = CI!ParseTestOutput(r.log)
  BY <1>1 DEF p
<1>8. StepSound(r)
  BY <1>1, <1>3, <1>4, <1>5, <1>6, <1>7, SeqEmpty DEF StepSound
<1> QED BY <1>8 DEF r

LEMMA SetIsElems ==
  ASSUME NEW s
  PROVE  CI!ToSet(s) = Elems(s)
BY DEF CI!ToSet, Elems

CasesTrue(r) ==
  /\ \A s \in {"PASS", "FAIL"} :
       CI!Named(r, s) \subseteq CI!Truly(r, s) /\ (~r.real.cut => CI!Named(r, s) = CI!Truly(r, s))
  /\ LET left == CI!Named(r, "SKIP") \cup CI!Named(r, "DEFERRED")
         truly == CI!Truly(r, "SKIP") \cup CI!Truly(r, "DEFERRED")
     IN  left \subseteq truly /\ (~r.real.cut => left = truly)
  /\ ~r.real.cut /\ ~r.real.late => CI!Named(r, "DEFERRED") = CI!Truly(r, "DEFERRED")

\* what was read of the tests that ended
LEMMA SoundRead ==
  ASSUME NEW r, StepSound(r)
  PROVE  LET p == CI!ParseTestOutput(r.log) IN
         \E R \in SUBSET r.real.ended :
           /\ ~r.real.cut => R = r.real.ended
           /\ Reveals(p, R)
           /\ ~r.real.cut /\ ~r.real.late => Told(p, R)
           /\ \A s \in CI!Statuses : \A c \in Elems(p[s]) : c.dur \in Nat
<1> DEFINE p == CI!ParseTestOutput(r.log)
<1>1. p.cut \in BOOLEAN /\ (p.cut => r.real.cut)
  BY DEF StepSound, Fits
<1>2. PICK R \in SUBSET r.real.ended : /\ r.real.cut \/ R = r.real.ended
                                       /\ Reveals(p, R)
                                       /\ ~p.cut /\ ~r.real.late => Told(p, R)
  BY DEF StepSound, Fits
<1>3. \A s \in CI!Statuses : \A c \in Elems(p[s]) : c.dur \in Nat
  <2> HIDE DEF p
  <2> TAKE s \in CI!Statuses
  <2> TAKE c \in Elems(p[s])
  <2>1. \E q \in CI!Statuses : c \in CasesOf(R, q)
    BY <1>2 DEF Reveals, CI!Statuses
  <2>2. PICK x \in R : c = CI!Case(x.name, x.dur)
    BY <2>1 DEF CasesOf
  <2>3. x.dur \in Nat
    BY <1>2 DEF StepSound, Recorded
  <2> QED BY <2>2, <2>3 DEF CI!Case
<1> HIDE DEF p
<1>4. R \in SUBSET r.real.ended /\ (~r.real.cut => R = r.real.ended)
  BY <1>1, <1>2
<1>5. ~r.real.cut /\ ~r.real.late => Told(p, R)
  BY <1>1, <1>2
<1> QED BY <1>2, <1>3, <1>4, <1>5 DEF p

LEMMA SoundNamed ==
  ASSUME NEW r, StepSound(r), NEW s \in CI!Statuses
  PROVE  CI!Named(r, s) = Elems(CI!ParseTestOutput(r.log)[s])
<1> DEFINE p == CI!ParseTestOutput(r.log)
<1>1. \A c \in Elems(p[s]) : c.dur # CI!Untimed
  BY SoundRead DEF CI!Untimed
<1>2. \A l : CI!ToSet(l) = Elems(l)
  BY SetIsElems
<1>3. /\ s # "FAIL" => r[s] = p[s]
      /\ p.FAIL # <<>> => r.FAIL = p.FAIL
      /\ p.FAIL = <<>> => \A i \in DOMAIN r.FAIL : r.FAIL[i].dur = CI!Untimed
  BY DEF StepSound, CI!Statuses
<1> HIDE DEF p
<1>4. CI!Named(r, s) = {c \in Elems(r[s]) : c.dur # CI!Untimed}
  BY <1>2 DEF CI!Named
<1>5. CASE s # "FAIL" \/ p.FAIL # <<>>
  <2>1. r[s] = p[s]
    BY <1>3, <1>5
  <2> QED BY <1>1, <1>4, <2>1 DEF p
<1>6. CASE s = "FAIL" /\ p.FAIL = <<>>
  <2>1. \A c \in Elems(r.FAIL) : c.dur = CI!Untimed
    BY <1>3, <1>6 DEF Elems
  <2>2. Elems(p[s]) = {}
    BY <1>6, SeqEmpty
  <2>3. CI!Named(r, s) = {}
    BY <1>4, <1>6, <2>1
  <2> QED BY <2>2, <2>3 DEF p
<1> QED BY <1>5, <1>6

LEMMA SoundCases ==
  ASSUME NEW r, StepSound(r)
  PROVE  CasesTrue(r)
<1> DEFINE p == CI!ParseTestOutput(r.log)
<1>1. PICK R \in SUBSET r.real.ended :
        /\ ~r.real.cut => R = r.real.ended
        /\ Reveals(p, R)
        /\ ~r.real.cut /\ ~r.real.late => Told(p, R)
  BY SoundRead
<1>2. \A s \in CI!Statuses : CI!Named(r, s) = Elems(p[s])
  BY SoundNamed
<1> HIDE DEF p
<1>3. \A s \in CI!Statuses :
        /\ CasesOf(R, s) \subseteq CI!Truly(r, s)
        /\ ~r.real.cut => CasesOf(R, s) = CI!Truly(r, s)
  BY <1>1 DEF CasesOf, CI!Truly
<1>4. /\ Elems(p["PASS"]) = CasesOf(R, "PASS") /\ Elems(p["FAIL"]) = CasesOf(R, "FAIL")
      /\ Elems(p["SKIP"]) \cup Elems(p["DEFERRED"]) = CasesOf(R, "SKIP") \cup CasesOf(R, "DEFERRED")
      /\ ~r.real.cut /\ ~r.real.late => Elems(p["DEFERRED"]) = CasesOf(R, "DEFERRED")
  BY <1>1 DEF Reveals, Told
<1>5. {"PASS", "FAIL", "SKIP", "DEFERRED"} = CI!Statuses
  BY DEF CI!Statuses
<1> QED BY <1>2, <1>3, <1>4, <1>5 DEF CasesTrue

\* a list of distinct names is as long as the set it shows
LEMMA CountedOnce ==
  ASSUME NEW l, Distinct(l), NEW D, IsFiniteSet(D), \A c, d \in D : c.name = d.name => c = d,
         Elems(l) = {CI!Case(c.name, c.dur) : c \in D}
  PROVE  Len(l) = Cardinality(D)
<1> DEFINE n == Len(l)
           f == [i \in 1..n |-> CHOOSE c \in D : CI!Case(c.name, c.dur) = l[i]]
<1>1. n \in Nat /\ DOMAIN l = 1..n /\ Elems(l) = {l[i] : i \in 1..n}
  BY SeqIs DEF Distinct
<1>2. \A i \in 1..n : f[i] \in D /\ CI!Case(f[i].name, f[i].dur) = l[i]
  BY <1>1
<1> HIDE DEF f
<1>3. \A i \in 1..n : f[i].name = l[i].name
  <2> TAKE i \in 1..n
  <2>1. l[i] = [name |-> f[i].name, dur |-> f[i].dur]
    BY <1>2 DEF CI!Case
  <2> QED BY <2>1
<1>4. \A i, j \in 1..n : f[i] = f[j] => i = j
  BY <1>1, <1>3 DEF Distinct
<1>5. \A c \in D : \E i \in 1..n : f[i] = c
  <2> TAKE c \in D
  <2>1. PICK i \in 1..n : l[i] = CI!Case(c.name, c.dur)
    BY <1>1
  <2>2. f[i].name = c.name
    BY <1>3, <2>1 DEF CI!Case
  <2> QED BY <1>2, <2>2
<1>6. f \in [1..n -> D]
  BY <1>2 DEF f
<1>7. f \in Bijection(1..n, D)
  BY <1>4, <1>5, <1>6 DEF Bijection, Injection, Surjection, IsInjective
<1>8. ExistsBijection(1..n, D)
  BY <1>7 DEF ExistsBijection
<1>9. IsFiniteSet(1..n) /\ Cardinality(1..n) = n
  BY <1>1, FS_Interval
<1> QED BY <1>8, <1>9, FS_Bijection

LEMMA SoundSkips ==
  ASSUME NEW r, StepSound(r), ~r.real.cut, ~r.real.late
  PROVE  Len(r.SKIP) = Cardinality({c \in r.real.ended : c.status = "SKIP"})
<1> DEFINE D == {c \in r.real.ended : c.status = "SKIP"}
<1>1. Distinct(r.SKIP) /\ Elems(r.SKIP) = CasesOf(r.real.ended, "SKIP")
  BY SoundRead DEF Reveals, Told, StepSound, CI!Statuses
<1>2. IsFiniteSet(r.real.ended) /\ \A c, d \in r.real.ended : c.name = d.name => c = d
  BY DEF StepSound, Recorded
<1>3. IsFiniteSet(D)
  BY <1>2, FS_Subset
<1>4. Elems(r.SKIP) = {CI!Case(c.name, c.dur) : c \in D}
  BY <1>1 DEF CasesOf
<1> HIDE DEF D
<1>5. \A c, d \in D : c.name = d.name => c = d
  BY <1>2 DEF D
<1> QED BY <1>1, <1>3, <1>4, <1>5, CountedOnce DEF D

LEMMA SoundTimes ==
  ASSUME NEW r, StepSound(r)
  PROVE  /\ IsSeq(r.timed)
         /\ \A i \in DOMAIN r.timed : r.timed[i].dur \in Nat
         /\ ~r.real.cut => {r.timed[i].dur : i \in DOMAIN r.timed} = {c.dur : c \in r.real.ended}
<1> DEFINE p == CI!ParseTestOutput(r.log)
<1>0. PICK R \in SUBSET r.real.ended : (~r.real.cut => R = r.real.ended) /\ Reveals(p, R)
  BY SoundRead
<1>1. /\ ~r.real.cut => R = r.real.ended
      /\ IsSeq(r.timed) /\ {r.timed[i].dur : i \in DOMAIN r.timed} = {c.dur : c \in R}
  <2>1. r.timed = p.timed
    BY DEF StepSound
  <2> HIDE DEF p
  <2> QED BY <1>0, <2>1 DEF Reveals
<1>2. \A c \in R : c.dur \in Nat
  BY <1>0 DEF StepSound, Recorded
<1> QED BY <1>1, <1>2
(***************************************************************************)
(* The runs inside a group, and what the group step takes from them.       *)
(***************************************************************************)
RunSound(run) ==
  /\ IsSeq(run.results) /\ \A j \in DOMAIN run.results : StepSound(run.results[j])
  /\ run.exit \in {0, 1}
  /\ run.exit = 0 => run.announced /\ \A j \in DOMAIN run.results : run.results[j].status = "PASS"
  /\ run.summary.given = <<>> /\ run.gone \in BOOLEAN
  /\ run.summary.steps = [j \in DOMAIN run.results |->
       [name |-> run.results[j].name, status |-> run.results[j].status,
        log |-> run.results[j].log, count |-> CI!Count(run.results[j])]]

CountIn(one, s) ==
  IF s = "FAIL" /\ one.status = "FAIL" /\ one.count[s] = 0 THEN 1 ELSE one.count[s]

LEMMA PadIs ==
  ASSUME NEW items, IsSeq(items), NEW want \in Nat, NEW bases
  PROVE  /\ IsSeq(CI!PadCaseList(items, want, bases))
         /\ Len(CI!PadCaseList(items, want, bases)) = IF want <= Len(items) THEN Len(items) ELSE want
         /\ items = <<>> /\ want = 0 => CI!PadCaseList(items, want, bases) = <<>>
<1>1. Len(items) \in Nat
  BY SeqIs
<1>2. CASE want <= Len(items)
  BY <1>1, <1>2 DEF CI!PadCaseList
<1>3. CASE ~(want <= Len(items))
  <2> DEFINE k == want - Len(items)
             more == [i \in 1..k |-> CI!Case(bases[((i - 1) % Len(bases)) + 1], CI!Untimed)]
  <2>1. k \in Nat
    BY <1>1, <1>3
  <2>2. CI!PadCaseList(items, want, bases) = items \o more
    BY <1>3 DEF CI!PadCaseList
  <2>3. DOMAIN more = 1..k /\ more = [i \in 1..k |-> more[i]]
    OBVIOUS
  <2> HIDE DEF more
  <2>4. IsSeq(more) /\ Len(more) = k
    <3> HIDE DEF k
    <3> QED BY <2>1, <2>3, SeqMade
  <2>5. IsSeq(items \o more) /\ Len(items \o more) = Len(items) + Len(more)
    BY <2>4, SeqJoin
  <2>6. ~(items = <<>> /\ want = 0)
    BY <1>3
  <2> QED BY <1>1, <1>3, <2>2, <2>4, <2>5, <2>6
<1> QED BY <1>2, <1>3

LEMMA AttributedOne ==
  ASSUME NEW status, NEW fail, NEW pattern, NEW fallback
  PROVE  LET f == CI!AttributeImplicitFailures(status, fail, <<>>, pattern, fallback) IN
         IF status = "FAIL" /\ fail = <<>> THEN IsSeq(f) /\ Len(f) = 1 ELSE f = fail
<1> DEFINE names == IF pattern # "" THEN <<pattern>> ELSE <<fallback>>
           f == CI!AttributeImplicitFailures(status, fail, <<>>, pattern, fallback)
<1>1. IsSeq(names) /\ Len(names) = 1
  BY SeqOne
<1>2. f = IF status # "FAIL" \/ fail # <<>> THEN fail ELSE CI!Untimeds(names)
  BY DEF CI!AttributeImplicitFailures
<1> HIDE DEF names, f
<1>3. IsSeq(CI!Untimeds(names)) /\ Len(CI!Untimeds(names)) = 1
  BY <1>1, UntimedsAre
<1> QED BY <1>2, <1>3 DEF f

\* the cases of a step are as many as the summary counted, also without its log
LEMMA NestedCases ==
  ASSUME NEW run, RunSound(run), NEW j \in DOMAIN run.results, NEW gone \in BOOLEAN,
         NEW s \in CI!Statuses
  PROVE  LET one == run.summary.steps[j]
             l == CI!CasesFromStep(run.summary, one, gone)[s]
         IN  /\ IsSeq(l) /\ Len(l) = CountIn(one, s) /\ CountIn(one, s) \in Nat
             /\ one.count[s] = Len(run.results[j][s])
             /\ one.status = run.results[j].status
<1> DEFINE one == run.summary.steps[j]
           r == run.results[j]
           p == CI!ParseTestOutput(IF gone THEN <<>> ELSE one.log)
           sum == run.summary
           attr == CI!AttributeImplicitFailures(one.status, p.FAIL, sum.given, sum.pattern, one.name)
           part == IF s = "FAIL" THEN attr ELSE p[s]
           l == CI!CasesFromStep(sum, one, gone)[s]
<1>1. /\ one.status = r.status /\ one.log = r.log /\ one.count = CI!Count(r)
      /\ sum.given = <<>> /\ StepSound(r)
  BY DEF RunSound
<1>2. one.count[s] = Len(r[s])
  BY <1>1 DEF CI!Count
<1>3. Shaped(p)
  <2>1. Shaped(CI!ParseTestOutput(r.log))
    BY <1>1 DEF StepSound, Fits
  <2>2. Shaped(CI!ParseTestOutput(<<>>))
    BY ParseNone, BlankFits DEF Fits
  <2> QED BY <1>1, <2>1, <2>2
<1>4. l = CI!PadCaseList(part, one.count[s], CI!FallbackBases(sum, one))
  <2> DEFINE found == [p EXCEPT !.FAIL = attr]
  <2>1. s \in CI!Statuses \cup {"timed"} /\ s # "timed"
    BY DEF CI!Statuses
  <2>2. l = CI!PadCaseList(found[s], one.count[s], CI!FallbackBases(sum, one))
    <3> HIDE DEF one, sum
    <3> QED BY <2>1 DEF CI!CasesFromStep
  <2> HIDE DEF attr, p
  <2>3. found[s] = part
    BY <1>3 DEF Shaped, Fields, CI!Statuses
  <2> QED BY <2>2, <2>3
<1>5. /\ IsSeq(p[s]) /\ IsSeq(r[s])
      /\ s # "FAIL" => (IF gone THEN p[s] = <<>> ELSE p[s] = r[s])
      /\ s = "FAIL" => (gone => p[s] = <<>>) /\ (p[s] # <<>> => p[s] = r[s])
  <2> DEFINE o == CI!ParseTestOutput(r.log)
  <2>1. /\ s # "FAIL" => r[s] = o[s]
        /\ IsSeq(r.FAIL)
        /\ o.FAIL # <<>> => r.FAIL = o.FAIL
    BY <1>1 DEF StepSound, CI!Statuses
  <2>2. IsSeq(o[s])
    BY <1>1, SoundRead DEF Reveals, Distinct
  <2>3. gone => p[s] = <<>>
    BY ParseNone DEF CI!Blank, CI!Statuses
  <2>4. ~gone => p = o
    BY <1>1
  <2> HIDE DEF p, o, r
  <2> QED BY <2>1, <2>2, <2>3, <2>4, SeqEmpty
<1>6. /\ r.status \in {"PASS", "FAIL"}
      /\ r.status = "PASS" => r.FAIL = <<>>
  BY <1>1 DEF StepSound
<1>7. IF one.status = "FAIL" /\ p.FAIL = <<>> THEN IsSeq(attr) /\ Len(attr) = 1 ELSE attr = p.FAIL
  BY <1>1, AttributedOne
<1> HIDE DEF one, r, p, attr, sum, l
<1>8. Len(r[s]) \in Nat /\ Len(p[s]) \in Nat /\ (r[s] = <<>> <=> Len(r[s]) = 0)
      /\ (p[s] = <<>> <=> Len(p[s]) = 0)
  BY <1>5, SeqIs
<1>9. IsSeq(part)
  BY <1>5, <1>7
<1>10. IsSeq(l) /\ Len(l) = IF Len(r[s]) <= Len(part) THEN Len(part) ELSE Len(r[s])
  BY <1>2, <1>4, <1>8, <1>9, PadIs
<1>11. Len(l) = CountIn(one, s) /\ CountIn(one, s) \in Nat
  <2>1. CASE s # "FAIL"
    BY <1>2, <1>5, <1>8, <1>10, <2>1 DEF CountIn
  <2>2. CASE s = "FAIL" /\ one.status = "FAIL"
    <3>1. part = attr /\ p.FAIL = p[s] /\ r.FAIL = r[s]
      BY <2>2
    <3> HIDE DEF part
    <3>2. CASE p[s] = <<>>
      <4>1. Len(part) = 1
        BY <1>7, <2>2, <3>1, <3>2
      <4>2. CountIn(one, s) = IF Len(r[s]) = 0 THEN 1 ELSE Len(r[s])
        BY <1>2, <2>2 DEF CountIn
      <4> QED BY <1>8, <1>10, <4>1, <4>2
    <3>3. CASE p[s] # <<>>
      BY <1>2, <1>5, <1>7, <1>8, <1>10, <2>2, <3>1, <3>3 DEF CountIn
    <3> QED BY <3>2, <3>3
  <2>3. CASE s = "FAIL" /\ one.status # "FAIL"
    BY <1>1, <1>2, <1>5, <1>6, <1>7, <1>8, <1>10, <2>3 DEF CountIn
  <2> QED BY <2>1, <2>2, <2>3
<1> QED BY <1>1, <1>2, <1>10, <1>11 DEF l, one, sum, r

LEMMA NestedTimes ==
  ASSUME NEW run, RunSound(run), NEW j \in DOMAIN run.results
  PROVE  CI!CasesFromStep(run.summary, run.summary.steps[j], FALSE)["timed"] = run.results[j].timed
<1>1. run.summary.steps[j].log = run.results[j].log
  BY DEF RunSound
<1>2. CI!ParseTestOutput(run.results[j].log).timed = run.results[j].timed
  BY DEF RunSound, StepSound
<1> QED BY <1>1, <1>2 DEF CI!CasesFromStep

LEMMA FlattenSeqs ==
  ASSUME NEW ss, IsSeq(ss), \A i \in DOMAIN ss : IsSeq(ss[i])
  PROVE  /\ IsSeq(CI!FlattenSeq(ss))
         /\ Elems(CI!FlattenSeq(ss)) = UNION {Elems(ss[i]) : i \in DOMAIN ss}
         /\ Len(CI!FlattenSeq(ss)) = CI!AddUp(Sizes(ss))
         /\ ss # <<>> /\ ss[1] # <<>> =>
              CI!FlattenSeq(ss) # <<>> /\ CI!FlattenSeq(ss)[1] = ss[1][1]
<1> DEFINE X == UNION {Elems(ss[i]) : i \in DOMAIN ss}
<1>1. Len(ss) \in Nat /\ DOMAIN ss = 1..Len(ss)
  BY SeqIs
<1>2. \A i \in DOMAIN ss : ss[i] \in Seq(X)
  <2> TAKE i \in DOMAIN ss
  <2>1. Elems(ss[i]) \subseteq X
    OBVIOUS
  <2> HIDE DEF X
  <2> QED BY <2>1 DEF IsSeq
<1>3. ss \in Seq(Seq(X))
  <2> HIDE DEF X
  <2>1. Elems(ss) \subseteq Seq(X)
    BY <1>2 DEF Elems
  <2> QED BY <2>1 DEF IsSeq
<1>4. Flattened(X, ss)
  <2> HIDE DEF X
  <2> QED BY <1>3, FlattenIs
<1>5. IsSeq(CI!FlattenSeq(ss))
  <2> HIDE DEF X
  <2> QED BY <1>4, SeqTyped DEF Flattened
<1> QED BY <1>4, <1>5 DEF Flattened

RunsSound(within) == IsSeq(within) /\ \A i \in DOMAIN within : RunSound(within[i])

Shown(within) == \A i \in DOMAIN within : within[i].announced /\ within[i].readable /\ ~within[i].noisy

Inner(within, i, s) ==
  [j \in DOMAIN within[i].summary.steps |->
     CI!CasesFromStep(within[i].summary, within[i].summary.steps[j], within[i].gone)[s]]
PerRun(within, s) ==
  [i \in DOMAIN within |->
     IF i \in CI!ExtractSummaryPaths(within) /\ within[i].readable THEN CI!FlattenSeq(Inner(within, i, s))
     ELSE <<>>]

LEMMA NestedIs ==
  ASSUME NEW within, NEW s
  PROVE  CI!CollectNestedSummaryCases(within, s) = CI!FlattenSeq(PerRun(within, s))
BY DEF CI!CollectNestedSummaryCases, PerRun, Inner

LEMMA StepsAre ==
  ASSUME NEW run, RunSound(run)
  PROVE  /\ IsSeq(run.summary.steps) /\ DOMAIN run.summary.steps = DOMAIN run.results
         /\ DOMAIN run.results = 1..Len(run.results) /\ Len(run.results) \in Nat
<1>1. Len(run.results) \in Nat /\ DOMAIN run.results = 1..Len(run.results)
  BY SeqIs DEF RunSound
<1> DEFINE n == Len(run.results)
           steps == run.summary.steps
<1>2. n \in Nat /\ DOMAIN steps = 1..n /\ steps = [j \in 1..n |-> steps[j]]
  BY <1>1 DEF RunSound
<1> HIDE DEF steps
<1>3. IsSeq(steps)
  <2> HIDE DEF n
  <2> QED BY <1>1, <1>2, SeqMade
<1> QED BY <1>1, <1>2, <1>3 DEF steps

LEMMA InnerIs ==
  ASSUME NEW within, RunsSound(within), NEW i \in DOMAIN within, NEW s \in CI!Statuses
  PROVE  /\ IsSeq(Inner(within, i, s)) /\ \A j \in DOMAIN Inner(within, i, s) : IsSeq(Inner(within, i, s)[j])
         /\ Sizes(Inner(within, i, s))
            = [j \in DOMAIN within[i].summary.steps |-> CountIn(within[i].summary.steps[j], s)]
         /\ DOMAIN Inner(within, i, s) = DOMAIN within[i].results
<1> DEFINE run == within[i]
           l == Inner(within, i, s)
           n == Len(run.results)
<1>1. RunSound(run)
  BY DEF RunsSound
<1>2. DOMAIN run.summary.steps = 1..n /\ DOMAIN run.results = 1..n /\ n \in Nat
  BY <1>1, StepsAre
<1>3. l = [j \in 1..n |-> CI!CasesFromStep(run.summary, run.summary.steps[j], run.gone)[s]]
  BY <1>2 DEF Inner
<1>4. \A j \in 1..n : IsSeq(l[j]) /\ Len(l[j]) = CountIn(run.summary.steps[j], s)
  <2> TAKE j \in 1..n
  <2>1. j \in DOMAIN run.results /\ run.gone \in BOOLEAN
    BY <1>1, <1>2 DEF RunSound
  <2> DEFINE one == run.summary.steps[j]
             cases == CI!CasesFromStep(run.summary, one, run.gone)[s]
  <2>2. IsSeq(cases) /\ Len(cases) = CountIn(one, s)
    BY <1>1, <2>1, NestedCases
  <2>3. l[j] = cases
    BY <1>3
  <2> HIDE DEF cases, one, l
  <2> QED BY <2>2, <2>3 DEF one
<1>5. DOMAIN l = 1..n /\ l = [j \in 1..n |-> l[j]]
  BY <1>3
<1> HIDE DEF l
<1>6. IsSeq(l)
  <2> HIDE DEF n
  <2> QED BY <1>2, <1>5, SeqMade
<1>7. Sizes(l) = [j \in 1..n |-> CountIn(run.summary.steps[j], s)]
  BY <1>4, <1>5 DEF Sizes
<1> QED BY <1>2, <1>4, <1>5, <1>6, <1>7 DEF l

LEMMA PerRunIs ==
  ASSUME NEW within, RunsSound(within), NEW s \in CI!Statuses
  PROVE  IsSeq(PerRun(within, s)) /\ \A i \in DOMAIN PerRun(within, s) : IsSeq(PerRun(within, s)[i])
<1> DEFINE l == PerRun(within, s)
           n == Len(within)
<1>1. DOMAIN within = 1..n /\ n \in Nat
  BY SeqIs DEF RunsSound
<1>2. DOMAIN l = 1..n /\ l = [i \in 1..n |-> l[i]]
  BY <1>1 DEF PerRun
<1>3. \A i \in 1..n : IsSeq(l[i])
  <2> TAKE i \in 1..n
  <2>1. IsSeq(CI!FlattenSeq(Inner(within, i, s)))
    BY <1>1, InnerIs, FlattenSeqs
  <2>2. l[i] = CI!FlattenSeq(Inner(within, i, s)) \/ l[i] = <<>>
    BY <1>1 DEF PerRun
  <2> QED BY <2>1, <2>2, SeqEmpty
<1> HIDE DEF l
<1>4. IsSeq(l)
  <2> HIDE DEF n
  <2> QED BY <1>1, <1>2, SeqMade
<1> QED BY <1>2, <1>3, <1>4 DEF l

\* the summaries of an exact group name no failed case
LEMMA NestedNoneFailed ==
  ASSUME NEW within, RunsSound(within), \A i \in DOMAIN within : within[i].exit = 0
  PROVE  CI!CollectNestedSummaryCases(within, "FAIL") = <<>>
<1>1. "FAIL" \in CI!Statuses
  BY DEF CI!Statuses
<1> DEFINE l == PerRun(within, "FAIL")
<1>2. IsSeq(l) /\ \A i \in DOMAIN l : IsSeq(l[i])
  BY <1>1, PerRunIs
<1>3. DOMAIN l = DOMAIN within
  BY DEF PerRun
<1>4. ASSUME NEW i \in DOMAIN l PROVE Elems(l[i]) = {}
  <2> DEFINE part == Inner(within, i, "FAIL")
             run == within[i]
  <2>1. i \in DOMAIN within /\ RunSound(run) /\ run.exit = 0
    BY <1>3 DEF RunsSound
  <2>2. /\ IsSeq(part) /\ \A j \in DOMAIN part : IsSeq(part[j])
        /\ DOMAIN part = DOMAIN run.results
    BY <1>1, <2>1, InnerIs
  <2>3. ASSUME NEW j \in DOMAIN part PROVE Elems(part[j]) = {}
    <3>1. j \in DOMAIN run.results /\ run.gone \in BOOLEAN /\ DOMAIN run.summary.steps = DOMAIN run.results
      BY <2>1, <2>2, StepsAre DEF RunSound
    <3>2. run.results[j].status = "PASS" /\ run.results[j].FAIL = <<>>
      BY <2>1, <3>1 DEF RunSound, StepSound
    <3> DEFINE one == run.summary.steps[j]
    <3>3. /\ Len(CI!CasesFromStep(run.summary, one, run.gone)["FAIL"]) = CountIn(one, "FAIL")
          /\ one.count["FAIL"] = Len(run.results[j]["FAIL"]) /\ one.status = run.results[j].status
      BY <1>1, <2>1, <3>1, NestedCases
    <3>4. CountIn(one, "FAIL") = 0
      BY <3>2, <3>3 DEF CountIn
    <3>5. part[j] = CI!CasesFromStep(run.summary, one, run.gone)["FAIL"]
      BY <3>1 DEF Inner
    <3>6. IsSeq(part[j]) /\ Len(part[j]) = 0
      BY <2>2, <3>3, <3>4, <3>5
    <3> HIDE DEF part
    <3> QED BY <3>6, SeqIs
  <2> HIDE DEF part
  <2>4. Elems(CI!FlattenSeq(part)) = {}
    <3>1. Elems(CI!FlattenSeq(part)) = UNION {Elems(part[j]) : j \in DOMAIN part}
      BY <2>2, FlattenSeqs
    <3> QED BY <2>3, <3>1
  <2>5. l[i] = CI!FlattenSeq(part) \/ l[i] = <<>>
    BY <2>1 DEF PerRun, part
  <2> QED BY <2>4, <2>5, SeqEmpty
<1> HIDE DEF l
<1>5. IsSeq(CI!FlattenSeq(l)) /\ Elems(CI!FlattenSeq(l)) = {}
  <2>1. /\ IsSeq(CI!FlattenSeq(l))
        /\ Elems(CI!FlattenSeq(l)) = UNION {Elems(l[i]) : i \in DOMAIN l}
    BY <1>2, FlattenSeqs
  <2> QED BY <1>4, <2>1
<1>6. CI!FlattenSeq(l) = <<>>
  BY <1>5, SeqIs
<1> QED BY <1>6, NestedIs DEF l

StepLists(within) == [i \in DOMAIN within |-> within[i].summary.steps]

LEMMA ShownPerRun ==
  ASSUME NEW within, IsSeq(within), Shown(within), NEW s
  PROVE  PerRun(within, s) = [i \in DOMAIN within |-> CI!FlattenSeq(Inner(within, i, s))]
<1>1. DOMAIN within = 1..Len(within) /\ Len(within) \in Nat
  BY SeqIs
<1>2. \A i \in DOMAIN within : i \in CI!ExtractSummaryPaths(within) /\ within[i].readable
  BY <1>1 DEF Shown, CI!ExtractSummaryPaths
<1> QED BY <1>2 DEF PerRun

LEMMA StepListsAre ==
  ASSUME NEW within, RunsSound(within)
  PROVE  /\ IsSeq(StepLists(within)) /\ DOMAIN StepLists(within) = DOMAIN within
         /\ \A i \in DOMAIN within : IsSeq(StepLists(within)[i])
<1> DEFINE l == StepLists(within)
           n == Len(within)
<1>1. DOMAIN within = 1..n /\ n \in Nat
  BY SeqIs DEF RunsSound
<1>2. DOMAIN l = 1..n /\ l = [i \in 1..n |-> l[i]] /\ \A i \in 1..n : l[i] = within[i].summary.steps
  BY <1>1 DEF StepLists
<1> HIDE DEF l
<1>3. IsSeq(l)
  <2> HIDE DEF n
  <2> QED BY <1>1, <1>2, SeqMade
<1>4. \A i \in DOMAIN within : IsSeq(l[i])
  BY <1>1, <1>2, StepsAre DEF RunsSound
<1> QED BY <1>1, <1>2, <1>3, <1>4 DEF l

\* the cases of the group are as many as its runs counted
LEMMA NestedLength ==
  ASSUME NEW within, RunsSound(within), Shown(within), NEW s \in CI!Statuses
  PROVE  LET steps == CI!FlattenSeq(StepLists(within)) IN
         /\ IsSeq(CI!CollectNestedSummaryCases(within, s))
         /\ Len(CI!CollectNestedSummaryCases(within, s))
            = CI!AddUp([j \in DOMAIN steps |-> CountIn(steps[j], s)])
<1> DEFINE ss == StepLists(within)
           flat == CI!FlattenSeq(ss)
           l == PerRun(within, s)
           X == UNION {Elems(ss[i]) : i \in DOMAIN ss}
           w == [x \in X |-> CountIn(x, s)]
<1>1. IsSeq(within) /\ \A i \in DOMAIN within : RunSound(within[i])
  BY DEF RunsSound
<1>2. /\ IsSeq(ss) /\ DOMAIN ss = DOMAIN within
      /\ \A i \in DOMAIN within : IsSeq(ss[i]) /\ ss[i] = within[i].summary.steps
  BY StepListsAre DEF StepLists
<1>3. w \in [X -> Nat]
  <2>1. ASSUME NEW x \in X PROVE CountIn(x, s) \in Nat
    <3>1. PICK i \in DOMAIN within : x \in Elems(within[i].summary.steps)
      BY <1>2
    <3>2. PICK j \in DOMAIN within[i].summary.steps : x = within[i].summary.steps[j]
      BY <3>1 DEF Elems
    <3> DEFINE run == within[i]
    <3>3. RunSound(run) /\ j \in DOMAIN run.results /\ run.gone \in BOOLEAN
      BY <1>1, <3>2, StepsAre DEF RunSound
    <3> HIDE DEF run
    <3>4. CountIn(run.summary.steps[j], s) \in Nat
      BY <3>3, NestedCases
    <3> QED BY <3>2, <3>4 DEF run
  <2> QED BY <2>1
<1>4. /\ IsSeq(l) /\ \A i \in DOMAIN l : IsSeq(l[i])
      /\ l = [i \in DOMAIN within |-> CI!FlattenSeq(Inner(within, i, s))]
  BY <1>1, PerRunIs, ShownPerRun
<1>5. ss \in Seq(Seq(X))
  <2>1. \A i \in DOMAIN ss : ss[i] \in Seq(X)
    <3> TAKE i \in DOMAIN ss
    <3>1. Elems(ss[i]) \subseteq X /\ IsSeq(ss[i])
      BY <1>2
    <3> HIDE DEF X, ss
    <3> QED BY <3>1 DEF IsSeq
  <2> HIDE DEF X, ss
  <2>2. Elems(ss) \subseteq Seq(X)
    BY <2>1 DEF Elems
  <2> QED BY <1>2, <2>2 DEF IsSeq
<1> HIDE DEF ss, l
<1>6. Flattened(X, ss)
  <2> HIDE DEF X
  <2> QED BY <1>5, FlattenIs
<1>7. flat \in Seq(X) /\ Weigh(w, flat) = CI!AddUp(WeighEach(w, ss))
  <2> HIDE DEF w, X
  <2> QED BY <1>3, <1>6 DEF Flattened
<1>8. ASSUME NEW t \in Seq(X) PROVE Weigh(w, t) = CI!AddUp([j \in DOMAIN t |-> CountIn(t[j], s)])
  <2>1. \A j \in DOMAIN t : t[j] \in X
    <3> HIDE DEF X
    <3> QED OBVIOUS
  <2> HIDE DEF X
  <2>2. Weights(w, t) = [j \in DOMAIN t |-> CountIn(t[j], s)]
    BY <2>1 DEF Weights
  <2> QED BY <2>2 DEF Weigh
<1>9. ASSUME NEW i \in DOMAIN within PROVE Weigh(w, ss[i]) = Len(l[i])
  <2> DEFINE part == Inner(within, i, s)
  <2>1. ss[i] \in Seq(X) /\ ss[i] = within[i].summary.steps
    <3> HIDE DEF X
    <3> QED BY <1>2, <1>5
  <2>2. Weigh(w, ss[i]) = CI!AddUp([j \in DOMAIN ss[i] |-> CountIn(ss[i][j], s)])
    <3> HIDE DEF w, X
    <3> QED BY <1>8, <2>1
  <2>3. /\ IsSeq(part) /\ \A j \in DOMAIN part : IsSeq(part[j])
        /\ Sizes(part) = [j \in DOMAIN within[i].summary.steps |-> CountIn(within[i].summary.steps[j], s)]
    BY InnerIs
  <2> HIDE DEF part
  <2>4. Len(CI!FlattenSeq(part)) = CI!AddUp(Sizes(part))
    BY <2>3, FlattenSeqs
  <2>5. l[i] = CI!FlattenSeq(part)
    BY <1>4 DEF part
  <2> HIDE DEF w
  <2> QED BY <2>1, <2>2, <2>3, <2>4, <2>5
<1>10. WeighEach(w, ss) = Sizes(l)
  <2> HIDE DEF w, X
  <2>1. DOMAIN l = DOMAIN within
    BY <1>4
  <2> QED BY <1>2, <1>9, <2>1 DEF WeighEach, Sizes
<1>11. IsSeq(CI!FlattenSeq(l)) /\ Len(CI!FlattenSeq(l)) = CI!AddUp(Sizes(l))
  BY <1>4, FlattenSeqs
<1>12. CI!CollectNestedSummaryCases(within, s) = CI!FlattenSeq(l)
  BY NestedIs DEF l
<1>13. Weigh(w, flat) = CI!AddUp([j \in DOMAIN flat |-> CountIn(flat[j], s)])
  <2> HIDE DEF w, X, flat
  <2> QED BY <1>7, <1>8
<1> HIDE DEF w
<1> QED BY <1>7, <1>10, <1>11, <1>12, <1>13 DEF ss

\* with all logs in place, the times of the group are those of its steps
LEMMA NestedDurations ==
  ASSUME NEW within, RunsSound(within), Shown(within), \A i \in DOMAIN within : ~within[i].gone
  PROVE  LET timed == CI!CollectNestedSummaryCases(within, "timed") IN
         /\ IsSeq(timed)
         /\ Elems(timed) = UNION {UNION {Elems(within[i].results[j].timed) : j \in DOMAIN within[i].results} :
                                  i \in DOMAIN within}
<1> DEFINE l == PerRun(within, "timed")
           n == Len(within)
           Of(i) == UNION {Elems(within[i].results[j].timed) : j \in DOMAIN within[i].results}
<1>1. DOMAIN within = 1..n /\ n \in Nat /\ IsSeq(within)
  BY SeqIs DEF RunsSound
<1>2. l = [i \in DOMAIN within |-> CI!FlattenSeq(Inner(within, i, "timed"))]
  BY <1>1, ShownPerRun
<1>3. ASSUME NEW i \in DOMAIN within
      PROVE  LET part == Inner(within, i, "timed") IN
             IsSeq(CI!FlattenSeq(part)) /\ Elems(CI!FlattenSeq(part)) = Of(i)
  <2> DEFINE part == Inner(within, i, "timed")
             run == within[i]
             m == Len(run.results)
  <2>1. RunSound(run) /\ run.gone = FALSE
    BY DEF RunsSound, RunSound
  <2>2. DOMAIN run.summary.steps = 1..m /\ DOMAIN run.results = 1..m /\ m \in Nat
    BY <2>1, StepsAre
  <2>3. DOMAIN part = 1..m /\ part = [j \in 1..m |-> part[j]]
    BY <2>2 DEF Inner
  <2>4. \A j \in 1..m : part[j] = run.results[j].timed /\ IsSeq(part[j])
    <3> TAKE j \in 1..m
    <3>1. part[j] = CI!CasesFromStep(run.summary, run.summary.steps[j], FALSE)["timed"]
      BY <2>1, <2>2 DEF Inner
    <3>2. IsSeq(run.results[j].timed)
      BY <2>1, <2>2, SoundTimes DEF RunSound
    <3> HIDE DEF part, run
    <3> QED BY <2>1, <2>2, <3>1, <3>2, NestedTimes
  <2> HIDE DEF part
  <2>5. IsSeq(part)
    <3> HIDE DEF m
    <3> QED BY <2>2, <2>3, SeqMade
  <2>6. /\ IsSeq(CI!FlattenSeq(part))
        /\ Elems(CI!FlattenSeq(part)) = UNION {Elems(part[j]) : j \in DOMAIN part}
    BY <2>3, <2>4, <2>5, FlattenSeqs
  <2>7. {Elems(part[j]) : j \in DOMAIN part} = {Elems(run.results[j].timed) : j \in DOMAIN run.results}
    BY <2>2, <2>3, <2>4
  <2> QED BY <2>6, <2>7 DEF part
<1> HIDE DEF Of
<1>4. DOMAIN l = 1..n /\ l = [i \in 1..n |-> l[i]]
      /\ \A i \in 1..n : IsSeq(l[i]) /\ Elems(l[i]) = Of(i)
  BY <1>1, <1>2, <1>3
<1> HIDE DEF l
<1>5. IsSeq(l)
  <2> HIDE DEF n
  <2> QED BY <1>1, <1>4, SeqMade
<1>6. /\ IsSeq(CI!FlattenSeq(l))
      /\ Elems(CI!FlattenSeq(l)) = UNION {Elems(l[i]) : i \in DOMAIN l}
  BY <1>4, <1>5, FlattenSeqs
<1>7. {Elems(l[i]) : i \in DOMAIN l} = {Of(i) : i \in DOMAIN within}
  BY <1>1, <1>4
<1>8. CI!CollectNestedSummaryCases(within, "timed") = CI!FlattenSeq(l)
  BY NestedIs DEF l
<1> QED BY <1>6, <1>7, <1>8 DEF Of

(***************************************************************************)
(* The result of the group.                                                *)
(***************************************************************************)
LEMMA SoundLists ==
  ASSUME NEW r, StepSound(r), NEW s \in CI!Statuses
  PROVE  IsSeq(r[s])
<1> DEFINE p == CI!ParseTestOutput(r.log)
<1>1. \A x \in CI!Statuses : IsSeq(p[x])
  <2>1. PICK R \in SUBSET r.real.ended : Reveals(p, R)
    BY SoundRead
  <2> HIDE DEF p
  <2> QED BY <2>1 DEF Reveals, Distinct
<1>2. s # "FAIL" => r[s] = p[s]
  BY DEF StepSound, CI!Statuses
<1>3. s = "FAIL" => IsSeq(r[s])
  BY DEF StepSound
<1> QED BY <1>1, <1>2, <1>3

EndLines(r, s) == [j \in DOMAIN r[s] |-> CI!EndLine(s, r[s][j])]
LinesOf(r) == EndLines(r, "PASS") \o EndLines(r, "FAIL") \o EndLines(r, "SKIP") \o EndLines(r, "DEFERRED")
LinesOfAll(rs) == [i \in DOMAIN rs |-> LinesOf(rs[i])]

LEMMA EndLinesAre ==
  ASSUME NEW r, StepSound(r), NEW s \in CI!Statuses
  PROVE  IsSeq(EndLines(r, s))
<1> DEFINE n == Len(r[s])
           l == EndLines(r, s)
<1>1. n \in Nat /\ DOMAIN r[s] = 1..n
  BY SoundLists, SeqIs
<1>2. DOMAIN l = 1..n /\ l = [j \in 1..n |-> l[j]]
  BY <1>1 DEF EndLines
<1> HIDE DEF n, l
<1>3. IsSeq(l)
  BY <1>1, <1>2, SeqMade
<1> QED BY <1>3 DEF l

LEMMA PrintedIs ==
  ASSUME NEW run, RunSound(run)
  PROVE  IsSeq(CI!Printed(run))
<1>1. ASSUME NEW r, StepSound(r) PROVE IsSeq(LinesOf(r))
  <2>1. /\ IsSeq(EndLines(r, "PASS")) /\ IsSeq(EndLines(r, "FAIL"))
        /\ IsSeq(EndLines(r, "SKIP")) /\ IsSeq(EndLines(r, "DEFERRED"))
    BY <1>1, EndLinesAre DEF CI!Statuses
  <2>2. IsSeq(EndLines(r, "PASS") \o EndLines(r, "FAIL"))
    BY <2>1, SeqJoin
  <2>3. IsSeq(EndLines(r, "PASS") \o EndLines(r, "FAIL") \o EndLines(r, "SKIP"))
    BY <2>1, <2>2, SeqJoin
  <2> QED BY <2>1, <2>3, SeqJoin DEF LinesOf
<1> DEFINE n == Len(run.results)
           l == LinesOfAll(run.results)
           last == IF run.announced THEN <<CI!NameLine("summary", NoTest)>> ELSE <<>>
<1>2. n \in Nat /\ DOMAIN run.results = 1..n
  BY SeqIs DEF RunSound
<1>3. DOMAIN l = 1..n /\ l = [i \in 1..n |-> l[i]]
  BY <1>2 DEF LinesOfAll
<1>4. \A i \in 1..n : IsSeq(l[i])
  BY <1>1, <1>2 DEF RunSound, LinesOfAll
<1>5. CI!Printed(run) = CI!FlattenSeq(l) \o last
  BY DEF CI!Printed, LinesOfAll, LinesOf, EndLines
<1>6. IsSeq(last)
  BY SeqOne, SeqEmpty
<1> HIDE DEF n, l, last
<1>7. IsSeq(l)
  BY <1>2, <1>3, SeqMade
<1>8. IsSeq(CI!FlattenSeq(l))
  BY <1>3, <1>4, <1>7, FlattenSeqs
<1>9. IsSeq(CI!FlattenSeq(l) \o last)
  BY <1>6, <1>8, SeqJoin
<1> QED BY <1>5, <1>9

\* nothing is read of the log of a group that starts with a long line
LEMMA NoisyGroup ==
  ASSUME NEW within, RunsSound(within), within # <<>>, within[1].noisy
  PROVE  CI!ParseTestOutput(CI!GroupLog(within)).FAIL = <<>>
<1> DEFINE First(i) == IF within[i].noisy THEN <<CI!LongLine>> ELSE <<>>
           l == [i \in DOMAIN within |-> First(i) \o CI!Printed(within[i])]
           n == Len(within)
<1>1. n \in Nat /\ DOMAIN within = 1..n /\ 1 \in 1..n
  BY SeqIs DEF RunsSound
<1>2. DOMAIN l = 1..n /\ l = [i \in 1..n |-> l[i]]
  BY <1>1
<1>3. \A i \in 1..n : IsSeq(l[i])
  <2> TAKE i \in 1..n
  <2>1. IsSeq(CI!Printed(within[i]))
    BY <1>1, PrintedIs DEF RunsSound
  <2>2. IsSeq(First(i))
    BY SeqOne, SeqEmpty
  <2>3. l[i] = First(i) \o CI!Printed(within[i])
    BY <1>1
  <2> HIDE DEF First, l
  <2> QED BY <2>1, <2>2, <2>3, SeqJoin
<1>4. l[1] # <<>> /\ l[1][1] = CI!LongLine
  <2> DEFINE a == <<CI!LongLine>>
             b == CI!Printed(within[1])
  <2>1. IsSeq(b)
    BY <1>1, PrintedIs DEF RunsSound
  <2>2. IsSeq(a) /\ Len(a) = 1 /\ a[1] = CI!LongLine
    BY SeqOne
  <2>3. l[1] = a \o b
    BY <1>1
  <2> HIDE DEF a, b, l
  <2>4. (a \o b)[1] = a[1] /\ IsSeq(a \o b) /\ Len(a \o b) = 1 + Len(b) /\ Len(b) \in Nat
    <3>1. 1 \in 1..Len(a)
      BY <2>2
    <3>2. Len(b) \in Nat
      BY <2>1, SeqIs
    <3>3. /\ IsSeq(a \o b) /\ Len(a \o b) = Len(a) + Len(b)
          /\ \A i \in 1..Len(a) : (a \o b)[i] = a[i]
      <4>1. IsSeq(a) /\ IsSeq(b)
        BY <2>1, <2>2
      <4>2. \A s, t : IsSeq(s) /\ IsSeq(t) =>
              /\ IsSeq(s \o t) /\ Len(s \o t) = Len(s) + Len(t)
              /\ \A i \in 1..Len(s) : (s \o t)[i] = s[i]
        BY SeqJoin
      <4> QED BY <4>1, <4>2
    <3> QED BY <2>2, <3>1, <3>2, <3>3
  <2>5. a \o b # <<>>
    BY <2>4, SeqEmpty
  <2> QED BY <2>2, <2>3, <2>4, <2>5
<1>5. CI!GroupLog(within) = CI!FlattenSeq(l)
  BY DEF CI!GroupLog
<1> HIDE DEF l, n
<1>6. IsSeq(l) /\ l # <<>>
  BY <1>1, <1>2, SeqMade
<1>7. IsSeq(CI!FlattenSeq(l)) /\ CI!FlattenSeq(l) # <<>> /\ CI!FlattenSeq(l)[1] = CI!LongLine
  BY <1>2, <1>3, <1>4, <1>6, FlattenSeqs
<1>8. CI!ParseTestOutput(CI!FlattenSeq(l)) = [CI!Blank EXCEPT !.cut = TRUE]
  BY <1>7, ParseCut
<1> QED BY <1>5, <1>8 DEF CI!Blank

GroupSound(r, within, status, d) ==
  /\ r.group = TRUE /\ r.took = d /\ r.status = status /\ r.logged = TRUE
  /\ status = "FAIL" => r.FAIL # <<>>
  /\ status = "PASS" => r.FAIL = <<>>
  /\ Shown(within) =>
       /\ r.PASS = CI!CollectNestedSummaryCases(within, "PASS")
       /\ r.SKIP = CI!CollectNestedSummaryCases(within, "SKIP")
       /\ r.DEFERRED = CI!CollectNestedSummaryCases(within, "DEFERRED")
       /\ r.timed = CI!CollectNestedSummaryCases(within, "timed")
       /\ r.FAIL = CI!AttributeImplicitFailures(
                     status, CI!CollectNestedSummaryCases(within, "FAIL"), <<>>, "", "group")

LEMMA GroupIs ==
  ASSUME NEW within, RunsSound(within), within # <<>>, NEW status \in {"PASS", "FAIL"},
         status = "PASS" => \A i \in DOMAIN within : within[i].exit = 0, NEW d
  PROVE  GroupSound(CI!GroupResult(within, status, d), within, status, d)
<1> DEFINE r == CI!GroupResult(within, status, d)
           p == CI!ParseTestOutput(CI!GroupLog(within))
           Nested(s) == CI!CollectNestedSummaryCases(within, s)
           first == CI!StepResult(CI!GroupItem, status, CI!GroupLog(within), CI!Nothing)
           own == [first EXCEPT !.group = TRUE, !.took = d]
           fail == CI!AttributeImplicitFailures(status, Nested("FAIL"), <<>>, "", "group")
<1>1. 1 \in DOMAIN within
  BY SeqIs DEF RunsSound
<1>2. /\ own.group = TRUE /\ own.took = d /\ own.status = status /\ own.logged = TRUE
      /\ own.FAIL = CI!AttributeImplicitFailures(status, p.FAIL, <<>>, "", "group")
  BY DEF CI!StepResult, CI!GroupItem
<1>3. CASE CI!ExtractSummaryPaths(within) = {}
  <2>1. r = own
    BY <1>3 DEF CI!GroupResult
  <2>2. 1 \notin CI!ExtractSummaryPaths(within)
    BY <1>3
  <2>3. ~Shown(within)
    <3> SUFFICES ASSUME Shown(within) PROVE FALSE
      OBVIOUS
    <3>1. within[1].announced /\ \A j \in 1..1 : ~within[j].noisy
      BY <1>1 DEF Shown
    <3> QED BY <1>1, <2>2, <3>1 DEF CI!ExtractSummaryPaths
  <2>4. status = "PASS" => p.FAIL = <<>>
    <3> SUFFICES ASSUME status = "PASS" PROVE p.FAIL = <<>>
      OBVIOUS
    <3>1. within[1].announced
      BY <1>1 DEF RunsSound, RunSound
    <3>2. within[1].noisy
      BY <1>1, <2>2, <3>1 DEF CI!ExtractSummaryPaths
    <3> QED BY <3>2, NoisyGroup
  <2> HIDE DEF p, own, r
  <2>5. Attributed(status, p.FAIL, own.FAIL)
    BY <1>2, SeqEmpty, AttributedIs
  <2>6. (status = "FAIL" => own.FAIL # <<>>) /\ (status = "PASS" => own.FAIL = <<>>)
    BY <2>4, <2>5 DEF Attributed
  <2>7. GroupSound(r, within, status, d)
    BY <1>2, <2>1, <2>3, <2>6 DEF GroupSound
  <2> QED BY <2>7 DEF r
<1>4. CASE CI!ExtractSummaryPaths(within) # {}
  <2>1. r = [own EXCEPT !.PASS = Nested("PASS"), !.SKIP = Nested("SKIP"),
              !.DEFERRED = Nested("DEFERRED"), !.timed = Nested("timed"), !.FAIL = fail]
    BY <1>4 DEF CI!GroupResult, CI!Statuses
  <2>2. /\ r.group = TRUE /\ r.took = d /\ r.status = status /\ r.logged = TRUE
        /\ r.PASS = Nested("PASS") /\ r.SKIP = Nested("SKIP") /\ r.DEFERRED = Nested("DEFERRED")
        /\ r.timed = Nested("timed") /\ r.FAIL = fail
    <3> HIDE DEF Nested, fail, r
    <3> QED BY <2>1 DEF CI!StepResult
  <2>3. Attributed(status, Nested("FAIL"), fail)
    BY SeqEmpty, AttributedIs
  <2>4. status = "PASS" => Nested("FAIL") = <<>>
    BY NestedNoneFailed
  <2>5. (status = "FAIL" => fail # <<>>) /\ (status = "PASS" => fail = <<>>)
    BY <2>3, <2>4 DEF Attributed
  <2> HIDE DEF r, own
  <2>6. GroupSound(r, within, status, d)
    <3> HIDE DEF Nested, fail
    <3>1. /\ r.group = TRUE /\ r.took = d /\ r.status = status /\ r.logged = TRUE
          /\ r.PASS = CI!CollectNestedSummaryCases(within, "PASS")
          /\ r.SKIP = CI!CollectNestedSummaryCases(within, "SKIP")
          /\ r.DEFERRED = CI!CollectNestedSummaryCases(within, "DEFERRED")
          /\ r.timed = CI!CollectNestedSummaryCases(within, "timed")
          /\ r.FAIL = CI!AttributeImplicitFailures(
                        status, CI!CollectNestedSummaryCases(within, "FAIL"), <<>>, "", "group")
      BY <2>2 DEF Nested, fail
    <3> QED BY <2>2, <2>5, <3>1 DEF GroupSound
  <2> QED BY <2>6 DEF r
<1> QED BY <1>3, <1>4
-----------------------------------------------------------------------------
(***************************************************************************)
(* While the tests of an item run: the queue q, the tests st that run, the *)
(* log lg, and of what the code does not see the ends D, whether a line    *)
(* was too long, whether a parent spoke late, and who said Deferred.       *)
(***************************************************************************)
NamesOf(D) == {c.name : c \in D}
OutOf(st) == IF st = <<>> THEN <<>> ELSE st[1].out
Behind(st, said) == HeldBack(OutOf(st), said)

\* a subtest that ended was run by what runs now or by what ended
SubsOk(st, D) ==
  \A s \in NamesOf(D) \cap DOMAIN Parent :
    (st # <<>> /\ s \in st[1].ran) \/ Parent[s] \in NamesOf(D)
QueueOk(q, st, D) ==
  /\ IsSeq(q) /\ \A j, k \in DOMAIN q : q[j] = q[k] => j = k
  /\ \A k \in DOMAIN q :
       /\ IsTest(q[k]) /\ q[k] \notin NamesOf(D)
       /\ st # <<>> => q[k] # st[1].test
Framed(f, D) ==
  /\ f = [test |-> f.test, ran |-> f.ran, out |-> f.out, failed |-> f.failed]
  /\ IsTest(f.test) /\ f.test \notin NamesOf(D)
  /\ \A s \in f.ran : s \in DOMAIN Parent /\ Parent[s] = f.test
  /\ Waiting(f.out)
StackOk(st, D) ==
  \/ st = <<>>
  \/ \E f : st = <<f>> /\ Framed(f, D)
  \/ \E f, s : st = <<f, CI!Frame(s)>> /\ Framed(f, D) /\ s \in f.ran \ NamesOf(D)
\* who ran last is who runs now, unless it has run a subtest
LastRan(st) ==
  IF st = <<>> \/ st[Len(st)].ran # {} THEN NoTest ELSE st[Len(st)].test
LogOk(st, lg, D, cut, late, said) ==
  LET p == CI!ParseTestOutput(lg) IN
    /\ IsSeq(lg) /\ Behind(st, said) \subseteq D
    /\ Fits(p, D \ Behind(st, said), cut, late, said)
    /\ LastRan(st) # NoTest /\ ~p.cut => p.cur = LastRan(st)
Tested(q, st, lg, D, cut, late, said) ==
  Recorded(D) /\ SubsOk(st, D) /\ QueueOk(q, st, D) /\ StackOk(st, D) /\ LogOk(st, lg, D, cut, late, said)

LEMMA LogMore ==
  ASSUME NEW lg, IsSeq(lg), NEW x
  PROVE  /\ IsSeq(lg \o <<x>>)
         /\ CI!ParseTestOutput(lg \o <<x>>) = CI!ReadLine(CI!ParseTestOutput(lg), x)
<1>1. lg \o <<x>> = Append(lg, x)
  BY SeqEmpty, JoinMore
<1>2. IsSeq(Append(lg, x))
  BY SeqMore
<1>3. CI!ParseTestOutput(Append(lg, x)) = CI!ReadLine(CI!ParseTestOutput(lg), x)
  BY ParseMore
<1> QED BY <1>1, <1>2, <1>3

LEMMA NoneHeld ==
  ASSUME NEW said
  PROVE  /\ HeldBack(<<>>, said) = {} /\ Waiting(<<>>)
         /\ Behind(<<>>, said) = {} /\ OutOf(<<>>) = <<>> /\ LastRan(<<>>) = NoTest
<1>1. DOMAIN <<>> = {} /\ IsSeq(<<>>)
  BY SeqEmpty
<1>2. HeldBack(<<>>, said) = {}
  BY <1>1 DEF HeldBack
<1>3. Waiting(<<>>)
  BY <1>1 DEF Waiting
<1> QED BY <1>2, <1>3 DEF Behind, OutOf, LastRan

LEMMA OneFrame ==
  ASSUME NEW f
  PROVE  /\ <<f>> # <<>> /\ <<f>>[1] = f /\ Len(<<f>>) = 1 /\ OutOf(<<f>>) = f.out
         /\ \A said : Behind(<<f>>, said) = HeldBack(f.out, said)
         /\ LastRan(<<f>>) = IF f.ran # {} THEN NoTest ELSE f.test
BY DEF OutOf, Behind, LastRan

LEMMA TwoFrames ==
  ASSUME NEW f, NEW s
  PROVE  /\ <<f, CI!Frame(s)>> # <<>> /\ <<f, CI!Frame(s)>>[1] = f /\ Len(<<f, CI!Frame(s)>>) = 2
         /\ OutOf(<<f, CI!Frame(s)>>) = f.out
         /\ \A said : Behind(<<f, CI!Frame(s)>>, said) = HeldBack(f.out, said)
         /\ LastRan(<<f, CI!Frame(s)>>) = s
BY DEF OutOf, Behind, LastRan, CI!Frame

LEMMA TestedStart ==
  ASSUME NEW item, IsItem(item)
  PROVE  Tested(item.tests, <<>>, <<>>, {}, FALSE, FALSE, {})
<1>1. Recorded({}) /\ NamesOf({}) = {}
  BY FS_EmptySet DEF Recorded, NamesOf
<1>2. IsSeq(item.tests)
  BY SeqTyped DEF IsItem
<1>3. QueueOk(item.tests, <<>>, {})
  BY <1>1, <1>2 DEF QueueOk, IsItem
<1>4. Fits(CI!ParseTestOutput(<<>>), {} \ {}, FALSE, FALSE, {})
  BY BlankFits, ParseNone
<1>5. LogOk(<<>>, <<>>, {}, FALSE, FALSE, {})
  BY <1>4, NoneHeld, SeqEmpty DEF LogOk
<1> QED BY <1>1, <1>3, <1>5 DEF Tested, SubsOk, StackOk

LEMMA TestedRun ==
  ASSUME NEW q, NEW lg, NEW D, NEW cut, NEW late, NEW said,
         Tested(q, <<>>, lg, D, cut, late, said), q # <<>>
  PROVE  Tested(Tail(q), <<CI!Frame(Head(q))>>, lg \o <<CI!NameLine("run", Head(q))>>,
                D, cut, late, said)
<1> DEFINE t == Head(q)
           f == CI!Frame(t)
           p == CI!ParseTestOutput(lg)
           line == CI!NameLine("run", t)
           next == lg \o <<line>>
<1>1. /\ IsSeq(q) /\ Len(q) \in Nat /\ DOMAIN q = 1..Len(q) /\ Len(q) # 0
      /\ IsSeq(Tail(q)) /\ Len(Tail(q)) = Len(q) - 1 /\ t = q[1]
      /\ \A i \in 1..Len(Tail(q)) : Tail(q)[i] = q[i + 1]
  BY SeqIs, SeqRest DEF Tested, QueueOk
<1>2. DOMAIN Tail(q) = 1..Len(Tail(q))
  BY <1>1, SeqIs
<1>3. /\ f.test = t /\ f.ran = {} /\ f.out = <<>> /\ f.failed = FALSE
      /\ f = [test |-> f.test, ran |-> f.ran, out |-> f.out, failed |-> f.failed]
  BY DEF CI!Frame
<1>4. /\ \A j, k \in 1..Len(q) : q[j] = q[k] => j = k
      /\ \A k \in 1..Len(q) : IsTest(q[k]) /\ q[k] \notin NamesOf(D)
  BY <1>1 DEF Tested, QueueOk
<1>5. IsTest(t) /\ t \notin NamesOf(D)
  BY <1>1, <1>4
<1> HIDE DEF f, t
<1>6. QueueOk(Tail(q), <<f>>, D)
  <2>1. \A i \in 1..Len(Tail(q)) : i + 1 \in 1..Len(q) /\ i + 1 # 1
    BY <1>1
  <2>2. \A i \in 1..Len(Tail(q)) : IsTest(Tail(q)[i]) /\ Tail(q)[i] \notin NamesOf(D) /\ Tail(q)[i] # t
    BY <1>1, <1>4, <2>1
  <2>3. \A j, k \in 1..Len(Tail(q)) : Tail(q)[j] = Tail(q)[k] => j = k
    BY <1>1, <1>4, <2>1
  <2> QED BY <1>1, <1>2, <1>3, <2>2, <2>3, OneFrame DEF QueueOk
<1>7. SubsOk(<<f>>, D)
  BY DEF Tested, SubsOk
<1>8. StackOk(<<f>>, D)
  <2>1. Framed(f, D)
    BY <1>3, <1>5, NoneHeld DEF Framed
  <2> QED BY <2>1 DEF StackOk
<1>9. LogOk(<<f>>, next, D, cut, late, said)
  <2>1. IsSeq(lg) /\ Fits(p, D, cut, late, said)
    <3>1. D \ {} = D
      OBVIOUS
    <3> QED BY <3>1, NoneHeld DEF Tested, LogOk
  <2>2. IsSeq(next) /\ CI!ParseTestOutput(next) = CI!ReadLine(p, line)
    BY <2>1, LogMore
  <2>3. /\ Fits(CI!ReadLine(p, line), D, cut, late, said)
        /\ CI!ReadLine(p, line).cut = p.cut
        /\ ~p.cut => CI!ReadLine(p, line).cur = t
    BY <2>1, FitsRun
  <2>4. Behind(<<f>>, said) = {} /\ LastRan(<<f>>) = t
    BY <1>3, OneFrame, NoneHeld
  <2>5. D \ {} = D /\ {} \subseteq D
    OBVIOUS
  <2> HIDE DEF p, line, next
  <2> QED BY <2>2, <2>3, <2>4, <2>5 DEF LogOk
<1> QED BY <1>6, <1>7, <1>8, <1>9 DEF Tested, f, t
LEMMA StackOne ==
  ASSUME NEW f, NEW D, StackOk(<<f>>, D)
  PROVE  Framed(f, D)
<1>1. \A g : <<g>> = <<f>> => g = f
  OBVIOUS
<1>2. \A g, s : <<g, CI!Frame(s)>> # <<f>>
  <2> TAKE g, s
  <2>1. Len(<<g, CI!Frame(s)>>) = 2 /\ Len(<<f>>) = 1
    OBVIOUS
  <2> QED BY <2>1
<1> QED BY <1>1, <1>2 DEF StackOk

LEMMA StackTwo ==
  ASSUME NEW f, NEW s, NEW D, StackOk(<<f, CI!Frame(s)>>, D)
  PROVE  Framed(f, D) /\ s \in f.ran \ NamesOf(D)
<1>1. \A g : <<g>> # <<f, CI!Frame(s)>>
  <2> TAKE g
  <2>1. Len(<<f, CI!Frame(s)>>) = 2 /\ Len(<<g>>) = 1
    OBVIOUS
  <2> QED BY <2>1
<1>2. \A g, t : <<g, CI!Frame(t)>> = <<f, CI!Frame(s)>> => g = f /\ t = s
  <2> TAKE g, t
  <2>1. <<g, CI!Frame(t)>> = <<f, CI!Frame(s)>> => CI!Frame(t).test = CI!Frame(s).test /\ g = f
    OBVIOUS
  <2> QED BY <2>1 DEF CI!Frame
<1> QED BY <1>1, <1>2 DEF StackOk

\* who runs now has a name, and none that ended already
LEMMA TopIs ==
  ASSUME NEW st, NEW D, StackOk(st, D), st # <<>>
  PROVE  /\ Len(st) \in 1..2
         /\ st[Len(st)].test # NoTest /\ st[Len(st)].test \notin NamesOf(D)
         /\ Framed(st[1], D) /\ OutOf(st) = st[1].out
         /\ LastRan(st) = IF st[Len(st)].ran # {} THEN NoTest ELSE st[Len(st)].test
<1>1. CASE \E f : st = <<f>> /\ Framed(f, D)
  <2>1. PICK f : st = <<f>> /\ Framed(f, D)
    BY <1>1
  <2> QED BY <2>1, OneFrame DEF Framed, IsTest
<1>2. CASE \E f, s : st = <<f, CI!Frame(s)>> /\ Framed(f, D) /\ s \in f.ran \ NamesOf(D)
  <2>1. PICK f, s : st = <<f, CI!Frame(s)>> /\ Framed(f, D) /\ s \in f.ran \ NamesOf(D)
    BY <1>2
  <2>2. s # NoTest
    BY <2>1, SetupsAssumption DEF Framed
  <2>3. st[2].test = s /\ st[2].ran = {} /\ Len(st) = 2 /\ st[1] = f
    BY <2>1 DEF CI!Frame
  <2> QED BY <2>1, <2>2, <2>3, TwoFrames
<1> QED BY <1>1, <1>2 DEF StackOk

LEMMA TestedSub ==
  ASSUME NEW q, NEW f, NEW lg, NEW D, NEW cut, NEW late, NEW said,
         Tested(q, <<f>>, lg, D, cut, late, said),
         NEW s \in DOMAIN Parent, Parent[s] = f.test, s \notin f.ran
  PROVE  Tested(q, <<[f EXCEPT !.ran = @ \cup {s}], CI!Frame(s)>>,
                lg \o <<CI!NameLine("run", s)>>, D, cut, late, said)
<1> DEFINE g == [f EXCEPT !.ran = @ \cup {s}]
           st == <<g, CI!Frame(s)>>
           p == CI!ParseTestOutput(lg)
           line == CI!NameLine("run", s)
           next == lg \o <<line>>
<1>1. Framed(f, D)
  BY StackOne DEF Tested
<1>2. s \notin NamesOf(D)
  BY <1>1, OneFrame DEF Tested, SubsOk, Framed
<1>3. /\ g.test = f.test /\ g.ran = f.ran \cup {s} /\ g.out = f.out
      /\ g = [test |-> g.test, ran |-> g.ran, out |-> g.out, failed |-> g.failed]
  BY <1>1 DEF Framed
<1> HIDE DEF g
<1>4. Framed(g, D)
  BY <1>1, <1>3 DEF Framed
<1>5. StackOk(st, D)
  BY <1>2, <1>3, <1>4 DEF StackOk
<1>6. st # <<>> /\ st[1] = g /\ LastRan(st) = s /\ Behind(st, said) = HeldBack(f.out, said)
  BY <1>3, TwoFrames
<1>7. SubsOk(st, D)
  BY <1>3, <1>6, OneFrame DEF Tested, SubsOk
<1>8. QueueOk(q, st, D)
  BY <1>3, <1>6, OneFrame DEF Tested, QueueOk
<1>9. LogOk(st, next, D, cut, late, said)
  <2> DEFINE B == D \ HeldBack(f.out, said)
  <2>1. IsSeq(lg) /\ Fits(p, B, cut, late, said) /\ HeldBack(f.out, said) \subseteq D
    BY OneFrame DEF Tested, LogOk
  <2>2. IsSeq(next) /\ CI!ParseTestOutput(next) = CI!ReadLine(p, line)
    BY <2>1, LogMore
  <2> HIDE DEF B
  <2>3. /\ Fits(CI!ReadLine(p, line), B, cut, late, said)
        /\ CI!ReadLine(p, line).cut = p.cut
        /\ ~p.cut => CI!ReadLine(p, line).cur = s
    BY <2>1, FitsRun
  <2> HIDE DEF p, line, next, st
  <2> QED BY <1>6, <2>1, <2>2, <2>3 DEF LogOk, B
<1> QED BY <1>5, <1>7, <1>8, <1>9 DEF Tested, g

LEMMA HeldSame ==
  ASSUME NEW out, NEW D, NEW said, HeldBack(out, said) \subseteq D, NEW t, t \notin NamesOf(D)
  PROVE  HeldBack(out, said \cup {t}) = HeldBack(out, said)
<1>1. \A k \in DOMAIN out : RecOf(out[k], said \cup {t}) = RecOf(out[k], said)
  <2> TAKE k \in DOMAIN out
  <2>1. RecOf(out[k], said) \in D
    BY DEF HeldBack
  <2>2. RecOf(out[k], said).name = out[k].case.name
    BY DEF RecOf, RecordOf
  <2>3. out[k].case.name # t
    BY <2>1, <2>2 DEF NamesOf
  <2> QED BY <2>3 DEF RecOf, RecordOf
<1> QED BY <1>1 DEF HeldBack

LEMMA TestedSay ==
  ASSUME NEW q, NEW st, NEW lg, NEW D, NEW cut, NEW late, NEW said,
         Tested(q, st, lg, D, cut, late, said), st # <<>>,
         NEW later, late => later, st[Len(st)].ran # {} => later
  PROVE  Tested(q, st, lg \o <<CI!NameLine("deferred", NoTest)>>, D, cut, later,
                said \cup {st[Len(st)].test})
<1> DEFINE t == st[Len(st)].test
           p == CI!ParseTestOutput(lg)
           line == CI!NameLine("deferred", NoTest)
           next == lg \o <<line>>
           B == D \ Behind(st, said)
<1>1. t # NoTest /\ t \notin NamesOf(D)
      /\ LastRan(st) = IF st[Len(st)].ran # {} THEN NoTest ELSE t
  BY TopIs DEF Tested
<1>2. /\ IsSeq(lg) /\ Fits(p, B, cut, late, said) /\ Behind(st, said) \subseteq D
      /\ LastRan(st) # NoTest /\ ~p.cut => p.cur = LastRan(st)
  BY DEF Tested, LogOk
<1> HIDE DEF t, B
<1>3. Behind(st, said \cup {t}) = Behind(st, said)
  BY <1>1, <1>2, HeldSame DEF Behind
<1>4. IsSeq(next) /\ CI!ParseTestOutput(next) = CI!ReadLine(p, line)
  BY <1>2, LogMore
<1>5. /\ Fits(CI!ReadLine(p, line), B, cut, later, said \cup {t})
      /\ CI!ReadLine(p, line).cut = p.cut /\ CI!ReadLine(p, line).cur = p.cur
  <2>1. (late => later) /\ (~p.cut /\ ~later => p.cur = t)
    BY <1>1, <1>2
  <2>2. Shaped(p) /\ p.cut \in BOOLEAN
    BY <1>2 DEF Fits
  <2>3. CI!ReadLine(p, line).cut = p.cut /\ CI!ReadLine(p, line).cur = p.cur
    BY <2>2, SayKeeps
  <2>4. t # NoTest /\ Fits(p, B, cut, late, said)
    BY <1>1, <1>2
  <2> HIDE DEF p
  <2>5. Fits(CI!ReadLine(p, line), B, cut, later, said \cup {t})
    BY <2>1, <2>4, FitsSay
  <2> QED BY <2>3, <2>5
<1>6. LogOk(st, next, D, cut, later, said \cup {t})
  <2> HIDE DEF p, line, next
  <2> QED BY <1>2, <1>3, <1>4, <1>5 DEF LogOk, B
<1> QED BY <1>6 DEF Tested, t

LEMMA TestedLong ==
  ASSUME NEW q, NEW st, NEW lg, NEW D, NEW cut, NEW late, NEW said,
         Tested(q, st, lg, D, cut, late, said)
  PROVE  Tested(q, st, lg \o <<CI!LongLine>>, D, TRUE, late, said)
<1> DEFINE p == CI!ParseTestOutput(lg)
           next == lg \o <<CI!LongLine>>
           B == D \ Behind(st, said)
<1>1. IsSeq(lg) /\ Fits(p, B, cut, late, said) /\ Behind(st, said) \subseteq D
  BY DEF Tested, LogOk
<1>2. IsSeq(next) /\ CI!ParseTestOutput(next) = CI!ReadLine(p, CI!LongLine)
  BY <1>1, LogMore
<1> HIDE DEF B
<1>3. Fits(CI!ReadLine(p, CI!LongLine), B, TRUE, late, said) /\ CI!ReadLine(p, CI!LongLine).cut
  BY <1>1, FitsLong
<1>4. LogOk(st, next, D, TRUE, late, said)
  <2> HIDE DEF p, next
  <2> QED BY <1>1, <1>2, <1>3 DEF LogOk, B
<1> QED BY <1>4 DEF Tested
\* one more has ended
LEMMA RecordMore ==
  ASSUME NEW D, Recorded(D), NEW e, e.name \notin NamesOf(D), e.dur \in Nat, e.status \in CI!Statuses
  PROVE  Recorded(D \cup {e}) /\ NamesOf(D \cup {e}) = NamesOf(D) \cup {e.name} /\ e \notin D
<1>1. \A c \in D : c.name # e.name
  BY DEF NamesOf
<1>2. IsFiniteSet(D \cup {e})
  BY FS_AddElement DEF Recorded
<1>3. Recorded(D \cup {e})
  BY <1>1, <1>2 DEF Recorded
<1>4. NamesOf(D \cup {e}) = NamesOf(D) \cup {e.name}
  BY DEF NamesOf
<1> QED BY <1>1, <1>3, <1>4

LEMMA EndLineIs ==
  ASSUME NEW s, NEW d \in Nat, NEW status \in {"PASS", "FAIL", "SKIP"}
  PROVE  LET line == CI!EndLine(status, CI!Case(s, d)) IN
         /\ IsEnd(line) /\ line.case.name = s
         /\ \A said : RecOf(line, said) = RecordOf(status, CI!Case(s, d), said)
BY DEF IsEnd, CI!EndLine, CI!Case, RecOf

\* names of lines held back are names of tests that ended
LEMMA HeldNames ==
  ASSUME NEW out, NEW D, NEW said, HeldBack(out, said) \subseteq D
  PROVE  \A k \in DOMAIN out : RecOf(out[k], said) \in D /\ out[k].case.name \in NamesOf(D)
                               /\ RecOf(out[k], said).name = out[k].case.name
<1> TAKE k \in DOMAIN out
<1>1. RecOf(out[k], said) \in D
  BY DEF HeldBack
<1>2. RecOf(out[k], said).name = out[k].case.name
  BY DEF RecOf, RecordOf
<1> QED BY <1>1, <1>2 DEF NamesOf

LEMMA HeldMore ==
  ASSUME NEW out, Waiting(out), NEW line, IsEnd(line),
         \A k \in DOMAIN out : out[k].case.name # line.case.name, NEW said
  PROVE  /\ Waiting(Append(out, line))
         /\ HeldBack(Append(out, line), said) = HeldBack(out, said) \cup {RecOf(line, said)}
<1> DEFINE m == Len(out)
           next == Append(out, line)
<1>1. /\ IsSeq(out) /\ m \in Nat /\ DOMAIN out = 1..m
      /\ \A k \in 1..m : IsEnd(out[k])
      /\ \A i, j \in 1..m : out[i].case.name = out[j].case.name => i = j
  BY SeqIs DEF Waiting
<1>2. /\ IsSeq(next) /\ Len(next) = m + 1
      /\ \A i \in 1..m : next[i] = out[i]
      /\ next[m + 1] = line
  BY <1>1, SeqMore
<1>3. DOMAIN next = 1..(m + 1)
  BY <1>2, SeqIs
<1> HIDE DEF m, next
<1>4. \A k \in 1..(m + 1) : k \in 1..m \/ k = m + 1
  BY <1>1
<1>5. \A k \in 1..(m + 1) : IsEnd(next[k])
  BY <1>1, <1>2, <1>4
<1>6. \A i, j \in 1..(m + 1) : next[i].case.name = next[j].case.name => i = j
  BY <1>1, <1>2, <1>4
<1>7. Waiting(next)
  BY <1>2, <1>3, <1>5, <1>6 DEF Waiting
<1>8. HeldBack(next, said) = HeldBack(out, said) \cup {RecOf(line, said)}
  <2>1. HeldBack(next, said) = {RecOf(next[k], said) : k \in 1..(m + 1)}
    BY <1>3 DEF HeldBack
  <2>2. 1..(m + 1) = 1..m \cup {m + 1}
    BY <1>1
  <2>3. {RecOf(next[k], said) : k \in 1..(m + 1)}
        = {RecOf(next[k], said) : k \in 1..m} \cup {RecOf(next[m + 1], said)}
    BY <2>2
  <2>4. {RecOf(next[k], said) : k \in 1..m} = HeldBack(out, said)
    BY <1>1, <1>2 DEF HeldBack
  <2> QED BY <1>2, <2>1, <2>3, <2>4
<1> QED BY <1>7, <1>8 DEF next

LEMMA PairIs ==
  ASSUME NEW f, NEW s
  PROVE  Append(<<f>>, s) = <<f, s>>
<1>1. Append(<<f>>, s) = [i \in 1..(Len(<<f>>) + 1) |-> IF i = Len(<<f>>) + 1 THEN s ELSE <<f>>[i]]
  BY SeqOne, AppendIs
<1>2. <<f, s>> = [i \in 1..2 |-> IF i = 1 THEN f ELSE s]
  OBVIOUS
<1>3. Len(<<f>>) + 1 = 2 /\ <<f>>[1] = f
  OBVIOUS
<1>4. \A i \in 1..2 : (IF i = Len(<<f>>) + 1 THEN s ELSE <<f>>[i]) = (IF i = 1 THEN f ELSE s)
  BY <1>3
<1>5. [i \in 1..(Len(<<f>>) + 1) |-> IF i = Len(<<f>>) + 1 THEN s ELSE <<f>>[i]]
      = [i \in 1..2 |-> IF i = 1 THEN f ELSE s]
  BY <1>3, <1>4
<1> QED BY <1>1, <1>2, <1>5

Holding(f, out, b) == [f EXCEPT !.out = out, !.failed = b]
LEMMA FrameEnds ==
  ASSUME NEW f, f = [test |-> f.test, ran |-> f.ran, out |-> f.out, failed |-> f.failed],
         NEW out, NEW b
  PROVE  Holding(f, out, b) = [test |-> f.test, ran |-> f.ran, out |-> out, failed |-> b]
<1> DEFINE t == f.test
           r == f.ran
           x == f.failed
           o == f.out
<1>1. f = [test |-> t, ran |-> r, out |-> o, failed |-> x]
  OBVIOUS
<1> HIDE DEF t, r, x, o
<1>2. Holding(f, out, b) = [[f EXCEPT !.out = out] EXCEPT !.failed = b]
  BY <1>1 DEF Holding
<1>3. [f EXCEPT !.out = out] = [test |-> t, ran |-> r, out |-> out, failed |-> x]
  BY <1>1
<1>4. [[test |-> t, ran |-> r, out |-> out, failed |-> x] EXCEPT !.failed = b]
      = [test |-> t, ran |-> r, out |-> out, failed |-> b]
  OBVIOUS
<1> QED BY <1>2, <1>3, <1>4 DEF t, r

LEMMA TestedEndSub ==
  ASSUME NEW q, NEW f, NEW s, NEW lg, NEW D, NEW cut, NEW late, NEW said,
         Tested(q, <<f, CI!Frame(s)>>, lg, D, cut, late, said),
         NEW d \in Nat, NEW status \in {"PASS", "FAIL", "SKIP"}, NEW b
  PROVE  Tested(q, <<[f EXCEPT !.out = Append(@, CI!EndLine(status, CI!Case(s, d))), !.failed = b]>>,
                lg, D \cup {RecordOf(status, CI!Case(s, d), said)}, cut, late, said)
<1> DEFINE line == CI!EndLine(status, CI!Case(s, d))
           rec == RecordOf(status, CI!Case(s, d), said)
           g == [f EXCEPT !.out = Append(@, line), !.failed = b]
           E == D \cup {rec}
           p == CI!ParseTestOutput(lg)
<1>1. Framed(f, D) /\ s \in f.ran \ NamesOf(D)
  BY StackTwo DEF Tested
<1>2. s \in DOMAIN Parent /\ f.test # s
  BY <1>1 DEF Framed, IsTest
<1>3. Recorded(E) /\ NamesOf(E) = NamesOf(D) \cup {s} /\ rec \notin D
  <2>1. rec.name = s /\ rec.dur \in Nat /\ rec.status \in CI!Statuses
    BY DEF RecordOf, CI!Case, CI!Statuses
  <2> HIDE DEF rec
  <2> QED BY <1>1, <2>1, RecordMore DEF Tested
<1>4. /\ IsSeq(lg) /\ HeldBack(f.out, said) \subseteq D
      /\ Fits(p, D \ HeldBack(f.out, said), cut, late, said)
  BY TwoFrames DEF Tested, LogOk
<1>5. IsEnd(line) /\ line.case.name = s /\ RecOf(line, said) = rec
  BY EndLineIs
<1>6. \A k \in DOMAIN f.out : f.out[k].case.name # line.case.name
  BY <1>1, <1>4, <1>5, HeldNames
<1>7. /\ g.test = f.test /\ g.ran = f.ran /\ g.out = Append(f.out, line)
      /\ g = [test |-> g.test, ran |-> g.ran, out |-> g.out, failed |-> g.failed]
  <2> HIDE DEF line
  <2>1. f = [test |-> f.test, ran |-> f.ran, out |-> f.out, failed |-> f.failed]
    BY <1>1 DEF Framed
  <2>2. g = [test |-> f.test, ran |-> f.ran, out |-> Append(f.out, line), failed |-> b]
    <3> DEFINE o == Append(f.out, line)
    <3>1. g = Holding(f, o, b)
      BY <2>1 DEF Holding
    <3> HIDE DEF g, o
    <3>2. Holding(f, o, b) = [test |-> f.test, ran |-> f.ran, out |-> o, failed |-> b]
      BY <2>1, FrameEnds
    <3> QED BY <3>1, <3>2 DEF o
  <2> HIDE DEF g
  <2> QED BY <2>2
<1> HIDE DEF line, rec, g, p, E
<1>8. Waiting(g.out) /\ HeldBack(g.out, said) = HeldBack(f.out, said) \cup {rec}
  BY <1>1, <1>5, <1>6, <1>7, HeldMore DEF Framed
<1>9. Framed(g, E)
  BY <1>1, <1>2, <1>3, <1>7, <1>8 DEF Framed
<1>10. StackOk(<<g>>, E)
  BY <1>9 DEF StackOk
<1>11. SubsOk(<<g>>, E)
  <2>1. \A t \in NamesOf(D) \cap DOMAIN Parent : t \in f.ran \/ Parent[t] \in NamesOf(D)
    BY TwoFrames DEF Tested, SubsOk
  <2> QED BY <1>1, <1>3, <1>7, <2>1, OneFrame DEF SubsOk
<1>12. QueueOk(q, <<g>>, E)
  <2>1. /\ IsSeq(q) /\ \A j, k \in DOMAIN q : q[j] = q[k] => j = k
        /\ \A k \in DOMAIN q : IsTest(q[k]) /\ q[k] \notin NamesOf(D) /\ q[k] # f.test
    BY TwoFrames DEF Tested, QueueOk
  <2>2. \A k \in DOMAIN q : q[k] # s
    BY <1>2, <2>1 DEF IsTest
  <2> QED BY <1>3, <1>7, <2>1, <2>2, OneFrame DEF QueueOk
<1>13. LogOk(<<g>>, lg, E, cut, late, said)
  <2>1. Behind(<<g>>, said) = HeldBack(f.out, said) \cup {rec} /\ LastRan(<<g>>) = NoTest
    BY <1>1, <1>7, <1>8, OneFrame
  <2>2. E \ Behind(<<g>>, said) = D \ HeldBack(f.out, said) /\ Behind(<<g>>, said) \subseteq E
    BY <1>3, <1>4, <2>1 DEF E
  <2> QED BY <1>4, <2>1, <2>2 DEF LogOk, p
<1>14. Tested(q, <<g>>, lg, E, cut, late, said)
  BY <1>3, <1>10, <1>11, <1>12, <1>13 DEF Tested
<1> QED BY <1>14 DEF g, E, rec, line

LEMMA TestedEnd ==
  ASSUME NEW q, NEW f, NEW lg, NEW D, NEW cut, NEW late, NEW said,
         Tested(q, <<f>>, lg, D, cut, late, said),
         NEW d \in Nat, NEW status \in {"PASS", "FAIL", "SKIP"}
  PROVE  Tested(q, <<>>, lg \o (<<CI!EndLine(status, CI!Case(f.test, d))>> \o f.out),
                D \cup {RecordOf(status, CI!Case(f.test, d), said)}, cut, late, said)
<1> DEFINE c == CI!Case(f.test, d)
           line == CI!EndLine(status, c)
           rec == RecordOf(status, c, said)
           E == D \cup {rec}
           H == HeldBack(f.out, said)
           p == CI!ParseTestOutput(lg)
           more == Append(lg, line)
           next == lg \o (<<line>> \o f.out)
<1>1. Framed(f, D)
  BY StackOne DEF Tested
<1>2. IsTest(f.test) /\ f.test \notin NamesOf(D) /\ Waiting(f.out) /\ IsSeq(f.out)
  BY <1>1 DEF Framed, Waiting
<1>3. Recorded(E) /\ NamesOf(E) = NamesOf(D) \cup {f.test} /\ rec \notin D
  <2>1. rec.name = f.test /\ rec.dur \in Nat /\ rec.status \in CI!Statuses
    BY DEF RecordOf, CI!Case, CI!Statuses
  <2> HIDE DEF rec
  <2> QED BY <1>2, <2>1, RecordMore DEF Tested
<1>4. IsSeq(lg) /\ H \subseteq D /\ Fits(p, D \ H, cut, late, said)
  BY OneFrame DEF Tested, LogOk
<1>5. c.dur \in Nat /\ c = CI!Case(c.name, c.dur) /\ c.name = f.test /\ rec.name = f.test
  BY DEF CI!Case, RecordOf
<1>6. next = more \o f.out
  <2>1. \A x : lg \o (<<x>> \o f.out) = Append(lg, x) \o f.out
    <3>1. IsSeq(lg) /\ IsSeq(f.out)
      BY <1>2, <1>4
    <3>2. \A a, b, x : IsSeq(a) /\ IsSeq(b) => a \o (<<x>> \o b) = Append(a, x) \o b
      BY JoinMore
    <3> QED BY <3>1, <3>2
  <2> HIDE DEF line
  <2> QED BY <2>1
<1>7. IsSeq(more) /\ CI!ParseTestOutput(more) = CI!ReadLine(p, line)
  <2> HIDE DEF line
  <2> QED BY <1>4, SeqMore, ParseMore
<1>8. Fits(CI!ReadLine(p, line), (D \ H) \cup {rec}, cut, late, said)
  <2>1. \A x \in D \ H : x.name # c.name
    BY <1>2, <1>5 DEF NamesOf
  <2> HIDE DEF c, p, H
  <2> QED BY <1>4, <1>5, <2>1, FitsEnd
<1> HIDE DEF more, next, rec, line, p, c
<1>9. \A x \in (D \ H) \cup {rec}, k \in DOMAIN f.out : x.name # f.out[k].case.name
  <2> TAKE x \in (D \ H) \cup {rec}, k \in DOMAIN f.out
  <2>1. RecOf(f.out[k], said) \in D /\ f.out[k].case.name \in NamesOf(D)
        /\ RecOf(f.out[k], said).name = f.out[k].case.name
    <3> HIDE DEF H
    <3>1. HeldBack(f.out, said) \subseteq D
      BY <1>4 DEF H
    <3> QED BY <3>1, HeldNames
  <2>2. RecOf(f.out[k], said) \in H
    BY DEF HeldBack
  <2> HIDE DEF H
  <2>3. x = rec => x.name # f.out[k].case.name
    BY <1>2, <1>5, <2>1
  <2>4. x \in D \ H => x.name # f.out[k].case.name
    BY <2>1, <2>2 DEF Tested, Recorded
  <2> QED BY <2>3, <2>4
<1>10. Fits(CI!ParseTestOutput(next), E, cut, late, said)
  <2>1. Fits(CI!ParseTestOutput(more), (D \ H) \cup {rec}, cut, late, said)
    BY <1>7, <1>8
  <2>2. Fits(CI!ParseTestOutput(more \o f.out), ((D \ H) \cup {rec}) \cup H, cut, late, said)
    <3> DEFINE B == (D \ H) \cup {rec}
    <3>1. Fits(CI!ParseTestOutput(more), B, cut, late, said)
          /\ \A x \in B, k \in DOMAIN f.out : x.name # f.out[k].case.name
      BY <1>9, <2>1
    <3> HIDE DEF B
    <3>2. Fits(CI!ParseTestOutput(more \o f.out), B \cup HeldBack(f.out, said), cut, late, said)
      BY <1>2, <1>7, <3>1, FitsAll
    <3> QED BY <3>2 DEF B
  <2>3. ((D \ H) \cup {rec}) \cup H = E
    <3> HIDE DEF H
    <3> QED BY <1>4
  <2> QED BY <1>6, <2>2, <2>3
<1>11. IsSeq(next)
  BY <1>2, <1>6, <1>7, SeqJoin
<1>12. LogOk(<<>>, next, E, cut, late, said)
  <2>1. E \ {} = E
    OBVIOUS
  <2> HIDE DEF E
  <2> QED BY <1>10, <1>11, <2>1, NoneHeld DEF LogOk
<1>13. SubsOk(<<>>, E)
  <2>1. \A t \in NamesOf(D) \cap DOMAIN Parent : t \in f.ran \/ Parent[t] \in NamesOf(D)
    BY OneFrame DEF Tested, SubsOk
  <2> HIDE DEF E
  <2> QED BY <1>1, <1>2, <1>3, <2>1 DEF SubsOk, Framed, IsTest
<1>14. QueueOk(q, <<>>, E)
  <2>1. /\ IsSeq(q) /\ \A j, k \in DOMAIN q : q[j] = q[k] => j = k
        /\ \A k \in DOMAIN q : IsTest(q[k]) /\ q[k] \notin NamesOf(D) /\ q[k] # f.test
    BY OneFrame DEF Tested, QueueOk
  <2> HIDE DEF E
  <2> QED BY <1>3, <2>1 DEF QueueOk
<1>15. Tested(q, <<>>, next, E, cut, late, said)
  <2> HIDE DEF E
  <2> QED BY <1>3, <1>12, <1>13, <1>14 DEF Tested, StackOk
<1> QED BY <1>15 DEF next, rec, line, c

LEMMA TestedOver ==
  ASSUME NEW q, NEW st, NEW lg, NEW D, NEW cut, NEW late, NEW said,
         Tested(q, st, lg, D, cut, late, said),
         NEW all, cut => all, OutOf(st) # <<>> => all
  PROVE  Recorded(D) /\ Fits(CI!ParseTestOutput(lg), D, all, late, said)
<1> DEFINE p == CI!ParseTestOutput(lg)
           B == D \ Behind(st, said)
<1>1. Recorded(D) /\ Fits(p, B, cut, late, said)
  BY DEF Tested, LogOk
<1>2. all \/ B = D
  BY NoneHeld DEF Behind
<1>3. PICK R \in SUBSET B : /\ cut \/ R = B
                            /\ Reveals(p, R)
                            /\ ~p.cut /\ ~late => Told(p, R) /\ p.cand = said
  BY <1>1 DEF Fits
<1>4. Shaped(p) /\ p.cut \in BOOLEAN /\ (p.cut => all)
  BY <1>1 DEF Fits
<1>5. R \in SUBSET D /\ (all \/ R = D)
  BY <1>2, <1>3
<1> HIDE DEF p, B
<1>6. Fits(p, D, all, late, said)
  BY <1>3, <1>4, <1>5 DEF Fits
<1> QED BY <1>1, <1>6 DEF p
-----------------------------------------------------------------------------
(***************************************************************************)
(* The run.                                                                *)
(***************************************************************************)
FlagsFor(x, asked) == IF asked /\ x.phases # <<>> THEN x.outerFlags ELSE x.flags
OfSteps(x, asked, res, rns) ==
  /\ asked = (x.phases = <<>>) /\ (x.phases = <<>> => rns = <<>>)
  /\ IsSeq(res) /\ \A i \in DOMAIN res : StepSound(res[i])
  /\ \A i \in DOMAIN res : res[i].status # "PASS" => i = Len(res)
OfGroup(x, asked, res, rns) ==
  /\ asked = TRUE /\ x.phases # <<>> /\ rns # <<>>
  /\ \E d \in x.times, status \in {"PASS", "FAIL"} :
       /\ status = "PASS" => \A i \in DOMAIN rns : rns[i].exit = 0
       /\ res = <<CI!GroupResult(rns, status, d)>>
AllPassed(res) == \A i \in DOMAIN res : res[i].status = "PASS"
Written(flags, res, bk, code) ==
  \E loss \in CI!Losses :
    LET stats == CI!WriteReport(res, flags)
        bad == CI!HadFailure(res, stats, flags)
    IN  /\ bk = [report |-> CI!File("report", loss, stats),
                 summary |-> CI!File("summary", loss, CI!BuildRunSummary(res, stats, bad, "", <<>>)),
                 manifest |-> CI!File("manifest", loss, CI!BuildRunManifest(res)), lost |-> loss]
        /\ code = IF bad \/ loss # "none" THEN 1 ELSE 0
ItemsOk(td) == IsSeq(td) /\ \A k \in DOMAIN td : IsItem(td[k])

TestingInv ==
  IF pc = "testing"
  THEN /\ real = [ended |-> real.ended, said |-> real.said, late |-> real.late, cut |-> real.cut]
       /\ Tested(queue, stack, log, real.ended, real.cut, real.late, real.said)
       /\ todo # <<>>
  ELSE queue = <<>> /\ stack = <<>> /\ log = <<>> /\ real = CI!Nothing
AtPc ==
  /\ pc \in {"start", "loop", "testing", "report", "group", "done"}
  /\ pc # "done" => book = <<>>
  /\ pc = "start" => outer = TRUE /\ results = <<>> /\ runs = <<>>
  /\ pc \in {"loop", "testing"} => OfSteps(setup, outer, results, runs) /\ AllPassed(results)
  /\ pc = "report" => OfSteps(setup, outer, results, runs) \/ OfGroup(setup, outer, results, runs)
  /\ pc = "group" => setup.phases # <<>> /\ runs # <<>> /\ results = <<>>
  /\ pc = "done" =>
       \/ book = <<>> /\ results = <<>> /\ runs = <<>>
       \/ /\ outer = TRUE
          /\ OfSteps(setup, outer, results, runs) \/ OfGroup(setup, outer, results, runs)
          /\ Written(FlagsFor(setup, outer), results, book, exit)
  /\ pc = "start" \/ (pc = "done" /\ book = <<>>) \/ ~CI!BadFlags(FlagsFor(setup, TRUE))
RunInv == setup \in Setups /\ ItemsOk(todo) /\ RunsSound(runs) /\ AtPc
ReportsInv == RunInv /\ TestingInv

LEMMA FlagsAre == CI!Flags = FlagsFor(setup, outer)
BY DEF CI!Flags, FlagsFor

LEMMA ReportsStart == CI!Init => ReportsInv
<1> SUFFICES ASSUME CI!Init PROVE ReportsInv
  OBVIOUS
<1>1. IsSeq(<<>>) /\ DOMAIN <<>> = {}
  BY SeqEmpty
<1>2. ItemsOk(<<>>) /\ RunsSound(<<>>)
  BY <1>1 DEF ItemsOk, RunsSound
<1> QED BY <1>2 DEF CI!Init, ReportsInv, RunInv, AtPc, TestingInv

LEMMA SizeInReports == \A S : CI!Cardinality(S) = Cardinality(S)
BY DEF CI!Cardinality, Cardinality

\* what is found is run test by test
LEMMA ItemsAre ==
  ASSUME setup \in Setups
  PROVE  ItemsOk(CI!Items)
<1>1. CASE setup.all
  <2> DEFINE S == CI!DiscoverTestTargets(setup.found)
             n == Cardinality(S)
             f == CI!SetToSeq(S)
             l == [i \in DOMAIN f |-> CI!Single(f[i].name)]
  <2>1. S \subseteq setup.found /\ IsFiniteSet(setup.found) /\ \A x \in setup.found : IsTest(x.name)
    BY SetupsAssumption DEF CI!DiscoverTestTargets
  <2>2. IsFiniteSet(S)
    <3> HIDE DEF S
    <3> QED BY <2>1, FS_Subset
  <2>3. f \in [1..n -> S] /\ n \in Nat
    <3> HIDE DEF S
    <3>1. n \in Nat /\ ExistsBijection(1..n, S)
      BY <2>2, FS_CardinalityType
    <3>2. \E g \in [1..n -> S] : CI!IsInjective(g)
      <4>1. PICK g \in Bijection(1..n, S) : TRUE
        BY <3>1 DEF ExistsBijection
      <4>2. g \in [1..n -> S] /\ \A a, b \in 1..n : g[a] = g[b] => a = b
        BY <4>1 DEF Bijection, Injection, IsInjective
      <4>3. CI!IsInjective(g)
        BY <4>2 DEF CI!IsInjective
      <4> QED BY <4>2, <4>3
    <3>3. f = CHOOSE g \in [1..n -> S] : CI!IsInjective(g)
      <4>1. f = CHOOSE g \in [1..CI!Cardinality(S) -> S] : CI!IsInjective(g)
        BY Zenon DEF CI!SetToSeq
      <4>2. CI!Cardinality(S) = n
        BY SizeInReports
      <4> QED BY <4>1, <4>2
    <3> HIDE DEF f, n
    <3> QED BY <3>1, <3>2, <3>3, Zenon
  <2>4. CI!Items = l
    BY <1>1 DEF CI!Items
  <2> HIDE DEF S, n, f
  <2>5. DOMAIN l = 1..n /\ l = [i \in 1..n |-> l[i]]
    BY <2>3
  <2>6. \A i \in 1..n : IsItem(l[i])
    <3> TAKE i \in 1..n
    <3> DEFINE t == f[i].name
    <3>1. IsTest(t) /\ l[i] = CI!Single(t)
      BY <2>1, <2>3
    <3>2. CI!Single(t).given = <<t>> /\ CI!Single(t).tests = <<t>>
      BY DEF CI!Single
    <3> HIDE DEF t, l
    <3>3. <<t>> \in Seq(STRING) /\ DOMAIN <<t>> = {1} /\ <<t>>[1] = t
      <4>1. \A Z : t \in Z => <<t>> \in Seq(Z) /\ DOMAIN <<t>> = {1} /\ <<t>>[1] = t
        OBVIOUS
      <4> QED BY <3>1, <4>1 DEF IsTest
    <3> QED BY <3>1, <3>2, <3>3 DEF IsItem
  <2> HIDE DEF l
  <2>7. IsSeq(l)
    BY <2>3, <2>5, SeqMade
  <2> QED BY <2>4, <2>5, <2>6, <2>7 DEF ItemsOk
<1>2. CASE ~setup.all
  <2>1. CI!Items = setup.items
    BY <1>2 DEF CI!Items
  <2>2. setup.items \in Seq(ToSet(setup.items)) /\ \A i \in ToSet(setup.items) : IsItem(i)
    BY SetupsAssumption
  <2>3. IsSeq(setup.items)
    <3> HIDE DEF ToSet
    <3> QED BY <2>2, SeqTyped
  <2>4. \A k \in DOMAIN setup.items : setup.items[k] \in ToSet(setup.items)
    BY DEF ToSet
  <2> QED BY <2>1, <2>2, <2>3, <2>4 DEF ItemsOk
<1> QED BY <1>1, <1>2

LEMMA PhasesAre ==
  ASSUME setup \in Setups, NEW k \in 1..Len(setup.phases)
  PROVE  ItemsOk(<<setup.phases[k]>>)
<1>1. setup.phases \in Seq(ToSet(setup.phases)) /\ \A i \in ToSet(setup.phases) : IsItem(i)
  BY SetupsAssumption
<1>2. k \in DOMAIN setup.phases
  BY <1>1, SeqTyped, SeqIs
<1>3. IsItem(setup.phases[k])
  BY <1>1, <1>2 DEF ToSet
<1> DEFINE x == setup.phases[k]
<1> HIDE DEF x
<1>4. IsSeq(<<x>>) /\ DOMAIN <<x>> = {1} /\ <<x>>[1] = x
  BY SeqOne
<1>5. ItemsOk(<<x>>)
  BY <1>3, <1>4 DEF ItemsOk, x
<1> QED BY <1>5 DEF x
\* one more step of a run
LEMMA StepAdded ==
  ASSUME NEW x, NEW asked, NEW res, NEW rns, OfSteps(x, asked, res, rns), AllPassed(res),
         NEW r, StepSound(r)
  PROVE  /\ OfSteps(x, asked, Append(res, r), rns)
         /\ r.status = "PASS" => AllPassed(Append(res, r))
<1> DEFINE n == Len(res)
           l == Append(res, r)
<1>1. IsSeq(res) /\ n \in Nat /\ DOMAIN res = 1..n
  BY SeqIs DEF OfSteps
<1>2. /\ IsSeq(l) /\ Len(l) = n + 1 /\ \A i \in 1..n : l[i] = res[i]
      /\ l[n + 1] = r
  BY <1>1, SeqMore
<1>3. DOMAIN l = 1..(n + 1)
  BY <1>2, SeqIs
<1> HIDE DEF l, n
<1>4. \A i \in 1..(n + 1) : i \in 1..n \/ i = n + 1
  BY <1>1
<1>5. \A i \in DOMAIN l : StepSound(l[i])
  BY <1>1, <1>2, <1>3, <1>4 DEF OfSteps
<1>6. /\ r.status = "PASS" => AllPassed(l)
      /\ \A i \in DOMAIN l : l[i].status # "PASS" => i = n + 1
  BY <1>1, <1>2, <1>3, <1>4 DEF AllPassed
<1>7. OfSteps(x, asked, l, rns)
  BY <1>2, <1>5, <1>6 DEF OfSteps
<1> QED BY <1>6, <1>7 DEF l

LEMMA FirstItem ==
  ASSUME ItemsOk(todo), todo # <<>>
  PROVE  IsItem(Head(todo)) /\ ItemsOk(Tail(todo))
<1>1. /\ Len(todo) \in Nat /\ Len(todo) # 0 /\ DOMAIN todo = 1..Len(todo)
      /\ IsSeq(Tail(todo)) /\ Len(Tail(todo)) = Len(todo) - 1 /\ Head(todo) = todo[1]
      /\ \A i \in 1..Len(Tail(todo)) : Tail(todo)[i] = todo[i + 1]
  BY SeqIs, SeqRest DEF ItemsOk
<1>2. DOMAIN Tail(todo) = 1..Len(Tail(todo))
  BY <1>1, SeqIs
<1>3. \A i \in 1..Len(Tail(todo)) : i + 1 \in DOMAIN todo
  BY <1>1
<1> QED BY <1>1, <1>2, <1>3 DEF ItemsOk

LEMMA FinishKeeps ==
  ASSUME RunInv, pc \in {"loop", "testing"}, todo # <<>>,
         NEW status \in {"PASS", "FAIL"}, NEW lines, NEW truth, Recorded(truth.ended),
         Fits(CI!ParseTestOutput(lines), truth.ended, truth.cut, truth.late, truth.said),
         status = "PASS" => \A c \in truth.ended : c.status # "FAIL",
         CI!Finish(status, lines, truth)
  PROVE  ReportsInv'
<1> DEFINE r == CI!StepResult(Head(todo), status, lines, truth)
<1>1. IsItem(Head(todo)) /\ ItemsOk(Tail(todo))
  BY FirstItem DEF RunInv
<1>2. StepSound(r)
  BY <1>1, MadeSound
<1>3. r.status = status
  BY DEF CI!StepResult
<1> HIDE DEF r
<1>4. OfSteps(setup, outer, results, runs) /\ AllPassed(results)
  BY DEF RunInv, AtPc
<1>5. /\ OfSteps(setup, outer, Append(results, r), runs)
      /\ status = "PASS" => AllPassed(Append(results, r))
  BY <1>2, <1>3, <1>4, StepAdded
<1>6. /\ results' = Append(results, r)
      /\ IF status = "FAIL" THEN pc' = "report" /\ todo' = todo ELSE pc' = "loop" /\ todo' = Tail(todo)
      /\ log' = <<>> /\ real' = CI!Nothing /\ queue' = <<>> /\ stack' = <<>>
      /\ setup' = setup /\ outer' = outer /\ runs' = runs /\ book' = book /\ exit' = exit
  BY DEF CI!Finish, r
<1>7. book = <<>> /\ ~CI!BadFlags(FlagsFor(setup, TRUE))
  BY DEF RunInv, AtPc
<1>8. AtPc'
  BY <1>5, <1>6, <1>7 DEF AtPc
<1>9. setup' \in Setups /\ ItemsOk(todo)' /\ RunsSound(runs)'
  BY <1>1, <1>6 DEF RunInv
<1>10. TestingInv'
  BY <1>6 DEF TestingInv
<1> QED BY <1>8, <1>9, <1>10 DEF ReportsInv, RunInv

LEMMA BeginKeeps ==
  ASSUME ReportsInv, CI!Begin
  PROVE  ReportsInv'
<1>1. /\ pc = "start" /\ outer = TRUE /\ results = <<>> /\ runs = <<>> /\ book = <<>>
      /\ setup \in Setups /\ ItemsOk(todo) /\ RunsSound(runs)
      /\ queue = <<>> /\ stack = <<>> /\ log = <<>> /\ real = CI!Nothing
  BY DEF CI!Begin, ReportsInv, RunInv, AtPc, TestingInv
<1>2. /\ setup' = setup /\ results' = results /\ runs' = runs /\ book' = book
      /\ queue' = queue /\ stack' = stack /\ log' = log /\ real' = real
  BY DEF CI!Begin, CI!vItem
<1>3. TestingInv'
  BY <1>1, <1>2 DEF TestingInv, CI!Begin
<1>4. CASE CI!Refused
  <2>1. pc' = "done" /\ todo' = todo /\ outer' = outer
    BY <1>4 DEF CI!Begin
  <2>2. AtPc'
    BY <1>1, <1>2, <2>1 DEF AtPc
  <2> QED BY <1>1, <1>2, <1>3, <2>1, <2>2 DEF ReportsInv, RunInv
<1>5. CASE ~CI!Refused
  <2>1. /\ pc' = "loop" /\ outer' = (setup.phases = <<>>)
        /\ todo' = IF setup.phases = <<>> THEN CI!Items ELSE <<setup.phases[1]>>
    BY <1>5 DEF CI!Begin
  <2>2. ~CI!BadFlags(FlagsFor(setup, TRUE))
    BY <1>1, <1>5, FlagsAre DEF CI!Refused
  <2>3. IsSeq(<<>>) /\ DOMAIN <<>> = {}
    BY SeqEmpty
  <2>4. OfSteps(setup, setup.phases = <<>>, <<>>, <<>>) /\ AllPassed(<<>>)
    BY <2>3 DEF OfSteps, AllPassed
  <2>5. AtPc'
    BY <1>1, <1>2, <2>1, <2>2, <2>4 DEF AtPc
  <2>6. ItemsOk(todo')
    <3>1. CASE setup.phases = <<>>
      BY <1>1, <2>1, <3>1, ItemsAre
    <3>2. CASE setup.phases # <<>>
      <4>1. IsSeq(setup.phases)
        <5>1. setup.phases \in Seq(ToSet(setup.phases))
          BY <1>1, SetupsAssumption
        <5> QED BY <5>1, SeqTyped
      <4>2. 1 \in 1..Len(setup.phases)
        BY <3>2, <4>1, SeqIs
      <4> QED BY <1>1, <2>1, <3>2, <4>2, PhasesAre
    <3> QED BY <3>1, <3>2
  <2> QED BY <1>1, <1>2, <1>3, <2>5, <2>6 DEF ReportsInv, RunInv
<1> QED BY <1>4, <1>5

LEMMA CannotLogKeeps ==
  ASSUME ReportsInv, CI!CannotLog
  PROVE  ReportsInv'
<1> DEFINE r == [CI!StepResult(Head(todo), "FAIL", <<>>, CI!Nothing) EXCEPT !.logged = FALSE, !.FAIL = <<>>]
<1>1. StepSound(r)
  BY UnloggedSound
<1>2. /\ results' = Append(results, r) /\ pc = "loop" /\ pc' = "report"
      /\ setup' = setup /\ outer' = outer /\ todo' = todo /\ runs' = runs /\ book' = book /\ exit' = exit
      /\ queue' = queue /\ stack' = stack /\ log' = log /\ real' = real
  BY DEF CI!CannotLog, CI!vItem
<1> HIDE DEF r
<1>3. /\ OfSteps(setup, outer, results, runs) /\ AllPassed(results)
      /\ book = <<>> /\ ~CI!BadFlags(FlagsFor(setup, TRUE))
  BY <1>2 DEF ReportsInv, RunInv, AtPc
<1>4. OfSteps(setup, outer, Append(results, r), runs)
  BY <1>1, <1>3, StepAdded
<1>5. AtPc'
  BY <1>2, <1>3, <1>4 DEF AtPc
<1>6. TestingInv'
  BY <1>2 DEF TestingInv, ReportsInv
<1> QED BY <1>2, <1>5, <1>6 DEF ReportsInv, RunInv

LEMMA SetupFailsKeeps ==
  ASSUME ReportsInv, CI!SetupFails
  PROVE  ReportsInv'
<1>1. pc = "loop" /\ todo # <<>> /\ CI!Finish("FAIL", <<>>, CI!Nothing)
  BY DEF CI!SetupFails
<1>2. CI!Nothing.ended = {} /\ CI!Nothing.cut = FALSE /\ CI!Nothing.late = FALSE /\ CI!Nothing.said = {}
  BY DEF CI!Nothing
<1>3. Recorded({}) /\ Fits(CI!ParseTestOutput(<<>>), {}, FALSE, FALSE, {})
  BY FS_EmptySet, BlankFits, ParseNone DEF Recorded
<1> DEFINE truth == CI!Nothing
<1>4. Recorded(truth.ended) /\ Fits(CI!ParseTestOutput(<<>>), truth.ended, truth.cut, truth.late, truth.said)
  BY <1>2, <1>3
<1> HIDE DEF truth
<1> QED BY <1>1, <1>4, FinishKeeps DEF ReportsInv, truth

LEMMA GoTestKeeps ==
  ASSUME ReportsInv, CI!GoTest
  PROVE  ReportsInv'
<1>1. /\ pc = "loop" /\ todo # <<>> /\ pc' = "testing" /\ queue' = Head(todo).tests
      /\ setup' = setup /\ outer' = outer /\ todo' = todo /\ stack' = stack /\ log' = log
      /\ real' = real /\ results' = results /\ runs' = runs /\ book' = book /\ exit' = exit
  BY DEF CI!GoTest
<1>2. stack = <<>> /\ log = <<>> /\ real = CI!Nothing
  BY <1>1 DEF ReportsInv, TestingInv
<1>3. AtPc'
  BY <1>1 DEF ReportsInv, RunInv, AtPc
<1>4. Tested(Head(todo).tests, <<>>, <<>>, {}, FALSE, FALSE, {})
  BY <1>1, FirstItem, TestedStart DEF ReportsInv, RunInv
<1>5. /\ real'.ended = {} /\ real'.cut = FALSE /\ real'.late = FALSE /\ real'.said = {}
      /\ real' = [ended |-> real'.ended, said |-> real'.said, late |-> real'.late, cut |-> real'.cut]
  BY <1>1, <1>2 DEF CI!Nothing
<1>6. TestingInv'
  BY <1>1, <1>2, <1>4, <1>5 DEF TestingInv
<1> QED BY <1>1, <1>3, <1>6 DEF ReportsInv, RunInv

LEMMA LoopDoneKeeps ==
  ASSUME ReportsInv, CI!LoopDone
  PROVE  ReportsInv'
<1>1. /\ pc = "loop" /\ pc' = "report"
      /\ setup' = setup /\ outer' = outer /\ todo' = todo /\ results' = results /\ runs' = runs
      /\ book' = book /\ exit' = exit /\ queue' = queue /\ stack' = stack /\ log' = log /\ real' = real
  BY DEF CI!LoopDone, CI!vItem
<1>2. AtPc'
  BY <1>1 DEF ReportsInv, RunInv, AtPc
<1>3. TestingInv'
  BY <1>1 DEF TestingInv, ReportsInv
<1> QED BY <1>1, <1>2, <1>3 DEF ReportsInv, RunInv
\* the tests go on, and the run waits for them
LEMMA TestsGoOn ==
  ASSUME ReportsInv, pc = "testing", UNCHANGED CI!vRun,
         Tested(queue', stack', log', real'.ended, real'.cut, real'.late, real'.said),
         real' = [ended |-> real'.ended, said |-> real'.said, late |-> real'.late, cut |-> real'.cut]
  PROVE  ReportsInv'
<1>1. /\ setup' = setup /\ pc' = pc /\ outer' = outer /\ todo' = todo /\ results' = results
      /\ runs' = runs /\ book' = book /\ exit' = exit
  BY DEF CI!vRun
<1>2. AtPc'
  BY <1>1 DEF ReportsInv, RunInv, AtPc
<1>3. TestingInv'
  BY <1>1 DEF ReportsInv, TestingInv
<1> QED BY <1>1, <1>2, <1>3 DEF ReportsInv, RunInv

LEMMA InTesting ==
  ASSUME ReportsInv, pc = "testing"
  PROVE  /\ Tested(queue, stack, log, real.ended, real.cut, real.late, real.said)
         /\ real = [ended |-> real.ended, said |-> real.said, late |-> real.late, cut |-> real.cut]
         /\ StackOk(stack, real.ended) /\ Recorded(real.ended)
         /\ todo # <<>> /\ RunInv /\ setup \in Setups
BY DEF ReportsInv, TestingInv, Tested, RunInv

LEMMA OneRunning ==
  ASSUME NEW D, StackOk(stack, D), Len(stack) = 1
  PROVE  \E f : stack = <<f>> /\ CI!Top = f /\ stack[1] = f
<1>1. \A f, s : stack # <<f, CI!Frame(s)>>
  <2> SUFFICES ASSUME NEW f, NEW s, stack = <<f, CI!Frame(s)>> PROVE FALSE
    OBVIOUS
  <2>1. Len(<<f, CI!Frame(s)>>) = 2
    OBVIOUS
  <2> QED BY <2>1
<1>2. stack # <<>>
  BY SeqEmpty
<1>3. PICK f : stack = <<f>>
  BY <1>1, <1>2 DEF StackOk
<1> QED BY <1>3 DEF CI!Top, CI!Last

LEMMA TwoRunning ==
  ASSUME NEW D, StackOk(stack, D), Len(stack) = 2
  PROVE  \E f, s : stack = <<f, CI!Frame(s)>> /\ CI!Top.test = s /\ stack[1] = f /\ Framed(f, D)
<1>1. \A f : stack # <<f>>
  <2> SUFFICES ASSUME NEW f, stack = <<f>> PROVE FALSE
    OBVIOUS
  <2>1. Len(<<f>>) = 1
    OBVIOUS
  <2> QED BY <2>1
<1>2. stack # <<>>
  BY SeqEmpty
<1>3. PICK f, s : stack = <<f, CI!Frame(s)>> /\ Framed(f, D)
  BY <1>1, <1>2 DEF StackOk
<1> QED BY <1>3 DEF CI!Top, CI!Last, CI!Frame

LEMMA RunTestKeeps ==
  ASSUME ReportsInv, CI!RunTest
  PROVE  ReportsInv'
<1>1. /\ pc = "testing" /\ stack = <<>> /\ queue # <<>> /\ UNCHANGED CI!vRun
      /\ stack' = <<CI!Frame(Head(queue))>> /\ queue' = Tail(queue) /\ real' = real
      /\ log' = log \o <<CI!NameLine("run", Head(queue))>>
  BY DEF CI!RunTest, CI!Writes
<1>2. Tested(queue, <<>>, log, real.ended, real.cut, real.late, real.said)
  BY <1>1, InTesting
<1>3. Tested(Tail(queue), <<CI!Frame(Head(queue))>>, log \o <<CI!NameLine("run", Head(queue))>>,
             real.ended, real.cut, real.late, real.said)
  BY <1>1, <1>2, TestedRun
<1>4. Tested(queue', stack', log', real'.ended, real'.cut, real'.late, real'.said)
  BY <1>1, <1>3
<1> QED BY <1>1, <1>4, InTesting, TestsGoOn

LEMMA RunSubKeeps ==
  ASSUME ReportsInv, NEW s \in DOMAIN Parent, CI!RunSub(s)
  PROVE  ReportsInv'
<1>1. /\ pc = "testing" /\ Len(stack) = 1 /\ s \in CI!SubsOf(CI!Top.test) \ CI!Top.ran
      /\ stack' = Append([stack EXCEPT ![1].ran = @ \cup {s}], CI!Frame(s))
      /\ log' = log \o <<CI!NameLine("run", s)>>
      /\ UNCHANGED CI!vRun /\ queue' = queue /\ real' = real
  BY DEF CI!RunSub, CI!InTest, CI!Writes
<1>2. PICK f : stack = <<f>> /\ CI!Top = f
  BY <1>1, InTesting, OneRunning
<1> DEFINE g == [f EXCEPT !.ran = @ \cup {s}]
<1>3. Parent[s] = f.test /\ s \notin f.ran
  BY <1>1, <1>2 DEF CI!SubsOf
<1>4. Tested(queue, <<f>>, log, real.ended, real.cut, real.late, real.said)
  BY <1>1, <1>2, InTesting
<1>5. Tested(queue, <<g, CI!Frame(s)>>, log \o <<CI!NameLine("run", s)>>,
             real.ended, real.cut, real.late, real.said)
  BY <1>3, <1>4, TestedSub
<1>6. [stack EXCEPT ![1].ran = @ \cup {s}] = <<g>>
  BY <1>2
<1> HIDE DEF g
<1>7. stack' = <<g, CI!Frame(s)>>
  BY <1>1, <1>6, PairIs
<1>8. Tested(queue', stack', log', real'.ended, real'.cut, real'.late, real'.said)
  BY <1>1, <1>5, <1>7
<1> QED BY <1>1, <1>8, InTesting, TestsGoOn

LEMMA SayKeepsAll ==
  ASSUME ReportsInv, CI!Say
  PROVE  ReportsInv'
<1> DEFINE top == stack[Len(stack)]
           later == real.late \/ top.ran # {}
<1>1. /\ pc = "testing" /\ stack # <<>> /\ UNCHANGED CI!vRun /\ queue' = queue /\ stack' = stack
      /\ real' = [real EXCEPT !.said = @ \cup {top.test}, !.late = @ \/ top.ran # {}]
      /\ log' = log \o <<CI!NameLine("deferred", NoTest)>>
  BY DEF CI!Say, CI!InTest, CI!Writes, CI!Top, CI!Last
<1>2. /\ real'.ended = real.ended /\ real'.cut = real.cut /\ real'.late = later
      /\ real'.said = real.said \cup {top.test}
      /\ real' = [ended |-> real'.ended, said |-> real'.said, late |-> real'.late, cut |-> real'.cut]
  <2>1. real = [ended |-> real.ended, said |-> real.said, late |-> real.late, cut |-> real.cut]
    BY <1>1, InTesting
  <2> HIDE DEF top
  <2>2. PICK e, a, l, c : real = [ended |-> e, said |-> a, late |-> l, cut |-> c]
    BY <2>1
  <2>3. real' = [[real EXCEPT !.said = @ \cup {top.test}] EXCEPT !.late = @ \/ top.ran # {}]
    BY <1>1, <2>2
  <2>4. real' = [ended |-> e, said |-> a \cup {top.test}, late |-> l \/ top.ran # {}, cut |-> c]
    BY <2>2, <2>3
  <2> QED BY <2>2, <2>4
<1>3. Tested(queue, stack, log, real.ended, real.cut, real.late, real.said)
  BY <1>1, InTesting
<1>4. (real.late => real'.late) /\ (top.ran # {} => real'.late)
  BY <1>2
<1>5. Tested(queue, stack, log \o <<CI!NameLine("deferred", NoTest)>>,
             real.ended, real.cut, real'.late, real.said \cup {top.test})
  BY <1>1, <1>3, <1>4, TestedSay
<1> HIDE DEF top, later
<1>6. Tested(queue', stack', log', real'.ended, real'.cut, real'.late, real'.said)
  BY <1>1, <1>2, <1>5
<1> QED BY <1>1, <1>2, <1>6, TestsGoOn

LEMMA LongLineKeeps ==
  ASSUME ReportsInv, CI!WriteLongLine
  PROVE  ReportsInv'
<1>1. /\ pc = "testing" /\ UNCHANGED CI!vRun /\ queue' = queue /\ stack' = stack
      /\ real' = [real EXCEPT !.cut = TRUE] /\ log' = log \o <<CI!LongLine>>
  BY DEF CI!WriteLongLine, CI!InTest, CI!Writes
<1>2. /\ real'.ended = real.ended /\ real'.cut = TRUE /\ real'.late = real.late
      /\ real'.said = real.said
      /\ real' = [ended |-> real'.ended, said |-> real'.said, late |-> real'.late, cut |-> real'.cut]
  BY <1>1, InTesting
<1>3. Tested(queue, stack, log, real.ended, real.cut, real.late, real.said)
  BY <1>1, InTesting
<1>4. Tested(queue, stack, log \o <<CI!LongLine>>, real.ended, TRUE, real.late, real.said)
  BY <1>3, TestedLong
<1>5. Tested(queue', stack', log', real'.ended, real'.cut, real'.late, real'.said)
  BY <1>1, <1>2, <1>4
<1> QED BY <1>1, <1>2, <1>5, TestsGoOn

\* what really happened gains the end of a test
LEMMA EndedIs ==
  ASSUME NEW t, NEW status, NEW d, CI!Ended(t, status, d), ReportsInv, pc = "testing"
  PROVE  /\ real'.ended = real.ended \cup {RecordOf(status, CI!Case(t, d), real.said)}
         /\ real'.cut = real.cut /\ real'.late = real.late /\ real'.said = real.said
         /\ real' = [ended |-> real'.ended, said |-> real'.said, late |-> real'.late, cut |-> real'.cut]
<1> DEFINE rec == [name |-> t, dur |-> d,
                   status |-> IF status = "SKIP" /\ t \in real.said THEN "DEFERRED" ELSE status]
<1>1. rec = RecordOf(status, CI!Case(t, d), real.said)
  BY DEF RecordOf, CI!Case
<1>2. real' = [real EXCEPT !.ended = @ \cup {rec}]
  BY DEF CI!Ended
<1> HIDE DEF rec
<1>3. real' = [ended |-> real.ended \cup {rec}, said |-> real.said, late |-> real.late, cut |-> real.cut]
  <2>1. real = [ended |-> real.ended, said |-> real.said, late |-> real.late, cut |-> real.cut]
    BY InTesting
  <2>2. PICK e, a, l, c : real = [ended |-> e, said |-> a, late |-> l, cut |-> c]
    BY <2>1
  <2>3. real' = [ended |-> e \cup {rec}, said |-> a, late |-> l, cut |-> c]
    BY <1>2, <2>2
  <2> QED BY <2>2, <2>3
<1> QED BY <1>1, <1>3

LEMMA EndSubKeeps ==
  ASSUME ReportsInv, NEW status \in {"PASS", "FAIL", "SKIP"}, CI!EndSub(status)
  PROVE  ReportsInv'
<1> DEFINE d == setup.short
<1>1. /\ pc = "testing" /\ Len(stack) = 2 /\ UNCHANGED CI!vRun /\ queue' = queue /\ log' = log
      /\ stack' = <<[stack[1] EXCEPT !.out = Append(@, CI!EndLine(status, CI!Case(CI!Top.test, d))),
                                     !.failed = @ \/ status = "FAIL"]>>
      /\ CI!Ended(CI!Top.test, status, d)
  BY DEF CI!EndSub, CI!InTest
<1>2. d \in Nat
  BY <1>1, InTesting, SetupsAssumption
<1> HIDE DEF d
<1>3. PICK f, s : stack = <<f, CI!Frame(s)>> /\ CI!Top.test = s /\ stack[1] = f
  BY <1>1, InTesting, TwoRunning
<1> DEFINE b == f.failed \/ status = "FAIL"
           g == [f EXCEPT !.out = Append(@, CI!EndLine(status, CI!Case(s, d))), !.failed = b]
           rec == RecordOf(status, CI!Case(s, d), real.said)
<1>4. stack' = <<g>>
  BY <1>1, <1>3
<1>5. Tested(queue, <<f, CI!Frame(s)>>, log, real.ended, real.cut, real.late, real.said)
  BY <1>1, <1>3, InTesting
<1>6. Tested(queue, <<g>>, log, real.ended \cup {rec}, real.cut, real.late, real.said)
  <2> HIDE DEF b
  <2> QED BY <1>2, <1>5, TestedEndSub
<1>7. CI!Ended(s, status, d)
  BY <1>1, <1>3
<1> HIDE DEF g
<1>8. /\ real'.ended = real.ended \cup {rec}
      /\ real'.cut = real.cut /\ real'.late = real.late /\ real'.said = real.said
      /\ real' = [ended |-> real'.ended, said |-> real'.said, late |-> real'.late, cut |-> real'.cut]
  BY <1>1, <1>7, EndedIs
<1> HIDE DEF rec
<1>9. Tested(queue', stack', log', real'.ended, real'.cut, real'.late, real'.said)
  BY <1>1, <1>4, <1>6, <1>8
<1> QED BY <1>1, <1>8, <1>9, TestsGoOn

LEMMA EndTestKeeps ==
  ASSUME ReportsInv, NEW status \in {"PASS", "FAIL", "SKIP"}, NEW d \in setup.times,
         CI!EndTest(status, d)
  PROVE  ReportsInv'
<1>1. /\ pc = "testing" /\ Len(stack) = 1 /\ UNCHANGED CI!vRun /\ queue' = queue /\ stack' = <<>>
      /\ log' = log \o (<<CI!EndLine(status, CI!Case(CI!Top.test, d))>> \o CI!Top.out)
      /\ CI!Ended(CI!Top.test, status, d)
  BY DEF CI!EndTest, CI!InTest, CI!Writes
<1>2. d \in Nat
  BY <1>1, InTesting, SetupsAssumption
<1>3. PICK f : stack = <<f>> /\ CI!Top = f
  BY <1>1, InTesting, OneRunning
<1> DEFINE rec == RecordOf(status, CI!Case(f.test, d), real.said)
           next == log \o (<<CI!EndLine(status, CI!Case(f.test, d))>> \o f.out)
<1>4. log' = next /\ CI!Ended(f.test, status, d)
  BY <1>1, <1>3
<1>5. Tested(queue, <<f>>, log, real.ended, real.cut, real.late, real.said)
  BY <1>1, <1>3, InTesting
<1>6. Tested(queue, <<>>, next, real.ended \cup {rec}, real.cut, real.late, real.said)
  BY <1>2, <1>5, TestedEnd
<1> HIDE DEF next
<1>7. /\ real'.ended = real.ended \cup {rec}
      /\ real'.cut = real.cut /\ real'.late = real.late /\ real'.said = real.said
      /\ real' = [ended |-> real'.ended, said |-> real'.said, late |-> real'.late, cut |-> real'.cut]
  BY <1>1, <1>4, EndedIs
<1> HIDE DEF rec
<1>8. Tested(queue', stack', log', real'.ended, real'.cut, real'.late, real'.said)
  BY <1>1, <1>4, <1>6, <1>7
<1> QED BY <1>1, <1>7, <1>8, TestsGoOn

LEMMA TestsDieKeeps ==
  ASSUME ReportsInv, CI!TestsDie
  PROVE  ReportsInv'
<1> DEFINE out == stack[1].out
           truth == [real EXCEPT !.cut = @ \/ out # <<>>]
<1>1. pc = "testing" /\ stack # <<>> /\ CI!Finish("FAIL", log, truth)
  BY DEF CI!TestsDie, CI!InTest
<1>2. /\ truth.ended = real.ended /\ truth.late = real.late /\ truth.said = real.said
      /\ real.cut => truth.cut
      /\ out # <<>> => truth.cut
  <2>1. real = [ended |-> real.ended, said |-> real.said, late |-> real.late, cut |-> real.cut]
    BY <1>1, InTesting
  <2> HIDE DEF out
  <2> QED BY <2>1
<1>3. OutOf(stack) = out
  BY <1>1 DEF OutOf
<1>4. Tested(queue, stack, log, real.ended, real.cut, real.late, real.said)
  BY <1>1, InTesting
<1> HIDE DEF out, truth
<1>5. Recorded(real.ended) /\ Fits(CI!ParseTestOutput(log), real.ended, truth.cut, real.late, real.said)
  BY <1>2, <1>3, <1>4, TestedOver
<1>6. Recorded(truth.ended) /\ Fits(CI!ParseTestOutput(log), truth.ended, truth.cut, truth.late, truth.said)
  BY <1>2, <1>5
<1> QED BY <1>1, <1>6, InTesting, FinishKeeps

LEMMA GoTestDoneKeeps ==
  ASSUME ReportsInv, CI!GoTestDone
  PROVE  ReportsInv'
<1> DEFINE status == IF \E c \in real.ended : c.status = "FAIL" THEN "FAIL" ELSE "PASS"
<1>1. pc = "testing" /\ stack = <<>> /\ CI!Finish(status, log, real)
  BY DEF CI!GoTestDone
<1>2. status \in {"PASS", "FAIL"} /\ (status = "PASS" => \A c \in real.ended : c.status # "FAIL")
  OBVIOUS
<1> HIDE DEF status
<1>3. Tested(queue, stack, log, real.ended, real.cut, real.late, real.said) /\ OutOf(stack) = <<>>
  BY <1>1, InTesting, NoneHeld
<1>4. Recorded(real.ended) /\ Fits(CI!ParseTestOutput(log), real.ended, real.cut, real.late, real.said)
  BY <1>3, TestedOver
<1> QED BY <1>1, <1>2, <1>4, InTesting, FinishKeeps

\* the end of the run that was asked for
LEMMA ReportOuter ==
  ASSUME ReportsInv, outer, NEW loss \in CI!Losses, NEW harm \in CI!Damages, CI!Report(loss, harm)
  PROVE  ReportsInv'
<1> DEFINE flags == FlagsFor(setup, outer)
           stats == CI!WriteReport(results, flags)
           bad == CI!HadFailure(results, stats, flags)
           bk == [report |-> CI!File("report", loss, stats),
                  summary |-> CI!File("summary", loss,
                                      CI!BuildRunSummary(results, stats, bad, "", <<>>)),
                  manifest |-> CI!File("manifest", loss, CI!BuildRunManifest(results)),
                  lost |-> loss]
           code == IF bad \/ loss # "none" THEN 1 ELSE 0
<1>1. /\ pc = "report" /\ pc' = "done" /\ book' = bk /\ exit' = code
      /\ setup' = setup /\ outer' = outer /\ todo' = todo /\ runs' = runs /\ results' = results
      /\ queue' = queue /\ stack' = stack /\ log' = log /\ real' = real
  BY FlagsAre DEF CI!Report, CI!vItem
<1>2. Written(flags, results, bk, code)
  BY DEF Written
<1> HIDE DEF flags, bk, code
<1>3. /\ outer = TRUE /\ ~CI!BadFlags(FlagsFor(setup, TRUE))
      /\ OfSteps(setup, outer, results, runs) \/ OfGroup(setup, outer, results, runs)
  BY <1>1 DEF ReportsInv, RunInv, AtPc, OfSteps, OfGroup
<1>4. Written(FlagsFor(setup, outer), results, book', exit')
  BY <1>1, <1>2 DEF flags
<1>5. AtPc'
  BY <1>1, <1>3, <1>4 DEF AtPc
<1>6. TestingInv'
  BY <1>1 DEF ReportsInv, TestingInv
<1> QED BY <1>1, <1>5, <1>6 DEF ReportsInv, RunInv

\* what the run of a phase leaves to the group step
PhaseRun(res, flags, stats, loss, harm, pattern) ==
  LET bad == CI!HadFailure(res, stats, flags) IN
    [results |-> res, exit |-> IF bad \/ loss # "none" THEN 1 ELSE 0,
     announced |-> loss = "none", noisy |-> harm = "noisy", gone |-> harm = "gone",
     readable |-> harm # "unreadable",
     summary |-> CI!BuildRunSummary(res, stats, bad, pattern, <<>>)]

LEMMA PhaseSound ==
  ASSUME NEW res, IsSeq(res), \A j \in DOMAIN res : StepSound(res[j]),
         NEW flags, NEW stats, NEW loss, NEW harm, NEW pattern
  PROVE  RunSound(PhaseRun(res, flags, stats, loss, harm, pattern))
<1> DEFINE bad == CI!HadFailure(res, stats, flags)
           sum == CI!BuildRunSummary(res, stats, bad, pattern, <<>>)
           code == IF bad \/ loss # "none" THEN 1 ELSE 0
           run == [results |-> res, exit |-> code, announced |-> loss = "none",
                   noisy |-> harm = "noisy", gone |-> harm = "gone",
                   readable |-> harm # "unreadable", summary |-> sum]
<1>1. sum.given = <<>> /\ sum.steps = [j \in DOMAIN res |->
        [name |-> res[j].name, status |-> res[j].status, log |-> res[j].log, count |-> CI!Count(res[j])]]
  BY DEF CI!BuildRunSummary
<1>2. ~bad => \A j \in DOMAIN res : res[j].status = "PASS"
  BY DEF CI!HadFailure
<1> HIDE DEF bad, sum
<1>3. code \in {0, 1} /\ (code = 0 => ~bad /\ loss = "none")
  OBVIOUS
<1> HIDE DEF code
<1>4. /\ run.results = res /\ run.exit = code /\ run.announced = (loss = "none")
      /\ run.gone = (harm = "gone") /\ run.summary = sum
  OBVIOUS
<1> HIDE DEF run
<1>5. RunSound(run)
  BY <1>1, <1>2, <1>3, <1>4 DEF RunSound
<1> QED BY <1>5 DEF run, code, sum, bad, PhaseRun

LEMMA RunAdded ==
  ASSUME NEW within, RunsSound(within), NEW run, RunSound(run)
  PROVE  RunsSound(Append(within, run)) /\ Append(within, run) # <<>>
<1> DEFINE n == Len(within)
           l == Append(within, run)
<1>1. IsSeq(within) /\ n \in Nat /\ DOMAIN within = 1..n
  BY SeqIs DEF RunsSound
<1>2. IsSeq(l) /\ Len(l) = n + 1 /\ l # <<>> /\ (\A i \in 1..n : l[i] = within[i]) /\ l[n + 1] = run
  BY <1>1, SeqMore
<1>3. DOMAIN l = 1..(n + 1)
  BY <1>2, SeqIs
<1> HIDE DEF l, n
<1>4. \A i \in 1..(n + 1) : i \in 1..n \/ i = n + 1
  BY <1>1
<1>5. \A i \in DOMAIN l : RunSound(l[i])
  BY <1>1, <1>2, <1>3, <1>4 DEF RunsSound
<1>6. RunsSound(l)
  BY <1>2, <1>5 DEF RunsSound
<1> QED BY <1>2, <1>6 DEF l

\* the end of the run of a phase
LEMMA ReportPhase ==
  ASSUME ReportsInv, ~outer, NEW loss \in CI!Losses, NEW harm \in CI!Damages, CI!Report(loss, harm)
  PROVE  ReportsInv'
<1> DEFINE flags == FlagsFor(setup, outer)
           stats == CI!WriteReport(results, flags)
           bad == CI!HadFailure(results, stats, flags)
           code == IF bad \/ loss # "none" THEN 1 ELSE 0
           next == Len(runs) + 2
           pattern == setup.phases[Len(runs) + 1].pattern
           run == [results |-> results, exit |-> code, announced |-> loss = "none",
                   noisy |-> harm = "noisy", gone |-> harm = "gone",
                   readable |-> harm # "unreadable",
                   summary |-> CI!BuildRunSummary(results, stats, bad, pattern, <<>>)]
<1>1. /\ pc = "report" /\ runs' = Append(runs, run) /\ results' = <<>> /\ book' = book /\ exit' = exit
      /\ IF code = 1 \/ next > Len(setup.phases)
         THEN pc' = "group" /\ todo' = <<>> ELSE pc' = "loop" /\ todo' = <<setup.phases[next]>>
      /\ setup' = setup /\ outer' = outer
      /\ queue' = queue /\ stack' = stack /\ log' = log /\ real' = real
  BY FlagsAre DEF CI!Report, CI!vItem
<1>2. /\ setup \in Setups /\ RunsSound(runs) /\ book = <<>> /\ ~CI!BadFlags(FlagsFor(setup, TRUE))
      /\ OfSteps(setup, outer, results, runs)
  BY <1>1 DEF ReportsInv, RunInv, AtPc, OfGroup
<1>3. /\ setup.phases # <<>> /\ outer = FALSE
      /\ IsSeq(results) /\ \A j \in DOMAIN results : StepSound(results[j])
  BY <1>2 DEF OfSteps
<1> HIDE DEF flags, stats, pattern
<1>4. RunSound(run)
  <2>1. run = PhaseRun(results, flags, stats, loss, harm, pattern)
    BY DEF PhaseRun
  <2> HIDE DEF run
  <2> QED BY <1>3, <2>1, PhaseSound
<1> HIDE DEF run, code
<1>5. RunsSound(runs') /\ runs' # <<>>
  BY <1>1, <1>2, <1>4, RunAdded
<1>6. TestingInv'
  BY <1>1 DEF ReportsInv, TestingInv
<1>7. IsSeq(<<>>) /\ DOMAIN <<>> = {}
  BY SeqEmpty
<1>8. CASE code = 1 \/ next > Len(setup.phases)
  <2>1. AtPc'
    BY <1>1, <1>2, <1>3, <1>5, <1>8 DEF AtPc
  <2>2. ItemsOk(todo')
    BY <1>1, <1>7, <1>8 DEF ItemsOk
  <2> QED BY <1>1, <1>2, <1>5, <1>6, <2>1, <2>2 DEF ReportsInv, RunInv
<1>9. CASE ~(code = 1 \/ next > Len(setup.phases))
  <2>1. pc' = "loop" /\ todo' = <<setup.phases[next]>>
    BY <1>1, <1>9
  <2>2. next \in 1..Len(setup.phases)
    <3>1. Len(runs) \in Nat
      BY <1>2, SeqIs DEF RunsSound
    <3>2. IsSeq(setup.phases)
      <4>1. setup.phases \in Seq(ToSet(setup.phases))
        BY <1>2, SetupsAssumption
      <4> QED BY <4>1, SeqTyped
    <3>3. Len(setup.phases) \in Nat
      BY <3>2, SeqIs
    <3> QED BY <1>9, <3>1, <3>3
  <2>3. ItemsOk(todo')
    <3>1. ItemsOk(<<setup.phases[next]>>)
      BY <1>2, <2>2, PhasesAre
    <3> QED BY <2>1, <3>1
  <2>4. OfSteps(setup, FALSE, <<>>, runs') /\ AllPassed(<<>>)
    BY <1>3, <1>7 DEF OfSteps, AllPassed
  <2>5. AtPc'
    BY <1>1, <1>2, <1>3, <2>1, <2>4 DEF AtPc
  <2> QED BY <1>1, <1>2, <1>5, <1>6, <2>3, <2>5 DEF ReportsInv, RunInv
<1> QED BY <1>8, <1>9

LEMMA EndGroupKeeps ==
  ASSUME ReportsInv, NEW d \in setup.times, NEW fails \in BOOLEAN, CI!EndGroup(d, fails)
  PROVE  ReportsInv'
<1> DEFINE status == IF fails \/ \E i \in DOMAIN runs : runs[i].exit = 1 THEN "FAIL" ELSE "PASS"
           res == <<CI!GroupResult(runs, status, d)>>
<1>1. /\ pc = "group" /\ results' = res /\ outer' = TRUE /\ pc' = "report"
      /\ setup' = setup /\ todo' = todo /\ runs' = runs /\ book' = book /\ exit' = exit
      /\ queue' = queue /\ stack' = stack /\ log' = log /\ real' = real
  BY DEF CI!EndGroup, CI!vItem
<1>2. /\ setup \in Setups /\ setup.phases # <<>> /\ runs # <<>> /\ book = <<>>
      /\ ~CI!BadFlags(FlagsFor(setup, TRUE)) /\ RunsSound(runs)
  BY <1>1 DEF ReportsInv, RunInv, AtPc
<1>3. status \in {"PASS", "FAIL"} /\ (status = "PASS" => \A i \in DOMAIN runs : runs[i].exit = 0)
  BY <1>2 DEF RunsSound, RunSound
<1> HIDE DEF status
<1>4. OfGroup(setup, TRUE, res, runs)
  BY <1>2, <1>3 DEF OfGroup
<1> HIDE DEF res
<1>5. AtPc'
  BY <1>1, <1>2, <1>4 DEF AtPc
<1>6. TestingInv'
  BY <1>1 DEF ReportsInv, TestingInv
<1> QED BY <1>1, <1>2, <1>5, <1>6 DEF ReportsInv, RunInv

LEMMA ReportsStep == ReportsInv /\ [CI!Next]_(CI!vars) => ReportsInv'
<1> SUFFICES ASSUME ReportsInv, [CI!Next]_(CI!vars) PROVE ReportsInv'
  OBVIOUS
<1>1. CASE CI!Begin
  BY <1>1, BeginKeeps
<1>2. CASE CI!CannotLog
  BY <1>2, CannotLogKeeps
<1>3. CASE CI!SetupFails
  BY <1>3, SetupFailsKeeps
<1>4. CASE CI!GoTest
  BY <1>4, GoTestKeeps
<1>5. CASE CI!RunTest
  BY <1>5, RunTestKeeps
<1>6. ASSUME NEW s \in DOMAIN Parent, CI!RunSub(s) PROVE ReportsInv'
  BY <1>6, RunSubKeeps
<1>7. CASE CI!Say
  BY <1>7, SayKeepsAll
<1>8. CASE CI!WriteLongLine
  BY <1>8, LongLineKeeps
<1>9. ASSUME NEW status \in {"PASS", "FAIL", "SKIP"}, CI!EndSub(status) PROVE ReportsInv'
  BY <1>9, EndSubKeeps
<1>10. ASSUME NEW status \in {"PASS", "FAIL", "SKIP"}, NEW d \in setup.times, CI!EndTest(status, d)
       PROVE  ReportsInv'
  BY <1>10, EndTestKeeps
<1>11. CASE CI!TestsDie
  BY <1>11, TestsDieKeeps
<1>12. CASE CI!GoTestDone
  BY <1>12, GoTestDoneKeeps
<1>13. CASE CI!LoopDone
  BY <1>13, LoopDoneKeeps
<1>14. ASSUME NEW loss \in CI!Losses, NEW harm \in CI!Damages, CI!Report(loss, harm) PROVE ReportsInv'
  BY <1>14, ReportOuter, ReportPhase
<1>15. ASSUME NEW d \in setup.times, NEW fails \in BOOLEAN, CI!EndGroup(d, fails) PROVE ReportsInv'
  BY <1>15, EndGroupKeeps
<1>16. CASE UNCHANGED CI!vars
  <2>1. /\ setup' = setup /\ pc' = pc /\ outer' = outer /\ todo' = todo /\ queue' = queue
        /\ stack' = stack /\ log' = log /\ real' = real /\ results' = results /\ runs' = runs
        /\ book' = book /\ exit' = exit
    BY <1>16 DEF CI!vars
  <2>2. AtPc'
    BY <2>1 DEF ReportsInv, RunInv, AtPc
  <2> QED BY <2>1, <2>2 DEF ReportsInv, RunInv, TestingInv
<1> QED
  BY <1>1, <1>2, <1>3, <1>4, <1>5, <1>6, <1>7, <1>8, <1>9, <1>10, <1>11, <1>12, <1>13, <1>14,
     <1>15, <1>16 DEF CI!Next

(***************************************************************************)
(* What the results of a run show.                                         *)
(***************************************************************************)
LEMMA SumOfSizes ==
  ASSUME NEW n \in Nat, NEW F, \A i \in 1..n : IsFiniteSet(F[i])
  PROVE  LET sum == CI!AddUp([i \in 1..n |-> CI!Cardinality(F[i])]) IN
         sum \in Nat /\ (sum > 0 <=> \E i \in 1..n : F[i] # {})
<1> DEFINE ns == [i \in 1..n |-> CI!Cardinality(F[i])]
<1>1. \A i \in 1..n : ns[i] = Cardinality(F[i]) /\ ns[i] \in Nat /\ (ns[i] = 0 <=> F[i] = {})
  BY SizeInReports, FS_CardinalityType, FS_EmptySet
<1>2. ns \in Seq(Nat) /\ Len(ns) = n
  <2>1. DOMAIN ns = 1..n
    OBVIOUS
  <2> HIDE DEF ns
  <2>2. ns = [i \in 1..n |-> ns[i]]
    BY DEF ns
  <2>3. ns \in [1..n -> Nat]
    BY <1>1, <2>1, <2>2
  <2> QED BY <2>3
<1> HIDE DEF ns
<1>3. CI!AddUp(ns) \in Nat /\ (CI!AddUp(ns) = 0 <=> \A i \in 1..n : ns[i] = 0)
  BY <1>2, AddUpNat
<1>4. CI!AddUp(ns) > 0 <=> \E i \in 1..n : F[i] # {}
  BY <1>1, <1>3
<1> QED BY <1>3, <1>4 DEF ns

SkipCount(rs) ==
  CI!AddUp([i \in DOMAIN rs |-> CI!Cardinality({c \in rs[i].real.ended : c.status = "SKIP"})])
SlowCount(rs, k) ==
  CI!AddUp([i \in DOMAIN rs |-> CI!Cardinality({c \in rs[i].real.ended : c.dur >= k})])
StepsSound(rs) == IsSeq(rs) /\ \A i \in DOMAIN rs : StepSound(rs[i])

LEMMA SlowCounted ==
  ASSUME NEW rs, StepsSound(rs), NEW k \in Nat
  PROVE  SlowCount(rs, k) > 0 <=> \E i \in DOMAIN rs : \E c \in rs[i].real.ended : c.dur >= k
<1> DEFINE n == Len(rs)
           F == [i \in 1..n |-> {c \in rs[i].real.ended : c.dur >= k}]
<1>1. n \in Nat /\ DOMAIN rs = 1..n
  BY SeqIs DEF StepsSound
<1>2. \A i \in 1..n : IsFiniteSet(F[i])
  <2> TAKE i \in 1..n
  <2>1. IsFiniteSet(rs[i].real.ended) /\ F[i] \subseteq rs[i].real.ended
    BY <1>1 DEF StepsSound, StepSound, Recorded
  <2> HIDE DEF F
  <2> QED BY <2>1, FS_Subset
<1>3. SlowCount(rs, k) = CI!AddUp([i \in 1..n |-> CI!Cardinality(F[i])])
  BY <1>1 DEF SlowCount
<1>4. (\E i \in 1..n : F[i] # {}) <=> \E i \in DOMAIN rs : \E c \in rs[i].real.ended : c.dur >= k
  BY <1>1
<1> HIDE DEF F, n
<1> QED BY <1>1, <1>2, <1>3, <1>4, SumOfSizes

\* a limit for slow tests is charged for the times of the lists
LEMMA SlowAlertsAre ==
  ASSUME NEW res, IsSeq(res), \A i \in DOMAIN res : IsSeq(res[i].timed), NEW flags, flags.slow # 0
  PROVE  CI!SlowAlerts(res, flags) > 0
         <=> \E i \in DOMAIN res : \E j \in DOMAIN res[i].timed : res[i].timed[j].dur >= flags.slow
<1> DEFINE n == Len(res)
           F == [i \in 1..n |-> {j \in DOMAIN res[i].timed : res[i].timed[j].dur >= flags.slow}]
<1>1. n \in Nat /\ DOMAIN res = 1..n
  BY SeqIs
<1>2. \A i \in 1..n : IsFiniteSet(F[i])
  <2> TAKE i \in 1..n
  <2> DEFINE m == Len(res[i].timed)
  <2>1. m \in Nat /\ F[i] \subseteq 1..m
    BY <1>1, SeqIs
  <2>2. IsFiniteSet(1..m)
    <3> HIDE DEF m
    <3> QED BY <2>1, FS_Interval
  <2> HIDE DEF F, m
  <2> QED BY <2>1, <2>2, FS_Subset
<1>3. CI!SlowAlerts(res, flags) = CI!AddUp([i \in 1..n |-> CI!Cardinality(F[i])])
  BY <1>1 DEF CI!SlowAlerts
<1>4. (\E i \in 1..n : F[i] # {})
      <=> \E i \in DOMAIN res : \E j \in DOMAIN res[i].timed : res[i].timed[j].dur >= flags.slow
  BY <1>1
<1> HIDE DEF F, n
<1> QED BY <1>1, <1>2, <1>3, <1>4, SumOfSizes

LEMMA GroupAlertsAre ==
  ASSUME NEW res, IsSeq(res), NEW flags, flags.time > 0
  PROVE  CI!GroupAlerts(res, flags) > 0
         <=> \E r \in CI!ToSet(res) : r.group /\ r.took >= flags.time
<1> DEFINE n == Len(res)
           S == {i \in DOMAIN res : res[i].group /\ flags.time > 0 /\ res[i].took >= flags.time}
<1>1. n \in Nat /\ DOMAIN res = 1..n
  BY SeqIs
<1>2. IsFiniteSet(S)
  <2>1. IsFiniteSet(1..n) /\ S \subseteq 1..n
    BY <1>1, FS_Interval
  <2> HIDE DEF S
  <2> QED BY <2>1, FS_Subset
<1>3. CI!GroupAlerts(res, flags) = Cardinality(S)
  BY SizeInReports DEF CI!GroupAlerts
<1>4. S # {} <=> \E r \in CI!ToSet(res) : r.group /\ r.took >= flags.time
  BY SetIsElems DEF Elems
<1> HIDE DEF S
<1> QED BY <1>2, <1>3, <1>4, FS_CardinalityType, FS_EmptySet

\* the steps of a run without phases
LEMMA StepsShown ==
  ASSUME NEW rs, StepsSound(rs), \A i \in DOMAIN rs : ~rs[i].real.cut /\ ~rs[i].real.late,
         NEW flags, flags.slow \in Nat
  PROVE  /\ CI!Total(rs, "SKIP") = SkipCount(rs)
         /\ flags.slow # 0 => (CI!SlowAlerts(rs, flags) > 0 <=> SlowCount(rs, flags.slow) > 0)
<1>1. \A i \in DOMAIN rs : Len(rs[i].SKIP) = CI!Cardinality({c \in rs[i].real.ended : c.status = "SKIP"})
  BY SoundSkips, SizeInReports DEF StepsSound
<1>2. CI!Total(rs, "SKIP") = SkipCount(rs)
  BY <1>1 DEF CI!Total, SkipCount
<1>3. \A i \in DOMAIN rs :
        /\ IsSeq(rs[i].timed)
        /\ {rs[i].timed[j].dur : j \in DOMAIN rs[i].timed} = {c.dur : c \in rs[i].real.ended}
  BY SoundTimes DEF StepsSound
<1>4. ASSUME flags.slow # 0
      PROVE  CI!SlowAlerts(rs, flags) > 0 <=> SlowCount(rs, flags.slow) > 0
  <2> DEFINE k == flags.slow
  <2>1. CI!SlowAlerts(rs, flags) > 0
        <=> \E i \in DOMAIN rs : \E j \in DOMAIN rs[i].timed : rs[i].timed[j].dur >= k
    BY <1>3, <1>4, SlowAlertsAre DEF StepsSound
  <2>2. SlowCount(rs, k) > 0 <=> \E i \in DOMAIN rs : \E c \in rs[i].real.ended : c.dur >= k
    BY SlowCounted
  <2> HIDE DEF k
  <2>3. \A i \in DOMAIN rs : (\E j \in DOMAIN rs[i].timed : rs[i].timed[j].dur >= k)
                             <=> \E c \in rs[i].real.ended : c.dur >= k
    <3> TAKE i \in DOMAIN rs
    <3> DEFINE A == {rs[i].timed[j].dur : j \in DOMAIN rs[i].timed}
    <3>1. (\E j \in DOMAIN rs[i].timed : rs[i].timed[j].dur >= k) <=> \E x \in A : x >= k
      OBVIOUS
    <3>2. A = {c.dur : c \in rs[i].real.ended}
      BY <1>3
    <3> QED BY <3>1, <3>2
  <2> QED BY <2>1, <2>2, <2>3 DEF k
<1> QED BY <1>2, <1>4

(***************************************************************************)
(* The steps of the runs inside a group.                                   *)
(***************************************************************************)
RunResults(within) == [i \in DOMAIN within |-> within[i].results]

LEMMA RunResultsAre ==
  ASSUME NEW within, RunsSound(within)
  PROVE  /\ IsSeq(RunResults(within)) /\ DOMAIN RunResults(within) = DOMAIN within
         /\ \A i \in DOMAIN within : RunResults(within)[i] = within[i].results
         /\ \A i \in DOMAIN within : StepsSound(within[i].results)
         /\ StepsSound(CI!FlattenSeq(RunResults(within)))
         /\ Elems(CI!FlattenSeq(RunResults(within))) = UNION {Elems(within[i].results) : i \in DOMAIN within}
<1> DEFINE ss == RunResults(within)
           n == Len(within)
           flat == CI!FlattenSeq(ss)
<1>1. DOMAIN within = 1..n /\ n \in Nat
  BY SeqIs DEF RunsSound
<1>2. DOMAIN ss = 1..n /\ ss = [i \in 1..n |-> ss[i]] /\ \A i \in 1..n : ss[i] = within[i].results
  BY <1>1 DEF RunResults
<1>3. \A i \in 1..n : StepsSound(within[i].results)
  BY <1>1 DEF RunsSound, RunSound, StepsSound
<1> HIDE DEF ss
<1>4. IsSeq(ss)
  <2> HIDE DEF n
  <2> QED BY <1>1, <1>2, SeqMade
<1>5. \A i \in DOMAIN ss : IsSeq(ss[i])
  BY <1>2, <1>3 DEF StepsSound
<1>6. IsSeq(flat) /\ Elems(flat) = UNION {Elems(ss[i]) : i \in DOMAIN ss}
  BY <1>4, <1>5, FlattenSeqs
<1>7. {Elems(ss[i]) : i \in DOMAIN ss} = {Elems(within[i].results) : i \in DOMAIN within}
  BY <1>1, <1>2
<1>8. \A x \in Elems(flat) : StepSound(x)
  <2> TAKE x \in Elems(flat)
  <2>1. PICK i \in DOMAIN within : x \in Elems(within[i].results)
    BY <1>6, <1>7
  <2> QED BY <1>1, <1>3, <2>1 DEF StepsSound, Elems
<1>9. StepsSound(flat)
  <2> HIDE DEF flat
  <2> QED BY <1>6, <1>8 DEF StepsSound, Elems
<1> QED BY <1>1, <1>2, <1>3, <1>4, <1>6, <1>7, <1>9 DEF ss

\* the cases of the group, run by run
LEMMA NestedSizes ==
  ASSUME NEW within, RunsSound(within), Shown(within), NEW s \in CI!Statuses
  PROVE  Len(CI!CollectNestedSummaryCases(within, s))
         = CI!AddUp([i \in DOMAIN within |->
             CI!AddUp([j \in DOMAIN within[i].summary.steps |-> CountIn(within[i].summary.steps[j], s)])])
<1> DEFINE l == PerRun(within, s)
<1>1. /\ IsSeq(l) /\ \A i \in DOMAIN l : IsSeq(l[i])
      /\ l = [i \in DOMAIN within |-> CI!FlattenSeq(Inner(within, i, s))]
  BY PerRunIs, ShownPerRun DEF RunsSound
<1>2. CI!CollectNestedSummaryCases(within, s) = CI!FlattenSeq(l)
  BY NestedIs
<1> HIDE DEF l
<1>3. Len(CI!FlattenSeq(l)) = CI!AddUp(Sizes(l))
  BY <1>1, FlattenSeqs
<1>4. \A i \in DOMAIN within : Len(l[i]) =
        CI!AddUp([j \in DOMAIN within[i].summary.steps |-> CountIn(within[i].summary.steps[j], s)])
  <2> TAKE i \in DOMAIN within
  <2> DEFINE part == Inner(within, i, s)
  <2>1. /\ IsSeq(part) /\ \A j \in DOMAIN part : IsSeq(part[j])
        /\ Sizes(part) = [j \in DOMAIN within[i].summary.steps |-> CountIn(within[i].summary.steps[j], s)]
    BY InnerIs
  <2>2. l[i] = CI!FlattenSeq(part)
    BY <1>1
  <2> HIDE DEF part
  <2>3. Len(CI!FlattenSeq(part)) = CI!AddUp(Sizes(part))
    BY <2>1, FlattenSeqs
  <2> QED BY <2>1, <2>2, <2>3
<1>5. DOMAIN l = DOMAIN within
  BY <1>1
<1>6. Sizes(l) = [i \in DOMAIN within |->
        CI!AddUp([j \in DOMAIN within[i].summary.steps |-> CountIn(within[i].summary.steps[j], s)])]
  BY <1>4, <1>5 DEF Sizes
<1> QED BY <1>2, <1>3, <1>6

LEMMA GroupSkips ==
  ASSUME NEW within, RunsSound(within), Shown(within),
         \A i \in DOMAIN within : \A r \in Elems(within[i].results) : ~r.real.cut /\ ~r.real.late
  PROVE  Len(CI!CollectNestedSummaryCases(within, "SKIP"))
         = SkipCount(CI!FlattenSeq(RunResults(within)))
<1> DEFINE ss == RunResults(within)
           X == UNION {Elems(within[i].results) : i \in DOMAIN within}
           Skips(r) == Cardinality({c \in r.real.ended : c.status = "SKIP"})
           w == [r \in X |-> Skips(r)]
           flat == CI!FlattenSeq(ss)
<1>1. /\ IsSeq(ss) /\ DOMAIN ss = DOMAIN within
      /\ \A i \in DOMAIN within : ss[i] = within[i].results /\ StepsSound(within[i].results)
      /\ StepsSound(flat) /\ Elems(flat) = X
  BY RunResultsAre
<1> HIDE DEF ss, flat
<1>2. \A r \in X : StepSound(r)
  BY <1>1 DEF StepsSound, Elems
<1>3. w \in [X -> Nat]
  <2>1. \A r \in X : Skips(r) \in Nat
    <3> TAKE r \in X
    <3>1. IsFiniteSet(r.real.ended)
      BY <1>2 DEF StepSound, Recorded
    <3>2. IsFiniteSet({c \in r.real.ended : c.status = "SKIP"})
      BY <3>1, FS_Subset
    <3> QED BY <3>2, FS_CardinalityType
  <2> HIDE DEF X, Skips
  <2> QED BY <2>1
<1>4. ss \in Seq(Seq(X))
  <2>1. \A i \in DOMAIN ss : ss[i] \in Seq(X)
    <3> TAKE i \in DOMAIN ss
    <3>1. Elems(ss[i]) \subseteq X /\ IsSeq(ss[i])
      BY <1>1 DEF StepsSound
    <3> HIDE DEF X
    <3> QED BY <3>1 DEF IsSeq
  <2> HIDE DEF X
  <2>2. Elems(ss) \subseteq Seq(X)
    BY <2>1 DEF Elems
  <2> QED BY <1>1, <2>2 DEF IsSeq
<1>5. flat \in Seq(X) /\ Weigh(w, flat) = CI!AddUp(WeighEach(w, ss))
  <2> HIDE DEF w, X
  <2> QED BY <1>3, <1>4, FlattenIs DEF Flattened, flat
<1>6. ASSUME NEW rs \in Seq(X) PROVE SkipCount(rs) = Weigh(w, rs)
  <2>1. \A i \in DOMAIN rs : rs[i] \in X
    <3> HIDE DEF X
    <3> QED OBVIOUS
  <2> HIDE DEF X
  <2>2. Weights(w, rs) = [i \in DOMAIN rs |-> CI!Cardinality({c \in rs[i].real.ended : c.status = "SKIP"})]
    BY <2>1, SizeInReports DEF Weights
  <2> QED BY <2>2 DEF Weigh, SkipCount
<1>7. ASSUME NEW i \in DOMAIN within
      PROVE  CI!AddUp([j \in DOMAIN within[i].summary.steps |-> CountIn(within[i].summary.steps[j], "SKIP")])
             = Weigh(w, ss[i])
  <2> DEFINE run == within[i]
             rs == run.results
  <2>1. RunSound(run) /\ StepsSound(rs) /\ ss[i] = rs /\ ss[i] \in Seq(X)
    <3> HIDE DEF X
    <3> QED BY <1>1, <1>4 DEF RunsSound
  <2>2. DOMAIN run.summary.steps = DOMAIN rs
    BY <2>1, StepsAre
  <2>3. \A j \in DOMAIN rs : CountIn(run.summary.steps[j], "SKIP") = Len(rs[j].SKIP)
    BY <2>1 DEF RunSound, CountIn, CI!Count, CI!Statuses
  <2>4. \A j \in DOMAIN rs : Len(rs[j].SKIP) = CI!Cardinality({c \in rs[j].real.ended : c.status = "SKIP"})
    <3> TAKE j \in DOMAIN rs
    <3>1. rs[j] \in Elems(rs) /\ StepSound(rs[j])
      BY <2>1 DEF StepsSound, Elems
    <3>2. ~rs[j].real.cut /\ ~rs[j].real.late
      BY <3>1
    <3> QED BY <3>1, <3>2, SoundSkips, SizeInReports
  <2> HIDE DEF run
  <2>5. [j \in DOMAIN run.summary.steps |-> CountIn(run.summary.steps[j], "SKIP")]
        = [j \in DOMAIN rs |-> CI!Cardinality({c \in rs[j].real.ended : c.status = "SKIP"})]
    BY <2>2, <2>3, <2>4
  <2>6. SkipCount(rs) = Weigh(w, rs)
    <3> HIDE DEF X, w, rs
    <3> QED BY <1>6, <2>1
  <2> HIDE DEF w, rs
  <2> QED BY <2>1, <2>5, <2>6 DEF SkipCount, run
<1> HIDE DEF w
<1>8. WeighEach(w, ss) = [i \in DOMAIN within |->
        CI!AddUp([j \in DOMAIN within[i].summary.steps |-> CountIn(within[i].summary.steps[j], "SKIP")])]
  BY <1>1, <1>7 DEF WeighEach
<1>9. "SKIP" \in CI!Statuses
  BY DEF CI!Statuses
<1>10. SkipCount(flat) = Weigh(w, flat)
  <2> HIDE DEF X
  <2> QED BY <1>5, <1>6
<1>11. SkipCount(flat) = Len(CI!CollectNestedSummaryCases(within, "SKIP"))
  <2>1. Len(CI!CollectNestedSummaryCases(within, "SKIP")) = CI!AddUp([i \in DOMAIN within |->
          CI!AddUp([j \in DOMAIN within[i].summary.steps |-> CountIn(within[i].summary.steps[j], "SKIP")])])
    BY <1>9, NestedSizes
  <2>2. CI!AddUp(WeighEach(w, ss)) = Len(CI!CollectNestedSummaryCases(within, "SKIP"))
    BY <1>8, <2>1
  <2> QED BY <1>5, <1>10, <2>2
<1> QED BY <1>11 DEF flat, ss

LEMMA GroupSlow ==
  ASSUME NEW within, RunsSound(within), Shown(within),
         \A i \in DOMAIN within : ~within[i].gone,
         \A i \in DOMAIN within : \A r \in Elems(within[i].results) : ~r.real.cut,
         NEW k \in Nat
  PROVE  LET timed == CI!CollectNestedSummaryCases(within, "timed") IN
         /\ IsSeq(timed)
         /\ (\E j \in DOMAIN timed : timed[j].dur >= k)
            <=> SlowCount(CI!FlattenSeq(RunResults(within)), k) > 0
<1> DEFINE timed == CI!CollectNestedSummaryCases(within, "timed")
           flat == CI!FlattenSeq(RunResults(within))
           Of(i) == UNION {Elems(within[i].results[j].timed) : j \in DOMAIN within[i].results}
<1>1. IsSeq(timed) /\ Elems(timed) = UNION {Of(i) : i \in DOMAIN within}
  BY NestedDurations
<1>2. /\ \A i \in DOMAIN within : StepsSound(within[i].results)
      /\ StepsSound(flat) /\ Elems(flat) = UNION {Elems(within[i].results) : i \in DOMAIN within}
  BY RunResultsAre
<1> HIDE DEF timed, flat
<1>3. SlowCount(flat, k) > 0 <=> \E r \in Elems(flat) : \E c \in r.real.ended : c.dur >= k
  BY <1>2, SlowCounted DEF Elems
<1>4. (\E j \in DOMAIN timed : timed[j].dur >= k) <=> \E x \in Elems(timed) : x.dur >= k
  BY DEF Elems
<1>5. ASSUME NEW r, StepSound(r), ~r.real.cut
      PROVE  (\E x \in Elems(r.timed) : x.dur >= k) <=> \E c \in r.real.ended : c.dur >= k
  <2> DEFINE A == {r.timed[j].dur : j \in DOMAIN r.timed}
  <2>1. (\E x \in Elems(r.timed) : x.dur >= k) <=> \E y \in A : y >= k
    BY DEF Elems
  <2>2. A = {c.dur : c \in r.real.ended}
    BY <1>5, SoundTimes
  <2> QED BY <2>1, <2>2
<1>6. \A i \in DOMAIN within : \A r \in Elems(within[i].results) : StepSound(r) /\ ~r.real.cut
  BY <1>2 DEF StepsSound, Elems
<1>7. ASSUME NEW x \in Elems(timed), x.dur >= k
      PROVE  \E r \in Elems(flat) : \E c \in r.real.ended : c.dur >= k
  <2>1. PICK i \in DOMAIN within : x \in Of(i)
    BY <1>1
  <2>2. PICK j \in DOMAIN within[i].results : x \in Elems(within[i].results[j].timed)
    BY <2>1
  <2> DEFINE r == within[i].results[j]
  <2>3. r \in Elems(within[i].results)
    BY DEF Elems
  <2>4. x \in Elems(r.timed) /\ StepSound(r) /\ ~r.real.cut
    BY <1>6, <2>2, <2>3
  <2> HIDE DEF r
  <2>5. \E c \in r.real.ended : c.dur >= k
    BY <1>5, <1>7, <2>4
  <2> QED BY <1>2, <2>3, <2>5
<1>8. ASSUME NEW r \in Elems(flat), \E c \in r.real.ended : c.dur >= k
      PROVE  \E x \in Elems(timed) : x.dur >= k
  <2>1. PICK i \in DOMAIN within : r \in Elems(within[i].results)
    BY <1>2
  <2>2. PICK j \in DOMAIN within[i].results : r = within[i].results[j]
    BY <2>1 DEF Elems
  <2>3. PICK x \in Elems(r.timed) : x.dur >= k
    BY <1>5, <1>6, <1>8, <2>1
  <2>4. x \in Of(i)
    BY <2>2, <2>3
  <2> QED BY <1>1, <2>3, <2>4
<1> QED BY <1>1, <1>3, <1>4, <1>7, <1>8 DEF timed, flat

(***************************************************************************)
(* What a reader of the reports relies on.                                 *)
(***************************************************************************)
GroupOf(x, res, rns) ==
  \E status \in {"PASS", "FAIL"}, d \in x.times :
    /\ res = <<res[1]>> /\ GroupSound(res[1], rns, status, d)
    /\ status = "PASS" => \A i \in DOMAIN rns : rns[i].exit = 0

LEMMA GroupMade ==
  ASSUME NEW x, NEW asked, NEW res, NEW rns, RunsSound(rns), OfGroup(x, asked, res, rns)
  PROVE  GroupOf(x, res, rns) /\ x.phases # <<>> /\ asked = TRUE
<1>1. PICK d \in x.times, status \in {"PASS", "FAIL"} :
        /\ status = "PASS" => \A i \in DOMAIN rns : rns[i].exit = 0
        /\ res = <<CI!GroupResult(rns, status, d)>>
  BY DEF OfGroup
<1> DEFINE r == CI!GroupResult(rns, status, d)
<1>2. GroupSound(r, rns, status, d)
  BY <1>1, GroupIs DEF OfGroup
<1>3. res = <<r>>
  BY <1>1
<1> HIDE DEF r
<1>4. res[1] = r
  BY <1>3
<1> QED BY <1>1, <1>2, <1>3, <1>4 DEF GroupOf, OfGroup

LEMMA ResultsAre ==
  ASSUME ReportsInv
  PROVE  /\ RunsSound(runs) /\ setup \in Setups
         /\ \/ StepsSound(results)
            \/ GroupOf(setup, results, runs) /\ setup.phases # <<>> /\ outer = TRUE
<1>1. RunsSound(runs) /\ setup \in Setups /\ AtPc
  BY DEF ReportsInv, RunInv
<1>2. CASE results = <<>>
  BY <1>1, <1>2, SeqEmpty DEF StepsSound
<1>3. CASE OfSteps(setup, outer, results, runs)
  BY <1>1, <1>3 DEF OfSteps, StepsSound
<1>4. CASE OfGroup(setup, outer, results, runs)
  <2>1. GroupOf(setup, results, runs) /\ setup.phases # <<>>
    BY <1>1, <1>4, GroupMade
  <2>2. outer = TRUE
    BY <1>4 DEF OfGroup
  <2> QED BY <1>1, <2>1, <2>2
<1> QED BY <1>1, <1>2, <1>3, <1>4 DEF AtPc

LEMMA SetOfOne ==
  ASSUME NEW r
  PROVE  CI!ToSet(<<r>>) = {r} /\ IsSeq(<<r>>) /\ DOMAIN <<r>> = {1} /\ <<r>>[1] = r
BY SeqOne, SetIsElems

LEMMA OfOne ==
  ASSUME GroupOf(setup, results, runs), NEW r \in CI!ToSet(results)
  PROVE  \E status \in {"PASS", "FAIL"}, d \in setup.times : GroupSound(r, runs, status, d)
<1>1. PICK status \in {"PASS", "FAIL"}, d \in setup.times :
        results = <<results[1]>> /\ GroupSound(results[1], runs, status, d)
  BY DEF GroupOf
<1> DEFINE x == results[1]
<1>2. r \in CI!ToSet(<<x>>)
  BY <1>1
<1>3. CI!ToSet(<<x>>) = {x}
  <2> HIDE DEF x
  <2> QED BY SetOfOne
<1> QED BY <1>1, <1>2, <1>3

LEMMA StepCasesTold == ReportsInv => CI!StepCasesTrue
<1> SUFFICES ASSUME ReportsInv, NEW r \in CI!ToSet(results), ~r.group PROVE CasesTrue(r)
  BY DEF CI!StepCasesTrue, CasesTrue
<1>1. CASE StepsSound(results)
  <2>1. StepSound(r)
    BY <1>1, SetIsElems DEF StepsSound, Elems
  <2> QED BY <2>1, SoundCases
<1>2. CASE GroupOf(setup, results, runs)
  <2>1. r.group = TRUE
    BY <1>2, OfOne DEF GroupSound
  <2> QED BY <2>1
<1> QED BY <1>1, <1>2, ResultsAre

LEMMA FailNamedTold == ReportsInv => CI!FailNamed
<1> SUFFICES ASSUME ReportsInv, NEW r \in CI!ToSet(results)
             PROVE  /\ r.status = "FAIL" /\ r.logged => r.FAIL # <<>>
                    /\ r.status = "PASS" => r.FAIL = <<>>
  BY DEF CI!FailNamed
<1>1. CASE StepsSound(results)
  <2>1. StepSound(r)
    BY <1>1, SetIsElems DEF StepsSound, Elems
  <2> QED BY <2>1 DEF StepSound
<1>2. CASE GroupOf(setup, results, runs)
  BY <1>2, OfOne DEF GroupSound
<1> QED BY <1>1, <1>2, ResultsAre

LEMMA OuterTold == ReportsInv => CI!OuterAddsUp
<1> DEFINE steps == CI!FlattenSeq(StepLists(runs))
           Sum(s) == CI!AddUp([j \in DOMAIN steps |-> CountIn(steps[j], s)])
<1> SUFFICES ASSUME ReportsInv, NEW r \in CI!ToSet(results), r.group, Shown(runs), NEW s \in CI!Statuses
             PROVE  Len(r[s]) = IF s = "FAIL" /\ r.status = "FAIL" /\ Sum(s) = 0 THEN 1 ELSE Sum(s)
  BY DEF CI!OuterAddsUp, CI!AllShown, Shown, StepLists, CountIn
<1>1. ~StepsSound(results)
  <2> SUFFICES ASSUME StepsSound(results) PROVE FALSE
    OBVIOUS
  <2>1. StepSound(r)
    BY SetIsElems DEF StepsSound, Elems
  <2> QED BY <2>1 DEF StepSound
<1>2. RunsSound(runs) /\ GroupOf(setup, results, runs)
  BY <1>1, ResultsAre
<1>3. PICK status \in {"PASS", "FAIL"}, d \in setup.times : GroupSound(r, runs, status, d)
  BY <1>2, OfOne
<1> DEFINE l == CI!CollectNestedSummaryCases(runs, s)
<1>4. IsSeq(l) /\ Len(l) = Sum(s)
  BY <1>2, NestedLength
<1> HIDE DEF Sum, l
<1>5. CASE s # "FAIL"
  <2>1. r[s] = l
    BY <1>3, <1>5 DEF GroupSound, CI!Statuses, l
  <2> QED BY <1>4, <1>5, <2>1
<1>6. CASE s = "FAIL"
  <2> DEFINE f == CI!AttributeImplicitFailures(status, l, <<>>, "", "group")
  <2>1. IF status = "FAIL" /\ l = <<>> THEN IsSeq(f) /\ Len(f) = 1 ELSE f = l
    <3> DEFINE fallback == "group"
               pattern == ""
    <3> HIDE DEF fallback, pattern
    <3> DEFINE g == CI!AttributeImplicitFailures(status, l, <<>>, pattern, fallback)
    <3>1. IF status = "FAIL" /\ l = <<>> THEN IsSeq(g) /\ Len(g) = 1 ELSE g = l
      BY AttributedOne
    <3> QED BY <3>1 DEF fallback, pattern
  <2>2. r.FAIL = f /\ r.status = status
    BY <1>3, <1>6 DEF GroupSound, l
  <2> HIDE DEF f
  <2>3. l = <<>> <=> Len(l) = 0
    BY <1>4, SeqIs
  <2> QED BY <1>4, <1>6, <2>1, <2>2, <2>3
<1> QED BY <1>5, <1>6

OverBudget(flags, rs, res) ==
  \/ flags.slowFail /\ SlowCount(rs, flags.slow) > 0
  \/ flags.maxSkips >= 0 /\ SkipCount(rs) > flags.maxSkips
  \/ flags.timeFail /\ \E r \in CI!ToSet(res) : r.group /\ r.took >= flags.time
SomeFailed(res) == \E r \in CI!ToSet(res) : r.status = "FAIL"
FilesPass(bk) ==
  /\ bk.report # {} /\ \A f \in bk.report : f.totals["FAIL"] = 0
  /\ bk.summary # {} /\ \A f \in bk.summary : f.status = "PASS" /\ f.failedSteps = 0
  /\ bk.manifest # {}
  /\ \A f \in bk.manifest : \A n \in DOMAIN f.stepStatus : f.stepStatus[n] = "PASS"
FilesFail(bk) ==
  /\ \A f \in bk.summary : f.status = "FAIL"
  /\ \A f \in bk.manifest : \E n \in DOMAIN f.stepStatus : f.stepStatus[n] = "FAIL"
Exact(flags, rs, res, bk, code, hid) ==
  /\ code = 0 =>
       /\ \A r \in CI!ToSet(rs) : r.status = "PASS" /\ CI!Truly(r, "FAIL") = {}
       /\ hid \/ ~OverBudget(flags, rs, res)
       /\ FilesPass(bk)
  /\ code = 1 => OverBudget(flags, rs, res) \/ SomeFailed(res) \/ bk.lost # "none" \/ hid
  /\ SomeFailed(res) => code = 1 /\ FilesFail(bk)

LEMMA RunExactIs ==
  ASSUME pc = "done" /\ book # <<>> =>
           Exact(CI!Flags, CI!RealSteps, results, book, exit, CI!Hidden)
  PROVE  CI!RunExact
BY DEF CI!TrueCount, SlowCount, SkipCount, CI!RunExact, Exact, OverBudget, SomeFailed,
       FilesPass, FilesFail

\* the limits hold of what was reported if they hold of what happened
Charged(flags, stats, res) ==
  \/ flags.slowFail /\ stats.slow > 0
  \/ flags.timeFail /\ stats.groups > 0
  \/ flags.maxSkips >= 0 /\ CI!Total(res, "SKIP") > flags.maxSkips

\* a list of results that ends with the first failure
Ending(res) ==
  /\ IsSeq(res)
  /\ \A i \in DOMAIN res : /\ res[i].status \in {"PASS", "FAIL"}
                           /\ res[i].status = "PASS" => res[i].FAIL = <<>>
                           /\ res[i].status = "FAIL" => i = Len(res)

LEMMA LatestIs ==
  ASSUME NEW n \in Nat, NEW T \in SUBSET (1..n), NEW i \in T
  PROVE  CI!Max(T) \in T /\ \A j \in T : j <= CI!Max(T)
<1> DEFINE U == {n - j : j \in T}
<1>0. \A j \in T : j \in Nat /\ n - j \in Nat
  OBVIOUS
<1>1. U \in SUBSET Nat /\ U # {}
  BY <1>0
<1>2. PICK u \in U : \A v \in U : u <= v
  BY <1>1, LeastExists
<1>3. PICK m \in T : u = n - m
  BY <1>2
<1>4. \A j \in T : m >= j
  <2> TAKE j \in T
  <2>1. n - j \in U /\ u <= n - j
    BY <1>2
  <2> QED BY <1>0, <1>3, <2>1
<1>5. \E x \in T : \A y \in T : x >= y
  BY <1>3, <1>4
<1>6. CI!Max(T) = CHOOSE x \in T : \A y \in T : x >= y
  BY Zenon DEF CI!Max
<1>7. CI!Max(T) \in T /\ \A y \in T : CI!Max(T) >= y
  <2> DEFINE m0 == CI!Max(T)
  <2> HIDE DEF m0
  <2>1. m0 = CHOOSE x \in T : \A y \in T : x >= y
    BY <1>6, Zenon DEF m0
  <2>2. m0 \in T /\ \A y \in T : m0 >= y
    BY <1>5, <2>1, Zenon
  <2> QED BY <2>2 DEF m0
<1>8. CI!Max(T) \in 1..n
  BY <1>7
<1> QED BY <1>7, <1>8

\* what is written down of the steps that failed
LEMMA WrittenSteps ==
  ASSUME NEW res, Ending(res)
  PROVE  LET man == CI!BuildRunManifest(res).stepStatus IN
         /\ SomeFailed(res) => \E n \in DOMAIN man : man[n] = "FAIL"
         /\ ~SomeFailed(res) =>
              /\ \A i \in DOMAIN res : res[i].status = "PASS"
              /\ \A n \in DOMAIN man : man[n] = "PASS"
              /\ CI!Total(res, "FAIL") = 0
              /\ CI!Cardinality({i \in DOMAIN res : res[i].status # "PASS"}) = 0
<1> DEFINE man == CI!BuildRunManifest(res).stepStatus
           k == Len(res)
           Called(n) == {i \in DOMAIN res : res[i].name = n}
<1>1. k \in Nat /\ DOMAIN res = 1..k
  BY SeqIs DEF Ending
<1>2. man = [n \in {res[i].name : i \in DOMAIN res} |-> res[CI!Max(Called(n))].status]
  BY DEF CI!BuildRunManifest
<1>3. ASSUME NEW i \in DOMAIN res
      PROVE  LET n == res[i].name IN
             CI!Max(Called(n)) \in DOMAIN res /\ i <= CI!Max(Called(n)) /\ CI!Max(Called(n)) <= k
  <2> DEFINE T == Called(res[i].name)
  <2>1. T \in SUBSET (1..k) /\ i \in T
    BY <1>1
  <2>2. CI!Max(T) \in T /\ i <= CI!Max(T)
    <3> HIDE DEF T, k
    <3> QED BY <1>1, <2>1, LatestIs
  <2>3. CI!Max(T) \in 1..k
    BY <2>1, <2>2
  <2> HIDE DEF T, k
  <2>4. CI!Max(T) <= k
    BY <1>1, <2>3
  <2> QED BY <1>1, <2>2, <2>3, <2>4 DEF T
<1> HIDE DEF man
<1>4. ASSUME SomeFailed(res) PROVE \E n \in DOMAIN man : man[n] = "FAIL"
  <2>1. PICK i \in DOMAIN res : res[i].status = "FAIL"
    BY <1>4, SetIsElems DEF SomeFailed, Elems
  <2> DEFINE n == res[i].name
             m == CI!Max(Called(n))
  <2>2. m \in DOMAIN res /\ i <= m /\ m <= k
    BY <1>3
  <2>3. i = k
    BY <2>1 DEF Ending
  <2>4. n \in DOMAIN man /\ man[n] = res[m].status
    BY <1>2
  <2> HIDE DEF m, n, k
  <2>5. m = k
    BY <1>1, <2>2, <2>3
  <2> QED BY <2>1, <2>3, <2>4, <2>5
<1>5. ASSUME ~SomeFailed(res)
      PROVE  /\ \A i \in DOMAIN res : res[i].status = "PASS"
             /\ \A n \in DOMAIN man : man[n] = "PASS"
             /\ CI!Total(res, "FAIL") = 0
             /\ CI!Cardinality({i \in DOMAIN res : res[i].status # "PASS"}) = 0
  <2>1. \A i \in DOMAIN res : res[i].status = "PASS"
    BY <1>5, SetIsElems DEF Ending, SomeFailed, Elems
  <2>2. \A n \in DOMAIN man : man[n] = "PASS"
    <3> TAKE n \in DOMAIN man
    <3>1. PICK i \in DOMAIN res : n = res[i].name
      BY <1>2
    <3>2. man[n] = res[CI!Max(Called(n))].status
      BY <1>2, <3>1
    <3>3. CI!Max(Called(n)) \in DOMAIN res
      BY <1>3, <3>1
    <3> QED BY <2>1, <3>2, <3>3
  <2>3. CI!Total(res, "FAIL") = 0
    <3> DEFINE ns == [i \in DOMAIN res |-> Len(res[i]["FAIL"])]
    <3>1. \A i \in DOMAIN res : ns[i] = 0
      BY <2>1, SeqEmpty DEF Ending
    <3>2. DOMAIN ns = 1..k /\ ns = [i \in 1..k |-> ns[i]]
      BY <1>1
    <3> HIDE DEF ns, k
    <3>3. ns \in [1..k -> Nat]
      BY <1>1, <3>1, <3>2
    <3>4. ns \in Seq(Nat) /\ Len(ns) = k
      BY <1>1, <3>3
    <3>5. CI!AddUp(ns) = 0
      BY <1>1, <3>1, <3>4, AddUpNat
    <3> QED BY <3>5 DEF CI!Total, ns
  <2>4. {i \in DOMAIN res : res[i].status # "PASS"} = {}
    BY <2>1
  <2>5. CI!Cardinality({}) = 0
    BY SizeInReports, FS_EmptySet
  <2> QED BY <2>1, <2>2, <2>3, <2>4, <2>5
<1> QED BY <1>4, <1>5 DEF man

LEMMA LimitsAgree ==
  ASSUME NEW flags \in RunFlags, ~CI!BadFlags(flags), NEW res, IsSeq(res), NEW rs,
         CI!Total(res, "SKIP") = SkipCount(rs),
         flags.slow # 0 => (CI!SlowAlerts(res, flags) > 0 <=> SlowCount(rs, flags.slow) > 0)
  PROVE  Charged(flags, CI!WriteReport(res, flags), res) <=> OverBudget(flags, rs, res)
<1> DEFINE stats == CI!WriteReport(res, flags)
<1>1. stats.slow = CI!SlowAlerts(res, flags) /\ stats.groups = CI!GroupAlerts(res, flags)
  BY DEF CI!WriteReport
<1> HIDE DEF stats
<1>2. /\ flags.slow \in Nat /\ flags.time \in Nat /\ flags.slowFail \in BOOLEAN /\ flags.timeFail \in BOOLEAN
      /\ flags.slowFail => flags.slow # 0
      /\ flags.timeFail => flags.time # 0
  BY DEF RunFlags, CI!BadFlags
<1>3. flags.timeFail =>
        (CI!GroupAlerts(res, flags) > 0 <=> \E r \in CI!ToSet(res) : r.group /\ r.took >= flags.time)
  <2> SUFFICES ASSUME flags.timeFail
               PROVE  CI!GroupAlerts(res, flags) > 0
                      <=> \E r \in CI!ToSet(res) : r.group /\ r.took >= flags.time
    OBVIOUS
  <2>1. flags.time > 0
    BY <1>2
  <2> QED BY <2>1, GroupAlertsAre
<1>4. Charged(flags, stats, res) <=> OverBudget(flags, rs, res)
  BY <1>1, <1>2, <1>3 DEF Charged, OverBudget
<1> QED BY <1>4 DEF stats

LEMMA ExactIs ==
  ASSUME NEW flags, NEW res, Ending(res), NEW bk, NEW code, Written(flags, res, bk, code),
         NEW rs, NEW hid \in BOOLEAN,
         ~hid => (Charged(flags, CI!WriteReport(res, flags), res) <=> OverBudget(flags, rs, res)),
         ~SomeFailed(res) => \A r \in CI!ToSet(rs) : r.status = "PASS" /\ CI!Truly(r, "FAIL") = {}
  PROVE  Exact(flags, rs, res, bk, code, hid)
<1> DEFINE stats == CI!WriteReport(res, flags)
           bad == CI!HadFailure(res, stats, flags)
           sum == CI!BuildRunSummary(res, stats, bad, "", <<>>)
           man == CI!BuildRunManifest(res)
<1>1. PICK loss \in CI!Losses :
        /\ bk = [report |-> CI!File("report", loss, stats), summary |-> CI!File("summary", loss, sum),
                 manifest |-> CI!File("manifest", loss, man), lost |-> loss]
        /\ code = IF bad \/ loss # "none" THEN 1 ELSE 0
  BY DEF Written
<1>2. /\ bad <=> (\E i \in DOMAIN res : res[i].status # "PASS") \/ Charged(flags, stats, res)
  BY DEF CI!HadFailure, Charged
<1>3. /\ sum.status = IF bad THEN "FAIL" ELSE "PASS"
      /\ sum.failedSteps = CI!Cardinality({i \in DOMAIN res : res[i].status # "PASS"})
  BY DEF CI!BuildRunSummary
<1>4. stats.totals["FAIL"] = CI!Total(res, "FAIL")
  BY DEF CI!WriteReport, CI!Statuses
<1> HIDE DEF stats, bad, sum, man
<1>5. /\ bk.report \subseteq {stats} /\ bk.summary \subseteq {sum} /\ bk.manifest \subseteq {man}
      /\ loss = "none" => bk.report # {} /\ bk.summary # {} /\ bk.manifest # {}
      /\ bk.lost = loss /\ code \in {0, 1} /\ (code = 1 <=> bad \/ loss # "none")
  BY <1>1 DEF CI!File, CI!UpTo
<1>6. /\ SomeFailed(res) => \E n \in DOMAIN man.stepStatus : man.stepStatus[n] = "FAIL"
      /\ ~SomeFailed(res) =>
           /\ \A i \in DOMAIN res : res[i].status = "PASS"
           /\ \A n \in DOMAIN man.stepStatus : man.stepStatus[n] = "PASS"
           /\ CI!Total(res, "FAIL") = 0
           /\ CI!Cardinality({i \in DOMAIN res : res[i].status # "PASS"}) = 0
  BY WrittenSteps DEF man
<1>7. SomeFailed(res) => \E i \in DOMAIN res : res[i].status # "PASS"
  BY SetIsElems DEF SomeFailed, Elems
<1>8. ASSUME code = 0
      PROVE  /\ \A r \in CI!ToSet(rs) : r.status = "PASS" /\ CI!Truly(r, "FAIL") = {}
             /\ hid \/ ~OverBudget(flags, rs, res)
             /\ FilesPass(bk)
  <2>1. ~bad /\ loss = "none"
    BY <1>5, <1>8
  <2>2. ~SomeFailed(res) /\ ~Charged(flags, stats, res)
    BY <1>2, <1>7, <2>1
  <2>3. hid \/ ~OverBudget(flags, rs, res)
    BY <2>2 DEF stats
  <2>4. FilesPass(bk)
    BY <1>3, <1>4, <1>5, <1>6, <2>1, <2>2 DEF FilesPass
  <2> QED BY <2>2, <2>3, <2>4
<1>9. ASSUME code = 1
      PROVE  OverBudget(flags, rs, res) \/ SomeFailed(res) \/ bk.lost # "none" \/ hid
  <2>1. CASE loss # "none"
    BY <1>5, <2>1
  <2>2. CASE \E i \in DOMAIN res : res[i].status # "PASS"
    <3>1. SomeFailed(res)
      BY <1>6, <2>2
    <3> QED BY <3>1
  <2>3. CASE Charged(flags, stats, res)
    BY <2>3 DEF stats
  <2> QED BY <1>2, <1>5, <1>9, <2>1, <2>2, <2>3
<1>10. ASSUME SomeFailed(res)
       PROVE  code = 1 /\ FilesFail(bk)
  BY <1>2, <1>3, <1>5, <1>6, <1>7, <1>10 DEF FilesFail
<1> QED BY <1>8, <1>9, <1>10 DEF Exact

\* a step that passed has no test that failed
LEMMA PassedIs ==
  ASSUME NEW r, StepSound(r), r.status = "PASS"
  PROVE  CI!Truly(r, "FAIL") = {}
BY DEF StepSound, CI!Truly

LEMMA RunExactTold == ReportsInv => CI!RunExact
<1> DEFINE flags == FlagsFor(setup, TRUE)
           rs == CI!RealSteps
           stats == CI!WriteReport(results, flags)
<1> SUFFICES ASSUME ReportsInv, pc = "done", book # <<>>
             PROVE  Exact(CI!Flags, rs, results, book, exit, CI!Hidden)
  BY RunExactIs
<1>1. /\ RunsSound(runs) /\ setup \in Setups /\ outer = TRUE
      /\ OfSteps(setup, outer, results, runs) \/ OfGroup(setup, outer, results, runs)
      /\ Written(flags, results, book, exit) /\ ~CI!BadFlags(flags)
  BY DEF ReportsInv, RunInv, AtPc
<1>2. CI!Flags = flags
  BY <1>1, FlagsAre
<1>3. flags \in RunFlags /\ flags.slow \in Nat
  BY <1>1, SetupsAssumption DEF FlagsFor, RunFlags
<1> HIDE DEF flags
<1>4. CI!Hidden \in BOOLEAN
  BY DEF CI!Hidden
<1>5. ~CI!Hidden =>
        /\ Shown(runs) /\ \A i \in DOMAIN runs : ~runs[i].gone
        /\ \A r \in Elems(rs) : ~r.real.cut /\ ~r.real.late
  BY SetIsElems DEF CI!Hidden, CI!AllShown, Shown
<1>6. CASE OfSteps(setup, outer, results, runs)
  <2>1. rs = results /\ StepsSound(results)
    BY <1>1, <1>6 DEF CI!RealSteps, OfSteps, StepsSound
  <2>2. Ending(results)
    BY <1>6 DEF OfSteps, Ending, StepSound
  <2>3. ASSUME ~CI!Hidden PROVE Charged(flags, stats, results) <=> OverBudget(flags, rs, results)
    <3>1. \A i \in DOMAIN results : ~results[i].real.cut /\ ~results[i].real.late
      BY <1>5, <2>1, <2>3 DEF Elems
    <3>2. /\ CI!Total(results, "SKIP") = SkipCount(results)
          /\ flags.slow # 0 => (CI!SlowAlerts(results, flags) > 0 <=> SlowCount(results, flags.slow) > 0)
      BY <1>3, <2>1, <3>1, StepsShown
    <3>3. IsSeq(results)
      BY <2>1 DEF StepsSound
    <3> HIDE DEF rs
    <3> QED BY <1>1, <1>3, <2>1, <3>2, <3>3, LimitsAgree
  <2>4. ASSUME ~SomeFailed(results), NEW r \in CI!ToSet(rs)
        PROVE  r.status = "PASS" /\ CI!Truly(r, "FAIL") = {}
    <3>1. r \in CI!ToSet(results) /\ StepSound(r)
      BY <2>1, <2>4, SetIsElems DEF StepsSound, Elems
    <3>2. r.status = "PASS"
      BY <2>4, <3>1 DEF SomeFailed, StepSound
    <3> QED BY <3>1, <3>2, PassedIs
  <2> HIDE DEF rs, stats
  <2>5. ~CI!Hidden =>
          (Charged(flags, CI!WriteReport(results, flags), results) <=> OverBudget(flags, rs, results))
    BY <2>3 DEF stats
  <2>6. Exact(flags, rs, results, book, exit, CI!Hidden)
    BY <1>1, <1>4, <2>2, <2>4, <2>5, ExactIs
  <2> QED BY <1>2, <2>6
<1>7. CASE OfGroup(setup, outer, results, runs)
  <2>1. setup.phases # <<>> /\ GroupOf(setup, results, runs)
    BY <1>1, <1>7, GroupMade
  <2>2. PICK status \in {"PASS", "FAIL"}, d \in setup.times :
          /\ results = <<results[1]>> /\ GroupSound(results[1], runs, status, d)
          /\ status = "PASS" => \A i \in DOMAIN runs : runs[i].exit = 0
    BY <2>1 DEF GroupOf
  <2>3. PICK r : r = results[1]
    OBVIOUS
  <2>4. results = <<r>> /\ GroupSound(r, runs, status, d)
    BY <2>2, <2>3
  <2>5. IsSeq(results) /\ DOMAIN results = {1} /\ Len(results) = 1 /\ CI!ToSet(results) = {r}
    <3>1. IsSeq(<<r>>) /\ DOMAIN <<r>> = {1} /\ Len(<<r>>) = 1 /\ CI!ToSet(<<r>>) = {r}
      BY SetOfOne, SeqOne
    <3> QED BY <2>4, <3>1
  <2>6. rs = CI!FlattenSeq(RunResults(runs))
    BY <2>1 DEF CI!RealSteps, RunResults
  <2>7. /\ StepsSound(rs) /\ Elems(rs) = UNION {Elems(runs[i].results) : i \in DOMAIN runs}
        /\ \A i \in DOMAIN runs : StepsSound(runs[i].results)
    BY <1>1, <2>6, RunResultsAre
  <2> HIDE DEF rs, stats
  <2>8. Ending(results)
    BY <2>2, <2>3, <2>4, <2>5 DEF Ending, GroupSound
  <2>9. ASSUME ~CI!Hidden PROVE Charged(flags, stats, results) <=> OverBudget(flags, rs, results)
    <3>1. /\ Shown(runs) /\ \A i \in DOMAIN runs : ~runs[i].gone
          /\ \A i \in DOMAIN runs : \A x \in Elems(runs[i].results) : ~x.real.cut /\ ~x.real.late
      BY <1>5, <2>7, <2>9
    <3>2. /\ r.SKIP = CI!CollectNestedSummaryCases(runs, "SKIP")
          /\ r.timed = CI!CollectNestedSummaryCases(runs, "timed")
      BY <2>4, <3>1 DEF GroupSound
    <3>3. CI!Total(results, "SKIP") = SkipCount(rs)
      <4>1. Len(r.SKIP) = SkipCount(rs)
        BY <1>1, <2>6, <3>1, <3>2, GroupSkips
      <4>2. IsSeq(r.SKIP) /\ Len(r.SKIP) \in Nat
        <5>1. "SKIP" \in CI!Statuses
          BY DEF CI!Statuses
        <5>2. IsSeq(CI!CollectNestedSummaryCases(runs, "SKIP"))
          BY <1>1, <3>1, <5>1, NestedLength
        <5> QED BY <3>2, <5>2, SeqIs
      <4> DEFINE m == Len(r.SKIP)
      <4>3. CI!Total(results, "SKIP") = CI!AddUp([i \in {1} |-> m])
        <5>1. [i \in DOMAIN results |-> Len(results[i]["SKIP"])] = [i \in {1} |-> m]
          BY <2>3, <2>5
        <5> QED BY <5>1 DEF CI!Total
      <4> HIDE DEF m
      <4>4. [i \in {1} |-> m] = Append(<<>>, m)
        <5>1. Append(<<>>, m) = [i \in 1..(0 + 1) |-> IF i = 0 + 1 THEN m ELSE <<>>[i]]
          BY SeqEmpty, AppendIs
        <5>2. 1..(0 + 1) = {1}
          OBVIOUS
        <5> QED BY <5>1, <5>2
      <4>5. CI!AddUp(Append(<<>>, m)) = CI!AddUp(<<>>) + m
        BY SeqEmpty, AddUpMore
      <4> QED BY <4>1, <4>2, <4>3, <4>4, <4>5, AddUpNone DEF m
    <3>4. ASSUME flags.slow # 0
          PROVE  CI!SlowAlerts(results, flags) > 0 <=> SlowCount(rs, flags.slow) > 0
      <4> DEFINE k == flags.slow
      <4>1. k \in Nat
        BY <1>3
      <4>2. /\ IsSeq(r.timed)
            /\ (\E j \in DOMAIN r.timed : r.timed[j].dur >= k) <=> SlowCount(rs, k) > 0
        <5> HIDE DEF k
        <5>1. \A i \in DOMAIN runs : \A x \in Elems(runs[i].results) : ~x.real.cut
          BY <3>1
        <5> QED BY <1>1, <2>6, <3>1, <3>2, <4>1, <5>1, GroupSlow
      <4>3. \A i \in DOMAIN results : IsSeq(results[i].timed)
        BY <2>3, <2>5, <4>2
      <4>4. CI!SlowAlerts(results, flags) > 0
            <=> \E i \in DOMAIN results : \E j \in DOMAIN results[i].timed : results[i].timed[j].dur >= k
        BY <2>5, <3>4, <4>3, SlowAlertsAre
      <4> HIDE DEF k
      <4> QED BY <2>3, <2>5, <4>2, <4>4 DEF k
    <3> QED BY <1>1, <1>3, <2>5, <3>3, <3>4, LimitsAgree DEF stats
  <2>10. ASSUME ~SomeFailed(results), NEW x \in CI!ToSet(rs)
         PROVE  x.status = "PASS" /\ CI!Truly(x, "FAIL") = {}
    <3>1. status = "PASS"
      BY <2>4, <2>5, <2>10 DEF SomeFailed, GroupSound
    <3>2. x \in Elems(rs)
      BY <2>10, SetIsElems
    <3>3. PICK i \in DOMAIN runs : x \in Elems(runs[i].results)
      BY <2>7, <3>2
    <3>4. runs[i].exit = 0 /\ RunSound(runs[i])
      BY <1>1, <2>2, <3>1 DEF RunsSound
    <3>5. x.status = "PASS" /\ StepSound(x)
      BY <3>3, <3>4 DEF RunSound, Elems
    <3> QED BY <3>5, PassedIs
  <2>11. ~CI!Hidden =>
           (Charged(flags, CI!WriteReport(results, flags), results) <=> OverBudget(flags, rs, results))
    BY <2>9 DEF stats
  <2>12. Exact(flags, rs, results, book, exit, CI!Hidden)
    BY <1>1, <1>4, <2>8, <2>10, <2>11, ExactIs
  <2> QED BY <1>2, <2>12
<1> QED BY <1>1, <1>6, <1>7

LEMMA ReportsTold == ReportsInv => CI!ReportsTrue
BY StepCasesTold, FailNamedTold, OuterTold, RunExactTold DEF CI!ReportsTrue

(***************************************************************************)
(* The reports of a run tell what happened: the cases of every step are    *)
(* those that ended so, a failure has a name, a group counts what its      *)
(* phases counted, and exit code 0 or 1 has its cause, as far as the code  *)
(* was shown what happened.                                                *)
(***************************************************************************)
THEOREM ReportsTell == CI!Spec => []CI!ReportsTrue
<1>1. CI!Init => ReportsInv
  BY ReportsStart
<1>2. ReportsInv /\ [CI!Next]_(CI!vars) => ReportsInv'
  BY ReportsStep
<1>3. ReportsInv => CI!ReportsTrue
  BY ReportsTold
<1> QED BY <1>1, <1>2, <1>3, PTL DEF CI!Spec

-----------------------------------------------------------------------------
(***************************************************************************)
(* The reports tell what happened beside the other parts as well: cases,   *)
(* failures, sums and exit code of a run.                                  *)
(***************************************************************************)
THEOREM ReportsCorrect == MCSpec => []ReportsTrue
<1>1. MCSpec => CI!Spec
  <2>1. MCInit => CI!Init
    BY DEF MCInit
  <2>2. UNCHANGED reportVars => UNCHANGED CI!vars
    BY DEF reportVars, CI!vars
  <2>3. [MCNext]_<<who, vars, reportVars, stakeVars, bootVars, netemVars, headVars, scriptVars>>
        => [CI!Next]_(CI!vars)
    BY <2>2 DEF MCNext
  <2> QED BY <2>1, <2>3, PTL DEF MCSpec, CI!Spec
<1>2. CI!ReportsTrue => ReportsTrue
  BY DEF ReportsTrue
<1> QED BY <1>1, <1>2, ReportsTell, PTL

=================================================================================
