----------------------------- MODULE FoldLemmas ------------------------------
(***************************************************************************)
(* Induction on numbers, stated of a set instead of a predicate, and what  *)
(* it shows: an operator that is defined with FoldLeft steps through the   *)
(* sequence and stays in any set that its steps stay in; a finite set of   *)
(* numbers has a largest one; the indices of a list can be put in order.   *)
(***************************************************************************)
EXTENDS Integers, Sequences, FiniteSetsExt, FiniteSetTheorems, WellFoundedInduction, TLAPS

\* A set of natural numbers has a smallest one.
LEMMA SmallestOf ==
  ASSUME NEW S, S \subseteq Nat, S # {}
  PROVE  \E n \in S : \A m \in S : n <= m
<1> DEFINE R == OpToRel(<, Nat)
<1>1. IsWellFoundedOn(R, Nat)
  BY NatLessThanWellFounded
<1>2. \E n \in S : \A m \in S : ~(<<m, n>> \in R)
  <2> HIDE DEF R
  <2> QED BY <1>1, WFMin
<1>3. ASSUME NEW m \in Nat, NEW n \in Nat, ~(<<m, n>> \in R) PROVE n <= m
  BY <1>3 DEF OpToRel
<1> HIDE DEF R
<1> QED BY <1>2, <1>3

\* A set with 0 that has the successor of each of its members has all.
LEMMA SetInduction ==
  ASSUME NEW S, 0 \in S, \A n \in Nat : n \in S => n + 1 \in S
  PROVE  Nat \subseteq S
<1> SUFFICES ASSUME Nat \ S # {} PROVE FALSE
  OBVIOUS
<1>1. PICK n \in Nat \ S : \A m \in Nat \ S : n <= m
  BY SmallestOf
<1>2. n # 0 /\ n - 1 \in Nat
  BY <1>1
<1>3. n - 1 \in S
  BY <1>1, <1>2
<1> QED BY <1>1, <1>2, <1>3

\* The same for the numbers up to a bound.
LEMMA BoundedInduction ==
  ASSUME NEW L \in Nat, NEW S, 0 \in S, \A n \in 0 .. L - 1 : n \in S => n + 1 \in S
  PROVE  0 .. L \subseteq S
<1> DEFINE T == S \cup {n \in Nat : n > L}
<1>1. 0 \in T /\ \A n \in Nat : n \in T => n + 1 \in T
  OBVIOUS
<1>2. Nat \subseteq T
  <2> HIDE DEF T
  <2> QED BY <1>1, SetInduction
<1> QED BY <1>2

\* Of some of the first L indices, one has the largest number.
LEMMA LargestOf ==
  ASSUME NEW L \in Nat, NEW s, s \subseteq 1 .. L, s # {}, NEW f \in [s -> Nat]
  PROVE  \E i \in s : \A j \in s : f[j] <= f[i]
<1> DEFINE Best(n) == \E i \in s \cap 1 .. n : \A j \in s \cap 1 .. n : f[j] <= f[i]
           Good == {n \in 0 .. L : s \cap 1 .. n = {} \/ Best(n)}
<1>1. 0 \in Good
  OBVIOUS
<1>2. ASSUME NEW n \in 0 .. L - 1, n \in Good PROVE n + 1 \in Good
  <2>1. n + 1 \in 0 .. L /\ 1 .. n + 1 = (1 .. n) \cup {n + 1}
    OBVIOUS
  <2>2. CASE n + 1 \notin s
    <3>1. s \cap 1 .. n + 1 = s \cap 1 .. n
      BY <2>1, <2>2
    <3> QED BY <1>2, <2>1, <3>1
  <2>3. CASE n + 1 \in s
    <3>1. CASE s \cap 1 .. n = {}
      <4>1. s \cap 1 .. n + 1 = {n + 1}
        BY <2>1, <2>3, <3>1
      <4>2. f[n + 1] <= f[n + 1]
        BY <2>3
      <4> QED BY <2>1, <4>1, <4>2
    <3>2. CASE Best(n)
      <4>1. PICK i \in s \cap 1 .. n : \A j \in s \cap 1 .. n : f[j] <= f[i]
        BY <3>2
      <4>2. f[i] \in Nat /\ f[n + 1] \in Nat /\ \A j \in s : f[j] \in Nat
        BY <2>3
      <4>3. s \cap 1 .. n + 1 = (s \cap 1 .. n) \cup {n + 1}
        BY <2>1, <2>3
      <4>4. CASE f[n + 1] <= f[i]
        BY <2>1, <4>1, <4>3, <4>4
      <4>5. CASE ~(f[n + 1] <= f[i])
        <5>1. \A j \in s \cap 1 .. n + 1 : f[j] <= f[n + 1]
          BY <4>1, <4>2, <4>3, <4>5
        <5> QED BY <2>1, <4>3, <5>1
      <4> QED BY <4>4, <4>5
    <3> QED BY <1>2, <3>1, <3>2
  <2> QED BY <2>2, <2>3
<1>3. 0 .. L \subseteq Good
  <2> HIDE DEF Good
  <2> QED BY <1>1, <1>2, BoundedInduction
<1>4. L \in Good
  <2>1. L \in 0 .. L
    OBVIOUS
  <2> HIDE DEF Good
  <2> QED BY <1>3, <2>1
<1>5. s \cap 1 .. L = s
  OBVIOUS
<1> QED BY <1>4, <1>5

\* What Append does, by index.
LEMMA AppendFacts ==
  ASSUME NEW S, NEW s \in Seq(S), NEW e \in S
  PROVE  /\ Append(s, e) \in Seq(S) /\ Len(Append(s, e)) = Len(s) + 1
         /\ Len(s) \in Nat /\ DOMAIN s = 1 .. Len(s) /\ DOMAIN Append(s, e) = 1 .. Len(s) + 1
         /\ Append(s, e)[Len(s) + 1] = e /\ \A i \in 1 .. Len(s) : Append(s, e)[i] = s[i]
<1>1. Append(s, e) \in Seq(S) /\ Len(Append(s, e)) = Len(s) + 1 /\ Len(s) \in Nat
  OBVIOUS
<1>2. DOMAIN s = 1 .. Len(s) /\ DOMAIN Append(s, e) = 1 .. Len(s) + 1
  BY <1>1
<1>3. Append(s, e)[Len(s) + 1] = e /\ \A i \in 1 .. Len(s) : Append(s, e)[i] = s[i]
  OBVIOUS
<1> QED BY <1>1, <1>2, <1>3

-----------------------------------------------------------------------------
(* The function that FoldLeft chooses.                                      *)

\* g follows the fold that begins with base and whose steps are rel.
Iterates(g, base, L, rel) ==
  g = [s \in SUBSET (1 .. L) |->
         IF s = {} THEN base ELSE rel[<<g[s \ {Max(s)}], Max(s)>>]]

\* The largest of a set of numbers up to a bound.
LEMMA MaxIn ==
  ASSUME NEW L \in Nat, NEW s, s \subseteq 1 .. L, s # {}
  PROVE  Max(s) \in s /\ \A y \in s : Max(s) >= y
<1> DEFINE T == {n \in Nat : L - n \in s}
<1>1. PICK n \in T : \A m \in T : n <= m
  <2>1. PICK x \in s : TRUE
    OBVIOUS
  <2>2. L - x \in T
    OBVIOUS
  <2>3. T \subseteq Nat /\ T # {}
    BY <2>2
  <2> HIDE DEF T
  <2> QED BY <2>3, SmallestOf
<1>2. ASSUME NEW y \in s PROVE L - n >= y
  <2>1. L - y \in T
    OBVIOUS
  <2> QED BY <1>1, <2>1
<1>3. \E x \in s : \A y \in s : x >= y
  BY <1>1, <1>2
<1> QED BY <1>3 DEF Max

LEMMA MaxUpTo ==
  ASSUME NEW n \in Nat, NEW s, s \subseteq 1 .. n + 1, n + 1 \in s
  PROVE  Max(s) = n + 1
<1>1. Max(s) \in s /\ \A y \in s : Max(s) >= y
  <2>1. n + 1 \in Nat /\ s # {}
    OBVIOUS
  <2> QED BY <2>1, MaxIn
<1>2. Max(s) \in 1 .. n + 1 /\ Max(s) >= n + 1
  BY <1>1
<1> QED BY <1>2

\* The first numbers are the next set that a fold visits.
LEMMA UpTo ==
  ASSUME NEW L \in Nat, NEW n \in 0 .. L - 1
  PROVE  /\ 1 .. n + 1 \in SUBSET (1 .. L) /\ 1 .. n + 1 # {} /\ n + 1 \in 1 .. L
         /\ Max(1 .. n + 1) = n + 1 /\ (1 .. n + 1) \ {n + 1} = 1 .. n
<1>1. n \in Nat /\ 1 .. n + 1 \subseteq 1 .. n + 1 /\ n + 1 \in 1 .. n + 1
  OBVIOUS
<1>2. Max(1 .. n + 1) = n + 1
  BY <1>1, MaxUpTo
<1>3. (1 .. n + 1) \ {n + 1} = 1 .. n /\ 1 .. n + 1 # {}
  BY <1>1
<1>4. 1 .. n + 1 \in SUBSET (1 .. L) /\ n + 1 \in 1 .. L
  OBVIOUS
<1> QED BY <1>2, <1>3, <1>4

\* There is one as soon as the steps stay in a set.
LEMMA IteratesExists ==
  ASSUME NEW S, NEW base \in S, NEW L \in Nat, NEW rel \in [S \X (1 .. L) -> S]
  PROVE  \E g \in [SUBSET (1 .. L) -> S] : Iterates(g, base, L, rel)
<1> DEFINE Steps(g, n) == \A s \in SUBSET (1 .. n) :
             g[s] = IF s = {} THEN base ELSE rel[<<g[s \ {Max(s)}], Max(s)>>]
           Good == {n \in 0 .. L : \E g \in [SUBSET (1 .. n) -> S] : Steps(g, n)}
<1>1. 0 \in Good
  <2> DEFINE g == [s \in SUBSET (1 .. 0) |-> base]
  <2>1. SUBSET (1 .. 0) = {{}}
    OBVIOUS
  <2>2. g \in [SUBSET (1 .. 0) -> S]
    OBVIOUS
  <2>5. \A s \in SUBSET (1 .. 0) : s = {} /\ g[s] = base
    BY <2>1
  <2>6. Steps(g, 0)
    BY <2>5
  <2> HIDE DEF g, Steps
  <2>3. \E h \in [SUBSET (1 .. 0) -> S] : Steps(h, 0)
    BY <2>2, <2>6
  <2>4. 0 \in 0 .. L
    OBVIOUS
  <2> QED BY <2>3, <2>4
<1>2. ASSUME NEW n \in 0 .. L - 1, n \in Good PROVE n + 1 \in Good
  <2>1. PICK g \in [SUBSET (1 .. n) -> S] : Steps(g, n)
    BY <1>2
  <2> DEFINE h == [s \in SUBSET (1 .. n + 1) |->
                     IF n + 1 \in s THEN rel[<<g[s \ {n + 1}], n + 1>>] ELSE g[s]]
  <2>2. ASSUME NEW s \in SUBSET (1 .. n + 1)
        PROVE  /\ n + 1 \notin s => s \in SUBSET (1 .. n)
               /\ s \ {n + 1} \in SUBSET (1 .. n)
    OBVIOUS
  <2>3. h \in [SUBSET (1 .. n + 1) -> S]
    <3> SUFFICES ASSUME NEW s \in SUBSET (1 .. n + 1) PROVE h[s] \in S
      OBVIOUS
    <3>1. CASE n + 1 \notin s
      BY <2>1, <2>2, <3>1
    <3>2. CASE n + 1 \in s
      <4>1. g[s \ {n + 1}] \in S /\ n + 1 \in 1 .. L
        BY <2>1, <2>2
      <4> QED BY <3>2, <4>1
    <3> QED BY <3>1, <3>2
  <2>4. Steps(h, n + 1)
    <3> SUFFICES ASSUME NEW s \in SUBSET (1 .. n + 1)
                 PROVE  h[s] = IF s = {} THEN base ELSE rel[<<h[s \ {Max(s)}], Max(s)>>]
      OBVIOUS
    <3>1. CASE n + 1 \in s
      <4>1. Max(s) = n + 1
        <5>1. n \in Nat /\ s \subseteq 1 .. n + 1
          OBVIOUS
        <5> QED BY <3>1, <5>1, MaxUpTo
      <4>2. h[s \ {n + 1}] = g[s \ {n + 1}]
        BY <2>2
      <4> QED BY <3>1, <4>1, <4>2
    <3>2. CASE n + 1 \notin s
      <4>1. s \in SUBSET (1 .. n) /\ s \ {Max(s)} \in SUBSET (1 .. n)
        BY <2>2, <3>2
      <4>2. h[s] = g[s] /\ h[s \ {Max(s)}] = g[s \ {Max(s)}]
        BY <3>2, <4>1
      <4> QED BY <2>1, <4>1, <4>2
    <3> QED BY <3>1, <3>2
  <2>5. n + 1 \in 0 .. L
    OBVIOUS
  <2> HIDE DEF h, Steps
  <2> QED BY <2>3, <2>4, <2>5
<1>3. L \in Good
  <2> HIDE DEF Good
  <2> QED BY <1>1, <1>2, BoundedInduction
<1>4. PICK g \in [SUBSET (1 .. L) -> S] : Steps(g, L)
  BY <1>3
<1>5. Iterates(g, base, L, rel)
  BY <1>4 DEF Iterates
<1> QED BY <1>4, <1>5

\* What the steps stay in has the last value.
LEMMA StaysIn ==
  ASSUME NEW L \in Nat, NEW S, NEW h, h[{}] \in S,
         \A s \in SUBSET (1 .. L) : s # {} /\ h[s \ {Max(s)}] \in S => h[s] \in S
  PROVE  h[1 .. L] \in S
<1> DEFINE Good == {n \in 0 .. L : h[1 .. n] \in S}
<1>1. 0 \in Good
  <2>1. 1 .. 0 = {} /\ 0 \in 0 .. L
    OBVIOUS
  <2> QED BY <2>1
<1>2. ASSUME NEW n \in 0 .. L - 1, n \in Good PROVE n + 1 \in Good
  <2>1. /\ 1 .. n + 1 \in SUBSET (1 .. L) /\ 1 .. n + 1 # {}
        /\ Max(1 .. n + 1) = n + 1 /\ (1 .. n + 1) \ {n + 1} = 1 .. n
    BY UpTo
  <2>2. h[1 .. n + 1] \in S
    BY <1>2, <2>1
  <2> QED BY <2>2
<1>3. L \in Good
  <2>1. 0 .. L \subseteq Good
    <3> HIDE DEF Good
    <3> QED BY <1>1, <1>2, BoundedInduction
  <2>2. L \in 0 .. L
    OBVIOUS
  <2> HIDE DEF Good
  <2> QED BY <2>1, <2>2
<1> QED BY <1>3
\* The same when what the values stay in depends on how many steps were taken.
LEMMA StaysAlong ==
  ASSUME NEW L \in Nat, NEW I, NEW h, h[{}] \in I[0],
         \A n \in 0 .. L - 1 : h[1 .. n] \in I[n] => h[1 .. n + 1] \in I[n + 1]
  PROVE  h[1 .. L] \in I[L]
<1> DEFINE Good == {n \in 0 .. L : h[1 .. n] \in I[n]}
<1>1. 0 \in Good
  <2>1. 1 .. 0 = {} /\ 0 \in 0 .. L
    OBVIOUS
  <2> QED BY <2>1
<1>2. ASSUME NEW n \in 0 .. L - 1, n \in Good PROVE n + 1 \in Good
  <2>1. n + 1 \in 0 .. L
    OBVIOUS
  <2> QED BY <1>2, <2>1
<1>3. L \in Good
  <2>1. 0 .. L \subseteq Good
    <3> HIDE DEF Good
    <3> QED BY <1>1, <1>2, BoundedInduction
  <2>2. L \in 0 .. L
    OBVIOUS
  <2> HIDE DEF Good
  <2> QED BY <2>1, <2>2
<1> QED BY <1>3
-----------------------------------------------------------------------------
(* Sorting.                                                                 *)

\* R puts any two different members of S in an order.
Orders(R, S) ==
  /\ \A a, b \in S : a # b => <<a, b>> \in R \/ <<b, a>> \in R
  /\ \A a, b, c \in S : <<a, b>> \in R /\ <<b, c>> \in R => <<a, c>> \in R

SortedBy(p, n, R) == \A i, j \in 1 .. n : i < j => <<p[i], p[j]>> \in R

\* One more is inserted after all those that go before it.
LEMMA SortOneMore ==
  ASSUME NEW S, NEW R, NEW n \in Nat, NEW p \in [1 .. n -> S], SortedBy(p, n, R),
         NEW k, k \notin S, Orders(R, S \cup {k})
  PROVE  \E q \in [1 .. n + 1 -> S \cup {k}] : SortedBy(q, n + 1, R)
<1> DEFINE M == {i \in 1 .. n : <<p[i], k>> \in R}
<1>1. \A i \in 1 .. n : p[i] \in S /\ p[i] # k
  OBVIOUS
<1>2. PICK m \in 0 .. n : \A i \in 1 .. n : i <= m <=> <<p[i], k>> \in R
  <2>1. CASE M = {}
    <3>1. ASSUME NEW i \in 1 .. n PROVE ~(i <= 0) /\ <<p[i], k>> \notin R
      <4>1. i \notin M
        BY <2>1
      <4> QED BY <4>1
    <3>2. 0 \in 0 .. n
      OBVIOUS
    <3> HIDE DEF M
    <3> QED BY <3>1, <3>2
  <2>2. CASE M # {}
    <3>1. Max(M) \in M /\ \A i \in M : Max(M) >= i
      <4>1. M \subseteq 1 .. n
        OBVIOUS
      <4> HIDE DEF M
      <4> QED BY <2>2, <4>1, MaxIn
    <3>2. ASSUME NEW i \in 1 .. n, i <= Max(M) PROVE <<p[i], k>> \in R
      <4>1. CASE i = Max(M)
        BY <3>1, <4>1
      <4>2. CASE i < Max(M)
        <5>1. <<p[i], p[Max(M)]>> \in R /\ <<p[Max(M)], k>> \in R /\ Max(M) \in 1 .. n
          BY <3>1, <4>2 DEF SortedBy
        <5> HIDE DEF M
        <5> QED BY <1>1, <5>1 DEF Orders
      <4> QED BY <3>1, <3>2, <4>1, <4>2
    <3>3. Max(M) \in 0 .. n
      BY <3>1
    <3>4. \A i \in 1 .. n : <<p[i], k>> \in R => i <= Max(M)
      BY <3>1
    <3> HIDE DEF M
    <3> QED BY <3>2, <3>3, <3>4
  <2> QED BY <2>1, <2>2
<1> DEFINE q == [i \in 1 .. n + 1 |-> IF i <= m THEN p[i] ELSE IF i = m + 1 THEN k ELSE p[i - 1]]
<1>3. ASSUME NEW i \in 1 .. n, i > m PROVE <<k, p[i]>> \in R
  <2>1. <<p[i], k>> \notin R
    BY <1>2, <1>3
  <2>2. p[i] \in S \cup {k} /\ k \in S \cup {k} /\ p[i] # k
    BY <1>1
  <2> QED BY <2>1, <2>2 DEF Orders
<1>4. q \in [1 .. n + 1 -> S \cup {k}]
  <2> SUFFICES ASSUME NEW i \in 1 .. n + 1 PROVE q[i] \in S \cup {k}
    OBVIOUS
  <2>1. (i <= m => i \in 1 .. n) /\ (i > m + 1 => i - 1 \in 1 .. n)
    OBVIOUS
  <2> QED BY <1>1, <2>1
<1>5. SortedBy(q, n + 1, R)
  <2> SUFFICES ASSUME NEW i \in 1 .. n + 1, NEW j \in 1 .. n + 1, i < j PROVE <<q[i], q[j]>> \in R
    BY DEF SortedBy
  <2>1. CASE j <= m
    <3>1. q[i] = p[i] /\ q[j] = p[j] /\ i \in 1 .. n /\ j \in 1 .. n
      BY <2>1
    <3> HIDE DEF q
    <3> QED BY <3>1 DEF SortedBy
  <2>2. CASE i <= m /\ j = m + 1
    <3>1. q[i] = p[i] /\ q[j] = k /\ i \in 1 .. n
      BY <2>2
    <3> HIDE DEF q
    <3> QED BY <1>2, <2>2, <3>1
  <2>3. CASE i <= m /\ j > m + 1
    <3>1. q[i] = p[i] /\ q[j] = p[j - 1] /\ i \in 1 .. n /\ j - 1 \in 1 .. n /\ i < j - 1
      BY <2>3
    <3> HIDE DEF q
    <3> QED BY <3>1 DEF SortedBy
  <2>4. CASE i = m + 1
    <3>1. q[i] = k /\ q[j] = p[j - 1] /\ j - 1 \in 1 .. n /\ j - 1 > m
      BY <2>4
    <3> HIDE DEF q
    <3> QED BY <1>3, <3>1
  <2>5. CASE i > m + 1
    <3>1. q[i] = p[i - 1] /\ q[j] = p[j - 1] /\ i - 1 \in 1 .. n /\ j - 1 \in 1 .. n /\ i - 1 < j - 1
      BY <2>5
    <3> HIDE DEF q
    <3> QED BY <3>1 DEF SortedBy
  <2> QED BY <2>1, <2>2, <2>3, <2>4, <2>5
<1> HIDE DEF q
<1> QED BY <1>4, <1>5

\* A set of indexes that R orders can be sorted.
LEMMA SortExists ==
  ASSUME NEW L \in Nat, NEW S, S \subseteq 1 .. L, NEW R, Orders(R, S)
  PROVE  \E p \in [1 .. Cardinality(S) -> S] : SortedBy(p, Cardinality(S), R)
<1> DEFINE T(n) == S \cap 1 .. n
           C(n) == Cardinality(T(n))
           Good == {n \in 0 .. L : \E p \in [1 .. C(n) -> T(n)] : SortedBy(p, C(n), R)}
<1>1. ASSUME NEW n \in 0 .. L PROVE IsFiniteSet(T(n)) /\ C(n) \in Nat
  <2>1. IsFiniteSet(1 .. n)
    BY FS_Interval
  <2> QED BY <2>1, FS_Subset, FS_CardinalityType
<1>2. 0 \in Good
  <2>1. T(0) = {} /\ 0 \in 0 .. L
    OBVIOUS
  <2>2. C(0) = 0
    BY <2>1, FS_EmptySet
  <2>3. [i \in 1 .. 0 |-> i] \in [1 .. 0 -> {}] /\ SortedBy([i \in 1 .. 0 |-> i], 0, R)
    BY DEF SortedBy
  <2> QED BY <2>1, <2>2, <2>3
<1>3. ASSUME NEW n \in 0 .. L - 1, n \in Good PROVE n + 1 \in Good
  <2>1. n \in 0 .. L /\ n + 1 \in 0 .. L
    OBVIOUS
  <2>2. PICK p \in [1 .. C(n) -> T(n)] : SortedBy(p, C(n), R)
    BY <1>3
  <2>3. CASE n + 1 \notin S
    <3>1. T(n + 1) = T(n)
      BY <2>3
    <3> QED BY <2>1, <2>2, <3>1
  <2>4. CASE n + 1 \in S
    <3>1. T(n + 1) = T(n) \cup {n + 1} /\ n + 1 \notin T(n)
      BY <2>4
    <3>2. C(n + 1) = C(n) + 1
      BY <1>1, <2>1, <3>1, FS_AddElement
    <3>3. Orders(R, T(n) \cup {n + 1})
      BY <2>4 DEF Orders
    <3>4. C(n) \in Nat
      BY <1>1, <2>1
    <3> HIDE DEF T
    <3>5. \E q \in [1 .. C(n) + 1 -> T(n) \cup {n + 1}] : SortedBy(q, C(n) + 1, R)
      BY <2>2, <3>1, <3>3, <3>4, SortOneMore
    <3> QED BY <2>1, <3>1, <3>2, <3>5
  <2> QED BY <2>3, <2>4
<1>4. L \in Good
  <2>1. L \in 0 .. L
    OBVIOUS
  <2> HIDE DEF Good
  <2> QED BY <1>2, <1>3, <2>1, BoundedInduction
<1>5. T(L) = S
  OBVIOUS
<1> QED BY <1>4, <1>5
=============================================================================
