---------------------------- MODULE NaturalFacts ----------------------------
(***************************************************************************)
(* Facts about natural numbers that the proofs share: least elements, the  *)
(* first day of a week, induction, and that a recursive function satisfies *)
(* the equation that defines it.                                           *)
(***************************************************************************)
EXTENDS Integers, FiniteSetsExt, NaturalsInduction, WellFoundedInduction, TLAPS

\* Min is the least element where there is one.
LEMMA MinIsLeast ==
  ASSUME NEW S, NEW m \in S, \A y \in S : m <= y
  PROVE  Min(S) \in S /\ \A y \in S : Min(S) <= y
  BY DEF Min

\* A set of natural numbers has a least element.
LEMMA MinOfNaturals ==
  ASSUME NEW S \in SUBSET Nat, S # {}
  PROVE  Min(S) \in S /\ \A y \in S : Min(S) <= y
  <1> DEFINE R == {ss \in Nat \X Nat : ss[1] < ss[2]}
  <1>1. R = OpToRel(<, Nat)
    BY Zenon DEF OpToRel
  <1>2. IsWellFoundedOn(R, Nat)
    BY <1>1, NatLessThanWellFounded
  <1>3. PICK x \in S : \A y \in S : ~(<<y, x>> \in R)
    BY <1>2, WFMin, Zenon
  <1>4. ASSUME NEW y \in S PROVE x <= y
    <2>1. ~(<<y, x>> \in R)
      BY <1>3
    <2>2. ~(y < x)
      BY <2>1
    <2> QED  BY <2>2
  <1> QED  BY <1>4, MinIsLeast

\* A set of natural numbers that has an upper bound has a greatest element.
LEMMA MaxOfBounded ==
  ASSUME NEW n \in Nat, NEW S \in SUBSET (0..n), S # {}
  PROVE  Max(S) \in S /\ \A x \in S : x <= Max(S)
  <1> DEFINE T == {n - x : x \in S}
  <1>1. T \in SUBSET Nat /\ T # {}
    <2>1. \A x \in S : n - x \in Nat
      OBVIOUS
    <2> QED  BY <2>1
  <1>2. Min(T) \in T /\ \A y \in T : Min(T) <= y
    BY <1>1, MinOfNaturals
  <1>3. PICK m \in S : Min(T) = n - m
    BY <1>2
  <1>4. \A x \in S : n - x \in T
    OBVIOUS
  <1> HIDE DEF T
  <1>5. \A x \in S : m >= x
    BY <1>2, <1>3, <1>4
  <1> QED  BY <1>5 DEF Max

\* The week before the one a day is in begins no earlier than the count of days does, if
\* a week has passed, and ends before the day.
LEMMA WeekBefore ==
  ASSUME NEW d \in Nat, NEW w \in Nat \ {0}, w <= d
  PROVE  (d \div w - 1) * w \in Nat /\ (d \div w - 1) * w + w - 1 <= d
  <1> DEFINE q == d \div w
  <1>1. q \in Nat /\ q * w <= d /\ d < q * w + w
    OBVIOUS
  <1> HIDE DEF q
  <1>2. q >= 1
    BY <1>1
  <1>3. PICK m \in Nat : q = m + 1
    BY <1>1, <1>2
  <1>4. q * w = m * w + w
    BY <1>3
  <1>5. m * w \in Nat /\ q - 1 = m
    BY <1>3
  <1> QED  BY <1>1, <1>4, <1>5 DEF q

\* Induction over the natural numbers, for a set.
LEMMA SetInduction ==
  ASSUME NEW T, 0 \in T, \A n \in Nat : n \in T => n + 1 \in T
  PROVE  Nat \subseteq T
  <1> DEFINE S == Nat \ T
  <1>1. SUFFICES ASSUME S # {} PROVE FALSE
    OBVIOUS
  <1>2. Min(S) \in S /\ \A y \in S : Min(S) <= y
    <2> S \in SUBSET Nat
      OBVIOUS
    <2> HIDE DEF S
    <2> QED BY <1>1, MinOfNaturals
  <1>3. PICK m \in S : \A y \in S : m <= y
    BY <1>2
  <1>4. m \in Nat /\ m # 0
    OBVIOUS
  <1>5. m - 1 \in Nat /\ ~(m <= m - 1) /\ (m - 1) + 1 = m
    BY <1>4
  <1>6. m - 1 \in T
    BY <1>3, <1>5
  <1> QED BY <1>5, <1>6

\* f satisfies the equation of a function that stops with out or goes on with next.
Solves(f, D, stop, out, next) == \A d \in D : f[d] = IF d \in stop THEN out[d] ELSE f[next[d]]

\* Going on lowers the rank.
Descends(rank, D, stop, next) == \A d \in D \ stop : rank[next[d]] < rank[d]

\* Where every call that a function makes to itself is of lower rank, its equation has a
\* solution.
LEMMA RecursionHasSolution ==
  ASSUME NEW D, NEW V, NEW rank \in [D -> Nat], NEW stop \in SUBSET D,
         NEW out \in [D -> V], NEW next \in [D -> D], Descends(rank, D, stop, next)
  PROVE  \E f \in [D -> V] : Solves(f, D, stop, out, next)
  <1> USE DEF Descends
  <1> DEFINE Fits(g, n) == \A d \in D : rank[d] <= n =>
                 g[d] = IF d \in stop THEN out[d] ELSE g[next[d]]
             T == {n \in Nat : \E g \in [D -> V] : Fits(g, n)}
             U == {n \in Nat : \A g, h \in [D -> V] : Fits(g, n) /\ Fits(h, n) =>
                                 \A d \in D : rank[d] <= n => g[d] = h[d]}
  <1>1. Nat \subseteq T
    <2>1. 0 \in T
      <3>1. \A d \in D : rank[d] <= 0 => d \in stop
        OBVIOUS
      <3>2. Fits(out, 0)
        BY <3>1
      <3> QED BY <3>2
    <2>2. ASSUME NEW n \in Nat, n \in T PROVE n + 1 \in T
      <3>1. PICK g \in [D -> V] : Fits(g, n)
        BY <2>2
      <3> DEFINE h == [d \in D |-> IF rank[d] <= n THEN g[d]
                                   ELSE IF d \in stop THEN out[d] ELSE g[next[d]]]
      <3>2. h \in [D -> V]
        OBVIOUS
      <3>3. ASSUME NEW d \in D, rank[d] <= n + 1
            PROVE  h[d] = IF d \in stop THEN out[d] ELSE h[next[d]]
        <4>1. CASE d \in stop
          BY <3>1, <3>3, <4>1
        <4>2. CASE d \notin stop
          <5>1. next[d] \in D /\ rank[next[d]] \in Nat /\ rank[d] \in Nat /\ rank[next[d]] < rank[d]
            BY <4>2
          <5>2. rank[next[d]] <= n
            BY <3>3, <5>1
          <5>3. h[next[d]] = g[next[d]]
            BY <5>1, <5>2
          <5>4. h[d] = g[next[d]]
            BY <3>1, <4>2
          <5> QED BY <4>2, <5>3, <5>4
        <4> QED BY <4>1, <4>2
      <3> HIDE DEF h
      <3>4. Fits(h, n + 1)
        BY <3>3
      <3> QED BY <3>2, <3>4
    <2> HIDE DEF T
    <2> QED BY <2>1, <2>2, SetInduction
  <1>2. Nat \subseteq U
    <2>1. 0 \in U
      <3>1. \A d \in D : rank[d] <= 0 => d \in stop
        OBVIOUS
      <3> QED BY <3>1
    <2>2. ASSUME NEW n \in Nat, n \in U PROVE n + 1 \in U
      <3>1. ASSUME NEW g \in [D -> V], NEW h \in [D -> V], Fits(g, n + 1), Fits(h, n + 1),
                   NEW d \in D, rank[d] <= n + 1
            PROVE  g[d] = h[d]
        <4>1. Fits(g, n) /\ Fits(h, n)
          <5>1. \A e \in D : rank[e] \in Nat /\ (rank[e] <= n => rank[e] <= n + 1)
            OBVIOUS
          <5> QED BY <3>1, <5>1
        <4>2. \A e \in D : rank[e] <= n => g[e] = h[e]
          BY <2>2, <4>1
        <4>3. CASE d \in stop
          BY <3>1, <4>3
        <4>4. CASE d \notin stop
          <5>1. next[d] \in D /\ rank[next[d]] \in Nat /\ rank[d] \in Nat /\ rank[next[d]] < rank[d]
            BY <4>4
          <5>2. rank[next[d]] <= n
            BY <3>1, <5>1
          <5> QED BY <3>1, <4>2, <4>4, <5>1, <5>2
        <4> QED BY <4>3, <4>4
      <3> QED BY <3>1
    <2> HIDE DEF U
    <2> QED BY <2>1, <2>2, SetInduction
  <1> DEFINE Part == [n \in Nat |-> CHOOSE g \in [D -> V] : Fits(g, n)]
             f == [d \in D |-> Part[rank[d]][d]]
  <1>3. \A n \in Nat : Part[n] \in [D -> V] /\ Fits(Part[n], n)
    <2>1. \A n \in Nat : \E g \in [D -> V] : Fits(g, n)
      BY <1>1
    <2> QED BY <2>1
  <1> HIDE DEF Part
  <1>4. f \in [D -> V]
    BY <1>3
  <1>5. ASSUME NEW d \in D PROVE f[d] = IF d \in stop THEN out[d] ELSE f[next[d]]
    <2>1. Part[rank[d]][d] = IF d \in stop THEN out[d] ELSE Part[rank[d]][next[d]]
      BY <1>3
    <2>2. CASE d \notin stop
      <3>1. next[d] \in D /\ rank[next[d]] \in Nat /\ rank[d] \in Nat /\ rank[next[d]] < rank[d]
        BY <2>2
      <3>2. Fits(Part[rank[d]], rank[next[d]]) /\ Fits(Part[rank[next[d]]], rank[next[d]])
        <4>1. \A e \in D : rank[e] \in Nat /\ (rank[e] <= rank[next[d]] => rank[e] <= rank[d])
          BY <3>1
        <4>2. Fits(Part[rank[d]], rank[d]) /\ Fits(Part[rank[next[d]]], rank[next[d]])
          BY <1>3, <3>1
        <4> QED BY <4>1, <4>2
      <3>3. Part[rank[d]][next[d]] = Part[rank[next[d]]][next[d]]
        <4>1. rank[next[d]] \in U
          BY <1>2, <3>1
        <4>2. Part[rank[d]] \in [D -> V] /\ Part[rank[next[d]]] \in [D -> V]
          BY <1>3, <3>1
        <4>3. \A g, h \in [D -> V] : Fits(g, rank[next[d]]) /\ Fits(h, rank[next[d]]) =>
                \A e \in D : rank[e] <= rank[next[d]] => g[e] = h[e]
          BY <4>1
        <4> HIDE DEF Fits
        <4>4. \A e \in D : rank[e] <= rank[next[d]] => Part[rank[d]][e] = Part[rank[next[d]]][e]
          BY <3>2, <4>2, <4>3
        <4> QED BY <3>1, <4>4
      <3> QED BY <2>1, <2>2, <3>1, <3>3
    <2> QED BY <2>1, <2>2
  <1> HIDE DEF f
  <1> QED BY <1>4, <1>5 DEF Solves
=============================================================================
