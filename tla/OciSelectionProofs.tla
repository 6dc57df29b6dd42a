------------------------- MODULE OciSelectionProofs -------------------------
(***************************************************************************)
(* Proofs about OciSelection: the search for the first recent report and   *)
(* the listing, which are recursive functions, and that no run leaves a    *)
(* report behind.                                                          *)
(***************************************************************************)
EXTENDS OciSelection, NaturalFacts, FiniteSetTheorems

-----------------------------------------------------------------------------
(* Reports and pages.                                                      *)

\* What the clock and the bucket may be.
BucketOK == now \in Times /\ now >= 1 /\ modified \in [Numbers -> Times]

\* Reports are positive numbers, and finitely many.
LEMMA ReportNumbers ==
  /\ Reports \subseteq Numbers /\ Reports \subseteq Nat \ {0}
  /\ MaxNumber \in Nat /\ None \notin Reports
  /\ IsFiniteSet(Reports) /\ Cardinality(Reports) <= MaxNumber
  /\ IsFiniteSet(Numbers) /\ \A n \in Reports : n <= MaxNumber
<1>1. MaxNumber \in Nat
  BY SelectionAssumption
<1>2. Reports \subseteq Numbers
  BY DEF Reports
<1>3. Numbers \subseteq Nat \ {0}
  BY <1>1 DEF Numbers
<1>4. IsFiniteSet(Numbers) /\ Cardinality(Numbers) = MaxNumber
  BY <1>1, FS_Interval DEF Numbers
<1>5. IsFiniteSet(Reports) /\ Cardinality(Reports) <= Cardinality(Numbers)
  BY <1>2, <1>4, FS_Subset
<1>6. \A n \in Reports : n <= MaxNumber
  BY <1>1, <1>2 DEF Numbers
<1>7. Reports \subseteq Nat \ {0} /\ None \notin Reports
  BY <1>2, <1>3 DEF None
<1>8. Cardinality(Reports) <= MaxNumber
  BY <1>4, <1>5
<1> QED BY <1>1, <1>2, <1>4, <1>5, <1>6, <1>7, <1>8

\* A set of reports has a first one, which Min picks.
LEMMA FirstOfReports ==
  ASSUME NEW S \in SUBSET Reports, S # {}
  PROVE  Min(S) \in S /\ \A n \in S : Min(S) <= n
<1>1. S \in SUBSET Nat
  BY ReportNumbers
<1> QED BY <1>1, MinOfNaturals

\* Whatever is asked for, firstCostReportAtOrAfter answers a report or none.
LEMMA FirstIsReport ==
  ASSUME NEW k
  PROVE  FirstAtOrAfter(k) \in Reports \cup {None}
<1>1. Page(k, 1) \in SUBSET Reports
  BY DEF Page
<1> QED BY <1>1, FirstOfReports DEF FirstAtOrAfter

\* It answers the first report at or after a number, and none only when there is none.
LEMMA FirstAtOrAfterIsFirst ==
  ASSUME NEW k \in Int
  PROVE  \/ FirstAtOrAfter(k) = None /\ \A n \in Reports : n < k
         \/ /\ FirstAtOrAfter(k) \in Reports /\ FirstAtOrAfter(k) >= k
            /\ \A n \in Reports : n >= k => FirstAtOrAfter(k) <= n
<1> DEFINE S == {n \in Reports : n >= k}
<1>1. Page(k, 1) \subseteq S
  BY DEF Page
<1>2. Reports \subseteq Nat
  BY ReportNumbers
<1>3. CASE S = {}
  <2>1. Page(k, 1) = {}
    BY <1>1, <1>3
  <2> QED BY <1>2, <1>3, <2>1 DEF FirstAtOrAfter
<1>4. CASE S # {}
  <2>1. Min(S) \in S /\ \A n \in S : Min(S) <= n
    BY <1>4, FirstOfReports
  <2>2. PICK m \in S : \A n \in S : m <= n
    BY <2>1
  <2>3. {n \in Reports : k <= n /\ n <= m} = {m}
    <3>1. m \in Reports /\ m \in Int /\ k <= m /\ m <= m
      BY <1>2, <2>2
    <3>2. ASSUME NEW n \in Reports, k <= n, n <= m PROVE n = m
      <4>1. m <= n
        BY <1>2, <2>2, <3>2
      <4> QED BY <1>2, <3>1, <3>2, <4>1
    <3> QED BY <3>1, <3>2
  <2>4. Cardinality({m}) = 1
    BY FS_Singleton
  <2>5. m \in Page(k, 1)
    BY <2>2, <2>3, <2>4 DEF Page
  <2>6. Page(k, 1) \in SUBSET Reports
    BY DEF Page
  <2>7. Min(Page(k, 1)) \in Page(k, 1) /\ Min(Page(k, 1)) <= m
    BY <2>5, <2>6, FirstOfReports
  <2>8. Min(Page(k, 1)) = m
    <3> DEFINE f == Min(Page(k, 1))
    <3>1. f \in S /\ f \in Nat /\ m \in Nat /\ f <= m
      BY <1>1, <1>2, <2>2, <2>7
    <3>2. m <= f
      BY <2>2, <3>1
    <3> HIDE DEF f
    <3>3. f = m
      BY <3>1, <3>2
    <3> QED BY <3>3 DEF f
  <2> QED BY <2>2, <2>5, <2>8 DEF FirstAtOrAfter
<1> QED BY <1>3, <1>4

-----------------------------------------------------------------------------
(* The bisection.                                                          *)

\* The function that Bisect applies.
BisectSearch(since) ==
  CHOOSE search : search = [s \in Between |->
    IF s.left = 0 \/ s.low + 1 >= s.high THEN s.best ELSE search[Halve(since, s)]]

\* Bisect is that function at the bracket it starts from.
LEMMA BisectIsSearch ==
  ASSUME NEW since, NEW lowest, NEW highest
  PROVE  Bisect(since, lowest, highest) =
           BisectSearch(since)[[left |-> MaxProbes, low |-> lowest, high |-> highest,
                                best |-> highest]]
BY Zenon DEF Bisect, BisectSearch

\* Where the bisection goes on.
Open(s) == s.left # 0 /\ ~(s.low + 1 >= s.high)

\* A probe is between the ends, and uses up one that was left.
LEMMA HalveIsTyped ==
  ASSUME NEW since, NEW s \in Between, Open(s)
  PROVE  /\ Middle(s) \in Nat /\ s.low < Middle(s) /\ Middle(s) < s.high
         /\ Halve(since, s) \in Between /\ Halve(since, s).left = s.left - 1
<1>1. /\ s.low \in Nat /\ s.high \in Nat /\ s.left \in Nat /\ s.best \in Nat /\ s.left - 1 \in Nat
      /\ s.low + 1 < s.high
  BY DEF Between, Open
<1>2. Middle(s) \in Nat /\ s.low < Middle(s) /\ Middle(s) < s.high
  BY <1>1 DEF Middle
<1>3. FirstAtOrAfter(Middle(s)) \in Nat
  <2>1. FirstAtOrAfter(Middle(s)) \in Reports \cup {None}
    BY FirstIsReport
  <2>2. Reports \subseteq Nat /\ None \in Nat
    BY ReportNumbers DEF None
  <2> QED BY <2>1, <2>2
<1> DEFINE found == FirstAtOrAfter(Middle(s))
           after == [s EXCEPT !.left = @ - 1]
<1>4. after \in Between /\ after.left = s.left - 1
  BY <1>1 DEF Between
<1> HIDE DEF found, after
<1>5. \A n \in Nat : /\ [after EXCEPT !.high = n] \in Between
                     /\ [after EXCEPT !.high = n, !.best = n] \in Between
                     /\ [after EXCEPT !.low = n] \in Between
                     /\ [after EXCEPT !.high = n].left = after.left
                     /\ [after EXCEPT !.high = n, !.best = n].left = after.left
                     /\ [after EXCEPT !.low = n].left = after.left
  BY <1>4 DEF Between
<1>6. Halve(since, s) = IF found = None THEN [after EXCEPT !.high = Middle(s)]
     ELSE IF modified[found] >= since THEN [after EXCEPT !.high = found, !.best = found]
     ELSE [after EXCEPT !.low = IF found <= s.low THEN Middle(s) ELSE found]
  BY DEF Halve, found, after
<1>7. found \in Nat
  BY <1>3 DEF found
<1> QED BY <1>2, <1>4, <1>5, <1>6, <1>7

\* The search is the function its definition asks for: every call has one probe less.
LEMMA BisectSearchUnfolds ==
  ASSUME NEW since
  PROVE  BisectSearch(since) = [s \in Between |->
           IF s.left = 0 \/ s.low + 1 >= s.high THEN s.best
           ELSE BisectSearch(since)[Halve(since, s)]]
<1> DEFINE stop == {s \in Between : ~Open(s)}
           rank == [s \in Between |-> s.left]
           out  == [s \in Between |-> s.best]
           next == [s \in Between |-> IF s \in stop THEN s ELSE Halve(since, s)]
<1>1. rank \in [Between -> Nat] /\ out \in [Between -> Nat]
  BY DEF Between
<1>2. next \in [Between -> Between]
  BY HalveIsTyped
<1>3. ASSUME NEW s \in Between \ stop PROVE rank[next[s]] < rank[s]
  <2>1. next[s] = Halve(since, s) /\ Halve(since, s) \in Between /\ Halve(since, s).left = s.left - 1
    BY HalveIsTyped
  <2>2. s.left \in Nat
    BY DEF Between
  <2> QED BY <2>1, <2>2
<1> HIDE DEF rank, out
<1>4. \E f \in [Between -> Nat] : Solves(f, Between, stop, out, next)
  <2>1. stop \in SUBSET Between
    OBVIOUS
  <2>2. Descends(rank, Between, stop, next)
    BY <1>3 DEF Descends
  <2> HIDE DEF next, stop
  <2> QED BY <1>1, <1>2, <2>1, <2>2, RecursionHasSolution
<1>5. PICK f \in [Between -> Nat] : \A s \in Between : f[s] = IF s \in stop THEN out[s] ELSE f[next[s]]
  BY <1>4 DEF Solves
<1>6. f = [s \in Between |-> IF s.left = 0 \/ s.low + 1 >= s.high THEN s.best ELSE f[Halve(since, s)]]
  <2>1. ASSUME NEW s \in Between
        PROVE  f[s] = IF s.left = 0 \/ s.low + 1 >= s.high THEN s.best ELSE f[Halve(since, s)]
    <3>1. f[s] = IF s \in stop THEN out[s] ELSE f[next[s]]
      BY <1>5
    <3> QED BY <3>1 DEF out, Open
  <2> QED BY <1>5, <2>1
<1>7. \E search : search = [s \in Between |->
        IF s.left = 0 \/ s.low + 1 >= s.high THEN s.best ELSE search[Halve(since, s)]]
  BY <1>6
<1> QED BY <1>7, Zenon DEF BisectSearch

\* Its two cases.
LEMMA BisectSearchCases ==
  ASSUME NEW since, NEW s \in Between
  PROVE  /\ ~Open(s) => BisectSearch(since)[s] = s.best
         /\ Open(s) => BisectSearch(since)[s] = BisectSearch(since)[Halve(since, s)]
BY BisectSearchUnfolds DEF Open

\* The best so far is a report, and stays one.
LEMMA HalveKeepsReport ==
  ASSUME NEW since, NEW s \in Between, Open(s), s.best \in Reports
  PROVE  Halve(since, s).best \in Reports
<1> DEFINE found == FirstAtOrAfter(Middle(s))
           after == [s EXCEPT !.left = @ - 1]
<1>1. found \in Reports \cup {None}
  BY FirstIsReport
<1>2. after.best = s.best /\ after \in [left : Int, low : Nat, high : Nat, best : Nat]
  BY DEF Between
<1>3. Halve(since, s) = IF found = None THEN [after EXCEPT !.high = Middle(s)]
     ELSE IF modified[found] >= since THEN [after EXCEPT !.high = found, !.best = found]
     ELSE [after EXCEPT !.low = IF found <= s.low THEN Middle(s) ELSE found]
  BY DEF Halve
<1> HIDE DEF found, after
<1>4. \A n : /\ [after EXCEPT !.high = n].best = after.best
             /\ [after EXCEPT !.high = n, !.best = n].best = n
             /\ [after EXCEPT !.low = n].best = after.best
  BY <1>2
<1> QED BY <1>1, <1>2, <1>3, <1>4

\* From a report that is recent the bisection answers a report.
LEMMA BisectAnswersReport ==
  ASSUME NEW since, NEW lowest \in Nat, NEW highest \in Reports
  PROVE  Bisect(since, lowest, highest) \in Reports
<1> DEFINE T == {n \in Nat : \A s \in Between : s.left = n /\ s.best \in Reports =>
                                 BisectSearch(since)[s] \in Reports}
<1>1. 0 \in T
  BY BisectSearchCases DEF Open
<1>2. ASSUME NEW n \in Nat, n \in T PROVE n + 1 \in T
  <2>1. ASSUME NEW s \in Between, s.left = n + 1, s.best \in Reports
        PROVE  BisectSearch(since)[s] \in Reports
    <3>1. CASE ~Open(s)
      BY <2>1, <3>1, BisectSearchCases
    <3>2. CASE Open(s)
      <4>1. Halve(since, s) \in Between /\ Halve(since, s).left = n
        BY <2>1, <3>2, HalveIsTyped
      <4>2. Halve(since, s).best \in Reports
        BY <2>1, <3>2, HalveKeepsReport
      <4>3. BisectSearch(since)[Halve(since, s)] \in Reports
        BY <1>2, <4>1, <4>2
      <4> QED BY <3>2, <4>3, BisectSearchCases
    <3> QED BY <3>1, <3>2
  <2> QED BY <2>1
<1>3. Nat \subseteq T
  <2> HIDE DEF T
  <2> QED BY <1>1, <1>2, SetInduction
<1> DEFINE s0 == [left |-> MaxProbes, low |-> lowest, high |-> highest, best |-> highest]
<1>4. s0 \in Between /\ s0.left \in Nat /\ s0.best \in Reports
  <2>1. MaxProbes \in Nat /\ highest \in Nat
    BY SelectionAssumption, ReportNumbers
  <2> QED BY <2>1 DEF Between
<1>5. BisectSearch(since)[s0] \in Reports
  <2> HIDE DEF s0
  <2> QED BY <1>3, <1>4
<1> QED BY <1>5, BisectIsSearch

-----------------------------------------------------------------------------
(* What the bisection finds.                                               *)

\* Reports are written in the order of their numbers.
InOrder == \A m, n \in Reports : m < n => modified[m] <= modified[n]

\* After a report that is not the last, the next is at most MaxGap numbers away.
GapsBounded ==
  \A m, n \in Reports : m < n => \E k \in Reports : m < k /\ k <= m + MaxGap + 1

\* power[n] is two to the power of n.
PowersOfTwo(power) ==
  power \in [Nat -> Nat] /\ power[0] = 1 /\ \A n \in Nat : power[n + 1] = 2 * power[n]

\* A report in the window with no other before it.
FirstRecent(since, n) ==
  /\ n \in Reports /\ modified[n] >= since
  /\ \A m \in Reports : modified[m] >= since => m >= n

\* The bisection is between an old and a recent report.
Brackets(since, s) ==
  /\ s.low \in Reports /\ modified[s.low] < since
  /\ s.high \in Reports /\ modified[s.high] >= since
  /\ s.low < s.high /\ s.best = s.high

NothingBetween(s) == \A n \in Reports : ~(s.low < n /\ n < s.high)

\* The probes left are enough for what is between.
WithinReach(power, s) ==
  s.high - s.low <= IF s.left = 0 THEN 1 ELSE power[s.left - 1] + 1

\* Between two reports whose gaps are bounded, one follows soon after any number.
LEMMA NextIsNear ==
  ASSUME GapsBounded, NEW m \in Reports, NEW n \in Reports, NEW k \in Nat, m <= k, k < n
  PROVE  \E r \in Reports : k < r /\ r <= k + MaxGap + 1
<1> DEFINE S == {x \in Reports : x <= k}
<1>1. Reports \subseteq Nat /\ MaxGap \in Nat
  BY ReportNumbers, SelectionAssumption
<1>2. S \in SUBSET (0..k) /\ S # {}
  <2>1. \A x \in S : x \in 0..k
    BY <1>1
  <2>2. m \in S
    OBVIOUS
  <2> QED BY <2>1, <2>2
<1>3. Max(S) \in S /\ \A x \in S : x <= Max(S)
  <2> HIDE DEF S
  <2> QED BY <1>2, MaxOfBounded
<1>4. PICK p \in S : \A x \in S : x <= p
  BY <1>3
<1>5. p \in Reports /\ p \in Nat /\ p <= k /\ n \in Nat /\ p < n
  BY <1>1, <1>4
<1>6. PICK r \in Reports : p < r /\ r <= p + MaxGap + 1
  BY <1>5 DEF GapsBounded
<1>7. r \in Nat
  BY <1>1
<1>8. ~(r <= k)
  <2>1. ~(r <= p)
    BY <1>5, <1>6, <1>7
  <2> QED BY <1>4, <2>1
<1> QED BY <1>1, <1>5, <1>6, <1>7, <1>8

\* Every report has a modification time.
LEMMA ModifiedIsTime ==
  ASSUME BucketOK
  PROVE  \A n \in Reports : modified[n] \in Times /\ modified[n] \in Int /\ modified[n] >= 1
BY ReportNumbers DEF BucketOK, Times, Reports

\* A report older than another has the lower number.
LEMMA OlderIsLower ==
  ASSUME BucketOK, InOrder, NEW since \in Int,
         NEW m \in Reports, modified[m] < since, NEW n \in Reports, modified[n] >= since
  PROVE  m < n
<1>1. m \in Nat /\ n \in Nat /\ modified[m] \in Int /\ modified[n] \in Int
  BY ReportNumbers DEF BucketOK, Times
<1>2. CASE n < m
  <2>1. modified[n] <= modified[m]
    BY <1>2 DEF InOrder
  <2> QED BY <1>1, <2>1
<1>3. CASE n = m
  BY <1>1, <1>3
<1> QED BY <1>1, <1>2, <1>3

\* One probe of a bisection that brackets the window's beginning.
LEMMA HalveOnBracket ==
  ASSUME BucketOK, InOrder, NEW since \in Int, NEW s \in Between, Open(s), Brackets(since, s)
  PROVE  /\ Brackets(since, Halve(since, s))
         /\ LET found == FirstAtOrAfter(Middle(s))
            IN /\ found \in Reports /\ Middle(s) <= found /\ found <= s.high
               /\ \A n \in Reports : n >= Middle(s) => found <= n
               /\ \/ Halve(since, s).low = s.low /\ Halve(since, s).high = found
                  \/ Halve(since, s).low = found /\ Halve(since, s).high = s.high
<1> DEFINE found == FirstAtOrAfter(Middle(s))
           after == [s EXCEPT !.left = @ - 1]
<1>1. Middle(s) \in Nat /\ s.low < Middle(s) /\ Middle(s) < s.high
  BY HalveIsTyped
<1>2. s.high \in Reports /\ s.low \in Reports /\ s.high \in Nat /\ s.low \in Nat /\ s.best = s.high
  BY DEF Brackets, Between
<1>3. found \in Reports /\ found >= Middle(s) /\ \A n \in Reports : n >= Middle(s) => found <= n
  <2>1. Middle(s) \in Int /\ ~(s.high < Middle(s))
    BY <1>1, <1>2
  <2> QED BY <1>2, <2>1, FirstAtOrAfterIsFirst
<1>4. found \in Nat /\ found # None /\ found <= s.high /\ ~(found <= s.low)
  <2>1. found \in Nat /\ found # None
    BY <1>3, ReportNumbers
  <2>2. s.high >= Middle(s)
    BY <1>1, <1>2
  <2>3. found <= s.high
    BY <1>2, <1>3, <2>2
  <2> HIDE DEF found
  <2> QED BY <1>1, <1>2, <1>3, <2>1, <2>3
<1>5. Halve(since, s) = IF modified[found] >= since THEN [after EXCEPT !.high = found, !.best = found]
                        ELSE [after EXCEPT !.low = found]
  BY <1>4 DEF Halve
<1>6. /\ after.low = s.low /\ after.high = s.high /\ after.best = s.best
      /\ after \in [left : Int, low : Nat, high : Nat, best : Nat]
  BY DEF Between
<1> HIDE DEF after
<1>7. CASE modified[found] >= since
  <2>1. Halve(since, s) = [after EXCEPT !.high = found, !.best = found]
    BY <1>5, <1>7
  <2>2. Halve(since, s).low = s.low /\ Halve(since, s).high = found /\ Halve(since, s).best = found
    BY <1>6, <2>1
  <2>3. s.low < found
    BY <1>1, <1>2, <1>3, <1>4
  <2> QED BY <1>3, <1>4, <1>7, <2>2, <2>3 DEF Brackets
<1>8. CASE ~(modified[found] >= since)
  <2>1. Halve(since, s) = [after EXCEPT !.low = found]
    BY <1>5, <1>8
  <2>2. Halve(since, s).low = found /\ Halve(since, s).high = s.high /\ Halve(since, s).best = s.best
    BY <1>6, <2>1
  <2>3. modified[found] < since
    <3>1. modified[found] \in Int
      <4> HIDE DEF found
      <4> QED BY <1>3, ModifiedIsTime
    <3> QED BY <1>8, <3>1
  <2>4. found < s.high
    BY <1>2, <1>3, <2>3, OlderIsLower DEF Brackets
  <2> QED BY <1>3, <1>4, <2>2, <2>3, <2>4 DEF Brackets
<1> QED BY <1>7, <1>8

\* Half of a distance within reach of n + 1 further probes is within reach of n.
LEMMA HalfIsWithinReach ==
  ASSUME NEW low \in Nat, NEW high \in Nat, NEW found \in Nat, NEW reach \in Nat,
         low + 1 < high, high - low <= 2 * reach + 1,
         low + (high - low) \div 2 <= found, found <= low + (high - low) \div 2 + 1
  PROVE  found - low <= reach + 1 /\ high - found <= reach + 1
OBVIOUS

\* Where nothing was between, nothing gets between.
LEMMA HalveKeepsNothingBetween ==
  ASSUME BucketOK, InOrder, NEW since \in Int, NEW s \in Between, Open(s), Brackets(since, s),
         NothingBetween(s)
  PROVE  NothingBetween(Halve(since, s))
<1>1. PICK found \in Reports :
        /\ Middle(s) <= found /\ found <= s.high
        /\ \/ Halve(since, s).low = s.low /\ Halve(since, s).high = found
           \/ Halve(since, s).low = found /\ Halve(since, s).high = s.high
  BY HalveOnBracket
<1>2. found \in Nat /\ s.low \in Nat /\ s.high \in Nat /\ Middle(s) \in Nat /\ s.low < Middle(s)
  BY HalveIsTyped, ReportNumbers DEF Between
<1>3. s.low < found
  BY <1>1, <1>2
<1>4. found = s.high
  <2>1. ~(found < s.high)
    BY <1>3 DEF NothingBetween
  <2> QED BY <1>1, <1>2, <2>1
<1> QED BY <1>1, <1>2, <1>4, ReportNumbers DEF NothingBetween

\* A probe leaves nothing between or keeps the rest within reach, where at most one
\* number is left out between two reports.
LEMMA HalveKeepsReach ==
  ASSUME BucketOK, InOrder, GapsBounded, MaxGap <= 1, NEW power, PowersOfTwo(power),
         NEW since \in Int, NEW s \in Between, Open(s), Brackets(since, s), WithinReach(power, s)
  PROVE  NothingBetween(Halve(since, s)) \/ WithinReach(power, Halve(since, s))
<1>1. PICK found \in Reports :
        /\ Middle(s) <= found /\ found <= s.high
        /\ \A n \in Reports : n >= Middle(s) => found <= n
        /\ \/ Halve(since, s).low = s.low /\ Halve(since, s).high = found
           \/ Halve(since, s).low = found /\ Halve(since, s).high = s.high
  BY HalveOnBracket
<1>2. /\ found \in Nat /\ s.low \in Nat /\ s.high \in Nat /\ s.left \in Nat /\ s.left # 0
      /\ s.low + 1 < s.high
      /\ Middle(s) \in Nat /\ s.low < Middle(s) /\ Middle(s) < s.high
      /\ Halve(since, s).left = s.left - 1
  BY HalveIsTyped, ReportNumbers DEF Between, Open
<1>3. found <= Middle(s) + 1
  <2>1. s.low \in Reports /\ s.high \in Reports
    BY DEF Brackets
  <2>2. Middle(s) - 1 \in Nat /\ s.low <= Middle(s) - 1 /\ Middle(s) - 1 < s.high
    BY <1>2
  <2>3. PICK r \in Reports : Middle(s) - 1 < r /\ r <= Middle(s) - 1 + MaxGap + 1
    BY <2>1, <2>2, NextIsNear
  <2>4. r \in Nat /\ MaxGap \in Nat
    BY ReportNumbers, SelectionAssumption
  <2>5. r >= Middle(s) /\ r <= Middle(s) + 1
    BY <1>2, <2>3, <2>4
  <2> QED BY <1>1, <1>2, <2>4, <2>5
<1>4. Middle(s) = s.low + (s.high - s.low) \div 2
  BY DEF Middle
<1>5. CASE s.left = 1
  <2>1. s.high - s.low <= 2
    BY <1>5 DEF WithinReach, PowersOfTwo
  <2>2. s.high = s.low + 2 /\ Middle(s) = s.low + 1
    BY <1>2, <1>4, <2>1
  <2>3. CASE found = s.low + 1
    <3>1. Halve(since, s).high - Halve(since, s).low <= 1
      BY <1>1, <1>2, <2>2, <2>3
    <3> QED BY <1>2, <1>5, <3>1 DEF WithinReach
  <2>4. CASE found = s.low + 2
    <3>1. NothingBetween(s)
      <4>1. ASSUME NEW n \in Reports, s.low < n, n < s.high PROVE FALSE
        <5>1. n \in Nat
          BY ReportNumbers
        <5>2. n = s.low + 1
          BY <1>2, <2>2, <4>1, <5>1
        <5>3. found <= n
          BY <1>1, <1>2, <2>2, <5>2
        <5> QED BY <1>2, <2>4, <5>2, <5>3
      <4> QED BY <4>1 DEF NothingBetween
    <3> QED BY <3>1, HalveKeepsNothingBetween
  <2>5. found = s.low + 1 \/ found = s.low + 2
    BY <1>1, <1>2, <1>3, <2>2
  <2> QED BY <2>3, <2>4, <2>5
<1>6. CASE s.left # 1
  <2>1. PICK k \in Nat : s.left = k + 2
    <3>1. s.left - 2 \in Nat /\ s.left = (s.left - 2) + 2
      BY <1>2, <1>6
    <3> QED BY <3>1
  <2>2. power[k] \in Nat /\ power[k + 1] = 2 * power[k]
    BY DEF PowersOfTwo
  <2>3. s.left - 1 = k + 1 /\ Halve(since, s).left = k + 1 /\ k + 1 # 0 /\ (k + 1) - 1 = k
    BY <1>2, <2>1
  <2>4. s.high - s.low <= 2 * power[k] + 1
    BY <1>2, <2>2, <2>3 DEF WithinReach
  <2>5. found - s.low <= power[k] + 1 /\ s.high - found <= power[k] + 1
    BY <1>1, <1>2, <1>3, <1>4, <2>2, <2>4, HalfIsWithinReach
  <2>6. Halve(since, s).high - Halve(since, s).low <= power[k] + 1
    BY <1>1, <2>5
  <2> QED BY <2>3, <2>6 DEF WithinReach
<1> QED BY <1>5, <1>6

\* What is best when the bisection ends is the first recent report, if nothing is between.
LEMMA BracketClosed ==
  ASSUME BucketOK, InOrder, NEW since \in Int, NEW s \in Between, Brackets(since, s),
         NothingBetween(s)
  PROVE  FirstRecent(since, s.best)
<1>1. s.low \in Reports /\ s.high \in Reports /\ s.best = s.high /\ s.high \in Nat
  BY DEF Brackets, Between
<1>2. ASSUME NEW m \in Reports, modified[m] >= since PROVE m >= s.high
  <2>1. s.low < m
    BY <1>1, <1>2, OlderIsLower DEF Brackets
  <2>2. ~(m < s.high) /\ m \in Nat
    BY <2>1, ReportNumbers DEF NothingBetween
  <2> QED BY <1>1, <2>2
<1> QED BY <1>1, <1>2 DEF Brackets, FirstRecent

\* The bisection finds the first recent report within the reach of its probes.
LEMMA BisectFindsFirst ==
  ASSUME BucketOK, InOrder, GapsBounded, MaxGap <= 1, NEW power, PowersOfTwo(power),
         MaxNumber <= power[MaxProbes - 1], NEW since \in Int,
         NEW low \in Reports, modified[low] < since, NEW high \in Reports, modified[high] >= since
  PROVE  FirstRecent(since, Bisect(since, low, high))
<1> DEFINE Good(s) == Brackets(since, s) /\ (NothingBetween(s) \/ WithinReach(power, s))
           T == {n \in Nat : \A s \in Between : s.left = n /\ Good(s) =>
                               FirstRecent(since, BisectSearch(since)[s])}
<1>1. ASSUME NEW s \in Between, Good(s), ~Open(s)
      PROVE  FirstRecent(since, BisectSearch(since)[s])
  <2>1. s.low \in Nat /\ s.high \in Nat /\ s.left \in Nat
    BY DEF Between
  <2>2. NothingBetween(s)
    <3>1. CASE WithinReach(power, s)
      <4>1. s.high - s.low <= 1
        BY <1>1, <2>1, <3>1 DEF WithinReach, Open
      <4>2. ASSUME NEW n \in Reports PROVE ~(s.low < n /\ n < s.high)
        <5>1. n \in Nat
          BY ReportNumbers
        <5> QED BY <2>1, <4>1, <5>1
      <4> QED BY <4>2 DEF NothingBetween
    <3> QED BY <1>1, <3>1
  <2> QED BY <1>1, <2>2, BracketClosed, BisectSearchCases
<1>2. ASSUME NEW s \in Between, Good(s), Open(s)
      PROVE  /\ Halve(since, s) \in Between /\ Halve(since, s).left = s.left - 1
             /\ Good(Halve(since, s))
             /\ BisectSearch(since)[s] = BisectSearch(since)[Halve(since, s)]
  BY <1>2, HalveIsTyped, HalveOnBracket, HalveKeepsNothingBetween, HalveKeepsReach, BisectSearchCases
<1> HIDE DEF Good
<1>3. 0 \in T
  <2>1. ASSUME NEW s \in Between, s.left = 0 PROVE ~Open(s)
    BY <2>1 DEF Open
  <2> QED BY <1>1, <2>1
<1>4. ASSUME NEW n \in Nat, n \in T PROVE n + 1 \in T
  <2>1. ASSUME NEW s \in Between, s.left = n + 1, Good(s)
        PROVE  FirstRecent(since, BisectSearch(since)[s])
    <3>1. CASE ~Open(s)
      BY <1>1, <2>1, <3>1
    <3>2. CASE Open(s)
      <4>1. Halve(since, s) \in Between /\ Halve(since, s).left = n /\ Good(Halve(since, s))
        BY <1>2, <2>1, <3>2
      <4>2. FirstRecent(since, BisectSearch(since)[Halve(since, s)])
        BY <1>4, <4>1
      <4> QED BY <1>2, <2>1, <3>2, <4>2
    <3> QED BY <3>1, <3>2
  <2> QED BY <2>1
<1>5. Nat \subseteq T
  <2> HIDE DEF T
  <2> QED BY <1>3, <1>4, SetInduction
<1> DEFINE s0 == [left |-> MaxProbes, low |-> low, high |-> high, best |-> high]
<1>6. MaxProbes \in Nat /\ MaxProbes # 0 /\ low \in Nat /\ high \in Nat /\ high <= MaxNumber
      /\ MaxNumber \in Nat
  BY SelectionAssumption, ReportNumbers DEF Numbers
<1>7. s0 \in Between
  BY <1>6 DEF Between
<1>8. Good(s0)
  <2>1. low < high
    BY OlderIsLower
  <2>2. power[MaxProbes - 1] \in Nat
    <3>1. MaxProbes - 1 \in Nat
      BY <1>6
    <3> QED BY <3>1 DEF PowersOfTwo
  <2>3. high - low <= power[MaxProbes - 1] + 1
    BY <1>6, <2>2
  <2> QED BY <1>6, <2>1, <2>3 DEF Good, Brackets, WithinReach
<1>9. FirstRecent(since, BisectSearch(since)[s0])
  <2>1. s0.left \in Nat
    BY <1>6
  <2> HIDE DEF s0
  <2> QED BY <1>5, <1>7, <1>8, <2>1
<1> QED BY <1>9, BisectIsSearch

-----------------------------------------------------------------------------
(* The seek.                                                               *)

\* The function that StartNumber applies.
SeekSearch(since) ==
  CHOOSE search : search = [s \in Seeking |->
    IF s.left = 0 \/ Ahead(s) = None THEN None
    ELSE IF modified[Ahead(s)] >= since THEN Bisect(since, s.low, Ahead(s))
    ELSE search[[left |-> s.left - 1, low |-> Ahead(s)]]]

\* StartNumber is that function, after the two cases that need no probe.
LEMMA StartIsSearch ==
  ASSUME NEW since
  PROVE  StartNumber(since) =
           IF FirstAtOrAfter(1) = None THEN None
           ELSE IF modified[FirstAtOrAfter(1)] >= since THEN FirstAtOrAfter(1)
           ELSE SeekSearch(since)[[left |-> MaxProbes, low |-> FirstAtOrAfter(1)]]
BY Zenon DEF StartNumber, SeekSearch

\* Where the seek ends, with what, and how it goes on.
SeekEnds(since) ==
  {s \in Seeking : s.left = 0 \/ Ahead(s) = None \/ modified[Ahead(s)] >= since}
SeekFinds(since, s) ==
  IF s.left = 0 \/ Ahead(s) = None THEN None ELSE Bisect(since, s.low, Ahead(s))
SeekOn(s) == [left |-> s.left - 1, low |-> Ahead(s)]

\* The seek goes on from the report it found, with one probe less.
LEMMA SeekOnIsTyped ==
  ASSUME NEW s \in Seeking, s.left # 0
  PROVE  SeekOn(s) \in Seeking /\ SeekOn(s).left = s.left - 1 /\ SeekOn(s).low = Ahead(s)
<1>1. Ahead(s) \in Nat
  <2>1. Ahead(s) \in Reports \cup {None}
    BY FirstIsReport DEF Ahead
  <2>2. Reports \subseteq Nat /\ None \in Nat
    BY ReportNumbers DEF None
  <2> QED BY <2>1, <2>2
<1>2. s.left - 1 \in Nat
  BY DEF Seeking
<1> QED BY <1>1, <1>2 DEF SeekOn, Seeking

\* The search is the function its definition asks for.
LEMMA SeekSearchUnfolds ==
  ASSUME NEW since
  PROVE  \A s \in Seeking : SeekSearch(since)[s] =
           IF s \in SeekEnds(since) THEN SeekFinds(since, s) ELSE SeekSearch(since)[SeekOn(s)]
<1> DEFINE stop == SeekEnds(since)
           rank == [s \in Seeking |-> s.left]
           V    == {SeekFinds(since, s) : s \in Seeking}
           out  == [s \in Seeking |-> SeekFinds(since, s)]
           next == [s \in Seeking |-> IF s \in stop THEN s ELSE SeekOn(s)]
<1>1. rank \in [Seeking -> Nat] /\ out \in [Seeking -> V]
  BY DEF Seeking
<1>2. next \in [Seeking -> Seeking]
  BY SeekOnIsTyped DEF SeekEnds
<1>3. ASSUME NEW s \in Seeking \ stop PROVE rank[next[s]] < rank[s]
  <2>1. next[s] = SeekOn(s) /\ SeekOn(s) \in Seeking /\ SeekOn(s).left = s.left - 1
    BY SeekOnIsTyped DEF SeekEnds
  <2>2. s.left \in Nat
    BY DEF Seeking
  <2> QED BY <2>1, <2>2
<1>4. stop \in SUBSET Seeking
  BY DEF SeekEnds
<1> HIDE DEF rank, out, V, stop
<1>5. \E f \in [Seeking -> V] : Solves(f, Seeking, stop, out, next)
  <2>1. Descends(rank, Seeking, stop, next)
    BY <1>3 DEF Descends
  <2> HIDE DEF next
  <2> QED BY <1>1, <1>2, <1>4, <2>1, RecursionHasSolution
<1>6. PICK f \in [Seeking -> V] :
        \A s \in Seeking : f[s] = IF s \in stop THEN out[s] ELSE f[next[s]]
  BY <1>5 DEF Solves
<1>7. f = [s \in Seeking |->
        IF s.left = 0 \/ Ahead(s) = None THEN None
        ELSE IF modified[Ahead(s)] >= since THEN Bisect(since, s.low, Ahead(s))
        ELSE f[[left |-> s.left - 1, low |-> Ahead(s)]]]
  <2>1. ASSUME NEW s \in Seeking
        PROVE  f[s] = IF s.left = 0 \/ Ahead(s) = None THEN None
                      ELSE IF modified[Ahead(s)] >= since THEN Bisect(since, s.low, Ahead(s))
                      ELSE f[[left |-> s.left - 1, low |-> Ahead(s)]]
    <3>1. f[s] = IF s \in SeekEnds(since) THEN SeekFinds(since, s) ELSE f[SeekOn(s)]
      BY <1>6 DEF out, stop
    <3> QED BY <3>1, Zenon DEF SeekEnds, SeekFinds, SeekOn
  <2> QED BY <1>6, <2>1
<1>8. \E search : search = [s \in Seeking |->
        IF s.left = 0 \/ Ahead(s) = None THEN None
        ELSE IF modified[Ahead(s)] >= since THEN Bisect(since, s.low, Ahead(s))
        ELSE search[[left |-> s.left - 1, low |-> Ahead(s)]]]
  BY <1>7
<1>9. SeekSearch(since) = [s \in Seeking |->
        IF s.left = 0 \/ Ahead(s) = None THEN None
        ELSE IF modified[Ahead(s)] >= since THEN Bisect(since, s.low, Ahead(s))
        ELSE SeekSearch(since)[[left |-> s.left - 1, low |-> Ahead(s)]]]
  BY <1>8, Zenon DEF SeekSearch
<1> QED BY <1>9, Zenon DEF SeekEnds, SeekFinds, SeekOn

\* What every start of a bisection has, the seek has: P holds of the numbers it returns.
LEMMA SeekAnswers ==
  ASSUME NEW since, NEW P,
         \A s \in Seeking : s.low \in Reports /\ ~(modified[s.low] >= since) /\
           s \in SeekEnds(since) => SeekFinds(since, s) \in P \cup {None}
  PROVE  \A s \in Seeking : s.low \in Reports /\ ~(modified[s.low] >= since) =>
           SeekSearch(since)[s] \in P \cup {None}
<1> DEFINE Old(s) == s.low \in Reports /\ ~(modified[s.low] >= since)
           T == {n \in Nat : \A s \in Seeking : s.left = n /\ Old(s) =>
                               SeekSearch(since)[s] \in P \cup {None}}
<1>1. ASSUME NEW s \in Seeking, Old(s), s \in SeekEnds(since)
      PROVE  SeekSearch(since)[s] \in P \cup {None}
  BY <1>1, SeekSearchUnfolds
<1>2. 0 \in T
  <2>1. \A s \in Seeking : s.left = 0 => s \in SeekEnds(since)
    BY DEF SeekEnds
  <2> QED BY <1>1, <2>1
<1>3. ASSUME NEW n \in Nat, n \in T PROVE n + 1 \in T
  <2>1. ASSUME NEW s \in Seeking, s.left = n + 1, Old(s), s \notin SeekEnds(since)
        PROVE  SeekSearch(since)[s] \in P \cup {None}
    <3>1. s.left # 0 /\ Ahead(s) # None /\ ~(modified[Ahead(s)] >= since)
      BY <2>1 DEF SeekEnds
    <3>2. Ahead(s) \in Reports
      BY <3>1, FirstIsReport DEF Ahead
    <3>3. SeekOn(s) \in Seeking /\ SeekOn(s).left = n /\ Old(SeekOn(s))
      BY <2>1, <3>1, <3>2, SeekOnIsTyped
    <3>4. SeekSearch(since)[SeekOn(s)] \in P \cup {None}
      BY <1>3, <3>3
    <3> QED BY <2>1, <3>4, SeekSearchUnfolds
  <2> HIDE DEF Old
  <2> QED BY <1>1, <2>1
<1>4. Nat \subseteq T
  <2> HIDE DEF T
  <2> QED BY <1>2, <1>3, SetInduction
<1>5. \A s \in Seeking : s.left \in Nat
  BY DEF Seeking
<1> QED BY <1>4, <1>5

\* The number a run starts at is that of a report, or none.
LEMMA StartIsReport ==
  ASSUME NEW since
  PROVE  StartNumber(since) \in Reports \cup {None}
<1> DEFINE s0 == [left |-> MaxProbes, low |-> FirstAtOrAfter(1)]
<1>1. ASSUME NEW s \in Seeking, s.low \in Reports PROVE SeekFinds(since, s) \in Reports \cup {None}
  <2>1. Ahead(s) \in Reports \cup {None} /\ s.low \in Nat
    BY <1>1, FirstIsReport, ReportNumbers DEF Ahead
  <2> QED BY <2>1, BisectAnswersReport DEF SeekFinds
<1>2. FirstAtOrAfter(1) \in Reports \cup {None}
  BY FirstIsReport
<1>3. CASE FirstAtOrAfter(1) = None \/ modified[FirstAtOrAfter(1)] >= since
  BY <1>2, <1>3, StartIsSearch
<1>4. CASE FirstAtOrAfter(1) # None /\ ~(modified[FirstAtOrAfter(1)] >= since)
  <2>1. s0 \in Seeking /\ s0.low \in Reports /\ s0.low = FirstAtOrAfter(1)
    <3>1. MaxProbes \in Nat /\ FirstAtOrAfter(1) \in Reports /\ FirstAtOrAfter(1) \in Nat
      BY <1>2, <1>4, SelectionAssumption, ReportNumbers
    <3> QED BY <3>1 DEF Seeking
  <2>2. SeekSearch(since)[s0] \in Reports \cup {None}
    <3> HIDE DEF s0
    <3> QED BY <1>1, <1>4, <2>1, SeekAnswers
  <2> QED BY <1>4, <2>2, StartIsSearch
<1> QED BY <1>3, <1>4

\* When the bisection has enough probes, it is that of the first report of the window.
LEMMA StartIsFirstRecent ==
  ASSUME BucketOK, InOrder, GapsBounded, MaxGap <= 1, NEW power, PowersOfTwo(power),
         MaxNumber <= power[MaxProbes - 1], NEW since \in Int, StartNumber(since) # None
  PROVE  FirstRecent(since, StartNumber(since))
<1> DEFINE s0 == [left |-> MaxProbes, low |-> FirstAtOrAfter(1)]
           P  == {n \in Reports : FirstRecent(since, n)}
<1>1. \A n \in Reports : modified[n] \in Int
  BY ModifiedIsTime
<1>2. ASSUME NEW s \in Seeking, s.low \in Reports, ~(modified[s.low] >= since),
             s \in SeekEnds(since)
      PROVE  SeekFinds(since, s) \in P \cup {None}
  <2>1. CASE s.left = 0 \/ Ahead(s) = None
    BY <2>1 DEF SeekFinds
  <2>2. CASE ~(s.left = 0 \/ Ahead(s) = None)
    <3>1. Ahead(s) \in Reports /\ modified[Ahead(s)] >= since
      BY <1>2, <2>2, FirstIsReport DEF SeekEnds, Ahead
    <3>2. modified[s.low] < since
      BY <1>1, <1>2
    <3>3. FirstRecent(since, Bisect(since, s.low, Ahead(s)))
      BY <1>2, <3>1, <3>2, BisectFindsFirst
    <3> QED BY <2>2, <3>3 DEF SeekFinds, FirstRecent
  <2> QED BY <2>1, <2>2
<1>3. FirstAtOrAfter(1) \in Reports
  BY FirstIsReport, StartIsSearch
<1>4. CASE modified[FirstAtOrAfter(1)] >= since
  <2>1. StartNumber(since) = FirstAtOrAfter(1)
    BY <1>3, <1>4, StartIsSearch, ReportNumbers
  <2>2. \A n \in Reports : n >= FirstAtOrAfter(1)
    <3>1. \A n \in Reports : n \in Nat /\ n >= 1
      BY ReportNumbers
    <3>2. FirstAtOrAfter(1) # None /\ FirstAtOrAfter(1) \in Nat
      BY <1>3, ReportNumbers
    <3> QED BY <3>1, <3>2, FirstAtOrAfterIsFirst
  <2> QED BY <1>3, <1>4, <2>1, <2>2 DEF FirstRecent
<1>5. CASE ~(modified[FirstAtOrAfter(1)] >= since)
  <2>1. s0 \in Seeking /\ s0.low \in Reports /\ s0.low = FirstAtOrAfter(1)
    <3>1. MaxProbes \in Nat /\ FirstAtOrAfter(1) \in Nat
      BY <1>3, SelectionAssumption, ReportNumbers
    <3> QED BY <1>3, <3>1 DEF Seeking
  <2>2. SeekSearch(since)[s0] \in P \cup {None}
    <3> HIDE DEF s0, P
    <3> QED BY <1>2, <1>5, <2>1, SeekAnswers
  <2>3. StartNumber(since) = SeekSearch(since)[s0]
    BY <1>3, <1>5, StartIsSearch, ReportNumbers
  <2> QED BY <2>2, <2>3
<1> QED BY <1>4, <1>5

-----------------------------------------------------------------------------
(* The listing.                                                            *)

\* The reports from a number on, and a set of them that leaves out none before its last.
From(k) == {n \in Reports : n >= k}
Begins(X, S) == X \subseteq S /\ \A m \in X, n \in S : n <= m => n \in X

\* The reports of a range are finitely many.
LEMMA ReportSets ==
  ASSUME NEW X \in SUBSET Reports
  PROVE  IsFiniteSet(X) /\ Cardinality(X) \in Nat /\ X \in SUBSET Nat /\ X \in SUBSET (0..MaxNumber)
<1>1. IsFiniteSet(X)
  BY ReportNumbers, FS_Subset
<1>2. X \in SUBSET (0..MaxNumber)
  BY ReportNumbers DEF Numbers
<1> QED BY <1>1, <1>2, FS_CardinalityType

\* A page is the beginning of what there is, no longer than its limit, and no shorter
\* when reports are left.
LEMMA PageBegins ==
  ASSUME NEW k \in Int, NEW limit \in Nat
  PROVE  /\ Begins(Page(k, limit), From(k))
         /\ Cardinality(Page(k, limit)) <= limit
         /\ Page(k, limit) = From(k) \/ Cardinality(Page(k, limit)) = limit
<1> DEFINE P == Page(k, limit)
           Until(n) == {m \in Reports : k <= m /\ m <= n}
<1>1. P = {n \in From(k) : Cardinality(Until(n)) <= limit}
  BY DEF Page, From
<1>2. From(k) \in SUBSET Reports /\ P \in SUBSET Reports
  BY <1>1 DEF From
<1>3. \A n \in Reports : Until(n) \in SUBSET Reports /\ n \in Int
  BY ReportNumbers
<1>4. ASSUME NEW m \in P, NEW n \in From(k), n <= m PROVE n \in P
  <2>1. Until(n) \subseteq Until(m)
    <3>1. \A x \in Reports : x <= n => x <= m
      BY <1>2, <1>3, <1>4
    <3> QED BY <3>1
  <2>2. Cardinality(Until(n)) <= Cardinality(Until(m))
    <3>1. IsFiniteSet(Until(m))
      BY <1>2, <1>3, ReportSets
    <3> QED BY <2>1, <3>1, FS_Subset
  <2>3. Cardinality(Until(n)) \in Nat /\ Cardinality(Until(m)) \in Nat
    BY <1>2, <1>3, ReportSets
  <2>4. Cardinality(Until(m)) <= limit
    BY <1>1
  <2> HIDE DEF P, Until
  <2> QED BY <1>1, <1>4, <2>2, <2>3, <2>4
<1>5. Cardinality(P) <= limit
  <2>1. CASE P = {}
    BY <2>1, FS_EmptySet
  <2>2. CASE P # {}
    <3>1. PICK m \in P : \A x \in P : x <= m
      <4>1. P \in SUBSET (0..MaxNumber) /\ MaxNumber \in Nat
        BY <1>2, ReportSets, ReportNumbers
      <4> HIDE DEF P
      <4> QED BY <2>2, <4>1, MaxOfBounded
    <3>2. P \subseteq Until(m)
      <4>1. \A x \in P : x \in Reports /\ x >= k /\ x \in Int
        BY <1>1, <1>2, <1>3 DEF From
      <4> QED BY <3>1, <4>1
    <3>3. Cardinality(P) <= Cardinality(Until(m))
      <4>1. IsFiniteSet(Until(m))
        BY <1>2, <1>3, ReportSets
      <4> QED BY <3>2, <4>1, FS_Subset
    <3>4. Cardinality(P) \in Nat /\ Cardinality(Until(m)) \in Nat
      BY <1>2, <1>3, ReportSets
    <3>5. Cardinality(Until(m)) <= limit
      BY <1>1
    <3> HIDE DEF P, Until
    <3> QED BY <3>3, <3>4, <3>5
  <2> QED BY <2>1, <2>2
<1>6. ASSUME P # From(k) PROVE Cardinality(P) >= limit
  <2> DEFINE Rest == From(k) \ P
  <2>1. Rest \in SUBSET Reports /\ Rest # {}
    BY <1>1, <1>2, <1>6
  <2>2. PICK r \in Rest : \A x \in Rest : r <= x
    <3> HIDE DEF Rest
    <3> QED BY <2>1, FirstOfReports
  <2>3. Until(r) = P \cup {r}
    <3>1. ASSUME NEW x \in Until(r) PROVE x \in P \cup {r}
      <4>1. x \in From(k) /\ x <= r /\ x \in Int /\ r \in Int
        BY <1>3, <2>1 DEF From
      <4>2. x \in Rest => x = r
        BY <2>2, <4>1
      <4> QED BY <4>1, <4>2
    <3>2. ASSUME NEW x \in P PROVE x \in Until(r)
      <4>1. r \in From(k) /\ r \notin P /\ x \in Reports /\ r \in Reports /\ x \in From(k)
        BY <1>1, <1>2, <2>1
      <4>2. ~(r <= x)
        BY <1>4, <4>1
      <4>3. x \in Int /\ r \in Int
        BY <1>3, <4>1
      <4> HIDE DEF P
      <4> QED BY <4>1, <4>2, <4>3 DEF From
    <3>3. r \in Until(r)
      BY <1>3, <2>1 DEF From
    <3> HIDE DEF P, Until
    <3> QED BY <3>1, <3>2, <3>3
  <2>4. Cardinality(P \cup {r}) = Cardinality(P) + 1
    <3>1. IsFiniteSet(P) /\ r \notin P
      BY <1>2, ReportSets
    <3> HIDE DEF P
    <3> QED BY <3>1, FS_AddElement
  <2>5. ~(Cardinality(Until(r)) <= limit)
    BY <1>1
  <2>6. Cardinality(P) \in Nat
    BY <1>2, ReportSets
  <2> HIDE DEF P, Until
  <2> QED BY <2>3, <2>4, <2>5, <2>6
<1>7. Cardinality(P) \in Nat /\ P \subseteq From(k)
  BY <1>1, <1>2, ReportSets
<1> HIDE DEF P
<1>8. Cardinality(P) <= limit /\ (P = From(k) \/ Cardinality(P) = limit)
  BY <1>5, <1>6, <1>7
<1> QED BY <1>4, <1>7, <1>8 DEF P, Begins

\* Only the page has these properties.
LEMMA PageIsBeginning ==
  ASSUME NEW k \in Int, NEW limit \in Nat, NEW X, Begins(X, From(k)),
         Cardinality(X) <= limit, X = From(k) \/ Cardinality(X) >= limit
  PROVE  X = Page(k, limit)
<1> DEFINE P == Page(k, limit)
<1>1. /\ Begins(P, From(k)) /\ Cardinality(P) <= limit
      /\ P = From(k) \/ Cardinality(P) = limit
  BY PageBegins
<1>2. From(k) \in SUBSET Reports
  BY DEF From
<1>3. X \in SUBSET Reports /\ P \in SUBSET Reports
  BY <1>1, <1>2 DEF Begins
<1>4. /\ IsFiniteSet(X) /\ IsFiniteSet(P) /\ Cardinality(X) \in Nat /\ Cardinality(P) \in Nat
  BY <1>3, ReportSets
<1> HIDE DEF P
<1>5. X \subseteq P \/ P \subseteq X
  <2>1. SUFFICES ASSUME NEW x \in X, x \notin P PROVE P \subseteq X
    OBVIOUS
  <2>2. ASSUME NEW p \in P PROVE p \in X
    <3>1. x \in From(k) /\ p \in From(k) /\ x \in Int /\ p \in Int
      BY <1>1, <1>3, ReportNumbers DEF Begins
    <3>2. ~(x <= p)
      BY <1>1, <2>1, <3>1 DEF Begins
    <3>3. p <= x
      BY <3>1, <3>2
    <3> QED BY <3>1, <3>3 DEF Begins
  <2> QED BY <2>2
<1>6. CASE X \subseteq P
  <2>1. CASE X = From(k)
    BY <1>1, <1>6, <2>1 DEF Begins, P
  <2>2. CASE Cardinality(X) >= limit
    <3>1. Cardinality(X) = Cardinality(P)
      <4>1. Cardinality(X) <= Cardinality(P)
        BY <1>4, <1>6, FS_Subset
      <4> QED BY <1>1, <1>4, <2>2, <4>1
    <3> QED BY <1>4, <1>6, <3>1, FS_Subset, Zenon DEF P
  <2> QED BY <2>1, <2>2
<1>7. CASE P \subseteq X
  <2>1. CASE P = From(k)
    BY <1>7, <2>1 DEF Begins, P
  <2>2. CASE Cardinality(P) = limit
    <3>1. Cardinality(X) = Cardinality(P)
      <4>1. Cardinality(P) <= Cardinality(X)
        BY <1>4, <1>7, FS_Subset
      <4> QED BY <1>4, <2>2, <4>1
    <3> QED BY <1>4, <1>7, <3>1, FS_Subset, Zenon DEF P
  <2> QED BY <1>1, <2>1, <2>2
<1> QED BY <1>5, <1>6, <1>7

\* The function that Listed applies.
ListSearch ==
  CHOOSE list : list = [s \in Listing |->
    LET got == s.got \cup NextPage(s)
    IN IF Cardinality(got) >= ScanLimit \/ Beyond(s) = {} THEN got
       ELSE list[[from |-> Min(Beyond(s)), got |-> got]]]

\* Listed is that function where nothing has been listed yet.
LEMMA ListedIsSearch ==
  ASSUME NEW start
  PROVE  Listed(start) = ListSearch[[from |-> start, got |-> {}]]
BY Zenon DEF Listed, ListSearch

\* Where a listing ends, and how it goes on.
ListEnds ==
  {s \in Listing : Cardinality(s.got \cup NextPage(s)) >= ScanLimit \/ Beyond(s) = {}}
ListOn(s) == [from |-> Min(Beyond(s)), got |-> s.got \cup NextPage(s)]

\* objectScanLimit is positive.
LEMMA ScanLimitIsPositive == ScanLimit \in Nat /\ ScanLimit >= 1
BY SelectionAssumption DEF ScanLimit

\* The limit of a page that is asked for is positive.
LEMMA PageLimit ==
  ASSUME NEW c \in Nat, c < ScanLimit
  PROVE  LET limit == Min({PageSize, ScanLimit - c})
         IN limit \in Nat /\ limit >= 1 /\ limit <= ScanLimit - c
<1> DEFINE S == {PageSize, ScanLimit - c}
<1>1. PageSize \in Nat /\ PageSize >= 1 /\ ScanLimit - c \in Nat /\ ScanLimit - c >= 1
  BY ScanLimitIsPositive, SelectionAssumption
<1>2. S \in SUBSET Nat /\ S # {}
  BY <1>1
<1>3. Min(S) \in S /\ \A y \in S : Min(S) <= y
  <2> HIDE DEF S
  <2> QED BY <1>2, MinOfNaturals
<1> QED BY <1>1, <1>3

\* What a listing that goes on has got is some of the reports, less than the limit.
LEMMA ListGoesOn ==
  ASSUME NEW s \in Listing, s \notin ListEnds
  PROVE  /\ s.from \in Nat /\ Cardinality(s.got) < ScanLimit /\ Cardinality(s.got) \in Nat
         /\ IsFiniteSet(s.got)
         /\ NextPage(s) \in SUBSET Reports
         /\ Cardinality(s.got \cup NextPage(s)) < ScanLimit
         /\ Beyond(s) \in SUBSET Reports /\ Beyond(s) # {}
<1>1. s.from \in Nat /\ s.got \in SUBSET Numbers
  BY DEF Listing
<1>2. NextPage(s) \in SUBSET Reports /\ Beyond(s) \in SUBSET Reports
  BY DEF NextPage, Page, Beyond
<1>3. IsFiniteSet(s.got) /\ IsFiniteSet(s.got \cup NextPage(s))
  <2>1. IsFiniteSet(Numbers) /\ s.got \cup NextPage(s) \in SUBSET Numbers
    BY <1>1, <1>2, ReportNumbers
  <2> QED BY <1>1, <2>1, FS_Subset
<1>4. Cardinality(s.got) <= Cardinality(s.got \cup NextPage(s))
  BY <1>3, FS_Subset
<1>5. Cardinality(s.got) \in Nat /\ Cardinality(s.got \cup NextPage(s)) \in Nat
  BY <1>3, FS_CardinalityType
<1>6. ~(Cardinality(s.got \cup NextPage(s)) >= ScanLimit) /\ Beyond(s) # {}
  BY DEF ListEnds
<1> QED BY <1>1, <1>2, <1>3, <1>4, <1>5, <1>6, ScanLimitIsPositive

\* The next page begins what is left and is not empty; the listing goes on after it.
LEMMA ListOnIsTyped ==
  ASSUME NEW s \in Listing, s \notin ListEnds
  PROVE  /\ ListOn(s) \in Listing
         /\ s.from < ListOn(s).from /\ ListOn(s).from <= MaxNumber
         /\ Begins(NextPage(s), From(s.from)) /\ From(ListOn(s).from) = Beyond(s)
<1> DEFINE limit == Min({PageSize, ScanLimit - Cardinality(s.got)})
           r == Min(Beyond(s))
<1>1. limit \in Nat /\ limit >= 1
  BY ListGoesOn, PageLimit
<1>2. NextPage(s) = Page(s.from, limit) /\ s.from \in Nat
  BY ListGoesOn DEF NextPage
<1> HIDE DEF limit
<1>3. /\ Begins(NextPage(s), From(s.from))
      /\ NextPage(s) = From(s.from) \/ Cardinality(NextPage(s)) = limit
  BY <1>1, <1>2, PageBegins
<1>4. Beyond(s) = From(s.from) \ NextPage(s)
  BY DEF Beyond, From
<1>5. r \in Beyond(s) /\ \A n \in Beyond(s) : r <= n
  BY ListGoesOn, FirstOfReports
<1> HIDE DEF r
<1>6. NextPage(s) # {}
  <2>1. CASE Cardinality(NextPage(s)) = limit
    BY <1>1, <2>1, FS_EmptySet
  <2>2. CASE NextPage(s) = From(s.from)
    BY <1>4, <2>2, ListGoesOn
  <2> QED BY <1>3, <2>1, <2>2
<1>7. From(s.from) \in SUBSET Reports /\ \A n \in Reports : n \in Int
  BY ReportNumbers DEF From
<1>8. \A m \in NextPage(s) : m \in Int /\ m >= s.from /\ ~(r <= m)
  <2>1. r \in From(s.from) /\ r \notin NextPage(s)
    BY <1>4, <1>5
  <2> QED BY <1>3, <1>7, <2>1 DEF Begins, From
<1>9. r \in Nat /\ s.from < r /\ r <= MaxNumber
  <2>1. r \in Reports /\ r \in Nat /\ r <= MaxNumber
    <3>1. r \in Reports
      BY <1>4, <1>5, <1>7
    <3> QED BY <3>1, ReportNumbers
  <2>2. PICK m : m \in NextPage(s)
    BY <1>6
  <2>3. m \in Int /\ m >= s.from /\ ~(r <= m)
    BY <1>8, <2>2
  <2> QED BY <1>2, <2>1, <2>3
<1>10. From(r) = Beyond(s)
  <2>1. ASSUME NEW n \in From(r) PROVE n \in Beyond(s)
    <3>1. n \in Reports /\ n \in Int /\ n >= r
      BY <1>7 DEF From
    <3>2. n \in From(s.from)
      BY <1>2, <1>9, <3>1 DEF From
    <3>3. n \notin NextPage(s)
      BY <1>8, <3>1
    <3> QED BY <1>4, <3>2, <3>3
  <2>2. ASSUME NEW n \in Beyond(s) PROVE n \in From(r)
    <3>1. n \in Reports /\ n \in Int /\ r <= n /\ r \in Int
      BY <1>4, <1>5, <1>7, <1>9
    <3> QED BY <3>1 DEF From
  <2> QED BY <2>1, <2>2
<1>11. ListOn(s) = [from |-> r, got |-> s.got \cup NextPage(s)]
  BY DEF ListOn, r
<1>12. s.got \cup NextPage(s) \in SUBSET Numbers
  BY ListGoesOn, ReportNumbers DEF Listing
<1> QED BY <1>3, <1>9, <1>10, <1>11, <1>12 DEF Listing

\* The listing is the function its definition asks for: every page goes further.
LEMMA ListSearchUnfolds ==
  \A s \in Listing : ListSearch[s] =
    IF s \in ListEnds THEN s.got \cup NextPage(s) ELSE ListSearch[ListOn(s)]
<1> DEFINE rank == [s \in Listing |-> IF s.from <= MaxNumber THEN MaxNumber + 1 - s.from ELSE 0]
           V    == {s.got \cup NextPage(s) : s \in Listing}
           out  == [s \in Listing |-> s.got \cup NextPage(s)]
           next == [s \in Listing |-> IF s \in ListEnds THEN s ELSE ListOn(s)]
<1>0. MaxNumber \in Nat
  BY ReportNumbers
<1>1. rank \in [Listing -> Nat] /\ out \in [Listing -> V]
  BY <1>0 DEF Listing
<1>2. next \in [Listing -> Listing]
  BY ListOnIsTyped
<1>3. ASSUME NEW s \in Listing \ ListEnds PROVE rank[next[s]] < rank[s]
  <2>1. next[s] = ListOn(s) /\ ListOn(s) \in Listing
    BY ListOnIsTyped
  <2>2. s.from < ListOn(s).from /\ ListOn(s).from <= MaxNumber
    BY ListOnIsTyped
  <2>3. s.from \in Nat /\ ListOn(s).from \in Nat
    BY <2>1 DEF Listing
  <2> QED BY <1>0, <2>1, <2>2, <2>3
<1>4. ListEnds \in SUBSET Listing
  BY DEF ListEnds
<1> HIDE DEF rank, out, V
<1>5. \E f \in [Listing -> V] : Solves(f, Listing, ListEnds, out, next)
  <2>1. Descends(rank, Listing, ListEnds, next)
    BY <1>3 DEF Descends
  <2> HIDE DEF next
  <2> QED BY <1>1, <1>2, <1>4, <2>1, RecursionHasSolution
<1>6. PICK f \in [Listing -> V] :
        \A s \in Listing : f[s] = IF s \in ListEnds THEN out[s] ELSE f[next[s]]
  BY <1>5 DEF Solves
<1>7. f = [s \in Listing |->
        LET got == s.got \cup NextPage(s)
        IN IF Cardinality(got) >= ScanLimit \/ Beyond(s) = {} THEN got
           ELSE f[[from |-> Min(Beyond(s)), got |-> got]]]
  <2>1. ASSUME NEW s \in Listing
        PROVE  f[s] = LET got == s.got \cup NextPage(s)
                      IN IF Cardinality(got) >= ScanLimit \/ Beyond(s) = {} THEN got
                         ELSE f[[from |-> Min(Beyond(s)), got |-> got]]
    <3>1. f[s] = IF s \in ListEnds THEN s.got \cup NextPage(s) ELSE f[ListOn(s)]
      BY <1>6 DEF out
    <3> QED BY <3>1, Zenon DEF ListEnds, ListOn
  <2> QED BY <1>6, <2>1
<1>8. \E list : list = [s \in Listing |->
        LET got == s.got \cup NextPage(s)
        IN IF Cardinality(got) >= ScanLimit \/ Beyond(s) = {} THEN got
           ELSE list[[from |-> Min(Beyond(s)), got |-> got]]]
  BY <1>7
<1>9. ListSearch = [s \in Listing |->
        LET got == s.got \cup NextPage(s)
        IN IF Cardinality(got) >= ScanLimit \/ Beyond(s) = {} THEN got
           ELSE ListSearch[[from |-> Min(Beyond(s)), got |-> got]]]
  BY <1>8, Zenon DEF ListSearch
<1> QED BY <1>9, Zenon DEF ListEnds, ListOn

\* What a listing from start has got begins what there is, and it goes on with the rest.
GoesOn(start, s) ==
  /\ Begins(s.got, From(start)) /\ Cardinality(s.got) < ScanLimit
  /\ From(s.from) = From(start) \ s.got

\* The next page extends it, within the limit.
LEMMA ListExtends ==
  ASSUME NEW start \in Int, NEW s \in Listing, GoesOn(start, s)
  PROVE  LET got == s.got \cup NextPage(s)
         IN /\ Begins(got, From(start)) /\ Cardinality(got) <= ScanLimit
            /\ Beyond(s) = From(start) \ got
<1> DEFINE got   == s.got \cup NextPage(s)
           limit == Min({PageSize, ScanLimit - Cardinality(s.got)})
<1>1. From(start) \in SUBSET Reports /\ s.from \in Nat
  BY DEF From, Listing
<1>2. s.got \in SUBSET Reports
  BY <1>1 DEF GoesOn, Begins
<1>3. IsFiniteSet(s.got) /\ Cardinality(s.got) \in Nat
  BY <1>2, ReportSets
<1>4. limit \in Nat /\ limit <= ScanLimit - Cardinality(s.got)
  BY <1>3, PageLimit DEF GoesOn
<1>5. NextPage(s) = Page(s.from, limit)
  BY DEF NextPage
<1> HIDE DEF limit
<1>6. Begins(NextPage(s), From(s.from)) /\ Cardinality(NextPage(s)) <= limit
  BY <1>1, <1>4, <1>5, PageBegins
<1>7. NextPage(s) \in SUBSET Reports /\ Beyond(s) = From(s.from) \ NextPage(s)
  BY DEF NextPage, Page, Beyond, From
<1>8. IsFiniteSet(NextPage(s)) /\ Cardinality(NextPage(s)) \in Nat
  BY <1>7, ReportSets
<1>9. Cardinality(got) <= ScanLimit
  <2>1. s.got \cap NextPage(s) = {}
    BY <1>6 DEF Begins, GoesOn
  <2>2. Cardinality(got) = Cardinality(s.got) + Cardinality(NextPage(s)) - Cardinality({})
    BY <1>3, <1>8, <2>1, FS_Union
  <2>3. Cardinality({}) = 0
    BY FS_EmptySet
  <2> HIDE DEF got
  <2> QED BY <1>3, <1>4, <1>6, <1>8, <2>2, <2>3, ScanLimitIsPositive
<1>10. Begins(got, From(start))
  <2>1. got \subseteq From(start)
    BY <1>6 DEF Begins, GoesOn
  <2>2. ASSUME NEW m \in got, NEW n \in From(start), n <= m, n \notin s.got PROVE n \in NextPage(s)
    <3>1. n \in From(s.from)
      BY <2>2 DEF GoesOn
    <3>2. m \notin s.got
      BY <2>2 DEF GoesOn, Begins
    <3> QED BY <1>6, <2>2, <3>1, <3>2 DEF Begins
  <2> QED BY <2>1, <2>2 DEF Begins
<1>11. Beyond(s) = From(start) \ got
  BY <1>7 DEF GoesOn
<1> QED BY <1>9, <1>10, <1>11

\* Page after page, the listing is the one page that its limit allows: the first
\* reports from its start on (listObjectsFrom, collector.go:358-392).
THEOREM ListedIsPage ==
  ASSUME NEW start \in Nat
  PROVE  Listed(start) = Page(start, ScanLimit)
<1> DEFINE rank(s) == IF s.from <= MaxNumber THEN MaxNumber + 1 - s.from ELSE 0
           T == {n \in Nat : \A s \in Listing : rank(s) <= n /\ GoesOn(start, s) =>
                               ListSearch[s] = Page(start, ScanLimit)}
<1>0. MaxNumber \in Nat /\ start \in Int
  BY ReportNumbers
<1>1. ASSUME NEW s \in Listing, GoesOn(start, s), s \in ListEnds
      PROVE  ListSearch[s] = Page(start, ScanLimit)
  <2> DEFINE got == s.got \cup NextPage(s)
  <2>1. /\ Begins(got, From(start)) /\ Cardinality(got) <= ScanLimit
        /\ Beyond(s) = From(start) \ got
    BY <1>0, <1>1, ListExtends
  <2>2. Cardinality(got) >= ScanLimit \/ Beyond(s) = {}
    BY <1>1 DEF ListEnds
  <2>3. ListSearch[s] = got
    BY <1>1, ListSearchUnfolds
  <2> HIDE DEF got
  <2>4. got = From(start) \/ Cardinality(got) >= ScanLimit
    BY <2>1, <2>2 DEF Begins
  <2> QED BY <2>1, <2>3, <2>4, PageIsBeginning, ScanLimitIsPositive
<1>2. ASSUME NEW s \in Listing, GoesOn(start, s), s \notin ListEnds
      PROVE  ListOn(s) \in Listing /\ GoesOn(start, ListOn(s)) /\ rank(ListOn(s)) < rank(s)
  <2>1. /\ ListOn(s) \in Listing
        /\ s.from < ListOn(s).from /\ ListOn(s).from <= MaxNumber
        /\ From(ListOn(s).from) = Beyond(s)
    BY <1>2, ListOnIsTyped
  <2>2. ListOn(s).got = s.got \cup NextPage(s)
    BY DEF ListOn
  <2>3. GoesOn(start, ListOn(s))
    <3>1. Cardinality(s.got \cup NextPage(s)) < ScanLimit
      BY <1>2, ListGoesOn
    <3> QED BY <1>0, <1>2, <2>1, <2>2, <3>1, ListExtends DEF GoesOn
  <2>4. s.from \in Nat /\ ListOn(s).from \in Nat
    BY <2>1 DEF Listing
  <2> QED BY <1>0, <2>1, <2>3, <2>4
<1>3. 0 \in T
  <2>1. ASSUME NEW s \in Listing, GoesOn(start, s), s \notin ListEnds, rank(s) <= 0 PROVE FALSE
    <3>1. s.from < ListOn(s).from /\ ListOn(s).from <= MaxNumber /\ ListOn(s) \in Listing
      BY <2>1, ListOnIsTyped
    <3>2. s.from \in Nat /\ ListOn(s).from \in Nat
      BY <3>1 DEF Listing
    <3> QED BY <1>0, <2>1, <3>1, <3>2
  <2> HIDE DEF rank
  <2> QED BY <1>1, <2>1
<1>4. ASSUME NEW n \in Nat, n \in T PROVE n + 1 \in T
  <2>1. ASSUME NEW s \in Listing, rank(s) <= n + 1, GoesOn(start, s), s \notin ListEnds
        PROVE  ListSearch[s] = Page(start, ScanLimit)
    <3>1. ListOn(s) \in Listing /\ GoesOn(start, ListOn(s)) /\ rank(ListOn(s)) < rank(s)
      BY <1>2, <2>1
    <3>2. rank(s) \in Nat /\ rank(ListOn(s)) \in Nat
      BY <1>0, <3>1 DEF Listing
    <3> HIDE DEF rank
    <3>3. rank(ListOn(s)) <= n
      BY <2>1, <3>1, <3>2
    <3>4. ListSearch[ListOn(s)] = Page(start, ScanLimit)
      BY <1>4, <3>1, <3>3
    <3> QED BY <2>1, <3>4, ListSearchUnfolds
  <2> HIDE DEF rank
  <2> QED BY <1>1, <2>1
<1>5. Nat \subseteq T
  <2> HIDE DEF T
  <2> QED BY <1>3, <1>4, SetInduction
<1> DEFINE s0 == [from |-> start, got |-> {}]
<1>6. s0 \in Listing /\ s0.from = start /\ s0.got = {}
  BY DEF Listing
<1>7. GoesOn(start, s0)
  <2>1. Cardinality({}) < ScanLimit
    BY FS_EmptySet, ScanLimitIsPositive
  <2> QED BY <1>6, <2>1 DEF GoesOn, Begins
<1>8. rank(s0) \in Nat /\ rank(s0) <= rank(s0)
  BY <1>0, <1>6
<1>9. ListSearch[s0] = Page(start, ScanLimit)
  <2> HIDE DEF s0, rank
  <2> QED BY <1>5, <1>6, <1>7, <1>8
<1> QED BY <1>9, ListedIsSearch

\* With a limit as large as the bucket, the listing is all of them.
LEMMA ListedIsAll ==
  ASSUME NEW start \in Nat, Cardinality(Reports) <= ScanLimit
  PROVE  Listed(start) = From(start)
<1>1. Begins(From(start), From(start)) /\ From(start) \in SUBSET Reports
  BY DEF Begins, From
<1>2. Cardinality(From(start)) <= Cardinality(Reports)
  BY <1>1, ReportNumbers, FS_Subset
<1>3. Cardinality(From(start)) \in Nat /\ Cardinality(Reports) \in Nat
  BY <1>1, ReportSets
<1>4. Cardinality(From(start)) <= ScanLimit
  BY <1>2, <1>3, ReportNumbers, ScanLimitIsPositive
<1> QED BY <1>1, <1>4, PageIsBeginning, ListedIsPage, ScanLimitIsPositive

-----------------------------------------------------------------------------
(* Type correctness.                                                       *)

TypeInv == TypeOK /\ now >= 1

\* What is of its type is so for the bucket.
LEMMA TypeInvBucket == TypeInv => BucketOK
BY DEF TypeInv, TypeOK, BucketOK

\* The candidate is one of those that are left.
LEMMA CandidateIsLeft ==
  ASSUME run.todo \in SUBSET Reports, run.todo # {}
  PROVE  Candidate \in run.todo
<1>1. run.todo \in SUBSET (0..MaxNumber) /\ MaxNumber \in Nat
  BY ReportSets, ReportNumbers
<1>2. Max(run.todo) \in run.todo
  BY <1>1, MaxOfBounded
<1>3. Min(run.todo) \in run.todo
  BY FirstOfReports
<1> QED BY <1>2, <1>3 DEF Candidate

\* A listing names reports.
LEMMA ListingsAreReports ==
  /\ ListedPrefix \in SUBSET Reports
  /\ \A since : RecentListed(since) \in SUBSET Reports
<1>1. ASSUME NEW start \in Nat PROVE Listed(start) \in SUBSET Reports
  BY <1>1, ListedIsPage DEF Page
<1>2. ASSUME NEW since PROVE StartNumber(since) \in Nat
  <2>1. StartNumber(since) \in Reports \cup {None} /\ Reports \subseteq Nat /\ None \in Nat
    <3>1. Reports \subseteq Nat /\ None \in Nat
      BY ReportNumbers DEF None
    <3> QED BY <3>1, StartIsReport
  <2> QED BY <2>1
<1> QED BY <1>1, <1>2 DEF ListedPrefix, RecentListed

\* A run looks back to a time, which may be before the model's first.
LEMMA SinceIsInt ==
  ASSUME now \in Int, NEW mark \in Int, NEW asked \in Int
  PROVE  /\ EffectiveSince(mark, asked) \in Int
         /\ \/ EffectiveSince(mark, Lookback) = mark - Overlap
            \/ EffectiveSince(mark, Lookback) = now - Lookback
BY SelectionAssumption DEF EffectiveSince, Window

\* An upload adds its report, which is the newest.
LEMMA UploadAdds ==
  ASSUME TypeInv, NEW n \in Numbers, Upload(n)
  PROVE  /\ Reports' = Reports \cup {n} /\ n \notin Reports
         /\ modified' \in [Numbers -> Times] /\ modified'[n] = now
         /\ \A m \in Reports : m < n /\ modified'[m] = modified[m]
<1>1. now \in Times /\ now >= 1 /\ modified \in [Numbers -> Times] /\ now \in Int
  BY DEF TypeInv, TypeOK, Times
<1>2. modified' = [modified EXCEPT ![n] = now] /\ \A m \in Reports : m < n
  BY DEF Upload
<1>3. n \notin Reports
  BY <1>2, ReportNumbers
<1>4. modified' \in [Numbers -> Times] /\ modified'[n] = now
  BY <1>1, <1>2
<1>5. \A m \in Numbers : m # n => modified'[m] = modified[m]
  BY <1>1, <1>2
<1>6. Reports' = Reports \cup {n}
  <2>1. Reports' = {m \in Numbers : modified'[m] > 0}
    BY DEF Reports, Numbers
  <2>2. modified'[n] > 0
    BY <1>1, <1>4
  <2> QED BY <1>5, <2>1, <2>2 DEF Reports
<1> QED BY <1>2, <1>3, <1>4, <1>5, <1>6 DEF Reports

\* A step that leaves the bucket alone leaves the reports what they are.
LEMMA ReportsUnchanged ==
  ASSUME UNCHANGED modified
  PROVE  Reports' = Reports
BY DEF Reports, Numbers

\* The clock starts at 1 and never goes back.
LEMMA TypeInvInit == Init => TypeInv
<1> SUFFICES ASSUME Init PROVE TypeInv
  OBVIOUS
<1>1. 1 \in Times /\ 0 \in Times
  BY SelectionAssumption DEF Times
<1>2. MaxFaults \in 0..MaxFaults /\ MaxRequests \in 0..MaxRequests /\ 0 \in 0..MaxFilesPerRun
  BY SelectionAssumption
<1> QED BY <1>1, <1>2 DEF Init, TypeInv, TypeOK, IdleRun

\* What the fields of a run may be, the reports it knows of being r.
RunType(r) ==
  [pc : {"idle", "list", "scan", "end"}, since : Int, narrow : BOOLEAN, began : Times,
   todo : SUBSET r, newestFirst : BOOLEAN, started : 0..MaxFilesPerRun,
   done : Nat, failures : Nat, zero : Nat, hit : BOOLEAN, err : BOOLEAN]

\* The idle run knows of none.
LEMMA IdleIsTyped ==
  ASSUME NEW r
  PROVE  IdleRun \in RunType(r)
<1>1. 0 \in Times /\ 0 \in 0..MaxFilesPerRun
  BY SelectionAssumption DEF Times
<1> QED BY <1>1 DEF IdleRun, RunType

\* A run begins with a window of its type, and knows no report.
LEMMA BeginIsTyped ==
  ASSUME now \in Int, checkpoint \in Times, now \in Times, NEW asked \in Int, Begin(asked)
  PROVE  run' \in RunType(Reports)
<1>1. PICK mark \in {checkpoint, 0} :
        run' = [IdleRun EXCEPT !.pc = "list", !.began = now,
                  !.since = EffectiveSince(mark, asked),
                  !.narrow = EffectiveSince(mark, asked) > EffectiveSince(mark, Lookback)]
  BY DEF Begin
<1>2. mark \in Int
  BY DEF Times
<1>3. EffectiveSince(mark, asked) \in Int
  BY <1>2, SinceIsInt
<1> DEFINE narrow == EffectiveSince(mark, asked) > EffectiveSince(mark, Lookback)
<1>4. narrow \in BOOLEAN
  OBVIOUS
<1>5. IdleRun \in RunType(Reports)
  BY IdleIsTyped
<1>6. run' = [IdleRun EXCEPT !.pc = "list", !.began = now,
                !.since = EffectiveSince(mark, asked), !.narrow = narrow]
  BY <1>1
<1> HIDE DEF narrow
<1> QED BY <1>3, <1>4, <1>5, <1>6 DEF RunType

\* Every step keeps the types.
LEMMA TypeInvNext == TypeInv /\ [Next]_vars => TypeInv'
<1> SUFFICES ASSUME TypeInv, [Next]_vars PROVE TypeInv'
  OBVIOUS
<1>1. /\ now \in Times /\ now \in Int /\ now >= 1 /\ modified \in [Numbers -> Times]
      /\ processed \in SUBSET Reports /\ checkpoint \in Times
      /\ faults \in 0..MaxFaults /\ run \in RunType(Reports)
      /\ requests \in 0..MaxRequests /\ narrowed \in Nat
  BY DEF TypeInv, TypeOK, RunType, Times
<1>2. SUFFICES /\ now' \in Times /\ now' >= 1 /\ modified' \in [Numbers -> Times]
               /\ processed' \in SUBSET Reports' /\ checkpoint' \in Times
               /\ faults' \in 0..MaxFaults /\ run' \in RunType(Reports')
               /\ requests' \in 0..MaxRequests /\ narrowed' \in Nat
  BY DEF TypeInv, TypeOK, RunType, Times
<1>f. Fault => faults' \in 0..MaxFaults
  BY <1>1, SelectionAssumption DEF Fault
<1>r. UNCHANGED modified => Reports' = Reports
  BY ReportsUnchanged
<1>3. CASE Tick
  <2>1. now' \in Times /\ now' >= 1
    BY <1>1, <1>3, SelectionAssumption DEF Tick, Times
  <2> QED BY <1>1, <1>3, <1>r, <2>1 DEF Tick, boundVars
<1>4. CASE StartRun \/ RequestRun
  <2>1. PICK asked \in Int : Begin(asked)
    BY <1>4, SelectionAssumption DEF StartRun, RequestRun
  <2>2. run' \in RunType(Reports)
    BY <1>1, <2>1, BeginIsTyped
  <2>3. requests' \in 0..MaxRequests
    BY <1>1, <1>4, SelectionAssumption DEF StartRun, RequestRun
  <2>4. /\ now' = now /\ modified' = modified /\ processed' = processed
        /\ checkpoint' = checkpoint /\ narrowed' = narrowed
        /\ faults' = faults \/ Fault
    BY <2>1 DEF Begin
  <2> QED BY <1>1, <1>f, <1>r, <2>2, <2>3, <2>4
<1>5. CASE ListCandidates
  <2>1. run' \in RunType(Reports)
    <3>1. CASE run' = [run EXCEPT !.pc = "end", !.err = TRUE]
      BY <1>1, <3>1 DEF RunType
    <3>2. CASE LET recent == RecentListed(run.since)
               IN run' = [run EXCEPT !.pc = "scan", !.newestFirst = (recent # {}),
                            !.todo = IF recent # {} THEN recent ELSE ListedPrefix]
      <4> DEFINE recent == RecentListed(run.since)
                 todo == IF recent # {} THEN recent ELSE ListedPrefix
      <4>1. todo \in SUBSET Reports
        BY ListingsAreReports
      <4>2. run' = [run EXCEPT !.pc = "scan", !.newestFirst = (recent # {}), !.todo = todo]
        BY <3>2
      <4> HIDE DEF recent, todo
      <4> QED BY <1>1, <4>1, <4>2 DEF RunType
    <3> QED BY <1>5, <3>1, <3>2 DEF ListCandidates
  <2> QED BY <1>1, <1>5, <1>f, <1>r, <2>1 DEF ListCandidates, boundVars
<1>6. CASE SkipProcessed
  <2>1. run' \in RunType(Reports)
    BY <1>1, <1>6 DEF SkipProcessed, RunType
  <2> QED BY <1>1, <1>6, <1>f, <1>r, <2>1 DEF SkipProcessed, boundVars
<1>7. CASE Ingest
  <2>1. Candidate \in run.todo /\ Candidate \in Reports
    BY <1>1, <1>7, CandidateIsLeft DEF RunType, Ingest, Scanning
  <2>2. run.started + 1 \in 0..MaxFilesPerRun
    BY <1>1, <1>7, SelectionAssumption DEF RunType, Ingest, FileLimitReached
  <2>3. run' \in RunType(Reports)
    <3>1. PICK yields \in BOOLEAN :
            LET zero == IF yields THEN 0 ELSE run.zero + 1
            IN run' = [run EXCEPT
               !.pc = IF zero >= MaxZeroYieldFiles THEN "end" ELSE "scan",
               !.hit = zero >= MaxZeroYieldFiles,
               !.zero = zero, !.failures = 0,
               !.todo = @ \ {Candidate}, !.started = @ + 1, !.done = @ + 1]
      BY <1>7 DEF Ingest
    <3> DEFINE zero == IF yields THEN 0 ELSE run.zero + 1
               limit == zero >= MaxZeroYieldFiles
    <3>2. zero \in Nat /\ limit \in BOOLEAN
      BY <1>1 DEF RunType
    <3>3. run' = [run EXCEPT !.pc = IF limit THEN "end" ELSE "scan", !.hit = limit,
                    !.zero = zero, !.failures = 0,
                    !.todo = @ \ {Candidate}, !.started = @ + 1, !.done = @ + 1]
      BY <3>1
    <3>4. run.todo \ {Candidate} \in SUBSET Reports /\ run.done + 1 \in Nat
      BY <1>1 DEF RunType
    <3> HIDE DEF zero, limit
    <3>5. CASE limit
      BY <1>1, <2>2, <3>2, <3>3, <3>4, <3>5 DEF RunType
    <3>6. CASE ~limit
      BY <1>1, <2>2, <3>2, <3>3, <3>4, <3>6 DEF RunType
    <3> QED BY <3>5, <3>6
  <2> QED BY <1>1, <1>7, <1>r, <2>1, <2>3 DEF Ingest, boundVars
<1>8. CASE FailIngest
  <2>1. run.started + 1 \in 0..MaxFilesPerRun
    BY <1>1, <1>8, SelectionAssumption DEF RunType, FailIngest, FileLimitReached
  <2>2. run' \in RunType(Reports)
    <3> DEFINE failures == run.failures + 1
               pc == IF failures >= MaxConsecutiveObjectFailures THEN "end" ELSE "scan"
    <3>1. failures \in Nat /\ run.todo \ {Candidate} \in SUBSET Reports /\ pc \in {"scan", "end"}
      BY <1>1 DEF RunType
    <3>2. run' = [run EXCEPT !.pc = pc, !.failures = failures, !.err = TRUE,
                             !.todo = @ \ {Candidate}, !.started = @ + 1]
      BY <1>8 DEF FailIngest
    <3> HIDE DEF failures, pc
    <3> QED BY <1>1, <2>1, <3>1, <3>2 DEF RunType
  <2> QED BY <1>1, <1>8, <1>f, <1>r, <2>2 DEF FailIngest, boundVars
<1>9. CASE HitLimit
  <2>1. run' \in RunType(Reports)
    BY <1>1, <1>9 DEF RunType, HitLimit
  <2> QED BY <1>1, <1>9, <1>r, <2>1 DEF HitLimit, boundVars
<1>10. CASE EndRun
  <2>1. Max({checkpoint, now}) \in Times
    <3>1. {checkpoint, now} \in SUBSET (0..MaxTime) /\ MaxTime \in Nat
      BY <1>1, SelectionAssumption DEF Times
    <3>2. Max({checkpoint, now}) \in {checkpoint, now}
      BY <3>1, MaxOfBounded
    <3> QED BY <1>1, <3>2
  <2>2. checkpoint' \in Times
    BY <1>1, <1>10, <2>1 DEF EndRun
  <2>3. run' \in RunType(Reports)
    BY <1>10, IdleIsTyped DEF EndRun
  <2>4. narrowed' \in Nat
    BY <1>1, <1>10 DEF EndRun, NarrowedAfter, RunType
  <2> QED BY <1>1, <1>10, <1>f, <1>r, <2>2, <2>3, <2>4 DEF EndRun
<1>11. CASE \E n \in Numbers : Upload(n)
  <2>0. PICK n \in Numbers : Upload(n)
    BY <1>11
  <2>1. Reports \subseteq Reports' /\ modified' \in [Numbers -> Times]
    BY <2>0, UploadAdds
  <2>2. run' \in RunType(Reports')
    BY <1>1, <2>0, <2>1 DEF RunType, Upload
  <2>3. UNCHANGED <<now, processed, checkpoint, faults, requests, narrowed>>
    BY <2>0 DEF Upload, boundVars
  <2> QED BY <1>1, <2>1, <2>2, <2>3
<1>12. CASE UNCHANGED vars
  BY <1>1, <1>12, <1>r DEF vars, boundVars
<1> QED BY <1>3, <1>4, <1>5, <1>6, <1>7, <1>8, <1>9, <1>10, <1>11, <1>12 DEF Next, RunStep

\* The types always hold.
LEMMA TypeInvAlways == Spec => []TypeInv
<1> QED BY TypeInvInit, TypeInvNext, PTL DEF Spec

\* The state of the selection is always of its type: a run never starts more files than
\* its limit, and what it is to download and what it has processed are reports.
THEOREM TypeCorrect == Spec => []TypeOK
<1>1. TypeInv => TypeOK
  BY DEF TypeInv
<1> QED BY <1>1, TypeInvAlways, PTL

-----------------------------------------------------------------------------
(* The order of the reports, and what the seek skips.                      *)

\* Reports are written in the order of their numbers, none after now, with bounded
\* gaps; and the checkpoint is no time to come.
BucketInv ==
  /\ InOrder /\ GapsBounded
  /\ \A n \in Reports : modified[n] <= now
  /\ checkpoint <= now

\* The bucket is empty at the start.
LEMMA BucketInvInit == Init => BucketInv
<1> SUFFICES ASSUME Init PROVE BucketInv
  OBVIOUS
<1>1. Reports = {}
  BY DEF Init, Reports
<1>2. checkpoint <= now
  BY DEF Init
<1> QED BY <1>1, <1>2 DEF BucketInv, InOrder, GapsBounded

\* The next report is no further than the gap allows from any before it.
LEMMA UploadKeepsOrder ==
  ASSUME TypeInv, BucketInv, NEW n \in Numbers, Upload(n)
  PROVE  InOrder' /\ GapsBounded' /\ \A m \in Reports' : modified'[m] <= now
<1>1. /\ Reports' = Reports \cup {n} /\ n \notin Reports /\ modified'[n] = now /\ n \in Int
      /\ \A m \in Reports : m < n /\ modified'[m] = modified[m] /\ m \in Int
  BY UploadAdds, ReportNumbers DEF Numbers
<1>2. now \in Int /\ \A m \in Reports : modified[m] \in Int /\ modified[m] <= now
  BY TypeInvBucket, ModifiedIsTime DEF BucketInv, TypeInv, TypeOK, Times
<1>3. \A m \in Reports' : modified'[m] <= now
  BY <1>1, <1>2
<1>4. InOrder'
  <2>1. ASSUME NEW m \in Reports', NEW k \in Reports', m < k PROVE modified'[m] <= modified'[k]
    <3>1. CASE k = n
      BY <1>1, <1>3, <3>1
    <3>2. CASE k # n
      <4>1. k \in Reports /\ k \in Int /\ k < n
        BY <1>1, <3>2
      <4>2. m # n
        BY <1>1, <2>1, <4>1
      <4>3. m \in Reports
        BY <1>1, <4>2
      <4> QED BY <1>1, <2>1, <4>1, <4>3 DEF BucketInv, InOrder
    <3> QED BY <3>1, <3>2
  <2> QED BY <2>1 DEF InOrder
<1>5. GapsBounded'
  <2>1. ASSUME NEW m \in Reports', NEW k \in Reports', m < k
        PROVE  \E r \in Reports' : m < r /\ r <= m + MaxGap + 1
    <3>1. m \in Reports /\ m \in Int
      <4>1. m # n
        BY <1>1, <2>1
      <4> QED BY <1>1, <4>1
    <3>2. CASE \E x \in Reports : m < x
      BY <1>1, <3>1, <3>2 DEF BucketInv, GapsBounded
    <3>3. CASE ~ \E x \in Reports : m < x
      <4>1. m = Max(Reports)
        <5>1. Reports \in SUBSET (0..MaxNumber) /\ MaxNumber \in Nat /\ Reports # {}
          BY <3>1, ReportSets, ReportNumbers
        <5>2. Max(Reports) \in Reports /\ \A x \in Reports : x <= Max(Reports)
          BY <5>1, MaxOfBounded
        <5>3. ~(m < Max(Reports)) /\ m <= Max(Reports) /\ Max(Reports) \in Int
          BY <1>1, <3>1, <3>3, <5>2
        <5> QED BY <3>1, <5>3
      <4>2. n <= m + MaxGap + 1
        BY <3>1, <4>1 DEF Upload
      <4> QED BY <1>1, <3>1, <4>2
    <3> QED BY <3>2, <3>3
  <2> QED BY <2>1 DEF GapsBounded
<1> QED BY <1>3, <1>4, <1>5

\* Every step keeps the order and the gaps of the reports.
LEMMA BucketInvNext == TypeInv /\ BucketInv /\ [Next]_vars => BucketInv'
<1> SUFFICES ASSUME TypeInv, BucketInv, [Next]_vars PROVE BucketInv'
  OBVIOUS
<1>1. now \in Int /\ checkpoint \in Int /\ \A n \in Reports : modified[n] \in Int
  BY TypeInvBucket, ModifiedIsTime DEF TypeInv, TypeOK, Times
<1>2. ASSUME UNCHANGED modified, now' \in Int, now <= now', checkpoint' <= now' PROVE BucketInv'
  <2>1. Reports' = Reports
    BY <1>2, ReportsUnchanged
  <2>2. InOrder' /\ GapsBounded'
    BY <1>2, <2>1 DEF BucketInv, InOrder, GapsBounded
  <2>3. \A n \in Reports : modified[n] <= now'
    BY <1>1, <1>2 DEF BucketInv
  <2> QED BY <1>2, <2>1, <2>2, <2>3 DEF BucketInv
<1>3. CASE Tick
  BY <1>1, <1>2, <1>3 DEF Tick, BucketInv
<1>4. CASE EndRun
  <2>1. {checkpoint, now} \in SUBSET (0..MaxTime) /\ MaxTime \in Nat
    BY SelectionAssumption DEF TypeInv, TypeOK, Times
  <2>2. Max({checkpoint, now}) \in {checkpoint, now}
    BY <2>1, MaxOfBounded
  <2>3. Max({checkpoint, now}) <= now
    BY <1>1, <2>2 DEF BucketInv
  <2>4. UNCHANGED <<now, modified>>
    BY <1>4 DEF EndRun
  <2>5. checkpoint' <= now
    BY <1>4, <2>3 DEF EndRun, BucketInv
  <2> QED BY <1>1, <1>2, <2>4, <2>5
<1>5. CASE StartRun \/ RequestRun \/ ListCandidates \/ SkipProcessed \/ Ingest \/ FailIngest \/ HitLimit
           \/ UNCHANGED vars
  <2>1. UNCHANGED <<now, modified, checkpoint>>
    BY <1>5 DEF StartRun, RequestRun, Begin, ListCandidates, SkipProcessed, Ingest, FailIngest,
                HitLimit, vars
  <2> QED BY <1>1, <1>2, <2>1 DEF BucketInv
<1>6. CASE \E n \in Numbers : Upload(n)
  <2>1. PICK n \in Numbers : Upload(n)
    BY <1>6
  <2>2. UNCHANGED <<now, checkpoint>>
    BY <2>1 DEF Upload
  <2> QED BY <2>1, <2>2, UploadKeepsOrder DEF BucketInv
<1> QED BY <1>3, <1>4, <1>5, <1>6 DEF Next, RunStep

\* The reports are always in order, with bounded gaps.
LEMMA BucketInvAlways == Spec => []BucketInv
<1> QED BY TypeInvAlways, BucketInvInit, BucketInvNext, PTL DEF Spec

\* A seek skips no report of the window, where at most one number is missing between two
\* reports and the probes are enough to halve what a bucket can hold
\* (binarySearchCostReportStart, collector.go:436-464).  With larger gaps it does: see
\* the run oci_gap.
THEOREM SeekIsSafe ==
  ASSUME MaxGap <= 1, NEW power, PowersOfTwo(power), MaxNumber <= power[MaxProbes - 1]
  PROVE  Spec => []SeekSkipsNothingRecent
<1>1. TypeInv /\ BucketInv => SeekSkipsNothingRecent
  <2> SUFFICES ASSUME TypeInv, BucketInv, NEW since \in Times, StartNumber(since) # None,
                      NEW n \in Reports, modified[n] >= since
               PROVE  n >= StartNumber(since)
    BY DEF SeekSkipsNothingRecent
  <2>1. BucketOK /\ InOrder /\ GapsBounded /\ since \in Int
    BY TypeInvBucket DEF BucketInv, Times
  <2>2. FirstRecent(since, StartNumber(since))
    BY <2>1, StartIsFirstRecent
  <2> QED BY <2>2 DEF FirstRecent
<1> QED BY <1>1, TypeInvAlways, BucketInvAlways, PTL

-----------------------------------------------------------------------------
(* No report is left behind.                                               *)

\* A run looks back far enough unless a client narrowed its window, ends before its
\* time is over, and at "end" it has failed or hit a limit.
RunInv ==
  /\ run.pc # "idle" =>
       /\ run.began <= now /\ now - run.began <= MaxRunTime
       /\ \/ run.since <= run.began - Lookback
          \/ run.since <= checkpoint - Overlap
          \/ run.narrow
  /\ run.pc = "end" => run.err \/ run.hit

\* A run without an error has yet to look at the reports of its window that were
\* written before it began and are not processed.
ScanInv ==
  run.pc = "scan" /\ ~run.err =>
    \A n \in Reports : n \in processed \/ n \in run.todo
                       \/ modified[n] < run.since \/ modified[n] >= run.began

\* NoReportLeftBehind, without the maximum.
NotBehind ==
  \A n \in Reports : n \in processed \/ modified[n] >= checkpoint - Overlap
                     \/ modified[n] < now - Lookback \/ modified[n] < narrowed

SelectionInv == RunInv /\ ScanInv /\ NotBehind

\* The bucket holds no more reports than one run lists.
EveryReportListed == Cardinality(Reports) <= ScanLimit

\* No run has started, and there is no report to leave behind.
LEMMA SelectionInvInit == Init => SelectionInv
<1> SUFFICES ASSUME Init PROVE SelectionInv
  OBVIOUS
<1>1. Reports = {}
  BY DEF Init, Reports
<1>2. run.pc = "idle"
  BY DEF Init, IdleRun
<1> QED BY <1>1, <1>2 DEF SelectionInv, RunInv, ScanInv, NotBehind

\* The candidates of a run are at least the reports of its window.
LEMMA WindowIsListed ==
  ASSUME TypeInv, BucketInv, EveryReportListed, MaxGap <= 1, NEW power, PowersOfTwo(power),
         MaxNumber <= power[MaxProbes - 1], NEW since \in Int,
         NEW n \in Reports, modified[n] >= since
  PROVE  n \in IF RecentListed(since) # {} THEN RecentListed(since) ELSE ListedPrefix
<1>1. BucketOK /\ InOrder /\ GapsBounded
  BY TypeInvBucket DEF BucketInv
<1>2. n \in Nat /\ n >= 1 /\ modified[n] \in Int /\ Margin \in Nat
  BY <1>1, ModifiedIsTime, ReportNumbers, SelectionAssumption
<1>3. StartNumber(since) \in Nat /\ n >= StartNumber(since)
  <2>1. CASE StartNumber(since) = None
    BY <1>2, <2>1 DEF None
  <2>2. CASE StartNumber(since) # None
    <3>1. FirstRecent(since, StartNumber(since))
      BY <1>1, <2>2, StartIsFirstRecent
    <3> QED BY <3>1, ReportNumbers DEF FirstRecent
  <2> QED BY <2>1, <2>2
<1>4. n \in Listed(StartNumber(since))
  BY <1>3, ListedIsAll DEF EveryReportListed, From
<1>5. modified[n] >= since - Margin
  BY <1>2
<1> QED BY <1>4, <1>5 DEF RecentListed

\* What is known of a state, for arithmetic.
LEMMA SelectionTypes ==
  ASSUME TypeInv
  PROVE  /\ now \in Int /\ checkpoint \in Int /\ run.began \in Int /\ run.since \in Int
         /\ {Lookback, Overlap, MaxRunTime} \subseteq Nat
         /\ \A n \in Reports : modified[n] \in Int
         /\ run \in RunType(Reports) /\ narrowed \in Nat
<1>1. now \in Int /\ checkpoint \in Int /\ run \in RunType(Reports) /\ narrowed \in Nat
  BY DEF TypeInv, TypeOK, RunType, Times
<1>2. run.began \in Int /\ run.since \in Int
  BY <1>1 DEF RunType, Times
<1>3. {Lookback, Overlap, MaxRunTime} \subseteq Nat
  BY SelectionAssumption
<1> QED BY <1>1, <1>2, <1>3, TypeInvBucket, ModifiedIsTime

\* Time passes: reports leave the lookback, and the run has not run out of it.
LEMMA TickKeepsSelection ==
  ASSUME TypeInv, SelectionInv, Tick
  PROVE  SelectionInv'
<1>1. Reports' = Reports /\ now' = now + 1 /\ UNCHANGED <<modified, processed, checkpoint, run, narrowed>>
  BY ReportsUnchanged DEF Tick, boundVars
<1>2. RunInv'
  BY <1>1, SelectionTypes DEF SelectionInv, RunInv, Tick
<1>3. ScanInv'
  BY <1>1 DEF SelectionInv, ScanInv
<1>4. NotBehind'
  <2>1. ASSUME NEW n \in Reports
        PROVE  n \in processed \/ modified[n] >= checkpoint - Overlap
               \/ modified[n] < now' - Lookback \/ modified[n] < narrowed
    BY <1>1, SelectionTypes DEF SelectionInv, NotBehind
  <2>2. /\ modified' = modified /\ processed' = processed /\ checkpoint' = checkpoint
        /\ narrowed' = narrowed
    BY <1>1
  <2> QED BY <1>1, <2>1, <2>2 DEF NotBehind
<1> QED BY <1>2, <1>3, <1>4 DEF SelectionInv

\* A new report is newer than the run and the checkpoint.
LEMMA UploadKeepsSelection ==
  ASSUME TypeInv, BucketInv, SelectionInv, NEW u \in Numbers, Upload(u)
  PROVE  SelectionInv'
<1>1. UNCHANGED <<now, processed, checkpoint, run, narrowed>>
  BY DEF Upload, boundVars
<1>2. /\ Reports' = Reports \cup {u} /\ modified'[u] = now
      /\ \A n \in Reports : modified'[n] = modified[n]
  BY UploadAdds
<1>3. RunInv'
  BY <1>1 DEF SelectionInv, RunInv
<1>4. ScanInv'
  <2>1. run.pc = "scan" => now >= run.began
    BY SelectionTypes DEF SelectionInv, RunInv
  <2> QED BY <1>1, <1>2, <2>1 DEF SelectionInv, ScanInv
<1>5. NotBehind'
  <2>1. now >= checkpoint - Overlap
    BY SelectionTypes DEF BucketInv
  <2> QED BY <1>1, <1>2, <2>1 DEF SelectionInv, NotBehind
<1> QED BY <1>3, <1>4, <1>5 DEF SelectionInv

\* A run looks back to its lookback, or to before the checkpoint, or is narrow.
LEMMA BeginKeepsSelection ==
  ASSUME TypeInv, BucketInv, SelectionInv, StartRun \/ RequestRun
  PROVE  SelectionInv'
<1>1. PICK asked \in Int : Begin(asked)
  BY SelectionAssumption DEF StartRun, RequestRun
<1>2. PICK mark \in {checkpoint, 0} :
        run' = [IdleRun EXCEPT !.pc = "list", !.began = now,
                  !.since = EffectiveSince(mark, asked),
                  !.narrow = EffectiveSince(mark, asked) > EffectiveSince(mark, Lookback)]
  BY <1>1 DEF Begin
<1>3. UNCHANGED <<now, modified, processed, checkpoint, narrowed>> /\ Reports' = Reports
  BY <1>1, ReportsUnchanged DEF Begin
<1>4. /\ run'.pc = "list" /\ run'.began = now /\ run'.since = EffectiveSince(mark, asked)
      /\ run'.narrow = (EffectiveSince(mark, asked) > EffectiveSince(mark, Lookback))
  BY <1>2 DEF IdleRun
<1>5. mark \in Int /\ mark <= checkpoint /\ Lookback \in Int
  BY SelectionTypes DEF TypeInv, TypeOK, Times
<1>6. /\ EffectiveSince(mark, asked) \in Int /\ EffectiveSince(mark, Lookback) \in Int
      /\ \/ EffectiveSince(mark, Lookback) = mark - Overlap
         \/ EffectiveSince(mark, Lookback) = now - Lookback
  BY <1>5, SelectionTypes, SinceIsInt
<1>7. run'.since <= now - Lookback \/ run'.since <= checkpoint - Overlap \/ run'.narrow
  <2> DEFINE far  == EffectiveSince(mark, Lookback)
             near == EffectiveSince(mark, asked)
  <2>1. far \in Int /\ near \in Int /\ (far = mark - Overlap \/ far = now - Lookback)
    BY <1>6
  <2>2. run'.since = near /\ run'.narrow = (near > far)
    BY <1>4
  <2> HIDE DEF far, near
  <2>3. checkpoint \in Int /\ now \in Int /\ Overlap \in Int
    BY SelectionTypes
  <2>4. CASE near > far
    BY <2>2, <2>4
  <2>5. CASE near <= far
    BY <1>5, <2>1, <2>2, <2>3, <2>5
  <2> QED BY <2>1, <2>4, <2>5
<1>8. RunInv'
  BY <1>3, <1>4, <1>7, SelectionTypes DEF RunInv
<1> QED BY <1>3, <1>4, <1>8 DEF SelectionInv, ScanInv, NotBehind

\* What a step within a run that leaves the rest alone has to show.
LEMMA RunStepKeepsSelection ==
  ASSUME TypeInv, SelectionInv, run.pc # "idle", UNCHANGED <<now, modified, checkpoint, narrowed>>,
         processed \subseteq processed', run'.pc \in {"scan", "end"},
         run'.began = run.began, run'.since = run.since, run'.narrow = run.narrow,
         run'.pc = "end" => run'.err \/ run'.hit, ScanInv'
  PROVE  SelectionInv'
<1>1. Reports' = Reports
  BY ReportsUnchanged
<1>2. RunInv'
  BY DEF SelectionInv, RunInv
<1>3. NotBehind'
  BY <1>1 DEF SelectionInv, NotBehind
<1> QED BY <1>2, <1>3 DEF SelectionInv

\* The listing holds every report of the window, or fails.
LEMMA ListKeepsSelection ==
  ASSUME TypeInv, BucketInv, SelectionInv, EveryReportListed, ListCandidates, MaxGap <= 1,
         NEW power, PowersOfTwo(power), MaxNumber <= power[MaxProbes - 1]
  PROVE  SelectionInv'
<1> DEFINE recent == RecentListed(run.since)
           todo   == IF recent # {} THEN recent ELSE ListedPrefix
<1>1. run \in RunType(Reports) /\ run.pc = "list"
  BY SelectionTypes DEF ListCandidates
<1>2. UNCHANGED <<now, modified, processed, checkpoint, narrowed>> /\ Reports' = Reports
  BY ReportsUnchanged DEF ListCandidates, boundVars
<1>3. CASE run' = [run EXCEPT !.pc = "end", !.err = TRUE]
  <2>1. /\ run'.pc = "end" /\ run'.err /\ run'.began = run.began /\ run'.since = run.since
        /\ run'.narrow = run.narrow
    BY <1>1, <1>3 DEF RunType
  <2>2. ScanInv'
    BY <2>1 DEF ScanInv
  <2> QED BY <1>1, <1>2, <2>1, <2>2, RunStepKeepsSelection
<1>4. CASE run' = [run EXCEPT !.pc = "scan", !.newestFirst = (recent # {}), !.todo = todo]
  <2>1. \A n \in Reports : modified[n] >= run.since => n \in todo
    BY WindowIsListed, SelectionTypes
  <2> HIDE DEF recent, todo
  <2>2. /\ run'.pc = "scan" /\ run'.todo = todo /\ run'.began = run.began
        /\ run'.since = run.since /\ run'.narrow = run.narrow
    BY <1>1, <1>4 DEF RunType
  <2>3. ScanInv'
    BY <1>2, <2>1, <2>2, SelectionTypes DEF ScanInv
  <2> QED BY <1>1, <1>2, <2>2, <2>3, RunStepKeepsSelection
<1> QED BY <1>3, <1>4 DEF ListCandidates

\* A candidate that is passed over without an error is processed.
LEMMA ScanKeepsSelection ==
  ASSUME TypeInv, SelectionInv, SkipProcessed \/ Ingest \/ FailIngest \/ HitLimit
  PROVE  SelectionInv'
<1>1. run \in RunType(Reports) /\ run.pc = "scan" /\ run.pc # "idle"
  BY SelectionTypes DEF SkipProcessed, Ingest, FailIngest, HitLimit, Scanning
<1>2. UNCHANGED <<now, modified, checkpoint, narrowed>> /\ Reports' = Reports
  BY ReportsUnchanged DEF SkipProcessed, Ingest, FailIngest, HitLimit, boundVars
<1>3. SUFFICES /\ processed \subseteq processed' /\ run'.pc \in {"scan", "end"}
               /\ run'.began = run.began /\ run'.since = run.since /\ run'.narrow = run.narrow
               /\ run'.pc = "end" => run'.err \/ run'.hit
               /\ run'.pc = "scan" /\ ~run'.err =>
                    /\ ~run.err
                    /\ \A n \in Reports : n \in run.todo => n \in run'.todo \/ n \in processed'
  <2>1. ScanInv'
    BY <1>1, <1>2, <1>3 DEF SelectionInv, ScanInv
  <2> QED BY <1>1, <1>2, <1>3, <2>1, RunStepKeepsSelection
<1>4. CASE SkipProcessed
  BY <1>1, <1>4 DEF SkipProcessed, RunType
<1>5. CASE Ingest
  <2>1. PICK yields \in BOOLEAN :
          LET zero == IF yields THEN 0 ELSE run.zero + 1
          IN run' = [run EXCEPT
             !.pc = IF zero >= MaxZeroYieldFiles THEN "end" ELSE "scan",
             !.hit = zero >= MaxZeroYieldFiles,
             !.zero = zero, !.failures = 0,
             !.todo = @ \ {Candidate}, !.started = @ + 1, !.done = @ + 1]
    BY <1>5 DEF Ingest
  <2> DEFINE zero == IF yields THEN 0 ELSE run.zero + 1
             limit == zero >= MaxZeroYieldFiles
  <2>2. run' = [run EXCEPT !.pc = IF limit THEN "end" ELSE "scan", !.hit = limit,
                  !.zero = zero, !.failures = 0,
                  !.todo = @ \ {Candidate}, !.started = @ + 1, !.done = @ + 1]
    BY <2>1
  <2>3. processed' = processed \cup {Candidate}
    BY <1>5 DEF Ingest
  <2> HIDE DEF zero, limit
  <2>4. /\ run'.pc = (IF limit THEN "end" ELSE "scan") /\ run'.hit = limit
        /\ run'.began = run.began /\ run'.since = run.since /\ run'.err = run.err
        /\ run'.narrow = run.narrow
        /\ run'.todo = run.todo \ {Candidate}
    BY <1>1, <2>2 DEF RunType
  <2> QED BY <2>3, <2>4
<1>6. CASE FailIngest
  <2> DEFINE failures == run.failures + 1
             pc == IF failures >= MaxConsecutiveObjectFailures THEN "end" ELSE "scan"
  <2>1. pc \in {"scan", "end"}
    OBVIOUS
  <2>2. run' = [run EXCEPT !.pc = pc, !.failures = failures, !.err = TRUE,
                           !.todo = @ \ {Candidate}, !.started = @ + 1]
    BY <1>6 DEF FailIngest
  <2>3. UNCHANGED processed
    BY <1>6 DEF FailIngest
  <2> HIDE DEF pc, failures
  <2>4. /\ run'.pc = pc /\ run'.err = TRUE /\ run'.began = run.began
        /\ run'.since = run.since /\ run'.narrow = run.narrow
    BY <1>1, <2>2 DEF RunType
  <2> QED BY <2>1, <2>3, <2>4
<1>7. CASE HitLimit
  BY <1>1, <1>7 DEF HitLimit, RunType
<1> QED BY <1>4, <1>5, <1>6, <1>7

\* A run that moves the checkpoint has looked at every report of its window, which
\* narrowed remembers when a client made it less than the lookback.
LEMMA EndKeepsSelection ==
  ASSUME TypeInv, BucketInv, SelectionInv, EndRun, MaxRunTime <= Overlap
  PROVE  SelectionInv'
<1>1. UNCHANGED <<now, modified, processed>> /\ run' = IdleRun /\ Reports' = Reports
  BY ReportsUnchanged DEF EndRun
<1>2. RunInv' /\ ScanInv'
  BY <1>1 DEF RunInv, ScanInv, IdleRun
<1>3. CASE checkpoint' = checkpoint /\ narrowed' = narrowed
  BY <1>1, <1>2, <1>3 DEF SelectionInv, NotBehind
<1>4. CASE Complete /\ checkpoint' = Max({checkpoint, now}) /\ narrowed' = NarrowedAfter
  <2>1. Complete /\ checkpoint' = Max({checkpoint, now})
    BY <1>4
  <2>n. /\ narrowed' \in Int /\ narrowed' >= narrowed
        /\ run.narrow => narrowed' >= run.since
    BY <1>4, SelectionTypes DEF NarrowedAfter
  <2>2. checkpoint' \in Int /\ checkpoint' <= now
    <3>1. {checkpoint, now} \in SUBSET (0..MaxTime) /\ MaxTime \in Nat
      BY SelectionAssumption DEF TypeInv, TypeOK, Times
    <3>2. Max({checkpoint, now}) \in {checkpoint, now}
      BY <3>1, MaxOfBounded
    <3> QED BY <2>1, <3>2, SelectionTypes DEF BucketInv
  <2>3. run.pc = "scan" /\ run.todo = {} /\ ~run.err
    BY <2>1 DEF EndRun, Complete, SelectionInv, RunInv
  <2>4. ASSUME NEW n \in Reports
        PROVE  n \in processed \/ modified[n] >= checkpoint' - Overlap
               \/ modified[n] < now - Lookback \/ modified[n] < narrowed'
    <3>1. n \in processed \/ modified[n] < run.since \/ modified[n] >= run.began
      BY <2>3 DEF SelectionInv, ScanInv
    <3>2. CASE modified[n] >= run.began
      <4>1. now - run.began <= MaxRunTime
        BY <2>3 DEF SelectionInv, RunInv
      <4> QED BY <2>2, <3>2, <4>1, SelectionTypes
    <3>3. CASE modified[n] < run.since
      <4>1. /\ run.began <= now
            /\ \/ run.since <= run.began - Lookback
               \/ run.since <= checkpoint - Overlap
               \/ run.narrow
        BY <2>3 DEF SelectionInv, RunInv
      <4>2. CASE run.since <= run.began - Lookback
        BY <3>3, <4>1, <4>2, SelectionTypes
      <4>3. CASE run.since <= checkpoint - Overlap
        <5>1. ~(modified[n] >= checkpoint - Overlap)
          BY <3>3, <4>3, SelectionTypes
        <5>2. \/ n \in processed \/ modified[n] < now - Lookback \/ modified[n] < narrowed
          BY <5>1 DEF SelectionInv, NotBehind
        <5> QED BY <2>n, <5>2, SelectionTypes
      <4>4. CASE run.narrow
        BY <2>n, <3>3, <4>4, SelectionTypes
      <4> QED BY <4>1, <4>2, <4>3, <4>4
    <3> QED BY <3>1, <3>2, <3>3
  <2> QED BY <1>1, <1>2, <2>4 DEF SelectionInv, NotBehind
<1> QED BY <1>3, <1>4 DEF EndRun

\* Every step keeps it, where the seek skips nothing and a run lists every report.
LEMMA SelectionInvNext ==
  ASSUME MaxGap <= 1, NEW power, PowersOfTwo(power), MaxNumber <= power[MaxProbes - 1],
         MaxRunTime <= Overlap
  PROVE  TypeInv /\ BucketInv /\ SelectionInv /\ EveryReportListed /\ [Next]_vars => SelectionInv'
<1> SUFFICES ASSUME TypeInv, BucketInv, SelectionInv, EveryReportListed, [Next]_vars
             PROVE  SelectionInv'
  OBVIOUS
<1>1. CASE Tick
  BY <1>1, TickKeepsSelection
<1>2. CASE StartRun \/ RequestRun
  BY <1>2, BeginKeepsSelection
<1>3. CASE ListCandidates
  BY <1>3, ListKeepsSelection
<1>4. CASE SkipProcessed \/ Ingest \/ FailIngest \/ HitLimit
  BY <1>4, ScanKeepsSelection
<1>5. CASE EndRun
  BY <1>5, EndKeepsSelection
<1>6. CASE \E n \in Numbers : Upload(n)
  BY <1>6, UploadKeepsSelection
<1>7. CASE UNCHANGED vars
  BY <1>7, ReportsUnchanged DEF vars, boundVars, SelectionInv, RunInv, ScanInv, NotBehind
<1> QED BY <1>1, <1>2, <1>3, <1>4, <1>5, <1>6, <1>7 DEF Next, RunStep

\* No checkpoint moves past a report that nobody has ingested and that is still in the
\* lookback (service.go:133), if the gaps and the probes are as SeekIsSafe needs them,
\* a run takes no longer than the overlap, and the bucket never holds more reports than
\* one run lists.  Without the last (MaxObjectScan = 0) it does.  A run that a client
\* narrowed (POST /api/v1/ingest?days=N) moves the checkpoint past what it did not look
\* at: the reports older than its window are the exception.
THEOREM NothingLeftBehind ==
  ASSUME MaxGap <= 1, NEW power, PowersOfTwo(power), MaxNumber <= power[MaxProbes - 1],
         MaxRunTime <= Overlap
  PROVE  Spec /\ []EveryReportListed => []NoReportLeftBehind
<1>1. TypeInv /\ SelectionInv => NoReportLeftBehind
  <2> SUFFICES ASSUME TypeInv, SelectionInv, NEW n \in Reports
               PROVE  n \in processed \/ modified[n] >= EffectiveSince(checkpoint, Lookback)
                      \/ modified[n] < now - Lookback \/ modified[n] < narrowed
    BY DEF NoReportLeftBehind
  <2>1. n \in processed \/ modified[n] >= checkpoint - Overlap \/ modified[n] < now - Lookback
        \/ modified[n] < narrowed
    BY DEF SelectionInv, NotBehind
  <2> DEFINE far == EffectiveSince(checkpoint, Lookback)
  <2>2. /\ now \in Int /\ checkpoint \in Int /\ Lookback \in Int /\ Overlap \in Int
        /\ modified[n] \in Int
    BY SelectionTypes
  <2>3. far = checkpoint - Overlap \/ far = now - Lookback
    BY <2>2, SinceIsInt
  <2> HIDE DEF far
  <2>4. n \in processed \/ modified[n] >= far \/ modified[n] < now - Lookback
        \/ modified[n] < narrowed
    BY <2>1, <2>2, <2>3
  <2> QED BY <2>4 DEF far
<1>2. TypeInv /\ BucketInv /\ SelectionInv /\ EveryReportListed /\ [Next]_vars => SelectionInv'
  BY SelectionInvNext
<1> QED BY <1>1, <1>2, TypeInvAlways, BucketInvAlways, SelectionInvInit, PTL DEF Spec
=============================================================================
