-------------------------- MODULE CostViewsProofs --------------------------
(***************************************************************************)
(* Proofs about CostViews, for every account, bill, clock, period and      *)
(* retention: the tables are a materialized view of cost_records, all      *)
(* readers agree on what is clean, and none counts a line twice.           *)
(***************************************************************************)
EXTENDS CostViews, NaturalFacts, FiniteSetTheorems

-----------------------------------------------------------------------------
(* Periods.                                                                *)

\* A period begins on a multiple of its length.
LEMMA PeriodIsMultiple ==
  ASSUME NEW w \in Nat \ {0}, NEW d \in Nat
  PROVE  \E k \in Nat : k * w \in Nat /\ PeriodStart(d, w) = k * w /\ k * w <= d /\ d < k * w + w
  <1> DEFINE k == d \div w
  <1>1. k \in Nat /\ k * w <= d /\ d < k * w + w
    OBVIOUS
  <1> HIDE DEF k
  <1>2. k * w \in Nat
    BY <1>1
  <1> DEFINE m == k * w
             r == d - m
  <1>3. m \in Nat /\ m <= d /\ d < m + w
    BY <1>1, <1>2
  <1>4. r \in 0..(w - 1) /\ d = k * w + r
    <2> HIDE DEF m
    <2>1. r \in 0..(w - 1) /\ d = m + r
      BY <1>3
    <2> QED  BY <2>1 DEF m
  <1> HIDE DEF r
  <1>5. d % w = r
    BY <1>1, <1>4
  <1>6. PeriodStart(d, w) = m
    <2>1. d = m + r
      BY <1>4
    <2> HIDE DEF m
    <2> QED  BY <1>3, <1>4, <1>5, <2>1 DEF PeriodStart
  <1> QED  BY <1>1, <1>2, <1>6

\* A period begins on a day that is in it, and a later day is in no earlier period.
LEMMA PeriodFacts ==
  ASSUME NEW w \in Nat \ {0}, NEW d \in Nat
  PROVE  /\ PeriodStart(d, w) \in 0..d
         /\ PeriodStart(PeriodStart(d, w), w) = PeriodStart(d, w)
         /\ \A e \in Nat : d <= e => PeriodStart(d, w) <= PeriodStart(e, w)
  <1>1. PICK k \in Nat : k * w \in Nat /\ PeriodStart(d, w) = k * w /\ k * w <= d /\ d < k * w + w
    BY PeriodIsMultiple
  <1>2. PeriodStart(k * w, w) = k * w
    <2>1. (k * w) % w = 0
      OBVIOUS
    <2> QED  BY <1>1, <2>1 DEF PeriodStart
  <1>3. ASSUME NEW e \in Nat, d <= e PROVE PeriodStart(d, w) <= PeriodStart(e, w)
    <2>1. PICK n \in Nat : n * w \in Nat /\ PeriodStart(e, w) = n * w /\ n * w <= e /\ e < n * w + w
      BY PeriodIsMultiple
    <2>2. SUFFICES ASSUME n < k PROVE FALSE
      <3>1. ASSUME k <= n PROVE k * w <= n * w
        <4>1. PICK m \in Nat : n = k + m
          <5>1. n - k \in Nat /\ n = k + (n - k)
            BY <3>1
          <5> QED  BY <5>1
        <4>2. n * w = k * w + m * w /\ m * w \in Nat
          BY <4>1
        <4> QED  BY <1>1, <4>2
      <3> QED  BY <1>1, <2>1, <2>2, <3>1
    <2>3. PICK m \in Nat : k = n + 1 + m
      <3>1. k - n - 1 \in Nat /\ k = n + 1 + (k - n - 1)
        BY <2>2
      <3> QED  BY <3>1
    <2>4. k * w = n * w + w + m * w /\ m * w \in Nat
      BY <2>3
    <2> QED  BY <1>1, <1>3, <2>1, <2>4
  <1> QED  BY <1>1, <1>2, <1>3

\* A period of one day is the day.
LEMMA OneDayPeriod == ASSUME NEW d \in Nat PROVE PeriodStart(d, 1) = d
  BY DEF PeriodStart

-----------------------------------------------------------------------------
(* The selection and the summaries.                                        *)

Placed(rows) == \A r \in rows : r.type \in Types /\ r.day \in Days

\* What the selection keeps of a day.
Selected(rows, r) ==
  \/ r.type \in {"oci", "cur_line_item"}
  \/ r.type = "linked_account_service" /\ ~HasCur(rows, r.day)

\* SQL and Go select the same rows of a table.
LEMMA SelectionsAgree ==
  ASSUME NEW rows, Placed(rows)
  PROVE  /\ General(rows) = {r \in rows : Selected(rows, r)}
         /\ Shown(rows, "timeseries", "") = General(rows)
  <1>1. ASSUME NEW r \in rows
        PROVE  /\ Provider(r) # "aws" <=> r.type = "oci"
               /\ r.day \in Days
               /\ r.type \in {"oci", "cur_line_item", "linked_account_service", "region_service"}
    BY DEF Placed, Provider, Types, CeTypes
  <1>2. General(rows) = {r \in rows : Selected(rows, r)}
    BY <1>1 DEF General, Selected
  <1>3. ASSUME NEW r \in rows
        PROVE  RowMatchesView(r, "timeseries", "", CurPeriods(rows)) <=> Selected(rows, r)
    <2>1. ~RegionView("timeseries", "")
      BY DEF RegionView
    <2>2. r.day \in CurPeriods(rows) <=> HasCur(rows, r.day)
      BY DEF CurPeriods, HasCur
    <2>3. r.type = "cur_line_item" => HasCur(rows, r.day)
      BY DEF HasCur
    <2> QED  BY <1>1, <2>1, <2>2, <2>3 DEF RowMatchesView, Selected
  <1>4. Shown(rows, "timeseries", "") = {r \in rows : Selected(rows, r)}
    BY <1>3 DEF Shown
  <1> QED  BY <1>2, <1>4

\* What is selected of a day depends on the rows of that day alone.
LEMMA SelectionIsLocal ==
  ASSUME NEW a, NEW b, Placed(a), Placed(b), NEW d \in Days, On(a, d) = On(b, d)
  PROVE  On(General(a), d) = On(General(b), d)
  <1>1. HasCur(a, d) <=> HasCur(b, d)
    <2>1. \A rows : HasCur(rows, d) <=> \E r \in On(rows, d) : r.type = "cur_line_item"
      BY DEF HasCur, On
    <2> QED  BY <2>1
  <1>2. ASSUME NEW rows, Placed(rows)
        PROVE  On(General(rows), d) = {r \in On(rows, d) : Selected(rows, r)}
    BY <1>2, SelectionsAgree DEF On
  <1>3. \A r \in On(a, d) : Selected(a, r) <=> Selected(b, r)
    BY <1>1 DEF Selected, On
  <1> QED  BY <1>2, <1>3

\* The rows that a summary sums up, and the summary.
SameName(q, r, w) == PeriodStart(q.day, w) = PeriodStart(r.day, w) /\ q.type = r.type /\ q.key = r.key
SummaryAt(rows, w, r) ==
  [day |-> PeriodStart(r.day, w), type |-> r.type, key |-> r.key,
   units |-> UnitsOf({q \in rows : SameName(q, r, w)})]

\* There is a summary for each name, of the rows that have it.
LEMMA SummariesOfRows ==
  ASSUME NEW rows, NEW w PROVE SummaryOf(rows, w) = {SummaryAt(rows, w, r) : r \in rows}
  <1> DEFINE Name(r) == [day |-> PeriodStart(r.day, w), type |-> r.type, key |-> r.key]
             Sum(n) == [day |-> n.day, type |-> n.type, key |-> n.key,
                        units |-> UnitsOf({q \in rows : Name(q) = n})]
  <1>1. ASSUME NEW r \in rows PROVE Sum(Name(r)) = SummaryAt(rows, w, r)
    <2>1. \A q \in rows : Name(q) = Name(r) <=> SameName(q, r, w)
      BY DEF SameName
    <2>2. {q \in rows : Name(q) = Name(r)} = {q \in rows : SameName(q, r, w)}
      BY <2>1
    <2>3. Name(r).day = PeriodStart(r.day, w) /\ Name(r).type = r.type /\ Name(r).key = r.key
      OBVIOUS
    <2> HIDE DEF Name
    <2> QED  BY <2>2, <2>3 DEF SummaryAt
  <1>2. SummaryOf(rows, w) = {Sum(n) : n \in {Name(r) : r \in rows}}
    BY DEF SummaryOf
  <1> HIDE DEF Name, Sum
  <1> QED  BY <1>1, <1>2

\* A unit is in the summary of a period exactly if a row with its name has it.
LEMMA SummaryUnits ==
  ASSUME NEW rows, NEW w
  PROVE  /\ \A r \in rows : /\ SummaryAt(rows, w, r) \in SummaryOf(rows, w)
                            /\ r.units \subseteq SummaryAt(rows, w, r).units
         /\ \A s \in SummaryOf(rows, w) :
              /\ \E r \in rows : s = SummaryAt(rows, w, r)
              /\ \A u \in s.units : \E r \in rows :
                   u \in r.units /\ s.day = PeriodStart(r.day, w) /\ s.type = r.type /\ s.key = r.key
         /\ \A s, t \in SummaryOf(rows, w) : s.day = t.day /\ s.type = t.type /\ s.key = t.key => s = t
  <1>1. SummaryOf(rows, w) = {SummaryAt(rows, w, r) : r \in rows}
    BY SummariesOfRows
  <1>2. \A r : /\ SummaryAt(rows, w, r).day = PeriodStart(r.day, w)
               /\ SummaryAt(rows, w, r).type = r.type /\ SummaryAt(rows, w, r).key = r.key
               /\ SummaryAt(rows, w, r).units = UNION {q.units : q \in {x \in rows : SameName(x, r, w)}}
    BY DEF SummaryAt, UnitsOf
  <1>3. \A r \in rows : r.units \subseteq SummaryAt(rows, w, r).units
    BY <1>2 DEF SameName
  <1>4. ASSUME NEW r \in rows, NEW u \in SummaryAt(rows, w, r).units
        PROVE  \E q \in rows : u \in q.units /\ SameName(q, r, w)
    BY <1>2
  <1>5. ASSUME NEW q \in rows, NEW r \in rows, SameName(q, r, w)
        PROVE  SummaryAt(rows, w, q) = SummaryAt(rows, w, r)
    <2>1. {x \in rows : SameName(x, q, w)} = {x \in rows : SameName(x, r, w)}
      BY <1>5 DEF SameName
    <2> QED  BY <1>5, <2>1 DEF SummaryAt, SameName
  <1>6. ASSUME NEW s \in SummaryOf(rows, w), NEW t \in SummaryOf(rows, w),
               s.day = t.day, s.type = t.type, s.key = t.key
        PROVE  s = t
    <2>1. PICK q \in rows : s = SummaryAt(rows, w, q)
      BY <1>1
    <2>2. PICK r \in rows : t = SummaryAt(rows, w, r)
      BY <1>1
    <2>3. SameName(q, r, w)
      BY <1>2, <1>6, <2>1, <2>2 DEF SameName
    <2> QED  BY <1>5, <2>1, <2>2, <2>3
  <1>7. ASSUME NEW s \in SummaryOf(rows, w), NEW u \in s.units
        PROVE  \E r \in rows :
                 u \in r.units /\ s.day = PeriodStart(r.day, w) /\ s.type = r.type /\ s.key = r.key
    <2>1. PICK r \in rows : s = SummaryAt(rows, w, r)
      BY <1>1
    <2>2. PICK q \in rows : u \in q.units /\ SameName(q, r, w)
      BY <1>4, <2>1
    <2> QED  BY <1>2, <2>1, <2>2 DEF SameName
  <1> QED  BY <1>1, <1>3, <1>6, <1>7

\* The summaries of a period depend on the rows of its days alone.
LEMMA SummaryIsLocal ==
  ASSUME NEW a, NEW b, Placed(a), Placed(b), NEW w, NEW p,
         \A d \in Days : PeriodStart(d, w) = p => On(a, d) = On(b, d)
  PROVE  On(SummaryOf(a, w), p) = On(SummaryOf(b, w), p)
  <1>1. ASSUME NEW x, NEW y, Placed(x), Placed(y),
               \A d \in Days : PeriodStart(d, w) = p => On(x, d) = On(y, d),
               NEW s \in On(SummaryOf(x, w), p)
        PROVE  s \in On(SummaryOf(y, w), p)
    <2>1. PICK r \in x : s = SummaryAt(x, w, r)
      BY SummariesOfRows DEF On
    <2>2. PeriodStart(r.day, w) = p /\ s.day = p
      BY <2>1 DEF SummaryAt, On
    <2>3. \A q : (q \in x /\ SameName(q, r, w)) <=> (q \in y /\ SameName(q, r, w))
      BY <1>1, <2>2 DEF SameName, Placed, On
    <2>4. r \in y
      BY <2>3 DEF SameName
    <2>5. {q \in x : SameName(q, r, w)} = {q \in y : SameName(q, r, w)}
      BY <2>3
    <2>6. s = SummaryAt(y, w, r)
      BY <2>1, <2>5 DEF SummaryAt
    <2> QED  BY <2>2, <2>4, <2>6, SummariesOfRows DEF On
  <1> QED  BY <1>1

\* Whether a period has CUR is seen in its summaries.
LEMMA SummariesShowCur ==
  ASSUME NEW rows, NEW w, NEW p
  PROVE  HasCur(SummaryOf(rows, w), p)
           <=> \E r \in rows : r.type = "cur_line_item" /\ PeriodStart(r.day, w) = p
  <1>1. ASSUME NEW r \in rows
        PROVE  /\ SummaryAt(rows, w, r).day = PeriodStart(r.day, w)
               /\ SummaryAt(rows, w, r).type = r.type
    BY DEF SummaryAt
  <1> QED  BY <1>1, SummariesOfRows DEF HasCur

\* Summing up and then selecting is selecting and then summing up, in a period that has
\* CUR on all days with general rows or on none.
LEMMA SummariesSelect ==
  ASSUME NEW rows, Placed(rows), NEW w, NEW p, Placed(SummaryOf(rows, w)),
         (\E r \in rows : r.type = "cur_line_item" /\ PeriodStart(r.day, w) = p)
           => \A r \in rows : r.type = "linked_account_service" /\ PeriodStart(r.day, w) = p
                                => HasCur(rows, r.day)
  PROVE  UnitsOf(On(General(SummaryOf(rows, w)), p))
           = UnitsOf({r \in General(rows) : PeriodStart(r.day, w) = p})
  <1> DEFINE sums == SummaryOf(rows, w)
  <1>1. /\ General(rows) = {r \in rows : Selected(rows, r)}
        /\ General(sums) = {s \in sums : Selected(sums, s)}
    BY SelectionsAgree
  <1>2. ASSUME NEW r \in rows
        PROVE  /\ SummaryAt(rows, w, r).day = PeriodStart(r.day, w)
               /\ SummaryAt(rows, w, r).type = r.type
    BY DEF SummaryAt
  <1>3. HasCur(sums, p) <=> \E r \in rows : r.type = "cur_line_item" /\ PeriodStart(r.day, w) = p
    BY SummariesShowCur
  <1>4. ASSUME NEW s \in General(sums), s.day = p, NEW u \in s.units
        PROVE  \E r \in General(rows) : PeriodStart(r.day, w) = p /\ u \in r.units
    <2>1. PICK r \in rows : u \in r.units /\ s.day = PeriodStart(r.day, w) /\ s.type = r.type
      BY <1>1, <1>4, SummaryUnits
    <2>2. HasCur(rows, r.day) => HasCur(sums, p)
      BY <1>3, <1>4, <2>1 DEF HasCur
    <2>3. Selected(rows, r)
      BY <1>1, <1>4, <2>1, <2>2 DEF Selected
    <2> QED  BY <1>1, <1>4, <2>1, <2>3
  <1>5. ASSUME NEW r \in General(rows), PeriodStart(r.day, w) = p, NEW u \in r.units
        PROVE  \E s \in General(sums) : s.day = p /\ u \in s.units
    <2>1. r \in rows /\ Selected(rows, r)
      BY <1>1
    <2> DEFINE s == SummaryAt(rows, w, r)
    <2>2. s \in sums /\ u \in s.units /\ s.day = p /\ s.type = r.type
      BY <1>2, <1>5, <2>1, SummaryUnits
    <2> HIDE DEF s
    <2>3. Selected(sums, s)
      BY <1>3, <1>5, <2>1, <2>2 DEF Selected
    <2> QED  BY <1>1, <2>2, <2>3
  <1> HIDE DEF sums
  <1>6. UnitsOf(On(General(sums), p)) = UnitsOf({r \in General(rows) : PeriodStart(r.day, w) = p})
    BY <1>4, <1>5 DEF UnitsOf, On
  <1> QED  BY <1>6 DEF sums

-----------------------------------------------------------------------------
(* The rows of a bill.                                                     *)

BilledBy(type, l) == l.provider = IF type = "oci" THEN "oci" ELSE "aws"

\* What a line is grouped by says all that its row says.
LEMMA GroupHasKey ==
  ASSUME NEW type \in Types, NEW l, NEW m, GroupBy(type, l) = GroupBy(type, m)
  PROVE  Key(type, l) = Key(type, m)
  <1>1. CASE type = "linked_account_service"
    <2>1. l.account = m.account /\ l.service = m.service
      BY <1>1 DEF GroupBy
    <2> QED  BY <1>1, <2>1 DEF Key, CeTypes
  <1>2. CASE type = "region_service"
    <2>1. l.region = m.region /\ l.service = m.service
      BY <1>2 DEF GroupBy
    <2> QED  BY <1>2, <2>1 DEF Key, CeTypes
  <1>3. CASE type \in {"cur_line_item", "oci"}
    <2>1. l = m
      BY <1>3 DEF GroupBy
    <2> QED  BY <2>1
  <1> QED  BY <1>1, <1>2, <1>3 DEF Types, CeTypes

\* The rows of a day's bill name the day, what they are part of, and billed lines.
LEMMA RowsOfFacts ==
  ASSUME NEW type \in Types, NEW d \in Days, NEW v \in 1..MaxVersion, NEW r \in RowsOf(type, d, v)
  PROVE  /\ r \in Row /\ r.day = d /\ r.type = type /\ r.ver = v
         /\ \A u \in r.units : u[1] = d /\ Key(type, u[2]) = r.key /\ BilledBy(type, u[2])
  <1> DEFINE bill == Billed(type, d, v)
  <1>1. bill \subseteq Lines /\ \A l \in bill : BilledBy(type, l)
    BY ConstantsAssumption DEF Billed, BilledBy
  <1> HIDE DEF bill
  <1>2. PICK g \in Groups(type, bill) :
          r = [day |-> d, type |-> type, key |-> Key(type, CHOOSE l \in g : TRUE), ver |-> v,
               units |-> {d} \X g]
    BY DEF RowsOf, bill
  <1>3. PICK l \in bill : g = {m \in bill : GroupBy(type, m) = GroupBy(type, l)}
    BY <1>2 DEF Groups
  <1> DEFINE c == CHOOSE m \in g : TRUE
  <1>4. c \in g
    BY <1>3
  <1> HIDE DEF c
  <1>5. \A m \in g : m \in Lines /\ BilledBy(type, m) /\ Key(type, m) = Key(type, c)
    BY <1>1, <1>3, <1>4, GroupHasKey
  <1>6. r.day = d /\ r.type = type /\ r.ver = v /\ r.key = Key(type, c) /\ r.units = {d} \X g
    BY <1>2 DEF c
  <1>7. r \in Row
    <2>1. {d} \X g \subseteq Unit
      BY <1>5 DEF Unit
    <2>2. Key(type, c) \in {Key(t, k) : t \in Types, k \in Lines}
      BY <1>4, <1>5
    <2>3. r = [day |-> d, type |-> type, key |-> Key(type, c), ver |-> v, units |-> {d} \X g]
      BY <1>2 DEF c
    <2> QED  BY <2>1, <2>2, <2>3 DEF Row
  <1> QED  BY <1>5, <1>6, <1>7

\* A row as some version of the bill of its day has it.
FromBill(r) ==
  /\ r.type \in Types /\ r.day \in Days /\ r.ver \in 1..MaxVersion
  /\ r \in RowsOf(r.type, r.day, r.ver)

\* The rows of several days.
LEMMA RowsOfDaysFacts ==
  ASSUME NEW type \in Types, NEW days \in SUBSET Days, version \in [Days -> 1..MaxVersion],
         NEW r \in RowsOfDays(type, days)
  PROVE  FromBill(r) /\ r.type = type /\ r.day \in days /\ r.ver = version[r.day]
  <1>1. PICK d \in days : r \in RowsOf(type, d, version[d])
    BY DEF RowsOfDays
  <1>2. version[d] \in 1..MaxVersion /\ d \in Days
    OBVIOUS
  <1> QED  BY <1>1, <1>2, RowsOfFacts DEF FromBill

\* A summary of the rows of a bill is one of the lines that have its key.
SummaryFits(s, w) ==
  /\ s \in Summary
  /\ \A u \in s.units : PeriodStart(u[1], w) = s.day /\ Key(s.type, u[2]) = s.key /\ BilledBy(s.type, u[2])

\* The rows of a summary are within its period and of its key, so is every unit it sums.
LEMMA SummariesFit ==
  ASSUME NEW rows, \A r \in rows : FromBill(r), NEW w \in Nat \ {0}, NEW s \in SummaryOf(rows, w)
  PROVE  SummaryFits(s, w)
  <1>1. PICK r \in rows : s = SummaryAt(rows, w, r)
    BY SummaryUnits
  <1>2. ASSUME NEW q \in rows
        PROVE  /\ q \in Row /\ q.day \in Days
               /\ \A u \in q.units : u[1] = q.day /\ Key(q.type, u[2]) = q.key /\ BilledBy(q.type, u[2])
    BY <1>2, RowsOfFacts DEF FromBill
  <1>3. \A u \in s.units : \E q \in rows :
          u \in q.units /\ s.day = PeriodStart(q.day, w) /\ s.type = q.type /\ s.key = q.key
    BY SummaryUnits
  <1>4. \A u \in s.units :
          /\ PeriodStart(u[1], w) = s.day /\ Key(s.type, u[2]) = s.key /\ BilledBy(s.type, u[2])
          /\ u \in Unit
    BY <1>2, <1>3 DEF Row
  <1>5. PeriodStart(r.day, w) \in Days
    <2>1. r.day \in Nat
      BY <1>2 DEF Days
    <2> QED  BY <1>2, <2>1, PeriodFacts, ConstantsAssumption DEF Days
  <1>6. s = [day |-> PeriodStart(r.day, w), type |-> r.type, key |-> r.key, units |-> s.units]
    BY <1>1 DEF SummaryAt
  <1>7. s \in Summary
    <2>1. s.units \subseteq Unit /\ r.type \in Types /\ r.key \in {Key(t, l) : t \in Types, l \in Lines}
      BY <1>2, <1>4 DEF Row
    <2> QED  BY <1>5, <1>6, <2>1 DEF Summary
  <1> QED  BY <1>4, <1>7 DEF SummaryFits

-----------------------------------------------------------------------------
(* The inductive invariant.                                                *)

\* Every row is of some version of its day's bill; a run refreshes from a day on that it
\* inserted rows of.
RowsInv == (\A r \in records \cup got : FromBill(r)) /\ (phase = "refresh" => inserted # {})

\* A summary is of lines with its key, and the only one with its name.
TableInv(table, w) ==
  /\ \A s \in table : SummaryFits(s, w)
  /\ \A s, t \in table : s.day = t.day /\ s.type = t.type /\ s.key = t.key => s = t

CleanPeriod(p, w) == \A d \in Days : PeriodStart(d, w) = p => Clean(d)

\* The summaries of a period of clean days are those of its records.
FreshInv(table, w) ==
  \A p \in {PeriodStart(d, w) : d \in Days} :
    CleanPeriod(p, w) => On(table, p) = On(SummaryOf(records, w), p)

ViewsInv ==
  /\ RowsInv
  /\ TableInv(daily, 1) /\ TableInv(weekly, DaysPerWeek)
  /\ FreshInv(daily, 1) /\ FreshInv(weekly, DaysPerWeek)

-----------------------------------------------------------------------------
(* What a step does to the records and the tables.                         *)

Quiet == UNCHANGED <<records, tableVars, dirty>> /\ today <= today'

Stores == UNCHANGED <<today, tableVars>> /\ dirty' = dirty \cup Changed(records, records')

Refreshes ==
  /\ UNCHANGED <<today, records>>
  /\ \E from \in Days :
       /\ daily' = Pruned(RefreshCostSummary(daily, 1, from))
       /\ weekly' = Pruned(RefreshCostSummary(weekly, DaysPerWeek, from))
       /\ anomalies' = Pruned(RefreshAnomalies(RefreshCostSummary(daily, 1, from), from))
       /\ dirty' = {d \in dirty : d < from}

Drops ==
  /\ UNCHANGED <<today, dirty>> /\ records' \in {records, Pruned(records)}
  /\ \/ UNCHANGED tableVars
     \/ daily' = Pruned(daily) /\ weekly' = Pruned(weekly) /\ anomalies' = Pruned(anomalies)

\* The earliest inserted day is one of the days.
LEMMA FromIsADay ==
  ASSUME TypeOK, RowsInv, phase = "refresh" PROVE RefreshFrom \in inserted /\ RefreshFrom \in Days
  <1>1. inserted \in SUBSET Nat /\ inserted # {} /\ inserted \subseteq Days
    BY DEF TypeOK, RowsInv, Days
  <1> QED  BY <1>1, MinOfNaturals DEF RefreshFrom

\* Every step is of one of these kinds.
LEMMA StepKinds ==
  ASSUME TypeOK, RowsInv, [Next]_vars PROVE Quiet \/ Stores \/ Refreshes \/ Drops
  <1>1. today \in Int /\ today <= today
    BY DEF TypeOK, Days
  <1>2. CASE Tick
    BY <1>1, <1>2 DEF Tick, Quiet
  <1>3. CASE (\E d \in Days : Restate(d)) \/ (\E m \in Modes : Restart(m)) \/ StartRun \/ GetCostAndUsage
             \/ UNCHANGED vars
    BY <1>1, <1>3 DEF Restate, Restart, StartRun, GetCostAndUsage, Quiet, cloudVars, vars
  <1>4. CASE StoreIngestedBatch \/ CollectCur \/ CollectOci
    BY <1>4 DEF StoreIngestedBatch, CollectCur, CollectOci, Replace, Stores, cloudVars
  <1>5. CASE RefreshDashboard
    <2>1. CASE UNCHANGED <<tableVars, dirty>>
      BY <1>1, <1>5, <2>1 DEF RefreshDashboard, Quiet, cloudVars
    <2>2. CASE ~UNCHANGED <<tableVars, dirty>>
      <3> DEFINE from == RefreshFrom
      <3>1. from \in Days
        BY <1>5, FromIsADay DEF RefreshDashboard
      <3>2. /\ daily' = Pruned(RefreshCostSummary(daily, 1, from))
            /\ weekly' = Pruned(RefreshCostSummary(weekly, DaysPerWeek, from))
            /\ anomalies' = Pruned(RefreshAnomalies(RefreshCostSummary(daily, 1, from), from))
            /\ dirty' = {d \in dirty : d < from}
            /\ UNCHANGED <<today, records>>
        BY <1>5, <2>2 DEF RefreshDashboard, cloudVars
      <3> HIDE DEF from
      <3> QED  BY <3>1, <3>2 DEF Refreshes
    <2> QED  BY <2>1, <2>2
  <1>6. CASE Maintain
    BY <1>6 DEF Maintain, Drops, cloudVars
  <1> QED  BY <1>2, <1>3, <1>4, <1>5, <1>6 DEF Next

-----------------------------------------------------------------------------
(* Types, and where rows come from.                                        *)

\* The rows that storing leaves are old ones or given ones.
LEMMA StoredRows == ASSUME NEW rows PROVE StoreCostRecords(rows) \subseteq records \cup rows
  <1>1. ASSUME NEW r \in rows PROVE (CHOOSE s \in rows : ConflictKey(s) = ConflictKey(r)) \in rows
    OBVIOUS
  <1> QED  BY <1>1 DEF StoreCostRecords

\* Rows that reach or leave cost_records.
LEMMA ReplaceTypes ==
  ASSUME TypeOK, RowsInv, NEW new, NEW days \in SUBSET Days, Replace(new, days),
         \A r \in new : FromBill(r), \A r \in got' : FromBill(r)
  PROVE  /\ records' \subseteq Row /\ got' \subseteq Row /\ inserted' \subseteq Days
         /\ dirty' \subseteq Days /\ phase' \in Phases /\ RowsInv'
  <1>1. /\ records' = new /\ inserted' = days /\ dirty' = dirty \cup Changed(records, new)
        /\ phase' = IF days = {} THEN "maintain" ELSE "refresh"
    BY DEF Replace, AfterStore
  <1>2. \A r : FromBill(r) => r \in Row
    BY RowsOfFacts DEF FromBill
  <1> QED  BY <1>1, <1>2 DEF TypeOK, RowsInv, Changed, Phases

\* A fault, if there is still one to come.
LEMMA FaultTypes ==
  ASSUME TypeOK, UNCHANGED faults \/ Error
  PROVE  faults' \in 0..MaxFaults
  <1>1. faults \in 0..MaxFaults /\ MaxFaults \in Nat
    BY ConstantsAssumption DEF TypeOK
  <1> QED  BY <1>1 DEF Error

\* What a run brings into cost_records.
LEMMA CollectTypes ==
  ASSUME TypeOK, RowsInv, StoreIngestedBatch \/ CollectCur \/ CollectOci PROVE TypeOK' /\ RowsInv'
  <1>1. /\ \A r \in records : FromBill(r)
        /\ \A r \in got : FromBill(r)
        /\ version \in [Days -> 1..MaxVersion] /\ RecentDays \in SUBSET Days
    BY DEF RowsInv, TypeOK, RecentDays
  <1>2. \A r : FromBill(r) => r.day \in Days
    BY DEF FromBill
  <1>3. /\ UNCHANGED <<cloudVars, modeVars, query, asOf, tableVars>>
        /\ faults' \in 0..MaxFaults
    BY FaultTypes DEF StoreIngestedBatch, CollectCur, CollectOci
  <1>4. ASSUME NEW type \in Types, NEW days \in SUBSET RecentDays
        PROVE  /\ {r.day : r \in RowsOfDays(type, days)} \in SUBSET Days
               /\ \A r \in RowsOfDays(type, days) : FromBill(r)
    <2>1. days \in SUBSET Days
      BY <1>1
    <2> QED  BY <1>1, <1>2, <2>1, RowsOfDaysFacts
  <1>5. ASSUME NEW new, NEW days \in SUBSET Days, Replace(new, days),
               \A r \in new : FromBill(r), \A r \in got' : FromBill(r)
        PROVE  TypeOK' /\ RowsInv'
    <2>1. /\ records' \subseteq Row /\ got' \subseteq Row /\ inserted' \subseteq Days
          /\ dirty' \subseteq Days /\ phase' \in Phases /\ RowsInv'
      BY <1>5, ReplaceTypes
    <2> QED  BY <1>3, <2>1 DEF TypeOK, cloudVars, modeVars, tableVars
  <1>6. CASE StoreIngestedBatch
    <2> DEFINE rows == {r \in got : WithinLookback(r.day)}
    <2>1. \A r \in rows : FromBill(r) /\ r.day \in Days
      BY <1>1, <1>2
    <2>2. {r.day : r \in rows} \in SUBSET Days /\ {} \in SUBSET Days
      BY <2>1
    <2>3. \A r \in StoreCostRecords(rows) : FromBill(r)
      BY <1>1, <2>1, StoredRows
    <2>4. /\ got' = {}
          /\ Replace(StoreCostRecords(rows), {r.day : r \in rows}) \/ Replace(records, {})
      BY <1>6 DEF StoreIngestedBatch
    <2> HIDE DEF rows
    <2> QED  BY <1>1, <1>5, <2>2, <2>3, <2>4
  <1>7. CASE CollectCur
    <2>1. "cur_line_item" \in Types /\ UNCHANGED got /\ {} \in SUBSET Days
      BY <1>7 DEF Types, CollectCur
    <2>2. CASE Replace(records, {})
      BY <1>1, <1>5, <2>1, <2>2
    <2>3. ASSUME NEW days \in SUBSET RecentDays,
                 Replace({r \in records : r.type # "cur_line_item"} \cup RowsOfDays("cur_line_item", days),
                         {r.day : r \in RowsOfDays("cur_line_item", days)})
          PROVE  TypeOK' /\ RowsInv'
      BY <1>1, <1>4, <1>5, <2>1, <2>3
    <2> QED  BY <1>7, <2>2, <2>3 DEF CollectCur
  <1>8. CASE CollectOci
    <2>1. "oci" \in Types /\ UNCHANGED got
      BY <1>8 DEF Types, CollectOci
    <2>2. ASSUME NEW days \in SUBSET RecentDays,
                 Replace({r \in records : r.type # "oci" \/ r.day \notin days} \cup RowsOfDays("oci", days),
                         {r.day : r \in RowsOfDays("oci", days)})
          PROVE  TypeOK' /\ RowsInv'
      BY <1>1, <1>4, <1>5, <2>1, <2>2
    <2> QED  BY <1>8, <2>2 DEF CollectOci
  <1> QED  BY <1>6, <1>7, <1>8

\* A table that is computed again from some day on.
LEMMA RefreshTable ==
  ASSUME NEW table, NEW w \in Nat \ {0}, TableInv(table, w), \A r \in records : FromBill(r),
         NEW from \in Days
  PROVE  TableInv(RefreshCostSummary(table, w, from), w)
  <1> DEFINE start == PeriodStart(from, w)
             kept  == {s \in table : s.day < start}
             fresh == {s \in SummaryOf(records, w) : s.day >= start}
  <1>1. RefreshCostSummary(table, w, from) = kept \cup fresh
    BY DEF RefreshCostSummary
  <1>2. \A s \in table \cup SummaryOf(records, w) : SummaryFits(s, w)
    BY SummariesFit DEF TableInv
  <1>3. \A s \in table \cup SummaryOf(records, w) : s.day \in Nat
    BY <1>2 DEF SummaryFits, Summary, Days
  <1>4. start \in Nat
    <2>1. from \in Nat
      BY DEF Days
    <2> QED  BY <2>1, PeriodFacts
  <1> HIDE DEF start
  <1>5. \A s \in kept, t \in fresh : s.day # t.day
    BY <1>3, <1>4
  <1>6. \A s, t \in fresh : s.day = t.day /\ s.type = t.type /\ s.key = t.key => s = t
    BY SummaryUnits
  <1>7. \A s, t \in kept : s.day = t.day /\ s.type = t.type /\ s.key = t.key => s = t
    BY DEF TableInv
  <1>8. \A s \in kept \cup fresh : SummaryFits(s, w)
    BY <1>2
  <1> HIDE DEF kept, fresh
  <1> QED  BY <1>1, <1>5, <1>6, <1>7, <1>8 DEF TableInv

\* The anomalies that a table of summaries has are on its days.
LEMMA AnomaliesOnDays ==
  ASSUME NEW table, \A s \in table : s.day \in Days, NEW from, NEW a \in AnomaliesOf(table, from)
  PROVE  a.day \in Days /\ a.day >= from
  <1> DEFINE series == DashboardSeries(General(table))
  <1>1. PICK r \in series :
          r.day >= from /\ a \in Flags(series, r.key, r.day, TrailingDays(series, r.key, r.day))
    BY DEF AnomaliesOf
  <1>2. r.day \in Days
    BY DEF DashboardSeries, General
  <1>3. \A rows, k, d, days : \A x \in Flags(rows, k, d, days) : x.day = d
    BY DEF Flags, Anomaly
  <1> QED  BY <1>1, <1>2, <1>3

\* The tables after a step.
LEMMA TablesStep ==
  ASSUME TypeOK, ViewsInv, [Next]_vars
  PROVE  /\ TableInv(daily, 1)' /\ TableInv(weekly, DaysPerWeek)'
         /\ daily' \subseteq Summary /\ weekly' \subseteq Summary /\ \A a \in anomalies' : a.day \in Days
  <1>1. Quiet \/ Stores \/ Refreshes \/ Drops
    BY StepKinds DEF ViewsInv
  <1>2. /\ TableInv(daily, 1) /\ TableInv(weekly, DaysPerWeek) /\ \A a \in anomalies : a.day \in Days
        /\ 1 \in Nat \ {0} /\ DaysPerWeek \in Nat \ {0}
    BY ConstantsAssumption DEF ViewsInv, TypeOK
  <1>3. \A table, w : TableInv(table, w) => table \subseteq Summary /\ TableInv(Pruned(table), w)
    BY DEF TableInv, SummaryFits, Pruned
  <1>4. \A a \in Pruned(anomalies) : a.day \in Days
    BY <1>2 DEF Pruned
  <1>5. CASE Quiet \/ Stores
    BY <1>2, <1>3, <1>5 DEF Quiet, Stores, tableVars, TableInv
  <1>6. CASE Drops
    BY <1>2, <1>3, <1>4, <1>6 DEF Drops, tableVars, TableInv
  <1>7. CASE Refreshes
    <2>1. PICK from \in Days :
            /\ daily' = Pruned(RefreshCostSummary(daily, 1, from))
            /\ weekly' = Pruned(RefreshCostSummary(weekly, DaysPerWeek, from))
            /\ anomalies' = Pruned(RefreshAnomalies(RefreshCostSummary(daily, 1, from), from))
      BY <1>7 DEF Refreshes
    <2> DEFINE newDaily  == RefreshCostSummary(daily, 1, from)
               newWeekly == RefreshCostSummary(weekly, DaysPerWeek, from)
    <2>2. TableInv(newDaily, 1) /\ TableInv(newWeekly, DaysPerWeek)
      BY <1>2, RefreshTable DEF ViewsInv, RowsInv
    <2>3. \A s \in newDaily : s.day \in Days
      BY <2>2 DEF TableInv, SummaryFits, Summary
    <2> HIDE DEF newDaily, newWeekly
    <2>4. \A a \in RefreshAnomalies(newDaily, from) : a.day \in Days
      BY <1>2, <2>3, AnomaliesOnDays DEF RefreshAnomalies
    <2>5. \A a \in Pruned(RefreshAnomalies(newDaily, from)) : a.day \in Days
      BY <2>4 DEF Pruned
    <2>6. /\ daily' = Pruned(newDaily) /\ weekly' = Pruned(newWeekly)
          /\ anomalies' = Pruned(RefreshAnomalies(newDaily, from))
      BY <2>1 DEF newDaily, newWeekly
    <2>7. TableInv(Pruned(newDaily), 1) /\ TableInv(Pruned(newWeekly), DaysPerWeek)
      BY <1>3, <2>2
    <2> QED  BY <1>3, <2>5, <2>6, <2>7 DEF TableInv
  <1> QED  BY <1>1, <1>5, <1>6, <1>7

\* The Cost Explorer queries return rows of the bills of their days.
LEMMA QueryTypes ==
  ASSUME TypeOK, RowsInv, GetCostAndUsage
  PROVE  /\ query' \in 1..2 /\ asOf' \in Days /\ phase' \in Phases /\ phase' # "refresh"
         /\ \A r \in got' : FromBill(r)
         /\ faults' \in 0..MaxFaults
  <1>1. query \in 1..2 /\ Len(Queries) = 2
    BY DEF TypeOK, Queries
  <1>2. Queries[query] \in Types
    BY <1>1 DEF Queries, Types, CeTypes
  <1>3. /\ got' \subseteq got \cup Pages(Queries[query])
        /\ UNCHANGED faults \/ Error
        /\ phase = "query"
        /\ \/ query < 2 /\ query' = query + 1 /\ UNCHANGED <<phase, asOf>>
           \/ query' = 1 /\ asOf' = 0 /\ phase' = "store"
    BY <1>1 DEF GetCostAndUsage, PagesBeforeError
  <1>4. \A r \in Pages(Queries[query]) : FromBill(r)
    <2>1. CollectionWindow \in SUBSET Days
      BY DEF CollectionWindow
    <2> QED  BY <1>2, <2>1, RowsOfDaysFacts DEF Pages, TypeOK
  <1>5. faults' \in 0..MaxFaults
    BY <1>3, FaultTypes
  <1>6. 0 \in Days
    BY ConstantsAssumption DEF Days
  <1> QED  BY <1>1, <1>3, <1>4, <1>5, <1>6 DEF TypeOK, RowsInv, Phases

\* Every step keeps the types, and rows from a bill.
LEMMA TypeStep ==
  ASSUME TypeOK, ViewsInv, [Next]_vars PROVE TypeOK' /\ RowsInv'
  <1>1. RowsInv
    BY DEF ViewsInv
  <1>2. daily' \subseteq Summary /\ weekly' \subseteq Summary /\ \A a \in anomalies' : a.day \in Days
    BY TablesStep
  <1>3. 0 \in Days /\ 1 \in 1..2
    BY ConstantsAssumption DEF Days
  <1>4. \A r : FromBill(r) => r \in Row
    BY RowsOfFacts DEF FromBill
  <1>5. CASE Tick
    <2>1. today' \in Days
      BY <1>5, ConstantsAssumption DEF Tick, TypeOK, Days
    <2> QED  BY <1>1, <1>5, <2>1 DEF Tick, TypeOK, RowsInv, runVars, modeVars, tableVars
  <1>6. ASSUME NEW d \in Days, Restate(d) PROVE TypeOK' /\ RowsInv'
    <2>1. version' \in [Days -> 1..MaxVersion]
      <3>1. version[d] + 1 \in 1..MaxVersion
        BY <1>6, ConstantsAssumption DEF Restate, TypeOK
      <3> QED  BY <1>6, <3>1 DEF Restate, TypeOK
    <2> QED  BY <1>1, <1>6, <2>1 DEF Restate, TypeOK, RowsInv, runVars, modeVars, tableVars
  <1>7. ASSUME NEW m \in Modes, Restart(m) PROVE TypeOK' /\ RowsInv'
    <2>1. /\ mode' \in Modes /\ phase' = "idle" /\ query' = 1 /\ asOf' = 0 /\ got' = {}
          /\ inserted' = {}
          /\ UNCHANGED <<cloudVars, records, tableVars, dirty>>
      BY <1>7 DEF Restart
    <2>2. faults' \in 0..MaxFaults
      BY <1>7, ConstantsAssumption DEF Restart, TypeOK
    <2>3. switches' \in 0..MaxSwitches
      BY <1>7, ConstantsAssumption DEF Restart, TypeOK
    <2> QED  BY <1>1, <1>3, <2>1, <2>2, <2>3 DEF TypeOK, RowsInv, Phases, cloudVars, tableVars
  <1>8. CASE StartRun
    <2>1. asOf' \in Days /\ phase' \in Phases /\ phase' # "refresh"
      BY <1>3, <1>8 DEF StartRun, Phases, TypeOK
    <2> QED  BY <1>1, <1>8, <2>1 DEF StartRun, TypeOK, RowsInv, cloudVars, modeVars, tableVars
  <1>9. CASE GetCostAndUsage
    <2>1. /\ query' \in 1..2 /\ asOf' \in Days /\ phase' \in Phases /\ phase' # "refresh"
          /\ \A r \in got' : FromBill(r)
          /\ faults' \in 0..MaxFaults
      BY <1>1, <1>9, QueryTypes
    <2>2. UNCHANGED <<cloudVars, modeVars, inserted, records, tableVars, dirty>>
      BY <1>9 DEF GetCostAndUsage
    <2>3. got' \subseteq Row
      BY <1>4, <2>1
    <2> QED  BY <1>1, <2>1, <2>2, <2>3 DEF TypeOK, RowsInv, cloudVars, modeVars, tableVars
  <1>10. CASE StoreIngestedBatch \/ CollectCur \/ CollectOci
    BY <1>1, <1>10, CollectTypes
  <1>11. CASE RefreshDashboard
    <2>1. /\ phase' = "maintain" /\ dirty' \subseteq dirty
          /\ UNCHANGED faults \/ Error
          /\ UNCHANGED <<cloudVars, modeVars, query, asOf, got, inserted, records>>
      BY <1>11 DEF RefreshDashboard
    <2>2. faults' \in 0..MaxFaults
      BY <2>1, FaultTypes
    <2> QED  BY <1>1, <1>2, <2>1, <2>2 DEF TypeOK, RowsInv, Phases, cloudVars, modeVars
  <1>12. CASE Maintain
    <2>1. /\ phase' = "idle" /\ inserted' = {} /\ records' \subseteq records
          /\ UNCHANGED <<cloudVars, modeVars, query, asOf, got, dirty>>
      BY <1>12 DEF Maintain, Pruned
    <2>2. faults' \in 0..MaxFaults
      BY <1>12, FaultTypes DEF Maintain
    <2> QED  BY <1>1, <1>2, <2>1, <2>2 DEF TypeOK, RowsInv, Phases, cloudVars, modeVars
  <1>13. CASE UNCHANGED vars
    BY <1>1, <1>13 DEF TypeOK, RowsInv, vars, cloudVars, runVars, modeVars, tableVars
  <1> QED  BY <1>5, <1>6, <1>7, <1>8, <1>9, <1>10, <1>11, <1>12, <1>13 DEF Next

-----------------------------------------------------------------------------
(* Clean periods are fresh.                                                *)

\* A period's first day is one of its days.
LEMMA PeriodDay ==
  ASSUME NEW w \in Nat \ {0}, NEW p \in {PeriodStart(d, w) : d \in Days}
  PROVE  p \in Days /\ p \in Nat /\ PeriodStart(p, w) = p
  <1>1. PICK d \in Days : p = PeriodStart(d, w)
    OBVIOUS
  <1>2. d \in Nat
    BY DEF Days
  <1>3. p \in 0..d /\ PeriodStart(p, w) = p
    BY <1>1, <1>2, PeriodFacts
  <1> QED  BY <1>2, <1>3, ConstantsAssumption DEF Days

\* Rows that have not expired stay.
LEMMA PrunedDay ==
  ASSUME NEW table, NEW d, ~Expired(d) PROVE On(Pruned(table), d) = On(table, d)
  BY DEF On, Pruned

\* What is clean after a step was clean before, or is computed again; elsewhere neither
\* the records nor the summaries of its days have changed.
LEMMA FreshStep ==
  ASSUME TypeOK, RowsInv, RowsInv', today' \in Days, NEW w \in Nat \ {0}, NEW old, NEW new, FreshInv(old, w),
         \/ Quiet /\ new = old
         \/ Stores /\ new = old
         \/ Drops /\ new \in {old, Pruned(old)}
         \/ /\ UNCHANGED <<today, records>>
            /\ \E from \in Days : dirty' = {d \in dirty : d < from}
                                  /\ new = Pruned(RefreshCostSummary(old, w, from)),
         NEW p \in {PeriodStart(d, w) : d \in Days},
         \A d \in Days : PeriodStart(d, w) = p => Clean(d)'
  PROVE  On(new, p) = On(SummaryOf(records', w), p)
  <1>1. p \in Days /\ p \in Nat /\ PeriodStart(p, w) = p
    BY PeriodDay
  <1>2. today \in Nat /\ today' \in Nat /\ Retention \in Nat /\ \A d \in Days : d \in Nat
    BY ConstantsAssumption DEF TypeOK, Days
  <1>3. Placed(records) /\ Placed(records')
    BY DEF RowsInv, Placed, FromBill
  <1>4. ASSUME NEW d \in Days, Clean(d)' PROVE d \notin dirty' /\ ~(d < today' - Retention)
    BY <1>4 DEF Clean, Expired
  <1>5. ASSUME UNCHANGED today, NEW d \in Days, Clean(d)' PROVE ~Expired(d)
    BY <1>4, <1>5 DEF Expired
  <1>6. ASSUME CleanPeriod(p, w), \A d \in Days : PeriodStart(d, w) = p => On(records, d) = On(records', d)
        PROVE  On(old, p) = On(SummaryOf(records', w), p)
    <2>1. On(old, p) = On(SummaryOf(records, w), p)
      BY <1>6 DEF FreshInv
    <2> QED  BY <1>3, <1>6, <2>1, SummaryIsLocal
  <1>7. CASE Quiet /\ new = old
    <2>1. \A d \in Days : Clean(d)' => Clean(d)
      BY <1>2, <1>4, <1>7 DEF Quiet, Clean, Expired
    <2> QED  BY <1>6, <1>7, <2>1 DEF Quiet, CleanPeriod
  <1>8. CASE Stores /\ new = old
    <2>1. ASSUME NEW d \in Days, Clean(d)' PROVE Clean(d) /\ On(records, d) = On(records', d)
      <3>1. d \notin dirty /\ d \notin Changed(records, records') /\ ~Expired(d)
        BY <1>4, <1>5, <1>8, <2>1 DEF Stores
      <3> QED  BY <3>1 DEF Clean, Changed
    <2> QED  BY <1>6, <1>8, <2>1 DEF CleanPeriod
  <1>9. CASE Drops /\ new \in {old, Pruned(old)}
    <2>1. ASSUME NEW d \in Days, Clean(d)' PROVE Clean(d) /\ On(records, d) = On(records', d)
      <3>1. d \notin dirty /\ ~Expired(d)
        BY <1>4, <1>5, <1>9, <2>1 DEF Drops
      <3> QED  BY <1>9, <3>1, PrunedDay DEF Clean, Drops
    <2>2. On(new, p) = On(old, p)
      <3>1. ~Expired(p)
        BY <1>1, <2>1 DEF Clean
      <3> QED  BY <1>9, <3>1, PrunedDay
    <2> QED  BY <1>6, <2>1, <2>2 DEF CleanPeriod
  <1>10. CASE /\ UNCHANGED <<today, records>>
              /\ \E from \in Days : dirty' = {d \in dirty : d < from}
                                    /\ new = Pruned(RefreshCostSummary(old, w, from))
    <2>1. PICK from \in Days : dirty' = {d \in dirty : d < from}
                               /\ new = Pruned(RefreshCostSummary(old, w, from))
      BY <1>10
    <2> DEFINE start == PeriodStart(from, w)
    <2>2. start \in Nat /\ \A d \in Days : from <= d => start <= PeriodStart(d, w)
      BY <1>2, PeriodFacts
    <2>3. RefreshCostSummary(old, w, from)
            = {s \in old : s.day < start} \cup {s \in SummaryOf(records, w) : s.day >= start}
      BY DEF RefreshCostSummary
    <2> HIDE DEF start
    <2>4. On(new, p) = On(RefreshCostSummary(old, w, from), p)
      BY <1>1, <1>5, <1>10, <2>1, PrunedDay
    <2>5. CASE p >= start
      <3>1. ~(p < start)
        BY <1>1, <2>2, <2>5
      <3> QED  BY <1>10, <2>3, <2>4, <2>5, <3>1 DEF On
    <2>6. CASE ~(p >= start)
      <3>1. p < start
        BY <1>1, <2>2, <2>6
      <3>2. ASSUME NEW d \in Days, PeriodStart(d, w) = p PROVE d < from
        BY <1>2, <2>2, <2>6, <3>2
      <3>3. ASSUME NEW d \in Days, PeriodStart(d, w) = p PROVE Clean(d)
        BY <1>4, <1>5, <1>10, <2>1, <3>2, <3>3 DEF Clean
      <3>4. On(RefreshCostSummary(old, w, from), p) = On(old, p)
        BY <2>3, <2>6, <3>1 DEF On
      <3> QED  BY <1>6, <1>10, <2>4, <3>3, <3>4 DEF CleanPeriod
    <2> QED  BY <2>5, <2>6
  <1> QED  BY <1>7, <1>8, <1>9, <1>10

\* The initial states have the invariant.
LEMMA ViewsInit == Init => TypeOK /\ ViewsInv
  <1> SUFFICES ASSUME Init PROVE TypeOK /\ ViewsInv
    OBVIOUS
  <1>1. /\ today = 0 /\ version = [d \in Days |-> 1] /\ mode \in Modes /\ switches = 0 /\ phase = "idle"
        /\ query = 1 /\ asOf = 0 /\ got = {} /\ inserted = {} /\ faults = 0
        /\ records = {} /\ daily = {} /\ weekly = {} /\ anomalies = {} /\ dirty = {}
    BY DEF Init
  <1>2. 0 \in Days /\ 0 \in 0..MaxSwitches /\ 0 \in 0..MaxFaults /\ 1 \in 1..MaxVersion
    BY ConstantsAssumption DEF Days
  <1>3. TypeOK
    <2>1. version \in [Days -> 1..MaxVersion] /\ query \in 1..2
      BY <1>1, <1>2
    <2>2. today \in Days /\ asOf \in Days /\ phase \in Phases
      BY <1>1, <1>2 DEF Phases
    <2>3. switches \in 0..MaxSwitches /\ faults \in 0..MaxFaults
      BY <1>1, <1>2
    <2> QED  BY <1>1, <2>1, <2>2, <2>3 DEF TypeOK
  <1>4. \A w, p : On({}, p) = On(SummaryOf({}, w), p)
    BY SummaryUnits DEF On
  <1> QED  BY <1>1, <1>3, <1>4 DEF ViewsInv, RowsInv, TableInv, FreshInv

\* The invariant is inductive.
LEMMA ViewsStep == ASSUME TypeOK, ViewsInv, [Next]_vars PROVE TypeOK' /\ ViewsInv'
  <1>1. TypeOK' /\ RowsInv' /\ TableInv(daily, 1)' /\ TableInv(weekly, DaysPerWeek)'
    BY TypeStep, TablesStep
  <1>2. /\ RowsInv /\ FreshInv(daily, 1) /\ FreshInv(weekly, DaysPerWeek) /\ today' \in Days
        /\ 1 \in Nat \ {0} /\ DaysPerWeek \in Nat \ {0}
    BY <1>1, ConstantsAssumption DEF ViewsInv, TypeOK
  <1>3. Quiet \/ Stores \/ Refreshes \/ Drops
    BY <1>2, StepKinds
  <1>4. \/ Quiet /\ daily' = daily
        \/ Stores /\ daily' = daily
        \/ Drops /\ daily' \in {daily, Pruned(daily)}
        \/ /\ UNCHANGED <<today, records>>
           /\ \E from \in Days : dirty' = {d \in dirty : d < from}
                                 /\ daily' = Pruned(RefreshCostSummary(daily, 1, from))
    BY <1>3 DEF Quiet, Stores, Drops, Refreshes, tableVars
  <1>5. \/ Quiet /\ weekly' = weekly
        \/ Stores /\ weekly' = weekly
        \/ Drops /\ weekly' \in {weekly, Pruned(weekly)}
        \/ /\ UNCHANGED <<today, records>>
           /\ \E from \in Days : dirty' = {d \in dirty : d < from}
                                 /\ weekly' = Pruned(RefreshCostSummary(weekly, DaysPerWeek, from))
    BY <1>3 DEF Quiet, Stores, Drops, Refreshes, tableVars
  <1>6. FreshInv(daily, 1)'
    <2>1. ASSUME NEW p \in {PeriodStart(d, 1) : d \in Days},
                 \A d \in Days : PeriodStart(d, 1) = p => Clean(d)'
          PROVE  On(daily', p) = On(SummaryOf(records', 1), p)
      BY <1>1, <1>2, <1>4, <2>1, FreshStep
    <2> QED  BY <2>1 DEF FreshInv, CleanPeriod
  <1>7. FreshInv(weekly, DaysPerWeek)'
    <2>1. ASSUME NEW p \in {PeriodStart(d, DaysPerWeek) : d \in Days},
                 \A d \in Days : PeriodStart(d, DaysPerWeek) = p => Clean(d)'
          PROVE  On(weekly', p) = On(SummaryOf(records', DaysPerWeek), p)
      BY <1>1, <1>2, <1>5, <2>1, FreshStep
    <2> QED  BY <2>1 DEF FreshInv, CleanPeriod
  <1> QED  BY <1>1, <1>6, <1>7 DEF ViewsInv

\* The types and the invariant hold in every state.
THEOREM ViewsInvariant == Spec => [](TypeOK /\ ViewsInv)
  <1>1. TypeOK /\ ViewsInv /\ [Next]_vars => (TypeOK /\ ViewsInv)'
    BY ViewsStep
  <1> QED  BY ViewsInit, <1>1, PTL DEF Spec

\* Every state has the types of TypeOK: rows, summaries and anomalies name days, keys
\* and units that there are.
THEOREM TypeCorrect == Spec => []TypeOK
  BY ViewsInvariant, PTL

-----------------------------------------------------------------------------
(* What readers see of clean days.                                         *)

\* The summaries of a clean period, selected by Go or by SQL, are what SQL says of the
\* records of its days, unless only some of those have CUR.
LEMMA CleanPeriodAgrees ==
  ASSUME RowsInv, NEW w \in Nat \ {0}, NEW table, TableInv(table, w), FreshInv(table, w),
         NEW p \in {PeriodStart(d, w) : d \in Days}, CleanPeriod(p, w),
         ~MixesSources({d \in Days : PeriodStart(d, w) = p})
  PROVE  /\ Timeseries(table, p) = AggregateCosts(w, p)
         /\ UnitsOf(On(General(table), p)) = AggregateCosts(w, p)
  <1>1. Placed(records) /\ Placed(table) /\ Placed(SummaryOf(records, w))
    <2>1. \A s \in SummaryOf(records, w) : SummaryFits(s, w)
      BY SummariesFit DEF RowsInv
    <2> QED  BY <2>1 DEF RowsInv, FromBill, TableInv, SummaryFits, Summary, Placed
  <1>2. On(table, p) = On(SummaryOf(records, w), p) /\ p \in Days
    BY PeriodDay DEF FreshInv
  <1>3. On(General(table), p) = On(General(SummaryOf(records, w)), p)
    BY <1>1, <1>2, SelectionIsLocal
  <1>4. (\E r \in records : r.type = "cur_line_item" /\ PeriodStart(r.day, w) = p)
          => \A r \in records : r.type = "linked_account_service" /\ PeriodStart(r.day, w) = p
                                  => HasCur(records, r.day)
    <2>1. SUFFICES ASSUME NEW q \in records, q.type = "cur_line_item", PeriodStart(q.day, w) = p,
                          NEW r \in records, r.type = "linked_account_service", PeriodStart(r.day, w) = p,
                          ~HasCur(records, r.day)
                   PROVE  FALSE
      OBVIOUS
    <2>2. q.day \in Days /\ r.day \in Days
      BY <1>1 DEF Placed
    <2>3. HasCur(records, q.day)
      BY <2>1 DEF HasCur
    <2>4. r \in CeRows(r.day, "linked_account_service")
      BY <2>1 DEF CeRows, On
    <2> QED  BY <2>1, <2>2, <2>3, <2>4 DEF MixesSources
  <1>5. UnitsOf(On(General(SummaryOf(records, w)), p)) = AggregateCosts(w, p)
    BY <1>1, <1>4, SummariesSelect DEF AggregateCosts
  <1> QED  BY <1>1, <1>3, <1>5, SelectionsAgree DEF Timeseries

\* A day of its own does not mix sources.
LEMMA CleanDayAgrees ==
  ASSUME TypeOK, ViewsInv, NEW d \in Days, Clean(d)
  PROVE  Timeseries(daily, d) = AggregateCosts(1, d) /\ Overview(d) = AggregateCosts(1, d)
  <1>1. \A e \in Days : PeriodStart(e, 1) = e
    BY OneDayPeriod DEF Days
  <1>2. {e \in Days : PeriodStart(e, 1) = d} = {d} /\ d \in {PeriodStart(e, 1) : e \in Days}
    BY <1>1
  <1>3. CleanPeriod(d, 1) /\ ~MixesSources({d}) /\ 1 \in Nat \ {0}
    BY <1>1 DEF CleanPeriod, MixesSources
  <1> QED  BY <1>2, <1>3, CleanPeriodAgrees DEF ViewsInv, Overview

\* The overviews, in SQL and in Go, and the reports say the same of a clean day.
THEOREM AllReadersAgree == Spec => []ReadersAgree
  <1>1. ASSUME TypeOK, ViewsInv, NEW d \in Days, Clean(d)
        PROVE  /\ Overview(d) = AggregateCosts(1, d)
               /\ Overview(d) = OverviewForProvider("aws", d) \cup OverviewForProvider("oci", d)
    <2>1. Overview(d) = AggregateCosts(1, d)
      BY <1>1, CleanDayAgrees
    <2>2. Placed(daily)
      BY <1>1 DEF ViewsInv, TableInv, SummaryFits, Summary, Placed
    <2>3. Shown(daily, "timeseries", "") = General(daily)
      BY <2>2, SelectionsAgree
    <2> DEFINE rows == On(General(daily), d)
    <2>4. \A r \in rows : Provider(r) = "aws" \/ Provider(r) = "oci"
      BY DEF Provider
    <2>5. UnitsOf(rows) = UnitsOf({r \in rows : Provider(r) = "aws"}) \cup UnitsOf({r \in rows : Provider(r) = "oci"})
      <3> HIDE DEF rows
      <3> QED  BY <2>4 DEF UnitsOf
    <2> QED  BY <2>1, <2>3, <2>5 DEF Overview, OverviewForProvider
  <1>2. TypeOK /\ ViewsInv => ReadersAgree
    BY <1>1 DEF ReadersAgree
  <1> QED  BY ViewsInvariant, <1>2, PTL

\* The weekly dashboards and the weekly reports say the same of a clean week that does
\* not have CUR on some days only.
THEOREM WeeksAgree == Spec => []WeeklyAgreesWithReports
  <1>1. ASSUME TypeOK, ViewsInv, NEW week \in {PeriodStart(d, DaysPerWeek) : d \in Days},
               \A d \in {e \in Days : PeriodStart(e, DaysPerWeek) = week} : Clean(d),
               ~MixesSources({d \in Days : PeriodStart(d, DaysPerWeek) = week})
        PROVE  Timeseries(weekly, week) = AggregateCosts(DaysPerWeek, week)
    <2>1. CleanPeriod(week, DaysPerWeek) /\ DaysPerWeek \in Nat \ {0}
      BY <1>1, ConstantsAssumption DEF CleanPeriod
    <2> QED  BY <1>1, <2>1, CleanPeriodAgrees DEF ViewsInv
  <1>2. TypeOK /\ ViewsInv => WeeklyAgreesWithReports
    BY <1>1 DEF WeeklyAgreesWithReports
  <1> QED  BY ViewsInvariant, <1>2, PTL

\* The day whose movements are shown was billed, and with no less than a quarter of the
\* day before, in the records as in the summaries it was chosen from.
THEOREM MovementDayIsWhole == Spec => []MovementsCompareWholeDays
  <1>1. ASSUME TypeOK, ViewsInv, UsableDays # {}, Clean(MovementDay),
               Clean(MovementDay - 1) \/ MovementDay = 0
        PROVE  /\ VarianceCost(MovementDay) > 0
               /\ VarianceCost(MovementDay - 1) > 0
                    => 4 * VarianceCost(MovementDay) >= VarianceCost(MovementDay - 1)
    <2> DEFINE d == MovementDay
    <2>1. d \in UsableDays
      <3>1. UsableDays \in SUBSET (0..MaxDay) /\ MaxDay \in Nat
        BY ConstantsAssumption DEF UsableDays, Days
      <3> QED  BY <1>1, <3>1, MaxOfBounded DEF MovementDay
    <2>2. d \in Days /\ HasUsableSpend(d) /\ d \in Nat
      BY <2>1 DEF UsableDays, Days
    <2>3. \A e : UnitsOf(On(Shown(daily, "timeseries", ""), e)) = Timeseries(daily, e)
      BY DEF Timeseries
    <2>4. \A r \in General(records) : r.day \in Days /\ PeriodStart(r.day, 1) = r.day
      BY <1>1, OneDayPeriod DEF General, ViewsInv, RowsInv, FromBill, Days
    <2>5. \A e : UnitsOf(On(General(records), e)) = AggregateCosts(1, e)
      <3>1. \A e : On(General(records), e) = {r \in General(records) : PeriodStart(r.day, 1) = e}
        BY <2>4 DEF On
      <3> QED  BY <3>1 DEF AggregateCosts
    <2>6. Timeseries(daily, d) = AggregateCosts(1, d)
      BY <1>1, <2>2, CleanDayAgrees
    <2>7. Timeseries(daily, d - 1) = AggregateCosts(1, d - 1)
      <3>1. CASE d = 0
        <4>1. d - 1 \notin Days
          BY <3>1 DEF Days
        <4>2. \A r \in Shown(daily, "timeseries", "") : r.day \in Days
          <5>1. \A r \in daily : r.day \in Days
            BY <1>1 DEF ViewsInv, TableInv, SummaryFits, Summary
          <5>2. Shown(daily, "timeseries", "") \subseteq daily
            BY DEF Shown
          <5> QED  BY <5>1, <5>2
        <4>3. On(Shown(daily, "timeseries", ""), d - 1) = {} /\ On(General(records), d - 1) = {}
          BY <2>4, <4>1, <4>2 DEF On
        <4> QED  BY <2>3, <2>5, <4>3
      <3>2. CASE d # 0
        <4>1. d - 1 \in Days /\ Clean(d - 1)
          BY <1>1, <2>2, <3>2, ConstantsAssumption DEF Days
        <4> QED  BY <1>1, <4>1, CleanDayAgrees
      <3> QED  BY <3>1, <3>2
    <2> HIDE DEF d
    <2>8. /\ VarianceCost(d) = Cost(Timeseries(daily, d))
          /\ VarianceCost(d - 1) = Cost(Timeseries(daily, d - 1))
      BY <2>5, <2>6, <2>7 DEF VarianceCost
    <2>9. /\ Cost(Timeseries(daily, d)) > 0
          /\ Cost(Timeseries(daily, d - 1)) > 0
               => 4 * Cost(Timeseries(daily, d)) >= Cost(Timeseries(daily, d - 1))
      <3>1. /\ UnitsOf(On(Shown(daily, "timeseries", ""), d)) = Timeseries(daily, d)
            /\ UnitsOf(On(Shown(daily, "timeseries", ""), d - 1)) = Timeseries(daily, d - 1)
        BY <2>3
      <3>2. /\ Cost(UnitsOf(On(Shown(daily, "timeseries", ""), d))) > 0
            /\ Cost(UnitsOf(On(Shown(daily, "timeseries", ""), d - 1))) > 0
                 => 4 * Cost(UnitsOf(On(Shown(daily, "timeseries", ""), d)))
                      >= Cost(UnitsOf(On(Shown(daily, "timeseries", ""), d - 1)))
        BY <2>2, Zenon DEF HasUsableSpend
      <3> QED  BY <3>1, <3>2
    <2>10. VarianceCost(d) > 0 /\ (VarianceCost(d - 1) > 0 => 4 * VarianceCost(d) >= VarianceCost(d - 1))
      BY <2>8, <2>9
    <2> QED  BY <2>10 DEF d
  <1>2. TypeOK /\ ViewsInv => MovementsCompareWholeDays
    BY <1>1 DEF MovementsCompareWholeDays
  <1> QED  BY ViewsInvariant, <1>2, PTL

\* Whatever a dashboard endpoint groups by and filters on, no two of the rows that it
\* adds up count the same line on the same day.
THEOREM NoLineCountedTwice == Spec => []NothingCountedTwice
  <1>1. ASSUME NEW table, NEW w, TableInv(table, w), NEW r \in table, NEW s \in table, r # s,
               NEW u \in r.units \cap s.units
        PROVE  /\ r.type # s.type /\ r.day = s.day
               /\ r.type = "oci" <=> s.type = "oci"
    <2>1. /\ PeriodStart(u[1], w) = r.day /\ Key(r.type, u[2]) = r.key /\ BilledBy(r.type, u[2])
          /\ PeriodStart(u[1], w) = s.day /\ Key(s.type, u[2]) = s.key /\ BilledBy(s.type, u[2])
      BY <1>1 DEF TableInv, SummaryFits
    <2>2. r.type = s.type => r = s
      BY <1>1, <2>1 DEF TableInv
    <2> QED  BY <1>1, <2>1, <2>2 DEF BilledBy
  <1>2. ASSUME NEW table, NEW w, TableInv(table, w), NEW dim, NEW region PROVE Disjoint(Shown(table, dim, region))
    <2>1. SUFFICES ASSUME NEW r \in Shown(table, dim, region), NEW s \in Shown(table, dim, region), r # s,
                          NEW u \in r.units \cap s.units
                   PROVE  FALSE
      BY DEF Disjoint
    <2>2. /\ r \in table /\ RowMatchesView(r, dim, region, CurPeriods(table))
          /\ s \in table /\ RowMatchesView(s, dim, region, CurPeriods(table))
      BY <2>1 DEF Shown
    <2>3. r.type # s.type /\ r.day = s.day /\ (r.type = "oci" <=> s.type = "oci")
      BY <1>1, <1>2, <2>1, <2>2
    <2>4. Provider(r) = "aws" /\ Provider(s) = "aws"
      BY <2>3 DEF Provider
    <2>5. \A x \in table : x.type = "cur_line_item" => x.day \in CurPeriods(table)
      BY DEF CurPeriods
    <2> QED  BY <2>2, <2>3, <2>4, <2>5 DEF RowMatchesView
  <1>3. ASSUME NEW table, NEW w, TableInv(table, w), NEW type PROVE Disjoint({r \in GrafanaRows(table) : r.type = type})
    BY <1>1, <1>3 DEF Disjoint, GrafanaRows
  <1>4. ViewsInv => NothingCountedTwice
    BY <1>2, <1>3 DEF ViewsInv, NothingCountedTwice
  <1> QED  BY ViewsInvariant, <1>4, PTL

\* A region offered as a filter has the same costs in all three views of it.
THEOREM RegionFilterIsConsistent == Spec => []RegionFilterAgrees
  <1>1. ASSUME NEW region \in FilterOptions("region")
        PROVE  LET costs == Breakdown("region", "", region)
               IN /\ UNION {Breakdown("service", region, name) : name \in Names("service")} = costs
                  /\ Drilldown(region) = costs
    <2>1. region # ""
      BY DEF FilterOptions, DimensionValue
    <2>2. \A r : RowMatchesView(r, "service", region, CurPeriods(daily))
                   <=> RowMatchesView(r, "region", "", CurPeriods(daily))
      BY <2>1 DEF RowMatchesView, RegionView
    <2>3. \A r : RowMatchesView(r, "region", region, CurPeriods(daily))
                   <=> RowMatchesView(r, "region", "", CurPeriods(daily))
      BY DEF RowMatchesView, RegionView
    <2> DEFINE rows == {r \in Shown(daily, "region", "") : DimensionValue(r, "region") = region}
    <2>4. Shown(daily, "service", region) = rows
      BY <2>1, <2>2 DEF Shown
    <2>5. Shown(daily, "region", region) = rows
      BY <2>1, <2>3 DEF Shown
    <2>6. \A r \in rows : DimensionValue(r, "service") \in Names("service")
      BY DEF Names, Shown
    <2>7. Breakdown("region", "", region) = UnitsOf(rows)
      BY DEF Breakdown
    <2> HIDE DEF rows
    <2>8. \A name : Breakdown("service", region, name) = UnitsOf({r \in rows : DimensionValue(r, "service") = name})
      BY <2>4 DEF Breakdown
    <2>9. UNION {Breakdown("service", region, name) : name \in Names("service")} = UnitsOf(rows)
      BY <2>6, <2>8 DEF UnitsOf
    <2> QED  BY <2>5, <2>7, <2>9 DEF Drilldown
  <1>2. RegionFilterAgrees
    BY <1>1 DEF RegionFilterAgrees
  <1> QED  BY <1>2, PTL

-----------------------------------------------------------------------------
(* The tables are a materialized view.                                     *)

\* What a clean day keeps on a step that does not touch it.
LEMMA ViewKeepsDay ==
  ASSUME RowsInv, RowsInv', NEW d \in Days
  PROVE  /\ On(records, d) = On(records', d) => AggregateCosts(1, d)' = AggregateCosts(1, d)
         /\ \A a, b : Placed(a) /\ Placed(b) /\ On(a, d) = On(b, d) => Timeseries(a, d) = Timeseries(b, d)
  <1>1. Placed(records) /\ Placed(records')
    BY DEF RowsInv, Placed, FromBill
  <1>2. ASSUME NEW rows, Placed(rows)
        PROVE  UnitsOf({r \in General(rows) : PeriodStart(r.day, 1) = d}) = UnitsOf(On(General(rows), d))
    <2>1. \A r \in General(rows) : PeriodStart(r.day, 1) = r.day
      BY <1>2, OneDayPeriod DEF General, Placed, Days
    <2>2. {r \in General(rows) : PeriodStart(r.day, 1) = d} = On(General(rows), d)
      BY <2>1 DEF On
    <2> QED  BY <2>2
  <1>3. ASSUME On(records, d) = On(records', d) PROVE AggregateCosts(1, d)' = AggregateCosts(1, d)
    <2>1. On(General(records), d) = On(General(records'), d)
      BY <1>1, <1>3, SelectionIsLocal
    <2> QED  BY <1>1, <1>2, <2>1 DEF AggregateCosts
  <1>4. ASSUME NEW a, NEW b, Placed(a), Placed(b), On(a, d) = On(b, d) PROVE Timeseries(a, d) = Timeseries(b, d)
    <2>1. Shown(a, "timeseries", "") = General(a) /\ Shown(b, "timeseries", "") = General(b)
      BY <1>4, SelectionsAgree
    <2>2. On(General(a), d) = On(General(b), d)
      BY <1>4, SelectionIsLocal
    <2> QED  BY <2>1, <2>2 DEF Timeseries
  <1> QED  BY <1>3, <1>4

\* Dashboards and reports agree on every clean day.
CleanDaysAgree == \A d \in Days : Clean(d) => Timeseries(daily, d) = AggregateCosts(1, d)

\* The tables of the code are the view of MaterializedView: its initial states are
\* initial there, and every step of it is a change, a refresh or no step there.
THEOREM TablesAreAView == Spec => ImplementsView
  <1> DEFINE source == [d \in Days |-> AggregateCosts(1, d)]
             view   == [d \in Days |-> Timeseries(daily, d)]
             stale  == {d \in Days : ~Clean(d)}
             Change(days) ==
               /\ stale' = stale \cup days
               /\ \A d \in Days \ stale' : source'[d] = source[d] /\ view'[d] = view[d]
             Refresh(days) ==
               /\ stale' = stale \ days
               /\ UNCHANGED source
               /\ \A d \in days : view'[d] = source[d]
               /\ \A d \in Days \ (days \cup stale) : view'[d] = view[d]
  <1>1. Init => View!Init
    <2> SUFFICES ASSUME Init PROVE View!Init
      OBVIOUS
    <2>1. \A d : AggregateCosts(1, d) = {} /\ Timeseries(daily, d) = {}
      BY DEF Init, AggregateCosts, Timeseries, General, Shown, On, UnitsOf
    <2> QED  BY <2>1 DEF View!Init
  <1>2. ASSUME TypeOK, ViewsInv, TypeOK', ViewsInv', CleanDaysAgree', [Next]_vars
        PROVE  \E days \in SUBSET Days : Change(days) \/ Refresh(days)
    <2>1. /\ \A d \in Days : source[d] = AggregateCosts(1, d) /\ view[d] = Timeseries(daily, d)
          /\ \A d \in Days : source'[d] = AggregateCosts(1, d)' /\ view'[d] = Timeseries(daily', d)
      BY DEF Timeseries
    <2>2. RowsInv /\ RowsInv' /\ Placed(daily) /\ Placed(daily')
      BY <1>2 DEF ViewsInv, TableInv, SummaryFits, Summary, Placed
    <2>3. ASSUME NEW d \in Days, On(records, d) = On(records', d) PROVE source'[d] = source[d]
      BY <2>1, <2>2, <2>3, ViewKeepsDay
    <2>4. ASSUME NEW d \in Days, On(daily, d) = On(daily', d) PROVE view'[d] = view[d]
      BY <2>1, <2>2, <2>4, ViewKeepsDay
    <2>5. /\ stale = {d \in Days : d \in dirty \/ d < today - Retention}
          /\ stale' = {d \in Days : d \in dirty' \/ d < today' - Retention}
      BY DEF Clean, Expired
    <2>6. /\ today \in Int /\ today' \in Int /\ Retention \in Int /\ \A d \in Days : d \in Int
      BY <1>2, ConstantsAssumption DEF TypeOK, Days
    <2> DEFINE old == stale
               new == stale'
    <2>7. ASSUME stale \subseteq stale',
                 \A d \in Days \ stale' : On(records, d) = On(records', d) /\ On(daily, d) = On(daily', d)
          PROVE  \E days \in SUBSET Days : Change(days)
      <3>1. stale' \in SUBSET Days
        BY <2>5
      <3>2. stale' = stale \cup stale'
        BY <2>7
      <3>3. \A d \in Days \ stale' : source'[d] = source[d] /\ view'[d] = view[d]
        BY <2>3, <2>4, <2>7
      <3>4. Change(stale')
        BY <3>2, <3>3
      <3> QED  BY <3>1, <3>4
    <2> HIDE DEF Change, Refresh, source, view, stale
    <2>8. CASE Quiet
      <3>1. stale \subseteq stale'
        BY <2>5, <2>6, <2>8 DEF Quiet
      <3>2. records' = records /\ daily' = daily
        BY <2>8 DEF Quiet, tableVars
      <3> QED  BY <2>7, <3>1, <3>2
    <2>9. CASE Stores
      <3>1. stale \subseteq stale' /\ daily' = daily
        BY <2>5, <2>9 DEF Stores, tableVars
      <3>2. ASSUME NEW d \in Days \ stale' PROVE On(records, d) = On(records', d)
        BY <2>5, <2>9, <3>2 DEF Stores, Changed
      <3> QED  BY <2>7, <3>1, <3>2
    <2>10. CASE Drops
      <3>1. stale \subseteq stale'
        BY <2>5, <2>10 DEF Drops
      <3>2. ASSUME NEW d \in Days \ stale' PROVE On(records, d) = On(records', d) /\ On(daily, d) = On(daily', d)
        <4>1. ~Expired(d) /\ records' \in {records, Pruned(records)} /\ daily' \in {daily, Pruned(daily)}
          BY <2>5, <2>10, <3>2 DEF Drops, Expired, tableVars
        <4> QED  BY <4>1, PrunedDay
      <3> QED  BY <2>7, <3>1, <3>2
    <2>11. CASE Refreshes
      <3>1. PICK from \in Days : /\ daily' = Pruned(RefreshCostSummary(daily, 1, from))
                                 /\ dirty' = {d \in dirty : d < from}
                                 /\ today' = today /\ records' = records
        BY <2>11 DEF Refreshes
      <3> DEFINE days == {d \in Days : ~(d < from) /\ ~(d < today - Retention)}
      <3>2. stale' = stale \ days
        BY <2>5, <2>6, <3>1
      <3>3. \A d \in Days : source'[d] = source[d]
        BY <2>3, <3>1
      <3>4. \A d \in days : view'[d] = source[d]
        <4>1. ASSUME NEW d \in days PROVE Clean(d)'
          BY <2>6, <3>1 DEF Clean, Expired
        <4> QED  BY <1>2, <2>1, <3>3, <4>1 DEF CleanDaysAgree, Timeseries
      <3>5. ASSUME NEW d \in Days \ (days \cup stale) PROVE view'[d] = view[d]
        <4>1. d < from /\ ~Expired(d)
          BY <2>5, <3>5 DEF Expired
        <4>2. PeriodStart(from, 1) = from
          BY OneDayPeriod DEF Days
        <4>3. On(RefreshCostSummary(daily, 1, from), d) = On(daily, d)
          <5>1. ~(d >= from)
            BY <2>6, <4>1
          <5> QED  BY <4>1, <4>2, <5>1 DEF RefreshCostSummary, On
        <4>4. On(daily', d) = On(daily, d)
          BY <3>1, <4>1, <4>3, PrunedDay
        <4> QED  BY <2>4, <4>4
      <3>6. UNCHANGED source
        BY <3>3 DEF source
      <3>7. Refresh(days)
        BY <3>2, <3>4, <3>5, <3>6 DEF Refresh
      <3> QED  BY <3>7
    <2> QED  BY <1>2, <2>2, <2>7, <2>8, <2>9, <2>10, <2>11, StepKinds
  <1>3. TypeOK /\ ViewsInv => CleanDaysAgree
    BY CleanDayAgrees DEF CleanDaysAgree
  <1>4. /\ TypeOK /\ ViewsInv /\ (TypeOK /\ ViewsInv)' /\ CleanDaysAgree' /\ [Next]_vars
             => [View!Next]_(View!vvars)
    BY <1>2 DEF View!Next, View!Change, View!Refresh, View!vvars
  <1> QED  BY ViewsInvariant, <1>1, <1>3, <1>4, PTL DEF Spec, ImplementsView, View!Spec

-----------------------------------------------------------------------------
(* The anomalies table.                                                    *)

\* The flags of a day depend on the selected rows of that day and its baseline's.
LEMMA FlagsAreLocal ==
  ASSUME NEW a, NEW b, NEW d \in Days, NEW k, NEW days \in SUBSET Days,
         \A r \in a \cup b : r.day \in Days,
         \A e \in days \cup {d} : On(a, e) = On(b, e)
  PROVE  Flags(a, k, d, days) = Flags(b, k, d, days)
  <1>1. ASSUME NEW e, On(a, e) = On(b, e) PROVE CostOn(a, k, e) = CostOn(b, k, e)
    <2>1. \A rows : On(OfSeries(rows, k), e) = {r \in On(rows, e) : r.key = k}
      BY DEF On, OfSeries
    <2> QED  BY <1>1, <2>1 DEF CostOn
  <1>2. CostOn(a, k, d) = CostOn(b, k, d)
    BY <1>1
  <1>3. CostsOn(a, k, days) = CostsOn(b, k, days)
    <2>1. \A e \in days : CostOn(a, k, e) = CostOn(b, k, e)
      BY <1>1
    <2> QED  BY <2>1, Zenon DEF CostsOn
  <1> QED  BY <1>2, <1>3, Zenon DEF Flags

\* The days of a series depend on the rows of those days.
LEMMA TrailingIsLocal ==
  ASSUME NEW a, NEW b, NEW d \in Days, NEW k,
         \A r \in a \cup b : r.day \in Days,
         \A e \in Days : d - BaselineDays <= e /\ e <= d => On(a, e) = On(b, e)
  PROVE  TrailingDays(a, k, d) = TrailingDays(b, k, d) /\ TrailingDays(a, k, d) \in SUBSET Days
  <1>1. \A rows, e : e \in Seen(rows, k) <=> \E r \in On(rows, e) : r.key = k
    BY DEF Seen, OfSeries, On
  <1>2. Seen(a, k) \subseteq Days /\ Seen(b, k) \subseteq Days
    BY DEF Seen, OfSeries
  <1>3. \A e \in Days : d - BaselineDays <= e /\ e < d => (e \in Seen(a, k) <=> e \in Seen(b, k))
    <2>1. \A e \in Days : e < d => e <= d
      BY DEF Days
    <2> QED  BY <1>1, <2>1
  <1> QED  BY <1>2, <1>3 DEF TrailingDays

\* What the rule flags on a day of a table.
FlagsOn(rows, d) == UNION {Flags(rows, k, d, TrailingDays(rows, k, d)) : k \in {r.key : r \in On(rows, d)}}

\* What a table has as series on a day depends on its rows of that day.
LEMMA SeriesAreLocal ==
  ASSUME NEW rows, NEW d
  PROVE  On(DashboardSeries(rows), d) = DashboardSeries(On(rows, d))
  <1>1. ASSUME NEW q \in On(DashboardSeries(rows), d) PROVE q \in DashboardSeries(On(rows, d))
    <2>1. PICK r \in rows : q = [day |-> r.day, key |-> AllCategories(r.key), units |-> r.units]
      BY DEF On, DashboardSeries
    <2>2. r.day = d
      BY <2>1 DEF On
    <2> QED  BY <2>1, <2>2 DEF On, DashboardSeries
  <1>2. ASSUME NEW q \in DashboardSeries(On(rows, d)) PROVE q \in On(DashboardSeries(rows), d)
    BY DEF On, DashboardSeries
  <1> QED  BY <1>1, <1>2

\* The rule takes each day by itself, from wherever it starts.
LEMMA AnomaliesOfADay ==
  ASSUME NEW table, NEW from \in Days, NEW d \in Days, from <= d
  PROVE  On(AnomaliesOf(table, from), d) = FlagsOn(DashboardSeries(General(table)), d)
  <1> DEFINE rows == DashboardSeries(General(table))
             F(k, e) == Flags(rows, k, e, TrailingDays(rows, k, e))
  <1>1. \A k, e : \A x \in F(k, e) : x.day = e
    BY DEF Flags, Anomaly
  <1>2. AnomaliesOf(table, from) = UNION {F(r.key, r.day) : r \in {s \in rows : s.day >= from}}
    BY DEF AnomaliesOf
  <1>3. FlagsOn(rows, d) = UNION {F(k, d) : k \in {r.key : r \in On(rows, d)}}
    BY DEF FlagsOn
  <1>4. d >= from
    BY DEF Days
  <1> HIDE DEF rows, F
  <1>5. ASSUME NEW x \in On(AnomaliesOf(table, from), d) PROVE x \in FlagsOn(rows, d)
    <2>1. PICK r \in rows : x \in F(r.key, r.day)
      BY <1>2 DEF On
    <2>2. r \in On(rows, d)
      BY <1>1, <2>1 DEF On
    <2> QED  BY <1>3, <2>1, <2>2 DEF On
  <1>6. ASSUME NEW x \in FlagsOn(rows, d) PROVE x \in On(AnomaliesOf(table, from), d)
    <2>1. PICK r \in On(rows, d) : x \in F(r.key, d)
      BY <1>3
    <2>2. r \in rows /\ r.day = d
      BY <2>1 DEF On
    <2> QED  BY <1>1, <1>2, <1>4, <2>1, <2>2 DEF On
  <1> QED  BY <1>5, <1>6 DEF rows

\* Two tables with the same rows on a day and the days of its baseline have the same
\* anomalies on it.
LEMMA AnomaliesAreLocal ==
  ASSUME NEW a, NEW b, Placed(a), Placed(b), NEW d \in Days, NEW f \in Days, NEW g \in Days,
         f <= d, g <= d,
         \A e \in Days : d - BaselineDays <= e /\ e <= d => On(a, e) = On(b, e)
  PROVE  On(AnomaliesOf(a, f), d) = On(AnomaliesOf(b, g), d)
  <1> DEFINE A == DashboardSeries(General(a))
             B == DashboardSeries(General(b))
  <1>1. \A r \in A \cup B : r.day \in Days
    <2>1. \A r \in General(a) \cup General(b) : r.day \in Days
      BY SelectionsAgree DEF Placed
    <2> QED  BY <2>1 DEF DashboardSeries
  <1>2. \A e \in Days : d - BaselineDays <= e /\ e <= d => On(A, e) = On(B, e)
    <2>1. \A e \in Days : d - BaselineDays <= e /\ e <= d => On(General(a), e) = On(General(b), e)
      BY SelectionIsLocal
    <2> QED  BY <2>1, SeriesAreLocal
  <1>3. On(AnomaliesOf(a, f), d) = FlagsOn(A, d) /\ On(AnomaliesOf(b, g), d) = FlagsOn(B, d)
    BY AnomaliesOfADay
  <1> HIDE DEF A, B
  <1>4. d - BaselineDays <= d /\ d <= d /\ \A e \in Days : e < d => e <= d
    BY ConstantsAssumption DEF Days
  <1>5. ASSUME NEW k
        PROVE  Flags(A, k, d, TrailingDays(A, k, d)) = Flags(B, k, d, TrailingDays(B, k, d))
    <2>1. TrailingDays(A, k, d) = TrailingDays(B, k, d) /\ TrailingDays(A, k, d) \in SUBSET Days
      BY <1>1, <1>2, TrailingIsLocal
    <2>2. \A e \in TrailingDays(A, k, d) \cup {d} : d - BaselineDays <= e /\ e <= d /\ e \in Days
      BY <1>4, <2>1 DEF TrailingDays
    <2>3. \A e \in TrailingDays(A, k, d) \cup {d} : On(A, e) = On(B, e)
      BY <1>2, <2>2
    <2> QED  BY <1>1, <2>1, <2>3, FlagsAreLocal
  <1>6. On(A, d) = On(B, d)
    BY <1>2, <1>4
  <1>7. FlagsOn(A, d) = FlagsOn(B, d)
    BY <1>5, <1>6 DEF FlagsOn
  <1> QED  BY <1>3, <1>7

\* The anomalies of a day with a whole baseline are those of the daily summaries.
AnomaliesInv == \A d \in Days : BaselineKept(d) => On(anomalies, d) = On(AnomaliesOf(daily, 0), d)

\* A step keeps it: it leaves a day and its baseline as they are, or computes the
\* anomalies of the day again from the new summaries.
LEMMA AnomaliesStep ==
  ASSUME TypeOK, ViewsInv, TypeOK', ViewsInv', AnomaliesInv, [Next]_vars
  PROVE  AnomaliesInv'
  <1>1. SUFFICES ASSUME NEW d \in Days, BaselineKept(d)'
                 PROVE  On(anomalies', d) = On(AnomaliesOf(daily, 0)', d)
    BY DEF AnomaliesInv, On
  <1>2. Quiet \/ Stores \/ Refreshes \/ Drops
    BY StepKinds DEF ViewsInv
  <1>3. /\ today \in Nat /\ today' \in Nat /\ Retention \in Nat /\ BaselineDays \in Nat
        /\ \A e \in Days : e \in Nat
        /\ 0 \in Days /\ 0 <= d /\ d <= d /\ d - BaselineDays <= d
    BY ConstantsAssumption DEF TypeOK, Days
  <1>4. Placed(daily) /\ Placed(daily')
    BY DEF ViewsInv, TableInv, SummaryFits, Summary, Placed
  <1>5. today <= today'
    BY <1>2, <1>3 DEF Quiet, Stores, Refreshes, Drops
  <1>6. \A e \in Days : d - BaselineDays <= e /\ e <= d => ~Expired(e)
    BY <1>1, <1>3, <1>5 DEF BaselineKept, Expired
  <1>7. BaselineKept(d) /\ ~Expired(d)
    BY <1>3, <1>6 DEF BaselineKept
  <1>8. On(anomalies, d) = On(AnomaliesOf(daily, 0), d)
    BY <1>7 DEF AnomaliesInv
  <1>9. AnomaliesOf(daily, 0)' = AnomaliesOf(daily', 0)
    BY DEF AnomaliesOf, DashboardSeries, General, Flags, TrailingDays
  <1>10. ASSUME On(anomalies', d) = On(anomalies, d),
                \A e \in Days : d - BaselineDays <= e /\ e <= d => On(daily, e) = On(daily', e)
         PROVE  On(anomalies', d) = On(AnomaliesOf(daily', 0), d)
    <2>1. On(AnomaliesOf(daily, 0), d) = On(AnomaliesOf(daily', 0), d)
      BY <1>3, <1>4, <1>10, AnomaliesAreLocal
    <2> QED  BY <1>8, <1>10, <2>1
  <1>11. CASE Quiet \/ Stores
    <2>1. anomalies' = anomalies /\ daily' = daily
      BY <1>11 DEF Quiet, Stores, tableVars
    <2> QED  BY <1>9, <1>10, <2>1
  <1>12. CASE Drops
    <2>1. anomalies' \in {anomalies, Pruned(anomalies)} /\ daily' \in {daily, Pruned(daily)}
      BY <1>12 DEF Drops, tableVars
    <2>2. \A e \in Days : d - BaselineDays <= e /\ e <= d => On(daily, e) = On(daily', e)
      BY <1>6, <2>1, PrunedDay
    <2>3. On(anomalies', d) = On(anomalies, d)
      BY <1>7, <2>1, PrunedDay
    <2> QED  BY <1>9, <1>10, <2>2, <2>3
  <1>13. CASE Refreshes
    <2>1. PICK from \in Days :
            /\ daily' = Pruned(RefreshCostSummary(daily, 1, from))
            /\ anomalies' = Pruned(RefreshAnomalies(RefreshCostSummary(daily, 1, from), from))
      BY <1>13 DEF Refreshes
    <2> DEFINE new == RefreshCostSummary(daily, 1, from)
    <2>2. Placed(new)
      <3>1. TableInv(new, 1)
        BY RefreshTable DEF ViewsInv, RowsInv
      <3> QED  BY <3>1 DEF TableInv, SummaryFits, Summary, Placed
    <2>3. \A e \in Days : e < from => On(new, e) = On(daily, e)
      <3>1. PeriodStart(from, 1) = from /\ \A e \in Days : e < from => ~(e >= from)
        BY OneDayPeriod DEF Days
      <3> QED  BY <3>1 DEF RefreshCostSummary, On
    <2> HIDE DEF new
    <2>4. \A e \in Days : d - BaselineDays <= e /\ e <= d => On(new, e) = On(daily', e)
      BY <1>6, <2>1, PrunedDay DEF new
    <2>5. On(anomalies', d) = On(RefreshAnomalies(new, from), d)
      BY <1>7, <2>1, PrunedDay DEF new
    <2>6. \A a \in AnomaliesOf(new, from) : a.day >= from
      BY <2>2, AnomaliesOnDays DEF Placed
    <2>7. CASE from <= d
      <3>1. ~(d < from)
        BY <1>3, <2>7
      <3>2. On(RefreshAnomalies(new, from), d) = On(AnomaliesOf(new, from), d)
        BY <3>1 DEF RefreshAnomalies, On
      <3>3. On(AnomaliesOf(new, from), d) = On(AnomaliesOf(daily', 0), d)
        BY <1>3, <1>4, <2>2, <2>4, <2>7, AnomaliesAreLocal
      <3> QED  BY <1>9, <2>5, <3>2, <3>3
    <2>8. CASE ~(from <= d)
      <3>1. d < from /\ ~(d >= from)
        BY <1>3, <2>8
      <3>2. On(RefreshAnomalies(new, from), d) = On(anomalies, d)
        BY <2>6, <3>1 DEF RefreshAnomalies, On
      <3>3. \A e \in Days : d - BaselineDays <= e /\ e <= d => On(daily, e) = On(daily', e)
        <4>1. \A e \in Days : e <= d => e < from
          BY <1>3, <3>1
        <4> QED  BY <2>3, <2>4, <4>1
      <3> QED  BY <1>9, <1>10, <2>5, <3>2, <3>3
    <2> QED  BY <2>7, <2>8
  <1> QED  BY <1>2, <1>11, <1>12, <1>13

\* The anomalies table is what its rule says of the summaries beside it, on every day
\* with a whole baseline, whatever was corrected, refreshed or dropped before.
THEOREM AnomaliesAreOfSummaries == Spec => []AnomaliesFit
  <1>1. Init => AnomaliesInv
    <2>1. ASSUME Init PROVE anomalies = {} /\ AnomaliesOf(daily, 0) = {}
      BY <2>1 DEF Init, AnomaliesOf, DashboardSeries, General
    <2> QED  BY <2>1 DEF AnomaliesInv
  <1>2. TypeOK /\ ViewsInv /\ (TypeOK /\ ViewsInv)' /\ AnomaliesInv /\ [Next]_vars => AnomaliesInv'
    BY AnomaliesStep
  <1>3. ASSUME TypeOK, ViewsInv, AnomaliesInv PROVE AnomaliesFit
    <2>1. \A a \in anomalies : a.day \in Days
      BY <1>3 DEF TypeOK
    <2>2. \A s \in daily : s.day \in Days
      BY <1>3 DEF ViewsInv, TableInv, SummaryFits, Summary
    <2>3. \A a \in AnomaliesOf(daily, 0) : a.day \in Days
      BY <2>2, AnomaliesOnDays
    <2>4. \A a : a.day \in Days /\ BaselineKept(a.day)
                   => (a \in anomalies <=> a \in AnomaliesOf(daily, 0))
      BY <1>3 DEF AnomaliesInv, On
    <2> QED  BY <2>1, <2>3, <2>4 DEF AnomaliesFit
  <1>4. TypeOK /\ ViewsInv /\ AnomaliesInv => AnomaliesFit
    BY <1>3
  <1> QED  BY ViewsInvariant, <1>1, <1>2, <1>4, PTL DEF Spec

\* On a series without a gap the last rows before a day it has are the days before it.
LEMMA RowsAreDays ==
  ASSUME NEW rows, NEW k, Seen(rows, k) \subseteq Days, Gapless(rows, k),
         NEW d \in Seen(rows, k), NEW from \in Days, from <= d
  PROVE  TrailingRows(rows, k, d, from) = TrailingDays(rows, k, d)
  <1> DEFINE seen   == Seen(rows, k)
             before == {b \in seen : from - BaselineDays <= b /\ b < d}
             Later(b) == {c \in before : c > b}
  <1>1. BaselineDays \in Nat \ {0} /\ d \in Nat /\ from \in Nat /\ \A e \in seen : e \in Nat
    BY ConstantsAssumption DEF Days
  <1>2. /\ TrailingRows(rows, k, d, from) = {b \in before : Cardinality(Later(b)) < BaselineDays}
        /\ TrailingDays(rows, k, d) = {b \in seen : d - BaselineDays <= b /\ b < d}
    BY DEF TrailingRows, TrailingDays
  <1>3. ASSUME NEW b \in seen PROVE Later(b) \subseteq (b + 1)..(d - 1)
    <2>1. SUFFICES ASSUME NEW c \in seen, c < d, c > b PROVE c \in (b + 1)..(d - 1)
      OBVIOUS
    <2>2. b \in Nat /\ c \in Nat /\ d \in Nat
      BY <1>1
    <2> HIDE DEF seen
    <2> QED  BY <2>1, <2>2
  <1>4. ASSUME NEW b \in seen, d - BaselineDays <= b, b < d
        PROVE  b \in before /\ Cardinality(Later(b)) < BaselineDays
    <2>1. b \in before
      BY <1>1, <1>4
    <2>2. /\ IsFiniteSet((b + 1)..(d - 1)) /\ Cardinality((b + 1)..(d - 1)) < BaselineDays
          /\ Cardinality((b + 1)..(d - 1)) \in Nat
      <3>1. b + 1 \in Int /\ d - 1 \in Int
        BY <1>1
      <3> DEFINE m == b + 1
                 n == d - 1
      <3>2. IsFiniteSet(m..n) /\ Cardinality(m..n) = IF m > n THEN 0 ELSE n - m + 1
        <4> HIDE DEF m, n
        <4>1. m \in Int /\ n \in Int
          BY <3>1 DEF m, n
        <4> QED  BY <4>1, FS_Interval
      <3> QED  BY <1>1, <1>4, <3>2
    <2>3. Cardinality(Later(b)) <= Cardinality((b + 1)..(d - 1)) /\ Cardinality(Later(b)) \in Nat
      <3>1. IsFiniteSet(Later(b)) /\ Cardinality(Later(b)) <= Cardinality((b + 1)..(d - 1))
        BY <1>3, <2>2, FS_Subset
      <3> QED  BY <3>1, FS_CardinalityType
    <2> HIDE DEF Later, before
    <2> QED  BY <1>1, <2>1, <2>2, <2>3
  <1>5. ASSUME NEW b \in before, Cardinality(Later(b)) < BaselineDays PROVE d - BaselineDays <= b
    <2> DEFINE m == d - BaselineDays
               n == d - 1
    <2>1. SUFFICES ASSUME b < m PROVE FALSE
      BY <1>1
    <2>2. m..n \subseteq Later(b)
      <3>1. SUFFICES ASSUME NEW c \in m..n PROVE c \in Later(b)
        OBVIOUS
      <3>2. c \in Nat /\ b < c /\ c < d /\ from - BaselineDays <= c
        BY <1>1, <2>1, <3>1
      <3>3. c \in seen
        <4>1. c \in Days
          BY <1>1, <3>2, ConstantsAssumption DEF Days
        <4>2. (\E e \in seen : e < c) /\ (\E e \in seen : e > c)
          BY <1>1, <3>2
        <4> QED  BY <4>1, <4>2 DEF Gapless
      <3> QED  BY <1>1, <3>2, <3>3
    <2>3. IsFiniteSet(Later(b))
      <3>1. b + 1 \in Int /\ d - 1 \in Int
        BY <1>1
      <3>2. IsFiniteSet((b + 1)..(d - 1))
        BY <3>1, FS_Interval
      <3> QED  BY <1>3, <3>2, FS_Subset
    <2>4. m \in Int /\ n \in Int /\ n - m + 1 = BaselineDays /\ ~(m > n)
      BY <1>1
    <2> HIDE DEF m, n
    <2>5. Cardinality(m..n) = BaselineDays
      BY <2>4, FS_Interval
    <2>6. Cardinality(m..n) <= Cardinality(Later(b)) /\ Cardinality(Later(b)) \in Nat
      BY <2>2, <2>3, FS_Subset, FS_CardinalityType
    <2> HIDE DEF Later
    <2> QED  BY <1>1, <1>5, <2>5, <2>6
  <1> HIDE DEF Later, before, seen
  <1>6. \A b \in before : b \in seen /\ b < d
    BY DEF before
  <1> QED  BY <1>2, <1>4, <1>5, <1>6

\* The reports' series of a selected summary and the dashboards' have the same units on
\* the day and its baseline, where these have one category and one currency.
LEMMA SeriesAgree ==
  ASSUME NEW rows, NEW r \in rows, OneSeries(rows, r), NEW e,
         r.day - BaselineDays <= e, e <= r.day
  PROVE  LET A == On(OfSeries(ReportSeries(rows), AllCurrencies(r.key)), e)
             B == On(OfSeries(DashboardSeries(rows), AllCategories(r.key)), e)
         IN UnitsOf(A) = UnitsOf(B) /\ (A = {} <=> B = {})
  <1> DEFINE A == On(OfSeries(ReportSeries(rows), AllCurrencies(r.key)), e)
             B == On(OfSeries(DashboardSeries(rows), AllCategories(r.key)), e)
             S == {s \in rows : s.day = e /\ s.key = r.key}
             ForReport(s) == [day |-> s.day, key |-> AllCurrencies(s.key), units |-> s.units]
             ForTable(s) == [day |-> s.day, key |-> AllCategories(s.key), units |-> s.units]
  <1>1. A = {ForReport(s) : s \in S}
    <2>1. ASSUME NEW q \in A PROVE q \in {ForReport(s) : s \in S}
      <3>1. PICK s \in rows : q = ForReport(s)
        BY DEF On, OfSeries, ReportSeries
      <3>2. s.day = e /\ AllCurrencies(s.key) = AllCurrencies(r.key)
        BY <3>1 DEF On, OfSeries
      <3>3. s.key = r.key
        BY <3>2 DEF OneSeries
      <3> QED  BY <3>1, <3>2, <3>3
    <2>2. ASSUME NEW s \in S PROVE ForReport(s) \in A
      BY DEF On, OfSeries, ReportSeries
    <2> QED  BY <2>1, <2>2
  <1>2. B = {ForTable(s) : s \in S}
    <2>1. ASSUME NEW q \in B PROVE q \in {ForTable(s) : s \in S}
      <3>1. PICK s \in rows : q = ForTable(s)
        BY DEF On, OfSeries, DashboardSeries
      <3>2. s.day = e /\ AllCategories(s.key) = AllCategories(r.key)
        BY <3>1 DEF On, OfSeries
      <3>3. s.key = r.key
        BY <3>2 DEF OneSeries
      <3> QED  BY <3>1, <3>2, <3>3
    <2>2. ASSUME NEW s \in S PROVE ForTable(s) \in B
      BY DEF On, OfSeries, DashboardSeries
    <2> QED  BY <2>1, <2>2
  <1>3. \A s : ForReport(s).units = s.units /\ ForTable(s).units = s.units
    OBVIOUS
  <1> HIDE DEF A, B, S, ForReport, ForTable
  <1>4. {q.units : q \in A} = {s.units : s \in S} /\ {q.units : q \in B} = {s.units : s \in S}
    BY <1>1, <1>2, <1>3
  <1>5. (A = {} <=> S = {}) /\ (B = {} <=> S = {})
    BY <1>1, <1>2
  <1>6. UnitsOf(A) = UnitsOf(B)
    BY <1>4 DEF UnitsOf
  <1> QED  BY <1>5, <1>6 DEF A, B

\* What flags of one series and day say of it is what the rule says.
LEMMA FindingsAreFlags ==
  ASSUME NEW flags, NEW rows, NEW k, NEW d, NEW days,
         \A x : x \in flags /\ x.key = k /\ x.day = d <=> x \in Flags(rows, k, d, days)
  PROVE  Findings(flags, k, d) = {<<x.observed, x.expected>> : x \in Flags(rows, k, d, days)}
BY DEF Findings

\* Two series that cost the same on a day and on the days it is compared with have the
\* same findings.
LEMMA SameCostsSameFindings ==
  ASSUME NEW a, NEW b, NEW k, NEW m, NEW d, NEW days,
         CostOn(a, k, d) = CostOn(b, m, d),
         \A e \in days : CostOn(a, k, e) = CostOn(b, m, e)
  PROVE  {<<x.observed, x.expected>> : x \in Flags(a, k, d, days)}
           = {<<x.observed, x.expected>> : x \in Flags(b, m, d, days)}
  <1> DEFINE cost == CostOn(a, k, d)
             baseline == CostsOn(a, k, days)
             expected == <<SumFunction(baseline), Cardinality(DOMAIN baseline)>>
  <1>1. CostsOn(b, m, days) = baseline
    BY Zenon DEF CostsOn
  <1>2. /\ Flags(a, k, d, days) = IF Anomalous(cost, baseline) THEN {Anomaly(k, d, cost, baseline)} ELSE {}
        /\ Flags(b, m, d, days) = IF Anomalous(cost, baseline) THEN {Anomaly(m, d, cost, baseline)} ELSE {}
    BY <1>1, Zenon DEF Flags
  <1>3. \A j : Anomaly(j, d, cost, baseline).observed = cost
               /\ Anomaly(j, d, cost, baseline).expected = expected
    BY DEF Anomaly
  <1> HIDE DEF cost, baseline, expected
  <1> QED  BY <1>2, <1>3

\* On a series without a gap, of one category and one currency, the reports flag what the
\* dashboards flag, compared with the same costs, whatever day the report starts from.
THEOREM DetectionsAgree == Spec => []ReportsFlagWhatDashboardsFlag
  <1>1. ASSUME TypeOK, ViewsInv, AnomaliesFit PROVE ReportsFlagWhatDashboardsFlag
    <2> DEFINE rows == General(daily)
               R    == ReportSeries(rows)
               T    == DashboardSeries(rows)
    <2>1. SUFFICES ASSUME NEW from \in Days, NEW r \in rows, r.day >= from, BaselineKept(r.day),
                          OneSeries(rows, r), Gapless(R, AllCurrencies(r.key))
                   PROVE  Findings(DetectAnomalies(from), AllCurrencies(r.key), r.day)
                            = Findings(anomalies, AllCategories(r.key), r.day)
      BY DEF ReportsFlagWhatDashboardsFlag
    <2> DEFINE d == r.day
               k == AllCurrencies(r.key)
               m == AllCategories(r.key)
               row == [day |-> d, key |-> k, units |-> r.units]
               line == [day |-> d, key |-> m, units |-> r.units]
    <2>2. \A s \in daily : s.day \in Days
      BY <1>1 DEF ViewsInv, TableInv, SummaryFits, Summary
    <2>3. \A s \in rows : s.day \in Days
      BY <2>2 DEF General
    <2>4. /\ row \in R /\ row.day = d /\ row.key = k
          /\ line \in T /\ line.day = d /\ line.key = m
          /\ \A q \in R \cup T : q.day \in Days
      BY <2>3 DEF ReportSeries, DashboardSeries
    <2>5. /\ d \in Days /\ from \in Nat /\ d \in Nat /\ BaselineDays \in Nat /\ from <= d /\ 0 <= d
          /\ d - BaselineDays <= d /\ \A e \in Days : e \in Nat
      BY <2>1, <2>3, ConstantsAssumption DEF Days
    <2> DEFINE days == TrailingDays(T, m, d)
    <2> HIDE DEF rows, R, T, k, m, d, row, line
    <2>6. Seen(R, k) \subseteq Days /\ Seen(T, m) \subseteq Days /\ d \in Seen(R, k)
      BY <2>4 DEF Seen, OfSeries
    <2>7. ASSUME NEW e, d - BaselineDays <= e, e <= d
          PROVE  CostOn(R, k, e) = CostOn(T, m, e) /\ (e \in Seen(R, k) <=> e \in Seen(T, m))
      <3>1. /\ UnitsOf(On(OfSeries(R, k), e)) = UnitsOf(On(OfSeries(T, m), e))
            /\ (On(OfSeries(R, k), e) = {} <=> On(OfSeries(T, m), e) = {})
        BY <2>1, <2>7, SeriesAgree, Zenon DEF R, T, k, m, d
      <3>2. \A q, j : e \in Seen(q, j) <=> On(OfSeries(q, j), e) # {}
        <4>1. ASSUME NEW q, NEW j PROVE e \in Seen(q, j) <=> On(OfSeries(q, j), e) # {}
          <5> DEFINE S == OfSeries(q, j)
          <5> HIDE DEF S
          <5>1. e \in {p.day : p \in S} <=> {p \in S : p.day = e} # {}
            OBVIOUS
          <5> QED  BY <5>1 DEF S, Seen, On
        <4> QED  BY <4>1
      <3>3. CostOn(R, k, e) = CostOn(T, m, e)
        BY <3>1 DEF CostOn
      <3> QED  BY <3>1, <3>2, <3>3
    <2>8. TrailingRows(R, k, d, from) = days
      <3>1. TrailingRows(R, k, d, from) = TrailingDays(R, k, d)
        BY <2>1, <2>5, <2>6, RowsAreDays DEF k
      <3>2. TrailingDays(R, k, d) = TrailingDays(T, m, d)
        <4>1. \A e \in Days : e < d => e <= d
          BY <2>5
        <4> QED  BY <2>6, <2>7, <4>1 DEF TrailingDays
      <3> QED  BY <3>1, <3>2
    <2>9. /\ CostOn(R, k, d) = CostOn(T, m, d)
          /\ \A e \in days : CostOn(R, k, e) = CostOn(T, m, e)
      <3>1. \A e \in days : d - BaselineDays <= e /\ e <= d
        <4>1. \A e \in Days : e < d => e <= d
          BY <2>5
        <4> QED  BY <2>6, <4>1 DEF TrailingDays
      <3>2. d <= d
        BY <2>5
      <3> QED  BY <2>5, <2>7, <3>1, <3>2
    <2>10. \A q, j, e, g : \A x \in Flags(q, j, e, g) : x.key = j /\ x.day = e
      BY DEF Flags, Anomaly
    <2>11. \A x : x \in DetectAnomalies(from) /\ x.key = k /\ x.day = d <=> x \in Flags(R, k, d, days)
      <3> DEFINE F(j, e) == Flags(R, j, e, TrailingRows(R, j, e, from))
      <3>1. DetectAnomalies(from) = UNION {F(q.key, q.day) : q \in {p \in R : p.day >= from}}
        BY DEF DetectAnomalies, R, rows
      <3>2. F(k, d) = Flags(R, k, d, days)
        BY <2>8
      <3>3. \A j, e : \A x \in F(j, e) : x.key = j /\ x.day = e
        BY <2>10
      <3>4. d >= from
        BY <2>5
      <3> HIDE DEF F
      <3> QED  BY <2>4, <3>1, <3>2, <3>3, <3>4
    <2>12. \A x : x \in anomalies /\ x.key = m /\ x.day = d <=> x \in Flags(T, m, d, days)
      <3> DEFINE F(j, e) == Flags(T, j, e, TrailingDays(T, j, e))
      <3>1. AnomaliesOf(daily, 0) = UNION {F(q.key, q.day) : q \in {p \in T : p.day >= 0}}
        BY DEF AnomaliesOf, T, rows
      <3>2. \A x : x.day = d => (x \in anomalies <=> x \in AnomaliesOf(daily, 0))
        BY <1>1, <2>1 DEF AnomaliesFit, d
      <3>3. \A j, e : \A x \in F(j, e) : x.key = j /\ x.day = e
        BY <2>10
      <3>4. d >= 0 /\ F(m, d) = Flags(T, m, d, days)
        BY <2>5
      <3> HIDE DEF F
      <3> QED  BY <2>4, <3>1, <3>2, <3>3, <3>4
    <2> HIDE DEF days
    <2>13. Findings(DetectAnomalies(from), k, d) = Findings(anomalies, m, d)
      <3>1. Findings(DetectAnomalies(from), k, d)
              = {<<x.observed, x.expected>> : x \in Flags(R, k, d, days)}
        BY <2>11, FindingsAreFlags
      <3>2. Findings(anomalies, m, d) = {<<x.observed, x.expected>> : x \in Flags(T, m, d, days)}
        BY <2>12, FindingsAreFlags
      <3>3. {<<x.observed, x.expected>> : x \in Flags(R, k, d, days)}
              = {<<x.observed, x.expected>> : x \in Flags(T, m, d, days)}
        BY <2>9, SameCostsSameFindings
      <3> QED  BY <3>1, <3>2, <3>3
    <2> QED  BY <2>13 DEF k, m, d
  <1>2. TypeOK /\ ViewsInv /\ AnomaliesFit => ReportsFlagWhatDashboardsFlag
    BY <1>1
  <1> QED  BY ViewsInvariant, AnomaliesAreOfSummaries, <1>2, PTL

-----------------------------------------------------------------------------
(* The two groupings of Cost Explorer.                                     *)

\* Every line of a bill is in the row of its group, which names what the group has in
\* common.
LEMMA RowsCoverBill ==
  ASSUME NEW type \in Types, NEW d \in Days, NEW v \in 1..MaxVersion
  PROVE  /\ \A l \in Billed(type, d, v) : \E r \in RowsOf(type, d, v) : r.key = Key(type, l)
         /\ \A r \in RowsOf(type, d, v) : \E l \in Billed(type, d, v) :
              /\ r.key = Key(type, l)
              /\ r.units = {d} \X {m \in Billed(type, d, v) : GroupBy(type, m) = GroupBy(type, l)}
  <1> DEFINE bill == Billed(type, d, v)
             Group(l) == {m \in bill : GroupBy(type, m) = GroupBy(type, l)}
             RowOf(g) == [day |-> d, type |-> type, key |-> Key(type, CHOOSE l \in g : TRUE), ver |-> v,
                          units |-> {d} \X g]
  <1>1. RowsOf(type, d, v) = {RowOf(Group(l)) : l \in bill}
    <2>1. RowsOf(type, d, v) = {RowOf(g) : g \in Groups(type, bill)}
      BY DEF RowsOf
    <2>2. Groups(type, bill) = {Group(l) : l \in bill}
      BY DEF Groups
    <2> HIDE DEF RowOf, Group, bill
    <2> QED  BY <2>1, <2>2
  <1>2. ASSUME NEW l \in bill
        PROVE  RowOf(Group(l)).key = Key(type, l) /\ RowOf(Group(l)).units = {d} \X Group(l)
    <2> DEFINE g == Group(l)
               c == CHOOSE m \in g : TRUE
    <2>1. l \in g
      OBVIOUS
    <2>2. c \in g
      <3> HIDE DEF g
      <3> QED  BY <2>1
    <2>3. GroupBy(type, c) = GroupBy(type, l)
      <3> HIDE DEF c, bill
      <3> QED  BY <2>2
    <2>4. RowOf(g).key = Key(type, c) /\ RowOf(g).units = {d} \X g
      <3> HIDE DEF g
      <3> QED  OBVIOUS
    <2> HIDE DEF c, g, RowOf, Group
    <2>5. Key(type, c) = Key(type, l)
      BY <2>3, GroupHasKey
    <2> QED  BY <2>4, <2>5 DEF g
  <1>3. \A l \in bill : Group(l) = {m \in Billed(type, d, v) : GroupBy(type, m) = GroupBy(type, l)}
    OBVIOUS
  <1> HIDE DEF RowOf, Group
  <1>4. \A l \in bill : \E r \in RowsOf(type, d, v) : r.key = Key(type, l)
    BY <1>1, <1>2
  <1>5. \A r \in RowsOf(type, d, v) : \E l \in bill : r.key = Key(type, l) /\ r.units = {d} \X Group(l)
    BY <1>1, <1>2
  <1> QED  BY <1>3, <1>4, <1>5

\* The rows of a type and a day hold one version of the day's bill in full, a row for
\* each of its keys, beside what is left of other versions.
HasWholeVersion(rows, type, d) ==
  \E v \in 1..MaxVersion :
    /\ \E r \in rows : r.ver = v
    /\ \A s \in RowsOf(type, d, v) : \E r \in rows : r.ver = v /\ r.key = s.key

OfType(rows, d, type) == {r \in rows : r.day = d /\ r.type = type}

\* A Cost Explorer query leaves all its rows of a day in the run's memory or none, each
\* query once; cost_records has a whole version of what it has at all.
QueriesInv ==
  /\ query = 2 => phase = "query"
  /\ phase \notin {"query", "store"} \/ (phase = "query" /\ query = 1) => got = {}
  /\ \A r \in got : r.type \in CeTypes /\ (phase = "query" => r.type = "linked_account_service")
  /\ \A type \in CeTypes, d \in Days :
       \/ OfType(got, d, type) = {}
       \/ \E v \in 1..MaxVersion : OfType(got, d, type) = RowsOf(type, d, v)

VersionsInv ==
  \A type \in CeTypes, d \in Days :
    OfType(records, d, type) = {} \/ HasWholeVersion(OfType(records, d, type), type, d)

\* The rows of a day among those of several days are all the day has, or none.
LEMMA RowsOfADay ==
  ASSUME NEW type \in Types, NEW days \in SUBSET Days, version \in [Days -> 1..MaxVersion], NEW d \in Days
  PROVE  OfType(RowsOfDays(type, days), d, type) \in {{}, RowsOf(type, d, version[d])}
  <1>1. \A e \in days : \A r \in RowsOf(type, e, version[e]) : r.day = e /\ r.type = type
    <2>1. ASSUME NEW e \in days PROVE \A r \in RowsOf(type, e, version[e]) : r.day = e /\ r.type = type
      <3>1. e \in Days /\ version[e] \in 1..MaxVersion
        OBVIOUS
      <3> QED  BY <3>1, RowsOfFacts
    <2> QED  BY <2>1
  <1>2. RowsOfDays(type, days) = UNION {RowsOf(type, e, version[e]) : e \in days}
    BY DEF RowsOfDays
  <1>3. CASE d \in days
    <2>1. OfType(RowsOfDays(type, days), d, type) = RowsOf(type, d, version[d])
      BY <1>1, <1>2, <1>3 DEF OfType
    <2> QED  BY <2>1
  <1>4. CASE d \notin days
    <2>1. OfType(RowsOfDays(type, days), d, type) = {}
      BY <1>1, <1>2, <1>4 DEF OfType
    <2> QED  BY <2>1
  <1> QED  BY <1>3, <1>4

\* A round of the collector keeps what QueriesInv says.
LEMMA RoundKeepsQueries ==
  ASSUME TypeOK, QueriesInv, GetCostAndUsage PROVE QueriesInv'
  <1> DEFINE type == Queries[query]
  <1>1. query \in {1, 2} /\ version \in [Days -> 1..MaxVersion]
    BY DEF TypeOK
  <1>2. /\ phase = "query" /\ got' \in {got, got \cup Pages(type)}
        /\ IF query = 1 THEN query' = 2 /\ phase' = "query" ELSE query' = 1 /\ phase' = "store"
    BY <1>1 DEF GetCostAndUsage, Queries, PagesBeforeError
  <1>3. type = IF query = 1 THEN "linked_account_service" ELSE "region_service"
    BY <1>1 DEF Queries
  <1>4. /\ query = 1 => got = {}
        /\ \A r \in got : r.type = "linked_account_service"
        /\ \A t \in CeTypes, d \in Days :
             \/ OfType(got, d, t) = {}
             \/ \E v \in 1..MaxVersion : OfType(got, d, t) = RowsOf(t, d, v)
    BY <1>2 DEF QueriesInv
  <1> HIDE DEF type
  <1>5. type \in CeTypes /\ type \in Types /\ CollectionWindow \in SUBSET Days
    BY <1>1, <1>3 DEF CeTypes, Types, CollectionWindow
  <1>6. \A r \in Pages(type) : r.type = type
    BY <1>1, <1>5, RowsOfDaysFacts DEF Pages
  <1>7. \A d \in Days : OfType(Pages(type), d, type) \in {{}, RowsOf(type, d, version[d])}
    BY <1>1, <1>5, RowsOfADay DEF Pages
  <1>8. \A r \in got : r.type # type
    BY <1>1, <1>3, <1>4
  <1>9. ASSUME NEW t \in CeTypes, NEW d \in Days
        PROVE  \/ OfType(got', d, t) = {}
               \/ \E v \in 1..MaxVersion : OfType(got', d, t) = RowsOf(t, d, v)
    <2>1. CASE t = type
      <3>1. OfType(got, d, t) = {}
        BY <1>8, <2>1 DEF OfType
      <3>2. OfType(got \cup Pages(type), d, t) = OfType(Pages(type), d, t)
        BY <1>8, <2>1 DEF OfType
      <3>3. version[d] \in 1..MaxVersion
        BY <1>1
      <3> QED  BY <1>2, <1>7, <2>1, <3>1, <3>2, <3>3
    <2>2. CASE t # type
      <3>1. OfType(got \cup Pages(type), d, t) = OfType(got, d, t)
        BY <1>6, <2>2 DEF OfType
      <3> QED  BY <1>2, <1>4, <3>1
    <2> QED  BY <2>1, <2>2
  <1>10. \A r \in got' : r.type \in CeTypes /\ (phase' = "query" => r.type = "linked_account_service")
    BY <1>1, <1>2, <1>3, <1>4, <1>6 DEF CeTypes
  <1>11. /\ query' = 2 => phase' = "query"
         /\ phase' \in {"query", "store"} /\ ~(phase' = "query" /\ query' = 1)
    BY <1>2
  <1> QED  BY <1>9, <1>10, <1>11 DEF QueriesInv

\* Every step keeps it: the memory of a run is filled by its queries and emptied when
\* it is stored or the process restarts.
LEMMA QueriesStep ==
  ASSUME TypeOK, QueriesInv, [Next]_vars PROVE QueriesInv'
  <1>1. ASSUME got' = {}, query' = 1 PROVE QueriesInv'
    BY <1>1 DEF QueriesInv, OfType
  <1>2. ASSUME UNCHANGED <<got, query>>, phase' = phase \/ (phase = "idle" /\ got = {} /\ query = 1)
        PROVE  QueriesInv'
    BY <1>1, <1>2 DEF QueriesInv
  <1>3. \A p \in {"idle", "stream", "refresh", "maintain"} : phase = p => got = {} /\ query = 1
    <2>1. query \in {1, 2}
      BY DEF TypeOK
    <2> QED  BY <2>1 DEF QueriesInv
  <1>4. CASE Tick \/ (\E d \in Days : Restate(d)) \/ UNCHANGED vars
    BY <1>2, <1>4 DEF Tick, Restate, vars, runVars
  <1>5. CASE StartRun
    BY <1>2, <1>3, <1>5 DEF StartRun
  <1>6. CASE \E m \in Modes : Restart(m)
    BY <1>1, <1>6 DEF Restart
  <1>7. CASE CollectCur \/ CollectOci
    BY <1>1, <1>3, <1>7 DEF CollectCur, CollectOci
  <1>8. CASE RefreshDashboard \/ Maintain
    BY <1>1, <1>3, <1>8 DEF RefreshDashboard, Maintain
  <1>9. CASE StoreIngestedBatch
    <2>1. query = 1
      BY <1>9 DEF StoreIngestedBatch, QueriesInv, TypeOK
    <2> QED  BY <1>1, <1>9, <2>1 DEF StoreIngestedBatch
  <1> QED  BY <1>4, <1>5, <1>6, <1>7, <1>8, <1>9, RoundKeepsQueries DEF Next

\* A batch that has no row of a day and grouping leaves those rows alone; one that has
\* a version of them in full leaves it in full.
LEMMA StoreKeepsVersions ==
  ASSUME NEW rows, NEW type \in CeTypes, NEW d \in Days, NEW v \in 1..MaxVersion,
         \/ OfType(rows, d, type) = {}
         \/ OfType(rows, d, type) = RowsOf(type, d, v),
         OfType(records, d, type) = {} \/ HasWholeVersion(OfType(records, d, type), type, d)
  PROVE  LET new == OfType(StoreCostRecords(rows), d, type)
         IN new = {} \/ HasWholeVersion(new, type, d)
  <1> DEFINE last(r) == CHOOSE s \in rows : ConflictKey(s) = ConflictKey(r)
             new == OfType(StoreCostRecords(rows), d, type)
  <1>1. \A r, s : ConflictKey(r) = ConflictKey(s) => r.day = s.day /\ r.type = s.type /\ r.key = s.key
    BY DEF ConflictKey
  <1>2. ASSUME NEW r \in rows
        PROVE  last(r) \in rows /\ last(r).day = r.day /\ last(r).type = r.type /\ last(r).key = r.key
    <2>1. last(r) \in rows /\ ConflictKey(last(r)) = ConflictKey(r)
      OBVIOUS
    <2> HIDE DEF last
    <2> QED  BY <1>1, <2>1
  <1>3. StoreCostRecords(rows)
          = {r \in records : \A s \in rows : ConflictKey(s) # ConflictKey(r)} \cup {last(r) : r \in rows}
    BY DEF StoreCostRecords
  <1> HIDE DEF last
  <1>4. CASE OfType(rows, d, type) = {}
    <2>1. \A r \in rows : ~(r.day = d /\ r.type = type)
      BY <1>4 DEF OfType
    <2>2. new = OfType(records, d, type)
      BY <1>1, <1>2, <1>3, <2>1 DEF OfType
    <2> QED  BY <2>2
  <1>5. CASE OfType(rows, d, type) = RowsOf(type, d, v) /\ OfType(rows, d, type) # {}
    <2>1. \A s \in RowsOf(type, d, v) : s \in rows /\ s.day = d /\ s.type = type
      BY <1>5 DEF OfType
    <2>2. type \in Types
      BY DEF Types
    <2>3. ASSUME NEW s \in RowsOf(type, d, v) PROVE last(s) \in new /\ last(s).ver = v /\ last(s).key = s.key
      <3>1. last(s) \in OfType(rows, d, type) /\ last(s).key = s.key
        BY <1>2, <2>1 DEF OfType
      <3>2. last(s).ver = v
        BY <1>5, <2>2, <3>1, RowsOfFacts
      <3>3. last(s) \in new
        BY <1>3, <2>1, <3>1 DEF OfType
      <3> QED  BY <3>1, <3>2, <3>3
    <2> HIDE DEF new
    <2>4. HasWholeVersion(new, type, d)
      BY <1>5, <2>3 DEF HasWholeVersion
    <2> QED  BY <2>4 DEF new
  <1> QED  BY <1>4, <1>5

\* Every step keeps a whole version of what cost_records has of Cost Explorer.
LEMMA VersionsStep ==
  ASSUME TypeOK, QueriesInv, VersionsInv, [Next]_vars PROVE VersionsInv'
  <1>1. SUFFICES ASSUME NEW type \in CeTypes, NEW d \in Days
                 PROVE  \/ OfType(records', d, type) = {}
                        \/ HasWholeVersion(OfType(records', d, type), type, d)
    BY DEF VersionsInv
  <1>2. OfType(records, d, type) = {} \/ HasWholeVersion(OfType(records, d, type), type, d)
    BY DEF VersionsInv
  <1>3. ASSUME OfType(records', d, type) \in {{}, OfType(records, d, type)}
        PROVE  \/ OfType(records', d, type) = {}
               \/ HasWholeVersion(OfType(records', d, type), type, d)
    BY <1>2, <1>3
  <1>4. type # "cur_line_item" /\ type # "oci" /\ type \in Types
    BY DEF CeTypes, Types
  <1>5. CASE UNCHANGED records
    BY <1>3, <1>5
  <1>6. CASE StoreIngestedBatch
    <2> DEFINE rows == {r \in got : WithinLookback(r.day)}
    <2>1. CASE records' = records
      BY <1>3, <2>1
    <2>2. CASE records' = StoreCostRecords(rows)
      <3>1. OfType(got, d, type) = {} \/ \E v \in 1..MaxVersion : OfType(got, d, type) = RowsOf(type, d, v)
        BY DEF QueriesInv
      <3>2. OfType(rows, d, type) \in {{}, OfType(got, d, type)}
        <4>1. CASE WithinLookback(d)
          <5>1. OfType(rows, d, type) = OfType(got, d, type)
            BY <4>1 DEF OfType
          <5> QED  BY <5>1
        <4>2. CASE ~WithinLookback(d)
          <5>1. OfType(rows, d, type) = {}
            BY <4>2 DEF OfType
          <5> QED  BY <5>1
        <4> QED  BY <4>1, <4>2
      <3>3. 1 \in 1..MaxVersion
        BY ConstantsAssumption
      <3>4. \E v \in 1..MaxVersion : OfType(rows, d, type) = {} \/ OfType(rows, d, type) = RowsOf(type, d, v)
        BY <3>1, <3>2, <3>3
      <3> HIDE DEF rows
      <3> QED  BY <1>2, <2>2, <3>4, StoreKeepsVersions
    <2> QED  BY <1>6, <2>1, <2>2 DEF StoreIngestedBatch, Replace
  <1>7. ASSUME NEW t \in {"cur_line_item", "oci"}, NEW days \in SUBSET RecentDays,
               NEW old \in SUBSET records, \A r \in records \ old : r.type = t,
               records' = old \cup RowsOfDays(t, days)
        PROVE  OfType(records', d, type) = OfType(records, d, type)
    <2>1. /\ version \in [Days -> 1..MaxVersion] /\ days \in SUBSET Days /\ t \in Types
      BY <1>7 DEF TypeOK, RecentDays, Types
    <2>2. \A r \in RowsOfDays(t, days) : r.type # type
      BY <1>4, <1>7, <2>1, RowsOfDaysFacts
    <2> QED  BY <1>4, <1>7, <2>2 DEF OfType
  <1>8. CASE CollectCur
    <2>1. CASE records' = records
      BY <1>3, <2>1
    <2>2. CASE records' # records
      <3>1. PICK days \in SUBSET RecentDays :
              records' = {r \in records : r.type # "cur_line_item"} \cup RowsOfDays("cur_line_item", days)
        BY <1>8, <2>2 DEF CollectCur, Replace
      <3>2. \A r \in records \ {q \in records : q.type # "cur_line_item"} : r.type = "cur_line_item"
        OBVIOUS
      <3>3. OfType(records', d, type) = OfType(records, d, type)
        BY <1>7, <3>1, <3>2
      <3> QED  BY <1>3, <3>3
    <2> QED  BY <2>1, <2>2
  <1>9. CASE CollectOci
    <2>1. PICK days \in SUBSET RecentDays :
            records' = {r \in records : r.type # "oci" \/ r.day \notin days} \cup RowsOfDays("oci", days)
      BY <1>9 DEF CollectOci, Replace
    <2>2. \A r \in records \ {q \in records : q.type # "oci" \/ q.day \notin days} : r.type = "oci"
      OBVIOUS
    <2>3. OfType(records', d, type) = OfType(records, d, type)
      BY <1>7, <2>1, <2>2
    <2> QED  BY <1>3, <2>3
  <1>10. CASE Maintain
    <2>1. OfType(Pruned(records), d, type) \in {{}, OfType(records, d, type)}
      <3>1. CASE Expired(d)
        <4>1. OfType(Pruned(records), d, type) = {}
          BY <3>1 DEF OfType, Pruned
        <4> QED  BY <4>1
      <3>2. CASE ~Expired(d)
        <4>1. OfType(Pruned(records), d, type) = OfType(records, d, type)
          BY <3>2 DEF OfType, Pruned
        <4> QED  BY <4>1
      <3> QED  BY <3>1, <3>2
    <2> QED  BY <1>3, <1>10, <2>1 DEF Maintain
  <1>11. CASE Tick \/ (\E e \in Days : Restate(e)) \/ (\E m \in Modes : Restart(m)) \/ StartRun
              \/ GetCostAndUsage \/ RefreshDashboard \/ UNCHANGED vars
    BY <1>5, <1>11 DEF Tick, Restate, Restart, StartRun, GetCostAndUsage, RefreshDashboard, vars
  <1> QED  BY <1>6, <1>8, <1>9, <1>10, <1>11 DEF Next

\* A grouping whose rows are all of one version covers the bill of that version, unless
\* two regions collide in it.
LEMMA WholeVersionCovers ==
  ASSUME NEW type \in CeTypes, NEW d \in Days, NEW v \in 1..MaxVersion,
         NEW rows, \A r \in rows : r \in RowsOf(type, d, r.ver) /\ r.ver = v,
         HasWholeVersion(rows, type, d), ~RegionsCollide(Content[<<d, v>>])
  PROVE  UnitsOf(rows) = {d} \X Billed(type, d, v)
  <1> DEFINE bill == Billed(type, d, v)
  <1>1. type \in Types /\ bill \subseteq Content[<<d, v>>]
    BY DEF Types, Billed
  <1>2. \A s \in RowsOf(type, d, v) : \E r \in rows : r.key = s.key
    BY DEF HasWholeVersion
  <1>3. ASSUME NEW l \in bill, NEW m \in bill, Key(type, l) = Key(type, m)
        PROVE  GroupBy(type, l) = GroupBy(type, m)
    <2>1. CASE type = "linked_account_service"
      <3>1. /\ Key(type, l).account = l.account /\ Key(type, l).service = l.service
            /\ Key(type, m).account = m.account /\ Key(type, m).service = m.service
        BY <2>1 DEF Key
      <3> QED  BY <1>3, <2>1, <3>1 DEF GroupBy
    <2>2. CASE type = "region_service"
      <3>1. /\ Key(type, l).region = NormalizeRegion(l.region) /\ Key(type, l).service = l.service
            /\ Key(type, m).region = NormalizeRegion(m.region) /\ Key(type, m).service = m.service
        BY <2>2 DEF Key
      <3>2. l.region = m.region
        BY <1>1, <1>3, <3>1 DEF RegionsCollide
      <3> QED  BY <1>3, <2>2, <3>1, <3>2 DEF GroupBy
    <2> QED  BY <2>1, <2>2 DEF CeTypes
  <1>4. ASSUME NEW l \in bill PROVE <<d, l>> \in UnitsOf(rows)
    <2>1. PICK s \in RowsOf(type, d, v) : s.key = Key(type, l)
      BY <1>1, RowsCoverBill
    <2>2. PICK r \in rows : r.key = s.key
      BY <1>2
    <2>3. r \in RowsOf(type, d, v)
      OBVIOUS
    <2>4. PICK m \in bill : /\ r.key = Key(type, m)
                            /\ r.units = {d} \X {n \in bill : GroupBy(type, n) = GroupBy(type, m)}
      BY <1>1, <2>3, RowsCoverBill
    <2>5. GroupBy(type, l) = GroupBy(type, m)
      BY <1>3, <2>1, <2>2, <2>4
    <2> HIDE DEF bill
    <2> QED  BY <2>4, <2>5 DEF UnitsOf
  <1>5. ASSUME NEW u \in UnitsOf(rows) PROVE u \in {d} \X bill
    <2>1. PICK r \in rows : u \in r.units
      BY DEF UnitsOf
    <2>2. r \in RowsOf(type, d, v)
      OBVIOUS
    <2>3. PICK m \in bill : r.units = {d} \X {n \in bill : GroupBy(type, n) = GroupBy(type, m)}
      BY <1>1, <2>2, RowsCoverBill
    <2> HIDE DEF bill
    <2> QED  BY <2>1, <2>3
  <1> HIDE DEF bill
  <1>6. UnitsOf(rows) = {d} \X bill
    BY <1>4, <1>5
  <1> QED  BY <1>6 DEF bill

\* On a day whose Cost Explorer rows are all of one version of its bill, the rows per
\* region cover the lines that the rows per account cover.
THEOREM RegionsAddUp == Spec => []RegionTotalsMatch
  <1>1. Init => QueriesInv /\ VersionsInv
    BY DEF Init, QueriesInv, VersionsInv, OfType
  <1>2. TypeOK /\ QueriesInv /\ VersionsInv /\ [Next]_vars => (QueriesInv /\ VersionsInv)'
    BY QueriesStep, VersionsStep
  <1>3. ASSUME RowsInv, VersionsInv PROVE RegionTotalsMatch
    <2>1. SUFFICES ASSUME NEW d \in Days, NEW v \in 1..MaxVersion,
                          CeRows(d, "linked_account_service") # {}, CeRows(d, "region_service") # {},
                          \A r \in CeRows(d, "linked_account_service") \cup CeRows(d, "region_service") :
                            r.ver = v,
                          ~RegionsCollide(Content[<<d, v>>])
                   PROVE  UnitsOf(CeRows(d, "linked_account_service")) = UnitsOf(CeRows(d, "region_service"))
      BY DEF RegionTotalsMatch
    <2>2. ASSUME NEW type \in CeTypes, CeRows(d, type) # {}, \A r \in CeRows(d, type) : r.ver = v
          PROVE  UnitsOf(CeRows(d, type)) = {d} \X Billed(type, d, v)
      <3>1. CeRows(d, type) = OfType(records, d, type)
        BY DEF CeRows, OfType, On
      <3>2. \A r \in CeRows(d, type) : r \in RowsOf(type, d, r.ver) /\ r.ver = v
        BY <1>3, <2>2 DEF CeRows, On, RowsInv, FromBill
      <3>3. HasWholeVersion(CeRows(d, type), type, d)
        BY <1>3, <2>2, <3>1 DEF VersionsInv
      <3> QED  BY <2>1, <3>2, <3>3, WholeVersionCovers
    <2>3. Billed("linked_account_service", d, v) = Billed("region_service", d, v)
      BY DEF Billed
    <2> QED  BY <2>1, <2>2, <2>3 DEF CeTypes
  <1>4. RowsInv /\ VersionsInv => RegionTotalsMatch
    BY <1>3
  <1>5. ViewsInv => RowsInv
    BY DEF ViewsInv
  <1> QED  BY ViewsInvariant, <1>1, <1>2, <1>4, <1>5, PTL DEF Spec
=============================================================================
