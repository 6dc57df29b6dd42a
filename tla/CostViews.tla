----------------------------- MODULE CostViews -----------------------------
(***************************************************************************)
(* From a collector's rows to what readers of Torvix see: the AWS Cost     *)
(* Explorer collector, whose queries return the same costs grouped in      *)
(* overlapping ways; the tables recomputed after a run (daily and weekly   *)
(* summaries, anomalies); and the two families of readers that must choose *)
(* among the overlapping rows: SQL over cost_records (reports) and Go over *)
(* the summaries (dashboards).                                             *)
(*                                                                         *)
(* A unit is what one line of the bill costs on one day; a stored row and  *)
(* a summary name the units they sum up, so "counted twice" and "not       *)
(* counted" can be told apart.  One collector is enabled at a time; the    *)
(* configuration may change at a restart.  CostIngestion models the        *)
(* streaming collectors step by step; here only what they leave behind.    *)
(***************************************************************************)
EXTENDS Integers, FiniteSets, FiniteSetsExt, Functions, Sequences

CONSTANTS
  Lines,         \* billed lines: records of provider, account, scope, region, service,
                 \* category and currency
  Price,         \* Price[l]: what line l costs on a day it is billed
  Content,       \* Content[<<d, v>>]: the lines of version v of the bill of day d
  MaxVersion,    \* bound: how often a day's bill is restated, plus one
  MaxDay,        \* bound: the last day of the model
  PayerCurrency, \* the currency of the amounts that Cost Explorer reports
  Modes,         \* the collectors a configuration may enable
  Lookback,      \* ingestion.lookback_days
  CeLookback,    \* providers.aws.lookback_days
  Retention,     \* ingestion.retention_days
  DaysPerWeek,   \* 7 in the code
  BaselineDays,  \* 7 in the code: the days an anomaly is compared with
  MaxFaults,     \* bound: how often a call returns an error or the process dies
  MaxSwitches    \* bound: how often another collector is configured

Days == 0..MaxDay
CeTypes == {"linked_account_service", "region_service"}
Types == CeTypes \cup {"cur_line_item", "oci"}

ASSUME ConstantsAssumption ==
  /\ Price \in [Lines -> Int]
  /\ MaxVersion \in Nat \ {0} /\ MaxDay \in Nat
  /\ Content \in [Days \X (1..MaxVersion) -> SUBSET Lines]
  /\ Modes \subseteq {"cost_explorer", "cur_s3", "oci"} /\ Modes # {}
  /\ CeLookback \in Nat /\ Lookback \in Nat /\ Retention \in Nat
  /\ DaysPerWeek \in Nat \ {0} /\ BaselineDays \in Nat \ {0}
  /\ MaxFaults \in Nat /\ MaxSwitches \in Nat

VARIABLES
  today,     \* the clock, in days
  version,   \* the cloud: which version of each day's bill is current
  faults,    \* how many faults there have been
  mode,      \* the collector the process was started with
  switches,  \* how often that changed
  phase,     \* where the run is
  query,     \* the Cost Explorer query that is next
  asOf,      \* the day the Cost Explorer collector took its window from
  got,       \* allRecords: the rows of the queries so far
  inserted,  \* the days of the rows the run inserted
  records,   \* cost_records
  daily,     \* daily_cost_summaries
  weekly,    \* weekly_cost_summaries
  anomalies, \* cost_anomalies: <<day, series>>
  dirty      \* history: days whose records changed since a refresh covered them

cloudVars == <<today, version>>
modeVars == <<mode, switches>>
runVars   == <<modeVars, phase, query, asOf, got, inserted, faults>>
tableVars == <<daily, weekly, anomalies>>
vars == <<cloudVars, runVars, records, tableVars, dirty>>

-----------------------------------------------------------------------------
(* Rows.                                                                   *)

Unit == Days \X Lines
Cost(units) == MapThenSumSet(LAMBDA u : Price[u[2]], units)
UnitsOf(rows) == UNION {r.units : r \in rows}
On(rows, d) == {r \in rows : r.day = d}
Provider(r) == IF r.type = "oci" THEN "oci" ELSE "aws"
\* Mutant: a period is named by its end.
PeriodEnd(d, length) == d - (d % length) + length
\* time_bucket: a period is named by its first day.
PeriodStart(d, length) == d - (d % length)

\* normalizeRegion
NormalizeRegion(region) == IF region \in {"", "NoRegion"} THEN "global" ELSE region

\* mapMetric (Cost Explorer) and the CUR and OCI parsers: what identifies the row
\* that line l is part of.  Cost Explorer knows no category but the service.
Key(type, l) ==
  [provider |-> IF type = "oci" THEN "oci" ELSE "aws",
   account |-> IF type = "region_service" THEN "all" ELSE l.account,
   scope   |-> CASE type = "region_service" -> "all" [] type = "oci" -> l.scope
                 [] OTHER -> l.account,
   region  |-> CASE type = "linked_account_service" -> "global"
                 [] type = "oci" -> l.region
                 [] OTHER -> NormalizeRegion(l.region),
   service |-> l.service,
   category |-> IF type \in CeTypes THEN l.service ELSE l.category,
   currency |-> IF type \in CeTypes THEN PayerCurrency ELSE l.currency]

\* The dimensions Cost Explorer groups by, before any normalisation.
GroupBy(type, l) ==
  CASE type = "linked_account_service" -> <<l.account, l.service>>
    [] type = "region_service" -> <<l.region, l.service>>
    [] OTHER -> <<l>>

Groups(type, lines) ==
  {{m \in lines : GroupBy(type, m) = GroupBy(type, l)} : l \in lines}

Billed(type, d, v) ==
  {l \in Content[<<d, v>>] : l.provider = IF type = "oci" THEN "oci" ELSE "aws"}

\* The rows of one day's bill: one per group.
RowsOf(type, d, v) ==
  {[day |-> d, type |-> type, key |-> Key(type, CHOOSE l \in g : TRUE), ver |-> v,
    units |-> {d} \X g] : g \in Groups(type, Billed(type, d, v))}

RowsOfDays(type, days) == UNION {RowsOf(type, d, version[d]) : d \in days}

\* The ON CONFLICT keys of storeCostRecordsTx: the group's key for Cost Explorer,
\* the record's hash for CUR; OCI rows never conflict.  (The category and the currency
\* of a Cost Explorer row are not part of its key, but follow from the rest of it.)
ConflictKey(r) ==
  <<r.day, r.type, r.key, IF r.type \in CeTypes THEN {} ELSE r.units>>

\* storeCostRecordsTx: rows with the same key overwrite each other, in a batch the
\* last one wins (whichever Cost Explorer lists last, a fixed one here).
StoreCostRecords(rows) ==
  {r \in records : \A s \in rows : ConflictKey(s) # ConflictKey(r)}
    \cup {CHOOSE s \in rows : ConflictKey(s) = ConflictKey(r) : r \in rows}

WithinLookback(d) == d >= today - Lookback
Expired(d) == d < today - Retention

Changed(old, new) == {d \in Days : On(old, d) # On(new, d)}

Row == [day : Days, type : Types, units : SUBSET Unit, ver : 1..MaxVersion,
        key : {Key(t, l) : t \in Types, l \in Lines}]
Summary == [day : Days, type : Types, units : SUBSET Unit,
            key : {Key(t, l) : t \in Types, l \in Lines}]
Phases == {"idle", "query", "store", "stream", "refresh", "maintain"}

TypeOK ==
  /\ today \in Days /\ version \in [Days -> 1..MaxVersion]
  /\ mode \in Modes /\ switches \in 0..MaxSwitches /\ phase \in Phases
  /\ query \in 1..2 /\ asOf \in Days
  /\ got \subseteq Row /\ records \subseteq Row
  /\ inserted \subseteq Days /\ faults \in 0..MaxFaults
  /\ daily \subseteq Summary /\ weekly \subseteq Summary
  /\ \A a \in anomalies : a.day \in Days
  /\ dirty \subseteq Days

Init ==
  /\ today = 0 /\ version = [d \in Days |-> 1]
  /\ mode \in Modes /\ switches = 0 /\ phase = "idle"
  /\ query = 1 /\ asOf = 0 /\ got = {} /\ inserted = {}
  /\ faults = 0
  /\ records = {} /\ daily = {} /\ weekly = {} /\ anomalies = {}
  /\ dirty = {}

-----------------------------------------------------------------------------
(* The cloud and the process.                                              *)

Tick ==
  /\ today < MaxDay /\ today' = today + 1
  /\ UNCHANGED <<version, runVars, records, tableVars, dirty>>

\* The provider restates the bill of a day that has come.
Restate(d) ==
  /\ d <= today /\ version[d] < MaxVersion
  /\ Content[<<d, version[d]>>] # Content[<<d, version[d] + 1>>]
  /\ version' = [version EXCEPT ![d] = @ + 1]
  /\ UNCHANGED <<today, runVars, records, tableVars, dirty>>

\* The process stops between runs, or dies in one, and starts again, perhaps with
\* another collector configured: the run's memory is gone, the tables are not.
Restart(m) ==
  /\ \/ phase = "idle" /\ UNCHANGED faults
     \/ phase # "idle" /\ faults < MaxFaults /\ faults' = faults + 1
  /\ mode' = m /\ phase' = "idle"
  /\ switches' = IF m = mode THEN switches ELSE switches + 1
  /\ switches' <= MaxSwitches
  /\ query' = 1 /\ asOf' = 0 /\ got' = {} /\ inserted' = {}
  /\ UNCHANGED <<cloudVars, records, tableVars, dirty>>

-----------------------------------------------------------------------------
(* A run: collect, store, recompute the tables, drop what has expired.     *)

\* A call returns an error: the run goes on without what it asked for.
Error == faults < MaxFaults /\ faults' = faults + 1

\* Service.Run, and New and collectionWindow for the Cost Explorer collector.
StartRun ==
  /\ phase = "idle"
  /\ phase' = IF mode = "cost_explorer" THEN "query" ELSE "stream"
  /\ asOf' = IF mode = "cost_explorer" THEN today ELSE 0
  /\ UNCHANGED <<cloudVars, modeVars, query, got, inserted, faults, records,
                 tableVars, dirty>>

\* defaultQueries without the four whose rows neither the summaries nor a reader
\* selects.
Queries == <<"linked_account_service", "region_service">>

CollectionWindow == {d \in Days : asOf - CeLookback <= d /\ d < asOf}

\* collectQuery and mapCostAndUsageOutput: every page of one query, or nothing.
Pages(type) == RowsOfDays(type, CollectionWindow)
\* Mutant: the pages that arrived before the error are kept.
PartOfThePages(type) == {r \in Pages(type) : r = CHOOSE q \in Pages(type) : TRUE}
PagesBeforeError(type) == {}

\* One round of the loop in Collect.
GetCostAndUsage ==
  LET type == Queries[query]
  IN /\ phase = "query"
     /\ \/ got' = got \cup Pages(type) /\ UNCHANGED faults
        \/ got' = got \cup PagesBeforeError(type) /\ Error
     /\ IF query < Len(Queries)
        THEN query' = query + 1 /\ UNCHANGED <<phase, asOf>>
        ELSE query' = 1 /\ asOf' = 0 /\ phase' = "store"
     /\ UNCHANGED <<cloudVars, modeVars, inserted, records, tableVars, dirty>>

AfterStore(days) == phase' = IF days = {} THEN "maintain" ELSE "refresh"

\* Rows reach or leave cost_records, and the run remembers the days of the new ones.
Replace(new, days) ==
  /\ records' = new
  /\ inserted' = days
  /\ dirty' = dirty \cup Changed(records, new)
  /\ AfterStore(days)

\* storeNormalizedBatch and StoreIngestedBatch: the batch is stored in one
\* transaction; a collection without rows has no batch.
StoreIngestedBatch ==
  LET rows == {r \in got : WithinLookback(r.day)}
  IN /\ phase = "store"
     /\ got' = {}
     /\ \/ Replace(StoreCostRecords(rows), {r.day : r \in rows}) /\ UNCHANGED faults
        \/ got # {} /\ Replace(records, {}) /\ Error
     /\ UNCHANGED <<cloudVars, modeVars, query, asOf, tableVars>>

RecentDays == {d \in Days : WithinLookback(d) /\ d <= today}

\* The CUR collector's outcome: nothing new to read, or the rows of its export
\* dropped and the recent ones stored again, those of some days if it fails.
CollectCur ==
  /\ phase = "stream" /\ mode = "cur_s3"
  /\ \/ Replace(records, {}) /\ UNCHANGED faults
     \/ \E days \in SUBSET RecentDays :
          /\ LET rows == RowsOfDays("cur_line_item", days)
             IN Replace({r \in records : r.type # "cur_line_item"} \cup rows,
                        {r.day : r \in rows})
          /\ IF days = RecentDays THEN UNCHANGED faults ELSE Error
  /\ UNCHANGED <<cloudVars, modeVars, query, asOf, got, tableVars>>

\* The OCI collector's outcome: the reports it found replace the rows of some days.
CollectOci ==
  /\ phase = "stream" /\ mode = "oci"
  /\ \E days \in SUBSET RecentDays :
       LET rows == RowsOfDays("oci", days)
       IN Replace({r \in records : r.type # "oci" \/ r.day \notin days} \cup rows,
                  {r.day : r \in rows})
  /\ UNCHANGED faults \/ Error
  /\ UNCHANGED <<cloudVars, modeVars, query, asOf, got, tableVars>>

-----------------------------------------------------------------------------
(* The selection every SQL reader and every refresh repeats, and the tables. *)

HasCur(rows, d) == \E r \in rows : r.type = "cur_line_item" /\ r.day = d

\* Mutant: without the NOT EXISTS.
GeneralBesideCur(rows) ==
  {r \in rows : r.type \in {"oci", "cur_line_item", "linked_account_service"}}

\* The condition in AggregateCosts, CompareCostVariance, DetectAnomalies,
\* DashboardOverview and refreshCostAnomalies: CUR where a day has it, else the
\* rows per linked account and service.
General(rows) ==
  LET curDays == {d \in Days : HasCur(rows, d)}
  IN {r \in rows : \/ Provider(r) # "aws"
                   \/ r.type = "cur_line_item"
                   \/ r.type = "linked_account_service" /\ r.day \notin curDays}

\* refreshCostSummary's SELECT: the rows of a period and a key summed up.
SummaryOf(rows, length) ==
  LET Name(r) == [day |-> PeriodStart(r.day, length), type |-> r.type, key |-> r.key]
  IN {[day |-> n.day, type |-> n.type, key |-> n.key,
       units |-> UnitsOf({r \in rows : Name(r) = n})] : n \in {Name(r) : r \in rows}}

\* Mutant: without the DELETE.
RefreshWithoutDelete(table, length, from) ==
  table \cup {r \in SummaryOf(records, length) : r.day >= PeriodStart(from, length)}
\* Mutant: the window is not aligned to the period.
RefreshUnaligned(table, length, from) ==
  {r \in table : r.day < from} \cup {r \in SummaryOf(records, length) : r.day >= from}

\* refreshCostSummary: the periods from the one of day "from" are computed again.
RefreshCostSummary(table, length, from) ==
  {r \in table : r.day < PeriodStart(from, length)}
    \cup {r \in SummaryOf(records, length) : r.day >= PeriodStart(from, length)}

\* pruneDashboardAnalytics
Pruned(table) == {r \in table : ~Expired(r.day)}

\* What one series (a key) cost per day, and on which days it has a row.
OfSeries(rows, k) == {r \in rows : r.key = k}
Seen(rows, k) == {r.day : r \in OfSeries(rows, k)}
CostOn(rows, k, d) == Cost(UnitsOf(On(OfSeries(rows, k), d)))
CostsOn(rows, k, days) == [d \in days |-> CostOn(rows, k, d)]

\* The test both detections share, in integers: at least 1 away from the mean of
\* the costs on the baseline days, and 30 percent or two standard deviations away.
Anomalous(cost, baseline) ==
  LET n       == Cardinality(DOMAIN baseline)
      sum     == SumFunction(baseline)
      squares == [b \in DOMAIN baseline |-> baseline[b] * baseline[b]]
      delta   == n * cost - sum
      var     == n * SumFunction(squares) - sum * sum
      size    == IF delta < 0 THEN -delta ELSE delta
  IN /\ n > 0 /\ size >= n
     /\ \/ sum > 0 /\ 100 * size >= 30 * sum
        \/ var > 0 /\ size * size >= 4 * var

Anomaly(k, d, cost, baseline) ==
  [day |-> d, key |-> k, observed |-> cost,
   expected |-> <<SumFunction(baseline), Cardinality(DOMAIN baseline)>>]

\* The anomaly of series k on day d against some days, if it is one.
Flags(rows, k, d, days) ==
  LET cost     == CostOn(rows, k, d)
      baseline == CostsOn(rows, k, days)
  IN IF Anomalous(cost, baseline) THEN {Anomaly(k, d, cost, baseline)} ELSE {}

\* What the dashboards take for one series: whatever the category, per currency.
AllCategories(k) == [k EXCEPT !.category = "all"]
DashboardSeries(rows) ==
  {[day |-> r.day, key |-> AllCategories(r.key), units |-> r.units] : r \in rows}

\* refreshCostAnomalies: the baseline is what the series has in the BaselineDays
\* days before.
TrailingDays(rows, k, d) == {b \in Seen(rows, k) : d - BaselineDays <= b /\ b < d}

AnomaliesOf(summaries, from) ==
  LET rows == DashboardSeries(General(summaries))
  IN UNION {Flags(rows, r.key, r.day, TrailingDays(rows, r.key, r.day)) :
              r \in {s \in rows : s.day >= from}}

\* Mutant: the baseline is read from the refreshed days only.
RefreshAnomaliesShort(summaries, from) ==
  {a \in anomalies : a.day < from}
    \cup AnomaliesOf({r \in summaries : r.day >= from}, from)

RefreshAnomalies(summaries, from) ==
  {a \in anomalies : a.day < from} \cup AnomaliesOf(summaries, from)

\* earliestRecordTime
RefreshFrom == Min(inserted)

\* RefreshDashboardAnalytics, one transaction from the earliest inserted day on.
RefreshDashboard ==
  LET from == RefreshFrom
      new  == RefreshCostSummary(daily, 1, from)
  IN /\ phase = "refresh" /\ phase' = "maintain"
     /\ \/ /\ daily' = Pruned(new)
           /\ weekly' = Pruned(RefreshCostSummary(weekly, DaysPerWeek, from))
           /\ anomalies' = Pruned(RefreshAnomalies(new, from))
           /\ dirty' = {d \in dirty : d < from}
           /\ UNCHANGED faults
        \/ Error /\ UNCHANGED <<tableVars, dirty>>
     /\ UNCHANGED <<cloudVars, modeVars, query, asOf, got, inserted, records>>

\* RunDataLifecycleMaintenance: cost_records, then the tables; it stops at an error.
Maintain ==
  /\ phase = "maintain" /\ phase' = "idle"
  /\ inserted' = {}
  /\ \/ /\ records' = Pruned(records)
        /\ daily' = Pruned(daily) /\ weekly' = Pruned(weekly)
        /\ anomalies' = Pruned(anomalies)
        /\ UNCHANGED faults
     \/ /\ Error
        /\ records' \in {records, Pruned(records)} /\ UNCHANGED tableVars
  /\ UNCHANGED <<cloudVars, modeVars, query, asOf, got, dirty>>

Next ==
  \/ Tick
  \/ \E d \in Days : Restate(d)
  \/ \E m \in Modes : Restart(m)
  \/ StartRun
  \/ GetCostAndUsage
  \/ StoreIngestedBatch
  \/ CollectCur
  \/ CollectOci
  \/ RefreshDashboard
  \/ Maintain

Spec == Init /\ [][Next]_vars

-----------------------------------------------------------------------------
(* Readers.                                                                *)

\* One for each case of dashboardRowMatchesView: "drilldown" is as "region",
\* "category" as "service", and the rest as "timeseries".
Dimensions == {"region", "service", "timeseries"}

\* dashboardDimensionValue: what a row shows of a dimension (only OCI rows lack one).
DimensionValue(r, dimension) ==
  IF r.key[dimension] = "" THEN "Unknown" ELSE r.key[dimension]

Names(dimension) == {DimensionValue(r, dimension) : r \in daily}

\* dashboardAWSCURPeriods
CurPeriods(rows) == {r.day : r \in {s \in rows : s.type = "cur_line_item"}}

\* Mutant: the filter does not change the grouping.
RegionViewUnfiltered(dimension, regionFilter) == dimension = "region"

\* The grouping of Cost Explorer rows a view reads.
RegionView(dimension, regionFilter) ==
  \/ dimension = "region"
  \/ dimension = "service" /\ regionFilter # ""

\* Mutant: the days with CUR are not looked up.
RowMatchesViewBesideCur(r, dimension, regionFilter, curPeriods) ==
  \/ r.type \in {"oci", "cur_line_item"}
  \/ r.type = IF RegionView(dimension, regionFilter)
              THEN "region_service" ELSE "linked_account_service"

\* dashboardRowMatchesView
RowMatchesView(r, dimension, regionFilter, curPeriods) ==
  IF Provider(r) # "aws" THEN TRUE
  ELSE IF r.day \in curPeriods \/ r.type = "cur_line_item"
       THEN r.type = "cur_line_item"
       ELSE r.type = IF RegionView(dimension, regionFilter)
                     THEN "region_service" ELSE "linked_account_service"

\* The loop of every dashboard endpoint over the rows DashboardCostSummaries returned.
Shown(rows, dimension, regionFilter) ==
  LET curPeriods == CurPeriods(rows)
  IN {r \in rows : /\ regionFilter \in {"", DimensionValue(r, "region")}
                   /\ RowMatchesView(r, dimension, regionFilter, curPeriods)}

\* dashboardCostTimeseries, per period whatever the table.
Timeseries(table, period) == UnitsOf(On(Shown(table, "timeseries", ""), period))

\* dashboardBreakdown by region or service: what one name of it is made of.
Breakdown(dimension, regionFilter, name) ==
  UnitsOf({r \in Shown(daily, dimension, regionFilter) : DimensionValue(r, dimension) = name})

\* dashboardDrilldown: by region, scope and service; here all of it.
Drilldown(regionFilter) == UnitsOf(Shown(daily, "region", regionFilter))

\* dashboardFilterOptions: the names offered as a filter.
FilterOptions(dimension) == {DimensionValue(r, dimension) : r \in Shown(daily, dimension, "")}

\* AggregateCosts: SQL over cost_records.
AggregateCosts(length, period) ==
  UnitsOf({r \in General(records) : PeriodStart(r.day, length) = period})

\* DashboardOverview: SQL over the daily summaries, every provider together.
Overview(d) == UnitsOf(On(General(daily), d))

\* dashboardOverviewForProvider: Go over the same summaries, one provider.
OverviewForProvider(p, d) ==
  UnitsOf({r \in On(Shown(daily, "timeseries", ""), d) : Provider(r) = p})

\* Mutant: the rows before "from" are not read.
TrailingRowsShort(rows, k, d, from) ==
  LET before == {b \in Seen(rows, k) : from <= b /\ b < d}
  IN {b \in before : Cardinality({c \in before : c > b}) < BaselineDays}

\* DetectAnomalies: SQL over the summaries from BaselineDays before "from"; the
\* baseline is the last BaselineDays rows, on whatever days they are.
TrailingRows(rows, k, d, from) ==
  LET before == {b \in Seen(rows, k) : from - BaselineDays <= b /\ b < d}
  IN {b \in before : Cardinality({c \in before : c > b}) < BaselineDays}

\* What the reports take for one series: per category, whatever the currency.
AllCurrencies(k) == [k EXCEPT !.currency = "all"]
ReportSeries(rows) ==
  {[day |-> r.day, key |-> AllCurrencies(r.key), units |-> r.units] : r \in rows}

DetectAnomalies(from) ==
  LET rows == ReportSeries(General(daily))
  IN UNION {Flags(rows, r.key, r.day, TrailingRows(rows, r.key, r.day, from)) :
              r \in {s \in rows : s.day >= from}}

\* Mutant: any spend will do.
HasSpend(d) == Cost(UnitsOf(On(Shown(daily, "timeseries", ""), d))) > 0

\* dashboardDailyWindowHasUsableSpend: day d against the day before.
HasUsableSpend(d) ==
  LET rows   == Shown(daily, "timeseries", "")
      spend  == Cost(UnitsOf(On(rows, d)))
      before == Cost(UnitsOf(On(rows, d - 1)))
  IN spend > 0 /\ (before > 0 => 4 * spend >= before)

\* dashboardIncreaseWindows and dashboardUsableDailyIncreaseWindow: yesterday, or up
\* to seven days back the first day that looks complete; yesterday if none does.
UsableDays == {d \in Days : today - 7 <= d /\ d < today /\ HasUsableSpend(d)}
MovementDay ==
  LET usable == UsableDays IN IF usable = {} THEN today - 1 ELSE Max(usable)

\* CompareCostVariance for one day and the one before, over cost_records.
VarianceCost(d) == Cost(UnitsOf(On(General(records), d)))

\* grafanaSummaryFrom, grafanaCostTimeseries and grafanaTopServices: every row of the
\* table, whatever its record type.
GrafanaRows(table) == table

-----------------------------------------------------------------------------
(* Properties.                                                             *)

\* A day whose summaries are what its records say: refreshed since they changed,
\* and within the retention.
Clean(d) == d \notin dirty /\ ~Expired(d)

View == INSTANCE MaterializedView WITH
  source  <- [d \in Days |-> AggregateCosts(1, d)],
  view    <- [d \in Days |-> Timeseries(daily, d)],
  stale   <- {d \in Days : ~Clean(d)},
  Nothing <- {}

\* The daily costs that dashboards show, line by line, are a materialized view of what
\* the SQL selection says of cost_records: a run that inserts rows makes the days from
\* the first of them on agree again, a day that no run covers and whose records do
\* not change keeps what it shows, and no other step touches a clean day.
ImplementsView == View!Spec

\* The same costs arrive once per Cost Explorer grouping, and once more from CUR:
\* whatever a dashboard endpoint groups by and filters on, daily or weekly, no two
\* of the rows it adds up count the same billed line of the same day.  The Grafana
\* endpoints add up every row, and count a line once per record type.
Disjoint(rows) == \A r, s \in rows : r # s => r.units \cap s.units = {}
NothingCountedTwice ==
  \A table \in {daily, weekly} :
    /\ \A dim \in Dimensions, region \in Names("region") \cup {""} :
         Disjoint(Shown(table, dim, region))
    /\ \A type \in Types : Disjoint({r \in GrafanaRows(table) : r.type = type})

\* The overview of all providers (SQL), the sum of the overviews per provider (Go)
\* and the report query over the raw records say the same of every clean day.
ReadersAgree ==
  \A d \in Days : Clean(d) =>
    /\ Overview(d) = AggregateCosts(1, d)
    /\ Overview(d) = OverviewForProvider("aws", d) \cup OverviewForProvider("oci", d)

\* A region that the dashboards offer as a filter has the same costs in the breakdown
\* by region, in the drilldown and in the services of that region, which read
\* different rows when there is no filter.
RegionFilterAgrees ==
  \A region \in FilterOptions("region") :
    LET costs == Breakdown("region", "", region)
    IN /\ UNION {Breakdown("service", region, name) : name \in Names("service")} = costs
       /\ Drilldown(region) = costs

CeRows(d, type) == {r \in On(records, d) : r.type = type}

\* Two regions of one service that normalizeRegion makes one row of: the later
\* overwrites the earlier.
RegionsCollide(lines) ==
  \E l, m \in lines : /\ l.region # m.region /\ l.service = m.service
                      /\ NormalizeRegion(l.region) = NormalizeRegion(m.region)

\* The region views add up to the general ones: when every row a Cost Explorer day
\* has, in both groupings, is of one version of the bill, the two groupings cover
\* the same lines.  So no query leaves a part of its result.
RegionTotalsMatch ==
  \A d \in Days, v \in 1..MaxVersion :
    LET general == CeRows(d, "linked_account_service")
        region  == CeRows(d, "region_service")
    IN (/\ general # {} /\ region # {}
        /\ \A r \in general \cup region : r.ver = v
        /\ ~RegionsCollide(Content[<<d, v>>]))
         => UnitsOf(general) = UnitsOf(region)

MixesSources(days) ==
  /\ \E d \in days : HasCur(records, d)
  /\ \E d \in days : ~HasCur(records, d) /\ CeRows(d, "linked_account_service") # {}

\* The weekly dashboards (a Go selection per week, over summaries whose days are
\* gone) and the weekly reports (an SQL selection per day, over the records) agree on
\* every week of clean days.  The exception is a week with CUR on some days only: the
\* dashboards show its CUR part and nothing of the other days.
WeeklyAgreesWithReports ==
  \A week \in {PeriodStart(d, DaysPerWeek) : d \in Days} :
    LET days == {d \in Days : PeriodStart(d, DaysPerWeek) = week}
    IN (\A d \in days : Clean(d)) /\ ~MixesSources(days)
         => Timeseries(weekly, week) = AggregateCosts(DaysPerWeek, week)

BaselineKept(d) == \A b \in Days : d - BaselineDays <= b /\ b <= d => ~Expired(b)

\* The anomalies table is what its rule says of the daily summaries beside it, on
\* every day whose baseline the retention has not cut: a correction of an earlier day
\* withdraws and adds the flags of the days it is a baseline of.
AnomaliesFit ==
  {a \in anomalies : BaselineKept(a.day)}
    = {a \in AnomaliesOf(daily, 0) : BaselineKept(a.day)}

Gapless(rows, k) ==
  LET seen == Seen(rows, k)
  IN \A d \in Days : (\E e \in seen : e < d) /\ (\E e \in seen : e > d) => d \in seen

\* On the day of r and the days of its baseline, what r costs has one category and
\* one currency.
OneSeries(rows, r) ==
  \A s \in rows :
    /\ r.day - BaselineDays <= s.day /\ s.day <= r.day
    /\ \/ AllCategories(s.key) = AllCategories(r.key)
       \/ AllCurrencies(s.key) = AllCurrencies(r.key)
    => s.key = r.key

Findings(flags, k, d) ==
  {<<a.observed, a.expected>> : a \in {b \in flags : b.key = k /\ b.day = d}}

\* The reports detect with another query: its series are per category and not per
\* currency, and its baseline is a number of rows and not of days.  On a series
\* without a gap, and with one category and one currency as far back as the baseline,
\* they flag the days the dashboards flag, against the same costs, whatever day the
\* report starts from.
ReportsFlagWhatDashboardsFlag ==
  LET rows == General(daily)
      Comparable(r) == /\ BaselineKept(r.day) /\ OneSeries(rows, r)
                       /\ Gapless(ReportSeries(rows), AllCurrencies(r.key))
  IN \A from \in Days : \A r \in {s \in rows : s.day >= from /\ Comparable(s)} :
       Findings(DetectAnomalies(from), AllCurrencies(r.key), r.day)
         = Findings(anomalies, AllCategories(r.key), r.day)

\* The increases and decreases shown compare records of a day that was chosen from
\* the summaries: when those agree, the day was billed, and with at least a quarter of
\* the day before if that was, so an incomplete day is not shown as a decrease.
MovementsCompareWholeDays ==
  LET d == MovementDay
  IN Clean(d) /\ (Clean(d - 1) \/ d = 0) /\ UsableDays # {}
       => /\ VarianceCost(d) > 0
          /\ VarianceCost(d - 1) > 0 => 4 * VarianceCost(d) >= VarianceCost(d - 1)
=============================================================================
