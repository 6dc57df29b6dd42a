# TLA+ models of Torvix

Torvix collects cloud billing data (OCI cost reports, AWS CUR exports, AWS Cost Explorer) into
PostgreSQL, keeps summaries for dashboards, sends daily and weekly cost reports, looks for wasted OCI resources, and
can have a language model explain what it finds. This directory holds specifications of the parts of
it whose correctness depends on order, failure and concurrency, their TLC configurations, and TLAPS
proofs of all their safety properties.

Run a configuration with `tlc -workers 2 -config X.cfg M` and a proof module with `tlapm M.tla`;
`PROJECT.json` lists the runs, the mutations each property was shown to reject, the source lines each
definition stands for, the hazards and the theorems.

## 1. The system

| Component | State | Operations | Talks to |
|---|---|---|---|
| Ingestion run, `core/collect` | run lock `runMu`, per-run results | `Run`: collectors in parallel, store batches, mark, checkpoint, refresh, prune | collectors (callbacks per batch), repository |
| OCI collector, `providers/oci/collector.go` | loop counters of a run | find start number, list, download, stream, clean up | Object Storage, the batch handler |
| AWS CUR collector, `providers/aws/cur_*.go` | as above | list, download, stream, clean up | S3, the batch handler |
| AWS Cost Explorer collector, `providers/aws/collector.go` | rows of a run | overlapping grouped queries, one batch | Cost Explorer |
| Repository, `adapters/postgres` | `cost_records`, `processed_report_files`, `ingestion_checkpoints`, `report_deliveries`, summary, anomaly, waste and AI tables | one transaction per method | PostgreSQL |
| Dashboard summaries, `repository_dashboard.go` | `daily_cost_summaries` and coarser ones, `cost_anomalies`, forecasts | delete a window and recompute it; prune | the same database |
| Cost queries, `repository.go` (SQL over the records), `ports/http/dashboard.go`, `grafana.go` (Go over the summaries), `core/analytics` | none | select among overlapping rows, sum, compare, detect anomalies | repository |
| Report delivery, `core/reporting` | `report_deliveries` | completeness check, delivered check, build, send, record | alerting, repository |
| Application, `app` | next cron times, tickers, stop flags | ingestion scheduler, report scheduler, waste scheduler, shutdown | all services |
| HTTP API, `ports/http` | job store `jobs`, `order`, `active` | ingest jobs, report requests, finding status; read-only queries | `collect`, `reporting` |
| Waste detection, `providers/oci/inventory_collector.go`, `waste/engine`, `waste/rules` | `cloud_resources`, `cloud_resource_relationships`, `cloud_inventory_runs`, `waste_findings` | sync, evaluate, upsert, resolve | OCI, repository |
| AI enrichment, `core/intelligence`, `app/ai_enrichment.go` | bounded queue, one worker, `ai_enrichments` | submit, process, close | OpenAI, repository |
| Alerting, `core/alerting` | none | send to a destination | Slack, Teams, webhook, SMTP |
| Migrator, configuration, logging, metrics, forecasting | `schema_migrations`, files, counters | | |

Processes of one Torvix instance: the ingestion scheduler, the report scheduler, the waste scheduler,
one goroutine per collector of a run, one per HTTP request, one per ingestion job, the AI worker.
They share the run lock, the job store, the AI queue and the database, and nothing else: every
repository method is a transaction of its own, and between two of them any other process, a
failure, or a crash may come in. That is where the hard behaviour is:

- the rows of one export are deleted, stored in batches and marked in separate transactions;
- exports are rewritten by the cloud between listing, download and the next run;
- the checkpoint of a run decides what the next run looks at;
- summaries are recomputed from the store after a run, but only if the run got that far;
- Cost Explorer returns the same costs once per grouping, and CUR the same again: each reader, in SQL or in
  Go, must choose rows that overlap in no billed line and leave none out;
- two schedulers and HTTP clients deliver the same reports;
- the inventory is written step by step while the cloud changes and users judge findings;
- jobs outlive the requests that started them, and shutdown does not wait for them.

What makes each component correct, in a sentence: no cost is counted twice or lost while it is in the
window (ingestion); every reader of a clean day says the same of it (summaries and queries); no report is left behind by the selection (OCI collector); a record of a
delivery means a delivery, a due report gets through, repeats have a cause (delivery); only complete
listings are judged, steady waste is found, findings converge (waste); every job ends and
frees its slot (jobs); no text is bought twice, or shown beside the wrong anomaly, and shutdown
ends (AI).

## 2. Modules

| Module | Models | Composes |
|---|---|---|
| `SourceReplacement` | abstract: what the store promises about the rows of an export | |
| `CostIngestion` | `collect.Service.Run`, both streaming collectors, repository transactions, summaries, retention | refines `SourceReplacement` |
| `MCCostIngestion` | export contents for TLC | `CostIngestion` |
| `CostIngestionProofs` | proofs: types and structure of a run; the store, the marks, the summaries | `CostIngestion`, `SourceReplacement` |
| `CostViews`, `MCCostViews` | Cost Explorer collector, summaries and anomalies, the SQL and Go readers | refines `MaterializedView` |
| `MaterializedView`, `MaterializedViewProofs` | abstract: what a precomputed table promises about its source, with its proof | |
| `CostViewsProofs` | proofs: the refinement, the readers, the anomalies, the Cost Explorer groupings | `CostViews`, `MaterializedView` |
| `OciSelection` | window, checkpoint, start number search, listing, loop limits | |
| `OciSelectionProofs` | proofs: what the recursive searches and the listing return; that no report is left behind | `OciSelection` |
| `ReportDelivery` | crons, both schedulers, HTTP delivery, the delivery sequence, ingestion as reports see it | |
| `ReportDeliveryProofs`, `WasteDetectionProofs`, `EnrichedIngestionProofs` | proofs about the modules of these names | |
| `NaturalFacts` | lemmas the proofs share: least and greatest elements, first days of weeks, induction, that a recursive function satisfies its equation | |
| `WasteDetection`, `MCWasteDetection` | sync, evaluation, findings, users, the cloud | |
| `IngestionJobs` | job store, job goroutines, run lock, scheduler's runs | |
| `Enrichment` | AI queue, worker, table, Close | |
| `EnrichedIngestion` | runs that submit the anomalies they found, shutdown, restart | `IngestionJobs`, `Enrichment` |

**CostIngestion.** `stored[r]` counts how often row `r` is in `cost_records`: a row is one billing line
of one day of one version (ETag) of one object. `col[<<c, p>>]` are the locals of the collector
goroutine of provider `p` in caller `c`'s run: what is left of its listing, the object it holds, the
version it was listed with and the version it got, the rest of the file, the buffer. One action per
call: `ListObjects`, `SkipObject`, `GetObject`, `ParseStream`, `DeleteFirst`, `StoreBatch`,
`MarkProcessed`, `CleanupPartialIngest`, `EndLoop`, then `WaitCollectors`, `RefreshDashboard`,
`PruneRecords`, `PruneAnalytics`. `Statement` gives a database call its three outcomes: it commits, it
fails, or it commits and the caller sees an error. OCI rows are inserted, CUR rows upserted; OCI
objects with a mark are skipped, CUR exports never are; the OCI loop stops after three failures in
a row, the CUR loop goes on; OCI always cleans up after an error, CUR only when a batch was
handled: these differences of the two collectors are in `StoreCostRecords`, `Skips`,
`FailuresAfter` and `HandleError`. A file is not read to its end for one of two reasons: the parser fails with an error that
the collector handles (`ParserFails`; for CUR only before the first row, or when the context is found cancelled at a row), or the
stream of a CUR export breaks before its end was read (`StreamBreaks`): the CUR parser then never gets out of its loop, and the
collector stays in `"stuck"` with the run lock held, until a crash. `Crash` drops everything but the database at any step of a run.
`unacked` and `lost` are history: marks committed without acknowledgement, and days whose refresh
did not happen: it failed, the process died before it, or the insert of their rows was not acknowledged, so that
the run does not know of them.

**CostViews.** The unit of everything is one billed line on one day. A stored row, a row of a summary and what
a reader shows name the units they sum, so that counting twice and not counting can be told apart; prices are
needed only where the code compares sums. A line has a category and a currency, and so have the keys of rows and summaries. `records`, `daily`, `weekly` and `anomalies` are the tables,
`dirty` is history: days whose records changed since a refresh covered them. The cloud restates bills
(`Restate`), time passes (`Tick`), and the process ends between or in runs and may come back with another collector
configured (`Restart`): a table then holds the rows of both. A run is `StartRun`; for Cost Explorer one
`GetCostAndUsage` per query, of which the region query may fail without failing the collection, and
`StoreIngestedBatch`; for the streaming collectors `CollectCur` and `CollectOci`, which are only what `CostIngestion`
shows them to leave behind; then `RefreshDashboard`, when rows were inserted, and `Maintain`. Rows are made with the
groups, keys and conflict keys of `mapMetric` and `storeCostRecordsTx`, so two regions that
`normalizeRegion` gives one name overwrite each other. The readers are operators: `General` is the SQL selection
(CUR on a day that has it, else the rows per linked account), `RowMatchesView` and `Shown` the Go selection,
which depends on what a view groups by and filters on; `DimensionValue` is the name a row has there, "Unknown" where
it has none. On them stand `Timeseries`, `Breakdown`, `Drilldown`,
`FilterOptions`, `AggregateCosts`, `Overview`, `OverviewForProvider`, the two anomaly detections
(`AnomaliesOf` with a baseline in days over the series of `DashboardSeries`, per currency and all categories as one;
`DetectAnomalies` with a baseline in rows over those of `ReportSeries`, per category and all currencies as one), the choice of the day whose movements are shown
(`MovementDay`) and `VarianceCost`, which reads that day from the records. Both detections use one test
(`Flags`, `Anomalous`) on a cost and a function from baseline days to costs; the z-score is compared in integers,
multiplied out. Prices are integers: a bill has credits.

**OciSelection.** Reports have numbers in the order they were written; between two reports up to `MaxGap` numbers
are missing. The searches of the collector are recursive functions on a record of the loop's variables, one call per
probe or page: `Bisect` goes on with `Halve` (a record of probes left, `low`, `high`, `best`), `StartNumber` with the
report `Ahead` of the last (probes left and `low`), `Listed` with the first report `Beyond` its `NextPage`, until
`ScanLimit` (`MaxObjectScan`, or the file limit where that is not configured).
`RecentListed` and `ListCandidates` are what is made of the listing, with `ListedPrefix` as the fallback; the rest is the
loop with the file, runtime, zero-yield and failure limits, and `EndRun` with the checkpoint rule. A run begins for the
scheduler (`StartRun`) or for a client that may ask for a number of days (`RequestRun`), which narrows `EffectiveSince`;
`narrowed` is history: where the window of the latest such run began that moved the checkpoint. Failing files,
listing and database calls come out of one budget. OCI does not rewrite a numbered report here;
rewritten objects are the subject of `CostIngestion`.

**ReportDelivery.** Time goes in half days; crons fire at the start of a day's second half. A
`run[a]` is one delivery in progress, of the report scheduler, of the ingestion scheduler after a run, or of
a client: `CheckComplete` (day by day), `CheckDelivered`, `BuildReport`, `SendReport`,
`RecordDelivery`. A client's delivery builds first and has no completeness check. `rows`, `gone` and
`ingest` are ingestion as far as these checks can see it. `excused` collects the causes that
may repeat a delivery; `blank` scheduled reports that were built without rows nobody was about to
restore.

**WasteDetection.** Resources are block volumes, instances and reserved public IPs; boot volumes go the way
of block volumes. `det` is the run in progress: `ListCompartments`, then `ListResources`,
`ListAttachments` and `ListPublicIPs` per scope, the root first; `UpsertResources`,
`ReplaceRelationships` per scope and kind in any order (the code ranges over a Go map), `MarkMissingStep`,
`CompleteSync`, `EvaluateInventory` with the three rules over what the database returns (`Loaded`),
`UpsertFinding`, `ResolveMissing`. The relationship key has no scope, so an attachment found in a new
scope moves there (`ReplaceScoped`). `steady` and `suspect` are history about the cloud since the sync began, and
give the properties a truth to compare with that is not the program's own inventory.

**IngestionJobs, Enrichment, EnrichedIngestion.** The job store with `Enqueue`, `Begin`, `Complete`, `Notify`,
the recovered `Panic`, and `Trimmed`; the AI service with `Take`, `Load`, `Reuse`, `Generate`,
`Save`, `Cancel`, and the two that `queueMu` keeps apart: a caller gets the read lock and looks at `closed` (`FindsOpen`,
`FindsClosed`), sends or drops in a later step (`Send`), and a panic in between gives the lock back (`Unlock`); `CloseQueue` asks
for the write lock, gets it when no reader is left, sets `closed`, and closes the channel, in four steps. A writer that waits
lets no new reader in (`MayRead`), as `sync.RWMutex` has it. Any number of goroutines may hold the read lock. The composition adds the anomalies table, whose rows get new IDs on
every refresh, the submission after a run (`ReadAnomalies`, `SubmitNext`, `Return`), and the process's
end: a shutdown in which job goroutines go on, or a restart.

## 3. Runs

| Run | Module, configuration | Shows |
|---|---|---|
| cost_faults | MCCostIngestion, CostIngestionFaults | `NoDoubleCount`, `SingleVersion`, `ProcessedComplete`, refinement of `SourceReplacement`, under errors, lost acknowledgements, crashes and racing callers |
| cost_summaries | MCCostIngestion, CostIngestionSummaries | `SummariesCoverStore` for both providers in one run; `RunEnds` under fairness, but for a CUR stream that broke |
| cost_retention | MCCostIngestion, CostIngestionRetention | `RawRecordsRetained` fails (finding) |
| cost_stuck | MCCostIngestion, CostIngestionStuck | `RuntimeIsLimited` fails (finding) |
| cost_views | MCCostViews, CostViews | refinement of `MaterializedView`; no line counted twice by a view; readers agree on clean days, by region and by week; anomalies fit the summaries; the two anomaly detections agree on one series of one category and currency |
| oci_selection | OciSelection | with gaps of one number, search, limits and checkpoint leave no report behind and get to each, but for those a narrower request passed over |
| oci_gap | OciSelection, OciSelectionGap | `NoReportLeftBehind` fails with gaps of two numbers (finding) |
| delivery | ReportDelivery | records mean sends; repeats have a cause; only days under replacement are missing; due reports get through |
| delivery_twice | ReportDelivery, ReportDeliveryTwice | `DailyReportOnce` fails without a fault (finding) |
| waste | MCWasteDetection, WasteDetection | complete syncs only, no false alarm, steady waste found, findings converge |
| waste_stale | MCWasteDetection, WasteDetectionStale | `DetectsDetachedVolumes` fails (finding) |
| enriched | EnrichedIngestion | jobs end and free their slot; texts bought once and shown where they belong; no send on the closed channel; Close gets its lock |

### Bounds

- *Ingestion*: one or two objects, two versions, up to four days. A rewritten object with a row more
  in its second version is enough for old rows, new rows and both; a buffer of one row makes a file
  span several batches, so a failure can fall between any two. Two callers are all the lock tells apart
  (symmetric). `MaxConsecutiveObjectFailures` (code: 3) is 1 in `cost_faults`, so that its one object reaches it; what the limit does to
  the objects after it is checked in `OciSelection`. `cost_stuck` needs one export of one version. `Lookback` is 0 in `cost_faults`, so a row leaves the window while its file
  is being stored.
- *Views*: four days, of which one leaves a retention of two; weeks and baselines of two days (code: 7), so that weeks are
  cut by windows and a baseline reaches behind one. One bill is restated once, lower and in other regions. One fault,
  a failed call or the end of a process in a run. Seven lines: a service in two regions, in one of them also under a second category, a
  service under the two region names that become `global`, and one of OCI in two currencies; prices 1 and 4 cross the 30 percent and the one quarter of the
  code in both directions. The collector is changed once, from any of the three to any other.
- *Selection*: four report numbers, of which every other one may be missing, pages of two, three hours of time, first step 2
  (code: 100 000): the seek, the bisection and the fallback to the prefix all happen. Three probes (code: 32) are as
  many as four numbers need, 2^(3-1) of them. Two failures in a row and two files per run make each limit reachable. The listing's margin is 0, where
  a wrong edge shows at once. One request asks for an hour of a lookback of two, and one call fails.
  In the run with gaps of two there are 32 probes and no faults: a bracket stalls from five numbers on: low, a recent
  report before the middle, two missing numbers, and high. Times are hours where the code has days and hours.
- *Delivery*: weeks of two days, three to four days, one destination, one fault and one request of a client, for an
  ingestion or for a report. Two deliveries of one report in flight are all a race needs.
- *Waste*: a volume, a cheap public IP that can be assigned to a private IP, an instance, two compartments of
  which one can be deleted, two changes of the cloud, one verdict, one fault: the properties compare one sync
  with what an earlier one left. The cheap IP is reported only when its cost cannot be read.
- *Enriched*: two jobs and the scheduler with room for one finished job (code: 20), two anomalies and two
  row IDs, a queue of one, one fault of any kind. A run submits one anomaly (`MaxItems`): that a caller submits more
  than one in a row adds nothing that another caller does not.

The counters that bound an environment (faults, changes, verdicts, mishaps) are state, so liveness is
checked as "once failures stop".

### Fairness

Goroutines that can take a step take one: weak fairness per collector goroutine and for the tail of a run
(`CostIngestion`), per delivery (`ReportDelivery`) and for the steps of a run (`OciSelection`,
`WasteDetection`). Tickers tick: weak fairness of starting a scheduled run, of the report timer, of the start of a
process that died (the deployment restarts the container). Go's scheduler and `time.Ticker` justify these.
Nothing is assumed of clouds, users, clients or time: no fairness on uploads, changes, requests or `Tick`.
Fairness never forces a failing alternative: it is on whole steps, whose faults are bounded.
`CostViews` and `EnrichedIngestion` are checked for safety only. What must end in the latter is stated as state properties:
an unfinished job always has a goroutine to complete it (`UnfinishedIsWorkedOn`), and whoever holds the read lock that
`Close` waits for stands before a send, which never blocks, and after which the lock is given back (`CloseNeverStuck`).
`RunEnds` excepts a run whose CUR parser is stuck (`ParserStuck`), which is finding 5 of section 5.

## 4. Proofs

Every safety property that the runs check is proved by TLAPS, for every value of the constants that the modules'
assumptions allow; what stays with TLC is listed at the end of this section. TLC checked each inductive invariant on the
runs' instances before it was proved.

| Module | Theorem | Property |
|---|---|---|
| `CostIngestionProofs` | `TypeCorrect` | `TypeOK` |
| | `NoRowTwice` | `NoDoubleCount` |
| | `OneVersionPerExport` | `SingleVersion` |
| | `ImplementsReplacement` | `ReplacesExports`, the refinement of `SourceReplacement` |
| | `MarkedIsComplete` | `ProcessedComplete` |
| | `SummariesAreComplete` | `SummariesCoverStore` |
| `MaterializedViewProofs` | `FreshDaysAgree` | `FreshAgrees` of the abstract view |
| `CostViewsProofs` | `TypeCorrect` | `TypeOK` |
| | `TablesAreAView` | `ImplementsView`, the refinement of `MaterializedView` |
| | `AllReadersAgree` | `ReadersAgree` |
| | `WeeksAgree` | `WeeklyAgreesWithReports` |
| | `NoLineCountedTwice` | `NothingCountedTwice` |
| | `RegionFilterIsConsistent` | `RegionFilterAgrees` |
| | `RegionsAddUp` | `RegionTotalsMatch` |
| | `MovementDayIsWhole` | `MovementsCompareWholeDays` |
| | `AnomaliesAreOfSummaries` | `AnomaliesFit` |
| | `DetectionsAgree` | `ReportsFlagWhatDashboardsFlag` |
| `OciSelectionProofs` | `TypeCorrect` | `TypeOK` |
| | `SeekIsSafe` | `SeekSkipsNothingRecent`, for gaps of one number |
| | `ListedIsPage` | pages neither repeat nor leave out a report |
| | `NothingLeftBehind` | `NoReportLeftBehind`, for gaps of one number and a bucket within the scan limit; but for reports before the window of a narrower request |
| `ReportDeliveryProofs` | `TypeCorrect` | `TypeOK` |
| | `RecordMeansSent` | `RecordedWasSent` |
| | `RepeatsHaveExcuse` | `RepeatsExplained` |
| | `OnlyReplacedDaysAreMissing` | `OnlyReplacedDaysMissing` |
| `WasteDetectionProofs` | `TypeCorrect` | `TypeOK` |
| | `CompleteSyncEvaluated` | `EvaluatesCompleteSync` |
| | `NoAlarmIsFalse` | `NoFalseAlarm` |
| | `SteadyWasteFound` | `FindsSteadyWaste` |
| `EnrichedIngestionProofs` | `TypeCorrect` | `TypeOK` |
| | `ActiveIsUnfinished` | `UnfinishedIsActive` |
| | `UnfinishedHasGoroutine` | `UnfinishedIsWorkedOn` |
| | `ModelNotAskedAgain` | `NeverAsksAgain` |
| | `NeverSendsOnClosed` | `NoSendOnClosed` |
| | `CloseGetsTheLock` | `CloseNeverStuck` |
| | `TextBelongsToAnomaly` | `TextFitsAnomaly` |
| | `TasksHaveText` | `TasksEndWithText`, an action property |

The assumptions are on constants only (`ConstantsAssumption`, `DeliveryAssumption`, `WasteAssumption`, `JobsAssumption`,
`EnrichmentAssumption`, `ItemsAssumption`, `SelectionAssumption`): bounds are natural numbers, sets that name different things are disjoint,
a report's lag is no longer than its week. Lookback and retention are in any order, as in the configuration. The bounds on
clocks, faults and changes are constants too, so the theorems hold however far they are moved. Two theorems of
`OciSelectionProofs` have hypotheses of their own, stated with them and explained below.

Almost none of these properties is inductive as it stands. What had to be added is what makes the code correct:

**CostIngestion.** `Structure` (`CostIngestionProofs`): types; a caller inside `Run` holds the lock; a collector works
only while its `Run` waits for it; what a collector listed or holds exists in the bucket in that version or a later
one and is of its own provider; the buffer and the rest of the file are disjoint.
From it follows `HeldApart`: two collectors at work belong to one run, so to different providers, and hold
different objects. That is the step where the run lock is needed.

`StoreInv`: `NoDoubleCount`, `SingleVersion`, and `ClearedHoldsFlushed`: once a collector has
deleted the rows of its object and until it marks or cleans it up, whatever is stored of the object is of
the version it reads, and is neither in the buffer nor still to come. So a plain insert of the buffer never
meets one of its own rows, though the table has no key to stop it. A failure leads to the cleanup, which leaves the
object in any state: the next collector to hold it deletes first, so nothing has to be known about it. Refinement uses the
same invariant: a delete is `Drop`, a batch is `Fill`, retention is `Expire`, all else stutters.

`CompleteInv`: a mark is of a version that there is or was (`MarksExist`); what an OCI collector listed or holds is not
marked in a later version, and what it holds not in its own (`MarksFit`); each row of the version it reads
is still to come, in the buffer, older than the window, or stored (`ReadsAll`). At the mark nothing is to come. The mark is made with the listed ETag, while the
download may be of a later version: such a mark is not of the present version, and says nothing; so `MarksFit` has to follow the order of
versions through listing, download and mark. Later, time and retention remove only rows that
`ProcessedComplete` no longer asks for: it speaks of the days inside `Window`, the lookback or, where that is shorter, the retention.

`SummaryInv`: during a run, a stored row that is in no summary, not lost and not expired is of a day on or after
the earliest one the run has inserted, which is where its refresh will start; and a run that is about to refresh has such a day. More
inserts only move that day back.

**CostViews.** `ViewsInv`: each row of `cost_records` is made of one version of its day's bill; a summary has its key,
and is the only one with it; and for *every period of clean days*, of one day or of a week, what the table has is what a
refresh would compute from the records. This is stated per period because a week's row is of the records of all its days, so one
stale day makes the week unreliable. Every step is one of four kinds (`StepKinds`): it touches neither records nor tables, changes
records and marks the days it changed, refreshes the tables from a day on, or drops what has expired. The refinement and the reader
theorems rest on the kinds, not on the actions. That readers agree then needs two facts about selections: on one day
the SQL condition and the Go loop choose the same rows, and rows of different keys of one type are of different lines
(`NoLineCountedTwice`). `AnomaliesInv` adds that the anomalies of a day whose baseline is kept are what the summaries
say; it stands on three locality lemmas (`FlagsAreLocal`, `TrailingIsLocal`, `AnomaliesAreLocal`): a flag depends on its day
and its baseline days only, so a refresh from a day on recomputes enough. `DetectionsAgree` has two parts: as far back as the baseline a series of one category and one currency has the same rows
whether categories or currencies are taken as one; and on a
series without a gap the rows before a day are an interval, so the last *n* rows are the last *n* days (`RowsAreDays`). `QueriesInv` and `VersionsInv` say that a
query's rows of a day are in the run's memory all or not at all, and that `cost_records` holds a whole version's rows per
day and grouping, under rows that the version overwrote.

**OciSelection.** Below the state machine are three recursive functions. `RecursionHasSolution` (`NaturalFacts`) shows
that a function defined by recursion on a rank that falls satisfies its equation; with it each search is unfolded one call
at a time (`BisectSearchUnfolds`, `SeekSearchUnfolds`, `ListSearchUnfolds`), and induction over the rank (`SetInduction`,
for a set of numbers) carries an invariant of the loop through the calls.

Of the bisection it is `Brackets` (low is old, high is recent and the best so far) with `WithinReach`: what lies between is no
more than `2^(left-1) + 1` numbers. A probe halves that, up to the gap before the report it finds (`HalveKeepsReach`); when the
probes are used up nothing lies between, and high is the first recent report (`BisectFindsFirst`). Where the report that is
found is high itself the bracket does not shrink. With gaps of one number that happens only when nothing lies between any
more; with two it can happen before, and the search then never moves again. Trying to prove `WithinReach`
without a bound on gaps is how the finding `oci_gap` was met: `MaxGap <= 1` is the exact condition and no convenience. The other
hypothesis, `MaxNumber <= power[MaxProbes - 1]`, bounds the bucket by 2^31 numbers for the code's 32 probes; `power` is any
function with the equations of the powers of two (`PowersOfTwo`), since the prover knows no exponents.

Of the listing the invariant is `GoesOn`: what it has begins what there is, and it goes on with the rest. A beginning of
the right size is unique (`PageIsBeginning`), so page after page is one page.

`SelectionInv` then says of the state: a run looks back to its lookback or to an hour before the checkpoint, or to where its request
narrowed that, and lasts no
longer than `MaxRunTime` (`RunInv`); while it scans without an error, each report is processed, still to do, older than
its window, or written since it began (`ScanInv`); and `NoReportLeftBehind` itself. `BucketInv` keeps the order of the reports and
their gaps. When a run moves the checkpoint to its end, what was written while it ran must be behind the new checkpoint by less than the overlap: so
`MaxRunTime <= Overlap`, an hour, which the default `max_runtime` of ten minutes leaves room for and a configured one need not. `EveryReportListed`, the
other hypothesis of `NothingLeftBehind`, is that the bucket holds no more reports than one run lists (`max_object_scan`, 10 000 in the
example configurations); section 5 says what happens without it. It is about all reports and not those of the window,
since a seek that finds nothing starts at the first.

**ReportDelivery.** `OnceInv` says of a delivery without an excuse: at most one deliverer has it pending, it was not sent
before that deliverer is about to record it, and what was sent is recorded or about to be. A fault, force, a crash or a
race puts the delivery into `excused` at the step where this breaks. `DaysInv` says that the days a scheduled delivery has
asked for have rows or are being replaced: ingestion may take away and give back, never drop. Nothing bounds the number of deliverers.

**WasteDetection.** No inventory is a snapshot, so the invariant speaks of history: `ListedInv` bounds what a sync has
listed from above (what is not suspicious and was listed exists), `ScanInv` from below (in scopes whose turn has been, what exists, what
was attached all the time, and what was waste all the time is listed), `StoredInv` says how far the inventory has taken it over,
per batch of relationships, in any order. `NoAlarmIsFalse` and `SteadyWasteFound` are these two sides.

**EnrichedIngestion.** `LockInv`: from the step on in which `Close` gets the write lock nobody holds the read lock, and
whoever holds it is a run that has found the service open and has an anomaly before it. That nobody sends on the closed channel follows from
the first half, that `Close` gets its lock is the second; the deferred `RUnlock` is needed where a run panics. `JobsInv`: a job before its completion is the active one, the active one is unfinished and in
the store, whatever `Trimmed` drops. `TaskInv` and `TextInv` follow a row ID from the anomalies table through a batch, the
queue and the worker to the text: IDs are given once, so a text either belongs to the anomaly that has its
ID or to an ID that is gone.

Only model-checked, and why:

- Liveness (`RunEnds`, `DueReportSent`, `FindingsFollowCloud`, `ReportsGetIngested`): TLAPS has no support for
  fairness, which is `ENABLED`.
- The findings of section 5: a counterexample is a behaviour.

## 5. Where the documents and the code differ

Five runs end in a counterexample to something the repository says of itself; `PROJECT.json` quotes the
lines:

1. Raw records are not retained for the retention period when their export is ingested again
   (`cost_retention`; README.md:47, service.go:290).
2. Object selection is not "only an efficiency heuristic": where two numbers are missing between two reports, the
   bisection for the first recent report can stall, and reports before its answer are left behind for good
   (`oci_gap`; README.md:209, oci/collector.go:436). The code itself reckons with gaps: it asks for the first report
   at or after a number.
3. The delivery after ingestion runs can repeat a daily report (`delivery_twice`; README.md:271, app.go:342).
4. A detached volume stays undetected behind an attachment of a compartment that is gone
   (`waste_stale`; rules/oci.go:82, inventory_collector.go:157).
5. `max_runtime` does not limit an AWS CUR run whose stream breaks: the parser takes every read error but the end of the
   file for a malformed row and reads on, for ever, with the run lock held (`cost_stuck`; README.md:148, aws/cur_parser.go:70).

Others were met while modelling and have no run of their own; where a property would meet them, it names them as an
exception:

- Without `max_object_scan` the listing stops at `max_files_per_run` names, the oldest of the window; a run that handles
  these hits no limit it knows of, the checkpoint moves to the present, and newer reports that were in the bucket, older than an
  hour, are never ingested (README.md:209, oci/collector.go:268, service.go:133). `OciSelection.cfg` with `MaxObjectScan = 0`
  shows it without any fault; the example configurations set 10 000.
- A request for fewer days than the lookback (`POST /api/v1/ingest?days=N`, handler.go:190) looks at those days only, and moves
  the checkpoint to the present like any other run (collect/service.go:133): reports of the lookback that no run had ingested yet are
  left behind for good, though README.md:434 promises a 30-day lookback and handler.go:171 an ingestion within the configured
  window. `NoReportLeftBehind` and `ReportsGetIngested` except what is older than the window of such a run; without
  `modified[n] < narrowed` in the former TLC shows the loss with `OciSelection.cfg`.
- A rerun does not rebuild summaries when it inserts nothing new (docs/deployment.md:691, service.go:163): after a
  refresh that failed, only rows inserted later bring the next. `SummariesCoverStore` says that stale days are exactly those
  whose refresh was lost.
- The Grafana endpoints sum every row of a summary table (README.md:184, grafana.go:111), so a line that Cost
  Explorer returned in several groupings is counted once for each. `NothingCountedTwice` holds of them per record type.
- A drill into the scopes of a region (README.md:384) reads the rows per region, whose scope is "all".
- A week with CUR on some days and only Cost Explorer on others is shown by the dashboards with its CUR days
  alone (dashboard.go:933): `WeeklyAgreesWithReports` leaves such weeks out (`MixesSources`).
- Reports and dashboards detect anomalies differently: with a baseline of a number of rows and of a number of
  days (docs/deployment.md:704), and on series per category, all currencies added up (repository.go:697), and per currency, all
  categories added up (repository_dashboard.go:218). A service with two categories can have an anomaly in one and none in the
  other. `ReportsFlagWhatDashboardsFlag` is about series without a gap that have one category and one currency as
  far back as the baseline; without `OneSeries` in `Comparable` TLC shows a difference with `CostViews.cfg`.
- A job posted while the *scheduler's* run is active is not answered with an active job (README.md:259): it is queued,
  finds the lock taken and ends as failed (`Begin` in `IngestionJobs`).
- A sync that fails while it writes has changed the inventory, though docs/waste-detection.md:5 says failed runs
  leave it untouched: resources are upserted before relationships, and relationships scope by scope
  (`UpsertResources`, `ReplaceRelationships`). `EvaluatesCompleteSync` shows that the next successful run repairs it
  before anything is evaluated.

## 6. Abstractions

In `CostIngestion` costs, currencies, services and tags of a row influence no step and are left out; in `CostViews` a row
has the dimensions readers select by, and a price. Formats of messages and reports, logging and metrics are left out
everywhere. Times are days, half days or hours, whichever a module's checks compare. Windows end on whole days:
the day that a lookback or retention cuts in its middle is not half in and half out. In `CostIngestion` a summary table is
the set of rows its totals count. The weekly and monthly tables are one, with an aligned period. Of the six default
queries of Cost Explorer, the four whose rows no summary and no reader selects are left out; the pages of a query are all
or nothing, as the code keeps none of a query that failed. Which of two rows with one key is stored last is fixed.
Database errors have no kinds: the code does not tell them apart. That a report is sent before its time no property would notice.
`WasteDetection` leaves out the inventory sync that is skipped, and `ReportDelivery` the HTTP reports with a range of their own
(`from`, `to`), which are recorded under that range.
Two instances of Torvix on one database are not
modelled: nothing in the deployment describes it.

Not modelled: the local-file variant of the CUR collector; of the HTTP queries, the columns that compare with a
previous period, filters by scope, compartment and service, ranges, limits, authentication and the endpoints that
read waste findings; forecasts (`cost_forecasts`, `ForecastCosts`), which are arithmetic over a series and change
nothing else; message formats; the migrator; configuration, logging, metrics.

## 7. Plan

In the order of what matters most next:

1. The migrator: apply and record in one transaction or two, crash between, two processes.
2. Waste findings in the AI queue: a finding is updated in place, so the text joined to it can be of an
   older input, unlike an anomaly's.
3. Alert notifications of a run: one target that fails keeps the others from hearing.
4. Liveness of `EnrichedIngestion` on a smaller instance: every accepted job finishes, `Close` returns.
