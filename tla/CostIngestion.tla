--------------------------- MODULE CostIngestion ---------------------------
(***************************************************************************)
(* One ingestion run of Torvix: collect.Service.Run, the streaming OCI and *)
(* AWS CUR collectors it starts in parallel, and the PostgreSQL repository *)
(* they write to.                                                          *)
(*                                                                         *)
(* A billing export is an object of a bucket.  The cloud overwrites it now *)
(* and then: bucket[o] is the version (ETag) that is there.  A version     *)
(* holds one billing row per day of Content[<<o, v>>].  The collector      *)
(* streams the rows in batches; each batch is its own database             *)
(* transaction, and so are the delete before the first batch, the cleanup  *)
(* after a failure and the "processed" mark after the last batch.  The     *)
(* process can die between any two of them.                                *)
(*                                                                         *)
(* Which objects a listing returns is left open here (any of those that    *)
(* exist, in any order): OciSelection models how they are selected.        *)
(***************************************************************************)
EXTENDS Integers, FiniteSets, FiniteSetsExt

CONSTANTS
  Callers,        \* who calls Run: the ingestion scheduler, HTTP job goroutines
  NoRun,          \* "runMu is free"
  OciObjects,     \* names of OCI cost reports
  AwsObjects,     \* keys of AWS CUR exports
  MaxVersion,     \* bound: how often the cloud rewrites an object
  MaxDay,         \* bound: the last day of the model
  Content,        \* Content[<<o, v>>]: the days version v of o has a row for
  Lookback,       \* ingestion.lookback_days
  Retention,      \* ingestion.retention_days
  DaysPerPeriod,  \* length of an aligned summary period (a week, a month)
  MaxFilesPerRun, \* ingestion.max_files_per_run
  BufferRecords,  \* ingestion.max_memory_buffer_records
  MaxConsecutiveObjectFailures, \* the collector's constant of that name
  MayFail,        \* database, download and parse calls may return an error
  MayLoseAck,     \* a statement may commit and still return an error
  MayCrash        \* the process may die at any moment

Providers == {"oci", "aws"}
Objects   == OciObjects \cup AwsObjects
Versions  == 1..MaxVersion
Days      == 0..MaxDay
Workers   == Callers \X Providers
Row       == [obj : Objects, ver : Versions, day : Days]

ASSUME ConstantsAssumption ==
  /\ NoRun \notin Callers
  /\ OciObjects \cap AwsObjects = {}
  /\ MaxVersion \in Nat /\ MaxDay \in Nat
  /\ Content \in [Objects \X Versions -> SUBSET Days]
  /\ Lookback \in Nat /\ Retention \in Nat
  /\ DaysPerPeriod \in Nat \ {0}
  /\ MaxFilesPerRun \in Nat \ {0} /\ BufferRecords \in Nat \ {0}
  /\ MaxConsecutiveObjectFailures \in Nat \ {0}
  /\ MayFail \in BOOLEAN /\ MayLoseAck \in BOOLEAN /\ MayCrash \in BOOLEAN

VARIABLES
  today,     \* the clock, in days
  bucket,    \* the clouds: the version of each object (0: not there yet)
  stored,    \* cost_records: how many times each row is stored
  processed, \* processed_report_files: the <<object, ETag>> marks
  daily,     \* daily_cost_summaries: the rows their totals count
  monthly,   \* weekly and monthly summaries: the rows their totals count
  runMu,     \* Service.runMu
  phase,     \* per caller: where its Run is
  col,       \* per caller and provider: the collector goroutine's locals
  inserted,  \* per caller: the days of the rows the run inserted
  failed,    \* per caller: allErrs is not empty
  unacked,   \* history: marks that were committed while the call returned an error
  lost       \* history: days whose summaries missed the refresh after an insert

cloudVars   == <<today, bucket>>
markVars    == <<processed, unacked>>
storeVars   == <<stored, markVars>>
summaryVars == <<daily, monthly, lost>>
runVars     == <<runMu, phase, inserted, failed>>
vars == <<cloudVars, storeVars, summaryVars, runVars, col>>

-----------------------------------------------------------------------------
(* The data.                                                               *)

ObjectsOf(p) == IF p = "oci" THEN OciObjects ELSE AwsObjects

\* The days of the rows that the parser yields for a version.
Parsed(o, v) == Content[<<o, v>>]

\* The canonical records of the rows of some days.
RowsOf(o, v, days) == {r \in Row : r.obj = o /\ r.ver = v /\ r.day \in days}
InStore == {r \in Row : stored[r] > 0}
PeriodStart(day) == day - (day % DaysPerPeriod)

IdleWorker ==
  [pc |-> "done", todo |-> {}, obj |-> "none", ver |-> 0, got |-> 0,
   left |-> {}, batch |-> {}, first |-> TRUE, started |-> 0, failures |-> 0]

PCs == {"done", "list", "next", "parse", "stuck", "delete", "store", "mark", "cleanup"}
Phases == {"idle", "collect", "dashboard", "prune_records", "prune_analytics"}

WorkerState ==
  [pc : PCs, todo : SUBSET (Objects \X Versions),
   obj : Objects \cup {"none"}, ver : 0..MaxVersion, got : 0..MaxVersion,
   left : SUBSET Days, batch : SUBSET Days, first : BOOLEAN,
   started : Nat, failures : 0..(MaxConsecutiveObjectFailures - 1)]

TypeOK ==
  /\ today \in Days
  /\ bucket \in [Objects -> 0..MaxVersion]
  /\ stored \in [Row -> Nat]
  /\ processed \subseteq Objects \X Versions
  /\ daily \subseteq Row /\ monthly \subseteq Row
  /\ runMu \in Callers \cup {NoRun}
  /\ phase \in [Callers -> Phases]
  /\ col \in [Workers -> WorkerState]
  /\ inserted \in [Callers -> SUBSET Days]
  /\ failed \in [Callers -> BOOLEAN]
  /\ unacked \subseteq Objects \X Versions
  /\ lost \subseteq Days

Init ==
  /\ today = 0
  /\ bucket = [o \in Objects |-> 0]
  /\ stored = [r \in Row |-> 0]
  /\ processed = {} /\ unacked = {}
  /\ daily = {} /\ monthly = {} /\ lost = {}
  /\ runMu = NoRun
  /\ phase = [c \in Callers |-> "idle"]
  /\ col = [w \in Workers |-> IdleWorker]
  /\ inserted = [c \in Callers |-> {}]
  /\ failed = [c \in Callers |-> FALSE]

-----------------------------------------------------------------------------
(* The repository: one operator per statement or transaction.              *)

\* Mutant: only rows of recent days go.
DeleteRecentRows(o) ==
  stored' = [r \in Row |-> IF r.obj = o /\ r.day >= today - Lookback
                           THEN 0 ELSE stored[r]]

\* DeleteCostRecordsForSource: every row of the object, whatever its version.
DeleteCostRecordsForSource(o) ==
  stored' = [r \in Row |-> IF r.obj = o THEN 0 ELSE stored[r]]

\* filterRecordsWithinLookback
WithinLookback(days) == {d \in days : d >= today - Lookback}

\* storeCostRecordsTx: OCI rows are plainly inserted, CUR rows upserted by
\* source key and record hash.
StoreCostRecords(p, rows) ==
  stored' = [r \in Row |->
               IF r \notin rows THEN stored[r]
               ELSE IF p = "oci" THEN stored[r] + 1 ELSE 1]

\* MarkReportProcessed
MarkReportProcessed(o, etag) == processed' = processed \cup {<<o, etag>>}

\* A statement of worker w's transaction: it commits and w goes on, it fails
\* and changes nothing, or it commits and its acknowledgement is lost.
Statement(Commit, Nothing, GoOn, OnError) ==
  \/ Commit /\ GoOn
  \/ MayFail /\ Nothing /\ OnError
  \/ MayLoseAck /\ Commit /\ OnError

-----------------------------------------------------------------------------
(* The clouds and the clock.                                               *)

\* The cloud writes the next version of an export, with rows of past days.
Upload(o) ==
  /\ bucket[o] < MaxVersion
  /\ Content[<<o, bucket[o] + 1>>] \subseteq 0..today
  /\ bucket' = [bucket EXCEPT ![o] = @ + 1]
  /\ UNCHANGED <<today, storeVars, summaryVars, runVars, col>>

Tick ==
  /\ today < MaxDay
  /\ today' = today + 1
  /\ UNCHANGED <<bucket, storeVars, summaryVars, runVars, col>>

-----------------------------------------------------------------------------
(* Run: the lock and the collectors it starts.                             *)

\* Mutant: a caller only looks at its own last run.
OwnRunOver(c) == phase[c] = "idle"

\* TryLock.  A caller that finds the lock taken gets ErrRunAlreadyActive and
\* changes nothing.
TryLock(c) == runMu = NoRun /\ phase[c] = "idle"

\* Mutant: an early return that skips the unlock.
KeepLock == UNCHANGED runMu

Unlock == runMu' = NoRun

StartRun(c) ==
  /\ TryLock(c)
  /\ runMu' = c
  /\ phase' = [phase EXCEPT ![c] = "collect"]
  /\ inserted' = [inserted EXCEPT ![c] = {}]
  /\ failed' = [failed EXCEPT ![c] = FALSE]
  /\ col' = [w \in Workers |->
               IF w[1] = c THEN [IdleWorker EXCEPT !.pc = "list"] ELSE col[w]]
  /\ UNCHANGED <<cloudVars, storeVars, summaryVars>>

Fail(c) == failed' = [failed EXCEPT ![c] = TRUE]

\* What worker w's loop keeps when it leaves an object for the loop head
\* ("next") or returns ("done").
Leave(w, pc, failures) ==
  IF pc = "done" THEN IdleWorker
  ELSE [IdleWorker EXCEPT !.pc = "next", !.todo = col[w].todo,
                          !.started = col[w].started, !.failures = failures]

\* The OCI collector stops after so many failures in a row; the CUR collector
\* goes on with the next object.
FailuresAfter(w) == IF w[2] = "oci" THEN col[w].failures + 1 ELSE 0

\* Mutant: the loop bears one failure more.
PastFailureLimit(w) == FailuresAfter(w) > MaxConsecutiveObjectFailures

FailureLimitReached(w) == FailuresAfter(w) >= MaxConsecutiveObjectFailures

AfterFailure(w) ==
  Leave(w, IF FailureLimitReached(w) THEN "done" ELSE "next", FailuresAfter(w))

At(w, pc) == phase[w[1]] = "collect" /\ col[w].pc = pc

\* The bucket listing: some of the objects, each with its ETag of now.
ListObjects(w) ==
  /\ At(w, "list")
  /\ \/ /\ \E seen \in SUBSET {o \in ObjectsOf(w[2]) : bucket[o] > 0} :
             col' = [col EXCEPT ![w] = [@ EXCEPT
                       !.pc = "next", !.todo = {<<o, bucket[o]>> : o \in seen}]]
        /\ UNCHANGED failed
     \/ /\ MayFail /\ Fail(w[1])
        /\ col' = [col EXCEPT ![w] = IdleWorker]
  /\ UNCHANGED <<cloudVars, storeVars, summaryVars, runMu, phase, inserted>>

\* IsReportProcessed: only the OCI collector skips what was processed before.
Skips(p, o, etag) == p = "oci" /\ <<o, etag>> \in processed

SkipObject(w) ==
  /\ At(w, "next")
  /\ \E x \in col[w].todo :
       /\ \/ Skips(w[2], x[1], x[2]) /\ UNCHANGED failed
          \/ w[2] = "oci" /\ MayFail /\ Fail(w[1])  \* the check itself failed
       /\ col' = [col EXCEPT ![w].todo = @ \ {x}]
  /\ UNCHANGED <<cloudVars, storeVars, summaryVars, runMu, phase, inserted>>

\* What worker w's loop knows of the object it opens.
Opened(w, x) ==
  [pc |-> "parse", todo |-> col[w].todo \ {x}, obj |-> x[1], ver |-> x[2],
   got |-> bucket[x[1]], left |-> Parsed(x[1], bucket[x[1]]),
   batch |-> {}, first |-> TRUE, started |-> col[w].started + 1,
   failures |-> col[w].failures]

\* GetObject returns what the bucket holds now, which the cloud may have
\* rewritten since the listing.
GetObject(w) ==
  /\ At(w, "next") /\ col[w].started < MaxFilesPerRun
  /\ \E x \in col[w].todo :
       /\ ~Skips(w[2], x[1], x[2])
       /\ \/ /\ col' = [col EXCEPT ![w] = Opened(w, x)]
             /\ UNCHANGED failed
          \/ /\ MayFail /\ Fail(w[1])
             /\ col' = [col EXCEPT ![w] =
                  IF AfterFailure(w).pc = "done" THEN IdleWorker
                  ELSE [AfterFailure(w) EXCEPT !.todo = @ \ {x}, !.started = @ + 1]]
  /\ UNCHANGED <<cloudVars, storeVars, summaryVars, runMu, phase, inserted>>

\* The loop ends: nothing left, a limit (files, runtime, zero-yield), or the
\* context was cancelled.
EndLoop(w) ==
  /\ At(w, "next")
  /\ \/ (col[w].todo = {} \/ col[w].started > 0) /\ UNCHANGED failed
     \/ MayFail /\ Fail(w[1])
  /\ col' = [col EXCEPT ![w] = IdleWorker]
  /\ UNCHANGED <<cloudVars, storeVars, summaryVars, runMu, phase, inserted>>

-----------------------------------------------------------------------------
(* One object: parse, flush batch by batch, mark, or clean up.             *)

\* Mutant: the error is recorded and the file goes on.
SwallowError(w) ==
  /\ Fail(w[1])
  /\ col' = [col EXCEPT ![w].pc = "parse", ![w].first = FALSE, ![w].batch = {}]

\* An error while parsing or in the batch handler.  The OCI collector always
\* cleans up; the CUR collector only after a batch was handled.
HandleError(w) ==
  /\ Fail(w[1])
  /\ col' = [col EXCEPT ![w] =
               IF w[2] = "oci" \/ ~col[w].first
               THEN [@ EXCEPT !.pc = "cleanup", !.left = {}, !.batch = {}]
               ELSE Leave(w, "next", 0)]

\* A batch is a full buffer, or what is left of the file.
IsBatch(b, left) ==
  /\ b # {} /\ Cardinality(b) <= BufferRecords
  /\ b = left \/ Cardinality(b) = BufferRecords

\* Mutant: no delete before the First batch.
FlushKeepsOldRows(w, b) ==
  col' = [col EXCEPT ![w].pc = "store", ![w].batch = b, ![w].left = @ \ b]

\* The First batch is preceded by the delete.
FlushBatch(w, b) ==
  col' = [col EXCEPT ![w].pc = IF col[w].first THEN "delete" ELSE "store",
                     ![w].batch = b, ![w].left = @ \ b]

\* An error that ends the parse.  The CUR parser has one only before its first
\* row (gzip, header, columns) or when the context is found cancelled at a row.
ParserFails(w) ==
  /\ w[2] = "oci" \/ col[w].first \/ col[w].left # {}
  /\ HandleError(w)

\* The end of the file is unread while rows are left, and still when the last
\* of them filled a buffer.
EndUnread(w) ==
  \/ col[w].left # {}
  \/ Cardinality(Parsed(col[w].obj, col[w].got)) % BufferRecords = 0

\* The stream of a CUR export breaks: a truncated gzip file, a lost connection.
\* The parser takes every read error but the end of the file for a malformed row
\* and reads on, and gets the same error for ever.
StreamBreaks(w) ==
  /\ w[2] = "aws" /\ EndUnread(w)
  /\ col' = [col EXCEPT ![w].pc = "stuck", ![w].left = {}]
  /\ UNCHANGED failed

\* The parser fills the buffer, or reaches the end of the file, or fails, or never
\* ends.  A file without rows sends its Final batch as the First.
ParseStream(w) ==
  /\ At(w, "parse")
  /\ \/ /\ \E b \in SUBSET col[w].left :
             IsBatch(b, col[w].left) /\ FlushBatch(w, b)
        /\ UNCHANGED failed
     \/ /\ col[w].left = {}
        /\ col' = [col EXCEPT ![w].pc = IF col[w].first THEN "delete" ELSE "mark",
                              ![w].batch = {}]
        /\ UNCHANGED failed
     \/ MayFail /\ (ParserFails(w) \/ StreamBreaks(w))
  /\ UNCHANGED <<cloudVars, storeVars, summaryVars, runMu, phase, inserted>>

DeleteFirst(w) ==
  /\ At(w, "delete")
  /\ Statement(DeleteCostRecordsForSource(col[w].obj), UNCHANGED stored,
       /\ col' = [col EXCEPT ![w].pc = IF col[w].batch = {} THEN "mark" ELSE "store"]
       /\ UNCHANGED failed,
       HandleError(w))
  /\ UNCHANGED <<cloudVars, markVars, summaryVars, runMu, phase, inserted>>

StoreBatch(w) ==
  LET days == WithinLookback(col[w].batch)
  IN /\ At(w, "store")
     /\ \/ /\ Statement(
                StoreCostRecords(w[2], RowsOf(col[w].obj, col[w].got, days)),
                UNCHANGED stored,
                /\ col' = [col EXCEPT ![w].pc = "parse", ![w].first = FALSE,
                                      ![w].batch = {}]
                /\ inserted' = [inserted EXCEPT ![w[1]] = @ \cup days]
                /\ UNCHANGED <<failed, lost>>,
                /\ HandleError(w) /\ UNCHANGED inserted
                /\ lost' = IF stored' = stored THEN lost ELSE lost \cup days)
           /\ days # {}
        \/ /\ days = {}   \* every row is too old: nothing is sent
           /\ col' = [col EXCEPT ![w].pc = "parse", ![w].first = FALSE,
                                 ![w].batch = {}]
           /\ UNCHANGED <<stored, inserted, failed, lost>>
     /\ UNCHANGED <<cloudVars, markVars, daily, monthly, runMu, phase>>

MarkProcessed(w) ==
  /\ At(w, "mark")
  /\ LET mark == <<col[w].obj, col[w].ver>>
     IN Statement(MarkReportProcessed(col[w].obj, col[w].ver), UNCHANGED processed,
          /\ col' = [col EXCEPT ![w] = Leave(w, "next", 0)]
          /\ UNCHANGED <<failed, unacked>>,
          /\ HandleError(w)
          /\ unacked' = IF mark \in processed' THEN unacked \cup {mark} ELSE unacked)
  /\ UNCHANGED <<cloudVars, stored, summaryVars, runMu, phase, inserted>>

\* cleanupPartialIngest; the error that led here is already recorded.
CleanupPartialIngest(w) ==
  /\ At(w, "cleanup")
  /\ \/ DeleteCostRecordsForSource(col[w].obj)
     \/ MayFail /\ UNCHANGED stored
  /\ col' = [col EXCEPT ![w] = AfterFailure(w)]
  /\ UNCHANGED <<cloudVars, markVars, summaryVars, runVars>>

-----------------------------------------------------------------------------
(* The end of Run: summaries, retention, unlock.                           *)

\* Mutant: the refresh starts at the last inserted day.
SinceLatest(c) == Max(inserted[c])

\* totalInserted > 0, and the first day the refresh covers.
Since(c) == Min(inserted[c])
FromDay(c) == {d \in Days : inserted[c] # {} /\ d >= Since(c)}

WaitCollectors(c) ==
  /\ phase[c] = "collect"
  /\ \A p \in Providers : col[<<c, p>>].pc = "done"
  /\ phase' = [phase EXCEPT ![c] =
                 IF inserted[c] # {} THEN "dashboard" ELSE "prune_records"]
  /\ UNCHANGED <<cloudVars, storeVars, summaryVars, runMu, inserted, failed, col>>

Expired(day) == day < today - Retention

\* pruneDashboardAnalytics: by the start of the summary's period.
PrunedDaily(rows) == {r \in rows : ~Expired(r.day)}
PrunedMonthly(rows) == {r \in rows : ~Expired(PeriodStart(r.day))}

\* refreshCostSummary: the window is deleted and recomputed from cost_records.
Recomputed(rows, from) ==
  {r \in rows : r.day < from} \cup {r \in InStore : r.day >= from}

\* RefreshDashboardAnalytics, one transaction from the earliest inserted day,
\* aligned to the period for the coarser tables.
RefreshDashboard(c) ==
  /\ phase[c] = "dashboard"
  /\ \/ /\ daily' = PrunedDaily(Recomputed(daily, Since(c)))
        /\ monthly' = PrunedMonthly(Recomputed(monthly, PeriodStart(Since(c))))
        /\ lost' = lost \ FromDay(c)
        /\ UNCHANGED failed
     \/ /\ MayFail /\ Fail(c)
        /\ lost' = lost \cup FromDay(c)
        /\ UNCHANGED <<daily, monthly>>
  /\ phase' = [phase EXCEPT ![c] = "prune_records"]
  /\ UNCHANGED <<cloudVars, storeVars, runMu, inserted, col>>

\* RunDataLifecycleMaintenance: the records, then the summaries in their own
\* transaction, which is not begun when the first statement fails.
PruneRecords(c) ==
  /\ phase[c] = "prune_records"
  /\ \/ /\ stored' = [r \in Row |-> IF Expired(r.day) THEN 0 ELSE stored[r]]
        /\ phase' = [phase EXCEPT ![c] = "prune_analytics"]
        /\ UNCHANGED <<runMu, failed>>
     \/ /\ MayFail /\ Fail(c)
        /\ phase' = [phase EXCEPT ![c] = "idle"] /\ Unlock
        /\ UNCHANGED stored
  /\ UNCHANGED <<cloudVars, markVars, summaryVars, inserted, col>>

\* The chunk compression that follows changes nothing here but may fail.
PruneAnalytics(c) ==
  /\ phase[c] = "prune_analytics"
  /\ \/ /\ daily' = PrunedDaily(daily) /\ monthly' = PrunedMonthly(monthly)
        /\ UNCHANGED failed \/ (MayFail /\ Fail(c))
     \/ MayFail /\ Fail(c) /\ UNCHANGED <<daily, monthly>>
  /\ phase' = [phase EXCEPT ![c] = "idle"] /\ Unlock
  /\ UNCHANGED <<cloudVars, storeVars, lost, inserted, col>>

\* The process dies: what is in memory is gone, the database stays.
Crash ==
  /\ MayCrash /\ runMu # NoRun
  /\ runMu' = NoRun
  /\ phase' = [c \in Callers |-> "idle"]
  /\ col' = [w \in Workers |-> IdleWorker]
  /\ inserted' = [c \in Callers |-> {}]
  /\ failed' = [c \in Callers |-> TRUE]
  /\ lost' = lost \cup UNION {FromDay(c) : c \in {c \in Callers :
                                                phase[c] \in {"collect", "dashboard"}}}
  /\ UNCHANGED <<cloudVars, storeVars, daily, monthly>>

-----------------------------------------------------------------------------

Worker(w) ==
  \/ ListObjects(w) \/ SkipObject(w) \/ GetObject(w) \/ EndLoop(w)
  \/ ParseStream(w) \/ DeleteFirst(w) \/ StoreBatch(w) \/ MarkProcessed(w)
  \/ CleanupPartialIngest(w)

RunTail(c) ==
  WaitCollectors(c) \/ RefreshDashboard(c) \/ PruneRecords(c) \/ PruneAnalytics(c)

Next ==
  \/ Tick \/ Crash
  \/ \E o \in Objects : Upload(o)
  \/ \E c \in Callers : StartRun(c) \/ RunTail(c)
  \/ \E w \in Workers : Worker(w)

Spec == Init /\ [][Next]_vars

\* A goroutine that can take a step takes one; nothing makes the clouds write,
\* a caller start a run or the process die.
Fairness ==
  /\ \A w \in Workers : WF_vars(Worker(w))
  /\ \A c \in Callers : WF_vars(RunTail(c))
FairSpec == Spec /\ Fairness

-----------------------------------------------------------------------------
(* The store seen as the exports it replaces.                              *)

Replacement == INSTANCE SourceReplacement WITH
  stored <- stored, Objects <- Objects, Versions <- Versions, Days <- Days

\* Every step of the ingestion drops, fills or expires exports as a whole.
ReplacesExports == Replacement!Spec

-----------------------------------------------------------------------------
(* What must hold.                                                         *)

\* No billing row is ever stored twice, whatever fails, crashes or is retried:
\* OCI rows are plain inserts (no conflict key), so only the delete before the
\* first batch, the processed check and the run lock keep costs from doubling.
NoDoubleCount == \A r \in Row : stored[r] <= 1

\* The rows of one object in cost_records all come from one version of it: a
\* rewritten export is never mixed with what it replaces.
SingleVersion ==
  \A r, s \in InStore : r.obj = s.obj => r.ver = s.ver

\* The lookback window, or what the retention leaves of it.
Window == IF Lookback <= Retention THEN Lookback ELSE Retention
Recent(days) == {d \in days : d >= today - Window}

\* A report whose present ETag is marked processed is complete: each of its recent
\* rows is in cost_records and no row of an older version is.  The collector will never download it again, so nothing repairs it.  (The
\* exception: a mark that commits but reports an error makes the collector delete
\* the rows and leaves the mark.)
ProcessedComplete ==
  \A o \in OciObjects :
    <<o, bucket[o]>> \in processed \ unacked =>
      /\ RowsOf(o, bucket[o], Recent(Content[<<o, bucket[o]>>])) \subseteq InStore
      /\ \A r \in InStore : r.obj = o => r.ver = bucket[o]

NoRunActive == runMu = NoRun

\* Between runs, the daily summaries the dashboards read count every stored row,
\* except on days whose refresh was lost to a crash or an error.
SummariesCoverStore ==
  NoRunActive => \A r \in InStore : r.day \in lost \/ Expired(r.day) \/ r \in daily

\* A run that starts ends and gives the lock back, whatever its calls return and
\* whichever limits it meets.  (The exception: the stream of a CUR export broke.)
ParserStuck == \E w \in Workers : col[w].pc = "stuck"
RunEnds == (runMu # NoRun) ~> (runMu = NoRun \/ ParserStuck)

\* Says README.md:148: AWS CUR uses the max_runtime limit.  A run that starts ends.
RuntimeIsLimited == (runMu # NoRun) ~> (runMu = NoRun)

\* Says README.md:47: raw records are retained for the retention period.  A day
\* that a summary of the object counts, that the retention still covers and that
\* the export still lists, has its raw row.
RawRecordsRetained ==
  NoRunActive => \A r \in daily :
    (~Expired(r.day) /\ r.day \in Content[<<r.obj, bucket[r.obj]>>]) =>
      \E s \in InStore : s.obj = r.obj /\ s.day = r.day
=============================================================================
