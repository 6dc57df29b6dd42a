---------------------------- MODULE OciSelection ----------------------------
(***************************************************************************)
(* Which OCI cost reports a run downloads: the rolling window and its      *)
(* checkpoint (collect.Service), the search for the first recent report    *)
(* number, the bounded listing, the processed files and the limits of the  *)
(* collector's loop (oci.Collector).                                       *)
(*                                                                         *)
(* OCI numbers its cost reports in the order it writes them and never      *)
(* rewrites one; numbers have gaps.  Only modification times matter here:  *)
(* what happens to the rows of a report is in CostIngestion.               *)
(***************************************************************************)
EXTENDS Integers, FiniteSets, FiniteSetsExt

CONSTANTS
  MaxNumber,         \* bound: the highest report number
  MaxGap,            \* bound: the numbers OCI leaves out between two reports
  MaxTime,           \* bound: the last hour of the model
  Lookback,          \* ingestion.lookback_days, in hours
  Overlap,           \* how far behind the checkpoint a run looks: one hour
  Margin,            \* listRecentCostReportObjects: 24 hours before since
  FirstStep,         \* initialCostReportStartSearchNumericStep
  MaxProbes,         \* maxCostReportStartSearchProbes
  MaxObjectScan,     \* max_object_scan (0: not configured)
  PageSize,          \* names per page of a listing
  MaxFilesPerRun,    \* ingestion.max_files_per_run
  MaxZeroYieldFiles, \* ingestion.max_zero_yield_files
  MaxConsecutiveObjectFailures, \* the collector's constant of that name
  MaxRunTime,        \* bound: how long a run takes, in hours
  AskedFor,          \* bound: the windows clients ask for (days=N), in hours
  MaxRequests,       \* bound: how many runs clients ask for
  MaxFaults          \* bound: how often the database, the listing or a report fails

Numbers == 1..MaxNumber
Times   == 0..MaxTime

ASSUME SelectionAssumption ==
  /\ {MaxNumber, MaxGap, Lookback, Overlap, Margin, MaxObjectScan, MaxRunTime} \subseteq Nat
  /\ {MaxTime, FirstStep, MaxProbes, PageSize, MaxFilesPerRun, MaxZeroYieldFiles,
      MaxConsecutiveObjectFailures} \subseteq Nat \ {0}
  /\ MaxFaults \in Nat /\ MaxRequests \in Nat /\ AskedFor \subseteq Nat

VARIABLES
  now,        \* the clock, in hours
  modified,   \* when OCI wrote each report (0: it is not there)
  processed,  \* processed_report_files
  checkpoint, \* ingestion_checkpoints: last_successful_ingestion_at (0: none)
  run,        \* the collector's locals
  faults,     \* failures that may still happen
  requests,   \* runs that clients may still ask for
  narrowed    \* history: where the window of the latest run began that a client had
              \* narrowed and that moved the checkpoint (0: none)

boundVars == <<requests, narrowed>>
vars == <<now, modified, processed, checkpoint, run, faults, boundVars>>

IdleRun == [pc |-> "idle", since |-> 0, narrow |-> FALSE, began |-> 0, todo |-> {},
            newestFirst |-> TRUE,
            started |-> 0, done |-> 0, failures |-> 0, zero |-> 0,
            hit |-> FALSE, err |-> FALSE]

Init ==
  /\ now = 1 /\ modified = [n \in Numbers |-> 0]
  /\ processed = {} /\ checkpoint = 0 /\ run = IdleRun
  /\ faults = MaxFaults /\ requests = MaxRequests /\ narrowed = 0

Reports == {n \in Numbers : modified[n] > 0}

TypeOK ==
  /\ now \in Times /\ modified \in [Numbers -> Times]
  /\ processed \subseteq Reports /\ checkpoint \in Times
  /\ faults \in 0..MaxFaults /\ requests \in 0..MaxRequests /\ narrowed \in Nat
  /\ run \in [pc : {"idle", "list", "scan", "end"}, since : Int, narrow : BOOLEAN,
              began : Times, todo : SUBSET Reports, newestFirst : BOOLEAN, started : 0..MaxFilesPerRun,
              done : Nat, failures : Nat, zero : Nat, hit : BOOLEAN, err : BOOLEAN]

-----------------------------------------------------------------------------
(* OCI and the clock.                                                      *)

Upload(n) ==
  /\ \A m \in Reports : m < n
  /\ Reports # {} => n <= Max(Reports) + MaxGap + 1
  /\ modified' = [modified EXCEPT ![n] = now]
  /\ UNCHANGED <<now, processed, checkpoint, run, faults, boundVars>>

Tick ==
  /\ now < MaxTime
  /\ run.pc = "idle" \/ now - run.began < MaxRunTime
  /\ now' = now + 1
  /\ UNCHANGED <<modified, processed, checkpoint, run, faults, boundVars>>

-----------------------------------------------------------------------------
(* findCostReportStartNumber.                                              *)

None == 0

\* ListObjectsPage: the first reports from a number on.
Page(start, limit) ==
  {n \in Reports : n >= start /\ Cardinality({m \in Reports : start <= m /\ m <= n}) <= limit}

\* firstCostReportAtOrAfter
FirstAtOrAfter(k) == LET page == Page(k, 1) IN IF page = {} THEN None ELSE Min(page)

\* Where a bisection is: the probes it has left, low, which is old, high, which is
\* recent, and the best so far.
Between == [left : Nat, low : Nat, high : Nat, best : Nat]

Middle(s) == s.low + (s.high - s.low) \div 2

\* Mutant: a probe that is recent is not remembered.
ForgetsRecent(since, s) ==
  LET found == FirstAtOrAfter(Middle(s))
  IN IF found # None /\ modified[found] < since
     THEN [s EXCEPT !.left = @ - 1, !.low = found]
     ELSE [s EXCEPT !.left = @ - 1]

\* One probe of binarySearchCostReportStart.
Halve(since, s) ==
  LET found == FirstAtOrAfter(Middle(s))
      after == [s EXCEPT !.left = @ - 1]
  IN IF found = None THEN [after EXCEPT !.high = Middle(s)]
     ELSE IF modified[found] >= since THEN [after EXCEPT !.high = found, !.best = found]
     ELSE [after EXCEPT !.low = IF found <= s.low THEN Middle(s) ELSE found]

\* binarySearchCostReportStart
Bisect(since, lowest, highest) ==
  LET search[s \in Between] ==
        IF s.left = 0 \/ s.low + 1 >= s.high THEN s.best ELSE search[Halve(since, s)]
  IN search[[left |-> MaxProbes, low |-> lowest, high |-> highest, best |-> highest]]

\* Where the seek is: the probes it has left, and the last report known to be old.
Seeking == [left : Nat, low : Nat]

\* The first report at or after the next probe; the distance doubles.
Ahead(s) == FirstAtOrAfter(s.low + FirstStep * 2 ^ Min({MaxProbes - s.left, 20}))

\* Probes at growing distances until one is recent; gives up (None) when nothing
\* is stored at or after a probe.
StartNumber(since) ==
  LET first == FirstAtOrAfter(1)
      search[s \in Seeking] ==
        IF s.left = 0 \/ Ahead(s) = None THEN None
        ELSE IF modified[Ahead(s)] >= since THEN Bisect(since, s.low, Ahead(s))
        ELSE search[[left |-> s.left - 1, low |-> Ahead(s)]]
  IN IF first = None THEN None
     ELSE IF modified[first] >= since THEN first
     ELSE search[[left |-> MaxProbes, low |-> first]]

-----------------------------------------------------------------------------
(* One run.                                                                *)

Fault == faults > 0 /\ faults' = faults - 1

\* How far back a run may look that is asked for a window: to the lookback at most.
Window(asked) == IF asked < Lookback THEN now - asked ELSE now - Lookback

\* effectiveSince: that far, or to an hour before the checkpoint.
EffectiveSince(mark, asked) ==
  IF mark - Overlap > Window(asked) THEN mark - Overlap ELSE Window(asked)

\* The checkpoint is read; when that fails the window is as it was asked for.
Begin(asked) ==
  /\ run.pc = "idle"
  /\ \E mark \in {checkpoint, 0} :
       /\ \/ mark = checkpoint /\ UNCHANGED faults
          \/ mark = 0 /\ Fault
       /\ run' = [IdleRun EXCEPT !.pc = "list", !.began = now,
                    !.since = EffectiveSince(mark, asked),
                    !.narrow = EffectiveSince(mark, asked) > EffectiveSince(mark, Lookback)]
  /\ UNCHANGED <<now, modified, processed, checkpoint, narrowed>>

\* The scheduler asks for no window, which is the lookback.
StartRun == Begin(Lookback) /\ UNCHANGED requests

\* POST /api/v1/ingest?days=N
RequestRun ==
  /\ requests > 0 /\ requests' = requests - 1
  /\ \E asked \in AskedFor : Begin(asked)

\* objectScanLimit
ScanLimit == IF MaxObjectScan > 0 THEN MaxObjectScan ELSE MaxFilesPerRun

\* Where a listing is: the name it goes on from, and what it has got.
Listing == [from : Nat, got : SUBSET Numbers]

\* The next page, no longer than what the limit leaves, and the reports after it.
NextPage(s) == Page(s.from, Min({PageSize, ScanLimit - Cardinality(s.got)}))
Beyond(s)   == {n \in Reports : n >= s.from} \ NextPage(s)

\* listObjectsFrom: page after page, until the limit or the last page.
Listed(start) ==
  LET list[s \in Listing] ==
        LET got == s.got \cup NextPage(s)
        IN IF Cardinality(got) >= ScanLimit \/ Beyond(s) = {} THEN got
           ELSE list[[from |-> Min(Beyond(s)), got |-> got]]
  IN list[[from |-> start, got |-> {}]]

\* ListObjects of the configured prefix.
ListedPrefix == Listed(1)

\* listRecentCostReportObjects
RecentListed(since) ==
  {n \in Listed(StartNumber(since)) : modified[n] >= since - Margin}

\* listCandidateObjects: the recent reports newest first or, when there is none,
\* the configured prefix in the order of its listing.
ListCandidates ==
  /\ run.pc = "list"
  /\ \/ LET recent == RecentListed(run.since)
        IN /\ run' = [run EXCEPT !.pc = "scan", !.newestFirst = (recent # {}),
                        !.todo = IF recent # {} THEN recent ELSE ListedPrefix]
           /\ UNCHANGED faults
     \/ /\ Fault
        /\ run' = [run EXCEPT !.pc = "end", !.err = TRUE]
  /\ UNCHANGED <<now, modified, processed, checkpoint, boundVars>>

\* The candidate that is next: numbers are in the order of modification.
Candidate == IF run.newestFirst THEN Max(run.todo) ELSE Min(run.todo)

Scanning == run.pc = "scan" /\ run.todo # {}

\* Mutant: one file too many.
PastFileLimit == run.started > MaxFilesPerRun

FileLimitReached == run.started >= MaxFilesPerRun

SkipProcessed ==
  /\ Scanning
  /\ \/ /\ Candidate \in processed /\ UNCHANGED faults
        /\ run' = [run EXCEPT !.todo = @ \ {Candidate}]
     \/ /\ Fault
        /\ run' = [run EXCEPT !.todo = @ \ {Candidate}, !.err = TRUE]
  /\ UNCHANGED <<now, modified, processed, checkpoint, boundVars>>

\* A report is downloaded, parsed, stored and marked.  It yields nothing when none
\* of its rows is in the window; a report from before the window cannot yield.
Ingest ==
  /\ Scanning /\ Candidate \notin processed /\ ~FileLimitReached
  /\ processed' = processed \cup {Candidate}
  /\ \E yields \in BOOLEAN :
       LET zero == IF yields THEN 0 ELSE run.zero + 1
       IN /\ yields => modified[Candidate] >= run.since
          /\ run' = [run EXCEPT
               !.pc = IF zero >= MaxZeroYieldFiles THEN "end" ELSE "scan",
               !.hit = zero >= MaxZeroYieldFiles,
               !.zero = zero, !.failures = 0,
               !.todo = @ \ {Candidate}, !.started = @ + 1, !.done = @ + 1]
  /\ UNCHANGED <<now, modified, checkpoint, faults, boundVars>>

\* It is not: the collector goes on with the next, a few times in a row.
FailIngest ==
  /\ Fault /\ Scanning /\ Candidate \notin processed
  /\ ~FileLimitReached
  /\ LET failures == run.failures + 1
     IN run' = [run EXCEPT
          !.pc = IF failures >= MaxConsecutiveObjectFailures THEN "end" ELSE "scan",
          !.failures = failures, !.err = TRUE,
          !.todo = @ \ {Candidate}, !.started = @ + 1]
  /\ UNCHANGED <<now, modified, processed, checkpoint, boundVars>>

\* The file limit, or the runtime limit once a file was started.
HitLimit ==
  /\ Scanning
  /\ \/ Candidate \notin processed /\ FileLimitReached
     \/ run.started > 0 /\ now > run.began
  /\ run' = [run EXCEPT !.pc = "end", !.hit = TRUE]
  /\ UNCHANGED <<now, modified, processed, checkpoint, faults, boundVars>>

\* Mutant: a limit does not keep the checkpoint from moving.
WithoutError == ~run.err /\ run.done > 0

\* When Run moves the checkpoint.
Complete == ~run.err /\ run.done > 0 /\ ~run.hit

NarrowedAfter == IF run.narrow /\ run.since > narrowed THEN run.since ELSE narrowed

\* MarkIngestionCheckpoint, at the time the run ends.
EndRun ==
  /\ run.pc = "end" \/ (run.pc = "scan" /\ run.todo = {})
  /\ \/ /\ Complete /\ checkpoint' = Max({checkpoint, now}) /\ narrowed' = NarrowedAfter
        /\ UNCHANGED faults
     \/ ~Complete /\ UNCHANGED <<checkpoint, narrowed, faults>>
     \/ Complete /\ Fault /\ UNCHANGED <<checkpoint, narrowed>>
  /\ run' = IdleRun
  /\ UNCHANGED <<now, modified, processed, requests>>

RunStep == ListCandidates \/ SkipProcessed \/ Ingest \/ FailIngest \/ HitLimit \/ EndRun

Next == Tick \/ StartRun \/ RequestRun \/ RunStep \/ \E n \in Numbers : Upload(n)

Spec == Init /\ [][Next]_vars

\* The scheduler keeps starting runs, and a run goes on; time, OCI and clients need not.
FairSpec == Spec /\ WF_vars(StartRun) /\ WF_vars(RunStep)

-----------------------------------------------------------------------------
(* What must hold.                                                         *)

\* A start number the search returns skips no report of the window.
SeekSkipsNothingRecent ==
  \A since \in Times :
    LET start == StartNumber(since)
    IN start # None => \A n \in Reports : modified[n] >= since => n >= start

\* Every report is ingested, or the window of the next run still reaches it, or it
\* is older than the lookback.  A checkpoint that moves past a report nobody
\* ingested loses its rows for good: README.md:209 calls the object selection
\* "only an efficiency heuristic".  (The exception: a client asked for less than the
\* lookback, and its run moved the checkpoint all the same.)
NoReportLeftBehind ==
  \A n \in Reports : n \in processed \/ modified[n] >= EffectiveSince(checkpoint, Lookback)
                     \/ modified[n] < now - Lookback \/ modified[n] < narrowed

\* Once failures stop, every report is ingested sooner or later, unless it gets
\* older than the lookback first or a run that a client narrowed moves the
\* checkpoint past it.
ReportsGetIngested ==
  \A n \in Numbers :
    (modified[n] > 0) ~>
      (n \in processed \/ modified[n] < now - Lookback \/ modified[n] < narrowed)
=============================================================================
