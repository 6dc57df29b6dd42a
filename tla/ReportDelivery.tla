--------------------------- MODULE ReportDelivery ---------------------------
(***************************************************************************)
(* Delivery of the daily and weekly cost reports: the report scheduler and *)
(* its cron timers, the ingestion scheduler that delivers due reports after*)
(* each of its runs (app.App), report requests over HTTP with deliver=true *)
(* (httpapi.Handler), and the check - build - send - record sequence they  *)
(* share (reporting.Service) over the report_deliveries table.             *)
(*                                                                         *)
(* Time goes in half days: the crons of a day fire when its second half    *)
(* begins.  Of cost_records only the days that have a row matter, which is *)
(* all the completeness check asks; ingestion empties a day and fills it   *)
(* again.  Nothing but the table is shared by the deliveries.              *)
(***************************************************************************)
EXTENDS Integers, FiniteSets, FiniteSetsExt

CONSTANTS
  Destinations, \* enabled alert targets
  MaxHalf,      \* bound: the last half day of the model
  StartDay,     \* bound: the day the model begins
  Week,         \* bound: days of a week; weekly reports are due on its first day
  LagDays,      \* daily_report_target_lag_days
  Lookback,     \* bound: how many days back exports are ingested anew
  Clients,      \* HTTP clients that ask for a delivery
  AskedFor,     \* bound: the periods clients ask for
  MaxFaults,    \* bound: failed calls and crashes
  MaxRequests   \* bound: HTTP requests for ingestion jobs and for reports

Periods    == {"daily", "weekly"}
Days       == 0..(MaxHalf \div 2)
Half       == 0..MaxHalf
Schedulers == {"reports", "ingestion"}
Deliverers == Schedulers \cup Clients
Reports    == Periods \X Days             \* a period and its first day
Deliveries == Reports \X Destinations     \* the key of report_deliveries

ASSUME DeliveryAssumption ==
  /\ Week \in Nat \ {0} /\ LagDays \in 1..Week /\ MaxHalf \in Nat
  /\ StartDay \in Nat /\ Week <= StartDay /\ 2 * StartDay <= MaxHalf
  /\ Lookback \in Nat /\ MaxFaults \in Nat /\ MaxRequests \in Nat
  /\ Schedulers \cap Clients = {} /\ AskedFor \subseteq Periods

VARIABLES
  now,       \* the clock
  up,        \* the process is running
  next,      \* the report scheduler's nextDaily and nextWeekly
  run,       \* per deliverer: the locals of its delivery
  delivered, \* report_deliveries
  rows,      \* days with a row in cost_records
  ingest,    \* the run lock's holder, and the exports it replaced
  gone,      \* days whose rows were deleted and are to be stored again
  faults,    \* faults that may still happen
  requests,  \* HTTP requests that may still come
  sent,      \* history: how often each report reached each destination (2: more)
  excused,   \* history: deliveries that a fault, a race or force may repeat
  blank      \* history: scheduled reports built without rows that ingestion would restore

dataVars    == <<rows, ingest, gone, requests>>
historyVars == <<sent, excused, blank>>
vars == <<now, up, next, run, delivered, dataVars, faults, historyVars>>

-----------------------------------------------------------------------------
(* Cron expressions and report ranges.                                     *)

DayOf(t) == t \div 2

\* The instants at which a cron fires.
Fires(p, t) == t % 2 = 1 /\ (p = "weekly" => DayOf(t) % Week = 0)

\* reportCron.Next; the model ends before what follows the last half day.
NextRun(p, t) == Min({u \in Half : u > t /\ Fires(p, u)} \cup {MaxHalf + 1})

\* reportCron.DueAtOrBefore: it fired earlier on the same day.
DueAtOrBefore(p, t) == Fires(p, 2 * DayOf(t) + 1) /\ t % 2 = 1

\* Mutant: the lag is added.
LagAhead(p, day) ==
  IF p = "daily" THEN day + LagDays ELSE (day \div Week - 1) * Week

\* DefaultRangeWithOptions: the first day, and the days, of the report of a day.
FirstDay(p, day) ==
  IF p = "daily" THEN day - LagDays ELSE (day \div Week - 1) * Week
RangeDays(p, first) == IF p = "daily" THEN {first} ELSE first..(first + Week - 1)

\* Mutant: the last day of a week is not looked at.
ButTheLastDay(p, first) == RangeDays(p, first) \ {first + Week - 1}

\* rangeHasDailyData: the days that must have rows.
RequiredDays(p, first) == RangeDays(p, first)

-----------------------------------------------------------------------------

IdleRun == [pc |-> "idle", at |-> 0, queue |-> {}, report |-> <<"daily", 0>>,
            force |-> FALSE, days |-> {}, check |-> {}, pending |-> {}]

PCs == {"idle", "complete", "check", "build", "send", "record"}

TypeOK ==
  /\ now \in Half /\ up \in BOOLEAN
  /\ next \in [Periods -> Nat]
  /\ run \in [Deliverers ->
       [pc : PCs, at : Half, queue : SUBSET Periods, report : Reports, force : BOOLEAN,
        days : SUBSET Days, check : SUBSET Destinations,
        pending : SUBSET Destinations]]
  /\ delivered \subseteq Deliveries
  /\ rows \subseteq Days /\ gone \subseteq Days
  /\ ingest \in [holder : {"none", "scheduler", "http"}, replaced : SUBSET Days]
  /\ faults \in 0..MaxFaults /\ requests \in 0..MaxRequests
  /\ sent \in [Deliveries -> 0..2]
  /\ excused \subseteq Deliveries /\ blank \subseteq Reports

\* DeliverScheduledReport of the next period a deliverer has to deliver, with the
\* time it was started: daily comes before weekly.
Continue(at, queue) ==
  LET p     == IF "daily" \in queue THEN "daily" ELSE "weekly"
      first == FirstDay(p, DayOf(at))
  IN IF queue = {} THEN IdleRun
     ELSE [IdleRun EXCEPT !.pc = "complete", !.at = at, !.queue = queue \ {p},
                          !.report = <<p, first>>, !.days = RequiredDays(p, first)]

\* The model begins with the past ingested but for its last days.
Init ==
  /\ now = 2 * StartDay
  /\ up = TRUE
  /\ next = [p \in Periods |-> NextRun(p, now)]
  /\ run = [a \in Deliverers |-> IdleRun]
  /\ delivered = {} /\ rows = 0..(StartDay - 1 - LagDays) /\ gone = {}
  /\ ingest = [holder |-> "none", replaced |-> {}]
  /\ faults = MaxFaults /\ requests = MaxRequests
  /\ sent = [k \in Deliveries |-> 0] /\ excused = {} /\ blank = {}

Resting(a) == run[a].pc = "idle"

\* A delivery takes a minute at most: it crosses one half day's end or none.
Tick ==
  /\ now < MaxHalf
  /\ \A a \in Deliverers : Resting(a) \/ run[a].at = now
  /\ now' = now + 1
  /\ UNCHANGED <<up, next, run, delivered, dataVars, faults, historyVars>>

-----------------------------------------------------------------------------
(* Ingestion, as far as reports see it.                                    *)

NotIngesting == [holder |-> "none", replaced |-> {}]

StartIngestion(holder) ==
  /\ up /\ ingest.holder = "none"
  /\ IF holder = "http" THEN requests > 0 /\ requests' = requests - 1
     ELSE Resting("ingestion") /\ UNCHANGED requests
  /\ ingest' = [holder |-> holder, replaced |-> {}]
  /\ UNCHANGED <<now, up, next, run, delivered, rows, gone, faults, historyVars>>

\* An export of a day that is over is ingested anew: its rows are deleted first.
DeleteRows(d) ==
  /\ up /\ ingest.holder # "none" /\ d \notin ingest.replaced
  /\ d < DayOf(now) /\ d >= DayOf(now) - Lookback
  /\ ingest' = [ingest EXCEPT !.replaced = @ \cup {d}]
  /\ rows' = rows \ {d} /\ gone' = gone \cup {d}
  /\ UNCHANGED <<now, up, next, run, delivered, requests, faults, historyVars>>

StoreRows(d) ==
  /\ up /\ ingest.holder # "none" /\ d \in gone
  /\ rows' = rows \cup {d} /\ gone' = gone \ {d}
  /\ UNCHANGED <<now, up, next, run, delivered, ingest, requests, faults, historyVars>>

\* Mutant: nobody delivers what became complete after the cron fired.
NothingDue(t) == {}

\* deliverDueScheduledReports
DueReports(t) == {p \in Periods : DueAtOrBefore(p, t)}

\* The run ends, with everything stored or with an error that leaves the rest to the
\* next run.  The ingestion scheduler then delivers what is due.
EndIngestion ==
  /\ up /\ ingest.holder # "none"
  /\ \/ gone = {} /\ UNCHANGED faults
     \/ faults > 0 /\ faults' = faults - 1
  /\ ingest' = NotIngesting
  /\ run' = IF ingest.holder = "http" THEN run
            ELSE [run EXCEPT !["ingestion"] = Continue(now, DueReports(now))]
  /\ UNCHANGED <<now, up, next, delivered, rows, gone, requests, historyVars>>

-----------------------------------------------------------------------------
(* What starts a delivery.                                                 *)

\* runReportScheduler: its timer fires for the earliest period, and both are looked
\* at.
TimerFires ==
  LET due == {p \in Periods : now >= next[p]}
  IN /\ up /\ Resting("reports") /\ due # {}
     /\ run' = [run EXCEPT !["reports"] = Continue(now, due)]
     /\ next' = [p \in Periods |-> IF p \in due THEN NextRun(p, now) ELSE next[p]]
     /\ UNCHANGED <<now, up, delivered, dataVars, faults, historyVars>>

\* dailyReport, weeklyReport with deliver=true: the report is built first, and its
\* completeness is not asked for.
RequestReport(c) ==
  /\ up /\ Resting(c)
  /\ requests > 0 /\ requests' = requests - 1
  /\ \E p \in AskedFor, force \in BOOLEAN :
       run' = [run EXCEPT ![c] =
                [IdleRun EXCEPT !.pc = "build", !.at = now, !.force = force,
                   !.report = <<p, FirstDay(p, DayOf(now))>>, !.check = Destinations]]
  /\ UNCHANGED <<now, up, next, delivered, rows, ingest, gone, faults, historyVars>>

-----------------------------------------------------------------------------
(* DeliverScheduledReport and DeliverReport, call by call.                 *)

Finished(a) == Continue(run[a].at, run[a].queue)

\* A call fails and the delivery goes on as given.
Fault(a, after) ==
  /\ faults > 0 /\ faults' = faults - 1
  /\ run' = [run EXCEPT ![a] = after]

Call(a, after) == run' = [run EXCEPT ![a] = after] /\ UNCHANGED faults

\* rangeHasDailyData asks day by day, from the first.
CheckComplete(a) ==
  LET d == Min(run[a].days)
  IN /\ run[a].pc = "complete"
     /\ \/ /\ d \in rows
           /\ Call(a, IF run[a].days = {d}
                      THEN [run[a] EXCEPT !.pc = "check", !.days = {}, !.check = Destinations]
                      ELSE [run[a] EXCEPT !.days = @ \ {d}])
        \/ d \notin rows /\ Call(a, Finished(a))
        \/ Fault(a, Finished(a))
     /\ UNCHANGED <<now, up, next, delivered, dataVars, historyVars>>

Key(a, x) == <<run[a].report, x>>

\* Mutant: only the delivery of weekly reports is looked up.
IgnoresRecord(a, x) == run[a].report[1] = "weekly" /\ Key(a, x) \in delivered

\* shouldDeliverReport
AlreadyDelivered(a, x) == ~run[a].force /\ Key(a, x) \in delivered

\* Another delivery has found the same report undelivered, and is not done yet.
Racing(a, x) ==
  \E b \in Deliverers \ {a} :
    run[b].report = run[a].report /\ x \in run[b].pending

\* After the last destination a scheduled delivery builds its report, a client's was
\* built before.
Checked(a, x, pending) ==
  IF run[a].check # {x}
  THEN [run[a] EXCEPT !.check = @ \ {x}, !.pending = pending]
  ELSE IF pending = {} THEN Finished(a)
  ELSE [run[a] EXCEPT !.check = {}, !.pending = pending,
                      !.pc = IF a \in Clients THEN "send" ELSE "build"]

CheckDelivered(a) ==
  /\ run[a].pc = "check"
  /\ \E x \in run[a].check :
       \/ /\ AlreadyDelivered(a, x) /\ Call(a, Checked(a, x, run[a].pending))
          /\ UNCHANGED excused
       \/ /\ ~AlreadyDelivered(a, x)
          /\ Call(a, Checked(a, x, run[a].pending \cup {x}))
          /\ excused' = IF Racing(a, x) \/ run[a].force
                        THEN excused \cup {Key(a, x)} ELSE excused
       \/ /\ ~run[a].force /\ Fault(a, Checked(a, x, run[a].pending))
          /\ UNCHANGED excused
  /\ UNCHANGED <<now, up, next, delivered, dataVars, sent, blank>>

\* BuildDefault reads the days again; a report without rows is as good as any.
BuildReport(a) ==
  /\ run[a].pc = "build"
  /\ \/ /\ Call(a, [run[a] EXCEPT !.pc = IF a \in Clients THEN "check" ELSE "send"])
        /\ blank' =
             IF a \in Clients \/ RangeDays(run[a].report[1], run[a].report[2]) \subseteq rows \cup gone
             THEN blank ELSE blank \cup {run[a].report}
     \/ Fault(a, Finished(a)) /\ UNCHANGED blank
  /\ UNCHANGED <<now, up, next, delivered, dataVars, sent, excused>>

\* Some destinations are through, successfully or not.
Sent(a, xs) ==
  IF run[a].pending \subseteq xs THEN Finished(a)
  ELSE [run[a] EXCEPT !.pc = "send", !.check = {}, !.pending = @ \ xs]

\* postJSON, sendEmail: the destination gets the message, which an error does not rule out.
GotThrough(a, x) == sent' = [sent EXCEPT ![Key(a, x)] = Min({@ + 1, 2})]

\* Mutant: the error of the send is noted and the delivery recorded all the same.
RecordFailed(a, x) == [run[a] EXCEPT !.pc = "record", !.check = {x}]

\* A destination that failed is left without a record.
AfterFailedSend(a, x) == Sent(a, {x})

\* deliverReportToDestinations takes the destinations one by one; it goes to the
\* next one when the send fails.  A send can fail after the message got through.
SendReport(a) ==
  /\ run[a].pc = "send"
  /\ \E x \in run[a].pending :
       \/ /\ Call(a, [run[a] EXCEPT !.pc = "record", !.check = {x}])
          /\ GotThrough(a, x) /\ UNCHANGED excused
       \/ /\ Fault(a, AfterFailedSend(a, x))
          /\ \/ UNCHANGED <<sent, excused>>
             \/ GotThrough(a, x) /\ excused' = excused \cup {Key(a, x)}
  /\ UNCHANGED <<now, up, next, delivered, dataVars, blank>>

\* RecordReportDelivery of the destination that was just sent to.
RecordReportDelivery(a) == delivered' = delivered \cup {Key(a, x) : x \in run[a].check}

RecordDelivery(a) ==
  LET after == Sent(a, run[a].check)
  IN /\ run[a].pc = "record"
     /\ \/ RecordReportDelivery(a) /\ Call(a, after) /\ UNCHANGED excused
        \/ /\ Fault(a, after) /\ UNCHANGED delivered
           /\ excused' = excused \cup {Key(a, x) : x \in run[a].check}
     /\ UNCHANGED <<now, up, next, dataVars, sent, blank>>

-----------------------------------------------------------------------------
(* The process dies and starts again.                                      *)

Crash ==
  /\ up /\ faults > 0
  /\ faults' = faults - 1 /\ up' = FALSE
  /\ run' = [a \in Deliverers |-> IdleRun]
  /\ ingest' = NotIngesting
  /\ excused' = excused \cup
       UNION {{Key(a, x) : x \in run[a].check} : a \in {b \in Deliverers : run[b].pc = "record"}}
  /\ UNCHANGED <<now, next, delivered, rows, gone, requests, sent, blank>>

\* runReportScheduler delivers what is due and sets its timers.
Start ==
  /\ ~up /\ up' = TRUE
  /\ run' = [run EXCEPT !["reports"] = Continue(now, DueReports(now))]
  /\ next' = [p \in Periods |-> NextRun(p, now)]
  /\ UNCHANGED <<now, delivered, dataVars, faults, historyVars>>

-----------------------------------------------------------------------------

Deliver(a) ==
  \/ CheckComplete(a) \/ CheckDelivered(a) \/ BuildReport(a)
  \/ SendReport(a) \/ RecordDelivery(a)

IngestStep == EndIngestion \/ \E d \in Days : DeleteRows(d) \/ StoreRows(d)

Next ==
  \/ Tick \/ TimerFires \/ Crash \/ Start \/ IngestStep
  \/ \E holder \in {"scheduler", "http"} : StartIngestion(holder)
  \/ \E c \in Clients : RequestReport(c)
  \/ \E a \in Deliverers : Deliver(a)

Spec == Init /\ [][Next]_vars

\* The goroutines go on, the tickers tick and a process that died is started again;
\* nothing makes time pass, clients ask or wait for the answer, or the process die.
Fairness ==
  /\ WF_vars(TimerFires) /\ WF_vars(Start)
  /\ WF_vars(StartIngestion("scheduler"))
  /\ WF_vars(IngestStep)
  /\ \A a \in Schedulers : WF_vars(Deliver(a))
FairSpec == Spec /\ Fairness

-----------------------------------------------------------------------------
(* What must hold.                                                         *)

\* A delivery is recorded only after the report got through to that destination: the
\* record stops every later attempt, so one without a send loses the report.
RecordedWasSent == \A k \in delivered : sent[k] > 0

\* A report gets through twice only when force asked for it, a call failed or the
\* process died before the record, or another delivery was already past its check.
RepeatsExplained == \A k \in Deliveries : sent[k] > 1 => k \in excused

\* A daily report whose day has rows once its cron has fired reaches every
\* destination that day, however it races with ingestion, faults and restarts, if
\* only the day lasts.
DueReportSent ==
  \A t \in {t \in Half : Fires("daily", t)}, x \in Destinations :
    LET report == <<"daily", FirstDay("daily", DayOf(t))>>
    IN (now = t /\ report[2] \in rows) ~>
         (DayOf(now) # DayOf(t) \/ (report \in Reports /\ sent[<<report, x>>] > 0))

\* Says README.md:271: ingestion runs cannot send repeated daily reports.
DailyReportOnce ==
  \A k \in Deliveries : k[1][1] = "daily" => sent[k] <= 1

\* A scheduled report that lacks a day is built only while ingestion replaces that
\* day: no other order of checks, ingestion and faults gets past the completeness
\* check (deployment.md:151).
OnlyReplacedDaysMissing == blank = {}
=============================================================================
