------------------------ MODULE ReportDeliveryProofs ------------------------
(***************************************************************************)
(* Proofs about ReportDelivery, for every set of destinations and clients, *)
(* every lag and every length of the week: the types, that a record means  *)
(* a send, that every repeated send has its excuse, and that a scheduled   *)
(* report is built without rows only while ingestion replaces them.        *)
(***************************************************************************)
EXTENDS ReportDelivery, NaturalFacts

-----------------------------------------------------------------------------
(* The inductive invariant.                                                *)

\* A deliverer that rests has forgotten its last delivery; one that records has the
\* destination it has just sent to pending; a queue is from the time of the model.
RunOK(r) ==
  /\ r.pc = "idle" => r = IdleRun
  /\ r.pc = "complete" => r.pending = {}
  /\ r.pc = "record" => r.check \subseteq r.pending
  /\ r.queue # {} => r.at >= 2 * StartDay
RunInv == \A a \in Deliverers : RunOK(run[a])

\* The process that is down does nothing, and the ingestion scheduler delivers only
\* between its runs.
ProcessInv ==
  /\ now >= 2 * StartDay
  /\ ~up => \A a \in Deliverers : Resting(a)
  /\ ~up => ingest = NotIngesting
  /\ ingest.holder = "scheduler" => Resting("ingestion")

Pends(a, k)   == run[a].report = k[1] /\ k[2] \in run[a].pending
Records(a, k) == run[a].pc = "record" /\ run[a].report = k[1] /\ k[2] \in run[a].check

\* Who has sent has recorded, or is about to.
SentInv ==
  \A k \in Deliveries :
    /\ k \in delivered => sent[k] > 0
    /\ \A a \in Deliverers : Records(a, k) => sent[k] > 0

\* Without an excuse, one deliverer at a time has a delivery pending, has not sent it
\* before it is about to record it, and nobody sends what is recorded.
OnceInv ==
  \A k \in Deliveries \ excused :
    /\ sent[k] <= 1
    /\ sent[k] > 0 => k \in delivered \/ \E a \in Deliverers : Records(a, k)
    /\ \A a \in Deliverers : Pends(a, k) /\ ~Records(a, k) => sent[k] = 0
    /\ \A a, b \in Deliverers : Pends(a, k) /\ Pends(b, k) => a = b

\* The days a scheduled delivery has asked for have rows, or are being replaced.
ReportDays(r) == RangeDays(r.report[1], r.report[2])
DaysOK(r, there) ==
  /\ r.pc = "complete" => ReportDays(r) \ r.days \subseteq there
  /\ r.pc \in {"check", "build"} => ReportDays(r) \subseteq there
DaysInv == blank = {} /\ \A a \in Schedulers : DaysOK(run[a], rows \cup gone)

DeliveryInv == RunInv /\ ProcessInv /\ SentInv /\ OnceInv /\ DaysInv

-----------------------------------------------------------------------------
(* What a deliverer does next.                                             *)

Runs == [pc : PCs, at : Half, queue : SUBSET Periods, report : Reports, force : BOOLEAN,
         days : SUBSET Days, check : SUBSET Destinations, pending : SUBSET Destinations]

\* A time of the model is in a day of the model.
LEMMA DayType ==
  ASSUME NEW t \in Half
  PROVE  DayOf(t) \in Days /\ (t >= 2 * StartDay => DayOf(t) >= StartDay)
  BY DeliveryAssumption DEF Half, Days, DayOf

\* The days of a report are days of the model.
LEMMA ReportType ==
  ASSUME NEW p \in Periods, NEW d \in Days, d >= StartDay
  PROVE  /\ <<p, FirstDay(p, d)>> \in Reports
         /\ RangeDays(p, FirstDay(p, d)) \subseteq Days
  <1>1. d \in Nat /\ Week \in Nat \ {0} /\ Week <= d /\ LagDays \in 1..Week /\ d <= MaxHalf \div 2
        /\ MaxHalf \div 2 \in Nat
    BY DeliveryAssumption DEF Days
  <1>2. CASE p = "daily"
    <2>1. FirstDay(p, d) = d - LagDays /\ d - LagDays \in Days
      BY <1>1, <1>2 DEF FirstDay, Days
    <2> QED  BY <1>2, <2>1 DEF RangeDays, Reports
  <1>3. CASE p # "daily"
    <2> DEFINE first == (d \div Week - 1) * Week
    <2>1. first \in Nat /\ first + Week - 1 <= d
      BY <1>1, WeekBefore
    <2>2. FirstDay(p, d) = first
      BY <1>3 DEF FirstDay
    <2> HIDE DEF first
    <2>3. first \in Days /\ first..(first + Week - 1) \subseteq Days
      BY <1>1, <2>1 DEF Days
    <2> QED  BY <1>3, <2>2, <2>3 DEF RangeDays, Reports
  <1> QED  BY <1>2, <1>3

\* At rest, nothing is left of a delivery.
LEMMA IdleFacts ==
  IdleRun \in Runs /\ RunOK(IdleRun) /\ IdleRun.pc = "idle" /\ IdleRun.pending = {}
    /\ IdleRun.check = {} /\ \A there : DaysOK(IdleRun, there)
  <1>1. <<"daily", 0>> \in Reports /\ 0 \in Half
    BY DeliveryAssumption DEF Reports, Periods, Days, Half
  <1> QED  BY <1>1 DEF IdleRun, Runs, RunOK, DaysOK, PCs

\* What follows in the queue starts from its beginning, with nothing pending and every
\* day to be asked for.
LEMMA ContinueFacts ==
  ASSUME NEW at \in Half, NEW queue \in SUBSET Periods, queue # {} => at >= 2 * StartDay
  PROVE  LET r == Continue(at, queue)
         IN /\ r \in Runs /\ RunOK(r) /\ r.pending = {} /\ r.pc # "record"
            /\ \A there : DaysOK(r, there)
  <1>1. CASE queue = {}
    BY <1>1, IdleFacts DEF Continue
  <1>2. CASE queue # {}
    <2> DEFINE p     == IF "daily" \in queue THEN "daily" ELSE "weekly"
               first == FirstDay(p, DayOf(at))
               r     == [IdleRun EXCEPT !.pc = "complete", !.at = at, !.queue = queue \ {p},
                                        !.report = <<p, first>>, !.days = RangeDays(p, first)]
    <2>1. p \in Periods
      BY DEF Periods
    <2>2. <<p, first>> \in Reports /\ RangeDays(p, first) \subseteq Days
      BY <1>2, <2>1, DayType, ReportType
    <2>3. Continue(at, queue) = r
      BY <1>2 DEF Continue, RequiredDays
    <2> HIDE DEF p, first
    <2>4. /\ r.pc = "complete" /\ r.at = at /\ r.queue = queue \ {p} /\ r.report = <<p, first>>
          /\ r.days = RangeDays(p, first) /\ r.pending = {}
      BY DEF IdleRun
    <2>5. r \in Runs
      BY <2>2, IdleFacts DEF Runs, PCs
    <2> HIDE DEF r
    <2>6. RunOK(r) /\ \A there : DaysOK(r, there)
      BY <1>2, <2>4 DEF RunOK, DaysOK, ReportDays
    <2> QED  BY <2>3, <2>4, <2>5, <2>6
  <1> QED  BY <1>1, <1>2

\* A delivery ends, or gives up, and the next one of the queue begins.
LEMMA FinishedFacts ==
  ASSUME TypeOK, RunInv, NEW a \in Deliverers
  PROVE  /\ Finished(a) \in Runs /\ RunOK(Finished(a)) /\ Finished(a).pending = {}
         /\ Finished(a).pc # "record" /\ \A there : DaysOK(Finished(a), there)
  <1>1. run[a].at \in Half /\ run[a].queue \in SUBSET Periods
        /\ (run[a].queue # {} => run[a].at >= 2 * StartDay)
    BY DEF TypeOK, RunInv, RunOK
  <1> QED  BY <1>1, ContinueFacts DEF Finished

\* After some destinations are through, the others are still pending.
LEMMA SentFacts ==
  ASSUME TypeOK, RunInv, NEW a \in Deliverers, run[a].pc \in {"send", "record"}, NEW xs
  PROVE  LET r == Sent(a, xs)
         IN /\ r \in Runs /\ RunOK(r) /\ r.pc # "record" /\ \A there : DaysOK(r, there)
            /\ \/ r.pending = {}
               \/ r.report = run[a].report /\ r.pending = run[a].pending \ xs
  <1>1. CASE run[a].pending \subseteq xs
    BY <1>1, FinishedFacts DEF Sent
  <1>2. CASE ~(run[a].pending \subseteq xs)
    <2> DEFINE r == [run[a] EXCEPT !.pc = "send", !.check = {}, !.pending = @ \ xs]
    <2>1. run[a] \in Runs
      BY DEF TypeOK, Runs
    <2>2. r \in Runs /\ r.pc = "send" /\ r.report = run[a].report /\ r.queue = run[a].queue
          /\ r.at = run[a].at /\ r.pending = run[a].pending \ xs
      BY <2>1 DEF Runs, PCs
    <2>3. Sent(a, xs) = r
      BY <1>2 DEF Sent
    <2> HIDE DEF r
    <2>4. RunOK(r) /\ \A there : DaysOK(r, there)
      BY <2>2 DEF RunInv, RunOK, DaysOK
    <2> QED  BY <2>2, <2>3, <2>4
  <1> QED  BY <1>1, <1>2

\* The instant of the next run of a cron is a number.
LEMMA NextRunType == ASSUME NEW p, NEW t PROVE NextRun(p, t) \in Nat
  <1> DEFINE S == {u \in Half : u > t /\ Fires(p, u)} \cup {MaxHalf + 1}
  <1>1. S \in SUBSET Nat /\ S # {}
    BY DeliveryAssumption DEF Half
  <1> HIDE DEF S
  <1>2. Min(S) \in Nat
    BY <1>1, MinOfNaturals
  <1> QED  BY <1>2 DEF NextRun, S

\* Getting through counts up to two.
LEMMA CountsUp ==
  ASSUME NEW n \in 0..2
  PROVE  Min({n + 1, 2}) \in 1..2 /\ (n = 0 => Min({n + 1, 2}) = 1)
  <1>1. {n + 1, 2} \in SUBSET Nat /\ {n + 1, 2} # {}
    OBVIOUS
  <1>2. Min({n + 1, 2}) \in {n + 1, 2} /\ \A y \in {n + 1, 2} : Min({n + 1, 2}) <= y
    BY <1>1, MinOfNaturals
  <1> QED  BY <1>2

\* After a destination is looked up, what is pending is what it was made.
LEMMA CheckedFacts ==
  ASSUME TypeOK, RunInv, NEW a \in Deliverers, run[a].pc = "check", NEW x,
         NEW pending \in SUBSET Destinations
  PROVE  LET r == Checked(a, x, pending)
         IN /\ r \in Runs /\ RunOK(r) /\ r.pc # "record"
            /\ r.pending = {} \/ (r.report = run[a].report /\ r.pending = pending)
            /\ \A there : a \in Schedulers /\ DaysOK(run[a], there) => DaysOK(r, there)
  <1>0. run[a] \in Runs /\ RunOK(run[a])
    BY DEF TypeOK, Runs, RunInv
  <1>1. CASE run[a].check # {x}
    <2> DEFINE r == [run[a] EXCEPT !.check = @ \ {x}, !.pending = pending]
    <2>1. /\ r \in Runs /\ r.pc = "check" /\ r.report = run[a].report /\ r.queue = run[a].queue
          /\ r.at = run[a].at /\ r.pending = pending /\ r.days = run[a].days
      BY <1>0 DEF Runs
    <2>2. Checked(a, x, pending) = r
      BY <1>1 DEF Checked
    <2> HIDE DEF r
    <2>3. RunOK(r) /\ \A there : DaysOK(run[a], there) => DaysOK(r, there)
      BY <1>0, <2>1 DEF RunOK, DaysOK, ReportDays
    <2> QED  BY <2>1, <2>2, <2>3
  <1>2. CASE run[a].check = {x} /\ pending = {}
    BY <1>2, FinishedFacts DEF Checked
  <1>3. CASE run[a].check = {x} /\ pending # {}
    <2> DEFINE pc == IF a \in Clients THEN "send" ELSE "build"
               r  == [run[a] EXCEPT !.check = {}, !.pending = pending, !.pc = pc]
    <2>1. /\ r \in Runs /\ r.pc = pc /\ r.report = run[a].report /\ r.queue = run[a].queue
          /\ r.at = run[a].at /\ r.pending = pending /\ r.days = run[a].days
      BY <1>0 DEF Runs, PCs
    <2>2. Checked(a, x, pending) = r
      BY <1>3 DEF Checked
    <2>3. pc \in {"send", "build"}
      OBVIOUS
    <2> HIDE DEF r, pc
    <2>4. RunOK(r) /\ \A there : DaysOK(run[a], there) => DaysOK(r, there)
      BY <1>0, <2>1, <2>3 DEF RunOK, DaysOK, ReportDays
    <2> QED  BY <2>1, <2>2, <2>3, <2>4
  <1> QED  BY <1>1, <1>2, <1>3

-----------------------------------------------------------------------------
(* What a step of one deliverer leaves as it is.                           *)

\* The types, when one deliverer goes on.
LEMMA GoesOnType ==
  ASSUME TypeOK, NEW a \in Deliverers, NEW after \in Runs, run' = [run EXCEPT ![a] = after],
         UNCHANGED <<now, up, next, dataVars>>,
         faults' \in 0..MaxFaults, delivered' \subseteq Deliveries,
         sent' \in [Deliveries -> 0..2], excused' \subseteq Deliveries, blank' \subseteq Reports
  PROVE  TypeOK'
  <1>1. run' \in [Deliverers -> Runs]
    BY DEF TypeOK, Runs
  <1> QED  BY <1>1 DEF TypeOK, Runs, dataVars

\* A deliverer that is at work is not the scheduler that ingests, and the process is up.
LEMMA GoesOnInv ==
  ASSUME TypeOK, DeliveryInv, NEW a \in Deliverers, ~Resting(a), NEW after \in Runs, RunOK(after),
         run' = [run EXCEPT ![a] = after], UNCHANGED <<now, up, dataVars>>
  PROVE  RunInv' /\ ProcessInv'
  <1>1. up /\ (ingest.holder = "scheduler" => a # "ingestion")
    BY DEF DeliveryInv, ProcessInv
  <1> QED  BY <1>1 DEF TypeOK, DeliveryInv, RunInv, ProcessInv, Resting, dataVars

\* The days that have been asked for.
LEMMA GoesOnDays ==
  ASSUME TypeOK, DeliveryInv, NEW a \in Deliverers, NEW after, run' = [run EXCEPT ![a] = after],
         UNCHANGED <<dataVars, blank>>, a \in Schedulers => DaysOK(after, rows \cup gone)
  PROVE  DaysInv'
  <1>1. rows' = rows /\ gone' = gone /\ blank' = {}
    BY DEF DeliveryInv, DaysInv, dataVars
  <1>2. ASSUME NEW b \in Schedulers PROVE DaysOK(run'[b], rows \cup gone)
    <2>1. run'[b] = IF b = a THEN after ELSE run[b]
      BY DEF TypeOK, Deliverers
    <2> QED  BY <2>1 DEF DeliveryInv, DaysInv
  <1> QED  BY <1>1, <1>2 DEF DaysInv, DaysOK, ReportDays

\* A step that sends and records nothing and leaves a part of what was pending.
LEMMA FewerPending ==
  ASSUME TypeOK, DeliveryInv, NEW a \in Deliverers, run[a].pc # "record",
         NEW after \in Runs, after.pc # "record", run' = [run EXCEPT ![a] = after],
         \/ after.pending = {}
         \/ after.report = run[a].report /\ after.pending \subseteq run[a].pending,
         UNCHANGED <<delivered, sent>>, excused \subseteq excused'
  PROVE  SentInv' /\ OnceInv'
  <1>1. \A b \in Deliverers : run'[b] = IF b = a THEN after ELSE run[b]
    BY DEF TypeOK
  <1>2. \A b \in Deliverers : \A k : Records(b, k)' <=> Records(b, k)
    BY <1>1 DEF Records
  <1>3. \A b \in Deliverers : \A k : Pends(b, k)' => Pends(b, k)
    BY <1>1 DEF Pends
  <1>4. SentInv'
    BY <1>2 DEF DeliveryInv, SentInv
  <1>5. OnceInv'
    BY <1>2, <1>3 DEF DeliveryInv, OnceInv
  <1> QED  BY <1>4, <1>5

-----------------------------------------------------------------------------
(* The calls of a delivery.                                                *)

\* A failed call spends a fault.
LEMMA FaultType ==
  ASSUME TypeOK, NEW a, NEW after
  PROVE  /\ Fault(a, after) => faults' \in 0..MaxFaults /\ run' = [run EXCEPT ![a] = after]
         /\ Call(a, after) => faults' \in 0..MaxFaults /\ run' = [run EXCEPT ![a] = after]
  BY DeliveryAssumption DEF TypeOK, Fault, Call

\* A day is asked for: it has rows, or the delivery gives up.
LEMMA CheckCompleteStep ==
  ASSUME TypeOK, DeliveryInv, NEW a \in Deliverers, CheckComplete(a)
  PROVE  TypeOK' /\ DeliveryInv'
  <1> DEFINE d == Min(run[a].days)
             last == [run[a] EXCEPT !.pc = "check", !.days = {}, !.check = Destinations]
             more == [run[a] EXCEPT !.days = @ \ {d}]
  <1>0. run[a] \in Runs /\ run[a].pc = "complete" /\ RunOK(run[a]) /\ RunInv
    BY DEF CheckComplete, TypeOK, Runs, DeliveryInv, RunInv
  <1>1. UNCHANGED <<now, up, next, delivered, dataVars, historyVars>>
    BY DEF CheckComplete
  <1>2. ASSUME NEW after \in Runs, RunOK(after), after.pc # "record", after.pending = {},
               a \in Schedulers => DaysOK(after, rows \cup gone),
               faults' \in 0..MaxFaults, run' = [run EXCEPT ![a] = after]
        PROVE  TypeOK' /\ DeliveryInv'
    <2>1. TypeOK'
      BY <1>1, <1>2, GoesOnType DEF TypeOK, historyVars
    <2>2. RunInv' /\ ProcessInv'
      BY <1>0, <1>1, <1>2, GoesOnInv DEF Resting
    <2>3. DaysInv'
      BY <1>1, <1>2, GoesOnDays DEF historyVars
    <2>4. SentInv' /\ OnceInv'
      BY <1>0, <1>1, <1>2, FewerPending DEF historyVars
    <2> QED  BY <2>1, <2>2, <2>3, <2>4 DEF DeliveryInv
  <1>3. last \in Runs /\ last.pc = "check" /\ last.pending = {} /\ RunOK(last)
        /\ last.report = run[a].report
    BY <1>0 DEF Runs, PCs, RunOK
  <1>4. more \in Runs /\ more.pc = "complete" /\ more.pending = {} /\ RunOK(more)
        /\ more.report = run[a].report /\ more.days = run[a].days \ {d}
    BY <1>0 DEF Runs, RunOK
  <1>5. ASSUME a \in Schedulers, d \in rows
        PROVE  /\ DaysOK(more, rows \cup gone)
               /\ run[a].days = {d} => DaysOK(last, rows \cup gone)
    <2>1. ReportDays(run[a]) \ run[a].days \subseteq rows \cup gone
      BY <1>0, <1>5 DEF DeliveryInv, DaysInv, DaysOK
    <2>2. ReportDays(more) = ReportDays(run[a]) /\ ReportDays(last) = ReportDays(run[a])
      BY <1>3, <1>4 DEF ReportDays
    <2> HIDE DEF more, last, d
    <2> QED  BY <1>3, <1>4, <1>5, <2>1, <2>2 DEF DaysOK
  <1>6. \/ d \in rows /\ Call(a, IF run[a].days = {d} THEN last ELSE more)
        \/ Call(a, Finished(a))
        \/ Fault(a, Finished(a))
    BY DEF CheckComplete
  <1> HIDE DEF d, last, more
  <1>7. CASE d \in rows /\ Call(a, IF run[a].days = {d} THEN last ELSE more)
    BY <1>2, <1>3, <1>4, <1>5, <1>7, FaultType
  <1>8. CASE Call(a, Finished(a)) \/ Fault(a, Finished(a))
    BY <1>0, <1>2, <1>8, FaultType, FinishedFacts
  <1> QED  BY <1>6, <1>7, <1>8

\* The report is built, or not; a scheduled one has been found complete before.
LEMMA BuildReportStep ==
  ASSUME TypeOK, DeliveryInv, NEW a \in Deliverers, BuildReport(a)
  PROVE  TypeOK' /\ DeliveryInv'
  <1> DEFINE pc == IF a \in Clients THEN "check" ELSE "send"
             built == [run[a] EXCEPT !.pc = pc]
  <1>0. run[a] \in Runs /\ run[a].pc = "build" /\ RunOK(run[a]) /\ RunInv
    BY DEF BuildReport, TypeOK, Runs, DeliveryInv, RunInv
  <1>1. UNCHANGED <<now, up, next, delivered, dataVars, sent, excused>>
    BY DEF BuildReport
  <1>2. UNCHANGED blank
    <2>1. a \notin Clients => ReportDays(run[a]) \subseteq rows \cup gone
      BY <1>0 DEF DeliveryInv, DaysInv, DaysOK, Deliverers
    <2> QED  BY <2>1 DEF BuildReport, ReportDays
  <1>3. ASSUME NEW after \in Runs, RunOK(after), after.pc # "record",
               \/ after.pending = {}
               \/ after.report = run[a].report /\ after.pending \subseteq run[a].pending,
               a \in Schedulers => DaysOK(after, rows \cup gone),
               faults' \in 0..MaxFaults, run' = [run EXCEPT ![a] = after]
        PROVE  TypeOK' /\ DeliveryInv'
    <2>1. TypeOK'
      BY <1>1, <1>2, <1>3, GoesOnType DEF TypeOK
    <2>2. RunInv' /\ ProcessInv'
      BY <1>0, <1>1, <1>3, GoesOnInv DEF Resting
    <2>3. DaysInv'
      BY <1>1, <1>2, <1>3, GoesOnDays
    <2>4. SentInv' /\ OnceInv'
      BY <1>0, <1>1, <1>3, FewerPending
    <2> QED  BY <2>1, <2>2, <2>3, <2>4 DEF DeliveryInv
  <1>4. /\ built \in Runs /\ built.pc = pc /\ pc \in {"check", "send"} /\ RunOK(built)
        /\ built.report = run[a].report /\ built.pending = run[a].pending
    BY <1>0 DEF Runs, PCs, RunOK
  <1>5. a \in Schedulers => \A there : DaysOK(built, there)
    <2>1. a \in Schedulers => pc = "send"
      BY DeliveryAssumption
    <2> QED  BY <1>4, <2>1 DEF DaysOK
  <1>6. Call(a, built) \/ Fault(a, Finished(a))
    BY DEF BuildReport
  <1> HIDE DEF built, pc
  <1>7. CASE Call(a, built)
    BY <1>3, <1>4, <1>5, <1>7, FaultType
  <1>8. CASE Fault(a, Finished(a))
    BY <1>0, <1>3, <1>8, FaultType, FinishedFacts
  <1> QED  BY <1>6, <1>7, <1>8

\* Who looks up a delivery, finds no record of it and no other at it, is the only one at
\* it, and it has not been sent.
LEMMA CheckDeliveredStep ==
  ASSUME TypeOK, DeliveryInv, NEW a \in Deliverers, CheckDelivered(a)
  PROVE  TypeOK' /\ DeliveryInv'
  <1>0. run[a] \in Runs /\ run[a].pc = "check" /\ RunInv /\ run[a].pending \in SUBSET Destinations
    BY DEF CheckDelivered, TypeOK, Runs, DeliveryInv
  <1>1. UNCHANGED <<now, up, next, delivered, dataVars, sent, blank>>
    BY DEF CheckDelivered
  <1>2. PICK x \in run[a].check :
       \/ /\ AlreadyDelivered(a, x) /\ Call(a, Checked(a, x, run[a].pending))
          /\ UNCHANGED excused
       \/ /\ ~AlreadyDelivered(a, x)
          /\ Call(a, Checked(a, x, run[a].pending \cup {x}))
          /\ excused' = IF Racing(a, x) \/ run[a].force
                        THEN excused \cup {Key(a, x)} ELSE excused
       \/ /\ ~run[a].force /\ Fault(a, Checked(a, x, run[a].pending))
          /\ UNCHANGED excused
    BY DEF CheckDelivered
  <1>3. x \in Destinations /\ Key(a, x) \in Deliveries
    BY <1>0 DEF Runs, Key, Deliveries
  <1>4. excused \subseteq excused' /\ excused' \subseteq Deliveries
    BY <1>2, <1>3 DEF TypeOK
  <1>5. ASSUME NEW after \in Runs, RunOK(after),
               a \in Schedulers /\ DaysOK(run[a], rows \cup gone) => DaysOK(after, rows \cup gone),
               faults' \in 0..MaxFaults, run' = [run EXCEPT ![a] = after]
        PROVE  TypeOK' /\ RunInv' /\ ProcessInv' /\ DaysInv'
    <2>1. TypeOK'
      BY <1>1, <1>4, <1>5, GoesOnType DEF TypeOK
    <2>2. RunInv' /\ ProcessInv'
      BY <1>0, <1>1, <1>5, GoesOnInv DEF Resting
    <2>3. DaysInv'
      BY <1>1, <1>5, GoesOnDays DEF DeliveryInv, DaysInv
    <2> QED  BY <2>1, <2>2, <2>3
  <1>6. ASSUME Call(a, Checked(a, x, run[a].pending)) \/ Fault(a, Checked(a, x, run[a].pending))
        PROVE  TypeOK' /\ DeliveryInv'
    <2> DEFINE after == Checked(a, x, run[a].pending)
    <2>1. /\ after \in Runs /\ RunOK(after) /\ after.pc # "record"
          /\ after.pending = {} \/ (after.report = run[a].report /\ after.pending = run[a].pending)
          /\ \A there : a \in Schedulers /\ DaysOK(run[a], there) => DaysOK(after, there)
      BY <1>0, CheckedFacts
    <2> HIDE DEF after
    <2>2. faults' \in 0..MaxFaults /\ run' = [run EXCEPT ![a] = after]
      BY <1>6, FaultType DEF after
    <2>3. SentInv' /\ OnceInv'
      BY <1>0, <1>1, <1>4, <2>1, <2>2, FewerPending
    <2> QED  BY <1>5, <2>1, <2>2, <2>3 DEF DeliveryInv
  <1>7. ASSUME ~AlreadyDelivered(a, x), Call(a, Checked(a, x, run[a].pending \cup {x})),
               excused' = IF Racing(a, x) \/ run[a].force
                          THEN excused \cup {Key(a, x)} ELSE excused
        PROVE  TypeOK' /\ DeliveryInv'
    <2> DEFINE after == Checked(a, x, run[a].pending \cup {x})
    <2>0. run[a].pending \cup {x} \in SUBSET Destinations
      BY <1>0, <1>3
    <2>1. /\ after \in Runs /\ RunOK(after) /\ after.pc # "record"
          /\ \/ after.pending = {}
             \/ after.report = run[a].report /\ after.pending = run[a].pending \cup {x}
          /\ \A there : a \in Schedulers /\ DaysOK(run[a], there) => DaysOK(after, there)
      BY <1>0, <2>0, CheckedFacts
    <2> HIDE DEF after
    <2>2. faults' \in 0..MaxFaults /\ run' = [run EXCEPT ![a] = after]
      BY <1>7, FaultType DEF after
    <2>3. CASE after.pending = {}
      BY <1>0, <1>1, <1>4, <1>5, <2>1, <2>2, <2>3, FewerPending DEF DeliveryInv
    <2>4. CASE after.report = run[a].report /\ after.pending = run[a].pending \cup {x}
      <3>1. \A b \in Deliverers : run'[b] = IF b = a THEN after ELSE run[b]
        BY <2>2 DEF TypeOK
      <3>2. \A b \in Deliverers : \A k : Records(b, k)' <=> Records(b, k)
        BY <1>0, <2>1, <3>1 DEF Records
      <3>3. ASSUME NEW k \in Deliveries
            PROVE  k = Key(a, x) \/ \A b \in Deliverers : Pends(b, k)' <=> Pends(b, k)
        BY <2>4, <3>1 DEF Pends, Key, Deliveries
      <3>4. ASSUME Key(a, x) \notin excused'
            PROVE  /\ \A b \in Deliverers \ {a} : ~Pends(b, Key(a, x))
                   /\ sent[Key(a, x)] = 0
        <4>1. ~Racing(a, x) /\ Key(a, x) \notin delivered /\ Key(a, x) \notin excused
          BY <1>7, <3>4 DEF AlreadyDelivered
        <4>2. \A b \in Deliverers \ {a} : ~Pends(b, Key(a, x))
          BY <4>1 DEF Racing, Pends, Key
        <4>3. \A b \in Deliverers : ~Records(b, Key(a, x))
          BY <1>0, <4>2 DEF Records, Pends, RunInv, RunOK
        <4>4. sent[Key(a, x)] \in 0..2
          BY <1>3 DEF TypeOK
        <4> QED  BY <1>3, <4>1, <4>2, <4>3, <4>4 DEF DeliveryInv, OnceInv
      <3>5. SentInv'
        BY <1>1, <3>2 DEF DeliveryInv, SentInv
      <3>6. ASSUME NEW k \in Deliveries, k \notin excused'
            PROVE  /\ sent[k] <= 1
                   /\ sent[k] > 0 => k \in delivered \/ \E b \in Deliverers : Records(b, k)
                   /\ \A b \in Deliverers : Pends(b, k)' /\ ~Records(b, k) => sent[k] = 0
                   /\ \A b, c \in Deliverers : Pends(b, k)' /\ Pends(c, k)' => b = c
        <4>1. k \notin excused
          BY <3>6, <1>4
        <4>2. CASE k # Key(a, x)
          BY <4>1, <4>2, <3>3 DEF DeliveryInv, OnceInv
        <4>3. CASE k = Key(a, x)
          <5>1. \A b \in Deliverers \ {a} : ~Pends(b, k)'
            BY <3>1, <3>4, <3>6, <4>3 DEF Pends
          <5> QED  BY <5>1, <3>4, <3>6, <4>3
        <4> QED  BY <4>2, <4>3
      <3>7. OnceInv'
        BY <1>1, <3>2, <3>6 DEF OnceInv
      <3> QED  BY <1>5, <2>1, <2>2, <3>5, <3>7 DEF DeliveryInv
    <2> QED  BY <2>1, <2>3, <2>4
  <1> QED  BY <1>2, <1>6, <1>7

\* The message gets through: the deliverer is about to record what it alone was to send,
\* or the failed call is the excuse for sending it again.
LEMMA SendReportStep ==
  ASSUME TypeOK, DeliveryInv, NEW a \in Deliverers, SendReport(a)
  PROVE  TypeOK' /\ DeliveryInv'
  <1>0. run[a] \in Runs /\ run[a].pc = "send" /\ RunInv /\ RunOK(run[a])
    BY DEF SendReport, TypeOK, Runs, DeliveryInv, RunInv
  <1>1. UNCHANGED <<now, up, next, delivered, dataVars, blank>>
    BY DEF SendReport
  <1>2. PICK x \in run[a].pending :
       \/ /\ Call(a, [run[a] EXCEPT !.pc = "record", !.check = {x}])
          /\ GotThrough(a, x) /\ UNCHANGED excused
       \/ /\ Fault(a, Sent(a, {x}))
          /\ \/ UNCHANGED <<sent, excused>>
             \/ GotThrough(a, x) /\ excused' = excused \cup {Key(a, x)}
    BY DEF SendReport, AfterFailedSend
  <1>3. x \in Destinations /\ Key(a, x) \in Deliveries
    BY <1>0 DEF Runs, Key, Deliveries
  <1>4. excused \subseteq excused' /\ excused' \subseteq Deliveries
    BY <1>2, <1>3 DEF TypeOK
  <1>5. ASSUME GotThrough(a, x)
        PROVE  /\ sent' \in [Deliveries -> 0..2]
               /\ \A k \in Deliveries : k # Key(a, x) => sent'[k] = sent[k]
               /\ sent'[Key(a, x)] > 0
               /\ sent[Key(a, x)] = 0 => sent'[Key(a, x)] = 1
    <2>1. sent[Key(a, x)] \in 0..2
      BY <1>3 DEF TypeOK
    <2> DEFINE m == Min({sent[Key(a, x)] + 1, 2})
    <2>2. m \in 1..2 /\ (sent[Key(a, x)] = 0 => m = 1)
      BY <2>1, CountsUp
    <2>3. sent' = [sent EXCEPT ![Key(a, x)] = m]
      BY <1>5 DEF GotThrough
    <2> HIDE DEF m
    <2> QED  BY <1>3, <2>2, <2>3 DEF TypeOK
  <1>6. ASSUME NEW after \in Runs, RunOK(after), a \in Schedulers => DaysOK(after, rows \cup gone),
               faults' \in 0..MaxFaults, run' = [run EXCEPT ![a] = after],
               sent' \in [Deliveries -> 0..2]
        PROVE  TypeOK' /\ RunInv' /\ ProcessInv' /\ DaysInv'
    <2>1. TypeOK'
      BY <1>1, <1>4, <1>6, GoesOnType DEF TypeOK
    <2>2. RunInv' /\ ProcessInv'
      BY <1>0, <1>1, <1>6, GoesOnInv DEF Resting
    <2>3. DaysInv'
      BY <1>1, <1>6, GoesOnDays
    <2> QED  BY <2>1, <2>2, <2>3
  <1>7. ASSUME NEW after, run' = [run EXCEPT ![a] = after]
        PROVE  \A b \in Deliverers : run'[b] = IF b = a THEN after ELSE run[b]
    BY <1>7 DEF TypeOK
  <1>8. CASE /\ Call(a, [run[a] EXCEPT !.pc = "record", !.check = {x}])
             /\ GotThrough(a, x) /\ UNCHANGED excused
    <2> DEFINE after == [run[a] EXCEPT !.pc = "record", !.check = {x}]
    <2>1. /\ after \in Runs /\ after.pc = "record" /\ after.check = {x}
          /\ after.report = run[a].report /\ after.pending = run[a].pending
          /\ after.queue = run[a].queue /\ after.at = run[a].at
      BY <1>0, <1>3 DEF Runs, PCs
    <2> HIDE DEF after
    <2>2. faults' \in 0..MaxFaults /\ run' = [run EXCEPT ![a] = after]
      BY <1>8, FaultType DEF after
    <2>3. RunOK(after) /\ \A there : DaysOK(after, there)
      BY <1>0, <2>1 DEF RunOK, DaysOK
    <2>4. \A b \in Deliverers : run'[b] = IF b = a THEN after ELSE run[b]
      BY <1>7, <2>2
    <2>5. \A b \in Deliverers, k \in Deliveries : Pends(b, k)' <=> Pends(b, k)
      BY <2>1, <2>4 DEF Pends
    <2>6. /\ \A k \in Deliveries : k = Key(a, x) => Records(a, k)' /\ Pends(a, k)
          /\ \A k \in Deliveries : ~Records(a, k)
          /\ \A b \in Deliverers, k \in Deliveries :
               k # Key(a, x) => (Records(b, k)' <=> Records(b, k))
          /\ \A b \in Deliverers \ {a}, k \in Deliveries : Records(b, k)' <=> Records(b, k)
      BY <1>0, <2>1, <2>4 DEF Records, Pends, Key, Deliveries
    <2>7. SentInv'
      BY <1>1, <1>3, <1>5, <1>8, <2>6 DEF DeliveryInv, SentInv
    <2>8. OnceInv'
      <3>1. ASSUME NEW k \in Deliveries, k \notin excused, k # Key(a, x)
            PROVE  /\ sent'[k] <= 1
                   /\ sent'[k] > 0 => k \in delivered \/ \E b \in Deliverers : Records(b, k)'
                   /\ \A b \in Deliverers : Pends(b, k)' /\ ~Records(b, k)' => sent'[k] = 0
                   /\ \A b, c \in Deliverers : Pends(b, k)' /\ Pends(c, k)' => b = c
        BY <3>1, <1>5, <1>8, <2>5, <2>6 DEF DeliveryInv, OnceInv
      <3>2. ASSUME NEW k \in Deliveries, k \notin excused, k = Key(a, x)
            PROVE  /\ sent'[k] <= 1
                   /\ sent'[k] > 0 => k \in delivered \/ \E b \in Deliverers : Records(b, k)'
                   /\ \A b \in Deliverers : Pends(b, k)' /\ ~Records(b, k)' => sent'[k] = 0
                   /\ \A b, c \in Deliverers : Pends(b, k)' /\ Pends(c, k)' => b = c
        <4>1. /\ \A b, c \in Deliverers : Pends(b, k) /\ Pends(c, k) => b = c
              /\ sent[k] = 0
          BY <3>2, <1>3, <2>6 DEF DeliveryInv, OnceInv
        <4>2. sent'[k] = 1
          BY <3>2, <4>1, <1>5, <1>8
        <4>3. \A b \in Deliverers : Pends(b, k)' => b = a
          BY <3>2, <4>1, <1>3, <2>5, <2>6
        <4>4. Records(a, k)'
          BY <3>2, <2>6
        <4> QED  BY <4>2, <4>3, <4>4
      <3> QED  BY <3>1, <3>2, <1>1, <1>8 DEF OnceInv
    <2> QED  BY <1>5, <1>6, <1>8, <2>1, <2>2, <2>3, <2>7, <2>8 DEF DeliveryInv
  <1>9. CASE /\ Fault(a, Sent(a, {x}))
             /\ \/ UNCHANGED <<sent, excused>>
                \/ GotThrough(a, x) /\ excused' = excused \cup {Key(a, x)}
    <2> DEFINE after == Sent(a, {x})
    <2>1. /\ after \in Runs /\ RunOK(after) /\ after.pc # "record"
          /\ \A there : DaysOK(after, there)
          /\ \/ after.pending = {}
             \/ after.report = run[a].report /\ after.pending = run[a].pending \ {x}
      BY <1>0, SentFacts
    <2> HIDE DEF after
    <2>2. faults' \in 0..MaxFaults /\ run' = [run EXCEPT ![a] = after]
      BY <1>9, FaultType DEF after
    <2>3. CASE UNCHANGED <<sent, excused>>
      <3>1. SentInv' /\ OnceInv'
        BY <1>0, <1>1, <1>4, <2>1, <2>2, <2>3, FewerPending
      <3> QED  BY <1>6, <2>1, <2>2, <2>3, <3>1 DEF DeliveryInv, TypeOK
    <2>4. CASE GotThrough(a, x) /\ excused' = excused \cup {Key(a, x)}
      <3>1. \A b \in Deliverers : run'[b] = IF b = a THEN after ELSE run[b]
        BY <1>7, <2>2
      <3>2. \A b \in Deliverers : \A k : Records(b, k)' <=> Records(b, k)
        BY <1>0, <2>1, <3>1 DEF Records
      <3>3. \A b \in Deliverers : \A k : Pends(b, k)' => Pends(b, k)
        BY <2>1, <3>1 DEF Pends
      <3>4. SentInv'
        BY <1>1, <1>5, <2>4, <3>2 DEF DeliveryInv, SentInv
      <3>5. OnceInv'
        BY <1>1, <1>5, <2>4, <3>2, <3>3 DEF DeliveryInv, OnceInv
      <3> QED  BY <1>5, <1>6, <2>1, <2>2, <2>4, <3>4, <3>5 DEF DeliveryInv
    <2> QED  BY <1>9, <2>3, <2>4
  <1> QED  BY <1>2, <1>8, <1>9

\* What was sent is recorded, or the failed record is the excuse for sending it again.
LEMMA RecordDeliveryStep ==
  ASSUME TypeOK, DeliveryInv, NEW a \in Deliverers, RecordDelivery(a)
  PROVE  TypeOK' /\ DeliveryInv'
  <1> DEFINE after == Sent(a, run[a].check)
             keys  == {Key(a, x) : x \in run[a].check}
  <1>0. run[a] \in Runs /\ run[a].pc = "record" /\ RunInv
    BY DEF RecordDelivery, TypeOK, Runs, DeliveryInv
  <1>1. UNCHANGED <<now, up, next, dataVars, sent, blank>>
    BY DEF RecordDelivery
  <1>2. /\ after \in Runs /\ RunOK(after) /\ after.pc # "record"
        /\ \A there : DaysOK(after, there)
        /\ \/ after.pending = {}
           \/ after.report = run[a].report /\ after.pending = run[a].pending \ run[a].check
    BY <1>0, SentFacts
  <1>3. keys \subseteq Deliveries
    BY <1>0 DEF Runs, Key, Deliveries
  <1>4. \A k \in Deliveries : Records(a, k) <=> k \in keys
    BY <1>0 DEF Records, Key, Deliveries
  <1>5. \/ delivered' = delivered \cup keys /\ Call(a, after) /\ excused' = excused
        \/ delivered' = delivered /\ Fault(a, after) /\ excused' = excused \cup keys
    BY DEF RecordDelivery, RecordReportDelivery
  <1> HIDE DEF after, keys
  <1>6. faults' \in 0..MaxFaults /\ run' = [run EXCEPT ![a] = after]
    BY <1>5, FaultType
  <1>7. TypeOK'
    BY <1>1, <1>2, <1>3, <1>5, <1>6, GoesOnType DEF TypeOK
  <1>8. RunInv' /\ ProcessInv'
    BY <1>0, <1>1, <1>2, <1>6, GoesOnInv DEF Resting
  <1>9. DaysInv'
    BY <1>1, <1>2, <1>6, GoesOnDays
  <1>10. \A b \in Deliverers : run'[b] = IF b = a THEN after ELSE run[b]
    BY <1>6 DEF TypeOK
  <1>11. /\ \A b \in Deliverers \ {a}, k \in Deliveries : Records(b, k)' <=> Records(b, k)
         /\ \A k \in Deliveries : ~Records(a, k)'
    BY <1>2, <1>10 DEF Records
  <1>12. /\ \A b \in Deliverers, k \in Deliveries : Pends(b, k)' => Pends(b, k)
         /\ \A k \in Deliveries : Pends(a, k)' => ~Records(a, k)
    BY <1>2, <1>10 DEF Pends, Records
  <1>13. SentInv'
    BY <1>1, <1>4, <1>5, <1>11 DEF DeliveryInv, SentInv
  <1>14. OnceInv'
    <2>1. ASSUME NEW k \in Deliveries, k \notin excused'
          PROVE  /\ sent[k] <= 1
                 /\ sent[k] > 0 => k \in delivered' \/ \E b \in Deliverers : Records(b, k)'
                 /\ \A b \in Deliverers : Pends(b, k)' /\ ~Records(b, k)' => sent[k] = 0
                 /\ \A b, c \in Deliverers : Pends(b, k)' /\ Pends(c, k)' => b = c
      <3>1. k \notin excused /\ (Records(a, k) => k \in delivered') /\ delivered \subseteq delivered'
        BY <2>1, <1>4, <1>5
      <3> QED  BY <3>1, <1>11, <1>12 DEF DeliveryInv, OnceInv
    <2> QED  BY <2>1, <1>1 DEF OnceInv
  <1> QED  BY <1>7, <1>8, <1>9, <1>13, <1>14 DEF DeliveryInv

-----------------------------------------------------------------------------
(* What starts a delivery, ingestion, and the process.                     *)

\* A deliverer that rests begins with nothing pending.
LEMMA BeginsInv ==
  ASSUME TypeOK, DeliveryInv, NEW a \in Deliverers, Resting(a), NEW after \in Runs, RunOK(after),
         after.pending = {}, after.pc # "record", a \in Schedulers => DaysOK(after, rows \cup gone),
         run' = [run EXCEPT ![a] = after],
         UNCHANGED <<delivered, sent, excused, blank, rows, gone>>
  PROVE  RunInv' /\ SentInv' /\ OnceInv' /\ DaysInv'
  <1>1. \A b \in Deliverers : run'[b] = IF b = a THEN after ELSE run[b]
    BY DEF TypeOK
  <1>2. SentInv' /\ OnceInv'
    BY FewerPending DEF Resting
  <1>3. RunInv'
    BY <1>1 DEF DeliveryInv, RunInv
  <1>4. ASSUME NEW b \in Schedulers PROVE DaysOK(run'[b], rows \cup gone)
    BY <1>1 DEF DeliveryInv, DaysInv, Deliverers
  <1>5. DaysInv'
    BY <1>4 DEF DeliveryInv, DaysInv, DaysOK, ReportDays
  <1> QED  BY <1>2, <1>3, <1>5

\* A step of ingestion: no delivery goes on, and days that had rows or were being
\* replaced still have them or are.
LEMMA OthersInv ==
  ASSUME DeliveryInv, UNCHANGED <<run, delivered, sent, excused, blank>>,
         rows \cup gone \subseteq rows' \cup gone'
  PROVE  RunInv' /\ SentInv' /\ OnceInv' /\ DaysInv'
  <1>1. RunInv' /\ SentInv' /\ OnceInv'
    BY DEF DeliveryInv, RunInv, SentInv, OnceInv, Records, Pends
  <1>2. ASSUME NEW b \in Schedulers PROVE DaysOK(run[b], rows' \cup gone')
    BY DEF DeliveryInv, DaysInv, DaysOK
  <1>3. DaysInv'
    BY <1>2 DEF DeliveryInv, DaysInv, DaysOK, ReportDays
  <1> QED  BY <1>1, <1>3

\* Time passes.
LEMMA TickStep ==
  ASSUME TypeOK, DeliveryInv, Tick PROVE TypeOK' /\ DeliveryInv'
  <1>1. /\ now' = now + 1 /\ now < MaxHalf
        /\ UNCHANGED <<up, next, run, delivered, dataVars, faults, historyVars>>
    BY DEF Tick
  <1>2. TypeOK'
    BY <1>1, DeliveryAssumption DEF TypeOK, Half, dataVars, historyVars
  <1>3. ProcessInv'
    BY <1>1, DeliveryAssumption DEF DeliveryInv, ProcessInv, Resting, dataVars, TypeOK, Half
  <1>4. RunInv' /\ SentInv' /\ OnceInv' /\ DaysInv'
    BY <1>1, OthersInv DEF dataVars, historyVars
  <1> QED  BY <1>2, <1>3, <1>4 DEF DeliveryInv

\* What a scheduler takes up when it begins at this time.
LEMMA DueFacts ==
  ASSUME TypeOK, DeliveryInv, NEW due \in SUBSET Periods
  PROVE  LET r == Continue(now, due)
         IN /\ r \in Runs /\ RunOK(r) /\ r.pending = {} /\ r.pc # "record"
            /\ \A there : DaysOK(r, there)
  <1>1. now \in Half /\ now >= 2 * StartDay
    BY DEF TypeOK, DeliveryInv, ProcessInv
  <1> QED  BY <1>1, ContinueFacts

\* The report scheduler's timer fires.
LEMMA TimerStep ==
  ASSUME TypeOK, DeliveryInv, TimerFires PROVE TypeOK' /\ DeliveryInv'
  <1> DEFINE due   == {p \in Periods : now >= next[p]}
             after == Continue(now, due)
  <1>1. /\ up /\ Resting("reports") /\ run' = [run EXCEPT !["reports"] = after]
        /\ next' = [p \in Periods |-> IF p \in due THEN NextRun(p, now) ELSE next[p]]
        /\ UNCHANGED <<now, up, delivered, dataVars, faults, historyVars>>
    BY DEF TimerFires
  <1>2. /\ after \in Runs /\ RunOK(after) /\ after.pending = {} /\ after.pc # "record"
        /\ \A there : DaysOK(after, there)
    BY DueFacts
  <1>3. "reports" \in Deliverers /\ "reports" # "ingestion"
    BY DEF Deliverers, Schedulers
  <1>4. next' \in [Periods -> Nat]
    BY <1>1, NextRunType DEF TypeOK
  <1> HIDE DEF after, due
  <1>5. run' \in [Deliverers -> Runs]
    BY <1>1, <1>2 DEF TypeOK, Runs
  <1>6. TypeOK'
    BY <1>1, <1>4, <1>5 DEF TypeOK, Runs, dataVars, historyVars
  <1>7. ProcessInv'
    BY <1>1, <1>3 DEF DeliveryInv, ProcessInv, Resting, dataVars, TypeOK
  <1>8. RunInv' /\ SentInv' /\ OnceInv' /\ DaysInv'
    BY <1>1, <1>2, <1>3, BeginsInv DEF dataVars, historyVars
  <1> QED  BY <1>6, <1>7, <1>8 DEF DeliveryInv

\* A client asks for a report.
LEMMA RequestStep ==
  ASSUME TypeOK, DeliveryInv, NEW c \in Clients, RequestReport(c) PROVE TypeOK' /\ DeliveryInv'
  <1>1. PICK p \in AskedFor, force \in BOOLEAN :
          run' = [run EXCEPT ![c] =
                   [IdleRun EXCEPT !.pc = "build", !.at = now, !.force = force,
                      !.report = <<p, FirstDay(p, DayOf(now))>>, !.check = Destinations]]
    BY DEF RequestReport
  <1> DEFINE after == [IdleRun EXCEPT !.pc = "build", !.at = now, !.force = force,
                         !.report = <<p, FirstDay(p, DayOf(now))>>, !.check = Destinations]
  <1>2. /\ up /\ Resting(c)
        /\ requests > 0 /\ requests' = requests - 1
        /\ UNCHANGED <<now, up, next, delivered, rows, ingest, gone, faults, historyVars>>
    BY DEF RequestReport
  <1>3. now \in Half /\ now >= 2 * StartDay /\ p \in Periods
    BY DeliveryAssumption DEF TypeOK, DeliveryInv, ProcessInv
  <1>4. <<p, FirstDay(p, DayOf(now))>> \in Reports
    BY <1>3, DayType, ReportType
  <1>5. after \in Runs
    BY <1>3, <1>4, IdleFacts DEF Runs, PCs
  <1>6. after.pc = "build" /\ after.pending = {} /\ after.queue = {}
    BY DEF IdleRun
  <1>7. c \in Deliverers /\ c \notin Schedulers /\ c # "ingestion"
    BY DeliveryAssumption DEF Deliverers, Schedulers
  <1>8. run' = [run EXCEPT ![c] = after]
    BY <1>1
  <1> HIDE DEF after
  <1>9. RunOK(after)
    BY <1>6 DEF RunOK
  <1>10. run' \in [Deliverers -> Runs]
    BY <1>5, <1>8 DEF TypeOK, Runs
  <1>15. requests' \in 0..MaxRequests
    BY <1>2, DeliveryAssumption DEF TypeOK
  <1>11. TypeOK'
    BY <1>2, <1>10, <1>15 DEF TypeOK, Runs, historyVars
  <1>12. ProcessInv'
    BY <1>2, <1>7, <1>8 DEF DeliveryInv, ProcessInv, Resting, TypeOK
  <1>13. RunInv' /\ SentInv' /\ OnceInv' /\ DaysInv'
    BY <1>2, <1>5, <1>6, <1>7, <1>8, <1>9, BeginsInv DEF historyVars
  <1> QED  BY <1>11, <1>12, <1>13 DEF DeliveryInv

\* Ingestion starts, and replaces days.
LEMMA IngestingStep ==
  ASSUME TypeOK, DeliveryInv,
         \/ \E holder \in {"scheduler", "http"} : StartIngestion(holder)
         \/ \E d \in Days : DeleteRows(d) \/ StoreRows(d)
  PROVE  TypeOK' /\ DeliveryInv'
  <1>1. ASSUME NEW holder \in {"scheduler", "http"}, StartIngestion(holder)
        PROVE  TypeOK' /\ DeliveryInv'
    <2>1. /\ up /\ (holder = "scheduler" => Resting("ingestion"))
          /\ ingest' = [holder |-> holder, replaced |-> {}] /\ requests' \in 0..MaxRequests
          /\ UNCHANGED <<now, up, next, run, delivered, rows, gone, faults, historyVars>>
      BY <1>1, DeliveryAssumption DEF StartIngestion, TypeOK
    <2>2. TypeOK'
      BY <2>1 DEF TypeOK, historyVars
    <2>3. ProcessInv'
      BY <2>1 DEF DeliveryInv, ProcessInv, Resting
    <2>4. RunInv' /\ SentInv' /\ OnceInv' /\ DaysInv'
      BY <2>1, OthersInv DEF historyVars
    <2> QED  BY <2>2, <2>3, <2>4 DEF DeliveryInv
  <1>2. ASSUME NEW d \in Days, DeleteRows(d) \/ StoreRows(d) PROVE TypeOK' /\ DeliveryInv'
    <2>1. /\ up /\ ingest'.holder = ingest.holder
          /\ ingest' \in [holder : {"none", "scheduler", "http"}, replaced : SUBSET Days]
          /\ rows' \subseteq Days /\ gone' \subseteq Days
          /\ rows \cup gone \subseteq rows' \cup gone'
          /\ UNCHANGED <<now, up, next, run, delivered, requests, faults, historyVars>>
      BY <1>2 DEF DeleteRows, StoreRows, TypeOK
    <2>2. TypeOK'
      BY <2>1 DEF TypeOK, historyVars
    <2>3. ProcessInv'
      BY <2>1 DEF DeliveryInv, ProcessInv, Resting
    <2>4. RunInv' /\ SentInv' /\ OnceInv' /\ DaysInv'
      BY <2>1, OthersInv DEF historyVars
    <2> QED  BY <2>2, <2>3, <2>4 DEF DeliveryInv
  <1> QED  BY <1>1, <1>2

\* Ingestion ends, and its scheduler delivers what is due.
LEMMA EndIngestionStep ==
  ASSUME TypeOK, DeliveryInv, EndIngestion PROVE TypeOK' /\ DeliveryInv'
  <1> DEFINE after == Continue(now, DueReports(now))
  <1>1. /\ up /\ ingest.holder # "none" /\ faults' \in 0..MaxFaults /\ ingest' = NotIngesting
        /\ run' = IF ingest.holder = "http" THEN run ELSE [run EXCEPT !["ingestion"] = after]
        /\ UNCHANGED <<now, up, next, delivered, rows, gone, requests, historyVars>>
    BY DeliveryAssumption DEF EndIngestion, TypeOK
  <1>2. /\ after \in Runs /\ RunOK(after) /\ after.pending = {} /\ after.pc # "record"
        /\ \A there : DaysOK(after, there)
    BY DueFacts DEF DueReports
  <1>3. "ingestion" \in Deliverers
    BY DEF Deliverers, Schedulers
  <1> HIDE DEF after
  <1>4. run' \in [Deliverers -> Runs]
    BY <1>1, <1>2 DEF TypeOK, Runs
  <1>5. TypeOK'
    BY <1>1, <1>4 DEF TypeOK, Runs, NotIngesting, historyVars
  <1>6. ProcessInv'
    BY <1>1 DEF DeliveryInv, ProcessInv, NotIngesting
  <1>7. RunInv' /\ SentInv' /\ OnceInv' /\ DaysInv'
    <2>1. CASE ingest.holder = "http"
      BY <1>1, <2>1, OthersInv DEF historyVars
    <2>2. CASE ingest.holder # "http"
      <3>1. Resting("ingestion")
        BY <1>1, <2>2 DEF DeliveryInv, ProcessInv, TypeOK
      <3> QED  BY <1>1, <1>2, <1>3, <2>2, <3>1, BeginsInv DEF historyVars
    <2> QED  BY <2>1, <2>2
  <1> QED  BY <1>5, <1>6, <1>7 DEF DeliveryInv

\* The process starts again, and delivers what is due.
LEMMA StartStep ==
  ASSUME TypeOK, DeliveryInv, Start PROVE TypeOK' /\ DeliveryInv'
  <1> DEFINE after == Continue(now, DueReports(now))
  <1>1. /\ ~up /\ up' = TRUE /\ run' = [run EXCEPT !["reports"] = after]
        /\ next' = [p \in Periods |-> NextRun(p, now)]
        /\ UNCHANGED <<now, delivered, dataVars, faults, historyVars>>
    BY DEF Start
  <1>2. /\ after \in Runs /\ RunOK(after) /\ after.pending = {} /\ after.pc # "record"
        /\ \A there : DaysOK(after, there)
    BY DueFacts DEF DueReports
  <1>3. /\ "reports" \in Deliverers /\ Resting("reports") /\ ingest = NotIngesting
    BY <1>1 DEF Deliverers, Schedulers, DeliveryInv, ProcessInv
  <1>4. next' \in [Periods -> Nat]
    BY <1>1, NextRunType
  <1> HIDE DEF after
  <1>5. run' \in [Deliverers -> Runs]
    BY <1>1, <1>2 DEF TypeOK, Runs
  <1>6. TypeOK'
    BY <1>1, <1>4, <1>5 DEF TypeOK, Runs, dataVars, historyVars
  <1>7. ProcessInv'
    BY <1>1, <1>3 DEF DeliveryInv, ProcessInv, NotIngesting, dataVars
  <1>8. RunInv' /\ SentInv' /\ OnceInv' /\ DaysInv'
    BY <1>1, <1>2, <1>3, BeginsInv DEF dataVars, historyVars
  <1> QED  BY <1>6, <1>7, <1>8 DEF DeliveryInv

\* The process dies: what was sent and not yet recorded is excused.
LEMMA CrashStep ==
  ASSUME TypeOK, DeliveryInv, Crash PROVE TypeOK' /\ DeliveryInv'
  <1> DEFINE lost ==
        UNION {{Key(a, x) : x \in run[a].check} : a \in {b \in Deliverers : run[b].pc = "record"}}
  <1>1. /\ faults > 0 /\ faults' = faults - 1 /\ up' = FALSE /\ ingest' = NotIngesting
        /\ run' = [a \in Deliverers |-> IdleRun] /\ excused' = excused \cup lost
        /\ UNCHANGED <<now, next, delivered, rows, gone, requests, sent, blank>>
    BY DEF Crash
  <1>2. \A a \in Deliverers : run[a] \in Runs
    BY DEF TypeOK, Runs
  <1>3. lost \subseteq Deliveries
    BY <1>2 DEF Runs, Key, Deliveries
  <1>4. \A k \in Deliveries : (\E a \in Deliverers : Records(a, k)) => k \in lost
    BY DEF Records, Key, Deliveries
  <1> HIDE DEF lost
  <1>5. run' \in [Deliverers -> Runs]
    BY <1>1, IdleFacts
  <1>6. TypeOK'
    <2>1. faults' \in 0..MaxFaults
      BY <1>1, DeliveryAssumption DEF TypeOK
    <2>2. excused' \subseteq Deliveries
      BY <1>1, <1>3 DEF TypeOK
    <2> QED  BY <1>1, <1>5, <2>1, <2>2 DEF TypeOK, Runs, NotIngesting
  <1>7. RunInv' /\ ProcessInv' /\ DaysInv'
    <2>1. \A a \in Schedulers : a \in Deliverers
      BY DEF Deliverers
    <2> QED
      BY <1>1, <2>1, IdleFacts
      DEF DeliveryInv, RunInv, ProcessInv, Resting, NotIngesting, DaysInv, DaysOK, TypeOK, Half
  <1>8. \A a \in Deliverers : \A k : ~Records(a, k)' /\ ~Pends(a, k)'
    BY <1>1, IdleFacts DEF Records, Pends
  <1>9. SentInv'
    BY <1>1, <1>8 DEF DeliveryInv, SentInv
  <1>10. OnceInv'
    BY <1>1, <1>4, <1>8 DEF DeliveryInv, OnceInv
  <1> QED  BY <1>6, <1>7, <1>9, <1>10 DEF DeliveryInv

-----------------------------------------------------------------------------
(* The theorems.                                                           *)

\* In the beginning nobody delivers and nothing is sent.
LEMMA DeliveryInit == ASSUME Init PROVE TypeOK /\ DeliveryInv
  <1>1. run \in [Deliverers -> Runs] /\ \A a \in Deliverers : run[a] = IdleRun
    BY IdleFacts DEF Init
  <1>2. next \in [Periods -> Nat]
    BY NextRunType DEF Init
  <1>3. rows \subseteq Days /\ now \in Half
    BY DeliveryAssumption DEF Init, Days, Half
  <1>4. TypeOK
    BY <1>1, <1>2, <1>3, DeliveryAssumption DEF Init, TypeOK, Runs
  <1>5. RunInv /\ ProcessInv
    <2>1. RunInv
      BY <1>1, IdleFacts DEF RunInv
    <2>2. now >= 2 * StartDay
      BY DeliveryAssumption DEF Init
    <2> QED  BY <1>1, <2>1, <2>2 DEF Init, ProcessInv
  <1>6. DaysInv
    BY <1>1, IdleFacts DEF Init, DaysInv, Deliverers
  <1>7. \A a \in Deliverers : \A k : ~Records(a, k) /\ ~Pends(a, k)
    BY <1>1, IdleFacts DEF Records, Pends
  <1>8. SentInv /\ OnceInv
    BY <1>7 DEF Init, SentInv, OnceInv
  <1> QED  BY <1>4, <1>5, <1>6, <1>8 DEF DeliveryInv

\* Every step keeps the types and the invariant.
LEMMA DeliveryStep ==
  ASSUME TypeOK, DeliveryInv, [Next]_vars PROVE TypeOK' /\ DeliveryInv'
  <1>1. ASSUME NEW a \in Deliverers, Deliver(a) PROVE TypeOK' /\ DeliveryInv'
    BY <1>1, CheckCompleteStep, CheckDeliveredStep, BuildReportStep, SendReportStep,
       RecordDeliveryStep DEF Deliver
  <1>2. ASSUME UNCHANGED vars PROVE TypeOK' /\ DeliveryInv'
    <2>1. TypeOK'
      BY <1>2 DEF vars, dataVars, historyVars, TypeOK
    <2>2. ProcessInv'
      BY <1>2 DEF vars, dataVars, DeliveryInv, ProcessInv, Resting
    <2>3. RunInv' /\ SentInv' /\ OnceInv' /\ DaysInv'
      BY <1>2, OthersInv DEF vars, dataVars, historyVars
    <2> QED  BY <2>1, <2>2, <2>3 DEF DeliveryInv
  <1> QED
    BY <1>1, <1>2, TickStep, TimerStep, CrashStep, StartStep, EndIngestionStep, IngestingStep,
       RequestStep DEF Next, IngestStep

\* The types and the invariant hold in every state.
THEOREM DeliveryInvariant == Spec => [](TypeOK /\ DeliveryInv)
  <1>1. Init => TypeOK /\ DeliveryInv
    BY DeliveryInit
  <1>2. TypeOK /\ DeliveryInv /\ [Next]_vars => (TypeOK /\ DeliveryInv)'
    BY DeliveryStep
  <1> QED  BY <1>1, <1>2, PTL DEF Spec

\* The variables of ReportDelivery keep their types: whatever the lag and the week, every
\* report that is delivered is of days of the model.
THEOREM TypeCorrect == Spec => []TypeOK
  BY DeliveryInvariant, PTL

\* Nothing is recorded as delivered that has not been sent (deliverReportToDestinations
\* records after the send), whatever fails, crashes or races.
THEOREM RecordMeansSent == Spec => []RecordedWasSent
  <1>1. TypeOK /\ DeliveryInv => RecordedWasSent
    BY DEF TypeOK, DeliveryInv, SentInv, RecordedWasSent
  <1> QED  BY <1>1, DeliveryInvariant, PTL

\* A destination gets a report twice only by force, after a failed call or a crash, or
\* because two deliveries looked it up before either recorded it; their number and the
\* number of restarts do not matter.
THEOREM RepeatsHaveExcuse == Spec => []RepeatsExplained
  <1>1. TypeOK /\ DeliveryInv => RepeatsExplained
    BY DEF TypeOK, DeliveryInv, OnceInv, RepeatsExplained
  <1> QED  BY <1>1, DeliveryInvariant, PTL

\* A scheduled report that lacks a day is built only while ingestion replaces that day
\* (rangeHasDailyData asks for every day of the range, one after the other).
THEOREM OnlyReplacedDaysAreMissing == Spec => []OnlyReplacedDaysMissing
  <1>1. TypeOK /\ DeliveryInv => OnlyReplacedDaysMissing
    BY DEF DeliveryInv, DaysInv, OnlyReplacedDaysMissing
  <1> QED  BY <1>1, DeliveryInvariant, PTL
=============================================================================
