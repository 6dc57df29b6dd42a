---------------------- MODULE EnrichedIngestionProofs ----------------------
(***************************************************************************)
(* Proofs about EnrichedIngestion, and with it about IngestionJobs and     *)
(* Enrichment, for every limit of the store, the queue and the runs: the   *)
(* types, the job store, the lock between submitting and Close, what the   *)
(* worker asks and when a task ends, and that a text belongs to the anomaly*)
(* it is shown with.                                                       *)
(***************************************************************************)
EXTENDS EnrichedIngestion, NaturalFacts, FiniteSetTheorems, SequenceTheorems

-----------------------------------------------------------------------------
(* The inductive invariant.                                                *)

\* Where a goroutine is that has still to finish its job.
AtWork == {"begin", "run", "returned", "complete"}

\* A job that is not finished is at work and active; the active job is one of them and in
\* the store; a job before its completion is the active one.
JobsInv ==
  /\ \A j \in Jobs : jobs[j] \in Unfinished => active = j /\ run[j].pc \in AtWork
  /\ active # NoJob => jobs[active] \in Unfinished /\ \E k \in 1..Len(order) : order[k] = active
  /\ \A j \in Jobs : run[j].pc \in AtWork \ {"complete"} => active = j
  /\ \A k \in 1..Len(order) : order[k] <= lastJob

\* Row IDs are given once: each is of one anomaly at most, none is ahead of the latest.
AnomalyInv ==
  /\ \A i \in Inputs : anomalies[i] <= lastId
  /\ \A i, k \in Inputs : anomalies[i] = anomalies[k] /\ anomalies[i] # 0 => i = k

\* What is said of a row ID is said of the anomaly that has it, if one still has.
Fits(id, input) == id <= lastId /\ \A i \in Inputs : anomalies[i] = id => i = input

\* The tasks that are on their way, and the texts that are kept.
TaskInv ==
  /\ \A r \in Runners : \A t \in batch[r].todo : Fits(t.id, t.input)
  /\ \A k \in 1..Len(queue) : Fits(queue[k].id, queue[k].input)
  /\ worker.pc \notin {"take", "ended"} => Fits(worker.task.id, worker.task.input)
TextInv ==
  /\ \A id \in Ids : texts[id].status # "none" => Fits(id, texts[id].input)
  /\ worker.pc = "save" => worker.text \in Text /\ worker.text.input = worker.task.input

\* Close has queueMu to itself from Lock on; whoever else is in it is about to send; who
\* has tasks has read them.
LockInv ==
  /\ readers \subseteq Runners
  /\ closing \in {"locked", "marked", "closed"} => readers = {}
  /\ CloseNeverStuck
  /\ \A r \in Runners : batch[r].todo # {} => batch[r].read

EnrichedInv == JobsInv /\ AnomalyInv /\ TaskInv /\ TextInv /\ NeverAsksAgain /\ LockInv

-----------------------------------------------------------------------------
(* The job store.                                                          *)

Locals == [pc : PCs, status : Finished, recovered : BOOLEAN]

\* Trimming leaves no more jobs than the limit, and the new job among them.
LEMMA TrimmedFacts ==
  ASSUME NEW ids \in Seq(Jobs), NEW j, Len(ids) > 0,
         \A k \in 1..Len(ids) : ids[k] = j <=> k = Len(ids)
  PROVE  Trimmed(ids, j) \in 0..(Len(ids) - 1) /\ Len(ids) - Trimmed(ids, j) <= MaxStored
  <1> DEFINE n == Len(ids)
             S == {k \in 0..n : n - k <= MaxStored \/ ids[k + 1] = j}
  <1>1. n \in Nat /\ n >= 1
    BY LenProperties
  <1>2. n - 1 \in S
    BY <1>1, JobsAssumption
  <1>3. S \in SUBSET Nat /\ S # {}
    <2>1. 0..n \subseteq Nat
      BY <1>1
    <2>2. S \subseteq 0..n
      OBVIOUS
    <2> HIDE DEF S
    <2> QED  BY <1>2, <2>1, <2>2
  <1>4. Min(S) \in S /\ Min(S) <= n - 1
    BY <1>2, <1>3, MinOfNaturals
  <1>5. Trimmed(ids, j) = Min(S)
    BY DEF Trimmed
  <1> DEFINE m == Min(S)
  <1>6. m \in 0..(n - 1) /\ (n - m <= MaxStored \/ ids[m + 1] = j)
    BY <1>1, <1>4
  <1> HIDE DEF m
  <1>7. m + 1 \in 1..n
    BY <1>1, <1>6
  <1>8. ids[m + 1] = j => m = n - 1
    BY <1>1, <1>6, <1>7
  <1>9. n - m <= MaxStored
    BY <1>1, <1>6, <1>8, JobsAssumption
  <1> QED  BY <1>5, <1>6, <1>9 DEF m

\* A job is queued: none was active, so none that is dropped is unfinished.
LEMMA EnqueueInv ==
  ASSUME JobsTypeOK, JobsInv, Enqueue PROVE JobsTypeOK' /\ JobsInv'
  <1> DEFINE j    == lastJob + 1
             ids  == Append(order, j)
             drop == Trimmed(ids, j)
  <1>1. /\ active = NoJob /\ lastJob < MaxJobs
        /\ jobs' = [i \in Jobs |-> IF i = j THEN "queued"
                                   ELSE IF \E k \in 1..drop : ids[k] = i THEN "none"
                                   ELSE jobs[i]]
        /\ order' = SubSeq(ids, drop + 1, Len(ids))
        /\ active' = j /\ lastJob' = j
        /\ run' = [run EXCEPT ![j] = [Off EXCEPT !.pc = "begin"]]
        /\ UNCHANGED <<runMu, mishaps>>
    BY DEF Enqueue
  <1>2. j \in Jobs /\ lastJob \in Nat /\ j # NoJob
    BY <1>1, JobsAssumption DEF JobsTypeOK, Jobs, NoJob
  <1>3. /\ ids \in Seq(Jobs) /\ Len(ids) = Len(order) + 1 /\ Len(order) \in Nat
        /\ ids[Len(ids)] = j /\ \A k \in 1..Len(order) : ids[k] = order[k]
    BY <1>2, AppendProperties, LenProperties DEF JobsTypeOK
  <1>4. \A k \in 1..Len(ids) : ids[k] = j <=> k = Len(ids)
    <2>1. \A k \in 1..Len(order) : order[k] <= lastJob /\ order[k] \in Jobs
      BY ElementOfSeq DEF JobsInv, JobsTypeOK
    <2> QED  BY <1>2, <1>3, <2>1 DEF Jobs
  <1> HIDE DEF ids
  <1>5. drop \in 0..(Len(ids) - 1) /\ Len(ids) - drop <= MaxStored
    <2>1. Len(ids) > 0
      BY <1>3
    <2> QED  BY <1>3, <1>4, <2>1, TrimmedFacts
  <1>6. /\ order' \in Seq(Jobs) /\ Len(order') = Len(ids) - drop
        /\ \A k \in 1..Len(order') : order'[k] = ids[drop + k]
    <2>1. \A i \in (drop + 1)..Len(ids) : ids[i] \in Jobs
      BY <1>3, <1>5, ElementOfSeq
    <2> HIDE DEF drop
    <2>2. /\ SubSeq(ids, drop + 1, Len(ids)) \in Seq(Jobs)
          /\ Len(SubSeq(ids, drop + 1, Len(ids))) = IF drop + 1 <= Len(ids)
                                                    THEN Len(ids) - (drop + 1) + 1 ELSE 0
          /\ \A i \in 1..(Len(ids) - (drop + 1) + 1) :
               SubSeq(ids, drop + 1, Len(ids))[i] = ids[drop + 1 + i - 1]
      BY <1>3, <1>5, <2>1, SubSeqProperties
    <2> QED  BY <1>1, <1>3, <1>5, <2>2
  <1> HIDE DEF drop
  <1>7. [Off EXCEPT !.pc = "begin"] \in Locals /\ [Off EXCEPT !.pc = "begin"].pc = "begin"
    BY DEF Off, Locals, PCs, Finished
  <1>8. run' \in [Runners -> Locals]
    BY <1>1, <1>7 DEF JobsTypeOK, Locals
  <1>9. jobs' \in [Jobs -> {"none"} \cup Unfinished \cup Finished]
    BY <1>1 DEF JobsTypeOK, Unfinished
  <1> HIDE DEF j
  <1>10. JobsTypeOK'
    BY <1>1, <1>2, <1>5, <1>6, <1>8, <1>9 DEF JobsTypeOK, Locals, Jobs
  <1>11. \A i \in Jobs : jobs[i] \notin Unfinished /\ run[i].pc \notin AtWork \ {"complete"}
    BY <1>1 DEF JobsInv, Jobs, NoJob
  <1>12. \A i \in Jobs : run'[i].pc = IF i = j THEN "begin" ELSE run[i].pc
    BY <1>1, <1>2, <1>7 DEF JobsTypeOK, Runners
  <1>13. \A i \in Jobs : jobs'[i] = "queued" \/ (i # j /\ jobs'[i] \notin Unfinished)
    BY <1>1, <1>11 DEF Unfinished
  <1>14. \A i \in Jobs : jobs'[i] \in Unfinished => i = j
    BY <1>1, <1>11 DEF Unfinished
  <1>15. Len(order') \in Nat /\ Len(order') >= 1 /\ order'[Len(order')] = j
    BY <1>3, <1>5, <1>6
  <1>16. \A k \in 1..Len(order') : order'[k] <= lastJob'
    <2>1. ASSUME NEW k \in 1..Len(order') PROVE order'[k] <= j
      <3>1. drop + k \in 1..Len(ids) /\ order'[k] = ids[drop + k]
        BY <1>3, <1>5, <1>6, <2>1
      <3>2. j = lastJob + 1
        BY DEF j
      <3>3. ASSUME NEW i \in 1..Len(order) PROVE ids[i] <= j
        <4>1. ids[i] = order[i] /\ order[i] \in Jobs
          BY <1>3, ElementOfSeq DEF JobsTypeOK
        <4>2. order[i] <= lastJob
          BY DEF JobsInv
        <4> QED  BY <1>2, <3>2, <4>1, <4>2 DEF Jobs
      <3>4. \A i \in 1..Len(ids) : i = Len(ids) \/ i \in 1..Len(order)
        BY <1>3
      <3>5. ids[drop + k] <= j
        BY <3>1, <3>3, <3>4, <1>2, <1>3 DEF Jobs
      <3> QED  BY <3>1, <3>5
    <2> QED  BY <1>1, <2>1
  <1>17. active' = j /\ jobs'[j] = "queued" /\ Len(order') \in 1..Len(order')
    <2>1. Len(order') \in 1..Len(order')
      BY <1>15
    <2>2. jobs'[j] = "queued"
      BY <1>1, <1>2
    <2> QED  BY <1>1, <2>1, <2>2
  <1>18. JobsInv'
    BY <1>2, <1>11, <1>12, <1>14, <1>15, <1>16, <1>17 DEF JobsInv, AtWork, Unfinished
  <1> QED  BY <1>10, <1>18

\* A goroutine that is, or is about to be, where no outcome is missing for its job.
LEMMA RunMoves ==
  ASSUME JobsTypeOK, JobsInv, NEW r \in Runners, NEW next \in Locals,
         run' = [run EXCEPT ![r] = next], UNCHANGED storeVars,
         r \in Jobs => /\ next.pc \in AtWork \ {"complete"} => active = r
                       /\ run[r].pc \in AtWork => next.pc \in AtWork,
         runMu' \in Runners \cup {Free}, mishaps' \in 0..MaxMishaps
  PROVE  JobsTypeOK' /\ JobsInv'
  <1>1. \A i \in Runners : run'[i] = IF i = r THEN next ELSE run[i]
    BY DEF JobsTypeOK
  <1>2. JobsTypeOK'
    BY DEF JobsTypeOK, Locals, storeVars
  <1>3. Jobs \subseteq Runners
    BY DEF Runners
  <1>4. JobsInv'
    BY <1>1, <1>3 DEF JobsInv, storeVars
  <1> QED  BY <1>2, <1>4

\* A run begins; a job that finds another one active fails.
LEMMA BeginInv ==
  ASSUME JobsTypeOK, JobsInv, NEW j \in Jobs, Begin(j) PROVE JobsTypeOK' /\ JobsInv'
  <1>1. /\ run[j].pc = "begin" /\ jobs' = [jobs EXCEPT ![j] = "running"] /\ active = j
        /\ UNCHANGED <<order, active, lastJob, mishaps>> /\ j \in Runners
    BY DEF Begin, JobsInv, AtWork, Runners
  <1>2. PICK next \in Locals : /\ run' = [run EXCEPT ![j] = next] /\ next.pc \in {"run", "complete"}
                               /\ runMu' \in Runners \cup {Free}
    <2>1. run[j] \in Locals /\ j # Scheduler
      BY <1>1 DEF JobsTypeOK, Locals, Jobs, Scheduler
    <2>2. [run[j] EXCEPT !.pc = "run"] \in Locals /\ [run[j] EXCEPT !.pc = "run"].pc = "run"
      BY <2>1 DEF Locals, PCs
    <2>3. AfterRun(j, "failed") \in Locals /\ AfterRun(j, "failed").pc = "complete"
      BY <2>1 DEF Locals, PCs, AfterRun, Finished
    <2>4. \/ runMu' = j /\ run' = [run EXCEPT ![j] = [run[j] EXCEPT !.pc = "run"]]
          \/ runMu' = runMu /\ run' = [run EXCEPT ![j] = AfterRun(j, "failed")]
      BY DEF Begin
    <2> QED  BY <1>1, <2>2, <2>3, <2>4 DEF JobsTypeOK
  <1>3. \A i \in Runners : run'[i] = IF i = j THEN next ELSE run[i]
    BY <1>2 DEF JobsTypeOK
  <1>4. JobsTypeOK'
    BY <1>1, <1>2 DEF JobsTypeOK, Locals, Unfinished
  <1>5. Jobs \subseteq Runners
    BY DEF Runners
  <1>6. JobsInv'
    BY <1>1, <1>2, <1>3, <1>5 DEF JobsInv, AtWork, Unfinished, JobsTypeOK
  <1> QED  BY <1>4, <1>6

\* A job is completed, for the first time or after a panic: it is active no longer.
LEMMA CompleteInv ==
  ASSUME JobsTypeOK, JobsInv, NEW j \in Jobs, Complete(j) PROVE JobsTypeOK' /\ JobsInv'
  <1>1. /\ run[j].pc = "complete" /\ jobs' = [jobs EXCEPT ![j] = run[j].status]
        /\ active' = (IF active = j THEN NoJob ELSE active)
        /\ run' = [run EXCEPT ![j].pc = "notify"]
        /\ UNCHANGED <<order, lastJob, runMu, mishaps>> /\ j \in Runners
    BY DEF Complete, Written, NowActive, Runners
  <1>2. run[j].status \in Finished /\ \A s \in Finished : s \notin Unfinished
    BY <1>1 DEF JobsTypeOK, Finished, Unfinished
  <1>3. \A i \in Runners : run'[i] \in Locals /\ run'[i].pc = IF i = j THEN "notify" ELSE run[i].pc
    BY <1>1 DEF JobsTypeOK, Locals, PCs
  <1>4. JobsTypeOK'
    BY <1>1, <1>2, <1>3 DEF JobsTypeOK, Locals
  <1>5. \A i \in Jobs : jobs'[i] = IF i = j THEN run[j].status ELSE jobs[i]
    BY <1>1 DEF JobsTypeOK
  <1>6. Jobs \subseteq Runners /\ active \in Jobs \cup {NoJob}
    BY DEF Runners, JobsTypeOK
  <1>7. JobsInv'
    BY <1>1, <1>2, <1>3, <1>5, <1>6 DEF JobsInv, AtWork
  <1> QED  BY <1>4, <1>7

\* The process starts over with an empty store.
LEMMA StartOverInv ==
  ASSUME JobsTypeOK, StartOver, mishaps' \in 0..MaxMishaps PROVE JobsTypeOK' /\ JobsInv'
  <1>1. Off \in Locals /\ Off.pc = "off"
    BY DEF Off, Locals, PCs, Finished
  <1>2. /\ jobs' = [j \in Jobs |-> "none"] /\ order' = <<>> /\ active' = NoJob
        /\ runMu' = Free /\ run' = [r \in Runners |-> Off] /\ lastJob' = lastJob
    BY DEF StartOver
  <1>3. order' \in Seq(Jobs) /\ Len(order') = 0
    BY <1>2, EmptySeq
  <1>4. JobsTypeOK'
    BY <1>1, <1>2, <1>3, JobsAssumption DEF JobsTypeOK, Locals
  <1>5. Jobs \subseteq Runners
    BY DEF Runners
  <1>6. JobsInv'
    BY <1>1, <1>2, <1>3, <1>5 DEF JobsInv, AtWork, Unfinished
  <1> QED  BY <1>4, <1>6

\* The status that a run's end leaves for the job.
LEMMA AfterRunFacts ==
  ASSUME JobsTypeOK, NEW r \in Runners, NEW status \in Finished
  PROVE  AfterRun(r, status) \in Locals /\ (r \in Jobs => AfterRun(r, status).pc = "complete")
  <1>1. Off \in Locals /\ run[r] \in Locals
    BY DEF Off, Locals, PCs, Finished, JobsTypeOK
  <1>2. r \in Jobs => r # Scheduler
    BY DEF Jobs, Scheduler
  <1>3. /\ [run[r] EXCEPT !.pc = "complete", !.status = status] \in Locals
        /\ [run[r] EXCEPT !.pc = "complete", !.status = status].pc = "complete"
    BY <1>1 DEF Locals, PCs
  <1> QED  BY <1>1, <1>2, <1>3 DEF AfterRun

\* The scheduler and the job goroutines between a run's start and its last notification.
LEMMA RunStepsInv ==
  ASSUME JobsTypeOK, JobsInv, NEW r \in Runners,
         \/ r = Scheduler /\ StartScheduled
         \/ \E err \in BOOLEAN : EndRun(r, err)
         \/ FinishRun(r)
         \/ r \in Jobs /\ (Notify(r) \/ Panic(r))
  PROVE  JobsTypeOK' /\ JobsInv'
  <1>1. run[r] \in Locals /\ Off \in Locals /\ Off.pc = "off"
    BY DEF JobsTypeOK, Locals, Off, PCs, Finished
  <1>2. r \in Jobs => r # Scheduler
    BY DEF Jobs, Scheduler
  <1>3. runMu \in Runners \cup {Free} /\ Free \in Runners \cup {Free} /\ mishaps \in 0..MaxMishaps
    BY DEF JobsTypeOK
  <1>4. CASE r = Scheduler /\ StartScheduled
    <2> DEFINE next == [run[r] EXCEPT !.pc = "run"]
    <2>1. next \in Locals
      BY <1>1 DEF Locals, PCs
    <2>2. /\ run' = [run EXCEPT ![r] = next] /\ UNCHANGED <<storeVars, mishaps>> /\ runMu' = r
      BY <1>4 DEF StartScheduled
    <2> HIDE DEF next
    <2> QED  BY <1>2, <1>3, <1>4, <2>1, <2>2, RunMoves
  <1>5. ASSUME NEW err \in BOOLEAN, EndRun(r, err) PROVE JobsTypeOK' /\ JobsInv'
    <2> DEFINE next == IF err THEN AfterRun(r, "partial_failure") ELSE [run[r] EXCEPT !.pc = "returned"]
    <2>1. next \in Locals /\ (r \in Jobs => next.pc \in {"returned", "complete"})
      <3>1. [run[r] EXCEPT !.pc = "returned"] \in Locals /\ [run[r] EXCEPT !.pc = "returned"].pc = "returned"
        BY <1>1 DEF Locals, PCs
      <3>2. "partial_failure" \in Finished
        BY DEF Finished
      <3> QED  BY <3>1, <3>2, AfterRunFacts
    <2>2. run[r].pc = "run" /\ run' = [run EXCEPT ![r] = next] /\ UNCHANGED <<storeVars, mishaps>> /\ runMu' = Free
      BY <1>5 DEF EndRun
    <2>3. r \in Jobs => active = r
      BY <2>2 DEF JobsInv, AtWork
    <2>4. r \in Jobs => next.pc \in AtWork
      BY <2>1 DEF AtWork
    <2> HIDE DEF next
    <2> QED  BY <1>3, <2>1, <2>2, <2>3, <2>4, RunMoves
  <1>6. CASE FinishRun(r)
    <2> DEFINE next == AfterRun(r, "success")
    <2>1. next \in Locals /\ (r \in Jobs => next.pc = "complete")
      BY AfterRunFacts DEF Finished
    <2>2. run' = [run EXCEPT ![r] = next] /\ UNCHANGED <<storeVars, runMu, mishaps>>
      BY <1>6 DEF FinishRun
    <2>3. r \in Jobs => next.pc \in AtWork /\ next.pc \notin AtWork \ {"complete"}
      BY <2>1 DEF AtWork
    <2> HIDE DEF next
    <2> QED  BY <1>3, <2>1, <2>2, <2>3, RunMoves
  <1>7. CASE Notify(r)
    <2>1. run[r].pc = "notify" /\ run' = [run EXCEPT ![r] = Off] /\ UNCHANGED <<storeVars, runMu, mishaps>>
      BY <1>7 DEF Notify
    <2>2. run[r].pc \notin AtWork /\ Off.pc \notin AtWork
      BY <1>1, <2>1 DEF AtWork
    <2> QED  BY <1>1, <1>3, <2>1, <2>2, RunMoves
  <1>8. CASE Panic(r)
    <2> DEFINE next == [pc |-> "complete", status |-> "failed", recovered |-> TRUE]
    <2>1. next \in Locals /\ next.pc = "complete"
      BY DEF Locals, PCs, Finished
    <2>2. /\ mishaps > 0 /\ mishaps' = mishaps - 1 /\ UNCHANGED storeVars
          /\ run' = [run EXCEPT ![r] = next]
          /\ runMu' = IF runMu = r THEN Free ELSE runMu
      BY <1>8 DEF Panic
    <2>3. mishaps' \in 0..MaxMishaps /\ runMu' \in Runners \cup {Free}
      BY <1>3, <2>2, JobsAssumption
    <2>4. next.pc \in AtWork /\ next.pc \notin AtWork \ {"complete"}
      BY <2>1 DEF AtWork
    <2> HIDE DEF next
    <2> QED  BY <2>1, <2>2, <2>3, <2>4, RunMoves
  <1> QED  BY <1>4, <1>5, <1>6, <1>7, <1>8

\* Every step of the whole leaves the job store and its goroutines in order.
LEMMA JobsStepInv ==
  ASSUME TypeOK, JobsInv, [Next]_vars PROVE JobsTypeOK' /\ JobsInv'
  <1>1. JobsTypeOK /\ Jobs \subseteq Runners
    BY DEF TypeOK, Runners
  <1>2. ASSUME UNCHANGED jobVars PROVE JobsTypeOK' /\ JobsInv'
    BY <1>1, <1>2 DEF JobsTypeOK, JobsInv, jobVars, storeVars
  <1>3. ASSUME mishaps > 0, mishaps' = mishaps - 1 PROVE mishaps' \in 0..MaxMishaps
    BY <1>1, <1>3, JobsAssumption DEF JobsTypeOK
  <1>4. CASE TickerFires
    BY <1>1, <1>4, RunStepsInv DEF TickerFires, Runners
  <1>5. CASE RequestIngest
    BY <1>1, <1>5, EnqueueInv DEF RequestIngest
  <1>6. CASE WorkerStep \/ StopQueue
    BY <1>2, <1>6 DEF WorkerStep, StopQueue
  <1>7. CASE Stop
    <2>1. UNCHANGED <<storeVars, runMu, run>> /\ mishaps' \in 0..MaxMishaps
      BY <1>3, <1>7 DEF Stop
    <2> QED  BY <1>1, <2>1 DEF JobsTypeOK, JobsInv, storeVars
  <1>8. CASE NextProcess
    <2>1. StartOver /\ mishaps' \in 0..MaxMishaps
      BY <1>1, <1>3, <1>8 DEF NextProcess, Restart, JobsTypeOK
    <2> QED  BY <1>1, <2>1, StartOverInv
  <1>9. ASSUME NEW r \in Runners, RunnerStep(r) PROVE JobsTypeOK' /\ JobsInv'
    <2>1. CASE r \in Jobs /\ JobStep(r)
      BY <1>1, <2>1, BeginInv, CompleteInv, RunStepsInv DEF JobStep
    <2>2. CASE Ingest(r) \/ Return(r)
      BY <1>1, <2>2, RunStepsInv DEF Ingest, Return
    <2>3. CASE ReadAnomalies(r) \/ SubmitNext(r)
      BY <1>2, <2>3 DEF ReadAnomalies, SubmitNext
    <2> QED  BY <1>9, <2>1, <2>2, <2>3 DEF RunnerStep
  <1>10. ASSUME NEW j \in Jobs, Recover(j) PROVE JobsTypeOK' /\ JobsInv'
    BY <1>1, <1>10, RunStepsInv DEF Recover
  <1>11. CASE UNCHANGED vars
    BY <1>2, <1>11 DEF vars
  <1> QED  BY <1>4, <1>5, <1>6, <1>7, <1>8, <1>9, <1>10, <1>11 DEF Next

-----------------------------------------------------------------------------
(* The anomalies.                                                          *)

\* The serial IDs of the rows that one refresh inserts are new and distinct.
LEMMA NewIds ==
  ASSUME NEW found \in SUBSET Inputs, lastId \in Nat
  PROVE  /\ Cardinality(found) \in Nat
         /\ \A i \in found : NewId(found, i) \in (lastId + 1)..(lastId + Cardinality(found))
         /\ \A i, k \in found : NewId(found, i) = NewId(found, k) => i = k
  <1> DEFINE upTo(i) == {k \in found : k <= i}
  <1>1. IsFiniteSet(found) /\ Cardinality(found) \in Nat
    <2>1. IsFiniteSet(Inputs)
      BY FS_Interval, EnrichmentAssumption DEF Inputs
    <2> QED  BY <2>1, FS_Subset, FS_CardinalityType
  <1>2. ASSUME NEW i \in found
        PROVE  /\ IsFiniteSet(upTo(i)) /\ Cardinality(upTo(i)) \in 1..Cardinality(found)
    <2>1. upTo(i) \in SUBSET found /\ i \in upTo(i)
      BY DEF Inputs
    <2> HIDE DEF upTo
    <2>2. IsFiniteSet(upTo(i)) /\ Cardinality(upTo(i)) <= Cardinality(found)
      BY <1>1, <2>1, FS_Subset
    <2>3. Cardinality(upTo(i)) \in Nat /\ Cardinality(upTo(i)) # 0
      BY <2>1, <2>2, FS_CardinalityType, FS_EmptySet
    <2> QED  BY <1>1, <2>2, <2>3
  <1>3. ASSUME NEW i \in found, NEW k \in found, i < k
        PROVE  Cardinality(upTo(i)) # Cardinality(upTo(k))
    <2>1. upTo(i) \in SUBSET upTo(k) /\ k \in upTo(k) /\ k \notin upTo(i)
      <3>1. \A x \in found : x \in Int
        BY DEF Inputs
      <3>2. \A x \in found : x <= i => x <= k
        BY <1>3, <3>1
      <3>3. k <= k /\ ~(k <= i)
        BY <1>3, <3>1
      <3> QED  BY <3>2, <3>3
    <2>2. IsFiniteSet(upTo(k))
      BY <1>2
    <2> HIDE DEF upTo
    <2> QED  BY <2>1, <2>2, FS_Subset
  <1>4. \A i \in found : NewId(found, i) = lastId + Cardinality(upTo(i))
    BY DEF NewId
  <1> HIDE DEF upTo
  <1>5. ASSUME NEW i \in found, NEW k \in found, NewId(found, i) = NewId(found, k) PROVE i = k
    <2>1. Cardinality(upTo(i)) = Cardinality(upTo(k))
      BY <1>2, <1>4, <1>5
    <2>2. i \in Int /\ k \in Int
      BY DEF Inputs
    <2> QED  BY <1>3, <2>1, <2>2
  <1>6. ASSUME NEW i \in found
        PROVE  NewId(found, i) \in (lastId + 1)..(lastId + Cardinality(found))
    BY <1>1, <1>2, <1>4
  <1> QED  BY <1>1, <1>5, <1>6

\* A refresh takes no ID from a task or a text to give it to another anomaly.
LEMMA RefreshKeepsIds ==
  ASSUME TypeOK, AnomalyInv, NEW window \in SUBSET Inputs, NEW found \in SUBSET window,
         RefreshAnomalies(window, found)
  PROVE  /\ anomalies' \in [Inputs -> 0..MaxId] /\ lastId' \in 0..MaxId /\ AnomalyInv'
         /\ lastId <= lastId'
         /\ \A i \in Inputs, id \in Ids :
              anomalies'[i] = id /\ id <= lastId => anomalies[i] = id
  <1> DEFINE n == Cardinality(found)
  <1>1. /\ lastId \in Nat /\ lastId \in 0..MaxId /\ MaxId \in Nat
        /\ anomalies \in [Inputs -> 0..MaxId] /\ found \in SUBSET Inputs
    BY EnrichmentAssumption DEF TypeOK
  <1>2. /\ n \in Nat /\ \A i \in found : NewId(found, i) \in (lastId + 1)..(lastId + n)
        /\ \A i, k \in found : NewId(found, i) = NewId(found, k) => i = k
    BY <1>1, NewIds
  <1>3. /\ lastId' = lastId + n /\ lastId + n <= MaxId
        /\ \A i \in Inputs : anomalies'[i] = IF i \in found THEN NewId(found, i)
                               ELSE IF i \in window THEN 0 ELSE anomalies[i]
    BY DEF RefreshAnomalies
  <1>4. \E f : anomalies' = [i \in Inputs |-> f[i]]
    <2> DEFINE f == [i \in Inputs |-> IF i \in found THEN NewId(found, i)
                                      ELSE IF i \in window THEN 0 ELSE anomalies[i]]
    <2>1. anomalies' = f
      BY DEF RefreshAnomalies
    <2>2. anomalies' = [i \in Inputs |-> f[i]]
      BY <2>1
    <2> HIDE DEF f
    <2> QED  BY <2>2
  <1> HIDE DEF n
  <1>5. lastId' \in 0..MaxId /\ lastId <= lastId' /\ lastId' \in Nat
    BY <1>1, <1>2, <1>3
  <1>6. \A i \in Inputs : anomalies[i] <= lastId /\ anomalies[i] \in Nat
    BY <1>1 DEF AnomalyInv
  <1>7. \A i \in Inputs :
          \/ i \in found /\ anomalies'[i] = NewId(found, i) /\ anomalies'[i] \in (lastId + 1)..lastId'
          \/ anomalies'[i] = 0
          \/ anomalies'[i] = anomalies[i]
    BY <1>2, <1>3
  <1>8. anomalies' \in [Inputs -> 0..MaxId]
    <2>1. \A i \in Inputs : anomalies'[i] \in 0..MaxId
      BY <1>1, <1>5, <1>7
    <2> QED  BY <1>4, <2>1
  <1>9. \A i \in Inputs : anomalies'[i] <= lastId'
    BY <1>1, <1>5, <1>6, <1>7
  <1>10. ASSUME NEW i \in Inputs, NEW k \in Inputs, anomalies'[i] = anomalies'[k], anomalies'[i] # 0
         PROVE  i = k
    <2>1. i \in found <=> anomalies'[i] > lastId
      BY <1>1, <1>2, <1>3, <1>6, <1>7, <1>10
    <2>2. k \in found <=> anomalies'[k] > lastId
      BY <1>1, <1>2, <1>3, <1>6, <1>7, <1>10
    <2>3. CASE i \in found
      BY <1>2, <1>3, <1>10, <2>1, <2>2, <2>3
    <2>4. CASE i \notin found
      BY <1>3, <1>10, <2>1, <2>2, <2>4 DEF AnomalyInv
    <2> QED  BY <2>3, <2>4
  <1>11. \A i \in Inputs, id \in Ids : anomalies'[i] = id /\ id <= lastId => anomalies[i] = id
    BY <1>1, <1>7 DEF Ids
  <1> QED  BY <1>5, <1>8, <1>9, <1>10, <1>11 DEF AnomalyInv

-----------------------------------------------------------------------------
(* The tasks, the worker and the texts.                                    *)

RestTypeOK ==
  /\ EnrichmentTypeOK
  /\ anomalies \in [Inputs -> 0..MaxId] /\ lastId \in 0..MaxId
  /\ batch \in [Runners -> [read : BOOLEAN, todo : SUBSET Task]]
RestInv == AnomalyInv /\ TaskInv /\ TextInv /\ NeverAsksAgain

WorkerLocals ==
  [pc : {"take", "load", "reuse", "generate", "save", "ended"},
   task : Task, text : Text \cup {NoText}]
BatchLocals == [read : BOOLEAN, todo : SUBSET Task]

\* Between two tasks the worker has none.
LEMMA RestingFacts ==
  Resting \in WorkerLocals /\ Resting.pc = "take" /\ Unread \in BatchLocals /\ Unread.todo = {}
  <1>1. [id |-> 1, input |-> 1] \in Task
    BY EnrichmentAssumption DEF Task, Ids, Inputs
  <1> QED  BY <1>1 DEF Resting, WorkerLocals, Unread, BatchLocals

\* A run recomputes the anomalies; no task and no text loses its anomaly to another.
LEMMA IngestInv ==
  ASSUME TypeOK, RestInv, NEW r \in Runners, Ingest(r) PROVE RestTypeOK' /\ RestInv'
  <1>1. UNCHANGED <<aiVars, batch>>
    BY DEF Ingest
  <1>2. CASE UNCHANGED anomalyVars
    BY <1>1, <1>2 DEF TypeOK, RestTypeOK, EnrichmentTypeOK, aiVars, serviceVars, anomalyVars, RestInv,
       AnomalyInv, TaskInv, Fits, TextInv, NeverAsksAgain
  <1>3. CASE \E window \in SUBSET Inputs : \E found \in SUBSET window : RefreshAnomalies(window, found)
    <2>1. /\ anomalies' \in [Inputs -> 0..MaxId] /\ lastId' \in 0..MaxId /\ AnomalyInv'
          /\ lastId <= lastId'
          /\ \A i \in Inputs, id \in Ids :
               anomalies'[i] = id /\ id <= lastId => anomalies[i] = id
      BY <1>3, RefreshKeepsIds DEF RestInv
    <2>2. RestTypeOK'
      BY <1>1, <2>1 DEF TypeOK, RestTypeOK, EnrichmentTypeOK, aiVars, serviceVars
    <2>3. lastId \in Int /\ lastId' \in Int /\ \A id \in Ids : id \in Int
      BY <2>1 DEF TypeOK, Ids
    <2>4. ASSUME NEW id \in Ids, NEW input, Fits(id, input)
          PROVE  id <= lastId' /\ \A i \in Inputs : anomalies'[i] = id => i = input
      BY <2>1, <2>3, <2>4 DEF Fits
    <2>5. \A t \in Task : t.id \in Ids
      BY DEF Task
    <2>6. ASSUME NEW q \in Runners, NEW t \in batch[q].todo
          PROVE  t.id <= lastId' /\ \A i \in Inputs : anomalies'[i] = t.id => i = t.input
      <3>1. t \in Task
        BY DEF TypeOK
      <3> QED  BY <2>4, <2>5, <3>1 DEF RestInv, TaskInv
    <2>7. ASSUME NEW k \in 1..Len(queue)
          PROVE  queue[k].id <= lastId' /\ \A i \in Inputs : anomalies'[i] = queue[k].id => i = queue[k].input
      <3>1. queue[k] \in Task
        BY ElementOfSeq DEF TypeOK, EnrichmentTypeOK
      <3> QED  BY <2>4, <2>5, <3>1 DEF RestInv, TaskInv
    <2>8. ASSUME worker.pc \notin {"take", "ended"}
          PROVE  worker.task.id <= lastId' /\ \A i \in Inputs : anomalies'[i] = worker.task.id => i = worker.task.input
      <3>1. worker.task \in Task
        BY DEF TypeOK, EnrichmentTypeOK
      <3> QED  BY <2>4, <2>5, <2>8, <3>1 DEF RestInv, TaskInv
    <2>9. TaskInv'
      BY <1>1, <2>6, <2>7, <2>8 DEF TaskInv, Fits, aiVars
    <2>10. TextInv'
      BY <1>1, <2>4 DEF RestInv, TextInv, Fits, aiVars
    <2> QED  BY <1>1, <2>1, <2>2, <2>9, <2>10 DEF RestInv, NeverAsksAgain, aiVars
  <1> QED  BY <1>2, <1>3 DEF Ingest

\* What a runner is about to submit is what it read of the anomalies there are.
LEMMA BatchInv ==
  ASSUME TypeOK, RestInv, NEW r \in Runners,
         ReadAnomalies(r) \/ Return(r) \/ (r \in Jobs /\ Recover(r))
  PROVE  RestTypeOK' /\ RestInv'
  <1>1. UNCHANGED <<queue, worker, texts, closing, anomalyVars>>
    BY DEF ReadAnomalies, Return, Recover, Unlock, aiVars, serviceVars
  <1>2. errors' \in 0..MaxErrors
    <2>1. errors \in 0..MaxErrors
      BY DEF TypeOK, EnrichmentTypeOK
    <2>2. errors' = errors \/ (errors > 0 /\ errors' = errors - 1)
      BY DEF ReadAnomalies, Return, Recover, Unlock, aiVars, Error
    <2> QED  BY <2>1, <2>2, EnrichmentAssumption
  <1>3. PICK next \in BatchLocals :
          batch' = [batch EXCEPT ![r] = next] /\ \A t \in next.todo : Fits(t.id, t.input)
    <2> DEFINE tasks == {[id |-> anomalies[i], input |-> i] : i \in FirstAnomalies}
    <2>1. \A i \in FirstAnomalies : i \in Inputs /\ anomalies[i] \in Ids
      BY EnrichmentAssumption DEF FirstAnomalies, TypeOK, Ids
    <2>2. \A t \in tasks : t \in Task /\ t.input \in Inputs /\ t.id = anomalies[t.input] /\ t.id # 0
      BY <2>1 DEF Task, Ids
    <2>3. \A t \in tasks : Fits(t.id, t.input)
      BY <2>2 DEF Fits, RestInv, AnomalyInv
    <2>4. [read |-> TRUE, todo |-> tasks] \in BatchLocals
      BY <2>2 DEF BatchLocals
    <2>5. [Unread EXCEPT !.read = TRUE] \in BatchLocals /\ [Unread EXCEPT !.read = TRUE].todo = {}
      BY DEF Unread, BatchLocals
    <2>6. \/ batch' = [batch EXCEPT ![r] = [read |-> TRUE, todo |-> tasks]]
          \/ batch' = [batch EXCEPT ![r] = [Unread EXCEPT !.read = TRUE]]
          \/ batch' = [batch EXCEPT ![r] = Unread]
      BY DEF ReadAnomalies, Return, Recover
    <2> HIDE DEF tasks
    <2>7. [read |-> TRUE, todo |-> tasks].todo = tasks
      OBVIOUS
    <2> QED  BY <2>3, <2>4, <2>5, <2>6, <2>7, RestingFacts
  <1>4. \A q \in Runners : batch'[q] = IF q = r THEN next ELSE batch[q]
    BY <1>3 DEF TypeOK
  <1>5. RestTypeOK'
    BY <1>1, <1>2, <1>3 DEF TypeOK, RestTypeOK, EnrichmentTypeOK, serviceVars, anomalyVars, BatchLocals
  <1>6. TaskInv'
    <2>1. \A q \in Runners : \A t \in batch'[q].todo : Fits(t.id, t.input)
      BY <1>3, <1>4 DEF RestInv, TaskInv
    <2> QED  BY <1>1, <2>1 DEF RestInv, TaskInv, Fits, anomalyVars
  <1> QED  BY <1>1, <1>5, <1>6 DEF RestInv, AnomalyInv, TextInv, Fits, NeverAsksAgain,
              anomalyVars, serviceVars

\* A task waits for its send, goes to the queue, is dropped or is refused.
LEMMA SubmitInv ==
  ASSUME TypeOK, RestInv, NEW r \in Runners, SubmitNext(r) PROVE RestTypeOK' /\ RestInv'
  <1> DEFINE todo == batch[r].todo
             task == NextTask(r)
  <1>1. /\ todo # {} /\ UNCHANGED anomalyVars
        /\ batch' = batch \/ batch' = [batch EXCEPT ![r].todo = @ \ {task}]
    BY DEF SubmitNext, Submitted
  <1>2. todo \in SUBSET Task /\ batch[r] \in BatchLocals
    BY DEF TypeOK, BatchLocals
  <1>3. task \in todo
    <2> DEFINE inputs == {t.input : t \in todo}
    <2>1. inputs \in SUBSET Nat /\ inputs # {}
      BY <1>1, <1>2 DEF Task, Inputs
    <2>2. Min(inputs) \in inputs /\ \A y \in inputs : Min(inputs) <= y
      BY <2>1, MinOfNaturals
    <2>3. \E t \in todo : \A u \in todo : t.input <= u.input
      BY <2>2
    <2> QED  BY <2>3 DEF NextTask
  <1>5. /\ queue' = queue \/ (queue' = Append(queue, task) /\ Len(queue) < QueueSize)
        /\ UNCHANGED <<worker, texts, closing, errors>>
    BY DEF SubmitNext, FindsOpen, FindsClosed, Send, aiVars, serviceVars
  <1> HIDE DEF todo, task
  <1>4. task \in Task /\ Fits(task.id, task.input)
    BY <1>2, <1>3 DEF todo, RestInv, TaskInv
  <1>6. queue \in Seq(Task) /\ Len(queue) \in Nat /\ Len(queue) <= QueueSize /\ QueueSize \in Nat
    BY LenProperties, EnrichmentAssumption DEF TypeOK, EnrichmentTypeOK
  <1>7. /\ queue' \in Seq(Task) /\ Len(queue') <= QueueSize
        /\ \A k \in 1..Len(queue') : queue'[k] = task \/ (k \in 1..Len(queue) /\ queue'[k] = queue[k])
    BY <1>4, <1>5, <1>6, AppendProperties
  <1>8. batch' \in [Runners -> BatchLocals] /\ \A q \in Runners : batch'[q].todo \subseteq batch[q].todo
    BY <1>1, <1>2 DEF TypeOK, BatchLocals
  <1>9. RestTypeOK'
    BY <1>1, <1>5, <1>7, <1>8 DEF TypeOK, RestTypeOK, EnrichmentTypeOK, anomalyVars, BatchLocals
  <1>10. TaskInv'
    <2>1. \A q \in Runners : \A t \in batch'[q].todo : Fits(t.id, t.input)
      BY <1>8 DEF RestInv, TaskInv
    <2>2. \A k \in 1..Len(queue') : Fits(queue'[k].id, queue'[k].input)
      BY <1>4, <1>7 DEF RestInv, TaskInv
    <2> QED  BY <1>1, <1>5, <2>1, <2>2 DEF RestInv, TaskInv, Fits, anomalyVars
  <1> QED  BY <1>1, <1>5, <1>9, <1>10 DEF RestInv, AnomalyInv, TextInv, Fits, NeverAsksAgain,
              anomalyVars

\* The worker takes a task, or finds the queue closed and empty.
LEMMA TakeInv ==
  ASSUME TypeOK, RestInv, Take, UNCHANGED <<anomalyVars, batch>> PROVE RestTypeOK' /\ RestInv'
  <1>1. UNCHANGED <<texts, errors, serviceVars>> /\ worker.pc = "take"
    BY DEF Take
  <1>2. CASE queue # <<>> /\ queue' = Tail(queue)
             /\ worker' = [Resting EXCEPT !.pc = "load", !.task = Head(queue)]
    <2>1. queue \in Seq(Task) /\ Len(queue) \in Nat /\ Len(queue) # 0 /\ Head(queue) = queue[1]
      BY <1>2, LenProperties, EmptySeq DEF TypeOK, EnrichmentTypeOK
    <2>2. /\ Head(queue) \in Task /\ queue' \in Seq(Task) /\ Len(queue') = Len(queue) - 1
          /\ \A k \in 1..Len(queue') : queue'[k] = queue[k + 1]
      BY <1>2, <2>1, HeadTailProperties
    <2>3. worker' \in WorkerLocals /\ worker'.pc = "load" /\ worker'.task = Head(queue)
      BY <1>2, <2>2, RestingFacts DEF WorkerLocals
    <2>4. Len(queue') <= QueueSize
      BY <2>1, <2>2, EnrichmentAssumption DEF TypeOK, EnrichmentTypeOK
    <2>5. RestTypeOK'
      BY <1>1, <2>2, <2>3, <2>4 DEF TypeOK, RestTypeOK, EnrichmentTypeOK, WorkerLocals,
         serviceVars, anomalyVars
    <2>6. Fits(worker'.task.id, worker'.task.input)
      BY <2>1, <2>3 DEF RestInv, TaskInv
    <2>7. \A k \in 1..Len(queue') : Fits(queue'[k].id, queue'[k].input)
      BY <2>1, <2>2 DEF RestInv, TaskInv
    <2> QED  BY <1>1, <2>3, <2>5, <2>6, <2>7 DEF RestInv, AnomalyInv, TaskInv, TextInv, Fits,
                NeverAsksAgain, serviceVars, anomalyVars
  <1>3. CASE worker' = [Resting EXCEPT !.pc = "ended"] /\ UNCHANGED queue
    <2>1. worker' \in WorkerLocals /\ worker'.pc = "ended"
      BY <1>3, RestingFacts DEF WorkerLocals
    <2> QED  BY <1>1, <1>3, <2>1 DEF TypeOK, RestTypeOK, EnrichmentTypeOK, WorkerLocals, RestInv,
                AnomalyInv, TaskInv, TextInv, Fits, NeverAsksAgain, serviceVars, anomalyVars
  <1> QED  BY <1>2, <1>3 DEF Take

\* What the worker does with its task until it rests again.  A text it saves is one it
\* reused for the task's input or was given for it.
LEMMA WorkInv ==
  ASSUME TypeOK, RestInv, Load \/ Reuse \/ Generate \/ Save, UNCHANGED <<anomalyVars, batch>>
  PROVE  RestTypeOK' /\ RestInv'
  <1>1. UNCHANGED <<queue, serviceVars>> /\ worker.pc \notin {"take", "ended"}
    BY DEF Load, Reuse, Generate, Save
  <1>2. errors' \in 0..MaxErrors
    <2>1. errors \in 0..MaxErrors
      BY DEF TypeOK, EnrichmentTypeOK
    <2>2. errors' = errors \/ (errors > 0 /\ errors' = errors - 1)
      BY DEF Load, Reuse, Generate, Save, AskModel, CallWorks, CallFails, Error
    <2> QED  BY <2>1, <2>2, EnrichmentAssumption
  <1>3. worker \in WorkerLocals /\ worker.task \in Task /\ Fits(worker.task.id, worker.task.input)
    BY <1>1 DEF TypeOK, EnrichmentTypeOK, WorkerLocals, RestInv, TaskInv
  <1>4. ASSUME worker' \in WorkerLocals, UNCHANGED texts,
               \/ worker'.pc = "take"
               \/ /\ worker'.task = worker.task /\ worker'.pc \in {"reuse", "generate", "save"}
                  /\ worker'.pc = "save" => worker'.text \in Text /\ worker'.text.input = worker.task.input
                  /\ worker'.pc = "generate" => Reusable(worker.task) = {}
        PROVE  RestTypeOK' /\ RestInv'
    <2>1. RestTypeOK'
      BY <1>1, <1>2, <1>4 DEF TypeOK, RestTypeOK, EnrichmentTypeOK, WorkerLocals, serviceVars, anomalyVars
    <2>2. TaskInv' /\ TextInv'
      BY <1>1, <1>3, <1>4 DEF RestInv, TaskInv, TextInv, Fits, anomalyVars
    <2>3. NeverAsksAgain'
      <3>1. SUFFICES ASSUME worker'.pc = "generate", NEW id \in Ids,
                            texts[id] = [input |-> worker.task.input, status |-> "completed"]
                     PROVE  FALSE
        BY <1>4 DEF NeverAsksAgain
      <3>2. texts[id] \in Reusable(worker.task)
        BY <3>1 DEF Reusable
      <3> QED  BY <1>4, <3>1, <3>2
    <2> QED  BY <1>1, <2>1, <2>2, <2>3 DEF RestInv, AnomalyInv, serviceVars, anomalyVars
  <1>5. CASE Load
    <2>1. [worker EXCEPT !.pc = "reuse"] \in WorkerLocals /\ [worker EXCEPT !.pc = "reuse"].pc = "reuse"
          /\ [worker EXCEPT !.pc = "reuse"].task = worker.task
      BY <1>3 DEF WorkerLocals
    <2>2. worker' \in {Resting, [worker EXCEPT !.pc = "reuse"]} /\ UNCHANGED texts
      BY <1>5 DEF Load
    <2> QED  BY <1>4, <2>1, <2>2, RestingFacts
  <1>6. CASE Reuse
    <2>1. CASE worker' = Resting
      BY <1>4, <1>6, <2>1, RestingFacts DEF Reuse
    <2>2. CASE worker' = [worker EXCEPT !.pc = "generate"] /\ Reusable(worker.task) = {}
      <3>1. worker' \in WorkerLocals /\ worker'.pc = "generate" /\ worker'.task = worker.task
        BY <1>3, <2>2 DEF WorkerLocals
      <3> QED  BY <1>4, <1>6, <2>2, <3>1 DEF Reuse
    <2>3. CASE \E text \in Reusable(worker.task) : worker' = [worker EXCEPT !.pc = "save", !.text = text]
      <3>1. PICK text \in Reusable(worker.task) : worker' = [worker EXCEPT !.pc = "save", !.text = text]
        BY <2>3
      <3>2. text \in Text \cup {NoText} /\ text.status = "completed" /\ text.input = worker.task.input
        BY DEF Reusable, TypeOK, EnrichmentTypeOK
      <3>3. NoText.status # "completed"
        BY DEF NoText
      <3>4. text \in Text
        BY <3>2, <3>3
      <3>5. worker' \in WorkerLocals /\ worker'.pc = "save" /\ worker'.task = worker.task /\ worker'.text = text
        BY <1>3, <3>1, <3>2 DEF WorkerLocals
      <3> QED  BY <1>4, <1>6, <3>2, <3>4, <3>5 DEF Reuse
    <2> QED  BY <1>6, <2>1, <2>2, <2>3 DEF Reuse
  <1>7. CASE Generate
    <2>1. PICK status \in {"completed", "failed"} :
            worker' = [worker EXCEPT !.pc = "save", !.text = [input |-> worker.task.input, status |-> status]]
      BY <1>7 DEF Generate
    <2> DEFINE text == [input |-> worker.task.input, status |-> status]
    <2>2. text \in Text /\ text.input = worker.task.input
      BY <1>3 DEF Text, Task
    <2> HIDE DEF text
    <2>3. worker' = [worker EXCEPT !.pc = "save", !.text = text]
      BY <2>1 DEF text
    <2>4. worker' \in WorkerLocals /\ worker'.pc = "save" /\ worker'.task = worker.task /\ worker'.text = text
      BY <1>3, <2>2, <2>3 DEF WorkerLocals
    <2> QED  BY <1>4, <1>7, <2>2, <2>4 DEF Generate
  <1>8. CASE Save
    <2>1. worker.pc = "save" /\ worker' = Resting /\ worker.text \in Text /\ worker.text.input = worker.task.input
      BY <1>8 DEF Save, RestInv, TextInv
    <2>2. CASE UNCHANGED texts
      BY <1>4, <2>1, <2>2, RestingFacts
    <2>3. CASE texts' = [texts EXCEPT ![worker.task.id] = worker.text]
      <3>1. texts' \in [Ids -> Text \cup {NoText}]
        BY <2>1, <2>3 DEF TypeOK, EnrichmentTypeOK
      <3>2. \A id \in Ids : texts'[id] = IF id = worker.task.id THEN worker.text ELSE texts[id]
        BY <2>3 DEF TypeOK, EnrichmentTypeOK
      <3>3. \A id \in Ids : texts'[id].status # "none" => Fits(id, texts'[id].input)
        BY <1>3, <2>1, <3>2 DEF RestInv, TextInv
      <3>4. RestTypeOK'
        BY <1>1, <1>2, <2>1, <3>1, RestingFacts DEF TypeOK, RestTypeOK, EnrichmentTypeOK,
           WorkerLocals, serviceVars, anomalyVars
      <3>5. worker'.pc = "take"
        BY <2>1, RestingFacts
      <3> QED  BY <1>1, <3>3, <3>4, <3>5 DEF RestInv, AnomalyInv, TaskInv, TextInv, Fits,
                  NeverAsksAgain, serviceVars, anomalyVars
    <2> QED  BY <1>8, <2>2, <2>3 DEF Save
  <1> QED  BY <1>5, <1>6, <1>7, <1>8

\* Every step of the whole leaves the tasks and the texts in order.
LEMMA RestStepInv ==
  ASSUME TypeOK, RestInv, [Next]_vars PROVE RestTypeOK' /\ RestInv'
  <1>1. CASE TickerFires \/ RequestIngest \/ UNCHANGED vars
             \/ \E r \in Runners : JobStep(r) /\ UNCHANGED <<aiVars, anomalyVars, batch>>
    <2>1. UNCHANGED <<aiVars, anomalyVars, batch>>
      BY <1>1 DEF TickerFires, RequestIngest, vars
    <2> QED  BY <2>1 DEF TypeOK, RestTypeOK, EnrichmentTypeOK, aiVars, serviceVars, anomalyVars, RestInv,
                AnomalyInv, TaskInv, Fits, TextInv, NeverAsksAgain
  <1>2. CASE WorkerStep
    BY <1>2, TakeInv, WorkInv DEF WorkerStep, Process
  <1>3. CASE Stop \/ StopQueue
    <2>1. /\ UNCHANGED <<queue, worker, texts, errors, anomalyVars, batch>>
          /\ closing' \in Phases
      BY <1>3 DEF Stop, StopQueue, Cancel, CloseQueue, Phases
    <2> QED  BY <2>1 DEF TypeOK, RestTypeOK, EnrichmentTypeOK, anomalyVars, RestInv,
                AnomalyInv, TaskInv, Fits, TextInv, NeverAsksAgain
  <1>4. CASE NextProcess
    <2>1. /\ queue' = <<>> /\ worker' = Resting /\ closing' = "open"
          /\ batch' = [r \in Runners |-> Unread]
          /\ UNCHANGED <<texts, errors, anomalyVars>>
      BY <1>4 DEF NextProcess, NewProcess
    <2>2. queue' \in Seq(Task) /\ Len(queue') = 0 /\ Len(queue') <= QueueSize
      BY <2>1, EmptySeq, EnrichmentAssumption
    <2>3. RestTypeOK'
      BY <2>1, <2>2, RestingFacts DEF TypeOK, RestTypeOK, EnrichmentTypeOK, WorkerLocals,
         BatchLocals, anomalyVars, Phases
    <2>4. \A r \in Runners : batch'[r].todo = {}
      BY <2>1, RestingFacts
    <2>5. TaskInv'
      BY <2>1, <2>2, <2>4, RestingFacts DEF TaskInv
    <2> QED  BY <2>1, <2>3, <2>5, RestingFacts DEF RestInv, AnomalyInv, TextInv, Fits,
                NeverAsksAgain, anomalyVars
  <1>5. ASSUME NEW r \in Runners, Ingest(r) \/ ReadAnomalies(r) \/ SubmitNext(r) \/ Return(r)
        PROVE  RestTypeOK' /\ RestInv'
    BY <1>5, IngestInv, BatchInv, SubmitInv
  <1>6. ASSUME NEW j \in Jobs, Recover(j) PROVE RestTypeOK' /\ RestInv'
    BY <1>6, BatchInv DEF Runners
  <1> QED  BY <1>1, <1>2, <1>3, <1>4, <1>5, <1>6 DEF Next, RunnerStep

-----------------------------------------------------------------------------
(* The lock between submitting and Close.                                  *)

\* A goroutine's own step, that leaves it before a send if it holds the lock.
LEMMA LockMoves ==
  ASSUME LockInv, NEW r \in Runners, UNCHANGED closing, readers' \subseteq readers,
         \A q \in Runners : q # r => run'[q].pc = run[q].pc /\ batch'[q] = batch[q],
         r \in readers' => run'[r].pc = "returned" /\ batch'[r].todo # {},
         batch'[r].todo # {} => batch'[r].read
  PROVE  LockInv'
  <1>1. \A q \in readers' : run'[q].pc = "returned" /\ batch'[q].todo # {}
    BY DEF LockInv, CloseNeverStuck
  <1> QED  BY <1>1 DEF LockInv, CloseNeverStuck

\* Every step of the whole keeps the lock.
LEMMA LockStepInv ==
  ASSUME TypeOK, EnrichedInv, [Next]_vars PROVE LockInv'
  <1>1. /\ LockInv /\ JobsInv /\ Jobs \subseteq Runners
        /\ \A r \in readers : r \in Runners /\ run[r].pc = "returned" /\ batch[r].todo # {}
    BY DEF EnrichedInv, LockInv, CloseNeverStuck, Runners
  <1>2. /\ run \in [Runners -> Locals] /\ batch \in [Runners -> BatchLocals]
    BY DEF TypeOK, JobsTypeOK, Locals, BatchLocals
  <1>3. ASSUME NEW r \in Runners, NEW next \in Locals, run' = [run EXCEPT ![r] = next],
               UNCHANGED <<serviceVars, batch>>, run[r].pc # "returned"
        PROVE  LockInv'
    <2>1. \A q \in Runners : q # r => run'[q].pc = run[q].pc
      BY <1>2, <1>3
    <2> QED  BY <1>1, <1>3, <2>1, LockMoves DEF LockInv, serviceVars
  <1>4. CASE TickerFires
    <2>1. run' = [run EXCEPT ![Scheduler] = [run[Scheduler] EXCEPT !.pc = "run"]] /\ run[Scheduler].pc = "off"
      BY <1>4 DEF TickerFires, StartScheduled
    <2>2. Scheduler \in Runners /\ [run[Scheduler] EXCEPT !.pc = "run"] \in Locals
      BY <1>2 DEF Runners, Locals, PCs
    <2> QED  BY <1>3, <1>4, <2>1, <2>2 DEF TickerFires, aiVars
  <1>5. CASE RequestIngest
    <2> DEFINE j == lastJob + 1
    <2>1. /\ run' = [run EXCEPT ![j] = [Off EXCEPT !.pc = "begin"]]
          /\ active = NoJob /\ lastJob < MaxJobs
      BY <1>5 DEF RequestIngest, Enqueue
    <2>2. j \in Jobs
      BY <2>1, JobsAssumption DEF TypeOK, JobsTypeOK, Jobs
    <2>3. run[j].pc # "returned"
      BY <1>1, <2>1, <2>2 DEF JobsInv, AtWork, Jobs, NoJob
    <2>4. [Off EXCEPT !.pc = "begin"] \in Locals
      BY DEF Off, Locals, PCs, Finished
    <2> HIDE DEF j
    <2> QED  BY <1>1, <1>3, <1>5, <2>1, <2>2, <2>3, <2>4 DEF RequestIngest, aiVars
  <1>6. CASE WorkerStep \/ UNCHANGED vars
    <2>1. UNCHANGED <<run, readers, closing, batch>>
      BY <1>6 DEF WorkerStep, Process, Take, Load, Reuse, Generate, Save, serviceVars, jobVars,
         vars, aiVars
    <2> QED  BY <1>1, <2>1 DEF LockInv, CloseNeverStuck
  <1>7. CASE Stop \/ StopQueue
    <2>1. UNCHANGED <<run, readers, batch>>
      BY <1>7 DEF Stop, StopQueue, Cancel, CloseQueue, jobVars
    <2>2. closing' \in {"locked", "marked", "closed"} => readers = {}
      BY <1>1, <1>7 DEF Stop, StopQueue, Cancel, CloseQueue, MayWrite, LockInv
    <2> QED  BY <1>1, <2>1, <2>2 DEF LockInv, CloseNeverStuck
  <1>8. CASE NextProcess
    <2>1. readers' = {} /\ batch' = [r \in Runners |-> Unread]
      BY <1>8 DEF NextProcess, NewProcess
    <2> QED  BY <2>1, RestingFacts DEF LockInv, CloseNeverStuck
  <1>9. ASSUME NEW r \in Runners, RunnerStep(r) PROVE LockInv'
    <2>1. CASE r \in Jobs /\ JobStep(r) /\ UNCHANGED <<aiVars, anomalyVars, batch>>
      <3>1. run[r].pc # "returned" /\ \E next : run' = [run EXCEPT ![r] = next]
        BY <2>1 DEF JobStep, Begin, Complete, Notify
      <3>2. \A q \in Runners : q # r => run'[q].pc = run[q].pc
        BY <1>2, <3>1
      <3> QED  BY <1>1, <2>1, <3>1, <3>2, LockMoves DEF LockInv, aiVars, serviceVars
    <2>2. CASE Ingest(r)
      <3>1. run[r].pc = "run" /\ UNCHANGED <<aiVars, batch>> /\ \E next : run' = [run EXCEPT ![r] = next]
        BY <2>2 DEF Ingest, EndRun
      <3>2. \A q \in Runners : q # r => run'[q].pc = run[q].pc
        BY <1>2, <3>1
      <3> QED  BY <1>1, <3>1, <3>2, LockMoves DEF LockInv, aiVars, serviceVars
    <2>3. CASE ReadAnomalies(r)
      <3>1. /\ ~batch[r].read /\ UNCHANGED <<run, serviceVars>>
            /\ \E todo : batch' = [batch EXCEPT ![r] = [read |-> TRUE, todo |-> todo]]
        BY <2>3 DEF ReadAnomalies, jobVars, Unread
      <3>2. \A q \in Runners : batch'[q] = batch[q] \/ (q = r /\ batch'[q].read)
        BY <1>2, <3>1
      <3>3. r \notin readers
        BY <1>1, <3>1 DEF LockInv
      <3> QED  BY <1>1, <3>1, <3>2, <3>3, LockMoves DEF LockInv, serviceVars
    <2>4. CASE SubmitNext(r)
      <3>1. run[r].pc = "returned" /\ batch[r].todo # {} /\ UNCHANGED <<run, closing>>
        BY <2>4 DEF SubmitNext, jobVars, FindsOpen, FindsClosed, Send, aiVars, serviceVars
      <3>2. CASE FindsOpen(r) /\ UNCHANGED batch
        <4>1. readers' = readers \cup {r} /\ closing \notin {"locked", "marked", "closed"}
          BY <3>2 DEF FindsOpen, MayRead
        <4> QED  BY <1>1, <3>1, <3>2, <4>1 DEF LockInv, CloseNeverStuck
      <3>3. ASSUME Submitted(r), readers' = readers \/ readers' = readers \ {r}, r \notin readers'
            PROVE  LockInv'
        <4>1. \A q \in Runners : q # r => batch'[q] = batch[q]
          BY <1>2, <3>3 DEF Submitted
        <4>2. batch'[r].read = batch[r].read
          BY <1>2, <3>3 DEF Submitted, BatchLocals
        <4> QED  BY <1>1, <3>1, <3>3, <4>1, <4>2, LockMoves DEF LockInv
      <3> QED  BY <2>4, <3>2, <3>3 DEF SubmitNext, FindsClosed, Send, aiVars, serviceVars
    <2>5. CASE Return(r)
      <3>1. /\ batch[r].todo = {} /\ batch' = [batch EXCEPT ![r] = Unread] /\ UNCHANGED serviceVars
            /\ \E next : run' = [run EXCEPT ![r] = next]
        BY <2>5 DEF Return, FinishRun, aiVars
      <3>2. r \notin readers
        BY <1>1, <3>1
      <3>3. /\ \A q \in Runners : q # r => run'[q].pc = run[q].pc /\ batch'[q] = batch[q]
            /\ batch'[r] = Unread
        BY <1>2, <3>1
      <3> QED  BY <1>1, <3>1, <3>2, <3>3, RestingFacts, LockMoves DEF serviceVars
    <2> QED  BY <1>9, <2>1, <2>2, <2>3, <2>4, <2>5 DEF RunnerStep
  <1>10. ASSUME NEW j \in Jobs, Recover(j) PROVE LockInv'
    <2>1. /\ batch' = [batch EXCEPT ![j] = Unread] /\ readers' = readers \ {j} /\ UNCHANGED closing
          /\ \E next : run' = [run EXCEPT ![j] = next]
      BY <1>10 DEF Recover, Unlock, Panic
    <2>2. /\ \A q \in Runners : q # j => run'[q].pc = run[q].pc /\ batch'[q] = batch[q]
          /\ batch'[j] = Unread
      BY <1>1, <1>2, <2>1
    <2> QED  BY <1>1, <2>1, <2>2, RestingFacts, LockMoves
  <1> QED  BY <1>4, <1>5, <1>6, <1>7, <1>8, <1>9, <1>10 DEF Next

-----------------------------------------------------------------------------
(* The theorems.                                                           *)

\* The initial states have the invariant.
LEMMA InitInv == Init => TypeOK /\ EnrichedInv
  <1> SUFFICES ASSUME Init PROVE TypeOK /\ EnrichedInv
    OBVIOUS
  <1>1. Off \in Locals /\ Off.pc = "off"
    BY DEF Off, Locals, PCs, Finished
  <1>2. /\ jobs = [j \in Jobs |-> "none"] /\ order = <<>> /\ active = NoJob
        /\ lastJob = 0 /\ runMu = Free /\ run = [r \in Runners |-> Off]
        /\ mishaps \in 0..MaxMishaps
    BY DEF Init, JobsInit
  <1>3. order \in Seq(Jobs) /\ Len(order) = 0 /\ Jobs \subseteq Runners
    BY <1>2, EmptySeq DEF Runners
  <1>4. JobsTypeOK /\ JobsInv
    <2>1. JobsTypeOK
      BY <1>1, <1>2, <1>3, JobsAssumption DEF JobsTypeOK, Locals
    <2> QED  BY <1>1, <1>2, <1>3, <2>1 DEF JobsInv, AtWork, Unfinished
  <1>5. /\ queue = <<>> /\ worker = Resting /\ texts = [id \in Ids |-> NoText]
        /\ closing = "open" /\ readers = {} /\ errors \in 0..MaxErrors
        /\ anomalies = [i \in Inputs |-> 0] /\ lastId = 0 /\ batch = [r \in Runners |-> Unread]
    BY DEF Init, EnrichmentInit
  <1>6. queue \in Seq(Task) /\ Len(queue) = 0
    BY <1>5, EmptySeq
  <1>7. \A id \in Ids : texts[id] = NoText /\ NoText.status = "none"
    BY <1>5 DEF NoText
  <1>8. TypeOK
    <2>1. queue \in Seq(Task) /\ Len(queue) <= QueueSize
      BY <1>6, EnrichmentAssumption
    <2>2. worker \in WorkerLocals /\ texts \in [Ids -> Text \cup {NoText}]
      BY <1>5, RestingFacts
    <2>3. EnrichmentTypeOK
      BY <1>5, <2>1, <2>2 DEF EnrichmentTypeOK, WorkerLocals, Phases
    <2> QED  BY <1>4, <1>5, <2>3, RestingFacts, EnrichmentAssumption DEF TypeOK, BatchLocals
  <1>9. \A r \in Runners : batch[r].todo = {}
    BY <1>5, RestingFacts
  <1>10. TaskInv
    BY <1>5, <1>6, <1>9, RestingFacts DEF TaskInv
  <1>11. AnomalyInv /\ TextInv /\ NeverAsksAgain
    <2>1. worker.pc = "take"
      BY <1>5, RestingFacts
    <2>2. AnomalyInv
      BY <1>5 DEF AnomalyInv
    <2> QED  BY <1>7, <2>1, <2>2 DEF TextInv, NeverAsksAgain
  <1>12. LockInv
    BY <1>5, <1>9 DEF LockInv, CloseNeverStuck
  <1> QED  BY <1>4, <1>8, <1>10, <1>11, <1>12 DEF EnrichedInv

\* The types and the invariant hold in every state.
THEOREM EnrichedInvariant == Spec => [](TypeOK /\ EnrichedInv)
  <1>1. TypeOK /\ EnrichedInv /\ [Next]_vars => (TypeOK /\ EnrichedInv)'
    <2>1. SUFFICES ASSUME TypeOK, EnrichedInv, [Next]_vars PROVE (TypeOK /\ EnrichedInv)'
      OBVIOUS
    <2>2. JobsTypeOK' /\ JobsInv'
      BY <2>1, JobsStepInv DEF EnrichedInv
    <2>3. RestTypeOK' /\ RestInv'
      BY <2>1, RestStepInv DEF EnrichedInv, RestInv
    <2>4. LockInv'
      BY <2>1, LockStepInv DEF EnrichedInv
    <2> QED  BY <2>2, <2>3, <2>4 DEF TypeOK, RestTypeOK, EnrichedInv, RestInv, LockInv
  <1> QED  BY InitInv, <1>1, PTL DEF Spec

\* Every state has the types of TypeOK: no job, task, row or lock holder is outside of
\* what the store, the queue and the tables can hold.
THEOREM TypeCorrect == Spec => []TypeOK
  BY EnrichedInvariant, PTL

\* The job that clients are told is active is the one that is not finished, and it is in
\* the store; when none is active none is left unfinished.
THEOREM ActiveIsUnfinished == Spec => []UnfinishedIsActive
  <1>1. EnrichedInv => UnfinishedIsActive
    BY DEF EnrichedInv, JobsInv, UnfinishedIsActive
  <1> QED  BY EnrichedInvariant, <1>1, PTL

\* No outcome of a run, no taken lock, no panic and no restart leaves a job queued or
\* running without a goroutine that finishes it.
THEOREM UnfinishedHasGoroutine == Spec => []UnfinishedIsWorkedOn
  <1>1. EnrichedInv => UnfinishedIsWorkedOn
    BY DEF EnrichedInv, JobsInv, UnfinishedIsWorkedOn, AtWork
  <1> QED  BY EnrichedInvariant, <1>1, PTL

\* The model is not asked for an input that the table has a completed text for.
THEOREM ModelNotAskedAgain == Spec => []NeverAsksAgain
  <1>1. EnrichedInv => NeverAsksAgain
    BY DEF EnrichedInv
  <1> QED  BY EnrichedInvariant, <1>1, PTL

\* However the goroutines that submit interleave with Close, panic or die, nobody stands
\* before a send when the channel is closed.
THEOREM NeverSendsOnClosed == Spec => []NoSendOnClosed
  <1>1. EnrichedInv => NoSendOnClosed
    BY DEF EnrichedInv, LockInv, NoSendOnClosed
  <1> QED  BY EnrichedInvariant, <1>1, PTL

\* The lock that Close waits for is only held by who is about to send and give it back.
THEOREM CloseGetsTheLock == Spec => []CloseNeverStuck
  <1>1. EnrichedInv => CloseNeverStuck
    BY DEF EnrichedInv, LockInv
  <1> QED  BY EnrichedInvariant, <1>1, PTL

\* A completed text that is shown with an anomaly was written for what it says, though
\* the anomaly may have been recomputed while the text was waited for.
THEOREM TextBelongsToAnomaly == Spec => []TextFitsAnomaly
  <1>1. TypeOK /\ EnrichedInv => TextFitsAnomaly
    <2> SUFFICES ASSUME TypeOK, EnrichedInv, NEW i \in Inputs, anomalies[i] # 0,
                        texts[anomalies[i]].status = "completed"
                 PROVE  texts[anomalies[i]].input = i
      BY DEF TextFitsAnomaly
    <2>1. anomalies[i] \in Ids
      BY EnrichmentAssumption DEF TypeOK, Ids
    <2> QED  BY <2>1 DEF EnrichedInv, TextInv, Fits
  <1> QED  BY EnrichedInvariant, <1>1, PTL

\* A task that the worker lets go has a completed text in its row, or a call failed, or
\* the service is closing, or the process died.
THEOREM TasksHaveText == Spec => TasksEndWithText
  <1> DEFINE Ends ==
        LET task == worker.task
        IN (worker.pc \notin {"take", "ended"} /\ worker'.pc = "take")
             => \/ texts'[task.id] = [input |-> task.input, status |-> "completed"]
                \/ errors' # errors \/ mishaps' # mishaps \/ cancelled
                \/ texts'[task.id].status = "failed" /\ worker.pc = "save"
  <1>1. TypeOK /\ EnrichedInv /\ [Next]_vars => [Ends]_vars
    <2>1. SUFFICES ASSUME TypeOK, EnrichedInv, Next, UNCHANGED <<errors, mishaps>>, ~cancelled,
                          worker.pc \notin {"take", "ended"}, worker'.pc = "take",
                          ~(texts'[worker.task.id].status = "failed" /\ worker.pc = "save")
                   PROVE  texts'[worker.task.id] = [input |-> worker.task.input, status |-> "completed"]
      OBVIOUS
    <2>2. worker \in WorkerLocals /\ worker.task \in Task /\ worker.task.id \in Ids /\ texts \in [Ids -> Text \cup {NoText}]
      BY <2>1 DEF TypeOK, EnrichmentTypeOK, WorkerLocals, Task
    <2>3. ~Error /\ mishaps' # mishaps - 1
      BY <2>1 DEF Error, TypeOK, EnrichmentTypeOK, JobsTypeOK
    <2>4. ~CallFails
      BY <2>1, <2>3 DEF CallFails
    <2>5. ASSUME NEW text \in Text, text.input = worker.task.input, text.status = "completed"
          PROVE  text = [input |-> worker.task.input, status |-> "completed"]
      BY <2>5 DEF Text
    <2>6. worker' # worker
      BY <2>1
    <2>7. Process
      <3>1. ~NextProcess
        BY <2>1, <2>3 DEF NextProcess, Restart, Closed
      <3>2. CASE TickerFires \/ RequestIngest \/ Stop \/ StopQueue
        BY <3>2, <2>6 DEF TickerFires, RequestIngest, Stop, StopQueue, aiVars, Cancel, CloseQueue
      <3>3. ASSUME NEW r \in Runners, RunnerStep(r) PROVE FALSE
        BY <3>3, <2>6 DEF RunnerStep, Ingest, ReadAnomalies, SubmitNext, FindsOpen, FindsClosed, Send, Return, aiVars
      <3>4. ASSUME NEW j \in Jobs, Recover(j) PROVE FALSE
        BY <3>4, <2>6 DEF Recover, Unlock
      <3> QED  BY <2>1, <3>1, <3>2, <3>3, <3>4 DEF Next, WorkerStep
    <2>8. CASE Load
      <3>1. UpToDate(texts[worker.task.id], worker.task) /\ UNCHANGED texts
        <4>1. [worker EXCEPT !.pc = "reuse"].pc = "reuse"
          BY <2>2 DEF WorkerLocals
        <4> QED  BY <2>1, <2>4, <2>8, <4>1 DEF Load
      <3>2. NoText.status # "completed"
        BY DEF NoText
      <3>3. texts[worker.task.id] \in Text
        BY <2>2, <3>1, <3>2 DEF UpToDate
      <3> QED  BY <2>5, <3>1, <3>3 DEF UpToDate
    <2>9. CASE Save
      <3>1. texts' = [texts EXCEPT ![worker.task.id] = worker.text] /\ worker.pc = "save"
        BY <2>3, <2>9 DEF Save
      <3>2. texts'[worker.task.id] = worker.text
        BY <2>2, <3>1
      <3>3. worker.text \in Text /\ worker.text.input = worker.task.input
        BY <2>1, <3>1 DEF EnrichedInv, TextInv
      <3>4. worker.text.status \in {"completed", "failed"}
        BY <3>3 DEF Text
      <3> QED  BY <2>1, <2>5, <3>1, <3>2, <3>3, <3>4
    <2>10. ~Reuse
      <3>1. [worker EXCEPT !.pc = "generate"].pc = "generate"
        BY <2>2 DEF WorkerLocals
      <3>2. \A text : [worker EXCEPT !.pc = "save", !.text = text].pc = "save"
        BY <2>2 DEF WorkerLocals
      <3> QED  BY <2>1, <2>4, <3>1, <3>2 DEF Reuse
    <2>11. ~Generate
      <3>1. \A text : [worker EXCEPT !.pc = "save", !.text = text].pc = "save"
        BY <2>2 DEF WorkerLocals
      <3> QED  BY <2>1, <3>1 DEF Generate
    <2> QED  BY <2>1, <2>7, <2>8, <2>9, <2>10, <2>11 DEF Process, Take
  <1>2. Spec => [][Ends]_vars
    BY EnrichedInvariant, <1>1, PTL DEF Spec
  <1> QED  BY <1>2 DEF TasksEndWithText
=============================================================================
