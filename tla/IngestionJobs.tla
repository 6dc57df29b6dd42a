--------------------------- MODULE IngestionJobs ---------------------------
(***************************************************************************)
(* Who runs ingestion: the scheduler's ticker (app.App) and the background *)
(* jobs of POST /api/v1/ingest with their in-memory store                  *)
(* (httpapi.Handler, ingestionJobStore), over the run lock of              *)
(* collect.Service.  A job's panic is recovered once; the store is gone    *)
(* when the process dies.  What a run does is in CostIngestion.            *)
(***************************************************************************)
EXTENDS Integers, Sequences, FiniteSetsExt

CONSTANTS
  MaxJobs,    \* bound: jobs ever queued
  MaxStored,  \* maxStoredIngestionJobs
  MaxMishaps  \* bound: panics, crashes and shutdowns

Jobs      == 1..MaxJobs           \* job IDs, from the clock
Scheduler == 0
Runners   == {Scheduler} \cup Jobs
NoJob     == 0
Free      == -1                   \* the run lock is free

ASSUME JobsAssumption ==
  MaxJobs \in Nat /\ MaxStored \in Nat \ {0} /\ MaxMishaps \in Nat

VARIABLES
  jobs,    \* ingestionJobStore.jobs: the status of each job
  order,   \* ingestionJobStore.order
  active,  \* ingestionJobStore.active
  lastJob, \* the latest job ID
  runMu,   \* collect.Service.runMu
  run,     \* per goroutine: where it is, and the status to complete the job with
  mishaps  \* what may still happen of them

storeVars == <<jobs, order, active, lastJob>>
jobVars   == <<storeVars, runMu, run, mishaps>>

Unfinished == {"queued", "running"}
Finished   == {"success", "partial_failure", "failed"}
PCs        == {"off", "begin", "run", "returned", "complete", "notify"}

Off == [pc |-> "off", status |-> "failed", recovered |-> FALSE]

JobsTypeOK ==
  /\ jobs \in [Jobs -> {"none"} \cup Unfinished \cup Finished]
  /\ order \in Seq(Jobs) /\ Len(order) <= MaxStored
  /\ active \in Jobs \cup {NoJob} /\ lastJob \in 0..MaxJobs
  /\ runMu \in Runners \cup {Free}
  /\ run \in [Runners -> [pc : PCs, status : Finished, recovered : BOOLEAN]]
  /\ mishaps \in 0..MaxMishaps

JobsInit ==
  /\ jobs = [j \in Jobs |-> "none"] /\ order = <<>> /\ active = NoJob
  /\ lastJob = 0 /\ runMu = Free /\ run = [r \in Runners |-> Off]
  /\ mishaps \in 0..MaxMishaps

-----------------------------------------------------------------------------
(* The job store.                                                          *)

\* Mutant: finished jobs are kept.
NothingTrimmed(ids, act) == 0

\* trimLocked: how many of the oldest jobs go, down to the limit or the active one.
Trimmed(ids, act) ==
  Min({k \in 0..Len(ids) : Len(ids) - k <= MaxStored \/ ids[k + 1] = act})

\* enqueue and the goroutine it starts.  With a job active nothing changes: the
\* request gets that job.
Enqueue ==
  LET j    == lastJob + 1
      ids  == Append(order, j)
      drop == Trimmed(ids, j)
  IN /\ active = NoJob /\ lastJob < MaxJobs
     /\ jobs' = [i \in Jobs |-> IF i = j THEN "queued"
                                ELSE IF \E k \in 1..drop : ids[k] = i THEN "none"
                                ELSE jobs[i]]
     /\ order' = SubSeq(ids, drop + 1, Len(ids))
     /\ active' = j /\ lastJob' = j
     /\ run' = [run EXCEPT ![j] = [Off EXCEPT !.pc = "begin"]]
     /\ UNCHANGED <<runMu, mishaps>>

\* Mutants: a failed job stays active; the status of a failed job is not written.
StaysActive(j, status) == IF status = "failed" THEN active ELSE NoJob
Unwritten(j, status) == IF status = "failed" THEN jobs ELSE [jobs EXCEPT ![j] = status]

\* What complete leaves in s.active and s.jobs.
NowActive(j, status) == IF active = j THEN NoJob ELSE active
Written(j, status) == [jobs EXCEPT ![j] = status]

\* complete; the notification that follows can panic.
Complete(j) ==
  /\ run[j].pc = "complete"
  /\ jobs' = Written(j, run[j].status)
  /\ active' = NowActive(j, run[j].status)
  /\ run' = [run EXCEPT ![j].pc = "notify"]
  /\ UNCHANGED <<order, lastJob, runMu, mishaps>>

Notify(j) ==
  /\ run[j].pc = "notify" /\ run' = [run EXCEPT ![j] = Off]
  /\ UNCHANGED <<storeVars, runMu, mishaps>>

-----------------------------------------------------------------------------
(* Runs.                                                                   *)

\* runScheduledIngestion; when another run is active nothing changes.
StartScheduled ==
  /\ run[Scheduler].pc = "off" /\ runMu = Free /\ runMu' = Scheduler
  /\ run' = [run EXCEPT ![Scheduler].pc = "run"]
  /\ UNCHANGED <<storeVars, mishaps>>

\* Where a run that returns with this status goes on.
AfterRun(r, status) ==
  IF r = Scheduler THEN Off ELSE [run[r] EXCEPT !.pc = "complete", !.status = status]

\* runIngestionJob marks the job as running and calls Run: ErrRunAlreadyActive fails
\* it.
Begin(j) ==
  /\ run[j].pc = "begin"
  /\ jobs' = [jobs EXCEPT ![j] = "running"]
  /\ \/ runMu = Free /\ runMu' = j /\ run' = [run EXCEPT ![j].pc = "run"]
     \/ /\ runMu # Free /\ UNCHANGED runMu
        /\ run' = [run EXCEPT ![j] = AfterRun(j, "failed")]
  /\ UNCHANGED <<order, active, lastJob, mishaps>>

\* collect.Service.Run returns, with errors of some collector or without: every
\* collector has a result, so errors are a partial failure.
EndRun(r, err) ==
  /\ run[r].pc = "run" /\ runMu' = Free
  /\ run' = [run EXCEPT ![r] = IF err THEN AfterRun(r, "partial_failure")
                               ELSE [@ EXCEPT !.pc = "returned"]]
  /\ UNCHANGED <<storeVars, mishaps>>

FinishRun(r) ==
  /\ run[r].pc = "returned"
  /\ run' = [run EXCEPT ![r] = AfterRun(r, "success")]
  /\ UNCHANGED <<storeVars, runMu, mishaps>>

\* runIngestionJob recovers from a panic and completes the job once more; Run's own
\* deferred call gives the lock back.
Panic(j) ==
  /\ mishaps > 0 /\ mishaps' = mishaps - 1
  /\ run[j].pc \in {"run", "returned", "notify"} /\ ~run[j].recovered
  /\ runMu' = IF runMu = j THEN Free ELSE runMu
  /\ run' = [run EXCEPT ![j] = [pc |-> "complete", status |-> "failed", recovered |-> TRUE]]
  /\ UNCHANGED storeVars

\* A new process knows of no job.
StartOver ==
  /\ jobs' = [j \in Jobs |-> "none"] /\ order' = <<>> /\ active' = NoJob
  /\ runMu' = Free /\ run' = [r \in Runners |-> Off]
  /\ UNCHANGED lastJob

\* The process dies and starts again.
Restart == mishaps > 0 /\ mishaps' = mishaps - 1 /\ StartOver

-----------------------------------------------------------------------------
(* What must hold.                                                         *)

\* The active job is the one that is not finished, and it is in the store: clients
\* are handed its ID, and a store that keeps a finished or dropped job active takes
\* no job any more.
UnfinishedIsActive ==
  /\ \A j \in Jobs : jobs[j] \in Unfinished => active = j
  /\ active # NoJob => jobs[active] \in Unfinished /\ \E k \in 1..Len(order) : order[k] = active

\* A job that is not finished has a goroutine that will finish it: no outcome, no lock
\* that is taken and no panic leaves it queued or running for good.
UnfinishedIsWorkedOn ==
  \A j \in Jobs : jobs[j] \in Unfinished => run[j].pc \notin {"off", "notify"}
=============================================================================
