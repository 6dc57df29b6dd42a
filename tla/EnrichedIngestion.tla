-------------------------- MODULE EnrichedIngestion --------------------------
(***************************************************************************)
(* Ingestion runs and the anomalies they have explained: enrichingCollector*)
(* wraps every run of IngestionJobs, reads the anomalies after a run       *)
(* without errors and submits them one by one to the service of Enrichment.*)
(* A run's refresh deletes the anomalies of its window and inserts them    *)
(* anew, under new row IDs.                                                *)
(***************************************************************************)
EXTENDS IngestionJobs, Enrichment

CONSTANTS
  MaxItems,  \* ai.max_items_per_run
  MaxFaults  \* bound: mishaps and failed calls together

ASSUME ItemsAssumption == MaxItems \in Nat \ {0} /\ MaxFaults \in Nat

VARIABLES
  anomalies, \* cost_anomalies: the row ID of each input (0: no such anomaly)
  lastId,    \* the latest row ID
  batch      \* per runner: whether the anomalies were read, and what is to submit

anomalyVars == <<anomalies, lastId>>
vars == <<jobVars, aiVars, anomalyVars, batch>>

Unread == [read |-> FALSE, todo |-> {}]

TypeOK ==
  /\ JobsTypeOK /\ EnrichmentTypeOK
  /\ anomalies \in [Inputs -> 0..MaxId] /\ lastId \in 0..MaxId
  /\ batch \in [Runners -> [read : BOOLEAN, todo : SUBSET Task]]
  /\ readers \subseteq Runners

Init ==
  /\ JobsInit /\ EnrichmentInit /\ mishaps + errors = MaxFaults
  /\ anomalies = [i \in Inputs |-> 0] /\ lastId = 0
  /\ batch = [r \in Runners |-> Unread]

-----------------------------------------------------------------------------

\* The serial ID of an inserted row.
NewId(found, i) == lastId + Cardinality({k \in found : k <= i})

\* refreshCostAnomalies in a window: the anomalies there go, those found come.
RefreshAnomalies(window, found) ==
  /\ lastId + Cardinality(found) <= MaxId
  /\ anomalies' = [i \in Inputs |-> IF i \in found THEN NewId(found, i)
                                    ELSE IF i \in window THEN 0 ELSE anomalies[i]]
  /\ lastId' = lastId + Cardinality(found)

\* A run refreshes when it inserted rows and the refresh itself did not fail.
Ingest(r) ==
  /\ \E err \in BOOLEAN : EndRun(r, err)
  /\ \/ UNCHANGED anomalyVars
     \/ \E window \in SUBSET Inputs : \E found \in SUBSET window :
          RefreshAnomalies(window, found)
  /\ UNCHANGED <<aiVars, batch>>

\* SubmitAnomalies takes the first ones.
FirstAnomalies ==
  {i \in Inputs : anomalies[i] # 0
     /\ Cardinality({k \in Inputs : anomalies[k] # 0 /\ k <= i}) <= MaxItems}

\* DashboardAnomalies, for the runner's own submission; a shutdown has cancelled the
\* scheduler's context, but not the one of a job.
ReadAnomalies(r) ==
  /\ run[r].pc = "returned" /\ ~batch[r].read
  /\ \/ /\ ~(r = Scheduler /\ cancelled)
        /\ batch' = [batch EXCEPT ![r] = [read |-> TRUE,
              todo |-> {[id |-> anomalies[i], input |-> i] : i \in FirstAnomalies}]]
        /\ UNCHANGED errors
     \/ /\ Error \/ (r = Scheduler /\ cancelled /\ UNCHANGED errors)
        /\ batch' = [batch EXCEPT ![r] = [Unread EXCEPT !.read = TRUE]]
  /\ UNCHANGED <<jobVars, queue, worker, texts, serviceVars, anomalyVars>>

\* The loop of SubmitAnomalies: submit, task by task.
NextTask(r) == CHOOSE t \in batch[r].todo : \A u \in batch[r].todo : t.input <= u.input
Submitted(r) == batch' = [batch EXCEPT ![r].todo = @ \ {NextTask(r)}]

SubmitNext(r) ==
  /\ run[r].pc = "returned" /\ batch[r].todo # {}
  /\ \/ FindsOpen(r) /\ UNCHANGED batch
     \/ FindsClosed(r) /\ Submitted(r)
     \/ Send(r, NextTask(r)) /\ Submitted(r)
  /\ UNCHANGED <<jobVars, anomalyVars>>

Return(r) ==
  /\ batch[r].read /\ batch[r].todo = {} /\ FinishRun(r)
  /\ batch' = [batch EXCEPT ![r] = Unread]
  /\ UNCHANGED <<aiVars, anomalyVars>>

Recover(j) ==
  /\ Panic(j) /\ batch' = [batch EXCEPT ![j] = Unread]
  /\ Unlock(j) /\ UNCHANGED anomalyVars

\* The process ends, after Close or at any moment, and is started again.
NextProcess ==
  /\ \/ Restart
     \/ Closed /\ StartOver /\ UNCHANGED mishaps
  /\ NewProcess /\ batch' = [r \in Runners |-> Unread]
  /\ UNCHANGED anomalyVars

-----------------------------------------------------------------------------

JobStep(j) == Begin(j) \/ Complete(j) \/ Notify(j)

RunnerStep(r) ==
  \/ /\ r \in Jobs /\ JobStep(r)
     /\ UNCHANGED <<aiVars, anomalyVars, batch>>
  \/ Ingest(r) \/ ReadAnomalies(r) \/ SubmitNext(r) \/ Return(r)

\* Shutdown stops the tickers and the server before Close cancels anything.
TickerFires == ~cancelled /\ StartScheduled /\ UNCHANGED <<aiVars, anomalyVars, batch>>
RequestIngest == ~cancelled /\ Enqueue /\ UNCHANGED <<aiVars, anomalyVars, batch>>

WorkerStep == Process /\ UNCHANGED <<jobVars, anomalyVars, batch>>

\* SIGTERM, and main's way out; job goroutines are not waited for.
Stop ==
  /\ Cancel /\ mishaps > 0 /\ mishaps' = mishaps - 1
  /\ UNCHANGED <<storeVars, runMu, run, anomalyVars, batch>>
StopQueue == CloseQueue /\ UNCHANGED <<jobVars, anomalyVars, batch>>

Next ==
  \/ TickerFires \/ RequestIngest \/ WorkerStep \/ Stop \/ StopQueue \/ NextProcess
  \/ \E r \in Runners : RunnerStep(r)
  \/ \E j \in Jobs : Recover(j)

Spec == Init /\ [][Next]_vars

-----------------------------------------------------------------------------
(* What must hold.                                                         *)

\* The text shown with an anomaly (joined by row ID alone) was written for what that
\* row says: rows are only inserted and deleted, and their IDs never come back.
TextFitsAnomaly ==
  \A i \in Inputs :
    (anomalies[i] # 0 /\ texts[anomalies[i]].status = "completed")
      => texts[anomalies[i]].input = i

\* Close gets the lock it waits for: whoever holds the read lock stands before a send,
\* which never waits, whatever panicked and however full the queue was.  A lock not given
\* back would keep Close waiting for good, and behind it every run that submits.
CloseNeverStuck ==
  \A r \in readers : run[r].pc = "returned" /\ batch[r].todo # {}

\* A task ends with a completed text in the anomaly's row, unless a call failed or the
\* service is closing: a failed answer is no reason to leave the anomaly alone.
TasksEndWithText ==
  [][LET task == worker.task
     IN (worker.pc \notin {"take", "ended"} /\ worker'.pc = "take")
          => \/ texts'[task.id] = [input |-> task.input, status |-> "completed"]
             \/ errors' # errors \/ mishaps' # mishaps \/ cancelled
             \/ texts'[task.id].status = "failed" /\ worker.pc = "save"]_vars
=============================================================================
