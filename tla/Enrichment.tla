----------------------------- MODULE Enrichment -----------------------------
(***************************************************************************)
(* intelligence.Service: the bounded queue of anomalies to explain, its    *)
(* one worker, the ai_enrichments table, and Close, which queueMu keeps    *)
(* apart from those that submit.  A task is an anomaly's row ID and its    *)
(* input (what the prompt says, known by its hash); the worker looks for a *)
(* text it can keep or reuse before it asks the model.                     *)
(***************************************************************************)
EXTENDS Integers, Sequences, FiniteSetsExt

CONSTANTS
  MaxId,      \* bound: rows of cost_anomalies ever inserted
  MaxInput,   \* bound: the inputs, numbered by rank
  QueueSize,  \* ai.queue_size
  MaxErrors   \* bound: failed calls

Ids    == 1..MaxId
Inputs == 1..MaxInput
Phases == {"open", "cancelled", "waiting", "locked", "marked", "closed"}
Task   == [id : Ids, input : Inputs]
Text   == [input : Inputs, status : {"completed", "failed"}]
NoText == [input |-> 0, status |-> "none"]

ASSUME EnrichmentAssumption ==
  /\ MaxId \in Nat \ {0} /\ MaxInput \in Nat \ {0}
  /\ QueueSize \in Nat \ {0} /\ MaxErrors \in Nat

VARIABLES
  queue,     \* the channel
  worker,    \* the worker's locals
  texts,     \* ai_enrichments, by entity ID
  closing,   \* where Close is: "waiting" for the write lock of queueMu, which it has
             \* when "locked" and when Service.closed is "marked"
  readers,   \* who holds the read lock: those that found closed unset and will send
  errors     \* failed calls that may still happen

serviceVars == <<closing, readers>>
aiVars == <<queue, worker, texts, serviceVars, errors>>

cancelled == closing # "open"

Resting == [pc |-> "take", task |-> [id |-> 1, input |-> 1], text |-> NoText]

EnrichmentTypeOK ==
  /\ queue \in Seq(Task) /\ Len(queue) <= QueueSize
  /\ worker \in [pc : {"take", "load", "reuse", "generate", "save", "ended"},
                 task : Task, text : Text \cup {NoText}]
  /\ texts \in [Ids -> Text \cup {NoText}]
  /\ closing \in Phases
  /\ errors \in 0..MaxErrors

EnrichmentInit ==
  /\ queue = <<>> /\ worker = Resting /\ texts = [id \in Ids |-> NoText]
  /\ closing = "open" /\ readers = {} /\ errors \in 0..MaxErrors

-----------------------------------------------------------------------------
(* submit, under the read lock of queueMu: two steps, of any number of     *)
(* callers at once.                                                        *)

\* Mutants: the lock does not know of the callers inside; RUnlock is not deferred.
LocksAtOnce == TRUE
KeepsLock(caller) == UNCHANGED <<queue, worker, texts, closing, readers, errors>>

\* queueMu, a sync.RWMutex: a writer that waits lets no new reader in, and waits for
\* those that are in.
MayRead  == closing \notin {"waiting", "locked", "marked"}
MayWrite == readers = {}

\* A caller gets the read lock and looks at closed.
FindsOpen(caller) ==
  /\ caller \notin readers /\ MayRead /\ closing # "closed"
  /\ readers' = readers \cup {caller}
  /\ UNCHANGED <<queue, worker, texts, closing, errors>>
FindsClosed(caller) ==
  /\ caller \notin readers /\ MayRead /\ closing = "closed"
  /\ UNCHANGED aiVars

\* It sends, or drops the task when the queue is full, and gives the lock back.
Send(caller, task) ==
  /\ caller \in readers /\ readers' = readers \ {caller}
  /\ queue' = IF Len(queue) < QueueSize THEN Append(queue, task) ELSE queue
  /\ UNCHANGED <<worker, texts, closing, errors>>

\* A panic gives it back too: RUnlock is deferred.
Unlock(caller) ==
  /\ readers' = readers \ {caller}
  /\ UNCHANGED <<queue, worker, texts, closing, errors>>

-----------------------------------------------------------------------------
(* process                                                                 *)

Error == errors > 0 /\ errors' = errors - 1

\* A call with the service's context fails when that is cancelled.
CallFails == (cancelled /\ UNCHANGED errors) \/ Error
CallWorks == ~cancelled /\ UNCHANGED errors

Drained == closing = "closed" /\ queue = <<>>

Take ==
  /\ worker.pc = "take"
  /\ \/ /\ queue # <<>> /\ queue' = Tail(queue)
        /\ worker' = [Resting EXCEPT !.pc = "load", !.task = Head(queue)]
     \/ Drained /\ worker' = [Resting EXCEPT !.pc = "ended"] /\ UNCHANGED queue
  /\ UNCHANGED <<texts, errors, serviceVars>>

\* Mutant: any text for the input will do.
AnyStatus(text, task) == text.input = task.input

\* The row's own text is kept when it was completed for the same input.
UpToDate(text, task) == text.status = "completed" /\ text.input = task.input

Load ==
  /\ worker.pc = "load"
  /\ \/ /\ CallWorks
        /\ worker' = IF UpToDate(texts[worker.task.id], worker.task) THEN Resting
                     ELSE [worker EXCEPT !.pc = "reuse"]
     \/ CallFails /\ worker' = Resting
  /\ UNCHANGED <<queue, texts, serviceVars>>

\* Mutants: nothing is reused; whatever is completed is.
ReuseNothing(task) == {}
ReuseAny(task) == {text \in {texts[id] : id \in Ids} : text.status = "completed"}

\* GetAIEnrichmentByInput: a completed text for the input, of this row or another.
Reusable(task) ==
  {text \in {texts[id] : id \in Ids} : text.status = "completed" /\ text.input = task.input}

Reuse ==
  /\ worker.pc = "reuse"
  /\ \/ /\ CallWorks
        /\ IF Reusable(worker.task) = {} THEN worker' = [worker EXCEPT !.pc = "generate"]
           ELSE \E text \in Reusable(worker.task) :
                  worker' = [worker EXCEPT !.pc = "save", !.text = text]
     \/ CallFails /\ worker' = Resting
  /\ UNCHANGED <<queue, texts, serviceVars>>

\* openai.Client.Generate: a complete and valid answer, or an error (no answer, a bad
\* status, a refusal, an answer that does not fit the schema).
AskModel(status) ==
  \/ status = "completed" /\ CallWorks
  \/ status = "failed" /\ CallFails

Generate ==
  /\ worker.pc = "generate"
  /\ \E status \in {"completed", "failed"} :
       /\ AskModel(status)
       /\ worker' = [worker EXCEPT !.pc = "save",
                       !.text = [input |-> worker.task.input, status |-> status]]
  /\ UNCHANGED <<queue, texts, serviceVars>>

\* save has a context of its own.
Save ==
  /\ worker.pc = "save" /\ worker' = Resting
  /\ \/ texts' = [texts EXCEPT ![worker.task.id] = worker.text] /\ UNCHANGED errors
     \/ Error /\ UNCHANGED texts
  /\ UNCHANGED <<queue, serviceVars>>

Process == Take \/ Load \/ Reuse \/ Generate \/ Save

-----------------------------------------------------------------------------
(* Close, and the end of the process.                                      *)

Cancel ==
  /\ closing = "open" /\ closing' = "cancelled"
  /\ UNCHANGED <<queue, worker, texts, readers, errors>>

\* Lock, closed = true, and close(queue) with Unlock.
CloseQueue ==
  /\ \/ closing = "cancelled" /\ closing' = "waiting"
     \/ closing = "waiting" /\ MayWrite /\ closing' = "locked"
     \/ closing = "locked" /\ closing' = "marked"
     \/ closing = "marked" /\ closing' = "closed"
  /\ UNCHANGED <<queue, worker, texts, readers, errors>>

\* wg.Wait is over.
Closed == closing = "closed" /\ worker.pc = "ended"

\* What a new process starts with.
NewProcess ==
  /\ queue' = <<>> /\ worker' = Resting /\ closing' = "open" /\ readers' = {}
  /\ UNCHANGED <<texts, errors>>

-----------------------------------------------------------------------------
(* What must hold.                                                         *)

\* The model is never asked, and paid, for what the table already has a completed
\* text for, however often an anomaly is submitted or recomputed under a new ID.
NeverAsksAgain ==
  worker.pc = "generate" =>
    \A id \in Ids : texts[id] # [input |-> worker.task.input, status |-> "completed"]

\* Nobody stands before a send when Close has closed the channel, though ingestion jobs
\* go on submitting during a shutdown: the send would panic.
NoSendOnClosed == closing = "closed" => readers = {}
=============================================================================
