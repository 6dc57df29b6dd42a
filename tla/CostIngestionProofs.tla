------------------------ MODULE CostIngestionProofs ------------------------
(***************************************************************************)
(* Proofs about CostIngestion, for every set of callers, objects and       *)
(* export contents, and whatever fails or crashes: the types, and what the *)
(* ingestion does to the rows of cost_records: no row twice, no two        *)
(* versions of an export side by side, every step one of                   *)
(* SourceReplacement, a marked report complete, and every row in the       *)
(* summaries once the run is over.                                         *)
(***************************************************************************)
EXTENDS CostIngestion, NaturalFacts

-----------------------------------------------------------------------------
(* The structure of a run.                                                 *)

\* A caller that is inside Run holds the lock.
RunsHoldLock == \A c \in Callers : phase[c] # "idle" => runMu = c

\* A collector works only while its Run waits for it.
WorkersInRun == \A w \in Workers : col[w].pc # "done" => phase[w[1]] = "collect"

\* What a collector has listed exists.
ListedExists ==
  \A w \in Workers : \A x \in col[w].todo :
    x[1] \in ObjectsOf(w[2]) /\ x[2] <= bucket[x[1]]

\* The collector is between the download of an object and its mark or cleanup.
Busy(w) == col[w].pc \in {"parse", "delete", "store", "mark", "cleanup"}

\* It reads the object, or has read it.
Reading(w) == col[w].pc \in {"parse", "delete", "store", "mark"}

\* The collector has deleted the old rows of the object it holds.
Cleared(w) ==
  col[w].pc \in {"store", "mark"} \/ (col[w].pc = "parse" /\ ~col[w].first)

\* The object a collector holds is one of its provider's; it got the listed
\* version or a later one, and the buffer holds no row that is still to come.
HeldExists ==
  \A w \in Workers : Busy(w) =>
    /\ col[w].obj \in ObjectsOf(w[2])
    /\ col[w].ver \in Versions /\ col[w].got \in Versions
    /\ col[w].ver <= col[w].got /\ col[w].got <= bucket[col[w].obj]
    /\ col[w].left \cap col[w].batch = {}

Structure == TypeOK /\ RunsHoldLock /\ WorkersInRun /\ ListedExists /\ HeldExists

\* Nothing runs at first.
LEMMA InitStructure == Init => Structure
BY ConstantsAssumption DEF Init, Structure, TypeOK, RunsHoldLock, WorkersInRun,
  ListedExists, HeldExists, Busy, IdleWorker, WorkerState, PCs, Phases, Days, Workers

\* What the worker's own record has to satisfy after a step.
WorkerFits(w, s) ==
  /\ s \in WorkerState
  /\ \A x \in s.todo : x[1] \in ObjectsOf(w[2]) /\ x[2] <= bucket[x[1]]
  /\ s.pc \in {"parse", "delete", "store", "mark", "cleanup"} =>
       /\ s.obj \in ObjectsOf(w[2])
       /\ s.ver \in Versions /\ s.got \in Versions
       /\ s.ver <= s.got /\ s.got <= bucket[s.obj]
       /\ s.left \cap s.batch = {}

\* A collector that leaves an object keeps a record that fits.
LEMMA LeaveFits ==
  ASSUME Structure, NEW w \in Workers, NEW pc \in {"done", "next"}, NEW n,
         pc = "next" => n \in 0..(MaxConsecutiveObjectFailures - 1)
  PROVE  WorkerFits(w, Leave(w, pc, n))
<1>1. col[w] \in WorkerState BY DEF Structure, TypeOK
<1>2. IdleWorker \in WorkerState
  BY ConstantsAssumption DEF IdleWorker, WorkerState, PCs
<1>3. CASE pc = "done"
  BY <1>2, <1>3 DEF Leave, WorkerFits, IdleWorker
<1>4. CASE pc = "next"
  <2> DEFINE s == Leave(w, pc, n)
  <2>1. s \in WorkerState
    BY <1>1, <1>2, <1>4 DEF Leave, IdleWorker, WorkerState, PCs
  <2>2. s.pc = "next" /\ s.todo = col[w].todo
    BY <1>4 DEF Leave, IdleWorker
  <2> QED BY <2>1, <2>2 DEF WorkerFits, Structure, ListedExists
<1> QED BY <1>3, <1>4

\* So does one that goes on with the next object, its failures forgotten.
LEMMA NextObjectFits ==
  ASSUME Structure, NEW w \in Workers
  PROVE  WorkerFits(w, Leave(w, "next", 0))
<1>1. 0 \in 0..(MaxConsecutiveObjectFailures - 1)
  BY ConstantsAssumption
<1> QED BY <1>1, LeaveFits

\* So does one whose object failed.
LEMMA AfterFailureFits ==
  ASSUME Structure, NEW w \in Workers
  PROVE  WorkerFits(w, AfterFailure(w))
<1>1. FailuresAfter(w) \in Nat
  BY ConstantsAssumption DEF Structure, TypeOK, FailuresAfter, WorkerState
<1>2. ~FailureLimitReached(w) => FailuresAfter(w) \in 0..(MaxConsecutiveObjectFailures - 1)
  BY <1>1, ConstantsAssumption DEF FailureLimitReached
<1> QED BY <1>2, LeaveFits DEF AfterFailure

\* An error leads to the cleanup of the object or out of it.
LEMMA HandleErrorFits ==
  ASSUME Structure, NEW w \in Workers, Busy(w), HandleError(w)
  PROVE  /\ failed' = [failed EXCEPT ![w[1]] = TRUE]
         /\ \E s : WorkerFits(w, s) /\ col' = [col EXCEPT ![w] = s]
<1>1. CASE w[2] = "oci" \/ ~col[w].first
  <2> DEFINE s == [col[w] EXCEPT !.pc = "cleanup", !.left = {}, !.batch = {}]
  <2>1. col' = [col EXCEPT ![w] = s]
    BY <1>1 DEF HandleError
  <2>2. col[w] \in WorkerState BY DEF Structure, TypeOK
  <2>3. s \in WorkerState BY <2>2 DEF WorkerState, PCs
  <2>4. /\ s.todo = col[w].todo /\ s.obj = col[w].obj /\ s.ver = col[w].ver
        /\ s.got = col[w].got /\ s.left = {}
    BY <2>2 DEF WorkerState
  <2>5. WorkerFits(w, s)
    BY <2>3, <2>4 DEF Structure, ListedExists, HeldExists, Busy, WorkerFits
  <2> QED BY <2>1, <2>5 DEF HandleError, Fail
<1>2. CASE ~(w[2] = "oci" \/ ~col[w].first)
  <2>1. col' = [col EXCEPT ![w] = Leave(w, "next", 0)] BY <1>2 DEF HandleError
  <2> QED BY <2>1, NextObjectFits DEF HandleError, Fail
<1> QED BY <1>1, <1>2

\* So does one whose parser never ends: it is no longer at work on its object.
LEMMA StreamBreaksFits ==
  ASSUME Structure, NEW w \in Workers, StreamBreaks(w)
  PROVE  /\ failed' = failed
         /\ \E s : WorkerFits(w, s) /\ col' = [col EXCEPT ![w] = s]
<1> DEFINE s == [col[w] EXCEPT !.pc = "stuck", !.left = {}]
<1>1. col' = [col EXCEPT ![w] = s]
  BY DEF StreamBreaks
<1>2. col[w] \in WorkerState BY DEF Structure, TypeOK
<1>3. s \in WorkerState BY <1>2 DEF WorkerState, PCs
<1>4. s.todo = col[w].todo /\ s.pc = "stuck"
  BY <1>2 DEF WorkerState
<1>5. WorkerFits(w, s)
  BY <1>3, <1>4 DEF Structure, ListedExists, WorkerFits
<1> QED BY <1>1, <1>5 DEF StreamBreaks

\* After that the collector neither reads nor writes.
LEMMA StuckReadsNothing ==
  ASSUME Structure, NEW w \in Workers, StreamBreaks(w)
  PROVE  /\ col'[w].pc = "stuck" /\ col'[w].todo = col[w].todo
         /\ ~Busy(w)' /\ ~Reading(w)' /\ ~Cleared(w)'
<1>1. col'[w].pc = "stuck" /\ col'[w].todo = col[w].todo
  BY DEF StreamBreaks, Structure, TypeOK, WorkerState
<1> QED BY <1>1 DEF Busy, Reading, Cleared

\* Worker w takes a step: its record changes to one that fits, and the run, the
\* clock and the clouds stay.
WorkerMoves(w) ==
  /\ phase[w[1]] = "collect"
  /\ UNCHANGED <<today, bucket, runMu, phase, daily, monthly>>
  /\ \E s : WorkerFits(w, s) /\ col' = [col EXCEPT ![w] = s]
  /\ failed' \in [Callers -> BOOLEAN]
  /\ inserted' \in [Callers -> SUBSET Days]
  /\ stored' \in [Row -> Nat]
  /\ processed' \subseteq Objects \X Versions
  /\ unacked' \subseteq Objects \X Versions
  /\ lost' \subseteq Days

\* A collector that has dropped an object from its list and counted it is well typed.
LEMMA SkippedIsWorkerState ==
  ASSUME NEW r \in WorkerState, NEW x
  PROVE  [r EXCEPT !.todo = @ \ {x}, !.started = @ + 1] \in WorkerState
<1> DEFINE n  == r.started + 1
           r1 == [r EXCEPT !.todo = r.todo \ {x}]
           r2 == [r1 EXCEPT !.started = n]
<1>1. r1 \in WorkerState /\ r1.started = r.started /\ n \in Nat
  BY DEF WorkerState
<1>2. r2 \in WorkerState
  <2> HIDE DEF r1, n
  <2> QED BY <1>1 DEF WorkerState
<1> QED BY <1>1, <1>2

\* The listing and the loop head move the collector and nothing of the run.
LEMMA LoopMoves ==
  ASSUME Structure, NEW w \in Workers,
         ListObjects(w) \/ SkipObject(w) \/ GetObject(w) \/ EndLoop(w)
  PROVE  WorkerMoves(w)
<1> USE ConstantsAssumption
<1>1. /\ col[w] \in WorkerState /\ w[1] \in Callers
      /\ failed \in [Callers -> BOOLEAN] /\ inserted \in [Callers -> SUBSET Days]
      /\ stored \in [Row -> Nat] /\ bucket \in [Objects -> 0..MaxVersion]
      /\ processed \subseteq Objects \X Versions /\ unacked \subseteq Objects \X Versions
      /\ lost \subseteq Days
      /\ ObjectsOf(w[2]) \subseteq Objects
      /\ \A x \in col[w].todo : x[1] \in ObjectsOf(w[2]) /\ x[2] <= bucket[x[1]]
  BY DEF Structure, TypeOK, Workers, ListedExists, ObjectsOf, Objects
<1>2. WorkerFits(w, IdleWorker)
  BY LeaveFits DEF Leave
<1>3. SUFFICES \E s : WorkerFits(w, s) /\ col' = [col EXCEPT ![w] = s]
  BY <1>1 DEF WorkerMoves, summaryVars, ListObjects, SkipObject, GetObject, EndLoop, At, Fail,
    storeVars, markVars, cloudVars
<1>4. CASE ListObjects(w)
  <2>1. ASSUME NEW seen \in SUBSET {o \in ObjectsOf(w[2]) : bucket[o] > 0},
               col' = [col EXCEPT ![w] = [@ EXCEPT
                         !.pc = "next", !.todo = {<<o, bucket[o]>> : o \in seen}]]
        PROVE  \E s : WorkerFits(w, s) /\ col' = [col EXCEPT ![w] = s]
    <3> DEFINE listed == {<<o, bucket[o]>> : o \in seen}
               s == [col[w] EXCEPT !.pc = "next", !.todo = listed]
    <3>1. listed \subseteq Objects \X Versions
      BY <1>1 DEF Versions
    <3>2. s \in WorkerState /\ s.pc = "next" /\ s.todo = listed
      BY <1>1, <3>1 DEF WorkerState, PCs
    <3>3. \A x \in listed : x[1] \in ObjectsOf(w[2]) /\ x[2] <= bucket[x[1]]
      BY <1>1
    <3>4. WorkerFits(w, s)
      BY <3>2, <3>3 DEF WorkerFits
    <3> QED BY <2>1, <3>4
  <2> QED BY <1>2, <1>4, <2>1 DEF ListObjects
<1>5. CASE SkipObject(w)
  <2>1. PICK x \in col[w].todo : col' = [col EXCEPT ![w].todo = @ \ {x}]
    BY <1>5 DEF SkipObject
  <2> DEFINE s == [col[w] EXCEPT !.todo = @ \ {x}]
  <2>2. s \in WorkerState /\ s.pc = "next" /\ s.todo = col[w].todo \ {x}
    BY <1>1, <1>5 DEF WorkerState, SkipObject, At
  <2>3. WorkerFits(w, s)
    BY <1>1, <2>2 DEF WorkerFits
  <2> QED BY <2>1, <2>3
<1>6. CASE GetObject(w)
  <2>1. PICK x \in col[w].todo :
          \/ col' = [col EXCEPT ![w] = Opened(w, x)]
          \/ col' = [col EXCEPT ![w] =
                  IF AfterFailure(w).pc = "done" THEN IdleWorker
                  ELSE [AfterFailure(w) EXCEPT !.todo = @ \ {x}, !.started = @ + 1]]
    BY <1>6 DEF GetObject
  <2>2. /\ x \in Objects \X Versions /\ x[1] \in ObjectsOf(w[2])
        /\ x[2] <= bucket[x[1]] /\ col[w].todo \subseteq Objects \X Versions
        /\ bucket[x[1]] \in Versions
    BY <1>1 DEF WorkerState, Versions
  <2>3. CASE col' = [col EXCEPT ![w] = Opened(w, x)]
    <3>1. Parsed(x[1], bucket[x[1]]) \in SUBSET Days
      BY <2>2, ConstantsAssumption DEF Parsed
    <3>2. Opened(w, x) \in WorkerState
      BY <1>1, <2>2, <3>1 DEF WorkerState, PCs, Versions, Opened
    <3>3. WorkerFits(w, Opened(w, x))
      BY <1>1, <2>2, <3>2 DEF WorkerFits, Opened
    <3> QED BY <2>3, <3>3
  <2>4. CASE col' = [col EXCEPT ![w] =
                  IF AfterFailure(w).pc = "done" THEN IdleWorker
                  ELSE [AfterFailure(w) EXCEPT !.todo = @ \ {x}, !.started = @ + 1]]
    <3>1. CASE AfterFailure(w).pc = "done"
      BY <1>2, <2>4, <3>1
    <3>2. CASE AfterFailure(w).pc # "done"
      <4> DEFINE s == [AfterFailure(w) EXCEPT !.todo = @ \ {x}, !.started = @ + 1]
      <4>1. AfterFailure(w) \in WorkerState /\ AfterFailure(w).pc = "next"
        BY <3>2, AfterFailureFits DEF WorkerFits, AfterFailure, Leave, IdleWorker
      <4>2. /\ s.pc = "next" /\ s.todo = AfterFailure(w).todo \ {x}
            /\ s.started = AfterFailure(w).started + 1
        BY <4>1 DEF WorkerState
      <4>4. s \in WorkerState
        BY <4>1, SkippedIsWorkerState
      <4>3. WorkerFits(w, s)
        BY <1>1, <4>2, <4>4, AfterFailureFits DEF WorkerFits
      <4> QED BY <2>4, <3>2, <4>3
    <3> QED BY <3>1, <3>2
  <2> QED BY <2>1, <2>3, <2>4
<1>7. CASE EndLoop(w)
  BY <1>2, <1>7 DEF EndLoop
<1> QED BY <1>4, <1>5, <1>6, <1>7

\* So does the parser, whatever batch it cuts off,
LEMMA ParseMoves ==
  ASSUME Structure, NEW w \in Workers, ParseStream(w)
  PROVE  WorkerMoves(w)
<1> USE ConstantsAssumption
<1>1. /\ col[w] \in WorkerState /\ w[1] \in Callers /\ Busy(w)
      /\ failed \in [Callers -> BOOLEAN] /\ inserted \in [Callers -> SUBSET Days]
      /\ stored \in [Row -> Nat]
      /\ processed \subseteq Objects \X Versions /\ unacked \subseteq Objects \X Versions
      /\ lost \subseteq Days
      /\ \A x \in col[w].todo : x[1] \in ObjectsOf(w[2]) /\ x[2] <= bucket[x[1]]
  BY DEF Structure, TypeOK, Workers, ListedExists, ParseStream, At, Busy
<1>2. SUFFICES /\ \E s : WorkerFits(w, s) /\ col' = [col EXCEPT ![w] = s]
               /\ failed' \in [Callers -> BOOLEAN]
  BY <1>1 DEF WorkerMoves, summaryVars, ParseStream, At, storeVars, markVars, cloudVars
<1>3. CASE \E b \in SUBSET col[w].left : FlushBatch(w, b) /\ UNCHANGED failed
  <2>1. PICK b \in SUBSET col[w].left : FlushBatch(w, b) /\ UNCHANGED failed
    BY <1>3
  <2> DEFINE pc == IF col[w].first THEN "delete" ELSE "store"
             s == [col[w] EXCEPT !.pc = pc, !.batch = b, !.left = @ \ b]
  <2>2. col' = [col EXCEPT ![w] = s]
    BY <1>1, <2>1 DEF FlushBatch
  <2>3. /\ s \in WorkerState /\ s.todo = col[w].todo /\ s.obj = col[w].obj
        /\ s.ver = col[w].ver /\ s.got = col[w].got
        /\ s.left = col[w].left \ b /\ s.batch = b
    BY <1>1 DEF WorkerState, PCs
  <2>4. WorkerFits(w, s)
    BY <1>1, <2>3 DEF WorkerFits, Structure, HeldExists
  <2> QED BY <1>1, <2>1, <2>2, <2>4
<1>4. CASE /\ col' = [col EXCEPT ![w].pc = IF col[w].first THEN "delete" ELSE "mark",
                                 ![w].batch = {}]
           /\ UNCHANGED failed
  <2> DEFINE pc == IF col[w].first THEN "delete" ELSE "mark"
             s == [col[w] EXCEPT !.pc = pc, !.batch = {}]
  <2>2. col' = [col EXCEPT ![w] = s]
    BY <1>1, <1>4
  <2>3. /\ s \in WorkerState /\ s.todo = col[w].todo /\ s.obj = col[w].obj
        /\ s.ver = col[w].ver /\ s.got = col[w].got
        /\ s.left = col[w].left /\ s.batch = {}
    BY <1>1 DEF WorkerState, PCs
  <2>4. WorkerFits(w, s)
    BY <1>1, <2>3 DEF WorkerFits, Structure, HeldExists
  <2> QED BY <1>1, <1>4, <2>2, <2>4
<1>5. CASE HandleError(w)
  BY <1>1, <1>5, HandleErrorFits
<1>6. CASE StreamBreaks(w)
  BY <1>1, <1>6, StreamBreaksFits
<1> QED BY <1>3, <1>4, <1>5, <1>6 DEF ParseStream, ParserFails

\* The worker goes on with its object: only its step, its buffer and the flag of
\* the first batch change.
LEMMA GoesOnFits ==
  ASSUME Structure, NEW w \in Workers, Busy(w), NEW pc \in PCs, NEW first \in BOOLEAN,
         NEW batch \in SUBSET col[w].batch
  PROVE  WorkerFits(w, [col[w] EXCEPT !.pc = pc, !.first = first, !.batch = batch])
<1> DEFINE s == [col[w] EXCEPT !.pc = pc, !.first = first, !.batch = batch]
<1>1. col[w] \in WorkerState BY DEF Structure, TypeOK
<1>2. /\ s \in WorkerState /\ s.todo = col[w].todo /\ s.obj = col[w].obj
      /\ s.ver = col[w].ver /\ s.got = col[w].got
      /\ s.left = col[w].left /\ s.batch \subseteq col[w].batch
  BY <1>1 DEF WorkerState
<1> QED BY <1>2 DEF WorkerFits, Structure, HeldExists, ListedExists, Busy

\* the delete before the first batch,
LEMMA DeleteMoves ==
  ASSUME Structure, NEW w \in Workers, DeleteFirst(w)
  PROVE  WorkerMoves(w)
<1>1. /\ col[w] \in WorkerState /\ w[1] \in Callers /\ Busy(w)
      /\ failed \in [Callers -> BOOLEAN] /\ inserted \in [Callers -> SUBSET Days]
      /\ stored \in [Row -> Nat]
      /\ processed \subseteq Objects \X Versions /\ unacked \subseteq Objects \X Versions
      /\ lost \subseteq Days
  BY DEF Structure, TypeOK, Workers, DeleteFirst, At, Busy
<1>2. stored' \in [Row -> Nat]
  BY <1>1 DEF DeleteFirst, Statement, DeleteCostRecordsForSource
<1>3. SUFFICES /\ \E s : WorkerFits(w, s) /\ col' = [col EXCEPT ![w] = s]
               /\ failed' \in [Callers -> BOOLEAN]
  BY <1>1, <1>2 DEF WorkerMoves, summaryVars, DeleteFirst, At, markVars, cloudVars
<1>4. CASE HandleError(w)
  BY <1>1, <1>4, HandleErrorFits
<1>5. CASE /\ col' = [col EXCEPT ![w].pc = IF col[w].batch = {} THEN "mark" ELSE "store"]
           /\ UNCHANGED failed
  <2> DEFINE pc == IF col[w].batch = {} THEN "mark" ELSE "store"
             s == [col[w] EXCEPT !.pc = pc, !.first = col[w].first, !.batch = col[w].batch]
  <2>1. col' = [col EXCEPT ![w] = s]
    BY <1>1, <1>5 DEF WorkerState
  <2>2. WorkerFits(w, s)
    BY <1>1, GoesOnFits DEF PCs, WorkerState
  <2> QED BY <1>1, <1>5, <2>1, <2>2
<1> QED BY <1>4, <1>5 DEF DeleteFirst, Statement

\* the insert of a batch, whose days the run notes, or loses,
LEMMA StoreMoves ==
  ASSUME Structure, NEW w \in Workers, StoreBatch(w)
  PROVE  WorkerMoves(w)
<1> DEFINE days == WithinLookback(col[w].batch)
<1>1. /\ col[w] \in WorkerState /\ w[1] \in Callers /\ Busy(w)
      /\ failed \in [Callers -> BOOLEAN] /\ inserted \in [Callers -> SUBSET Days]
      /\ stored \in [Row -> Nat]
      /\ processed \subseteq Objects \X Versions /\ unacked \subseteq Objects \X Versions
      /\ lost \subseteq Days
      /\ days \subseteq Days
  BY DEF Structure, TypeOK, Workers, StoreBatch, At, Busy, WithinLookback, WorkerState
<1>2. stored' \in [Row -> Nat]
  BY <1>1 DEF StoreBatch, Statement, StoreCostRecords
<1>3. inserted' \in [Callers -> SUBSET Days] /\ lost' \subseteq Days
  BY <1>1 DEF StoreBatch, Statement
<1>4. SUFFICES /\ \E s : WorkerFits(w, s) /\ col' = [col EXCEPT ![w] = s]
               /\ failed' \in [Callers -> BOOLEAN]
  BY <1>1, <1>2, <1>3 DEF WorkerMoves, summaryVars, StoreBatch, At, markVars, cloudVars
<1>5. CASE HandleError(w)
  BY <1>1, <1>5, HandleErrorFits
<1>6. CASE /\ col' = [col EXCEPT ![w].pc = "parse", ![w].first = FALSE, ![w].batch = {}]
           /\ UNCHANGED failed
  <2> DEFINE s == [col[w] EXCEPT !.pc = "parse", !.first = FALSE, !.batch = {}]
  <2>1. col' = [col EXCEPT ![w] = s]
    BY <1>1, <1>6
  <2>2. WorkerFits(w, s)
    BY <1>1, GoesOnFits DEF PCs, WorkerState
  <2> QED BY <1>1, <1>6, <2>1, <2>2
<1> QED BY <1>5, <1>6 DEF StoreBatch, Statement

\* the mark of the finished object,
LEMMA MarkMoves ==
  ASSUME Structure, NEW w \in Workers, MarkProcessed(w)
  PROVE  WorkerMoves(w)
<1> DEFINE mark == <<col[w].obj, col[w].ver>>
<1>1. /\ col[w] \in WorkerState /\ w[1] \in Callers /\ Busy(w)
      /\ failed \in [Callers -> BOOLEAN] /\ inserted \in [Callers -> SUBSET Days]
      /\ stored \in [Row -> Nat]
      /\ processed \subseteq Objects \X Versions /\ unacked \subseteq Objects \X Versions
      /\ lost \subseteq Days
  BY DEF Structure, TypeOK, Workers, MarkProcessed, At, Busy
<1>2. mark \in Objects \X Versions
  BY <1>1 DEF Structure, HeldExists, ObjectsOf, Objects
<1>3. processed' \subseteq Objects \X Versions /\ unacked' \subseteq Objects \X Versions
  BY <1>1, <1>2 DEF MarkProcessed, Statement, MarkReportProcessed
<1>4. SUFFICES /\ \E s : WorkerFits(w, s) /\ col' = [col EXCEPT ![w] = s]
               /\ failed' \in [Callers -> BOOLEAN]
  BY <1>1, <1>3 DEF WorkerMoves, summaryVars, MarkProcessed, At, cloudVars
<1>5. CASE HandleError(w)
  BY <1>1, <1>5, HandleErrorFits
<1>6. CASE col' = [col EXCEPT ![w] = Leave(w, "next", 0)] /\ UNCHANGED failed
  BY <1>1, <1>6, NextObjectFits
<1> QED BY <1>5, <1>6 DEF MarkProcessed, Statement

\* and the cleanup after a failure.
LEMMA CleanupMoves ==
  ASSUME Structure, NEW w \in Workers, CleanupPartialIngest(w)
  PROVE  WorkerMoves(w)
<1>1. stored \in [Row -> Nat] BY DEF Structure, TypeOK
<1>2. stored' \in [Row -> Nat]
  BY <1>1 DEF CleanupPartialIngest, DeleteCostRecordsForSource
<1> QED BY <1>2, AfterFailureFits DEF CleanupPartialIngest, WorkerMoves, At, Structure,
  TypeOK, markVars, cloudVars, summaryVars, runVars

\* Every step of a collector is one of these.
LEMMA WorkerStep ==
  ASSUME Structure, NEW w \in Workers, Worker(w)
  PROVE  WorkerMoves(w)
BY LoopMoves, ParseMoves, DeleteMoves, StoreMoves, MarkMoves, CleanupMoves DEF Worker

\* A collector that moves keeps the structure of the run.
LEMMA WorkerKeepsStructure ==
  ASSUME Structure, NEW w \in Workers, WorkerMoves(w)
  PROVE  Structure'
<1>1. PICK s : WorkerFits(w, s) /\ col' = [col EXCEPT ![w] = s]
  BY DEF WorkerMoves
<1>2. /\ col \in [Workers -> WorkerState] /\ s \in WorkerState
      /\ \A v \in Workers : col'[v] = IF v = w THEN s ELSE col[v]
  BY <1>1 DEF Structure, TypeOK, WorkerFits
<1>3. TypeOK'
  BY <1>1, <1>2 DEF Structure, TypeOK, WorkerMoves
<1>4. RunsHoldLock' /\ WorkersInRun'
  BY <1>2 DEF Structure, RunsHoldLock, WorkersInRun, WorkerMoves
<1>5. ListedExists'
  BY <1>1, <1>2 DEF Structure, ListedExists, WorkerMoves, WorkerFits, ObjectsOf
<1>6. HeldExists'
  <2> SUFFICES ASSUME NEW v \in Workers, Busy(v)'
               PROVE  /\ col'[v].obj \in ObjectsOf(v[2])
                      /\ col'[v].ver \in Versions /\ col'[v].got \in Versions
                      /\ col'[v].ver <= col'[v].got
                      /\ col'[v].got <= bucket'[col'[v].obj]
                      /\ col'[v].left \cap col'[v].batch = {}
    BY DEF HeldExists, ObjectsOf
  <2>1. bucket' = bucket BY DEF WorkerMoves
  <2>2. CASE v = w
    BY <1>1, <1>2, <2>1, <2>2 DEF WorkerFits, Busy
  <2>3. CASE v # w
    BY <1>2, <2>1, <2>3 DEF Structure, HeldExists, Busy
  <2> QED BY <2>2, <2>3
<1> QED BY <1>3, <1>4, <1>5, <1>6 DEF Structure

\* The refresh covers days of the model.
LEMMA FromDayIsDays == \A c \in Callers : FromDay(c) \subseteq Days
BY DEF FromDay

\* An expiry of summaries or a recomputation yields rows.
LEMMA SummariesAreRows ==
  ASSUME NEW rows \in SUBSET Row, NEW from
  PROVE  /\ Recomputed(rows, from) \subseteq Row
         /\ PrunedDaily(rows) \subseteq Row /\ PrunedMonthly(rows) \subseteq Row
BY DEF Recomputed, InStore, PrunedDaily, PrunedMonthly

\* The end of a run keeps it too,
LEMMA TailKeepsStructure ==
  ASSUME Structure, NEW c \in Callers, RunTail(c)
  PROVE  Structure'
<1> USE DEF Structure
<1>1. CASE WaitCollectors(c)
  <2>1. TypeOK'
    BY <1>1 DEF WaitCollectors, TypeOK, cloudVars, storeVars, markVars, summaryVars, Phases
  <2>2. WorkersInRun'
    <3>1. ASSUME NEW w \in Workers, col[w].pc # "done"
          PROVE  w[1] # c
      BY <1>1, <3>1 DEF WaitCollectors, Workers
    <3> QED BY <1>1, <3>1 DEF WaitCollectors, WorkersInRun, TypeOK, Workers
  <2>3. RunsHoldLock' /\ ListedExists' /\ HeldExists'
    BY <1>1 DEF WaitCollectors, RunsHoldLock, ListedExists, HeldExists, Busy, ObjectsOf,
      TypeOK, cloudVars
  <2> QED BY <2>1, <2>2, <2>3
<1>2. CASE RefreshDashboard(c)
  <2>1. /\ daily' \subseteq Row /\ monthly' \subseteq Row
        /\ lost' \subseteq Days /\ failed' \in [Callers -> BOOLEAN]
    BY <1>2, SummariesAreRows, FromDayIsDays DEF RefreshDashboard, TypeOK, Fail
  <2>2. TypeOK'
    BY <1>2, <2>1 DEF RefreshDashboard, TypeOK, cloudVars, storeVars, markVars, Phases
  <2>3. RunsHoldLock' /\ WorkersInRun' /\ ListedExists' /\ HeldExists'
    BY <1>2 DEF RefreshDashboard, RunsHoldLock, WorkersInRun, ListedExists, HeldExists, Busy,
      ObjectsOf, TypeOK, Workers, cloudVars
  <2> QED BY <2>2, <2>3
<1>3. CASE PruneRecords(c)
  <2>1. stored' \in [Row -> Nat]
    BY <1>3 DEF PruneRecords, TypeOK
  <2>5. failed' \in [Callers -> BOOLEAN]
    BY <1>3 DEF PruneRecords, TypeOK, Fail
  <2>2. TypeOK'
    BY <1>3, <2>1, <2>5 DEF PruneRecords, TypeOK, cloudVars, markVars, summaryVars,
      Phases, Unlock
  <2>3. RunsHoldLock'
    BY <1>3, ConstantsAssumption DEF PruneRecords, RunsHoldLock, TypeOK, Unlock
  <2>4. WorkersInRun' /\ ListedExists' /\ HeldExists'
    BY <1>3 DEF PruneRecords, WorkersInRun, ListedExists, HeldExists, Busy,
      ObjectsOf, TypeOK, Workers, cloudVars
  <2> QED BY <2>2, <2>3, <2>4
<1>4. CASE PruneAnalytics(c)
  <2>1. /\ daily' \subseteq Row /\ monthly' \subseteq Row
        /\ failed' \in [Callers -> BOOLEAN]
    BY <1>4, SummariesAreRows DEF PruneAnalytics, TypeOK, Fail
  <2>2. TypeOK'
    BY <1>4, <2>1 DEF PruneAnalytics, TypeOK, cloudVars, storeVars, markVars, Phases, Unlock
  <2>3. RunsHoldLock'
    BY <1>4, ConstantsAssumption DEF PruneAnalytics, RunsHoldLock, TypeOK, Unlock
  <2>4. WorkersInRun' /\ ListedExists' /\ HeldExists'
    BY <1>4 DEF PruneAnalytics, WorkersInRun, ListedExists, HeldExists, Busy,
      ObjectsOf, TypeOK, Workers, cloudVars
  <2> QED BY <2>2, <2>3, <2>4
<1> QED BY <1>1, <1>2, <1>3, <1>4 DEF RunTail

\* and so does every step.
LEMMA StructureStep == Structure /\ [Next]_vars => Structure'
<1> SUFFICES ASSUME Structure, [Next]_vars PROVE Structure'
  OBVIOUS
<1>1. CASE Tick
  BY <1>1, ConstantsAssumption DEF Tick, Structure, TypeOK, RunsHoldLock, WorkersInRun,
    ListedExists, HeldExists, Busy, ObjectsOf, Days, storeVars, markVars, summaryVars, runVars
<1>2. CASE Crash
  <2>1. lost' \subseteq Days
    BY <1>2, FromDayIsDays DEF Crash, Structure, TypeOK
  <2>2. TypeOK' /\ \A w \in Workers : col'[w] = IdleWorker
    BY <1>2, <2>1, ConstantsAssumption DEF Crash, Structure, TypeOK, cloudVars, storeVars,
      markVars, Phases, IdleWorker, WorkerState, PCs
  <2>3. RunsHoldLock' /\ WorkersInRun' /\ ListedExists' /\ HeldExists'
    BY <1>2, <2>2 DEF Crash, RunsHoldLock, WorkersInRun, ListedExists, HeldExists, Busy,
      IdleWorker
  <2> QED BY <2>2, <2>3 DEF Structure
<1>3. ASSUME NEW o \in Objects, Upload(o) PROVE Structure'
  <2>1. /\ bucket' \in [Objects -> 0..MaxVersion]
        /\ \A q \in Objects : bucket[q] <= bucket'[q]
    BY <1>3, ConstantsAssumption DEF Upload, Structure, TypeOK
  <2>2. TypeOK' /\ RunsHoldLock' /\ WorkersInRun'
    BY <1>3, <2>1 DEF Upload, Structure, TypeOK, RunsHoldLock, WorkersInRun, storeVars,
      markVars, summaryVars, runVars
  <2>3. \A w \in Workers : col'[w] = col[w] /\ ObjectsOf(w[2]) \subseteq Objects
                           /\ col[w] \in WorkerState
    BY <1>3 DEF Upload, ObjectsOf, Objects, Structure, TypeOK
  <2>4. ListedExists'
    <3> SUFFICES ASSUME NEW w \in Workers, NEW x \in col[w].todo
                 PROVE  x[1] \in ObjectsOf(w[2]) /\ x[2] <= bucket'[x[1]]
      BY <2>3 DEF ListedExists, ObjectsOf
    <3>1. x[1] \in ObjectsOf(w[2]) /\ x[1] \in Objects /\ x[2] \in Versions
          /\ x[2] <= bucket[x[1]]
      BY <2>3 DEF Structure, ListedExists, WorkerState
    <3> QED BY <2>1, <3>1, ConstantsAssumption DEF Structure, TypeOK, Versions
  <2>5. HeldExists'
    <3> SUFFICES ASSUME NEW w \in Workers, Busy(w)
                 PROVE  /\ col[w].obj \in ObjectsOf(w[2])
                        /\ col[w].ver \in Versions /\ col[w].got \in Versions
                        /\ col[w].ver <= col[w].got
                        /\ col[w].got <= bucket'[col[w].obj]
                        /\ col[w].left \cap col[w].batch = {}
      BY <2>3 DEF HeldExists, Busy, ObjectsOf
    <3>1. /\ col[w].obj \in ObjectsOf(w[2]) /\ col[w].obj \in Objects
          /\ col[w].got \in Versions /\ col[w].got <= bucket[col[w].obj]
      BY <2>3 DEF Structure, HeldExists
    <3>2. col[w].got <= bucket'[col[w].obj]
      BY <2>1, <3>1, ConstantsAssumption DEF Structure, TypeOK, Versions
    <3> QED BY <3>2 DEF Structure, HeldExists
  <2> QED BY <2>2, <2>4, <2>5 DEF Structure
<1>4. ASSUME NEW c \in Callers, StartRun(c) PROVE Structure'
  <2>1. \A w \in Workers : col'[w] = IF w[1] = c THEN [IdleWorker EXCEPT !.pc = "list"]
                                     ELSE col[w]
    BY <1>4 DEF StartRun
  <2>6. IdleWorker \in WorkerState
    BY ConstantsAssumption DEF IdleWorker, WorkerState, PCs
  <2>2. [IdleWorker EXCEPT !.pc = "list"] \in WorkerState
    BY <2>6 DEF WorkerState, PCs
  <2>3. TypeOK'
    BY <1>4, <2>2 DEF StartRun, Structure, TypeOK, cloudVars, storeVars, markVars,
      summaryVars, Phases
  <2>4. RunsHoldLock' /\ WorkersInRun'
    BY <1>4, <2>1, ConstantsAssumption DEF StartRun, TryLock, Structure, TypeOK,
      RunsHoldLock, WorkersInRun, Workers
  <2>5. ListedExists' /\ HeldExists'
    BY <1>4, <2>1 DEF StartRun, Structure, ListedExists, HeldExists, Busy, IdleWorker,
      ObjectsOf, cloudVars
  <2> QED BY <2>3, <2>4, <2>5 DEF Structure
<1>5. ASSUME NEW c \in Callers, RunTail(c) PROVE Structure'
  BY <1>5, TailKeepsStructure
<1>6. ASSUME NEW w \in Workers, Worker(w) PROVE Structure'
  BY <1>6, WorkerStep, WorkerKeepsStructure
<1>7. CASE UNCHANGED vars
  BY <1>7 DEF vars, cloudVars, storeVars, markVars, summaryVars, runVars, Structure, TypeOK,
    RunsHoldLock, WorkersInRun, ListedExists, HeldExists, Busy, ObjectsOf
<1> QED BY <1>1, <1>2, <1>3, <1>4, <1>5, <1>6, <1>7 DEF Next

\* TypeOK: whatever the collectors, the runs and the crashes do, each variable keeps
\* its type, for every set of callers and objects.
THEOREM TypeCorrect == Spec => []TypeOK
<1>1. Spec => []Structure
  BY InitStructure, StructureStep, PTL DEF Spec
<1> QED BY <1>1, PTL DEF Structure

-----------------------------------------------------------------------------
(* The store.                                                              *)

\* What is stored of its object is of the version it reads, and none of it is
\* still in the buffer or in the rest of the file.
OnlyFlushed(w) ==
  \A r \in Row : r.obj = col[w].obj /\ stored[r] > 0 =>
    r.ver = col[w].got /\ r.day \notin col[w].left \cup col[w].batch

ClearedHoldsFlushed == \A w \in Workers : Cleared(w) => OnlyFlushed(w)

StoreInv == NoDoubleCount /\ SingleVersion /\ ClearedHoldsFlushed

\* Nothing is stored at the start.
LEMMA InitStore == Init => StoreInv
BY DEF Init, StoreInv, NoDoubleCount, SingleVersion, InStore, ClearedHoldsFlushed, Cleared,
  IdleWorker

-----------------------------------------------------------------------------
(* Two collectors that are at work belong to the same run, so to different *)
(* providers, and hold different objects.                                  *)

LEMMA HeldApart ==
  ASSUME Structure, NEW w \in Workers, NEW v \in Workers, v # w, Busy(w), Busy(v)
  PROVE  col[v].obj # col[w].obj
<1>1. w[1] \in Callers /\ v[1] \in Callers /\ w[2] \in Providers /\ v[2] \in Providers
  BY DEF Workers
<1>2. w[1] = v[1]
  BY <1>1 DEF Structure, RunsHoldLock, WorkersInRun, Busy
<1>3. w[2] # v[2]
  BY <1>2 DEF Workers
<1> QED BY <1>1, <1>3, ConstantsAssumption DEF Structure, HeldExists, ObjectsOf, Providers

\* A collector only touches the rows of the object it holds.
WritesOwn(w) ==
  /\ \A v \in Workers : v # w => col'[v] = col[v]
  /\ \/ UNCHANGED stored
     \/ Busy(w) /\ \A r \in Row : r.obj # col[w].obj => stored'[r] = stored[r]

\* A step of a collector writes no rows but those of the object it is at.
LEMMA WorkerWritesOwn ==
  ASSUME Structure, NEW w \in Workers, Worker(w)
  PROVE  WritesOwn(w)
<1>1. \A v \in Workers : v # w => col'[v] = col[v]
  BY WorkerStep DEF WorkerMoves, Structure, TypeOK
<1>2. \/ UNCHANGED stored
      \/ Busy(w) /\ \A r \in Row : r.obj # col[w].obj => stored'[r] = stored[r]
  <2>1. CASE ListObjects(w) \/ SkipObject(w) \/ GetObject(w) \/ EndLoop(w)
             \/ ParseStream(w) \/ MarkProcessed(w)
    BY <2>1 DEF ListObjects, SkipObject, GetObject, EndLoop, ParseStream, MarkProcessed,
      storeVars
  <2>2. CASE DeleteFirst(w) \/ CleanupPartialIngest(w)
    BY <2>2 DEF DeleteFirst, CleanupPartialIngest, Statement, DeleteCostRecordsForSource,
      At, Busy
  <2>3. CASE StoreBatch(w)
    BY <2>3 DEF StoreBatch, Statement, StoreCostRecords, RowsOf, At, Busy
  <2> QED BY <2>1, <2>2, <2>3 DEF Worker
<1> QED BY <1>1, <1>2 DEF WritesOwn

\* So what the others rely on stays.
LEMMA OthersKept ==
  ASSUME Structure, ClearedHoldsFlushed, NEW w \in Workers, WritesOwn(w),
         NEW v \in Workers, v # w, Cleared(v)'
  PROVE  OnlyFlushed(v)'
<1>1. col'[v] = col[v] /\ Cleared(v) /\ Busy(v) /\ OnlyFlushed(v)
  BY DEF WritesOwn, Cleared, Busy, ClearedHoldsFlushed
<1>2. CASE UNCHANGED stored
  BY <1>1, <1>2 DEF OnlyFlushed
<1>3. CASE Busy(w) /\ \A r \in Row : r.obj # col[w].obj => stored'[r] = stored[r]
  BY <1>1, <1>3, HeldApart DEF OnlyFlushed
<1> QED BY <1>2, <1>3 DEF WritesOwn

-----------------------------------------------------------------------------
(* One lemma per kind of step of a collector.                              *)

LEMMA HandleErrorNotCleared ==
  ASSUME Structure, NEW w \in Workers, HandleError(w)
  PROVE  ~Cleared(w)'
BY DEF HandleError, Leave, IdleWorker, Cleared, Structure, TypeOK, WorkerState

\* Steps of the collector's loop store nothing.
LEMMA LoopKeepsStore ==
  ASSUME Structure, StoreInv, NEW w \in Workers,
         ListObjects(w) \/ SkipObject(w) \/ GetObject(w) \/ EndLoop(w)
  PROVE  StoreInv'
<1>1. UNCHANGED stored
  BY DEF ListObjects, SkipObject, GetObject, EndLoop, storeVars
<1>2. ~Cleared(w)'
  <2>1. CASE ListObjects(w)
    <3>1. CASE col' = [col EXCEPT ![w] = IdleWorker]
      BY <3>1 DEF IdleWorker, Cleared, Structure, TypeOK
    <3>2. ASSUME NEW listed, col' = [col EXCEPT ![w] = [@ EXCEPT !.pc = "next", !.todo = listed]]
          PROVE  ~Cleared(w)'
      <4>1. col'[w] = [col[w] EXCEPT !.pc = "next", !.todo = listed]
        BY <3>2 DEF Structure, TypeOK
      <4>2. col'[w].pc = "next"
        BY <4>1 DEF Structure, TypeOK, WorkerState
      <4> QED BY <4>2 DEF Cleared
    <3> QED BY <2>1, <3>1, <3>2 DEF ListObjects
  <2>2. CASE SkipObject(w)
    BY <2>2 DEF SkipObject, At, Cleared, Structure, TypeOK, WorkerState
  <2>3. CASE GetObject(w)
    <3>1. PICK x \in col[w].todo :
            \/ col' = [col EXCEPT ![w] = Opened(w, x)]
            \/ col' = [col EXCEPT ![w] =
                    IF AfterFailure(w).pc = "done" THEN IdleWorker
                    ELSE [AfterFailure(w) EXCEPT !.todo = @ \ {x}, !.started = @ + 1]]
      BY <2>3 DEF GetObject
    <3>2. CASE col' = [col EXCEPT ![w] = Opened(w, x)]
      BY <3>2 DEF Opened, Cleared, Structure, TypeOK
    <3>3. CASE col' = [col EXCEPT ![w] =
                    IF AfterFailure(w).pc = "done" THEN IdleWorker
                    ELSE [AfterFailure(w) EXCEPT !.todo = @ \ {x}, !.started = @ + 1]]
      <4>1. col'[w].pc \in {"done", "next"}
        BY <3>3, AfterFailureFits
           DEF AfterFailure, Leave, IdleWorker, Structure, TypeOK
      <4> QED BY <4>1 DEF Cleared
    <3> QED BY <3>1, <3>2, <3>3
  <2>4. CASE EndLoop(w)
    BY <2>4 DEF EndLoop, IdleWorker, Cleared, Structure, TypeOK
  <2> QED BY <2>1, <2>2, <2>3, <2>4
<1>3. ClearedHoldsFlushed'
  BY <1>2, WorkerWritesOwn, OthersKept DEF Worker, ClearedHoldsFlushed, StoreInv
<1> QED BY <1>1, <1>3 DEF StoreInv, NoDoubleCount, SingleVersion, InStore

\* Parsing moves the next batch out of the rest of the file, and stores nothing.
LEMMA ParseKeepsStore ==
  ASSUME Structure, StoreInv, NEW w \in Workers, ParseStream(w)
  PROVE  StoreInv'
<1>1. UNCHANGED stored /\ col[w] \in WorkerState /\ col[w].pc = "parse"
  BY DEF ParseStream, At, storeVars, Structure, TypeOK
<1>2. ASSUME Cleared(w)' PROVE OnlyFlushed(w)'
  <2>1. /\ col[w].first = FALSE /\ col'[w].got = col[w].got /\ col'[w].obj = col[w].obj
        /\ col'[w].left \cup col'[w].batch \subseteq col[w].left \cup col[w].batch
    <3>1. CASE \E b \in SUBSET col[w].left : FlushBatch(w, b)
      BY <1>1, <1>2, <3>1 DEF FlushBatch, Cleared, Structure, TypeOK, WorkerState
    <3>2. CASE col' = [col EXCEPT ![w].pc = IF col[w].first THEN "delete" ELSE "mark",
                                  ![w].batch = {}]
      BY <1>1, <1>2, <3>2 DEF Cleared, Structure, TypeOK, WorkerState
    <3>3. CASE HandleError(w)
      BY <1>2, <3>3, HandleErrorNotCleared
    <3>4. CASE StreamBreaks(w)
      BY <1>2, <3>4, StuckReadsNothing
    <3> QED BY <3>1, <3>2, <3>3, <3>4 DEF ParseStream, ParserFails
  <2>2. OnlyFlushed(w)
    BY <1>1, <2>1 DEF StoreInv, ClearedHoldsFlushed, Cleared
  <2> QED BY <1>1, <2>1, <2>2 DEF OnlyFlushed
<1>3. ClearedHoldsFlushed'
  BY <1>2, WorkerWritesOwn, OthersKept DEF Worker, ClearedHoldsFlushed, StoreInv
<1> QED BY <1>1, <1>3 DEF StoreInv, NoDoubleCount, SingleVersion, InStore

\* A delete of a source's rows keeps what holds of the rows.
LEMMA DeleteKeepsRows ==
  ASSUME Structure, StoreInv, NEW o, DeleteCostRecordsForSource(o)
  PROVE  NoDoubleCount' /\ SingleVersion'
BY DEF Structure, TypeOK, StoreInv, NoDoubleCount, SingleVersion, InStore,
  DeleteCostRecordsForSource

\* Deleting an object's rows adds none, and after it none of the object is stored.
LEMMA DeleteKeepsStore ==
  ASSUME Structure, StoreInv, NEW w \in Workers, DeleteFirst(w)
  PROVE  StoreInv'
<1>1. NoDoubleCount' /\ SingleVersion'
  <2>1. CASE DeleteCostRecordsForSource(col[w].obj)
    BY <2>1, DeleteKeepsRows
  <2>2. CASE UNCHANGED stored
    BY <2>2 DEF StoreInv, NoDoubleCount, SingleVersion, InStore
  <2> QED BY <2>1, <2>2 DEF DeleteFirst, Statement
<1>2. ASSUME Cleared(w)' PROVE OnlyFlushed(w)'
  <2>1. ~HandleError(w)
    BY <1>2, HandleErrorNotCleared
  <2>2. /\ DeleteCostRecordsForSource(col[w].obj)
        /\ col' = [col EXCEPT ![w].pc = IF col[w].batch = {} THEN "mark" ELSE "store"]
    BY <2>1 DEF DeleteFirst, Statement
  <2>3. col'[w].obj = col[w].obj
    BY <2>2 DEF Structure, TypeOK, WorkerState
  <2> QED BY <2>2, <2>3 DEF OnlyFlushed, DeleteCostRecordsForSource
<1>3. ClearedHoldsFlushed'
  BY <1>2, WorkerWritesOwn, OthersKept DEF Worker, ClearedHoldsFlushed, StoreInv
<1> QED BY <1>1, <1>3 DEF StoreInv

\* So does the cleanup after a failure, which leaves the object.
LEMMA CleanupKeepsStore ==
  ASSUME Structure, StoreInv, NEW w \in Workers, CleanupPartialIngest(w)
  PROVE  StoreInv'
<1>1. NoDoubleCount' /\ SingleVersion'
  <2>1. CASE DeleteCostRecordsForSource(col[w].obj)
    BY <2>1, DeleteKeepsRows
  <2>2. CASE UNCHANGED stored
    BY <2>2 DEF StoreInv, NoDoubleCount, SingleVersion, InStore
  <2> QED BY <2>1, <2>2 DEF CleanupPartialIngest
<1>2. ~Cleared(w)'
  BY DEF CleanupPartialIngest, AfterFailure, Leave, IdleWorker, Cleared, Structure, TypeOK
<1>3. ClearedHoldsFlushed'
  BY <1>2, WorkerWritesOwn, OthersKept DEF Worker, ClearedHoldsFlushed, StoreInv
<1> QED BY <1>1, <1>3 DEF StoreInv

\* Marking an object as processed stores nothing, and leaves the object.
LEMMA MarkKeepsStore ==
  ASSUME Structure, StoreInv, NEW w \in Workers, MarkProcessed(w)
  PROVE  StoreInv'
<1>1. UNCHANGED stored
  BY DEF MarkProcessed
<1>2. ~Cleared(w)'
  <2>1. CASE HandleError(w)
    BY <2>1, HandleErrorNotCleared
  <2>2. CASE col' = [col EXCEPT ![w] = Leave(w, "next", 0)]
    BY <2>2 DEF Leave, IdleWorker, Cleared, Structure, TypeOK
  <2> QED BY <2>1, <2>2 DEF MarkProcessed, Statement
<1>3. ClearedHoldsFlushed'
  BY <1>2, WorkerWritesOwn, OthersKept DEF Worker, ClearedHoldsFlushed, StoreInv
<1> QED BY <1>1, <1>3 DEF StoreInv, NoDoubleCount, SingleVersion, InStore

\* The rows of a batch that are inside the lookback window.
BatchRows(w) == RowsOf(col[w].obj, col[w].got, WithinLookback(col[w].batch))

\* None of them is in the store yet, and no other version of the object is.
LEMMA BatchIsNew ==
  ASSUME Structure, StoreInv, NEW w \in Workers, col[w].pc = "store"
  PROVE  /\ \A r \in BatchRows(w) : r \in Row /\ r.obj = col[w].obj /\ r.ver = col[w].got
                                    /\ r.day \in col[w].batch /\ stored[r] = 0
         /\ \A r \in Row : r.obj = col[w].obj /\ stored[r] > 0 => r.ver = col[w].got
<1>1. OnlyFlushed(w)
  BY DEF StoreInv, ClearedHoldsFlushed, Cleared
<1>2. \A r \in BatchRows(w) : r \in Row /\ r.obj = col[w].obj /\ r.ver = col[w].got
                              /\ r.day \in col[w].batch
  BY DEF BatchRows, RowsOf, WithinLookback
<1>3. \A r \in Row : stored[r] \in Nat
  BY DEF Structure, TypeOK
<1> QED BY <1>1, <1>2, <1>3 DEF OnlyFlushed

\* Storing it makes each of them 1 and leaves the rest.
LEMMA StoreBatchEffect ==
  ASSUME Structure, StoreInv, NEW w \in Workers, StoreBatch(w)
  PROVE  \/ UNCHANGED stored
         \/ stored' = [r \in Row |-> IF r \in BatchRows(w) THEN 1 ELSE stored[r]]
<1>1. SUFFICES ASSUME StoreCostRecords(w[2], BatchRows(w))
               PROVE  stored' = [r \in Row |-> IF r \in BatchRows(w) THEN 1 ELSE stored[r]]
  BY DEF StoreBatch, Statement, BatchRows
<1>2. col[w].pc = "store"
  BY DEF StoreBatch, At
<1> QED BY <1>1, <1>2, BatchIsNew DEF StoreCostRecords

\* A batch adds the days of the object that are not yet stored, in the version that was read.
LEMMA StoreKeepsStore ==
  ASSUME Structure, StoreInv, NEW w \in Workers, StoreBatch(w)
  PROVE  StoreInv'
<1> DEFINE B == BatchRows(w)
<1>1. /\ col[w].pc = "store" /\ col[w] \in WorkerState
      /\ \A r \in B : r \in Row /\ r.obj = col[w].obj /\ r.ver = col[w].got
                      /\ r.day \in col[w].batch /\ stored[r] = 0
      /\ \A r \in Row : r.obj = col[w].obj /\ stored[r] > 0 => r.ver = col[w].got
  BY BatchIsNew DEF StoreBatch, At, Structure, TypeOK
<1>2. \/ UNCHANGED stored
      \/ stored' = [r \in Row |-> IF r \in B THEN 1 ELSE stored[r]]
  BY StoreBatchEffect
<1> HIDE DEF B
<1>3. NoDoubleCount'
  BY <1>2 DEF StoreInv, NoDoubleCount
<1>4. SingleVersion'
  <2>1. \A r \in Row : stored'[r] > 0 => r \in B \/ stored[r] > 0
    BY <1>2
  <2>2. \A r \in Row : stored'[r] > 0 /\ r.obj = col[w].obj => r.ver = col[w].got
    BY <1>1, <2>1
  <2>3. \A r \in Row : stored'[r] > 0 /\ r.obj # col[w].obj => stored[r] > 0
    BY <1>1, <2>1
  <2>4. \A r, s \in Row : stored[r] > 0 /\ stored[s] > 0 /\ r.obj = s.obj => r.ver = s.ver
    BY DEF StoreInv, SingleVersion, InStore
  <2> QED BY <2>2, <2>3, <2>4 DEF SingleVersion, InStore
<1>5. ASSUME Cleared(w)' PROVE OnlyFlushed(w)'
  <2>1. ~HandleError(w)
    BY <1>5, HandleErrorNotCleared
  <2>2. col' = [col EXCEPT ![w].pc = "parse", ![w].first = FALSE, ![w].batch = {}]
    BY <2>1 DEF StoreBatch, Statement
  <2>3. /\ col'[w].obj = col[w].obj /\ col'[w].got = col[w].got
        /\ col'[w].left = col[w].left /\ col'[w].batch = {}
    BY <1>1, <2>2 DEF Structure, TypeOK, WorkerState
  <2>4. \A r \in Row : r.obj = col[w].obj /\ stored'[r] > 0 =>
          r.ver = col[w].got /\ r.day \notin col[w].left
    <3>1. col[w].left \cap col[w].batch = {}
      BY <1>1 DEF Structure, HeldExists, Busy
    <3>2. OnlyFlushed(w)
      BY <1>1 DEF StoreInv, ClearedHoldsFlushed, Cleared
    <3> QED BY <1>1, <1>2, <3>1, <3>2 DEF OnlyFlushed
  <2> QED BY <2>3, <2>4 DEF OnlyFlushed
<1>6. ClearedHoldsFlushed'
  BY <1>5, WorkerWritesOwn, OthersKept DEF Worker, ClearedHoldsFlushed, StoreInv
<1> QED BY <1>3, <1>4, <1>6 DEF StoreInv

\* Every step of a collector keeps the invariant of the store.
LEMMA WorkerKeepsStore ==
  ASSUME Structure, StoreInv, NEW w \in Workers, Worker(w)
  PROVE  StoreInv'
BY LoopKeepsStore, ParseKeepsStore, DeleteKeepsStore, StoreKeepsStore, MarkKeepsStore,
  CleanupKeepsStore DEF Worker

-----------------------------------------------------------------------------
(* Every step, and the theorems.                                           *)

\* Retention runs when no collector is at work.
LEMMA PruneKeepsStore ==
  ASSUME Structure, StoreInv, NEW c \in Callers, PruneRecords(c)
  PROVE  StoreInv'
<1>1. \/ UNCHANGED stored
      \/ stored' = [r \in Row |-> IF Expired(r.day) THEN 0 ELSE stored[r]]
  BY DEF PruneRecords
<1>2. \A r \in Row : stored'[r] = 0 \/ stored'[r] = stored[r]
  BY <1>1
<1>3. UNCHANGED col
  BY DEF PruneRecords
<1> QED BY <1>2, <1>3 DEF StoreInv, NoDoubleCount, SingleVersion, InStore,
  ClearedHoldsFlushed, Cleared, OnlyFlushed

\* So does every step of the system.
LEMMA StoreStep == Structure /\ StoreInv /\ [Next]_vars => StoreInv'
<1> SUFFICES ASSUME Structure, StoreInv, [Next]_vars PROVE StoreInv'
  OBVIOUS
<1> USE DEF StoreInv
<1>1. ASSUME UNCHANGED <<stored, col>> PROVE StoreInv'
  BY <1>1 DEF NoDoubleCount, SingleVersion, InStore, ClearedHoldsFlushed, Cleared, OnlyFlushed
<1>2. CASE Tick \/ UNCHANGED vars \/ \E o \in Objects : Upload(o)
  BY <1>1, <1>2 DEF Tick, Upload, vars, storeVars
<1>3. CASE Crash
  BY <1>3 DEF Crash, storeVars, NoDoubleCount, SingleVersion, InStore, ClearedHoldsFlushed,
    Cleared, IdleWorker
<1>4. ASSUME NEW c \in Callers, StartRun(c) PROVE StoreInv'
  <2>1. UNCHANGED stored
    BY <1>4 DEF StartRun, storeVars
  <2>2. \A w \in Workers : Cleared(w)' => col'[w] = col[w] /\ Cleared(w)
    BY <1>4 DEF StartRun, Cleared, IdleWorker
  <2> QED BY <2>1, <2>2 DEF NoDoubleCount, SingleVersion, InStore, ClearedHoldsFlushed,
    OnlyFlushed
<1>5. ASSUME NEW c \in Callers, RunTail(c) PROVE StoreInv'
  <2>1. CASE PruneRecords(c)
    BY <2>1, PruneKeepsStore
  <2>2. CASE WaitCollectors(c) \/ RefreshDashboard(c) \/ PruneAnalytics(c)
    BY <1>1, <2>2 DEF WaitCollectors, RefreshDashboard, PruneAnalytics, storeVars
  <2> QED BY <1>5, <2>1, <2>2 DEF RunTail
<1>6. ASSUME NEW w \in Workers, Worker(w) PROVE StoreInv'
  BY <1>6, WorkerKeepsStore
<1> QED BY <1>2, <1>3, <1>4, <1>5, <1>6 DEF Next

\* The invariant of the store always holds.
LEMMA StoreInvariant == Spec => [](Structure /\ StoreInv)
BY InitStructure, StructureStep, InitStore, StoreStep, PTL DEF Spec

\* NoDoubleCount, for every set of callers and objects.
THEOREM NoRowTwice == Spec => []NoDoubleCount
BY StoreInvariant, PTL DEF StoreInv

\* SingleVersion, for every history of rewrites of the exports.
THEOREM OneVersionPerExport == Spec => []SingleVersion
BY StoreInvariant, PTL DEF StoreInv

-----------------------------------------------------------------------------
(* The ingestion implements SourceReplacement.                             *)

LEMMA WorkerReplaces ==
  ASSUME Structure, StoreInv, NEW w \in Workers, Worker(w)
  PROVE  [Replacement!Next]_stored
<1>1. ASSUME DeleteCostRecordsForSource(col[w].obj), Busy(w)
      PROVE  Replacement!Next
  <2>1. col[w].obj \in Objects
    BY <1>1 DEF Structure, HeldExists, ObjectsOf, Objects
  <2>2. Replacement!Drop(col[w].obj)
    BY <1>1 DEF DeleteCostRecordsForSource, Replacement!Drop, Replacement!Row, Row
  <2> QED BY <2>1, <2>2 DEF Replacement!Next
<1>2. CASE ListObjects(w) \/ SkipObject(w) \/ GetObject(w) \/ EndLoop(w)
           \/ ParseStream(w) \/ MarkProcessed(w)
  BY <1>2 DEF ListObjects, SkipObject, GetObject, EndLoop, ParseStream, MarkProcessed,
    storeVars
<1>3. CASE DeleteFirst(w) \/ CleanupPartialIngest(w)
  BY <1>1, <1>3 DEF DeleteFirst, CleanupPartialIngest, Statement, At, Busy
<1>4. CASE StoreBatch(w)
  <2> DEFINE B == BatchRows(w)
  <2>1. /\ col[w].pc = "store" /\ Busy(w)
        /\ \A r \in B : r \in Row /\ r.obj = col[w].obj /\ r.ver = col[w].got
                        /\ stored[r] = 0
        /\ \A r \in Row : r.obj = col[w].obj /\ stored[r] > 0 => r.ver = col[w].got
    BY <1>4, BatchIsNew DEF StoreBatch, At, Busy
  <2>2. col[w].obj \in Objects /\ col[w].got \in Versions
    BY <2>1 DEF Structure, HeldExists, ObjectsOf, Objects
  <2>3. CASE stored' = [r \in Row |-> IF r \in B THEN 1 ELSE stored[r]]
    <3> HIDE DEF B
    <3>1. Replacement!Fill(col[w].obj, col[w].got, B)
      BY <2>1, <2>3 DEF Replacement!Fill, Replacement!Row, Row
    <3>2. B \in SUBSET Replacement!Row
      BY <2>1 DEF Replacement!Row, Row
    <3> QED BY <2>2, <3>1, <3>2 DEF Replacement!Next
  <2> QED BY <1>4, <2>3, StoreBatchEffect
<1> QED BY <1>2, <1>3, <1>4 DEF Worker

\* Retention is a step of the abstract store: it drops whole days.
LEMMA PruneReplaces ==
  ASSUME Structure, NEW c \in Callers, PruneRecords(c)
  PROVE  [Replacement!Next]_stored
<1> DEFINE first == today - Retention
<1>1. today \in Nat /\ today <= MaxDay /\ Retention \in Nat /\ MaxDay \in Nat
  BY ConstantsAssumption DEF Structure, TypeOK, Days
<1>3. stored = [r \in Row |-> stored[r]]
  BY DEF Structure, TypeOK
<1>4. \A r \in Row : r.day \in Nat
  BY ConstantsAssumption DEF Row, Days
<1>2. CASE stored' = [r \in Row |-> IF Expired(r.day) THEN 0 ELSE stored[r]]
  <2>1. CASE first \in Days
    <3>1. Replacement!Expire(first)
      BY <1>2 DEF Replacement!Expire, Replacement!Row, Row, Expired
    <3> QED BY <2>1, <3>1 DEF Replacement!Next
  <2>2. CASE first \notin Days
    <3>1. first < 0
      BY <1>1, <2>2 DEF Days
    <3>2. \A r \in Row : ~Expired(r.day)
      BY <1>1, <1>4, <3>1 DEF Expired
    <3> QED BY <1>2, <1>3, <3>2
  <2> QED BY <2>1, <2>2
<1> QED BY <1>2 DEF PruneRecords

\* Every step is one of the abstract store, or leaves the rows alone.
LEMMA StepReplaces == Structure /\ StoreInv /\ [Next]_vars => [Replacement!Next]_stored
<1> SUFFICES ASSUME Structure, StoreInv, [Next]_vars PROVE [Replacement!Next]_stored
  OBVIOUS
<1>1. CASE Tick \/ UNCHANGED vars \/ Crash \/ \E o \in Objects : Upload(o)
  BY <1>1 DEF Tick, Upload, Crash, vars, storeVars
<1>2. ASSUME NEW c \in Callers, StartRun(c) \/ RunTail(c)
      PROVE  [Replacement!Next]_stored
  BY <1>2, PruneReplaces DEF StartRun, RunTail, WaitCollectors, RefreshDashboard,
    PruneAnalytics, storeVars
<1>3. ASSUME NEW w \in Workers, Worker(w) PROVE [Replacement!Next]_stored
  BY <1>3, WorkerReplaces
<1> QED BY <1>1, <1>2, <1>3 DEF Next

\* ReplacesExports: each transaction of the ingestion drops, fills or expires
\* exports as SourceReplacement allows, so readers of cost_records never see more.
THEOREM ImplementsReplacement == Spec => ReplacesExports
<1>1. Init => Replacement!Init
  BY DEF Init, Replacement!Init, Replacement!Row, Row
<1>2. Spec => [][Replacement!Next]_stored
  BY StoreInvariant, StepReplaces, PTL DEF Spec
<1> QED BY <1>1, <1>2, PTL DEF Spec, ReplacesExports, Replacement!Spec

-----------------------------------------------------------------------------
(* What a processed mark says.                                             *)

\* A row inside the window is inside the lookback, and is not expired.
LEMMA WindowFits ==
  /\ Window \in Nat
  /\ \A d, t \in Int : ~(d < t - Window) => d >= t - Lookback /\ ~(d < t - Retention)
<1>1. Lookback \in Nat /\ Retention \in Nat
  BY ConstantsAssumption
<1>2. Window \in Nat /\ Window <= Lookback /\ Window <= Retention
  BY <1>1 DEF Window
<1>3. ASSUME NEW d \in Int, NEW t \in Int, ~(d < t - Window)
      PROVE  d >= t - Lookback /\ ~(d < t - Retention)
  BY <1>1, <1>2, <1>3
<1> QED BY <1>2, <1>3

\* What has expired stays expired.
LEMMA LaterIsPast ==
  ASSUME NEW t \in Int, NEW u \in Int, t <= u, NEW n \in Int, NEW d \in Int, d < t - n
  PROVE  d < u - n
OBVIOUS

\* A mark names a version that there is or was.
MarksExist == \A x \in processed : x[2] <= bucket[x[1]]

\* Nothing that an OCI collector listed or holds has been marked in a later version,
\* and what it holds is not marked, but for a mark whose acknowledgement was lost.
MarksFit(w) ==
  w[2] = "oci" /\ col[w].pc # "done" =>
    /\ \A x \in col[w].todo, y \in processed : y[1] = x[1] => y[2] <= x[2]
    /\ \A x, y \in col[w].todo : x[1] = y[1] => x = y
    /\ Busy(w) =>
         /\ \A x \in col[w].todo : x[1] # col[w].obj
         /\ \A y \in processed : y[1] = col[w].obj => y[2] <= col[w].ver
         /\ <<col[w].obj, col[w].ver>> \notin processed \ unacked

RowOn(w, d) == [obj |-> col[w].obj, ver |-> col[w].got, day |-> d]

\* Each row of the version that a collector reads is still to come, in the buffer, too
\* old to be stored, or stored since the old rows were deleted; before the mark nothing
\* is to come.
ReadsAll(w) ==
  /\ col[w].pc = "parse" => col[w].batch = {}
  /\ col[w].pc = "delete" /\ col[w].batch = {} => col[w].left = {}
  /\ col[w].pc = "mark" => col[w].left = {} /\ col[w].batch = {}
  /\ Reading(w) => \A d \in Content[<<col[w].obj, col[w].got>>] :
       \/ d \in col[w].left \cup col[w].batch
       \/ d < today - Window
       \/ Cleared(w) /\ stored[RowOn(w, d)] > 0

CompleteInv ==
  /\ MarksExist
  /\ \A w \in Workers : MarksFit(w)
  /\ \A w \in Workers : ReadsAll(w)
  /\ ProcessedComplete

\* Two collectors at work are of different providers.
LEMMA ActiveApart ==
  ASSUME Structure, NEW w \in Workers, NEW v \in Workers, v # w,
         col[w].pc # "done", col[v].pc # "done"
  PROVE  w[2] # v[2]
<1>1. w[1] \in Callers /\ v[1] \in Callers
  BY DEF Workers
<1>2. w[1] = v[1]
  BY <1>1 DEF Structure, RunsHoldLock, WorkersInRun
<1> QED BY <1>2 DEF Workers

\* What a worker's step that keeps the marks has to keep of its object.
KeepsObject(w) ==
  /\ col[w].pc # "done" /\ UNCHANGED markVars
  /\ col'[w].pc # "done" => col'[w].todo \subseteq col[w].todo
  /\ Busy(w)' => Busy(w) /\ col'[w].obj = col[w].obj /\ col'[w].ver = col[w].ver

\* Such a step keeps the marks and the list of the worker consistent.
LEMMA KeepsMarksFit ==
  ASSUME NEW w \in Workers, MarksFit(w), KeepsObject(w)
  PROVE  MarksFit(w)'
<1>1. SUFFICES ASSUME w[2] = "oci", col'[w].pc # "done"
               PROVE  /\ \A x \in col'[w].todo, y \in processed' : y[1] = x[1] => y[2] <= x[2]
                      /\ \A x, y \in col'[w].todo : x[1] = y[1] => x = y
                      /\ Busy(w)' =>
                           /\ \A x \in col'[w].todo : x[1] # col'[w].obj
                           /\ \A y \in processed' : y[1] = col'[w].obj => y[2] <= col'[w].ver
                           /\ <<col'[w].obj, col'[w].ver>> \notin processed' \ unacked'
  BY DEF MarksFit
<1>2. /\ processed' = processed /\ unacked' = unacked /\ col'[w].todo \subseteq col[w].todo
      /\ col[w].pc # "done"
  BY <1>1 DEF KeepsObject, markVars
<1> QED BY <1>1, <1>2 DEF MarksFit, KeepsObject

\* What an error or the end of an object leaves.
LEMMA LeaveKeepsObject ==
  ASSUME Structure, NEW w \in Workers, NEW n \in Nat, NEW pc \in {"done", "next"},
         col' = [col EXCEPT ![w] = Leave(w, pc, n)]
  PROVE  /\ col'[w].pc # "done" => col'[w].todo = col[w].todo
         /\ ~Busy(w)' /\ ~Reading(w)'
<1>1. col'[w] = Leave(w, pc, n)
  BY DEF Structure, TypeOK
<1>2. Leave(w, pc, n).pc = pc /\ (pc # "done" => Leave(w, pc, n).todo = col[w].todo)
  BY DEF Leave, IdleWorker
<1> QED BY <1>1, <1>2 DEF Busy, Reading

\* A failure stays at the object or leaves it, and reads it no longer.
LEMMA ErrorKeepsObject ==
  ASSUME Structure, NEW w \in Workers, Busy(w), HandleError(w)
  PROVE  /\ col'[w].pc # "done" => col'[w].todo = col[w].todo
         /\ Busy(w)' => col'[w].obj = col[w].obj /\ col'[w].ver = col[w].ver
         /\ ~Reading(w)'
<1>1. CASE w[2] = "oci" \/ ~col[w].first
  <2>1. col' = [col EXCEPT ![w] = [@ EXCEPT !.pc = "cleanup", !.left = {}, !.batch = {}]]
    BY <1>1 DEF HandleError
  <2>2. /\ col'[w].pc = "cleanup" /\ col'[w].todo = col[w].todo
        /\ col'[w].obj = col[w].obj /\ col'[w].ver = col[w].ver
    BY <2>1 DEF Structure, TypeOK, WorkerState
  <2> QED BY <2>2 DEF Reading
<1>2. CASE ~(w[2] = "oci" \/ ~col[w].first)
  <2>1. col' = [col EXCEPT ![w] = Leave(w, "next", 0)]
    BY <1>2 DEF HandleError
  <2> QED BY <2>1, LeaveKeepsObject
<1> QED BY <1>1, <1>2

\* The steps of the loop.
LEMMA LoopKeepsMarks ==
  ASSUME Structure, CompleteInv, NEW w \in Workers,
         ListObjects(w) \/ SkipObject(w) \/ GetObject(w) \/ EndLoop(w)
  PROVE  MarksFit(w)' /\ ReadsAll(w)'
<1>1. /\ col[w] \in WorkerState /\ col \in [Workers -> WorkerState] /\ MarksFit(w) /\ MarksExist
      /\ UNCHANGED <<processed, unacked>> /\ UNCHANGED markVars
      /\ col[w].pc \in {"list", "next"}
  BY DEF Structure, TypeOK, CompleteInv, ListObjects, SkipObject, GetObject, EndLoop, At,
    storeVars, markVars
<1>2. ASSUME col'[w].pc \in {"done", "list", "next"} PROVE ReadsAll(w)'
  BY <1>2 DEF ReadsAll, Reading
<1>3. ASSUME col'[w].pc = "done" PROVE MarksFit(w)'
  BY <1>3 DEF MarksFit
<1>4. ASSUME col'[w].pc \in {"list", "next"}, col'[w].todo \subseteq col[w].todo PROVE MarksFit(w)'
  BY <1>1, <1>4, KeepsMarksFit DEF KeepsObject, Busy
<1>5. CASE col' = [col EXCEPT ![w] = IdleWorker]
  <2>1. col'[w].pc = "done"
    BY <1>1, <1>5 DEF IdleWorker
  <2> QED BY <1>2, <1>3, <2>1
<1>6. CASE ListObjects(w)
  <2>1. ASSUME NEW seen \in SUBSET {o \in ObjectsOf(w[2]) : bucket[o] > 0},
               col' = [col EXCEPT ![w] = [@ EXCEPT
                         !.pc = "next", !.todo = {<<o, bucket[o]>> : o \in seen}]]
        PROVE  MarksFit(w)' /\ ReadsAll(w)'
    <3>1. col'[w].pc = "next" /\ col'[w].todo = {<<o, bucket[o]>> : o \in seen}
      BY <1>1, <2>1 DEF WorkerState
    <3>2. MarksFit(w)'
      BY <1>1, <3>1 DEF MarksFit, Busy, MarksExist
    <3> QED BY <1>2, <3>1, <3>2
  <2> QED BY <1>5, <1>6, <2>1 DEF ListObjects
<1>7. CASE SkipObject(w)
  <2>1. PICK x \in col[w].todo : col' = [col EXCEPT ![w].todo = @ \ {x}]
    BY <1>7 DEF SkipObject
  <2>2. col'[w].pc = col[w].pc /\ col'[w].todo = col[w].todo \ {x}
    BY <1>1, <2>1 DEF WorkerState
  <2> QED BY <1>1, <1>2, <1>4, <2>2
<1>8. CASE GetObject(w)
  <2>1. PICK x \in col[w].todo :
          /\ ~Skips(w[2], x[1], x[2])
          /\ \/ col' = [col EXCEPT ![w] = Opened(w, x)]
             \/ col' = [col EXCEPT ![w] =
                  IF AfterFailure(w).pc = "done" THEN IdleWorker
                  ELSE [AfterFailure(w) EXCEPT !.todo = @ \ {x}, !.started = @ + 1]]
    BY <1>8 DEF GetObject
  <2>2. CASE col' = [col EXCEPT ![w] = Opened(w, x)]
    <3>1. /\ col'[w].pc = "parse" /\ col'[w].todo = col[w].todo \ {x}
          /\ col'[w].obj = x[1] /\ col'[w].ver = x[2] /\ col'[w].got = bucket[x[1]]
          /\ col'[w].left = Content[<<x[1], bucket[x[1]]>>] /\ col'[w].batch = {}
      BY <1>1, <2>2 DEF Opened, Parsed
    <3>2. ReadsAll(w)'
      BY <3>1 DEF ReadsAll
    <3>3. MarksFit(w)'
      <4>1. SUFFICES ASSUME w[2] = "oci" PROVE MarksFit(w)'
        BY DEF MarksFit
      <4>2. /\ \A z \in col[w].todo, y \in processed : y[1] = z[1] => y[2] <= z[2]
            /\ \A z, y \in col[w].todo : z[1] = y[1] => z = y
        BY <1>1, <4>1 DEF MarksFit
      <4>3. <<x[1], x[2]>> \notin processed
        BY <2>1, <4>1 DEF Skips
      <4> QED BY <1>1, <3>1, <4>2, <4>3 DEF MarksFit
    <3> QED BY <3>2, <3>3
  <2>3. CASE /\ AfterFailure(w).pc # "done"
             /\ col' = [col EXCEPT ![w] =
                    [AfterFailure(w) EXCEPT !.todo = @ \ {x}, !.started = @ + 1]]
    <3>1. AfterFailure(w).pc = "next" /\ AfterFailure(w).todo = col[w].todo
          /\ AfterFailure(w) \in WorkerState
      BY <2>3, AfterFailureFits DEF AfterFailure, Leave, IdleWorker, WorkerFits
    <3>2. col'[w] = [AfterFailure(w) EXCEPT !.todo = @ \ {x}, !.started = @ + 1]
      BY <1>1, <2>3
    <3>3. col'[w].pc = "next" /\ col'[w].todo = col[w].todo \ {x}
      BY <3>1, <3>2 DEF WorkerState
    <3> QED BY <1>2, <1>4, <3>3
  <2> QED BY <1>5, <2>1, <2>2, <2>3
<1>9. CASE EndLoop(w)
  BY <1>5, <1>9 DEF EndLoop
<1> QED BY <1>6, <1>7, <1>8, <1>9

\* The row of a day of the object held is a row.
LEMMA HeldRow ==
  ASSUME Structure, NEW w \in Workers, Busy(w)
  PROVE  \A d \in Content[<<col[w].obj, col[w].got>>] : d \in Days /\ RowOn(w, d) \in Row
<1>1. col[w].obj \in Objects /\ col[w].got \in Versions
  BY DEF Structure, HeldExists, ObjectsOf, Objects
<1>2. Content[<<col[w].obj, col[w].got>>] \subseteq Days
  BY <1>1, ConstantsAssumption
<1> QED BY <1>1, <1>2 DEF RowOn, Row

\* The steps from the download to the last batch.
LEMMA ParseKeepsMarks ==
  ASSUME Structure, CompleteInv, NEW w \in Workers, ParseStream(w)
  PROVE  MarksFit(w)' /\ ReadsAll(w)'
<1>1. /\ col[w] \in WorkerState /\ col \in [Workers -> WorkerState] /\ col[w].pc = "parse" /\ Busy(w)
      /\ MarksFit(w) /\ ReadsAll(w) /\ UNCHANGED markVars /\ UNCHANGED <<today, stored>>
  BY DEF Structure, TypeOK, CompleteInv, ParseStream, At, Busy, storeVars, markVars, cloudVars
<1>2. CASE HandleError(w)
  <2>1. ~Reading(w)' /\ KeepsObject(w)
    BY <1>1, <1>2, ErrorKeepsObject DEF KeepsObject
  <2>2. ReadsAll(w)'
    BY <2>1 DEF ReadsAll, Reading
  <2> QED BY <1>1, <2>1, <2>2, KeepsMarksFit
<1>3. ASSUME NEW pc \in {"delete", "store", "mark"}, NEW b \in SUBSET col[w].left,
             col' = [col EXCEPT ![w].pc = pc, ![w].batch = b, ![w].left = @ \ b],
             IF col[w].first THEN pc = "delete" ELSE pc \in {"store", "mark"},
             b = {} => col[w].left = {}, pc = "mark" => b = {}
      PROVE  MarksFit(w)' /\ ReadsAll(w)'
  <2>1. /\ col'[w].pc = pc /\ col'[w].todo = col[w].todo /\ col'[w].obj = col[w].obj
        /\ col'[w].ver = col[w].ver /\ col'[w].got = col[w].got /\ col'[w].first = col[w].first
        /\ col'[w].left = col[w].left \ b /\ col'[w].batch = b
    BY <1>1, <1>3 DEF WorkerState
  <2>2. KeepsObject(w)
    BY <1>1, <2>1 DEF KeepsObject
  <2>3. \A d \in Content[<<col[w].obj, col[w].got>>] :
          \/ d \in col[w].left
          \/ d < today - Window
          \/ ~col[w].first /\ stored[RowOn(w, d)] > 0
    BY <1>1 DEF ReadsAll, Reading, Cleared
  <2>4. Cleared(w)' <=> ~col[w].first
    BY <1>1, <1>3, <2>1 DEF Cleared, WorkerState
  <2>5. \A d : RowOn(w, d)' = RowOn(w, d)
    BY <2>1 DEF RowOn
  <2>6. ReadsAll(w)'
    BY <1>1, <1>3, <2>1, <2>3, <2>4, <2>5 DEF ReadsAll
  <2> QED BY <1>1, <2>2, <2>6, KeepsMarksFit
<1>4. CASE \E b \in SUBSET col[w].left : IsBatch(b, col[w].left) /\ FlushBatch(w, b)
  <2>1. PICK b \in SUBSET col[w].left : IsBatch(b, col[w].left) /\ FlushBatch(w, b)
    BY <1>4
  <2> DEFINE pc == IF col[w].first THEN "delete" ELSE "store"
  <2>2. col' = [col EXCEPT ![w].pc = pc, ![w].batch = b, ![w].left = @ \ b]
    BY <2>1 DEF FlushBatch
  <2>3. b # {} /\ pc \in {"delete", "store", "mark"}
    BY <2>1 DEF IsBatch
  <2> QED BY <1>3, <2>2, <2>3
<1>5. CASE /\ col[w].left = {}
           /\ col' = [col EXCEPT ![w].pc = IF col[w].first THEN "delete" ELSE "mark", ![w].batch = {}]
  <2> DEFINE pc == IF col[w].first THEN "delete" ELSE "mark"
  <2>1. col' = [col EXCEPT ![w].pc = pc, ![w].batch = {}, ![w].left = @ \ {}]
    BY <1>1, <1>5 DEF WorkerState
  <2> QED BY <1>3, <1>5, <2>1
<1>6. CASE StreamBreaks(w)
  <2>1. KeepsObject(w) /\ ReadsAll(w)'
    BY <1>1, <1>6, StuckReadsNothing DEF KeepsObject, ReadsAll, Reading
  <2> QED BY <1>1, <2>1, KeepsMarksFit
<1> QED BY <1>2, <1>4, <1>5, <1>6 DEF ParseStream, ParserFails

\* Deleting the rows of the object that is read takes away nothing that is marked.
LEMMA DeleteKeepsMarks ==
  ASSUME Structure, CompleteInv, NEW w \in Workers, DeleteFirst(w)
  PROVE  MarksFit(w)' /\ ReadsAll(w)'
<1>1. /\ col[w] \in WorkerState /\ col \in [Workers -> WorkerState] /\ col[w].pc = "delete" /\ Busy(w)
      /\ MarksFit(w) /\ ReadsAll(w) /\ UNCHANGED markVars /\ UNCHANGED today
  BY DEF Structure, TypeOK, CompleteInv, DeleteFirst, At, Busy, cloudVars
<1>2. CASE HandleError(w)
  <2>1. ~Reading(w)' /\ KeepsObject(w)
    BY <1>1, <1>2, ErrorKeepsObject DEF KeepsObject
  <2>2. ReadsAll(w)'
    BY <2>1 DEF ReadsAll, Reading
  <2> QED BY <1>1, <2>1, <2>2, KeepsMarksFit
<1>3. CASE col' = [col EXCEPT ![w].pc = IF col[w].batch = {} THEN "mark" ELSE "store"]
  <2>1. /\ col'[w].pc = IF col[w].batch = {} THEN "mark" ELSE "store"
        /\ col'[w].todo = col[w].todo /\ col'[w].obj = col[w].obj
        /\ col'[w].ver = col[w].ver /\ col'[w].got = col[w].got
        /\ col'[w].left = col[w].left /\ col'[w].batch = col[w].batch
    BY <1>1, <1>3 DEF WorkerState
  <2>2. KeepsObject(w)
    BY <1>1, <2>1 DEF KeepsObject
  <2>3. \A d \in Content[<<col[w].obj, col[w].got>>] :
          d \in col[w].left \cup col[w].batch \/ d < today - Window
    BY <1>1 DEF ReadsAll, Reading, Cleared
  <2>4. ReadsAll(w)'
    BY <1>1, <2>1, <2>3 DEF ReadsAll
  <2> QED BY <1>1, <2>2, <2>4, KeepsMarksFit
<1> QED BY <1>2, <1>3 DEF DeleteFirst, Statement

\* A stored batch moves its days from what is left to what is stored.
LEMMA StoreKeepsMarks ==
  ASSUME Structure, StoreInv, CompleteInv, NEW w \in Workers, StoreBatch(w)
  PROVE  MarksFit(w)' /\ ReadsAll(w)'
<1> DEFINE days == WithinLookback(col[w].batch)
<1>1. /\ col[w] \in WorkerState /\ col \in [Workers -> WorkerState] /\ col[w].pc = "store" /\ Busy(w)
      /\ MarksFit(w) /\ ReadsAll(w) /\ UNCHANGED markVars /\ UNCHANGED today
      /\ today \in Int /\ Window \in Int
  BY ConstantsAssumption, WindowFits DEF Structure, TypeOK, CompleteInv, StoreBatch, At, Busy, cloudVars, Days
<1>2. CASE HandleError(w)
  <2>1. ~Reading(w)' /\ KeepsObject(w)
    BY <1>1, <1>2, ErrorKeepsObject DEF KeepsObject
  <2>2. ReadsAll(w)'
    BY <2>1 DEF ReadsAll, Reading
  <2> QED BY <1>1, <2>1, <2>2, KeepsMarksFit
<1>3. CASE /\ col' = [col EXCEPT ![w].pc = "parse", ![w].first = FALSE, ![w].batch = {}]
           /\ StoreCostRecords(w[2], BatchRows(w)) \/ (days = {} /\ UNCHANGED stored)
  <2>1. /\ col'[w].pc = "parse" /\ col'[w].todo = col[w].todo /\ col'[w].obj = col[w].obj
        /\ col'[w].ver = col[w].ver /\ col'[w].got = col[w].got /\ col'[w].first = FALSE
        /\ col'[w].left = col[w].left /\ col'[w].batch = {}
    BY <1>1, <1>3 DEF WorkerState
  <2>2. KeepsObject(w)
    BY <1>1, <2>1 DEF KeepsObject
  <2>3. ASSUME NEW d \in Content[<<col[w].obj, col[w].got>>]
        PROVE  \/ d \in col[w].left
               \/ d < today - Window
               \/ stored'[RowOn(w, d)] > 0
    <3>1. d \in Days /\ d \in Int /\ RowOn(w, d) \in Row /\ stored[RowOn(w, d)] \in Nat
      BY <1>1, HeldRow DEF Structure, TypeOK, Days
    <3>2. CASE d \in col[w].batch /\ ~(d < today - Window)
      <4>1. d \in days
        BY <1>1, <3>1, <3>2, WindowFits DEF WithinLookback
      <4>2. RowOn(w, d) \in BatchRows(w)
        BY <3>1, <4>1 DEF BatchRows, RowsOf, RowOn
      <4>3. stored'[RowOn(w, d)] = IF w[2] = "oci" THEN stored[RowOn(w, d)] + 1 ELSE 1
        BY <1>3, <3>1, <4>1, <4>2 DEF StoreCostRecords
      <4> QED BY <3>1, <4>3
    <3>3. CASE stored[RowOn(w, d)] > 0
      <4>1. CASE StoreCostRecords(w[2], BatchRows(w))
        <5>1. stored'[RowOn(w, d)] \in {stored[RowOn(w, d)], stored[RowOn(w, d)] + 1, 1}
          BY <3>1, <4>1 DEF StoreCostRecords
        <5> QED BY <3>1, <3>3, <5>1
      <4> QED BY <1>3, <3>3, <4>1
    <3> QED BY <1>1, <3>2, <3>3 DEF ReadsAll, Reading
  <2>4. Cleared(w)' /\ \A d : RowOn(w, d)' = RowOn(w, d)
    BY <2>1 DEF Cleared, RowOn
  <2>5. ReadsAll(w)'
    BY <1>1, <2>1, <2>3, <2>4 DEF ReadsAll
  <2> QED BY <1>1, <2>2, <2>5, KeepsMarksFit
<1> QED BY <1>2, <1>3 DEF StoreBatch, Statement, BatchRows

\* An object is marked once nothing of it is left to store.
LEMMA MarkKeepsMarks ==
  ASSUME Structure, CompleteInv, NEW w \in Workers, MarkProcessed(w)
  PROVE  MarksFit(w)' /\ ReadsAll(w)'
<1> DEFINE mark == <<col[w].obj, col[w].ver>>
<1>1. /\ col[w].pc = "mark" /\ Busy(w) /\ MarksFit(w)
      /\ col[w].ver \in Nat /\ unacked \subseteq unacked'
  BY DEF CompleteInv, MarkProcessed, Statement, At, Busy, Structure, TypeOK, WorkerState
<1>2. processed' \in {processed, processed \cup {mark}}
  BY DEF MarkProcessed, Statement, MarkReportProcessed
<1>3. /\ col'[w].pc # "done" => col'[w].todo = col[w].todo
      /\ ~Reading(w)'
      /\ Busy(w)' => /\ col'[w].obj = col[w].obj /\ col'[w].ver = col[w].ver
                     /\ mark \in processed' => mark \in unacked'
  <2>1. CASE HandleError(w) /\ unacked' = IF mark \in processed' THEN unacked \cup {mark} ELSE unacked
    BY <1>1, <2>1, ErrorKeepsObject
  <2>2. CASE col' = [col EXCEPT ![w] = Leave(w, "next", 0)]
    BY <2>2, LeaveKeepsObject
  <2> QED BY <2>1, <2>2 DEF MarkProcessed, Statement
<1>4. ReadsAll(w)'
  BY <1>3 DEF ReadsAll, Reading
<1>5. MarksFit(w)'
  <2>1. SUFFICES ASSUME w[2] = "oci", col'[w].pc # "done" PROVE MarksFit(w)'
    BY DEF MarksFit
  <2>2. /\ \A x \in col[w].todo, y \in processed : y[1] = x[1] => y[2] <= x[2]
        /\ \A x, y \in col[w].todo : x[1] = y[1] => x = y
        /\ \A x \in col[w].todo : x[1] # col[w].obj
        /\ \A y \in processed : y[1] = col[w].obj => y[2] <= col[w].ver
    BY <1>1, <2>1 DEF MarksFit
  <2>3. mark[1] = col[w].obj /\ mark[2] = col[w].ver /\ mark[2] <= col[w].ver
    BY <1>1
  <2>4. /\ \A x \in col[w].todo, y \in processed' : y[1] = x[1] => y[2] <= x[2]
        /\ \A y \in processed' : y[1] = col[w].obj => y[2] <= col[w].ver
    BY <1>2, <2>2, <2>3
  <2>5. Busy(w)' => <<col'[w].obj, col'[w].ver>> \notin processed' \ unacked'
    BY <1>3
  <2> HIDE DEF mark
  <2> QED BY <1>3, <2>1, <2>2, <2>4, <2>5 DEF MarksFit
<1> QED BY <1>4, <1>5

\* The cleanup leaves the object, which is not marked.
LEMMA CleanupKeepsMarks ==
  ASSUME Structure, CompleteInv, NEW w \in Workers, CleanupPartialIngest(w)
  PROVE  MarksFit(w)' /\ ReadsAll(w)'
<1>1. /\ col[w].pc = "cleanup" /\ MarksFit(w) /\ UNCHANGED markVars /\ FailuresAfter(w) \in Nat
  BY ConstantsAssumption
     DEF CompleteInv, CleanupPartialIngest, At, FailuresAfter, Structure, TypeOK, WorkerState
<1>2. \E pc \in {"done", "next"} : col' = [col EXCEPT ![w] = Leave(w, pc, FailuresAfter(w))]
  BY DEF CleanupPartialIngest, AfterFailure
<1>3. /\ col'[w].pc # "done" => col'[w].todo = col[w].todo
      /\ ~Busy(w)' /\ ~Reading(w)'
  BY <1>1, <1>2, LeaveKeepsObject
<1>4. KeepsObject(w) /\ ReadsAll(w)'
  BY <1>1, <1>3 DEF KeepsObject, ReadsAll, Reading
<1> QED BY <1>1, <1>4, KeepsMarksFit

\* A report that a collector holds has no acknowledged mark of its present version.
LEMMA HeldIsNotMarked ==
  ASSUME Structure, CompleteInv, NEW w \in Workers, Busy(w), col[w].obj \in OciObjects
  PROVE  <<col[w].obj, bucket[col[w].obj]>> \notin processed \ unacked
<1> DEFINE o == col[w].obj
<1>1. w[2] = "oci"
  BY ConstantsAssumption DEF Structure, HeldExists, ObjectsOf
<1>2. /\ \A y \in processed : y[1] = o => y[2] <= col[w].ver
      /\ <<o, col[w].ver>> \notin processed \ unacked
  BY <1>1 DEF CompleteInv, MarksFit, Busy
<1>3. /\ col[w].ver \in Nat /\ bucket[o] \in Nat /\ col[w].ver <= bucket[o]
  BY ConstantsAssumption DEF Structure, TypeOK, HeldExists, Versions, Objects
<1>4. ASSUME <<o, bucket[o]>> \in processed PROVE bucket[o] = col[w].ver
  BY <1>2, <1>3, <1>4
<1> QED BY <1>2, <1>4

\* What a step of one collector leaves to the others.
LEMMA OthersKeepMarks ==
  ASSUME Structure, CompleteInv, NEW w \in Workers, Worker(w), NEW v \in Workers, v # w
  PROVE  MarksFit(v)' /\ ReadsAll(v)'
<1>1. /\ col'[v] = col[v] /\ UNCHANGED <<today, bucket>> /\ MarksFit(v) /\ ReadsAll(v) /\ WritesOwn(w)
      /\ unacked \subseteq unacked'
  <2>1. unacked \subseteq unacked'
    BY DEF Worker, ListObjects, SkipObject, GetObject, EndLoop, ParseStream, DeleteFirst, StoreBatch,
      MarkProcessed, Statement, CleanupPartialIngest, storeVars, markVars
  <2> QED BY <2>1, WorkerWritesOwn, WorkerStep DEF WritesOwn, WorkerMoves, CompleteInv
<1>2. MarksFit(v)'
  <2>1. CASE UNCHANGED markVars
    BY <1>1, <2>1 DEF MarksFit, Busy, markVars
  <2>2. CASE MarkProcessed(w)
    <3>1. SUFFICES ASSUME v[2] = "oci", col[v].pc # "done" PROVE MarksFit(v)'
      BY <1>1 DEF MarksFit
    <3>2. Busy(w) /\ col[w].pc # "done"
      BY <2>2 DEF MarkProcessed, At, Busy
    <3>3. w[2] = "aws"
      BY <3>1, <3>2, ActiveApart DEF Workers, Providers
    <3>4. col[w].obj \notin OciObjects
      BY <3>2, <3>3, ConstantsAssumption DEF Structure, HeldExists, ObjectsOf
    <3>5. \A y \in processed' \ processed : y[1] \notin OciObjects
      BY <2>2, <3>4 DEF MarkProcessed, Statement, MarkReportProcessed
    <3>6. /\ \A x \in col[v].todo : x[1] \in OciObjects
          /\ Busy(v) => col[v].obj \in OciObjects
      BY <3>1 DEF Structure, ListedExists, HeldExists, ObjectsOf
    <3> QED BY <1>1, <3>1, <3>5, <3>6 DEF MarksFit, Busy
  <2>3. UNCHANGED markVars \/ MarkProcessed(w)
    BY DEF Worker, ListObjects, SkipObject, GetObject, EndLoop, ParseStream, DeleteFirst, StoreBatch,
      CleanupPartialIngest, storeVars
  <2> QED BY <2>1, <2>2, <2>3
<1>3. ReadsAll(v)'
  <2>1. ASSUME Reading(v), NEW d \in Content[<<col[v].obj, col[v].got>>]
        PROVE  stored'[RowOn(v, d)] = stored[RowOn(v, d)]
    <3>1. Busy(v) /\ RowOn(v, d) \in Row /\ RowOn(v, d).obj = col[v].obj
      BY <2>1, HeldRow DEF Reading, Busy, RowOn
    <3>2. Busy(w) => RowOn(v, d).obj # col[w].obj
      BY <3>1, HeldApart
    <3> QED BY <1>1, <3>1, <3>2 DEF WritesOwn
  <2>2. \A d : RowOn(v, d)' = RowOn(v, d)
    BY <1>1 DEF RowOn
  <2> QED BY <1>1, <2>1, <2>2 DEF ReadsAll, Reading, Cleared
<1> QED BY <1>2, <1>3

\* A step of a collector keeps what is processed complete.
LEMMA WorkerKeepsComplete ==
  ASSUME Structure, StoreInv, CompleteInv, NEW w \in Workers, Worker(w)
  PROVE  MarksExist' /\ ProcessedComplete'
<1>1. UNCHANGED <<today, bucket>> /\ WritesOwn(w)
  BY WorkerStep, WorkerWritesOwn DEF WorkerMoves
<1>2. ASSUME UNCHANGED markVars PROVE MarksExist' /\ ProcessedComplete'
  <2>1. MarksExist'
    BY <1>1, <1>2 DEF CompleteInv, MarksExist, markVars
  <2>2. ASSUME NEW o \in OciObjects, <<o, bucket[o]>> \in processed \ unacked
        PROVE  \A r \in Row : r.obj = o => stored'[r] = stored[r]
    <3>1. Busy(w) => col[w].obj # o
      BY <2>2, HeldIsNotMarked
    <3> QED BY <1>1, <3>1 DEF WritesOwn
  <2>3. ASSUME NEW o \in OciObjects, <<o, bucket[o]>> \in processed' \ unacked'
        PROVE  /\ RowsOf(o, bucket[o], Recent(Content[<<o, bucket[o]>>])) \subseteq InStore'
               /\ \A r \in InStore' : r.obj = o => r.ver = bucket[o]
    <3>1. <<o, bucket[o]>> \in processed \ unacked
      BY <1>2, <2>3 DEF markVars
    <3>2. \A r \in Row : r.obj = o => (r \in InStore' <=> r \in InStore)
      BY <2>2, <3>1 DEF InStore
    <3>3. /\ RowsOf(o, bucket[o], Recent(Content[<<o, bucket[o]>>])) \subseteq InStore
          /\ \A r \in InStore : r.obj = o => r.ver = bucket[o]
      BY <3>1 DEF CompleteInv, ProcessedComplete
    <3>4. InStore' \subseteq Row
      BY DEF InStore
    <3> QED BY <3>2, <3>3, <3>4 DEF RowsOf
  <2>4. ProcessedComplete'
    BY <1>1, <2>3 DEF ProcessedComplete, Recent, RowsOf, InStore
  <2> QED BY <2>1, <2>4
<1>3. CASE MarkProcessed(w)
  <2> DEFINE mark == <<col[w].obj, col[w].ver>>
  <2>1. /\ col[w].pc = "mark" /\ Busy(w) /\ UNCHANGED stored /\ unacked \subseteq unacked'
        /\ processed' \in {processed, processed \cup {mark}}
    BY <1>3 DEF MarkProcessed, Statement, MarkReportProcessed, At, Busy
  <2>2. /\ col[w].ver \in Nat /\ col[w].got \in Nat /\ col[w].obj \in Objects
        /\ bucket[col[w].obj] \in Nat
        /\ col[w].ver <= col[w].got /\ col[w].got <= bucket[col[w].obj]
    BY <2>1, ConstantsAssumption DEF Structure, TypeOK, HeldExists, Versions, Objects, ObjectsOf
  <2>3. MarksExist'
    BY <1>1, <2>1, <2>2 DEF CompleteInv, MarksExist
  <2>4. ASSUME NEW o \in OciObjects, <<o, bucket[o]>> \in processed' \ unacked'
        PROVE  /\ RowsOf(o, bucket[o], Recent(Content[<<o, bucket[o]>>])) \subseteq InStore
               /\ \A r \in InStore : r.obj = o => r.ver = bucket[o]
    <3>1. CASE <<o, bucket[o]>> \in processed \ unacked
      BY <3>1 DEF CompleteInv, ProcessedComplete
    <3>2. CASE <<o, bucket[o]>> = mark
      <4>1. o = col[w].obj /\ bucket[o] = col[w].got
        BY <2>2, <3>2
      <4>2. col[w].left = {} /\ col[w].batch = {} /\ ReadsAll(w) /\ OnlyFlushed(w) /\ Cleared(w)
        BY <2>1 DEF CompleteInv, ReadsAll, StoreInv, ClearedHoldsFlushed, Cleared
      <4>3. \A d \in Content[<<o, bucket[o]>>] : d < today - Window \/ stored[RowOn(w, d)] > 0
        BY <2>1, <4>1, <4>2 DEF ReadsAll, Reading
      <4>4. \A d \in Content[<<o, bucket[o]>>] : d \in Int
        BY <2>1, <4>1, HeldRow DEF Days
      <4>5. today \in Int /\ Window \in Int
        BY ConstantsAssumption, WindowFits DEF Structure, TypeOK, Days
      <4>6. ASSUME NEW r \in RowsOf(o, bucket[o], Recent(Content[<<o, bucket[o]>>]))
            PROVE  r \in InStore
        <5>1. /\ r \in Row /\ r.obj = o /\ r.ver = bucket[o]
              /\ r.day \in Content[<<o, bucket[o]>>] /\ r.day >= today - Window
          BY DEF RowsOf, Recent
        <5>2. r = RowOn(w, r.day)
          BY <4>1, <5>1 DEF Row, RowOn
        <5> QED BY <4>3, <4>4, <4>5, <5>1, <5>2 DEF InStore
      <4>7. \A r \in InStore : r.obj = o => r.ver = bucket[o]
        BY <4>1, <4>2 DEF OnlyFlushed, InStore
      <4> QED BY <4>6, <4>7
    <3> QED BY <2>1, <2>4, <3>1, <3>2
  <2>5. InStore' = InStore /\ \A days : Recent(days)' = Recent(days)
    BY <1>1, <2>1 DEF InStore, Recent
  <2>6. ProcessedComplete'
    BY <1>1, <2>4, <2>5 DEF ProcessedComplete, Recent, RowsOf, InStore
  <2> QED BY <2>3, <2>6
<1>4. UNCHANGED markVars \/ MarkProcessed(w)
  BY DEF Worker, ListObjects, SkipObject, GetObject, EndLoop, ParseStream, DeleteFirst, StoreBatch,
    CleanupPartialIngest, storeVars
<1> QED BY <1>2, <1>3, <1>4

\* Every step of a collector keeps what the marks promise.
LEMMA WorkerKeepsCompleteInv ==
  ASSUME Structure, StoreInv, CompleteInv, NEW w \in Workers, Worker(w)
  PROVE  CompleteInv'
<1>1. MarksFit(w)' /\ ReadsAll(w)'
  BY LoopKeepsMarks, ParseKeepsMarks, DeleteKeepsMarks, StoreKeepsMarks, MarkKeepsMarks,
    CleanupKeepsMarks DEF Worker
<1>2. \A v \in Workers : MarksFit(v)' /\ ReadsAll(v)'
  BY <1>1, OthersKeepMarks
<1> QED BY <1>2, WorkerKeepsComplete DEF CompleteInv

\* A step that leaves the collectors and the marks alone, and of the rows only drops
\* some that are outside the lookback window.
LEMMA RestKeepsComplete ==
  ASSUME Structure, CompleteInv, UNCHANGED <<bucket, markVars, col>>,
         today' \in Int, today <= today',
         \A r \in Row : stored'[r] = stored[r] \/ (stored'[r] = 0 /\ r.day < today' - Window)
  PROVE  CompleteInv'
<1>1. /\ today \in Int /\ Window \in Int /\ \A r \in Row : stored[r] \in Nat /\ r.day \in Int
      /\ \A d \in Days : d \in Int
  <2>1. /\ today \in Days
        /\ Window \in Int
    <3>1. today \in Days
      BY DEF Structure, TypeOK
    <3>2. Window \in Int
      BY WindowFits
    <3> QED BY <3>1, <3>2
  <2>2. Days \subseteq Int
    BY ConstantsAssumption DEF Days
  <2>3. stored \in [Row -> Nat]
    BY DEF Structure, TypeOK
  <2>4. \A r \in Row : r.day \in Days
    BY DEF Row
  <2> QED BY <2>1, <2>2, <2>3, <2>4
<1>2. MarksExist' /\ \A w \in Workers : MarksFit(w)'
  BY DEF CompleteInv, MarksExist, MarksFit, Busy, markVars
<1>3. ASSUME NEW w \in Workers PROVE ReadsAll(w)'
  <2>1. ASSUME Reading(w), NEW d \in Content[<<col[w].obj, col[w].got>>]
        PROVE  \/ d \in col[w].left \cup col[w].batch
               \/ d < today' - Window
               \/ Cleared(w) /\ stored'[RowOn(w, d)] > 0
    <3>1. d \in Int /\ RowOn(w, d) \in Row /\ RowOn(w, d).day = d
      BY <1>1, <2>1, HeldRow DEF Reading, Busy, RowOn
    <3>2. \/ d \in col[w].left \cup col[w].batch
          \/ d < today - Window
          \/ Cleared(w) /\ stored[RowOn(w, d)] > 0
      BY <2>1 DEF CompleteInv, ReadsAll
    <3>3. d < today - Window => d < today' - Window
      <4>1. today \in Int /\ Window \in Int
        BY <1>1
      <4> QED BY <3>1, <4>1, LaterIsPast
    <3>4. stored'[RowOn(w, d)] = stored[RowOn(w, d)] \/ d < today' - Window
      BY <3>1
    <3> QED BY <3>2, <3>3, <3>4
  <2>2. \A d : RowOn(w, d)' = RowOn(w, d)
    BY DEF RowOn
  <2> QED BY <2>1, <2>2 DEF CompleteInv, ReadsAll, Reading, Cleared
<1>4. ASSUME NEW o \in OciObjects, <<o, bucket[o]>> \in processed \ unacked
      PROVE  /\ RowsOf(o, bucket[o], {d \in Content[<<o, bucket[o]>>] : d >= today' - Window}) \subseteq InStore'
             /\ \A r \in InStore' : r.obj = o => r.ver = bucket[o]
  <2>1. /\ RowsOf(o, bucket[o], Recent(Content[<<o, bucket[o]>>])) \subseteq InStore
        /\ \A r \in InStore : r.obj = o => r.ver = bucket[o]
    BY <1>4 DEF CompleteInv, ProcessedComplete
  <2>2. InStore' \subseteq InStore
    BY <1>1 DEF InStore
  <2>3. ASSUME NEW r \in Row, r.obj = o, r.ver = bucket[o],
               r.day \in Content[<<o, bucket[o]>>], r.day >= today' - Window
        PROVE  r \in InStore'
    <3>1. r.day >= today - Window /\ ~(r.day < today' - Window)
      BY <1>1, <2>3
    <3>2. r \in InStore
      BY <2>1, <2>3, <3>1 DEF RowsOf, Recent
    <3> QED BY <1>1, <3>1, <3>2 DEF InStore
  <2>4. \A r \in RowsOf(o, bucket[o], {d \in Content[<<o, bucket[o]>>] : d >= today' - Window}) :
          r \in Row /\ r.obj = o /\ r.ver = bucket[o] /\ r.day \in Content[<<o, bucket[o]>>]
          /\ r.day >= today' - Window
    BY DEF RowsOf
  <2> QED BY <2>1, <2>2, <2>3, <2>4
<1>5. ProcessedComplete'
  BY <1>4 DEF ProcessedComplete, RowsOf, Recent, InStore, markVars
<1> QED BY <1>2, <1>3, <1>5 DEF CompleteInv

\* A step that resets collectors changes nothing else here.
LEMMA ResetKeepsComplete ==
  ASSUME CompleteInv, UNCHANGED <<today, bucket, stored, markVars>>,
         \A w \in Workers : \/ col'[w] = col[w]
                            \/ col'[w].pc \in {"done", "list"} /\ col'[w].todo = {}
  PROVE  CompleteInv'
<1>1. MarksExist' /\ ProcessedComplete'
  BY DEF CompleteInv, MarksExist, ProcessedComplete, RowsOf, Recent, InStore, markVars
<1>2. ASSUME NEW w \in Workers PROVE MarksFit(w)' /\ ReadsAll(w)'
  <2>1. CASE col'[w] = col[w]
    BY <2>1 DEF CompleteInv, MarksFit, ReadsAll, Reading, Cleared, Busy, RowOn, markVars
  <2>2. CASE col'[w].pc \in {"done", "list"} /\ col'[w].todo = {}
    BY <2>2 DEF MarksFit, ReadsAll, Reading, Busy
  <2> QED BY <2>1, <2>2
<1> QED BY <1>1, <1>2 DEF CompleteInv

\* The cloud writes a version that no mark names.
LEMMA UploadKeepsComplete ==
  ASSUME Structure, CompleteInv, NEW o \in Objects, Upload(o)
  PROVE  CompleteInv'
<1>1. /\ bucket \in [Objects -> 0..MaxVersion] /\ MaxVersion \in Nat
      /\ processed \subseteq Objects \X Versions
      /\ bucket' = [bucket EXCEPT ![o] = @ + 1]
      /\ UNCHANGED <<today, stored, markVars, col>>
  BY ConstantsAssumption DEF Structure, TypeOK, Upload, storeVars
<1>2. \A q \in Objects : bucket'[q] = IF q = o THEN bucket[q] + 1 ELSE bucket[q]
  BY <1>1
<1>3. /\ \A x \in processed : x[1] \in Objects /\ x[2] \in Nat /\ x[2] <= bucket[x[1]]
      /\ \A q \in Objects : bucket[q] \in Nat
  BY <1>1 DEF CompleteInv, MarksExist, Versions
<1>4. MarksExist'
  BY <1>1, <1>2, <1>3 DEF MarksExist, markVars
<1>5. \A w \in Workers : MarksFit(w)' /\ ReadsAll(w)'
  BY <1>1 DEF CompleteInv, MarksFit, ReadsAll, Reading, Cleared, Busy, RowOn, markVars
<1>6. ASSUME NEW q \in OciObjects, <<q, bucket'[q]>> \in processed PROVE bucket'[q] = bucket[q]
  <2>1. q \in Objects /\ bucket'[q] <= bucket[q]
    BY <1>3, <1>6 DEF Objects
  <2> QED BY <1>2, <1>3, <2>1
<1>7. ProcessedComplete'
  <2>1. ASSUME NEW q \in OciObjects, <<q, bucket'[q]>> \in processed \ unacked
        PROVE  /\ RowsOf(q, bucket'[q], Recent(Content[<<q, bucket'[q]>>])) \subseteq InStore
               /\ \A r \in InStore : r.obj = q => r.ver = bucket'[q]
    <3>1. bucket'[q] = bucket[q]
      BY <1>6, <2>1
    <3>2. <<q, bucket[q]>> \in processed \ unacked
      BY <2>1, <3>1
    <3>3. /\ RowsOf(q, bucket[q], Recent(Content[<<q, bucket[q]>>])) \subseteq InStore
          /\ \A r \in InStore : r.obj = q => r.ver = bucket[q]
      BY <3>2 DEF CompleteInv, ProcessedComplete
    <3> QED BY <3>1, <3>3
  <2> QED BY <1>1, <2>1 DEF ProcessedComplete, Recent, RowsOf, InStore, markVars
<1> QED BY <1>4, <1>5, <1>7 DEF CompleteInv

\* Nothing is marked at the start.
LEMMA InitComplete == Init => CompleteInv
BY DEF Init, CompleteInv, MarksExist, MarksFit, ReadsAll, Reading, IdleWorker, ProcessedComplete

\* Every step of the system keeps what the marks promise.
LEMMA CompleteStep == Structure /\ StoreInv /\ CompleteInv /\ [Next]_vars => CompleteInv'
<1> SUFFICES ASSUME Structure, StoreInv, CompleteInv, [Next]_vars PROVE CompleteInv'
  OBVIOUS
<1>1. /\ today \in Int /\ today <= today /\ stored \in [Row -> Nat] /\ col \in [Workers -> WorkerState]
      /\ \A r \in Row : r.day \in Int
  BY ConstantsAssumption DEF Structure, TypeOK, Row, Days
<1>2. CASE Tick
  <2>1. /\ UNCHANGED <<bucket, markVars, col, stored>> /\ today' = today + 1
    BY <1>2 DEF Tick, storeVars
  <2> QED BY <1>1, <2>1, RestKeepsComplete
<1>3. CASE UNCHANGED vars
  <2>1. UNCHANGED <<bucket, markVars, col, stored, today>>
    BY <1>3 DEF vars, cloudVars, storeVars
  <2> QED BY <1>1, <2>1, RestKeepsComplete
<1>4. CASE Crash
  <2>1. /\ UNCHANGED <<today, bucket, stored, markVars>>
        /\ \A w \in Workers : col'[w].pc = "done" /\ col'[w].todo = {}
    BY <1>4 DEF Crash, cloudVars, storeVars, IdleWorker
  <2> QED BY <2>1, ResetKeepsComplete
<1>5. ASSUME NEW c \in Callers, StartRun(c) PROVE CompleteInv'
  <2>1. UNCHANGED <<today, bucket, stored, markVars>>
    BY <1>5 DEF StartRun, cloudVars, storeVars
  <2>2. \A w \in Workers : \/ col'[w] = col[w]
                           \/ col'[w].pc = "list" /\ col'[w].todo = {}
    BY <1>5 DEF StartRun, IdleWorker
  <2> QED BY <2>1, <2>2, ResetKeepsComplete
<1>6. ASSUME NEW c \in Callers, RunTail(c) PROVE CompleteInv'
  <2>1. UNCHANGED <<bucket, markVars, col, today>>
    BY <1>6 DEF RunTail, WaitCollectors, RefreshDashboard, PruneRecords, PruneAnalytics,
      cloudVars, storeVars
  <2>2. \/ UNCHANGED stored
        \/ stored' = [r \in Row |-> IF Expired(r.day) THEN 0 ELSE stored[r]]
    BY <1>6 DEF RunTail, WaitCollectors, RefreshDashboard, PruneRecords, PruneAnalytics, storeVars
  <2>3. \A r \in Row : stored'[r] = stored[r] \/ (stored'[r] = 0 /\ Expired(r.day))
    BY <2>2
  <2>4. \A r \in Row : Expired(r.day) => r.day < today' - Window
    BY <1>1, <2>1, WindowFits DEF Expired
  <2> QED BY <1>1, <2>1, <2>3, <2>4, RestKeepsComplete
<1> QED BY <1>2, <1>3, <1>4, <1>5, <1>6, UploadKeepsComplete, WorkerKeepsCompleteInv DEF Next

\* ProcessedComplete: whatever fails, crashes or is rewritten in the meantime, a report
\* whose present version is marked has all its recent rows stored, and no others.
THEOREM MarkedIsComplete == Spec => []ProcessedComplete
<1>1. Spec => []CompleteInv
  BY StoreInvariant, InitComplete, CompleteStep, PTL DEF Spec
<1> QED BY <1>1, PTL DEF CompleteInv

-----------------------------------------------------------------------------
(* What the summaries cover.                                               *)

\* The run that inserted rows has yet to refresh the day.
Awaits(d) == \E c \in Callers : phase[c] \in {"collect", "dashboard"} /\ d \in FromDay(c)

\* SummariesCoverStore speaks of the time between runs.  While a run is under way, a
\* row that is in no summary waits for the run's refresh, which starts at the earliest
\* day the run has inserted.
RowsAwaited ==
  \A r \in InStore : r.day \in lost \/ Expired(r.day) \/ r \in daily \/ Awaits(r.day)

\* The refresh has a first day.
RefreshHasDays == \A c \in Callers : phase[c] = "dashboard" => inserted[c] # {}

SummaryInv == RowsAwaited /\ RefreshHasDays

\* No rows await a summary at the start.
LEMMA InitSummary == Init => SummaryInv
BY DEF Init, SummaryInv, RowsAwaited, RefreshHasDays, InStore

\* A bound below a bound.
LEMMA BelowBound ==
  ASSUME NEW d \in Int, NEW m \in Int, NEW n \in Int, d >= m, n <= m
  PROVE  d >= n
OBVIOUS

\* A run that inserts more never refreshes less.
LEMMA AwaitsGrows ==
  ASSUME Structure, Structure', UNCHANGED phase,
         \A c \in Callers : inserted[c] \subseteq inserted'[c],
         NEW d \in Days, Awaits(d)
  PROVE  Awaits(d)'
<1>1. PICK c \in Callers : phase[c] \in {"collect", "dashboard"} /\ d \in FromDay(c)
  BY DEF Awaits
<1>2. inserted[c] # {} /\ d >= Min(inserted[c])
  BY <1>1 DEF FromDay, Since
<1>3. inserted[c] \in SUBSET Days /\ inserted'[c] \in SUBSET Days /\ Days \subseteq Nat
  BY ConstantsAssumption DEF Structure, TypeOK, Days
<1>4. Min(inserted[c]) \in inserted[c]
  BY <1>2, <1>3, MinOfNaturals
<1>5. /\ Min(inserted'[c]) \in inserted'[c]
      /\ \A e \in inserted'[c] : Min(inserted'[c]) <= e
  BY <1>3, <1>4, MinOfNaturals
<1>6. d >= Min(inserted'[c])
  <2>1. Min(inserted[c]) \in Int /\ Min(inserted'[c]) \in Int /\ d \in Int
    <3>1. Min(inserted[c]) \in Nat
      BY <1>3, <1>4
    <3>2. Min(inserted'[c]) \in Nat
      BY <1>3, <1>5
    <3>3. d \in Nat
      BY <1>3
    <3> QED BY <3>1, <3>2, <3>3
  <2>2. Min(inserted'[c]) <= Min(inserted[c])
    <3>1. Min(inserted[c]) \in inserted'[c]
      BY <1>4
    <3> QED BY <1>5, <3>1
  <2> QED BY <1>2, <2>1, <2>2, BelowBound
<1>7. d \in FromDay(c)'
  BY <1>4, <1>6 DEF FromDay, Since
<1> QED BY <1>1, <1>7 DEF Awaits

\* A day that the run has inserted awaits its refresh.
LEMMA InsertedAwaits ==
  ASSUME Structure', NEW c \in Callers, phase'[c] = "collect", NEW d \in inserted'[c]
  PROVE  Awaits(d)'
<1>1. inserted'[c] \in SUBSET Days /\ Days \subseteq Nat
  BY ConstantsAssumption DEF Structure, TypeOK, Days
<1>2. Min(inserted'[c]) <= d /\ d \in Days
  BY <1>1, MinOfNaturals
<1>3. d \in FromDay(c)' /\ phase'[c] \in {"collect", "dashboard"}
  BY <1>1, <1>2 DEF FromDay, Since
<1> QED BY <1>3 DEF Awaits

\* A step that stores no row and takes none from the summaries.
LEMMA NothingNewKeepsAwaited ==
  ASSUME Structure, RowsAwaited, today' \in Int, today <= today', InStore' \subseteq InStore,
         lost \subseteq lost',
         \A r \in daily : r \in daily' \/ Expired(r.day),
         \A d \in Days : Awaits(d) => Awaits(d)' \/ d \in lost'
  PROVE  RowsAwaited'
<1>1. /\ today \in Int /\ Retention \in Int /\ Days \subseteq Int
      /\ \A r \in Row : r.day \in Days
  <2>1. today \in Days /\ Days \subseteq Int
    BY ConstantsAssumption DEF Structure, TypeOK, Days
  <2>2. Retention \in Int
    BY ConstantsAssumption
  <2>3. \A r \in Row : r.day \in Days
    BY DEF Row
  <2> QED BY <2>1, <2>2, <2>3
<1>2. ASSUME NEW d \in Days, Expired(d) PROVE Expired(d)'
  <2>1. d \in Int /\ d < today - Retention
    BY <1>1, <1>2 DEF Expired
  <2>2. d < today' - Retention
    BY <1>1, <2>1, LaterIsPast
  <2> QED BY <2>2 DEF Expired
<1>3. SUFFICES ASSUME NEW r \in InStore'
               PROVE  \/ r.day \in lost' \/ Expired(r.day)' \/ r \in daily'
                      \/ Awaits(r.day)'
  BY DEF RowsAwaited
<1>4. r \in Row /\ r \in InStore
  BY <1>3 DEF InStore
<1>5. r.day \in Days
  BY <1>1, <1>4
<1>6. r.day \in lost \/ Expired(r.day) \/ r \in daily \/ Awaits(r.day)
  BY <1>4 DEF RowsAwaited
<1> QED BY <1>2, <1>5, <1>6

\* Of the collectors' steps only the insert of a batch stores rows.
LEMMA BatchIsAwaited ==
  ASSUME Structure, Structure', RowsAwaited, NEW w \in Workers, StoreBatch(w)
  PROVE  RowsAwaited'
<1> DEFINE days == WithinLookback(col[w].batch)
<1>1. /\ UNCHANGED <<today, daily, phase>>
      /\ w[1] \in Callers /\ phase[w[1]] = "collect"
  BY DEF StoreBatch, At, cloudVars, Workers
<1>2. /\ \A c \in Callers : inserted[c] \subseteq inserted'[c]
      /\ lost \subseteq lost'
  <2>1. inserted \in [Callers -> SUBSET Days]
    BY DEF Structure, TypeOK
  <2> QED BY <1>1, <2>1 DEF StoreBatch, Statement
<1>3. ASSUME NEW r \in Row, r \in InStore' \ InStore
      PROVE  r.day \in lost' \/ Awaits(r.day)'
  <2>1. StoreCostRecords(w[2], RowsOf(col[w].obj, col[w].got, days)) /\ stored' # stored
    BY <1>3 DEF StoreBatch, Statement, InStore
  <2>2. r \in RowsOf(col[w].obj, col[w].got, days)
    <3>1. stored'[r] # stored[r]
      BY <1>3 DEF InStore
    <3> QED BY <2>1, <3>1 DEF StoreCostRecords
  <2>3. r.day \in days
    BY <2>2 DEF RowsOf
  <2>4. CASE inserted' = [inserted EXCEPT ![w[1]] = @ \cup days]
    <3>1. r.day \in inserted'[w[1]]
      BY <1>1, <2>3, <2>4 DEF Structure, TypeOK
    <3> QED BY <1>1, <3>1, InsertedAwaits
  <2>5. CASE lost' = IF stored' = stored THEN lost ELSE lost \cup days
    BY <2>1, <2>3, <2>5
  <2> QED BY <2>1, <2>4, <2>5 DEF StoreBatch, Statement
<1>4. ASSUME NEW r \in InStore
      PROVE  r.day \in lost' \/ Expired(r.day)' \/ r \in daily' \/ Awaits(r.day)'
  <2>1. r.day \in lost \/ Expired(r.day) \/ r \in daily \/ Awaits(r.day)
    BY <1>4 DEF RowsAwaited
  <2>2. r.day \in Days
    BY <1>4 DEF InStore, Row
  <2>3. Awaits(r.day) => Awaits(r.day)'
    BY <1>1, <1>2, <2>2, AwaitsGrows
  <2> QED BY <1>1, <1>2, <2>1, <2>3 DEF Expired
<1>5. \A r \in InStore' : r \in Row
  BY DEF InStore
<1> QED BY <1>3, <1>4, <1>5 DEF RowsAwaited

\* Every step of a collector leaves each row covered or awaited.
LEMMA WorkerKeepsAwaited ==
  ASSUME Structure, Structure', RowsAwaited, NEW w \in Workers, Worker(w)
  PROVE  RowsAwaited'
<1>1. CASE StoreBatch(w)
  BY <1>1, BatchIsAwaited
<1>2. CASE ListObjects(w) \/ SkipObject(w) \/ GetObject(w) \/ EndLoop(w)
           \/ ParseStream(w) \/ DeleteFirst(w) \/ MarkProcessed(w) \/ CleanupPartialIngest(w)
  <2>1. UNCHANGED <<today, phase, inserted, daily, lost>>
    BY <1>2 DEF ListObjects, SkipObject, GetObject, EndLoop, ParseStream, DeleteFirst,
      MarkProcessed, CleanupPartialIngest, cloudVars, summaryVars, runVars
  <2>2. UNCHANGED stored \/ DeleteCostRecordsForSource(col[w].obj)
    BY <1>2 DEF ListObjects, SkipObject, GetObject, EndLoop, ParseStream, DeleteFirst,
      MarkProcessed, CleanupPartialIngest, Statement, storeVars
  <2>3. InStore' \subseteq InStore
    BY <2>2 DEF InStore, DeleteCostRecordsForSource
  <2>4. today' \in Int /\ today <= today'
    BY <2>1, ConstantsAssumption DEF Structure, TypeOK, Days
  <2>5. \A d \in Days : Awaits(d) => Awaits(d)'
    BY <2>1, AwaitsGrows
  <2> QED BY <2>1, <2>3, <2>4, <2>5, NothingNewKeepsAwaited
<1> QED BY <1>1, <1>2 DEF Worker

\* Only the run that holds the lock awaits a refresh.
LEMMA OneRunAwaits ==
  ASSUME Structure, NEW c \in Callers, runMu = c, NEW d, Awaits(d)
  PROVE  phase[c] \in {"collect", "dashboard"} /\ d \in FromDay(c)
<1>1. PICK b \in Callers : phase[b] \in {"collect", "dashboard"} /\ d \in FromDay(b)
  BY DEF Awaits
<1>2. b = c
  BY <1>1 DEF Structure, RunsHoldLock
<1> QED BY <1>1, <1>2

\* The refresh takes every awaited row into the summaries, or its days are lost.
LEMMA RefreshKeepsAwaited ==
  ASSUME Structure, SummaryInv, NEW c \in Callers, RefreshDashboard(c)
  PROVE  RowsAwaited'
<1>1. /\ UNCHANGED <<today, stored>> /\ phase[c] = "dashboard" /\ inserted[c] # {}
      /\ runMu = c
  BY DEF RefreshDashboard, SummaryInv, RefreshHasDays, Structure, RunsHoldLock, cloudVars,
    storeVars
<1>2. SUFFICES ASSUME NEW r \in InStore, ~Expired(r.day)
               PROVE  r.day \in lost' \/ r \in daily'
  BY <1>1 DEF RowsAwaited, InStore, Expired
<1>3. r.day \in lost \/ r \in daily \/ r.day \in FromDay(c)
  BY <1>1, <1>2, OneRunAwaits DEF SummaryInv, RowsAwaited
<1>4. r.day \in Days
  BY <1>2 DEF InStore, Row
<1>5. CASE lost' = lost \cup FromDay(c) /\ UNCHANGED daily
  BY <1>3, <1>5
<1>6. CASE /\ daily' = PrunedDaily(Recomputed(daily, Since(c)))
           /\ lost' = lost \ FromDay(c)
  <2>1. inserted[c] \in SUBSET Days /\ Days \subseteq Nat
    BY ConstantsAssumption DEF Structure, TypeOK, Days
  <2>2. Since(c) \in Int /\ r.day \in Int
    <3>1. Since(c) \in inserted[c]
      BY <1>1, <2>1, MinOfNaturals DEF Since
    <3>2. Since(c) \in Nat
      BY <2>1, <3>1
    <3>3. r.day \in Nat
      BY <1>4, <2>1
    <3> QED BY <3>2, <3>3
  <2>3. CASE r.day >= Since(c)
    BY <1>2, <1>6, <2>3 DEF PrunedDaily, Recomputed
  <2>4. CASE r.day < Since(c)
    <3>1. r.day \notin FromDay(c)
      <4>1. ~(r.day >= Since(c))
        BY <2>2, <2>4
      <4> QED BY <4>1 DEF FromDay
    <3>2. r \in daily => r \in daily'
      BY <1>2, <1>6, <2>4 DEF PrunedDaily, Recomputed
    <3> QED BY <1>3, <1>6, <3>1, <3>2
  <2> QED BY <2>2, <2>3, <2>4
<1> QED BY <1>5, <1>6 DEF RefreshDashboard

\* The rest of the end of a run only lets expired rows go.
LEMMA TailKeepsAwaited ==
  ASSUME Structure, SummaryInv, NEW c \in Callers,
         WaitCollectors(c) \/ PruneRecords(c) \/ PruneAnalytics(c)
  PROVE  RowsAwaited'
<1>1. UNCHANGED <<today, lost, inserted>>
  BY DEF WaitCollectors, PruneRecords, PruneAnalytics, cloudVars, summaryVars
<1>2. today' \in Int /\ today <= today'
  BY <1>1, ConstantsAssumption DEF Structure, TypeOK, Days
<1>3. InStore' \subseteq InStore
  <2>1. UNCHANGED stored \/ stored' = [r \in Row |-> IF Expired(r.day) THEN 0 ELSE stored[r]]
    BY DEF WaitCollectors, PruneRecords, PruneAnalytics, storeVars
  <2> QED BY <2>1 DEF InStore
<1>4. \A r \in daily : r \in daily' \/ Expired(r.day)
  <2>1. UNCHANGED daily \/ daily' = PrunedDaily(daily)
    BY DEF WaitCollectors, PruneRecords, PruneAnalytics, summaryVars
  <2> QED BY <2>1 DEF PrunedDaily
<1>5. ASSUME NEW d \in Days, Awaits(d) PROVE Awaits(d)'
  <2>1. PICK b \in Callers : phase[b] \in {"collect", "dashboard"} /\ d \in FromDay(b)
    BY <1>5 DEF Awaits
  <2>2. d \in FromDay(b)' /\ inserted[b] # {}
    BY <1>1, <2>1 DEF FromDay, Since
  <2>3. phase \in [Callers -> Phases]
    BY DEF Structure, TypeOK
  <2>4. phase'[b] \in {"collect", "dashboard"}
    BY <2>1, <2>2, <2>3 DEF WaitCollectors, PruneRecords, PruneAnalytics
  <2> QED BY <2>2, <2>4 DEF Awaits
<1> QED BY <1>1, <1>2, <1>3, <1>4, <1>5, NothingNewKeepsAwaited DEF SummaryInv

\* A run that is waiting to refresh has days to refresh.
LEMMA RefreshHasDaysStep ==
  ASSUME Structure, SummaryInv, [Next]_vars
  PROVE  RefreshHasDays'
<1>1. CASE Tick \/ UNCHANGED vars \/ \E o \in Objects : Upload(o)
  <2>1. UNCHANGED <<phase, inserted>>
    BY <1>1 DEF Tick, Upload, vars, runVars
  <2> QED BY <2>1 DEF SummaryInv, RefreshHasDays
<1>2. CASE Crash
  BY <1>2 DEF Crash, RefreshHasDays
<1>3. ASSUME NEW c \in Callers, StartRun(c) PROVE RefreshHasDays'
  BY <1>3 DEF StartRun, Structure, TypeOK, SummaryInv, RefreshHasDays
<1>4. ASSUME NEW c \in Callers, RunTail(c) PROVE RefreshHasDays'
  <2>1. inserted' = inserted /\ phase \in [Callers -> Phases]
    BY <1>4 DEF RunTail, WaitCollectors, RefreshDashboard, PruneRecords, PruneAnalytics,
      Structure, TypeOK
  <2>2. \A b \in Callers : phase'[b] = "dashboard" => phase[b] = "dashboard" \/ inserted[b] # {}
    BY <1>4, <2>1 DEF RunTail, WaitCollectors, RefreshDashboard, PruneRecords, PruneAnalytics
  <2> QED BY <2>1, <2>2 DEF SummaryInv, RefreshHasDays
<1>5. ASSUME NEW w \in Workers, Worker(w) PROVE RefreshHasDays'
  <2>1. UNCHANGED phase /\ phase[w[1]] = "collect"
    BY <1>5, WorkerStep DEF WorkerMoves
  <2>2. \A c \in Callers : inserted'[c] = inserted[c] \/ c = w[1]
    BY <1>5 DEF Worker, ListObjects, SkipObject, GetObject, EndLoop, ParseStream, DeleteFirst,
      StoreBatch, Statement, MarkProcessed, CleanupPartialIngest, Structure, TypeOK, runVars
  <2> QED BY <2>1, <2>2 DEF SummaryInv, RefreshHasDays
<1> QED BY <1>1, <1>2, <1>3, <1>4, <1>5 DEF Next

\* Each step leaves every stored row covered, lost, expired or awaited.
LEMMA SummaryStep == Structure /\ Structure' /\ SummaryInv /\ [Next]_vars => SummaryInv'
<1> SUFFICES ASSUME Structure, Structure', SummaryInv, [Next]_vars PROVE RowsAwaited'
  BY RefreshHasDaysStep DEF SummaryInv
<1>1. today \in Int /\ today <= today /\ RowsAwaited
  BY ConstantsAssumption DEF Structure, TypeOK, Days, SummaryInv
<1>2. CASE Tick \/ UNCHANGED vars \/ \E o \in Objects : Upload(o)
  <2>1. UNCHANGED <<stored, phase, inserted, daily, lost>> /\ (today' = today \/ today' = today + 1)
    BY <1>2 DEF Tick, Upload, vars, storeVars, summaryVars, runVars, cloudVars
  <2>2. today' \in Int /\ today <= today'
    BY <1>1, <2>1
  <2>3. \A d \in Days : Awaits(d) => Awaits(d)'
    BY <2>1, AwaitsGrows
  <2>4. InStore' \subseteq InStore
    BY <2>1 DEF InStore
  <2> QED BY <1>1, <2>1, <2>2, <2>3, <2>4, NothingNewKeepsAwaited
<1>3. CASE Crash
  <2>1. UNCHANGED <<today, stored, daily>>
    BY <1>3 DEF Crash, cloudVars, storeVars
  <2>2. lost \subseteq lost' /\ \A d \in Days : Awaits(d) => d \in lost'
    BY <1>3 DEF Crash, Awaits
  <2>3. InStore' \subseteq InStore
    BY <2>1 DEF InStore
  <2> QED BY <1>1, <2>1, <2>2, <2>3, NothingNewKeepsAwaited
<1>4. ASSUME NEW c \in Callers, StartRun(c) PROVE RowsAwaited'
  <2>1. UNCHANGED <<today, stored, daily, lost>>
    BY <1>4 DEF StartRun, cloudVars, storeVars, summaryVars
  <2>2. \A d : ~Awaits(d)
    BY <1>4, ConstantsAssumption DEF StartRun, TryLock, Awaits, Structure, RunsHoldLock
  <2>3. InStore' \subseteq InStore
    BY <2>1 DEF InStore
  <2> QED BY <1>1, <2>1, <2>2, <2>3, NothingNewKeepsAwaited
<1>5. ASSUME NEW c \in Callers, RunTail(c) PROVE RowsAwaited'
  BY <1>5, RefreshKeepsAwaited, TailKeepsAwaited DEF RunTail
<1>6. ASSUME NEW w \in Workers, Worker(w) PROVE RowsAwaited'
  BY <1>1, <1>6, WorkerKeepsAwaited
<1> QED BY <1>2, <1>3, <1>4, <1>5, <1>6 DEF Next

\* SummariesCoverStore: when no run is under way, each stored row is in the daily
\* summaries, has expired, or is of a day whose refresh was lost to a crash, to a failed
\* refresh or to an insert whose acknowledgement was lost.
THEOREM SummariesAreComplete == Spec => []SummariesCoverStore
<1>1. Structure /\ SummaryInv => SummariesCoverStore
  BY ConstantsAssumption DEF Structure, RunsHoldLock, SummaryInv, RowsAwaited, Awaits,
    SummariesCoverStore, NoRunActive
<1>2. Spec => [](Structure /\ SummaryInv)
  BY InitStructure, StructureStep, InitSummary, SummaryStep, PTL DEF Spec
<1> QED BY <1>1, <1>2, PTL
=============================================================================
