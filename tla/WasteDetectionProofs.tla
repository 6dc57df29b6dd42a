------------------------ MODULE WasteDetectionProofs ------------------------
(***************************************************************************)
(* Proofs about WasteDetection, for every cloud, every exclusion and every *)
(* bound: the types, and that the evaluation sees exactly what one whole   *)
(* sync listed, reports nothing that was in use all the time, and reports  *)
(* whatever was waste all the time.                                        *)
(*                                                                         *)
(* The cloud changes between any two calls of a sync, so what was listed   *)
(* is no snapshot.  The invariant relates what was listed so far to the    *)
(* resources that still exist, to the history of suspicion, and to the     *)
(* scopes whose turn has been.                                             *)
(***************************************************************************)
EXTENDS WasteDetection, TLAPS

-----------------------------------------------------------------------------
(* The inductive invariant.                                                *)

\* Attachments join what exists, a stopped instance exists, and a scope with resources
\* is not deleted.
CloudInv ==
  /\ \A a \in cloud.attached : a[1] \in cloud.exist /\ a[2] \in cloud.exist \cup PrivateIPs
  /\ cloud.stopped \subseteq cloud.exist
  /\ \A r \in cloud.exist : Home[r] \in cloud.scopes

\* What was steadily waste is waste; what is suspicious was recorded during a run.
HistoryInv ==
  /\ steady \subseteq Signs(cloud)
  /\ det.pc # "idle" => Suspicious(cloud) \subseteq suspect

Scanning == {"scan", "attachments", "ips"}
AfterScopes == PCs \ {"idle", "scopes"}
AfterScan   == AfterScopes \ Scanning

\* The scopes whose instances and volumes, attachments, and public IPs were asked for.
ListedScopes   == IF det.pc \in Scanning THEN det.scopes \ det.todo ELSE det.scopes
AttachedScopes == IF det.pc = "attachments" THEN ListedScopes \ {det.scope} ELSE ListedScopes
IPScopes == IF det.pc \in {"attachments", "ips"} THEN ListedScopes \ {det.scope} ELSE ListedScopes

\* Where an attachment is listed once the turn of its scope has been.
ScopesFor(a) == IF KindOf(a) = "volume" THEN AttachedScopes ELSE IPScopes

\* A partial scan ends the run.
PartialInv ==
  /\ det.pc \in AfterScan => ~det.errs
  /\ det.pc # "report" => det.seen = {}

\* What is listed, whatever the cloud does meanwhile.
ListedInv ==
  /\ det.stopped \subseteq det.listed \cap suspect
  /\ \A r \in det.found : r[2] = ScopeOf(r[1]) /\ r[2] \in det.scopes
  /\ (det.listed \cap Rented) \ suspect \subseteq cloud.exist
  /\ \A v \in Rented : <<v, v>> \in steady => \A r \in det.found : r[1][1] # v
  /\ det.pc \in {"idle", "scopes"} => det.listed = {} /\ det.found = {}

\* What a scan without errors has not missed: a resource that still exists, an attachment
\* that held ever since the sync began, and a stopped instance with storage.
ScanInv ==
  (det.pc \in AfterScopes /\ ~det.errs) =>
    /\ \A r \in cloud.exist :
         /\ Home[r] \in det.scopes
         /\ Home[r] \in (IF r \in PublicIPs THEN IPScopes ELSE ListedScopes) => r \in det.listed
    /\ \A a \in cloud.attached :
         (a[1] \notin suspect /\ ScopeOf(a) \in ScopesFor(a)) => <<a, ScopeOf(a)>> \in det.found
    /\ \A a \in Volumes \X Instances : <<a[2], a[1]>> \in steady =>
         /\ Home[a[2]] \in ListedScopes => a[2] \in det.stopped
         /\ Home[a[2]] \in AttachedScopes => <<a, Home[a[2]]>> \in det.found

\* The scope whose turn it is.
TurnInv ==
  /\ det.pc \in Scanning => det.todo \subseteq det.scopes
  /\ det.pc \in {"attachments", "ips"} => det.scope \in det.scopes \ det.todo

BatchOf(r) == <<r[2], KindOf(r[1])>>
InBatch(rels, b) == {r \in rels : BatchOf(r) = b}

\* What the inventory holds of what was listed, as the sync writes it.
StoredInv ==
  /\ det.pc \in {"replace", "mark"} =>
       /\ det.listed \subseteq inventory.active
       /\ inventory.stopped \cap det.listed = det.stopped
  /\ det.pc = "replace" => \A b \in Batches :
       (b[1] \in det.scopes /\ b \notin det.todo) =>
          InBatch(inventory.rels, b) = InBatch(det.found, b)
  /\ det.pc \in {"mark", "complete", "load", "report"} =>
       {r \in inventory.rels : r[2] \in det.scopes} = det.found
  /\ det.pc \in {"complete", "load", "report"} =>
       /\ inventory.active = det.listed
       /\ inventory.stopped \cap inventory.active = det.stopped

\* What the evaluation has found.
SeenInv == det.pc = "report" => det.seen \subseteq suspect /\ FindsSteadyWaste

WasteInv ==
  /\ CloudInv /\ HistoryInv /\ PartialInv /\ ListedInv /\ ScanInv /\ TurnInv
  /\ StoredInv /\ SeenInv

-----------------------------------------------------------------------------
(* Types.                                                                  *)

\* The types of the variables.
Clouds == [exist : SUBSET Resources, attached : SUBSET Attachments,
           stopped : SUBSET Instances, scopes : SUBSET Scopes]
Inventories == [active : SUBSET Resources, stopped : SUBSET Instances,
                rels : SUBSET (Attachments \X Scopes)]
Locals == [pc : PCs, scopes : SUBSET Scopes, todo : SUBSET (Scopes \cup Batches \cup Resources),
           scope : Scopes, errs : BOOLEAN, listed : SUBSET Resources,
           stopped : SUBSET Instances, found : SUBSET (Attachments \X Scopes),
           seen : SUBSET Resources]
Budgets == [changes : 0..MaxChanges, verdicts : 0..MaxVerdicts, faults : 0..MaxFaults]

\* The end of a run, by a failure, a crash or its last call.
Ends ==
  /\ det' = Idle /\ syncStatus' \in {"failed", syncStatus}
  /\ findings' \in [Resources -> Statuses] /\ budget' \in Budgets
  /\ UNCHANGED <<cloud, inventory, steady, suspect>>

\* A failed or crashed call spends one fault.
LEMMA FaultType ==
  ASSUME TypeOK, Fault PROVE budget' \in Budgets
  BY WasteAssumption DEF TypeOK, Fault, Budgets

\* A failed or crashed call may end the run.
LEMMA FaultEnds ==
  ASSUME TypeOK PROVE ((Fault /\ FailSync) \/ Abort) => Ends
  BY FaultType DEF TypeOK, FailSync, Abort, Ends, history

\* The end of a run keeps the types.
LEMMA EndsType ==
  ASSUME TypeOK, Ends PROVE TypeOK'
  <1>1. Idle \in Locals
    BY WasteAssumption DEF Idle, PCs, Locals
  <1> QED  BY <1>1 DEF TypeOK, Ends, Locals, Budgets

\* What a cloud shows as waste, or as suspicious, are resources.
LEMMA SignsType ==
  ASSUME NEW c \in Clouds
  PROVE  Signs(c) \subseteq Resources \X Rented /\ Suspicious(c) \subseteq Resources
  <1>1. \A a \in c.attached : a[1] \in Rented /\ a = <<a[1], a[2]>>
    BY DEF Attachments, Rented, Clouds
  <1>2. \A b \in c.attached : b[2] \in c.stopped => b[2] \in Resources
    BY DEF Resources, Clouds
  <1>3. Signs(c) \subseteq Resources \X Rented
    BY <1>1, <1>2 DEF Signs, Resources, Clouds
  <1>4. Suspicious(c) \subseteq Resources
    BY DEF Suspicious, Resources, Clouds
  <1> QED  BY <1>3, <1>4

\* A change of the cloud leaves a cloud in which what is attached exists, and nothing
\* comes into being but attachments of what was attached to nothing; what ceases to
\* exist was attached to nothing either.
LEMMA ChangesEffect ==
  ASSUME TypeOK, CloudInv, Changes
  PROVE  /\ cloud' \in Clouds
         /\ CloudInv'
         /\ cloud'.exist \subseteq cloud.exist
         /\ \A a \in cloud'.attached \ cloud.attached :
              a[1] \in cloud.exist /\ \A b \in cloud.attached : b[1] # a[1]
         /\ \A v \in (cloud.exist \ cloud'.exist) \cap Rented :
              \A b \in cloud.attached : b[1] # v
  <1>0. cloud \in Clouds  BY DEF TypeOK, Clouds
  <1> USE DEF CloudInv, Clouds
  <1>1. CASE \E a \in Attachments :
               /\ a[1] \in cloud.exist /\ a[2] \in cloud.exist \cup PrivateIPs
               /\ \A b \in cloud.attached : b[1] # a[1]
               /\ cloud' = [cloud EXCEPT !.attached = @ \cup {a}]
    BY <1>0, <1>1
  <1>2. CASE \E a \in cloud.attached : cloud' = [cloud EXCEPT !.attached = @ \ {a}]
    BY <1>0, <1>2
  <1>3. CASE \E v \in cloud.exist \cap Rented :
               /\ \A a \in cloud.attached : a[1] # v
               /\ cloud' = [cloud EXCEPT !.exist = @ \ {v}]
    <2>1. PICK v \in cloud.exist \cap Rented :
            /\ \A a \in cloud.attached : a[1] # v
            /\ cloud' = [cloud EXCEPT !.exist = @ \ {v}]
      BY <1>3
    <2>2. \A a \in cloud.attached : a[2] \in Instances \cup PrivateIPs
      BY <1>0 DEF Attachments
    <2>3. v \notin Instances \cup PrivateIPs
      BY <2>1, WasteAssumption DEF Resources
    <2> QED  BY <1>0, <2>1, <2>2, <2>3
  <1>4. CASE \E i \in (cloud.exist \cap Instances) \ cloud.stopped :
               cloud' = [cloud EXCEPT !.stopped = @ \cup {i}]
    BY <1>0, <1>4
  <1>5. CASE \E i \in cloud.stopped : cloud' = [cloud EXCEPT !.stopped = @ \ {i}]
    BY <1>0, <1>5
  <1>6. CASE \E i \in cloud.exist \cap Instances :
               cloud' = [cloud EXCEPT !.exist = @ \ {i}, !.stopped = @ \ {i},
                                      !.attached = {a \in @ : a[2] # i}]
    <2>1. PICK i \in cloud.exist \cap Instances :
            cloud' = [cloud EXCEPT !.exist = @ \ {i}, !.stopped = @ \ {i},
                                   !.attached = {a \in @ : a[2] # i}]
      BY <1>6
    <2>2. \A a \in cloud.attached : a[1] \in Rented
      BY <1>0 DEF Attachments, Rented
    <2>3. i \notin Rented
      BY WasteAssumption
    <2> QED  BY <1>0, <2>1, <2>2, <2>3
  <1>7. CASE \E s \in cloud.scopes \ {Root} :
               /\ \A r \in cloud.exist : Home[r] # s
               /\ cloud' = [cloud EXCEPT !.scopes = @ \ {s}]
    BY <1>0, <1>7
  <1> QED  BY <1>1, <1>2, <1>3, <1>4, <1>5, <1>6, <1>7 DEF Changes

\* An evaluation reports resources.
LEMMA EvaluateType ==
  ASSUME NEW inv, inv.active \subseteq Resources, NEW known
  PROVE  Evaluate(inv, known) \subseteq Resources
  BY DEF Evaluate, DetachedVolumes, UnusedPublicIPs, StoppedCompute

\* A step of a run that goes on keeps the types.
LEMMA RunTypeStep ==
  ASSUME TypeOK, RunStep PROVE TypeOK'
  <1>0. /\ cloud \in Clouds /\ inventory \in Inventories /\ det \in Locals /\ budget \in Budgets
        /\ syncStatus \in {"none", "running", "success", "failed"}
        /\ findings \in [Resources -> Statuses]
    BY DEF TypeOK, Clouds, Inventories, Locals, Budgets
  <1>a. SUFFICES ASSUME ~Ends PROVE TypeOK'
    BY EndsType
  <1>b. ASSUME det' \in Locals, inventory' \in Inventories, budget' \in Budgets,
               syncStatus' \in {"none", "running", "success", "failed"},
               findings' \in [Resources -> Statuses], UNCHANGED <<cloud, history>>
        PROVE  TypeOK'
    BY <1>b DEF TypeOK, Locals, Inventories, Budgets, history
  <1>1. CASE ListCompartments
    <2>1. Go([det EXCEPT !.pc = "scan", !.scopes = cloud.scopes, !.todo = cloud.scopes])
      BY <1>1, <1>a, FaultEnds DEF ListCompartments
    <2>2. det' \in Locals
      BY <2>1, <1>0 DEF Go, Locals, Clouds, PCs
    <2> QED  BY <2>1, <2>2, <1>0, <1>b DEF Go
  <1>2. ASSUME NEW s \in Scopes, ListResources(s) PROVE TypeOK'
    <2> DEFINE here == {r \in cloud.exist \ PublicIPs : Home[r] = s}
    <2>1. CASE Go([det EXCEPT !.pc = "attachments", !.scope = s, !.todo = @ \ {s},
                       !.listed = @ \cup here, !.stopped = @ \cup (here \cap cloud.stopped)])
      <3>1. here \subseteq Resources /\ here \cap cloud.stopped \subseteq Instances
        BY <1>0 DEF Clouds
      <3> HIDE DEF here
      <3>2. det' \in Locals
        BY <2>1, <3>1, <1>0 DEF Go, Locals, PCs
      <3> QED  BY <2>1, <3>2, <1>0, <1>b DEF Go
    <2>2. CASE /\ Fault /\ det' = [det EXCEPT !.todo = @ \ {s}, !.errs = TRUE]
               /\ UNCHANGED <<cloud, inventory, syncStatus, findings, history>>
      <3>1. det' \in Locals
        BY <2>2, <1>0 DEF Locals
      <3> QED  BY <2>2, <3>1, <1>0, <1>b, FaultType
    <2> QED  BY <1>2, <2>1, <2>2 DEF ListResources
  <1>3. CASE ListAttachments \/ ListPublicIPs
    <2>1. \A kind : Shown(kind, det.scope) \subseteq Attachments \X Scopes
      BY <1>0 DEF Shown, Locals, Clouds
    <2>2. {p \in cloud.exist \cap PublicIPs : Home[p] = det.scope} \subseteq Resources
      BY <1>0 DEF Clouds
    <2>3. CASE Go([det EXCEPT !.pc = "ips", !.found = @ \cup Shown("volume", det.scope)])
      <3>1. det' \in Locals
        BY <2>1, <2>3, <1>0 DEF Go, Locals, PCs
      <3> QED  BY <2>3, <3>1, <1>0, <1>b DEF Go
    <2>4. CASE Go([det EXCEPT !.pc = "scan", !.found = @ \cup Shown("ip", det.scope),
                       !.listed = @ \cup {p \in cloud.exist \cap PublicIPs : Home[p] = det.scope}])
      <3>1. det' \in Locals
        BY <2>1, <2>2, <2>4, <1>0 DEF Go, Locals, PCs
      <3> QED  BY <2>4, <3>1, <1>0, <1>b DEF Go
    <2>5. ASSUME NEW pc \in PCs, Fault, det' = [det EXCEPT !.pc = pc, !.errs = TRUE],
                 UNCHANGED <<cloud, inventory, syncStatus, findings, history>>
          PROVE  TypeOK'
      <3>1. det' \in Locals
        BY <2>5, <1>0 DEF Locals
      <3> QED  BY <2>5, <3>1, <1>0, <1>b, FaultType
    <2>6. "ips" \in PCs /\ "scan" \in PCs
      BY DEF PCs
    <2> QED  BY <1>3, <2>3, <2>4, <2>5, <2>6 DEF ListAttachments, ListPublicIPs
  <1>4. CASE EndScan
    <2>1. Go([det EXCEPT !.pc = "upsert"])
      BY <1>4, <1>a, <1>0 DEF EndScan, FailSync, Ends, history
    <2>2. det' \in Locals
      BY <2>1, <1>0 DEF Go, Locals, PCs
    <2> QED  BY <2>1, <2>2, <1>0, <1>b DEF Go
  <1>5. CASE UpsertResources
    <2>1. /\ inventory' = [inventory EXCEPT !.active = @ \cup det.listed,
                             !.stopped = (@ \ det.listed) \cup det.stopped]
          /\ det' = [det EXCEPT !.pc = "replace", !.todo = {b \in Batches : b[1] \in det.scopes}]
          /\ UNCHANGED <<cloud, syncStatus, findings, budget, history>>
      BY <1>5, <1>a, FaultEnds DEF UpsertResources
    <2>2. det' \in Locals
      BY <2>1, <1>0 DEF Locals, PCs
    <2>3. inventory' \in Inventories
      BY <2>1, <1>0 DEF Locals, Inventories
    <2> QED  BY <2>1, <2>2, <2>3, <1>0, <1>b
  <1>6. ASSUME NEW b \in Batches, ReplaceRelationships(b) PROVE TypeOK'
    <2> DEFINE rels == ReplaceScoped(inventory.rels, b, {r \in det.found : <<r[2], KindOf(r[1])>> = b})
    <2>1. /\ inventory' = [inventory EXCEPT !.rels = rels]
          /\ det' = [det EXCEPT !.todo = @ \ {b}, !.pc = IF det.todo = {b} THEN "mark" ELSE @]
          /\ UNCHANGED <<cloud, syncStatus, findings, budget, history>>
      BY <1>6, <1>a, FaultEnds DEF ReplaceRelationships
    <2>2. det' \in Locals
      BY <2>1, <1>0 DEF Locals, PCs
    <2>3. rels \subseteq Attachments \X Scopes
      BY <1>0 DEF ReplaceScoped, Locals, Inventories
    <2> HIDE DEF rels
    <2>4. inventory' \in Inventories
      BY <2>1, <2>3, <1>0 DEF Inventories
    <2> QED  BY <2>1, <2>2, <2>4, <1>0, <1>b
  <1>7. CASE MarkMissingStep
    <2>1. /\ inventory' = [inventory EXCEPT !.active = @ \cap det.listed]
          /\ det' = [det EXCEPT !.pc = "complete"]
          /\ UNCHANGED <<cloud, syncStatus, findings, budget, history>>
      BY <1>7, <1>a, FaultEnds DEF MarkMissingStep, MarkMissing
    <2>2. det' \in Locals /\ inventory' \in Inventories
      BY <2>1, <1>0 DEF Locals, PCs, Inventories
    <2> QED  BY <2>1, <2>2, <1>0, <1>b
  <1>8. CASE CompleteSync
    <2>1. /\ syncStatus' = "success" /\ det' = [det EXCEPT !.pc = "load"]
          /\ UNCHANGED <<cloud, inventory, findings, budget, history>>
      BY <1>8, <1>a, FaultEnds DEF CompleteSync, Abort
    <2>2. det' \in Locals
      BY <2>1, <1>0 DEF Locals, PCs
    <2> QED  BY <2>1, <2>2, <1>0, <1>b
  <1>9. CASE EvaluateInventory
    <2>1. PICK known \in SUBSET Resources :
            /\ IF known = Resources THEN UNCHANGED budget ELSE Fault
            /\ det' = [det EXCEPT !.pc = "report", !.todo = Evaluate(Loaded, known),
                                  !.seen = Evaluate(Loaded, known)]
            /\ UNCHANGED <<cloud, inventory, syncStatus, findings, history>>
      BY <1>9, <1>a, FaultEnds DEF EvaluateInventory
    <2>2. Loaded.active \subseteq Resources
      BY <1>0 DEF Loaded, Inventories
    <2>3. Evaluate(Loaded, known) \subseteq Resources
      BY <2>2, EvaluateType
    <2>4. det' \in Locals
      BY <2>1, <2>3, <1>0 DEF Locals, PCs
    <2>5. budget' \in Budgets
      BY <2>1, <1>0, FaultType
    <2> QED  BY <2>1, <2>4, <2>5, <1>0, <1>b
  <1>10. ASSUME NEW r \in Resources, UpsertFinding(r) PROVE TypeOK'
    <2>1. /\ findings' = [findings EXCEPT ![r] = Upserted(@)]
          /\ det' = [det EXCEPT !.todo = @ \ {r}]
          /\ UNCHANGED <<cloud, inventory, syncStatus, budget, history>>
      BY <1>10, <1>a, FaultEnds DEF UpsertFinding
    <2>2. det' \in Locals
      BY <2>1, <1>0 DEF Locals
    <2>3. findings' \in [Resources -> Statuses]
      BY <2>1, <1>0 DEF Upserted, Statuses
    <2> QED  BY <2>1, <2>2, <2>3, <1>0, <1>b
  <1>11. CASE ResolveMissing
    <2>1. [r \in Resources |-> IF findings[r] = "open" /\ r \notin det.seen
                               THEN "resolved" ELSE findings[r]] \in [Resources -> Statuses]
      BY <1>0 DEF Statuses
    <2>2. Ends
      BY <1>11, <2>1, <1>0, FaultEnds DEF ResolveMissing, Ends, history
    <2> QED  BY <2>2, <1>a
  <1> QED
    BY <1>1, <1>2, <1>3, <1>4, <1>5, <1>6, <1>7, <1>8, <1>9, <1>10, <1>11 DEF RunStep

\* Every step keeps the types.
LEMMA TypeStep ==
  ASSUME TypeOK, CloudInv, [Next]_vars PROVE TypeOK'
  <1>1. CASE ChangeCloud
    <2>1. budget' \in Budgets /\ UNCHANGED <<inventory, syncStatus, findings, det>>
      BY <1>1, WasteAssumption DEF ChangeCloud, TypeOK, Budgets
    <2>2. cloud' \in Clouds
      BY <1>1, ChangesEffect DEF ChangeCloud
    <2>3. Signs(cloud') \subseteq Resources \X Rented /\ Suspicious(cloud') \subseteq Resources
      BY <2>2, SignsType
    <2>4. steady' \subseteq Resources \X Rented /\ suspect' \subseteq Resources
      BY <1>1, <2>3 DEF ChangeCloud, TypeOK
    <2> QED  BY <2>1, <2>2, <2>4 DEF TypeOK, Clouds, Budgets
  <1>2. CASE StartSync
    <2>1. cloud \in Clouds
      BY DEF TypeOK, Clouds
    <2>2. Signs(cloud) \subseteq Resources \X Rented /\ Suspicious(cloud) \subseteq Resources
      BY <2>1, SignsType
    <2>3. [Idle EXCEPT !.pc = "scopes"] \in Locals
      BY WasteAssumption DEF Idle, Locals, PCs
    <2> QED  BY <1>2, <2>2, <2>3 DEF StartSync, TypeOK, Locals
  <1>3. CASE Crash
    BY <1>3, FaultEnds, EndsType DEF Crash
  <1>4. ASSUME NEW r \in Resources, NEW status \in Statuses, SetStatus(r, status) PROVE TypeOK'
    BY <1>4, WasteAssumption DEF SetStatus, UpdateWasteFindingStatus, history, TypeOK
  <1>5. CASE RunStep
    BY <1>5, RunTypeStep
  <1>6. CASE UNCHANGED vars
    BY <1>6 DEF vars, history, TypeOK
  <1> QED  BY <1>1, <1>2, <1>3, <1>4, <1>5, <1>6 DEF Next

-----------------------------------------------------------------------------
(* The invariant, action by action.                                        *)

\* A sign of waste is a thing attached to nothing, or a stopped instance with a volume.
LEMMA SignMeans ==
  ASSUME NEW c \in Clouds, NEW w \in Signs(c)
  PROVE  \/ /\ w[1] = w[2] /\ w[1] \in (c.exist \cap Rented) \ (Excluded \cup Cheap)
            /\ \A a \in c.attached : a[1] # w[1]
         \/ /\ <<w[2], w[1]>> \in c.attached /\ w[2] \in Volumes
            /\ w[1] \in c.stopped \ Excluded /\ w[2] \notin Excluded
  <1>1. CASE w \in {<<v, v>> : v \in {u \in (c.exist \cap Rented) \ (Excluded \cup Cheap) :
                       \A a \in c.attached : a[1] # u}}
    BY <1>1
  <1>2. CASE w \in {<<a[2], a[1]>> : a \in {b \in c.attached :
                       b[2] \in c.stopped \ Excluded /\ b[1] \notin Excluded}}
    <2>1. PICK a \in c.attached : /\ a[2] \in c.stopped \ Excluded /\ a[1] \notin Excluded
                                  /\ w = <<a[2], a[1]>>
      BY <1>2
    <2>2. a \in Attachments /\ a[2] \in Instances
      BY <2>1 DEF Clouds
    <2>3. a \in Volumes \X Instances
      BY <2>2, WasteAssumption DEF Attachments, Resources
    <2> QED  BY <2>1, <2>3
  <1> QED  BY <1>1, <1>2 DEF Signs

\* What is not suspicious, and exists, is attached.
LEMMA SuspiciousMeans ==
  ASSUME NEW c
  PROVE  /\ \A v \in c.exist \cap Rented : v \in Suspicious(c) \/ \E a \in c.attached : a[1] = v
         /\ c.stopped \subseteq Suspicious(c)
  BY DEF Suspicious

\* The run ends: nothing is claimed of a run that is over.
LEMMA EndsInv ==
  ASSUME TypeOK, WasteInv, Ends PROVE WasteInv'
  <1>1. CloudInv' /\ HistoryInv'
    BY DEF WasteInv, Ends, CloudInv, HistoryInv, Idle
  <1>2. PartialInv' /\ ListedInv' /\ ScanInv' /\ TurnInv' /\ StoredInv' /\ SeenInv'
    BY DEF Ends, Idle, PartialInv, ListedInv, ScanInv, TurnInv, StoredInv, SeenInv,
           AfterScan, AfterScopes, Scanning
  <1> QED  BY <1>1, <1>2 DEF WasteInv

\* The cloud changes under the run: what it listed stays what it listed, and what the
\* history says of it only shrinks, or is suspected.
LEMMA ChangeInv ==
  ASSUME TypeOK, WasteInv, ChangeCloud PROVE WasteInv'
  <1>1. /\ cloud' \in Clouds /\ CloudInv' /\ cloud'.exist \subseteq cloud.exist
        /\ \A a \in cloud'.attached \ cloud.attached :
              a[1] \in cloud.exist /\ \A b \in cloud.attached : b[1] # a[1]
        /\ \A v \in (cloud.exist \ cloud'.exist) \cap Rented :
              \A b \in cloud.attached : b[1] # v
    BY ChangesEffect DEF ChangeCloud, WasteInv
  <1>2. /\ steady' \subseteq steady /\ steady' \subseteq Signs(cloud')
        /\ suspect \subseteq suspect' /\ Suspicious(cloud') \subseteq suspect'
        /\ UNCHANGED <<inventory, det>>
    BY DEF ChangeCloud
  <1>3. HistoryInv'
    BY <1>2 DEF HistoryInv
  <1>4. PartialInv' /\ TurnInv' /\ StoredInv'
    BY <1>2 DEF WasteInv, PartialInv, TurnInv, StoredInv
  <1>5. ASSUME NEW v \in cloud.exist \cap Rented, v \notin suspect, det.pc # "idle"
        PROVE  \E a \in cloud.attached : a[1] = v
    BY <1>5, SuspiciousMeans DEF WasteInv, HistoryInv
  <1>6. ListedInv'
    <2>1. ASSUME NEW v \in (det.listed \cap Rented) \ suspect' PROVE v \in cloud'.exist
      <3>1. v \in cloud.exist /\ v \notin suspect /\ det.pc # "idle"
        BY <2>1, <1>2 DEF WasteInv, ListedInv
      <3> QED  BY <3>1, <1>1, <1>5
    <2> QED  BY <1>2, <2>1 DEF WasteInv, ListedInv
  <1>7. ScanInv'
    <2> SUFFICES ASSUME det.pc \in AfterScopes, ~det.errs PROVE ScanInv'
      BY <1>2 DEF ScanInv
    <2>1. ASSUME NEW a \in cloud'.attached, a[1] \notin suspect' PROVE a \in cloud.attached
      <3>1. a[1] \in Rented
        BY <1>1 DEF Clouds, Attachments, Rented
      <3>2. a[1] \notin suspect /\ det.pc # "idle"
        BY <1>2, <2>1 DEF AfterScopes
      <3> QED  BY <3>1, <3>2, <1>1, <1>5
    <2> QED
      BY <1>1, <1>2, <2>1
      DEF WasteInv, ScanInv, ScopesFor, ListedScopes, AttachedScopes, IPScopes
  <1>8. SeenInv'
    BY <1>2 DEF WasteInv, SeenInv, FindsSteadyWaste, Stale
  <1> QED  BY <1>1, <1>3, <1>4, <1>6, <1>7, <1>8 DEF WasteInv

\* A run begins with nothing listed and the history of this moment.
LEMMA StartInv ==
  ASSUME TypeOK, WasteInv, StartSync PROVE WasteInv'
  <1>1. /\ det' = [Idle EXCEPT !.pc = "scopes"]
        /\ steady' = Signs(cloud) /\ suspect' = Suspicious(cloud)
        /\ UNCHANGED <<cloud, inventory>>
    BY DEF StartSync
  <1>2. CloudInv' /\ HistoryInv'
    BY <1>1 DEF WasteInv, CloudInv, HistoryInv
  <1>3. PartialInv' /\ ListedInv' /\ ScanInv' /\ TurnInv' /\ StoredInv' /\ SeenInv'
    BY <1>1 DEF Idle, PartialInv, ListedInv, ScanInv, TurnInv, StoredInv, SeenInv,
                AfterScan, AfterScopes, Scanning
  <1> QED  BY <1>2, <1>3 DEF WasteInv

\* A step that touches neither the cloud, the inventory, the run nor the history.
LEMMA SameInv ==
  ASSUME WasteInv, UNCHANGED <<cloud, inventory, det, steady, suspect>> PROVE WasteInv'
  BY DEF WasteInv, CloudInv, HistoryInv, PartialInv, ListedInv, ScanInv, ScopesFor,
         ListedScopes, AttachedScopes, IPScopes, TurnInv, StoredInv, SeenInv,
         FindsSteadyWaste, Stale

\* A step of a run leaves the cloud and the history alone.
LEMMA RunKeeps ==
  ASSUME WasteInv, det.pc # "idle", UNCHANGED <<cloud, steady, suspect>>
  PROVE  CloudInv' /\ HistoryInv'
  BY DEF WasteInv, CloudInv, HistoryInv

\* The compartments of the sync: all that existing resources and attachments are in.
LEMMA CompartmentsInv ==
  ASSUME TypeOK, WasteInv,
         det.pc = "scopes",
         Go([det EXCEPT !.pc = "scan", !.scopes = cloud.scopes, !.todo = cloud.scopes])
  PROVE  WasteInv'
  <1>0. det \in Locals  BY DEF TypeOK, Locals
  <1>1. /\ det' = [det EXCEPT !.pc = "scan", !.scopes = cloud.scopes, !.todo = cloud.scopes]
        /\ UNCHANGED <<cloud, inventory, steady, suspect>>
    BY DEF Go, history
  <1>2. /\ det'.pc = "scan" /\ det'.scopes = cloud.scopes /\ det'.todo = cloud.scopes
        /\ det'.listed = det.listed /\ det'.stopped = det.stopped /\ det'.found = det.found
        /\ det'.seen = det.seen /\ det'.errs = det.errs
    BY <1>0, <1>1 DEF Locals
  <1>3. CloudInv' /\ HistoryInv'
    BY <1>1, RunKeeps
  <1>4. PartialInv' /\ TurnInv' /\ StoredInv' /\ SeenInv'
    BY <1>2 DEF WasteInv, PartialInv, TurnInv, StoredInv, SeenInv, AfterScan, Scanning
  <1>5. ListedInv'
    BY <1>1, <1>2 DEF WasteInv, ListedInv
  <1>6. ListedScopes' = {} /\ AttachedScopes' = {} /\ IPScopes' = {}
    BY <1>2 DEF ListedScopes, AttachedScopes, IPScopes, Scanning
  <1>7. ScanInv'
    BY <1>1, <1>2, <1>6 DEF WasteInv, CloudInv, ScanInv, ScopesFor
  <1> QED  BY <1>3, <1>4, <1>5, <1>7 DEF WasteInv

\* The instances and volumes of a scope are listed: its turn begins.
LEMMA ResourcesInv ==
  ASSUME TypeOK, WasteInv, NEW s \in Scopes, ListResources(s)
  PROVE  WasteInv'
  <1> DEFINE here == {r \in cloud.exist \ PublicIPs : Home[r] = s}
  <1>0. det \in Locals /\ cloud \in Clouds  BY DEF TypeOK, Locals, Clouds
  <1>1. /\ det.pc = "scan" /\ s \in det.todo /\ UNCHANGED <<cloud, inventory, steady, suspect>>
        /\ s \in det.scopes
    BY DEF ListResources, Go, history, WasteInv, TurnInv, Scanning
  <1>2. CloudInv' /\ HistoryInv'
    BY <1>1, RunKeeps
  <1>3. CASE Go([det EXCEPT !.pc = "attachments", !.scope = s, !.todo = @ \ {s},
                     !.listed = @ \cup here, !.stopped = @ \cup (here \cap cloud.stopped)])
    <2>1. /\ det'.pc = "attachments" /\ det'.scope = s /\ det'.todo = det.todo \ {s}
          /\ det'.listed = det.listed \cup here /\ det'.errs = det.errs
          /\ det'.stopped = det.stopped \cup (here \cap cloud.stopped)
          /\ det'.scopes = det.scopes /\ det'.found = det.found /\ det'.seen = det.seen
      BY <1>3, <1>0 DEF Go, Locals
    <2>2. PartialInv' /\ TurnInv' /\ StoredInv' /\ SeenInv'
      BY <1>1, <2>1 DEF WasteInv, PartialInv, TurnInv, StoredInv, SeenInv, AfterScan, Scanning
    <2>3. ListedInv'
      <3>1. cloud.stopped \subseteq suspect
        BY <1>1, SuspiciousMeans DEF WasteInv, HistoryInv
      <3> QED  BY <3>1, <1>1, <2>1 DEF WasteInv, ListedInv
    <2>4. ListedScopes' = ListedScopes \cup {s} /\ s \notin ListedScopes
      BY <1>1, <2>1 DEF ListedScopes, Scanning
    <2>5. AttachedScopes' = AttachedScopes /\ IPScopes' = IPScopes
      BY <1>1, <2>1, <2>4 DEF AttachedScopes, IPScopes
    <2>6. ScanInv'
      <3> SUFFICES ASSUME ~det.errs PROVE ScanInv'
        BY <2>1 DEF ScanInv
      <3>1. det.pc \in AfterScopes
        BY <1>1 DEF AfterScopes, PCs
      <3>2. \A r \in cloud.exist :
              /\ Home[r] \in det.scopes
              /\ Home[r] \in (IF r \in PublicIPs THEN IPScopes ELSE ListedScopes')
                   => r \in det.listed \cup here
        BY <3>1, <2>4 DEF WasteInv, ScanInv
      <3>3. ASSUME NEW a \in Volumes \X Instances, <<a[2], a[1]>> \in steady
            PROVE  Home[a[2]] \in ListedScopes' => a[2] \in det'.stopped
        <4>1. a[2] \in Instances /\ a[2] \notin Rented /\ a[2] \notin PublicIPs
          BY <3>3, WasteAssumption DEF Rented
        <4>2. <<a[2], a[1]>> \in Signs(cloud)
          BY <3>3 DEF WasteInv, HistoryInv
        <4>3. a[2] \in cloud.stopped /\ a[2] \in cloud.exist
          BY <4>1, <4>2, <1>0, SignMeans DEF WasteInv, CloudInv
        <4> QED  BY <3>1, <3>3, <4>1, <4>3, <2>1, <2>4 DEF WasteInv, ScanInv
      <3> QED
        BY <3>1, <3>2, <3>3, <1>1, <2>1, <2>4, <2>5 DEF WasteInv, ScanInv, ScopesFor
    <2> QED  BY <1>2, <2>2, <2>3, <2>6 DEF WasteInv
  <1>4. CASE /\ Fault /\ det' = [det EXCEPT !.todo = @ \ {s}, !.errs = TRUE]
             /\ UNCHANGED <<cloud, inventory, syncStatus, findings, history>>
    <2>1. /\ det'.pc = "scan" /\ det'.todo = det.todo \ {s} /\ det'.errs
          /\ det'.listed = det.listed /\ det'.stopped = det.stopped
          /\ det'.scopes = det.scopes /\ det'.found = det.found /\ det'.seen = det.seen
      BY <1>4, <1>0, <1>1 DEF Locals
    <2>2. PartialInv' /\ ListedInv' /\ ScanInv' /\ TurnInv' /\ StoredInv' /\ SeenInv'
      BY <1>1, <2>1 DEF WasteInv, PartialInv, ListedInv, ScanInv, TurnInv, StoredInv, SeenInv,
                        AfterScan, Scanning
    <2> QED  BY <1>2, <2>2 DEF WasteInv
  <1> QED  BY <1>3, <1>4 DEF ListResources

\* A listing of the scope fails: the scan is partial, and nothing more is claimed of it.
LEMMA SkipInv ==
  ASSUME TypeOK, WasteInv, det.pc \in {"attachments", "ips"}, NEW pc \in {"ips", "scan"},
         det' = [det EXCEPT !.pc = pc, !.errs = TRUE],
         UNCHANGED <<cloud, inventory, steady, suspect>>
  PROVE  WasteInv'
  <1>1. /\ det'.pc = pc /\ det'.todo = det.todo /\ det'.errs /\ det'.scope = det.scope
        /\ det'.listed = det.listed /\ det'.stopped = det.stopped
        /\ det'.scopes = det.scopes /\ det'.found = det.found /\ det'.seen = det.seen
    BY DEF TypeOK
  <1>2. CloudInv' /\ HistoryInv'
    BY RunKeeps
  <1>3. PartialInv' /\ ListedInv' /\ ScanInv' /\ TurnInv' /\ StoredInv' /\ SeenInv'
    BY <1>1 DEF WasteInv, PartialInv, ListedInv, ScanInv, TurnInv, StoredInv, SeenInv,
                AfterScan, Scanning
  <1> QED  BY <1>2, <1>3 DEF WasteInv

\* What a scope shows of one kind, with the scope.
LEMMA ShownMeans ==
  ASSUME NEW kind, NEW s
  PROVE  Shown(kind, s) =
           {r \in cloud.attached \X {s} : KindOf(r[1]) = kind /\ ScopeOf(r[1]) = s}
  BY DEF Shown

\* The attachments of the scope are listed.
LEMMA AttachmentsInv ==
  ASSUME TypeOK, WasteInv, det.pc = "attachments",
         Go([det EXCEPT !.pc = "ips", !.found = @ \cup Shown("volume", det.scope)])
  PROVE  WasteInv'
  <1> DEFINE shown == Shown("volume", det.scope)
  <1>0. det \in Locals /\ cloud \in Clouds  BY DEF TypeOK, Locals, Clouds
  <1>1. /\ det'.pc = "ips" /\ det'.found = det.found \cup shown /\ det'.errs = det.errs
        /\ det'.todo = det.todo /\ det'.scope = det.scope /\ det'.listed = det.listed
        /\ det'.stopped = det.stopped /\ det'.scopes = det.scopes /\ det'.seen = det.seen
        /\ UNCHANGED <<cloud, inventory, steady, suspect>>
    BY <1>0 DEF Go, Locals, history
  <1>2. CloudInv' /\ HistoryInv'
    BY <1>1, RunKeeps
  <1>3. det.scope \in det.scopes /\ det.pc \in AfterScopes
    BY DEF WasteInv, TurnInv, AfterScopes, PCs
  <1>4. \A r \in shown : r[1] \in cloud.attached /\ r[2] = ScopeOf(r[1]) /\ r[2] = det.scope
    BY ShownMeans
  <1>5. \A a \in cloud.attached :
          KindOf(a) = "volume" /\ ScopeOf(a) = det.scope => <<a, det.scope>> \in shown
    BY ShownMeans
  <1> HIDE DEF shown
  <1>6. PartialInv' /\ TurnInv' /\ StoredInv' /\ SeenInv'
    BY <1>1 DEF WasteInv, PartialInv, TurnInv, StoredInv, SeenInv, AfterScan, Scanning
  <1>7. ListedInv'
    <2>1. ASSUME NEW v \in Rented, <<v, v>> \in steady, NEW a \in cloud.attached
          PROVE  a[1] # v
      <3>1. <<v, v>> \in Signs(cloud) /\ v \notin Instances
        BY <2>1, WasteAssumption DEF WasteInv, HistoryInv
      <3>2. v \notin cloud.stopped
        BY <3>1, <1>0 DEF Clouds
      <3> QED  BY <3>1, <3>2, <1>0, SignMeans
    <2> QED  BY <2>1, <1>1, <1>3, <1>4 DEF WasteInv, ListedInv
  <1>8. /\ ListedScopes' = ListedScopes /\ IPScopes' = IPScopes
        /\ AttachedScopes' \subseteq AttachedScopes \cup {det.scope}
    BY <1>1 DEF ListedScopes, AttachedScopes, IPScopes, Scanning
  <1>9. ScanInv'
    <2> SUFFICES ASSUME ~det.errs PROVE ScanInv'
      BY <1>1 DEF ScanInv
    <2>1. \A r \in cloud.exist :
            /\ Home[r] \in det'.scopes
            /\ Home[r] \in (IF r \in PublicIPs THEN IPScopes' ELSE ListedScopes') => r \in det'.listed
      BY <1>1, <1>3, <1>8 DEF WasteInv, ScanInv
    <2>2. ASSUME NEW a \in cloud.attached, a[1] \notin suspect, ScopeOf(a) \in ScopesFor(a)'
          PROVE  <<a, ScopeOf(a)>> \in det'.found
      BY <2>2, <1>1, <1>3, <1>5, <1>8 DEF WasteInv, ScanInv, ScopesFor
    <2>3. ASSUME NEW a \in Volumes \X Instances, <<a[2], a[1]>> \in steady
          PROVE  /\ Home[a[2]] \in ListedScopes' => a[2] \in det'.stopped
                 /\ Home[a[2]] \in AttachedScopes' => <<a, Home[a[2]]>> \in det'.found
      <3>1. <<a[2], a[1]>> \in Signs(cloud) /\ a[2] \notin Rented
        BY <2>3, WasteAssumption DEF WasteInv, HistoryInv
      <3>2. <<a[1], a[2]>> \in cloud.attached /\ a = <<a[1], a[2]>>
        BY <3>1, <1>0, SignMeans
      <3>3. KindOf(a) = "volume" /\ ScopeOf(a) = Home[a[2]]
        BY DEF KindOf, ScopeOf
      <3>4. Home[a[2]] = det.scope => <<a, Home[a[2]]>> \in shown
        BY <3>2, <3>3, <1>5
      <3> QED  BY <2>3, <3>4, <1>1, <1>3, <1>8 DEF WasteInv, ScanInv
    <2> QED  BY <2>1, <2>2, <2>3, <1>1 DEF ScanInv
  <1> QED  BY <1>2, <1>6, <1>7, <1>9 DEF WasteInv

\* The public IPs of the scope, and what they are assigned to, are listed.
LEMMA IPsInv ==
  ASSUME TypeOK, WasteInv, det.pc = "ips",
         Go([det EXCEPT !.pc = "scan", !.found = @ \cup Shown("ip", det.scope),
               !.listed = @ \cup {p \in cloud.exist \cap PublicIPs : Home[p] = det.scope}])
  PROVE  WasteInv'
  <1> DEFINE shown == Shown("ip", det.scope)
             here  == {p \in cloud.exist \cap PublicIPs : Home[p] = det.scope}
  <1>0. det \in Locals /\ cloud \in Clouds  BY DEF TypeOK, Locals, Clouds
  <1>1. /\ det'.pc = "scan" /\ det'.found = det.found \cup shown /\ det'.errs = det.errs
        /\ det'.todo = det.todo /\ det'.scope = det.scope /\ det'.listed = det.listed \cup here
        /\ det'.stopped = det.stopped /\ det'.scopes = det.scopes /\ det'.seen = det.seen
        /\ UNCHANGED <<cloud, inventory, steady, suspect>>
    BY <1>0 DEF Go, Locals, history
  <1>2. CloudInv' /\ HistoryInv'
    BY <1>1, RunKeeps
  <1>3. det.scope \in det.scopes /\ det.pc \in AfterScopes
    BY DEF WasteInv, TurnInv, AfterScopes, PCs
  <1>4. \A r \in shown : r[1] \in cloud.attached /\ r[2] = ScopeOf(r[1]) /\ r[2] = det.scope
    BY ShownMeans
  <1>5. \A a \in cloud.attached :
          KindOf(a) = "ip" /\ ScopeOf(a) = det.scope => <<a, det.scope>> \in shown
    BY ShownMeans
  <1> HIDE DEF shown
  <1>6. PartialInv' /\ TurnInv' /\ StoredInv' /\ SeenInv'
    BY <1>1 DEF WasteInv, PartialInv, TurnInv, StoredInv, SeenInv, AfterScan, Scanning
  <1>7. ListedInv'
    <2>1. ASSUME NEW v \in Rented, <<v, v>> \in steady, NEW a \in cloud.attached
          PROVE  a[1] # v
      <3>1. <<v, v>> \in Signs(cloud) /\ v \notin Instances
        BY <2>1, WasteAssumption DEF WasteInv, HistoryInv
      <3>2. v \notin cloud.stopped
        BY <3>1, <1>0 DEF Clouds
      <3> QED  BY <3>1, <3>2, <1>0, SignMeans
    <2> QED  BY <2>1, <1>1, <1>3, <1>4 DEF WasteInv, ListedInv
  <1>8. /\ ListedScopes' = ListedScopes /\ AttachedScopes' = AttachedScopes
        /\ IPScopes' \subseteq IPScopes \cup {det.scope}
    BY <1>1 DEF ListedScopes, AttachedScopes, IPScopes, Scanning
  <1>9. ScanInv'
    <2> SUFFICES ASSUME ~det.errs PROVE ScanInv'
      BY <1>1 DEF ScanInv
    <2>1. \A r \in cloud.exist :
            /\ Home[r] \in det'.scopes
            /\ Home[r] \in (IF r \in PublicIPs THEN IPScopes' ELSE ListedScopes') => r \in det'.listed
      BY <1>1, <1>3, <1>8 DEF WasteInv, ScanInv
    <2>2. ASSUME NEW a \in cloud.attached, a[1] \notin suspect, ScopeOf(a) \in ScopesFor(a)'
          PROVE  <<a, ScopeOf(a)>> \in det'.found
      <3>1. KindOf(a) \in {"volume", "ip"}
        BY DEF KindOf
      <3> QED  BY <2>2, <3>1, <1>1, <1>3, <1>5, <1>8 DEF WasteInv, ScanInv, ScopesFor
    <2> QED  BY <2>1, <2>2, <1>1, <1>3, <1>8 DEF WasteInv, ScanInv
  <1> QED  BY <1>2, <1>6, <1>7, <1>9 DEF WasteInv

\* The scan was complete: the turn of every scope has been.
LEMMA EndScanInv ==
  ASSUME TypeOK, WasteInv, det.pc = "scan", det.todo = {}, ~det.errs,
         Go([det EXCEPT !.pc = "upsert"])
  PROVE  WasteInv'
  <1>1. /\ det'.pc = "upsert" /\ det'.found = det.found /\ det'.errs = det.errs
        /\ det'.todo = det.todo /\ det'.scope = det.scope /\ det'.listed = det.listed
        /\ det'.stopped = det.stopped /\ det'.scopes = det.scopes /\ det'.seen = det.seen
        /\ UNCHANGED <<cloud, inventory, steady, suspect>>
    BY DEF Go, TypeOK, history
  <1>2. CloudInv' /\ HistoryInv'
    BY <1>1, RunKeeps
  <1>3. PartialInv' /\ ListedInv' /\ TurnInv' /\ StoredInv' /\ SeenInv'
    BY <1>1 DEF WasteInv, PartialInv, ListedInv, TurnInv, StoredInv, SeenInv, Scanning
  <1>4. /\ ListedScopes' = ListedScopes /\ AttachedScopes' = AttachedScopes
        /\ IPScopes' = IPScopes /\ det.pc \in AfterScopes
    BY <1>1 DEF ListedScopes, AttachedScopes, IPScopes, Scanning, AfterScopes, PCs
  <1>5. ScanInv'
    BY <1>1, <1>4 DEF WasteInv, ScanInv, ScopesFor
  <1> QED  BY <1>2, <1>3, <1>5 DEF WasteInv

\* What a run that is past its scan goes on knowing, whatever it writes.
LEMMA AfterScanKeeps ==
  ASSUME WasteInv, det.pc \in AfterScan, det'.pc \in AfterScan,
         det'.listed = det.listed, det'.stopped = det.stopped, det'.found = det.found,
         det'.scopes = det.scopes, det'.errs = det.errs,
         UNCHANGED <<cloud, steady, suspect>>
  PROVE  CloudInv' /\ HistoryInv' /\ ListedInv' /\ ScanInv' /\ TurnInv'
  <1>1. det.pc # "idle" /\ det.pc \in AfterScopes
    BY DEF AfterScan, AfterScopes
  <1>2. CloudInv' /\ HistoryInv'
    BY <1>1, RunKeeps
  <1>3. /\ ListedScopes' = ListedScopes /\ AttachedScopes' = AttachedScopes
        /\ IPScopes' = IPScopes
    BY DEF ListedScopes, AttachedScopes, IPScopes, AfterScan, Scanning
  <1>4. ScanInv'
    BY <1>1, <1>3 DEF WasteInv, ScanInv, ScopesFor
  <1>5. ListedInv' /\ TurnInv'
    BY DEF WasteInv, ListedInv, TurnInv, AfterScan, AfterScopes, Scanning
  <1> QED  BY <1>2, <1>4, <1>5

\* What was listed is made active.
LEMMA UpsertInv ==
  ASSUME TypeOK, WasteInv, det.pc = "upsert",
         inventory' = [inventory EXCEPT !.active = @ \cup det.listed,
                         !.stopped = (@ \ det.listed) \cup det.stopped],
         det' = [det EXCEPT !.pc = "replace", !.todo = {b \in Batches : b[1] \in det.scopes}],
         UNCHANGED <<cloud, steady, suspect>>
  PROVE  WasteInv'
  <1>1. /\ det'.pc = "replace" /\ det'.found = det.found /\ det'.errs = det.errs
        /\ det'.todo = {b \in Batches : b[1] \in det.scopes} /\ det'.listed = det.listed
        /\ det'.stopped = det.stopped /\ det'.scopes = det.scopes /\ det'.seen = det.seen
        /\ inventory'.active = inventory.active \cup det.listed
        /\ inventory'.stopped = (inventory.stopped \ det.listed) \cup det.stopped
    BY DEF TypeOK
  <1>2. det.pc \in AfterScan /\ det'.pc \in AfterScan
    BY <1>1 DEF AfterScan, AfterScopes, Scanning, PCs
  <1>3. CloudInv' /\ HistoryInv' /\ ListedInv' /\ ScanInv' /\ TurnInv'
    BY <1>1, <1>2, AfterScanKeeps
  <1>4. PartialInv' /\ SeenInv'
    BY <1>1, <1>2 DEF WasteInv, PartialInv, SeenInv
  <1>5. det.stopped \subseteq det.listed
    BY DEF WasteInv, ListedInv
  <1>6. StoredInv'
    BY <1>1, <1>5 DEF StoredInv
  <1> QED  BY <1>3, <1>4, <1>6 DEF WasteInv

\* A replacement leaves the batch as it was listed, and the other batches as they were, for
\* no attachment is listed in two of them.
LEMMA ReplaceBatch ==
  ASSUME NEW rels \in SUBSET (Attachments \X Scopes), NEW found \in SUBSET (Attachments \X Scopes),
         \A r \in found : r[2] = ScopeOf(r[1]),
         NEW b
  PROVE  LET new == ReplaceScoped(rels, b, InBatch(found, b))
         IN /\ InBatch(new, b) = InBatch(found, b)
            /\ \A c : (c # b /\ InBatch(rels, c) = InBatch(found, c)) =>
                        InBatch(new, c) = InBatch(found, c)
  <1> DEFINE new == ReplaceScoped(rels, b, InBatch(found, b))
  <1>1. InBatch(new, b) = InBatch(found, b)
    BY DEF ReplaceScoped, InBatch, BatchOf
  <1>2. ASSUME NEW c, c # b, InBatch(rels, c) = InBatch(found, c)
        PROVE  InBatch(new, c) = InBatch(found, c)
    <2>1. ASSUME NEW r \in InBatch(found, c) PROVE r[1] \notin {x[1] : x \in InBatch(found, b)}
      BY <2>1, <1>2 DEF InBatch, BatchOf
    <2> QED  BY <2>1, <1>2 DEF ReplaceScoped, InBatch, BatchOf
  <1> QED  BY <1>1, <1>2

\* One batch of attachments is replaced by what was listed of it.
LEMMA ReplaceInv ==
  ASSUME TypeOK, WasteInv, NEW b \in Batches, det.pc = "replace", b \in det.todo,
         inventory' = [inventory EXCEPT !.rels =
            ReplaceScoped(@, b, {r \in det.found : <<r[2], KindOf(r[1])>> = b})],
         det' = [det EXCEPT !.todo = @ \ {b}, !.pc = IF det.todo = {b} THEN "mark" ELSE @],
         UNCHANGED <<cloud, steady, suspect>>
  PROVE  WasteInv'
  <1>1. /\ det'.pc = IF det.todo = {b} THEN "mark" ELSE "replace"
        /\ det'.found = det.found /\ det'.errs = det.errs
        /\ det'.todo = det.todo \ {b} /\ det'.listed = det.listed
        /\ det'.stopped = det.stopped /\ det'.scopes = det.scopes /\ det'.seen = det.seen
        /\ inventory'.active = inventory.active /\ inventory'.stopped = inventory.stopped
        /\ inventory'.rels = ReplaceScoped(inventory.rels, b, InBatch(det.found, b))
    BY DEF TypeOK, InBatch, BatchOf
  <1>2. det.pc \in AfterScan /\ det'.pc \in AfterScan
    BY <1>1 DEF AfterScan, AfterScopes, Scanning, PCs
  <1>3. CloudInv' /\ HistoryInv' /\ ListedInv' /\ ScanInv' /\ TurnInv'
    BY <1>1, <1>2, AfterScanKeeps
  <1>4. PartialInv' /\ SeenInv'
    BY <1>1, <1>2 DEF WasteInv, PartialInv, SeenInv
  <1>5. /\ inventory.rels \in SUBSET (Attachments \X Scopes)
        /\ det.found \in SUBSET (Attachments \X Scopes)
        /\ \A r \in det.found : r[2] = ScopeOf(r[1]) /\ r[2] \in det.scopes
    BY DEF TypeOK, WasteInv, ListedInv
  <1>6. \A c \in Batches : (c[1] \in det.scopes /\ c \notin det'.todo) =>
          InBatch(inventory'.rels, c) = InBatch(det.found, c)
    <2>1. InBatch(inventory'.rels, b) = InBatch(det.found, b)
      BY <1>1, <1>5, ReplaceBatch
    <2>2. ASSUME NEW c \in Batches, c[1] \in det.scopes, c \notin det.todo
          PROVE  InBatch(inventory'.rels, c) = InBatch(det.found, c)
      <3>1. InBatch(inventory.rels, c) = InBatch(det.found, c) /\ c # b
        BY <2>2 DEF WasteInv, StoredInv
      <3> QED  BY <3>1, <1>1, <1>5, ReplaceBatch
    <2> QED  BY <2>1, <2>2, <1>1
  <1>7. ASSUME det'.pc = "mark"
        PROVE  {r \in inventory'.rels : r[2] \in det.scopes} = det.found
    <2>1. det'.todo = {}
      BY <1>7, <1>1
    <2>2. inventory'.rels \subseteq Attachments \X Scopes
      BY <1>1, <1>5 DEF ReplaceScoped, InBatch
    <2>3. \A r \in inventory'.rels \cup det.found :
            r[2] \in det.scopes => BatchOf(r) \in Batches /\ BatchOf(r)[1] \in det.scopes
      BY <1>5, <2>2 DEF BatchOf, Batches, KindOf
    <2>4. \A r \in inventory'.rels \cup det.found :
            r[2] \in det.scopes => (r \in inventory'.rels <=> r \in det.found)
      BY <1>6, <2>1, <2>3 DEF InBatch
    <2> QED  BY <2>4, <1>5
  <1>8. StoredInv'
    <2>1. det.listed \subseteq inventory.active /\ inventory.stopped \cap det.listed = det.stopped
      BY DEF WasteInv, StoredInv
    <2> QED  BY <2>1, <1>1, <1>6, <1>7 DEF StoredInv
  <1> QED  BY <1>3, <1>4, <1>8 DEF WasteInv

\* What the sync has not listed is made inactive.
LEMMA MarkInv ==
  ASSUME TypeOK, WasteInv, det.pc = "mark",
         inventory' = [inventory EXCEPT !.active = @ \cap det.listed],
         det' = [det EXCEPT !.pc = "complete"],
         UNCHANGED <<cloud, steady, suspect>>
  PROVE  WasteInv'
  <1>1. /\ det'.pc = "complete" /\ det'.found = det.found /\ det'.errs = det.errs
        /\ det'.todo = det.todo /\ det'.listed = det.listed
        /\ det'.stopped = det.stopped /\ det'.scopes = det.scopes /\ det'.seen = det.seen
        /\ inventory'.active = inventory.active \cap det.listed
        /\ inventory'.stopped = inventory.stopped /\ inventory'.rels = inventory.rels
    BY DEF TypeOK
  <1>2. det.pc \in AfterScan /\ det'.pc \in AfterScan
    BY <1>1 DEF AfterScan, AfterScopes, Scanning, PCs
  <1>3. CloudInv' /\ HistoryInv' /\ ListedInv' /\ ScanInv' /\ TurnInv'
    BY <1>1, <1>2, AfterScanKeeps
  <1>4. PartialInv' /\ SeenInv' /\ StoredInv'
    BY <1>1, <1>2 DEF WasteInv, PartialInv, SeenInv, StoredInv
  <1> QED  BY <1>3, <1>4 DEF WasteInv

\* The sync is over, or a finding is written: what is stored and what was seen stay.
LEMMA NextPhaseInv ==
  ASSUME TypeOK, WasteInv,
         \/ det.pc = "complete" /\ det' = [det EXCEPT !.pc = "load"]
         \/ \E r : det.pc = "report" /\ det' = [det EXCEPT !.todo = @ \ {r}],
         UNCHANGED <<cloud, inventory, steady, suspect>>
  PROVE  WasteInv'
  <1>1. /\ \/ det.pc = "complete" /\ det'.pc = "load"
           \/ det.pc = "report" /\ det'.pc = "report"
        /\ det'.found = det.found /\ det'.errs = det.errs /\ det'.listed = det.listed
        /\ det'.stopped = det.stopped /\ det'.scopes = det.scopes /\ det'.seen = det.seen
    BY DEF TypeOK
  <1>2. det.pc \in AfterScan /\ det'.pc \in AfterScan
    BY <1>1 DEF AfterScan, AfterScopes, Scanning, PCs
  <1>3. CloudInv' /\ HistoryInv' /\ ListedInv' /\ ScanInv' /\ TurnInv'
    BY <1>1, <1>2, AfterScanKeeps
  <1>4. PartialInv' /\ SeenInv' /\ StoredInv'
    BY <1>1, <1>2 DEF WasteInv, PartialInv, SeenInv, StoredInv, FindsSteadyWaste, Stale
  <1> QED  BY <1>3, <1>4 DEF WasteInv

\* The evaluation of a complete sync: what it reports was suspicious at some time, since
\* what was in use all the time was listed with its attachment; and it reports whatever
\* was waste all the time, since nothing listed, but a stale attachment, excuses it.
LEMMA EvaluateInv ==
  ASSUME TypeOK, WasteInv, det.pc = "load", NEW known \in SUBSET Resources,
         det' = [det EXCEPT !.pc = "report", !.todo = Evaluate(Loaded, known),
                            !.seen = Evaluate(Loaded, known)],
         UNCHANGED <<cloud, inventory, steady, suspect>>
  PROVE  WasteInv'
  <1> DEFINE seen == Evaluate(Loaded, known)
  <1>0. cloud \in Clouds /\ inventory \in Inventories
    BY DEF TypeOK, Clouds, Inventories
  <1>1. /\ det'.pc = "report" /\ det'.found = det.found /\ det'.errs = det.errs
        /\ det'.listed = det.listed /\ det'.stopped = det.stopped
        /\ det'.scopes = det.scopes /\ det'.seen = seen
    BY DEF TypeOK
  <1>2. det.pc \in AfterScan /\ det'.pc \in AfterScan /\ det.pc \in AfterScopes
    BY <1>1 DEF AfterScan, AfterScopes, Scanning, PCs
  <1>3. CloudInv' /\ HistoryInv' /\ ListedInv' /\ ScanInv' /\ TurnInv'
    BY <1>1, <1>2, AfterScanKeeps
  <1>4. PartialInv' /\ StoredInv'
    BY <1>1, <1>2 DEF WasteInv, PartialInv, StoredInv
  <1>5. /\ Loaded.active = det.listed /\ Loaded.stopped = det.stopped
        /\ Loaded.rels = inventory.rels
        /\ {r \in inventory.rels : r[2] \in det.scopes} = det.found
    BY DEF WasteInv, StoredInv, Loaded
  <1>6. /\ ListedScopes = det.scopes /\ AttachedScopes = det.scopes /\ IPScopes = det.scopes
        /\ ~det.errs
    BY <1>2 DEF ListedScopes, AttachedScopes, IPScopes, Scanning, WasteInv, PartialInv
  <1>7. \A r \in cloud.exist : Home[r] \in det.scopes /\ r \in det.listed
    BY <1>2, <1>6 DEF WasteInv, ScanInv
  <1>8. seen \subseteq suspect
    <2>1. ASSUME NEW v \in det.listed \cap Rented, ~AttachedIn(inventory.rels, v), v \notin suspect
          PROVE  FALSE
      <3>1. v \in cloud.exist
        BY <2>1 DEF WasteInv, ListedInv
      <3>2. PICK a \in cloud.attached : a[1] = v
        BY <2>1, <3>1, SuspiciousMeans DEF WasteInv, HistoryInv
      <3>3. ScopeOf(a) \in det.scopes
        <4>1. a[1] \in cloud.exist /\ a[2] \in cloud.exist \cup PrivateIPs
          BY DEF WasteInv, CloudInv
        <4>2. a[1] \in Volumes => a[2] \in Instances
          BY <1>0, WasteAssumption DEF Clouds, Attachments
        <4>3. a[2] \in Instances => a[2] \notin PrivateIPs
          BY WasteAssumption DEF Resources
        <4> QED  BY <4>1, <4>2, <4>3, <1>7 DEF ScopeOf
      <3>4. <<a, ScopeOf(a)>> \in det.found
        BY <2>1, <3>2, <3>3, <1>2, <1>6 DEF WasteInv, ScanInv, ScopesFor
      <3>5. <<a, ScopeOf(a)>> \in inventory.rels
        BY <3>4, <1>5
      <3> QED  BY <2>1, <3>2, <3>5 DEF AttachedIn
    <2>2. det.stopped \subseteq suspect
      BY DEF WasteInv, ListedInv
    <2> QED
      BY <2>1, <2>2, <1>5
      DEF Evaluate, DetachedVolumes, UnusedPublicIPs, StoppedCompute, Rented
  <1>9. ASSUME NEW w \in steady PROVE w[1] \in seen \/ (w[1] = w[2] /\ Stale(w[1]))
    <2>0. w \in Signs(cloud) /\ w = <<w[1], w[2]>>
      BY DEF WasteInv, HistoryInv, TypeOK
    <2>1. CASE /\ w[1] = w[2] /\ w[1] \in (cloud.exist \cap Rented) \ (Excluded \cup Cheap)
               /\ ~Stale(w[1])
      <3>1. w[1] \in det.listed /\ CostsEnough(w[1], known)
        BY <2>1, <1>7 DEF CostsEnough
      <3>2. <<w[1], w[1]>> \in steady
        BY <2>0, <2>1
      <3>3. ~AttachedIn(inventory.rels, w[1])
        <4>1. \A r \in det.found : r[1][1] # w[1]
          BY <2>1, <3>2 DEF WasteInv, ListedInv
        <4> QED  BY <2>1, <4>1, <1>5 DEF AttachedIn, Stale
      <3>4. w[1] \in DetachedVolumes(Loaded.active, Loaded.rels, known)
                     \cup UnusedPublicIPs(Loaded.active, Loaded.rels, known)
        BY <2>1, <3>1, <3>3, <1>5 DEF DetachedVolumes, UnusedPublicIPs, Rented
      <3> QED  BY <2>1, <3>4 DEF Evaluate, HasExclusionTag
    <2>2. CASE /\ <<w[2], w[1]>> \in cloud.attached /\ w[2] \in Volumes
               /\ w[1] \in cloud.stopped \ Excluded /\ w[2] \notin Excluded
      <3> DEFINE a == <<w[2], w[1]>>
      <3>1. w[1] \in cloud.exist /\ w[2] \in cloud.exist /\ a \in Volumes \X Instances
        BY <2>2, <1>0 DEF WasteInv, CloudInv, Clouds
      <3>2. <<a[2], a[1]>> \in steady /\ Home[a[2]] \in det.scopes
        BY <2>0, <3>1, <1>7
      <3>3. a[2] \in det.stopped /\ <<a, Home[a[2]]>> \in det.found
        BY <3>1, <3>2, <1>2, <1>6 DEF WasteInv, ScanInv
      <3>4. <<a, Home[a[2]]>> \in inventory.rels /\ w[1] \in det.listed /\ w[2] \in det.listed
        BY <3>1, <3>3, <1>5, <1>7
      <3>5. w[1] \in StoppedCompute(Loaded.active, Loaded.stopped, Loaded.rels)
        BY <2>2, <3>3, <3>4, <1>5 DEF StoppedCompute, HasExclusionTag
      <3> QED  BY <2>2, <3>5 DEF Evaluate, HasExclusionTag
    <2> QED  BY <2>0, <2>1, <2>2, <1>0, SignMeans
  <1>10. SeenInv'
    BY <1>1, <1>8, <1>9 DEF SeenInv, FindsSteadyWaste, Stale
  <1> QED  BY <1>3, <1>4, <1>10 DEF WasteInv

\* Every step keeps the invariant.
LEMMA WasteStep ==
  ASSUME TypeOK, WasteInv, [Next]_vars PROVE WasteInv'
  <1>1. CASE RunStep
    <2> SUFFICES ASSUME ~Ends PROVE WasteInv'
      BY EndsInv
    <2>1. CASE ListCompartments
      BY <2>1, CompartmentsInv, FaultEnds DEF ListCompartments
    <2>2. ASSUME NEW s \in Scopes, ListResources(s) PROVE WasteInv'
      BY <2>2, ResourcesInv
    <2>3. CASE ListAttachments
      BY <2>3, AttachmentsInv, SkipInv DEF ListAttachments, history
    <2>4. CASE ListPublicIPs
      BY <2>4, IPsInv, SkipInv DEF ListPublicIPs, history
    <2>5. CASE EndScan
      <3>1. ~(FailSync /\ UNCHANGED budget)
        BY DEF FailSync, Ends, TypeOK, history, Budgets
      <3> QED  BY <2>5, <3>1, EndScanInv DEF EndScan, Partial
    <2>6. CASE UpsertResources
      BY <2>6, UpsertInv, FaultEnds DEF UpsertResources, history
    <2>7. ASSUME NEW b \in Batches, ReplaceRelationships(b) PROVE WasteInv'
      BY <2>7, ReplaceInv, FaultEnds DEF ReplaceRelationships, history
    <2>8. CASE MarkMissingStep
      BY <2>8, MarkInv, FaultEnds DEF MarkMissingStep, MarkMissing, history
    <2>9. CASE CompleteSync
      BY <2>9, NextPhaseInv, FaultEnds DEF CompleteSync, Abort, history
    <2>10. CASE EvaluateInventory
      BY <2>10, EvaluateInv, FaultEnds DEF EvaluateInventory, history
    <2>11. ASSUME NEW r \in Resources, UpsertFinding(r) PROVE WasteInv'
      BY <2>11, NextPhaseInv, FaultEnds DEF UpsertFinding, history
    <2>12. CASE ResolveMissing
      <3>1. [r \in Resources |-> IF findings[r] = "open" /\ r \notin det.seen
                                 THEN "resolved" ELSE findings[r]] \in [Resources -> Statuses]
        BY DEF TypeOK, Statuses
      <3> QED  BY <2>12, <3>1, FaultEnds DEF ResolveMissing, Ends, TypeOK, history, Budgets
    <2> QED
      BY <1>1, <2>1, <2>2, <2>3, <2>4, <2>5, <2>6, <2>7, <2>8, <2>9, <2>10, <2>11, <2>12
      DEF RunStep
  <1>2. CASE ChangeCloud
    BY <1>2, ChangeInv
  <1>3. CASE StartSync
    BY <1>3, StartInv
  <1>4. CASE Crash
    BY <1>4, EndsInv, FaultEnds DEF Crash
  <1>5. CASE \E r \in Resources, status \in Statuses : SetStatus(r, status)
    BY <1>5, SameInv DEF SetStatus, history
  <1>6. CASE UNCHANGED vars
    BY <1>6, SameInv DEF vars, history
  <1> QED  BY <1>1, <1>2, <1>3, <1>4, <1>5, <1>6 DEF Next

\* In the beginning nothing is listed, stored or found.
LEMMA WasteInit ==
  ASSUME Init PROVE TypeOK /\ WasteInv
  <1>1. PICK attached \in SUBSET Attachments, stopped \in SUBSET Instances :
          cloud = [exist |-> Resources, attached |-> attached, stopped |-> stopped,
                   scopes |-> Scopes]
    BY DEF Init
  <1>2. det \in Locals
    BY WasteAssumption DEF Init, Idle, Locals, PCs
  <1>3. TypeOK
    BY <1>1, <1>2, WasteAssumption DEF Init, TypeOK, Locals, Statuses
  <1>4. CloudInv
    <2>1. \A a \in attached : a[1] \in Resources /\ a[2] \in Resources \cup PrivateIPs
      BY DEF Attachments, Resources, Rented
    <2> QED  BY <1>1, <2>1, WasteAssumption DEF CloudInv, Resources
  <1>5. HistoryInv /\ PartialInv /\ ListedInv /\ ScanInv /\ TurnInv /\ StoredInv /\ SeenInv
    BY DEF Init, Idle, HistoryInv, PartialInv, ListedInv, ScanInv, TurnInv, StoredInv, SeenInv,
           AfterScan, AfterScopes, Scanning
  <1> QED  BY <1>3, <1>4, <1>5 DEF WasteInv

\* The types and the invariant hold in every state.
THEOREM WasteInvariant == Spec => [](TypeOK /\ WasteInv)
  <1>1. Init => TypeOK /\ WasteInv
    BY WasteInit
  <1>2. TypeOK /\ WasteInv /\ [Next]_vars => (TypeOK /\ WasteInv)'
    <2> SUFFICES ASSUME TypeOK, WasteInv, [Next]_vars PROVE TypeOK' /\ WasteInv'
      OBVIOUS
    <2> QED  BY TypeStep, WasteStep DEF WasteInv
  <1> QED  BY <1>1, <1>2, PTL DEF Spec

\* The variables of WasteDetection keep their types.
THEOREM TypeCorrect == Spec => []TypeOK
  BY WasteInvariant, PTL

\* However often the cloud changes, calls fail and the process dies: what is evaluated is
\* what one whole, successful sync listed (Sync marks, replaces and completes before Run
\* loads; a partial scan never gets there).
THEOREM CompleteSyncEvaluated == Spec => []EvaluatesCompleteSync
  <1>1. TypeOK /\ WasteInv => EvaluatesCompleteSync
    BY DEF WasteInv, StoredInv, EvaluatesCompleteSync, Evaluating
  <1> QED  BY <1>1, WasteInvariant, PTL

\* A finding is opened only for what was detached, or stopped, at some time since the
\* sync began, though its scopes are listed one after the other while the cloud changes.
THEOREM NoAlarmIsFalse == Spec => []NoFalseAlarm
  <1>1. TypeOK /\ WasteInv => NoFalseAlarm
    BY DEF WasteInv, PartialInv, SeenInv, NoFalseAlarm, Evaluating
  <1> QED  BY <1>1, WasteInvariant, PTL

\* What was waste from the beginning of the sync on is found, unless an attachment in a
\* compartment that is listed no more hides it (ListCloudRelationships reads them all).
THEOREM SteadyWasteFound == Spec => []FindsSteadyWaste
  <1>1. TypeOK /\ WasteInv => FindsSteadyWaste
    BY DEF WasteInv, SeenInv, FindsSteadyWaste
  <1> QED  BY <1>1, WasteInvariant, PTL
=============================================================================
