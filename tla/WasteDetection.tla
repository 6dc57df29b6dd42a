--------------------------- MODULE WasteDetection ---------------------------
(***************************************************************************)
(* Waste detection: the inventory sync of the OCI resources                *)
(* (oci.InventoryCollector.Sync), the evaluation of the stored inventory   *)
(* (waste/engine.Service.Run, rules.EvaluateOCI) and the findings table,   *)
(* while the cloud changes, users judge findings, calls fail and the       *)
(* process dies.                                                           *)
(*                                                                         *)
(* A resource is a volume, an instance or a reserved public IP, in the     *)
(* compartment (scope) given by Home.  A volume is attached to an instance *)
(* and listed as such in the instance's scope; a public IP is assigned to  *)
(* a private IP and listed with it.  Three rules: a volume, or a public    *)
(* IP, without attachment, and a stopped instance with storage.  Boot      *)
(* volumes go the way of block volumes.  Every resource is older than the  *)
(* minimum ages.                                                           *)
(***************************************************************************)
EXTENDS Integers

CONSTANTS
  Volumes, Instances, PublicIPs,
  PrivateIPs,    \* what public IPs are assigned to; no part of the inventory
  Scopes, Root,  \* compartments; the tenancy itself cannot be deleted
  Home,          \* the scope of a resource
  Excluded,      \* resources with an exclusion tag
  Cheap,         \* resources whose known cost is not above min_cost_threshold
  MaxChanges,    \* bound: changes of the cloud
  MaxVerdicts,   \* bound: status changes by users
  MaxFaults      \* bound: failed calls and crashes

Rented    == Volumes \cup PublicIPs   \* waste when attached to nothing
Resources == Rented \cup Instances

ASSUME WasteAssumption ==
  /\ Volumes \cap PublicIPs = {} /\ Rented \cap Instances = {}
  /\ PrivateIPs \cap Resources = {} /\ Root \in Scopes
  /\ Home \in [Resources -> Scopes]
  /\ Excluded \subseteq Resources /\ Cheap \subseteq Rented
  /\ MaxChanges \in Nat /\ MaxVerdicts \in Nat /\ MaxFaults \in Nat

VARIABLES
  cloud,      \* what is in the cloud
  inventory,  \* cloud_resources (active ones) and cloud_resource_relationships
  syncStatus, \* the status of the last row of cloud_inventory_runs
  findings,   \* waste_findings: the status per resource
  det,        \* the locals of the run that goes on
  budget,     \* what may still happen
  steady,     \* history: signs of waste that were there since the sync began
  suspect     \* history: resources that were suspicious at some time since

history == <<steady, suspect>>
vars == <<cloud, inventory, syncStatus, findings, det, budget, history>>

Attachments == (Volumes \X Instances) \cup (PublicIPs \X PrivateIPs)
KindOf(a)   == IF a[1] \in Volumes THEN "volume" ELSE "ip"
ScopeOf(a)  == IF a[1] \in Volumes THEN Home[a[2]] ELSE Home[a[1]]
Batches     == Scopes \X {"volume", "ip"}
Statuses    == {"none", "open", "accepted", "fixed", "resolved"}
PCs == {"idle", "scopes", "scan", "attachments", "ips", "upsert", "replace", "mark",
        "complete", "load", "report", "resolve"}

Idle == [pc |-> "idle", scopes |-> {}, todo |-> {}, scope |-> Root, errs |-> FALSE,
         listed |-> {}, stopped |-> {}, found |-> {}, seen |-> {}]

TypeOK ==
  /\ cloud \in [exist : SUBSET Resources, attached : SUBSET Attachments,
                stopped : SUBSET Instances, scopes : SUBSET Scopes]
  /\ inventory \in [active : SUBSET Resources, stopped : SUBSET Instances,
                    rels : SUBSET (Attachments \X Scopes)]
  /\ syncStatus \in {"none", "running", "success", "failed"}
  /\ findings \in [Resources -> Statuses]
  /\ det \in [pc : PCs, scopes : SUBSET Scopes, todo : SUBSET (Scopes \cup Batches \cup Resources),
              scope : Scopes, errs : BOOLEAN, listed : SUBSET Resources,
              stopped : SUBSET Instances, found : SUBSET (Attachments \X Scopes),
              seen : SUBSET Resources]
  /\ budget \in [changes : 0..MaxChanges, verdicts : 0..MaxVerdicts, faults : 0..MaxFaults]
  /\ steady \subseteq Resources \X Rented /\ suspect \subseteq Resources

-----------------------------------------------------------------------------
(* EvaluateOCI.                                                            *)

\* countRelationships of a volume or a public IP
AttachedIn(rels, v) == \E r \in rels : r[1][1] = v

HasExclusionTag(r) == r \in Excluded

\* A cost above the threshold is asked for unless the cost is unknown.
CostsEnough(v, known) == v \notin Cheap \cap known

\* detachedVolumeFinding
DetachedVolumes(active, rels, known) ==
  {v \in active \cap Volumes : ~AttachedIn(rels, v) /\ CostsEnough(v, known)}

\* unusedReservedPublicIPFinding
UnusedPublicIPs(active, rels, known) ==
  {p \in active \cap PublicIPs : ~AttachedIn(rels, p) /\ CostsEnough(p, known)}

\* stoppedComputeFinding: storage that is listed and not excluded keeps costing.
StoppedCompute(active, stopped, rels) ==
  {i \in active \cap stopped :
     \E r \in rels : r[1][2] = i /\ r[1][1] \in active /\ ~HasExclusionTag(r[1][1])}

\* ListCloudResources, ListCloudRelationships: the resources that are active, but every
\* relationship, whichever scope and run it is from.
Loaded == [active |-> inventory.active, stopped |-> inventory.stopped \cap inventory.active,
           rels |-> inventory.rels]

\* The resources with a finding; excluded ones are skipped.
Evaluate(inv, known) ==
  {r \in DetachedVolumes(inv.active, inv.rels, known)
           \cup UnusedPublicIPs(inv.active, inv.rels, known)
           \cup StoppedCompute(inv.active, inv.stopped, inv.rels) : ~HasExclusionTag(r)}

-----------------------------------------------------------------------------
(* The cloud, and what it shows.                                           *)

\* Signs of waste: a detached volume or public IP, or a stopped instance with some storage.
Signs(c) ==
  {<<v, v>> : v \in {w \in (c.exist \cap Rented) \ (Excluded \cup Cheap) :
                       \A a \in c.attached : a[1] # w}}
  \cup {<<a[2], a[1]>> : a \in {b \in c.attached :
                       b[2] \in c.stopped \ Excluded /\ b[1] \notin Excluded}}

\* What may be reported in good faith.
Suspicious(c) ==
  {v \in c.exist \cap Rented : \A a \in c.attached : a[1] # v} \cup c.stopped

Changes ==
  \/ \E a \in Attachments :
       /\ a[1] \in cloud.exist /\ a[2] \in cloud.exist \cup PrivateIPs
       /\ \A b \in cloud.attached : b[1] # a[1]
       /\ cloud' = [cloud EXCEPT !.attached = @ \cup {a}]
  \/ \E a \in cloud.attached : cloud' = [cloud EXCEPT !.attached = @ \ {a}]
  \/ \E v \in cloud.exist \cap Rented :
       /\ \A a \in cloud.attached : a[1] # v
       /\ cloud' = [cloud EXCEPT !.exist = @ \ {v}]
  \/ \E i \in (cloud.exist \cap Instances) \ cloud.stopped :
       cloud' = [cloud EXCEPT !.stopped = @ \cup {i}]
  \/ \E i \in cloud.stopped : cloud' = [cloud EXCEPT !.stopped = @ \ {i}]
  \/ \E i \in cloud.exist \cap Instances :
       cloud' = [cloud EXCEPT !.exist = @ \ {i}, !.stopped = @ \ {i},
                              !.attached = {a \in @ : a[2] # i}]
  \/ \E s \in cloud.scopes \ {Root} :
       /\ \A r \in cloud.exist : Home[r] # s
       /\ cloud' = [cloud EXCEPT !.scopes = @ \ {s}]

ChangeCloud ==
  /\ budget.changes > 0 /\ budget' = [budget EXCEPT !.changes = @ - 1]
  /\ Changes
  /\ steady' = steady \cap Signs(cloud')
  /\ suspect' = suspect \cup Suspicious(cloud')
  /\ UNCHANGED <<inventory, syncStatus, findings, det>>

\* Ignored and false_positive are treated like accepted.
ValidStatus(status) == status \in Statuses \ {"none"}

UpdateWasteFindingStatus(r, status) == findings' = [findings EXCEPT ![r] = status]

\* A user sets any status of a finding that is there.
SetStatus(r, status) ==
  /\ budget.verdicts > 0 /\ budget' = [budget EXCEPT !.verdicts = @ - 1]
  /\ findings[r] # "none" /\ ValidStatus(status) /\ UpdateWasteFindingStatus(r, status)
  /\ UNCHANGED <<cloud, inventory, syncStatus, det, history>>

-----------------------------------------------------------------------------
(* Sync.                                                                   *)

Fault == budget.faults > 0 /\ budget' = [budget EXCEPT !.faults = @ - 1]

\* The run ends with an error; an attempt is made to mark it as failed.
FailSync ==
  /\ det' = Idle /\ syncStatus' \in {"failed", syncStatus}
  /\ UNCHANGED <<cloud, inventory, findings, history>>

Go(next) == det' = next /\ UNCHANGED <<cloud, inventory, syncStatus, findings, budget, history>>

\* One run at a time.
TryLock == det.pc = "idle"

\* StartCloudInventoryRun; when that fails there was no run.
StartSync ==
  /\ TryLock /\ det' = [Idle EXCEPT !.pc = "scopes"]
  /\ syncStatus' = "running"
  /\ steady' = Signs(cloud) /\ suspect' = Suspicious(cloud)
  /\ UNCHANGED <<cloud, inventory, findings, budget>>

ListCompartments ==
  /\ det.pc = "scopes"
  /\ \/ Go([det EXCEPT !.pc = "scan", !.scopes = cloud.scopes, !.todo = cloud.scopes])
     \/ Fault /\ FailSync

\* resourcesForCompartment, the root first; when it fails the rest is not asked for.
ListResources(s) ==
  /\ det.pc = "scan" /\ s \in det.todo /\ (s = Root \/ Root \notin det.todo)
  /\ \/ LET here == {r \in cloud.exist \ PublicIPs : Home[r] = s}
        IN Go([det EXCEPT !.pc = "attachments", !.scope = s, !.todo = @ \ {s},
                          !.listed = @ \cup here, !.stopped = @ \cup (here \cap cloud.stopped)])
     \/ /\ Fault /\ det' = [det EXCEPT !.todo = @ \ {s}, !.errs = TRUE]
        /\ UNCHANGED <<cloud, inventory, syncStatus, findings, history>>

\* The attachments of one kind that a scope lists.
Shown(kind, s) ==
  {<<a, s>> : a \in {b \in cloud.attached : KindOf(b) = kind /\ ScopeOf(b) = s}}

\* blockVolumeRelationships, bootVolumeRelationships
ListAttachments ==
  /\ det.pc = "attachments"
  /\ \/ Go([det EXCEPT !.pc = "ips", !.found = @ \cup Shown("volume", det.scope)])
     \/ /\ Fault /\ det' = [det EXCEPT !.pc = "ips", !.errs = TRUE]
        /\ UNCHANGED <<cloud, inventory, syncStatus, findings, history>>

\* publicIPs: the resources and what they are assigned to.
ListPublicIPs ==
  /\ det.pc = "ips"
  /\ \/ Go([det EXCEPT !.pc = "scan", !.found = @ \cup Shown("ip", det.scope),
              !.listed = @ \cup {p \in cloud.exist \cap PublicIPs : Home[p] = det.scope}])
     \/ /\ Fault /\ det' = [det EXCEPT !.pc = "scan", !.errs = TRUE]
        /\ UNCHANGED <<cloud, inventory, syncStatus, findings, history>>

\* Mutant: what could be listed is good enough.
NeverPartial == FALSE

Partial == det.errs

EndScan ==
  /\ det.pc = "scan" /\ det.todo = {}
  /\ \/ Partial /\ FailSync /\ UNCHANGED budget
     \/ ~Partial /\ Go([det EXCEPT !.pc = "upsert"])

\* UpsertCloudResources, one transaction: what was listed is active.
UpsertResources ==
  /\ det.pc = "upsert"
  /\ \/ /\ inventory' = [inventory EXCEPT !.active = @ \cup det.listed,
                           !.stopped = (@ \ det.listed) \cup det.stopped]
        /\ det' = [det EXCEPT !.pc = "replace", !.todo = {b \in Batches : b[1] \in det.scopes}]
        /\ UNCHANGED <<cloud, syncStatus, findings, budget, history>>
     \/ Fault /\ FailSync

\* Mutant: relationships are added, the old ones of the scope stay.
OnlyInsert(rels, b, batch) == {r \in rels : r[1] \notin {x[1] : x \in batch}} \cup batch

\* ReplaceCloudRelationshipsScoped, b a scope and a kind: those of b go, then each of
\* the batch is inserted or, as the key is without the scope, moved to it.
ReplaceScoped(rels, b, batch) ==
  {r \in rels : <<r[2], KindOf(r[1])>> # b /\ r[1] \notin {x[1] : x \in batch}} \cup batch

\* One batch after the other, in the order of a Go map.
ReplaceRelationships(b) ==
  /\ det.pc = "replace" /\ b \in det.todo
  /\ \/ /\ inventory' = [inventory EXCEPT !.rels =
              ReplaceScoped(@, b, {r \in det.found : <<r[2], KindOf(r[1])>> = b})]
        /\ det' = [det EXCEPT !.todo = @ \ {b}, !.pc = IF det.todo = {b} THEN "mark" ELSE @]
        /\ UNCHANGED <<cloud, syncStatus, findings, budget, history>>
     \/ Fault /\ FailSync

\* Mutant: nothing is ever missing.
KeepMissing == inventory' = inventory

\* MarkMissingCloudResourcesInactive: active resources another run saw last.
MarkMissing == inventory' = [inventory EXCEPT !.active = @ \cap det.listed]

MarkMissingStep ==
  /\ det.pc = "mark"
  /\ \/ /\ MarkMissing /\ det' = [det EXCEPT !.pc = "complete"]
        /\ UNCHANGED <<cloud, syncStatus, findings, budget, history>>
     \/ Fault /\ FailSync

CompleteSync ==
  /\ det.pc = "complete"
  /\ \/ /\ syncStatus' = "success" /\ det' = [det EXCEPT !.pc = "load"]
        /\ UNCHANGED <<cloud, inventory, findings, budget, history>>
     \/ /\ Fault /\ det' = Idle
        /\ UNCHANGED <<cloud, inventory, syncStatus, findings, history>>

-----------------------------------------------------------------------------
(* The evaluation.                                                         *)

Abort ==
  /\ Fault /\ det' = Idle
  /\ UNCHANGED <<cloud, inventory, syncStatus, findings, history>>

\* ListCloudResources, ListCloudRelationships, GetResourceCostSignal, EvaluateOCI: a
\* cost that cannot be read is unknown.
EvaluateInventory ==
  /\ det.pc = "load"
  /\ \/ \E known \in SUBSET Resources :
          /\ IF known = Resources THEN UNCHANGED budget ELSE Fault
          /\ LET found == Evaluate(Loaded, known)
             IN det' = [det EXCEPT !.pc = "report", !.todo = found, !.seen = found]
          /\ UNCHANGED <<cloud, inventory, syncStatus, findings, history>>
     \/ Abort

\* Mutant: the outcome is taken for the status.
OutcomeOf(status) == IF status = "none" THEN "created" ELSE "updated"

\* Mutant: what was fixed stays fixed.
LeaveFixed(status) == IF status \in {"none", "resolved"} THEN "open" ELSE status

\* The status UpsertWasteFinding leaves.
Upserted(status) ==
  IF status \in {"none", "resolved", "fixed"} THEN "open" ELSE status

UpsertFinding(r) ==
  /\ det.pc = "report" /\ r \in det.todo
  /\ \/ /\ findings' = [findings EXCEPT ![r] = Upserted(@)]
        /\ det' = [det EXCEPT !.todo = @ \ {r}]
        /\ UNCHANGED <<cloud, inventory, syncStatus, budget, history>>
     \/ Abort

\* ResolveMissingWasteFindings: open findings this run did not report.
ResolveMissing ==
  /\ det.pc = "report" /\ det.todo = {}
  /\ \/ /\ findings' = [r \in Resources |->
              IF findings[r] = "open" /\ r \notin det.seen THEN "resolved" ELSE findings[r]]
        /\ det' = Idle
        /\ UNCHANGED <<cloud, inventory, syncStatus, budget, history>>
     \/ Abort

\* The process dies; the sync stays "running" in the table.
Crash ==
  /\ det.pc # "idle" /\ Abort

-----------------------------------------------------------------------------

Init ==
  /\ \E attached \in SUBSET Attachments, stopped \in SUBSET Instances :
       /\ \A a, b \in attached : a[1] = b[1] => a = b
       /\ cloud = [exist |-> Resources, attached |-> attached, stopped |-> stopped,
                   scopes |-> Scopes]
  /\ inventory = [active |-> {}, stopped |-> {}, rels |-> {}]
  /\ syncStatus = "none" /\ findings = [r \in Resources |-> "none"]
  /\ det = Idle
  /\ budget = [changes |-> MaxChanges, verdicts |-> MaxVerdicts, faults |-> MaxFaults]
  /\ steady = {} /\ suspect = {}

RunStep ==
  \/ ListCompartments \/ ListAttachments \/ ListPublicIPs \/ EndScan \/ UpsertResources
  \/ MarkMissingStep \/ CompleteSync \/ EvaluateInventory \/ ResolveMissing
  \/ \E s \in Scopes : ListResources(s)
  \/ \E b \in Batches : ReplaceRelationships(b)
  \/ \E r \in Resources : UpsertFinding(r)

Next ==
  \/ ChangeCloud \/ StartSync \/ RunStep \/ Crash
  \/ \E r \in Resources, status \in Statuses : SetStatus(r, status)

Spec == Init /\ [][Next]_vars

\* The scheduler's ticker starts a run every so often, and a run goes on.
FairSpec == Spec /\ WF_vars(StartSync) /\ WF_vars(RunStep)

-----------------------------------------------------------------------------
(* What must hold.                                                         *)

Evaluating == det.pc \in {"load", "report"}

\* What is evaluated is exactly what the last, complete and successful sync listed,
\* in every scope it listed, whatever earlier failed or interrupted syncs wrote.
EvaluatesCompleteSync ==
  Evaluating =>
    /\ inventory.active = det.listed
    /\ inventory.stopped \cap inventory.active = det.stopped
    /\ {r \in inventory.rels : r[2] \in det.scopes} = det.found

\* A finding is opened only for a resource that was detached, or stopped, at some time
\* since its sync began: a listing that failed never makes a volume or an IP look unused.
NoFalseAlarm == Evaluating => det.seen \subseteq suspect

\* The volume or public IP has an attachment in the inventory whose scope is listed no more.
Stale(v) == \E r \in inventory.rels : r[1][1] = v /\ r[2] \notin det.scopes

\* A detection that ends finds whatever was waste from the beginning of its sync on,
\* unless an attachment of a scope that is gone hides it.
FindsSteadyWaste ==
  (det.pc = "report") => \A w \in steady : w[1] \in det.seen \/ (w[1] = w[2] /\ Stale(w[1]))

\* Findings follow the cloud once it keeps still and failures stop: a volume or public IP
\* that stays detached is open (or accepted by a user), whatever users said meanwhile, and no
\* finding stays open for a resource that is used again or gone.
FindingsFollowCloud ==
  \A r \in Resources :
    /\ <>[](<<r, r>> \in Signs(cloud) /\ \A rel \in inventory.rels : rel[1][1] # r)
          => []<>(findings[r] \in {"open", "accepted"})
    /\ <>[](r \notin Suspicious(cloud)) => <>[](findings[r] # "open")

\* Says rules/oci.go:82: the rule detects volumes with no instance attachment.
DetectsDetachedVolumes ==
  (det.pc = "report") => \A v \in Volumes : <<v, v>> \in steady => v \in det.seen
=============================================================================
