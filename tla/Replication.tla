----------------------------- MODULE Replication -----------------------------
(***************************************************************************)
(* Template replication (backend/plus/template_replication/service.py):    *)
(* a run copies a template to other nodes, by full clone, migration and    *)
(* conversion, or once to a shared storage, after which the source may be  *)
(* removed.                                                                *)
(*                                                                         *)
(* VMIDs belong to the whole cluster.  A VMID that is asked for is not     *)
(* reserved: Proxmox refuses a clone to one that was taken meanwhile.      *)
(* Whether anything is left of a clone that failed is up to Proxmox.       *)
(***************************************************************************)
EXTENDS Portal, FiniteSetsExt

CONSTANTS
  RepTemplates,
  SourceNode,      \* SourceNode[t]: where the source of a template is
  SourceVmid,      \* SourceVmid[t]: its VMID
  RepNodes,
  RepStorages,
  SharedStorages,  \* those that all nodes share
  RepTargets,      \* the target lists users ask for: sequences of [node, storage, newid]
  RepJobs,
  TopVmid,         \* bound: the last VMID of packer_vmid_min..packer_vmid_max
  RepDeployments   \* see `repDeployment'

RepVmids == 1..TopVmid

ASSUME ReplicationAssumption ==
  /\ None \notin RepJobs \cup RepVmids /\ RepNodes # {}
  /\ SourceNode \in [RepTemplates -> RepNodes]
  /\ SourceVmid \in [RepTemplates -> RepVmids]
  /\ \A t, u \in RepTemplates : SourceVmid[t] = SourceVmid[u] => t = u
  /\ SharedStorages \subseteq RepStorages
  /\ RepTargets \subseteq
       Seq([node : RepNodes, storage : RepStorages, newid : RepVmids \cup {None}])
  /\ TopVmid \in Nat
  /\ RepDeployments \subseteq
       [templates : SUBSET RepTemplates, overlap : BOOLEAN, faults : BOOLEAN, blind : BOOLEAN,
        vanish : BOOLEAN, outsiders : BOOLEAN, restarts : BOOLEAN]

VARIABLES
  repDeployment, \* chosen at the start: the templates that are replicated, whether requests
                 \* run between each other's steps, whether calls and tasks fail, whether
                 \* a node may not list its VMs, whether Proxmox removes a failed clone
                 \* itself, whether others create VMs, whether the process may restart
  vms,           \* the VMs of the cluster by VMID; None where there is none
  reps           \* reps[j]: the jobs row and the task of a run

repVars == <<repDeployment, vms, reps>>
-----------------------------------------------------------------------------
\* `todo': the targets whose copy is still to make.
NoRep == [pc |-> "none", template |-> None, targets |-> << >>, todo |-> {}, remove |-> FALSE,
          vmid |-> None, failed |-> FALSE, sharedOk |-> FALSE]

\* `by': the run that made it, None for the sources and everybody else's.
Vm(t, n, st, tmpl, by) ==
  [of |-> t, node |-> n, shared |-> st, template |-> tmpl, by |-> by]

RepInit ==
  /\ repDeployment \in RepDeployments
  /\ vms = [v \in RepVmids |->
              IF \E t \in RepTemplates : SourceVmid[t] = v
              THEN LET t == CHOOSE u \in RepTemplates : SourceVmid[u] = v
                   IN  Vm(t, SourceNode[t], FALSE, TRUE, None)
              ELSE None]
  /\ reps = [j \in RepJobs |-> NoRep]

IsSource(v, t) == v = SourceVmid[t] /\ vms[v] # None /\ vms[v].of = t /\ vms[v].by = None

\* The plan: one copy per shared storage, with the VMID its first target names, then the
\* copies to local storages in their order.
IsShared(tgt) == tgt.storage \in SharedStorages
FirstOfStorage(ts, i) == \A k \in 1..(i - 1) : ts[k].storage # ts[i].storage
RepPlan(ts) == {i \in DOMAIN ts : IsShared(ts[i]) => FirstOfStorage(ts, i)}

RepActive == {"pending", "op", "clone", "cloning", "migrate", "migrating", "convert", "converting",
           "clear", "lost"}

\* Another run of the template whose row is pending or running.
Busy(t) == \E j \in RepJobs : reps[j].template = t /\ reps[j].pc \in RepActive

\* start_replication: the source is a template and on no shared storage, the targets are
\* other nodes, no run is under way.  The row is inserted in another transaction.
StartReplication(j, t, ts, remove) ==
  /\ reps[j].pc = "none" /\ t \in repDeployment.templates
  /\ IsSource(SourceVmid[t], t)
  /\ \A i \in DOMAIN ts : ts[i].node # SourceNode[t]
  /\ ~Busy(t)
  /\ reps' = [reps EXCEPT ![j] =
       [NoRep EXCEPT !.pc = IF repDeployment.overlap THEN "passed" ELSE "pending",
                     !.template = t, !.targets = ts, !.todo = RepPlan(ts), !.remove = remove]]
  /\ UNCHANGED <<repDeployment, vms>>

InsertRep(j) ==
  /\ reps[j].pc = "passed"
  /\ reps' = [reps EXCEPT ![j].pc = "pending"]
  /\ UNCHANGED <<repDeployment, vms>>
-----------------------------------------------------------------------------
(***************************************************************************)
(* The worker, operation by operation.                                     *)
(***************************************************************************)
DueTarget(j) ==
  LET shared == {i \in reps[j].todo : IsShared(reps[j].targets[i])}
  IN  Min(IF shared # {} THEN shared ELSE reps[j].todo)

CurrentOp(j) ==
  LET tgt == reps[j].targets[DueTarget(j)]
  IN  [kind |-> IF IsShared(tgt) THEN "shared" ELSE "local", node |-> tgt.node, newid |-> tgt.newid]

\* The operation is over.
OpEnds(j, ok) ==
  reps' = [reps EXCEPT ![j].pc = "op", ![j].todo = @ \ {DueTarget(j)}, ![j].vmid = None,
             ![j].failed = @ \/ ~ok,
             ![j].sharedOk = @ \/ (ok /\ CurrentOp(j).kind = "shared")]

\* _has_template_named.
TemplateNamed(n, t) ==
  \E v \in RepVmids : vms[v] # None /\ vms[v].of = t /\ vms[v].node = n /\ vms[v].template

\* _next_vmid: the wished one if it is free, otherwise the first free one.
Free == {v \in RepVmids : vms[v] = None}
NextVmids(op) == IF op.newid # None THEN {op.newid} \cap Free
                 ELSE IF Free = {} THEN {} ELSE {Min(Free)}

AtOp(j) == reps[j].pc \in {"pending", "op"} /\ reps[j].todo # {}

\* A node that cannot list its VMs counts as having no such template.
RepExists(j) ==
  CurrentOp(j).kind = "local" /\ TemplateNamed(CurrentOp(j).node, reps[j].template)

SkipOp(j) ==
  /\ AtOp(j) /\ RepExists(j)
  /\ OpEnds(j, TRUE)
  /\ UNCHANGED <<repDeployment, vms>>

TakeVmid(j) ==
  /\ AtOp(j)
  /\ RepExists(j) => repDeployment.blind
  /\ \/ \E v \in NextVmids(CurrentOp(j)) :
          reps' = [reps EXCEPT ![j].pc = "clone", ![j].vmid = v]
     \/ NextVmids(CurrentOp(j)) = {} /\ OpEnds(j, FALSE)
  /\ UNCHANGED <<repDeployment, vms>>

\* Mutant of CloneRefused: clean up as after a task that failed.
CloneRefusedClean(j) == reps' = [reps EXCEPT ![j].pc = "clear"]

\* An exception ends the operation; nothing is cleaned up.
CloneRefused(j) == OpEnds(j, FALSE)

\* clone_vm: refused if the VMID is taken or the source is gone.
Clone(j) ==
  /\ reps[j].pc = "clone"
  /\ LET t == reps[j].template
     IN  \/ /\ vms[reps[j].vmid] = None /\ IsSource(SourceVmid[t], t)
            /\ vms' = [vms EXCEPT ![reps[j].vmid] =
                         Vm(t, SourceNode[t], CurrentOp(j).kind = "shared", FALSE, j)]
            /\ reps' = [reps EXCEPT ![j].pc = "cloning"]
         \/ /\ \/ vms[reps[j].vmid] # None
               \/ ~IsSource(SourceVmid[t], t)
               \/ repDeployment.faults
            /\ CloneRefused(j)
            /\ UNCHANGED vms
  /\ UNCHANGED repDeployment

\* Proxmox locks a VM while a task works on it.
Working == {"cloning", "migrating", "converting"}
VmLocked(v) == \E j \in RepJobs : reps[j].pc \in Working /\ reps[j].vmid = v

\* The task of Proxmox ends; of a clone that failed there may be nothing left.
TaskOk(j) ==
  /\ \/ /\ reps[j].pc = "cloning"
        /\ reps' = [reps EXCEPT ![j].pc = IF CurrentOp(j).kind = "local" THEN "migrate" ELSE "convert"]
        /\ UNCHANGED vms
     \/ /\ reps[j].pc = "migrating"
        /\ vms' = [vms EXCEPT ![reps[j].vmid].node = CurrentOp(j).node]
        /\ reps' = [reps EXCEPT ![j].pc = "convert"]
     \/ /\ reps[j].pc = "converting"
        /\ vms' = [vms EXCEPT ![reps[j].vmid].template = TRUE]
        /\ OpEnds(j, TRUE)
  /\ UNCHANGED repDeployment

TaskFails(j) ==
  /\ repDeployment.faults
  /\ reps[j].pc \in Working
  /\ \/ UNCHANGED vms
     \/ /\ repDeployment.vanish /\ reps[j].pc = "cloning"
        /\ vms' = [vms EXCEPT ![reps[j].vmid] = None]
  /\ reps' = [reps EXCEPT ![j].pc = "clear"]
  /\ UNCHANGED repDeployment

\* migrate_vm and convert_to_template start a task, or the call fails: an exception, which
\* ends the operation and leaves the VM.
StartTask(j) ==
  /\ reps[j].pc \in {"migrate", "convert"}
  /\ \/ /\ vms[reps[j].vmid] # None /\ ~VmLocked(reps[j].vmid)
        /\ reps' = [reps EXCEPT ![j].pc = IF @ = "migrate" THEN "migrating" ELSE "converting"]
     \/ /\ repDeployment.faults \/ vms[reps[j].vmid] = None \/ VmLocked(reps[j].vmid)
        /\ OpEnds(j, FALSE)
  /\ UNCHANGED <<repDeployment, vms>>

\* _cleanup deletes what has the VMID, if it is not locked.
ClearUp(j) ==
  /\ reps[j].pc = "clear"
  /\ \/ ~VmLocked(reps[j].vmid) /\ vms' = [vms EXCEPT ![reps[j].vmid] = None]
     \/ UNCHANGED vms
  /\ OpEnds(j, FALSE)
  /\ UNCHANGED repDeployment

\* Mutant of ShallRemove: whatever became of the copies.
ShallRemoveAnyway(j) == reps[j].remove

\* The source is removed if the user wished it, a shared copy was made and nothing failed.
ShallRemove(j) == reps[j].sharedOk /\ reps[j].remove /\ ~reps[j].failed

FinishRep(j) ==
  /\ reps[j].pc \in {"pending", "op"} /\ reps[j].todo = {}
  /\ IF ShallRemove(j)
     THEN LET v == SourceVmid[reps[j].template]
          IN  \/ ~VmLocked(v) /\ vms' = [vms EXCEPT ![v] = None]
              \/ (repDeployment.faults \/ VmLocked(v)) /\ UNCHANGED vms
     ELSE UNCHANGED vms
  /\ reps' = [reps EXCEPT ![j].pc = "done", ![j].targets = << >>]
  /\ UNCHANGED repDeployment

\* The task dies with the process; the row stays running.
LoseTask ==
  /\ repDeployment.restarts
  /\ \E j \in RepJobs : reps[j].pc \in RepActive \ {"lost"}
  /\ reps' = [j \in RepJobs |-> IF reps[j].pc \in RepActive THEN [reps[j] EXCEPT !.pc = "lost"]
                                ELSE IF reps[j].pc = "passed" THEN NoRep ELSE reps[j]]
  /\ UNCHANGED <<repDeployment, vms>>

\* Somebody else creates a VM.
OutsiderVm(v) ==
  /\ repDeployment.outsiders /\ vms[v] = None
  /\ vms' = [vms EXCEPT ![v] = Vm(None, CHOOSE n \in RepNodes : TRUE, FALSE, FALSE, None)]
  /\ UNCHANGED <<repDeployment, reps>>
-----------------------------------------------------------------------------
RepNext ==
  \/ \E j \in RepJobs :
       \/ \E t \in RepTemplates, ts \in RepTargets, remove \in BOOLEAN :
            StartReplication(j, t, ts, remove)
       \/ InsertRep(j) \/ SkipOp(j) \/ TakeVmid(j) \/ Clone(j) \/ TaskOk(j) \/ TaskFails(j)
       \/ StartTask(j) \/ ClearUp(j) \/ FinishRep(j)
  \/ LoseTask
  \/ \E v \in RepVmids : OutsiderVm(v)

RepSpec == RepInit /\ [][RepNext]_repVars
-----------------------------------------------------------------------------
(***************************************************************************)
(* Properties.                                                             *)
(***************************************************************************)
VmRecord == [of : RepTemplates \cup {None}, node : RepNodes, shared : BOOLEAN,
             template : BOOLEAN, by : RepJobs \cup {None}]

ASSUME VmAssumption == None \notin VmRecord

\* The type invariant.
RepTypeOK ==
  /\ repDeployment \in RepDeployments
  /\ vms \in [RepVmids -> VmRecord \cup {None}]
  /\ \A j \in RepJobs :
       /\ reps[j].pc \in RepActive \cup {"none", "passed", "done"}
       /\ reps[j].template \in RepTemplates \cup {None}
       /\ reps[j].vmid \in RepVmids \cup {None}

\* A number stays with the run it was given to until the run is done with it: a source is
\* taken away only by the last run of its template, and where Proxmox removes what is left
\* of a failed clone, nobody else takes the number before the run clears it.
OneTemplate == \A t, u \in repDeployment.templates : t = u
NumbersKept ==
  /\ repDeployment.overlap => OneTemplate
  /\ repDeployment.faults /\ repDeployment.vanish
       => ~repDeployment.overlap /\ ~repDeployment.outsiders /\ OneTemplate

\* A template is never lost: its source is there, or a finished copy on a shared storage
\* is (the removal of the source in run_replication_job).
TemplateKept ==
  NumbersKept => \A t \in RepTemplates :
    \/ IsSource(SourceVmid[t], t)
    \/ \E v \in RepVmids : vms[v] # None /\ vms[v].of = t /\ vms[v].shared /\ vms[v].template

\* The copies a template has on the other nodes.
LocalCopies(t) ==
  {v \in RepVmids : /\ vms[v] # None /\ vms[v].of = t /\ vms[v].template
                    /\ vms[v].node # SourceNode[t]}

\* Where a node can list its VMs and requests do not run between each other's steps, it
\* gets a template once, however often it is replicated there (_has_template_named).
CopiedOnce ==
  NumbersKept /\ ~repDeployment.blind /\ ~repDeployment.overlap =>
    \A t \in RepTemplates : \A v, w \in LocalCopies(t) : vms[v].node = vms[w].node => v = w

\* Both, over VMs and runs of their types.
CopiesSound == RepTypeOK /\ TemplateKept /\ CopiedOnce

\* What a run clears away is the VM it made (_cleanup: the orphaned intermediate VM).
CleansOnlyOwn ==
  [][NumbersKept => \A j \in RepJobs :
       reps[j].pc = "clear" /\ vms[reps[j].vmid] # None /\ vms'[reps[j].vmid] = None
         => vms[reps[j].vmid].by = j]_repVars

\* What the module says: where something fails, the intermediate VM is cleared away.  A
\* run that has ended has left none that is no template.
NoIntermediateLeft ==
  \A j \in RepJobs, v \in RepVmids :
    (reps[j].pc = "done" /\ vms[v] # None) => ~(vms[v].by = j /\ ~vms[v].template)

\* What start_replication says: no second run on the same template.
OneRunPerTemplate ==
  \A j, k \in RepJobs : (reps[j].pc \in RepActive /\ reps[k].pc \in RepActive
    /\ reps[j].template = reps[k].template) => j = k
=============================================================================
