--------------------------- MODULE CopiesProofs -----------------------------
(***************************************************************************)
(* Copies the portal makes: of templates on other nodes, of the            *)
(* configurations of VMs, of their states.                                 *)
(***************************************************************************)
EXTENDS ConfigSnapshots, Replication, Snapshots, FiniteSetTheorems, SequenceTheorems, WellFoundedInduction, TLAPS

-----------------------------------------------------------------------------
(***************************************************************************)
(* Template replication.                                                   *)
(***************************************************************************)
\* Every set of natural numbers that is not empty has a least one.
LEMMA LeastExists ==
  ASSUME NEW S, S \subseteq Nat, S # {}
  PROVE  \E x \in S : \A y \in S : x <= y
<1>1. PICK x \in S : \A y \in S : ~(<<y, x>> \in OpToRel(<, Nat))
  BY WFMin, NatLessThanWellFounded
<1>2. \A y \in S : ~(y < x)
  BY <1>1 DEF OpToRel
<1> QED BY <1>2

LEMMA MinOfNaturals ==
  ASSUME NEW S, S \subseteq Nat, S # {}
  PROVE  Min(S) \in S /\ \A y \in S : Min(S) <= y
BY LeastExists DEF Min

\* A run that is at an operation with a number; whose number is that of a VM.
Numbered == {"clone", "cloning", "migrate", "migrating", "convert", "converting", "clear"}
Made == Numbered \ {"clone"}
Alive == {"pending", "op"} \cup Numbered
Begun == {"passed", "lost"} \cup Alive

Target == [node : RepNodes, storage : RepStorages, newid : RepVmids \cup {None}]
RepInfo ==
  [pc : Begun \cup {"none", "done"}, template : RepTemplates \cup {None},
   targets : Seq(Target), todo : SUBSET Nat, remove : BOOLEAN,
   vmid : RepVmids \cup {None}, failed : BOOLEAN, sharedOk : BOOLEAN]

\* Runs of their types; Proxmox works on a VM that is there, for one run.
RunsTyped ==
  /\ reps \in [RepJobs -> RepInfo]
  /\ \A j \in RepJobs :
       /\ reps[j].pc \in Begun => /\ reps[j].template \in repDeployment.templates
                                  /\ reps[j].todo \subseteq DOMAIN reps[j].targets
       /\ reps[j].pc \in Numbered => reps[j].vmid \in RepVmids /\ reps[j].todo # {}
Tasks ==
  /\ \A j \in RepJobs : reps[j].pc \in Working => vms[reps[j].vmid] # None
  /\ \A j, k \in RepJobs :
       reps[j].pc \in Working /\ reps[k].pc \in Working /\ reps[j].vmid = reps[k].vmid => j = k
RepTyped ==
  /\ repDeployment \in RepDeployments /\ vms \in [RepVmids -> VmRecord \cup {None}]
  /\ RunsTyped /\ Tasks

\* The operation at hand is one of the targets still to do.
LEMMA OpOfPlan ==
  ASSUME RepTyped, NEW j \in RepJobs, reps[j].pc \in Begun, reps[j].todo # {}
  PROVE  /\ DueTarget(j) \in reps[j].todo
         /\ CurrentOp(j).kind \in {"shared", "local"}
         /\ CurrentOp(j).node \in RepNodes
         /\ CurrentOp(j).newid \in RepVmids \cup {None}
<1>1. reps[j] \in RepInfo /\ reps[j].todo \subseteq DOMAIN reps[j].targets
  BY DEF RepTyped, RunsTyped
<1>2. reps[j].todo \subseteq Nat /\ reps[j].targets \in Seq(Target)
  BY <1>1 DEF RepInfo
<1>3. DueTarget(j) \in reps[j].todo
  <2> DEFINE shared == {i \in reps[j].todo : IsShared(reps[j].targets[i])}
  <2>1. CASE shared # {}
    BY <1>2, <2>1, MinOfNaturals DEF DueTarget
  <2>2. CASE shared = {}
    BY <1>2, <2>2, MinOfNaturals DEF DueTarget
  <2> QED BY <2>1, <2>2
<1>4. reps[j].targets[DueTarget(j)] \in Target
  BY <1>1, <1>2, <1>3
<1> QED BY <1>3, <1>4 DEF CurrentOp, Target

\* What the end of an operation does to its run.
LEMMA OpOver ==
  ASSUME RepTyped, NEW j \in RepJobs, NEW ok \in BOOLEAN, OpEnds(j, ok),
         reps[j].pc \in Begun, reps[j].todo # {}
  PROVE  /\ reps' \in [RepJobs -> RepInfo]
         /\ \A k \in RepJobs \ {j} : reps'[k] = reps[k]
         /\ reps'[j].pc = "op" /\ reps'[j].template = reps[j].template
         /\ reps'[j].targets = reps[j].targets /\ reps'[j].todo \subseteq reps[j].todo
         /\ reps'[j].sharedOk = (reps[j].sharedOk \/ (ok /\ CurrentOp(j).kind = "shared"))
         /\ reps'[j].remove = reps[j].remove
<1>1. reps[j] \in RepInfo
  BY DEF RepTyped, RunsTyped
<1>2. (reps[j].failed \/ ~ok) \in BOOLEAN
      /\ (reps[j].sharedOk \/ (ok /\ CurrentOp(j).kind = "shared")) \in BOOLEAN
  BY <1>1 DEF RepInfo
<1> QED BY <1>1, <1>2 DEF RepTyped, RunsTyped, RepInfo, OpEnds, Begun, Alive

\* The records the actions make are of their types.
LEMMA MadeVm ==
  ASSUME NEW t \in RepTemplates \cup {None}, NEW n \in RepNodes, NEW st \in BOOLEAN,
         NEW tmpl \in BOOLEAN, NEW j \in RepJobs \cup {None}
  PROVE  Vm(t, n, st, tmpl, j) \in VmRecord /\ Vm(t, n, st, tmpl, j) # None
BY VmAssumption DEF Vm, VmRecord

LEMMA RepTypeInit == RepInit => RepTyped
<1> SUFFICES ASSUME RepInit PROVE RepTyped
  OBVIOUS
<1>1. ASSUME NEW v \in RepVmids, \E t \in RepTemplates : SourceVmid[t] = v
      PROVE  LET t == CHOOSE u \in RepTemplates : SourceVmid[u] = v
             IN  Vm(t, SourceNode[t], FALSE, TRUE, None) \in VmRecord
  BY <1>1, ReplicationAssumption, MadeVm
<1>2. vms \in [RepVmids -> VmRecord \cup {None}]
  BY <1>1 DEF RepInit
<1>3. NoRep \in RepInfo
  BY DEF NoRep, RepInfo, Begun, Alive, Numbered
<1>4. RunsTyped
  BY <1>3 DEF RunsTyped, RepInit, NoRep, Begun, Alive, Numbered
<1> QED BY <1>2, <1>4 DEF RepTyped, Tasks, RepInit, NoRep, Working

\* What a step that goes on with an operation does to its run.
LEMMA GoesOn ==
  ASSUME RepTyped, NEW j \in RepJobs, NEW pc \in Begun, reps' = [reps EXCEPT ![j].pc = pc],
         UNCHANGED repDeployment, reps[j].pc \in Begun,
         pc \in Numbered => reps[j].pc \in Numbered
  PROVE  /\ RunsTyped'
         /\ \A k \in RepJobs \ {j} : reps'[k] = reps[k]
         /\ reps'[j] = [reps[j] EXCEPT !.pc = pc]
<1>1. reps \in [RepJobs -> RepInfo] /\ RunsTyped
  BY DEF RepTyped, RunsTyped
<1>2. reps'[j] = [reps[j] EXCEPT !.pc = pc] /\ \A k \in RepJobs \ {j} : reps'[k] = reps[k]
  BY <1>1
<1>3. reps'[j] \in RepInfo
  BY <1>1, <1>2 DEF RepInfo
<1>4. reps' \in [RepJobs -> RepInfo]
  BY <1>1, <1>3
<1>5. /\ reps'[j].pc = pc /\ reps'[j].template = reps[j].template
      /\ reps'[j].targets = reps[j].targets /\ reps'[j].todo = reps[j].todo
      /\ reps'[j].vmid = reps[j].vmid
  BY <1>1, <1>2 DEF RepInfo
<1> QED BY <1>1, <1>2, <1>4, <1>5 DEF RunsTyped

LEMMA RunsTypedStep ==
  ASSUME RepTyped, RepNext PROVE RunsTyped' /\ repDeployment' = repDeployment
<1>j. reps \in [RepJobs -> RepInfo] /\ RunsTyped
  BY DEF RepTyped, RunsTyped
<1> DEFINE Rest == \A k \in RepJobs :
       /\ reps[k].pc \in Begun => /\ reps[k].template \in repDeployment.templates
                                  /\ reps[k].todo \subseteq DOMAIN reps[k].targets
       /\ reps[k].pc \in Numbered => reps[k].vmid \in RepVmids /\ reps[k].todo # {}
<1>r. Rest
  BY <1>j DEF RunsTyped
<1>e. << >> \in Seq(Target)
  OBVIOUS
<1> USE DEF Begun, Alive, Numbered
<1>1. ASSUME NEW j \in RepJobs, NEW t \in RepTemplates, NEW ts \in RepTargets,
             NEW remove \in BOOLEAN, StartReplication(j, t, ts, remove)
      PROVE  RunsTyped' /\ repDeployment' = repDeployment
  <2>1. ts \in Seq(Target)
    BY <1>1, ReplicationAssumption DEF Target
  <2>2. RepPlan(ts) \subseteq DOMAIN ts /\ DOMAIN ts \subseteq Nat
    BY <2>1 DEF RepPlan
  <2>3. reps'[j] \in RepInfo
    BY <1>j, <1>1, <2>1, <2>2 DEF StartReplication, RepInfo, NoRep
  <2>4. \A k \in RepJobs \ {j} : reps'[k] = reps[k]
    BY <1>j, <1>1 DEF StartReplication
  <2>5. /\ reps'[j].template \in repDeployment.templates
        /\ reps'[j].todo \subseteq DOMAIN reps'[j].targets /\ reps'[j].pc \notin Numbered
    BY <1>j, <1>1, <2>2 DEF StartReplication, NoRep
  <2>6. reps' \in [RepJobs -> RepInfo] /\ repDeployment' = repDeployment
    BY <1>j, <1>1, <2>3, <2>4 DEF StartReplication
  <2> QED BY <1>r, <2>4, <2>5, <2>6 DEF RunsTyped
<1>2. ASSUME NEW j \in RepJobs, NEW ok \in BOOLEAN, OpEnds(j, ok), reps[j].pc \in Begun,
             reps[j].todo # {}, UNCHANGED repDeployment
      PROVE  RunsTyped'
  <2>1. /\ reps' \in [RepJobs -> RepInfo] /\ \A k \in RepJobs \ {j} : reps'[k] = reps[k]
        /\ reps'[j].pc = "op" /\ reps'[j].template = reps[j].template
        /\ reps'[j].targets = reps[j].targets /\ reps'[j].todo \subseteq reps[j].todo
    BY <1>2, OpOver
  <2> QED BY <1>2, <1>r, <2>1 DEF RunsTyped
<1>3. ASSUME NEW j \in RepJobs, InsertRep(j) PROVE RunsTyped' /\ repDeployment' = repDeployment
  BY <1>3, GoesOn DEF InsertRep
<1>4. ASSUME NEW j \in RepJobs, SkipOp(j) PROVE RunsTyped' /\ repDeployment' = repDeployment
  BY <1>4, <1>2 DEF SkipOp, AtOp
<1>5. ASSUME NEW j \in RepJobs, TakeVmid(j) PROVE RunsTyped' /\ repDeployment' = repDeployment
  <2>1. reps[j].pc \in {"pending", "op"} /\ reps[j].todo # {} /\ repDeployment' = repDeployment
    BY <1>5 DEF TakeVmid, AtOp
  <2>2. CASE OpEnds(j, FALSE)
    BY <1>2, <2>1, <2>2
  <2>3. ASSUME NEW v \in NextVmids(CurrentOp(j)),
               reps' = [reps EXCEPT ![j].pc = "clone", ![j].vmid = v]
        PROVE  RunsTyped'
    <3>1. v \in RepVmids
      <4>1. Free \subseteq Nat /\ Free \subseteq RepVmids
        BY DEF Free, RepVmids
      <4>2. Free # {} => Min(Free) \in Free
        BY <4>1, MinOfNaturals
      <4> QED BY <2>3, <4>1, <4>2 DEF NextVmids
    <3>2. /\ reps'[j] = [reps[j] EXCEPT !.pc = "clone", !.vmid = v]
          /\ \A k \in RepJobs \ {j} : reps'[k] = reps[k]
      BY <1>j, <2>3
    <3>3. reps'[j] \in RepInfo
      BY <1>j, <3>1, <3>2 DEF RepInfo
    <3>4. /\ reps'[j].pc = "clone" /\ reps'[j].template = reps[j].template
          /\ reps'[j].targets = reps[j].targets /\ reps'[j].todo = reps[j].todo
          /\ reps'[j].vmid = v
      BY <1>j, <3>2 DEF RepInfo
    <3>5. reps' \in [RepJobs -> RepInfo]
      BY <1>j, <2>3, <3>2, <3>3
    <3> QED BY <1>r, <2>1, <3>1, <3>2, <3>4, <3>5 DEF RunsTyped
  <2> QED BY <1>5, <2>1, <2>2, <2>3 DEF TakeVmid
<1>6. ASSUME NEW j \in RepJobs, Clone(j) PROVE RunsTyped' /\ repDeployment' = repDeployment
  <2>1. reps[j].pc = "clone" /\ repDeployment' = repDeployment /\ reps[j].todo # {}
    BY <1>6, <1>r DEF Clone
  <2>2. CASE reps' = [reps EXCEPT ![j].pc = "cloning"]
    BY <2>1, <2>2, GoesOn
  <2>3. CASE CloneRefused(j)
    BY <1>2, <2>1, <2>3 DEF CloneRefused
  <2> QED BY <1>6, <2>1, <2>2, <2>3 DEF Clone
<1>7. ASSUME NEW j \in RepJobs, TaskOk(j) PROVE RunsTyped' /\ repDeployment' = repDeployment
  <2>1. reps[j].pc \in Working /\ repDeployment' = repDeployment /\ reps[j].todo # {}
    BY <1>7, <1>r DEF TaskOk, Working
  <2>2. CASE reps' = [reps EXCEPT ![j].pc = IF CurrentOp(j).kind = "local" THEN "migrate" ELSE "convert"]
    BY <2>1, <2>2, GoesOn DEF Working
  <2>3. CASE reps' = [reps EXCEPT ![j].pc = "convert"]
    BY <2>1, <2>3, GoesOn DEF Working
  <2>4. CASE OpEnds(j, TRUE)
    BY <1>2, <2>1, <2>4 DEF Working
  <2> QED BY <1>7, <2>1, <2>2, <2>3, <2>4 DEF TaskOk
<1>8. ASSUME NEW j \in RepJobs, TaskFails(j) PROVE RunsTyped' /\ repDeployment' = repDeployment
  BY <1>8, GoesOn DEF TaskFails, Working
<1>9. ASSUME NEW j \in RepJobs, StartTask(j) PROVE RunsTyped' /\ repDeployment' = repDeployment
  <2>1. reps[j].pc \in {"migrate", "convert"} /\ repDeployment' = repDeployment /\ reps[j].todo # {}
    BY <1>9, <1>r DEF StartTask
  <2>2. CASE reps' = [reps EXCEPT ![j].pc = IF @ = "migrate" THEN "migrating" ELSE "converting"]
    <3>1. reps' = [reps EXCEPT ![j].pc = IF reps[j].pc = "migrate" THEN "migrating" ELSE "converting"]
      BY <1>j, <2>2
    <3> QED BY <2>1, <3>1, GoesOn
  <2>3. CASE OpEnds(j, FALSE)
    BY <1>2, <2>1, <2>3
  <2> QED BY <1>9, <2>1, <2>2, <2>3 DEF StartTask
<1>10. ASSUME NEW j \in RepJobs, ClearUp(j) PROVE RunsTyped' /\ repDeployment' = repDeployment
  BY <1>10, <1>2, <1>r DEF ClearUp
<1>11. ASSUME NEW j \in RepJobs, FinishRep(j) PROVE RunsTyped' /\ repDeployment' = repDeployment
  <2>1. /\ reps' = [reps EXCEPT ![j].pc = "done", ![j].targets = << >>]
        /\ repDeployment' = repDeployment
    BY <1>11 DEF FinishRep
  <2>2. /\ reps'[j] = [reps[j] EXCEPT !.pc = "done", !.targets = << >>]
        /\ \A k \in RepJobs \ {j} : reps'[k] = reps[k]
    BY <1>j, <2>1
  <2>3. reps'[j] \in RepInfo /\ reps'[j].pc = "done"
    <3>1. reps[j] \in RepInfo
      BY <1>j
    <3> QED BY <1>e, <3>1, <2>2 DEF RepInfo
  <2>4. reps' \in [RepJobs -> RepInfo]
    BY <1>j, <2>1, <2>2, <2>3
  <2> QED BY <1>r, <2>1, <2>2, <2>3, <2>4 DEF RunsTyped
<1>12. CASE LoseTask
  <2>1. /\ repDeployment' = repDeployment
        /\ reps' = [k \in RepJobs |-> IF reps[k].pc \in RepActive THEN [reps[k] EXCEPT !.pc = "lost"]
                                      ELSE IF reps[k].pc = "passed" THEN NoRep ELSE reps[k]]
    BY <1>12 DEF LoseTask
  <2>2. ASSUME NEW k \in RepJobs PROVE reps'[k] \in RepInfo
    <3>1. [reps[k] EXCEPT !.pc = "lost"] \in RepInfo /\ NoRep \in RepInfo
      BY <1>j, <1>e DEF RepInfo, NoRep
    <3> QED BY <1>j, <2>1, <3>1
  <2>3. ASSUME NEW k \in RepJobs
        PROVE  /\ reps'[k].pc \in Begun => /\ reps'[k].template \in repDeployment.templates
                                           /\ reps'[k].todo \subseteq DOMAIN reps'[k].targets
               /\ reps'[k].pc \notin Numbered
    BY <1>j, <1>r, <2>1 DEF RepActive, NoRep, RepInfo
  <2> QED BY <2>1, <2>2, <2>3 DEF RunsTyped
<1>13. ASSUME NEW v \in RepVmids, OutsiderVm(v) PROVE RunsTyped' /\ repDeployment' = repDeployment
  BY <1>13, <1>j DEF OutsiderVm, RunsTyped
<1> HIDE DEF Begun, Alive, Numbered
<1> QED BY <1>1, <1>3, <1>4, <1>5, <1>6, <1>7, <1>8, <1>9, <1>10, <1>11, <1>12, <1>13 DEF RepNext
-----------------------------------------------------------------------------
(***************************************************************************)
(* What a step does to its run j and to the VMs.                           *)
(***************************************************************************)
Others(j) == \A k \in RepJobs \ {j} : reps'[k] = reps[k]
Same(j) == /\ reps'[j].template = reps[j].template /\ reps'[j].targets = reps[j].targets
           /\ reps'[j].todo = reps[j].todo /\ reps'[j].sharedOk = reps[j].sharedOk
Moves(j, from, to) ==
  reps[j].pc = from /\ reps'[j].pc = to /\ Same(j) /\ reps'[j].vmid = reps[j].vmid
Ended(j) == reps'[j].pc = "op" /\ reps'[j].template = reps[j].template

Starts(j) ==
  /\ reps[j].pc = "none" /\ vms' = vms
  /\ IsSource(SourceVmid[reps'[j].template], reps'[j].template) /\ ~Busy(reps'[j].template)
  /\ reps'[j].sharedOk = FALSE
  /\ reps'[j].pc = IF repDeployment.overlap THEN "passed" ELSE "pending"
Inserts(j) == Moves(j, "passed", "pending") /\ vms' = vms
Ends(j) ==
  /\ reps[j].pc \in Alive \ Working /\ Ended(j) /\ reps'[j].sharedOk = reps[j].sharedOk
  /\ \/ vms' = vms
     \/ /\ reps[j].pc = "clear" /\ ~VmLocked(reps[j].vmid)
        /\ vms' = [vms EXCEPT ![reps[j].vmid] = None]
Takes(j) ==
  /\ reps[j].pc \in {"pending", "op"} /\ reps'[j].pc = "clone" /\ Same(j) /\ vms' = vms
  /\ RepExists(j) => repDeployment.blind
Clones(j) ==
  /\ Moves(j, "clone", "cloning") /\ vms[reps[j].vmid] = None
  /\ IsSource(SourceVmid[reps[j].template], reps[j].template)
  /\ vms' = [vms EXCEPT ![reps[j].vmid] =
               Vm(reps[j].template, SourceNode[reps[j].template],
                  CurrentOp(j).kind = "shared", FALSE, j)]
Cloned(j) ==
  Moves(j, "cloning", IF CurrentOp(j).kind = "local" THEN "migrate" ELSE "convert") /\ vms' = vms
Begins(j) ==
  /\ Moves(j, "migrate", "migrating") \/ Moves(j, "convert", "converting")
  /\ vms[reps[j].vmid] # None /\ ~VmLocked(reps[j].vmid) /\ vms' = vms
Moved(j) ==
  /\ Moves(j, "migrating", "convert")
  /\ vms' = [vms EXCEPT ![reps[j].vmid] = [vms[reps[j].vmid] EXCEPT !.node = CurrentOp(j).node]]
Converted(j) ==
  /\ reps[j].pc = "converting" /\ Ended(j)
  /\ reps'[j].sharedOk = (reps[j].sharedOk \/ CurrentOp(j).kind = "shared")
  /\ vms' = [vms EXCEPT ![reps[j].vmid] = [vms[reps[j].vmid] EXCEPT !.template = TRUE]]
Fails(j) ==
  /\ repDeployment.faults /\ reps[j].pc \in Working /\ Moves(j, reps[j].pc, "clear")
  /\ \/ vms' = vms
     \/ /\ repDeployment.vanish /\ reps[j].pc = "cloning"
        /\ vms' = [vms EXCEPT ![reps[j].vmid] = None]
Finishes(j) ==
  /\ reps[j].pc \in {"pending", "op"} /\ reps'[j].pc = "done"
  /\ reps'[j].template = reps[j].template
  /\ \/ vms' = vms
     \/ /\ reps[j].sharedOk /\ ~VmLocked(SourceVmid[reps[j].template])
        /\ vms' = [vms EXCEPT ![SourceVmid[reps[j].template]] = None]

CopyRunStep(j) ==
  Inserts(j) \/ Ends(j) \/ Takes(j) \/ Clones(j) \/ Cloned(j) \/ Begins(j) \/ Moved(j)
    \/ Converted(j) \/ Fails(j) \/ Finishes(j)
Lost(j) ==
  \/ reps[j].pc \in RepActive /\ reps'[j] = [reps[j] EXCEPT !.pc = "lost"]
  \/ reps[j].pc = "passed" /\ reps'[j] = NoRep
  \/ reps[j].pc \notin Begun /\ reps'[j] = reps[j]

LEMMA RepCases ==
  ASSUME RepTyped, RepNext
  PROVE  \/ \E j \in RepJobs : Others(j) /\ (Starts(j) \/ CopyRunStep(j))
         \/ vms' = vms /\ \A j \in RepJobs : Lost(j)
         \/ /\ repDeployment.outsiders /\ reps' = reps
            /\ \E v \in RepVmids : /\ vms[v] = None
                                   /\ vms' = [vms EXCEPT ![v] = Vm(None, CHOOSE n \in RepNodes : TRUE,
                                                                  FALSE, FALSE, None)]
<1>j. reps \in [RepJobs -> RepInfo] /\ vms \in [RepVmids -> VmRecord \cup {None}]
  BY DEF RepTyped, RunsTyped
<1>n. \A k \in RepJobs : reps[k].pc \in Numbered => reps[k].vmid \in RepVmids /\ reps[k].todo # {}
  BY DEF RepTyped, RunsTyped
<1>1. ASSUME NEW j \in RepJobs, NEW pc, reps' = [reps EXCEPT ![j].pc = pc]
      PROVE  Others(j) /\ Moves(j, reps[j].pc, pc)
  BY <1>1, <1>j DEF Others, Moves, Same, RepInfo
<1>2. ASSUME NEW j \in RepJobs, NEW ok \in BOOLEAN, OpEnds(j, ok), reps[j].pc \in Begun,
             reps[j].todo # {}
      PROVE  /\ Others(j) /\ Ended(j)
             /\ reps'[j].sharedOk = (reps[j].sharedOk \/ (ok /\ CurrentOp(j).kind = "shared"))
  BY <1>2, OpOver DEF Others, Ended
<1>b. \A j \in RepJobs : reps[j].sharedOk \in BOOLEAN
  BY <1>j DEF RepInfo
<1> USE DEF Begun, Alive, Numbered, Working
<1>3. ASSUME NEW j \in RepJobs, NEW t \in RepTemplates, NEW ts \in RepTargets,
             NEW remove \in BOOLEAN, StartReplication(j, t, ts, remove)
      PROVE  Others(j) /\ Starts(j)
  <2>1. reps'[j] = [NoRep EXCEPT !.pc = IF repDeployment.overlap THEN "passed" ELSE "pending",
                     !.template = t, !.targets = ts, !.todo = RepPlan(ts), !.remove = remove]
    BY <1>3, <1>j DEF StartReplication
  <2>2. /\ reps'[j].template = t /\ reps'[j].sharedOk = FALSE
        /\ reps'[j].pc = IF repDeployment.overlap THEN "passed" ELSE "pending"
    BY <2>1 DEF NoRep
  <2>3. Others(j)
    BY <1>3, <1>j DEF StartReplication, Others
  <2> QED BY <1>3, <2>2, <2>3 DEF StartReplication, Starts
<1>4. ASSUME NEW j \in RepJobs, InsertRep(j) PROVE Others(j) /\ Inserts(j)
  BY <1>4, <1>1 DEF InsertRep, Inserts
<1>5. ASSUME NEW j \in RepJobs, SkipOp(j) PROVE Others(j) /\ Ends(j)
  <2>1. reps[j].pc \in {"pending", "op"} /\ reps[j].todo # {} /\ OpEnds(j, TRUE) /\ vms' = vms
        /\ CurrentOp(j).kind = "local"
    BY <1>5 DEF SkipOp, AtOp, RepExists
  <2> QED BY <1>2, <2>1, <1>b DEF Ends
<1>6. ASSUME NEW j \in RepJobs, TakeVmid(j) PROVE Others(j) /\ (Takes(j) \/ Ends(j))
  <2>1. reps[j].pc \in {"pending", "op"} /\ reps[j].todo # {} /\ vms' = vms
        /\ (RepExists(j) => repDeployment.blind)
    BY <1>6 DEF TakeVmid, AtOp
  <2>2. CASE OpEnds(j, FALSE)
    BY <1>2, <2>1, <2>2, <1>b DEF Ends
  <2>3. ASSUME NEW v, reps' = [reps EXCEPT ![j].pc = "clone", ![j].vmid = v]
        PROVE  Others(j) /\ Takes(j)
    BY <2>1, <2>3, <1>j DEF Others, Takes, Same, RepInfo
  <2> QED BY <1>6, <2>2, <2>3 DEF TakeVmid
<1>7. ASSUME NEW j \in RepJobs, Clone(j) PROVE Others(j) /\ (Clones(j) \/ Ends(j))
  <2>1. reps[j].pc = "clone" /\ reps[j].todo # {}
    BY <1>7, <1>n DEF Clone
  <2>2. CASE CloneRefused(j) /\ vms' = vms
    BY <1>2, <2>1, <2>2, <1>b DEF Ends, CloneRefused
  <2>3. CASE /\ vms[reps[j].vmid] = None
             /\ IsSource(SourceVmid[reps[j].template], reps[j].template)
             /\ vms' = [vms EXCEPT ![reps[j].vmid] =
                          Vm(reps[j].template, SourceNode[reps[j].template],
                             CurrentOp(j).kind = "shared", FALSE, j)]
             /\ reps' = [reps EXCEPT ![j].pc = "cloning"]
    BY <1>1, <2>1, <2>3 DEF Clones
  <2> QED BY <1>7, <2>2, <2>3 DEF Clone
<1>8. ASSUME NEW j \in RepJobs, TaskOk(j) PROVE Others(j) /\ (Cloned(j) \/ Moved(j) \/ Converted(j))
  <2>1. CASE reps[j].pc = "cloning"
    BY <1>1, <1>8, <2>1 DEF TaskOk, Cloned
  <2>2. CASE reps[j].pc = "migrating"
    BY <1>1, <1>8, <2>2, <1>j, <1>n DEF TaskOk, Moved
  <2>3. CASE reps[j].pc = "converting"
    <3>1. OpEnds(j, TRUE) /\ vms' = [vms EXCEPT ![reps[j].vmid].template = TRUE]
      BY <1>8, <2>3 DEF TaskOk
    <3> QED BY <1>2, <1>n, <1>j, <2>3, <3>1 DEF Converted
  <2> QED BY <1>8, <2>1, <2>2, <2>3 DEF TaskOk
<1>9. ASSUME NEW j \in RepJobs, TaskFails(j) PROVE Others(j) /\ Fails(j)
  BY <1>1, <1>9 DEF TaskFails, Fails
<1>10. ASSUME NEW j \in RepJobs, StartTask(j) PROVE Others(j) /\ (Begins(j) \/ Ends(j))
  <2>1. reps[j].pc \in {"migrate", "convert"} /\ reps[j].todo # {} /\ vms' = vms
    BY <1>10, <1>n DEF StartTask
  <2>2. CASE OpEnds(j, FALSE)
    BY <1>2, <2>1, <2>2, <1>b DEF Ends
  <2>3. CASE /\ reps' = [reps EXCEPT ![j].pc = IF @ = "migrate" THEN "migrating" ELSE "converting"]
             /\ vms[reps[j].vmid] # None /\ ~VmLocked(reps[j].vmid)
    <3>1. reps' = [reps EXCEPT ![j].pc = IF reps[j].pc = "migrate" THEN "migrating" ELSE "converting"]
      BY <1>j, <2>3
    <3> QED BY <1>1, <2>1, <2>3, <3>1 DEF Begins
  <2> QED BY <1>10, <2>2, <2>3 DEF StartTask
<1>11. ASSUME NEW j \in RepJobs, ClearUp(j) PROVE Others(j) /\ Ends(j)
  <2>1. reps[j].pc = "clear" /\ reps[j].todo # {} /\ OpEnds(j, FALSE)
    BY <1>11, <1>n DEF ClearUp
  <2> QED BY <1>2, <1>11, <2>1, <1>b DEF ClearUp, Ends
<1>12. ASSUME NEW j \in RepJobs, FinishRep(j) PROVE Others(j) /\ Finishes(j)
  <2>1. reps' = [reps EXCEPT ![j].pc = "done", ![j].targets = << >>]
    BY <1>12 DEF FinishRep
  <2>2. Others(j) /\ reps'[j].pc = "done" /\ reps'[j].template = reps[j].template
    BY <2>1, <1>j DEF Others, RepInfo
  <2> QED BY <1>12, <2>2 DEF FinishRep, Finishes, ShallRemove
<1>13. ASSUME LoseTask PROVE vms' = vms /\ \A j \in RepJobs : Lost(j)
  BY <1>13, <1>j DEF LoseTask, Lost, RepActive, RepInfo
<1> HIDE DEF Begun, Alive, Numbered, Working
<1> QED BY <1>3, <1>4, <1>5, <1>6, <1>7, <1>8, <1>9, <1>10, <1>11, <1>12, <1>13
        DEF RepNext, CopyRunStep, OutsiderVm
-----------------------------------------------------------------------------
(***************************************************************************)
(* The inductive invariant, below NumbersKept.                             *)
(***************************************************************************)
\* Where requests do not run between each other's steps, a template has one run at most.
OneRun ==
  ~repDeployment.overlap =>
    /\ OneRunPerTemplate
    /\ \A j \in RepJobs : reps[j].pc # "passed"

\* The VM with the number of a run is the run's, no template yet, and where its clone or
\* migration put it; only what a failed clone left may be gone.
VmOf(j) == vms[reps[j].vmid]
OwnVm(j) ==
  /\ VmOf(j) # None /\ VmOf(j).by = j /\ VmOf(j).of = reps[j].template /\ ~VmOf(j).template
  /\ VmOf(j).shared = (CurrentOp(j).kind = "shared")
  /\ reps[j].pc \in {"migrate", "migrating"} => ~VmOf(j).shared
  /\ reps[j].pc # "clear" =>
       VmOf(j).node = IF VmOf(j).shared \/ reps[j].pc \in {"cloning", "migrate", "migrating"}
                      THEN SourceNode[reps[j].template] ELSE CurrentOp(j).node
GoneVm(j) ==
  reps[j].pc = "clear" /\ VmOf(j) = None /\ repDeployment.faults /\ repDeployment.vanish
Owned ==
  NumbersKept => \A j \in RepJobs : reps[j].pc \in Made => OwnVm(j) \/ GoneVm(j)

\* At the number of the source there is no copy as long as a run of it is under way; where
\* requests do not run between each other's steps, the source itself is.
SourceSafe ==
  NumbersKept => \A j \in RepJobs :
    /\ reps[j].pc \in {"passed"} \cup Alive =>
         LET vm == vms[SourceVmid[reps[j].template]] IN vm = None \/ vm.by = None
    /\ reps[j].pc \in Alive /\ ~repDeployment.overlap
         => IsSource(SourceVmid[reps[j].template], reps[j].template)

\* The copy on a shared storage that a run has made is there.
SharedCopy(vm, t) == vm # None /\ vm.of = t /\ vm.shared /\ vm.template
CopyThere ==
  NumbersKept => \A j \in RepJobs :
    reps[j].pc \in Begun /\ reps[j].sharedOk => \E v \in RepVmids : SharedCopy(vms[v], reps[j].template)
CopiesByRuns ==
  NumbersKept => \A v \in RepVmids : vms[v] # None /\ vms[v].shared => vms[v].by # None

\* Where a copy is being made, its template is not there yet.
FreshCopies ==
  NumbersKept /\ ~repDeployment.blind /\ ~repDeployment.overlap => \A j \in RepJobs :
    reps[j].pc \in Numbered /\ CurrentOp(j).kind = "local"
      => ~TemplateNamed(CurrentOp(j).node, reps[j].template)

RepInv ==
  /\ RepTyped /\ OneRun /\ Owned /\ SourceSafe /\ CopiesByRuns /\ CopyThere
  /\ TemplateKept /\ FreshCopies /\ CopiedOnce
-----------------------------------------------------------------------------
\* The VMs are of their type, and each is worked on for one run, after a step.
LEMMA RepTypeStep ==
  ASSUME RepTyped, RepNext PROVE RepTyped' /\ repDeployment' = repDeployment
<1>1. RunsTyped' /\ repDeployment' = repDeployment
  BY RunsTypedStep
<1>2. /\ reps \in [RepJobs -> RepInfo] /\ vms \in [RepVmids -> VmRecord \cup {None}]
      /\ \A k \in RepJobs : reps[k].pc \in Numbered => reps[k].vmid \in RepVmids /\ reps[k].todo # {}
      /\ \A k \in RepJobs : reps[k].pc \in Begun => reps[k].template \in RepTemplates
  BY ReplicationAssumption DEF RepTyped, RunsTyped
<1>t. Tasks
  BY DEF RepTyped
<1>w. Working \subseteq Made /\ Made \subseteq Numbered /\ Numbered \subseteq Begun
  BY DEF Working, Made, Numbered, Begun, Alive
<1>l. \A v \in RepVmids : ~VmLocked(v) => \A k \in RepJobs : reps[k].pc \in Working => reps[k].vmid # v
  BY DEF VmLocked
<1> DEFINE Good == vms' \in [RepVmids -> VmRecord \cup {None}] /\ Tasks'
<1>3. ASSUME NEW j \in RepJobs, Others(j), Starts(j) \/ CopyRunStep(j)
      PROVE  Good
  <2>1. ASSUME vms' = vms, reps'[j].pc \notin Working PROVE Good
    BY <1>2, <1>t, <1>3, <2>1 DEF Tasks, Others
  <2>2. ASSUME vms' = vms, reps[j].pc \in Working, reps'[j].vmid = reps[j].vmid PROVE Good
    BY <1>2, <1>t, <1>3, <2>2 DEF Tasks, Others
  \* A VM that nobody works on is taken away.
  <2>3. ASSUME NEW v \in RepVmids, ~VmLocked(v), vms' = [vms EXCEPT ![v] = None],
               reps'[j].pc \notin Working
        PROVE  Good
    <3>1. \A k \in RepJobs : reps'[k].pc \in Working => reps'[k] = reps[k] /\ reps[k].vmid # v
      BY <1>3, <1>l, <2>3 DEF Others
    <3> QED BY <1>2, <1>t, <1>w, <2>3, <3>1 DEF Tasks
  \* One that is worked on changes.
  <2>4. ASSUME reps[j].pc \in Working, NEW r \in VmRecord,
               vms' = [vms EXCEPT ![reps[j].vmid] = r], reps'[j].pc \notin Working
        PROVE  Good
    <3>1. \A k \in RepJobs : reps'[k].pc \in Working => reps'[k] = reps[k]
      BY <1>3, <2>4 DEF Others
    <3>2. r # None
      BY VmAssumption
    <3> QED BY <1>2, <1>t, <1>w, <2>4, <3>1, <3>2 DEF Tasks
  <2>5. CASE Starts(j)
    BY <2>1, <2>5 DEF Starts, Working
  <2>6. CASE Inserts(j) \/ Takes(j) \/ Cloned(j)
    BY <2>1, <2>6 DEF Inserts, Takes, Cloned, Moves, Working
  <2>7. CASE Ends(j)
    BY <1>2, <2>1, <2>3, <2>7 DEF Ends, Ended, Working, Numbered
  <2>8. CASE Clones(j)
    <3> DEFINE st == CurrentOp(j).kind = "shared"
               r == Vm(reps[j].template, SourceNode[reps[j].template], st, FALSE, j)
    <3>0. st \in BOOLEAN
      OBVIOUS
    <3>1. reps[j].pc = "clone" /\ reps'[j].vmid = reps[j].vmid /\ vms[reps[j].vmid] = None
          /\ vms' = [vms EXCEPT ![reps[j].vmid] = r]
      BY <2>8 DEF Clones, Moves
    <3>2. reps[j].vmid \in RepVmids /\ reps[j].template \in RepTemplates
      BY <1>2, <1>w, <3>1 DEF Numbered
    <3>3. r \in VmRecord /\ r # None
      <4> HIDE DEF st
      <4> QED BY <3>0, <3>2, MadeVm, ReplicationAssumption
    <3>4. \A k \in RepJobs \ {j} : reps[k].pc \in Working => reps[k].vmid # reps[j].vmid
      BY <1>t, <3>1 DEF Tasks
    <3> HIDE DEF r
    <3> QED BY <1>2, <1>3, <1>t, <1>w, <3>1, <3>2, <3>3, <3>4 DEF Tasks, Others
  <2>9. CASE Begins(j)
    <3>1. reps'[j].vmid = reps[j].vmid /\ reps[j].pc \in Numbered
      BY <2>9 DEF Begins, Moves, Numbered
    <3>2. \A k \in RepJobs : reps[k].pc \in Working => reps[k].vmid # reps[j].vmid
      BY <1>2, <1>l, <2>9, <3>1 DEF Begins
    <3> QED BY <1>2, <1>3, <1>t, <2>9, <3>1, <3>2 DEF Tasks, Others, Begins
  <2>10. CASE Moved(j) \/ Converted(j)
    <3>1. reps[j].pc \in Working /\ reps'[j].pc \notin Working
      BY <2>10 DEF Moved, Converted, Moves, Ended, Working
    <3>2. reps[j].todo # {} /\ reps[j].pc \in Begun /\ vms[reps[j].vmid] \in VmRecord
      BY <1>2, <1>t, <1>w, <3>1 DEF Tasks
    <3>3. CurrentOp(j).node \in RepNodes
      BY <3>2, OpOfPlan
    <3>4. /\ [vms[reps[j].vmid] EXCEPT !.node = CurrentOp(j).node] \in VmRecord
          /\ [vms[reps[j].vmid] EXCEPT !.template = TRUE] \in VmRecord
      BY <3>2, <3>3 DEF VmRecord
    <3> QED BY <2>4, <2>10, <3>1, <3>4 DEF Moved, Converted
  <2>11. CASE Fails(j)
    <3>1. reps[j].pc \in Working /\ reps'[j].pc \notin Working
      BY <2>11 DEF Fails, Moves, Working
    <3>2. CASE vms' = vms
      BY <2>1, <3>1, <3>2
    <3>3. CASE vms' = [vms EXCEPT ![reps[j].vmid] = None]
      <4>1. \A k \in RepJobs \ {j} : reps[k].pc \in Working => reps[k].vmid # reps[j].vmid
        BY <1>t, <3>1 DEF Tasks
      <4> QED BY <1>2, <1>3, <1>t, <1>w, <3>1, <3>3, <4>1 DEF Tasks, Others
    <3> QED BY <2>11, <3>2, <3>3 DEF Fails
  <2>12. CASE Finishes(j)
    <3>1. SourceVmid[reps[j].template] \in RepVmids /\ reps'[j].pc \notin Working
      BY <1>2, <2>12, ReplicationAssumption DEF Finishes, Begun, Alive, Working
    <3> QED BY <2>1, <2>3, <2>12, <3>1 DEF Finishes
  <2> QED BY <1>3, <2>5, <2>6, <2>7, <2>8, <2>9, <2>10, <2>11, <2>12 DEF CopyRunStep
<1>4. ASSUME vms' = vms, \A j \in RepJobs : Lost(j) PROVE Good
  <2>1. ASSUME NEW k \in RepJobs PROVE reps'[k].pc \notin Working
    <3>1. CASE reps'[k] = [reps[k] EXCEPT !.pc = "lost"]
      BY <1>2, <3>1 DEF RepInfo, Working
    <3>2. CASE reps'[k] = NoRep
      BY <3>2 DEF NoRep, Working
    <3>3. CASE reps[k].pc \notin Begun /\ reps'[k] = reps[k]
      BY <1>w, <3>3
    <3> QED BY <1>4, <3>1, <3>2, <3>3 DEF Lost
  <2> QED BY <1>2, <1>4, <2>1 DEF Tasks
<1>5. ASSUME reps' = reps, NEW v \in RepVmids, vms[v] = None,
             vms' = [vms EXCEPT ![v] = Vm(None, CHOOSE n \in RepNodes : TRUE, FALSE, FALSE, None)]
      PROVE  Good
  <2>1. Vm(None, CHOOSE n \in RepNodes : TRUE, FALSE, FALSE, None) \in VmRecord
    BY MadeVm, ReplicationAssumption DEF RepTyped
  <2> QED BY <1>2, <1>5, <1>t, <1>w, <2>1, VmAssumption DEF Tasks
<1>6. Good
  BY <1>3, <1>4, <1>5, RepCases
<1> QED BY <1>1, <1>6 DEF RepTyped
-----------------------------------------------------------------------------
\* What the cases of a step have in common.
LEMMA RunBegun ==
  ASSUME NEW j \in RepJobs, CopyRunStep(j)
  PROVE  /\ reps[j].pc \in Begun \ {"lost"} /\ reps'[j].pc \in ({"done"} \cup Begun) \ {"lost", "passed"}
         /\ reps'[j].template = reps[j].template
         /\ reps[j].pc # "passed" => reps[j].pc \in Alive
BY DEF CopyRunStep, Inserts, Ends, Takes, Clones, Cloned, Begins, Moved, Converted, Fails, Finishes,
       Moves, Same, Ended, Begun, Alive, Numbered, Working

LEMMA SameOp ==
  ASSUME NEW j \in RepJobs, reps'[j].targets = reps[j].targets, reps'[j].todo = reps[j].todo
  PROVE  CurrentOp(j)' = CurrentOp(j)
<1>1. DueTarget(j)' = DueTarget(j)
  BY DEF DueTarget
<1> QED BY <1>1 DEF CurrentOp

LEMMA LostRuns ==
  ASSUME RepTyped, \A j \in RepJobs : Lost(j), NEW j \in RepJobs
  PROVE  /\ reps'[j].pc \in {"none", "done", "lost"}
         /\ reps'[j].pc = "lost" => /\ reps[j].pc \in Begun \ {"passed"}
                                    /\ reps'[j].template = reps[j].template
                                    /\ reps'[j].sharedOk = reps[j].sharedOk
<1>1. reps[j] \in RepInfo /\ reps'[j] \in RepInfo \cup {NoRep, [reps[j] EXCEPT !.pc = "lost"]}
  BY DEF RepTyped, RunsTyped, Lost
<1>2. CASE reps[j].pc \in RepActive /\ reps'[j] = [reps[j] EXCEPT !.pc = "lost"]
  BY <1>1, <1>2 DEF RepInfo, RepActive, Begun, Alive, Numbered
<1>3. CASE reps[j].pc = "passed" /\ reps'[j] = NoRep
  BY <1>3 DEF NoRep
<1>4. CASE reps[j].pc \notin Begun /\ reps'[j] = reps[j]
  BY <1>1, <1>4 DEF RepInfo, Begun
<1> QED BY <1>2, <1>3, <1>4 DEF Lost

\* One run per template, after a step.
LEMMA OneRunStep ==
  ASSUME RepTyped, OneRun, RepNext PROVE OneRun'
<1>1. SUFFICES ASSUME ~repDeployment.overlap PROVE OneRunPerTemplate' /\ \A j \in RepJobs : reps'[j].pc # "passed"
  BY RepTypeStep DEF OneRun
<1>2. OneRunPerTemplate /\ \A j \in RepJobs : reps[j].pc # "passed"
  BY <1>1 DEF OneRun
<1>a. RepActive = Begun \ {"passed"}
  BY DEF RepActive, Begun, Alive, Numbered
<1>3. ASSUME NEW j \in RepJobs, Others(j), Starts(j)
      PROVE  OneRunPerTemplate' /\ \A k \in RepJobs : reps'[k].pc # "passed"
  <2>1. reps'[j].pc = "pending" /\ ~Busy(reps'[j].template)
    BY <1>1, <1>3 DEF Starts
  <2>2. \A k \in RepJobs : reps[k].pc \in RepActive => reps[k].template # reps'[j].template
    BY <2>1 DEF Busy
  <2> QED BY <1>2, <1>3, <2>1, <2>2 DEF OneRunPerTemplate, Others
<1>4. ASSUME NEW j \in RepJobs, Others(j), CopyRunStep(j)
      PROVE  OneRunPerTemplate' /\ \A k \in RepJobs : reps'[k].pc # "passed"
  <2>1. reps[j].pc \in RepActive /\ reps'[j].pc # "passed" /\ reps'[j].template = reps[j].template
    BY <1>2, <1>4, <1>a, RunBegun
  <2> QED BY <1>2, <1>4, <2>1 DEF OneRunPerTemplate, Others
<1>5. ASSUME \A j \in RepJobs : Lost(j)
      PROVE  OneRunPerTemplate' /\ \A k \in RepJobs : reps'[k].pc # "passed"
  <2>1. \A k \in RepJobs : /\ reps'[k].pc # "passed"
                           /\ reps'[k].pc \in RepActive => /\ reps[k].pc \in RepActive
                                                          /\ reps'[k].template = reps[k].template
    BY <1>5, <1>a, LostRuns DEF RepActive
  <2> QED BY <1>2, <2>1 DEF OneRunPerTemplate
<1>6. ASSUME reps' = reps PROVE OneRunPerTemplate' /\ \A k \in RepJobs : reps'[k].pc # "passed"
  BY <1>2, <1>6 DEF OneRunPerTemplate
<1> QED BY <1>3, <1>4, <1>5, <1>6, RepCases

\* Where a clone that fails may vanish there is one run at a time.
LEMMA OnlyRun ==
  ASSUME RepTyped, OneRun, NumbersKept, repDeployment.faults, repDeployment.vanish,
         NEW j \in RepJobs, NEW k \in RepJobs, reps[j].pc \in Alive, reps[k].pc \in Alive
  PROVE  j = k
<1>1. reps[j].template = reps[k].template
  BY DEF RepTyped, RunsTyped, NumbersKept, OneTemplate, Begun
<1>2. Alive \subseteq RepActive
  BY DEF Alive, Numbered, RepActive
<1> QED BY <1>1, <1>2 DEF OneRun, NumbersKept, OneRunPerTemplate

\* The VM a step of a run changes is the run's own, a source of nobody's making, or new.
LEMMA Touches ==
  ASSUME RepTyped, Owned, SourceSafe, NumbersKept, NEW j \in RepJobs, Starts(j) \/ CopyRunStep(j)
  PROVE  \/ vms' = vms
         \/ \E v \in RepVmids : /\ vms[v] = None \/ vms[v].by \in {None, j}
                                /\ \A w \in RepVmids \ {v} : vms'[w] = vms[w]
                                /\ vms[v] = None => vms'[v] = None \/ Clones(j)
<1>0. /\ \A k \in RepJobs : reps[k].pc \in Numbered => reps[k].vmid \in RepVmids
      /\ \A k \in RepJobs : reps[k].pc \in Begun => reps[k].template \in RepTemplates
      /\ vms \in [RepVmids -> VmRecord \cup {None}]
  BY ReplicationAssumption DEF RepTyped, RunsTyped
<1>1. ASSUME reps[j].pc \in Made PROVE reps[j].vmid \in RepVmids /\ (VmOf(j) = None \/ VmOf(j).by = j)
  BY <1>0, <1>1 DEF Owned, OwnVm, GoneVm, Made
<1>2. ASSUME NEW x, vms' = [vms EXCEPT ![reps[j].vmid] = x], reps[j].pc \in Made,
             reps[j].pc \in Working \/ x = None
      PROVE  \E v \in RepVmids : /\ vms[v] = None \/ vms[v].by \in {None, j}
                                 /\ \A w \in RepVmids \ {v} : vms'[w] = vms[w]
                                 /\ vms[v] = None => vms'[v] = None
  <2>1. reps[j].pc \in Working => VmOf(j) # None
    BY DEF RepTyped, Tasks, VmOf
  <2> QED BY <1>0, <1>1, <1>2, <2>1 DEF VmOf
<1>3. CASE Clones(j)
  BY <1>0, <1>3 DEF Clones, Moves, Numbered
<1>4. CASE Finishes(j)
  <2>1. reps[j].pc \in {"passed"} \cup Alive /\ reps[j].pc \in Begun
    BY <1>4 DEF Finishes, Begun, Alive
  <2>2. SourceVmid[reps[j].template] \in RepVmids
    BY <1>0, <2>1, ReplicationAssumption
  <2>3. vms[SourceVmid[reps[j].template]] = None \/ vms[SourceVmid[reps[j].template]].by = None
    BY <2>1 DEF SourceSafe
  <2> QED BY <1>0, <1>4, <2>2, <2>3 DEF Finishes
<1>5. CASE Ends(j) \/ Moved(j) \/ Converted(j) \/ Fails(j)
  BY <1>2, <1>5 DEF Ends, Moved, Converted, Fails, Moves, Made, Numbered, Working
<1>6. CASE Starts(j) \/ Inserts(j) \/ Takes(j) \/ Cloned(j) \/ Begins(j)
  BY <1>6 DEF Starts, Inserts, Takes, Cloned, Begins
<1> QED BY <1>3, <1>4, <1>5, <1>6 DEF CopyRunStep

\* NumbersKept is about the deployment alone.
LEMMA KeptNumbers == ASSUME RepTyped, RepNext PROVE NumbersKept' <=> NumbersKept
  BY RepTypeStep DEF NumbersKept, OneTemplate

\* The VMs of the runs, after a step.
LEMMA OwnedStep ==
  ASSUME RepTyped, OneRun, Owned, SourceSafe, RepNext PROVE Owned'
<1> SUFFICES ASSUME NumbersKept, NEW k \in RepJobs, reps'[k].pc \in Made
             PROVE  OwnVm(k)' \/ GoneVm(k)'
  BY KeptNumbers DEF Owned
<1>d. repDeployment' = repDeployment
  BY RepTypeStep
<1>0. /\ \A j \in RepJobs : reps[j].pc \in Numbered => reps[j].vmid \in RepVmids
      /\ vms \in [RepVmids -> VmRecord \cup {None}]
  BY DEF RepTyped, RunsTyped
<1>m. Made \subseteq Numbered /\ Numbered \subseteq Alive /\ Alive \subseteq Begun
  BY DEF Made, Numbered, Alive, Begun
<1>n. None \notin RepJobs
  BY ReplicationAssumption
<1>k. ASSUME reps'[k] = reps[k]
      PROVE  /\ reps[k].pc \in Made /\ reps[k].vmid \in RepVmids /\ (OwnVm(k) \/ GoneVm(k))
             /\ VmOf(k)' = VmOf(k) => OwnVm(k)' \/ GoneVm(k)'
  <2>1. CurrentOp(k)' = CurrentOp(k)
    BY <1>k, SameOp
  <2>2. reps[k].pc \in Made /\ reps[k].vmid \in RepVmids /\ (OwnVm(k) \/ GoneVm(k))
    BY <1>0, <1>k, <1>m DEF Owned
  <2> QED BY <1>d, <1>k, <2>1, <2>2 DEF OwnVm, GoneVm
\* The others.
<1>1. ASSUME NEW j \in RepJobs, Others(j), Starts(j) \/ CopyRunStep(j), j # k
      PROVE  OwnVm(k)' \/ GoneVm(k)'
  <2>0. reps'[k] = reps[k]
    BY <1>1 DEF Others
  <2>1. CASE vms' = vms
    BY <1>k, <2>0, <2>1 DEF VmOf
  <2>2. ASSUME NEW v \in RepVmids, vms[v] = None \/ vms[v].by \in {None, j},
               \A w \in RepVmids \ {v} : vms'[w] = vms[w],
               vms[v] = None => vms'[v] = None \/ Clones(j)
        PROVE  OwnVm(k)' \/ GoneVm(k)'
    <3>1. CASE v # reps[k].vmid
      BY <1>k, <2>0, <2>2, <3>1 DEF VmOf
    <3>2. CASE v = reps[k].vmid
      <4>1. GoneVm(k) /\ vms[v] = None
        BY <1>1, <1>k, <1>n, <2>0, <2>2, <3>2 DEF OwnVm, GoneVm, VmOf
      <4>2. ~Clones(j)
        <5> SUFFICES ASSUME Clones(j) PROVE FALSE
          OBVIOUS
        <5>1. reps[j].pc \in Alive /\ reps[k].pc \in Alive
          BY <1>k, <1>m, <2>0 DEF Clones, Moves, Alive, Numbered
        <5> QED BY <1>1, <4>1, <5>1, OnlyRun DEF GoneVm
      <4> QED BY <1>k, <2>0, <2>2, <3>2, <4>1, <4>2 DEF VmOf
    <3> QED BY <3>1, <3>2
  <2> QED BY <1>1, <2>1, <2>2, Touches
\* The run itself.
<1>2. ASSUME Starts(k) \/ CopyRunStep(k) PROVE OwnVm(k)' \/ GoneVm(k)'
  <2>1. CASE Starts(k) \/ Inserts(k) \/ Ends(k) \/ Takes(k) \/ Converted(k) \/ Finishes(k)
    BY <2>1 DEF Starts, Inserts, Ends, Takes, Converted, Finishes, Moves, Ended, Made, Numbered
  <2>s. ASSUME Same(k) PROVE CurrentOp(k)' = CurrentOp(k)
    BY <2>s, SameOp DEF Same
  <2>2. CASE Clones(k)
    <3>1. reps'[k].pc = "cloning" /\ reps'[k].vmid = reps[k].vmid /\ reps[k].vmid \in RepVmids
          /\ reps'[k].template = reps[k].template /\ CurrentOp(k)' = CurrentOp(k)
      BY <1>0, <2>2, <2>s DEF Clones, Moves, Same, Numbered
    <3>2. vms'[reps[k].vmid] = Vm(reps[k].template, SourceNode[reps[k].template],
                                  CurrentOp(k).kind = "shared", FALSE, k)
      BY <1>0, <2>2, <3>1 DEF Clones
    <3>3. VmOf(k)' # None
      BY <1>d, <3>1, RepTypeStep DEF RepTyped, Tasks, Working, VmOf
    <3>4. /\ VmOf(k)'.of = reps[k].template /\ VmOf(k)'.by = k /\ VmOf(k)'.template = FALSE
          /\ VmOf(k)'.node = SourceNode[reps[k].template]
          /\ VmOf(k)'.shared = (CurrentOp(k).kind = "shared")
      BY <3>1, <3>2 DEF VmOf, Vm
    <3> QED BY <3>1, <3>3, <3>4 DEF OwnVm
  <2>3. CASE Cloned(k) \/ Begins(k)
    <3>1. /\ VmOf(k)' = VmOf(k) /\ CurrentOp(k)' = CurrentOp(k) /\ reps[k].pc \in Made
          /\ reps'[k].template = reps[k].template /\ reps[k].pc # "clear"
      BY <2>3, <2>s DEF Cloned, Begins, Moves, Same, VmOf, Made, Numbered
    <3>2. OwnVm(k)
      BY <3>1 DEF Owned, GoneVm
    <3>3. CurrentOp(k).kind \in {"shared", "local"}
      BY DEF CurrentOp
    <3> QED BY <2>3, <3>1, <3>2, <3>3 DEF OwnVm, Cloned, Begins, Moves
  <2>4. CASE Moved(k)
    <3>1. /\ CurrentOp(k)' = CurrentOp(k) /\ reps[k].pc = "migrating" /\ reps[k].pc \in Made
          /\ reps'[k].pc = "convert" /\ reps'[k].template = reps[k].template
          /\ reps'[k].vmid = reps[k].vmid /\ reps[k].vmid \in RepVmids
      BY <1>0, <2>4, <2>s DEF Moved, Moves, Same, Made, Numbered
    <3>2. OwnVm(k) /\ VmOf(k) \in VmRecord
      BY <1>0, <3>1 DEF Owned, GoneVm, OwnVm, VmOf
    <3>3. VmOf(k)' = [VmOf(k) EXCEPT !.node = CurrentOp(k).node]
      BY <1>0, <2>4, <3>1 DEF Moved, VmOf
    <3>4. /\ VmOf(k)'.of = VmOf(k).of /\ VmOf(k)'.by = VmOf(k).by
          /\ VmOf(k)'.template = VmOf(k).template /\ VmOf(k)'.shared = VmOf(k).shared
          /\ VmOf(k)'.node = CurrentOp(k).node
      BY <3>2, <3>3 DEF VmRecord
    <3>5. VmOf(k)' # None
      <4>1. VmOf(k)' \in VmRecord
        <5>1. CurrentOp(k).node \in RepNodes
          BY <1>m, <3>1, OpOfPlan DEF RepTyped, RunsTyped
        <5> QED BY <3>2, <3>3, <5>1 DEF VmRecord
      <4> QED BY <4>1, VmAssumption
    <3> QED BY <3>1, <3>2, <3>4, <3>5 DEF OwnVm
  <2>5. CASE Fails(k)
    <3>1. /\ CurrentOp(k)' = CurrentOp(k) /\ reps[k].pc \in Made /\ reps[k].pc # "clear"
          /\ reps'[k].pc = "clear" /\ reps'[k].template = reps[k].template
          /\ reps'[k].vmid = reps[k].vmid /\ reps[k].vmid \in RepVmids /\ repDeployment.faults
      BY <1>0, <2>5, <2>s DEF Fails, Moves, Same, Made, Numbered, Working
    <3>2. OwnVm(k)
      BY <3>1 DEF Owned, GoneVm
    <3>3. CASE vms' = vms
      BY <3>1, <3>2, <3>3 DEF OwnVm, VmOf
    <3>4. CASE repDeployment.vanish /\ vms' = [vms EXCEPT ![reps[k].vmid] = None]
      BY <1>0, <1>d, <3>1, <3>4 DEF GoneVm, VmOf
    <3> QED BY <2>5, <3>3, <3>4 DEF Fails
  <2> QED BY <1>2, <2>1, <2>2, <2>3, <2>4, <2>5 DEF CopyRunStep
<1>3. ASSUME \A j \in RepJobs : Lost(j) PROVE OwnVm(k)' \/ GoneVm(k)'
  BY <1>3, LostRuns DEF Made, Numbered
<1>4. ASSUME repDeployment.outsiders, reps' = reps, NEW v \in RepVmids, vms[v] = None,
             \A w \in RepVmids \ {v} : vms'[w] = vms[w]
      PROVE  OwnVm(k)' \/ GoneVm(k)'
  <2>1. ~GoneVm(k)
    BY <1>4 DEF GoneVm, NumbersKept
  <2>2. reps[k].vmid # v
    BY <1>4, <1>k, <2>1 DEF OwnVm, VmOf
  <2> QED BY <1>4, <1>k, <2>2 DEF VmOf
<1> QED
  <2>1. CASE \E j \in RepJobs : Others(j) /\ (Starts(j) \/ CopyRunStep(j))
    BY <1>1, <1>2, <2>1
  <2>2. CASE \A j \in RepJobs : Lost(j)
    BY <1>3, <2>2
  <2>3. CASE /\ repDeployment.outsiders /\ reps' = reps
             /\ \E v \in RepVmids : /\ vms[v] = None
                  /\ vms' = [vms EXCEPT ![v] = Vm(None, CHOOSE n \in RepNodes : TRUE,
                                                  FALSE, FALSE, None)]
    BY <1>0, <1>4, <2>3
  <2> QED BY <2>1, <2>2, <2>3, RepCases

\* The VMs that a step of a run changes, in detail.
LEMMA Changes ==
  ASSUME RepTyped, Owned, SourceSafe, NumbersKept, NEW j \in RepJobs, Starts(j) \/ CopyRunStep(j),
         NEW v \in RepVmids, vms'[v] # vms[v]
  PROVE  \/ Clones(j) /\ v = reps[j].vmid /\ vms[v] = None
         \/ /\ Finishes(j) /\ v = SourceVmid[reps[j].template] /\ reps[j].sharedOk
            /\ vms[v] # None /\ vms[v].by = None /\ vms'[v] = None
         \/ /\ v = reps[j].vmid /\ reps[j].pc \in Made /\ OwnVm(j)
            /\ vms'[v] = None \/ Moved(j) \/ Converted(j)
<1>0. /\ reps[j].pc \in Begun => reps[j].template \in RepTemplates
      /\ vms \in [RepVmids -> VmRecord \cup {None}]
  BY ReplicationAssumption DEF RepTyped, RunsTyped
<1>1. CASE Clones(j)
  BY <1>0, <1>1 DEF Clones
<1>2. CASE Finishes(j)
  <2>1. reps[j].pc \in {"passed"} \cup Alive /\ reps[j].pc \in Begun
    BY <1>2 DEF Finishes, Begun, Alive
  <2>2. vms[SourceVmid[reps[j].template]] = None \/ vms[SourceVmid[reps[j].template]].by = None
    BY <2>1 DEF SourceSafe
  <2> QED BY <1>0, <1>2, <2>2 DEF Finishes
<1>3. ASSUME NEW x, vms' = [vms EXCEPT ![reps[j].vmid] = x], reps[j].pc \in Made,
             x = None \/ Moved(j) \/ Converted(j), x = None \/ reps[j].pc \in Working
      PROVE  /\ v = reps[j].vmid /\ reps[j].pc \in Made /\ OwnVm(j)
             /\ vms'[v] = None \/ Moved(j) \/ Converted(j)
  <2>1. v = reps[j].vmid /\ vms'[v] = x
    BY <1>0, <1>3
  <2>2. vms[v] # None
    BY <1>3, <2>1 DEF RepTyped, Tasks
  <2> QED BY <1>3, <2>1, <2>2 DEF Owned, GoneVm, VmOf
<1>4. CASE Ends(j) \/ Moved(j) \/ Converted(j) \/ Fails(j)
  BY <1>3, <1>4 DEF Ends, Moved, Converted, Fails, Moves, Made, Numbered, Working
<1>5. CASE Starts(j) \/ Inserts(j) \/ Takes(j) \/ Cloned(j) \/ Begins(j)
  BY <1>5 DEF Starts, Inserts, Takes, Cloned, Begins
<1> QED BY <1>1, <1>2, <1>4, <1>5 DEF CopyRunStep

\* The sources of the runs under way, after a step.
LEMMA SourceSafeStep ==
  ASSUME RepTyped, OneRun, Owned, SourceSafe, RepNext PROVE SourceSafe'
<1> SUFFICES ASSUME NumbersKept, NEW k \in RepJobs, reps'[k].pc \in {"passed"} \cup Alive
             PROVE  LET t == reps'[k].template  vm == vms'[SourceVmid[t]]
                    IN  /\ vm = None \/ vm.by = None
                        /\ reps'[k].pc \in Alive /\ ~repDeployment.overlap
                             => vm # None /\ vm.of = t /\ vm.by = None
  <2>1. repDeployment' = repDeployment /\ (NumbersKept' => NumbersKept)
    BY KeptNumbers, RepTypeStep
  <2> QED BY <2>1 DEF SourceSafe, IsSource
<1> DEFINE t == reps'[k].template
           vm == vms'[SourceVmid[t]]
           Safe == /\ vm = None \/ vm.by = None
                   /\ reps'[k].pc \in Alive /\ ~repDeployment.overlap
                        => vm # None /\ vm.of = t /\ vm.by = None
<1>0. /\ \A j \in RepJobs : reps[j].pc \in Begun => reps[j].template \in repDeployment.templates
      /\ repDeployment.templates \subseteq RepTemplates
      /\ vms \in [RepVmids -> VmRecord \cup {None}] /\ None \notin RepJobs
      /\ \A u \in RepTemplates : SourceVmid[u] \in RepVmids
      /\ \A u, x \in RepTemplates : SourceVmid[u] = SourceVmid[x] => u = x
  BY ReplicationAssumption DEF RepTyped, RunsTyped
<1>m. Alive \subseteq Begun \cap RepActive /\ "passed" \in Begun \ Alive /\ "done" \notin {"passed"} \cup Alive
  BY DEF Alive, Begun, Numbered, RepActive
\* As before, if the VM there is the same.
<1>s. ASSUME reps[k].pc \in {"passed"} \cup Alive, reps[k].template = t,
             reps'[k].pc \in Alive => reps[k].pc \in Alive \/ repDeployment.overlap
      PROVE  /\ vms[SourceVmid[t]] = None \/ vms[SourceVmid[t]].by = None
             /\ t \in repDeployment.templates /\ t \in RepTemplates /\ SourceVmid[t] \in RepVmids
             /\ reps'[k].pc \in Alive /\ ~repDeployment.overlap => IsSource(SourceVmid[t], t)
             /\ vms'[SourceVmid[t]] = vms[SourceVmid[t]] => Safe
  <2>1. /\ vms[SourceVmid[t]] = None \/ vms[SourceVmid[t]].by = None
        /\ reps'[k].pc \in Alive /\ ~repDeployment.overlap => IsSource(SourceVmid[t], t)
    BY <1>s DEF SourceSafe
  <2>2. t \in repDeployment.templates /\ t \in RepTemplates /\ SourceVmid[t] \in RepVmids
    BY <1>0, <1>m, <1>s
  <2> HIDE DEF t
  <2> QED BY <2>1, <2>2 DEF IsSource
<1>o. ~repDeployment.overlap => \A j \in RepJobs : reps[j].pc # "passed"
  BY DEF OneRun
\* The others.
<1>1. ASSUME NEW j \in RepJobs, Others(j), Starts(j) \/ CopyRunStep(j), j # k PROVE Safe
  <2>0. reps'[k] = reps[k]
    BY <1>1 DEF Others
  <2>1. CASE vms'[SourceVmid[t]] = vms[SourceVmid[t]]
    BY <1>s, <2>0, <2>1
  <2>2. CASE /\ Clones(j) /\ vms[SourceVmid[t]] = None
    <3>1. IsSource(SourceVmid[reps[j].template], reps[j].template) /\ reps[j].pc = "clone"
      BY <2>2 DEF Clones, Moves
    <3>2. reps[j].template # t
      BY <2>2, <3>1 DEF IsSource
    <3>3. reps[j].template \in repDeployment.templates
      BY <1>0, <3>1 DEF Begun, Alive, Numbered
    <3>4. ~repDeployment.overlap
      BY <1>s, <2>0, <3>2, <3>3 DEF NumbersKept, OneTemplate
    <3>5. IsSource(SourceVmid[t], t)
      BY <1>o, <1>s, <2>0, <3>4
    <3> QED BY <2>2, <3>5 DEF IsSource
  <2>3. CASE /\ Finishes(j) /\ SourceVmid[t] = SourceVmid[reps[j].template]
             /\ vms'[SourceVmid[t]] = None
    <3>1. reps[j].template = t
      BY <1>0, <1>s, <2>0, <2>3 DEF Finishes, Begun, Alive
    <3>2. reps'[k].pc \in Alive => repDeployment.overlap
      <4>1. reps[j].pc \in RepActive
        BY <2>3 DEF Finishes, RepActive
      <4> QED BY <1>1, <1>m, <2>0, <3>1, <4>1 DEF OneRun, OneRunPerTemplate
    <3> QED BY <2>3, <3>2
  <2>4. CASE SourceVmid[t] = reps[j].vmid /\ OwnVm(j)
    BY <1>0, <1>s, <2>0, <2>4 DEF OwnVm, VmOf
  <2>5. SourceVmid[t] \in RepVmids
    BY <1>s, <2>0
  <2> QED BY <1>1, <2>1, <2>2, <2>3, <2>4, <2>5, Changes
\* The run itself.
<1>2. ASSUME Starts(k) PROVE Safe
  BY <1>2 DEF Starts, IsSource
<1>3. ASSUME CopyRunStep(k) PROVE Safe
  <2>1. /\ reps[k].pc \in {"passed"} \cup Alive /\ reps[k].template = t
        /\ reps[k].pc \in Alive \/ repDeployment.overlap
    BY <1>3, <1>o, RunBegun
  <2>2. ASSUME vms'[SourceVmid[t]] # vms[SourceVmid[t]] PROVE FALSE
    <3>1. ~(Clones(k) /\ vms[SourceVmid[t]] = None)
      BY <2>1 DEF Clones, IsSource
    <3>2. ~Finishes(k)
      BY <1>m DEF Finishes
    <3>3. ~(SourceVmid[t] = reps[k].vmid /\ OwnVm(k))
      BY <1>0, <1>s, <2>1 DEF OwnVm, VmOf
    <3>4. SourceVmid[t] \in RepVmids
      BY <1>s, <2>1
    <3> HIDE DEF t
    <3> QED BY <1>3, <2>2, <3>1, <3>2, <3>3, <3>4, Changes
  <2> QED BY <1>s, <2>1, <2>2
<1>4. ASSUME \A j \in RepJobs : Lost(j) PROVE Safe
  BY <1>4, LostRuns DEF Alive, Numbered
<1>5. ASSUME reps' = reps, NEW v \in RepVmids, vms[v] = None,
             vms' = [vms EXCEPT ![v] = Vm(None, CHOOSE n \in RepNodes : TRUE, FALSE, FALSE, None)]
      PROVE  Safe
  <2>1. CASE v # SourceVmid[t]
    BY <1>0, <1>5, <1>s, <2>1
  <2>2. CASE v = SourceVmid[t]
    <3>1. vms'[v].by = None
      BY <1>0, <1>5 DEF Vm
    <3>2. ~(reps'[k].pc \in Alive /\ ~repDeployment.overlap)
      BY <1>5, <1>s, <2>2 DEF IsSource
    <3> QED BY <2>2, <3>1, <3>2
  <2> QED BY <2>1, <2>2
<1> QED BY <1>1, <1>2, <1>3, <1>4, <1>5, RepCases

\* A copy on a shared storage is taken away by nobody.
LEMMA CopiesStay ==
  ASSUME RepTyped, OneRun, Owned, SourceSafe, CopiesByRuns, NumbersKept, RepNext,
         NEW t, NEW v \in RepVmids, SharedCopy(vms[v], t)
  PROVE  SharedCopy(vms'[v], t)
<1>1. vms' = vms \/ vms'[v] = vms[v] => SharedCopy(vms'[v], t)
  BY DEF SharedCopy
<1>2. vms[v] # None /\ vms[v].by # None /\ vms[v].template
  BY DEF SharedCopy, CopiesByRuns
<1>3. ASSUME NEW j \in RepJobs, Starts(j) \/ CopyRunStep(j) PROVE vms'[v] = vms[v]
  BY <1>2, <1>3, Changes DEF OwnVm, VmOf
<1>4. ASSUME NEW w \in RepVmids, NEW x, vms[w] = None, vms' = [vms EXCEPT ![w] = x]
      PROVE  vms'[v] = vms[v]
  BY <1>2, <1>4 DEF RepTyped
<1> QED BY <1>1, <1>3, <1>4, RepCases

\* The copies on shared storages are the runs', after a step.
LEMMA CopiesByRunsStep ==
  ASSUME RepTyped, OneRun, Owned, SourceSafe, CopiesByRuns, RepNext PROVE CopiesByRuns'
<1> SUFFICES ASSUME NumbersKept, NEW v \in RepVmids, vms'[v] # None, vms'[v].shared
             PROVE  vms'[v].by # None
  BY KeptNumbers DEF CopiesByRuns
<1>0. vms \in [RepVmids -> VmRecord \cup {None}] /\ None \notin RepJobs
  BY ReplicationAssumption DEF RepTyped
<1>1. ASSUME vms' = vms \/ vms'[v] = vms[v] PROVE vms'[v].by # None
  BY <1>1 DEF CopiesByRuns
<1>2. ASSUME NEW j \in RepJobs, Starts(j) \/ CopyRunStep(j), vms'[v] # vms[v]
      PROVE  vms'[v].by # None
  <2>1. CASE Clones(j) /\ v = reps[j].vmid
    BY <1>0, <2>1 DEF Clones, Vm
  <2>2. CASE v = reps[j].vmid /\ OwnVm(j) /\ Moved(j)
    <3>1. vms'[v] = [vms[v] EXCEPT !.node = CurrentOp(j).node] /\ vms[v] \in VmRecord
      BY <1>0, <2>2 DEF Moved, OwnVm, VmOf
    <3>2. vms'[v].by = vms[v].by
      BY <3>1 DEF VmRecord
    <3> QED BY <1>0, <2>2, <3>2 DEF OwnVm, VmOf
  <2>3. CASE v = reps[j].vmid /\ OwnVm(j) /\ Converted(j)
    <3>1. vms'[v] = [vms[v] EXCEPT !.template = TRUE] /\ vms[v] \in VmRecord
      BY <1>0, <2>3 DEF Converted, OwnVm, VmOf
    <3>2. vms'[v].by = vms[v].by
      BY <3>1 DEF VmRecord
    <3> QED BY <1>0, <2>3, <3>2 DEF OwnVm, VmOf
  <2> QED BY <1>2, <2>1, <2>2, <2>3, Changes
<1>3. ASSUME NEW w \in RepVmids, vms[w] = None,
             vms' = [vms EXCEPT ![w] = Vm(None, CHOOSE n \in RepNodes : TRUE, FALSE, FALSE, None)]
      PROVE  vms'[v].by # None
  <2>1. v # w
    BY <1>0, <1>3 DEF Vm
  <2> QED BY <1>0, <1>1, <1>3, <2>1
<1> QED BY <1>1, <1>2, <1>3, RepCases

\* The copy of a run is there, after a step.
LEMMA CopyThereStep ==
  ASSUME RepTyped, OneRun, Owned, SourceSafe, CopiesByRuns, CopyThere, RepNext PROVE CopyThere'
<1> SUFFICES ASSUME NumbersKept, NEW k \in RepJobs, reps'[k].pc \in Begun, reps'[k].sharedOk
             PROVE  \E v \in RepVmids : SharedCopy(vms'[v], reps'[k].template)
  <2>1. NumbersKept' => NumbersKept
    BY KeptNumbers
  <2> QED BY <2>1 DEF CopyThere, SharedCopy
<1>0. vms \in [RepVmids -> VmRecord \cup {None}]
      /\ \A j \in RepJobs : reps[j].pc \in Numbered => reps[j].vmid \in RepVmids
  BY DEF RepTyped, RunsTyped
<1>1. ASSUME reps[k].pc \in Begun, reps[k].sharedOk, reps'[k].template = reps[k].template
      PROVE  \E v \in RepVmids : SharedCopy(vms'[v], reps'[k].template)
  BY <1>1, CopiesStay DEF CopyThere
<1>2. ASSUME Starts(k) PROVE FALSE
  BY <1>2 DEF Starts
<1>3. ASSUME CopyRunStep(k), ~Converted(k), ~Finishes(k) PROVE reps'[k].sharedOk = reps[k].sharedOk
  BY <1>3 DEF CopyRunStep, Inserts, Ends, Takes, Clones, Cloned, Begins, Moved, Fails, Moves, Same
<1>4. ASSUME Converted(k), CurrentOp(k).kind = "shared"
      PROVE  \E v \in RepVmids : SharedCopy(vms'[v], reps'[k].template)
  <2>1. reps[k].pc \in Made /\ reps[k].pc # "clear" /\ reps[k].vmid \in RepVmids
    BY <1>0, <1>4 DEF Converted, Made, Numbered
  <2>2. OwnVm(k) /\ vms[reps[k].vmid] \in VmRecord
    BY <1>0, <2>1 DEF Owned, GoneVm, OwnVm, VmOf
  <2>3. vms'[reps[k].vmid] = [vms[reps[k].vmid] EXCEPT !.template = TRUE]
    BY <1>0, <1>4, <2>1 DEF Converted
  <2>4. SharedCopy(vms'[reps[k].vmid], reps[k].template)
    <3>1. vms'[reps[k].vmid] \in VmRecord
      BY <2>2, <2>3 DEF VmRecord
    <3>2. /\ vms'[reps[k].vmid].of = vms[reps[k].vmid].of /\ vms'[reps[k].vmid].template = TRUE
          /\ vms'[reps[k].vmid].shared = vms[reps[k].vmid].shared
      BY <2>2, <2>3 DEF VmRecord
    <3> QED BY <1>4, <2>2, <3>1, <3>2, VmAssumption DEF OwnVm, VmOf, SharedCopy
  <2> QED BY <1>4, <2>1, <2>4 DEF Converted, Ended
<1>5. ASSUME CopyRunStep(k) PROVE \E v \in RepVmids : SharedCopy(vms'[v], reps'[k].template)
  <2>1. reps[k].pc \in Begun /\ reps'[k].template = reps[k].template /\ ~Finishes(k)
    BY <1>5, RunBegun DEF Finishes, Begun, Alive, Numbered
  <2>2. CASE Converted(k) /\ CurrentOp(k).kind = "shared"
    BY <1>4, <2>2
  <2>3. CASE ~(Converted(k) /\ CurrentOp(k).kind = "shared")
    <3>1. reps'[k].sharedOk => reps[k].sharedOk
      BY <1>3, <1>5, <2>1, <2>3 DEF Converted
    <3> QED BY <1>1, <2>1, <3>1
  <2> QED BY <2>2, <2>3
<1>6. ASSUME NEW j \in RepJobs, Others(j), j # k
      PROVE  \E v \in RepVmids : SharedCopy(vms'[v], reps'[k].template)
  BY <1>1, <1>6 DEF Others
<1>7. ASSUME \A j \in RepJobs : Lost(j)
      PROVE  \E v \in RepVmids : SharedCopy(vms'[v], reps'[k].template)
  BY <1>1, <1>7, LostRuns DEF Begun, Alive, Numbered
<1>8. ASSUME reps' = reps
      PROVE  \E v \in RepVmids : SharedCopy(vms'[v], reps'[k].template)
  BY <1>1, <1>8
<1> QED BY <1>2, <1>5, <1>6, <1>7, <1>8, RepCases

\* A template is there, after a step: its source goes only where the copy of the run is.
LEMMA TemplateKeptStep ==
  ASSUME RepTyped, OneRun, Owned, SourceSafe, CopiesByRuns, CopyThere, TemplateKept, RepNext
  PROVE  TemplateKept'
<1> SUFFICES ASSUME NumbersKept, NEW t \in RepTemplates
             PROVE  \/ IsSource(SourceVmid[t], t)'
                    \/ \E v \in RepVmids : SharedCopy(vms'[v], t)
  <2>1. NumbersKept' => NumbersKept
    BY KeptNumbers
  <2> QED BY <2>1 DEF TemplateKept, SharedCopy
<1>0. /\ \A u \in RepTemplates : SourceVmid[u] \in RepVmids
      /\ \A u, x \in RepTemplates : SourceVmid[u] = SourceVmid[x] => u = x
      /\ \A j \in RepJobs : reps[j].pc \in Begun => reps[j].template \in RepTemplates
      /\ vms \in [RepVmids -> VmRecord \cup {None}] /\ None \notin RepJobs
  BY ReplicationAssumption DEF RepTyped, RunsTyped
<1>1. CASE \E v \in RepVmids : SharedCopy(vms[v], t)
  BY <1>1, CopiesStay
<1>2. CASE IsSource(SourceVmid[t], t)
  <2>1. vms[SourceVmid[t]] # None /\ vms[SourceVmid[t]].by = None
    BY <1>2 DEF IsSource
  <2>2. vms'[SourceVmid[t]] = vms[SourceVmid[t]] => IsSource(SourceVmid[t], t)'
    BY <1>2 DEF IsSource
  <2>3. ASSUME NEW j \in RepJobs, Starts(j) \/ CopyRunStep(j), vms'[SourceVmid[t]] # vms[SourceVmid[t]]
        PROVE  \E v \in RepVmids : SharedCopy(vms'[v], t)
    <3>1. ~(reps[j].vmid = SourceVmid[t] /\ OwnVm(j))
      BY <1>0, <2>1 DEF OwnVm, VmOf
    <3>2. Finishes(j) /\ SourceVmid[t] = SourceVmid[reps[j].template] /\ reps[j].sharedOk
      BY <1>0, <2>1, <2>3, <3>1, Changes
    <3>3. reps[j].pc \in Begun /\ reps[j].template = t
      BY <1>0, <3>2 DEF Finishes, Begun, Alive
    <3> QED BY <3>2, <3>3, CopiesStay DEF CopyThere
  <2>4. ASSUME NEW w \in RepVmids, NEW x, vms[w] = None, vms' = [vms EXCEPT ![w] = x]
        PROVE  vms'[SourceVmid[t]] = vms[SourceVmid[t]]
    BY <1>0, <2>1, <2>4
  <2> QED BY <2>2, <2>3, <2>4, RepCases
<1> QED BY <1>1, <1>2 DEF TemplateKept, SharedCopy

\* A VM becomes a template at the end of a conversion, and is its run's.
LEMMA NewTemplate ==
  ASSUME RepTyped, Owned, SourceSafe, NumbersKept, NEW j \in RepJobs, Starts(j) \/ CopyRunStep(j),
         NEW v \in RepVmids, vms'[v] # vms[v], vms'[v] # None, vms'[v].template
  PROVE  /\ Converted(j) /\ v = reps[j].vmid /\ OwnVm(j)
         /\ vms'[v].of = reps[j].template /\ vms'[v].node = vms[v].node
<1>0. vms \in [RepVmids -> VmRecord \cup {None}]
  BY DEF RepTyped
<1>1. ~Clones(j)
  BY <1>0 DEF Clones, Vm
<1>2. v = reps[j].vmid /\ OwnVm(j) /\ (Moved(j) \/ Converted(j)) /\ vms[v] \in VmRecord
  BY <1>0, <1>1, Changes DEF OwnVm, VmOf
<1>3. CASE Moved(j)
  <2>1. vms'[v] = [vms[v] EXCEPT !.node = CurrentOp(j).node]
    BY <1>0, <1>2, <1>3 DEF Moved
  <2>2. vms'[v].template = vms[v].template
    BY <1>2, <2>1 DEF VmRecord
  <2> QED BY <1>2, <2>2 DEF OwnVm, VmOf
<1>4. CASE Converted(j)
  <2>1. vms'[v] = [vms[v] EXCEPT !.template = TRUE]
    BY <1>0, <1>2, <1>4 DEF Converted
  <2>2. vms'[v].of = vms[v].of /\ vms'[v].node = vms[v].node
    BY <1>2, <2>1 DEF VmRecord
  <2> QED BY <1>2, <1>4, <2>2 DEF OwnVm, VmOf
<1> QED BY <1>2, <1>3, <1>4

\* A VM somebody else makes is no template.
LEMMA OutsiderNoTemplate ==
  ASSUME RepTyped, NEW w \in RepVmids, NEW v \in RepVmids,
         vms' = [vms EXCEPT ![w] = Vm(None, CHOOSE n \in RepNodes : TRUE, FALSE, FALSE, None)],
         vms'[v] # None, vms'[v].template
  PROVE  vms'[v] = vms[v]
BY DEF RepTyped, Vm

\* What is being copied is not there yet, after a step.
LEMMA FreshStep ==
  ASSUME RepTyped, OneRun, Owned, SourceSafe, FreshCopies, RepNext PROVE FreshCopies'
<1> SUFFICES ASSUME NumbersKept, ~repDeployment.blind, ~repDeployment.overlap, NEW k \in RepJobs,
                    reps'[k].pc \in Numbered, CurrentOp(k)'.kind = "local",
                    NEW v \in RepVmids, vms'[v] # None, vms'[v].of = reps'[k].template,
                    vms'[v].node = CurrentOp(k)'.node, vms'[v].template
             PROVE  FALSE
  <2>1. repDeployment' = repDeployment /\ (NumbersKept' => NumbersKept)
    BY KeptNumbers, RepTypeStep
  <2> QED BY <2>1 DEF FreshCopies, TemplateNamed
<1>1. ASSUME reps'[k].template = reps[k].template, CurrentOp(k)' = CurrentOp(k),
             vms'[v] = vms[v]
      PROVE  TemplateNamed(CurrentOp(k).node, reps[k].template) /\ CurrentOp(k).kind = "local"
  BY <1>1 DEF TemplateNamed
<1>a. Numbered \subseteq RepActive /\ Working \subseteq RepActive
  BY DEF Numbered, RepActive, Working
<1>2. ASSUME Starts(k) \/ CopyRunStep(k) PROVE FALSE
  <2>1. ~Converted(k) /\ ~Starts(k) /\ Same(k) /\ (reps[k].pc \in Numbered \/ Takes(k))
    BY <1>2 DEF Starts, CopyRunStep, Inserts, Ends, Takes, Clones, Cloned, Begins, Moved, Converted,
                Fails, Finishes, Moves, Ended, Numbered, Working
  <2>2. reps'[k].template = reps[k].template /\ CurrentOp(k)' = CurrentOp(k)
    BY <2>1, SameOp DEF Same
  <2>3. vms'[v] = vms[v]
    BY <1>2, <2>1, NewTemplate
  <2>4. CASE reps[k].pc \in Numbered
    BY <1>1, <2>2, <2>3, <2>4 DEF FreshCopies
  <2>5. CASE Takes(k)
    BY <1>1, <2>2, <2>3, <2>5 DEF Takes, RepExists
  <2> QED BY <2>1, <2>4, <2>5
<1>3. ASSUME reps'[k] = reps[k] PROVE vms'[v] # vms[v] /\ reps[k].pc \in Numbered
  <2>1. CurrentOp(k)' = CurrentOp(k)
    BY <1>3, SameOp
  <2> QED BY <1>1, <1>3, <2>1 DEF FreshCopies
<1>4. ASSUME NEW j \in RepJobs, Others(j), Starts(j) \/ CopyRunStep(j), j # k PROVE FALSE
  <2>1. reps'[k] = reps[k]
    BY <1>4 DEF Others
  <2>2. Converted(j) /\ vms'[v].of = reps[j].template
    BY <1>3, <1>4, <2>1, NewTemplate
  <2> QED BY <1>3, <1>4, <1>a, <2>1, <2>2 DEF Converted, Working, OneRun, OneRunPerTemplate
<1>5. ~\A j \in RepJobs : Lost(j)
  BY LostRuns DEF Numbered
<1>6. ASSUME reps' = reps, NEW w \in RepVmids,
             vms' = [vms EXCEPT ![w] = Vm(None, CHOOSE n \in RepNodes : TRUE, FALSE, FALSE, None)]
      PROVE  FALSE
  BY <1>3, <1>6, OutsiderNoTemplate
<1> QED BY <1>2, <1>4, <1>5, <1>6, RepCases

\* A node gets a template once: after a step.
LEMMA CopiedOnceStep ==
  ASSUME RepTyped, OneRun, Owned, SourceSafe, FreshCopies, CopiedOnce, RepNext PROVE CopiedOnce'
<1> SUFFICES ASSUME NumbersKept, ~repDeployment.blind, ~repDeployment.overlap,
                    NEW t \in RepTemplates, NEW v \in RepVmids, NEW w \in RepVmids, v # w,
                    vms'[v] # None, vms'[w] # None, vms'[v].of = t, vms'[w].of = t,
                    vms'[v].template, vms'[w].template, vms'[v].node = vms'[w].node,
                    vms'[v].node # SourceNode[t]
             PROVE  FALSE
  <2>1. repDeployment' = repDeployment /\ (NumbersKept' => NumbersKept)
    BY KeptNumbers, RepTypeStep
  <2> QED BY <2>1 DEF CopiedOnce, LocalCopies
<1>1. ~(vms'[v] = vms[v] /\ vms'[w] = vms[w])
  BY DEF CopiedOnce, LocalCopies
<1>2. ASSUME NEW j \in RepJobs, Starts(j) \/ CopyRunStep(j), NEW x \in RepVmids, NEW y \in RepVmids,
             x # y, vms'[x] # None, vms'[y] # None, vms'[x].of = t, vms'[y].of = t,
             vms'[x].template, vms'[y].template, vms'[x].node = vms'[y].node,
             vms'[x].node # SourceNode[t], vms'[x] # vms[x]
      PROVE  FALSE
  <2>1. /\ Converted(j) /\ x = reps[j].vmid /\ OwnVm(j) /\ t = reps[j].template
        /\ vms'[x].node = vms[x].node
    BY <1>2, NewTemplate
  <2>2. vms'[y] = vms[y]
    BY <1>2, <2>1, NewTemplate
  <2>3. reps[j].pc = "converting" /\ reps[j].pc \in Numbered
    BY <2>1 DEF Converted, Numbered
  <2>4. vms[x].node = CurrentOp(j).node /\ ~vms[x].shared
    BY <1>2, <2>1, <2>3 DEF OwnVm, VmOf
  <2>5. CurrentOp(j).kind = "local"
    BY <2>1, <2>4 DEF OwnVm, VmOf, CurrentOp
  <2>6. TemplateNamed(CurrentOp(j).node, reps[j].template)
    BY <1>2, <2>1, <2>2, <2>4 DEF TemplateNamed
  <2> QED BY <2>3, <2>5, <2>6 DEF FreshCopies
<1>3. ASSUME NEW j \in RepJobs, Starts(j) \/ CopyRunStep(j) PROVE FALSE
  BY <1>1, <1>2, <1>3
<1>4. ASSUME NEW x \in RepVmids,
             vms' = [vms EXCEPT ![x] = Vm(None, CHOOSE n \in RepNodes : TRUE, FALSE, FALSE, None)]
      PROVE  FALSE
  BY <1>1, <1>4, OutsiderNoTemplate
<1> QED BY <1>1, <1>3, <1>4, RepCases

\* At the start.
LEMMA RepInvInit == RepInit => RepInv
<1> SUFFICES ASSUME RepInit PROVE RepInv
  OBVIOUS
<1>1. RepTyped
  BY RepTypeInit
<1>2. \A j \in RepJobs : reps[j].pc = "none"
  BY DEF RepInit, NoRep
<1>3. OneRun /\ Owned /\ SourceSafe /\ CopyThere /\ FreshCopies
  BY <1>2 DEF OneRun, Owned, SourceSafe, CopyThere, FreshCopies, OneRunPerTemplate, RepActive, Made,
              Numbered, Alive, Begun
<1>4. ASSUME NEW v \in RepVmids, vms[v] # None
      PROVE  /\ ~vms[v].shared /\ vms[v].by = None
             /\ \E t \in RepTemplates : vms[v].of = t /\ vms[v].node = SourceNode[t]
  <2>1. PICK t \in RepTemplates : SourceVmid[t] = v /\ vms[v] = Vm(t, SourceNode[t], FALSE, TRUE, None)
    BY <1>4 DEF RepInit
  <2> QED BY <2>1 DEF Vm
<1>5. CopiesByRuns
  BY <1>4 DEF CopiesByRuns
<1>6. TemplateKept
  <2> SUFFICES ASSUME NEW t \in RepTemplates PROVE IsSource(SourceVmid[t], t)
    BY DEF TemplateKept
  <2>1. SourceVmid[t] \in RepVmids /\ \A u \in RepTemplates : SourceVmid[u] = SourceVmid[t] => u = t
    BY ReplicationAssumption
  <2>2. vms[SourceVmid[t]] = Vm(t, SourceNode[t], FALSE, TRUE, None)
    BY <2>1 DEF RepInit
  <2>3. Vm(t, SourceNode[t], FALSE, TRUE, None) \in VmRecord
    BY ReplicationAssumption DEF Vm, VmRecord
  <2>4. vms[SourceVmid[t]].of = t /\ vms[SourceVmid[t]].by = None
    BY <2>2 DEF Vm
  <2>5. vms[SourceVmid[t]] # None
    BY <2>2, <2>3, VmAssumption
  <2> QED BY <2>4, <2>5 DEF IsSource
<1>7. CopiedOnce
  <2> SUFFICES ASSUME NEW v \in RepVmids, vms[v] # None PROVE vms[v].node = SourceNode[vms[v].of]
    BY DEF CopiedOnce, LocalCopies
  <2> QED BY <1>4
<1> QED BY <1>1, <1>3, <1>5, <1>6, <1>7 DEF RepInv

LEMMA RepInvStep == ASSUME RepInv, [RepNext]_repVars PROVE RepInv'
<1>1. CASE RepNext
  BY <1>1, RepTypeStep, OneRunStep, OwnedStep, SourceSafeStep, CopiesByRunsStep, CopyThereStep,
     TemplateKeptStep, FreshStep, CopiedOnceStep DEF RepInv
<1>2. CASE UNCHANGED repVars
  <2>0. repDeployment' = repDeployment /\ vms' = vms /\ reps' = reps
    BY <1>2 DEF repVars
  <2>n. (NumbersKept' <=> NumbersKept) /\ \A j \in RepJobs : CurrentOp(j)' = CurrentOp(j)
    BY <2>0, SameOp DEF NumbersKept, OneTemplate
  <2>1. RepTyped'
    BY <2>0 DEF RepInv, RepTyped, RunsTyped, Tasks
  <2>2. OneRun'
    BY <2>0 DEF RepInv, OneRun, OneRunPerTemplate
  <2>3. Owned'
    BY <2>0, <2>n DEF RepInv, Owned, OwnVm, GoneVm, VmOf
  <2>4. SourceSafe' /\ CopiesByRuns' /\ CopyThere'
    BY <2>0, <2>n DEF RepInv, SourceSafe, IsSource, CopiesByRuns, CopyThere, SharedCopy
  <2>5. TemplateKept' /\ CopiedOnce'
    BY <2>0, <2>n DEF RepInv, TemplateKept, CopiedOnce, LocalCopies, IsSource
  <2>6. FreshCopies'
    BY <2>0, <2>n DEF RepInv, FreshCopies, TemplateNamed
  <2> QED BY <2>1, <2>2, <2>3, <2>4, <2>5, <2>6 DEF RepInv
<1> QED BY <1>1, <1>2

\* The invariant of the replications: the VM under a run's number is its own, the source is
\* untouched while a run of it is under way, and a copy a run counts on is there
\* (run_replication_job, _cleanup).
THEOREM RepInvariance == RepSpec => []RepInv
<1> QED BY RepInvInit, RepInvStep, PTL DEF RepSpec

\* No template is lost, and a node gets it once (run_replication_job).
THEOREM CopiesSoundSafe == RepSpec => []CopiesSound
<1>1. RepInv => CopiesSound
  BY DEF RepInv, CopiesSound, RepTypeOK, RepTyped, RunsTyped, RepInfo, Begun, Alive, Numbered, RepActive
<1> QED BY <1>1, RepInvariance, PTL

\* What a run clears away is the VM it made (_cleanup).
THEOREM CleansOnlyOwnSafe == RepSpec => CleansOnlyOwn
<1>1. RepInv /\ [RepNext]_repVars =>
        [NumbersKept => \A j \in RepJobs :
           reps[j].pc = "clear" /\ vms[reps[j].vmid] # None /\ vms'[reps[j].vmid] = None
             => vms[reps[j].vmid].by = j]_repVars
  <2>1. RepInv /\ NumbersKept => \A j \in RepJobs :
          reps[j].pc = "clear" /\ vms[reps[j].vmid] # None => vms[reps[j].vmid].by = j
    BY DEF RepInv, Owned, OwnVm, GoneVm, VmOf, Made, Numbered
  <2> QED BY <2>1
<1> QED BY <1>1, RepInvariance, PTL DEF RepSpec, CleansOnlyOwn
-----------------------------------------------------------------------------
(***************************************************************************)
(* Copies of configurations.                                               *)
(***************************************************************************)
\* A set of positions that is not empty has a last one.
LEMMA LastExists ==
  ASSUME NEW n \in Nat, NEW S, S \subseteq 1..n, S # {}
  PROVE  \E x \in S : \A y \in S : y <= x
<1> DEFINE D == {n - x : x \in S}
<1>1. D \subseteq Nat /\ D # {}
  <2>1. \A x \in S : n - x \in Nat
    OBVIOUS
  <2> QED BY <2>1
<1>2. PICK m \in D : \A d \in D : m <= d
  <2> HIDE DEF D
  <2> QED BY <1>1, LeastExists
<1>3. PICK x \in S : m = n - x
  BY <1>2
<1>4. \A y \in S : n - x <= n - y
  BY <1>2, <1>3
<1> QED BY <1>3, <1>4

\* Restores and runs that have seen a configuration.
Restore ==
  [pc : {"idle", "diffed", "asked", "locked", "put", "release"}, full : BOOLEAN,
   payload : Config \cup {None}, keys : SUBSET CfgKeys, shown : Config \cup {None}, seen : Config \cup {None}]
CfgJobRun == [pc : {"idle", "compare", "insert", "rotate"}, seen : Config \cup {None}]

CfgTyped ==
  /\ cfgDeployment \in CfgDeployments
  /\ live \in Config \cup {None}
  /\ copies \subseteq Copy /\ taken \in 0..cfgDeployment.most
  /\ restoreLock \in Restorers \cup {None}
  /\ restore \in [Restorers -> Restore]
  /\ cfgRun \in [CfgJobs -> CfgJobRun]
  /\ \A r \in Restorers :
       /\ restore[r].pc \in {"locked", "put", "release"} => restoreLock = r
       /\ restore[r].pc # "idle" => restore[r].payload \in Config
       /\ restore[r].pc \in {"asked", "locked", "put"} => restore[r].seen \in Config
       /\ restore[r].pc \in {"locked", "put"} => restore[r].seen = restore[r].shown
  /\ \A j \in CfgJobs : cfgRun[j].pc \in {"compare", "insert"} => cfgRun[j].seen \in Config

\* What a restore has seen is what the VM has until it is put back.
Shown ==
  ~cfgDeployment.outsiders /\ ~cfgDeployment.delayed =>
    /\ live # None
    /\ \A r \in Restorers : restore[r].pc \in {"asked", "locked", "put"} => restore[r].seen = live

\* Of the copies of a job, one that no other is newer than.
NewestOf(C, c) == c \in C /\ \A d \in C : d.id <= c.id
Seen ==
  ~cfgDeployment.deletes /\ ~cfgDeployment.outsiders =>
    /\ refresh = None /\ IsFiniteSet(copies)
    /\ \A c \in copies : ~c.orphan /\ c.id <= taken
    /\ \A j \in CfgJobs : cfgRun[j].pc = "rotate" /\ cfgRun[j].seen # None =>
         \E c \in JobCopies(j) : c.payload = cfgRun[j].seen /\ NewestOf(JobCopies(j), c)

CfgInv == CfgTyped /\ Shown /\ Seen
-----------------------------------------------------------------------------
\* What a file says is a configuration.
LEMMA ParsedConfig == ASSUME NEW f \in Files PROVE Parsed(f) \in Config
<1>1. PICK n \in 0..MaxLines : f \in [1..n -> Line]
  BY DEF Files
<1>2. ASSUME NEW k \in CfgKeys, CfgSettings(f, k) # {}
      PROVE  f[CHOOSE i \in CfgSettings(f, k) : \A h \in CfgSettings(f, k) : h <= i].value \in CfgValues
  <2>1. CfgSettings(f, k) \subseteq 1..n /\ n \in Nat
    BY <1>1, ConfigSnapshotsAssumption DEF CfgSettings, Read
  <2>2. PICK i \in CfgSettings(f, k) : \A h \in CfgSettings(f, k) : h <= i
    BY <1>2, <2>1, LastExists
  <2>3. \A i2 \in CfgSettings(f, k) : f[i2].value \in CfgValues
    BY <1>1, <2>1 DEF CfgSettings, Line
  <2> QED BY <2>2, <2>3
<1> DEFINE val(k) == IF k \in Identity \/ CfgSettings(f, k) = {} THEN None
                     ELSE f[CHOOSE i \in CfgSettings(f, k) : \A h \in CfgSettings(f, k) : h <= i].value
<1>3. \A k \in CfgKeys : val(k) \in CfgValues \cup {None}
  BY <1>2
<1>4. Parsed(f) = [k \in CfgKeys |-> val(k)]
  BY DEF Parsed
<1> HIDE DEF val
<1> QED BY <1>3, <1>4 DEF Config

LEMMA MostTyped ==
  ASSUME cfgDeployment \in CfgDeployments PROVE cfgDeployment.most \in Nat
BY ConfigSnapshotsAssumption

\* A copy is added, marked or deleted.
LEMMA InsertedCopy ==
  ASSUME CfgTyped, NEW p \in Config, NEW j \in CfgJobs \cup {None}, InsertConfig(p, j)
  PROVE  /\ copies' \subseteq Copy /\ taken' \in 0..cfgDeployment.most
         /\ taken \in Nat /\ taken' = taken + 1
         /\ copies' = copies \cup {[id |-> taken + 1, payload |-> p, job |-> j, orphan |-> FALSE]}
<1> DEFINE new == [id |-> taken + 1, payload |-> p, job |-> j, orphan |-> FALSE]
<1>1. cfgDeployment.most \in Nat /\ taken \in 0..cfgDeployment.most /\ copies \subseteq Copy
  BY MostTyped DEF CfgTyped
<1>2. new \in Copy
  BY <1>1 DEF Copy
<1>3. taken < cfgDeployment.most /\ taken' = taken + 1 /\ copies' = copies \cup {new}
  BY DEF InsertConfig
<1> HIDE DEF new
<1>4. copies' \subseteq Copy /\ taken' \in 0..cfgDeployment.most /\ taken \in Nat
  BY <1>1, <1>2, <1>3
<1> QED BY <1>3, <1>4 DEF new

LEMMA OrphanedCopies ==
  ASSUME copies \subseteq Copy, NEW C, C \subseteq copies PROVE Orphaned(C) \subseteq Copy
BY DEF Orphaned, Copy

CfgCopiesStep ==
  \/ CreateCopy \/ UploadConfig \/ DeleteCopies \/ DeleteOrphan
  \/ OutsiderEdits \/ DeleteVm \/ CreateVm \/ ListVms \/ RefreshDone
JobStep(j) ==
  CfgRunReads(j) \/ CfgRunCompares(j) \/ CfgRunInserts(j) \/ CfgRunFails(j) \/ CfgRunRotates(j)

\* The types, after a step.
LEMMA CfgTypeInit == CfgInit => CfgTyped
<1> SUFFICES ASSUME CfgInit PROVE CfgTyped
  OBVIOUS
<1>1. \A r \in Restorers : restore[r] = NoRestore
  BY DEF CfgInit
<1>2. NoRestore \in Restore /\ NoRestore.pc = "idle" /\ NoCfgRun \in CfgJobRun /\ NoCfgRun.pc = "idle"
  BY DEF NoRestore, Restore, NoCfgRun, CfgJobRun
<1>3. cfgDeployment.most \in Nat
  BY MostTyped DEF CfgInit
<1> QED BY <1>1, <1>2, <1>3 DEF CfgInit, CfgTyped

LEMMA CfgCopiesTyped == ASSUME CfgTyped, CfgCopiesStep PROVE CfgTyped'
<1> USE DEF CfgTyped
<1>1. CASE CreateCopy
  <2>1. live \in Config /\ InsertConfig(live, None)
    BY <1>1 DEF CreateCopy
  <2> QED BY <1>1, <2>1, InsertedCopy DEF CreateCopy
<1>2. CASE UploadConfig
  <2>1. PICK f \in Files : InsertConfig(Parsed(f), None)
    BY <1>2 DEF UploadConfig
  <2>2. Parsed(f) \in Config
    BY ParsedConfig
  <2> QED BY <1>2, <2>1, <2>2, InsertedCopy DEF UploadConfig
<1>3. CASE DeleteCopies \/ DeleteOrphan
  BY <1>3 DEF DeleteCopies, DeleteOrphan
<1>4. CASE OutsiderEdits
  <2>1. live' \in Config
    BY <1>4 DEF OutsiderEdits, Config
  <2> QED BY <1>4, <2>1 DEF OutsiderEdits
<1>5. CASE DeleteVm
  <2>1. copies' \subseteq Copy
    BY <1>5, OrphanedCopies DEF DeleteVm
  <2> QED BY <1>5, <2>1 DEF DeleteVm
<1>6. CASE CreateVm \/ ListVms
  BY <1>6 DEF CreateVm, ListVms
<1>7. CASE RefreshDone
  <2>1. copies' \subseteq Copy
    BY <1>7, OrphanedCopies DEF RefreshDone
  <2> QED BY <1>7, <2>1 DEF RefreshDone
<1> QED BY <1>1, <1>2, <1>3, <1>4, <1>5, <1>6, <1>7 DEF CfgCopiesStep

\* A restore goes on; a step of one changes it alone.
LEMMA RestoreTyped ==
  ASSUME CfgTyped, NEW r \in Restorers, RestoreStep(r) PROVE CfgTyped'
<1> USE DEF CfgTyped
<1>0. restore[r] \in Restore /\ \A q \in Restorers \ {r} : restore'[q] = restore[q]
  BY DEF RestoreStep, DiffLive, AskLive, TakeRestoreLock, RefuseRestore, PreRestore, NoPreRestore,
         PutConfig, PutFails, ReleaseRestoreLock, Step
<1>n. NoRestore \in Restore /\ NoRestore.pc = "idle"
  BY DEF NoRestore, Restore
\* What is to be shown of the restore itself.
<1> DEFINE Good(s) ==
      /\ s.pc \in {"locked", "put", "release"} => restoreLock' = r
      /\ s.pc # "idle" => s.payload \in Config
      /\ s.pc \in {"asked", "locked", "put"} => s.seen \in Config
      /\ s.pc \in {"locked", "put"} => s.seen = s.shown
<1>s. ASSUME NEW s \in Restore, Step(r, s), Good(s), live' \in Config \cup {None}, copies' \subseteq Copy,
             taken' \in 0..cfgDeployment.most, restoreLock' \in Restorers \cup {None},
             restoreLock' = restoreLock \/ restoreLock = None \/ restoreLock = r,
             UNCHANGED <<cfgDeployment, cfgRun>>
      PROVE  CfgTyped'
  <2>1. restore' = [restore EXCEPT ![r] = s] /\ restore' \in [Restorers -> Restore] /\ restore'[r] = s
    BY <1>s DEF Step
  <2>2. \A q \in Restorers : q # r => restore'[q] = restore[q]
    BY <2>1
  <2>3. ASSUME NEW q \in Restorers
        PROVE  /\ restore'[q].pc \in {"locked", "put", "release"} => restoreLock' = q
               /\ restore'[q].pc # "idle" => restore'[q].payload \in Config
               /\ restore'[q].pc \in {"asked", "locked", "put"} => restore'[q].seen \in Config
               /\ restore'[q].pc \in {"locked", "put"} => restore'[q].seen = restore'[q].shown
    <3>1. CASE q = r
      BY <1>s, <2>1, <3>1
    <3>2. CASE q # r
      <4>1. restore'[q] = restore[q]
        BY <2>2, <3>2
      <4>2. restore[q].pc \in {"locked", "put", "release"} => restoreLock' = q
        BY <1>s, <3>2, ConfigSnapshotsAssumption
      <4> QED BY <4>1, <4>2
    <3> QED BY <3>1, <3>2
  <2> QED BY <1>s, <2>1, <2>3
<1>1. CASE DiffLive(r)
  <2>1. PICK c \in copies : Step(r, [NoRestore EXCEPT !.pc = "diffed", !.payload = c.payload, !.shown = live])
    BY <1>1 DEF DiffLive
  <2>2. c.payload \in Config
    BY DEF Copy
  <2> DEFINE s == [NoRestore EXCEPT !.pc = "diffed", !.payload = c.payload, !.shown = live]
  <2>3. s \in Restore /\ s.pc = "diffed" /\ s.payload \in Config
    BY <2>2 DEF NoRestore, Restore
  <2> HIDE DEF s
  <2> QED BY <1>1, <1>s, <2>1, <2>3 DEF DiffLive, s
<1>2. CASE AskLive(r)
  <2>1. PICK full \in BOOLEAN, K \in SUBSET CfgKeys :
          Step(r, [restore[r] EXCEPT !.pc = "asked", !.full = full, !.keys = K, !.seen = live])
    BY <1>2 DEF AskLive
  <2> DEFINE s == [restore[r] EXCEPT !.pc = "asked", !.full = full, !.keys = K, !.seen = live]
  <2>2. restore[r].pc = "diffed" /\ live \in Config
    BY <1>2 DEF AskLive
  <2>3. s \in Restore /\ s.pc = "asked" /\ s.payload = restore[r].payload /\ s.seen = live
    BY <1>0, <2>2 DEF Restore
  <2>4. Step(r, s)
    BY <2>1
  <2> HIDE DEF s
  <2> QED BY <1>2, <1>s, <2>2, <2>3, <2>4 DEF AskLive
<1>3. ASSUME NEW pc \in {"locked", "put", "release"}, Step(r, [restore[r] EXCEPT !.pc = pc]),
             restore[r].pc # "idle",
             pc \in {"locked", "put"} => restore[r].seen \in Config /\ restore[r].seen = restore[r].shown,
             restoreLock' = r, restoreLock = r \/ restoreLock = None,
             live' \in Config \cup {None}, copies' \subseteq Copy,
             taken' \in 0..cfgDeployment.most, UNCHANGED <<cfgDeployment, cfgRun>>
      PROVE  CfgTyped'
  <2> DEFINE s == [restore[r] EXCEPT !.pc = pc]
  <2>1. s \in Restore /\ s.pc = pc /\ s.payload = restore[r].payload /\ s.seen = restore[r].seen
        /\ s.shown = restore[r].shown /\ Step(r, s)
    BY <1>0, <1>3 DEF Restore
  <2> HIDE DEF s
  <2> QED BY <1>3, <1>s, <2>1
<1>4. CASE TakeRestoreLock(r)
  BY <1>3, <1>4 DEF TakeRestoreLock, Fresh, LockFree
<1>5. CASE PreRestore(r)
  <2>1. restore[r].pc = "locked" /\ restore[r].seen \in Config /\ InsertConfig(restore[r].seen, None)
    BY <1>5 DEF PreRestore
  <2>2. copies' \subseteq Copy /\ taken' \in 0..cfgDeployment.most
    BY <2>1, InsertedCopy
  <2> QED BY <1>3, <1>5, <2>1, <2>2 DEF PreRestore
<1>6. CASE NoPreRestore(r)
  BY <1>3, <1>6 DEF NoPreRestore
<1>7. CASE PutConfig(r)
  <2>1. restore[r].pc = "put" /\ restore[r].payload \in Config /\ live \in Config
    BY <1>7 DEF PutConfig
  <2>2. live' \in Config
    BY <1>7, <2>1 DEF PutConfig, Config
  <2> QED BY <1>3, <1>7, <2>1, <2>2 DEF PutConfig
<1>8. CASE PutFails(r)
  BY <1>3, <1>8 DEF PutFails
<1>9. CASE RefuseRestore(r)
  BY <1>9, <1>n, <1>s DEF RefuseRestore
<1>10. CASE ReleaseRestoreLock(r)
  BY <1>10, <1>n, <1>s DEF ReleaseRestoreLock
<1> QED BY <1>1, <1>2, <1>4, <1>5, <1>6, <1>7, <1>8, <1>9, <1>10 DEF RestoreStep

LEMMA JobTyped == ASSUME CfgTyped, NEW j \in CfgJobs, JobStep(j) PROVE CfgTyped'
<1> USE DEF CfgTyped
<1>1. ASSUME NEW pc \in {"idle", "compare", "insert", "rotate"}, NEW seen \in Config \cup {None},
             RunTo(j, pc, seen), pc \in {"compare", "insert"} => seen \in Config
      PROVE  /\ cfgRun' \in [CfgJobs -> CfgJobRun]
             /\ \A i \in CfgJobs : cfgRun'[i].pc \in {"compare", "insert"} => cfgRun'[i].seen \in Config
  <2>1. [pc |-> pc, seen |-> seen] \in CfgJobRun
    BY DEF CfgJobRun
  <2> QED BY <1>1, <2>1 DEF RunTo
<1>2. cfgRun[j].seen \in Config \cup {None}
  BY DEF CfgJobRun
<1>3. CASE CfgRunReads(j) \/ CfgRunCompares(j) \/ CfgRunFails(j)
  BY <1>1, <1>2, <1>3 DEF CfgRunReads, CfgRunCompares, CfgRunFails
<1>4. CASE CfgRunInserts(j)
  BY <1>1, <1>2, <1>4, InsertedCopy DEF CfgRunInserts
<1>5. CASE CfgRunRotates(j)
  BY <1>1, <1>2, <1>5 DEF CfgRunRotates
<1> QED BY <1>3, <1>4, <1>5 DEF JobStep

LEMMA CfgTypeStep == ASSUME CfgTyped, CfgNext PROVE CfgTyped'
<1>1. CASE CfgRestart
  <2>1. NoRestore \in Restore /\ NoRestore.pc = "idle" /\ NoCfgRun \in CfgJobRun /\ NoCfgRun.pc = "idle"
    BY DEF NoRestore, Restore, NoCfgRun, CfgJobRun
  <2> QED BY <1>1, <2>1 DEF CfgRestart, CfgTyped
<1> QED BY <1>1, CfgCopiesTyped, RestoreTyped, JobTyped DEF CfgNext, CfgCopiesStep, JobStep
-----------------------------------------------------------------------------
\* What was seen is what there is, after a step.
LEMMA ShownStep == ASSUME CfgTyped, Shown, CfgNext PROVE Shown'
<1>d. cfgDeployment' = cfgDeployment
  BY DEF CfgNext, RestoreStep, CreateCopy, UploadConfig, DeleteCopies, DeleteOrphan, DiffLive, AskLive,
         TakeRestoreLock, RefuseRestore, PreRestore, NoPreRestore, PutConfig, PutFails,
         ReleaseRestoreLock, CfgRunReads, CfgRunCompares, CfgRunInserts, CfgRunFails, CfgRunRotates,
         OutsiderEdits, DeleteVm, CreateVm, ListVms, RefreshDone, CfgRestart
<1> SUFFICES ASSUME ~cfgDeployment.outsiders, ~cfgDeployment.delayed
             PROVE  /\ live' # None
                    /\ \A r \in Restorers :
                         restore'[r].pc \in {"asked", "locked", "put"} => restore'[r].seen = live'
  BY <1>d DEF Shown
<1>0. /\ live # None
      /\ \A r \in Restorers : restore[r].pc \in {"asked", "locked", "put"} => restore[r].seen = live
  BY DEF Shown
<1>1. CASE live' = live /\ restore' = restore
  BY <1>0, <1>1
<1>2. ASSUME NEW r \in Restorers, NEW s, Step(r, s), live' = live,
             s.pc \in {"asked", "locked", "put"} => s.seen = live
      PROVE  /\ live' # None
             /\ \A q \in Restorers :
                  restore'[q].pc \in {"asked", "locked", "put"} => restore'[q].seen = live'
  BY <1>0, <1>2 DEF Step, CfgTyped
<1>3. ASSUME NEW r \in Restorers, RestoreStep(r)
      PROVE  /\ live' # None
             /\ \A q \in Restorers :
                  restore'[q].pc \in {"asked", "locked", "put"} => restore'[q].seen = live'
  <2>0. restore[r] \in Restore
    BY DEF CfgTyped
  <2>1. CASE DiffLive(r)
    <3>1. PICK c \in copies : Step(r, [NoRestore EXCEPT !.pc = "diffed", !.payload = c.payload, !.shown = live])
      BY <2>1 DEF DiffLive
    <3>2. [NoRestore EXCEPT !.pc = "diffed", !.payload = c.payload, !.shown = live].pc = "diffed"
      BY DEF NoRestore
    <3> QED BY <1>2, <2>1, <3>1, <3>2 DEF DiffLive
  <2>2. CASE AskLive(r)
    <3>1. PICK full \in BOOLEAN, K \in SUBSET CfgKeys :
            Step(r, [restore[r] EXCEPT !.pc = "asked", !.full = full, !.keys = K, !.seen = live])
      BY <2>2 DEF AskLive
    <3>2. [restore[r] EXCEPT !.pc = "asked", !.full = full, !.keys = K, !.seen = live].seen = live
      BY <2>0 DEF Restore
    <3> QED BY <1>2, <2>2, <3>1, <3>2 DEF AskLive
  <2>3. ASSUME NEW pc \in {"locked", "put", "release"}, Step(r, [restore[r] EXCEPT !.pc = pc]),
               restore[r].pc \in {"asked", "locked", "put"}, live' = live
        PROVE  /\ live' # None
               /\ \A q \in Restorers :
                    restore'[q].pc \in {"asked", "locked", "put"} => restore'[q].seen = live'
    <3>1. [restore[r] EXCEPT !.pc = pc].seen = live
      BY <1>0, <2>0, <2>3 DEF Restore
    <3> QED BY <1>2, <2>3, <3>1
  <2>4. CASE TakeRestoreLock(r) \/ PreRestore(r) \/ NoPreRestore(r) \/ PutFails(r)
    BY <2>3, <2>4 DEF TakeRestoreLock, PreRestore, NoPreRestore, PutFails
  <2>5. CASE RefuseRestore(r) \/ ReleaseRestoreLock(r)
    BY <1>2, <2>5 DEF RefuseRestore, ReleaseRestoreLock, NoRestore
  <2>6. CASE PutConfig(r)
    <3>1. live \in Config /\ restore[r].payload \in Config /\ restore[r].pc = "put"
          /\ restore' = [restore EXCEPT ![r] = [restore[r] EXCEPT !.pc = "release"]]
      BY <2>6 DEF PutConfig, Step, CfgTyped
    <3>2. live' \in Config
      BY <2>6, <3>1 DEF PutConfig, Config
    <3>3. restore'[r].pc = "release"
      BY <2>0, <3>1 DEF CfgTyped, Restore
    <3>4. ASSUME NEW q \in Restorers, q # r PROVE restore'[q].pc \notin {"asked", "locked", "put"}
      <4>1. restore'[q] = restore[q]
        BY <3>1, <3>4 DEF CfgTyped
      <4>2. restore[q].pc # "asked"
        BY <2>6 DEF PutConfig, NothingUnderWay
      <4>3. restore[q].pc \notin {"locked", "put"}
        BY <3>1, <3>4 DEF CfgTyped
      <4> QED BY <4>1, <4>2, <4>3
    <3> QED BY <3>2, <3>3, <3>4, ConfigAssumption
  <2> QED BY <1>3, <2>1, <2>2, <2>4, <2>5, <2>6 DEF RestoreStep
<1>4. ASSUME NEW j \in CfgJobs, JobStep(j) PROVE live' = live /\ restore' = restore
  BY <1>4 DEF JobStep, CfgRunReads, CfgRunCompares, CfgRunInserts, CfgRunFails, CfgRunRotates
<1>5. CASE CreateCopy \/ UploadConfig \/ DeleteCopies \/ DeleteOrphan \/ ListVms \/ RefreshDone
  BY <1>1, <1>5 DEF CreateCopy, UploadConfig, DeleteCopies, DeleteOrphan, ListVms, RefreshDone
<1>6. ~OutsiderEdits /\ ~DeleteVm /\ ~CreateVm /\ ~CfgRestart
  BY <1>0 DEF OutsiderEdits, DeleteVm, CreateVm, CfgRestart
<1> QED BY <1>1, <1>3, <1>4, <1>5, <1>6 DEF CfgNext, JobStep
-----------------------------------------------------------------------------
\* The newest copies of a finite set.
LEMMA NewestKept ==
  ASSUME NEW C, IsFiniteSet(C), C \subseteq Copy, NEW n \in Nat \ {0}, NEW c, NewestOf(C, c)
  PROVE  c \in NewestCopies(C, n)
<1>1. {d \in C : d.id > c.id} = {}
  BY DEF NewestOf, Copy
<1> QED BY <1>1, FS_EmptySet DEF NewestCopies, NewestOf

LEMMA LastIsNewest ==
  ASSUME NEW C, IsFiniteSet(C), C \subseteq Copy, NEW c \in NewestCopies(C, 1)
  PROVE  NewestOf(C, c)
<1> DEFINE D == {d \in C : d.id > c.id}
<1>1. IsFiniteSet(D) /\ Cardinality(D) < 1 /\ c \in C
  BY FS_Subset DEF NewestCopies
<1>2. D = {}
  <2> HIDE DEF D
  <2> QED BY <1>1, FS_EmptySet, FS_CardinalityType
<1> QED BY <1>1, <1>2 DEF NewestOf, Copy

LEMMA SeenStep == ASSUME CfgTyped, Seen, CfgNext PROVE Seen'
<1>d. cfgDeployment' = cfgDeployment
  BY DEF CfgNext, RestoreStep, CreateCopy, UploadConfig, DeleteCopies, DeleteOrphan, DiffLive, AskLive,
         TakeRestoreLock, RefuseRestore, PreRestore, NoPreRestore, PutConfig, PutFails,
         ReleaseRestoreLock, CfgRunReads, CfgRunCompares, CfgRunInserts, CfgRunFails, CfgRunRotates,
         OutsiderEdits, DeleteVm, CreateVm, ListVms, RefreshDone, CfgRestart
<1> DEFINE
     Calm == /\ refresh' = None /\ IsFiniteSet(copies')
             /\ \A c \in copies' : ~c.orphan /\ c.id <= taken'
             /\ \A j \in CfgJobs : cfgRun'[j].pc = "rotate" /\ cfgRun'[j].seen # None =>
                  \E c \in JobCopies(j)' : c.payload = cfgRun'[j].seen /\ NewestOf(JobCopies(j)', c)
<1> SUFFICES ASSUME ~cfgDeployment.deletes, ~cfgDeployment.outsiders PROVE Calm
  BY <1>d DEF Seen, NewestOf, JobCopies
<1>0. /\ refresh = None /\ IsFiniteSet(copies) /\ copies \subseteq Copy /\ taken \in Nat
      /\ \A c \in copies : ~c.orphan /\ c.id <= taken
      /\ \A j \in CfgJobs : cfgRun[j].pc = "rotate" /\ cfgRun[j].seen # None =>
           \E c \in JobCopies(j) : c.payload = cfgRun[j].seen /\ NewestOf(JobCopies(j), c)
      /\ None \notin CfgJobs
  BY ConfigSnapshotsAssumption, MostTyped DEF Seen, CfgTyped
<1>f. \A j \in CfgJobs : IsFiniteSet(JobCopies(j)) /\ JobCopies(j) \subseteq Copy
  BY <1>0, FS_Subset DEF JobCopies
\* Nothing about the copies.
<1>1. ASSUME UNCHANGED <<copies, taken, cfgRun, refresh>> PROVE Calm
  BY <1>0, <1>1 DEF JobCopies
\* A copy that is new is the newest.
<1>2. ASSUME NEW p \in Config, NEW i \in CfgJobs \cup {None}, InsertConfig(p, i), refresh' = refresh
      PROVE  /\ refresh' = None /\ IsFiniteSet(copies')
             /\ \A c \in copies' : ~c.orphan /\ c.id <= taken'
             /\ \A j \in CfgJobs : j # i => JobCopies(j)' = JobCopies(j)
             /\ i \in CfgJobs => \E c \in JobCopies(i)' : c.payload = p /\ NewestOf(JobCopies(i)', c)
  <2> DEFINE new == [id |-> taken + 1, payload |-> p, job |-> i, orphan |-> FALSE]
  <2>1. copies' = copies \cup {new} /\ taken' = taken + 1
    BY <1>2 DEF InsertConfig
  <2>2. new.id = taken + 1 /\ new.payload = p /\ new.job = i /\ ~new.orphan
    OBVIOUS
  <2> HIDE DEF new
  <2>3. IsFiniteSet(copies')
    BY <1>0, <2>1, FS_AddElement
  <2>4. \A c \in copies' : ~c.orphan /\ c.id <= taken'
    <3>1. \A c \in copies : c.id \in Nat /\ c.id <= taken
      BY <1>0 DEF Copy
    <3> QED BY <1>0, <2>1, <2>2, <3>1
  <2>5. \A j \in CfgJobs : j # i => JobCopies(j)' = JobCopies(j)
    BY <2>1, <2>2 DEF JobCopies
  <2>6. i \in CfgJobs => new \in JobCopies(i)'
    BY <2>1, <2>2 DEF JobCopies
  <2>7. i \in CfgJobs => NewestOf(JobCopies(i)', new)
    BY <2>1, <2>2, <2>4, <2>6 DEF JobCopies, NewestOf
  <2> QED BY <1>0, <1>2, <2>2, <2>3, <2>4, <2>5, <2>6, <2>7
<1>3. ASSUME NEW p \in Config, InsertConfig(p, None), UNCHANGED <<cfgRun, refresh>> PROVE Calm
  <2>1. /\ refresh' = None /\ IsFiniteSet(copies')
        /\ \A c \in copies' : ~c.orphan /\ c.id <= taken'
        /\ \A j \in CfgJobs : JobCopies(j)' = JobCopies(j)
    BY <1>0, <1>2, <1>3
  <2> QED BY <1>0, <1>3, <2>1
<1>4. CASE CreateCopy
  <2>1. live \in Config /\ InsertConfig(live, None)
    BY <1>4 DEF CreateCopy, CfgTyped
  <2> QED BY <1>3, <1>4, <2>1 DEF CreateCopy
<1>5. CASE UploadConfig
  BY <1>3, <1>5, ParsedConfig DEF UploadConfig
<1>6. CASE DeleteOrphan
  BY <1>0, <1>6 DEF DeleteOrphan
<1>7. ASSUME NEW r \in Restorers, RestoreStep(r) PROVE Calm
  <2>1. CASE PreRestore(r)
    <3>1. restore[r].seen \in Config
      BY <2>1 DEF PreRestore, CfgTyped
    <3> QED BY <1>3, <2>1, <3>1 DEF PreRestore
  <2>2. CASE ~PreRestore(r)
    BY <1>1, <1>7, <2>2 DEF RestoreStep, DiffLive, AskLive, TakeRestoreLock, RefuseRestore,
         NoPreRestore, PutConfig, PutFails, ReleaseRestoreLock
  <2> QED BY <2>1, <2>2
<1>8. ASSUME NEW i \in CfgJobs, JobStep(i) PROVE Calm
  <2>1. cfgRun \in [CfgJobs -> CfgJobRun]
    BY DEF CfgTyped
  <2>2. ASSUME NEW pc, NEW seen, RunTo(i, pc, seen), copies' = copies, UNCHANGED <<taken, refresh>>,
               pc = "rotate" /\ seen # None =>
                 \E c \in JobCopies(i) : c.payload = seen /\ NewestOf(JobCopies(i), c)
        PROVE  Calm
    <3>1. /\ cfgRun'[i].pc = pc /\ cfgRun'[i].seen = seen
          /\ \A j \in CfgJobs \ {i} : cfgRun'[j] = cfgRun[j]
      BY <2>1, <2>2 DEF RunTo
    <3>2. \A j \in CfgJobs : JobCopies(j)' = JobCopies(j)
      BY <2>2 DEF JobCopies
    <3>3. ASSUME NEW j \in CfgJobs, cfgRun'[j].pc = "rotate", cfgRun'[j].seen # None
          PROVE  \E c \in JobCopies(j)' : c.payload = cfgRun'[j].seen /\ NewestOf(JobCopies(j)', c)
      <4>1. CASE j = i
        BY <2>2, <3>1, <3>2, <3>3, <4>1
      <4>2. CASE j # i
        BY <1>0, <3>1, <3>2, <3>3, <4>2
      <4> QED BY <4>1, <4>2
    <3>4. refresh' = None /\ IsFiniteSet(copies') /\ \A c \in copies' : ~c.orphan /\ c.id <= taken'
      BY <1>0, <2>2
    <3> QED BY <3>3, <3>4
  <2>3. CASE CfgRunReads(i) \/ CfgRunFails(i)
    BY <2>2, <2>3 DEF CfgRunReads, CfgRunFails
  <2>4. CASE CfgRunCompares(i)
    <3>1. ASSUME NEW c \in LastCopy(i) PROVE c \in JobCopies(i) /\ NewestOf(JobCopies(i), c)
      BY <1>f, LastIsNewest DEF LastCopy, NewestOf
    <3> QED BY <2>2, <2>4, <3>1 DEF CfgRunCompares
  <2>5. CASE CfgRunInserts(i)
    <3>1. /\ cfgRun[i].seen \in Config /\ InsertConfig(cfgRun[i].seen, i) /\ refresh' = refresh
          /\ cfgRun' = [cfgRun EXCEPT ![i] = [pc |-> "rotate", seen |-> cfgRun[i].seen]]
      BY <2>5 DEF CfgRunInserts, CfgTyped, RunTo
    <3>2. /\ cfgRun'[i].seen = cfgRun[i].seen
          /\ \A j \in CfgJobs \ {i} : cfgRun'[j] = cfgRun[j]
      BY <2>1, <3>1
    <3>3. /\ refresh' = None /\ IsFiniteSet(copies')
          /\ \A c \in copies' : ~c.orphan /\ c.id <= taken'
          /\ \A j \in CfgJobs : j # i => JobCopies(j)' = JobCopies(j)
          /\ \E c \in JobCopies(i)' : c.payload = cfgRun[i].seen /\ NewestOf(JobCopies(i)', c)
      BY <1>2, <3>1
    <3>4. ASSUME NEW j \in CfgJobs, cfgRun'[j].pc = "rotate", cfgRun'[j].seen # None
          PROVE  \E c \in JobCopies(j)' : c.payload = cfgRun'[j].seen /\ NewestOf(JobCopies(j)', c)
      <4>1. CASE j = i
        BY <3>2, <3>3, <4>1
      <4>2. CASE j # i
        BY <1>0, <3>2, <3>3, <3>4, <4>2
      <4> QED BY <4>1, <4>2
    <3> QED BY <3>3, <3>4
  <2>6. CASE CfgRunRotates(i)
    <3> DEFINE kept == NewestCopies(JobCopies(i), CfgKeepLast)
    <3>1. /\ copies' = copies \ (JobCopies(i) \ kept) /\ refresh' = None /\ taken' = taken
          /\ cfgRun' = [cfgRun EXCEPT ![i] = [pc |-> "idle", seen |-> None]]
      BY <1>0, <2>6 DEF CfgRunRotates, RunTo
    <3>2. /\ cfgRun'[i].pc = "idle"
          /\ \A j \in CfgJobs \ {i} : cfgRun'[j] = cfgRun[j] /\ JobCopies(j)' = JobCopies(j)
      BY <2>1, <3>1 DEF JobCopies
    <3>3. IsFiniteSet(copies') /\ \A c \in copies' : ~c.orphan /\ c.id <= taken'
      BY <1>0, <3>1, FS_Subset
    <3>4. ASSUME NEW j \in CfgJobs, cfgRun'[j].pc = "rotate", cfgRun'[j].seen # None
          PROVE  \E c \in JobCopies(j)' : c.payload = cfgRun'[j].seen /\ NewestOf(JobCopies(j)', c)
      <4>1. j # i /\ cfgRun'[j] = cfgRun[j] /\ JobCopies(j)' = JobCopies(j)
        BY <3>2, <3>4
      <4> QED BY <1>0, <3>4, <4>1
    <3> QED BY <3>1, <3>3, <3>4
  <2> QED BY <1>8, <2>3, <2>4, <2>5, <2>6 DEF JobStep
<1>9. CASE OutsiderEdits \/ CreateVm
  BY <1>1, <1>9 DEF OutsiderEdits, CreateVm
<1>10. ~DeleteCopies /\ ~DeleteVm /\ ~ListVms /\ ~RefreshDone /\ ~CfgRestart
  BY <1>0 DEF DeleteCopies, DeleteVm, ListVms, RefreshDone, CfgRestart
<1> QED BY <1>4, <1>5, <1>6, <1>7, <1>8, <1>9, <1>10 DEF CfgNext, JobStep
-----------------------------------------------------------------------------
LEMMA CfgInvInit == CfgInit => CfgInv
<1> SUFFICES ASSUME CfgInit PROVE Shown /\ Seen
  BY CfgTypeInit DEF CfgInv
<1>1. Shown
  BY ConfigAssumption DEF CfgInit, Shown, NoRestore
<1>2. Seen
  BY FS_EmptySet DEF CfgInit, Seen, NoCfgRun
<1> QED BY <1>1, <1>2

LEMMA CfgInvStep == ASSUME CfgInv, [CfgNext]_cfgVars PROVE CfgInv'
<1>1. CASE CfgNext
  BY <1>1, CfgTypeStep, ShownStep, SeenStep DEF CfgInv
<1>2. CASE UNCHANGED cfgVars
  BY <1>2 DEF cfgVars, CfgInv, CfgTyped, Shown, Seen, JobCopies
<1> QED BY <1>1, <1>2

\* The invariant of the copies: what a restore was shown is what the VM has until it is put
\* back, and the newest copy of a job is what its run saw (restore_snapshot,
\* _process_config_target).
THEOREM CfgInvariance == CfgSpec => []CfgInv
<1> QED BY CfgInvInit, CfgInvStep, PTL DEF CfgSpec

\* A restore does what its user was shown (restore_snapshot, restore_selected_keys).
THEOREM RestoresSoundSafe == CfgSpec => RestoresSound
<1>1. CfgInv => CfgTypeOK
  BY DEF CfgInv, CfgTyped, CfgTypeOK, Restore, CfgJobRun
<1>2. CfgInv /\ [CfgNext]_cfgVars =>
        [~cfgDeployment.outsiders /\ ~cfgDeployment.delayed
           => \A r \in Restorers : DoesAsShown(r)]_cfgVars
  <2> SUFFICES ASSUME CfgInv, ~cfgDeployment.outsiders, ~cfgDeployment.delayed,
                      NEW r \in Restorers, PutConfig(r)
               PROVE  /\ live = restore[r].shown
                      /\ \A k \in CfgKeys :
                           live'[k] = IF k \in restore[r].keys THEN restore[r].payload[k] ELSE live[k]
    BY DEF DoesAsShown
  <2>1. restore[r].pc = "put" /\ restore[r].seen = live /\ restore[r].seen = restore[r].shown
    BY DEF CfgInv, CfgTyped, Shown, PutConfig
  <2> QED BY <2>1 DEF PutConfig, Written
<1> QED BY <1>1, <1>2, CfgInvariance, PTL DEF CfgSpec, RestoresSound, RestoreAsShown

\* When a run of a job ends, its newest copy is what the run saw
\* (_process_config_target, _rotate_config_for_target).
THEOREM NewestIsSeenSafe == CfgSpec => NewestIsSeen
<1>1. CfgInv /\ [CfgNext]_cfgVars =>
        [\A j \in CfgJobs :
           /\ ~cfgDeployment.deletes /\ ~cfgDeployment.outsiders
           /\ cfgRun[j].pc = "rotate" /\ cfgRun'[j].pc = "idle" /\ cfgRun[j].seen # None
           => \E c \in JobCopies(j)' :
                /\ c.payload = cfgRun[j].seen
                /\ \A d \in JobCopies(j)' : d.id <= c.id]_cfgVars
  <2> SUFFICES ASSUME CfgInv, CfgNext, NEW j \in CfgJobs,
                      ~cfgDeployment.deletes, ~cfgDeployment.outsiders,
                      cfgRun[j].pc = "rotate", cfgRun'[j].pc = "idle", cfgRun[j].seen # None
               PROVE  \E c \in JobCopies(j)' : /\ c.payload = cfgRun[j].seen
                                              /\ \A d \in JobCopies(j)' : d.id <= c.id
    OBVIOUS
  <2>0. /\ IsFiniteSet(copies) /\ copies \subseteq Copy /\ cfgRun \in [CfgJobs -> CfgJobRun]
        /\ \E c \in JobCopies(j) : c.payload = cfgRun[j].seen /\ NewestOf(JobCopies(j), c)
    BY DEF CfgInv, CfgTyped, Seen
  <2>1. cfgRun' # cfgRun
    OBVIOUS
  <2>2. ~CfgRestart
    BY DEF CfgRestart
  <2>3. PICK i \in CfgJobs : JobStep(i)
    BY <2>1, <2>2 DEF CfgNext, JobStep, RestoreStep, CreateCopy, UploadConfig, DeleteCopies, DeleteOrphan,
         DiffLive, AskLive, TakeRestoreLock, RefuseRestore, PreRestore, NoPreRestore, PutConfig,
         PutFails, ReleaseRestoreLock, OutsiderEdits, DeleteVm, CreateVm, ListVms, RefreshDone
  <2>4. i = j
    <3>1. \E x : cfgRun' = [cfgRun EXCEPT ![i] = x]
      BY <2>3 DEF JobStep, CfgRunReads, CfgRunCompares, CfgRunInserts, CfgRunFails, CfgRunRotates, RunTo
    <3> QED BY <2>0, <3>1
  <2>5. CfgRunRotates(j)
    <3>1. ASSUME NEW pc, NEW seen, RunTo(j, pc, seen) PROVE cfgRun'[j].pc = pc
      BY <2>0, <3>1 DEF RunTo
    <3>2. ~CfgRunReads(j) /\ ~CfgRunCompares(j) /\ ~CfgRunInserts(j)
      BY DEF CfgRunReads, CfgRunCompares, CfgRunInserts, NoCfgRun
    <3>3. ~CfgRunFails(j)
      BY DEF CfgRunFails
    <3> QED BY <2>3, <2>4, <3>2, <3>3 DEF JobStep
  <2>6. PICK c \in JobCopies(j) : c.payload = cfgRun[j].seen /\ NewestOf(JobCopies(j), c)
    BY <2>0
  <2> DEFINE kept == NewestCopies(JobCopies(j), CfgKeepLast)
  <2>7. c \in kept
    BY <2>0, <2>6, NewestKept, FS_Subset, ConfigSnapshotsAssumption DEF JobCopies
  <2>8. JobCopies(j)' \subseteq JobCopies(j) /\ c \in JobCopies(j)'
    <3>1. copies' = copies \ (JobCopies(j) \ kept)
      BY <2>5 DEF CfgRunRotates
    <3> QED BY <2>6, <2>7, <3>1 DEF JobCopies
  <2> QED BY <2>6, <2>8 DEF NewestOf
<1> QED BY <1>1, CfgInvariance, PTL DEF CfgSpec, NewestIsSeen
-----------------------------------------------------------------------------
-----------------------------------------------------------------------------
(***************************************************************************)
(* Snapshots: what a run has in hand, and what the rows say.               *)
(***************************************************************************)
SnPcs == {"idle", "list", "resync", "create", "tiers", "insert", "rotate", "delete", "paused"}
SnRun == [pc : SnPcs, job : SnapJobs \cup {None}, list : SUBSET (1..MaxSnaps), name : 0..MaxSnaps,
          tiers : SUBSET Tiers, todo : SUBSET Nat, gone : SUBSET Nat]
Naming == {"tiers", "insert"}
Shaped(c) ==
  /\ c.pc = "idle" => c = NoRun
  /\ c.pc # "idle" => c.job \in SnapJobs
  /\ c.name # 0 <=> c.pc \in Naming

SnTyped ==
  /\ snDeployment \in SnapDeployments
  /\ snaps \subseteq 1..made /\ tasks \subseteq snaps /\ deletions \subseteq 1..MaxSnaps
  /\ snapRows \in Seq(Row)
  /\ snapRun \in [SnapRuns -> SnRun]
  /\ \A r \in SnapRuns : /\ Shaped(snapRun[r])
                         /\ snapRun[r].todo \cup snapRun[r].gone \subseteq DOMAIN snapRows
  /\ made \in 0..MaxSnaps /\ week \in 1..MaxWeek
  /\ creator \in {"here", "locked", "gone"}

\* The rows of a job, whatever their status, and the ones its floor is made of.
RowsOf(j) == {i \in DOMAIN snapRows : snapRows[i].job = j}
Floor(j) == Newest(RowsOf(j), KeepLast)

\* No two snapshots have one name, and none is from the future.
Named ==
  /\ \A i \in DOMAIN snapRows : snapRows[i].name <= made /\ snapRows[i].week <= week
  /\ \A i, k \in DOMAIN snapRows : snapRows[i].name = snapRows[k].name => i = k
  /\ \A r \in SnapRuns : /\ snapRun[r].name <= made
                         /\ \A i \in DOMAIN snapRows : snapRows[i].name # snapRun[r].name
  /\ \A r, q \in SnapRuns : snapRun[r].name = snapRun[q].name /\ snapRun[r].name # 0 => r = q

\* What a run deletes, and what is being deleted, is of a row that is not of the floor; where
\* deletions do not fail, what a run has deleted is gone or about to go.
Sparing ==
  /\ \A n \in deletions : \E i \in DOMAIN snapRows :
       snapRows[i].name = n /\ i \notin Floor(snapRows[i].job)
  /\ \A r \in SnapRuns : \A i \in snapRun[r].todo : i \notin Floor(snapRows[i].job)
  /\ ~snDeployment.deleteFails =>
       \A r \in SnapRuns : \A i \in snapRun[r].gone :
         snapRows[i].name \in snaps => snapRows[i].name \in deletions

\* Where only runs delete, the floor exists, and what a run is about to write down.
Untouched == ~snDeployment.taskFails /\ ~snDeployment.outsiders
FloorThere ==
  Untouched =>
    /\ \A j \in SnapJobs : \A i \in Floor(j) : snapRows[i].name \in snaps
    /\ \A r \in SnapRuns : snapRun[r].pc \in Naming => snapRun[r].name \in snaps

\* Runs that do not overlap: the list is not stale, and every snapshot is known.
OneByOne ==
  ~snDeployment.overlap =>
    /\ \A r, q \in SnapRuns : ~At(r, "idle") /\ ~At(r, "paused") /\ ~At(q, "idle") /\ ~At(q, "paused") => r = q
    /\ \A r \in SnapRuns : At(r, "resync") => snaps \subseteq snapRun[r].list
Known ==
  ~snDeployment.overlap /\ ~snDeployment.restarts /\ ~snDeployment.deleteFails =>
    \A n \in snaps : \/ n \in deletions
                     \/ \E i \in DOMAIN snapRows : snapRows[i].name = n /\ snapRows[i].status = "active"
                     \/ \E r \in SnapRuns : snapRun[r].name = n

\* The snapshots of the weekly tier: one of every week, as many weeks newer than one that
\* is gone, given up or being deleted as the tier keeps.
Weekly(j) == {i \in RowsOf(j) : "weekly" \in snapRows[i].tiers}
Newer(j, w) == {v \in {snapRows[i].week : i \in RowsOf(j)} : v > w}
Superseded(i) == Cardinality(Newer(snapRows[i].job, snapRows[i].week)) >= KeepTier["weekly"]
GivenUp(i) ==
  \/ snapRows[i].status # "active"
  \/ snapRows[i].name \notin snaps
  \/ snapRows[i].name \in deletions
WeekByWeek ==
  Untouched /\ ~snDeployment.overlap =>
    /\ \A j \in SnapJobs : \A i \in RowsOf(j) : \E k \in Weekly(j) : snapRows[k].week = snapRows[i].week
    /\ \A j \in SnapJobs : \A i \in Weekly(j) : GivenUp(i) => Superseded(i)
    /\ \A r \in SnapRuns : \A i \in snapRun[r].todo \cup snapRun[r].gone :
         "weekly" \in snapRows[i].tiers => Superseded(i)
    /\ KeepTier["weekly"] # 0 =>
         \A j \in SnapJobs : \A i, k \in Weekly(j) : i < k => snapRows[i].week < snapRows[k].week
    /\ \A r \in SnapRuns : At(r, "insert") =>
         LET W == Weekly(snapRun[r].job)
         IN  IF "weekly" \in snapRun[r].tiers
             THEN KeepTier["weekly"] # 0 => \A i \in W : snapRows[i].week < week
             ELSE \E i \in W : snapRows[i].week = week

SnInv == SnTyped /\ Named /\ Sparing /\ FloorThere /\ OneByOne /\ Known /\ WeekByWeek
-----------------------------------------------------------------------------
LEMMA NoRunShaped == NoRun \in SnRun /\ Shaped(NoRun) /\ NoRun.todo \cup NoRun.gone = {} /\ NoRun.name = 0
                     /\ NoRun.pc = "idle"
<1>1. NoRun = [pc |-> "idle", job |-> None, list |-> {}, name |-> 0, tiers |-> {}, todo |-> {}, gone |-> {}]
  BY DEF NoRun
<1>2. 0 \in 0..MaxSnaps
  BY SnapshotsAssumption
<1>3. NoRun \in SnRun
  BY <1>1, <1>2 DEF SnRun, SnPcs
<1> QED BY <1>1, <1>3 DEF Shaped, Naming

\* A step of a run: what it has in hand afterwards.
RunsOn(r, c) ==
  /\ Become(r, c) /\ c \in SnRun /\ Shaped(c) /\ c.todo \cup c.gone \subseteq DOMAIN snapRows

LEMMA RunTyped ==
  ASSUME SnTyped, NEW r \in SnapRuns, NEW c, RunsOn(r, c)
  PROVE  /\ snapRun' \in [SnapRuns -> SnRun] /\ snapRun'[r] = c
         /\ \A q \in SnapRuns : q # r => snapRun'[q] = snapRun[q]
         /\ \A q \in SnapRuns : Shaped(snapRun'[q])
                               /\ snapRun'[q].todo \cup snapRun'[q].gone \subseteq DOMAIN snapRows
<1>1. /\ snapRun' \in [SnapRuns -> SnRun] /\ snapRun'[r] = c
      /\ \A q \in SnapRuns : q # r => snapRun'[q] = snapRun[q]
  BY DEF SnTyped, RunsOn, Become
<1> QED BY <1>1 DEF SnTyped, RunsOn

\* What the rows of a step are: those there were, some with another status, or one more.
SameRows ==
  /\ snapRows' \in Seq(Row) /\ DOMAIN snapRows' = DOMAIN snapRows
  /\ \A i \in DOMAIN snapRows :
       /\ snapRows'[i].job = snapRows[i].job /\ snapRows'[i].name = snapRows[i].name
       /\ snapRows'[i].tiers = snapRows[i].tiers /\ snapRows'[i].week = snapRows[i].week

LEMMA Marked ==
  ASSUME SnTyped, NEW I, NEW s \in {"active", "rotated", "deleted_externally", "vm_deleted"}, SetStatus(I, s)
  PROVE  /\ SameRows
         /\ \A i \in DOMAIN snapRows : snapRows'[i].status = IF i \in I THEN s ELSE snapRows[i].status
<1> DEFINE new(i) == IF i \in I THEN [snapRows[i] EXCEPT !.status = s] ELSE snapRows[i]
<1>1. \A i \in DOMAIN snapRows : snapRows[i] \in Row
  BY DEF SnTyped
<1>2. \A i \in DOMAIN snapRows :
        /\ new(i) \in Row /\ new(i).job = snapRows[i].job /\ new(i).name = snapRows[i].name
        /\ new(i).tiers = snapRows[i].tiers /\ new(i).week = snapRows[i].week
        /\ new(i).status = IF i \in I THEN s ELSE snapRows[i].status
  BY <1>1 DEF Row
<1>3. snapRows' = [i \in DOMAIN snapRows |-> new(i)]
  BY DEF SetStatus
<1>4. Len(snapRows) \in Nat /\ DOMAIN snapRows = 1..Len(snapRows)
  BY LenProperties DEF SnTyped
<1> HIDE DEF new
<1>5. \A i \in 1..Len(snapRows) : new(i) \in Row
  BY <1>2, <1>4
<1>6. snapRows' \in Seq(Row)
  BY <1>3, <1>4, <1>5
<1> QED BY <1>2, <1>3, <1>6 DEF SameRows

LEMMA SnTypeInit == SnInit => SnTyped
<1> SUFFICES ASSUME SnInit PROVE SnTyped
  OBVIOUS
<1>1. snapRows \in Seq(Row)
  BY DEF SnInit
<1>2. snapRun \in [SnapRuns -> SnRun] /\ \A r \in SnapRuns : snapRun[r] = NoRun
  BY NoRunShaped DEF SnInit
<1>3. \A r \in SnapRuns : Shaped(snapRun[r]) /\ snapRun[r].todo \cup snapRun[r].gone \subseteq DOMAIN snapRows
  BY <1>2, NoRunShaped
<1>4. made \in 0..MaxSnaps /\ week \in 1..MaxWeek
  BY SnapshotsAssumption DEF SnInit
<1> QED BY <1>1, <1>2, <1>3, <1>4 DEF SnInit, SnTyped

LEMMA RunGoesOn ==
  ASSUME SnTyped, NEW r \in SnapRuns, RunStep(r)
  PROVE  \E c : RunsOn(r, c)
<1> DEFINE b == snapRun[r]
<1>1. b \in SnRun /\ Shaped(b) /\ b.todo \cup b.gone \subseteq DOMAIN snapRows /\ NoRun \in SnRun
  BY NoRunShaped DEF SnTyped
<1>2. b.pc = "idle" => b = NoRun
  BY <1>1 DEF Shaped
<1>0. /\ b.list \in SUBSET (1..MaxSnaps) /\ {} \in SUBSET (1..MaxSnaps)
      /\ b.name \in 0..MaxSnaps /\ b.tiers \in SUBSET Tiers /\ {} \in SUBSET Tiers
  BY <1>1 DEF SnRun
<1>3. ASSUME NEW j \in SnapJobs, StartSnapRun(r, j) \/ RunOwnerless(r, j) PROVE \E c : RunsOn(r, c)
  <2>1. PICK pc \in {"list", "paused"} : Become(r, [NoRun EXCEPT !.pc = pc, !.job = j])
    BY <1>3 DEF StartSnapRun, RunOwnerless
  <2> DEFINE c == [NoRun EXCEPT !.pc = pc, !.job = j]
  <2>2. c \in SnRun /\ c.pc = pc /\ c.job = j /\ c.name = NoRun.name /\ c.todo \cup c.gone = {}
    BY <1>1, NoRunShaped DEF SnRun, SnPcs
  <2> QED BY <2>1, <2>2, NoRunShaped DEF RunsOn, Shaped, Naming
<1>4. CASE FinishOwnerless(r) \/ FinishSnapRun(r)
  BY <1>4, NoRunShaped DEF FinishOwnerless, FinishSnapRun, RunsOn
<1>5. ASSUME NEW pc \in SnPcs, NEW list \in SUBSET (1..MaxSnaps), NEW name \in 0..MaxSnaps, NEW tiers \in SUBSET Tiers,
             pc # "idle", b.pc # "idle", name # 0 <=> pc \in Naming,
             Become(r, [b EXCEPT !.pc = pc, !.list = list, !.name = name, !.tiers = tiers])
      PROVE  \E c : RunsOn(r, c)
  <2> DEFINE c == [b EXCEPT !.pc = pc, !.list = list, !.name = name, !.tiers = tiers]
  <2>1. c \in SnRun /\ c.pc = pc /\ c.job = b.job /\ c.name = name /\ c.todo = b.todo /\ c.gone = b.gone
    BY <1>1 DEF SnRun
  <2>2. Shaped(c) /\ c.todo \cup c.gone \subseteq DOMAIN snapRows
    BY <1>1, <1>5, <2>1 DEF Shaped
  <2> QED BY <1>5, <2>1, <2>2 DEF RunsOn
<1>6. CASE ListSnapshots(r)
  <2>0. [b EXCEPT !.pc = "create"] = [b EXCEPT !.pc = "create", !.list = b.list]
    BY <1>1 DEF SnRun
  <2>1. PICK pc \in {"resync", "create"}, list \in {snaps, b.list} : Become(r, [b EXCEPT !.pc = pc, !.list = list])
    BY <1>6, <2>0 DEF ListSnapshots, Goto
  <2>2. b.pc = "list" /\ b.name = 0
    BY <1>1, <1>6 DEF ListSnapshots, At, Shaped, Naming
  <2>3. list \in SUBSET (1..MaxSnaps)
    <3>1. 1..made \subseteq 1..MaxSnaps
      BY SnapshotsAssumption DEF SnTyped
    <3> QED BY <1>0, <2>1, <3>1 DEF SnTyped
  <2>4. [b EXCEPT !.pc = pc, !.list = list]
          = [b EXCEPT !.pc = pc, !.list = list, !.name = b.name, !.tiers = b.tiers]
    BY <1>1 DEF SnRun
  <2>5. pc \in SnPcs /\ pc # "idle" /\ pc \notin Naming
    BY <2>1 DEF SnPcs, Naming
  <2>6. Become(r, [b EXCEPT !.pc = pc, !.list = list, !.name = b.name, !.tiers = b.tiers])
    BY <2>1, <2>4
  <2>7. b.pc # "idle" /\ (b.name # 0 <=> pc \in Naming)
    BY <2>2, <2>5
  <2> QED BY <1>0, <1>5, <2>3, <2>5, <2>6, <2>7
<1>7. CASE SyncExternalState(r)
  <2>1. Become(r, [b EXCEPT !.pc = "create", !.list = {}]) /\ b.pc = "resync" /\ b.name = 0
    BY <1>1, <1>7 DEF SyncExternalState, At, Shaped, Naming
  <2>2. [b EXCEPT !.pc = "create", !.list = {}]
          = [b EXCEPT !.pc = "create", !.list = {}, !.name = b.name, !.tiers = b.tiers]
    BY <1>1 DEF SnRun
  <2>5. "create" \in SnPcs /\ "create" \notin Naming
    BY DEF SnPcs, Naming
  <2>6. Become(r, [b EXCEPT !.pc = "create", !.list = {}, !.name = b.name, !.tiers = b.tiers])
    BY <2>1, <2>2
  <2>7. b.pc # "idle" /\ (b.name # 0 <=> "create" \in Naming)
    BY <2>1, <2>5
  <2> QED BY <1>0, <1>5, <2>5, <2>6, <2>7
<1>8. CASE CreateAccepted(r)
  <2>1. Become(r, [b EXCEPT !.pc = "tiers", !.name = made + 1]) /\ b.pc = "create" /\ made < MaxSnaps
    BY <1>8 DEF CreateAccepted, At
  <2>2. [b EXCEPT !.pc = "tiers", !.name = made + 1]
          = [b EXCEPT !.pc = "tiers", !.list = b.list, !.name = made + 1, !.tiers = b.tiers]
    BY <1>1 DEF SnRun
  <2>3. made + 1 \in 0..MaxSnaps /\ made + 1 # 0
    BY <2>1, SnapshotsAssumption DEF SnTyped
  <2>5. "tiers" \in SnPcs /\ "tiers" \in Naming
    BY DEF SnPcs, Naming
  <2> QED BY <1>0, <1>5, <2>1, <2>2, <2>3, <2>5
<1>9. CASE CreateRefused(r)
  <2>1. Become(r, [b EXCEPT !.pc = "rotate"]) /\ b.pc = "create" /\ b.name = 0
    BY <1>1, <1>9 DEF CreateRefused, Goto, At, Shaped, Naming
  <2>2. [b EXCEPT !.pc = "rotate"]
          = [b EXCEPT !.pc = "rotate", !.list = b.list, !.name = b.name, !.tiers = b.tiers]
    BY <1>1 DEF SnRun
  <2>5. "rotate" \in SnPcs /\ "rotate" \notin Naming
    BY DEF SnPcs, Naming
  <2> QED BY <1>0, <1>5, <2>1, <2>2, <2>5
<1>10. CASE ComputeGfsTiers(r)
  <2> DEFINE new == NewTiers(b.job)
  <2>1. Become(r, [b EXCEPT !.pc = "insert", !.tiers = new]) /\ b.pc = "tiers" /\ b.name # 0
    BY <1>1, <1>10 DEF ComputeGfsTiers, At, Shaped, Naming
  <2>2. new \in SUBSET Tiers
    BY DEF NewTiers
  <2> HIDE DEF new
  <2>3. [b EXCEPT !.pc = "insert", !.tiers = new]
          = [b EXCEPT !.pc = "insert", !.list = b.list, !.name = b.name, !.tiers = new]
    BY <1>1 DEF SnRun
  <2>5. "insert" \in SnPcs /\ "insert" \in Naming
    BY DEF SnPcs, Naming
  <2> QED BY <1>0, <1>5, <2>1, <2>2, <2>3, <2>5
<1>11. CASE InsertNativeSnapshot(r)
  <2>1. Become(r, [b EXCEPT !.pc = "rotate", !.name = 0, !.tiers = {}]) /\ b.pc = "insert"
    BY <1>11 DEF InsertNativeSnapshot, At
  <2>2. [b EXCEPT !.pc = "rotate", !.name = 0, !.tiers = {}]
          = [b EXCEPT !.pc = "rotate", !.list = b.list, !.name = 0, !.tiers = {}]
    BY <1>1 DEF SnRun
  <2>3. 0 \in 0..MaxSnaps
    BY SnapshotsAssumption
  <2>5. "rotate" \in SnPcs /\ "rotate" \notin Naming
    BY DEF SnPcs, Naming
  <2> QED BY <1>0, <1>5, <2>1, <2>2, <2>3, <2>5
<1>12. CASE ChooseRotated(r)
  <2> DEFINE I == Active(b.job)  todo == I \ KeepSet(I)  c == [b EXCEPT !.pc = "delete", !.todo = todo]
  <2>1. Become(r, c) /\ b.pc = "rotate" /\ todo \subseteq DOMAIN snapRows
    BY <1>12 DEF ChooseRotated, At, Active
  <2>2. DOMAIN snapRows \subseteq Nat
    BY LenProperties DEF SnTyped
  <2> HIDE DEF todo
  <2>3. c \in SnRun /\ c.pc = "delete" /\ c.job = b.job /\ c.name = b.name /\ c.todo = todo /\ c.gone = b.gone
    BY <1>1, <2>1, <2>2 DEF SnRun, SnPcs
  <2>4. Shaped(c) /\ c.todo \cup c.gone \subseteq DOMAIN snapRows
    BY <1>1, <2>1, <2>3 DEF Shaped, Naming
  <2> QED BY <2>1, <2>3, <2>4 DEF RunsOn
<1>13. CASE DeleteSnapshot(r)
  <2>1. PICK i \in Newest(b.todo, 1) :
          \E gone \in {b.gone, b.gone \cup {i}} : Become(r, [b EXCEPT !.todo = b.todo \ {i}, !.gone = gone])
    <3>1. PICK i \in Newest(b.todo, 1) :
            \/ Become(r, [b EXCEPT !.todo = b.todo \ {i}, !.gone = b.gone \cup {i}])
            \/ Become(r, [b EXCEPT !.todo = b.todo \ {i}])
      BY <1>13 DEF DeleteSnapshot
    <3>2. [b EXCEPT !.todo = b.todo \ {i}] = [b EXCEPT !.todo = b.todo \ {i}, !.gone = b.gone]
      BY <1>1 DEF SnRun
    <3> QED BY <3>1, <3>2
  <2>0. PICK gone \in {b.gone, b.gone \cup {i}} : Become(r, [b EXCEPT !.todo = b.todo \ {i}, !.gone = gone])
    BY <2>1
  <2> DEFINE c == [b EXCEPT !.todo = b.todo \ {i}, !.gone = gone]
  <2>2. i \in b.todo
    BY DEF Newest
  <2>3. b.todo \subseteq Nat /\ b.gone \subseteq Nat
    BY <1>1 DEF SnRun
  <2>4. c \in SnRun /\ c.pc = b.pc /\ c.job = b.job /\ c.name = b.name /\ c.todo = b.todo \ {i} /\ c.gone = gone
    BY <1>1, <2>2, <2>3 DEF SnRun
  <2>5. b.pc = "delete"
    BY <1>13 DEF DeleteSnapshot, At
  <2>6. Shaped(c) /\ c.todo \cup c.gone \subseteq DOMAIN snapRows
    BY <1>1, <2>2, <2>4, <2>5 DEF Shaped, Naming
  <2> QED BY <2>0, <2>4, <2>6 DEF RunsOn
<1> QED BY <1>3, <1>4, <1>6, <1>7, <1>8, <1>9, <1>10, <1>11, <1>12, <1>13 DEF RunStep

\* Everything else that happens.
SnOther ==
  \/ \E j \in SnapJobs : SkipSnapRun(j)
  \/ \E n \in 1..MaxSnaps : TaskEnds(n) \/ DeletionEnds(n) \/ OutsiderDeletes(n)
  \/ VmDeleted \/ NextWeek \/ SnapRestart
  \/ CreatorDeleted \/ CreatorLocked \/ SnapNodeDeleted

LEMMA SnSteps == ASSUME SnNext PROVE SnOther \/ \E r \in SnapRuns : RunStep(r)
BY DEF SnNext, SnOther

LEMMA SnConstant == ASSUME SnNext PROVE snDeployment' = snDeployment
<1>1. ASSUME SnOther PROVE snDeployment' = snDeployment
  BY <1>1 DEF SnOther, SkipSnapRun, TaskEnds, DeletionEnds, OutsiderDeletes, VmDeleted, NextWeek, SnapRestart, CreatorDeleted,
     CreatorLocked, SnapNodeDeleted
<1>2. ASSUME NEW r \in SnapRuns, RunStep(r) PROVE snDeployment' = snDeployment
  BY <1>2 DEF RunStep, StartSnapRun, RunOwnerless, FinishOwnerless, ListSnapshots, SyncExternalState, CreateAccepted,
     CreateRefused, ComputeGfsTiers, InsertNativeSnapshot, ChooseRotated, DeleteSnapshot, FinishSnapRun
<1> QED BY <1>1, <1>2, SnSteps

\* A deletion begins where a run asks for it, and ends in Proxmox.
LEMMA DeletionSteps ==
  ASSUME SnTyped, SnNext
  PROVE  /\ \A n \in deletions' \ deletions :
              \E r \in SnapRuns : \E i \in snapRun[r].todo : snapRows[i].name = n
         /\ \A n \in deletions \ deletions' : DeletionEnds(n)
<1>1. CASE SnOther
  <2>1. ASSUME NEW m \in 1..MaxSnaps, DeletionEnds(m) PROVE deletions' = deletions \ {m}
    BY <2>1 DEF DeletionEnds
  <2>2. CASE ~\E m \in 1..MaxSnaps : DeletionEnds(m)
    BY <1>1, <2>2 DEF SnOther, SkipSnapRun, TaskEnds, OutsiderDeletes, VmDeleted, NextWeek, SnapRestart,
       CreatorDeleted, CreatorLocked, SnapNodeDeleted
  <2> QED BY <2>1, <2>2
<1>2. ASSUME NEW r \in SnapRuns, RunStep(r)
      PROVE  /\ \A n \in deletions' \ deletions : \E i \in snapRun[r].todo : snapRows[i].name = n
             /\ deletions \subseteq deletions'
  <2>1. CASE DeleteSnapshot(r)
    BY <2>1 DEF DeleteSnapshot, Newest
  <2>2. CASE ~DeleteSnapshot(r)
    BY <1>2, <2>2 DEF RunStep, StartSnapRun, RunOwnerless, FinishOwnerless, ListSnapshots, SyncExternalState,
       CreateAccepted, CreateRefused, ComputeGfsTiers, InsertNativeSnapshot, ChooseRotated, FinishSnapRun
  <2> QED BY <2>1, <2>2
<1> QED BY <1>1, <1>2, SnSteps

\* The row of a new snapshot comes last.
LEMMA Inserted ==
  ASSUME SnTyped, NEW r \in SnapRuns, InsertNativeSnapshot(r)
  PROVE  LET row == [job |-> snapRun[r].job, name |-> snapRun[r].name, tiers |-> snapRun[r].tiers,
                     week |-> week, status |-> "active"]
             n == Len(snapRows) + 1
         IN  /\ row \in Row /\ snapRows' = Append(snapRows, row) /\ snapRows' \in Seq(Row)
             /\ n \in Nat /\ DOMAIN snapRows' = DOMAIN snapRows \cup {n} /\ \A i \in DOMAIN snapRows : i < n
             /\ \A i \in DOMAIN snapRows : snapRows'[i] = snapRows[i]
             /\ snapRows'[n] = row
<1> DEFINE row == [job |-> snapRun[r].job, name |-> snapRun[r].name, tiers |-> snapRun[r].tiers,
                   week |-> week, status |-> "active"]
           n == Len(snapRows) + 1
<1>1. snapRun[r] \in SnRun /\ Shaped(snapRun[r]) /\ snapRun[r].pc = "insert"
  BY DEF SnTyped, InsertNativeSnapshot, At
<1>2. snapRun[r].job \in SnapJobs /\ snapRun[r].name \in 1..MaxSnaps /\ snapRun[r].tiers \in SUBSET Tiers
  BY <1>1, SnapshotsAssumption DEF SnRun, Shaped, Naming
<1>3. week \in 1..MaxWeek /\ snapRows \in Seq(Row)
  BY DEF SnTyped
<1>4. row \in Row
  BY <1>2, <1>3 DEF Row
<1>5. snapRows' = Append(snapRows, row)
  BY DEF InsertNativeSnapshot
<1> HIDE DEF row
<1>6. Len(snapRows) \in Nat /\ DOMAIN snapRows = 1..Len(snapRows)
  BY <1>3, LenProperties
<1>7. /\ snapRows' \in Seq(Row) /\ Len(snapRows') = Len(snapRows) + 1
      /\ \A i \in 1..Len(snapRows) : snapRows'[i] = snapRows[i]
      /\ snapRows'[Len(snapRows) + 1] = row
  BY <1>3, <1>4, <1>5, AppendProperties
<1>8. DOMAIN snapRows' = 1..(Len(snapRows) + 1)
  BY <1>7, LenProperties
<1>9. DOMAIN snapRows' = DOMAIN snapRows \cup {n}
  BY <1>6, <1>8
<1> QED BY <1>4, <1>5, <1>6, <1>7, <1>9 DEF row

LEMMA RowSteps ==
  ASSUME SnTyped, SnNext
  PROVE  SameRows \/ \E r \in SnapRuns : InsertNativeSnapshot(r)
<1>1. ASSUME snapRows' = snapRows PROVE SameRows
  BY <1>1 DEF SameRows, SnTyped
<1>2. CASE SnOther
  <2>1. CASE VmDeleted
    BY <2>1, Marked DEF VmDeleted
  <2>2. CASE ~VmDeleted
    BY <1>1, <1>2, <2>2 DEF SnOther, SkipSnapRun, TaskEnds, DeletionEnds, OutsiderDeletes, NextWeek, SnapRestart, CreatorDeleted,
     CreatorLocked, SnapNodeDeleted
  <2> QED BY <2>1, <2>2
<1>3. ASSUME NEW r \in SnapRuns, RunStep(r) PROVE SameRows \/ InsertNativeSnapshot(r)
  <2>1. CASE SyncExternalState(r)
    BY <2>1, Marked DEF SyncExternalState
  <2>2. CASE FinishSnapRun(r)
    BY <2>2, Marked DEF FinishSnapRun
  <2>3. CASE ~SyncExternalState(r) /\ ~FinishSnapRun(r)
    BY <1>1, <1>3, <2>3 DEF RunStep, StartSnapRun, RunOwnerless, FinishOwnerless, ListSnapshots, CreateAccepted,
     CreateRefused, ComputeGfsTiers, ChooseRotated, DeleteSnapshot
  <2> QED BY <2>1, <2>2, <2>3
<1> QED BY <1>2, <1>3, SnSteps

LEMMA SnTypeStep == SnTyped /\ [SnNext]_snVars => SnTyped'
<1> SUFFICES ASSUME SnTyped, [SnNext]_snVars PROVE SnTyped'
  OBVIOUS
<1>1. CASE UNCHANGED snVars
  BY <1>1 DEF snVars, SnTyped, Shaped
<1>2. CASE SnNext
  <2>1. snDeployment' \in SnapDeployments
    BY <1>2, SnConstant DEF SnTyped
  <2>2. snapRows' \in Seq(Row) /\ DOMAIN snapRows \subseteq DOMAIN snapRows'
    <3>1. CASE SameRows
      BY <3>1 DEF SameRows
    <3>2. ASSUME NEW r \in SnapRuns, InsertNativeSnapshot(r)
          PROVE  snapRows' \in Seq(Row) /\ DOMAIN snapRows \subseteq DOMAIN snapRows'
      BY <3>2, Inserted
    <3> QED BY <1>2, <3>1, <3>2, RowSteps
  <2>3. /\ snapRun' \in [SnapRuns -> SnRun]
        /\ \A q \in SnapRuns : Shaped(snapRun'[q])
                               /\ snapRun'[q].todo \cup snapRun'[q].gone \subseteq DOMAIN snapRows
    <3>1. CASE SnapRestart
      BY <3>1, NoRunShaped DEF SnapRestart
    <3>2. CASE SnOther /\ ~SnapRestart
      <4>1. snapRun' = snapRun
        BY <3>2 DEF SnOther, SkipSnapRun, TaskEnds, DeletionEnds, OutsiderDeletes, VmDeleted, NextWeek, CreatorDeleted,
     CreatorLocked, SnapNodeDeleted
      <4> QED BY <4>1 DEF SnTyped
    <3>3. ASSUME NEW r \in SnapRuns, RunStep(r) 
          PROVE  /\ snapRun' \in [SnapRuns -> SnRun]
                 /\ \A q \in SnapRuns : Shaped(snapRun'[q])
                               /\ snapRun'[q].todo \cup snapRun'[q].gone \subseteq DOMAIN snapRows
      <4>1. PICK c : RunsOn(r, c)
        BY <3>3, RunGoesOn
      <4> QED BY <4>1, RunTyped
    <3> QED BY <1>2, <3>1, <3>2, <3>3, SnSteps
  <2>4. /\ snaps' \subseteq 1..made'
        /\ tasks' \subseteq snaps'
        /\ made' \in 0..MaxSnaps
    <3>1. CASE SnOther
      BY <3>1 DEF SnOther, SkipSnapRun, TaskEnds, DeletionEnds, OutsiderDeletes, VmDeleted, NextWeek, SnapRestart, CreatorDeleted,
         CreatorLocked, SnapNodeDeleted, SnTyped
    <3>2. ASSUME NEW r \in SnapRuns, RunStep(r) 
          PROVE  snaps' \subseteq 1..made' /\ tasks' \subseteq snaps' /\ made' \in 0..MaxSnaps
      <4>1. CASE CreateAccepted(r)
        <5>1. made + 1 \in 0..MaxSnaps /\ made' = made + 1
          BY <4>1, SnapshotsAssumption DEF CreateAccepted, SnTyped
        <5>2. 1..made \cup {made + 1} \subseteq 1..(made + 1)
          BY DEF SnTyped
        <5> QED BY <4>1, <5>1, <5>2 DEF CreateAccepted, SnTyped
      <4>2. CASE DeleteSnapshot(r)
        BY <4>2 DEF DeleteSnapshot, SnTyped
      <4>3. CASE ~CreateAccepted(r) /\ ~DeleteSnapshot(r)
        BY <3>2, <4>3 DEF RunStep, StartSnapRun, RunOwnerless, FinishOwnerless, ListSnapshots, SyncExternalState,
           CreateRefused, ComputeGfsTiers, InsertNativeSnapshot, ChooseRotated, FinishSnapRun, SnTyped
      <4> QED BY <4>1, <4>2, <4>3
    <3> QED BY <1>2, <3>1, <3>2, SnSteps
  <2>5. week' \in 1..MaxWeek /\ creator' \in {"here", "locked", "gone"}
    <3>1. CASE SnOther
      BY <3>1, SnapshotsAssumption DEF SnOther, SkipSnapRun, TaskEnds, DeletionEnds, OutsiderDeletes, VmDeleted, NextWeek, SnapRestart,
         CreatorDeleted, CreatorLocked, SnapNodeDeleted, SnTyped
    <3>2. ASSUME NEW r \in SnapRuns, RunStep(r) PROVE week' = week /\ creator' = creator
      BY <3>2 DEF RunStep, StartSnapRun, RunOwnerless, FinishOwnerless, ListSnapshots, SyncExternalState, CreateAccepted,
     CreateRefused, ComputeGfsTiers, InsertNativeSnapshot, ChooseRotated, DeleteSnapshot, FinishSnapRun
    <3> QED BY <1>2, <3>1, <3>2, SnSteps DEF SnTyped
  <2>6. \A q \in SnapRuns : Shaped(snapRun'[q])
                            /\ snapRun'[q].todo \cup snapRun'[q].gone \subseteq DOMAIN snapRows'
    BY <2>2, <2>3
  <2>7. deletions' \subseteq 1..MaxSnaps
    <3>1. \A r \in SnapRuns : \A i \in snapRun[r].todo : snapRows[i].name \in 1..MaxSnaps
      <4>1. \A i \in DOMAIN snapRows : snapRows[i] \in Row
        BY DEF SnTyped
      <4> QED BY <4>1 DEF SnTyped, Row
    <3>2. deletions' \ deletions \subseteq 1..MaxSnaps
      BY <1>2, <3>1, DeletionSteps
    <3> QED BY <3>2 DEF SnTyped
  <2> QED BY <2>1, <2>2, <2>3, <2>4, <2>5, <2>6, <2>7 DEF SnTyped, Shaped
<1> QED BY <1>1, <1>2
-----------------------------------------------------------------------------
\* What a run has in hand after each of its steps.
InHand(pc, job, list, name, tiers, todo, gone) ==
  [pc |-> pc, job |-> job, list |-> list, name |-> name, tiers |-> tiers, todo |-> todo, gone |-> gone]

LEMMA InHandHas ==
  ASSUME NEW pc, NEW job, NEW list, NEW name, NEW tiers, NEW todo, NEW gone
  PROVE  LET c == InHand(pc, job, list, name, tiers, todo, gone)
         IN  /\ c.pc = pc /\ c.job = job /\ c.list = list /\ c.name = name
             /\ c.tiers = tiers /\ c.todo = todo /\ c.gone = gone
BY DEF InHand

LEMMA RunForms ==
  ASSUME SnTyped, NEW r \in SnapRuns
  PROVE  LET b == snapRun[r]
             c == snapRun'[r]
             I == Active(b.job)
         IN  /\ \A j \in SnapJobs : StartSnapRun(r, j) => c = InHand("list", j, {}, 0, {}, {}, {})
             /\ \A j \in SnapJobs : RunOwnerless(r, j) => c = InHand("paused", j, {}, 0, {}, {}, {})
             /\ FinishOwnerless(r) \/ FinishSnapRun(r) => c = NoRun
             /\ ListSnapshots(r) => \/ c = InHand("resync", b.job, snaps, b.name, b.tiers, b.todo, b.gone)
                                    \/ c = InHand("create", b.job, b.list, b.name, b.tiers, b.todo, b.gone)
             /\ SyncExternalState(r) => c = InHand("create", b.job, {}, b.name, b.tiers, b.todo, b.gone)
             /\ CreateAccepted(r) => c = InHand("tiers", b.job, b.list, made + 1, b.tiers, b.todo, b.gone)
             /\ CreateRefused(r) => c = InHand("rotate", b.job, b.list, b.name, b.tiers, b.todo, b.gone)
             /\ ComputeGfsTiers(r) => c = InHand("insert", b.job, b.list, b.name, NewTiers(b.job), b.todo, b.gone)
             /\ InsertNativeSnapshot(r) => c = InHand("rotate", b.job, b.list, 0, {}, b.todo, b.gone)
             /\ ChooseRotated(r) => c = InHand("delete", b.job, b.list, b.name, b.tiers, I \ KeepSet(I), b.gone)
             /\ DeleteSnapshot(r) =>
                  \E i \in b.todo :
                    \/ /\ c = InHand(b.pc, b.job, b.list, b.name, b.tiers, b.todo \ {i}, b.gone \cup {i})
                       /\ snapRows[i].name \in deletions'
                    \/ c = InHand(b.pc, b.job, b.list, b.name, b.tiers, b.todo \ {i}, b.gone)
<1> DEFINE b == snapRun[r]  c == snapRun'[r]  I == Active(b.job)
<1>1. b \in SnRun
  BY DEF SnTyped
<1>2. ASSUME NEW d, Become(r, d) PROVE c = d
  BY <1>2 DEF Become, SnTyped
<1>3. NoRun = InHand("idle", None, {}, 0, {}, {}, {})
  BY DEF NoRun, InHand
<1>4. ASSUME NEW j \in SnapJobs, StartSnapRun(r, j) PROVE c = InHand("list", j, {}, 0, {}, {}, {})
  <2>1. c = [NoRun EXCEPT !.pc = "list", !.job = j]
    BY <1>2, <1>4 DEF StartSnapRun
  <2> QED BY <1>3, <2>1 DEF InHand
<1>5. ASSUME NEW j \in SnapJobs, RunOwnerless(r, j) PROVE c = InHand("paused", j, {}, 0, {}, {}, {})
  <2>1. c = [NoRun EXCEPT !.pc = "paused", !.job = j]
    BY <1>2, <1>5 DEF RunOwnerless
  <2> QED BY <1>3, <2>1 DEF InHand
<1>6. FinishOwnerless(r) \/ FinishSnapRun(r) => c = NoRun
  BY <1>2 DEF FinishOwnerless, FinishSnapRun
<1>7. ASSUME ListSnapshots(r)
      PROVE  \/ c = InHand("resync", b.job, snaps, b.name, b.tiers, b.todo, b.gone)
             \/ c = InHand("create", b.job, b.list, b.name, b.tiers, b.todo, b.gone)
  <2>1. c = [b EXCEPT !.pc = "resync", !.list = snaps] \/ c = [b EXCEPT !.pc = "create"]
    BY <1>2, <1>7 DEF ListSnapshots, Goto
  <2> QED BY <1>1, <2>1 DEF InHand, SnRun
<1>8. ASSUME SyncExternalState(r) PROVE c = InHand("create", b.job, {}, b.name, b.tiers, b.todo, b.gone)
  <2>1. c = [b EXCEPT !.pc = "create", !.list = {}]
    BY <1>2, <1>8 DEF SyncExternalState
  <2> QED BY <1>1, <2>1 DEF InHand, SnRun
<1>9. ASSUME CreateAccepted(r) PROVE c = InHand("tiers", b.job, b.list, made + 1, b.tiers, b.todo, b.gone)
  <2>1. c = [b EXCEPT !.pc = "tiers", !.name = made + 1]
    BY <1>2, <1>9 DEF CreateAccepted
  <2> QED BY <1>1, <2>1 DEF InHand, SnRun
<1>10. ASSUME CreateRefused(r) PROVE c = InHand("rotate", b.job, b.list, b.name, b.tiers, b.todo, b.gone)
  <2>1. c = [b EXCEPT !.pc = "rotate"]
    BY <1>2, <1>10 DEF CreateRefused, Goto
  <2> QED BY <1>1, <2>1 DEF InHand, SnRun
<1>11. ASSUME ComputeGfsTiers(r)
       PROVE  c = InHand("insert", b.job, b.list, b.name, NewTiers(b.job), b.todo, b.gone)
  <2> DEFINE new == NewTiers(b.job)
  <2>1. c = [b EXCEPT !.pc = "insert", !.tiers = new]
    BY <1>2, <1>11 DEF ComputeGfsTiers
  <2> HIDE DEF new
  <2>2. c = InHand("insert", b.job, b.list, b.name, new, b.todo, b.gone)
    BY <1>1, <2>1 DEF InHand, SnRun
  <2> QED BY <2>2 DEF new
<1>12. ASSUME InsertNativeSnapshot(r) PROVE c = InHand("rotate", b.job, b.list, 0, {}, b.todo, b.gone)
  <2>1. c = [b EXCEPT !.pc = "rotate", !.name = 0, !.tiers = {}]
    BY <1>2, <1>12 DEF InsertNativeSnapshot
  <2> QED BY <1>1, <2>1 DEF InHand, SnRun
<1>13. ASSUME ChooseRotated(r)
       PROVE  c = InHand("delete", b.job, b.list, b.name, b.tiers, I \ KeepSet(I), b.gone)
  <2> DEFINE todo == I \ KeepSet(I)
  <2>1. c = [b EXCEPT !.pc = "delete", !.todo = todo]
    BY <1>2, <1>13 DEF ChooseRotated
  <2> HIDE DEF todo
  <2>2. c = InHand("delete", b.job, b.list, b.name, b.tiers, todo, b.gone)
    BY <1>1, <2>1 DEF InHand, SnRun
  <2> QED BY <2>2 DEF todo
<1>14. ASSUME DeleteSnapshot(r)
       PROVE  \E i \in b.todo :
                \/ /\ c = InHand(b.pc, b.job, b.list, b.name, b.tiers, b.todo \ {i}, b.gone \cup {i})
                   /\ snapRows[i].name \in deletions'
                \/ c = InHand(b.pc, b.job, b.list, b.name, b.tiers, b.todo \ {i}, b.gone)
  <2>1. PICK i \in Newest(b.todo, 1) :
          \/ /\ Become(r, [b EXCEPT !.todo = b.todo \ {i}, !.gone = b.gone \cup {i}])
             /\ snapRows[i].name \in deletions'
          \/ Become(r, [b EXCEPT !.todo = b.todo \ {i}])
    BY <1>14 DEF DeleteSnapshot
  <2>2. i \in b.todo
    BY DEF Newest
  <2>3. [b EXCEPT !.todo = b.todo \ {i}, !.gone = b.gone \cup {i}]
          = InHand(b.pc, b.job, b.list, b.name, b.tiers, b.todo \ {i}, b.gone \cup {i})
    <3> DEFINE d == [b EXCEPT !.todo = b.todo \ {i}, !.gone = b.gone \cup {i}]
    <3>1. b.todo \subseteq Nat /\ b.gone \subseteq Nat /\ i \in Nat
      BY <1>1, <2>2 DEF SnRun
    <3>2. /\ d \in SnRun /\ d.pc = b.pc /\ d.job = b.job /\ d.list = b.list /\ d.name = b.name
          /\ d.tiers = b.tiers /\ d.todo = b.todo \ {i} /\ d.gone = b.gone \cup {i}
      BY <1>1, <3>1 DEF SnRun
    <3> HIDE DEF d
    <3>3. d = InHand(b.pc, b.job, b.list, b.name, b.tiers, b.todo \ {i}, b.gone \cup {i})
      BY <3>2 DEF SnRun, InHand
    <3> QED BY <3>3 DEF d
  <2>4. [b EXCEPT !.todo = b.todo \ {i}] = InHand(b.pc, b.job, b.list, b.name, b.tiers, b.todo \ {i}, b.gone)
    BY <1>1 DEF InHand, SnRun
  <2>5. CASE /\ Become(r, [b EXCEPT !.todo = b.todo \ {i}, !.gone = b.gone \cup {i}])
             /\ snapRows[i].name \in deletions'
    <3>1. c = [b EXCEPT !.todo = b.todo \ {i}, !.gone = b.gone \cup {i}]
      BY <1>2, <2>5
    <3>2. c = InHand(b.pc, b.job, b.list, b.name, b.tiers, b.todo \ {i}, b.gone \cup {i})
      BY <2>3, <3>1
    <3> QED BY <2>2, <2>5, <3>2
  <2>6. CASE Become(r, [b EXCEPT !.todo = b.todo \ {i}])
    <3>1. c = [b EXCEPT !.todo = b.todo \ {i}]
      BY <1>2, <2>6
    <3> QED BY <2>2, <2>4, <2>6, <3>1
  <2> QED BY <2>1, <2>5, <2>6
<1> HIDE DEF b, c, I
<1>15. /\ \A j \in SnapJobs : StartSnapRun(r, j) => c = InHand("list", j, {}, 0, {}, {}, {})
       /\ \A j \in SnapJobs : RunOwnerless(r, j) => c = InHand("paused", j, {}, 0, {}, {}, {})
  BY <1>4, <1>5
<1> QED BY <1>6, <1>7, <1>8, <1>9, <1>10, <1>11, <1>12, <1>13, <1>14, <1>15 DEF b, c, I

\* Steps that neither begin nor end a run, nor make a snapshot or write it down.
LEMMA RunKeeps ==
  ASSUME SnTyped, NEW r \in SnapRuns,
         \/ ListSnapshots(r) \/ SyncExternalState(r) \/ CreateRefused(r) \/ ComputeGfsTiers(r)
         \/ ChooseRotated(r) \/ DeleteSnapshot(r)
  PROVE  LET b == snapRun[r]
             c == snapRun'[r]
         IN  /\ c.job = b.job /\ c.name = b.name
             /\ ~ComputeGfsTiers(r) => c.tiers = b.tiers
             /\ ~ChooseRotated(r) => c.todo \subseteq b.todo
             /\ ~DeleteSnapshot(r) => c.gone = b.gone
             /\ ListSnapshots(r) => c.pc = "create" \/ (c.pc = "resync" /\ c.list = snaps)
             /\ SyncExternalState(r) => c.pc = "create"
             /\ CreateRefused(r) => c.pc = "rotate"
             /\ ComputeGfsTiers(r) => c.pc = "insert" /\ c.tiers = NewTiers(b.job)
             /\ ChooseRotated(r) => c.pc = "delete" /\ c.todo = Active(b.job) \ KeepSet(Active(b.job))
             /\ DeleteSnapshot(r) => c.pc = "delete" /\ b.pc = "delete"
<1> DEFINE b == snapRun[r]  c == snapRun'[r]  K == Active(b.job) \ KeepSet(Active(b.job))  T == NewTiers(b.job)
<1> DEFINE P == /\ c.job = b.job /\ c.name = b.name
                /\ ~ComputeGfsTiers(r) => c.tiers = b.tiers
                /\ ~ChooseRotated(r) => c.todo \subseteq b.todo
                /\ ~DeleteSnapshot(r) => c.gone = b.gone
                /\ ListSnapshots(r) => c.pc = "create" \/ (c.pc = "resync" /\ c.list = snaps)
                /\ SyncExternalState(r) => c.pc = "create"
                /\ CreateRefused(r) => c.pc = "rotate"
                /\ ComputeGfsTiers(r) => c.pc = "insert" /\ c.tiers = T
                /\ ChooseRotated(r) => c.pc = "delete" /\ c.todo = K
                /\ DeleteSnapshot(r) => c.pc = "delete" /\ b.pc = "delete"
<1>0. /\ ListSnapshots(r) => b.pc = "list"
      /\ SyncExternalState(r) => b.pc = "resync"
      /\ CreateRefused(r) => b.pc = "create"
      /\ ComputeGfsTiers(r) => b.pc = "tiers"
      /\ ChooseRotated(r) => b.pc = "rotate"
      /\ DeleteSnapshot(r) => b.pc = "delete"
  BY DEF At, ListSnapshots, SyncExternalState, CreateRefused, ComputeGfsTiers, ChooseRotated, DeleteSnapshot
<1>1. ASSUME ListSnapshots(r) PROVE P
  <2>1. \/ c = InHand("resync", b.job, snaps, b.name, b.tiers, b.todo, b.gone)
        \/ c = InHand("create", b.job, b.list, b.name, b.tiers, b.todo, b.gone)
    BY <1>1, RunForms
  <2> HIDE DEF b, c, K, T
  <2> QED BY <1>0, <1>1, <2>1, InHandHas
<1>2. ASSUME SyncExternalState(r) PROVE P
  <2>1. c = InHand("create", b.job, {}, b.name, b.tiers, b.todo, b.gone)
    BY <1>2, RunForms
  <2> HIDE DEF b, c, K, T
  <2> QED BY <1>0, <1>2, <2>1, InHandHas
<1>3. ASSUME CreateRefused(r) PROVE P
  <2>1. c = InHand("rotate", b.job, b.list, b.name, b.tiers, b.todo, b.gone)
    BY <1>3, RunForms
  <2> HIDE DEF b, c, K, T
  <2> QED BY <1>0, <1>3, <2>1, InHandHas
<1>4. ASSUME ComputeGfsTiers(r) PROVE P
  <2>1. c = InHand("insert", b.job, b.list, b.name, T, b.todo, b.gone)
    BY <1>4, RunForms
  <2> HIDE DEF b, c, K, T
  <2> QED BY <1>0, <1>4, <2>1, InHandHas
<1>5. ASSUME ChooseRotated(r) PROVE P
  <2>1. c = InHand("delete", b.job, b.list, b.name, b.tiers, K, b.gone)
    BY <1>5, RunForms
  <2> HIDE DEF b, c, K, T
  <2> QED BY <1>0, <1>5, <2>1, InHandHas
<1>6. ASSUME DeleteSnapshot(r) PROVE P
  <2>1. \E i \in b.todo :
          \/ c = InHand(b.pc, b.job, b.list, b.name, b.tiers, b.todo \ {i}, b.gone \cup {i})
          \/ c = InHand(b.pc, b.job, b.list, b.name, b.tiers, b.todo \ {i}, b.gone)
    BY <1>6, RunForms
  <2> HIDE DEF b, c, K, T
  <2> QED BY <1>0, <1>6, <2>1, InHandHas
<1>7. P
  BY <1>1, <1>2, <1>3, <1>4, <1>5, <1>6
<1> QED BY <1>7

\* What no other step than a new snapshot changes.
LEMMA OldNames ==
  ASSUME SnTyped, SnNext, ~\E r \in SnapRuns : CreateAccepted(r)
  PROVE  made' = made /\ snaps' \subseteq snaps /\ \A q \in SnapRuns : snapRun'[q].name \in {snapRun[q].name, 0}
<1>1. CASE SnOther
  <2>1. made' = made /\ snaps' \subseteq snaps
    BY <1>1 DEF SnOther, SkipSnapRun, TaskEnds, DeletionEnds, OutsiderDeletes, VmDeleted, NextWeek, SnapRestart, CreatorDeleted,
       CreatorLocked, SnapNodeDeleted
  <2>2. CASE SnapRestart
    BY <2>1, <2>2, NoRunShaped DEF SnapRestart
  <2>3. CASE ~SnapRestart
    BY <1>1, <2>1, <2>3 DEF SnOther, SkipSnapRun, TaskEnds, DeletionEnds, OutsiderDeletes, VmDeleted, NextWeek, CreatorDeleted,
       CreatorLocked, SnapNodeDeleted
  <2> QED BY <2>2, <2>3
<1>2. ASSUME NEW r \in SnapRuns, RunStep(r)
      PROVE  made' = made /\ snaps' \subseteq snaps /\ \A q \in SnapRuns : snapRun'[q].name \in {snapRun[q].name, 0}
  <2>1. ~CreateAccepted(r)
    OBVIOUS
  <2>2. made' = made /\ snaps' \subseteq snaps
    BY <1>2, <2>1 DEF RunStep, StartSnapRun, RunOwnerless, FinishOwnerless, ListSnapshots, SyncExternalState,
       CreateRefused, ComputeGfsTiers, InsertNativeSnapshot, ChooseRotated, DeleteSnapshot, FinishSnapRun
  <2>3. \A q \in SnapRuns : q # r => snapRun'[q] = snapRun[q]
    <3>1. PICK c : RunsOn(r, c)
      BY <1>2, RunGoesOn
    <3> QED BY <3>1, RunTyped
  <2>4. snapRun'[r].name \in {snapRun[r].name, 0}
    <3>1. ASSUME NEW j \in SnapJobs, StartSnapRun(r, j) \/ RunOwnerless(r, j) PROVE snapRun'[r].name = 0
      <4>1. \E pc : snapRun'[r] = InHand(pc, j, {}, 0, {}, {}, {})
        BY <3>1, RunForms
      <4> QED BY <4>1, InHandHas
    <3>2. CASE FinishOwnerless(r) \/ FinishSnapRun(r)
      <4>1. snapRun'[r] = NoRun
        BY <3>2, RunForms
      <4> QED BY <4>1, NoRunShaped
    <3>3. CASE InsertNativeSnapshot(r)
      <4>1. snapRun'[r] = InHand("rotate", snapRun[r].job, snapRun[r].list, 0, {}, snapRun[r].todo, snapRun[r].gone)
        BY <3>3, RunForms
      <4> QED BY <4>1, InHandHas
    <3>4. CASE ListSnapshots(r) \/ SyncExternalState(r) \/ CreateRefused(r) \/ ComputeGfsTiers(r) \/ ChooseRotated(r)
               \/ DeleteSnapshot(r)
      BY <3>4, RunKeeps
    <3> QED BY <1>2, <2>1, <3>1, <3>2, <3>3, <3>4 DEF RunStep
  <2> QED BY <2>2, <2>3, <2>4
<1> QED BY <1>1, <1>2, SnSteps

LEMMA NewName ==
  ASSUME SnTyped, NEW r \in SnapRuns, CreateAccepted(r)
  PROVE  /\ made' = made + 1 /\ snaps' = snaps \cup {made + 1} /\ snapRows' = snapRows /\ week' = week
         /\ deletions' = deletions
         /\ snapRun'[r] = InHand("tiers", snapRun[r].job, snapRun[r].list, made + 1, snapRun[r].tiers,
                                 snapRun[r].todo, snapRun[r].gone)
         /\ snapRun'[r].name = made + 1 /\ snapRun[r].pc = "create"
         /\ \A q \in SnapRuns : q # r => snapRun'[q] = snapRun[q]
<1>1. PICK c : RunsOn(r, c)
  BY RunGoesOn DEF RunStep
<1>2. snapRun'[r] = InHand("tiers", snapRun[r].job, snapRun[r].list, made + 1, snapRun[r].tiers,
                           snapRun[r].todo, snapRun[r].gone)
  BY RunForms
<1> QED BY <1>1, <1>2, RunTyped DEF CreateAccepted, At, InHand

LEMMA NoTimeBack == ASSUME SnTyped, SnNext PROVE week <= week' /\ (week' # week => NextWeek)
<1>1. week \in Nat
  BY SnapshotsAssumption DEF SnTyped
<1>2. CASE SnOther
  BY <1>1, <1>2 DEF SnOther, SkipSnapRun, TaskEnds, DeletionEnds, OutsiderDeletes, VmDeleted, NextWeek, SnapRestart, CreatorDeleted,
     CreatorLocked, SnapNodeDeleted
<1>3. ASSUME NEW r \in SnapRuns, RunStep(r) PROVE week' = week
  BY <1>3 DEF RunStep, StartSnapRun, RunOwnerless, FinishOwnerless, ListSnapshots, SyncExternalState, CreateAccepted,
     CreateRefused, ComputeGfsTiers, InsertNativeSnapshot, ChooseRotated, DeleteSnapshot, FinishSnapRun
<1> QED BY <1>1, <1>2, <1>3, SnSteps

LEMMA NamedStep == ASSUME SnTyped, Named, SnNext PROVE Named'
<1>1. made \in Nat /\ week \in Nat /\ \A q \in SnapRuns : snapRun[q].name \in Nat
  BY SnapshotsAssumption DEF SnTyped, SnRun
<1>2. \A i \in DOMAIN snapRows : snapRows[i].name \in Nat \ {0} /\ snapRows[i].week \in Nat
  <2>1. \A i \in DOMAIN snapRows : snapRows[i] \in Row
    BY DEF SnTyped
  <2> QED BY <2>1, SnapshotsAssumption DEF Row
<1>3. week <= week'
  BY NoTimeBack
<1>4. CASE \E r \in SnapRuns : CreateAccepted(r)
  <2>1. PICK r \in SnapRuns : CreateAccepted(r)
    BY <1>4
  <2>2. /\ made' = made + 1 /\ snapRows' = snapRows /\ week' = week /\ snapRun'[r].name = made + 1
        /\ \A q \in SnapRuns : q # r => snapRun'[q].name = snapRun[q].name
    BY <2>1, NewName
  <2>3. \A i \in DOMAIN snapRows : snapRows[i].name <= made /\ snapRows[i].name # made + 1
    BY <1>1, <1>2 DEF Named
  <2>4. \A q \in SnapRuns : snapRun[q].name <= made /\ snapRun[q].name # made + 1
    BY <1>1 DEF Named
  <2> QED BY <1>1, <1>2, <2>2, <2>3, <2>4 DEF Named
<1>5. CASE ~\E r \in SnapRuns : CreateAccepted(r)
  <2>1. made' = made /\ \A q \in SnapRuns : snapRun'[q].name \in {snapRun[q].name, 0}
    BY <1>5, OldNames
  <2>2. /\ \A q \in SnapRuns : snapRun'[q].name <= made'
        /\ \A q, p \in SnapRuns : snapRun'[q].name = snapRun'[p].name /\ snapRun'[q].name # 0 => q = p
    BY <1>1, <2>1 DEF Named
  <2>3. CASE SameRows
    <3>1. \A q \in SnapRuns : \A i \in DOMAIN snapRows : snapRows[i].name # snapRun'[q].name
      BY <1>2, <2>1 DEF Named
    <3>2. \A i \in DOMAIN snapRows : snapRows[i].name <= made /\ snapRows[i].week <= week'
      BY <1>1, <1>2, <1>3, NoTimeBack DEF Named, NextWeek
    <3> QED BY <2>1, <2>2, <2>3, <3>1, <3>2 DEF SameRows, Named
  <2>4. ASSUME NEW r \in SnapRuns, InsertNativeSnapshot(r) PROVE Named'
    <3> DEFINE n == Len(snapRows) + 1
    <3>1. /\ DOMAIN snapRows' = DOMAIN snapRows \cup {n} /\ \A i \in DOMAIN snapRows : snapRows'[i] = snapRows[i]
          /\ snapRows'[n].name = snapRun[r].name /\ snapRows'[n].week = week
          /\ \A i \in DOMAIN snapRows : i < n
      <4>1. /\ DOMAIN snapRows' = DOMAIN snapRows \cup {n} /\ \A i \in DOMAIN snapRows : snapRows'[i] = snapRows[i]
            /\ snapRows'[n] = [job |-> snapRun[r].job, name |-> snapRun[r].name, tiers |-> snapRun[r].tiers,
                               week |-> week, status |-> "active"]
            /\ \A i \in DOMAIN snapRows : i < n
        BY <2>4, Inserted
      <4> QED BY <4>1
    <3>2. week' = week
      BY <2>4 DEF InsertNativeSnapshot
    <3>3. snapRun'[r].name = 0 /\ \A q \in SnapRuns : q # r => snapRun'[q] = snapRun[q]
      <4>1. PICK c : RunsOn(r, c)
        BY <2>4, RunGoesOn DEF RunStep
      <4>2. snapRun'[r] = InHand("rotate", snapRun[r].job, snapRun[r].list, 0, {}, snapRun[r].todo, snapRun[r].gone)
        BY <2>4, RunForms
      <4>3. \A q \in SnapRuns : q # r => snapRun'[q] = snapRun[q]
        BY <4>1, RunTyped
      <4> QED BY <4>2, <4>3 DEF InHand
    <3>4. snapRun[r].name # 0 /\ snapRun[r].name <= made
      BY <2>4 DEF InsertNativeSnapshot, At, SnTyped, Shaped, Naming, Named
    <3> HIDE DEF n
    <3>5. \A i \in DOMAIN snapRows' : snapRows'[i].name <= made' /\ snapRows'[i].week <= week'
      BY <1>1, <2>1, <3>1, <3>2, <3>4 DEF Named
    <3>6. \A i, k \in DOMAIN snapRows' : snapRows'[i].name = snapRows'[k].name => i = k
      BY <3>1 DEF Named
    <3>7. \A q \in SnapRuns : \A i \in DOMAIN snapRows' : snapRows'[i].name # snapRun'[q].name
      BY <1>2, <3>1, <3>3, <3>4 DEF Named
    <3> QED BY <2>2, <3>5, <3>6, <3>7 DEF Named
  <2> QED BY <2>3, <2>4, RowSteps
<1> QED BY <1>4, <1>5
-----------------------------------------------------------------------------
\* The newest of more rows are the newest of fewer.
LEMMA NewestOfFewer ==
  ASSUME NEW J, IsFiniteSet(J), NEW I \in SUBSET J, NEW n \in Nat, NEW i \in I, i \in Newest(J, n)
  PROVE  i \in Newest(I, n)
<1> DEFINE A == {k \in I : k > i}  B == {k \in J : k > i}
<1>1. IsFiniteSet(B) /\ A \in SUBSET B
  BY FS_Subset
<1>2. Cardinality(A) <= Cardinality(B) /\ Cardinality(A) \in Nat /\ Cardinality(B) \in Nat
  BY <1>1, FS_Subset, FS_CardinalityType
<1>3. Cardinality(B) < n
  BY DEF Newest
<1> HIDE DEF A, B
<1>4. Cardinality(A) < n
  BY <1>2, <1>3
<1> QED BY <1>4 DEF A, Newest

LEMMA PositionsFinite ==
  ASSUME NEW rows \in Seq(Row)
  PROVE  DOMAIN rows \subseteq Nat /\ \A I \in SUBSET DOMAIN rows : IsFiniteSet(I)
<1>1. Len(rows) \in Nat /\ DOMAIN rows = 1..Len(rows)
  BY LenProperties
<1>2. IsFiniteSet(1..Len(rows))
  BY <1>1, FS_Interval
<1> QED BY <1>1, <1>2, FS_Subset

LEMMA RowsFinite ==
  ASSUME SnTyped
  PROVE  DOMAIN snapRows \subseteq Nat /\ \A I \in SUBSET DOMAIN snapRows : IsFiniteSet(I)
BY PositionsFinite DEF SnTyped

\* Rows keep the job, the name, the week and the tiers they have.
LEMMA RowsStay ==
  ASSUME SnTyped, SnNext
  PROVE  /\ DOMAIN snapRows \subseteq DOMAIN snapRows'
         /\ \A i \in DOMAIN snapRows :
              /\ snapRows'[i].job = snapRows[i].job /\ snapRows'[i].name = snapRows[i].name
              /\ snapRows'[i].tiers = snapRows[i].tiers /\ snapRows'[i].week = snapRows[i].week
<1>1. ASSUME NEW r \in SnapRuns, InsertNativeSnapshot(r)
      PROVE  /\ DOMAIN snapRows \subseteq DOMAIN snapRows'
             /\ \A i \in DOMAIN snapRows : snapRows'[i] = snapRows[i]
  BY <1>1, Inserted
<1> QED BY <1>1, RowSteps DEF SameRows

\* The floor after a step.
RowsNext(j) == {i \in DOMAIN snapRows' : snapRows'[i].job = j}
FloorNext(j) == Newest(RowsNext(j), KeepLast)

LEMMA FloorShrinks ==
  ASSUME SnTyped, SnNext, NEW j, NEW i \in RowsOf(j), i \in FloorNext(j)
  PROVE  i \in Floor(j)
<1> DEFINE J == RowsNext(j)
<1>1. snapRows' \in Seq(Row)
  BY SnTypeStep DEF SnTyped
<1>2. IsFiniteSet(J)
  BY <1>1, PositionsFinite DEF RowsNext
<1>3. RowsOf(j) \in SUBSET J
  BY RowsStay DEF RowsOf, RowsNext
<1>4. i \in Newest(J, KeepLast)
  BY DEF FloorNext
<1> HIDE DEF J
<1> QED BY <1>2, <1>3, <1>4, NewestOfFewer, SnapshotsAssumption DEF Floor

\* What a run has to do after a step, and what it has done.
LEMMA TodoSteps ==
  ASSUME SnTyped, SnNext, NEW q \in SnapRuns
  PROVE  /\ snapRun'[q].todo \subseteq snapRun[q].todo \/ ChooseRotated(q)
         /\ snapRun'[q].gone \subseteq snapRun[q].gone \/ DeleteSnapshot(q)
<1>1. CASE SnOther
  <2>1. CASE SnapRestart
    BY <2>1, NoRunShaped DEF SnapRestart
  <2>2. CASE ~SnapRestart
    BY <1>1, <2>2 DEF SnOther, SkipSnapRun, TaskEnds, DeletionEnds, OutsiderDeletes, VmDeleted, NextWeek, CreatorDeleted,
       CreatorLocked, SnapNodeDeleted
  <2> QED BY <2>1, <2>2
<1>2. ASSUME NEW r \in SnapRuns, RunStep(r), r # q PROVE snapRun'[q] = snapRun[q]
  BY <1>2, RunGoesOn, RunTyped
<1>3. ASSUME RunStep(q)
      PROVE  /\ snapRun'[q].todo \subseteq snapRun[q].todo \/ ChooseRotated(q)
             /\ snapRun'[q].gone \subseteq snapRun[q].gone \/ DeleteSnapshot(q)
  <2>1. ASSUME NEW j \in SnapJobs, StartSnapRun(q, j) \/ RunOwnerless(q, j)
        PROVE  snapRun'[q].todo = {} /\ snapRun'[q].gone = {}
    <3>1. \E pc : snapRun'[q] = InHand(pc, j, {}, 0, {}, {}, {})
      BY <2>1, RunForms
    <3> QED BY <3>1, InHandHas
  <2>2. CASE FinishOwnerless(q) \/ FinishSnapRun(q)
    <3>1. snapRun'[q] = NoRun
      BY <2>2, RunForms
    <3> QED BY <3>1, NoRunShaped
  <2>3. CASE InsertNativeSnapshot(q)
    <3>1. snapRun'[q] = InHand("rotate", snapRun[q].job, snapRun[q].list, 0, {}, snapRun[q].todo, snapRun[q].gone)
      BY <2>3, RunForms
    <3> QED BY <3>1, InHandHas
  <2>4. CASE CreateAccepted(q)
    BY <2>4, NewName, InHandHas
  <2>5. CASE ListSnapshots(q) \/ SyncExternalState(q) \/ CreateRefused(q) \/ ComputeGfsTiers(q)
             \/ ChooseRotated(q) \/ DeleteSnapshot(q)
    BY <2>5, RunKeeps
  <2> QED BY <1>3, <2>1, <2>2, <2>3, <2>4, <2>5 DEF RunStep
<1> QED BY <1>1, <1>2, <1>3, SnSteps

LEMMA SnapsOfStep ==
  ASSUME SnTyped, SnNext PROVE snaps' \subseteq snaps \cup {made + 1}
<1>1. ASSUME NEW r \in SnapRuns, CreateAccepted(r) PROVE snaps' = snaps \cup {made + 1}
  BY <1>1, NewName
<1> QED BY <1>1, OldNames

LEMMA SparingStep == ASSUME SnTyped, Named, Sparing, SnNext PROVE Sparing'
<1> SUFFICES /\ \A n \in deletions' : \E i \in DOMAIN snapRows' :
                  snapRows'[i].name = n /\ i \notin FloorNext(snapRows'[i].job)
             /\ \A q \in SnapRuns : \A i \in snapRun'[q].todo : i \notin FloorNext(snapRows'[i].job)
             /\ ~snDeployment.deleteFails =>
                  \A q \in SnapRuns : \A i \in snapRun'[q].gone :
                    snapRows'[i].name \in snaps' => snapRows'[i].name \in deletions'
  BY SnConstant DEF Sparing, Floor, RowsOf, FloorNext, RowsNext, Newest
<1>1. \A i \in DOMAIN snapRows : snapRows[i].name # made + 1
  <2>1. \A i \in DOMAIN snapRows : snapRows[i] \in Row
    BY DEF SnTyped
  <2> QED BY <2>1, SnapshotsAssumption DEF Named, SnTyped, Row
<1>2. \A q \in SnapRuns : snapRun[q].todo \cup snapRun[q].gone \subseteq DOMAIN snapRows
  BY DEF SnTyped
<1>0. ASSUME NEW i \in DOMAIN snapRows, i \notin Floor(snapRows[i].job)
      PROVE  i \in DOMAIN snapRows' /\ snapRows'[i].name = snapRows[i].name /\ i \notin FloorNext(snapRows'[i].job)
  <2> DEFINE j == snapRows[i].job
  <2>1. i \in DOMAIN snapRows' /\ snapRows'[i].job = j /\ snapRows'[i].name = snapRows[i].name /\ i \in RowsOf(j)
    BY RowsStay DEF RowsOf
  <2>2. i \notin FloorNext(j)
    BY <1>0, <2>1, FloorShrinks
  <2> QED BY <2>1, <2>2
<1>5. ASSUME NEW n \in deletions'
      PROVE  \E i \in DOMAIN snapRows' : snapRows'[i].name = n /\ i \notin FloorNext(snapRows'[i].job)
  <2>1. PICK i \in DOMAIN snapRows : snapRows[i].name = n /\ i \notin Floor(snapRows[i].job)
    <3>1. CASE n \in deletions
      BY <3>1 DEF Sparing
    <3>2. CASE n \notin deletions
      <4>1. PICK r \in SnapRuns : \E i \in snapRun[r].todo : snapRows[i].name = n
        BY <3>2, DeletionSteps
      <4> QED BY <1>2, <4>1 DEF Sparing
    <3> QED BY <3>1, <3>2
  <2> QED BY <1>0, <2>1
<1>3. ASSUME ~snDeployment.deleteFails, NEW q \in SnapRuns, NEW i \in snapRun'[q].gone, snapRows'[i].name \in snaps'
      PROVE  snapRows'[i].name \in deletions'
  <2>1. CASE i \in snapRun[q].gone
    <3>1. snapRows'[i].name = snapRows[i].name /\ snapRows[i].name \in snaps
      BY <1>1, <1>2, <1>3, <2>1, SnapsOfStep, RowsStay
    <3>2. snapRows[i].name \in deletions
      BY <1>3, <2>1, <3>1 DEF Sparing
    <3>3. ASSUME snapRows[i].name \notin deletions' PROVE FALSE
      <4>1. DeletionEnds(snapRows[i].name)
        BY <3>2, <3>3, DeletionSteps
      <4>2. snapRows[i].name \notin snaps'
        BY <1>3, <4>1 DEF DeletionEnds
      <4> QED BY <1>3, <3>1, <4>2
    <3> QED BY <3>1, <3>3
  <2>2. CASE i \notin snapRun[q].gone
    <3>1. DeleteSnapshot(q)
      BY <2>2, TodoSteps
    <3>2. PICK k \in snapRun[q].todo :
            \/ /\ snapRun'[q] = InHand(snapRun[q].pc, snapRun[q].job, snapRun[q].list, snapRun[q].name, snapRun[q].tiers,
                                      snapRun[q].todo \ {k}, snapRun[q].gone \cup {k})
               /\ snapRows[k].name \in deletions'
            \/ snapRun'[q] = InHand(snapRun[q].pc, snapRun[q].job, snapRun[q].list, snapRun[q].name, snapRun[q].tiers,
                                    snapRun[q].todo \ {k}, snapRun[q].gone)
      BY <3>1, RunForms
    <3>3. i = k /\ snapRows[k].name \in deletions'
      BY <2>2, <3>2, InHandHas
    <3> QED BY <1>2, <3>2, <3>3, RowsStay
  <2> QED BY <2>1, <2>2
<1>4. ASSUME NEW q \in SnapRuns, NEW i \in snapRun'[q].todo PROVE i \notin FloorNext(snapRows'[i].job)
  <2>1. i \in DOMAIN snapRows /\ i \notin Floor(snapRows[i].job)
    <3>1. CASE i \in snapRun[q].todo
      BY <1>2, <3>1 DEF Sparing
    <3>2. CASE i \notin snapRun[q].todo
      <4> DEFINE I == Active(snapRun[q].job)
      <4>1. i \in I \ KeepSet(I)
        BY <3>2, TodoSteps, RunKeeps
      <4>2. i \in DOMAIN snapRows /\ snapRows[i].job = snapRun[q].job /\ i \notin Newest(I, KeepLast)
        BY <4>1 DEF Active, KeepSet
      <4>3. I \in SUBSET RowsOf(snapRun[q].job) /\ IsFiniteSet(RowsOf(snapRun[q].job))
        BY RowsFinite DEF Active, RowsOf
      <4>4. i \notin Newest(RowsOf(snapRun[q].job), KeepLast)
        BY <4>1, <4>2, <4>3, NewestOfFewer, SnapshotsAssumption
      <4> QED BY <4>2, <4>4 DEF Floor
    <3> QED BY <3>1, <3>2
  <2> QED BY <1>0, <2>1
<1> QED BY <1>3, <1>4, <1>5
-----------------------------------------------------------------------------
\* How a run comes to where it is.
Underway(c) == c.pc \notin {"idle", "paused"}

LEMMA RunSteps ==
  ASSUME SnTyped, SnNext, NEW q \in SnapRuns
  PROVE  \/ snapRun'[q] = snapRun[q]
         \/ SnapRestart /\ snapRun'[q] = NoRun
         \/ RunStep(q)
<1>1. CASE SnapRestart
  BY <1>1 DEF SnapRestart
<1>2. CASE SnOther /\ ~SnapRestart
  BY <1>2 DEF SnOther, SkipSnapRun, TaskEnds, DeletionEnds, OutsiderDeletes, VmDeleted, NextWeek, CreatorDeleted,
     CreatorLocked, SnapNodeDeleted
<1>3. ASSUME NEW r \in SnapRuns, RunStep(r), r # q PROVE snapRun'[q] = snapRun[q]
  BY <1>3, RunGoesOn, RunTyped
<1> QED BY <1>1, <1>2, <1>3, SnSteps

LEMMA PcAfter ==
  ASSUME SnTyped, NEW q \in SnapRuns, RunStep(q)
  PROVE  LET b == snapRun[q]
             c == snapRun'[q]
         IN  /\ c.pc = "resync" => ListSnapshots(q) /\ c.list = snaps
             /\ c.pc = "insert" => ComputeGfsTiers(q) /\ b.pc = "tiers" /\ c.tiers = NewTiers(b.job) /\ c.job = b.job
             /\ Underway(c) => Underway(b) \/ \E j \in SnapJobs : StartSnapRun(q, j)
             /\ b.name # 0 => c.name = b.name \/ InsertNativeSnapshot(q)
<1> DEFINE b == snapRun[q]  c == snapRun'[q]  T == NewTiers(b.job)
           P == /\ c.pc = "resync" => ListSnapshots(q) /\ c.list = snaps
                /\ c.pc = "insert" => ComputeGfsTiers(q) /\ b.pc = "tiers" /\ c.tiers = T /\ c.job = b.job
                /\ Underway(c) => Underway(b) \/ \E j \in SnapJobs : StartSnapRun(q, j)
                /\ b.name # 0 => c.name = b.name \/ InsertNativeSnapshot(q)
<1>0. b.name # 0 => b.pc \in Naming
  BY DEF SnTyped, Shaped
<1>1. ASSUME NEW j \in SnapJobs, StartSnapRun(q, j) \/ RunOwnerless(q, j) PROVE P
  <2>1. snapRun[q].name = 0
    BY <1>1, NoRunShaped DEF StartSnapRun, RunOwnerless
  <2>2. CASE StartSnapRun(q, j)
    <3>1. snapRun'[q] = InHand("list", j, {}, 0, {}, {}, {})
      BY <2>2, RunForms
    <3>2. snapRun'[q].pc = "list"
      BY <3>1, InHandHas
    <3> QED BY <2>1, <2>2, <3>2
  <2>3. CASE RunOwnerless(q, j)
    <3>1. snapRun'[q] = InHand("paused", j, {}, 0, {}, {}, {})
      BY <2>3, RunForms
    <3>2. snapRun'[q].pc = "paused"
      BY <3>1, InHandHas
    <3> QED BY <2>1, <3>2 DEF Underway
  <2> QED BY <1>1, <2>2, <2>3
<1>2. ASSUME FinishOwnerless(q) \/ FinishSnapRun(q) PROVE P
  <2>1. snapRun'[q] = NoRun
    BY <1>2, RunForms
  <2>2. snapRun[q].pc \in {"paused", "delete"}
    BY <1>2 DEF FinishOwnerless, FinishSnapRun, At
  <2>3. snapRun[q].name = 0
    BY <1>0, <2>2 DEF Naming
  <2> QED BY <2>1, <2>3, NoRunShaped DEF Underway
<1>3. ASSUME InsertNativeSnapshot(q) PROVE P
  <2>1. snapRun'[q] = InHand("rotate", snapRun[q].job, snapRun[q].list, 0, {}, snapRun[q].todo, snapRun[q].gone)
    BY <1>3, RunForms
  <2>2. snapRun'[q].pc = "rotate" /\ snapRun[q].pc = "insert"
    BY <1>3, <2>1, InHandHas DEF InsertNativeSnapshot, At
  <2> QED BY <1>3, <2>2 DEF Underway
<1>4. ASSUME CreateAccepted(q) PROVE P
  <2>1. snapRun'[q].pc = "tiers" /\ snapRun[q].pc = "create"
    BY <1>4, NewName, InHandHas
  <2>2. snapRun[q].name = 0
    BY <1>0, <2>1 DEF Naming
  <2> QED BY <2>1, <2>2 DEF Underway
<1>5. ASSUME \/ ListSnapshots(q) \/ SyncExternalState(q) \/ CreateRefused(q) \/ ComputeGfsTiers(q)
             \/ ChooseRotated(q) \/ DeleteSnapshot(q)
      PROVE  P
  <2>1. /\ snapRun[q].pc \in {"list", "resync", "create", "tiers", "rotate", "delete"}
        /\ ComputeGfsTiers(q) => snapRun[q].pc = "tiers"
    BY <1>5 DEF At, ListSnapshots, SyncExternalState, CreateRefused, ComputeGfsTiers, ChooseRotated, DeleteSnapshot
  <2>2. /\ snapRun'[q].job = snapRun[q].job /\ snapRun'[q].name = snapRun[q].name
        /\ ListSnapshots(q) => snapRun'[q].pc = "create" \/ (snapRun'[q].pc = "resync" /\ snapRun'[q].list = snaps)
        /\ SyncExternalState(q) => snapRun'[q].pc = "create"
        /\ CreateRefused(q) => snapRun'[q].pc = "rotate"
        /\ ComputeGfsTiers(q) => snapRun'[q].pc = "insert" /\ snapRun'[q].tiers = T
        /\ ChooseRotated(q) => snapRun'[q].pc = "delete"
        /\ DeleteSnapshot(q) => snapRun'[q].pc = "delete"
    BY <1>5, RunKeeps
  <2> HIDE DEF T
  <2> QED BY <1>5, <2>1, <2>2 DEF Underway
<1>6. P
  BY <1>1, <1>2, <1>3, <1>4, <1>5 DEF RunStep
<1> QED BY <1>6

\* Where nobody else interferes only a deletion under way removes a snapshot.
LEMMA OnlyRotated ==
  ASSUME SnTyped, SnNext, Untouched
  PROVE  snaps \ deletions \subseteq snaps'
<1>1. CASE SnOther
  BY <1>1 DEF SnOther, SkipSnapRun, TaskEnds, DeletionEnds, OutsiderDeletes, VmDeleted, NextWeek, SnapRestart,
     CreatorDeleted, CreatorLocked, SnapNodeDeleted, Untouched
<1>2. ASSUME NEW r \in SnapRuns, RunStep(r) PROVE snaps \subseteq snaps'
  BY <1>2 DEF RunStep, StartSnapRun, RunOwnerless, FinishOwnerless, ListSnapshots, SyncExternalState,
     CreateAccepted, CreateRefused, ComputeGfsTiers, InsertNativeSnapshot, ChooseRotated, DeleteSnapshot, FinishSnapRun
<1> QED BY <1>1, <1>2, SnSteps

\* No name in a run's hand is being deleted, nor one of the floor.
LEMMA Undeleted ==
  ASSUME SnTyped, Named, Sparing
  PROVE  /\ \A r \in SnapRuns : snapRun[r].name \notin deletions
         /\ \A j : \A i \in Floor(j) : snapRows[i].name \notin deletions
<1>1. ASSUME NEW j, NEW i \in Floor(j), snapRows[i].name \in deletions PROVE FALSE
  <2>1. i \in DOMAIN snapRows /\ snapRows[i].job = j
    BY DEF Floor, RowsOf, Newest
  <2>2. PICK k \in DOMAIN snapRows : snapRows[k].name = snapRows[i].name /\ k \notin Floor(snapRows[k].job)
    BY <1>1 DEF Sparing
  <2> QED BY <2>1, <2>2 DEF Named
<1> QED BY <1>1 DEF Sparing, Named

LEMMA FloorThereStep == ASSUME SnTyped, Named, Sparing, FloorThere, SnNext PROVE FloorThere'
<1> SUFFICES ASSUME Untouched
             PROVE  /\ \A j \in SnapJobs : \A i \in FloorNext(j) : snapRows'[i].name \in snaps'
                    /\ \A q \in SnapRuns : snapRun'[q].pc \in Naming => snapRun'[q].name \in snaps'
  BY SnConstant DEF FloorThere, Untouched, Floor, RowsOf, FloorNext, RowsNext, Newest
<1>1. snaps \ deletions \subseteq snaps'
  BY OnlyRotated
<1>3. ASSUME NEW j \in SnapJobs, NEW i \in FloorNext(j) PROVE snapRows'[i].name \in snaps'
  <2>0. i \in DOMAIN snapRows' /\ snapRows'[i].job = j
    BY DEF FloorNext, RowsNext, Newest
  <2>1. CASE i \in DOMAIN snapRows
    <3>1. i \in RowsOf(j) /\ snapRows[i].job = j /\ snapRows'[i].name = snapRows[i].name
      BY <2>0, <2>1, RowsStay DEF RowsOf
    <3>2. i \in Floor(j)
      BY <3>1, FloorShrinks
    <3>3. snapRows[i].name \in snaps
      BY <3>2 DEF FloorThere
    <3>4. snapRows[i].name \notin deletions
      BY <3>2, Undeleted
    <3> QED BY <1>1, <3>1, <3>3, <3>4
  <2>2. CASE i \notin DOMAIN snapRows
    <3>1. PICK r \in SnapRuns : InsertNativeSnapshot(r)
      BY <2>0, <2>2, RowSteps DEF SameRows
    <3>2. i = Len(snapRows) + 1
      BY <2>0, <2>2, <3>1, Inserted
    <3>3. snapRows'[i] = [job |-> snapRun[r].job, name |-> snapRun[r].name, tiers |-> snapRun[r].tiers,
                          week |-> week, status |-> "active"]
      BY <3>1, <3>2, Inserted
    <3>4. snapRun[r].pc \in Naming /\ snaps' = snaps
      BY <3>1 DEF InsertNativeSnapshot, At, Naming
    <3> QED BY <3>3, <3>4 DEF FloorThere
  <2> QED BY <2>1, <2>2
<1>4. ASSUME NEW q \in SnapRuns, snapRun'[q].pc \in Naming PROVE snapRun'[q].name \in snaps'
  <2>1. CASE CreateAccepted(q)
    BY <2>1, NewName
  <2>2. CASE ~CreateAccepted(q)
    <3>1. snapRun'[q].name # 0
      BY <1>4, SnTypeStep DEF SnTyped, Shaped
    <3>2. snapRun'[q].name = snapRun[q].name
      <4>1. CASE \E r \in SnapRuns : CreateAccepted(r)
        BY <2>2, <4>1, NewName
      <4>2. CASE ~\E r \in SnapRuns : CreateAccepted(r)
        BY <3>1, <4>2, OldNames
      <4> QED BY <4>1, <4>2
    <3>3. snapRun[q].pc \in Naming
      BY <3>1, <3>2 DEF SnTyped, Shaped
    <3>4. snapRun[q].name \in snaps
      BY <3>3 DEF FloorThere
    <3>5. snapRun[q].name \notin deletions
      BY Undeleted
    <3> QED BY <1>1, <3>2, <3>4, <3>5
  <2> QED BY <2>1, <2>2
<1> QED BY <1>3, <1>4

LEMMA OneByOneStep == ASSUME SnTyped, OneByOne, SnNext PROVE OneByOne'
<1> SUFFICES ASSUME ~snDeployment.overlap
             PROVE  /\ \A q, p \in SnapRuns : Underway(snapRun'[q]) /\ Underway(snapRun'[p]) => q = p
                    /\ \A q \in SnapRuns : snapRun'[q].pc = "resync" => snaps' \subseteq snapRun'[q].list
  BY SnConstant DEF OneByOne, Underway, At
<1>0. \A q, p \in SnapRuns : Underway(snapRun[q]) /\ Underway(snapRun[p]) => q = p
  BY DEF OneByOne, Underway, At
<1>1. ASSUME NEW q \in SnapRuns, Underway(snapRun'[q])
      PROVE  Underway(snapRun[q]) \/ \E j \in SnapJobs : StartSnapRun(q, j)
  BY <1>1, RunSteps, PcAfter, NoRunShaped DEF Underway
<1>2. ASSUME NEW q \in SnapRuns, NEW j \in SnapJobs, StartSnapRun(q, j), NEW p \in SnapRuns, p # q
      PROVE  ~Underway(snapRun'[p])
  <2>1. snapRun[p] = NoRun
    BY <1>2 DEF StartSnapRun
  <2>2. snapRun'[p] = snapRun[p]
    BY <1>2, RunGoesOn, RunTyped DEF RunStep
  <2> QED BY <2>1, <2>2, NoRunShaped DEF Underway
<1>3. \A q, p \in SnapRuns : Underway(snapRun'[q]) /\ Underway(snapRun'[p]) => q = p
  BY <1>0, <1>1, <1>2
<1>4. ASSUME NEW q \in SnapRuns, snapRun'[q].pc = "resync" PROVE snaps' \subseteq snapRun'[q].list
  <2>1. CASE snapRun'[q] = snapRun[q]
    <3>1. snaps \subseteq snapRun[q].list /\ snapRun[q].pc = "resync"
      BY <1>4, <2>1 DEF OneByOne, At
    <3>2. ASSUME NEW r \in SnapRuns, CreateAccepted(r) PROVE FALSE
      <4>1. snapRun[r].pc = "create"
        BY <3>2 DEF CreateAccepted, At
      <4> QED BY <1>0, <3>1, <4>1 DEF Underway
    <3> QED BY <2>1, <3>1, <3>2, OldNames
  <2>2. CASE RunStep(q)
    <3>1. ListSnapshots(q) /\ snapRun'[q].list = snaps
      BY <1>4, <2>2, PcAfter
    <3> QED BY <3>1 DEF ListSnapshots
  <2> QED BY <1>4, <2>1, <2>2, RunSteps, NoRunShaped
<1> QED BY <1>3, <1>4

LEMMA KnownStep == ASSUME SnTyped, Named, Sparing, OneByOne, Known, SnNext PROVE Known'
<1> SUFFICES ASSUME ~snDeployment.overlap, ~snDeployment.restarts, ~snDeployment.deleteFails, NEW n \in snaps'
             PROVE  \/ n \in deletions'
                    \/ \E i \in DOMAIN snapRows' : snapRows'[i].name = n /\ snapRows'[i].status = "active"
                    \/ \E r \in SnapRuns : snapRun'[r].name = n
  BY SnConstant DEF Known
<1>1. CASE \E r \in SnapRuns : CreateAccepted(r)
  <2>1. PICK r \in SnapRuns : CreateAccepted(r)
    BY <1>1
  <2>2. /\ snaps' = snaps \cup {made + 1} /\ snapRows' = snapRows /\ snapRun'[r].name = made + 1
        /\ snapRun[r].pc = "create" /\ \A q \in SnapRuns : q # r => snapRun'[q] = snapRun[q]
        /\ deletions' = deletions
    BY <2>1, NewName
  <2>3. CASE n = made + 1
    BY <2>2, <2>3
  <2>4. CASE n \in snaps
    <3>1. snapRun[r].name = 0 /\ n # 0
      BY <2>2, <2>4, SnapshotsAssumption DEF SnTyped, Shaped, Naming
    <3> QED BY <2>2, <2>4, <3>1 DEF Known
  <2> QED BY <2>2, <2>3, <2>4
<1>2. CASE ~\E r \in SnapRuns : CreateAccepted(r)
  <2>1. n \in snaps /\ n # 0
    BY <1>2, OldNames, SnapshotsAssumption DEF SnTyped
  <2>4. CASE n \in deletions
    <3>1. ~DeletionEnds(n)
      BY DEF DeletionEnds
    <3> QED BY <2>4, <3>1, DeletionSteps
  <2>2. ASSUME n \notin deletions, NEW i \in DOMAIN snapRows, snapRows[i].name = n, snapRows[i].status = "active"
        PROVE  \E k \in DOMAIN snapRows' : snapRows'[k].name = n /\ snapRows'[k].status = "active"
    <3>1. CASE snapRows' = snapRows
      BY <2>2, <3>1
    <3>2. ASSUME NEW I, NEW s \in {"rotated", "deleted_externally"}, SetStatus(I, s), i \notin I
          PROVE  \E k \in DOMAIN snapRows' : snapRows'[k].name = n /\ snapRows'[k].status = "active"
      <4>1. SameRows /\ snapRows'[i].status = "active"
        BY <2>2, <3>2, Marked
      <4> QED BY <2>2, <4>1 DEF SameRows
    <3>3. CASE SnOther
      <4>1. ~VmDeleted
        BY <2>1 DEF VmDeleted
      <4>2. snapRows' = snapRows
        BY <3>3, <4>1 DEF SnOther, SkipSnapRun, TaskEnds, DeletionEnds, OutsiderDeletes, NextWeek, SnapRestart, CreatorDeleted,
           CreatorLocked, SnapNodeDeleted
      <4> QED BY <3>1, <4>2
    <3>4. ASSUME NEW r \in SnapRuns, RunStep(r)
          PROVE  \E k \in DOMAIN snapRows' : snapRows'[k].name = n /\ snapRows'[k].status = "active"
      <4>1. CASE SyncExternalState(r)
        <5>1. snaps \subseteq snapRun[r].list
          BY <4>1 DEF OneByOne, SyncExternalState
        <5> DEFINE I == {k \in DOMAIN snapRows : snapRows[k].status = "active" /\ snapRows[k].name \notin snapRun[r].list}
        <5>2. SetStatus(I, "deleted_externally") /\ i \notin I
          BY <2>1, <2>2, <4>1, <5>1 DEF SyncExternalState
        <5> HIDE DEF I
        <5> QED BY <3>2, <5>2
      <4>2. CASE FinishSnapRun(r)
        <5>1. SetStatus(Rotated(r), "rotated")
          BY <4>2 DEF FinishSnapRun
        <5>2. i \notin Rotated(r)
          BY <2>1, <2>2 DEF Rotated, Sparing
        <5> QED BY <3>2, <5>1, <5>2
      <4>3. CASE InsertNativeSnapshot(r)
        BY <2>2, <4>3, Inserted
      <4>4. CASE ~SyncExternalState(r) /\ ~FinishSnapRun(r) /\ ~InsertNativeSnapshot(r)
        <5>1. snapRows' = snapRows
          BY <3>4, <4>4 DEF RunStep, StartSnapRun, RunOwnerless, FinishOwnerless, ListSnapshots, CreateAccepted,
             CreateRefused, ComputeGfsTiers, ChooseRotated, DeleteSnapshot
        <5> QED BY <3>1, <5>1
      <4> QED BY <4>1, <4>2, <4>3, <4>4
    <3> QED BY <3>3, <3>4, SnSteps
  <2>3. ASSUME NEW r \in SnapRuns, snapRun[r].name = n
        PROVE  \/ \E i \in DOMAIN snapRows' : snapRows'[i].name = n /\ snapRows'[i].status = "active"
               \/ \E q \in SnapRuns : snapRun'[q].name = n
    <3>1. ~SnapRestart
      BY SnConstant DEF SnapRestart
    <3>2. CASE InsertNativeSnapshot(r)
      <4>1. /\ Len(snapRows) + 1 \in DOMAIN snapRows'
            /\ snapRows'[Len(snapRows) + 1]
                 = [job |-> snapRun[r].job, name |-> snapRun[r].name, tiers |-> snapRun[r].tiers,
                    week |-> week, status |-> "active"]
        BY <3>2, Inserted
      <4> QED BY <2>3, <4>1
    <3>3. CASE ~InsertNativeSnapshot(r)
      BY <2>1, <2>3, <3>1, <3>3, RunSteps, PcAfter
    <3> QED BY <3>2, <3>3
  <2> QED BY <2>1, <2>2, <2>3, <2>4 DEF Known
<1> QED BY <1>1, <1>2
-----------------------------------------------------------------------------
\* The weeks of the rows of a job.
LEMMA NewerFinite ==
  ASSUME NEW rows \in Seq(Row), NEW I \in SUBSET DOMAIN rows, NEW w
  PROVE  IsFiniteSet({v \in {rows[i].week : i \in I} : v > w})
<1>1. \A i \in DOMAIN rows : rows[i] \in Row
  OBVIOUS
<1>2. \A i \in DOMAIN rows : rows[i].week \in 1..MaxWeek
  BY <1>1 DEF Row
<1>3. {v \in {rows[i].week : i \in I} : v > w} \in SUBSET (1..MaxWeek)
  BY <1>2
<1>4. IsFiniteSet(1..MaxWeek)
  BY FS_Interval, SnapshotsAssumption
<1> QED BY <1>3, <1>4, FS_Subset

WeeklyNext(j) == {i \in RowsNext(j) : "weekly" \in snapRows'[i].tiers}
NewerNext(j, w) == {v \in {snapRows'[i].week : i \in RowsNext(j)} : v > w}
GivenUpNext(i) ==
  \/ snapRows'[i].status # "active"
  \/ snapRows'[i].name \notin snaps'
  \/ snapRows'[i].name \in deletions'
SupersededNext(i) == Cardinality(NewerNext(snapRows'[i].job, snapRows'[i].week)) >= KeepTier["weekly"]

LEMMA SupersededStays ==
  ASSUME SnTyped, SnNext, NEW i \in DOMAIN snapRows, Superseded(i)
  PROVE  SupersededNext(i)
<1> DEFINE j == snapRows[i].job  w == snapRows[i].week  A == Newer(j, w)  B == NewerNext(j, w)
<1>1. snapRows'[i].job = j /\ snapRows'[i].week = w
  BY RowsStay
<1>2. IsFiniteSet(A)
  BY NewerFinite DEF Newer, RowsOf, SnTyped
<1>3. IsFiniteSet(B)
  <2>1. snapRows' \in Seq(Row)
    BY SnTypeStep DEF SnTyped
  <2> QED BY <2>1, NewerFinite DEF NewerNext, RowsNext
<1>4. RowsOf(j) \subseteq RowsNext(j) /\ \A k \in RowsOf(j) : snapRows'[k].week = snapRows[k].week
  BY RowsStay DEF RowsOf, RowsNext
<1>5. A \in SUBSET B
  BY <1>4 DEF Newer, NewerNext
<1>6. Cardinality(A) >= KeepTier["weekly"]
  BY DEF Superseded
<1> HIDE DEF A, B
<1>7. Cardinality(A) <= Cardinality(B) /\ Cardinality(A) \in Nat /\ Cardinality(B) \in Nat
  BY <1>2, <1>3, <1>5, FS_Subset, FS_CardinalityType
<1>8. KeepTier["weekly"] \in Nat
  BY SnapshotsAssumption DEF Tiers
<1>9. Cardinality(B) >= KeepTier["weekly"]
  BY <1>6, <1>7, <1>8
<1> QED BY <1>1, <1>9 DEF B, SupersededNext

\* Active rows of one tier: as many newer weeks as newer rows.
LEMMA RotatedSuperseded ==
  ASSUME SnTyped, WeekByWeek, Untouched, ~snDeployment.overlap, NEW j \in SnapJobs,
         NEW i \in Active(j) \ KeepSet(Active(j)), "weekly" \in snapRows[i].tiers
  PROVE  Superseded(i)
<1> DEFINE K == KeepTier["weekly"]  T == OfTier(Active(j), "weekly")  A == {k \in T : k > i}
           w == snapRows[i].week  B == Newer(j, w)
<1>0. K \in Nat /\ "weekly" \in Tiers
  BY SnapshotsAssumption DEF Tiers
<1>1. i \in T /\ i \notin Newest(T, K) /\ i \in DOMAIN snapRows /\ snapRows[i].job = j
  BY <1>0 DEF KeepSet, OfTier, Active
<1>2. IsFiniteSet(A) /\ A \subseteq DOMAIN snapRows /\ DOMAIN snapRows \subseteq Nat
  BY RowsFinite DEF OfTier, Active
<1>3. IsFiniteSet(B)
  BY NewerFinite DEF Newer, RowsOf, SnTyped
<1>4. ~(Cardinality(A) < K)
  BY <1>1 DEF Newest
<1>5. Cardinality(A) \in Nat /\ Cardinality(B) \in Nat
  BY <1>2, <1>3, FS_CardinalityType
<1>6. CASE K = 0
  <2> HIDE DEF K, A, B
  <2>1. Cardinality(B) >= K
    BY <1>5, <1>6
  <2> QED BY <1>1, <2>1 DEF Superseded, B, K
<1>7. CASE K # 0
  <2> DEFINE f == [k \in A |-> snapRows[k].week]
  <2>1. T \subseteq Weekly(j)
    BY DEF OfTier, Active, Weekly, RowsOf
  <2>2. \A h, k \in Weekly(j) : h < k => snapRows[h].week < snapRows[k].week
    BY <1>7 DEF WeekByWeek
  <2>3. \A k \in A : snapRows[k].week > w /\ k \in RowsOf(j)
    <3>1. \A k \in A : k \in Weekly(j) /\ i \in Weekly(j) /\ i < k
      BY <1>1, <1>2, <2>1
    <3>2. \A k \in DOMAIN snapRows : snapRows[k] \in Row
      BY DEF SnTyped
    <3>3. \A k \in DOMAIN snapRows : snapRows[k].week \in Int
      BY <3>2 DEF Row
    <3>4. \A k \in A : snapRows[i].week < snapRows[k].week
      BY <2>2, <3>1
    <3> QED BY <1>1, <1>2, <3>1, <3>3, <3>4 DEF Weekly
  <2>4. \A k \in A : f[k] \in B
    BY <2>3 DEF Newer
  <2>5. \A h, k \in A : f[h] = f[k] => h = k
    <3>1. \A k \in DOMAIN snapRows : snapRows[k] \in Row
      BY DEF SnTyped
    <3>2. \A k \in A : snapRows[k].week \in Int /\ k \in Nat /\ k \in Weekly(j)
      BY <1>2, <2>1, <3>1 DEF Row
    <3>3. \A h, k \in A : h < k => snapRows[h].week < snapRows[k].week
      BY <2>2, <3>2
    <3> QED BY <3>2, <3>3
  <2> HIDE DEF A, B
  <2>6. f \in Injection(A, B)
    BY <2>4, <2>5 DEF Injection, IsInjective
  <2>7. Cardinality(A) <= Cardinality(B)
    BY <1>3, <2>6, FS_Injection
  <2>8. Cardinality(B) >= K
    BY <1>0, <1>4, <1>5, <2>7
  <2> QED BY <1>1, <2>8 DEF Superseded, B
<1> QED BY <1>6, <1>7

\* A weekly row that is no longer active is superseded.
LEMMA InactiveStep ==
  ASSUME SnTyped, OneByOne, WeekByWeek, Untouched, ~snDeployment.overlap, SnNext,
         NEW j \in SnapJobs, NEW i \in Weekly(j), snapRows'[i].status # "active"
  PROVE  Superseded(i)
<1>0. i \in DOMAIN snapRows /\ "weekly" \in snapRows[i].tiers
  BY DEF Weekly, RowsOf
<1>1. ASSUME GivenUp(i) PROVE Superseded(i)
  BY <1>1 DEF WeekByWeek
<1>2. ASSUME snapRows[i].status = "active", NEW I, NEW s \in {"rotated", "deleted_externally"}, SetStatus(I, s)
      PROVE  i \in I
  BY <1>0, <1>2, Marked
<1>3. ASSUME NEW r \in SnapRuns, SyncExternalState(r), snapRows[i].status = "active" PROVE Superseded(i)
  <2> DEFINE I == {k \in DOMAIN snapRows : snapRows[k].status = "active" /\ snapRows[k].name \notin snapRun[r].list}
  <2>1. SetStatus(I, "deleted_externally")
    BY <1>3 DEF SyncExternalState
  <2>2. i \in I
    BY <1>2, <1>3, <2>1
  <2>3. snaps \subseteq snapRun[r].list
    BY <1>3 DEF OneByOne, SyncExternalState
  <2> QED BY <1>1, <2>2, <2>3 DEF GivenUp
<1>4. ASSUME NEW r \in SnapRuns, FinishSnapRun(r), snapRows[i].status = "active" PROVE Superseded(i)
  <2>1. SetStatus(Rotated(r), "rotated")
    BY <1>4 DEF FinishSnapRun
  <2>2. i \in Rotated(r)
    BY <1>2, <1>4, <2>1
  <2> QED BY <1>0, <2>2 DEF Rotated, WeekByWeek
<1>5. ASSUME snapRows'[i] = snapRows[i] PROVE Superseded(i)
  BY <1>1, <1>5 DEF GivenUp
<1>6. CASE SnOther
  <2>1. ~VmDeleted
    BY DEF VmDeleted, Untouched
  <2>2. snapRows' = snapRows
    BY <1>6, <2>1 DEF SnOther, SkipSnapRun, TaskEnds, DeletionEnds, OutsiderDeletes, NextWeek, SnapRestart,
       CreatorDeleted, CreatorLocked, SnapNodeDeleted
  <2> QED BY <1>5, <2>2
<1>7. ASSUME NEW r \in SnapRuns, RunStep(r) PROVE Superseded(i)
  <2>1. CASE SyncExternalState(r) \/ FinishSnapRun(r)
    BY <1>1, <1>3, <1>4, <2>1 DEF GivenUp
  <2>2. CASE InsertNativeSnapshot(r)
    BY <1>0, <1>5, <2>2, Inserted
  <2>3. CASE ~SyncExternalState(r) /\ ~FinishSnapRun(r) /\ ~InsertNativeSnapshot(r)
    <3>1. snapRows' = snapRows
      BY <1>7, <2>3 DEF RunStep, StartSnapRun, RunOwnerless, FinishOwnerless, ListSnapshots, CreateAccepted,
         CreateRefused, ComputeGfsTiers, ChooseRotated, DeleteSnapshot
    <3> QED BY <1>5, <3>1
  <2> QED BY <2>1, <2>2, <2>3
<1> QED BY <1>6, <1>7, SnSteps

\* The row a step adds.
LEMMA AddedRow ==
  ASSUME SnTyped, SnNext, NEW n \in DOMAIN snapRows' \ DOMAIN snapRows
  PROVE  \E r \in SnapRuns :
           /\ At(r, "insert") /\ snaps' = snaps /\ week' = week /\ deletions' = deletions
           /\ DOMAIN snapRows' = DOMAIN snapRows \cup {n} /\ \A i \in DOMAIN snapRows : i < n
           /\ snapRows'[n].job = snapRun[r].job /\ snapRun[r].job \in SnapJobs
           /\ snapRows'[n].name = snapRun[r].name /\ snapRows'[n].tiers = snapRun[r].tiers
           /\ snapRows'[n].week = week /\ snapRows'[n].status = "active"
<1>1. PICK r \in SnapRuns : InsertNativeSnapshot(r)
  BY RowSteps DEF SameRows
<1>2. At(r, "insert") /\ snaps' = snaps /\ week' = week /\ deletions' = deletions
  BY <1>1 DEF InsertNativeSnapshot
<1>3. /\ DOMAIN snapRows' = DOMAIN snapRows \cup {Len(snapRows) + 1}
      /\ \A i \in DOMAIN snapRows : i < Len(snapRows) + 1
      /\ snapRows'[Len(snapRows) + 1]
           = [job |-> snapRun[r].job, name |-> snapRun[r].name, tiers |-> snapRun[r].tiers,
              week |-> week, status |-> "active"]
  BY <1>1, Inserted
<1>4. snapRun[r].job \in SnapJobs
  BY <1>2 DEF SnTyped, Shaped, At
<1> QED BY <1>2, <1>3, <1>4

LEMMA WeeklyStays ==
  ASSUME SnTyped, SnNext, NEW j
  PROVE  /\ Weekly(j) \subseteq WeeklyNext(j) /\ RowsOf(j) \subseteq RowsNext(j)
         /\ \A i \in WeeklyNext(j) : i \in DOMAIN snapRows => i \in Weekly(j)
         /\ \A i \in RowsNext(j) : i \in DOMAIN snapRows => i \in RowsOf(j)
BY RowsStay DEF Weekly, WeeklyNext, RowsOf, RowsNext

\* What a run that writes its row next knows of the tiers.
TiersKnown(r) ==
  LET W == Weekly(snapRun[r].job)
  IN  IF "weekly" \in snapRun[r].tiers
      THEN KeepTier["weekly"] # 0 => \A i \in W : snapRows[i].week < week
      ELSE \E i \in W : snapRows[i].week = week
TiersKnownNext(r) ==
  LET W == WeeklyNext(snapRun'[r].job)
  IN  IF "weekly" \in snapRun'[r].tiers
      THEN KeepTier["weekly"] # 0 => \A i \in W : snapRows'[i].week < week'
      ELSE \E i \in W : snapRows'[i].week = week'

LEMMA TiersComputed ==
  ASSUME SnTyped, Named, WeekByWeek, Untouched, ~snDeployment.overlap, NEW j \in SnapJobs
  PROVE  IF "weekly" \in NewTiers(j)
         THEN KeepTier["weekly"] # 0 => \A i \in Weekly(j) : snapRows[i].week < week
         ELSE \E i \in Weekly(j) : snapRows[i].week = week
<1>0. "weekly" \in Tiers /\ week \in Int /\ \A v : Bucket("weekly", v) = v
  BY DEF Tiers, Bucket, SnTyped
<1>1. \A i \in DOMAIN snapRows : snapRows[i] \in Row
  BY DEF SnTyped
<1>2. \A i \in DOMAIN snapRows : snapRows[i].week \in Int /\ snapRows[i].week <= week
  BY <1>1 DEF Row, Named
<1>3. ASSUME "weekly" \in NewTiers(j), KeepTier["weekly"] # 0, NEW i \in Weekly(j) PROVE snapRows[i].week < week
  <2>1. i \in DOMAIN snapRows /\ snapRows[i].job = j /\ "weekly" \in snapRows[i].tiers
    BY DEF Weekly, RowsOf
  <2>2. CASE snapRows[i].status = "active"
    <3>1. snapRows[i].week # week
      BY <1>0, <1>3, <2>1, <2>2 DEF NewTiers, Active
    <3> QED BY <1>0, <1>2, <2>1, <3>1
  <2>3. CASE snapRows[i].status # "active"
    <3>1. Superseded(i)
      BY <2>3 DEF WeekByWeek, GivenUp
    <3> DEFINE w == snapRows[i].week  B == Newer(j, w)
    <3>2. Cardinality(B) >= KeepTier["weekly"] /\ KeepTier["weekly"] \in Nat \ {0}
      BY <1>0, <1>3, <2>1, <3>1, SnapshotsAssumption DEF Superseded
    <3>3. B # {}
      <4> HIDE DEF B
      <4> QED BY <3>2, FS_EmptySet
    <3>4. PICK k \in RowsOf(j) : snapRows[k].week > w
      BY <3>3 DEF Newer
    <3>5. k \in DOMAIN snapRows
      BY DEF RowsOf
    <3> QED BY <1>0, <1>2, <2>1, <3>4, <3>5
  <2> QED BY <2>2, <2>3
<1>4. ASSUME "weekly" \notin NewTiers(j) PROVE \E i \in Weekly(j) : snapRows[i].week = week
  BY <1>0, <1>4 DEF NewTiers, Active, Weekly, RowsOf
<1> QED BY <1>3, <1>4

LEMMA TiersKnownStep ==
  ASSUME SnTyped, Named, OneByOne, WeekByWeek, Untouched, ~snDeployment.overlap, SnNext,
         NEW q \in SnapRuns, snapRun'[q].pc = "insert"
  PROVE  TiersKnownNext(q)
<1>1. CASE snapRun'[q] = snapRun[q]
  <2>1. At(q, "insert") /\ TiersKnown(q)
    BY <1>1 DEF WeekByWeek, TiersKnown, At
  <2>2. week' = week
    BY <2>1, NoTimeBack DEF NextWeek
  <2>3. ASSUME NEW n \in DOMAIN snapRows' \ DOMAIN snapRows PROVE FALSE
    <3>1. PICK r \in SnapRuns : InsertNativeSnapshot(r)
      BY RowSteps DEF SameRows
    <3>2. r = q
      BY <2>1, <3>1 DEF OneByOne, InsertNativeSnapshot, At
    <3>3. snapRun'[q].pc = "rotate"
      <4>1. snapRun'[q] = InHand("rotate", snapRun[q].job, snapRun[q].list, 0, {}, snapRun[q].todo, snapRun[q].gone)
        BY <3>1, <3>2, RunForms
      <4> QED BY <4>1, InHandHas
    <3> QED BY <3>3
  <2>4. WeeklyNext(snapRun[q].job) = Weekly(snapRun[q].job)
    <3>1. \A i \in WeeklyNext(snapRun[q].job) : i \in DOMAIN snapRows
      BY <2>3 DEF WeeklyNext, RowsNext
    <3> QED BY <3>1, WeeklyStays
  <2>5. \A i \in Weekly(snapRun[q].job) : snapRows'[i].week = snapRows[i].week
    BY RowsStay DEF Weekly, RowsOf
  <2> QED BY <1>1, <2>1, <2>2, <2>4, <2>5 DEF TiersKnown, TiersKnownNext
<1>2. CASE RunStep(q)
  <2>1. ComputeGfsTiers(q) /\ snapRun[q].pc = "tiers" /\ snapRun'[q].tiers = NewTiers(snapRun[q].job)
        /\ snapRun'[q].job = snapRun[q].job
    BY <1>2, PcAfter
  <2>2. snapRun[q].job \in SnapJobs
    BY <2>1 DEF SnTyped, Shaped
  <2>3. snapRows' = snapRows /\ week' = week
    BY <2>1 DEF ComputeGfsTiers
  <2>4. WeeklyNext(snapRun[q].job) = Weekly(snapRun[q].job)
    BY <2>3 DEF Weekly, WeeklyNext, RowsOf, RowsNext
  <2> QED BY <2>1, <2>2, <2>3, <2>4, TiersComputed DEF TiersKnownNext
<1> QED BY <1>1, <1>2, RunSteps, NoRunShaped

LEMMA WeekByWeekStep ==
  ASSUME SnTyped, Named, Sparing, FloorThere, OneByOne, WeekByWeek, SnNext PROVE WeekByWeek'
<1> SUFFICES ASSUME Untouched, ~snDeployment.overlap
             PROVE  /\ \A j \in SnapJobs : \A i \in RowsNext(j) :
                         \E k \in WeeklyNext(j) : snapRows'[k].week = snapRows'[i].week
                    /\ \A j \in SnapJobs : \A i \in WeeklyNext(j) : GivenUpNext(i) => SupersededNext(i)
                    /\ \A q \in SnapRuns : \A i \in snapRun'[q].todo \cup snapRun'[q].gone :
                         "weekly" \in snapRows'[i].tiers => SupersededNext(i)
                    /\ KeepTier["weekly"] # 0 =>
                         \A j \in SnapJobs : \A i, k \in WeeklyNext(j) : i < k => snapRows'[i].week < snapRows'[k].week
                    /\ \A q \in SnapRuns : snapRun'[q].pc = "insert" => TiersKnownNext(q)
  BY SnConstant DEF WeekByWeek, Untouched, Weekly, RowsOf, Superseded, Newer, WeeklyNext, RowsNext, SupersededNext,
     NewerNext, GivenUp, GivenUpNext, TiersKnownNext, At
<1>2. ASSUME NEW r \in SnapRuns, At(r, "insert") PROVE TiersKnown(r) /\ snapRun[r].name \in snaps
  BY <1>2 DEF WeekByWeek, TiersKnown, FloorThere, At, Naming
<1>3. ASSUME NEW j \in SnapJobs, NEW i \in RowsNext(j)
      PROVE  \E k \in WeeklyNext(j) : snapRows'[k].week = snapRows'[i].week
  <2>1. CASE i \in DOMAIN snapRows
    <3>1. i \in RowsOf(j)
      BY <2>1, WeeklyStays
    <3>2. PICK k \in Weekly(j) : snapRows[k].week = snapRows[i].week
      BY <3>1 DEF WeekByWeek
    <3>3. k \in WeeklyNext(j) /\ k \in DOMAIN snapRows
      BY WeeklyStays DEF Weekly, RowsOf
    <3> QED BY <2>1, <3>2, <3>3, RowsStay
  <2>2. CASE i \notin DOMAIN snapRows
    <3>1. PICK r \in SnapRuns :
            /\ At(r, "insert") /\ snapRows'[i].job = snapRun[r].job /\ snapRows'[i].tiers = snapRun[r].tiers
            /\ snapRows'[i].week = week
      BY <2>2, AddedRow DEF RowsNext
    <3>2. snapRun[r].job = j
      BY <3>1 DEF RowsNext
    <3>3. CASE "weekly" \in snapRun[r].tiers
      BY <3>1, <3>3 DEF WeeklyNext
    <3>4. CASE "weekly" \notin snapRun[r].tiers
      <4>1. PICK k \in Weekly(j) : snapRows[k].week = week
        BY <1>2, <3>1, <3>2, <3>4 DEF TiersKnown
      <4>2. k \in WeeklyNext(j) /\ k \in DOMAIN snapRows
        BY WeeklyStays DEF Weekly, RowsOf
      <4> QED BY <3>1, <4>1, <4>2, RowsStay
    <3> QED BY <3>3, <3>4
  <2> QED BY <2>1, <2>2
<1>4. ASSUME NEW j \in SnapJobs, NEW i \in WeeklyNext(j), GivenUpNext(i) PROVE SupersededNext(i)
  <2>1. CASE i \in DOMAIN snapRows
    <3>1. i \in Weekly(j) /\ snapRows'[i].name = snapRows[i].name
      BY <2>1, WeeklyStays, RowsStay
    <3>2. ASSUME GivenUp(i) PROVE Superseded(i)
      BY <3>1, <3>2 DEF WeekByWeek
    <3>3. ASSUME snapRows'[i].status # "active" PROVE Superseded(i)
      BY <3>1, <3>3, InactiveStep
    <3>4. ASSUME snapRows[i].name \notin snaps' PROVE Superseded(i)
      BY <3>2, <3>4, OnlyRotated DEF GivenUp
    <3>5. ASSUME snapRows[i].name \in deletions' \ deletions PROVE Superseded(i)
      <4>1. PICK r \in SnapRuns : \E k \in snapRun[r].todo : snapRows[k].name = snapRows[i].name
        BY <3>5, DeletionSteps
      <4>2. PICK k \in snapRun[r].todo : snapRows[k].name = snapRows[i].name
        BY <4>1
      <4>3. k \in DOMAIN snapRows
        BY DEF SnTyped
      <4>4. i = k
        BY <2>1, <4>2, <4>3 DEF Named
      <4> QED BY <3>1, <4>4 DEF WeekByWeek, Weekly
    <3>6. Superseded(i)
      BY <1>4, <3>1, <3>2, <3>3, <3>4, <3>5 DEF GivenUp, GivenUpNext
    <3> QED BY <2>1, <3>6, SupersededStays
  <2>2. CASE i \notin DOMAIN snapRows
    <3>1. PICK r \in SnapRuns :
            /\ At(r, "insert") /\ snaps' = snaps /\ deletions' = deletions
            /\ snapRows'[i].name = snapRun[r].name /\ snapRows'[i].status = "active"
      BY <2>2, AddedRow DEF WeeklyNext, RowsNext
    <3>2. snapRun[r].name \notin deletions
      BY Undeleted
    <3> QED BY <1>2, <1>4, <3>1, <3>2 DEF GivenUpNext
  <2> QED BY <2>1, <2>2
<1>5. ASSUME NEW q \in SnapRuns, NEW i \in snapRun'[q].todo \cup snapRun'[q].gone, "weekly" \in snapRows'[i].tiers
      PROVE  SupersededNext(i)
  <2>0. ASSUME i \in snapRun[q].todo \cup snapRun[q].gone PROVE SupersededNext(i)
    <3>1. i \in DOMAIN snapRows
      BY <2>0 DEF SnTyped
    <3>2. Superseded(i)
      BY <1>5, <2>0, <3>1, RowsStay DEF WeekByWeek
    <3> QED BY <3>1, <3>2, SupersededStays
  <2>1. CASE i \in snapRun[q].todo \cup snapRun[q].gone
    BY <2>0, <2>1
  <2>2. CASE i \in snapRun'[q].todo \ snapRun[q].todo
    <3>1. ChooseRotated(q)
      BY <2>2, TodoSteps
    <3>2. i \in Active(snapRun[q].job) \ KeepSet(Active(snapRun[q].job))
      BY <2>2, <3>1, RunKeeps
    <3>3. snapRun[q].job \in SnapJobs
      BY <3>1 DEF ChooseRotated, At, SnTyped, Shaped
    <3>4. i \in DOMAIN snapRows
      BY <3>2 DEF Active
    <3>5. "weekly" \in snapRows[i].tiers
      BY <1>5, <3>4, RowsStay
    <3>6. Superseded(i)
      BY <3>2, <3>3, <3>5, RotatedSuperseded
    <3> QED BY <3>4, <3>6, SupersededStays
  <2>3. CASE i \in snapRun'[q].gone \ snapRun[q].gone
    <3>1. DeleteSnapshot(q)
      BY <2>3, TodoSteps
    <3>2. \E k \in snapRun[q].todo :
            \E gone \in {snapRun[q].gone, snapRun[q].gone \cup {k}} :
              snapRun'[q] = InHand(snapRun[q].pc, snapRun[q].job, snapRun[q].list, snapRun[q].name, snapRun[q].tiers,
                                   snapRun[q].todo \ {k}, gone)
      BY <3>1, RunForms
    <3>3. i \in snapRun[q].todo
      BY <2>3, <3>2, InHandHas
    <3> QED BY <2>0, <3>3
  <2> QED BY <1>5, <2>1, <2>2, <2>3
<1>6. ASSUME KeepTier["weekly"] # 0, NEW j \in SnapJobs, NEW i \in WeeklyNext(j), NEW k \in WeeklyNext(j), i < k
      PROVE  snapRows'[i].week < snapRows'[k].week
  <2>0. i \in DOMAIN snapRows' /\ k \in DOMAIN snapRows' /\ snapRows'[k].job = j
    BY DEF WeeklyNext, RowsNext
  <2>1. CASE i \in DOMAIN snapRows /\ k \in DOMAIN snapRows
    <3>1. i \in Weekly(j) /\ k \in Weekly(j)
      BY <2>1, WeeklyStays
    <3>2. snapRows[i].week < snapRows[k].week
      BY <1>6, <3>1 DEF WeekByWeek
    <3> QED BY <2>1, <3>2, RowsStay
  <2>2. CASE k \notin DOMAIN snapRows
    <3>1. PICK r \in SnapRuns :
            /\ At(r, "insert") /\ DOMAIN snapRows' = DOMAIN snapRows \cup {k}
            /\ snapRows'[k].job = snapRun[r].job /\ snapRows'[k].tiers = snapRun[r].tiers /\ snapRows'[k].week = week
      BY <2>0, <2>2, AddedRow
    <3>2. i \in DOMAIN snapRows
      <4>1. snapRows' \in Seq(Row)
        BY SnTypeStep DEF SnTyped
      <4>2. i \in Nat /\ k \in Nat
        BY <2>0, <4>1, PositionsFinite
      <4> QED BY <1>6, <2>0, <3>1, <4>2
    <3>3. i \in Weekly(j) /\ "weekly" \in snapRun[r].tiers
      BY <3>1, <3>2, WeeklyStays DEF WeeklyNext
    <3>4. snapRows[i].week < week
      BY <1>2, <1>6, <2>0, <3>1, <3>3 DEF TiersKnown
    <3> QED BY <3>1, <3>2, <3>4, RowsStay
  <2>3. CASE i \notin DOMAIN snapRows
    <3>1. DOMAIN snapRows' = DOMAIN snapRows \cup {i} /\ \A h \in DOMAIN snapRows : h < i
      BY <2>0, <2>3, AddedRow
    <3>2. snapRows' \in Seq(Row)
      BY SnTypeStep DEF SnTyped
    <3>3. i \in Nat /\ k \in Nat
      BY <2>0, <3>2, PositionsFinite
    <3> QED BY <1>6, <2>0, <3>1, <3>3
  <2> QED BY <2>1, <2>2, <2>3
<1>7. \A q \in SnapRuns : snapRun'[q].pc = "insert" => TiersKnownNext(q)
  BY TiersKnownStep
<1> QED BY <1>3, <1>4, <1>5, <1>6, <1>7
-----------------------------------------------------------------------------
LEMMA SnInvInit == SnInit => SnInv
<1> SUFFICES ASSUME SnInit PROVE SnInv
  OBVIOUS
<1>1. SnTyped
  BY SnTypeInit
<1>2. /\ snapRows = << >> /\ DOMAIN snapRows = {} /\ snaps = {} /\ deletions = {}
      /\ \A r \in SnapRuns : snapRun[r] = NoRun
  BY DEF SnInit
<1>3. \A j : RowsOf(j) = {} /\ Weekly(j) = {}
  BY <1>2 DEF RowsOf, Weekly
<1>4. made = 0
  BY DEF SnInit
<1>5. Named /\ Sparing
  BY <1>2, <1>4, NoRunShaped DEF Named, Sparing
<1>6. FloorThere /\ OneByOne /\ Known
  BY <1>2, <1>3, NoRunShaped DEF FloorThere, OneByOne, Known, Floor, Newest, Naming, At
<1>7. WeekByWeek
  BY <1>2, <1>3, NoRunShaped DEF WeekByWeek, At
<1> QED BY <1>1, <1>5, <1>6, <1>7 DEF SnInv

LEMMA SnInvStep == SnInv /\ [SnNext]_snVars => SnInv'
<1> SUFFICES ASSUME SnInv, [SnNext]_snVars PROVE SnInv'
  OBVIOUS
<1>1. CASE SnNext
  BY <1>1, SnTypeStep, NamedStep, SparingStep, FloorThereStep, OneByOneStep, KnownStep, WeekByWeekStep DEF SnInv
<1>2. CASE UNCHANGED snVars
  <2>1. SnTyped'
    BY <1>2, SnTypeStep DEF SnInv
  <2>2. Named' /\ Sparing'
    BY <1>2 DEF snVars, SnInv, Named, Sparing, Floor, RowsOf, Newest
  <2>3. FloorThere' /\ OneByOne' /\ Known'
    BY <1>2 DEF snVars, SnInv, FloorThere, OneByOne, Known, Floor, RowsOf, Newest, At, Untouched
  <2>4. WeekByWeek'
    <3>1. /\ snapRows' = snapRows /\ snaps' = snaps /\ snapRun' = snapRun /\ week' = week
          /\ snDeployment' = snDeployment /\ deletions' = deletions
      BY <1>2 DEF snVars
    <3>2. \A j : RowsNext(j) = RowsOf(j)
      BY <3>1 DEF RowsNext, RowsOf
    <3>3. \A j : WeeklyNext(j) = Weekly(j)
      BY <3>1, <3>2 DEF WeeklyNext, Weekly
    <3>4. \A j, w : NewerNext(j, w) = Newer(j, w)
      BY <3>1, <3>2 DEF NewerNext, Newer
    <3>5. \A i : SupersededNext(i) = Superseded(i)
      BY <3>1, <3>4 DEF SupersededNext, Superseded
    <3>9. \A i : GivenUpNext(i) = GivenUp(i)
      BY <3>1 DEF GivenUpNext, GivenUp
    <3>6. \A q : TiersKnownNext(q) = TiersKnown(q)
      BY <3>1, <3>3 DEF TiersKnownNext, TiersKnown
    <3> SUFFICES ASSUME Untouched, ~snDeployment.overlap
                 PROVE  /\ \A j \in SnapJobs : \A i \in RowsNext(j) :
                             \E k \in WeeklyNext(j) : snapRows'[k].week = snapRows'[i].week
                        /\ \A j \in SnapJobs : \A i \in WeeklyNext(j) : GivenUpNext(i) => SupersededNext(i)
                        /\ \A q \in SnapRuns : \A i \in snapRun'[q].todo \cup snapRun'[q].gone :
                             "weekly" \in snapRows'[i].tiers => SupersededNext(i)
                        /\ KeepTier["weekly"] # 0 =>
                             \A j \in SnapJobs : \A i, k \in WeeklyNext(j) : i < k => snapRows'[i].week < snapRows'[k].week
                        /\ \A q \in SnapRuns : snapRun'[q].pc = "insert" => TiersKnownNext(q)
      BY <3>1 DEF WeekByWeek, Untouched, Weekly, RowsOf, Superseded, Newer, WeeklyNext, RowsNext, SupersededNext,
         NewerNext, GivenUp, GivenUpNext, TiersKnownNext, At
    <3>7. WeekByWeek
      BY DEF SnInv
    <3>8. \A q \in SnapRuns : snapRun[q].pc = "insert" => TiersKnown(q)
      BY <3>7 DEF WeekByWeek, TiersKnown, At
    <3> QED BY <3>1, <3>2, <3>3, <3>5, <3>6, <3>7, <3>8, <3>9 DEF WeekByWeek
  <2> QED BY <2>1, <2>2, <2>3, <2>4 DEF SnInv
<1> QED BY <1>1, <1>2

\* The invariant of the snapshots: names and weeks of the rows, what a rotation may still
\* delete, and of every weekly snapshot that is gone as many newer weeks as the tier keeps
\* (_process_vm_target, compute_gfs_tiers, determine_keep_set, _rotate_native_for_target).
THEOREM SnInvariance == SnSpec => []SnInv
<1> QED BY SnInvInit, SnInvStep, PTL DEF SnSpec

\* Rotation neither forgets a snapshot nor deletes one of the floor or the last one of a
\* week that is kept (_rotate_native_for_target, sync_external_state).
THEOREM RotationSoundSafe == SnSpec => []RotationSound
<1>1. SnInv => RotationSound
  <2> SUFFICES ASSUME SnInv PROVE RotationSound
    OBVIOUS
  <2>1. SnTypeOK
    <3>1. \A r \in SnapRuns : /\ snapRun[r].pc \in SnPcs /\ snapRun[r].job \in SnapJobs \cup {None}
                              /\ snapRun[r].todo \cup snapRun[r].gone \subseteq DOMAIN snapRows
      BY DEF SnInv, SnTyped, SnRun
    <3>2. snaps \subseteq 1..MaxSnaps
      BY SnapshotsAssumption DEF SnInv, SnTyped
    <3> QED BY <3>1, <3>2 DEF SnInv, SnTyped, SnTypeOK, SnPcs
  <2>2. NothingLeaks
    BY DEF SnInv, Known, NothingLeaks
  <2>3. FloorKept
    <3>1. ASSUME Untouched, NEW j \in SnapJobs, NEW i \in Floor(j) PROVE snapRows[i].name \in snaps
      BY <3>1 DEF SnInv, FloorThere
    <3> QED BY <3>1 DEF FloorKept, Untouched, Floor, RowsOf
  <2>4. WeeksKept
    <3>1. ASSUME Untouched, ~snDeployment.overlap, NEW j \in SnapJobs, NEW w \in {snapRows[i].week : i \in RowsOf(j)},
                 Cardinality(Newer(j, w)) < KeepTier["weekly"]
          PROVE  \E i \in RowsOf(j) : snapRows[i].week = w /\ snapRows[i].name \in snaps
      <4>1. PICK i \in RowsOf(j) : snapRows[i].week = w
        OBVIOUS
      <4>2. PICK k \in Weekly(j) : snapRows[k].week = w
        BY <3>1, <4>1 DEF SnInv, WeekByWeek
      <4>3. k \in RowsOf(j) /\ snapRows[k].job = j
        BY DEF Weekly, RowsOf
      <4>4. ASSUME snapRows[k].name \notin snaps PROVE FALSE
        <5>1. Superseded(k)
          BY <3>1, <4>4 DEF SnInv, WeekByWeek, GivenUp
        <5>2. Cardinality(Newer(j, w)) >= KeepTier["weekly"]
          BY <4>2, <4>3, <5>1 DEF Superseded
        <5>3. IsFiniteSet(Newer(j, w))
          BY NewerFinite DEF Newer, RowsOf, SnInv, SnTyped
        <5>4. Cardinality(Newer(j, w)) \in Nat /\ KeepTier["weekly"] \in Nat
          BY <5>3, FS_CardinalityType, SnapshotsAssumption DEF Tiers
        <5> QED BY <3>1, <5>2, <5>4
      <4> QED BY <4>2, <4>3, <4>4
    <3> QED BY <3>1 DEF WeeksKept, Untouched, RowsOf, Newer
  <2> QED BY <2>1, <2>2, <2>3, <2>4 DEF RotationSound
<1> QED BY <1>1, SnInvariance, PTL
=============================================================================
