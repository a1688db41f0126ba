--------------------------- MODULE AccessProofs -----------------------------
(***************************************************************************)
(* Who may do what: a pool stays within its number of VMs and has no owner *)
(* who is gone, for any number of pools, VMs, subjects, deployments and    *)
(* quotas; the resolvers of playbook permissions give an answer that was   *)
(* right at some moment between question and answer, for any number of     *)
(* users, groups, playbooks, questions and changes.                        *)
(***************************************************************************)
EXTENDS Pools, PlaybookPermissions, FiniteSetTheorems, TLAPS

(***************************************************************************)
(* Pools and quotas.                                                       *)
(***************************************************************************)

EditInfo == [op : {"create", "update"}, pool : PoolIds, row : Pool, keep : BOOLEAN]

\* A change under way is a creation or an update, and only an update keeps the owner.
EditTyped == edit = NoEdit \/ (edit \in EditInfo /\ (edit.keep => edit.op = "update"))

\* Ids were handed out in order, and a deployment under way names its pool.
Numbered == \A m \in members : m.id <= rowsMade
Admitted == \A d \in Deploys : deploys[d].pc # "idle" => deploys[d].pool \in PoolIds

PoTyped == PoTypeOK /\ EditTyped /\ Numbered /\ Admitted

\* The foreign key.
Parents == \A m \in members : pools[m.pool] # None

\* Deployments that do not overlap are one at a time.
SoleDeploy ==
  ~poDeployment.overlap => \A d, e \in Deploys :
    deploys[d].pc # "idle" /\ deploys[e].pc # "idle" => d = e

\* Nobody but deployments fills pools, one at a time.
Filling == ~poDeployment.overlap /\ ~poDeployment.managers /\ ~poDeployment.races

Taken(p) == MemberVms(p) \ Templates

Within(p, n) == pools[p].quota.vms > 0 => Cardinality(Taken(p)) + n <= pools[p].quota.vms

\* What a deployment was let in for is still free.
RoomKept ==
  Filling => \A d \in Deploys, p \in PoolIds :
    deploys[d].pc # "idle" /\ ~deploys[d].stack /\ deploys[d].pool = p /\ pools[p] # None
      => Within(p, 1)

\* A pool is within its quota.
QuotaKept == Filling => \A p \in PoolIds : pools[p] # None => Within(p, 0)

\* The pool that is being changed is still as empty as it was found.
EditsEmpty ==
  ~poDeployment.managers /\ ~poDeployment.races /\ edit # NoEdit => MembersOf(edit.pool) = {}

\* Without races, owners - also the one a change is about to write - are neither gone
\* nor about to go.
OwnersHere ==
  ~poDeployment.races =>
    /\ \A p \in PoolIds : pools[p] # None /\ pools[p].owner # None
                            => subjects[pools[p].owner] = "here"
    /\ edit # NoEdit /\ ~edit.keep /\ edit.row.owner # None => subjects[edit.row.owner] = "here"
    /\ edit # NoEdit => \A s \in Subjects : subjects[s] # "going"

PoInv == PoTyped /\ Parents /\ SoleDeploy /\ RoomKept /\ QuotaKept /\ EditsEmpty /\ OwnersHere
-----------------------------------------------------------------------------
(***************************************************************************)
(* Types.                                                                  *)
(***************************************************************************)
\* The bounds of the deployment that was chosen.
LEMMA Bounds ==
  ASSUME PoTypeOK
  PROVE  /\ poDeployment.vms \subseteq Vms /\ poDeployment.pools \subseteq PoolIds
         /\ poDeployment.quotas \subseteq Quotas
         /\ poDeployment.overlap \in BOOLEAN /\ poDeployment.managers \in BOOLEAN
         /\ poDeployment.races \in BOOLEAN /\ poDeployment.sqlite \in BOOLEAN
BY PoolsAssumption DEF PoTypeOK

\* The next id is at most one more than there were rows.
LEMMA NextIdBound == ASSUME PoTyped PROVE NextId \in 1..rowsMade + 1
<1> DEFINE K == {k \in 1..MaxRows : \E m \in members : m.id >= k}
<1>0. rowsMade \in 0..MaxRows /\ members \subseteq Member /\ Numbered
  BY DEF PoTyped, PoTypeOK
<1>a. rowsMade \in Nat /\ MaxRows \in Nat
  BY <1>0, PoolsAssumption
<1>1. K \subseteq 1..rowsMade
  BY <1>0, <1>a DEF Numbered, Member
<1>2. IsFiniteSet(1..rowsMade) /\ Cardinality(1..rowsMade) = rowsMade
  BY <1>a, FS_Interval
<1>3. Cardinality(K) \in Nat /\ Cardinality(K) <= rowsMade
  BY <1>1, <1>2, FS_Subset, FS_CardinalityType
<1> QED BY <1>a, <1>3 DEF NextId

\* An insert keeps the rows to their types and their numbers in order.
LEMMA InsertTyped ==
  ASSUME PoTyped, NEW vm \in Vms, NEW p \in PoolIds, InsertMember(vm, p)
  PROVE  members' \subseteq Member /\ rowsMade' \in 0..MaxRows /\ Numbered'
<1> DEFINE k == NextId
<1>1. k \in 1..rowsMade + 1
  BY NextIdBound
<1>2. /\ members \subseteq Member /\ rowsMade \in 0..MaxRows /\ Numbered /\ MaxRows \in Nat
      /\ rowsMade < MaxRows /\ rowsMade' = rowsMade + 1
      /\ members' = members \cup {[id |-> k, vm |-> vm, pool |-> p]}
  BY PoolsAssumption DEF PoTyped, PoTypeOK, InsertMember
<1> HIDE DEF k
<1>3. [id |-> k, vm |-> vm, pool |-> p] \in Member
  BY <1>1, <1>2 DEF Member
<1>4. \A m \in members : m.id \in 1..MaxRows
  BY <1>2 DEF Member
<1> QED BY <1>1, <1>2, <1>3, <1>4 DEF Numbered

\* Several inserts at once.
LEMMA AddTyped ==
  ASSUME PoTyped, NEW p \in PoolIds, NEW vms \in SUBSET Vms, AddPoolMembers(p, vms)
  PROVE  members' \subseteq Member /\ rowsMade' \in 0..MaxRows /\ Numbered'
<1> DEFINE n == Cardinality(vms)
<1>0. /\ members \subseteq Member /\ rowsMade \in 0..MaxRows /\ Numbered /\ MaxRows \in Nat
      /\ rowsMade + n <= MaxRows /\ rowsMade' = rowsMade + n
  BY PoolsAssumption DEF PoTyped, PoTypeOK, AddPoolMembers
<1>1. n \in Nat
  BY PoolsAssumption, FS_Subset, FS_CardinalityType
<1>2. PICK first \in {NextId} : \E number \in [vms -> first..first + n - 1] :
         members' = members \cup {[id |-> number[vm], vm |-> vm, pool |-> p] : vm \in vms}
  BY DEF AddPoolMembers
<1>3. PICK number \in [vms -> first..first + n - 1] :
         members' = members \cup {[id |-> number[vm], vm |-> vm, pool |-> p] : vm \in vms}
  BY <1>2
<1>4. first \in 1..rowsMade + 1
  BY NextIdBound, <1>2
<1> HIDE DEF n
<1>5. \A vm \in vms : number[vm] \in 1..MaxRows /\ number[vm] <= rowsMade'
  BY <1>0, <1>1, <1>3, <1>4
<1>6. \A vm \in vms : [id |-> number[vm], vm |-> vm, pool |-> p] \in Member
  BY <1>5 DEF Member
<1>7. \A m \in members : m.id \in 1..MaxRows
  BY <1>0 DEF Member
<1>8. \A m \in members' : m \in Member /\ m.id <= rowsMade'
  <2> TAKE m \in members'
  <2>1. CASE m \in members
    BY <1>0, <1>1, <1>7, <2>1 DEF Numbered
  <2>2. CASE \E vm \in vms : m = [id |-> number[vm], vm |-> vm, pool |-> p]
    BY <1>5, <1>6, <2>2
  <2> QED BY <1>3, <2>1, <2>2
<1> QED BY <1>0, <1>1, <1>8 DEF Numbered

\* The parts of PoTyped that concern the rows of members, and the rest.
RowsTyped == members \subseteq Member /\ rowsMade \in 0..MaxRows /\ Numbered

WorldTyped ==
  /\ poDeployment \in PoolDeployments
  /\ subjects \in [Subjects -> {"here", "going", "gone"}]
  /\ presets \subseteq Presets
  /\ nodeRow \in BOOLEAN
  /\ cluster \subseteq Vms /\ cache \subseteq Vms
  /\ grants \subseteq Grant
  /\ sync \in [pc : {"idle", "got", "found"}, live : SUBSET Vms, orphans : SUBSET (1..MaxRows)]

PoolsTyped == pools \in [PoolIds -> Pool \cup {None}] /\ EditTyped

DeploysTyped == deploys \in [Deploys -> Deploy] /\ Admitted

\* A step of the pools: the ones that PoNext combines.
LEMMA Flat ==
  ASSUME PoTypeOK, PoNext
  PROVE  \/ CommitPool
         \/ \E s \in Subjects : SubjectGone(s)
         \/ /\ poDeployment.races \/ (edit = NoEdit /\ \A s \in Subjects : subjects[s] # "going")
            /\ \/ \E p \in PoolIds :
                    \/ \E q \in Quotas, o \in Subjects \cup {None} :
                         edit = NoEdit /\ (BeginCreate(p, q, o) \/ BeginUpdate(p, q, o))
                    \/ DeletePool(p)
                    \/ \E vms \in SUBSET Vms : AddPoolMembers(p, vms)
                    \/ \E vm \in Vms : RemovePoolMember(p, vm) \/ MoveVmPool(vm, p)
                    \/ \E s \in Subjects : \/ \E r \in Presets : AddPoolAssignment(p, s, r)
                                           \/ RemovePoolAssignment(p, s)
               \/ \E d \in Deploys :
                    \/ \E p \in PoolIds, vms \in SUBSET Vms, b \in BOOLEAN :
                         AdmitDeploy(d, p, vms, b)
                    \/ MakeVms(d) \/ DeployFails(d) \/ AutoAdd(d)
               \/ \E vm \in Vms : MoveOut(vm) \/ VmGone(vm)
               \/ RefreshCache \/ FindOrphans \/ RemoveOrphans
               \/ \E s \in Subjects : CleanupSubject(s)
               \/ \E r \in Presets : PresetDeleted(r)
               \/ NodeRowDeleted
<1> DEFINE OfPool(p) == \/ \E q \in Quotas, o \in Subjects \cup {None} :
                             edit = NoEdit /\ (BeginCreate(p, q, o) \/ BeginUpdate(p, q, o))
                        \/ DeletePool(p)
                        \/ \E vms \in SUBSET Vms : AddPoolMembers(p, vms)
                        \/ \E vm \in Vms : RemovePoolMember(p, vm) \/ MoveVmPool(vm, p)
                        \/ \E s \in Subjects : \/ \E r \in Presets : AddPoolAssignment(p, s, r)
                                               \/ RemovePoolAssignment(p, s)
           OfDeploy(d) == \/ \E p \in PoolIds, vms \in SUBSET Vms, b \in BOOLEAN :
                               AdmitDeploy(d, p, vms, b)
                          \/ MakeVms(d) \/ DeployFails(d) \/ AutoAdd(d)
<1>1. /\ poDeployment.vms \subseteq Vms /\ poDeployment.pools \subseteq PoolIds
      /\ poDeployment.quotas \subseteq Quotas
  BY Bounds
<1>2. ASSUME NEW p \in poDeployment.pools, PoolStep(p) PROVE p \in PoolIds /\ OfPool(p)
  BY <1>1, <1>2 DEF PoolStep
<1>3. ASSUME NEW d \in Deploys, DeployStep(d) PROVE OfDeploy(d)
  BY <1>1, <1>3 DEF DeployStep
<1> HIDE DEF OfPool, OfDeploy
<1>4. (\E p \in poDeployment.pools : PoolStep(p)) => \E p \in PoolIds : OfPool(p)
  BY <1>2
<1>5. (\E d \in Deploys : DeployStep(d)) => \E d \in Deploys : OfDeploy(d)
  BY <1>3
<1>6. \/ CommitPool
      \/ \E s \in Subjects : SubjectGone(s)
      \/ /\ poDeployment.races \/ (edit = NoEdit /\ \A s \in Subjects : subjects[s] # "going")
         /\ \/ \E p \in PoolIds : OfPool(p)
            \/ \E d \in Deploys : OfDeploy(d)
            \/ \E vm \in Vms : MoveOut(vm) \/ VmGone(vm)
            \/ RefreshCache \/ FindOrphans \/ RemoveOrphans
            \/ \E s \in Subjects : CleanupSubject(s)
            \/ \E r \in Presets : PresetDeleted(r)
            \/ NodeRowDeleted
  BY <1>4, <1>5 DEF PoNext
<1> USE DEF OfPool, OfDeploy
<1> QED BY <1>6

\* How a step changes the rows of members: by removing some, by an insert of a deployment
\* that ends, or by a manager.
Fewer == members' \subseteq members /\ rowsMade' = rowsMade

Joins(d) ==
  /\ deploys[d].pc = "made" /\ ~deploys[d].stack
  /\ deploys' = [deploys EXCEPT ![d] = NoDeploy]
  /\ \E vm \in deploys[d].vms : Insertable(vm, deploys[d].pool) /\ InsertMember(vm, deploys[d].pool)
  /\ UNCHANGED <<pools, grants, sync, edit, poWorld>>

Managing ==
  /\ poDeployment.managers
  /\ \E p \in PoolIds : \/ \E vms \in SUBSET Vms : AddPoolMembers(p, vms)
                        \/ \E vm \in Vms : MoveVmPool(vm, p)

\* Every step does one of the three.
LEMMA MembersStep ==
  ASSUME PoTypeOK, PoNext
  PROVE  Fewer \/ (\E d \in Deploys : Joins(d)) \/ Managing
<1> USE DEF Fewer
<1>1. ASSUME CommitPool PROVE Fewer
  BY <1>1 DEF CommitPool
<1>2. ASSUME NEW s \in Subjects, SubjectGone(s) PROVE Fewer
  BY <1>2 DEF SubjectGone
<1>3. ASSUME NEW p \in PoolIds, NEW q, NEW o, BeginCreate(p, q, o) \/ BeginUpdate(p, q, o) PROVE Fewer
  BY <1>3 DEF BeginCreate, BeginUpdate
<1>4. ASSUME NEW p \in PoolIds, DeletePool(p) PROVE Fewer
  BY <1>4 DEF DeletePool
<1>5. ASSUME NEW p \in PoolIds, NEW vms \in SUBSET Vms, AddPoolMembers(p, vms)
      PROVE  Managing
  <2>1. poDeployment.managers
    BY <1>5 DEF AddPoolMembers
  <2> QED BY <1>5, <2>1 DEF Managing
<1>6. ASSUME NEW p \in PoolIds, NEW vm \in Vms, RemovePoolMember(p, vm) PROVE Fewer
  BY <1>6 DEF RemovePoolMember
<1>7. ASSUME NEW p \in PoolIds, NEW vm \in Vms, MoveVmPool(vm, p) PROVE Managing
  <2>1. poDeployment.managers
    BY <1>7 DEF MoveVmPool
  <2> QED BY <1>7, <2>1 DEF Managing
<1>8. ASSUME NEW p, NEW s, NEW r, AddPoolAssignment(p, s, r) \/ RemovePoolAssignment(p, s) PROVE Fewer
  BY <1>8 DEF AddPoolAssignment, RemovePoolAssignment
<1>9. ASSUME NEW d, NEW p, NEW vms, NEW b, AdmitDeploy(d, p, vms, b) PROVE Fewer
  BY <1>9 DEF AdmitDeploy
<1>10. ASSUME NEW d, MakeVms(d) \/ DeployFails(d) PROVE Fewer
  BY <1>10 DEF MakeVms, DeployFails
<1>11. ASSUME NEW d \in Deploys, AutoAdd(d) PROVE Fewer \/ Joins(d)
  <2>1. PICK vm \in deploys[d].vms :
          IF ~deploys[d].stack /\ Insertable(vm, deploys[d].pool)
          THEN InsertMember(vm, deploys[d].pool) ELSE UNCHANGED <<members, rowsMade>>
    BY <1>11 DEF AutoAdd
  <2>2. CASE ~deploys[d].stack /\ Insertable(vm, deploys[d].pool)
    <3>1. Joins(d)
      BY <1>11, <2>1, <2>2 DEF AutoAdd, Joins
    <3> QED BY <3>1
  <2>3. CASE ~(~deploys[d].stack /\ Insertable(vm, deploys[d].pool))
    BY <2>1, <2>3
  <2> QED BY <2>2, <2>3
<1>12. ASSUME NEW vm, MoveOut(vm) \/ VmGone(vm) PROVE Fewer
  <2>1. MoveOut(vm) => Fewer
    BY DEF MoveOut
  <2>2. VmGone(vm) => Fewer
    BY DEF VmGone
  <2> QED BY <1>12, <2>1, <2>2
<1>13. ASSUME RefreshCache \/ FindOrphans PROVE Fewer
  BY <1>13 DEF RefreshCache, FindOrphans
<1>14. ASSUME RemoveOrphans PROVE Fewer
  BY <1>14 DEF RemoveOrphans
<1>15. ASSUME NEW s, CleanupSubject(s) PROVE Fewer
  BY <1>15 DEF CleanupSubject
<1>16. ASSUME NEW r, PresetDeleted(r) PROVE Fewer
  BY <1>16 DEF PresetDeleted
<1>17. ASSUME NodeRowDeleted PROVE Fewer
  BY <1>17 DEF NodeRowDeleted
<1> HIDE DEF Fewer
<1> QED BY <1>1, <1>2, <1>3, <1>4, <1>5, <1>6, <1>7, <1>8, <1>9, <1>10, <1>11, <1>12, <1>13, <1>14,
           <1>15, <1>16, <1>17, Flat

\* How a step changes the pools and the change under way, the subjects and the deployment.
Begins(p, q, o) ==
  /\ edit = NoEdit
  /\ poDeployment.races \/ \A s \in Subjects : subjects[s] # "going"
  /\ BeginCreate(p, q, o) \/ BeginUpdate(p, q, o)

Removed(p) ==
  /\ poDeployment.races \/ edit = NoEdit
  /\ edit' = edit
  /\ pools' = [pools EXCEPT ![p] = None] /\ members' = members \ MembersOf(p)
  /\ UNCHANGED <<subjects, deploys>>

Cleans(s) ==
  /\ poDeployment.races \/ edit = NoEdit
  /\ CleanupSubject(s)

LEMMA PoolsStep ==
  ASSUME PoTypeOK, PoNext
  PROVE  /\ poDeployment' = poDeployment
         /\ \/ CommitPool
            \/ \E p \in PoolIds, q \in Quotas, o \in Subjects \cup {None} : Begins(p, q, o)
            \/ \E p \in PoolIds : Removed(p)
            \/ \E s \in Subjects : Cleans(s)
            \/ \E s \in Subjects : SubjectGone(s)
            \/ UNCHANGED <<pools, edit, subjects>>
<1> DEFINE Same == UNCHANGED <<poDeployment, pools, edit, subjects>>
<1>1. ASSUME CommitPool PROVE poDeployment' = poDeployment
  BY <1>1 DEF CommitPool, poWorld
<1>2. ASSUME NEW s, SubjectGone(s) PROVE poDeployment' = poDeployment
  BY <1>2 DEF SubjectGone
<1>3. ASSUME NEW p, NEW q, NEW o, BeginCreate(p, q, o) \/ BeginUpdate(p, q, o)
      PROVE  poDeployment' = poDeployment
  BY <1>3 DEF BeginCreate, BeginUpdate, poWorld
<1>4. ASSUME NEW p, poDeployment.races \/ edit = NoEdit, DeletePool(p)
      PROVE  poDeployment' = poDeployment /\ Removed(p)
  BY <1>4 DEF DeletePool, Removed, poWorld
<1>5. ASSUME NEW p, NEW vms, AddPoolMembers(p, vms) PROVE Same
  BY <1>5 DEF AddPoolMembers, poWorld
<1>6. ASSUME NEW p, NEW vm, RemovePoolMember(p, vm) PROVE Same
  BY <1>6 DEF RemovePoolMember, poWorld
<1>7. ASSUME NEW p, NEW vm, MoveVmPool(vm, p) PROVE Same
  BY <1>7 DEF MoveVmPool, poWorld
<1>8. ASSUME NEW p, NEW s, NEW r, AddPoolAssignment(p, s, r) \/ RemovePoolAssignment(p, s) PROVE Same
  BY <1>8 DEF AddPoolAssignment, RemovePoolAssignment, poWorld
<1>9. ASSUME NEW d, NEW p, NEW vms, NEW b, AdmitDeploy(d, p, vms, b) PROVE Same
  BY <1>9 DEF AdmitDeploy, poWorld
<1>10. ASSUME NEW d, MakeVms(d) \/ DeployFails(d) \/ AutoAdd(d) PROVE Same
  BY <1>10 DEF MakeVms, DeployFails, AutoAdd, poWorld
<1>12. ASSUME NEW vm, MoveOut(vm) \/ VmGone(vm) PROVE Same
  BY <1>12 DEF MoveOut, VmGone, poWorld
<1>13. ASSUME RefreshCache \/ FindOrphans \/ RemoveOrphans PROVE Same
  BY <1>13 DEF RefreshCache, FindOrphans, RemoveOrphans, poWorld
<1>15. ASSUME NEW s, CleanupSubject(s) PROVE poDeployment' = poDeployment
  BY <1>15 DEF CleanupSubject
<1>16. ASSUME NEW r, PresetDeleted(r) PROVE Same
  BY <1>16 DEF PresetDeleted
<1>17. ASSUME NodeRowDeleted PROVE Same
  BY <1>17 DEF NodeRowDeleted
<1> HIDE DEF Same
<1>18. Same => poDeployment' = poDeployment /\ UNCHANGED <<pools, edit, subjects>>
  BY DEF Same
<1> QED BY <1>1, <1>2, <1>3, <1>4, <1>5, <1>6, <1>7, <1>8, <1>9, <1>10, <1>12, <1>13,
           <1>15, <1>16, <1>17, <1>18, Flat DEF Begins, Cleans

\* How a step changes the deployments.
Quiet == deploys' = deploys
Ends(d) == deploys' = [deploys EXCEPT ![d] = NoDeploy]
Makes(d) == deploys[d].pc = "running" /\ deploys' = [deploys EXCEPT ![d].pc = "made"]

LEMMA DeploysStep ==
  ASSUME PoTypeOK, PoNext
  PROVE  \/ Quiet
         \/ \E d \in Deploys : Ends(d) \/ Makes(d)
         \/ \E d \in Deploys, p \in PoolIds, vms \in SUBSET Vms, b \in BOOLEAN : AdmitDeploy(d, p, vms, b)
<1>1. ASSUME CommitPool PROVE Quiet
  BY <1>1 DEF CommitPool, Quiet
<1>2. ASSUME NEW s, SubjectGone(s) \/ CleanupSubject(s) PROVE Quiet
  BY <1>2 DEF SubjectGone, CleanupSubject, Quiet
<1>3. ASSUME NEW p, NEW q, NEW o, BeginCreate(p, q, o) \/ BeginUpdate(p, q, o) PROVE Quiet
  BY <1>3 DEF BeginCreate, BeginUpdate, Quiet
<1>4. ASSUME NEW p, DeletePool(p) PROVE Quiet
  BY <1>4 DEF DeletePool, Quiet
<1>5. ASSUME NEW p, NEW vms, AddPoolMembers(p, vms) PROVE Quiet
  BY <1>5 DEF AddPoolMembers, Quiet
<1>6. ASSUME NEW p, NEW vm, RemovePoolMember(p, vm) \/ MoveVmPool(vm, p) PROVE Quiet
  BY <1>6 DEF RemovePoolMember, MoveVmPool, Quiet
<1>8. ASSUME NEW p, NEW s, NEW r, AddPoolAssignment(p, s, r) \/ RemovePoolAssignment(p, s) PROVE Quiet
  BY <1>8 DEF AddPoolAssignment, RemovePoolAssignment, Quiet
<1>10. ASSUME NEW d, MakeVms(d) PROVE Makes(d)
  BY <1>10 DEF MakeVms, Makes
<1>11. ASSUME NEW d, DeployFails(d) \/ AutoAdd(d) PROVE Ends(d)
  BY <1>11 DEF DeployFails, AutoAdd, Ends
<1>12. ASSUME NEW vm, MoveOut(vm) \/ VmGone(vm) PROVE Quiet
  BY <1>12 DEF MoveOut, VmGone, Quiet
<1>13. ASSUME RefreshCache \/ FindOrphans \/ RemoveOrphans \/ NodeRowDeleted PROVE Quiet
  BY <1>13 DEF RefreshCache, FindOrphans, RemoveOrphans, NodeRowDeleted, Quiet
<1>16. ASSUME NEW r, PresetDeleted(r) PROVE Quiet
  BY <1>16 DEF PresetDeleted, Quiet
<1> QED BY <1>1, <1>2, <1>3, <1>4, <1>5, <1>6, <1>8, <1>10, <1>11, <1>12, <1>13, <1>16, Flat

\* The rows of members keep their types.
LEMMA RowsStep == ASSUME PoTyped, PoNext PROVE RowsTyped'
<1> USE DEF RowsTyped
<1>0. PoTypeOK /\ RowsTyped /\ DeploysTyped /\ MaxRows \in Nat
  BY PoolsAssumption DEF PoTyped, PoTypeOK, DeploysTyped
<1>1. ASSUME Fewer PROVE RowsTyped'
  BY <1>0, <1>1 DEF Fewer, Numbered
<1>2. ASSUME NEW d \in Deploys, Joins(d) PROVE RowsTyped'
  <2>1. PICK vm \in deploys[d].vms : InsertMember(vm, deploys[d].pool)
    BY <1>2 DEF Joins
  <2>2. deploys[d] \in Deploy /\ deploys[d].pool \in PoolIds
    BY <1>0, <1>2 DEF Joins, DeploysTyped, Admitted
  <2>3. vm \in Vms
    BY <2>2 DEF Deploy
  <2> QED BY <2>1, <2>2, <2>3, InsertTyped
<1>3. ASSUME NEW p \in PoolIds, NEW vms \in SUBSET Vms, AddPoolMembers(p, vms) PROVE RowsTyped'
  BY <1>3, AddTyped
<1>4. ASSUME NEW p \in PoolIds, NEW vm \in Vms, MoveVmPool(vm, p) PROVE RowsTyped'
  <2>1. CASE \E m \in members : m.vm = vm
    <3>1. /\ members' = {IF m.vm = vm THEN [m EXCEPT !.pool = p] ELSE m : m \in members}
          /\ rowsMade' = rowsMade
      BY <1>4, <2>1 DEF MoveVmPool
    <3>2. \A m \in members : LET n == IF m.vm = vm THEN [m EXCEPT !.pool = p] ELSE m
                            IN  n \in Member /\ n.id = m.id
      BY <1>0 DEF Member
    <3> QED BY <1>0, <3>1, <3>2 DEF Numbered
  <2>2. CASE ~\E m \in members : m.vm = vm
    BY <1>4, <2>2, InsertTyped DEF MoveVmPool
  <2> QED BY <2>1, <2>2
<1> QED BY <1>0, <1>1, <1>2, <1>3, <1>4, MembersStep DEF Managing

\* What a change writes.
NewRow == [edit.row EXCEPT !.owner = IF edit.keep THEN pools[edit.pool].owner ELSE @]

LEMMA Commits ==
  ASSUME PoTyped, CommitPool
  PROVE  /\ edit \in EditInfo /\ edit' = NoEdit /\ edit # NoEdit
         /\ UNCHANGED <<members, subjects, deploys, poDeployment>>
         /\ pools' = pools \/ (pools' = [pools EXCEPT ![edit.pool] = NewRow] /\ NewRow \in Pool)
         /\ NewRow.owner = IF edit.keep THEN pools[edit.pool].owner ELSE edit.row.owner
         /\ pools' # pools /\ edit.keep => pools[edit.pool] \in Pool
<1>1. edit # NoEdit /\ edit' = NoEdit /\ UNCHANGED <<members, subjects, deploys, poDeployment>>
  BY DEF CommitPool, poWorld
<1>2. edit \in EditInfo /\ (edit.keep => edit.op = "update")
  BY <1>1 DEF PoTyped, EditTyped
<1>3. edit.row \in Pool /\ edit.pool \in PoolIds
  BY <1>2 DEF EditInfo
<1>4. NewRow.owner = IF edit.keep THEN pools[edit.pool].owner ELSE edit.row.owner
  BY <1>3 DEF NewRow, Pool
<1>5. CASE edit.op = "update" /\ pools[edit.pool] = None
  <2>1. pools' = pools
    BY <1>5 DEF CommitPool
  <2> QED BY <1>1, <1>2, <1>4, <2>1
<1>6. CASE ~(edit.op = "update" /\ pools[edit.pool] = None)
  <2>1. pools' = [pools EXCEPT ![edit.pool] = NewRow]
    BY <1>6 DEF CommitPool, NewRow
  <2>2. edit.keep => pools[edit.pool] \in Pool
    BY <1>2, <1>3, <1>6 DEF PoTyped, PoTypeOK
  <2>3. (IF edit.keep THEN pools[edit.pool].owner ELSE edit.row.owner) \in Subjects \cup {None}
    BY <1>3, <2>2 DEF Pool
  <2>4. NewRow \in Pool
    BY <1>3, <2>3 DEF NewRow, Pool
  <2> QED BY <1>1, <1>2, <1>4, <2>1, <2>2, <2>4
<1> QED BY <1>5, <1>6

\* What the clean-up before a deletion makes of the pools.
LEMMA Cleaned ==
  ASSUME PoTyped, NEW s \in Subjects, CleanupSubject(s)
  PROVE  /\ UNCHANGED <<edit, members, deploys, poDeployment>>
         /\ pools' \in [PoolIds -> Pool \cup {None}]
         /\ subjects' = [subjects EXCEPT ![s] = "going"]
         /\ \A p \in PoolIds :
              /\ pools[p] = None => pools'[p] = None
              /\ pools[p] # None => /\ pools'[p] \in Pool /\ pools'[p].quota = pools[p].quota
                                    /\ pools'[p].owner # s
                                    /\ pools'[p].owner \in {None, pools[p].owner}
<1>0. pools \in [PoolIds -> Pool \cup {None}]
  BY DEF PoTyped, PoTypeOK
<1>1. /\ UNCHANGED <<edit, members, deploys, poDeployment>>
      /\ subjects' = [subjects EXCEPT ![s] = "going"]
      /\ pools' = [p \in PoolIds |->
             IF pools[p] # None /\ pools[p].owner = s THEN [pools[p] EXCEPT !.owner = None]
             ELSE pools[p]]
  BY DEF CleanupSubject
<1>2. \A x \in Pool : LET y == [x EXCEPT !.owner = None]
                      IN  y \in Pool /\ y.quota = x.quota /\ y.owner = None
  BY DEF Pool
<1>3. None # s
  BY PoolsAssumption
<1>4. \A p \in PoolIds :
        /\ pools[p] = None => pools'[p] = None
        /\ pools[p] # None => /\ pools'[p] \in Pool /\ pools'[p].quota = pools[p].quota
                              /\ pools'[p].owner # s
                              /\ pools'[p].owner \in {None, pools[p].owner}
  <2> TAKE p \in PoolIds
  <2>1. CASE pools[p] = None
    BY <1>1, <2>1
  <2>2. CASE pools[p] # None /\ pools[p].owner = s
    <3>1. pools[p] \in Pool /\ pools'[p] = [pools[p] EXCEPT !.owner = None]
      BY <1>0, <1>1, <2>2
    <3> QED BY <1>2, <1>3, <2>2, <3>1
  <2>3. CASE pools[p] # None /\ pools[p].owner # s
    BY <1>0, <1>1, <2>3
  <2> QED BY <2>1, <2>2, <2>3
<1>5. pools' \in [PoolIds -> Pool \cup {None}]
  <2>1. \A p \in PoolIds : pools'[p] \in Pool \cup {None}
    BY <1>4
  <2> QED BY <1>1, <2>1
<1> QED BY <1>1, <1>4, <1>5

\* What a change that begins leaves behind.
LEMMA Begun ==
  ASSUME PoTyped, NEW p \in PoolIds, NEW q \in Quotas, NEW o \in Subjects \cup {None}, Begins(p, q, o)
  PROVE  /\ UNCHANGED <<pools, members, subjects, deploys, poDeployment>>
         /\ edit' \in EditInfo /\ edit' # NoEdit /\ edit'.pool = p /\ edit'.row.owner = o
         /\ edit'.keep => edit'.op = "update"
         /\ ~edit'.keep => OwnerExists(o)
         /\ pools[p] = None \/ Managed(p)
<1> DEFINE r == [quota |-> q, owner |-> o]
<1>1. UNCHANGED <<pools, members, subjects, deploys, poDeployment>> /\ (pools[p] = None \/ Managed(p))
  BY DEF Begins, BeginCreate, BeginUpdate, poWorld
<1>2. r \in Pool /\ r.owner = o
  BY DEF Pool
<1>3. \/ edit' = [op |-> "create", pool |-> p, row |-> r, keep |-> FALSE] /\ OwnerExists(o)
      \/ /\ edit' = [op |-> "update", pool |-> p, row |-> r, keep |-> o = pools[p].owner]
         /\ o # pools[p].owner => OwnerExists(o)
  BY DEF Begins, BeginCreate, BeginUpdate
<1> HIDE DEF r
<1>4. ASSUME NEW op \in {"create", "update"}, NEW k \in BOOLEAN, k => op = "update",
             edit' = [op |-> op, pool |-> p, row |-> r, keep |-> k]
      PROVE  /\ edit' \in EditInfo /\ edit' # NoEdit /\ edit'.pool = p /\ edit'.row.owner = o
             /\ edit'.keep = k /\ edit'.op = op
  <2>1. edit'.op = op /\ NoEdit.op = "none"
    BY <1>4 DEF NoEdit
  <2> QED BY <1>2, <1>4, <2>1 DEF EditInfo
<1>5. CASE edit' = [op |-> "create", pool |-> p, row |-> r, keep |-> FALSE] /\ OwnerExists(o)
  BY <1>1, <1>4, <1>5
<1>6. CASE /\ edit' = [op |-> "update", pool |-> p, row |-> r, keep |-> o = pools[p].owner]
           /\ o # pools[p].owner => OwnerExists(o)
  <2>1. PICK k \in BOOLEAN : k = (o = pools[p].owner)
    OBVIOUS
  <2>2. /\ edit' \in EditInfo /\ edit' # NoEdit /\ edit'.pool = p /\ edit'.row.owner = o
        /\ edit'.keep = k /\ edit'.op = "update"
    BY <1>4, <1>6, <2>1
  <2> QED BY <1>1, <1>6, <2>1, <2>2
<1> QED BY <1>3, <1>5, <1>6

\* Pools, changes under way and deployments keep their types.
LEMMA PoolsTypeStep == ASSUME PoTyped, PoNext PROVE PoolsTyped'
<1>0. PoTypeOK /\ PoolsTyped
  BY DEF PoTyped, PoTypeOK, PoolsTyped
<1>1. ASSUME CommitPool PROVE PoolsTyped'
  <2>1. edit.pool \in PoolIds
    BY <1>1, Commits DEF EditInfo
  <2> QED BY <1>0, <1>1, <2>1, Commits DEF PoolsTyped, EditTyped
<1>2. ASSUME NEW p \in PoolIds, NEW q \in Quotas, NEW o \in Subjects \cup {None}, Begins(p, q, o)
      PROVE  PoolsTyped'
  BY <1>0, <1>2, Begun DEF PoolsTyped, EditTyped
<1>3. ASSUME NEW p \in PoolIds, Removed(p) PROVE PoolsTyped'
  BY <1>0, <1>3 DEF Removed, PoolsTyped, EditTyped
<1>4. ASSUME NEW s \in Subjects, Cleans(s) PROVE PoolsTyped'
  BY <1>0, <1>4, Cleaned DEF Cleans, PoolsTyped, EditTyped
<1>5. ASSUME UNCHANGED <<pools, edit>> PROVE PoolsTyped'
  BY <1>0, <1>5 DEF PoolsTyped, EditTyped
<1>6. ASSUME NEW s \in Subjects, SubjectGone(s) PROVE PoolsTyped'
  BY <1>5, <1>6 DEF SubjectGone
<1> QED BY <1>0, <1>1, <1>2, <1>3, <1>4, <1>5, <1>6, PoolsStep

LEMMA DeploysTypeStep == ASSUME PoTyped, SoleDeploy, PoNext PROVE DeploysTyped' /\ SoleDeploy'
<1>0. PoTypeOK /\ DeploysTyped /\ poDeployment' = poDeployment
  BY PoolsStep DEF PoTyped, PoTypeOK, DeploysTyped
<1>n. NoDeploy \in Deploy /\ NoDeploy.pc = "idle"
  BY DEF NoDeploy, Deploy
<1>1. ASSUME Quiet PROVE DeploysTyped' /\ SoleDeploy'
  BY <1>0, <1>1 DEF Quiet, DeploysTyped, Admitted, SoleDeploy
<1>2. ASSUME NEW d \in Deploys, Ends(d) PROVE DeploysTyped' /\ SoleDeploy'
  <2>1. /\ deploys' \in [Deploys -> Deploy] /\ deploys'[d] = NoDeploy
        /\ \A e \in Deploys \ {d} : deploys'[e] = deploys[e]
    BY <1>0, <1>n, <1>2 DEF Ends, DeploysTyped
  <2> QED BY <1>0, <1>n, <2>1 DEF DeploysTyped, Admitted, SoleDeploy
<1>3. ASSUME NEW d \in Deploys, Makes(d) PROVE DeploysTyped' /\ SoleDeploy'
  <2> DEFINE c == [deploys[d] EXCEPT !.pc = "made"]
  <2>1. c \in Deploy /\ c.pool = deploys[d].pool /\ deploys[d].pc # "idle"
    BY <1>0, <1>3 DEF DeploysTyped, Deploy, Makes
  <2>2. deploys' = [deploys EXCEPT ![d] = c]
    BY <1>0, <1>3 DEF Makes, DeploysTyped
  <2> HIDE DEF c
  <2>3. /\ deploys' \in [Deploys -> Deploy] /\ deploys'[d] = c
        /\ \A e \in Deploys \ {d} : deploys'[e] = deploys[e]
    BY <1>0, <2>1, <2>2 DEF DeploysTyped
  <2>4. \A e \in Deploys : deploys'[e].pc # "idle" => deploys[e].pc # "idle"
    BY <2>1, <2>3
  <2> QED BY <1>0, <2>1, <2>3, <2>4 DEF DeploysTyped, Admitted, SoleDeploy
<1>4. ASSUME NEW d \in Deploys, NEW p \in PoolIds, NEW vms \in SUBSET Vms, NEW b \in BOOLEAN,
             AdmitDeploy(d, p, vms, b)
      PROVE  DeploysTyped' /\ SoleDeploy'
  <2> DEFINE c == [pc |-> "running", pool |-> p, vms |-> vms, stack |-> b]
  <2>1. c \in Deploy /\ c.pool = p
    BY DEF Deploy
  <2>2. /\ deploys' = [deploys EXCEPT ![d] = c]
        /\ poDeployment.overlap \/ \A e \in Deploys : deploys[e] = NoDeploy
    BY <1>4 DEF AdmitDeploy
  <2> HIDE DEF c
  <2>3. /\ deploys' \in [Deploys -> Deploy] /\ deploys'[d] = c
        /\ \A e \in Deploys \ {d} : deploys'[e] = deploys[e]
    BY <1>0, <2>1, <2>2 DEF DeploysTyped
  <2> QED BY <1>0, <1>n, <2>1, <2>2, <2>3 DEF DeploysTyped, Admitted, SoleDeploy
<1> QED BY <1>0, <1>1, <1>2, <1>3, <1>4, DeploysStep

\* Everything else keeps its type.
LEMMA WorldStep == ASSUME PoTyped, PoNext PROVE WorldTyped'
<1>0. PoTypeOK /\ WorldTyped
  BY DEF PoTyped, PoTypeOK, WorldTyped
<1> USE DEF WorldTyped
<1>s. ASSUME UNCHANGED <<poWorld, grants, sync>> PROVE WorldTyped'
  BY <1>0, <1>s DEF poWorld
<1>1. ASSUME CommitPool PROVE WorldTyped'
  BY <1>s, <1>1 DEF CommitPool
<1>2. ASSUME NEW s \in Subjects, SubjectGone(s) PROVE WorldTyped'
  BY <1>0, <1>2 DEF SubjectGone
<1>3. ASSUME NEW p, NEW q, NEW o, BeginCreate(p, q, o) \/ BeginUpdate(p, q, o) PROVE WorldTyped'
  BY <1>s, <1>3 DEF BeginCreate, BeginUpdate
<1>4. ASSUME NEW p, DeletePool(p) PROVE WorldTyped'
  BY <1>0, <1>4 DEF DeletePool, poWorld
<1>5. ASSUME NEW p, NEW vms, AddPoolMembers(p, vms) PROVE WorldTyped'
  BY <1>s, <1>5 DEF AddPoolMembers
<1>6. ASSUME NEW p, NEW vm, RemovePoolMember(p, vm) \/ MoveVmPool(vm, p) PROVE WorldTyped'
  BY <1>s, <1>6 DEF RemovePoolMember, MoveVmPool
<1>8. ASSUME NEW p \in PoolIds, NEW s \in Subjects, NEW r \in Presets, AddPoolAssignment(p, s, r)
      PROVE  WorldTyped'
  <2>1. [pool |-> p, subject |-> s, preset |-> r] \in Grant
    BY DEF Grant
  <2>2. grants' \subseteq Grant
    BY <1>0, <1>8, <2>1 DEF AddPoolAssignment
  <2> QED BY <1>0, <1>8, <2>2 DEF AddPoolAssignment, poWorld
<1>9. ASSUME NEW p, NEW s, RemovePoolAssignment(p, s) PROVE WorldTyped'
  BY <1>0, <1>9 DEF RemovePoolAssignment, poWorld
<1>10. ASSUME NEW d, NEW p, NEW vms, NEW b, AdmitDeploy(d, p, vms, b) PROVE WorldTyped'
  BY <1>s, <1>10 DEF AdmitDeploy
<1>11. ASSUME NEW d \in Deploys, MakeVms(d) PROVE WorldTyped'
  <2>1. deploys[d].vms \subseteq Vms
    <3>1. deploys[d] \in Deploy
      BY <1>0 DEF PoTypeOK
    <3> QED BY <3>1 DEF Deploy
  <2> QED BY <1>0, <1>11, <2>1 DEF MakeVms
<1>12. ASSUME NEW d, DeployFails(d) \/ AutoAdd(d) PROVE WorldTyped'
  BY <1>s, <1>12 DEF DeployFails, AutoAdd
<1>13. ASSUME NEW vm, MoveOut(vm) PROVE WorldTyped'
  BY <1>s, <1>13 DEF MoveOut
<1>14. ASSUME NEW vm, VmGone(vm) PROVE WorldTyped'
  BY <1>0, <1>14 DEF VmGone
<1>15. ASSUME RefreshCache PROVE WorldTyped'
  BY <1>0, <1>15 DEF RefreshCache
<1>n. NoSync \in [pc : {"idle", "got", "found"}, live : SUBSET Vms, orphans : SUBSET (1..MaxRows)]
  BY DEF NoSync
<1>16. ASSUME FindOrphans PROVE WorldTyped'
  <2> DEFINE O == {m.id : m \in {n \in members : ~LooksLive(n)}}
  <2>1. O \subseteq 1..MaxRows
    <3>1. \A m \in members : m.id \in 1..MaxRows
      BY <1>0 DEF PoTypeOK, Member
    <3> QED BY <3>1
  <2>2. sync' = NoSync \/ sync' = [sync EXCEPT !.pc = "found", !.orphans = O]
    BY <1>16 DEF FindOrphans
  <2> HIDE DEF O
  <2>3. sync' \in [pc : {"idle", "got", "found"}, live : SUBSET Vms, orphans : SUBSET (1..MaxRows)]
    <3>1. \A x : x \in [pc : {"idle", "got", "found"}, live : SUBSET Vms, orphans : SUBSET (1..MaxRows)]
             => [x EXCEPT !.pc = "found", !.orphans = O]
                  \in [pc : {"idle", "got", "found"}, live : SUBSET Vms, orphans : SUBSET (1..MaxRows)]
      BY <2>1
    <3> QED BY <1>0, <1>n, <2>2, <3>1
  <2> QED BY <1>0, <1>16, <2>3 DEF FindOrphans, poWorld
<1>17. ASSUME RemoveOrphans PROVE WorldTyped'
  BY <1>0, <1>n, <1>17 DEF RemoveOrphans, poWorld
<1>18. ASSUME NEW s \in Subjects, CleanupSubject(s) PROVE WorldTyped'
  BY <1>0, <1>18 DEF CleanupSubject
<1>19. ASSUME NEW r, PresetDeleted(r) PROVE WorldTyped'
  BY <1>0, <1>19 DEF PresetDeleted
<1>20. ASSUME NodeRowDeleted PROVE WorldTyped'
  BY <1>0, <1>20 DEF NodeRowDeleted
<1> HIDE DEF WorldTyped
<1> QED BY <1>0, <1>1, <1>2, <1>3, <1>4, <1>5, <1>6, <1>8, <1>9, <1>10, <1>11, <1>12, <1>13, <1>14,
           <1>15, <1>16, <1>17, <1>18, <1>19, <1>20, Flat

LEMMA TypeStep == ASSUME PoTyped, SoleDeploy, PoNext PROVE PoTyped' /\ SoleDeploy'
<1>1. RowsTyped' /\ PoolsTyped' /\ DeploysTyped' /\ WorldTyped' /\ SoleDeploy'
  BY RowsStep, PoolsTypeStep, DeploysTypeStep, WorldStep
<1> QED BY <1>1 DEF PoTyped, PoTypeOK, RowsTyped, PoolsTyped, DeploysTyped, WorldTyped
-----------------------------------------------------------------------------
(***************************************************************************)
(* The quota.                                                              *)
(***************************************************************************)
\* Which pool is there after a step, and with which quota: the old one, unless a change
\* is written.
LEMMA QuotaFrom ==
  ASSUME PoTyped, PoNext, NEW p \in PoolIds, pools'[p] # None
  PROVE  \/ pools[p] # None /\ pools'[p].quota = pools[p].quota
         \/ CommitPool /\ edit.pool = p
<1>0. PoTypeOK /\ pools \in [PoolIds -> Pool \cup {None}]
  BY DEF PoTyped, PoTypeOK
<1>1. ASSUME CommitPool, edit.pool # p PROVE pools'[p] = pools[p]
  BY <1>0, <1>1, Commits
<1>2. ASSUME NEW r \in PoolIds, NEW q \in Quotas, NEW o \in Subjects \cup {None}, Begins(r, q, o)
      PROVE  pools' = pools
  BY <1>2, Begun
<1>3. ASSUME NEW r \in PoolIds, Removed(r) PROVE pools'[p] = pools[p]
  BY <1>0, <1>3 DEF Removed
<1>4. ASSUME NEW s \in Subjects, Cleans(s)
      PROVE  pools[p] # None /\ pools'[p].quota = pools[p].quota
  BY <1>4, Cleaned DEF Cleans
<1>5. ASSUME NEW s \in Subjects, SubjectGone(s) PROVE pools' = pools
  BY <1>5 DEF SubjectGone
<1> QED BY <1>0, <1>1, <1>2, <1>3, <1>4, <1>5, PoolsStep

\* Nothing but DELETE takes a pool away, and its members with it.
LEMMA PoolsStay ==
  ASSUME PoTyped, PoNext, NEW p \in PoolIds, pools[p] # None, pools'[p] = None
  PROVE  Removed(p)
<1>0. PoTypeOK /\ pools \in [PoolIds -> Pool \cup {None}] /\ None \notin Pool
  BY PoolRowAssumption DEF PoTyped, PoTypeOK
<1>1. ASSUME CommitPool PROVE FALSE
  <2>1. pools' = pools \/ (pools' = [pools EXCEPT ![edit.pool] = NewRow] /\ NewRow \in Pool)
    BY <1>1, Commits
  <2> QED BY <1>0, <2>1
<1>2. ASSUME NEW r \in PoolIds, NEW q \in Quotas, NEW o \in Subjects \cup {None}, Begins(r, q, o)
      PROVE  pools' = pools
  BY <1>2, Begun
<1>3. ASSUME NEW r \in PoolIds, Removed(r) PROVE r = p
  BY <1>0, <1>3 DEF Removed
<1>4. ASSUME NEW s \in Subjects, Cleans(s) PROVE FALSE
  <2>1. pools'[p] \in Pool
    BY <1>4, Cleaned DEF Cleans
  <2> QED BY <1>0, <2>1
<1>5. ASSUME NEW s \in Subjects, SubjectGone(s) PROVE pools' = pools
  BY <1>5 DEF SubjectGone
<1> QED BY <1>0, <1>1, <1>2, <1>3, <1>4, <1>5, PoolsStep

\* The foreign key holds.
LEMMA ParentsStep == ASSUME PoTyped, Parents, PoNext PROVE Parents'
<1>0. PoTypeOK /\ members \subseteq Member /\ \A m \in members : m.pool \in PoolIds
  BY DEF PoTyped, PoTypeOK, Member
<1>1. ASSUME Fewer PROVE Parents'
  <2> SUFFICES ASSUME NEW m \in members' PROVE pools'[m.pool] # None
    BY DEF Parents
  <2>1. m \in members /\ m.pool \in PoolIds /\ pools[m.pool] # None
    BY <1>0, <1>1 DEF Fewer, Parents
  <2>2. ASSUME pools'[m.pool] = None PROVE FALSE
    <3>1. Removed(m.pool)
      BY <2>1, <2>2, PoolsStay
    <3> QED BY <2>1, <3>1 DEF Removed, MembersOf
  <2> QED BY <2>2
<1>2. ASSUME NEW d \in Deploys, Joins(d) PROVE Parents'
  <2>1. PICK vm \in deploys[d].vms :
           Insertable(vm, deploys[d].pool) /\ InsertMember(vm, deploys[d].pool)
    BY <1>2 DEF Joins
  <2>2. /\ members' = members \cup {[id |-> NextId, vm |-> vm, pool |-> deploys[d].pool]}
        /\ pools[deploys[d].pool] # None /\ pools' = pools
    BY <1>2, <2>1 DEF Joins, InsertMember, Insertable
  <2> QED BY <2>2 DEF Parents
<1>3. ASSUME NEW p \in PoolIds, NEW vms \in SUBSET Vms, AddPoolMembers(p, vms) PROVE Parents'
  <2>1. PICK number :
          members' = members \cup {[id |-> number[vm], vm |-> vm, pool |-> p] : vm \in vms}
    BY <1>3 DEF AddPoolMembers
  <2>2. pools' = pools /\ \A vm \in vms : pools[p] # None
    BY <1>3 DEF AddPoolMembers, Insertable
  <2> QED BY <2>1, <2>2 DEF Parents
<1>4. ASSUME NEW p \in PoolIds, NEW vm \in Vms, MoveVmPool(vm, p) PROVE Parents'
  <2>1. pools[p] # None /\ pools' = pools
    BY <1>4 DEF MoveVmPool
  <2>2. CASE \E m \in members : m.vm = vm
    <3>1. members' = {IF m.vm = vm THEN [m EXCEPT !.pool = p] ELSE m : m \in members}
      BY <1>4, <2>2 DEF MoveVmPool
    <3>2. \A m \in members : LET n == IF m.vm = vm THEN [m EXCEPT !.pool = p] ELSE m
                            IN  n.pool \in {p, m.pool}
      BY <1>0 DEF Member
    <3> QED BY <2>1, <3>1, <3>2 DEF Parents
  <2>3. CASE ~\E m \in members : m.vm = vm
    <3>1. members' = members \cup {[id |-> NextId, vm |-> vm, pool |-> p]}
      BY <1>4, <2>3 DEF MoveVmPool, InsertMember
    <3> QED BY <2>1, <3>1 DEF Parents
  <2> QED BY <2>2, <2>3
<1> QED BY <1>0, <1>1, <1>2, <1>3, <1>4, MembersStep DEF Managing

\* The VMs that count are finitely many, and fewer members take less room.
LEMMA TakenFinite ==
  ASSUME members \subseteq Member, NEW p
  PROVE  IsFiniteSet(Taken(p)) /\ Cardinality(Taken(p)) \in Nat /\ IsFiniteSet(MemberVms(p))
<1>1. MemberVms(p) \subseteq Vms /\ Taken(p) \subseteq Vms
  BY DEF MemberVms, MembersOf, Member, Taken
<1> QED BY <1>1, PoolsAssumption, FS_Subset, FS_CardinalityType

LEMMA FewerTaken ==
  ASSUME members \subseteq Member, members' \subseteq members, NEW p
  PROVE  Cardinality(Taken(p)') \in Nat /\ Cardinality(Taken(p)') <= Cardinality(Taken(p))
<1>1. Taken(p)' \subseteq Taken(p)
  BY DEF Taken, MemberVms, MembersOf
<1>2. IsFiniteSet(Taken(p)) /\ Cardinality(Taken(p)) \in Nat
  BY TakenFinite
<1> QED BY <1>1, <1>2, FS_Subset, FS_CardinalityType

\* Quotas are numbers, and a deployment that joins takes one of them.
LEMMA QuotaNat == ASSUME PoTyped, NEW p \in PoolIds, pools[p] # None PROVE pools[p].quota.vms \in Nat
<1>1. pools[p] \in Pool
  BY DEF PoTyped, PoTypeOK
<1> QED BY <1>1, PoolsAssumption DEF Pool

LEMMA JoinTaken ==
  ASSUME PoTyped, NEW d \in Deploys, Joins(d), NEW p
  PROVE  /\ Cardinality(Taken(p)') \in Nat
         /\ Cardinality(Taken(p)') <= Cardinality(Taken(p)) + 1
         /\ p # deploys[d].pool => Taken(p)' = Taken(p)
<1>1. PICK vm \in deploys[d].vms : InsertMember(vm, deploys[d].pool)
  BY DEF Joins
<1> DEFINE n == [id |-> NextId, vm |-> vm, pool |-> deploys[d].pool]
<1>2. members' = members \cup {n} /\ n.vm = vm /\ n.pool = deploys[d].pool
  BY <1>1 DEF InsertMember
<1> HIDE DEF n
<1>3. Taken(p)' \subseteq Taken(p) \cup {vm} /\ (p # deploys[d].pool => Taken(p)' = Taken(p))
  BY <1>2 DEF Taken, MemberVms, MembersOf
<1>4. IsFiniteSet(Taken(p)) /\ Cardinality(Taken(p)) \in Nat
  BY TakenFinite DEF PoTyped, PoTypeOK
<1>5. /\ IsFiniteSet(Taken(p) \cup {vm}) /\ Cardinality(Taken(p) \cup {vm}) \in Nat
      /\ Cardinality(Taken(p) \cup {vm}) <= Cardinality(Taken(p)) + 1
  <2>1. /\ IsFiniteSet(Taken(p) \cup {vm})
        /\ Cardinality(Taken(p) \cup {vm}) = IF vm \in Taken(p) THEN Cardinality(Taken(p))
                                             ELSE Cardinality(Taken(p)) + 1
    BY <1>4, FS_AddElement
  <2> QED BY <1>4, <2>1
<1>6. Cardinality(Taken(p)') \in Nat /\ Cardinality(Taken(p)') <= Cardinality(Taken(p) \cup {vm})
  BY <1>3, <1>5, FS_Subset, FS_CardinalityType
<1> QED BY <1>3, <1>4, <1>5, <1>6

\* What a change writes applies to an empty pool.
LEMMA EmptyRoom ==
  ASSUME PoInv, PoTyped', CommitPool, Filling, NEW p \in PoolIds, edit.pool = p, pools'[p] # None
  PROVE  Within(p, 1)'
<1>1. MembersOf(p) = {} /\ members' = members
  BY Commits DEF PoInv, EditsEmpty, Filling
<1>2. Taken(p)' = {}
  BY <1>1 DEF Taken, MemberVms, MembersOf
<1>3. Cardinality(Taken(p)') = 0
  BY <1>2, FS_EmptySet
<1>4. pools'[p].quota.vms \in Nat
  <2>1. pools'[p] \in Pool
    BY DEF PoTyped, PoTypeOK
  <2> QED BY <2>1, PoolsAssumption DEF Pool
<1> QED BY <1>3, <1>4 DEF Within

\* A pool stays within its quota, and keeps room for the deployment that was let in.
LEMMA QuotaStep == ASSUME PoInv, PoTyped', PoNext PROVE QuotaKept' /\ RoomKept'
<1>0. /\ PoTyped /\ PoTypeOK /\ members \subseteq Member /\ poDeployment' = poDeployment
      /\ deploys \in [Deploys -> Deploy]
  BY PoolsStep DEF PoInv, PoTyped, PoTypeOK
<1> SUFFICES ASSUME Filling PROVE QuotaKept' /\ RoomKept'
  BY <1>0 DEF QuotaKept, RoomKept, Filling
<1>q. \A p \in PoolIds : pools[p] # None => Within(p, 0) /\ pools[p].quota.vms \in Nat
  BY <1>0, QuotaNat DEF PoInv, QuotaKept
<1>c. \A p : Cardinality(Taken(p)) \in Nat
  BY <1>0, TakenFinite
<1>1. CASE Fewer
  <2>1. ASSUME NEW p \in PoolIds, pools'[p] # None, NEW n \in {0, 1},
               pools[p] # None => Within(p, n)
        PROVE  Within(p, n)'
    <3>1. CASE pools[p] # None /\ pools'[p].quota = pools[p].quota
      <4>1. Cardinality(Taken(p)') \in Nat /\ Cardinality(Taken(p)') <= Cardinality(Taken(p))
        BY <1>0, <1>1, FewerTaken DEF Fewer
      <4>2. Within(p, n) /\ pools[p].quota.vms \in Nat /\ Cardinality(Taken(p)) \in Nat
        BY <1>q, <1>c, <2>1, <3>1
      <4> QED BY <3>1, <4>1, <4>2 DEF Within
    <3>2. CASE CommitPool /\ edit.pool = p
      <4>1. Within(p, 1)'
        BY <2>1, <3>2, EmptyRoom
      <4>2. Cardinality(Taken(p)') \in Nat /\ pools'[p].quota.vms \in Nat
        <5>1. members' \subseteq Member /\ pools'[p] \in Pool
          BY <2>1 DEF PoTyped, PoTypeOK
        <5>2. pools'[p].quota.vms \in Nat
          BY <5>1, PoolsAssumption DEF Pool
        <5> QED BY <1>0, <1>1, <5>2, FewerTaken DEF Fewer
      <4> QED BY <4>1, <4>2 DEF Within
    <3> QED BY <1>0, <2>1, <3>1, <3>2, QuotaFrom
  <2>2. QuotaKept'
    BY <1>q, <2>1 DEF QuotaKept
  <2>3. RoomKept'
    <3> SUFFICES ASSUME NEW d \in Deploys, NEW p \in PoolIds, deploys'[d].pc # "idle",
                        ~deploys'[d].stack, deploys'[d].pool = p, pools'[p] # None
                 PROVE  Within(p, 1)'
      BY DEF RoomKept
    <3>r. ASSUME deploys[d].pc # "idle", ~deploys[d].stack, deploys[d].pool = p PROVE Within(p, 1)'
      <4>1. pools[p] # None => Within(p, 1)
        BY <3>r DEF PoInv, RoomKept
      <4> QED BY <2>1, <4>1
    <3>1. CASE Quiet
      BY <3>1, <3>r DEF Quiet
    <3>2. ASSUME NEW e \in Deploys, Ends(e) PROVE Within(p, 1)'
      BY <1>0, <3>2, <3>r DEF Ends, NoDeploy
    <3>3. ASSUME NEW e \in Deploys, Makes(e) PROVE Within(p, 1)'
      <4>1. /\ deploys[d].pool = deploys'[d].pool /\ deploys[d].stack = deploys'[d].stack
            /\ deploys'[d].pc = deploys[d].pc \/ d = e
        BY <1>0, <3>3 DEF Makes, Deploy
      <4> QED BY <3>3, <3>r, <4>1 DEF Makes
    <3>4. ASSUME NEW e \in Deploys, NEW r \in PoolIds, NEW vms \in SUBSET Vms, NEW b \in BOOLEAN,
                 AdmitDeploy(e, r, vms, b)
          PROVE  Within(p, 1)'
      <4>1. CASE d # e
        BY <1>0, <3>4, <3>r, <4>1 DEF AdmitDeploy
      <4>2. CASE d = e
        <5>1. r = p /\ ~b
          BY <1>0, <3>4, <4>2 DEF AdmitDeploy
        <5>2. Cardinality(vms) = 1 /\ WithinQuota(p, 1) /\ pools' = pools /\ members' = members
          BY <3>4, <5>1 DEF AdmitDeploy
        <5>3. pools[p].quota.vms > 0 => VmUsage(p) + 1 <= pools[p].quota.vms
          BY <5>2 DEF WithinQuota
        <5>4. Cardinality(Taken(p)) <= VmUsage(p) /\ VmUsage(p) \in Nat
          <6>1. Taken(p) \subseteq MemberVms(p) \ (Templates \cap cache)
            BY DEF Taken
          <6>2. IsFiniteSet(MemberVms(p) \ (Templates \cap cache))
            BY <1>0, TakenFinite, FS_Difference
          <6> QED BY <6>1, <6>2, FS_Subset, FS_CardinalityType DEF VmUsage
        <5>5. pools[p].quota.vms \in Nat /\ Cardinality(Taken(p)) \in Nat
          BY <1>q, <1>c, <5>2
        <5>6. Within(p, 1)
          BY <5>3, <5>4, <5>5 DEF Within
        <5> QED BY <2>1, <5>6
      <4> QED BY <4>1, <4>2
    <3> QED BY <1>0, <3>1, <3>2, <3>3, <3>4, DeploysStep
  <2> QED BY <2>2, <2>3
<1>2. ASSUME NEW d \in Deploys, Joins(d) PROVE QuotaKept' /\ RoomKept'
  <2>0. /\ deploys[d].pc = "made" /\ ~deploys[d].stack /\ pools' = pools
        /\ deploys' = [deploys EXCEPT ![d] = NoDeploy]
    BY <1>2 DEF Joins
  <2>1. RoomKept'
    <3>1. \A e \in Deploys : deploys'[e].pc = "idle"
      <4>1. \A e \in Deploys : deploys[e].pc # "idle" => e = d
        BY <2>0 DEF PoInv, SoleDeploy, Filling
      <4> QED BY <1>0, <2>0, <4>1 DEF NoDeploy
    <3> QED BY <3>1 DEF RoomKept
  <2>2. QuotaKept'
    <3> SUFFICES ASSUME NEW p \in PoolIds, pools[p] # None PROVE Within(p, 0)'
      BY <2>0 DEF QuotaKept
    <3>1. /\ Cardinality(Taken(p)') \in Nat /\ Cardinality(Taken(p)') <= Cardinality(Taken(p)) + 1
          /\ p # deploys[d].pool => Taken(p)' = Taken(p)
      BY <1>0, <1>2, JoinTaken
    <3>2. p = deploys[d].pool => Within(p, 1)
      BY <2>0 DEF PoInv, RoomKept
    <3> QED BY <1>q, <1>c, <2>0, <3>1, <3>2 DEF Within
  <2> QED BY <2>1, <2>2
<1>3. ASSUME Managing PROVE FALSE
  BY <1>3 DEF Managing, Filling
<1> QED BY <1>0, <1>1, <1>2, <1>3, MembersStep
-----------------------------------------------------------------------------
(***************************************************************************)
(* Changes and owners.                                                     *)
(***************************************************************************)
\* Without races nothing happens during a change but its end and the end of a deletion.
LEMMA Undisturbed ==
  ASSUME PoTyped, PoNext, ~poDeployment.races, edit # NoEdit
  PROVE  CommitPool \/ \E s \in Subjects : SubjectGone(s)
BY Flat DEF PoTyped

LEMMA EditsStep == ASSUME PoInv, PoNext PROVE EditsEmpty'
<1>0. PoTyped /\ PoTypeOK /\ poDeployment' = poDeployment
  BY PoolsStep DEF PoInv, PoTyped
<1> SUFFICES ASSUME ~poDeployment.managers, ~poDeployment.races, edit' # NoEdit
             PROVE  MembersOf(edit.pool)' = {}
  BY <1>0 DEF EditsEmpty
<1>1. CASE edit # NoEdit
  <2>1. PICK s \in Subjects : SubjectGone(s)
    BY <1>0, <1>1, Undisturbed, Commits
  <2>2. members' = members /\ edit' = edit
    BY <2>1 DEF SubjectGone
  <2> QED BY <1>1, <2>2 DEF PoInv, EditsEmpty, MembersOf
<1>2. CASE edit = NoEdit
  <2>1. ASSUME NEW p \in PoolIds, NEW q \in Quotas, NEW o \in Subjects \cup {None}, Begins(p, q, o)
        PROVE  MembersOf(edit.pool)' = {}
    <3>1. edit'.pool = p /\ members' = members /\ (pools[p] = None \/ Managed(p))
      BY <1>0, <2>1, Begun
    <3>2. MembersOf(p) = {}
      BY <3>1 DEF PoInv, Parents, MembersOf, Managed
    <3> QED BY <3>1, <3>2 DEF MembersOf
  <2>2. ASSUME edit' = edit PROVE FALSE
    BY <1>2, <2>2
  <2>3. ~CommitPool
    BY <1>2 DEF CommitPool
  <2>4. ASSUME NEW s, SubjectGone(s) \/ Cleans(s) PROVE edit' = edit
    BY <2>4 DEF SubjectGone, Cleans, CleanupSubject
  <2>5. ASSUME NEW p, Removed(p) PROVE edit' = edit
    BY <2>5 DEF Removed
  <2> QED BY <1>0, <2>1, <2>2, <2>3, <2>4, <2>5, PoolsStep
<1> QED BY <1>1, <1>2

LEMMA OwnersStep == ASSUME PoInv, PoNext PROVE OwnersHere'
<1>0. /\ PoTyped /\ PoTypeOK /\ poDeployment' = poDeployment
      /\ pools \in [PoolIds -> Pool \cup {None}]
      /\ subjects \in [Subjects -> {"here", "going", "gone"}]
  BY PoolsStep DEF PoInv, PoTyped, PoTypeOK
<1> SUFFICES ASSUME ~poDeployment.races PROVE OwnersHere'
  BY <1>0 DEF OwnersHere
<1>i. /\ \A p \in PoolIds : pools[p] # None /\ pools[p].owner # None
                                => subjects[pools[p].owner] = "here"
      /\ edit # NoEdit /\ ~edit.keep /\ edit.row.owner # None => subjects[edit.row.owner] = "here"
      /\ edit # NoEdit => \A s \in Subjects : subjects[s] # "going"
  BY DEF PoInv, OwnersHere
<1>o. \A p \in PoolIds : pools[p] # None => pools[p].owner \in Subjects \cup {None}
  BY <1>0 DEF Pool
<1>1. ASSUME CommitPool PROVE OwnersHere'
  <2>1. /\ edit # NoEdit /\ edit' = NoEdit /\ subjects' = subjects /\ edit.pool \in PoolIds
        /\ pools' = pools \/ pools' = [pools EXCEPT ![edit.pool] = NewRow]
        /\ NewRow.owner = IF edit.keep THEN pools[edit.pool].owner ELSE edit.row.owner
        /\ pools' # pools /\ edit.keep => pools[edit.pool] # None
    BY <1>0, <1>1, Commits, PoolRowAssumption DEF EditInfo
  <2>2. ASSUME NEW p \in PoolIds, pools'[p] # None, pools'[p].owner # None
        PROVE  subjects[pools'[p].owner] = "here"
    <3>1. CASE pools'[p] = pools[p]
      BY <1>i, <2>2, <3>1
    <3>2. CASE pools'[p] # pools[p]
      <4>1. p = edit.pool /\ pools'[p] = NewRow /\ pools' # pools
        BY <1>0, <2>1, <3>2
      <4>2. CASE edit.keep
        BY <1>i, <2>1, <2>2, <4>1, <4>2
      <4>3. CASE ~edit.keep
        BY <1>i, <2>1, <2>2, <4>1, <4>3
      <4> QED BY <4>2, <4>3
    <3> QED BY <3>1, <3>2
  <2> QED BY <2>1, <2>2 DEF OwnersHere
<1>2. ASSUME NEW p \in PoolIds, NEW q \in Quotas, NEW o \in Subjects \cup {None}, Begins(p, q, o)
      PROVE  OwnersHere'
  <2>1. /\ pools' = pools /\ subjects' = subjects /\ edit'.row.owner = o
        /\ ~edit'.keep => OwnerExists(o)
    BY <1>0, <1>2, Begun
  <2>2. \A s \in Subjects : subjects[s] # "going"
    BY <1>2 DEF Begins
  <2>3. ~edit'.keep /\ o # None => subjects[o] = "here"
    BY <1>0, <2>1, <2>2 DEF OwnerExists
  <2> QED BY <1>i, <2>1, <2>2, <2>3 DEF OwnersHere
<1>3. ASSUME NEW p \in PoolIds, Removed(p) PROVE OwnersHere'
  <2>1. edit' = NoEdit /\ subjects' = subjects /\ pools' = [pools EXCEPT ![p] = None]
    BY <1>3 DEF Removed
  <2> QED BY <1>0, <1>i, <2>1 DEF OwnersHere
<1>4. ASSUME NEW s \in Subjects, Cleans(s) PROVE OwnersHere'
  <2>1. edit' = NoEdit
    BY <1>0, <1>4, Cleaned DEF Cleans
  <2>2. ASSUME NEW p \in PoolIds, pools'[p] # None, pools'[p].owner # None
        PROVE  subjects'[pools'[p].owner] = "here"
    <3>1. /\ pools[p] # None /\ pools'[p].owner = pools[p].owner /\ pools[p].owner # s
          /\ subjects' = [subjects EXCEPT ![s] = "going"]
      BY <1>0, <1>4, <2>2, Cleaned DEF Cleans
    <3> QED BY <1>0, <1>i, <1>o, <2>2, <3>1
  <2> QED BY <2>1, <2>2 DEF OwnersHere
<1>5. ASSUME NEW s \in Subjects, SubjectGone(s) PROVE OwnersHere'
  <2>1. /\ subjects[s] = "going" /\ subjects' = [subjects EXCEPT ![s] = "gone"]
        /\ pools' = pools /\ edit' = edit
    BY <1>5 DEF SubjectGone
  <2>2. edit = NoEdit
    BY <1>i, <2>1
  <2>3. ASSUME NEW p \in PoolIds, pools[p] # None, pools[p].owner # None
        PROVE  subjects'[pools[p].owner] = "here"
    <3>1. subjects[pools[p].owner] = "here" /\ pools[p].owner \in Subjects
      BY <1>i, <1>o, <2>3
    <3> QED BY <1>0, <2>1, <3>1
  <2> QED BY <2>1, <2>2, <2>3 DEF OwnersHere
<1>6. ASSUME UNCHANGED <<pools, edit, subjects>> PROVE OwnersHere'
  BY <1>i, <1>6 DEF OwnersHere
<1> QED BY <1>0, <1>1, <1>2, <1>3, <1>4, <1>5, <1>6, PoolsStep
-----------------------------------------------------------------------------
\* The invariant is inductive.
THEOREM PoolsInvariance == PoSpec => []PoInv
<1>1. PoInit => PoInv
  <2> SUFFICES ASSUME PoInit PROVE PoInv
    OBVIOUS
  <2>1. /\ members = {} /\ edit = NoEdit /\ \A p \in PoolIds : pools[p] = None
        /\ \A d \in Deploys : deploys[d] = NoDeploy
    BY DEF PoInit
  <2>2. NoDeploy \in Deploy /\ NoDeploy.pc = "idle"
    BY DEF NoDeploy, Deploy
  <2>3. PoTypeOK
    BY <2>2, PoolsAssumption DEF PoInit, PoTypeOK, NoSync
  <2>4. PoTyped
    BY <2>1, <2>2, <2>3 DEF PoTyped, EditTyped, Numbered, Admitted
  <2> QED BY <2>1, <2>2, <2>4 DEF PoInv, Parents, SoleDeploy, RoomKept, QuotaKept, EditsEmpty, OwnersHere
<1>2. PoInv /\ [PoNext]_poVars => PoInv'
  <2>1. ASSUME PoInv, PoNext PROVE PoInv'
    <3>1. PoTyped' /\ SoleDeploy'
      BY <2>1, TypeStep DEF PoInv
    <3>2. Parents'
      BY <2>1, ParentsStep DEF PoInv
    <3>3. QuotaKept' /\ RoomKept'
      BY <2>1, <3>1, QuotaStep
    <3>4. EditsEmpty' /\ OwnersHere'
      BY <2>1, EditsStep, OwnersStep
    <3> QED BY <3>1, <3>2, <3>3, <3>4 DEF PoInv
  <2>2. ASSUME PoInv, UNCHANGED poVars PROVE PoInv'
    BY <2>2 DEF poVars, PoInv, PoTyped, PoTypeOK, EditTyped, Numbered, Admitted, Parents, SoleDeploy,
                Filling, Taken, MemberVms, MembersOf, Within, RoomKept, QuotaKept, EditsEmpty, OwnersHere
  <2> QED BY <2>1, <2>2
<1> QED BY <1>1, <1>2, PTL DEF PoSpec

\* PoolsSound: what deployments add stays within the number of VMs of the pool, although
\* check_pool_quota reads before the VMs are made and the members join afterwards, and
\* no pool is owned by somebody who is gone.
THEOREM PoolsSoundSafe == PoSpec => []PoolsSound
<1>1. PoInv => PoolsSound
  <2> SUFFICES ASSUME PoInv PROVE PoolsSound
    OBVIOUS
  <2>1. VmQuotaHeld
    <3> SUFFICES ASSUME Filling, NEW p \in PoolIds, pools[p] # None, pools[p].quota.vms > 0
                 PROVE  Cardinality(MemberVms(p) \ Templates) <= pools[p].quota.vms
      BY DEF VmQuotaHeld, Filling
    <3>1. Within(p, 0)
      BY DEF PoInv, QuotaKept
    <3>2. Cardinality(Taken(p)) \in Nat
      BY TakenFinite DEF PoInv, PoTyped, PoTypeOK
    <3> QED BY <3>1, <3>2 DEF Within, Taken
  <2>2. OwnersExist
    BY DEF PoInv, OwnersHere, OwnersExist
  <2> QED BY <2>1, <2>2 DEF PoolsSound, PoInv, PoTyped
<1> QED BY <1>1, PoolsInvariance, PTL
-----------------------------------------------------------------------------
(***************************************************************************)
(* Playbook permissions.                                                   *)
(***************************************************************************)

Verdicts == {"allow", "deny", "fallback"}
AskPCs == {"none", "single", "hit", "any", "mode", "groups", "default", "own", "shared", "map",
           "done"}
AskInfo == [pc : AskPCs, user : PpUsers \cup {None}, playbook : Playbooks \cup {None},
            groups : SUBSET PpGroups, mode : {"open", "restricted", None}, hit : BOOLEAN,
            answer : Verdicts \cup {None}, seen : SUBSET Verdicts, calm : BOOLEAN]

\* Rows and questions of their types.
Typed ==
  /\ PpTypeOK
  /\ existing \subseteq PpSubjects
  /\ asks \in [Asks -> AskInfo]

Knowing == {"hit", "any", "mode", "default", "own", "shared", "map"}
Underway == {"single", "groups"} \cup Knowing

\* What an undisturbed question has read is what it would read now, and what it found
\* on the way was right then.
Grounded(c) ==
  /\ c.pc \in Knowing => c.groups = GroupsOf(c.user)
  /\ c.pc \in {"own", "shared", "map"} => c.mode = defaultMode
  /\ c.pc = "any" => ~Listed(c.playbook, {c.user} \cup c.groups)
  /\ c.pc = "mode" => ByMode(defaultMode) \in c.seen
  /\ c.pc \in {"shared", "map"} /\ c.hit => "allow" \in c.seen
  /\ c.pc = "shared" /\ ~c.hit => ~Listed(c.playbook, {c.user})
  /\ c.pc = "map" /\ ~c.hit => ~Listed(c.playbook, {c.user} \cup c.groups)

\* A question under way has noted the decision that is right now.
Fresh(c) ==
  c.pc \in Underway =>
    /\ c.user \in PpUsers /\ c.playbook \in Playbooks
    /\ Decision(c.user, c.playbook) \in c.seen
    /\ c.calm => Grounded(c)

Noted == \A a \in Asks : Fresh(asks[a])

PpInv == Typed /\ Noted /\ AnswersWereRight
-----------------------------------------------------------------------------
\* The resolver's checks, on the groups and the mode of one state, give what the
\* whitelist says in that state.
LEMMA Resolved ==
  ASSUME Typed, NEW u \in PpUsers, NEW p \in Playbooks
  PROVE  /\ Decision(u, p) \in Verdicts /\ ByMode(defaultMode) \in Verdicts
         /\ Decision(u, p) = IF Listed(p, {u} \cup GroupsOf(u)) THEN "allow"
                             ELSE IF HasAny(p) THEN "deny" ELSE ByMode(defaultMode)
<1> DEFINE listed == {e[2] : e \in {x \in entries : x[1] = p}}
           G == GroupsOf(u)
<1>0. entries \subseteq Playbooks \X PpSubjects
  BY DEF Typed, PpTypeOK
<1>1. \A s : s \in listed <=> <<p, s>> \in entries
  <2>1. ASSUME NEW s, s \in listed PROVE <<p, s>> \in entries
    <3>1. PICK e \in entries : e[1] = p /\ e[2] = s
      BY <2>1
    <3>2. e = <<e[1], e[2]>>
      BY <1>0
    <3> QED BY <3>1, <3>2
  <2>2. ASSUME NEW s, <<p, s>> \in entries PROVE s \in listed
    BY <2>2
  <2> QED BY <2>1, <2>2
<1>2. \A s : <<p, s>> \in entries => s \in PpSubjects
  BY <1>0
<1>3. HasAny(p) <=> listed # {}
  BY <1>1, <1>2 DEF HasAny
<1>4. Listed(p, {u} \cup G) <=> listed \cap ({u} \cup G) # {}
  BY <1>1 DEF Listed
<1>5. Decision(u, p) = IF listed # {}
                       THEN IF listed \cap ({u} \cup G) # {} THEN "allow" ELSE "deny"
                       ELSE ByMode(defaultMode)
  BY DEF Decision
<1>7. ByMode(defaultMode) \in {"deny", "fallback"}
  BY DEF ByMode
<1> HIDE DEF listed, G
<1>8. listed = {} => listed \cap ({u} \cup G) = {}
  OBVIOUS
<1> QED BY <1>3, <1>4, <1>5, <1>7, <1>8 DEF Verdicts, G

\* A read of one question leaves all others and the tables alone.
LEMMA OtherAsks ==
  ASSUME PpInv, NEW a \in Asks, NEW c \in AskInfo, asks' = [asks EXCEPT ![a] = c],
         UNCHANGED tables, Fresh(c), c.pc = "done" /\ c.calm => c.answer \in c.seen
  PROVE  PpInv'
<1>1. asks' \in [Asks -> AskInfo] /\ asks'[a] = c /\ \A b \in Asks \ {a} : asks'[b] = asks[b]
  BY DEF PpInv, Typed
<1>2. Typed'
  <2>1. \A b \in Asks : asks'[b].answer \in {None, "allow", "deny", "fallback"}
    BY <1>1 DEF AskInfo, Verdicts
  <2> QED BY <1>1, <2>1 DEF PpInv, Typed, PpTypeOK, PpSubjects, tables
<1>4. Noted'
  <2> SUFFICES ASSUME NEW b \in Asks PROVE Fresh(asks[b])'
    BY DEF Noted
  <2>1. Fresh(asks'[b]) /\ asks'[b] \in AskInfo
    BY <1>1 DEF PpInv, Noted
  <2> QED BY <2>1 DEF tables, Fresh, Grounded, Listed, Decision, GroupsOf
<1>5. AnswersWereRight'
  BY <1>1 DEF PpInv, AnswersWereRight
<1> QED BY <1>2, <1>4, <1>5 DEF PpInv

\* The reads.
LEMMA StepReads ==
  ASSUME PpInv, NEW a \in Asks,
         \/ \E u \in PpUsers \cap existing, p \in Playbooks : Ask(a, u, p)
         \/ ReadMyGroups(a) \/ ReadHit(a) \/ ReadAny(a) \/ ReadMode(a)
         \/ ReadGroups(a) \/ ReadDefault(a) \/ ReadOwn(a) \/ ReadShared(a) \/ ReadMap(a)
  PROVE  PpInv'
<1> DEFINE x == asks[a]
<1>0. Typed /\ asks \in [Asks -> AskInfo] /\ x \in AskInfo /\ Fresh(x)
  BY DEF PpInv, Typed, Noted
<1>1. ASSUME NEW u \in PpUsers \cap existing, NEW p \in Playbooks, Ask(a, u, p) PROVE PpInv'
  <2>1. PICK pc \in {"single", "groups"} :
          asks' = [asks EXCEPT ![a] = [NoAsk EXCEPT !.pc = pc, !.user = u, !.playbook = p,
                                                    !.seen = {Decision(u, p)}]]
    BY <1>1 DEF Ask
  <2> DEFINE c == [NoAsk EXCEPT !.pc = pc, !.user = u, !.playbook = p, !.seen = {Decision(u, p)}]
  <2>2. {Decision(u, p)} \in SUBSET Verdicts /\ pc \in AskPCs
    BY <1>0, Resolved DEF AskPCs
  <2>c. c = [NoAsk EXCEPT !.pc = pc, !.user = u, !.playbook = p, !.seen = {Decision(u, p)}]
    OBVIOUS
  <2> HIDE DEF c
  <2>3. /\ c \in AskInfo /\ c.pc = pc /\ c.user = u /\ c.playbook = p
        /\ c.seen = {Decision(u, p)}
    <3>1. u \in PpUsers
      OBVIOUS
    <3>2. PICK S : S = {Decision(u, p)}
      OBVIOUS
    <3>3. S \in SUBSET Verdicts /\ c = [NoAsk EXCEPT !.pc = pc, !.user = u, !.playbook = p, !.seen = S]
      BY <2>2, <2>c, <3>2
    <3>4. c \in AskInfo /\ c.pc = pc /\ c.user = u /\ c.playbook = p /\ c.seen = S
      <4>1. NoAsk \in AskInfo
        BY DEF NoAsk, AskInfo, AskPCs
      <4> QED BY <2>2, <3>1, <3>3, <4>1 DEF AskInfo
    <3> QED BY <3>2, <3>4
  <2>4. Fresh(c) /\ c.pc # "done"
    BY <2>3 DEF Fresh, Grounded, Knowing
  <2>5. asks' = [asks EXCEPT ![a] = c] /\ UNCHANGED tables
    BY <1>1, <2>1 DEF Ask, c
  <2> QED BY <2>3, <2>4, <2>5, OtherAsks
<1>a. ASSUME NEW d \in Verdicts, x.pc \in Underway, x.calm => d \in x.seen, Answered(a, d), UNCHANGED tables
      PROVE  PpInv'
  <2> DEFINE c == [x EXCEPT !.pc = "done", !.answer = d]
  <2>1. c \in AskInfo /\ c.pc = "done" /\ c.answer = d /\ c.seen = x.seen /\ c.calm = x.calm
    BY <1>0 DEF AskInfo, AskPCs
  <2>2. asks' = [asks EXCEPT ![a] = c]
    BY <1>0, <1>a DEF Answered
  <2> HIDE DEF c
  <2>3. Fresh(c)
    BY <2>1 DEF Fresh, Underway, Knowing
  <2> QED BY <1>a, <2>1, <2>2, <2>3, OtherAsks
<1>2. ASSUME ReadMyGroups(a) PROVE PpInv'
  <2> DEFINE c == [x EXCEPT !.pc = "hit", !.groups = GroupsOf(x.user)]
  <2>0. GroupsOf(x.user) \in SUBSET PpGroups
    BY DEF GroupsOf
  <2>1. /\ c \in AskInfo /\ c.pc = "hit" /\ c.user = x.user /\ c.playbook = x.playbook
        /\ c.seen = x.seen /\ c.calm = x.calm /\ c.groups = GroupsOf(x.user)
    BY <1>0, <2>0 DEF AskInfo, AskPCs, Typed, PpTypeOK
  <2>2. asks' = [asks EXCEPT ![a] = c] /\ UNCHANGED tables /\ x.pc = "single"
    BY <1>0, <1>2 DEF ReadMyGroups
  <2> HIDE DEF c
  <2>3. Fresh(c) /\ c.pc # "done"
    BY <1>0, <2>1, <2>2 DEF Fresh, Grounded, Underway, Knowing
  <2> QED BY <2>1, <2>2, <2>3, OtherAsks
<1>b. ASSUME x.pc \in Underway
      PROVE  /\ x.user \in PpUsers /\ x.playbook \in Playbooks
             /\ Decision(x.user, x.playbook) \in x.seen
             /\ Decision(x.user, x.playbook) =
                  IF Listed(x.playbook, {x.user} \cup GroupsOf(x.user)) THEN "allow"
                  ELSE IF HasAny(x.playbook) THEN "deny" ELSE ByMode(defaultMode)
  BY <1>0, <1>b, Resolved DEF Fresh
<1>3. ASSUME ReadHit(a) PROVE PpInv'
  <2>1. /\ x.pc = "hit" /\ UNCHANGED tables
        /\ IF Listed(x.playbook, {x.user} \cup x.groups)
           THEN Answered(a, "allow") ELSE asks' = [asks EXCEPT ![a].pc = "any"]
    BY <1>3 DEF ReadHit
  <2>2. x.calm => x.groups = GroupsOf(x.user)
    BY <1>0, <2>1 DEF Fresh, Grounded, Underway, Knowing
  <2>3. CASE Listed(x.playbook, {x.user} \cup x.groups)
    <3>1. x.calm => "allow" \in x.seen
      BY <1>b, <2>1, <2>2, <2>3 DEF Underway, Knowing
    <3> QED BY <1>a, <2>1, <2>3, <3>1 DEF Underway, Knowing, Verdicts
  <2>4. CASE ~Listed(x.playbook, {x.user} \cup x.groups)
    <3> DEFINE c == [x EXCEPT !.pc = "any"]
    <3>1. /\ c \in AskInfo /\ c.pc = "any" /\ c.user = x.user /\ c.playbook = x.playbook
          /\ c.seen = x.seen /\ c.calm = x.calm /\ c.groups = x.groups
      BY <1>0 DEF AskInfo, AskPCs
    <3>2. asks' = [asks EXCEPT ![a] = c]
      BY <1>0, <2>1, <2>4
    <3> HIDE DEF c
    <3>3. Fresh(c) /\ c.pc # "done"
      BY <1>0, <2>1, <2>2, <2>4, <3>1 DEF Fresh, Grounded, Underway, Knowing
    <3> QED BY <2>1, <3>1, <3>2, <3>3, OtherAsks
  <2> QED BY <2>3, <2>4
<1>4. ASSUME ReadAny(a) PROVE PpInv'
  <2>1. /\ x.pc = "any" /\ UNCHANGED tables
        /\ IF HasAny(x.playbook)
           THEN Answered(a, "deny") ELSE asks' = [asks EXCEPT ![a].pc = "mode"]
    BY <1>4 DEF ReadAny
  <2>2. x.calm => /\ x.groups = GroupsOf(x.user)
                  /\ ~Listed(x.playbook, {x.user} \cup x.groups)
    BY <1>0, <2>1 DEF Fresh, Grounded, Underway, Knowing
  <2>3. CASE HasAny(x.playbook)
    <3>1. x.calm => "deny" \in x.seen
      BY <1>b, <2>1, <2>2, <2>3 DEF Underway, Knowing
    <3> QED BY <1>a, <2>1, <2>3, <3>1 DEF Underway, Knowing, Verdicts
  <2>4. CASE ~HasAny(x.playbook)
    <3> DEFINE c == [x EXCEPT !.pc = "mode"]
    <3>1. /\ c \in AskInfo /\ c.pc = "mode" /\ c.user = x.user /\ c.playbook = x.playbook
          /\ c.seen = x.seen /\ c.calm = x.calm /\ c.groups = x.groups
      BY <1>0 DEF AskInfo, AskPCs
    <3>2. asks' = [asks EXCEPT ![a] = c]
      BY <1>0, <2>1, <2>4
    <3>3. x.calm => ByMode(defaultMode) \in x.seen
      BY <1>b, <2>1, <2>2, <2>4 DEF Underway, Knowing
    <3> HIDE DEF c
    <3>4. Fresh(c) /\ c.pc # "done"
      BY <1>0, <2>1, <2>2, <3>1, <3>3 DEF Fresh, Grounded, Underway, Knowing
    <3> QED BY <2>1, <3>1, <3>2, <3>4, OtherAsks
  <2> QED BY <2>3, <2>4
<1>5. ASSUME ReadMode(a) PROVE PpInv'
  <2>1. x.pc = "mode" /\ UNCHANGED tables /\ Answered(a, ByMode(defaultMode))
    BY <1>5 DEF ReadMode
  <2>2. x.calm => ByMode(defaultMode) \in x.seen
    BY <1>0, <2>1 DEF Fresh, Grounded, Underway, Knowing
  <2>3. ByMode(defaultMode) \in Verdicts
    BY DEF ByMode, Verdicts
  <2> QED BY <1>a, <2>1, <2>2, <2>3 DEF Underway, Knowing
<1>6. ASSUME ReadGroups(a) PROVE PpInv'
  <2> DEFINE c == [x EXCEPT !.pc = "default", !.groups = GroupsOf(x.user)]
  <2>0. GroupsOf(x.user) \in SUBSET PpGroups
    BY DEF GroupsOf
  <2>1. /\ c \in AskInfo /\ c.pc = "default" /\ c.user = x.user /\ c.playbook = x.playbook
        /\ c.seen = x.seen /\ c.calm = x.calm /\ c.groups = GroupsOf(x.user)
    BY <1>0, <2>0 DEF AskInfo, AskPCs, Typed, PpTypeOK
  <2>2. asks' = [asks EXCEPT ![a] = c] /\ UNCHANGED tables /\ x.pc = "groups"
    BY <1>0, <1>6 DEF ReadGroups
  <2> HIDE DEF c
  <2>3. Fresh(c) /\ c.pc # "done"
    BY <1>0, <2>1, <2>2 DEF Fresh, Grounded, Underway, Knowing
  <2> QED BY <2>1, <2>2, <2>3, OtherAsks
<1>7. ASSUME ReadDefault(a) PROVE PpInv'
  <2> DEFINE c == [x EXCEPT !.pc = "own", !.mode = defaultMode]
  <2>1. /\ c \in AskInfo /\ c.pc = "own" /\ c.user = x.user /\ c.playbook = x.playbook
        /\ c.seen = x.seen /\ c.calm = x.calm /\ c.groups = x.groups /\ c.mode = defaultMode
    BY <1>0 DEF AskInfo, AskPCs, Typed, PpTypeOK
  <2>2. asks' = [asks EXCEPT ![a] = c] /\ UNCHANGED tables /\ x.pc = "default"
    BY <1>0, <1>7 DEF ReadDefault
  <2> HIDE DEF c
  <2>3. Fresh(c) /\ c.pc # "done"
    BY <1>0, <2>1, <2>2 DEF Fresh, Grounded, Underway, Knowing
  <2> QED BY <2>1, <2>2, <2>3, OtherAsks
<1>8. ASSUME ReadOwn(a) PROVE PpInv'
  <2> DEFINE c == [x EXCEPT !.pc = "shared", !.hit = Listed(x.playbook, {x.user})]
  <2>1. /\ c \in AskInfo /\ c.pc = "shared" /\ c.user = x.user /\ c.playbook = x.playbook
        /\ c.seen = x.seen /\ c.calm = x.calm
        /\ c.groups = x.groups /\ c.mode = x.mode /\ c.hit = Listed(x.playbook, {x.user})
    BY <1>0 DEF AskInfo, AskPCs, Typed, PpTypeOK, Listed
  <2>2. asks' = [asks EXCEPT ![a] = c] /\ UNCHANGED tables /\ x.pc = "own"
    BY <1>0, <1>8 DEF ReadOwn
  <2> HIDE DEF c
  <2>3. Fresh(c) /\ c.pc # "done"
    <3>1. Listed(x.playbook, {x.user}) => Listed(x.playbook, {x.user} \cup GroupsOf(x.user))
      BY DEF Listed
    <3>2. c.hit => "allow" \in c.seen
      BY <1>b, <2>1, <2>2, <3>1 DEF Underway, Knowing
    <3> QED BY <1>0, <2>1, <2>2, <3>2 DEF Fresh, Grounded, Underway, Knowing
  <2> QED BY <2>1, <2>2, <2>3, OtherAsks
<1>9. ASSUME ReadShared(a) PROVE PpInv'
  <2> DEFINE c == [x EXCEPT !.pc = "map", !.hit = @ \/ Listed(x.playbook, x.groups)]
  <2>1. /\ c \in AskInfo /\ c.pc = "map" /\ c.user = x.user /\ c.playbook = x.playbook
        /\ c.seen = x.seen /\ c.calm = x.calm
        /\ c.groups = x.groups /\ c.mode = x.mode
        /\ c.hit = (x.hit \/ Listed(x.playbook, x.groups))
    BY <1>0 DEF AskInfo, AskPCs, Typed, PpTypeOK, Listed
  <2>2. asks' = [asks EXCEPT ![a] = c] /\ UNCHANGED tables /\ x.pc = "shared"
    BY <1>0, <1>9 DEF ReadShared
  <2> HIDE DEF c
  <2>3. Fresh(c) /\ c.pc # "done"
    <3>1. Listed(x.playbook, {x.user} \cup x.groups)
            <=> Listed(x.playbook, {x.user}) \/ Listed(x.playbook, x.groups)
      BY DEF Listed
    <3>2. x.calm => /\ x.groups = GroupsOf(x.user)
                    /\ x.hit => "allow" \in x.seen
                    /\ ~x.hit => ~Listed(x.playbook, {x.user})
      BY <1>0, <2>2 DEF Fresh, Grounded, Underway, Knowing
    <3>3. c.calm /\ c.hit => "allow" \in c.seen
      BY <1>b, <2>1, <2>2, <3>1, <3>2 DEF Underway, Knowing
    <3> QED BY <1>0, <2>1, <2>2, <3>1, <3>2, <3>3 DEF Fresh, Grounded, Underway, Knowing
  <2> QED BY <2>1, <2>2, <2>3, OtherAsks
<1>10. ASSUME ReadMap(a) PROVE PpInv'
  <2> DEFINE d == IF x.hit THEN "allow"
                  ELSE IF HasAny(x.playbook) THEN "deny" ELSE ByMode(x.mode)
  <2>1. x.pc = "map" /\ UNCHANGED tables /\ Answered(a, d)
    BY <1>10 DEF ReadMap
  <2>2. x.calm => /\ x.groups = GroupsOf(x.user) /\ x.mode = defaultMode
                  /\ x.hit => "allow" \in x.seen
                  /\ ~x.hit => ~Listed(x.playbook, {x.user} \cup x.groups)
    BY <1>0, <2>1 DEF Fresh, Grounded, Underway, Knowing
  <2>3. d \in Verdicts
    BY DEF ByMode, Verdicts
  <2>4. x.calm => d \in x.seen
    BY <1>b, <2>1, <2>2 DEF Underway, Knowing
  <2> HIDE DEF d
  <2> QED BY <1>a, <2>1, <2>3, <2>4 DEF Underway, Knowing
<1> QED BY <1>1, <1>2, <1>3, <1>4, <1>5, <1>6, <1>7, <1>8, <1>9, <1>10

-----------------------------------------------------------------------------
(***************************************************************************)
(* Changes.                                                                *)
(***************************************************************************)
\* The tables after a change.
TablesTyped ==
  /\ defaultMode \in {"open", "restricted"}
  /\ entries \subseteq Playbooks \X PpSubjects /\ adds \subseteq Playbooks \X PpSubjects
  /\ existing \subseteq PpSubjects
  /\ groupMembers \in [PpGroups -> SUBSET PpUsers]
  /\ volume \subseteq Playbooks /\ changes \in 0..MaxChanges

\* A change that is watched: every question under way notes what is right
\* afterwards, and knows if something it has read was changed.
LEMMA Watched ==
  ASSUME PpInv, TablesTyped', NEW D, Watch(D),
         defaultMode' = defaultMode \/ Informed \subseteq D,
         (\A u \in PpUsers : GroupsOf(u)' = GroupsOf(u)) \/ Informed \subseteq D,
         \A e \in entries' \ entries : LetIn(e[1], e[2]) \subseteq D
  PROVE  PpInv'
<1>0. Typed /\ asks \in [Asks -> AskInfo]
  BY DEF PpInv, Typed
<1>1. \A u \in PpUsers, p \in Playbooks :
        Decisions'[<<u, p>>] = Decision(u, p)' /\ Decision(u, p)' \in Verdicts
  <2> TAKE u \in PpUsers, p \in Playbooks
  <2>1. Decision(u, p)' \in Verdicts
    BY DEF TablesTyped, Decision, ByMode, Verdicts
  <2>2. Decisions'[<<u, p>>] = Decision(u, p)'
    BY DEF Decisions, Decision, GroupsOf
  <2> QED BY <2>1, <2>2
<1>2. /\ asks' = [a \in Asks |-> asks'[a]]
      /\ \A a \in Asks : ~InProgress(a) => asks'[a] = asks[a]
  BY DEF Watch
<1>3. ASSUME NEW a \in Asks, asks[a].pc \in Underway
      PROVE  LET x == asks[a] y == asks'[a]
             IN /\ y \in AskInfo /\ y.pc = x.pc /\ y.user = x.user /\ y.playbook = x.playbook
                /\ y.groups = x.groups /\ y.mode = x.mode /\ y.hit = x.hit /\ y.answer = x.answer
                /\ x.user \in PpUsers /\ x.playbook \in Playbooks
                /\ y.seen = x.seen \cup {Decisions'[<<x.user, x.playbook>>]}
                /\ y.calm = (x.calm /\ a \notin D)
  <2> DEFINE x == asks[a]
  <2>1. x \in AskInfo /\ x.user \in PpUsers /\ x.playbook \in Playbooks
    BY <1>0, <1>3 DEF PpInv, Noted, Fresh
  <2>2. InProgress(a)
    BY <1>3 DEF InProgress, Underway, Knowing
  <2>4. asks'[a] = [x EXCEPT !.seen = @ \cup {Decisions'[<<x.user, x.playbook>>]},
                             !.calm = @ /\ a \notin D]
    BY <2>2 DEF Watch
  <2>5. Decisions'[<<x.user, x.playbook>>] \in Verdicts
    BY <1>1, <2>1
  <2>6. ASSUME NEW v \in Verdicts, NEW y,
               y = [x EXCEPT !.seen = @ \cup {v}, !.calm = @ /\ a \notin D]
        PROVE  /\ y \in AskInfo /\ y.pc = x.pc /\ y.user = x.user /\ y.playbook = x.playbook
               /\ y.groups = x.groups /\ y.mode = x.mode /\ y.hit = x.hit /\ y.answer = x.answer
               /\ y.seen = x.seen \cup {v} /\ y.calm = (x.calm /\ a \notin D)
    BY <2>1, <2>6 DEF AskInfo
  <2> HIDE DEF x
  <2>7. /\ asks'[a] \in AskInfo /\ asks'[a].pc = x.pc /\ asks'[a].user = x.user
        /\ asks'[a].playbook = x.playbook
        /\ asks'[a].groups = x.groups /\ asks'[a].mode = x.mode
        /\ asks'[a].hit = x.hit /\ asks'[a].answer = x.answer
        /\ asks'[a].seen = x.seen \cup {Decisions'[<<x.user, x.playbook>>]}
        /\ asks'[a].calm = (x.calm /\ a \notin D)
    BY <2>4, <2>5, <2>6
  <2> QED BY <2>1, <2>7 DEF x
<1>4. \A a \in Asks : asks[a].pc \in Underway \/ ~InProgress(a)
  BY <1>0 DEF InProgress, Underway, Knowing, AskInfo, AskPCs
<1>5. asks' \in [Asks -> AskInfo]
  <2>1. \A a \in Asks : asks'[a] \in AskInfo
    BY <1>0, <1>2, <1>3, <1>4
  <2> QED BY <1>2, <2>1
<1>6. Typed'
  <2>1. \A a \in Asks : asks'[a].answer \in {None, "allow", "deny", "fallback"}
    BY <1>5 DEF AskInfo, Verdicts
  <2> QED BY <1>5, <2>1 DEF Typed, PpTypeOK, TablesTyped
<1>7. AnswersWereRight'
  <2> SUFFICES ASSUME NEW a \in Asks, asks'[a].pc = "done", asks'[a].calm
               PROVE  asks'[a].answer \in asks'[a].seen
    BY DEF AnswersWereRight
  <2>1. asks'[a] = asks[a]
    BY <1>2, <1>3, <1>4 DEF Underway, Knowing
  <2> QED BY <2>1 DEF PpInv, AnswersWereRight
<1>8. Noted'
  <2> SUFFICES ASSUME NEW a \in Asks, asks'[a].pc \in Underway
               PROVE  Fresh(asks[a])'
    BY DEF Noted, Fresh
  <2>0. asks[a].pc \in Underway
    BY <1>2, <1>4
  <2> DEFINE x == asks[a]
             y == asks'[a]
  <2>1. /\ y.pc = x.pc /\ y.user = x.user /\ y.playbook = x.playbook
        /\ y.groups = x.groups /\ y.mode = x.mode /\ y.hit = x.hit
        /\ x.user \in PpUsers /\ x.playbook \in Playbooks
        /\ y.seen = x.seen \cup {Decisions'[<<x.user, x.playbook>>]}
        /\ y.calm = (x.calm /\ a \notin D)
    BY <1>3, <2>0
  <2>u. PICK u \in PpUsers : x.user = u
    BY <2>1
  <2>p. PICK p \in Playbooks : x.playbook = p
    BY <2>1
  <2>2. Fresh(x)
    BY DEF PpInv, Noted
  <2>3. y.user = u /\ y.playbook = p /\ Decision(u, p)' \in y.seen
    <3>1. Decisions'[<<u, p>>] = Decision(u, p)'
      BY <1>1
    <3> QED BY <2>1, <2>u, <2>p, <3>1
  <2>4. ASSUME y.calm PROVE Grounded(asks[a])'
    <3>1. x.calm /\ a \notin D /\ Grounded(x)
      BY <2>0, <2>1, <2>2, <2>4 DEF Fresh
    <3>2. y.pc \in Knowing => a \in Informed
      BY <2>0, <2>1 DEF Informed, InProgress, Knowing
    <3>3. y.pc \in Knowing => defaultMode' = defaultMode /\ GroupsOf(u)' = GroupsOf(u)
      BY <3>1, <3>2
    <3>4. ASSUME y.pc \in Knowing, NEW S, S \subseteq {u} \cup x.groups, ~Listed(p, S)
          PROVE  ~Listed(p, S)'
      <4> SUFFICES ASSUME NEW t \in S, <<p, t>> \in entries' PROVE FALSE
        BY DEF Listed
      <4>1. <<p, t>> \in entries' \ entries
        BY <3>4 DEF Listed
      <4>2. a \in LetIn(p, t)
        BY <2>u, <2>p, <3>2, <3>4 DEF LetIn
      <4>3. LetIn(<<p, t>>[1], <<p, t>>[2]) \subseteq D
        BY <4>1
      <4> QED BY <3>1, <4>2, <4>3
    <3>5. y.pc = "any" => ~Listed(p, {u} \cup x.groups)'
      BY <2>1, <2>u, <2>p, <3>1, <3>4 DEF Grounded, Knowing
    <3>6. y.pc = "shared" /\ ~y.hit => ~Listed(p, {u})'
      BY <2>1, <2>u, <2>p, <3>1, <3>4 DEF Grounded, Knowing
    <3>7. y.pc = "map" /\ ~y.hit => ~Listed(p, {u} \cup x.groups)'
      BY <2>1, <2>u, <2>p, <3>1, <3>4 DEF Grounded, Knowing
    <3>8. /\ y.pc \in Knowing => x.groups = GroupsOf(u)
          /\ y.pc \in {"own", "shared", "map"} => x.mode = defaultMode
          /\ y.pc = "mode" => ByMode(defaultMode) \in x.seen
          /\ y.pc \in {"shared", "map"} /\ y.hit => "allow" \in x.seen
      BY <2>1, <2>u, <3>1 DEF Grounded
    <3>9. /\ y.pc \in Knowing => y.groups = GroupsOf(u)'
          /\ y.pc \in {"own", "shared", "map"} => y.mode = defaultMode'
          /\ y.pc = "mode" => ByMode(defaultMode') \in y.seen
          /\ y.pc \in {"shared", "map"} /\ y.hit => "allow" \in y.seen
      BY <2>1, <3>3, <3>8 DEF Knowing
    <3> QED BY <2>1, <2>u, <2>p, <3>5, <3>6, <3>7, <3>9 DEF Grounded, Listed, GroupsOf, ByMode
  <2> QED BY <2>3, <2>4 DEF Fresh, Grounded, Listed, Decision, GroupsOf, ByMode
<1> QED BY <1>6, <1>7, <1>8 DEF PpInv

\* A step that leaves alone what the resolvers read disturbs no question.
LEMMA Unwatched ==
  ASSUME PpInv, TablesTyped', UNCHANGED <<defaultMode, entries, existing, groupMembers, asks>>
  PROVE  PpInv'
<1>1. Typed' /\ AnswersWereRight'
  BY DEF PpInv, Typed, PpTypeOK, TablesTyped, AnswersWereRight
<1>2. Noted'
  <2> SUFFICES ASSUME NEW a \in Asks PROVE Fresh(asks[a])'
    BY DEF Noted
  <2>1. Fresh(asks[a])
    BY DEF PpInv, Noted
  <2>2. Grounded(asks[a]) => Grounded(asks[a])'
    BY DEF Grounded, Listed, GroupsOf, ByMode
  <2>3. Decision(asks[a].user, asks[a].playbook)' = Decision(asks[a].user, asks[a].playbook)
    BY DEF Decision, GroupsOf, ByMode
  <2> QED BY <2>1, <2>2, <2>3 DEF Fresh
<1> QED BY <1>1, <1>2 DEF PpInv

\* Every change of entries, mode, members, subjects and playbooks.
LEMMA StepChanges ==
  ASSUME PpInv,
         \/ \E p \in Playbooks : \/ \E s \in PpSubjects : AddPermission(p, s)
                                 \/ DeletePlaybook(p) \/ VolumeChange(p)
         \/ \E e \in adds : InsertPermission(e)
         \/ \E e \in entries : RemovePermission(e)
         \/ \E mode \in {"open", "restricted"} : SetMode(mode)
         \/ \E g \in PpGroups, u \in PpUsers : ChangeMember(g, u)
         \/ \E s \in PpSubjects : DeleteSubject(s)
         \/ \E x \in cleanups : CleanUp(x)
         \/ StartRescan \/ EndRescan
  PROVE  PpInv'
<1>0. TablesTyped /\ MaxChanges \in Nat
  BY PlaybookPermissionsAssumption DEF PpInv, Typed, PpTypeOK, TablesTyped
<1>c. Change => changes' \in 0..MaxChanges
  BY <1>0 DEF Change, TablesTyped
<1> USE DEF TablesTyped
<1>s. ASSUME UNCHANGED <<existing, groupMembers>> PROVE \A u \in PpUsers : GroupsOf(u)' = GroupsOf(u)
  BY <1>s DEF GroupsOf
<1>k. ASSUME UNCHANGED <<defaultMode, entries, existing, groupMembers, asks>>, TablesTyped'
      PROVE  PpInv'
  BY <1>k, Unwatched
<1>1. ASSUME NEW p \in Playbooks, NEW s \in PpSubjects, AddPermission(p, s) PROVE PpInv'
  <2>1. TablesTyped'
    BY <1>0, <1>c, <1>1 DEF AddPermission
  <2> QED BY <1>k, <1>1, <2>1 DEF AddPermission
<1>2. ASSUME NEW p \in Playbooks, DeletePlaybook(p) PROVE PpInv'
  <2>1. TablesTyped'
    BY <1>0, <1>c, <1>2 DEF DeletePlaybook
  <2> QED BY <1>k, <1>2, <2>1 DEF DeletePlaybook
<1>3. ASSUME NEW p \in Playbooks, VolumeChange(p) PROVE PpInv'
  <2>1. TablesTyped'
    BY <1>0, <1>c, <1>3 DEF VolumeChange
  <2> QED BY <1>k, <1>3, <2>1 DEF VolumeChange
<1>4. ASSUME NEW e \in adds, InsertPermission(e) PROVE PpInv'
  <2>1. TablesTyped'
    BY <1>0, <1>4 DEF InsertPermission
  <2>2. \A d \in entries' \ entries : d = e
    BY <1>4 DEF InsertPermission
  <2> QED BY <1>4, <1>s, <2>1, <2>2, Watched DEF InsertPermission
<1>5. ASSUME NEW e \in entries, RemovePermission(e) PROVE PpInv'
  <2>1. TablesTyped'
    BY <1>0, <1>c, <1>5 DEF RemovePermission
  <2> QED BY <1>5, <1>s, <2>1, Watched DEF RemovePermission
<1>6. ASSUME NEW mode \in {"open", "restricted"}, SetMode(mode) PROVE PpInv'
  <2>1. TablesTyped'
    BY <1>0, <1>c, <1>6 DEF SetMode
  <2> QED BY <1>6, <1>s, <2>1, Watched DEF SetMode
<1>7. ASSUME NEW g \in PpGroups, NEW u \in PpUsers, ChangeMember(g, u) PROVE PpInv'
  <2>1. TablesTyped'
    BY <1>0, <1>c, <1>7 DEF ChangeMember
  <2> QED BY <1>7, <2>1, Watched DEF ChangeMember
<1>8. ASSUME NEW s \in PpSubjects, DeleteSubject(s) PROVE PpInv'
  <2>1. TablesTyped'
    BY <1>0, <1>c, <1>8 DEF DeleteSubject
  <2> QED BY <1>8, <2>1, Watched DEF DeleteSubject
<1>9. ASSUME NEW x \in cleanups, CleanUp(x) PROVE PpInv'
  <2>1. TablesTyped'
    BY <1>0, <1>c, <1>9 DEF CleanUp
  <2> QED BY <1>9, <1>s, <2>1, Watched DEF CleanUp
<1>10. ASSUME EndRescan PROVE PpInv'
  <2>1. TablesTyped'
    BY <1>0, <1>c, <1>10 DEF EndRescan
  <2> QED BY <1>10, <1>s, <2>1, Watched DEF EndRescan
<1>11. ASSUME StartRescan PROVE PpInv'
  <2>1. TablesTyped'
    BY <1>0, <1>c, <1>11 DEF StartRescan
  <2> QED BY <1>k, <1>11, <2>1 DEF StartRescan
<1> QED BY <1>1, <1>2, <1>3, <1>4, <1>5, <1>6, <1>7, <1>8, <1>9, <1>10, <1>11
-----------------------------------------------------------------------------
\* The invariant is inductive.
THEOREM PermissionsInvariance == PpSpec => []PpInv
<1>1. PpInit => PpInv
  <2> SUFFICES ASSUME PpInit PROVE PpInv
    OBVIOUS
  <2>1. NoAsk \in AskInfo /\ NoAsk.pc = "none" /\ NoAsk.answer = None
    BY DEF NoAsk, AskInfo, AskPCs
  <2>2. \A a \in Asks : asks[a] = NoAsk
    BY DEF PpInit
  <2>3. Typed
    BY <2>1, <2>2, PlaybookPermissionsAssumption DEF PpInit, Typed, PpTypeOK
  <2>4. Noted /\ AnswersWereRight
    BY <2>1, <2>2 DEF Noted, Fresh, Underway, Knowing, AnswersWereRight
  <2> QED BY <2>3, <2>4 DEF PpInv
<1>2. PpInv /\ [PpNext]_ppVars => PpInv'
  <2>1. ASSUME PpInv, PpNext PROVE PpInv'
    BY <2>1, StepReads, StepChanges DEF PpNext
  <2>2. ASSUME PpInv, UNCHANGED ppVars PROVE PpInv'
    <3>1. TablesTyped
      BY <2>2 DEF PpInv, Typed, PpTypeOK, TablesTyped
    <3>2. TablesTyped'
      BY <2>2, <3>1 DEF ppVars, tables, TablesTyped
    <3> QED BY <2>2, <3>2, Unwatched DEF ppVars, tables
  <2> QED BY <2>1, <2>2
<1> QED BY <1>1, <1>2, PTL DEF PpSpec

\* AnswersSound: the resolvers put their answer together from four or five SELECTs
\* without a snapshot, and yet it was right at some moment since the question,
\* unless meanwhile the mode or a group changed or an entry was inserted that lets
\* the user in.
THEOREM AnswersSoundSafe == PpSpec => []AnswersSound
<1>1. PpInv => AnswersSound
  BY DEF PpInv, Typed, AnswersSound
<1> QED BY <1>1, PermissionsInvariance, PTL
=============================================================================
