-------------------------------- MODULE Pools --------------------------------
(***************************************************************************)
(* Pools and quotas (backend/plus/pools, pools_plus.py): pools with an     *)
(* owner and quotas, their members, the grants on them, the quota check    *)
(* before a deployment, the hook that adds what was deployed, and the sync *)
(* that removes members whose VM is gone.                                  *)
(*                                                                         *)
(* One portal node stands for all.  Its row bears the name of one Proxmox  *)
(* node; the VMs in Away live on other nodes of the same cluster.  Of the  *)
(* quotas the number of VMs and one resource are kept: each VM has one     *)
(* unit of it.  Names, tags and the audit trail are left out.              *)
(***************************************************************************)
EXTENDS Portal

CONSTANTS
  PoolIds, Vms, Subjects, Presets, Deploys,
  Away,             \* VMs on a node the portal's row is not named after
  Templates,        \* VMs that are templates
  Quotas,           \* [vms : Nat, units : Nat], 0: no limit
  MaxRows,          \* bound: members inserted
  PoolDeployments   \* see `poDeployment'

ASSUME PoolsAssumption ==
  /\ Away \subseteq Vms /\ Templates \subseteq Vms
  /\ Quotas \subseteq [vms : Nat, units : Nat]
  /\ MaxRows \in Nat
  /\ PoolDeployments \subseteq
       [sqlite : BOOLEAN, overlap : BOOLEAN, managers : BOOLEAN, races : BOOLEAN,
        pools : SUBSET PoolIds, vms : SUBSET Vms, quotas : SUBSET Quotas]
  /\ None \notin PoolIds \cup Subjects
  /\ IsFiniteSet(Vms)

VARIABLES
  poDeployment, \* chosen at the start: whether ids are reused; whether deployments
                \* overlap; whether managers change members and grants; whether
                \* anything happens during a pool's edit or a subject's deletion;
                \* bounds: the pools, VMs and quotas there can be
  pools,        \* pools[p]: its row, or None
  members,      \* rows of pool_members
  rowsMade,     \* how many there were
  grants,       \* rows of pool_assignments
  subjects,     \* users and groups: here, about to go, gone
  presets,      \* role_presets
  nodeRow,      \* the portal's node exists
  cluster,      \* VMs that exist
  cache,        \* VMs the cluster cache knows
  deploys,      \* deployments that passed the quota check
  sync,         \* sync_orphan_members between its transactions
  edit          \* a create or update of a pool between two statements

poWorld == <<poDeployment, subjects, presets, nodeRow, cluster, cache>>
poVars == <<poDeployment, pools, members, rowsMade, grants, subjects, presets,
            nodeRow, cluster, cache, deploys, sync, edit>>
-----------------------------------------------------------------------------
Pool == [quota : Quotas, owner : Subjects \cup {None}]
Member == [id : 1..MaxRows, vm : Vms, pool : PoolIds]
Grant == [pool : PoolIds, subject : Subjects, preset : Presets]
Deploy == [pc : {"idle", "running", "made"}, pool : PoolIds \cup {None},
           vms : SUBSET Vms, stack : BOOLEAN]

ASSUME PoolRowAssumption == None \notin Pool

NoDeploy == [pc |-> "idle", pool |-> None, vms |-> {}, stack |-> FALSE]
NoSync == [pc |-> "idle", live |-> {}, orphans |-> {}]
NoEdit == [op |-> "none", pool |-> None, row |-> None, keep |-> FALSE]

PoInit ==
  /\ poDeployment \in PoolDeployments
  /\ pools = [p \in PoolIds |-> None]
  /\ members = {} /\ rowsMade = 0 /\ grants = {}
  /\ subjects = [s \in Subjects |-> "here"]
  /\ presets = Presets
  /\ nodeRow = TRUE
  /\ cluster \in {{}, Templates} /\ cache = {}
  /\ deploys = [d \in Deploys |-> NoDeploy]
  /\ sync = NoSync
  /\ edit = NoEdit

MembersOf(p) == {m \in members : m.pool = p}
MemberVms(p) == {m.vm : m \in MembersOf(p)}

\* SQLite hands out the highest id plus one, PostgreSQL never the same twice.
NextId ==
  IF ~poDeployment.sqlite THEN rowsMade + 1
  ELSE Cardinality({k \in 1..MaxRows : \E m \in members : m.id >= k}) + 1

\* An INSERT into pool_members; the caller sees to uniqueness and foreign keys.
InsertMember(vm, p) ==
  /\ rowsMade < MaxRows
  /\ members' = members \cup {[id |-> NextId, vm |-> vm, pool |-> p]}
  /\ rowsMade' = rowsMade + 1

\* UNIQUE (node_id, vmid) and the foreign keys.
Insertable(vm, p) ==
  /\ nodeRow
  /\ pools[p] # None
  /\ \A m \in members : m.vm # vm
-----------------------------------------------------------------------------
(***************************************************************************)
(* Pools.                                                                  *)
(***************************************************************************)
OwnerExists(o) == o # None => subjects[o] # "gone"

Managed(p) == poDeployment.managers \/ MembersOf(p) = {}

\* create_pool up to _validate_owner ...
BeginCreate(p, q, o) ==
  /\ pools[p] = None
  /\ OwnerExists(o)
  /\ edit' = [op |-> "create", pool |-> p, row |-> [quota |-> q, owner |-> o], keep |-> FALSE]
  /\ UNCHANGED <<pools, members, rowsMade, grants, deploys, sync, poWorld>>

\* Mutant of BeginUpdate: the owner is not looked up.
BeginUpdateUnchecked(p, q, o) ==
  /\ pools[p] # None /\ Managed(p)
  /\ edit' = [op |-> "update", pool |-> p, row |-> [quota |-> q, owner |-> o],
              keep |-> o = pools[p].owner]
  /\ UNCHANGED <<pools, members, rowsMade, grants, deploys, sync, poWorld>>

\* update_pool up to _validate_owner: an owner who stays is not looked up again ...
BeginUpdate(p, q, o) ==
  /\ pools[p] # None /\ Managed(p)
  /\ o # pools[p].owner => OwnerExists(o)
  /\ edit' = [op |-> "update", pool |-> p, row |-> [quota |-> q, owner |-> o],
              keep |-> o = pools[p].owner]
  /\ UNCHANGED <<pools, members, rowsMade, grants, deploys, sync, poWorld>>

\* ... and the INSERT, or the UPDATE of what is new, which finds no row if the pool
\* was deleted.
CommitPool ==
  /\ edit # NoEdit
  /\ pools' = IF edit.op = "update" /\ pools[edit.pool] = None THEN pools
              ELSE [pools EXCEPT ![edit.pool] =
                     [edit.row EXCEPT !.owner = IF edit.keep THEN pools[edit.pool].owner ELSE @]]
  /\ edit' = NoEdit
  /\ UNCHANGED <<members, rowsMade, grants, deploys, sync, poWorld>>

\* delete_pool: members and grants go with it.
DeletePool(p) ==
  /\ pools[p] # None
  /\ pools' = [pools EXCEPT ![p] = None]
  /\ members' = members \ MembersOf(p)
  /\ grants' = {g \in grants : g.pool # p}
  /\ UNCHANGED <<rowsMade, deploys, sync, edit, poWorld>>
-----------------------------------------------------------------------------
(***************************************************************************)
(* Members, as managers change them.                                       *)
(***************************************************************************)

\* add_pool_member, and bulk_add_pool_members of several: all or none.
AddPoolMembers(p, vms) ==
  /\ poDeployment.managers
  /\ \A vm \in vms : Insertable(vm, p)
  /\ rowsMade + Cardinality(vms) <= MaxRows
  /\ \E first \in {NextId} : \E number \in [vms -> first..first + Cardinality(vms) - 1] :
       /\ \A v, w \in vms : number[v] = number[w] => v = w
       /\ members' = members \cup {[id |-> number[vm], vm |-> vm, pool |-> p] : vm \in vms}
  /\ rowsMade' = rowsMade + Cardinality(vms)
  /\ UNCHANGED <<pools, grants, deploys, sync, edit, poWorld>>

\* remove_pool_member.
RemovePoolMember(p, vm) ==
  /\ vm \in MemberVms(p)
  /\ members' = {m \in members : m.vm # vm \/ m.pool # p}
  /\ UNCHANGED <<pools, rowsMade, grants, deploys, sync, edit, poWorld>>

\* move_vm_pool: out of every pool, to another one by an UPDATE of the row, or into
\* one for the first time.
MoveOut(vm) ==
  /\ members' = {m \in members : m.vm # vm}
  /\ members' # members
  /\ UNCHANGED <<pools, rowsMade, grants, deploys, sync, edit, poWorld>>

MoveVmPool(vm, p) ==
  /\ poDeployment.managers
  /\ pools[p] # None
  /\ vm \notin MemberVms(p)
  /\ IF \E m \in members : m.vm = vm
     THEN /\ members' = {IF m.vm = vm THEN [m EXCEPT !.pool = p] ELSE m : m \in members}
          /\ UNCHANGED rowsMade
     ELSE Insertable(vm, p) /\ InsertMember(vm, p)
  /\ UNCHANGED <<pools, grants, deploys, sync, edit, poWorld>>
-----------------------------------------------------------------------------
(***************************************************************************)
(* Grants.                                                                 *)
(***************************************************************************)

\* add_pool_assignment: an existing one gets the new preset.  Nobody looks whether
\* the subject exists.
AddPoolAssignment(p, s, r) ==
  /\ poDeployment.managers
  /\ pools[p] # None
  /\ r \in presets
  /\ grants' = {g \in grants : g.pool # p \/ g.subject # s}
                 \cup {[pool |-> p, subject |-> s, preset |-> r]}
  /\ grants' # grants
  /\ UNCHANGED <<pools, members, rowsMade, deploys, sync, edit, poWorld>>

RemovePoolAssignment(p, s) ==
  /\ grants' = {g \in grants : g.pool # p \/ g.subject # s}
  /\ grants' # grants
  /\ UNCHANGED <<pools, members, rowsMade, deploys, sync, edit, poWorld>>

\* get_pool_permissions: what s is granted, VM by VM.
PoolPermissions(s) ==
  {<<x[1].vm, x[2].preset>> : x \in {y \in members \X grants :
                                      y[1].pool = y[2].pool /\ y[2].subject = s}}
-----------------------------------------------------------------------------
(***************************************************************************)
(* Quotas.                                                                 *)
(***************************************************************************)

\* _calculate_usage: a member the cache does not know counts as one VM without
\* resources; a template counts for neither.
VmUsage(p) == Cardinality(MemberVms(p) \ (Templates \cap cache))
UnitUsage(p) == Cardinality((MemberVms(p) \cap cache) \ Templates)

\* check_pool_quota (n = 1) and check_pool_quota_bulk.
WithinQuota(p, n) ==
  pools[p] # None =>
    /\ pools[p].quota.vms > 0 => VmUsage(p) + n <= pools[p].quota.vms
    /\ pools[p].quota.units > 0 => UnitUsage(p) + n <= pools[p].quota.units

\* A deployment of one guest, or of a stack, is let in.
AdmitDeploy(d, p, vms, stack) ==
  /\ deploys[d] = NoDeploy
  /\ poDeployment.overlap \/ \A e \in Deploys : deploys[e] = NoDeploy
  /\ vms # {} /\ vms \cap (cluster \cup Templates) = {}
  /\ \A e \in Deploys : vms \cap deploys[e].vms = {}
  /\ ~stack => Cardinality(vms) = 1
  /\ WithinQuota(p, Cardinality(vms))
  /\ deploys' = [deploys EXCEPT ![d] =
       [pc |-> "running", pool |-> p, vms |-> vms, stack |-> stack]]
  /\ UNCHANGED <<pools, members, rowsMade, grants, sync, edit, poWorld>>

MakeVms(d) ==
  /\ deploys[d].pc = "running"
  /\ cluster' = cluster \cup deploys[d].vms
  /\ deploys' = [deploys EXCEPT ![d].pc = "made"]
  /\ UNCHANGED <<pools, members, rowsMade, grants, sync, edit, poDeployment, subjects,
                 presets, nodeRow, cache>>

DeployFails(d) ==
  /\ deploys[d].pc = "running"
  /\ deploys' = [deploys EXCEPT ![d] = NoDeploy]
  /\ UNCHANGED <<pools, members, rowsMade, grants, sync, edit, poWorld>>

\* on_deploy_success_pool_auto_add: stack jobs have no category it knows; a VM
\* that is a member already, or a pool that is gone, is only logged.
AutoAdd(d) ==
  /\ deploys[d].pc = "made"
  /\ \E vm \in deploys[d].vms :
       IF ~deploys[d].stack /\ Insertable(vm, deploys[d].pool)
       THEN InsertMember(vm, deploys[d].pool)
       ELSE UNCHANGED <<members, rowsMade>>
  /\ deploys' = [deploys EXCEPT ![d] = NoDeploy]
  /\ UNCHANGED <<pools, grants, sync, edit, poWorld>>
-----------------------------------------------------------------------------
(***************************************************************************)
(* The cluster, its cache and the sync.                                    *)
(***************************************************************************)
VmGone(vm) ==
  /\ vm \in cluster
  /\ \A d \in Deploys : vm \notin deploys[d].vms
  /\ cluster' = cluster \ {vm}
  /\ UNCHANGED <<pools, members, rowsMade, grants, deploys, sync, edit, poDeployment,
                 subjects, presets, nodeRow, cache>>

\* The core refreshes the cache and hands what it got to sync_orphan_members.
RefreshCache ==
  /\ sync = NoSync
  /\ cache' = cluster
  /\ sync' = [pc |-> "got", live |-> cluster, orphans |-> {}]
  /\ UNCHANGED <<pools, members, rowsMade, grants, deploys, edit, poDeployment,
                 subjects, presets, nodeRow, cluster>>

\* A member is found by the name of its node's row and its id.
LooksLive(m) == nodeRow /\ m.vm \in sync.live \ Away

FindOrphans ==
  /\ sync.pc = "got"
  /\ sync' = IF \A m \in members : LooksLive(m) THEN NoSync
             ELSE [sync EXCEPT !.pc = "found",
                     !.orphans = {m.id : m \in {n \in members : ~LooksLive(n)}}]
  /\ UNCHANGED <<pools, members, rowsMade, grants, deploys, edit, poWorld>>

RemoveOrphans ==
  /\ sync.pc = "found"
  /\ members' = {m \in members : m.id \notin sync.orphans}
  /\ sync' = NoSync
  /\ UNCHANGED <<pools, rowsMade, grants, deploys, edit, poWorld>>
-----------------------------------------------------------------------------
(***************************************************************************)
(* Users, groups, presets and the node go.                                 *)
(***************************************************************************)

\* cleanup_user_from_pools, cleanup_group_from_pools: owners are emptied, the
\* grants are only mentioned in the audit trail ...
CleanupSubject(s) ==
  /\ subjects[s] = "here"
  /\ subjects' = [subjects EXCEPT ![s] = "going"]
  /\ pools' = [p \in PoolIds |->
       IF pools[p] # None /\ pools[p].owner = s THEN [pools[p] EXCEPT !.owner = None]
       ELSE pools[p]]
  /\ UNCHANGED <<poDeployment, members, rowsMade, grants, presets, nodeRow, cluster,
                 cache, deploys, sync, edit>>

\* ... and the core deletes the row.
SubjectGone(s) ==
  /\ subjects[s] = "going"
  /\ subjects' = [subjects EXCEPT ![s] = "gone"]
  /\ UNCHANGED <<poDeployment, pools, members, rowsMade, grants, presets, nodeRow,
                 cluster, cache, deploys, sync, edit>>

PresetDeleted(r) ==
  /\ r \in presets
  /\ presets' = presets \ {r}
  /\ grants' = {g \in grants : g.preset # r}
  /\ UNCHANGED <<poDeployment, pools, members, rowsMade, subjects, nodeRow, cluster,
                 cache, deploys, sync, edit>>

NodeRowDeleted ==
  /\ nodeRow
  /\ nodeRow' = FALSE
  /\ members' = {}
  /\ UNCHANGED <<poDeployment, pools, rowsMade, grants, subjects, presets, cluster,
                 cache, deploys, sync, edit>>
-----------------------------------------------------------------------------
PoolStep(p) ==
  \/ \E q \in poDeployment.quotas, o \in Subjects \cup {None} :
       edit = NoEdit /\ (BeginCreate(p, q, o) \/ BeginUpdate(p, q, o))
  \/ DeletePool(p)
  \/ \E vms \in SUBSET poDeployment.vms \ {{}} : AddPoolMembers(p, vms)
  \/ \E vm \in poDeployment.vms : RemovePoolMember(p, vm) \/ MoveVmPool(vm, p)
  \/ \E s \in Subjects : \/ \E r \in Presets : AddPoolAssignment(p, s, r)
                         \/ RemovePoolAssignment(p, s)

DeployStep(d) ==
  \/ \E p \in poDeployment.pools, vms \in SUBSET poDeployment.vms, b \in BOOLEAN :
       AdmitDeploy(d, p, vms, b)
  \/ MakeVms(d) \/ DeployFails(d) \/ AutoAdd(d)

PoNext ==
  \/ CommitPool
  \/ \E s \in Subjects : SubjectGone(s)
  \/ /\ \/ poDeployment.races
        \/ edit = NoEdit /\ \A s \in Subjects : subjects[s] # "going"
     /\ \/ \E p \in poDeployment.pools : PoolStep(p)
        \/ \E d \in Deploys : DeployStep(d)
        \/ \E vm \in Vms : MoveOut(vm) \/ VmGone(vm)
        \/ RefreshCache \/ FindOrphans \/ RemoveOrphans
        \/ \E s \in Subjects : CleanupSubject(s)
        \/ \E r \in Presets : PresetDeleted(r)
        \/ NodeRowDeleted

PoSpec == PoInit /\ [][PoNext]_poVars
-----------------------------------------------------------------------------
PoTypeOK ==
  /\ poDeployment \in PoolDeployments
  /\ pools \in [PoolIds -> Pool \cup {None}]
  /\ members \subseteq Member /\ rowsMade \in 0..MaxRows
  /\ grants \subseteq Grant
  /\ subjects \in [Subjects -> {"here", "going", "gone"}]
  /\ presets \subseteq Presets
  /\ nodeRow \in BOOLEAN
  /\ cluster \subseteq Vms /\ cache \subseteq Vms
  /\ deploys \in [Deploys -> Deploy]
  /\ sync \in [pc : {"idle", "got", "found"}, live : SUBSET Vms, orphans : SUBSET (1..MaxRows)]

\* As long as deployments follow one another, no manager adds members or changes a pool
\* that has some and nothing comes between the look and the write of such a change, what
\* deployments add to a pool stays within its number of VMs, although the check reads a
\* cache that lags behind and the members join only afterwards.
VmQuotaHeld ==
  ~poDeployment.overlap /\ ~poDeployment.managers /\ ~poDeployment.races =>
    \A p \in PoolIds : pools[p] # None /\ pools[p].quota.vms > 0
      => Cardinality(MemberVms(p) \ Templates) <= pools[p].quota.vms

\* "prevents two concurrent deploys from both passing the quota check and both
\* inserting" (_quota_lock): the same with deployments that overlap.
OverlapHeld ==
  ~poDeployment.managers =>
    \A p \in PoolIds : pools[p] # None /\ pools[p].quota.vms > 0
      => Cardinality(MemberVms(p) \ Templates) <= pools[p].quota.vms

\* No pool is owned by a user or group that is gone, if nothing comes between the
\* look at the owner and the write, nor between the clean-up and the deletion.
OwnersExist ==
  ~poDeployment.races => \A p \in PoolIds :
    pools[p] # None /\ pools[p].owner # None => subjects[pools[p].owner] # "gone"

\* The held quota and the owners, over rows and requests of their types.
PoolsSound == PoTypeOK /\ VmQuotaHeld /\ OwnersExist

\* "audit for group assignment cascade before group deletion": who is gone holds
\* no permission on any VM.
GoneHoldNothing == \A s \in Subjects : subjects[s] = "gone" => PoolPermissions(s) = {}

\* "Remove pool_members entries whose VM/LXC no longer exists in the cluster": the
\* sync leaves alone what it was told exists.
OnlyGoneRemoved ==
  [][\A m \in members : sync.pc = "found" /\ sync' = NoSync /\ m.vm \in sync.live
       => m \in members']_poVars
=============================================================================
