-------------------------------- MODULE Ipam --------------------------------
(***************************************************************************)
(* The internal IP address management (backend/plus/ipam): addresses are   *)
(* reserved when a deployment starts, confirmed when it ends, orphaned     *)
(* when their VM is no longer seen, and released.                          *)
(*                                                                         *)
(* A deployment d is a stack deployment, a stack destroy or a playbook     *)
(* job; its id is used once.  Every `async with get_db()' block is one     *)
(* action.  A VM stands for its resource name and for its (node, vmid);    *)
(* its static address is IpOf[v].  ip_allocations is UNIQUE (pool_id, ip): *)
(* with one pool, alloc maps every address to its row.                     *)
(***************************************************************************)
EXTENDS Portal

CONSTANTS
  Ips,          \* the addresses of a pool
  Vms,
  IpOf,         \* IpOf[v]: the static address v is configured with
  Stacks,
  StackOf,      \* StackOf[v]: the stack v is defined in, None for a playbook's VM
  Deps,         \* ids of stack_deployments and of playbook jobs
  Faults,       \* which of Failures occur
  Uses          \* which of Usages are made

\* slow: a deployment takes longer than PENDING_TTL_MINUTES; pull: the tofu state
\* cannot be read; halfway: a playbook fails with its VM already made; db: a
\* statement fails; crash: the server restarts.
Failures == {"slow", "pull", "halfway", "db", "crash"}

\* toggle: the IPAM is switched on and off while VMs exist; blind: an admin
\* releases addresses that are in use.
Usages == {"toggle", "blind", "manual", "refresh"}

ASSUME IpamAssumption ==
  /\ IpOf \in [Vms -> Ips]
  /\ StackOf \in [Vms -> Stacks \cup {None}]
  /\ Faults \subseteq Failures
  /\ Uses \subseteq Usages
  /\ None \notin Stacks \cup Vms \cup Deps

VARIABLES
  on,           \* ipam_config.global_enabled
  alloc,        \* ip_allocations
  dep,          \* deployments and jobs
  live,         \* the VMs that exist on the cluster
  hidden,       \* the VMs a cluster refresh does not see at the moment
  state,        \* the VMs in the tofu state of their stack
  tracked,      \* stack_deployed_resources: the deployment that recorded v
  seen          \* what a cluster refresh in progress has seen

vars == <<on, alloc, dep, live, hidden, state, tracked, seen>>
cluster == <<live, hidden, state>>

-----------------------------------------------------------------------------
Row == [status : {"pending", "confirmed", "orphaned"}, dep : Deps \cup {None},
        vm : Vms \cup {None}, note : Vms \cup {None}, expired : BOOLEAN]

ASSUME NoRowAssumption == None \notin Row

Reserving == {"sweep", "insert", "note", "rollback"}
Applying == {"apply", "sync", "confirm", "free"}
Destroying == {"destroy", "resync", "release"}
Running == Reserving \cup Applying \cup Destroying

\* todo: VMs still to reserve, or to release; vm: the one at hand.
Dep == [pc : {"new", "done"} \cup Running, stack : Stacks \cup {None},
        mine : SUBSET Vms, todo : SUBSET Vms, vm : Vms \cup {None}]

Init ==
  /\ on = FALSE
  /\ alloc = [i \in Ips |-> None]
  /\ dep = [d \in Deps |-> [pc |-> "new", stack |-> None, mine |-> {}, todo |-> {},
                            vm |-> None]]
  /\ live = {} /\ hidden = {} /\ state = {}
  /\ tracked = [v \in Vms |-> None]
  /\ seen = None

-----------------------------------------------------------------------------
At(d, pc) == dep[d].pc = pc
Goto(d, pc) == dep' = [dep EXCEPT ![d].pc = pc]
InRun(d) == dep[d].pc \in Running

StackVms(s) == {v \in Vms : StackOf[v] = s}

\* The stack lock: one run per stack.
StackFree(s) == \A d \in Deps : dep[d].stack = s => ~InRun(d)

Holds(i, S) == alloc[i] # None /\ alloc[i].status \in S
PendingOf(d) == {i \in Ips : Holds(i, {"pending"}) /\ alloc[i].dep = d}
RowsOf(v) == {i \in Ips : Holds(i, {"confirmed", "orphaned"}) /\ alloc[i].vm = v}

\* DELETE FROM ip_allocations for the addresses in I.
Without(I) == [i \in Ips |-> IF i \in I THEN None ELSE alloc[i]]

\* sweep_expired_pending.
Swept == Without({i \in Ips : Holds(i, {"pending"}) /\ alloc[i].expired})

-----------------------------------------------------------------------------
(***************************************************************************)
(* Reserving, before anything is built.                                    *)
(***************************************************************************)

\* reserve_stack_ips under the stack lock; with the IPAM off nothing is reserved.
DeployStart(d, s) ==
  /\ At(d, "new")
  /\ StackFree(s)
  /\ StackVms(s) # {}
  /\ dep' = [dep EXCEPT ![d] = [pc |-> IF on THEN "sweep" ELSE "apply", stack |-> s,
                                mine |-> StackVms(s), todo |-> StackVms(s), vm |-> None]]
  /\ UNCHANGED <<on, alloc, cluster, tracked, seen>>

\* on_playbook_job_started.
JobStart(d, v) ==
  /\ At(d, "new")
  /\ StackOf[v] = None
  /\ dep' = [dep EXCEPT ![d] = [pc |-> IF on THEN "sweep" ELSE "apply", stack |-> None,
                                mine |-> {v}, todo |-> {v}, vm |-> None]]
  /\ UNCHANGED <<on, alloc, cluster, tracked, seen>>

\* reserve_specific first sweeps, in a transaction of its own.
ReserveSweep(d, v) ==
  /\ At(d, "sweep")
  /\ v \in dep[d].todo
  /\ alloc' = Swept
  /\ dep' = [dep EXCEPT ![d].pc = "insert", ![d].vm = v]
  /\ UNCHANGED <<on, cluster, tracked, seen>>

\* INSERT; a playbook may or may not name the vmid of the VM it makes.
ReserveInsert(d, vm) ==
  /\ At(d, "insert")
  /\ vm # None => dep[d].stack = None /\ vm = dep[d].vm
  /\ alloc[IpOf[dep[d].vm]] = None
  /\ alloc' = [alloc EXCEPT ![IpOf[dep[d].vm]] =
                 [status |-> "pending", dep |-> d, vm |-> vm, note |-> None,
                  expired |-> FALSE]]
  /\ Goto(d, IF dep[d].stack = None THEN "apply" ELSE "note")
  /\ UNCHANGED <<on, cluster, tracked, seen>>

\* Mutant of ReserveConflict: what was reserved before is left behind.
ReserveConflictLeaves(d) ==
  /\ At(d, "insert")
  /\ alloc[IpOf[dep[d].vm]] # None
  /\ Goto(d, "done")
  /\ UNCHANGED <<on, alloc, cluster, tracked, seen>>

\* Mutant of ReserveConflict: a conflict counts as any other error.
ReserveConflictIgnored(d) ==
  /\ At(d, "insert")
  /\ alloc[IpOf[dep[d].vm]] # None
  /\ Goto(d, "apply")
  /\ UNCHANGED <<on, alloc, cluster, tracked, seen>>

\* The UNIQUE constraint: 409, for a stack after a rollback.
ReserveConflict(d) ==
  /\ At(d, "insert")
  /\ alloc[IpOf[dep[d].vm]] # None
  /\ Goto(d, IF dep[d].stack = None THEN "done" ELSE "rollback")
  /\ UNCHANGED <<on, alloc, cluster, tracked, seen>>

\* _set_note: only a row that is still pending is marked with its resource.
SetNote(d) ==
  /\ At(d, "note")
  /\ LET v == dep[d].vm IN
       /\ alloc' = IF IpOf[v] \in PendingOf(d) THEN [alloc EXCEPT ![IpOf[v]].note = v]
                   ELSE alloc
       /\ dep' = [dep EXCEPT ![d].pc = IF dep[d].todo = {v} THEN "apply" ELSE "sweep",
                             ![d].todo = @ \ {v}]
  /\ UNCHANGED <<on, cluster, tracked, seen>>

\* Any other error: the deployment goes on without the missing reservations.
ReserveSwallowed(d) ==
  /\ "db" \in Faults
  /\ dep[d].pc \in {"sweep", "insert", "note"}
  /\ Goto(d, "apply")
  /\ UNCHANGED <<on, alloc, cluster, tracked, seen>>

\* release_pending_by_stack, then 409.
Rollback(d) ==
  /\ At(d, "rollback")
  /\ alloc' = Without(PendingOf(d))
  /\ Goto(d, "done")
  /\ UNCHANGED <<on, cluster, tracked, seen>>

-----------------------------------------------------------------------------
(***************************************************************************)
(* Building, and settling the reservations.                                *)
(***************************************************************************)

\* tofu apply makes all or some of the VMs that are missing, or fails before it
\* looks at them.
Apply(d) ==
  /\ At(d, "apply") /\ dep[d].stack # None
  /\ \/ \E made \in SUBSET (dep[d].mine \ live) :
          /\ live' = live \cup made
          /\ state' = (state \ dep[d].mine) \cup (live' \cap dep[d].mine)
     \/ UNCHANGED <<live, state>>
  /\ Goto(d, "sync")
  /\ UNCHANGED <<on, alloc, hidden, tracked, seen>>

\* The playbook succeeds, or fails with or without its VM.
Play(d) ==
  /\ At(d, "apply") /\ dep[d].stack = None
  /\ \/ live' = live \cup dep[d].mine /\ Goto(d, "confirm")
     \/ live' = live /\ Goto(d, "free")
     \/ "halfway" \in Faults /\ live' = live \cup dep[d].mine /\ Goto(d, "free")
  /\ UNCHANGED <<on, alloc, hidden, state, tracked, seen>>

\* sync_deployed_resources: the stack's rows are those of the tofu state, none at
\* all when the state could not be pulled; an error leaves them as they are.
Synced(d) ==
  \/ \E S \in {state} \cup (IF "pull" \in Faults THEN {{}} ELSE {}) :
       tracked' = [v \in Vms |-> IF v \notin dep[d].mine THEN tracked[v]
                                 ELSE IF v \in S THEN d ELSE None]
  \/ "db" \in Faults /\ UNCHANGED tracked

Sync(d) ==
  /\ At(d, "sync")
  /\ Synced(d)
  /\ Goto(d, "confirm")
  /\ UNCHANGED <<on, alloc, cluster, seen>>

\* The resource the row was reserved for was recorded by this very deployment.
Recorded(i, d) == alloc[i].note # None /\ tracked[alloc[i].note] = d

\* confirm_stack_ips: pending rows of recorded resources are confirmed, the others
\* deleted.
ConfirmStack(d) ==
  /\ At(d, "confirm") /\ dep[d].stack # None
  /\ alloc' = [i \in Ips |->
                 IF i \notin PendingOf(d) THEN alloc[i]
                 ELSE IF ~Recorded(i, d) THEN None
                 ELSE [alloc[i] EXCEPT !.status = "confirmed", !.vm = alloc[i].note,
                                       !.expired = FALSE]]
  /\ Goto(d, "done")
  /\ UNCHANGED <<on, cluster, tracked, seen>>

\* on_job_finished(success=True): confirm_by_job.
ConfirmJob(d) ==
  /\ At(d, "confirm") /\ dep[d].stack = None
  /\ alloc' = [i \in Ips |->
                 IF i \notin PendingOf(d) THEN alloc[i]
                 ELSE [alloc[i] EXCEPT !.status = "confirmed", !.expired = FALSE]]
  /\ Goto(d, "done")
  /\ UNCHANGED <<on, cluster, tracked, seen>>

\* on_job_finished(success=False): release_pending_by_job.
FreeJob(d) ==
  /\ At(d, "free")
  /\ alloc' = Without(PendingOf(d))
  /\ Goto(d, "done")
  /\ UNCHANGED <<on, cluster, tracked, seen>>

\* The hook fails: logged, and the rows stay as they are.
HookFailed(d) ==
  /\ "db" \in Faults
  /\ dep[d].pc \in {"confirm", "free"}
  /\ Goto(d, "done")
  /\ UNCHANGED <<on, alloc, cluster, tracked, seen>>

-----------------------------------------------------------------------------
(***************************************************************************)
(* Destroying a stack.                                                     *)
(***************************************************************************)
DestroyStart(d, s) ==
  /\ At(d, "new")
  /\ StackFree(s)
  /\ dep' = [dep EXCEPT ![d] = [pc |-> "destroy", stack |-> s, mine |-> StackVms(s),
                                todo |-> {}, vm |-> None]]
  /\ UNCHANGED <<on, alloc, cluster, tracked, seen>>

\* Mutant of DestroyTofu: a destroy that failed releases the addresses as well.
DestroyTofuAnyway(d) ==
  /\ At(d, "destroy")
  /\ \E gone \in SUBSET (dep[d].mine \cap live) :
       /\ live' = live \ gone /\ hidden' = hidden \ gone /\ state' = state \ gone
  /\ dep' = [dep EXCEPT ![d].pc = "release",
                        ![d].todo = {v \in dep[d].mine : tracked[v] # None}]
  /\ UNCHANGED <<on, alloc, tracked, seen>>

\* tofu destroy succeeds and the recorded VMs are to be released, or it fails
\* having removed some of them.
DestroyTofu(d) ==
  /\ At(d, "destroy")
  /\ \/ /\ live' = live \ dep[d].mine
        /\ hidden' = hidden \ dep[d].mine
        /\ state' = state \ dep[d].mine
        /\ dep' = [dep EXCEPT ![d].pc = "release",
                              ![d].todo = {v \in dep[d].mine : tracked[v] # None}]
     \/ /\ \E gone \in SUBSET (dep[d].mine \cap live) :
             live' = live \ gone /\ hidden' = hidden \ gone /\ state' = state \ gone
        /\ Goto(d, "resync")
  /\ UNCHANGED <<on, alloc, tracked, seen>>

Resync(d) ==
  /\ At(d, "resync")
  /\ Synced(d)
  /\ Goto(d, "done")
  /\ UNCHANGED <<on, alloc, cluster, seen>>

\* release_stack_on_destroy: one on_vm_lxc_deleted per recorded VM.
ReleaseVm(d, v) ==
  /\ At(d, "release")
  /\ v \in dep[d].todo
  /\ alloc' = Without(RowsOf(v))
  /\ dep' = [dep EXCEPT ![d].todo = @ \ {v}]
  /\ UNCHANGED <<on, cluster, tracked, seen>>

\* clear_deployed_resources; an error in the releases does not keep it back.
ClearTracked(d) ==
  /\ At(d, "release")
  /\ dep[d].todo = {} \/ "db" \in Faults
  /\ tracked' = [v \in Vms |-> IF v \in dep[d].mine THEN None ELSE tracked[v]]
  /\ Goto(d, "done")
  /\ UNCHANGED <<on, alloc, cluster, seen>>

-----------------------------------------------------------------------------
(***************************************************************************)
(* Time, the cluster, administration, restarts.                            *)
(***************************************************************************)

\* pending_expires_at passes: half an hour after the reservation.
Expire(i) ==
  /\ Holds(i, {"pending"}) /\ ~alloc[i].expired
  /\ "slow" \in Faults \/ ~InRun(alloc[i].dep)
  /\ alloc' = [alloc EXCEPT ![i].expired = TRUE]
  /\ UNCHANGED <<on, dep, cluster, tracked, seen>>

\* The lazy sweep of list_allocations, pool_usage and reserved_ips.
Sweep ==
  /\ Swept # alloc
  /\ alloc' = Swept
  /\ UNCHANGED <<on, dep, cluster, tracked, seen>>

\* A VM is deleted through P3: on_vm_lxc_deleted.
DeleteVm(v) ==
  /\ v \in live \ hidden
  /\ live' = live \ {v}
  /\ alloc' = Without(RowsOf(v))
  /\ UNCHANGED <<on, dep, hidden, state, tracked, seen>>

\* A VM is destroyed outside P3, drops out of the cluster view or comes back.
Vanish(v) ==
  /\ v \in live
  /\ \/ live' = live \ {v} /\ hidden' = hidden \ {v}
     \/ live' = live /\ hidden' = hidden \cup {v}
     \/ live' = live /\ hidden' = hidden \ {v}
  /\ UNCHANGED <<on, alloc, dep, state, tracked, seen>>

\* A fully successful cluster refresh looks at the nodes.
RefreshRead ==
  /\ "refresh" \in Uses
  /\ seen = None
  /\ seen' = live \ hidden
  /\ UNCHANGED <<on, alloc, dep, cluster, tracked>>

\* Mutant of RefreshApply: the other word for the status.
RefreshApplyMisspelt ==
  /\ seen # None
  /\ alloc' = IF ~on THEN alloc ELSE
       [i \in Ips |->
          IF ~Holds(i, {"confirmed", "orphaned"}) \/ alloc[i].vm = None THEN alloc[i]
          ELSE [alloc[i] EXCEPT !.status = IF alloc[i].vm \in seen THEN "confirmed"
                                           ELSE "vanished"]]
  /\ seen' = None
  /\ UNCHANGED <<on, dep, cluster, tracked>>

\* on_cluster_refresh_vanished_resources, with what was seen then.
RefreshApply ==
  /\ seen # None
  /\ alloc' = IF ~on THEN alloc ELSE
       [i \in Ips |->
          IF ~Holds(i, {"confirmed", "orphaned"}) \/ alloc[i].vm = None THEN alloc[i]
          ELSE [alloc[i] EXCEPT !.status = IF alloc[i].vm \in seen THEN "confirmed"
                                           ELSE "orphaned"]]
  /\ seen' = None
  /\ UNCHANGED <<on, dep, cluster, tracked>>

\* add_manual: a host outside Proxmox; no sweep before it.
AddManual(i) ==
  /\ "manual" \in Uses
  /\ alloc[i] = None
  /\ alloc' = [alloc EXCEPT ![i] = [status |-> "confirmed", dep |-> None, vm |-> None,
                                    note |-> None, expired |-> FALSE]]
  /\ UNCHANGED <<on, dep, cluster, tracked, seen>>

\* An admin who looks first releases no address in use or in preparation.
Unused(i) ==
  /\ \A v \in live : IpOf[v] # i
  /\ Holds(i, {"pending"}) => ~InRun(alloc[i].dep)

\* release_by_id.
ReleaseById(i) ==
  /\ alloc[i] # None
  /\ Unused(i) \/ "blind" \in Uses
  /\ alloc' = Without({i})
  /\ UNCHANGED <<on, dep, cluster, tracked, seen>>

\* release_orphans: some or all of the orphaned rows.
ReleaseOrphans(I) ==
  /\ I # {} /\ \A i \in I : Holds(i, {"orphaned"}) /\ (Unused(i) \/ "blind" \in Uses)
  /\ alloc' = Without(I)
  /\ UNCHANGED <<on, dep, cluster, tracked, seen>>

\* update_config: switched on before anything is deployed, or at any time.
Toggle ==
  /\ \/ "toggle" \in Uses
     \/ ~on /\ \A d \in Deps : At(d, "new")
  /\ on' = ~on
  /\ UNCHANGED <<alloc, dep, cluster, tracked, seen>>

\* A restart ends every deployment; tofu and playbooks got as far as they got.
Crash ==
  /\ "crash" \in Faults
  /\ \E made \in SUBSET UNION {dep[d].mine : d \in {e \in Deps : At(e, "apply")}},
        gone \in SUBSET UNION {dep[d].mine : d \in {e \in Deps : At(e, "destroy")}} :
       /\ live' = (live \cup made) \ gone
       /\ hidden' = hidden \ gone
       /\ state' = (state \cup {v \in made : StackOf[v] # None}) \ gone
  /\ dep' = [d \in Deps |-> IF InRun(d) THEN [dep[d] EXCEPT !.pc = "done"] ELSE dep[d]]
  /\ seen' = None
  /\ UNCHANGED <<on, alloc, tracked>>

-----------------------------------------------------------------------------
Reserve(d) ==
  \/ \E s \in Stacks : DeployStart(d, s)
  \/ \E v \in Vms : JobStart(d, v) \/ ReserveSweep(d, v)
  \/ \E vm \in Vms \cup {None} : ReserveInsert(d, vm)
  \/ ReserveConflict(d) \/ SetNote(d) \/ ReserveSwallowed(d) \/ Rollback(d)

Settle(d) ==
  \/ Apply(d) \/ Play(d) \/ Sync(d)
  \/ ConfirmStack(d) \/ ConfirmJob(d) \/ FreeJob(d) \/ HookFailed(d)

Destroy(d) ==
  \/ \E s \in Stacks : DestroyStart(d, s)
  \/ DestroyTofu(d) \/ Resync(d)
  \/ \E v \in Vms : ReleaseVm(d, v)
  \/ ClearTracked(d)

Outside ==
  \/ \E v \in Vms : DeleteVm(v) \/ Vanish(v)
  \/ RefreshRead \/ RefreshApply
  \/ \E i \in Ips : Expire(i) \/ AddManual(i) \/ ReleaseById(i)
  \/ \E I \in SUBSET Ips : ReleaseOrphans(I)
  \/ Sweep \/ Toggle \/ Crash

Next == (\E d \in Deps : Reserve(d) \/ Settle(d) \/ Destroy(d)) \/ Outside

Spec == Init /\ [][Next]_vars

-----------------------------------------------------------------------------
(***************************************************************************)
(* Properties.                                                             *)
(***************************************************************************)

\* Every row, deployment and set holds values of its type.
TypeOK ==
  /\ on \in BOOLEAN
  /\ alloc \in [Ips -> Row \cup {None}]
  /\ dep \in [Deps -> Dep]
  /\ live \subseteq Vms /\ hidden \subseteq Vms /\ state \subseteq Vms
  /\ tracked \in [Vms -> Deps \cup {None}]
  /\ seen \in (SUBSET Vms) \cup {None}

\* No address is given out twice: while the IPAM is on, no two VMs that exist, seen
\* or not, have the same address, and none has one entered for a foreign host.
NoDoubleUse ==
  on => /\ \A v, w \in live : IpOf[v] = IpOf[w] => v = w
        /\ \A v \in live : alloc[IpOf[v]] # None => alloc[IpOf[v]].dep # None

\* A reservation outlives its deployment only if a restart or a failing hook kept
\* it from being confirmed or released.
NoStrays ==
  \A i \in Ips : Holds(i, {"pending"}) /\ ~InRun(alloc[i].dep)
                   => Faults \cap {"crash", "db"} # {}

\* A row that belongs to a VM stays as long as the VM exists, orphaned or not: no
\* sweep, failed destroy, confirmation or refresh with an old view removes it.
KeptStep ==
  \A v \in live \cap live' : \A i \in RowsOf(v) : alloc'[i] # None /\ alloc'[i].vm = v

KeptWhileLive == [][KeptStep]_vars

\* A stack can be deployed again: it is not refused because of an address that its
\* own VM holds.
RedeployAllowed ==
  \A d \in Deps :
    At(d, "insert") /\ dep[d].stack # None
      => \A i \in RowsOf(dep[d].vm) : i # IpOf[dep[d].vm]
=============================================================================
