# P3 Portal Plus in TLA+

P3 Portal Plus (`src/backend/plus`) is the proprietary half of a portal for
Proxmox clusters: a FastAPI process with one event loop, a database reached
through `async with get_db()`, a Celery worker for schedules, and two outside
tools, OpenTofu and Ansible, that change the cluster. This directory models the
parts of it in which several of these actors meet, checks them with TLC and
proves the central invariants with TLAPS.

Paths below are relative to `src/backend/plus`.

## 1. Inventory

| Component | State it keeps | Operations | Module |
|---|---|---|---|
| Approval workflow (`approvals/`) | `pending_approvals`, `approval_rules`, `approval_workflow_config`, `scheduled_job_approval_status` | submit, resubmit, approve, reject, withdraw, expire, rules, toggle, cleanup hooks | `Approvals` |
| Stack deployment (`stacks/deploy_service.py`, `runner.py`, `engine.py`, `deployments.py`) | plan tokens, stack and SDN locks, `main.tf.json`, `plan.tfplan`, tofu state, `jobs`, `stack_deployments`, `stack_deployed_resources`, drift state | plan, deploy, destroy, drift check, edit, delete, restart | `StackDeploy` |
| IP address management (`ipam/`) | `ip_allocations`, `ipam_config` | reserve, confirm, release, sweep, orphan, reactivate, manual entry, switch | `Ipam` |
| Stack definitions (`stacks/service.py`) | `stacks`, `stack_versions`, pending edits, owners | create, edit with etag, restore, version cap, approved edits and deletions, purge, orphans | `StackEdits`, `VersionedText` |
| Stack networks, VMIDs, disks (`stacks/deploy_service.py`, `network_usage.py`) | none of its own: definitions, the tofu state and the cluster | checks before a plan, suggestions, warnings | `StackNetworks` |
| Stack firewall (`stacks/firewall_commit.py`) | groups and rules in Proxmox | commit after an apply, removal after a destroy | `StackFirewall` |
| Scheduled jobs (`scheduled_jobs/`) | `scheduled_jobs`, `scheduled_job_runs`, approval rows of jobs | create, update, toggle, delete, dispatch, run, run now, history limit, clean-up hooks | `ScheduledJobs` |
| Git sync (`git_sync/`) | configuration, clone, sources, conflicts, logs, `_locks`, `_queued` | trigger, webhook, sync, resolve, configure, delete | `GitSync` |
| Pools (`pools/`, `pools_plus.py`) | pools, members, grants, quotas | create, change, move, grant, quota check, deployment hook, orphan sync, clean-up | `Pools` |
| Auto snapshots (`auto_snapshots/`) | `vm_native_snapshots`, job status | run, resync, rotate, clean-up | `Snapshots` |
| Config snapshots (`config_snapshots/`) | `vm_config_snapshots`, `_RESTORE_LOCKS` | copy, upload, diff, restore, delete, scheduled copies, orphans | `ConfigSnapshots` |
| Template replication | job row, VMs it makes | start, clone, migrate, convert, clear up, remove the source | `Replication` |
| Playbook permissions | whitelist entries, default mode | resolvers, entries, mode, clean-up, rescan | `PlaybookPermissions` |
| Dependencies, editors, inventory, topology | rows, files and rendered text | single-row writes, reads | not modelled |
| Transpiler, previews, cloud-init, validation | none of its own | pure translation | not modelled |
| Frontend (`src/frontend`) | none | shows what the backend returns | not modelled |

How they interact: `requires_approval` (`approvals_plus.py`) stands in front of
deploys, destroys, playbooks and scheduled jobs and replays them later through an
execute handler; a deploy calls the IPAM before it starts tofu and again when it is
done; the core calls the IPAM when a playbook starts and ends, when a VM is deleted
and after a cluster refresh; edits of a stack change the etag a plan token was made
for; a job of the runner commits the stack's firewall after the apply; scheduled jobs
start Git syncs, snapshots and configuration copies; a deploy asks the pools for their
quota and adds what it made; deleted users, groups, playbooks and VMs reach every
component through cleanup hooks. There is no shared lock between components.

What is hard here:

* every `await` is a point at which any other request runs: a status, a lock, an
  etag or a list of visible VMs read before it may be stale after it;
* two locks that are taken by one task and released by another;
* one working directory per stack with one `plan.tfplan` in it, written by every plan
  call, while tokens and approved requests refer to plans by other means;
* half-successes: a tofu run or playbook that fails having made some of the VMs, a
  state that cannot be read back, a refused address after the rows are written, a
  firewall or a rotation given up between two calls to Proxmox;
* check and act in different transactions: etags, quotas, owners, free VMIDs, locks
  taken after what they protect was read;
* restarts: tokens, locks and tasks are in memory, rows and files are not;
* time: plan tokens, reservations and requests expire, tofu runs as long as it likes.

What makes each component correct is stated as the properties in sections 4 and 5. The
list of hazards, each with its line and the properties aimed at it, is in
`PROJECT.json`.

## 2. The modules

Each component module has its state as variables, one action per transaction or
per stretch of code without an `await`, and its properties at the end. Definitions
called `...Again`, `...Leaves`, `...Anyway` and the like, commented "Mutant of", are
what a plausible bug would make of the definition after them; no behaviour uses them.
The `MC` modules give the constants values; the `Proofs` modules hold the theorems.

### Approvals

One action type with several targets; the code treats the types alike, up to the
execute handler, which here either returns or raises. A request is a row with status,
requester, rule snapshot, secrets (`blob`) and deadline. `runs` and `ranBy` are
history: how often the handler was started, and on whose decision.

A service call with an `await` between two transactions is a record in `call`:
`create`/`resubmit` between the look at the rule and the INSERT, `decide` between the
status check of `approve_approval` and its UPDATE, `execute` up to the second read,
`handler` while the handler runs, `suspend` between the rule UPDATE and
`_suspend_pending_for_rule`. `reject_approval` and `cancel_approval` repeat their
condition in the UPDATE and are single steps. `requires_approval`'s look at the toggle
and the rule is one step: in between nothing is kept that a later step relies on.
Audit rows, notifications and the lists are left out.

### StackDeploy

Processes are plan, deploy, destroy and drift calls, approved requests being replayed,
and runner tasks; a deploy call and the runner it creates are one process, because
the call ends where the task begins. `call[p].pc` says before which `await` the process
is; `Owning`, `Waiting`, `Others` group these points by their relation to the stack lock.

A definition stands for its YAML and its etag (a hash of the YAML). A plan is the
operation and the `main.tf.json` it was made from, a planfile a plan that may be stale,
that is, older than tofu's state. `call[p].want` is the plan reviewed for this job,
`call[p].ran` the one tofu was given. `lock[s]` and `waiters[s]` model `asyncio.Lock`
as it is: free as soon as it is released, but queued for while woken waiters have not
run yet. A tofu run ends with the target reached, or fails with or without having
reached it; what is deployed of a stack is one definition or nothing.

The job row and the deployment row are written in transactions of their own, with awaits in
between: at the start the job first (`StartRows`, `CreateDeployment`), at the end the deployment
first (`FinishDeployment`, `FinishJob`). With `"rows"` among the faults either write may be the last.
With `"loose"` an exception in following tofu's output ends the job and frees the lock while the
process goes on (`LosesTofu`): `loose[s]` is the plan it still works on, and tofu's own lock on the
state makes later runs of the stack fail until it ends (`LooseEnds`).

### Ipam

A deployment or playbook job goes through sweep, INSERT and note for each address,
then builds, records what it built and settles its rows; a destroy releases them. `alloc`
maps an address to its row: the table is UNIQUE on pool and address and there is one
pool. A VM stands for its resource name and its `(node, vmid)`. `live` are the VMs that
exist, `hidden` those a refresh does not see, `state` those in the tofu state, `tracked`
the recorded resources, `seen` what a refresh in progress saw before it writes.

Passing of time is the action `Expire`: the half hour of a reservation is over. Unless
`"slow"` is among the faults it passes only when the deployment has ended. Which failures
happen is the constant `Faults`, which unusual administration happens `Uses`; the same
two constants exist in `StackDeploy`. `Unused` restricts what an admin releases by hand
unless `"blind"` is among the uses: releasing an address in use is a decision, not a bug.

### StackEdits, VersionedText

One stack id with its row, its history and the requests between two of their
transactions: an edit reads the row and compares the etag (`checked`), reads the
highest version number (`numbered`), writes row and history in one transaction
(`prune`) and cuts the history in a third. A text stands for its etag. Restores and
approved edits take the same path. `VersionedText` is the promise: texts are replaced
one at a time, each goes into the history under the next number, only the oldest
entries go. `HistoryComplete` is the refinement, with the row's text and the rows of
`stack_versions` as the mapping.

### StackNetworks

One installation with networks and guests, each with its owner (a stack or `Foreign`);
`plan[s]` is a plan that passed all checks, with what it announced; its run is one
step, because locks, tokens and jobs are `StackDeploy`'s. What tofu makes of a
definition (`MadeNets`, `MadeGuests`, `Collides`) is external; an apply that fails has changed
some guests and disks and not others (`PartlyMade`), and a destroy that fails has left some. A
guest has the name of its resource and a disk at each interface, and lost disks are told by these
two, as the code does. Names are taken to be distinct in a definition, after the expansion of
`count` too: validation compares them before it, and `transpile.py:461` relies on the rest.

### StackFirewall

One action per call of `apply_firewall` and `destroy_stack_security_groups`, in the order
of the code: groups with their rules, then for each guest the deletion of the old rules from
the last position down and the creation of the new ones. `commit[s]` is where the run is,
what it still has to do and the specification it loaded after the apply. Creating a rule
puts it at the position the code expects; that Proxmox does so is assumed as the code does.
The schema also takes rules of type `group` in a group's own rules; they are collected like those of
guests (`GroupRefs`), but Proxmox has no nested groups, so such a commit ends `partial` (`Nests`).

### ScheduledJobs

The rows, requests with several transactions (`edit`), dispatchers between look and queue
(`dispatch`), runs (`run`) and histories. A deployment has either the portal's own loop
or Celery, whose dispatchers may overlap; `manual` says whether anybody uses `run_now`.
Cron expressions are told by whether their time has come. `lost` is history: jobs a restart
or the broker lost a run of.

### GitSync

One repository type. A task goes through lock, log, configuration, fetch, items and
commit, with an action for every `await` between two effects; `queued` is the flag of the
process, and a Celery worker is a process of its own with its own lock. Commits are
numbers; `target[i]` is what is in place of an item, and `copied[i]` history, the newest commit whose
files were ever put there. A copy removes the old tree first, so one that fails leaves nothing
(`CopyFails`), in a sync as in a resolution.

### Pools

Pools, members and grants as rows, `cluster` and `cache` as sets of VMs, deployments
between quota check and hook, a pool's change between its two transactions, and
`sync_orphan_members` between look and delete. One unit of a resource per VM stands for
cores, memory and disk, which the code treats alike; the number of VMs is kept apart,
because templates and VMs missing from the cache count differently. Where requests of managers
race (`races`), a pool may be deleted while a change of it is between look and write.

### Snapshots, ConfigSnapshots

A run of a job is a record that goes from the list in Proxmox over creation, tiers and
insert to the rotation, where the deletion of each snapshot is a step that Proxmox may
refuse; what Proxmox accepted may still fail. An accepted deletion is a task (`deletions`) that
the run does not wait for: the row is marked rotated although the snapshot is still there, and stays
so when the task fails (`deleteFails`). A snapshot's number is its place in time; weeks
and months stand for all tiers, which have the same code. In `ConfigSnapshots` a restore is
diffed, asked again, locked, preceded by a copy, written and released, while jobs copy
and rotate and others change, delete or replace the VM. A full restore may store what it saw
first, one of chosen keys does not; both send every chosen key. A job may skip what has not changed, or copy it
all the same. The parser of uploaded files is an
operator (`Parsed`): identity keys, unsafe values, snapshot sections.

### Replication

VMs of the cluster by VMID with the template they copy, where they are and which run made
them (`by`, history). A run takes one operation after the other from its plan: VMID, clone,
migration, conversion, or clearing up; each call and each task may fail.

### PlaybookPermissions

Each SELECT of a resolver is a step: groups, entries of the user and of the groups, any
entries, mode. No snapshot ties them together. `add_permission` looks at playbook and subject and then
inserts (`adds`); a clean-up hook runs in a transaction of its own after the deletion (`cleanups`).
`asks[a].seen` is history, the answers that were right at some moment since the question. `calm` says
that since the groups were read nobody changed them or the mode, or added an entry that lets the user in.

### Composition

`MCAutomation`, `MCCluster` and `MCRecords` instantiate several of these modules in one
run. The parts share no table, lock or file (what a component needs of another is
a nondeterministic step in its own module, e.g. the outcome of tofu in `StackFirewall`,
and where two do share rows the module has both sides, as `Ipam` has the runner's steps).
A joint run would therefore only multiply their states; the run is the disjoint sum:
`part` is chosen at the start and the others keep an initial state. Deployments
(`edDeployment`, `sjDeployment`, ...) are chosen at the start as well: the database, a Celery
worker, whether requests overlap, what others do. A property that needs one of these names
it in its premise.

## 3. Plan

Done: the modules of section 2. Open, in this order:

1. A stack deployment joined with its reservations and its firewall, so that the IPAM's
   `apply` and `confirm` and the commit are the runner's steps.
2. The file edits of the Ansible editor (etag of a file, history on disk).

## 4. Runs

`CHECK_DEADLOCK FALSE` is set throughout: request ids, deployment ids, tokens and rows
are used up, and a portal in which nobody does anything is not an error. Symmetry permutes
processes, deployments or stacks, which no definition orders, and only in runs without
liveness.

| Run | Instance | Properties | What it shows |
|---|---|---|---|
| `approvals_rules` | 1 request, 1 call, 2 users, 1 group, 1 scheduled job, all rule operations, restarts | `TypeOK`, `FourEyes`, `RunsOnce` | Four eyes survives every change of rule, toggle and group; without overlap the action runs once |
| `approvals_resubmit` | 2 requests, 1 call, fair, no restart | `SecretsErased`, `ApprovedSecretsGo` | Secrets travel to the new request and do not stay in the closed one; those of an approved request go when its handler has ended |
| `approvals_twice` | 1 request, 2 calls | `RunsOnce` violated | Two overlapping approve calls run the handler twice |
| `deploy_sdn` | 2 stacks with a VNet, 2 processes, 2 jobs of which at most one destroys, a destroy planned only of a deployed stack, at most one dead runner at a time (`FewRuns`), faults `runner`, `crash` | `SdnSerial`, `RowsAgree` | No run stages SDN objects while another stages or commits them, even if runners die holding the locks or the portal restarts; whatever they leave, a finished job has a finished deployment of the same outcome |
| `deploy_swap` | 1 stack, 2 processes, 2 tokens | `RunsReviewedPlan` violated | A later plan call replaces the reviewed plan |
| `ipam_faults` | 3 VMs on 2 addresses, 2 deployments, all faults, a manual entry for one address (`OneForeign`), one VM may drop out of the cluster view (`OneHidden`) | `KeptWhileLive` | Only a deletion or an admin removes the row of an existing VM |
| `ipam_redeploy` | the same, no fault | `RedeployAllowed` violated | A second deployment of an unchanged stack is refused |
| `deploy_live` | 1 stack, 2 processes, drift checks, approvals, edits, deletions, faults `rows`, `ipam`, `try`, `loose`, `pull`, fair | `TypeOK`, `LocksLive`, `OneTofu`, `RowsAgree`, `JobsEnd`, `WaitersServed` | The hand-over of locks never loses one and never lets two tofus into one directory; between their separate writes, and if one of these fails, job and deployment row contradict each other no further than the order of the writes explains; jobs end, whoever queues for a stack gets it |
| `automation` | 1 item, 2 commits, 2 syncs, copies that fail, a restart, a Celery worker, fair / 2 jobs, 2 runs, 2 dispatchers, edits, a restart | `SyncSound`, `LocalKept`, `LogsClose` / `JobsSound`, `LoopNeverOverlaps`, `NewestKept` | A sync never overwrites uploaded files, never opens a second conflict, never claims a version it did not copy, and closes its log / a mark `running` has a run behind it, the loop never overlaps, the newest run stays in the history |
| `cluster` | 3 VMs on 2 addresses, 3 deployments, no fault / 2 stacks, 2 VMIDs, a bridge, a VNet, 2 resource names, 2 disk interfaces, foreign guests, applies and destroys that fail halfway | `TypeOK`, `NoDoubleUse`, `NoStrays` / `SuggestionsWork`, `LossesForeseen` | No address is given out twice and no reservation is left over / accepted plans collide with nothing, suggestions work, lost disks and networks were announced |
| `cluster_edits` | the networks of `cluster`, no foreigner in between | `NetworksKept` violated | An apply after an edit destroys a network the definition no longer names under foreign guests |
| `records` | approvals: 1 request, 2 calls, restarts / definitions: 2 texts, 2 writers, cap 1 / 1 pool with 2 VMs or, with managers, 2 pools with 1, or 1 pool whose changes race, 1 deployment / 1 VM, 2 snapshot runs, 3 snapshots, 2 weeks, deletions that fail / 2 keys, 2 restorers or 1 and a job, 2 copies / 1 user, 1 group, 1 question, 3 changes / 2 firewall stacks, 3 groups, one specification that nests them / 2 templates, 3 nodes, 5 VMIDs | `UndecidedNeverRan`, `SecretsErased`, `ExecutedRan`, `ClosedIsFinal` / `HistoryComplete`, `EditsSound` / `PoolsSound` / `RotationSound` / `RestoresSound`, `NewestIsSeen` / `AnswersSound` / `CommitsSound`, `DestroyRemovesGroups` / `CopiesSound`, `CleansOnlyOwn` | A pending request was never carried out, secrets go, a closed request reopens only by way of a handler that already runs / the history is complete, and nothing is replaced unseen / quotas and owners hold / neither too much is rotated away nor anything forgotten / a restore does what was shown, the newest copy is what the job saw / answers were right at some moment / a successful commit is exact, a destroy leaves no group / templates are copied once and never lost, only one's own VM is cleared away |

`...Sound` and `LossesForeseen` are conjunctions of named properties of a module, which
its comments explain one by one.

Why the bounds suffice: the hazards are encounters of two calls over one row, one
directory, one address or one lock; two processes give every such encounter, and a third
deployment, run, snapshot or edit lets a later operation meet what the two left behind.
One stack with two VMs, one of whose addresses a playbook also wants, gives the partial
reservation and its rollback. Two stacks are needed for the SDN lock, for VMIDs and networks
and for two groups of one name; two templates and five VMIDs for runs that are
given the same number. A version cap of 1 is the smallest at which an entry is
dropped; `KeepLast = 1` with two weekly tiers the smallest at which floor and tiers disagree.
The composites keep their instances small because section 6 proves their safety properties for
all of them. Every bound is a constant; `MaxJobs` and `Room` limit the job rows of `StackDeploy` without
blocking a process that already holds a lock.

**Fairness.** `Approvals`: a task whose await is done is resumed by the event loop. Nothing is
assumed of the expiry sweep: `approvals_plus.py:170` calls `register_approval_celery_tasks`, while
`approvals/tasks.py:18` defines `register_tasks`, so the sweep is never registered and an overdue
request expires only when somebody opens it (`router.py:196`). That an execute handler returns at
all is assumed, `handlers.py` sets no limit on it. The fair run has no restart: after one, an
approved request with its secrets stays as it is, which `SecretsErased` says by its `~Crashes`.
`StackDeploy`: the event loop resumes each task, and tofu terminates. The code puts no limit on tofu
(`engine.py:242`), so this is an assumption about OpenTofu; without it a stack stays busy.
`GitSync`: the event loop resumes each task, git ends (`runner.py` gives it a timeout) and the
statements of the sync do not fail. Nothing is assumed of users: no plan, deploy, drift call or
trigger has to come. The other modules state no liveness.

**What the violation runs mean.**

* `approvals_twice`: the UPDATE of `approve_approval` is conditional, but its row count
  is not looked at and the handler is started anyway. The same window lets an approve call
  that overlaps a rejection carry out the rejected action and mark it executed
  (`ClosedIsFinal` allows exactly this and nothing else).
* `deploy_swap`: `consume_plan_token` compares stack, operation and etag, and the runner
  applies `plan.tfplan`, whichever plan that is by now; even a destroy plan under an
  apply token.
* `ipam_redeploy`: `reserve_stack_ips` inserts addresses that the stack's own VMs hold.
* `cluster_edits`: `_networks_being_destroyed` filters the networks of the current
  definition, so one that an edit took out is not among them when tofu destroys it.

## 5. Stated, and not kept by the code

These are definitions of the modules, each with the sentence of the code or its
comments it restates. No run lists them: each fails, under the circumstances named here.

| Property | What breaks it |
|---|---|
| `StackDeploy!DeployedIsCurrent` | `derive_deployment_state` compares `updated_at` with `finished_at`: an edit committed while an apply runs shows as deployed |
| `StackDeploy!TofuFollowed` | An exception in following tofu's output (`engine.py:300`) ends the job and frees the stack's lock while the process is alive |
| `StackEdits!NoLostEdit` with `overlap` | Two edits compare the etag with the same row; the second replaces the first unseen, and both history entries may get one number |
| `StackEdits!DeleteAsRequested` | A purge cancels no approvals; with SQLite the id, and with it the request, passes to the next stack |
| `ScheduledJobs!NoOverlap` | `run_now` looks for a running job and queues another; a second call, or the loop, comes in between |
| `ScheduledJobs!ChildrenHaveParents` | The parent of a time window is deleted before its stop job is inserted |
| `GitSync!QueuedServed` | One flag stands for the queue: a trigger that sets it during the second sync, or before a first sync that raises, is not worked off |
| `Pools!OverlapHeld` | The lock is held for the check only; two deployments pass before either adds its members |
| `Pools!GoneHoldNothing` | The clean-up before a deletion only mentions the grants in the audit log; with SQLite ids a new user may get the id they name |
| `Pools!OnlyGoneRemoved` | Members are matched by the name of the portal's node: VMs on other nodes of the cluster look gone |
| `Snapshots!FloorIsReal` | A snapshot Proxmox accepted and then failed counts for the floor until the next list |
| `Snapshots!RotatedIsGone`; `NothingLeaks` with `deleteFails` | A row is marked rotated when Proxmox accepts the deletion (`handlers.py:705`); if the task then fails, say because the VM is locked by the snapshot just started, the portal has forgotten a snapshot that exists |
| `ConfigSnapshots!RestoreAsShownLate` | The configuration is read before the lock is taken; another restore ends in between |
| `StackNetworks!OwnNetworksAccepted` | Bridges are compared with every interface of the node, the stack's own included |
| `StackFirewall!LeftoversSurface` | A definition without a firewall block destroys its stack without looking for groups |
| `StackFirewall!RedeployIdempotent` | Proxmox refuses to delete a group that rules of the first deployment still name. A group that names a group is allowed for: its commit never succeeds |
| `Replication!OneRunPerTemplate` | Look and INSERT are two transactions |
| `Replication!NoIntermediateLeft` | An exception, unlike a failed task, clears nothing away |
| `Replication!TemplateKept` with overlapping requests and two templates | A run that finishes while another run of its template goes on removes the source; that number is given to the shared copy of the other template, and the second run, ending, removes "the source" once more |
| `Replication!CleansOnlyOwn`, `TemplateKept` with `vanish` and two templates, overlapping requests or others who make VMs | Proxmox removes the failed clone itself, somebody else takes its VMID, and the first run clears that away |
| `PlaybookPermissions!AnswersWereAlwaysRight` | Groups, entries and mode are read one after the other: one of them changes, or an entry for the user is inserted between the SELECT for the user's entries and the one for any entry, which gives a refusal that was right at no moment |
| `PlaybookPermissions!EntriesOfSomebody` | `add_permission` looks at the subject and inserts in two statements, and the hook runs after the deletion: an entry inserted behind the hook stays |
| `PlaybookPermissions!ProfileHonest` | In open mode the profile lists every playbook, those too whose whitelist names others |
| `PlaybookPermissions!RescanTakesStale` | A playbook uploaded after the volume was listed loses its entries |

Further observations:

* `RunnerDies` in `StackDeploy`: `run_stack_job` awaits before its `try`; an exception
  there, or in the finally block ahead of the releases, loses both locks until a restart.
  With `"runner"` among the faults `LocksLive` fails; `LocksLiveSafe` proves that this is
  the only way.
* Whether a run takes the SDN lock is decided from the definition in the row. A run that
  removes the last VNet stages SDN deletions without it: with edits `SdnSerial` fails.
* `main.tf.json` is written before the lock is taken (`deploy_service.py:859`), so a plan
  may be of a definition other than the one its token's etag names.
* Each of the five faults of `Ipam` breaks `NoDoubleUse`: `slow` (the half hour is over
  before tofu is), `pull` (an unreadable state counts as empty and the reservations of
  existing VMs are deleted), `halfway` (a failed playbook gives back the address of the VM
  it made), `db` (a reservation that failed is skipped), `crash` (the pending rows expire).
* A submission that passed the check before the workflow is switched off is inserted
  after it, and stays open.
* The quota of a pool that is changed while deployments go on may end up below what they have
  added by then: `update_pool` does not look at the members. This is why `VmQuotaHeld` excludes
  races and changes of pools that have members.
* No overdue request expires by itself: the sweep is never registered (see Fairness in section 4).
* After a restart a job marked `running` stays so, and neither the loop nor `run_now`
  starts it again (`JobsSound` excepts the jobs in `lost`).

## 6. Proofs

TLAPS proves the following for every value of the constants that satisfies the named
assumptions of the modules. `ConstantsAssumption`, `DeployAssumption`, `IpamAssumption`,
`StackEditsAssumption`, `GitAssumption`, `JobsAssumption`, `PlaybookPermissionsAssumption`,
`PoolsAssumption`, `StackNetworksAssumption`, `StackFirewallAssumption`, `SnapshotsAssumption`,
`ConfigSnapshotsAssumption` and `ReplicationAssumption` give the types of the constants, and
say that two stacks manage no guest in common and that two templates have two VMIDs;
`NoneAssumption`, `NoRowAssumption`, `NoStackAssumption`, `ResolvingAssumption`,
`RowAssumption`, `PoolRowAssumption`, `VmAssumption` and `ConfigAssumption` say that the empty
value `None` is none of the rows and records it is compared with. TLC evaluates each of
them in the runs of their modules. Sets of processes, rows and items may have any size; only
the VMs of `Pools` and, in `RunsBounded`, the processes have to be finitely many, because they
are counted.

**ApprovalsProofs.** `Typing`, `UndecidedSafe`, `SecretsSafe`, `FourEyesSafe`,
`ExecutedSafe` and `Finality`. The properties are not inductive by themselves. `IInv` adds
what a call between two transactions knows: that the request of a call past its check has
left `absent`, that its decider was allowed, that whoever is past the UPDATE acts on a
request that is no longer open. `StepType` and `StepRest` show that each action preserves it.

How often a handler runs is `RunsBounded`: at most once for each approve call that can be in
flight at a time. Neither the number of runs nor that of waiting calls is bounded by itself;
their sum is. `RunsCounted` says that the starts of the handler and the calls that have passed
the check and not started it (`Bidding`) together never exceed the processes. `StepBids`: a
start takes the call that makes it out of the second summand, and nobody joins after the first
start, because a call begins to bid only for an open request and those never ran.
`RunsOnceSafe` is the case of one process. With two it is
false, as `approvals_twice` shows, and the bound is then what holds.

**StackDeployProofs.** `Typing`, `OneTofuSafe`, `LocksLiveSafe`. `OneTofu` needs the owner of the
lock, which `asyncio.Lock` does not have: `Owned` says that whoever is at a point between acquire
and release is the registered holder. That a job row is not inserted twice and tofu never started
without a planfile needs `CallsFilled` (what a call holds at each point), `TokensBacked` (a token
promises a planfile) and `LooseBacked` (so does a tofu nobody follows); they rest on `Persist`: rows
and planfiles never disappear. `LocksLiveSafe` adds `Held`, the converse of `Owned`, and has the
hypothesis `"runner" \notin Faults`.

`RowsAgreeSafe` relates the two rows of a job, which four transactions write. It has no
hypothesis; the part about running jobs carries its premise, no dying runner and no restart, itself.
`JobsHeld` says that a job row belongs to one call, of its stack, and is pending until its runner
starts; `RowsPaired` which values the deployment row may have beside each status of the job, the
moments between two writes and those at which the second one failed included; `RunnersLive` that every
running job has a runner that has not made its last write. `StepSteady` is for the steps that write
neither row, and each of the four writes has a lemma.

`SdnSerialSafe` has the hypothesis that no edit changes whether a stack contains a VNet
(none edits, or all definitions or none have one): section 5 says what an edit does otherwise. Whether a
run takes the SDN lock is read from the definition in the row, what it stages from a plan made
earlier; `Versions(s)` collects every definition that a stack's row, its files, the cluster or a
call still has, and `OneKind` says that they agree on having a VNet. `MoveVersions`: no step but an
edit brings in a definition from elsewhere. Then `SdnHeld`, whoever is past the decision with a
VNet has the lock, is inductive; runners that die with the lock and restarts are included.

**IpamProofs.** `Typing`, `KeptSafe`, `NoStraysSafe`, `NoDoubleUseSafe`. Two invariants are
needed.

`IInv` holds whatever fails. `OneRun` (a stack has one run) and `DepsShaped` (what the record
of a deployment says at each point) give `GoneBeforeRelease`: while a destroy releases
addresses nothing of its stack exists, because no other run can build it and no other stack
has its VMs. With `RowsFit` (a row names a VM that has this address) `KeptSafe` follows: the
row of an existing VM is freed only by an admin who releases addresses in use, which is its
hypothesis `"blind" \notin Uses`. `StepDep` and `StepRows` say once what a step may do to a
deployment and to a row; the rest of the argument splits on these, not on the actions.

`Quiet` holds while nothing fails, the IPAM is switched on first and nobody releases
addresses in use (`Undisturbed`, the hypothesis of `NoDoubleUseSafe`; the list at the end of
section 5 says what each of the failures does). Its core is `LiveProtected`, every existing VM
has a row that was reserved for it, and that row is confirmed or about to be. To keep this
when VMs are built, `ReservedSoFar` says that a deployment that starts to build has reserved
every address; when rows are confirmed, `StateComplete` says that the tofu state and
the recorded resources have every VM, so that none of their reservations is deleted;
when rows are released, `RowsTrue` says that a row names no VM but its own. `PendingInRun` needs only
that hooks and server do not fail (`HooksWork`) and gives `NoStraysSafe`, which therefore has
no hypothesis beyond the one in `NoStrays` itself.

**StackProofs, definitions.** `HistorySafe`: `EdSpec` implements `VersionedText`; `EditsSafe`: an
edit replaces the text its author saw. Both have the hypothesis `OneAtATime`, that edits do not
overlap and ids are not reused; section 5 says what happens otherwise. `IInv` says what
survives between the transactions of an edit: it is the only one (`SoleEditor`), the text and the
highest number it read are still the stack's (`ReadsHold`), although deletions, purges,
reassignments and user deletions go on meanwhile. A purge is why `StackFirst` is needed: no
new stack can be made under an edit of the old one. The numbers leave none out
(`Consecutive`), so that the entries `_apply_fifo_cap` keeps, those with the highest
numbers, are the last ones: `HighestIsLast`, `KeptIsSuffix` and `CutIsSuffix` prove that the
two computations over the history are those of the promise. `StepKinds` divides the
steps into those of an edit, those that make or remove a stack, and the rest, which change
neither text nor history.

**GitSyncProofs.** `SyncSoundSafe`, `LocalKeptSafe`. That `git_sync_sources` never claims a
version newer than what was copied needs an order of all commits the portal remembers
(`Ordered`: what a sync found, what conflict rows and their resolution name, what was ever
copied is no newer than the clone, and that no newer than the repository), because a resolution
may be under way while a newer sync passes it; and `Backed`: what waits to be committed
was copied. `Excluded` has the lock, and that without a Celery worker the conflicts a sync is
about to insert have no open row; with a worker, whose lock is another, that part of
`OneOpenConflict` is not claimed.

**ScheduledJobsProofs.** `JobsSoundSafe`, `LoopNeverOverlapsSafe`, `NewestKeptSafe`. `Named`: what
dispatchers and runs name was inserted, and a deleted row never comes back. `Guarded` is why the
loop does not overlap though its list of due jobs is old by the time it is worked off: a job
on the list or just taken from it has no run at work, and whoever has one is marked
`running`, across edits, deletions and restarts. `Recorded`: a history ends with the newest
run, and says ended exactly of those that have; the limit removes from the front and is at
least one.

**AccessProofs, pools.** `PoolsSoundSafe`. The quota is checked when a deployment is let in and used when
its member joins, two transactions later, and meanwhile members leave, pools are deleted, made
again and changed. `RoomKept` says that a deployment under way still has its room; this needs
`SoleDeploy` (it is the only one), `Parents` (a pool that is not there has no members) and
`EditsEmpty` (a change that is being written was begun, and is still, of an empty pool). For the
owners, `OwnersHere` has also the one about to be written. The hypotheses are premises of the
properties themselves; looking for the invariant showed that `VmQuotaHeld` needs
"no races" as well, which the instance had but the property did not say.

**AccessProofs, playbooks.** `AnswersSoundSafe`. `Fresh` says what a question under way knows after each
SELECT: the decision right now is among those noted; an undisturbed one has groups and mode as they
still are; as long as it has found no entry for the user there is none, and if it has found one, the
decision was "allow" at some moment. `Grounded` is the part about the moment of the find. `Resolved` shows that
the checks in the order of the code, on one state, give what the whitelist means. Entries that are added
for others, removed, cleaned up or rescanned between the SELECTs disturb nothing of this; `LetIn` is
the one kind of insertion that does, and such a question is not `calm`.

**StackProofs, networks.** `LossesForeseenSafe`, by `NwInvariance`. An accepted plan waits,
and the run looks at nothing again. `StillFree` and `NobodysNets` say that what was checked is still so
when it runs; they need `OnePlan` and that no foreigner comes in between, which is the premise of
those two parts of the property. `LossesKnown` needs neither: what a stack has changes only with
its own run, so a disk that is shrunk was announced whatever others do. `RunReach` says what a run may
have left, whole or halfway: each guest of the stack is as it was, as the definition has it, or gone;
losses are therefore compared by name and interface.

**StackProofs, firewall.** `CommitsSoundSafe`, `DestroyRemovesGroupsSafe`, by `FwInvariance`. A commit
is a loop over groups inside which rules are created one by one, then over guests, whose old rules are
deleted from the last position and new ones created. `GroupsSoFar` and `GuestsSoFar` are the
loop invariants: the groups before the one at hand are as declared, the rules that are in the one at hand
followed by those still to come are its declaration, and the guests that are done have their
rules. Strangers touch neither groups with a stack's prefix nor guests of stacks, and two
stacks have none of them in common, hence `LocalNow` survives everything another run does
(`LocalFrame`). `CalmNow` is the part that says that no call is refused: with no
fault, no stranger, no refusal of Proxmox and no edit, the groups the rules name were there
at the plan and are made before any rule that names them. It claims this of specifications that do not nest
groups; of those that do, Proxmox refuses the rule.

**CopiesProofs, replication.** `CopiesSoundSafe`, `CleansOnlyOwnSafe`, by `RepInvariance`. `Owned`
is the heart: at each point between clone and end the VM under a run's number is the one it made, where
it put it, not a template yet. From this a conversion converts and a clean-up removes that VM
only. `SourceSafe` keeps the source through the run, `CopyThere` and `CopiesByRuns` say that the shared
copy on account of which the source may be removed exists and is finished, and
`FreshCopies` that a node for which a copy is under way has none. Looking for the invariant
showed that `TemplateKept` and `CleansOnlyOwn` need more than the runs had told: `NumbersKept`, that
a number stays with its run. Section 5 has the two ways in which the code lets it go.

**CopiesProofs, configurations.** `RestoresSoundSafe`, `NewestIsSeenSafe`, by `CfgInvariance`.
`Shown`: from the answer of Proxmox until it is put, what a restore has seen is what the VM has.
Answers that are not late are worked on before the next change, and then the lock keeps other
restores out (section 5 has the case of late answers). `Seen`: while a job rotates, a copy no other
of its copies is newer than is what the run saw, whether it inserted it or skipped an unchanged one;
the rotation keeps at least one, and keeps the newest (`CfgKeepLast` is positive). The copy a full
restore stores first changes neither: it is not the VM, and not the job's.

**CopiesProofs, snapshots.** `RotationSoundSafe`, by `SnInvariance`. Four arguments in one
invariant. `Named`: snapshots and rows have each their own name, in the order they were made.
`Sparing`: what a run still means to delete, and what Proxmox is deleting, is not of the floor; it
was computed from the rows at one moment and the rows grow, and `FloorShrinks` and `NewestOfFewer`
show that a row never comes back among the newest `KeepLast`. `OneByOne` and `Known`: as long as
runs do not overlap and no accepted deletion fails, the list a resync works with is not stale, and
whatever snapshot exists is in an active row, in the hand of a run or being deleted. `WeekByWeek`,
for the weekly tier: a snapshot gets the tier exactly if its week has none yet (`TiersComputed`), so
every week of a row has one with the tier, and such a snapshot is gone, or about to go, only if it
is `Superseded`, that is, if there are as many newer weeks as the tier keeps; `SupersededStays`: it
remains so. `WeeksKept` is the contraposition. What the monthly tier keeps has the same code and is
not stated. The counting uses the theorems about finite sets only.

Only model-checked: liveness and fairness (`ApprovedSecretsGo`, `JobsEnd`,
`WaitersServed`, `LogsClose`), which the provers do not do, and `SuggestionsWork`, whose suggestions
are computed by recursion over a sequence, which would need induction over data. Every other
property of a passing run is a theorem above. The properties of the runs that expect a violation, and
those of section 5, are false and have none. No module has RECURSIVE operators.

## 7. Left out

Formatting, audit log, notifications, permission checks of the routers (except the approver
check), encryption, the content of YAML, OpenTofu and Ansible files, Proxmox calls other
than their success or failure, and the components marked "not modelled" in section 1:
they translate or display, or write one row in one statement.

Inside the modelled components:

* failing database statements, except where a module says so; `LogsClose` assumes none;
* `git rev-parse` in a clone that was just fetched is taken to succeed;
* that Proxmox refuses a clone to a VMID that is taken already when the call is made, not
  only when its task runs;
* the ids of stack jobs' VMs in pools: only the deployments of the core join a pool, as
  in the code;
* changes a user of the portal makes to the firewall rules of a guest a stack manages
  (`stacks/deployments.py:338`); the next commit replaces them;
* an update of a scheduled job that meets a change of its approval row in the middle: the
  rows of approvals change in one step here, and `Approvals` has the other side.
