------------------------------ MODULE Snapshots ------------------------------
(***************************************************************************)
(* Automatic VM snapshots (backend/plus/auto_snapshots): a run of a        *)
(* scheduled job looks at what snapshots its VM has, makes one in Proxmox, *)
(* writes the row that says so, and rotates the job's older ones by floor  *)
(* and grandfather-father-son tiers.                                       *)
(*                                                                         *)
(* One VM stands for all targets: they share nothing but the run.  The     *)
(* name of a snapshot is its number: its time stamp, with the seconds      *)
(* where the minute is taken.  What SQL does in one statement, and what is *)
(* between an external call and the next one, is one step.                 *)
(***************************************************************************)
EXTENDS Portal, SequencesExt

CONSTANTS
  SnapJobs, SnapRuns,
  KeepLast, KeepDaily, KeepTier,  \* KeepTier["weekly"], KeepTier["monthly"]
  MaxSnaps, MaxWeek,              \* bounds: snapshots made, weeks passed
  SnapDeployments                 \* see `snDeployment'

Tiers == {"weekly", "monthly"}

ASSUME SnapshotsAssumption ==
  /\ KeepLast \in Nat /\ KeepDaily \in Nat /\ KeepTier \in [Tiers -> Nat]
  /\ MaxSnaps \in Nat /\ MaxWeek \in Nat \ {0}
  /\ SnapDeployments \subseteq
       [overlap : BOOLEAN, taskFails : BOOLEAN, deleteFails : BOOLEAN, outsiders : BOOLEAN,
        restarts : BOOLEAN]

VARIABLES
  snDeployment, \* chosen at the start: whether runs overlap, whether Proxmox fails a
                \* snapshot or a deletion it has accepted, whether others delete snapshots, the VM,
                \* the jobs' creator or the node, whether the portal restarts
  snaps,        \* names of the snapshots Proxmox has of the VM
  tasks,        \* those whose task has not ended
  deletions,    \* names whose deletion was accepted and has not ended
  snapRows,     \* vm_native_snapshots, in the order they were written
  snapRun,      \* runs in flight
  snapJob,      \* snapJob[j]: status and whether it is active
  made,         \* how many snapshots were made
  week,         \* the calendar
  creator       \* whether the user who made the jobs is there, locked or gone

snVars == <<snDeployment, snaps, tasks, deletions, snapRows, snapRun, snapJob, made, week, creator>>
-----------------------------------------------------------------------------
Row == [job : SnapJobs, name : 1..MaxSnaps, tiers : SUBSET Tiers, week : 1..MaxWeek,
        status : {"active", "rotated", "deleted_externally", "vm_deleted"}]

NoRun == [pc |-> "idle", job |-> None, list |-> {}, name |-> 0, tiers |-> {},
          todo |-> {}, gone |-> {}]

SnInit ==
  /\ snDeployment \in SnapDeployments
  /\ snaps = {} /\ tasks = {} /\ deletions = {} /\ snapRows = <<>>
  /\ snapRun = [r \in SnapRuns |-> NoRun]
  /\ snapJob = [j \in SnapJobs |-> [active |-> TRUE, status |-> None]]
  /\ made = 0 /\ week = 1
  /\ creator = "here"

\* strftime("%G-W%V") and strftime("%Y-%m"): two weeks make a month.
Bucket(t, w) == IF t = "weekly" THEN w ELSE (w + 1) \div 2

At(r, pc) == snapRun[r].pc = pc
Become(r, s) == snapRun' = [snapRun EXCEPT ![r] = s]
Goto(r, pc) == Become(r, [snapRun[r] EXCEPT !.pc = pc])

\* The rows of a job that are active, as positions in snapRows.
Active(j) == {i \in DOMAIN snapRows : snapRows[i].job = j /\ snapRows[i].status = "active"}

SetStatus(I, s) ==
  snapRows' = [i \in DOMAIN snapRows |->
                 IF i \in I THEN [snapRows[i] EXCEPT !.status = s] ELSE snapRows[i]]
-----------------------------------------------------------------------------
(***************************************************************************)
(* A run.                                                                  *)
(***************************************************************************)

\* handle_auto_vm_snapshot: its creator may be gone or locked ...
RunOwnerless(r, j) ==
  /\ snapRun[r] = NoRun
  /\ snapJob[j].active
  /\ creator # "here"
  /\ snapJob' = [snapJob EXCEPT ![j] = [active |-> FALSE, status |-> "paused_ownerless"]]
  /\ Become(r, [NoRun EXCEPT !.pc = "paused", !.job = j])
  /\ UNCHANGED <<snDeployment, snaps, tasks, deletions, snapRows, made, week, creator>>

\* ... and the runner writes the outcome over that ...
FinishOwnerless(r) ==
  /\ At(r, "paused")
  /\ snapJob' = [snapJob EXCEPT ![snapRun[r].job].status = "failed"]
  /\ Become(r, NoRun)
  /\ UNCHANGED <<snDeployment, snaps, tasks, deletions, snapRows, made, week, creator>>

\* ... or resolve_targets finds none, or none the creator owns ...
SkipSnapRun(j) ==
  /\ snapJob[j].active /\ creator = "here"
  /\ snapJob' = [snapJob EXCEPT ![j].status = "success"]
  /\ UNCHANGED <<snDeployment, snaps, tasks, deletions, snapRows, snapRun, made, week, creator>>

\* ... else they are worked off.
StartSnapRun(r, j) ==
  /\ snapRun[r] = NoRun
  /\ snapJob[j].active /\ creator = "here"
  /\ snDeployment.overlap \/ \A q \in SnapRuns : snapRun[q] = NoRun
  /\ made < MaxSnaps
  /\ Become(r, [NoRun EXCEPT !.pc = "list", !.job = j])
  /\ UNCHANGED <<snDeployment, snaps, tasks, deletions, snapRows, snapJob, made, week, creator>>

\* _resync_external_state_for_targets: Proxmox lists the snapshots, or the node is
\* out of reach ...
ListSnapshots(r) ==
  /\ At(r, "list")
  /\ \/ Become(r, [snapRun[r] EXCEPT !.pc = "resync", !.list = snaps])
     \/ Goto(r, "create")
  /\ UNCHANGED <<snDeployment, snaps, tasks, deletions, snapRows, snapJob, made, week, creator>>

\* ... sync_external_state: rows of any job whose snapshot is not in the list.
SyncExternalState(r) ==
  /\ At(r, "resync")
  /\ SetStatus({i \in DOMAIN snapRows : snapRows[i].status = "active"
                                         /\ snapRows[i].name \notin snapRun[r].list},
               "deleted_externally")
  /\ Become(r, [snapRun[r] EXCEPT !.pc = "create", !.list = {}])
  /\ UNCHANGED <<snDeployment, snaps, tasks, deletions, snapJob, made, week, creator>>

\* _process_vm_target: Proxmox accepts the snapshot ...
CreateAccepted(r) ==
  /\ At(r, "create")
  /\ made < MaxSnaps
  /\ made' = made + 1
  /\ snaps' = snaps \cup {made + 1}
  /\ tasks' = tasks \cup {made + 1}
  /\ Become(r, [snapRun[r] EXCEPT !.pc = "tiers", !.name = made + 1])
  /\ UNCHANGED <<snDeployment, deletions, snapRows, snapJob, week, creator>>

\* ... or refuses it: the VM is locked, the name taken twice, the node offline.
CreateRefused(r) ==
  /\ At(r, "create")
  /\ Goto(r, "rotate")
  /\ UNCHANGED <<snDeployment, snaps, tasks, deletions, snapRows, snapJob, made, week, creator>>

\* compute_gfs_tiers: the tiers whose bucket has no active snapshot of the job yet.
NewTiers(j) ==
  {t \in Tiers : \A i \in Active(j) : t \in snapRows[i].tiers
                                        => Bucket(t, snapRows[i].week) # Bucket(t, week)}

ComputeGfsTiers(r) ==
  /\ At(r, "tiers")
  /\ Become(r, [snapRun[r] EXCEPT !.pc = "insert", !.tiers = NewTiers(snapRun[r].job)])
  /\ UNCHANGED <<snDeployment, snaps, tasks, deletions, snapRows, snapJob, made, week, creator>>

InsertNativeSnapshot(r) ==
  /\ At(r, "insert")
  /\ snapRows' = Append(snapRows,
       [job |-> snapRun[r].job, name |-> snapRun[r].name, tiers |-> snapRun[r].tiers,
        week |-> week, status |-> "active"])
  /\ Become(r, [snapRun[r] EXCEPT !.pc = "rotate", !.name = 0, !.tiers = {}])
  /\ UNCHANGED <<snDeployment, snaps, tasks, deletions, snapJob, made, week, creator>>
-----------------------------------------------------------------------------
(***************************************************************************)
(* Rotation, after the snapshots of all targets are made.                  *)
(***************************************************************************)

\* The n newest of a set of rows.
Newest(I, n) == {i \in I : Cardinality({k \in I : k > i}) < n}

OfTier(I, t) == {i \in I : t \in snapRows[i].tiers}

\* Mutant of KeepSet: the tiers replace the floor.
KeepSetTiers(I) == UNION {Newest(OfTier(I, t), KeepTier[t]) : t \in Tiers}

\* determine_keep_set: every snapshot is a daily one.
KeepSet(I) ==
  Newest(I, KeepLast) \cup Newest(I, KeepDaily)
    \cup UNION {Newest(OfTier(I, t), KeepTier[t]) : t \in Tiers}

\* _rotate_native_for_target: list_active_snapshots ...
ChooseRotated(r) ==
  /\ At(r, "rotate")
  /\ LET I == Active(snapRun[r].job)
     IN  Become(r, [snapRun[r] EXCEPT !.pc = "delete", !.todo = I \ KeepSet(I)])
  /\ UNCHANGED <<snDeployment, snaps, tasks, deletions, snapRows, snapJob, made, week, creator>>

\* ... delete_snapshot one after the other, oldest last.  Proxmox refuses, or accepts and
\* starts a task; nobody waits for it to end.
DeleteSnapshot(r) ==
  /\ At(r, "delete")
  /\ \E i \in Newest(snapRun[r].todo, 1) :
       \/ /\ deletions' = deletions \cup {snapRows[i].name}
          /\ Become(r, [snapRun[r] EXCEPT !.todo = @ \ {i}, !.gone = @ \cup {i}])
       \/ /\ Become(r, [snapRun[r] EXCEPT !.todo = @ \ {i}])
          /\ UNCHANGED deletions
  /\ UNCHANGED <<snDeployment, snaps, tasks, snapRows, snapJob, made, week, creator>>

\* What mark_snapshots_rotated is given, as far as it is still active.
Rotated(r) == {i \in snapRun[r].gone : snapRows[i].status = "active"}

\* ... mark_snapshots_rotated, and the runner writes the outcome into the job.
FinishSnapRun(r) ==
  /\ At(r, "delete") /\ snapRun[r].todo = {}
  /\ SetStatus(Rotated(r), "rotated")
  /\ \E s \in {"success", "failed"} : snapJob' = [snapJob EXCEPT ![snapRun[r].job].status = s]
  /\ Become(r, NoRun)
  /\ UNCHANGED <<snDeployment, snaps, tasks, deletions, made, week, creator>>
-----------------------------------------------------------------------------
(***************************************************************************)
(* Proxmox, the calendar, and what is deleted.                             *)
(***************************************************************************)
TaskEnds(n) ==
  /\ n \in tasks
  /\ tasks' = tasks \ {n}
  /\ \/ UNCHANGED snaps
     \/ snDeployment.taskFails /\ snaps' = snaps \ {n}
  /\ UNCHANGED <<snDeployment, deletions, snapRows, snapRun, snapJob, made, week, creator>>

\* A deletion fails when there is nothing to delete, and may fail when the VM is locked,
\* for one by the snapshot the same run has started.
DeletionEnds(n) ==
  /\ n \in deletions
  /\ deletions' = deletions \ {n}
  /\ \/ n \notin tasks /\ snaps' = snaps \ {n}
     \/ snDeployment.deleteFails /\ UNCHANGED snaps
  /\ UNCHANGED <<snDeployment, tasks, snapRows, snapRun, snapJob, made, week, creator>>

OutsiderDeletes(n) ==
  /\ snDeployment.outsiders
  /\ n \in snaps \ tasks
  /\ snaps' = snaps \ {n}
  /\ UNCHANGED <<snDeployment, tasks, deletions, snapRows, snapRun, snapJob, made, week, creator>>

\* The VM is deleted, its id given to another; on_vm_lxc_deleted.
VmDeleted ==
  /\ snDeployment.outsiders
  /\ tasks = {} /\ deletions = {} /\ \A r \in SnapRuns : snapRun[r] = NoRun
  /\ snaps' = {}
  /\ SetStatus({i \in DOMAIN snapRows : snapRows[i].status = "active"}, "vm_deleted")
  /\ UNCHANGED <<snDeployment, tasks, deletions, snapRun, snapJob, made, week, creator>>

\* Midnight; where runs do not overlap, never between the tiers and the row.
NextWeek ==
  /\ week < MaxWeek
  /\ snDeployment.overlap \/ \A r \in SnapRuns : ~At(r, "insert")
  /\ week' = week + 1
  /\ UNCHANGED <<snDeployment, snaps, tasks, deletions, snapRows, snapRun, snapJob, made, creator>>

SnapRestart ==
  /\ snDeployment.restarts
  /\ snapRun' = [r \in SnapRuns |-> NoRun]
  /\ UNCHANGED <<snDeployment, snaps, tasks, deletions, snapRows, snapJob, made, week, creator>>

\* on_user_deleted; or a user is locked, which nobody is told.
CreatorDeleted ==
  /\ snDeployment.outsiders
  /\ creator = "here"
  /\ creator' = "gone"
  /\ snapJob' = [j \in SnapJobs |-> [active |-> FALSE, status |-> "paused_ownerless"]]
  /\ UNCHANGED <<snDeployment, snaps, tasks, deletions, snapRows, snapRun, made, week>>

CreatorLocked ==
  /\ snDeployment.outsiders
  /\ creator = "here"
  /\ creator' = "locked"
  /\ UNCHANGED <<snDeployment, snaps, tasks, deletions, snapRows, snapRun, snapJob, made, week>>

\* on_node_deleted: the jobs that name the node.
SnapNodeDeleted ==
  /\ snDeployment.outsiders
  /\ \E j \in SnapJobs : snapJob[j].active
  /\ snapJob' = [j \in SnapJobs |-> [snapJob[j] EXCEPT !.active = FALSE]]
  /\ UNCHANGED <<snDeployment, snaps, tasks, deletions, snapRows, snapRun, made, week, creator>>
-----------------------------------------------------------------------------
RunStep(r) ==
  \/ \E j \in SnapJobs : StartSnapRun(r, j) \/ RunOwnerless(r, j)
  \/ FinishOwnerless(r)
  \/ ListSnapshots(r) \/ SyncExternalState(r)
  \/ CreateAccepted(r) \/ CreateRefused(r) \/ ComputeGfsTiers(r) \/ InsertNativeSnapshot(r)
  \/ ChooseRotated(r) \/ DeleteSnapshot(r) \/ FinishSnapRun(r)

SnNext ==
  \/ \E r \in SnapRuns : RunStep(r)
  \/ \E j \in SnapJobs : SkipSnapRun(j)
  \/ \E n \in 1..MaxSnaps : TaskEnds(n) \/ DeletionEnds(n) \/ OutsiderDeletes(n)
  \/ VmDeleted \/ NextWeek \/ SnapRestart
  \/ CreatorDeleted \/ CreatorLocked \/ SnapNodeDeleted

SnSpec == SnInit /\ [][SnNext]_snVars
-----------------------------------------------------------------------------
SnTypeOK ==
  /\ snDeployment \in SnapDeployments
  /\ snaps \subseteq 1..MaxSnaps /\ tasks \subseteq snaps /\ deletions \subseteq 1..MaxSnaps
  /\ snapRows \in Seq(Row)
  /\ \A r \in SnapRuns :
       /\ snapRun[r].pc \in {"idle", "list", "resync", "create", "tiers", "insert", "rotate",
                             "delete", "paused"}
       /\ snapRun[r].job \in SnapJobs \cup {None}
       /\ snapRun[r].todo \cup snapRun[r].gone \subseteq DOMAIN snapRows
  /\ made \in 0..MaxSnaps /\ week \in 1..MaxWeek
  /\ creator \in {"here", "locked", "gone"}

\* As long as runs do not overlap and none is cut off, and a deletion that Proxmox has
\* accepted does not fail later, every snapshot the portal made has an active row, so that
\* some later rotation can still delete it, or is being deleted: neither a refused
\* deletion nor a list from Proxmox makes the portal forget one.
NothingLeaks ==
  ~snDeployment.overlap /\ ~snDeployment.restarts /\ ~snDeployment.deleteFails =>
    \A n \in snaps : \/ n \in deletions
                     \/ \E i \in DOMAIN snapRows :
                          snapRows[i].name = n /\ snapRows[i].status = "active"
                     \/ \E r \in SnapRuns : snapRun[r].name = n

\* "keep_last: Floor - always at least the newest N" (rotation.py): as long as nobody
\* else deletes and Proxmox does what it accepted, the newest KeepLast snapshots of a
\* job exist, whatever runs overlap and wherever the portal restarts.
FloorKept ==
  ~snDeployment.taskFails /\ ~snDeployment.outsiders =>
    \A j \in SnapJobs :
      LET I == {i \in DOMAIN snapRows : snapRows[i].job = j}
      IN  \A i \in Newest(I, KeepLast) : snapRows[i].name \in snaps

\* The newest KeepTier["weekly"] weeks in which a job made a snapshot still have one,
\* as long as its runs do not overlap.
WeeksKept ==
  ~snDeployment.taskFails /\ ~snDeployment.outsiders /\ ~snDeployment.overlap =>
    \A j \in SnapJobs :
      LET I == {i \in DOMAIN snapRows : snapRows[i].job = j}
          W == {snapRows[i].week : i \in I}
      IN  \A w \in W : Cardinality({v \in W : v > w}) < KeepTier["weekly"]
            => \E i \in I : snapRows[i].week = w /\ snapRows[i].name \in snaps

\* Together, over rows and runs of their types: neither too much is deleted nor
\* anything forgotten.
RotationSound == SnTypeOK /\ NothingLeaks /\ FloorKept /\ WeeksKept

\* What the status "rotated" says: the snapshot was deleted, or is being deleted.
RotatedIsGone ==
  \A i \in DOMAIN snapRows :
    snapRows[i].status = "rotated" /\ snapRows[i].name \in snaps
      => snapRows[i].name \in deletions

\* The floor, counted in snapshots that exist: what Proxmox accepted and then failed
\* still has a row when the older ones are rotated.
FloorIsReal ==
  ~snDeployment.outsiders => \A j \in SnapJobs :
    LET I == {i \in DOMAIN snapRows : snapRows[i].job = j}
        real == {i \in I : snapRows[i].name \in snaps}
    IN  (\E i \in I : snapRows[i].status = "rotated") => Cardinality(real) >= KeepLast
=============================================================================
