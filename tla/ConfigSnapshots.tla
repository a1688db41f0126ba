--------------------------- MODULE ConfigSnapshots ---------------------------
(***************************************************************************)
(* Copies of a VM's configuration (backend/plus/config_snapshots, and the  *)
(* auto_config_snapshot action of backend/plus/auto_snapshots): they are   *)
(* taken by hand, from an uploaded file, before a restore or by a          *)
(* scheduled job, compared with what the VM has now, and put back.         *)
(*                                                                         *)
(* One VM stands for all: nothing is shared between two.  The description  *)
(* and the digest, which every function takes out of a configuration       *)
(* first, are left out of it here.                                         *)
(***************************************************************************)
EXTENDS Portal

CONSTANTS
  CfgKeys, CfgValues,   \* what a configuration is made of
  Identity,             \* the keys of CfgKeys an upload must not set
  Restorers, CfgJobs,
  CfgKeepLast,          \* keep_last of a job
  MaxLines,             \* bound: lines of an uploaded file
  CfgDeployments        \* see `cfgDeployment'

ASSUME ConfigSnapshotsAssumption ==
  /\ CfgKeys # {} /\ CfgValues # {} /\ Identity \subseteq CfgKeys
  /\ None \notin CfgValues \cup Restorers \cup CfgJobs
  /\ CfgKeepLast \in Nat \ {0} /\ MaxLines \in Nat
  /\ CfgDeployments \subseteq
       [users : SUBSET Restorers, jobs : SUBSET CfgJobs, outsiders : BOOLEAN,
        delayed : BOOLEAN, deletes : BOOLEAN, named : BOOLEAN, most : Nat]

VARIABLES
  cfgDeployment, \* chosen at the start: who restores, which jobs are active, whether
                 \* others change or delete the VM, whether an answer of Proxmox may
                 \* arrive late, whether users delete copies,
                 \* whether the database lets a row of fetchall() be read by column name;
                 \* and the bound: how many copies are ever taken
  live,          \* the configuration in Proxmox; None when there is no such VM
  copies,        \* vm_config_snapshots; those of source auto have a job
  taken,         \* how many copies were ever taken, their creation time
  restore,       \* requests of users
  restoreLock,   \* _RESTORE_LOCKS of the VM: who holds it
  cfgRun,        \* runs of the jobs
  refresh        \* a refresh of the cluster: whether it saw the VM

cfgVars == <<cfgDeployment, live, copies, taken, restore, restoreLock, cfgRun, refresh>>
-----------------------------------------------------------------------------
Config == [CfgKeys -> CfgValues \cup {None}]

ASSUME ConfigAssumption == None \notin Config

Copy == [id : Nat, payload : Config, job : CfgJobs \cup {None}, orphan : BOOLEAN]

NoRestore ==
  [pc |-> "idle", full |-> FALSE, payload |-> None, keys |-> {}, shown |-> None, seen |-> None]
NoCfgRun == [pc |-> "idle", seen |-> None]

CfgInit ==
  /\ cfgDeployment \in CfgDeployments
  /\ live \in Config
  /\ copies = {} /\ taken = 0
  /\ restore = [r \in Restorers |-> NoRestore] /\ restoreLock = None
  /\ cfgRun = [j \in CfgJobs |-> NoCfgRun]
  /\ refresh = None

\* _create_snapshot_impl, its INSERT.
InsertConfig(payload, job) ==
  /\ taken < cfgDeployment.most
  /\ taken' = taken + 1
  /\ copies' = copies \cup
       {[id |-> taken + 1, payload |-> payload, job |-> job, orphan |-> FALSE]}

\* Where answers are not late, what was asked is worked on before anything else
\* changes the VM.
NothingUnderWay == cfgDeployment.delayed \/ \A r \in Restorers : restore[r].pc # "asked"

Step(r, s) == restore' = [restore EXCEPT ![r] = s]
-----------------------------------------------------------------------------
(***************************************************************************)
(* Copies by hand and from a file.                                         *)
(***************************************************************************)
\* _create_snapshot_impl gets the configuration and stores it, one step here: what comes
\* in between leaves nothing that could not come after it.
CreateCopy ==
  /\ live # None
  /\ InsertConfig(live, None)
  /\ UNCHANGED <<cfgDeployment, live, restore, restoreLock, cfgRun, refresh>>

\* A line of a .conf file: a setting, maybe with a control character in its value, or
\* one of a key nobody knows; the head of a section; or what is no setting at all (a
\* comment, a blank, a line without a colon).
Line == [is : {"setting"}, key : CfgKeys, value : CfgValues] \cup
        [is : {"unknown", "unsafe", "section", "other"}]

Files == UNION {[1..n -> Line] : n \in 0..MaxLines}

\* parse_conf_text reads up to the first section, whichever it is.
Read(f) == {i \in DOMAIN f : \A h \in 1..i : f[h].is # "section"}

Unsafe(f) == \E i \in Read(f) : f[i].is = "unsafe"

\* The last line of a key counts; vmid and parent are dropped.
CfgSettings(f, k) == {i \in Read(f) : f[i].is = "setting" /\ f[i].key = k}

Parsed(f) ==
  [k \in CfgKeys |->
     IF k \in Identity \/ CfgSettings(f, k) = {} THEN None
     ELSE f[CHOOSE i \in CfgSettings(f, k) : \A h \in CfgSettings(f, k) : h <= i].value]

\* A file too long, not in UTF-8 or with an unsafe value is refused.
UploadConfig ==
  /\ \E f \in Files : ~Unsafe(f) /\ InsertConfig(Parsed(f), None)
  /\ UNCHANGED <<cfgDeployment, live, restore, restoreLock, cfgRun, refresh>>

\* delete_snapshot, bulk_delete_snapshots.
DeleteCopies ==
  /\ cfgDeployment.deletes
  /\ \E D \in SUBSET copies : D # {} /\ copies' = copies \ D
  /\ UNCHANGED <<cfgDeployment, live, taken, restore, restoreLock, cfgRun, refresh>>

DeleteOrphan ==
  /\ \E c \in copies : c.orphan /\ copies' = copies \ {c}
  /\ UNCHANGED <<cfgDeployment, live, taken, restore, restoreLock, cfgRun, refresh>>
-----------------------------------------------------------------------------
(***************************************************************************)
(* Restoring.                                                              *)
(***************************************************************************)

\* diff_snapshot_vs_live: the user looks at the difference, key by key, and gets the
\* etag of what the VM has.
DiffLive(r) ==
  /\ r \in cfgDeployment.users /\ restore[r] = NoRestore
  /\ live # None
  /\ \E c \in copies :
       Step(r, [NoRestore EXCEPT !.pc = "diffed", !.payload = c.payload, !.shown = live])
  /\ UNCHANGED <<cfgDeployment, live, copies, taken, restoreLock, cfgRun, refresh>>

\* restore_snapshot, in full, or restore_selected_keys: the copy is loaded - it must still
\* be there, and no orphan - and Proxmox answers with the configuration.
AskLive(r) ==
  /\ restore[r].pc = "diffed"
  /\ live # None
  /\ \E c \in copies : c.payload = restore[r].payload /\ ~c.orphan
  /\ \E full \in BOOLEAN, K \in SUBSET CfgKeys \ {{}} :
       /\ full => K = CfgKeys
       /\ Step(r, [restore[r] EXCEPT !.pc = "asked", !.full = full, !.keys = K, !.seen = live])
  /\ UNCHANGED <<cfgDeployment, live, copies, taken, restoreLock, cfgRun, refresh>>

\* live_etag != etag
Fresh(r) == restore[r].seen = restore[r].shown

LockFree == restoreLock = None

\* Nothing is awaited from the answer to the lock.
TakeRestoreLock(r) ==
  /\ restore[r].pc = "asked"
  /\ Fresh(r) /\ LockFree
  /\ restoreLock' = r
  /\ Step(r, [restore[r] EXCEPT !.pc = "locked"])
  /\ UNCHANGED <<cfgDeployment, live, copies, taken, cfgRun, refresh>>

\* 409 live_config_changed or restore_in_progress; or the name typed is not the VM's.
RefuseRestore(r) ==
  /\ restore[r].pc \in {"diffed", "asked"}
  /\ Step(r, NoRestore)
  /\ UNCHANGED <<cfgDeployment, live, copies, taken, restoreLock, cfgRun, refresh>>

\* A full restore may store what it saw; that this fails does not stop it.
PreRestore(r) ==
  /\ restore[r].pc = "locked"
  /\ restore[r].full
  /\ InsertConfig(restore[r].seen, None)
  /\ Step(r, [restore[r] EXCEPT !.pc = "put"])
  /\ UNCHANGED <<cfgDeployment, live, restoreLock, cfgRun, refresh>>

NoPreRestore(r) ==
  /\ restore[r].pc = "locked"
  /\ Step(r, [restore[r] EXCEPT !.pc = "put"])
  /\ UNCHANGED <<cfgDeployment, live, copies, taken, restoreLock, cfgRun, refresh>>

\* Mutant of Written: what the copy does not have is left on the VM.
WrittenOnly(r) ==
  {k \in restore[r].keys : restore[r].payload[k] \notin {restore[r].seen[k], None}}

\* The keys the PUT sets or deletes, from the configuration seen: a full restore sends
\* what differs, the other one every selected key that the copy or the VM has.
Written(r) ==
  {k \in restore[r].keys : IF restore[r].full
                           THEN restore[r].payload[k] # restore[r].seen[k]
                           ELSE restore[r].payload[k] # None \/ restore[r].seen[k] # None}

PutConfig(r) ==
  /\ restore[r].pc = "put"
  /\ live # None /\ NothingUnderWay
  /\ live' = [k \in CfgKeys |-> IF k \in Written(r) THEN restore[r].payload[k] ELSE live[k]]
  /\ Step(r, [restore[r] EXCEPT !.pc = "release"])
  /\ UNCHANGED <<cfgDeployment, copies, taken, restoreLock, cfgRun, refresh>>

\* 502 proxmox_restore_failed
PutFails(r) ==
  /\ restore[r].pc = "put"
  /\ Step(r, [restore[r] EXCEPT !.pc = "release"])
  /\ UNCHANGED <<cfgDeployment, live, copies, taken, restoreLock, cfgRun, refresh>>

\* After the answer, and the reboot that may be asked for.
ReleaseRestoreLock(r) ==
  /\ restore[r].pc = "release"
  /\ restoreLock' = None
  /\ Step(r, NoRestore)
  /\ UNCHANGED <<cfgDeployment, live, copies, taken, cfgRun, refresh>>
-----------------------------------------------------------------------------
(***************************************************************************)
(* A run of an auto_config_snapshot job.                                   *)
(***************************************************************************)
RunTo(j, pc, seen) == cfgRun' = [cfgRun EXCEPT ![j] = [pc |-> pc, seen |-> seen]]

\* The copies of a job that count, and the n newest of them.
JobCopies(j) == {c \in copies : c.job = j /\ ~c.orphan}

NewestCopies(C, n) == {c \in C : Cardinality({d \in C : d.id > c.id}) < n}

\* Mutant of LastCopy: the copies of users and other jobs count too.
LastCopyOfAny(j) == NewestCopies({c \in copies : ~c.orphan}, 1)

\* _get_last_auto_config_hash
LastCopy(j) == NewestCopies(JobCopies(j), 1)

\* _process_config_target: Proxmox answers ...
CfgRunReads(j) ==
  /\ j \in cfgDeployment.jobs /\ cfgRun[j] = NoCfgRun
  /\ live # None
  /\ RunTo(j, "compare", live)
  /\ UNCHANGED <<cfgDeployment, live, copies, taken, restore, restoreLock, refresh>>

\* ... what the last copy has is skipped, if the job says skip_if_no_changes ...
CfgRunCompares(j) ==
  /\ cfgRun[j].pc = "compare"
  /\ \E skip \in BOOLEAN :
       RunTo(j, IF skip /\ \E c \in LastCopy(j) : c.payload = cfgRun[j].seen
                THEN "rotate" ELSE "insert", cfgRun[j].seen)
  /\ UNCHANGED <<cfgDeployment, live, copies, taken, restore, restoreLock, refresh>>

\* ... and a copy is stored.
CfgRunInserts(j) ==
  /\ cfgRun[j].pc = "insert"
  /\ InsertConfig(cfgRun[j].seen, j)
  /\ RunTo(j, "rotate", cfgRun[j].seen)
  /\ UNCHANGED <<cfgDeployment, live, restore, restoreLock, refresh>>

\* The node cannot be reached, or the row not be written: the run goes on.
CfgRunFails(j) ==
  /\ j \in cfgDeployment.jobs /\ cfgRun[j].pc \in {"idle", "insert"}
  /\ RunTo(j, "rotate", None)
  /\ UNCHANGED <<cfgDeployment, live, copies, taken, restore, restoreLock, refresh>>

\* _rotate_config_for_target: all but the newest copies of the job are deleted.
CfgRunRotates(j) ==
  /\ cfgRun[j].pc = "rotate"
  /\ copies' = copies \ (JobCopies(j) \ NewestCopies(JobCopies(j), CfgKeepLast))
  /\ RunTo(j, "idle", None)
  /\ UNCHANGED <<cfgDeployment, live, taken, restore, restoreLock, refresh>>
-----------------------------------------------------------------------------
(***************************************************************************)
(* The VM.                                                                 *)
(***************************************************************************)
OutsiderEdits ==
  /\ cfgDeployment.outsiders /\ live # None /\ NothingUnderWay
  /\ \E k \in CfgKeys, v \in CfgValues \cup {None} : live' = [live EXCEPT ![k] = v]
  /\ UNCHANGED <<cfgDeployment, copies, taken, restore, restoreLock, cfgRun, refresh>>

Orphaned(C) == (copies \ C) \cup {[c EXCEPT !.orphan = TRUE] : c \in C}

\* The portal deletes it, on_vm_lxc_deleted; or it is deleted without the portal.
DeleteVm ==
  /\ cfgDeployment.outsiders /\ live # None /\ NothingUnderWay
  /\ live' = None
  /\ copies' = Orphaned(copies) \/ copies' = copies
  /\ UNCHANGED <<cfgDeployment, taken, restore, restoreLock, cfgRun, refresh>>

\* Its number is given to another one.
CreateVm ==
  /\ live = None
  /\ live' \in Config
  /\ UNCHANGED <<cfgDeployment, copies, taken, restore, restoreLock, cfgRun, refresh>>

\* The core lists the VMs of all nodes ...
ListVms ==
  /\ cfgDeployment.outsiders /\ refresh = None
  /\ refresh' = [sawVm |-> live # None]
  /\ UNCHANGED <<cfgDeployment, live, copies, taken, restore, restoreLock, cfgRun>>

\* ... and on_cluster_refresh_vanished_resources_config_snapshots is told what it saw.
\* It reads r["vmid"] of rows that fetchall() gave it: where a row can be read by
\* position only, that raises, and nothing is done.
RefreshDone ==
  /\ refresh # None
  /\ refresh' = None
  /\ IF cfgDeployment.named /\ ~refresh.sawVm
     THEN copies' = Orphaned({c \in copies : ~c.orphan})
     ELSE copies' = copies
  /\ UNCHANGED <<cfgDeployment, live, taken, restore, restoreLock, cfgRun>>

\* The portal starts again: requests, runs and locks are gone.
CfgRestart ==
  /\ cfgDeployment.outsiders
  /\ restore' = [r \in Restorers |-> NoRestore] /\ restoreLock' = None
  /\ refresh' = None
  /\ cfgRun' = [j \in CfgJobs |-> NoCfgRun]
  /\ UNCHANGED <<cfgDeployment, live, copies, taken>>
-----------------------------------------------------------------------------
RestoreStep(r) ==
  \/ DiffLive(r) \/ AskLive(r) \/ TakeRestoreLock(r) \/ RefuseRestore(r)
  \/ PreRestore(r) \/ NoPreRestore(r) \/ PutConfig(r) \/ PutFails(r) \/ ReleaseRestoreLock(r)

CfgNext ==
  \/ CreateCopy \/ UploadConfig \/ DeleteCopies \/ DeleteOrphan
  \/ \E r \in Restorers : RestoreStep(r)
  \/ \E j \in CfgJobs :
       CfgRunReads(j) \/ CfgRunCompares(j) \/ CfgRunInserts(j) \/ CfgRunFails(j) \/ CfgRunRotates(j)
  \/ OutsiderEdits \/ DeleteVm \/ CreateVm \/ ListVms \/ RefreshDone \/ CfgRestart

CfgSpec == CfgInit /\ [][CfgNext]_cfgVars
-----------------------------------------------------------------------------
CfgTypeOK ==
  /\ cfgDeployment \in CfgDeployments
  /\ live \in Config \cup {None}
  /\ copies \subseteq Copy /\ taken \in 0..cfgDeployment.most
  /\ restoreLock \in Restorers \cup {None}
  /\ \A r \in Restorers :
       /\ restore[r].pc \in {"idle", "diffed", "asked", "locked", "put", "release"}
       /\ restore[r].pc \in {"locked", "put", "release"} => restoreLock = r
  /\ \A j \in CfgJobs : cfgRun[j].pc \in {"idle", "compare", "insert", "rotate"}

\* A restore does what the user was shown ("ETag re-check (EC-14): reject if live
\* config changed since diff was computed"): the configuration it changes is the one the
\* copy was compared with, and the chosen keys are then the copy's.
DoesAsShown(r) ==
  PutConfig(r) => /\ live = restore[r].shown
                  /\ \A k \in CfgKeys :
                       live'[k] = IF k \in restore[r].keys THEN restore[r].payload[k] ELSE live[k]

\* ... whatever restores run at once, as long as nobody else changes the VM and answers
\* of Proxmox are not late.
RestoreAsShown ==
  [][~cfgDeployment.outsiders /\ ~cfgDeployment.delayed
       => \A r \in Restorers : DoesAsShown(r)]_cfgVars

\* The same over copies, restores and runs of their types.
RestoresSound == []CfgTypeOK /\ RestoreAsShown

\* ... and with late answers: the lock is asked for only after the configuration was read.
RestoreAsShownLate == [][\A r \in Restorers : DoesAsShown(r)]_cfgVars

\* As long as nobody deletes copies or the VM, the newest copy of a job is, when a run
\* of it ends, what the run saw, whether unchanged configurations are skipped or not, and
\* although all but the newest copies are deleted.
NewestIsSeen ==
  [][\A j \in CfgJobs :
       /\ ~cfgDeployment.deletes /\ ~cfgDeployment.outsiders
       /\ cfgRun[j].pc = "rotate" /\ cfgRun'[j].pc = "idle" /\ cfgRun[j].seen # None
       => \E c \in JobCopies(j)' :
            /\ c.payload = cfgRun[j].seen
            /\ \A d \in JobCopies(j)' : d.id <= c.id]_cfgVars
=============================================================================
