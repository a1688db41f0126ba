------------------------------ MODULE GitSync ------------------------------
(***************************************************************************)
(* Git synchronisation (backend/plus/git_sync) of one repo_type; the two   *)
(* repo types share neither rows, locks, flags nor directories.            *)
(*                                                                         *)
(* A trigger starts an asyncio task or, when the lock of the process is    *)
(* taken, only sets the process's queued flag.  A task holds the lock      *)
(* through one sync and, if the flag is set when it lets go, through one   *)
(* more.  Every await between two effects of the sync is a boundary        *)
(* between two actions; what the sync wrote but has not committed sits in  *)
(* the task.                                                               *)
(*                                                                         *)
(* Two deployments: the portal alone (its runner loop starts scheduled     *)
(* syncs), or with a Celery worker, where a scheduled sync is a task in an *)
(* event loop that ends with the scheduled job.                            *)
(*                                                                         *)
(* Commits are numbers, the history is linear: a later commit is larger.   *)
(***************************************************************************)
EXTENDS Portal

CONSTANTS
  MaxTasks,      \* bound: tasks trigger_sync creates
  RepoItems,     \* item directories (playbooks or templates)
  Uploaded,      \* the content of an item that came by ZIP upload
  MaxCommit,     \* bound: commits pushed to the repository
  Deployments    \* see `deployment'

ASSUME GitAssumption ==
  /\ MaxCommit \in Nat \ {0}
  /\ MaxTasks \in Nat
  /\ Deployments \subseteq [celery : BOOLEAN, subdir : BOOLEAN,
                             restarts : Nat, moves : Nat]
  /\ None \notin Int \cup {Uploaded}
  /\ Uploaded \notin Int

VARIABLES
  deployment, \* chosen at the start: whether scheduled jobs run in a Celery
              \* worker, whether the items lie in a configured subdirectory,
              \* and two bounds: on the restarts of the portal, and on the
              \* operations of admins and users on configuration and items
  remote,     \* the repository: its newest commit and the items in it
  clone,      \* the clone directory, or None
  target,     \* target[i]: the item in the ansible or packer directory
  sources,    \* sources[i]: git_sync_sources.git_hash, or None
  conflicts,  \* conflicts[i]: the rows of git_sync_conflicts about i
  config,     \* the git_sync_configs row: absent, disabled, enabled, or enabled
              \* and about to be deleted
  task,       \* the asyncio tasks
  syncLock,   \* syncLock[h]: the task that holds process h's lock, or None
  queued,     \* queued[h]: process h's flag
  syncLog,    \* syncLog[t]: status of the newest git_sync_logs row of task t
  resolving,  \* resolve_conflict between the copy and its commit
  restarts,
  moves,      \* how many of those operations there were
  copied      \* history: copied[i] is the newest commit ever copied to i

gitVars == <<deployment, remote, clone, target, sources, conflicts, config,
             task, syncLock, queued, syncLog, resolving, restarts, moves, copied>>
-----------------------------------------------------------------------------
GitCommits == 1..MaxCommit
SyncTasks == 1..MaxTasks
Hosts == {"portal", "worker"}

SyncWaiting == {"lock"}
Syncing == {"config", "git", "collect", "items", "finish"}
Live == SyncWaiting \cup Syncing

NoTask == [pc |-> "unused", pass |-> 1, host |-> "portal", hash |-> None, todo |-> {},
           new |-> {}, clash |-> {}]

GitInit ==
  /\ deployment \in Deployments
  /\ remote \in [head : {1}, items : {RepoItems}]
  /\ clone = None
  /\ target = [i \in RepoItems |-> None]
  /\ sources = [i \in RepoItems |-> None]
  /\ conflicts = [i \in RepoItems |-> [open |-> 0, hash |-> None, past |-> {}]]
  /\ config \in {"absent", "enabled"}
  /\ task = [t \in SyncTasks |-> NoTask]
  /\ syncLock = [h \in Hosts |-> None]
  /\ queued = [h \in Hosts |-> FALSE]
  /\ syncLog = [t \in SyncTasks |-> "none"]
  /\ resolving = None
  /\ restarts = 0
  /\ moves = 0
  /\ copied = [i \in RepoItems |-> 0]

\* Groups of variables an action leaves alone.
dirs == <<clone, target, copied>>
gitRows == <<sources, conflicts>>
tasks == <<task, syncLock, queued, syncLog>>
world == <<deployment, remote, restarts>>
outside == <<world, moves>>

Move == moves < deployment.moves /\ moves' = moves + 1

Advance(t, fields) == task' = [task EXCEPT ![t] = fields]

\* create_sync_log and finish_sync_log.
OpenLog(t) == syncLog' = [syncLog EXCEPT ![t] = "running"]
CloseLog(t) == syncLog' = [syncLog EXCEPT ![t] = "closed"]
-----------------------------------------------------------------------------
(***************************************************************************)
(* Triggers.  Router and webhook run in the portal, a scheduled job, on    *)
(* its schedule or by run_now, in the worker when there is one.            *)
(***************************************************************************)
TriggerHosts ==
  IF deployment.celery THEN {"portal", "worker"} ELSE {"portal"}

\* trigger_sync while the lock is taken: answered "queued".
TriggerQueued(h) ==
  /\ h \in TriggerHosts
  /\ syncLock[h] # None
  /\ queued' = [queued EXCEPT ![h] = TRUE]
  /\ UNCHANGED <<task, syncLock, syncLog, dirs, gitRows, config, resolving, outside>>

\* trigger_sync while the lock is free: answered "started".  The task has not
\* taken the lock yet, so a second trigger may start a second task.
TriggerStarted(h, t) ==
  /\ h \in TriggerHosts
  /\ syncLock[h] = None
  /\ task[t].pc = "unused" /\ (t > 1 => task[t - 1].pc # "unused")
  /\ Advance(t, [NoTask EXCEPT !.pc = "lock", !.host = h])
  /\ UNCHANGED <<syncLock, queued, syncLog, dirs, gitRows, config, resolving, outside>>
-----------------------------------------------------------------------------
(***************************************************************************)
(* _run_sync_with_queue and _do_sync.                                      *)
(***************************************************************************)

\* Mutant of TakeLock: the lock does not exclude.
TakeLockAnyway(t) ==
  /\ task[t].pc = "lock"
  /\ syncLock' = [syncLock EXCEPT ![task[t].host] = t]
  /\ OpenLog(t)
  /\ Advance(t, [task[t] EXCEPT !.pc = "config"])
  /\ UNCHANGED <<queued, dirs, gitRows, config, resolving, outside>>

\* The lock is taken and _do_sync begins with create_sync_log.
TakeLock(t) ==
  /\ task[t].pc = "lock"
  /\ syncLock[task[t].host] = None
  /\ syncLock' = [syncLock EXCEPT ![task[t].host] = t]
  /\ OpenLog(t)
  /\ Advance(t, [task[t] EXCEPT !.pc = "config"])
  /\ UNCHANGED <<queued, dirs, gitRows, config, resolving, outside>>

\* get_config: a missing or disabled configuration fails the sync.
ReadConfig(t) ==
  /\ task[t].pc = "config"
  /\ IF config \in {"enabled", "deleting"}
     THEN Advance(t, [task[t] EXCEPT !.pc = "git"])
     ELSE Advance(t, [task[t] EXCEPT !.pc = "finish"])
  /\ UNCHANGED <<syncLock, queued, syncLog, dirs, gitRows, config, resolving, outside>>

\* clone_repo or fetch_and_reset: each git command is killed after 60 seconds,
\* so the step ends; a failed one leaves the clone as it was.
FetchRepo(t) ==
  /\ task[t].pc = "git"
  /\ clone' = [at |-> remote.head, items |-> remote.items]
  /\ Advance(t, [task[t] EXCEPT !.pc = "collect"])
  /\ UNCHANGED <<target, copied, syncLock, queued, syncLog, gitRows, config, resolving, outside>>

\* Mutant of FetchFails: the early return forgets finish_sync_log.
FetchFailsSilently(t) ==
  /\ task[t].pc = "git"
  /\ Advance(t, [task[t] EXCEPT !.pc = "done"])
  /\ syncLock' = [syncLock EXCEPT ![task[t].host] = None]
  /\ UNCHANGED <<queued, syncLog, dirs, gitRows, config, resolving, outside>>

FetchFails(t) ==
  /\ task[t].pc = "git"
  /\ Advance(t, [task[t] EXCEPT !.pc = "finish"])
  /\ UNCHANGED <<syncLock, queued, syncLog, dirs, gitRows, config, resolving, outside>>

\* get_current_hash and collect_items, on whatever is in the directory by then;
\* rev-parse in a clone that was just fetched is taken to succeed.
Collect(t) ==
  /\ task[t].pc = "collect"
  /\ Advance(t, [task[t] EXCEPT !.pc = "items",
                   !.hash = IF clone = None THEN None ELSE clone.at,
                   !.todo = IF clone = None THEN {} ELSE clone.items])
  /\ UNCHANGED <<syncLock, queued, syncLog, dirs, gitRows, config, resolving, outside>>

\* The item is there, but no row says it came from git: _register_conflict
\* looks for an open row first.
ItemClashes(t, i) ==
  /\ task[t].pc = "items"
  /\ i \in task[t].todo
  /\ sources[i] = None /\ target[i] # None
  /\ Advance(t, [task[t] EXCEPT !.todo = @ \ {i},
                   !.clash = IF conflicts[i].open = 0 THEN @ \cup {i} ELSE @])
  /\ UNCHANGED <<syncLock, queued, syncLog, dirs, gitRows, config, resolving, outside>>

ItemUpToDate(t, i) ==
  /\ task[t].pc = "items"
  /\ i \in task[t].todo
  /\ sources[i] # None /\ sources[i] = task[t].hash
  /\ Advance(t, [task[t] EXCEPT !.todo = @ \ {i}])
  /\ UNCHANGED <<syncLock, queued, syncLog, dirs, gitRows, config, resolving, outside>>

\* Mutant of ItemCopied: a local item without a sources row is replaced too.
ItemCopiedOver(t, i) ==
  /\ task[t].pc = "items"
  /\ i \in task[t].todo
  /\ sources[i] # task[t].hash
  /\ clone # None /\ i \in clone.items
  /\ target' = [target EXCEPT ![i] = clone.at]
  /\ copied' = [copied EXCEPT ![i] = clone.at]
  /\ Advance(t, [task[t] EXCEPT !.todo = @ \ {i}, !.new = @ \cup {i}])
  /\ UNCHANGED <<clone, syncLock, queued, syncLog, gitRows, config, resolving, outside>>

\* _copy_item replaces the directory; the row waits for the commit.
ItemCopied(t, i) ==
  /\ task[t].pc = "items"
  /\ i \in task[t].todo
  /\ sources[i] = None => target[i] = None
  /\ sources[i] # task[t].hash
  /\ clone # None /\ i \in clone.items
  /\ target' = [target EXCEPT ![i] = clone.at]
  /\ copied' = [copied EXCEPT ![i] = clone.at]
  /\ Advance(t, [task[t] EXCEPT !.todo = @ \ {i}, !.new = @ \cup {i}])
  /\ UNCHANGED <<clone, syncLock, queued, syncLog, gitRows, config, resolving, outside>>

\* The old directory is removed before the copy, so one that fails (the disk, or a
\* clone deleted meanwhile) leaves no item, or a part of one, which is none either.
CopyFails(i) == target' = [target EXCEPT ![i] = None]

ItemCopyFails(t, i) ==
  /\ task[t].pc = "items"
  /\ i \in task[t].todo
  /\ sources[i] = None => target[i] = None
  /\ sources[i] # task[t].hash
  /\ CopyFails(i)
  /\ Advance(t, [task[t] EXCEPT !.todo = @ \ {i}])
  /\ UNCHANGED <<clone, copied, syncLock, queued, syncLog, gitRows, config, resolving, outside>>

\* The commit of the item loop's session.
CommitItems(t) ==
  /\ task[t].pc = "items"
  /\ task[t].todo = {}
  /\ sources' = [i \in RepoItems |-> IF i \in task[t].new THEN task[t].hash ELSE sources[i]]
  /\ conflicts' = [i \in RepoItems |->
       IF i \in task[t].clash
       THEN [conflicts[i] EXCEPT !.open = @ + 1, !.hash = task[t].hash]
       ELSE conflicts[i]]
  /\ Advance(t, [task[t] EXCEPT !.pc = "finish",
                   !.new = {}, !.clash = {}])
  /\ UNCHANGED <<syncLock, queued, syncLog, dirs, config, resolving, outside>>

\* The log entry is closed, as success or failed, then the lock is let go.
\* Nothing is awaited between letting go and looking at the flag; the flag counts
\* after the first sync only.
FinishSync(t) ==
  /\ task[t].pc = "finish"
  /\ CloseLog(t)
  /\ LET h == task[t].host
         again == task[t].pass = 1 /\ queued[h]
     IN /\ syncLock' = [syncLock EXCEPT ![h] = None]
        /\ queued' = [queued EXCEPT ![h] = @ /\ ~again]
        /\ Advance(t, IF again THEN [NoTask EXCEPT !.pc = "lock", !.pass = 2, !.host = h]
                      ELSE [NoTask EXCEPT !.pc = "done"])
  /\ UNCHANGED <<dirs, gitRows, config, resolving, outside>>
-----------------------------------------------------------------------------
(***************************************************************************)
(* The ends of event loops.                                                *)
(***************************************************************************)

\* The tasks of D die where they stand; what they had not committed is lost.
Die(D) ==
  /\ task' = [t \in SyncTasks |-> IF t \in D THEN [NoTask EXCEPT !.pc = "dead"] ELSE task[t]]
  /\ syncLock' = [h \in Hosts |-> IF syncLock[h] \in D THEN None ELSE syncLock[h]]

\* asyncio.run in run_job returns when the scheduled job has its answer and
\* cancels every task the job left behind.
WorkerLoopEnds ==
  /\ \E t \in SyncTasks : task[t].host = "worker" /\ task[t].pc \in Live
  /\ Die({t \in SyncTasks : task[t].host = "worker" /\ task[t].pc \in Live})
  /\ UNCHANGED <<queued, syncLog, dirs, gitRows, config, resolving, outside>>

PortalRestart ==
  /\ restarts < deployment.restarts
  /\ restarts' = restarts + 1
  /\ Die({t \in SyncTasks : task[t].host = "portal" /\ task[t].pc \in Live})
  /\ queued' = [queued EXCEPT !["portal"] = FALSE]
  /\ resolving' = None
  /\ config' = IF config = "deleting" THEN "enabled" ELSE config
  /\ UNCHANGED <<deployment, remote, moves, syncLog, dirs, gitRows>>
-----------------------------------------------------------------------------
(***************************************************************************)
(* Conflicts are resolved by an admin.  A row may be resolved again: its   *)
(* state is not looked at.                                                 *)
(***************************************************************************)
\* A row about i an admin may pick, open or resolved before.
ConflictRows(i) ==
  [item : {i}, hash : conflicts[i].past, open : {FALSE}]
    \cup IF conflicts[i].open = 0 THEN {}
         ELSE {[item |-> i, hash |-> conflicts[i].hash, open |-> TRUE]}

MarkResolved(r) ==
  conflicts' = [conflicts EXCEPT
    ![r.item] = IF r.open /\ @.open > 0
                THEN [open |-> @.open - 1, hash |-> IF @.open = 1 THEN None ELSE @.hash,
                      past |-> @.past \cup {r.hash}]
                ELSE @]

ResolveLocal(i) ==
  /\ resolving = None
  /\ \E r \in ConflictRows(i) : MarkResolved(r)
  /\ UNCHANGED <<tasks, dirs, sources, config, resolving, outside>>

Applies(i) == clone # None /\ i \in clone.items /\ ~deployment.subdir

\* _apply_git_version copies what the clone holds by now; the sources row will
\* name the hash the conflict was found with.
ApplyGitVersion(r) ==
  /\ Applies(r.item)
  /\ target' = [target EXCEPT ![r.item] = clone.at]
  /\ copied' = [copied EXCEPT ![r.item] = clone.at]
  /\ resolving' = [row |-> r, applied |-> TRUE]

\* The exception is logged: no sources row, and the conflict counts as resolved.
ApplyFails(r) ==
  /\ Applies(r.item)
  /\ CopyFails(r.item)
  /\ resolving' = [row |-> r, applied |-> FALSE]
  /\ UNCHANGED copied

\* It looks below the clone directory, whatever subdirectory is configured, and
\* returns without a word when the item is not there.
ApplyNothing(r) ==
  /\ ~Applies(r.item)
  /\ resolving' = [row |-> r, applied |-> FALSE]
  /\ UNCHANGED <<target, copied>>

ResolveGit(i) ==
  /\ resolving = None
  /\ \E r \in ConflictRows(i) : ApplyGitVersion(r) \/ ApplyFails(r) \/ ApplyNothing(r)
  /\ UNCHANGED <<clone, tasks, gitRows, config, outside>>

\* The commit: the sources row, if something was copied, and the resolution.
ResolveGitCommit ==
  /\ resolving # None
  /\ sources' = IF resolving.applied
                THEN [sources EXCEPT ![resolving.row.item] = resolving.row.hash]
                ELSE sources
  /\ MarkResolved(resolving.row)
  /\ resolving' = None
  /\ UNCHANGED <<tasks, dirs, config, outside>>
-----------------------------------------------------------------------------
(***************************************************************************)
(* The configuration.  Its scheduled job is in module ScheduledJobs.       *)
(***************************************************************************)

\* upsert_config; a new repository URL deletes the clone, whoever is using it.
SaveConfig(c, newUrl) ==
  /\ Move
  /\ newUrl => config # "absent"
  /\ config' = IF config = "deleting" THEN config ELSE c
  /\ clone' = IF newUrl THEN None ELSE clone
  /\ UNCHANGED <<target, copied, tasks, gitRows, resolving, world>>

\* regenerate_ssh_key makes a disabled configuration when there is none.
RegenerateKey ==
  /\ Move
  /\ config = "absent"
  /\ config' = "disabled"
  /\ UNCHANGED <<tasks, dirs, gitRows, resolving, world>>

\* delete_config, of an enabled one: first the clone ...
DeleteClone ==
  /\ Move
  /\ config = "enabled"
  /\ clone' = None
  /\ config' = "deleting"
  /\ UNCHANGED <<target, copied, tasks, gitRows, resolving, world>>

\* ... then the row.
DeleteConfig ==
  /\ config = "deleting"
  /\ config' = "absent"
  /\ UNCHANGED <<tasks, dirs, gitRows, resolving, outside>>
-----------------------------------------------------------------------------
(***************************************************************************)
(* The world outside: commits, and uploads and deletions by users of the   *)
(* portal, who know nothing of git_sync_sources.                           *)
(***************************************************************************)
Push ==
  /\ remote.head < MaxCommit
  /\ remote' = [remote EXCEPT !.head = @ + 1]
  /\ UNCHANGED <<tasks, dirs, gitRows, config, resolving, deployment, restarts, moves>>

Upload(i) ==
  /\ Move
  /\ target[i] = None
  /\ target' = [target EXCEPT ![i] = Uploaded]
  /\ UNCHANGED <<clone, copied, tasks, gitRows, config, resolving, world>>

Remove(i) ==
  /\ Move
  /\ target[i] # None
  /\ target' = [target EXCEPT ![i] = None]
  /\ UNCHANGED <<clone, copied, tasks, gitRows, config, resolving, world>>
-----------------------------------------------------------------------------
SyncStep(t) ==
  \/ TakeLock(t) \/ ReadConfig(t) \/ FetchRepo(t) \/ FetchFails(t)
  \/ Collect(t) \/ CommitItems(t) \/ FinishSync(t)
  \/ \E i \in RepoItems : \/ ItemClashes(t, i) \/ ItemUpToDate(t, i)
                          \/ ItemCopied(t, i) \/ ItemCopyFails(t, i)

GitNext ==
  \/ \E h \in Hosts : TriggerQueued(h) \/ \E t \in SyncTasks : TriggerStarted(h, t)
  \/ \E t \in SyncTasks : SyncStep(t)
  \/ WorkerLoopEnds
  \/ PortalRestart
  \/ \E i \in RepoItems : ResolveLocal(i) \/ ResolveGit(i) \/ Upload(i) \/ Remove(i)
  \/ ResolveGitCommit
  \/ \E c \in {"disabled", "enabled"}, newUrl \in BOOLEAN : SaveConfig(c, newUrl)
  \/ RegenerateKey \/ DeleteClone \/ DeleteConfig
  \/ Push

\* An event loop runs its tasks: git commands time out, transactions end.
GitFairness == \A t \in SyncTasks : WF_gitVars(SyncStep(t))

GitSpec == GitInit /\ [][GitNext]_gitVars /\ GitFairness
-----------------------------------------------------------------------------
ConflictInfo == [open : Nat, hash : GitCommits \cup {None}, past : SUBSET GitCommits]
TaskInfo == [pc : Live \cup {"unused", "done", "dead"}, pass : {1, 2}, host : Hosts,
             hash : GitCommits \cup {None}, todo : SUBSET RepoItems, new : SUBSET RepoItems,
             clash : SUBSET RepoItems]
RowInfo == [item : RepoItems, hash : GitCommits, open : BOOLEAN]
ResolvingInfo == [row : RowInfo, applied : BOOLEAN]

ASSUME ResolvingAssumption == None \notin ResolvingInfo

GitTypeOK ==
  /\ deployment \in Deployments
  /\ remote \in [head : GitCommits, items : SUBSET RepoItems]
  /\ clone \in [at : GitCommits, items : SUBSET RepoItems] \cup {None}
  /\ target \in [RepoItems -> GitCommits \cup {None, Uploaded}]
  /\ sources \in [RepoItems -> GitCommits \cup {None}]
  /\ conflicts \in [RepoItems -> ConflictInfo]
  /\ config \in {"absent", "disabled", "enabled", "deleting"}
  /\ task \in [SyncTasks -> TaskInfo]
  /\ syncLock \in [Hosts -> SyncTasks \cup {None}]
  /\ queued \in [Hosts -> BOOLEAN]
  /\ syncLog \in [SyncTasks -> {"none", "running", "closed"}]
  /\ resolving \in ResolvingInfo \cup {None}
  /\ restarts \in 0..deployment.restarts
  /\ moves \in 0..deployment.moves
  /\ copied \in [RepoItems -> GitCommits \cup {0}]

\* Without a Celery worker an item has at most one open conflict: two syncs of
\* the same process never both find none and insert one each, restarts or not.
OneOpenConflict == ~deployment.celery => \A i \in RepoItems : conflicts[i].open <= 1

\* git_sync_sources never claims a version that was not copied: neither a failed
\* copy, nor a resolution with an old hash, nor two processes, nor a restart
\* between copy and commit makes a later sync skip an item it still has to update.
\* That the files are still there is another matter: users delete items, and a copy
\* that fails while a conflict is resolved again (ApplyFails) leaves a row without any.
SourcesHonest == \A i \in RepoItems : sources[i] # None => copied[i] >= sources[i]

\* Both, over rows, files, locks and tasks of their types.
SyncSound == GitTypeOK /\ OneOpenConflict /\ SourcesHonest

\* An uploaded item that no row says came from git becomes a git version only
\* by an admin's resolution, never by a sync.
LocalKept ==
  [][\A i \in RepoItems :
       target[i] = Uploaded /\ sources[i] = None /\ target'[i] \in GitCommits
         => resolving = None /\ resolving' # None /\ resolving'.row.item = i]_gitVars

\* Every sync of an undisturbed portal closes its log entry: an early return, a
\* failed fetch or the wait for the lock between two passes does not leave it
\* running.
LogsClose ==
  \A t \in SyncTasks :
    (syncLog[t] = "running" /\ task[t].host = "portal")
      ~> (syncLog[t] # "running" \/ task[t].pc = "dead")

\* "Sync wird nach aktuellem Lauf ausgefuehrt" (router.py): a queued trigger is
\* worked off, unless the portal restarts.
QueuedServed == queued["portal"] ~> (~queued["portal"] \/ restarts > 0)
=============================================================================
