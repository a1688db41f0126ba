---------------------------- MODULE GitSyncProofs ----------------------------
(***************************************************************************)
(* Git synchronisation never claims a version it did not copy, for any     *)
(* number of tasks, items and commits, with or without a Celery worker and *)
(* whatever is restarted; without a worker an item has at most one open    *)
(* conflict.                                                               *)
(***************************************************************************)
EXTENDS GitSync, TLAPS

\* A commit that is neither newer than the repository nor, when there is one,
\* newer than the clone.
Reached(h) == h <= remote.head /\ (clone # None => h <= clone.at)

\* Every commit the portal remembers is one of those: what was ever copied, what
\* a sync found, and what the conflict rows and their resolution name.
Ordered ==
  /\ clone # None => clone.at <= remote.head
  /\ \A i \in RepoItems : Reached(copied[i])
  /\ \A t \in SyncTasks : task[t].hash # None => Reached(task[t].hash)
  /\ \A i \in RepoItems : conflicts[i].open > 0 => /\ conflicts[i].hash # None
                                                   /\ Reached(conflicts[i].hash)
  /\ \A i \in RepoItems : \A h \in conflicts[i].past : Reached(h)
  /\ resolving # None => Reached(resolving.row.hash)

\* What waits for its commit was copied: the sources row a sync or a resolution
\* is going to write names no newer version than the files have had.
Backed ==
  /\ \A t \in SyncTasks, i \in RepoItems :
       i \in task[t].todo \cup task[t].new \cup task[t].clash => task[t].hash # None
  /\ \A t \in SyncTasks, i \in RepoItems : i \in task[t].new => copied[i] >= task[t].hash
  /\ resolving # None /\ resolving.applied =>
       copied[resolving.row.item] >= resolving.row.hash
  /\ SourcesHonest

\* A sync under way has the lock of its process; in the portal alone, what it is
\* about to insert as a conflict has no open row yet.
Excluded ==
  /\ \A t \in SyncTasks : task[t].pc \in Syncing => syncLock[task[t].host] = t
  /\ \A t \in SyncTasks : task[t].new # {} \/ task[t].clash # {} => task[t].pc = "items"
  /\ ~deployment.celery => \A t \in SyncTasks : task[t].host = "portal"
  /\ ~deployment.celery =>
       \A t \in SyncTasks, i \in RepoItems : i \in task[t].clash => conflicts[i].open = 0
  /\ OneOpenConflict

GitInv == GitTypeOK /\ Ordered /\ Backed /\ Excluded
-----------------------------------------------------------------------------
(***************************************************************************)
(* Types.                                                                  *)
(***************************************************************************)
TaskPCs == Live \cup {"unused", "done", "dead"}

\* The fields a sync changes.
LEMMA TaskFields ==
  /\ NoTask \in TaskInfo
  /\ \A x \in TaskPCs : [NoTask EXCEPT !.pc = x] \in TaskInfo
  /\ \A x \in TaskPCs, h \in Hosts : [NoTask EXCEPT !.pc = x, !.host = h] \in TaskInfo
  /\ \A x \in TaskPCs, h \in Hosts :
       [NoTask EXCEPT !.pc = x, !.pass = 2, !.host = h] \in TaskInfo
  /\ \A c \in TaskInfo, x \in TaskPCs : [c EXCEPT !.pc = x] \in TaskInfo
  /\ \A c \in TaskInfo, x \in TaskPCs, h \in GitCommits \cup {None}, S \in SUBSET RepoItems :
       [c EXCEPT !.pc = x, !.hash = h, !.todo = S] \in TaskInfo
  /\ \A c \in TaskInfo, S, T \in SUBSET RepoItems :
       /\ [c EXCEPT !.todo = S] \in TaskInfo
       /\ [c EXCEPT !.todo = S, !.clash = T] \in TaskInfo
       /\ [c EXCEPT !.todo = S, !.new = T] \in TaskInfo
  /\ \A c \in TaskInfo, x \in TaskPCs :
       [c EXCEPT !.pc = x, !.new = {}, !.clash = {}] \in TaskInfo
<1> USE DEF TaskInfo, NoTask, TaskPCs, Live, SyncWaiting, Syncing, Hosts
<1>1. NoTask \in TaskInfo
  BY ZenonT(60)
<1>2. \A x \in TaskPCs : [NoTask EXCEPT !.pc = x] \in TaskInfo
  OBVIOUS
<1>3. \A x \in TaskPCs, h \in Hosts : [NoTask EXCEPT !.pc = x, !.host = h] \in TaskInfo
  OBVIOUS
<1>4. \A x \in TaskPCs, h \in Hosts :
       [NoTask EXCEPT !.pc = x, !.pass = 2, !.host = h] \in TaskInfo
  OBVIOUS
<1>5. \A c \in TaskInfo, x \in TaskPCs : [c EXCEPT !.pc = x] \in TaskInfo
  OBVIOUS
<1>6. \A c \in TaskInfo, x \in TaskPCs, h \in GitCommits \cup {None}, S \in SUBSET RepoItems :
       [c EXCEPT !.pc = x, !.hash = h, !.todo = S] \in TaskInfo
  OBVIOUS
<1>7. \A c \in TaskInfo, S, T \in SUBSET RepoItems :
       /\ [c EXCEPT !.todo = S] \in TaskInfo
       /\ [c EXCEPT !.todo = S, !.clash = T] \in TaskInfo
       /\ [c EXCEPT !.todo = S, !.new = T] \in TaskInfo
  OBVIOUS
<1>8. \A c \in TaskInfo, x \in TaskPCs :
       [c EXCEPT !.pc = x, !.new = {}, !.clash = {}] \in TaskInfo
  OBVIOUS
<1> HIDE DEF TaskInfo, NoTask, TaskPCs, Live, SyncWaiting, Syncing, Hosts
<1> QED BY <1>1, <1>2, <1>3, <1>4, <1>5, <1>6, <1>7, <1>8, Zenon

\* Every step keeps the tasks tasks.
LEMMA StepTask == GitInv /\ GitNext => task' \in [SyncTasks -> TaskInfo]
<1>0. SUFFICES ASSUME GitInv, GitNext PROVE task' \in [SyncTasks -> TaskInfo]
  OBVIOUS
<1>a. task \in [SyncTasks -> TaskInfo] /\ \A t \in SyncTasks : task[t] \in TaskInfo
  BY <1>0 DEF GitInv, GitTypeOK
<1>b. ASSUME NEW t \in SyncTasks, NEW c \in TaskInfo, Advance(t, c)
      PROVE  task' \in [SyncTasks -> TaskInfo]
  BY <1>a, <1>b DEF Advance
<1>c. {"lock", "config", "git", "collect", "items", "finish", "done", "dead"} \subseteq TaskPCs
  BY DEF TaskPCs, Live, SyncWaiting, Syncing
<1>d. \A t \in SyncTasks : /\ task[t].todo \in SUBSET RepoItems /\ task[t].new \in SUBSET RepoItems
                           /\ task[t].clash \in SUBSET RepoItems /\ task[t].host \in Hosts
  BY <1>a DEF TaskInfo
<1>1. ASSUME NEW h \in Hosts, TriggerQueued(h) PROVE task' \in [SyncTasks -> TaskInfo]
  BY <1>1, <1>a DEF TriggerQueued, tasks
<1>2. ASSUME NEW h \in Hosts, NEW t \in SyncTasks, TriggerStarted(h, t) PROVE task' \in [SyncTasks -> TaskInfo]
  BY <1>2, <1>b, <1>c, TaskFields DEF TriggerStarted
<1>3. ASSUME NEW t \in SyncTasks, TakeLock(t) PROVE task' \in [SyncTasks -> TaskInfo]
  BY <1>3, <1>a, <1>b, <1>c, TaskFields DEF TakeLock
<1>4. ASSUME NEW t \in SyncTasks, ReadConfig(t) PROVE task' \in [SyncTasks -> TaskInfo]
  BY <1>4, <1>a, <1>b, <1>c, TaskFields DEF ReadConfig
<1>5. ASSUME NEW t \in SyncTasks, FetchRepo(t) PROVE task' \in [SyncTasks -> TaskInfo]
  BY <1>5, <1>a, <1>b, <1>c, TaskFields DEF FetchRepo
<1>6. ASSUME NEW t \in SyncTasks, FetchFails(t) PROVE task' \in [SyncTasks -> TaskInfo]
  BY <1>6, <1>a, <1>b, <1>c, TaskFields DEF FetchFails
<1>7. ASSUME NEW t \in SyncTasks, Collect(t) PROVE task' \in [SyncTasks -> TaskInfo]
  <2> DEFINE h == IF clone = None THEN None ELSE clone.at
             S == IF clone = None THEN {} ELSE clone.items
  <2>1. h \in GitCommits \cup {None} /\ S \in SUBSET RepoItems
    BY <1>0 DEF GitInv, GitTypeOK
  <2>2. Advance(t, [task[t] EXCEPT !.pc = "items", !.hash = h, !.todo = S])
    BY <1>7 DEF Collect
  <2> HIDE DEF h, S
  <2> QED BY <1>a, <1>b, <1>c, <2>1, <2>2, TaskFields
<1>8. ASSUME NEW t \in SyncTasks, NEW i \in RepoItems, ItemClashes(t, i) PROVE task' \in [SyncTasks -> TaskInfo]
  <2> DEFINE S == task[t].todo \ {i}
             C == IF conflicts[i].open = 0 THEN task[t].clash \cup {i} ELSE task[t].clash
  <2>1. S \in SUBSET RepoItems /\ C \in SUBSET RepoItems
    BY <1>d
  <2>2. Advance(t, [task[t] EXCEPT !.todo = S, !.clash = C])
    BY <1>8 DEF ItemClashes
  <2> HIDE DEF S, C
  <2> QED BY <1>a, <1>b, <2>1, <2>2, TaskFields
<1>9. ASSUME NEW t \in SyncTasks, NEW i \in RepoItems, ItemUpToDate(t, i) PROVE task' \in [SyncTasks -> TaskInfo]
  <2> DEFINE S == task[t].todo \ {i}
  <2>1. S \in SUBSET RepoItems
    BY <1>d
  <2>2. Advance(t, [task[t] EXCEPT !.todo = S])
    BY <1>9 DEF ItemUpToDate
  <2> HIDE DEF S
  <2> QED BY <1>a, <1>b, <2>1, <2>2, TaskFields
<1>10. ASSUME NEW t \in SyncTasks, NEW i \in RepoItems, ItemCopied(t, i) PROVE task' \in [SyncTasks -> TaskInfo]
  <2> DEFINE S == task[t].todo \ {i}
             C == task[t].new \cup {i}
  <2>1. S \in SUBSET RepoItems /\ C \in SUBSET RepoItems
    BY <1>d
  <2>2. Advance(t, [task[t] EXCEPT !.todo = S, !.new = C])
    BY <1>10 DEF ItemCopied
  <2> HIDE DEF S, C
  <2> QED BY <1>a, <1>b, <2>1, <2>2, TaskFields
<1>11. ASSUME NEW t \in SyncTasks, NEW i \in RepoItems, ItemCopyFails(t, i) PROVE task' \in [SyncTasks -> TaskInfo]
  <2> DEFINE S == task[t].todo \ {i}
  <2>1. S \in SUBSET RepoItems
    BY <1>d
  <2>2. Advance(t, [task[t] EXCEPT !.todo = S])
    BY <1>11 DEF ItemCopyFails
  <2> HIDE DEF S
  <2> QED BY <1>a, <1>b, <2>1, <2>2, TaskFields
<1>12. ASSUME NEW t \in SyncTasks, CommitItems(t) PROVE task' \in [SyncTasks -> TaskInfo]
  BY <1>12, <1>a, <1>b, <1>c, TaskFields DEF CommitItems
<1>13. ASSUME NEW t \in SyncTasks, FinishSync(t) PROVE task' \in [SyncTasks -> TaskInfo]
  <2>1. \/ Advance(t, [NoTask EXCEPT !.pc = "lock", !.pass = 2, !.host = task[t].host])
        \/ Advance(t, [NoTask EXCEPT !.pc = "done"])
    BY <1>13 DEF FinishSync
  <2>2. task[t].host \in Hosts
    BY <1>d
  <2> QED BY <1>b, <1>c, <2>1, <2>2, TaskFields
<1>14. ASSUME WorkerLoopEnds PROVE task' \in [SyncTasks -> TaskInfo]
  BY <1>14, <1>a, <1>c, TaskFields DEF WorkerLoopEnds, Die
<1>15. ASSUME PortalRestart PROVE task' \in [SyncTasks -> TaskInfo]
  BY <1>15, <1>a, <1>c, TaskFields DEF PortalRestart, Die
<1>16. ASSUME NEW i \in RepoItems, ResolveLocal(i) PROVE task' \in [SyncTasks -> TaskInfo]
  BY <1>16, <1>a DEF ResolveLocal, tasks
<1>17. ASSUME NEW i \in RepoItems, ResolveGit(i) PROVE task' \in [SyncTasks -> TaskInfo]
  BY <1>17, <1>a DEF ResolveGit, tasks
<1>18. ASSUME ResolveGitCommit PROVE task' \in [SyncTasks -> TaskInfo]
  BY <1>18, <1>a DEF ResolveGitCommit, tasks
<1>19. ASSUME NEW c \in {"disabled", "enabled"}, NEW newUrl \in BOOLEAN, SaveConfig(c, newUrl) PROVE task' \in [SyncTasks -> TaskInfo]
  BY <1>19, <1>a DEF SaveConfig, tasks
<1>20. ASSUME RegenerateKey PROVE task' \in [SyncTasks -> TaskInfo]
  BY <1>20, <1>a DEF RegenerateKey, tasks
<1>21. ASSUME DeleteClone PROVE task' \in [SyncTasks -> TaskInfo]
  BY <1>21, <1>a DEF DeleteClone, tasks
<1>22. ASSUME DeleteConfig PROVE task' \in [SyncTasks -> TaskInfo]
  BY <1>22, <1>a DEF DeleteConfig, tasks
<1>23. ASSUME Push PROVE task' \in [SyncTasks -> TaskInfo]
  BY <1>23, <1>a DEF Push, tasks
<1>24. ASSUME NEW i \in RepoItems, Upload(i) PROVE task' \in [SyncTasks -> TaskInfo]
  BY <1>24, <1>a DEF Upload, tasks
<1>25. ASSUME NEW i \in RepoItems, Remove(i) PROVE task' \in [SyncTasks -> TaskInfo]
  BY <1>25, <1>a DEF Remove, tasks
<1> QED
  BY <1>0, <1>1, <1>2, <1>3, <1>4, <1>5, <1>6, <1>7, <1>8, <1>9, <1>10, <1>11, <1>12, <1>13, <1>14, <1>15, <1>16, <1>17, <1>18, <1>19, <1>20, <1>21, <1>22, <1>23, <1>24, <1>25
     DEF GitNext, SyncStep

\* What resolving a conflict does to its row.
LEMMA Resolved ==
  ASSUME conflicts \in [RepoItems -> ConflictInfo], NEW r \in RowInfo, MarkResolved(r)
  PROVE  /\ conflicts' \in [RepoItems -> ConflictInfo]
         /\ \A i \in RepoItems :
              /\ conflicts'[i].open <= conflicts[i].open
              /\ conflicts'[i].open > 0 => conflicts'[i].hash = conflicts[i].hash
              /\ conflicts'[i].past \subseteq conflicts[i].past \cup {r.hash}
<1> DEFINE j == r.item
           c == conflicts[j]
           d == [open |-> c.open - 1, hash |-> IF c.open = 1 THEN None ELSE c.hash,
                 past |-> c.past \cup {r.hash}]
<1>1. j \in RepoItems /\ r.hash \in GitCommits
  BY DEF RowInfo
<1>2. c \in ConflictInfo
  BY <1>1
<1>3. /\ c.open \in Nat /\ c.hash \in GitCommits \cup {None} /\ c.past \in SUBSET GitCommits
  BY <1>2 DEF ConflictInfo
<1>4. CASE r.open /\ c.open > 0
  <2>1. conflicts' = [conflicts EXCEPT ![j] = d]
    BY <1>4 DEF MarkResolved
  <2>2. d \in ConflictInfo
    BY <1>1, <1>3, <1>4 DEF ConflictInfo
  <2>3. d.open = c.open - 1 /\ (c.open # 1 => d.hash = c.hash) /\ d.past = c.past \cup {r.hash}
    OBVIOUS
  <2>4. d.open <= c.open /\ (d.open > 0 => d.hash = c.hash)
    BY <1>3, <1>4, <2>3
  <2>5. \A i \in RepoItems : conflicts[i].open \in Nat
    BY DEF ConflictInfo
  <2> HIDE DEF d
  <2> QED BY <1>1, <2>1, <2>2, <2>3, <2>4, <2>5
<1>5. CASE ~(r.open /\ c.open > 0)
  <2>1. conflicts' = conflicts
    BY <1>1, <1>5 DEF MarkResolved
  <2>2. \A i \in RepoItems : conflicts[i].open \in Nat
    BY DEF ConflictInfo
  <2> QED BY <2>1, <2>2
<1> QED BY <1>4, <1>5

\* The rows an admin may pick.
LEMMA RowsKnown ==
  ASSUME GitTypeOK, Ordered, NEW i \in RepoItems, NEW r \in ConflictRows(i)
  PROVE  r \in RowInfo /\ r.item = i /\ Reached(r.hash)
<1>1. conflicts[i] \in ConflictInfo
  BY DEF GitTypeOK
<1>2. CASE r \in [item : {i}, hash : conflicts[i].past, open : {FALSE}]
  <2>1. r.item = i /\ r.hash \in conflicts[i].past
    BY <1>2
  <2>2. r \in RowInfo
    BY <1>1, <1>2 DEF RowInfo, ConflictInfo
  <2> QED BY <2>1, <2>2 DEF Ordered
<1>3. CASE conflicts[i].open # 0 /\ r = [item |-> i, hash |-> conflicts[i].hash, open |-> TRUE]
  <2>1. conflicts[i].open > 0
    BY <1>1, <1>3 DEF ConflictInfo
  <2>2. conflicts[i].hash # None /\ Reached(conflicts[i].hash)
    BY <2>1 DEF Ordered
  <2>3. conflicts[i].hash \in GitCommits
    BY <1>1, <2>2 DEF ConflictInfo
  <2> QED BY <1>3, <2>2, <2>3 DEF RowInfo
<1> QED BY <1>2, <1>3 DEF ConflictRows

\* Rows, files, locks and flags keep their types as well.
LEMMA StepTypes == GitInv /\ [GitNext]_gitVars => GitTypeOK'
<1>0. SUFFICES ASSUME GitInv, GitNext PROVE GitTypeOK'
  BY DEF gitVars, GitInv, GitTypeOK
<1>a. task' \in [SyncTasks -> TaskInfo] /\ task \in [SyncTasks -> TaskInfo]
  BY <1>0, StepTask DEF GitInv, GitTypeOK
<1>b. /\ deployment.restarts \in Nat /\ deployment.moves \in Nat
      /\ MaxCommit \in Nat
      /\ \A t \in SyncTasks : task[t].host \in Hosts /\ task[t].hash \in GitCommits \cup {None}
  BY <1>0, <1>a, GitAssumption DEF GitInv, GitTypeOK, TaskInfo
<1>c. \A x \in GitCommits : x \in Int
  BY DEF GitCommits
<1> USE DEF GitInv, GitTypeOK, dirs, gitRows, tasks, world, outside, Move, OpenLog, CloseLog
<1>1. ASSUME NEW h \in Hosts, TriggerQueued(h) PROVE GitTypeOK'
  BY <1>0, <1>a, <1>b, <1>1 DEF TriggerQueued
<1>2. ASSUME NEW h \in Hosts, NEW t \in SyncTasks, TriggerStarted(h, t) PROVE GitTypeOK'
  BY <1>0, <1>a, <1>b, <1>2 DEF TriggerStarted
<1>3. ASSUME NEW t \in SyncTasks, TakeLock(t) PROVE GitTypeOK'
  BY <1>0, <1>a, <1>b, <1>3 DEF TakeLock
<1>4. ASSUME NEW t \in SyncTasks, ReadConfig(t) PROVE GitTypeOK'
  BY <1>0, <1>a, <1>b, <1>4 DEF ReadConfig
<1>5. ASSUME NEW t \in SyncTasks, FetchRepo(t) PROVE GitTypeOK'
  <2>1. clone' \in [at : GitCommits, items : SUBSET RepoItems]
    BY <1>0, <1>5 DEF FetchRepo
  <2> QED BY <1>0, <1>a, <1>5, <2>1 DEF FetchRepo
<1>6. ASSUME NEW t \in SyncTasks, FetchFails(t) PROVE GitTypeOK'
  BY <1>0, <1>a, <1>b, <1>6 DEF FetchFails
<1>7. ASSUME NEW t \in SyncTasks, Collect(t) PROVE GitTypeOK'
  BY <1>0, <1>a, <1>b, <1>7 DEF Collect
<1>8. ASSUME NEW t \in SyncTasks, NEW i \in RepoItems, ItemClashes(t, i) PROVE GitTypeOK'
  BY <1>0, <1>a, <1>b, <1>8 DEF ItemClashes
<1>9. ASSUME NEW t \in SyncTasks, NEW i \in RepoItems, ItemUpToDate(t, i) PROVE GitTypeOK'
  BY <1>0, <1>a, <1>b, <1>9 DEF ItemUpToDate
<1>10. ASSUME NEW t \in SyncTasks, NEW i \in RepoItems, ItemCopied(t, i) PROVE GitTypeOK'
  BY <1>0, <1>a, <1>b, <1>10 DEF ItemCopied
<1>11. ASSUME NEW t \in SyncTasks, NEW i \in RepoItems, ItemCopyFails(t, i) PROVE GitTypeOK'
  BY <1>0, <1>a, <1>b, <1>11 DEF ItemCopyFails, CopyFails
<1>12. ASSUME NEW t \in SyncTasks, CommitItems(t) PROVE GitTypeOK'
  <2>1. sources' \in [RepoItems -> GitCommits \cup {None}]
    BY <1>0, <1>b, <1>12 DEF CommitItems
  <2>2. \A i \in RepoItems : [conflicts[i] EXCEPT !.open = @ + 1, !.hash = task[t].hash] \in ConflictInfo
    <3>1. \A c \in ConflictInfo, h \in GitCommits \cup {None} :
            [c EXCEPT !.open = c.open + 1, !.hash = h] \in ConflictInfo
      <4>1. \A c \in ConflictInfo : c.open + 1 \in Nat
        BY DEF ConflictInfo
      <4>2. \A c \in ConflictInfo, n \in Nat, h \in GitCommits \cup {None} :
              [c EXCEPT !.open = n, !.hash = h] \in ConflictInfo
        BY DEF ConflictInfo
      <4> QED BY <4>1, <4>2
    <3> QED BY <1>0, <1>b, <3>1
  <2>3. conflicts' \in [RepoItems -> ConflictInfo]
    BY <1>0, <2>2, <1>12 DEF CommitItems
  <2> QED BY <1>0, <1>a, <1>12, <2>1, <2>3 DEF CommitItems
<1>13. ASSUME NEW t \in SyncTasks, FinishSync(t) PROVE GitTypeOK'
  <2>1. queued' \in [Hosts -> BOOLEAN] /\ syncLock' \in [Hosts -> SyncTasks \cup {None}]
    <3>1. \E b \in BOOLEAN : queued' = [queued EXCEPT ![task[t].host] = b]
      BY <1>0, <1>13 DEF FinishSync
    <3> QED BY <1>0, <1>b, <3>1, <1>13 DEF FinishSync
  <2> QED BY <1>0, <1>a, <1>13, <2>1 DEF FinishSync
<1>14. ASSUME WorkerLoopEnds PROVE GitTypeOK'
  BY <1>0, <1>a, <1>14 DEF WorkerLoopEnds, Die
<1>15. ASSUME PortalRestart PROVE GitTypeOK'
  <2>1. restarts' \in 0..deployment.restarts
    BY <1>0, <1>b, <1>15 DEF PortalRestart
  <2>2. queued' \in [Hosts -> BOOLEAN] /\ syncLock' \in [Hosts -> SyncTasks \cup {None}]
    BY <1>0, <1>15 DEF PortalRestart, Die
  <2> QED BY <1>0, <1>a, <1>15, <2>1, <2>2 DEF PortalRestart
<1>16. ASSUME NEW i \in RepoItems, ResolveLocal(i) PROVE GitTypeOK'
  <2>1. PICK r \in ConflictRows(i) : MarkResolved(r)
    BY <1>16 DEF ResolveLocal
  <2>2. conflicts' \in [RepoItems -> ConflictInfo]
    BY <1>0, <2>1, RowsKnown, Resolved
  <2> QED BY <1>0, <1>a, <1>16, <2>2 DEF ResolveLocal
<1>17. ASSUME NEW i \in RepoItems, ResolveGit(i) PROVE GitTypeOK'
  <2>1. PICK r \in ConflictRows(i) : ApplyGitVersion(r) \/ ApplyFails(r) \/ ApplyNothing(r)
    BY <1>17 DEF ResolveGit
  <2>2. r \in RowInfo /\ r.item \in RepoItems
    BY <1>0, <2>1, RowsKnown
  <2>3. \A b \in BOOLEAN : [row |-> r, applied |-> b] \in ResolvingInfo
    BY <2>2 DEF ResolvingInfo
  <2>4. resolving' \in ResolvingInfo
    BY <2>1, <2>3 DEF ApplyGitVersion, ApplyFails, ApplyNothing
  <2>5. /\ target' \in [RepoItems -> GitCommits \cup {None, Uploaded}]
        /\ copied' \in [RepoItems -> GitCommits \cup {0}]
    <3>1. CASE ApplyGitVersion(r)
      BY <1>0, <2>2, <3>1 DEF ApplyGitVersion, Applies
    <3>2. CASE ApplyNothing(r)
      BY <1>0, <3>2 DEF ApplyNothing
    <3>3. CASE ApplyFails(r)
      BY <1>0, <2>2, <3>3 DEF ApplyFails, CopyFails
    <3> QED BY <2>1, <3>1, <3>2, <3>3
  <2> QED BY <1>0, <1>a, <1>17, <2>4, <2>5 DEF ResolveGit
<1>18. ASSUME ResolveGitCommit PROVE GitTypeOK'
  <2>1. resolving \in ResolvingInfo
    BY <1>0, <1>18 DEF ResolveGitCommit
  <2>2. resolving.row \in RowInfo
    BY <2>1 DEF ResolvingInfo
  <2>3. resolving.row.item \in RepoItems /\ resolving.row.hash \in GitCommits
    BY <2>2 DEF RowInfo
  <2>4. conflicts' \in [RepoItems -> ConflictInfo]
    BY <1>0, <2>2, <1>18, Resolved DEF ResolveGitCommit
  <2>5. sources' \in [RepoItems -> GitCommits \cup {None}]
    BY <1>0, <2>3, <1>18 DEF ResolveGitCommit
  <2> QED BY <1>0, <1>a, <1>18, <2>4, <2>5 DEF ResolveGitCommit
<1>19. ASSUME NEW c \in {"disabled", "enabled"}, NEW newUrl \in BOOLEAN, SaveConfig(c, newUrl) PROVE GitTypeOK'
  BY <1>0, <1>a, <1>b, <1>19 DEF SaveConfig
<1>20. ASSUME RegenerateKey PROVE GitTypeOK'
  BY <1>0, <1>a, <1>b, <1>20 DEF RegenerateKey
<1>21. ASSUME DeleteClone PROVE GitTypeOK'
  BY <1>0, <1>a, <1>b, <1>21 DEF DeleteClone
<1>22. ASSUME DeleteConfig PROVE GitTypeOK'
  BY <1>0, <1>a, <1>b, <1>22 DEF DeleteConfig
<1>23. ASSUME Push PROVE GitTypeOK'
  <2>1. remote' \in [head : GitCommits, items : SUBSET RepoItems]
    BY <1>0, <1>b, <1>23 DEF Push, GitCommits
  <2> QED BY <1>0, <1>a, <1>23, <2>1 DEF Push
<1>24. ASSUME NEW i \in RepoItems, Upload(i) PROVE GitTypeOK'
  BY <1>0, <1>a, <1>b, <1>24 DEF Upload
<1>25. ASSUME NEW i \in RepoItems, Remove(i) PROVE GitTypeOK'
  BY <1>0, <1>a, <1>b, <1>25 DEF Remove
<1> QED
  BY <1>0, <1>1, <1>2, <1>3, <1>4, <1>5, <1>6, <1>7, <1>8, <1>9, <1>10, <1>11, <1>12, <1>13, <1>14, <1>15, <1>16, <1>17, <1>18, <1>19, <1>20, <1>21, <1>22, <1>23, <1>24, <1>25
     DEF GitNext, SyncStep

\* The clone follows the repository, or goes.
LEMMA StepClone ==
  ASSUME GitNext
  PROVE  \/ UNCHANGED <<clone, remote>> \/ (clone' = None /\ UNCHANGED remote)
         \/ Push \/ \E t \in SyncTasks : FetchRepo(t)
<1> USE DEF dirs, gitRows, tasks, world, outside
<1>1. ASSUME NEW t \in SyncTasks, SyncStep(t) PROVE UNCHANGED <<clone, remote>> \/ FetchRepo(t)
  BY <1>1 DEF SyncStep, TakeLock, ReadConfig, FetchFails, Collect, ItemClashes, ItemUpToDate,
     ItemCopied, ItemCopyFails, CommitItems, FinishSync
<1>2. ASSUME NEW i \in RepoItems, ResolveLocal(i) \/ ResolveGit(i) \/ Upload(i) \/ Remove(i)
      PROVE  UNCHANGED <<clone, remote>>
  BY <1>2 DEF ResolveLocal, ResolveGit, Upload, Remove
<1>3. ASSUME NEW x \in Hosts, TriggerQueued(x) \/ \E t \in SyncTasks : TriggerStarted(x, t)
      PROVE  UNCHANGED <<clone, remote>>
  BY <1>3 DEF TriggerQueued, TriggerStarted
<1>4. ASSUME NEW c, NEW newUrl \in BOOLEAN, SaveConfig(c, newUrl)
      PROVE  UNCHANGED <<clone, remote>> \/ (clone' = None /\ UNCHANGED remote)
  BY <1>4 DEF SaveConfig
<1>5. ASSUME \/ WorkerLoopEnds \/ PortalRestart \/ ResolveGitCommit \/ RegenerateKey
             \/ DeleteClone \/ DeleteConfig
      PROVE  UNCHANGED <<clone, remote>> \/ (clone' = None /\ UNCHANGED remote)
  BY <1>5 DEF WorkerLoopEnds, PortalRestart, ResolveGitCommit, RegenerateKey, DeleteClone, DeleteConfig
<1> QED BY <1>1, <1>2, <1>3, <1>4, <1>5 DEF GitNext

\* Nothing is forgotten: the repository only grows, the clone only follows it, so
\* a commit that was reached stays reached.
LEMMA ReachedStays ==
  ASSUME GitTypeOK, clone # None => clone.at <= remote.head, GitNext, NEW h \in Nat, Reached(h)
  PROVE  Reached(h)'
<1>0. /\ remote.head \in Nat /\ MaxCommit \in Nat
      /\ clone # None => clone.at \in Nat
  BY GitAssumption DEF GitTypeOK, GitCommits
<1> USE DEF Reached, dirs, gitRows, tasks, world, outside
<1>1. CASE UNCHANGED <<clone, remote>>
  BY <1>1
<1>2. CASE clone' = None /\ UNCHANGED remote
  BY <1>2
<1>3. ASSUME NEW t \in SyncTasks, FetchRepo(t) PROVE Reached(h)'
  BY <1>0, <1>3 DEF FetchRepo
<1>4. CASE Push
  BY <1>0, <1>4 DEF Push, GitTypeOK
<1> QED BY <1>1, <1>2, <1>3, <1>4, StepClone

\* What is copied is what the clone holds.
LEMMA StepCopied ==
  ASSUME GitInv, GitNext
  PROVE  \/ copied' = copied
         \/ /\ clone # None /\ clone' = clone /\ remote' = remote
            /\ \E i \in RepoItems : copied' = [copied EXCEPT ![i] = clone.at]
<1> USE DEF dirs, gitRows, tasks, world, outside
<1>1. ASSUME NEW t \in SyncTasks, SyncStep(t)
      PROVE copied' = copied \/ \E i \in RepoItems : ItemCopied(t, i)
  BY <1>1 DEF SyncStep, TakeLock, ReadConfig, FetchRepo, FetchFails, Collect, ItemClashes,
     ItemUpToDate, ItemCopyFails, CommitItems, FinishSync
<1>2. ASSUME NEW i \in RepoItems, ResolveLocal(i) \/ Upload(i) \/ Remove(i)
      PROVE  copied' = copied
  BY <1>2 DEF ResolveLocal, Upload, Remove
<1>3. ASSUME NEW x \in Hosts, TriggerQueued(x) \/ \E t \in SyncTasks : TriggerStarted(x, t)
      PROVE  copied' = copied
  BY <1>3 DEF TriggerQueued, TriggerStarted
<1>4. ASSUME NEW c, NEW newUrl \in BOOLEAN, SaveConfig(c, newUrl)
      PROVE  copied' = copied
  BY <1>4 DEF SaveConfig
<1>5. ASSUME \/ WorkerLoopEnds \/ PortalRestart \/ ResolveGitCommit \/ RegenerateKey
             \/ DeleteClone \/ DeleteConfig \/ Push
      PROVE  copied' = copied
  BY <1>5 DEF WorkerLoopEnds, PortalRestart, ResolveGitCommit, RegenerateKey, DeleteClone,
     DeleteConfig, Push
<1>6. ASSUME NEW i \in RepoItems, ResolveGit(i)
      PROVE  \/ copied' = copied
             \/ /\ clone # None /\ clone' = clone /\ remote' = remote
                /\ copied' = [copied EXCEPT ![i] = clone.at]
  <2>1. PICK r \in ConflictRows(i) : ApplyGitVersion(r) \/ ApplyFails(r) \/ ApplyNothing(r)
    BY <1>6 DEF ResolveGit
  <2>2. r.item = i
    BY <2>1, RowsKnown DEF GitInv
  <2> QED BY <1>6, <2>1, <2>2 DEF ResolveGit, ApplyGitVersion, ApplyFails, ApplyNothing, Applies
<1>7. ASSUME NEW t \in SyncTasks, NEW i \in RepoItems, ItemCopied(t, i)
      PROVE  /\ clone # None /\ clone' = clone /\ remote' = remote
             /\ copied' = [copied EXCEPT ![i] = clone.at]
  BY <1>7 DEF ItemCopied
<1> QED BY <1>1, <1>2, <1>3, <1>4, <1>5, <1>6, <1>7 DEF GitNext

\* So no older version replaces a newer one.
LEMMA CopiedGrows ==
  ASSUME GitInv, GitNext
  PROVE  \A i \in RepoItems : copied'[i] >= copied[i]
<1>1. copied \in [RepoItems -> Nat]
  BY GitAssumption DEF GitInv, GitTypeOK, GitCommits
<1>2. CASE copied' = copied
  BY <1>1, <1>2
<1>3. ASSUME NEW j \in RepoItems, clone # None, copied' = [copied EXCEPT ![j] = clone.at]
      PROVE  \A i \in RepoItems : copied'[i] >= copied[i]
  <2>1. clone.at \in Nat /\ copied[j] <= clone.at
    BY <1>3, GitAssumption DEF GitInv, GitTypeOK, GitCommits, Ordered, Reached
  <2> QED BY <1>1, <1>3, <2>1
<1> QED BY <1>2, <1>3, StepCopied

\* The commit a task found is the clone's.
LEMMA StepHash ==
  ASSUME GitInv, GitNext
  PROVE  \A u \in SyncTasks :
           \/ task'[u].hash \in {task[u].hash, None}
           \/ clone # None /\ task'[u].hash = clone.at
<1> DEFINE Goal == \A u \in SyncTasks :
                     \/ task'[u].hash \in {task[u].hash, None}
                     \/ clone # None /\ task'[u].hash = clone.at
<1>0. GitNext
  OBVIOUS
<1>a. task \in [SyncTasks -> TaskInfo]
  BY DEF GitInv, GitTypeOK
<1> USE DEF Advance, TaskInfo, NoTask, tasks
<1>1. ASSUME NEW h \in Hosts, TriggerQueued(h) PROVE Goal
  BY <1>1, <1>a DEF TriggerQueued
<1>2. ASSUME NEW h \in Hosts, NEW t \in SyncTasks, TriggerStarted(h, t) PROVE Goal
  BY <1>2, <1>a DEF TriggerStarted
<1>3. ASSUME NEW t \in SyncTasks, TakeLock(t) PROVE Goal
  BY <1>3, <1>a DEF TakeLock
<1>4. ASSUME NEW t \in SyncTasks, ReadConfig(t) PROVE Goal
  BY <1>4, <1>a DEF ReadConfig
<1>5. ASSUME NEW t \in SyncTasks, FetchRepo(t) PROVE Goal
  BY <1>5, <1>a DEF FetchRepo
<1>6. ASSUME NEW t \in SyncTasks, FetchFails(t) PROVE Goal
  BY <1>6, <1>a DEF FetchFails
<1>7. ASSUME NEW t \in SyncTasks, Collect(t) PROVE Goal
  BY <1>7, <1>a DEF Collect
<1>8. ASSUME NEW t \in SyncTasks, NEW i \in RepoItems, ItemClashes(t, i) PROVE Goal
  BY <1>8, <1>a DEF ItemClashes
<1>9. ASSUME NEW t \in SyncTasks, NEW i \in RepoItems, ItemUpToDate(t, i) PROVE Goal
  BY <1>9, <1>a DEF ItemUpToDate
<1>10. ASSUME NEW t \in SyncTasks, NEW i \in RepoItems, ItemCopied(t, i) PROVE Goal
  BY <1>10, <1>a DEF ItemCopied
<1>11. ASSUME NEW t \in SyncTasks, NEW i \in RepoItems, ItemCopyFails(t, i) PROVE Goal
  BY <1>11, <1>a DEF ItemCopyFails
<1>12. ASSUME NEW t \in SyncTasks, CommitItems(t) PROVE Goal
  BY <1>12, <1>a DEF CommitItems
<1>13. ASSUME NEW t \in SyncTasks, FinishSync(t) PROVE Goal
  BY <1>13, <1>a DEF FinishSync
<1>14. ASSUME WorkerLoopEnds PROVE Goal
  BY <1>14, <1>a DEF WorkerLoopEnds, Die
<1>15. ASSUME PortalRestart PROVE Goal
  BY <1>15, <1>a DEF PortalRestart, Die
<1>16. ASSUME NEW i \in RepoItems, ResolveLocal(i) PROVE Goal
  BY <1>16, <1>a DEF ResolveLocal
<1>17. ASSUME NEW i \in RepoItems, ResolveGit(i) PROVE Goal
  BY <1>17, <1>a DEF ResolveGit
<1>18. ASSUME ResolveGitCommit PROVE Goal
  BY <1>18, <1>a DEF ResolveGitCommit
<1>19. ASSUME NEW c \in {"disabled", "enabled"}, NEW newUrl \in BOOLEAN, SaveConfig(c, newUrl) PROVE Goal
  BY <1>19, <1>a DEF SaveConfig
<1>20. ASSUME RegenerateKey PROVE Goal
  BY <1>20, <1>a DEF RegenerateKey
<1>21. ASSUME DeleteClone PROVE Goal
  BY <1>21, <1>a DEF DeleteClone
<1>22. ASSUME DeleteConfig PROVE Goal
  BY <1>22, <1>a DEF DeleteConfig
<1>23. ASSUME Push PROVE Goal
  BY <1>23, <1>a DEF Push
<1>24. ASSUME NEW i \in RepoItems, Upload(i) PROVE Goal
  BY <1>24, <1>a DEF Upload
<1>25. ASSUME NEW i \in RepoItems, Remove(i) PROVE Goal
  BY <1>25, <1>a DEF Remove
<1> HIDE DEF Goal
<1>30. Goal
  BY <1>0, <1>1, <1>2, <1>3, <1>4, <1>5, <1>6, <1>7, <1>8, <1>9, <1>10, <1>11, <1>12, <1>13, <1>14, <1>15, <1>16, <1>17, <1>18, <1>19, <1>20, <1>21, <1>22, <1>23, <1>24, <1>25
     DEF GitNext, SyncStep
<1> QED BY <1>30 DEF Goal

\* Only the commit of a sync opens a conflict, for an item it clashed on; rows
\* move to the past with the commit they name.
LEMMA StepConflicts ==
  ASSUME GitInv, GitNext
  PROVE  \/ \E t \in SyncTasks : CommitItems(t)
         \/ \A j \in RepoItems :
              /\ conflicts'[j].open <= conflicts[j].open
              /\ conflicts'[j].open > 0 => conflicts'[j].hash = conflicts[j].hash
              /\ \A h \in conflicts'[j].past : h \in conflicts[j].past \/ Reached(h)
<1> DEFINE Goal == \A j \in RepoItems :
                     /\ conflicts'[j].open <= conflicts[j].open
                     /\ conflicts'[j].open > 0 => conflicts'[j].hash = conflicts[j].hash
                     /\ \A h \in conflicts'[j].past : h \in conflicts[j].past \/ Reached(h)
<1>a. /\ conflicts \in [RepoItems -> ConflictInfo]
      /\ \A j \in RepoItems : conflicts[j].open \in Nat
  BY DEF GitInv, GitTypeOK, ConflictInfo
<1>1. ASSUME conflicts' = conflicts PROVE Goal
  BY <1>a, <1>1
<1>2. ASSUME NEW i \in RepoItems, ResolveLocal(i) PROVE Goal
  <2>1. PICK r \in ConflictRows(i) : MarkResolved(r)
    BY <1>2 DEF ResolveLocal
  <2>2. r \in RowInfo /\ Reached(r.hash)
    BY <2>1, RowsKnown DEF GitInv
  <2>3. \A j \in RepoItems : /\ conflicts'[j].open <= conflicts[j].open
                             /\ conflicts'[j].open > 0 => conflicts'[j].hash = conflicts[j].hash
                             /\ conflicts'[j].past \subseteq conflicts[j].past \cup {r.hash}
    BY <1>a, <2>1, <2>2, Resolved
  <2> QED BY <2>2, <2>3
<1>3. ASSUME ResolveGitCommit PROVE Goal
  <2>1. resolving \in ResolvingInfo /\ MarkResolved(resolving.row) /\ Reached(resolving.row.hash)
    BY <1>3 DEF ResolveGitCommit, GitInv, GitTypeOK, Ordered
  <2>2. resolving.row \in RowInfo
    BY <2>1 DEF ResolvingInfo
  <2> DEFINE r == resolving.row
  <2>3. \A j \in RepoItems : /\ conflicts'[j].open <= conflicts[j].open
                             /\ conflicts'[j].open > 0 => conflicts'[j].hash = conflicts[j].hash
                             /\ conflicts'[j].past \subseteq conflicts[j].past \cup {r.hash}
    BY <1>a, <2>1, <2>2, Resolved
  <2> QED BY <2>1, <2>3
<1> USE DEF dirs, gitRows, tasks, world, outside
<1>4. ASSUME NEW t \in SyncTasks, SyncStep(t) PROVE conflicts' = conflicts \/ CommitItems(t)
  BY <1>4 DEF SyncStep, TakeLock, ReadConfig, FetchRepo, FetchFails, Collect, ItemClashes,
     ItemUpToDate, ItemCopied, ItemCopyFails, FinishSync
<1>5. ASSUME NEW i \in RepoItems, ResolveGit(i) \/ Upload(i) \/ Remove(i)
      PROVE  conflicts' = conflicts
  BY <1>5 DEF ResolveGit, Upload, Remove
<1>6. ASSUME NEW x \in Hosts, TriggerQueued(x) \/ \E t \in SyncTasks : TriggerStarted(x, t)
      PROVE  conflicts' = conflicts
  BY <1>6 DEF TriggerQueued, TriggerStarted
<1>7. ASSUME NEW c, NEW newUrl \in BOOLEAN, SaveConfig(c, newUrl)
      PROVE  conflicts' = conflicts
  BY <1>7 DEF SaveConfig
<1>8. ASSUME \/ WorkerLoopEnds \/ PortalRestart \/ RegenerateKey
             \/ DeleteClone \/ DeleteConfig \/ Push
      PROVE  conflicts' = conflicts
  BY <1>8 DEF WorkerLoopEnds, PortalRestart, RegenerateKey, DeleteClone, DeleteConfig, Push
<1> HIDE DEF Goal
<1>9. Goal \/ \E t \in SyncTasks : CommitItems(t)
  BY <1>1, <1>2, <1>3, <1>4, <1>5, <1>6, <1>7, <1>8 DEF GitNext
<1> QED BY <1>9 DEF Goal

\* A resolution names the commit of a row; what it copies is the clone's.
LEMMA StepResolving ==
  ASSUME GitInv, GitNext
  PROVE  \/ resolving' \in {resolving, None}
         \/ \E i \in RepoItems : \E r \in ConflictRows(i) :
              /\ resolving' \in ResolvingInfo /\ resolving'.row = r
              /\ resolving'.applied => clone # None /\ copied'[i] = clone.at
<1> DEFINE Goal == \/ resolving' \in {resolving, None}
                   \/ \E i \in RepoItems : \E r \in ConflictRows(i) :
                        /\ resolving' \in ResolvingInfo /\ resolving'.row = r
                        /\ resolving'.applied => clone # None /\ copied'[i] = clone.at
<1> USE DEF dirs, gitRows, tasks, world, outside
<1>1. ASSUME NEW i \in RepoItems, ResolveGit(i) PROVE Goal
  <2>1. PICK r \in ConflictRows(i) : ApplyGitVersion(r) \/ ApplyFails(r) \/ ApplyNothing(r)
    BY <1>1 DEF ResolveGit
  <2>2. r.item = i /\ r \in RowInfo /\ copied \in [RepoItems -> GitCommits \cup {0}]
    BY <2>1, RowsKnown DEF GitInv, GitTypeOK
  <2>3. CASE ApplyGitVersion(r)
    <3>1. /\ clone # None /\ copied'[i] = clone.at
          /\ resolving' = [row |-> r, applied |-> TRUE]
      BY <2>2, <2>3 DEF ApplyGitVersion, Applies
    <3> QED BY <2>1, <2>2, <3>1 DEF ResolvingInfo
  <2>4. CASE ApplyNothing(r) \/ ApplyFails(r)
    <3>1. resolving' = [row |-> r, applied |-> FALSE]
      BY <2>4 DEF ApplyNothing, ApplyFails
    <3> QED BY <2>1, <2>2, <3>1 DEF ResolvingInfo
  <2> QED BY <2>1, <2>3, <2>4
<1>4. ASSUME NEW t \in SyncTasks, SyncStep(t) PROVE resolving' = resolving
  BY <1>4 DEF SyncStep, TakeLock, ReadConfig, FetchRepo, FetchFails, Collect, ItemClashes,
     ItemUpToDate, ItemCopied, ItemCopyFails, FinishSync, CommitItems
<1>5. ASSUME NEW i \in RepoItems, ResolveLocal(i) \/ Upload(i) \/ Remove(i)
      PROVE  resolving' = resolving
  BY <1>5 DEF ResolveLocal, Upload, Remove
<1>6. ASSUME NEW x \in Hosts, TriggerQueued(x) \/ \E t \in SyncTasks : TriggerStarted(x, t)
      PROVE  resolving' = resolving
  BY <1>6 DEF TriggerQueued, TriggerStarted
<1>7. ASSUME NEW c, NEW newUrl \in BOOLEAN, SaveConfig(c, newUrl)
      PROVE  resolving' = resolving
  BY <1>7 DEF SaveConfig
<1>8. ASSUME \/ WorkerLoopEnds \/ PortalRestart \/ RegenerateKey \/ ResolveGitCommit
             \/ DeleteClone \/ DeleteConfig \/ Push
      PROVE  resolving' \in {resolving, None}
  BY <1>8 DEF WorkerLoopEnds, PortalRestart, RegenerateKey, DeleteClone, DeleteConfig, Push,
     ResolveGitCommit
<1> HIDE DEF Goal
<1>9. (resolving' \in {resolving, None}) => Goal
  BY DEF Goal
<1>10. Goal
  BY <1>1, <1>4, <1>5, <1>6, <1>7, <1>8, <1>9 DEF GitNext
<1> QED BY <1>10 DEF Goal

\* Every step leaves only commits that were reached.
LEMMA StepOrdered == GitInv /\ [GitNext]_gitVars => Ordered'
<1>0. SUFFICES ASSUME GitInv, GitNext PROVE Ordered'
  BY DEF gitVars, GitInv, Ordered, Reached
<1>t. GitTypeOK' /\ GitTypeOK /\ Ordered
  BY <1>0, StepTypes DEF GitInv
<1>a. ASSUME NEW h \in Nat, Reached(h) PROVE Reached(h)'
  BY <1>0, <1>a, <1>t, ReachedStays DEF Ordered
<1>b. clone # None => clone.at \in Nat /\ Reached(clone.at)
  BY <1>t, GitAssumption DEF Ordered, Reached, GitTypeOK, GitCommits
<1>d. GitCommits \subseteq Nat
  BY GitAssumption DEF GitCommits
<1>1. clone' # None => clone'.at <= remote'.head
  <2> USE DEF dirs, gitRows, tasks, world, outside
  <2>1. ASSUME NEW t \in SyncTasks, FetchRepo(t) PROVE clone'.at <= remote'.head
    BY <1>t, <1>d, <2>1 DEF FetchRepo, GitTypeOK
  <2>2. CASE Push
    BY <1>t, <1>d, <2>2 DEF Push, GitTypeOK, Ordered
  <2>3. CASE UNCHANGED <<clone, remote>> \/ clone' = None
    BY <1>t, <2>3 DEF Ordered
  <2> QED BY <1>0, <2>1, <2>2, <2>3, StepClone
<1>2. \A i \in RepoItems : Reached(copied[i])'
  <2> SUFFICES ASSUME NEW i \in RepoItems PROVE Reached(copied[i])'
    OBVIOUS
  <2>1. copied \in [RepoItems -> Nat]
    BY <1>t, GitAssumption DEF GitTypeOK, GitCommits
  <2>2. CASE copied'[i] = copied[i]
    <3>1. \A h \in Nat : Reached(h) => Reached(h)'
      BY <1>a
    <3>2. Reached(copied[i])
      BY <1>t DEF Ordered
    <3> QED BY <2>1, <2>2, <3>1, <3>2 DEF Reached
  <2>3. CASE clone # None /\ clone' = clone /\ remote' = remote /\ copied'[i] = clone.at
    BY <1>b, <2>3 DEF Reached
  <2>4. \/ copied'[i] = copied[i]
        \/ clone # None /\ clone' = clone /\ remote' = remote /\ copied'[i] = clone.at
    BY <1>0, <2>1, StepCopied
  <2> QED BY <2>2, <2>3, <2>4
<1>3. \A t \in SyncTasks : task'[t].hash # None => Reached(task[t].hash)'
  <2> SUFFICES ASSUME NEW t \in SyncTasks, task'[t].hash # None PROVE Reached(task[t].hash)'
    OBVIOUS
  <2>1. task[t].hash \in GitCommits \cup {None}
    BY <1>t DEF GitTypeOK, TaskInfo
  <2>2. CASE task'[t].hash = task[t].hash
    <3>1. \A h \in Nat : Reached(h) => Reached(h)'
      BY <1>a
    <3>2. task[t].hash \in Nat /\ Reached(task[t].hash)
      BY <1>t, <1>d, <2>1, <2>2 DEF Ordered
    <3> QED BY <2>2, <3>1, <3>2 DEF Reached
  <2>3. CASE clone # None /\ task'[t].hash = clone.at
    <3>1. \A h \in Nat : Reached(h) => Reached(h)'
      BY <1>a
    <3> QED BY <1>b, <2>3, <3>1 DEF Reached
  <2> QED BY <1>0, <2>2, <2>3, StepHash
<1>4. \A i \in RepoItems :
        /\ conflicts'[i].open > 0 => conflicts'[i].hash # None /\ Reached(conflicts[i].hash)'
        /\ \A h \in conflicts'[i].past : Reached(h)'
  <2> SUFFICES ASSUME NEW i \in RepoItems
               PROVE  /\ conflicts'[i].open > 0 => conflicts'[i].hash # None /\ Reached(conflicts[i].hash)'
                      /\ \A h \in conflicts'[i].past : Reached(h)'
    OBVIOUS
  <2>0. \A h \in Nat : Reached(h) => Reached(h)'
    BY <1>a
  <2>1. /\ conflicts[i].open \in Nat /\ conflicts[i].past \subseteq Nat
        /\ conflicts'[i].open \in Nat /\ conflicts'[i].past \subseteq Nat
        /\ conflicts[i].hash \in GitCommits \cup {None}
    BY <1>t, <1>d DEF GitTypeOK, ConflictInfo
  <2>2. CASE /\ conflicts'[i].open <= conflicts[i].open
             /\ conflicts'[i].open > 0 => conflicts'[i].hash = conflicts[i].hash
             /\ \A h \in conflicts'[i].past : h \in conflicts[i].past \/ Reached(h)
    <3>1. ASSUME conflicts'[i].open > 0
          PROVE  conflicts'[i].hash # None /\ Reached(conflicts[i].hash)'
      <4>1. conflicts[i].open > 0 /\ conflicts'[i].hash = conflicts[i].hash
        BY <2>1, <2>2, <3>1
      <4>2. conflicts[i].hash \in Nat /\ Reached(conflicts[i].hash) /\ conflicts[i].hash # None
        BY <1>t, <1>d, <2>1, <4>1 DEF Ordered
      <4> QED BY <2>0, <4>1, <4>2 DEF Reached
    <3>2. ASSUME NEW h \in conflicts'[i].past PROVE Reached(h)'
      <4>1. Reached(h) /\ h \in Nat
        BY <1>t, <2>1, <2>2 DEF Ordered
      <4> QED BY <2>0, <4>1
    <3> QED BY <3>1, <3>2
  <2>3. ASSUME NEW t \in SyncTasks, CommitItems(t)
        PROVE  /\ conflicts'[i].open > 0 => conflicts'[i].hash # None /\ Reached(conflicts[i].hash)'
               /\ \A h \in conflicts'[i].past : Reached(h)'
    <3>1. CASE i \in task[t].clash
      <4>1. conflicts'[i].hash = task[t].hash /\ conflicts'[i].past = conflicts[i].past
        <5>1. conflicts'[i] = [conflicts[i] EXCEPT !.open = @ + 1, !.hash = task[t].hash]
          BY <2>3, <3>1 DEF CommitItems
        <5>2. conflicts[i] \in ConflictInfo
          BY <1>t DEF GitTypeOK
        <5> QED BY <5>1, <5>2 DEF ConflictInfo
      <4>2. task[t].hash # None /\ task[t].hash \in Nat /\ Reached(task[t].hash)
        BY <1>0, <1>t, <1>d, <3>1 DEF GitInv, Backed, Ordered, GitTypeOK, TaskInfo
      <4>3. Reached(conflicts[i].hash)'
        BY <2>0, <4>1, <4>2 DEF Reached
      <4>4. \A h \in conflicts[i].past : Reached(h)
        BY <1>t DEF Ordered
      <4> QED BY <2>0, <2>1, <4>1, <4>2, <4>3, <4>4
    <3>2. CASE i \notin task[t].clash
      <4>1. conflicts'[i] = conflicts[i]
        BY <2>3, <3>2 DEF CommitItems
      <4> QED BY <2>2, <2>1, <4>1
    <3> QED BY <3>1, <3>2
  <2> QED BY <1>0, <2>2, <2>3, StepConflicts
<1>5. resolving' # None => Reached(resolving.row.hash)'
  <2> SUFFICES ASSUME resolving' # None PROVE Reached(resolving.row.hash)'
    OBVIOUS
  <2>0. \A h \in Nat : Reached(h) => Reached(h)'
    BY <1>a
  <2>1. CASE resolving' = resolving
    <3>1. Reached(resolving.row.hash) /\ resolving.row.hash \in Nat
      BY <1>t, <1>d, <2>1 DEF Ordered, GitTypeOK, ResolvingInfo, RowInfo
    <3> QED BY <2>0, <2>1, <3>1 DEF Reached
  <2>2. ASSUME NEW i \in RepoItems, NEW r \in ConflictRows(i), resolving'.row = r
        PROVE  Reached(resolving.row.hash)'
    <3>1. Reached(r.hash) /\ r.hash \in Nat
      BY <1>t, <1>d, RowsKnown DEF RowInfo
    <3> QED BY <2>0, <2>2, <3>1 DEF Reached
  <2> QED BY <1>0, <2>1, <2>2, StepResolving
<1> QED BY <1>1, <1>2, <1>3, <1>4, <1>5 DEF Ordered

\* A sync's commit empties what waited for it.
LEMMA CommitFields ==
  ASSUME GitTypeOK, NEW t \in SyncTasks, CommitItems(t)
  PROVE  /\ task'[t].pc = "finish" /\ task'[t].host = task[t].host
         /\ task'[t].hash = task[t].hash /\ task'[t].todo = task[t].todo
         /\ task'[t].new = {} /\ task'[t].clash = {}
         /\ \A u \in SyncTasks \ {t} : task'[u] = task[u]
<1>1. Advance(t, [task[t] EXCEPT !.pc = "finish", !.new = {}, !.clash = {}])
  BY DEF CommitItems
<1> QED BY <1>1 DEF Advance, GitTypeOK, TaskInfo

\* How the tasks move: who syncs has the lock, who has found items has a commit,
\* and what waits for a commit waits in the item loop.
LEMMA StepSyncing ==
  ASSUME GitInv, GitNext
  PROVE  \A u \in SyncTasks :
           /\ task'[u].pc \in Syncing => syncLock'[task'[u].host] = u
           /\ task'[u].new # {} \/ task'[u].clash # {} => task'[u].pc = "items"
           /\ \A j \in RepoItems :
                j \in task'[u].todo \cup task'[u].new \cup task'[u].clash => task'[u].hash # None
<1> DEFINE Goal == \A u \in SyncTasks :
                     /\ task'[u].pc \in Syncing => syncLock'[task'[u].host] = u
                     /\ task'[u].new # {} \/ task'[u].clash # {} => task'[u].pc = "items"
                     /\ \A j \in RepoItems :
                          j \in task'[u].todo \cup task'[u].new \cup task'[u].clash
                            => task'[u].hash # None
<1>0. GitNext
  OBVIOUS
<1>t. GitTypeOK
  BY DEF GitInv
<1>a. /\ task \in [SyncTasks -> TaskInfo] /\ syncLock \in [Hosts -> SyncTasks \cup {None}]
  BY DEF GitInv, GitTypeOK
<1>b. \A u \in SyncTasks :
        /\ task[u].pc \in Syncing => syncLock[task[u].host] = u
        /\ task[u].new # {} \/ task[u].clash # {} => task[u].pc = "items"
        /\ \A j \in RepoItems :
             j \in task[u].todo \cup task[u].new \cup task[u].clash => task[u].hash # None
        /\ task[u].todo \subseteq RepoItems /\ task[u].new \subseteq RepoItems
        /\ task[u].clash \subseteq RepoItems
  BY <1>a DEF GitInv, Excluded, Backed, TaskInfo
<1>n. None \notin SyncTasks
  BY GitAssumption DEF SyncTasks
<1> USE DEF Advance, TaskInfo, NoTask, tasks
<1>1. ASSUME NEW h \in Hosts, TriggerQueued(h) PROVE Goal
  BY <1>1, <1>a, <1>b DEF TriggerQueued, Syncing
<1>2. ASSUME NEW h \in Hosts, NEW t \in SyncTasks, TriggerStarted(h, t) PROVE Goal
  BY <1>2, <1>a, <1>b DEF TriggerStarted, Syncing
<1>3. ASSUME NEW t \in SyncTasks, TakeLock(t) PROVE Goal
  BY <1>3, <1>a, <1>b, <1>n DEF TakeLock, Syncing
<1>4. ASSUME NEW t \in SyncTasks, ReadConfig(t) PROVE Goal
  BY <1>4, <1>a, <1>b DEF ReadConfig, Syncing
<1>5. ASSUME NEW t \in SyncTasks, FetchRepo(t) PROVE Goal
  BY <1>5, <1>a, <1>b DEF FetchRepo, Syncing
<1>6. ASSUME NEW t \in SyncTasks, FetchFails(t) PROVE Goal
  BY <1>6, <1>a, <1>b DEF FetchFails, Syncing
<1>7. ASSUME NEW t \in SyncTasks, Collect(t) PROVE Goal
  <2>1. clone # None => clone.at # None
    BY <1>t, GitAssumption DEF GitTypeOK, GitCommits
  <2> QED BY <1>7, <1>a, <1>b, <2>1 DEF Collect, Syncing
<1>8. ASSUME NEW t \in SyncTasks, NEW i \in RepoItems, ItemClashes(t, i) PROVE Goal
  <2> DEFINE C == IF conflicts[i].open = 0 THEN task[t].clash \cup {i} ELSE task[t].clash
  <2>1. /\ task'[t].pc = task[t].pc /\ task'[t].host = task[t].host
        /\ task'[t].hash = task[t].hash /\ task'[t].todo = task[t].todo \ {i}
        /\ task'[t].new = task[t].new /\ task'[t].clash = C
        /\ \A u \in SyncTasks \ {t} : task'[u] = task[u]
    BY <1>8, <1>a DEF ItemClashes
  <2>2. C \subseteq task[t].clash \cup {i} /\ i \in task[t].todo /\ task[t].pc = "items" /\ syncLock' = syncLock
    BY <1>8 DEF ItemClashes
  <2> HIDE DEF C, TaskInfo
  <2> QED BY <1>b, <2>1, <2>2
<1>9. ASSUME NEW t \in SyncTasks, NEW i \in RepoItems, ItemUpToDate(t, i) PROVE Goal
  BY <1>9, <1>a, <1>b DEF ItemUpToDate, Syncing
<1>10. ASSUME NEW t \in SyncTasks, NEW i \in RepoItems, ItemCopied(t, i) PROVE Goal
  BY <1>10, <1>a, <1>b DEF ItemCopied, Syncing
<1>11. ASSUME NEW t \in SyncTasks, NEW i \in RepoItems, ItemCopyFails(t, i) PROVE Goal
  BY <1>11, <1>a, <1>b DEF ItemCopyFails, Syncing
<1>12. ASSUME NEW t \in SyncTasks, CommitItems(t) PROVE Goal
  <2>1. task[t].pc \in Syncing /\ "finish" \in Syncing /\ syncLock' = syncLock
    BY <1>12 DEF CommitItems, Syncing
  <2> HIDE DEF TaskInfo
  <2> QED BY <1>12, <1>t, <1>b, <2>1, CommitFields
<1>13. ASSUME NEW t \in SyncTasks, FinishSync(t) PROVE Goal
  BY <1>13, <1>a, <1>b DEF FinishSync, Syncing
<1>14. ASSUME WorkerLoopEnds PROVE Goal
  BY <1>14, <1>a, <1>b DEF WorkerLoopEnds, Die, Syncing
<1>15. ASSUME PortalRestart PROVE Goal
  BY <1>15, <1>a, <1>b DEF PortalRestart, Die, Syncing
<1>16. ASSUME NEW i \in RepoItems, ResolveLocal(i) PROVE Goal
  BY <1>16, <1>a, <1>b DEF ResolveLocal, Syncing
<1>17. ASSUME NEW i \in RepoItems, ResolveGit(i) PROVE Goal
  BY <1>17, <1>a, <1>b DEF ResolveGit, Syncing
<1>18. ASSUME ResolveGitCommit PROVE Goal
  BY <1>18, <1>a, <1>b DEF ResolveGitCommit, Syncing
<1>19. ASSUME NEW c \in {"disabled", "enabled"}, NEW newUrl \in BOOLEAN, SaveConfig(c, newUrl) PROVE Goal
  BY <1>19, <1>a, <1>b DEF SaveConfig, Syncing
<1>20. ASSUME RegenerateKey PROVE Goal
  BY <1>20, <1>a, <1>b DEF RegenerateKey, Syncing
<1>21. ASSUME DeleteClone PROVE Goal
  BY <1>21, <1>a, <1>b DEF DeleteClone, Syncing
<1>22. ASSUME DeleteConfig PROVE Goal
  BY <1>22, <1>a, <1>b DEF DeleteConfig, Syncing
<1>23. ASSUME Push PROVE Goal
  BY <1>23, <1>a, <1>b DEF Push, Syncing
<1>24. ASSUME NEW i \in RepoItems, Upload(i) PROVE Goal
  BY <1>24, <1>a, <1>b DEF Upload, Syncing
<1>25. ASSUME NEW i \in RepoItems, Remove(i) PROVE Goal
  BY <1>25, <1>a, <1>b DEF Remove, Syncing
<1> HIDE DEF Goal
<1>30. Goal
  BY <1>0, <1>1, <1>2, <1>3, <1>4, <1>5, <1>6, <1>7, <1>8, <1>9, <1>10, <1>11, <1>12, <1>13, <1>14, <1>15, <1>16, <1>17, <1>18, <1>19, <1>20, <1>21, <1>22, <1>23, <1>24, <1>25
     DEF GitNext, SyncStep
<1> QED BY <1>30 DEF Goal

\* A task keeps its host, or starts anew on one where triggers arrive.
LEMMA StepHosts ==
  ASSUME GitInv, GitNext, ~deployment.celery
  PROVE  \A u \in SyncTasks : task'[u].host = "portal"
<1> DEFINE Goal == \A u \in SyncTasks : task'[u].host = "portal"
<1>0. GitNext
  OBVIOUS
<1>a. task \in [SyncTasks -> TaskInfo] /\ \A u \in SyncTasks : task[u].host = "portal"
  BY DEF GitInv, GitTypeOK, Excluded
<1>b. TriggerHosts = {"portal"}
  BY DEF TriggerHosts
<1> USE DEF Advance, TaskInfo, NoTask, tasks
<1>1. ASSUME NEW h \in Hosts, TriggerQueued(h) PROVE Goal
  BY <1>1, <1>a DEF TriggerQueued
<1>2. ASSUME NEW h \in Hosts, NEW t \in SyncTasks, TriggerStarted(h, t) PROVE Goal
  BY <1>2, <1>a, <1>b DEF TriggerStarted
<1>3. ASSUME NEW t \in SyncTasks, TakeLock(t) PROVE Goal
  BY <1>3, <1>a DEF TakeLock
<1>4. ASSUME NEW t \in SyncTasks, ReadConfig(t) PROVE Goal
  BY <1>4, <1>a DEF ReadConfig
<1>5. ASSUME NEW t \in SyncTasks, FetchRepo(t) PROVE Goal
  BY <1>5, <1>a DEF FetchRepo
<1>6. ASSUME NEW t \in SyncTasks, FetchFails(t) PROVE Goal
  BY <1>6, <1>a DEF FetchFails
<1>7. ASSUME NEW t \in SyncTasks, Collect(t) PROVE Goal
  BY <1>7, <1>a DEF Collect
<1>8. ASSUME NEW t \in SyncTasks, NEW i \in RepoItems, ItemClashes(t, i) PROVE Goal
  BY <1>8, <1>a DEF ItemClashes
<1>9. ASSUME NEW t \in SyncTasks, NEW i \in RepoItems, ItemUpToDate(t, i) PROVE Goal
  BY <1>9, <1>a DEF ItemUpToDate
<1>10. ASSUME NEW t \in SyncTasks, NEW i \in RepoItems, ItemCopied(t, i) PROVE Goal
  BY <1>10, <1>a DEF ItemCopied
<1>11. ASSUME NEW t \in SyncTasks, NEW i \in RepoItems, ItemCopyFails(t, i) PROVE Goal
  BY <1>11, <1>a DEF ItemCopyFails
<1>12. ASSUME NEW t \in SyncTasks, CommitItems(t) PROVE Goal
  BY <1>12, <1>a DEF CommitItems
<1>13. ASSUME NEW t \in SyncTasks, FinishSync(t) PROVE Goal
  BY <1>13, <1>a DEF FinishSync
<1>14. ASSUME WorkerLoopEnds PROVE Goal
  BY <1>14, <1>a DEF WorkerLoopEnds, Die
<1>15. ASSUME PortalRestart PROVE Goal
  BY <1>15, <1>a DEF PortalRestart, Die
<1>16. ASSUME NEW i \in RepoItems, ResolveLocal(i) PROVE Goal
  BY <1>16, <1>a DEF ResolveLocal
<1>17. ASSUME NEW i \in RepoItems, ResolveGit(i) PROVE Goal
  BY <1>17, <1>a DEF ResolveGit
<1>18. ASSUME ResolveGitCommit PROVE Goal
  BY <1>18, <1>a DEF ResolveGitCommit
<1>19. ASSUME NEW c \in {"disabled", "enabled"}, NEW newUrl \in BOOLEAN, SaveConfig(c, newUrl) PROVE Goal
  BY <1>19, <1>a DEF SaveConfig
<1>20. ASSUME RegenerateKey PROVE Goal
  BY <1>20, <1>a DEF RegenerateKey
<1>21. ASSUME DeleteClone PROVE Goal
  BY <1>21, <1>a DEF DeleteClone
<1>22. ASSUME DeleteConfig PROVE Goal
  BY <1>22, <1>a DEF DeleteConfig
<1>23. ASSUME Push PROVE Goal
  BY <1>23, <1>a DEF Push
<1>24. ASSUME NEW i \in RepoItems, Upload(i) PROVE Goal
  BY <1>24, <1>a DEF Upload
<1>25. ASSUME NEW i \in RepoItems, Remove(i) PROVE Goal
  BY <1>25, <1>a DEF Remove
<1> HIDE DEF Goal
<1>30. Goal
  BY <1>0, <1>1, <1>2, <1>3, <1>4, <1>5, <1>6, <1>7, <1>8, <1>9, <1>10, <1>11, <1>12, <1>13, <1>14, <1>15, <1>16, <1>17, <1>18, <1>19, <1>20, <1>21, <1>22, <1>23, <1>24, <1>25
     DEF GitNext, SyncStep
<1> QED BY <1>30 DEF Goal

\* What is new in a sync's transaction: an item it has just copied, or an item
\* without an open conflict.
LEMMA StepPending ==
  ASSUME GitInv, GitNext
  PROVE  \A u \in SyncTasks, j \in RepoItems :
           /\ j \in task'[u].new =>
                \/ j \in task[u].new /\ task'[u].hash = task[u].hash
                \/ ItemCopied(u, j)
           /\ j \in task'[u].clash =>
                \/ j \in task[u].clash /\ ~CommitItems(u)
                \/ conflicts[j].open = 0 /\ conflicts' = conflicts
<1> DEFINE Goal == \A u \in SyncTasks, j \in RepoItems :
                     /\ j \in task'[u].new =>
                          \/ j \in task[u].new /\ task'[u].hash = task[u].hash
                          \/ ItemCopied(u, j)
                     /\ j \in task'[u].clash =>
                          \/ j \in task[u].clash /\ ~CommitItems(u)
                          \/ conflicts[j].open = 0 /\ conflicts' = conflicts
<1>0. GitNext
  OBVIOUS
<1>a. task \in [SyncTasks -> TaskInfo]
  BY DEF GitInv, GitTypeOK
<1>b. \A u \in SyncTasks : task[u].new # {} \/ task[u].clash # {} => task[u].pc = "items"
  BY DEF GitInv, Excluded
<1>c. \A u \in SyncTasks : CommitItems(u) => task'[u].clash = {} /\ task'[u].new = {}
  BY CommitFields DEF GitInv
<1>d. ASSUME task' = task PROVE Goal
  BY <1>c, <1>d
<1> DEFINE Keeps(t) == /\ \A u \in SyncTasks \ {t} : task'[u] = task[u]
                       /\ task'[t].new \subseteq task[t].new
                       /\ task'[t].clash \subseteq task[t].clash
                       /\ task'[t].hash = task[t].hash \/ task'[t].new = {}
<1>e. ASSUME NEW t \in SyncTasks, Keeps(t) PROVE Goal
  BY <1>c, <1>e
<1> USE DEF Advance, TaskInfo, NoTask, tasks, gitRows
<1>1. ASSUME NEW h \in Hosts, TriggerQueued(h) PROVE Goal
  BY <1>1, <1>d DEF TriggerQueued
<1>2. ASSUME NEW h \in Hosts, NEW t \in SyncTasks, TriggerStarted(h, t) PROVE Goal
  BY <1>2, <1>a, <1>b, <1>e DEF TriggerStarted
<1>3. ASSUME NEW t \in SyncTasks, TakeLock(t) PROVE Goal
  BY <1>3, <1>a, <1>b, <1>e DEF TakeLock
<1>4. ASSUME NEW t \in SyncTasks, ReadConfig(t) PROVE Goal
  BY <1>4, <1>a, <1>b, <1>e DEF ReadConfig
<1>5. ASSUME NEW t \in SyncTasks, FetchRepo(t) PROVE Goal
  BY <1>5, <1>a, <1>b, <1>e DEF FetchRepo
<1>6. ASSUME NEW t \in SyncTasks, FetchFails(t) PROVE Goal
  BY <1>6, <1>a, <1>b, <1>e DEF FetchFails
<1>7. ASSUME NEW t \in SyncTasks, Collect(t) PROVE Goal
  BY <1>7, <1>a, <1>b, <1>e DEF Collect
<1>8. ASSUME NEW t \in SyncTasks, NEW i \in RepoItems, ItemClashes(t, i) PROVE Goal
  <2> DEFINE C == IF conflicts[i].open = 0 THEN task[t].clash \cup {i} ELSE task[t].clash
  <2>1. /\ task'[t].new = task[t].new /\ task'[t].clash = C /\ task'[t].hash = task[t].hash
        /\ \A u \in SyncTasks \ {t} : task'[u] = task[u]
    BY <1>8, <1>a DEF ItemClashes
  <2>2. C \subseteq task[t].clash \cup {x \in {i} : conflicts[i].open = 0} /\ conflicts' = conflicts
    BY <1>8 DEF ItemClashes
  <2> HIDE DEF C, TaskInfo
  <2> QED BY <1>c, <2>1, <2>2
<1>9. ASSUME NEW t \in SyncTasks, NEW i \in RepoItems, ItemUpToDate(t, i) PROVE Goal
  BY <1>9, <1>a, <1>b, <1>e DEF ItemUpToDate
<1>10. ASSUME NEW t \in SyncTasks, NEW i \in RepoItems, ItemCopied(t, i) PROVE Goal
  <2>1. /\ task'[t].new = task[t].new \cup {i} /\ task'[t].clash = task[t].clash
        /\ task'[t].hash = task[t].hash
        /\ \A u \in SyncTasks \ {t} : task'[u] = task[u]
    BY <1>10, <1>a DEF ItemCopied
  <2> HIDE DEF TaskInfo
  <2> QED BY <1>10, <1>c, <2>1
<1>11. ASSUME NEW t \in SyncTasks, NEW i \in RepoItems, ItemCopyFails(t, i) PROVE Goal
  BY <1>11, <1>a, <1>b, <1>e DEF ItemCopyFails
<1>12. ASSUME NEW t \in SyncTasks, CommitItems(t) PROVE Goal
  BY <1>12, <1>e, CommitFields DEF GitInv
<1>13. ASSUME NEW t \in SyncTasks, FinishSync(t) PROVE Goal
  BY <1>13, <1>a, <1>b, <1>e DEF FinishSync
<1>14. ASSUME WorkerLoopEnds PROVE Goal
  BY <1>14, <1>a, <1>c DEF WorkerLoopEnds, Die
<1>15. ASSUME PortalRestart PROVE Goal
  BY <1>15, <1>a, <1>c DEF PortalRestart, Die
<1>16. ASSUME NEW i \in RepoItems, ResolveLocal(i) PROVE Goal
  BY <1>16, <1>d DEF ResolveLocal
<1>17. ASSUME NEW i \in RepoItems, ResolveGit(i) PROVE Goal
  BY <1>17, <1>d DEF ResolveGit
<1>18. ASSUME ResolveGitCommit PROVE Goal
  BY <1>18, <1>d DEF ResolveGitCommit
<1>19. ASSUME NEW c \in {"disabled", "enabled"}, NEW newUrl \in BOOLEAN, SaveConfig(c, newUrl) PROVE Goal
  BY <1>19, <1>d DEF SaveConfig
<1>20. ASSUME RegenerateKey PROVE Goal
  BY <1>20, <1>d DEF RegenerateKey
<1>21. ASSUME DeleteClone PROVE Goal
  BY <1>21, <1>d DEF DeleteClone
<1>22. ASSUME DeleteConfig PROVE Goal
  BY <1>22, <1>d DEF DeleteConfig
<1>23. ASSUME Push PROVE Goal
  BY <1>23, <1>d DEF Push
<1>24. ASSUME NEW i \in RepoItems, Upload(i) PROVE Goal
  BY <1>24, <1>d DEF Upload
<1>25. ASSUME NEW i \in RepoItems, Remove(i) PROVE Goal
  BY <1>25, <1>d DEF Remove
<1> HIDE DEF Goal
<1>30. Goal
  BY <1>0, <1>1, <1>2, <1>3, <1>4, <1>5, <1>6, <1>7, <1>8, <1>9, <1>10, <1>11, <1>12, <1>13, <1>14, <1>15, <1>16, <1>17, <1>18, <1>19, <1>20, <1>21, <1>22, <1>23, <1>24, <1>25
     DEF GitNext, SyncStep
<1> QED BY <1>30 DEF Goal

\* A sources row is written by the commit of a sync or of a resolution only.
LEMMA StepSources ==
  ASSUME GitInv, GitNext
  PROVE  \A j \in RepoItems :
           \/ sources'[j] = sources[j]
           \/ \E t \in SyncTasks : j \in task[t].new /\ sources'[j] = task[t].hash
           \/ /\ resolving # None /\ resolving.applied
              /\ j = resolving.row.item /\ sources'[j] = resolving.row.hash
<1> DEFINE Goal == \A j \in RepoItems :
           \/ sources'[j] = sources[j]
           \/ \E t \in SyncTasks : j \in task[t].new /\ sources'[j] = task[t].hash
           \/ /\ resolving # None /\ resolving.applied
              /\ j = resolving.row.item /\ sources'[j] = resolving.row.hash
<1>0. GitNext
  OBVIOUS
<1>a. sources \in [RepoItems -> GitCommits \cup {None}]
  BY DEF GitInv, GitTypeOK
<1>d. ASSUME sources' = sources PROVE Goal
  BY <1>d
<1> USE DEF gitRows
<1>1. ASSUME NEW h \in Hosts, TriggerQueued(h) PROVE Goal
  BY <1>1, <1>d DEF TriggerQueued
<1>2. ASSUME NEW h \in Hosts, NEW t \in SyncTasks, TriggerStarted(h, t) PROVE Goal
  BY <1>2, <1>d DEF TriggerStarted
<1>3. ASSUME NEW t \in SyncTasks, TakeLock(t) PROVE Goal
  BY <1>3, <1>d DEF TakeLock
<1>4. ASSUME NEW t \in SyncTasks, ReadConfig(t) PROVE Goal
  BY <1>4, <1>d DEF ReadConfig
<1>5. ASSUME NEW t \in SyncTasks, FetchRepo(t) PROVE Goal
  BY <1>5, <1>d DEF FetchRepo
<1>6. ASSUME NEW t \in SyncTasks, FetchFails(t) PROVE Goal
  BY <1>6, <1>d DEF FetchFails
<1>7. ASSUME NEW t \in SyncTasks, Collect(t) PROVE Goal
  BY <1>7, <1>d DEF Collect
<1>8. ASSUME NEW t \in SyncTasks, NEW i \in RepoItems, ItemClashes(t, i) PROVE Goal
  BY <1>8, <1>d DEF ItemClashes
<1>9. ASSUME NEW t \in SyncTasks, NEW i \in RepoItems, ItemUpToDate(t, i) PROVE Goal
  BY <1>9, <1>d DEF ItemUpToDate
<1>10. ASSUME NEW t \in SyncTasks, NEW i \in RepoItems, ItemCopied(t, i) PROVE Goal
  BY <1>10, <1>d DEF ItemCopied
<1>11. ASSUME NEW t \in SyncTasks, NEW i \in RepoItems, ItemCopyFails(t, i) PROVE Goal
  BY <1>11, <1>d DEF ItemCopyFails
<1>12. ASSUME NEW t \in SyncTasks, CommitItems(t) PROVE Goal
  BY <1>12 DEF CommitItems
<1>13. ASSUME NEW t \in SyncTasks, FinishSync(t) PROVE Goal
  BY <1>13, <1>d DEF FinishSync
<1>14. ASSUME WorkerLoopEnds PROVE Goal
  BY <1>14, <1>d DEF WorkerLoopEnds
<1>15. ASSUME PortalRestart PROVE Goal
  BY <1>15, <1>d DEF PortalRestart
<1>16. ASSUME NEW i \in RepoItems, ResolveLocal(i) PROVE Goal
  BY <1>16, <1>d DEF ResolveLocal
<1>17. ASSUME NEW i \in RepoItems, ResolveGit(i) PROVE Goal
  BY <1>17, <1>d DEF ResolveGit
<1>18. ASSUME ResolveGitCommit PROVE Goal
  BY <1>18, <1>a DEF ResolveGitCommit
<1>19. ASSUME NEW c \in {"disabled", "enabled"}, NEW newUrl \in BOOLEAN, SaveConfig(c, newUrl) PROVE Goal
  BY <1>19, <1>d DEF SaveConfig
<1>20. ASSUME RegenerateKey PROVE Goal
  BY <1>20, <1>d DEF RegenerateKey
<1>21. ASSUME DeleteClone PROVE Goal
  BY <1>21, <1>d DEF DeleteClone
<1>22. ASSUME DeleteConfig PROVE Goal
  BY <1>22, <1>d DEF DeleteConfig
<1>23. ASSUME Push PROVE Goal
  BY <1>23, <1>d DEF Push
<1>24. ASSUME NEW i \in RepoItems, Upload(i) PROVE Goal
  BY <1>24, <1>d DEF Upload
<1>25. ASSUME NEW i \in RepoItems, Remove(i) PROVE Goal
  BY <1>25, <1>d DEF Remove
<1> HIDE DEF Goal
<1>30. Goal
  BY <1>0, <1>1, <1>2, <1>3, <1>4, <1>5, <1>6, <1>7, <1>8, <1>9, <1>10, <1>11, <1>12, <1>13, <1>14, <1>15, <1>16, <1>17, <1>18, <1>19, <1>20, <1>21, <1>22, <1>23, <1>24, <1>25
     DEF GitNext, SyncStep
<1> QED BY <1>30 DEF Goal

\* What waits for its commit was copied, after a step.
LEMMA StepBacked == GitInv /\ [GitNext]_gitVars => Backed'
<1>0. SUFFICES ASSUME GitInv, GitNext PROVE Backed'
  BY DEF gitVars, GitInv, Backed, SourcesHonest
<1>t. GitTypeOK' /\ GitTypeOK /\ Ordered /\ Backed
  BY <1>0, StepTypes DEF GitInv
<1>a. /\ \A j \in RepoItems : copied[j] \in Nat /\ copied'[j] \in Nat /\ copied'[j] >= copied[j]
      /\ clone # None => clone.at \in Nat
      /\ \A t \in SyncTasks : task[t].hash # None => task[t].hash \in Nat
      /\ \A t \in SyncTasks : task'[t].hash # None => task'[t].hash \in Nat
      /\ \A j \in RepoItems : sources[j] # None => sources[j] \in Nat
      /\ resolving # None => resolving.row.hash \in Nat
      /\ None \notin Nat
  <2>1. \A j \in RepoItems : copied[j] \in Nat /\ copied'[j] \in Nat
    BY <1>t, GitAssumption DEF GitTypeOK, GitCommits
  <2>2. clone # None => clone.at \in Nat
    BY <1>t, GitAssumption DEF GitTypeOK, GitCommits
  <2>3. /\ \A t \in SyncTasks : task[t].hash \in GitCommits \cup {None}
        /\ \A t \in SyncTasks : task'[t].hash \in GitCommits \cup {None}
    BY <1>t DEF GitTypeOK, TaskInfo
  <2>4. \A j \in RepoItems : sources[j] \in GitCommits \cup {None}
    BY <1>t DEF GitTypeOK
  <2>5. resolving # None => resolving.row.hash \in GitCommits
    BY <1>t DEF GitTypeOK, ResolvingInfo, RowInfo
  <2>6. GitCommits \subseteq Nat /\ None \notin Nat
    BY GitAssumption DEF GitCommits
  <2> QED BY <1>0, <2>1, <2>2, <2>3, <2>4, <2>5, <2>6, CopiedGrows
<1>1. \A t \in SyncTasks, j \in RepoItems :
        j \in task'[t].todo \cup task'[t].new \cup task'[t].clash => task'[t].hash # None
  BY <1>0, StepSyncing
<1>2. ASSUME NEW t \in SyncTasks, NEW j \in RepoItems, j \in task'[t].new
      PROVE  copied'[j] >= task'[t].hash
  <2>1. CASE j \in task[t].new /\ task'[t].hash = task[t].hash
    <3>1. task[t].hash \in Nat /\ copied[j] >= task[t].hash
      BY <1>t, <1>a, <2>1 DEF Backed
    <3> QED BY <1>a, <2>1, <3>1
  <2>2. CASE ItemCopied(t, j)
    <3>1. clone # None /\ copied'[j] = clone.at
      BY <1>t, <2>2 DEF ItemCopied, GitTypeOK
    <3>2. task'[t].hash = task[t].hash
      BY <1>t, <2>2 DEF ItemCopied, GitTypeOK, Advance, TaskInfo
    <3>3. task[t].hash # None
      BY <1>1, <1>2, <3>2
    <3>4. task[t].hash <= clone.at
      BY <1>t, <3>1, <3>3 DEF Ordered, Reached
    <3> QED BY <1>a, <3>1, <3>2, <3>3, <3>4
  <2> QED BY <1>0, <1>2, <2>1, <2>2, StepPending
<1>3. ASSUME resolving' # None, resolving'.applied
      PROVE  copied'[resolving'.row.item] >= resolving'.row.hash
  <2>1. CASE resolving' = resolving
    <3>1. resolving.row.item \in RepoItems /\ copied[resolving.row.item] >= resolving.row.hash
      BY <1>t, <1>3, <2>1 DEF Backed, GitTypeOK, ResolvingInfo, RowInfo
    <3> QED BY <1>a, <1>3, <2>1, <3>1
  <2>2. CASE \E i \in RepoItems : \E r \in ConflictRows(i) :
               /\ resolving' \in ResolvingInfo /\ resolving'.row = r
               /\ resolving'.applied => clone # None /\ copied'[i] = clone.at
    <3>0. PICK i \in RepoItems : \E r \in ConflictRows(i) :
               resolving'.row = r /\ clone # None /\ copied'[i] = clone.at
      BY <1>3, <2>2
    <3>1. PICK r \in ConflictRows(i) :
               resolving'.row = r /\ clone # None /\ copied'[i] = clone.at
      BY <3>0
    <3>2. r \in RowInfo /\ r.item = i /\ Reached(r.hash)
      BY <1>t, RowsKnown
    <3>3. r.hash \in Nat /\ r.hash <= clone.at
      BY <3>1, <3>2, GitAssumption DEF RowInfo, GitCommits, Reached
    <3> QED BY <1>a, <3>1, <3>2, <3>3
  <2> QED BY <1>0, <1>3, <2>1, <2>2, StepResolving
<1>4. ASSUME NEW j \in RepoItems, sources'[j] # None
      PROVE  copied'[j] >= sources'[j]
  <2>1. CASE sources'[j] = sources[j]
    <3>1. copied[j] >= sources[j]
      BY <1>t, <1>4, <2>1 DEF Backed, SourcesHonest
    <3> QED BY <1>a, <1>4, <2>1, <3>1
  <2>2. CASE \E t \in SyncTasks : j \in task[t].new /\ sources'[j] = task[t].hash
    <3>1. PICK t \in SyncTasks : j \in task[t].new /\ sources'[j] = task[t].hash
      BY <2>2
    <3>2. copied[j] >= task[t].hash
      BY <1>t, <3>1 DEF Backed
    <3> QED BY <1>a, <1>4, <3>1, <3>2
  <2>3. CASE /\ resolving # None /\ resolving.applied
             /\ j = resolving.row.item /\ sources'[j] = resolving.row.hash
    <3>1. copied[j] >= resolving.row.hash
      BY <1>t, <2>3 DEF Backed
    <3> QED BY <1>a, <2>3, <3>1
  <2> QED BY <1>0, <2>1, <2>2, <2>3, StepSources
<1> QED BY <1>1, <1>2, <1>3, <1>4 DEF Backed, SourcesHonest
-----------------------------------------------------------------------------
(***************************************************************************)
(* Without a worker there is one lock, and who holds it is alone.          *)
(***************************************************************************)
\* Two syncs of the portal are never in their item loops at the same time.
LEMMA OneInItems ==
  ASSUME GitInv, ~deployment.celery, NEW t \in SyncTasks, NEW u \in SyncTasks,
         task[t].pc = "items", task[u].pc = "items"
  PROVE  t = u
  BY DEF GitInv, Excluded, Syncing

\* The locks, and the conflict rows they protect, after a step.
LEMMA StepExcluded == GitInv /\ [GitNext]_gitVars => Excluded'
<1>0. SUFFICES ASSUME GitInv, GitNext PROVE Excluded'
  BY DEF gitVars, GitInv, Excluded, OneOpenConflict
<1>t. GitTypeOK' /\ GitTypeOK /\ Excluded
  BY <1>0, StepTypes DEF GitInv
<1>a. deployment' = deployment
  <2>1. ASSUME NEW t \in SyncTasks, SyncStep(t) PROVE deployment' = deployment
    <3>1. CASE \E i \in RepoItems : \/ ItemClashes(t, i) \/ ItemUpToDate(t, i)
                                    \/ ItemCopied(t, i) \/ ItemCopyFails(t, i)
      BY <3>1 DEF ItemClashes, ItemUpToDate, ItemCopied, ItemCopyFails, outside, world
    <3>2. CASE TakeLock(t) \/ ReadConfig(t) \/ FetchRepo(t) \/ FetchFails(t)
      BY <3>2 DEF TakeLock, ReadConfig, FetchRepo, FetchFails, outside, world
    <3>3. CASE Collect(t) \/ CommitItems(t) \/ FinishSync(t)
      BY <3>3 DEF Collect, CommitItems, FinishSync, outside, world
    <3> QED BY <2>1, <3>1, <3>2, <3>3 DEF SyncStep
  <2>2. ASSUME NEW h \in Hosts, TriggerQueued(h) \/ \E t \in SyncTasks : TriggerStarted(h, t)
        PROVE  deployment' = deployment
    BY <2>2 DEF TriggerQueued, TriggerStarted, outside, world
  <2>3. CASE WorkerLoopEnds \/ PortalRestart
    BY <2>3 DEF WorkerLoopEnds, PortalRestart, outside, world
  <2>4. ASSUME NEW i \in RepoItems, ResolveLocal(i) \/ ResolveGit(i) \/ Upload(i) \/ Remove(i)
        PROVE  deployment' = deployment
    BY <2>4 DEF ResolveLocal, ResolveGit, Upload, Remove, outside, world
  <2>5. CASE ResolveGitCommit \/ RegenerateKey \/ DeleteClone \/ DeleteConfig \/ Push
    BY <2>5 DEF ResolveGitCommit, RegenerateKey, DeleteClone, DeleteConfig, Push, outside, world
  <2>6. ASSUME NEW c \in {"disabled", "enabled"}, NEW newUrl \in BOOLEAN, SaveConfig(c, newUrl)
        PROVE  deployment' = deployment
    BY <2>6 DEF SaveConfig, outside, world
  <2> QED BY <1>0, <2>1, <2>2, <2>3, <2>4, <2>5, <2>6 DEF GitNext
<1>b. \A j \in RepoItems : conflicts[j].open \in Nat /\ conflicts'[j].open \in Nat
  BY <1>t DEF GitTypeOK, ConflictInfo
<1>1. \A u \in SyncTasks : task'[u].pc \in Syncing => syncLock'[task'[u].host] = u
  BY <1>0, StepSyncing
<1>2. \A u \in SyncTasks : task'[u].new # {} \/ task'[u].clash # {} => task'[u].pc = "items"
  BY <1>0, StepSyncing
<1>3. ~deployment'.celery => \A u \in SyncTasks : task'[u].host = "portal"
  BY <1>0, <1>a, StepHosts
<1>4. ASSUME ~deployment'.celery, NEW u \in SyncTasks, NEW j \in RepoItems, j \in task'[u].clash
      PROVE  conflicts'[j].open = 0
  <2>1. CASE j \in task[u].clash /\ ~CommitItems(u)
    <3>1. conflicts[j].open = 0 /\ task[u].pc = "items"
      BY <1>t, <1>a, <1>4, <2>1 DEF Excluded
    <3>2. ASSUME NEW t \in SyncTasks, CommitItems(t) PROVE FALSE
      <4>1. task[t].pc = "items"
        BY <3>2 DEF CommitItems
      <4> QED BY <1>0, <1>a, <1>4, <2>1, <3>1, <3>2, <4>1, OneInItems
    <3>3. conflicts'[j].open <= conflicts[j].open
      BY <1>0, <3>2, StepConflicts
    <3> QED BY <1>b, <3>1, <3>3
  <2>2. CASE conflicts[j].open = 0 /\ conflicts' = conflicts
    BY <2>2
  <2> QED BY <1>0, <1>4, <2>1, <2>2, StepPending
<1>5. ASSUME ~deployment'.celery, NEW j \in RepoItems
      PROVE  conflicts'[j].open <= 1
  <2>0. conflicts[j].open <= 1
    BY <1>t, <1>a, <1>5 DEF Excluded, OneOpenConflict
  <2>1. ASSUME NEW t \in SyncTasks, CommitItems(t) PROVE conflicts'[j].open <= 1
    <3>1. CASE j \in task[t].clash
      <4>1. conflicts[j].open = 0
        BY <1>t, <1>a, <1>5, <3>1 DEF Excluded
      <4>2. conflicts'[j].open = conflicts[j].open + 1
        <5>1. conflicts'[j] = [conflicts[j] EXCEPT !.open = @ + 1, !.hash = task[t].hash]
          BY <2>1, <3>1 DEF CommitItems
        <5>2. conflicts[j] \in ConflictInfo
          BY <1>t DEF GitTypeOK
        <5> QED BY <5>1, <5>2 DEF ConflictInfo
      <4> QED BY <4>1, <4>2
    <3>2. CASE j \notin task[t].clash
      BY <2>0, <2>1, <3>2 DEF CommitItems
    <3> QED BY <3>1, <3>2
  <2>2. CASE conflicts'[j].open <= conflicts[j].open
    BY <1>b, <2>0, <2>2
  <2> QED BY <1>0, <2>1, <2>2, StepConflicts
<1> QED BY <1>1, <1>2, <1>3, <1>4, <1>5 DEF Excluded, OneOpenConflict
-----------------------------------------------------------------------------
\* Nothing is remembered at the start.
LEMMA InitInv == GitInit => GitInv
<1>0. SUFFICES ASSUME GitInit PROVE GitInv
  OBVIOUS
<1>1. GitTypeOK
  <2>1. task \in [SyncTasks -> TaskInfo]
    BY <1>0, TaskFields DEF GitInit
  <2>2. conflicts \in [RepoItems -> ConflictInfo]
    BY <1>0 DEF GitInit, ConflictInfo
  <2>3. deployment \in Deployments /\ deployment.restarts \in Nat /\ deployment.moves \in Nat
    BY <1>0, GitAssumption DEF GitInit
  <2>4. remote \in [head : GitCommits, items : SUBSET RepoItems]
    BY <1>0, GitAssumption DEF GitInit, GitCommits
  <2>5. restarts \in 0..deployment.restarts /\ moves \in 0..deployment.moves
    BY <1>0, <2>3 DEF GitInit
  <2>6. /\ clone = None /\ resolving = None
        /\ target \in [RepoItems -> GitCommits \cup {None, Uploaded}]
        /\ sources \in [RepoItems -> GitCommits \cup {None}]
        /\ config \in {"absent", "disabled", "enabled", "deleting"}
        /\ syncLock \in [Hosts -> SyncTasks \cup {None}]
        /\ queued \in [Hosts -> BOOLEAN]
        /\ syncLog \in [SyncTasks -> {"none", "running", "closed"}]
        /\ copied \in [RepoItems -> GitCommits \cup {0}]
    BY <1>0 DEF GitInit
  <2> QED BY <2>1, <2>2, <2>3, <2>4, <2>5, <2>6 DEF GitTypeOK
<1>a. \A t \in SyncTasks :
        /\ task[t].pc = "unused" /\ task[t].host = "portal" /\ task[t].hash = None
        /\ task[t].todo = {} /\ task[t].new = {} /\ task[t].clash = {}
  BY <1>0 DEF GitInit, NoTask
<1>b. \A i \in RepoItems : /\ conflicts[i].open = 0 /\ conflicts[i].past = {}
                           /\ sources[i] = None /\ copied[i] = 0
  BY <1>0 DEF GitInit
<1>c. clone = None /\ resolving = None /\ remote.head = 1
  BY <1>0 DEF GitInit
<1>2. Ordered
  BY <1>a, <1>b, <1>c DEF Ordered, Reached
<1>3. Backed
  BY <1>a, <1>b, <1>c DEF Backed, SourcesHonest
<1>4. Excluded
  BY <1>a, <1>b DEF Excluded, OneOpenConflict, Syncing
<1> QED BY <1>1, <1>2, <1>3, <1>4 DEF GitInv

\* The invariant is inductive.
THEOREM Invariance == GitSpec => []GitInv
<1>1. GitInv /\ [GitNext]_gitVars => GitInv'
  BY StepTypes, StepOrdered, StepBacked, StepExcluded DEF GitInv
<1> QED BY <1>1, InitInv, PTL DEF GitSpec

\* SyncSound, for every number of tasks, items, commits, restarts and admin
\* operations: git_sync_sources never names a version newer than what was copied,
\* and without a worker an item has at most one open conflict.
THEOREM SyncSoundSafe == GitSpec => []SyncSound
<1>1. GitInv => SyncSound
  BY DEF GitInv, SyncSound, Backed, Excluded
<1> QED BY <1>1, Invariance, PTL

\* A sync leaves an uploaded item alone.
LEMMA StepLocal ==
  ASSUME GitInv, GitNext, NEW i0 \in RepoItems,
         target[i0] = Uploaded, sources[i0] = None, target'[i0] \in GitCommits
  PROVE  resolving = None /\ resolving' # None /\ resolving'.row.item = i0
<1> DEFINE Goal == \A j \in RepoItems :
                     target[j] = Uploaded /\ sources[j] = None /\ target'[j] \in GitCommits
                       => resolving = None /\ resolving' # None /\ resolving'.row.item = j
<1>0. GitNext
  OBVIOUS
<1>a. /\ target \in [RepoItems -> GitCommits \cup {None, Uploaded}]
      /\ Uploaded \notin GitCommits /\ None \notin GitCommits /\ Uploaded # None
  BY GitAssumption DEF GitInv, GitTypeOK, GitCommits
<1>d. ASSUME target' = target PROVE Goal
  BY <1>a, <1>d
<1>e. ASSUME NEW i \in RepoItems, \A j \in RepoItems : j # i => target'[j] = target[j],
             \/ target'[i] \notin GitCommits
             \/ resolving = None /\ resolving' # None /\ resolving'.row.item = i
      PROVE  Goal
  BY <1>a, <1>e
<1> USE DEF dirs
<1>1. ASSUME NEW h \in Hosts, TriggerQueued(h) PROVE Goal
  BY <1>1, <1>d DEF TriggerQueued
<1>2. ASSUME NEW h \in Hosts, NEW t \in SyncTasks, TriggerStarted(h, t) PROVE Goal
  BY <1>2, <1>d DEF TriggerStarted
<1>3. ASSUME NEW t \in SyncTasks, TakeLock(t) PROVE Goal
  BY <1>3, <1>d DEF TakeLock
<1>4. ASSUME NEW t \in SyncTasks, ReadConfig(t) PROVE Goal
  BY <1>4, <1>d DEF ReadConfig
<1>5. ASSUME NEW t \in SyncTasks, FetchRepo(t) PROVE Goal
  BY <1>5, <1>d DEF FetchRepo
<1>6. ASSUME NEW t \in SyncTasks, FetchFails(t) PROVE Goal
  BY <1>6, <1>d DEF FetchFails
<1>7. ASSUME NEW t \in SyncTasks, Collect(t) PROVE Goal
  BY <1>7, <1>d DEF Collect
<1>8. ASSUME NEW t \in SyncTasks, NEW i \in RepoItems, ItemClashes(t, i) PROVE Goal
  BY <1>8, <1>d DEF ItemClashes
<1>9. ASSUME NEW t \in SyncTasks, NEW i \in RepoItems, ItemUpToDate(t, i) PROVE Goal
  BY <1>9, <1>d DEF ItemUpToDate
<1>10. ASSUME NEW t \in SyncTasks, NEW i \in RepoItems, ItemCopied(t, i) PROVE Goal
  BY <1>10, <1>a DEF ItemCopied
<1>11. ASSUME NEW t \in SyncTasks, NEW i \in RepoItems, ItemCopyFails(t, i) PROVE Goal
  BY <1>11, <1>a, GitAssumption DEF ItemCopyFails, CopyFails, GitCommits
<1>12. ASSUME NEW t \in SyncTasks, CommitItems(t) PROVE Goal
  BY <1>12, <1>d DEF CommitItems
<1>13. ASSUME NEW t \in SyncTasks, FinishSync(t) PROVE Goal
  BY <1>13, <1>d DEF FinishSync
<1>14. ASSUME WorkerLoopEnds PROVE Goal
  BY <1>14, <1>d DEF WorkerLoopEnds
<1>15. ASSUME PortalRestart PROVE Goal
  BY <1>15, <1>d DEF PortalRestart
<1>16. ASSUME NEW i \in RepoItems, ResolveLocal(i) PROVE Goal
  BY <1>16, <1>d DEF ResolveLocal
<1>17. ASSUME NEW i \in RepoItems, ResolveGit(i) PROVE Goal
  <2>1. PICK r \in ConflictRows(i) : ApplyGitVersion(r) \/ ApplyFails(r) \/ ApplyNothing(r)
    BY <1>17 DEF ResolveGit
  <2>2. r \in RowInfo /\ r.item = i
    BY <2>1, RowsKnown DEF GitInv
  <2>3. CASE ApplyNothing(r)
    BY <1>d, <2>3 DEF ApplyNothing
  <2>4. CASE ApplyGitVersion(r)
    <3>1. resolving = None /\ resolving' = [row |-> r, applied |-> TRUE]
      BY <1>17, <2>4 DEF ResolveGit, ApplyGitVersion
    <3>2. resolving' \in ResolvingInfo /\ resolving'.row.item = i
      BY <2>2, <3>1 DEF ResolvingInfo
    <3>3. resolving' # None
      BY <3>2, ResolvingAssumption
    <3>4. \A j \in RepoItems : j # i => target'[j] = target[j]
      BY <1>a, <2>2, <2>4 DEF ApplyGitVersion
    <3> QED BY <1>e, <3>1, <3>2, <3>3, <3>4
  <2>5. CASE ApplyFails(r)
    <3>1. \A j \in RepoItems : target'[j] \in {target[j], None}
      BY <1>a, <2>2, <2>5 DEF ApplyFails, CopyFails
    <3> QED BY <1>a, <3>1
  <2> QED BY <2>1, <2>3, <2>4, <2>5
<1>18. ASSUME ResolveGitCommit PROVE Goal
  BY <1>18, <1>d DEF ResolveGitCommit
<1>19. ASSUME NEW c \in {"disabled", "enabled"}, NEW newUrl \in BOOLEAN, SaveConfig(c, newUrl) PROVE Goal
  BY <1>19, <1>d DEF SaveConfig
<1>20. ASSUME RegenerateKey PROVE Goal
  BY <1>20, <1>d DEF RegenerateKey
<1>21. ASSUME DeleteClone PROVE Goal
  BY <1>21, <1>d DEF DeleteClone
<1>22. ASSUME DeleteConfig PROVE Goal
  BY <1>22, <1>d DEF DeleteConfig
<1>23. ASSUME Push PROVE Goal
  BY <1>23, <1>d DEF Push
<1>24. ASSUME NEW i \in RepoItems, Upload(i) PROVE Goal
  BY <1>24, <1>a DEF Upload
<1>25. ASSUME NEW i \in RepoItems, Remove(i) PROVE Goal
  BY <1>25, <1>a, <1>e DEF Remove
<1> HIDE DEF Goal
<1>30. Goal
  BY <1>0, <1>1, <1>2, <1>3, <1>4, <1>5, <1>6, <1>7, <1>8, <1>9, <1>10, <1>11, <1>12, <1>13, <1>14, <1>15, <1>16, <1>17, <1>18, <1>19, <1>20, <1>21, <1>22, <1>23, <1>24, <1>25
     DEF GitNext, SyncStep
<1> QED BY <1>30 DEF Goal

\* LocalKept: an uploaded item without a sources row becomes a git version only
\* by the resolution of a conflict about this very item.
THEOREM LocalKeptSafe == GitSpec => LocalKept
<1> DEFINE Kept == \A i \in RepoItems :
                     target[i] = Uploaded /\ sources[i] = None /\ target'[i] \in GitCommits
                       => resolving = None /\ resolving' # None /\ resolving'.row.item = i
<1>1. GitInv /\ [GitNext]_gitVars => [Kept]_gitVars
  BY StepLocal
<1> QED BY <1>1, Invariance, PTL DEF GitSpec, LocalKept
=============================================================================
