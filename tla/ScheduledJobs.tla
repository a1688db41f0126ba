--------------------------- MODULE ScheduledJobs ---------------------------
(***************************************************************************)
(* Scheduled jobs (backend/plus/scheduled_jobs): the rows, the dispatcher  *)
(* that starts what is due, the runs, and the calls of users and admins.   *)
(*                                                                         *)
(* Without Celery the portal's own loop dispatches and every run is an     *)
(* asyncio task of the portal.  With Celery, beat starts a dispatcher task *)
(* each minute, which may overlap with the one before, and runs wait in    *)
(* the broker for a worker.                                                *)
(*                                                                         *)
(* Each transaction is one action.  What a call read in one transaction    *)
(* and uses in a later one is in the call's record.  A cron expression is  *)
(* only told by whether the time it names has come.                        *)
(***************************************************************************)
EXTENDS Portal

CONSTANTS
  MaxSchedules,   \* bound: rows of scheduled_jobs ever inserted
  Editors,        \* requests of users and admins that can be in flight
  MaxDispatchers, \* bound: dispatcher tasks of Celery that can be in flight
  MaxRuns,        \* bound: runs queued
  HistoryLimits,  \* values of the setting scheduled_jobs.history_limit
  JobDeployments  \* see `sjDeployment'

ASSUME JobsAssumption ==
  /\ MaxSchedules \in Nat /\ MaxRuns \in Nat /\ MaxDispatchers \in Nat \ {0}
  /\ HistoryLimits \subseteq Nat \ {0}
  /\ JobDeployments \subseteq [celery : BOOLEAN, manual : BOOLEAN, editors : SUBSET Editors,
                               restarts : Nat, edits : Nat]
  /\ None \notin Nat

VARIABLES
  sjDeployment, \* chosen at the start: whether there is a Celery worker, whether
                \* anybody uses run_now, who edits, and bounds on the restarts
                \* and on the requests
  sjob,         \* scheduled_jobs
  gated,        \* the jobs with a row in scheduled_job_approval_status
  interval,     \* sync_interval of git_sync_configs: is there an automatic sync?
  edit,         \* requests between two of their transactions
  dispatch,     \* dispatchers between two of their transactions
  run,          \* the calls of _run_job_async, in the order they were queued
  history,      \* history[j]: scheduled_job_runs of j in the order of started_at
  limit,        \* the setting scheduled_jobs.history_limit
  edits,        \* how many requests there were
  sjRestarts,
  lost,         \* history: jobs a restart or the broker lost a queued or live run of
  newest        \* history: the run of j that was started last

sjVars == <<sjDeployment, sjob, gated, interval, edit, dispatch, run, history, limit,
            edits, sjRestarts, lost, newest>>
-----------------------------------------------------------------------------
Jobs == 1..MaxSchedules
Runs == 1..MaxRuns
Dispatchers == 1..MaxDispatchers
Kinds == {"power", "window", "stop", "playbook", "git"}

\* next_run_at: empty, ahead, or passed.
ScheduledJob ==
  [kind : Kinds, active : BOOLEAN, next : {"none", "future", "due"},
   status : {"none", "running", "ended"}, parent : Jobs \cup {None}]

Deleted == [kind |-> "deleted", active |-> FALSE, next |-> "none", status |-> "none",
            parent |-> None]

ASSUME RowAssumption == None \notin ScheduledJob \cup {Deleted}

Exists == {j \in Jobs : sjob[j] # None /\ sjob[j] # Deleted}
Fresh(j) == sjob[j] = None /\ \A i \in Jobs : i < j => sjob[i] # None
Parents == {j \in Exists : sjob[j].parent = None}
ChildrenOf(j) == {c \in Exists : sjob[c].parent = j}

NoEdit == [op |-> "idle", job |-> None, active |-> FALSE, todo |-> {}]
NoDispatch == [pc |-> "idle", todo |-> {}, job |-> None]
NoRun == [pc |-> "unused", job |-> None]

SjInit ==
  /\ sjDeployment \in JobDeployments
  /\ sjob = [j \in Jobs |-> None]
  /\ gated = {}
  /\ interval = FALSE
  /\ edit = [e \in Editors |-> NoEdit]
  /\ dispatch = [d \in Dispatchers |-> NoDispatch]
  /\ run = [k \in Runs |-> NoRun]
  /\ history = [j \in Jobs |-> <<>>]
  /\ limit \in HistoryLimits
  /\ edits = 0
  /\ sjRestarts = 0
  /\ lost = {}
  /\ newest = [j \in Jobs |-> None]

\* Groups of variables an action leaves alone.
sjRows == <<sjob, gated, interval>>
sjRuns == <<run, history, limit, lost, newest>>
sjWorld == <<sjDeployment, edits, sjRestarts>>

\* _compute_next_run, which is asked only for active jobs.
NextRun(active) == IF active THEN "future" ELSE "none"

Set(j, row) == sjob' = [sjob EXCEPT ![j] = row]

BeginEdit(e, c) ==
  /\ e \in sjDeployment.editors
  /\ edit[e] = NoEdit
  /\ edits < sjDeployment.edits
  /\ edits' = edits + 1
  /\ edit' = [edit EXCEPT ![e] = c]

GoOn(e, c) == edit' = [edit EXCEPT ![e] = c]
EndEdit(e) == GoOn(e, NoEdit)
-----------------------------------------------------------------------------
(***************************************************************************)
(* Requests: create, update, toggle, delete.                               *)
(***************************************************************************)
NewJob(kind, active, parent) ==
  [kind |-> kind, active |-> active, next |-> NextRun(active), status |-> "none",
   parent |-> parent]

\* POST: the row is committed, active, before the approval is asked for and
\* before the stop job of a time window is made.
CreateJob(e, j, kind, active) ==
  /\ kind \in {"power", "window", "playbook"}
  /\ Fresh(j)
  /\ BeginEdit(e, [NoEdit EXCEPT !.op = CASE kind = "window" -> "child"
                                          [] kind = "playbook" -> "gate"
                                          [] OTHER -> "idle",
                                 !.job = IF kind = "power" THEN None ELSE j,
                                 !.active = kind = "window" /\ active])
  /\ Set(j, NewJob(kind, active, None))
  /\ UNCHANGED <<gated, interval, dispatch, sjRuns, sjDeployment, sjRestarts>>

\* The approval row of a playbook job under a rule; after an exception, which is
\* swallowed, there is none.
GateJob(e, needed) ==
  /\ edit[e].op = "gate"
  /\ gated' = IF needed THEN gated \cup {edit[e].job} ELSE gated
  /\ EndEdit(e)
  /\ UNCHANGED <<sjob, interval, dispatch, sjRuns, sjWorld>>

CreateChild(e, c) ==
  /\ edit[e].op = "child"
  /\ Fresh(c)
  /\ Set(c, NewJob("stop", edit[e].active, edit[e].job))
  /\ EndEdit(e)
  /\ UNCHANGED <<gated, interval, dispatch, sjRuns, sjWorld>>

\* update_job and toggle_job start by reading the row.
ReadJob(e, j, op) ==
  /\ op \in {"update", "toggle"}
  /\ j \in Exists
  /\ BeginEdit(e, [NoEdit EXCEPT !.op = op, !.job = j, !.active = sjob[j].active])
  /\ UNCHANGED <<sjRows, dispatch, sjRuns, sjDeployment, sjRestarts>>

\* update_job: active is COALESCEd with the row, next_run_at is computed from
\* the row that was read.
Updated(j, active, read) ==
  [sjob[j] EXCEPT !.active = IF active = None THEN @ ELSE active,
                  !.next = NextRun(IF active = None THEN read ELSE active)]

\* With window_stop_cron in the body the child is updated afterwards.
UpdateJob(e, active, withChild) ==
  /\ edit[e].op = "update"
  /\ LET j == edit[e].job
         children == IF withChild THEN ChildrenOf(j) ELSE {}
     IN /\ sjob' = IF j \in Exists THEN [sjob EXCEPT ![j] = Updated(j, active, edit[e].active)]
                   ELSE sjob
        /\ IF j \in Exists /\ children # {}
           THEN \E c \in children :
                  GoOn(e, [NoEdit EXCEPT !.op = "update", !.job = c, !.active = sjob[c].active])
           ELSE EndEdit(e)
  /\ UNCHANGED <<gated, interval, dispatch, sjRuns, sjWorld>>

\* toggle_job: the child follows in the same transaction.
ToggleJob(e) ==
  /\ edit[e].op = "toggle"
  /\ LET j == edit[e].job
         active == ~edit[e].active
     IN sjob' = [i \in Jobs |->
          IF i \in Exists /\ (i = j \/ sjob[i].parent = j)
          THEN [sjob[i] EXCEPT !.active = active, !.next = NextRun(active)]
          ELSE sjob[i]]
  /\ EndEdit(e)
  /\ UNCHANGED <<gated, interval, dispatch, sjRuns, sjWorld>>

\* Only parents are deleted, and nothing that refers to them.
DeleteSchedule(e, S) ==
  /\ S # {} /\ S \subseteq Parents
  /\ BeginEdit(e, NoEdit)
  /\ sjob' = [j \in Jobs |-> IF j \in S THEN Deleted ELSE sjob[j]]
  /\ UNCHANGED <<gated, interval, dispatch, sjRuns, sjDeployment, sjRestarts>>

DeleteJob(e, j) == DeleteSchedule(e, {j})

\* S are the jobs of the user ...
UserDeleted(e, S) == DeleteSchedule(e, S)

\* ... or those that name the node.
NodeDeleted(e, S) ==
  /\ \A j \in S : j \in Parents => sjob[j].kind \in {"power", "window", "playbook"}
  /\ DeleteSchedule(e, S)

\* on_playbook_deleted: the active jobs are read ...
PlaybookDeleted(e) ==
  /\ BeginEdit(e, [NoEdit EXCEPT !.op = "deactivate",
                     !.todo = {j \in Exists : sjob[j].kind = "playbook" /\ sjob[j].active}])
  /\ UNCHANGED <<sjRows, dispatch, sjRuns, sjDeployment, sjRestarts>>

\* ... and switched off.
DeactivateJobs(e) ==
  /\ edit[e].op = "deactivate"
  /\ sjob' = [j \in Jobs |->
       IF j \in Exists \cap edit[e].todo
       THEN [sjob[j] EXCEPT !.active = FALSE, !.next = "none"] ELSE sjob[j]]
  /\ EndEdit(e)
  /\ UNCHANGED <<gated, interval, dispatch, sjRuns, sjWorld>>

\* A rule change or the workflow switched on suspends active jobs; switched off,
\* it lets them go.  Module Approvals says when.
ApprovalRows(e, S) ==
  /\ S \subseteq {j \in Exists : sjob[j].active}
  /\ BeginEdit(e, NoEdit)
  /\ gated' = IF S = {} THEN {} ELSE gated \cup S
  /\ UNCHANGED <<sjob, interval, dispatch, sjRuns, sjDeployment, sjRestarts>>

\* Mutant of Newest: the history keeps its oldest entries.
Oldest(s, n) == IF Len(s) > n THEN SubSeq(s, 1, n) ELSE s

\* set_history_limit prunes every job's runs.
Newest(s, n) == IF Len(s) > n THEN SubSeq(s, Len(s) - n + 1, Len(s)) ELSE s

SetHistoryLimit(e, n) ==
  /\ BeginEdit(e, NoEdit)
  /\ limit' = n
  /\ history' = [j \in Jobs |-> Newest(history[j], n)]
  /\ UNCHANGED <<sjRows, dispatch, run, lost, newest, sjDeployment, sjRestarts>>
-----------------------------------------------------------------------------
(***************************************************************************)
(* git_sync: upsert_config commits the interval and only then brings the   *)
(* job of its repo_type into line.                                         *)
(***************************************************************************)
GitJobs == {j \in Exists : sjob[j].kind = "git"}

SaveInterval(e, on) ==
  /\ BeginEdit(e, [NoEdit EXCEPT !.op = "git", !.active = on])
  /\ interval' = on
  /\ UNCHANGED <<sjob, gated, dispatch, sjRuns, sjDeployment, sjRestarts>>

\* _sync_scheduled_job looks for the job ...
FindGitJob(e) ==
  /\ edit[e].op = "git"
  /\ IF GitJobs = {}
     THEN IF edit[e].active THEN GoOn(e, [edit[e] EXCEPT !.op = "newgit"]) ELSE EndEdit(e)
     ELSE \E j \in GitJobs :
            IF edit[e].active # sjob[j].active
            THEN GoOn(e, [edit[e] EXCEPT !.op = "oldgit", !.job = j]) ELSE EndEdit(e)
  /\ UNCHANGED <<sjRows, dispatch, sjRuns, sjWorld>>

\* ... creates it ...
CreateGitJob(e, j) ==
  /\ edit[e].op = "newgit"
  /\ Fresh(j)
  /\ Set(j, NewJob("git", TRUE, None))
  /\ EndEdit(e)
  /\ UNCHANGED <<gated, interval, dispatch, sjRuns, sjWorld>>

\* ... or switches it on or off.
UpdateGitJob(e) ==
  /\ edit[e].op = "oldgit"
  /\ LET j == edit[e].job
     IN sjob' = IF j \in Exists THEN [sjob EXCEPT ![j] = Updated(j, edit[e].active, FALSE)]
                ELSE sjob
  /\ EndEdit(e)
  /\ UNCHANGED <<gated, interval, dispatch, sjRuns, sjWorld>>
-----------------------------------------------------------------------------
(***************************************************************************)
(* Time, the dispatcher and run_now.                                       *)
(***************************************************************************)
TimePasses(j) ==
  /\ j \in Exists /\ sjob[j].next = "future"
  /\ Set(j, [sjob[j] EXCEPT !.next = "due"])
  /\ UNCHANGED <<gated, interval, edit, dispatch, sjRuns, sjWorld>>

\* Mutant of Due: the overlap guard of the query is forgotten.
DueOverlapping == {j \in Exists : sjob[j].active /\ sjob[j].next = "due"}

\* get_due_jobs.
Due == {j \in Exists : sjob[j].active /\ sjob[j].next = "due" /\ sjob[j].status # "running"}

\* The portal has one loop; beat starts a task whether the last one ended or not.
GetDueJobs(d) ==
  /\ dispatch[d] = NoDispatch
  /\ ~sjDeployment.celery => d = 1
  /\ Due # {}
  /\ dispatch' = [dispatch EXCEPT ![d] = [NoDispatch EXCEPT !.pc = "filter", !.todo = Due]]
  /\ UNCHANGED <<sjRows, edit, sjRuns, sjWorld>>

\* get_approval_blocked_scheduled_job_ids; a failed lookup blocks nothing.
FilterBlocked(d, failed) ==
  /\ dispatch[d].pc = "filter"
  /\ LET todo == IF failed THEN dispatch[d].todo ELSE dispatch[d].todo \ gated
     IN dispatch' = [dispatch EXCEPT ![d] =
          IF todo = {} THEN NoDispatch ELSE [@ EXCEPT !.pc = "loop", !.todo = todo]]
  /\ UNCHANGED <<sjRows, edit, sjRuns, sjWorld>>

\* advance_next_run.
AdvanceNextRun(d, j) ==
  /\ dispatch[d].pc = "loop"
  /\ j \in dispatch[d].todo
  /\ sjob' = IF j \in Exists
             THEN [sjob EXCEPT ![j].next = "future", ![j].status = "running"] ELSE sjob
  /\ dispatch' = [dispatch EXCEPT ![d].pc = "queue", ![d].job = j, ![d].todo = @ \ {j}]
  /\ UNCHANGED <<gated, interval, edit, sjRuns, sjWorld>>

QueueRun(j) ==
  \E k \in Runs :
    /\ run[k] = NoRun
    /\ \A i \in Runs : i < k => run[i] # NoRun
    /\ run' = [run EXCEPT ![k] = [pc |-> "queued", job |-> j]]

StartRun(d) ==
  /\ dispatch[d].pc = "queue"
  /\ QueueRun(dispatch[d].job)
  /\ dispatch' = [dispatch EXCEPT ![d] =
       IF @.todo = {} THEN NoDispatch ELSE [@ EXCEPT !.pc = "loop", !.job = None]]
  /\ UNCHANGED <<sjRows, edit, history, limit, lost, newest, sjWorld>>

\* The broker refuses: the exception ends the dispatcher, the job it advanced
\* stays running and the rest of the list waits for the next minute.
BrokerFails(d) ==
  /\ sjDeployment.celery
  /\ dispatch[d].pc = "queue"
  /\ lost' = lost \cup {dispatch[d].job}
  /\ dispatch' = [dispatch EXCEPT ![d] = NoDispatch]
  /\ UNCHANGED <<sjRows, edit, run, history, limit, newest, sjWorld>>

\* run_now: refused while the row says running, which run_now itself never writes.
RunNow(j) ==
  /\ sjDeployment.manual
  /\ j \in Exists /\ sjob[j].status # "running"
  /\ QueueRun(j)
  /\ UNCHANGED <<sjRows, edit, dispatch, history, limit, lost, newest, sjWorld>>
-----------------------------------------------------------------------------
(***************************************************************************)
(* _run_job_async.                                                         *)
(***************************************************************************)
FindJob(k) ==
  /\ run[k].pc = "queued"
  /\ run' = [run EXCEPT ![k].pc = IF run[k].job \in Exists THEN "found" ELSE "done"]
  /\ UNCHANGED <<sjRows, edit, dispatch, history, limit, lost, newest, sjWorld>>

CreateRun(k) ==
  /\ run[k].pc = "found"
  /\ run' = [run EXCEPT ![k].pc = "executing"]
  /\ history' = [history EXCEPT ![run[k].job] = Append(@, [run |-> k, status |-> "running"])]
  /\ newest' = [newest EXCEPT ![run[k].job] = k]
  /\ UNCHANGED <<sjRows, edit, dispatch, limit, lost, sjWorld>>

Ended(s, k) ==
  [n \in DOMAIN s |-> IF s[n].run = k THEN [s[n] EXCEPT !.status = "ended"] ELSE s[n]]

\* Mutant of FinishRun: an exception closes the run and forgets the job.
FinishRunOnly(k) ==
  /\ run[k].pc = "executing"
  /\ run' = [run EXCEPT ![k].pc = "done"]
  /\ LET j == run[k].job
     IN history' = [history EXCEPT ![j] = Newest(Ended(@, k), limit)]
  /\ UNCHANGED <<sjob, gated, interval, edit, dispatch, limit, lost, newest, sjWorld>>

\* finish_run, with the result of _execute or, through fail_run, with its
\* exception: the run, the job and the history in one transaction.
FinishRun(k) ==
  /\ run[k].pc = "executing"
  /\ run' = [run EXCEPT ![k].pc = "done"]
  /\ LET j == run[k].job
     IN /\ history' = [history EXCEPT ![j] = Newest(Ended(@, k), limit)]
        /\ sjob' = IF j \in Exists THEN [sjob EXCEPT ![j].status = "ended"] ELSE sjob
  /\ UNCHANGED <<gated, interval, edit, dispatch, limit, lost, newest, sjWorld>>

\* The process that runs the jobs restarts, and with it what it was doing.  The
\* broker keeps the runs no worker has begun.
JobsRestart ==
  /\ sjRestarts < sjDeployment.restarts
  /\ sjRestarts' = sjRestarts + 1
  /\ LET dying == {"found", "executing"} \cup IF sjDeployment.celery THEN {} ELSE {"queued"}
         D == {k \in Runs : run[k].pc \in dying}
     IN /\ run' = [k \in Runs |-> IF k \in D THEN [run[k] EXCEPT !.pc = "dead"] ELSE run[k]]
        /\ lost' = lost \cup {run[k].job : k \in D}
             \cup {dispatch[d].job : d \in {x \in Dispatchers : dispatch[x].pc = "queue"}}
  /\ dispatch' = [d \in Dispatchers |-> NoDispatch]
  /\ edit' = IF sjDeployment.celery THEN edit ELSE [e \in Editors |-> NoEdit]
  /\ UNCHANGED <<sjRows, history, limit, newest, sjDeployment, edits>>
-----------------------------------------------------------------------------
RunStep(k) == FindJob(k) \/ CreateRun(k) \/ FinishRun(k)

DispatchStep(d) ==
  \/ GetDueJobs(d)
  \/ \E failed \in BOOLEAN : FilterBlocked(d, failed)
  \/ \E j \in Jobs : AdvanceNextRun(d, j)
  \/ StartRun(d) \/ BrokerFails(d)

EditStep(e) ==
  \/ \E j \in Jobs : \/ \E kind \in Kinds, active \in BOOLEAN : CreateJob(e, j, kind, active)
                     \/ \E op \in {"update", "toggle"} : ReadJob(e, j, op)
                     \/ CreateChild(e, j) \/ CreateGitJob(e, j) \/ DeleteJob(e, j)
  \/ \E needed \in BOOLEAN : GateJob(e, needed)
  \/ \E active \in {None, TRUE, FALSE}, withChild \in BOOLEAN : UpdateJob(e, active, withChild)
  \/ ToggleJob(e)
  \/ \E S \in SUBSET Jobs : UserDeleted(e, S) \/ NodeDeleted(e, S) \/ ApprovalRows(e, S)
  \/ PlaybookDeleted(e) \/ DeactivateJobs(e)
  \/ \E n \in HistoryLimits : SetHistoryLimit(e, n)
  \/ \E on \in BOOLEAN : SaveInterval(e, on)
  \/ FindGitJob(e) \/ UpdateGitJob(e)

SjNext ==
  \/ \E e \in Editors : EditStep(e)
  \/ \E j \in Jobs : TimePasses(j) \/ RunNow(j)
  \/ \E d \in Dispatchers : DispatchStep(d)
  \/ \E k \in Runs : RunStep(k)
  \/ JobsRestart

SjSpec == SjInit /\ [][SjNext]_sjVars
-----------------------------------------------------------------------------
EditInfo == [op : {"idle", "gate", "child", "update", "toggle", "deactivate", "git",
                   "newgit", "oldgit"},
             job : Jobs \cup {None}, active : BOOLEAN, todo : SUBSET Jobs]
DispatchInfo == [pc : {"idle", "filter", "loop", "queue"}, todo : SUBSET Jobs,
                 job : Jobs \cup {None}]
RunInfo == [pc : {"unused", "queued", "found", "executing", "done", "dead"},
            job : Jobs \cup {None}]

SjTypeOK ==
  /\ sjDeployment \in JobDeployments
  /\ sjob \in [Jobs -> ScheduledJob \cup {None, Deleted}]
  /\ gated \subseteq Jobs
  /\ interval \in BOOLEAN
  /\ edit \in [Editors -> EditInfo]
  /\ dispatch \in [Dispatchers -> DispatchInfo]
  /\ run \in [Runs -> RunInfo]
  /\ history \in [Jobs -> Seq([run : Runs, status : {"running", "ended"}])]
  /\ limit \in HistoryLimits
  /\ edits \in 0..sjDeployment.edits
  /\ sjRestarts \in 0..sjDeployment.restarts
  /\ lost \subseteq Jobs
  /\ newest \in [Jobs -> Runs \cup {None}]

LiveRuns(j) == {k \in Runs : run[k].job = j /\ run[k].pc \in {"queued", "found", "executing"}}

\* A job marked running, which is never due and which run_now refuses, has a run
\* that will take the mark away: a dispatcher about to queue it, or one queued or
\* at work.  Only a restart or the broker ever leaves a mark without one.
RunningHasRun ==
  \A j \in Exists :
    sjob[j].status = "running" =>
      \/ LiveRuns(j) # {}
      \/ \E d \in Dispatchers : dispatch[d].pc = "queue" /\ dispatch[d].job = j
      \/ j \in lost

\* The same over rows, requests and runs of their types.
JobsSound == SjTypeOK /\ RunningHasRun

\* The overlap guard: the portal's loop never has two runs of a job at a time,
\* whatever is edited, deleted, restarted or late, as long as nobody uses run_now.
LoopNeverOverlaps ==
  ~sjDeployment.celery /\ ~sjDeployment.manual =>
    \A j \in Jobs : Cardinality(LiveRuns(j)) <= 1

\* The run of a job that started last is always in its history, and shows whether
\* it is still at work: no pruning by an older run that ends later, and no change
\* of the limit, removes it.
NewestKept ==
  \A j \in Jobs : newest[j] # None =>
    \E n \in DOMAIN history[j] :
      /\ history[j][n].run = newest[j]
      /\ history[j][n].status = "ended" <=> run[newest[j]].pc = "done"

\* "Ueberlappungsschutz: nicht starten wenn gerade laeuft" (router.py): without
\* Celery a job has one run at a time, started by the loop or by run_now.
NoOverlap == ~sjDeployment.celery => \A j \in Jobs : Cardinality(LiveRuns(j)) <= 1

\* "Loescht Job + alle Runs (CASCADE) + Child-Jobs (CASCADE)" (service.py): no
\* job outlives the job it belongs to.
ChildrenHaveParents == \A c \in Exists : sjob[c].parent # None => sjob[c].parent \in Exists
=============================================================================
