---------------------------- MODULE StackDeploy ----------------------------
(***************************************************************************)
(* Planning, deploying, destroying and drift-checking stacks               *)
(* (backend/plus/stacks).  Every HTTP call, approved request and runner    *)
(* task is a process p; call[p] holds what it read before its last await.  *)
(* A deploy call and the runner task it creates are the same process.      *)
(*                                                                         *)
(* A stack's definition stands for its YAML text and for its etag: the     *)
(* etag is a hash of the text, so equal texts have equal etags.  A plan is *)
(* the operation it was made for and the main.tf.json tofu read.           *)
(*                                                                         *)
(* asyncio.Lock: locked() is false as soon as the holder releases, but a   *)
(* newcomer queues behind waiters that have been woken and not yet run.    *)
(***************************************************************************)
EXTENDS Portal

CONSTANTS
  Stacks,
  Procs,
  Defs,         \* stack definitions
  Sdn,          \* the definitions that contain a VNet
  Deployed,     \* Deployed[s]: what is deployed of stack s to begin with
  TokenIds,     \* plan tokens alive at once
  MaxJobs,      \* bound on the job rows created
  Faults,       \* which of Failures occur
  Uses          \* which of Usages are made

Ops == {"apply", "destroy"}
Failures == {"rows", "ipam", "runner", "try", "loose", "pull", "crash"}
Usages == {"destroy", "drift", "approval", "edit", "delete"}

ASSUME DeployAssumption ==
  /\ Sdn \subseteq Defs
  /\ Deployed \in [Stacks -> Defs \cup {None}]
  /\ MaxJobs \in Nat
  /\ Faults \subseteq Failures
  /\ Uses \subseteq Usages
  /\ None \notin Stacks \cup Procs \cup Defs \cup TokenIds \cup Ops

VARIABLES
  def,          \* stacks.yaml_text / current_etag; None once soft-deleted
  edited,       \* stacks whose updated_at is later than the last finished_at
  mainTf,       \* main.tf.json in the working directory
  planfile,     \* plan.tfplan in the working directory, one per stack
  infra,        \* the definition tofu's state and the cluster are at
  loose,        \* the plan of a tofu process that no runner follows any more
  tracked,      \* stack_deployed_resources has rows of the stack
  token,        \* _PLAN_TOKENS
  asked,        \* approved stack_deploy / stack_destroy requests
  lock,         \* _STACK_LOCKS: the holder
  waiters,      \* _STACK_LOCKS: those that wait
  sdnLock,      \* _SDN_APPLY_LOCK
  job,          \* jobs and stack_deployments, one row each
  drift,        \* stacks.last_drift_state
  call

vars == <<def, edited, mainTf, planfile, infra, loose, tracked, token, asked, lock,
          waiters, sdnLock, job, drift, call>>

rows == <<def, edited, tracked, job, drift>>
files == <<mainTf, planfile, infra, loose>>
locks == <<lock, waiters, sdnLock>>

-----------------------------------------------------------------------------
Plan == [op : Ops, def : Defs \cup {None}]
Planfile == [op : Ops, def : Defs \cup {None}, stale : BOOLEAN]
Token == [stack : Stacks, etag : Defs, plan : Plan]
Asked == [stack : Stacks, etag : Defs, plan : Plan]
JobIds == 1 .. MaxJobs
Job == [stack : Stacks, op : Ops,
        st : {"pending", "running", "success", "failed"},
        dep : {"none", "running", "success", "partial", "failed"}]

ASSUME NoneAssumption == None \notin Plan /\ None \notin Planfile /\ None \notin Job

\* Who runs tofu or is about to, under the lock of its stack.
Owning == {"planning", "rows", "deprow", "reserve", "launch", "apply", "tofu",
           "sync", "commit", "finish", "jobrow", "drifting"}
Waiting == {"planWait", "startWait", "driftWait"}
Others == {"idle", "plan", "token", "deploy", "start", "drift", "driftSave"}

Call == [pc : Owning \cup Waiting \cup Others, stack : Stacks \cup {None},
         def : Defs \cup {None}, op : Ops \cup {None}, tok : TokenIds \cup {None},
         want : Plan \cup {None},       \* the plan that was reviewed
         ran : Plan \cup {None},        \* the plan tofu was given
         job : JobIds \cup {None}, ok : BOOLEAN,
         found : {"none", "in_sync", "out_of_sync"}]

Idle == [pc |-> "idle", stack |-> None, def |-> None, op |-> None, tok |-> None,
         want |-> None, ran |-> None, job |-> None, ok |-> FALSE,
         found |-> "none"]

Init ==
  /\ def \in [Stacks -> Defs]
  /\ \A s \in Stacks : Deployed[s] # None => def[s] = Deployed[s]
  /\ edited = {}
  /\ mainTf = Deployed
  /\ planfile = [s \in Stacks |-> None]
  /\ infra = Deployed
  /\ loose = [s \in Stacks |-> None]
  /\ tracked = [s \in Stacks |-> Deployed[s] # None]
  /\ token = [k \in TokenIds |-> None]
  /\ asked = {}
  /\ lock = [s \in Stacks |-> None]
  /\ waiters = [s \in Stacks |-> << >>]
  /\ sdnLock = None
  /\ job = [j \in JobIds |-> None]
  /\ drift = [s \in Stacks |-> "none"]
  /\ call = [p \in Procs |-> Idle]

-----------------------------------------------------------------------------
(***************************************************************************)
(* Processes and locks.                                                    *)
(***************************************************************************)
At(p, pc) == call[p].pc = pc
Goto(p, pc) == call' = [call EXCEPT ![p].pc = pc]
Leave(p) == call' = [call EXCEPT ![p] = Idle]

Locked(s) == lock[s] # None

\* await lock.acquire(): at once, or behind the waiters.
Acquire(p, s, in, wait) ==
  IF lock[s] = None /\ waiters[s] = << >>
  THEN /\ lock' = [lock EXCEPT ![s] = p]
       /\ waiters' = waiters
       /\ Goto(p, in)
  ELSE /\ waiters' = [waiters EXCEPT ![s] = Append(@, p)]
       /\ lock' = lock
       /\ Goto(p, wait)

Release(s) == lock' = [lock EXCEPT ![s] = None] /\ waiters' = waiters

ReleaseSdn(p) == sdnLock' = IF sdnLock = p THEN None ELSE sdnLock

Woken(p) == CASE call[p].pc = "planWait" -> "planning"
              [] call[p].pc = "startWait" -> "rows"
              [] call[p].pc = "driftWait" -> "drifting"

\* The event loop resumes the waiter the released lock went to.
Wake(p) ==
  /\ call[p].pc \in Waiting
  /\ LET s == call[p].stack IN
       /\ lock[s] = None
       /\ waiters[s] # << >> /\ Head(waiters[s]) = p
       /\ lock' = [lock EXCEPT ![s] = p]
       /\ waiters' = [waiters EXCEPT ![s] = Tail(@)]
  /\ Goto(p, Woken(p))
  /\ UNCHANGED <<rows, files, token, asked, sdnLock>>

-----------------------------------------------------------------------------
(***************************************************************************)
(* Planning.                                                               *)
(***************************************************************************)

\* POST /plan loads the row; gates and template lookups are awaited next.
PlanStart(p, s, op) ==
  /\ op = "destroy" => "destroy" \in Uses
  /\ At(p, "idle")
  /\ def[s] # None
  /\ call' = [call EXCEPT ![p] = [Idle EXCEPT !.pc = "plan", !.stack = s,
                                              !.def = def[s], !.op = op]]
  /\ UNCHANGED <<rows, files, token, asked, locks>>

\* prepare_plan: main.tf.json is written before the lock is looked at.
PlanWrite(p) ==
  /\ At(p, "plan")
  /\ LET s == call[p].stack IN
       /\ mainTf' = [mainTf EXCEPT ![s] = call[p].def]
       /\ IF Locked(s) THEN Leave(p) /\ UNCHANGED <<lock, waiters>>
                       ELSE Acquire(p, s, "planning", "planWait")
  /\ UNCHANGED <<rows, planfile, infra, loose, token, asked, sdnLock>>

\* tofu plan -out=plan.tfplan, on the main.tf.json it finds.  It fails while
\* another tofu process holds the lock on the state file.
PlanTofu(p) ==
  /\ At(p, "planning")
  /\ loose[call[p].stack] = None
  /\ LET s == call[p].stack
         made == [op |-> call[p].op, def |-> mainTf[s]] IN
       /\ planfile' = [planfile EXCEPT ![s] =
                         [op |-> made.op, def |-> made.def, stale |-> FALSE]]
       /\ Release(s)
       /\ call' = [call EXCEPT ![p] = [@ EXCEPT !.pc = "token", !.ran = made]]
  /\ UNCHANGED <<rows, mainTf, infra, loose, token, asked, sdnLock>>

\* init, validate or plan exits with an error.
PlanFailed(p) ==
  /\ At(p, "planning")
  /\ Release(call[p].stack)
  /\ Leave(p)
  /\ UNCHANGED <<rows, files, token, asked, sdnLock>>

\* _make_plan_token, with the etag of the row read at the start.  A re-plan for
\* an approved request then compares the change counts, which different plans
\* may share, and goes on to start_stack_job.
PlanToken(p, k) ==
  /\ At(p, "token")
  /\ token[k] = None
  /\ token' = [token EXCEPT ![k] = [stack |-> call[p].stack, etag |-> call[p].def,
                                    plan |-> call[p].ran]]
  /\ \/ /\ call[p].want # None
        /\ call' = [call EXCEPT ![p] = [@ EXCEPT !.pc = "start", !.ran = None]]
     \/ /\ call[p].want # call[p].ran
        /\ Leave(p)
  /\ UNCHANGED <<rows, files, asked, locks>>

\* A gate before the lock, or the network check after the plan, refuses.
Refused(p) ==
  /\ call[p].pc \in {"plan", "token", "deploy"}
  /\ Leave(p)
  /\ UNCHANGED <<rows, files, token, asked, locks>>

\* _PLAN_TTL passes: the entry can no longer be used.
TokenExpires(k) ==
  /\ token[k] # None
  /\ token' = [token EXCEPT ![k] = None]
  /\ UNCHANGED <<rows, files, asked, locks, call>>

-----------------------------------------------------------------------------
(***************************************************************************)
(* Deploying and destroying: from the token to the runner task.            *)
(***************************************************************************)

\* _deploy_or_destroy loads the row; the gates are awaited next.
DeployStart(p, k) ==
  /\ At(p, "idle")
  /\ token[k] # None
  /\ def[token[k].stack] # None
  /\ call' = [call EXCEPT ![p] =
                [Idle EXCEPT !.pc = "deploy", !.stack = token[k].stack,
                             !.def = def[token[k].stack], !.op = token[k].plan.op,
                             !.tok = k]]
  /\ UNCHANGED <<rows, files, token, asked, locks>>

\* consume_plan_token: a matching token of the row's etag is popped and used.
Consumable(p) ==
  LET k == call[p].tok IN
  /\ token[k] # None
  /\ token[k].stack = call[p].stack /\ token[k].plan.op = call[p].op
  /\ token[k].etag = call[p].def

\* The call goes on to start_stack_job, or requires_approval makes it end with
\* 202 and leaves a request that is decided later.
DeployConsume(p) ==
  /\ At(p, "deploy")
  /\ Consumable(p)
  /\ token' = [token EXCEPT ![call[p].tok] = None]
  /\ \/ /\ call' = [call EXCEPT ![p] = [@ EXCEPT !.pc = "start", !.tok = None,
                                               !.want = token[call[p].tok].plan]]
        /\ UNCHANGED asked
     \/ /\ "approval" \in Uses
        /\ asked' = asked \cup {[stack |-> call[p].stack, etag |-> call[p].def,
                                 plan |-> token[call[p].tok].plan]}
        /\ Leave(p)
  /\ UNCHANGED <<rows, files, locks>>

\* A token of another etag is popped as well; an unknown one changes nothing.
DeployConflict(p) ==
  /\ At(p, "deploy")
  /\ ~Consumable(p)
  /\ LET k == call[p].tok IN
       token' = IF token[k] # None /\ token[k].stack = call[p].stack
                                   /\ token[k].plan.op = call[p].op
                THEN [token EXCEPT ![k] = None] ELSE token
  /\ Leave(p)
  /\ UNCHANGED <<rows, files, asked, locks>>

\* _handle_stack_deploy_or_destroy: etag re-check, then a fresh plan.
HandlerStart(p, a) ==
  /\ At(p, "idle")
  /\ a \in asked
  /\ asked' = asked \ {a}
  /\ IF def[a.stack] = a.etag
     THEN call' = [call EXCEPT ![p] =
                     [Idle EXCEPT !.pc = "plan", !.stack = a.stack, !.def = a.etag,
                                  !.op = a.plan.op, !.want = a.plan]]
     ELSE UNCHANGED call
  /\ UNCHANGED <<rows, files, token, locks>>

\* The bound on job rows: as many are free as processes are about to insert one.
Room == Cardinality({j \in JobIds : job[j] = None}) >
        Cardinality({q \in Procs : call[q].pc \in {"startWait", "rows"}})

\* Mutant of StartLock: the SDN lock is taken without looking whether it is free.
StartLockBlind(p) ==
  /\ At(p, "start")
  /\ Room
  /\ LET s == call[p].stack
         sdn == call[p].def \in Sdn IN
     IF Locked(s) \/ waiters[s] # << >>
     THEN Leave(p) /\ UNCHANGED locks
     ELSE /\ sdnLock' = IF sdn THEN p ELSE sdnLock
          /\ lock' = [lock EXCEPT ![s] = p]
          /\ waiters' = waiters
          /\ Goto(p, "rows")
  /\ UNCHANGED <<rows, files, token, asked>>

\* start_stack_job: the SDN lock first, then the stack lock; busy means 409.
StartLock(p) ==
  /\ At(p, "start")
  /\ Room
  /\ LET s == call[p].stack
         sdn == call[p].def \in Sdn IN
     IF (sdn /\ sdnLock # None) \/ Locked(s)
     THEN Leave(p) /\ UNCHANGED locks
     ELSE /\ sdnLock' = IF sdn THEN p ELSE sdnLock
          /\ Acquire(p, s, "rows", "startWait")
  /\ UNCHANGED <<rows, files, token, asked>>

\* INSERT INTO jobs, committed before the deployment row is thought of.
StartRows(p, j) ==
  /\ At(p, "rows")
  /\ job[j] = None /\ \A i \in JobIds : i < j => job[i] # None
  /\ job' = [job EXCEPT ![j] = [stack |-> call[p].stack, op |-> call[p].op,
                                st |-> "pending", dep |-> "none"]]
  /\ call' = [call EXCEPT ![p] = [@ EXCEPT !.pc = "deprow", !.job = j]]
  /\ UNCHANGED <<def, edited, tracked, drift, files, token, asked, locks>>

\* create_deployment, in a transaction of its own.
CreateDeployment(p) ==
  /\ At(p, "deprow")
  /\ job' = [job EXCEPT ![call[p].job].dep = "running"]
  /\ Goto(p, "reserve")
  /\ UNCHANGED <<def, edited, tracked, drift, files, token, asked, locks>>

\* reserve_stack_ips for an apply, then create_task(run_stack_job).
StartRunner(p) ==
  /\ At(p, "reserve")
  /\ Goto(p, "launch")
  /\ UNCHANGED <<rows, files, token, asked, locks>>

\* An INSERT fails, or the IPAM refuses an address (409).
Refusable(p) ==
  \/ "rows" \in Faults /\ call[p].pc \in {"rows", "deprow"}
  \/ "ipam" \in Faults /\ At(p, "reserve") /\ call[p].op = "apply"

\* Mutant of StartRefused: only the stack lock is released.
StartRefusedHalf(p) ==
  /\ Refusable(p)
  /\ Release(call[p].stack)
  /\ Leave(p)
  /\ UNCHANGED <<rows, files, token, asked, sdnLock>>

\* The locks go, the rows stay as they are.
StartRefused(p) ==
  /\ Refusable(p)
  /\ Release(call[p].stack)
  /\ ReleaseSdn(p)
  /\ Leave(p)
  /\ UNCHANGED <<rows, files, token, asked>>

-----------------------------------------------------------------------------
(***************************************************************************)
(* run_stack_job.                                                          *)
(***************************************************************************)

RunnerStart(p) ==
  /\ At(p, "launch")
  /\ job' = [job EXCEPT ![call[p].job].st = "running"]
  /\ Goto(p, "apply")
  /\ UNCHANGED <<def, edited, tracked, drift, files, token, asked, locks>>

\* An exception before the try block, marked running or not, or in the finally
\* block ahead of the releases ends the task.
RunnerDies(p) ==
  /\ "runner" \in Faults
  /\ call[p].pc \in {"launch", "apply", "finish", "jobrow"}
  /\ Leave(p)
  /\ UNCHANGED <<rows, files, token, asked, locks>>

Target(plan) == IF plan.op = "destroy" THEN None ELSE plan.def

\* tofu apply plan.tfplan: whatever the file holds by now.
TofuStart(p) ==
  /\ At(p, "apply")
  /\ LET f == planfile[call[p].stack] IN
       call' = [call EXCEPT ![p] = [@ EXCEPT !.pc = "tofu", !.ran = [op |-> f.op, def |-> f.def]]]
  /\ UNCHANGED <<rows, files, token, asked, locks>>

\* The cluster of stack s moves to definition d; plans made before are stale.
Reach(s, d) ==
  /\ infra' = [infra EXCEPT ![s] = d]
  /\ planfile' = [planfile EXCEPT ![s].stale = @ \/ d # infra[s]]

\* tofu refuses a plan made against an older state, and any while another tofu
\* process holds the lock on the state file.
Valid(s) == ~planfile[s].stale /\ loose[s] = None

\* rc = 0.
TofuOk(p) ==
  /\ At(p, "tofu")
  /\ Valid(call[p].stack)
  /\ Reach(call[p].stack, Target(call[p].ran))
  /\ call' = [call EXCEPT ![p] = [@ EXCEPT !.pc = "sync", !.ok = TRUE]]
  /\ UNCHANGED <<rows, mainTf, loose, token, asked, locks>>

\* rc # 0: refused, cancelled or failed halfway.
TofuError(p) ==
  /\ At(p, "tofu")
  /\ LET s == call[p].stack IN
     \E d \in {infra[s]} \cup (IF Valid(s) THEN {Target(call[p].ran)} ELSE {}) :
       Reach(s, d)
  /\ Goto(p, "sync")
  /\ UNCHANGED <<rows, mainTf, loose, token, asked, locks>>

\* Following tofu's output raises: the log cannot be written, a line is too long.
\* Nobody stops the process; the except block goes on without it.
LosesTofu(p) ==
  /\ "loose" \in Faults
  /\ At(p, "tofu")
  /\ LET s == call[p].stack IN
       loose' = IF Valid(s) THEN [loose EXCEPT ![s] = call[p].ran] ELSE loose
  /\ call' = [call EXCEPT ![p] = [@ EXCEPT !.pc = "finish", !.ok = FALSE]]
  /\ UNCHANGED <<rows, mainTf, planfile, infra, token, asked, locks>>

\* The process nobody follows ends, done or not.
LooseEnds(s) ==
  /\ loose[s] # None
  /\ \E d \in {infra[s], Target(loose[s])} : Reach(s, d)
  /\ loose' = [loose EXCEPT ![s] = None]
  /\ UNCHANGED <<rows, mainTf, token, asked, locks, call>>

\* sync_deployed_resources from the state, or clear_deployed_resources after a
\* destroy that exited with 0.  A failed state pull counts as an empty state.
Sync(p) ==
  /\ At(p, "sync")
  /\ LET s == call[p].stack IN
     IF call[p].op = "destroy" /\ call[p].ok
     THEN tracked' = [tracked EXCEPT ![s] = FALSE]
     ELSE \/ tracked' = [tracked EXCEPT ![s] = infra[s] # None]
          \/ "pull" \in Faults /\ tracked' = [tracked EXCEPT ![s] = FALSE]
  /\ Goto(p, "commit")
  /\ UNCHANGED <<def, edited, job, drift, files, token, asked, locks>>

\* Mutant of RunnerError: the exception leaves the runner; nothing is finished.
RunnerErrorEscapes(p) ==
  /\ "try" \in Faults
  /\ call[p].pc \in {"apply", "sync"}
  /\ Leave(p)
  /\ UNCHANGED <<rows, files, token, asked, locks>>

\* The except block: starting tofu, or storing what it left behind, raised.
RunnerError(p) ==
  /\ "try" \in Faults
  /\ call[p].pc \in {"apply", "sync"}
  /\ call' = [call EXCEPT ![p] = [@ EXCEPT !.pc = "finish", !.ok = FALSE]]
  /\ UNCHANGED <<rows, files, token, asked, locks>>

\* The SDN and firewall commits may turn a success into a failure.  What has
\* succeeded is stored as in sync at once; if that raises, nobody hears of it.
Commit(p) ==
  /\ At(p, "commit")
  /\ \E ok \in {call[p].ok, FALSE} :
       /\ call' = [call EXCEPT ![p] = [@ EXCEPT !.pc = "finish", !.ok = ok]]
       /\ \/ drift' = IF call[p].op = "apply" /\ ok
                     THEN [drift EXCEPT ![call[p].stack] = "in_sync"] ELSE drift
          \/ "try" \in Faults /\ drift' = drift
  /\ UNCHANGED <<def, edited, tracked, job, files, token, asked, locks>>

\* Mutant of Outcome: the badge's word for a failed run in place of the status.
OutcomeError(p) == IF call[p].ok THEN {"success"} ELSE {"error"}

\* Mutant of Outcome: an apply that left something behind counts as a success.
OutcomeLenient(p) == IF call[p].op = "apply" THEN {"success"} ELSE {"failed"}

\* deploy_status and the finally block.
Outcome(p) ==
  IF call[p].ok THEN {"success"}
  ELSE IF call[p].op = "apply" THEN {"partial", "failed"} ELSE {"failed"}

\* Mutant of FinishDeployment: the job row is finished before the deployment row.
FinishJobFirst(p) ==
  /\ At(p, "finish")
  /\ job' = [job EXCEPT ![call[p].job].st = IF call[p].ok THEN "success" ELSE "failed"]
  /\ edited' = edited \ {call[p].stack}
  /\ Goto(p, "jobrow")
  /\ UNCHANGED <<def, tracked, drift, files, token, asked, locks>>

\* finish_deployment.
FinishDeployment(p) ==
  /\ At(p, "finish")
  /\ \E dep \in Outcome(p) : job' = [job EXCEPT ![call[p].job].dep = dep]
  /\ edited' = edited \ {call[p].stack}
  /\ Goto(p, "jobrow")
  /\ UNCHANGED <<def, tracked, drift, files, token, asked, locks>>

\* The job row, in another transaction; then the locks go.
FinishJob(p) ==
  /\ At(p, "jobrow")
  /\ job' = [job EXCEPT ![call[p].job].st = IF call[p].ok THEN "success" ELSE "failed"]
  /\ Release(call[p].stack)
  /\ ReleaseSdn(p)
  /\ Leave(p)
  /\ UNCHANGED <<def, edited, tracked, drift, files, token, asked>>

-----------------------------------------------------------------------------
(***************************************************************************)
(* run_drift.                                                              *)
(***************************************************************************)

DriftStart(p, s) ==
  /\ "drift" \in Uses
  /\ At(p, "idle")
  /\ def[s] # None
  /\ ~Locked(s)
  /\ call' = [call EXCEPT ![p] = [Idle EXCEPT !.pc = "drift", !.stack = s]]
  /\ UNCHANGED <<rows, files, token, asked, locks>>

\* list_deployed_resources found nothing.
DriftNone(p) ==
  /\ At(p, "drift")
  /\ ~tracked[call[p].stack]
  /\ drift' = [drift EXCEPT ![call[p].stack] = "in_sync"]
  /\ Leave(p)
  /\ UNCHANGED <<def, edited, tracked, job, files, token, asked, locks>>

\* Mutant of DriftLock: the look at the lock in DriftStart is taken for enough.
DriftLockSkipped(p) ==
  /\ At(p, "drift")
  /\ tracked[call[p].stack]
  /\ Goto(p, "drifting")
  /\ UNCHANGED <<rows, files, token, asked, locks>>

DriftLock(p) ==
  /\ At(p, "drift")
  /\ tracked[call[p].stack]
  /\ Acquire(p, call[p].stack, "drifting", "driftWait")
  /\ UNCHANGED <<rows, files, token, asked, sdnLock>>

\* tofu plan against the main.tf.json of the last plan call; the result is
\* stored after the lock is gone.  Either may be found: guests are changed by
\* hand, and what is planned for untracked guests is not counted.
DriftTofu(p) ==
  /\ At(p, "drifting")
  /\ loose[call[p].stack] = None
  /\ LET s == call[p].stack IN
       /\ \E found \in {"in_sync", "out_of_sync"} :
            call' = [call EXCEPT ![p] = [@ EXCEPT !.pc = "driftSave", !.found = found]]
       /\ Release(s)
  /\ UNCHANGED <<rows, files, token, asked, sdnLock>>

\* Mutant of DriftFailed: the lock is not released on an error.
DriftFailedHolds(p) ==
  /\ At(p, "drifting")
  /\ Leave(p)
  /\ UNCHANGED <<rows, files, token, asked, locks>>

DriftFailed(p) ==
  /\ At(p, "drifting")
  /\ Release(call[p].stack)
  /\ Leave(p)
  /\ UNCHANGED <<rows, files, token, asked, sdnLock>>

DriftSave(p) ==
  /\ At(p, "driftSave")
  /\ drift' = [drift EXCEPT ![call[p].stack] = call[p].found]
  /\ Leave(p)
  /\ UNCHANGED <<def, edited, tracked, job, files, token, asked, locks>>

-----------------------------------------------------------------------------
(***************************************************************************)
(* The stack row, restarts.                                                *)
(***************************************************************************)

\* _commit_edit.
Edit(s, d) ==
  /\ "edit" \in Uses
  /\ def[s] # None
  /\ def' = [def EXCEPT ![s] = d]
  /\ edited' = edited \cup {s}
  /\ UNCHANGED <<tracked, job, drift, files, token, asked, locks, call>>

\* soft_delete: nothing else is looked at.
Delete(s) ==
  /\ "delete" \in Uses
  /\ def[s] # None
  /\ def' = [def EXCEPT ![s] = None]
  /\ edited' = edited \cup {s}
  /\ UNCHANGED <<tracked, job, drift, files, token, asked, locks, call>>

\* A restart: tasks, locks and tokens are gone; a running tofu got as far as it
\* got (a loose one may have ended just before).  Rows and files survive, and nothing
\* repairs them.
Crash ==
  /\ "crash" \in Faults
  /\ \E done \in SUBSET {p \in Procs : At(p, "tofu") /\ Valid(call[p].stack)} :
       LET by(s) == {p \in done : call[p].stack = s}
           to(s) == Target(call[CHOOSE p \in by(s) : TRUE].ran) IN
       /\ infra' = [s \in Stacks |-> IF by(s) = {} THEN infra[s] ELSE to(s)]
       /\ planfile' = [s \in Stacks |->
                         IF by(s) = {} \/ to(s) = infra[s] THEN planfile[s]
                         ELSE [planfile[s] EXCEPT !.stale = TRUE]]
  /\ loose' = [s \in Stacks |-> None]
  /\ call' = [p \in Procs |-> Idle]
  /\ lock' = [s \in Stacks |-> None]
  /\ waiters' = [s \in Stacks |-> << >>]
  /\ sdnLock' = None
  /\ token' = [k \in TokenIds |-> None]
  /\ UNCHANGED <<rows, mainTf, asked>>

-----------------------------------------------------------------------------
Planning(p) ==
  \/ \E s \in Stacks, op \in Ops : PlanStart(p, s, op)
  \/ PlanWrite(p) \/ PlanTofu(p) \/ PlanFailed(p) \/ Refused(p)
  \/ \E k \in TokenIds : PlanToken(p, k)

Deploying(p) ==
  \/ \E k \in TokenIds : DeployStart(p, k)
  \/ DeployConsume(p) \/ DeployConflict(p)
  \/ \E a \in asked : HandlerStart(p, a)
  \/ StartLock(p) \/ StartRunner(p) \/ StartRefused(p)
  \/ (\E j \in JobIds : StartRows(p, j)) \/ CreateDeployment(p)

Running(p) ==
  \/ RunnerStart(p) \/ RunnerDies(p) \/ TofuStart(p) \/ TofuOk(p) \/ TofuError(p)
  \/ LosesTofu(p) \/ Sync(p) \/ RunnerError(p) \/ Commit(p)
  \/ FinishDeployment(p) \/ FinishJob(p)

Drifting(p) ==
  \/ \E s \in Stacks : DriftStart(p, s)
  \/ DriftNone(p) \/ DriftLock(p) \/ DriftTofu(p) \/ DriftFailed(p) \/ DriftSave(p)

Next ==
  \/ \E p \in Procs : Wake(p) \/ Planning(p) \/ Deploying(p) \/ Running(p) \/ Drifting(p)
  \/ \E k \in TokenIds : TokenExpires(k)
  \/ \E s \in Stacks : LooseEnds(s) \/ (\E d \in Defs : Edit(s, d)) \/ Delete(s)
  \/ Crash

Spec == Init /\ [][Next]_vars

(***************************************************************************)
(* The event loop resumes every task whose await is done, and every tofu   *)
(* process a call follows ends: nothing in the code puts a limit on it.    *)
(***************************************************************************)
Fairness ==
  \A p \in Procs :
    /\ WF_vars(Wake(p))
    /\ WF_vars(PlanTofu(p) \/ PlanFailed(p))
    /\ WF_vars(DriftTofu(p) \/ DriftFailed(p))
    /\ WF_vars(\/ (\E j \in JobIds : StartRows(p, j)) \/ CreateDeployment(p)
               \/ StartRunner(p) \/ Running(p))

FairSpec == Spec /\ Fairness

-----------------------------------------------------------------------------
(***************************************************************************)
(* Properties.                                                             *)
(***************************************************************************)

\* Every row, file, token, lock and call holds a value of its type.
TypeOK ==
  /\ def \in [Stacks -> Defs \cup {None}]
  /\ edited \subseteq Stacks
  /\ mainTf \in [Stacks -> Defs \cup {None}]
  /\ planfile \in [Stacks -> Planfile \cup {None}]
  /\ infra \in [Stacks -> Defs \cup {None}]
  /\ loose \in [Stacks -> Plan \cup {None}]
  /\ tracked \in [Stacks -> BOOLEAN]
  /\ token \in [TokenIds -> Token \cup {None}]
  /\ asked \subseteq Asked
  /\ lock \in [Stacks -> Procs \cup {None}]
  /\ waiters \in [Stacks -> Seq(Procs)]
  /\ sdnLock \in Procs \cup {None}
  /\ job \in [JobIds -> Job \cup {None}]
  /\ drift \in [Stacks -> {"none", "in_sync", "out_of_sync"}]
  /\ call \in [Procs -> Call]

\* One working directory, one tofu: a plan, a drift check and a running job of
\* the same stack never overlap, although the lock has no owner, the drift check
\* looks at it long before taking it, and tasks hand it to one another.  A tofu
\* that has lost its runner is not counted: see TofuFollowed.
OneTofu ==
  \A p, q \in Procs :
    call[p].pc \in Owning /\ call[q].pc \in Owning /\ call[p].stack = call[q].stack
      => p = q

\* Not so in the code: an error in following tofu's output (engine.py:300) frees
\* the lock while the process goes on changing the cluster.
TofuFollowed == \A s \in Stacks : loose[s] # None => Locked(s)

\* start_stack_job hands both locks to the runner, which releases them on exit:
\* whoever is registered as a lock's holder is a live task of that stack.
LocksLive ==
  /\ \A s \in Stacks : lock[s] # None =>
       call[lock[s]].pc \in Owning /\ call[lock[s]].stack = s
  /\ sdnLock # None =>
       call[sdnLock].pc \in Owning \cup {"startWait"}

\* Runs that stage or commit SDN objects: tofu about to change a definition with
\* a VNet, and the cluster-wide commit afterwards.
Stages(p) ==
  /\ At(p, "tofu")
  /\ LET old == infra[call[p].stack]
         new == Target(call[p].ran) IN
     old # new /\ (old \in Sdn \/ new \in Sdn)

Commits(p) == At(p, "commit") /\ sdnLock = p

\* No two SDN deployments cross-commit each other's staged objects.  A tofu that
\* has lost its runner is not counted, as in OneTofu.
SdnSerial ==
  \A p, q \in Procs : p # q /\ Stages(p) => ~Stages(q) /\ ~Commits(q)

\* The job row and the deployment row are written one after the other, at the
\* start and at the end, and either write may be the last one: a finished job has
\* a finished deployment of the same outcome, a job without one never started;
\* and unless a runner dies or the portal restarts, a job shown as running has a
\* live runner, and its deployment runs until that runner is at its last write.
RowsAgree ==
  \A j \in JobIds : job[j] # None =>
    /\ job[j].dep = "none" => job[j].st = "pending"
    /\ job[j].st \in {"success", "failed"} =>
         /\ job[j].dep # "running"
         /\ job[j].st = "success" <=> job[j].dep = "success"
    /\ job[j].st = "running" /\ {"runner", "crash"} \cap Faults = {} =>
         \E p \in Procs :
           /\ call[p].job = j /\ lock[job[j].stack] = p
           /\ job[j].dep = "running" \/ At(p, "jobrow")

\* What tofu carries out is the plan that was reviewed for this job.
RunsReviewedPlan ==
  \A p \in Procs : At(p, "tofu") /\ Valid(call[p].stack)
                      => call[p].ran = call[p].want

\* derive_deployment_state: the badge of a stack, from its latest deployment.
Latest(s) ==
  LET mine == {j \in JobIds : job[j] # None /\ job[j].dep # "none" /\ job[j].stack = s} IN
  IF mine = {} THEN None ELSE job[CHOOSE j \in mine : \A i \in mine : i <= j]

Badge(s) ==
  LET d == Latest(s) IN
  CASE d = None -> "not_deployed"
    [] d # None /\ d.dep = "running" -> IF d.op = "apply" THEN "deploying" ELSE "destroying"
    [] d # None /\ d.dep = "failed" -> "error"
    [] d # None /\ d.dep = "partial" -> "partial"
    [] d # None /\ d.dep = "success" ->
         IF d.op = "destroy" THEN "destroyed"
         ELSE IF ~tracked[s] THEN "deployed"
         ELSE IF drift[s] = "out_of_sync" \/ s \in edited THEN "out_of_sync"
         ELSE "deployed"

\* A stack shown as deployed is deployed as it is now defined: a definition that
\* was edited after the last apply shows as out of sync.
DeployedIsCurrent ==
  \A s \in Stacks : Badge(s) = "deployed" /\ def[s] # None => infra[s] = def[s]

\* A job that was marked running is marked finished.
JobsEnd ==
  \A j \in JobIds :
    (job[j] # None /\ job[j].st = "running")
      ~> (job[j] # None /\ job[j].st \in {"success", "failed"})

\* Whoever waits for a stack lock gets it.
WaitersServed ==
  \A p \in Procs : (call[p].pc \in Waiting) ~> (call[p].pc \notin Waiting)
=============================================================================
