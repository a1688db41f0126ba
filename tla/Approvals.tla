----------------------------- MODULE Approvals -----------------------------
(***************************************************************************)
(* The approval workflow (backend/plus/approvals).  A gated action becomes *)
(* a request that is decided, withdrawn, suspended by a rule change or     *)
(* expired; approving it runs its execute handler.                         *)
(*                                                                         *)
(* Every `async with get_db()' block is one transaction and one action     *)
(* here.  A service call that awaits between two transactions is a CALL:   *)
(* a process p whose record call[p] holds what the call read before the    *)
(* await, and whose later steps interleave with everybody else.            *)
(*                                                                         *)
(* reject_approval and cancel_approval test the status again inside their  *)
(* UPDATE, so their two transactions act as one guarded step; the pre-read *)
(* only chooses the error text.                                            *)
(***************************************************************************)
EXTENDS Portal

CONSTANTS
  Reqs,         \* ids of pending_approvals rows, each used at most once
  Procs,        \* service calls that can be in flight at once
  Users,        \* local users: requesters and deciders
  Groups,       \* user groups
  Members,      \* Members[g]: the users of group g
  Admins,       \* users with manage_users or approve_jobs
  Targets,      \* action targets of the one action type modelled
  SettingChoices, \* rule settings an admin or a meta.yaml may submit
  SJobs,        \* active scheduled jobs
  SJobTarget,   \* SJobTarget[j]: the action_target in j's config, or None
  Crashes       \* whether the server may restart

Principals == Users \cup Groups

Settings == [required : BOOLEAN, selfOk : BOOLEAN, approvers : SUBSET Principals]

ASSUME ConstantsAssumption ==
  /\ Members \in [Groups -> SUBSET Users]
  /\ Admins \subseteq Users
  /\ SettingChoices \subseteq Settings
  /\ SJobTarget \in [SJobs -> Targets \cup {None}]
  /\ Crashes \in BOOLEAN
  /\ None \notin Reqs \cup Users \cup Targets \cup Groups

VARIABLES
  enabled,      \* approval_workflow_config.enabled
  defaultGroup, \* approval_workflow_config.default_approver_group_id
  rule,         \* approval_rules, one row at most per target
  req,          \* pending_approvals
  call,         \* service calls between two of their transactions
  sjBlock       \* scheduled_job_approval_status

vars == <<enabled, defaultGroup, rule, req, call, sjBlock>>

-----------------------------------------------------------------------------
(***************************************************************************)
(* Rows and calls.  overdue stands for expires_at < now.  runs and ranBy   *)
(* are history: how often the execute handler was started for the request, *)
(* and on whose decision.                                                  *)
(***************************************************************************)
Rule == [required : BOOLEAN, selfOk : BOOLEAN, approvers : SUBSET Principals,
         source : {"meta_yaml", "ui_override"}, active : BOOLEAN]

Open == {"pending", "suspended"}
Closed == {"rejected", "cancelled", "expired", "executed"}
Status == {"absent", "approved"} \cup Open \cup Closed

Request == [status : Status, target : Targets \cup {None}, by : Users \cup {None},
            snap : Rule \cup {None}, blob : BOOLEAN, overdue : BOOLEAN,
            runs : Nat, ranBy : SUBSET Users]

Absent == [status |-> "absent", target |-> None, by |-> None, snap |-> None,
           blob |-> FALSE, overdue |-> FALSE, runs |-> 0, ranBy |-> {}]

Call == [op : {"idle", "create", "resubmit", "decide", "execute", "handler", "suspend"},
         req : Reqs \cup {None}, by : Users \cup {None},
         target : Targets \cup {None}, snap : Rule \cup {None}, blob : BOOLEAN]

Idle == [op |-> "idle", req |-> None, by |-> None, target |-> None,
         snap |-> None, blob |-> FALSE]

Init ==
  /\ enabled = FALSE
  /\ defaultGroup = None
  /\ rule = [t \in Targets |-> None]
  /\ req = [r \in Reqs |-> Absent]
  /\ call = [p \in Procs |-> Idle]
  /\ sjBlock = [j \in SJobs |-> "none"]

\* get_rule_for_action: only an active rule counts.
RuleInForce(t) == IF rule[t] # None /\ rule[t].active THEN rule[t] ELSE None

Gated(t) == enabled /\ RuleInForce(t) # None /\ RuleInForce(t).required

\* can_user_approve, on the rule snapshot stored with the request.
CanApprove(u, snap) ==
  \/ u \in Admins
  \/ snap # None /\ u \in snap.approvers
  \/ snap # None /\ \E g \in snap.approvers \cap Groups : u \in Members[g]
  \/ defaultGroup # None /\ u \in Members[defaultGroup]

SelfAllowed(snap) == snap # None /\ snap.selfOk

\* Mutant of Close: the status moves on, the secrets stay in the row.
CloseKeepingSecrets(R, status) ==
  [r \in Reqs |-> IF r \in R THEN [req[r] EXCEPT !.status = status] ELSE req[r]]

\* The rows of R leave the open states; their secrets are erased with them.
Close(R, status) ==
  [r \in Reqs |-> IF r \in R THEN [req[r] EXCEPT !.status = status, !.blob = FALSE]
                  ELSE req[r]]

WithStatus(S) == {r \in Reqs : req[r].status \in S}

Begin(p, c) == call[p] = Idle /\ call' = [call EXCEPT ![p] = c]
End(p) == call' = [call EXCEPT ![p] = Idle]

-----------------------------------------------------------------------------
(***************************************************************************)
(* Submitting and resubmitting.                                            *)
(***************************************************************************)

\* requires_approval / create_approval: both reads of the toggle and the rule.
CreateCheck(p, u, t, secret) ==
  /\ Gated(t)
  /\ Begin(p, [op |-> "create", req |-> None, by |-> u, target |-> t,
               snap |-> RuleInForce(t), blob |-> secret])
  /\ UNCHANGED <<enabled, defaultGroup, rule, req, sjBlock>>

\* resubmit_approval: the old row's secrets travel along if it still has any;
\* neither the toggle nor `required' is looked at.
ResubmitCheck(p, r) ==
  /\ req[r].status \in {"rejected", "suspended"}
  /\ Begin(p, [op |-> "resubmit", req |-> r, by |-> req[r].by, target |-> req[r].target,
               snap |-> RuleInForce(req[r].target), blob |-> req[r].blob])
  /\ UNCHANGED <<enabled, defaultGroup, rule, req, sjBlock>>

Insert(p, r) ==
  /\ call[p].op \in {"create", "resubmit"}
  /\ req[r].status = "absent"
  /\ req' = [req EXCEPT ![r] =
               [status |-> "pending", target |-> call[p].target, by |-> call[p].by,
                snap |-> call[p].snap, blob |-> call[p].blob, overdue |-> FALSE,
                runs |-> 0, ranBy |-> {}]]
  /\ End(p)
  /\ UNCHANGED <<enabled, defaultGroup, rule, sjBlock>>

-----------------------------------------------------------------------------
(***************************************************************************)
(* approve_approval, step by step.                                         *)
(***************************************************************************)

\* Mutant of ApproveCheck: no self-approval check.
ApproveCheckSelf(p, u, r) ==
  /\ req[r].status = "pending"
  /\ CanApprove(u, req[r].snap)
  /\ Begin(p, [Idle EXCEPT !.op = "decide", !.req = r, !.by = u])
  /\ UNCHANGED <<enabled, defaultGroup, rule, req, sjBlock>>

\* Mutant of ApproveCheck: an approved request may be approved again.
ApproveCheckAgain(p, u, r) ==
  /\ req[r].status \in {"pending", "approved"}
  /\ CanApprove(u, req[r].snap)
  /\ u = req[r].by => SelfAllowed(req[r].snap)
  /\ Begin(p, [Idle EXCEPT !.op = "decide", !.req = r, !.by = u])
  /\ UNCHANGED <<enabled, defaultGroup, rule, req, sjBlock>>

\* Router check, get_approval, status and self-approval checks.
ApproveCheck(p, u, r) ==
  /\ req[r].status = "pending"
  /\ CanApprove(u, req[r].snap)
  /\ u = req[r].by => SelfAllowed(req[r].snap)
  /\ Begin(p, [Idle EXCEPT !.op = "decide", !.req = r, !.by = u])
  /\ UNCHANGED <<enabled, defaultGroup, rule, req, sjBlock>>

\* Mutant of ApproveDecide: executed is written before the handler has run.
ApproveDecideEarly(p) ==
  /\ call[p].op = "decide"
  /\ LET r == call[p].req IN
       req' = IF req[r].status = "pending"
              THEN [req EXCEPT ![r].status = "executed"] ELSE req
  /\ call' = [call EXCEPT ![p].op = "execute"]
  /\ UNCHANGED <<enabled, defaultGroup, rule, sjBlock>>

\* UPDATE ... WHERE status='pending'; the row count is not looked at.
ApproveDecide(p) ==
  /\ call[p].op = "decide"
  /\ LET r == call[p].req IN
       req' = IF req[r].status = "pending"
              THEN [req EXCEPT ![r].status = "approved"] ELSE req
  /\ call' = [call EXCEPT ![p].op = "execute"]
  /\ UNCHANGED <<enabled, defaultGroup, rule, sjBlock>>

\* The row is read again and its handler started, whatever its status.
ApproveExecute(p) ==
  /\ call[p].op = "execute"
  /\ LET r == call[p].req IN
       req' = [req EXCEPT ![r].runs = @ + 1, ![r].ranBy = @ \cup {call[p].by}]
  /\ call' = [call EXCEPT ![p].op = "handler"]
  /\ UNCHANGED <<enabled, defaultGroup, rule, sjBlock>>

\* The handler returned: UPDATE ... SET status='executed', unconditionally.
ApproveExecuted(p) ==
  /\ call[p].op = "handler"
  /\ req' = Close({call[p].req}, "executed")
  /\ End(p)
  /\ UNCHANGED <<enabled, defaultGroup, rule, sjBlock>>

\* Mutant of ApproveFailed: the request is put back for another decision.
ApproveFailedReopens(p) ==
  /\ call[p].op = "handler"
  /\ req' = [req EXCEPT ![call[p].req].status = "pending", ![call[p].req].blob = FALSE]
  /\ End(p)
  /\ UNCHANGED <<enabled, defaultGroup, rule, sjBlock>>

\* Mutant of ApproveFailed: the secrets are not erased.
ApproveFailedKeeps(p) ==
  /\ call[p].op = "handler"
  /\ End(p)
  /\ UNCHANGED <<enabled, defaultGroup, rule, req, sjBlock>>

\* The handler raised: the blob is cleared, the status is left as it is.
ApproveFailed(p) ==
  /\ call[p].op = "handler"
  /\ req' = [req EXCEPT ![call[p].req].blob = FALSE]
  /\ End(p)
  /\ UNCHANGED <<enabled, defaultGroup, rule, sjBlock>>

-----------------------------------------------------------------------------
(***************************************************************************)
(* Rejecting, withdrawing, expiring.                                       *)
(***************************************************************************)
Reject(u, r) ==
  /\ req[r].status = "pending"
  /\ CanApprove(u, req[r].snap)
  /\ req' = Close({r}, "rejected")
  /\ UNCHANGED <<enabled, defaultGroup, rule, call, sjBlock>>

\* Mutant of Cancel: no test of the status.
CancelAny(u, r) ==
  /\ u = req[r].by \/ u \in Admins
  /\ req' = Close({r}, "cancelled")
  /\ UNCHANGED <<enabled, defaultGroup, rule, call, sjBlock>>

\* Mutant of Cancel: the other spelling of the status.
CancelMisspelt(u, r) ==
  /\ req[r].status \in Open
  /\ u = req[r].by \/ u \in Admins
  /\ req' = Close({r}, "canceled")
  /\ UNCHANGED <<enabled, defaultGroup, rule, call, sjBlock>>

Cancel(u, r) ==
  /\ req[r].status \in Open
  /\ u = req[r].by \/ u \in Admins
  /\ req' = Close({r}, "cancelled")
  /\ UNCHANGED <<enabled, defaultGroup, rule, call, sjBlock>>

\* Time passes expires_at of request r.
PassExpiry(r) ==
  /\ req[r].status \in Open /\ ~req[r].overdue
  /\ req' = [req EXCEPT ![r].overdue = TRUE]
  /\ UNCHANGED <<enabled, defaultGroup, rule, call, sjBlock>>

Overdue == {r \in WithStatus({"pending"}) : req[r].overdue}

\* expire_overdue_approvals, for all requests at once, some time after the router was
\* asked for a pending one.  Nothing else starts it: the Celery task that should is not
\* registered (approvals_plus.register_approval_celery_tasks calls a name that tasks.py
\* does not have).  So it need not happen, and has no fairness.
ExpireOverdue ==
  /\ Overdue # {}
  /\ req' = Close(Overdue, "expired")
  /\ UNCHANGED <<enabled, defaultGroup, rule, call, sjBlock>>

-----------------------------------------------------------------------------
(***************************************************************************)
(* The master toggle.                                                      *)
(***************************************************************************)

\* update_workflow_config, which the toggle endpoint calls last.
SetDefaultGroup(g) == defaultGroup' = IF g = None THEN defaultGroup ELSE g

\* Any active required playbook_run rule suspends every active job.
EnableWorkflow(g) ==
  /\ sjBlock' = IF \E t \in Targets : RuleInForce(t) # None /\ RuleInForce(t).required
                THEN [j \in SJobs |-> IF sjBlock[j] = "none" THEN "suspended" ELSE sjBlock[j]]
                ELSE sjBlock
  /\ enabled' = TRUE
  /\ SetDefaultGroup(g)
  /\ UNCHANGED <<rule, req, call>>

DisableWorkflow(g) ==
  /\ req' = Close(WithStatus(Open), "cancelled")
  /\ sjBlock' = [j \in SJobs |-> "none"]
  /\ enabled' = FALSE
  /\ SetDefaultGroup(g)
  /\ UNCHANGED <<rule, call>>

\* scheduled_jobs/router.create_job found the new job to need an approval.
BlockNewJob(j) ==
  /\ enabled
  /\ sjBlock[j] = "none"
  /\ sjBlock' = [sjBlock EXCEPT ![j] = "pending_approval"]
  /\ UNCHANGED <<enabled, defaultGroup, rule, req, call>>

-----------------------------------------------------------------------------
(***************************************************************************)
(* Rules.                                                                  *)
(***************************************************************************)
NewRule(s, source) ==
  [required |-> s.required, selfOk |-> s.selfOk, approvers |-> s.approvers,
   source |-> source, active |-> TRUE]

CreateRule(t, s) ==
  /\ rule[t] = None
  /\ rule' = [rule EXCEPT ![t] = NewRule(s, "ui_override")]
  /\ UNCHANGED <<enabled, defaultGroup, req, call, sjBlock>>

\* update_rule with a significant field: the row first, the suspension in a
\* later transaction.
UpdateRule(p, t, s) ==
  /\ rule[t] # None
  /\ rule' = [rule EXCEPT ![t] = [@ EXCEPT !.required = s.required, !.selfOk = s.selfOk,
                                           !.approvers = s.approvers]]
  /\ Begin(p, [Idle EXCEPT !.op = "suspend", !.target = t])
  /\ UNCHANGED <<enabled, defaultGroup, req, sjBlock>>

\* _suspend_pending_for_rule: the secrets of a suspended request are kept.
SuspendPending(p) ==
  /\ call[p].op = "suspend"
  /\ LET t == call[p].target IN
     /\ req' = [r \in Reqs |->
                  IF req[r].status = "pending" /\ req[r].target = t
                  THEN [req[r] EXCEPT !.status = "suspended"] ELSE req[r]]
     /\ sjBlock' = [j \in SJobs |->
                      IF SJobTarget[j] = t /\ sjBlock[j] = "none"
                      THEN "suspended" ELSE sjBlock[j]]
  /\ End(p)
  /\ UNCHANGED <<enabled, defaultGroup, rule>>

\* update_rule with is_active only: not a significant field.
ToggleRuleActive(t) ==
  /\ rule[t] # None
  /\ rule' = [rule EXCEPT ![t].active = ~@]
  /\ UNCHANGED <<enabled, defaultGroup, req, call, sjBlock>>

DeleteRule(t) ==
  /\ rule[t] # None
  /\ rule[t].source # "meta_yaml"
  /\ rule' = [rule EXCEPT ![t] = None]
  /\ UNCHANGED <<enabled, defaultGroup, req, call, sjBlock>>

\* sync_meta_yaml_rule: a UI override keeps its settings; nothing is suspended.
SyncMetaYaml(t, s) ==
  /\ rule[t] # None => rule[t].source = "meta_yaml"
  /\ rule' = [rule EXCEPT ![t] =
                [NewRule(s, "meta_yaml") EXCEPT !.active = IF rule[t] = None THEN TRUE
                                                           ELSE rule[t].active]]
  /\ UNCHANGED <<enabled, defaultGroup, req, call, sjBlock>>

RemoveMetaYaml(t) ==
  /\ rule[t] # None
  /\ rule[t].source = "meta_yaml"
  /\ rule' = [rule EXCEPT ![t] = None]
  /\ UNCHANGED <<enabled, defaultGroup, req, call, sjBlock>>

-----------------------------------------------------------------------------
(***************************************************************************)
(* Cleanup hooks of deleted users, groups and targets.                     *)
(***************************************************************************)

\* rule row t without approver x; deactivated when `orphan' and nobody is left.
Without(x, t, orphan) ==
  IF rule[t] = None \/ x \notin rule[t].approvers THEN rule[t]
  ELSE [rule[t] EXCEPT !.approvers = @ \ {x},
                       !.active = @ /\ ~(orphan /\ rule[t].approvers = {x})]

OnUserDelete(u) ==
  /\ req' = Close({r \in WithStatus(Open) : req[r].by = u}, "cancelled")
  /\ rule' = [t \in Targets |-> Without(u, t, TRUE)]
  /\ UNCHANGED <<enabled, defaultGroup, call, sjBlock>>

OnGroupDelete(g) ==
  /\ rule' = [t \in Targets |-> Without(g, t, defaultGroup = None)]
  /\ UNCHANGED <<enabled, defaultGroup, req, call, sjBlock>>

\* on_playbook_delete, on_packer_template_delete.
OnTargetDelete(t) ==
  /\ req' = Close({r \in WithStatus(Open) : req[r].target = t}, "cancelled")
  /\ rule' = [rule EXCEPT ![t] = None]
  /\ UNCHANGED <<enabled, defaultGroup, call, sjBlock>>

\* on_vm_lxc_delete: the rule stays.
OnVmDelete(t) ==
  /\ req' = Close({r \in WithStatus(Open) : req[r].target = t}, "cancelled")
  /\ UNCHANGED <<enabled, defaultGroup, rule, call, sjBlock>>

\* A restart drops every call in flight; the rows survive.
Crash ==
  /\ Crashes
  /\ call' = [p \in Procs |-> Idle]
  /\ UNCHANGED <<enabled, defaultGroup, rule, req, sjBlock>>

-----------------------------------------------------------------------------
Submit(p) ==
  \/ \E u \in Users, t \in Targets, secret \in BOOLEAN : CreateCheck(p, u, t, secret)
  \/ \E r \in Reqs : ResubmitCheck(p, r)
  \/ \E r \in Reqs : Insert(p, r)

Approve(p) ==
  \/ \E u \in Users, r \in Reqs : ApproveCheck(p, u, r)
  \/ ApproveDecide(p)
  \/ ApproveExecute(p)
  \/ ApproveExecuted(p)
  \/ ApproveFailed(p)

Decide ==
  \/ \E u \in Users, r \in Reqs : Reject(u, r) \/ Cancel(u, r)
  \/ \E r \in Reqs : PassExpiry(r)
  \/ ExpireOverdue

Toggle ==
  \/ \E g \in Groups \cup {None} : EnableWorkflow(g) \/ DisableWorkflow(g)
  \/ \E j \in SJobs : BlockNewJob(j)

Rules ==
  \/ \E t \in Targets, s \in SettingChoices : CreateRule(t, s) \/ SyncMetaYaml(t, s)
  \/ \E p \in Procs, t \in Targets, s \in SettingChoices : UpdateRule(p, t, s)
  \/ \E p \in Procs : SuspendPending(p)
  \/ \E t \in Targets : ToggleRuleActive(t) \/ DeleteRule(t) \/ RemoveMetaYaml(t)

Cleanup ==
  \/ \E u \in Users : OnUserDelete(u)
  \/ \E g \in Groups : OnGroupDelete(g)
  \/ \E t \in Targets : OnTargetDelete(t) \/ OnVmDelete(t)
  \/ Crash

Next ==
  \/ \E p \in Procs : Submit(p) \/ Approve(p)
  \/ Decide
  \/ Toggle
  \/ Rules
  \/ Cleanup

Spec == Init /\ [][Next]_vars

(***************************************************************************)
(* The event loop resumes a call whose database or handler await is done.  *)
(***************************************************************************)
Fairness ==
  \A p \in Procs :
    /\ WF_vars(ApproveDecide(p))
    /\ WF_vars(ApproveExecute(p))
    /\ WF_vars(ApproveExecuted(p) \/ ApproveFailed(p))

FairSpec == Spec /\ Fairness

-----------------------------------------------------------------------------
(***************************************************************************)
(* Properties.                                                             *)
(***************************************************************************)

\* Every column and every in-flight call holds a value of its type.
TypeOK ==
  /\ enabled \in BOOLEAN
  /\ defaultGroup \in Groups \cup {None}
  /\ rule \in [Targets -> Rule \cup {None}]
  /\ req \in [Reqs -> Request]
  /\ call \in [Procs -> Call]
  /\ sjBlock \in [SJobs -> {"none", "pending_approval", "suspended"}]

\* Approve calls past their UPDATE for request r.
Executing(r) == {p \in Procs : call[p].req = r /\ call[p].op \in {"execute", "handler"}}

\* A request that is still open for decision has never had its handler started,
\* and no approve call is past its UPDATE: so a call that passes the status
\* check of approve_approval after a decision can never run the action again.
UndecidedNeverRan ==
  \A r \in Reqs : req[r].status = "pending" => req[r].runs = 0 /\ Executing(r) = {}

\* payload_secret_blob is gone once a request is rejected, cancelled, expired or
\* executed; while it is merely approved the secrets wait for a running
\* approve call, unless a restart took that call away.
SecretsErased ==
  \A r \in Reqs :
    /\ req[r].status \in Closed => ~req[r].blob
    /\ req[r].status = "approved" /\ req[r].blob /\ ~Crashes => Executing(r) # {}

\* The handler never runs on the requester's own decision unless the rule in
\* force at submission allowed self approval, whatever happened to the rule since.
FourEyes ==
  \A r \in Reqs : req[r].by \in req[r].ranBy => SelfAllowed(req[r].snap)

\* A closed request changes its status only to executed, and only through an
\* approve call whose handler is already running; executed is final.
FinalStep ==
  \A r \in Reqs :
    req[r].status \in Closed /\ req'[r].status # req[r].status
      => /\ req[r].status # "executed"
         /\ req'[r].status = "executed"
         /\ Executing(r) # {}

ClosedIsFinal == [][FinalStep]_vars

\* status='executed' is written only after the handler was really started.
ExecutedRan ==
  \A r \in Reqs : req[r].status = "executed" => req[r].runs > 0

\* The action behind one request is carried out at most once.
RunsOnce == \A r \in Reqs : req[r].runs <= 1

\* The secrets of an approved request are erased: its handler returns or fails.
ApprovedSecretsGo ==
  \A r \in Reqs : (req[r].status = "approved" /\ req[r].blob) ~> ~req[r].blob
=============================================================================
