-------------------------- MODULE ApprovalsProofs --------------------------
(***************************************************************************)
(* What holds of the approval workflow for every set of requests, calls,   *)
(* users, groups, rules and jobs.                                          *)
(***************************************************************************)
EXTENDS Approvals, FiniteSetTheorems, TLAPS

\* What a call in flight remembers stays true of the row it will write: the row
\* exists, its requester and snapshot do not change, and a call in its handler
\* has been counted.
CallsMatchRows ==
  \A p \in Procs :
    /\ call[p].op \in {"create", "resubmit"} => call[p].by \in Users /\ call[p].target \in Targets
    /\ call[p].op \in {"decide", "execute", "handler"} =>
         /\ call[p].req \in Reqs
         /\ call[p].by \in Users
         /\ req[call[p].req].status # "absent"
         /\ call[p].by = req[call[p].req].by => SelfAllowed(req[call[p].req].snap)
    /\ call[p].op = "handler" => req[call[p].req].runs > 0

\* A row that exists has a requester and a target; an unused id has nothing.
RowsMatchStatus ==
  \A r \in Reqs :
    IF req[r].status = "absent" THEN req[r] = Absent
    ELSE req[r].by \in Users /\ req[r].target \in Targets

\* The inductive invariant.
IInv ==
  /\ TypeOK
  /\ CallsMatchRows
  /\ RowsMatchStatus
  /\ UndecidedNeverRan
  /\ SecretsErased
  /\ FourEyes
  /\ ExecutedRan

\* What the proof of a step owes beyond typing.
Rest == CallsMatchRows /\ RowsMatchStatus /\ UndecidedNeverRan /\ SecretsErased
          /\ FourEyes /\ ExecutedRan

-----------------------------------------------------------------------------
(***************************************************************************)
(* Typing.                                                                 *)
(***************************************************************************)

\* Closing any set of rows keeps the table well typed.
LEMMA CloseTyped ==
  ASSUME TypeOK, NEW R, NEW s \in Status
  PROVE  Close(R, s) \in [Reqs -> Request]
BY ZenonT(60) DEF TypeOK, Close, Request

\* The rule in force is a rule or none.
LEMMA RuleInForceTyped ==
  ASSUME TypeOK, NEW t \in Targets
  PROVE  RuleInForce(t) \in Rule \cup {None}
BY DEF TypeOK, RuleInForce

\* Settings become a well-typed rule.
LEMMA NewRuleTyped ==
  ASSUME NEW s \in SettingChoices, NEW src \in {"meta_yaml", "ui_override"}, NEW a \in BOOLEAN
  PROVE  [NewRule(s, src) EXCEPT !.active = a] \in Rule /\ NewRule(s, src) \in Rule
BY ConstantsAssumption DEF NewRule, Rule, Settings

\* Removing an approver leaves a well-typed rule.
LEMMA WithoutTyped ==
  ASSUME TypeOK, NEW x, NEW t \in Targets, NEW orphan \in BOOLEAN
  PROVE  Without(x, t, orphan) \in Rule \cup {None}
<1>1. CASE rule[t] = None \/ x \notin rule[t].approvers
  BY <1>1 DEF TypeOK, Without
<1>2. CASE ~(rule[t] = None \/ x \notin rule[t].approvers)
  <2>1. rule[t] \in Rule
    BY <1>2 DEF TypeOK
  <2> QED BY <1>2, <2>1 DEF Without, Rule
<1> QED BY <1>1, <1>2

\* Steps of submitting and approving calls keep the types.
LEMMA TypeCalls ==
  ASSUME TypeOK, CallsMatchRows, RowsMatchStatus, NEW p \in Procs, Submit(p) \/ Approve(p)
  PROVE  TypeOK'
<1> USE DEF TypeOK
<1>0. Idle \in Call
  BY DEF Idle, Call
<1>1. ASSUME NEW u \in Users, NEW t \in Targets, NEW secret \in BOOLEAN,
             CreateCheck(p, u, t, secret)
      PROVE  TypeOK'
  BY <1>1, RuleInForceTyped DEF CreateCheck, Begin, Call
<1>2. ASSUME NEW r \in Reqs, ResubmitCheck(p, r)
      PROVE  TypeOK'
  <2>1. req[r].target \in Targets /\ req[r].by \in Users /\ req[r].blob \in BOOLEAN
    BY <1>2 DEF RowsMatchStatus, ResubmitCheck, Request
  <2>2. RuleInForce(req[r].target) \in Rule \cup {None}
    BY <2>1, RuleInForceTyped
  <2> QED BY <1>2, <2>1, <2>2 DEF ResubmitCheck, Begin, Call
<1>3. ASSUME NEW r \in Reqs, Insert(p, r)
      PROVE  TypeOK'
  BY <1>0, <1>3 DEF Insert, End, Call, Request, Status, Open
<1>4. ASSUME NEW u \in Users, NEW r \in Reqs, ApproveCheck(p, u, r)
      PROVE  TypeOK'
  BY <1>4 DEF ApproveCheck, Begin, Call, Idle
<1>5. CASE ApproveDecide(p)
  <2>1. call[p].req \in Reqs
    BY <1>5 DEF ApproveDecide, CallsMatchRows
  <2>2. req' \in [Reqs -> Request]
    BY <1>5, <2>1 DEF ApproveDecide, Request, Status
  <2> QED BY <1>5, <2>2, SMTT(40) DEF ApproveDecide, Call
<1>6. CASE ApproveExecute(p)
  <2>1. call[p].req \in Reqs /\ call[p].by \in Users
    BY <1>6 DEF ApproveExecute, CallsMatchRows
  <2>2. req' \in [Reqs -> Request]
    BY <1>6, <2>1, SMTT(40) DEF ApproveExecute, Request
  <2> QED BY <1>6, <2>2, SMTT(40) DEF ApproveExecute, Call
<1>7. CASE ApproveExecuted(p)
  BY <1>0, <1>7, CloseTyped DEF ApproveExecuted, End, Status, Closed
<1>8. CASE ApproveFailed(p)
  BY <1>0, <1>8, ZenonT(60) DEF ApproveFailed, End, Request
<1> QED
  BY <1>1, <1>2, <1>3, <1>4, <1>5, <1>6, <1>7, <1>8 DEF Submit, Approve

\* Decisions, expiry and the master toggle keep the types.
LEMMA TypeDecisions ==
  ASSUME TypeOK, Decide \/ Toggle
  PROVE  TypeOK'
<1> USE DEF TypeOK
<1>0. {"rejected", "cancelled", "expired"} \subseteq Status
  BY DEF Status, Closed
<1>1. ASSUME NEW u \in Users, NEW r \in Reqs, Reject(u, r)
      PROVE  TypeOK'
  BY <1>0, <1>1, CloseTyped DEF Reject
<1>2. ASSUME NEW u \in Users, NEW r \in Reqs, Cancel(u, r)
      PROVE  TypeOK'
  BY <1>0, <1>2, CloseTyped DEF Cancel
<1>3. ASSUME NEW r \in Reqs, PassExpiry(r)
      PROVE  TypeOK'
  BY <1>3, ZenonT(60) DEF PassExpiry, Request
<1>4. CASE ExpireOverdue
  BY <1>0, <1>4, CloseTyped DEF ExpireOverdue
<1>5. ASSUME NEW g \in Groups \cup {None}, EnableWorkflow(g)
      PROVE  TypeOK'
  BY <1>5 DEF EnableWorkflow, SetDefaultGroup
<1>6. ASSUME NEW g \in Groups \cup {None}, DisableWorkflow(g)
      PROVE  TypeOK'
  BY <1>0, <1>6, CloseTyped DEF DisableWorkflow, SetDefaultGroup
<1>7. ASSUME NEW j \in SJobs, BlockNewJob(j)
      PROVE  TypeOK'
  BY <1>7 DEF BlockNewJob
<1> QED
  BY <1>1, <1>2, <1>3, <1>4, <1>5, <1>6, <1>7 DEF Decide, Toggle

\* Rule changes, cleanup hooks and restarts keep the types.
LEMMA TypeRules ==
  ASSUME TypeOK, Rules \/ Cleanup
  PROVE  TypeOK'
<1> USE DEF TypeOK
<1>0. Idle \in Call /\ "cancelled" \in Status
  BY DEF Idle, Call, Status, Closed
<1>1. ASSUME NEW t \in Targets, NEW s \in SettingChoices, CreateRule(t, s)
      PROVE  TypeOK'
  BY <1>1, NewRuleTyped DEF CreateRule
<1>2. ASSUME NEW t \in Targets, NEW s \in SettingChoices, SyncMetaYaml(t, s)
      PROVE  TypeOK'
  <2> DEFINE a == IF rule[t] = None THEN TRUE ELSE rule[t].active
  <2>1. a \in BOOLEAN
    BY DEF Rule
  <2>2. [NewRule(s, "meta_yaml") EXCEPT !.active = a] \in Rule
    BY <2>1, NewRuleTyped
  <2> QED BY <1>2, <2>2 DEF SyncMetaYaml
<1>3. ASSUME NEW p \in Procs, NEW t \in Targets, NEW s \in SettingChoices, UpdateRule(p, t, s)
      PROVE  TypeOK'
  <2>1. s \in Settings
    BY ConstantsAssumption
  <2>2. rule' \in [Targets -> Rule \cup {None}]
    BY <1>3, <2>1, ZenonT(60) DEF UpdateRule, Rule, Settings
  <2> QED BY <1>3, <2>2 DEF UpdateRule, Begin, Call, Idle
<1>4. ASSUME NEW p \in Procs, SuspendPending(p)
      PROVE  TypeOK'
  BY <1>0, <1>4, SMTT(40) DEF SuspendPending, End, Request, Status, Open
<1>5. ASSUME NEW t \in Targets, ToggleRuleActive(t)
      PROVE  TypeOK'
  BY <1>5, ZenonT(60) DEF ToggleRuleActive, Rule
<1>6. ASSUME NEW t \in Targets, DeleteRule(t) \/ RemoveMetaYaml(t)
      PROVE  TypeOK'
  BY <1>6 DEF DeleteRule, RemoveMetaYaml
<1>7. ASSUME NEW u \in Users, OnUserDelete(u)
      PROVE  TypeOK'
  BY <1>0, <1>7, CloseTyped, WithoutTyped DEF OnUserDelete
<1>8. ASSUME NEW g \in Groups, OnGroupDelete(g)
      PROVE  TypeOK'
  BY <1>8, WithoutTyped DEF OnGroupDelete
<1>9. ASSUME NEW t \in Targets, OnTargetDelete(t) \/ OnVmDelete(t)
      PROVE  TypeOK'
  BY <1>0, <1>9, CloseTyped DEF OnTargetDelete, OnVmDelete
<1>10. CASE Crash
  BY <1>0, <1>10 DEF Crash
<1> QED
  BY <1>1, <1>2, <1>3, <1>4, <1>5, <1>6, <1>7, <1>8, <1>9, <1>10 DEF Rules, Cleanup

-----------------------------------------------------------------------------
(***************************************************************************)
(* The other conjuncts.                                                    *)
(***************************************************************************)

\* Nothing but typing depends on the configuration, the rules and the jobs.
LEMMA RestUnchanged ==
  ASSUME Rest, UNCHANGED <<req, call>>
  PROVE  Rest'
BY DEF Rest, CallsMatchRows, RowsMatchStatus, UndecidedNeverRan, SecretsErased, FourEyes,
       ExecutedRan, Executing, SelfAllowed

\* Closing open rows while no call moves.
LEMMA RestClose ==
  ASSUME TypeOK, Rest, NEW R, R \subseteq WithStatus(Open),
         NEW s \in {"rejected", "cancelled", "expired"},
         req' = Close(R, s), call' = call
  PROVE  Rest'
<1>1. \A r \in Reqs :
        /\ req[r] \in Request
        /\ r \in R => /\ req[r].status \in Open
                      /\ req'[r] = [req[r] EXCEPT !.status = s, !.blob = FALSE]
        /\ r \notin R => req'[r] = req[r]
  BY DEF TypeOK, Close, WithStatus
<1>2. \A r \in Reqs :
        /\ req'[r].by = req[r].by /\ req'[r].target = req[r].target
        /\ req'[r].snap = req[r].snap /\ req'[r].runs = req[r].runs
        /\ req'[r].ranBy = req[r].ranBy
        /\ req[r].status = "absent" => req'[r] = req[r]
        /\ req[r].status # "absent" => req'[r].status # "absent"
        /\ req'[r].status \in {"pending", "approved", "executed"} => req'[r] = req[r]
        /\ req'[r].status \in Closed => req'[r] = req[r] \/ ~req'[r].blob
  <2> SUFFICES ASSUME NEW r \in Reqs
               PROVE  /\ req'[r].by = req[r].by /\ req'[r].target = req[r].target
                      /\ req'[r].snap = req[r].snap /\ req'[r].runs = req[r].runs
                      /\ req'[r].ranBy = req[r].ranBy
                      /\ req[r].status = "absent" => req'[r] = req[r]
                      /\ req[r].status # "absent" => req'[r].status # "absent"
                      /\ req'[r].status \in {"pending", "approved", "executed"}
                           => req'[r] = req[r]
                      /\ req'[r].status \in Closed => req'[r] = req[r] \/ ~req'[r].blob
    OBVIOUS
  <2>1. CASE r \notin R
    BY <1>1, <2>1
  <2>2. CASE r \in R
    <3>1. /\ req[r] \in Request
          /\ req[r].status \in Open
          /\ req'[r] = [req[r] EXCEPT !.status = s, !.blob = FALSE]
      BY <1>1, <2>2
    <3>2. /\ req'[r].status = s /\ req'[r].blob = FALSE
          /\ req'[r].by = req[r].by /\ req'[r].target = req[r].target
          /\ req'[r].snap = req[r].snap /\ req'[r].runs = req[r].runs
          /\ req'[r].ranBy = req[r].ranBy
      BY <3>1 DEF Request
    <3> QED BY <3>1, <3>2 DEF Open
  <2> QED BY <2>1, <2>2
<1>3. CallsMatchRows' /\ RowsMatchStatus'
  BY <1>2 DEF Rest, CallsMatchRows, RowsMatchStatus, SelfAllowed
<1>4. UndecidedNeverRan' /\ SecretsErased'
  BY <1>2 DEF Rest, UndecidedNeverRan, SecretsErased, Executing, Closed
<1>5. FourEyes' /\ ExecutedRan'
  BY <1>2 DEF Rest, FourEyes, ExecutedRan, SelfAllowed
<1> QED BY <1>3, <1>4, <1>5 DEF Rest

\* Starting a call that decides nothing yet, ending one that is not an
\* approval, and losing calls to a restart.
LEMMA RestCall ==
  ASSUME TypeOK, Rest, req' = req, call' \in [Procs -> Call],
         \A p \in Procs : \/ call'[p] = call[p]
                          \/ call[p] = Idle /\ call'[p].op \in {"create", "resubmit", "suspend"}
                               /\ call'[p].by \in Users \cup {None}
                               /\ (call'[p].op # "suspend" =>
                                     call'[p].by \in Users /\ call'[p].target \in Targets)
                          \/ Crashes /\ call'[p] = Idle
  PROVE  Rest'
<1>1. \A p \in Procs : call'[p].op \in {"decide", "execute", "handler"} => call'[p] = call[p]
  BY DEF Idle
<1>2. CallsMatchRows' /\ RowsMatchStatus'
  BY <1>1 DEF Rest, CallsMatchRows, RowsMatchStatus, SelfAllowed, Idle
<1>3. UndecidedNeverRan'
  BY <1>1 DEF Rest, UndecidedNeverRan, Executing
<1>4. SecretsErased'
  <2>1. CASE Crashes
    BY <2>1 DEF Rest, SecretsErased
  <2>2. CASE ~Crashes
    <3>1. \A r \in Reqs : Executing(r) \subseteq Executing(r)'
      BY <2>2 DEF Executing, Idle
    <3> QED BY <2>2, <3>1 DEF Rest, SecretsErased
  <2> QED BY <2>1, <2>2
<1>5. FourEyes' /\ ExecutedRan'
  BY DEF Rest, FourEyes, ExecutedRan, SelfAllowed
<1> QED BY <1>2, <1>3, <1>4, <1>5 DEF Rest

\* A submitted or resubmitted request enters the table.
LEMMA RestInsert ==
  ASSUME TypeOK, Rest, NEW p \in Procs, NEW r \in Reqs, Insert(p, r)
  PROVE  Rest'
<1>1. /\ call' = [call EXCEPT ![p] = Idle]
      /\ \A q \in Procs \ {p} : call'[q] = call[q]
      /\ call'[p] = Idle
  BY DEF Insert, End, TypeOK
<1>2. /\ req'[r].status = "pending" /\ req'[r].runs = 0 /\ req'[r].ranBy = {}
      /\ req'[r].by \in Users /\ req'[r].target \in Targets
      /\ \A x \in Reqs \ {r} : req'[x] = req[x]
  BY DEF Insert, TypeOK, Rest, CallsMatchRows
<1>3. \A q \in Procs : call[q].op \in {"decide", "execute", "handler"} => call[q].req # r
  BY DEF Rest, CallsMatchRows, Insert
<1>4. CallsMatchRows' /\ RowsMatchStatus'
  BY <1>1, <1>2, <1>3 DEF Rest, CallsMatchRows, RowsMatchStatus, SelfAllowed, Idle
<1>5. UndecidedNeverRan'
  BY <1>1, <1>2, <1>3 DEF Rest, UndecidedNeverRan, Executing, Idle
<1>6. SecretsErased'
  <2>1. \A x \in Reqs : Executing(x) \subseteq Executing(x)'
    BY <1>1 DEF Insert, Executing
  <2> QED BY <1>2, <2>1 DEF Rest, SecretsErased, Closed
<1>7. FourEyes' /\ ExecutedRan'
  BY <1>2 DEF Rest, FourEyes, ExecutedRan, SelfAllowed
<1> QED BY <1>4, <1>5, <1>6, <1>7 DEF Rest

\* A rule change suspends pending requests of its target; time passes.
LEMMA RestSuspend ==
  ASSUME TypeOK, Rest, NEW p \in Procs, SuspendPending(p)
  PROVE  Rest'
<1>1. /\ \A q \in Procs \ {p} : call'[q] = call[q]
      /\ call'[p] = Idle /\ call[p].op = "suspend"
  BY DEF SuspendPending, End, TypeOK
<1>2. \A r \in Reqs :
        \/ req'[r] = req[r]
        \/ /\ req[r].status = "pending" /\ req'[r].status = "suspended"
           /\ req'[r].by = req[r].by /\ req'[r].target = req[r].target
           /\ req'[r].snap = req[r].snap /\ req'[r].runs = req[r].runs
           /\ req'[r].ranBy = req[r].ranBy
  BY DEF SuspendPending, TypeOK, Request
<1>3. CallsMatchRows' /\ RowsMatchStatus'
  BY <1>1, <1>2 DEF Rest, CallsMatchRows, RowsMatchStatus, SelfAllowed, Idle
<1>4. \A x \in Reqs : Executing(x)' = Executing(x)
  BY <1>1 DEF Executing, Idle
<1>5. UndecidedNeverRan' /\ SecretsErased'
  BY <1>2, <1>4 DEF Rest, UndecidedNeverRan, SecretsErased, Closed
<1>6. FourEyes' /\ ExecutedRan'
  BY <1>2 DEF Rest, FourEyes, ExecutedRan, SelfAllowed
<1> QED BY <1>3, <1>5, <1>6 DEF Rest

\* Time passing closes expired requests and leaves the rest of IInv.
LEMMA RestPassExpiry ==
  ASSUME TypeOK, Rest, NEW r \in Reqs, PassExpiry(r)
  PROVE  Rest'
<1>1. call' = call
  BY DEF PassExpiry
<1>2. \A x \in Reqs :
        \/ req'[x] = req[x]
        \/ /\ req'[x].status = req[x].status /\ req[x].status # "absent"
           /\ req'[x].by = req[x].by /\ req'[x].target = req[x].target
           /\ req'[x].snap = req[x].snap /\ req'[x].runs = req[x].runs
           /\ req'[x].ranBy = req[x].ranBy /\ req'[x].blob = req[x].blob
  BY DEF PassExpiry, TypeOK, Request, Open
<1>3. CallsMatchRows' /\ RowsMatchStatus'
  BY <1>1, <1>2 DEF Rest, CallsMatchRows, RowsMatchStatus, SelfAllowed
<1>4. UndecidedNeverRan' /\ SecretsErased'
  BY <1>1, <1>2 DEF Rest, UndecidedNeverRan, SecretsErased, Executing
<1>5. FourEyes' /\ ExecutedRan'
  BY <1>2 DEF Rest, FourEyes, ExecutedRan, SelfAllowed
<1> QED BY <1>3, <1>4, <1>5 DEF Rest

\* The five steps of approve_approval.
LEMMA RestApprove ==
  ASSUME TypeOK, Rest, NEW p \in Procs, Approve(p)
  PROVE  Rest'
<1> DEFINE r == call[p].req
<1>0. \A q \in Procs : call[q] \in Call
  BY DEF TypeOK
<1>1. ASSUME NEW u \in Users, NEW x \in Reqs, ApproveCheck(p, u, x)
      PROVE  Rest'
  <2>1. /\ \A q \in Procs \ {p} : call'[q] = call[q]
        /\ call'[p].op = "decide" /\ call'[p].req = x /\ call'[p].by = u
        /\ call[p] = Idle
    BY <1>1 DEF ApproveCheck, Begin, TypeOK, Idle
  <2>2. req' = req /\ req[x].status = "pending" /\ (u = req[x].by => SelfAllowed(req[x].snap))
    BY <1>1 DEF ApproveCheck
  <2>3. CallsMatchRows' /\ RowsMatchStatus'
    BY <2>1, <2>2 DEF Rest, CallsMatchRows, RowsMatchStatus, SelfAllowed
  <2>4. \A y \in Reqs : Executing(y)' = Executing(y)
    BY <2>1 DEF Executing, Idle
  <2> QED BY <2>2, <2>3, <2>4 DEF Rest, UndecidedNeverRan, SecretsErased, FourEyes,
                                 ExecutedRan, SelfAllowed
<1>2. CASE ApproveDecide(p)
  <2>1. /\ \A q \in Procs \ {p} : call'[q] = call[q]
        /\ call[p].op = "decide" /\ call'[p].op = "execute"
        /\ call'[p].req = r /\ call'[p].by = call[p].by
    BY <1>0, <1>2 DEF ApproveDecide, TypeOK, Call
  <2>2. r \in Reqs
    BY <2>1 DEF Rest, CallsMatchRows
  <2>3. \A y \in Reqs :
          \/ req'[y] = req[y] /\ (y = r => req[y].status # "pending")
          \/ /\ y = r /\ req[y].status = "pending" /\ req'[y].status = "approved"
             /\ req'[y].by = req[y].by /\ req'[y].target = req[y].target
             /\ req'[y].snap = req[y].snap /\ req'[y].runs = req[y].runs
             /\ req'[y].ranBy = req[y].ranBy
    BY <1>2, <2>2 DEF ApproveDecide, TypeOK, Request
  <2>4. CallsMatchRows' /\ RowsMatchStatus'
    BY <2>1, <2>3 DEF Rest, CallsMatchRows, RowsMatchStatus, SelfAllowed
  <2>5. /\ \A y \in Reqs : Executing(y) \subseteq Executing(y)'
        /\ \A y \in Reqs \ {r} : Executing(y)' = Executing(y)
        /\ \A y \in Reqs : y = r => p \in Executing(y)'
    BY <2>1 DEF Executing
  <2>6. UndecidedNeverRan' /\ SecretsErased'
    BY <2>2, <2>3, <2>5 DEF Rest, UndecidedNeverRan, SecretsErased, Closed
  <2>7. FourEyes' /\ ExecutedRan'
    BY <2>3 DEF Rest, FourEyes, ExecutedRan, SelfAllowed
  <2> QED BY <2>4, <2>6, <2>7 DEF Rest
<1>3. CASE ApproveExecute(p)
  <2>1. /\ \A q \in Procs \ {p} : call'[q] = call[q]
        /\ call[p].op = "execute" /\ call'[p].op = "handler"
        /\ call'[p].req = r /\ call'[p].by = call[p].by
    BY <1>0, <1>3 DEF ApproveExecute, TypeOK, Call
  <2>2. /\ r \in Reqs /\ req[r].status # "absent" /\ req[r].status # "pending"
        /\ call[p].by = req[r].by => SelfAllowed(req[r].snap)
    BY <2>1 DEF Rest, CallsMatchRows, UndecidedNeverRan, Executing
  <2>3. /\ \A y \in Reqs \ {r} : req'[y] = req[y]
        /\ req'[r].status = req[r].status /\ req'[r].blob = req[r].blob
        /\ req'[r].by = req[r].by /\ req'[r].target = req[r].target
        /\ req'[r].snap = req[r].snap /\ req'[r].runs = req[r].runs + 1
        /\ req'[r].ranBy = req[r].ranBy \cup {call[p].by}
        /\ req[r].runs \in Nat
    BY <1>3, <2>2, SMTT(40) DEF ApproveExecute, TypeOK, Request
  <2>4. CallsMatchRows' /\ RowsMatchStatus'
    BY <2>1, <2>2, <2>3 DEF Rest, CallsMatchRows, RowsMatchStatus, SelfAllowed
  <2>5. \A y \in Reqs : Executing(y)' = Executing(y)
    BY <2>1 DEF Executing
  <2>6. UndecidedNeverRan' /\ SecretsErased'
    BY <2>2, <2>3, <2>5 DEF Rest, UndecidedNeverRan, SecretsErased
  <2>7. FourEyes'
    BY <2>2, <2>3 DEF Rest, FourEyes, SelfAllowed
  <2>8. ExecutedRan'
    BY <2>2, <2>3 DEF Rest, ExecutedRan
  <2> QED BY <2>4, <2>6, <2>7, <2>8 DEF Rest
<1>4. CASE ApproveExecuted(p) \/ ApproveFailed(p)
  <2>1. /\ \A q \in Procs \ {p} : call'[q] = call[q]
        /\ call[p].op = "handler" /\ call'[p] = Idle
    BY <1>4 DEF ApproveExecuted, ApproveFailed, End, TypeOK
  <2>2. /\ r \in Reqs /\ req[r].status # "absent" /\ req[r].status # "pending"
        /\ req[r].runs > 0
    BY <2>1 DEF Rest, CallsMatchRows, UndecidedNeverRan, Executing
  <2>3. /\ \A y \in Reqs \ {r} : req'[y] = req[y]
        /\ req'[r].status \in {req[r].status, "executed"} /\ req'[r].blob = FALSE
        /\ req'[r].by = req[r].by /\ req'[r].target = req[r].target
        /\ req'[r].snap = req[r].snap /\ req'[r].runs = req[r].runs
        /\ req'[r].ranBy = req[r].ranBy
    <3>1. CASE ApproveExecuted(p)
      BY <2>2, <3>1, ZenonT(60) DEF ApproveExecuted, Close, TypeOK, Request
    <3>2. CASE ApproveFailed(p)
      BY <2>2, <3>2 DEF ApproveFailed, TypeOK, Request
    <3> QED BY <1>4, <3>1, <3>2
  <2>4. CallsMatchRows' /\ RowsMatchStatus'
    BY <2>1, <2>2, <2>3 DEF Rest, CallsMatchRows, RowsMatchStatus, SelfAllowed, Idle
  <2>5. \A y \in Reqs : /\ Executing(y)' \subseteq Executing(y)
                        /\ y # r => Executing(y)' = Executing(y)
    BY <2>1 DEF Executing, Idle
  <2>6. UndecidedNeverRan' /\ SecretsErased'
    BY <2>2, <2>3, <2>5 DEF Rest, UndecidedNeverRan, SecretsErased, Closed
  <2>7. FourEyes' /\ ExecutedRan'
    BY <2>2, <2>3 DEF Rest, FourEyes, ExecutedRan, SelfAllowed
  <2> QED BY <2>4, <2>6, <2>7 DEF Rest
<1> QED BY <1>1, <1>2, <1>3, <1>4 DEF Approve

-----------------------------------------------------------------------------
(***************************************************************************)
(* The invariant is inductive.                                             *)
(***************************************************************************)
\* The initial states satisfy the invariant.
LEMMA InitIInv == Init => IInv
<1> SUFFICES ASSUME Init PROVE IInv
  OBVIOUS
<1>1. TypeOK
  BY DEF Init, TypeOK, Absent, Idle, Request, Call, Status
<1>2. CallsMatchRows /\ RowsMatchStatus
  BY DEF Init, CallsMatchRows, RowsMatchStatus, Absent, Idle
<1>3. UndecidedNeverRan /\ SecretsErased /\ FourEyes /\ ExecutedRan
  BY DEF Init, UndecidedNeverRan, SecretsErased, FourEyes, ExecutedRan, Absent, Closed
<1> QED BY <1>1, <1>2, <1>3 DEF IInv

\* Every step keeps the types.
LEMMA StepType == IInv /\ [Next]_vars => TypeOK'
<1> SUFFICES ASSUME IInv, [Next]_vars PROVE TypeOK'
  OBVIOUS
<1>1. CASE UNCHANGED vars
  BY <1>1 DEF IInv, TypeOK, vars
<1>2. CASE Next
  BY <1>2, TypeCalls, TypeDecisions, TypeRules DEF IInv, Next
<1> QED BY <1>1, <1>2

\* Every step keeps the rest of the invariant.
LEMMA StepRest == IInv /\ TypeOK' /\ [Next]_vars => Rest'
<1> SUFFICES ASSUME IInv, TypeOK', [Next]_vars PROVE Rest'
  OBVIOUS
<1>0. TypeOK /\ Rest
  BY DEF IInv, Rest
<1>1. ASSUME NEW p \in Procs, Submit(p)
      PROVE  Rest'
  <2>1. ASSUME NEW u \in Users, NEW t \in Targets, NEW secret \in BOOLEAN,
               CreateCheck(p, u, t, secret)
        PROVE  Rest'
    <3>1. /\ req' = req /\ call' \in [Procs -> Call]
          /\ call[p] = Idle /\ call'[p].op = "create"
          /\ call'[p].by \in Users /\ call'[p].target \in Targets
          /\ \A q \in Procs \ {p} : call'[q] = call[q]
      BY <1>0, <2>1 DEF CreateCheck, Begin, TypeOK
    <3> QED BY <1>0, <3>1, RestCall
  <2>2. ASSUME NEW r \in Reqs, ResubmitCheck(p, r)
        PROVE  Rest'
    <3>1. req[r].by \in Users /\ req[r].target \in Targets
      BY <1>0, <2>2 DEF ResubmitCheck, Rest, RowsMatchStatus
    <3>2. /\ req' = req /\ call' \in [Procs -> Call]
          /\ call[p] = Idle /\ call'[p].op = "resubmit"
          /\ call'[p].by \in Users /\ call'[p].target \in Targets
          /\ \A q \in Procs \ {p} : call'[q] = call[q]
      BY <1>0, <2>2, <3>1 DEF ResubmitCheck, Begin, TypeOK
    <3> QED BY <1>0, <3>2, RestCall
  <2> QED BY <1>0, <1>1, <2>1, <2>2, RestInsert DEF Submit
<1>2. ASSUME NEW p \in Procs, Approve(p)
      PROVE  Rest'
  BY <1>0, <1>2, RestApprove
<1>3. CASE Decide
  <2>1. ASSUME NEW u \in Users, NEW r \in Reqs, Reject(u, r) \/ Cancel(u, r)
        PROVE  Rest'
    <3>1. {r} \subseteq WithStatus(Open)
      BY <2>1 DEF Reject, Cancel, WithStatus, Open
    <3>2. call' = call /\ (req' = Close({r}, "rejected") \/ req' = Close({r}, "cancelled"))
      BY <2>1 DEF Reject, Cancel
    <3> QED BY <1>0, <3>1, <3>2, RestClose
  <2>2. CASE ExpireOverdue
    <3>1. Overdue \subseteq WithStatus(Open)
      BY DEF Overdue, WithStatus, Open
    <3>2. call' = call /\ req' = Close(Overdue, "expired")
      BY <2>2 DEF ExpireOverdue
    <3> QED BY <1>0, <3>1, <3>2, RestClose
  <2> QED BY <1>0, <1>3, <2>1, <2>2, RestPassExpiry DEF Decide
<1>4. CASE Toggle
  <2>1. ASSUME NEW g \in Groups \cup {None}, DisableWorkflow(g)
        PROVE  Rest'
    BY <1>0, <2>1, RestClose DEF DisableWorkflow
  <2>2. ASSUME NEW g \in Groups \cup {None}, EnableWorkflow(g)
        PROVE  Rest'
    BY <1>0, <2>2, RestUnchanged DEF EnableWorkflow
  <2>3. ASSUME NEW j \in SJobs, BlockNewJob(j)
        PROVE  Rest'
    BY <1>0, <2>3, RestUnchanged DEF BlockNewJob
  <2> QED BY <1>4, <2>1, <2>2, <2>3 DEF Toggle
<1>5. CASE Rules
  <2>1. ASSUME NEW p \in Procs, NEW t \in Targets, NEW s \in SettingChoices,
               UpdateRule(p, t, s)
        PROVE  Rest'
    <3>1. /\ req' = req /\ call' \in [Procs -> Call]
          /\ call[p] = Idle /\ call'[p].op = "suspend" /\ call'[p].by = None
          /\ \A q \in Procs \ {p} : call'[q] = call[q]
      BY <1>0, <2>1 DEF UpdateRule, Begin, TypeOK, Idle
    <3> QED BY <1>0, <3>1, RestCall
  <2>2. ASSUME NEW t \in Targets,
               \/ \E s \in SettingChoices : CreateRule(t, s) \/ SyncMetaYaml(t, s)
               \/ ToggleRuleActive(t) \/ DeleteRule(t) \/ RemoveMetaYaml(t)
        PROVE  Rest'
    BY <1>0, <2>2, RestUnchanged
       DEF CreateRule, SyncMetaYaml, ToggleRuleActive, DeleteRule, RemoveMetaYaml
  <2> QED BY <1>0, <1>5, <2>1, <2>2, RestSuspend DEF Rules
<1>6. CASE Cleanup
  <2>1. ASSUME NEW u \in Users, OnUserDelete(u)
        PROVE  Rest'
    <3> DEFINE R == {r \in WithStatus(Open) : req[r].by = u}
    <3>1. R \subseteq WithStatus(Open) /\ call' = call /\ req' = Close(R, "cancelled")
      BY <2>1 DEF OnUserDelete
    <3> QED BY <1>0, <3>1, RestClose
  <2>2. ASSUME NEW t \in Targets, OnTargetDelete(t) \/ OnVmDelete(t)
        PROVE  Rest'
    <3> DEFINE R == {r \in WithStatus(Open) : req[r].target = t}
    <3>1. R \subseteq WithStatus(Open) /\ call' = call /\ req' = Close(R, "cancelled")
      BY <2>2 DEF OnTargetDelete, OnVmDelete
    <3> QED BY <1>0, <3>1, RestClose
  <2>3. ASSUME NEW g \in Groups, OnGroupDelete(g)
        PROVE  Rest'
    BY <1>0, <2>3, RestUnchanged DEF OnGroupDelete
  <2>4. CASE Crash
    <3>1. req' = req /\ call' \in [Procs -> Call] /\ Crashes /\ \A p \in Procs : call'[p] = Idle
      BY <2>4 DEF Crash, TypeOK
    <3> QED BY <1>0, <3>1, RestCall
  <2> QED BY <1>6, <2>1, <2>2, <2>3, <2>4 DEF Cleanup
<1>7. CASE UNCHANGED vars
  BY <1>0, <1>7, RestUnchanged DEF vars
<1> QED BY <1>1, <1>2, <1>3, <1>4, <1>5, <1>6, <1>7 DEF Next

\* IInv holds in every reachable state.
THEOREM Invariance == Spec => []IInv
<1>1. IInv /\ [Next]_vars => IInv'
  BY StepType, StepRest DEF IInv, Rest
<1> QED BY <1>1, InitIInv, PTL DEF Spec

-----------------------------------------------------------------------------
(***************************************************************************)
(* What the runs check on small instances, for all of them.                *)
(***************************************************************************)

\* Every row and every call in flight is well typed.
THEOREM Typing == Spec => []TypeOK
BY Invariance, PTL DEF IInv

\* An undecided request has never been carried out, and is not being so.
THEOREM UndecidedSafe == Spec => []UndecidedNeverRan
BY Invariance, PTL DEF IInv

\* The secrets of a closed request are erased; those of an approved one wait
\* for a running call.
THEOREM SecretsSafe == Spec => []SecretsErased
BY Invariance, PTL DEF IInv

\* No handler runs on its requester's decision against the snapshot's will.
THEOREM FourEyesSafe == Spec => []FourEyes
BY Invariance, PTL DEF IInv

\* No request is recorded as executed whose handler was never started.
THEOREM ExecutedSafe == Spec => []ExecutedRan
BY Invariance, PTL DEF IInv

\* A closed request is reopened by nobody; at most an approve call that is
\* already in its handler still turns it into executed.
THEOREM Finality == Spec => ClosedIsFinal
<1>1. ASSUME IInv, Next PROVE FinalStep
  <2>0. TypeOK /\ Rest
    BY <1>1 DEF IInv, Rest
  <2>1. ASSUME req' = req PROVE FinalStep
    BY <2>1 DEF FinalStep
  <2>2. ASSUME NEW R, R \subseteq WithStatus(Open), NEW s, req' = Close(R, s)
        PROVE  FinalStep
    BY <2>2 DEF FinalStep, Close, WithStatus, Open, Closed
  <2>3. ASSUME NEW p \in Procs, Submit(p) PROVE FinalStep
    BY <2>0, <2>1, <2>3 DEF Submit, CreateCheck, ResubmitCheck, Insert, TypeOK, FinalStep, Closed
  <2>4. ASSUME NEW p \in Procs, Approve(p) PROVE FinalStep
    <3>1. CASE ApproveDecide(p)
      BY <2>0, <3>1 DEF ApproveDecide, TypeOK, Request, FinalStep, Closed
    <3>2. CASE ApproveExecute(p)
      BY <2>0, <3>2 DEF ApproveExecute, TypeOK, Request, FinalStep
    <3>3. CASE ApproveFailed(p)
      BY <2>0, <3>3 DEF ApproveFailed, TypeOK, Request, FinalStep
    <3>4. CASE ApproveExecuted(p)
      <4>0. \A r \in Reqs : req[r] \in Request
        BY <2>0 DEF TypeOK
      <4>1. \A r \in Reqs : \/ req'[r] = req[r]
                            \/ r = call[p].req /\ req'[r].status = "executed"
        <5> SUFFICES ASSUME NEW r \in Reqs
                     PROVE  \/ req'[r] = req[r]
                            \/ r = call[p].req /\ req'[r].status = "executed"
          OBVIOUS
        <5>1. CASE r = call[p].req
          BY <3>4, <4>0, <5>1, ZenonT(60) DEF ApproveExecuted, Close, Request
        <5>2. CASE r # call[p].req
          BY <3>4, <5>2 DEF ApproveExecuted, Close
        <5> QED BY <5>1, <5>2
      <4>2. \A r \in Reqs : r = call[p].req => p \in Executing(r)
        BY <3>4 DEF ApproveExecuted, Executing
      <4> QED BY <4>1, <4>2 DEF FinalStep
    <3> QED BY <2>1, <2>4, <3>1, <3>2, <3>3, <3>4 DEF Approve, ApproveCheck
  <2>5. CASE Decide
    <3>1. ASSUME NEW r \in Reqs, PassExpiry(r) PROVE FinalStep
      BY <2>0, <3>1 DEF PassExpiry, TypeOK, Request, FinalStep
    <3>2. ASSUME NEW u \in Users, NEW r \in Reqs, Reject(u, r) \/ Cancel(u, r)
          PROVE  FinalStep
      <4>1. {r} \subseteq WithStatus(Open)
        BY <3>2 DEF Reject, Cancel, WithStatus, Open
      <4> QED BY <2>2, <3>2, <4>1 DEF Reject, Cancel
    <3>3. CASE ExpireOverdue
      <4>1. Overdue \subseteq WithStatus(Open)
        BY DEF Overdue, WithStatus, Open
      <4> QED BY <2>2, <3>3, <4>1 DEF ExpireOverdue
    <3> QED BY <2>5, <3>1, <3>2, <3>3 DEF Decide
  <2>6. CASE Toggle
    BY <2>1, <2>2, <2>6 DEF Toggle, EnableWorkflow, DisableWorkflow, BlockNewJob
  <2>7. CASE Rules
    <3>1. ASSUME NEW p \in Procs, SuspendPending(p) PROVE FinalStep
      BY <2>0, <3>1 DEF SuspendPending, TypeOK, Request, FinalStep, Closed
    <3> QED BY <2>1, <2>7, <3>1 DEF Rules, CreateRule, SyncMetaYaml, UpdateRule,
                                 ToggleRuleActive, DeleteRule, RemoveMetaYaml
  <2>8. CASE Cleanup
    <3>1. ASSUME NEW u \in Users, OnUserDelete(u) PROVE FinalStep
      <4>1. {r \in WithStatus(Open) : req[r].by = u} \subseteq WithStatus(Open)
        OBVIOUS
      <4> QED BY <2>2, <3>1, <4>1 DEF OnUserDelete
    <3>2. ASSUME NEW t \in Targets, OnTargetDelete(t) \/ OnVmDelete(t) PROVE FinalStep
      <4>1. {r \in WithStatus(Open) : req[r].target = t} \subseteq WithStatus(Open)
        OBVIOUS
      <4> QED BY <2>2, <3>2, <4>1 DEF OnTargetDelete, OnVmDelete
    <3> QED BY <2>1, <2>8, <3>1, <3>2 DEF Cleanup, OnGroupDelete, Crash
  <2> QED BY <1>1, <2>3, <2>4, <2>5, <2>6, <2>7, <2>8 DEF Next
<1>2. IInv /\ [Next]_vars => [FinalStep]_vars
  BY <1>1
<1> QED BY <1>2, Invariance, PTL DEF Spec, ClosedIsFinal
-----------------------------------------------------------------------------
(***************************************************************************)
(* How often a request is carried out.                                     *)
(***************************************************************************)

\* The approve calls that passed the status check for request r and have not yet
\* started its handler.
Bidding(r) == {p \in Procs : call[p].req = r /\ call[p].op \in {"decide", "execute"}}

\* Each approve call starts the handler at most once, and none begins after the
\* decision.
RunsCounted ==
  \A r \in Reqs : req[r].runs + Cardinality(Bidding(r)) <= Cardinality(Procs)

\* A step starts no handler, or the one of a bidding call; calls begin to bid
\* only for requests that never ran.
LEMMA StepBids ==
  ASSUME IInv, [Next]_vars, NEW r \in Reqs
  PROVE  \/ req'[r].runs = 0
         \/ req'[r].runs = req[r].runs /\ Bidding(r)' \subseteq Bidding(r)
         \/ /\ req'[r].runs = req[r].runs + 1
            /\ \E p \in Bidding(r) : Bidding(r)' \subseteq Bidding(r) \ {p}
<1> DEFINE Kept == req'[r].runs = req[r].runs /\ Bidding(r)' \subseteq Bidding(r)
           Goal == \/ req'[r].runs = 0
                   \/ Kept
                   \/ /\ req'[r].runs = req[r].runs + 1
                      /\ \E p \in Bidding(r) : Bidding(r)' \subseteq Bidding(r) \ {p}
<1>0. /\ req \in [Reqs -> Request] /\ call \in [Procs -> Call]
      /\ \A x \in Reqs : req[x] \in Request
      /\ CallsMatchRows /\ UndecidedNeverRan
  BY DEF IInv, TypeOK
<1>a. ASSUME NEW R, NEW s, req' = Close(R, s) PROVE req'[r].runs = req[r].runs
  BY <1>0, <1>a DEF Close, Request
<1>b. ASSUME UNCHANGED call PROVE Bidding(r)' \subseteq Bidding(r)
  BY <1>b DEF Bidding
<1>c. ASSUME NEW p \in Procs, NEW c, c.op \notin {"decide", "execute"},
             call' = [call EXCEPT ![p] = c]
      PROVE  Bidding(r)' \subseteq Bidding(r)
  BY <1>0, <1>c DEF Bidding
<1>d. Idle.op \notin {"decide", "execute"}
  BY DEF Idle
<1>1. ASSUME NEW p \in Procs, Submit(p)
      PROVE  Goal
  <2>1. ASSUME NEW u \in Users, NEW t \in Targets, NEW secret \in BOOLEAN,
               CreateCheck(p, u, t, secret)
        PROVE  Kept
    BY <1>0, <2>1 DEF CreateCheck, Begin, Bidding
  <2>2. ASSUME NEW x \in Reqs, ResubmitCheck(p, x)
        PROVE  Kept
    BY <1>0, <2>2 DEF ResubmitCheck, Begin, Bidding
  <2>3. ASSUME NEW x \in Reqs, Insert(p, x)
        PROVE  Goal
    <3>1. Bidding(r)' \subseteq Bidding(r)
      BY <1>c, <1>d, <2>3 DEF Insert, End
    <3>2. req'[r].runs = 0 \/ req'[r].runs = req[r].runs
      BY <1>0, <2>3 DEF Insert
    <3> QED BY <3>1, <3>2
  <2> QED BY <1>1, <2>1, <2>2, <2>3 DEF Submit
<1>2. ASSUME NEW p \in Procs, Approve(p)
      PROVE  Goal
  <2>1. ASSUME NEW u \in Users, NEW x \in Reqs, ApproveCheck(p, u, x)
        PROVE  Goal
    <3>1. CASE x = r
      BY <1>0, <2>1, <3>1 DEF ApproveCheck, UndecidedNeverRan
    <3>2. CASE x # r
      BY <1>0, <2>1, <3>2 DEF ApproveCheck, Begin, Bidding, Idle
    <3> QED BY <3>1, <3>2
  <2>2. CASE ApproveDecide(p)
    <3>1. req'[r].runs = req[r].runs
      BY <1>0, <2>2 DEF ApproveDecide, Request
    <3>2. Bidding(r)' \subseteq Bidding(r)
      BY <1>0, <2>2 DEF ApproveDecide, Bidding, Call
    <3> QED BY <3>1, <3>2
  <2>3. CASE ApproveExecute(p)
    <3>0. /\ call[p].req \in Reqs /\ call[p].op = "execute"
          /\ call[p] \in Call
          /\ call' = [call EXCEPT ![p].op = "handler"]
      BY <1>0, <2>3 DEF ApproveExecute, CallsMatchRows
    <3>1. CASE call[p].req = r
      <4>1. req'[r].runs = req[r].runs + 1
        BY <1>0, <2>3, <3>0, <3>1 DEF ApproveExecute, Request
      <4>2. p \in Bidding(r)
        BY <3>0, <3>1 DEF Bidding
      <4>3. Bidding(r)' \subseteq Bidding(r) \ {p}
        BY <1>0, <3>0 DEF Bidding, Call
      <4> QED BY <4>1, <4>2, <4>3
    <3>2. CASE call[p].req # r
      <4>1. req'[r].runs = req[r].runs
        BY <1>0, <2>3, <3>2 DEF ApproveExecute, Request
      <4>2. Bidding(r)' \subseteq Bidding(r)
        BY <1>0, <3>0 DEF Bidding, Call
      <4> QED BY <4>1, <4>2
    <3> QED BY <3>1, <3>2
  <2>4. CASE ApproveExecuted(p)
    BY <1>a, <1>c, <1>d, <2>4 DEF ApproveExecuted, End
  <2>5. CASE ApproveFailed(p)
    <3>1. req'[r].runs = req[r].runs
      BY <1>0, <2>5 DEF ApproveFailed, Request
    <3> QED BY <1>c, <1>d, <2>5, <3>1 DEF ApproveFailed, End
  <2> QED BY <1>2, <2>1, <2>2, <2>3, <2>4, <2>5 DEF Approve
<1>3. CASE Decide
  <2>1. ASSUME NEW x \in Reqs, PassExpiry(x) PROVE req'[r].runs = req[r].runs
    BY <1>0, <2>1 DEF PassExpiry, Request
  <2> QED BY <1>3, <1>a, <1>b, <2>1 DEF Decide, Reject, Cancel, PassExpiry, ExpireOverdue
<1>4. CASE Toggle
  BY <1>4, <1>a, <1>b DEF Toggle, EnableWorkflow, DisableWorkflow, BlockNewJob
<1>5. CASE Rules
  <2>1. ASSUME NEW p \in Procs, SuspendPending(p) PROVE Kept
    <3>1. req'[r].runs = req[r].runs
      BY <1>0, <2>1 DEF SuspendPending, Request
    <3> QED BY <1>c, <1>d, <2>1, <3>1 DEF SuspendPending, End
  <2>2. ASSUME NEW p \in Procs, NEW t \in Targets, NEW s \in SettingChoices, UpdateRule(p, t, s)
        PROVE  Kept
    BY <1>0, <2>2 DEF UpdateRule, Begin, Bidding, Idle
  <2> QED BY <1>5, <1>b, <2>1, <2>2
         DEF Rules, CreateRule, SyncMetaYaml, ToggleRuleActive, DeleteRule, RemoveMetaYaml
<1>6. CASE Cleanup
  <2>1. CASE Crash
    BY <1>0, <1>d, <2>1 DEF Crash, Bidding
  <2> QED BY <1>6, <1>a, <1>b, <2>1 DEF Cleanup, OnUserDelete, OnGroupDelete, OnTargetDelete, OnVmDelete
<1>7. CASE UNCHANGED vars
  BY <1>7, <1>b DEF vars
<1> QED BY <1>1, <1>2, <1>3, <1>4, <1>5, <1>6, <1>7 DEF Next

\* The count survives every step.
LEMMA StepCounted ==
  ASSUME IsFiniteSet(Procs), IInv, RunsCounted, [Next]_vars
  PROVE  RunsCounted'
<1> SUFFICES ASSUME NEW r \in Reqs
             PROVE  req'[r].runs + Cardinality(Bidding(r)') <= Cardinality(Procs)
  BY DEF RunsCounted
<1>1. Bidding(r) \subseteq Procs /\ Bidding(r)' \subseteq Procs
  BY DEF Bidding
<1>2. /\ IsFiniteSet(Bidding(r)) /\ IsFiniteSet(Bidding(r)')
      /\ Cardinality(Bidding(r)') <= Cardinality(Procs)
  BY <1>1, FS_Subset
<1>3. /\ Cardinality(Procs) \in Nat /\ Cardinality(Bidding(r)) \in Nat
      /\ Cardinality(Bidding(r)') \in Nat
  BY <1>2, FS_CardinalityType
<1>4. req[r].runs \in Nat /\ req[r].runs + Cardinality(Bidding(r)) <= Cardinality(Procs)
  BY DEF IInv, TypeOK, Request, RunsCounted
<1>5. CASE req'[r].runs = 0
  BY <1>2, <1>3, <1>5
<1>6. CASE req'[r].runs = req[r].runs /\ Bidding(r)' \subseteq Bidding(r)
  <2>1. Cardinality(Bidding(r)') <= Cardinality(Bidding(r))
    BY <1>2, <1>6, FS_Subset
  <2> QED BY <1>3, <1>4, <1>6, <2>1
<1>7. ASSUME req'[r].runs = req[r].runs + 1,
             NEW p \in Bidding(r), Bidding(r)' \subseteq Bidding(r) \ {p}
      PROVE  req'[r].runs + Cardinality(Bidding(r)') <= Cardinality(Procs)
  <2>1. /\ IsFiniteSet(Bidding(r) \ {p})
        /\ Cardinality(Bidding(r) \ {p}) = Cardinality(Bidding(r)) - 1
    BY <1>2, <1>7, FS_RemoveElement
  <2>2. Cardinality(Bidding(r)') <= Cardinality(Bidding(r) \ {p})
    BY <1>7, <2>1, FS_Subset
  <2> QED BY <1>3, <1>4, <1>7, <2>1, <2>2
<1> QED BY <1>5, <1>6, <1>7, StepBids

\* The action behind a request is started at most as often as approve calls can be
\* in flight at once: the status check in front of the handler stops every later
\* call, whatever becomes of the request.
THEOREM RunsBounded ==
  IsFiniteSet(Procs) => (Spec => [](\A r \in Reqs : req[r].runs <= Cardinality(Procs)))
<1> SUFFICES ASSUME IsFiniteSet(Procs)
             PROVE  Spec => [](\A r \in Reqs : req[r].runs <= Cardinality(Procs))
  OBVIOUS
<1>1. Init => RunsCounted
  <2> SUFFICES ASSUME Init, NEW r \in Reqs
               PROVE  req[r].runs + Cardinality(Bidding(r)) <= Cardinality(Procs)
    BY DEF RunsCounted
  <2>1. Bidding(r) = {} /\ req[r].runs = 0
    BY DEF Init, Bidding, Idle, Absent
  <2> QED BY <2>1, FS_EmptySet, FS_CardinalityType
<1>2. IInv /\ RunsCounted /\ [Next]_vars => RunsCounted'
  BY StepCounted
<1>3. IInv /\ RunsCounted => \A r \in Reqs : req[r].runs <= Cardinality(Procs)
  <2> SUFFICES ASSUME IInv, RunsCounted, NEW r \in Reqs PROVE req[r].runs <= Cardinality(Procs)
    OBVIOUS
  <2>1. IsFiniteSet(Bidding(r))
    BY FS_Subset DEF Bidding
  <2>2. /\ Cardinality(Bidding(r)) \in Nat /\ Cardinality(Procs) \in Nat
        /\ req[r].runs \in Nat
        /\ req[r].runs + Cardinality(Bidding(r)) <= Cardinality(Procs)
    BY <2>1, FS_CardinalityType DEF IInv, TypeOK, Request, RunsCounted
  <2> QED BY <2>2
<1> QED BY <1>1, <1>2, <1>3, Invariance, PTL DEF Spec

\* In particular, when approve calls do not overlap, an action is carried out once.
THEOREM RunsOnceSafe == (\E p : Procs = {p}) => (Spec => []RunsOnce)
<1> SUFFICES ASSUME \E p : Procs = {p} PROVE Spec => []RunsOnce
  OBVIOUS
<1>1. IsFiniteSet(Procs) /\ Cardinality(Procs) = 1
  BY FS_Singleton
<1>2. (\A r \in Reqs : req[r].runs <= Cardinality(Procs)) => RunsOnce
  BY <1>1 DEF RunsOnce
<1> QED BY <1>1, <1>2, RunsBounded, PTL
=============================================================================
