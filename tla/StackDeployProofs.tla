------------------------- MODULE StackDeployProofs -------------------------
(***************************************************************************)
(* One tofu per stack, for any number of stacks, calls, definitions,       *)
(* tokens and job rows, whatever fails; and no lost lock as long as the    *)
(* runner does not fail outside its try block.                             *)
(***************************************************************************)
EXTENDS StackDeploy, TLAPS

Jobbing == {"deprow", "reserve", "launch", "apply", "tofu", "sync", "commit", "finish",
            "jobrow"}
Located == Owning \cup Waiting \cup (Others \ {"idle"})
Checking == {"drift", "driftWait", "drifting", "driftSave"}
Planned == {"token", "start", "startWait", "rows"} \cup Jobbing

\* What a call holds at each point of its way.
CallsFilled ==
  \A p \in Procs :
    /\ call[p].pc \in Located => call[p].stack \in Stacks
    /\ call[p].pc \in Located \ Checking => call[p].def \in Defs /\ call[p].op \in Ops
    /\ call[p].pc = "deploy" => call[p].tok \in TokenIds
    /\ call[p].pc \in {"token", "tofu"} => call[p].ran \in Plan
    /\ call[p].pc \in Jobbing => call[p].job \in JobIds /\ job[call[p].job] # None
    /\ call[p].pc \in Planned => planfile[call[p].stack] # None

\* A token promises a planfile.
TokensBacked ==
  \A k \in TokenIds : token[k] # None => planfile[token[k].stack] # None

\* A tofu process came from a planfile, runner or not.
LooseBacked == \A s \in Stacks : loose[s] # None => planfile[s] # None

\* Whoever runs tofu for a stack is the registered holder of its lock.
Owned == \A p \in Procs : call[p].pc \in Owning => lock[call[p].stack] = p

IInv == TypeOK /\ CallsFilled /\ TokensBacked /\ LooseBacked /\ Owned
-----------------------------------------------------------------------------
(***************************************************************************)
(* The records stay records of their types when fields change.             *)
(***************************************************************************)
PCs == Owning \cup Waiting \cup Others

\* Updating the fields the actions update keeps a call a call.
LEMMA CallFields ==
  ASSUME NEW c \in Call
  PROVE  /\ \A x \in PCs : [c EXCEPT !.pc = x] \in Call
         /\ \A x \in PCs, y \in Plan \cup {None} : [c EXCEPT !.pc = x, !.ran = y] \in Call
         /\ \A x \in PCs, y \in Plan : [c EXCEPT !.pc = x, !.tok = None, !.want = y] \in Call
         /\ \A x \in PCs, y \in JobIds : [c EXCEPT !.pc = x, !.job = y] \in Call
         /\ \A x \in PCs, y \in BOOLEAN : [c EXCEPT !.pc = x, !.ok = y] \in Call
         /\ \A x \in PCs, y \in {"in_sync", "out_of_sync"} :
              [c EXCEPT !.pc = x, !.found = y] \in Call
<1>1. \A x \in PCs : [c EXCEPT !.pc = x] \in Call
  BY DEF Call, PCs
<1>2. \A x \in PCs, y \in Plan \cup {None} : [c EXCEPT !.pc = x, !.ran = y] \in Call
  BY DEF Call, PCs
<1>3. \A x \in PCs, y \in Plan : [c EXCEPT !.pc = x, !.tok = None, !.want = y] \in Call
  BY DEF Call, PCs
<1>4. \A x \in PCs, y \in JobIds : [c EXCEPT !.pc = x, !.job = y] \in Call
  BY DEF Call, PCs
<1>5. \A x \in PCs, y \in BOOLEAN : [c EXCEPT !.pc = x, !.ok = y] \in Call
  BY DEF Call, PCs
<1>6. \A x \in PCs, y \in {"in_sync", "out_of_sync"} :
              [c EXCEPT !.pc = x, !.found = y] \in Call
  BY DEF Call, PCs
<1> QED
  BY <1>1, <1>2, <1>3, <1>4, <1>5, <1>6, Zenon

\* The calls that begin.
LEMMA CallStarts ==
  /\ Idle \in Call
  /\ \A s \in Stacks, d \in Defs, op \in Ops :
       [Idle EXCEPT !.pc = "plan", !.stack = s, !.def = d, !.op = op] \in Call
  /\ \A s \in Stacks, d \in Defs, op \in Ops, k \in TokenIds :
       [Idle EXCEPT !.pc = "deploy", !.stack = s, !.def = d, !.op = op, !.tok = k] \in Call
  /\ \A s \in Stacks, d \in Defs, op \in Ops, w \in Plan :
       [Idle EXCEPT !.pc = "plan", !.stack = s, !.def = d, !.op = op, !.want = w] \in Call
  /\ \A s \in Stacks : [Idle EXCEPT !.pc = "drift", !.stack = s] \in Call
<1>1. Idle \in Call
  BY ZenonT(60) DEF Call, Idle, PCs, Owning, Waiting, Others
<1>2. \A s \in Stacks, d \in Defs, op \in Ops :
       [Idle EXCEPT !.pc = "plan", !.stack = s, !.def = d, !.op = op] \in Call
  BY ZenonT(60) DEF Call, Idle, PCs, Owning, Waiting, Others
<1>3. \A s \in Stacks, d \in Defs, op \in Ops, k \in TokenIds :
       [Idle EXCEPT !.pc = "deploy", !.stack = s, !.def = d, !.op = op, !.tok = k] \in Call
  BY ZenonT(60) DEF Call, Idle, PCs, Owning, Waiting, Others
<1>4. \A s \in Stacks, d \in Defs, op \in Ops, w \in Plan :
       [Idle EXCEPT !.pc = "plan", !.stack = s, !.def = d, !.op = op, !.want = w] \in Call
  BY ZenonT(60) DEF Call, Idle, PCs, Owning, Waiting, Others
<1>5. \A s \in Stacks : [Idle EXCEPT !.pc = "drift", !.stack = s] \in Call
  BY DEF Call, Idle, PCs, Owning, Waiting, Others
<1> QED
  BY <1>1, <1>2, <1>3, <1>4, <1>5

\* Finishing a job and ageing a planfile keep them well formed.
LEMMA RowFields ==
  /\ \A f \in Planfile, b \in BOOLEAN : [f EXCEPT !.stale = b] \in Planfile
  /\ \A j \in Job : [j EXCEPT !.st = "running"] \in Job
  /\ \A j \in Job, d \in {"running", "success", "partial", "failed"} : [j EXCEPT !.dep = d] \in Job
  /\ \A j \in Job, t \in {"success", "failed"} : [j EXCEPT !.st = t] \in Job
<1>1. \A f \in Planfile, b \in BOOLEAN : [f EXCEPT !.stale = b] \in Planfile
  BY DEF Planfile, Job
<1>2. \A j \in Job : [j EXCEPT !.st = "running"] \in Job
  BY DEF Planfile, Job
<1>3. \A j \in Job, d \in {"running", "success", "partial", "failed"} : [j EXCEPT !.dep = d] \in Job
  BY DEF Planfile, Job
<1>4. \A j \in Job, t \in {"success", "failed"} : [j EXCEPT !.st = t] \in Job
  BY DEF Planfile, Job
<1> QED
  BY <1>1, <1>2, <1>3, <1>4, Zenon

\* Moving on and leaving keep the calls calls.
LEMMA GotoType ==
  ASSUME call \in [Procs -> Call], NEW p \in Procs, NEW x \in PCs, Goto(p, x)
  PROVE  call' \in [Procs -> Call]
<1>1. [call[p] EXCEPT !.pc = x] \in Call
  BY CallFields
<1> QED
  BY <1>1 DEF Goto

\* Going idle, too.
LEMMA LeaveType ==
  ASSUME call \in [Procs -> Call], NEW p \in Procs, Leave(p)
  PROVE  call' \in [Procs -> Call]
  BY CallStarts DEF Leave

\* So does becoming any other call.
LEMMA EnterType ==
  ASSUME call \in [Procs -> Call], NEW p \in Procs, NEW c \in Call,
         call' = [call EXCEPT ![p] = c]
  PROVE  call' \in [Procs -> Call]
  OBVIOUS

\* Every step keeps the calls calls.
LEMMA StepCall == IInv /\ [Next]_vars => call' \in [Procs -> Call]
<1>0. SUFFICES ASSUME IInv, Next PROVE call' \in [Procs -> Call]
  BY DEF IInv, TypeOK, vars
<1>a. call \in [Procs -> Call] /\ \A p \in Procs : call[p] \in Call
  BY <1>0 DEF IInv, TypeOK
<1>b. {"idle", "plan", "token", "deploy", "start", "drift", "driftSave", "planWait",
       "startWait", "driftWait", "planning", "rows", "deprow", "reserve", "launch", "apply",
       "tofu", "sync", "commit", "finish", "jobrow", "drifting"} \subseteq PCs
  BY DEF PCs, Owning, Waiting, Others
<1>1. ASSUME NEW p \in Procs, Wake(p) PROVE call' \in [Procs -> Call]
  <2>1. Woken(p) \in PCs
    BY <1>1, <1>b DEF Wake, Waiting, Woken
  <2> QED
    BY <1>1, <1>a, <2>1, GotoType DEF Wake
<1>2. ASSUME NEW p \in Procs, NEW s \in Stacks, NEW op \in Ops, PlanStart(p, s, op) PROVE call' \in [Procs -> Call]
  <2>1. def[s] \in Defs
    BY <1>2, <1>0 DEF PlanStart, IInv, TypeOK
  <2>2. [Idle EXCEPT !.pc = "plan", !.stack = s, !.def = def[s], !.op = op] \in Call
    BY <2>1, CallStarts
  <2> QED
    BY <1>2, <1>a, <2>2, EnterType DEF PlanStart
<1>3. ASSUME NEW p \in Procs, PlanWrite(p) PROVE call' \in [Procs -> Call]
  BY <1>3, <1>a, <1>b, GotoType, LeaveType DEF PlanWrite, Acquire
<1>4. ASSUME NEW p \in Procs, PlanTofu(p) PROVE call' \in [Procs -> Call]
  <2>1. [op |-> call[p].op, def |-> mainTf[call[p].stack]] \in Plan
    BY <1>4, <1>0, <1>a DEF PlanTofu, At, IInv, TypeOK, CallsFilled, Plan, Located, Owning, Checking
  <2>2. [call[p] EXCEPT !.pc = "token",
           !.ran = [op |-> call[p].op, def |-> mainTf[call[p].stack]]] \in Call
    BY <1>a, <1>b, <2>1, CallFields
  <2> QED
    BY <1>4, <1>a, <2>2, EnterType DEF PlanTofu
<1>5. ASSUME NEW p \in Procs, PlanFailed(p) PROVE call' \in [Procs -> Call]
  BY <1>5, <1>a, LeaveType DEF PlanFailed
<1>6. ASSUME NEW p \in Procs, NEW k \in TokenIds, PlanToken(p, k) PROVE call' \in [Procs -> Call]
  <2>1. [call[p] EXCEPT !.pc = "start", !.ran = None] \in Call
    BY <1>a, <1>b, CallFields
  <2> QED
    BY <1>6, <1>a, <2>1, EnterType, LeaveType, SMTT(40) DEF PlanToken
<1>7. ASSUME NEW p \in Procs, Refused(p) PROVE call' \in [Procs -> Call]
  BY <1>7, <1>a, LeaveType DEF Refused
<1>8. ASSUME NEW k \in TokenIds, TokenExpires(k) PROVE call' \in [Procs -> Call]
  BY <1>8, <1>a DEF TokenExpires
<1>9. ASSUME NEW p \in Procs, NEW k \in TokenIds, DeployStart(p, k) PROVE call' \in [Procs -> Call]
  <2>1. token[k] \in Token
    BY <1>9, <1>0 DEF DeployStart, IInv, TypeOK
  <2>2. token[k].stack \in Stacks /\ token[k].plan.op \in Ops
    BY <2>1 DEF Token, Plan
  <2>3. def[token[k].stack] \in Defs
    BY <1>9, <1>0, <2>2 DEF DeployStart, IInv, TypeOK
  <2>4. [Idle EXCEPT !.pc = "deploy", !.stack = token[k].stack,
                     !.def = def[token[k].stack], !.op = token[k].plan.op, !.tok = k] \in Call
    BY <2>2, <2>3, CallStarts
  <2> QED
    BY <1>9, <1>a, <2>4, EnterType DEF DeployStart
<1>10. ASSUME NEW p \in Procs, DeployConsume(p) PROVE call' \in [Procs -> Call]
  <2>1. token[call[p].tok] \in Token
    BY <1>10, <1>0 DEF DeployConsume, Consumable, At, IInv, TypeOK, CallsFilled
  <2>2. token[call[p].tok].plan \in Plan
    BY <2>1, SMTT(40) DEF Token
  <2>3. [call[p] EXCEPT !.pc = "start", !.tok = None,
                        !.want = token[call[p].tok].plan] \in Call
    BY <1>a, <1>b, <2>2, CallFields
  <2> QED
    BY <1>10, <1>a, <2>3, EnterType, LeaveType DEF DeployConsume
<1>11. ASSUME NEW p \in Procs, DeployConflict(p) PROVE call' \in [Procs -> Call]
  BY <1>11, <1>a, LeaveType DEF DeployConflict
<1>12. ASSUME NEW p \in Procs, NEW a \in asked, HandlerStart(p, a) PROVE call' \in [Procs -> Call]
  <2>1. a.stack \in Stacks /\ a.etag \in Defs /\ a.plan \in Plan /\ a.plan.op \in Ops
    BY <1>12, <1>0 DEF IInv, TypeOK, Asked, Plan
  <2>2. [Idle EXCEPT !.pc = "plan", !.stack = a.stack, !.def = a.etag,
                     !.op = a.plan.op, !.want = a.plan] \in Call
    BY <2>1, CallStarts
  <2> QED
    BY <1>12, <1>a, <2>2, EnterType DEF HandlerStart
<1>13. ASSUME NEW p \in Procs, StartLock(p) PROVE call' \in [Procs -> Call]
  BY <1>13, <1>a, <1>b, GotoType, LeaveType DEF StartLock, Acquire
<1>14. ASSUME NEW p \in Procs, NEW j \in JobIds, StartRows(p, j) PROVE call' \in [Procs -> Call]
  <2>1. [call[p] EXCEPT !.pc = "deprow", !.job = j] \in Call
    BY <1>a, <1>b, CallFields
  <2> QED
    BY <1>14, <1>a, <2>1, EnterType, SMTT(40) DEF StartRows
<1>15. ASSUME NEW p \in Procs, StartRunner(p) PROVE call' \in [Procs -> Call]
  BY <1>15, <1>a, <1>b, GotoType DEF StartRunner
<1>16. ASSUME NEW p \in Procs, StartRefused(p) PROVE call' \in [Procs -> Call]
  BY <1>16, <1>a, LeaveType DEF StartRefused
<1>17. ASSUME NEW p \in Procs, RunnerStart(p) PROVE call' \in [Procs -> Call]
  BY <1>17, <1>a, <1>b, GotoType DEF RunnerStart
<1>18. ASSUME NEW p \in Procs, RunnerDies(p) PROVE call' \in [Procs -> Call]
  BY <1>18, <1>a, LeaveType DEF RunnerDies
<1>19. ASSUME NEW p \in Procs, TofuStart(p) PROVE call' \in [Procs -> Call]
  <2> DEFINE f == planfile[call[p].stack]
  <2>1. f \in Planfile
    BY <1>19, <1>0 DEF TofuStart, At, IInv, TypeOK, CallsFilled, Located, Owning, Planned, Jobbing
  <2>2. [op |-> f.op, def |-> f.def] \in Plan
    BY <2>1 DEF Planfile, Plan
  <2>3. [call[p] EXCEPT !.pc = "tofu", !.ran = [op |-> f.op, def |-> f.def]] \in Call
    BY <1>a, <1>b, <2>2, CallFields, ZenonT(60)
  <2> QED
    BY <1>19, <1>a, <2>3, EnterType DEF TofuStart
<1>20. ASSUME NEW p \in Procs, TofuOk(p) PROVE call' \in [Procs -> Call]
  <2>1. [call[p] EXCEPT !.pc = "sync", !.ok = TRUE] \in Call
    BY <1>a, <1>b, CallFields
  <2> QED
    BY <1>20, <1>a, <2>1, EnterType DEF TofuOk
<1>21. ASSUME NEW p \in Procs, TofuError(p) PROVE call' \in [Procs -> Call]
  BY <1>21, <1>a, <1>b, GotoType DEF TofuError
<1>22. ASSUME NEW p \in Procs, Sync(p) PROVE call' \in [Procs -> Call]
  BY <1>22, <1>a, <1>b, GotoType DEF Sync
<1>23. ASSUME NEW p \in Procs, Commit(p) PROVE call' \in [Procs -> Call]
  <2>1. call[p].ok \in BOOLEAN
    BY <1>a, SMTT(40) DEF Call
  <2>2. \A b \in BOOLEAN : [call[p] EXCEPT !.pc = "finish", !.ok = b] \in Call
    BY <1>a, <1>b, CallFields
  <2> QED
    BY <1>23, <1>a, <2>1, <2>2, EnterType DEF Commit
<1>24. ASSUME NEW p \in Procs, FinishDeployment(p) PROVE call' \in [Procs -> Call]
  BY <1>24, <1>a, <1>b, GotoType DEF FinishDeployment
<1>25. ASSUME NEW p \in Procs, NEW s \in Stacks, DriftStart(p, s) PROVE call' \in [Procs -> Call]
  <2>1. [Idle EXCEPT !.pc = "drift", !.stack = s] \in Call
    BY CallStarts
  <2> QED
    BY <1>25, <1>a, <2>1, EnterType DEF DriftStart
<1>26. ASSUME NEW p \in Procs, DriftNone(p) PROVE call' \in [Procs -> Call]
  BY <1>26, <1>a, LeaveType DEF DriftNone
<1>27. ASSUME NEW p \in Procs, DriftLock(p) PROVE call' \in [Procs -> Call]
  BY <1>27, <1>a, <1>b, GotoType DEF DriftLock, Acquire
<1>28. ASSUME NEW p \in Procs, DriftTofu(p) PROVE call' \in [Procs -> Call]
  <2>1. \A x \in {"in_sync", "out_of_sync"} :
          [call[p] EXCEPT !.pc = "driftSave", !.found = x] \in Call
    BY <1>a, <1>b, CallFields
  <2> QED
    BY <1>28, <1>a, <2>1, EnterType DEF DriftTofu
<1>29. ASSUME NEW p \in Procs, DriftFailed(p) PROVE call' \in [Procs -> Call]
  BY <1>29, <1>a, LeaveType DEF DriftFailed
<1>30. ASSUME NEW p \in Procs, DriftSave(p) PROVE call' \in [Procs -> Call]
  BY <1>30, <1>a, LeaveType DEF DriftSave
<1>31. ASSUME NEW s \in Stacks, NEW d \in Defs, Edit(s, d) PROVE call' \in [Procs -> Call]
  BY <1>31, <1>a DEF Edit
<1>32. ASSUME NEW s \in Stacks, Delete(s) PROVE call' \in [Procs -> Call]
  BY <1>32, <1>a DEF Delete
<1>33. CASE Crash
  BY <1>33, CallStarts DEF Crash
<1>34. ASSUME NEW p \in Procs, RunnerError(p) PROVE call' \in [Procs -> Call]
  <2>1. [call[p] EXCEPT !.pc = "finish", !.ok = FALSE] \in Call
    BY <1>a, <1>b, CallFields
  <2> QED
    BY <1>34, <1>a, <2>1, EnterType, SMTT(40) DEF RunnerError
<1>35. ASSUME NEW p \in Procs, FinishJob(p) PROVE call' \in [Procs -> Call]
  BY <1>35, <1>a, LeaveType DEF FinishJob
<1>36. ASSUME NEW p \in Procs, CreateDeployment(p) PROVE call' \in [Procs -> Call]
  BY <1>36, <1>a, <1>b, GotoType DEF CreateDeployment
<1>37. ASSUME NEW p \in Procs, LosesTofu(p) PROVE call' \in [Procs -> Call]
  <2>1. [call[p] EXCEPT !.pc = "finish", !.ok = FALSE] \in Call
    BY <1>a, <1>b, CallFields
  <2> QED
    BY <1>37, <1>a, <2>1, EnterType, SMTT(40) DEF LosesTofu
<1>38. ASSUME NEW s \in Stacks, LooseEnds(s) PROVE call' \in [Procs -> Call]
  BY <1>38, <1>a DEF LooseEnds
<1> QED
  BY <1>0, <1>1, <1>2, <1>3, <1>4, <1>5, <1>6, <1>7, <1>8, <1>9, <1>10, <1>11, <1>12,
     <1>13, <1>14, <1>15, <1>16, <1>17, <1>18, <1>19, <1>20, <1>21, <1>22, <1>23, <1>24,
     <1>25, <1>26, <1>27, <1>28, <1>29, <1>30, <1>31, <1>32, <1>33, <1>34, <1>35, <1>36, <1>37, <1>38
     DEF Next, Planning, Deploying, Running, Drifting

\* Taking a lock, or queueing for it, keeps the lock with whoever runs tofu.
LEMMA AcquireOwned ==
  ASSUME IInv, NEW p \in Procs, NEW s \in Stacks, call[p].stack = s,
         NEW in, NEW wait, wait \notin Owning, Acquire(p, s, in, wait)
  PROVE  Owned'
<1> USE DEF IInv, TypeOK, Owned, Goto
<1>1. CASE lock[s] = None /\ waiters[s] = << >>
  <2>1. \A q \in Procs \ {p} : call'[q] = call[q]
    BY <1>1 DEF Acquire
  <2>2. call'[p].stack = s
    BY <1>1 DEF Acquire, Call
  <2>3. lock' = [lock EXCEPT ![s] = p]
    BY <1>1 DEF Acquire
  <2>4. None \notin Procs
    BY DeployAssumption
  <2>5. \A q \in Procs : call[q].pc \in Owning => call[q].stack \in Stacks
    BY DEF CallsFilled, Located
  <2>6. lock'[s] = p
    BY <2>3
  <2>7. \A q \in Procs \ {p} : call[q].pc \in Owning => call[q].stack # s
    BY <1>1, <2>4
  <2>8. \A q \in Procs \ {p} : call'[q].pc \in Owning => lock'[call'[q].stack] = q
    BY <2>1, <2>3, <2>5, <2>7
  <2> QED
    BY <2>2, <2>6, <2>8
<1>2. CASE ~(lock[s] = None /\ waiters[s] = << >>)
  <2>1. \A q \in Procs \ {p} : call'[q] = call[q]
    BY <1>2 DEF Acquire
  <2>2. call'[p].pc = wait
    BY <1>2 DEF Acquire, Call
  <2>3. lock' = lock
    BY <1>2 DEF Acquire
  <2> QED
    BY <2>1, <2>2, <2>3
<1> QED
  BY <1>1, <1>2

\* So does a step of a call that stays away from tofu.
LEMMA OutsideOwned ==
  ASSUME IInv, NEW p \in Procs, lock' = lock, call'[p].pc \notin Owning,
         \A q \in Procs \ {p} : call'[q] = call[q]
  PROVE  Owned'
  BY DEF IInv, Owned

\* Every step keeps the lock with whoever runs tofu.
LEMMA StepOwned == IInv /\ [Next]_vars => Owned'
<1>0. SUFFICES ASSUME IInv, Next PROVE Owned'
  BY DEF IInv, Owned, vars
<1> USE DeployAssumption DEF IInv, TypeOK, Owned, CallsFilled, rows, files, locks, Call
<1>1. ASSUME NEW p \in Procs, Wake(p) PROVE Owned'
  BY <1>1, <1>0 DEF Wake, Woken, Goto, Owning, Waiting, Others, Located
<1>2. ASSUME NEW p \in Procs, NEW s \in Stacks, NEW op \in Ops, PlanStart(p, s, op) PROVE Owned'
  BY <1>2, <1>0 DEF PlanStart, At, Idle, Owning, Waiting, Others, Located
<1>3. ASSUME NEW p \in Procs, PlanWrite(p) PROVE Owned'
  <2> DEFINE s == call[p].stack
  <2>1. s \in Stacks
    BY <1>0, <1>3 DEF PlanWrite, At, Located, Others
  <2>2. CASE Locked(s)
    <3>1. call'[p].pc \notin Owning /\ \A q \in Procs \ {p} : call'[q] = call[q]
      BY <1>0, <1>3, <2>2 DEF PlanWrite, Leave, Idle, Owning
    <3> QED
      BY <1>0, <1>3, <2>2, <3>1, OutsideOwned DEF PlanWrite
  <2>3. CASE ~Locked(s)
    <3>1. Acquire(p, s, "planning", "planWait")
      BY <1>3, <2>3 DEF PlanWrite
    <3> QED
      BY <1>0, <2>1, <3>1, AcquireOwned DEF Owning
  <2> QED
    BY <2>2, <2>3
<1>4. ASSUME NEW p \in Procs, PlanTofu(p) PROVE Owned'
  BY <1>4, <1>0 DEF PlanTofu, At, Release, Owning, Waiting, Others, Located
<1>5. ASSUME NEW p \in Procs, PlanFailed(p) PROVE Owned'
  BY <1>5, <1>0 DEF PlanFailed, At, Release, Leave, Idle, Owning, Waiting, Others, Located
<1>6. ASSUME NEW p \in Procs, NEW k \in TokenIds, PlanToken(p, k) PROVE Owned'
  <2>1. call'[p].pc \in {"start", "idle"} /\ \A q \in Procs \ {p} : call'[q] = call[q]
    <3>1. CASE Leave(p)
      BY <1>0, <3>1 DEF Leave, Idle
    <3>2. CASE call' = [call EXCEPT ![p] = [@ EXCEPT !.pc = "start", !.ran = None]]
      BY <1>0, <3>2
    <3> QED
      BY <1>6, <3>1, <3>2 DEF PlanToken
  <2>2. lock' = lock
    BY <1>6 DEF PlanToken
  <2> QED
    BY <1>0, <2>1, <2>2, OutsideOwned DEF Owning
<1>7. ASSUME NEW p \in Procs, Refused(p) PROVE Owned'
  BY <1>7, <1>0 DEF Refused, Leave, Idle, Owning, Waiting, Others, Located
<1>8. ASSUME NEW k \in TokenIds, TokenExpires(k) PROVE Owned'
  BY <1>8, <1>0 DEF TokenExpires, Owning, Waiting, Others, Located
<1>9. ASSUME NEW p \in Procs, NEW k \in TokenIds, DeployStart(p, k) PROVE Owned'
  BY <1>9, <1>0 DEF DeployStart, At, Idle, Owning, Waiting, Others, Located
<1>10. ASSUME NEW p \in Procs, DeployConsume(p) PROVE Owned'
  <2>1. call'[p].pc \in {"start", "idle"} /\ \A q \in Procs \ {p} : call'[q] = call[q]
    <3>1. CASE Leave(p)
      BY <1>0, <3>1 DEF Leave, Idle
    <3>2. CASE call' = [call EXCEPT ![p] = [@ EXCEPT !.pc = "start", !.tok = None,
                                              !.want = token[call[p].tok].plan]]
      BY <1>0, <3>2
    <3> QED
      BY <1>10, <3>1, <3>2 DEF DeployConsume
  <2>2. lock' = lock
    BY <1>10 DEF DeployConsume
  <2> QED
    BY <1>0, <2>1, <2>2, OutsideOwned DEF Owning
<1>11. ASSUME NEW p \in Procs, DeployConflict(p) PROVE Owned'
  BY <1>11, <1>0 DEF DeployConflict, At, Leave, Idle, Owning, Waiting, Others, Located
<1>12. ASSUME NEW p \in Procs, NEW a \in asked, HandlerStart(p, a) PROVE Owned'
  <2>1. CASE call' = call
    BY <1>0, <1>12, <2>1 DEF HandlerStart
  <2>2. CASE def[a.stack] = a.etag
    <3> DEFINE c == [Idle EXCEPT !.pc = "plan", !.stack = a.stack, !.def = a.etag,
                                 !.op = a.plan.op, !.want = a.plan]
    <3>0. c.pc = "plan"
      BY DEF Idle
    <3>a. call' = [call EXCEPT ![p] = c]
      BY <1>12, <2>2 DEF HandlerStart
    <3> HIDE DEF c
    <3>1. call'[p].pc = "plan" /\ \A q \in Procs \ {p} : call'[q] = call[q]
      BY <1>0, <3>0, <3>a
    <3> QED
      BY <1>0, <1>12, <3>1, OutsideOwned DEF HandlerStart, Owning
  <2> QED
    BY <1>12, <2>1, <2>2 DEF HandlerStart
<1>13. ASSUME NEW p \in Procs, StartLock(p) PROVE Owned'
  <2> DEFINE s == call[p].stack
  <2>1. s \in Stacks
    BY <1>0, <1>13 DEF StartLock, At, Located, Others
  <2>2. CASE Leave(p) /\ UNCHANGED locks
    <3>1. call'[p].pc \notin Owning /\ \A q \in Procs \ {p} : call'[q] = call[q]
      BY <1>0, <2>2 DEF Leave, Idle, Owning
    <3> QED
      BY <1>0, <2>2, <3>1, OutsideOwned
  <2>3. CASE Acquire(p, s, "rows", "startWait")
    BY <1>0, <2>1, <2>3, AcquireOwned DEF Owning
  <2> QED
    BY <1>13, <2>2, <2>3 DEF StartLock
<1>14. ASSUME NEW p \in Procs, NEW j \in JobIds, StartRows(p, j) PROVE Owned'
  BY <1>14, <1>0 DEF StartRows, At, Owning, Waiting, Others, Located
<1>15. ASSUME NEW p \in Procs, StartRunner(p) PROVE Owned'
  BY <1>15, <1>0 DEF StartRunner, At, Goto, Owning, Waiting, Others, Located
<1>16. ASSUME NEW p \in Procs, StartRefused(p) PROVE Owned'
  BY <1>16, <1>0 DEF StartRefused, Refusable, At, Release, ReleaseSdn, Leave, Idle, Owning, Waiting, Others, Located
<1>17. ASSUME NEW p \in Procs, RunnerStart(p) PROVE Owned'
  BY <1>17, <1>0 DEF RunnerStart, At, Goto, Owning, Waiting, Others, Located
<1>18. ASSUME NEW p \in Procs, RunnerDies(p) PROVE Owned'
  BY <1>18, <1>0 DEF RunnerDies, Leave, Idle, Owning, Waiting, Others, Located
<1>19. ASSUME NEW p \in Procs, TofuStart(p) PROVE Owned'
  BY <1>19, <1>0 DEF TofuStart, At, Owning, Waiting, Others, Located
<1>20. ASSUME NEW p \in Procs, TofuOk(p) PROVE Owned'
  BY <1>20, <1>0 DEF TofuOk, At, Reach, Target, Owning, Waiting, Others, Located
<1>21. ASSUME NEW p \in Procs, TofuError(p) PROVE Owned'
  BY <1>21, <1>0 DEF TofuError, At, Reach, Target, Goto, Owning, Waiting, Others, Located
<1>22. ASSUME NEW p \in Procs, Sync(p) PROVE Owned'
  BY <1>22, <1>0 DEF Sync, At, Goto, Owning, Waiting, Others, Located
<1>23. ASSUME NEW p \in Procs, Commit(p) PROVE Owned'
  BY <1>23, <1>0 DEF Commit, At, Owning, Waiting, Others, Located
<1>24. ASSUME NEW p \in Procs, FinishDeployment(p) PROVE Owned'
  BY <1>24, <1>0 DEF FinishDeployment, At, Goto, Owning, Waiting, Others, Located
<1>25. ASSUME NEW p \in Procs, NEW s \in Stacks, DriftStart(p, s) PROVE Owned'
  BY <1>25, <1>0 DEF DriftStart, At, Idle, Owning, Waiting, Others, Located
<1>26. ASSUME NEW p \in Procs, DriftNone(p) PROVE Owned'
  BY <1>26, <1>0 DEF DriftNone, At, Leave, Idle, Owning, Waiting, Others, Located
<1>27. ASSUME NEW p \in Procs, DriftLock(p) PROVE Owned'
  <2>1. call[p].stack \in Stacks
    BY <1>0, <1>27 DEF DriftLock, At, Located, Others
  <2>2. Acquire(p, call[p].stack, "drifting", "driftWait")
    BY <1>27 DEF DriftLock
  <2> QED
    BY <1>0, <2>1, <2>2, AcquireOwned DEF Owning
<1>28. ASSUME NEW p \in Procs, DriftTofu(p) PROVE Owned'
  BY <1>28, <1>0 DEF DriftTofu, At, Release, Owning, Waiting, Others, Located
<1>29. ASSUME NEW p \in Procs, DriftFailed(p) PROVE Owned'
  BY <1>29, <1>0 DEF DriftFailed, At, Release, Leave, Idle, Owning, Waiting, Others, Located
<1>30. ASSUME NEW p \in Procs, DriftSave(p) PROVE Owned'
  BY <1>30, <1>0 DEF DriftSave, At, Leave, Idle, Owning, Waiting, Others, Located
<1>31. ASSUME NEW s \in Stacks, NEW d \in Defs, Edit(s, d) PROVE Owned'
  BY <1>31, <1>0 DEF Edit, Owning, Waiting, Others, Located
<1>32. ASSUME NEW s \in Stacks, Delete(s) PROVE Owned'
  BY <1>32, <1>0 DEF Delete, Owning, Waiting, Others, Located
<1>33. CASE Crash
  BY <1>33, <1>0 DEF Crash, Target, At, Idle, Owning, Waiting, Others, Located
<1>34. ASSUME NEW p \in Procs, RunnerError(p) PROVE Owned'
  BY <1>34, <1>0 DEF RunnerError, Owning, Waiting, Others, Located
<1>35. ASSUME NEW p \in Procs, FinishJob(p) PROVE Owned'
  BY <1>35, <1>0 DEF FinishJob, At, Release, ReleaseSdn, Leave, Idle, Owning, Waiting, Others, Located
<1>36. ASSUME NEW p \in Procs, CreateDeployment(p) PROVE Owned'
  BY <1>36, <1>0 DEF CreateDeployment, At, Goto, Owning, Waiting, Others, Located
<1>37. ASSUME NEW p \in Procs, LosesTofu(p) PROVE Owned'
  BY <1>37, <1>0 DEF LosesTofu, At, Owning, Waiting, Others, Located
<1>38. ASSUME NEW s \in Stacks, LooseEnds(s) PROVE Owned'
  BY <1>38, <1>0 DEF LooseEnds, Owning, Waiting, Others, Located
<1> QED
  BY <1>0, <1>1, <1>2, <1>3, <1>4, <1>5, <1>6, <1>7, <1>8, <1>9, <1>10, <1>11, <1>12,
     <1>13, <1>14, <1>15, <1>16, <1>17, <1>18, <1>19, <1>20, <1>21, <1>22, <1>23, <1>24,
     <1>25, <1>26, <1>27, <1>28, <1>29, <1>30, <1>31, <1>32, <1>33, <1>34, <1>35, <1>36, <1>37, <1>38
     DEF Next, Planning, Deploying, Running, Drifting
-----------------------------------------------------------------------------
(***************************************************************************)
(* Types.                                                                  *)
(***************************************************************************)

\* A lock's holder and queue are calls.
LEMMA AcquireTypes ==
  ASSUME TypeOK, NEW p \in Procs, NEW s \in Stacks, NEW in, NEW wait, Acquire(p, s, in, wait)
  PROVE  lock' \in [Stacks -> Procs \cup {None}] /\ waiters' \in [Stacks -> Seq(Procs)]
<1>1. waiters \in [Stacks -> Seq(Procs)] /\ lock \in [Stacks -> Procs \cup {None}]
  BY DEF TypeOK
<1>2. Append(waiters[s], p) \in Seq(Procs)
  BY <1>1
<1>3. [waiters EXCEPT ![s] = Append(waiters[s], p)] \in [Stacks -> Seq(Procs)]
  BY <1>1, <1>2
<1> QED
  BY <1>1, <1>3 DEF Acquire

\* Where tofu takes the cluster is a definition, and its planfile stays one.
LEMMA ReachTypes ==
  ASSUME TypeOK, NEW s \in Stacks, planfile[s] # None, NEW d \in Defs \cup {None}, Reach(s, d)
  PROVE  infra' \in [Stacks -> Defs \cup {None}] /\ planfile' \in [Stacks -> Planfile \cup {None}]
<1> DEFINE f == planfile[s]
           b == f.stale \/ d # infra[s]
<1>1. f \in Planfile
  BY DEF TypeOK
<1>2. [f EXCEPT !.stale = b] \in Planfile
  BY <1>1 DEF Planfile
<1>3. planfile' = [planfile EXCEPT ![s] = [f EXCEPT !.stale = b]]
  BY DEF Reach
<1>4. planfile \in [Stacks -> Planfile \cup {None}] /\ infra \in [Stacks -> Defs \cup {None}]
  BY DEF TypeOK
<1>5. infra' = [infra EXCEPT ![s] = d]
  BY DEF Reach
<1> HIDE DEF b, f
<1> QED
  BY <1>2, <1>3, <1>4, <1>5

\* A restart leaves what some tofu run reached.
LEMMA CrashTypes ==
  ASSUME IInv, Crash
  PROVE  infra' \in [Stacks -> Defs \cup {None}] /\ planfile' \in [Stacks -> Planfile \cup {None}]
<1>1. PICK done \in SUBSET {p \in Procs : At(p, "tofu") /\ Valid(call[p].stack)} :
        LET by(s) == {p \in done : call[p].stack = s}
            to(s) == Target(call[CHOOSE p \in by(s) : TRUE].ran) IN
        /\ infra' = [s \in Stacks |-> IF by(s) = {} THEN infra[s] ELSE to(s)]
        /\ planfile' = [s \in Stacks |->
                          IF by(s) = {} \/ to(s) = infra[s] THEN planfile[s]
                          ELSE [planfile[s] EXCEPT !.stale = TRUE]]
  BY DEF Crash
<1> DEFINE by(s) == {p \in done : call[p].stack = s}
           to(s) == Target(call[CHOOSE p \in by(s) : TRUE].ran)
<1>2. ASSUME NEW s \in Stacks, by(s) # {}
      PROVE  to(s) \in Defs \cup {None} /\ planfile[s] \in Planfile
  <2>1. PICK p \in by(s) : p = CHOOSE q \in by(s) : TRUE
    BY <1>2
  <2>2. p \in Procs /\ call[p].pc = "tofu" /\ call[p].stack = s
    BY <2>1, <1>1 DEF At
  <2>3. call[p].ran \in Plan /\ planfile[s] # None
    BY <2>2 DEF IInv, CallsFilled, Planned, Jobbing
  <2>4. to(s) = Target(call[p].ran)
    BY <2>1
  <2>5. Target(call[p].ran) \in Defs \cup {None}
    BY <2>3 DEF Target, Plan
  <2> QED
    BY <2>3, <2>4, <2>5 DEF IInv, TypeOK
<1>3. infra' = [s \in Stacks |-> IF by(s) = {} THEN infra[s] ELSE to(s)]
  BY <1>1
<1>4. planfile' = [s \in Stacks |-> IF by(s) = {} \/ to(s) = infra[s] THEN planfile[s]
                                    ELSE [planfile[s] EXCEPT !.stale = TRUE]]
  BY <1>1, SMTT(40)
<1>5. \A f \in Planfile : [f EXCEPT !.stale = TRUE] \in Planfile
  BY RowFields, Zenon
<1>6. infra \in [Stacks -> Defs \cup {None}] /\ planfile \in [Stacks -> Planfile \cup {None}]
  BY DEF IInv, TypeOK
<1> HIDE DEF by, to
<1>7. infra' \in [Stacks -> Defs \cup {None}]
  BY <1>2, <1>3, <1>6
<1>8. \A s \in Stacks : planfile'[s] \in Planfile \cup {None}
  BY <1>2, <1>4, <1>5, <1>6
<1> QED
  BY <1>4, <1>7, <1>8

\* Every step leaves values of their types.
LEMMA StepTypes == IInv /\ [Next]_vars => TypeOK'
<1>0. SUFFICES ASSUME IInv, Next PROVE TypeOK'
  BY DEF IInv, TypeOK, vars
<1>a. call' \in [Procs -> Call] /\ call \in [Procs -> Call]
  BY <1>0, StepCall DEF IInv, TypeOK
<1>b. \A p \in Procs : call[p].pc # "idle" => call[p].stack \in Stacks
  BY <1>0, <1>a DEF IInv, CallsFilled, Call, Located, Others
<1>c. \A p \in Procs : call[p].pc \notin {"idle"} \cup Checking
                         => call[p].def \in Defs /\ call[p].op \in Ops
  BY <1>0, <1>a DEF IInv, CallsFilled, Call, Located, Others
<1> USE DEF IInv, TypeOK, rows, files, locks
<1>1. ASSUME NEW p \in Procs, Wake(p) PROVE TypeOK'
  <2> DEFINE s == call[p].stack
  <2>1. s \in Stacks /\ waiters[s] \in Seq(Procs) /\ waiters[s] # << >>
    BY <1>0, <1>b, <1>1 DEF Wake, Waiting
  <2>2. waiters' = [waiters EXCEPT ![s] = Tail(waiters[s])]
    BY <1>1 DEF Wake
  <2>3. Tail(waiters[s]) \in Seq(Procs)
    BY <2>1
  <2>4. waiters' \in [Stacks -> Seq(Procs)]
    BY <1>0, <2>1, <2>2, <2>3
  <2> QED
    BY <1>0, <1>a, <1>1, <2>1, <2>4 DEF Wake
<1>2. ASSUME NEW p \in Procs, NEW s \in Stacks, NEW op \in Ops, PlanStart(p, s, op) PROVE TypeOK'
  BY <1>0, <1>a, <1>2 DEF PlanStart, At, Idle
<1>3. ASSUME NEW p \in Procs, PlanWrite(p) PROVE TypeOK'
  <2>1. call[p].stack \in Stacks /\ call[p].def \in Defs
    BY <1>b, <1>c, <1>3 DEF PlanWrite, At, Checking
  <2>2. lock' \in [Stacks -> Procs \cup {None}] /\ waiters' \in [Stacks -> Seq(Procs)]
    BY <1>0, <1>3, <2>1, AcquireTypes DEF PlanWrite
  <2>3. mainTf' \in [Stacks -> Defs \cup {None}]
    BY <1>0, <1>3, <2>1 DEF PlanWrite
  <2> QED
    BY <1>0, <1>a, <1>3, <2>2, <2>3 DEF PlanWrite
<1>4. ASSUME NEW p \in Procs, PlanTofu(p) PROVE TypeOK'
  <2> DEFINE s == call[p].stack
             f == [op |-> call[p].op, def |-> mainTf[s], stale |-> FALSE]
  <2>1. s \in Stacks /\ call[p].op \in Ops
    BY <1>b, <1>c, <1>4 DEF PlanTofu, At, Checking
  <2>2. f \in Planfile
    BY <1>0, <2>1 DEF Planfile
  <2>3. planfile' \in [Stacks -> Planfile \cup {None}]
    BY <1>0, <1>4, <2>1, <2>2 DEF PlanTofu
  <2>4. lock' \in [Stacks -> Procs \cup {None}]
    BY <1>0, <1>4, <2>1 DEF PlanTofu, Release
  <2> QED
    BY <1>0, <1>a, <1>4, <2>3, <2>4 DEF PlanTofu, Release
<1>5. ASSUME NEW p \in Procs, PlanFailed(p) PROVE TypeOK'
  BY <1>0, <1>a, <1>5 DEF PlanFailed, At, Release, Leave, Idle
<1>6. ASSUME NEW p \in Procs, NEW k \in TokenIds, PlanToken(p, k) PROVE TypeOK'
  <2> DEFINE t == [stack |-> call[p].stack, etag |-> call[p].def, plan |-> call[p].ran]
  <2>1. call[p].stack \in Stacks /\ call[p].def \in Defs
    BY <1>b, <1>c, <1>6 DEF PlanToken, At, Checking
  <2>2. call[p].ran \in Plan
    BY <1>0, <1>6 DEF PlanToken, At, CallsFilled
  <2>3. t \in Token
    BY <2>1, <2>2 DEF Token
  <2>4. token' = [token EXCEPT ![k] = t]
    BY <1>6 DEF PlanToken
  <2> HIDE DEF t
  <2>5. token' \in [TokenIds -> Token \cup {None}]
    BY <1>0, <2>3, <2>4
  <2> QED
    BY <1>0, <1>a, <1>6, <2>5 DEF PlanToken
<1>7. ASSUME NEW p \in Procs, Refused(p) PROVE TypeOK'
  BY <1>0, <1>a, <1>7 DEF Refused, Leave, Idle
<1>8. ASSUME NEW k \in TokenIds, TokenExpires(k) PROVE TypeOK'
  BY <1>0, <1>a, <1>8 DEF TokenExpires
<1>9. ASSUME NEW p \in Procs, NEW k \in TokenIds, DeployStart(p, k) PROVE TypeOK'
  BY <1>0, <1>a, <1>9 DEF DeployStart, At, Idle
<1>10. ASSUME NEW p \in Procs, DeployConsume(p) PROVE TypeOK'
  <2> DEFINE t == token[call[p].tok]
             a == [stack |-> call[p].stack, etag |-> call[p].def, plan |-> t.plan]
  <2>1. call[p].stack \in Stacks /\ call[p].def \in Defs
    BY <1>b, <1>c, <1>10 DEF DeployConsume, At, Checking
  <2>2. call[p].tok \in TokenIds /\ t \in Token
    BY <1>0, <1>10 DEF DeployConsume, Consumable, At, CallsFilled
  <2>3. a \in Asked
    BY <2>1, <2>2 DEF Token, Asked
  <2>4. asked' \subseteq Asked
    BY <1>0, <1>10, <2>3 DEF DeployConsume
  <2>5. token' \in [TokenIds -> Token \cup {None}]
    BY <1>0, <1>10, <2>2 DEF DeployConsume
  <2> QED
    BY <1>0, <1>a, <1>10, <2>4, <2>5 DEF DeployConsume
<1>11. ASSUME NEW p \in Procs, DeployConflict(p) PROVE TypeOK'
  BY <1>0, <1>a, <1>11 DEF DeployConflict, At, Leave, Idle
<1>12. ASSUME NEW p \in Procs, NEW a \in asked, HandlerStart(p, a) PROVE TypeOK'
  BY <1>0, <1>a, <1>12 DEF HandlerStart, At, Idle
<1>13. ASSUME NEW p \in Procs, StartLock(p) PROVE TypeOK'
  <2>1. call[p].stack \in Stacks
    BY <1>b, <1>13 DEF StartLock, At
  <2>2. lock' \in [Stacks -> Procs \cup {None}] /\ waiters' \in [Stacks -> Seq(Procs)]
    BY <1>0, <1>13, <2>1, AcquireTypes DEF StartLock
  <2>3. sdnLock' \in Procs \cup {None}
    BY <1>0, <1>13 DEF StartLock
  <2> QED
    BY <1>0, <1>a, <1>13, <2>2, <2>3 DEF StartLock
<1>14. ASSUME NEW p \in Procs, NEW j \in JobIds, StartRows(p, j) PROVE TypeOK'
  <2> DEFINE r == [stack |-> call[p].stack, op |-> call[p].op,
                    st |-> "pending", dep |-> "none"]
  <2>1. call[p].stack \in Stacks /\ call[p].op \in Ops
    BY <1>b, <1>c, <1>14 DEF StartRows, At, Checking
  <2>2. r \in Job
    BY <2>1 DEF Job
  <2>3. job' = [job EXCEPT ![j] = r]
    BY <1>14 DEF StartRows
  <2> HIDE DEF r
  <2>4. job' \in [JobIds -> Job \cup {None}]
    BY <1>0, <2>2, <2>3
  <2> QED
    BY <1>0, <1>a, <1>14, <2>4 DEF StartRows
<1>15. ASSUME NEW p \in Procs, StartRunner(p) PROVE TypeOK'
  BY <1>0, <1>a, <1>15 DEF StartRunner, At, Goto
<1>16. ASSUME NEW p \in Procs, StartRefused(p) PROVE TypeOK'
  BY <1>0, <1>a, <1>16, Zenon DEF StartRefused, At, Release, ReleaseSdn, Leave, Idle
<1>17. ASSUME NEW p \in Procs, RunnerStart(p) PROVE TypeOK'
  <2> DEFINE r == job[call[p].job]
  <2>1. call[p].job \in JobIds /\ r \in Job
    BY <1>0, <1>17 DEF RunnerStart, At, CallsFilled, Jobbing
  <2>2. [r EXCEPT !.st = "running"] \in Job
    BY <2>1, RowFields, Zenon
  <2>3. job' \in [JobIds -> Job \cup {None}]
    BY <1>0, <1>17, <2>1, <2>2 DEF RunnerStart
  <2> QED
    BY <1>0, <1>a, <1>17, <2>3 DEF RunnerStart
<1>18. ASSUME NEW p \in Procs, RunnerDies(p) PROVE TypeOK'
  BY <1>0, <1>a, <1>18 DEF RunnerDies, Leave, Idle
<1>19. ASSUME NEW p \in Procs, TofuStart(p) PROVE TypeOK'
  BY <1>0, <1>a, <1>19 DEF TofuStart, At
<1>20. ASSUME NEW p \in Procs, TofuOk(p) PROVE TypeOK'
  <2>1. call[p].stack \in Stacks /\ call[p].ran \in Plan /\ planfile[call[p].stack] # None
    BY <1>0, <1>b, <1>20 DEF TofuOk, At, CallsFilled, Planned, Jobbing
  <2>2. Target(call[p].ran) \in Defs \cup {None}
    BY <2>1 DEF Target, Plan
  <2> QED
    BY <1>0, <1>a, <1>20, <2>1, <2>2, ReachTypes DEF TofuOk
<1>21. ASSUME NEW p \in Procs, TofuError(p) PROVE TypeOK'
  <2> DEFINE s == call[p].stack
  <2>1. s \in Stacks /\ call[p].ran \in Plan /\ planfile[s] # None
    BY <1>0, <1>b, <1>21 DEF TofuError, At, CallsFilled, Planned, Jobbing
  <2>2. {infra[s], Target(call[p].ran)} \subseteq Defs \cup {None}
    BY <1>0, <2>1 DEF Target, Plan
  <2>3. PICK d \in {infra[s], Target(call[p].ran)} : Reach(s, d)
    BY <1>21 DEF TofuError
  <2> QED
    BY <1>0, <1>a, <1>21, <2>1, <2>2, <2>3, ReachTypes DEF TofuError
<1>22. ASSUME NEW p \in Procs, Sync(p) PROVE TypeOK'
  BY <1>0, <1>a, <1>22 DEF Sync, At, Goto
<1>23. ASSUME NEW p \in Procs, Commit(p) PROVE TypeOK'
  <2>1. call[p].stack \in Stacks
    BY <1>b, <1>23 DEF Commit, At
  <2>2. drift' \in [Stacks -> {"none", "in_sync", "out_of_sync"}]
    BY <1>0, <1>23, <2>1 DEF Commit
  <2> QED
    BY <1>0, <1>a, <1>23, <2>2 DEF Commit
<1>24. ASSUME NEW p \in Procs, FinishDeployment(p) PROVE TypeOK'
  <2> DEFINE r == job[call[p].job]
  <2>1. call[p].stack \in Stacks
    BY <1>b, <1>24 DEF FinishDeployment, At
  <2>2. call[p].job \in JobIds /\ r \in Job
    BY <1>0, <1>24 DEF FinishDeployment, At, CallsFilled, Jobbing
  <2>3. PICK dep \in Outcome(p) : job' = [job EXCEPT ![call[p].job] = [r EXCEPT !.dep = dep]]
    BY <1>24 DEF FinishDeployment
  <2>4. dep \in {"running", "success", "partial", "failed"}
    BY <2>3, SMTT(40) DEF Outcome
  <2>5. [r EXCEPT !.dep = dep] \in Job
    BY <2>2, <2>4, RowFields, Zenon
  <2> HIDE DEF r
  <2>6. job' \in [JobIds -> Job \cup {None}]
    BY <1>0, <2>3, <2>5
  <2> QED
    BY <1>0, <1>a, <1>24, <2>6 DEF FinishDeployment
<1>25. ASSUME NEW p \in Procs, NEW s \in Stacks, DriftStart(p, s) PROVE TypeOK'
  BY <1>0, <1>a, <1>25 DEF DriftStart, At, Idle
<1>26. ASSUME NEW p \in Procs, DriftNone(p) PROVE TypeOK'
  BY <1>0, <1>a, <1>26 DEF DriftNone, At, Leave, Idle
<1>27. ASSUME NEW p \in Procs, DriftLock(p) PROVE TypeOK'
  <2>1. call[p].stack \in Stacks
    BY <1>b, <1>27 DEF DriftLock, At
  <2>2. lock' \in [Stacks -> Procs \cup {None}] /\ waiters' \in [Stacks -> Seq(Procs)]
    BY <1>0, <1>27, <2>1, AcquireTypes DEF DriftLock
  <2> QED
    BY <1>0, <1>a, <1>27, <2>2 DEF DriftLock
<1>28. ASSUME NEW p \in Procs, DriftTofu(p) PROVE TypeOK'
  BY <1>0, <1>a, <1>28 DEF DriftTofu, At, Release
<1>29. ASSUME NEW p \in Procs, DriftFailed(p) PROVE TypeOK'
  BY <1>0, <1>a, <1>29 DEF DriftFailed, At, Release, Leave, Idle
<1>30. ASSUME NEW p \in Procs, DriftSave(p) PROVE TypeOK'
  <2>1. call[p].stack \in Stacks /\ call[p].found \in {"none", "in_sync", "out_of_sync"}
    BY <1>a, <1>b, <1>30 DEF DriftSave, At, Call
  <2> QED
    BY <1>0, <1>a, <1>30, <2>1 DEF DriftSave
<1>31. ASSUME NEW s \in Stacks, NEW d \in Defs, Edit(s, d) PROVE TypeOK'
  BY <1>0, <1>a, <1>31 DEF Edit
<1>32. ASSUME NEW s \in Stacks, Delete(s) PROVE TypeOK'
  BY <1>0, <1>a, <1>32 DEF Delete
<1>33. CASE Crash
  <2>1. infra' \in [Stacks -> Defs \cup {None}] /\ planfile' \in [Stacks -> Planfile \cup {None}]
    BY <1>0, <1>33, CrashTypes
  <2>2. waiters' \in [Stacks -> Seq(Procs)]
    BY <1>33 DEF Crash
  <2> QED
    BY <1>0, <1>a, <1>33, <2>1, <2>2 DEF Crash
<1>34. ASSUME NEW p \in Procs, RunnerError(p) PROVE TypeOK'
  BY <1>0, <1>a, <1>34 DEF RunnerError
<1>35. ASSUME NEW p \in Procs, FinishJob(p) PROVE TypeOK'
  <2> DEFINE r == job[call[p].job]
             t == IF call[p].ok THEN "success" ELSE "failed"
  <2>1. call[p].stack \in Stacks
    BY <1>b, <1>35 DEF FinishJob, At
  <2>2. call[p].job \in JobIds /\ r \in Job
    BY <1>0, <1>35 DEF FinishJob, At, CallsFilled, Jobbing
  <2>3. job' = [job EXCEPT ![call[p].job] = [r EXCEPT !.st = t]]
    BY <1>35 DEF FinishJob
  <2>4. t \in {"success", "failed"}
    OBVIOUS
  <2>5. [r EXCEPT !.st = t] \in Job
    BY <2>2, <2>4, RowFields, Zenon
  <2> HIDE DEF r, t
  <2>6. job' \in [JobIds -> Job \cup {None}]
    BY <1>0, <2>3, <2>5
  <2>7. lock' \in [Stacks -> Procs \cup {None}] /\ sdnLock' \in Procs \cup {None}
    BY <1>0, <1>35, <2>1 DEF FinishJob, Release, ReleaseSdn
  <2> QED
    BY <1>0, <1>a, <1>35, <2>6, <2>7 DEF FinishJob, Release
<1>36. ASSUME NEW p \in Procs, CreateDeployment(p) PROVE TypeOK'
  <2> DEFINE r == job[call[p].job]
  <2>1. call[p].job \in JobIds /\ r \in Job
    BY <1>0, <1>36 DEF CreateDeployment, At, CallsFilled, Jobbing
  <2>2. [r EXCEPT !.dep = "running"] \in Job
    BY <2>1, RowFields, Zenon
  <2>3. job' \in [JobIds -> Job \cup {None}]
    BY <1>0, <1>36, <2>1, <2>2 DEF CreateDeployment
  <2> QED
    BY <1>0, <1>a, <1>36, <2>3 DEF CreateDeployment
<1>37. ASSUME NEW p \in Procs, LosesTofu(p) PROVE TypeOK'
  <2>1. call[p].ran \in Plan
    BY <1>0, <1>37 DEF LosesTofu, At, CallsFilled
  <2>2. loose' \in [Stacks -> Plan \cup {None}]
    BY <1>0, <1>37, <2>1 DEF LosesTofu
  <2> QED
    BY <1>0, <1>a, <1>37, <2>2 DEF LosesTofu
<1>38. ASSUME NEW s \in Stacks, LooseEnds(s) PROVE TypeOK'
  <2>1. loose[s] \in Plan /\ planfile[s] # None
    BY <1>0, <1>38 DEF LooseEnds, LooseBacked
  <2>2. {infra[s], Target(loose[s])} \subseteq Defs \cup {None}
    BY <1>0, <2>1 DEF Target, Plan
  <2>3. PICK d \in {infra[s], Target(loose[s])} : Reach(s, d)
    BY <1>38 DEF LooseEnds
  <2>4. loose' \in [Stacks -> Plan \cup {None}]
    BY <1>0, <1>38 DEF LooseEnds
  <2> QED
    BY <1>0, <1>a, <1>38, <2>1, <2>2, <2>3, <2>4, ReachTypes DEF LooseEnds
<1> QED
  BY <1>0, <1>1, <1>2, <1>3, <1>4, <1>5, <1>6, <1>7, <1>8, <1>9, <1>10, <1>11, <1>12,
     <1>13, <1>14, <1>15, <1>16, <1>17, <1>18, <1>19, <1>20, <1>21, <1>22, <1>23, <1>24,
     <1>25, <1>26, <1>27, <1>28, <1>29, <1>30, <1>31, <1>32, <1>33, <1>34, <1>35, <1>36, <1>37, <1>38
     DEF Next, Planning, Deploying, Running, Drifting
-----------------------------------------------------------------------------
(***************************************************************************)
(* Rows and planfiles stay, and calls have what they need.                 *)
(***************************************************************************)

\* Rows and planfiles stay.
Persist ==
  /\ \A j \in JobIds : job[j] # None => job'[j] # None
  /\ \A s \in Stacks : planfile[s] # None => planfile'[s] # None

\* A planfile that tofu has carried out is still a planfile.
LEMMA ReachPersist ==
  ASSUME TypeOK, NEW s \in Stacks, planfile[s] # None, NEW d, Reach(s, d), job' = job
  PROVE  Persist
<1> DEFINE f == planfile[s]
           b == f.stale \/ d # infra[s]
<1>1. [f EXCEPT !.stale = b] \in Planfile
  BY ZenonT(60) DEF TypeOK, Planfile
<1>2. planfile' = [planfile EXCEPT ![s] = [f EXCEPT !.stale = b]]
  BY DEF Reach
<1>3. planfile \in [Stacks -> Planfile \cup {None}]
  BY DEF TypeOK
<1> HIDE DEF b, f
<1> QED
  BY <1>1, <1>2, <1>3, NoneAssumption DEF Persist

\* No step takes a job row or a planfile away.
LEMMA StepPersist == IInv /\ [Next]_vars => Persist
<1>0. SUFFICES ASSUME IInv, Next PROVE Persist
  BY DEF IInv, TypeOK, Persist, vars
<1>b. \A p \in Procs : call[p].pc # "idle" => call[p].stack \in Stacks
  BY <1>0 DEF IInv, TypeOK, CallsFilled, Call, Located, Others
<1> USE DEF IInv, TypeOK, Persist, rows, files, locks
<1>1. ASSUME NEW p \in Procs, Wake(p) PROVE Persist
  BY <1>0, <1>1 DEF Wake, Woken, Goto
<1>2. ASSUME NEW p \in Procs, NEW s \in Stacks, NEW op \in Ops, PlanStart(p, s, op) PROVE Persist
  BY <1>0, <1>2 DEF PlanStart, At, Idle
<1>3. ASSUME NEW p \in Procs, PlanWrite(p) PROVE Persist
  BY <1>0, <1>3 DEF PlanWrite, At, Leave, Idle, Acquire, Goto, Locked
<1>4. ASSUME NEW p \in Procs, PlanTofu(p) PROVE Persist
  <2> DEFINE f == [op |-> call[p].op, def |-> mainTf[call[p].stack], stale |-> FALSE]
  <2>1. call[p].stack \in Stacks /\ call[p].op \in Ops
    BY <1>0, <1>b, <1>4 DEF PlanTofu, At, CallsFilled, Located, Owning, Checking
  <2>2. f \in Planfile
    BY <1>0, <2>1 DEF Planfile
  <2>3. f # None
    BY <2>2, NoneAssumption
  <2>4. planfile' = [planfile EXCEPT ![call[p].stack] = f]
    BY <1>4 DEF PlanTofu
  <2> HIDE DEF f
  <2> QED
    BY <1>0, <1>4, <2>3, <2>4 DEF PlanTofu
<1>5. ASSUME NEW p \in Procs, PlanFailed(p) PROVE Persist
  BY <1>0, <1>5 DEF PlanFailed, At, Release, Leave, Idle
<1>6. ASSUME NEW p \in Procs, NEW k \in TokenIds, PlanToken(p, k) PROVE Persist
  BY <1>0, <1>6 DEF PlanToken, At, Leave, Idle
<1>7. ASSUME NEW p \in Procs, Refused(p) PROVE Persist
  BY <1>0, <1>7 DEF Refused, Leave, Idle
<1>8. ASSUME NEW k \in TokenIds, TokenExpires(k) PROVE Persist
  BY <1>0, <1>8 DEF TokenExpires
<1>9. ASSUME NEW p \in Procs, NEW k \in TokenIds, DeployStart(p, k) PROVE Persist
  BY <1>0, <1>9 DEF DeployStart, At, Idle
<1>10. ASSUME NEW p \in Procs, DeployConsume(p) PROVE Persist
  BY <1>0, <1>10 DEF DeployConsume, At, Leave, Idle, Consumable
<1>11. ASSUME NEW p \in Procs, DeployConflict(p) PROVE Persist
  BY <1>0, <1>11 DEF DeployConflict, At, Leave, Idle
<1>12. ASSUME NEW p \in Procs, NEW a \in asked, HandlerStart(p, a) PROVE Persist
  BY <1>0, <1>12 DEF HandlerStart, At, Idle
<1>13. ASSUME NEW p \in Procs, StartLock(p) PROVE Persist
  BY <1>0, <1>13 DEF StartLock, At, Leave, Idle, Locked, Acquire, Goto
<1>14. ASSUME NEW p \in Procs, NEW j \in JobIds, StartRows(p, j) PROVE Persist
  BY <1>0, <1>14 DEF StartRows, At
<1>15. ASSUME NEW p \in Procs, StartRunner(p) PROVE Persist
  BY <1>0, <1>15 DEF StartRunner, At, Goto
<1>16. ASSUME NEW p \in Procs, StartRefused(p) PROVE Persist
  BY <1>0, <1>16 DEF StartRefused, At, Release, ReleaseSdn, Leave, Idle
<1>17. ASSUME NEW p \in Procs, RunnerStart(p) PROVE Persist
  <2> DEFINE r == job[call[p].job]
  <2>1. r \in Job
    BY <1>0, <1>17, SMTT(40) DEF RunnerStart, At, CallsFilled, Jobbing
  <2>2. [r EXCEPT !.st = "running"] # None
    BY <2>1, RowFields, NoneAssumption, Zenon
  <2>3. job' = [job EXCEPT ![call[p].job] = [r EXCEPT !.st = "running"]]
    BY <1>17 DEF RunnerStart
  <2> QED
    BY <1>0, <1>17, <2>2, <2>3 DEF RunnerStart
<1>18. ASSUME NEW p \in Procs, RunnerDies(p) PROVE Persist
  BY <1>0, <1>18 DEF RunnerDies, Leave, Idle
<1>19. ASSUME NEW p \in Procs, TofuStart(p) PROVE Persist
  BY <1>0, <1>19 DEF TofuStart, At
<1>20. ASSUME NEW p \in Procs, TofuOk(p) PROVE Persist
  <2>1. call[p].stack \in Stacks /\ planfile[call[p].stack] # None
    BY <1>0, <1>b, <1>20 DEF TofuOk, At, CallsFilled, Planned, Jobbing
  <2> QED
    BY <1>0, <1>20, <2>1, ReachPersist DEF TofuOk
<1>21. ASSUME NEW p \in Procs, TofuError(p) PROVE Persist
  <2>1. call[p].stack \in Stacks /\ planfile[call[p].stack] # None
    BY <1>0, <1>b, <1>21 DEF TofuError, At, CallsFilled, Planned, Jobbing
  <2> QED
    BY <1>0, <1>21, <2>1, ReachPersist DEF TofuError
<1>22. ASSUME NEW p \in Procs, Sync(p) PROVE Persist
  BY <1>0, <1>22 DEF Sync, At, Goto
<1>23. ASSUME NEW p \in Procs, Commit(p) PROVE Persist
  BY <1>0, <1>23 DEF Commit, At
<1>24. ASSUME NEW p \in Procs, FinishDeployment(p) PROVE Persist
  <2> DEFINE r == job[call[p].job]
  <2>1. r \in Job
    BY <1>0, <1>24, SMTT(40) DEF FinishDeployment, At, CallsFilled, Jobbing
  <2>2. PICK dep \in Outcome(p) : job' = [job EXCEPT ![call[p].job] = [r EXCEPT !.dep = dep]]
    BY <1>24 DEF FinishDeployment
  <2>3. dep \in {"running", "success", "partial", "failed"}
    BY <2>2 DEF Outcome
  <2>4. [r EXCEPT !.dep = dep] \in Job
    BY <2>1, <2>3, RowFields, Zenon
  <2> HIDE DEF r
  <2> QED
    BY <1>0, <1>24, <2>2, <2>4, NoneAssumption DEF FinishDeployment
<1>25. ASSUME NEW p \in Procs, NEW s \in Stacks, DriftStart(p, s) PROVE Persist
  BY <1>0, <1>25 DEF DriftStart, At, Idle
<1>26. ASSUME NEW p \in Procs, DriftNone(p) PROVE Persist
  BY <1>0, <1>26 DEF DriftNone, At, Leave, Idle
<1>27. ASSUME NEW p \in Procs, DriftLock(p) PROVE Persist
  BY <1>0, <1>27 DEF DriftLock, At, Acquire, Goto
<1>28. ASSUME NEW p \in Procs, DriftTofu(p) PROVE Persist
  BY <1>0, <1>28 DEF DriftTofu, At, Release
<1>29. ASSUME NEW p \in Procs, DriftFailed(p) PROVE Persist
  BY <1>0, <1>29 DEF DriftFailed, At, Release, Leave, Idle
<1>30. ASSUME NEW p \in Procs, DriftSave(p) PROVE Persist
  BY <1>0, <1>30 DEF DriftSave, At, Leave, Idle
<1>31. ASSUME NEW s \in Stacks, NEW d \in Defs, Edit(s, d) PROVE Persist
  BY <1>0, <1>31 DEF Edit
<1>32. ASSUME NEW s \in Stacks, Delete(s) PROVE Persist
  BY <1>0, <1>32 DEF Delete
<1>33. CASE Crash
  <2>1. job' = job
    BY <1>33 DEF Crash
  <2>2. ASSUME NEW s \in Stacks, planfile[s] # None
        PROVE  [planfile[s] EXCEPT !.stale = TRUE] # None
    <3>1. planfile[s] \in Planfile
      BY <1>0, <2>2
    <3>2. [planfile[s] EXCEPT !.stale = TRUE] \in Planfile
      BY <3>1, RowFields, Zenon
    <3> QED
      BY <3>2, NoneAssumption, Zenon
  <2>3. \A s \in Stacks : planfile'[s] \in {planfile[s], [planfile[s] EXCEPT !.stale = TRUE]}
    BY <1>33 DEF Crash
  <2> QED
    BY <2>1, <2>2, <2>3
<1>34. ASSUME NEW p \in Procs, RunnerError(p) PROVE Persist
  BY <1>0, <1>34 DEF RunnerError
<1>35. ASSUME NEW p \in Procs, FinishJob(p) PROVE Persist
  <2> DEFINE r == job[call[p].job]
             t == IF call[p].ok THEN "success" ELSE "failed"
  <2>1. r \in Job
    BY <1>0, <1>35, SMTT(40) DEF FinishJob, At, CallsFilled, Jobbing
  <2>2. job' = [job EXCEPT ![call[p].job] = [r EXCEPT !.st = t]]
    BY <1>35 DEF FinishJob
  <2>3. t \in {"success", "failed"}
    OBVIOUS
  <2>4. [r EXCEPT !.st = t] \in Job
    BY <2>1, <2>3, RowFields, Zenon
  <2> HIDE DEF r, t
  <2> QED
    BY <1>0, <1>35, <2>2, <2>4, NoneAssumption DEF FinishJob
<1>36. ASSUME NEW p \in Procs, CreateDeployment(p) PROVE Persist
  <2> DEFINE r == job[call[p].job]
  <2>1. r \in Job
    BY <1>0, <1>36, SMTT(40) DEF CreateDeployment, At, CallsFilled, Jobbing
  <2>2. [r EXCEPT !.dep = "running"] # None
    BY <2>1, RowFields, NoneAssumption, Zenon
  <2>3. job' = [job EXCEPT ![call[p].job] = [r EXCEPT !.dep = "running"]]
    BY <1>36 DEF CreateDeployment
  <2> QED
    BY <1>0, <1>36, <2>2, <2>3 DEF CreateDeployment
<1>37. ASSUME NEW p \in Procs, LosesTofu(p) PROVE Persist
  BY <1>0, <1>37 DEF LosesTofu
<1>38. ASSUME NEW s \in Stacks, LooseEnds(s) PROVE Persist
  <2>1. planfile[s] # None
    BY <1>0, <1>38 DEF LooseEnds, LooseBacked
  <2> QED
    BY <1>0, <1>38, <2>1, ReachPersist DEF LooseEnds
<1> QED
  BY <1>0, <1>1, <1>2, <1>3, <1>4, <1>5, <1>6, <1>7, <1>8, <1>9, <1>10, <1>11, <1>12,
     <1>13, <1>14, <1>15, <1>16, <1>17, <1>18, <1>19, <1>20, <1>21, <1>22, <1>23, <1>24,
     <1>25, <1>26, <1>27, <1>28, <1>29, <1>30, <1>31, <1>32, <1>33, <1>34, <1>35, <1>36, <1>37, <1>38
     DEF Next, Planning, Deploying, Running, Drifting

\* What a call must hold, in the rows and files a step leaves.
Fit(c) ==
  /\ c.pc \in Located => c.stack \in Stacks
  /\ c.pc \in Located \ Checking => c.def \in Defs /\ c.op \in Ops
  /\ c.pc = "deploy" => c.tok \in TokenIds
  /\ c.pc \in {"token", "tofu"} => c.ran \in Plan
  /\ c.pc \in Jobbing => c.job \in JobIds /\ job'[c.job] # None
  /\ c.pc \in Planned => planfile'[c.stack] # None

\* One call moves to where it holds what it needs, the others stay.
LEMMA MoveFilled ==
  ASSUME IInv, Persist, NEW p \in Procs, NEW c, Fit(c), call' = [call EXCEPT ![p] = c]
  PROVE  CallsFilled'
<1>1. call'[p] = c /\ \A q \in Procs \ {p} : call'[q] = call[q]
  BY DEF IInv, TypeOK
<1>2. ASSUME NEW q \in Procs \ {p} PROVE Fit(call[q])
  BY DEF IInv, CallsFilled, Fit, Persist, Planned, Jobbing, Located, Owning, Others, Waiting
<1>3. \A q \in Procs : Fit(call'[q])
  BY <1>1, <1>2
<1> QED
  BY <1>3 DEF CallsFilled, Fit

\* A call that goes idle needs nothing.
LEMMA LeaveFilled ==
  ASSUME IInv, Persist, NEW p \in Procs, Leave(p)
  PROVE  CallsFilled'
<1>1. Fit(Idle)
  BY DEF Fit, Idle, Located, Owning, Waiting, Others, Planned, Jobbing
<1> QED
  BY <1>1, MoveFilled DEF Leave

\* A call that only moves on needs to hold what the place it goes to asks for.
LEMMA GotoFilled ==
  ASSUME IInv, Persist, NEW p \in Procs, NEW x, Goto(p, x), call[p].stack \in Stacks,
         x \notin Checking => call[p].def \in Defs /\ call[p].op \in Ops,
         x \in {"token", "tofu"} => call[p].ran \in Plan,
         x # "deploy",
         x \in Jobbing => call[p].job \in JobIds /\ job[call[p].job] # None,
         x \in Planned => planfile[call[p].stack] # None
  PROVE  CallsFilled'
<1> DEFINE c == [call[p] EXCEPT !.pc = x]
<1>1. /\ c.pc = x /\ c.stack = call[p].stack /\ c.def = call[p].def /\ c.op = call[p].op
      /\ c.ran = call[p].ran /\ c.job = call[p].job
  BY DEF IInv, TypeOK, Call
<1>2. call' = [call EXCEPT ![p] = c]
  BY DEF Goto
<1> HIDE DEF c
<1>3. Fit(c)
  BY <1>1 DEF Fit, Persist
<1> QED
  BY <1>2, <1>3, MoveFilled

\* Every step leaves each call with what it needs.
LEMMA StepFilled == IInv /\ [Next]_vars => CallsFilled'
<1>0. SUFFICES ASSUME IInv, Next PROVE CallsFilled'
  BY DEF IInv, TypeOK, CallsFilled, vars
<1>a. Persist /\ call \in [Procs -> Call] /\ \A p \in Procs : call[p] \in Call
  BY <1>0, StepPersist DEF IInv, TypeOK
<1>b. \A p \in Procs : call[p].pc # "idle" => call[p].stack \in Stacks
  BY <1>0 DEF IInv, TypeOK, CallsFilled, Call, Located, Others
<1>c. \A p \in Procs : call[p].pc \notin {"idle"} \cup Checking
                         => call[p].def \in Defs /\ call[p].op \in Ops
  BY <1>0 DEF IInv, TypeOK, CallsFilled, Call, Located, Others
<1> USE DEF rows, files, locks
<1>1. ASSUME NEW p \in Procs, Wake(p) PROVE CallsFilled'
  <2>1. call[p].stack \in Stacks
    BY <1>b, <1>1 DEF Wake, Waiting
  <2>2. Woken(p) \notin Checking => call[p].def \in Defs /\ call[p].op \in Ops
    BY <1>c, <1>1 DEF Wake, Waiting, Woken, Checking
  <2>3. Woken(p) = "rows" => planfile[call[p].stack] # None
    BY <1>0, <1>1 DEF Wake, Waiting, Woken, IInv, CallsFilled, Planned
  <2>4. Woken(p) \in {"planning", "rows", "drifting"}
    BY <1>1 DEF Wake, Waiting, Woken
  <2> QED
    BY <1>0, <1>a, <1>1, <2>1, <2>2, <2>3, <2>4, GotoFilled DEF Wake, Planned, Jobbing
<1>2. ASSUME NEW p \in Procs, NEW s \in Stacks, NEW op \in Ops, PlanStart(p, s, op) PROVE CallsFilled'
  <2> DEFINE c == [Idle EXCEPT !.pc = "plan", !.stack = s, !.def = def[s], !.op = op]
  <2>1. def[s] \in Defs
    BY <1>0, <1>2 DEF PlanStart, IInv, TypeOK
  <2>2. c.pc = "plan" /\ c.stack = s /\ c.def = def[s] /\ c.op = op
    BY DEF Idle
  <2>3. call' = [call EXCEPT ![p] = c]
    BY <1>2 DEF PlanStart
  <2> HIDE DEF c
  <2>4. Fit(c)
    BY <2>1, <2>2 DEF Fit, Jobbing, Planned
  <2> QED
    BY <1>0, <1>a, <2>3, <2>4, MoveFilled
<1>3. ASSUME NEW p \in Procs, PlanWrite(p) PROVE CallsFilled'
  <2>1. call[p].stack \in Stacks /\ call[p].def \in Defs /\ call[p].op \in Ops
    BY <1>b, <1>c, <1>3 DEF PlanWrite, At, Checking
  <2>2. Leave(p) \/ Goto(p, "planning") \/ Goto(p, "planWait")
    BY <1>3 DEF PlanWrite, Acquire
  <2> QED
    BY <1>0, <1>a, <2>1, <2>2, LeaveFilled, GotoFilled DEF Planned, Jobbing
<1>4. ASSUME NEW p \in Procs, PlanTofu(p) PROVE CallsFilled'
  <2> DEFINE s == call[p].stack
             made == [op |-> call[p].op, def |-> mainTf[s]]
             f == [op |-> call[p].op, def |-> mainTf[s], stale |-> FALSE]
             c == [call[p] EXCEPT !.pc = "token", !.ran = made]
  <2>1. s \in Stacks /\ call[p].def \in Defs /\ call[p].op \in Ops
    BY <1>b, <1>c, <1>4 DEF PlanTofu, At, Checking
  <2>2. made \in Plan /\ f \in Planfile
    BY <1>0, <2>1 DEF Plan, Planfile, IInv, TypeOK
  <2>3. planfile' = [planfile EXCEPT ![s] = f] /\ call' = [call EXCEPT ![p] = c]
    BY <1>4 DEF PlanTofu
  <2> HIDE DEF made, f
  <2>4. c.pc = "token" /\ c.stack = s /\ c.def = call[p].def /\ c.op = call[p].op /\ c.ran = made
    BY <1>a DEF Call
  <2> HIDE DEF c
  <2>5. planfile'[s] # None
    BY <1>0, <2>1, <2>2, <2>3, NoneAssumption DEF IInv, TypeOK
  <2>6. Fit(c)
    BY <2>1, <2>2, <2>4, <2>5 DEF Fit, Jobbing
  <2> QED
    BY <1>0, <1>a, <2>3, <2>6, MoveFilled
<1>5. ASSUME NEW p \in Procs, PlanFailed(p) PROVE CallsFilled'
  BY <1>0, <1>a, <1>5, LeaveFilled DEF PlanFailed
<1>6. ASSUME NEW p \in Procs, NEW k \in TokenIds, PlanToken(p, k) PROVE CallsFilled'
  <2> DEFINE c == [call[p] EXCEPT !.pc = "start", !.ran = None]
  <2>1. call[p].stack \in Stacks /\ call[p].def \in Defs /\ call[p].op \in Ops
    BY <1>b, <1>c, <1>6 DEF PlanToken, At, Checking
  <2>2. planfile'[call[p].stack] # None
    BY <1>0, <1>a, <2>1, <1>6 DEF PlanToken, At, IInv, CallsFilled, Planned, Persist
  <2>3. c.pc = "start" /\ c.stack = call[p].stack /\ c.def = call[p].def /\ c.op = call[p].op
    BY <1>a DEF Call
  <2>4. Leave(p) \/ call' = [call EXCEPT ![p] = c]
    BY <1>6 DEF PlanToken
  <2> HIDE DEF c
  <2>5. Fit(c)
    BY <2>1, <2>2, <2>3 DEF Fit, Jobbing
  <2> QED
    BY <1>0, <1>a, <2>4, <2>5, LeaveFilled, MoveFilled
<1>7. ASSUME NEW p \in Procs, Refused(p) PROVE CallsFilled'
  BY <1>0, <1>a, <1>7, LeaveFilled DEF Refused
<1>8. ASSUME NEW k \in TokenIds, TokenExpires(k) PROVE CallsFilled'
  BY <1>0, <1>a, <1>8 DEF TokenExpires, IInv, CallsFilled, Persist, rows, files, locks, Located, Owning, Waiting, Others, Planned, Jobbing
<1>9. ASSUME NEW p \in Procs, NEW k \in TokenIds, DeployStart(p, k) PROVE CallsFilled'
  <2> DEFINE t == token[k]
             c == [Idle EXCEPT !.pc = "deploy", !.stack = t.stack, !.def = def[t.stack],
                               !.op = t.plan.op, !.tok = k]
  <2>1. t.stack \in Stacks /\ t.plan.op \in Ops
    BY <1>0, <1>9 DEF DeployStart, IInv, TypeOK, Token, Plan
  <2>2. def[t.stack] \in Defs
    BY <1>0, <2>1, <1>9 DEF DeployStart, IInv, TypeOK
  <2>3. c.pc = "deploy" /\ c.stack = t.stack /\ c.def = def[t.stack] /\ c.op = t.plan.op /\ c.tok = k
    BY DEF Idle
  <2>4. call' = [call EXCEPT ![p] = c]
    BY <1>9 DEF DeployStart
  <2> HIDE DEF t, c
  <2>5. Fit(c)
    BY <2>1, <2>2, <2>3 DEF Fit, Jobbing, Planned
  <2> QED
    BY <1>0, <1>a, <2>4, <2>5, MoveFilled
<1>10. ASSUME NEW p \in Procs, DeployConsume(p) PROVE CallsFilled'
  <2> DEFINE t == token[call[p].tok]
             c == [call[p] EXCEPT !.pc = "start", !.tok = None, !.want = t.plan]
  <2>1. call[p].stack \in Stacks /\ call[p].def \in Defs /\ call[p].op \in Ops
    BY <1>b, <1>c, <1>10 DEF DeployConsume, At, Checking
  <2>2. planfile[call[p].stack] # None
    BY <1>0, <1>10 DEF DeployConsume, Consumable, At, IInv, CallsFilled, TokensBacked
  <2>3. c.pc = "start" /\ c.stack = call[p].stack /\ c.def = call[p].def /\ c.op = call[p].op
    BY <1>a DEF Call
  <2>4. Leave(p) \/ call' = [call EXCEPT ![p] = c]
    BY <1>10 DEF DeployConsume
  <2> HIDE DEF t, c
  <2>5. Fit(c)
    BY <1>a, <2>1, <2>2, <2>3 DEF Fit, Jobbing, Persist
  <2> QED
    BY <1>0, <1>a, <2>4, <2>5, LeaveFilled, MoveFilled
<1>11. ASSUME NEW p \in Procs, DeployConflict(p) PROVE CallsFilled'
  BY <1>0, <1>a, <1>11, LeaveFilled DEF DeployConflict
<1>12. ASSUME NEW p \in Procs, NEW a \in asked, HandlerStart(p, a) PROVE CallsFilled'
  <2> DEFINE c == [Idle EXCEPT !.pc = "plan", !.stack = a.stack, !.def = a.etag,
                               !.op = a.plan.op, !.want = a.plan]
  <2>1. a.stack \in Stacks /\ a.etag \in Defs /\ a.plan.op \in Ops
    BY <1>0, <1>12 DEF IInv, TypeOK, Asked, Plan
  <2>2. c.pc = "plan" /\ c.stack = a.stack /\ c.def = a.etag /\ c.op = a.plan.op
    BY DEF Idle
  <2>3. CASE call' = [call EXCEPT ![p] = c]
    <3> HIDE DEF c
    <3>1. Fit(c)
      BY <2>1, <2>2 DEF Fit, Jobbing, Planned
    <3> QED
      BY <1>0, <1>a, <2>3, <3>1, MoveFilled
  <2>4. CASE UNCHANGED call
    BY <1>0, <1>a, <2>4 DEF IInv, CallsFilled, Persist, Located, Owning, Waiting, Others, Planned, Jobbing
  <2> QED
    BY <1>12, <2>3, <2>4 DEF HandlerStart
<1>13. ASSUME NEW p \in Procs, StartLock(p) PROVE CallsFilled'
  <2>1. call[p].stack \in Stacks /\ call[p].def \in Defs /\ call[p].op \in Ops
    BY <1>b, <1>c, <1>13 DEF StartLock, At, Checking
  <2>2. planfile[call[p].stack] # None
    BY <1>0, <1>13 DEF StartLock, At, IInv, CallsFilled, Planned
  <2>3. Leave(p) \/ Goto(p, "rows") \/ Goto(p, "startWait")
    BY <1>13 DEF StartLock, Acquire
  <2> QED
    BY <1>0, <1>a, <2>1, <2>2, <2>3, LeaveFilled, GotoFilled DEF Jobbing
<1>14. ASSUME NEW p \in Procs, NEW j \in JobIds, StartRows(p, j) PROVE CallsFilled'
  <2> DEFINE c == [call[p] EXCEPT !.pc = "deprow", !.job = j]
             r == [stack |-> call[p].stack, op |-> call[p].op, st |-> "pending", dep |-> "none"]
  <2>1. call[p].stack \in Stacks /\ call[p].def \in Defs /\ call[p].op \in Ops
    BY <1>b, <1>c, <1>14 DEF StartRows, At, Checking
  <2>2. planfile'[call[p].stack] # None
    BY <1>0, <1>a, <2>1, <1>14 DEF StartRows, At, IInv, CallsFilled, Planned, Persist
  <2>3. r \in Job
    BY <2>1 DEF Job
  <2>4. job' = [job EXCEPT ![j] = r] /\ call' = [call EXCEPT ![p] = c]
    BY <1>14 DEF StartRows
  <2> HIDE DEF r
  <2>5. job'[j] # None
    BY <1>0, <2>3, <2>4, NoneAssumption DEF IInv, TypeOK
  <2>6. c.pc = "deprow" /\ c.stack = call[p].stack /\ c.def = call[p].def /\ c.op = call[p].op /\ c.job = j
    BY <1>a DEF Call
  <2> HIDE DEF c
  <2>7. Fit(c)
    BY <2>1, <2>2, <2>5, <2>6 DEF Fit
  <2> QED
    BY <1>0, <1>a, <2>4, <2>7, MoveFilled
<1>15. ASSUME NEW p \in Procs, StartRunner(p) PROVE CallsFilled'
  <2>1. call[p].stack \in Stacks /\ call[p].def \in Defs /\ call[p].op \in Ops
    BY <1>b, <1>c, <1>15 DEF StartRunner, At, Checking
  <2>2. /\ call[p].job \in JobIds /\ job[call[p].job] # None
        /\ planfile[call[p].stack] # None
    BY <1>0, <1>15 DEF StartRunner, At, IInv, CallsFilled, Jobbing, Planned
  <2> QED
    BY <1>0, <1>a, <1>15, <2>1, <2>2, GotoFilled DEF StartRunner, At
<1>16. ASSUME NEW p \in Procs, StartRefused(p) PROVE CallsFilled'
  BY <1>0, <1>a, <1>16, LeaveFilled DEF StartRefused
<1>17. ASSUME NEW p \in Procs, RunnerStart(p) PROVE CallsFilled'
  <2>1. call[p].stack \in Stacks /\ call[p].def \in Defs /\ call[p].op \in Ops
    BY <1>b, <1>c, <1>17 DEF RunnerStart, At, Checking
  <2>2. /\ call[p].job \in JobIds /\ job[call[p].job] # None
        /\ planfile[call[p].stack] # None
    BY <1>0, <1>17 DEF RunnerStart, At, IInv, CallsFilled, Jobbing, Planned
  <2> QED
    BY <1>0, <1>a, <1>17, <2>1, <2>2, GotoFilled DEF RunnerStart, At
<1>18. ASSUME NEW p \in Procs, RunnerDies(p) PROVE CallsFilled'
  BY <1>0, <1>a, <1>18, LeaveFilled DEF RunnerDies
<1>19. ASSUME NEW p \in Procs, TofuStart(p) PROVE CallsFilled'
  <2> DEFINE made == [op |-> planfile[call[p].stack].op, def |-> planfile[call[p].stack].def]
             c == [call[p] EXCEPT !.pc = "tofu", !.ran = made]
  <2>1. call[p].stack \in Stacks /\ call[p].def \in Defs /\ call[p].op \in Ops
    BY <1>b, <1>c, <1>19 DEF TofuStart, At, Checking
  <2>2. /\ call[p].job \in JobIds /\ job'[call[p].job] # None
        /\ planfile'[call[p].stack] # None
    BY <1>0, <1>a, <2>1, <1>19 DEF TofuStart, At, IInv, CallsFilled, Jobbing, Planned, Persist
  <2>m. planfile[call[p].stack] \in Planfile
    BY <1>0, <2>1, <1>19 DEF TofuStart, At, IInv, TypeOK, CallsFilled, Jobbing, Planned
  <2>3. /\ c.pc = "tofu" /\ c.stack = call[p].stack /\ c.def = call[p].def /\ c.op = call[p].op
        /\ c.job = call[p].job
        /\ c.ran \in Plan
    BY <1>a, <2>m DEF Call, Plan, Planfile
  <2>4. call' = [call EXCEPT ![p] = c]
    BY <1>19 DEF TofuStart
  <2> HIDE DEF c
  <2>5. Fit(c)
    BY <2>1, <2>2, <2>3 DEF Fit
  <2> QED
    BY <1>0, <1>a, <2>4, <2>5, MoveFilled
<1>20. ASSUME NEW p \in Procs, TofuOk(p) PROVE CallsFilled'
  <2> DEFINE c == [call[p] EXCEPT !.pc = "sync", !.ok = TRUE]
  <2>1. call[p].stack \in Stacks /\ call[p].def \in Defs /\ call[p].op \in Ops
    BY <1>b, <1>c, <1>20 DEF TofuOk, At, Checking
  <2>2. /\ call[p].job \in JobIds /\ job'[call[p].job] # None
        /\ planfile'[call[p].stack] # None
    BY <1>0, <1>a, <2>1, <1>20 DEF TofuOk, At, IInv, CallsFilled, Jobbing, Planned, Persist
  <2>3. /\ c.pc = "sync" /\ c.stack = call[p].stack /\ c.def = call[p].def /\ c.op = call[p].op
        /\ c.job = call[p].job
    BY <1>0, <1>a, <1>20 DEF TofuOk, At, IInv, CallsFilled, Call
  <2>4. call' = [call EXCEPT ![p] = c]
    BY <1>20 DEF TofuOk
  <2> HIDE DEF c
  <2>5. Fit(c)
    BY <2>1, <2>2, <2>3 DEF Fit
  <2> QED
    BY <1>0, <1>a, <2>4, <2>5, MoveFilled
<1>21. ASSUME NEW p \in Procs, TofuError(p) PROVE CallsFilled'
  <2>1. call[p].stack \in Stacks /\ call[p].def \in Defs /\ call[p].op \in Ops
    BY <1>b, <1>c, <1>21 DEF TofuError, At, Checking
  <2>2. /\ call[p].job \in JobIds /\ job[call[p].job] # None
        /\ planfile[call[p].stack] # None
    BY <1>0, <1>21 DEF TofuError, At, IInv, CallsFilled, Jobbing, Planned
  <2> QED
    BY <1>0, <1>a, <1>21, <2>1, <2>2, GotoFilled DEF TofuError, At
<1>22. ASSUME NEW p \in Procs, Sync(p) PROVE CallsFilled'
  <2>1. call[p].stack \in Stacks /\ call[p].def \in Defs /\ call[p].op \in Ops
    BY <1>b, <1>c, <1>22 DEF Sync, At, Checking
  <2>2. /\ call[p].job \in JobIds /\ job[call[p].job] # None
        /\ planfile[call[p].stack] # None
    BY <1>0, <1>22 DEF Sync, At, IInv, CallsFilled, Jobbing, Planned
  <2> QED
    BY <1>0, <1>a, <1>22, <2>1, <2>2, GotoFilled DEF Sync, At
<1>23. ASSUME NEW p \in Procs, Commit(p) PROVE CallsFilled'
  <2>0. PICK b \in {call[p].ok, FALSE} :
          call' = [call EXCEPT ![p] = [call[p] EXCEPT !.pc = "finish", !.ok = b]]
    BY <1>23 DEF Commit
  <2> DEFINE c == [call[p] EXCEPT !.pc = "finish", !.ok = b]
  <2>1. call[p].stack \in Stacks /\ call[p].def \in Defs /\ call[p].op \in Ops
    BY <1>b, <1>c, <1>23 DEF Commit, At, Checking
  <2>2. /\ call[p].job \in JobIds /\ job'[call[p].job] # None
        /\ planfile'[call[p].stack] # None
    BY <1>0, <1>a, <2>1, <1>23 DEF Commit, At, IInv, CallsFilled, Jobbing, Planned, Persist
  <2>3. /\ c.pc = "finish" /\ c.stack = call[p].stack /\ c.def = call[p].def /\ c.op = call[p].op
        /\ c.job = call[p].job
    BY <1>0, <1>a, <1>23 DEF Commit, At, IInv, CallsFilled, Call
  <2>4. call' = [call EXCEPT ![p] = c]
    BY <2>0
  <2> HIDE DEF c
  <2>5. Fit(c)
    BY <2>1, <2>2, <2>3 DEF Fit
  <2> QED
    BY <1>0, <1>a, <2>4, <2>5, MoveFilled
<1>24. ASSUME NEW p \in Procs, FinishDeployment(p) PROVE CallsFilled'
  <2>1. call[p].stack \in Stacks /\ call[p].def \in Defs /\ call[p].op \in Ops
    BY <1>b, <1>c, <1>24 DEF FinishDeployment, At, Checking
  <2>2. /\ call[p].job \in JobIds /\ job[call[p].job] # None
        /\ planfile[call[p].stack] # None
    BY <1>0, <1>24 DEF FinishDeployment, At, IInv, CallsFilled, Jobbing, Planned
  <2> QED
    BY <1>0, <1>a, <1>24, <2>1, <2>2, GotoFilled DEF FinishDeployment, At
<1>25. ASSUME NEW p \in Procs, NEW s \in Stacks, DriftStart(p, s) PROVE CallsFilled'
  <2> DEFINE c == [Idle EXCEPT !.pc = "drift", !.stack = s]
  <2>1. c.pc = "drift" /\ c.stack = s
    BY DEF Idle
  <2>2. call' = [call EXCEPT ![p] = c]
    BY <1>25 DEF DriftStart
  <2> HIDE DEF c
  <2>3. Fit(c)
    BY <2>1 DEF Fit, Checking, Jobbing, Planned
  <2> QED
    BY <1>0, <1>a, <2>2, <2>3, MoveFilled
<1>26. ASSUME NEW p \in Procs, DriftNone(p) PROVE CallsFilled'
  BY <1>0, <1>a, <1>26, LeaveFilled DEF DriftNone
<1>27. ASSUME NEW p \in Procs, DriftLock(p) PROVE CallsFilled'
  <2>1. call[p].stack \in Stacks
    BY <1>b, <1>27 DEF DriftLock, At
  <2>2. Goto(p, "drifting") \/ Goto(p, "driftWait")
    BY <1>27 DEF DriftLock, Acquire
  <2> QED
    BY <1>0, <1>a, <2>1, <2>2, GotoFilled DEF Planned, Jobbing, Checking
<1>28. ASSUME NEW p \in Procs, DriftTofu(p) PROVE CallsFilled'
  <2>0. PICK x : call' = [call EXCEPT ![p] = [call[p] EXCEPT !.pc = "driftSave", !.found = x]]
    BY <1>28 DEF DriftTofu
  <2> DEFINE c == [call[p] EXCEPT !.pc = "driftSave", !.found = x]
  <2>1. c.pc = "driftSave" /\ c.stack = call[p].stack /\ call[p].stack \in Stacks
    BY <1>a, <1>b, <1>28 DEF DriftTofu, At, Call
  <2>2. call' = [call EXCEPT ![p] = c]
    BY <2>0
  <2> HIDE DEF c
  <2>3. Fit(c)
    BY <2>1 DEF Fit, Checking, Jobbing, Planned
  <2> QED
    BY <1>0, <1>a, <2>2, <2>3, MoveFilled
<1>29. ASSUME NEW p \in Procs, DriftFailed(p) PROVE CallsFilled'
  BY <1>0, <1>a, <1>29, LeaveFilled DEF DriftFailed
<1>30. ASSUME NEW p \in Procs, DriftSave(p) PROVE CallsFilled'
  BY <1>0, <1>a, <1>30, LeaveFilled DEF DriftSave
<1>31. ASSUME NEW s \in Stacks, NEW d \in Defs, Edit(s, d) PROVE CallsFilled'
  BY <1>0, <1>a, <1>31 DEF Edit, IInv, CallsFilled, Persist, rows, files, locks, Located, Owning, Waiting, Others, Planned, Jobbing
<1>32. ASSUME NEW s \in Stacks, Delete(s) PROVE CallsFilled'
  BY <1>0, <1>a, <1>32 DEF Delete, IInv, CallsFilled, Persist, rows, files, locks, Located, Owning, Waiting, Others, Planned, Jobbing
<1>33. CASE Crash
  BY <1>33 DEF Crash, CallsFilled, Idle, Located, Owning, Waiting, Others, Planned, Jobbing
<1>34. ASSUME NEW p \in Procs, RunnerError(p) PROVE CallsFilled'
  <2> DEFINE c == [call[p] EXCEPT !.pc = "finish", !.ok = FALSE]
  <2>1. call[p].stack \in Stacks /\ call[p].def \in Defs /\ call[p].op \in Ops
    BY <1>b, <1>c, <1>34 DEF RunnerError, Checking
  <2>2. /\ call[p].job \in JobIds /\ job'[call[p].job] # None
        /\ planfile'[call[p].stack] # None
    BY <1>0, <1>a, <2>1, <1>34 DEF RunnerError, IInv, CallsFilled, Jobbing, Planned, Persist
  <2>3. /\ c.pc = "finish" /\ c.stack = call[p].stack /\ c.def = call[p].def
        /\ c.op = call[p].op
        /\ c.job = call[p].job
    BY <1>a DEF Call
  <2>4. call' = [call EXCEPT ![p] = c]
    BY <1>34 DEF RunnerError
  <2> HIDE DEF c
  <2>5. Fit(c)
    BY <2>1, <2>2, <2>3 DEF Fit
  <2> QED
    BY <1>0, <1>a, <2>4, <2>5, MoveFilled
<1>35. ASSUME NEW p \in Procs, FinishJob(p) PROVE CallsFilled'
  BY <1>0, <1>a, <1>35, LeaveFilled DEF FinishJob
<1>36. ASSUME NEW p \in Procs, CreateDeployment(p) PROVE CallsFilled'
  <2>1. call[p].stack \in Stacks /\ call[p].def \in Defs /\ call[p].op \in Ops
    BY <1>b, <1>c, <1>36 DEF CreateDeployment, At, Checking
  <2>2. /\ call[p].job \in JobIds /\ job[call[p].job] # None
        /\ planfile[call[p].stack] # None
    BY <1>0, <1>36 DEF CreateDeployment, At, IInv, CallsFilled, Jobbing, Planned
  <2> QED
    BY <1>0, <1>a, <1>36, <2>1, <2>2, GotoFilled DEF CreateDeployment, At
<1>37. ASSUME NEW p \in Procs, LosesTofu(p) PROVE CallsFilled'
  <2> DEFINE c == [call[p] EXCEPT !.pc = "finish", !.ok = FALSE]
  <2>1. call[p].stack \in Stacks /\ call[p].def \in Defs /\ call[p].op \in Ops
    BY <1>b, <1>c, <1>37 DEF LosesTofu, At, Checking
  <2>2. /\ call[p].job \in JobIds /\ job'[call[p].job] # None
        /\ planfile'[call[p].stack] # None
    BY <1>0, <1>a, <2>1, <1>37 DEF LosesTofu, At, IInv, CallsFilled, Jobbing, Planned, Persist
  <2>3. /\ c.pc = "finish" /\ c.stack = call[p].stack /\ c.def = call[p].def
        /\ c.op = call[p].op
        /\ c.job = call[p].job
    BY <1>a DEF Call
  <2>4. call' = [call EXCEPT ![p] = c]
    BY <1>37 DEF LosesTofu
  <2> HIDE DEF c
  <2>5. Fit(c)
    BY <2>1, <2>2, <2>3 DEF Fit
  <2> QED
    BY <1>0, <1>a, <2>4, <2>5, MoveFilled
<1>38. ASSUME NEW s \in Stacks, LooseEnds(s) PROVE CallsFilled'
  BY <1>0, <1>a, <1>38 DEF LooseEnds, IInv, CallsFilled, Persist, Located, Owning, Waiting, Others, Planned, Jobbing
<1> QED
  BY <1>0, <1>1, <1>2, <1>3, <1>4, <1>5, <1>6, <1>7, <1>8, <1>9, <1>10, <1>11, <1>12,
     <1>13, <1>14, <1>15, <1>16, <1>17, <1>18, <1>19, <1>20, <1>21, <1>22, <1>23, <1>24,
     <1>25, <1>26, <1>27, <1>28, <1>29, <1>30, <1>31, <1>32, <1>33, <1>34, <1>35, <1>36, <1>37, <1>38
     DEF Next, Planning, Deploying, Running, Drifting

\* Every token keeps its planfile.
LEMMA StepBacked == IInv /\ [Next]_vars => TokensBacked'
<1>0. SUFFICES ASSUME IInv, Next PROVE TokensBacked'
  BY DEF IInv, TokensBacked, vars
<1>a. Persist
  BY <1>0, StepPersist
<1>b. \A k \in TokenIds : token[k] # None => token[k].stack \in Stacks
  BY <1>0 DEF IInv, TypeOK, Token
<1> USE DEF IInv, TypeOK, TokensBacked, Persist, rows, files, locks
<1>1. ASSUME NEW p \in Procs, Wake(p) PROVE TokensBacked'
  BY <1>0, <1>a, <1>b, <1>1 DEF Wake, Woken, Goto
<1>2. ASSUME NEW p \in Procs, NEW s \in Stacks, NEW op \in Ops, PlanStart(p, s, op) PROVE TokensBacked'
  BY <1>0, <1>a, <1>b, <1>2 DEF PlanStart, At, Idle
<1>3. ASSUME NEW p \in Procs, PlanWrite(p) PROVE TokensBacked'
  BY <1>0, <1>a, <1>b, <1>3 DEF PlanWrite, At, Leave, Idle, Acquire, Goto, Locked
<1>4. ASSUME NEW p \in Procs, PlanTofu(p) PROVE TokensBacked'
  BY <1>0, <1>a, <1>b, <1>4 DEF PlanTofu, At, Release
<1>5. ASSUME NEW p \in Procs, PlanFailed(p) PROVE TokensBacked'
  BY <1>0, <1>a, <1>b, <1>5 DEF PlanFailed, At, Release, Leave, Idle
<1>6. ASSUME NEW p \in Procs, NEW k \in TokenIds, PlanToken(p, k) PROVE TokensBacked'
  <2>1. planfile[call[p].stack] # None /\ call[p].stack \in Stacks
    BY <1>0, <1>6 DEF PlanToken, At, CallsFilled, Planned, Located, Others, Call
  <2>2. token' = [token EXCEPT ![k] = [stack |-> call[p].stack, etag |-> call[p].def, plan |-> call[p].ran]]
    BY <1>6 DEF PlanToken
  <2>3. planfile' = planfile
    BY <1>6 DEF PlanToken
  <2> QED
    BY <1>0, <2>1, <2>2, <2>3
<1>7. ASSUME NEW p \in Procs, Refused(p) PROVE TokensBacked'
  BY <1>0, <1>a, <1>b, <1>7 DEF Refused, Leave, Idle
<1>8. ASSUME NEW k \in TokenIds, TokenExpires(k) PROVE TokensBacked'
  BY <1>0, <1>a, <1>b, <1>8 DEF TokenExpires
<1>9. ASSUME NEW p \in Procs, NEW k \in TokenIds, DeployStart(p, k) PROVE TokensBacked'
  BY <1>0, <1>a, <1>b, <1>9 DEF DeployStart, At, Idle
<1>10. ASSUME NEW p \in Procs, DeployConsume(p) PROVE TokensBacked'
  BY <1>0, <1>a, <1>b, <1>10 DEF DeployConsume, At, Leave, Idle, Consumable
<1>11. ASSUME NEW p \in Procs, DeployConflict(p) PROVE TokensBacked'
  BY <1>0, <1>a, <1>b, <1>11 DEF DeployConflict, At, Leave, Idle
<1>12. ASSUME NEW p \in Procs, NEW a \in asked, HandlerStart(p, a) PROVE TokensBacked'
  BY <1>0, <1>a, <1>b, <1>12 DEF HandlerStart, At, Idle
<1>13. ASSUME NEW p \in Procs, StartLock(p) PROVE TokensBacked'
  BY <1>0, <1>a, <1>b, <1>13 DEF StartLock, At, Leave, Idle, Locked, Acquire, Goto
<1>14. ASSUME NEW p \in Procs, NEW j \in JobIds, StartRows(p, j) PROVE TokensBacked'
  BY <1>0, <1>a, <1>b, <1>14 DEF StartRows, At
<1>15. ASSUME NEW p \in Procs, StartRunner(p) PROVE TokensBacked'
  BY <1>0, <1>a, <1>b, <1>15 DEF StartRunner, At, Goto
<1>16. ASSUME NEW p \in Procs, StartRefused(p) PROVE TokensBacked'
  BY <1>0, <1>a, <1>b, <1>16 DEF StartRefused, At, Release, ReleaseSdn, Leave, Idle
<1>17. ASSUME NEW p \in Procs, RunnerStart(p) PROVE TokensBacked'
  BY <1>0, <1>a, <1>b, <1>17 DEF RunnerStart, At, Goto
<1>18. ASSUME NEW p \in Procs, RunnerDies(p) PROVE TokensBacked'
  BY <1>0, <1>a, <1>b, <1>18 DEF RunnerDies, Leave, Idle
<1>19. ASSUME NEW p \in Procs, TofuStart(p) PROVE TokensBacked'
  BY <1>0, <1>a, <1>b, <1>19 DEF TofuStart, At
<1>20. ASSUME NEW p \in Procs, TofuOk(p) PROVE TokensBacked'
  BY <1>0, <1>a, <1>b, <1>20 DEF TofuOk, At, Reach, Target
<1>21. ASSUME NEW p \in Procs, TofuError(p) PROVE TokensBacked'
  BY <1>0, <1>a, <1>b, <1>21 DEF TofuError, At, Reach, Target, Goto
<1>22. ASSUME NEW p \in Procs, Sync(p) PROVE TokensBacked'
  BY <1>0, <1>a, <1>b, <1>22 DEF Sync, At, Goto
<1>23. ASSUME NEW p \in Procs, Commit(p) PROVE TokensBacked'
  BY <1>0, <1>a, <1>b, <1>23 DEF Commit, At
<1>24. ASSUME NEW p \in Procs, FinishDeployment(p) PROVE TokensBacked'
  BY <1>0, <1>a, <1>b, <1>24 DEF FinishDeployment, At, Goto, Outcome
<1>25. ASSUME NEW p \in Procs, NEW s \in Stacks, DriftStart(p, s) PROVE TokensBacked'
  BY <1>0, <1>a, <1>b, <1>25 DEF DriftStart, At, Idle
<1>26. ASSUME NEW p \in Procs, DriftNone(p) PROVE TokensBacked'
  BY <1>0, <1>a, <1>b, <1>26 DEF DriftNone, At, Leave, Idle
<1>27. ASSUME NEW p \in Procs, DriftLock(p) PROVE TokensBacked'
  BY <1>0, <1>a, <1>b, <1>27 DEF DriftLock, At, Acquire, Goto
<1>28. ASSUME NEW p \in Procs, DriftTofu(p) PROVE TokensBacked'
  BY <1>0, <1>a, <1>b, <1>28 DEF DriftTofu, At, Release
<1>29. ASSUME NEW p \in Procs, DriftFailed(p) PROVE TokensBacked'
  BY <1>0, <1>a, <1>b, <1>29 DEF DriftFailed, At, Release, Leave, Idle
<1>30. ASSUME NEW p \in Procs, DriftSave(p) PROVE TokensBacked'
  BY <1>0, <1>a, <1>b, <1>30 DEF DriftSave, At, Leave, Idle
<1>31. ASSUME NEW s \in Stacks, NEW d \in Defs, Edit(s, d) PROVE TokensBacked'
  BY <1>0, <1>a, <1>b, <1>31 DEF Edit
<1>32. ASSUME NEW s \in Stacks, Delete(s) PROVE TokensBacked'
  BY <1>0, <1>a, <1>b, <1>32, SMTT(40) DEF Delete
<1>33. CASE Crash
  BY <1>0, <1>a, <1>b, <1>33 DEF Crash, Target, At, Idle
<1>34. ASSUME NEW p \in Procs, RunnerError(p) PROVE TokensBacked'
  BY <1>0, <1>a, <1>b, <1>34 DEF RunnerError
<1>35. ASSUME NEW p \in Procs, FinishJob(p) PROVE TokensBacked'
  BY <1>0, <1>a, <1>b, <1>35 DEF FinishJob, At, Release, ReleaseSdn, Leave, Idle
<1>36. ASSUME NEW p \in Procs, CreateDeployment(p) PROVE TokensBacked'
  BY <1>0, <1>a, <1>b, <1>36 DEF CreateDeployment, At, Goto
<1>37. ASSUME NEW p \in Procs, LosesTofu(p) PROVE TokensBacked'
  BY <1>0, <1>a, <1>b, <1>37 DEF LosesTofu, At
<1>38. ASSUME NEW s \in Stacks, LooseEnds(s) PROVE TokensBacked'
  BY <1>0, <1>a, <1>b, <1>38 DEF LooseEnds, Reach, Target
<1> QED
  BY <1>0, <1>1, <1>2, <1>3, <1>4, <1>5, <1>6, <1>7, <1>8, <1>9, <1>10, <1>11, <1>12,
     <1>13, <1>14, <1>15, <1>16, <1>17, <1>18, <1>19, <1>20, <1>21, <1>22, <1>23, <1>24,
     <1>25, <1>26, <1>27, <1>28, <1>29, <1>30, <1>31, <1>32, <1>33, <1>34, <1>35, <1>36, <1>37, <1>38
     DEF Next, Planning, Deploying, Running, Drifting
\* Only a runner that loses its tofu makes one that nobody follows.
LEMMA StepLoose ==
  ASSUME IInv, [Next]_vars
  PROVE  LooseBacked'
<1>1. Persist
  BY StepPersist
<1>2. \A s \in Stacks : \/ loose'[s] = loose[s] \/ loose'[s] = None
                        \/ \E p \in Procs : LosesTofu(p) /\ call[p].stack = s
  <2>a. loose \in [Stacks -> Plan \cup {None}]
    BY DEF IInv, TypeOK
  <2>1. ASSUME NEW p \in Procs, LosesTofu(p), NEW s \in Stacks, s # call[p].stack
        PROVE  loose'[s] = loose[s]
    BY <2>a, <2>1 DEF LosesTofu
  <2>2. CASE Crash
    BY <2>2 DEF Crash
  <2>3. ASSUME NEW t \in Stacks, LooseEnds(t), NEW s \in Stacks
        PROVE  loose'[s] \in {loose[s], None}
    BY <2>a, <2>3 DEF LooseEnds
  <2>4. CASE UNCHANGED loose
    BY <2>4
  <2>5. \/ UNCHANGED loose \/ Crash
        \/ \E p \in Procs : LosesTofu(p) \/ Planning(p) \/ Drifting(p) \/ Wake(p)
        \/ \E p \in Procs : Deploying(p)
        \/ \E p \in Procs : Running(p)
        \/ \E s \in Stacks : LooseEnds(s)
    BY DEF Next, vars, TokenExpires, Edit, Delete, files
  <2>6. ASSUME NEW p \in Procs, Planning(p) \/ Drifting(p) \/ Wake(p) PROVE UNCHANGED loose
    BY <2>6 DEF Planning, Drifting, Wake, files, PlanStart, PlanWrite, PlanTofu, PlanFailed,
       PlanToken, Refused, DriftStart, DriftNone, DriftLock, DriftTofu, DriftFailed, DriftSave
  <2>7. ASSUME NEW p \in Procs, Deploying(p) PROVE UNCHANGED loose
    BY <2>7 DEF Deploying, files, DeployStart, DeployConsume, DeployConflict, HandlerStart,
       StartLock, StartRunner, StartRefused, StartRows, CreateDeployment
  <2>8. ASSUME NEW p \in Procs, Running(p) PROVE UNCHANGED loose \/ LosesTofu(p)
    BY <2>8 DEF Running, files, RunnerStart, RunnerDies, TofuStart, TofuOk, TofuError,
       Sync, RunnerError, Commit, FinishDeployment, FinishJob
  <2> QED BY <2>1, <2>2, <2>3, <2>4, <2>5, <2>6, <2>7, <2>8
<1>3. \A p \in Procs : LosesTofu(p) => planfile[call[p].stack] # None
  BY DEF LosesTofu, At, IInv, CallsFilled, Planned, Jobbing
<1> QED
  BY <1>1, <1>2, <1>3 DEF Persist, IInv, LooseBacked

-----------------------------------------------------------------------------
(***************************************************************************)
(* Locks end in a release.                                                 *)
(***************************************************************************)

\* Whoever is registered as a holder is at a point that ends in a release.
Held ==
  /\ \A s \in Stacks : lock[s] # None =>
       /\ lock[s] \in Procs
       /\ call[lock[s]].pc \in Owning /\ call[lock[s]].stack = s
  /\ sdnLock # None => sdnLock \in Procs /\ call[sdnLock].pc \in Jobbing \cup {"startWait", "rows"}

\* A step of a call that neither holds a lock nor waits with the SDN lock.
LEMMA OutsideHeld ==
  ASSUME IInv, Held, NEW p \in Procs, UNCHANGED locks,
         call[p].pc \notin Owning \cup {"startWait"},
         \A q \in Procs \ {p} : call'[q] = call[q]
  PROVE  Held'
<1>1. \A t \in Stacks : lock[t] # None => lock[t] # p
  BY DEF Held
<1>2. sdnLock # None => sdnLock # p
  BY DEF Held, Jobbing, Owning
<1>3. \A t \in Stacks : lock[t] # None =>
        lock[t] \in Procs /\ call'[lock[t]].pc \in Owning /\ call'[lock[t]].stack = t
  BY <1>1 DEF Held
<1>4. sdnLock # None =>
        sdnLock \in Procs /\ call'[sdnLock].pc \in Jobbing \cup {"startWait", "rows"}
  BY <1>2 DEF Held
<1>5. lock' = lock /\ sdnLock' = sdnLock
  BY DEF locks
<1> QED
  BY <1>3, <1>4, <1>5 DEF Held

\* A call that takes a lock, or queues for it, holding the SDN lock or not.
LEMMA AcquireHeld ==
  ASSUME IInv, Held, NEW p \in Procs, NEW s \in Stacks, call[p].stack = s,
         call[p].pc \notin Owning \cup {"startWait"},
         NEW in \in Owning, NEW wait, Acquire(p, s, in, wait),
         \/ sdnLock' = sdnLock
         \/ sdnLock' = p /\ in = "rows" /\ wait = "startWait"
  PROVE  Held'
<1>1. \A q \in Procs \ {p} : call'[q] = call[q]
  BY DEF IInv, TypeOK, Acquire, Goto
<1>2. call'[p].pc \in {in, wait} /\ call'[p].stack = s
  BY DEF IInv, TypeOK, Acquire, Goto, Call
<1>3. \A t \in Stacks : lock[t] # p
  BY DeployAssumption DEF IInv, TypeOK, Held
<1>4. \A t \in Stacks : lock'[t] # None => \/ lock'[t] = lock[t]
                                           \/ lock'[t] = p /\ t = s
  BY DEF IInv, TypeOK, Acquire
<1>5. ASSUME NEW t \in Stacks, lock'[t] = p PROVE t = s /\ call'[p].pc = in
  <2>1. CASE lock[s] = None /\ waiters[s] = << >>
    BY <1>3, <1>4, <1>5, <2>1 DEF IInv, TypeOK, Acquire, Goto, Call
  <2>2. CASE ~(lock[s] = None /\ waiters[s] = << >>)
    BY <1>3, <1>5, <2>2 DEF Acquire
  <2> QED
    BY <2>1, <2>2
<1>6. ASSUME NEW t \in Stacks, lock'[t] # None
      PROVE  lock'[t] \in Procs /\ call'[lock'[t]].pc \in Owning /\ call'[lock'[t]].stack = t
  <2>1. CASE lock'[t] = p
    BY <1>2, <1>5, <2>1
  <2>2. CASE lock'[t] # p
    BY <1>1, <1>4, <1>6, <2>2 DEF Held
  <2> QED
    BY <2>1, <2>2
<1>7. sdnLock' # None => sdnLock' \in Procs /\ call'[sdnLock'].pc \in Jobbing \cup {"startWait", "rows"}
  <2>1. CASE sdnLock' = p /\ in = "rows" /\ wait = "startWait"
    BY <1>2, <2>1
  <2>2. CASE sdnLock' = sdnLock
    <3>1. sdnLock # p
      BY DeployAssumption, SMTT(40) DEF Held, Jobbing, Owning, IInv, TypeOK
    <3> QED
      BY <1>1, <2>2, <3>1 DEF Held
  <2> QED
    BY <2>1, <2>2
<1> QED
  BY <1>6, <1>7 DEF Held

\* Every step leaves the locks with a live task.
LEMMA StepHeld == IInv /\ Held /\ "runner" \notin Faults /\ [Next]_vars => Held'
<1>0. SUFFICES ASSUME IInv, Held, "runner" \notin Faults, Next PROVE Held'
  BY DEF Held, IInv, vars
<1> USE DeployAssumption DEF IInv, TypeOK, Owned, CallsFilled, Held, rows, files, locks, Call
<1>1. ASSUME NEW p \in Procs, Wake(p) PROVE Held'
  BY <1>0, <1>1 DEF Wake, Woken, Goto, Owning, Waiting, Others, Located, Jobbing
<1>2. ASSUME NEW p \in Procs, NEW s \in Stacks, NEW op \in Ops, PlanStart(p, s, op) PROVE Held'
  BY <1>0, <1>2 DEF PlanStart, At, Idle, Owning, Waiting, Others, Located, Jobbing
<1>3. ASSUME NEW p \in Procs, PlanWrite(p) PROVE Held'
  <2> DEFINE s == call[p].stack
  <2>1. s \in Stacks /\ call[p].pc \notin Owning \cup {"startWait"}
    BY <1>0, <1>3 DEF PlanWrite, At, Located, Others, Owning
  <2>2. CASE Locked(s)
    <3>1. \A q \in Procs \ {p} : call'[q] = call[q]
      BY <1>0, <1>3, <2>2 DEF PlanWrite, Leave
    <3> QED
      BY <1>0, <1>3, <2>1, <2>2, <3>1, OutsideHeld DEF PlanWrite
  <2>3. CASE ~Locked(s)
    <3>1. Acquire(p, s, "planning", "planWait") /\ sdnLock' = sdnLock
      BY <1>3, <2>3 DEF PlanWrite
    <3>2. "planning" \in Owning /\ call[p].stack = s
      BY DEF Owning
    <3> HIDE DEF IInv, TypeOK, Owned, CallsFilled, Held, Call, s
    <3> QED
      BY <1>0, <2>1, <3>1, <3>2, AcquireHeld, ZenonT(60)
  <2> QED
    BY <2>2, <2>3
<1>4. ASSUME NEW p \in Procs, PlanTofu(p) PROVE Held'
  BY <1>0, <1>4 DEF PlanTofu, At, Release, Owning, Waiting, Others, Located, Jobbing
<1>5. ASSUME NEW p \in Procs, PlanFailed(p) PROVE Held'
  BY <1>0, <1>5 DEF PlanFailed, At, Release, Leave, Idle, Owning, Waiting, Others, Located, Jobbing
<1>6. ASSUME NEW p \in Procs, NEW k \in TokenIds, PlanToken(p, k) PROVE Held'
  <2>1. call[p].pc = "token" /\ \A q \in Procs \ {p} : call'[q] = call[q]
    BY <1>0, <1>6 DEF PlanToken, At, Leave
  <2>2. UNCHANGED locks
    BY <1>6 DEF PlanToken
  <2>3. call[p].pc \notin Owning \cup {"startWait"}
    BY <2>1 DEF Owning
  <2> HIDE DEF IInv, TypeOK, Owned, CallsFilled, Held, locks, Call
  <2> QED
    BY <1>0, <2>1, <2>2, <2>3, OutsideHeld
<1>7. ASSUME NEW p \in Procs, Refused(p) PROVE Held'
  BY <1>0, <1>7 DEF Refused, Leave, Idle, Owning, Waiting, Others, Located, Jobbing
<1>8. ASSUME NEW k \in TokenIds, TokenExpires(k) PROVE Held'
  BY <1>0, <1>8 DEF TokenExpires, Owning, Waiting, Others, Located, Jobbing
<1>9. ASSUME NEW p \in Procs, NEW k \in TokenIds, DeployStart(p, k) PROVE Held'
  BY <1>0, <1>9 DEF DeployStart, At, Idle, Owning, Waiting, Others, Located, Jobbing
<1>10. ASSUME NEW p \in Procs, DeployConsume(p) PROVE Held'
  <2>1. call[p].pc = "deploy" /\ \A q \in Procs \ {p} : call'[q] = call[q]
    BY <1>0, <1>10 DEF DeployConsume, At, Leave
  <2>2. UNCHANGED locks
    BY <1>10 DEF DeployConsume
  <2>3. call[p].pc \notin Owning \cup {"startWait"}
    BY <2>1 DEF Owning
  <2> HIDE DEF IInv, TypeOK, Owned, CallsFilled, Held, locks, Call
  <2> QED
    BY <1>0, <2>1, <2>2, <2>3, OutsideHeld
<1>11. ASSUME NEW p \in Procs, DeployConflict(p) PROVE Held'
  BY <1>0, <1>11 DEF DeployConflict, At, Leave, Idle, Owning, Waiting, Others, Located, Jobbing
<1>12. ASSUME NEW p \in Procs, NEW a \in asked, HandlerStart(p, a) PROVE Held'
  <2>1. call[p].pc = "idle" /\ \A q \in Procs \ {p} : call'[q] = call[q]
    BY <1>0, <1>12 DEF HandlerStart, At
  <2>2. call[p].pc \notin Owning \cup {"startWait"} /\ UNCHANGED locks
    BY <1>12, <2>1 DEF HandlerStart, Owning
  <2> HIDE DEF IInv, TypeOK, Owned, CallsFilled, Held, Call, locks
  <2> QED
    BY <1>0, <2>2, <2>1, OutsideHeld, ZenonT(30)
<1>13. ASSUME NEW p \in Procs, StartLock(p) PROVE Held'
  <2> DEFINE s == call[p].stack
  <2>1. s \in Stacks /\ call[p].pc \notin Owning \cup {"startWait"}
    BY <1>0, <1>13 DEF StartLock, At, Located, Others, Owning
  <2>2. CASE Leave(p) /\ UNCHANGED locks
    <3>1. \A q \in Procs \ {p} : call'[q] = call[q]
      BY <1>0, <2>2 DEF Leave
    <3> QED
      BY <1>0, <2>1, <2>2, <3>1, OutsideHeld
  <2>3. CASE Acquire(p, s, "rows", "startWait") /\ sdnLock' \in {p, sdnLock}
    <3>1. /\ "rows" \in Owning
          /\ call[p].stack = s
          /\ (sdnLock' = p) \/ (sdnLock' = sdnLock)
      BY <2>3 DEF Owning
    <3> HIDE DEF IInv, TypeOK, Owned, CallsFilled, Held, Call, s
    <3> QED
      BY <1>0, <2>1, <2>3, <3>1, AcquireHeld, ZenonT(60)
  <2> QED
    BY <1>13, <2>2, <2>3 DEF StartLock
<1>14. ASSUME NEW p \in Procs, NEW j \in JobIds, StartRows(p, j) PROVE Held'
  BY <1>0, <1>14 DEF StartRows, At, Owning, Waiting, Others, Located, Jobbing
<1>15. ASSUME NEW p \in Procs, StartRunner(p) PROVE Held'
  BY <1>0, <1>15 DEF StartRunner, At, Goto, Owning, Waiting, Others, Located, Jobbing
<1>16. ASSUME NEW p \in Procs, StartRefused(p) PROVE Held'
  BY <1>0, <1>16 DEF StartRefused, Refusable, At, Release, ReleaseSdn, Leave, Idle, Owning, Waiting, Others, Located, Jobbing
<1>17. ASSUME NEW p \in Procs, RunnerStart(p) PROVE Held'
  BY <1>0, <1>17 DEF RunnerStart, At, Goto, Owning, Waiting, Others, Located, Jobbing
<1>18. ASSUME NEW p \in Procs, RunnerDies(p) PROVE Held'
  BY <1>0, <1>18 DEF RunnerDies, Leave, Idle, Owning, Waiting, Others, Located, Jobbing
<1>19. ASSUME NEW p \in Procs, TofuStart(p) PROVE Held'
  BY <1>0, <1>19 DEF TofuStart, At, Owning, Waiting, Others, Located, Jobbing
<1>20. ASSUME NEW p \in Procs, TofuOk(p) PROVE Held'
  BY <1>0, <1>20 DEF TofuOk, At, Reach, Target, Owning, Waiting, Others, Located, Jobbing
<1>21. ASSUME NEW p \in Procs, TofuError(p) PROVE Held'
  BY <1>0, <1>21 DEF TofuError, At, Reach, Target, Goto, Owning, Waiting, Others, Located, Jobbing
<1>22. ASSUME NEW p \in Procs, Sync(p) PROVE Held'
  BY <1>0, <1>22 DEF Sync, At, Goto, Owning, Waiting, Others, Located, Jobbing
<1>23. ASSUME NEW p \in Procs, Commit(p) PROVE Held'
  BY <1>0, <1>23 DEF Commit, At, Owning, Waiting, Others, Located, Jobbing
<1>24. ASSUME NEW p \in Procs, FinishDeployment(p) PROVE Held'
  BY <1>0, <1>24 DEF FinishDeployment, At, Goto, Owning, Waiting, Others, Located, Jobbing
<1>25. ASSUME NEW p \in Procs, NEW s \in Stacks, DriftStart(p, s) PROVE Held'
  BY <1>0, <1>25 DEF DriftStart, At, Idle, Owning, Waiting, Others, Located, Jobbing
<1>26. ASSUME NEW p \in Procs, DriftNone(p) PROVE Held'
  BY <1>0, <1>26, SMTT(40) DEF DriftNone, At, Leave, Idle, Owning, Waiting, Others, Located, Jobbing
<1>27. ASSUME NEW p \in Procs, DriftLock(p) PROVE Held'
  <2>1. call[p].stack \in Stacks /\ call[p].pc \notin Owning \cup {"startWait"}
    BY <1>0, <1>27 DEF DriftLock, At, Located, Others, Owning
  <2>2. Acquire(p, call[p].stack, "drifting", "driftWait") /\ sdnLock' = sdnLock
    BY <1>27 DEF DriftLock
  <2> QED
    BY <1>0, <2>1, <2>2, AcquireHeld, ZenonT(60) DEF Owning
<1>28. ASSUME NEW p \in Procs, DriftTofu(p) PROVE Held'
  BY <1>0, <1>28 DEF DriftTofu, At, Release, Owning, Waiting, Others, Located, Jobbing
<1>29. ASSUME NEW p \in Procs, DriftFailed(p) PROVE Held'
  BY <1>0, <1>29 DEF DriftFailed, At, Release, Leave, Idle, Owning, Waiting, Others, Located, Jobbing
<1>30. ASSUME NEW p \in Procs, DriftSave(p) PROVE Held'
  BY <1>0, <1>30 DEF DriftSave, At, Leave, Idle, Owning, Waiting, Others, Located, Jobbing
<1>31. ASSUME NEW s \in Stacks, NEW d \in Defs, Edit(s, d) PROVE Held'
  BY <1>0, <1>31 DEF Edit, Owning, Waiting, Others, Located, Jobbing
<1>32. ASSUME NEW s \in Stacks, Delete(s) PROVE Held'
  BY <1>0, <1>32 DEF Delete, Owning, Waiting, Others, Located, Jobbing
<1>33. CASE Crash
  BY <1>0, <1>33 DEF Crash, Target, At, Idle, Owning, Waiting, Others, Located, Jobbing
<1>34. ASSUME NEW p \in Procs, RunnerError(p) PROVE Held'
  BY <1>0, <1>34 DEF RunnerError, Owning, Waiting, Others, Located, Jobbing
<1>35. ASSUME NEW p \in Procs, FinishJob(p) PROVE Held'
  BY <1>0, <1>35 DEF FinishJob, At, Release, ReleaseSdn, Leave, Idle, Owning, Waiting, Others, Located, Jobbing
<1>36. ASSUME NEW p \in Procs, CreateDeployment(p) PROVE Held'
  BY <1>0, <1>36 DEF CreateDeployment, At, Goto, Owning, Waiting, Others, Located, Jobbing
<1>37. ASSUME NEW p \in Procs, LosesTofu(p) PROVE Held'
  BY <1>0, <1>37 DEF LosesTofu, At, Owning, Waiting, Others, Located, Jobbing
<1>38. ASSUME NEW s \in Stacks, LooseEnds(s) PROVE Held'
  BY <1>0, <1>38 DEF LooseEnds, Owning, Waiting, Others, Located, Jobbing
<1> QED
  BY <1>0, <1>1, <1>2, <1>3, <1>4, <1>5, <1>6, <1>7, <1>8, <1>9, <1>10, <1>11, <1>12,
     <1>13, <1>14, <1>15, <1>16, <1>17, <1>18, <1>19, <1>20, <1>21, <1>22, <1>23, <1>24,
     <1>25, <1>26, <1>27, <1>28, <1>29, <1>30, <1>31, <1>32, <1>33, <1>34, <1>35, <1>36, <1>37, <1>38
     DEF Next, Planning, Deploying, Running, Drifting
-----------------------------------------------------------------------------
(***************************************************************************)
(* The theorems.                                                           *)
(***************************************************************************)

\* The initial states.
LEMMA InitInv == Init => IInv /\ Held
<1> SUFFICES ASSUME Init PROVE IInv /\ Held
  OBVIOUS
<1>1. call \in [Procs -> Call] /\ \A p \in Procs : call[p] = Idle
  BY CallStarts DEF Init
<1>2. TypeOK
  <2>1. infra \in [Stacks -> Defs \cup {None}] /\ mainTf \in [Stacks -> Defs \cup {None}]
    BY DeployAssumption DEF Init
  <2>2. waiters \in [Stacks -> Seq(Procs)]
    BY DEF Init
  <2> QED
    BY <1>1, <2>1, <2>2 DEF Init, TypeOK
<1>3. CallsFilled /\ Owned
  BY <1>1 DEF CallsFilled, Owned, Idle, Located, Owning, Waiting, Others, Planned, Jobbing
<1>4. TokensBacked /\ LooseBacked /\ Held
  BY DEF Init, TokensBacked, LooseBacked, Held
<1> QED
  BY <1>2, <1>3, <1>4 DEF IInv

\* The inductive invariant holds throughout.
THEOREM Invariance == Spec => []IInv
<1>1. Init => IInv
  BY InitInv
<1>2. IInv /\ [Next]_vars => IInv'
  BY StepTypes, StepFilled, StepBacked, StepLoose, StepOwned DEF IInv
<1> QED
  BY <1>1, <1>2, PTL DEF Spec

\* Every row, file, token, lock and call holds a value of its type, for any
\* number of them (stacks/deploy_service.py, runner.py, engine.py, deployments.py).
THEOREM Typing == Spec => []TypeOK
<1>1. IInv => TypeOK
  BY DEF IInv
<1> QED
  BY <1>1, Invariance, PTL

\* A plan, a drift check and a running job of one stack never overlap, for any
\* number of calls and whatever fails: engine.py's lock is taken by one task
\* and released by another, and has no owner of its own.
THEOREM OneTofuSafe == Spec => []OneTofu
<1>1. IInv => OneTofu
  BY DEF IInv, Owned, OneTofu
<1> QED
  BY <1>1, Invariance, PTL

\* As long as the runner task does not fail outside its try block
\* (runner.py, run_stack_job), no lock outlives the task it was taken for.
THEOREM LocksLiveSafe == "runner" \notin Faults => (Spec => []LocksLive)
<1> SUFFICES ASSUME "runner" \notin Faults PROVE Spec => []LocksLive
  OBVIOUS
<1>1. Init => Held
  BY InitInv
<1>2. IInv /\ Held /\ [Next]_vars => Held'
  BY StepHeld
<1>3. Held => LocksLive
  BY DEF Held, LocksLive, Jobbing, Owning
<1> QED
  BY <1>1, <1>2, <1>3, Invariance, PTL DEF Spec

-----------------------------------------------------------------------------
(***************************************************************************)
(* Job rows and their runners.                                             *)
(***************************************************************************)
Early == {"reserve", "launch"}
Midway == {"apply", "tofu", "sync", "commit", "finish"}
Started == Midway \cup {"jobrow"}

\* What call p knows of its job row and its deployment row at each point.
RowsOf(p) ==
  LET j == job[call[p].job] IN
  /\ call[p].pc \in Jobbing => j.stack = call[p].stack
  /\ call[p].pc \in {"deprow"} \cup Early => j.st = "pending"
  /\ call[p].pc \in Early \cup Midway => j.dep = "running"
  /\ call[p].pc = "jobrow" => /\ j.dep \in {"success", "partial", "failed"}
                              /\ call[p].ok <=> j.dep = "success"

\* A job row belongs to one call until that call has finished it.
JobsHeld ==
  /\ \A p \in Procs : RowsOf(p)
  /\ \A p, q \in Procs :
       call[p].pc \in Jobbing /\ call[q].pc \in Jobbing /\ call[p].job = call[q].job => p = q

\* The rows of jobs and stack_deployments that no write may part.
RowsPaired ==
  \A j \in JobIds : job[j] # None =>
    /\ job[j].dep = "none" => job[j].st = "pending"
    /\ job[j].st \in {"success", "failed"} =>
         /\ job[j].dep # "running"
         /\ job[j].st = "success" <=> job[j].dep = "success"

\* A job marked running has a runner that has not finished it.
RunnersLive ==
  \A j \in JobIds : job[j] # None /\ job[j].st = "running" =>
    \E p \in Procs : call[p].pc \in Started /\ call[p].job = j

\* A step of p that writes no job row, and does not let go of one that is running.
Steady(p) ==
  /\ job' = job
  /\ \A q \in Procs \ {p} : call'[q] = call[q]
  /\ \/ call'[p].pc \notin Jobbing /\ call[p].pc \notin Started
     \/ /\ \/ call[p].pc \in Early /\ call'[p].pc \in Early
           \/ call[p].pc \in Midway /\ call'[p].pc \in Midway
        /\ call'[p].job = call[p].job /\ call'[p].stack = call[p].stack

\* Such a step keeps rows and runners together.
LEMMA SteadyKeeps ==
  ASSUME IInv, JobsHeld, NEW p \in Procs, Steady(p)
  PROVE  JobsHeld' /\ (RunnersLive => RunnersLive')
<1> USE DEF Steady, Started, Early, Midway, Jobbing
<1>1. \A q \in Procs : call'[q].pc \in Jobbing => call[q].pc \in Jobbing /\ call'[q].job = call[q].job
  OBVIOUS
<1>2. \A q \in Procs : call[q].pc \in Started => call'[q].pc \in Started /\ call'[q].job = call[q].job
  OBVIOUS
<1>3. ASSUME NEW q \in Procs PROVE RowsOf(q)'
  <2>1. RowsOf(q)
    BY DEF JobsHeld
  <2>2. CASE q # p
    BY <2>1, <2>2 DEF RowsOf
  <2>3. CASE q = p
    BY <2>1, <2>3 DEF RowsOf
  <2> QED BY <2>2, <2>3
<1>4. JobsHeld'
  BY <1>1, <1>3 DEF JobsHeld
<1>5. RunnersLive => RunnersLive'
  BY <1>2 DEF RunnersLive
<1> QED BY <1>4, <1>5

\* All steps but these are of that kind.
LEMMA StepSteady ==
  ASSUME IInv, Next
  PROVE  \/ UNCHANGED <<call, job>>
         \/ \E p \in Procs : \/ Steady(p) \/ RunnerStart(p) \/ RunnerDies(p)
                             \/ CreateDeployment(p) \/ FinishDeployment(p) \/ FinishJob(p)
                             \/ \E j \in JobIds : StartRows(p, j)
         \/ Crash
<1>0. IInv /\ Next
  OBVIOUS
<1>a. call \in [Procs -> Call]
  BY DEF IInv, TypeOK
<1> USE DEF Steady, Started, Early, Midway, Jobbing, Waiting, Call, rows, files, locks
<1>1. ASSUME NEW p \in Procs, Wake(p) PROVE Steady(p)
  BY <1>0, <1>1, <1>a DEF Wake, Woken, Goto
<1>2. ASSUME NEW p \in Procs, NEW s \in Stacks, NEW op \in Ops, PlanStart(p, s, op) PROVE Steady(p)
  BY <1>0, <1>2, <1>a DEF PlanStart, At, Idle
<1>3. ASSUME NEW p \in Procs, PlanWrite(p) PROVE Steady(p)
  BY <1>0, <1>3, <1>a DEF PlanWrite, At, Leave, Idle, Acquire, Goto, Locked
<1>4. ASSUME NEW p \in Procs, PlanTofu(p) PROVE Steady(p)
  BY <1>0, <1>4, <1>a DEF PlanTofu, At, Release
<1>5. ASSUME NEW p \in Procs, PlanFailed(p) PROVE Steady(p)
  BY <1>0, <1>5, <1>a DEF PlanFailed, At, Release, Leave, Idle
<1>6. ASSUME NEW p \in Procs, NEW k \in TokenIds, PlanToken(p, k) PROVE Steady(p)
  <2>1. CASE Leave(p)
    BY <1>0, <1>6, <1>a, <2>1 DEF PlanToken, At, Leave, Idle
  <2>2. CASE call' = [call EXCEPT ![p] = [@ EXCEPT !.pc = "start", !.ran = None]]
    BY <1>0, <1>6, <1>a, <2>2 DEF PlanToken, At
  <2> QED BY <1>6, <2>1, <2>2 DEF PlanToken
<1>7. ASSUME NEW p \in Procs, Refused(p) PROVE Steady(p)
  BY <1>0, <1>7, <1>a DEF Refused, Leave, Idle
<1>8. ASSUME NEW p \in Procs, NEW k \in TokenIds, DeployStart(p, k) PROVE Steady(p)
  BY <1>0, <1>8, <1>a DEF DeployStart, At, Idle
<1>9. ASSUME NEW p \in Procs, DeployConsume(p) PROVE Steady(p)
  <2>1. CASE Leave(p)
    BY <1>0, <1>9, <1>a, <2>1 DEF DeployConsume, At, Leave, Idle
  <2>2. CASE call' = [call EXCEPT ![p] = [@ EXCEPT !.pc = "start", !.tok = None,
                                               !.want = token[call[p].tok].plan]]
    BY <1>0, <1>9, <1>a, <2>2 DEF DeployConsume, At
  <2> QED BY <1>9, <2>1, <2>2 DEF DeployConsume
<1>10. ASSUME NEW p \in Procs, DeployConflict(p) PROVE Steady(p)
  BY <1>0, <1>10, <1>a DEF DeployConflict, At, Leave, Idle
<1>11. ASSUME NEW p \in Procs, NEW a \in asked, HandlerStart(p, a) PROVE Steady(p)
  <2>1. CASE call' = call
    BY <1>0, <1>11, <1>a, <2>1 DEF HandlerStart, At
  <2>2. CASE def[a.stack] = a.etag
    <3> DEFINE c == [Idle EXCEPT !.pc = "plan", !.stack = a.stack, !.def = a.etag,
                                 !.op = a.plan.op, !.want = a.plan]
    <3>1. c.pc = "plan"
      BY DEF Idle
    <3>2. call' = [call EXCEPT ![p] = c]
      BY <1>11, <2>2 DEF HandlerStart
    <3> HIDE DEF c
    <3> QED
      BY <1>0, <1>11, <1>a, <3>1, <3>2 DEF HandlerStart, At
  <2> QED BY <1>11, <2>1, <2>2 DEF HandlerStart
<1>12. ASSUME NEW p \in Procs, StartLock(p) PROVE Steady(p)
  BY <1>0, <1>12, <1>a DEF StartLock, At, Leave, Idle, Locked, Acquire, Goto
<1>13. ASSUME NEW p \in Procs, StartRunner(p) PROVE Steady(p)
  BY <1>0, <1>13, <1>a DEF StartRunner, At, Goto
<1>14. ASSUME NEW p \in Procs, StartRefused(p) PROVE Steady(p)
  BY <1>0, <1>14, <1>a DEF StartRefused, Refusable, At, Release, ReleaseSdn, Leave, Idle
<1>15. ASSUME NEW p \in Procs, TofuStart(p) PROVE Steady(p)
  BY <1>0, <1>15, <1>a DEF TofuStart, At
<1>16. ASSUME NEW p \in Procs, TofuOk(p) PROVE Steady(p)
  BY <1>0, <1>16, <1>a DEF TofuOk, At, Reach
<1>17. ASSUME NEW p \in Procs, TofuError(p) PROVE Steady(p)
  BY <1>0, <1>17, <1>a DEF TofuError, At, Reach, Goto
<1>18. ASSUME NEW p \in Procs, Sync(p) PROVE Steady(p)
  BY <1>0, <1>18, <1>a DEF Sync, At, Goto
<1>19. ASSUME NEW p \in Procs, RunnerError(p) PROVE Steady(p)
  BY <1>0, <1>19, <1>a DEF RunnerError
<1>20. ASSUME NEW p \in Procs, Commit(p) PROVE Steady(p)
  BY <1>0, <1>20, <1>a DEF Commit, At
<1>27. ASSUME NEW p \in Procs, LosesTofu(p) PROVE Steady(p)
  BY <1>0, <1>27, <1>a DEF LosesTofu, At
<1>21. ASSUME NEW p \in Procs, NEW s \in Stacks, DriftStart(p, s) PROVE Steady(p)
  BY <1>0, <1>21, <1>a DEF DriftStart, At, Idle
<1>22. ASSUME NEW p \in Procs, DriftNone(p) PROVE Steady(p)
  BY <1>0, <1>22, <1>a DEF DriftNone, At, Leave, Idle
<1>23. ASSUME NEW p \in Procs, DriftLock(p) PROVE Steady(p)
  BY <1>0, <1>23, <1>a DEF DriftLock, At, Acquire, Goto
<1>24. ASSUME NEW p \in Procs, DriftTofu(p) PROVE Steady(p)
  BY <1>0, <1>24, <1>a DEF DriftTofu, At, Release
<1>25. ASSUME NEW p \in Procs, DriftFailed(p) PROVE Steady(p)
  BY <1>0, <1>25, <1>a DEF DriftFailed, At, Release, Leave, Idle
<1>26. ASSUME NEW p \in Procs, DriftSave(p) PROVE Steady(p)
  BY <1>0, <1>26, <1>a DEF DriftSave, At, Leave, Idle
<1>40. ASSUME NEW k \in TokenIds, TokenExpires(k) PROVE UNCHANGED <<call, job>>
  BY <1>40 DEF TokenExpires
<1>41. ASSUME NEW s \in Stacks, NEW d \in Defs, Edit(s, d) PROVE UNCHANGED <<call, job>>
  BY <1>41 DEF Edit
<1>42. ASSUME NEW s \in Stacks, Delete(s) PROVE UNCHANGED <<call, job>>
  BY <1>42 DEF Delete
<1>43. ASSUME NEW s \in Stacks, LooseEnds(s) PROVE UNCHANGED <<call, job>>
  BY <1>43 DEF LooseEnds, rows
<1> QED
  BY <1>0, <1>1, <1>2, <1>3, <1>4, <1>5, <1>6, <1>7, <1>8, <1>9, <1>10, <1>11, <1>12, <1>13, <1>14, <1>15, <1>16, <1>17, <1>18, <1>19, <1>20, <1>21, <1>22, <1>23, <1>24, <1>25, <1>26, <1>27, <1>40, <1>41, <1>42, <1>43
     DEF Next, Planning, Deploying, Running, Drifting

\* One call writes the row it holds, or lets go of it; the others keep theirs.
LEMMA WriteKeeps ==
  ASSUME IInv, JobsHeld, RowsPaired, NEW p \in Procs, NEW j \in JobIds, NEW r \in Job,
         job' = [job EXCEPT ![j] = r],
         \A q \in Procs \ {p} : call'[q] = call[q] /\ ~(call[q].pc \in Jobbing /\ call[q].job = j),
         RowsOf(p)', call'[p].pc \in Jobbing => call'[p].job = j,
         r.dep = "none" => r.st = "pending",
         r.st \in {"success", "failed"} =>
           r.dep # "running" /\ (r.st = "success" <=> r.dep = "success"),
         r.st = "running" => call'[p].pc \in Started,
         call[p].pc \in Started => call[p].job = j
  PROVE  JobsHeld' /\ RowsPaired' /\ (RunnersLive => RunnersLive')
<1>1. /\ job'[j] = r /\ \A i \in JobIds \ {j} : job'[i] = job[i]
      /\ r # None
  BY NoneAssumption DEF IInv, TypeOK
<1>2. ASSUME NEW q \in Procs \ {p} PROVE RowsOf(q)'
  <2>1. RowsOf(q) /\ call'[q] = call[q]
    BY DEF JobsHeld
  <2>2. call[q].pc \in Jobbing => call[q].job \in JobIds \ {j}
    BY DEF IInv, CallsFilled
  <2>3. call[q].pc \in {"deprow"} \cup Early \cup Midway \cup {"jobrow"} => call[q].pc \in Jobbing
    BY DEF Early, Midway, Jobbing
  <2>4. call[q].pc \in Jobbing => job'[call[q].job] = job[call[q].job]
    BY <1>1, <2>2
  <2> QED BY <2>1, <2>3, <2>4 DEF RowsOf
<1>3. JobsHeld'
  <2>1. \A q \in Procs : RowsOf(q)'
    BY <1>2
  <2>2. ASSUME NEW q \in Procs, NEW o \in Procs, call'[q].pc \in Jobbing, call'[o].pc \in Jobbing,
               call'[q].job = call'[o].job
        PROVE  q = o
    BY <2>2 DEF JobsHeld
  <2> QED BY <2>1, <2>2 DEF JobsHeld
<1>4. RowsPaired'
  BY <1>1 DEF RowsPaired
<1>5. RunnersLive => RunnersLive'
  <2> SUFFICES ASSUME RunnersLive, NEW i \in JobIds, job'[i] # None, job'[i].st = "running"
               PROVE  \E q \in Procs : call'[q].pc \in Started /\ call'[q].job = i
    BY DEF RunnersLive
  <2>1. CASE i = j
    BY <1>1, <2>1 DEF Started, Midway, Jobbing
  <2>2. CASE i # j
    <3>1. PICK q \in Procs : call[q].pc \in Started /\ call[q].job = i
      BY <1>1, <2>2 DEF RunnersLive
    <3> QED BY <2>2, <3>1
  <2> QED BY <2>1, <2>2
<1> QED BY <1>3, <1>4, <1>5

\* Inserting a row.
LEMMA InsertKeeps ==
  ASSUME IInv, JobsHeld, RowsPaired, NEW p \in Procs, NEW j \in JobIds, StartRows(p, j)
  PROVE  JobsHeld' /\ RowsPaired' /\ (RunnersLive => RunnersLive')
<1> DEFINE r == [stack |-> call[p].stack, op |-> call[p].op, st |-> "pending", dep |-> "none"]
<1>1. /\ call \in [Procs -> Call] /\ job \in [JobIds -> Job \cup {None}]
      /\ call[p].pc = "rows" /\ job[j] = None
  BY DEF IInv, TypeOK, StartRows, At
<1>2. /\ job' = [job EXCEPT ![j] = r]
      /\ call'[p].pc = "deprow" /\ call'[p].job = j /\ call'[p].stack = call[p].stack
      /\ \A q \in Procs \ {p} : call'[q] = call[q]
  BY <1>1 DEF StartRows, Call
<1>3. \A q \in Procs : call[q].pc \in Jobbing => call[q].job # j
  BY <1>1 DEF IInv, CallsFilled
<1>4. call[p].stack \in Stacks /\ call[p].op \in Ops
  BY <1>1 DEF IInv, CallsFilled, Located, Owning, Checking
<1>5. r \in Job /\ r.stack = call[p].stack /\ r.st = "pending" /\ r.dep = "none"
  BY <1>4 DEF Job
<1> HIDE DEF r
<1>6. RowsOf(p)'
  BY <1>1, <1>2, <1>5 DEF RowsOf, Early, Midway
<1>7. call[p].pc \notin Started
  BY <1>1 DEF Started, Midway
<1> QED BY <1>2, <1>3, <1>5, <1>6, <1>7, WriteKeeps

\* The deployment row follows.
LEMMA CreateKeeps ==
  ASSUME IInv, JobsHeld, RowsPaired, NEW p \in Procs, CreateDeployment(p)
  PROVE  JobsHeld' /\ RowsPaired' /\ (RunnersLive => RunnersLive')
<1> DEFINE j == call[p].job
<1>1. /\ call \in [Procs -> Call] /\ job \in [JobIds -> Job \cup {None}]
      /\ call[p].pc = "deprow" /\ j \in JobIds /\ job[j] \in Job /\ call[p].ok \in BOOLEAN
  BY DEF IInv, TypeOK, CallsFilled, CreateDeployment, At, Jobbing, Call
<1> DEFINE r == [job[j] EXCEPT !.dep = "running"]
<1>2. job' = [job EXCEPT ![j] = r]
  BY DEF CreateDeployment
<1>3. r \in Job /\ r.stack = job[j].stack /\ r.st = job[j].st /\ r.dep = "running"
  BY <1>1 DEF Job
<1>4. /\ \A q \in Procs \ {p} : call'[q] = call[q]
      /\ call'[p].pc = "reserve" /\ call'[p].job = j /\ call'[p].stack = call[p].stack
      /\ call'[p].ok = call[p].ok
  BY <1>1 DEF CreateDeployment, Goto, Call
<1>5. \A q \in Procs \ {p} : ~(call[q].pc \in Jobbing /\ call[q].job = j)
  BY <1>1 DEF JobsHeld, Jobbing
<1>6. RowsOf(p)
  BY DEF JobsHeld
<1>7. job[j].st = "pending" /\ job'[j] = r
  BY <1>1, <1>2, <1>6 DEF RowsOf
<1> HIDE DEF r
<1>8. RowsOf(p)'
  BY <1>1, <1>2, <1>3, <1>4, <1>6, <1>7 DEF RowsOf, Early, Midway, Jobbing
<1>9. /\ r.dep = "none" => r.st = "pending"
      /\ r.st \in {"success", "failed"} =>
           r.dep # "running" /\ (r.st = "success" <=> r.dep = "success")
      /\ r.st = "running" => call'[p].pc \in Started
  BY <1>1, <1>3, <1>4, <1>6, <1>7 DEF RowsOf, Early, Midway, Started, Jobbing, RowsPaired
<1> QED BY <1>1, <1>2, <1>3, <1>4, <1>5, <1>8, <1>9, WriteKeeps DEF Jobbing

\* Marking the job running.
LEMMA RunKeeps ==
  ASSUME IInv, JobsHeld, RowsPaired, NEW p \in Procs, RunnerStart(p)
  PROVE  JobsHeld' /\ RowsPaired' /\ (RunnersLive => RunnersLive')
<1> DEFINE j == call[p].job
<1>1. /\ call \in [Procs -> Call] /\ job \in [JobIds -> Job \cup {None}]
      /\ call[p].pc = "launch" /\ j \in JobIds /\ job[j] \in Job /\ call[p].ok \in BOOLEAN
  BY DEF IInv, TypeOK, CallsFilled, RunnerStart, At, Jobbing, Call
<1> DEFINE r == [job[j] EXCEPT !.st = "running"]
<1>2. job' = [job EXCEPT ![j] = r]
  BY DEF RunnerStart
<1>3. r \in Job /\ r.stack = job[j].stack /\ r.st = "running" /\ r.dep = job[j].dep
  BY <1>1 DEF Job
<1>4. /\ \A q \in Procs \ {p} : call'[q] = call[q]
      /\ call'[p].pc = "apply" /\ call'[p].job = j /\ call'[p].stack = call[p].stack
      /\ call'[p].ok = call[p].ok
  BY <1>1 DEF RunnerStart, Goto, Call
<1>5. \A q \in Procs \ {p} : ~(call[q].pc \in Jobbing /\ call[q].job = j)
  BY <1>1 DEF JobsHeld, Jobbing
<1>6. RowsOf(p)
  BY DEF JobsHeld
<1>7. job[j].dep = "running" /\ job'[j] = r
  BY <1>1, <1>2, <1>6 DEF RowsOf, Early
<1> HIDE DEF r
<1>8. RowsOf(p)'
  BY <1>1, <1>2, <1>3, <1>4, <1>6, <1>7 DEF RowsOf, Early, Midway, Jobbing
<1>9. /\ r.dep = "none" => r.st = "pending"
      /\ r.st \in {"success", "failed"} =>
           r.dep # "running" /\ (r.st = "success" <=> r.dep = "success")
      /\ r.st = "running" => call'[p].pc \in Started
  BY <1>1, <1>3, <1>4, <1>6, <1>7 DEF RowsOf, Early, Midway, Started, Jobbing, RowsPaired
<1> QED BY <1>1, <1>2, <1>3, <1>4, <1>5, <1>8, <1>9, WriteKeeps DEF Jobbing

\* Finishing the deployment.
LEMMA FinishDeploymentKeeps ==
  ASSUME IInv, JobsHeld, RowsPaired, NEW p \in Procs, FinishDeployment(p)
  PROVE  JobsHeld' /\ RowsPaired' /\ (RunnersLive => RunnersLive')
<1> DEFINE j == call[p].job
<1>1. /\ call \in [Procs -> Call] /\ job \in [JobIds -> Job \cup {None}]
      /\ call[p].pc = "finish" /\ j \in JobIds /\ job[j] \in Job /\ call[p].ok \in BOOLEAN
  BY DEF IInv, TypeOK, CallsFilled, FinishDeployment, At, Jobbing, Call
<1>a. PICK dep \in Outcome(p) : job' = [job EXCEPT ![j].dep = dep]
  BY DEF FinishDeployment
<1> DEFINE r == [job[j] EXCEPT !.dep = dep]
<1>2. job' = [job EXCEPT ![j] = r]
  BY <1>a
<1>b. dep \in {"success", "partial", "failed"} /\ (call[p].ok <=> dep = "success")
  BY <1>1, <1>a DEF Outcome
<1>3. r \in Job /\ r.stack = job[j].stack /\ r.st = job[j].st /\ r.dep = dep
  BY <1>1, <1>b DEF Job
<1>4. /\ \A q \in Procs \ {p} : call'[q] = call[q]
      /\ call'[p].pc = "jobrow" /\ call'[p].job = j /\ call'[p].stack = call[p].stack
      /\ call'[p].ok = call[p].ok
  BY <1>1 DEF FinishDeployment, Goto, Call
<1>5. \A q \in Procs \ {p} : ~(call[q].pc \in Jobbing /\ call[q].job = j)
  BY <1>1 DEF JobsHeld, Jobbing
<1>6. RowsOf(p)
  BY DEF JobsHeld
<1>7. /\ job'[j] = r /\ r.dep \in {"success", "partial", "failed"}
      /\ call[p].ok <=> r.dep = "success"
      /\ r.st \notin {"success", "failed"}
  <2>1. job[j].dep = "running"
    BY <1>1, <1>6 DEF RowsOf, Early, Midway
  <2>2. job[j].st \notin {"success", "failed"}
    BY <1>1, <2>1, NoneAssumption DEF RowsPaired
  <2> QED BY <1>1, <1>2, <1>3, <1>b, <2>2
<1> HIDE DEF r
<1>8. RowsOf(p)'
  BY <1>1, <1>2, <1>3, <1>4, <1>6, <1>7 DEF RowsOf, Early, Midway, Jobbing
<1>9. /\ r.dep = "none" => r.st = "pending"
      /\ r.st \in {"success", "failed"} =>
           r.dep # "running" /\ (r.st = "success" <=> r.dep = "success")
      /\ r.st = "running" => call'[p].pc \in Started
  BY <1>1, <1>3, <1>4, <1>6, <1>7 DEF RowsOf, Early, Midway, Started, Jobbing, RowsPaired
<1> QED BY <1>1, <1>2, <1>3, <1>4, <1>5, <1>8, <1>9, WriteKeeps DEF Jobbing

\* Finishing the job.
LEMMA FinishJobKeeps ==
  ASSUME IInv, JobsHeld, RowsPaired, NEW p \in Procs, FinishJob(p)
  PROVE  JobsHeld' /\ RowsPaired' /\ (RunnersLive => RunnersLive')
<1> DEFINE j == call[p].job
<1>1. /\ call \in [Procs -> Call] /\ job \in [JobIds -> Job \cup {None}]
      /\ call[p].pc = "jobrow" /\ j \in JobIds /\ job[j] \in Job /\ call[p].ok \in BOOLEAN
  BY DEF IInv, TypeOK, CallsFilled, FinishJob, At, Jobbing, Call
<1> DEFINE st == IF call[p].ok THEN "success" ELSE "failed"
           r == [job[j] EXCEPT !.st = st]
<1>2. job' = [job EXCEPT ![j] = r]
  BY DEF FinishJob
<1>3. r \in Job /\ r.stack = job[j].stack /\ r.st = st /\ r.dep = job[j].dep
  BY <1>1 DEF Job
<1>4. /\ \A q \in Procs \ {p} : call'[q] = call[q]
      /\ call'[p].pc = "idle"
  BY <1>1 DEF FinishJob, Leave, Idle, Call
<1>5. \A q \in Procs \ {p} : ~(call[q].pc \in Jobbing /\ call[q].job = j)
  BY <1>1 DEF JobsHeld, Jobbing
<1>6. RowsOf(p)
  BY DEF JobsHeld
<1>7. job[j].dep \in {"success", "partial", "failed"} /\ (call[p].ok <=> job[j].dep = "success")
  BY <1>1, <1>6 DEF RowsOf
<1> HIDE DEF r
<1>8. RowsOf(p)'
  BY <1>1, <1>2, <1>3, <1>4, <1>6, <1>7 DEF RowsOf, Early, Midway, Jobbing
<1>9. /\ r.dep = "none" => r.st = "pending"
      /\ r.st \in {"success", "failed"} =>
           r.dep # "running" /\ (r.st = "success" <=> r.dep = "success")
      /\ r.st = "running" => call'[p].pc \in Started
  BY <1>1, <1>3, <1>4, <1>6, <1>7 DEF RowsOf, Early, Midway, Started, Jobbing, RowsPaired
<1> QED BY <1>1, <1>2, <1>3, <1>4, <1>5, <1>8, <1>9, WriteKeeps DEF Jobbing

\* Every step keeps the rows paired; a runner is lost in a restart, or when it
\* fails outside its try block.
LEMMA StepRows ==
  ASSUME IInv, JobsHeld, RowsPaired, [Next]_vars
  PROVE  /\ JobsHeld' /\ RowsPaired'
         /\ "crash" \notin Faults /\ "runner" \notin Faults /\ RunnersLive => RunnersLive'
<1> DEFINE Goal == /\ JobsHeld' /\ RowsPaired'
                   /\ "crash" \notin Faults /\ "runner" \notin Faults /\ RunnersLive => RunnersLive'
<1>1. CASE UNCHANGED <<call, job>>
  BY <1>1 DEF JobsHeld, RowsOf, RowsPaired, RunnersLive
<1>2. ASSUME NEW p \in Procs, Steady(p) PROVE Goal
  <2>1. RowsPaired'
    BY <1>2 DEF Steady, RowsPaired
  <2> QED BY <1>2, <2>1, SteadyKeeps
<1>3. ASSUME NEW p \in Procs, RunnerStart(p) PROVE Goal
  BY <1>3, RunKeeps
<1>4. ASSUME NEW p \in Procs, RunnerDies(p) PROVE Goal
  <2>1. call'[p].pc = "idle" /\ job' = job /\ \A q \in Procs \ {p} : call'[q] = call[q]
    BY <1>4 DEF RunnerDies, Leave, Idle, rows, IInv, TypeOK
  <2>2. JobsHeld' /\ RowsPaired'
    BY <2>1 DEF JobsHeld, RowsOf, RowsPaired, Jobbing, Early, Midway
  <2> QED BY <1>4, <2>2 DEF RunnerDies
<1>5. ASSUME NEW p \in Procs, FinishDeployment(p) \/ FinishJob(p) \/ CreateDeployment(p) PROVE Goal
  BY <1>5, FinishDeploymentKeeps, FinishJobKeeps, CreateKeeps
<1>6. ASSUME NEW p \in Procs, NEW j \in JobIds, StartRows(p, j) PROVE Goal
  BY <1>6, InsertKeeps
<1>7. CASE Crash
  <2>1. job' = job /\ \A q \in Procs : call'[q].pc = "idle"
    BY <1>7 DEF Crash, rows, Idle
  <2>2. JobsHeld' /\ RowsPaired'
    BY <2>1 DEF JobsHeld, RowsOf, RowsPaired, Jobbing, Early, Midway
  <2> QED BY <1>7, <2>2 DEF Crash
<1>8. CASE vars' = vars
  BY <1>1, <1>8 DEF vars
<1> HIDE DEF Goal
<1>9. CASE Next
  BY <1>1, <1>2, <1>3, <1>4, <1>5, <1>6, <1>7, <1>9, StepSteady DEF Goal
<1> QED BY <1>8, <1>9 DEF Goal

\* Whichever of its writes to the two tables a call does not get to make
\* (deploy_service.py, start_stack_job; runner.py, run_stack_job), a finished job
\* has a finished deployment of the same outcome and a job without one never
\* started; and while no runner dies and the portal is not restarted, a job shown
\* as running has a runner that holds its stack's lock, and its deployment runs
\* until that runner is at its last write.
THEOREM RowsAgreeSafe == Spec => []RowsAgree
<1> DEFINE Calm == {"runner", "crash"} \cap Faults = {}
           Rows == JobsHeld /\ RowsPaired /\ (Calm => RunnersLive)
<1>1. Init => Rows
  BY DEF Init, JobsHeld, RowsOf, RowsPaired, RunnersLive, Idle, Jobbing, Early, Midway
<1>2. IInv /\ Rows /\ [Next]_vars => Rows'
  <2> SUFFICES ASSUME IInv, Rows, [Next]_vars PROVE Rows'
    OBVIOUS
  <2>1. CASE Calm
    BY <2>1, StepRows
  <2>2. CASE ~Calm
    BY <2>2, StepRows
  <2> QED BY <2>1, <2>2
<1>3. IInv /\ Rows => RowsAgree
  <2> SUFFICES ASSUME IInv, Rows, NEW j \in JobIds, job[j] # None,
                      job[j].st = "running", Calm
               PROVE  \E p \in Procs : /\ call[p].job = j /\ lock[job[j].stack] = p
                                       /\ job[j].dep = "running" \/ At(p, "jobrow")
    BY DEF RowsAgree, RowsPaired
  <2>1. PICK p \in Procs : call[p].pc \in Started /\ call[p].job = j
    BY DEF RunnersLive
  <2>2. lock[call[p].stack] = p /\ job[j].stack = call[p].stack
    BY <2>1 DEF IInv, Owned, Owning, JobsHeld, RowsOf, Started, Midway, Jobbing
  <2>3. job[j].dep = "running" \/ At(p, "jobrow")
    BY <2>1 DEF JobsHeld, RowsOf, Started, Midway, At
  <2> QED BY <2>1, <2>2, <2>3
<1> HIDE DEF Rows, Calm
<1> QED BY <1>1, <1>2, <1>3, Invariance, PTL DEF Spec

-----------------------------------------------------------------------------
(***************************************************************************)
(* SDN deployments.                                                        *)
(***************************************************************************)

\* Definition d is on stack s's row, in its files or on its cluster.
Stored(s, d) ==
  \/ def[s] = d \/ mainTf[s] = d \/ infra[s] = d
  \/ planfile[s] # None /\ planfile[s].def = d
  \/ loose[s] # None /\ loose[s].def = d

\* Definition d is what call p has read of stack s, or is handing to tofu.
Carried(p, s, d) ==
  /\ call[p].stack = s
  /\ call[p].def = d \/ (call[p].ran # None /\ call[p].ran.def = d)

\* The definitions of stack s that are still about.
Versions(s) == {d \in Defs : Stored(s, d) \/ \E p \in Procs : Carried(p, s, d)}

\* A step of p that stores no definition and reads none.
Repeats(p) ==
  /\ UNCHANGED <<def, mainTf, infra, loose, planfile>>
  /\ \A q \in Procs \ {p} : call'[q] = call[q]
  /\ \/ call'[p].def = None /\ call'[p].ran = None
     \/ /\ call'[p].stack = call[p].stack /\ call'[p].def = call[p].def
        /\ call'[p].ran \in {call[p].ran, None}

\* One call moves, and what it stores and carries was about before.
LEMMA MoveVersions ==
  ASSUME NEW p \in Procs, \A q \in Procs \ {p} : call'[q] = call[q],
         \A s \in Stacks, d \in Defs : Stored(s, d)' => d \in Versions(s),
         \A s \in Stacks, d \in Defs : Carried(p, s, d)' => d \in Versions(s)
  PROVE  \A s \in Stacks : Versions(s)' \subseteq Versions(s)
<1>1. \A q \in Procs \ {p}, s \in Stacks, d \in Defs : Carried(q, s, d)' => d \in Versions(s)
  BY DEF Carried, Versions
<1> QED BY <1>1 DEF Versions

\* A call that only goes on brings no definition.
LEMMA RepeatVersions ==
  ASSUME IInv, NEW p \in Procs, Repeats(p)
  PROVE  \A s \in Stacks : Versions(s)' \subseteq Versions(s)
<1>1. \A s \in Stacks, d \in Defs : Stored(s, d)' => d \in Versions(s)
  BY DEF Repeats, Stored, Versions
<1>2. None \notin Defs
  BY DeployAssumption
<1>3. \A s \in Stacks, d \in Defs : Carried(p, s, d)' => d \in Versions(s)
  BY <1>2 DEF Repeats, Carried, Versions
<1>4. \A q \in Procs \ {p} : call'[q] = call[q]
  BY DEF Repeats
<1> QED BY <1>1, <1>3, <1>4, MoveVersions

\* Most steps are of that kind.
LEMMA StepRepeats ==
  ASSUME IInv, Next
  PROVE  \/ \E p \in Procs :
              \/ Repeats(p)
              \/ \E s \in Stacks, op \in Ops : PlanStart(p, s, op)
              \/ \E k \in TokenIds : DeployStart(p, k)
              \/ \E a \in asked : HandlerStart(p, a)
              \/ PlanWrite(p) \/ PlanTofu(p) \/ TofuStart(p) \/ TofuOk(p) \/ TofuError(p)
              \/ LosesTofu(p)
         \/ \E k \in TokenIds : TokenExpires(k)
         \/ \E s \in Stacks : LooseEnds(s) \/ (\E d \in Defs : Edit(s, d)) \/ Delete(s)
         \/ Crash
<1>a. call \in [Procs -> Call]
  BY DEF IInv, TypeOK
<1> USE DEF Repeats, Call, rows, files
<1>1. ASSUME NEW p \in Procs, Wake(p) PROVE Repeats(p)
  BY <1>a, <1>1 DEF Wake, Woken, Goto
<1>2. ASSUME NEW p \in Procs, PlanFailed(p) PROVE Repeats(p)
  BY <1>a, <1>2 DEF PlanFailed, At, Release, Leave, Idle
<1>3. ASSUME NEW p \in Procs, NEW k \in TokenIds, PlanToken(p, k) PROVE Repeats(p)
  <2>1. CASE Leave(p)
    BY <1>a, <1>3, <2>1 DEF PlanToken, Leave, Idle
  <2>2. CASE call' = [call EXCEPT ![p] = [@ EXCEPT !.pc = "start", !.ran = None]]
    BY <1>a, <1>3, <2>2 DEF PlanToken
  <2> QED BY <1>3, <2>1, <2>2 DEF PlanToken
<1>4. ASSUME NEW p \in Procs, Refused(p) PROVE Repeats(p)
  BY <1>a, <1>4 DEF Refused, Leave, Idle
<1>5. ASSUME NEW p \in Procs, DeployConsume(p) PROVE Repeats(p)
  <2>1. CASE Leave(p)
    BY <1>a, <1>5, <2>1 DEF DeployConsume, Leave, Idle
  <2>2. CASE call' = [call EXCEPT ![p] = [@ EXCEPT !.pc = "start", !.tok = None,
                                               !.want = token[call[p].tok].plan]]
    BY <1>a, <1>5, <2>2 DEF DeployConsume
  <2> QED BY <1>5, <2>1, <2>2 DEF DeployConsume
<1>6. ASSUME NEW p \in Procs, DeployConflict(p) PROVE Repeats(p)
  BY <1>a, <1>6 DEF DeployConflict, At, Leave, Idle
<1>7. ASSUME NEW p \in Procs, StartLock(p) PROVE Repeats(p)
  BY <1>a, <1>7 DEF StartLock, At, Leave, Idle, Locked, Acquire, Goto
<1>8. ASSUME NEW p \in Procs, NEW j \in JobIds, StartRows(p, j) PROVE Repeats(p)
  BY <1>a, <1>8 DEF StartRows, At
<1>9. ASSUME NEW p \in Procs, StartRunner(p) PROVE Repeats(p)
  BY <1>a, <1>9 DEF StartRunner, At, Goto
<1>10. ASSUME NEW p \in Procs, StartRefused(p) PROVE Repeats(p)
  BY <1>a, <1>10 DEF StartRefused, Release, ReleaseSdn, Leave, Idle
<1>11. ASSUME NEW p \in Procs, RunnerStart(p) PROVE Repeats(p)
  BY <1>a, <1>11 DEF RunnerStart, At, Goto
<1>12. ASSUME NEW p \in Procs, RunnerDies(p) PROVE Repeats(p)
  BY <1>a, <1>12 DEF RunnerDies, Leave, Idle
<1>13. ASSUME NEW p \in Procs, Sync(p) PROVE Repeats(p)
  BY <1>a, <1>13 DEF Sync, At, Goto
<1>14. ASSUME NEW p \in Procs, RunnerError(p) PROVE Repeats(p)
  BY <1>a, <1>14 DEF RunnerError
<1>15. ASSUME NEW p \in Procs, Commit(p) PROVE Repeats(p)
  BY <1>a, <1>15 DEF Commit, At
<1>16. ASSUME NEW p \in Procs, FinishDeployment(p) PROVE Repeats(p)
  BY <1>a, <1>16 DEF FinishDeployment, At, Goto
<1>23. ASSUME NEW p \in Procs, FinishJob(p) PROVE Repeats(p)
  BY <1>a, <1>23 DEF FinishJob, At, Release, ReleaseSdn, Leave, Idle
<1>24. ASSUME NEW p \in Procs, CreateDeployment(p) PROVE Repeats(p)
  BY <1>a, <1>24 DEF CreateDeployment, At, Goto
<1>17. ASSUME NEW p \in Procs, NEW s \in Stacks, DriftStart(p, s) PROVE Repeats(p)
  BY <1>a, <1>17 DEF DriftStart, At, Idle
<1>18. ASSUME NEW p \in Procs, DriftNone(p) PROVE Repeats(p)
  BY <1>a, <1>18 DEF DriftNone, At, Leave, Idle
<1>19. ASSUME NEW p \in Procs, DriftLock(p) PROVE Repeats(p)
  BY <1>a, <1>19 DEF DriftLock, At, Acquire, Goto
<1>20. ASSUME NEW p \in Procs, DriftTofu(p) PROVE Repeats(p)
  BY <1>a, <1>20 DEF DriftTofu, At, Release
<1>21. ASSUME NEW p \in Procs, DriftFailed(p) PROVE Repeats(p)
  BY <1>a, <1>21 DEF DriftFailed, At, Release, Leave, Idle
<1>22. ASSUME NEW p \in Procs, DriftSave(p) PROVE Repeats(p)
  BY <1>a, <1>22 DEF DriftSave, At, Leave, Idle
<1> QED
  BY <1>1, <1>2, <1>3, <1>4, <1>5, <1>6, <1>7, <1>8, <1>9, <1>10, <1>11, <1>12, <1>13, <1>14, <1>15, <1>16, <1>17, <1>18, <1>19, <1>20, <1>21, <1>22, <1>23, <1>24
     DEF Next, Planning, Deploying, Running, Drifting

\* Without edits no step brings a new definition of a stack.
LEMMA StepVersions ==
  ASSUME IInv, [Next]_vars, "edit" \notin Uses
  PROVE  \A s \in Stacks : Versions(s)' \subseteq Versions(s)
<1> DEFINE Goal == \A s \in Stacks : Versions(s)' \subseteq Versions(s)
<1>a. call \in [Procs -> Call] /\ None \notin Defs
  BY DeployAssumption DEF IInv, TypeOK
<1>b. \A p \in Procs : call[p].pc \in Located \ Checking => call[p].stack \in Stacks /\ call[p].def \in Defs
  BY DEF IInv, CallsFilled
<1>1. ASSUME NEW p \in Procs, NEW t \in Stacks, NEW d \in Defs, def[t] = d,
             UNCHANGED <<def, mainTf, infra, loose, planfile>>,
             \A q \in Procs \ {p} : call'[q] = call[q],
             call'[p].stack = t, call'[p].def = d, call'[p].ran = None
      PROVE  Goal
  <2>1. \A s \in Stacks, e \in Defs : Stored(s, e)' => e \in Versions(s)
    BY <1>1 DEF Stored, Versions
  <2>2. \A s \in Stacks, e \in Defs : Carried(p, s, e)' => e \in Versions(s)
    BY <1>1 DEF Carried, Stored, Versions
  <2> QED BY <1>1, <2>1, <2>2, MoveVersions
<1>2. ASSUME NEW p \in Procs, NEW s \in Stacks, NEW op \in Ops, PlanStart(p, s, op) PROVE Goal
  <2> DEFINE c == [Idle EXCEPT !.pc = "plan", !.stack = s, !.def = def[s], !.op = op]
  <2>1. call' = [call EXCEPT ![p] = c] /\ UNCHANGED <<def, mainTf, infra, loose, planfile>> /\ def[s] # None
    BY <1>2 DEF PlanStart, rows, files
  <2>2. c.stack = s /\ c.def = def[s] /\ c.ran = None
    BY DEF Idle
  <2>3. def[s] \in Defs
    BY <2>1 DEF IInv, TypeOK
  <2> HIDE DEF c, Goal
  <2> QED BY <1>a, <1>1, <2>1, <2>2, <2>3
<1>3. ASSUME NEW p \in Procs, NEW k \in TokenIds, DeployStart(p, k) PROVE Goal
  <2> DEFINE s == token[k].stack
             c == [Idle EXCEPT !.pc = "deploy", !.stack = s, !.def = def[s],
                               !.op = token[k].plan.op, !.tok = k]
  <2>1. call' = [call EXCEPT ![p] = c] /\ UNCHANGED <<def, mainTf, infra, loose, planfile>> /\ def[s] # None
    BY <1>3 DEF DeployStart, rows, files
  <2>2. c.stack = s /\ c.def = def[s] /\ c.ran = None
    BY DEF Idle
  <2>3. s \in Stacks /\ def[s] \in Defs
    BY <1>3, <2>1 DEF IInv, TypeOK, DeployStart, Token
  <2> HIDE DEF c, s, Goal
  <2> QED BY <1>a, <1>1, <2>1, <2>2, <2>3
<1>4. ASSUME NEW p \in Procs, NEW a \in asked, HandlerStart(p, a) PROVE Goal
  <2>0. a.stack \in Stacks /\ a.etag \in Defs
    BY DEF IInv, TypeOK, Asked
  <2>s. UNCHANGED <<def, mainTf, infra, loose, planfile>>
    BY <1>4 DEF HandlerStart, rows, files
  <2>1. CASE def[a.stack] = a.etag
    <3> DEFINE c == [Idle EXCEPT !.pc = "plan", !.stack = a.stack, !.def = a.etag,
                                 !.op = a.plan.op, !.want = a.plan]
    <3>1. call' = [call EXCEPT ![p] = c]
      BY <1>4, <2>1 DEF HandlerStart
    <3>2. c.stack = a.stack /\ c.def = a.etag /\ c.ran = None
      BY DEF Idle
    <3> HIDE DEF c, Goal
    <3> QED BY <1>a, <1>1, <2>0, <2>s, <2>1, <3>1, <3>2
  <2>2. CASE call' = call
    BY <2>s, <2>2 DEF Versions, Stored, Carried
  <2> QED BY <1>4, <2>1, <2>2 DEF HandlerStart
<1>5. ASSUME NEW p \in Procs, PlanWrite(p) PROVE Goal
  <2> DEFINE t == call[p].stack
  <2>1. t \in Stacks /\ call[p].def \in Defs
    BY <1>b, <1>5 DEF PlanWrite, At, Located, Others, Checking
  <2>2. /\ mainTf' = [mainTf EXCEPT ![t] = call[p].def] /\ UNCHANGED <<def, infra, loose, planfile>>
        /\ \A q \in Procs \ {p} : call'[q] = call[q]
        /\ \/ call'[p].stack = t /\ call'[p].def = call[p].def /\ call'[p].ran = call[p].ran
           \/ call'[p].stack = None /\ call'[p].def = None /\ call'[p].ran = None
    BY <1>a, <1>5 DEF PlanWrite, Acquire, Leave, Goto, Idle, Call, rows
  <2>3. \A s \in Stacks, e \in Defs : Stored(s, e)' => e \in Versions(s)
    BY <2>1, <2>2 DEF Stored, Carried, Versions, IInv, TypeOK
  <2>4. \A s \in Stacks, e \in Defs : Carried(p, s, e)' => e \in Versions(s)
    BY <1>a, <2>2 DEF Carried, Versions
  <2> QED BY <2>2, <2>3, <2>4, MoveVersions
<1>6. ASSUME NEW p \in Procs, PlanTofu(p) PROVE Goal
  <2> DEFINE t == call[p].stack
             made == [op |-> call[p].op, def |-> mainTf[t]]
             f == [op |-> made.op, def |-> made.def, stale |-> FALSE]
  <2>1. t \in Stacks
    BY <1>b, <1>6 DEF PlanTofu, At, Located, Owning, Checking
  <2>2. /\ planfile' = [planfile EXCEPT ![t] = f] /\ UNCHANGED <<def, infra, loose, mainTf>>
        /\ \A q \in Procs \ {p} : call'[q] = call[q]
        /\ call'[p].stack = t /\ call'[p].def = call[p].def /\ call'[p].ran = made
    BY <1>a, <1>6 DEF PlanTofu, Call, rows
  <2>3. f.def = mainTf[t] /\ made.def = mainTf[t]
    OBVIOUS
  <2> HIDE DEF f, made, Goal
  <2>4. \A s \in Stacks, e \in Defs : Stored(s, e)' => e \in Versions(s)
    BY <2>1, <2>2, <2>3 DEF Stored, Versions, IInv, TypeOK
  <2>5. \A s \in Stacks, e \in Defs : Carried(p, s, e)' => e \in Versions(s)
    BY <1>a, <2>2, <2>3 DEF Carried, Stored, Versions
  <2> QED BY <2>2, <2>4, <2>5, MoveVersions DEF Goal
<1>7. ASSUME NEW p \in Procs, TofuStart(p) PROVE Goal
  <2> DEFINE t == call[p].stack
             f == planfile[t]
             made == [op |-> f.op, def |-> f.def]
  <2>1. t \in Stacks /\ f # None
    BY <1>b, <1>7 DEF TofuStart, At, Located, Owning, Checking, IInv, CallsFilled, Planned, Jobbing
  <2>2. /\ UNCHANGED <<def, infra, loose, mainTf, planfile>>
        /\ \A q \in Procs \ {p} : call'[q] = call[q]
        /\ call'[p].stack = t /\ call'[p].def = call[p].def /\ call'[p].ran = made
    BY <1>a, <1>7 DEF TofuStart, Call, rows, files
  <2>3. made.def = f.def
    OBVIOUS
  <2> HIDE DEF made, Goal
  <2>4. \A s \in Stacks, e \in Defs : Stored(s, e)' => e \in Versions(s)
    BY <2>2 DEF Stored, Versions
  <2>5. \A s \in Stacks, e \in Defs : Carried(p, s, e)' => e \in Versions(s)
    BY <1>a, <2>1, <2>2, <2>3 DEF Carried, Stored, Versions
  <2> QED BY <2>2, <2>4, <2>5, MoveVersions DEF Goal
<1>7a. ASSUME NEW t \in Stacks, planfile[t] # None, NEW d, Reach(t, d),
              d \in Defs => d \in Versions(t), UNCHANGED <<def, mainTf>>,
              \A s \in Stacks : loose'[s] \in {loose[s], None}
       PROVE  \A s \in Stacks, e \in Defs : Stored(s, e)' => e \in Versions(s)
  <2>1. \A s \in Stacks : planfile'[s] # None => planfile[s] # None /\ planfile'[s].def = planfile[s].def
    <3> DEFINE b == planfile[t].stale \/ d # infra[t]
    <3>1. planfile[t] \in Planfile /\ planfile' = [planfile EXCEPT ![t] = [planfile[t] EXCEPT !.stale = b]]
      BY <1>7a DEF Reach, IInv, TypeOK
    <3>2. [planfile[t] EXCEPT !.stale = b].def = planfile[t].def
      BY <3>1 DEF Planfile
    <3> HIDE DEF b
    <3> QED BY <1>7a, <3>1, <3>2 DEF IInv, TypeOK
  <2>2. infra' = [infra EXCEPT ![t] = d]
    BY <1>7a DEF Reach
  <2>3. \A s \in Stacks : infra'[s] = IF s = t THEN d ELSE infra[s]
    BY <2>2 DEF IInv, TypeOK
  <2> SUFFICES ASSUME NEW s \in Stacks, NEW e \in Defs, Stored(s, e)' PROVE e \in Versions(s)
    OBVIOUS
  <2> HIDE DEF Goal
  <2>4. CASE infra'[s] = e
    BY <1>7a, <2>3, <2>4 DEF Stored, Versions
  <2>5. CASE infra'[s] # e
    <3>1. Stored(s, e)
      BY <1>7a, <2>1, <2>5 DEF Stored
    <3> QED BY <3>1 DEF Versions
  <2> QED BY <2>4, <2>5
<1>8. ASSUME NEW p \in Procs, TofuOk(p) \/ TofuError(p) PROVE Goal
  <2> DEFINE t == call[p].stack
  <2>1. t \in Stacks /\ planfile[t] # None /\ call[p].ran \in Plan
    BY <1>b, <1>8 DEF TofuOk, TofuError, At, Located, Owning, Checking, IInv, CallsFilled, Planned, Jobbing
  <2>2. PICK d \in {infra[t], Target(call[p].ran)} : Reach(t, d)
    BY <1>8 DEF TofuOk, TofuError
  <2>3. /\ UNCHANGED <<def, mainTf, loose>>
        /\ \A q \in Procs \ {p} : call'[q] = call[q]
        /\ call'[p].stack = t /\ call'[p].def = call[p].def /\ call'[p].ran = call[p].ran
    <3>1. CASE TofuOk(p)
      BY <1>a, <3>1 DEF TofuOk, Call, rows
    <3>2. CASE TofuError(p)
      BY <1>a, <3>2 DEF TofuError, Goto, Call, rows
    <3> QED BY <1>8, <3>1, <3>2
  <2>4. d \in Defs => d = infra[t] \/ (call[p].ran # None /\ call[p].ran.def = d)
    BY <1>a, <2>1, <2>2, NoneAssumption DEF Target
  <2>5. d \in Defs => d \in Versions(t)
    BY <2>1, <2>4 DEF Stored, Carried, Versions
  <2> HIDE DEF Goal
  <2>6. \A s \in Stacks, e \in Defs : Stored(s, e)' => e \in Versions(s)
    BY <1>7a, <2>1, <2>2, <2>3, <2>5
  <2>7. \A s \in Stacks, e \in Defs : Carried(p, s, e)' => e \in Versions(s)
    BY <2>3 DEF Carried, Versions
  <2> QED BY <2>3, <2>6, <2>7, MoveVersions DEF Goal
<1>15. ASSUME NEW t \in Stacks, LooseEnds(t) PROVE Goal
  <2>1. planfile[t] # None /\ loose[t] # None /\ loose \in [Stacks -> Plan \cup {None}]
    BY <1>15 DEF LooseEnds, IInv, LooseBacked, TypeOK
  <2>2. PICK d \in {infra[t], Target(loose[t])} : Reach(t, d)
    BY <1>15 DEF LooseEnds
  <2>3. UNCHANGED <<def, mainTf, call>> /\ \A s \in Stacks : loose'[s] \in {loose[s], None}
    BY <1>15, <2>1 DEF LooseEnds, rows
  <2>4. d \in Defs => d = infra[t] \/ loose[t].def = d
    BY <1>a, <2>2 DEF Target
  <2>5. d \in Defs => d \in Versions(t)
    BY <2>1, <2>4 DEF Stored, Versions
  <2> HIDE DEF Goal
  <2>6. \A s \in Stacks, e \in Defs : Stored(s, e)' => e \in Versions(s)
    BY <1>7a, <2>1, <2>2, <2>3, <2>5
  <2> QED BY <2>3, <2>6 DEF Versions, Carried, Goal
<1>16. ASSUME NEW p \in Procs, LosesTofu(p) PROVE Goal
  <2> DEFINE t == call[p].stack
  <2>1. t \in Stacks /\ call[p].ran \in Plan /\ loose \in [Stacks -> Plan \cup {None}]
    BY <1>b, <1>16 DEF LosesTofu, At, Located, Owning, Checking, IInv, CallsFilled, TypeOK
  <2>2. /\ UNCHANGED <<def, mainTf, planfile, infra>>
        /\ \A q \in Procs \ {p} : call'[q] = call[q]
        /\ call'[p].stack = t /\ call'[p].def = call[p].def /\ call'[p].ran = call[p].ran
    BY <1>a, <1>16 DEF LosesTofu, Call, rows
  <2>3. \A s \in Stacks : loose'[s] = loose[s] \/ (s = t /\ loose'[s] = call[p].ran)
    BY <1>16, <2>1 DEF LosesTofu
  <2> HIDE DEF Goal
  <2>4. \A s \in Stacks, e \in Defs : Stored(s, e)' => e \in Versions(s)
    BY <2>1, <2>2, <2>3, NoneAssumption DEF Stored, Carried, Versions
  <2>5. \A s \in Stacks, e \in Defs : Carried(p, s, e)' => e \in Versions(s)
    BY <2>2 DEF Carried, Versions
  <2> QED BY <2>2, <2>4, <2>5, MoveVersions DEF Goal
<1>9. ASSUME Crash PROVE Goal
  <2>1. PICK done \in SUBSET {p \in Procs : At(p, "tofu") /\ Valid(call[p].stack)} :
          LET by(s) == {p \in done : call[p].stack = s}
              to(s) == Target(call[CHOOSE p \in by(s) : TRUE].ran) IN
          /\ infra' = [s \in Stacks |-> IF by(s) = {} THEN infra[s] ELSE to(s)]
          /\ planfile' = [s \in Stacks |->
                            IF by(s) = {} \/ to(s) = infra[s] THEN planfile[s]
                            ELSE [planfile[s] EXCEPT !.stale = TRUE]]
    BY <1>9 DEF Crash
  <2> DEFINE by(s) == {p \in done : call[p].stack = s}
             to(s) == Target(call[CHOOSE p \in by(s) : TRUE].ran)
  <2>2. ASSUME NEW s \in Stacks, by(s) # {}
        PROVE  planfile[s] \in Planfile /\ (to(s) \in Defs => to(s) \in Versions(s))
    <3>1. PICK p \in by(s) : p = CHOOSE q \in by(s) : TRUE
      BY <2>2
    <3>2. p \in Procs /\ call[p].pc = "tofu" /\ call[p].stack = s
      BY <3>1, <2>1 DEF At
    <3>3. call[p].ran \in Plan /\ planfile[s] # None
      BY <3>2 DEF IInv, CallsFilled, Planned, Jobbing
    <3>4. to(s) = Target(call[p].ran)
      BY <3>1
    <3>5. to(s) \in Defs => call[p].ran # None /\ call[p].ran.def = to(s)
      BY <1>a, <3>3, <3>4, NoneAssumption DEF Target
    <3> HIDE DEF to
    <3> QED BY <3>2, <3>3, <3>5 DEF Carried, Versions, IInv, TypeOK
  <2>3. \A s \in Stacks : infra'[s] = IF by(s) = {} THEN infra[s] ELSE to(s)
    BY <2>1
  <2>4. \A s \in Stacks : planfile'[s] = IF by(s) = {} \/ to(s) = infra[s] THEN planfile[s]
                                         ELSE [planfile[s] EXCEPT !.stale = TRUE]
    BY <2>1, SMTT(40)
  <2> HIDE DEF by, to, Goal
  <2>5. \A s \in Stacks : planfile'[s] # None => planfile[s] # None /\ planfile'[s].def = planfile[s].def
    <3>1. \A f \in Planfile : [f EXCEPT !.stale = TRUE].def = f.def /\ f # None
      BY NoneAssumption DEF Planfile
    <3> QED BY <2>2, <2>4, <3>1
  <2>6. /\ UNCHANGED <<def, mainTf>> /\ \A p \in Procs : call'[p].stack = None
        /\ \A s \in Stacks : loose'[s] = None
    BY <1>9 DEF Crash, rows, Idle
  <2>7. None \notin Stacks
    BY DeployAssumption
  <2>8. \A s \in Stacks, e \in Defs : Stored(s, e)' => e \in Versions(s)
    <3> SUFFICES ASSUME NEW s \in Stacks, NEW e \in Defs, Stored(s, e)' PROVE e \in Versions(s)
      OBVIOUS
    <3>1. CASE infra'[s] = e
      BY <2>2, <2>3, <3>1 DEF Stored, Versions
    <3>2. CASE infra'[s] # e
      BY <2>5, <2>6, <3>2 DEF Stored, Versions
    <3> QED BY <3>1, <3>2
  <2> QED BY <2>6, <2>7, <2>8 DEF Versions, Carried, Goal
<1>10. ASSUME NEW s \in Stacks, Delete(s) PROVE Goal
  BY <1>a, <1>10 DEF Delete, Versions, Stored, Carried, IInv, TypeOK, files
<1>11. ASSUME NEW k \in TokenIds, TokenExpires(k) PROVE Goal
  BY <1>11 DEF TokenExpires, Versions, Stored, Carried, rows, files
<1>12. ASSUME vars' = vars PROVE Goal
  BY <1>12 DEF vars, Versions, Stored, Carried
<1>13. ASSUME NEW p \in Procs, Repeats(p) PROVE Goal
  BY <1>13, RepeatVersions
<1> HIDE DEF Goal
<1>e. \A s \in Stacks, d \in Defs : ~Edit(s, d)
  BY DEF Edit
<1>14. ASSUME Next PROVE Goal
  BY <1>e, <1>2, <1>3, <1>4, <1>5, <1>6, <1>7, <1>8, <1>9, <1>10, <1>11, <1>13, <1>14, <1>15, <1>16, StepRepeats
<1> QED BY <1>12, <1>14 DEF Goal

SdnPart == {"startWait", "rows"} \cup Jobbing

\* From the moment start_stack_job took the SDN lock to the end of the runner, a
\* call whose definition contains a VNet has it.
SdnHeld == \A p \in Procs : call[p].pc \in SdnPart /\ call[p].def \in Sdn => sdnLock = p

\* The definitions of one stack that are about all contain a VNet, or none does.
OneKind == \A s \in Stacks : \A d, e \in Versions(s) : d \in Sdn <=> e \in Sdn

\* A step of p that leaves the SDN lock alone and does not enter its part.
Quiet(p) ==
  /\ sdnLock' = sdnLock
  /\ \A q \in Procs \ {p} : call'[q] = call[q]
  /\ call'[p].pc \in SdnPart => call[p].pc \in SdnPart /\ call'[p].def = call[p].def

\* Only start_stack_job, the runner's end and a restart touch the SDN lock.
LEMMA StepQuiet ==
  ASSUME IInv, Next
  PROVE  \/ \E p \in Procs : Quiet(p) \/ StartLock(p) \/ StartRefused(p) \/ FinishJob(p)
         \/ UNCHANGED <<call, sdnLock>>
         \/ Crash
<1>a. call \in [Procs -> Call]
  BY DEF IInv, TypeOK
<1> USE DEF Quiet, SdnPart, Jobbing, Call, locks, Waiting
<1>1. ASSUME NEW p \in Procs, Wake(p) PROVE Quiet(p)
  BY <1>a, <1>1 DEF Wake, Woken, Goto
<1>2. ASSUME NEW p \in Procs, NEW s \in Stacks, NEW op \in Ops, PlanStart(p, s, op) PROVE Quiet(p)
  BY <1>a, <1>2 DEF PlanStart, At, Idle
<1>3. ASSUME NEW p \in Procs, PlanWrite(p) PROVE Quiet(p)
  BY <1>a, <1>3 DEF PlanWrite, At, Leave, Idle, Acquire, Goto
<1>4. ASSUME NEW p \in Procs, PlanTofu(p) PROVE Quiet(p)
  BY <1>a, <1>4 DEF PlanTofu, At
<1>5. ASSUME NEW p \in Procs, PlanFailed(p) PROVE Quiet(p)
  BY <1>a, <1>5 DEF PlanFailed, At, Release, Leave, Idle
<1>6. ASSUME NEW p \in Procs, NEW k \in TokenIds, PlanToken(p, k) PROVE Quiet(p)
  <2>1. CASE Leave(p)
    BY <1>a, <1>6, <2>1 DEF PlanToken, Leave, Idle
  <2>2. CASE call' = [call EXCEPT ![p] = [@ EXCEPT !.pc = "start", !.ran = None]]
    BY <1>a, <1>6, <2>2 DEF PlanToken
  <2> QED BY <1>6, <2>1, <2>2 DEF PlanToken
<1>7. ASSUME NEW p \in Procs, Refused(p) PROVE Quiet(p)
  BY <1>a, <1>7 DEF Refused, Leave, Idle
<1>8. ASSUME NEW p \in Procs, NEW k \in TokenIds, DeployStart(p, k) PROVE Quiet(p)
  BY <1>a, <1>8 DEF DeployStart, At, Idle
<1>9. ASSUME NEW p \in Procs, DeployConsume(p) PROVE Quiet(p)
  <2>1. CASE Leave(p)
    BY <1>a, <1>9, <2>1 DEF DeployConsume, Leave, Idle
  <2>2. CASE call' = [call EXCEPT ![p] = [@ EXCEPT !.pc = "start", !.tok = None,
                                               !.want = token[call[p].tok].plan]]
    BY <1>a, <1>9, <2>2 DEF DeployConsume
  <2> QED BY <1>9, <2>1, <2>2 DEF DeployConsume
<1>10. ASSUME NEW p \in Procs, DeployConflict(p) PROVE Quiet(p)
  BY <1>a, <1>10 DEF DeployConflict, At, Leave, Idle
<1>11. ASSUME NEW p \in Procs, NEW a \in asked, HandlerStart(p, a) PROVE Quiet(p)
  <2>1. CASE call' = call
    BY <1>a, <1>11, <2>1 DEF HandlerStart, At
  <2>2. CASE def[a.stack] = a.etag
    <3> DEFINE c == [Idle EXCEPT !.pc = "plan", !.stack = a.stack, !.def = a.etag,
                                 !.op = a.plan.op, !.want = a.plan]
    <3>1. c.pc = "plan" /\ call' = [call EXCEPT ![p] = c]
      BY <1>11, <2>2 DEF HandlerStart, Idle
    <3> HIDE DEF c
    <3> QED BY <1>a, <1>11, <3>1 DEF HandlerStart
  <2> QED BY <1>11, <2>1, <2>2 DEF HandlerStart
<1>12. ASSUME NEW p \in Procs, NEW j \in JobIds, StartRows(p, j) PROVE Quiet(p)
  BY <1>a, <1>12 DEF StartRows, At
<1>13. ASSUME NEW p \in Procs, StartRunner(p) PROVE Quiet(p)
  BY <1>a, <1>13 DEF StartRunner, At, Goto
<1>14. ASSUME NEW p \in Procs, RunnerStart(p) PROVE Quiet(p)
  BY <1>a, <1>14 DEF RunnerStart, At, Goto
<1>15. ASSUME NEW p \in Procs, RunnerDies(p) PROVE Quiet(p)
  BY <1>a, <1>15 DEF RunnerDies, Leave, Idle
<1>16. ASSUME NEW p \in Procs, TofuStart(p) PROVE Quiet(p)
  BY <1>a, <1>16 DEF TofuStart, At
<1>17. ASSUME NEW p \in Procs, TofuOk(p) PROVE Quiet(p)
  BY <1>a, <1>17 DEF TofuOk, At
<1>18. ASSUME NEW p \in Procs, TofuError(p) PROVE Quiet(p)
  BY <1>a, <1>18 DEF TofuError, At, Goto
<1>19. ASSUME NEW p \in Procs, Sync(p) PROVE Quiet(p)
  BY <1>a, <1>19 DEF Sync, At, Goto
<1>20. ASSUME NEW p \in Procs, RunnerError(p) PROVE Quiet(p)
  BY <1>a, <1>20 DEF RunnerError
<1>21. ASSUME NEW p \in Procs, Commit(p) PROVE Quiet(p)
  BY <1>a, <1>21 DEF Commit, At
<1>22. ASSUME NEW p \in Procs, NEW s \in Stacks, DriftStart(p, s) PROVE Quiet(p)
  BY <1>a, <1>22 DEF DriftStart, At, Idle
<1>23. ASSUME NEW p \in Procs, DriftNone(p) PROVE Quiet(p)
  BY <1>a, <1>23 DEF DriftNone, At, Leave, Idle
<1>24. ASSUME NEW p \in Procs, DriftLock(p) PROVE Quiet(p)
  BY <1>a, <1>24 DEF DriftLock, At, Acquire, Goto
<1>25. ASSUME NEW p \in Procs, DriftTofu(p) PROVE Quiet(p)
  BY <1>a, <1>25 DEF DriftTofu, At, Release
<1>26. ASSUME NEW p \in Procs, DriftFailed(p) PROVE Quiet(p)
  BY <1>a, <1>26 DEF DriftFailed, At, Release, Leave, Idle
<1>27. ASSUME NEW p \in Procs, DriftSave(p) PROVE Quiet(p)
  BY <1>a, <1>27 DEF DriftSave, At, Leave, Idle
<1>28. ASSUME NEW p \in Procs, CreateDeployment(p) PROVE Quiet(p)
  BY <1>a, <1>28 DEF CreateDeployment, At, Goto
<1>29. ASSUME NEW p \in Procs, LosesTofu(p) PROVE Quiet(p)
  BY <1>a, <1>29 DEF LosesTofu, At
<1>30. ASSUME NEW p \in Procs, FinishDeployment(p) PROVE Quiet(p)
  BY <1>a, <1>30 DEF FinishDeployment, At, Goto
<1>39. ASSUME NEW s \in Stacks, LooseEnds(s) PROVE UNCHANGED <<call, sdnLock>>
  BY <1>39 DEF LooseEnds
<1>40. ASSUME NEW k \in TokenIds, TokenExpires(k) PROVE UNCHANGED <<call, sdnLock>>
  BY <1>40 DEF TokenExpires
<1>41. ASSUME NEW s \in Stacks, NEW d \in Defs, Edit(s, d) PROVE UNCHANGED <<call, sdnLock>>
  BY <1>41 DEF Edit
<1>42. ASSUME NEW s \in Stacks, Delete(s) PROVE UNCHANGED <<call, sdnLock>>
  BY <1>42 DEF Delete
<1> QED
  BY <1>1, <1>2, <1>3, <1>4, <1>5, <1>6, <1>7, <1>8, <1>9, <1>10, <1>11, <1>12, <1>13, <1>14, <1>15, <1>16, <1>17, <1>18, <1>19, <1>20, <1>21, <1>22, <1>23, <1>24, <1>25, <1>26, <1>27, <1>28, <1>29, <1>30, <1>39, <1>40, <1>41, <1>42
     DEF Next, Planning, Deploying, Running, Drifting

\* Every step leaves the SDN lock with the call that is in its part.
LEMMA StepSdnHeld == IInv /\ SdnHeld /\ [Next]_vars => SdnHeld'
<1> SUFFICES ASSUME IInv, SdnHeld, [Next]_vars PROVE SdnHeld'
  OBVIOUS
<1>a. call \in [Procs -> Call] /\ None \notin Procs
  BY DeployAssumption DEF IInv, TypeOK
<1>1. ASSUME NEW p \in Procs, Quiet(p) PROVE SdnHeld'
  BY <1>1 DEF SdnHeld, Quiet
<1>2. ASSUME NEW p \in Procs, StartLock(p) PROVE SdnHeld'
  <2>1. call[p].pc = "start" /\ \A q \in Procs \ {p} : call'[q] = call[q]
    BY <1>a, <1>2 DEF StartLock, At, Leave, Acquire, Goto
  <2>2. CASE Leave(p) /\ UNCHANGED locks
    BY <1>a, <2>1, <2>2 DEF Leave, Idle, locks, SdnHeld, SdnPart, Jobbing
  <2>3. CASE /\ ~(call[p].def \in Sdn /\ sdnLock # None)
             /\ sdnLock' = IF call[p].def \in Sdn THEN p ELSE sdnLock
             /\ Acquire(p, call[p].stack, "rows", "startWait")
    <3>1. call'[p].def = call[p].def
      BY <1>a, <2>3 DEF Acquire, Goto, Call
    <3>2. CASE call[p].def \in Sdn
      <4>1. sdnLock = None /\ sdnLock' = p
        BY <2>3, <3>2
      <4>2. \A q \in Procs \ {p} : ~(call[q].pc \in SdnPart /\ call[q].def \in Sdn)
        BY <1>a, <4>1 DEF SdnHeld
      <4> QED BY <2>1, <4>1, <4>2 DEF SdnHeld
    <3>3. CASE call[p].def \notin Sdn
      BY <2>1, <2>3, <3>1, <3>3 DEF SdnHeld
    <3> QED BY <3>2, <3>3
  <2> QED BY <1>2, <2>2, <2>3 DEF StartLock
<1>3. ASSUME NEW p \in Procs, StartRefused(p) \/ FinishJob(p) PROVE SdnHeld'
  <2>1. /\ call'[p].pc = "idle" /\ \A q \in Procs \ {p} : call'[q] = call[q]
        /\ sdnLock' = IF sdnLock = p THEN None ELSE sdnLock
    <3>1. CASE StartRefused(p)
      BY <1>a, <3>1 DEF StartRefused, Leave, Idle, ReleaseSdn
    <3>2. CASE FinishJob(p)
      BY <1>a, <3>2 DEF FinishJob, Leave, Idle, ReleaseSdn
    <3> QED BY <1>3, <3>1, <3>2
  <2> QED BY <2>1 DEF SdnHeld, SdnPart, Jobbing
<1>4. CASE UNCHANGED <<call, sdnLock>>
  BY <1>4 DEF SdnHeld
<1>5. CASE Crash
  BY <1>5 DEF Crash, Idle, SdnHeld, SdnPart, Jobbing
<1>6. CASE vars' = vars
  BY <1>4, <1>6 DEF vars
<1>7. CASE Next
  BY <1>1, <1>2, <1>3, <1>4, <1>5, <1>7, StepQuiet
<1> QED BY <1>6, <1>7

\* As long as no edit changes whether a stack contains a VNet, every call that
\* stages SDN objects has the SDN lock, and nobody else commits meanwhile, even if
\* runners die with the lock or the portal restarts (deploy_service.py,
\* start_stack_job; runner.py, run_stack_job).
THEOREM SdnSerialSafe ==
  "edit" \notin Uses \/ Sdn \in {{}, Defs} => (Spec => []SdnSerial)
<1> SUFFICES ASSUME "edit" \notin Uses \/ Sdn \in {{}, Defs} PROVE Spec => []SdnSerial
  OBVIOUS
<1>1. Init => SdnHeld /\ OneKind
  <2> SUFFICES ASSUME Init PROVE SdnHeld /\ OneKind
    OBVIOUS
  <2>1. SdnHeld
    BY DEF Init, SdnHeld, SdnPart, Jobbing, Idle
  <2>2. None \notin Defs \cup Stacks
    BY DeployAssumption
  <2>3. \A s \in Stacks, d \in Defs : Stored(s, d) => d = def[s]
    BY <2>2 DEF Init, Stored
  <2>4. \A p \in Procs, s \in Stacks, d \in Defs : ~Carried(p, s, d)
    BY <2>2 DEF Init, Carried, Idle
  <2>5. OneKind
    BY <2>3, <2>4 DEF OneKind, Versions
  <2> QED BY <2>1, <2>5
<1>2. IInv /\ OneKind /\ [Next]_vars => OneKind'
  <2> SUFFICES ASSUME IInv, OneKind, [Next]_vars PROVE OneKind'
    OBVIOUS
  <2>1. CASE "edit" \notin Uses
    <3>1. \A s \in Stacks : Versions(s)' \subseteq Versions(s)
      BY <2>1, StepVersions
    <3> QED BY <3>1 DEF OneKind
  <2>2. CASE Sdn \in {{}, Defs}
    BY <2>2 DEF OneKind, Versions
  <2> QED BY <2>1, <2>2
<1>3. IInv /\ SdnHeld /\ OneKind => SdnSerial
  <2> SUFFICES ASSUME IInv, SdnHeld, OneKind PROVE SdnSerial
    OBVIOUS
  <2>1. ASSUME NEW p \in Procs, Stages(p) PROVE sdnLock = p
    <3> DEFINE s == call[p].stack
    <3>1. /\ call[p].pc = "tofu" /\ s \in Stacks /\ call[p].def \in Defs /\ call[p].ran \in Plan
      BY <2>1 DEF Stages, At, IInv, CallsFilled, Located, Checking, Owning
    <3>2. infra[s] \in Sdn \/ Target(call[p].ran) \in Sdn
      BY <2>1 DEF Stages
    <3>3. Sdn \subseteq Defs /\ None \notin Defs
      BY DeployAssumption
    <3>4. call[p].def \in Versions(s)
      BY <3>1 DEF Versions, Carried
    <3>5. CASE infra[s] \in Sdn
      <4>1. infra[s] \in Versions(s)
        BY <3>3, <3>5 DEF Versions, Stored
      <4>2. call[p].def \in Sdn
        BY <3>1, <3>4, <3>5, <4>1 DEF OneKind
      <4> QED BY <3>1, <4>2 DEF SdnHeld, SdnPart, Jobbing
    <3>6. CASE Target(call[p].ran) \in Sdn
      <4>1. Target(call[p].ran) = call[p].ran.def
        BY <3>3, <3>6 DEF Target
      <4>2. call[p].ran.def \in Versions(s)
        BY <3>1, <3>3, <3>6, <4>1, NoneAssumption DEF Versions, Carried
      <4>3. call[p].def \in Sdn
        BY <3>1, <3>4, <3>6, <4>1, <4>2 DEF OneKind
      <4> QED BY <3>1, <4>3 DEF SdnHeld, SdnPart, Jobbing
    <3> QED BY <3>2, <3>5, <3>6
  <2> QED BY <2>1 DEF SdnSerial, Commits
<1> QED BY <1>1, <1>2, <1>3, StepSdnHeld, Invariance, PTL DEF Spec
=============================================================================
