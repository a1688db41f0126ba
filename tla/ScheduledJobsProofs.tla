------------------------- MODULE ScheduledJobsProofs -------------------------
(***************************************************************************)
(* Scheduled jobs, for any number of jobs, runs, dispatchers and requests: *)
(* a job marked running has somebody who will take the mark away, the      *)
(* portal's loop never has two runs of a job, and the run that started     *)
(* last stays in the history.                                              *)
(***************************************************************************)
EXTENDS ScheduledJobs, FiniteSetTheorems, TLAPS

Alive == {"queued", "found", "executing"}
Entry == [run : Runs, status : {"running", "ended"}]

\* A request that is going to ask for an approval knows its job.
Requests == {c \in EditInfo : c.op = "gate" => c.job \in Jobs}

\* Dispatchers and runs name jobs that were inserted once; a deleted row is
\* never inserted again.
Named ==
  /\ edit \in [Editors -> Requests]
  /\ \A d \in Dispatchers : \A j \in dispatch[d].todo : sjob[j] # None
  /\ \A d \in Dispatchers : dispatch[d].pc = "queue" =>
       dispatch[d].job \in Jobs /\ sjob[dispatch[d].job] # None
  /\ \A k \in Runs : run[k].pc # "unused" => run[k].job \in Jobs /\ sjob[run[k].job] # None

\* The dispatcher d has taken j off its list and not queued it yet.
Queueing(d, j) == dispatch[d].pc = "queue" /\ dispatch[d].job = j

\* What the portal's loop guarantees when nobody uses run_now: one dispatcher, a
\* job on its list has no run at work, and neither has the one it is about to
\* queue; whoever has a run at work is marked.
Guarded ==
  ~sjDeployment.celery /\ ~sjDeployment.manual =>
    /\ \A d \in Dispatchers : d # 1 => dispatch[d].pc = "idle" /\ dispatch[d].todo = {}
    /\ \A k, l \in Runs : run[k].pc \in Alive /\ run[l].pc \in Alive /\ run[k].job = run[l].job
                            => k = l
    /\ \A d \in Dispatchers, k \in Runs : run[k].pc \in Alive =>
         run[k].job \notin dispatch[d].todo /\ ~Queueing(d, run[k].job)
    /\ \A d \in Dispatchers : \A j \in dispatch[d].todo : ~Queueing(d, j)
    /\ \A k \in Runs : run[k].pc \in Alive /\ run[k].job \in Exists =>
         sjob[run[k].job].status = "running"
    /\ \A d \in Dispatchers, j \in Exists : Queueing(d, j) => sjob[j].status = "running"

\* The history of a job: its runs, closed when they are, the newest one last.
Recorded ==
  /\ \A j \in Jobs : \A n \in 1..Len(history[j]) :
       /\ run[history[j][n].run].job = j
       /\ run[history[j][n].run].pc \in {"executing", "done", "dead"}
       /\ history[j][n].status = "ended" <=> run[history[j][n].run].pc = "done"
  /\ \A j \in Jobs : newest[j] # None =>
       Len(history[j]) > 0 /\ history[j][Len(history[j])].run = newest[j]

SjInv == SjTypeOK /\ Named /\ RunningHasRun /\ Guarded /\ Recorded

-----------------------------------------------------------------------------
(***************************************************************************)
(* What requests and the clock do: rows come and go, but no request        *)
(* touches the mark, the dispatchers or the runs.                          *)
(***************************************************************************)
RowKept(j) ==
  \/ sjob'[j] = sjob[j]
  \/ sjob[j] = None /\ sjob'[j] \in ScheduledJob /\ sjob'[j].status = "none"
  \/ j \in Exists /\ sjob'[j] = Deleted
  \/ j \in Exists /\ sjob'[j] \in ScheduledJob /\ sjob'[j].status = sjob[j].status

Quiet ==
  /\ sjob' \in [Jobs -> ScheduledJob \cup {None, Deleted}]
  /\ \A j \in Jobs : RowKept(j)
  /\ UNCHANGED <<sjDeployment, sjRestarts, dispatch, run, lost, newest>>
  /\ \/ UNCHANGED <<history, limit>>
     \/ \E n \in HistoryLimits : limit' = n /\ history' = [j \in Jobs |-> Newest(history[j], n)]

\* A new job is not marked.
LEMMA NewRow ==
  ASSUME NEW kind \in Kinds, NEW active \in BOOLEAN, NEW parent \in Jobs \cup {None}
  PROVE  NewJob(kind, active, parent) \in ScheduledJob /\ NewJob(kind, active, parent).status = "none"
  BY DEF NewJob, ScheduledJob, NextRun

\* A change of the switch or of the time leaves the mark.
LEMMA SwitchedRow ==
  ASSUME NEW r \in ScheduledJob, NEW active \in BOOLEAN, NEW next \in {"none", "future", "due"}
  PROVE  /\ [r EXCEPT !.active = active, !.next = next] \in ScheduledJob
         /\ [r EXCEPT !.active = active, !.next = next].status = r.status
         /\ [r EXCEPT !.next = next] \in ScheduledJob
         /\ [r EXCEPT !.next = next].status = r.status
  BY DEF ScheduledJob

\* One row replaced.
LEMMA OneRow ==
  ASSUME SjTypeOK, NEW j \in Jobs, NEW row, sjob' = [sjob EXCEPT ![j] = row],
         \/ sjob[j] = None /\ row \in ScheduledJob /\ row.status = "none"
         \/ j \in Exists /\ row \in ScheduledJob /\ row.status = sjob[j].status
  PROVE  /\ sjob' \in [Jobs -> ScheduledJob \cup {None, Deleted}]
         /\ \A i \in Jobs : RowKept(i)
  BY DEF SjTypeOK, RowKept

\* A row that exists is a job.
LEMMA ExistingRow ==
  ASSUME SjTypeOK
  PROVE  \A j \in Exists : /\ j \in Jobs /\ sjob[j] \in ScheduledJob
                           /\ sjob[j].active \in BOOLEAN
  BY DEF SjTypeOK, Exists, ScheduledJob

\* The row update_job writes.
LEMMA UpdatedRow ==
  ASSUME SjTypeOK, NEW j \in Exists, NEW active \in {None, TRUE, FALSE}, NEW read \in BOOLEAN
  PROVE  Updated(j, active, read) \in ScheduledJob /\ Updated(j, active, read).status = sjob[j].status
<1>1. sjob[j] \in ScheduledJob
  BY ExistingRow
<1>2. CASE active = None
  BY <1>1, <1>2 DEF Updated, NextRun, ScheduledJob
<1>3. CASE active # None
  BY <1>1, <1>3 DEF Updated, NextRun, ScheduledJob
<1> QED BY <1>2, <1>3

\* A request's record.
LEMMA EditFields ==
  ASSUME SjTypeOK, NEW e \in Editors
  PROVE  edit[e].job \in Jobs \cup {None} /\ edit[e].active \in BOOLEAN /\ edit[e].todo \subseteq Jobs
  BY DEF SjTypeOK, EditInfo

\* A step of a request.
LEMMA EditQuiet == ASSUME SjTypeOK, NEW e \in Editors, EditStep(e) PROVE Quiet
<1> USE DEF sjRows, sjRuns, sjWorld
<1>0. SjTypeOK /\ sjob \in [Jobs -> ScheduledJob \cup {None, Deleted}]
  BY DEF SjTypeOK
<1>a. ASSUME UNCHANGED <<sjob, dispatch, sjRuns, sjDeployment, sjRestarts>> PROVE Quiet
  BY <1>0, <1>a DEF Quiet, RowKept
<1>b. ASSUME NEW j \in Jobs, NEW row, Set(j, row),
             UNCHANGED <<dispatch, sjRuns, sjDeployment, sjRestarts>>,
             \/ sjob[j] = None /\ row \in ScheduledJob /\ row.status = "none"
             \/ j \in Exists /\ row \in ScheduledJob /\ row.status = sjob[j].status
      PROVE  Quiet
  BY <1>0, <1>b, OneRow DEF Quiet, Set
<1>c. ASSUME NEW S \in SUBSET Jobs, DeleteSchedule(e, S) PROVE Quiet
  BY <1>0, <1>c DEF DeleteSchedule, Quiet, RowKept, Parents
<1>1. ASSUME NEW j \in Jobs, NEW kind \in Kinds, NEW active \in BOOLEAN,
             CreateJob(e, j, kind, active)
      PROVE  Quiet
  <2>1. NewJob(kind, active, None) \in ScheduledJob /\ NewJob(kind, active, None).status = "none"
    BY NewRow
  <2> QED BY <1>1, <1>b, <2>1 DEF CreateJob, Fresh
<1>2. ASSUME NEW j \in Jobs, NEW op \in {"update", "toggle"}, ReadJob(e, j, op) PROVE Quiet
  BY <1>2, <1>a DEF ReadJob
<1>3. ASSUME NEW j \in Jobs, CreateChild(e, j) PROVE Quiet
  <2> DEFINE row == NewJob("stop", edit[e].active, edit[e].job)
  <2>1. row \in ScheduledJob /\ row.status = "none"
    BY <1>0, NewRow, EditFields DEF Kinds
  <2> HIDE DEF row
  <2>2. Set(j, row) /\ sjob[j] = None /\ UNCHANGED <<dispatch, sjRuns, sjDeployment, sjRestarts>>
    BY <1>3 DEF CreateChild, Fresh, row
  <2> QED BY <1>b, <2>1, <2>2
<1>4. ASSUME NEW j \in Jobs, CreateGitJob(e, j) PROVE Quiet
  <2>1. NewJob("git", TRUE, None) \in ScheduledJob /\ NewJob("git", TRUE, None).status = "none"
    BY NewRow DEF Kinds
  <2> QED BY <1>4, <1>b, <2>1 DEF CreateGitJob, Fresh
<1>5. ASSUME NEW j \in Jobs, DeleteJob(e, j) PROVE Quiet
  BY <1>5, <1>c DEF DeleteJob
<1>6. ASSUME NEW needed \in BOOLEAN, GateJob(e, needed) PROVE Quiet
  BY <1>6, <1>a DEF GateJob
<1>7. ASSUME NEW active \in {None, TRUE, FALSE}, NEW withChild \in BOOLEAN,
             UpdateJob(e, active, withChild)
      PROVE  Quiet
  <2>1. CASE edit[e].job \in Exists
    <3> DEFINE row == Updated(edit[e].job, active, edit[e].active)
    <3>1. row \in ScheduledJob /\ row.status = sjob[edit[e].job].status
      BY <1>0, <2>1, UpdatedRow, EditFields
    <3>2. Set(edit[e].job, row) /\ UNCHANGED <<dispatch, sjRuns, sjDeployment, sjRestarts>>
      BY <1>7, <2>1 DEF UpdateJob, Set
    <3> HIDE DEF row
    <3> QED BY <1>b, <2>1, <3>1, <3>2 DEF Exists
  <2>2. CASE edit[e].job \notin Exists
    BY <1>7, <1>a, <2>2 DEF UpdateJob
  <2> QED BY <2>1, <2>2
<1>8. ASSUME ToggleJob(e) PROVE Quiet
  <2> DEFINE active == ~edit[e].active
             Row(i) == [sjob[i] EXCEPT !.active = active, !.next = NextRun(active)]
  <2>1. \A i \in Exists : Row(i) \in ScheduledJob /\ Row(i).status = sjob[i].status
    <3>1. active \in BOOLEAN /\ NextRun(active) \in {"none", "future", "due"}
      BY EditFields DEF NextRun
    <3> HIDE DEF active
    <3> QED BY <3>1, SwitchedRow, ExistingRow
  <2>2. \A i \in Jobs : sjob'[i] = sjob[i] \/ (i \in Exists /\ sjob'[i] = Row(i))
    BY <1>8 DEF ToggleJob
  <2>3. DOMAIN sjob' = Jobs /\ sjob' = [i \in Jobs |-> sjob'[i]]
    BY <1>8 DEF ToggleJob
  <2>4. UNCHANGED <<dispatch, sjRuns, sjDeployment, sjRestarts>>
    BY <1>8 DEF ToggleJob
  <2> HIDE DEF Row, active
  <2> QED BY <1>0, <2>1, <2>2, <2>3, <2>4 DEF Quiet, RowKept
<1>9. ASSUME NEW S \in SUBSET Jobs, UserDeleted(e, S) PROVE Quiet
  BY <1>9, <1>c DEF UserDeleted
<1>10. ASSUME NEW S \in SUBSET Jobs, NodeDeleted(e, S) PROVE Quiet
  BY <1>10, <1>c DEF NodeDeleted
<1>11. ASSUME NEW S \in SUBSET Jobs, ApprovalRows(e, S) PROVE Quiet
  BY <1>11, <1>a DEF ApprovalRows
<1>12. ASSUME PlaybookDeleted(e) PROVE Quiet
  BY <1>12, <1>a DEF PlaybookDeleted
<1>13. ASSUME DeactivateJobs(e) PROVE Quiet
  <2> DEFINE Row(i) == [sjob[i] EXCEPT !.active = FALSE, !.next = "none"]
  <2>1. \A i \in Exists : Row(i) \in ScheduledJob /\ Row(i).status = sjob[i].status
    BY SwitchedRow, ExistingRow
  <2>2. \A i \in Jobs : sjob'[i] = sjob[i] \/ (i \in Exists /\ sjob'[i] = Row(i))
    BY <1>13 DEF DeactivateJobs
  <2>3. DOMAIN sjob' = Jobs /\ sjob' = [i \in Jobs |-> sjob'[i]]
    BY <1>13 DEF DeactivateJobs
  <2>4. UNCHANGED <<dispatch, sjRuns, sjDeployment, sjRestarts>>
    BY <1>13 DEF DeactivateJobs
  <2> HIDE DEF Row
  <2> QED BY <1>0, <2>1, <2>2, <2>3, <2>4 DEF Quiet, RowKept
<1>14. ASSUME NEW n \in HistoryLimits, SetHistoryLimit(e, n) PROVE Quiet
  BY <1>0, <1>14 DEF SetHistoryLimit, Quiet, RowKept
<1>15. ASSUME NEW on \in BOOLEAN, SaveInterval(e, on) PROVE Quiet
  BY <1>15, <1>a DEF SaveInterval
<1>16. ASSUME FindGitJob(e) PROVE Quiet
  BY <1>16, <1>a DEF FindGitJob
<1>17. ASSUME UpdateGitJob(e) PROVE Quiet
  <2>1. CASE edit[e].job \in Exists
    <3> DEFINE row == Updated(edit[e].job, edit[e].active, FALSE)
    <3>1. row \in ScheduledJob /\ row.status = sjob[edit[e].job].status
      BY <1>0, <2>1, UpdatedRow, EditFields
    <3>2. Set(edit[e].job, row) /\ UNCHANGED <<dispatch, sjRuns, sjDeployment, sjRestarts>>
      BY <1>17, <2>1 DEF UpdateGitJob, Set
    <3> HIDE DEF row
    <3> QED BY <1>b, <2>1, <3>1, <3>2 DEF Exists
  <2>2. CASE edit[e].job \notin Exists
    BY <1>17, <1>a, <2>2 DEF UpdateGitJob
  <2> QED BY <2>1, <2>2
<1> QED
  BY <1>1, <1>2, <1>3, <1>4, <1>5, <1>6, <1>7, <1>8, <1>9, <1>10, <1>11, <1>12, <1>13, <1>14,
     <1>15, <1>16, <1>17
     DEF EditStep

\* The clock.
LEMMA TimeQuiet == ASSUME SjTypeOK, NEW j \in Jobs, TimePasses(j) PROVE Quiet
<1> DEFINE row == [sjob[j] EXCEPT !.next = "due"]
<1>1. j \in Exists /\ row \in ScheduledJob /\ row.status = sjob[j].status
  BY SwitchedRow, ExistingRow DEF TimePasses
<1>2. sjob' = [sjob EXCEPT ![j] = row]
  BY DEF TimePasses, Set
<1>3. UNCHANGED <<sjDeployment, sjRestarts, dispatch, run, lost, newest, history, limit>>
  BY DEF TimePasses, sjRuns, sjWorld
<1> HIDE DEF row
<1> QED BY <1>1, <1>2, <1>3, OneRow DEF Quiet

-----------------------------------------------------------------------------
(***************************************************************************)
(* The sequences of runs.                                                  *)
(***************************************************************************)
\* Closing a run's entries changes their status and nothing else.
LEMMA EndedEntries ==
  ASSUME NEW s \in Seq(Entry), NEW k \in Runs
  PROVE  /\ Ended(s, k) \in Seq(Entry) /\ Len(Ended(s, k)) = Len(s)
         /\ \A n \in 1..Len(s) :
              /\ Ended(s, k)[n].run = s[n].run
              /\ Ended(s, k)[n].status = IF s[n].run = k THEN "ended" ELSE s[n].status
<1>1. DOMAIN s = 1..Len(s) /\ Len(s) \in Nat
  OBVIOUS
<1>2. \A n \in 1..Len(s) : s[n] \in Entry
  OBVIOUS
<1> DEFINE f(n) == IF s[n].run = k THEN [s[n] EXCEPT !.status = "ended"] ELSE s[n]
<1>3. \A n \in 1..Len(s) : /\ f(n) \in Entry /\ f(n).run = s[n].run
                           /\ f(n).status = IF s[n].run = k THEN "ended" ELSE s[n].status
  BY <1>2 DEF Entry
<1>4. Ended(s, k) = [n \in 1..Len(s) |-> f(n)]
  BY <1>1 DEF Ended
<1> HIDE DEF f
<1>5. Ended(s, k) \in Seq(Entry) /\ Len(Ended(s, k)) = Len(s)
  BY <1>1, <1>3, <1>4
<1> QED BY <1>3, <1>4, <1>5

\* The entries of a suffix.
LEMMA SubSeqAt ==
  ASSUME NEW s \in Seq(Entry), NEW a \in 1..Len(s), NEW m \in 1..(Len(s) - a + 1)
  PROVE  SubSeq(s, a, Len(s))[m] = s[a + m - 1]
<1>1. Len(s) \in Nat
  OBVIOUS
<1>2. SubSeq(s, a, Len(s)) = [i \in 1..(1 + Len(s) - a) |-> s[i + a - 1]]
  BY <1>1
<1> QED BY <1>1, <1>2

\* Pruning keeps a suffix, the last entry included.
LEMMA NewestEntries ==
  ASSUME NEW s \in Seq(Entry), NEW n \in Nat \ {0}
  PROVE  /\ Newest(s, n) \in Seq(Entry)
         /\ \A m \in 1..Len(Newest(s, n)) : \E q \in 1..Len(s) : Newest(s, n)[m] = s[q]
         /\ Len(s) > 0 => /\ Len(Newest(s, n)) > 0
                          /\ Newest(s, n)[Len(Newest(s, n))] = s[Len(s)]
<1>1. CASE Len(s) > n
  <2> DEFINE u == SubSeq(s, Len(s) - n + 1, Len(s))
  <2>1. Newest(s, n) = u
    BY <1>1 DEF Newest
  <2>2. Len(s) \in Nat /\ Len(s) - n + 1 \in 1..Len(s)
    BY <1>1
  <2>3. u \in Seq(Entry) /\ Len(u) = n
    BY <1>1, <2>2
  <2>4. \A m \in 1..n : u[m] = s[Len(s) - n + m] /\ Len(s) - n + m \in 1..Len(s)
    <3> SUFFICES ASSUME NEW m \in 1..n
                 PROVE  u[m] = s[Len(s) - n + m] /\ Len(s) - n + m \in 1..Len(s)
      OBVIOUS
    <3>1. u[m] = s[(Len(s) - n + 1) + m - 1]
      BY <2>2, SubSeqAt
    <3>2. (Len(s) - n + 1) + m - 1 = Len(s) - n + m /\ Len(s) - n + m \in 1..Len(s)
      BY <1>1, <2>2
    <3> HIDE DEF u
    <3> QED BY <3>1, <3>2
  <2>5. n \in 1..n /\ Len(s) - n + n = Len(s) /\ n > 0
    BY <2>2
  <2> HIDE DEF u
  <2>6. \A m \in 1..Len(u) : \E q \in 1..Len(s) : u[m] = s[q]
    BY <2>3, <2>4
  <2>7. Len(u) > 0 /\ u[Len(u)] = s[Len(s)]
    BY <2>3, <2>4, <2>5
  <2> QED BY <2>1, <2>3, <2>6, <2>7
<1>2. CASE ~(Len(s) > n)
  BY <1>2 DEF Newest
<1> QED BY <1>1, <1>2

\* Adding a run.
LEMMA AddedEntry ==
  ASSUME NEW s \in Seq(Entry), NEW x \in Entry
  PROVE  /\ Append(s, x) \in Seq(Entry) /\ Len(Append(s, x)) = Len(s) + 1
         /\ Append(s, x)[Len(s) + 1] = x
         /\ \A n \in 1..Len(s) : Append(s, x)[n] = s[n]
  OBVIOUS
-----------------------------------------------------------------------------
(***************************************************************************)
(* Types.                                                                  *)
(***************************************************************************)
EditOps == {"idle", "child", "update", "toggle", "deactivate", "git", "newgit", "oldgit"}

\* The records requests carry.
LEMMA EditRecords ==
  /\ NoEdit \in Requests
  /\ \A op \in EditOps, j \in Jobs \cup {None}, a \in BOOLEAN :
       [NoEdit EXCEPT !.op = op, !.job = j, !.active = a] \in Requests
  /\ \A op \in EditOps, S \in SUBSET Jobs : [NoEdit EXCEPT !.op = op, !.todo = S] \in Requests
  /\ \A op \in EditOps, a \in BOOLEAN : [NoEdit EXCEPT !.op = op, !.active = a] \in Requests
  /\ \A c \in Requests, op \in EditOps : [c EXCEPT !.op = op] \in Requests
  /\ \A c \in Requests, op \in EditOps, j \in Jobs : [c EXCEPT !.op = op, !.job = j] \in Requests
  /\ \A j \in Jobs, a \in BOOLEAN :
       [NoEdit EXCEPT !.op = "gate", !.job = j, !.active = a] \in Requests
<1> USE DEF EditInfo, Requests, NoEdit, EditOps
<1>1. NoEdit \in Requests
  OBVIOUS
<1>2. \A op \in EditOps, j \in Jobs \cup {None}, a \in BOOLEAN :
       [NoEdit EXCEPT !.op = op, !.job = j, !.active = a] \in Requests
  OBVIOUS
<1>3. \A op \in EditOps, S \in SUBSET Jobs : [NoEdit EXCEPT !.op = op, !.todo = S] \in Requests
  OBVIOUS
<1>4. \A op \in EditOps, a \in BOOLEAN : [NoEdit EXCEPT !.op = op, !.active = a] \in Requests
  OBVIOUS
<1>5. \A c \in Requests, op \in EditOps : [c EXCEPT !.op = op] \in Requests
  OBVIOUS
<1>6. \A c \in Requests, op \in EditOps, j \in Jobs : [c EXCEPT !.op = op, !.job = j] \in Requests
  OBVIOUS
<1>7. \A j \in Jobs, a \in BOOLEAN :
       [NoEdit EXCEPT !.op = "gate", !.job = j, !.active = a] \in Requests
  OBVIOUS
<1> HIDE DEF EditInfo, Requests, NoEdit, EditOps
<1> QED BY <1>1, <1>2, <1>3, <1>4, <1>5, <1>6, <1>7

\* Requests and what they count keep their types.
LEMMA StepEdit ==
  ASSUME SjInv, SjNext
  PROVE  /\ edit' \in [Editors -> Requests] /\ edits' \in 0..sjDeployment'.edits
         /\ gated' \subseteq Jobs /\ interval' \in BOOLEAN
         /\ sjDeployment' = sjDeployment /\ sjRestarts' \in 0..sjDeployment'.restarts
<1> DEFINE Goal == /\ edit' \in [Editors -> Requests] /\ edits' \in 0..sjDeployment.edits
                   /\ gated' \subseteq Jobs /\ interval' \in BOOLEAN
                   /\ sjDeployment' = sjDeployment /\ sjRestarts' \in 0..sjDeployment.restarts
<1>0. /\ SjTypeOK /\ edit \in [Editors -> Requests] /\ edits \in 0..sjDeployment.edits
      /\ gated \subseteq Jobs /\ interval \in BOOLEAN /\ sjRestarts \in 0..sjDeployment.restarts
      /\ sjDeployment.edits \in Nat /\ sjDeployment.restarts \in Nat
  BY JobsAssumption DEF SjInv, SjTypeOK, Named
<1>1. Exists \subseteq Jobs
  BY DEF Exists
<1> DEFINE Rest == /\ gated' \subseteq Jobs /\ interval' \in BOOLEAN
                   /\ UNCHANGED <<sjDeployment, sjRestarts>>
<1>a. ASSUME NEW e \in Editors, NEW c \in Requests, BeginEdit(e, c), Rest PROVE Goal
  BY <1>0, <1>a DEF BeginEdit
<1>b. ASSUME NEW e \in Editors, NEW c \in Requests, GoOn(e, c), edits' = edits, Rest PROVE Goal
  BY <1>0, <1>b DEF GoOn
<1>c. ASSUME NEW e \in Editors, EndEdit(e), edits' = edits, Rest PROVE Goal
  BY <1>b, <1>c, EditRecords DEF EndEdit
<1>d. ASSUME UNCHANGED <<edit, edits>>, Rest PROVE Goal
  BY <1>0, <1>d
<1>2. ASSUME NEW e \in Editors, EditStep(e) PROVE Goal
  <2> USE DEF sjRows, sjWorld
  <2>e. Requests # {} /\ edit[e] \in Requests /\ NoEdit \in Requests
    BY <1>0, EditRecords
  <2>f. edit[e].job \in Jobs \cup {None} /\ edit[e].active \in BOOLEAN
    BY <1>0, EditFields
  <2>g. ASSUME NEW S \in SUBSET Jobs, DeleteSchedule(e, S) PROVE Goal
    BY <1>0, <1>a, <2>e, <2>g DEF DeleteSchedule
  <2>1. ASSUME NEW j \in Jobs, NEW kind \in Kinds, NEW active \in BOOLEAN,
               CreateJob(e, j, kind, active)
        PROVE  Goal
    <3> DEFINE op == CASE kind = "window" -> "child" [] kind = "playbook" -> "gate"
                       [] OTHER -> "idle"
               jj == IF kind = "power" THEN None ELSE j
               aa == kind = "window" /\ active
    <3>1. /\ jj \in Jobs \cup {None} /\ aa \in BOOLEAN
          /\ op \in EditOps \/ (op = "gate" /\ jj \in Jobs)
      BY DEF EditOps
    <3>2. BeginEdit(e, [NoEdit EXCEPT !.op = op, !.job = jj, !.active = aa]) /\ Rest
      BY <1>0, <2>1 DEF CreateJob
    <3> HIDE DEF op, jj, aa, Goal, Rest
    <3>3. [NoEdit EXCEPT !.op = op, !.job = jj, !.active = aa] \in Requests
      BY <3>1, EditRecords
    <3> QED BY <1>a, <3>2, <3>3
  <2>2. ASSUME NEW j \in Jobs, NEW op \in {"update", "toggle"}, ReadJob(e, j, op) PROVE Goal
    <3>1. sjob[j].active \in BOOLEAN /\ op \in EditOps
      BY <1>0, <2>2, ExistingRow DEF ReadJob, EditOps
    <3>2. [NoEdit EXCEPT !.op = op, !.job = j, !.active = sjob[j].active] \in Requests
      BY <3>1, EditRecords
    <3>3. BeginEdit(e, [NoEdit EXCEPT !.op = op, !.job = j, !.active = sjob[j].active]) /\ Rest
      BY <1>0, <2>2 DEF ReadJob
    <3> HIDE DEF Goal, Rest
    <3> QED BY <1>a, <3>2, <3>3
  <2>3. ASSUME NEW j \in Jobs, CreateChild(e, j) PROVE Goal
    BY <1>0, <1>c, <2>3 DEF CreateChild
  <2>4. ASSUME NEW j \in Jobs, CreateGitJob(e, j) PROVE Goal
    BY <1>0, <1>c, <2>4 DEF CreateGitJob
  <2>5. ASSUME NEW j \in Jobs, DeleteJob(e, j) PROVE Goal
    BY <2>5, <2>g DEF DeleteJob
  <2>6. ASSUME NEW needed \in BOOLEAN, GateJob(e, needed) PROVE Goal
    <3>1. edit[e].job \in Jobs
      BY <2>e, <2>6 DEF GateJob, Requests
    <3> QED BY <1>0, <1>c, <2>6, <3>1 DEF GateJob
  <2>7. ASSUME NEW active \in {None, TRUE, FALSE}, NEW withChild \in BOOLEAN,
               UpdateJob(e, active, withChild)
        PROVE  Goal
    <3>1. Rest /\ edits' = edits
      BY <1>0, <2>7 DEF UpdateJob
    <3>2. \/ EndEdit(e)
          \/ \E c \in Exists :
               GoOn(e, [NoEdit EXCEPT !.op = "update", !.job = c, !.active = sjob[c].active])
      BY <2>7 DEF UpdateJob, ChildrenOf
    <3>3. ASSUME NEW c \in Exists,
                 GoOn(e, [NoEdit EXCEPT !.op = "update", !.job = c, !.active = sjob[c].active])
          PROVE  Goal
      <4>1. sjob[c].active \in BOOLEAN /\ c \in Jobs /\ "update" \in EditOps
        BY <1>0, ExistingRow DEF EditOps
      <4>2. [NoEdit EXCEPT !.op = "update", !.job = c, !.active = sjob[c].active] \in Requests
        BY <4>1, EditRecords
      <4> HIDE DEF Goal, Rest
      <4> QED BY <1>b, <3>1, <3>3, <4>2
    <3> HIDE DEF Goal, Rest
    <3> QED BY <1>c, <3>1, <3>2, <3>3
  <2>8. ASSUME ToggleJob(e) PROVE Goal
    BY <1>0, <1>c, <2>8 DEF ToggleJob
  <2>9. ASSUME NEW S \in SUBSET Jobs, UserDeleted(e, S) PROVE Goal
    BY <2>9, <2>g DEF UserDeleted
  <2>10. ASSUME NEW S \in SUBSET Jobs, NodeDeleted(e, S) PROVE Goal
    BY <2>10, <2>g DEF NodeDeleted
  <2>11. ASSUME NEW S \in SUBSET Jobs, ApprovalRows(e, S) PROVE Goal
    BY <1>0, <1>a, <2>e, <2>11 DEF ApprovalRows
  <2>12. ASSUME PlaybookDeleted(e) PROVE Goal
    <3> DEFINE S == {j \in Exists : sjob[j].kind = "playbook" /\ sjob[j].active}
    <3>1. BeginEdit(e, [NoEdit EXCEPT !.op = "deactivate", !.todo = S]) /\ Rest
      BY <1>0, <2>12 DEF PlaybookDeleted
    <3>2. S \in SUBSET Jobs /\ "deactivate" \in EditOps
      BY <1>1 DEF EditOps
    <3> HIDE DEF S, Goal, Rest
    <3> QED BY <1>a, <3>1, <3>2, EditRecords
  <2>13. ASSUME DeactivateJobs(e) PROVE Goal
    BY <1>0, <1>c, <2>13 DEF DeactivateJobs
  <2>14. ASSUME NEW n \in HistoryLimits, SetHistoryLimit(e, n) PROVE Goal
    BY <1>0, <1>a, <2>e, <2>14 DEF SetHistoryLimit
  <2>15. ASSUME NEW on \in BOOLEAN, SaveInterval(e, on) PROVE Goal
    <3>1. BeginEdit(e, [NoEdit EXCEPT !.op = "git", !.active = on]) /\ Rest
      BY <1>0, <2>15 DEF SaveInterval
    <3>2. [NoEdit EXCEPT !.op = "git", !.active = on] \in Requests
      BY EditRecords DEF EditOps
    <3> HIDE DEF Goal, Rest
    <3> QED BY <1>a, <3>1, <3>2
  <2>16. ASSUME FindGitJob(e) PROVE Goal
    <3>1. Rest /\ edits' = edits
      BY <1>0, <2>16 DEF FindGitJob
    <3>2. \/ EndEdit(e) \/ GoOn(e, [edit[e] EXCEPT !.op = "newgit"])
          \/ \E j \in GitJobs : GoOn(e, [edit[e] EXCEPT !.op = "oldgit", !.job = j])
      BY <2>16 DEF FindGitJob
    <3>3. /\ [edit[e] EXCEPT !.op = "newgit"] \in Requests
          /\ \A j \in GitJobs : [edit[e] EXCEPT !.op = "oldgit", !.job = j] \in Requests
      BY <1>1, <2>e, EditRecords DEF EditOps, GitJobs
    <3> HIDE DEF Goal, Rest
    <3> QED BY <1>b, <1>c, <3>1, <3>2, <3>3
  <2>17. ASSUME UpdateGitJob(e) PROVE Goal
    BY <1>0, <1>c, <2>17 DEF UpdateGitJob
  <2> HIDE DEF Goal
  <2> QED
    BY <1>2, <2>1, <2>2, <2>3, <2>4, <2>5, <2>6, <2>7, <2>8, <2>9, <2>10, <2>11, <2>12, <2>13,
       <2>14, <2>15, <2>16, <2>17
       DEF EditStep
<1> USE DEF sjRows, sjWorld
<1>3. ASSUME NEW j \in Jobs, TimePasses(j) \/ RunNow(j) PROVE Goal
  BY <1>0, <1>d, <1>3 DEF TimePasses, RunNow
<1>4. ASSUME NEW d \in Dispatchers, DispatchStep(d) PROVE Goal
  BY <1>0, <1>d, <1>4 DEF DispatchStep, GetDueJobs, FilterBlocked, AdvanceNextRun, StartRun,
     BrokerFails
<1>5. ASSUME NEW k \in Runs, RunStep(k) PROVE Goal
  BY <1>0, <1>d, <1>5 DEF RunStep, FindJob, CreateRun, FinishRun
<1>6. ASSUME JobsRestart PROVE Goal
  <2>1. sjRestarts' \in 0..sjDeployment.restarts
    BY <1>0, <1>6 DEF JobsRestart
  <2>2. edit' \in [Editors -> Requests]
    BY <1>0, <1>6, EditRecords DEF JobsRestart
  <2> QED BY <1>0, <1>6, <2>1, <2>2 DEF JobsRestart
<1> HIDE DEF Goal
<1>7. Goal
  BY <1>2, <1>3, <1>4, <1>5, <1>6 DEF SjNext
<1> QED BY <1>7 DEF Goal

\* A row that was inserted stays a row or becomes a deleted one, and its mark is
\* set by a dispatcher and removed by the end of a run.
LEMMA StepMarks ==
  ASSUME SjInv, SjNext
  PROVE  /\ sjob' \in [Jobs -> ScheduledJob \cup {None, Deleted}]
         /\ \A j \in Jobs :
              /\ sjob[j] # None => sjob'[j] # None
              /\ j \in Exists' =>
                   \/ sjob[j] = None /\ sjob'[j].status = "none"
                   \/ j \in Exists /\ sjob'[j].status = sjob[j].status
                   \/ /\ j \in Exists /\ sjob'[j].status = "running"
                      /\ \E d \in Dispatchers : AdvanceNextRun(d, j)
                   \/ /\ j \in Exists /\ sjob'[j].status = "ended"
                      /\ \E k \in Runs : FinishRun(k) /\ run[k].job = j
<1> DEFINE Mark(j) == /\ sjob[j] # None => sjob'[j] # None
                      /\ j \in Exists' =>
                           \/ sjob[j] = None /\ sjob'[j].status = "none"
                           \/ j \in Exists /\ sjob'[j].status = sjob[j].status
                           \/ /\ j \in Exists /\ sjob'[j].status = "running"
                              /\ \E d \in Dispatchers : AdvanceNextRun(d, j)
                           \/ /\ j \in Exists /\ sjob'[j].status = "ended"
                              /\ \E k \in Runs : FinishRun(k) /\ run[k].job = j
           Goal == /\ sjob' \in [Jobs -> ScheduledJob \cup {None, Deleted}]
                   /\ \A j \in Jobs : Mark(j)
<1>0. SjTypeOK /\ SjNext /\ sjob \in [Jobs -> ScheduledJob \cup {None, Deleted}]
  BY DEF SjInv, SjTypeOK
<1>1. ASSUME Quiet PROVE Goal
  <2>1. \A j \in Jobs : RowKept(j) => Mark(j)
    BY RowAssumption DEF RowKept, Exists
  <2> QED BY <1>1, <2>1 DEF Quiet
<1>2. ASSUME sjob' = sjob PROVE Goal
  BY <1>0, <1>2 DEF Exists
<1>3. ASSUME NEW d \in Dispatchers, NEW j \in Jobs, AdvanceNextRun(d, j) PROVE Goal
  <2>1. CASE j \in Exists
    <3> DEFINE row == [sjob[j] EXCEPT !.next = "future", !.status = "running"]
    <3>0. sjob[j] \in ScheduledJob
      BY <1>0, <2>1, ExistingRow
    <3>1. row \in ScheduledJob /\ row.status = "running" /\ row # None
      <4>1. row \in ScheduledJob /\ row.status = "running"
        BY <3>0 DEF ScheduledJob
      <4> QED BY <4>1, RowAssumption
    <3>2. sjob' = [sjob EXCEPT ![j] = row]
      BY <1>0, <1>3, <2>1 DEF AdvanceNextRun
    <3> HIDE DEF row
    <3>3. sjob'[j] = row /\ \A i \in Jobs \ {j} : sjob'[i] = sjob[i]
      BY <1>0, <3>2
    <3>4. sjob' \in [Jobs -> ScheduledJob \cup {None, Deleted}]
      BY <1>0, <3>1, <3>2
    <3>5. Mark(j)
      BY <1>3, <2>1, <3>1, <3>3
    <3>6. \A i \in Jobs \ {j} : Mark(i)
      BY <3>3 DEF Exists
    <3> QED BY <3>4, <3>5, <3>6
  <2>2. CASE j \notin Exists
    BY <1>2, <1>3, <2>2 DEF AdvanceNextRun
  <2> QED BY <2>1, <2>2
<1>4. ASSUME NEW k \in Runs, FinishRun(k) PROVE Goal
  <2> DEFINE j == run[k].job
  <2>1. CASE j \in Exists
    <3> DEFINE row == [sjob[j] EXCEPT !.status = "ended"]
    <3>1. j \in Jobs /\ row \in ScheduledJob /\ row.status = "ended" /\ row # None
      BY <1>0, <2>1, ExistingRow, RowAssumption DEF ScheduledJob
    <3>2. sjob' = [sjob EXCEPT ![j] = row]
      BY <1>0, <1>4, <2>1 DEF FinishRun
    <3> HIDE DEF row
    <3>3. sjob'[j] = row /\ \A i \in Jobs \ {j} : sjob'[i] = sjob[i]
      BY <1>0, <3>1, <3>2
    <3>4. sjob' \in [Jobs -> ScheduledJob \cup {None, Deleted}]
      BY <1>0, <3>1, <3>2
    <3>5. Mark(j)
      BY <1>4, <2>1, <3>1, <3>3
    <3>6. \A i \in Jobs \ {j} : Mark(i)
      BY <3>3 DEF Exists
    <3> QED BY <3>4, <3>5, <3>6
  <2>2. CASE j \notin Exists
    BY <1>2, <1>4, <2>2 DEF FinishRun
  <2> QED BY <2>1, <2>2
<1> USE DEF sjRows
<1> HIDE DEF Goal
<1>5. ASSUME NEW d \in Dispatchers, DispatchStep(d) PROVE Goal
  BY <1>2, <1>3, <1>5 DEF DispatchStep, GetDueJobs, FilterBlocked, StartRun, BrokerFails
<1>6. ASSUME NEW k \in Runs, RunStep(k) PROVE Goal
  BY <1>2, <1>4, <1>6 DEF RunStep, FindJob, CreateRun
<1>7. Goal
  BY <1>0, <1>1, <1>2, <1>5, <1>6, EditQuiet, TimeQuiet DEF SjNext, RunNow, JobsRestart
<1> QED BY <1>7 DEF Goal
-----------------------------------------------------------------------------
(***************************************************************************)
(* Dispatchers and runs, step by step.                                     *)
(***************************************************************************)
\* The run k of job j is queued; until then it was unused.
Queued(k, j) ==
  /\ run[k] = NoRun
  /\ run' = [run EXCEPT ![k] = [pc |-> "queued", job |-> j]]

\* Every step, sorted by what it does to dispatchers and runs.
LEMMA StepKinds ==
  ASSUME SjInv, SjNext
  PROVE  \/ Quiet
         \/ \E j \in Jobs : RunNow(j) /\ \E k \in Runs : Queued(k, j)
         \/ \E d \in Dispatchers :
              \/ GetDueJobs(d)
              \/ \E failed \in BOOLEAN : FilterBlocked(d, failed)
              \/ \E j \in Jobs : AdvanceNextRun(d, j)
              \/ StartRun(d) /\ \E k \in Runs : Queued(k, dispatch[d].job)
              \/ BrokerFails(d)
         \/ \E k \in Runs : FindJob(k) \/ CreateRun(k) \/ FinishRun(k)
         \/ JobsRestart
<1>1. ASSUME NEW e \in Editors, EditStep(e) PROVE Quiet
  BY <1>1, EditQuiet DEF SjInv
<1>2. ASSUME NEW j \in Jobs, TimePasses(j) PROVE Quiet
  BY <1>2, TimeQuiet DEF SjInv
<1>3. ASSUME NEW j, QueueRun(j) PROVE \E k \in Runs : Queued(k, j)
  BY <1>3 DEF QueueRun, Queued
<1>4. ASSUME NEW d \in Dispatchers, StartRun(d) PROVE \E k \in Runs : Queued(k, dispatch[d].job)
  BY <1>3, <1>4 DEF StartRun
<1>5. ASSUME NEW j \in Jobs, RunNow(j) PROVE \E k \in Runs : Queued(k, j)
  BY <1>3, <1>5 DEF RunNow
<1> QED BY <1>1, <1>2, <1>4, <1>5 DEF SjNext, DispatchStep, RunStep

\* The fields of a dispatcher.
LEMMA DispatchTypes ==
  /\ NoDispatch \in DispatchInfo
  /\ NoDispatch.pc = "idle" /\ NoDispatch.todo = {} /\ NoDispatch.job = None
  /\ \A S \in SUBSET Jobs : LET c == [NoDispatch EXCEPT !.pc = "filter", !.todo = S]
                            IN c \in DispatchInfo /\ c.pc = "filter" /\ c.todo = S
  /\ \A c \in DispatchInfo, S \in SUBSET Jobs :
       LET x == [c EXCEPT !.pc = "loop", !.todo = S]
       IN x \in DispatchInfo /\ x.pc = "loop" /\ x.todo = S
  /\ \A c \in DispatchInfo : LET x == [c EXCEPT !.pc = "loop", !.job = None]
                             IN x \in DispatchInfo /\ x.pc = "loop" /\ x.todo = c.todo
  /\ \A c \in DispatchInfo, j \in Jobs, S \in SUBSET Jobs :
       LET x == [c EXCEPT !.pc = "queue", !.job = j, !.todo = S]
       IN x \in DispatchInfo /\ x.pc = "queue" /\ x.todo = S /\ x.job = j
  BY DEF DispatchInfo, NoDispatch

\* What a step of a dispatcher makes of its record.
LEMMA DispatchMoves ==
  ASSUME SjTypeOK, NEW d \in Dispatchers
  PROVE  /\ GetDueJobs(d) => dispatch'[d].pc = "filter" /\ dispatch'[d].todo = Due
         /\ \A failed \in BOOLEAN : FilterBlocked(d, failed) =>
              dispatch'[d].pc \in {"idle", "loop"} /\ dispatch'[d].todo \subseteq dispatch[d].todo
         /\ \A j \in Jobs : AdvanceNextRun(d, j) =>
              /\ j \in dispatch[d].todo /\ dispatch'[d].todo = dispatch[d].todo \ {j}
              /\ dispatch'[d].pc = "queue" /\ dispatch'[d].job = j
         /\ StartRun(d) =>
              dispatch'[d].pc \in {"idle", "loop"} /\ dispatch'[d].todo \subseteq dispatch[d].todo
         /\ BrokerFails(d) => dispatch'[d].pc = "idle" /\ dispatch'[d].todo = {}
         /\ \/ GetDueJobs(d) \/ \E failed \in BOOLEAN : FilterBlocked(d, failed)
            \/ \E j \in Jobs : AdvanceNextRun(d, j)
            \/ StartRun(d) \/ BrokerFails(d)
            => /\ dispatch' \in [Dispatchers -> DispatchInfo]
               /\ \A c \in Dispatchers \ {d} : dispatch'[c] = dispatch[c]
<1>0. /\ dispatch \in [Dispatchers -> DispatchInfo] /\ dispatch[d] \in DispatchInfo
      /\ dispatch[d].todo \in SUBSET Jobs /\ Due \in SUBSET Jobs
  BY DEF SjTypeOK, DispatchInfo, Due, Exists
<1> DEFINE Moved == /\ dispatch' \in [Dispatchers -> DispatchInfo]
                    /\ \A c \in Dispatchers \ {d} : dispatch'[c] = dispatch[c]
<1>a. ASSUME NEW c \in DispatchInfo, dispatch' = [dispatch EXCEPT ![d] = c]
      PROVE  Moved /\ dispatch'[d] = c
  BY <1>0, <1>a
<1> HIDE DEF Moved
<1>1. ASSUME GetDueJobs(d) PROVE Moved /\ dispatch'[d].pc = "filter" /\ dispatch'[d].todo = Due
  <2> DEFINE c == [NoDispatch EXCEPT !.pc = "filter", !.todo = Due]
  <2>1. c \in DispatchInfo /\ c.pc = "filter" /\ c.todo = Due
    BY <1>0, DispatchTypes
  <2>2. dispatch' = [dispatch EXCEPT ![d] = c]
    BY <1>1 DEF GetDueJobs
  <2> HIDE DEF c
  <2> QED BY <1>a, <2>1, <2>2
<1>2. ASSUME NEW failed \in BOOLEAN, FilterBlocked(d, failed)
      PROVE  /\ Moved /\ dispatch'[d].pc \in {"idle", "loop"}
             /\ dispatch'[d].todo \subseteq dispatch[d].todo
  <2> DEFINE S == IF failed THEN dispatch[d].todo ELSE dispatch[d].todo \ gated
             x == [dispatch[d] EXCEPT !.pc = "loop", !.todo = S]
             c == IF S = {} THEN NoDispatch ELSE x
  <2>1. S \in SUBSET Jobs /\ S \subseteq dispatch[d].todo
    BY <1>0
  <2>2. dispatch' = [dispatch EXCEPT ![d] = c]
    BY <1>0, <1>2 DEF FilterBlocked
  <2> HIDE DEF S
  <2>3. x \in DispatchInfo /\ x.pc = "loop" /\ x.todo = S
    BY <1>0, <2>1, DispatchTypes
  <2> HIDE DEF x
  <2>4. c \in DispatchInfo /\ c.pc \in {"idle", "loop"} /\ c.todo \subseteq dispatch[d].todo
    BY <2>1, <2>3, DispatchTypes
  <2> HIDE DEF c
  <2> QED BY <1>a, <2>2, <2>4
<1>3. ASSUME NEW j \in Jobs, AdvanceNextRun(d, j)
      PROVE  /\ Moved /\ j \in dispatch[d].todo /\ dispatch'[d].todo = dispatch[d].todo \ {j}
             /\ dispatch'[d].pc = "queue" /\ dispatch'[d].job = j
  <2>1. j \in dispatch[d].todo
    BY <1>3 DEF AdvanceNextRun
  <2>2. \A c \in Dispatchers \ {d} : dispatch'[c] = dispatch[c]
    BY <1>0, <1>3 DEF AdvanceNextRun
  <2>3. /\ dispatch'[d].todo = dispatch[d].todo \ {j}
        /\ dispatch'[d].pc = "queue" /\ dispatch'[d].job = j
    BY <1>0, <1>3 DEF AdvanceNextRun, DispatchInfo
  <2>4. dispatch' \in [Dispatchers -> DispatchInfo]
    BY <1>0, <1>3 DEF AdvanceNextRun, DispatchInfo
  <2> QED BY <2>1, <2>2, <2>3, <2>4 DEF Moved
<1>4. ASSUME StartRun(d)
      PROVE  /\ Moved /\ dispatch'[d].pc \in {"idle", "loop"}
             /\ dispatch'[d].todo \subseteq dispatch[d].todo
  <2> DEFINE x == [dispatch[d] EXCEPT !.pc = "loop", !.job = None]
             c == IF dispatch[d].todo = {} THEN NoDispatch ELSE x
  <2>1. dispatch' = [dispatch EXCEPT ![d] = c]
    BY <1>0, <1>4 DEF StartRun
  <2>2. x \in DispatchInfo /\ x.pc = "loop" /\ x.todo = dispatch[d].todo
    BY <1>0, DispatchTypes
  <2> HIDE DEF x
  <2>3. c \in DispatchInfo /\ c.pc \in {"idle", "loop"} /\ c.todo \subseteq dispatch[d].todo
    BY <2>2, DispatchTypes
  <2> HIDE DEF c
  <2> QED BY <1>a, <2>1, <2>3
<1>5. ASSUME BrokerFails(d) PROVE Moved /\ dispatch'[d].pc = "idle" /\ dispatch'[d].todo = {}
  BY <1>5, <1>a, DispatchTypes DEF BrokerFails
<1> QED BY <1>1, <1>2, <1>3, <1>4, <1>5 DEF Moved

\* A step of run k leaves the other runs alone, and its own job.
RunMoved(k, from, to) ==
  /\ run' \in [Runs -> RunInfo]
  /\ run[k].pc = from /\ run'[k].pc = to /\ run'[k].job = run[k].job
  /\ \A l \in Runs \ {k} : run'[l] = run[l]

\* What a step makes of the runs.
LEMMA RunMoves ==
  ASSUME SjTypeOK, NEW k \in Runs
  PROVE  /\ \A j \in Jobs : Queued(k, j) =>
              /\ run' \in [Runs -> RunInfo]
              /\ run[k].pc = "unused" /\ run'[k].pc = "queued" /\ run'[k].job = j
              /\ \A l \in Runs \ {k} : run'[l] = run[l]
         /\ FindJob(k) => \/ RunMoved(k, "queued", "found")
                          \/ RunMoved(k, "queued", "done") /\ run[k].job \notin Exists
         /\ CreateRun(k) => RunMoved(k, "found", "executing")
         /\ FinishRun(k) => RunMoved(k, "executing", "done")
<1>0. run \in [Runs -> RunInfo] /\ run[k] \in RunInfo
  BY DEF SjTypeOK
<1>a. ASSUME NEW from, NEW to \in {"found", "executing", "done"},
             run[k].pc = from, run' = [run EXCEPT ![k].pc = to]
      PROVE  RunMoved(k, from, to)
  BY <1>0, <1>a DEF RunMoved, RunInfo
<1>1. ASSUME NEW j \in Jobs, Queued(k, j)
      PROVE  /\ run' \in [Runs -> RunInfo]
             /\ run[k].pc = "unused" /\ run'[k].pc = "queued" /\ run'[k].job = j
             /\ \A l \in Runs \ {k} : run'[l] = run[l]
  BY <1>0, <1>1 DEF Queued, RunInfo, NoRun
<1>2. ASSUME FindJob(k)
      PROVE  \/ RunMoved(k, "queued", "found")
             \/ RunMoved(k, "queued", "done") /\ run[k].job \notin Exists
  <2>1. CASE run[k].job \in Exists
    BY <1>2, <1>a, <2>1 DEF FindJob
  <2>2. CASE run[k].job \notin Exists
    BY <1>2, <1>a, <2>2 DEF FindJob
  <2> QED BY <2>1, <2>2
<1>3. CreateRun(k) => RunMoved(k, "found", "executing")
  BY <1>a DEF CreateRun
<1>4. FinishRun(k) => RunMoved(k, "executing", "done")
  BY <1>a DEF FinishRun
<1> QED BY <1>1, <1>2, <1>3, <1>4

\* A restart: every dispatcher is idle, and of every run at work the job is noted
\* as lost; only the broker keeps runs alive, those not begun.
LEMMA RestartMoves ==
  ASSUME SjTypeOK, JobsRestart
  PROVE  /\ run' \in [Runs -> RunInfo] /\ dispatch' \in [Dispatchers -> DispatchInfo]
         /\ \A d \in Dispatchers : dispatch'[d].pc = "idle" /\ dispatch'[d].todo = {}
         /\ \A k \in Runs :
              /\ run'[k].job = run[k].job
              /\ run'[k].pc = run[k].pc \/ (run[k].pc \in Alive /\ run'[k].pc = "dead")
              /\ run[k].pc \in Alive => run'[k] = run[k] \/ run[k].job \in lost'
              /\ run'[k].pc \in Alive => sjDeployment.celery
         /\ \A d \in Dispatchers : dispatch[d].pc = "queue" => dispatch[d].job \in lost'
         /\ lost \subseteq lost'
         /\ \A j \in lost' \ lost :
              \/ \E k \in Runs : run[k].pc \in Alive /\ j = run[k].job
              \/ \E d \in Dispatchers : dispatch[d].pc = "queue" /\ j = dispatch[d].job
<1> DEFINE dying == {"found", "executing"} \cup IF sjDeployment.celery THEN {} ELSE {"queued"}
           D == {k \in Runs : run[k].pc \in dying}
           Q == {x \in Dispatchers : dispatch[x].pc = "queue"}
<1>0. run \in [Runs -> RunInfo] /\ \A k \in Runs : run[k] \in RunInfo
  BY DEF SjTypeOK
<1>1. /\ run' = [k \in Runs |-> IF k \in D THEN [run[k] EXCEPT !.pc = "dead"] ELSE run[k]]
      /\ lost' = lost \cup {run[k].job : k \in D} \cup {dispatch[d].job : d \in Q}
      /\ dispatch' = [d \in Dispatchers |-> NoDispatch]
  BY DEF JobsRestart
<1>2. dying \subseteq Alive /\ (Alive \subseteq dying \/ sjDeployment.celery)
  BY DEF Alive
<1> HIDE DEF dying
<1>3. \A k \in Runs : \/ run'[k] = run[k] /\ k \notin D
                      \/ /\ k \in D /\ run'[k] \in RunInfo
                         /\ run'[k].pc = "dead" /\ run'[k].job = run[k].job
  BY <1>0, <1>1 DEF RunInfo
<1>4. run' \in [Runs -> RunInfo]
  BY <1>0, <1>1, <1>3
<1>5. /\ dispatch' \in [Dispatchers -> DispatchInfo]
      /\ \A d \in Dispatchers : dispatch'[d].pc = "idle" /\ dispatch'[d].todo = {}
  BY <1>1, DispatchTypes
<1>6. \A k \in Runs :
        /\ run'[k].job = run[k].job
        /\ run'[k].pc = run[k].pc \/ (run[k].pc \in Alive /\ run'[k].pc = "dead")
        /\ run[k].pc \in Alive => run'[k] = run[k] \/ run[k].job \in lost'
        /\ run'[k].pc \in Alive => sjDeployment.celery
  <2> SUFFICES ASSUME NEW k \in Runs
               PROVE  /\ run'[k].job = run[k].job
                      /\ run'[k].pc = run[k].pc \/ (run[k].pc \in Alive /\ run'[k].pc = "dead")
                      /\ run[k].pc \in Alive => run'[k] = run[k] \/ run[k].job \in lost'
                      /\ run'[k].pc \in Alive => sjDeployment.celery
    OBVIOUS
  <2>1. CASE run'[k] = run[k] /\ k \notin D
    BY <1>2, <2>1
  <2>2. CASE k \in D /\ run'[k].pc = "dead" /\ run'[k].job = run[k].job
    <3>1. run[k].pc \in Alive /\ run[k].job \in lost'
      BY <1>1, <1>2, <2>2
    <3> QED BY <2>2, <3>1 DEF Alive
  <2> QED BY <1>3, <2>1, <2>2
<1>7. \A d \in Dispatchers : dispatch[d].pc = "queue" => dispatch[d].job \in lost'
  BY <1>1
<1>8. \A j \in lost' \ lost :
        \/ \E k \in Runs : run[k].pc \in Alive /\ j = run[k].job
        \/ \E d \in Dispatchers : dispatch[d].pc = "queue" /\ j = dispatch[d].job
  BY <1>1, <1>2
<1> QED BY <1>1, <1>4, <1>5, <1>6, <1>7, <1>8

\* Types.
LEMMA StepTypes == SjInv /\ [SjNext]_sjVars => SjTypeOK'
<1>0. SUFFICES ASSUME SjInv, SjNext PROVE SjTypeOK'
  BY DEF sjVars, SjInv, SjTypeOK
<1>t. /\ SjTypeOK /\ dispatch \in [Dispatchers -> DispatchInfo] /\ run \in [Runs -> RunInfo]
      /\ history \in [Jobs -> Seq(Entry)] /\ limit \in HistoryLimits /\ lost \subseteq Jobs
      /\ newest \in [Jobs -> Runs \cup {None}]
      /\ \A k \in Runs : run[k].pc # "unused" => run[k].job \in Jobs
      /\ \A d \in Dispatchers : dispatch[d].pc = "queue" => dispatch[d].job \in Jobs
  BY <1>0 DEF SjInv, SjTypeOK, Named, Entry
<1>h. HistoryLimits \subseteq Nat \ {0}
  BY JobsAssumption
<1> DEFINE Goal == /\ dispatch' \in [Dispatchers -> DispatchInfo] /\ run' \in [Runs -> RunInfo]
                   /\ history' \in [Jobs -> Seq(Entry)] /\ limit' \in HistoryLimits
                   /\ lost' \subseteq Jobs /\ newest' \in [Jobs -> Runs \cup {None}]
<1>1. ASSUME Quiet PROVE Goal
  <2>1. \A j \in Jobs, n \in HistoryLimits : Newest(history[j], n) \in Seq(Entry)
    BY <1>t, <1>h, NewestEntries
  <2> QED BY <1>1, <1>t, <2>1 DEF Quiet
<1>2. ASSUME NEW j \in Jobs, NEW k \in Runs, RunNow(j), Queued(k, j) PROVE Goal
  BY <1>2, <1>t, RunMoves DEF RunNow
<1>3. ASSUME NEW d \in Dispatchers, GetDueJobs(d) PROVE Goal
  BY <1>3, <1>t, DispatchMoves DEF GetDueJobs, sjRuns
<1>4. ASSUME NEW d \in Dispatchers, NEW failed \in BOOLEAN, FilterBlocked(d, failed) PROVE Goal
  BY <1>4, <1>t, DispatchMoves DEF FilterBlocked, sjRuns
<1>5. ASSUME NEW d \in Dispatchers, NEW j \in Jobs, AdvanceNextRun(d, j) PROVE Goal
  BY <1>5, <1>t, DispatchMoves DEF AdvanceNextRun, sjRuns
<1>6. ASSUME NEW d \in Dispatchers, NEW k \in Runs, StartRun(d), Queued(k, dispatch[d].job)
      PROVE  Goal
  <2>1. dispatch[d].job \in Jobs
    BY <1>6, <1>t DEF StartRun
  <2>2. run' \in [Runs -> RunInfo]
    BY <1>6, <1>t, <2>1, RunMoves
  <2>3. dispatch' \in [Dispatchers -> DispatchInfo]
    BY <1>6, <1>t, DispatchMoves
  <2> QED BY <1>6, <1>t, <2>2, <2>3 DEF StartRun
<1>7. ASSUME NEW d \in Dispatchers, BrokerFails(d) PROVE Goal
  <2>1. dispatch' \in [Dispatchers -> DispatchInfo]
    BY <1>7, <1>t, DispatchMoves
  <2> QED BY <1>7, <1>t, <2>1 DEF BrokerFails
<1>8. ASSUME NEW k \in Runs, FindJob(k) PROVE Goal
  <2>1. run' \in [Runs -> RunInfo]
    BY <1>8, <1>t, RunMoves DEF RunMoved
  <2> QED BY <1>8, <1>t, <2>1 DEF FindJob
<1>9. ASSUME NEW k \in Runs, CreateRun(k) PROVE Goal
  <2>1. run' \in [Runs -> RunInfo]
    BY <1>9, <1>t, RunMoves DEF RunMoved
  <2>2. run[k].job \in Jobs
    BY <1>9, <1>t DEF CreateRun
  <2>3. [run |-> k, status |-> "running"] \in Entry
    BY DEF Entry
  <2>4. Append(history[run[k].job], [run |-> k, status |-> "running"]) \in Seq(Entry)
    BY <1>t, <2>2, <2>3, AddedEntry
  <2>5. history' \in [Jobs -> Seq(Entry)] /\ newest' \in [Jobs -> Runs \cup {None}]
    BY <1>9, <1>t, <2>2, <2>4 DEF CreateRun
  <2> QED BY <1>9, <1>t, <2>1, <2>5 DEF CreateRun
<1>10. ASSUME NEW k \in Runs, FinishRun(k) PROVE Goal
  <2>1. run' \in [Runs -> RunInfo]
    BY <1>10, <1>t, RunMoves DEF RunMoved
  <2>2. run[k].job \in Jobs
    BY <1>10, <1>t DEF FinishRun
  <2> DEFINE s == history[run[k].job]
  <2>3. Newest(Ended(s, k), limit) \in Seq(Entry)
    BY <1>t, <1>h, <2>2, EndedEntries, NewestEntries
  <2>4. history' = [history EXCEPT ![run[k].job] = Newest(Ended(s, k), limit)]
    BY <1>10, <1>t, <2>2 DEF FinishRun
  <2>5. history' \in [Jobs -> Seq(Entry)]
    BY <1>t, <2>2, <2>3, <2>4
  <2> QED BY <1>10, <1>t, <2>1, <2>5 DEF FinishRun
<1>11. ASSUME JobsRestart PROVE Goal
  <2>1. lost' \subseteq Jobs
    <3>1. \A k \in Runs : run[k].pc \in Alive => run[k].job \in Jobs
      BY <1>t DEF Alive
    <3> QED BY <1>11, <1>t, <3>1, RestartMoves
  <2> QED BY <1>11, <1>t, <2>1, RestartMoves DEF JobsRestart
<1> HIDE DEF Goal
<1>12. Goal
  BY <1>0, <1>1, <1>2, <1>3, <1>4, <1>5, <1>6, <1>7, <1>8, <1>9, <1>10, <1>11, StepKinds
<1>13. edit' \in [Editors -> EditInfo]
  BY <1>0, StepEdit DEF Requests
<1>14. sjDeployment' \in JobDeployments
  BY <1>0, <1>t, StepEdit DEF SjTypeOK
<1> QED BY <1>0, <1>12, <1>13, <1>14, StepEdit, StepMarks DEF SjTypeOK, Goal, Entry

-----------------------------------------------------------------------------
(***************************************************************************)
(* The invariant, part by part.                                            *)
(***************************************************************************)
\* What dispatchers and runs name was inserted.
LEMMA StepNamed == SjInv /\ [SjNext]_sjVars => Named'
<1>0. SUFFICES ASSUME SjInv, SjNext PROVE Named'
  BY DEF sjVars, SjInv, Named
<1>t. SjTypeOK /\ Named
  BY <1>0 DEF SjInv
<1>a. \A j \in Jobs : sjob[j] # None => sjob'[j] # None
  BY <1>0, StepMarks
<1>b. \A d \in Dispatchers : dispatch[d].todo \subseteq Jobs /\ dispatch'[d].todo \subseteq Jobs
  BY <1>0, <1>t, StepTypes DEF SjTypeOK, DispatchInfo
<1> DEFINE DGoal == \A d \in Dispatchers :
                      /\ \A j \in dispatch'[d].todo : sjob[j] # None
                      /\ dispatch'[d].pc = "queue" =>
                           dispatch'[d].job \in Jobs /\ sjob[dispatch'[d].job] # None
           RGoal == \A k \in Runs : run'[k].pc # "unused" =>
                      run'[k].job \in Jobs /\ sjob[run'[k].job] # None
<1>c. ASSUME dispatch' = dispatch PROVE DGoal
  BY <1>t, <1>c DEF Named
<1>d. ASSUME run' = run PROVE RGoal
  BY <1>t, <1>d DEF Named
<1>e. ASSUME NEW k \in Runs, NEW from, NEW to, from # "unused", RunMoved(k, from, to) PROVE RGoal
  BY <1>t, <1>e DEF Named, RunMoved
<1>f. ASSUME NEW k \in Runs, NEW j \in Jobs, sjob[j] # None, Queued(k, j) PROVE RGoal
  BY <1>t, <1>f, RunMoves DEF Named
<1>g. \A j \in Exists : j \in Jobs /\ sjob[j] # None
  BY DEF Exists
<1> USE DEF sjRuns
<1>1. ASSUME Quiet PROVE DGoal /\ RGoal
  BY <1>1, <1>c, <1>d DEF Quiet
<1>2. ASSUME NEW j \in Jobs, NEW k \in Runs, RunNow(j), Queued(k, j) PROVE DGoal /\ RGoal
  BY <1>2, <1>c, <1>f, <1>g DEF RunNow
<1>3. ASSUME NEW d \in Dispatchers, GetDueJobs(d) PROVE DGoal /\ RGoal
  <2>1. run' = run
    BY <1>3 DEF GetDueJobs
  <2>2. DGoal
    BY <1>3, <1>t, <1>g, DispatchMoves DEF Named, Due
  <2> QED BY <1>d, <2>1, <2>2
<1>4. ASSUME NEW d \in Dispatchers, NEW failed \in BOOLEAN, FilterBlocked(d, failed)
      PROVE  DGoal /\ RGoal
  <2>1. run' = run
    BY <1>4 DEF FilterBlocked
  <2>2. DGoal
    BY <1>4, <1>t, DispatchMoves DEF Named
  <2> QED BY <1>d, <2>1, <2>2
<1>5. ASSUME NEW d \in Dispatchers, NEW j \in Jobs, AdvanceNextRun(d, j) PROVE DGoal /\ RGoal
  <2>1. run' = run
    BY <1>5 DEF AdvanceNextRun
  <2>2. DGoal
    BY <1>5, <1>t, DispatchMoves DEF Named
  <2> QED BY <1>d, <2>1, <2>2
<1>6. ASSUME NEW d \in Dispatchers, NEW k \in Runs, StartRun(d), Queued(k, dispatch[d].job)
      PROVE  DGoal /\ RGoal
  <2>1. dispatch[d].job \in Jobs /\ sjob[dispatch[d].job] # None
    BY <1>6, <1>t DEF StartRun, Named
  <2>2. DGoal
    BY <1>6, <1>t, DispatchMoves DEF Named
  <2> QED BY <1>6, <1>f, <2>1, <2>2
<1>7. ASSUME NEW d \in Dispatchers, BrokerFails(d) PROVE DGoal /\ RGoal
  <2>1. run' = run
    BY <1>7 DEF BrokerFails
  <2>2. DGoal
    BY <1>7, <1>t, DispatchMoves DEF Named
  <2> QED BY <1>d, <2>1, <2>2
<1>8. ASSUME NEW k \in Runs, FindJob(k) PROVE DGoal /\ RGoal
  BY <1>8, <1>t, <1>c, <1>e, RunMoves DEF FindJob
<1>9. ASSUME NEW k \in Runs, CreateRun(k) PROVE DGoal /\ RGoal
  BY <1>9, <1>t, <1>c, <1>e, RunMoves DEF CreateRun
<1>10. ASSUME NEW k \in Runs, FinishRun(k) PROVE DGoal /\ RGoal
  BY <1>10, <1>t, <1>c, <1>e, RunMoves DEF FinishRun
<1>11. ASSUME JobsRestart PROVE DGoal /\ RGoal
  <2>1. DGoal
    BY <1>11, <1>t, RestartMoves
  <2>2. \A k \in Runs : run'[k].job = run[k].job /\ (run[k].pc = "unused" => run'[k].pc = "unused")
    BY <1>11, <1>t, RestartMoves DEF Alive
  <2> QED BY <1>t, <2>1, <2>2 DEF Named
<1> HIDE DEF DGoal, RGoal
<1>12. DGoal /\ RGoal
  BY <1>0, <1>1, <1>2, <1>3, <1>4, <1>5, <1>6, <1>7, <1>8, <1>9, <1>10, <1>11, StepKinds
<1>13. edit' \in [Editors -> Requests]
  BY <1>0, StepEdit
<1> QED BY <1>12, <1>13, <1>a, <1>b DEF Named, DGoal, RGoal

\* A mark has somebody who will remove it, or whose loss is noted.
LEMMA StepRunning == SjInv /\ [SjNext]_sjVars => RunningHasRun'
<1>0. SUFFICES ASSUME SjInv, SjNext PROVE RunningHasRun'
  BY DEF sjVars, SjInv, RunningHasRun, LiveRuns, Exists
<1>t. SjTypeOK /\ Named
  BY <1>0 DEF SjInv
<1> DEFINE Work(j) == \/ \E k \in Runs : run[k].job = j /\ run[k].pc \in Alive
                      \/ \E d \in Dispatchers : Queueing(d, j)
                      \/ j \in lost
           Going(j) == \/ \E k \in Runs : run'[k].job = j /\ run'[k].pc \in Alive
                       \/ \E d \in Dispatchers : dispatch'[d].pc = "queue" /\ dispatch'[d].job = j
                       \/ j \in lost'
           Goal == \A j \in Jobs : Work(j) /\ (j \in Exists \/ j \in lost) =>
                     Going(j) \/ \E k \in Runs : FinishRun(k) /\ run[k].job = j
<1>a. \A j \in Exists : sjob[j].status = "running" => Work(j)
  BY <1>0 DEF SjInv, RunningHasRun, LiveRuns, Queueing, Alive
<1>b. ASSUME UNCHANGED <<dispatch, run, lost>> PROVE Goal
  BY <1>b DEF Queueing
<1>c. ASSUME UNCHANGED <<dispatch, lost>>, NEW k \in Runs, NEW from, NEW to,
             RunMoved(k, from, to),
             to \in Alive \/ run[k].job \notin Exists \/ FinishRun(k)
      PROVE  Goal
  BY <1>c DEF Queueing, RunMoved
<1>d. ASSUME UNCHANGED <<run, lost>>, NEW d \in Dispatchers,
             \A c \in Dispatchers \ {d} : dispatch'[c] = dispatch[c],
             dispatch[d].pc # "queue" \/ dispatch[d].job \in lost'
      PROVE  Goal
  BY <1>d DEF Queueing
<1>e. ASSUME lost' = lost, NEW k \in Runs, NEW j \in Jobs, Queued(k, j),
             \A d \in Dispatchers :
               dispatch'[d] = dispatch[d] \/ (dispatch[d].pc = "queue" => dispatch[d].job = j)
      PROVE  Goal
  BY <1>t, <1>e, RunMoves DEF Queueing, Alive
<1> USE DEF sjRuns
<1> HIDE DEF Goal
<1>1. ASSUME Quiet PROVE Goal
  BY <1>1, <1>b DEF Quiet
<1>2. ASSUME NEW j \in Jobs, NEW k \in Runs, RunNow(j), Queued(k, j) PROVE Goal
  BY <1>2, <1>e DEF RunNow
<1>3. ASSUME NEW d \in Dispatchers, GetDueJobs(d) PROVE Goal
  BY <1>3, <1>t, <1>d, DispatchMoves DEF GetDueJobs, NoDispatch
<1>4. ASSUME NEW d \in Dispatchers, NEW failed \in BOOLEAN, FilterBlocked(d, failed) PROVE Goal
  <2>1. \A c \in Dispatchers \ {d} : dispatch'[c] = dispatch[c]
    BY <1>4, <1>t, DispatchMoves
  <2> QED BY <1>4, <1>d, <2>1 DEF FilterBlocked
<1>5. ASSUME NEW d \in Dispatchers, NEW j \in Jobs, AdvanceNextRun(d, j) PROVE Goal
  <2>1. \A c \in Dispatchers \ {d} : dispatch'[c] = dispatch[c]
    BY <1>5, <1>t, DispatchMoves
  <2> QED BY <1>5, <1>d, <2>1 DEF AdvanceNextRun
<1>6. ASSUME NEW d \in Dispatchers, NEW k \in Runs, StartRun(d), Queued(k, dispatch[d].job)
      PROVE  Goal
  <2>1. dispatch[d].job \in Jobs
    BY <1>6, <1>t DEF StartRun, Named
  <2>2. \A c \in Dispatchers \ {d} : dispatch'[c] = dispatch[c]
    BY <1>6, <1>t, DispatchMoves
  <2> QED BY <1>6, <1>e, <2>1, <2>2 DEF StartRun
<1>7. ASSUME NEW d \in Dispatchers, BrokerFails(d) PROVE Goal
  <2>1. \A c \in Dispatchers \ {d} : dispatch'[c] = dispatch[c]
    BY <1>7, <1>t, DispatchMoves
  <2> QED BY <1>7, <2>1 DEF BrokerFails, Goal, Queueing
<1>8. ASSUME NEW k \in Runs, FindJob(k) PROVE Goal
  BY <1>8, <1>t, <1>c, RunMoves DEF FindJob, Alive
<1>9. ASSUME NEW k \in Runs, CreateRun(k) PROVE Goal
  BY <1>9, <1>t, <1>c, RunMoves DEF CreateRun, Alive
<1>10. ASSUME NEW k \in Runs, FinishRun(k) PROVE Goal
  BY <1>10, <1>t, <1>c, RunMoves DEF FinishRun
<1>11. ASSUME JobsRestart PROVE Goal
  <2>1. /\ \A k \in Runs : run[k].pc \in Alive =>
             (run'[k].job = run[k].job /\ run'[k].pc = run[k].pc) \/ run[k].job \in lost'
        /\ \A d \in Dispatchers : dispatch[d].pc = "queue" => dispatch[d].job \in lost'
        /\ lost \subseteq lost'
    BY <1>11, <1>t, RestartMoves
  <2> QED BY <2>1 DEF Goal, Queueing
<1>12. Goal
  BY <1>0, <1>1, <1>2, <1>3, <1>4, <1>5, <1>6, <1>7, <1>8, <1>9, <1>10, <1>11, StepKinds
<1>13. ASSUME NEW j \in Exists', sjob'[j].status = "running" PROVE Going(j)
  <2>0. j \in Jobs
    BY DEF Exists
  <2>1. CASE j \in Exists /\ sjob'[j].status = sjob[j].status
    <3>1. Going(j) \/ \E k \in Runs : FinishRun(k) /\ run[k].job = j
      BY <1>12, <1>13, <1>a, <2>0, <2>1 DEF Goal
    <3>2. ASSUME NEW k \in Runs, FinishRun(k), run[k].job = j PROVE FALSE
      <4>1. sjob'[j] = [sjob[j] EXCEPT !.status = "ended"]
        BY <1>t, <2>0, <2>1, <3>2 DEF FinishRun, SjTypeOK
      <4>2. sjob[j] \in ScheduledJob
        BY <1>t, <2>1, ExistingRow
      <4> QED BY <1>13, <4>1, <4>2 DEF ScheduledJob
    <3> QED BY <3>1, <3>2
  <2>2. CASE \E d \in Dispatchers : AdvanceNextRun(d, j)
    BY <1>t, <2>0, <2>2, DispatchMoves
  <2> QED BY <1>0, <1>13, <2>0, <2>1, <2>2, StepMarks
<1> QED BY <1>13 DEF RunningHasRun, LiveRuns, Alive

\* The overlap guard: whatever is at work is marked, so it is not due.
LEMMA StepGuarded == SjInv /\ [SjNext]_sjVars => Guarded'
<1>0. SUFFICES ASSUME SjInv, SjNext PROVE Guarded'
  BY DEF sjVars, SjInv, Guarded, Queueing, Exists
<1>1. SUFFICES ASSUME ~sjDeployment.celery, ~sjDeployment.manual
               PROVE  Guarded'
  BY <1>0, StepEdit DEF Guarded
<1>t. SjTypeOK /\ Named /\ sjDeployment' = sjDeployment
  BY <1>0, StepEdit DEF SjInv
<1>g. /\ \A d \in Dispatchers : d # 1 => dispatch[d].pc = "idle" /\ dispatch[d].todo = {}
      /\ \A k, l \in Runs : run[k].pc \in Alive /\ run[l].pc \in Alive /\ run[k].job = run[l].job
                              => k = l
      /\ \A d \in Dispatchers, k \in Runs : run[k].pc \in Alive =>
           run[k].job \notin dispatch[d].todo /\ ~Queueing(d, run[k].job)
      /\ \A d \in Dispatchers : \A j \in dispatch[d].todo : ~Queueing(d, j)
      /\ \A k \in Runs : run[k].pc \in Alive /\ run[k].job \in Exists =>
           sjob[run[k].job].status = "running"
      /\ \A d \in Dispatchers, j \in Exists : Queueing(d, j) => sjob[j].status = "running"
  BY <1>0, <1>1 DEF SjInv, Guarded
<1> DEFINE Marked(j) == j \in Exists' => sjob'[j].status = "running"
           Coming(d, j) == dispatch'[d].pc = "queue" /\ dispatch'[d].job = j
           G1 == \A d \in Dispatchers : d # 1 => dispatch'[d].pc = "idle" /\ dispatch'[d].todo = {}
           G2 == \A k, l \in Runs :
                   run'[k].pc \in Alive /\ run'[l].pc \in Alive /\ run'[k].job = run'[l].job => k = l
           G3 == \A d \in Dispatchers, k \in Runs : run'[k].pc \in Alive =>
                   run'[k].job \notin dispatch'[d].todo /\ ~Coming(d, run'[k].job)
           G4 == \A d \in Dispatchers : \A j \in dispatch'[d].todo : ~Coming(d, j)
           G5 == \A k \in Runs : run'[k].pc \in Alive => Marked(run'[k].job)
           G6 == \A d \in Dispatchers, j \in Jobs : Coming(d, j) => Marked(j)
           Goal == G1 /\ G2 /\ G3 /\ G4 /\ G5 /\ G6
<1>n. /\ \A k \in Runs : run[k].pc \in Alive => run[k].job \in Jobs /\ sjob[run[k].job] # None
      /\ \A d \in Dispatchers, j \in Jobs : Queueing(d, j) => sjob[j] # None
  BY <1>t DEF Named, Alive, Queueing
<1>m. ASSUME NEW j \in Jobs, sjob[j] # None, j \in Exists => sjob[j].status = "running",
             \A k \in Runs : FinishRun(k) => run[k].job # j
      PROVE  Marked(j)
  BY <1>0, <1>m, StepMarks
<1>s. ASSUME \A k \in Runs : ~FinishRun(k)
      PROVE  /\ \A k \in Runs : run[k].pc \in Alive => Marked(run[k].job)
             /\ \A d \in Dispatchers, j \in Jobs : Queueing(d, j) => Marked(j)
  <2>1. ASSUME NEW k \in Runs, run[k].pc \in Alive PROVE Marked(run[k].job)
    BY <1>g, <1>m, <1>n, <1>s, <2>1
  <2>2. ASSUME NEW d \in Dispatchers, NEW j \in Jobs, Queueing(d, j) PROVE Marked(j)
    BY <1>g, <1>m, <1>n, <1>s, <2>2
  <2> QED BY <2>1, <2>2
<1> HIDE DEF Marked
<1>e. \A k \in Runs : FinishRun(k) => run'[k].pc = "done" /\ run[k].pc = "executing"
  BY <1>t, RunMoves DEF RunMoved
<1>2. ASSUME UNCHANGED <<run, dispatch>> PROVE Goal
  <2>1. \A k \in Runs : ~FinishRun(k)
    BY <1>2, <1>e
  <2> QED BY <1>2, <1>g, <1>s, <2>1 DEF Queueing
<1> USE DEF sjRuns
<1>3. ASSUME NEW d \in Dispatchers, GetDueJobs(d) PROVE Goal
  <2>1. /\ d = 1 /\ run' = run /\ dispatch'[d].pc = "filter" /\ dispatch'[d].todo = Due
        /\ \A c \in Dispatchers \ {d} : dispatch'[c] = dispatch[c]
    BY <1>1, <1>3, <1>t, DispatchMoves DEF GetDueJobs
  <2>2. \A k \in Runs : run[k].pc \in Alive => run[k].job \notin Due
    BY <1>g DEF Due
  <2>3. \A k \in Runs : ~FinishRun(k)
    BY <1>e, <2>1
  <2>4. G1 /\ G2 /\ G4 /\ G5 /\ G6
    BY <1>g, <1>s, <2>1, <2>3 DEF Queueing
  <2>5. G3
    BY <1>g, <2>1, <2>2 DEF Queueing
  <2> QED BY <2>4, <2>5
<1>4. ASSUME NEW d \in Dispatchers, NEW failed \in BOOLEAN, FilterBlocked(d, failed) PROVE Goal
  <2>1. /\ run' = run /\ dispatch'[d].pc \in {"idle", "loop"}
        /\ dispatch'[d].todo \subseteq dispatch[d].todo /\ dispatch[d].pc = "filter"
        /\ \A c \in Dispatchers \ {d} : dispatch'[c] = dispatch[c]
    BY <1>4, <1>t, DispatchMoves DEF FilterBlocked
  <2>2. d = 1
    BY <1>g, <2>1
  <2>3. \A k \in Runs : ~FinishRun(k)
    BY <1>e, <2>1
  <2> QED BY <1>g, <1>s, <2>1, <2>2, <2>3 DEF Queueing
<1>5. ASSUME NEW d \in Dispatchers, NEW j \in Jobs, AdvanceNextRun(d, j) PROVE Goal
  <2>1. /\ run' = run /\ dispatch'[d].pc = "queue" /\ dispatch'[d].job = j
        /\ j \in dispatch[d].todo /\ dispatch'[d].todo = dispatch[d].todo \ {j}
        /\ dispatch[d].pc = "loop"
        /\ \A c \in Dispatchers \ {d} : dispatch'[c] = dispatch[c]
    BY <1>5, <1>t, DispatchMoves DEF AdvanceNextRun
  <2>2. d = 1
    BY <1>g, <2>1
  <2>3. \A k \in Runs : ~FinishRun(k)
    BY <1>e, <2>1
  <2>4. Marked(j)
    <3>1. CASE j \in Exists
      <4>1. sjob[j] \in ScheduledJob
        BY <1>t, <3>1, ExistingRow
      <4>2. sjob'[j] = [sjob[j] EXCEPT !.next = "future", !.status = "running"]
        BY <1>5, <1>t, <3>1 DEF AdvanceNextRun, SjTypeOK
      <4> QED BY <4>1, <4>2 DEF Marked, ScheduledJob
    <3>2. CASE j \notin Exists
      BY <1>5, <3>2 DEF AdvanceNextRun, Marked, Exists
    <3> QED BY <3>1, <3>2
  <2>5. G1 /\ G2 /\ G4 /\ G5
    BY <1>g, <1>s, <2>1, <2>2, <2>3 DEF Queueing
  <2>6. G3
    BY <1>g, <2>1, <2>2 DEF Queueing
  <2>7. G6
    BY <1>s, <2>1, <2>3, <2>4 DEF Queueing
  <2> QED BY <2>5, <2>6, <2>7
<1>6. ASSUME NEW d \in Dispatchers, NEW k \in Runs, StartRun(d), Queued(k, dispatch[d].job)
      PROVE  Goal
  <2> DEFINE j == dispatch[d].job
  <2>0. j \in Jobs /\ dispatch[d].pc = "queue"
    BY <1>6, <1>t DEF StartRun, Named
  <2>1. /\ dispatch'[d].pc \in {"idle", "loop"} /\ dispatch'[d].todo \subseteq dispatch[d].todo
        /\ \A c \in Dispatchers \ {d} : dispatch'[c] = dispatch[c]
    BY <1>6, <1>t, DispatchMoves
  <2>2. /\ run[k].pc = "unused" /\ run'[k].pc = "queued" /\ run'[k].job = j
        /\ \A l \in Runs \ {k} : run'[l] = run[l]
    BY <1>6, <1>t, <2>0, RunMoves
  <2>3. d = 1
    BY <1>g, <2>0
  <2>4. \A l \in Runs : ~FinishRun(l)
    BY <1>e, <2>2
  <2>5. \A l \in Runs : run[l].pc \in Alive => run[l].job # j
    BY <1>g, <2>0 DEF Queueing
  <2>6. \A i \in dispatch[d].todo : i # j
    BY <1>g, <2>0 DEF Queueing
  <2>7. Marked(j)
    BY <1>s, <2>0, <2>4 DEF Queueing
  <2> HIDE DEF j
  <2>8. G1 /\ G4
    BY <1>g, <2>1, <2>3 DEF Queueing
  <2>9. G2
    BY <1>g, <2>2, <2>5
  <2>10. G3
    <3>1. \A c \in Dispatchers : c # d => dispatch'[c].todo = {} /\ dispatch'[c].pc = "idle"
      BY <1>g, <2>1, <2>3
    <3> QED BY <1>g, <2>1, <2>2, <2>6, <3>1
  <2>11. G5
    BY <1>s, <2>2, <2>4, <2>7
  <2>12. G6
    BY <1>s, <2>1, <2>4 DEF Queueing
  <2> QED BY <2>8, <2>9, <2>10, <2>11, <2>12
<1>7. ASSUME NEW k \in Runs, NEW from \in Alive, NEW to, RunMoved(k, from, to), dispatch' = dispatch,
             \A l \in Runs : ~FinishRun(l)
      PROVE  Goal
  <2>1. \A l \in Runs : run'[l].pc \in Alive => run[l].pc \in Alive
    BY <1>7 DEF RunMoved
  <2>2. \A l \in Runs : run'[l].job = run[l].job
    BY <1>7 DEF RunMoved
  <2> QED BY <1>7, <1>g, <1>s, <2>1, <2>2 DEF Queueing
<1>8. ASSUME NEW k \in Runs, FinishRun(k) PROVE Goal
  <2>1. RunMoved(k, "executing", "done") /\ dispatch' = dispatch
    BY <1>8, <1>t, RunMoves DEF FinishRun
  <2>2. \A l \in Runs : /\ run'[l].pc \in Alive => run[l].pc \in Alive /\ l # k
                        /\ run'[l].job = run[l].job
    BY <2>1 DEF RunMoved, Alive
  <2>3. run[k].pc \in Alive
    BY <2>1 DEF RunMoved, Alive
  <2>4. \A l \in Runs : FinishRun(l) => l = k
    BY <1>e, <2>1 DEF RunMoved
  <2>5. G1 /\ G2 /\ G3 /\ G4
    BY <1>g, <2>1, <2>2 DEF Queueing
  <2>6. G5
    <3> SUFFICES ASSUME NEW l \in Runs, run'[l].pc \in Alive PROVE Marked(run'[l].job)
      OBVIOUS
    <3>1. run[l].pc \in Alive /\ l # k /\ run'[l].job = run[l].job /\ run[k].job # run[l].job
      BY <1>g, <2>2, <2>3
    <3> QED BY <1>g, <1>m, <1>n, <2>4, <3>1
  <2>7. G6
    <3> SUFFICES ASSUME NEW d \in Dispatchers, NEW j \in Jobs, Queueing(d, j) PROVE Marked(j)
      BY <2>1 DEF Queueing
    <3>1. run[k].job # j
      BY <1>g, <2>3
    <3> QED BY <1>g, <1>m, <1>n, <2>4, <3>1
  <2> QED BY <2>5, <2>6, <2>7
<1>9. ASSUME JobsRestart PROVE Goal
  <2>1. \A k \in Runs : run'[k].pc \notin Alive
    BY <1>1, <1>9, <1>t, RestartMoves
  <2>2. \A d \in Dispatchers : dispatch'[d].pc = "idle" /\ dispatch'[d].todo = {}
    BY <1>9, <1>t, RestartMoves
  <2> QED BY <2>1, <2>2
<1> HIDE DEF Goal
<1>10. ASSUME NEW k \in Runs, FindJob(k) PROVE Goal
  <2>1. \A l \in Runs : ~FinishRun(l)
    BY <1>10, <1>t, <1>e, RunMoves DEF RunMoved
  <2>2. dispatch' = dispatch
    BY <1>10 DEF FindJob
  <2> QED BY <1>7, <1>10, <1>t, <2>1, <2>2, RunMoves DEF Alive
<1>11. ASSUME NEW k \in Runs, CreateRun(k) PROVE Goal
  <2>1. \A l \in Runs : ~FinishRun(l)
    BY <1>11, <1>t, <1>e, RunMoves DEF RunMoved
  <2>2. dispatch' = dispatch
    BY <1>11 DEF CreateRun
  <2> QED BY <1>7, <1>11, <1>t, <2>1, <2>2, RunMoves DEF Alive
<1>12. ASSUME Quiet PROVE Goal
  BY <1>2, <1>12 DEF Quiet
<1>13. Goal
  BY <1>0, <1>1, <1>3, <1>4, <1>5, <1>6, <1>8, <1>9, <1>10, <1>11, <1>12, StepKinds
     DEF RunNow, BrokerFails
<1>14. Exists' \subseteq Jobs
  BY DEF Exists
<1> QED BY <1>13, <1>14 DEF Guarded, Goal, Marked, Queueing

\* Of a history s that holds runs of j, with their status, this stays true.
EntriesOf(s, j) ==
  \A n \in 1..Len(s) :
    /\ run[s[n].run].job = j
    /\ run[s[n].run].pc \in {"executing", "done", "dead"}
    /\ s[n].status = "ended" <=> run[s[n].run].pc = "done"

LastIs(s, k) == k # None => Len(s) > 0 /\ s[Len(s)].run = k

\* Pruning loses neither.
LEMMA PrunedHistory ==
  ASSUME NEW s \in Seq(Entry), NEW n \in HistoryLimits, NEW j, NEW k
  PROVE  /\ EntriesOf(s, j) => EntriesOf(Newest(s, n), j)
         /\ LastIs(s, k) => LastIs(Newest(s, n), k)
<1>1. n \in Nat \ {0}
  BY JobsAssumption
<1>2. /\ \A m \in 1..Len(Newest(s, n)) : \E q \in 1..Len(s) : Newest(s, n)[m] = s[q]
      /\ Len(s) > 0 => /\ Len(Newest(s, n)) > 0
                       /\ Newest(s, n)[Len(Newest(s, n))] = s[Len(s)]
  BY <1>1, NewestEntries
<1> QED BY <1>2 DEF EntriesOf, LastIs

\* Entries name runs.
LEMMA EntryRuns ==
  ASSUME NEW s \in Seq(Entry)
  PROVE  \A n \in 1..Len(s) : s[n].run \in Runs
<1>1. \A n \in 1..Len(s) : s[n] \in Entry
  OBVIOUS
<1> QED BY <1>1 DEF Entry

\* Histories: the runs of a job, the newest last.
LEMMA StepRecorded == SjInv /\ [SjNext]_sjVars => Recorded'
<1>0. SUFFICES ASSUME SjInv, SjNext PROVE Recorded'
  BY DEF sjVars, SjInv, Recorded
<1>t. /\ SjTypeOK /\ Named /\ history \in [Jobs -> Seq(Entry)] /\ limit \in HistoryLimits
      /\ newest \in [Jobs -> Runs \cup {None}]
  BY <1>0 DEF SjInv, SjTypeOK, Entry
<1>r. \A j \in Jobs : /\ history[j] \in Seq(Entry)
                      /\ EntriesOf(history[j], j) /\ LastIs(history[j], newest[j])
  BY <1>0, <1>t DEF SjInv, Recorded, EntriesOf, LastIs
<1> DEFINE Goal == \A j \in Jobs : EntriesOf(history[j], j)' /\ LastIs(history'[j], newest'[j])
           Same == \A k \in Runs : run[k].pc \in {"executing", "done", "dead"} =>
                     /\ run'[k].job = run[k].job
                     /\ run'[k].pc \in {"executing", "done", "dead"}
                     /\ run'[k].pc = "done" <=> run[k].pc = "done"
<1>a. ASSUME Same, NEW j \in Jobs, history'[j] = history[j], newest'[j] = newest[j]
      PROVE  EntriesOf(history[j], j)' /\ LastIs(history'[j], newest'[j])
  <2> DEFINE s == history[j]
  <2>1. s \in Seq(Entry) /\ EntriesOf(s, j)
    BY <1>r
  <2>2. \A n \in 1..Len(s) : s[n].run \in Runs
    BY <2>1, EntryRuns
  <2>3. \A n \in 1..Len(s) :
          /\ run'[s[n].run].job = j
          /\ run'[s[n].run].pc \in {"executing", "done", "dead"}
          /\ s[n].status = "ended" <=> run'[s[n].run].pc = "done"
    BY <1>a, <2>1, <2>2 DEF EntriesOf
  <2> QED BY <1>a, <1>r, <2>3 DEF EntriesOf
<1>b. ASSUME Same, UNCHANGED <<history, newest>> PROVE Goal
  BY <1>a, <1>b
<1> USE DEF sjRuns
<1>1. ASSUME Quiet PROVE Goal
  <2>1. Same /\ newest' = newest /\ run' = run
    BY <1>1 DEF Quiet
  <2>2. CASE UNCHANGED <<history, limit>>
    BY <1>b, <2>1, <2>2
  <2>3. ASSUME NEW n \in HistoryLimits, history' = [j \in Jobs |-> Newest(history[j], n)]
        PROVE  Goal
    <3> SUFFICES ASSUME NEW j \in Jobs
                 PROVE  EntriesOf(history[j], j)' /\ LastIs(history'[j], newest'[j])
      OBVIOUS
    <3>1. EntriesOf(Newest(history[j], n), j) /\ LastIs(Newest(history[j], n), newest[j])
      BY <1>r, PrunedHistory
    <3>2. history'[j] = Newest(history[j], n)
      BY <2>3
    <3> QED BY <2>1, <3>1, <3>2 DEF EntriesOf
  <2> QED BY <1>1, <2>2, <2>3 DEF Quiet
<1>2. ASSUME NEW d \in Dispatchers,
             GetDueJobs(d) \/ BrokerFails(d) \/ (\E failed \in BOOLEAN : FilterBlocked(d, failed))
               \/ \E j \in Jobs : AdvanceNextRun(d, j)
      PROVE  Goal
  BY <1>2, <1>b DEF GetDueJobs, BrokerFails, FilterBlocked, AdvanceNextRun
<1>3. ASSUME NEW j \in Jobs, NEW k \in Runs, Queued(k, j), UNCHANGED <<history, newest>> PROVE Goal
  BY <1>3, <1>b, <1>t, RunMoves
<1>4. ASSUME NEW d \in Dispatchers, NEW k \in Runs, StartRun(d), Queued(k, dispatch[d].job)
      PROVE  Goal
  <2>1. dispatch[d].job \in Jobs
    BY <1>4, <1>t DEF StartRun, Named
  <2> QED BY <1>3, <1>4, <2>1 DEF StartRun
<1>5. ASSUME NEW k \in Runs, FindJob(k) PROVE Goal
  <2>1. Same
    BY <1>5, <1>t, RunMoves DEF RunMoved
  <2> QED BY <1>5, <1>b, <2>1 DEF FindJob
<1>6. ASSUME NEW k \in Runs, CreateRun(k) PROVE Goal
  <2> DEFINE j == run[k].job
             s == history[j]
             x == [run |-> k, status |-> "running"]
  <2>0. j \in Jobs /\ x \in Entry
    BY <1>6, <1>t DEF CreateRun, Named, Entry
  <2>1. RunMoved(k, "found", "executing")
    BY <1>6, <1>t, RunMoves
  <2>2. Same
    BY <2>1 DEF RunMoved
  <2>3. /\ history'[j] = Append(s, x) /\ newest'[j] = k
        /\ \A i \in Jobs \ {j} : history'[i] = history[i] /\ newest'[i] = newest[i]
    BY <1>6, <1>t, <2>0 DEF CreateRun
  <2>4. s \in Seq(Entry) /\ EntriesOf(s, j) /\ Len(s) \in Nat
    BY <1>r, <2>0
  <2>5. EntriesOf(s, j) /\ \A n \in 1..Len(s) : s[n].run \in Runs
    BY <2>4, EntryRuns
  <2>6. \A n \in 1..Len(s) :
          /\ run'[s[n].run].job = j
          /\ run'[s[n].run].pc \in {"executing", "done", "dead"}
          /\ s[n].status = "ended" <=> run'[s[n].run].pc = "done"
    BY <2>2, <2>5 DEF EntriesOf
  <2>7. /\ x.run = k /\ x.status = "running" /\ run'[k].job = j /\ run'[k].pc = "executing"
    BY <2>1 DEF RunMoved
  <2>8. /\ Len(Append(s, x)) = Len(s) + 1 /\ Append(s, x)[Len(s) + 1] = x
        /\ \A n \in 1..Len(s) : Append(s, x)[n] = s[n]
    BY <2>0, <2>4, AddedEntry
  <2> DEFINE u == Append(s, x)
  <2> HIDE DEF s, x, j, u
  <2>9. \A n \in 1..Len(u) :
          /\ run'[u[n].run].job = j
          /\ run'[u[n].run].pc \in {"executing", "done", "dead"}
          /\ u[n].status = "ended" <=> run'[u[n].run].pc = "done"
    <3> SUFFICES ASSUME NEW n \in 1..Len(u)
                 PROVE  /\ run'[u[n].run].job = j
                        /\ run'[u[n].run].pc \in {"executing", "done", "dead"}
                        /\ u[n].status = "ended" <=> run'[u[n].run].pc = "done"
      OBVIOUS
    <3>1. n \in 1..Len(s) \/ n = Len(s) + 1
      BY <2>4, <2>8 DEF u
    <3>2. CASE n \in 1..Len(s)
      BY <2>6, <2>8, <3>2 DEF u
    <3>3. CASE n = Len(s) + 1
      BY <2>7, <2>8, <3>3 DEF u
    <3> QED BY <3>1, <3>2, <3>3
  <2>11. LastIs(history'[j], newest'[j])
    BY <2>3, <2>4, <2>7, <2>8 DEF LastIs
  <2>12. ASSUME NEW i \in Jobs \ {j}
         PROVE  EntriesOf(history[i], i)' /\ LastIs(history'[i], newest'[i])
    BY <1>a, <2>2, <2>3
  <2>13. ASSUME NEW i \in Jobs, i = j
         PROVE  EntriesOf(history[i], i)' /\ LastIs(history'[i], newest'[i])
    BY <2>3, <2>9, <2>11, <2>13 DEF EntriesOf, u
  <2> QED BY <2>12, <2>13
<1>7. ASSUME NEW k \in Runs, FinishRun(k) PROVE Goal
  <2> DEFINE j == run[k].job
             s == history[j]
             v == Ended(s, k)
             u == Newest(v, limit)
  <2>0. j \in Jobs
    BY <1>7, <1>t DEF FinishRun, Named
  <2>1. RunMoved(k, "executing", "done")
    BY <1>7, <1>t, RunMoves
  <2>3. /\ history'[j] = u /\ newest' = newest
        /\ \A i \in Jobs \ {j} : history'[i] = history[i]
    BY <1>7, <1>t, <2>0 DEF FinishRun
  <2>4. s \in Seq(Entry) /\ EntriesOf(s, j) /\ LastIs(s, newest[j])
    BY <1>r, <2>0
  <2>5. /\ v \in Seq(Entry) /\ Len(v) = Len(s)
        /\ \A n \in 1..Len(s) :
             /\ v[n].run = s[n].run
             /\ v[n].status = IF s[n].run = k THEN "ended" ELSE s[n].status
    BY <2>4, EndedEntries
  <2>6. \A n \in 1..Len(s) : s[n].run \in Runs
    BY <2>4, EntryRuns
  <2> HIDE DEF s, v, u
  <2>7. \A n \in 1..Len(v) :
          /\ run'[v[n].run].job = j
          /\ run'[v[n].run].pc \in {"executing", "done", "dead"}
          /\ v[n].status = "ended" <=> run'[v[n].run].pc = "done"
    <3> SUFFICES ASSUME NEW n \in 1..Len(s)
                 PROVE  /\ run'[s[n].run].job = j
                        /\ run'[s[n].run].pc \in {"executing", "done", "dead"}
                        /\ v[n].status = "ended" <=> run'[s[n].run].pc = "done"
      BY <2>5
    <3>1. CASE s[n].run = k
      BY <2>1, <2>5, <3>1 DEF RunMoved
    <3>2. CASE s[n].run # k
      BY <2>1, <2>4, <2>5, <2>6, <3>2 DEF RunMoved, EntriesOf
    <3> QED BY <3>1, <3>2
  <2>8. LastIs(v, newest[j])
    <3>1. Len(s) \in Nat /\ (Len(s) > 0 => Len(s) \in 1..Len(s))
      BY <2>4
    <3> QED BY <2>4, <2>5, <3>1 DEF LastIs
  <2>9. /\ \A m \in 1..Len(u) : \E q \in 1..Len(v) : u[m] = v[q]
        /\ LastIs(u, newest[j])
    <3>1. limit \in Nat \ {0}
      BY <1>t, JobsAssumption
    <3>2. \A m \in 1..Len(u) : \E q \in 1..Len(v) : u[m] = v[q]
      BY <2>5, <3>1, NewestEntries DEF u
    <3>3. LastIs(u, newest[j])
      BY <1>t, <2>5, <2>8, PrunedHistory DEF u
    <3> QED BY <3>2, <3>3
  <2>10. \A n \in 1..Len(u) :
           /\ run'[u[n].run].job = j
           /\ run'[u[n].run].pc \in {"executing", "done", "dead"}
           /\ u[n].status = "ended" <=> run'[u[n].run].pc = "done"
    BY <2>7, <2>9
  <2>11. ASSUME NEW i \in Jobs, i = j
         PROVE  EntriesOf(history[i], i)' /\ LastIs(history'[i], newest'[i])
    BY <2>3, <2>9, <2>10, <2>11 DEF EntriesOf
  <2>12. ASSUME NEW i \in Jobs, i # j
         PROVE  EntriesOf(history[i], i)' /\ LastIs(history'[i], newest'[i])
    <3> DEFINE w == history[i]
    <3>1. w \in Seq(Entry) /\ EntriesOf(w, i) /\ LastIs(w, newest[i]) /\ history'[i] = w
      BY <1>r, <2>3, <2>12
    <3>2. \A n \in 1..Len(w) : w[n].run \in Runs /\ w[n].run # k
      BY <2>12, <3>1, EntryRuns DEF EntriesOf
    <3> HIDE DEF w
    <3>3. \A n \in 1..Len(w) :
            /\ run'[w[n].run].job = i
            /\ run'[w[n].run].pc \in {"executing", "done", "dead"}
            /\ w[n].status = "ended" <=> run'[w[n].run].pc = "done"
      BY <2>1, <3>1, <3>2 DEF EntriesOf, RunMoved
    <3> QED BY <2>3, <3>1, <3>3 DEF EntriesOf
  <2> QED BY <2>11, <2>12
<1>8. ASSUME JobsRestart PROVE Goal
  <2>1. \A k \in Runs : /\ run'[k].job = run[k].job
                        /\ run'[k].pc = run[k].pc \/ (run[k].pc \in Alive /\ run'[k].pc = "dead")
    BY <1>8, <1>t, RestartMoves
  <2>2. Same
    BY <2>1 DEF Alive
  <2> QED BY <1>8, <1>b, <2>2 DEF JobsRestart
<1> HIDE DEF Goal
<1>9. Goal
  BY <1>0, <1>1, <1>2, <1>3, <1>4, <1>5, <1>6, <1>7, <1>8, StepKinds DEF RunNow
<1> QED BY <1>9 DEF Goal, Recorded, EntriesOf, LastIs
-----------------------------------------------------------------------------
\* At the start there is nothing.
LEMMA InitInv == SjInit => SjInv
<1>0. SUFFICES ASSUME SjInit PROVE SjInv
  OBVIOUS
<1>1. SjTypeOK
  <2>1. sjDeployment \in JobDeployments /\ sjDeployment.edits \in Nat /\ sjDeployment.restarts \in Nat
    BY <1>0, JobsAssumption DEF SjInit
  <2>2. edit \in [Editors -> EditInfo] /\ dispatch \in [Dispatchers -> DispatchInfo]
    BY <1>0, EditRecords, DispatchTypes DEF SjInit, Requests
  <2>3. run \in [Runs -> RunInfo]
    BY <1>0 DEF SjInit, NoRun, RunInfo
  <2>4. edits \in 0..sjDeployment.edits /\ sjRestarts \in 0..sjDeployment.restarts
    BY <1>0, <2>1 DEF SjInit
  <2>5. history \in [Jobs -> Seq([run : Runs, status : {"running", "ended"}])]
    BY <1>0 DEF SjInit
  <2> QED BY <1>0, <2>1, <2>2, <2>3, <2>4, <2>5 DEF SjInit, SjTypeOK
<1>a. /\ \A j \in Jobs : sjob[j] = None /\ newest[j] = None /\ Len(history[j]) = 0
      /\ \A d \in Dispatchers : dispatch[d].pc = "idle" /\ dispatch[d].todo = {}
      /\ \A k \in Runs : run[k].pc = "unused"
      /\ Exists = {}
  BY <1>0 DEF SjInit, NoDispatch, NoRun, Exists
<1>2. Named
  BY <1>0, <1>a, EditRecords DEF SjInit, Named
<1>3. RunningHasRun
  BY <1>a DEF RunningHasRun
<1>4. Guarded
  BY <1>a DEF Guarded, Queueing, Alive
<1>5. Recorded
  BY <1>a DEF Recorded
<1> QED BY <1>1, <1>2, <1>3, <1>4, <1>5 DEF SjInv

\* The invariant is inductive.
THEOREM Invariance == SjSpec => []SjInv
<1>1. SjInv /\ [SjNext]_sjVars => SjInv'
  BY StepTypes, StepNamed, StepRunning, StepGuarded, StepRecorded DEF SjInv
<1> QED BY <1>1, InitInv, PTL DEF SjSpec

\* JobsSound: with or without Celery, a job marked running has a run or a
\* dispatcher that will take the mark away, or a restart or the broker lost it.
THEOREM JobsSoundSafe == SjSpec => []JobsSound
<1>1. SjInv => JobsSound
  BY DEF SjInv, JobsSound
<1> QED BY <1>1, Invariance, PTL

\* LoopNeverOverlaps: the portal's loop alone never has two runs of a job.
THEOREM LoopNeverOverlapsSafe == SjSpec => []LoopNeverOverlaps
<1>1. SjInv => LoopNeverOverlaps
  <2> SUFFICES ASSUME SjInv, ~sjDeployment.celery, ~sjDeployment.manual, NEW j \in Jobs
               PROVE  Cardinality(LiveRuns(j)) <= 1
    BY DEF LoopNeverOverlaps
  <2>1. \A k, l \in LiveRuns(j) : k = l
    BY DEF SjInv, Guarded, LiveRuns, Alive
  <2>2. CASE LiveRuns(j) = {}
    BY <2>2, FS_EmptySet
  <2>3. ASSUME NEW k \in LiveRuns(j) PROVE Cardinality(LiveRuns(j)) <= 1
    <3>1. LiveRuns(j) = {k}
      BY <2>1, <2>3
    <3> QED BY <3>1, FS_Singleton
  <2> QED BY <2>2, <2>3
<1> QED BY <1>1, Invariance, PTL

\* NewestKept: no pruning removes the run that started last from the history,
\* where it is shown as ended when, and only when, it is.
THEOREM NewestKeptSafe == SjSpec => []NewestKept
<1>1. SjInv => NewestKept
  <2> SUFFICES ASSUME SjInv, NEW j \in Jobs, newest[j] # None
               PROVE  \E n \in DOMAIN history[j] :
                        /\ history[j][n].run = newest[j]
                        /\ history[j][n].status = "ended" <=> run[newest[j]].pc = "done"
    BY DEF NewestKept
  <2>1. history[j] \in Seq(Entry)
    BY DEF SjInv, SjTypeOK, Entry
  <2>2. Len(history[j]) > 0 /\ history[j][Len(history[j])].run = newest[j]
    BY DEF SjInv, Recorded
  <2>3. Len(history[j]) \in 1..Len(history[j]) /\ DOMAIN history[j] = 1..Len(history[j])
    BY <2>1, <2>2
  <2>4. history[j][Len(history[j])].status = "ended" <=> run[newest[j]].pc = "done"
    BY <2>2, <2>3 DEF SjInv, Recorded
  <2> QED BY <2>2, <2>3, <2>4
<1> QED BY <1>1, Invariance, PTL
=============================================================================
