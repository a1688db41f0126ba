---------------------------- MODULE MCAutomation ----------------------------
(***************************************************************************)
(* What runs in the background besides stacks: Git synchronisation and     *)
(* scheduled jobs.  The two share no table, lock or file, so one run       *)
(* checks each of them by itself: `part' says which one moves, and the     *)
(* other stays in an initial state.                                        *)
(***************************************************************************)
EXTENDS GitSync, ScheduledJobs, TLC

CONSTANTS i1, e1  \* an item of the repository, an editor

MCSync(celery, subdir, most, ops) ==
  [celery |-> celery, subdir |-> subdir, restarts |-> most, moves |-> ops]
MCSyncs == {MCSync(FALSE, FALSE, 0, 1), MCSync(FALSE, TRUE, 1, 1), MCSync(TRUE, FALSE, 0, 0)}

MCJobs(celery, manual, most, ops) ==
  [celery |-> celery, manual |-> manual, editors |-> {e1}, restarts |-> most, edits |-> ops]
MCJobDeployments == {MCJobs(FALSE, FALSE, 0, 2), MCJobs(FALSE, FALSE, 1, 1),
                     MCJobs(FALSE, TRUE, 0, 1), MCJobs(TRUE, FALSE, 1, 1)}

VARIABLE part

allVars == <<part, gitVars, sjVars>>

OneOf(S) == CHOOSE x \in S : TRUE

AllInit ==
  /\ part \in {"git", "schedules"}
  /\ GitInit /\ SjInit
  /\ part # "git" => deployment = OneOf(Deployments) /\ config = "enabled"
  /\ part # "schedules" => /\ sjDeployment = OneOf(JobDeployments)
                           /\ limit = OneOf(HistoryLimits)

AllNext ==
  /\ UNCHANGED part
  /\ \/ part = "git" /\ GitNext /\ UNCHANGED sjVars
     \/ part = "schedules" /\ SjNext /\ UNCHANGED gitVars

\* GitFairness, for the part that moves.
AllFairness ==
  \A t \in SyncTasks : WF_allVars(part = "git" /\ SyncStep(t) /\ UNCHANGED <<part, sjVars>>)

AllSpec == AllInit /\ [][AllNext]_allVars /\ AllFairness
=============================================================================
