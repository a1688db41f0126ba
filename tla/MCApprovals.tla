---------------------------- MODULE MCApprovals ----------------------------
\* Small instances of Approvals for TLC.
EXTENDS Approvals, TLC

CONSTANTS r1, r2, p1, p2, u1, u2, g1, t1, j1

MCMembers == (g1 :> {u2})
MCNoMembers == [g \in {} |-> {}]
MCSettings ==
  {[required |-> TRUE, selfOk |-> FALSE, approvers |-> {g1}],
   [required |-> TRUE, selfOk |-> TRUE, approvers |-> {u1}]}
MCOneSetting == {[required |-> TRUE, selfOk |-> FALSE, approvers |-> {}]}
MCSJobTarget == (j1 :> t1)
MCNoSJobTarget == [j \in {} |-> None]

MCSelfSetting == {[required |-> TRUE, selfOk |-> TRUE, approvers |-> {}]}

ProcSymmetry == Permutations(Procs)
=============================================================================
