--------------------------- MODULE MCStackDeploy ---------------------------
\* Small instances of StackDeploy for TLC.
EXTENDS StackDeploy, TLC

CONSTANTS s1, s2, p1, p2, d1, k1, k2

MCNothing == [s \in Stacks |-> None]
MCDeployed == [s \in Stacks |-> d1]

\* Bound: of the jobs, at most one destroys.
OneDestroy == \A i, j \in JobIds : job[i] # None /\ job[j] # None /\ job[i].op = "destroy"
                                     => i = j \/ job[j].op # "destroy"

\* Bound: at most one runner has died since the portal was started.
OneDeath == Cardinality({s \in Stacks : Locked(s) /\ At(lock[s], "idle")}) <= 1

\* Bound: a destroy is planned of a stack that is deployed.
Destroyable == \A p \in Procs : At(p, "plan") /\ call[p].op = "destroy" => infra[call[p].stack] # None

FewRuns == OneDestroy /\ OneDeath /\ Destroyable

AllSymmetry == Permutations(Procs) \cup Permutations(Stacks)
=============================================================================
