\* A second plan of the same stack replaces the reviewed one.
SPECIFICATION Spec
CONSTANTS
  s1 = s1  s2 = s2  p1 = p1  p2 = p2  d1 = d1  k1 = k1  k2 = k2
  None = None
  Stacks = {s1}
  Procs = {p1, p2}
  Defs = {d1}
  Sdn = {}
  Deployed <- MCDeployed
  TokenIds = {k1, k2}
  MaxJobs = 1
  Faults = {}
  Uses = {"destroy"}
INVARIANT RunsReviewedPlan
CHECK_DEADLOCK FALSE
