\* One stack, two calls and all that users can do; what must end does.
SPECIFICATION FairSpec
CONSTANTS
  s1 = s1  s2 = s2  p1 = p1  p2 = p2  d1 = d1  k1 = k1  k2 = k2
  None = None
  Stacks = {s1}
  Procs = {p1, p2}
  Defs = {d1}
  Sdn = {d1}
  Deployed <- MCNothing
  TokenIds = {k1}
  MaxJobs = 1
  Faults = {"rows", "ipam", "try", "loose", "pull"}
  Uses = {"drift", "approval", "delete", "edit"}
INVARIANTS TypeOK LocksLive OneTofu RowsAgree
PROPERTIES JobsEnd WaitersServed
CHECK_DEADLOCK FALSE
