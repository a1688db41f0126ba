\* One call at a time against every rule, toggle, job and cleanup operation.
SPECIFICATION Spec
CONSTANTS
  r1 = r1  r2 = r2  p1 = p1  p2 = p2  u1 = u1  u2 = u2  g1 = g1  t1 = t1  j1 = j1
  None = None
  Reqs = {r1}
  Procs = {p1}
  Users = {u1, u2}
  Groups = {g1}
  Members <- MCMembers
  Admins = {u2}
  Targets = {t1}
  SettingChoices <- MCSettings
  SJobs = {j1}
  SJobTarget <- MCSJobTarget
  Crashes = TRUE
INVARIANTS TypeOK FourEyes RunsOnce
CHECK_DEADLOCK FALSE
