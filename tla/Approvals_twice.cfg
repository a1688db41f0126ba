\* Two approve calls of one request overlap.
SPECIFICATION Spec
CONSTANTS
  r1 = r1  r2 = r2  p1 = p1  p2 = p2  u1 = u1  u2 = u2  g1 = g1  t1 = t1  j1 = j1
  None = None
  Reqs = {r1}
  Procs = {p1, p2}
  Users = {u1, u2}
  Groups = {}
  Members <- MCNoMembers
  Admins = {u1, u2}
  Targets = {t1}
  SettingChoices <- MCOneSetting
  SJobs = {}
  SJobTarget <- MCNoSJobTarget
  Crashes = TRUE
INVARIANT RunsOnce
CHECK_DEADLOCK FALSE
