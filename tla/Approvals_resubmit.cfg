\* Two requests, one resubmitted from the other; no restart, so liveness holds.
SPECIFICATION FairSpec
CONSTANTS
  r1 = r1  r2 = r2  p1 = p1  p2 = p2  u1 = u1  u2 = u2  g1 = g1  t1 = t1  j1 = j1
  None = None
  Reqs = {r1, r2}
  Procs = {p1}
  Users = {u1, u2}
  Groups = {}
  Members <- MCNoMembers
  Admins = {u2}
  Targets = {t1}
  SettingChoices <- MCOneSetting
  SJobs = {}
  SJobTarget <- MCNoSJobTarget
  Crashes = FALSE
INVARIANTS SecretsErased
PROPERTY ApprovedSecretsGo
CHECK_DEADLOCK FALSE
