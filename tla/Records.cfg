\* One request for approval and two calls; one stack and its history; one pool; one
\* VM with snapshots and one with copies; one playbook, two users and a
\* group; two firewall commits; two replications.
SPECIFICATION AllSpec
CONSTANTS
  None = None
  r1 = r1  r2 = r2  p1 = p1  p2 = p2  u1 = u1  u2 = u2  g1 = g1  t1 = t1  j1 = j1
  Reqs = {r1}
  Procs = {p1, p2}
  Users = {u1}
  Groups = {}
  Members <- MCNoMembers
  Admins = {u1}
  Targets = {t1}
  SettingChoices <- MCSelfSetting
  SJobs = {}
  SJobTarget <- MCNoSJobTarget
  Crashes = TRUE
  y1 = y1  y2 = y2  o1 = o1  w1 = w1  w2 = w2
  Yamls = {y1, y2}
  Owners = {o1}
  Writers = {w1, w2}
  VersionCap = 1
  MaxEdits = 3
  MaxStacks = 2
  EditDeployments <- MCEdits
  a1 = a1  a2 = a2  v1 = v1  v2 = v2  s1 = s1  b1 = b1  d1 = d1
  PoolIds = {a1, a2}
  Vms = {v1, v2}
  Subjects = {s1}
  Presets = {b1}
  Deploys = {d1}
  Away = {v2}
  Templates = {}
  Quotas <- MCQuotas
  MaxRows = 2
  PoolDeployments <- MCPoolDeployments
  n1 = n1  n2 = n2  n3 = n3
  SnapJobs = {n1}
  SnapRuns = {n2, n3}
  KeepLast = 1
  KeepDaily = 0
  KeepTier <- MCKeepTier
  MaxSnaps = 3
  MaxWeek = 2
  SnapDeployments <- MCSnapDeployments
  k1 = k1  k2 = k2  x1 = x1  c1 = c1  c2 = c2  m1 = m1
  CfgKeys = {k1, k2}
  CfgValues = {x1}
  Identity = {k2}
  Restorers = {c1, c2}
  CfgJobs = {m1}
  CfgKeepLast = 1
  MaxLines = 1
  CfgDeployments <- MCCfgDeployments
  z1 = z1  ask1 = ask1
  PpUsers = {u1}
  PpGroups = {g1}
  Playbooks = {z1}
  Asks = {ask1}
  MaxChanges = 3
  f1 = f1  f2 = f2  v3 = v3  v4 = v4  h1 = h1  h2 = h2  h3 = h3  x2 = x2  x3 = x3
  FwStacks = {f1, f2}
  FwGuests <- MCFwGuests
  Strangers = {w1}
  GroupNames = {h1, h2}
  SharedGroups = {h3}
  FwRules = {x2, x3}
  FwSpecs <- MCFwSpecs
  MaxSpecEdits = 1
  FwDeployments <- MCFwDeployments
  e1 = e1  e2 = e2  q1 = q1  q2 = q2  q3 = q3  st1 = st1  st2 = st2  m2 = m2  m3 = m3
  RepTemplates = {e1, e2}
  SourceNode <- MCSourceNode
  SourceVmid <- MCSourceVmid
  RepNodes = {q1, q2, q3}
  RepStorages = {st1, st2}
  SharedStorages = {st2}
  RepTargets <- MCTargets
  RepJobs = {m2, m3}
  TopVmid = 5
  RepDeployments <- MCRepDeployments
INVARIANTS
  UndecidedNeverRan SecretsErased ExecutedRan PoolsSound RotationSound AnswersSound
  CommitsSound CopiesSound
PROPERTIES
  ClosedIsFinal HistoryComplete EditsSound RestoresSound NewestIsSeen
  DestroyRemovesGroups CleansOnlyOwn
CHECK_DEADLOCK FALSE
