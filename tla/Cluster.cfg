\* Three deployments compete for two addresses; two stacks for three numbers and
\* two networks.
SPECIFICATION AllSpec
CONSTANTS
  None = None
  i1 = i1  i2 = i2  v1 = v1  v2 = v2  v3 = v3  s1 = s1  d1 = d1  d2 = d2  d3 = d3
  Ips = {i1, i2}
  Vms = {v1, v2, v3}
  IpOf <- MCIpOf
  Stacks = {s1}
  StackOf <- MCStackOf
  Deps = {d1, d2, d3}
  Faults = {}
  Uses = {"manual", "refresh"}
  a1 = a1  a2 = a2  b1 = b1  n1 = n1
  NwStacks = {a1, a2}
  Bridges = {b1}
  VNets = {n1}
  LastVmid = 2
  Names = {"web", "db"}
  Interfaces = {"scsi1", "scsi2"}
  NwDefinitions <- MCNwDefinitions
  Foreign = Foreign
  NwDeployments <- MCNwDeployments
SYMMETRY AllSymmetry
INVARIANTS
  TypeOK NoDoubleUse NoStrays SuggestionsWork
PROPERTIES
  LossesForeseen
CHECK_DEADLOCK FALSE
