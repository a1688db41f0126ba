\* A stack is deployed again.
SPECIFICATION Spec
CONSTANTS
  i1 = i1  i2 = i2  v1 = v1  v2 = v2  v3 = v3  s1 = s1  d1 = d1  d2 = d2  d3 = d3
  None = None
  Ips = {i1, i2}
  Vms = {v1, v2, v3}
  IpOf <- MCIpOf
  Stacks = {s1}
  StackOf <- MCStackOf
  Deps = {d1, d2}
  Faults = {}
  Uses = {}
SYMMETRY DepSymmetry
INVARIANT RedeployAllowed
CHECK_DEADLOCK FALSE
