\* Two stacks that both contain a VNet; runners may die and keep their locks, and the
\* portal may restart.
SPECIFICATION Spec
CONSTANTS
  s1 = s1  s2 = s2  p1 = p1  p2 = p2  d1 = d1  k1 = k1  k2 = k2
  None = None
  Stacks = {s1, s2}
  Procs = {p1, p2}
  Defs = {d1}
  Sdn = {d1}
  Deployed <- MCNothing
  TokenIds = {k1}
  MaxJobs = 2
  Faults = {"runner", "crash"}
  Uses = {"destroy"}
CONSTRAINT FewRuns
SYMMETRY AllSymmetry
INVARIANTS SdnSerial RowsAgree
CHECK_DEADLOCK FALSE
