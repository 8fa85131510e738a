SPECIFICATION Spec
CONSTANTS
  Uids = {d1, d2}
  Regions = {r1, r2}
  Nowhere = Nowhere
  Tasks = {t1, t2}
  None = None
  MaxId = 3
  MaxCuts = 1
INVARIANTS WholeRegions
