CONSTANTS
  c1 = c1  pa = pa  pb = pb
  Rules = {r1, r2}
  Comps = {c1}
  Paths = {pa, pb}
  AssetsOf <- MCAssetsOf
  RuleForms <- MCRuleForms
  Batches <- MCBatches
  Requests = {q1, q2}
  Workers = {w1, w2}
  MaxId = 4
  MaxEdits = 1
  MaxFaults = 1
  None = None
SYMMETRY Symmetry
SPECIFICATION Spec
INVARIANTS TypeOK NoBypass CompletedStays WholeOrNothing
PROPERTY FirstVerdictStands
CHECK_DEADLOCK FALSE
