CONSTANTS
  s1 = s1
  Nodes = {n1}
  Stores = {s1, s2}
  Home = s1
  Keys = {k1}
  Uploads = {u1}
  MinAge = 2
  LockTTL = 1
  MaxUpload = 1
  MaxDelay = 1
  MaxTime = 4
  MaxUsed = 1
  Unplaced = Unplaced
  None = None
SYMMETRY Symmetry
SPECIFICATION Spec
INVARIANTS TypeOK SparesLive
CHECK_DEADLOCK FALSE
