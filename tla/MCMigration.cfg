CONSTANTS
  s1 = s1  s2 = s2  p1 = p1  p2 = p2  mount = mount  a = a  b = b
  Nodes = {n1}
  Stores = {s1, s2}
  Home = s1
  Paths = {p1, mount}
  KeyOf <- MountKeys
  Foreign = {mount}
  Contents = {a, b}
  SizeOf <- TwoSizes
  Clients = {c1}
  Migrations = {1, 2}
  MaxWrites = 1
  Deletes = TRUE
  Failures = TRUE
  Restarts = FALSE
  None = None
SPECIFICATION Spec
INVARIANT RowsServeLatest
CHECK_DEADLOCK FALSE
