SPECIFICATION ServingSpec
CONSTANTS
  None = None
  Readers = {r1, r2}
  Mutable = TRUE
  MaxVersion = 3
  c1 = c1
  c2 = c2
SYMMETRY Symmetry
INVARIANTS
  HostedServes
  CacheCoherent
  DigestHolds
  GroupFaithful
  Accounted
PROPERTIES
  AccessAgrees
  SessionKept
CHECK_DEADLOCK FALSE
