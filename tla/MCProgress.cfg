SPECIFICATION ProgressSpec
CONSTANTS
  NoVal = NoVal
  Items = {1, 2, 3, 4, 5, 6, 7, 8}
  KindOf <- OneOfEach
  Names <- TheirNames
  Broken = {}
  Renamed = {}
  Scope = {"repositories", "blobs", "selectors", "privileges", "roles", "users", "rules"}
  Admins = {"a"}
  MaxFaults = 1
  MaxTroubles = 1
INVARIANTS
  ImportSound
PROPERTIES
  Covered
  JobsEnd
CHECK_DEADLOCK FALSE
