SPECIFICATION ServicesSpec
CONSTANTS
  NoVal = NoVal
  n1 = n1
  n2 = n2
  Components = {1, 2}
  Kind <- ImageAndAlias
  Vulnerable <- SecondPush
  MaxContent = 2
  Again = {1, 2}
  QueueSize = 1
  PageLimit = 1
  Scheduled = FALSE
  MaxRequests = 1
  MaxFaults = 1
SYMMETRY Symmetry
INVARIANTS
  NoFalseClean
  BackupWhole
  ReferencesHold
  RegistrySound
  Exclusive
  GuardCounts
PROPERTIES
  SessionsCurrent
  ReplicationTrue
  CleanupTrue
  EventsRecorded
  OmittedKept
  MigrationTrue
CHECK_DEADLOCK FALSE
