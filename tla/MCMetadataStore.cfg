SPECIFICATION FairSpec
CONSTANTS
  Paths = {p1, p2}
  FileMeta = {m1}
  NoFile = NoFile
  TOMBSTONE_LIFETIME = 1
  MAX_DELETED_ENTRIES = 2
  MaxClock = 4
  MaxTombstones = 3
INVARIANTS
  TypeOK
  CountMatchesDeque
  TombstonesInOrder
  MemoryBounded
PROPERTIES
  GracePeriodKept
  TombstonesEventuallyGo
