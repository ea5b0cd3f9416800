SPECIFICATION Spec
CONSTANTS
  Paths = {p1}
  FileMeta = {m1}
  NoFile = NoFile
  TOMBSTONE_LIFETIME = 1
  MAX_DELETED_ENTRIES = 1
  MaxClock = 3
  MaxTombstones = 2
PROPERTIES
  TombstonesLeaveThroughDeleter
