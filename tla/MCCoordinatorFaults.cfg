SPECIFICATION Spec
CONSTANTS
  a = a
  b = b
  Paths = {p}
  NoFile = NoFile
  TOMBSTONE_LIFETIME = 1
  MAX_DELETED_ENTRIES = 10
  MaxClock = 0
  Nodes = {n1, n2}
  Families = {v4}
  ReplicationFactor = 2
  IndexModulus = 2
  FaultKinds <- MCFaultKinds
  MaxFaults <- MCMaxFaults
  Contents <- OneChunk
  ChunkSize = 1
  Puts = {w1, w2}
  Gets = {r1}
  Dels = {}
  MaxStops = 1
  MaxCrashes = 1
  MaxRestarts = 1
  MaxCalls = 1
  MaxShortWrites = 1
  MaxShortReads = 1
  MaxStreams = 1
  MaxLostRpcs = 1
  MaxTotal = 2
CHECK_DEADLOCK FALSE
CONSTRAINT FewFaults
SYMMETRY Symmetry
INVARIANTS
  ReplicasDurable
  ChunksNotShared
  ReadsAvailable
PROPERTIES
  ImplementsFileSystem
