SPECIFICATION Spec
CONSTANTS
  a = a
  b = b
  Paths = {p}
  NoFile = NoFile
  TOMBSTONE_LIFETIME = 1
  MAX_DELETED_ENTRIES = 10
  MaxClock = 2
  Nodes = {n1, n2}
  Families = {v4}
  ReplicationFactor = 2
  IndexModulus = 2
  FaultKinds <- MCFaultKinds
  MaxFaults <- MCMaxFaults
  Contents <- OneChunk
  ChunkSize = 1
  Puts = {w1, w2}
  Gets = {r1}
  Dels = {d1, d2}
  MaxStops = 0
  MaxCrashes = 0
  MaxRestarts = 0
  MaxCalls = 1
  MaxShortWrites = 0
  MaxShortReads = 1
  MaxStreams = 0
  MaxLostRpcs = 0
  MaxTotal = 1
CHECK_DEADLOCK FALSE
SYMMETRY Symmetry
INVARIANTS
  TypeOK
  ReadsFaithful
  ReadersProtected
  ReplicasDurable
  ChunksNotShared
PROPERTIES
  ImplementsFileSystem
