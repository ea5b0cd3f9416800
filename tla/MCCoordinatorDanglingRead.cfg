SPECIFICATION Spec
CONSTANTS
  a = a
  b = b
  Paths = {p}
  NoFile = NoFile
  TOMBSTONE_LIFETIME = 1
  MAX_DELETED_ENTRIES = 10
  MaxClock = 0
  Nodes = {n1, n2}
  Families = {v4}
  ReplicationFactor = 2
  IndexModulus = 2
  FaultKinds <- MCFaultKinds
  MaxFaults <- MCMaxFaults
  Contents <- OneChunk
  ChunkSize = 1
  Puts = {w1}
  Gets = {r1}
  Dels = {d1}
  MaxStops = 0
  MaxCrashes = 0
  MaxRestarts = 0
  MaxCalls = 0
  MaxShortWrites = 0
  MaxShortReads = 0
  MaxStreams = 0
  MaxLostRpcs = 0
  MaxTotal = 1
CHECK_DEADLOCK FALSE
INVARIANTS
  ReadsFaithfulAlways
