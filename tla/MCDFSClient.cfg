SPECIFICATION FairSpec
CONSTANTS
  p = p
  a = a
  b = b
  c = c
  Paths = {p}
  NoFile = NoFile
  LocalFiles <- MCLocalFiles
  Buffer = 2
  ChunkSize = 2
  MaxInt = 1
  Window = 1
  Puts = {w1, w2}
  Gets = {r1}
  Dels = {d1}
  FaultKinds <- MCFaultKinds
  MaxFaults = 1
CHECK_DEADLOCK FALSE
INVARIANTS
  TypeOK
  UploadTruth
  CommittedWhole
  DownloadTruth
PROPERTIES
  FuturesReady
