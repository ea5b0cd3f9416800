SPECIFICATION Spec
CONSTANTS
  u = u
  v = v
  Zero = Zero
  Chunks = {0, 8}
  Contents <- MCContents
  Replicas = 2
  BufferSize = 2
  GroupSize = 2
  MaxInt = 7
  Calls = {c1, c2, c3}
  Inodes = {1, 2, 3, 4}
  FaultKinds <- MCFaultKinds
  MaxFaults <- MCMaxFaults
  MaxTotal = 2
CHECK_DEADLOCK FALSE
SYMMETRY Symmetry
CONSTRAINT FewFaults
INVARIANTS
  TypeOK
  StoredIntact
  ReadsWhole
  DeletedGone
