SPECIFICATION Spec
CONSTANTS
  Nodes = {n1, n2}
  Families = {v4, v6}
  ReplicationFactor = 3
  IndexModulus = 3
  FaultKinds <- MCFaultKinds
  MaxFaults <- MCMaxFaults
  MaxTotal = 4
CONSTRAINT FewFaults
SYMMETRY NodeSymmetry
INVARIANTS
  TypeOK
  AddressUnique
  RegisteredAsIssued
  IdOwner
  RunningNodesListed
  PlacementSpread
