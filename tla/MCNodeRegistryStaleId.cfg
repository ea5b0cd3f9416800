SPECIFICATION Spec
CONSTANTS
  Nodes = {n1, n2}
  Families = {v4}
  ReplicationFactor = 2
  IndexModulus = 4
  FaultKinds <- MCFaultKinds
  MaxFaults <- MCMaxFaultsRestart
  MaxTotal = 3
PROPERTIES
  RegistrationGoesWithNode
