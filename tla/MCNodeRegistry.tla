--------------------------- MODULE MCNodeRegistry ---------------------------
(* The node registry and the data nodes' life cycle, with small constants. *)
EXTENDS NodeRegistry, FiniteSetsExt, TLC

CONSTANT MaxTotal

MCFaultKinds == {"rpc", "stop", "crash", "restart", "race"}
MCMaxFaults == [rpc |-> 1, stop |-> 2, crash |-> 2, restart |-> 1, race |-> 1]
MCMaxFaultsRestart ==
  [rpc |-> 0, stop |-> 1, crash |-> 1, restart |-> 1, race |-> 0]

\* Bound: faults of all kinds together.
FewFaults == MapThenSumSet(LAMBDA k : faults[k], FaultKinds) <= MaxTotal

NodeSymmetry == Permutations(Nodes) \cup Permutations(Families)
=============================================================================
