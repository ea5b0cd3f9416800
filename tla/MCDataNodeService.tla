------------------------ MODULE MCDataNodeService ------------------------
(* A chunk directory with small constants: one chunk number that is used   *)
(* again after a restart and one that no int can hold.                     *)
EXTENDS DataNodeService, FiniteSetsExt, TLC

CONSTANTS u, v, MaxTotal

MCContents == {<<u, v, u>>, <<v, v>>}
MCFaultKinds == {"restart", "crash", "call", "open", "write", "read", "unlink"}
MCMaxFaults == [f \in MCFaultKinds |-> 1]

\* Bound: faults of all kinds together.
FewFaults == MapThenSumSet(LAMBDA f : faults[f], FaultKinds) <= MaxTotal

Symmetry == Permutations(Calls)
=============================================================================
