--------------------------- MODULE MCCoordinator ---------------------------
(* The coordinator with small constants: contents, bounds on faults and the *)
(* symmetry of nodes and requests.                                          *)
EXTENDS Coordinator, FiniteSetsExt, TLC

CONSTANTS a, b, MaxStops, MaxCrashes, MaxRestarts, MaxCalls, MaxShortWrites,
          MaxShortReads, MaxStreams, MaxLostRpcs, MaxTotal

OneChunk == {<<a>>}
TwoChunks == {<<a, b>>}

MCFaultKinds == {"rpc", "stop", "crash", "restart", "call", "write", "read",
                 "stream", "race"}
\* Races in the registry's map are left to the run of the registry alone.
MCMaxFaults ==
  [rpc |-> MaxLostRpcs, stop |-> MaxStops, crash |-> MaxCrashes,
   restart |-> MaxRestarts, call |-> MaxCalls, write |-> MaxShortWrites,
   read |-> MaxShortReads, stream |-> MaxStreams, race |-> 0]

\* Bound: faults of all kinds together.
FewFaults == MapThenSumSet(LAMBDA k : faults[k], FaultKinds) <= MaxTotal

Symmetry == Permutations(Nodes) \cup Permutations(Puts) \cup Permutations(Dels)
=============================================================================
