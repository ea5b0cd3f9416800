---------------------------- MODULE MCDFSClient ----------------------------
(* Clients with small constants: a file of three units, sent in two pieces *)
(* and stored in two chunks, the second at an offset that overflows.       *)
EXTENDS DFSClient

CONSTANTS p, a, b, c

MCLocalFiles == [q \in {p} |-> <<a, b, c>>]
MCFaultKinds == {"stream", "open", "read", "node", "restart"}
=============================================================================
