------------------------- MODULE NodeRegistryProofs -------------------------
(***************************************************************************)
(* Safety of the node registry for any number of data nodes and network    *)
(* families and any number of stops, crashes, lost calls, races in the map *)
(* and restarts: addresses are registered once, ids name the node they     *)
(* were issued to, data nodes unregister only themselves, and running      *)
(* nodes are listed, each unless a fault it names came in between.         *)
(***************************************************************************)
EXTENDS NodeRegistry, FiniteSetTheorems, TLAPS

\* The inductive invariant.  RunningNodesListed needs IdOwner (a node that
\* stops unregisters its own id), which needs RegisteredAsIssued, which needs
\* next_node_id to lie above every id in use.
RegistryInv ==
  /\ TypeOK
  /\ AddressUnique
  /\ RegisteredAsIssued
  /\ IdOwner
  /\ RunningNodesListed

\* Counting a fault keeps the counters natural and never lowers one.
LEMMA FaultCounts ==
  ASSUME TypeOK, NEW k \in FaultKinds, Fault(k)
  PROVE  /\ faults' \in [FaultKinds -> Nat]
         /\ faults'[k] > 0
         /\ \A j \in FaultKinds : faults'[j] >= faults[j]
         /\ \A j \in FaultKinds : faults'[j] = 0 => faults[j] = 0
  BY DEF TypeOK, Fault

\* The kinds of fault the registry itself knows.
LEMMA KnownFaults ==
  /\ "rpc" \in FaultKinds /\ "stop" \in FaultKinds
  /\ "crash" \in FaultKinds /\ "restart" \in FaultKinds
  /\ "race" \in FaultKinds
  BY RegistryAssumption

\* Initially no node is registered and none runs.
LEMMA RegistryInvInit == Init => RegistryInv
  <1> SUFFICES ASSUME Init PROVE RegistryInv
    OBVIOUS
  <1>1. /\ DOMAIN EmptyRegistry = {} /\ EmptyRegistry \in [{} -> Nodes]
        /\ EmptyRegistry \in [{} -> DataNodeInfo]
    BY DEF EmptyRegistry
  <1>2. 1..(next_node_id - 1) = {}
    BY DEF Init
  <1>3. TypeOK
    BY <1>1, <1>2, RegistryAssumption DEF Init, TypeOK
  <1>4. AddressUnique /\ RegisteredAsIssued
    BY <1>1 DEF Init, AddressUnique, IsInjective, RegisteredAsIssued
  <1>5. IdOwner
    BY DEF Init, IdOwner
  <1>6. RunningNodesListed
    BY DEF Init, RunningNodesListed
  <1>. QED  BY <1>3, <1>4, <1>5, <1>6 DEF RegistryInv

\* The id RegisterDataNode hands out is fresh, and issued to the new node.
LEMMA IssueProperties ==
  ASSUME RegistryInv, NEW n \in Nodes, NEW f \in Families,
         Issue([node |-> n, family |-> f])
  PROVE  /\ next_node_id' = next_node_id + 1 /\ next_node_id' \in Nat \ {0}
         /\ next_node_id \notin DOMAIN registered_nodes
         /\ issued' \in [1..(next_node_id' - 1) -> Nodes]
         /\ next_node_id \in DOMAIN issued' /\ issued'[next_node_id] = n
         /\ \A id \in DOMAIN issued : id \in DOMAIN issued'
                                      /\ issued'[id] = issued[id]
         /\ next_node_index' = next_node_index
  <1>1. next_node_id \in Nat \ {0} /\ issued \in [1..(next_node_id - 1) -> Nodes]
    BY DEF RegistryInv, TypeOK
  <1>2. DOMAIN registered_nodes \subseteq 1..(next_node_id - 1)
    BY <1>1 DEF RegistryInv, RegisteredAsIssued
  <1>3. next_node_id \notin DOMAIN registered_nodes
    BY <1>1, <1>2
  <1>4. next_node_id' = next_node_id + 1 /\ next_node_index' = next_node_index
    BY DEF Issue
  <1>5. issued' = [id \in 1..next_node_id |->
                     IF id = next_node_id THEN n ELSE issued[id]]
    BY DEF Issue
  <1>6. \A id \in 1..next_node_id :
          id = next_node_id \/ id \in 1..(next_node_id - 1)
    BY <1>1
  <1>7. (next_node_id + 1) - 1 = next_node_id /\ next_node_id + 1 \in Nat \ {0}
    BY <1>1
  <1>8. issued' \in [1..next_node_id -> Nodes]
    BY <1>1, <1>5, <1>6
  <1>9. \A id \in 1..(next_node_id - 1) :
          id \in 1..next_node_id /\ id # next_node_id
    BY <1>1
  <1>10. next_node_id \in 1..next_node_id
    BY <1>1
  <1>11. next_node_id \in DOMAIN issued' /\ issued'[next_node_id] = n
    BY <1>5, <1>10
  <1>12. \A id \in DOMAIN issued : id \in DOMAIN issued'
                                   /\ issued'[id] = issued[id]
    BY <1>1, <1>5, <1>9
  <1>. QED  BY <1>3, <1>4, <1>7, <1>8, <1>11, <1>12

\* An accepted registration binds the fresh id to the new address.
LEMMA AssignProperties ==
  ASSUME RegistryInv, NEW n \in Nodes, NEW f \in Families,
         Assign([node |-> n, family |-> f])
  PROVE  /\ DOMAIN registered_nodes' = DOMAIN registered_nodes \cup {next_node_id}
         /\ registered_nodes'[next_node_id] = [node |-> n, family |-> f]
         /\ \A id \in DOMAIN registered_nodes :
              registered_nodes'[id] = registered_nodes[id]
  <1>1. next_node_id \notin DOMAIN registered_nodes
    BY IssueProperties DEF Assign
  <1>. QED  BY <1>1 DEF Assign, Insert, AssignedId

\* The registry part of the invariant after a registration that went into the
\* map; addresses stay unique when the search had found none like it.
LEMMA AssignKeeps ==
  ASSUME RegistryInv, NEW n \in Nodes, NEW f \in Families,
         Assign([node |-> n, family |-> f])
  PROVE  /\ DOMAIN registered_nodes' \subseteq Nat \ {0}
         /\ registered_nodes' \in [DOMAIN registered_nodes' -> DataNodeInfo]
         /\ RegisteredAsIssued'
         /\ ~Conflict([node |-> n, family |-> f]) /\ IsInjective(registered_nodes)
              => IsInjective(registered_nodes')
  <1> DEFINE info == [node |-> n, family |-> f]
  <1>1. info \in DataNodeInfo
    BY DEF DataNodeInfo
  <1>2. ~Conflict(info) =>
          \A id \in DOMAIN registered_nodes : registered_nodes[id] # info
    BY DEF Conflict, Range
  <1>3. /\ DOMAIN registered_nodes' = DOMAIN registered_nodes \cup {next_node_id}
        /\ registered_nodes'[next_node_id] = info
        /\ \A id \in DOMAIN registered_nodes :
             registered_nodes'[id] = registered_nodes[id]
    BY AssignProperties
  <1>4. /\ next_node_id \in Nat \ {0}
        /\ next_node_id \in DOMAIN issued' /\ issued'[next_node_id] = n
        /\ \A id \in DOMAIN issued : id \in DOMAIN issued'
                                     /\ issued'[id] = issued[id]
    BY IssueProperties DEF Assign, RegistryInv, TypeOK
  <1>5. /\ DOMAIN registered_nodes' \subseteq Nat \ {0}
        /\ registered_nodes' \in [DOMAIN registered_nodes' -> DataNodeInfo]
    <2>1. registered_nodes' =
            [id \in DOMAIN registered_nodes' |-> registered_nodes'[id]]
      BY DEF Assign, Insert
    <2>2. \A id \in DOMAIN registered_nodes' :
            registered_nodes'[id] \in DataNodeInfo
      BY <1>1, <1>3 DEF RegistryInv, TypeOK
    <2>3. DOMAIN registered_nodes' \subseteq Nat \ {0}
      BY <1>3, <1>4 DEF RegistryInv, TypeOK
    <2>. QED  BY <2>1, <2>2, <2>3
  <1>6. info.node = n
    OBVIOUS
  <1>7. SUFFICES RegisteredAsIssued'
                 /\ (~Conflict(info) /\ IsInjective(registered_nodes)
                       => IsInjective(registered_nodes'))
    BY <1>5
  <1> HIDE DEF info
  <1>8. ~Conflict(info) /\ IsInjective(registered_nodes)
          => IsInjective(registered_nodes')
    BY <1>2, <1>3 DEF IsInjective
  <1>9. RegisteredAsIssued'
    BY <1>3, <1>4, <1>6 DEF RegistryInv, RegisteredAsIssued
  <1>. QED  BY <1>8, <1>9

\* DataNodeServer::Start, whatever the coordinator answers.
LEMMA RegistryInvStart ==
  ASSUME RegistryInv, NEW n \in Nodes, NEW f \in Families, Start(n, f)
  PROVE  RegistryInv'
  <1> DEFINE info == [node |-> n, family |-> f]
  <1>1. up' = [up EXCEPT ![n] = TRUE] /\ up' \in [Nodes -> BOOLEAN]
    BY DEF Start, Serve, RegistryInv, TypeOK
  <1>2. CASE ~Conflict(info) /\ Assign(info) /\ StoreId(n) /\ UNCHANGED faults
    <2>1. /\ next_node_id' \in Nat \ {0} /\ next_node_index' = next_node_index
          /\ issued' \in [1..(next_node_id' - 1) -> Nodes]
          /\ next_node_id \in DOMAIN issued' /\ issued'[next_node_id] = n
          /\ \A id \in DOMAIN issued : id \in DOMAIN issued'
                                       /\ issued'[id] = issued[id]
      BY <1>2, IssueProperties DEF Assign
    <2>2. /\ DOMAIN registered_nodes' \subseteq Nat \ {0}
          /\ registered_nodes' \in [DOMAIN registered_nodes' -> DataNodeInfo]
          /\ RegisteredAsIssued'
          /\ IsInjective(registered_nodes) => IsInjective(registered_nodes')
      BY <1>2, AssignKeeps
    <2>3. /\ node_id' = [node_id EXCEPT ![n] = next_node_id]
          /\ next_node_id \in Nat \ {0} /\ faults' = faults
          /\ node_id \in [Nodes -> Nat \cup {-1}]
      BY <1>2 DEF StoreId, AssignedId, RegistryInv, TypeOK
    <2>4. TypeOK'
      BY <1>1, <2>1, <2>2, <2>3 DEF RegistryInv, TypeOK
    <2>5. AddressUnique'
      BY <2>2, <2>3 DEF RegistryInv, AddressUnique
    <2>6. IdOwner'
      BY <2>1, <2>3 DEF RegistryInv, IdOwner
    <2>7. info.node = n
      OBVIOUS
    <2>8. RunningNodesListed'
      BY <1>1, <1>2, <2>3, <2>7, AssignProperties
      DEF RegistryInv, TypeOK, RunningNodesListed
    <2>. QED  BY <2>2, <2>4, <2>5, <2>6, <2>8 DEF RegistryInv
  <1>3. CASE ~Conflict(info) /\ Assign(info) /\ UNCHANGED node_id /\ Fault("rpc")
    <2>1. /\ next_node_id' \in Nat \ {0} /\ next_node_index' = next_node_index
          /\ issued' \in [1..(next_node_id' - 1) -> Nodes]
          /\ \A id \in DOMAIN issued : id \in DOMAIN issued'
                                       /\ issued'[id] = issued[id]
      BY <1>3, IssueProperties DEF Assign
    <2>2. /\ DOMAIN registered_nodes' \subseteq Nat \ {0}
          /\ registered_nodes' \in [DOMAIN registered_nodes' -> DataNodeInfo]
          /\ RegisteredAsIssued'
          /\ IsInjective(registered_nodes) => IsInjective(registered_nodes')
      BY <1>3, AssignKeeps
    <2>3. /\ faults' \in [FaultKinds -> Nat] /\ faults'["rpc"] > 0
          /\ faults'["restart"] = 0 => faults["restart"] = 0
          /\ faults'["race"] = 0 => faults["race"] = 0
      BY <1>3, FaultCounts, KnownFaults DEF RegistryInv
    <2>4. TypeOK'
      BY <1>1, <1>3, <2>1, <2>2, <2>3 DEF RegistryInv, TypeOK
    <2>5. AddressUnique' /\ IdOwner'
      BY <1>3, <2>1, <2>2, <2>3 DEF RegistryInv, AddressUnique, IdOwner
    <2>6. RunningNodesListed'
      BY <2>3 DEF RunningNodesListed
    <2>. QED  BY <2>2, <2>4, <2>5, <2>6 DEF RegistryInv
  <1>4. CASE Conflict(info) /\ UNCHANGED <<coordinatorVars, node_id, faults>>
    <2>1. /\ registered_nodes' = registered_nodes /\ issued' = issued
          /\ next_node_id' = next_node_id /\ next_node_index' = next_node_index
          /\ node_id' = node_id /\ faults' = faults
      BY <1>4 DEF coordinatorVars
    <2>2. TypeOK' /\ AddressUnique' /\ RegisteredAsIssued' /\ IdOwner'
      BY <1>1, <2>1 DEF RegistryInv, TypeOK, AddressUnique, IsInjective,
                        RegisteredAsIssued, IdOwner
    <2>3. \E id \in DOMAIN registered_nodes : registered_nodes[id].node = n
      BY <1>4 DEF Conflict, Range
    <2>4. RunningNodesListed'
      BY <1>1, <2>1, <2>3 DEF RegistryInv, TypeOK, RunningNodesListed
    <2>. QED  BY <2>2, <2>4 DEF RegistryInv
  <1>5. CASE Fault("rpc") /\ UNCHANGED <<coordinatorVars, node_id>>
    <2>1. /\ registered_nodes' = registered_nodes /\ issued' = issued
          /\ next_node_id' = next_node_id /\ next_node_index' = next_node_index
          /\ node_id' = node_id
      BY <1>5 DEF coordinatorVars
    <2>2. /\ faults' \in [FaultKinds -> Nat] /\ faults'["rpc"] > 0
          /\ faults'["restart"] = 0 => faults["restart"] = 0
          /\ faults'["race"] = 0 => faults["race"] = 0
      BY <1>5, FaultCounts, KnownFaults DEF RegistryInv
    <2>3. TypeOK' /\ AddressUnique' /\ RegisteredAsIssued' /\ IdOwner'
      BY <1>1, <2>1, <2>2 DEF RegistryInv, TypeOK, AddressUnique, IsInjective,
                              RegisteredAsIssued, IdOwner
    <2>4. RunningNodesListed'
      BY <2>2 DEF RunningNodesListed
    <2>. QED  BY <2>3, <2>4 DEF RegistryInv
  <1>6. CASE Fault("race") /\ StoreId(n)
             /\ (Assign(info) \/ (Issue(info) /\ UNCHANGED registered_nodes))
    <2>1. /\ next_node_id' \in Nat \ {0} /\ next_node_index' = next_node_index
          /\ issued' \in [1..(next_node_id' - 1) -> Nodes]
          /\ next_node_id \in DOMAIN issued' /\ issued'[next_node_id] = n
          /\ \A id \in DOMAIN issued : id \in DOMAIN issued'
                                       /\ issued'[id] = issued[id]
      BY <1>6, IssueProperties DEF Assign
    <2>2. /\ DOMAIN registered_nodes' \subseteq Nat \ {0}
          /\ registered_nodes' \in [DOMAIN registered_nodes' -> DataNodeInfo]
          /\ RegisteredAsIssued'
      <3>1. CASE Assign(info)
        BY <3>1, AssignKeeps
      <3>2. CASE UNCHANGED registered_nodes
        BY <2>1, <3>2 DEF RegistryInv, TypeOK, RegisteredAsIssued
      <3>. QED  BY <1>6, <3>1, <3>2
    <2>3. /\ faults' \in [FaultKinds -> Nat] /\ faults'["race"] > 0
          /\ faults'["restart"] = 0 => faults["restart"] = 0
      BY <1>6, FaultCounts, KnownFaults DEF RegistryInv
    <2>4. /\ node_id' = [node_id EXCEPT ![n] = next_node_id]
          /\ next_node_id \in Nat \ {0}
          /\ node_id \in [Nodes -> Nat \cup {-1}]
      BY <1>6 DEF StoreId, AssignedId, RegistryInv, TypeOK
    <2>5. TypeOK'
      BY <1>1, <2>1, <2>2, <2>3, <2>4 DEF RegistryInv, TypeOK
    <2>6. IdOwner'
      BY <2>1, <2>3, <2>4 DEF RegistryInv, IdOwner
    <2>7. AddressUnique' /\ RunningNodesListed'
      BY <2>3 DEF AddressUnique, RunningNodesListed
    <2>. QED  BY <2>2, <2>5, <2>6, <2>7 DEF RegistryInv
  <1>7. \/ ~Conflict(info) /\ Assign(info) /\ StoreId(n) /\ UNCHANGED faults
        \/ ~Conflict(info) /\ Assign(info) /\ UNCHANGED node_id /\ Fault("rpc")
        \/ Conflict(info) /\ UNCHANGED <<coordinatorVars, node_id, faults>>
        \/ Fault("rpc") /\ UNCHANGED <<coordinatorVars, node_id>>
        \/ Fault("race") /\ StoreId(n)
           /\ (Assign(info) \/ (Issue(info) /\ UNCHANGED registered_nodes))
    BY Zenon DEF Start
  <1> HIDE DEF info
  <1>. QED  BY <1>2, <1>3, <1>4, <1>5, <1>6, <1>7

\* DataNodeServer::Stop, heard by the coordinator.
LEMMA RegistryInvStop ==
  ASSUME RegistryInv, NEW n \in Nodes, Stop(n)
  PROVE  RegistryInv'
  <1>1. up' = [up EXCEPT ![n] = FALSE] /\ up' \in [Nodes -> BOOLEAN]
    BY DEF Stop, Shutdown, RegistryInv, TypeOK
  <1>2. /\ faults' \in [FaultKinds -> Nat]
        /\ faults'["restart"] = 0 => faults["restart"] = 0
        /\ faults'["rpc"] = 0 => faults["rpc"] = 0
        /\ faults'["race"] = 0 => faults["race"] = 0
    BY FaultCounts, KnownFaults DEF Stop, RegistryInv
  <1>3. /\ next_node_id' = next_node_id /\ next_node_index' = next_node_index
        /\ issued' = issued /\ node_id' = node_id
    BY DEF Stop, Unregister, coordinatorVars
  <1>4. CASE node_id[n] > 0 /\ Unregister(node_id[n])
    <2>1. /\ DOMAIN registered_nodes' = DOMAIN registered_nodes \ {node_id[n]}
          /\ \A id \in DOMAIN registered_nodes' :
               registered_nodes'[id] = registered_nodes[id]
      BY <1>4 DEF Unregister, Restrict
    <2>0. registered_nodes' \in [DOMAIN registered_nodes' -> DataNodeInfo]
      BY <1>4, <2>1 DEF Unregister, Restrict, RegistryInv, TypeOK
    <2>2. TypeOK'
      BY <1>1, <1>2, <1>3, <2>0, <2>1 DEF RegistryInv, TypeOK
    <2>3. AddressUnique' /\ RegisteredAsIssued'
      BY <1>2, <1>3, <2>1 DEF RegistryInv, AddressUnique, IsInjective,
                        RegisteredAsIssued
    <2>4. IdOwner'
      BY <1>2, <1>3 DEF RegistryInv, IdOwner
    <2>5. RunningNodesListed'
      <3> SUFFICES ASSUME faults'["restart"] = 0, faults'["rpc"] = 0,
                          faults'["race"] = 0,
                          NEW m \in Nodes, up'[m]
                   PROVE  \E id \in DOMAIN registered_nodes' :
                            registered_nodes'[id].node = m
        BY DEF RunningNodesListed
      <3>1. m # n /\ up[m]
        BY <1>1 DEF RegistryInv, TypeOK
      <3>2. PICK id \in DOMAIN registered_nodes : registered_nodes[id].node = m
        BY <1>2, <3>1 DEF RegistryInv, RunningNodesListed
      <3>3. issued[node_id[n]] = n
        BY <1>2, <1>4 DEF RegistryInv, IdOwner
      <3>4. issued[id] = m
        BY <3>2 DEF RegistryInv, RegisteredAsIssued
      <3>5. id # node_id[n]
        BY <3>1, <3>3, <3>4
      <3>. QED  BY <2>1, <3>2, <3>5
    <2>. QED  BY <2>2, <2>3, <2>4, <2>5 DEF RegistryInv
  <1>5. CASE UNCHANGED coordinatorVars
    <2>1. registered_nodes' = registered_nodes
      BY <1>5 DEF coordinatorVars
    <2>2. TypeOK' /\ AddressUnique' /\ RegisteredAsIssued' /\ IdOwner'
      BY <1>1, <1>2, <1>3, <2>1 DEF RegistryInv, TypeOK, AddressUnique,
                                    IsInjective, RegisteredAsIssued, IdOwner
    <2>3. RunningNodesListed'
      BY <1>1, <1>2, <2>1 DEF RegistryInv, TypeOK, RunningNodesListed
    <2>. QED  BY <2>2, <2>3 DEF RegistryInv
  <1>. QED  BY <1>4, <1>5 DEF Stop

\* A Stop the coordinator does not hear, and a crash: the registry stays.
LEMMA RegistryInvGone ==
  ASSUME RegistryInv, NEW n \in Nodes, StopUnheard(n) \/ Crash(n)
  PROVE  RegistryInv'
  <1>1. up' = [up EXCEPT ![n] = FALSE] /\ up' \in [Nodes -> BOOLEAN]
    BY DEF StopUnheard, Crash, Shutdown, RegistryInv, TypeOK
  <1>2. /\ faults' \in [FaultKinds -> Nat]
        /\ faults'["restart"] = 0 => faults["restart"] = 0
        /\ faults'["rpc"] = 0 => faults["rpc"] = 0
        /\ faults'["race"] = 0 => faults["race"] = 0
    BY FaultCounts, KnownFaults DEF StopUnheard, Crash, RegistryInv
  <1>3. /\ registered_nodes' = registered_nodes /\ issued' = issued
        /\ next_node_id' = next_node_id /\ next_node_index' = next_node_index
    BY DEF StopUnheard, Crash, coordinatorVars
  <1>4. /\ node_id' \in [Nodes -> Nat \cup {-1}]
        /\ \A m \in Nodes : node_id'[m] > 0 => node_id'[m] = node_id[m]
    BY DEF StopUnheard, Crash, RegistryInv, TypeOK
  <1>5. TypeOK' /\ AddressUnique' /\ RegisteredAsIssued'
    BY <1>1, <1>2, <1>3, <1>4 DEF RegistryInv, TypeOK, AddressUnique,
                                  IsInjective, RegisteredAsIssued
  <1>6. IdOwner'
    BY <1>2, <1>3, <1>4 DEF RegistryInv, IdOwner
  <1>7. RunningNodesListed'
    BY <1>1, <1>2, <1>3 DEF RegistryInv, TypeOK, RunningNodesListed
  <1>. QED  BY <1>5, <1>6, <1>7 DEF RegistryInv

\* A restart of the coordinator: the last two parts hold no more, and say so.
LEMMA RegistryInvRestart ==
  ASSUME RegistryInv, CoordinatorRestart
  PROVE  RegistryInv'
  <1>1. faults' \in [FaultKinds -> Nat] /\ faults'["restart"] > 0
    BY FaultCounts, KnownFaults DEF CoordinatorRestart, RegistryInv
  <1>2. /\ DOMAIN EmptyRegistry = {} /\ EmptyRegistry \in [{} -> Nodes]
        /\ EmptyRegistry \in [{} -> DataNodeInfo]
    BY DEF EmptyRegistry
  <1>3. next_node_id' = 1 /\ 1..(1 - 1) = {}
    BY DEF CoordinatorRestart
  <1>4. TypeOK'
    <2>1. /\ registered_nodes' = EmptyRegistry /\ issued' = EmptyRegistry
          /\ next_node_index' = 0 /\ up' = up /\ node_id' = node_id
      BY DEF CoordinatorRestart
    <2>2. 0 \in 0..(IndexModulus - 1)
      BY RegistryAssumption
    <2>. QED  BY <1>1, <1>2, <1>3, <2>1, <2>2 DEF RegistryInv, TypeOK
  <1>5. AddressUnique' /\ RegisteredAsIssued'
    BY <1>2 DEF CoordinatorRestart, AddressUnique, IsInjective,
                RegisteredAsIssued
  <1>6. IdOwner' /\ RunningNodesListed'
    BY <1>1 DEF IdOwner, RunningNodesListed
  <1>. QED  BY <1>4, <1>5, <1>6 DEF RegistryInv

\* Placing a chunk moves the index only, modulo the width of its type.
LEMMA RegistryInvSelect ==
  ASSUME RegistryInv, NEW selection, selectNodesForReplication(selection)
  PROVE  RegistryInv'
  <1>1. /\ registered_nodes' = registered_nodes /\ issued' = issued
        /\ next_node_id' = next_node_id /\ up' = up /\ node_id' = node_id
        /\ faults' = faults
    BY DEF selectNodesForReplication
  <1>2. next_node_index' \in 0..(IndexModulus - 1)
    <2>1. next_node_index \in 0..(IndexModulus - 1) /\ IndexModulus \in Nat \ {0}
      BY RegistryAssumption DEF RegistryInv, TypeOK
    <2>2. (next_node_index + 1) % IndexModulus \in 0..(IndexModulus - 1)
      BY <2>1
    <2>. QED  BY <2>1, <2>2 DEF selectNodesForReplication, NextIndex
  <1>3. TypeOK'
    BY <1>1, <1>2 DEF RegistryInv, TypeOK
  <1>4. AddressUnique' /\ RegisteredAsIssued' /\ IdOwner' /\ RunningNodesListed'
    BY <1>1 DEF RegistryInv, AddressUnique, IsInjective, RegisteredAsIssued,
                IdOwner, RunningNodesListed
  <1>. QED  BY <1>3, <1>4 DEF RegistryInv

(***************************************************************************)
(* Placement.                                                              *)
(***************************************************************************)

\* An order of the map's ids is a numbering of them: n ids, at least one, and
\* each under exactly one number.
LEMMA OrderProperties ==
  ASSUME RegistryInv, registered_nodes # EmptyRegistry,
         NEW order \in IterationOrders
  PROVE  LET n == Cardinality(DOMAIN order) IN
         /\ n \in Nat \ {0}
         /\ order \in [1..n -> DOMAIN registered_nodes]
         /\ \A i, j \in 1..n : order[i] = order[j] => i = j
         /\ \A id \in DOMAIN registered_nodes : \E i \in 1..n : order[i] = id
  <1> DEFINE ids == DOMAIN registered_nodes
             n == Cardinality(ids)
  <1>1. next_node_id - 1 \in Nat /\ ids \subseteq 1..(next_node_id - 1)
    BY DEF RegistryInv, TypeOK, RegisteredAsIssued
  <1>2. IsFiniteSet(ids)
    <2>1. IsFiniteSet(1..(next_node_id - 1))
      BY <1>1, FS_Interval
    <2>. QED  BY <1>1, <2>1, FS_Subset
  <1>3. ids # {}
    BY DEF RegistryInv, TypeOK, EmptyRegistry
  <1>4. n \in Nat \ {0}
    BY <1>2, <1>3, FS_CardinalityType, FS_EmptySet
  <1>5. order \in [1..n -> ids] /\ IsInjective(order)
    BY DEF IterationOrders
  <1>6. IsFiniteSet(1..n) /\ Cardinality(1..n) = n /\ DOMAIN order = 1..n
    BY <1>4, <1>5, FS_Interval
  <1>7. \A i, j \in 1..n : order[i] = order[j] => i = j
    BY <1>5 DEF IsInjective
  <1>8. order \in Injection(1..n, ids)
    BY <1>5, <1>7 DEF Injection, IsInjective
  <1>9. order \in Surjection(1..n, ids)
    BY <1>2, <1>6, <1>8, FS_Injection
  <1>10. \A id \in ids : \E i \in 1..n : order[i] = id
    BY <1>9 DEF Surjection
  <1> HIDE DEF n
  <1>. QED  BY <1>4, <1>5, <1>6, <1>7, <1>10

\* What selectNodesForReplication returns: nothing, or a registered id for
\* every replica.
LEMMA SelectionProperties ==
  ASSUME RegistryInv, NEW s \in Selections
  PROVE  \/ s = <<>>
         \/ s \in [1..ReplicationFactor -> DOMAIN registered_nodes]
  <1> SUFFICES ASSUME registered_nodes # EmptyRegistry
               PROVE  s \in [1..ReplicationFactor -> DOMAIN registered_nodes]
    BY DEF Selections
  <1>1. PICK order \in IterationOrders :
          s = [i \in 1..ReplicationFactor |-> RoundRobin(order, i)]
    BY DEF Selections
  <1> DEFINE n == Cardinality(DOMAIN order)
  <1>2. n \in Nat \ {0} /\ order \in [1..n -> DOMAIN registered_nodes]
    BY OrderProperties
  <1> HIDE DEF n
  <1>3. ASSUME NEW i \in 1..ReplicationFactor
        PROVE  RoundRobin(order, i) \in DOMAIN registered_nodes
    <2>1. next_node_index \in Nat /\ i \in Nat /\ i >= 1
      BY RegistryAssumption DEF RegistryInv, TypeOK
    <2> DEFINE start == next_node_index % n
    <2>2. start \in Nat
      BY <1>2, <2>1
    <2> HIDE DEF start
    <2>3. ((start + (i - 1)) % n) + 1 \in 1..n
      BY <1>2, <2>1, <2>2
    <2>4. RoundRobin(order, i) = order[((start + (i - 1)) % n) + 1]
      BY DEF RoundRobin, start, n
    <2>. QED  BY <1>2, <2>3, <2>4
  <1>. QED  BY <1>1, <1>3

\* Division with remainder.
LEMMA Remainder ==
  ASSUME NEW x \in Nat, NEW n \in Nat \ {0}
  PROVE  /\ x = n * (x \div n) + (x % n)
         /\ x % n \in 0..(n - 1)
         /\ x \div n \in Nat
  OBVIOUS

\* Two numbers with the same remainder are equal or at least n apart.
LEMMA SameRemainder ==
  ASSUME NEW n \in Nat \ {0}, NEW x \in Nat, NEW y \in Nat, x < y,
         x % n = y % n
  PROVE  x + n <= y
  <1> DEFINE p == x \div n
             q == y \div n
  <1>1. x = n * p + (x % n) /\ y = n * q + (y % n) /\ p \in Nat /\ q \in Nat
        /\ x % n \in Nat
    <2>1. x % n \in 0..(n - 1)
      BY Remainder
    <2>2. x % n \in Nat
      BY <2>1
    <2>. QED  BY <2>2, Remainder
  <1> HIDE DEF p, q
  <1>2. n * p < n * q
    BY <1>1
  <1>3. p < q
    BY <1>1, <1>2
  <1>4. n * (p + 1) <= n * q
    BY <1>1, <1>3
  <1>5. n * (p + 1) = n * p + n
    BY <1>1
  <1>. QED  BY <1>1, <1>4, <1>5

\* Shifting by less than n moves one remainder to any other.
LEMMA ShiftRemainder ==
  ASSUME NEW n \in Nat \ {0}, NEW a \in 0..(n - 1), NEW b \in 0..(n - 1)
  PROVE  \E d \in 0..(n - 1) :
           \A x \in Nat : x % n = a => (x + d) % n = b
  <1> DEFINE d == IF a <= b THEN b - a ELSE b - a + n
  <1>1. d \in 0..(n - 1)
    OBVIOUS
  <1>2. ASSUME NEW x \in Nat, x % n = a
        PROVE  (x + d) % n = b
    <2> DEFINE p == x \div n
    <2>1. x = n * p + a /\ p \in Nat
      BY <1>2, Remainder
    <2> HIDE DEF p
    <2>2. CASE a <= b
      <3>1. x + d = n * p + b
        BY <2>1, <2>2
      <3>2. (n * p + b) % n = b
        BY <2>1
      <3>. QED  BY <3>1, <3>2
    <2>3. CASE a > b
      <3>1. x + d = n * (p + 1) + b
        BY <2>1, <2>3
      <3>2. p + 1 \in Nat
        BY <2>1
      <3>3. (n * (p + 1) + b) % n = b
        BY <3>2
      <3>. QED  BY <3>1, <3>3
    <2>. QED  BY <2>2, <2>3
  <1>. QED  BY <1>1, <1>2

\* The replicas, of m, whose position has remainder a: those on one node.
WithRemainder(start, n, m, a) == {i \in 1..m : (start + (i - 1)) % n = a}

\* Among m consecutive numbers, one remainder comes up at most once more than
\* another: all but one number with the first remainder have, less than n
\* later, one with the second.
LEMMA RemaindersSpread ==
  ASSUME NEW n \in Nat \ {0}, NEW start \in Nat, NEW m \in Nat,
         NEW a \in 0..(n - 1), NEW b \in 0..(n - 1)
  PROVE  Cardinality(WithRemainder(start, n, m, a))
         <= Cardinality(WithRemainder(start, n, m, b)) + 1
  <1> DEFINE A == {i \in 1..m : (start + (i - 1)) % n = a}
             B == {i \in 1..m : (start + (i - 1)) % n = b}
  <1>1. PICK d \in 0..(n - 1) :
          \A x \in Nat : x % n = a => (x + d) % n = b
    BY ShiftRemainder
  <1> DEFINE early == {i \in A : i + d <= m}
             shift == [i \in early |-> i + d]
  <1>2. IsFiniteSet(1..m)
    BY FS_Interval
  <1>3. IsFiniteSet(A) /\ IsFiniteSet(B) /\ IsFiniteSet(early)
    BY <1>2, FS_Subset
  <1>4. Cardinality(early) <= Cardinality(B)
    <2>1. ASSUME NEW i \in early
          PROVE  i + d \in B
      <3>1. i \in Nat /\ i >= 1 /\ d \in Nat /\ i + d <= m
            /\ (start + (i - 1)) % n = a
        OBVIOUS
      <3>2. start + (i - 1) \in Nat
        BY <3>1
      <3>3. ((start + (i - 1)) + d) % n = b
        BY <1>1, <3>1, <3>2
      <3>4. (start + (i - 1)) + d = start + ((i + d) - 1)
        BY <3>1
      <3>5. i + d \in 1..m
        BY <3>1
      <3>. QED  BY <3>3, <3>4, <3>5
    <2>2. shift \in [early -> B]
      BY <2>1
    <2>3. \A i, j \in early : shift[i] = shift[j] => i = j
      OBVIOUS
    <2>4. shift \in Injection(early, B)
      BY <2>2, <2>3 DEF Injection, IsInjective
    <2>. QED  BY <1>3, <2>4, FS_Injection
  <1>5. ASSUME NEW i \in A \ early, NEW j \in A \ early, i < j
        PROVE  FALSE
    <2>1. /\ i \in Nat /\ j \in Nat /\ i >= 1 /\ j <= m /\ i + d > m /\ d < n
          /\ d \in Nat
          /\ (start + (i - 1)) % n = (start + (j - 1)) % n
      OBVIOUS
    <2>2. start + (i - 1) \in Nat /\ start + (j - 1) \in Nat
          /\ start + (i - 1) < start + (j - 1)
      BY <1>5, <2>1
    <2>3. start + (i - 1) + n <= start + (j - 1)
      BY <2>1, <2>2, SameRemainder
    <2>. QED  BY <2>1, <2>3
  <1>6. \A i, j \in A \ early : i = j
    <2>1. \A i \in A : i \in Nat
      OBVIOUS
    <2> HIDE DEF early
    <2>. QED  BY <1>5, <2>1
  <1>7. Cardinality(A) <= Cardinality(early) + 1
    <2>0. Cardinality(early) \in Nat
      BY <1>3, FS_CardinalityType
    <2>1. CASE A = early
      <3> HIDE DEF early
      <3>1. \A c \in Nat : c <= c + 1
        OBVIOUS
      <3>. QED  BY ONLY <2>0, <2>1, <3>1, Zenon
    <2>2. CASE A # early
      <3>1. PICK x : x \in A \ early
        BY <2>2
      <3>2. A = early \cup {x}
        BY <1>6, <3>1
      <3> HIDE DEF early
      <3>3. Cardinality(early \cup {x}) = Cardinality(early) + 1
        BY <1>3, <3>1, FS_AddElement
      <3>4. \A c \in Nat : c + 1 <= c + 1
        OBVIOUS
      <3>. QED  BY ONLY <2>0, <3>2, <3>3, <3>4, Zenon
    <2>. QED  BY <2>1, <2>2
  <1>8. Cardinality(A) \in Nat /\ Cardinality(B) \in Nat
        /\ Cardinality(early) \in Nat
    BY <1>3, FS_CardinalityType
  <1> HIDE DEF early, A, B
  <1>9. Cardinality(A) <= Cardinality(B) + 1
    BY <1>4, <1>7, <1>8
  <1>. QED  BY <1>9 DEF A, B, WithRemainder

\* The replicas of a chunk are spread evenly over the registered ids.
LEMMA SpreadStep == RegistryInv => PlacementSpread
  <1> SUFFICES ASSUME RegistryInv, NEW s \in Selections,
                      NEW id1 \in DOMAIN registered_nodes,
                      NEW id2 \in DOMAIN registered_nodes
               PROVE  Cardinality({i \in DOMAIN s : s[i] = id1})
                      <= Cardinality({i \in DOMAIN s : s[i] = id2}) + 1
    BY DEF PlacementSpread
  <1>1. registered_nodes # EmptyRegistry
    BY DEF EmptyRegistry
  <1>2. PICK order \in IterationOrders :
          s = [i \in 1..ReplicationFactor |-> RoundRobin(order, i)]
    BY <1>1 DEF Selections
  <1> DEFINE n == Cardinality(DOMAIN order)
             start == next_node_index % n
             m == ReplicationFactor
  <1>3. /\ n \in Nat \ {0}
        /\ order \in [1..n -> DOMAIN registered_nodes]
        /\ \A i, j \in 1..n : order[i] = order[j] => i = j
        /\ \A id \in DOMAIN registered_nodes : \E i \in 1..n : order[i] = id
    BY <1>1, OrderProperties
  <1>4. next_node_index \in Nat /\ m \in Nat
    BY RegistryAssumption DEF RegistryInv, TypeOK
  <1> HIDE DEF n
  <1>5. start \in Nat
    BY <1>3, <1>4
  <1>6. ASSUME NEW id \in DOMAIN registered_nodes
        PROVE  \E a \in 0..(n - 1) :
                 {i \in DOMAIN s : s[i] = id} = WithRemainder(start, n, m, a)
    <2>1. PICK k \in 1..n : order[k] = id
      BY <1>3
    <2>2. k - 1 \in 0..(n - 1)
      BY <1>3
    <2>3. ASSUME NEW i \in 1..m
          PROVE  s[i] = id <=> (start + (i - 1)) % n = k - 1
      <3> DEFINE at == (start + (i - 1)) % n
      <3>1. s[i] = order[at + 1]
        BY <1>2 DEF RoundRobin, n
      <3>2. at \in 0..(n - 1)
        <4>1. start + (i - 1) \in Nat
          BY <1>4, <1>5
        <4>. QED  BY <1>3, <4>1, Remainder
      <3> HIDE DEF at
      <3>3. at + 1 \in 1..n /\ (at + 1 = k <=> at = k - 1)
        BY <1>3, <3>2
      <3>4. order[at + 1] = order[k] <=> at + 1 = k
        BY <1>3, <3>3
      <3>. QED  BY <2>1, <3>1, <3>3, <3>4 DEF at
    <2>4. DOMAIN s = 1..m
      BY <1>2
    <2> HIDE DEF start, m
    <2>. QED  BY <2>2, <2>3, <2>4 DEF WithRemainder
  <1>7. PICK a \in 0..(n - 1) :
          {i \in DOMAIN s : s[i] = id1} = WithRemainder(start, n, m, a)
    BY <1>6
  <1>8. PICK b \in 0..(n - 1) :
          {i \in DOMAIN s : s[i] = id2} = WithRemainder(start, n, m, b)
    BY <1>6
  <1> HIDE DEF start, m
  <1>9. Cardinality(WithRemainder(start, n, m, a))
        <= Cardinality(WithRemainder(start, n, m, b)) + 1
    BY <1>3, <1>4, <1>5, RemaindersSpread
  <1>. QED  BY <1>7, <1>8, <1>9, Zenon

\* The invariant is inductive: one case for each event of the registry.
LEMMA RegistryInvNext == RegistryInv /\ [Next]_vars => RegistryInv'
  <1> SUFFICES ASSUME RegistryInv, [Next]_vars PROVE RegistryInv'
    OBVIOUS
  <1>1. ASSUME NEW n \in Nodes, DataNode(n)
        PROVE  RegistryInv'
    BY <1>1, RegistryInvStart, RegistryInvStop, RegistryInvGone DEF DataNode
  <1>2. CASE CoordinatorRestart
    BY <1>2, RegistryInvRestart
  <1>3. ASSUME NEW s \in Selections, selectNodesForReplication(s)
        PROVE  RegistryInv'
    BY <1>3, RegistryInvSelect
  <1>4. CASE UNCHANGED vars
    BY <1>4 DEF vars, coordinatorVars, RegistryInv, TypeOK, AddressUnique,
                IsInjective, RegisteredAsIssued, IdOwner, RunningNodesListed
  <1>. QED  BY <1>1, <1>2, <1>3, <1>4 DEF Next

\* The inductive invariant holds in every reachable state.
THEOREM RegistryInvariant == Spec => []RegistryInv
  BY RegistryInvInit, RegistryInvNext, PTL DEF Spec

\* Type correctness of the registry and of the data nodes' life cycle.
THEOREM RegistryTypeCorrect == Spec => []TypeOK
  BY RegistryInvariant, PTL DEF RegistryInv

\* RegisterDataNode never lists one address and port under two ids, unless
\* handlers met in the map.
THEOREM RegistryAddressUnique == Spec => []AddressUnique
  BY RegistryInvariant, PTL DEF RegistryInv

\* An id never comes to name another node while the coordinator lives.
THEOREM RegistryIdsStable == Spec => []RegisteredAsIssued
  BY RegistryInvariant, PTL DEF RegistryInv

\* Without a coordinator restart, a data node can only unregister itself.
THEOREM RegistryIdOwner == Spec => []IdOwner
  BY RegistryInvariant, PTL DEF RegistryInv

\* Without a coordinator restart, lost calls and races in the map, running
\* data nodes are registered.
THEOREM RegistryRunningListed == Spec => []RunningNodesListed
  BY RegistryInvariant, PTL DEF RegistryInv

\* selectNodesForReplication spreads the replicas of a chunk over the
\* registered ids as evenly as can be, for every number of nodes, every
\* replication factor, every order of the map and wherever the index stands.
THEOREM RegistrySpread == Spec => []PlacementSpread
  BY RegistryInvariant, SpreadStep, PTL
=============================================================================
