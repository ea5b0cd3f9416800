---------------------------- MODULE NodeRegistry ----------------------------
(***************************************************************************)
(* The coordinator's registry of data nodes and the round-robin choice of  *)
(* replicas (coordinator_service_impl.cpp), together with the life cycle   *)
(* of the data node servers that fill it (server/src/datanode_server.cpp). *)
(*                                                                         *)
(* A member of Nodes is one data node: a host and a listening port.  The   *)
(* coordinator sees its address as the peer string of the connection less  *)
(* the peer's port, so the same node is known by one address per network   *)
(* family it connects through.  Each handler of the coordinator is one     *)
(* step.  registered_nodes_ has no lock: what overlapping handlers do to   *)
(* the map is undefined, and a fault "race" stands for what a build can    *)
(* make of it: a search misses an entry, an insertion is lost.             *)
(***************************************************************************)
EXTENDS Integers, FiniteSets, Functions

CONSTANTS
  Nodes,               \* data nodes, each a host and a listening port
  Families,            \* network families a node may connect through
  ReplicationFactor,   \* ChunkInfo::replication_factor (3 in the source)
  IndexModulus,        \* next_node_index_ is unsigned: 2^32 in the source
  FaultKinds,          \* what may go wrong ...
  MaxFaults            \* ... and how often: a bound for each kind

ASSUME RegistryAssumption ==
  /\ ReplicationFactor \in Nat
  /\ IndexModulus \in Nat \ {0}
  /\ {"rpc", "stop", "crash", "restart", "race"} \subseteq FaultKinds
  /\ MaxFaults \in [FaultKinds -> Nat]

VARIABLES
  registered_nodes,   \* registered_nodes_: id -> DataNodeInfo
  next_node_id,       \* next_node_id_
  next_node_index,    \* next_node_index_
  up,                 \* node -> is its gRPC server running
  node_id,            \* node -> DataNodeServer::node_id_
  issued,             \* history: id -> node it was given to by this process
  faults              \* history: kind -> how often it happened

coordinatorVars == <<registered_nodes, next_node_id, next_node_index, issued>>
vars == <<coordinatorVars, up, node_id, faults>>

DataNodeInfo == [node : Nodes, family : Families]

TypeOK ==
  /\ DOMAIN registered_nodes \subseteq Nat \ {0}
  /\ registered_nodes \in [DOMAIN registered_nodes -> DataNodeInfo]
  /\ next_node_id \in Nat \ {0}
  /\ next_node_index \in 0..(IndexModulus - 1)
  /\ up \in [Nodes -> BOOLEAN]
  /\ node_id \in [Nodes -> Nat \cup {-1}]
  /\ issued \in [1..(next_node_id - 1) -> Nodes]
  /\ faults \in [FaultKinds -> Nat]

EmptyRegistry == [id \in {} |-> id]

Init ==
  /\ registered_nodes = EmptyRegistry
  /\ next_node_id = 1
  /\ next_node_index = 0
  /\ up = [n \in Nodes |-> FALSE]
  /\ node_id = [n \in Nodes |-> -1]
  /\ issued = EmptyRegistry
  /\ faults = [k \in FaultKinds |-> 0]

\* One more fault of kind k, while the bound allows it.
Fault(k) ==
  /\ faults[k] < MaxFaults[k]
  /\ faults' = [faults EXCEPT ![k] = @ + 1]

(***************************************************************************)
(* Registration.                                                           *)
(***************************************************************************)

\* Mutant: the search forgets existing registrations.
Conflict_Never(info) == info \notin DataNodeInfo

\* Mutant: the search compares the address and forgets the port.
Conflict_SameFamily(info) ==
  \E other \in Range(registered_nodes) : other.family = info.family

\* The same address and port is registered already.
Conflict(info) == info \in Range(registered_nodes)

\* Mutant: the smallest free id is handed out again.
AssignedId_Smallest ==
  CHOOSE id \in 1..next_node_id :
    /\ id \notin DOMAIN registered_nodes
    /\ 1..(id - 1) \subseteq DOMAIN registered_nodes

\* next_node_id_.fetch_add(1)
AssignedId == next_node_id

\* registered_nodes_[assigned_id] = info
Insert(info) ==
  registered_nodes' = [id \in DOMAIN registered_nodes \cup {AssignedId} |->
                         IF id = AssignedId THEN info ELSE registered_nodes[id]]

\* RegisterDataNode accepts the node and hands out an id.
Issue(info) ==
  /\ next_node_id' = next_node_id + 1
  /\ issued' = [id \in 1..next_node_id |->
                  IF id = next_node_id THEN info.node ELSE issued[id]]
  /\ UNCHANGED next_node_index

Assign(info) == Insert(info) /\ Issue(info)

\* Mutant: the reply carries the counter after the increment.
StoreId_AfterIncrement(n) == node_id' = [node_id EXCEPT ![n] = AssignedId + 1]

\* node_id_ = reg_response.node_id()
StoreId(n) == node_id' = [node_id EXCEPT ![n] = AssignedId]

\* DFSServer::Start and DFSServer::Stop.
Serve(n) == up' = [up EXCEPT ![n] = TRUE]
Shutdown(n) == up' = [up EXCEPT ![n] = FALSE]

\* DataNodeServer::Start: the server runs, then one attempt to register; the
\* node goes on whatever comes of it and keeps the node_id_ it had.
Start(n, f) ==
  LET info == [node |-> n, family |-> f] IN
  /\ ~up[n]
  /\ Serve(n)
  /\ \/ /\ ~Conflict(info)
        /\ Assign(info)
        /\ \/ StoreId(n) /\ UNCHANGED faults
           \/ UNCHANGED node_id /\ Fault("rpc")           \* the reply is lost
     \/ /\ Conflict(info)
        /\ UNCHANGED <<coordinatorVars, node_id, faults>>
     \/ /\ Fault("rpc")                                   \* the call is lost
        /\ UNCHANGED <<coordinatorVars, node_id>>
     \/ /\ Fault("race")
        /\ \/ Assign(info)                          \* whatever is registered
           \/ Issue(info) /\ UNCHANGED registered_nodes
        /\ StoreId(n)

\* UnregisterDataNode: erases the id, or finds none and answers NOT_FOUND.
Unregister(id) ==
  /\ registered_nodes' = Restrict(registered_nodes,
                                  DOMAIN registered_nodes \ {id})
  /\ UNCHANGED <<next_node_id, next_node_index, issued>>

\* DataNodeServer::Stop: unregisters when it has an id, then shuts down.
\* node_id_ is kept.  A lost call leaves the registration in place.
Stop(n) ==
  /\ up[n]
  /\ Fault("stop")
  /\ Shutdown(n)
  /\ UNCHANGED node_id
  /\ \/ node_id[n] > 0 /\ Unregister(node_id[n])
     \/ node_id[n] <= 0 /\ UNCHANGED coordinatorVars

StopUnheard(n) ==
  /\ up[n]
  /\ node_id[n] > 0
  /\ Fault("rpc")
  /\ Shutdown(n)
  /\ UNCHANGED <<coordinatorVars, node_id>>

\* The data node process dies: no Stop runs and node_id_ is lost.
Crash(n) ==
  /\ up[n]
  /\ Fault("crash")
  /\ Shutdown(n)
  /\ node_id' = [node_id EXCEPT ![n] = -1]
  /\ UNCHANGED coordinatorVars

\* The coordinator process dies and starts again: nothing of it is stored,
\* and no data node is told.
CoordinatorRestart ==
  /\ Fault("restart")
  /\ registered_nodes' = EmptyRegistry
  /\ next_node_id' = 1
  /\ next_node_index' = 0
  /\ issued' = EmptyRegistry
  /\ UNCHANGED <<up, node_id>>

(***************************************************************************)
(* Placement.                                                              *)
(***************************************************************************)

\* The orders in which the unordered_map may yield its ids.
IterationOrders ==
  LET ids == DOMAIN registered_nodes
      slots == 1..Cardinality(ids)
  IN  {order \in [slots -> ids] : IsInjective(order)}

\* Mutant: the offset is not reduced by the number of nodes.
RoundRobin_Clamped(order, i) ==
  LET num_nodes == Cardinality(DOMAIN order)
      at == (next_node_index % num_nodes) + (i - 1)
  IN  order[IF at < num_nodes THEN at + 1 ELSE num_nodes]

\* The i-th replica (from 1): node_ids[(start_index + i) % num_nodes].
RoundRobin(order, i) ==
  LET num_nodes == Cardinality(DOMAIN order)
      start_index == next_node_index % num_nodes
  IN  order[((start_index + (i - 1)) % num_nodes) + 1]

\* What selectNodesForReplication may return: no node at all when the factor
\* or the registry is empty.
Selections ==
  IF registered_nodes = EmptyRegistry
  THEN {<<>>}
  ELSE {[i \in 1..ReplicationFactor |-> RoundRobin(order, i)] :
          order \in IterationOrders}

\* Mutant: the index is wider than the counter the code declares.
NextIndex_Unbounded == next_node_index + 1

NextIndex == (next_node_index + 1) % IndexModulus

\* One call of selectNodesForReplication that returns selection.
selectNodesForReplication(selection) ==
  /\ selection \in Selections
  /\ next_node_index' = IF selection = <<>> THEN next_node_index
                        ELSE NextIndex
  /\ UNCHANGED <<registered_nodes, next_node_id, issued, up, node_id, faults>>

DataNode(n) ==
  \/ \E f \in Families : Start(n, f)
  \/ Stop(n)
  \/ StopUnheard(n)
  \/ Crash(n)

Next ==
  \/ \E n \in Nodes : DataNode(n)
  \/ CoordinatorRestart
  \/ \E selection \in Selections : selectNodesForReplication(selection)

Spec == Init /\ [][Next]_vars

(***************************************************************************)
(* Properties.                                                             *)
(***************************************************************************)

\* RegisterDataNode never lists the same address and port twice, whatever
\* nodes stop, crash, come back and lose calls in between, as long as no two
\* handlers met in the map.
AddressUnique == faults["race"] = 0 => IsInjective(registered_nodes)

\* An id names the node it was issued to for as long as the coordinator
\* lives, so a replica list never comes to name another machine, not even
\* when registrations race: the ids come from an atomic counter.
RegisteredAsIssued ==
  \A id \in DOMAIN registered_nodes :
    /\ id \in DOMAIN issued
    /\ issued[id] = registered_nodes[id].node

\* While the coordinator has not restarted, the node_id_ a data node will
\* unregister with is its own, although it keeps it over Stop, over failed
\* registrations and over registrations that were lost in the map.
IdOwner ==
  faults["restart"] = 0 =>
    \A n \in Nodes :
      node_id[n] > 0 => node_id[n] \in DOMAIN issued /\ issued[node_id[n]] = n

\* Unless the coordinator restarted, a call was lost or handlers met in the
\* map, a data node whose server runs is registered: the rejected registration
\* of a node that crashed leaves it reachable under its old id.
RunningNodesListed ==
  faults["restart"] = 0 /\ faults["rpc"] = 0 /\ faults["race"] = 0 =>
    \A n \in Nodes :
      up[n] => \E id \in DOMAIN registered_nodes :
                 registered_nodes[id].node = n

\* Whatever the order of the map and wherever the index stands, the replicas
\* of a chunk are spread as evenly as the registry allows: all distinct when
\* there are enough nodes, and otherwise no id holds two more than another.
PlacementSpread ==
  \A s \in Selections :
    LET load(id) == Cardinality({i \in DOMAIN s : s[i] = id})
    IN  \A id1, id2 \in DOMAIN registered_nodes : load(id1) <= load(id2) + 1

\* "Node ID Assignment: Coordinator assigns unique integer IDs to registered
\* DataNodes" (README.md), used to unregister: a registration only goes when
\* its own node goes.  A data node that outlives a coordinator restart breaks
\* this, its stale node_id_ may be another node's id by now.
RegistrationGoesWithNode ==
  [][\A id \in DOMAIN registered_nodes :
       /\ faults'["restart"] = faults["restart"]
       /\ id \notin DOMAIN registered_nodes'
       => ~up'[registered_nodes[id].node]]_vars
=============================================================================
