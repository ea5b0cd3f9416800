------------------------- MODULE CoordinatorProofs -------------------------
(***************************************************************************)
(* Type correctness of the coordinator, for any number of requests, nodes, *)
(* paths and faults, on top of what is proved of its store and registry.   *)
(***************************************************************************)
EXTENDS Coordinator, SequenceTheorems, TLAPS

\* The proofs about the components, over the coordinator's variables.
SP == INSTANCE MetadataStoreProofs WITH MaxTombstones <- 0
RP == INSTANCE NodeRegistryProofs

\* What the components assume of their constants holds here.
LEMMA StoreAssumed == SP!StoreAssumption
  BY CoordinatorAssumption DEF SP!StoreAssumption

\* The registry's constants are the coordinator's.
LEMMA RegistryAssumed == RP!RegistryAssumption
  BY CoordinatorAssumption DEF RP!RegistryAssumption

\* The store's steps, as the coordinator names them and as the proofs do.
LEMMA StoreSteps ==
  /\ Store!Init => SP!Init
  /\ \A p \in Paths, m \in FileMeta : Store!putFile(p, m) => SP!putFile(p, m)
  /\ Store!CleanupBegin => SP!CleanupBegin
  /\ Store!CleanupSkip => SP!CleanupSkip
  /\ Store!CleanupErase => SP!CleanupErase
  /\ Store!CleanupEnd => SP!CleanupEnd
  /\ Store!Tick => SP!Tick
  /\ \A p \in Paths : Store!deletePath(p) => SP!deletePath(p)
  <1>1. /\ Store!Init => SP!Init
        /\ \A p \in Paths, m \in FileMeta :
             Store!putFile(p, m) => SP!putFile(p, m)
        /\ Store!Tick => SP!Tick
    BY DEF Store!Init, SP!Init, Store!ScanIdle, SP!ScanIdle, Store!putFile,
           SP!putFile, Store!Unlocked, SP!Unlocked, Store!Tick, SP!Tick
  <1>2. /\ Store!CleanupBegin => SP!CleanupBegin
        /\ Store!CleanupSkip => SP!CleanupSkip
        /\ Store!CleanupErase => SP!CleanupErase
        /\ Store!CleanupEnd => SP!CleanupEnd
    BY DEF Store!CleanupBegin, SP!CleanupBegin, Store!CleanupSkip,
           SP!CleanupSkip, Store!CleanupErase, SP!CleanupErase,
           Store!CleanupEnd, SP!CleanupEnd, Store!Unlocked, SP!Unlocked,
           Store!Scanning, SP!Scanning, Store!Scanned, SP!Scanned,
           Store!Aged, SP!Aged, Store!ScanIdle, SP!ScanIdle
  <1>3. \A p \in Paths : Store!deletePath(p) => SP!deletePath(p)
    BY DEF Store!deletePath, SP!deletePath, Store!Unlocked, SP!Unlocked,
           Store!Found, SP!Found, Store!vars, SP!vars, Store!Pushed, SP!Pushed,
           Store!OverLimit, SP!OverLimit, Store!cleanupOldTombstones,
           SP!cleanupOldTombstones, Store!Aged, SP!Aged, Store!NewTombstone,
           SP!NewTombstone, Store!CountAfter, SP!CountAfter
  <1>. QED  BY <1>1, <1>2, <1>3

\* The registry's steps likewise.
LEMMA RegistrySteps ==
  /\ Registry!Init => RP!Init
  /\ Registry!CoordinatorRestart => RP!CoordinatorRestart
  /\ \A n \in Nodes : Registry!DataNode(n) => RP!DataNode(n)
  /\ \A s : Registry!selectNodesForReplication(s)
             => RP!selectNodesForReplication(s)
  /\ Registry!Selections = RP!Selections
  /\ \A k : Registry!Fault(k) => RP!Fault(k)
  <1>1. /\ Registry!Init => RP!Init
        /\ Registry!CoordinatorRestart => RP!CoordinatorRestart
        /\ \A k : Registry!Fault(k) => RP!Fault(k)
    BY DEF Registry!Init, RP!Init, Registry!CoordinatorRestart,
           RP!CoordinatorRestart, Registry!EmptyRegistry, RP!EmptyRegistry,
           Registry!Fault, RP!Fault
  <1>2. ASSUME NEW n \in Nodes, Registry!DataNode(n)
        PROVE  RP!DataNode(n)
    <2> USE DEF Registry!Serve, RP!Serve, Registry!Shutdown, RP!Shutdown,
                Registry!Fault, RP!Fault, Registry!coordinatorVars,
                RP!coordinatorVars
    <2>1. ASSUME NEW f \in Families, Registry!Start(n, f)
          PROVE  RP!Start(n, f)
      BY <2>1, Zenon DEF Registry!Start, RP!Start, Registry!Assign, RP!Assign,
             Registry!Insert, RP!Insert, Registry!Issue, RP!Issue,
             Registry!AssignedId, RP!AssignedId, Registry!StoreId, RP!StoreId,
             Registry!Conflict, RP!Conflict, Registry!Range, RP!Range
    <2>2. Registry!Stop(n) => RP!Stop(n)
      BY Zenon DEF Registry!Stop, RP!Stop, Registry!Unregister, RP!Unregister,
             Registry!Restrict, RP!Restrict
    <2>3. Registry!StopUnheard(n) => RP!StopUnheard(n)
      BY Zenon DEF Registry!StopUnheard, RP!StopUnheard
    <2>4. Registry!Crash(n) => RP!Crash(n)
      BY Zenon DEF Registry!Crash, RP!Crash
    <2>. QED
      BY <1>2, <2>1, <2>2, <2>3, <2>4, Zenon DEF Registry!DataNode, RP!DataNode
  <1>3. Registry!Selections = RP!Selections
    BY Zenon DEF Registry!Selections, RP!Selections,
         Registry!IterationOrders, RP!IterationOrders,
         Registry!RoundRobin, RP!RoundRobin,
         Registry!EmptyRegistry, RP!EmptyRegistry,
         Registry!Cardinality, RP!Cardinality, Registry!IsInjective,
         RP!IsInjective
  <1>4. ASSUME NEW s, Registry!selectNodesForReplication(s)
        PROVE  RP!selectNodesForReplication(s)
    BY <1>3, <1>4 DEF Registry!selectNodesForReplication,
         RP!selectNodesForReplication, Registry!NextIndex, RP!NextIndex
  <1>. QED  BY <1>1, <1>2, <1>3, <1>4

(***************************************************************************)
(* The inductive invariant.                                                *)
(***************************************************************************)

\* What a handler's program counter says about its other variables.
PutShape(x) ==
  /\ x.pc \in {"receiving", "placing", "sending"} => x.path \in Paths
  /\ x.pc \in {"idle", "receiving", "done"} => x.chunks = <<>>
  /\ x.pc = "sending" =>
       x.chunks # <<>> /\ Len(x.tasks) = ReplicationFactor
GetShape(x) ==
  /\ x.pc \in {"found", "reading"} => x.path \in Paths
  /\ x.pc = "found" /\ ~x.dangling => entries[x.path] # NoFile
  /\ x.pc = "idle" => ~x.dangling
  /\ x.pc \in {"idle", "found"} =>
       ~x.ub /\ ~x.short /\ x.data = <<>> /\ x.at = 1
  /\ x.pc # "done" => x.status = "none"
  /\ x.began <= clock
DelShape(x) == x.pc = "found" => x.path \in Paths

DiskInv ==
  /\ chunk_id_counter \in Nat
  /\ DOMAIN disks = Nodes
  /\ \A n \in Nodes : /\ DOMAIN disks[n] \subseteq Nat
                      /\ \A k \in DOMAIN disks[n] : disks[n][k] \in Data
PutInv == put \in [Puts -> PutState] /\ \A w \in Puts : PutShape(put[w])
GetInv == get \in [Gets -> GetState] /\ \A r \in Gets : GetShape(get[r])
DelInv == del \in [Dels -> DelState] /\ \A d \in Dels : DelShape(del[d])
CleanerInv == cleaner \in [running : BOOLEAN, at : Nat \ {0}]

TypeInv ==
  /\ SP!StoreInv
  /\ RP!RegistryInv
  /\ DiskInv
  /\ PutInv
  /\ GetInv
  /\ DelInv
  /\ CleanerInv

(***************************************************************************)
(* Data.                                                                   *)
(***************************************************************************)

\* Data is the sequences over some set of units.
LEMMA DataSeq == \E U : Data = Seq(U)
  BY DEF Data

\* Uploaded contents are data.
LEMMA ContentData == Contents \subseteq Data
  <1> SUFFICES ASSUME NEW c \in Contents PROVE c \in Data
    OBVIOUS
  <1>1. c \in Seq(Range(c))
    BY CoordinatorAssumption
  <1>2. Range(c) \subseteq UNION {Range(x) : x \in Contents}
    OBVIOUS
  <1> DEFINE U == UNION {Range(x) : x \in Contents}
             V == Range(c)
  <1>3. c \in Seq(V) /\ V \subseteq U
    BY <1>1, <1>2
  <1> HIDE DEF U, V
  <1>4. c \in Seq(U)
    BY <1>3
  <1>. QED  BY <1>4 DEF Data, U

\* A part of data is data, whatever its bounds.
LEMMA PartData ==
  ASSUME NEW d \in Data, NEW a \in Nat \ {0}, NEW b \in 0..Len(d)
  PROVE  SubSeq(d, a, b) \in Data
  <1>1. PICK U : Data = Seq(U)
    BY DataSeq
  <1>2. d \in Seq(U)
    BY <1>1
  <1>3. SubSeq(d, a, b) \in Seq(U)
    BY <1>2
  <1>. QED  BY <1>1, <1>3

\* So are the prefixes a broken call or stream leaves, and the chunks.
LEMMA PrefixData ==
  ASSUME NEW d \in Data, NEW y \in Prefixes(d)
  PROVE  y \in Data
  <1>1. PICK k \in 0..Len(d) : y = SubSeq(d, 1, k)
    BY DEF Prefixes
  <1>. QED  BY <1>1, PartData

\* A chunk's content is data.
LEMMA SliceData ==
  ASSUME NEW d \in Data, NEW i \in Nat \ {0}
  PROVE  Slice(d, i) \in Data
  <1> DEFINE start == (i - 1) * ChunkSize
             end == IF start + ChunkSize < Len(d) THEN start + ChunkSize
                    ELSE Len(d)
  <1>1. ChunkSize \in Nat \ {0}
    BY CoordinatorAssumption
  <1>2. start \in Nat
    BY <1>1
  <1>3. Len(d) \in Nat
    BY DataSeq
  <1>4. start + 1 \in Nat \ {0} /\ end \in 0..Len(d)
    BY <1>1, <1>2, <1>3
  <1> HIDE DEF start, end
  <1>5. SubSeq(d, start + 1, end) \in Data
    BY <1>4, PartData
  <1>. QED  BY <1>5 DEF Slice, start, end

\* What a download collects is data.
LEMMA ConcatData ==
  ASSUME NEW d \in Data, NEW e \in Data
  PROVE  d \o e \in Data
  BY DataSeq

\* No units at all are data.
LEMMA EmptyData == <<>> \in Data
  BY DataSeq

(***************************************************************************)
(* Type correctness.                                                       *)
(***************************************************************************)

\* A fault that is not one of the registry's leaves the registry as it is.
LEMMA FaultKeepsRegistry ==
  ASSUME RP!RegistryInv, UNCHANGED registryVars,
         NEW k \in {"call", "write", "read", "stream"}, Registry!Fault(k)
  PROVE  /\ RP!RegistryInv'
         /\ faults' \in [FaultKinds -> Nat]
         /\ faults'["write"] = 0 => faults["write"] = 0
         /\ k = "write" => faults'["write"] # 0
  <1>1. /\ registered_nodes' = registered_nodes /\ next_node_id' = next_node_id
        /\ next_node_index' = next_node_index /\ issued' = issued
        /\ up' = up /\ node_id' = node_id
    BY DEF registryVars
  <1>2. /\ k \in FaultKinds /\ "write" \in FaultKinds /\ "rpc" \in FaultKinds
        /\ "race" \in FaultKinds /\ "restart" \in FaultKinds
        /\ k # "rpc" /\ k # "race" /\ k # "restart"
    BY CoordinatorAssumption
  <1>3. faults \in [FaultKinds -> Nat]
    BY DEF RP!RegistryInv, RP!TypeOK
  <1>4. faults' = [faults EXCEPT ![k] = @ + 1]
    BY DEF Registry!Fault
  <1>5. /\ faults' \in [FaultKinds -> Nat]
        /\ faults'["write"] = 0 => faults["write"] = 0
        /\ k = "write" => faults'["write"] # 0
        /\ faults'["rpc"] = faults["rpc"] /\ faults'["race"] = faults["race"]
        /\ faults'["restart"] = faults["restart"]
    BY <1>2, <1>3, <1>4
  <1>6. RP!TypeOK'
    BY <1>1, <1>5 DEF RP!RegistryInv, RP!TypeOK
  <1>7. /\ RP!AddressUnique' /\ RP!RegisteredAsIssued' /\ RP!IdOwner'
        /\ RP!RunningNodesListed'
    BY <1>1, <1>5 DEF RP!RegistryInv, RP!AddressUnique, RP!IsInjective,
       RP!RegisteredAsIssued, RP!IdOwner, RP!RunningNodesListed
  <1>. QED  BY <1>5, <1>6, <1>7 DEF RP!RegistryInv

\* The registry without a step.
LEMMA RegistryStutters ==
  ASSUME RP!RegistryInv, UNCHANGED registryVars, UNCHANGED faults
  PROVE  RP!RegistryInv'
  BY DEF registryVars, RP!RegistryInv, RP!TypeOK, RP!AddressUnique,
     RP!IsInjective, RP!RegisteredAsIssued, RP!IdOwner, RP!RunningNodesListed

\* The store without a step.
LEMMA StoreStutters ==
  ASSUME SP!StoreInv, UNCHANGED storeVars
  PROVE  SP!StoreInv'
  BY DEF storeVars, SP!StoreInv, SP!TypeOK, SP!CountMatchesDeque,
     SP!TombstonesInOrder, SP!ScanInPast

\* The parts of the invariant whose variables a step leaves alone.
LEMMA PartsStutter ==
  /\ DiskInv /\ UNCHANGED <<chunk_id_counter, disks>> => DiskInv'
  /\ PutInv /\ UNCHANGED put => PutInv'
  /\ GetInv /\ UNCHANGED <<get, entries, clock>> => GetInv'
  /\ DelInv /\ UNCHANGED del => DelInv'
  /\ CleanerInv /\ UNCHANGED cleaner => CleanerInv'
  BY DEF DiskInv, PutInv, PutShape, GetInv, GetShape, DelInv, DelShape,
         CleanerInv

\* Initially nothing is stored and no request has begun.
LEMMA TypeInvInit == Init => TypeInv
  <1> SUFFICES ASSUME Init PROVE TypeInv
    OBVIOUS
  <1>1. SP!StoreInv
    BY StoreSteps, SP!StoreInvInit, StoreAssumed DEF Init
  <1>2. RP!RegistryInv
    BY RegistrySteps, RP!RegistryInvInit, RegistryAssumed DEF Init
  <1>3. DiskInv
    BY DEF Init, DiskInv
  <1>4. PutInv
    BY EmptyData DEF Init, PutInv, PutShape, PutState, IdlePut, Status
  <1>5. GetInv
    <2>1. EmptyMeta \in FileMeta
      BY EmptyData DEF EmptyMeta, FileMeta
    <2>2. clock = 0
      BY DEF Init, Store!Init
    <2>3. IdleGet \in GetState
      BY EmptyData, <2>1 DEF GetState, IdleGet, Status
    <2>4. GetInv
      BY <2>2, <2>3 DEF Init, GetInv, GetShape, IdleGet
    <2>. QED  BY <2>4
  <1>6. DelInv /\ CleanerInv
    BY DEF Init, DelInv, DelShape, DelState, IdleDel, CleanerInv, Status
  <1>. QED  BY <1>1, <1>2, <1>3, <1>4, <1>5, <1>6 DEF TypeInv

\* A step of one upload: its new state has the type and the shape.
LEMMA PutUpdate ==
  ASSUME PutInv, NEW w \in Puts, NEW x \in PutState, PutShape(x),
         put' = [put EXCEPT ![w] = x]
  PROVE  PutInv'
  BY DEF PutInv, PutShape

\* An answered upload has forgotten its chunks.
LEMMA PutDoneType ==
  ASSUME PutInv, NEW w \in Puts, NEW s \in Status, PutDone(w, s)
  PROVE  PutInv'
  <1> DEFINE x == [IdlePut EXCEPT !.pc = "done", !.status = s]
  <1>1. IdlePut \in PutState /\ IdlePut.chunks = <<>>
    BY EmptyData DEF PutState, IdlePut, Status
  <1>3. x \in PutState /\ PutShape(x)
    BY <1>1 DEF PutState, PutShape
  <1>2. put' = [put EXCEPT ![w] = x]
    BY DEF PutDone
  <1> HIDE DEF x
  <1>. QED  BY <1>2, <1>3, PutUpdate

\* Steps that change nothing but uploads.
LEMMA OnlyPut ==
  ASSUME TypeInv, PutInv',
         UNCHANGED <<storeVars, registryVars, faults, chunk_id_counter, disks,
                     get, del, cleaner>>
  PROVE  TypeInv'
  <1>1. UNCHANGED storeVars /\ UNCHANGED registryVars /\ UNCHANGED faults
    OBVIOUS
  <1>2. UNCHANGED <<entries, clock>>
    BY <1>1 DEF storeVars
  <1>. QED
    BY <1>1, <1>2, StoreStutters, RegistryStutters, PartsStutter DEF TypeInv

\* PutFile's first message keeps the types.
LEMMA TypePutBegin ==
  ASSUME TypeInv, NEW w \in Puts, NEW p \in Paths, NEW c \in Contents,
         PutBegin(w, p, c)
  PROVE  TypeInv'
  <1>1. PutInv
    BY DEF TypeInv
  <1>2. CASE PutDone(w, "ALREADY_EXISTS")
    BY <1>1, <1>2, PutDoneType, OnlyPut DEF PutBegin, Status
  <1>3. CASE put' = [put EXCEPT ![w].pc = "receiving", ![w].path = p,
                                ![w].data = c]
    <2> DEFINE x == [put[w] EXCEPT !.pc = "receiving", !.path = p, !.data = c]
    <2>1. put[w] \in PutState /\ PutShape(put[w]) /\ put[w].pc = "idle"
      BY <1>1 DEF PutInv, PutBegin
    <2>2. x \in PutState /\ PutShape(x)
      BY <2>1, ContentData DEF PutState, PutShape
    <2>3. put' = [put EXCEPT ![w] = x]
      BY <1>3
    <2> HIDE DEF x
    <2>. QED  BY <1>1, <2>2, <2>3, PutUpdate, OnlyPut DEF PutBegin
  <1>. QED  BY <1>2, <1>3 DEF PutBegin

\* So does a request without a name.
LEMMA TypePutUnnamed ==
  ASSUME TypeInv, NEW w \in Puts, PutUnnamed(w)
  PROVE  TypeInv'
  BY PutDoneType, OnlyPut DEF PutUnnamed, Status, TypeInv

\* The next chunk, or the error.
LEMMA TypePutJoin ==
  ASSUME TypeInv, NEW w \in Puts, PutJoin(w)
  PROVE  TypeInv'
  <1>1. PutInv
    BY DEF TypeInv
  <1>2. CASE PutDone(w, "INTERNAL")
    BY <1>1, <1>2, PutDoneType, OnlyPut DEF PutJoin, Status
  <1>3. CASE put' = [put EXCEPT ![w].pc = "placing", ![w].tasks = <<>>]
    <2> DEFINE x == [put[w] EXCEPT !.pc = "placing", !.tasks = <<>>]
    <2>1. put[w] \in PutState /\ PutShape(put[w]) /\ put[w].pc = "sending"
      BY <1>1 DEF PutInv, PutJoin
    <2>0. <<>> \in Seq({"sent", "ok", "failed"})
      OBVIOUS
    <2>2. x \in PutState /\ PutShape(x)
      BY <2>0, <2>1 DEF PutState, PutShape
    <2>3. put' = [put EXCEPT ![w] = x]
      BY <1>3
    <2> HIDE DEF x
    <2>. QED  BY <1>1, <2>2, <2>3, PutUpdate, OnlyPut DEF PutJoin
  <1>. QED  BY <1>2, <1>3 DEF PutJoin

\* Steps of an upload that also touch the disks or the registry.
LEMMA PutAnd ==
  ASSUME TypeInv, PutInv', DiskInv', RP!RegistryInv',
         UNCHANGED <<storeVars, get, del, cleaner>>
  PROVE  TypeInv'
  <1>1. UNCHANGED storeVars /\ UNCHANGED <<entries, clock>>
    BY DEF storeVars
  <1>. QED  BY <1>1, StoreStutters, PartsStutter DEF TypeInv

\* The end of the stream, or where it broke.
LEMMA TypePutReceive ==
  ASSUME TypeInv, NEW w \in Puts, PutReceive(w)
  PROVE  TypeInv'
  <1>1. PutInv /\ DiskInv'
    BY PartsStutter DEF TypeInv, PutReceive
  <1>2. put[w] \in PutState /\ PutShape(put[w]) /\ put[w].pc = "receiving"
    BY <1>1 DEF PutInv, PutReceive
  <1>3. CASE put' = [put EXCEPT ![w].pc = "placing"] /\ NoFault
    <2> DEFINE x == [put[w] EXCEPT !.pc = "placing"]
    <2>1. x \in PutState /\ PutShape(x)
      BY <1>2 DEF PutState, PutShape
    <2>2. put' = [put EXCEPT ![w] = x]
      BY <1>3
    <2> HIDE DEF x
    <2>. QED  BY <1>1, <1>3, <2>1, <2>2, PutUpdate, OnlyPut
              DEF PutReceive, NoFault
  <1>4. ASSUME Registry!Fault("stream"), NEW y \in Prefixes(put[w].data),
               put' = [put EXCEPT ![w].pc = "placing", ![w].data = y]
        PROVE  TypeInv'
    <2> DEFINE x == [put[w] EXCEPT !.pc = "placing", !.data = y]
    <2>1. y \in Data
      BY <1>2, PrefixData DEF PutState
    <2>2. x \in PutState /\ PutShape(x)
      BY <1>2, <2>1 DEF PutState, PutShape
    <2>3. put' = [put EXCEPT ![w] = x]
      BY <1>4
    <2> HIDE DEF x
    <2>4. PutInv'
      BY <1>1, <2>2, <2>3, PutUpdate
    <2>5. RP!RegistryInv'
      BY <1>4, FaultKeepsRegistry DEF PutReceive, TypeInv
    <2>. QED  BY <1>1, <2>4, <2>5, PutAnd DEF PutReceive
  <1>. QED  BY <1>3, <1>4 DEF PutReceive

\* The ids a chunk is placed on, one for each replica, were issued.
LEMMA SelectedIds ==
  ASSUME RP!RegistryInv, NEW ids \in Registry!Selections, ids # <<>>
  PROVE  /\ ids \in Seq(Nat) /\ Len(ids) = ReplicationFactor
         /\ DOMAIN ids = 1..ReplicationFactor
         /\ \A i \in 1..ReplicationFactor : ids[i] \in DOMAIN issued
  <1>1. ReplicationFactor \in Nat
    BY CoordinatorAssumption
  <1>2. ids \in [1..ReplicationFactor -> DOMAIN registered_nodes]
    BY RegistrySteps, RP!SelectionProperties, RegistryAssumed
  <1>3. DOMAIN registered_nodes \subseteq DOMAIN issued
    BY DEF RP!RegistryInv, RP!RegisteredAsIssued
  <1>4. DOMAIN registered_nodes \subseteq Nat
    BY DEF RP!RegistryInv, RP!TypeOK
  <1>. QED  BY <1>1, <1>2, <1>3, <1>4

\* A new chunk, its nodes and its tasks.
LEMMA TypePutPlace ==
  ASSUME TypeInv, NEW w \in Puts, PutPlace(w)
  PROVE  TypeInv'
  <1>1. PutInv /\ RP!RegistryInv
    BY DEF TypeInv
  <1>2. put[w] \in PutState /\ PutShape(put[w]) /\ put[w].pc = "placing"
    BY <1>1 DEF PutInv, PutPlace
  <1>3. PICK ids \in Registry!Selections :
          /\ Registry!selectNodesForReplication(ids)
          /\ \/ ids = <<>> /\ PutDone(w, "INTERNAL")
             \/ /\ ids # <<>>
                /\ put' = [put EXCEPT
                     ![w].pc = "sending",
                     ![w].chunks = Append(@, [chunk_id |-> chunk_id_counter,
                                              node_ids |-> ids]),
                     ![w].tasks = [i \in DOMAIN ids |-> "sent"]]
    BY DEF PutPlace
  <1>4. RP!RegistryInv'
    BY <1>1, <1>3, RegistrySteps, RP!RegistryInvSelect, RegistryAssumed
  <1>5. chunk_id_counter \in Nat /\ chunk_id_counter' = chunk_id_counter + 1
        /\ disks' = disks
    BY DEF PutPlace, NextChunkId, TypeInv, DiskInv
  <1>6. DiskInv'
    BY <1>5 DEF TypeInv, DiskInv
  <1>7. CASE PutDone(w, "INTERNAL")
    BY <1>1, <1>4, <1>6, <1>7, PutDoneType, PutAnd DEF PutPlace, Status
  <1>8. CASE ids # <<>> /\ ~PutDone(w, "INTERNAL")
    <2> DEFINE c == [chunk_id |-> chunk_id_counter, node_ids |-> ids]
               tasks == [i \in DOMAIN ids |-> "sent"]
               x == [put[w] EXCEPT !.pc = "sending",
                                   !.chunks = Append(@, c), !.tasks = tasks]
    <2>1. /\ ids \in Seq(Nat) /\ Len(ids) = ReplicationFactor
          /\ DOMAIN ids = 1..ReplicationFactor
      BY <1>1, <1>8, SelectedIds
    <2>2. c \in ChunkInfo
      BY <1>5, <2>1 DEF ChunkInfo
    <2>3. tasks \in Seq({"sent", "ok", "failed"})
          /\ Len(tasks) = ReplicationFactor
      BY <2>1
    <2>4. put' = [put EXCEPT ![w] = x]
      BY <1>3, <1>8
    <2> HIDE DEF c, tasks
    <2>5. put[w].chunks \in Seq(ChunkInfo)
      BY <1>2 DEF PutState
    <2>6. Append(put[w].chunks, c) \in Seq(ChunkInfo)
          /\ Append(put[w].chunks, c) # <<>>
      BY <2>2, <2>5
    <2>7. x \in PutState /\ PutShape(x)
      BY <1>2, <2>3, <2>6 DEF PutState, PutShape
    <2> HIDE DEF x
    <2>. QED  BY <1>1, <1>4, <1>6, <2>4, <2>7, PutUpdate, PutAnd DEF PutPlace
  <1>. QED  BY <1>3, <1>7, <1>8

\* A registered id leads to the node it was issued to.
LEMMA HomeIssued ==
  ASSUME RP!RegistryInv, NEW id \in DOMAIN registered_nodes
  PROVE  id \in DOMAIN issued /\ Home(id) = issued[id] /\ Home(id) \in Nodes
  BY DEF RP!RegistryInv, RP!TypeOK, RP!RegisteredAsIssued, RP!DataNodeInfo, Home

\* A call of PutChunk writes one file of one node.
LEMMA WriteFrame ==
  ASSUME DiskInv, RP!RegistryInv, NEW id \in DOMAIN registered_nodes,
         NEW c \in Nat, NEW x \in Data, WriteChunk(id, c, x)
  PROVE  /\ DOMAIN disks' = Nodes
         /\ DOMAIN disks'[issued[id]] = DOMAIN disks[issued[id]] \cup {c}
         /\ disks'[issued[id]][c] = x
         /\ \A k \in DOMAIN disks[issued[id]] :
              k # c => disks'[issued[id]][k] = disks[issued[id]][k]
         /\ \A n \in Nodes : n # issued[id] => disks'[n] = disks[n]
  <1> DEFINE h == issued[id]
  <1>1. h \in Nodes /\ Home(id) = h /\ DOMAIN disks = Nodes
    BY HomeIssued DEF DiskInv
  <1> HIDE DEF h
  <1>2. disks' = [disks EXCEPT ![h] = [k \in DOMAIN disks[h] \cup {c} |->
                                         IF k = c THEN x ELSE disks[h][k]]]
    BY <1>1 DEF WriteChunk
  <1>3. /\ DOMAIN disks' = Nodes
        /\ disks'[h] = [k \in DOMAIN disks[h] \cup {c} |->
                          IF k = c THEN x ELSE disks[h][k]]
        /\ \A n \in Nodes : n # h => disks'[n] = disks[n]
    BY <1>1, <1>2
  <1>. QED  BY <1>3 DEF h

\* A call of DeleteChunk removes one file of one node.
LEMMA RemoveFrame ==
  ASSUME DiskInv, RP!RegistryInv, NEW id \in DOMAIN registered_nodes,
         NEW c \in Nat, RemoveChunk(id, c)
  PROVE  /\ DOMAIN disks' = Nodes
         /\ DOMAIN disks'[issued[id]] = DOMAIN disks[issued[id]] \ {c}
         /\ \A k \in DOMAIN disks[issued[id]] :
              k # c => disks'[issued[id]][k] = disks[issued[id]][k]
         /\ \A n \in Nodes : n # issued[id] => disks'[n] = disks[n]
  <1> DEFINE h == issued[id]
  <1>1. h \in Nodes /\ Home(id) = h /\ DOMAIN disks = Nodes
    BY HomeIssued DEF DiskInv
  <1> HIDE DEF h
  <1>2. disks' = [disks EXCEPT ![h] = [k \in DOMAIN disks[h] \ {c} |->
                                         disks[h][k]]]
    BY <1>1 DEF RemoveChunk, Restrict
  <1>3. /\ DOMAIN disks' = Nodes
        /\ disks'[h] = [k \in DOMAIN disks[h] \ {c} |-> disks[h][k]]
        /\ \A n \in Nodes : n # h => disks'[n] = disks[n]
    BY <1>1, <1>2
  <1>. QED  BY <1>3 DEF h

\* Both leave the disks well formed.
LEMMA DiskCall ==
  ASSUME DiskInv, RP!RegistryInv, NEW id \in DOMAIN registered_nodes,
         NEW c \in Nat, UNCHANGED chunk_id_counter,
         (\E x \in Data : WriteChunk(id, c, x)) \/ RemoveChunk(id, c)
  PROVE  DiskInv'
  <1> DEFINE h == issued[id]
  <1>1. h \in Nodes
    BY HomeIssued
  <1>2. CASE \E x \in Data : WriteChunk(id, c, x)
    <2>1. PICK x \in Data : WriteChunk(id, c, x)
      BY <1>2
    <2>2. /\ DOMAIN disks' = Nodes
          /\ DOMAIN disks'[h] = DOMAIN disks[h] \cup {c}
          /\ disks'[h][c] = x
          /\ \A k \in DOMAIN disks[h] : k # c => disks'[h][k] = disks[h][k]
          /\ \A n \in Nodes : n # h => disks'[n] = disks[n]
      BY <2>1, WriteFrame
    <2> HIDE DEF h
    <2>. QED  BY <1>1, <2>2 DEF DiskInv
  <1>3. CASE RemoveChunk(id, c)
    <2>1. /\ DOMAIN disks' = Nodes
          /\ DOMAIN disks'[h] = DOMAIN disks[h] \ {c}
          /\ \A k \in DOMAIN disks[h] : k # c => disks'[h][k] = disks[h][k]
          /\ \A n \in Nodes : n # h => disks'[n] = disks[n]
      BY <1>3, RemoveFrame
    <2> HIDE DEF h
    <2>. QED  BY <1>1, <2>1 DEF DiskInv
  <1>. QED  BY <1>2, <1>3

\* The chunk an upload is sending, and its replicas.
LEMMA SendingChunk ==
  ASSUME PutInv, NEW w \in Puts, put[w].pc = "sending"
  PROVE  /\ put[w] \in PutState
         /\ put[w].chunks \in Seq(ChunkInfo) /\ Len(put[w].chunks) \in Nat \ {0}
         /\ put[w].chunks[Len(put[w].chunks)] \in ChunkInfo
         /\ put[w].chunks[Len(put[w].chunks)].chunk_id \in Nat
         /\ put[w].data \in Data
         /\ Slice(put[w].data, Len(put[w].chunks)) \in Data
         /\ put[w].tasks \in Seq({"sent", "ok", "failed"})
         /\ DOMAIN put[w].tasks = 1..ReplicationFactor
  <1>1. put[w] \in PutState /\ put[w].chunks # <<>>
        /\ Len(put[w].tasks) = ReplicationFactor
    BY DEF PutInv, PutShape
  <1>2. put[w].chunks \in Seq(ChunkInfo) /\ put[w].data \in Data
        /\ put[w].tasks \in Seq({"sent", "ok", "failed"})
    BY <1>1 DEF PutState
  <1>3. Len(put[w].chunks) \in Nat \ {0}
    BY <1>1, <1>2
  <1>4. put[w].chunks[Len(put[w].chunks)] \in ChunkInfo
    BY <1>2, <1>3
  <1>5. DOMAIN put[w].tasks = 1..ReplicationFactor
    BY <1>1, <1>2
  <1>. QED  BY <1>1, <1>2, <1>3, <1>4, <1>5, SliceData DEF ChunkInfo

\* A task that has ended.
LEMMA TaskResultType ==
  ASSUME PutInv, NEW w \in Puts, put[w].pc = "sending",
         NEW i \in DOMAIN put[w].tasks, NEW result \in {"ok", "failed"},
         TaskResult(w, i, result)
  PROVE  PutInv'
  <1> DEFINE t == [put[w].tasks EXCEPT ![i] = result]
             x == [put[w] EXCEPT !.tasks = t]
  <1>1. put[w] \in PutState /\ PutShape(put[w])
        /\ put[w].tasks \in Seq({"sent", "ok", "failed"})
    BY SendingChunk DEF PutInv
  <1>2. t \in Seq({"sent", "ok", "failed"}) /\ Len(t) = Len(put[w].tasks)
    BY <1>1
  <1>3. put' = [put EXCEPT ![w] = x]
    BY DEF TaskResult
  <1> HIDE DEF t
  <1>4. x \in PutState /\ PutShape(x)
    BY <1>1, <1>2 DEF PutState, PutShape
  <1> HIDE DEF x
  <1>. QED  BY <1>3, <1>4, PutUpdate

\* One replica is written, or not.
LEMMA TypePutTask ==
  ASSUME TypeInv, NEW w \in Puts, NEW i \in DOMAIN put[w].tasks, PutTask(w, i)
  PROVE  TypeInv'
  <1> DEFINE n == Len(put[w].chunks)
             c == put[w].chunks[n]
             id == c.node_ids[i]
             x == Slice(put[w].data, n)
  <1>1. PutInv /\ DiskInv /\ RP!RegistryInv
    BY DEF TypeInv
  <1>2. put[w].pc = "sending" /\ chunk_id_counter' = chunk_id_counter
        /\ UNCHANGED registryVars /\ UNCHANGED <<storeVars, get, del, cleaner>>
    BY DEF PutTask
  <1>3. c.chunk_id \in Nat /\ x \in Data
    BY <1>1, <1>2, SendingChunk
  <1> HIDE DEF x
  <1>4. PutInv'
    BY <1>1, <1>2, TaskResultType DEF PutTask
  <1>5. RP!RegistryInv'
    BY <1>1, <1>2, FaultKeepsRegistry, RegistryStutters DEF PutTask, NoFault
  <1>6. \/ disks' = disks
        \/ id \in DOMAIN registered_nodes
           /\ \E y \in Data : WriteChunk(id, c.chunk_id, y)
    BY <1>3, PrefixData DEF PutTask, Reachable, x
  <1>7. DiskInv'
    <2>1. CASE disks' = disks
      BY <1>1, <1>2, <2>1, PartsStutter
    <2>2. CASE id \in DOMAIN registered_nodes
               /\ \E y \in Data : WriteChunk(id, c.chunk_id, y)
      <3> HIDE DEF id, c
      <3>. QED  BY <1>1, <1>2, <1>3, <2>2, DiskCall
    <2>. QED  BY <1>6, <2>1, <2>2
  <1>. QED  BY <1>2, <1>4, <1>5, <1>7, PutAnd

\* What an upload commits is the metadata of a file.
LEMMA CommitMeta ==
  ASSUME PutInv, NEW w \in Puts
  PROVE  [data |-> put[w].data, chunks |-> put[w].chunks] \in FileMeta
  BY DEF PutInv, PutState, FileMeta

\* Downloads keep what they found when no entry goes.
LEMMA GetKept ==
  ASSUME GetInv, UNCHANGED get, clock \in Nat, clock' \in Nat, clock' >= clock,
         \A p \in Paths : entries[p] # NoFile => entries'[p] # NoFile
  PROVE  GetInv'
  <1>1. \A r \in Gets : get[r].began \in Nat
    BY DEF GetInv, GetState
  <1>. QED  BY <1>1 DEF GetInv, GetShape

\* putFile: a file is stored, and downloads that found one still do.
LEMMA TypePutCommit ==
  ASSUME TypeInv, NEW w \in Puts, PutCommit(w)
  PROVE  TypeInv'
  <1> DEFINE m == [data |-> put[w].data, chunks |-> put[w].chunks]
  <1>1. /\ PutInv /\ put[w].path \in Paths
        /\ SP!StoreInv /\ clock \in Nat /\ entries \in [Paths -> FileMeta \cup {NoFile}]
    BY DEF TypeInv, PutInv, PutShape, PutCommit, SP!StoreInv, SP!TypeOK
  <1>2. m \in FileMeta
    BY <1>1, CommitMeta
  <1>3. Store!putFile(put[w].path, m)
    BY DEF PutCommit
  <1> HIDE DEF m
  <1>4. SP!StoreInv'
    BY <1>1, <1>2, <1>3, StoreSteps, SP!StoreInvPut, StoreAssumed
  <1>5. entries' = [entries EXCEPT ![put[w].path] = m] /\ clock' = clock
    BY <1>3 DEF Store!putFile
  <1>6. m # NoFile
    BY <1>2, CoordinatorAssumption
  <1>7. GetInv'
    BY <1>1, <1>5, <1>6, GetKept DEF PutCommit, TypeInv
  <1>8. PutInv'
    BY <1>1, PutDoneType DEF PutCommit, Status
  <1>. QED
    BY <1>4, <1>7, <1>8, RegistryStutters, PartsStutter DEF PutCommit, TypeInv

\* A step of one download.
LEMMA GetUpdate ==
  ASSUME TypeInv, NEW r \in Gets, NEW x \in GetState, GetShape(x),
         get' = [get EXCEPT ![r] = x], RP!RegistryInv',
         UNCHANGED <<storeVars, chunk_id_counter, disks, put, del, cleaner>>
  PROVE  TypeInv'
  <1>1. UNCHANGED storeVars /\ UNCHANGED <<entries, clock>>
    BY DEF storeVars
  <1>2. GetInv'
    BY <1>1 DEF TypeInv, GetInv, GetShape
  <1>. QED  BY <1>1, <1>2, StoreStutters, PartsStutter DEF TypeInv

\* What a download's state says.
LEMMA GetFields ==
  ASSUME TypeInv, NEW r \in Gets
  PROVE  /\ get[r] \in GetState /\ GetShape(get[r])
         /\ get[r].meta \in FileMeta
         /\ get[r].meta.data \in Data /\ get[r].meta.chunks \in Seq(ChunkInfo)
         /\ get[r].at \in Nat \ {0} /\ get[r].replica \in Nat \ {0}
         /\ get[r].began \in Nat /\ get[r].data \in Data
         /\ get[r].ub \in BOOLEAN /\ get[r].short \in BOOLEAN
         /\ clock \in Nat /\ entries \in [Paths -> FileMeta \cup {NoFile}]
  <1>1. get[r] \in GetState /\ GetShape(get[r])
    BY DEF TypeInv, GetInv
  <1>2. clock \in Nat /\ entries \in [Paths -> FileMeta \cup {NoFile}]
    BY DEF TypeInv, SP!StoreInv, SP!TypeOK
  <1>. QED  BY <1>1, <1>2 DEF GetState, FileMeta

\* GetFile's lookup.
LEMMA TypeGetBegin ==
  ASSUME TypeInv, NEW r \in Gets, NEW p \in Paths, GetBegin(r, p)
  PROVE  TypeInv'
  <1>1. /\ get[r] \in GetState /\ GetShape(get[r]) /\ get[r].pc = "idle"
        /\ clock \in Nat
    BY GetFields DEF GetBegin
  <1>2. RP!RegistryInv'
    BY RegistryStutters DEF GetBegin, TypeInv
  <1>3. CASE GetDone(r, "NOT_FOUND")
    <2> DEFINE x == [get[r] EXCEPT !.pc = "done", !.status = "NOT_FOUND"]
    <2>1. x \in GetState /\ GetShape(x)
      BY <1>1 DEF GetState, GetShape, Status
    <2>2. get' = [get EXCEPT ![r] = x]
      BY <1>3 DEF GetDone
    <2> HIDE DEF x
    <2>. QED  BY <1>2, <2>1, <2>2, GetUpdate DEF GetBegin
  <1>4. CASE /\ Store!getFile(p) # NoFile
             /\ get' = [get EXCEPT ![r].pc = "found", ![r].path = p,
                                   ![r].began = clock]
    <2> DEFINE x == [get[r] EXCEPT !.pc = "found", !.path = p, !.began = clock]
    <2>1. entries[p] # NoFile
      BY <1>4 DEF Store!getFile
    <2>2. x \in GetState
      BY <1>1 DEF GetState
    <2>3. GetShape(x)
      BY <1>1, <2>1 DEF GetShape, GetState
    <2>4. get' = [get EXCEPT ![r] = x]
      BY <1>4
    <2> HIDE DEF x
    <2>. QED  BY <1>2, <2>2, <2>3, <2>4, GetUpdate DEF GetBegin
  <1>. QED  BY <1>3, <1>4 DEF GetBegin

\* What GetOpen may take for the file.
LEMMA OpenedMeta ==
  ASSUME TypeInv, NEW r \in Gets, GetOpen(r)
  PROVE  \E m \in FileMeta :
           /\ \/ get[r].dangling /\ (m = EmptyMeta \/ \E p \in Paths : m = entries[p])
              \/ ~get[r].dangling /\ m = entries[get[r].path]
                 /\ get[r].path \in Paths
           /\ get' = [get EXCEPT ![r].pc = "reading", ![r].meta = m,
                                 ![r].ub = get[r].dangling]
  <1>1. /\ GetShape(get[r]) /\ get[r].pc = "found"
        /\ entries \in [Paths -> FileMeta \cup {NoFile}]
    BY GetFields DEF GetOpen
  <1>2. PICK m \in IF get[r].dangling
                   THEN {EmptyMeta} \cup (Range(entries) \ {NoFile})
                   ELSE {Store!getFile(get[r].path)} :
          get' = [get EXCEPT ![r].pc = "reading", ![r].meta = m,
                             ![r].ub = get[r].dangling]
    BY DEF GetOpen
  <1>3. EmptyMeta \in FileMeta
    BY EmptyData DEF EmptyMeta, FileMeta
  <1>4. CASE get[r].dangling
    <2>1. m = EmptyMeta \/ (m # NoFile /\ \E p \in Paths : m = entries[p])
      BY <1>1, <1>2, <1>4 DEF Range
    <2>. QED  BY <1>1, <1>2, <1>3, <1>4, <2>1
  <1>5. CASE ~get[r].dangling
    <2>1. m = entries[get[r].path] /\ get[r].path \in Paths
          /\ entries[get[r].path] # NoFile
      BY <1>1, <1>2, <1>5 DEF GetShape, Store!getFile
    <2>. QED  BY <1>1, <1>2, <1>5, <2>1
  <1>. QED  BY <1>4, <1>5

\* The range-for over the chunks begins.
LEMMA TypeGetOpen ==
  ASSUME TypeInv, NEW r \in Gets, GetOpen(r)
  PROVE  TypeInv'
  <1>1. /\ get[r] \in GetState /\ GetShape(get[r]) /\ get[r].pc = "found"
        /\ clock \in Nat
    BY GetFields DEF GetOpen
  <1>2. RP!RegistryInv'
    BY RegistryStutters DEF GetOpen, TypeInv
  <1>3. PICK m \in FileMeta :
          get' = [get EXCEPT ![r].pc = "reading", ![r].meta = m,
                             ![r].ub = get[r].dangling]
    BY OpenedMeta
  <1> DEFINE x == [get[r] EXCEPT !.pc = "reading", !.meta = m,
                                 !.ub = get[r].dangling]
  <1>4. x \in GetState
    BY <1>1 DEF GetState
  <1>5. GetShape(x)
    BY <1>1 DEF GetShape, GetState
  <1>6. get' = [get EXCEPT ![r] = x]
    BY <1>3
  <1> HIDE DEF x
  <1>. QED  BY <1>2, <1>4, <1>5, <1>6, GetUpdate DEF GetOpen

\* The chunk a download asks for next, the replica, and whether it is served.
AskedChunk(r) == get[r].meta.chunks[get[r].at]
AskedId(r) == AskedChunk(r).node_ids[get[r].replica]
Served(r) ==
  /\ Reachable(AskedId(r))
  /\ AskedChunk(r).chunk_id \in DOMAIN disks[Home(AskedId(r))]
Answered(r) == disks[Home(AskedId(r))][AskedChunk(r).chunk_id]

\* A chunk that is served is data.
LEMMA AnsweredData ==
  ASSUME TypeInv, NEW r \in Gets, Served(r)
  PROVE  Answered(r) \in Data
  BY HomeIssued DEF TypeInv, DiskInv, Reachable, Served, Answered

\* What one attempt makes of a download: a chunk more (x, the one stored unless
\* it was shortened), the next replica, or the end; b tells whether it met
\* freed memory and s whether the download has been served a shortened chunk.
LEMMA TryOutcome ==
  ASSUME TypeInv, NEW r \in Gets, GetTry(r)
  PROVE  \E b \in BOOLEAN, s \in BOOLEAN, x \in Data :
           /\ b = (get[r].ub \/ ~BufferLive(get[r].meta))
           /\ \/ /\ Served(r)
                 /\ (x = Answered(r) /\ s = get[r].short) \/ s = TRUE
                 /\ get' = [get EXCEPT ![r] =
                      [get[r] EXCEPT !.data = @ \o x, !.at = @ + 1,
                                     !.replica = 1, !.ub = b, !.short = s]]
              \/ get' = [get EXCEPT ![r] =
                           [get[r] EXCEPT !.replica = @ + 1, !.ub = b]]
              \/ get' = [get EXCEPT ![r] =
                           [get[r] EXCEPT !.pc = "done", !.status = "INTERNAL"]]
              \/ get' = [get EXCEPT ![r] =
                           [get[r] EXCEPT !.pc = "done", !.status = "INTERNAL",
                                          !.ub = TRUE]]
  <1>1. PICK b \in BOOLEAN : b = (get[r].ub \/ ~BufferLive(get[r].meta))
    OBVIOUS
  <1>2. get[r].short \in BOOLEAN
    BY GetFields
  <1>3. CASE Served(r) /\ NextChunk(r, Answered(r), FALSE)
    <2>1. PICK s \in BOOLEAN : s = get[r].short
      BY <1>2
    <2>2. (get[r].short \/ FALSE) = s
      BY <1>2, <2>1
    <2>3. PICK x \in Data : x = Answered(r)
      BY <1>3, AnsweredData
    <2>4. get' = [get EXCEPT ![r] =
                    [get[r] EXCEPT !.data = @ \o x, !.at = @ + 1,
                                   !.replica = 1, !.ub = b, !.short = s]]
      BY <1>1, <1>3, <2>2, <2>3 DEF NextChunk
    <2>. QED  BY <1>1, <1>3, <2>1, <2>3, <2>4
  <1>4. ASSUME Served(r), NEW x \in Prefixes(Answered(r)), NextChunk(r, x, TRUE)
        PROVE  /\ x \in Data
               /\ get' = [get EXCEPT ![r] =
                    [get[r] EXCEPT !.data = @ \o x, !.at = @ + 1,
                                   !.replica = 1, !.ub = b, !.short = TRUE]]
    <2>1. (get[r].short \/ TRUE) = TRUE
      OBVIOUS
    <2>2. x \in Data
      BY <1>4, AnsweredData, PrefixData
    <2>. QED  BY <1>1, <1>4, <2>1, <2>2 DEF NextChunk
  <1>5. CASE /\ Served(r)
             /\ \E x \in Prefixes(Answered(r)) : NextChunk(r, x, TRUE)
    BY <1>1, <1>4, <1>5
  <1>6. CASE \/ NextReplica(r)
             \/ GetDone(r, "INTERNAL")
             \/ get' = [get EXCEPT ![r].pc = "done", ![r].status = "INTERNAL",
                                   ![r].ub = TRUE]
    <2>1. \/ get' = [get EXCEPT ![r] =
                       [get[r] EXCEPT !.replica = @ + 1, !.ub = b]]
          \/ get' = [get EXCEPT ![r] =
                       [get[r] EXCEPT !.pc = "done", !.status = "INTERNAL"]]
          \/ get' = [get EXCEPT ![r] =
                       [get[r] EXCEPT !.pc = "done", !.status = "INTERNAL",
                                      !.ub = TRUE]]
      BY <1>1, <1>6 DEF NextReplica, GetDone
    <2>. QED  BY <1>1, <1>2, <2>1, EmptyData, Zenon
  <1>. QED  BY <1>3, <1>5, <1>6 DEF GetTry, Served, Answered, AskedId, AskedChunk

\* The steps of a download that is reading.
LEMMA TypeGetTry ==
  ASSUME TypeInv, NEW r \in Gets, GetTry(r)
  PROVE  TypeInv'
  <1>1. /\ get[r] \in GetState /\ GetShape(get[r]) /\ get[r].pc = "reading"
        /\ clock \in Nat /\ get[r].at \in Nat \ {0}
        /\ get[r].replica \in Nat \ {0} /\ get[r].data \in Data
        /\ get[r].ub \in BOOLEAN
    BY GetFields DEF GetTry
  <1>2. UNCHANGED registryVars
        /\ UNCHANGED <<storeVars, chunk_id_counter, disks, put, del, cleaner>>
    BY DEF GetTry
  <1>3. RP!RegistryInv'
    BY <1>2, FaultKeepsRegistry, RegistryStutters DEF GetTry, NoFault, TypeInv
  <1>5. PICK b \in BOOLEAN, s \in BOOLEAN, y \in Data :
          \/ get' = [get EXCEPT ![r] =
                       [get[r] EXCEPT !.data = @ \o y, !.at = @ + 1,
                                      !.replica = 1, !.ub = b, !.short = s]]
          \/ get' = [get EXCEPT ![r] =
                       [get[r] EXCEPT !.replica = @ + 1, !.ub = b]]
          \/ get' = [get EXCEPT ![r] =
                       [get[r] EXCEPT !.pc = "done", !.status = "INTERNAL"]]
          \/ get' = [get EXCEPT ![r] =
                       [get[r] EXCEPT !.pc = "done", !.status = "INTERNAL",
                                      !.ub = TRUE]]
    BY TryOutcome
  <1>0. PICK at \in Nat \ {0}, replica \in Nat \ {0} :
          at = get[r].at + 1 /\ replica = get[r].replica + 1
    BY <1>1
  <1> DEFINE x1 == [get[r] EXCEPT !.data = @ \o y, !.at = at,
                                  !.replica = 1, !.ub = b, !.short = s]
             x2 == [get[r] EXCEPT !.replica = replica, !.ub = b]
             x3 == [get[r] EXCEPT !.pc = "done", !.status = "INTERNAL"]
             x4 == [get[r] EXCEPT !.pc = "done", !.status = "INTERNAL",
                                  !.ub = TRUE]
  <1>6. \/ get' = [get EXCEPT ![r] = x1]
        \/ get' = [get EXCEPT ![r] = x2]
        \/ get' = [get EXCEPT ![r] = x3]
        \/ get' = [get EXCEPT ![r] = x4]
    BY <1>0, <1>5
  <1>7. CASE get' = [get EXCEPT ![r] = x1]
    <2>1. PICK d \in Data : d = get[r].data \o y
      BY <1>1, ConcatData
    <2>2. x1 \in GetState
      <3>0. PICK first \in Nat \ {0} : first = 1
        OBVIOUS
      <3> DEFINE z == [get[r] EXCEPT !.data = d, !.replica = first]
      <3>1. z \in GetState
        BY <1>1 DEF GetState
      <3> DEFINE v == [z EXCEPT !.at = at, !.ub = b]
      <3>2. x1 = [v EXCEPT !.short = s]
        BY <2>1, <3>0
      <3> HIDE DEF z
      <3>3. v \in GetState
        BY <3>1 DEF GetState
      <3> HIDE DEF v, x1
      <3>. QED  BY <3>2, <3>3 DEF GetState
    <2>3. GetShape(x1)
      BY <1>1 DEF GetState, GetShape
    <2> HIDE DEF x1
    <2>. QED  BY <1>2, <1>3, <1>7, <2>2, <2>3, GetUpdate
  <1>8. CASE get' = [get EXCEPT ![r] = x2]
    <2>1. x2 \in GetState
      BY <1>1 DEF GetState
    <2>2. GetShape(x2)
      BY <1>1 DEF GetState, GetShape
    <2> HIDE DEF x2
    <2>. QED  BY <1>2, <1>3, <1>8, <2>1, <2>2, GetUpdate
  <1>9. CASE get' = [get EXCEPT ![r] = x3]
    <2>1. x3 \in GetState /\ GetShape(x3)
      BY <1>1 DEF GetState, GetShape, Status
    <2> HIDE DEF x3
    <2>. QED  BY <1>2, <1>3, <1>9, <2>1, GetUpdate
  <1>10. CASE get' = [get EXCEPT ![r] = x4]
    <2>1. x4 \in GetState /\ GetShape(x4)
      BY <1>1 DEF GetState, GetShape, Status
    <2> HIDE DEF x4
    <2>. QED  BY <1>2, <1>3, <1>10, <2>1, GetUpdate
  <1>. QED  BY <1>6, <1>7, <1>8, <1>9, <1>10

\* The end of a download.
LEMMA TypeGetEnd ==
  ASSUME TypeInv, NEW r \in Gets, GetEnd(r)
  PROVE  TypeInv'
  <1>1. get[r] \in GetState /\ GetShape(get[r]) /\ get[r].pc = "reading"
    BY GetFields DEF GetEnd
  <1>2. RP!RegistryInv'
    BY RegistryStutters DEF GetEnd, TypeInv
  <1>3. PICK s \in {"OK", "INTERNAL"} : GetDone(r, s)
    BY DEF GetEnd
  <1> DEFINE x == [get[r] EXCEPT !.pc = "done", !.status = s]
  <1>4. x \in GetState /\ GetShape(x)
    BY <1>1 DEF GetState, GetShape, Status
  <1>5. get' = [get EXCEPT ![r] = x]
    BY <1>3 DEF GetDone
  <1> HIDE DEF x
  <1>. QED  BY <1>2, <1>4, <1>5, GetUpdate DEF GetEnd

\* DeleteFile's lookup.
LEMMA TypeDelBegin ==
  ASSUME TypeInv, NEW d \in Dels, NEW p \in Paths, DelBegin(d, p)
  PROVE  TypeInv'
  <1>1. del[d] \in DelState
    BY DEF TypeInv, DelInv
  <1> DEFINE x == IF Store!getFile(p) = NoFile
                  THEN [del[d] EXCEPT !.pc = "done", !.status = "NOT_FOUND"]
                  ELSE [del[d] EXCEPT !.pc = "found", !.path = p]
  <1>2. x \in DelState /\ DelShape(x)
    BY <1>1 DEF DelState, DelShape, Status
  <1>3. del' = [del EXCEPT ![d] = x]
    BY DEF DelBegin
  <1> HIDE DEF x
  <1>4. DelInv'
    BY <1>2, <1>3 DEF TypeInv, DelInv, DelShape
  <1>5. UNCHANGED storeVars /\ UNCHANGED <<entries, clock>>
    BY DEF DelBegin, storeVars
  <1>. QED  BY <1>4, <1>5, StoreStutters, RegistryStutters, PartsStutter
            DEF DelBegin, TypeInv

\* A deletion finds its entry and removes it, or changes nothing in the store.
LEMMA DeletedEntries ==
  ASSUME TypeInv, NEW d \in Dels, DelTombstone(d)
  PROVE  /\ del[d].path \in Paths
         /\ SP!deletePath(del[d].path)
         /\ clock' = clock
         /\ \/ UNCHANGED storeVars
            \/ /\ SP!Found(del[d].path)
               /\ entries[del[d].path] # NoFile
               /\ entries' = [entries EXCEPT ![del[d].path] = NoFile]
  <1>1. del[d].path \in Paths
    BY DEF TypeInv, DelInv, DelShape, DelTombstone
  <1>2. SP!deletePath(del[d].path)
    BY <1>1, StoreSteps DEF DelTombstone
  <1>. QED  BY <1>1, <1>2 DEF SP!deletePath, SP!vars, SP!Found, storeVars

\* deletePath, and the pointers it leaves dangling.
LEMMA TypeDelTombstone ==
  ASSUME TypeInv, NEW d \in Dels, DelTombstone(d)
  PROVE  TypeInv'
  <1> DEFINE p == del[d].path
  <1>1. /\ p \in Paths /\ SP!deletePath(p) /\ clock' = clock
        /\ entries' = entries \/ entries' = [entries EXCEPT ![p] = NoFile]
    BY DeletedEntries DEF storeVars
  <1>2. SP!StoreInv'
    BY <1>1, SP!StoreInvDelete, StoreAssumed DEF TypeInv
  <1>3. entries \in [Paths -> FileMeta \cup {NoFile}]
    BY DEF TypeInv, SP!StoreInv, SP!TypeOK
  <1>4. \A q \in Paths : q # p => entries'[q] = entries[q]
    BY <1>1, <1>3
  <1>5. GetInv'
    <2>1. ASSUME NEW r \in Gets
          PROVE  get'[r] \in GetState /\ GetShape(get[r])'
      <3>1. get[r] \in GetState /\ GetShape(get[r])
        BY DEF TypeInv, GetInv
      <3>2. PICK b \in BOOLEAN :
              b = (get[r].dangling \/ (get[r].pc = "found" /\ get[r].path = p))
        OBVIOUS
      <3>3. get'[r] = [get[r] EXCEPT !.dangling = b]
        BY <3>2 DEF DelTombstone
      <3>4. get'[r] \in GetState
        BY <3>1, <3>3 DEF GetState
      <3>5. /\ get'[r].pc = get[r].pc /\ get'[r].path = get[r].path
            /\ get'[r].ub = get[r].ub /\ get'[r].short = get[r].short
            /\ get'[r].data = get[r].data
            /\ get'[r].at = get[r].at /\ get'[r].status = get[r].status
            /\ get'[r].began = get[r].began /\ get'[r].dangling = b
        BY <3>1, <3>3 DEF GetState
      <3>6. get[r].pc = "idle" => ~b
        BY <3>1, <3>2 DEF GetShape
      <3>7. get[r].pc = "found" /\ ~b => entries'[get[r].path] # NoFile
        BY <1>4, <3>1, <3>2 DEF GetShape
      <3>8. GetShape(get[r])'
        BY <1>1, <3>1, <3>5, <3>6, <3>7 DEF GetShape
      <3>. QED  BY <3>4, <3>8
    <2>2. get' \in [Gets -> GetState]
      BY <2>1 DEF DelTombstone
    <2>. QED  BY <2>1, <2>2 DEF GetInv
  <1>6. DelInv'
    <2> DEFINE x == [del[d] EXCEPT !.pc = "done", !.status = "OK"]
    <2>1. del[d] \in DelState
      BY DEF TypeInv, DelInv
    <2>2. x \in DelState /\ DelShape(x)
      BY <2>1 DEF DelState, DelShape, Status
    <2>3. del' = [del EXCEPT ![d] = x]
      BY DEF DelTombstone
    <2> HIDE DEF x
    <2>. QED  BY <2>2, <2>3 DEF TypeInv, DelInv, DelShape
  <1>7. CleanerInv'
    BY DEF TypeInv, CleanerInv, DelTombstone, StartCleanup
  <1>. QED  BY <1>2, <1>5, <1>6, <1>7, RegistryStutters, PartsStutter
            DEF DelTombstone, TypeInv

\* The cleanup's calls for a tombstone: one per replica of each chunk.
LEMMA DeletionIndex ==
  ASSUME NEW n \in Nat, NEW f \in Nat, NEW k \in 1..(n * f)
  PROVE  ((k - 1) \div f) + 1 \in 1..n /\ ((k - 1) % f) + 1 \in 1..f
  <1>1. f # 0 /\ k \in Nat /\ k - 1 \in Nat /\ k - 1 < n * f /\ n * f \in Nat
    OBVIOUS
  <1> DEFINE q == (k - 1) \div f
             r == (k - 1) % f
  <1>2. q \in Nat /\ r \in 0..(f - 1) /\ k - 1 = f * q + r
    BY <1>1
  <1> HIDE DEF q, r
  <1>3. f * q < f * n
    BY <1>1, <1>2
  <1>4. q < n
    BY <1>1, <1>2, <1>3
  <1>. QED  BY <1>1, <1>2, <1>4 DEF q, r

\* Every call of the chunk deleter names a chunk of the file and one of its
\* replicas.
LEMMA Deletions ==
  ASSUME NEW m \in FileMeta
  PROVE  /\ Len(DeletionsOf(m)) = Len(m.chunks) * ReplicationFactor
         /\ Len(DeletionsOf(m)) \in Nat
         /\ \A k \in 1..Len(DeletionsOf(m)) :
              \E i \in 1..Len(m.chunks), j \in 1..ReplicationFactor :
                /\ DeletionsOf(m)[k].chunk_id = m.chunks[i].chunk_id
                /\ DeletionsOf(m)[k].node_id = m.chunks[i].node_ids[j]
  <1> DEFINE n == Len(m.chunks)
             f == ReplicationFactor
  <1>1. n \in Nat /\ f \in Nat
    BY CoordinatorAssumption DEF FileMeta
  <1>2. n * f \in Nat
    BY <1>1
  <1> HIDE DEF n, f
  <1>3. Len(DeletionsOf(m)) = n * f
    BY <1>2 DEF DeletionsOf, n, f
  <1>4. ASSUME NEW k \in 1..(n * f)
        PROVE  \E i \in 1..n, j \in 1..f :
                 /\ DeletionsOf(m)[k].chunk_id = m.chunks[i].chunk_id
                 /\ DeletionsOf(m)[k].node_id = m.chunks[i].node_ids[j]
    <2>1. /\ ((k - 1) \div f) + 1 \in 1..n
          /\ ((k - 1) % f) + 1 \in 1..f
      BY <1>1, DeletionIndex
    <2>2. DeletionsOf(m)[k] =
            [chunk_id |-> m.chunks[((k - 1) \div f) + 1].chunk_id,
             node_id |-> m.chunks[((k - 1) \div f) + 1].node_ids
                           [((k - 1) % f) + 1]]
      BY DEF DeletionsOf, n, f
    <2>. QED  BY <2>1, <2>2
  <1>. QED  BY <1>2, <1>3, <1>4 DEF n, f

\* The tombstone under the iterator.
LEMMA ScannedTombstone ==
  ASSUME TypeInv, Store!Scanning
  PROVE  /\ scan.at \in 1..Len(deleted_entries)
         /\ deleted_entries \in Seq(SP!Tombstone)
         /\ Store!Scanned = deleted_entries[scan.at]
         /\ deleted_entries[scan.at] \in SP!Tombstone
         /\ Store!Scanned.meta \in FileMeta
         /\ Store!Scanned.meta.chunks \in Seq(ChunkInfo)
         /\ Store!Scanned.delete_time \in Nat
  <1>1. /\ deleted_entries \in Seq(SP!Tombstone) /\ scan.at \in Nat \ {0}
        /\ Len(deleted_entries) \in Nat
    BY DEF TypeInv, SP!StoreInv, SP!TypeOK
  <1>2. scan.at \in 1..Len(deleted_entries)
    BY <1>1 DEF Store!Scanning
  <1>3. deleted_entries[scan.at] \in SP!Tombstone
    BY <1>1, <1>2
  <1>. QED  BY <1>1, <1>2, <1>3 DEF Store!Scanned, SP!Tombstone, FileMeta

\* The call the cleanup makes next is for a replica of that tombstone.
LEMMA CleanupCall ==
  ASSUME TypeInv, CleanupDelete
  PROVE  LET m == Store!Scanned.meta
             call == DeletionsOf(m)[cleaner.at]
         IN  /\ m \in FileMeta /\ m.chunks \in Seq(ChunkInfo)
             /\ call.chunk_id \in Nat
             /\ \E i \in 1..Len(m.chunks), j \in 1..ReplicationFactor :
                  /\ call.chunk_id = m.chunks[i].chunk_id
                  /\ call.node_id = m.chunks[i].node_ids[j]
  <1> DEFINE m == Store!Scanned.meta
             call == DeletionsOf(m)[cleaner.at]
  <1>1. m \in FileMeta /\ m.chunks \in Seq(ChunkInfo)
    BY ScannedTombstone DEF CleanupDelete
  <1>2. cleaner.at \in Nat \ {0} /\ cleaner.at <= Len(DeletionsOf(m))
    BY DEF CleanupDelete, TypeInv, CleanerInv
  <1> HIDE DEF m
  <1>3. cleaner.at \in 1..Len(DeletionsOf(m))
    BY <1>1, <1>2, Deletions
  <1>4. PICK i \in 1..Len(m.chunks), j \in 1..ReplicationFactor :
          /\ call.chunk_id = m.chunks[i].chunk_id
          /\ call.node_id = m.chunks[i].node_ids[j]
    BY <1>1, <1>3, Deletions
  <1>5. m.chunks[i] \in ChunkInfo
    BY <1>1
  <1>. QED  BY <1>1, <1>4, <1>5 DEF m, ChunkInfo

\* One DeleteChunk call.
LEMMA TypeCleanupDelete ==
  ASSUME TypeInv, CleanupDelete
  PROVE  TypeInv'
  <1> DEFINE call == DeletionsOf(Store!Scanned.meta)[cleaner.at]
  <1>1. call.chunk_id \in Nat
    BY CleanupCall
  <1>2. /\ UNCHANGED registryVars /\ UNCHANGED storeVars
        /\ UNCHANGED <<chunk_id_counter, put, get, del>>
        /\ UNCHANGED <<entries, clock>>
        /\ cleaner' = [cleaner EXCEPT !.at = @ + 1]
    BY DEF CleanupDelete, requestVars, storeVars
  <1>3. RP!RegistryInv'
    BY <1>2, FaultKeepsRegistry, RegistryStutters
    DEF CleanupDelete, NoFault, TypeInv
  <1>4. \/ disks' = disks
        \/ /\ call.node_id \in DOMAIN registered_nodes
           /\ RemoveChunk(call.node_id, call.chunk_id)
    BY DEF CleanupDelete, Reachable
  <1> HIDE DEF call
  <1>5. DiskInv'
    BY <1>1, <1>2, <1>4, DiskCall, PartsStutter DEF TypeInv
  <1>6. CleanerInv'
    BY <1>2 DEF TypeInv, CleanerInv
  <1>. QED  BY <1>2, <1>3, <1>5, <1>6, StoreStutters, PartsStutter DEF TypeInv

\* The other steps of the cleanup, and the clock.
LEMMA TypeCleanupScan ==
  ASSUME TypeInv,
         CleanupWake \/ CleanupSkip \/ CleanupErase \/ CleanupEnd \/ Tick
  PROVE  TypeInv'
  <1>1. SP!StoreInv
    BY DEF TypeInv
  <1>2. SP!StoreInv'
    BY <1>1, StoreSteps, StoreAssumed, SP!StoreInvScan, SP!StoreInvErase,
       SP!StoreInvTick
    DEF CleanupWake, CleanupSkip, CleanupErase, CleanupEnd, Tick
  <1>3. /\ UNCHANGED <<registryVars, faults, chunk_id_counter, put, get, del,
                       disks>>
        /\ cleaner' = cleaner \/ cleaner' = [cleaner EXCEPT !.at = 1]
    BY DEF CleanupWake, CleanupSkip, CleanupErase, CleanupEnd, Tick, requestVars
  <1>4. clock \in Nat
    BY <1>1 DEF SP!StoreInv, SP!TypeOK
  <1>5. entries' = entries /\ (clock' = clock \/ clock' = clock + 1)
    BY DEF CleanupWake, CleanupSkip, CleanupErase, CleanupEnd, Tick,
       Store!CleanupBegin, Store!CleanupSkip, Store!CleanupErase,
       Store!CleanupEnd, Store!Tick
  <1>6. GetInv'
    BY <1>3, <1>4, <1>5, GetKept DEF TypeInv
  <1>7. CleanerInv'
    BY <1>3 DEF TypeInv, CleanerInv
  <1>. QED
    BY <1>2, <1>3, <1>6, <1>7, RegistryStutters, PartsStutter DEF TypeInv

\* A data node's step.
LEMMA TypeDataNode ==
  ASSUME TypeInv, NEW n \in Nodes, DataNode(n)
  PROVE  TypeInv'
  <1>1. RP!DataNode(n)
    BY RegistrySteps DEF DataNode
  <1>2. RP!RegistryInv'
    BY <1>1, RegistryAssumed, RP!RegistryInvStart, RP!RegistryInvStop,
       RP!RegistryInvGone DEF RP!DataNode, TypeInv
  <1>3. /\ UNCHANGED storeVars /\ UNCHANGED <<entries, clock>>
        /\ UNCHANGED <<chunk_id_counter, put, get, del, disks, cleaner>>
    BY DEF DataNode, requestVars, storeVars
  <1>. QED  BY <1>2, <1>3, StoreStutters, PartsStutter DEF TypeInv

\* A coordinator restart: the store is empty, requests in progress are cut off.
LEMMA TypeRestart ==
  ASSUME TypeInv, CoordinatorRestart
  PROVE  TypeInv'
  <1>1. RP!RegistryInv'
    BY RegistrySteps, RegistryAssumed, RP!RegistryInvRestart
    DEF CoordinatorRestart, TypeInv
  <1>2. /\ entries' = [p \in Paths |-> NoFile] /\ deleted_entries' = <<>>
        /\ tombstone_count' = 0 /\ scan' = [locked |-> FALSE, now |-> 0, at |-> 1]
        /\ clock' = clock /\ clock \in Nat
    BY DEF CoordinatorRestart, Store!ScanIdle, TypeInv, SP!StoreInv, SP!TypeOK
  <1>3. SP!StoreInv'
    BY <1>2 DEF SP!StoreInv, SP!TypeOK, SP!CountMatchesDeque,
                SP!TombstonesInOrder, SP!ScanInPast
  <1>4. DiskInv'
    BY DEF CoordinatorRestart, TypeInv, DiskInv
  <1>5. PutInv'
    <2>1. IdlePut \in PutState /\ IdlePut.chunks = <<>>
      BY EmptyData DEF PutState, IdlePut, Status
    <2> DEFINE x == [IdlePut EXCEPT !.pc = "done", !.status = "UNAVAILABLE"]
    <2>2. x \in PutState /\ PutShape(x)
      BY <2>1 DEF PutState, PutShape, Status
    <2>3. put' = [w \in Puts |-> IF put[w].pc \in {"idle", "done"} THEN put[w]
                                 ELSE x]
      BY DEF CoordinatorRestart
    <2> HIDE DEF x
    <2>. QED  BY <2>2, <2>3 DEF TypeInv, PutInv, PutShape
  <1>6. GetInv'
    <2>1. ASSUME NEW r \in Gets
          PROVE  get'[r] \in GetState /\ GetShape(get[r])'
      <3>1. get[r] \in GetState /\ GetShape(get[r])
        BY DEF TypeInv, GetInv
      <3>2. get'[r] = CutOff(get[r])
        BY DEF CoordinatorRestart
      <3>3. CASE get[r].pc \in {"idle", "done"}
        BY <1>2, <3>1, <3>2, <3>3 DEF CutOff, GetShape
      <3>4. CASE get[r].pc \notin {"idle", "done"}
        <4>1. get'[r] = [get[r] EXCEPT !.pc = "done", !.status = "UNAVAILABLE"]
          BY <3>2, <3>4 DEF CutOff
        <4>. QED  BY <1>2, <3>1, <4>1 DEF GetState, GetShape, Status
      <3>. QED  BY <3>3, <3>4
    <2>2. get' \in [Gets -> GetState]
      BY <2>1 DEF CoordinatorRestart
    <2>. QED  BY <2>1, <2>2 DEF GetInv
  <1>7. DelInv'
    <2>1. ASSUME NEW d \in Dels
          PROVE  CutOff(del[d]) \in DelState /\ DelShape(CutOff(del[d]))
      BY DEF TypeInv, DelInv, CutOff, DelState, DelShape, Status
    <2>2. del' = [d \in Dels |-> CutOff(del[d])]
      BY DEF CoordinatorRestart
    <2>. QED  BY <2>1, <2>2 DEF DelInv, DelShape
  <1>8. CleanerInv'
    BY DEF CoordinatorRestart, CleanerInv
  <1>. QED
    BY <1>1, <1>3, <1>4, <1>5, <1>6, <1>7, <1>8 DEF TypeInv

\* No step: everything stays.
LEMMA TypeStutter ==
  ASSUME TypeInv, UNCHANGED vars
  PROVE  TypeInv'
  <1>1. UNCHANGED storeVars /\ UNCHANGED registryVars /\ UNCHANGED faults
        /\ UNCHANGED <<chunk_id_counter, disks, put, get, del, cleaner>>
    BY DEF vars
  <1>2. UNCHANGED <<entries, clock>>
    BY <1>1 DEF storeVars
  <1>. QED  BY <1>1, <1>2, StoreStutters, RegistryStutters, PartsStutter
            DEF TypeInv

\* Every step keeps TypeInv.
LEMMA TypeInvNext == TypeInv /\ [Next]_vars => TypeInv'
  <1> SUFFICES ASSUME TypeInv, [Next]_vars PROVE TypeInv'
    OBVIOUS
  <1>1. ASSUME NEW w \in Puts,
               \/ \E p \in Paths, c \in Contents : PutBegin(w, p, c)
               \/ PutUnnamed(w) \/ PutStep(w) \/ PutCommit(w)
        PROVE  TypeInv'
    BY <1>1, TypePutBegin, TypePutUnnamed, TypePutReceive, TypePutPlace,
       TypePutTask, TypePutJoin, TypePutCommit DEF PutStep
  <1>2. ASSUME NEW r \in Gets, (\E p \in Paths : GetBegin(r, p)) \/ GetStep(r)
        PROVE  TypeInv'
    BY <1>2, TypeGetBegin, TypeGetOpen, TypeGetTry, TypeGetEnd DEF GetStep
  <1>3. ASSUME NEW d \in Dels, (\E p \in Paths : DelBegin(d, p)) \/ DelTombstone(d)
        PROVE  TypeInv'
    BY <1>3, TypeDelBegin, TypeDelTombstone
  <1>4. CASE CleanupWake \/ CleanupStep \/ Tick
    BY <1>4, TypeCleanupDelete, TypeCleanupScan DEF CleanupStep
  <1>5. CASE (\E n \in Nodes : DataNode(n)) \/ CoordinatorRestart
    BY <1>5, TypeDataNode, TypeRestart
  <1>6. CASE UNCHANGED vars
    BY <1>6, TypeStutter
  <1>. QED  BY <1>1, <1>2, <1>3, <1>4, <1>5, <1>6 DEF Next

\* The shapes of the handlers' states, on top of the types, hold throughout:
\* a download that has not opened its file finds it unless it dangles, and an
\* upload that sends has a task for every replica.
THEOREM CoordinatorTypeInv == Spec => []TypeInv
  BY TypeInvInit, TypeInvNext, PTL DEF Spec

\* Type correctness of the coordinator, its store, its registry and the disks,
\* with every request, node and fault going on at once.
THEOREM CoordinatorTypeCorrect == Spec => []TypeOK
  <1>1. TypeInv => TypeOK
    <2> SUFFICES ASSUME TypeInv PROVE TypeOK
      OBVIOUS
    <2>1. Store!TypeOK
      BY DEF TypeInv, SP!StoreInv, SP!TypeOK, SP!Tombstone, Store!TypeOK,
             Store!Tombstone
    <2>2. Registry!TypeOK
      BY DEF TypeInv, RP!RegistryInv, RP!TypeOK, RP!DataNodeInfo,
             Registry!TypeOK, Registry!DataNodeInfo
    <2>. QED  BY <2>1, <2>2 DEF TypeInv, DiskInv, PutInv, GetInv, DelInv,
                                CleanerInv, TypeOK
  <1>. QED  BY <1>1, CoordinatorTypeInv, PTL
=============================================================================
