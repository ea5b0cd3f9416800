---------------------------- MODULE Coordinator ----------------------------
(***************************************************************************)
(* The coordinator service at work (coordinator_service_impl.cpp): uploads *)
(* (PutFile), downloads (GetFile), deletions (DeleteFile) and the cleanup  *)
(* thread, running concurrently over the metadata store, the node registry *)
(* and the chunk files of the data nodes (datanode_service_impl.cpp).      *)
(*                                                                         *)
(* Each request is a gRPC handler thread and does one step per critical    *)
(* section of the store, per call of a data node and per client stream.  A *)
(* call of a data node is one step that succeeds or fails: the handlers of *)
(* the data node write, read or remove one file.                           *)
(***************************************************************************)
EXTENDS Integers, Sequences, FiniteSets, Functions

CONSTANTS
  Paths, NoFile, TOMBSTONE_LIFETIME, MAX_DELETED_ENTRIES, MaxClock,
  Nodes, Families, ReplicationFactor, IndexModulus, FaultKinds, MaxFaults,
  Contents,          \* file contents clients upload: sequences of units
  ChunkSize,         \* chunk_size, in units (1 MB in the source)
  Puts, Gets, Dels   \* PutFile, GetFile and DeleteFile requests, one-shot

VARIABLES
  entries, deleted_entries, tombstone_count, clock, scan,   \* store_
  registered_nodes, next_node_id, next_node_index, issued,  \* the registry
  up, node_id, faults,                                      \* data nodes
  chunk_id_counter,  \* static counter of PutFile
  disks,             \* node -> chunk id -> content of the chunk's file
  put, get, del,     \* request -> the state of its handler
  cleaner            \* running_, and the progress of the chunk deleter

storeVars == <<entries, deleted_entries, tombstone_count, clock, scan>>
registryVars == <<registered_nodes, next_node_id, next_node_index, issued, up,
                  node_id>>
vars == <<storeVars, registryVars, faults, chunk_id_counter, disks, put, get,
          del, cleaner>>

(***************************************************************************)
(* Data.                                                                   *)
(***************************************************************************)

Data == Seq(UNION {Range(c) : c \in Contents})
ChunkInfo == [chunk_id : Nat, node_ids : Seq(Nat)]

\* data stands for the size: it is what the handler received, kept so that
\* the properties can compare it with what is stored and read.
FileMeta == [data : Data, chunks : Seq(ChunkInfo)]
EmptyMeta == [data |-> <<>>, chunks |-> <<>>]

ASSUME CoordinatorAssumption ==
  /\ NoFile \notin FileMeta
  /\ {TOMBSTONE_LIFETIME, MAX_DELETED_ENTRIES, MaxClock} \subseteq Nat
  /\ ReplicationFactor \in Nat
  /\ {IndexModulus, ChunkSize} \subseteq Nat \ {0}
  /\ {"rpc", "stop", "crash", "restart", "race", "call", "write", "read",
      "stream"} \subseteq FaultKinds
  /\ MaxFaults \in [FaultKinds -> Nat]
  /\ \A c \in Contents : c \in Seq(Range(c))

\* MaxTombstones bounds the store's own Next only, which is not used here.
Store == INSTANCE MetadataStore WITH MaxTombstones <- 0
Registry == INSTANCE NodeRegistry

NumChunks(data) == (Len(data) + ChunkSize - 1) \div ChunkSize

\* The content of the i-th chunk (from 1) of data.
Slice(data, i) ==
  LET start == (i - 1) * ChunkSize
      end == IF start + ChunkSize < Len(data) THEN start + ChunkSize
             ELSE Len(data)
  IN  SubSeq(data, start + 1, end)

Status == {"none", "OK", "ALREADY_EXISTS", "INVALID_ARGUMENT", "NOT_FOUND",
           "INTERNAL", "UNAVAILABLE"}

PutState ==
  [pc : {"idle", "receiving", "placing", "sending", "done"},
   path : Paths \cup {NoFile}, data : Data, chunks : Seq(ChunkInfo),
   tasks : Seq({"sent", "ok", "failed"}), status : Status]
\* short is history: a data node served this download a shortened chunk.
GetState ==
  [pc : {"idle", "found", "reading", "done"},
   path : Paths \cup {NoFile}, dangling : BOOLEAN, ub : BOOLEAN,
   short : BOOLEAN, meta : FileMeta, began : Nat, at : Nat \ {0},
   replica : Nat \ {0}, data : Data, status : Status]
DelState ==
  [pc : {"idle", "found", "done"}, path : Paths \cup {NoFile},
   status : Status]

IdlePut == [pc |-> "idle", path |-> NoFile, data |-> <<>>, chunks |-> <<>>,
            tasks |-> <<>>, status |-> "none"]
IdleGet == [pc |-> "idle", path |-> NoFile, dangling |-> FALSE, ub |-> FALSE,
            short |-> FALSE, meta |-> EmptyMeta, began |-> 0, at |-> 1,
            replica |-> 1, data |-> <<>>, status |-> "none"]
IdleDel == [pc |-> "idle", path |-> NoFile, status |-> "none"]

TypeOK ==
  /\ Store!TypeOK
  /\ Registry!TypeOK
  /\ chunk_id_counter \in Nat
  /\ DOMAIN disks = Nodes
  /\ \A n \in Nodes : /\ DOMAIN disks[n] \subseteq Nat
                       /\ \A k \in DOMAIN disks[n] : disks[n][k] \in Data
  /\ put \in [Puts -> PutState]
  /\ get \in [Gets -> GetState]
  /\ del \in [Dels -> DelState]
  /\ cleaner \in [running : BOOLEAN, at : Nat \ {0}]

Init ==
  /\ Store!Init
  /\ Registry!Init
  /\ chunk_id_counter = 0
  /\ disks = [n \in Nodes |-> <<>>]
  /\ put = [w \in Puts |-> IdlePut]
  /\ get = [r \in Gets |-> IdleGet]
  /\ del = [d \in Dels |-> IdleDel]
  /\ cleaner = [running |-> FALSE, at |-> 1]

(***************************************************************************)
(* Calls of data nodes.                                                    *)
(***************************************************************************)

\* The id is registered and the node behind it serves.
Reachable(id) ==
  /\ id \in DOMAIN registered_nodes
  /\ up[registered_nodes[id].node]

Home(id) == registered_nodes[id].node

\* DataNodeServiceImpl::PutChunk creates or truncates the file and writes it.
WriteChunk(id, c, x) ==
  disks' = [disks EXCEPT ![Home(id)] =
              [k \in DOMAIN @ \cup {c} |-> IF k = c THEN x ELSE @[k]]]

\* DataNodeServiceImpl::DeleteChunk: a file that is not there is fine too.
RemoveChunk(id, c) ==
  disks' = [disks EXCEPT ![Home(id)] = Restrict(@, DOMAIN @ \ {c})]

Prefixes(x) == {SubSeq(x, 1, k) : k \in 0..Len(x)}

NoFault == UNCHANGED faults

(***************************************************************************)
(* PutFile.                                                                *)
(***************************************************************************)

PutDone(w, status) == put' = [put EXCEPT ![w] = [IdlePut EXCEPT
                                !.pc = "done", !.status = status]]

\* Mutant: the lookup is skipped.
NameTaken_Never(p) == p \notin Paths

\* getFile(name) finds an entry.
NameTaken(p) == Store!getFile(p) # NoFile

\* The first message: the name, looked up once.
PutBegin(w, p, content) ==
  /\ put[w].pc = "idle"
  /\ Store!Unlocked
  /\ \/ NameTaken(p) /\ PutDone(w, "ALREADY_EXISTS")
     \/ /\ ~NameTaken(p)
        /\ put' = [put EXCEPT ![w].pc = "receiving", ![w].path = p,
                              ![w].data = content]
  /\ UNCHANGED <<storeVars, registryVars, faults, chunk_id_counter, disks,
                 get, del, cleaner>>

\* No message, or an empty name.
PutUnnamed(w) ==
  /\ put[w].pc = "idle"
  /\ PutDone(w, "INVALID_ARGUMENT")
  /\ UNCHANGED <<storeVars, registryVars, faults, chunk_id_counter, disks,
                 get, del, cleaner>>

\* Read() returns false at the end of the stream, and also when the stream
\* breaks: the handler goes on with what it has.
PutReceive(w) ==
  /\ put[w].pc = "receiving"
  /\ \/ /\ put' = [put EXCEPT ![w].pc = "placing"]
        /\ NoFault
     \/ /\ Registry!Fault("stream")
        /\ \E x \in Prefixes(put[w].data) \ {put[w].data} :
             put' = [put EXCEPT ![w].pc = "placing", ![w].data = x]
  /\ UNCHANGED <<storeVars, registryVars, chunk_id_counter, disks, get, del,
                 cleaner>>

\* Mutant: the counter is read and not incremented.
NextChunkId_Stuck == chunk_id_counter

NextChunkId == chunk_id_counter + 1

\* The next chunk: its id, its nodes, and one asynchronous task per replica.
PutPlace(w) ==
  /\ put[w].pc = "placing"
  /\ Len(put[w].chunks) < NumChunks(put[w].data)
  /\ chunk_id_counter' = NextChunkId
  /\ \E ids \in Registry!Selections :
       /\ Registry!selectNodesForReplication(ids)
       /\ \/ ids = <<>> /\ PutDone(w, "INTERNAL")
          \/ /\ ids # <<>>
             /\ put' = [put EXCEPT
                  ![w].pc = "sending",
                  ![w].chunks = Append(@, [chunk_id |-> chunk_id_counter,
                                           node_ids |-> ids]),
                  ![w].tasks = [i \in DOMAIN ids |-> "sent"]]
  /\ UNCHANGED <<storeVars, disks, get, del, cleaner>>

TaskResult(w, i, result) == put' = [put EXCEPT ![w].tasks[i] = result]

\* distributeChunkToSingleNode for the i-th replica of the current chunk.
PutTask(w, i) ==
  LET n == Len(put[w].chunks)
      c == put[w].chunks[n]
      id == c.node_ids[i]
      x == Slice(put[w].data, n)
  IN
  /\ put[w].pc = "sending"
  /\ put[w].tasks[i] = "sent"
  /\ \/ /\ Reachable(id)
        /\ WriteChunk(id, c.chunk_id, x)
        /\ TaskResult(w, i, "ok")
        /\ NoFault
     \/ /\ Reachable(id)      \* the data node does not check what it wrote
        /\ Registry!Fault("write")
        /\ \E y \in Prefixes(x) \ {x} : WriteChunk(id, c.chunk_id, y)
        /\ TaskResult(w, i, "ok")
     \/ /\ Reachable(id)      \* the call breaks off before or after any write
        /\ Registry!Fault("call")
        /\ \/ UNCHANGED disks
           \/ \E y \in Prefixes(x) : WriteChunk(id, c.chunk_id, y)
        /\ TaskResult(w, i, "failed")
     \/ /\ ~Reachable(id)
        /\ TaskResult(w, i, "failed")
        /\ UNCHANGED <<disks, faults>>
  /\ UNCHANGED <<storeVars, registryVars, chunk_id_counter, get, del, cleaner>>

\* Mutant: one replica is enough.
Distributed_Any(tasks) == \E i \in DOMAIN tasks : tasks[i] = "ok"

Distributed(tasks) == \A i \in DOMAIN tasks : tasks[i] = "ok"

\* distributeChunkToNodes has every future: the next chunk, or the error.
PutJoin(w) ==
  /\ put[w].pc = "sending"
  /\ "sent" \notin Range(put[w].tasks)
  /\ \/ /\ Distributed(put[w].tasks)
        /\ put' = [put EXCEPT ![w].pc = "placing", ![w].tasks = <<>>]
     \/ /\ ~Distributed(put[w].tasks)
        /\ PutDone(w, "INTERNAL")
  /\ UNCHANGED <<storeVars, registryVars, faults, chunk_id_counter, disks,
                 get, del, cleaner>>

\* store_.putFile: the name is not looked up again.
PutCommit(w) ==
  /\ put[w].pc = "placing"
  /\ Len(put[w].chunks) = NumChunks(put[w].data)
  /\ Store!putFile(put[w].path, [data |-> put[w].data,
                                 chunks |-> put[w].chunks])
  /\ PutDone(w, "OK")
  /\ UNCHANGED <<registryVars, faults, chunk_id_counter, disks, get, del,
                 cleaner>>

(***************************************************************************)
(* GetFile.                                                                *)
(***************************************************************************)

GetDone(r, status) ==
  get' = [get EXCEPT ![r].pc = "done", ![r].status = status]

\* The lookup: a pointer into the map, used from here on without the lock.
GetBegin(r, p) ==
  /\ get[r].pc = "idle"
  /\ Store!Unlocked
  /\ \/ Store!getFile(p) = NoFile /\ GetDone(r, "NOT_FOUND")
     \/ /\ Store!getFile(p) # NoFile
        /\ get' = [get EXCEPT ![r].pc = "found", ![r].path = p,
                              ![r].began = clock]
  /\ UNCHANGED <<storeVars, registryVars, faults, chunk_id_counter, disks,
                 put, del, cleaner>>

\* The range-for takes begin and end of meta->chunks.  Once the entry has been
\* erased the pointer dangles: the moved-from vector looks empty, or another
\* entry has taken the memory.
GetOpen(r) ==
  /\ get[r].pc = "found"
  /\ \E m \in IF get[r].dangling
              THEN {EmptyMeta} \cup (Range(entries) \ {NoFile})
              ELSE {Store!getFile(get[r].path)} :
       get' = [get EXCEPT ![r].pc = "reading", ![r].meta = m,
                          ![r].ub = get[r].dangling]
  /\ UNCHANGED <<storeVars, registryVars, faults, chunk_id_counter, disks,
                 put, del, cleaner>>

\* The vector's buffer moves with the metadata into the tombstone, and is
\* freed when the tombstone goes or when putFile overwrites the entry.
BufferLive(m) ==
  \/ m \in Range(entries)
  \/ \E t \in Range(deleted_entries) : t.meta = m

\* Mutant: the first replica that fails is the last one tried.
NextReplica_GiveUp(r) ==
  get' = [get EXCEPT ![r].replica = ReplicationFactor + 1,
                     ![r].ub = @ \/ ~BufferLive(get[r].meta)]

\* Mutant: the loop gives up on the chunk, not on the file.
NextReplica_SkipChunk(r) ==
  get' = [get EXCEPT ![r].at = @ + 1, ![r].ub = @ \/ ~BufferLive(get[r].meta)]

\* The replica did not serve the chunk: try the next.
NextReplica(r) ==
  get' = [get EXCEPT ![r].replica = @ + 1,
                     ![r].ub = @ \/ ~BufferLive(get[r].meta)]

\* The replica served x for the chunk, and x goes to the client.
NextChunk(r, x, short) ==
  get' = [get EXCEPT ![r].data = @ \o x, ![r].at = @ + 1, ![r].replica = 1,
                     ![r].ub = @ \/ ~BufferLive(get[r].meta),
                     ![r].short = @ \/ short]

\* readChunkWithFallback asks one replica for the current chunk.  GetChunk
\* takes a read error for the end of the file and answers OK: the front of
\* the chunk passes for the whole.
GetTry(r) ==
  LET c == get[r].meta.chunks[get[r].at]
      id == c.node_ids[get[r].replica]
      served == /\ Reachable(id)
                /\ c.chunk_id \in DOMAIN disks[Home(id)]
      content == disks[Home(id)][c.chunk_id]
  IN
  /\ get[r].pc = "reading"
  /\ get[r].at <= Len(get[r].meta.chunks)
  /\ get[r].replica <= Len(c.node_ids)
  /\ \/ served /\ NextChunk(r, content, FALSE) /\ NoFault
     \/ /\ served
        /\ Registry!Fault("read")
        /\ \E x \in Prefixes(content) \ {content} : NextChunk(r, x, TRUE)
     \/ served /\ Registry!Fault("call") /\ NextReplica(r)
     \/ ~served /\ NextReplica(r) /\ NoFault
     \/ served /\ Registry!Fault("stream") /\ GetDone(r, "INTERNAL")
     \/ /\ ~BufferLive(get[r].meta)   \* freed memory holds other data by now
        /\ get' = [get EXCEPT ![r].pc = "done", ![r].status = "INTERNAL",
                              ![r].ub = TRUE]
        /\ NoFault
  /\ UNCHANGED <<storeVars, registryVars, chunk_id_counter, disks, put, del,
                 cleaner>>

\* No replica served the chunk, or no chunk is left.
GetEnd(r) ==
  /\ get[r].pc = "reading"
  /\ \/ /\ get[r].at > Len(get[r].meta.chunks)
        /\ GetDone(r, "OK")
     \/ /\ get[r].at <= Len(get[r].meta.chunks)
        /\ get[r].replica > Len(get[r].meta.chunks[get[r].at].node_ids)
        /\ GetDone(r, "INTERNAL")
  /\ UNCHANGED <<storeVars, registryVars, faults, chunk_id_counter, disks,
                 put, del, cleaner>>

(***************************************************************************)
(* DeleteFile.                                                             *)
(***************************************************************************)

DelBegin(d, p) ==
  /\ del[d].pc = "idle"
  /\ Store!Unlocked
  /\ del' = [del EXCEPT ![d] =
               IF Store!getFile(p) = NoFile
               THEN [@ EXCEPT !.pc = "done", !.status = "NOT_FOUND"]
               ELSE [@ EXCEPT !.pc = "found", !.path = p]]
  /\ UNCHANGED <<storeVars, registryVars, faults, chunk_id_counter, disks,
                 put, get, cleaner>>

\* Mutant: the cleanup thread is never started.
StartCleanup_Never == UNCHANGED cleaner

\* The first deletion starts the cleanup thread, the others find it running.
StartCleanup == cleaner' = [cleaner EXCEPT !.running = TRUE]

\* deletePath may find nothing by now; the answer is OK all the same.
DelTombstone(d) ==
  /\ del[d].pc = "found"
  /\ Store!deletePath(del[d].path)
  /\ get' = [r \in Gets |->
               [get[r] EXCEPT !.dangling = @ \/ (get[r].pc = "found"
                                                 /\ get[r].path = del[d].path)]]
  /\ del' = [del EXCEPT ![d].pc = "done", ![d].status = "OK"]
  /\ StartCleanup
  /\ UNCHANGED <<registryVars, faults, chunk_id_counter, disks, put>>

(***************************************************************************)
(* cleanupWorker.                                                          *)
(***************************************************************************)

requestVars == <<chunk_id_counter, put, get, del>>

\* The sleep is over: cleanupTombstones takes the lock.
CleanupWake ==
  /\ cleaner.running
  /\ Store!CleanupBegin
  /\ UNCHANGED <<registryVars, faults, requestVars, disks, cleaner>>

CleanupSkip ==
  /\ Store!CleanupSkip
  /\ UNCHANGED <<registryVars, faults, requestVars, disks, cleaner>>

\* Mutant: only the first replica of each chunk is deleted.
DeletionsOf_First(m) ==
  [k \in 1..Len(m.chunks) |->
     [chunk_id |-> m.chunks[k].chunk_id, node_id |-> m.chunks[k].node_ids[1]]]

\* The DeleteChunk calls for a tombstone: every replica of every chunk.
DeletionsOf(m) ==
  [k \in 1..(Len(m.chunks) * ReplicationFactor) |->
     LET c == m.chunks[((k - 1) \div ReplicationFactor) + 1]
     IN  [chunk_id |-> c.chunk_id,
          node_id |-> c.node_ids[((k - 1) % ReplicationFactor) + 1]]]

\* One DeleteChunk call.  An id that is not registered is skipped, a failure
\* is logged; either way the loop goes on and the call is not repeated.
CleanupDelete ==
  /\ Store!Scanning
  /\ Store!Aged(Store!Scanned, scan.now)
  /\ cleaner.at <= Len(DeletionsOf(Store!Scanned.meta))
  /\ LET call == DeletionsOf(Store!Scanned.meta)[cleaner.at]
     IN \/ /\ Reachable(call.node_id)
           /\ RemoveChunk(call.node_id, call.chunk_id)
           /\ NoFault
        \/ Reachable(call.node_id) /\ Registry!Fault("call") /\ UNCHANGED disks
        \/ ~Reachable(call.node_id) /\ UNCHANGED <<disks, faults>>
  /\ cleaner' = [cleaner EXCEPT !.at = @ + 1]
  /\ UNCHANGED <<storeVars, registryVars, requestVars>>

\* chunkDeleter has returned.
CleanupErase ==
  /\ Store!CleanupErase
  /\ cleaner.at > Len(DeletionsOf(Store!Scanned.meta))
  /\ cleaner' = [cleaner EXCEPT !.at = 1]
  /\ UNCHANGED <<registryVars, faults, requestVars, disks>>

CleanupEnd ==
  /\ Store!CleanupEnd
  /\ UNCHANGED <<registryVars, faults, requestVars, disks, cleaner>>

(***************************************************************************)
(* The environment, and the specification.                                 *)
(***************************************************************************)

Tick ==
  /\ Store!Tick
  /\ UNCHANGED <<registryVars, faults, requestVars, disks, cleaner>>

DataNode(n) ==
  /\ Registry!DataNode(n)
  /\ UNCHANGED <<storeVars, requestVars, disks, cleaner>>

\* A request in progress is cut off; one not begun is sent later.
CutOff(req) ==
  IF req.pc \in {"idle", "done"} THEN req
  ELSE [req EXCEPT !.pc = "done", !.status = "UNAVAILABLE"]

\* The coordinator process dies (or is killed by the undefined behaviour of a
\* dangling read) and starts again: only the data nodes' disks are left.
CoordinatorRestart ==
  /\ Registry!CoordinatorRestart
  /\ entries' = [p \in Paths |-> NoFile]
  /\ deleted_entries' = <<>>
  /\ tombstone_count' = 0
  /\ scan' = Store!ScanIdle
  /\ chunk_id_counter' = 0
  /\ cleaner' = [running |-> FALSE, at |-> 1]
  /\ put' = [w \in Puts |-> IF put[w].pc \in {"idle", "done"} THEN put[w]
                            ELSE [IdlePut EXCEPT !.pc = "done",
                                                 !.status = "UNAVAILABLE"]]
  /\ get' = [r \in Gets |-> CutOff(get[r])]
  /\ del' = [d \in Dels |-> CutOff(del[d])]
  /\ UNCHANGED <<clock, disks>>

PutStep(w) ==
  \/ PutReceive(w)
  \/ PutPlace(w)
  \/ \E i \in DOMAIN put[w].tasks : PutTask(w, i)
  \/ PutJoin(w)

GetStep(r) == GetOpen(r) \/ GetTry(r) \/ GetEnd(r)

CleanupStep == CleanupSkip \/ CleanupDelete \/ CleanupErase \/ CleanupEnd

Next ==
  \/ \E w \in Puts : \/ \E p \in Paths, c \in Contents : PutBegin(w, p, c)
                     \/ PutUnnamed(w)
                     \/ PutStep(w)
                     \/ PutCommit(w)
  \/ \E r \in Gets : \/ \E p \in Paths : GetBegin(r, p)
                     \/ GetStep(r)
  \/ \E d \in Dels : \/ \E p \in Paths : DelBegin(d, p)
                     \/ DelTombstone(d)
  \/ CleanupWake
  \/ CleanupStep
  \/ Tick
  \/ \E n \in Nodes : DataNode(n)
  \/ CoordinatorRestart

Spec == Init /\ [][Next]_vars

\* Handlers run on threads of their own and every call of a data node returns;
\* the cleanup thread loops for ever and sleeps a minute between scans, so a
\* handler that waits for the store's mutex finds it free again and again.
FairSpec ==
  /\ Spec
  /\ WF_vars(Tick) /\ WF_vars(CleanupWake) /\ WF_vars(CleanupStep)
  /\ \A w \in Puts : WF_vars(PutStep(w)) /\ SF_vars(PutCommit(w))
  /\ \A r \in Gets : WF_vars(GetStep(r))
  /\ \A d \in Dels : SF_vars(DelTombstone(d))

(***************************************************************************)
(* Properties.                                                             *)
(***************************************************************************)

\* The disk of the node an id was issued to.
DiskOf(id) == disks[issued[id]]

\* Replica j of chunk i of a file is on its disk, with the right content.
Stored(m, i, j) ==
  LET c == m.chunks[i]
      disk == DiskOf(c.node_ids[j])
  IN  c.chunk_id \in DOMAIN disk /\ disk[c.chunk_id] = Slice(m.data, i)

FullyStored(m) ==
  /\ Len(m.chunks) = NumChunks(m.data)
  /\ \A i \in DOMAIN m.chunks :
       \A j \in 1..ReplicationFactor : Stored(m, i, j)

\* "Successful write indicates all chunk replicas have been written to disk"
\* (README.md): as long as no data node acknowledged a short write, every
\* chunk of every active file is on the disk of each of its replicas, whatever
\* uploads, cleanups, node failures and coordinator restarts go on.
ReplicasDurable ==
  faults["write"] = 0 =>
    \A p \in Paths : entries[p] # NoFile => FullyStored(entries[p])

\* The same without the exception: what PutFile's comment promises.
ReplicasDurableAlways ==
  \A p \in Paths : entries[p] # NoFile => FullyStored(entries[p])

\* A download that is answered OK delivers exactly the file its lookup found
\* when it opened it, unless it went through a dangling pointer or a data node
\* took a read error for the end of a chunk it served this very download.
ReadsFaithful ==
  faults["write"] = 0 =>
    \A r \in Gets :
      get[r].status = "OK" /\ ~get[r].ub /\ ~get[r].short
        => get[r].data = get[r].meta.data

\* "chunks remain until cleanup (prevents race with ongoing reads)"
\* (DeleteFile): for the lifetime of a tombstone after a download began, no
\* chunk of the file it reads leaves any disk.
ReadersProtected ==
  faults["write"] = 0 =>
    \A r \in Gets :
      /\ get[r].pc = "reading"
      /\ ~get[r].ub
      /\ clock - get[r].began <= TOMBSTONE_LIFETIME
      => FullyStored(get[r].meta)

\* Nodes that hold a replica of the chunk.
HomesOf(c) == {issued[id] : id \in Range(c.node_ids)}

\* "Coordinator reads another replica when datanode unavailable" (README.md):
\* a download inside the grace period fails only when there were at least as
\* many failures of nodes and calls as some chunk has distinct homes.
ReadsAvailable ==
  faults["stream"] = 0 /\ faults["restart"] = 0 =>
    \A r \in Gets :
      /\ get[r].status = "INTERNAL"
      /\ ~get[r].ub
      /\ clock - get[r].began <= TOMBSTONE_LIFETIME
      => \E c \in Range(get[r].meta.chunks) :
           Cardinality(HomesOf(c))
             <= faults["stop"] + faults["crash"] + faults["rpc"] + faults["call"]
                + faults["race"]

\* The file system the clients see, behind the handlers' states: what they
\* have looked up, opened and answered.
Answer(req) ==
  IF req.pc = "idle" THEN "idle"
  ELSE IF req.pc = "done" THEN req.status ELSE "pending"
SeenPut(x) == [path |-> x.path, data |-> x.data, answer |-> Answer(x)]
SeenGet(x) ==
  LET pending == x.pc \in {"found", "reading"}
  IN  [path |-> IF pending THEN x.path ELSE NoFile,
       file |-> IF x.pc = "reading" THEN x.meta ELSE NoFile,
       overtaken |-> pending /\ (x.dangling \/ x.ub),
       shortened |-> pending /\ x.short,
       data |-> IF x.status = "OK" THEN x.data ELSE <<>>,
       answer |-> Answer(x)]
SeenDel(x) ==
  [path |-> IF x.pc = "found" THEN x.path ELSE NoFile, answer |-> Answer(x)]
SeenPuts == [w \in Puts |-> SeenPut(put[w])]
SeenGets == [r \in Gets |-> SeenGet(get[r])]
SeenDels == [d \in Dels |-> SeenDel(del[d])]
ContentOf(m) == m.data
Damaged == faults["write"] > 0

FS == INSTANCE FileSystem WITH
        Content <- ContentOf,
        files <- entries,
        damaged <- Damaged,
        put <- SeenPuts,
        get <- SeenGets,
        del <- SeenDels

\* Chunks, replicas, failover, tombstones and the cleanup implement a map from
\* paths to files: uploads appear at once and as they were received, failed
\* ones leave nothing, downloads answered OK deliver the file they opened, and
\* the answers agree with what was stored when the name was looked up.  The
\* exceptions for downloads are those of FileSystem: overtaken ones, ones that
\* were served a shortened chunk, and all of them after a short write.
ImplementsFileSystem == FS!Spec

\* The chunk ids held by files, by tombstones and by uploads in progress.
IdsOf(chunks) == {c.chunk_id : c \in Range(chunks)}
Holders ==
  {<<"file", p>> : p \in {q \in Paths : entries[q] # NoFile}}
  \cup {<<"tombstone", i>> : i \in DOMAIN deleted_entries}
  \cup {<<"upload", w>> : w \in Puts}
HeldBy(h) ==
  CASE h[1] = "file" -> IdsOf(entries[h[2]].chunks)
    [] h[1] = "tombstone" -> IdsOf(deleted_entries[h[2]].meta.chunks)
    [] h[1] = "upload" -> IdsOf(put[h[2]].chunks)

\* No chunk belongs to two of them, so that cleaning up a tombstone never
\* deletes data of a live file or of an upload in progress.
ChunksNotShared ==
  \A g, h \in Holders : g # h => HeldBy(g) \cap HeldBy(h) = {}

\* No node has gone and no call has failed.
NoReplicaMissed ==
  \A k \in {"stop", "crash", "rpc", "restart", "call", "race"} : faults[k] = 0

\* "Delete chunk from all nodes that have replicas" (cleanupWorker): once the
\* cleanup has erased a tombstone, no disk has its chunks, unless a node or a
\* call failed: nothing is retried.
CleanupRemovesReplicas ==
  [][\A t \in Range(deleted_entries) :
       /\ scan.locked /\ t \notin Range(deleted_entries')
       /\ NoReplicaMissed'
       => \A c \in Range(t.meta.chunks), n \in Nodes :
            c.chunk_id \notin DOMAIN disks[n]]_vars

\* "If read succeeds, content should match" (system_test.cpp, a deletion
\* during a download): also when the pointer dangles.
ReadsFaithfulAlways ==
  \A r \in Gets : get[r].status = "OK" => get[r].data \in Contents

\* "File exists": an upload never replaces a file that another one created.
NoOverwrite ==
  [][\A p \in Paths :
       entries[p] # NoFile /\ entries'[p] # NoFile
         => entries'[p] = entries[p]]_vars

\* The cleanup frees what deletions leave behind: a chunk of a tombstone old
\* enough before the clock's bound eventually leaves the disk, unless a node
\* goes or a call fails.
Doomed(n, k) ==
  /\ k \in DOMAIN disks[n]
  /\ \E t \in Range(deleted_entries) :
       /\ t.delete_time < MaxClock - TOMBSTONE_LIFETIME
       /\ k \in IdsOf(t.meta.chunks)
DeletedChunksFreed ==
  \A n \in Nodes, k \in 0..Cardinality(Puts) :
    Doomed(n, k) ~> (k \notin DOMAIN disks[n] \/ ~NoReplicaMissed)

\* Every request that began is answered, with the cleanup holding the mutex
\* across its calls and calls failing in between.
RequestsAnswered ==
  /\ \A w \in Puts : put[w].pc # "idle" ~> put[w].pc = "done"
  /\ \A r \in Gets : get[r].pc # "idle" ~> get[r].pc = "done"
  /\ \A d \in Dels : del[d].pc # "idle" ~> del[d].pc = "done"
=============================================================================
