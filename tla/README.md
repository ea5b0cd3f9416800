# A TLA+ model of ToyDFS

ToyDFS is a small distributed file system in C++: one coordinator keeps the
metadata in memory, data nodes keep chunks of files on disk, and clients
upload, download and delete whole files through the coordinator. This
directory holds TLA+ modules that model the coordinator, its registry of data
nodes, the data nodes' chunk files and the client library, an abstract file
system they are shown to implement, TLC configurations that check them on small
instances, and proofs checked by TLAPS.

Source paths below are relative to `src/`. `PROJECT.json` maps each definition
to the lines it models and lists the hazards, runs, mutants and theorems.

## Inventory

| Component | State | Operations | What makes it correct |
|---|---|---|---|
| Metadata store (`coordinator/include/metadata_store.h`) | `entries_`, the deque `deleted_entries_`, `tombstone_count_`, a `shared_mutex` | `putFile`, `getFile`, `deletePath` (with `cleanupOldTombstones` at the limit), `cleanupTombstones` | the counter follows the deque, the deque is in order of deletion, no tombstone goes before its lifetime, each one goes eventually, and through the chunk deleter; above its limit the deque spans one lifetime |
| Node registry and placement (`coordinator_service_impl.cpp`) | `registered_nodes_` (no lock), `next_node_id_`, `next_node_index_` | `RegisterDataNode`, `UnregisterDataNode`, `selectNodesForReplication` | an address is listed once, an id names one node, replicas are spread evenly |
| Data node server (`server/`) | whether it runs, `node_id_` | `Start` (serve, then register once), `Stop` (unregister, then shut down) | a running node is listed, a node unregisters only itself |
| Coordinator service (`coordinator_service_impl.cpp`) | the two above, the chunk id counter, the cleanup thread, the handlers in progress | `PutFile`, `GetFile`, `DeleteFile`, `cleanupWorker` | acknowledged files are fully replicated, reads deliver the file, chunks have one owner, deleted chunks go, requests are answered |
| Data node service (`datanode/`) | chunk files | `PutChunk`, `GetChunk`, `DeleteChunk`, each without a lock | what it acknowledges is on disk, what it serves is whole, what it deleted stays away |
| Chunk paths, configuration (`datanode_utils.cpp`, `datanode_config.cpp`) | none | `get_chunk_path` | distinct chunks get distinct files |
| Client library (`client/src/dfs_client.cpp`) | a detached thread, a promise and a stream for each call | `putFile`, `getFile`, `deleteFile` | what it reports is true, every future becomes ready |
| Command line programs, protocol files | none of their own | one request each; message formats | the exit code is 0 only after success |

Components interact by gRPC calls only (client to coordinator, coordinator to
data node, data node to coordinator), and inside the coordinator by shared
memory: handler threads, the asynchronous tasks of `distributeChunkToNodes`
and the cleanup thread share the store and the registry.

What is hard here: a pointer from `getFile` is used after the lock is
released; `PutFile` and `DeleteFile` check and act in separate critical
sections; the cleanup holds the exclusive lock while it makes calls; one
replica of several fails; nodes and the coordinator restart and keep or lose
ids; the registry is not synchronised at all; replicas of one chunk may be
written to one file at once, and files are unlinked while they are read; a
broken stream looks like its end, to the client and to the coordinator.
`PROJECT.json` lists each hazard at its line.

## Modules

| Module | Models | Used by |
|---|---|---|
| `MetadataStore` | the metadata store | `MCMetadataStore`, `MetadataStoreProofs`, `Coordinator` |
| `NodeRegistry` | registry, placement, life cycle of data nodes | `MCNodeRegistry`, `NodeRegistryProofs`, `Coordinator` |
| `Coordinator` | requests and cleanup over both, and the chunk files | `MCCoordinator`, `CoordinatorProofs` |
| `FileSystem` | nothing of the code: what clients may rely on | `Coordinator` |
| `DataNodeService` | chunk files and chunk paths under overlapping calls | `MCDataNodeService`, `DataNodeProofs` |
| `DFSClient` | the client library and the streams to the coordinator | `MCDFSClient`, `DFSClientProofs` |

The proofs about `Coordinator` are four modules, each extending the one before:
`CoordinatorProofs` (types and shapes), `CoordinatorChunks` (who owns a chunk and
what the cleanup removes), `CoordinatorDurability` (what is on the disks and what
downloads may count on), `CoordinatorRefinement` (the step simulation of
`FileSystem`).

`Coordinator` instantiates `MetadataStore` and `NodeRegistry` (`Store`,
`Registry`) over its own variables: its actions are conjunctions of theirs with
what the handler does besides. It instantiates `FileSystem` (`FS`) over the
clients' view of its state, as the specification it implements.
`DataNodeService` opens up what `Coordinator` takes as one step, a call of a
data node, and `DFSClient` what it takes as one step at the other end, the
client's stream.

**MetadataStore.** Variables have the names of the fields. Each method is one
step, as it runs under `mutex_`; the exception is `cleanupTombstones`, whose
callback makes RPCs. Its scan is `CleanupBegin`, then `CleanupSkip` or
`CleanupErase` for each tombstone, then `CleanupEnd`; `scan` holds the lock,
the time sampled at the start and the iterator. All other methods need
`Unlocked`. `cleanupOldTombstones(s, k, kept)` is a relation: `kept` is what is
left when the first `k` tombstones are aged and the next is not. The clock is
in ticks; `TOMBSTONE_LIFETIME` is 5 minutes in the source. The two time samples
of `deletePath` (for the tombstone and for the overflow path) are one.

**NodeRegistry.** A node is a host with a listening port. The coordinator
derives its address from the connection's peer string, so a node is known by
one address per network family (`Families`). `Start(n, f)` is the data node's
`Start` with the coordinator's handler: accepted, rejected as a conflict, or
lost, either the call or the reply. `Stop` unregisters under the remembered
id; `StopUnheard` is the same with the call lost; `Crash` loses the id.
`CoordinatorRestart` empties the registry and resets both counters.
`next_node_index_` wraps at `IndexModulus` (2^32 in the source), and placement
ranges over every order in which the `unordered_map` may yield its ids.
`registered_nodes_` has no lock, and what overlapping handlers do to it is
undefined: the fault `race` lets a search miss an entry (an address is listed
twice) or an insertion get lost (the node has an id that is not listed). The
ids themselves come from an atomic counter, so `RegisteredAsIssued` and
`IdOwner` hold all the same. `Serve` and `Shutdown` are `DFSServer::Start` and
`Stop`; serving and registering are one step, as are unregistering and shutting
down, so that `RunningNodesListed` speaks of nodes whose `Start` has returned; the data node's `main` never calls `Stop`, so a node started from the
command line ends by `Crash`, also when it could not bind its port.
`issued` and `faults` are history variables: which node each id was given to,
and how often each kind of fault happened (bounded by `MaxFaults`).

**Coordinator.** A request is a handler with a program counter and its local
variables. `PutFile` is `PutBegin` (the lookup), `PutReceive`, for each chunk
`PutPlace`, one `PutTask` per replica in any order and `PutJoin`, then
`PutCommit`. `GetFile` is `GetBegin` (the lookup), `GetOpen` (the first use of
the pointer), one `GetTry` per replica asked, `GetEnd`. `DeleteFile` is
`DelBegin` and `DelTombstone`. The cleanup thread is `CleanupWake`, then the
store's scan with one `CleanupDelete` for each call.

 - *Data.* A file's content is a sequence of units, `ChunkSize` of them to a
   chunk. `FileMeta.data` stands for the size and is kept so that properties can
   compare what was received with what is stored and read. `disks` maps each
   node to the files it has, by chunk number.
 - *Undefined behaviour.* A download between lookup and loop whose entry is
   erased gets `dangling`. `GetOpen` then sees the moved-from, empty vector or
   another entry that took the memory, and the request is marked `ub`. While it
   reads, the chunk list lives as long as the metadata, which moves into the
   tombstone (`BufferLive`); when it has been freed, the next use is marked `ub`
   and may fail. A crash of the coordinator through such a use is
   `CoordinatorRestart`.
 - *Faults.* `call`: a call of a data node breaks, with nothing, a part or
   everything done. `write`: the data node stores a prefix and answers OK, as
   `PutChunk` checks neither `write` nor `close`. `read`: `GetChunk` takes a read
   error for the end of the file and answers OK with the front of the chunk;
   `short` marks the download it was served to. `stream`: the client's stream
   breaks, which `PutFile` takes for its end and `GetFile` reports.
 - *Atomicity.* A call of a data node is one step, from the lookup of the id in
   the registry to the change of the file. Handlers of the registry are one step.
   Starting the cleanup thread is one step with the deletion before it: it only
   sets a flag that stays set.

**FileSystem.** A map from paths to files and requests that are answered once:
an upload looks its name up when it begins and appears as a whole when it ends;
a failed one leaves nothing; a download answered OK delivers the file it opened;
the answers agree with what was stored at the lookup. What the code cannot
promise is in it by name: two overlapping uploads may both succeed, a download
that was `overtaken` (its name deleted between lookup and opening, or its file
no longer the one stored) or `shortened` (a data node served it part of a chunk
after a read error) may deliver anything, and so may all once a short write was
acknowledged (`damaged`); `Reset` loses the files with the
coordinator. The refinement mapping (`SeenPuts`, `SeenGets`, `SeenDels`, with
`ContentOf` a file and `Damaged`) hides chunk lists, replicas tried and tasks.

**DataNodeService.** A directory of names for inodes, and handlers that meet in
it: `PutChunk` is `PutOpen` (create or truncate), `PutWrite` for each unit at
the handle's own position, `PutClose`; `GetChunk` is `GetOpen`, `GetPiece` for
each full buffer, `GetTail`; `DeleteChunk` unlinks. An unlinked file lives while
a handle is open. `ChunkPath` is `get_chunk_path`; a number beyond `MaxInt`
makes `stoi` throw. The callers are the coordinator's: `Upload` starts one
`PutChunk` for each replica, `Joined` has all the answers, `Read` and `Remove`
are a download and the cleanup. All calls share one directory, which is one
node that holds several replicas, or several nodes on one host with the default
directory. When a coordinator restarts or a connection breaks, handlers go on
unheard; `chunk.stale` marks an upload that began while such a call for the
same number was under way, which the properties have to exclude: the late call
may truncate or remove the new file. Faults: `open`, `write`, `read` and
`unlink` fail, a call breaks, a data node crashes, the coordinator restarts.

**DFSClient.** Each call is a client thread and a handler with a stream of at
most `Window` messages between them. `putFile` is `PutOpen`, `PutWrite` for the
name and each buffer, `PutWritesDone`, `PutFinish`; its handler is `SrvRead`,
`SrvEnd`, `SrvChunk`, `SrvCommit`. `getFile` is `GetCall`, `GetRead`,
`GetFinish` against `SrvLookup`, `SrvSend`, `SrvSent`. The store is a content
for each path: replicas and races with deletions are `Coordinator`'s. A broken
stream loses a suffix of what was sent, and neither side learns why `Read` or
`Write` failed. The offset of a chunk is an `int` product: beyond `MaxInt` the
handler may go on with the exact offset, throw, or fail. A client that is told
early that its name is taken may see `Write` fail first and then throws a
general error instead of `EEXIST` (dfs_client.cpp:58 and 75): `PutWrite` has
both outcomes. The cases of `PutResult`, `GetResult` and `DelResult` exclude
each other and stand in the order of the code's `if` chain. `ExitCode` is what the command line client makes of a future.

## Runs

Passing:

| Run | Bounds | Shows |
|---|---|---|
| `store` | 2 names, 1 metadata value, 3 tombstones, limit 2, lifetime 1, clock to 4 | `CountMatchesDeque`, `TombstonesInOrder`, `GracePeriodKept`, `MemoryBounded`; under fairness `TombstonesEventuallyGo` |
| `registry` | 2 nodes, 2 families (up to 4 ids), factor 3, index modulo 3; 2 stops, 2 crashes, 1 restart, 1 lost call, 1 race, 4 faults in all | `AddressUnique`, `RegisteredAsIssued`, `IdOwner`, `RunningNodesListed`, `PlacementSpread` |
| `faults` | 2 uploads and a download of one name, one chunk each; any 2 of 8 kinds of fault | `ReplicasDurable`, `ChunksNotShared`, `ReadsAvailable`, `ImplementsFileSystem` |
| `reads` | 2 uploads, 2 deletions and a download of one name, clock to 2, a failed call, a shortened chunk | `ReadsFaithful`, `ReadersProtected`, `ReplicasDurable`, `ChunksNotShared`, `ImplementsFileSystem` |
| `liveness` | a two-chunk upload, a download and two deletions, lifetime 0, a failed call | `ReplicasDurable`, `CleanupRemovesReplicas`, `DeletedChunksFreed`, `RequestsAnswered` |
| `datanode` | 2 chunk numbers, one beyond `int`; 4 inodes, 3 calls at a time, 2 replicas, contents of 2 and 3 units, buffer 2; at most 2 faults, one of a kind | `StoredIntact`, `ReadsWhole`, `DeletedGone` |
| `client` | 2 uploads, a download, a deletion of one path; a file of 3 units, buffer and chunks of 2, window 1; 1 fault in all | `UploadTruth`, `CommittedWhole`, `DownloadTruth`; under fairness `FuturesReady` |

Every module's `TypeOK` is checked in one of its runs.

Why these bounds: one more than the limit overflows the deque with a young and
an old tombstone in it; a lifetime of one tick with a clock to 2 or more has
tombstones just below, at and above the boundary; two nodes with factor two
give each chunk a replica to lose and one to fall back on, and with one node
registered both replicas are on it (reuse); two uploads and two deletions of
one name reach every order of check and act, and the tombstone of one file
next to its successor. A node that comes back through another network family
is registered under a second id, so two nodes fill the registry with fewer, as
many and more ids than replicas, and the index wraps. `liveness` needs a
tombstone that ages and one that does not (a lifetime of 0 gives both with a
clock to 1), and a second deletion that waits for the mutex during a scan.
`datanode` needs a file longer than a buffer with a rest, three handlers so that
a stale call can meet both replicas of its successor, and two faults, because a
call has to outlive its caller before another can go wrong. `client` needs files
of several messages and more than one chunk, and a window smaller than the file,
so that `Write` blocks. Faults are counted together (`FewFaults`) where one of
each kind would leave too many states: pairs of different faults still meet.

Disagreements between the code and what the repository says of it, each found
as a counterexample:

| Run | Property | What happens |
|---|---|---|
| `overflow` | `TombstonesLeaveThroughDeleter` | a deletion on a full deque drops aged tombstones and their chunks are never deleted |
| `stale_id` | `RegistrationGoesWithNode` | after a coordinator restart a data node's `Stop` unregisters another one |
| `dangling_read` | `ReadsFaithfulAlways` | a deletion between a download's lookup and its loop yields OK with no data |
| `short_write` | `ReplicasDurableAlways` | a chunk cut short on disk is acknowledged |
| `two_uploads` | `NoOverwrite` | overlapping uploads of one name both succeed, one is lost |

Two more limits of the code show in how properties are stated: a failed upload
leaves its chunks on the data nodes, and a failed `DeleteChunk` is not repeated,
so `CleanupRemovesReplicas` and `DeletedChunksFreed` hold only while no node
goes and no call fails. Downloads that were overtaken or shortened, and short writes, are
exceptions of `ReadsFaithful` and of `FileSystem`. Others are conditions in the
properties of `DataNodeService` and `DFSClient`: a write, a read or an unlink that fails is
not noticed, a late call of a dead coordinator spoils a reused chunk number, and
a local read error makes an upload short and successful.

**Deadlock** is not checked in the runs of `Coordinator` and `DFSClient`: each
request is sent once, so the system stops when all are answered and the clock is
at its bound. That nothing gets stuck is `RequestsAnswered` and `FuturesReady`.
`DataNodeService` stops
when every chunk is removed or its upload failed. The runs of the store and of the
registry check it.

**Fairness.** `MetadataStore` assumes that the cleanup thread keeps running and
time passes. `Coordinator` assumes weak fairness for handler threads (each has
a thread and every call of a data node returns: gRPC reports a broken
connection), for the cleanup and for the clock. `PutCommit` and `DelTombstone`
take the mutex the cleanup takes again and again; they get strong fairness, as
the cleanup thread sleeps a minute between scans with the mutex free. Data
nodes, faults and new requests are not fair. `DFSClient` assumes weak fairness
for both ends of every call: each has a thread of its own, none uses a timeout,
and gRPC delivers what was written or reports the stream broken.

## Proofs

`MetadataStoreProofs` proves, for all values of the constants,

 - `StoreInvariant`: `Spec => []StoreInv`, with `StoreInv` the conjunction of
   `TypeOK`, `CountMatchesDeque`, `TombstonesInOrder` and `ScanInPast` (the time
   a running scan sampled is not in the future). The counter is natural only
   because it equals the length; the erasure in a scan is aged against the
   current clock only because of `ScanInPast`. The deque's order after an
   erasure in the middle and after a dropped prefix rests on the lemmas
   `EraseAt` and `DropFront`.
 - `StoreTypeCorrect`, `StoreCountCorrect`, `StoreOrderCorrect` from it, and
   `StoreGraceKept`, the action property `GracePeriodKept`.
 - `StoreMemoryBounded`: above the limit the deque spans at most one lifetime.
   It is inductive with `StoreInv`: after the overflow path the front is not
   aged, and as the deque is in order nothing behind it is older than it
   (`SpanInside`); a scan only takes from the deque.

`NodeRegistryProofs` proves `RegistryInvariant`, from which follow
`RegistryTypeCorrect`, `RegistryAddressUnique`, `RegistryIdsStable`,
`RegistryIdOwner` and `RegistryRunningListed`. `RunningNodesListed` is not
inductive by itself: a `Stop` erases the id the node remembers, and one has to
know that this id is not another running node's, which is `IdOwner` with
`RegisteredAsIssued`; `IdOwner` in turn needs that ids are issued in order
(`issued` is a function on `1..next_node_id - 1`, part of `TypeOK`). The
lemma `IssueProperties` has this for every registration, `AssignKeeps` what the
map gains by one that is not lost, and a race only gives up the two conclusions
that exclude it.

`RegistrySpread` is `PlacementSpread`: whatever order the map yields its ids in
and wherever the index stands, no id gets two more replicas of a chunk than
another. It rests on a fact about remainders that is proved first
(`RemaindersSpread`): among consecutive numbers one remainder comes up at most
once more than another, as all but the last number with the first remainder
have one with the second less than `n` later. `OrderProperties` carries it over
to positions in an order of the map.

`CoordinatorProofs` proves `CoordinatorTypeInv`: `TypeOK` with the shape of every
request in progress (`PutInv`: an upload that is sending has a chunk and one task
for each replica; `GetInv`: a download that found its entry and does not dangle
still has it in the map, and it began in the past; `DelInv`, `CleanerInv`,
`DiskInv`, and the invariants of the store and of the registry,
`StoreInv` and `RegistryInv`, lifted through their instances). `TypeOK` alone is
not inductive: `PutTask` reads the last chunk of the list and the id of the
task's replica, and what `GetOpen` reads is metadata only while the entry is
there.

`CoordinatorChunks` proves `CoordinatorChunkInv` and from it `ChunksNotShared`.
`OwnedInv` says that every chunk list in the system has numbers below the
counter, all different, with a full set of replicas on ids that were issued;
`DisjointInv` that the lists of files, tombstones and uploads have no number in
common. A new number is then different from all, and a list that moves (from an
upload into the map, from there into a tombstone) takes its numbers along.
`ReaderInv` is what the next module needs: the chunks of an open download belong
to no upload, and to no tombstone older than the download.

The second half of the module proves `CoordinatorSweepInv` and from it the action
property `CleanupRemovesReplicas`. While no node has gone and no call has failed,
every id that was issued leads to its node (`ReachInv`), a number on a disk has
been handed out (`NumbersInv`), a chunk is on the nodes of its replicas and on no
other (`PlacesInv`), the chunk deleter is busy only with an aged tombstone under
the iterator (`BusyInv`), and what it has called for is gone (`SweptInv`).
`OnlyEraseDrops` shows that `CleanupErase` is the only step that drops a tombstone
under the lock, and `DeletionFor` that the calls made before it reach every
replica: the arithmetic of `DeletionsOf`.

`CoordinatorDurability` proves `CoordinatorDurInv` and from it
`ReplicasDurable`, `ReadersProtected` and `ReadsFaithful`. This inductive
invariant has four parts.

 - `FilesSafe`: every replica of an active file is on its disk, with the right
   content unless a short write was acknowledged. It survives the cleanup because
   the chunks removed belong to a tombstone, which shares none with a file, and
   a write because an upload writes its own last chunk only.
 - `UploadsSafe`: an upload has all chunks before the current one on disk, and of
   the current one the replicas whose task is `ok`, as long as no task failed.
   The condition is needed: two replicas may be on one node, and a failed call
   for the second cuts the file of the first. The upload then fails as a whole.
 - `ReadersSafe`: inside the grace period the file a download opened is on disk
   in full. Afterwards its chunks may be gone, but a chunk that is there is
   right, because its number is not used again before a coordinator restart,
   which ends the download.
 - `AnswersSafe`: what was sent is the data up to the current chunk (`UptoFacts`
   has the arithmetic of slices), and all of it when the answer is OK,
   unless this download was served a shortened chunk.

The last part of the module proves `CoordinatorAvailInv` and from it
`ReadsAvailable`. `TroubleInv` counts the nodes that have an id which does not
lead to them: never more than there were failures, because a node that goes adds
itself and one failure, a node that comes back adds nothing, and only an
insertion lost to a race leaves an id without its node. `IdOwner` of the registry
is needed here: a node that stops takes out its own id and nobody else's.
`ReadersAvail` counts these nodes together with the ones a download has tried for
its current chunk. A failed call adds one of each; a replica that does not
serve inside the grace period has the chunk (`ReadersSafe`), so its node is in
trouble already. When a download gives up it has tried all homes of the chunk.
`Within` carries finiteness along, as nothing is assumed about the number of nodes.

`CoordinatorRefinement` proves `CoordinatorImplementsFileSystem`, the
specification `FileSystem` itself and not an invariant: the initial states map
to initial states and each action to a step of `FS!Next` or a stutter.
`PutPlace`, `PutTask`, `PutJoin` while all replicas succeed, `GetTry` while it
goes on, `CleanupDelete`, `CleanupErase` and `Tick` are stutters; a commit is
`FS!PutCommit` of what was received, a broken stream `FS!PutTruncate`, the last
step of a download `FS!GetEnd` with the whole content because of `AnswersSafe`,
a shortened chunk `FS!GetShortened`, and a use of freed memory
`FS!GetOvertaken`: the file it belonged to is no longer the one stored.

`DFSClientProofs` proves `ClientInvariant` and from it `TypeOK`, `UploadTruth`,
`CommittedWhole` and `DownloadTruth`. The heart is `PutWhole`: while the stream
holds, what the handler has, the messages in flight and what the client has
yet to read are consecutive parts of the local file. It is stated with a
witness for the cuts between them (`Cuts`), as a concatenation of a sequence of
sequences would need an induction. `GetWhole` is the same for a download:
client and stream hold the chunks sent so far. `PutHonest` and `PutKept` add
what holds without a local read error and without a broken connection.

`DataNodeProofs` proves `DataNodeInvariant` and from it `TypeOK`, `StoredIntact`,
`ReadsWhole` and `DeletedGone`, for any number of calls, chunks and inodes.

 - `HandleInv`: open handles are on inodes that exist, and two handles on one
   inode are for one chunk. It rests on `ChunkPath` being injective where it is
   defined, and on an inode in use not being given out again.
 - `LifeInv`: a call somebody listens to belongs to the present phase of its
   chunk. `stale` is what is left over from calls nobody listens to.
 - `UploadInv`: several replicas write one file from their own positions, and a
   late `PutOpen` truncates what others wrote. `Covered` is the argument why the
   file is whole in the end all the same: each unit is in the file already, or
   some open handle has yet to write it. After a truncation the handle that
   truncated is at 0 and covers everything.
 - `StoredInv`, `ReadInv`, `GoneInv`: a stored chunk has no writer; a reader's
   inode keeps the whole content after the name is gone; and nobody writes a
   deleted chunk.

The assumptions are `StoreAssumption`, `RegistryAssumption`,
`CoordinatorAssumption`, `ClientAssumption` and `DataNodeAssumption`: bounds are
natural numbers, sizes of chunks and buffers and the index's modulus positive,
the value for "no file" is not a file, contents are sequences, chunk numbers are
natural and there is one, and the kinds of fault the model uses exist. TLC
evaluates them in the runs. The bounds of the runs (`MaxClock`, `MaxFaults`, the
number of requests) are constants of the specifications, and the theorems hold
for all their values.

All inductive invariants were checked by TLC on the bounds of the runs before
they were proved. Two proof attempts led to changes of the model: the cases of
`PutResult` and its siblings overlapped (a `CASE` of TLA+ then means any of
them), and `FreeInode` could be chosen from an empty set, so that `PutOpen` now
has the bound on inodes as a guard.

Only model-checked: everything under fairness (`TombstonesEventuallyGo`,
`DeletedChunksFreed`, `RequestsAnswered`, `FuturesReady`), which the prover does
not handle.

## Not modelled

`ForceShutdown` and `DataNodeConfig::CreateUnique`, used by tests only; the
lifetime of a client object whose detached threads still run; loss of a host
with data that was never synced; option parsing, logging, and statistics that
nothing reads; the protocol files. gRPC is external: a call succeeds, fails, or
loses its reply, and a stream delivers a prefix.

The composition is by layers: `Coordinator` takes calls of data nodes and the
clients' streams as single steps, `DataNodeService` and `DFSClient` check what
such a step stands for. A single model of all layers is out of TLC's reach.

## Plan

Done: all components above, their runs, the refinement, and proofs of the type
invariant, the safety invariants and the action properties of every module. Left:
a refinement between the layers, the call of a data node in `Coordinator` by the
handlers of `DataNodeService`.
