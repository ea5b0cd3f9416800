-------------------------- MODULE DataNodeService --------------------------
(***************************************************************************)
(* The chunk directory of a data node under overlapping calls: the         *)
(* handlers of datanode_service_impl.cpp, the chunk paths of               *)
(* datanode_utils.cpp and the callers' side of datanode_stub_wrapper.cpp.  *)
(*                                                                         *)
(* Handlers run on gRPC threads without a lock and meet in the file        *)
(* system: a directory of names for inodes, opened with truncation, read   *)
(* and written at each handle's own position, unlinked while open.  The    *)
(* calls may belong to one data node or to several nodes with the default  *)
(* directory on one host: a chunk is written Replicas times at once, as    *)
(* selectNodesForReplication repeats nodes when there are too few.         *)
(***************************************************************************)
EXTENDS Integers, Sequences, FiniteSets, Functions

CONSTANTS
  Chunks,      \* chunk numbers N of "chunk_N" the coordinator hands out
  Contents,    \* contents of chunks: sequences of units
  Zero,        \* what a hole in a file reads as
  Replicas,    \* PutChunk calls per upload of a chunk
  BufferSize,  \* of GetChunk, in units (4096 bytes in the source)
  GroupSize,   \* group_size of get_chunk_path (1000 in the source)
  MaxInt,      \* the largest int
  Calls,       \* bound: calls in progress at a time
  Inodes,      \* bound: files, linked or open, at a time
  FaultKinds, MaxFaults

ASSUME DataNodeAssumption ==
  /\ Chunks \subseteq Nat /\ Chunks # {}
  /\ \A x \in Contents : x \in Seq(Range(x)) /\ x # <<>>
  /\ {Replicas, BufferSize, GroupSize} \subseteq Nat \ {0}
  /\ Inodes \subseteq Nat \ {0}
  /\ FaultKinds = {"restart", "crash", "call", "open", "write", "read", "unlink"}
  /\ MaxFaults \in [FaultKinds -> Nat]

VARIABLES
  dir,      \* path -> inode
  inodes,   \* inode -> content, for those a name or a handle refers to
  call,     \* call -> its handler, and whether its caller still listens
  chunk,    \* chunk -> what this life of the coordinator knows of it
  faults    \* history: kind -> how often it happened

vars == <<dir, inodes, call, chunk, faults>>

Data == Seq({Zero} \cup UNION {Range(x) : x \in Contents})

CallState ==
  [op : {"put", "get", "delete"}, chunk : Chunks,
   pc : {"idle", "sent", "open", "answered"}, heard : BOOLEAN,
   data : Data, inode : Inodes \cup {0}, at : Nat,
   status : {"none", "OK", "NOT_FOUND", "INTERNAL", "UNKNOWN", "UNAVAILABLE"}]

\* stale: when the upload began, a call of an earlier life of the coordinator
\* for a chunk of the same number had not ended.
ChunkState ==
  [phase : {"none", "uploading", "stored", "failed", "deleted"},
   data : Data, broken : BOOLEAN, stale : BOOLEAN]

IdleCall ==
  [op |-> "put", chunk |-> CHOOSE k \in Chunks : TRUE, pc |-> "idle",
   heard |-> FALSE, data |-> <<>>, inode |-> 0, at |-> 0, status |-> "none"]
NewChunk ==
  [phase |-> "none", data |-> <<>>, broken |-> FALSE, stale |-> FALSE]

TypeOK ==
  /\ IsInjective(dir) /\ Range(dir) \subseteq DOMAIN inodes
  /\ DOMAIN inodes \subseteq Inodes
  /\ \A i \in DOMAIN inodes : inodes[i] \in Data
  /\ call \in [Calls -> CallState]
  /\ chunk \in [Chunks -> ChunkState]
  /\ faults \in [FaultKinds -> Nat]

Init ==
  /\ dir = <<>>
  /\ inodes = <<>>
  /\ call = [c \in Calls |-> IdleCall]
  /\ chunk = [k \in Chunks |-> NewChunk]
  /\ faults = [f \in FaultKinds |-> 0]

Fault(f) ==
  /\ faults[f] < MaxFaults[f]
  /\ faults' = [faults EXCEPT ![f] = @ + 1]

NoFault == UNCHANGED faults

(***************************************************************************)
(* The file system.                                                        *)
(***************************************************************************)

\* get_chunk_path: level3 / level2 / N.cfile.
ChunkPath(N) ==
  <<N \div (GroupSize * GroupSize), (N \div GroupSize) % GroupSize, N>>

\* stoi throws, and gRPC answers UNKNOWN for the handler.
OutOfRange(N) == N > MaxInt

Exists(N) == ChunkPath(N) \in DOMAIN dir

FreeInode == CHOOSE i \in Inodes \ DOMAIN inodes : TRUE

\* A file goes with its last name and its last open handle.
Reclaim ==
  inodes' = Restrict(inodes, {i \in DOMAIN inodes :
                                \/ i \in Range(dir')
                                \/ \E c \in Calls : call'[c].inode = i})

\* Mutant: the file is opened to be updated, not truncated.
Truncated_Kept(x) == x

\* std::ofstream::open truncates what is there.
Truncated(x) == <<>>

\* write(2) of one unit at position at; a gap before it reads as zeros.
WriteAt(x, at, unit) ==
  [j \in 1..(IF Len(x) < at THEN at ELSE Len(x)) |->
     IF j = at THEN unit ELSE IF j <= Len(x) THEN x[j] ELSE Zero]

(***************************************************************************)
(* The callers: distributeChunkToNodes, readChunkWithFallback and the      *)
(* cleanup thread of the coordinator, through DataNodeStubWrapper.         *)
(***************************************************************************)

Request(op, k, x) ==
  [IdleCall EXCEPT !.op = op, !.chunk = k, !.pc = "sent", !.heard = TRUE,
                   !.data = x]

\* Calls for chunk k that change its file and whose handler may still run.
Writers(k) ==
  {c \in Calls : /\ call[c].pc \in {"sent", "open"}
                 /\ call[c].op \in {"put", "delete"}
                 /\ call[c].chunk = k}

\* One PutChunk per replica of the chunk, from threads of their own.
Upload(k, x, S) ==
  /\ chunk[k].phase = "none"
  /\ Cardinality(S) = Replicas
  /\ \A c \in S : call[c].pc = "idle"
  /\ call' = [c \in Calls |-> IF c \in S THEN Request("put", k, x) ELSE call[c]]
  /\ chunk' = [chunk EXCEPT ![k] = [NewChunk EXCEPT
                 !.phase = "uploading", !.data = x,
                 !.stale = Writers(k) # {}]]
  /\ UNCHANGED <<dir, inodes, faults>>

\* The calls the upload of chunk k waits for.
Awaited(k) ==
  {c \in Calls : call[c].heard /\ call[c].op = "put" /\ call[c].chunk = k}

\* Every future is there: the chunk counts as stored if each call said OK.
Joined(k) ==
  /\ chunk[k].phase = "uploading"
  /\ \A c \in Awaited(k) : call[c].pc = "answered"
  /\ chunk' = [chunk EXCEPT ![k].phase =
                 IF /\ ~chunk[k].broken
                    /\ \A c \in Awaited(k) : call[c].status = "OK"
                 THEN "stored" ELSE "failed"]
  /\ call' = [c \in Calls |-> IF c \in Awaited(k) THEN IdleCall ELSE call[c]]
  /\ UNCHANGED <<dir, inodes, faults>>

\* A download asks for the chunk, perhaps after the file has been deleted.
Read(k, c) ==
  /\ chunk[k].phase \in {"stored", "deleted"}
  /\ call[c].pc = "idle"
  /\ call' = [call EXCEPT ![c] = Request("get", k, <<>>)]
  /\ UNCHANGED <<dir, inodes, chunk, faults>>

\* The cleanup thread deletes a replica.
Remove(k, c) ==
  /\ chunk[k].phase \in {"stored", "deleted"}
  /\ call[c].pc = "idle"
  /\ call' = [call EXCEPT ![c] = Request("delete", k, <<>>)]
  /\ chunk' = [chunk EXCEPT ![k].phase = "deleted"]
  /\ UNCHANGED <<dir, inodes, faults>>

\* The caller of GetChunk or DeleteChunk has its answer.
Returned(c) ==
  /\ call[c].pc = "answered"
  /\ call[c].op # "put"
  /\ call' = [call EXCEPT ![c] = IdleCall]
  /\ UNCHANGED <<dir, inodes, chunk, faults>>

\* The caller is gone: an answer is lost, a handler goes on by itself.
GivenUp(r) == IF r.pc = "answered" THEN IdleCall ELSE [r EXCEPT !.heard = FALSE]

\* The connection of one call breaks.
CallBreaks(c) ==
  /\ call[c].heard
  /\ Fault("call")
  /\ call' = [call EXCEPT ![c] = GivenUp(@)]
  /\ chunk' = IF call[c].op = "put"
              THEN [chunk EXCEPT ![call[c].chunk].broken = TRUE] ELSE chunk
  /\ UNCHANGED <<dir, inodes>>

\* The coordinator restarts: it forgets its chunks and counts from 0 again.
Restart ==
  /\ Fault("restart")
  /\ call' = [c \in Calls |-> GivenUp(call[c])]
  /\ chunk' = [k \in Chunks |-> NewChunk]
  /\ UNCHANGED <<dir, inodes>>

(***************************************************************************)
(* The handlers.                                                           *)
(***************************************************************************)

\* The handler of call c returns r with a status: kept for its caller, if any.
Answer(c, r, status) ==
  call' = [call EXCEPT ![c] =
             IF r.heard THEN [r EXCEPT !.pc = "answered", !.status = status,
                                       !.inode = 0, !.at = 0]
             ELSE IdleCall]

\* PutChunk has the first message: it opens the file.
PutOpen(c) ==
  LET k == call[c].chunk
      i == IF Exists(k) THEN dir[ChunkPath(k)] ELSE FreeInode
  IN
  /\ call[c].op = "put" /\ call[c].pc = "sent"
  /\ \/ /\ OutOfRange(k)
        /\ Answer(c, call[c], "UNKNOWN")
        /\ UNCHANGED <<dir, inodes, faults>>
     \/ /\ ~OutOfRange(k)
        /\ Fault("open")
        /\ Answer(c, call[c], "INTERNAL")
        /\ UNCHANGED <<dir, inodes>>
     \/ /\ ~OutOfRange(k)
        /\ Exists(k) \/ Inodes \ DOMAIN inodes # {}      \* bound
        /\ dir' = [q \in DOMAIN dir \cup {ChunkPath(k)} |->
                     IF q = ChunkPath(k) THEN i ELSE dir[q]]
        /\ inodes' = [j \in DOMAIN inodes \cup {i} |->
                        IF j # i THEN inodes[j]
                        ELSE IF Exists(k) THEN Truncated(inodes[i]) ELSE <<>>]
        /\ call' = [call EXCEPT ![c].pc = "open", ![c].inode = i]
        /\ NoFault
     \/ /\ ~call[c].heard       \* the call broke before its message came
        /\ Answer(c, call[c], "OK")
        /\ UNCHANGED <<dir, inodes, faults>>
  /\ UNCHANGED chunk

\* file.write, unit by unit.  After a failed write the stream writes no more,
\* and nobody looks.
PutWrite(c) ==
  LET at == call[c].at + 1 IN
  /\ call[c].op = "put" /\ call[c].pc = "open"
  /\ at <= Len(call[c].data)
  /\ \/ /\ inodes' = [inodes EXCEPT ![call[c].inode] =
                        WriteAt(@, at, call[c].data[at])]
        /\ call' = [call EXCEPT ![c].at = at]
        /\ NoFault
     \/ /\ Fault("write")
        /\ call' = [call EXCEPT ![c].at = Len(call[c].data)]
        /\ UNCHANGED inodes
  /\ UNCHANGED <<dir, chunk>>

\* The stream has ended: close, success.
PutClose(c) ==
  /\ call[c].op = "put" /\ call[c].pc = "open"
  /\ call[c].at = Len(call[c].data)
  /\ Answer(c, call[c], "OK")
  /\ UNCHANGED <<dir, chunk, faults>>
  /\ Reclaim

\* GetChunk opens the file; one that cannot be opened is "not found".
GetOpen(c) ==
  LET k == call[c].chunk IN
  /\ call[c].op = "get" /\ call[c].pc = "sent"
  /\ \/ OutOfRange(k) /\ Answer(c, call[c], "UNKNOWN") /\ NoFault
     \/ /\ ~OutOfRange(k) /\ Exists(k)
        /\ call' = [call EXCEPT ![c].pc = "open", ![c].inode = dir[ChunkPath(k)]]
        /\ NoFault
     \/ /\ ~OutOfRange(k)
        /\ Answer(c, call[c], "NOT_FOUND")
        /\ IF Exists(k) THEN Fault("open") ELSE NoFault
  /\ UNCHANGED <<dir, inodes, chunk>>

\* What one file.read finds at the handle's position: up to a buffer.
Available(c) ==
  LET x == inodes[call[c].inode]
      end == call[c].at + BufferSize
  IN  SubSeq(x, call[c].at + 1, IF end < Len(x) THEN end ELSE Len(x))

\* Mutant: the rest after the last full buffer is forgotten.
LastPiece_Dropped(piece) == <<>>

\* Mutant: the whole buffer is sent, with what it held before.
LastPiece_WholeBuffer(piece) ==
  [j \in 1..BufferSize |-> IF j <= Len(piece) THEN piece[j] ELSE "old bytes"]

\* The last piece: gcount() bytes, no message if there are none.
LastPiece(piece) == piece

Received(c, piece) == [call[c] EXCEPT !.data = @ \o piece]

\* A full buffer goes to the caller.
GetPiece(c) ==
  LET piece == Available(c) IN
  /\ call[c].op = "get" /\ call[c].pc = "open"
  /\ Len(piece) = BufferSize
  /\ \/ call' = [call EXCEPT ![c] = [Received(c, piece) EXCEPT
                                       !.at = @ + BufferSize]]
     \/ ~call[c].heard /\ Answer(c, call[c], "INTERNAL")    \* Write failed
  /\ UNCHANGED <<dir, chunk, faults>>
  /\ Reclaim

\* The loop ends where the file does; an I/O error ends it too, with as much
\* of the buffer as had been read, and is answered OK as well.
GetTail(c) ==
  LET piece == Available(c) IN
  /\ call[c].op = "get" /\ call[c].pc = "open"
  /\ \/ /\ Len(piece) < BufferSize
        /\ Answer(c, Received(c, LastPiece(piece)), "OK")
        /\ NoFault
     \/ /\ Fault("read")
        /\ \E n \in 0..(Len(piece) - 1) :
             Answer(c, Received(c, LastPiece(SubSeq(piece, 1, n))), "OK")
  /\ UNCHANGED <<dir, chunk>>
  /\ Reclaim

\* Mutant: the name is looked for outside its directories.
Unlinked_Flat(k) == Restrict(dir, DOMAIN dir \ {<<k>>})

Unlinked(k) == Restrict(dir, DOMAIN dir \ {ChunkPath(k)})

\* std::remove.  No such file is success; any other error is success = false
\* under the status OK, which is all the stub wrapper passes on.
DeleteChunk(c) ==
  LET k == call[c].chunk IN
  /\ call[c].op = "delete" /\ call[c].pc = "sent"
  /\ \/ OutOfRange(k) /\ Answer(c, call[c], "UNKNOWN") /\ UNCHANGED <<dir, faults>>
     \/ ~OutOfRange(k) /\ Answer(c, call[c], "OK") /\ dir' = Unlinked(k) /\ NoFault
     \/ /\ ~OutOfRange(k) /\ Exists(k)
        /\ Fault("unlink")
        /\ Answer(c, call[c], "OK")
        /\ UNCHANGED dir
  /\ UNCHANGED chunk
  /\ Reclaim

\* A data node process dies with the handlers S it ran; its files stay.
Crash(S) ==
  /\ S # {}
  /\ \A c \in S : call[c].pc \in {"sent", "open"}
  /\ Fault("crash")
  /\ call' = [c \in Calls |->
                IF c \notin S THEN call[c]
                ELSE IF ~call[c].heard THEN IdleCall
                ELSE [call[c] EXCEPT !.pc = "answered", !.inode = 0, !.at = 0,
                                     !.status = "UNAVAILABLE"]]
  /\ UNCHANGED <<dir, chunk>>
  /\ Reclaim

Handler(c) ==
  \/ PutOpen(c) \/ PutWrite(c) \/ PutClose(c)
  \/ GetOpen(c) \/ GetPiece(c) \/ GetTail(c)
  \/ DeleteChunk(c)

Next ==
  \/ \E k \in Chunks : \/ \E x \in Contents, S \in SUBSET Calls : Upload(k, x, S)
                       \/ Joined(k)
                       \/ \E c \in Calls : Read(k, c) \/ Remove(k, c)
  \/ \E c \in Calls : Returned(c) \/ CallBreaks(c) \/ Handler(c)
  \/ Restart
  \/ \E S \in SUBSET Calls : Crash(S)

Spec == Init /\ [][Next]_vars

(***************************************************************************)
(* Properties.                                                             *)
(***************************************************************************)

Content(k) == inodes[dir[ChunkPath(k)]]

\* distributeChunkToNodes promises a stored chunk when every PutChunk said OK,
\* although the calls of its replicas truncate and write one file at the same
\* time and other chunks, broken calls, crashes and an older file of the same
\* name get in between: unless a write failed unnoticed or a call of an
\* earlier coordinator was still at the file, the file is there and whole.
StoredIntact ==
  faults["write"] = 0 =>
    \A k \in Chunks :
      chunk[k].phase = "stored" /\ ~chunk[k].stale
        => Exists(k) /\ Content(k) = chunk[k].data

\* A GetChunk call that its caller sees answered OK has the whole chunk,
\* in pieces, even when DeleteChunk unlinks the file between two of them
\* (and for chunks whose file the assumptions of StoredIntact cover).
ReadsWhole ==
  faults["write"] = 0 /\ faults["read"] = 0 =>
    \A c \in Calls :
      LET k == call[c].chunk IN
      /\ call[c].op = "get" /\ call[c].pc = "answered"
      /\ call[c].status = "OK"
      /\ ~chunk[k].stale
      => call[c].data = chunk[k].data

\* "File doesn't exist (ENOENT) is actually success for deletion": after a
\* DeleteChunk answered OK the chunk's file is gone and stays away, whatever
\* other calls end later, unless unlinking failed.
DeletedGone ==
  faults["unlink"] = 0 =>
    \A c \in Calls :
      LET k == call[c].chunk IN
      /\ call[c].op = "delete" /\ call[c].pc = "answered"
      /\ call[c].status = "OK"
      /\ ~chunk[k].stale
      => ~Exists(k)
=============================================================================
