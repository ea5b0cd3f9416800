-------------------------- MODULE DataNodeProofs ---------------------------
(***************************************************************************)
(* The chunk files of a data node under overlapping calls: proofs about    *)
(* DataNodeService, for any number of chunks, calls, replicas and faults   *)
(* and for contents and buffers of any size.                               *)
(***************************************************************************)
EXTENDS DataNodeService, SequenceTheorems, FiniteSetTheorems, TLAPS

(***************************************************************************)
(* The inductive invariant.                                                *)
(***************************************************************************)

\* Handles: only an open file has one, it keeps the file alive, and a file is
\* reached through the one name of its chunk.
HandleInv ==
  /\ \A c \in Calls :
       /\ call[c].pc # "open" => call[c].inode = 0 /\ call[c].at = 0
       /\ call[c].pc = "open" =>
            /\ call[c].inode \in DOMAIN inodes
            /\ call[c].op # "delete"
            /\ \A p \in DOMAIN dir :
                 dir[p] = call[c].inode => p = ChunkPath(call[c].chunk)
  /\ \A c, d \in Calls :
       call[c].pc = "open" /\ call[d].pc = "open" /\ call[c].inode = call[d].inode
         => call[c].chunk = call[d].chunk

\* Callers: one that listens belongs to this life of the coordinator.
Life(r, ch) ==
  /\ r.pc = "idle" => r = IdleCall
  /\ r.pc = "answered" => r.heard
  /\ r.heard /\ r.op = "put" => ch[r.chunk].phase = "uploading"
  /\ r.heard /\ r.op = "get" => ch[r.chunk].phase \in {"stored", "deleted"}
  /\ r.heard /\ r.op = "delete" => ch[r.chunk].phase = "deleted"

LifeInv == \A c \in Calls : Life(call[c], chunk)

\* What is not yet written of x into the file of chunk k, a handle will write.
Covered(k, x) ==
  /\ \A c \in Writers(k) :
       call[c].pc = "open" => call[c].inode = dir[ChunkPath(k)]
  /\ Len(Content(k)) <= Len(x)
  /\ \A j \in 1..Len(x) :
       \/ j <= Len(Content(k)) /\ Content(k)[j] = x[j]
       \/ \E c \in Writers(k) : call[c].pc = "open" /\ call[c].at < j

\* An upload that can still succeed.
UploadInv(k) ==
  chunk[k].phase = "uploading" /\ ~chunk[k].stale /\ ~chunk[k].broken =>
    /\ Awaited(k) # {}
    /\ \A c \in Writers(k) : c \in Awaited(k)
    /\ \A c \in Awaited(k) : call[c].data = chunk[k].data
    /\ /\ faults["write"] = 0
       /\ \A c \in Awaited(k) : call[c].pc = "answered" => call[c].status = "OK"
       /\ \E c \in Awaited(k) : call[c].pc \in {"open", "answered"}
       => Exists(k) /\ Covered(k, chunk[k].data)

\* A chunk that was stored: nobody writes it again, and only DeleteChunk
\* takes its name away.
StoredInv(k) ==
  chunk[k].phase \in {"stored", "deleted"} /\ ~chunk[k].stale =>
    /\ \A c \in Writers(k) : call[c].op = "delete"
    /\ chunk[k].phase = "stored" => Writers(k) = {}
    /\ faults["write"] = 0 =>
         /\ chunk[k].phase = "stored" => Exists(k)
         /\ Exists(k) => Content(k) = chunk[k].data

\* A download has the beginning of the chunk, and its handle the whole.
ReadInv(c) ==
  LET x == chunk[call[c].chunk].data IN
  /\ call[c].op = "get" /\ call[c].heard
  /\ ~chunk[call[c].chunk].stale
  /\ faults["write"] = 0 /\ faults["read"] = 0
  => /\ call[c].pc = "sent" => call[c].data = <<>>
     /\ call[c].pc = "open" =>
          /\ inodes[call[c].inode] = x
          /\ call[c].at <= Len(x) /\ call[c].data = SubSeq(x, 1, call[c].at)
     /\ call[c].pc = "answered" /\ call[c].status = "OK" => call[c].data = x

\* What DeletedGone says of one call.
GoneInv(c) ==
  /\ faults["unlink"] = 0
  /\ call[c].op = "delete" /\ call[c].pc = "answered" /\ call[c].status = "OK"
  /\ ~chunk[call[c].chunk].stale
  => ~Exists(call[c].chunk)

DataNodeInv ==
  /\ TypeOK /\ HandleInv /\ LifeInv
  /\ \A k \in Chunks : UploadInv(k) /\ StoredInv(k)
  /\ \A c \in Calls : ReadInv(c) /\ GoneInv(c)
(***************************************************************************)
(* Data.                                                                   *)
(***************************************************************************)

\* Data is all the sequences over some set, zeros included.
LEMMA DataIsSeq == \E U : Data = Seq(U) /\ Zero \in U
  BY DEF Data

\* Contents are data.
LEMMA ContentIsData ==
  ASSUME NEW x \in Contents
  PROVE  x \in Data
  <1> DEFINE U == {Zero} \cup UNION {Range(y) : y \in Contents}
  <1>1. x \in Seq(Range(x))
    BY DataNodeAssumption
  <1>2. Range(x) \subseteq U
    OBVIOUS
  <1> HIDE DEF U
  <1>3. x \in Seq(U)
    BY <1>1, <1>2
  <1>. QED  BY <1>3 DEF Data, U

\* Lengths and the empty sequence.
LEMMA DataFacts ==
  ASSUME NEW d \in Data
  PROVE  /\ Len(d) \in Nat /\ <<>> \in Data
         /\ SubSeq(d, 1, Len(d)) = d /\ SubSeq(d, 1, 0) = <<>>
  <1>1. PICK U : Data = Seq(U)
    BY DataIsSeq
  <1>2. SubSeq(d, 1, Len(d)) = d
    BY <1>1, SubSeqFull
  <1>3. SubSeq(d, 1, 0) = <<>>
    BY SubSeqEmpty
  <1>. QED  BY <1>1, <1>2, <1>3

\* A part of the data.
LEMMA PartIsData ==
  ASSUME NEW d \in Data, NEW m \in Nat, NEW n \in 0..Len(d)
  PROVE  /\ SubSeq(d, m + 1, n) \in Data
         /\ Len(SubSeq(d, m + 1, n)) = IF m < n THEN n - m ELSE 0
  <1>1. PICK U : Data = Seq(U)
    BY DataIsSeq
  <1>2. \A i \in (m + 1)..n : d[i] \in U
    BY <1>1
  <1>. QED  BY <1>1, <1>2, SubSeqProperties

\* The concatenation of data is data.
LEMMA JoinIsData ==
  ASSUME NEW d \in Data, NEW e \in Data
  PROVE  d \o e \in Data
  <1>1. PICK U : Data = Seq(U)
    BY DataIsSeq
  <1>. QED  BY <1>1, ConcatProperties

\* A start of the data and what follows it join up.
LEMMA PartsJoin ==
  ASSUME NEW d \in Data, NEW k \in 0..Len(d), NEW n \in k..Len(d)
  PROVE  SubSeq(d, 1, k) \o SubSeq(d, k + 1, n) = SubSeq(d, 1, n)
  <1>1. PICK U : Data = Seq(U)
    BY DataIsSeq
  <1>. QED  BY <1>1, ConcatAdjacentSubSeq

\* Data that agree everywhere are equal.
LEMMA DataEqual ==
  ASSUME NEW d \in Data, NEW e \in Data,
         Len(d) = Len(e), \A j \in 1..Len(d) : d[j] = e[j]
  PROVE  d = e
  <1>1. PICK U : Data = Seq(U)
    BY DataIsSeq
  <1>. QED  BY <1>1, SeqEqual

\* write(2) of one unit of some data at its place.
LEMMA WriteAtFacts ==
  ASSUME NEW d \in Data, NEW x \in Data, NEW at \in 1..Len(x)
  PROVE  LET e == WriteAt(d, at, x[at])
         IN  /\ e \in Data
             /\ Len(e) = IF Len(d) < at THEN at ELSE Len(d)
             /\ e[at] = x[at]
             /\ \A j \in 1..Len(d) : j # at => e[j] = d[j]
  <1>1. PICK U : Data = Seq(U) /\ Zero \in U
    BY DataIsSeq
  <1> DEFINE n == IF Len(d) < at THEN at ELSE Len(d)
             e == WriteAt(d, at, x[at])
  <1>2. n \in Nat /\ at \in 1..n /\ Len(d) \in Nat /\ Len(d) <= n
    BY <1>1
  <1>3. e = [j \in 1..n |-> IF j = at THEN x[at]
                            ELSE IF j <= Len(d) THEN d[j] ELSE Zero]
    BY DEF WriteAt
  <1>4. \A j \in 1..n : e[j] \in U
    <2>1. x[at] \in U
      BY <1>1
    <2>2. \A j \in 1..n : j <= Len(d) => d[j] \in U
      BY <1>1, <1>2
    <2> HIDE DEF n
    <2>. QED  BY <1>1, <1>3, <2>1, <2>2
  <1>5. e \in Seq(U) /\ Len(e) = n
    <2>1. e \in [1..n -> U]
      <3> HIDE DEF n
      <3>. QED  BY <1>3, <1>4
    <2>2. DOMAIN e = 1..n
      BY <2>1
    <2> HIDE DEF n, e
    <2>3. e \in Seq(U)
      BY <1>2, <2>1
    <2>. QED  BY <1>2, <2>2, <2>3
  <1>6. e[at] = x[at]
    <2> HIDE DEF n
    <2>. QED  BY <1>2, <1>3
  <1>7. \A j \in 1..Len(d) : j # at => e[j] = d[j]
    <2>1. \A j \in 1..Len(d) : j \in 1..n /\ j <= Len(d)
      BY <1>2
    <2> HIDE DEF n
    <2>. QED  BY <1>3, <2>1
  <1> HIDE DEF e
  <1>. QED  BY <1>1, <1>5, <1>6, <1>7 DEF e

\* The last part of a chunk's path is its number.
LEMMA PathInjective ==
  ASSUME NEW k \in Chunks, NEW m \in Chunks, ChunkPath(k) = ChunkPath(m)
  PROVE  k = m
  BY DEF ChunkPath

\* The record of a call that does not run.
LEMMA IdleFacts ==
  /\ IdleCall \in CallState
  /\ IdleCall.op = "put" /\ IdleCall.chunk \in Chunks /\ IdleCall.pc = "idle"
  /\ IdleCall.heard = FALSE /\ IdleCall.data = <<>> /\ IdleCall.inode = 0
  /\ IdleCall.at = 0 /\ IdleCall.status = "none"
  <1>1. (CHOOSE k \in Chunks : TRUE) \in Chunks
    BY DataNodeAssumption
  <1>2. <<>> \in Data
    BY DataIsSeq
  <1>3. PICK m \in Chunks : m = CHOOSE k \in Chunks : TRUE
    BY <1>1
  <1>4. IdleCall = [op |-> "put", chunk |-> m, pc |-> "idle", heard |-> FALSE,
                    data |-> <<>>, inode |-> 0, at |-> 0, status |-> "none"]
    BY <1>3 DEF IdleCall
  <1>. QED  BY <1>2, <1>4 DEF CallState
(***************************************************************************)
(* Files and handles.                                                      *)
(***************************************************************************)

FilesOK ==
  /\ IsInjective(dir) /\ Range(dir) \subseteq DOMAIN inodes
  /\ DOMAIN inodes \subseteq Inodes
  /\ \A i \in DOMAIN inodes : inodes[i] \in Data

\* A step that writes no file, makes no name and frees none in use.
FilesCalm ==
  /\ DOMAIN dir' \subseteq DOMAIN dir
  /\ \A p \in DOMAIN dir' : dir'[p] = dir[p]
  /\ DOMAIN inodes' \subseteq DOMAIN inodes
  /\ \A i \in DOMAIN inodes' : inodes'[i] = inodes[i]
  /\ \A p \in DOMAIN dir' : dir'[p] \in DOMAIN inodes'
  /\ \A c \in Calls : call'[c].pc = "open" /\ call'[c].inode \in DOMAIN inodes
                        => call'[c].inode \in DOMAIN inodes'

\* A calm step keeps the types of the files.
LEMMA CalmFilesOK ==
  ASSUME FilesOK, FilesCalm
  PROVE  FilesOK'
  <1>1. Range(dir') \subseteq DOMAIN inodes'
    BY DEF FilesCalm, Range
  <1>2. IsInjective(dir')
    <2>1. \A p, q \in DOMAIN dir : dir[p] = dir[q] => p = q
      BY DEF FilesOK, IsInjective
    <2>2. \A p, q \in DOMAIN dir' : dir'[p] = dir'[q] => p = q
      BY <2>1 DEF FilesCalm
    <2>. QED  BY <2>2 DEF IsInjective
  <1>3. DOMAIN inodes' \subseteq Inodes /\ \A i \in DOMAIN inodes' : inodes'[i] \in Data
    BY DEF FilesCalm, FilesOK
  <1>. QED  BY <1>1, <1>2, <1>3 DEF FilesOK

\* A step that does not touch the files is calm.
LEMMA SameFilesCalm ==
  ASSUME FilesOK, UNCHANGED <<dir, inodes>>
  PROVE  FilesCalm
  BY DEF FilesCalm, FilesOK, Range

\* Reclaim is calm, whether or not a name has gone.
LEMMA ReclaimCalm ==
  ASSUME FilesOK, Reclaim,
         DOMAIN dir' \subseteq DOMAIN dir, \A p \in DOMAIN dir' : dir'[p] = dir[p]
  PROVE  FilesCalm
  <1> DEFINE L == {i \in DOMAIN inodes : \/ i \in Range(dir')
                                         \/ \E c \in Calls : call'[c].inode = i}
  <1>1. inodes' = [i \in L |-> inodes[i]]
    BY DEF Reclaim, Restrict
  <1>2. DOMAIN inodes' = L /\ \A i \in L : inodes'[i] = inodes[i]
    BY <1>1
  <1>3. \A p \in DOMAIN dir' : dir'[p] \in L
    BY DEF FilesOK, Range
  <1>4. \A c \in Calls : call'[c].inode \in DOMAIN inodes => call'[c].inode \in L
    OBVIOUS
  <1>5. L \subseteq DOMAIN inodes
    OBVIOUS
  <1> HIDE DEF L
  <1>. QED  BY <1>2, <1>3, <1>4, <1>5 DEF FilesCalm

\* What becomes of a handle in a calm step.
HandleStep(c) ==
  \/ call'[c].pc # "open" /\ call'[c].inode = 0 /\ call'[c].at = 0
  \/ /\ call'[c].pc = "open" /\ call[c].pc = "open"
     /\ call'[c].inode = call[c].inode /\ call'[c].chunk = call[c].chunk
     /\ call'[c].op = call[c].op
  \/ /\ call'[c].pc = "open" /\ call'[c].op # "delete"
     /\ ChunkPath(call'[c].chunk) \in DOMAIN dir'
     /\ call'[c].inode = dir'[ChunkPath(call'[c].chunk)]

\* A calm step keeps the invariant of the handles.
LEMMA CalmHandles ==
  ASSUME FilesOK, HandleInv, FilesCalm, \A c \in Calls : HandleStep(c),
         \A c \in Calls : call'[c].chunk \in Chunks
  PROVE  HandleInv'
  <1>1. FilesOK'
    BY CalmFilesOK
  <1>2. ASSUME NEW c \in Calls, call'[c].pc = "open"
        PROVE  /\ call'[c].inode \in DOMAIN inodes' /\ call'[c].op # "delete"
               /\ \A p \in DOMAIN dir' :
                    dir'[p] = call'[c].inode => p = ChunkPath(call'[c].chunk)
    <2>1. CASE /\ call[c].pc = "open"
               /\ call'[c].inode = call[c].inode /\ call'[c].chunk = call[c].chunk
               /\ call'[c].op = call[c].op
      BY <1>2, <2>1 DEF HandleInv, FilesCalm
    <2>2. CASE /\ call'[c].op # "delete"
               /\ ChunkPath(call'[c].chunk) \in DOMAIN dir'
               /\ call'[c].inode = dir'[ChunkPath(call'[c].chunk)]
      BY <1>1, <2>2 DEF FilesOK, FilesCalm, IsInjective
    <2>. QED  BY <1>2, <2>1, <2>2 DEF HandleStep
  <1>3. ASSUME NEW c \in Calls, NEW d \in Calls,
               call'[c].pc = "open", call'[d].pc = "open",
               call'[c].inode = call'[d].inode
        PROVE  call'[c].chunk = call'[d].chunk
    <2>1. ASSUME NEW e \in Calls, call'[e].pc = "open"
          PROVE  \/ /\ call[e].pc = "open" /\ call'[e].inode = call[e].inode
                    /\ call'[e].chunk = call[e].chunk
                 \/ /\ ChunkPath(call'[e].chunk) \in DOMAIN dir'
                    /\ call'[e].inode = dir'[ChunkPath(call'[e].chunk)]
      BY <2>1 DEF HandleStep
    <2>2. CASE /\ call[c].pc = "open" /\ call'[c].inode = call[c].inode
               /\ call'[c].chunk = call[c].chunk
               /\ call[d].pc = "open" /\ call'[d].inode = call[d].inode
               /\ call'[d].chunk = call[d].chunk
      BY <1>3, <2>2 DEF HandleInv
    <2>3. CASE /\ ChunkPath(call'[c].chunk) \in DOMAIN dir'
               /\ call'[c].inode = dir'[ChunkPath(call'[c].chunk)]
      <3>1. ChunkPath(call'[c].chunk) = ChunkPath(call'[d].chunk)
        BY <1>2, <1>3, <2>3
      <3>. QED  BY <3>1, PathInjective
    <2>4. CASE /\ ChunkPath(call'[d].chunk) \in DOMAIN dir'
               /\ call'[d].inode = dir'[ChunkPath(call'[d].chunk)]
      <3>1. ChunkPath(call'[c].chunk) = ChunkPath(call'[d].chunk)
        BY <1>2, <1>3, <2>4
      <3>. QED  BY <3>1, PathInjective
    <2>. QED  BY <1>3, <2>1, <2>2, <2>3, <2>4
  <1>4. ASSUME NEW c \in Calls, call'[c].pc # "open"
        PROVE  call'[c].inode = 0 /\ call'[c].at = 0
    BY <1>4 DEF HandleStep
  <1>. QED  BY <1>2, <1>3, <1>4 DEF HandleInv

(***************************************************************************)
(* What a step leaves alone.                                               *)
(***************************************************************************)

\* No fault is forgotten.
MoreFaults ==
  /\ faults' \in [FaultKinds -> Nat]
  /\ \A f \in FaultKinds : faults'[f] = 0 => faults[f] = 0

\* A fault adds to the history.
LEMMA FaultMore ==
  ASSUME TypeOK, NEW f \in FaultKinds, Fault(f)
  PROVE  MoreFaults /\ faults'[f] # 0
  BY DEF TypeOK, Fault, MoreFaults

\* A step without a fault.
LEMMA NoFaultMore ==
  ASSUME TypeOK, UNCHANGED faults
  PROVE  MoreFaults
  BY DEF TypeOK, MoreFaults

\* The file of chunk k stays as it is.
FileKept(k) ==
  /\ Exists(k)' <=> Exists(k)
  /\ Exists(k) => /\ dir'[ChunkPath(k)] = dir[ChunkPath(k)]
                  /\ Content(k)' = Content(k)

\* So do the calls that write it.
CallsKept(k) ==
  /\ Writers(k)' = Writers(k) /\ Awaited(k)' = Awaited(k)
  /\ \A c \in Writers(k) : call'[c].op = call[c].op
  /\ \A c \in Awaited(k) : call'[c] = call[c]

\* Then an upload keeps its part of the invariant.
LEMMA UploadKept ==
  ASSUME NEW k \in Chunks, UploadInv(k), MoreFaults, FileKept(k), CallsKept(k),
         chunk'[k] = chunk[k]
  PROVE  UploadInv(k)'
  <1> SUFFICES ASSUME chunk[k].phase = "uploading", ~chunk[k].stale, ~chunk[k].broken
               PROVE  UploadInv(k)'
    BY DEF UploadInv
  <1>1. /\ Awaited(k)' # {}
        /\ \A c \in Writers(k)' : c \in Awaited(k)'
        /\ \A c \in Awaited(k)' : call'[c].data = chunk'[k].data
    BY DEF UploadInv, CallsKept
  <1>2. ASSUME faults'["write"] = 0,
               \A c \in Awaited(k)' : call'[c].pc = "answered" => call'[c].status = "OK",
               \E c \in Awaited(k)' : call'[c].pc \in {"open", "answered"}
        PROVE  Exists(k)' /\ Covered(k, chunk[k].data)'
    <2>1. Exists(k) /\ Covered(k, chunk[k].data)
      <3>1. faults["write"] = 0
        BY <1>2, DataNodeAssumption DEF MoreFaults
      <3>2. \A c \in Awaited(k) : call[c].pc = "answered" => call[c].status = "OK"
        BY <1>2 DEF CallsKept
      <3>3. \E c \in Awaited(k) : call[c].pc \in {"open", "answered"}
        BY <1>2 DEF CallsKept
      <3>. QED  BY <3>1, <3>2, <3>3 DEF UploadInv
    <2>2. \A c \in Writers(k) : call'[c] = call[c]
      BY DEF UploadInv, CallsKept
    <2>3. /\ Exists(k)' /\ dir'[ChunkPath(k)] = dir[ChunkPath(k)]
          /\ Content(k)' = Content(k) /\ Writers(k)' = Writers(k)
      BY <2>1 DEF FileKept, CallsKept
    <2>4. Covered(k, chunk[k].data)'
      BY <2>1, <2>2, <2>3 DEF Covered
    <2>. QED  BY <2>3, <2>4
  <1>. QED  BY <1>1, <1>2 DEF UploadInv

\* So does a stored chunk.
LEMMA StoredKept ==
  ASSUME NEW k \in Chunks, StoredInv(k), MoreFaults, FileKept(k), CallsKept(k),
         chunk'[k] = chunk[k]
  PROVE  StoredInv(k)'
  BY DataNodeAssumption DEF StoredInv, MoreFaults, FileKept, CallsKept

\* A call that does not move and whose file stays keeps what it has read.
LEMMA ReadKept ==
  ASSUME NEW c \in Calls, ReadInv(c), MoreFaults, call'[c] = call[c],
         chunk'[call[c].chunk].data = chunk[call[c].chunk].data,
         chunk'[call[c].chunk].stale = chunk[call[c].chunk].stale,
         call[c].op = "get" /\ call[c].heard /\ call[c].pc = "open"
           => inodes'[call[c].inode] = inodes[call[c].inode]
  PROVE  ReadInv(c)'
  BY DataNodeAssumption DEF ReadInv, MoreFaults

\* A deleted file stays away.
LEMMA GoneKept ==
  ASSUME NEW c \in Calls, GoneInv(c), MoreFaults, call'[c] = call[c],
         chunk'[call[c].chunk].stale = chunk[call[c].chunk].stale,
         Exists(call[c].chunk)' => Exists(call[c].chunk)
  PROVE  GoneInv(c)'
  BY DataNodeAssumption DEF GoneInv, MoreFaults, Exists

\* In a calm step that removes no name every file stays.
LEMMA CalmFileKept ==
  ASSUME FilesOK, FilesCalm, dir' = dir, NEW k
  PROVE  FileKept(k)
  BY DEF FilesCalm, FileKept, Exists, Content
\* What the invariant gives at once.
LEMMA InvFacts ==
  ASSUME DataNodeInv
  PROVE  /\ TypeOK /\ FilesOK /\ HandleInv /\ LifeInv
         /\ call \in [Calls -> CallState] /\ chunk \in [Chunks -> ChunkState]
  BY DEF DataNodeInv, TypeOK, FilesOK

\* The fields of a call.
LEMMA CallFields ==
  ASSUME NEW r \in CallState
  PROVE  /\ r.op \in {"put", "get", "delete"} /\ r.chunk \in Chunks
         /\ r.pc \in {"idle", "sent", "open", "answered"} /\ r.heard \in BOOLEAN
         /\ r.data \in Data /\ r.at \in Nat
  BY DEF CallState

\* In a calm step a call that does not move keeps what it has read.
LEMMA OthersRead ==
  ASSUME DataNodeInv, MoreFaults, FilesCalm, NEW d \in Calls, call'[d] = call[d],
         chunk'[call[d].chunk].data = chunk[call[d].chunk].data,
         chunk'[call[d].chunk].stale = chunk[call[d].chunk].stale
  PROVE  ReadInv(d)'
  <1>1. call[d].pc = "open" => inodes'[call[d].inode] = inodes[call[d].inode]
    BY InvFacts DEF HandleInv, FilesCalm
  <1>2. ReadInv(d)
    BY DEF DataNodeInv
  <1>. QED  BY <1>1, <1>2, ReadKept

\* And the file it has deleted stays away.
LEMMA OthersGone ==
  ASSUME DataNodeInv, MoreFaults, FilesCalm, NEW d \in Calls, call'[d] = call[d],
         chunk'[call[d].chunk].stale = chunk[call[d].chunk].stale
  PROVE  GoneInv(d)'
  <1>1. Exists(call[d].chunk)' => Exists(call[d].chunk)
    BY DEF FilesCalm, Exists
  <1>2. GoneInv(d)
    BY DEF DataNodeInv
  <1>. QED  BY <1>1, <1>2, GoneKept

\* Writes neither before its end nor by its answer.
Plain(r) ==
  /\ ~(r.op \in {"put", "delete"} /\ r.pc \in {"sent", "open"})
  /\ ~(r.op = "put" /\ r.heard)

\* Calls that do not write chunk k, before and after a step of call c.
LEMMA PlainCallsKept ==
  ASSUME NEW c \in Calls, NEW y, call \in [Calls -> CallState],
         call' = [call EXCEPT ![c] = y], NEW k,
         Plain(call[c]) \/ call[c].chunk # k, Plain(y) \/ y.chunk # k
  PROVE  CallsKept(k)
  <1>1. call'[c] = y /\ \A d \in Calls \ {c} : call'[d] = call[d]
    OBVIOUS
  <1>2. c \notin Writers(k) /\ c \notin Awaited(k)
    BY DEF Plain, Writers, Awaited
  <1>3. c \notin Writers(k)' /\ c \notin Awaited(k)'
    BY <1>1 DEF Plain, Writers, Awaited
  <1>4. Writers(k)' = Writers(k)
    BY <1>1, <1>2, <1>3 DEF Writers
  <1>5. Awaited(k)' = Awaited(k)
    BY <1>1, <1>2, <1>3 DEF Awaited
  <1>6. \A d \in Writers(k) : d \in Calls \ {c}
    BY <1>2 DEF Writers
  <1>7. \A d \in Awaited(k) : d \in Calls \ {c}
    BY <1>2 DEF Awaited
  <1>. QED  BY <1>1, <1>4, <1>5, <1>6, <1>7 DEF CallsKept

\* A step of one call c that concerns at most chunk k.
LEMMA OneCall ==
  ASSUME DataNodeInv, MoreFaults, chunk' = chunk,
         NEW c \in Calls, NEW y \in CallState, call' = [call EXCEPT ![c] = y],
         NEW k \in Chunks,
         Plain(call[c]) \/ call[c].chunk = k, Plain(y) \/ y.chunk = k,
         FilesOK', HandleInv', Life(y, chunk),
         \A m \in Chunks \ {k} : FileKept(m),
         UploadInv(k)', StoredInv(k)',
         \A d \in Calls : ReadInv(d)' /\ GoneInv(d)'
  PROVE  DataNodeInv'
  <1> USE InvFacts
  <1>1. /\ call' \in [Calls -> CallState] /\ call'[c] = y
        /\ \A d \in Calls \ {c} : call'[d] = call[d]
    OBVIOUS
  <1>2. TypeOK'
    BY <1>1 DEF FilesOK, TypeOK, MoreFaults
  <1>3. LifeInv'
    BY <1>1 DEF LifeInv
  <1>4. ASSUME NEW m \in Chunks
        PROVE  UploadInv(m)' /\ StoredInv(m)'
    <2>1. CASE m = k
      BY <2>1
    <2>2. CASE m # k
      <3>1. CallsKept(m)
        <4>1. /\ Plain(call[c]) \/ call[c].chunk # m
              /\ Plain(y) \/ y.chunk # m
          BY <2>2
        <4>. QED  BY <4>1, PlainCallsKept
      <3>2. FileKept(m) /\ UploadInv(m) /\ StoredInv(m) /\ chunk'[m] = chunk[m]
        BY <2>2 DEF DataNodeInv
      <3>. QED  BY <3>1, <3>2, UploadKept, StoredKept
    <2>. QED  BY <2>1, <2>2
  <1>. QED  BY <1>2, <1>3, <1>4 DEF DataNodeInv

\* A calm step of one call that does not write.
LEMMA QuietCall ==
  ASSUME DataNodeInv, MoreFaults, chunk' = chunk, dir' = dir, FilesCalm,
         NEW c \in Calls, NEW y \in CallState, call' = [call EXCEPT ![c] = y],
         Plain(call[c]), Plain(y), HandleStep(c), Life(y, chunk),
         ReadInv(c)', GoneInv(c)'
  PROVE  DataNodeInv'
  <1> USE InvFacts
  <1>1. /\ call' \in [Calls -> CallState] /\ call'[c] = y
        /\ \A d \in Calls \ {c} : call'[d] = call[d]
    OBVIOUS
  <1>2. \A d \in Calls : HandleStep(d)
    BY <1>1 DEF HandleStep, HandleInv
  <1>3. \A d \in Calls : call'[d].chunk \in Chunks
    BY <1>1, CallFields
  <1>4. FilesOK' /\ HandleInv'
    BY <1>2, <1>3, CalmFilesOK, CalmHandles
  <1>5. \A m : FileKept(m)
    BY CalmFileKept
  <1>6. ASSUME NEW d \in Calls
        PROVE  ReadInv(d)' /\ GoneInv(d)'
    BY <1>1, OthersRead, OthersGone
  <1>7. PICK k \in Chunks : TRUE
    BY DataNodeAssumption
  <1>8. CallsKept(k)
    BY PlainCallsKept
  <1>9. UploadInv(k)' /\ StoredInv(k)'
    <2>1. FileKept(k) /\ UploadInv(k) /\ StoredInv(k) /\ chunk'[k] = chunk[k]
      BY <1>5 DEF DataNodeInv
    <2>. QED  BY <1>8, <2>1, UploadKept, StoredKept
  <1>. QED  BY <1>4, <1>5, <1>6, <1>9, OneCall
(***************************************************************************)
(* Calls that only read.                                                   *)
(***************************************************************************)

\* The record of a request.
LEMMA RequestFacts ==
  ASSUME NEW op \in {"put", "get", "delete"}, NEW k \in Chunks, NEW x \in Data
  PROVE  LET r == Request(op, k, x)
         IN  /\ r \in CallState
             /\ r.op = op /\ r.chunk = k /\ r.pc = "sent" /\ r.heard
             /\ r.data = x /\ r.inode = 0 /\ r.at = 0
  <1> DEFINE r1 == [IdleCall EXCEPT !.op = op, !.chunk = k]
             r2 == [r1 EXCEPT !.pc = "sent", !.heard = TRUE]
             r == [r2 EXCEPT !.data = x]
  <1>1. r1 \in CallState /\ r1.op = op /\ r1.chunk = k /\ r1.inode = 0 /\ r1.at = 0
    BY IdleFacts DEF CallState
  <1>2. /\ r2 \in CallState /\ r2.op = op /\ r2.chunk = k /\ r2.inode = 0
        /\ r2.at = 0 /\ r2.pc = "sent" /\ r2.heard
    <2> HIDE DEF r1
    <2>. QED  BY <1>1 DEF CallState
  <1>3. /\ r \in CallState /\ r.op = op /\ r.chunk = k /\ r.inode = 0
        /\ r.at = 0 /\ r.pc = "sent" /\ r.heard /\ r.data = x
    <2> HIDE DEF r2
    <2>. QED  BY <1>2 DEF CallState
  <1>4. Request(op, k, x) = r
    BY DEF Request
  <1> HIDE DEF r
  <1>. QED  BY <1>3, <1>4

\* Returned.
LEMMA StepReturned ==
  ASSUME DataNodeInv, NEW c \in Calls, Returned(c)
  PROVE  DataNodeInv'
  <1> USE InvFacts, IdleFacts
  <1>1. call' = [call EXCEPT ![c] = IdleCall] /\ call'[c] = IdleCall
    BY DEF Returned
  <1>2. MoreFaults /\ FilesCalm /\ dir' = dir /\ chunk' = chunk
    BY NoFaultMore, SameFilesCalm DEF Returned
  <1>3. Plain(call[c])
    BY DEF Returned, Plain
  <1>4. Plain(IdleCall) /\ Life(IdleCall, chunk)
    BY DEF Plain, Life
  <1>5. HandleStep(c)
    BY <1>1 DEF HandleStep
  <1>6. ReadInv(c)' /\ GoneInv(c)'
    BY <1>1 DEF ReadInv, GoneInv
  <1>. QED  BY <1>1, <1>2, <1>3, <1>4, <1>5, <1>6, QuietCall

\* Read.
LEMMA StepRead ==
  ASSUME DataNodeInv, NEW k \in Chunks, NEW c \in Calls, Read(k, c)
  PROVE  DataNodeInv'
  <1> USE InvFacts
  <1> DEFINE y == Request("get", k, <<>>)
  <1>1. call' = [call EXCEPT ![c] = y] /\ call'[c] = y
    BY DEF Read
  <1>2. MoreFaults /\ FilesCalm /\ dir' = dir /\ chunk' = chunk
    BY NoFaultMore, SameFilesCalm DEF Read
  <1>3. /\ y \in CallState /\ y.op = "get" /\ y.chunk = k /\ y.pc = "sent"
        /\ y.heard /\ y.data = <<>> /\ y.inode = 0 /\ y.at = 0
    <2>1. <<>> \in Data
      BY DataIsSeq
    <2>. QED  BY <2>1, RequestFacts
  <1> HIDE DEF y
  <1>4. Plain(call[c])
    BY IdleFacts DEF Read, Plain, LifeInv, Life
  <1>5. Plain(y) /\ Life(y, chunk)
    BY <1>3 DEF Plain, Life, Read
  <1>6. HandleStep(c)
    BY <1>1, <1>3 DEF HandleStep
  <1>7. ReadInv(c)' /\ GoneInv(c)'
    BY <1>1, <1>3 DEF ReadInv, GoneInv
  <1>. QED  BY <1>1, <1>2, <1>3, <1>4, <1>5, <1>6, <1>7, QuietCall

\* The record a handler leaves when it returns.
Left(r, status) ==
  IF r.heard THEN [r EXCEPT !.pc = "answered", !.status = status,
                            !.inode = 0, !.at = 0]
  ELSE IdleCall

\* It is answered, or nobody is there.
LEMMA LeftFacts ==
  ASSUME NEW r \in CallState,
         NEW status \in {"none", "OK", "NOT_FOUND", "INTERNAL", "UNKNOWN", "UNAVAILABLE"}
  PROVE  LET y == Left(r, status)
         IN  /\ y \in CallState /\ y.pc # "open" /\ y.inode = 0 /\ y.at = 0
             /\ r.heard => /\ y.op = r.op /\ y.chunk = r.chunk /\ y.pc = "answered"
                           /\ y.heard /\ y.data = r.data /\ y.status = status
             /\ ~r.heard => y = IdleCall
  <1>1. CASE ~r.heard
    BY <1>1, IdleFacts DEF Left
  <1>2. CASE r.heard
    <2> DEFINE y1 == [r EXCEPT !.pc = "answered", !.status = status]
               y == [y1 EXCEPT !.inode = 0, !.at = 0]
    <2>1. /\ y1 \in CallState /\ y1.op = r.op /\ y1.chunk = r.chunk
          /\ y1.pc = "answered" /\ y1.heard /\ y1.data = r.data /\ y1.status = status
      BY <1>2 DEF CallState
    <2>2. /\ y \in CallState /\ y.op = r.op /\ y.chunk = r.chunk
          /\ y.pc = "answered" /\ y.heard /\ y.data = r.data /\ y.status = status
          /\ y.inode = 0 /\ y.at = 0
      <3> HIDE DEF y1
      <3>. QED  BY <2>1 DEF CallState
    <2>3. Left(r, status) = y
      BY <1>2 DEF Left
    <2> HIDE DEF y
    <2>. QED  BY <1>2, <2>2, <2>3
  <1>. QED  BY <1>1, <1>2

\* A handler of GetChunk returns: what it leaves is all it has to answer for.
LEMMA GetReturns ==
  ASSUME DataNodeInv, MoreFaults, chunk' = chunk, dir' = dir, FilesCalm,
         NEW c \in Calls, NEW r \in CallState,
         NEW status \in {"OK", "NOT_FOUND", "INTERNAL", "UNKNOWN"},
         call[c].op = "get", call[c].pc \in {"sent", "open"},
         r.op = "get", r.chunk = call[c].chunk, r.heard = call[c].heard,
         Answer(c, r, status),
         /\ status = "OK" /\ call[c].heard /\ ~chunk[call[c].chunk].stale
         /\ faults'["write"] = 0 /\ faults'["read"] = 0
         => r.data = chunk[call[c].chunk].data
  PROVE  DataNodeInv'
  <1> USE InvFacts
  <1> DEFINE y == Left(r, status)
  <1>1. call' = [call EXCEPT ![c] = y] /\ call'[c] = y
    BY DEF Answer, Left
  <1>2. /\ y \in CallState /\ y.pc # "open" /\ y.inode = 0 /\ y.at = 0
        /\ r.heard => /\ y.op = "get" /\ y.chunk = r.chunk /\ y.pc = "answered"
                      /\ y.heard /\ y.data = r.data /\ y.status = status
        /\ ~r.heard => y = IdleCall
    BY LeftFacts
  <1> HIDE DEF y
  <1>3. Plain(call[c]) /\ Plain(y)
    BY <1>2, IdleFacts DEF Plain
  <1>4. Life(y, chunk)
    <2>1. Life(call[c], chunk) /\ Life(IdleCall, chunk)
      BY IdleFacts DEF LifeInv, Life
    <2>2. CASE r.heard
      BY <1>2, <2>1, <2>2 DEF Life
    <2>3. CASE ~r.heard
      BY <1>2, <2>1, <2>3
    <2>. QED  BY <2>2, <2>3
  <1>5. HandleStep(c)
    BY <1>1, <1>2 DEF HandleStep
  <1>6. ReadInv(c)' /\ GoneInv(c)'
    <2>1. CASE r.heard
      BY <1>1, <1>2, <2>1 DEF ReadInv, GoneInv
    <2>2. CASE ~r.heard
      BY <1>1, <1>2, <2>2, IdleFacts DEF ReadInv, GoneInv
    <2>. QED  BY <2>1, <2>2
  <1>. QED  BY <1>1, <1>2, <1>3, <1>4, <1>5, <1>6, QuietCall

\* GetOpen: what is opened is the chunk.
LEMMA StepGetOpen ==
  ASSUME DataNodeInv, NEW c \in Calls, GetOpen(c)
  PROVE  DataNodeInv'
  <1> USE InvFacts
  <1> DEFINE k == call[c].chunk
             i == dir[ChunkPath(k)]
  <1>1. /\ call[c].op = "get" /\ call[c].pc = "sent"
        /\ chunk' = chunk /\ dir' = dir /\ inodes' = inodes
    BY DEF GetOpen
  <1>2. FilesCalm
    BY <1>1, SameFilesCalm
  <1>3. MoreFaults
    BY FaultMore, NoFaultMore, DataNodeAssumption DEF GetOpen, NoFault
  <1>4. k \in Chunks /\ call[c] \in CallState
    BY CallFields
  <1>5. CASE Answer(c, call[c], "UNKNOWN")
    BY <1>1, <1>2, <1>3, <1>4, <1>5, GetReturns
  <1>6. CASE Answer(c, call[c], "NOT_FOUND")
    BY <1>1, <1>2, <1>3, <1>4, <1>6, GetReturns
  <1>7. CASE /\ Exists(k)
             /\ call' = [call EXCEPT ![c].pc = "open", ![c].inode = dir[ChunkPath(k)]]
    <2> DEFINE y == [call[c] EXCEPT !.pc = "open", !.inode = i]
    <2>1. call' = [call EXCEPT ![c] = y] /\ call'[c] = y
      BY <1>7
    <2>2. i \in DOMAIN inodes /\ i \in Inodes
      BY <1>7 DEF Exists, FilesOK, Range
    <2> HIDE DEF i
    <2>3. /\ y \in CallState /\ y.op = "get" /\ y.chunk = k /\ y.pc = "open"
          /\ y.heard = call[c].heard /\ y.data = call[c].data
          /\ y.inode = i /\ y.at = call[c].at
      BY <1>1, <2>2 DEF CallState
    <2> HIDE DEF y
    <2>4. Plain(call[c]) /\ Plain(y)
      BY <1>1, <2>3 DEF Plain
    <2>5. Life(y, chunk)
      <3>1. Life(call[c], chunk)
        BY DEF LifeInv
      <3>. QED  BY <1>1, <2>3, <3>1 DEF Life
    <2>6. HandleStep(c)
      BY <1>1, <1>7, <2>1, <2>3 DEF HandleStep, Exists, i
    <2>7. GoneInv(c)'
      BY <2>1, <2>3 DEF GoneInv
    <2>8. ReadInv(c)'
      <3> SUFFICES ASSUME call[c].heard, ~chunk[k].stale,
                          faults'["write"] = 0, faults'["read"] = 0
                   PROVE  /\ inodes[i] = chunk[k].data
                          /\ call[c].at <= Len(chunk[k].data)
                          /\ call[c].data = SubSeq(chunk[k].data, 1, call[c].at)
        BY <1>1, <2>1, <2>3 DEF ReadInv
      <3>1. faults["write"] = 0 /\ faults["read"] = 0
        BY <1>3, DataNodeAssumption DEF MoreFaults
      <3>2. chunk[k].phase \in {"stored", "deleted"}
        BY <1>1 DEF LifeInv, Life
      <3>3. inodes[i] = chunk[k].data
        <4>1. StoredInv(k)
          BY <1>4 DEF DataNodeInv
        <4>. QED  BY <1>7, <3>1, <3>2, <4>1 DEF StoredInv, Content, i
      <3>4. call[c].at = 0 /\ call[c].data = <<>>
        BY <1>1, <3>1 DEF HandleInv, DataNodeInv, ReadInv
      <3>5. chunk[k].data \in Data
        BY <1>4 DEF ChunkState
      <3>6. Len(chunk[k].data) \in Nat /\ SubSeq(chunk[k].data, 1, 0) = <<>>
        BY <3>5, DataFacts
      <3>. QED  BY <3>3, <3>4, <3>6
    <2>. QED  BY <1>1, <1>2, <1>3, <2>1, <2>3, <2>4, <2>5, <2>6, <2>7, <2>8, QuietCall
  <1>. QED  BY <1>5, <1>6, <1>7 DEF GetOpen
\* What file.read finds in a download that is under way.
LEMMA AvailableFacts ==
  ASSUME DataNodeInv, NEW c \in Calls, call[c].pc = "open"
  PROVE  LET x == inodes[call[c].inode]
             piece == Available(c)
         IN  /\ x \in Data /\ piece \in Data /\ Len(x) \in Nat /\ Len(piece) \in Nat
             /\ call[c].at <= Len(x) =>
                  \E e \in call[c].at..Len(x) :
                    /\ Len(piece) = e - call[c].at
                    /\ SubSeq(x, 1, call[c].at) \o piece = SubSeq(x, 1, e)
                    /\ Len(piece) < BufferSize => e = Len(x)
  <1> USE InvFacts
  <1> DEFINE x == inodes[call[c].inode]
             a == call[c].at
             b == a + BufferSize
             e == IF b < Len(x) THEN b ELSE Len(x)
  <1>1. x \in Data /\ a \in Nat /\ BufferSize \in Nat \ {0}
    BY CallFields, DataNodeAssumption DEF HandleInv, FilesOK
  <1>2. Len(x) \in Nat
    BY <1>1, DataFacts
  <1>3. Available(c) = SubSeq(x, a + 1, e)
    BY DEF Available
  <1>4. e \in 0..Len(x)
    BY <1>1, <1>2
  <1> HIDE DEF x, a
  <1>5. /\ Available(c) \in Data
        /\ Len(Available(c)) = IF a < e THEN e - a ELSE 0
    <2> HIDE DEF e
    <2>. QED  BY <1>1, <1>3, <1>4, PartIsData
  <1>6. ASSUME a <= Len(x)
        PROVE  /\ e \in a..Len(x) /\ Len(Available(c)) = e - a
               /\ SubSeq(x, 1, a) \o Available(c) = SubSeq(x, 1, e)
               /\ Len(Available(c)) < BufferSize => e = Len(x)
    <2>1. e \in a..Len(x) /\ a \in 0..Len(x)
      BY <1>1, <1>2, <1>6
    <2>2. Len(Available(c)) = e - a
      BY <1>1, <1>2, <1>5, <2>1
    <2>3. SubSeq(x, 1, a) \o SubSeq(x, a + 1, e) = SubSeq(x, 1, e)
      <3> HIDE DEF e
      <3>. QED  BY <1>1, <2>1, PartsJoin
    <2>4. Len(Available(c)) < BufferSize => e = Len(x)
      BY <1>1, <1>2, <2>2
    <2>. QED  BY <1>3, <2>1, <2>2, <2>3, <2>4
  <1>7. Len(Available(c)) \in Nat
    BY <1>5, DataFacts
  <1> HIDE DEF e
  <1>. QED  BY <1>1, <1>2, <1>5, <1>6, <1>7 DEF x, a

\* The record with another piece of the file.
LEMMA ReceivedFacts ==
  ASSUME NEW c \in Calls, call[c] \in CallState, NEW piece \in Data
  PROVE  LET r == Received(c, piece)
         IN  /\ r \in CallState /\ r.op = call[c].op /\ r.chunk = call[c].chunk
             /\ r.heard = call[c].heard /\ r.pc = call[c].pc
             /\ r.inode = call[c].inode /\ r.at = call[c].at
             /\ r.data = call[c].data \o piece
  <1> DEFINE d == call[c].data \o piece
             r == [call[c] EXCEPT !.data = d]
  <1>1. d \in Data
    BY CallFields, JoinIsData
  <1>2. Received(c, piece) = r
    BY DEF Received
  <1> HIDE DEF d
  <1>3. /\ r \in CallState /\ r.op = call[c].op /\ r.chunk = call[c].chunk
        /\ r.heard = call[c].heard /\ r.pc = call[c].pc
        /\ r.inode = call[c].inode /\ r.at = call[c].at /\ r.data = d
    BY <1>1 DEF CallState
  <1> HIDE DEF r
  <1>. QED  BY <1>2, <1>3 DEF d

\* What a download under way has, if its chunk and the faults allow.
LEMMA ReadFacts ==
  ASSUME DataNodeInv, MoreFaults, NEW c \in Calls,
         call[c].op = "get", call[c].pc = "open", call[c].heard,
         ~chunk[call[c].chunk].stale, faults'["write"] = 0, faults'["read"] = 0
  PROVE  LET x == chunk[call[c].chunk].data
         IN  /\ inodes[call[c].inode] = x
             /\ call[c].at <= Len(x) /\ call[c].data = SubSeq(x, 1, call[c].at)
  <1>1. faults["write"] = 0 /\ faults["read"] = 0
    BY DataNodeAssumption DEF MoreFaults
  <1>2. ReadInv(c)
    BY DEF DataNodeInv
  <1>. QED  BY <1>1, <1>2 DEF ReadInv

\* GetPiece.
LEMMA StepGetPiece ==
  ASSUME DataNodeInv, NEW c \in Calls, GetPiece(c)
  PROVE  DataNodeInv'
  <1> USE InvFacts
  <1> DEFINE piece == Available(c)
  <1>1. /\ call[c].op = "get" /\ call[c].pc = "open" /\ Len(piece) = BufferSize
        /\ chunk' = chunk /\ dir' = dir
    BY DEF GetPiece
  <1>2. FilesCalm
    BY <1>1, ReclaimCalm DEF GetPiece
  <1>3. MoreFaults
    BY NoFaultMore DEF GetPiece
  <1>4. CASE ~call[c].heard /\ Answer(c, call[c], "INTERNAL")
    BY <1>1, <1>2, <1>3, <1>4, GetReturns
  <1>5. CASE call' = [call EXCEPT ![c] = [Received(c, piece) EXCEPT
                                            !.at = @ + BufferSize]]
    <2> DEFINE r == Received(c, piece)
               n == call[c].at + BufferSize
               y == [r EXCEPT !.at = n]
    <2>1. piece \in Data /\ call[c] \in CallState
      BY <1>1, AvailableFacts
    <2>2. /\ r \in CallState /\ r.op = "get" /\ r.chunk = call[c].chunk
          /\ r.heard = call[c].heard /\ r.pc = "open"
          /\ r.inode = call[c].inode /\ r.at = call[c].at
          /\ r.data = call[c].data \o piece
      <3> HIDE DEF piece
      <3>. QED  BY <1>1, <2>1, ReceivedFacts
    <2>3. n \in Nat
      BY <2>1, CallFields, DataNodeAssumption
    <2>4. call' = [call EXCEPT ![c] = y] /\ call'[c] = y
      <3>1. y = [r EXCEPT !.at = r.at + BufferSize]
        BY <2>2
      <3>2. call' = [call EXCEPT ![c] = [r EXCEPT !.at = r.at + BufferSize]]
        BY <1>5
      <3> HIDE DEF y, r
      <3>. QED  BY <3>1, <3>2
    <2> HIDE DEF r, n
    <2>5. /\ y \in CallState /\ y.op = "get" /\ y.chunk = call[c].chunk
          /\ y.heard = call[c].heard /\ y.pc = "open"
          /\ y.inode = call[c].inode /\ y.at = n
          /\ y.data = call[c].data \o piece
      BY <2>2, <2>3 DEF CallState
    <2> HIDE DEF y
    <2>6. Plain(call[c]) /\ Plain(y)
      BY <1>1, <2>5 DEF Plain
    <2>7. Life(y, chunk)
      <3>1. Life(call[c], chunk)
        BY DEF LifeInv
      <3>. QED  BY <1>1, <2>5, <3>1 DEF Life
    <2>8. HandleStep(c)
      BY <1>1, <2>4, <2>5 DEF HandleStep
    <2>9. GoneInv(c)'
      BY <2>4, <2>5 DEF GoneInv
    <2>10. ReadInv(c)'
      <3> DEFINE x == chunk[call[c].chunk].data
      <3> SUFFICES ASSUME call[c].heard, ~chunk[call[c].chunk].stale,
                          faults'["write"] = 0, faults'["read"] = 0
                   PROVE  /\ inodes'[call[c].inode] = x /\ n <= Len(x)
                          /\ call[c].data \o piece = SubSeq(x, 1, n)
        BY <1>1, <2>4, <2>5 DEF ReadInv
      <3>1. /\ inodes[call[c].inode] = x
            /\ call[c].at <= Len(x) /\ call[c].data = SubSeq(x, 1, call[c].at)
        BY <1>1, <1>3, ReadFacts
      <3>2. inodes'[call[c].inode] = x
        BY <1>1, <1>2, <2>4, <2>5, <3>1 DEF HandleInv, FilesCalm
      <3>3. PICK e \in call[c].at..Len(x) :
              /\ Len(piece) = e - call[c].at
              /\ SubSeq(x, 1, call[c].at) \o piece = SubSeq(x, 1, e)
        BY <1>1, <3>1, AvailableFacts
      <3>4. call[c].at \in Nat /\ Len(x) \in Nat /\ BufferSize \in Nat
        BY <1>1, <2>1, <3>1, CallFields, AvailableFacts, DataNodeAssumption
      <3> HIDE DEF x, piece
      <3>5. e = n /\ e <= Len(x)
        BY <1>1, <3>3, <3>4 DEF n
      <3>. QED  BY <3>1, <3>2, <3>3, <3>5
    <2>. QED  BY <1>1, <1>2, <1>3, <2>4, <2>5, <2>6, <2>7, <2>8, <2>9, <2>10, QuietCall
  <1>. QED  BY <1>4, <1>5 DEF GetPiece

\* GetTail: where the file ends, the whole of it has been read.
LEMMA StepGetTail ==
  ASSUME DataNodeInv, NEW c \in Calls, GetTail(c)
  PROVE  DataNodeInv'
  <1> USE InvFacts
  <1> DEFINE piece == Available(c)
  <1>1. /\ call[c].op = "get" /\ call[c].pc = "open"
        /\ chunk' = chunk /\ dir' = dir
    BY DEF GetTail
  <1>2. FilesCalm
    BY <1>1, ReclaimCalm DEF GetTail
  <1>3. MoreFaults
    BY NoFaultMore, FaultMore, DataNodeAssumption DEF GetTail, NoFault
  <1>4. piece \in Data /\ call[c] \in CallState /\ Len(piece) \in Nat
    BY <1>1, AvailableFacts
  <1>5. CASE /\ Len(piece) < BufferSize
             /\ Answer(c, Received(c, LastPiece(piece)), "OK")
    <2> DEFINE r == Received(c, piece)
    <2>1. /\ r \in CallState /\ r.op = "get" /\ r.chunk = call[c].chunk
          /\ r.heard = call[c].heard /\ r.data = call[c].data \o piece
      <3> HIDE DEF piece
      <3>. QED  BY <1>1, <1>4, ReceivedFacts
    <2>2. Answer(c, r, "OK")
      BY <1>5 DEF LastPiece
    <2> HIDE DEF r
    <2>3. ASSUME call[c].heard, ~chunk[call[c].chunk].stale,
                 faults'["write"] = 0, faults'["read"] = 0
          PROVE  r.data = chunk[call[c].chunk].data
      <3> DEFINE x == chunk[call[c].chunk].data
      <3>1. /\ inodes[call[c].inode] = x
            /\ call[c].at <= Len(x) /\ call[c].data = SubSeq(x, 1, call[c].at)
        BY <1>1, <1>3, <2>3, ReadFacts
      <3>2. SubSeq(x, 1, call[c].at) \o piece = SubSeq(x, 1, Len(x)) /\ x \in Data
        BY <1>1, <1>5, <3>1, AvailableFacts
      <3> HIDE DEF x, piece
      <3>3. SubSeq(x, 1, Len(x)) = x
        BY <3>2, DataFacts
      <3>. QED  BY <2>1, <3>1, <3>2, <3>3 DEF x
    <2>. QED  BY <1>1, <1>2, <1>3, <2>1, <2>2, <2>3, GetReturns
  <1>6. CASE /\ Fault("read")
             /\ \E n \in 0..(Len(piece) - 1) :
                  Answer(c, Received(c, LastPiece(SubSeq(piece, 1, n))), "OK")
    <2>1. PICK n \in 0..(Len(piece) - 1) : Answer(c, Received(c, SubSeq(piece, 1, n)), "OK")
      BY <1>6 DEF LastPiece
    <2> DEFINE s == SubSeq(piece, 1, n)
               r == Received(c, s)
    <2> HIDE DEF piece
    <2>2. s \in Data
      <3>1. 0 \in Nat /\ n \in 0..Len(piece) /\ 0 + 1 = 1
        BY <1>4
      <3>. QED  BY <1>4, <3>1, PartIsData
    <2> HIDE DEF s
    <2>3. /\ r \in CallState /\ r.op = "get" /\ r.chunk = call[c].chunk
          /\ r.heard = call[c].heard
      BY <1>1, <1>4, <2>2, ReceivedFacts
    <2>4. faults'["read"] # 0
      BY <1>6, FaultMore, DataNodeAssumption
    <2>5. Answer(c, r, "OK")
      BY <2>1 DEF s
    <2> HIDE DEF r
    <2>. QED  BY <1>1, <1>2, <1>3, <2>3, <2>4, <2>5, GetReturns
  <1>. QED  BY <1>5, <1>6 DEF GetTail
(***************************************************************************)
(* PutChunk.                                                               *)
(***************************************************************************)

\* No call writes a chunk that was stored, unless it is an older call.
LEMMA PutAlone ==
  ASSUME DataNodeInv, NEW c \in Calls,
         call[c].op = "put", call[c].pc \in {"sent", "open"}
  PROVE  /\ c \in Writers(call[c].chunk) /\ call[c].chunk \in Chunks
         /\ chunk[call[c].chunk].stale
              \/ chunk[call[c].chunk].phase \notin {"stored", "deleted"}
  <1>1. call[c].chunk \in Chunks
    BY InvFacts, CallFields
  <1>2. c \in Writers(call[c].chunk)
    BY DEF Writers
  <1>3. StoredInv(call[c].chunk)
    BY <1>1 DEF DataNodeInv
  <1>. QED  BY <1>1, <1>2, <1>3 DEF StoredInv

\* What becomes of the record of a PutChunk call.
PutGoesOn(r, y) ==
  \/ ~r.heard /\ y = IdleCall
  \/ /\ y.op = "put" /\ y.chunk = r.chunk /\ y.heard = r.heard /\ y.data = r.data
     /\ y.pc = "open" \/ (y.pc = "answered" /\ y.heard)

\* What the invariant says to one call of an upload that can still succeed.
PutBefore(c) ==
  LET k == call[c].chunk IN
  /\ call[c].heard
  /\ \A d \in Writers(k) : d \in Awaited(k) /\ call[d].data = call[c].data
  /\ (\E d \in Awaited(k) : call[d].pc \in {"open", "answered"})
       => Exists(k) /\ Covered(k, call[c].data)

\* A step of a PutChunk call: what is to be shown of it.
LEMMA PutStep ==
  ASSUME DataNodeInv, MoreFaults, chunk' = chunk,
         NEW c \in Calls, NEW y \in CallState, call' = [call EXCEPT ![c] = y],
         call[c].op = "put", call[c].pc \in {"sent", "open"},
         NEW k \in Chunks, NEW x \in Data, call[c].chunk = k, call[c].data = x,
         PutGoesOn(call[c], y), FilesOK', HandleInv',
         \A m \in Chunks \ {k} : FileKept(m),
         \A d \in Calls \ {c} :
           call[d].pc = "open" /\ call[d].chunk # k
             => inodes'[call[d].inode] = inodes[call[d].inode],
         /\ PutBefore(c) /\ faults'["write"] = 0
         /\ y.pc = "answered" => y.status = "OK"
         => Exists(k)' /\ Covered(k, x)'
  PROVE  DataNodeInv'
  <1> USE InvFacts
  <1>1. /\ c \in Writers(k) /\ k \in Chunks
        /\ chunk[k].stale \/ chunk[k].phase \notin {"stored", "deleted"}
    BY PutAlone
  <1>2. /\ call' \in [Calls -> CallState] /\ call'[c] = y
        /\ \A d \in Calls \ {c} : call'[d] = call[d]
    OBVIOUS
  <1>3. y.op = "put" /\ (y.pc = "answered" => y.heard)
    BY IdleFacts DEF PutGoesOn
  <1>4. Plain(y) \/ y.chunk = k
    BY IdleFacts DEF PutGoesOn, Plain
  <1>5. Life(y, chunk)
    <2>1. Life(call[c], chunk) /\ Life(IdleCall, chunk)
      BY IdleFacts DEF LifeInv, Life
    <2>. QED  BY <2>1 DEF Life, PutGoesOn
  <1>6. StoredInv(k)'
    BY <1>1 DEF StoredInv
  <1>7. ASSUME NEW d \in Calls
        PROVE  ReadInv(d)' /\ GoneInv(d)'
    <2>1. CASE d = c
      BY <1>2, <1>3, <2>1 DEF ReadInv, GoneInv
    <2>2. CASE d # c /\ call[d].chunk = k
      <3>1. Life(call[d], chunk) /\ call'[d] = call[d]
        BY <1>2, <2>2 DEF LifeInv
      <3>2. ReadInv(d)'
        BY <1>1, <2>2, <3>1 DEF Life, ReadInv
      <3>3. GoneInv(d)'
        BY <1>1, <2>2, <3>1 DEF Life, GoneInv
      <3>. QED  BY <3>2, <3>3
    <2>3. CASE d # c /\ call[d].chunk # k
      <3>1. call'[d] = call[d] /\ call[d].chunk \in Chunks \ {k}
        BY <1>2, <2>3, CallFields
      <3>2. FileKept(call[d].chunk) /\ ReadInv(d) /\ GoneInv(d)
        BY <3>1 DEF DataNodeInv
      <3>3. ReadInv(d)'
        BY <2>3, <3>1, <3>2, ReadKept
      <3>4. GoneInv(d)'
        BY <3>1, <3>2, GoneKept DEF FileKept
      <3>. QED  BY <3>3, <3>4
    <2>. QED  BY <2>1, <2>2, <2>3
  <1>8. UploadInv(k)'
    <2> SUFFICES ASSUME chunk[k].phase = "uploading", ~chunk[k].stale, ~chunk[k].broken
                 PROVE  UploadInv(k)'
      BY DEF UploadInv
    <2>1. UploadInv(k)
      BY <1>1 DEF DataNodeInv
    <2>2. /\ \A d \in Writers(k) : d \in Awaited(k)
          /\ \A d \in Awaited(k) : call[d].data = chunk[k].data
      BY <2>1 DEF UploadInv
    <2>3. c \in Awaited(k) /\ call[c].heard /\ chunk[k].data = x
      BY <1>1, <2>2 DEF Awaited
    <2>4. y.op = "put" /\ y.chunk = k /\ y.heard /\ y.data = x /\ y.pc \in {"open", "answered"}
      BY <2>3 DEF PutGoesOn
    <2>5. Awaited(k)' = Awaited(k)
      BY <1>2, <2>3, <2>4 DEF Awaited
    <2>6. \A d \in Writers(k)' : d \in Writers(k)
      BY <1>1, <1>2 DEF Writers
    <2>7. \A d \in Awaited(k)' : call'[d].data = x
      BY <1>2, <2>2, <2>3, <2>4, <2>5 DEF Awaited
    <2>8. ASSUME faults'["write"] = 0,
                 \A d \in Awaited(k)' : call'[d].pc = "answered" => call'[d].status = "OK"
          PROVE  Exists(k)' /\ Covered(k, x)'
      <3>1. \A d \in Awaited(k) : call[d].pc = "answered" => call[d].status = "OK"
        BY <1>2, <2>5, <2>8 DEF Awaited
      <3>2. y.pc = "answered" => y.status = "OK"
        BY <1>2, <2>3, <2>5, <2>8
      <3>3. faults["write"] = 0
        BY <2>8, DataNodeAssumption DEF MoreFaults
      <3>4. (\E d \in Awaited(k) : call[d].pc \in {"open", "answered"})
              => Exists(k) /\ Covered(k, x)
        BY <2>1, <2>3, <3>1, <3>3 DEF UploadInv
      <3>5. PutBefore(c)
        BY <2>2, <2>3, <3>4 DEF PutBefore
      <3>. QED  BY <2>3, <2>8, <3>2, <3>5
    <2>. QED  BY <2>2, <2>3, <2>5, <2>6, <2>7, <2>8 DEF UploadInv
  <1>. QED  BY <1>1, <1>4, <1>5, <1>6, <1>7, <1>8, OneCall

\* A handler of PutChunk returns: it says OK when all is written.
LEMMA PutReturns ==
  ASSUME DataNodeInv, MoreFaults, chunk' = chunk, dir' = dir, FilesCalm,
         NEW c \in Calls, NEW status \in {"OK", "INTERNAL", "UNKNOWN"},
         call[c].op = "put", call[c].pc \in {"sent", "open"},
         Answer(c, call[c], status),
         status = "OK" /\ call[c].heard
           => call[c].pc = "open" /\ call[c].at = Len(call[c].data)
  PROVE  DataNodeInv'
  <1> USE InvFacts
  <1> DEFINE y == Left(call[c], status)
  <1>0. PICK k \in Chunks, x \in Data : call[c].chunk = k /\ call[c].data = x
    BY CallFields
  <1>1. call' = [call EXCEPT ![c] = y] /\ call'[c] = y
    BY DEF Answer, Left
  <1>2. /\ y \in CallState /\ y.pc # "open" /\ y.inode = 0 /\ y.at = 0
        /\ call[c].heard => /\ y.op = "put" /\ y.chunk = k /\ y.pc = "answered"
                            /\ y.heard /\ y.data = x /\ y.status = status
        /\ ~call[c].heard => y = IdleCall
    <2>1. call[c] \in CallState
      OBVIOUS
    <2>. QED  BY <1>0, <2>1, LeftFacts
  <1> HIDE DEF y
  <1>3. /\ call' \in [Calls -> CallState]
        /\ \A d \in Calls \ {c} : call'[d] = call[d]
    BY <1>1, <1>2
  <1>4. PutGoesOn(call[c], y)
    <2>1. call[c].heard \in BOOLEAN
      BY CallFields
    <2>. QED  BY <1>0, <1>2, <2>1 DEF PutGoesOn
  <1>5. FilesOK' /\ HandleInv'
    <2>1. \A d \in Calls : HandleStep(d)
      BY <1>1, <1>2, <1>3 DEF HandleStep, HandleInv
    <2>2. \A d \in Calls : call'[d].chunk \in Chunks
      BY <1>3, CallFields
    <2>. QED  BY <2>1, <2>2, CalmFilesOK, CalmHandles
  <1>6. \A m : FileKept(m)
    BY CalmFileKept
  <1>7. \A d \in Calls \ {c} :
          call[d].pc = "open" => inodes'[call[d].inode] = inodes[call[d].inode]
    BY <1>3 DEF HandleInv, FilesCalm
  <1>8. ASSUME PutBefore(c), y.pc = "answered" => y.status = "OK"
        PROVE  Exists(k)' /\ Covered(k, x)'
    <2>1. call[c].heard /\ call[c].pc = "open" /\ call[c].at = Len(x)
      BY <1>0, <1>2, <1>8 DEF PutBefore
    <2>2. c \in Awaited(k)
      BY <1>0, <2>1 DEF Awaited
    <2>3. Exists(k) /\ Covered(k, x)
      BY <1>0, <1>8, <2>1, <2>2 DEF PutBefore
    <2>4. Exists(k)' /\ dir'[ChunkPath(k)] = dir[ChunkPath(k)] /\ Content(k)' = Content(k)
      <3>1. FileKept(k)
        BY <1>6
      <3>. QED  BY <2>3, <3>1 DEF FileKept
    <2>5. Writers(k)' = Writers(k) \ {c}
      <3>1. y.pc \in {"idle", "answered"}
        BY <1>2, CallFields, IdleFacts
      <3>. QED  BY <1>0, <1>1, <1>2, <1>3, <3>1 DEF Writers
    <2>6. \A d \in Writers(k)' : call'[d] = call[d] /\ d \in Writers(k)
      BY <1>3, <2>5 DEF Writers
    <2>7. ASSUME NEW j \in 1..Len(x), NEW d \in Writers(k),
                 call[d].pc = "open", call[d].at < j
          PROVE  d \in Writers(k)' /\ call'[d].pc = "open" /\ call'[d].at < j
      <3>1. Len(x) \in Nat
        BY DataFacts
      <3>2. d # c
        BY <2>1, <2>7, <3>1
      <3>. QED  BY <2>5, <2>6, <2>7, <3>2
    <2>8. Covered(k, x)'
      BY <2>3, <2>4, <2>6, <2>7 DEF Covered
    <2>. QED  BY <2>4, <2>8
  <1>. QED  BY <1>0, <1>1, <1>2, <1>4, <1>5, <1>6, <1>7, <1>8, PutStep

\* PutClose.
LEMMA StepPutClose ==
  ASSUME DataNodeInv, NEW c \in Calls, PutClose(c)
  PROVE  DataNodeInv'
  <1> USE InvFacts
  <1>1. /\ call[c].op = "put" /\ call[c].pc = "open"
        /\ call[c].at = Len(call[c].data) /\ Answer(c, call[c], "OK")
        /\ chunk' = chunk /\ dir' = dir
    BY DEF PutClose
  <1>2. FilesCalm
    BY <1>1, ReclaimCalm DEF PutClose
  <1>3. MoreFaults
    BY NoFaultMore DEF PutClose
  <1>. QED  BY <1>1, <1>2, <1>3, PutReturns

\* A write does not move handles or names.
LEMMA WriteHandles ==
  ASSUME DataNodeInv, dir' = dir, DOMAIN inodes' = DOMAIN inodes,
         \A i \in DOMAIN inodes : inodes'[i] \in Data,
         NEW c \in Calls, NEW y \in CallState, call' = [call EXCEPT ![c] = y],
         call[c].pc = "open", y.pc = "open", y.inode = call[c].inode,
         y.chunk = call[c].chunk, y.op = call[c].op
  PROVE  FilesOK' /\ HandleInv'
  <1> USE InvFacts
  <1>1. /\ call'[c] = y /\ \A d \in Calls \ {c} : call'[d] = call[d]
    OBVIOUS
  <1>2. FilesOK'
    BY DEF FilesOK
  <1>3. \A d \in Calls : /\ call'[d].pc = call[d].pc /\ call'[d].op = call[d].op
                         /\ call'[d].inode = call[d].inode
                         /\ call'[d].chunk = call[d].chunk
                         /\ call[d].pc # "open" => call'[d].at = call[d].at
    BY <1>1
  <1>4. HandleInv'
    BY <1>3 DEF HandleInv
  <1>. QED  BY <1>2, <1>4

\* PutWrite: one more unit is in the file, or the history has a failed write.
LEMMA StepPutWrite ==
  ASSUME DataNodeInv, NEW c \in Calls, PutWrite(c)
  PROVE  DataNodeInv'
  <1> USE InvFacts
  <1>1. PICK k \in Chunks, x \in Data, i \in Inodes \cup {0}, a \in Nat :
          /\ call[c].chunk = k /\ call[c].data = x
          /\ call[c].inode = i /\ call[c].at = a
    BY DEF CallState
  <1>2. /\ call[c].op = "put" /\ call[c].pc = "open" /\ a + 1 <= Len(x)
        /\ chunk' = chunk /\ dir' = dir
    BY <1>1 DEF PutWrite
  <1>3. i \in DOMAIN inodes /\ inodes[i] \in Data
    BY <1>1, <1>2 DEF HandleInv, FilesOK
  <1>4. a + 1 \in 1..Len(x) /\ Len(x) \in Nat
    BY <1>2, DataFacts
  <1>5. MoreFaults
    BY NoFaultMore, FaultMore, DataNodeAssumption DEF PutWrite, NoFault
  <1>6. CASE Fault("write") /\ inodes' = inodes
             /\ call' = [call EXCEPT ![c].at = Len(call[c].data)]
    <2> DEFINE y == [call[c] EXCEPT !.at = Len(x)]
    <2>1. call' = [call EXCEPT ![c] = y]
      BY <1>1, <1>6
    <2>2. /\ y \in CallState /\ y.op = "put" /\ y.chunk = k /\ y.pc = "open"
          /\ y.heard = call[c].heard /\ y.data = x /\ y.inode = i
      BY <1>1, <1>2, <1>4 DEF CallState
    <2> HIDE DEF y
    <2>3. FilesOK' /\ HandleInv'
      <3>1. \A j \in DOMAIN inodes : inodes'[j] \in Data
        BY <1>6 DEF FilesOK
      <3>. QED  BY <1>1, <1>2, <1>6, <2>1, <2>2, <3>1, WriteHandles
    <2>4. \A m : FileKept(m)
      BY <1>2, <1>6 DEF FileKept, Exists, Content
    <2>5. faults'["write"] # 0
      BY <1>6, FaultMore, DataNodeAssumption
    <2>6. PutGoesOn(call[c], y)
      BY <1>1, <2>2 DEF PutGoesOn
    <2>. QED  BY <1>1, <1>2, <1>5, <1>6, <2>1, <2>2, <2>3, <2>4, <2>5, <2>6, PutStep
  <1>7. CASE /\ inodes' = [inodes EXCEPT ![call[c].inode] =
                             WriteAt(@, call[c].at + 1, call[c].data[call[c].at + 1])]
             /\ call' = [call EXCEPT ![c].at = call[c].at + 1]
    <2> DEFINE y == [call[c] EXCEPT !.at = a + 1]
               e == WriteAt(inodes[i], a + 1, x[a + 1])
    <2>1. call' = [call EXCEPT ![c] = y] /\ call'[c] = y
      BY <1>1, <1>7
    <2>2. /\ y \in CallState /\ y.op = "put" /\ y.chunk = k /\ y.pc = "open"
          /\ y.heard = call[c].heard /\ y.data = x /\ y.inode = i /\ y.at = a + 1
      BY <1>1, <1>2, <1>4 DEF CallState
    <2> HIDE DEF y
    <2>3. inodes' = [inodes EXCEPT ![i] = e]
      BY <1>1, <1>7
    <2>4. /\ e \in Data
          /\ Len(e) = IF Len(inodes[i]) < a + 1 THEN a + 1 ELSE Len(inodes[i])
          /\ e[a + 1] = x[a + 1]
          /\ \A j \in 1..Len(inodes[i]) : j # a + 1 => e[j] = inodes[i][j]
      BY <1>3, <1>4, WriteAtFacts
    <2> HIDE DEF e
    <2>5. /\ DOMAIN inodes' = DOMAIN inodes /\ inodes'[i] = e
          /\ \A j \in DOMAIN inodes : j # i => inodes'[j] = inodes[j]
      BY <1>3, <2>3
    <2>6. FilesOK' /\ HandleInv'
      <3>1. \A j \in DOMAIN inodes : inodes'[j] \in Data
        BY <2>4, <2>5 DEF FilesOK
      <3>. QED  BY <1>1, <1>2, <2>1, <2>2, <2>5, <3>1, WriteHandles
    <2>7. ASSUME NEW m \in Chunks \ {k}
          PROVE  FileKept(m)
      <3>1. Exists(m)' <=> Exists(m)
        BY <1>2 DEF Exists
      <3>2. ASSUME Exists(m)
            PROVE  Content(m)' = Content(m)
        <4>1. dir[ChunkPath(m)] \in DOMAIN inodes
          BY <3>2 DEF Exists, FilesOK, Range
        <4>2. dir[ChunkPath(m)] # i
          BY <1>1, <1>2, <3>2, PathInjective DEF HandleInv, Exists
        <4>. QED  BY <1>2, <2>5, <4>1, <4>2 DEF Content
      <3>. QED  BY <1>2, <3>1, <3>2 DEF FileKept
    <2>8. ASSUME NEW d \in Calls \ {c}, call[d].pc = "open", call[d].chunk # k
          PROVE  inodes'[call[d].inode] = inodes[call[d].inode]
      BY <1>1, <1>2, <2>5, <2>8 DEF HandleInv
    <2>9. PutGoesOn(call[c], y)
      BY <1>1, <2>2 DEF PutGoesOn
    <2>10. ASSUME PutBefore(c)
           PROVE  Exists(k)' /\ Covered(k, x)'
      <3>1. c \in Awaited(k) /\ c \in Writers(k)
        BY <1>1, <1>2, <2>10 DEF Awaited, PutBefore, Writers
      <3>2. Exists(k) /\ Covered(k, x)
        BY <1>1, <1>2, <2>10, <3>1 DEF PutBefore
      <3>3. dir[ChunkPath(k)] = i
        BY <1>1, <1>2, <3>1, <3>2 DEF Covered
      <3>4. Exists(k)' /\ Content(k) = inodes[i] /\ Content(k)' = e
        BY <1>2, <2>5, <3>2, <3>3 DEF Exists, Content
      <3>5. Writers(k)' = Writers(k)
        BY <1>1, <1>2, <2>1, <2>2 DEF Writers
      <3>6. \A d \in Writers(k) : call'[d].pc = call[d].pc /\ call'[d].inode = call[d].inode
        BY <1>1, <1>2, <2>1, <2>2 DEF Writers
      <3>7. Len(inodes[i]) <= Len(x) /\ Len(inodes[i]) \in Nat
        BY <1>3, <3>2, <3>4, DataFacts DEF Covered
      <3>8. Len(e) <= Len(x) /\ Len(inodes[i]) <= Len(e) /\ a + 1 <= Len(e) /\ Len(e) \in Nat
        BY <1>4, <2>4, <3>7
      <3>9. ASSUME NEW j \in 1..Len(x)
            PROVE  \/ j <= Len(e) /\ e[j] = x[j]
                   \/ \E d \in Writers(k) : call'[d].pc = "open" /\ call'[d].at < j
        <4>1. CASE j = a + 1
          BY <2>4, <3>8, <4>1
        <4>2. CASE j # a + 1 /\ j <= Len(inodes[i]) /\ inodes[i][j] = x[j]
          <5>1. j \in 1..Len(inodes[i]) /\ j <= Len(e)
            BY <1>4, <3>7, <3>8, <4>2
          <5>. QED  BY <2>4, <4>2, <5>1
        <4>3. ASSUME j # a + 1, NEW d \in Writers(k), call[d].pc = "open", call[d].at < j
              PROVE  call'[d].pc = "open" /\ call'[d].at < j
          <5>1. CASE d = c
            BY <1>1, <1>4, <2>1, <2>2, <4>3, <5>1
          <5>2. CASE d # c
            BY <2>1, <4>3, <5>2 DEF Writers
          <5>. QED  BY <5>1, <5>2
        <4>4. \/ j <= Len(inodes[i]) /\ inodes[i][j] = x[j]
              \/ \E d \in Writers(k) : call[d].pc = "open" /\ call[d].at < j
          BY <3>2, <3>4 DEF Covered
        <4>. QED  BY <4>1, <4>2, <4>3, <4>4
      <3>10. Covered(k, x)'
        <4>1. \A d \in Writers(k)' : call'[d].pc = "open" => call'[d].inode = dir'[ChunkPath(k)]
          BY <1>2, <3>2, <3>5, <3>6 DEF Covered
        <4>. QED  BY <3>4, <3>5, <3>8, <3>9, <4>1 DEF Covered
      <3>. QED  BY <3>4, <3>10
    <2>. QED  BY <1>1, <1>2, <1>5, <2>1, <2>2, <2>6, <2>7, <2>8, <2>9, <2>10, PutStep
  <1>. QED  BY <1>6, <1>7 DEF PutWrite

\* What PutOpen makes of the files: an empty one at the place of chunk k.
Opened(k, i) ==
  /\ i \in Inodes
  /\ DOMAIN dir' = DOMAIN dir \cup {ChunkPath(k)} /\ dir'[ChunkPath(k)] = i
  /\ \A q \in DOMAIN dir : q # ChunkPath(k) => dir'[q] = dir[q] /\ dir[q] # i
  /\ DOMAIN inodes' = DOMAIN inodes \cup {i} /\ inodes'[i] = <<>>
  /\ \A j \in DOMAIN inodes : j # i => inodes'[j] = inodes[j]
  /\ Exists(k) => dir[ChunkPath(k)] = i
  /\ \A d \in Calls : call[d].pc = "open" /\ call[d].inode = i => call[d].chunk = k

\* The file is the one there is, truncated, or a new one.
LEMMA OpenedFacts ==
  ASSUME DataNodeInv, NEW k \in Chunks, NEW i,
         i = IF Exists(k) THEN dir[ChunkPath(k)] ELSE FreeInode,
         Exists(k) \/ Inodes \ DOMAIN inodes # {},
         dir' = [q \in DOMAIN dir \cup {ChunkPath(k)} |->
                   IF q = ChunkPath(k) THEN i ELSE dir[q]],
         inodes' = [j \in DOMAIN inodes \cup {i} |->
                      IF j # i THEN inodes[j]
                      ELSE IF Exists(k) THEN Truncated(inodes[i]) ELSE <<>>]
  PROVE  Opened(k, i)
  <1> USE InvFacts
  <1>1. /\ DOMAIN dir' = DOMAIN dir \cup {ChunkPath(k)} /\ dir'[ChunkPath(k)] = i
        /\ \A q \in DOMAIN dir : q # ChunkPath(k) => dir'[q] = dir[q]
    OBVIOUS
  <1>2. /\ DOMAIN inodes' = DOMAIN inodes \cup {i} /\ inodes'[i] = <<>>
        /\ \A j \in DOMAIN inodes : j # i => inodes'[j] = inodes[j]
    BY DEF Truncated
  <1>3. \A q \in DOMAIN dir : dir[q] \in DOMAIN inodes
    BY DEF FilesOK, Range
  <1>4. \A d \in Calls : call[d].chunk \in Chunks
    BY CallFields
  <1>5. CASE Exists(k)
    <2>1. i = dir[ChunkPath(k)] /\ i \in DOMAIN inodes /\ ChunkPath(k) \in DOMAIN dir
      BY <1>3, <1>5 DEF Exists
    <2>2. i \in Inodes /\ \A q \in DOMAIN dir : q # ChunkPath(k) => dir[q] # i
      BY <2>1 DEF FilesOK, IsInjective
    <2>3. ASSUME NEW d \in Calls, call[d].pc = "open", call[d].inode = i
          PROVE  call[d].chunk = k
      <3>1. ChunkPath(k) = ChunkPath(call[d].chunk)
        BY <2>1, <2>3 DEF HandleInv
      <3>. QED  BY <1>4, <3>1, PathInjective
    <2>. QED  BY <1>1, <1>2, <2>1, <2>2, <2>3 DEF Opened
  <1>6. CASE ~Exists(k)
    <2>1. i \in Inodes \ DOMAIN inodes
      BY <1>6 DEF FreeInode
    <2>2. \A q \in DOMAIN dir : dir[q] # i
      BY <1>3, <2>1
    <2>3. \A d \in Calls : call[d].pc = "open" => call[d].inode # i
      BY <2>1 DEF HandleInv
    <2>. QED  BY <1>1, <1>2, <1>6, <2>1, <2>2, <2>3 DEF Opened
  <1>. QED  BY <1>5, <1>6

\* PutOpen.
LEMMA StepPutOpen ==
  ASSUME DataNodeInv, NEW c \in Calls, PutOpen(c)
  PROVE  DataNodeInv'
  <1> USE InvFacts
  <1>1. PICK k \in Chunks, x \in Data : call[c].chunk = k /\ call[c].data = x
    BY CallFields
  <1>2. call[c].op = "put" /\ call[c].pc = "sent" /\ chunk' = chunk
    BY DEF PutOpen
  <1>3. MoreFaults
    BY NoFaultMore, FaultMore, DataNodeAssumption DEF PutOpen, NoFault
  <1>4. ASSUME UNCHANGED <<dir, inodes>>,
               \/ Answer(c, call[c], "UNKNOWN") \/ Answer(c, call[c], "INTERNAL")
               \/ ~call[c].heard /\ Answer(c, call[c], "OK")
        PROVE  DataNodeInv'
    <2>1. FilesCalm /\ dir' = dir
      BY <1>4, SameFilesCalm
    <2>2. CASE Answer(c, call[c], "UNKNOWN")
      BY <1>2, <1>3, <2>1, <2>2, PutReturns
    <2>3. CASE Answer(c, call[c], "INTERNAL")
      BY <1>2, <1>3, <2>1, <2>3, PutReturns
    <2>4. CASE ~call[c].heard /\ Answer(c, call[c], "OK")
      BY <1>2, <1>3, <2>1, <2>4, PutReturns
    <2>. QED  BY <1>4, <2>2, <2>3, <2>4
  <1>5. PICK i : i = IF Exists(k) THEN dir[ChunkPath(k)] ELSE FreeInode
    OBVIOUS
  <1>6. CASE /\ Exists(k) \/ Inodes \ DOMAIN inodes # {}
             /\ dir' = [q \in DOMAIN dir \cup {ChunkPath(k)} |->
                          IF q = ChunkPath(k) THEN i ELSE dir[q]]
             /\ inodes' = [j \in DOMAIN inodes \cup {i} |->
                             IF j # i THEN inodes[j]
                             ELSE IF Exists(k) THEN Truncated(inodes[i]) ELSE <<>>]
             /\ call' = [call EXCEPT ![c].pc = "open", ![c].inode = i]
    <2> DEFINE y == [call[c] EXCEPT !.pc = "open", !.inode = i]
               p == ChunkPath(k)
    <2>1. Opened(k, i)
      BY <1>5, <1>6, OpenedFacts
    <2>2. call' = [call EXCEPT ![c] = y]
      BY <1>6
    <2>3. i \in Inodes
      BY <2>1 DEF Opened
    <2>4. /\ y \in CallState /\ y.op = "put" /\ y.chunk = k /\ y.pc = "open"
          /\ y.heard = call[c].heard /\ y.data = x /\ y.inode = i
          /\ y.at = call[c].at
      BY <1>1, <1>2, <2>3 DEF CallState
    <2> HIDE DEF y
    <2>5. /\ call'[c] = y /\ y.at = 0 /\ \A d \in Calls \ {c} : call'[d] = call[d]
      BY <1>2, <2>2, <2>4 DEF HandleInv
    <2>6. FilesOK'
      <3>1. \A q \in DOMAIN dir' : dir'[q] \in DOMAIN inodes'
        BY <2>1 DEF FilesOK, Range, Opened
      <3>2. \A q, s \in DOMAIN dir' : dir'[q] = dir'[s] => q = s
        BY <2>1 DEF FilesOK, IsInjective, Opened
      <3>3. \A j \in DOMAIN inodes' : j \in Inodes /\ inodes'[j] \in Data
        <4>1. <<>> \in Data
          BY DataIsSeq
        <4>. QED  BY <2>1, <4>1 DEF FilesOK, Opened
      <3>. QED  BY <3>1, <3>2, <3>3 DEF FilesOK, IsInjective, Range
    <2>7. HandleInv'
      <3>1. ASSUME NEW d \in Calls, call'[d].pc = "open"
            PROVE  /\ call'[d].inode \in DOMAIN inodes' /\ call'[d].op # "delete"
                   /\ \A q \in DOMAIN dir' :
                        dir'[q] = call'[d].inode => q = ChunkPath(call'[d].chunk)
        <4>1. CASE d = c
          BY <2>1, <2>4, <2>5, <4>1 DEF Opened
        <4>2. CASE d # c
          <5>1. call'[d] = call[d] /\ call[d].pc = "open"
            BY <2>5, <3>1, <4>2
          <5>2. /\ call[d].inode \in DOMAIN inodes /\ call[d].op # "delete"
                /\ \A q \in DOMAIN dir :
                     dir[q] = call[d].inode => q = ChunkPath(call[d].chunk)
            BY <5>1 DEF HandleInv
          <5>. QED  BY <2>1, <5>1, <5>2 DEF Opened
        <4>. QED  BY <4>1, <4>2
      <3>2. ASSUME NEW d \in Calls, NEW e \in Calls,
                   call'[d].pc = "open", call'[e].pc = "open",
                   call'[d].inode = call'[e].inode
            PROVE  call'[d].chunk = call'[e].chunk
        <4>1. CASE d # c /\ e # c
          BY <2>5, <3>2, <4>1 DEF HandleInv
        <4>2. CASE d = c
          BY <2>1, <2>4, <2>5, <3>2, <4>2 DEF Opened
        <4>3. CASE e = c
          BY <2>1, <2>4, <2>5, <3>2, <4>3 DEF Opened
        <4>. QED  BY <4>1, <4>2, <4>3
      <3>3. \A d \in Calls : call'[d].pc # "open" => call'[d].inode = 0 /\ call'[d].at = 0
        BY <2>4, <2>5 DEF HandleInv
      <3>. QED  BY <3>1, <3>2, <3>3 DEF HandleInv
    <2>8. ASSUME NEW m \in Chunks \ {k}
          PROVE  FileKept(m)
      <3>1. ChunkPath(m) # p
        BY PathInjective
      <3> DEFINE q == ChunkPath(m)
      <3> HIDE DEF p, q
      <3>2. (q \in DOMAIN dir') <=> (q \in DOMAIN dir)
        BY <2>1, <3>1 DEF Opened, p, q
      <3>3. ASSUME q \in DOMAIN dir
            PROVE  dir'[q] = dir[q] /\ inodes'[dir[q]] = inodes[dir[q]]
        BY <2>1, <3>1, <3>3 DEF Opened, FilesOK, Range, p, q
      <3>. QED  BY <3>2, <3>3 DEF FileKept, Exists, Content, q
    <2>9. ASSUME NEW d \in Calls \ {c}, call[d].pc = "open", call[d].chunk # k
          PROVE  inodes'[call[d].inode] = inodes[call[d].inode]
      BY <2>1, <2>9 DEF HandleInv, Opened
    <2>10. PutGoesOn(call[c], y)
      BY <1>1, <2>4 DEF PutGoesOn
    <2>11. ASSUME PutBefore(c)
           PROVE  Exists(k)' /\ Covered(k, x)'
      <3>1. Exists(k)' /\ Content(k)' = <<>> /\ dir'[p] = i
        BY <2>1 DEF Opened, Exists, Content
      <3>2. c \in Writers(k)' /\ call'[c].pc = "open" /\ call'[c].at = 0
        BY <2>4, <2>5 DEF Writers
      <3>3. ASSUME NEW d \in Writers(k)', call'[d].pc = "open"
            PROVE  call'[d].inode = i
        <4>1. CASE d = c
          BY <2>4, <2>5, <4>1
        <4>2. CASE d # c
          <5>1. call'[d] = call[d] /\ d \in Writers(k)
            BY <2>5, <4>2 DEF Writers
          <5>2. d \in Awaited(k) /\ call[d].pc = "open"
            BY <1>1, <2>11, <3>3, <5>1 DEF PutBefore
          <5>3. Exists(k) /\ Covered(k, x)
            BY <1>1, <2>11, <5>2 DEF PutBefore
          <5>4. call[d].inode = dir[p]
            BY <5>1, <5>2, <5>3 DEF Covered
          <5>. QED  BY <2>1, <5>1, <5>3, <5>4 DEF Opened
        <4>. QED  BY <4>1, <4>2
      <3>4. Len(x) \in Nat /\ Len(<<>>) = 0
        BY DataFacts
      <3>5. \A j \in 1..Len(x) : call'[c].at < j
        BY <3>2, <3>4
      <3>6. Len(Content(k)') <= Len(x)
        BY <3>1, <3>4
      <3>7. Covered(k, x)'
        BY <3>1, <3>2, <3>3, <3>5, <3>6 DEF Covered
      <3>. QED  BY <3>1, <3>7
    <2>. QED  BY <1>1, <1>2, <1>3, <2>2, <2>4, <2>6, <2>7, <2>8, <2>9, <2>10, <2>11, PutStep
  <1>. QED  BY <1>1, <1>4, <1>5, <1>6 DEF PutOpen

(***************************************************************************)
(* DeleteChunk.                                                            *)
(***************************************************************************)

\* A handler of DeleteChunk returns.
LEMMA DeleteReturns ==
  ASSUME DataNodeInv, MoreFaults, chunk' = chunk, FilesCalm,
         NEW c \in Calls, NEW k \in Chunks, NEW status \in {"OK", "UNKNOWN"},
         call[c].op = "delete", call[c].pc = "sent", call[c].chunk = k,
         Answer(c, call[c], status),
         \A m \in Chunks \ {k} : Exists(m) => Exists(m)',
         status = "OK" /\ faults'["unlink"] = 0 => ~Exists(k)'
  PROVE  DataNodeInv'
  <1> USE InvFacts
  <1> DEFINE y == Left(call[c], status)
  <1>1. call' = [call EXCEPT ![c] = y] /\ call'[c] = y
    BY DEF Answer, Left
  <1>2. /\ y \in CallState /\ y.pc # "open" /\ y.inode = 0 /\ y.at = 0
        /\ call[c].heard => /\ y.op = "delete" /\ y.chunk = k /\ y.pc = "answered"
                            /\ y.heard /\ y.status = status
        /\ ~call[c].heard => y = IdleCall
    <2>1. call[c] \in CallState
      OBVIOUS
    <2>. QED  BY <2>1, LeftFacts
  <1> HIDE DEF y
  <1>3. /\ call' \in [Calls -> CallState]
        /\ \A d \in Calls \ {c} : call'[d] = call[d]
    BY <1>1, <1>2
  <1>4. c \in Writers(k) /\ c \notin Awaited(k)
    BY DEF Writers, Awaited
  <1>5. Plain(y) /\ y.pc \in {"idle", "answered"} /\ y.op # "get"
    BY <1>2, IdleFacts DEF Plain
  <1>6. Life(y, chunk)
    <2>1. Life(call[c], chunk) /\ Life(IdleCall, chunk)
      BY IdleFacts DEF LifeInv, Life
    <2>2. CASE call[c].heard
      BY <1>2, <2>1, <2>2 DEF Life
    <2>3. CASE ~call[c].heard
      BY <1>2, <2>1, <2>3
    <2>. QED  BY <2>2, <2>3
  <1>7. FilesOK' /\ HandleInv'
    <2>1. \A d \in Calls : HandleStep(d)
      BY <1>1, <1>2, <1>3 DEF HandleStep, HandleInv
    <2>2. \A d \in Calls : call'[d].chunk \in Chunks
      BY <1>3, CallFields
    <2>. QED  BY <2>1, <2>2, CalmFilesOK, CalmHandles
  <1>8. ASSUME NEW m \in Chunks
        PROVE  /\ Exists(m)' => Exists(m)
               /\ Exists(m)' => /\ dir'[ChunkPath(m)] = dir[ChunkPath(m)]
                                /\ Content(m)' = Content(m)
    BY DEF FilesCalm, Exists, Content
  <1>9. \A m \in Chunks \ {k} : FileKept(m)
    BY <1>8 DEF FileKept
  <1>10. UploadInv(k)'
    <2>1. UploadInv(k)
      BY DEF DataNodeInv
    <2>. QED  BY <1>4, <2>1 DEF UploadInv
  <1>11. StoredInv(k)'
    <2>1. StoredInv(k)
      BY DEF DataNodeInv
    <2>2. \A d \in Writers(k)' : d \in Writers(k) /\ call'[d] = call[d]
      BY <1>1, <1>3, <1>5 DEF Writers
    <2>3. faults'["write"] = 0 => faults["write"] = 0
      BY DataNodeAssumption DEF MoreFaults
    <2> SUFFICES ASSUME chunk[k].phase \in {"stored", "deleted"}, ~chunk[k].stale
                 PROVE  StoredInv(k)'
      BY DEF StoredInv
    <2>4. /\ \A d \in Writers(k) : call[d].op = "delete"
          /\ chunk[k].phase = "deleted"
          /\ faults["write"] = 0 /\ Exists(k) => Content(k) = chunk[k].data
      BY <1>4, <2>1 DEF StoredInv
    <2>5. \A d \in Writers(k)' : call'[d].op = "delete"
      BY <2>2, <2>4
    <2>6. faults'["write"] = 0 /\ Exists(k)' => Content(k)' = chunk[k].data
      BY <1>8, <2>3, <2>4
    <2>. QED  BY <2>4, <2>5, <2>6 DEF StoredInv
  <1>12. ASSUME NEW d \in Calls
         PROVE  ReadInv(d)' /\ GoneInv(d)'
    <2>1. CASE d # c
      <3>1. call'[d] = call[d]
        BY <1>3, <2>1
      <3>. QED  BY <3>1, OthersRead, OthersGone
    <2>2. CASE d = c
      <3>1. ReadInv(c)'
        BY <1>1, <1>5 DEF ReadInv
      <3>2. GoneInv(c)'
        BY <1>1, <1>2, IdleFacts DEF GoneInv
      <3>. QED  BY <2>2, <3>1, <3>2
    <2>. QED  BY <2>1, <2>2
  <1>. QED  BY <1>1, <1>2, <1>5, <1>6, <1>7, <1>9, <1>10, <1>11, <1>12, OneCall

\* DeleteChunk.
LEMMA StepDeleteChunk ==
  ASSUME DataNodeInv, NEW c \in Calls, DeleteChunk(c)
  PROVE  DataNodeInv'
  <1> USE InvFacts
  <1>1. PICK k \in Chunks : call[c].chunk = k
    BY CallFields
  <1>2. call[c].op = "delete" /\ call[c].pc = "sent" /\ chunk' = chunk /\ Reclaim
    BY DEF DeleteChunk
  <1>3. MoreFaults
    BY NoFaultMore, FaultMore, DataNodeAssumption DEF DeleteChunk, NoFault
  <1>4. CASE dir' = dir /\ Answer(c, call[c], "UNKNOWN")
    <2>1. FilesCalm
      BY <1>2, <1>4, ReclaimCalm
    <2>2. \A m \in Chunks : Exists(m) => Exists(m)'
      BY <1>4 DEF Exists
    <2>. QED  BY <1>1, <1>2, <1>3, <1>4, <2>1, <2>2, DeleteReturns
  <1>5. CASE dir' = dir /\ Answer(c, call[c], "OK") /\ Fault("unlink")
    <2>1. FilesCalm
      BY <1>2, <1>5, ReclaimCalm
    <2>2. \A m \in Chunks : Exists(m) => Exists(m)'
      BY <1>5 DEF Exists
    <2>3. faults'["unlink"] # 0
      BY <1>5, FaultMore, DataNodeAssumption
    <2>. QED  BY <1>1, <1>2, <1>3, <1>5, <2>1, <2>2, <2>3, DeleteReturns
  <1>6. CASE dir' = Unlinked(k) /\ Answer(c, call[c], "OK")
    <2>1. /\ DOMAIN dir' = DOMAIN dir \ {ChunkPath(k)}
          /\ \A p \in DOMAIN dir' : dir'[p] = dir[p]
      BY <1>6 DEF Unlinked, Restrict
    <2>2. FilesCalm
      BY <1>2, <2>1, ReclaimCalm
    <2>3. ASSUME NEW m \in Chunks \ {k}, Exists(m)
          PROVE  Exists(m)'
      <3>1. ChunkPath(m) # ChunkPath(k)
        BY PathInjective
      <3>. QED  BY <2>1, <2>3, <3>1 DEF Exists
    <2>4. ~Exists(k)'
      BY <2>1 DEF Exists
    <2>. QED  BY <1>1, <1>2, <1>3, <1>6, <2>2, <2>3, <2>4, DeleteReturns
  <1>. QED  BY <1>1, <1>4, <1>5, <1>6 DEF DeleteChunk

(***************************************************************************)
(* The callers and the crash.                                              *)
(***************************************************************************)

\* A calm step of any calls: what is to be shown of it.
LEMMA CallerStep ==
  ASSUME DataNodeInv, MoreFaults, FilesCalm,
         call' \in [Calls -> CallState], chunk' \in [Chunks -> ChunkState],
         \A d \in Calls : HandleStep(d),
         \A d \in Calls : Life(call'[d], chunk'),
         \A m \in Chunks : UploadInv(m)' /\ StoredInv(m)',
         \A d \in Calls : ReadInv(d)' /\ GoneInv(d)'
  PROVE  DataNodeInv'
  <1> USE InvFacts
  <1>1. \A d \in Calls : call'[d].chunk \in Chunks
    BY CallFields
  <1>2. FilesOK' /\ HandleInv'
    BY <1>1, CalmFilesOK, CalmHandles
  <1>3. TypeOK'
    BY <1>2 DEF FilesOK, TypeOK, MoreFaults
  <1>4. LifeInv'
    BY DEF LifeInv
  <1>. QED  BY <1>2, <1>3, <1>4 DEF DataNodeInv

\* The parts of the invariant about a chunk whose file and calls stay.
LEMMA ChunkStays ==
  ASSUME DataNodeInv, MoreFaults, FilesCalm, dir' = dir, NEW m \in Chunks,
         CallsKept(m), chunk'[m] = chunk[m]
  PROVE  UploadInv(m)' /\ StoredInv(m)'
  <1>1. FileKept(m) /\ UploadInv(m) /\ StoredInv(m)
    BY InvFacts, CalmFileKept DEF DataNodeInv
  <1>. QED  BY <1>1, UploadKept, StoredKept

\* A handle that stays.
LEMMA HandleStays ==
  ASSUME DataNodeInv, NEW d \in Calls, call'[d].pc = call[d].pc,
         call'[d].inode = call[d].inode, call'[d].at = call[d].at,
         call'[d].chunk = call[d].chunk, call'[d].op = call[d].op
  PROVE  HandleStep(d)
  BY InvFacts DEF HandleStep, HandleInv

\* The record of a call whose caller is gone.
LEMMA GivenUpFacts ==
  ASSUME NEW r \in CallState
  PROVE  LET y == GivenUp(r)
         IN  /\ y \in CallState /\ ~y.heard /\ y.pc # "answered"
             /\ r.pc = "answered" => y = IdleCall
             /\ r.pc # "answered" => /\ y.op = r.op /\ y.chunk = r.chunk /\ y.pc = r.pc
                                     /\ y.inode = r.inode /\ y.at = r.at
                                     /\ y = [r EXCEPT !.heard = FALSE]
  <1>1. CASE r.pc = "answered"
    BY <1>1, IdleFacts DEF GivenUp
  <1>2. CASE r.pc # "answered"
    <2>1. PICK no \in {FALSE} : TRUE
      OBVIOUS
    <2> DEFINE y == [r EXCEPT !.heard = no]
    <2>2. /\ y \in CallState /\ y.heard = no /\ y.op = r.op /\ y.chunk = r.chunk
          /\ y.pc = r.pc /\ y.inode = r.inode /\ y.at = r.at
      <3>1. no \in BOOLEAN
        BY <2>1
      <3>. QED  BY <3>1 DEF CallState
    <2>3. GivenUp(r) = y /\ y = [r EXCEPT !.heard = FALSE] /\ ~no
      BY <1>2, <2>1, Zenon DEF GivenUp
    <2> HIDE DEF y
    <2>. QED  BY <1>2, <2>2, <2>3
  <1>. QED  BY <1>1, <1>2

\* The caller's leaving keeps the life of a call in order.
LEMMA GivenUpLife ==
  ASSUME NEW r \in CallState, NEW ch, NEW ch2, Life(r, ch)
  PROVE  Life(GivenUp(r), ch2)
  <1> DEFINE y == GivenUp(r)
  <1>1. /\ y \in CallState /\ ~y.heard /\ y.pc # "answered"
        /\ r.pc = "answered" => y = IdleCall
        /\ r.pc # "answered" => y.pc = r.pc /\ y = [r EXCEPT !.heard = FALSE]
    BY GivenUpFacts
  <1> HIDE DEF y
  <1>2. ASSUME r.pc = "idle"
        PROVE  y = IdleCall
    <2>1. r = IdleCall /\ y = [IdleCall EXCEPT !.heard = FALSE]
      BY <1>1, <1>2 DEF Life
    <2>. QED  BY <2>1 DEF IdleCall
  <1>3. Life(y, ch2)
    BY <1>1, <1>2 DEF Life
  <1>. QED  BY <1>3 DEF y

\* The record of a chunk that is not in use.
LEMMA NewChunkFacts == NewChunk \in ChunkState /\ NewChunk.phase = "none"
  <1>1. <<>> \in Data
    BY DataIsSeq
  <1>. QED  BY <1>1 DEF NewChunk, ChunkState

\* Restart: nobody listens any more, and every number is free.
LEMMA StepRestart ==
  ASSUME DataNodeInv, Restart
  PROVE  DataNodeInv'
  <1> USE InvFacts
  <1>1. MoreFaults
    BY FaultMore, DataNodeAssumption DEF Restart
  <1>2. FilesCalm
    BY SameFilesCalm DEF Restart
  <1>3. NewChunk \in ChunkState /\ NewChunk.phase = "none"
    BY NewChunkFacts
  <1>4. chunk' \in [Chunks -> ChunkState] /\ \A m \in Chunks : chunk'[m] = NewChunk
    BY <1>3 DEF Restart
  <1>5. \A d \in Calls : call'[d] = GivenUp(call[d])
    BY DEF Restart
  <1>6. ASSUME NEW d \in Calls
        PROVE  /\ call'[d] \in CallState /\ ~call'[d].heard /\ call'[d].pc # "answered"
               /\ HandleStep(d) /\ Life(call'[d], chunk')
    <2>1. call[d] \in CallState /\ Life(call[d], chunk)
      BY DEF LifeInv
    <2>2. /\ call'[d] \in CallState /\ ~call'[d].heard /\ call'[d].pc # "answered"
          /\ call[d].pc = "answered" => call'[d] = IdleCall
          /\ call[d].pc # "answered" =>
               /\ call'[d].op = call[d].op /\ call'[d].chunk = call[d].chunk
               /\ call'[d].pc = call[d].pc /\ call'[d].inode = call[d].inode
               /\ call'[d].at = call[d].at
      BY <1>5, <2>1, GivenUpFacts
    <2>3. HandleStep(d)
      <3>1. CASE call[d].pc = "answered"
        BY <2>2, <3>1, IdleFacts DEF HandleStep
      <3>2. CASE call[d].pc # "answered"
        BY <2>2, <3>2, HandleStays
      <3>. QED  BY <3>1, <3>2
    <2>4. Life(call'[d], chunk')
      BY <1>5, <2>1, GivenUpLife
    <2>. QED  BY <2>2, <2>3, <2>4
  <1>7. call' \in [Calls -> CallState]
    BY <1>6 DEF Restart
  <1>8. \A m \in Chunks : UploadInv(m)' /\ StoredInv(m)'
    BY <1>3, <1>4 DEF UploadInv, StoredInv
  <1>9. \A d \in Calls : ReadInv(d)' /\ GoneInv(d)'
    BY <1>6 DEF ReadInv, GoneInv
  <1>. QED  BY <1>1, <1>2, <1>4, <1>6, <1>7, <1>8, <1>9, CallerStep

\* Crash: an upload one of whose calls dies fails, the rest is untouched.
LEMMA StepCrash ==
  ASSUME DataNodeInv, NEW S \in SUBSET Calls, Crash(S)
  PROVE  DataNodeInv'
  <1> USE InvFacts
  <1>1. /\ MoreFaults /\ chunk' = chunk /\ dir' = dir
        /\ chunk' \in [Chunks -> ChunkState]
    BY FaultMore, DataNodeAssumption DEF Crash
  <1>2. FilesCalm
    BY <1>1, ReclaimCalm DEF Crash
  <1>3. \A d \in Calls : call'[d] = IF d \notin S THEN call[d]
                                    ELSE Left(call[d], "UNAVAILABLE")
    BY DEF Crash, Left
  <1>4. ASSUME NEW d \in Calls
        PROVE  /\ d \notin S => call'[d] = call[d]
               /\ d \in S => /\ call[d].pc \in {"sent", "open"}
                             /\ call'[d].pc # "open"
                             /\ call'[d].inode = 0 /\ call'[d].at = 0
               /\ d \in S /\ call[d].heard =>
                    /\ call'[d].op = call[d].op /\ call'[d].chunk = call[d].chunk
                    /\ call'[d].pc = "answered" /\ call'[d].heard
                    /\ call'[d].data = call[d].data /\ call'[d].status = "UNAVAILABLE"
               /\ d \in S /\ ~call[d].heard => call'[d] = IdleCall
               /\ call'[d] \in CallState
    <2>1. call[d] \in CallState
      OBVIOUS
    <2>2. CASE d \in S
      <3>1. call[d].pc \in {"sent", "open"}
        BY <2>2 DEF Crash
      <3>2. call'[d] = Left(call[d], "UNAVAILABLE")
        BY <1>3, <2>2
      <3>. QED  BY <2>1, <2>2, <3>1, <3>2, LeftFacts
    <2>3. CASE d \notin S
      BY <1>3, <2>1, <2>3
    <2>. QED  BY <2>2, <2>3
  <1>5. call' \in [Calls -> CallState]
    BY <1>4 DEF Crash
  <1>6. ASSUME NEW d \in Calls
        PROVE  HandleStep(d) /\ Life(call'[d], chunk')
    <2>1. Life(call[d], chunk) /\ Life(IdleCall, chunk)
      BY IdleFacts DEF LifeInv, Life
    <2>2. CASE d \notin S
      BY <1>1, <1>4, <2>1, <2>2, HandleStays
    <2>3. CASE d \in S
      <3>1. HandleStep(d)
        BY <1>4, <2>3 DEF HandleStep
      <3>2. CASE call[d].heard
        <4>1. Life(call'[d], chunk)
          BY <1>4, <2>1, <2>3, <3>2 DEF Life
        <4>. QED  BY <1>1, <3>1, <4>1
      <3>3. CASE ~call[d].heard
        BY <1>1, <1>4, <2>1, <2>3, <3>1, <3>3
      <3>. QED  BY <3>2, <3>3
    <2>. QED  BY <2>2, <2>3
  <1>7. ASSUME NEW m \in Chunks
        PROVE  /\ Awaited(m)' = Awaited(m)
               /\ \A d \in Writers(m)' : d \in Writers(m) /\ call'[d] = call[d]
    <2>1. Awaited(m)' = Awaited(m)
      BY <1>4, IdleFacts DEF Awaited
    <2>2. ASSUME NEW d \in Writers(m)'
          PROVE  d \in Writers(m) /\ call'[d] = call[d]
      <3>1. d \in Calls /\ call'[d].pc \in {"sent", "open"}
        BY DEF Writers
      <3>2. d \notin S
        BY <1>4, <3>1, IdleFacts
      <3>. QED  BY <1>4, <3>1, <3>2 DEF Writers
    <2>. QED  BY <2>1, <2>2
  <1>8. ASSUME NEW m \in Chunks
        PROVE  UploadInv(m)' /\ StoredInv(m)'
    <2>1. FileKept(m) /\ UploadInv(m) /\ StoredInv(m) /\ chunk'[m] = chunk[m]
      BY <1>1, <1>2, CalmFileKept DEF DataNodeInv
    <2>2. StoredInv(m)'
      <3>1. faults'["write"] = 0 => faults["write"] = 0
        BY <1>1, DataNodeAssumption DEF MoreFaults
      <3>. QED  BY <1>7, <2>1, <3>1 DEF StoredInv, FileKept
    <2>3. UploadInv(m)'
      <3> SUFFICES ASSUME chunk[m].phase = "uploading", ~chunk[m].stale, ~chunk[m].broken
                   PROVE  UploadInv(m)'
        BY <2>1 DEF UploadInv
      <3>1. /\ Awaited(m) # {} /\ \A d \in Writers(m) : d \in Awaited(m)
            /\ \A d \in Awaited(m) : call[d].data = chunk[m].data
        BY <2>1 DEF UploadInv
      <3>2. CASE \A d \in Awaited(m) : d \notin S
        <4>1. \A d \in Awaited(m) : call'[d] = call[d]
          BY <1>4, <3>2 DEF Awaited
        <4>2. Writers(m)' = Writers(m)
          BY <1>7, <3>1, <4>1 DEF Writers
        <4>3. CallsKept(m)
          BY <1>7, <3>1, <4>1, <4>2 DEF CallsKept
        <4>. QED  BY <1>1, <2>1, <4>3, UploadKept
      <3>3. CASE \E d \in Awaited(m) : d \in S
        <4>1. PICK d \in Awaited(m) : d \in S
          BY <3>3
        <4>2. call'[d].pc = "answered" /\ call'[d].status # "OK"
          BY <1>4, <4>1 DEF Awaited
        <4>3. \A e \in Awaited(m) : call'[e].data = chunk[m].data
          BY <1>4, <3>1 DEF Awaited
        <4>. QED  BY <1>7, <2>1, <3>1, <4>1, <4>2, <4>3 DEF UploadInv
      <3>. QED  BY <3>2, <3>3
    <2>. QED  BY <2>2, <2>3
  <1>9. ASSUME NEW d \in Calls
        PROVE  ReadInv(d)' /\ GoneInv(d)'
    <2>1. CASE d \notin S
      <3>1. call'[d] = call[d]
        BY <1>4, <2>1
      <3>. QED  BY <1>1, <1>2, <3>1, OthersRead, OthersGone
    <2>2. CASE d \in S /\ call[d].heard
      BY <1>4, <2>2 DEF ReadInv, GoneInv
    <2>3. CASE d \in S /\ ~call[d].heard
      BY <1>4, <2>3, IdleFacts DEF ReadInv, GoneInv
    <2>. QED  BY <2>1, <2>2, <2>3
  <1>. QED  BY <1>1, <1>2, <1>5, <1>6, <1>8, <1>9, CallerStep

\* CallBreaks.
LEMMA StepCallBreaks ==
  ASSUME DataNodeInv, NEW c \in Calls, CallBreaks(c)
  PROVE  DataNodeInv'
  <1> USE InvFacts
  <1> DEFINE y == GivenUp(call[c])
  <1>1. PICK k \in Chunks : call[c].chunk = k
    BY CallFields
  <1>2. /\ call[c].heard /\ dir' = dir
        /\ call' = [call EXCEPT ![c] = y] /\ call'[c] = y
    BY DEF CallBreaks
  <1>3. MoreFaults /\ FilesCalm
    BY FaultMore, SameFilesCalm, DataNodeAssumption DEF CallBreaks
  <1>4. /\ y \in CallState /\ ~y.heard /\ y.pc # "answered"
        /\ call[c].pc = "answered" => y = IdleCall
        /\ call[c].pc # "answered" =>
             /\ y.op = call[c].op /\ y.chunk = k /\ y.pc = call[c].pc
             /\ y.inode = call[c].inode /\ y.at = call[c].at
    <2>1. call[c] \in CallState
      OBVIOUS
    <2>. QED  BY <1>1, <2>1, GivenUpFacts
  <1>5. Life(y, chunk')
    <2>1. call[c] \in CallState /\ Life(call[c], chunk)
      BY DEF LifeInv
    <2>. QED  BY <2>1, GivenUpLife
  <1> HIDE DEF y
  <1>6. /\ call' \in [Calls -> CallState]
        /\ \A d \in Calls \ {c} : call'[d] = call[d]
    BY <1>2, <1>4
  <1>7. /\ chunk' \in [Chunks -> ChunkState]
        /\ \A m \in Chunks : /\ chunk'[m].phase = chunk[m].phase
                             /\ chunk'[m].data = chunk[m].data
                             /\ chunk'[m].stale = chunk[m].stale
                             /\ m # k => chunk'[m] = chunk[m]
        /\ call[c].op = "put" => chunk'[k].broken
        /\ call[c].op # "put" => chunk' = chunk
    <2>1. CASE call[c].op # "put"
      BY <2>1 DEF CallBreaks
    <2>2. CASE call[c].op = "put"
      <3> DEFINE z == [chunk[k] EXCEPT !.broken = TRUE]
      <3>1. chunk' = [chunk EXCEPT ![k] = z]
        BY <1>1, <2>2 DEF CallBreaks
      <3>2. /\ z \in ChunkState /\ z.phase = chunk[k].phase /\ z.data = chunk[k].data
            /\ z.stale = chunk[k].stale /\ z.broken
        BY DEF ChunkState
      <3> HIDE DEF z
      <3>. QED  BY <2>2, <3>1, <3>2
    <2>. QED  BY <2>1, <2>2
  <1>8. \A d \in Calls : HandleStep(d)
    <2>1. HandleStep(c)
      <3>1. CASE call[c].pc = "answered"
        BY <1>2, <1>4, <3>1, IdleFacts DEF HandleStep
      <3>2. CASE call[c].pc # "answered"
        BY <1>1, <1>2, <1>4, <3>2, HandleStays
      <3>. QED  BY <3>1, <3>2
    <2>2. \A d \in Calls \ {c} : HandleStep(d)
      BY <1>6, HandleStays
    <2>. QED  BY <2>1, <2>2
  <1>9. \A d \in Calls : Life(call'[d], chunk')
    <2>1. ASSUME NEW d \in Calls \ {c}
          PROVE  Life(call'[d], chunk')
      <3>1. Life(call[d], chunk) /\ call[d].chunk \in Chunks /\ call'[d] = call[d]
        BY <1>6, CallFields DEF LifeInv
      <3>2. chunk'[call[d].chunk].phase = chunk[call[d].chunk].phase
        BY <1>7, <3>1
      <3>. QED  BY <3>1, <3>2 DEF Life
    <2>. QED  BY <1>2, <1>5, <2>1
  <1>10. ASSUME NEW m \in Chunks
         PROVE  UploadInv(m)' /\ StoredInv(m)'
    <2>1. CASE m # k
      <3>1. CallsKept(m)
        <4>1. Plain(y) \/ y.chunk # m
          BY <1>4, <2>1, IdleFacts DEF Plain
        <4>2. Plain(call[c]) \/ call[c].chunk # m
          BY <1>1, <2>1
        <4>. QED  BY <1>2, <4>1, <4>2, PlainCallsKept
      <3>. QED  BY <1>2, <1>3, <1>7, <2>1, <3>1, ChunkStays
    <2>2. CASE m = k /\ call[c].op = "put"
      <3>1. chunk[k].phase = "uploading"
        BY <1>1, <1>2, <2>2 DEF LifeInv, Life
      <3>. QED  BY <1>7, <2>2, <3>1 DEF UploadInv, StoredInv
    <2>3. CASE m = k /\ call[c].op = "get"
      <3>1. Plain(call[c]) /\ Plain(y)
        BY <1>4, <2>3, IdleFacts DEF Plain
      <3>2. CallsKept(m)
        BY <1>2, <3>1, PlainCallsKept
      <3>. QED  BY <1>2, <1>3, <1>7, <2>3, <3>2, ChunkStays
    <2>4. CASE m = k /\ call[c].op = "delete"
      <3>1. chunk[k].phase = "deleted" /\ chunk' = chunk
        BY <1>1, <1>2, <1>7, <2>4 DEF LifeInv, Life
      <3>2. UploadInv(k)'
        BY <3>1 DEF UploadInv
      <3>3. FileKept(k) /\ StoredInv(k)
        BY <1>2, <1>3, CalmFileKept DEF DataNodeInv
      <3>4. \A d \in Writers(k)' : d \in Writers(k) /\ call'[d].op = call[d].op
        BY <1>1, <1>2, <1>4, <1>6, <2>4, IdleFacts DEF Writers
      <3>5. faults'["write"] = 0 => faults["write"] = 0
        BY <1>3, DataNodeAssumption DEF MoreFaults
      <3>6. StoredInv(k)'
        BY <3>1, <3>3, <3>4, <3>5 DEF StoredInv, FileKept
      <3>. QED  BY <2>4, <3>2, <3>6
    <2>5. call[c].op \in {"put", "get", "delete"}
      BY CallFields
    <2>. QED  BY <2>1, <2>2, <2>3, <2>4, <2>5
  <1>11. ASSUME NEW d \in Calls
         PROVE  ReadInv(d)' /\ GoneInv(d)'
    <2>1. CASE d # c
      <3>1. call'[d] = call[d] /\ call[d].chunk \in Chunks
        BY <1>6, <2>1, CallFields
      <3>2. /\ chunk'[call[d].chunk].data = chunk[call[d].chunk].data
            /\ chunk'[call[d].chunk].stale = chunk[call[d].chunk].stale
        BY <1>7, <3>1
      <3>. QED  BY <1>3, <3>1, <3>2, OthersRead, OthersGone
    <2>2. CASE d = c
      BY <1>2, <1>4, <2>2 DEF ReadInv, GoneInv
    <2>. QED  BY <2>1, <2>2
  <1>. QED  BY <1>3, <1>6, <1>7, <1>8, <1>9, <1>10, <1>11, CallerStep

\* Remove.
LEMMA StepRemove ==
  ASSUME DataNodeInv, NEW k \in Chunks, NEW c \in Calls, Remove(k, c)
  PROVE  DataNodeInv'
  <1> USE InvFacts
  <1> DEFINE y == Request("delete", k, <<>>)
             z == [chunk[k] EXCEPT !.phase = "deleted"]
  <1>1. /\ chunk[k].phase \in {"stored", "deleted"} /\ call[c].pc = "idle" /\ dir' = dir
        /\ call' = [call EXCEPT ![c] = y] /\ call'[c] = y
        /\ chunk' = [chunk EXCEPT ![k] = z]
    BY DEF Remove
  <1>2. MoreFaults /\ FilesCalm
    BY NoFaultMore, SameFilesCalm DEF Remove
  <1>3. /\ y \in CallState /\ y.op = "delete" /\ y.chunk = k /\ y.pc = "sent"
        /\ y.heard /\ y.inode = 0 /\ y.at = 0
    <2>1. <<>> \in Data
      BY DataIsSeq
    <2>. QED  BY <2>1, RequestFacts
  <1>4. /\ z \in ChunkState /\ z.phase = "deleted" /\ z.data = chunk[k].data
        /\ z.stale = chunk[k].stale
    BY DEF ChunkState
  <1> HIDE DEF y, z
  <1>5. /\ call' \in [Calls -> CallState] /\ chunk' \in [Chunks -> ChunkState]
        /\ \A d \in Calls \ {c} : call'[d] = call[d]
        /\ chunk'[k] = z /\ \A m \in Chunks \ {k} : chunk'[m] = chunk[m]
        /\ \A m \in Chunks : /\ chunk'[m].data = chunk[m].data
                             /\ chunk'[m].stale = chunk[m].stale
    BY <1>1, <1>3, <1>4
  <1>6. \A d \in Calls : HandleStep(d)
    <2>1. HandleStep(c)
      BY <1>1, <1>3 DEF HandleStep
    <2>2. \A d \in Calls \ {c} : HandleStep(d)
      BY <1>5, HandleStays
    <2>. QED  BY <2>1, <2>2
  <1>7. ASSUME NEW d \in Calls
        PROVE  Life(call'[d], chunk')
    <2>1. CASE d = c
      BY <1>1, <1>3, <1>4, <1>5, <2>1 DEF Life
    <2>2. CASE d # c
      <3>1. Life(call[d], chunk) /\ call[d].chunk \in Chunks /\ call'[d] = call[d]
        BY <1>5, <2>2, CallFields DEF LifeInv
      <3>2. CASE call[d].chunk = k
        BY <1>1, <1>4, <1>5, <3>1, <3>2 DEF Life
      <3>3. CASE call[d].chunk # k
        BY <1>5, <3>1, <3>3 DEF Life
      <3>. QED  BY <3>2, <3>3
    <2>. QED  BY <2>1, <2>2
  <1>8. Plain(call[c])
    BY <1>1, IdleFacts DEF Plain, LifeInv, Life
  <1>9. ASSUME NEW m \in Chunks
        PROVE  UploadInv(m)' /\ StoredInv(m)'
    <2>1. CASE m # k
      <3>1. CallsKept(m)
        BY <1>1, <1>3, <1>8, <2>1, PlainCallsKept
      <3>. QED  BY <1>1, <1>2, <1>5, <2>1, <3>1, ChunkStays
    <2>2. CASE m = k
      <3>1. FileKept(k) /\ StoredInv(k)
        BY <1>1, <1>2, CalmFileKept DEF DataNodeInv
      <3>2. \A d \in Writers(k)' : d = c \/ (d \in Writers(k) /\ call'[d].op = call[d].op)
        BY <1>5 DEF Writers
      <3>3. faults'["write"] = 0 => faults["write"] = 0
        BY <1>2, DataNodeAssumption DEF MoreFaults
      <3>4. StoredInv(k)'
        <4>1. ASSUME ~chunk[k].stale
              PROVE  \A d \in Writers(k)' : call'[d].op = "delete"
          BY <1>1, <1>3, <3>1, <3>2, <4>1 DEF StoredInv
        <4>2. ASSUME ~chunk[k].stale, faults'["write"] = 0, Exists(k)'
              PROVE  Content(k)' = chunk[k].data
          BY <1>1, <3>1, <3>3, <4>2 DEF StoredInv, FileKept
        <4>. QED  BY <1>4, <1>5, <4>1, <4>2 DEF StoredInv
      <3>5. UploadInv(k)'
        BY <1>4, <1>5 DEF UploadInv
      <3>. QED  BY <2>2, <3>4, <3>5
    <2>. QED  BY <2>1, <2>2
  <1>10. ASSUME NEW d \in Calls
         PROVE  ReadInv(d)' /\ GoneInv(d)'
    <2>1. CASE d # c
      <3>1. call'[d] = call[d] /\ call[d].chunk \in Chunks
        BY <1>5, <2>1, CallFields
      <3>2. /\ chunk'[call[d].chunk].data = chunk[call[d].chunk].data
            /\ chunk'[call[d].chunk].stale = chunk[call[d].chunk].stale
        BY <1>5, <3>1
      <3>. QED  BY <1>2, <3>1, <3>2, OthersRead, OthersGone
    <2>2. CASE d = c
      BY <1>1, <1>3, <2>2 DEF ReadInv, GoneInv
    <2>. QED  BY <2>1, <2>2
  <1>. QED  BY <1>2, <1>5, <1>6, <1>7, <1>9, <1>10, CallerStep

\* Upload: the calls are new, and alone unless the chunk is stale.
LEMMA StepUpload ==
  ASSUME DataNodeInv, NEW k \in Chunks, NEW x \in Contents, NEW S \in SUBSET Calls,
         Upload(k, x, S)
  PROVE  DataNodeInv'
  <1> USE InvFacts
  <1> DEFINE y == Request("put", k, x)
  <1>1. /\ chunk[k].phase = "none" /\ dir' = dir
        /\ \A d \in S : call[d].pc = "idle"
        /\ \A d \in Calls : call'[d] = IF d \in S THEN y ELSE call[d]
    BY DEF Upload
  <1>2. MoreFaults /\ FilesCalm
    BY NoFaultMore, SameFilesCalm DEF Upload
  <1>3. x \in Data
    BY ContentIsData
  <1>4. /\ y \in CallState /\ y.op = "put" /\ y.chunk = k /\ y.pc = "sent"
        /\ y.heard /\ y.data = x /\ y.inode = 0 /\ y.at = 0
    BY <1>3, RequestFacts
  <1> HIDE DEF y
  <1>5. PICK z \in ChunkState :
          /\ z.phase = "uploading" /\ z.data = x /\ (z.stale <=> Writers(k) # {})
          /\ chunk' = [chunk EXCEPT ![k] = z]
    <2>1. PICK b \in BOOLEAN : b <=> Writers(k) # {}
      OBVIOUS
    <2> DEFINE z1 == [NewChunk EXCEPT !.phase = "uploading", !.data = x]
               z == [z1 EXCEPT !.stale = b]
    <2>2. chunk' = [chunk EXCEPT ![k] = [NewChunk EXCEPT !.phase = "uploading",
                      !.data = x, !.stale = b]]
      <3>1. b = (Writers(k) # {})
        BY <2>1, Zenon
      <3>. QED  BY <3>1 DEF Upload
    <2>3. chunk' = [chunk EXCEPT ![k] = z]
      BY <2>2
    <2>4. z1 \in ChunkState /\ z1.phase = "uploading" /\ z1.data = x
      BY <1>3, NewChunkFacts DEF ChunkState
    <2>5. z \in ChunkState /\ z.phase = "uploading" /\ z.data = x /\ (z.stale <=> Writers(k) # {})
      <3> HIDE DEF z1
      <3>. QED  BY <2>1, <2>4 DEF ChunkState
    <2> HIDE DEF z
    <2>. QED  BY <2>3, <2>5
  <1>6. chunk' \in [Chunks -> ChunkState] /\ chunk'[k] = z
        /\ \A m \in Chunks \ {k} : chunk'[m] = chunk[m]
    BY <1>5
  <1>7. call' \in [Calls -> CallState]
    BY <1>1, <1>4 DEF Upload
  <1>8. \A d \in S : d \in Calls /\ call[d] = IdleCall /\ call'[d] = y
    BY <1>1 DEF LifeInv, Life
  <1>9. \A d \in Calls \ S : call'[d] = call[d]
    BY <1>1
  <1>10. \A d \in Calls : HandleStep(d)
    <2>1. \A d \in S : HandleStep(d)
      BY <1>4, <1>8 DEF HandleStep
    <2>2. \A d \in Calls \ S : HandleStep(d)
      BY <1>9, HandleStays
    <2>. QED  BY <2>1, <2>2
  <1>11. \A d \in Calls : call[d].chunk = k => ~call[d].heard /\ call[d].pc # "answered"
    <2>1. \A d \in Calls : Life(call[d], chunk) /\ call[d].op \in {"put", "get", "delete"}
      BY CallFields DEF LifeInv
    <2>. QED  BY <1>1, <2>1 DEF Life
  <1>12. ASSUME NEW d \in Calls
         PROVE  Life(call'[d], chunk')
    <2>1. CASE d \in S
      BY <1>4, <1>5, <1>6, <1>8, <2>1 DEF Life
    <2>2. CASE d \notin S
      <3>1. Life(call[d], chunk) /\ call[d].chunk \in Chunks /\ call'[d] = call[d]
        BY <1>9, <2>2, CallFields DEF LifeInv
      <3>2. CASE call[d].chunk = k
        BY <1>11, <3>1, <3>2 DEF Life
      <3>3. CASE call[d].chunk # k
        BY <1>6, <3>1, <3>3 DEF Life
      <3>. QED  BY <3>2, <3>3
    <2>. QED  BY <2>1, <2>2
  <1>13. ASSUME NEW m \in Chunks \ {k}
         PROVE  UploadInv(m)' /\ StoredInv(m)'
    <2>1. \A d \in S : d \notin Writers(m) /\ d \notin Awaited(m)
      BY <1>8, IdleFacts DEF Writers, Awaited
    <2>2. \A d \in S : d \notin Writers(m)' /\ d \notin Awaited(m)'
      BY <1>4, <1>8 DEF Writers, Awaited
    <2>3. Writers(m)' = Writers(m) /\ \A d \in Writers(m) : call'[d] = call[d]
      BY <1>9, <2>1, <2>2 DEF Writers
    <2>4. Awaited(m)' = Awaited(m) /\ \A d \in Awaited(m) : call'[d] = call[d]
      BY <1>9, <2>1, <2>2 DEF Awaited
    <2>5. CallsKept(m)
      BY <2>3, <2>4 DEF CallsKept
    <2>. QED  BY <1>1, <1>2, <1>6, <2>5, ChunkStays
  <1>14. UploadInv(k)' /\ StoredInv(k)'
    <2>1. StoredInv(k)'
      BY <1>5, <1>6 DEF StoredInv
    <2>2. Awaited(k)' = S
      BY <1>4, <1>8, <1>9, <1>11 DEF Awaited
    <2>3. ASSUME ~z.stale
          PROVE  \A d \in Writers(k)' : d \in S
      BY <1>5, <1>9, <2>3 DEF Writers
    <2>4. S # {}
      <3>1. Cardinality(S) = Replicas /\ Replicas # 0
        BY DataNodeAssumption DEF Upload
      <3>2. Cardinality({}) = 0
        BY FS_EmptySet
      <3>. QED  BY <3>1, <3>2
    <2>5. \A d \in S : call'[d].data = x /\ call'[d].pc = "sent"
      BY <1>4, <1>8
    <2>6. UploadInv(k)'
      BY <1>5, <1>6, <2>2, <2>3, <2>4, <2>5 DEF UploadInv
    <2>. QED  BY <2>1, <2>6
  <1>15. ASSUME NEW d \in Calls
         PROVE  ReadInv(d)' /\ GoneInv(d)'
    <2>1. CASE d \in S
      BY <1>4, <1>8, <2>1 DEF ReadInv, GoneInv
    <2>2. CASE d \notin S /\ call[d].chunk = k
      BY <1>9, <1>11, <2>2 DEF ReadInv, GoneInv
    <2>3. CASE d \notin S /\ call[d].chunk # k
      <3>1. call'[d] = call[d] /\ chunk'[call[d].chunk] = chunk[call[d].chunk]
        BY <1>6, <1>9, <2>3, CallFields
      <3>. QED  BY <1>2, <3>1, OthersRead, OthersGone
    <2>. QED  BY <2>1, <2>2, <2>3
  <1>16. \A m \in Chunks : UploadInv(m)' /\ StoredInv(m)'
    BY <1>13, <1>14
  <1>. QED  BY <1>2, <1>6, <1>7, <1>10, <1>12, <1>15, <1>16, CallerStep

\* Joined: when every call said OK, the file is whole.
LEMMA StepJoined ==
  ASSUME DataNodeInv, NEW k \in Chunks, Joined(k)
  PROVE  DataNodeInv'
  <1> USE InvFacts
  <1>1. PICK S : S = Awaited(k)
    OBVIOUS
  <1>2. PICK p \in {"stored", "failed"} :
          /\ chunk' = [chunk EXCEPT ![k].phase = p]
          /\ p = "stored" => ~chunk[k].broken /\ \A d \in S : call[d].status = "OK"
    <2>1. CASE ~chunk[k].broken /\ \A d \in Awaited(k) : call[d].status = "OK"
      BY <1>1, <2>1 DEF Joined
    <2>2. CASE ~(~chunk[k].broken /\ \A d \in Awaited(k) : call[d].status = "OK")
      BY <1>1, <2>2 DEF Joined
    <2>. QED  BY <2>1, <2>2
  <1>3. /\ chunk[k].phase = "uploading" /\ dir' = dir
        /\ \A d \in S : call[d].pc = "answered"
        /\ \A d \in Calls : call'[d] = IF d \in S THEN IdleCall ELSE call[d]
    BY <1>1 DEF Joined
  <1>4. MoreFaults /\ FilesCalm
    BY NoFaultMore, SameFilesCalm DEF Joined
  <1> DEFINE z == [chunk[k] EXCEPT !.phase = p]
  <1>5. chunk' = [chunk EXCEPT ![k] = z]
    BY <1>2
  <1>6. /\ z \in ChunkState /\ z.phase = p /\ z.data = chunk[k].data
        /\ z.stale = chunk[k].stale
    BY DEF ChunkState
  <1> HIDE DEF z
  <1>7. /\ chunk' \in [Chunks -> ChunkState] /\ chunk'[k] = z
        /\ \A m \in Chunks \ {k} : chunk'[m] = chunk[m]
        /\ \A m \in Chunks : /\ chunk'[m].data = chunk[m].data
                             /\ chunk'[m].stale = chunk[m].stale
    BY <1>5, <1>6
  <1>8. call' \in [Calls -> CallState]
    BY <1>1, <1>3, IdleFacts DEF Joined
  <1>9. /\ \A d \in S : /\ d \in Calls /\ call'[d] = IdleCall /\ call[d].chunk = k
                        /\ call[d].pc = "answered"
        /\ \A d \in Calls \ S : call'[d] = call[d]
    BY <1>1, <1>3 DEF Awaited
  <1>10. \A d \in Calls : HandleStep(d)
    <2>1. \A d \in S : HandleStep(d)
      BY <1>9, IdleFacts DEF HandleStep
    <2>2. \A d \in Calls \ S : HandleStep(d)
      BY <1>9, HandleStays
    <2>. QED  BY <2>1, <2>2
  <1>11. ASSUME NEW d \in Calls
         PROVE  Life(call'[d], chunk')
    <2>1. CASE d \in S
      BY <1>9, <2>1, IdleFacts DEF Life
    <2>2. CASE d \notin S
      <3>1. /\ Life(call[d], chunk) /\ call[d].chunk \in Chunks /\ call'[d] = call[d]
            /\ call[d].op \in {"put", "get", "delete"}
        BY <1>9, <2>2, CallFields DEF LifeInv
      <3>2. CASE call[d].chunk = k
        <4>1. ~call[d].heard
          BY <1>1, <1>3, <2>2, <3>1, <3>2 DEF Life, Awaited
        <4>. QED  BY <3>1, <4>1 DEF Life
      <3>3. CASE call[d].chunk # k
        BY <1>7, <3>1, <3>3 DEF Life
      <3>. QED  BY <3>2, <3>3
    <2>. QED  BY <2>1, <2>2
  <1>12. ASSUME NEW m \in Chunks \ {k}
         PROVE  UploadInv(m)' /\ StoredInv(m)'
    <2>1. \A d \in S : d \notin Writers(m) /\ d \notin Awaited(m)
      BY <1>9 DEF Writers, Awaited
    <2>2. \A d \in S : d \notin Writers(m)' /\ d \notin Awaited(m)'
      BY <1>9, IdleFacts DEF Writers, Awaited
    <2>3. Writers(m)' = Writers(m) /\ \A d \in Writers(m) : call'[d] = call[d]
      BY <1>9, <2>1, <2>2 DEF Writers
    <2>4. Awaited(m)' = Awaited(m) /\ \A d \in Awaited(m) : call'[d] = call[d]
      BY <1>9, <2>1, <2>2 DEF Awaited
    <2>5. CallsKept(m)
      BY <2>3, <2>4 DEF CallsKept
    <2>. QED  BY <1>3, <1>4, <1>7, <2>5, ChunkStays
  <1>13. UploadInv(k)'
    BY <1>2, <1>6, <1>7 DEF UploadInv
  <1>14. StoredInv(k)'
    <2> SUFFICES ASSUME p = "stored", ~chunk[k].stale
                 PROVE  StoredInv(k)'
      BY <1>2, <1>6, <1>7 DEF StoredInv
    <2> DEFINE x == chunk[k].data
    <2>1. UploadInv(k) /\ FileKept(k)
      BY <1>3, <1>4, CalmFileKept DEF DataNodeInv
    <2>2. S # {} /\ \A d \in Writers(k) : d \in S
      BY <1>1, <1>2, <1>3, <2>1 DEF UploadInv
    <2>3. Writers(k) = {}
      BY <1>9, <2>2 DEF Writers
    <2>4. Writers(k)' = {}
      BY <1>9, <2>3, IdleFacts DEF Writers
    <2>5. ASSUME faults'["write"] = 0
          PROVE  Exists(k) /\ Content(k) = x
      <3>1. faults["write"] = 0
        BY <1>4, <2>5, DataNodeAssumption DEF MoreFaults
      <3>2. Exists(k) /\ Covered(k, x)
        BY <1>1, <1>2, <1>3, <2>1, <2>2, <3>1 DEF UploadInv
      <3>3. Content(k) \in Data /\ x \in Data
        BY <3>2 DEF Exists, Content, FilesOK, Range, ChunkState
      <3>4. Len(Content(k)) \in Nat /\ Len(x) \in Nat
        BY <3>3, DataFacts
      <3>5. /\ Len(Content(k)) <= Len(x)
            /\ \A j \in 1..Len(x) : j <= Len(Content(k)) /\ Content(k)[j] = x[j]
        BY <2>3, <3>2 DEF Covered
      <3>6. Len(Content(k)) = Len(x)
        <4>1. CASE Len(x) = 0
          BY <3>4, <3>5, <4>1
        <4>2. CASE Len(x) # 0
          <5>1. Len(x) \in 1..Len(x)
            BY <3>4, <4>2
          <5>. QED  BY <3>4, <3>5, <5>1
        <4>. QED  BY <4>1, <4>2
      <3>. QED  BY <3>2, <3>3, <3>5, <3>6, DataEqual
    <2>. QED  BY <1>2, <1>6, <1>7, <2>1, <2>4, <2>5 DEF StoredInv, FileKept
  <1>15. ASSUME NEW d \in Calls
         PROVE  ReadInv(d)' /\ GoneInv(d)'
    <2>1. CASE d \in S
      BY <1>9, <2>1, IdleFacts DEF ReadInv, GoneInv
    <2>2. CASE d \notin S
      <3>1. call'[d] = call[d] /\ call[d].chunk \in Chunks
        BY <1>9, <2>2, CallFields
      <3>2. /\ chunk'[call[d].chunk].data = chunk[call[d].chunk].data
            /\ chunk'[call[d].chunk].stale = chunk[call[d].chunk].stale
        BY <1>7, <3>1
      <3>. QED  BY <1>4, <3>1, <3>2, OthersRead, OthersGone
    <2>. QED  BY <2>1, <2>2
  <1>16. \A m \in Chunks : UploadInv(m)' /\ StoredInv(m)'
    BY <1>12, <1>13, <1>14
  <1>. QED  BY <1>4, <1>7, <1>8, <1>10, <1>11, <1>15, <1>16, CallerStep

(***************************************************************************)
(* The theorems.                                                           *)
(***************************************************************************)

LEMMA DataNodeInvInit ==
  ASSUME Init
  PROVE  DataNodeInv
  <1>1. /\ \A c \in Calls : call[c] = IdleCall
        /\ \A k \in Chunks : chunk[k] = NewChunk
        /\ DOMAIN dir = {} /\ DOMAIN inodes = {}
    BY DEF Init
  <1>2. TypeOK
    <2>1. IsInjective(dir) /\ Range(dir) \subseteq DOMAIN inodes
      BY <1>1 DEF IsInjective, Range
    <2>2. call \in [Calls -> CallState] /\ chunk \in [Chunks -> ChunkState]
      BY IdleFacts, NewChunkFacts DEF Init
    <2>3. faults \in [FaultKinds -> Nat]
      BY DEF Init
    <2>. QED  BY <1>1, <2>1, <2>2, <2>3 DEF TypeOK
  <1>3. HandleInv /\ LifeInv
    BY <1>1, IdleFacts DEF HandleInv, LifeInv, Life
  <1>4. \A k \in Chunks : UploadInv(k) /\ StoredInv(k)
    BY <1>1, NewChunkFacts DEF UploadInv, StoredInv
  <1>5. \A c \in Calls : ReadInv(c) /\ GoneInv(c)
    BY <1>1, IdleFacts DEF ReadInv, GoneInv
  <1>. QED  BY <1>2, <1>3, <1>4, <1>5 DEF DataNodeInv

LEMMA DataNodeInvStutter ==
  ASSUME DataNodeInv, UNCHANGED vars
  PROVE  DataNodeInv'
  <1> USE DEF vars
  <1>1. TypeOK' /\ HandleInv' /\ LifeInv'
    BY DEF DataNodeInv, TypeOK, HandleInv, LifeInv
  <1>2. MoreFaults /\ FilesCalm
    BY InvFacts, NoFaultMore, SameFilesCalm
  <1>3. \A k \in Chunks : CallsKept(k)
    BY DEF CallsKept, Writers, Awaited
  <1>4. \A k \in Chunks : UploadInv(k)' /\ StoredInv(k)'
    BY <1>2, <1>3, ChunkStays
  <1>5. \A c \in Calls : ReadInv(c)' /\ GoneInv(c)'
    BY <1>2, OthersRead, OthersGone
  <1>. QED  BY <1>1, <1>4, <1>5 DEF DataNodeInv

LEMMA DataNodeInvNext ==
  ASSUME DataNodeInv, [Next]_vars
  PROVE  DataNodeInv'
  <1>1. ASSUME NEW k \in Chunks, NEW x \in Contents, NEW S \in SUBSET Calls,
               Upload(k, x, S)
        PROVE  DataNodeInv'
    BY <1>1, StepUpload
  <1>2. ASSUME NEW k \in Chunks, Joined(k)
        PROVE  DataNodeInv'
    BY <1>2, StepJoined
  <1>3. ASSUME NEW k \in Chunks, NEW c \in Calls, Read(k, c) \/ Remove(k, c)
        PROVE  DataNodeInv'
    BY <1>3, StepRead, StepRemove
  <1>4. ASSUME NEW c \in Calls, Returned(c) \/ CallBreaks(c)
        PROVE  DataNodeInv'
    BY <1>4, StepReturned, StepCallBreaks
  <1>5. ASSUME NEW c \in Calls, Handler(c)
        PROVE  DataNodeInv'
    BY <1>5, StepPutOpen, StepPutWrite, StepPutClose, StepGetOpen, StepGetPiece,
       StepGetTail, StepDeleteChunk DEF Handler
  <1>6. ASSUME Restart
        PROVE  DataNodeInv'
    BY <1>6, StepRestart
  <1>7. ASSUME NEW S \in SUBSET Calls, Crash(S)
        PROVE  DataNodeInv'
    BY <1>7, StepCrash
  <1>8. CASE UNCHANGED vars
    BY <1>8, DataNodeInvStutter
  <1>. QED  BY <1>1, <1>2, <1>3, <1>4, <1>5, <1>6, <1>7, <1>8 DEF Next

\* Whatever calls overlap, break or die with their data node: handles, names,
\* uploads, stored chunks and downloads stay as the invariant says.
THEOREM DataNodeInvariant == Spec => []DataNodeInv
  <1>1. Init => DataNodeInv
    BY DataNodeInvInit
  <1>2. DataNodeInv /\ [Next]_vars => DataNodeInv'
    BY DataNodeInvNext
  <1>. QED  BY <1>1, <1>2, PTL DEF Spec

\* The directory names each inode at most once and never one that has been
\* freed, and every file, call and chunk has its type.
THEOREM DataNodeTypeCorrect == Spec => []TypeOK
  <1>1. DataNodeInv => TypeOK
    BY DEF DataNodeInv
  <1>. QED  BY <1>1, DataNodeInvariant, PTL

\* A chunk whose PutChunk calls all said OK is in its file, whole: the calls
\* of its replicas, which truncate and write the same file, do not undo each
\* other (no write failed, no older call was still at the file).
THEOREM DataNodeStoredIntact == Spec => []StoredIntact
  <1>1. DataNodeInv => StoredIntact
    BY DEF DataNodeInv, StoredIntact, StoredInv
  <1>. QED  BY <1>1, DataNodeInvariant, PTL

\* A GetChunk call answered OK has the whole chunk, whatever the size of its
\* pieces and whether or not the file was unlinked between two of them.
THEOREM DataNodeReadsWhole == Spec => []ReadsWhole
  <1>1. ASSUME DataNodeInv
        PROVE  ReadsWhole
    <2>1. \A c \in Calls : ReadInv(c) /\ (call[c].pc = "answered" => call[c].heard)
      BY <1>1 DEF DataNodeInv, LifeInv, Life
    <2>. QED  BY <2>1 DEF ReadsWhole, ReadInv
  <1>. QED  BY <1>1, DataNodeInvariant, PTL

\* After a DeleteChunk call answered OK no later step of any other call brings
\* the file of the chunk back (unlinking did not fail, no older call runs).
THEOREM DataNodeDeletedGone == Spec => []DeletedGone
  <1>1. DataNodeInv => DeletedGone
    BY DEF DataNodeInv, DeletedGone, GoneInv
  <1>. QED  BY <1>1, DataNodeInvariant, PTL
=============================================================================
