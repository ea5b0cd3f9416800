----------------------- MODULE CoordinatorDurability -----------------------
(***************************************************************************)
(* What is on the disks: every replica of every chunk of an active file,   *)
(* the chunks an upload has sent so far, and, until the grace period is    *)
(* over, the chunks of a file that a download still reads.  And so what a  *)
(* download can count on: it delivers the right data, and as long as there *)
(* were fewer failures than a chunk has homes it finds a replica.          *)
(***************************************************************************)
EXTENDS CoordinatorChunks, FiniteSetTheorems

(***************************************************************************)
(* The inductive invariant.  bad is the number of short writes that were   *)
(* acknowledged, ds and iss are disks and issued.                          *)
(***************************************************************************)

\* Replica j of chunk i of a file with these data and chunks: its content is
\* what was uploaded if it is there (Sound), and it is there (Good).
Sound(data, cs, i, j, ds, iss, bad) ==
  LET disk == ds[iss[cs[i].node_ids[j]]]
  IN  bad = 0 /\ cs[i].chunk_id \in DOMAIN disk
        => disk[cs[i].chunk_id] = Slice(data, i)
Good(data, cs, i, j, ds, iss, bad) ==
  /\ cs[i].chunk_id \in DOMAIN ds[iss[cs[i].node_ids[j]]]
  /\ Sound(data, cs, i, j, ds, iss, bad)

FileSafe(m, ds, iss, bad) ==
  /\ Len(m.chunks) = NumChunks(m.data)
  /\ \A i \in 1..Len(m.chunks), j \in 1..ReplicationFactor :
       Good(m.data, m.chunks, i, j, ds, iss, bad)

\* Every chunk before the one that is being sent is on its disks.  Of that
\* one nothing is known once a task has failed: two replicas may be on the
\* same node, and the failed call may have cut the file of the other.
UploadSafe(x, ds, iss, bad) ==
  /\ x.pc = "placing" =>
       \A i \in 1..Len(x.chunks), j \in 1..ReplicationFactor :
         Good(x.data, x.chunks, i, j, ds, iss, bad)
  /\ x.pc = "sending" =>
       /\ \A i \in 1..(Len(x.chunks) - 1), j \in 1..ReplicationFactor :
            Good(x.data, x.chunks, i, j, ds, iss, bad)
       /\ (\A j \in 1..ReplicationFactor : x.tasks[j] # "failed") =>
            \A j \in 1..ReplicationFactor : x.tasks[j] = "ok" =>
              Good(x.data, x.chunks, Len(x.chunks), j, ds, iss, bad)

\* After the grace period chunks may be gone, but none is wrong.
ReaderSafe(x, now, ds, iss, bad) ==
  x.pc = "reading" /\ ~x.ub =>
    /\ Len(x.meta.chunks) = NumChunks(x.meta.data)
    /\ \A i \in 1..Len(x.meta.chunks), j \in 1..ReplicationFactor :
         /\ Sound(x.meta.data, x.meta.chunks, i, j, ds, iss, bad)
         /\ now - x.began <= TOMBSTONE_LIFETIME =>
              Good(x.meta.data, x.meta.chunks, i, j, ds, iss, bad)

\* The first k units of the data.
Upto(data, k) == SubSeq(data, 1, IF k < Len(data) THEN k ELSE Len(data))

\* What a download has sent to its client.
SentSafe(x, bad) ==
  /\ x.pc = "reading" /\ ~x.ub =>
       /\ x.at <= Len(x.meta.chunks) + 1
       /\ bad = 0 /\ ~x.short
            => x.data = Upto(x.meta.data, (x.at - 1) * ChunkSize)
  /\ bad = 0 /\ x.status = "OK" /\ ~x.ub /\ ~x.short => x.data = x.meta.data

FilesSafe ==
  \A p \in Paths : entries[p] # NoFile
    => FileSafe(entries[p], disks, issued, faults["write"])
UploadsSafe ==
  \A w \in Puts : UploadSafe(put[w], disks, issued, faults["write"])
ReadersSafe ==
  \A r \in Gets : ReaderSafe(get[r], clock, disks, issued, faults["write"])
AnswersSafe == \A r \in Gets : SentSafe(get[r], faults["write"])

DurInv == ChunkInv /\ FilesSafe /\ UploadsSafe /\ ReadersSafe /\ AnswersSafe

(***************************************************************************)
(* Contents.                                                               *)
(***************************************************************************)

\* Chunk by chunk, the data come together.
LEMMA UptoFacts ==
  ASSUME NEW d \in Data
  PROVE  /\ Upto(d, 0) = <<>>
         /\ \A i \in 1..NumChunks(d) :
              Upto(d, (i - 1) * ChunkSize) \o Slice(d, i)
                = Upto(d, i * ChunkSize)
         /\ Upto(d, NumChunks(d) * ChunkSize) = d
         /\ NumChunks(d) \in Nat
  <1> DEFINE n == Len(d)
             s == ChunkSize
  <1>1. PICK U : d \in Seq(U)
    BY DataSeq
  <1>2. n \in Nat /\ s \in Nat \ {0}
    BY <1>1, CoordinatorAssumption
  <1> DEFINE q == (n + s - 1) \div s
  <1>3. q \in Nat /\ q * s >= n /\ (q - 1) * s < n
    <2> DEFINE r == (n + s - 1) % s
    <2>1. q \in Nat /\ r \in 0..(s - 1) /\ n + s - 1 = s * q + r
      BY <1>2
    <2> HIDE DEF q, r
    <2>2. s * q = q * s /\ (q - 1) * s = q * s - s
      BY <1>2, <2>1
    <2>. QED  BY <1>2, <2>1, <2>2
  <1>4. NumChunks(d) = q
    BY DEF NumChunks
  <1> HIDE DEF q
  <1>5. Upto(d, 0) = <<>>
    BY <1>1, <1>2 DEF Upto
  <1>6. Upto(d, q * s) = d
    <2>1. ~(q * s < n)
      BY <1>2, <1>3
    <2>2. Upto(d, q * s) = SubSeq(d, 1, n)
      BY <2>1 DEF Upto
    <2>. QED  BY <1>1, <2>2, SubSeqFull
  <1>7. ASSUME NEW i \in 1..q
        PROVE  Upto(d, (i - 1) * s) \o Slice(d, i) = Upto(d, i * s)
    <2> DEFINE a == (i - 1) * s
               b == IF a + s < n THEN a + s ELSE n
    <2>1. a \in Nat /\ i * s = a + s
      BY <1>2, <1>3
    <2>2. a < n
      <3>1. a <= (q - 1) * s
        BY <1>2, <1>3
      <3>. QED  BY <1>2, <1>3, <2>1, <3>1
    <2>3. Slice(d, i) = SubSeq(d, a + 1, b)
      BY DEF Slice
    <2>4. Upto(d, a) = SubSeq(d, 1, a)
      BY <2>2 DEF Upto
    <2>5. Upto(d, i * s) = SubSeq(d, 1, b)
      BY <2>1 DEF Upto
    <2>6. a \in 0..n /\ b \in a..n
      BY <1>2, <2>1, <2>2
    <2> HIDE DEF a, b
    <2>7. SubSeq(d, 1, a) \o SubSeq(d, a + 1, b) = SubSeq(d, 1, b)
      BY <1>1, <1>2, <2>6, ConcatAdjacentSubSeq
    <2>. QED  BY <2>3, <2>4, <2>5, <2>7 DEF a
  <1>. QED  BY <1>3, <1>4, <1>5, <1>6, <1>7

(***************************************************************************)
(* Steps that leave chunks alone.                                          *)
(***************************************************************************)

\* The disks have the same to say about these chunks.
Undisturbed(cs) ==
  \A i \in 1..Len(cs), j \in 1..ReplicationFactor :
    LET id == cs[i].node_ids[j]
        k == cs[i].chunk_id
    IN  /\ issued'[id] = issued[id]
        /\ k \in DOMAIN disks'[issued[id]] <=> k \in DOMAIN disks[issued[id]]
        /\ k \in DOMAIN disks[issued[id]]
             => disks'[issued[id]][k] = disks[issued[id]][k]

\* No acknowledged short write is forgotten.
BadStays == faults'["write"] = 0 => faults["write"] = 0

\* One replica of one chunk.
LEMMA ReplicaKept ==
  ASSUME NEW cs, Undisturbed(cs), BadStays, NEW data, NEW i \in 1..Len(cs),
         NEW j \in 1..ReplicationFactor
  PROVE  /\ Sound(data, cs, i, j, disks, issued, faults["write"])
              => Sound(data, cs, i, j, disks', issued', faults'["write"])
         /\ Good(data, cs, i, j, disks, issued, faults["write"])
              => Good(data, cs, i, j, disks', issued', faults'["write"])
  BY DEF Undisturbed, BadStays, Sound, Good

\* A whole file.
LEMMA FileKept ==
  ASSUME NEW m, Undisturbed(m.chunks), BadStays,
         FileSafe(m, disks, issued, faults["write"])
  PROVE  FileSafe(m, disks', issued', faults'["write"])
  BY ReplicaKept DEF FileSafe

\* The chunks of an upload.
LEMMA UploadKept ==
  ASSUME NEW x, Undisturbed(x.chunks), BadStays, Len(x.chunks) \in Nat,
         x.pc = "sending" => Len(x.chunks) # 0,
         UploadSafe(x, disks, issued, faults["write"])
  PROVE  UploadSafe(x, disks', issued', faults'["write"])
  <1>1. ASSUME x.pc = "sending"
        PROVE  /\ Len(x.chunks) \in 1..Len(x.chunks)
               /\ \A i \in 1..(Len(x.chunks) - 1) : i \in 1..Len(x.chunks)
    BY <1>1
  <1>2. ASSUME NEW i \in 1..Len(x.chunks), NEW j \in 1..ReplicationFactor,
               Good(x.data, x.chunks, i, j, disks, issued, faults["write"])
        PROVE  Good(x.data, x.chunks, i, j, disks', issued', faults'["write"])
    BY <1>2, ReplicaKept
  <1>. QED  BY <1>1, <1>2 DEF UploadSafe

\* The chunks a download reads.
LEMMA ReaderKept ==
  ASSUME NEW x, Undisturbed(x.meta.chunks), BadStays, clock \in Nat,
         clock' \in Nat, clock' >= clock, x.began \in Nat,
         ReaderSafe(x, clock, disks, issued, faults["write"])
  PROVE  ReaderSafe(x, clock', disks', issued', faults'["write"])
  <1>1. clock' - x.began <= TOMBSTONE_LIFETIME
          => clock - x.began <= TOMBSTONE_LIFETIME
    <2>1. TOMBSTONE_LIFETIME \in Nat
      BY CoordinatorAssumption
    <2>. QED  BY <2>1
  <1>. QED  BY <1>1, ReplicaKept DEF ReaderSafe

\* Nothing is disturbed when no disk changes.
LEMMA DisksStay ==
  ASSUME NEW cs, NEW a, Owned(cs, a, Ids), disks' = disks,
         \A id \in Ids : issued'[id] = issued[id]
  PROVE  Undisturbed(cs)
  BY DEF Owned, Undisturbed

\* The parts of the invariant, where the step disturbs none of their chunks.
LEMMA FilesKept ==
  ASSUME FilesSafe, BadStays,
         \A p \in Paths : entries'[p] # NoFile
           => entries'[p] = entries[p] /\ Undisturbed(entries[p].chunks)
  PROVE  FilesSafe'
  BY FileKept DEF FilesSafe

\* An upload at these points holds no chunk.
Chunkless(x) == x.pc \notin {"placing", "sending"}

\* Uploads whose chunks are undisturbed are as safe as before.
LEMMA UploadsKept ==
  ASSUME TypeInv, UploadsSafe, BadStays,
         \A w \in Puts : \/ put'[w] = put[w] /\ Undisturbed(put[w].chunks)
                         \/ Chunkless(put'[w])
  PROVE  UploadsSafe'
  <1> SUFFICES ASSUME NEW w \in Puts
               PROVE  UploadSafe(put'[w], disks', issued', faults'["write"])
    BY DEF UploadsSafe
  <1>1. CASE Chunkless(put'[w])
    BY <1>1 DEF UploadSafe, Chunkless
  <1>2. CASE put'[w] = put[w] /\ Undisturbed(put[w].chunks)
    <2>1. Len(put[w].chunks) \in Nat
      BY ListTypes
    <2>2. put[w].pc = "sending" => Len(put[w].chunks) # 0
      BY SendingChunk DEF TypeInv
    <2>3. UploadSafe(put[w], disks, issued, faults["write"])
      BY DEF UploadsSafe
    <2>4. UploadSafe(put[w], disks', issued', faults'["write"])
      BY <1>2, <2>1, <2>2, <2>3, UploadKept
    <2>. QED  BY <1>2, <2>4
  <1>. QED  BY <1>1, <1>2

\* So are downloads, as the grace period only runs out.
LEMMA ReadersKept ==
  ASSUME TypeInv, ReadersSafe, BadStays, ReadersGoOn,
         clock' \in Nat, clock' >= clock,
         \A r \in Gets : get[r].pc = "reading" /\ ~get[r].ub
                           => Undisturbed(get[r].meta.chunks)
  PROVE  ReadersSafe'
  <1> SUFFICES ASSUME NEW r \in Gets, get'[r].pc = "reading", ~get'[r].ub
               PROVE  ReaderSafe(get'[r], clock', disks', issued',
                                 faults'["write"])
    BY DEF ReadersSafe, ReaderSafe
  <1>1. /\ get[r].pc = "reading" /\ ~get[r].ub
        /\ get'[r].meta = get[r].meta /\ get'[r].began = get[r].began
    BY DEF ReadersGoOn
  <1>2. ReaderSafe(get[r], clock', disks', issued', faults'["write"])
    BY <1>1, GetFields, ReaderKept DEF ReadersSafe
  <1>. QED  BY <1>1, <1>2 DEF ReaderSafe

\* A download's answer stays, or it ends in an error.
AnswerKept(x, y) ==
  \/ /\ y.pc = x.pc /\ y.ub = x.ub /\ y.short = x.short
     /\ y.meta = x.meta /\ y.at = x.at
     /\ y.data = x.data /\ y.status = x.status
  \/ y.pc # "reading" /\ y.status # "OK"

\* What was sent stays what was sent.
LEMMA AnswersKept ==
  ASSUME AnswersSafe, BadStays, \A r \in Gets : AnswerKept(get[r], get'[r])
  PROVE  AnswersSafe'
  <1> SUFFICES ASSUME NEW r \in Gets
               PROVE  SentSafe(get'[r], faults'["write"])
    BY DEF AnswersSafe
  <1>1. SentSafe(get[r], faults["write"]) /\ AnswerKept(get[r], get'[r])
    BY DEF AnswersSafe
  <1>. QED  BY <1>1 DEF SentSafe, AnswerKept, BadStays

\* Steps that change no disk disturb no chunk.
Calm ==
  /\ disks' = disks
  /\ \A id \in Ids : issued'[id] = issued[id]
  /\ BadStays
  /\ clock' \in Nat /\ clock' >= clock

\* A calm step disturbs no chunk list.
LEMMA CalmLists ==
  ASSUME ChunkInv, Calm
  PROVE  /\ \A p \in Paths : entries[p] # NoFile
                               => Undisturbed(entries[p].chunks)
         /\ \A w \in Puts : Undisturbed(put[w].chunks)
         /\ \A r \in Gets : get[r].pc = "reading"
                               => Undisturbed(get[r].meta.chunks)
  BY DisksStay DEF ChunkInv, OwnedInv, Calm

\* A calm step that begins or ends requests keeps the invariant.
LEMMA DurCalm ==
  ASSUME DurInv, Calm, ReadersGoOn,
         \A p \in Paths : entries'[p] # NoFile => entries'[p] = entries[p],
         \A w \in Puts : put'[w] = put[w] \/ Chunkless(put'[w]),
         \A r \in Gets : AnswerKept(get[r], get'[r])
  PROVE  FilesSafe' /\ UploadsSafe' /\ ReadersSafe' /\ AnswersSafe'
  <1>1. ChunkInv /\ TypeInv /\ BadStays /\ clock' \in Nat /\ clock' >= clock
    BY DEF DurInv, ChunkInv, Calm
  <1>2. FilesSafe /\ UploadsSafe /\ ReadersSafe /\ AnswersSafe
    BY DEF DurInv
  <1>3. FilesSafe'
    BY <1>1, <1>2, CalmLists, FilesKept
  <1>4. UploadsSafe'
    BY <1>1, <1>2, CalmLists, UploadsKept
  <1>5. ReadersSafe'
    BY <1>1, <1>2, CalmLists, ReadersKept
  <1>6. AnswersSafe'
    BY <1>1, <1>2, AnswersKept
  <1>. QED  BY <1>3, <1>4, <1>5, <1>6

\* Most steps leave issued and the short writes alone.
LEMMA CalmStep ==
  ASSUME TypeInv, disks' = disks, issued' = issued, clock' = clock,
         faults' = faults \/ \E k \in {"call", "write", "read", "stream"} :
                               UNCHANGED registryVars /\ Registry!Fault(k)
  PROVE  Calm
  <1>1. clock \in Nat
    BY ListTypes
  <1>2. BadStays
    BY FaultKeepsRegistry DEF BadStays, TypeInv
  <1>. QED  BY <1>1, <1>2 DEF Calm

(***************************************************************************)
(* Uploads.                                                                *)
(***************************************************************************)

\* A download none of whose variables change.
LEMMA ReadersSame ==
  ASSUME get' = get
  PROVE  ReadersGoOn /\ \A r \in Gets : AnswerKept(get[r], get'[r])
  BY DEF ReadersGoOn, AnswerKept

\* The next chunk has been numbered and no replica of it was written yet.
LEMMA DurPutPlace ==
  ASSUME DurInv, NEW w \in Puts, PutPlace(w)
  PROVE  FilesSafe' /\ UploadsSafe' /\ ReadersSafe' /\ AnswersSafe'
  <1>1. TypeInv /\ ChunkInv /\ UploadsSafe
    BY DEF DurInv, ChunkInv
  <1>2. PICK ids \in Registry!Selections :
          /\ Registry!selectNodesForReplication(ids)
          /\ \/ ids = <<>> /\ PutDone(w, "INTERNAL")
             \/ /\ ids # <<>>
                /\ put' = [put EXCEPT
                     ![w].pc = "sending",
                     ![w].chunks = Append(@, [chunk_id |-> chunk_id_counter,
                                              node_ids |-> ids]),
                     ![w].tasks = [i \in DOMAIN ids |-> "sent"]]
    BY DEF PutPlace
  <1>3. /\ entries' = entries /\ get' = get /\ disks' = disks /\ clock' = clock
        /\ issued' = issued /\ faults' = faults
    BY <1>2 DEF PutPlace, storeVars, Registry!selectNodesForReplication
  <1>4. Calm
    BY <1>1, <1>3, CalmStep
  <1>5. put \in [Puts -> PutState] /\ put[w].pc = "placing"
    BY <1>1 DEF TypeInv, PutInv, PutPlace
  <1>6. \A v \in Puts : v # w => put'[v] = put[v]
    BY <1>2, <1>5 DEF PutDone
  <1>7. CASE PutDone(w, "INTERNAL")
    <2>1. Chunkless(put'[w])
      BY <1>5, <1>7 DEF PutDone, IdlePut, Chunkless
    <2>. QED  BY <1>3, <1>4, <1>6, <2>1, ReadersSame, DurCalm
  <1>8. CASE ids # <<>> /\ ~PutDone(w, "INTERNAL")
    <2> DEFINE c == [chunk_id |-> chunk_id_counter, node_ids |-> ids]
               cs == put[w].chunks
    <2>1. /\ put'[w].pc = "sending" /\ put'[w].data = put[w].data
          /\ put'[w].chunks = Append(cs, c)
          /\ put'[w].tasks = [i \in DOMAIN ids |-> "sent"]
      BY <1>2, <1>5, <1>8 DEF PutState
    <2>2. cs \in Seq(ChunkInfo) /\ c \in ChunkInfo
      <3>1. ids \in Seq(Nat)
        BY <1>1, <1>8, SelectedIds DEF TypeInv
      <3>. QED  BY <1>1, <3>1, ListTypes DEF ChunkInfo
    <2> HIDE DEF c
    <2>3. /\ Len(put'[w].chunks) = Len(cs) + 1
          /\ \A i \in 1..Len(cs) : put'[w].chunks[i] = cs[i]
      BY <2>1, <2>2
    <2>4. DOMAIN ids = 1..ReplicationFactor
      BY <1>1, <1>8, SelectedIds DEF TypeInv
    <2>5. \A j \in 1..ReplicationFactor : put'[w].tasks[j] # "ok"
      BY <2>1, <2>4
    <2>6. \A i \in 1..Len(cs), j \in 1..ReplicationFactor :
            Good(put[w].data, cs, i, j, disks, issued, faults["write"])
      BY <1>1, <1>5 DEF UploadsSafe, UploadSafe
    <2>7. \A i \in 1..Len(cs), j \in 1..ReplicationFactor :
            Good(put[w].data, put'[w].chunks, i, j, disks, issued,
                 faults["write"])
      BY <2>3, <2>6 DEF Good, Sound
    <2>8. Len(put'[w].chunks) - 1 = Len(cs)
      BY <2>2, <2>3
    <2>9. UploadSafe(put'[w], disks, issued, faults["write"])
      BY <2>1, <2>5, <2>7, <2>8 DEF UploadSafe
    <2>10. UploadsSafe'
      BY <1>1, <1>3, <1>6, <2>9 DEF UploadsSafe
    <2>11. FilesSafe' /\ ReadersSafe' /\ AnswersSafe'
      BY <1>3 DEF DurInv, FilesSafe, ReadersSafe, AnswersSafe
    <2>. QED  BY <2>10, <2>11
  <1>. QED  BY <1>2, <1>7, <1>8

\* Every task of the chunk has ended.
LEMMA DurPutJoin ==
  ASSUME DurInv, NEW w \in Puts, PutJoin(w)
  PROVE  FilesSafe' /\ UploadsSafe' /\ ReadersSafe' /\ AnswersSafe'
  <1>1. TypeInv /\ ChunkInv /\ UploadsSafe
    BY DEF DurInv, ChunkInv
  <1>2. /\ entries' = entries /\ get' = get /\ disks' = disks /\ clock' = clock
        /\ issued' = issued /\ faults' = faults
    BY DEF PutJoin, storeVars, registryVars
  <1>3. Calm
    BY <1>1, <1>2, CalmStep
  <1>4. put \in [Puts -> PutState] /\ put[w].pc = "sending"
    BY <1>1 DEF TypeInv, PutInv, PutJoin
  <1>5. CASE PutDone(w, "INTERNAL")
    <2>1. Chunkless(put'[w]) /\ \A v \in Puts : v # w => put'[v] = put[v]
      BY <1>4, <1>5 DEF PutDone, IdlePut, Chunkless
    <2>. QED  BY <1>2, <1>3, <2>1, ReadersSame, DurCalm
  <1>6. CASE /\ Distributed(put[w].tasks)
             /\ put' = [put EXCEPT ![w].pc = "placing", ![w].tasks = <<>>]
    <2>1. /\ put'[w].pc = "placing" /\ put'[w].data = put[w].data
          /\ put'[w].chunks = put[w].chunks
          /\ \A v \in Puts : v # w => put'[v] = put[v]
      BY <1>4, <1>6 DEF PutState
    <2>2. \A j \in 1..ReplicationFactor : put[w].tasks[j] = "ok"
      BY <1>1, <1>4, <1>6, SendingChunk DEF Distributed, TypeInv
    <2>3. Len(put[w].chunks) \in Nat \ {0}
      BY <1>1, <1>4, SendingChunk DEF TypeInv
    <2>4. \A i \in 1..Len(put[w].chunks) :
            i \in 1..(Len(put[w].chunks) - 1) \/ i = Len(put[w].chunks)
      BY <2>3
    <2>5. \A i \in 1..Len(put[w].chunks), j \in 1..ReplicationFactor :
            Good(put[w].data, put[w].chunks, i, j, disks, issued,
                 faults["write"])
      BY <1>1, <1>4, <2>2, <2>4 DEF UploadsSafe, UploadSafe
    <2>6. UploadSafe(put'[w], disks, issued, faults["write"])
      BY <2>1, <2>5 DEF UploadSafe
    <2>7. UploadsSafe'
      BY <1>1, <1>2, <2>1, <2>6 DEF UploadsSafe
    <2>8. FilesSafe' /\ ReadersSafe' /\ AnswersSafe'
      BY <1>2 DEF DurInv, FilesSafe, ReadersSafe, AnswersSafe
    <2>. QED  BY <2>7, <2>8
  <1>. QED  BY <1>5, <1>6 DEF PutJoin

\* The file has the chunks of the upload, and all of them.
LEMMA DurPutCommit ==
  ASSUME DurInv, NEW w \in Puts, PutCommit(w)
  PROVE  FilesSafe' /\ UploadsSafe' /\ ReadersSafe' /\ AnswersSafe'
  <1>1. TypeInv /\ ChunkInv /\ UploadsSafe /\ FilesSafe
    BY DEF DurInv, ChunkInv
  <1> DEFINE m == [data |-> put[w].data, chunks |-> put[w].chunks]
             p == put[w].path
  <1>2. /\ entries' = [entries EXCEPT ![p] = m]
        /\ get' = get /\ disks' = disks /\ clock' = clock
        /\ issued' = issued /\ faults' = faults
    BY DEF PutCommit, Store!putFile, registryVars
  <1>3. /\ p \in Paths /\ entries \in [Paths -> FileMeta \cup {NoFile}]
        /\ put \in [Puts -> PutState] /\ put[w].pc = "placing"
        /\ Len(put[w].chunks) = NumChunks(put[w].data)
    BY <1>1 DEF TypeInv, PutInv, PutShape, PutCommit, SP!StoreInv, SP!TypeOK
  <1>4. Chunkless(put'[w]) /\ \A v \in Puts : v # w => put'[v] = put[v]
    BY <1>3 DEF PutCommit, PutDone, IdlePut, Chunkless
  <1>5. Calm
    BY <1>1, <1>2, CalmStep
  <1>6. FileSafe(m, disks, issued, faults["write"])
    BY <1>1, <1>3 DEF UploadsSafe, UploadSafe, FileSafe
  <1>7. entries'[p] = m /\ \A q \in Paths : q # p => entries'[q] = entries[q]
    BY <1>2, <1>3
  <1> HIDE DEF m, p
  <1>8. FilesSafe'
    BY <1>1, <1>2, <1>6, <1>7 DEF FilesSafe
  <1>9. UploadsSafe'
    BY <1>1, <1>4, <1>5, CalmLists, UploadsKept DEF Calm
  <1>10. ReadersSafe' /\ AnswersSafe'
    BY <1>2 DEF DurInv, ReadersSafe, AnswersSafe
  <1>. QED  BY <1>8, <1>9, <1>10

\* A step that changes no file but the ones of chunk k.
OnlyChunk(k) ==
  \A n \in Nodes, m \in Nat : m # k =>
    /\ m \in DOMAIN disks'[n] <=> m \in DOMAIN disks[n]
    /\ m \in DOMAIN disks[n] => disks'[n][m] = disks[n][m]

\* Writing one chunk of one upload disturbs nobody else's.
LEMMA OthersStay ==
  ASSUME TypeInv, issued' = issued, NEW k, OnlyChunk(k),
         NEW cs \in Seq(ChunkInfo), NEW a, Owned(cs, a, Ids),
         \A i \in 1..Len(cs) : cs[i].chunk_id # k
  PROVE  Undisturbed(cs)
  <1>1. \A id \in Ids : issued[id] \in Nodes
    BY DEF TypeInv, RP!RegistryInv, RP!TypeOK, Ids
  <1>2. \A i \in 1..Len(cs) : cs[i].chunk_id \in Nat
    BY ChunkNumbers
  <1>. QED  BY <1>1, <1>2 DEF OnlyChunk, Owned, Undisturbed

\* One replica has been written, in whole or in part, or the call failed.
LEMMA TaskOutcome ==
  ASSUME DurInv, NEW w \in Puts, NEW i \in DOMAIN put[w].tasks, PutTask(w, i)
  PROVE  LET n == Len(put[w].chunks)
             k == put[w].chunks[n].chunk_id
             id == put[w].chunks[n].node_ids[i]
         IN  /\ OnlyChunk(k) /\ BadStays
             /\ \/ put' = [put EXCEPT ![w].tasks[i] = "failed"]
                \/ \E y \in Data :
                     /\ put' = [put EXCEPT ![w].tasks[i] = "ok"]
                     /\ DOMAIN disks'[issued[id]]
                          = DOMAIN disks[issued[id]] \cup {k}
                     /\ disks'[issued[id]][k] = y
                     /\ \A m \in Nodes : m # issued[id] => disks'[m] = disks[m]
                     /\ faults'["write"] = 0 => y = Slice(put[w].data, n)
  <1> DEFINE n == Len(put[w].chunks)
             k == put[w].chunks[n].chunk_id
             id == put[w].chunks[n].node_ids[i]
             x == Slice(put[w].data, n)
  <1>1. TypeInv /\ PutInv /\ DiskInv /\ RP!RegistryInv
    BY DEF DurInv, ChunkInv, TypeInv
  <1>2. put[w].pc = "sending" /\ UNCHANGED registryVars
    BY DEF PutTask
  <1>3. k \in Nat /\ x \in Data
    BY <1>1, <1>2, SendingChunk
  <1> HIDE DEF x, k, id
  <1>4. BadStays
    BY <1>1, <1>2, FaultKeepsRegistry DEF PutTask, NoFault, BadStays
  <1>5. \/ /\ put' = [put EXCEPT ![w].tasks[i] = "ok"]
           /\ id \in DOMAIN registered_nodes
           /\ \E y \in Data : /\ WriteChunk(id, k, y)
                              /\ faults'["write"] = 0 => y = x
        \/ /\ put' = [put EXCEPT ![w].tasks[i] = "failed"]
           /\ \/ disks' = disks
              \/ /\ id \in DOMAIN registered_nodes
                 /\ \E y \in Data : WriteChunk(id, k, y)
    BY <1>1, <1>2, <1>3, PrefixData, FaultKeepsRegistry
    DEF PutTask, Reachable, TaskResult, x, k, id
  <1>6. ASSUME id \in DOMAIN registered_nodes, NEW y \in Data,
               WriteChunk(id, k, y)
        PROVE  /\ OnlyChunk(k)
               /\ DOMAIN disks'[issued[id]] = DOMAIN disks[issued[id]] \cup {k}
               /\ disks'[issued[id]][k] = y
               /\ \A m \in Nodes : m # issued[id] => disks'[m] = disks[m]
    <2>1. /\ DOMAIN disks'[issued[id]] = DOMAIN disks[issued[id]] \cup {k}
          /\ disks'[issued[id]][k] = y
          /\ \A m \in DOMAIN disks[issued[id]] :
               m # k => disks'[issued[id]][m] = disks[issued[id]][m]
          /\ \A m \in Nodes : m # issued[id] => disks'[m] = disks[m]
      BY <1>1, <1>3, <1>6, WriteFrame
    <2>. QED  BY <2>1 DEF OnlyChunk
  <1>7. disks' = disks => OnlyChunk(k)
    BY DEF OnlyChunk
  <1>. QED  BY <1>4, <1>5, <1>6, <1>7 DEF x, k, id

\* A write harms nobody else, and makes its replica good.
LEMMA DurPutTask ==
  ASSUME DurInv, NEW w \in Puts, NEW i \in DOMAIN put[w].tasks, PutTask(w, i)
  PROVE  FilesSafe' /\ UploadsSafe' /\ ReadersSafe' /\ AnswersSafe'
  <1> DEFINE n == Len(put[w].chunks)
             cs == put[w].chunks
             k == cs[n].chunk_id
             id == cs[n].node_ids[i]
  <1>1. TypeInv /\ ChunkInv /\ OwnedInv /\ DisjointInv /\ ReaderInv
        /\ FilesSafe /\ UploadsSafe /\ ReadersSafe /\ AnswersSafe
    BY DEF DurInv, ChunkInv
  <1>2. /\ entries' = entries /\ get' = get /\ clock' = clock
        /\ issued' = issued /\ put[w].pc = "sending"
    BY DEF PutTask, storeVars, registryVars
  <1>3. /\ OnlyChunk(k) /\ BadStays
        /\ \/ put' = [put EXCEPT ![w].tasks[i] = "failed"]
           \/ \E y \in Data :
                /\ put' = [put EXCEPT ![w].tasks[i] = "ok"]
                /\ DOMAIN disks'[issued[id]] = DOMAIN disks[issued[id]] \cup {k}
                /\ disks'[issued[id]][k] = y
                /\ \A m \in Nodes : m # issued[id] => disks'[m] = disks[m]
                /\ faults'["write"] = 0 => y = Slice(put[w].data, n)
    BY TaskOutcome
  <1>4. /\ cs \in Seq(ChunkInfo) /\ n \in Nat \ {0} /\ n = Len(cs)
        /\ put \in [Puts -> PutState]
        /\ DOMAIN put[w].tasks = 1..ReplicationFactor
        /\ put[w].tasks \in Seq({"sent", "ok", "failed"})
        /\ Owned(cs, chunk_id_counter, Ids)
    BY <1>1, <1>2, SendingChunk DEF TypeInv, PutInv, OwnedInv
  <1>5. ASSUME NEW ds \in Seq(ChunkInfo), Owned(ds, chunk_id_counter, Ids),
               Disjoint(ds, cs) \/ Disjoint(cs, ds)
        PROVE  Undisturbed(ds)
    <2>1. n \in 1..Len(cs)
      BY <1>4
    <2>2. \A j \in 1..Len(ds) : ds[j].chunk_id # k
      BY <1>5, <2>1 DEF Disjoint
    <2>. QED  BY <1>1, <1>2, <1>3, <1>5, <2>2, OthersStay
  <1>6. FilesSafe'
    <2>1. \A p \in Paths : entries[p] # NoFile => Undisturbed(entries[p].chunks)
      BY <1>1, <1>5, ListTypes DEF OwnedInv, DisjointInv
    <2>. QED  BY <1>1, <1>2, <1>3, <2>1, FilesKept
  <1>7. ReadersSafe'
    <2>1. \A r \in Gets : get[r].pc = "reading" /\ ~get[r].ub
                            => Undisturbed(get[r].meta.chunks)
      BY <1>1, <1>5, ListTypes DEF OwnedInv, ReaderInv
    <2>2. clock' \in Nat /\ clock' >= clock
      BY <1>1, <1>2, ListTypes
    <2>. QED  BY <1>1, <1>2, <1>3, <2>1, <2>2, ReadersSame, ReadersKept
  <1>8. AnswersSafe'
    BY <1>1, <1>2, <1>3, ReadersSame, AnswersKept
  <1>9. \A v \in Puts : v # w => put'[v] = put[v] /\ Undisturbed(put[v].chunks)
    <2>1. \A v \in Puts : v # w => put'[v] = put[v]
      BY <1>3, <1>4
    <2>2. \A v \in Puts : v # w => Undisturbed(put[v].chunks)
      BY <1>1, <1>5, ListTypes DEF OwnedInv, DisjointInv
    <2>. QED  BY <2>1, <2>2
  <1>10. /\ put'[w].pc = "sending" /\ put'[w].data = put[w].data
         /\ put'[w].chunks = cs
         /\ \/ put'[w].tasks = [put[w].tasks EXCEPT ![i] = "failed"]
            \/ put'[w].tasks = [put[w].tasks EXCEPT ![i] = "ok"]
    BY <1>2, <1>3, <1>4 DEF PutState
  <1>11. \A e \in 1..(n - 1), j \in 1..ReplicationFactor :
           Good(put[w].data, cs, e, j, disks', issued', faults'["write"])
    <2>1. \A e \in 1..(n - 1) :
            e \in 1..n /\ cs[e].chunk_id \in Nat /\ cs[e].chunk_id # k
      BY <1>4, ChunkNumbers DEF Owned
    <2>2. \A j \in Ids : issued[j] \in Nodes
      BY <1>1 DEF TypeInv, RP!RegistryInv, RP!TypeOK, Ids
    <2>3. \A e \in 1..(n - 1), j \in 1..ReplicationFactor :
            Good(put[w].data, cs, e, j, disks, issued, faults["write"])
            /\ cs[e].node_ids[j] \in Ids
      BY <1>1, <1>2, <1>4, <2>1 DEF UploadsSafe, UploadSafe, Owned
    <2>4. OnlyChunk(k) /\ BadStays /\ issued' = issued
      BY <1>2, <1>3
    <2> HIDE DEF k
    <2> SUFFICES ASSUME NEW e \in 1..(n - 1), NEW j \in 1..ReplicationFactor
                 PROVE  Good(put[w].data, cs, e, j, disks', issued',
                             faults'["write"])
      OBVIOUS
    <2>5. /\ cs[e].chunk_id \in Nat /\ cs[e].chunk_id # k
          /\ issued[cs[e].node_ids[j]] \in Nodes
          /\ Good(put[w].data, cs, e, j, disks, issued, faults["write"])
      BY <2>1, <2>2, <2>3
    <2> HIDE DEF cs, n
    <2>. QED  BY <2>4, <2>5 DEF OnlyChunk, Good, Sound, BadStays
  <1>12. ASSUME \A j \in 1..ReplicationFactor : put'[w].tasks[j] # "failed",
                NEW j \in 1..ReplicationFactor, put'[w].tasks[j] = "ok"
         PROVE  Good(put[w].data, cs, n, j, disks', issued', faults'["write"])
    <2>1. put'[w].tasks = [put[w].tasks EXCEPT ![i] = "ok"]
          /\ put' # [put EXCEPT ![w].tasks[i] = "failed"]
      <3>0. put[w] \in PutState /\ i \in DOMAIN put[w].tasks
        BY <1>4
      <3>1. ASSUME put' = [put EXCEPT ![w].tasks[i] = "failed"]
            PROVE  put'[w].tasks[i] = "failed"
        <4> DEFINE t == [put[w].tasks EXCEPT ![i] = "failed"]
        <4>1. t[i] = "failed"
          BY <3>0
        <4> HIDE DEF t
        <4>2. put'[w] = [put[w] EXCEPT !.tasks = t]
          BY <1>4, <3>1 DEF t
        <4>3. put'[w].tasks = t
          BY <3>0, <4>2 DEF PutState
        <4>. QED  BY <4>1, <4>3
      <3>2. put' # [put EXCEPT ![w].tasks[i] = "failed"]
        BY <1>4, <1>12, <3>1
      <3>3. put' = [put EXCEPT ![w].tasks[i] = "ok"]
        BY <1>3, <3>2
      <3>. QED  BY <1>4, <3>2, <3>3 DEF PutState
    <2>2. PICK y \in Data :
            /\ DOMAIN disks'[issued[id]] = DOMAIN disks[issued[id]] \cup {k}
            /\ disks'[issued[id]][k] = y
            /\ \A m \in Nodes : m # issued[id] => disks'[m] = disks[m]
            /\ faults'["write"] = 0 => y = Slice(put[w].data, n)
      BY <1>3, <2>1
    <2>4. put[w].tasks[i] = "sent"
      BY DEF PutTask
    <2>5. \A e \in 1..ReplicationFactor : put[w].tasks[e] # "failed"
      BY <1>4, <1>12, <2>1, <2>4
    <2>6. j # i => put[w].tasks[j] = "ok"
      BY <1>4, <1>12, <2>1
    <2>7. j # i => Good(put[w].data, cs, n, j, disks, issued, faults["write"])
      BY <1>1, <1>2, <2>5, <2>6 DEF UploadsSafe, UploadSafe
    <2>8. cs[n].node_ids[j] \in Ids /\ issued[cs[n].node_ids[j]] \in Nodes
      <3>1. n \in 1..Len(cs)
        BY <1>4
      <3>2. cs[n].node_ids[j] \in Ids
        BY <1>4, <3>1 DEF Owned
      <3>. QED  BY <1>1, <3>2 DEF TypeInv, RP!RegistryInv, RP!TypeOK, Ids
    <2>9. CASE issued[cs[n].node_ids[j]] = issued[id]
      BY <1>2, <2>2, <2>9 DEF Good, Sound
    <2>10. CASE issued[cs[n].node_ids[j]] # issued[id]
      <3>1. j # i /\ disks'[issued[cs[n].node_ids[j]]]
                       = disks[issued[cs[n].node_ids[j]]]
        BY <2>2, <2>8, <2>10
      <3>. QED  BY <1>2, <1>3, <2>7, <3>1 DEF Good, Sound, BadStays
    <2>. QED  BY <2>9, <2>10
  <1>13. UploadSafe(put'[w], disks', issued', faults'["write"])
    BY <1>10, <1>11, <1>12 DEF UploadSafe
  <1>14. ASSUME NEW v \in Puts, v # w
         PROVE  UploadSafe(put'[v], disks', issued', faults'["write"])
    <2>1. Len(put[v].chunks) \in Nat
      BY <1>1, ListTypes
    <2>2. put[v].pc = "sending" => Len(put[v].chunks) # 0
      BY <1>1, SendingChunk DEF TypeInv
    <2>3. UploadSafe(put[v], disks', issued', faults'["write"])
      BY <1>1, <1>3, <1>9, <1>14, <2>1, <2>2, UploadKept DEF UploadsSafe
    <2>. QED  BY <1>9, <1>14, <2>3
  <1>15. UploadsSafe'
    BY <1>13, <1>14 DEF UploadsSafe
  <1>. QED  BY <1>6, <1>7, <1>8, <1>15

(***************************************************************************)
(* Downloads.                                                              *)
(***************************************************************************)

\* The file a download opens is an active one, and whole.
LEMMA DurGetOpen ==
  ASSUME DurInv, NEW r \in Gets, GetOpen(r)
  PROVE  FilesSafe' /\ UploadsSafe' /\ ReadersSafe' /\ AnswersSafe'
  <1>1. TypeInv /\ FilesSafe /\ UploadsSafe /\ ReadersSafe /\ AnswersSafe
    BY DEF DurInv, ChunkInv
  <1>2. /\ entries' = entries /\ put' = put /\ disks' = disks /\ clock' = clock
        /\ issued' = issued /\ faults' = faults
    BY DEF GetOpen, storeVars, registryVars
  <1>3. PICK m \in FileMeta :
          /\ \/ get[r].dangling /\ (m = EmptyMeta \/ \E p \in Paths : m = entries[p])
             \/ ~get[r].dangling /\ m = entries[get[r].path]
                /\ get[r].path \in Paths
          /\ get' = [get EXCEPT ![r].pc = "reading", ![r].meta = m,
                                ![r].ub = get[r].dangling]
    BY <1>1, OpenedMeta
  <1>4. /\ get \in [Gets -> GetState] /\ get[r].pc = "found"
        /\ get[r].data = <<>> /\ get[r].at = 1 /\ get[r].status = "none"
    BY <1>1, GetFields DEF TypeInv, GetInv, GetShape, GetOpen
  <1>5. get'[r] = [get[r] EXCEPT !.pc = "reading", !.meta = m,
                                 !.ub = get[r].dangling]
        /\ \A s \in Gets : s # r => get'[s] = get[s]
    BY <1>3, <1>4
  <1>6. /\ get'[r].meta = m /\ get'[r].ub = get[r].dangling
        /\ get'[r].data = <<>> /\ get'[r].at = 1 /\ get'[r].status = "none"
    BY <1>4, <1>5 DEF GetState
  <1>7. m # NoFile
    BY CoordinatorAssumption
  <1>8. ~get'[r].ub => FileSafe(m, disks, issued, faults["write"])
    BY <1>1, <1>3, <1>6, <1>7 DEF FilesSafe
  <1>9. ReaderSafe(get'[r], clock, disks, issued, faults["write"])
    BY <1>6, <1>8 DEF FileSafe, ReaderSafe, Good
  <1>10. SentSafe(get'[r], faults["write"])
    <2>1. m.data \in Data /\ m.chunks \in Seq(ChunkInfo)
      BY DEF FileMeta
    <2>2. Upto(m.data, 0) = <<>>
      BY <2>1, UptoFacts
    <2>3. 1 <= Len(m.chunks) + 1 /\ (1 - 1) * ChunkSize = 0
      BY <2>1, CoordinatorAssumption
    <2>. QED  BY <1>6, <2>2, <2>3 DEF SentSafe
  <1>11. ReadersSafe' /\ AnswersSafe'
    BY <1>1, <1>2, <1>5, <1>9, <1>10 DEF ReadersSafe, AnswersSafe
  <1>12. FilesSafe' /\ UploadsSafe'
    BY <1>1, <1>2 DEF FilesSafe, UploadsSafe
  <1>. QED  BY <1>11, <1>12

\* What a replica serves is the slice of the file.
LEMMA ServedSlice ==
  ASSUME DurInv, NEW r \in Gets, GetTry(r), Served(r), ~get[r].ub,
         faults["write"] = 0
  PROVE  Answered(r) = Slice(get[r].meta.data, get[r].at)
  <1> DEFINE cs == get[r].meta.chunks
             i == get[r].at
             j == get[r].replica
  <1>1. TypeInv /\ OwnedInv /\ ReadersSafe
    BY DEF DurInv, ChunkInv
  <1>2. /\ get[r].pc = "reading" /\ i <= Len(cs)
        /\ j <= Len(cs[i].node_ids)
    BY DEF GetTry
  <1>3. i \in Nat \ {0} /\ j \in Nat \ {0} /\ cs \in Seq(ChunkInfo)
    BY <1>1, GetFields
  <1> HIDE DEF i, j
  <1>4. i \in 1..Len(cs)
    BY <1>2, <1>3
  <1>5. Len(cs[i].node_ids) = ReplicationFactor /\ ReplicationFactor \in Nat
    BY <1>1, <1>2, <1>4, CoordinatorAssumption DEF OwnedInv, Owned
  <1>6. j \in 1..ReplicationFactor
    BY <1>2, <1>3, <1>5
  <1>7. Sound(get[r].meta.data, cs, i, j, disks, issued, faults["write"])
    BY <1>1, <1>2, <1>4, <1>6 DEF ReadersSafe, ReaderSafe
  <1>8. AskedId(r) = cs[i].node_ids[j] /\ AskedChunk(r) = cs[i]
    BY DEF AskedId, AskedChunk, i, j
  <1>9. /\ AskedId(r) \in DOMAIN registered_nodes
        /\ Home(AskedId(r)) = issued[AskedId(r)]
    BY <1>1, HomeIssued DEF Served, Reachable, TypeInv
  <1>. QED  BY <1>7, <1>8, <1>9 DEF Sound, Answered, Served, i

\* The client has one slice more, or the download tries on, or ends.
LEMMA DurGetTry ==
  ASSUME DurInv, NEW r \in Gets, GetTry(r)
  PROVE  FilesSafe' /\ UploadsSafe' /\ ReadersSafe' /\ AnswersSafe'
  <1>1. TypeInv /\ ChunkInv /\ FilesSafe /\ UploadsSafe /\ ReadersSafe
        /\ AnswersSafe
    BY DEF DurInv, ChunkInv
  <1>2. /\ entries' = entries /\ put' = put /\ disks' = disks /\ clock' = clock
        /\ issued' = issued /\ UNCHANGED registryVars
    BY DEF GetTry, storeVars, registryVars
  <1>3. Calm
    BY <1>1, <1>2, CalmStep DEF GetTry, NoFault
  <1>4. BadStays /\ clock' \in Nat /\ clock' >= clock
    BY <1>3 DEF Calm
  <1>5. FilesSafe' /\ UploadsSafe' /\ ReadersSafe'
    BY <1>1, <1>2, <1>3, <1>4, CalmLists, FilesKept, UploadsKept,
       ReadersGoOnTry, ReadersKept
  <1>6. /\ get \in [Gets -> GetState] /\ get[r] \in GetState
        /\ get[r].pc = "reading" /\ get[r].status = "none"
        /\ get[r].at \in Nat \ {0} /\ get[r].at <= Len(get[r].meta.chunks)
        /\ get[r].meta.data \in Data /\ get[r].meta.chunks \in Seq(ChunkInfo)
    BY <1>1, GetFields DEF TypeInv, GetInv, GetTry, GetShape
  <1>7. PICK b \in BOOLEAN, t \in BOOLEAN, x \in Data :
          /\ b = (get[r].ub \/ ~BufferLive(get[r].meta))
          /\ \/ /\ Served(r)
                /\ (x = Answered(r) /\ t = get[r].short) \/ t = TRUE
                /\ get' = [get EXCEPT ![r] =
                     [get[r] EXCEPT !.data = @ \o x, !.at = @ + 1,
                                    !.replica = 1, !.ub = b, !.short = t]]
             \/ get' = [get EXCEPT ![r] =
                          [get[r] EXCEPT !.replica = @ + 1, !.ub = b]]
             \/ get' = [get EXCEPT ![r] =
                          [get[r] EXCEPT !.pc = "done", !.status = "INTERNAL"]]
             \/ get' = [get EXCEPT ![r] =
                          [get[r] EXCEPT !.pc = "done", !.status = "INTERNAL",
                                         !.ub = TRUE]]
    BY <1>1, TryOutcome
  <1>8. \A s \in Gets : s # r => get'[s] = get[s]
    BY <1>6, <1>7
  <1>9. SentSafe(get[r], faults["write"])
    BY <1>1 DEF AnswersSafe
  <1>10. SentSafe(get'[r], faults'["write"])
    <2>1. CASE get' = [get EXCEPT ![r] =
                 [get[r] EXCEPT !.pc = "done", !.status = "INTERNAL"]]
               \/ get' = [get EXCEPT ![r] =
                 [get[r] EXCEPT !.pc = "done", !.status = "INTERNAL",
                                !.ub = TRUE]]
      <3>1. \/ get'[r] = [get[r] EXCEPT !.pc = "done", !.status = "INTERNAL"]
            \/ get'[r] = [get[r] EXCEPT !.pc = "done", !.status = "INTERNAL",
                                        !.ub = TRUE]
        BY <1>6, <2>1
      <3>2. get'[r].pc = "done" /\ get'[r].status = "INTERNAL"
        BY <1>6, <3>1 DEF GetState
      <3>. QED  BY <3>2 DEF SentSafe
    <2>2. CASE get' = [get EXCEPT ![r] =
                 [get[r] EXCEPT !.replica = @ + 1, !.ub = b]]
      <3>1. get'[r] = [get[r] EXCEPT !.replica = @ + 1, !.ub = b]
        BY <1>6, <2>2
      <3>2. /\ get'[r].pc = "reading" /\ get'[r].status = "none"
            /\ get'[r].at = get[r].at /\ get'[r].data = get[r].data
            /\ get'[r].meta = get[r].meta /\ get'[r].ub = b
            /\ get'[r].short = get[r].short
        BY <1>6, <3>1 DEF GetState
      <3>. QED  BY <1>4, <1>6, <1>7, <1>9, <3>2 DEF SentSafe, BadStays
    <2>3. CASE /\ Served(r)
               /\ (x = Answered(r) /\ t = get[r].short) \/ t = TRUE
               /\ get' = [get EXCEPT ![r] =
                    [get[r] EXCEPT !.data = @ \o x, !.at = @ + 1,
                                   !.replica = 1, !.ub = b, !.short = t]]
      <3>1. get'[r] = [get[r] EXCEPT !.data = @ \o x, !.at = @ + 1,
                                     !.replica = 1, !.ub = b, !.short = t]
        BY <1>6, <2>3
      <3>2. /\ get'[r].pc = "reading" /\ get'[r].status = "none"
            /\ get'[r].at = get[r].at + 1
            /\ get'[r].data = get[r].data \o x
            /\ get'[r].meta = get[r].meta /\ get'[r].ub = b
            /\ get'[r].short = t
        BY <1>6, <3>1 DEF GetState
      <3>3. get'[r].at <= Len(get[r].meta.chunks) + 1
            /\ get'[r].at - 1 = get[r].at
        BY <1>6, <3>2
      <3>4. ASSUME ~b, ~t, faults'["write"] = 0
            PROVE  get'[r].data = Upto(get[r].meta.data, get[r].at * ChunkSize)
        <4>0. x = Answered(r) /\ ~get[r].short
          BY <2>3, <3>4
        <4>1. ~get[r].ub /\ faults["write"] = 0
          BY <1>4, <1>7, <3>4 DEF BadStays
        <4>2. x = Slice(get[r].meta.data, get[r].at)
          BY <2>3, <4>0, <4>1, ServedSlice
        <4>3. get[r].data = Upto(get[r].meta.data, (get[r].at - 1) * ChunkSize)
          BY <1>6, <1>9, <4>0, <4>1 DEF SentSafe
        <4>4. get[r].at \in 1..NumChunks(get[r].meta.data)
          BY <1>1, <1>6, <4>1 DEF ReadersSafe, ReaderSafe
        <4>. QED  BY <1>6, <3>2, <4>2, <4>3, <4>4, UptoFacts
      <3>. QED  BY <3>2, <3>3, <3>4 DEF SentSafe
    <2>. QED  BY <1>7, <2>1, <2>2, <2>3
  <1>11. AnswersSafe'
    <2>1. ASSUME NEW s \in Gets, s # r
          PROVE  SentSafe(get'[s], faults'["write"])
      BY <1>1, <1>4, <1>8, <2>1 DEF AnswersSafe, SentSafe, BadStays
    <2>. QED  BY <1>10, <2>1 DEF AnswersSafe
  <1>. QED  BY <1>5, <1>11

\* At the end the client has the whole file.
LEMMA DurGetEnd ==
  ASSUME DurInv, NEW r \in Gets, GetEnd(r)
  PROVE  FilesSafe' /\ UploadsSafe' /\ ReadersSafe' /\ AnswersSafe'
  <1>1. TypeInv /\ ChunkInv /\ FilesSafe /\ UploadsSafe /\ ReadersSafe
        /\ AnswersSafe
    BY DEF DurInv, ChunkInv
  <1>2. /\ entries' = entries /\ put' = put /\ disks' = disks /\ clock' = clock
        /\ issued' = issued /\ faults' = faults
    BY DEF GetEnd, storeVars, registryVars
  <1>3. Calm
    BY <1>1, <1>2, CalmStep
  <1>4. BadStays /\ clock' \in Nat /\ clock' >= clock
    BY <1>3 DEF Calm
  <1>5. FilesSafe' /\ UploadsSafe' /\ ReadersSafe'
    BY <1>1, <1>2, <1>3, <1>4, CalmLists, FilesKept, UploadsKept,
       ReadersGoOnTry, ReadersKept
  <1>6. /\ get \in [Gets -> GetState] /\ get[r] \in GetState
        /\ get[r].pc = "reading"
        /\ get[r].at \in Nat \ {0}
        /\ get[r].meta.data \in Data /\ get[r].meta.chunks \in Seq(ChunkInfo)
    BY <1>1, GetFields DEF TypeInv, GetInv, GetEnd
  <1>7. PICK s : /\ GetDone(r, s)
                 /\ s = "OK" => get[r].at > Len(get[r].meta.chunks)
    BY DEF GetEnd
  <1>8. get'[r] = [get[r] EXCEPT !.pc = "done", !.status = s]
        /\ \A q \in Gets : q # r => get'[q] = get[q]
    BY <1>6, <1>7 DEF GetDone
  <1>9. /\ get'[r].pc = "done" /\ get'[r].status = s
        /\ get'[r].data = get[r].data /\ get'[r].meta = get[r].meta
        /\ get'[r].ub = get[r].ub /\ get'[r].short = get[r].short
    BY <1>6, <1>8 DEF GetState
  <1>10. ASSUME faults["write"] = 0, s = "OK", ~get[r].ub, ~get[r].short
         PROVE  get[r].data = get[r].meta.data
    <2>1. /\ get[r].at <= Len(get[r].meta.chunks) + 1
          /\ get[r].data = Upto(get[r].meta.data, (get[r].at - 1) * ChunkSize)
          /\ Len(get[r].meta.chunks) = NumChunks(get[r].meta.data)
      BY <1>1, <1>6, <1>10
      DEF AnswersSafe, SentSafe, ReadersSafe, ReaderSafe
    <2>2. get[r].at - 1 = NumChunks(get[r].meta.data)
      BY <1>6, <1>7, <1>10, <2>1
    <2>. QED  BY <1>6, <2>1, <2>2, UptoFacts
  <1>11. SentSafe(get'[r], faults["write"])
    BY <1>9, <1>10 DEF SentSafe
  <1>12. AnswersSafe'
    BY <1>1, <1>2, <1>8, <1>11 DEF AnswersSafe
  <1>. QED  BY <1>5, <1>12

(***************************************************************************)
(* The cleanup, and the environment.                                       *)
(***************************************************************************)

\* The chunk that goes is one of an aged tombstone: no file and no upload has
\* it, and a download that has it began a lifetime ago.
LEMMA DurCleanupDelete ==
  ASSUME DurInv, CleanupDelete
  PROVE  FilesSafe' /\ UploadsSafe' /\ ReadersSafe' /\ AnswersSafe'
  <1> DEFINE m == Store!Scanned.meta
             k == DeletionsOf(m)[cleaner.at].chunk_id
             id == DeletionsOf(m)[cleaner.at].node_id
  <1>1. TypeInv /\ ChunkInv /\ OwnedInv /\ DisjointInv /\ ReaderInv
        /\ FilesSafe /\ UploadsSafe /\ ReadersSafe /\ AnswersSafe
    BY DEF DurInv, ChunkInv
  <1>2. /\ entries' = entries /\ put' = put /\ get' = get /\ clock' = clock
        /\ issued' = issued /\ UNCHANGED registryVars
    BY DEF CleanupDelete, storeVars, registryVars, requestVars
  <1>3. BadStays
    BY <1>1, <1>2, FaultKeepsRegistry
    DEF CleanupDelete, NoFault, BadStays, TypeInv
  <1>4. k \in Nat /\ \E i \in 1..Len(m.chunks) : k = m.chunks[i].chunk_id
    BY <1>1, CleanupCall
  <1>5. PICK t \in 1..Len(deleted_entries) :
          /\ m = deleted_entries[t].meta
          /\ deleted_entries[t].delete_time \in Nat
          /\ scan.now - deleted_entries[t].delete_time > TOMBSTONE_LIFETIME
    BY <1>1, ScannedTombstone DEF CleanupDelete, Store!Aged
  <1>6. CASE disks' = disks
    <2>1. Calm
      BY <1>1, <1>2, <1>3, <1>6, ListTypes DEF Calm
    <2>. QED  BY <1>2, <2>1, ReadersSame, DurCalm
  <1>7. CASE id \in DOMAIN registered_nodes /\ RemoveChunk(id, k)
    <2> HIDE DEF m, k, id
    <2> DEFINE h == issued[id]
    <2>1. /\ DOMAIN disks'[h] = DOMAIN disks[h] \ {k}
          /\ \A x \in DOMAIN disks[h] : x # k => disks'[h][x] = disks[h][x]
          /\ \A n \in Nodes : n # h => disks'[n] = disks[n]
      BY <1>1, <1>4, <1>7, RemoveFrame DEF TypeInv
    <2>2. OnlyChunk(k)
      BY <2>1 DEF OnlyChunk
    <2>3. ASSUME NEW cs \in Seq(ChunkInfo), Owned(cs, chunk_id_counter, Ids),
                 Disjoint(cs, deleted_entries[t].meta.chunks)
                 \/ Disjoint(deleted_entries[t].meta.chunks, cs)
          PROVE  Undisturbed(cs)
      <3>1. \A i \in 1..Len(cs) : cs[i].chunk_id # k
        BY <1>4, <1>5, <2>3 DEF Disjoint
      <3>. QED  BY <1>1, <1>2, <2>2, <2>3, <3>1, OthersStay
    <2>4. FilesSafe'
      <3>1. \A p \in Paths :
              entries[p] # NoFile => Undisturbed(entries[p].chunks)
        BY <1>1, <2>3, ListTypes DEF OwnedInv, DisjointInv
      <3>. QED  BY <1>1, <1>2, <1>3, <3>1, FilesKept
    <2>5. UploadsSafe'
      <3>1. \A w \in Puts : Undisturbed(put[w].chunks)
        BY <1>1, <2>3, ListTypes DEF OwnedInv, DisjointInv
      <3>. QED  BY <1>1, <1>2, <1>3, <3>1, UploadsKept
    <2>6. AnswersSafe'
      BY <1>1, <1>2, <1>3, ReadersSame, AnswersKept
    <2>7. ASSUME NEW r \in Gets, get[r].pc = "reading", ~get[r].ub
          PROVE  ReaderSafe(get[r], clock', disks', issued', faults'["write"])
      <3> DEFINE cs == get[r].meta.chunks
                 d == get[r].meta.data
      <3>1. /\ cs \in Seq(ChunkInfo) /\ Owned(cs, chunk_id_counter, Ids)
            /\ get[r].began \in Nat /\ clock \in Nat
        BY <1>1, <2>7, ListTypes, GetFields DEF OwnedInv
      <3>2. ReaderSafe(get[r], clock, disks, issued, faults["write"])
        BY <1>1 DEF ReadersSafe
      <3>3. CASE Disjoint(cs, deleted_entries[t].meta.chunks)
        <4>1. Undisturbed(cs)
          BY <2>3, <3>1, <3>3
        <4>. QED  BY <1>2, <1>3, <3>1, <3>2, <4>1, ReaderKept
      <3>4. CASE deleted_entries[t].delete_time >= get[r].began
        <4>1. scan.now \in Nat /\ scan.now <= clock
          BY <1>1 DEF TypeInv, SP!StoreInv, SP!TypeOK, SP!ScanInPast,
                      CleanupDelete, Store!Scanning
        <4>2. TOMBSTONE_LIFETIME \in Nat
          BY CoordinatorAssumption
        <4>3. ~(clock' - get[r].began <= TOMBSTONE_LIFETIME)
          BY <1>2, <1>5, <3>1, <3>4, <4>1, <4>2
        <4>4. ASSUME NEW i \in 1..Len(cs), NEW j \in 1..ReplicationFactor
              PROVE  Sound(d, cs, i, j, disks', issued', faults'["write"])
          <5>1. Sound(d, cs, i, j, disks, issued, faults["write"])
            BY <2>7, <3>2 DEF ReaderSafe
          <5>2. cs[i].chunk_id \in Nat /\ issued[cs[i].node_ids[j]] \in Nodes
            BY <1>1, <3>1, ChunkNumbers
            DEF Owned, TypeInv, RP!RegistryInv, RP!TypeOK, Ids
          <5> HIDE DEF cs, d
          <5>. QED  BY <1>2, <1>3, <2>1, <5>1, <5>2 DEF Sound, BadStays
        <4>5. Len(cs) = NumChunks(d)
          BY <2>7, <3>2 DEF ReaderSafe
        <4>. QED  BY <4>3, <4>4, <4>5 DEF ReaderSafe
      <3>. QED  BY <1>1, <2>7, <3>3, <3>4 DEF ReaderInv
    <2>8. ReadersSafe'
      <3>1. ASSUME NEW r \in Gets
            PROVE  ReaderSafe(get[r], clock', disks', issued', faults'["write"])
        BY <2>7 DEF ReaderSafe
      <3>. QED  BY <1>2, <3>1 DEF ReadersSafe
    <2>. QED  BY <2>4, <2>5, <2>6, <2>8
  <1>. QED  BY <1>6, <1>7 DEF CleanupDelete, Reachable

\* A restart forgets whatever the disks were promised to hold.
LEMMA DurRestart ==
  ASSUME DurInv, CoordinatorRestart
  PROVE  FilesSafe' /\ UploadsSafe' /\ ReadersSafe' /\ AnswersSafe'
  <1>1. TypeInv /\ AnswersSafe
    BY DEF DurInv, ChunkInv
  <1>2. FilesSafe'
    BY DEF CoordinatorRestart, FilesSafe
  <1>3. UploadsSafe'
    <2>1. \A w \in Puts : Chunkless(put'[w])
      BY <1>1 DEF CoordinatorRestart, IdlePut, Chunkless
    <2>. QED  BY <2>1 DEF UploadsSafe, UploadSafe, Chunkless
  <1>4. ASSUME NEW r \in Gets
        PROVE  get'[r].pc # "reading" /\ (get'[r] = get[r] \/ get'[r].status # "OK")
    <2>1. get[r] \in GetState /\ get'[r] = CutOff(get[r])
      BY <1>1 DEF CoordinatorRestart, TypeInv, GetInv
    <2>. QED  BY <2>1 DEF CutOff, GetState
  <1>5. ReadersSafe'
    BY <1>4 DEF ReadersSafe, ReaderSafe
  <1>6. BadStays
    <2>1. faults' = [faults EXCEPT !["restart"] = @ + 1]
      BY DEF CoordinatorRestart, Registry!CoordinatorRestart, Registry!Fault
    <2>2. faults \in [FaultKinds -> Nat] /\ "write" \in FaultKinds
      BY <1>1, CoordinatorAssumption DEF TypeInv, RP!RegistryInv, RP!TypeOK
    <2>3. faults'["write"] = faults["write"]
      BY <2>1, <2>2
    <2>. QED  BY <2>3 DEF BadStays
  <1>7. AnswersSafe'
    BY <1>1, <1>4, <1>6, AnswersKept DEF AnswerKept
  <1>. QED  BY <1>2, <1>3, <1>5, <1>7

\* A data node's step leaves the short writes alone.
LEMMA DataNodeCalm ==
  ASSUME TypeInv, NEW n \in Nodes, DataNode(n)
  PROVE  Calm
  <1>1. RP!DataNode(n) /\ faults \in [FaultKinds -> Nat]
    BY RegistrySteps DEF DataNode, TypeInv, RP!RegistryInv, RP!TypeOK
  <1>2. "write" \in FaultKinds
    BY CoordinatorAssumption
  <1>3. \/ faults' = faults
        \/ \E k \in {"rpc", "stop", "crash", "race"} : RP!Fault(k)
    BY <1>1, Zenon DEF RP!DataNode, RP!Start, RP!Assign, RP!Stop,
       RP!StopUnheard, RP!Crash, RP!Serve, RP!Shutdown, RP!coordinatorVars
  <1>4. ASSUME NEW k \in {"rpc", "stop", "crash", "race"}, RP!Fault(k)
        PROVE  faults'["write"] = faults["write"]
    <2>1. faults' = [faults EXCEPT ![k] = @ + 1]
      BY <1>4 DEF RP!Fault
    <2>. QED  BY <1>1, <1>2, <2>1
  <1>5. BadStays
    BY <1>3, <1>4 DEF BadStays
  <1>6. disks' = disks /\ clock' = clock
    BY DEF DataNode, storeVars
  <1>. QED  BY <1>5, <1>6, IdsGrow, ListTypes DEF Calm

\* The other steps of an upload.
LEMMA DurPutRest ==
  ASSUME DurInv, NEW w \in Puts,
         \/ \E p \in Paths, c \in Contents : PutBegin(w, p, c)
         \/ PutUnnamed(w) \/ PutReceive(w)
  PROVE  FilesSafe' /\ UploadsSafe' /\ ReadersSafe' /\ AnswersSafe'
  <1>1. TypeInv /\ ChunkInv /\ FilesSafe /\ UploadsSafe /\ ReadersSafe
        /\ AnswersSafe /\ put \in [Puts -> PutState]
    BY DEF DurInv, ChunkInv, TypeInv, PutInv
  <1>2. /\ entries' = entries /\ get' = get /\ disks' = disks /\ clock' = clock
        /\ issued' = issued /\ UNCHANGED registryVars
    BY DEF PutBegin, PutUnnamed, PutReceive, storeVars, registryVars
  <1>3. Calm
    BY <1>1, <1>2, CalmStep DEF PutBegin, PutUnnamed, PutReceive, NoFault
  <1>4. CASE PutUnnamed(w) \/ \E p \in Paths, c \in Contents : PutBegin(w, p, c)
    <2>1. Chunkless(put'[w]) /\ \A v \in Puts : v # w => put'[v] = put[v]
      <3>1. CASE \E s : PutDone(w, s)
        BY <1>1, <3>1 DEF PutDone, IdlePut, Chunkless
      <3>2. CASE \E p \in Paths, c \in Contents :
                   put' = [put EXCEPT ![w].pc = "receiving", ![w].path = p,
                                      ![w].data = c]
        BY <1>1, <3>2 DEF PutState, Chunkless
      <3>. QED  BY <1>4, <3>1, <3>2 DEF PutUnnamed, PutBegin
    <2>. QED  BY <1>2, <1>3, <2>1, ReadersSame, DurCalm
  <1>5. CASE PutReceive(w)
    <2>1. put[w].chunks = <<>>
      BY <1>1, <1>5 DEF PutReceive, TypeInv, PutInv, PutShape
    <2>2. /\ put'[w].pc = "placing" /\ put'[w].chunks = put[w].chunks
          /\ \A v \in Puts : v # w => put'[v] = put[v]
      <3>1. CASE put' = [put EXCEPT ![w].pc = "placing"]
        BY <1>1, <3>1 DEF PutState
      <3>2. ASSUME NEW x, put' = [put EXCEPT ![w].pc = "placing", ![w].data = x]
            PROVE  /\ put'[w].pc = "placing" /\ put'[w].chunks = put[w].chunks
                   /\ \A v \in Puts : v # w => put'[v] = put[v]
        BY <1>1, <3>2 DEF PutState
      <3>. QED  BY <1>5, <3>1, <3>2 DEF PutReceive
    <2>3. UploadSafe(put'[w], disks', issued', faults'["write"])
      BY <2>1, <2>2 DEF UploadSafe
    <2>4. ASSUME NEW v \in Puts, v # w
          PROVE  UploadSafe(put'[v], disks', issued', faults'["write"])
      <3>1. Len(put[v].chunks) \in Nat
        BY <1>1, ListTypes
      <3>2. put[v].pc = "sending" => Len(put[v].chunks) # 0
        BY <1>1, SendingChunk DEF TypeInv
      <3>3. Undisturbed(put[v].chunks) /\ BadStays
        BY <1>1, <1>3, CalmLists DEF Calm
      <3>4. UploadSafe(put[v], disks', issued', faults'["write"])
        BY <1>1, <3>1, <3>2, <3>3, UploadKept DEF UploadsSafe
      <3>. QED  BY <2>2, <2>4, <3>4
    <2>5. UploadsSafe'
      BY <2>3, <2>4 DEF UploadsSafe
    <2>6. BadStays /\ clock' \in Nat /\ clock' >= clock
      BY <1>3 DEF Calm
    <2>7. FilesSafe' /\ ReadersSafe' /\ AnswersSafe'
      BY <1>1, <1>2, <1>3, <2>6, CalmLists, FilesKept, ReadersSame,
         ReadersKept, AnswersKept
    <2>. QED  BY <2>5, <2>7
  <1>. QED  BY <1>4, <1>5

\* A deletion takes the file out of the map; its chunks stay where they are.
LEMMA DurDelTombstone ==
  ASSUME DurInv, NEW d \in Dels, DelTombstone(d)
  PROVE  FilesSafe' /\ UploadsSafe' /\ ReadersSafe' /\ AnswersSafe'
  <1>1. TypeInv /\ entries \in [Paths -> FileMeta \cup {NoFile}]
    BY DEF DurInv, ChunkInv, TypeInv, SP!StoreInv, SP!TypeOK
  <1>2. /\ put' = put /\ disks' = disks /\ issued' = issued /\ faults' = faults
    BY DEF DelTombstone, registryVars
  <1>3. /\ del[d].path \in Paths /\ clock' = clock
        /\ \/ UNCHANGED storeVars
           \/ entries' = [entries EXCEPT ![del[d].path] = NoFile]
    BY <1>1, DeletedEntries
  <1>4. \A p \in Paths : entries'[p] # NoFile => entries'[p] = entries[p]
    BY <1>1, <1>3 DEF storeVars
  <1>5. ASSUME NEW r \in Gets
        PROVE  /\ get'[r].pc = get[r].pc /\ get'[r].ub = get[r].ub
               /\ get'[r].short = get[r].short
               /\ get'[r].meta = get[r].meta /\ get'[r].began = get[r].began
               /\ get'[r].at = get[r].at /\ get'[r].data = get[r].data
               /\ get'[r].status = get[r].status
    <2>1. get[r] \in GetState
      BY <1>1 DEF TypeInv, GetInv
    <2>2. get'[r] = [get[r] EXCEPT !.dangling = @ \/ (get[r].pc = "found"
                                            /\ get[r].path = del[d].path)]
      BY DEF DelTombstone
    <2>. QED  BY <2>1, <2>2 DEF GetState
  <1>6. ReadersGoOn /\ \A r \in Gets : AnswerKept(get[r], get'[r])
    BY <1>5 DEF ReadersGoOn, AnswerKept
  <1>7. Calm
    BY <1>1, <1>2, <1>3, CalmStep
  <1>. QED  BY <1>2, <1>4, <1>6, <1>7, DurCalm

\* A download begins.
LEMMA DurGetBegin ==
  ASSUME DurInv, NEW r \in Gets, NEW p \in Paths, GetBegin(r, p)
  PROVE  FilesSafe' /\ UploadsSafe' /\ ReadersSafe' /\ AnswersSafe'
  <1>1. TypeInv /\ get \in [Gets -> GetState] /\ get[r].pc = "idle"
        /\ get[r].status = "none"
    BY GetFields DEF DurInv, ChunkInv, TypeInv, GetInv, GetBegin, GetShape
  <1>2. /\ entries' = entries /\ put' = put /\ disks' = disks /\ clock' = clock
        /\ issued' = issued /\ faults' = faults
    BY DEF GetBegin, storeVars, registryVars
  <1>3. /\ get'[r].pc \in {"done", "found"} /\ get'[r].status # "OK"
        /\ \A s \in Gets : s # r => get'[s] = get[s]
    <2>1. CASE GetDone(r, "NOT_FOUND")
      BY <1>1, <2>1 DEF GetDone, GetState
    <2>2. CASE get' = [get EXCEPT ![r].pc = "found", ![r].path = p,
                                  ![r].began = clock]
      BY <1>1, <2>2 DEF GetState
    <2>. QED  BY <2>1, <2>2 DEF GetBegin
  <1>4. ReadersGoOn /\ \A s \in Gets : AnswerKept(get[s], get'[s])
    BY <1>3 DEF ReadersGoOn, AnswerKept
  <1>5. Calm
    BY <1>1, <1>2, CalmStep
  <1>. QED  BY <1>2, <1>4, <1>5, DurCalm

\* Initially there is nothing to hold.
LEMMA DurInvInit == Init => DurInv
  <1> SUFFICES ASSUME Init PROVE DurInv
    OBVIOUS
  <1>1. /\ \A p \in Paths : entries[p] = NoFile
        /\ \A w \in Puts : Chunkless(put[w])
        /\ \A r \in Gets : get[r].pc # "reading" /\ get[r].status # "OK"
    BY DEF Init, Store!Init, IdlePut, IdleGet, Chunkless
  <1>2. FilesSafe /\ UploadsSafe /\ ReadersSafe /\ AnswersSafe
    BY <1>1 DEF FilesSafe, UploadsSafe, UploadSafe, Chunkless, ReadersSafe,
                ReaderSafe, AnswersSafe, SentSafe
  <1>. QED  BY <1>2, ChunkInvInit DEF DurInv

\* Every step keeps DurInv.
LEMMA DurInvNext == DurInv /\ [Next]_vars => DurInv'
  <1> SUFFICES ASSUME DurInv, [Next]_vars
               PROVE  FilesSafe' /\ UploadsSafe' /\ ReadersSafe' /\ AnswersSafe'
    BY ChunkInvNext DEF DurInv
  <1>0. TypeInv
    BY DEF DurInv, ChunkInv
  <1>1. ASSUME NEW w \in Puts,
               \/ \E p \in Paths, c \in Contents : PutBegin(w, p, c)
               \/ PutUnnamed(w) \/ PutStep(w) \/ PutCommit(w)
        PROVE  FilesSafe' /\ UploadsSafe' /\ ReadersSafe' /\ AnswersSafe'
    BY <1>1, DurPutRest, DurPutPlace, DurPutTask, DurPutJoin, DurPutCommit
    DEF PutStep
  <1>2. ASSUME NEW r \in Gets, (\E p \in Paths : GetBegin(r, p)) \/ GetStep(r)
        PROVE  FilesSafe' /\ UploadsSafe' /\ ReadersSafe' /\ AnswersSafe'
    BY <1>2, DurGetBegin, DurGetOpen, DurGetTry, DurGetEnd DEF GetStep
  <1>3. ASSUME NEW d \in Dels, DelTombstone(d)
        PROVE  FilesSafe' /\ UploadsSafe' /\ ReadersSafe' /\ AnswersSafe'
    BY <1>3, DurDelTombstone
  <1>4. CASE CleanupDelete
    BY <1>4, DurCleanupDelete
  <1>5. CASE \/ UNCHANGED vars
             \/ CleanupWake \/ CleanupSkip \/ CleanupErase \/ CleanupEnd \/ Tick
             \/ \E n \in Nodes : DataNode(n)
             \/ \E d \in Dels, p \in Paths : DelBegin(d, p)
    <2>1. entries' = entries /\ put' = put /\ get' = get
      BY <1>5 DEF vars, CleanupWake, CleanupSkip, CleanupErase, CleanupEnd,
         Tick, DataNode, DelBegin, storeVars, requestVars, Store!CleanupBegin,
         Store!CleanupSkip, Store!CleanupErase, Store!CleanupEnd, Store!Tick
    <2>2. CASE \E n \in Nodes : DataNode(n)
      BY <1>0, <2>1, <2>2, DataNodeCalm, ReadersSame, DurCalm
    <2>3. CASE \/ UNCHANGED vars
               \/ CleanupWake \/ CleanupSkip \/ CleanupErase \/ CleanupEnd
               \/ Tick \/ \E d \in Dels, p \in Paths : DelBegin(d, p)
      <3>1. disks' = disks /\ issued' = issued /\ faults' = faults
        BY <2>3 DEF vars, CleanupWake, CleanupSkip, CleanupErase, CleanupEnd,
           Tick, DelBegin, registryVars
      <3>2. clock \in Nat /\ (clock' = clock \/ clock' = clock + 1)
        BY <1>0, <2>3, ListTypes DEF vars, CleanupWake, CleanupSkip,
           CleanupErase, CleanupEnd, Tick, DelBegin, storeVars,
           Store!CleanupBegin, Store!CleanupSkip, Store!CleanupErase,
           Store!CleanupEnd, Store!Tick
      <3>3. Calm
        BY <3>1, <3>2 DEF Calm, BadStays
      <3>. QED  BY <2>1, <3>3, ReadersSame, DurCalm
    <2>. QED  BY <1>5, <2>2, <2>3
  <1>6. CASE CoordinatorRestart
    BY <1>6, DurRestart
  <1>. QED
    BY <1>1, <1>2, <1>3, <1>4, <1>5, <1>6 DEF Next, CleanupStep

\* Active files, uploads under way and downloads within the grace period have
\* their chunks on the disks, whatever else goes on.
THEOREM CoordinatorDurInv == Spec => []DurInv
  BY DurInvInit, DurInvNext, PTL DEF Spec

(***************************************************************************)
(* The properties.                                                         *)
(***************************************************************************)

\* A file whose replicas are all good is stored in full, if nothing was
\* written short.
LEMMA GoodStored ==
  ASSUME NEW m, m.chunks \in Seq(ChunkInfo), faults["write"] = 0,
         Len(m.chunks) = NumChunks(m.data),
         \A i \in 1..Len(m.chunks), j \in 1..ReplicationFactor :
           Good(m.data, m.chunks, i, j, disks, issued, faults["write"])
  PROVE  FullyStored(m)
  <1>1. DOMAIN m.chunks = 1..Len(m.chunks)
    OBVIOUS
  <1>. QED  BY <1>1 DEF Good, Sound, FullyStored, Stored, DiskOf

\* As long as no data node acknowledged a short write, every replica of every
\* chunk of every active file is on its disk with the uploaded content,
\* whatever uploads, cleanups, failures and restarts go on.
THEOREM CoordinatorReplicasDurable == Spec => []ReplicasDurable
  <1>1. DurInv => ReplicasDurable
    BY GoodStored, ListTypes
    DEF DurInv, ChunkInv, FilesSafe, FileSafe, ReplicasDurable
  <1>. QED  BY <1>1, CoordinatorDurInv, PTL

\* Within a tombstone's lifetime after a download began, every replica of
\* every chunk of the file it opened stays on its disk, deleted or not.
THEOREM CoordinatorReadersProtected == Spec => []ReadersProtected
  <1>1. DurInv => ReadersProtected
    BY GoodStored, ListTypes
    DEF DurInv, ChunkInv, ReadersSafe, ReaderSafe, ReadersProtected
  <1>. QED  BY <1>1, CoordinatorDurInv, PTL

\* A download answered OK has delivered exactly the file it opened, across
\* failing replicas, deletions and cleanups, unless its pointer dangled.
THEOREM CoordinatorReadsFaithful == Spec => []ReadsFaithful
  <1>1. DurInv => ReadsFaithful
    BY DEF DurInv, AnswersSafe, SentSafe, ReadsFaithful
  <1>. QED  BY <1>1, CoordinatorDurInv, PTL

(***************************************************************************)
(* Availability: a download fails over from replica to replica, and each   *)
(* node it gave up on has a failure of its own.                            *)
(***************************************************************************)

\* Nodes with an id that does not lead to them, now.
Troubled == {issued[id] : id \in {k \in Ids : ~Reachable(k)}}

\* The failures that can keep a replica from being read.
Failures == faults["stop"] + faults["crash"] + faults["rpc"] + faults["call"]
            + faults["race"]

\* At most k of them.
Within(S, k) == IsFiniteSet(S) /\ Cardinality(S) <= k

\* The nodes a download has tried for its current chunk, in vain.
Tried(x, iss) ==
  {iss[x.meta.chunks[x.at].node_ids[j]] :
     j \in {q \in 1..ReplicationFactor : q < x.replica}}
Homes(c, iss) == {iss[id] : id \in Range(c.node_ids)}

\* Inside the grace period, every node that was tried in vain or would be now
\* has its failure, and a download that ended in an error has tried them all.
ReaderAvail(x, now, trouble, fails, streams, iss, ids) ==
  ~x.ub /\ now - x.began <= TOMBSTONE_LIFETIME =>
    /\ x.pc = "reading" /\ x.at <= Len(x.meta.chunks)
         => Within(Tried(x, iss) \cup trouble, fails)
    /\ streams = 0 /\ x.status = "INTERNAL" =>
         \E i \in 1..Len(x.meta.chunks) :
           /\ Range(x.meta.chunks[i].node_ids) \subseteq ids
           /\ Within(Homes(x.meta.chunks[i], iss), fails)

\* No replica is tried before the file is open.
FreshInv == \A r \in Gets : get[r].pc \in {"idle", "found"} => get[r].replica = 1
TroubleInv == faults["restart"] = 0 => Within(Troubled, Failures)
ReadersAvail ==
  faults["restart"] = 0 =>
    \A r \in Gets : ReaderAvail(get[r], clock, Troubled, Failures,
                                faults["stream"], issued, Ids)

\* The inductive invariant.
AvailInv == DurInv /\ FreshInv /\ TroubleInv /\ ReadersAvail

\* Fewer of them, for as many failures or more.
LEMMA WithinFewer ==
  ASSUME NEW S, NEW k \in Nat, Within(S, k), NEW T, T \subseteq S,
         NEW l \in Nat, k <= l
  PROVE  Within(T, l)
  <1>1. IsFiniteSet(T) /\ Cardinality(T) <= Cardinality(S)
    BY FS_Subset DEF Within
  <1>2. Cardinality(T) \in Nat /\ Cardinality(S) \in Nat /\ Cardinality(S) <= k
    BY <1>1, FS_CardinalityType DEF Within
  <1>3. Cardinality(T) <= l
    BY <1>1, <1>2
  <1>. QED  BY <1>1, <1>3 DEF Within

\* One more, for one failure more.
LEMMA WithinOneMore ==
  ASSUME NEW S, NEW k \in Nat, Within(S, k), NEW n, NEW T, T \subseteq S \cup {n},
         NEW l \in Nat, k + 1 <= l
  PROVE  Within(T, l)
  <1> DEFINE U == S \cup {n}
  <1>1. /\ IsFiniteSet(U)
        /\ Cardinality(U) = IF n \in S THEN Cardinality(S) ELSE Cardinality(S) + 1
    BY FS_AddElement DEF Within
  <1>2. Cardinality(S) \in Nat /\ Cardinality(S) <= k
    BY FS_CardinalityType DEF Within
  <1>3. Cardinality(U) <= k + 1
    BY <1>1, <1>2
  <1>4. Within(U, k + 1)
    BY <1>1, <1>3 DEF Within
  <1>5. T \subseteq U /\ k + 1 \in Nat
    OBVIOUS
  <1> HIDE DEF U
  <1>. QED  BY <1>4, <1>5, WithinFewer

\* More trouble only for more failures.
Worsens(S, T, k, l) ==
  \/ T \subseteq S /\ k <= l
  \/ \E n : T \subseteq S \cup {n} /\ k + 1 <= l

\* What was counted is still counted.
LEMMA WithinWorse ==
  ASSUME NEW S, NEW T, NEW k \in Nat, NEW l \in Nat, Worsens(S, T, k, l)
  PROVE  /\ \A R : Within(R \cup S, k) => Within(R \cup T, l)
         /\ Within(S, k) => Within(T, l)
         /\ \A R : Within(R, k) => Within(R, l)
  <1>1. ASSUME NEW Q, NEW R, Within(Q, k),
               \/ R \subseteq Q /\ k <= l
               \/ \E n : R \subseteq Q \cup {n} /\ k + 1 <= l
        PROVE  Within(R, l)
    BY <1>1, WithinFewer, WithinOneMore
  <1>2. k <= l
    BY DEF Worsens
  <1>3. \A R : \/ R \cup T \subseteq R \cup S /\ k <= l
               \/ \E n : R \cup T \subseteq (R \cup S) \cup {n} /\ k + 1 <= l
    BY DEF Worsens
  <1>. QED  BY <1>1, <1>2, <1>3 DEF Worsens

\* Counting a fault lowers no counter.
LEMMA FailuresRise ==
  ASSUME TypeInv, faults' = faults \/ \E k \in FaultKinds : RP!Fault(k)
  PROVE  /\ Failures \in Nat /\ Failures' \in Nat /\ Failures <= Failures'
         /\ faults'["restart"] = 0 => faults["restart"] = 0
         /\ faults'["stream"] = 0 => faults["stream"] = 0
  <1>1. faults \in [FaultKinds -> Nat]
    BY DEF TypeInv, RP!RegistryInv, RP!TypeOK
  <1>2. {"stop", "crash", "rpc", "restart", "call", "race", "stream"}
          \subseteq FaultKinds
    BY CoordinatorAssumption
  <1>3. ASSUME NEW q \in FaultKinds
        PROVE  faults[q] \in Nat /\ faults'[q] \in Nat /\ faults[q] <= faults'[q]
    <2>1. CASE faults' = faults
      BY <1>1, <2>1
    <2>2. ASSUME NEW k \in FaultKinds, RP!Fault(k)
          PROVE  faults[q] \in Nat /\ faults'[q] \in Nat /\ faults[q] <= faults'[q]
      <3>1. faults' = [faults EXCEPT ![k] = faults[k] + 1] /\ faults[k] \in Nat
        BY <1>1, <2>2 DEF RP!Fault
      <3>. QED  BY <1>1, <3>1
    <2>. QED  BY <2>1, <2>2
  <1>4. \A q \in {"stop", "crash", "rpc", "restart", "call", "race", "stream"} :
          faults[q] \in Nat /\ faults'[q] \in Nat /\ faults[q] <= faults'[q]
    BY <1>2, <1>3
  <1>. QED  BY <1>4 DEF Failures

\* These are the faults that matter to a download.
LEMMA FailureCounts ==
  ASSUME TypeInv, NEW k \in {"stop", "crash", "rpc", "call", "race"}, RP!Fault(k)
  PROVE  Failures' = Failures + 1
  <1>1. faults \in [FaultKinds -> Nat] /\ k \in FaultKinds
    BY CoordinatorAssumption DEF TypeInv, RP!RegistryInv, RP!TypeOK
  <1>2. {"stop", "crash", "rpc", "call", "race"} \subseteq FaultKinds
    BY CoordinatorAssumption
  <1>3. faults' = [faults EXCEPT ![k] = faults[k] + 1]
    BY <1>1 DEF RP!Fault
  <1>4. /\ faults'[k] = faults[k] + 1
        /\ \A q \in {"stop", "crash", "rpc", "call", "race"} :
             /\ faults[q] \in Nat
             /\ q # k => faults'[q] = faults[q]
    BY <1>1, <1>2, <1>3
  <1>. QED  BY <1>4 DEF Failures

\* A download keeps what counts here.
SameReader(x, y) ==
  /\ y.pc = x.pc /\ y.ub = x.ub /\ y.began = x.began /\ y.meta = x.meta
  /\ y.at = x.at /\ y.replica = x.replica /\ y.status = x.status

\* Time, trouble with its failures, and registrations keep it available.
LEMMA ReaderStaysAvail ==
  ASSUME NEW x, NEW y, SameReader(x, y), x.began \in Nat, x.at \in Nat \ {0},
         NEW a \in Nat, NEW b \in Nat, a <= b,
         NEW S, NEW T, NEW k \in Nat, NEW l \in Nat, Worsens(S, T, k, l),
         NEW u, NEW v, v = 0 => u = 0,
         NEW iss, NEW jss, NEW I, NEW J, I \subseteq J,
         \A id \in I : jss[id] = iss[id],
         x.pc = "reading" => \A i \in 1..Len(x.meta.chunks),
                                j \in 1..ReplicationFactor :
                               x.meta.chunks[i].node_ids[j] \in I,
         Len(x.meta.chunks) \in Nat,
         ReaderAvail(x, a, S, k, u, iss, I)
  PROVE  ReaderAvail(y, b, T, l, v, jss, J)
  <1> SUFFICES ASSUME ~x.ub, b - x.began <= TOMBSTONE_LIFETIME
               PROVE  ReaderAvail(y, b, T, l, v, jss, J)
    BY DEF ReaderAvail, SameReader
  <1>1. a - x.began <= TOMBSTONE_LIFETIME
    <2>1. TOMBSTONE_LIFETIME \in Nat
      BY CoordinatorAssumption
    <2>. QED  BY <2>1
  <1>2. ASSUME x.pc = "reading", x.at <= Len(x.meta.chunks)
        PROVE  Within(Tried(y, jss) \cup T, l)
    <2>1. Within(Tried(x, iss) \cup S, k)
      BY <1>1, <1>2 DEF ReaderAvail
    <2>2. x.at \in 1..Len(x.meta.chunks)
      BY <1>2
    <2>3. \A j \in 1..ReplicationFactor : x.meta.chunks[x.at].node_ids[j] \in I
      BY <1>2, <2>2
    <2>4. Tried(y, jss) = Tried(x, iss)
      BY <2>3 DEF Tried, SameReader
    <2>. QED  BY <2>1, <2>4, WithinWorse
  <1>3. ASSUME v = 0, x.status = "INTERNAL"
        PROVE  \E i \in 1..Len(x.meta.chunks) :
                 /\ Range(x.meta.chunks[i].node_ids) \subseteq J
                 /\ Within(Homes(x.meta.chunks[i], jss), l)
    <2>1. PICK i \in 1..Len(x.meta.chunks) :
            /\ Range(x.meta.chunks[i].node_ids) \subseteq I
            /\ Within(Homes(x.meta.chunks[i], iss), k)
      BY <1>1, <1>3 DEF ReaderAvail
    <2>2. Homes(x.meta.chunks[i], jss) = Homes(x.meta.chunks[i], iss)
      BY <2>1 DEF Homes
    <2>. QED  BY <2>1, <2>2, WithinWorse
  <1>. QED  BY <1>2, <1>3 DEF ReaderAvail, SameReader

\* The replicas of a chunk that is read are under ids that were issued.
LEMMA ReadIds ==
  ASSUME ChunkInv, NEW r \in Gets
  PROVE  /\ get[r].began \in Nat /\ get[r].at \in Nat \ {0} /\ clock \in Nat
         /\ Len(get[r].meta.chunks) \in Nat
         /\ get[r].pc = "reading" =>
              \A i \in 1..Len(get[r].meta.chunks), j \in 1..ReplicationFactor :
                get[r].meta.chunks[i].node_ids[j] \in Ids
  <1>1. /\ get[r].began \in Nat /\ get[r].at \in Nat \ {0} /\ clock \in Nat
        /\ get[r].meta.chunks \in Seq(ChunkInfo)
    BY GetFields DEF ChunkInv
  <1>. QED  BY <1>1 DEF ChunkInv, OwnedInv, Owned

\* A step that worsens nothing without a failure, and whose downloads go on as
\* before or are accounted for.
LEMMA AvailKept ==
  ASSUME AvailInv,
         faults' = faults \/ \E k \in FaultKinds : RP!Fault(k),
         faults'["restart"] = 0 =>
           Worsens(Troubled, Troubled', Failures, Failures'),
         clock' \in Nat, clock <= clock', Ids \subseteq Ids',
         \A id \in Ids : issued'[id] = issued[id],
         \A r \in Gets :
           /\ get'[r].pc \in {"idle", "found"} => get'[r].replica = 1
           /\ \/ SameReader(get[r], get'[r])
              \/ faults'["restart"] = 0 =>
                   ReaderAvail(get'[r], clock', Troubled', Failures',
                               faults'["stream"], issued', Ids')
  PROVE  FreshInv' /\ TroubleInv' /\ ReadersAvail'
  <1>1. ChunkInv /\ TypeInv /\ TroubleInv /\ ReadersAvail
    BY DEF AvailInv, DurInv, ChunkInv
  <1>2. /\ Failures \in Nat /\ Failures' \in Nat
        /\ faults'["restart"] = 0 => faults["restart"] = 0
        /\ faults'["stream"] = 0 => faults["stream"] = 0
    BY <1>1, FailuresRise
  <1>3. FreshInv'
    BY DEF FreshInv
  <1>4. TroubleInv'
    BY <1>1, <1>2, WithinWorse DEF TroubleInv
  <1>5. ASSUME faults'["restart"] = 0, NEW r \in Gets
        PROVE  ReaderAvail(get'[r], clock', Troubled', Failures',
                           faults'["stream"], issued', Ids')
    <2>1. CASE SameReader(get[r], get'[r])
      <3>1. ReaderAvail(get[r], clock, Troubled, Failures, faults["stream"],
                        issued, Ids)
        BY <1>1, <1>2, <1>5 DEF ReadersAvail
      <3>2. /\ get[r].began \in Nat /\ get[r].at \in Nat \ {0} /\ clock \in Nat
            /\ Len(get[r].meta.chunks) \in Nat
            /\ get[r].pc = "reading" =>
                 \A i \in 1..Len(get[r].meta.chunks), j \in 1..ReplicationFactor :
                   get[r].meta.chunks[i].node_ids[j] \in Ids
        BY <1>1, ReadIds
      <3>3. Worsens(Troubled, Troubled', Failures, Failures')
        BY <1>5
      <3>4. PICK S, T, x, y, iss, jss, I, J, u, v :
              /\ S = Troubled /\ T = Troubled' /\ x = get[r] /\ y = get'[r]
              /\ iss = issued /\ jss = issued' /\ I = Ids /\ J = Ids'
              /\ u = faults["stream"] /\ v = faults'["stream"]
        OBVIOUS
      <3>5. PICK a \in Nat, b \in Nat, k \in Nat, l \in Nat :
              a = clock /\ b = clock' /\ k = Failures /\ l = Failures'
        BY <1>2, <3>2
      <3>6. /\ SameReader(x, y) /\ x.began \in Nat /\ x.at \in Nat \ {0}
            /\ Len(x.meta.chunks) \in Nat
            /\ x.pc = "reading" => \A i \in 1..Len(x.meta.chunks),
                                      j \in 1..ReplicationFactor :
                                     x.meta.chunks[i].node_ids[j] \in I
        BY <2>1, <3>2, <3>4
      <3>7. /\ a <= b /\ Worsens(S, T, k, l) /\ (v = 0 => u = 0)
            /\ I \subseteq J /\ \A id \in I : jss[id] = iss[id]
        BY <1>2, <3>3, <3>4, <3>5
      <3>8. ReaderAvail(x, a, S, k, u, iss, I)
        BY <3>1, <3>4, <3>5
      <3>9. ReaderAvail(y, b, T, l, v, jss, J)
        BY ONLY <3>6, <3>7, <3>8, <3>5, ReaderStaysAvail
      <3>. QED  BY <3>4, <3>5, <3>9
    <2>. QED  BY <1>5, <2>1
  <1>6. ReadersAvail'
    BY <1>5 DEF ReadersAvail
  <1>. QED  BY <1>3, <1>4, <1>6

\* A step without the data nodes.
LEMMA TroubleSame ==
  ASSUME UNCHANGED <<registered_nodes, up, issued>>
  PROVE  Troubled' = Troubled /\ Ids' = Ids
         /\ \A id \in Ids : issued'[id] = issued[id]
  BY DEF Troubled, Ids, Reachable

\* A data node that goes is in trouble and has its failure; one that comes
\* gets no id that does not lead to it, unless an insertion was lost.
LEMMA TroubleDataNode ==
  ASSUME TypeInv, NEW n \in Nodes, DataNode(n), faults'["restart"] = 0
  PROVE  Worsens(Troubled, Troubled', Failures, Failures')
  <1>1. RP!DataNode(n) /\ RP!RegistryInv
    BY RegistrySteps DEF DataNode, TypeInv
  <1>2. /\ issued \in [1..(next_node_id - 1) -> Nodes]
        /\ next_node_id \in Nat \ {0} /\ up \in [Nodes -> BOOLEAN]
        /\ RP!RegisteredAsIssued /\ RP!IdOwner
        /\ \A id \in DOMAIN registered_nodes : registered_nodes[id].node \in Nodes
        /\ \A m \in Nodes : node_id[m] \in Nat \cup {-1}
    BY <1>1 DEF RP!RegistryInv, RP!TypeOK, RP!DataNodeInfo
  <1>3. \/ faults' = faults
        \/ \E k \in {"rpc", "stop", "crash", "race"} : RP!Fault(k)
    BY <1>1, Zenon DEF RP!DataNode, RP!Start, RP!Assign, RP!Stop,
       RP!StopUnheard, RP!Crash, RP!Serve, RP!Shutdown, RP!coordinatorVars
  <1>4. /\ Failures \in Nat /\ Failures' \in Nat /\ Failures <= Failures'
        /\ faults["restart"] = 0
    <2>1. {"rpc", "stop", "crash", "race"} \subseteq FaultKinds
      BY CoordinatorAssumption
    <2>. QED  BY <1>3, <2>1, FailuresRise
  <1>5. ASSUME NEW id \in Ids
        PROVE  /\ issued[id] \in Nodes
               /\ Reachable(id) <=> id \in DOMAIN registered_nodes /\ up[issued[id]]
    BY <1>2, <1>5 DEF Ids, Reachable, RP!RegisteredAsIssued
  <1>6. ASSUME NEW id \in Ids'
        PROVE  Reachable(id)' <=>
                 id \in DOMAIN registered_nodes' /\ up'[issued'[id]]
    <2>1. RP!RegisteredAsIssued'
      BY TypeDataNode DEF TypeInv, RP!RegistryInv
    <2>. QED  BY <1>6, <2>1 DEF Ids, Reachable, RP!RegisteredAsIssued
  <1>7. ASSUME \A id \in Ids' : (id \in DOMAIN registered_nodes' /\ up'[issued'[id]])
                 \/ (id \in Ids /\ issued'[id] = issued[id] /\ ~Reachable(id))
        PROVE  Worsens(Troubled, Troubled', Failures, Failures')
    <2>1. Troubled' \subseteq Troubled
      BY <1>6, <1>7 DEF Troubled
    <2>. QED  BY <1>4, <2>1 DEF Worsens
  <1>8. ASSUME Failures' = Failures + 1,
               \A id \in Ids' : (id \in DOMAIN registered_nodes' /\ up'[issued'[id]])
                 \/ (id \in Ids /\ issued'[id] = issued[id] /\ ~Reachable(id))
                 \/ issued'[id] = n
        PROVE  Worsens(Troubled, Troubled', Failures, Failures')
    <2>1. Troubled' \subseteq Troubled \cup {n}
      BY <1>6, <1>8 DEF Troubled
    <2>. QED  BY <1>4, <1>8, <2>1 DEF Worsens
  <1>9. CASE RP!Stop(n) \/ RP!StopUnheard(n) \/ RP!Crash(n)
    <2>1. PICK k \in {"stop", "rpc", "crash"} : RP!Fault(k)
      BY <1>9 DEF RP!Stop, RP!StopUnheard, RP!Crash
    <2>2. Failures' = Failures + 1
      BY <2>1, FailureCounts
    <2>3. up' = [up EXCEPT ![n] = FALSE] /\ issued' = issued
      BY <1>9 DEF RP!Stop, RP!StopUnheard, RP!Crash, RP!Shutdown, RP!Unregister,
                  RP!coordinatorVars
    <2>4. \A id \in DOMAIN registered_nodes :
            id \notin DOMAIN registered_nodes' => issued[id] = n
      <3>1. CASE registered_nodes' = registered_nodes
        BY <3>1
      <3>2. CASE node_id[n] > 0 /\ RP!Unregister(node_id[n])
        <4>1. DOMAIN registered_nodes' = DOMAIN registered_nodes \ {node_id[n]}
          BY <3>2 DEF RP!Unregister, RP!Restrict
        <4>2. issued[node_id[n]] = n
          BY <1>2, <1>4, <3>2 DEF RP!IdOwner
        <4>. QED  BY <4>1, <4>2
      <3>. QED  BY <1>9, <3>1, <3>2 DEF RP!Stop, RP!StopUnheard, RP!Crash,
                                        RP!coordinatorVars
    <2>5. \A id \in Ids : \/ issued[id] = n
                          \/ ~Reachable(id)
                          \/ id \in DOMAIN registered_nodes' /\ up'[issued[id]]
      BY <1>2, <1>5, <2>3, <2>4
    <2>. QED  BY <1>8, <2>2, <2>3, <2>5 DEF Ids
  <1>10. ASSUME NEW f \in Families, RP!Start(n, f)
         PROVE  Worsens(Troubled, Troubled', Failures, Failures')
    <2> DEFINE info == [node |-> n, family |-> f]
    <2>1. up' = [up EXCEPT ![n] = TRUE]
      BY <1>10 DEF RP!Start, RP!Serve
    <2>2. CASE UNCHANGED <<registered_nodes, issued>>
      BY <1>2, <1>5, <1>7, <2>1, <2>2 DEF Ids
    <2>3. ASSUME RP!Issue(info)
          PROVE  \A id \in Ids' : \/ id \in Ids /\ issued'[id] = issued[id]
                                  \/ id = next_node_id /\ issued'[id] = n
      <3>1. /\ next_node_id' = next_node_id + 1
            /\ issued' \in [1..(next_node_id' - 1) -> Nodes]
            /\ issued'[next_node_id] = n
            /\ \A id \in DOMAIN issued : issued'[id] = issued[id]
        BY <1>1, <2>3, RegistryAssumed, RP!IssueProperties
      <3>. QED  BY <1>2, <3>1 DEF Ids
    <2>4. CASE RP!Assign(info)
      <3>1. RP!Issue(info)
            /\ DOMAIN registered_nodes' = DOMAIN registered_nodes \cup {next_node_id}
        BY <2>4 DEF RP!Assign, RP!Insert, RP!AssignedId
      <3>2. \A id \in Ids' :
              (id \in DOMAIN registered_nodes' /\ up'[issued'[id]])
                 \/ (id \in Ids /\ issued'[id] = issued[id] /\ ~Reachable(id))
        BY <1>2, <1>5, <2>1, <2>3, <3>1
      <3>. QED  BY <1>7, <3>2
    <2>5. CASE RP!Fault("race") /\ RP!Issue(info) /\ UNCHANGED registered_nodes
      <3>1. Failures' = Failures + 1
        BY <2>5, FailureCounts
      <3>2. \A id \in Ids' :
              (id \in DOMAIN registered_nodes' /\ up'[issued'[id]])
                 \/ (id \in Ids /\ issued'[id] = issued[id] /\ ~Reachable(id))
                 \/ issued'[id] = n
        BY <1>2, <1>5, <2>1, <2>3, <2>5
      <3>. QED  BY <1>8, <3>1, <3>2
    <2>. QED  BY <1>10, <2>2, <2>4, <2>5, Zenon DEF RP!Start, RP!coordinatorVars
  <1>. QED  BY <1>1, <1>9, <1>10, Zenon DEF RP!DataNode

\* The next replica: one more was tried.
LEMMA TriedNext ==
  ASSUME NEW x, NEW y, y.meta = x.meta, y.at = x.at,
         x.replica \in 1..ReplicationFactor, y.replica = x.replica + 1, NEW iss
  PROVE  Tried(y, iss) \subseteq
           Tried(x, iss) \cup {iss[x.meta.chunks[x.at].node_ids[x.replica]]}
  <1>1. ASSUME NEW j \in 1..ReplicationFactor, j < y.replica
        PROVE  j < x.replica \/ j = x.replica
    <2>1. ReplicationFactor \in Nat
      BY CoordinatorAssumption
    <2>2. j \in Nat /\ x.replica \in Nat /\ j < x.replica + 1
      BY <1>1, <2>1
    <2>. QED  BY <2>2
  <1>. QED  BY <1>1 DEF Tried

\* One attempt to read a chunk: a failed call counts, and a replica that does
\* not serve inside the grace period is on a node in trouble.
LEMMA AvailGetTry ==
  ASSUME AvailInv, NEW r \in Gets, GetTry(r)
  PROVE  FreshInv' /\ TroubleInv' /\ ReadersAvail'
  <1>1. /\ DurInv /\ ChunkInv /\ TypeInv /\ RP!RegistryInv /\ FreshInv
        /\ TroubleInv /\ ReadersAvail /\ ReadersSafe
    BY DEF AvailInv, DurInv, ChunkInv, TypeInv
  <1>2. /\ UNCHANGED registryVars /\ clock' = clock /\ disks' = disks
        /\ UNCHANGED <<registered_nodes, up, issued>> /\ issued' = issued
    BY DEF GetTry, storeVars, registryVars
  <1>3. /\ Troubled' = Troubled /\ Ids' = Ids
        /\ \A id \in Ids : issued'[id] = issued[id]
    BY <1>2, TroubleSame
  <1>4. /\ get \in [Gets -> GetState] /\ get[r] \in GetState
        /\ get[r].pc = "reading" /\ get[r].status = "none"
        /\ get[r].at \in Nat \ {0} /\ get[r].replica \in Nat \ {0}
        /\ get[r].began \in Nat /\ clock \in Nat /\ get[r].ub \in BOOLEAN
        /\ get[r].meta.chunks \in Seq(ChunkInfo)
        /\ get[r].at <= Len(get[r].meta.chunks)
        /\ get[r].replica <= Len(AskedChunk(r).node_ids)
    BY <1>1, GetFields DEF TypeInv, GetInv, GetTry, GetShape, AskedChunk
  <1>5. PICK b \in BOOLEAN : b = (get[r].ub \/ ~BufferLive(get[r].meta))
    OBVIOUS
  <1>6. \/ /\ \E x, t : NextChunk(r, x, t)
           /\ faults' = faults \/ Registry!Fault("read")
        \/ /\ get' = [get EXCEPT ![r] =
                        [get[r] EXCEPT !.replica = @ + 1, !.ub = b]]
           /\ Registry!Fault("call") \/ (~Served(r) /\ faults' = faults)
        \/ /\ get' = [get EXCEPT ![r] =
                        [get[r] EXCEPT !.pc = "done", !.status = "INTERNAL"]]
           /\ Registry!Fault("stream")
        \/ /\ get' = [get EXCEPT ![r] =
                        [get[r] EXCEPT !.pc = "done", !.status = "INTERNAL",
                                       !.ub = TRUE]]
           /\ faults' = faults
    BY <1>5 DEF GetTry, NextReplica, GetDone, Served, Answered, AskedId,
                AskedChunk, NoFault
  <1>7. faults' = faults \/ \E k \in FaultKinds : RP!Fault(k)
    BY <1>6, RegistrySteps, CoordinatorAssumption
  <1>8. /\ Failures \in Nat /\ Failures' \in Nat /\ Failures <= Failures'
        /\ faults'["restart"] = 0 => faults["restart"] = 0
    BY <1>1, <1>7, FailuresRise
  <1>9. \A q \in Gets : q # r => get'[q] = get[q]
    BY <1>4, <1>6 DEF NextChunk
  <1> DEFINE Goal == ReaderAvail(get'[r], clock', Troubled', Failures',
                                 faults'["stream"], issued', Ids')
  <1>10. ASSUME get'[r].pc \notin {"idle", "found"}, faults'["restart"] = 0 => Goal
         PROVE  FreshInv' /\ TroubleInv' /\ ReadersAvail'
    <2>1. Worsens(Troubled, Troubled', Failures, Failures')
      BY <1>3, <1>8 DEF Worsens
    <2>2. clock' \in Nat /\ clock <= clock' /\ Ids \subseteq Ids'
      BY <1>2, <1>3, <1>4
    <2>3. ASSUME NEW q \in Gets
          PROVE  /\ get'[q].pc \in {"idle", "found"} => get'[q].replica = 1
                 /\ \/ SameReader(get[q], get'[q])
                    \/ faults'["restart"] = 0 =>
                         ReaderAvail(get'[q], clock', Troubled', Failures',
                                     faults'["stream"], issued', Ids')
      BY <1>1, <1>9, <1>10 DEF FreshInv, SameReader
    <2>. QED  BY <1>3, <1>7, <2>1, <2>2, <2>3, AvailKept
  <1> HIDE DEF Goal
  \* A chunk more: nothing of the next one was tried.
  <1>11. CASE /\ \E x, t : NextChunk(r, x, t)
              /\ faults' = faults \/ Registry!Fault("read")
    <2>0. PICK x, t : NextChunk(r, x, t)
      BY <1>11
    <2>1. get'[r] = [get[r] EXCEPT !.data = @ \o x, !.at = @ + 1,
                                   !.replica = 1, !.ub = get'[r].ub,
                                   !.short = get'[r].short]
      BY <1>4, <2>0 DEF NextChunk, GetState
    <2>2. get'[r].pc = "reading" /\ get'[r].replica = 1 /\ get'[r].status = "none"
      BY <1>4, <2>1 DEF GetState
    <2>3. Tried(get'[r], issued') = {}
      BY <2>2, CoordinatorAssumption DEF Tried
    <2>4. faults'["restart"] = 0 => Within(Troubled', Failures')
      BY <1>1, <1>3, <1>8, FS_CardinalityType DEF TroubleInv, Within
    <2>5. faults'["restart"] = 0 => Goal
      BY <2>2, <2>3, <2>4 DEF ReaderAvail, Goal
    <2>. QED  BY <1>10, <2>2, <2>5
  \* The next replica.
  <1>12. CASE /\ get' = [get EXCEPT ![r] =
                   [get[r] EXCEPT !.replica = @ + 1, !.ub = b]]
              /\ Registry!Fault("call") \/ (~Served(r) /\ faults' = faults)
    <2>1. get'[r] = [get[r] EXCEPT !.replica = @ + 1, !.ub = b]
      BY <1>4, <1>12
    <2>2. /\ get'[r].pc = "reading" /\ get'[r].replica = get[r].replica + 1
          /\ get'[r].status = "none" /\ get'[r].ub = b
          /\ get'[r].began = get[r].began /\ get'[r].meta = get[r].meta
          /\ get'[r].at = get[r].at
      BY <1>4, <2>1 DEF GetState
    <2>3. /\ get[r].at \in 1..Len(get[r].meta.chunks)
          /\ get[r].replica \in 1..ReplicationFactor
          /\ AskedId(r) \in Ids
      <3>1. get[r].at \in 1..Len(get[r].meta.chunks)
        BY <1>4
      <3>2. Len(AskedChunk(r).node_ids) = ReplicationFactor
            /\ ReplicationFactor \in Nat
        BY <1>1, <1>4, <3>1, CoordinatorAssumption
        DEF ChunkInv, OwnedInv, Owned, AskedChunk
      <3>3. get[r].replica \in 1..ReplicationFactor
        BY <1>4, <3>2
      <3>. QED  BY <1>1, <1>4, <3>1, <3>3, ReadIds DEF AskedId, AskedChunk
    <2>4. Tried(get'[r], issued') \subseteq
            Tried(get[r], issued) \cup {issued[AskedId(r)]}
      BY <1>2, <2>2, <2>3, TriedNext DEF AskedId, AskedChunk
    <2>5. ASSUME faults'["restart"] = 0, ~get'[r].ub,
                 clock - get[r].began <= TOMBSTONE_LIFETIME
          PROVE  Within(Tried(get'[r], issued') \cup Troubled', Failures')
      <3>1. ~get[r].ub
        BY <1>5, <2>2, <2>5
      <3>2. Within(Tried(get[r], issued) \cup Troubled, Failures)
        BY <1>1, <1>4, <1>8, <2>5, <3>1 DEF ReadersAvail, ReaderAvail
      <3>3. CASE Registry!Fault("call")
        <4>1. Failures' = Failures + 1
          BY <1>1, <3>3, RegistrySteps, FailureCounts
        <4>2. Tried(get'[r], issued') \cup Troubled' \subseteq
                (Tried(get[r], issued) \cup Troubled) \cup {issued[AskedId(r)]}
          BY <1>3, <2>4
        <4>3. Failures + 1 <= Failures'
          BY <1>8, <4>1
        <4>4. PICK S, T, n :
                /\ S = Tried(get[r], issued) \cup Troubled
                /\ T = Tried(get'[r], issued') \cup Troubled'
                /\ n = issued[AskedId(r)]
          OBVIOUS
        <4>5. Within(S, Failures) /\ T \subseteq S \cup {n}
          BY <3>2, <4>2, <4>4
        <4>6. Within(T, Failures')
          BY <1>8, <4>3, <4>5, WithinOneMore
        <4>. QED  BY <4>4, <4>6
      <3>4. CASE ~Served(r) /\ faults' = faults
        <4>1. Good(get[r].meta.data, get[r].meta.chunks, get[r].at,
                   get[r].replica, disks, issued, faults["write"])
          BY <1>1, <1>4, <2>3, <2>5, <3>1 DEF ReadersSafe, ReaderSafe
        <4>2. AskedChunk(r).chunk_id \in DOMAIN disks[issued[AskedId(r)]]
          BY <4>1 DEF Good, AskedId, AskedChunk
        <4>3. ~Reachable(AskedId(r))
          BY <1>1, <3>4, <4>2, HomeIssued DEF Served, Reachable
        <4>4. issued[AskedId(r)] \in Troubled
          BY <2>3, <4>3 DEF Troubled
        <4>5. Tried(get'[r], issued') \cup Troubled' \subseteq
                Tried(get[r], issued) \cup Troubled
          BY <1>3, <2>4, <4>4
        <4>. QED  BY <1>8, <3>2, <4>5, WithinFewer
      <3>. QED  BY <1>12, <3>3, <3>4
    <2>6. faults'["restart"] = 0 => Goal
      BY <1>2, <2>2, <2>5 DEF ReaderAvail, Goal
    <2>. QED  BY <1>10, <2>2, <2>6
  \* The client's stream broke.
  <1>13. CASE /\ get' = [get EXCEPT ![r] =
                   [get[r] EXCEPT !.pc = "done", !.status = "INTERNAL"]]
              /\ Registry!Fault("stream")
    <2>1. get'[r] = [get[r] EXCEPT !.pc = "done", !.status = "INTERNAL"]
      BY <1>4, <1>13
    <2>2. get'[r].pc = "done"
      BY <1>4, <2>1 DEF GetState
    <2>3. faults'["stream"] # 0
      <3>1. faults \in [FaultKinds -> Nat] /\ "stream" \in FaultKinds
        BY <1>1, CoordinatorAssumption DEF RP!RegistryInv, RP!TypeOK
      <3>2. faults' = [faults EXCEPT !["stream"] = faults["stream"] + 1]
        BY <1>13 DEF Registry!Fault
      <3>. QED  BY <3>1, <3>2
    <2>4. Goal
      BY <2>2, <2>3 DEF ReaderAvail, Goal
    <2>. QED  BY <1>10, <2>2, <2>4
  \* Freed memory.
  <1>14. CASE get' = [get EXCEPT ![r] =
                   [get[r] EXCEPT !.pc = "done", !.status = "INTERNAL",
                                  !.ub = TRUE]]
    <2>1. get'[r] = [get[r] EXCEPT !.pc = "done", !.status = "INTERNAL",
                                   !.ub = TRUE]
      BY <1>4, <1>14
    <2>2. get'[r].pc = "done" /\ get'[r].ub
      BY <1>4, <2>1 DEF GetState
    <2>3. Goal
      BY <2>2 DEF ReaderAvail, Goal
    <2>. QED  BY <1>10, <2>2, <2>3
  <1>. QED  BY <1>6, <1>11, <1>12, <1>13, <1>14

\* A step of the coordinator without a failure.
LEMMA AvailQuiet ==
  ASSUME AvailInv, UNCHANGED <<registered_nodes, up, issued>>,
         faults' = faults \/ \E k \in FaultKinds : RP!Fault(k),
         clock' = clock \/ clock' = clock + 1,
         \A r \in Gets :
           /\ get'[r].pc \in {"idle", "found"} => get'[r].replica = 1
           /\ \/ SameReader(get[r], get'[r])
              \/ faults'["restart"] = 0 =>
                   ReaderAvail(get'[r], clock', Troubled, Failures',
                               faults'["stream"], issued, Ids)
  PROVE  FreshInv' /\ TroubleInv' /\ ReadersAvail'
  <1>1. TypeInv /\ clock \in Nat
    BY ListTypes DEF AvailInv, DurInv, ChunkInv
  <1>2. /\ Troubled' = Troubled /\ Ids' = Ids
        /\ \A id \in Ids : issued'[id] = issued[id]
    BY TroubleSame
  <1>3. Worsens(Troubled, Troubled', Failures, Failures')
    BY <1>1, <1>2, FailuresRise DEF Worsens
  <1>4. clock' \in Nat /\ clock <= clock' /\ Ids \subseteq Ids'
    BY <1>1, <1>2
  <1>5. ASSUME NEW r \in Gets
        PROVE  /\ get'[r].pc \in {"idle", "found"} => get'[r].replica = 1
               /\ \/ SameReader(get[r], get'[r])
                  \/ faults'["restart"] = 0 =>
                       ReaderAvail(get'[r], clock', Troubled', Failures',
                                   faults'["stream"], issued', Ids')
    BY <1>2, <1>5
  <1>. QED  BY <1>2, <1>3, <1>4, <1>5, AvailKept

\* A step that leaves the downloads alone too.
LEMMA AvailAside ==
  ASSUME AvailInv, UNCHANGED <<registered_nodes, up, issued>>, get' = get,
         faults' = faults \/ \E k \in FaultKinds : RP!Fault(k),
         clock' = clock \/ clock' = clock + 1
  PROVE  FreshInv' /\ TroubleInv' /\ ReadersAvail'
  BY AvailQuiet DEF AvailInv, FreshInv, SameReader

\* A download begins, and opens its file: no replica was tried yet.
LEMMA AvailGetStart ==
  ASSUME AvailInv, NEW r \in Gets,
         (\E p \in Paths : GetBegin(r, p)) \/ GetOpen(r)
  PROVE  FreshInv' /\ TroubleInv' /\ ReadersAvail'
  <1>1. TypeInv /\ FreshInv /\ TroubleInv
    BY DEF AvailInv, DurInv, ChunkInv
  <1>2. /\ UNCHANGED <<registered_nodes, up, issued>> /\ issued' = issued
        /\ clock' = clock /\ faults' = faults /\ Failures' = Failures
    BY DEF GetBegin, GetOpen, storeVars, registryVars, Failures
  <1>3. /\ get \in [Gets -> GetState] /\ get[r] \in GetState
        /\ get[r].pc \in {"idle", "found"} /\ get[r].status = "none"
        /\ get[r].replica = 1
    BY <1>1, GetFields DEF TypeInv, GetInv, GetBegin, GetOpen, GetShape, FreshInv
  <1>4. \A q \in Gets : q # r => get'[q] = get[q]
    BY <1>3 DEF GetBegin, GetOpen, GetDone
  <1>5. get'[r].replica = 1 /\ get'[r].status \in {"none", "NOT_FOUND"}
    <2>1. CASE GetDone(r, "NOT_FOUND")
      BY <1>3, <2>1 DEF GetDone, GetState
    <2>2. CASE \E p \in Paths : get' = [get EXCEPT ![r].pc = "found",
                                          ![r].path = p, ![r].began = clock]
      BY <1>3, <2>2 DEF GetState
    <2>3. CASE \E m : get' = [get EXCEPT ![r].pc = "reading", ![r].meta = m,
                                         ![r].ub = get[r].dangling]
      BY <1>3, <2>3 DEF GetState
    <2>. QED  BY <2>1, <2>2, <2>3 DEF GetBegin, GetOpen
  <1>6. Tried(get'[r], issued) = {}
    BY <1>5, CoordinatorAssumption DEF Tried
  <1>7. faults'["restart"] = 0 =>
          ReaderAvail(get'[r], clock', Troubled, Failures', faults'["stream"],
                      issued, Ids)
    BY <1>1, <1>2, <1>5, <1>6 DEF TroubleInv, ReaderAvail
  <1>8. ASSUME NEW q \in Gets
        PROVE  /\ get'[q].pc \in {"idle", "found"} => get'[q].replica = 1
               /\ \/ SameReader(get[q], get'[q])
                  \/ faults'["restart"] = 0 =>
                       ReaderAvail(get'[q], clock', Troubled, Failures',
                                   faults'["stream"], issued, Ids)
    BY <1>1, <1>4, <1>5, <1>7 DEF FreshInv, SameReader
  <1>. QED  BY <1>2, <1>8, AvailQuiet

\* A download that gives up on a chunk has tried all its homes.
LEMMA AvailGetEnd ==
  ASSUME AvailInv, NEW r \in Gets, GetEnd(r)
  PROVE  FreshInv' /\ TroubleInv' /\ ReadersAvail'
  <1>1. ChunkInv /\ TypeInv /\ FreshInv /\ ReadersAvail
    BY DEF AvailInv, DurInv, ChunkInv
  <1>2. /\ UNCHANGED <<registered_nodes, up, issued>> /\ issued' = issued
        /\ clock' = clock /\ faults' = faults /\ Failures' = Failures
    BY DEF GetEnd, storeVars, registryVars, Failures
  <1>3. /\ get \in [Gets -> GetState] /\ get[r] \in GetState
        /\ get[r].pc = "reading"
        /\ get[r].at \in Nat \ {0} /\ get[r].replica \in Nat \ {0}
        /\ get[r].meta.chunks \in Seq(ChunkInfo)
    BY <1>1, GetFields DEF TypeInv, GetInv, GetEnd
  <1>4. PICK s :
          /\ GetDone(r, s)
          /\ \/ s = "OK"
             \/ /\ get[r].at <= Len(get[r].meta.chunks)
                /\ get[r].replica > Len(get[r].meta.chunks[get[r].at].node_ids)
    BY DEF GetEnd
  <1>5. get'[r] = [get[r] EXCEPT !.pc = "done", !.status = s]
        /\ \A q \in Gets : q # r => get'[q] = get[q]
    BY <1>3, <1>4 DEF GetDone
  <1>6. /\ get'[r].pc = "done" /\ get'[r].status = s /\ get'[r].ub = get[r].ub
        /\ get'[r].began = get[r].began /\ get'[r].meta = get[r].meta
    BY <1>3, <1>5 DEF GetState
  <1>7. ASSUME faults["restart"] = 0, ~get[r].ub, s # "OK",
               clock - get[r].began <= TOMBSTONE_LIFETIME
        PROVE  \E i \in 1..Len(get[r].meta.chunks) :
                 /\ Range(get[r].meta.chunks[i].node_ids) \subseteq Ids
                 /\ Within(Homes(get[r].meta.chunks[i], issued), Failures)
    <2>1. get[r].at \in 1..Len(get[r].meta.chunks)
      BY <1>3, <1>4, <1>7
    <2>2. PICK c \in ChunkInfo : c = get[r].meta.chunks[get[r].at]
      BY <1>3, <2>1
    <2>3. /\ Len(c.node_ids) = ReplicationFactor /\ ReplicationFactor \in Nat
          /\ \A j \in 1..ReplicationFactor : c.node_ids[j] \in Ids
      BY <1>1, <1>3, <2>1, <2>2, CoordinatorAssumption
      DEF ChunkInv, OwnedInv, Owned
    <2>4. Range(c.node_ids) = {c.node_ids[j] : j \in 1..ReplicationFactor}
      BY <2>3 DEF ChunkInfo, Range
    <2>5. Within(Tried(get[r], issued) \cup Troubled, Failures)
      BY <1>1, <1>3, <1>7, <2>1 DEF ReadersAvail, ReaderAvail
    <2>6. \A j \in 1..ReplicationFactor : j < get[r].replica
      BY <1>3, <1>4, <1>7, <2>2, <2>3
    <2>7. Homes(c, issued) \subseteq Tried(get[r], issued)
      BY <2>2, <2>4, <2>6 DEF Homes, Tried
    <2>8. Failures \in Nat
      BY <1>1, <1>2, FailuresRise
    <2>9. Within(Homes(c, issued), Failures)
      <3>1. Homes(c, issued) \subseteq Tried(get[r], issued) \cup Troubled
        BY <2>7
      <3>. QED  BY <2>5, <2>8, <3>1, WithinFewer
    <2>. QED  BY <2>1, <2>2, <2>3, <2>4, <2>9
  <1>8. faults'["restart"] = 0 =>
          ReaderAvail(get'[r], clock', Troubled, Failures', faults'["stream"],
                      issued, Ids)
    BY <1>2, <1>6, <1>7 DEF ReaderAvail
  <1>9. ASSUME NEW q \in Gets
        PROVE  /\ get'[q].pc \in {"idle", "found"} => get'[q].replica = 1
               /\ \/ SameReader(get[q], get'[q])
                  \/ faults'["restart"] = 0 =>
                       ReaderAvail(get'[q], clock', Troubled, Failures',
                                   faults'["stream"], issued, Ids)
    BY <1>1, <1>5, <1>6, <1>8 DEF FreshInv, SameReader
  <1>. QED  BY <1>2, <1>9, AvailQuiet

\* A deletion may make a download's pointer dangle, which changes none of this.
LEMMA AvailDelTombstone ==
  ASSUME AvailInv, NEW d \in Dels, DelTombstone(d)
  PROVE  FreshInv' /\ TroubleInv' /\ ReadersAvail'
  <1>1. TypeInv /\ FreshInv
    BY DEF AvailInv, DurInv, ChunkInv
  <1>2. /\ UNCHANGED <<registered_nodes, up, issued>> /\ clock' = clock
        /\ faults' = faults
    BY <1>1, DeletedEntries DEF DelTombstone, registryVars
  <1>3. ASSUME NEW r \in Gets
        PROVE  SameReader(get[r], get'[r])
    <2>1. get[r] \in GetState
      BY <1>1 DEF TypeInv, GetInv
    <2>2. get'[r] = [get[r] EXCEPT !.dangling = @ \/ (get[r].pc = "found"
                                            /\ get[r].path = del[d].path)]
      BY DEF DelTombstone
    <2>. QED  BY <2>1, <2>2 DEF GetState, SameReader
  <1>4. \A r \in Gets : get'[r].pc \in {"idle", "found"} => get'[r].replica = 1
    BY <1>1, <1>3 DEF FreshInv, SameReader
  <1>. QED  BY <1>2, <1>3, <1>4, AvailQuiet

\* A data node's step.
LEMMA AvailDataNode ==
  ASSUME AvailInv, NEW n \in Nodes, DataNode(n)
  PROVE  FreshInv' /\ TroubleInv' /\ ReadersAvail'
  <1>1. TypeInv /\ FreshInv /\ clock \in Nat
    BY ListTypes DEF AvailInv, DurInv, ChunkInv
  <1>2. RP!DataNode(n) /\ get' = get /\ clock' = clock
    BY RegistrySteps DEF DataNode, requestVars, storeVars
  <1>3. \/ faults' = faults
        \/ \E k \in {"rpc", "stop", "crash", "race"} : RP!Fault(k)
    BY <1>2, Zenon DEF RP!DataNode, RP!Start, RP!Assign, RP!Stop,
       RP!StopUnheard, RP!Crash, RP!Serve, RP!Shutdown, RP!coordinatorVars
  <1>4. faults' = faults \/ \E k \in FaultKinds : RP!Fault(k)
    BY <1>3, CoordinatorAssumption
  <1>5. faults'["restart"] = 0 =>
          Worsens(Troubled, Troubled', Failures, Failures')
    BY <1>1, TroubleDataNode
  <1>6. Ids \subseteq Ids' /\ \A id \in Ids : issued'[id] = issued[id]
    BY <1>1, IdsGrow
  <1>7. ASSUME NEW r \in Gets
        PROVE  /\ get'[r].pc \in {"idle", "found"} => get'[r].replica = 1
               /\ SameReader(get[r], get'[r])
    BY <1>1, <1>2 DEF FreshInv, SameReader
  <1>8. clock' \in Nat /\ clock <= clock'
    BY <1>1, <1>2
  <1>. QED  BY <1>4, <1>5, <1>6, <1>7, <1>8, AvailKept

\* A restart is a failure of another kind: every download is cut off.
LEMMA AvailRestart ==
  ASSUME AvailInv, CoordinatorRestart
  PROVE  FreshInv' /\ TroubleInv' /\ ReadersAvail'
  <1>1. TypeInv /\ FreshInv
    BY DEF AvailInv, DurInv, ChunkInv
  <1>2. faults'["restart"] # 0
    <2>1. faults \in [FaultKinds -> Nat] /\ "restart" \in FaultKinds
      BY <1>1, CoordinatorAssumption DEF TypeInv, RP!RegistryInv, RP!TypeOK
    <2>2. faults' = [faults EXCEPT !["restart"] = faults["restart"] + 1]
      BY DEF CoordinatorRestart, Registry!CoordinatorRestart, Registry!Fault
    <2>. QED  BY <2>1, <2>2
  <1>3. ASSUME NEW r \in Gets
        PROVE  get'[r].pc = "done" \/ get'[r] = get[r]
    <2>1. get[r] \in GetState /\ get'[r] = CutOff(get[r])
      BY <1>1 DEF TypeInv, GetInv, CoordinatorRestart
    <2>. QED  BY <2>1 DEF CutOff, GetState
  <1>4. FreshInv'
    BY <1>1, <1>3 DEF FreshInv
  <1>. QED  BY <1>2, <1>4 DEF TroubleInv, ReadersAvail

\* Initially no id is issued and nothing is read.
LEMMA AvailInvInit == Init => AvailInv
  <1> SUFFICES ASSUME Init PROVE AvailInv
    OBVIOUS
  <1>1. DurInv /\ TypeInv
    BY DurInvInit DEF DurInv, ChunkInv
  <1>2. /\ \A r \in Gets : get[r].pc = "idle" /\ get[r].status = "none"
                           /\ get[r].replica = 1
        /\ Ids = {}
    BY DEF Init, IdleGet, Ids, Registry!Init, Registry!EmptyRegistry
  <1>3. Failures = 0
    <2>1. {"stop", "crash", "rpc", "call", "race"} \subseteq FaultKinds
      BY CoordinatorAssumption
    <2>. QED  BY <2>1 DEF Init, Registry!Init, Failures
  <1>4. Within(Troubled, Failures)
    <2>1. Troubled = {}
      BY <1>2 DEF Troubled
    <2>. QED  BY <1>3, <2>1, FS_EmptySet DEF Within
  <1>5. FreshInv /\ TroubleInv /\ ReadersAvail
    BY <1>2, <1>4 DEF FreshInv, TroubleInv, ReadersAvail, ReaderAvail
  <1>. QED  BY <1>1, <1>5 DEF AvailInv

\* Every step keeps AvailInv.
LEMMA AvailInvNext == AvailInv /\ [Next]_vars => AvailInv'
  <1> SUFFICES ASSUME AvailInv, [Next]_vars
               PROVE  FreshInv' /\ TroubleInv' /\ ReadersAvail'
    BY DurInvNext DEF AvailInv
  <1>0. TypeInv
    BY DEF AvailInv, DurInv, ChunkInv
  <1>1. ASSUME NEW w \in Puts,
               \/ \E p \in Paths, c \in Contents : PutBegin(w, p, c)
               \/ PutUnnamed(w) \/ PutStep(w) \/ PutCommit(w)
        PROVE  FreshInv' /\ TroubleInv' /\ ReadersAvail'
    <2>1. get' = get /\ clock' = clock
      BY <1>1 DEF PutBegin, PutUnnamed, PutStep, PutReceive, PutPlace, PutTask,
         PutJoin, PutCommit, storeVars, Store!putFile
    <2>2. UNCHANGED <<registered_nodes, up, issued>>
      BY <1>1 DEF PutBegin, PutUnnamed, PutStep, PutReceive, PutPlace, PutTask,
         PutJoin, PutCommit, registryVars, Registry!selectNodesForReplication
    <2>3. faults' = faults
          \/ \E k \in {"stream", "write", "call"} : Registry!Fault(k)
      BY <1>1 DEF PutBegin, PutUnnamed, PutStep, PutReceive, PutPlace, PutTask,
         PutJoin, PutCommit, NoFault, Registry!selectNodesForReplication
    <2>4. faults' = faults \/ \E k \in FaultKinds : RP!Fault(k)
      BY <2>3, RegistrySteps, CoordinatorAssumption
    <2>. QED  BY <2>1, <2>2, <2>4, AvailAside
  <1>2. ASSUME NEW r \in Gets, (\E p \in Paths : GetBegin(r, p)) \/ GetStep(r)
        PROVE  FreshInv' /\ TroubleInv' /\ ReadersAvail'
    BY <1>2, AvailGetStart, AvailGetTry, AvailGetEnd DEF GetStep
  <1>3. ASSUME NEW d \in Dels, DelTombstone(d)
        PROVE  FreshInv' /\ TroubleInv' /\ ReadersAvail'
    BY <1>3, AvailDelTombstone
  <1>4. CASE \/ UNCHANGED vars
             \/ CleanupWake \/ CleanupStep \/ Tick
             \/ \E d \in Dels, p \in Paths : DelBegin(d, p)
    <2>1. UNCHANGED <<registered_nodes, up, issued>> /\ get' = get
      BY <1>4 DEF vars, CleanupWake, CleanupStep, CleanupSkip, CleanupDelete,
         CleanupErase, CleanupEnd, Tick, DelBegin, registryVars, requestVars
    <2>2. faults' = faults \/ Registry!Fault("call")
      BY <1>4 DEF vars, CleanupWake, CleanupStep, CleanupSkip, CleanupDelete,
         CleanupErase, CleanupEnd, Tick, DelBegin, NoFault
    <2>3. faults' = faults \/ \E k \in FaultKinds : RP!Fault(k)
      BY <2>2, RegistrySteps, CoordinatorAssumption
    <2>4. clock' = clock \/ clock' = clock + 1
      BY <1>4 DEF vars, CleanupWake, CleanupStep, CleanupSkip, CleanupDelete,
         CleanupErase, CleanupEnd, Tick, DelBegin, storeVars,
         Store!CleanupBegin, Store!CleanupSkip, Store!CleanupErase,
         Store!CleanupEnd, Store!Tick
    <2>. QED  BY <2>1, <2>3, <2>4, AvailAside
  <1>5. ASSUME NEW n \in Nodes, DataNode(n)
        PROVE  FreshInv' /\ TroubleInv' /\ ReadersAvail'
    BY <1>5, AvailDataNode
  <1>6. CASE CoordinatorRestart
    BY <1>6, AvailRestart
  <1>. QED  BY <1>1, <1>2, <1>3, <1>4, <1>5, <1>6 DEF Next

\* A node that a download inside the grace period has tried in vain, or would
\* try in vain now, has a failure of its own, whatever nodes come and go.
THEOREM CoordinatorAvailInv == Spec => []AvailInv
  <1>. QED  BY AvailInvInit, AvailInvNext, PTL DEF Spec

\* A download inside the grace period fails only when there were at least as
\* many failures of nodes and calls as some chunk has distinct homes: the
\* failover of readChunkWithFallback.
THEOREM CoordinatorReadsAvailable == Spec => []ReadsAvailable
  <1>1. AvailInv => ReadsAvailable
    <2> SUFFICES ASSUME AvailInv, faults["stream"] = 0, faults["restart"] = 0,
                        NEW r \in Gets, get[r].status = "INTERNAL", ~get[r].ub,
                        clock - get[r].began <= TOMBSTONE_LIFETIME
                 PROVE  \E c \in Range(get[r].meta.chunks) :
                          Cardinality(HomesOf(c)) <= Failures
      BY DEF ReadsAvailable, Failures
    <2>1. PICK i \in 1..Len(get[r].meta.chunks) :
            Within(Homes(get[r].meta.chunks[i], issued), Failures)
      BY DEF AvailInv, ReadersAvail, ReaderAvail
    <2>2. get[r].meta.chunks \in Seq(ChunkInfo)
      BY GetFields DEF AvailInv, DurInv, ChunkInv
    <2>3. get[r].meta.chunks[i] \in Range(get[r].meta.chunks)
      BY <2>2 DEF Range
    <2>4. HomesOf(get[r].meta.chunks[i]) = Homes(get[r].meta.chunks[i], issued)
      BY DEF HomesOf, Homes
    <2>. QED  BY <2>1, <2>3, <2>4 DEF Within
  <1>. QED  BY <1>1, CoordinatorAvailInv, PTL
=============================================================================
