------------------------- MODULE CoordinatorChunks -------------------------
(***************************************************************************)
(* Who owns a chunk: no chunk number is shared by two files, tombstones or *)
(* uploads, and a download shares its chunks only with the file it opened  *)
(* or with the tombstone that file became after the download began.  And   *)
(* where chunks are: on the nodes of their replicas only, so that the      *)
(* cleanup of a tombstone removes them all.                                *)
(***************************************************************************)
EXTENDS CoordinatorProofs

\* A chunk list of this life of the coordinator: its numbers were handed out,
\* each once, and every chunk has its replicas under ids that were issued.
Owned(chunks, counter, ids) ==
  /\ \A i \in 1..Len(chunks) :
       /\ chunks[i].chunk_id < counter
       /\ Len(chunks[i].node_ids) = ReplicationFactor
       /\ \A j \in 1..ReplicationFactor : chunks[i].node_ids[j] \in ids
  /\ \A i, j \in 1..Len(chunks) :
       i # j => chunks[i].chunk_id # chunks[j].chunk_id

Disjoint(cs, ds) ==
  \A i \in 1..Len(cs), j \in 1..Len(ds) : cs[i].chunk_id # ds[j].chunk_id

Ids == DOMAIN issued

OwnedInv ==
  /\ \A p \in Paths :
       entries[p] # NoFile => Owned(entries[p].chunks, chunk_id_counter, Ids)
  /\ \A i \in 1..Len(deleted_entries) :
       Owned(deleted_entries[i].meta.chunks, chunk_id_counter, Ids)
  /\ \A w \in Puts : Owned(put[w].chunks, chunk_id_counter, Ids)
  /\ \A r \in Gets :
       get[r].pc = "reading"
         => Owned(get[r].meta.chunks, chunk_id_counter, Ids)

DisjointInv ==
  /\ \A p, q \in Paths :
       p # q /\ entries[p] # NoFile /\ entries[q] # NoFile
         => Disjoint(entries[p].chunks, entries[q].chunks)
  /\ \A p \in Paths, i \in 1..Len(deleted_entries) :
       entries[p] # NoFile
         => Disjoint(entries[p].chunks, deleted_entries[i].meta.chunks)
  /\ \A p \in Paths, w \in Puts :
       entries[p] # NoFile => Disjoint(entries[p].chunks, put[w].chunks)
  /\ \A i, j \in 1..Len(deleted_entries) :
       i # j => Disjoint(deleted_entries[i].meta.chunks,
                         deleted_entries[j].meta.chunks)
  /\ \A i \in 1..Len(deleted_entries), w \in Puts :
       Disjoint(deleted_entries[i].meta.chunks, put[w].chunks)
  /\ \A v, w \in Puts : v # w => Disjoint(put[v].chunks, put[w].chunks)

ReaderInv ==
  \A r \in Gets :
    get[r].pc = "reading" /\ ~get[r].ub =>
      /\ \A w \in Puts : Disjoint(get[r].meta.chunks, put[w].chunks)
      /\ \A i \in 1..Len(deleted_entries) :
           \/ Disjoint(get[r].meta.chunks, deleted_entries[i].meta.chunks)
           \/ deleted_entries[i].delete_time >= get[r].began

\* The inductive invariant.
ChunkInv == TypeInv /\ OwnedInv /\ DisjointInv /\ ReaderInv

(***************************************************************************)
(* Chunk lists.                                                            *)
(***************************************************************************)

\* The numbers of a chunk list are naturals.
LEMMA ChunkNumbers ==
  ASSUME NEW cs \in Seq(ChunkInfo)
  PROVE  \A i \in 1..Len(cs) : cs[i] \in ChunkInfo /\ cs[i].chunk_id \in Nat
  <1>1. \A i \in 1..Len(cs) : cs[i] \in ChunkInfo
    OBVIOUS
  <1>. QED  BY <1>1 DEF ChunkInfo

\* Time and registrations do not take ownership away.
LEMMA OwnedGrows ==
  ASSUME NEW cs \in Seq(ChunkInfo), NEW a \in Nat, NEW b \in Nat, a <= b,
         NEW S, NEW T, S \subseteq T, Owned(cs, a, S)
  PROVE  Owned(cs, b, T)
  <1>1. \A i \in 1..Len(cs) : cs[i].chunk_id \in Nat
    BY ChunkNumbers
  <1>2. \A x \in Nat : x < a => x < b
    OBVIOUS
  <1>. QED  BY <1>1, <1>2 DEF Owned

\* No chunks: nothing to own, nothing to share.
LEMMA EmptyChunks ==
  /\ <<>> \in Seq(ChunkInfo)
  /\ \A a, S : Owned(<<>>, a, S)
  /\ \A cs : Disjoint(<<>>, cs) /\ Disjoint(cs, <<>>)
  BY DEF Owned, Disjoint

\* Sharing no chunk is symmetric.
LEMMA DisjointSymmetric ==
  \A cs, ds : Disjoint(cs, ds) => Disjoint(ds, cs)
  BY DEF Disjoint

\* A new number is nobody's yet.
LEMMA AppendChunk ==
  ASSUME NEW cs \in Seq(ChunkInfo), NEW n \in Nat, NEW S, Owned(cs, n, S),
         NEW ids \in Seq(Nat), Len(ids) = ReplicationFactor,
         \A j \in 1..ReplicationFactor : ids[j] \in S
  PROVE  LET new == Append(cs, [chunk_id |-> n, node_ids |-> ids])
         IN  /\ Owned(new, n + 1, S)
             /\ \A ds : Owned(ds, n, S) /\ ds \in Seq(ChunkInfo)
                          /\ Disjoint(ds, cs) => Disjoint(ds, new)
  <1> DEFINE c == [chunk_id |-> n, node_ids |-> ids]
             new == Append(cs, c)
             k == Len(cs)
  <1>1. c \in ChunkInfo /\ c.chunk_id = n /\ c.node_ids = ids
    BY DEF ChunkInfo
  <1>2. k \in Nat
    OBVIOUS
  <1> HIDE DEF c
  <1>3. /\ new \in Seq(ChunkInfo) /\ Len(new) = k + 1
        /\ \A i \in 1..k : new[i] = cs[i]
        /\ new[k + 1] = c
    BY <1>1
  <1> HIDE DEF new, k
  <1>4. \A i \in 1..(k + 1) : i \in 1..k \/ i = k + 1
    BY <1>2
  <1>5. \A i \in 1..k : cs[i].chunk_id \in Nat /\ cs[i].chunk_id < n
    BY ChunkNumbers DEF Owned, k
  <1>6. \A i \in 1..(k + 1) :
          /\ new[i].chunk_id < n + 1
          /\ Len(new[i].node_ids) = ReplicationFactor
          /\ \A j \in 1..ReplicationFactor : new[i].node_ids[j] \in S
    <2>1. \A i \in 1..k :
            /\ cs[i].chunk_id < n + 1
            /\ Len(cs[i].node_ids) = ReplicationFactor
            /\ \A j \in 1..ReplicationFactor : cs[i].node_ids[j] \in S
      BY <1>5 DEF Owned, k
    <2>. QED  BY <1>1, <1>3, <1>4, <2>1
  <1>7. \A i, j \in 1..k : i # j => cs[i].chunk_id # cs[j].chunk_id
    BY DEF Owned, k
  <1>8. \A i, j \in 1..(k + 1) : i # j => new[i].chunk_id # new[j].chunk_id
    BY <1>1, <1>3, <1>4, <1>5, <1>7
  <1>9. Owned(new, n + 1, S)
    BY <1>3, <1>6, <1>8 DEF Owned
  <1>10. ASSUME NEW ds, Owned(ds, n, S), ds \in Seq(ChunkInfo), Disjoint(ds, cs)
         PROVE  Disjoint(ds, new)
    <2>1. \A i \in 1..Len(ds) : ds[i].chunk_id \in Nat /\ ds[i].chunk_id < n
      BY <1>10, ChunkNumbers DEF Owned
    <2>2. \A i \in 1..Len(ds), j \in 1..k : ds[i].chunk_id # cs[j].chunk_id
      BY <1>10 DEF Disjoint, k
    <2>3. \A i \in 1..Len(ds), j \in 1..(k + 1) :
            ds[i].chunk_id # new[j].chunk_id
      BY <1>1, <1>3, <1>4, <2>1, <2>2
    <2>. QED  BY <1>3, <2>3 DEF Disjoint
  <1>. QED  BY <1>9, <1>10 DEF new, c

(***************************************************************************)
(* Steps.                                                                  *)
(***************************************************************************)

\* The chunk lists are sequences of chunks.
LEMMA ListTypes ==
  ASSUME TypeInv
  PROVE  /\ \A p \in Paths : entries[p] # NoFile
              => entries[p] \in FileMeta /\ entries[p].chunks \in Seq(ChunkInfo)
         /\ deleted_entries \in Seq(SP!Tombstone)
         /\ Len(deleted_entries) \in Nat
         /\ \A i \in 1..Len(deleted_entries) :
              /\ deleted_entries[i] \in SP!Tombstone
              /\ deleted_entries[i].meta.chunks \in Seq(ChunkInfo)
              /\ deleted_entries[i].delete_time \in Nat
         /\ \A w \in Puts : put[w].chunks \in Seq(ChunkInfo)
         /\ \A r \in Gets : get[r].meta.chunks \in Seq(ChunkInfo)
         /\ chunk_id_counter \in Nat /\ clock \in Nat
  <1>1. /\ \A p \in Paths : entries[p] \in FileMeta \cup {NoFile}
        /\ deleted_entries \in Seq(SP!Tombstone) /\ clock \in Nat
    BY DEF TypeInv, SP!StoreInv, SP!TypeOK
  <1>2. \A i \in 1..Len(deleted_entries) : deleted_entries[i] \in SP!Tombstone
    BY <1>1
  <1>3. \A w \in Puts : put[w].chunks \in Seq(ChunkInfo)
    BY DEF TypeInv, PutInv, PutState
  <1>4. \A r \in Gets : get[r].meta.chunks \in Seq(ChunkInfo)
    BY GetFields
  <1>5. \A m \in FileMeta : m.chunks \in Seq(ChunkInfo)
    BY DEF FileMeta
  <1>6. chunk_id_counter \in Nat
    BY DEF TypeInv, DiskInv
  <1>7. \A i \in 1..Len(deleted_entries) :
          deleted_entries[i].meta \in FileMeta
          /\ deleted_entries[i].delete_time \in Nat
    BY <1>2 DEF SP!Tombstone
  <1>. QED  BY <1>1, <1>2, <1>3, <1>4, <1>5, <1>6, <1>7

\* A download goes on with the file it opened, or ends.
ReadersGoOn ==
  \A r \in Gets : get'[r].pc = "reading" =>
    /\ get[r].pc = "reading"
    /\ get'[r].meta = get[r].meta /\ get'[r].began = get[r].began
    /\ ~get'[r].ub => ~get[r].ub

\* Steps that create no chunk and move none: uploads may forget theirs.
LEMMA ChunksStay ==
  ASSUME ChunkInv, entries' = entries, deleted_entries' = deleted_entries,
         chunk_id_counter' = chunk_id_counter, Ids \subseteq Ids',
         \A w \in Puts : put'[w].chunks = put[w].chunks \/ put'[w].chunks = <<>>,
         ReadersGoOn
  PROVE  OwnedInv' /\ DisjointInv' /\ ReaderInv'
  <1>1. TypeInv /\ OwnedInv /\ DisjointInv /\ ReaderInv
    BY DEF ChunkInv
  <1>2. \A cs \in Seq(ChunkInfo) :
          Owned(cs, chunk_id_counter, Ids) => Owned(cs, chunk_id_counter, Ids')
    BY <1>1, ListTypes, OwnedGrows
  <1>3. OwnedInv'
    BY <1>1, <1>2, ListTypes, EmptyChunks DEF OwnedInv, ReadersGoOn
  <1>4. DisjointInv'
    BY <1>1, EmptyChunks DEF DisjointInv
  <1>5. ReaderInv'
    BY <1>1, EmptyChunks DEF ReaderInv, ReadersGoOn
  <1>. QED  BY <1>3, <1>4, <1>5

\* The next chunk of an upload has a new number.
LEMMA ChunksPutPlace ==
  ASSUME ChunkInv, NEW w \in Puts, PutPlace(w)
  PROVE  OwnedInv' /\ DisjointInv' /\ ReaderInv'
  <1>1. TypeInv /\ OwnedInv /\ DisjointInv /\ ReaderInv
    BY DEF ChunkInv
  <1>2. PICK ids \in Registry!Selections :
          /\ Registry!selectNodesForReplication(ids)
          /\ \/ ids = <<>> /\ PutDone(w, "INTERNAL")
             \/ /\ ids # <<>>
                /\ put' = [put EXCEPT
                     ![w].pc = "sending",
                     ![w].chunks = Append(@, [chunk_id |-> chunk_id_counter,
                                              node_ids |-> ids]),
                     ![w].tasks = [i \in DOMAIN ids |-> "sent"]]
    BY DEF PutPlace
  <1> DEFINE n == chunk_id_counter
             new == Append(put[w].chunks, [chunk_id |-> n, node_ids |-> ids])
  <1>3. /\ n \in Nat /\ n' = n + 1 /\ n' \in Nat /\ n <= n'
        /\ entries' = entries /\ deleted_entries' = deleted_entries
        /\ get' = get /\ Ids' = Ids
    BY <1>1, <1>2, ListTypes DEF PutPlace, NextChunkId, storeVars, Ids,
       Registry!selectNodesForReplication
  <1>4. \A cs \in Seq(ChunkInfo) : Owned(cs, n, Ids) => Owned(cs, n', Ids)
    BY <1>3, OwnedGrows
  <1>5. put \in [Puts -> PutState]
    BY <1>1 DEF TypeInv, PutInv
  <1>6. \A v \in Puts : v # w => put'[v] = put[v]
    BY <1>2, <1>5 DEF PutDone
  <1>7. \/ put'[w].chunks = <<>>
        \/ /\ put'[w].chunks = new
           /\ Owned(new, n', Ids)
           /\ \A ds : Owned(ds, n, Ids) /\ ds \in Seq(ChunkInfo)
                        /\ Disjoint(ds, put[w].chunks) => Disjoint(ds, new)
    <2>1. CASE PutDone(w, "INTERNAL")
      BY <1>5, <2>1 DEF PutDone, IdlePut
    <2>2. CASE ids # <<>> /\ ~PutDone(w, "INTERNAL")
      <3>1. put'[w].chunks = new
        BY <1>2, <1>5, <2>2 DEF PutState
      <3>2. /\ ids \in Seq(Nat) /\ Len(ids) = ReplicationFactor
            /\ \A j \in 1..ReplicationFactor : ids[j] \in Ids
        BY <1>1, <2>2, SelectedIds DEF TypeInv, Ids
      <3>3. put[w].chunks \in Seq(ChunkInfo) /\ Owned(put[w].chunks, n, Ids)
        BY <1>1, ListTypes DEF OwnedInv
      <3>4. /\ Owned(new, n + 1, Ids)
            /\ \A ds : Owned(ds, n, Ids) /\ ds \in Seq(ChunkInfo)
                         /\ Disjoint(ds, put[w].chunks) => Disjoint(ds, new)
        BY <1>3, <3>2, <3>3, AppendChunk
      <3> HIDE DEF new
      <3>. QED  BY <1>3, <3>1, <3>4
    <2>. QED  BY <1>2, <2>1, <2>2
  <1> HIDE DEF new
  <1>8. OwnedInv'
    BY <1>1, <1>3, <1>4, <1>6, <1>7, ListTypes, EmptyChunks DEF OwnedInv
  <1>9. DisjointInv'
    <2>1. \A ds \in Seq(ChunkInfo) :
            Owned(ds, n, Ids) /\ Disjoint(ds, put[w].chunks)
              => Disjoint(ds, put'[w].chunks)
      BY <1>7, EmptyChunks
    <2>2. \A p \in Paths, v \in Puts :
            entries[p] # NoFile => Disjoint(entries[p].chunks, put'[v].chunks)
      BY <1>1, <1>6, <2>1, ListTypes DEF DisjointInv, OwnedInv
    <2>3. \A i \in 1..Len(deleted_entries), v \in Puts :
            Disjoint(deleted_entries[i].meta.chunks, put'[v].chunks)
      BY <1>1, <1>6, <2>1, ListTypes DEF DisjointInv, OwnedInv
    <2>4. \A u, v \in Puts : u # v => Disjoint(put'[u].chunks, put'[v].chunks)
      <3>1. \A u \in Puts : u # w => Disjoint(put[u].chunks, put'[w].chunks)
        BY <1>1, <2>1, ListTypes DEF DisjointInv, OwnedInv
      <3>. QED  BY <1>1, <1>6, <3>1, DisjointSymmetric DEF DisjointInv
    <2>. QED  BY <1>1, <1>3, <2>2, <2>3, <2>4 DEF DisjointInv
  <1>10. ReaderInv'
    <2>1. ASSUME NEW r \in Gets, get[r].pc = "reading", ~get[r].ub,
                 NEW v \in Puts
          PROVE  Disjoint(get[r].meta.chunks, put'[v].chunks)
      <3>1. /\ Disjoint(get[r].meta.chunks, put[v].chunks)
            /\ Disjoint(get[r].meta.chunks, put[w].chunks)
            /\ Owned(get[r].meta.chunks, n, Ids)
            /\ get[r].meta.chunks \in Seq(ChunkInfo)
        BY <1>1, <2>1, ListTypes DEF ReaderInv, OwnedInv
      <3>. QED  BY <1>6, <1>7, <3>1, EmptyChunks
    <2>. QED  BY <1>1, <1>3, <2>1 DEF ReaderInv
  <1>. QED  BY <1>8, <1>9, <1>10

\* The upload's chunks become the file's; what the file had goes.
LEMMA ChunksPutCommit ==
  ASSUME ChunkInv, NEW w \in Puts, PutCommit(w)
  PROVE  OwnedInv' /\ DisjointInv' /\ ReaderInv'
  <1>1. TypeInv /\ OwnedInv /\ DisjointInv /\ ReaderInv
    BY DEF ChunkInv
  <1> DEFINE m == [data |-> put[w].data, chunks |-> put[w].chunks]
             p == put[w].path
  <1>2. /\ entries' = [entries EXCEPT ![p] = m]
        /\ deleted_entries' = deleted_entries /\ get' = get
        /\ chunk_id_counter' = chunk_id_counter /\ Ids' = Ids
    BY DEF PutCommit, Store!putFile, registryVars, Ids
  <1>3. /\ p \in Paths /\ entries \in [Paths -> FileMeta \cup {NoFile}]
        /\ put \in [Puts -> PutState]
    BY <1>1 DEF TypeInv, PutInv, PutShape, PutCommit, SP!StoreInv, SP!TypeOK
  <1>4. put'[w].chunks = <<>> /\ \A v \in Puts : v # w => put'[v] = put[v]
    BY <1>3 DEF PutCommit, PutDone, IdlePut
  <1>5. entries'[p].chunks = put[w].chunks
        /\ \A q \in Paths : q # p => entries'[q] = entries[q]
    BY <1>2, <1>3
  <1> HIDE DEF m, p
  <1>6. OwnedInv'
    BY <1>1, <1>2, <1>4, <1>5, EmptyChunks DEF OwnedInv
  <1>7. DisjointInv'
    BY <1>1, <1>2, <1>4, <1>5, EmptyChunks, DisjointSymmetric DEF DisjointInv
  <1>8. ReaderInv'
    BY <1>1, <1>2, <1>4, EmptyChunks DEF ReaderInv
  <1>. QED  BY <1>6, <1>7, <1>8

\* A download opens a file; through a dangling pointer it may see any file.
LEMMA ChunksGetOpen ==
  ASSUME ChunkInv, NEW r \in Gets, GetOpen(r)
  PROVE  OwnedInv' /\ DisjointInv' /\ ReaderInv'
  <1>1. TypeInv /\ OwnedInv /\ DisjointInv /\ ReaderInv
    BY DEF ChunkInv
  <1>2. /\ entries' = entries /\ deleted_entries' = deleted_entries
        /\ put' = put /\ chunk_id_counter' = chunk_id_counter /\ Ids' = Ids
    BY DEF GetOpen, storeVars, registryVars, Ids
  <1>3. PICK m \in FileMeta :
          /\ \/ get[r].dangling /\ (m = EmptyMeta \/ \E p \in Paths : m = entries[p])
             \/ ~get[r].dangling /\ m = entries[get[r].path]
                /\ get[r].path \in Paths
          /\ get' = [get EXCEPT ![r].pc = "reading", ![r].meta = m,
                                ![r].ub = get[r].dangling]
    BY <1>1, OpenedMeta
  <1>4. get \in [Gets -> GetState]
    BY <1>1 DEF TypeInv, GetInv
  <1>5. /\ get'[r].meta = m /\ get'[r].ub = get[r].dangling
        /\ \A s \in Gets : s # r => get'[s] = get[s]
    BY <1>3, <1>4 DEF GetState
  <1>6. m # NoFile
    BY CoordinatorAssumption
  <1>7. Owned(m.chunks, chunk_id_counter, Ids)
    BY <1>1, <1>3, <1>6, EmptyChunks DEF OwnedInv, EmptyMeta
  <1>8. ~get[r].dangling =>
          /\ \A w \in Puts : Disjoint(m.chunks, put[w].chunks)
          /\ \A i \in 1..Len(deleted_entries) :
               Disjoint(m.chunks, deleted_entries[i].meta.chunks)
    BY <1>1, <1>3, <1>6 DEF DisjointInv
  <1>9. OwnedInv' /\ DisjointInv'
    BY <1>1, <1>2, <1>5, <1>7 DEF OwnedInv, DisjointInv
  <1>10. ReaderInv'
    BY <1>1, <1>2, <1>5, <1>8 DEF ReaderInv
  <1>. QED  BY <1>9, <1>10

\* What a deletion makes of the deque: it loses k tombstones at the front, all
\* aged, and gains one that has the file and the time, unless that went too.
LEMMA DequeAfterDelete ==
  ASSUME TypeInv, NEW p \in Paths, SP!Found(p), SP!deletePath(p)
  PROVE  \E k \in Nat :
           /\ Len(deleted_entries') \in Nat
           /\ \A i \in 1..Len(deleted_entries') :
                \/ /\ i + k \in 1..Len(deleted_entries)
                   /\ deleted_entries'[i] = deleted_entries[i + k]
                \/ /\ i + k = Len(deleted_entries) + 1
                   /\ deleted_entries'[i].meta = entries[p]
                   /\ deleted_entries'[i].delete_time = clock
  <1> DEFINE n == Len(deleted_entries)
             s == SP!Pushed(p)
  <1>1. SP!StoreInv /\ deleted_entries \in Seq(SP!Tombstone) /\ n \in Nat
    BY ListTypes DEF TypeInv
  <1>2. SP!NewTombstone(p) \in SP!Tombstone
    BY <1>1, StoreAssumed, SP!NewTombstoneType
  <1>3. /\ s \in Seq(SP!Tombstone) /\ Len(s) = n + 1
        /\ \A i \in 1..n : s[i] = deleted_entries[i]
        /\ s[n + 1] = SP!NewTombstone(p)
    BY <1>1, <1>2 DEF SP!Pushed
  <1>4. PICK k \in 0..Len(s) : deleted_entries' = SubSeq(s, k + 1, Len(s))
    BY <1>1, StoreAssumed, SP!DeletePathDeque
  <1> HIDE DEF s, n
  <1>5. k \in Nat /\ k <= n + 1
    BY <1>1, <1>3, <1>4
  <1>6. /\ Len(deleted_entries') = (n + 1) - k
        /\ \A i \in 1..((n + 1) - k) : deleted_entries'[i] = s[i + k]
    <2> DEFINE t == SubSeq(s, k + 1, n + 1)
               T == SP!Tombstone
    <2>1. \A i \in (k + 1)..(n + 1) : s[i] \in T
      <3>1. \A i \in (k + 1)..(n + 1) : i \in 1..(n + 1)
        BY <1>1, <1>5
      <3>2. \A i \in 1..(n + 1) : s[i] \in T
        BY <1>1, <1>3
      <3>. QED  BY <3>1, <3>2
    <2>2. k + 1 \in Int /\ n + 1 \in Int
      BY <1>1, <1>5
    <2> HIDE DEF T
    <2>3. /\ Len(t) = IF k + 1 <= n + 1 THEN (n + 1) - (k + 1) + 1 ELSE 0
          /\ \A i \in 1..((n + 1) - (k + 1) + 1) : t[i] = s[(k + 1) + i - 1]
      BY <2>1, <2>2, SubSeqProperties
    <2>4. deleted_entries' = t
      BY <1>3, <1>4
    <2> HIDE DEF t
    <2>5. /\ (n + 1) - (k + 1) + 1 = (n + 1) - k
          /\ \A i \in 1..((n + 1) - k) : (k + 1) + i - 1 = i + k
      BY <1>1, <1>5
    <2>6. Len(t) = (n + 1) - k
      BY <1>1, <1>5, <2>3
    <2>7. \A i \in 1..((n + 1) - k) : t[i] = s[i + k]
      BY <2>3, <2>5
    <2>. QED  BY <2>4, <2>6, <2>7
  <1>7. ASSUME NEW i \in 1..((n + 1) - k)
        PROVE  \/ i + k \in 1..n /\ deleted_entries'[i] = deleted_entries[i + k]
               \/ i + k = n + 1 /\ deleted_entries'[i] = SP!NewTombstone(p)
    <2>1. i + k \in 1..n \/ i + k = n + 1
      BY <1>1, <1>5
    <2>. QED  BY <1>3, <1>6, <2>1
  <1>8. SP!NewTombstone(p).meta = entries[p]
        /\ SP!NewTombstone(p).delete_time = clock
    BY DEF SP!NewTombstone
  <1>9. Len(deleted_entries') \in Nat
    BY <1>1, <1>5, <1>6
  <1>. QED  BY <1>5, <1>6, <1>7, <1>8, <1>9 DEF n

\* The file's chunks become the tombstone's.
LEMMA ChunksDelTombstone ==
  ASSUME ChunkInv, NEW d \in Dels, DelTombstone(d)
  PROVE  OwnedInv' /\ DisjointInv' /\ ReaderInv'
  <1>1. TypeInv /\ OwnedInv /\ DisjointInv /\ ReaderInv
    BY DEF ChunkInv
  <1> DEFINE p == del[d].path
  <1>2. /\ put' = put /\ chunk_id_counter' = chunk_id_counter /\ Ids' = Ids
    BY DEF DelTombstone, registryVars, Ids
  <1>3. /\ p \in Paths /\ SP!deletePath(p)
        /\ \/ UNCHANGED storeVars
           \/ /\ SP!Found(p) /\ entries[p] # NoFile
              /\ entries' = [entries EXCEPT ![p] = NoFile]
    BY <1>1, DeletedEntries
  <1>4. ASSUME NEW r \in Gets
        PROVE  /\ get'[r].pc = get[r].pc /\ get'[r].ub = get[r].ub
               /\ get'[r].meta = get[r].meta /\ get'[r].began = get[r].began
    <2>1. get[r] \in GetState
      BY <1>1 DEF TypeInv, GetInv
    <2>2. get'[r] = [get[r] EXCEPT !.dangling = @ \/ (get[r].pc = "found"
                                                      /\ get[r].path = p)]
      BY DEF DelTombstone
    <2>. QED  BY <2>1, <2>2 DEF GetState
  <1>5. CASE UNCHANGED storeVars
    <2>1. entries' = entries /\ deleted_entries' = deleted_entries
      BY <1>5 DEF storeVars
    <2>. QED  BY <1>2, <1>4, <2>1, ChunksStay DEF ReadersGoOn
  <1>6. CASE /\ SP!Found(p) /\ entries[p] # NoFile
             /\ entries' = [entries EXCEPT ![p] = NoFile]
    <2>1. PICK k \in Nat :
            /\ Len(deleted_entries') \in Nat
            /\ \A i \in 1..Len(deleted_entries') :
                 \/ /\ i + k \in 1..Len(deleted_entries)
                    /\ deleted_entries'[i] = deleted_entries[i + k]
                 \/ /\ i + k = Len(deleted_entries) + 1
                    /\ deleted_entries'[i].meta = entries[p]
                    /\ deleted_entries'[i].delete_time = clock
      BY <1>1, <1>3, <1>6, DequeAfterDelete
    <2>2. entries'[p] = NoFile /\ \A q \in Paths : q # p => entries'[q] = entries[q]
      BY <1>1, <1>3, <1>6 DEF TypeInv, SP!StoreInv, SP!TypeOK
    <2>3. OwnedInv'
      BY <1>1, <1>2, <1>3, <1>4, <1>6, <2>1, <2>2 DEF OwnedInv
    <2>4. \A i, j \in 1..Len(deleted_entries') : i # j => i + k # j + k
      BY <2>1
    <2>5. DisjointInv'
      <3>1. \A q \in Paths, i \in 1..Len(deleted_entries') :
              entries'[q] # NoFile
                => Disjoint(entries'[q].chunks, deleted_entries'[i].meta.chunks)
        BY <1>1, <1>3, <1>6, <2>1, <2>2 DEF DisjointInv
      <3>2. \A i, j \in 1..Len(deleted_entries') :
              i # j => Disjoint(deleted_entries'[i].meta.chunks,
                                deleted_entries'[j].meta.chunks)
        <4>1. /\ \A i, j \in 1..Len(deleted_entries) :
                   i # j => Disjoint(deleted_entries[i].meta.chunks,
                                     deleted_entries[j].meta.chunks)
              /\ \A i \in 1..Len(deleted_entries) :
                   Disjoint(entries[p].chunks, deleted_entries[i].meta.chunks)
          BY <1>1, <1>3, <1>6 DEF DisjointInv
        <4> SUFFICES ASSUME NEW i \in 1..Len(deleted_entries'),
                            NEW j \in 1..Len(deleted_entries'), i # j
                     PROVE  Disjoint(deleted_entries'[i].meta.chunks,
                                     deleted_entries'[j].meta.chunks)
          OBVIOUS
        <4>2. i + k # j + k
          BY <2>4
        <4>. QED  BY <2>1, <4>1, <4>2, DisjointSymmetric
      <3>3. \A i \in 1..Len(deleted_entries'), w \in Puts :
              Disjoint(deleted_entries'[i].meta.chunks, put[w].chunks)
        BY <1>1, <1>3, <1>6, <2>1 DEF DisjointInv
      <3>. QED  BY <1>1, <1>2, <2>2, <3>1, <3>2, <3>3 DEF DisjointInv
    <2>6. ReaderInv'
      <3>1. \A r \in Gets : get[r].began \in Nat /\ get[r].began <= clock
        BY <1>1, GetFields DEF GetShape
      <3>2. ASSUME NEW r \in Gets, get[r].pc = "reading", ~get[r].ub,
                   NEW i \in 1..Len(deleted_entries')
            PROVE  \/ Disjoint(get[r].meta.chunks, deleted_entries'[i].meta.chunks)
                   \/ deleted_entries'[i].delete_time >= get[r].began
        <4>1. clock \in Nat
          BY <1>1, ListTypes
        <4>. QED  BY <1>1, <2>1, <3>1, <3>2, <4>1 DEF ReaderInv
      <3>. QED  BY <1>1, <1>2, <1>4, <3>2 DEF ReaderInv
    <2>. QED  BY <2>3, <2>5, <2>6
  <1>. QED  BY <1>3, <1>5, <1>6

\* The cleanup erases a tombstone.
LEMMA ChunksErase ==
  ASSUME ChunkInv, CleanupErase
  PROVE  OwnedInv' /\ DisjointInv' /\ ReaderInv'
  <1>1. TypeInv /\ OwnedInv /\ DisjointInv /\ ReaderInv
    BY DEF ChunkInv
  <1>2. /\ put' = put /\ get' = get /\ entries' = entries
        /\ chunk_id_counter' = chunk_id_counter /\ Ids' = Ids
    BY DEF CleanupErase, Store!CleanupErase, requestVars, registryVars, Ids
  <1> DEFINE n == Len(deleted_entries)
             f(i) == IF i < scan.at THEN i ELSE i + 1
  <1>3. /\ n \in Nat /\ scan.at \in 1..n /\ Len(deleted_entries') = n - 1
        /\ \A i \in 1..(n - 1) :
             deleted_entries'[i] = IF i < scan.at THEN deleted_entries[i]
                                   ELSE deleted_entries[i + 1]
    BY <1>1, StoreAssumed, StoreSteps, SP!EraseDeque DEF CleanupErase, TypeInv
  <1>4. \A i \in 1..(n - 1) : f(i) \in 1..n
    BY <1>3
  <1>5. \A i, j \in 1..(n - 1) : i # j => f(i) # f(j)
    BY <1>3
  <1>6. \A i \in 1..(n - 1) : deleted_entries'[i] = deleted_entries[f(i)]
    BY <1>3
  <1> HIDE DEF f
  <1>7. OwnedInv'
    BY <1>1, <1>2, <1>3, <1>4, <1>6 DEF OwnedInv
  <1>8. DisjointInv'
    BY <1>1, <1>2, <1>3, <1>4, <1>5, <1>6 DEF DisjointInv
  <1>9. ReaderInv'
    BY <1>1, <1>2, <1>3, <1>4, <1>6 DEF ReaderInv
  <1>. QED  BY <1>7, <1>8, <1>9

\* A restart forgets every file, tombstone and request.
LEMMA ChunksRestart ==
  ASSUME ChunkInv, CoordinatorRestart
  PROVE  OwnedInv' /\ DisjointInv' /\ ReaderInv'
  <1>1. \A p \in Paths : entries'[p] = NoFile
    BY DEF CoordinatorRestart
  <1>2. deleted_entries' = <<>> /\ Len(deleted_entries') = 0
    BY DEF CoordinatorRestart
  <1>3. ASSUME NEW w \in Puts
        PROVE  put'[w].chunks = <<>>
    BY DEF CoordinatorRestart, ChunkInv, TypeInv, PutInv, PutShape, IdlePut
  <1>4. ASSUME NEW r \in Gets
        PROVE  get'[r].pc # "reading"
    <2>1. get[r] \in GetState /\ get'[r] = CutOff(get[r])
      BY DEF CoordinatorRestart, ChunkInv, TypeInv, GetInv
    <2>. QED  BY <2>1 DEF CutOff, GetState
  <1>5. OwnedInv'
    BY <1>1, <1>2, <1>3, <1>4, EmptyChunks DEF OwnedInv
  <1>6. DisjointInv' /\ ReaderInv'
    BY <1>1, <1>2, <1>3, <1>4, EmptyChunks DEF DisjointInv, ReaderInv
  <1>. QED  BY <1>5, <1>6

\* The steps of a download that is reading leave what it opened.
LEMMA ReadersGoOnTry ==
  ASSUME TypeInv, NEW r \in Gets, GetTry(r) \/ GetEnd(r)
  PROVE  ReadersGoOn
  <1>1. get \in [Gets -> GetState] /\ get[r] \in GetState
        /\ get[r].pc = "reading"
    BY DEF TypeInv, GetInv, GetTry, GetEnd
  <1>2. \A s \in Gets : s # r => get'[s] = get[s]
    BY <1>1 DEF GetTry, GetEnd, NextChunk, NextReplica, GetDone
  <1>3. /\ get'[r].meta = get[r].meta /\ get'[r].began = get[r].began
        /\ get[r].ub => get'[r].ub
    <2>1. CASE GetEnd(r)
      <3>1. PICK s : GetDone(r, s)
        BY <2>1 DEF GetEnd
      <3>2. get'[r] = [get[r] EXCEPT !.pc = "done", !.status = s]
        BY <1>1, <3>1 DEF GetDone
      <3>3. /\ get'[r].meta = get[r].meta /\ get'[r].began = get[r].began
            /\ get'[r].ub = get[r].ub
        BY <1>1, <3>2 DEF GetState
      <3>. QED  BY <3>3
    <2>2. CASE GetTry(r)
      <3>1. PICK b \in BOOLEAN, s \in BOOLEAN, x \in Data :
              /\ b = (get[r].ub \/ ~BufferLive(get[r].meta))
              /\ \/ get' = [get EXCEPT ![r] =
                      [get[r] EXCEPT !.data = @ \o x, !.at = @ + 1,
                                     !.replica = 1, !.ub = b, !.short = s]]
                 \/ get' = [get EXCEPT ![r] =
                              [get[r] EXCEPT !.replica = @ + 1, !.ub = b]]
                 \/ get' = [get EXCEPT ![r] =
                              [get[r] EXCEPT !.pc = "done", !.status = "INTERNAL"]]
                 \/ get' = [get EXCEPT ![r] =
                              [get[r] EXCEPT !.pc = "done", !.status = "INTERNAL",
                                             !.ub = TRUE]]
        BY <2>2, TryOutcome
      <3>2. \/ get'[r] = [get[r] EXCEPT !.data = @ \o x, !.at = @ + 1,
                                        !.replica = 1, !.ub = b, !.short = s]
            \/ get'[r] = [get[r] EXCEPT !.replica = @ + 1, !.ub = b]
            \/ get'[r] = [get[r] EXCEPT !.pc = "done", !.status = "INTERNAL"]
            \/ get'[r] = [get[r] EXCEPT !.pc = "done", !.status = "INTERNAL",
                                        !.ub = TRUE]
        BY <1>1, <3>1
      <3>3. /\ get'[r].meta = get[r].meta /\ get'[r].began = get[r].began
            /\ get'[r].ub = b \/ get'[r].ub = get[r].ub \/ get'[r].ub = TRUE
        BY <1>1, <3>2 DEF GetState
      <3>. QED  BY <3>1, <3>3
    <2>. QED  BY <2>1, <2>2
  <1>. QED  BY <1>1, <1>2, <1>3 DEF ReadersGoOn

\* The steps of an upload that create no chunk and commit none.
LEMMA UploadsKeep ==
  ASSUME TypeInv, NEW w \in Puts,
         \/ \E p \in Paths, c \in Contents : PutBegin(w, p, c)
         \/ PutUnnamed(w) \/ PutReceive(w) \/ PutJoin(w)
         \/ \E i \in DOMAIN put[w].tasks : PutTask(w, i)
  PROVE  /\ entries' = entries /\ deleted_entries' = deleted_entries
         /\ chunk_id_counter' = chunk_id_counter /\ Ids' = Ids /\ get' = get
         /\ \A v \in Puts : put'[v].chunks = put[v].chunks \/ put'[v].chunks = <<>>
  <1>1. put \in [Puts -> PutState]
    BY DEF TypeInv, PutInv
  <1>2. /\ UNCHANGED storeVars /\ UNCHANGED registryVars
        /\ chunk_id_counter' = chunk_id_counter /\ get' = get
    BY DEF PutBegin, PutUnnamed, PutReceive, PutJoin, PutTask
  <1>3. ASSUME NEW s, PutDone(w, s), NEW v \in Puts
        PROVE  put'[v].chunks = put[v].chunks \/ put'[v].chunks = <<>>
    BY <1>1, <1>3 DEF PutDone, IdlePut
  <1>4. ASSUME NEW p \in Paths, NEW c \in Contents, PutBegin(w, p, c),
               NEW v \in Puts
        PROVE  put'[v].chunks = put[v].chunks \/ put'[v].chunks = <<>>
    <2>1. CASE PutDone(w, "ALREADY_EXISTS")
      BY <1>3, <2>1
    <2>2. CASE put' = [put EXCEPT ![w].pc = "receiving", ![w].path = p,
                                  ![w].data = c]
      BY <1>1, <2>2 DEF PutState
    <2>. QED  BY <1>4, <2>1, <2>2 DEF PutBegin
  <1>5. ASSUME PutUnnamed(w) \/ PutReceive(w) \/ PutJoin(w), NEW v \in Puts
        PROVE  put'[v].chunks = put[v].chunks \/ put'[v].chunks = <<>>
    <2>1. CASE \E s : PutDone(w, s)
      BY <1>3, <2>1
    <2>2. CASE put' = [put EXCEPT ![w].pc = "placing"]
      BY <1>1, <2>2 DEF PutState
    <2>3. ASSUME NEW x, put' = [put EXCEPT ![w].pc = "placing", ![w].data = x]
          PROVE  put'[v].chunks = put[v].chunks \/ put'[v].chunks = <<>>
      BY <1>1, <2>3 DEF PutState
    <2>4. CASE put' = [put EXCEPT ![w].pc = "placing", ![w].tasks = <<>>]
      BY <1>1, <2>4 DEF PutState
    <2>. QED  BY <1>5, <2>1, <2>2, <2>3, <2>4 DEF PutUnnamed, PutReceive, PutJoin
  <1>6. ASSUME NEW i \in DOMAIN put[w].tasks, PutTask(w, i), NEW v \in Puts
        PROVE  put'[v].chunks = put[v].chunks \/ put'[v].chunks = <<>>
    <2>1. PICK s : TaskResult(w, i, s)
      BY <1>6 DEF PutTask
    <2>2. put' = [put EXCEPT ![w].tasks[i] = s]
      BY <2>1 DEF TaskResult
    <2>. QED  BY <1>1, <2>2 DEF PutState
  <1>7. \A v \in Puts : put'[v].chunks = put[v].chunks \/ put'[v].chunks = <<>>
    BY <1>4, <1>5, <1>6
  <1>. QED  BY <1>2, <1>7 DEF storeVars, registryVars, Ids

\* The registry hands out ids and takes none back, short of a restart.
LEMMA IdsGrow ==
  ASSUME TypeInv, NEW n \in Nodes, DataNode(n)
  PROVE  Ids \subseteq Ids' /\ \A id \in Ids : issued'[id] = issued[id]
  <1>1. RP!DataNode(n) /\ RP!RegistryInv
    BY RegistrySteps DEF DataNode, TypeInv
  <1>2. ASSUME NEW f \in Families, RP!Issue([node |-> n, family |-> f])
        PROVE  \A id \in DOMAIN issued : id \in DOMAIN issued'
                                         /\ issued'[id] = issued[id]
    BY <1>1, <1>2, RegistryAssumed, RP!IssueProperties
  <1>3. ASSUME NEW f \in Families, RP!Start(n, f)
        PROVE  \/ issued' = issued
               \/ RP!Issue([node |-> n, family |-> f])
    BY <1>3, Zenon DEF RP!Start, RP!Assign, RP!coordinatorVars
  <1>4. CASE RP!Stop(n) \/ RP!StopUnheard(n) \/ RP!Crash(n)
    <2>1. issued' = issued
      BY <1>4 DEF RP!Stop, RP!StopUnheard, RP!Crash, RP!Unregister,
                  RP!coordinatorVars
    <2>. QED  BY <2>1 DEF Ids
  <1>5. CASE \E f \in Families : RP!Start(n, f)
    BY <1>2, <1>3, <1>5 DEF Ids
  <1>. QED  BY <1>1, <1>4, <1>5 DEF RP!DataNode

\* Initially nobody owns a chunk.
LEMMA ChunkInvInit == Init => ChunkInv
  <1> SUFFICES ASSUME Init PROVE ChunkInv
    OBVIOUS
  <1>1. /\ \A p \in Paths : entries[p] = NoFile
        /\ deleted_entries = <<>> /\ Len(deleted_entries) = 0
        /\ \A w \in Puts : put[w].chunks = <<>>
        /\ \A r \in Gets : get[r].pc # "reading"
    BY DEF Init, Store!Init, IdlePut, IdleGet
  <1>2. OwnedInv /\ DisjointInv /\ ReaderInv
    BY <1>1, EmptyChunks DEF OwnedInv, DisjointInv, ReaderInv
  <1>. QED  BY <1>2, TypeInvInit DEF ChunkInv

\* Every step keeps ChunkInv.
LEMMA ChunkInvNext == ChunkInv /\ [Next]_vars => ChunkInv'
  <1> SUFFICES ASSUME ChunkInv, [Next]_vars
               PROVE  OwnedInv' /\ DisjointInv' /\ ReaderInv'
    BY TypeInvNext DEF ChunkInv
  <1>0. TypeInv
    BY DEF ChunkInv
  <1>1. ASSUME NEW w \in Puts,
               \/ \E p \in Paths, c \in Contents : PutBegin(w, p, c)
               \/ PutUnnamed(w) \/ PutReceive(w) \/ PutJoin(w)
               \/ \E i \in DOMAIN put[w].tasks : PutTask(w, i)
        PROVE  OwnedInv' /\ DisjointInv' /\ ReaderInv'
    <2>1. ReadersGoOn
      BY <1>0, <1>1, UploadsKeep DEF ReadersGoOn
    <2>. QED  BY <1>0, <1>1, <2>1, UploadsKeep, ChunksStay
  <1>2. ASSUME NEW w \in Puts, PutPlace(w) \/ PutCommit(w)
        PROVE  OwnedInv' /\ DisjointInv' /\ ReaderInv'
    BY <1>2, ChunksPutPlace, ChunksPutCommit
  <1>3. ASSUME NEW r \in Gets, (\E p \in Paths : GetBegin(r, p)) \/ GetStep(r)
        PROVE  OwnedInv' /\ DisjointInv' /\ ReaderInv'
    <2>1. CASE GetOpen(r)
      BY <2>1, ChunksGetOpen
    <2>2. ASSUME NEW p \in Paths, GetBegin(r, p)
          PROVE  ReadersGoOn
      <3>1. get \in [Gets -> GetState]
        BY <1>0 DEF TypeInv, GetInv
      <3>. QED  BY <2>2, <3>1 DEF GetBegin, GetDone, GetState, ReadersGoOn
    <2>3. CASE GetTry(r) \/ GetEnd(r) \/ \E p \in Paths : GetBegin(r, p)
      <3>1. /\ UNCHANGED storeVars /\ UNCHANGED registryVars
            /\ chunk_id_counter' = chunk_id_counter /\ put' = put
        BY <2>3 DEF GetTry, GetEnd, GetBegin
      <3>2. ReadersGoOn
        BY <1>0, <2>2, <2>3, ReadersGoOnTry
      <3>. QED  BY <3>1, <3>2, ChunksStay DEF storeVars, registryVars, Ids
    <2>. QED  BY <1>3, <2>1, <2>3 DEF GetStep
  <1>4. ASSUME NEW d \in Dels, DelTombstone(d)
        PROVE  OwnedInv' /\ DisjointInv' /\ ReaderInv'
    BY <1>4, ChunksDelTombstone
  <1>5. CASE CleanupErase
    BY <1>5, ChunksErase
  <1>6. CASE \/ UNCHANGED vars
             \/ CleanupWake \/ CleanupSkip \/ CleanupDelete \/ CleanupEnd \/ Tick
             \/ \E n \in Nodes : DataNode(n)
             \/ \E d \in Dels, p \in Paths : DelBegin(d, p)
    <2>1. /\ entries' = entries /\ deleted_entries' = deleted_entries
          /\ put' = put /\ get' = get /\ chunk_id_counter' = chunk_id_counter
      BY <1>6 DEF vars, CleanupWake, CleanupSkip, CleanupDelete, CleanupEnd,
         Tick, DataNode, DelBegin, storeVars, requestVars, Store!CleanupBegin,
         Store!CleanupSkip, Store!CleanupEnd, Store!Tick
    <2>2. Ids \subseteq Ids'
      <3>1. CASE \E n \in Nodes : DataNode(n)
        BY <1>0, <3>1, IdsGrow
      <3>2. CASE \/ UNCHANGED vars
                 \/ CleanupWake \/ CleanupSkip \/ CleanupDelete \/ CleanupEnd
                 \/ Tick \/ \E d \in Dels, p \in Paths : DelBegin(d, p)
        BY <3>2 DEF vars, CleanupWake, CleanupSkip, CleanupDelete, CleanupEnd,
           Tick, DelBegin, registryVars, Ids
      <3>. QED  BY <1>6, <3>1, <3>2
    <2>. QED  BY <2>1, <2>2, ChunksStay DEF ReadersGoOn
  <1>7. CASE CoordinatorRestart
    BY <1>7, ChunksRestart
  <1>. QED
    BY <1>1, <1>2, <1>3, <1>4, <1>5, <1>6, <1>7
    DEF Next, PutStep, CleanupStep

\* Every chunk number has at most one owner among files, tombstones and
\* uploads, whatever the handlers, the cleanup and restarts do, and a download
\* shares its chunks with a tombstone only if that one is younger than it.
THEOREM CoordinatorChunkInv == Spec => []ChunkInv
  BY ChunkInvInit, ChunkInvNext, PTL DEF Spec

\* Lists that are disjoint have no number in common.
LEMMA DisjointIds ==
  ASSUME NEW cs \in Seq(ChunkInfo), NEW ds \in Seq(ChunkInfo), Disjoint(cs, ds)
  PROVE  IdsOf(cs) \cap IdsOf(ds) = {}
  <1>1. Range(cs) = {cs[i] : i \in 1..Len(cs)}
        /\ Range(ds) = {ds[i] : i \in 1..Len(ds)}
    BY DEF Range
  <1>. QED  BY <1>1 DEF Disjoint, IdsOf

\* Whatever uploads, deletions, cleanups and restarts go on, a chunk belongs
\* to one file, one tombstone or one upload: cleaning up a tombstone deletes
\* no chunk of a live file or of an upload in progress.
THEOREM CoordinatorChunksNotShared == Spec => []ChunksNotShared
  <1>1. ChunkInv => ChunksNotShared
    <2> SUFFICES ASSUME ChunkInv, NEW g \in Holders, NEW h \in Holders, g # h
                 PROVE  HeldBy(g) \cap HeldBy(h) = {}
      BY DEF ChunksNotShared
    <2>0. TypeInv /\ DisjointInv
      BY DEF ChunkInv
    <2>1. deleted_entries \in Seq(SP!Tombstone)
          /\ DOMAIN deleted_entries = 1..Len(deleted_entries)
      BY <2>0, ListTypes
    <2>2. ASSUME NEW x \in Holders
          PROVE  \/ \E p \in Paths : /\ x = <<"file", p>> /\ entries[p] # NoFile
                                     /\ HeldBy(x) = IdsOf(entries[p].chunks)
                 \/ \E i \in 1..Len(deleted_entries) :
                      /\ x = <<"tombstone", i>>
                      /\ HeldBy(x) = IdsOf(deleted_entries[i].meta.chunks)
                 \/ \E w \in Puts : /\ x = <<"upload", w>>
                                    /\ HeldBy(x) = IdsOf(put[w].chunks)
      BY <2>1 DEF Holders, HeldBy
    <2>3. ASSUME NEW cs \in Seq(ChunkInfo), NEW ds \in Seq(ChunkInfo),
                 Disjoint(cs, ds) \/ Disjoint(ds, cs)
          PROVE  IdsOf(cs) \cap IdsOf(ds) = {}
      BY <2>3, DisjointIds
    <2>4. CASE \E p \in Paths : /\ g = <<"file", p>> /\ entries[p] # NoFile
                                /\ HeldBy(g) = IdsOf(entries[p].chunks)
      BY <2>0, <2>2, <2>3, <2>4, ListTypes DEF DisjointInv
    <2>5. CASE \E i \in 1..Len(deleted_entries) :
                 /\ g = <<"tombstone", i>>
                 /\ HeldBy(g) = IdsOf(deleted_entries[i].meta.chunks)
      BY <2>0, <2>2, <2>3, <2>5, ListTypes DEF DisjointInv
    <2>6. CASE \E w \in Puts : /\ g = <<"upload", w>>
                               /\ HeldBy(g) = IdsOf(put[w].chunks)
      BY <2>0, <2>2, <2>3, <2>6, ListTypes DEF DisjointInv
    <2>. QED  BY <2>2, <2>4, <2>5, <2>6
  <1>. QED  BY <1>1, CoordinatorChunkInv, PTL

(***************************************************************************)
(* What the cleanup leaves: an invariant about the places where a chunk    *)
(* may be.  All of it as long as no node has gone and no call has failed.  *)
(***************************************************************************)

\* Every id that was issued leads to a node that serves.
ReachInv ==
  NoReplicaMissed =>
    \A id \in DOMAIN issued : id \in DOMAIN registered_nodes /\ up[issued[id]]

\* The chunks of this list are nowhere but on their replicas' nodes.
Placed(cs, ds, iss) ==
  \A i \in 1..Len(cs), n \in Nodes :
    cs[i].chunk_id \in DOMAIN ds[n]
      => \E j \in 1..ReplicationFactor : n = iss[cs[i].node_ids[j]]

\* Nothing on a disk has a number that is still to be given.
NumbersInv ==
  NoReplicaMissed =>
    \A n \in Nodes : \A k \in DOMAIN disks[n] : k < chunk_id_counter

PlacedInv ==
  NoReplicaMissed =>
    /\ \A p \in Paths :
         entries[p] # NoFile => Placed(entries[p].chunks, disks, issued)
    /\ \A i \in 1..Len(deleted_entries) :
         Placed(deleted_entries[i].meta.chunks, disks, issued)
    /\ \A w \in Puts : Placed(put[w].chunks, disks, issued)

\* The chunk deleter works on the tombstone under the iterator, and what it
\* has called DeleteChunk for is gone.
BusyInv ==
  cleaner.at # 1 => Store!Scanning /\ Store!Aged(Store!Scanned, scan.now)
Swept(m, k, ds, iss) ==
  LET call == DeletionsOf(m)[k]
  IN  call.chunk_id \notin DOMAIN ds[iss[call.node_id]]
SweptInv ==
  NoReplicaMissed /\ cleaner.at # 1 =>
    \A k \in 1..Len(DeletionsOf(Store!Scanned.meta)) :
      k < cleaner.at => Swept(Store!Scanned.meta, k, disks, issued)

PlacesInv == ReachInv /\ NumbersInv /\ PlacedInv /\ BusyInv /\ SweptInv
SweepInv == ChunkInv /\ PlacesInv

\* A fault once counted stays counted.
MissesStay == NoReplicaMissed' => NoReplicaMissed

\* Faults are only ever counted up.
LEMMA FaultsRise ==
  ASSUME TypeInv, faults' = faults \/ \E k \in FaultKinds : RP!Fault(k)
  PROVE  MissesStay
  <1>1. faults \in [FaultKinds -> Nat]
    BY DEF TypeInv, RP!RegistryInv, RP!TypeOK
  <1>2. {"stop", "crash", "rpc", "restart", "call", "race"} \subseteq FaultKinds
    BY CoordinatorAssumption
  <1>3. ASSUME NEW k \in FaultKinds, RP!Fault(k), NEW q \in FaultKinds,
               faults'[q] = 0
        PROVE  faults[q] = 0
    <2>1. faults' = [faults EXCEPT ![k] = faults[k] + 1] /\ faults[k] \in Nat
      BY <1>1, <1>3 DEF RP!Fault
    <2>. QED  BY <1>1, <1>3, <2>1
  <1>. QED  BY <1>2, <1>3 DEF MissesStay, NoReplicaMissed

\* These are the faults that matter to the cleanup.
LEMMA FaultMisses ==
  ASSUME TypeInv,
         NEW k \in {"stop", "crash", "rpc", "restart", "call", "race"},
         RP!Fault(k)
  PROVE  ~NoReplicaMissed'
  <1>1. faults \in [FaultKinds -> Nat] /\ k \in FaultKinds
    BY CoordinatorAssumption DEF TypeInv, RP!RegistryInv, RP!TypeOK
  <1>2. faults' = [faults EXCEPT ![k] = faults[k] + 1] /\ faults[k] \in Nat
    BY <1>1 DEF RP!Fault
  <1>3. faults'[k] # 0
    BY <1>1, <1>2
  <1>. QED  BY <1>3 DEF NoReplicaMissed

\* No disk gains a file, and no id changes its node.
Shrinks ==
  /\ \A n \in Nodes : DOMAIN disks'[n] \subseteq DOMAIN disks[n]
  /\ \A id \in Ids : issued'[id] = issued[id]

\* Chunks stay where they were or go.
LEMMA PlacedShrinks ==
  ASSUME NEW cs, NEW a, Owned(cs, a, Ids), Shrinks, Placed(cs, disks, issued)
  PROVE  Placed(cs, disks', issued')
  BY DEF Owned, Shrinks, Placed

\* No chunks are nowhere.
LEMMA PlacedEmpty == \A ds, iss : Placed(<<>>, ds, iss)
  BY DEF Placed

\* Lists of chunks move from uploads to files and on to tombstones.
ListsMove ==
  /\ \A p \in Paths : entries'[p] # NoFile =>
       \/ entries'[p] = entries[p]
       \/ \E w \in Puts : entries'[p].chunks = put[w].chunks
  /\ \A i \in 1..Len(deleted_entries') :
       \/ \E j \in 1..Len(deleted_entries) :
            deleted_entries'[i].meta = deleted_entries[j].meta
       \/ \E p \in Paths :
            entries[p] # NoFile /\ deleted_entries'[i].meta = entries[p]
  /\ \A w \in Puts : put'[w].chunks = put[w].chunks \/ put'[w].chunks = <<>>

\* Wherever they move, their chunks are in the same places.
LEMMA PlacedStays ==
  ASSUME ChunkInv, PlacedInv, MissesStay, Shrinks, ListsMove
  PROVE  PlacedInv'
  <1> SUFFICES ASSUME NoReplicaMissed' PROVE PlacedInv'
    BY DEF PlacedInv
  <1>1. NoReplicaMissed /\ OwnedInv
    BY DEF MissesStay, ChunkInv
  <1>2. \A p \in Paths :
          entries[p] # NoFile => Placed(entries[p].chunks, disks', issued')
    BY <1>1, PlacedShrinks DEF PlacedInv, OwnedInv
  <1>3. \A i \in 1..Len(deleted_entries) :
          Placed(deleted_entries[i].meta.chunks, disks', issued')
    BY <1>1, PlacedShrinks DEF PlacedInv, OwnedInv
  <1>4. \A w \in Puts : Placed(put[w].chunks, disks', issued')
    BY <1>1, PlacedShrinks DEF PlacedInv, OwnedInv
  <1>5. \A p \in Paths :
          entries'[p] # NoFile => Placed(entries'[p].chunks, disks', issued')
    BY <1>2, <1>4 DEF ListsMove
  <1>6. \A i \in 1..Len(deleted_entries') :
          Placed(deleted_entries'[i].meta.chunks, disks', issued')
    BY <1>2, <1>3 DEF ListsMove
  <1>7. \A w \in Puts : Placed(put'[w].chunks, disks', issued')
    BY <1>4, PlacedEmpty DEF ListsMove
  <1>. QED  BY <1>5, <1>6, <1>7 DEF PlacedInv

\* The numbers on the disks stay below the counter.
LEMMA NumbersStay ==
  ASSUME TypeInv, NumbersInv, MissesStay, Shrinks,
         chunk_id_counter' \in Nat, chunk_id_counter' >= chunk_id_counter
  PROVE  NumbersInv'
  <1>1. chunk_id_counter \in Nat /\ \A n \in Nodes : DOMAIN disks[n] \subseteq Nat
    BY DEF TypeInv, DiskInv
  <1>2. ASSUME NoReplicaMissed', NEW n \in Nodes, NEW k \in DOMAIN disks'[n]
        PROVE  k < chunk_id_counter'
    <2>1. k \in DOMAIN disks[n] /\ k \in Nat
      BY <1>1, <1>2 DEF Shrinks
    <2>2. k < chunk_id_counter
      BY <1>2, <2>1 DEF NumbersInv, MissesStay
    <2>. QED  BY <1>1, <2>1, <2>2
  <1>. QED  BY <1>2 DEF NumbersInv

\* Nodes are as reachable as before.
LEMMA ReachStays ==
  ASSUME ReachInv, MissesStay, UNCHANGED <<issued, registered_nodes, up>>
  PROVE  ReachInv'
  BY DEF ReachInv, MissesStay

\* The replica a call of the chunk deleter is for.
LEMMA SweepTarget ==
  ASSUME ChunkInv, Store!Scanning,
         NEW k \in 1..Len(DeletionsOf(Store!Scanned.meta))
  PROVE  LET call == DeletionsOf(Store!Scanned.meta)[k]
         IN  /\ call.node_id \in Ids /\ call.chunk_id \in Nat
             /\ \E i \in 1..Len(deleted_entries[scan.at].meta.chunks) :
                  call.chunk_id
                    = deleted_entries[scan.at].meta.chunks[i].chunk_id
  <1>1. TypeInv /\ OwnedInv
    BY DEF ChunkInv
  <1>2. /\ scan.at \in 1..Len(deleted_entries)
        /\ Store!Scanned = deleted_entries[scan.at]
        /\ Store!Scanned.meta \in FileMeta
        /\ Store!Scanned.meta.chunks \in Seq(ChunkInfo)
    BY <1>1, ScannedTombstone
  <1>3. PICK m \in FileMeta : m = Store!Scanned.meta
    BY <1>2
  <1>4. PICK i \in 1..Len(m.chunks), j \in 1..ReplicationFactor :
          /\ DeletionsOf(m)[k].chunk_id = m.chunks[i].chunk_id
          /\ DeletionsOf(m)[k].node_id = m.chunks[i].node_ids[j]
    BY <1>3, Deletions
  <1>5. Owned(m.chunks, chunk_id_counter, Ids)
    BY <1>1, <1>2, <1>3 DEF OwnedInv
  <1>6. m.chunks[i].node_ids[j] \in Ids
    BY <1>5 DEF Owned
  <1>7. m.chunks[i].chunk_id \in Nat
    BY <1>2, <1>3, ChunkNumbers
  <1>. QED  BY <1>2, <1>3, <1>4, <1>6, <1>7

\* The chunk deleter is where it was, and what it has removed stays away.
LEMMA SweptStays ==
  ASSUME ChunkInv, BusyInv, SweptInv, MissesStay, Shrinks,
         scan' = scan, deleted_entries' = deleted_entries,
         cleaner'.at = cleaner.at
  PROVE  BusyInv' /\ SweptInv'
  <1>1. BusyInv'
    BY DEF BusyInv, Store!Scanning, Store!Scanned, Store!Aged
  <1>2. Store!Scanned' = Store!Scanned
    BY DEF Store!Scanned
  <1>3. ASSUME NoReplicaMissed', cleaner.at # 1,
               NEW k \in 1..Len(DeletionsOf(Store!Scanned.meta)),
               k < cleaner.at
        PROVE  Swept(Store!Scanned.meta, k, disks', issued')
    <2>1. Store!Scanning /\ NoReplicaMissed
      BY <1>3 DEF BusyInv, MissesStay
    <2>2. Swept(Store!Scanned.meta, k, disks, issued)
      BY <1>3, <2>1 DEF SweptInv
    <2>3. DeletionsOf(Store!Scanned.meta)[k].node_id \in Ids
      BY <2>1, SweepTarget
    <2>4. \A id \in Ids : issued[id] \in Nodes
      BY DEF ChunkInv, TypeInv, RP!RegistryInv, RP!TypeOK, Ids
    <2>. QED  BY <2>2, <2>3, <2>4 DEF Swept, Shrinks
  <1>4. SweptInv'
    BY <1>2, <1>3 DEF SweptInv
  <1>. QED  BY <1>1, <1>4

\* Between two tombstones the chunk deleter is idle.
LEMMA SweptIdle ==
  ASSUME cleaner'.at = 1
  PROVE  BusyInv' /\ SweptInv'
  BY DEF BusyInv, SweptInv
\* A step that moves no chunk list, writes no file and leaves the registry and
\* the chunk deleter alone.
LEMMA SweepQuiet ==
  ASSUME SweepInv, MissesStay, disks' = disks, ListsMove,
         UNCHANGED <<issued, registered_nodes, up, chunk_id_counter>>,
         \/ cleaner'.at = 1
         \/ /\ scan' = scan /\ deleted_entries' = deleted_entries
            /\ cleaner'.at = cleaner.at
  PROVE  PlacesInv'
  <1>1. ChunkInv /\ TypeInv /\ PlacesInv
    BY DEF SweepInv, ChunkInv
  <1>2. Shrinks
    BY DEF Shrinks
  <1>3. ReachInv' /\ PlacedInv'
    BY <1>1, <1>2, ReachStays, PlacedStays DEF PlacesInv
  <1>4. NumbersInv'
    <2>1. chunk_id_counter \in Nat
      BY <1>1 DEF TypeInv, DiskInv
    <2>. QED  BY <1>1, <1>2, <2>1, NumbersStay DEF PlacesInv
  <1>5. BusyInv' /\ SweptInv'
    BY <1>1, <1>2, SweptStays, SweptIdle DEF PlacesInv
  <1>. QED  BY <1>3, <1>4, <1>5 DEF PlacesInv

\* Lists that stay.
LEMMA ListsStay ==
  ASSUME entries' = entries, deleted_entries' = deleted_entries,
         \A w \in Puts : put'[w].chunks = put[w].chunks \/ put'[w].chunks = <<>>
  PROVE  ListsMove
  BY DEF ListsMove

\* The steps of an upload that write nothing and add no chunk.
LEMMA SweepPutQuiet ==
  ASSUME SweepInv, NEW w \in Puts,
         \/ \E p \in Paths, c \in Contents : PutBegin(w, p, c)
         \/ PutUnnamed(w) \/ PutReceive(w) \/ PutJoin(w)
  PROVE  PlacesInv'
  <1>1. TypeInv
    BY DEF SweepInv, ChunkInv
  <1>2. ListsMove /\ chunk_id_counter' = chunk_id_counter
    BY <1>1, UploadsKeep, ListsStay
  <1>3. /\ UNCHANGED storeVars /\ UNCHANGED registryVars
        /\ disks' = disks /\ cleaner' = cleaner
        /\ faults' = faults \/ Registry!Fault("stream")
    BY DEF PutBegin, PutUnnamed, PutReceive, PutJoin, NoFault
  <1>4. MissesStay
    BY <1>1, <1>3, RegistrySteps, FaultsRise, CoordinatorAssumption
  <1>. QED  BY <1>2, <1>3, <1>4, SweepQuiet DEF storeVars, registryVars

\* The file has the chunks of the upload.
LEMMA SweepPutCommit ==
  ASSUME SweepInv, NEW w \in Puts, PutCommit(w)
  PROVE  PlacesInv'
  <1>1. TypeInv
    BY DEF SweepInv, ChunkInv
  <1> DEFINE m == [data |-> put[w].data, chunks |-> put[w].chunks]
  <1>2. /\ entries' = [entries EXCEPT ![put[w].path] = m]
        /\ deleted_entries' = deleted_entries /\ scan' = scan
        /\ UNCHANGED registryVars /\ disks' = disks /\ cleaner' = cleaner
        /\ chunk_id_counter' = chunk_id_counter /\ faults' = faults
    BY DEF PutCommit, Store!putFile
  <1>3. entries \in [Paths -> FileMeta \cup {NoFile}] /\ put \in [Puts -> PutState]
    BY <1>1 DEF TypeInv, SP!StoreInv, SP!TypeOK, PutInv
  <1>4. \A p \in Paths : entries'[p] = entries[p] \/ entries'[p] = m
    BY <1>2, <1>3
  <1>5. \A v \in Puts : put'[v].chunks = put[v].chunks \/ put'[v].chunks = <<>>
    BY <1>3 DEF PutCommit, PutDone, IdlePut
  <1>6. m.chunks = put[w].chunks
    OBVIOUS
  <1> HIDE DEF m
  <1>7. ListsMove
    BY <1>2, <1>4, <1>5, <1>6 DEF ListsMove
  <1>8. MissesStay
    BY <1>1, <1>2, FaultsRise
  <1>. QED  BY <1>2, <1>7, <1>8, SweepQuiet DEF registryVars

\* Downloads, lookups of a deletion, the clock and the cleanup between two
\* tombstones.
LEMMA SweepReads ==
  ASSUME SweepInv,
         \/ \E r \in Gets : (\E p \in Paths : GetBegin(r, p)) \/ GetStep(r)
         \/ \E d \in Dels, p \in Paths : DelBegin(d, p)
         \/ Tick \/ UNCHANGED vars
  PROVE  PlacesInv'
  <1>1. TypeInv
    BY DEF SweepInv, ChunkInv
  <1>2. /\ entries' = entries /\ deleted_entries' = deleted_entries
        /\ scan' = scan /\ UNCHANGED registryVars /\ put' = put
        /\ chunk_id_counter' = chunk_id_counter /\ disks' = disks
        /\ cleaner' = cleaner
    BY DEF GetBegin, GetStep, GetOpen, GetTry, GetEnd, DelBegin, Tick, vars,
           Store!Tick, storeVars, requestVars
  <1>3. \/ faults' = faults
        \/ \E k \in {"call", "read", "stream"} : Registry!Fault(k)
    BY DEF GetBegin, GetStep, GetOpen, GetTry, GetEnd, DelBegin, Tick, vars,
           NoFault
  <1>4. MissesStay
    BY <1>1, <1>3, RegistrySteps, FaultsRise, CoordinatorAssumption
  <1>5. ListsMove
    BY <1>2, ListsStay
  <1>. QED  BY <1>2, <1>4, <1>5, SweepQuiet DEF registryVars

\* The cleanup thread takes the lock, passes a young tombstone, or is done.
LEMMA SweepIdle ==
  ASSUME SweepInv, CleanupWake \/ CleanupSkip \/ CleanupEnd
  PROVE  PlacesInv'
  <1>1. TypeInv /\ BusyInv
    BY DEF SweepInv, ChunkInv, PlacesInv
  <1>2. /\ entries' = entries /\ deleted_entries' = deleted_entries
        /\ UNCHANGED registryVars /\ put' = put
        /\ chunk_id_counter' = chunk_id_counter /\ disks' = disks
        /\ cleaner' = cleaner /\ faults' = faults
    BY DEF CleanupWake, CleanupSkip, CleanupEnd, Store!CleanupBegin,
           Store!CleanupSkip, Store!CleanupEnd, requestVars
  <1>3. cleaner.at = 1
    <2>1. CASE CleanupWake
      BY <1>1, <2>1 DEF CleanupWake, Store!CleanupBegin, Store!Unlocked,
                        BusyInv, Store!Scanning
    <2>2. CASE CleanupSkip
      BY <1>1, <2>2 DEF CleanupSkip, Store!CleanupSkip, BusyInv
    <2>3. CASE CleanupEnd
      <3>1. ~Store!Scanning
        <4>1. scan.at \in Nat /\ Len(deleted_entries) \in Nat
          BY <1>1, ListTypes DEF TypeInv, SP!StoreInv, SP!TypeOK
        <4>. QED  BY <2>3, <4>1 DEF CleanupEnd, Store!CleanupEnd, Store!Scanning
      <3>. QED  BY <1>1, <3>1 DEF BusyInv
    <2>. QED  BY <2>1, <2>2, <2>3
  <1>4. MissesStay /\ ListsMove
    BY <1>1, <1>2, FaultsRise, ListsStay
  <1>. QED  BY <1>2, <1>3, <1>4, SweepQuiet DEF registryVars

\* A tombstone is erased.
LEMMA SweepErase ==
  ASSUME SweepInv, CleanupErase
  PROVE  PlacesInv'
  <1>1. TypeInv /\ CleanerInv
    BY DEF SweepInv, ChunkInv, TypeInv
  <1>2. /\ entries' = entries /\ UNCHANGED registryVars /\ put' = put
        /\ chunk_id_counter' = chunk_id_counter /\ disks' = disks
        /\ faults' = faults
    BY DEF CleanupErase, Store!CleanupErase, requestVars
  <1>3. cleaner'.at = 1
    BY <1>1 DEF CleanupErase, CleanerInv
  <1>4. /\ Len(deleted_entries) \in Nat /\ scan.at \in 1..Len(deleted_entries)
        /\ Len(deleted_entries') = Len(deleted_entries) - 1
        /\ \A i \in 1..(Len(deleted_entries) - 1) :
             deleted_entries'[i] = IF i < scan.at THEN deleted_entries[i]
                                   ELSE deleted_entries[i + 1]
    BY <1>1, ListTypes, StoreAssumed, StoreSteps, SP!EraseDeque
    DEF CleanupErase, TypeInv
  <1>5. ASSUME NEW i \in 1..Len(deleted_entries')
        PROVE  \E j \in 1..Len(deleted_entries) :
                 deleted_entries'[i] = deleted_entries[j]
    <2>1. /\ i \in 1..Len(deleted_entries)
          /\ i + 1 \in 1..Len(deleted_entries)
          /\ i \in 1..(Len(deleted_entries) - 1)
      BY <1>4
    <2>. QED  BY <1>4, <2>1
  <1>6. ListsMove
    BY <1>2, <1>5 DEF ListsMove
  <1>7. MissesStay
    BY <1>1, <1>2, FaultsRise
  <1>. QED  BY <1>2, <1>3, <1>6, <1>7, SweepQuiet DEF registryVars

\* A file becomes a tombstone, and the overflow path drops others: not while a
\* scan holds the lock.
LEMMA SweepDelTombstone ==
  ASSUME SweepInv, NEW d \in Dels, DelTombstone(d)
  PROVE  PlacesInv'
  <1>1. TypeInv /\ CleanerInv /\ BusyInv
    BY DEF SweepInv, ChunkInv, TypeInv, PlacesInv
  <1>2. /\ UNCHANGED registryVars /\ put' = put /\ faults' = faults
        /\ chunk_id_counter' = chunk_id_counter /\ disks' = disks
    BY DEF DelTombstone
  <1>3. cleaner'.at = 1
    <2>1. ~scan.locked
      BY DEF DelTombstone, Store!deletePath, Store!Unlocked
    <2>2. cleaner.at = 1
      BY <1>1, <2>1 DEF BusyInv, Store!Scanning
    <2>. QED  BY <1>1, <2>2 DEF DelTombstone, StartCleanup, CleanerInv
  <1>4. PICK p \in Paths :
          /\ SP!deletePath(p)
          /\ \/ UNCHANGED storeVars
             \/ /\ SP!Found(p) /\ entries[p] # NoFile
                /\ entries' = [entries EXCEPT ![p] = NoFile]
    BY <1>1, DeletedEntries
  <1>5. ListsMove
    <2>1. CASE UNCHANGED storeVars
      BY <1>2, <2>1, ListsStay DEF storeVars
    <2>2. CASE /\ SP!Found(p) /\ entries[p] # NoFile
               /\ entries' = [entries EXCEPT ![p] = NoFile]
      <3>1. \A q \in Paths : entries'[q] # NoFile => entries'[q] = entries[q]
        <4>1. entries \in [Paths -> FileMeta \cup {NoFile}]
          BY <1>1 DEF TypeInv, SP!StoreInv, SP!TypeOK
        <4>. QED  BY <2>2, <4>1
      <3>2. \A i \in 1..Len(deleted_entries') :
              \/ \E j \in 1..Len(deleted_entries) :
                   deleted_entries'[i].meta = deleted_entries[j].meta
              \/ deleted_entries'[i].meta = entries[p]
        BY <1>1, <1>4, <2>2, DequeAfterDelete
      <3>. QED  BY <1>2, <2>2, <3>1, <3>2 DEF ListsMove
    <2>. QED  BY <1>4, <2>1, <2>2
  <1>6. MissesStay
    BY <1>1, <1>2, FaultsRise
  <1>. QED  BY <1>2, <1>3, <1>5, <1>6, SweepQuiet DEF registryVars
\* A chunk with a new number is on no disk.
LEMMA SweepPutPlace ==
  ASSUME SweepInv, NEW w \in Puts, PutPlace(w)
  PROVE  PlacesInv'
  <1>1. ChunkInv /\ TypeInv /\ PlacesInv /\ OwnedInv
    BY DEF SweepInv, ChunkInv
  <1>2. PICK ids \in Registry!Selections :
          /\ Registry!selectNodesForReplication(ids)
          /\ \/ ids = <<>> /\ PutDone(w, "INTERNAL")
             \/ /\ ids # <<>>
                /\ put' = [put EXCEPT
                     ![w].pc = "sending",
                     ![w].chunks = Append(@, [chunk_id |-> chunk_id_counter,
                                              node_ids |-> ids]),
                     ![w].tasks = [i \in DOMAIN ids |-> "sent"]]
    BY DEF PutPlace
  <1> DEFINE n == chunk_id_counter
             c == [chunk_id |-> n, node_ids |-> ids]
             new == Append(put[w].chunks, c)
  <1>3. /\ entries' = entries /\ deleted_entries' = deleted_entries
        /\ scan' = scan /\ disks' = disks /\ cleaner' = cleaner
        /\ issued' = issued /\ registered_nodes' = registered_nodes /\ up' = up
        /\ faults' = faults
    BY <1>2 DEF PutPlace, storeVars, Registry!selectNodesForReplication
  <1>4. n \in Nat /\ n' = n + 1
    BY <1>1, ListTypes DEF PutPlace, NextChunkId
  <1>5. MissesStay /\ Shrinks
    BY <1>1, <1>3, FaultsRise DEF Shrinks
  <1>6. ReachInv' /\ BusyInv' /\ SweptInv'
    BY <1>1, <1>3, <1>5, ReachStays, SweptStays DEF PlacesInv
  <1>7. NumbersInv'
    BY <1>1, <1>4, <1>5, NumbersStay DEF PlacesInv
  <1>8. put \in [Puts -> PutState] /\ put[w].chunks \in Seq(ChunkInfo)
    BY <1>1, ListTypes DEF TypeInv, PutInv
  <1>9. \A v \in Puts : v # w => put'[v] = put[v]
    BY <1>2, <1>8 DEF PutDone
  <1>10. put'[w].chunks = <<>> \/ (ids # <<>> /\ put'[w].chunks = new)
    <2>1. CASE PutDone(w, "INTERNAL")
      BY <1>8, <2>1 DEF PutDone, IdlePut
    <2>2. CASE ids # <<>> /\ ~PutDone(w, "INTERNAL")
      BY <1>2, <1>8, <2>2 DEF PutState
    <2>. QED  BY <1>2, <2>1, <2>2
  <1>11. ASSUME NoReplicaMissed, ids # <<>>
         PROVE  Placed(new, disks, issued)
    <2>1. Placed(put[w].chunks, disks, issued)
      BY <1>1, <1>11 DEF PlacesInv, PlacedInv
    <2>2. \A m \in Nodes : n \notin DOMAIN disks[m]
      BY <1>1, <1>4, <1>11 DEF PlacesInv, NumbersInv
    <2>3. c \in ChunkInfo /\ c.chunk_id = n
      BY <1>1, <1>4, <1>11, SelectedIds DEF ChunkInfo, TypeInv
    <2> HIDE DEF c
    <2>4. /\ Len(put[w].chunks) \in Nat
          /\ Len(new) = Len(put[w].chunks) + 1
          /\ \A i \in 1..Len(put[w].chunks) : new[i] = put[w].chunks[i]
          /\ new[Len(put[w].chunks) + 1] = c
      BY <1>8, <2>3
    <2> HIDE DEF new, n
    <2>5. ASSUME NEW i \in 1..Len(new), NEW m \in Nodes,
                 new[i].chunk_id \in DOMAIN disks[m]
          PROVE  \E j \in 1..ReplicationFactor : m = issued[new[i].node_ids[j]]
      <3>1. i \in 1..Len(put[w].chunks) \/ i = Len(put[w].chunks) + 1
        BY <2>4
      <3>2. i \in 1..Len(put[w].chunks)
        BY <2>2, <2>3, <2>4, <2>5, <3>1
      <3>. QED  BY <2>1, <2>4, <2>5, <3>2 DEF Placed
    <2>. QED  BY <2>5 DEF Placed
  <1> HIDE DEF new, n, c
  <1>12. PlacedInv'
    <2> SUFFICES ASSUME NoReplicaMissed' PROVE PlacedInv'
      BY DEF PlacedInv
    <2>1. NoReplicaMissed /\ PlacedInv
      BY <1>1, <1>5 DEF MissesStay, PlacesInv
    <2>2. \A v \in Puts : Placed(put'[v].chunks, disks, issued)
      BY <1>9, <1>10, <1>11, <2>1, PlacedEmpty DEF PlacedInv
    <2>. QED  BY <1>3, <2>1, <2>2 DEF PlacedInv
  <1>. QED  BY <1>6, <1>7, <1>12 DEF PlacesInv

\* What a task does to the disks: nothing, or one file of one replica.
LEMMA TaskWrites ==
  ASSUME TypeInv, NEW w \in Puts, NEW i \in DOMAIN put[w].tasks, PutTask(w, i)
  PROVE  LET n == Len(put[w].chunks)
             k == put[w].chunks[n].chunk_id
             id == put[w].chunks[n].node_ids[i]
         IN  /\ n \in Nat \ {0} /\ k \in Nat /\ i \in 1..ReplicationFactor
             /\ \A h \in Nodes :
                  \/ DOMAIN disks'[h] = DOMAIN disks[h]
                  \/ h = issued[id] /\ DOMAIN disks'[h] = DOMAIN disks[h] \cup {k}
  <1> DEFINE n == Len(put[w].chunks)
             k == put[w].chunks[n].chunk_id
             id == put[w].chunks[n].node_ids[i]
             x == Slice(put[w].data, n)
  <1>1. PutInv /\ DiskInv /\ RP!RegistryInv
    BY DEF TypeInv
  <1>2. put[w].pc = "sending"
    BY DEF PutTask
  <1>3. n \in Nat \ {0} /\ k \in Nat /\ x \in Data
    BY <1>1, <1>2, SendingChunk
  <1>4. i \in 1..ReplicationFactor
    BY <1>1, <1>2, SendingChunk
  <1> HIDE DEF x, k, id
  <1>5. \/ disks' = disks
        \/ /\ id \in DOMAIN registered_nodes
           /\ \E y \in Data : WriteChunk(id, k, y)
    BY <1>3, PrefixData DEF PutTask, Reachable, x, k, id
  <1>6. ASSUME id \in DOMAIN registered_nodes, NEW y \in Data,
               WriteChunk(id, k, y), NEW h \in Nodes
        PROVE  \/ DOMAIN disks'[h] = DOMAIN disks[h]
               \/ h = issued[id] /\ DOMAIN disks'[h] = DOMAIN disks[h] \cup {k}
    BY <1>1, <1>3, <1>6, WriteFrame
  <1>. QED  BY <1>3, <1>4, <1>5, <1>6 DEF k, id

\* A write puts a chunk where it belongs, and brings back none that the
\* chunk deleter has removed.
LEMMA SweepPutTask ==
  ASSUME SweepInv, NEW w \in Puts, NEW i \in DOMAIN put[w].tasks, PutTask(w, i)
  PROVE  PlacesInv'
  <1>1. ChunkInv /\ TypeInv /\ PlacesInv /\ OwnedInv /\ DisjointInv
    BY DEF SweepInv, ChunkInv
  <1>2. PICK cs \in Seq(ChunkInfo) : cs = put[w].chunks
    BY <1>1, ListTypes
  <1>3. PICK n : n = Len(cs)
    OBVIOUS
  <1>4. PICK k : k = cs[n].chunk_id
    OBVIOUS
  <1>5. PICK g : g = issued[cs[n].node_ids[i]]
    OBVIOUS
  <1>6. /\ n \in Nat \ {0} /\ k \in Nat /\ i \in 1..ReplicationFactor
        /\ \A h \in Nodes : \/ DOMAIN disks'[h] = DOMAIN disks[h]
                            \/ h = g /\ DOMAIN disks'[h] = DOMAIN disks[h] \cup {k}
    BY <1>1, <1>2, <1>3, <1>4, <1>5, TaskWrites
  <1>7. /\ entries' = entries /\ deleted_entries' = deleted_entries
        /\ scan' = scan /\ cleaner' = cleaner
        /\ issued' = issued /\ registered_nodes' = registered_nodes /\ up' = up
        /\ chunk_id_counter' = chunk_id_counter
        /\ \/ faults' = faults
           \/ Registry!Fault("call") \/ Registry!Fault("write")
    BY DEF PutTask, storeVars, registryVars, NoFault
  <1>8. \A v \in Puts : put'[v].chunks = put[v].chunks \/ put'[v].chunks = <<>>
    BY <1>1, UploadsKeep
  <1>9. MissesStay
    BY <1>1, <1>7, RegistrySteps, FaultsRise, CoordinatorAssumption
  <1>10. ReachInv'
    BY <1>1, <1>7, <1>9, ReachStays DEF PlacesInv
  <1>11. Owned(cs, chunk_id_counter, Ids) /\ n \in 1..Len(cs)
    BY <1>1, <1>2, <1>3, <1>6 DEF OwnedInv
  <1>12. k < chunk_id_counter
    BY <1>4, <1>11 DEF Owned
  <1>13. NumbersInv'
    BY <1>1, <1>6, <1>7, <1>9, <1>12 DEF NumbersInv, PlacesInv, MissesStay
  <1>14. ASSUME NEW ds, Placed(ds, disks, issued),
                \A e \in 1..Len(ds) : ds[e].chunk_id # k
         PROVE  Placed(ds, disks', issued)
    <2>1. \A h \in Nodes, e \in 1..Len(ds) :
            ds[e].chunk_id \in DOMAIN disks'[h]
              => ds[e].chunk_id \in DOMAIN disks[h]
      BY <1>6, <1>14
    <2>. QED  BY <1>14, <2>1 DEF Placed
  <1>15. ASSUME Placed(cs, disks, issued)
         PROVE  Placed(cs, disks', issued)
    <2>1. ASSUME NEW e \in 1..Len(cs), NEW h \in Nodes,
                 cs[e].chunk_id \in DOMAIN disks'[h]
          PROVE  \E j \in 1..ReplicationFactor : h = issued[cs[e].node_ids[j]]
      <3>1. CASE cs[e].chunk_id \in DOMAIN disks[h]
        BY <1>15, <3>1 DEF Placed
      <3>2. CASE cs[e].chunk_id = k /\ h = g
        <4>1. e = n
          BY <1>4, <1>11, <3>2 DEF Owned
        <4>. QED  BY <1>5, <1>6, <3>2, <4>1
      <3>. QED  BY <1>6, <2>1, <3>1, <3>2
    <2>. QED  BY <2>1 DEF Placed
  <1>16. /\ \A p \in Paths : entries[p] # NoFile =>
              \A e \in 1..Len(entries[p].chunks) :
                entries[p].chunks[e].chunk_id # k
         /\ \A t \in 1..Len(deleted_entries) :
              \A e \in 1..Len(deleted_entries[t].meta.chunks) :
                deleted_entries[t].meta.chunks[e].chunk_id # k
         /\ \A v \in Puts : v # w =>
              \A e \in 1..Len(put[v].chunks) : put[v].chunks[e].chunk_id # k
    BY <1>1, <1>2, <1>4, <1>11 DEF DisjointInv, Disjoint
  <1>17. PlacedInv'
    <2> SUFFICES ASSUME NoReplicaMissed' PROVE PlacedInv'
      BY DEF PlacedInv
    <2>1. /\ \A p \in Paths : entries[p] # NoFile
               => Placed(entries[p].chunks, disks, issued)
          /\ \A t \in 1..Len(deleted_entries) :
               Placed(deleted_entries[t].meta.chunks, disks, issued)
          /\ \A v \in Puts : Placed(put[v].chunks, disks, issued)
      BY <1>1, <1>9 DEF MissesStay, PlacesInv, PlacedInv
    <2>2. \A v \in Puts : Placed(put[v].chunks, disks', issued)
      BY <1>2, <1>14, <1>15, <1>16, <2>1
    <2>3. \A v \in Puts : Placed(put'[v].chunks, disks', issued)
      BY <1>8, <2>2, PlacedEmpty
    <2>4. /\ \A p \in Paths : entries[p] # NoFile
               => Placed(entries[p].chunks, disks', issued)
          /\ \A t \in 1..Len(deleted_entries) :
               Placed(deleted_entries[t].meta.chunks, disks', issued)
      BY <1>14, <1>16, <2>1
    <2>. QED  BY <1>7, <2>3, <2>4 DEF PlacedInv
  <1>18. BusyInv'
    BY <1>1, <1>7 DEF PlacesInv, BusyInv, Store!Scanning, Store!Scanned,
                      Store!Aged
  <1>19. SweptInv'
    <2>1. PICK m : m = Store!Scanned.meta
      OBVIOUS
    <2>2. Store!Scanned'.meta = m
      BY <1>7, <2>1 DEF Store!Scanned
    <2>3. ASSUME NoReplicaMissed', cleaner.at # 1,
                 NEW q \in 1..Len(DeletionsOf(m)), q < cleaner.at
          PROVE  Swept(m, q, disks', issued)
      <3>1. NoReplicaMissed /\ Store!Scanning
        BY <1>1, <1>9, <2>3 DEF MissesStay, PlacesInv, BusyInv
      <3>2. Swept(m, q, disks, issued)
        BY <1>1, <2>1, <2>3, <3>1 DEF PlacesInv, SweptInv
      <3>3. /\ DeletionsOf(m)[q].node_id \in Ids
            /\ \E e \in 1..Len(deleted_entries[scan.at].meta.chunks) :
                 DeletionsOf(m)[q].chunk_id
                   = deleted_entries[scan.at].meta.chunks[e].chunk_id
        BY <1>1, <2>1, <3>1, SweepTarget
      <3>4. scan.at \in 1..Len(deleted_entries)
        BY <1>1, <3>1, ScannedTombstone
      <3>5. DeletionsOf(m)[q].chunk_id # k
        BY <1>16, <3>3, <3>4
      <3>6. issued[DeletionsOf(m)[q].node_id] \in Nodes
        BY <1>1, <3>3 DEF TypeInv, RP!RegistryInv, RP!TypeOK, Ids
      <3>. QED  BY <1>6, <3>2, <3>5, <3>6 DEF Swept
    <2>. QED  BY <1>7, <2>2, <2>3 DEF SweptInv
  <1>. QED  BY <1>10, <1>13, <1>17, <1>18, <1>19 DEF PlacesInv
\* The next call of the chunk deleter reaches its node and removes the file.
LEMMA SweepCleanupDelete ==
  ASSUME SweepInv, CleanupDelete
  PROVE  PlacesInv'
  <1>1. ChunkInv /\ TypeInv /\ PlacesInv /\ CleanerInv
    BY DEF SweepInv, ChunkInv, TypeInv
  <1>2. PICK m \in FileMeta : m = Store!Scanned.meta
    BY <1>1, CleanupCall
  <1>3. PICK q : q = cleaner.at
    OBVIOUS
  <1>4. PICK id : id = DeletionsOf(m)[q].node_id
    OBVIOUS
  <1>5. PICK k : k = DeletionsOf(m)[q].chunk_id
    OBVIOUS
  <1>6. /\ q \in Nat \ {0} /\ q <= Len(DeletionsOf(m))
        /\ Len(DeletionsOf(m)) \in Nat /\ q \in 1..Len(DeletionsOf(m))
    <2>1. q \in Nat \ {0} /\ q <= Len(DeletionsOf(m))
      BY <1>1, <1>2, <1>3 DEF CleanupDelete, CleanerInv
    <2>. QED  BY <2>1, Deletions
  <1>7. /\ entries' = entries /\ deleted_entries' = deleted_entries
        /\ scan' = scan /\ put' = put /\ chunk_id_counter' = chunk_id_counter
        /\ issued' = issued /\ registered_nodes' = registered_nodes /\ up' = up
    BY DEF CleanupDelete, storeVars, registryVars, requestVars
  <1>8. cleaner'.at = q + 1 /\ q + 1 # 1
    BY <1>1, <1>3, <1>6 DEF CleanupDelete, CleanerInv
  <1>9. /\ Store!Scanning /\ Store!Aged(Store!Scanned, scan.now)
        /\ \/ Reachable(id) /\ RemoveChunk(id, k) /\ faults' = faults
           \/ Registry!Fault("call") /\ disks' = disks
           \/ ~Reachable(id) /\ disks' = disks /\ faults' = faults
    BY <1>2, <1>3, <1>4, <1>5 DEF CleanupDelete, NoFault
  <1>10. id \in Ids /\ k \in Nat /\ issued[id] \in Nodes
    <2>1. id \in Ids /\ k \in Nat
      BY <1>1, <1>2, <1>4, <1>5, <1>6, <1>9, SweepTarget
    <2>. QED  BY <1>1, <2>1 DEF TypeInv, RP!RegistryInv, RP!TypeOK, Ids
  <1>11. ASSUME Reachable(id), RemoveChunk(id, k)
         PROVE  /\ DOMAIN disks'[issued[id]] = DOMAIN disks[issued[id]] \ {k}
                /\ \A n \in Nodes : n # issued[id] => disks'[n] = disks[n]
    BY <1>1, <1>10, <1>11, RemoveFrame DEF Reachable, TypeInv
  <1>12. Shrinks
    <2>1. \A n \in Nodes : DOMAIN disks'[n] \subseteq DOMAIN disks[n]
      BY <1>9, <1>11
    <2>. QED  BY <1>7, <2>1 DEF Shrinks
  <1>13. MissesStay
    BY <1>1, <1>9, RegistrySteps, FaultsRise, CoordinatorAssumption
  <1>14. ReachInv' /\ PlacedInv' /\ NumbersInv'
    <2>1. ListsMove
      BY <1>7, ListsStay
    <2>2. chunk_id_counter \in Nat
      BY <1>1, ListTypes
    <2>. QED  BY <1>1, <1>7, <1>12, <1>13, <2>1, <2>2, ReachStays,
                 PlacedStays, NumbersStay DEF PlacesInv
  <1>15. BusyInv'
    BY <1>7, <1>9 DEF BusyInv, Store!Scanning, Store!Scanned, Store!Aged
  <1>16. Store!Scanned'.meta = m
    BY <1>2, <1>7 DEF Store!Scanned
  <1>17. ASSUME NoReplicaMissed', NEW e \in 1..Len(DeletionsOf(m)), e < q + 1
         PROVE  Swept(m, e, disks', issued)
    <2>1. NoReplicaMissed
      BY <1>13, <1>17 DEF MissesStay
    <2>2. Reachable(id)
      <3>1. id \in DOMAIN registered_nodes /\ up[issued[id]]
        BY <1>1, <1>10, <2>1 DEF PlacesInv, ReachInv, Ids
      <3>2. Home(id) = issued[id]
        BY <1>1, <3>1, HomeIssued DEF TypeInv
      <3>. QED  BY <3>1, <3>2 DEF Reachable, Home
    <2>3. ~Registry!Fault("call")
      BY <1>1, <1>17, RegistrySteps, FaultMisses
    <2>4. k \notin DOMAIN disks'[issued[id]]
      BY <1>9, <1>11, <2>2, <2>3
    <2>5. CASE e = q
      BY <1>4, <1>5, <2>4, <2>5 DEF Swept
    <2>6. CASE e # q
      <3>1. e < q /\ q # 1
        BY <1>6, <1>17, <2>6
      <3>2. Swept(m, e, disks, issued)
        BY <1>1, <1>2, <1>3, <1>17, <2>1, <3>1 DEF PlacesInv, SweptInv
      <3>3. DeletionsOf(m)[e].node_id \in Ids
        BY <1>1, <1>2, <1>9, SweepTarget
      <3>4. issued[DeletionsOf(m)[e].node_id] \in Nodes
        BY <1>1, <3>3 DEF TypeInv, RP!RegistryInv, RP!TypeOK, Ids
      <3>. QED  BY <1>12, <3>2, <3>4 DEF Swept, Shrinks
    <2>. QED  BY <2>5, <2>6
  <1>18. SweptInv'
    BY <1>7, <1>8, <1>16, <1>17 DEF SweptInv
  <1>. QED  BY <1>14, <1>15, <1>18 DEF PlacesInv

\* A node that starts is reachable under its id; one that goes is a fault.
LEMMA SweepDataNode ==
  ASSUME SweepInv, NEW n \in Nodes, DataNode(n)
  PROVE  PlacesInv'
  <1>1. ChunkInv /\ TypeInv /\ PlacesInv /\ RP!RegistryInv
    BY DEF SweepInv, ChunkInv, TypeInv
  <1>2. /\ UNCHANGED storeVars /\ put' = put
        /\ chunk_id_counter' = chunk_id_counter /\ disks' = disks
        /\ cleaner' = cleaner /\ RP!DataNode(n)
    BY RegistrySteps DEF DataNode, requestVars
  <1>3. \/ faults' = faults
        \/ \E k \in {"rpc", "stop", "crash", "race"} : RP!Fault(k)
    BY <1>2, Zenon DEF RP!DataNode, RP!Start, RP!Assign, RP!Stop,
       RP!StopUnheard, RP!Crash, RP!Serve, RP!Shutdown, RP!coordinatorVars
  <1>4. MissesStay
    BY <1>1, <1>3, FaultsRise, CoordinatorAssumption
  <1>5. Shrinks
    BY <1>1, <1>2, IdsGrow DEF Shrinks
  <1>6. PlacedInv' /\ NumbersInv' /\ BusyInv' /\ SweptInv'
    <2>1. ListsMove
      BY <1>2, ListsStay DEF storeVars
    <2>2. chunk_id_counter \in Nat
      BY <1>1, ListTypes
    <2>. QED  BY <1>1, <1>2, <1>4, <1>5, <2>1, <2>2, PlacedStays, NumbersStay,
                 SweptStays DEF PlacesInv, storeVars
  <1>7. ReachInv'
    <2> SUFFICES ASSUME NoReplicaMissed' PROVE ReachInv'
      BY DEF ReachInv
    <2>1. \A k \in {"rpc", "stop", "crash", "race"} : ~RP!Fault(k)
      BY <1>1, FaultMisses
    <2>2. \A id \in DOMAIN issued :
            id \in DOMAIN registered_nodes /\ up[issued[id]]
      BY <1>1, <1>4 DEF MissesStay, PlacesInv, ReachInv
    <2>3. PICK f \in Families : RP!Start(n, f)
      BY <1>2, <2>1 DEF RP!DataNode, RP!Stop, RP!StopUnheard, RP!Crash
    <2>4. \/ RP!Assign([node |-> n, family |-> f])
          \/ UNCHANGED <<registered_nodes, issued>>
      BY <2>1, <2>3, Zenon DEF RP!Start, RP!coordinatorVars
    <2>5. /\ up \in [Nodes -> BOOLEAN] /\ next_node_id \in Nat \ {0}
          /\ issued \in [1..(next_node_id - 1) -> Nodes]
      BY <1>1 DEF RP!RegistryInv, RP!TypeOK
    <2>6. \A h \in Nodes : (up[h] \/ h = n) => up'[h]
      BY <2>3, <2>5 DEF RP!Start, RP!Serve
    <2>7. CASE UNCHANGED <<registered_nodes, issued>>
      BY <2>2, <2>5, <2>6, <2>7 DEF ReachInv
    <2>8. CASE RP!Assign([node |-> n, family |-> f])
      <3>1. /\ next_node_id' = next_node_id + 1
            /\ issued' \in [1..(next_node_id' - 1) -> Nodes]
            /\ issued'[next_node_id] = n
            /\ \A id \in DOMAIN issued : issued'[id] = issued[id]
        BY <1>1, <2>8, RegistryAssumed, RP!IssueProperties DEF RP!Assign
      <3>2. DOMAIN registered_nodes' = DOMAIN registered_nodes \cup {next_node_id}
        BY <1>1, <2>8, RegistryAssumed, RP!AssignProperties
      <3>3. \A id \in DOMAIN issued' : id \in DOMAIN issued \/ id = next_node_id
        BY <2>5, <3>1
      <3>. QED  BY <2>2, <2>5, <2>6, <3>1, <3>2, <3>3 DEF ReachInv
    <2>. QED  BY <2>4, <2>7, <2>8
  <1>. QED  BY <1>6, <1>7 DEF PlacesInv

\* A restart is a fault, and the chunk deleter is gone with it.
LEMMA SweepRestart ==
  ASSUME SweepInv, CoordinatorRestart
  PROVE  PlacesInv'
  <1>1. RP!Fault("restart")
    BY RegistrySteps DEF CoordinatorRestart, Registry!CoordinatorRestart
  <1>2. ~NoReplicaMissed'
    BY <1>1, FaultMisses DEF SweepInv, ChunkInv
  <1>3. cleaner'.at = 1
    BY DEF CoordinatorRestart
  <1>4. BusyInv'
    BY <1>3, SweptIdle
  <1>. QED  BY <1>2, <1>4 DEF PlacesInv, ReachInv, NumbersInv, PlacedInv,
                              SweptInv

\* Initially nothing is on any disk.
LEMMA SweepInvInit == Init => SweepInv
  <1> SUFFICES ASSUME Init PROVE PlacesInv
    BY ChunkInvInit DEF SweepInv
  <1>1. /\ DOMAIN issued = {} /\ cleaner.at = 1
        /\ \A n \in Nodes : DOMAIN disks[n] = {}
    BY DEF Init, Registry!Init, Registry!EmptyRegistry
  <1>2. \A cs : Placed(cs, disks, issued)
    BY <1>1 DEF Placed
  <1>. QED  BY <1>1, <1>2 DEF PlacesInv, ReachInv, NumbersInv, PlacedInv,
                              BusyInv, SweptInv

\* Every step keeps it.
LEMMA SweepInvNext == SweepInv /\ [Next]_vars => SweepInv'
  <1> SUFFICES ASSUME SweepInv, [Next]_vars PROVE PlacesInv'
    BY ChunkInvNext DEF SweepInv
  <1>1. ASSUME NEW w \in Puts,
               \/ \E p \in Paths, c \in Contents : PutBegin(w, p, c)
               \/ PutUnnamed(w) \/ PutStep(w) \/ PutCommit(w)
        PROVE  PlacesInv'
    BY <1>1, SweepPutQuiet, SweepPutPlace, SweepPutTask, SweepPutCommit
    DEF PutStep
  <1>2. ASSUME NEW r \in Gets, (\E p \in Paths : GetBegin(r, p)) \/ GetStep(r)
        PROVE  PlacesInv'
    BY <1>2, SweepReads
  <1>3. ASSUME NEW d \in Dels, (\E p \in Paths : DelBegin(d, p)) \/ DelTombstone(d)
        PROVE  PlacesInv'
    BY <1>3, SweepReads, SweepDelTombstone
  <1>4. CASE CleanupWake \/ CleanupStep
    BY <1>4, SweepIdle, SweepErase, SweepCleanupDelete DEF CleanupStep
  <1>5. CASE Tick \/ UNCHANGED vars
    BY <1>5, SweepReads
  <1>6. CASE CoordinatorRestart \/ \E n \in Nodes : DataNode(n)
    BY <1>6, SweepRestart, SweepDataNode
  <1>. QED  BY <1>1, <1>2, <1>3, <1>4, <1>5, <1>6 DEF Next

\* As long as no node has gone and no call has failed, a chunk is nowhere but
\* on the nodes of its replicas, and what the chunk deleter has done its calls
\* for is on none of them.
THEOREM CoordinatorSweepInv == Spec => []SweepInv
  BY SweepInvInit, SweepInvNext, PTL DEF Spec

\* There is a call of the chunk deleter for every replica of every chunk.
LEMMA DeletionFor ==
  ASSUME NEW m \in FileMeta, NEW i \in 1..Len(m.chunks),
         NEW j \in 1..ReplicationFactor
  PROVE  \E k \in 1..Len(DeletionsOf(m)) :
           /\ DeletionsOf(m)[k].chunk_id = m.chunks[i].chunk_id
           /\ DeletionsOf(m)[k].node_id = m.chunks[i].node_ids[j]
  <1> DEFINE n == Len(m.chunks)
             f == ReplicationFactor
             k == (i - 1) * f + j
  <1>1. n \in Nat /\ f \in Nat \ {0}
    BY CoordinatorAssumption DEF FileMeta
  <1> HIDE DEF n, f
  <1>2. i \in 1..n /\ j \in 1..f
    BY DEF n, f
  <1>3. k \in Nat \ {0} /\ k <= n * f
    <2>1. (i - 1) * f \in Nat /\ i * f = (i - 1) * f + f
      BY <1>1, <1>2
    <2>2. i * f <= n * f /\ n * f \in Nat
      BY <1>1, <1>2
    <2>. QED  BY <1>1, <1>2, <2>1, <2>2
  <1>4. (k - 1) \div f = i - 1 /\ (k - 1) % f = j - 1
    <2> DEFINE q == (k - 1) \div f
               r == (k - 1) % f
    <2>1. k - 1 \in Nat /\ k - 1 = f * (i - 1) + (j - 1)
      BY <1>1, <1>2, <1>3
    <2>2. q \in Nat /\ r \in 0..(f - 1) /\ k - 1 = f * q + r
      BY <1>1, <2>1
    <2> HIDE DEF q, r, k
    <2>3. f * q + r = f * (i - 1) + (j - 1)
      BY <2>1, <2>2
    <2>4. q = i - 1
      <3>1. CASE q < i - 1
        <4>1. f * q + f <= f * (i - 1)
          BY <1>1, <1>2, <2>2, <3>1
        <4>. QED  BY <1>1, <1>2, <2>2, <2>3, <4>1
      <3>2. CASE q > i - 1
        <4>1. f * (i - 1) + f <= f * q
          BY <1>1, <1>2, <2>2, <3>2
        <4>. QED  BY <1>1, <1>2, <2>2, <2>3, <4>1
      <3>. QED  BY <1>2, <2>2, <3>1, <3>2
    <2>5. r = j - 1
      BY <1>1, <1>2, <2>2, <2>3, <2>4
    <2>. QED  BY <2>4, <2>5 DEF q, r
  <1> HIDE DEF k
  <1>5. Len(DeletionsOf(m)) = n * f /\ k \in 1..(n * f)
    <2>1. n * f \in Nat
      BY <1>1
    <2>. QED  BY <1>3, <2>1, Deletions DEF n, f
  <1>6. DeletionsOf(m)[k] =
          [chunk_id |-> m.chunks[((k - 1) \div f) + 1].chunk_id,
           node_id |-> m.chunks[((k - 1) \div f) + 1].node_ids
                         [((k - 1) % f) + 1]]
    BY <1>5 DEF DeletionsOf, n, f
  <1>7. (i - 1) + 1 = i /\ (j - 1) + 1 = j
    BY <1>1, <1>2
  <1>. QED  BY <1>4, <1>5, <1>6, <1>7

\* While the lock is held, only CleanupErase takes tombstones away, short of a
\* restart.
LEMMA OnlyEraseDrops ==
  ASSUME SweepInv, [Next]_vars, scan.locked, deleted_entries' # deleted_entries,
         NoReplicaMissed'
  PROVE  CleanupErase
  <1>1. TypeInv
    BY DEF SweepInv, ChunkInv
  <1>2. ~CoordinatorRestart
    BY <1>1, RegistrySteps, FaultMisses
    DEF CoordinatorRestart, Registry!CoordinatorRestart
  <1>3. \A d \in Dels : ~DelTombstone(d)
    BY DEF DelTombstone, Store!deletePath, Store!Unlocked
  <1>4. ASSUME NEW w \in Puts,
               \/ \E p \in Paths, c \in Contents : PutBegin(w, p, c)
               \/ PutUnnamed(w) \/ PutStep(w) \/ PutCommit(w)
        PROVE  FALSE
    BY <1>4 DEF PutBegin, PutUnnamed, PutStep, PutReceive, PutPlace, PutTask,
       PutJoin, PutCommit, Store!putFile, storeVars
  <1>5. ASSUME NEW r \in Gets, (\E p \in Paths : GetBegin(r, p)) \/ GetStep(r)
        PROVE  FALSE
    BY <1>5 DEF GetBegin, GetStep, GetOpen, GetTry, GetEnd, storeVars
  <1>6. ASSUME \/ \E d \in Dels, p \in Paths : DelBegin(d, p)
               \/ CleanupWake \/ CleanupSkip \/ CleanupDelete \/ CleanupEnd
               \/ Tick \/ UNCHANGED vars \/ \E n \in Nodes : DataNode(n)
        PROVE  FALSE
    BY <1>6 DEF DelBegin, CleanupWake, CleanupSkip, CleanupDelete, CleanupEnd,
       Tick, vars, DataNode, Store!CleanupBegin, Store!CleanupSkip,
       Store!CleanupEnd, Store!Tick, storeVars
  <1>. QED  BY <1>2, <1>3, <1>4, <1>5, <1>6 DEF Next, CleanupStep

\* What an erased tombstone had is on no disk.
LEMMA ErasedGone ==
  ASSUME SweepInv, CleanupErase, NoReplicaMissed',
         NEW t \in Range(deleted_entries), t \notin Range(deleted_entries'),
         NEW c \in Range(t.meta.chunks), NEW h \in Nodes
  PROVE  c.chunk_id \notin DOMAIN disks[h]
  <1>1. ChunkInv /\ TypeInv /\ PlacesInv /\ CleanerInv /\ Store!Scanning
    BY DEF SweepInv, ChunkInv, TypeInv, CleanupErase, Store!CleanupErase
  <1>2. NoReplicaMissed
    BY DEF CleanupErase, NoReplicaMissed
  <1>3. /\ Len(deleted_entries) \in Nat /\ scan.at \in 1..Len(deleted_entries)
        /\ Len(deleted_entries') = Len(deleted_entries) - 1
        /\ \A i \in 1..(Len(deleted_entries) - 1) :
             deleted_entries'[i] = IF i < scan.at THEN deleted_entries[i]
                                   ELSE deleted_entries[i + 1]
    BY <1>1, ListTypes, StoreAssumed, StoreSteps, SP!EraseDeque
    DEF CleanupErase, TypeInv
  <1>4. /\ deleted_entries \in Seq(SP!Tombstone)
        /\ Store!Scanned = deleted_entries[scan.at]
        /\ Store!Scanned.meta \in FileMeta
        /\ Store!Scanned.meta.chunks \in Seq(ChunkInfo)
    BY <1>1, ScannedTombstone
  <1>5. t = Store!Scanned
    <2>1. PICK e \in 1..Len(deleted_entries) : t = deleted_entries[e]
      BY <1>4 DEF Range
    <2>2. SP!StoreInv'
      BY <1>1, TypeCleanupScan DEF TypeInv
    <2>3. DOMAIN deleted_entries' = 1..Len(deleted_entries')
      BY <2>2 DEF SP!StoreInv, SP!TypeOK
    <2>4. ASSUME e # scan.at
          PROVE  \E i \in DOMAIN deleted_entries' : deleted_entries'[i] = t
      <3>1. CASE e < scan.at
        <4>1. e \in 1..(Len(deleted_entries) - 1)
          BY <1>3, <3>1
        <4>. QED  BY <1>3, <2>1, <2>3, <3>1, <4>1
      <3>2. CASE e > scan.at
        <4>1. /\ e - 1 \in 1..(Len(deleted_entries) - 1)
              /\ ~(e - 1 < scan.at) /\ (e - 1) + 1 = e
          BY <1>3, <3>2
        <4>. QED  BY <1>3, <2>1, <2>3, <4>1
      <3>. QED  BY <1>3, <2>4, <3>1, <3>2
    <2>. QED  BY <1>4, <2>1, <2>4 DEF Range
  <1>6. PICK m \in FileMeta : m = Store!Scanned.meta /\ m.chunks \in Seq(ChunkInfo)
    BY <1>4
  <1>7. PICK i \in 1..Len(m.chunks) : c = m.chunks[i]
    BY <1>5, <1>6 DEF Range
  <1> SUFFICES ASSUME c.chunk_id \in DOMAIN disks[h] PROVE FALSE
    OBVIOUS
  <1>8. Placed(m.chunks, disks, issued)
    BY <1>1, <1>2, <1>3, <1>4, <1>6 DEF PlacesInv, PlacedInv
  <1>9. PICK j \in 1..ReplicationFactor : h = issued[m.chunks[i].node_ids[j]]
    BY <1>7, <1>8 DEF Placed
  <1>10. PICK k \in 1..Len(DeletionsOf(m)) :
           /\ DeletionsOf(m)[k].chunk_id = m.chunks[i].chunk_id
           /\ DeletionsOf(m)[k].node_id = m.chunks[i].node_ids[j]
    BY DeletionFor
  <1>11. cleaner.at \in Nat /\ cleaner.at > Len(DeletionsOf(m))
         /\ Len(DeletionsOf(m)) \in Nat
    BY <1>1, <1>6, Deletions DEF CleanupErase, CleanerInv
  <1>12. k < cleaner.at /\ cleaner.at # 1
    BY <1>11
  <1>13. Swept(m, k, disks, issued)
    BY <1>1, <1>2, <1>6, <1>12 DEF PlacesInv, SweptInv
  <1>. QED  BY <1>7, <1>9, <1>10, <1>13 DEF Swept

\* cleanupWorker deletes every replica before the tombstone goes: as long as no
\* node has gone and no call has failed, an erased tombstone has left no chunk
\* on any disk.
THEOREM CoordinatorCleanupComplete == Spec => CleanupRemovesReplicas
  <1>1. ASSUME SweepInv, [Next]_vars
        PROVE  [\A t \in Range(deleted_entries) :
                  /\ scan.locked /\ t \notin Range(deleted_entries')
                  /\ NoReplicaMissed'
                  => \A c \in Range(t.meta.chunks), n \in Nodes :
                       c.chunk_id \notin DOMAIN disks[n]]_vars
    BY <1>1, OnlyEraseDrops, ErasedGone
  <1>2. SweepInv /\ [Next]_vars =>
          [\A t \in Range(deleted_entries) :
             /\ scan.locked /\ t \notin Range(deleted_entries')
             /\ NoReplicaMissed'
             => \A c \in Range(t.meta.chunks), n \in Nodes :
                  c.chunk_id \notin DOMAIN disks[n]]_vars
    BY <1>1
  <1>. QED  BY <1>2, CoordinatorSweepInv, PTL DEF Spec, CleanupRemovesReplicas
=============================================================================
