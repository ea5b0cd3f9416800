-------------------------- MODULE DFSClientProofs --------------------------
(***************************************************************************)
(* What the client library reports is true: proofs about DFSClient, for    *)
(* files, buffers, chunks and windows of any size and any number of calls. *)
(***************************************************************************)
EXTENDS DFSClient, SequenceTheorems, TLAPS

(***************************************************************************)
(* The inductive invariant, part by part; x is the state of one call.      *)
(***************************************************************************)

File(x) == LocalFiles[x.path]

\* The first k units of some data.
Upto(data, k) == SubSeq(data, 1, IF k < Len(data) THEN k ELSE Len(data))

\* b[j] is where in the local file the j-th message in flight begins: what the
\* handler has, what is in flight and what the client has yet to read are
\* consecutive parts of the file.
Marks(x) == [1..(Len(x.sent) + 1) -> 0..x.at]
Cuts(x, b) ==
  /\ b[Len(x.sent) + 1] = x.at
  /\ x.received = SubSeq(File(x), 1, b[1])
  /\ \A j \in 1..Len(x.sent) :
       b[j] <= b[j + 1] /\ x.sent[j] = SubSeq(File(x), b[j] + 1, b[j + 1])

PutShape(x) ==
  /\ x.pc = "idle" => x = IdlePut
  /\ x.pc # "idle" => x.path \in Paths
  /\ x.pc # "ready" => x.result = "none"
  /\ x.status = "OK" \/ x.result = "value" => x.srv = "answered"
  /\ x.srv = "reading" => x.chunks = 0 /\ x.stored = <<>>
  /\ x.srv = "splitting" =>
       /\ x.chunks <= NumChunks(x.received)
       /\ x.stored = Upto(x.received, x.chunks * ChunkSize)

\* While the stream holds.
PutWhole(x) ==
  ~x.broken =>
    /\ x.pc = "ready" => x.srv = "answered"
    /\ x.pc \in {"naming", "streaming", "finishing"} =>
         /\ x.at <= x.size /\ x.size <= Len(File(x))
         /\ x.ended => x.pc = "finishing" /\ x.at = x.size
         /\ x.srv = "reading" => \E b \in Marks(x) : Cuts(x, b)
    /\ x.srv = "splitting" =>
         x.pc = "finishing" /\ x.received = SubSeq(File(x), 1, x.size)
    /\ x.status = "OK" =>
         x.pc = "finishing" /\ x.saved = SubSeq(File(x), 1, x.size)

\* Without an error on the local file, the size is its length.
PutHonest(x, readErrors) ==
  readErrors = 0 =>
    /\ x.pc \in {"naming", "streaming", "finishing"} => x.size = Len(File(x))
    /\ x.result = "value" => x.saved = File(x)

\* Without a broken connection, only an answered call is given up.
PutKept(x, streamErrors) ==
  streamErrors = 0 /\ x.broken => x.srv = "answered"

GetShape(x) ==
  /\ x.pc = "idle" => x = IdleGet
  /\ x.pc # "idle" => x.path \in Paths
  /\ x.pc # "ready" => x.result = "none"
  /\ x.srv = "sending" => x.content \in Data
  /\ x.srv = "called" => x.got = <<>> /\ x.sent = <<>> /\ x.chunks = 0
  /\ x.status = "OK" => x.srv = "answered" /\ x.content \in Data
  /\ x.result = "value" => x.got = x.content /\ x.srv = "answered"

\* While the stream holds: what the client has and what is in flight are the
\* chunks sent so far.
GetWhole(x) ==
  /\ ~x.broken /\ (x.srv = "sending" \/ x.status = "OK") =>
       /\ Len(x.sent) <= x.chunks /\ x.chunks <= NumChunks(x.content)
       /\ x.got = Upto(x.content, (x.chunks - Len(x.sent)) * ChunkSize)
       /\ \A j \in 1..Len(x.sent) :
            x.sent[j] = Slice(x.content, x.chunks - Len(x.sent) + j)
  /\ ~x.broken /\ x.status = "OK" => x.chunks = NumChunks(x.content)

DelShape(x) == x.pc # "idle" => x.path \in Paths

PutsInv ==
  \A w \in Puts : /\ PutShape(put[w]) /\ PutWhole(put[w])
                  /\ PutHonest(put[w], faults["read"])
                  /\ PutKept(put[w], faults["stream"])
GetsInv == \A r \in Gets : GetShape(get[r]) /\ GetWhole(get[r])
DelsInv == \A d \in Dels : DelShape(del[d])

ClientInv == TypeOK /\ PutsInv /\ GetsInv /\ DelsInv /\ CommittedWhole
(***************************************************************************)
(* Data.                                                                   *)
(***************************************************************************)

\* A local file is data.
LEMMA FileIsData ==
  ASSUME NEW p \in Paths
  PROVE  LocalFiles[p] \in Data
  <1> DEFINE U == UNION {Range(LocalFiles[q]) : q \in Paths}
  <1>1. LocalFiles[p] \in Seq(Range(LocalFiles[p]))
    BY ClientAssumption
  <1>2. Range(LocalFiles[p]) \subseteq U
    OBVIOUS
  <1> HIDE DEF U
  <1>3. LocalFiles[p] \in Seq(U)
    BY <1>1, <1>2
  <1>. QED  BY <1>3 DEF Data, U

\* Data is all the sequences over some set.
LEMMA DataIsSeq == \E U : Data = Seq(U)
  BY DEF Data

\* Parts of data are data.
LEMMA PartIsData ==
  ASSUME NEW d \in Data, NEW m \in Nat, NEW n \in 0..Len(d)
  PROVE  /\ SubSeq(d, m + 1, n) \in Data
         /\ Len(SubSeq(d, m + 1, n)) = IF m < n THEN n - m ELSE 0
  <1>1. PICK U : Data = Seq(U)
    BY DataIsSeq
  <1>2. \A i \in (m + 1)..n : d[i] \in U
    BY <1>1
  <1>. QED  BY <1>1, <1>2, SubSeqProperties

\* The concatenation of data is data.
LEMMA JoinIsData ==
  ASSUME NEW d \in Data, NEW e \in Data
  PROVE  d \o e \in Data
  <1>1. PICK U : Data = Seq(U)
    BY DataIsSeq
  <1>. QED  BY <1>1, ConcatProperties

\* A start of the data and what follows it join up.
LEMMA PartsJoin ==
  ASSUME NEW d \in Data, NEW k \in 0..Len(d), NEW n \in k..Len(d)
  PROVE  SubSeq(d, 1, k) \o SubSeq(d, k + 1, n) = SubSeq(d, 1, n)
  <1>1. PICK U : Data = Seq(U)
    BY DataIsSeq
  <1>. QED  BY <1>1, ConcatAdjacentSubSeq

\* The empty part, and the whole.
LEMMA PartEnds ==
  ASSUME NEW d \in Data
  PROVE  /\ Len(d) \in Nat
         /\ <<>> \in Data /\ d \o <<>> = d
         /\ \A m, n \in Int : n < m => SubSeq(d, m, n) = <<>>
         /\ SubSeq(d, 1, Len(d)) = d
  <1>1. PICK U : Data = Seq(U)
    BY DataIsSeq
  <1>2. SubSeq(d, 1, Len(d)) = d
    BY <1>1, SubSeqFull
  <1>3. \A m, n \in Int : n < m => SubSeq(d, m, n) = <<>>
    BY SubSeqEmpty
  <1>4. d \o <<>> = d
    BY <1>1, ConcatEmptySeq
  <1>. QED  BY <1>1, <1>2, <1>3, <1>4

\* The chunks join up to the data (NumChunks rounds up).
LEMMA ChunksJoin ==
  ASSUME NEW d \in Data
  PROVE  /\ NumChunks(d) \in Nat
         /\ Upto(d, 0) = <<>>
         /\ Upto(d, NumChunks(d) * ChunkSize) = d
         /\ \A i \in 1..NumChunks(d) :
              /\ Slice(d, i) \in Data
              /\ Upto(d, (i - 1) * ChunkSize) \o Slice(d, i)
                   = Upto(d, i * ChunkSize)
  <1> DEFINE n == Len(d)
             s == ChunkSize
  <1>2. n \in Nat /\ s \in Nat \ {0}
    BY PartEnds, ClientAssumption
  <1> DEFINE q == (n + s - 1) \div s
  <1>3. q \in Nat /\ q * s >= n /\ (q - 1) * s < n
    <2> DEFINE r == (n + s - 1) % s
    <2>1. q \in Nat /\ r \in 0..(s - 1) /\ n + s - 1 = s * q + r
      BY <1>2
    <2> HIDE DEF q, r
    <2>2. s * q = q * s /\ (q - 1) * s = q * s - s
      BY <1>2, <2>1
    <2>. QED  BY <1>2, <2>1, <2>2
  <1>4. NumChunks(d) = q
    BY DEF NumChunks
  <1> HIDE DEF q
  <1>5. Upto(d, 0) = <<>>
    <2>1. (IF 0 < n THEN 0 ELSE n) = 0
      BY <1>2
    <2>. QED  BY <2>1, PartEnds DEF Upto
  <1>6. Upto(d, q * s) = d
    <2>1. ~(q * s < n)
      BY <1>2, <1>3
    <2>2. Upto(d, q * s) = SubSeq(d, 1, n)
      BY <2>1 DEF Upto
    <2>. QED  BY <2>2, PartEnds
  <1>7. ASSUME NEW i \in 1..q
        PROVE  /\ Slice(d, i) \in Data
               /\ Upto(d, (i - 1) * s) \o Slice(d, i) = Upto(d, i * s)
    <2> DEFINE a == (i - 1) * s
               b == IF i * s < n THEN i * s ELSE n
    <2>1. a \in Nat /\ i * s = a + s
      BY <1>2, <1>3
    <2>2. a < n
      <3>1. a <= (q - 1) * s
        BY <1>2, <1>3
      <3>. QED  BY <1>2, <1>3, <2>1, <3>1
    <2>3. Slice(d, i) = SubSeq(d, a + 1, b)
      BY DEF Slice, Piece
    <2>4. Upto(d, a) = SubSeq(d, 1, a)
      BY <2>2 DEF Upto
    <2>5. Upto(d, i * s) = SubSeq(d, 1, b)
      BY DEF Upto
    <2>6. a \in 0..n /\ b \in a..n
      BY <1>2, <2>1, <2>2
    <2> HIDE DEF a, b
    <2>7. SubSeq(d, 1, a) \o SubSeq(d, a + 1, b) = SubSeq(d, 1, b)
      BY <2>6, PartsJoin
    <2>8. a \in Nat /\ b \in 0..n
      BY <1>2, <2>6
    <2>9. SubSeq(d, a + 1, b) \in Data
      BY <2>8, PartIsData
    <2>. QED  BY <2>3, <2>4, <2>5, <2>7, <2>9 DEF a
  <1>. QED  BY <1>3, <1>4, <1>5, <1>6, <1>7

\* Only a value makes the program return 0.
LEMMA ExitIsValue ==
  ASSUME NEW r
  PROVE  ExitCode(r) = 0 <=> r = "value"
  BY DEF ExitCode

\* Faults are only added.
LEMMA FaultsGrow ==
  ASSUME TypeOK, NEW k \in FaultKinds, Fault(k)
  PROVE  /\ faults' \in [FaultKinds -> Nat]
         /\ faults'[k] # 0
         /\ \A j \in FaultKinds \ {k} : faults'[j] = faults[j]
  BY DEF TypeOK, Fault
(***************************************************************************)
(* One call takes a step, and the others keep what they have.              *)
(***************************************************************************)

\* No fault is forgotten.
MoreFaults ==
  /\ faults' \in [FaultKinds -> Nat]
  /\ faults'["read"] = 0 => faults["read"] = 0
  /\ faults'["stream"] = 0 => faults["stream"] = 0

\* With or without a fault, none is forgotten.
LEMMA FaultMore ==
  ASSUME TypeOK, NEW k \in FaultKinds, Fault(k)
  PROVE  MoreFaults
  BY FaultsGrow, ClientAssumption DEF MoreFaults

\* A step without a fault.
LEMMA NoFaultMore ==
  ASSUME TypeOK, NoFault
  PROVE  MoreFaults
  BY DEF MoreFaults, NoFault, TypeOK

\* The calls that do not move keep their part of the invariant.
LEMMA PutsStay ==
  ASSUME PutsInv, MoreFaults, NEW v \in Puts, put'[v] = put[v]
  PROVE  /\ PutShape(put[v])' /\ PutWhole(put[v])'
         /\ PutHonest(put[v], faults["read"])'
         /\ PutKept(put[v], faults["stream"])'
  <1>1. /\ PutShape(put[v]) /\ PutWhole(put[v])
        /\ PutHonest(put[v], faults["read"])
        /\ PutKept(put[v], faults["stream"])
    BY DEF PutsInv
  <1>2. PutShape(put'[v]) /\ PutWhole(put'[v])
    BY <1>1
  <1>3. PutHonest(put'[v], faults'["read"])
    BY <1>1 DEF PutHonest, MoreFaults, File
  <1>4. PutKept(put'[v], faults'["stream"])
    BY <1>1 DEF PutKept, MoreFaults
  <1>. QED  BY <1>2, <1>3, <1>4

\* A step of one upload that leaves the store alone.
LEMMA PutMoves ==
  ASSUME ClientInv, MoreFaults, PutUnchanged,
         NEW w \in Puts, NEW x \in PutState, put' = [put EXCEPT ![w] = x],
         PutShape(x), PutWhole(x),
         PutHonest(x, faults'["read"]), PutKept(x, faults'["stream"])
  PROVE  ClientInv'
  <1>1. put \in [Puts -> PutState]
    BY DEF ClientInv, TypeOK
  <1>2. put' \in [Puts -> PutState] /\ put'[w] = x
    BY <1>1
  <1>3. TypeOK'
    BY <1>2 DEF ClientInv, TypeOK, PutUnchanged, MoreFaults
  <1>4. PutsInv'
    <2>1. ASSUME NEW v \in Puts
          PROVE  /\ PutShape(put'[v]) /\ PutWhole(put'[v])
                 /\ PutHonest(put'[v], faults'["read"])
                 /\ PutKept(put'[v], faults'["stream"])
      <3>1. CASE v = w
        BY <1>2, <3>1
      <3>2. CASE v # w
        <4>1. put'[v] = put[v]
          BY <1>1, <3>2
        <4>. QED  BY <4>1, PutsStay DEF ClientInv
      <3>. QED  BY <3>1, <3>2
    <2>. QED  BY <2>1 DEF PutsInv
  <1>5. GetsInv' /\ DelsInv'
    BY DEF ClientInv, GetsInv, DelsInv, PutUnchanged
  <1>6. CommittedWhole'
    BY DEF ClientInv, CommittedWhole, PutUnchanged, MoreFaults
  <1>. QED  BY <1>3, <1>4, <1>5, <1>6 DEF ClientInv

\* A step of one download.
LEMMA GetMoves ==
  ASSUME ClientInv, MoreFaults, GetUnchanged,
         NEW r \in Gets, NEW x \in GetState, get' = [get EXCEPT ![r] = x],
         GetShape(x), GetWhole(x)
  PROVE  ClientInv'
  <1>1. get \in [Gets -> GetState]
    BY DEF ClientInv, TypeOK
  <1>2. get' \in [Gets -> GetState] /\ get'[r] = x
    BY <1>1
  <1>3. TypeOK'
    BY <1>2 DEF ClientInv, TypeOK, GetUnchanged, MoreFaults
  <1>4. PutsInv'
    <2>1. \A v \in Puts : put'[v] = put[v]
      BY DEF GetUnchanged
    <2>. QED  BY <2>1, PutsStay DEF PutsInv, ClientInv
  <1>5. GetsInv'
    <2>1. ASSUME NEW v \in Gets
          PROVE  GetShape(get'[v]) /\ GetWhole(get'[v])
      <3>1. CASE v = r
        BY <1>2, <3>1
      <3>2. CASE v # r
        <4>1. get'[v] = get[v]
          BY <1>1, <3>2
        <4>. QED  BY <4>1 DEF ClientInv, GetsInv
      <3>. QED  BY <3>1, <3>2
    <2>. QED  BY <2>1 DEF GetsInv
  <1>6. DelsInv'
    BY DEF ClientInv, DelsInv, GetUnchanged
  <1>7. CommittedWhole'
    BY DEF ClientInv, CommittedWhole, GetUnchanged, MoreFaults
  <1>. QED  BY <1>3, <1>4, <1>5, <1>6, <1>7 DEF ClientInv

\* A step of one deletion, which may take a file away.
LEMMA DelMoves ==
  ASSUME ClientInv, MoreFaults, UNCHANGED <<put, get>>,
         NEW d \in Dels, NEW x \in DelState, del' = [del EXCEPT ![d] = x],
         DelShape(x),
         committed' \in [Paths -> Data \cup {NoFile}],
         \A p \in Paths : committed'[p] \in {NoFile, committed[p]}
  PROVE  ClientInv'
  <1>1. del \in [Dels -> DelState]
    BY DEF ClientInv, TypeOK
  <1>2. del' \in [Dels -> DelState] /\ del'[d] = x
    BY <1>1
  <1>3. TypeOK'
    BY <1>2 DEF ClientInv, TypeOK, MoreFaults
  <1>4. PutsInv'
    <2>1. \A v \in Puts : put'[v] = put[v]
      OBVIOUS
    <2>. QED  BY <2>1, PutsStay DEF PutsInv, ClientInv
  <1>5. GetsInv'
    BY DEF ClientInv, GetsInv
  <1>6. DelsInv'
    <2>1. ASSUME NEW v \in Dels
          PROVE  DelShape(del'[v])
      BY <1>1, <1>2 DEF ClientInv, DelsInv
    <2>. QED  BY <2>1 DEF DelsInv
  <1>7. CommittedWhole'
    BY DEF ClientInv, CommittedWhole, MoreFaults
  <1>. QED  BY <1>3, <1>4, <1>5, <1>6, <1>7 DEF ClientInv
(***************************************************************************)
(* The uploads, action by action.                                          *)
(***************************************************************************)

\* What the invariant says of one upload.
LEMMA PutFacts ==
  ASSUME ClientInv, NEW w \in Puts
  PROVE  /\ TypeOK /\ put \in [Puts -> PutState] /\ put[w] \in PutState
         /\ PutShape(put[w]) /\ PutWhole(put[w])
         /\ PutHonest(put[w], faults["read"])
         /\ PutKept(put[w], faults["stream"])
  BY DEF ClientInv, TypeOK, PutsInv

\* The fields of an upload.
LEMMA PutFields ==
  ASSUME NEW x \in PutState
  PROVE  /\ x.path \in Paths \cup {NoFile} /\ x.size \in Nat /\ x.at \in Nat
         /\ x.sent \in Seq(Data) /\ x.received \in Data /\ x.chunks \in Nat
         /\ x.stored \in Data /\ x.broken \in BOOLEAN /\ x.ended \in BOOLEAN
  BY DEF PutState

\* PutOpen.
LEMMA ClientPutOpen ==
  ASSUME ClientInv, NEW w \in Puts, NEW p \in Paths, PutOpen(w, p)
  PROVE  ClientInv'
  <1> USE PutFacts
  <1>1. put[w] = IdlePut
    BY DEF PutOpen, PutShape
  <1>2. LocalFiles[p] \in Data /\ Len(LocalFiles[p]) \in Nat
    BY FileIsData, PartEnds
  <1>3. CASE /\ put' = [put EXCEPT ![w].pc = "naming", ![w].path = p,
                                   ![w].size = Len(LocalFiles[p])]
             /\ NoFault
    <2> DEFINE n == Len(LocalFiles[p])
               y == [put[w] EXCEPT !.pc = "naming", !.path = p]
               x == [y EXCEPT !.size = n]
    <2>1. y \in PutState
      BY DEF PutState
    <2>2. x \in PutState
      <3> HIDE DEF y
      <3>. QED  BY <1>2, <2>1 DEF PutState
    <2>3. put' = [put EXCEPT ![w] = x]
      <3>1. x = [put[w] EXCEPT !.pc = "naming", !.path = p, !.size = n]
        OBVIOUS
      <3>. QED  BY <1>3, <3>1
    <2>4. /\ x.pc = "naming" /\ x.path = p /\ x.size = n /\ x.at = 0
          /\ x.result = "none" /\ x.sent = <<>> /\ ~x.ended /\ ~x.broken
          /\ x.srv = "reading" /\ x.received = <<>> /\ x.status = "none"
          /\ x.chunks = 0 /\ x.stored = <<>>
      BY <1>1 DEF IdlePut
    <2> HIDE DEF x, y, n
    <2>5. PutShape(x)
      BY <2>4 DEF PutShape
    <2>6. n \in Nat /\ File(x) = LocalFiles[p] /\ n = Len(File(x))
      BY <1>2, <2>4 DEF File, n
    <2>7. \E b \in Marks(x) : Cuts(x, b)
      <3> DEFINE b == [j \in 1..1 |-> 0]
      <3>1. b \in Marks(x) /\ b[1] = 0
        BY <2>4 DEF Marks
      <3>2. Len(x.sent) = 0
        BY <2>4
      <3>3. x.received = SubSeq(File(x), 1, 0)
        BY <1>2, <2>4, <2>6, PartEnds
      <3> HIDE DEF b
      <3>4. Cuts(x, b)
        BY <2>4, <3>1, <3>2, <3>3 DEF Cuts
      <3>. QED  BY <3>1, <3>4
    <2>8. PutWhole(x)
      BY <2>4, <2>6, <2>7 DEF PutWhole
    <2>9. PutHonest(x, faults'["read"]) /\ PutKept(x, faults'["stream"])
      BY <2>4, <2>6 DEF PutHonest, PutKept
    <2>10. MoreFaults /\ PutUnchanged
      BY <1>3, NoFaultMore DEF PutOpen
    <2>. QED  BY <2>2, <2>3, <2>5, <2>8, <2>9, <2>10, PutMoves
  <1>4. CASE /\ Fault("open")
             /\ put' = [put EXCEPT ![w].pc = "ready", ![w].path = p,
                                   ![w].result = "runtime_error",
                                   ![w].srv = "answered"]
    <2> DEFINE y == [put[w] EXCEPT !.pc = "ready", !.path = p]
               x == [y EXCEPT !.result = "runtime_error", !.srv = "answered"]
    <2>1. y \in PutState
      BY DEF PutState
    <2>2. x \in PutState
      <3> HIDE DEF y
      <3>. QED  BY <2>1 DEF PutState, Result
    <2>3. put' = [put EXCEPT ![w] = x]
      <3>1. x = [put[w] EXCEPT !.pc = "ready", !.path = p,
                   !.result = "runtime_error", !.srv = "answered"]
        OBVIOUS
      <3>. QED  BY <1>4, <3>1
    <2>4. /\ x.pc = "ready" /\ x.path = p /\ x.result = "runtime_error"
          /\ ~x.broken /\ x.srv = "answered" /\ x.status = "none"
      BY <1>1 DEF IdlePut
    <2> HIDE DEF x, y
    <2>5. PutShape(x) /\ PutWhole(x)
      BY <2>4 DEF PutShape, PutWhole
    <2>6. PutHonest(x, faults'["read"]) /\ PutKept(x, faults'["stream"])
      BY <2>4 DEF PutHonest, PutKept
    <2>7. MoreFaults /\ PutUnchanged
      BY <1>4, FaultMore, ClientAssumption DEF PutOpen
    <2>. QED  BY <2>2, <2>3, <2>5, <2>6, <2>7, PutMoves
  <1>. QED  BY <1>3, <1>4 DEF PutOpen
\* An upload is over for its client: the end of PutWrite and PutFinish.
LEMMA ClientPutReady ==
  ASSUME ClientInv, NEW w \in Puts, NEW v \in Result, put[w].pc # "idle",
         put[w].broken \/ put[w].srv = "answered",
         v = "value" =>
           /\ put[w].srv = "answered"
           /\ faults["read"] = 0 => put[w].saved = File(put[w]),
         PutReady(w, v), NoFault, PutUnchanged
  PROVE  ClientInv'
  <1> USE PutFacts
  <1>1. PICK no \in {FALSE} : TRUE
    OBVIOUS
  <1> DEFINE x1 == [put[w] EXCEPT !.pc = "ready", !.result = v]
             x2 == [x1 EXCEPT !.size = 0, !.at = 0]
             x3 == [x2 EXCEPT !.ended = no, !.broken = TRUE]
             x == [x3 EXCEPT !.sent = <<>>]
  <1>2. x1 \in PutState
    BY DEF PutState
  <1>3. x2 \in PutState
    <2> HIDE DEF x1
    <2>. QED  BY <1>2 DEF PutState
  <1>4. x3 \in PutState
    <2> HIDE DEF x2
    <2>. QED  BY <1>1, <1>3 DEF PutState
  <1>5. x \in PutState
    <2>1. <<>> \in Seq(Data)
      OBVIOUS
    <2> HIDE DEF x3
    <2>. QED  BY <1>4, <2>1 DEF PutState
  <1>6. put' = [put EXCEPT ![w] = x]
    <2>1. x = [put[w] EXCEPT !.pc = "ready", !.result = v, !.size = 0,
                 !.at = 0, !.ended = no, !.broken = TRUE, !.sent = <<>>]
      OBVIOUS
    <2>2. no = FALSE
      OBVIOUS
    <2>3. put' = [put EXCEPT ![w] = [put[w] EXCEPT !.pc = "ready",
                   !.result = v, !.size = 0, !.at = 0, !.ended = no,
                   !.broken = TRUE, !.sent = <<>>]]
      BY <2>2, Zenon DEF PutReady
    <2> HIDE DEF x
    <2>. QED  BY <2>1, <2>3
  <1>7. /\ x.pc = "ready" /\ x.result = v /\ x.broken
        /\ x.path = put[w].path /\ x.srv = put[w].srv
        /\ x.status = put[w].status /\ x.received = put[w].received
        /\ x.chunks = put[w].chunks /\ x.stored = put[w].stored
        /\ x.saved = put[w].saved
    BY DEF PutState
  <1> HIDE DEF x, x1, x2, x3
  <1>8. PutShape(x)
    BY <1>7 DEF PutShape
  <1>9. PutWhole(x)
    BY <1>7 DEF PutWhole
  <1>10. PutHonest(x, faults'["read"])
    BY <1>7 DEF PutHonest, NoFault, File
  <1>11. PutKept(x, faults'["stream"])
    BY <1>7 DEF PutKept, NoFault
  <1>12. MoreFaults
    BY NoFaultMore
  <1>. QED  BY <1>5, <1>6, <1>8, <1>9, <1>10, <1>11, <1>12, PutMoves

\* PutReadError.
LEMMA ClientPutReadError ==
  ASSUME ClientInv, NEW w \in Puts, PutReadError(w)
  PROVE  ClientInv'
  <1> USE PutFacts
  <1>1. PICK n \in put[w].at..(put[w].size - 1) : put' = [put EXCEPT ![w].size = n]
    BY DEF PutReadError
  <1>2. put[w].at \in Nat /\ put[w].size \in Nat
    BY PutFields
  <1>3. n \in Nat /\ put[w].at <= n /\ n <= put[w].size
    BY <1>2
  <1> DEFINE x == [put[w] EXCEPT !.size = n]
  <1>4. x \in PutState
    BY <1>3 DEF PutState
  <1>5. put' = [put EXCEPT ![w] = x]
    BY <1>1
  <1>6. /\ x.pc = put[w].pc /\ x.path = put[w].path /\ x.size = n
        /\ x.at = put[w].at /\ x.result = put[w].result
        /\ x.sent = put[w].sent /\ x.ended = put[w].ended
        /\ x.broken = put[w].broken /\ x.srv = put[w].srv
        /\ x.received = put[w].received /\ x.chunks = put[w].chunks
        /\ x.stored = put[w].stored /\ x.saved = put[w].saved
        /\ x.status = put[w].status
    BY DEF PutState
  <1> HIDE DEF x
  <1>7. put[w].pc = "streaming"
    BY DEF PutReadError
  <1>8. PutShape(x)
    BY <1>6, <1>7 DEF PutShape
  <1>9. PutWhole(x)
    <2> SUFFICES ASSUME ~x.broken PROVE PutWhole(x)
      BY DEF PutWhole
    <2>1. /\ put[w].size <= Len(File(put[w])) /\ ~put[w].ended
          /\ put[w].srv = "reading" => \E b \in Marks(put[w]) : Cuts(put[w], b)
          /\ put[w].srv # "splitting" /\ put[w].status # "OK"
      BY <1>6, <1>7 DEF PutWhole
    <2>2. File(x) = File(put[w]) /\ Marks(x) = Marks(put[w])
      BY <1>6 DEF File, Marks
    <2>3. \A b : Cuts(x, b) <=> Cuts(put[w], b)
      BY <1>6, <2>2 DEF Cuts
    <2>4. x.srv = "reading" => \E b \in Marks(x) : Cuts(x, b)
      BY <1>6, <2>1, <2>2, <2>3
    <2>5. Len(File(x)) \in Nat
      BY <1>6, <1>7, FileIsData, PartEnds DEF File, PutShape
    <2>6. n <= Len(File(x))
      BY <1>2, <1>3, <2>1, <2>2, <2>5
    <2>. QED  BY <1>3, <1>6, <1>7, <2>1, <2>4, <2>6 DEF PutWhole
  <1>10. faults'["read"] # 0 /\ faults'["stream"] = faults["stream"]
    BY FaultsGrow, ClientAssumption DEF PutReadError
  <1>11. PutHonest(x, faults'["read"])
    BY <1>10 DEF PutHonest
  <1>12. PutKept(x, faults'["stream"])
    BY <1>6, <1>10 DEF PutKept
  <1>13. MoreFaults /\ PutUnchanged
    BY FaultMore, ClientAssumption DEF PutReadError
  <1>. QED  BY <1>4, <1>5, <1>8, <1>9, <1>11, <1>12, <1>13, PutMoves

\* PutWritesDone.
LEMMA ClientPutWritesDone ==
  ASSUME ClientInv, NEW w \in Puts, PutWritesDone(w)
  PROVE  ClientInv'
  <1> USE PutFacts
  <1> DEFINE x == [put[w] EXCEPT !.pc = "finishing", !.ended = TRUE]
  <1>1. x \in PutState
    BY DEF PutState
  <1>2. put' = [put EXCEPT ![w] = x]
    BY DEF PutWritesDone, WritesDone
  <1>3. /\ x.pc = "finishing" /\ x.path = put[w].path /\ x.size = put[w].size
        /\ x.at = put[w].at /\ x.result = put[w].result
        /\ x.sent = put[w].sent /\ x.ended
        /\ x.broken = put[w].broken /\ x.srv = put[w].srv
        /\ x.received = put[w].received /\ x.chunks = put[w].chunks
        /\ x.stored = put[w].stored /\ x.saved = put[w].saved
        /\ x.status = put[w].status
    BY DEF PutState
  <1> HIDE DEF x
  <1>4. put[w].pc = "streaming" /\ put[w].at = put[w].size
    BY DEF PutWritesDone
  <1>5. PutShape(x)
    BY <1>3, <1>4 DEF PutShape
  <1>6. File(x) = File(put[w]) /\ Marks(x) = Marks(put[w])
    BY <1>3 DEF File, Marks
  <1>7. \A b : Cuts(x, b) <=> Cuts(put[w], b)
    BY <1>3, <1>6 DEF Cuts
  <1>8. PutWhole(x)
    BY <1>3, <1>4, <1>6, <1>7 DEF PutWhole
  <1>9. PutHonest(x, faults'["read"])
    BY <1>3, <1>4, <1>6 DEF PutHonest, PutWritesDone, NoFault
  <1>10. PutKept(x, faults'["stream"])
    BY <1>3 DEF PutKept, PutWritesDone, NoFault
  <1>11. MoreFaults /\ PutUnchanged
    BY NoFaultMore DEF PutWritesDone
  <1>. QED  BY <1>1, <1>2, <1>5, <1>8, <1>9, <1>10, <1>11, PutMoves

\* PutFinish.
LEMMA ClientPutFinish ==
  ASSUME ClientInv, NEW w \in Puts, PutFinish(w)
  PROVE  ClientInv'
  <1> USE PutFacts
  <1>1. PutResult(w) \in Result
    BY DEF PutResult, Result
  <1>2. put[w].pc = "finishing"
    BY DEF PutFinish
  <1>3. ASSUME PutResult(w) = "value", faults["read"] = 0
        PROVE  put[w].saved = File(put[w])
    <2>1. ~put[w].broken /\ put[w].status = "OK"
      BY <1>3 DEF PutResult
    <2>2. put[w].saved = SubSeq(File(put[w]), 1, put[w].size)
      BY <2>1 DEF PutWhole
    <2>3. put[w].size = Len(File(put[w]))
      BY <1>2, <1>3 DEF PutHonest
    <2>4. File(put[w]) \in Data
      BY <1>2, FileIsData DEF File, PutShape
    <2>. QED  BY <2>2, <2>3, <2>4, PartEnds
  <1>4. ASSUME PutResult(w) = "value"
        PROVE  put[w].srv = "answered"
    BY <1>4 DEF PutResult, PutShape
  <1>5. PutResult(w) = "value" =>
          /\ put[w].srv = "answered"
          /\ faults["read"] = 0 => put[w].saved = File(put[w])
    BY <1>3, <1>4
  <1>. QED  BY <1>1, <1>2, <1>5, ClientPutReady DEF PutFinish
\* PutWrite: what is written is the next part of the file, and the last of
\* the messages in flight.
LEMMA ClientPutWrite ==
  ASSUME ClientInv, NEW w \in Puts, PutWrite(w)
  PROVE  ClientInv'
  <1> USE PutFacts
  <1> DEFINE F == File(put[w])
             a == put[w].at
             m == IF put[w].pc = "naming" THEN <<>> ELSE NextPiece(w)
  <1>1. /\ put[w].pc = "naming" \/ (put[w].pc = "streaming" /\ a < put[w].size)
        /\ NoFault /\ PutUnchanged
    BY DEF PutWrite
  <1>2. CASE /\ put[w].broken \/ put[w].srv = "answered"
             /\ PutReady(w, "runtime_error")
    BY <1>1, <1>2, ClientPutReady DEF Result
  <1>3. CASE /\ ~put[w].broken
             /\ put' = [put EXCEPT ![w].pc = "streaming",
                                   ![w].at = @ + Len(m),
                                   ![w].sent = Append(@, m)]
    <2>1. /\ F \in Data /\ Len(F) \in Nat /\ a \in Nat /\ put[w].size \in Nat
          /\ put[w].sent \in Seq(Data) /\ Len(put[w].sent) \in Nat
          /\ Buffer \in Nat \ {0}
      BY <1>1, FileIsData, PartEnds, PutFields, ClientAssumption DEF File, PutShape
    <2>2. /\ a <= put[w].size /\ put[w].size <= Len(F) /\ ~put[w].ended
          /\ put[w].srv = "reading" => \E b \in Marks(put[w]) : Cuts(put[w], b)
          /\ put[w].srv # "splitting" /\ put[w].status # "OK"
      BY <1>1, <1>3 DEF PutWhole
    <2>3. PICK e \in a..put[w].size :
            /\ m = SubSeq(F, a + 1, e) /\ m \in Data /\ a + Len(m) = e
      <3>1. CASE put[w].pc = "naming"
        <4>1. m = <<>> /\ m = SubSeq(F, a + 1, a) /\ a \in a..put[w].size
          BY <2>1, <2>2, <3>1, PartEnds
        <4>2. m \in Data /\ a + Len(m) = a
          BY <2>1, <4>1, PartEnds
        <4>. QED  BY <4>1, <4>2
      <3>2. CASE put[w].pc = "streaming"
        <4> DEFINE e == IF a + Buffer < put[w].size THEN a + Buffer ELSE put[w].size
        <4>1. m = SubSeq(F, a + 1, e)
          BY <3>2 DEF NextPiece, File
        <4>2. e \in a..put[w].size /\ e \in 0..Len(F) /\ a < e
          BY <1>1, <2>1, <2>2, <3>2
        <4> HIDE DEF e, m
        <4>3. m \in Data /\ Len(m) = e - a
          BY <2>1, <4>1, <4>2, PartIsData
        <4>4. e \in Nat /\ a + Len(m) = e
          BY <2>1, <4>2, <4>3
        <4> HIDE DEF F, a
        <4>. QED  BY <4>1, <4>2, <4>3, <4>4
      <3>. QED  BY <1>1, <3>1, <3>2
    <2>4. e \in Nat /\ a <= e /\ e <= put[w].size
      BY <2>1
    <2> DEFINE s == Append(put[w].sent, m)
               x1 == [put[w] EXCEPT !.pc = "streaming", !.at = e]
               x == [x1 EXCEPT !.sent = s]
    <2>5. put' = [put EXCEPT ![w] = x]
      <3>1. put' = [put EXCEPT ![w] = [put[w] EXCEPT !.pc = "streaming",
                      !.at = a + Len(m), !.sent = s]]
        BY <1>3
      <3>2. x = [put[w] EXCEPT !.pc = "streaming", !.at = e, !.sent = s]
        OBVIOUS
      <3> HIDE DEF s, m, F, a, x
      <3>. QED  BY <2>3, <3>1, <3>2
    <2> HIDE DEF m
    <2>6. /\ s \in Seq(Data) /\ Len(s) = Len(put[w].sent) + 1
          /\ s[Len(put[w].sent) + 1] = m
          /\ \A j \in 1..Len(put[w].sent) : s[j] = put[w].sent[j]
      <3> HIDE DEF F, a
      <3>1. m \in Data
        BY <2>3
      <3>. QED  BY <2>1, <3>1, AppendProperties
    <2> HIDE DEF s
    <2>7. x1 \in PutState
      BY <2>4 DEF PutState
    <2>8. x \in PutState
      <3> HIDE DEF x1
      <3>. QED  BY <2>6, <2>7 DEF PutState
    <2>9. /\ x.pc = "streaming" /\ x.path = put[w].path /\ x.size = put[w].size
          /\ x.at = e /\ x.result = put[w].result
          /\ x.sent = s /\ x.ended = put[w].ended
          /\ x.broken = put[w].broken /\ x.srv = put[w].srv
          /\ x.received = put[w].received /\ x.chunks = put[w].chunks
          /\ x.stored = put[w].stored /\ x.saved = put[w].saved
          /\ x.status = put[w].status
      BY DEF PutState
    <2> HIDE DEF x, x1
    <2>10. PutShape(x)
      BY <1>1, <2>9 DEF PutShape
    <2>11. File(x) = F
      BY <2>9 DEF File
    <2>12. ASSUME x.srv = "reading"
           PROVE  \E b \in Marks(x) : Cuts(x, b)
      <3> DEFINE k == Len(put[w].sent)
      <3>1. PICK b \in Marks(put[w]) : Cuts(put[w], b)
        BY <2>2, <2>9, <2>12
      <3> DEFINE c == [j \in 1..(k + 2) |-> IF j = k + 2 THEN e ELSE b[j]]
      <3>2. /\ b \in [1..(k + 1) -> 0..a] /\ b[k + 1] = a
            /\ put[w].received = SubSeq(F, 1, b[1])
            /\ \A j \in 1..k : /\ b[j] <= b[j + 1]
                               /\ put[w].sent[j] = SubSeq(F, b[j] + 1, b[j + 1])
        BY <3>1 DEF Marks, Cuts
      <3>3. Len(x.sent) = k + 1 /\ k \in Nat
        BY <2>1, <2>6, <2>9
      <3>4. c \in Marks(x)
        <4>1. \A j \in 1..(k + 2) : c[j] \in 0..e
          <5>1. \A j \in 1..(k + 1) : b[j] \in 0..a
            BY <3>2
          <5>2. 0..a \subseteq 0..e /\ e \in 0..e
            BY <2>1, <2>4
          <5>3. k \in Nat
            BY <3>3
          <5> HIDE DEF F, a, k
          <5>4. \A j \in 1..(k + 2) : j # k + 2 => j \in 1..(k + 1)
            BY <5>3
          <5>. QED  BY <5>1, <5>2, <5>4
        <4>2. (k + 1) + 1 = k + 2
          BY <3>3
        <4>3. Marks(x) = [1..(k + 2) -> 0..e]
          BY <2>9, <3>3, <4>2 DEF Marks
        <4>4. c \in [1..(k + 2) -> 0..e]
          BY <4>1
        <4>. QED  BY <4>3, <4>4
      <3>5. c[k + 2] = e /\ c[k + 1] = a /\ \A j \in 1..(k + 1) : c[j] = b[j]
        BY <3>2, <3>3
      <3> HIDE DEF c
      <3>6. x.received = SubSeq(F, 1, c[1])
        BY <2>9, <3>2, <3>3, <3>5
      <3>7. ASSUME NEW j \in 1..(k + 1)
            PROVE  /\ c[j] <= c[j + 1]
                   /\ x.sent[j] = SubSeq(F, c[j] + 1, c[j + 1])
        <4>1. CASE j = k + 1
          BY <2>3, <2>4, <2>6, <2>9, <3>3, <3>5, <4>1
        <4>2. CASE j \in 1..k
          <5>1. c[j] = b[j] /\ c[j + 1] = b[j + 1]
            BY <3>3, <3>5, <4>2
          <5>. QED  BY <2>6, <2>9, <3>2, <4>2, <5>1
        <4>. QED  BY <3>3, <4>1, <4>2
      <3>8. c[(k + 1) + 1] = x.at
        BY <2>9, <3>3, <3>5
      <3>9. Cuts(x, c)
        BY <2>11, <3>3, <3>6, <3>7, <3>8 DEF Cuts
      <3>. QED  BY <3>4, <3>9
    <2>13. PutWhole(x)
      BY <1>3, <2>2, <2>4, <2>9, <2>11, <2>12 DEF PutWhole
    <2>14. PutHonest(x, faults'["read"])
      BY <1>1, <2>9, <2>11 DEF PutHonest, NoFault
    <2>15. PutKept(x, faults'["stream"])
      BY <1>1, <2>9 DEF PutKept, NoFault
    <2>16. MoreFaults /\ PutUnchanged
      BY <1>1, NoFaultMore
    <2>. QED  BY <2>5, <2>8, <2>10, <2>13, <2>14, <2>15, <2>16, PutMoves
  <1>. QED  BY <1>2, <1>3 DEF PutWrite
\* The handler's record once it has returned.
LEMMA AnsweredFacts ==
  ASSUME NEW w \in Puts, put[w] \in PutState, NEW status \in Status
  PROVE  LET x == Answered(w, status)
         IN  /\ x \in PutState
             /\ x.pc = put[w].pc /\ x.path = put[w].path
             /\ x.size = put[w].size /\ x.at = put[w].at
             /\ x.result = put[w].result /\ x.ended = put[w].ended
             /\ x.broken = put[w].broken /\ x.saved = put[w].saved
             /\ x.srv = "answered" /\ x.status = status
  <1>1. PICK no \in {FALSE} : TRUE
    OBVIOUS
  <1>2. <<>> \in Seq(Data) /\ <<>> \in Data
    BY DataIsSeq
  <1> DEFINE x1 == [put[w] EXCEPT !.srv = "answered", !.status = status]
             x2 == [x1 EXCEPT !.sent = <<>>, !.named = no]
             x3 == [x2 EXCEPT !.received = <<>>, !.chunks = 0]
             x == [x3 EXCEPT !.stored = <<>>]
  <1>3. x1 \in PutState
    BY DEF PutState
  <1>4. x2 \in PutState
    <2> HIDE DEF x1
    <2>. QED  BY <1>1, <1>2, <1>3 DEF PutState
  <1>5. x3 \in PutState
    <2> HIDE DEF x2
    <2>. QED  BY <1>2, <1>4 DEF PutState
  <1>6. x \in PutState
    <2> HIDE DEF x3
    <2>. QED  BY <1>2, <1>5 DEF PutState
  <1>7. Answered(w, status) = x
    <2>1. x = [put[w] EXCEPT !.srv = "answered", !.status = status,
                 !.sent = <<>>, !.named = no, !.received = <<>>,
                 !.chunks = 0, !.stored = <<>>]
      OBVIOUS
    <2>2. no = FALSE
      OBVIOUS
    <2>3. Answered(w, status) =
            [put[w] EXCEPT !.srv = "answered", !.status = status,
                 !.sent = <<>>, !.named = no, !.received = <<>>,
                 !.chunks = 0, !.stored = <<>>]
      BY <2>2, Zenon DEF Answered
    <2> HIDE DEF x
    <2>. QED  BY <2>1, <2>3
  <1>8. /\ x.pc = put[w].pc /\ x.path = put[w].path
        /\ x.size = put[w].size /\ x.at = put[w].at
        /\ x.result = put[w].result /\ x.ended = put[w].ended
        /\ x.broken = put[w].broken /\ x.saved = put[w].saved
        /\ x.srv = "answered" /\ x.status = status
    BY DEF PutState
  <1> HIDE DEF x
  <1>. QED  BY <1>6, <1>7, <1>8

\* The handler returns without having stored the file.
LEMMA ClientPutAnswer ==
  ASSUME ClientInv, NEW w \in Puts, NEW status \in Status \ {"OK"},
         put[w].pc # "idle", PutAnswer(w, status), MoreFaults, PutUnchanged
  PROVE  ClientInv'
  <1> USE PutFacts
  <1> DEFINE x == Answered(w, status)
  <1>1. put' = [put EXCEPT ![w] = x]
    BY DEF PutAnswer
  <1>2. /\ x \in PutState
        /\ x.pc = put[w].pc /\ x.path = put[w].path
        /\ x.size = put[w].size /\ x.at = put[w].at
        /\ x.result = put[w].result /\ x.ended = put[w].ended
        /\ x.broken = put[w].broken /\ x.saved = put[w].saved
        /\ x.srv = "answered" /\ x.status = status
    BY AnsweredFacts
  <1> HIDE DEF x
  <1>3. PutShape(x)
    BY <1>2 DEF PutShape
  <1>4. PutWhole(x)
    BY <1>2 DEF PutWhole, File
  <1>5. PutHonest(x, faults'["read"])
    BY <1>2 DEF PutHonest, MoreFaults, File
  <1>6. PutKept(x, faults'["stream"])
    BY <1>2 DEF PutKept
  <1>. QED  BY <1>1, <1>2, <1>3, <1>4, <1>5, <1>6, PutMoves

\* SrvRead: the first message in flight is the part of the file that follows
\* what was received.
LEMMA ClientSrvRead ==
  ASSUME ClientInv, NEW w \in Puts, SrvRead(w)
  PROVE  ClientInv'
  <1> USE PutFacts
  <1>1. /\ put[w].pc # "idle" /\ put[w].srv = "reading" /\ put[w].sent # <<>>
        /\ NoFault /\ PutUnchanged /\ MoreFaults
    BY NoFaultMore DEF SrvRead, Serving
  <1>2. CASE PutAnswer(w, "ALREADY_EXISTS")
    BY <1>1, <1>2, ClientPutAnswer DEF Status
  <1>3. CASE put' = [put EXCEPT ![w].named = TRUE,
                                ![w].received = @ \o Head(put[w].sent),
                                ![w].sent = Tail(@)]
    <2> DEFINE F == File(put[w])
               q == put[w].sent
               k == Len(q)
               d == put[w].received \o Head(q)
               t == Tail(q)
               x1 == [put[w] EXCEPT !.named = TRUE, !.received = d]
               x == [x1 EXCEPT !.sent = t]
    <2>1. q \in Seq(Data) /\ put[w].received \in Data
      BY PutFields
    <2>2. /\ Head(q) \in Data /\ t \in Seq(Data)
          /\ Len(t) = k - 1 /\ k \in Nat \ {0} /\ Head(q) = q[1]
          /\ \A j \in 1..(k - 1) : t[j] = q[j + 1]
      BY <1>1, <2>1, HeadTailProperties
    <2>3. d \in Data
      BY <2>1, <2>2, JoinIsData
    <2>4. put' = [put EXCEPT ![w] = x]
      <3>1. x = [put[w] EXCEPT !.named = TRUE, !.received = d, !.sent = t]
        OBVIOUS
      <3>. QED  BY <1>3, <3>1
    <2>5. x1 \in PutState
      <3> HIDE DEF d
      <3>. QED  BY <2>3 DEF PutState
    <2>6. x \in PutState
      <3> HIDE DEF x1, t
      <3>. QED  BY <2>2, <2>5 DEF PutState
    <2>7. /\ x.pc = put[w].pc /\ x.path = put[w].path /\ x.size = put[w].size
          /\ x.at = put[w].at /\ x.result = put[w].result
          /\ x.sent = t /\ x.ended = put[w].ended
          /\ x.broken = put[w].broken /\ x.srv = put[w].srv
          /\ x.received = d /\ x.chunks = put[w].chunks
          /\ x.stored = put[w].stored /\ x.saved = put[w].saved
          /\ x.status = put[w].status
      BY DEF PutState
    <2> HIDE DEF x, x1
    <2>8. PutShape(x)
      BY <1>1, <2>7 DEF PutShape
    <2>9. File(x) = F
      BY <2>7 DEF File
    <2>10. PutWhole(x)
      <3> SUFFICES ASSUME ~put[w].broken PROVE PutWhole(x)
        BY <2>7 DEF PutWhole
      <3>1. CASE put[w].pc = "ready"
        BY <1>1, <2>7, <2>9, <3>1 DEF PutWhole
      <3>2. CASE put[w].pc \in {"naming", "streaming", "finishing"}
        <4>1. /\ put[w].at <= put[w].size /\ put[w].size <= Len(F)
              /\ put[w].ended => put[w].pc = "finishing" /\ put[w].at = put[w].size
          BY <3>2 DEF PutWhole
        <4>2. PICK b \in Marks(put[w]) : Cuts(put[w], b)
          BY <1>1, <3>2 DEF PutWhole
        <4> DEFINE a == put[w].at
                   c == [j \in 1..k |-> b[j + 1]]
        <4>3. /\ F \in Data /\ Len(F) \in Nat /\ a \in Nat /\ a <= Len(F)
          BY <1>1, <4>1, FileIsData, PartEnds, PutFields DEF File, PutShape
        <4>4. /\ b \in [1..(k + 1) -> 0..a] /\ b[k + 1] = a
              /\ put[w].received = SubSeq(F, 1, b[1])
              /\ \A j \in 1..k : /\ b[j] <= b[j + 1]
                                 /\ q[j] = SubSeq(F, b[j] + 1, b[j + 1])
          BY <4>2 DEF Marks, Cuts
        <4> HIDE DEF F, a, k
        <4>5. Len(x.sent) + 1 = k /\ x.at = a
          BY <2>2, <2>7 DEF a, k
        <4>6. \A j \in 1..k : j + 1 \in 1..(k + 1)
          BY <2>2
        <4>7. c \in Marks(x)
          <5>1. \A j \in 1..k : c[j] \in 0..a
            BY <4>4, <4>6
          <5>. QED  BY <4>5, <5>1 DEF Marks
        <4>8. \A j \in 1..k : c[j] = b[j + 1]
          OBVIOUS
        <4> HIDE DEF c
        <4>9. x.received = SubSeq(F, 1, c[1])
          <5>1. 1 \in 1..k /\ 1 \in 1..(k + 1) /\ 2 \in 1..(k + 1)
            BY <2>2
          <5>2. b[1] \in 0..a /\ b[2] \in 0..a /\ b[1] <= b[1 + 1] /\ 1 + 1 = 2
            BY <4>4, <5>1
          <5>3. b[1] \in 0..Len(F) /\ b[2] \in b[1]..Len(F)
            BY <4>3, <5>2
          <5>4. q[1] = SubSeq(F, b[1] + 1, b[2])
            BY <4>4, <5>1, <5>2
          <5>5. SubSeq(F, 1, b[1]) \o SubSeq(F, b[1] + 1, b[2]) = SubSeq(F, 1, b[2])
            BY <4>3, <5>3, PartsJoin
          <5>6. c[1] = b[2]
            BY <4>8, <5>1, <5>2
          <5>. QED  BY <2>2, <2>7, <4>4, <5>4, <5>5, <5>6
        <4>10. ASSUME NEW j \in 1..Len(x.sent)
               PROVE  /\ c[j] <= c[j + 1]
                      /\ x.sent[j] = SubSeq(F, c[j] + 1, c[j + 1])
          <5>1. j \in 1..(k - 1) /\ j \in 1..k /\ j + 1 \in 1..k
            BY <2>2, <4>5, <2>7
          <5>2. x.sent[j] = q[j + 1] /\ c[j] = b[j + 1] /\ c[j + 1] = b[(j + 1) + 1]
            BY <2>2, <2>7, <4>8, <5>1
          <5>. QED  BY <4>4, <5>1, <5>2
        <4>11. c[Len(x.sent) + 1] = x.at
          BY <2>2, <4>4, <4>5, <4>8
        <4>12. Cuts(x, c)
          BY <2>9, <4>9, <4>10, <4>11 DEF Cuts
        <4>13. x.status # "OK"
          BY <1>1, <2>7 DEF PutShape
        <4>. QED  BY <1>1, <2>7, <2>9, <3>2, <4>1, <4>7, <4>12, <4>13 DEF PutWhole
      <3>. QED  BY <1>1, <3>1, <3>2 DEF PutState
    <2>11. PutHonest(x, faults'["read"])
      BY <1>1, <2>7, <2>9 DEF PutHonest, NoFault
    <2>12. PutKept(x, faults'["stream"])
      BY <1>1, <2>7 DEF PutKept, NoFault
    <2>. QED  BY <1>1, <2>4, <2>6, <2>8, <2>10, <2>11, <2>12, PutMoves
  <1>. QED  BY <1>2, <1>3 DEF SrvRead
\* SrvEnd: at the end of a stream that holds, the whole file was received.
LEMMA ClientSrvEnd ==
  ASSUME ClientInv, NEW w \in Puts, SrvEnd(w)
  PROVE  ClientInv'
  <1> USE PutFacts
  <1>1. /\ put[w].pc # "idle" /\ put[w].srv = "reading" /\ put[w].sent = <<>>
        /\ put[w].ended \/ put[w].broken
        /\ NoFault /\ PutUnchanged /\ MoreFaults
    BY NoFaultMore DEF SrvEnd, Serving
  <1>2. CASE PutAnswer(w, "INVALID_ARGUMENT")
    BY <1>1, <1>2, ClientPutAnswer DEF Status
  <1>3. CASE put' = [put EXCEPT ![w].srv = "splitting"]
    <2> DEFINE x == [put[w] EXCEPT !.srv = "splitting"]
    <2>1. x \in PutState
      BY DEF PutState
    <2>2. put' = [put EXCEPT ![w] = x]
      BY <1>3
    <2>3. /\ x.pc = put[w].pc /\ x.path = put[w].path /\ x.size = put[w].size
          /\ x.at = put[w].at /\ x.result = put[w].result
          /\ x.ended = put[w].ended
          /\ x.broken = put[w].broken /\ x.srv = "splitting"
          /\ x.received = put[w].received /\ x.chunks = put[w].chunks
          /\ x.stored = put[w].stored /\ x.saved = put[w].saved
          /\ x.status = put[w].status
      BY DEF PutState
    <2> HIDE DEF x
    <2>4. x.received \in Data /\ ChunkSize \in Nat
      BY <2>3, PutFields, ClientAssumption
    <2>5. PutShape(x)
      <3>1. x.chunks = 0 /\ x.stored = <<>> /\ 0 * ChunkSize = 0
        BY <1>1, <2>3, <2>4 DEF PutShape
      <3>2. 0 <= NumChunks(x.received) /\ Upto(x.received, 0) = <<>>
        BY <2>4, ChunksJoin
      <3>. QED  BY <1>1, <2>3, <3>1, <3>2 DEF PutShape
    <2>6. PutWhole(x)
      <3> SUFFICES ASSUME ~put[w].broken PROVE PutWhole(x)
        BY <2>3 DEF PutWhole
      <3>1. CASE put[w].pc = "ready"
        BY <1>1, <3>1 DEF PutWhole
      <3>2. CASE put[w].pc \in {"naming", "streaming", "finishing"}
        <4>1. put[w].pc = "finishing" /\ put[w].at = put[w].size
          BY <1>1, <3>2 DEF PutWhole
        <4>2. PICK b \in Marks(put[w]) : Cuts(put[w], b)
          BY <1>1, <3>2 DEF PutWhole
        <4>3. b[1] = put[w].at
          <5>1. Len(put[w].sent) + 1 = 1
            BY <1>1
          <5>. QED  BY <4>2, <5>1 DEF Cuts
        <4>4. put[w].received = SubSeq(File(put[w]), 1, put[w].size)
          BY <4>1, <4>2, <4>3 DEF Cuts
        <4>5. File(x) = File(put[w])
          BY <2>3 DEF File
        <4>6. put[w].status # "OK"
          BY <1>1 DEF PutShape
        <4>. QED  BY <2>3, <3>2, <4>1, <4>4, <4>5, <4>6 DEF PutWhole
      <3>. QED  BY <1>1, <3>1, <3>2 DEF PutState
    <2>7. PutHonest(x, faults'["read"])
      BY <1>1, <2>3 DEF PutHonest, NoFault, File
    <2>8. PutKept(x, faults'["stream"])
      BY <1>1, <2>3 DEF PutKept, NoFault
    <2>. QED  BY <1>1, <2>1, <2>2, <2>5, <2>6, <2>7, <2>8, PutMoves
  <1>. QED  BY <1>2, <1>3 DEF SrvEnd

\* SrvChunk: the chunks stored so far are the beginning of the file.
LEMMA ClientSrvChunk ==
  ASSUME ClientInv, NEW w \in Puts, SrvChunk(w)
  PROVE  ClientInv'
  <1> USE PutFacts
  <1>1. /\ put[w].pc # "idle" /\ put[w].srv = "splitting"
        /\ put[w].chunks < NumChunks(put[w].received) /\ PutUnchanged
    BY DEF SrvChunk, Serving
  <1>2. MoreFaults
    BY FaultMore, NoFaultMore, ClientAssumption DEF SrvChunk
  <1>3. CASE PutAnswer(w, "UNKNOWN")
    BY <1>1, <1>2, <1>3, ClientPutAnswer DEF Status
  <1>4. CASE PutAnswer(w, "INTERNAL")
    BY <1>1, <1>2, <1>4, ClientPutAnswer DEF Status
  <1>5. CASE /\ put' = [put EXCEPT ![w].chunks = @ + 1,
                           ![w].stored = @ \o Slice(put[w].received,
                                                    put[w].chunks + 1)]
             /\ NoFault
    <2> DEFINE g == put[w].received
               n == put[w].chunks + 1
               d == put[w].stored \o Slice(g, n)
               x1 == [put[w] EXCEPT !.chunks = n]
               x == [x1 EXCEPT !.stored = d]
    <2>1. g \in Data /\ put[w].stored \in Data /\ put[w].chunks \in Nat
      BY PutFields
    <2>2. n \in 1..NumChunks(g) /\ n \in Nat /\ n - 1 = put[w].chunks
      <3>1. NumChunks(g) \in Nat
        BY <2>1, ChunksJoin
      <3>. QED  BY <1>1, <2>1, <3>1
    <2>3. /\ Slice(g, n) \in Data
          /\ Upto(g, (n - 1) * ChunkSize) \o Slice(g, n) = Upto(g, n * ChunkSize)
      BY <2>1, <2>2, ChunksJoin
    <2>4. d \in Data /\ d = Upto(g, n * ChunkSize)
      <3>1. put[w].stored = Upto(g, put[w].chunks * ChunkSize)
        BY <1>1 DEF PutShape
      <3>. QED  BY <2>1, <2>2, <2>3, <3>1, JoinIsData
    <2>5. put' = [put EXCEPT ![w] = x]
      <3>1. x = [put[w] EXCEPT !.chunks = n, !.stored = d]
        OBVIOUS
      <3>2. put' = [put EXCEPT ![w] = [put[w] EXCEPT !.chunks = n, !.stored = d]]
        BY <1>5
      <3> HIDE DEF n, d, x
      <3>. QED  BY <3>1, <3>2
    <2> HIDE DEF n, d
    <2>6. x1 \in PutState
      BY <2>2 DEF PutState
    <2>7. x \in PutState
      <3> HIDE DEF x1
      <3>. QED  BY <2>4, <2>6 DEF PutState
    <2>8. /\ x.pc = put[w].pc /\ x.path = put[w].path /\ x.size = put[w].size
          /\ x.at = put[w].at /\ x.result = put[w].result
          /\ x.ended = put[w].ended
          /\ x.broken = put[w].broken /\ x.srv = put[w].srv
          /\ x.received = g /\ x.chunks = n
          /\ x.stored = d /\ x.saved = put[w].saved
          /\ x.status = put[w].status
      BY DEF PutState
    <2> HIDE DEF x, x1
    <2>9. n <= NumChunks(g)
      BY <2>1, <2>2, ChunksJoin
    <2>10. PutShape(x)
      BY <1>1, <2>4, <2>8, <2>9 DEF PutShape
    <2>11. PutWhole(x)
      BY <1>1, <2>8 DEF PutWhole, File
    <2>12. PutHonest(x, faults'["read"])
      BY <1>5, <2>8 DEF PutHonest, NoFault, File
    <2>13. PutKept(x, faults'["stream"])
      BY <1>5, <2>8 DEF PutKept, NoFault
    <2>. QED  BY <1>1, <1>2, <2>5, <2>7, <2>10, <2>11, <2>12, <2>13, PutMoves
  <1>. QED  BY <1>3, <1>4, <1>5 DEF SrvChunk

\* SrvCommit: without a broken stream and without a read error, what is
\* committed is the local file.
LEMMA ClientSrvCommit ==
  ASSUME ClientInv, NEW w \in Puts, SrvCommit(w)
  PROVE  ClientInv'
  <1> USE PutFacts
  <1>1. /\ put[w].pc # "idle" /\ put[w].srv = "splitting"
        /\ put[w].chunks = NumChunks(put[w].received)
        /\ UNCHANGED <<get, del>> /\ NoFault /\ MoreFaults
    BY NoFaultMore DEF SrvCommit, Serving
  <1> DEFINE d == put[w].stored
             p == put[w].path
             y == Answered(w, "OK")
             x == [y EXCEPT !.saved = d]
  <1>2. d \in Data /\ p \in Paths /\ LocalFiles[p] \in Data
    BY <1>1, PutFields, FileIsData DEF PutShape
  <1>3. d = put[w].received
    <2>1. d = Upto(put[w].received, NumChunks(put[w].received) * ChunkSize)
      BY <1>1 DEF PutShape
    <2>. QED  BY <2>1, PutFields, ChunksJoin
  <1>4. put' = [put EXCEPT ![w] = x] /\ committed' = [committed EXCEPT ![p] = d]
    BY DEF SrvCommit
  <1>5. /\ y \in PutState
        /\ y.pc = put[w].pc /\ y.path = p
        /\ y.size = put[w].size /\ y.at = put[w].at
        /\ y.result = put[w].result /\ y.ended = put[w].ended
        /\ y.broken = put[w].broken
        /\ y.srv = "answered" /\ y.status = "OK"
    BY AnsweredFacts DEF Status
  <1> HIDE DEF y, d
  <1>6. x \in PutState
    BY <1>2, <1>5 DEF PutState
  <1>7. /\ x.pc = put[w].pc /\ x.path = p
        /\ x.size = put[w].size /\ x.at = put[w].at
        /\ x.result = put[w].result /\ x.ended = put[w].ended
        /\ x.broken = put[w].broken /\ x.saved = d
        /\ x.srv = "answered" /\ x.status = "OK"
    BY <1>5 DEF PutState
  <1> HIDE DEF x
  <1>8. PutShape(x)
    BY <1>1, <1>2, <1>7 DEF PutShape
  <1>9. PutWhole(x)
    BY <1>1, <1>3, <1>7 DEF PutWhole, File
  <1>10. PutHonest(x, faults'["read"])
    BY <1>1, <1>7 DEF PutHonest, PutShape, NoFault, File
  <1>11. PutKept(x, faults'["stream"])
    BY <1>7 DEF PutKept
  <1>12. put' \in [Puts -> PutState] /\ committed' \in [Paths -> Data \cup {NoFile}]
    BY <1>2, <1>4, <1>6 DEF TypeOK
  <1>13. TypeOK'
    BY <1>1, <1>12 DEF TypeOK, MoreFaults
  <1>14. PutsInv'
    <2>1. ASSUME NEW v \in Puts
          PROVE  /\ PutShape(put'[v]) /\ PutWhole(put'[v])
                 /\ PutHonest(put'[v], faults'["read"])
                 /\ PutKept(put'[v], faults'["stream"])
      <3>1. CASE v = w
        BY <1>4, <1>8, <1>9, <1>10, <1>11, <3>1
      <3>2. CASE v # w
        <4>1. put'[v] = put[v]
          BY <1>4, <3>2
        <4>. QED  BY <1>1, <4>1, PutsStay DEF ClientInv
      <3>. QED  BY <3>1, <3>2
    <2>. QED  BY <2>1 DEF PutsInv
  <1>15. CommittedWhole'
    <2> SUFFICES ASSUME faults["stream"] = 0, faults["read"] = 0, NEW q \in Paths
                 PROVE  committed'[q] \in {NoFile, LocalFiles[q]}
      BY <1>1 DEF CommittedWhole, NoFault
    <2>1. CASE q # p
      BY <1>4, <2>1 DEF ClientInv, TypeOK, CommittedWhole
    <2>2. CASE q = p
      <3>1. ~put[w].broken
        BY <1>1 DEF PutKept
      <3>2. put[w].pc = "finishing" /\ d = SubSeq(LocalFiles[p], 1, put[w].size)
        BY <1>1, <1>3, <3>1 DEF PutWhole, File
      <3>3. put[w].size = Len(LocalFiles[p])
        BY <3>2 DEF PutHonest, File
      <3>4. d = LocalFiles[p]
        BY <1>2, <3>2, <3>3, PartEnds
      <3>5. committed'[p] = d
        BY <1>2, <1>4 DEF TypeOK
      <3>. QED  BY <2>2, <3>4, <3>5
    <2>. QED  BY <2>1, <2>2
  <1>16. GetsInv' /\ DelsInv'
    BY <1>1 DEF ClientInv, GetsInv, DelsInv
  <1>. QED  BY <1>13, <1>14, <1>15, <1>16 DEF ClientInv
\* What is left in flight is a sequence of messages.
LEMMA PrefixFacts ==
  ASSUME NEW q \in Seq(Data), NEW s \in Prefixes(q)
  PROVE  s \in Seq(Data) /\ (q = <<>> => s = <<>>)
  <1>1. PICK n \in 0..Len(q) : s = SubSeq(q, 1, n)
    BY DEF Prefixes
  <1>2. \A i \in 1..n : q[i] \in Data
    OBVIOUS
  <1>3. s \in Seq(Data)
    BY <1>1, <1>2, SubSeqProperties
  <1>4. ASSUME q = <<>> PROVE s = <<>>
    <2>1. n = 0
      BY <1>4
    <2>. QED  BY <1>1, <2>1, SubSeqEmpty
  <1>. QED  BY <1>3, <1>4

\* PutBreaks.
LEMMA ClientPutBreaks ==
  ASSUME ClientInv, NEW w \in Puts, PutBreaks(w)
  PROVE  ClientInv'
  <1> USE PutFacts
  <1>1. PICK s \in Prefixes(put[w].sent) :
          put' = [put EXCEPT ![w].broken = TRUE, ![w].sent = s]
    BY DEF PutBreaks
  <1>2. s \in Seq(Data)
    BY PutFields, PrefixFacts
  <1> DEFINE x == [put[w] EXCEPT !.broken = TRUE, !.sent = s]
  <1>3. x \in PutState
    BY <1>2 DEF PutState
  <1>4. put' = [put EXCEPT ![w] = x]
    BY <1>1
  <1>5. /\ x.pc = put[w].pc /\ x.path = put[w].path /\ x.size = put[w].size
        /\ x.result = put[w].result /\ x.broken /\ x.srv = put[w].srv
        /\ x.received = put[w].received /\ x.chunks = put[w].chunks
        /\ x.stored = put[w].stored /\ x.saved = put[w].saved
        /\ x.status = put[w].status
    BY DEF PutState
  <1> HIDE DEF x
  <1>6. put[w].pc # "idle" /\ PutUnchanged
    BY DEF PutBreaks
  <1>7. MoreFaults /\ faults'["stream"] # 0
    BY FaultMore, FaultsGrow, ClientAssumption DEF PutBreaks
  <1>8. PutShape(x)
    BY <1>5, <1>6 DEF PutShape
  <1>9. PutWhole(x)
    BY <1>5 DEF PutWhole
  <1>10. PutHonest(x, faults'["read"])
    BY <1>5, <1>7 DEF PutHonest, MoreFaults, File
  <1>11. PutKept(x, faults'["stream"])
    BY <1>7 DEF PutKept
  <1>. QED  BY <1>3, <1>4, <1>6, <1>7, <1>8, <1>9, <1>10, <1>11, PutMoves

(***************************************************************************)
(* The downloads, action by action.                                        *)
(***************************************************************************)

\* What the invariant says of one download.
LEMMA GetFacts ==
  ASSUME ClientInv, NEW r \in Gets
  PROVE  /\ TypeOK /\ get \in [Gets -> GetState] /\ get[r] \in GetState
         /\ GetShape(get[r]) /\ GetWhole(get[r])
  BY DEF ClientInv, TypeOK, GetsInv

\* The fields of a download.
LEMMA GetFields ==
  ASSUME NEW x \in GetState
  PROVE  /\ x.got \in Data /\ x.sent \in Seq(Data) /\ x.chunks \in Nat
         /\ x.content \in Data \cup {NoFile} /\ x.broken \in BOOLEAN
  BY DEF GetState

\* GetCall.
LEMMA ClientGetCall ==
  ASSUME ClientInv, NEW r \in Gets, NEW p \in Paths, GetCall(r, p)
  PROVE  ClientInv'
  <1> USE GetFacts
  <1> DEFINE x == [get[r] EXCEPT !.pc = "reading", !.path = p]
  <1>1. x \in GetState
    BY DEF GetState
  <1>2. get' = [get EXCEPT ![r] = x] /\ MoreFaults /\ GetUnchanged
    BY NoFaultMore DEF GetCall
  <1>3. get[r] = IdleGet
    BY DEF GetCall, GetShape
  <1>4. /\ x.pc = "reading" /\ x.path = p /\ x.result = "none"
        /\ x.srv = "called" /\ x.status = "none" /\ x.got = <<>>
        /\ x.sent = <<>> /\ x.chunks = 0
    BY <1>3 DEF IdleGet
  <1> HIDE DEF x
  <1>5. GetShape(x) /\ GetWhole(x)
    BY <1>4 DEF GetShape, GetWhole
  <1>. QED  BY <1>1, <1>2, <1>5, GetMoves

\* The handler returns.
LEMMA ClientGetAnswer ==
  ASSUME ClientInv, NEW r \in Gets, NEW status \in Status,
         get[r].pc # "idle", get[r].srv # "answered",
         status = "OK" => /\ get[r].srv = "sending"
                          /\ get[r].chunks = NumChunks(get[r].content),
         GetAnswer(r, status), MoreFaults, GetUnchanged
  PROVE  ClientInv'
  <1> USE GetFacts
  <1> DEFINE x == [get[r] EXCEPT !.srv = "answered", !.status = status]
  <1>1. x \in GetState
    BY DEF GetState
  <1>2. get' = [get EXCEPT ![r] = x]
    BY DEF GetAnswer
  <1>3. /\ x.pc = get[r].pc /\ x.path = get[r].path /\ x.got = get[r].got
        /\ x.result = get[r].result /\ x.sent = get[r].sent
        /\ x.broken = get[r].broken /\ x.srv = "answered"
        /\ x.content = get[r].content /\ x.chunks = get[r].chunks
        /\ x.status = status
    BY DEF GetState
  <1> HIDE DEF x
  <1>4. GetShape(x)
    BY <1>3 DEF GetShape
  <1>5. GetWhole(x)
    BY <1>3 DEF GetWhole
  <1>. QED  BY <1>1, <1>2, <1>4, <1>5, GetMoves

\* SrvLookup.
LEMMA ClientSrvLookup ==
  ASSUME ClientInv, NEW r \in Gets, SrvLookup(r)
  PROVE  ClientInv'
  <1> USE GetFacts
  <1>1. /\ get[r].pc # "idle" /\ get[r].srv = "called"
        /\ MoreFaults /\ GetUnchanged
    BY NoFaultMore DEF SrvLookup
  <1>2. CASE GetAnswer(r, "NOT_FOUND")
    BY <1>1, <1>2, ClientGetAnswer DEF Status
  <1>3. CASE /\ committed[get[r].path] # NoFile
             /\ get' = [get EXCEPT ![r].srv = "sending",
                                   ![r].content = committed[get[r].path]]
    <2> DEFINE c == committed[get[r].path]
               x == [get[r] EXCEPT !.srv = "sending", !.content = c]
    <2>1. c \in Data
      BY <1>1, <1>3 DEF TypeOK, GetShape
    <2>2. get' = [get EXCEPT ![r] = x]
      BY <1>3
    <2> HIDE DEF c
    <2>3. x \in GetState
      BY <2>1 DEF GetState
    <2>4. /\ x.pc = get[r].pc /\ x.path = get[r].path /\ x.got = get[r].got
          /\ x.result = get[r].result /\ x.sent = get[r].sent
          /\ x.srv = "sending" /\ x.content = c /\ x.chunks = get[r].chunks
          /\ x.status = get[r].status
      BY DEF GetState
    <2> HIDE DEF x
    <2>5. /\ x.got = <<>> /\ x.sent = <<>> /\ x.chunks = 0
          /\ x.status # "OK" /\ x.result # "value"
      BY <1>1, <2>4 DEF GetShape
    <2>6. GetShape(x)
      BY <1>1, <2>1, <2>4, <2>5 DEF GetShape
    <2>7. /\ Len(x.sent) = 0 /\ (x.chunks - Len(x.sent)) * ChunkSize = 0
          /\ NumChunks(c) \in Nat /\ Upto(c, 0) = <<>>
      BY <2>1, <2>5, ChunksJoin, ClientAssumption
    <2>8. GetWhole(x)
      BY <2>4, <2>5, <2>7 DEF GetWhole
    <2>. QED  BY <1>1, <2>2, <2>3, <2>6, <2>8, GetMoves
  <1>. QED  BY <1>2, <1>3 DEF SrvLookup

\* SrvSend: the next chunk is the last of the messages in flight.
LEMMA ClientSrvSend ==
  ASSUME ClientInv, NEW r \in Gets, SrvSend(r)
  PROVE  ClientInv'
  <1> USE GetFacts
  <1>1. /\ get[r].srv = "sending" /\ get[r].chunks < NumChunks(get[r].content)
        /\ GetUnchanged /\ MoreFaults
    BY NoFaultMore, FaultMore, ClientAssumption DEF SrvSend
  <1>2. get[r].pc # "idle"
    BY <1>1 DEF GetShape, IdleGet
  <1>3. CASE GetAnswer(r, "INTERNAL")
    BY <1>1, <1>2, <1>3, ClientGetAnswer DEF Status
  <1>4. CASE /\ ~get[r].broken
             /\ get' = [get EXCEPT ![r].chunks = @ + 1,
                          ![r].sent = Append(@, Slice(get[r].content,
                                                      get[r].chunks + 1))]
    <2> DEFINE g == get[r].content
               q == get[r].sent
               k == Len(q)
               h == get[r].chunks
               n == h + 1
               m == Slice(g, n)
               s == Append(q, m)
               x1 == [get[r] EXCEPT !.chunks = n]
               x == [x1 EXCEPT !.sent = s]
    <2>1. g \in Data /\ NumChunks(g) \in Nat
      BY <1>1, ChunksJoin DEF GetShape
    <2>2. h \in Nat /\ n \in 1..NumChunks(g) /\ n \in Nat /\ q \in Seq(Data)
      <3>1. h \in Nat /\ q \in Seq(Data) /\ h < NumChunks(g)
        BY <1>1, GetFields
      <3>. QED  BY <2>1, <3>1
    <2>3. m \in Data
      BY <2>1, <2>2, ChunksJoin
    <2>4. get' = [get EXCEPT ![r] = x]
      <3>1. x = [get[r] EXCEPT !.chunks = n, !.sent = s]
        OBVIOUS
      <3>2. get' = [get EXCEPT ![r] = [get[r] EXCEPT !.chunks = n, !.sent = s]]
        BY <1>4
      <3> HIDE DEF n, s, x
      <3>. QED  BY <3>1, <3>2
    <2> HIDE DEF m
    <2>5. /\ s \in Seq(Data) /\ Len(s) = k + 1 /\ s[k + 1] = m /\ k \in Nat
          /\ \A j \in 1..k : s[j] = q[j]
      BY <2>2, <2>3, AppendProperties
    <2>6. x1 \in GetState
      <3> HIDE DEF n
      <3>. QED  BY <2>2 DEF GetState
    <2>7. x \in GetState
      <3> HIDE DEF x1, s
      <3>. QED  BY <2>5, <2>6 DEF GetState
    <2>8. /\ x.pc = get[r].pc /\ x.path = get[r].path /\ x.got = get[r].got
          /\ x.result = get[r].result /\ x.sent = s
          /\ x.srv = get[r].srv /\ x.content = g /\ x.chunks = n
          /\ x.status = get[r].status
      BY DEF GetState
    <2> HIDE DEF x, x1, s
    <2>9. GetShape(x)
      BY <1>1, <1>2, <2>1, <2>8 DEF GetShape
    <2>10. /\ k <= h /\ h <= NumChunks(g)
           /\ get[r].got = Upto(g, (h - k) * ChunkSize)
           /\ \A j \in 1..k : q[j] = Slice(g, h - k + j)
      BY <1>1, <1>4 DEF GetWhole
    <2>11. /\ x.status # "OK"
      BY <1>1, <2>8 DEF GetShape
    <2>12. n - Len(x.sent) = h - k /\ Len(x.sent) = k + 1
      <3>1. Len(x.sent) = k + 1
        BY <2>5, <2>8
      <3>2. h \in Nat /\ k \in Nat
        BY <2>2, <2>5
      <3> HIDE DEF k, h
      <3>. QED  BY <3>1, <3>2
    <2>13. ASSUME NEW j \in 1..Len(x.sent)
           PROVE  x.sent[j] = Slice(g, n - Len(x.sent) + j)
      <3>1. CASE j = k + 1
        <4>1. (n - Len(x.sent)) + j = n
          BY <2>2, <2>5, <2>12, <3>1
        <4>2. x.sent[j] = m
          BY <2>5, <2>8, <3>1
        <4>. QED  BY <4>1, <4>2 DEF m
      <3>2. CASE j \in 1..k
        BY <2>5, <2>8, <2>10, <2>12, <3>2
      <3>. QED  BY <2>5, <2>12, <3>1, <3>2
    <2>14. Len(x.sent) <= n /\ n <= NumChunks(g)
      <3> HIDE DEF k, h
      <3>. QED  BY <2>1, <2>2, <2>5, <2>10, <2>12
    <2> HIDE DEF n
    <2>15. x.got = Upto(g, (n - Len(x.sent)) * ChunkSize)
      BY <2>8, <2>10, <2>12
    <2>16. GetWhole(x)
      BY <2>8, <2>11, <2>13, <2>14, <2>15 DEF GetWhole
    <2>. QED  BY <1>1, <2>4, <2>7, <2>9, <2>16, GetMoves
  <1>. QED  BY <1>3, <1>4 DEF SrvSend

\* SrvSent.
LEMMA ClientSrvSent ==
  ASSUME ClientInv, NEW r \in Gets, SrvSent(r)
  PROVE  ClientInv'
  <1> USE GetFacts
  <1>1. /\ get[r].srv = "sending" /\ get[r].chunks = NumChunks(get[r].content)
        /\ GetAnswer(r, "OK") /\ GetUnchanged /\ MoreFaults
    BY NoFaultMore DEF SrvSent
  <1>2. get[r].pc # "idle"
    BY <1>1 DEF GetShape, IdleGet
  <1>. QED  BY <1>1, <1>2, ClientGetAnswer DEF Status
\* GetRead: the client appends the next chunk to what it has.
LEMMA ClientGetRead ==
  ASSUME ClientInv, NEW r \in Gets, GetRead(r)
  PROVE  ClientInv'
  <1> USE GetFacts
  <1>1. /\ get[r].pc = "reading" /\ get[r].sent # <<>>
        /\ GetUnchanged /\ MoreFaults
    BY NoFaultMore DEF GetRead
  <1> DEFINE g == get[r].content
             q == get[r].sent
             k == Len(q)
             h == get[r].chunks
             d == get[r].got \o Head(q)
             t == Tail(q)
             x == [get[r] EXCEPT !.got = d, !.sent = t]
  <1>2. q \in Seq(Data) /\ get[r].got \in Data /\ h \in Nat
    BY GetFields
  <1>3. /\ Head(q) \in Data /\ t \in Seq(Data)
        /\ Len(t) = k - 1 /\ k \in Nat \ {0} /\ Head(q) = q[1]
        /\ \A j \in 1..(k - 1) : t[j] = q[j + 1]
    BY <1>1, <1>2, HeadTailProperties
  <1>4. d \in Data
    BY <1>2, <1>3, JoinIsData
  <1>5. get' = [get EXCEPT ![r] = x]
    BY DEF GetRead
  <1>6. x \in GetState
    <2>1. t \in Seq(Data)
      BY <1>3
    <2> HIDE DEF d, t
    <2>. QED  BY <1>4, <2>1 DEF GetState
  <1>7. /\ x.pc = get[r].pc /\ x.path = get[r].path /\ x.got = d
        /\ x.result = get[r].result /\ x.sent = t
        /\ x.broken = get[r].broken /\ x.srv = get[r].srv
        /\ x.content = g /\ x.chunks = h /\ x.status = get[r].status
    BY DEF GetState
  <1> HIDE DEF x
  <1>8. GetShape(x)
    BY <1>1, <1>7 DEF GetShape
  <1>9. ASSUME ~x.broken, x.srv = "sending" \/ x.status = "OK"
        PROVE  /\ Len(x.sent) <= h /\ h <= NumChunks(g)
               /\ x.got = Upto(g, (h - Len(x.sent)) * ChunkSize)
               /\ \A j \in 1..Len(x.sent) :
                    x.sent[j] = Slice(g, h - Len(x.sent) + j)
    <2>1. /\ k <= h /\ h <= NumChunks(g)
          /\ get[r].got = Upto(g, (h - k) * ChunkSize)
          /\ \A j \in 1..k : q[j] = Slice(g, h - k + j)
      BY <1>7, <1>9 DEF GetWhole
    <2>2. g \in Data /\ NumChunks(g) \in Nat
      BY <1>7, <1>9, ChunksJoin DEF GetShape
    <2>3. Len(x.sent) = k - 1
      BY <1>3, <1>7
    <2> DEFINE i == h - k + 1
    <2> HIDE DEF k, h
    <2>4. h - Len(x.sent) = i /\ i - 1 = h - k /\ i \in 1..NumChunks(g) /\ k - 1 <= h
      <3>1. k \in Nat /\ h \in Nat /\ 1 <= k /\ k <= h /\ h <= NumChunks(g)
        BY <1>2, <1>3, <2>1 DEF h, k
      <3>. QED  BY <2>2, <2>3, <3>1
    <2>5. Upto(g, (i - 1) * ChunkSize) \o Slice(g, i) = Upto(g, i * ChunkSize)
      BY <2>2, <2>4, ChunksJoin
    <2>6. Head(q) = Slice(g, i)
      <3>1. 1 \in 1..k
        BY <1>3
      <3>2. q[1] = Slice(g, h - k + 1)
        BY <2>1, <3>1
      <3>. QED  BY <1>3, <3>2
    <2>7. x.got = Upto(g, i * ChunkSize)
      <3> HIDE DEF i
      <3>. QED  BY <1>7, <2>1, <2>4, <2>5, <2>6
    <2>8. ASSUME NEW j \in 1..(k - 1)
          PROVE  x.sent[j] = Slice(g, i + j)
      <3>1. j + 1 \in 1..k /\ (h - k) + (j + 1) = i + j
        BY <1>2, <1>3
      <3>2. x.sent[j] = q[j + 1]
        BY <1>3, <1>7
      <3>3. q[j + 1] = Slice(g, h - k + (j + 1))
        BY <2>1, <3>1
      <3> HIDE DEF i
      <3>. QED  BY <3>1, <3>2, <3>3
    <2> HIDE DEF i
    <2>. QED  BY <2>1, <2>3, <2>4, <2>7, <2>8
  <1>10. x.status = "OK" /\ ~x.broken => h = NumChunks(g)
    BY <1>7 DEF GetWhole
  <1>11. GetWhole(x)
    <2> HIDE DEF h, g
    <2>. QED  BY <1>7, <1>9, <1>10 DEF GetWhole
  <1>. QED  BY <1>1, <1>5, <1>6, <1>8, <1>11, GetMoves

\* GetFinish: a value is returned only after the last chunk.
LEMMA ClientGetFinish ==
  ASSUME ClientInv, NEW r \in Gets, GetFinish(r)
  PROVE  ClientInv'
  <1> USE GetFacts
  <1>1. /\ get[r].pc = "reading" /\ get[r].sent = <<>>
        /\ GetUnchanged /\ MoreFaults
    BY NoFaultMore DEF GetFinish
  <1> DEFINE v == GetResult(r)
             x1 == [get[r] EXCEPT !.pc = "ready", !.result = v]
             x == [x1 EXCEPT !.broken = TRUE]
  <1>2. v \in Result
    BY DEF GetResult, Result
  <1>3. ASSUME v = "value"
        PROVE  get[r].got = get[r].content /\ get[r].srv = "answered"
    <2>1. ~get[r].broken /\ get[r].status = "OK"
      BY <1>3 DEF GetResult
    <2>2. get[r].srv = "answered" /\ get[r].content \in Data
      BY <2>1 DEF GetShape
    <2>3. /\ get[r].chunks = NumChunks(get[r].content)
          /\ get[r].got = Upto(get[r].content,
                               (get[r].chunks - Len(get[r].sent)) * ChunkSize)
      BY <2>1 DEF GetWhole
    <2>4. Len(get[r].sent) = 0
      BY <1>1
    <2>5. get[r].chunks - Len(get[r].sent) = NumChunks(get[r].content)
      BY <2>3, <2>4, GetFields
    <2>6. get[r].got = Upto(get[r].content, NumChunks(get[r].content) * ChunkSize)
      BY <2>3, <2>5
    <2>. QED  BY <2>2, <2>6, ChunksJoin
  <1>4. get' = [get EXCEPT ![r] = x]
    <2>1. x = [get[r] EXCEPT !.pc = "ready", !.result = v, !.broken = TRUE]
      OBVIOUS
    <2>2. get' = [get EXCEPT ![r] = [get[r] EXCEPT !.pc = "ready", !.result = v,
                                                   !.broken = TRUE]]
      BY DEF GetFinish, GetReady
    <2> HIDE DEF x, v
    <2>. QED  BY <2>1, <2>2
  <1> HIDE DEF v
  <1>5. x1 \in GetState
    BY <1>2 DEF GetState
  <1>6. x \in GetState
    <2> HIDE DEF x1
    <2>. QED  BY <1>5 DEF GetState
  <1>7. /\ x.pc = "ready" /\ x.path = get[r].path /\ x.got = get[r].got
        /\ x.result = v /\ x.sent = get[r].sent /\ x.broken
        /\ x.srv = get[r].srv /\ x.content = get[r].content
        /\ x.chunks = get[r].chunks /\ x.status = get[r].status
    BY DEF GetState
  <1> HIDE DEF x, x1
  <1>8. GetShape(x)
    BY <1>1, <1>3, <1>7 DEF GetShape
  <1>9. GetWhole(x)
    BY <1>7 DEF GetWhole
  <1>. QED  BY <1>1, <1>4, <1>6, <1>8, <1>9, GetMoves

\* GetBreaks.
LEMMA ClientGetBreaks ==
  ASSUME ClientInv, NEW r \in Gets, GetBreaks(r)
  PROVE  ClientInv'
  <1> USE GetFacts
  <1>1. PICK s \in Prefixes(get[r].sent) :
          get' = [get EXCEPT ![r].broken = TRUE, ![r].sent = s]
    BY DEF GetBreaks
  <1>2. s \in Seq(Data) /\ (get[r].sent = <<>> => s = <<>>)
    BY GetFields, PrefixFacts
  <1>3. get[r].pc = "reading" /\ GetUnchanged /\ MoreFaults
    BY FaultMore, ClientAssumption DEF GetBreaks
  <1> DEFINE x == [get[r] EXCEPT !.broken = TRUE, !.sent = s]
  <1>4. x \in GetState
    BY <1>2 DEF GetState
  <1>5. get' = [get EXCEPT ![r] = x]
    BY <1>1
  <1>6. /\ x.pc = get[r].pc /\ x.path = get[r].path /\ x.got = get[r].got
        /\ x.result = get[r].result /\ x.sent = s /\ x.broken
        /\ x.srv = get[r].srv /\ x.content = get[r].content
        /\ x.chunks = get[r].chunks /\ x.status = get[r].status
    BY DEF GetState
  <1> HIDE DEF x
  <1>7. GetShape(x)
    BY <1>2, <1>3, <1>6 DEF GetShape
  <1>8. GetWhole(x)
    BY <1>6 DEF GetWhole
  <1>. QED  BY <1>3, <1>4, <1>5, <1>7, <1>8, GetMoves
(***************************************************************************)
(* The deletions, and the restart.                                         *)
(***************************************************************************)

\* What the invariant says of one deletion.
LEMMA DelFacts ==
  ASSUME ClientInv, NEW d \in Dels
  PROVE  /\ TypeOK /\ del \in [Dels -> DelState] /\ del[d] \in DelState
         /\ DelShape(del[d])
         /\ committed \in [Paths -> Data \cup {NoFile}]
  BY DEF ClientInv, TypeOK, DelsInv

\* DelCall.
LEMMA ClientDelCall ==
  ASSUME ClientInv, NEW d \in Dels, NEW p \in Paths, DelCall(d, p)
  PROVE  ClientInv'
  <1> USE DelFacts
  <1> DEFINE x == [del[d] EXCEPT !.pc = "called", !.path = p]
  <1>1. x \in DelState /\ x.path = p
    BY DEF DelState
  <1>2. del' = [del EXCEPT ![d] = x] /\ UNCHANGED <<committed, put, get>>
    BY DEF DelCall
  <1>3. MoreFaults
    BY NoFaultMore DEF DelCall
  <1> HIDE DEF x
  <1>4. DelShape(x)
    BY <1>1 DEF DelShape
  <1>. QED  BY <1>1, <1>2, <1>3, <1>4, DelMoves

\* SrvDelete.
LEMMA ClientSrvDelete ==
  ASSUME ClientInv, NEW d \in Dels, SrvDelete(d)
  PROVE  ClientInv'
  <1> USE DelFacts
  <1> DEFINE s == IF committed[del[d].path] = NoFile THEN "NOT_FOUND" ELSE "OK"
             x == [del[d] EXCEPT !.srv = "answered", !.status = s]
  <1>1. s \in Status
    BY DEF Status
  <1>2. /\ del' = [del EXCEPT ![d] = x] /\ UNCHANGED <<put, get>>
        /\ committed' = [committed EXCEPT ![del[d].path] = NoFile]
    BY DEF SrvDelete
  <1> HIDE DEF s
  <1>3. x \in DelState /\ x.path = del[d].path /\ x.pc = del[d].pc
    BY <1>1 DEF DelState
  <1>4. MoreFaults
    BY NoFaultMore DEF SrvDelete
  <1> HIDE DEF x
  <1>5. DelShape(x)
    BY <1>3 DEF DelShape
  <1>6. /\ committed' \in [Paths -> Data \cup {NoFile}]
        /\ \A p \in Paths : committed'[p] \in {NoFile, committed[p]}
    BY <1>2
  <1>. QED  BY <1>2, <1>3, <1>4, <1>5, <1>6, DelMoves

\* DelFinish.
LEMMA ClientDelFinish ==
  ASSUME ClientInv, NEW d \in Dels, DelFinish(d)
  PROVE  ClientInv'
  <1> USE DelFacts
  <1> DEFINE v == DelResult(d)
             x1 == [del[d] EXCEPT !.pc = "ready", !.broken = TRUE]
             x == [x1 EXCEPT !.result = v]
  <1>1. v \in Result
    BY DEF DelResult, Result
  <1>2. del' = [del EXCEPT ![d] = x] /\ UNCHANGED <<committed, put, get>>
    <2>1. x = [del[d] EXCEPT !.pc = "ready", !.broken = TRUE, !.result = v]
      OBVIOUS
    <2>2. del' = [del EXCEPT ![d] = [del[d] EXCEPT !.pc = "ready",
                                       !.broken = TRUE, !.result = v]]
      BY DEF DelFinish
    <2> HIDE DEF x, v
    <2>. QED  BY <2>1, <2>2 DEF DelFinish
  <1> HIDE DEF v
  <1>3. x1 \in DelState /\ x1.path = del[d].path
    BY DEF DelState
  <1>4. x \in DelState /\ x.path = del[d].path
    <2> HIDE DEF x1
    <2>. QED  BY <1>1, <1>3 DEF DelState
  <1>5. MoreFaults
    BY NoFaultMore DEF DelFinish
  <1>6. del[d].pc # "idle"
    BY DEF DelFinish
  <1> HIDE DEF x
  <1>7. DelShape(x)
    BY <1>4, <1>6 DEF DelShape
  <1>. QED  BY <1>2, <1>4, <1>5, <1>7, DelMoves

\* DelBreaks.
LEMMA ClientDelBreaks ==
  ASSUME ClientInv, NEW d \in Dels, DelBreaks(d)
  PROVE  ClientInv'
  <1> USE DelFacts
  <1>1. /\ del[d].pc # "idle" /\ MoreFaults /\ UNCHANGED <<committed, put, get>>
    BY FaultMore, ClientAssumption DEF DelBreaks
  <1> DEFINE x == [del[d] EXCEPT !.broken = TRUE]
             y == [x EXCEPT !.srv = "answered", !.status = "UNAVAILABLE"]
  <1>2. x \in DelState /\ x.path = del[d].path
    BY DEF DelState
  <1>3. y \in DelState /\ y.path = del[d].path
    <2> HIDE DEF x
    <2>. QED  BY <1>2 DEF DelState, Status
  <1>4. DelShape(x) /\ DelShape(y)
    <2> HIDE DEF x, y
    <2>. QED  BY <1>1, <1>2, <1>3 DEF DelShape
  <1>5. CASE del' = [del EXCEPT ![d].broken = TRUE]
    <2>1. del' = [del EXCEPT ![d] = x]
      BY <1>5
    <2> HIDE DEF x
    <2>. QED  BY <1>1, <1>2, <1>4, <2>1, DelMoves
  <1>6. CASE del' = [del EXCEPT ![d].broken = TRUE, ![d].srv = "answered",
                                ![d].status = "UNAVAILABLE"]
    <2>1. y = [del[d] EXCEPT !.broken = TRUE, !.srv = "answered",
                             !.status = "UNAVAILABLE"]
      OBVIOUS
    <2>2. del' = [del EXCEPT ![d] = y]
      BY <1>6, <2>1
    <2> HIDE DEF x, y
    <2>. QED  BY <1>1, <1>3, <1>4, <2>2, DelMoves
  <1>. QED  BY <1>5, <1>6 DEF DelBreaks

\* Restart: every handler that is lost has answered, and its stream is broken.
LEMMA ClientRestart ==
  ASSUME ClientInv, Restart
  PROVE  ClientInv'
  <1>1. TypeOK /\ MoreFaults
    BY FaultMore, ClientAssumption DEF ClientInv, Restart
  <1>2. ASSUME NEW w \in Puts
        PROVE  /\ put'[w] \in PutState
               /\ PutShape(put'[w]) /\ PutWhole(put'[w])
               /\ PutHonest(put'[w], faults'["read"])
               /\ PutKept(put'[w], faults'["stream"])
    <2>1. CASE ~Serving(w)
      <3>1. put'[w] = put[w]
        BY <2>1 DEF Restart
      <3>. QED  BY <1>1, <3>1, PutFacts, PutsStay DEF ClientInv
    <2>2. CASE Serving(w)
      <3> DEFINE y == Answered(w, "UNAVAILABLE")
                 x == [y EXCEPT !.broken = TRUE]
      <3>1. put'[w] = x
        BY <2>2 DEF Restart
      <3>2. /\ y \in PutState
            /\ y.pc = put[w].pc /\ y.path = put[w].path /\ y.size = put[w].size
            /\ y.result = put[w].result /\ y.saved = put[w].saved
            /\ y.srv = "answered" /\ y.status = "UNAVAILABLE"
        BY PutFacts, AnsweredFacts DEF Status
      <3> HIDE DEF y
      <3>3. x \in PutState
        BY <3>2 DEF PutState
      <3>4. /\ x.pc = put[w].pc /\ x.path = put[w].path /\ x.size = put[w].size
            /\ x.result = put[w].result /\ x.saved = put[w].saved
            /\ x.srv = "answered" /\ x.status = "UNAVAILABLE" /\ x.broken
        BY <3>2 DEF PutState
      <3> HIDE DEF x
      <3>5. PutShape(x)
        BY <2>2, <3>4, PutFacts DEF PutShape, Serving
      <3>6. PutWhole(x) /\ PutKept(x, faults'["stream"])
        BY <3>4 DEF PutWhole, PutKept
      <3>7. PutHonest(x, faults'["read"])
        BY <1>1, <3>4, PutFacts DEF PutHonest, MoreFaults, File
      <3>. QED  BY <3>1, <3>3, <3>5, <3>6, <3>7
    <2>. QED  BY <2>1, <2>2
  <1>3. ASSUME NEW r \in Gets
        PROVE  get'[r] \in GetState /\ GetShape(get'[r]) /\ GetWhole(get'[r])
    <2> USE GetFacts
    <2>1. CASE ~(get[r].pc # "idle" /\ get[r].srv # "answered")
      <3>1. get'[r] = get[r]
        BY <2>1 DEF Restart, Lost
      <3>. QED  BY <3>1
    <2>2. CASE get[r].pc # "idle" /\ get[r].srv # "answered"
      <3> DEFINE y == [get[r] EXCEPT !.srv = "answered", !.status = "UNAVAILABLE"]
                 x == [y EXCEPT !.broken = TRUE]
      <3>1. get'[r] = x
        <4>1. x = [get[r] EXCEPT !.srv = "answered", !.status = "UNAVAILABLE",
                                 !.broken = TRUE]
          OBVIOUS
        <4>. QED  BY <2>2, <4>1 DEF Restart, Lost
      <3>2. y \in GetState
        BY DEF GetState, Status
      <3>3. x \in GetState
        <4> HIDE DEF y
        <4>. QED  BY <3>2 DEF GetState
      <3>4. /\ x.pc = get[r].pc /\ x.path = get[r].path
            /\ x.result = get[r].result /\ x.srv = "answered"
            /\ x.status = "UNAVAILABLE" /\ x.broken
        BY DEF GetState
      <3> HIDE DEF x
      <3>5. GetShape(x)
        BY <2>2, <3>4 DEF GetShape
      <3>6. GetWhole(x)
        BY <3>4 DEF GetWhole
      <3>. QED  BY <3>1, <3>3, <3>5, <3>6
    <2>. QED  BY <2>1, <2>2
  <1>4. ASSUME NEW d \in Dels
        PROVE  del'[d] \in DelState /\ DelShape(del'[d])
    <2> USE DelFacts
    <2>1. CASE ~(del[d].pc # "idle" /\ del[d].srv # "answered")
      <3>1. del'[d] = del[d]
        BY <2>1 DEF Restart, Lost
      <3>. QED  BY <3>1
    <2>2. CASE del[d].pc # "idle" /\ del[d].srv # "answered"
      <3> DEFINE y == [del[d] EXCEPT !.srv = "answered", !.status = "UNAVAILABLE"]
                 x == [y EXCEPT !.broken = TRUE]
      <3>1. del'[d] = x
        <4>1. x = [del[d] EXCEPT !.srv = "answered", !.status = "UNAVAILABLE",
                                 !.broken = TRUE]
          OBVIOUS
        <4>. QED  BY <2>2, <4>1 DEF Restart, Lost
      <3>2. y \in DelState /\ y.path = del[d].path
        BY DEF DelState, Status
      <3>3. x \in DelState /\ x.path = del[d].path
        <4> HIDE DEF y
        <4>. QED  BY <3>2 DEF DelState
      <3> HIDE DEF x
      <3>4. DelShape(x)
        BY <2>2, <3>3 DEF DelShape
      <3>. QED  BY <3>1, <3>3, <3>4
    <2>. QED  BY <2>1, <2>2
  <1>5. TypeOK'
    <2>1. committed' \in [Paths -> Data \cup {NoFile}]
      BY DEF Restart
    <2>2. put' \in [Puts -> PutState]
      BY <1>2 DEF Restart
    <2>3. get' \in [Gets -> GetState]
      BY <1>3 DEF Restart
    <2>4. del' \in [Dels -> DelState]
      BY <1>4 DEF Restart
    <2>. QED  BY <1>1, <2>1, <2>2, <2>3, <2>4 DEF TypeOK, MoreFaults
  <1>6. PutsInv' /\ GetsInv' /\ DelsInv'
    BY <1>2, <1>3, <1>4 DEF PutsInv, GetsInv, DelsInv
  <1>7. CommittedWhole'
    BY DEF Restart, CommittedWhole
  <1>. QED  BY <1>5, <1>6, <1>7 DEF ClientInv

(***************************************************************************)
(* The invariant holds in every state.                                     *)
(***************************************************************************)

\* Initially nobody has called.
LEMMA ClientInvInit == Init => ClientInv
  <1> SUFFICES ASSUME Init PROVE ClientInv
    OBVIOUS
  <1>1. <<>> \in Data /\ <<>> \in Seq(Data) /\ 0 \in Nat /\ FALSE \in BOOLEAN
    BY DataIsSeq
  <1>2. IdlePut \in PutState
    BY <1>1 DEF IdlePut, PutState, Status, Result
  <1>3. IdleGet \in GetState
    BY <1>1 DEF IdleGet, GetState, Status, Result
  <1>4. IdleDel \in DelState
    BY <1>1 DEF IdleDel, DelState, Status, Result
  <1>5. TypeOK
    BY <1>2, <1>3, <1>4 DEF Init, TypeOK
  <1>6. /\ PutShape(IdlePut) /\ PutWhole(IdlePut)
        /\ PutHonest(IdlePut, 0) /\ PutKept(IdlePut, 0)
    BY DEF PutShape, PutWhole, PutHonest, PutKept, IdlePut
  <1>7. PutsInv
    BY <1>6, ClientAssumption DEF Init, PutsInv
  <1>8. GetShape(IdleGet) /\ GetWhole(IdleGet)
    BY DEF GetShape, GetWhole, IdleGet
  <1>9. GetsInv /\ DelsInv
    BY <1>8 DEF Init, GetsInv, DelsInv, DelShape, IdleDel
  <1>10. CommittedWhole
    BY DEF Init, CommittedWhole
  <1>. QED  BY <1>5, <1>7, <1>9, <1>10 DEF ClientInv

\* Every step keeps it.
LEMMA ClientInvNext == ClientInv /\ [Next]_vars => ClientInv'
  <1> SUFFICES ASSUME ClientInv, [Next]_vars PROVE ClientInv'
    OBVIOUS
  <1>1. ASSUME NEW w \in Puts, NEW p \in Paths, PutOpen(w, p) PROVE ClientInv'
    BY <1>1, ClientPutOpen
  <1>2. ASSUME NEW w \in Puts, PutThread(w) PROVE ClientInv'
    BY <1>2, ClientPutWrite, ClientPutWritesDone, ClientPutFinish DEF PutThread
  <1>3. ASSUME NEW w \in Puts, PutHandler(w) PROVE ClientInv'
    BY <1>3, ClientSrvRead, ClientSrvEnd, ClientSrvChunk, ClientSrvCommit
       DEF PutHandler
  <1>4. ASSUME NEW w \in Puts, PutReadError(w) \/ PutBreaks(w) PROVE ClientInv'
    BY <1>4, ClientPutReadError, ClientPutBreaks
  <1>5. ASSUME NEW r \in Gets, NEW p \in Paths, GetCall(r, p) PROVE ClientInv'
    BY <1>5, ClientGetCall
  <1>6. ASSUME NEW r \in Gets, GetThread(r) \/ GetHandler(r) \/ GetBreaks(r)
        PROVE  ClientInv'
    BY <1>6, ClientGetRead, ClientGetFinish, ClientSrvLookup, ClientSrvSend,
       ClientSrvSent, ClientGetBreaks DEF GetThread, GetHandler
  <1>7. ASSUME NEW d \in Dels, NEW p \in Paths, DelCall(d, p) PROVE ClientInv'
    BY <1>7, ClientDelCall
  <1>8. ASSUME NEW d \in Dels, DelFinish(d) \/ SrvDelete(d) \/ DelBreaks(d)
        PROVE  ClientInv'
    BY <1>8, ClientDelFinish, ClientSrvDelete, ClientDelBreaks
  <1>9. CASE Restart
    BY <1>9, ClientRestart
  <1>10. CASE UNCHANGED vars
    BY <1>10 DEF vars, ClientInv, TypeOK, PutsInv, GetsInv, DelsInv,
       CommittedWhole
  <1>. QED  BY <1>1, <1>2, <1>3, <1>4, <1>5, <1>6, <1>7, <1>8, <1>9, <1>10
            DEF Next

\* The inductive invariant of the calls: what the handler has, what is in
\* flight and what the client has yet to read make up the local file while
\* the stream holds, and likewise for a download.
THEOREM ClientInvariant == Spec => []ClientInv
  BY ClientInvInit, ClientInvNext, PTL DEF Spec

\* Type correctness.
THEOREM ClientTypeCorrect == Spec => []TypeOK
  <1>1. ClientInv => TypeOK
    BY DEF ClientInv
  <1>. QED  BY <1>1, ClientInvariant, PTL

\* "client put" returns 0 only if the whole local file was committed, for
\* files, buffers, chunks and windows of any size and any number of calls and
\* faults, unless reading the local file fails.
THEOREM ClientUploadTruth == Spec => []UploadTruth
  <1>1. ClientInv => UploadTruth
    BY ExitIsValue DEF ClientInv, PutsInv, PutHonest, UploadTruth, File
  <1>. QED  BY <1>1, ClientInvariant, PTL

\* A file that is cut short gets into the store only after a broken connection
\* or an error on the client's file.
THEOREM ClientCommittedWhole == Spec => []CommittedWhole
  <1>1. ClientInv => CommittedWhole
    BY DEF ClientInv
  <1>. QED  BY <1>1, ClientInvariant, PTL

\* "client get" returns 0 only with the whole file that the handler found,
\* although the client sees a broken stream and the end of the file alike.
THEOREM ClientDownloadTruth == Spec => []DownloadTruth
  <1>1. ClientInv => DownloadTruth
    BY ExitIsValue DEF ClientInv, GetsInv, GetShape, DownloadTruth
  <1>. QED  BY <1>1, ClientInvariant, PTL
=============================================================================
