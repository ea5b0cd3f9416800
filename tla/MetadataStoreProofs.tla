------------------------ MODULE MetadataStoreProofs ------------------------
(***************************************************************************)
(* Safety of the metadata store for every set of paths, every lifetime and *)
(* every limit on the deque: the type invariant, the tombstone counter,    *)
(* the order of the deque and the grace period.                            *)
(***************************************************************************)
EXTENDS MetadataStore, SequenceTheorems, TLAPS

\* The scan never looks at a time that has not come yet.
ScanInPast == scan.now <= clock

\* The inductive invariant: the counter stays a natural number only because it
\* is the length of the deque, and the deque is ordered only because no
\* deletion lies in the future.
StoreInv == TypeOK /\ CountMatchesDeque /\ TombstonesInOrder /\ ScanInPast

\* Dropping a prefix, as cleanupOldTombstones does: what is left and how long.
LEMMA DropFront ==
  ASSUME NEW S, NEW s \in Seq(S), NEW k \in 0..Len(s)
  PROVE  /\ SubSeq(s, k + 1, Len(s)) \in Seq(S)
         /\ Len(SubSeq(s, k + 1, Len(s))) = Len(s) - k
         /\ \A i \in 1..(Len(s) - k) : SubSeq(s, k + 1, Len(s))[i] = s[i + k]
  OBVIOUS

\* Erasing one element, as the iterator of the cleanup scan does.
LEMMA EraseAt ==
  ASSUME NEW S, NEW s \in Seq(S), NEW at \in 1..Len(s),
         NEW e, e = SubSeq(s, 1, at - 1) \o SubSeq(s, at + 1, Len(s))
  PROVE  /\ e \in Seq(S)
         /\ Len(e) = Len(s) - 1
         /\ \A i \in 1..(Len(s) - 1) :
              e[i] = IF i < at THEN s[i] ELSE s[i + 1]
  <1> DEFINE l == SubSeq(s, 1, at - 1)
             r == SubSeq(s, at + 1, Len(s))
  <1>1. l \in Seq(S) /\ Len(l) = at - 1 /\ \A i \in 1..(at - 1) : l[i] = s[i]
    OBVIOUS
  <1>2. /\ r \in Seq(S) /\ Len(r) = Len(s) - at
        /\ \A i \in 1..(Len(s) - at) : r[i] = s[i + at]
    OBVIOUS
  <1>0. e = l \o r
    OBVIOUS
  <1> HIDE DEF l, r
  <1>3. /\ e \in Seq(S)
        /\ Len(e) = Len(l) + Len(r)
        /\ \A i \in 1..(Len(l) + Len(r)) :
             e[i] = IF i <= Len(l) THEN l[i] ELSE r[i - Len(l)]
    <2>1. l \in Seq(S) /\ r \in Seq(S)
      BY <1>1, <1>2
    <2>2. /\ l \o r \in Seq(S)
          /\ Len(l \o r) = Len(l) + Len(r)
          /\ \A i \in 1..(Len(l) + Len(r)) :
               (l \o r)[i] = IF i <= Len(l) THEN l[i] ELSE r[i - Len(l)]
      BY ONLY <2>1, ConcatProperties, Zenon
    <2>. QED  BY ONLY <1>0, <2>2, Zenon
  <1>4. Len(s) \in Nat /\ at \in Nat /\ at >= 1 /\ at <= Len(s)
    OBVIOUS
  <1>5. Len(e) = Len(s) - 1
    <2>1. Len(l) = at - 1 /\ Len(r) = Len(s) - at /\ Len(e) = Len(l) + Len(r)
      BY <1>1, <1>2, <1>3
    <2>2. (at - 1) + (Len(s) - at) = Len(s) - 1
      BY <1>4
    <2>. QED  BY ONLY <2>1, <2>2, Zenon
  <1>6. ASSUME NEW i \in 1..(Len(s) - 1)
        PROVE  e[i] = IF i < at THEN s[i] ELSE s[i + 1]
    <2>1. i \in Nat /\ 1 <= i /\ i <= Len(s) - 1
      BY <1>4
    <2>2. i \in 1..(Len(l) + Len(r))
      BY <1>1, <1>2, <1>4, <2>1
    <2>3. CASE i < at
      <3>1. i <= Len(l) /\ i \in 1..(at - 1)
        BY <1>1, <1>4, <2>1, <2>3
      <3>. QED  BY <1>1, <1>3, <2>2, <2>3, <3>1
    <2>4. CASE ~(i < at)
      <3>1. ~(i <= Len(l)) /\ i - Len(l) \in 1..(Len(s) - at)
        BY <1>1, <1>4, <2>1, <2>4
      <3>2. e[i] = r[i - Len(l)] /\ r[i - Len(l)] = s[(i - Len(l)) + at]
        BY <1>2, <1>3, <2>2, <3>1
      <3>3. (i - Len(l)) + at = i + 1
        BY <1>1, <1>4, <2>1
      <3>. QED  BY <2>4, <3>2, <3>3
    <2>. QED  BY <2>3, <2>4
  <1>. QED  BY <1>3, <1>5, <1>6

\* A new tombstone carries what the entry held and the time of the deletion.
LEMMA NewTombstoneType ==
  ASSUME StoreInv, NEW p \in Paths, Found(p)
  PROVE  NewTombstone(p) \in Tombstone /\ NewTombstone(p).delete_time = clock
  BY DEF StoreInv, TypeOK, Found, NewTombstone, Tombstone

\* Pushed keeps the deque ordered: nothing is younger than the clock.
LEMMA PushedProperties ==
  ASSUME StoreInv, NEW p \in Paths, Found(p)
  PROVE  /\ Pushed(p) \in Seq(Tombstone)
         /\ Len(Pushed(p)) = Len(deleted_entries) + 1
         /\ \A i \in 1..Len(deleted_entries) :
              Pushed(p)[i] = deleted_entries[i]
         /\ \A i \in 1..Len(Pushed(p)) : Pushed(p)[i].delete_time <= clock
         /\ \A i, j \in 1..Len(Pushed(p)) :
              i <= j => Pushed(p)[i].delete_time <= Pushed(p)[j].delete_time
  <1> DEFINE t == NewTombstone(p)
             n == Len(deleted_entries)
  <1>1. t \in Tombstone /\ t.delete_time = clock /\ clock \in Nat
    BY NewTombstoneType DEF StoreInv, TypeOK
  <1>2. deleted_entries \in Seq(Tombstone) /\ n \in Nat
    BY DEF StoreInv, TypeOK
  <1> HIDE DEF t
  <1>3. /\ Pushed(p) \in Seq(Tombstone)
        /\ Len(Pushed(p)) = n + 1
        /\ \A i \in 1..n : Pushed(p)[i] = deleted_entries[i]
        /\ Pushed(p)[n + 1] = t
    BY <1>1, <1>2, AppendProperties DEF Pushed, t
  <1>4. \A i \in 1..n : deleted_entries[i].delete_time <= clock
    BY DEF StoreInv, TombstonesInOrder
  <1>5. \A i, j \in 1..n :
          i <= j => deleted_entries[i].delete_time
                    <= deleted_entries[j].delete_time
    BY DEF StoreInv, TombstonesInOrder
  <1>6. \A i \in 1..(n + 1) : i \in 1..n \/ i = n + 1
    BY <1>2
  <1>7. \A i \in 1..(n + 1) : Pushed(p)[i].delete_time <= clock
    BY <1>1, <1>3, <1>4, <1>6
  <1>8. ASSUME NEW i \in 1..(n + 1), NEW j \in 1..(n + 1), i <= j
        PROVE  Pushed(p)[i].delete_time <= Pushed(p)[j].delete_time
    <2>1. CASE j = n + 1
      BY <1>1, <1>3, <1>7, <2>1
    <2>2. CASE j \in 1..n
      <3>1. i \in 1..n
        BY <1>2, <1>8, <2>2
      <3>. QED  BY <1>3, <1>5, <1>8, <2>2, <3>1
    <2>. QED  BY <1>6, <2>1, <2>2
  <1>. QED  BY <1>3, <1>7, <1>8

\* What deletePath leaves of the deque: the pushed deque less its first k
\* tombstones, all of them aged.
LEMMA DeletePathDeque ==
  ASSUME StoreInv, NEW p \in Paths, Found(p), deletePath(p)
  PROVE  \E k \in 0..Len(Pushed(p)) :
           /\ deleted_entries' = SubSeq(Pushed(p), k + 1, Len(Pushed(p)))
           /\ tombstone_count' = tombstone_count - k + 1
           /\ \A i \in 1..k : Aged(Pushed(p)[i], clock)
           /\ \/ Len(Pushed(p)) - k <= MAX_DELETED_ENTRIES
              \/ k < Len(Pushed(p)) => ~Aged(Pushed(p)[k + 1], clock)
  <1>1. PICK k \in 0..Len(Pushed(p)) :
          /\ \/ /\ OverLimit(Pushed(p))
                /\ cleanupOldTombstones(Pushed(p), k, deleted_entries')
             \/ /\ ~OverLimit(Pushed(p))
                /\ k = 0
                /\ deleted_entries' = Pushed(p)
          /\ tombstone_count' = CountAfter(k)
    BY DEF deletePath
  <1>2. tombstone_count' = tombstone_count - k + 1
    BY <1>1 DEF CountAfter
  <1>3. CASE cleanupOldTombstones(Pushed(p), k, deleted_entries')
    BY <1>2, <1>3 DEF cleanupOldTombstones
  <1>4. CASE ~OverLimit(Pushed(p)) /\ k = 0 /\ deleted_entries' = Pushed(p)
    <2>1. Pushed(p) \in Seq(Tombstone)
      BY PushedProperties
    <2>2. SubSeq(Pushed(p), 0 + 1, Len(Pushed(p))) = Pushed(p)
      BY <2>1
    <2>3. Len(Pushed(p)) - k <= MAX_DELETED_ENTRIES
      BY <1>4, <2>1, StoreAssumption DEF OverLimit
    <2>. QED  BY <1>2, <1>4, <2>2, <2>3
  <1>. QED  BY <1>1, <1>3, <1>4

\* Initially nothing is deleted.
LEMMA StoreInvInit == Init => StoreInv
  BY StoreAssumption
  DEF Init, StoreInv, TypeOK, CountMatchesDeque, TombstonesInOrder, ScanInPast,
      ScanIdle

\* putFile touches the entries only.
LEMMA StoreInvPut ==
  ASSUME StoreInv, NEW p \in Paths, NEW m \in FileMeta, putFile(p, m)
  PROVE  StoreInv'
  BY DEF StoreInv, TypeOK, CountMatchesDeque, TombstonesInOrder, ScanInPast,
         putFile

\* deletePath: the counter follows the deque through the overflow path.
LEMMA StoreInvDelete ==
  ASSUME StoreInv, NEW p \in Paths, deletePath(p)
  PROVE  StoreInv'
  <1>1. CASE ~Found(p)
    BY <1>1 DEF deletePath, vars, StoreInv, TypeOK, CountMatchesDeque,
                TombstonesInOrder, ScanInPast
  <1>2. CASE Found(p)
    <2> DEFINE s == Pushed(p)
    <2>1. /\ s \in Seq(Tombstone)
          /\ Len(s) = Len(deleted_entries) + 1
          /\ \A i \in 1..Len(s) : s[i].delete_time <= clock
          /\ \A i, j \in 1..Len(s) :
               i <= j => s[i].delete_time <= s[j].delete_time
      BY <1>2, PushedProperties
    <2>2. PICK k \in 0..Len(s) :
            /\ deleted_entries' = SubSeq(s, k + 1, Len(s))
            /\ tombstone_count' = tombstone_count - k + 1
      BY <1>2, DeletePathDeque
    <2>3. /\ entries' = [entries EXCEPT ![p] = NoFile]
          /\ clock' = clock /\ scan' = scan
      BY <1>2 DEF deletePath, vars
    <2> HIDE DEF s
    <2>4. /\ deleted_entries' \in Seq(Tombstone)
          /\ Len(deleted_entries') = Len(s) - k
          /\ \A i \in 1..(Len(s) - k) : deleted_entries'[i] = s[i + k]
      BY <2>1, <2>2, DropFront
    <2>5. Len(deleted_entries) \in Nat /\ Len(s) \in Nat
      BY <2>1 DEF StoreInv, TypeOK
    <2>6. tombstone_count = Len(deleted_entries)
      BY DEF StoreInv, CountMatchesDeque
    <2>7. CountMatchesDeque' /\ tombstone_count' \in Nat
      BY <2>1, <2>2, <2>4, <2>5, <2>6 DEF CountMatchesDeque
    <2>8. TypeOK'
      BY <2>3, <2>4, <2>7 DEF StoreInv, TypeOK
    <2>9. TombstonesInOrder'
      <3>1. \A i \in 1..(Len(s) - k) : i + k \in 1..Len(s)
        BY <2>5
      <3>2. ASSUME NEW i \in 1..(Len(s) - k), NEW j \in 1..(Len(s) - k), i <= j
            PROVE  deleted_entries'[i].delete_time
                   <= deleted_entries'[j].delete_time
        <4>1. i + k <= j + k
          BY <2>5, <3>2
        <4>. QED  BY <2>1, <2>4, <3>1, <4>1
      <3>3. \A i \in 1..(Len(s) - k) : deleted_entries'[i].delete_time <= clock'
        BY <2>1, <2>3, <2>4, <3>1
      <3>. QED  BY <2>4, <3>2, <3>3 DEF TombstonesInOrder
    <2>10. ScanInPast'
      BY <2>3 DEF StoreInv, ScanInPast
    <2>. QED  BY <2>7, <2>8, <2>9, <2>10 DEF StoreInv
  <1>. QED  BY <1>1, <1>2

\* What CleanupErase leaves of the deque, and what it took away.
LEMMA EraseDeque ==
  ASSUME StoreInv, CleanupErase
  PROVE  LET n == Len(deleted_entries) IN
         /\ n \in Nat /\ scan.at \in 1..n
         /\ Aged(deleted_entries[scan.at], scan.now)
         /\ deleted_entries' \in Seq(Tombstone)
         /\ Len(deleted_entries') = n - 1
         /\ \A j \in 1..(n - 1) :
              deleted_entries'[j] = IF j < scan.at THEN deleted_entries[j]
                                    ELSE deleted_entries[j + 1]
  <1> DEFINE n == Len(deleted_entries)
  <1>1. deleted_entries \in Seq(Tombstone) /\ n \in Nat /\ scan.at \in 1..n
    BY DEF StoreInv, TypeOK, CleanupErase, Scanning
  <1>2. deleted_entries' = SubSeq(deleted_entries, 1, scan.at - 1)
                           \o SubSeq(deleted_entries, scan.at + 1, n)
    BY DEF CleanupErase
  <1>3. /\ deleted_entries' \in Seq(Tombstone)
        /\ Len(deleted_entries') = n - 1
        /\ \A j \in 1..(n - 1) :
             deleted_entries'[j] = IF j < scan.at THEN deleted_entries[j]
                                   ELSE deleted_entries[j + 1]
    BY ONLY <1>1, <1>2, EraseAt
  <1>4. Aged(deleted_entries[scan.at], scan.now)
    BY DEF CleanupErase, Scanned
  <1>. QED  BY <1>1, <1>3, <1>4

\* CleanupErase: the counter and the order survive an erasure in the middle.
LEMMA StoreInvErase ==
  ASSUME StoreInv, CleanupErase
  PROVE  StoreInv'
  <1> DEFINE s == deleted_entries
             at == scan.at
             n == Len(deleted_entries)
  <1>1. n \in Nat /\ at \in 1..n
    BY EraseDeque
  <1>2. /\ tombstone_count' = tombstone_count - 1
        /\ entries' = entries /\ clock' = clock /\ scan' = scan
    BY DEF CleanupErase
  <1>3. /\ s' \in Seq(Tombstone)
        /\ Len(s') = n - 1
        /\ \A i \in 1..(n - 1) : s'[i] = IF i < at THEN s[i] ELSE s[i + 1]
    BY EraseDeque
  <1>4. tombstone_count' = n - 1 /\ n - 1 \in Nat
    BY <1>1, <1>2 DEF StoreInv, CountMatchesDeque
  <1>5. TypeOK' /\ CountMatchesDeque'
    BY <1>2, <1>3, <1>4 DEF StoreInv, TypeOK, CountMatchesDeque
  <1>6. TombstonesInOrder'
    <2>1. \A i \in 1..(n - 1) :
            \E x \in 1..n : x = (IF i < at THEN i ELSE i + 1) /\ s'[i] = s[x]
      BY <1>1, <1>3
    <2>2. ASSUME NEW i \in 1..(n - 1), NEW j \in 1..(n - 1), i <= j
          PROVE  s'[i].delete_time <= s'[j].delete_time
      <3>1. PICK x \in 1..n : x = (IF i < at THEN i ELSE i + 1) /\ s'[i] = s[x]
        BY <2>1
      <3>2. PICK y \in 1..n : y = (IF j < at THEN j ELSE j + 1) /\ s'[j] = s[y]
        BY <2>1
      <3>3. x <= y
        BY <1>1, <2>2, <3>1, <3>2
      <3>. QED  BY <3>1, <3>2, <3>3 DEF StoreInv, TombstonesInOrder
    <2>3. \A i \in 1..(n - 1) : s'[i].delete_time <= clock'
      BY <1>2, <2>1 DEF StoreInv, TombstonesInOrder
    <2>. QED  BY <1>3, <2>2, <2>3 DEF TombstonesInOrder
  <1>7. ScanInPast'
    BY <1>2 DEF StoreInv, ScanInPast
  <1>. QED  BY <1>5, <1>6, <1>7 DEF StoreInv

\* The remaining steps move the iterator, take or release the lock, or let
\* time pass.
LEMMA StoreInvScan ==
  ASSUME StoreInv, CleanupBegin \/ CleanupSkip \/ CleanupEnd
  PROVE  StoreInv'
  <1>1. /\ entries' = entries /\ deleted_entries' = deleted_entries
        /\ tombstone_count' = tombstone_count /\ clock' = clock
    BY DEF CleanupBegin, CleanupSkip, CleanupEnd
  <1>2. CountMatchesDeque' /\ TombstonesInOrder'
    BY <1>1 DEF StoreInv, CountMatchesDeque, TombstonesInOrder
  <1>3. /\ scan \in [locked : BOOLEAN, now : Nat, at : Nat \ {0}]
        /\ clock \in Nat /\ scan.now <= clock
    BY DEF StoreInv, TypeOK, ScanInPast
  <1>4. /\ scan' \in [locked : BOOLEAN, now : Nat, at : Nat \ {0}]
        /\ scan'.now <= clock
    <2>1. CASE CleanupBegin
      BY <1>3, <2>1 DEF CleanupBegin
    <2>2. CASE CleanupSkip
      BY <1>3, <2>2 DEF CleanupSkip
    <2>3. CASE CleanupEnd
      BY <1>3, <2>3 DEF CleanupEnd, ScanIdle
    <2>. QED  BY <2>1, <2>2, <2>3
  <1>. QED  BY <1>1, <1>2, <1>4 DEF StoreInv, TypeOK, ScanInPast

\* Time passing makes no deletion younger than the clock.
LEMMA StoreInvTick ==
  ASSUME StoreInv, Tick
  PROVE  StoreInv'
  <1>1. clock \in Nat /\ clock' = clock + 1 /\ clock' \in Nat
    BY DEF StoreInv, TypeOK, Tick
  <1>2. /\ entries' = entries /\ deleted_entries' = deleted_entries
        /\ tombstone_count' = tombstone_count /\ scan' = scan
    BY DEF Tick
  <1>3. TypeOK' /\ CountMatchesDeque'
    BY <1>1, <1>2 DEF StoreInv, TypeOK, CountMatchesDeque
  <1>4. \A i \in 1..Len(deleted_entries) :
          deleted_entries[i].delete_time \in Nat
    <2>1. deleted_entries \in Seq(Tombstone)
      BY DEF StoreInv, TypeOK
    <2>2. \A i \in 1..Len(deleted_entries) : deleted_entries[i] \in Tombstone
      BY <2>1
    <2>. QED  BY <2>2 DEF Tombstone
  <1>5. TombstonesInOrder'
    <2>1. \A i \in 1..Len(deleted_entries) :
            deleted_entries[i].delete_time <= clock'
      BY <1>1, <1>4 DEF StoreInv, TombstonesInOrder
    <2>. QED  BY <1>2, <2>1 DEF StoreInv, TombstonesInOrder
  <1>6. ScanInPast'
    BY <1>1, <1>2 DEF StoreInv, ScanInPast, TypeOK
  <1>. QED  BY <1>3, <1>5, <1>6 DEF StoreInv

\* The invariant is inductive: one case for each kind of step of the store.
LEMMA StoreInvNext == StoreInv /\ [Next]_vars => StoreInv'
  <1> SUFFICES ASSUME StoreInv, [Next]_vars PROVE StoreInv'
    OBVIOUS
  <1>1. ASSUME NEW p \in Paths, NEW m \in FileMeta, putFile(p, m)
        PROVE  StoreInv'
    BY <1>1, StoreInvPut
  <1>2. ASSUME NEW p \in Paths, deletePath(p)
        PROVE  StoreInv'
    BY <1>2, StoreInvDelete
  <1>3. CASE Cleanup
    BY <1>3, StoreInvScan, StoreInvErase DEF Cleanup
  <1>4. CASE Tick
    BY <1>4, StoreInvTick
  <1>5. CASE UNCHANGED vars
    BY <1>5 DEF vars, StoreInv, TypeOK, CountMatchesDeque, TombstonesInOrder,
                ScanInPast
  <1>. QED  BY <1>1, <1>2, <1>3, <1>4, <1>5 DEF Next

\* The inductive invariant holds in every reachable state.
THEOREM StoreInvariant == Spec => []StoreInv
  BY StoreInvInit, StoreInvNext, PTL DEF Spec

\* Type correctness of the store: in particular the unsigned tombstone counter
\* never goes below zero.
THEOREM StoreTypeCorrect == Spec => []TypeOK
  BY StoreInvariant, PTL DEF StoreInv

\* The tombstone counter always equals the length of the deque, through
\* deletePath's overflow path and the cleanup scan.
THEOREM StoreCountCorrect == Spec => []CountMatchesDeque
  BY StoreInvariant, PTL DEF StoreInv

\* The deque is always ordered by time of deletion, and never ahead of the
\* clock.
THEOREM StoreOrderCorrect == Spec => []TombstonesInOrder
  BY StoreInvariant, PTL DEF StoreInv

\* What lies between two times is no further apart than they are.
LEMMA SpanInside ==
  ASSUME NEW first \in Nat, NEW early \in Nat, NEW late \in Nat,
         NEW now \in Nat, NEW span \in Nat,
         now - first <= span, first <= early, late <= now
  PROVE  late - early <= span
  OBVIOUS

\* deletePath keeps the bound: above the limit it popped what was aged, and
\* the oldest tombstone left is not.
LEMMA MemoryDelete ==
  ASSUME StoreInv, MemoryBounded, NEW p \in Paths, Found(p), deletePath(p)
  PROVE  MemoryBounded'
  <1> DEFINE s == Pushed(p)
  <1>1. /\ s \in Seq(Tombstone)
        /\ \A i \in 1..Len(s) : s[i].delete_time <= clock
        /\ \A i, j \in 1..Len(s) :
             i <= j => s[i].delete_time <= s[j].delete_time
    BY PushedProperties
  <1>2. PICK k \in 0..Len(s) :
          /\ deleted_entries' = SubSeq(s, k + 1, Len(s))
          /\ \/ Len(s) - k <= MAX_DELETED_ENTRIES
             \/ k < Len(s) => ~Aged(s[k + 1], clock)
    BY DeletePathDeque
  <1> HIDE DEF s
  <1>3. /\ Len(deleted_entries') = Len(s) - k
        /\ \A i \in 1..(Len(s) - k) : deleted_entries'[i] = s[i + k]
    BY <1>1, <1>2, DropFront
  <1>4. Len(s) \in Nat /\ k \in Nat /\ clock \in Nat
    BY <1>1 DEF StoreInv, TypeOK
  <1>5. \A i \in 1..Len(s) : s[i].delete_time \in Nat
    <2>1. \A i \in 1..Len(s) : s[i] \in Tombstone
      BY <1>1
    <2>. QED  BY <2>1 DEF Tombstone
  <1>6. ASSUME ~(Len(s) - k <= MAX_DELETED_ENTRIES),
               NEW i \in 1..(Len(s) - k), NEW j \in 1..(Len(s) - k)
        PROVE  deleted_entries'[j].delete_time - deleted_entries'[i].delete_time
                 <= TOMBSTONE_LIFETIME
    <2>1. k + 1 \in 1..Len(s) /\ i + k \in 1..Len(s) /\ j + k \in 1..Len(s)
      BY <1>4
    <2>2. k + 1 <= i + k /\ k < Len(s)
      BY <1>4
    <2>3. clock - s[k + 1].delete_time <= TOMBSTONE_LIFETIME
      BY <1>2, <1>4, <1>5, <1>6, <2>1, <2>2, StoreAssumption DEF Aged
    <2>4. /\ s[k + 1].delete_time <= s[i + k].delete_time
          /\ s[j + k].delete_time <= clock
      BY <1>1, <2>1, <2>2
    <2>5. /\ s[k + 1].delete_time \in Nat /\ s[i + k].delete_time \in Nat
          /\ s[j + k].delete_time \in Nat
      BY <1>5, <2>1
    <2>6. s[j + k].delete_time - s[i + k].delete_time <= TOMBSTONE_LIFETIME
      <3>1. TOMBSTONE_LIFETIME \in Nat
        BY StoreAssumption
      <3>. QED  BY ONLY <1>4, <2>3, <2>4, <2>5, <3>1, SpanInside
    <2>. QED  BY <1>3, <2>6
  <1>. QED  BY <1>3, <1>4, <1>6, StoreAssumption DEF MemoryBounded

\* An erasure leaves a part of the deque, and a shorter one.
LEMMA MemoryErase ==
  ASSUME StoreInv, MemoryBounded, CleanupErase
  PROVE  MemoryBounded'
  <1> DEFINE s == deleted_entries
             n == Len(deleted_entries)
  <1>1. /\ n \in Nat /\ scan.at \in 1..n
        /\ Len(s') = n - 1
        /\ \A j \in 1..(n - 1) :
             s'[j] = IF j < scan.at THEN s[j] ELSE s[j + 1]
    BY EraseDeque
  <1>2. \A i \in 1..(n - 1) : \E x \in 1..n : s'[i] = s[x]
    BY <1>1
  <1>3. ASSUME n - 1 > MAX_DELETED_ENTRIES,
               NEW i \in 1..(n - 1), NEW j \in 1..(n - 1)
        PROVE  s'[j].delete_time - s'[i].delete_time <= TOMBSTONE_LIFETIME
    <2>1. n > MAX_DELETED_ENTRIES
      BY <1>1, <1>3, StoreAssumption
    <2>2. PICK x \in 1..n : s'[i] = s[x]
      BY <1>2
    <2>3. PICK y \in 1..n : s'[j] = s[y]
      BY <1>2
    <2>. QED  BY <2>1, <2>2, <2>3 DEF MemoryBounded
  <1>. QED  BY <1>1, <1>3 DEF MemoryBounded

\* Above its limit the deque never spans more than one lifetime, whether or
\* not the cleanup thread runs.
THEOREM StoreMemoryBounded == Spec => []MemoryBounded
  <1>1. Init => MemoryBounded
    BY StoreAssumption DEF Init, MemoryBounded
  <1>2. StoreInv /\ MemoryBounded /\ [Next]_vars => MemoryBounded'
    <2> SUFFICES ASSUME StoreInv, MemoryBounded, [Next]_vars
                 PROVE  MemoryBounded'
      OBVIOUS
    <2>1. ASSUME deleted_entries' = deleted_entries
          PROVE  MemoryBounded'
      BY <2>1 DEF MemoryBounded
    <2>2. ASSUME NEW p \in Paths, deletePath(p)
          PROVE  MemoryBounded'
      <3>1. CASE Found(p)
        BY <2>2, <3>1, MemoryDelete
      <3>2. CASE ~Found(p)
        BY <2>1, <2>2, <3>2 DEF deletePath, vars
      <3>. QED  BY <3>1, <3>2
    <2>3. CASE CleanupErase
      BY <2>3, MemoryErase
    <2>4. ASSUME NEW p \in Paths, NEW m \in FileMeta, putFile(p, m)
          PROVE  MemoryBounded'
      BY <2>1, <2>4 DEF putFile
    <2>5. CASE Tick \/ CleanupBegin \/ CleanupSkip \/ CleanupEnd
      BY <2>1, <2>5 DEF Tick, CleanupBegin, CleanupSkip, CleanupEnd
    <2>6. CASE UNCHANGED vars
      BY <2>1, <2>6 DEF vars
    <2>. QED  BY <2>2, <2>3, <2>4, <2>5, <2>6 DEF Next, Cleanup
  <1>. QED  BY <1>1, <1>2, StoreInvariant, PTL DEF Spec

\* One step keeps the grace period: whatever leaves the deque is aged.
LEMMA GraceStep ==
  ASSUME StoreInv, [Next]_vars, NEW t \in Range(deleted_entries),
         t \notin Range(deleted_entries')
  PROVE  clock - t.delete_time > TOMBSTONE_LIFETIME
  <1> DEFINE n == Len(deleted_entries)
  <1>1. deleted_entries \in Seq(Tombstone) /\ n \in Nat
    BY DEF StoreInv, TypeOK
  <1>2. PICK i \in 1..n : t = deleted_entries[i]
    BY <1>1 DEF Range
  <1>3. ASSUME NEW p \in Paths, deletePath(p)
        PROVE  clock - t.delete_time > TOMBSTONE_LIFETIME
    <2>1. Found(p)
      BY <1>3 DEF deletePath, vars
    <2>2. /\ Pushed(p) \in Seq(Tombstone)
          /\ Len(Pushed(p)) = n + 1
          /\ Pushed(p)[i] = t
      BY <1>2, <2>1, PushedProperties
    <2>3. PICK k \in 0..Len(Pushed(p)) :
            /\ deleted_entries' = SubSeq(Pushed(p), k + 1, Len(Pushed(p)))
            /\ \A j \in 1..k : Aged(Pushed(p)[j], clock)
      BY <1>3, <2>1, DeletePathDeque
    <2>4. CASE i <= k
      BY <1>2, <2>2, <2>3, <2>4 DEF Aged
    <2>5. CASE ~(i <= k)
      <3>1. /\ deleted_entries' \in Seq(Tombstone)
            /\ Len(deleted_entries') = (n + 1) - k
            /\ \A j \in 1..((n + 1) - k) : deleted_entries'[j] = Pushed(p)[j + k]
        BY <2>2, <2>3, DropFront
      <3>2. i - k \in 1..((n + 1) - k) /\ (i - k) + k = i
        BY <1>1, <1>2, <2>2, <2>3, <2>5
      <3>3. deleted_entries'[i - k] = t
        BY <2>2, <3>1, <3>2
      <3>4. i - k \in DOMAIN deleted_entries'
        BY <3>1, <3>2
      <3>. QED  BY <3>3, <3>4 DEF Range
    <2>. QED  BY <2>4, <2>5
  <1>4. CASE CleanupErase
    <2>1. scan.at \in 1..n /\ Aged(deleted_entries[scan.at], scan.now)
      BY <1>4, EraseDeque
    <2>2. /\ deleted_entries' \in Seq(Tombstone)
          /\ Len(deleted_entries') = n - 1
          /\ \A j \in 1..(n - 1) :
               deleted_entries'[j] = IF j < scan.at THEN deleted_entries[j]
                                     ELSE deleted_entries[j + 1]
      BY <1>4, EraseDeque
    <2>3. CASE i = scan.at
      <3>1. t.delete_time \in Nat /\ scan.now \in Nat /\ clock \in Nat
        <4>1. t \in Tombstone
          BY <1>1, <1>2
        <4>. QED  BY <4>1 DEF Tombstone, StoreInv, TypeOK
      <3>. QED  BY <1>2, <2>1, <2>3, <3>1, StoreAssumption
                DEF Aged, StoreInv, ScanInPast
    <2>4. CASE i < scan.at
      <3>1. i \in 1..(n - 1) /\ deleted_entries'[i] = t
        BY <1>1, <1>2, <2>1, <2>2, <2>4
      <3>. QED  BY <2>2, <3>1 DEF Range
    <2>5. CASE i > scan.at
      <3>1. i - 1 \in 1..(n - 1) /\ ~(i - 1 < scan.at) /\ (i - 1) + 1 = i
        BY <1>1, <1>2, <2>1, <2>5
      <3>2. deleted_entries'[i - 1] = t
        BY <1>2, <2>2, <3>1
      <3>. QED  BY <2>2, <3>1, <3>2 DEF Range
    <2>. QED  BY <1>1, <1>2, <2>1, <2>3, <2>4, <2>5
  <1>5. ASSUME deleted_entries' = deleted_entries
        PROVE  FALSE
    BY <1>5
  <1>6. ASSUME NEW p \in Paths, NEW m \in FileMeta, putFile(p, m)
        PROVE  FALSE
    BY <1>5, <1>6 DEF putFile
  <1>7. CASE Tick \/ CleanupBegin \/ CleanupSkip \/ CleanupEnd
    BY <1>5, <1>7 DEF Tick, CleanupBegin, CleanupSkip, CleanupEnd
  <1>8. CASE UNCHANGED vars
    BY <1>5, <1>8 DEF vars
  <1>. QED  BY <1>3, <1>4, <1>6, <1>7, <1>8 DEF Next, Cleanup

\* Neither deletePath's overflow path nor the cleanup scan ever removes a
\* tombstone before its lifetime has passed.
THEOREM StoreGraceKept == Spec => GracePeriodKept
  <1>1. StoreInv /\ [Next]_vars =>
          [\A t \in Range(deleted_entries) :
             t \notin Range(deleted_entries')
               => clock - t.delete_time > TOMBSTONE_LIFETIME]_vars
    BY GraceStep
  <1>. QED  BY <1>1, StoreInvariant, PTL DEF Spec, GracePeriodKept
=============================================================================
