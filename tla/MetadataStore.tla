--------------------------- MODULE MetadataStore ---------------------------
(***************************************************************************)
(* The coordinator's metadata (coordinator/include/metadata_store.h): the  *)
(* active files, the deque of tombstones awaiting cleanup and the mutex    *)
(* that guards them.                                                       *)
(*                                                                         *)
(* Every method runs under mutex_ and is one step, except                  *)
(* cleanupTombstones: it holds the exclusive lock while its callback makes *)
(* one RPC per replica, so its scan is a sequence of steps during which no *)
(* other method can run.  The statistics read_count_ and write_count_ only *)
(* grow and nothing reads them; they are left out.                         *)
(***************************************************************************)
EXTENDS Integers, Sequences, Functions

CONSTANTS
  Paths,                 \* file names
  FileMeta,              \* what the coordinator records about a file
  NoFile,                \* no entry under this path
  TOMBSTONE_LIFETIME,    \* in ticks of the clock (5 minutes in the source)
  MAX_DELETED_ENTRIES,   \* deque length above which old tombstones go
  MaxClock,              \* bound: ticks of the steady clock
  MaxTombstones          \* bound: tombstones kept at a time

ASSUME StoreAssumption ==
  /\ NoFile \notin FileMeta
  /\ TOMBSTONE_LIFETIME \in Nat
  /\ MAX_DELETED_ENTRIES \in Nat
  /\ MaxClock \in Nat
  /\ MaxTombstones \in Nat

VARIABLES
  entries,           \* entries_: path -> FileMeta, or NoFile
  deleted_entries,   \* deleted_entries_: the tombstones, oldest first
  tombstone_count,   \* tombstone_count_
  clock,             \* std::chrono::steady_clock
  scan               \* cleanupTombstones: lock held, its "now", its iterator

vars == <<entries, deleted_entries, tombstone_count, clock, scan>>

Tombstone == [path : Paths, meta : FileMeta, delete_time : Nat]

TypeOK ==
  /\ entries \in [Paths -> FileMeta \cup {NoFile}]
  /\ deleted_entries \in Seq(Tombstone)
  /\ tombstone_count \in Nat
  /\ clock \in Nat
  /\ scan \in [locked : BOOLEAN, now : Nat, at : Nat \ {0}]

ScanIdle == [locked |-> FALSE, now |-> 0, at |-> 1]

Init ==
  /\ entries = [p \in Paths |-> NoFile]
  /\ deleted_entries = <<>>
  /\ tombstone_count = 0
  /\ clock = 0
  /\ scan = ScanIdle

(***************************************************************************)
(* Methods.                                                                *)
(***************************************************************************)

\* No exclusive lock is held across steps: a method may take mutex_.
Unlocked == ~scan.locked

\* entries_[path] = PathEntry{true, meta}: inserts, or overwrites in place.
putFile(p, m) ==
  /\ Unlocked
  /\ entries' = [entries EXCEPT ![p] = m]
  /\ UNCHANGED <<deleted_entries, tombstone_count, clock, scan>>

\* The pointer getFile returns, seen as what it points to; NoFile is nullptr.
\* The caller uses it after the unlock, when the entry may have gone.
getFile(p) == entries[p]

\* Mutant: the test "it != end() && is_file" is dropped.
Found_Unchecked(p) == p \in Paths

Found(p) == entries[p] # NoFile

\* Mutant: ">=" for ">", a tombstone goes one tick early.
Aged_AtLifetime(t, now) == now - t.delete_time >= TOMBSTONE_LIFETIME

Aged(t, now) == now - t.delete_time > TOMBSTONE_LIFETIME

\* kept is s without the k tombstones cleanupOldTombstones pops: it pops the
\* front while the front is aged, and gives none of them to a chunk deleter.
cleanupOldTombstones(s, k, kept) ==
  /\ \A i \in 1..k : Aged(s[i], clock)
  /\ k < Len(s) => ~Aged(s[k + 1], clock)
  /\ kept = SubSeq(s, k + 1, Len(s))

NewTombstone(p) ==
  [path |-> p, meta |-> entries[p], delete_time |-> clock]

\* Mutant: emplace_front for emplace_back.
Pushed_Front(p) == <<NewTombstone(p)>> \o deleted_entries

Pushed(p) == Append(deleted_entries, NewTombstone(p))

\* Mutant: the fetch_sub of cleanupOldTombstones is dropped.
CountAfter_NoSub(k) == tombstone_count + 1

\* fetch_sub(1) for each of the k tombstones popped, then fetch_add(1).
CountAfter(k) == tombstone_count - k + 1

\* Mutant: the limit is tested before the new tombstone counts.
OverLimit_Late(s) == Len(s) - 1 > MAX_DELETED_ENTRIES

OverLimit(s) == Len(s) > MAX_DELETED_ENTRIES

deletePath(p) ==
  /\ Unlocked
  /\ \/ ~Found(p) /\ UNCHANGED vars
     \/ /\ Found(p)
        /\ entries' = [entries EXCEPT ![p] = NoFile]
        /\ \E k \in 0..Len(Pushed(p)) :
             /\ \/ /\ OverLimit(Pushed(p))
                   /\ cleanupOldTombstones(Pushed(p), k, deleted_entries')
                \/ /\ ~OverLimit(Pushed(p))
                   /\ k = 0
                   /\ deleted_entries' = Pushed(p)
             /\ tombstone_count' = CountAfter(k)
        /\ UNCHANGED <<clock, scan>>

(***************************************************************************)
(* cleanupTombstones, called by the coordinator's cleanup thread.          *)
(***************************************************************************)

\* unique_lock, then "now" is sampled once for the whole scan.
CleanupBegin ==
  /\ Unlocked
  /\ scan' = [locked |-> TRUE, now |-> clock, at |-> 1]
  /\ UNCHANGED <<entries, deleted_entries, tombstone_count, clock>>

\* The tombstone under the iterator, while there is one.
Scanning == scan.locked /\ scan.at <= Len(deleted_entries)
Scanned == deleted_entries[scan.at]

\* Mutant: the ++it for a young tombstone is lost.
CleanupSkip_NoAdvance == Scanning /\ ~Aged(Scanned, scan.now) /\ UNCHANGED vars

\* Too young: ++it.
CleanupSkip ==
  /\ Scanning
  /\ ~Aged(Scanned, scan.now)
  /\ scan' = [scan EXCEPT !.at = @ + 1]
  /\ UNCHANGED <<entries, deleted_entries, tombstone_count, clock>>

\* chunkDeleter(meta) has returned: it = deleted_entries_.erase(it).
CleanupErase ==
  /\ Scanning
  /\ Aged(Scanned, scan.now)
  /\ deleted_entries' = SubSeq(deleted_entries, 1, scan.at - 1)
                        \o SubSeq(deleted_entries, scan.at + 1,
                                  Len(deleted_entries))
  /\ tombstone_count' = tombstone_count - 1
  /\ UNCHANGED <<entries, clock, scan>>

\* it == end(): the lock is released.
CleanupEnd ==
  /\ scan.locked
  /\ scan.at > Len(deleted_entries)
  /\ scan' = ScanIdle
  /\ UNCHANGED <<entries, deleted_entries, tombstone_count, clock>>

Cleanup == CleanupBegin \/ CleanupSkip \/ CleanupErase \/ CleanupEnd

\* The steady clock advances, whoever holds the lock.
Tick ==
  /\ clock < MaxClock
  /\ clock' = clock + 1
  /\ UNCHANGED <<entries, deleted_entries, tombstone_count, scan>>

Next ==
  \/ \E p \in Paths, m \in FileMeta : putFile(p, m)
  \/ \E p \in Paths : Len(deleted_entries) < MaxTombstones /\ deletePath(p)
  \/ Cleanup
  \/ Tick

Spec == Init /\ [][Next]_vars

\* The cleanup thread keeps running its loop and time keeps passing.
FairSpec == Spec /\ WF_vars(Cleanup) /\ WF_vars(Tick)

(***************************************************************************)
(* Properties.                                                             *)
(***************************************************************************)

\* The statistic the monitoring reads is the length of the deque, although
\* deletePath subtracts for the tombstones it drops before it adds its own:
\* the unsigned counter never wraps below zero.
CountMatchesDeque == tombstone_count = Len(deleted_entries)

\* The deque is in order of deletion, with no deletion in the future: this is
\* what lets cleanupOldTombstones stop at the first young tombstone.
TombstonesInOrder ==
  /\ \A i, j \in 1..Len(deleted_entries) :
       i <= j => deleted_entries[i].delete_time
                 <= deleted_entries[j].delete_time
  /\ \A i \in 1..Len(deleted_entries) :
       deleted_entries[i].delete_time <= clock

\* Neither the scan nor the overflow path removes a tombstone before its
\* lifetime has passed.
GracePeriodKept ==
  [][\A t \in Range(deleted_entries) :
       t \notin Range(deleted_entries')
         => clock - t.delete_time > TOMBSTONE_LIFETIME]_vars

\* What the limit is worth: a deque above MAX_DELETED_ENTRIES, whatever the
\* cleanup thread does or fails to do, holds only files deleted within one
\* lifetime, so the memory of deleted files does not grow with uptime.
MemoryBounded ==
  Len(deleted_entries) > MAX_DELETED_ENTRIES =>
    \A i, j \in 1..Len(deleted_entries) :
      deleted_entries[j].delete_time - deleted_entries[i].delete_time
        <= TOMBSTONE_LIFETIME

\* "Files pending chunk cleanup" (metadata_store.h): a tombstone leaves the
\* deque only in the scan that hands it to the chunk deleter.  deletePath's
\* overflow path breaks this.
TombstonesLeaveThroughDeleter ==
  [][\A t \in Range(deleted_entries) :
       t \notin Range(deleted_entries') => scan.locked]_vars

\* Every tombstone old enough before the clock's bound is eventually removed.
TombstonesEventuallyGo ==
  \A p \in Paths, m \in FileMeta, d \in 0..(MaxClock - TOMBSTONE_LIFETIME - 1) :
    LET t == [path |-> p, meta |-> m, delete_time |-> d]
    IN  t \in Range(deleted_entries) ~> t \notin Range(deleted_entries)
=============================================================================
