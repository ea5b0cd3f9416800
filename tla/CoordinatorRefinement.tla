----------------------- MODULE CoordinatorRefinement -----------------------
(***************************************************************************)
(* The coordinator implements FileSystem: every step of the handlers, of   *)
(* the cleanup and of the environment is a step of the map from paths to   *)
(* files, or nothing a client sees.                                        *)
(***************************************************************************)
EXTENDS CoordinatorDurability

(***************************************************************************)
(* What the clients see.                                                   *)
(***************************************************************************)

\* The views follow the requests.
LEMMA Views ==
  /\ \A w \in Puts : SeenPuts[w] = SeenPut(put[w])
  /\ \A r \in Gets : SeenGets[r] = SeenGet(get[r])
  /\ \A d \in Dels : SeenDels[d] = SeenDel(del[d])
  /\ put' = put => SeenPuts' = SeenPuts
  /\ get' = get => SeenGets' = SeenGets
  /\ del' = del => SeenDels' = SeenDels
  BY DEF SeenPuts, SeenGets, SeenDels

\* A step of one request changes one view.
LEMMA OneView ==
  /\ \A w \in Puts : (\A v \in Puts : v # w => put'[v] = put[v])
       => SeenPuts' = [SeenPuts EXCEPT ![w] = SeenPut(put'[w])]
  /\ \A r \in Gets : (\A s \in Gets : s # r => get'[s] = get[s])
       => SeenGets' = [SeenGets EXCEPT ![r] = SeenGet(get'[r])]
  /\ \A d \in Dels : (\A e \in Dels : e # d => del'[e] = del[e])
       => SeenDels' = [SeenDels EXCEPT ![d] = SeenDel(del'[d])]
  BY DEF SeenPuts, SeenGets, SeenDels

\* Writing back what is there changes nothing.
LEMMA SameView ==
  /\ \A w \in Puts : [SeenPuts EXCEPT ![w] = SeenPuts[w]] = SeenPuts
  /\ \A r \in Gets : [SeenGets EXCEPT ![r] = SeenGets[r]] = SeenGets
  BY DEF SeenPuts, SeenGets

\* An upload under way is pending, with its path and data.
LEMMA PutView ==
  ASSUME NEW x \in PutState
  PROVE  /\ x.pc = "idle" => SeenPut(x).answer = "idle"
         /\ x.pc \in {"receiving", "placing", "sending"} =>
              SeenPut(x) = [path |-> x.path, data |-> x.data,
                            answer |-> "pending"]
  BY DEF SeenPut, Answer

\* An answered upload has forgotten both.
LEMMA PutDoneView ==
  ASSUME NEW w \in Puts, NEW s, put \in [Puts -> PutState], PutDone(w, s)
  PROVE  SeenPuts' = [SeenPuts EXCEPT ![w] = [FS!NewPut EXCEPT !.answer = s]]
  <1>1. put'[w] = [IdlePut EXCEPT !.pc = "done", !.status = s]
        /\ \A v \in Puts : v # w => put'[v] = put[v]
    BY DEF PutDone
  <1>2. SeenPut(put'[w]) = [FS!NewPut EXCEPT !.answer = s]
    BY <1>1 DEF SeenPut, Answer, IdlePut, FS!NewPut
  <1>. QED  BY <1>1, <1>2, OneView

\* The records the views are made of, and their updates.
PutRec(path, data, answer) ==
  [path |-> path, data |-> data, answer |-> answer]
GetRec(path, file, overtaken, shortened, data, answer) ==
  [path |-> path, file |-> file, overtaken |-> overtaken,
   shortened |-> shortened, data |-> data, answer |-> answer]

DelRec(path, answer) == [path |-> path, answer |-> answer]

Begun(r, path, data) ==
  [r EXCEPT !.path = path, !.answer = "pending", !.data = data]
Answering(r, answer, data) == [r EXCEPT !.answer = answer, !.data = data]
Finding(r, path) == [r EXCEPT !.path = path, !.answer = "pending"]
Opening(r, file) == [r EXCEPT !.file = file]
Overtaking(r, b) == [r EXCEPT !.overtaken = b]
Shortening(r, h, b) == [r EXCEPT !.shortened = h, !.overtaken = b]

\* An upload that begins.
LEMMA PutRecords ==
  ASSUME NEW p, NEW d, NEW a, NEW q, NEW e
  PROVE  Begun(PutRec(p, d, a), q, e) = PutRec(q, e, "pending")
  <1>1. [PutRec(p, d, a) EXCEPT !.path = q] = PutRec(q, d, a)
    BY DEF PutRec
  <1>2. [PutRec(q, d, a) EXCEPT !.answer = "pending"] = PutRec(q, d, "pending")
    BY DEF PutRec
  <1>3. [PutRec(q, d, "pending") EXCEPT !.data = e] = PutRec(q, e, "pending")
    BY DEF PutRec
  <1>4. Begun(PutRec(p, d, a), q, e)
          = [[[PutRec(p, d, a) EXCEPT !.path = q]
                EXCEPT !.answer = "pending"] EXCEPT !.data = e]
    BY DEF Begun
  <1>. QED  BY <1>1, <1>2, <1>3, <1>4

\* A download that is answered.
LEMMA AnsweringRec ==
  ASSUME NEW p, NEW f, NEW o, NEW h, NEW d, NEW a, NEW e, NEW b
  PROVE  Answering(GetRec(p, f, o, h, d, a), b, e) = GetRec(p, f, o, h, e, b)
  <1> DEFINE r == GetRec(p, f, o, h, d, a)
  <1>1. [r EXCEPT !.answer = b] = GetRec(p, f, o, h, d, b)
    BY DEF GetRec
  <1>2. [GetRec(p, f, o, h, d, b) EXCEPT !.data = e] = GetRec(p, f, o, h, e, b)
    BY DEF GetRec
  <1> HIDE DEF r
  <1>3. Answering(r, b, e) = [[r EXCEPT !.answer = b] EXCEPT !.data = e]
    BY DEF Answering
  <1>. QED  BY <1>1, <1>2, <1>3 DEF r

\* A download that finds its name.
LEMMA FindingRec ==
  ASSUME NEW p, NEW f, NEW o, NEW h, NEW d, NEW a, NEW q
  PROVE  Finding(GetRec(p, f, o, h, d, a), q) = GetRec(q, f, o, h, d, "pending")
  <1> DEFINE r == GetRec(p, f, o, h, d, a)
  <1>1. [r EXCEPT !.path = q] = GetRec(q, f, o, h, d, a)
    BY DEF GetRec
  <1>2. [GetRec(q, f, o, h, d, a) EXCEPT !.answer = "pending"]
          = GetRec(q, f, o, h, d, "pending")
    BY DEF GetRec
  <1> HIDE DEF r
  <1>3. Finding(r, q) = [[r EXCEPT !.path = q] EXCEPT !.answer = "pending"]
    BY DEF Finding
  <1>. QED  BY <1>1, <1>2, <1>3 DEF r

\* A download that opens a file.
LEMMA OpeningRec ==
  ASSUME NEW p, NEW f, NEW o, NEW h, NEW d, NEW a, NEW g
  PROVE  Opening(GetRec(p, f, o, h, d, a), g) = GetRec(p, g, o, h, d, a)
  BY DEF GetRec, Opening

\* A download that is overtaken.
LEMMA OvertakingRec ==
  ASSUME NEW p, NEW f, NEW o, NEW h, NEW d, NEW a, NEW b
  PROVE  Overtaking(GetRec(p, f, o, h, d, a), b) = GetRec(p, f, b, h, d, a)
  BY DEF GetRec, Overtaking

\* A download that is served a shortened chunk.
LEMMA ShorteningRec ==
  ASSUME NEW p, NEW f, NEW o, NEW h, NEW d, NEW a, NEW g, NEW b
  PROVE  Shortening(GetRec(p, f, o, h, d, a), g, b) = GetRec(p, f, b, g, d, a)
  <1> DEFINE r == GetRec(p, f, o, h, d, a)
  <1>1. [r EXCEPT !.shortened = g] = GetRec(p, f, o, g, d, a)
    BY DEF GetRec
  <1>2. [GetRec(p, f, o, g, d, a) EXCEPT !.overtaken = b]
          = GetRec(p, f, b, g, d, a)
    BY DEF GetRec
  <1> HIDE DEF r
  <1>3. Shortening(r, g, b) = [[r EXCEPT !.shortened = g] EXCEPT !.overtaken = b]
    BY DEF Shortening
  <1>. QED  BY <1>1, <1>2, <1>3 DEF r

\* What a download shows: found, reading, answered.
FoundGet(path, o) == GetRec(path, NoFile, o, FALSE, <<>>, "pending")
ReadingGet(path, file, o, h) == GetRec(path, file, o, h, <<>>, "pending")
AnsweredGet(data, answer) == GetRec(NoFile, NoFile, FALSE, FALSE, data, answer)

\* A deletion overtakes a download that has found its file.
LEMMA FoundOvertaken ==
  ASSUME NEW p, NEW o, NEW b
  PROVE  Overtaking(FoundGet(p, o), b) = FoundGet(p, b)
  <1>1. PICK no : no = FALSE
    OBVIOUS
  <1>2. Overtaking(GetRec(p, NoFile, o, no, <<>>, "pending"), b)
          = GetRec(p, NoFile, b, no, <<>>, "pending")
    BY OvertakingRec
  <1>. QED  BY <1>1, <1>2, Zenon DEF FoundGet

\* A download opens the file it has found.
LEMMA FoundOpened ==
  ASSUME NEW p, NEW o, NEW m
  PROVE  Opening(FoundGet(p, o), m) = ReadingGet(p, m, o, FALSE)
  <1>1. PICK no : no = FALSE
    OBVIOUS
  <1>2. Opening(GetRec(p, NoFile, o, no, <<>>, "pending"), m)
          = GetRec(p, m, o, no, <<>>, "pending")
    BY OpeningRec
  <1>. QED  BY <1>1, <1>2, Zenon DEF FoundGet, ReadingGet

\* A download that is reading loses the file's memory.
LEMMA ReadingOvertaken ==
  ASSUME NEW p, NEW m, NEW o, NEW h
  PROVE  Overtaking(ReadingGet(p, m, o, h), TRUE) = ReadingGet(p, m, TRUE, h)
  <1>1. PICK yes : yes = TRUE
    OBVIOUS
  <1>2. Overtaking(GetRec(p, m, o, h, <<>>, "pending"), yes)
          = GetRec(p, m, yes, h, <<>>, "pending")
    BY OvertakingRec
  <1>. QED  BY <1>1, <1>2, Zenon DEF ReadingGet

\* A download that is reading is served a shortened chunk.
LEMMA ReadingShortened ==
  ASSUME NEW p, NEW m, NEW o, NEW h, NEW b
  PROVE  Shortening(ReadingGet(p, m, o, h), TRUE, b) = ReadingGet(p, m, b, TRUE)
  <1>1. PICK yes : yes = TRUE
    OBVIOUS
  <1>2. Shortening(GetRec(p, m, o, h, <<>>, "pending"), yes, b)
          = GetRec(p, m, b, yes, <<>>, "pending")
    BY ShorteningRec
  <1>. QED  BY <1>1, <1>2, Zenon DEF ReadingGet

\* What it delivers, and whether a deletion or an upload overtook it.
Delivered(x) == IF x.status = "OK" THEN x.data ELSE <<>>
Overtaken(x) == x.dangling \/ x.ub

\* An answered download shows its answer and the data alone.
LEMMA NewGetAnswer ==
  ASSUME NEW s, NEW e
  PROVE  Answering(FS!NewGet, s, e) = AnsweredGet(e, s)
  <1>1. PICK no \in {FALSE} : TRUE
    OBVIOUS
  <1>2. FS!NewGet = GetRec(NoFile, NoFile, no, no, <<>>, "idle")
    BY <1>1, Zenon DEF FS!NewGet, GetRec
  <1>3. \A b, d : Answering(GetRec(NoFile, NoFile, b, b, <<>>, d), s, e)
                    = GetRec(NoFile, NoFile, b, b, e, s)
    BY AnsweringRec
  <1>. QED  BY <1>1, <1>2, <1>3, Zenon DEF AnsweredGet

\* A download that found its name shows the name.
LEMMA NewGetFound ==
  ASSUME NEW p
  PROVE  Finding(FS!NewGet, p) = FoundGet(p, FALSE)
  <1>1. PICK no \in {FALSE} : TRUE
    OBVIOUS
  <1>2. FS!NewGet = GetRec(NoFile, NoFile, no, no, <<>>, "idle")
    BY <1>1, Zenon DEF FS!NewGet, GetRec
  <1>3. \A b, a : Finding(GetRec(NoFile, NoFile, b, b, <<>>, a), p)
                    = GetRec(p, NoFile, b, b, <<>>, "pending")
    BY FindingRec
  <1>. QED  BY <1>1, <1>2, <1>3, Zenon DEF FoundGet

\* What a download shows of itself.
LEMMA GetView ==
  ASSUME NEW x \in GetState, x.pc # "done" => x.status = "none"
  PROVE  /\ x.pc = "idle" => SeenGet(x) = FS!NewGet
         /\ x.pc = "found" /\ ~x.ub /\ ~x.short =>
              SeenGet(x) = FoundGet(x.path, x.dangling)
         /\ x.pc = "reading" =>
              SeenGet(x) = ReadingGet(x.path, x.meta, Overtaken(x), x.short)
         /\ x.pc = "done" => SeenGet(x) = AnsweredGet(Delivered(x), x.status)
  <1>1. x.dangling \in BOOLEAN /\ x.ub \in BOOLEAN /\ x.short \in BOOLEAN
    BY DEF GetState
  <1>2. CASE x.pc = "idle"
    BY <1>2 DEF SeenGet, Answer, FS!NewGet
  <1>3. CASE x.pc = "found"
    <2>1. ~x.ub => (x.dangling \/ x.ub) = x.dangling
      BY <1>1
    <2>2. ~x.short => x.short = FALSE
      BY <1>1
    <2>. QED  BY <1>3, <2>1, <2>2 DEF SeenGet, Answer, FoundGet, GetRec
  <1>4. CASE x.pc = "reading"
    BY <1>1, <1>4 DEF SeenGet, Answer, ReadingGet, GetRec, Overtaken
  <1>5. CASE x.pc = "done"
    BY <1>5 DEF SeenGet, Answer, AnsweredGet, GetRec, Delivered
  <1>. QED  BY <1>2, <1>3, <1>4, <1>5 DEF GetState

\* What a deletion shows.
LEMMA DelView ==
  ASSUME NEW x \in DelState
  PROVE  /\ x.pc = "idle" => SeenDel(x) = FS!NewDel
         /\ x.pc = "found" =>
              SeenDel(x) = [path |-> x.path, answer |-> "pending"]
         /\ x.pc = "done" =>
              SeenDel(x) = [FS!NewDel EXCEPT !.answer = x.status]
  BY DEF SeenDel, Answer, FS!NewDel

\* No fault but a short write damages anything.
LEMMA DamageOnly ==
  ASSUME TypeInv
  PROVE  /\ faults' = faults => Damaged' = Damaged
         /\ \A k \in FaultKinds : k # "write" /\ Registry!Fault(k)
              => Damaged' = Damaged
         /\ Registry!Fault("write") => Damaged' = TRUE
  <1>1. faults \in [FaultKinds -> Nat] /\ "write" \in FaultKinds
    BY CoordinatorAssumption DEF TypeInv, RP!RegistryInv, RP!TypeOK
  <1>2. ASSUME NEW k \in FaultKinds, k # "write", Registry!Fault(k)
        PROVE  faults'["write"] = faults["write"]
    BY <1>1, <1>2 DEF Registry!Fault
  <1>3. ASSUME Registry!Fault("write")
        PROVE  faults'["write"] > 0
    BY <1>1, <1>3 DEF Registry!Fault
  <1>4. Registry!Fault("write") => Damaged' = TRUE
    BY <1>3 DEF Damaged
  <1>. QED  BY <1>2, <1>4 DEF Damaged

\* A step nobody sees.
LEMMA NothingSeen ==
  ASSUME entries' = entries, Damaged' = Damaged, SeenPuts' = SeenPuts,
         SeenGets' = SeenGets, SeenDels' = SeenDels
  PROVE  FS!Next
  BY DEF FS!Next, FS!Internal, FS!vars

(***************************************************************************)
(* Uploads.                                                                *)
(***************************************************************************)

\* The lookup of an upload.
LEMMA RefPutBegin ==
  ASSUME TypeInv, NEW w \in Puts, NEW p \in Paths, NEW c \in Contents,
         PutBegin(w, p, c)
  PROVE  FS!PutBegin(w, p)
  <1>1. /\ entries' = entries /\ get' = get /\ del' = del /\ faults' = faults
        /\ put \in [Puts -> PutState] /\ put[w].pc = "idle"
    BY DEF PutBegin, storeVars, TypeInv, PutInv
  <1>2. /\ SeenPuts[w].answer = "idle" /\ Damaged' = Damaged
        /\ SeenGets' = SeenGets /\ SeenDels' = SeenDels
    BY <1>1, Views, PutView, DamageOnly
  <1>3. CASE NameTaken(p) /\ PutDone(w, "ALREADY_EXISTS")
    BY <1>1, <1>2, <1>3, PutDoneView
    DEF FS!PutBegin, FS!PutAnswer, NameTaken, Store!getFile
  <1>4. CASE /\ ~NameTaken(p)
             /\ put' = [put EXCEPT ![w].pc = "receiving", ![w].path = p,
                                   ![w].data = c]
    <2> DEFINE x == [path |-> p, data |-> c, answer |-> "pending"]
    <2>1. /\ put'[w].pc = "receiving" /\ put'[w].path = p /\ put'[w].data = c
          /\ \A v \in Puts : v # w => put'[v] = put[v]
      BY <1>1, <1>4 DEF PutState
    <2>2. SeenPut(put'[w]) = x
      BY <2>1 DEF SeenPut, Answer
    <2>3. SeenPuts' = [SeenPuts EXCEPT ![w] = x] /\ SeenPuts'[w] = x
      BY <2>1, <2>2, OneView DEF SeenPuts
    <2>4. [SeenPuts EXCEPT ![w].path = p, ![w].answer = "pending",
                           ![w].data = c] = [SeenPuts EXCEPT ![w] = x]
      <3>1. PICK a, b, e : SeenPuts[w] = PutRec(a, b, e)
        BY Views DEF SeenPut, PutRec
      <3>2. [SeenPuts[w] EXCEPT !.path = p, !.answer = "pending", !.data = c]
              = PutRec(p, c, "pending")
        <4>1. Begun(SeenPuts[w], p, c) = PutRec(p, c, "pending")
          BY <3>1, PutRecords
        <4>. QED  BY <4>1 DEF Begun
      <3>3. [SeenPuts EXCEPT ![w].path = p, ![w].answer = "pending",
                             ![w].data = c]
              = [SeenPuts EXCEPT ![w] = [SeenPuts[w] EXCEPT
                   !.path = p, !.answer = "pending", !.data = c]]
        OBVIOUS
      <3>. QED  BY <3>2, <3>3 DEF PutRec
    <2>5. SeenPuts' = [SeenPuts EXCEPT ![w].path = p, ![w].answer = "pending",
                                       ![w].data = SeenPuts'[w].data]
      BY <2>3, <2>4
    <2>6. entries[p] = NoFile
      BY <1>4 DEF NameTaken, Store!getFile
    <2>. QED  BY <1>1, <1>2, <2>5, <2>6 DEF FS!PutBegin
  <1>. QED  BY <1>3, <1>4 DEF PutBegin

\* Only the request's own view could change, and it does not.
LEMMA PutUnseen ==
  ASSUME TypeInv, NEW w \in Puts, entries' = entries, Damaged' = Damaged,
         get' = get, del' = del, \A v \in Puts : v # w => put'[v] = put[v],
         put[w].pc \in {"receiving", "placing", "sending"},
         put'[w].pc \in {"receiving", "placing", "sending"},
         put'[w].path = put[w].path, put'[w].data = put[w].data
  PROVE  FS!Next
  <1>1. SeenPut(put'[w]) = SeenPut(put[w])
    BY DEF SeenPut, Answer
  <1>2. SeenPuts' = SeenPuts
    BY <1>1, OneView, Views, SameView
  <1>. QED  BY <1>2, Views, NothingSeen

\* The stream ends, or breaks and truncates the upload.
LEMMA RefPutReceive ==
  ASSUME TypeInv, NEW w \in Puts, PutReceive(w)
  PROVE  FS!Next
  <1>1. /\ entries' = entries /\ get' = get /\ del' = del
        /\ put \in [Puts -> PutState] /\ put[w].pc = "receiving"
        /\ put[w].data \in Data
    BY DEF PutReceive, storeVars, TypeInv, PutInv, PutState
  <1>2. CASE put' = [put EXCEPT ![w].pc = "placing"] /\ NoFault
    <2>1. /\ put'[w].pc = "placing" /\ put'[w].path = put[w].path
          /\ put'[w].data = put[w].data
          /\ \A v \in Puts : v # w => put'[v] = put[v]
      BY <1>1, <1>2 DEF PutState
    <2>. QED  BY <1>1, <1>2, <2>1, DamageOnly, PutUnseen DEF NoFault
  <1>3. ASSUME Registry!Fault("stream"),
               NEW x \in Prefixes(put[w].data) \ {put[w].data},
               put' = [put EXCEPT ![w].pc = "placing", ![w].data = x]
        PROVE  FS!Next
    <2>1. PICK n \in 0..Len(put[w].data) : x = SubSeq(put[w].data, 1, n)
      BY <1>3 DEF Prefixes
    <2>2. n \in 0..(Len(put[w].data) - 1)
      <3>1. PICK U : put[w].data \in Seq(U)
        BY <1>1, DataSeq
      <3>2. SubSeq(put[w].data, 1, Len(put[w].data)) = put[w].data
        BY <3>1, SubSeqFull
      <3>3. Len(put[w].data) \in Nat
        BY <3>1
      <3>. QED  BY <1>3, <2>1, <3>2, <3>3
    <2>3. /\ put'[w].pc = "placing" /\ put'[w].path = put[w].path
          /\ put'[w].data = x
          /\ \A v \in Puts : v # w => put'[v] = put[v]
      BY <1>1, <1>3 DEF PutState
    <2>4. SeenPuts[w] = [path |-> put[w].path, data |-> put[w].data,
                         answer |-> "pending"]
      BY <1>1, Views, PutView
    <2>5. SeenPut(put'[w]) = [path |-> put[w].path, data |-> x,
                              answer |-> "pending"]
      BY <2>3 DEF SeenPut, Answer
    <2>6. SeenPuts' = [SeenPuts EXCEPT ![w].data = x]
      <3>1. [SeenPuts[w] EXCEPT !.data = x] = SeenPut(put'[w])
        BY <2>4, <2>5
      <3>2. [SeenPuts EXCEPT ![w].data = x]
              = [SeenPuts EXCEPT ![w] = [SeenPuts[w] EXCEPT !.data = x]]
        OBVIOUS
      <3>3. SeenPuts' = [SeenPuts EXCEPT ![w] = SeenPut(put'[w])]
        BY <2>3, OneView
      <3>. QED  BY <3>1, <3>2, <3>3
    <2>7. "stream" \in FaultKinds
      BY CoordinatorAssumption
    <2>8. Damaged' = Damaged /\ SeenGets' = SeenGets /\ SeenDels' = SeenDels
      BY <1>1, <1>3, <2>7, DamageOnly, Views
    <2>9. FS!PutTruncate(w)
      <3>1. SeenPuts[w].data = put[w].data /\ SeenPuts[w].answer = "pending"
        BY <2>4
      <3>2. SeenPuts' = [SeenPuts EXCEPT
                           ![w].data = SubSeq(SeenPuts[w].data, 1, n)]
        BY <2>1, <2>6, <3>1
      <3>3. n \in 0..(Len(SeenPuts[w].data) - 1)
        BY <2>2, <3>1
      <3>. QED  BY <1>1, <2>8, <3>1, <3>2, <3>3 DEF FS!PutTruncate
    <2>. QED  BY <2>9 DEF FS!Next
  <1>. QED  BY <1>2, <1>3 DEF PutReceive

\* An upload that fails.
LEMMA RefPutFail ==
  ASSUME TypeInv, NEW w \in Puts, entries' = entries, get' = get, del' = del,
         faults' = faults,
         \/ put[w].pc = "idle" /\ PutDone(w, "INVALID_ARGUMENT")
         \/ put[w].pc \in {"placing", "sending"} /\ PutDone(w, "INTERNAL")
  PROVE  FS!Next
  <1>1. put \in [Puts -> PutState]
    BY DEF TypeInv, PutInv
  <1>2. /\ Damaged' = Damaged /\ SeenGets' = SeenGets /\ SeenDels' = SeenDels
        /\ SeenPuts[w] = SeenPut(put[w])
    BY Views, DamageOnly
  <1>3. FS!PutFail(w)
    BY <1>1, <1>2, PutView, PutDoneView DEF FS!PutFail, FS!PutAnswer
  <1>. QED  BY <1>3 DEF FS!Next

\* Placing a chunk is not seen, failing to is.
LEMMA RefPutPlace ==
  ASSUME TypeInv, NEW w \in Puts, PutPlace(w)
  PROVE  FS!Next
  <1>1. put \in [Puts -> PutState] /\ put[w].pc = "placing"
    BY DEF PutPlace, TypeInv, PutInv
  <1>2. PICK ids \in Registry!Selections :
          /\ Registry!selectNodesForReplication(ids)
          /\ \/ ids = <<>> /\ PutDone(w, "INTERNAL")
             \/ /\ ids # <<>>
                /\ put' = [put EXCEPT
                     ![w].pc = "sending",
                     ![w].chunks = Append(@, [chunk_id |-> chunk_id_counter,
                                              node_ids |-> ids]),
                     ![w].tasks = [i \in DOMAIN ids |-> "sent"]]
    BY DEF PutPlace
  <1>3. /\ entries' = entries /\ get' = get /\ del' = del /\ faults' = faults
    BY <1>2 DEF PutPlace, storeVars, Registry!selectNodesForReplication
  <1>4. CASE PutDone(w, "INTERNAL")
    BY <1>1, <1>3, <1>4, RefPutFail
  <1>5. CASE ids # <<>> /\ ~PutDone(w, "INTERNAL")
    <2>1. /\ put'[w].pc = "sending" /\ put'[w].data = put[w].data
          /\ put'[w].path = put[w].path
          /\ \A v \in Puts : v # w => put'[v] = put[v]
      BY <1>1, <1>2, <1>5 DEF PutState
    <2>. QED  BY <1>1, <1>3, <2>1, DamageOnly, PutUnseen
  <1>. QED  BY <1>2, <1>4, <1>5

\* A replica is written: at most a short write is worth telling.
LEMMA RefPutTask ==
  ASSUME TypeInv, NEW w \in Puts, NEW i \in DOMAIN put[w].tasks, PutTask(w, i)
  PROVE  FS!Next
  <1>1. /\ entries' = entries /\ get' = get /\ del' = del
        /\ put \in [Puts -> PutState] /\ put[w].pc = "sending"
    BY DEF PutTask, storeVars, TypeInv, PutInv
  <1>2. PICK s : TaskResult(w, i, s)
    BY DEF PutTask
  <1>3. put' = [put EXCEPT ![w].tasks[i] = s]
    BY <1>2 DEF TaskResult
  <1>4. /\ put'[w].pc = "sending" /\ put'[w].data = put[w].data
        /\ put'[w].path = put[w].path
        /\ \A v \in Puts : v # w => put'[v] = put[v]
    BY <1>1, <1>3 DEF PutState
  <1>5. CASE Registry!Fault("write")
    <2>1. SeenPut(put'[w]) = SeenPut(put[w])
      BY <1>1, <1>4 DEF SeenPut, Answer
    <2>2. SeenPuts' = SeenPuts
      BY <1>4, <2>1, OneView, Views, SameView
    <2>3. FS!Damage
      BY <1>1, <1>5, <2>2, DamageOnly, Views DEF FS!Damage
    <2>. QED  BY <2>3 DEF FS!Next
  <1>6. CASE faults' = faults \/ Registry!Fault("call")
    <2>1. "call" \in FaultKinds
      BY CoordinatorAssumption
    <2>2. Damaged' = Damaged
      BY <1>6, <2>1, DamageOnly
    <2>. QED  BY <1>1, <1>4, <2>2, PutUnseen
  <1>. QED  BY <1>5, <1>6 DEF PutTask, NoFault

\* So it is with the end of a chunk's tasks.
LEMMA RefPutJoin ==
  ASSUME TypeInv, NEW w \in Puts, PutJoin(w)
  PROVE  FS!Next
  <1>1. /\ entries' = entries /\ get' = get /\ del' = del /\ faults' = faults
        /\ put \in [Puts -> PutState] /\ put[w].pc = "sending"
    BY DEF PutJoin, storeVars, TypeInv, PutInv
  <1>2. CASE PutDone(w, "INTERNAL")
    BY <1>1, <1>2, RefPutFail
  <1>3. CASE put' = [put EXCEPT ![w].pc = "placing", ![w].tasks = <<>>]
    <2>1. /\ put'[w].pc = "placing" /\ put'[w].data = put[w].data
          /\ put'[w].path = put[w].path
          /\ \A v \in Puts : v # w => put'[v] = put[v]
      BY <1>1, <1>3 DEF PutState
    <2>. QED  BY <1>1, <2>1, DamageOnly, PutUnseen
  <1>. QED  BY <1>2, <1>3 DEF PutJoin

\* The commit is the moment the file appears.
LEMMA RefPutCommit ==
  ASSUME TypeInv, NEW w \in Puts, PutCommit(w)
  PROVE  FS!Next
  <1> DEFINE m == [data |-> put[w].data, chunks |-> put[w].chunks]
             p == put[w].path
  <1>1. /\ entries' = [entries EXCEPT ![p] = m]
        /\ get' = get /\ del' = del /\ faults' = faults
        /\ PutDone(w, "OK")
    BY DEF PutCommit, Store!putFile
  <1>2. /\ p \in Paths /\ entries \in [Paths -> FileMeta \cup {NoFile}]
        /\ put \in [Puts -> PutState] /\ put[w].pc = "placing"
    BY DEF TypeInv, PutInv, PutShape, PutCommit, SP!StoreInv, SP!TypeOK
  <1>3. m \in FileMeta /\ m # NoFile
    BY CommitMeta, CoordinatorAssumption DEF TypeInv
  <1>4. entries'[p] = m /\ \A q \in Paths \ {p} : entries'[q] = entries[q]
    BY <1>1, <1>2
  <1>5. SeenPuts[w] = [path |-> p, data |-> put[w].data, answer |-> "pending"]
    BY <1>2, Views, PutView
  <1>6. /\ Damaged' = Damaged /\ SeenGets' = SeenGets /\ SeenDels' = SeenDels
        /\ SeenPuts' = [SeenPuts EXCEPT ![w] = [FS!NewPut EXCEPT !.answer = "OK"]]
    BY <1>1, <1>2, Views, DamageOnly, PutDoneView
  <1>7. FS!PutCommit(w)
    BY <1>3, <1>4, <1>5, <1>6 DEF FS!PutCommit, FS!PutAnswer, ContentOf
  <1>. QED  BY <1>7 DEF FS!Next

(***************************************************************************)
(* Downloads.                                                              *)
(***************************************************************************)

\* What the invariant says of one download and of its view.
LEMMA GetFacts ==
  ASSUME TypeInv, NEW r \in Gets
  PROVE  /\ get[r] \in GetState
         /\ get[r].pc # "done" => get[r].status = "none"
         /\ SeenGets[r] = SeenGet(get[r])
         /\ get[r].dangling \in BOOLEAN /\ get[r].short \in BOOLEAN
  BY GetFields, Views DEF GetShape, GetState

\* A download that is answered.
LEMMA GetDoneView ==
  ASSUME TypeInv, TypeInv', NEW r \in Gets, get'[r].pc = "done",
         \A s \in Gets : s # r => get'[s] = get[s]
  PROVE  /\ FS!GetAnswer(r, get'[r].status, Delivered(get'[r]))
         /\ SeenGets'[r].data = Delivered(get'[r])
  <1>1. get'[r] \in GetState
    BY DEF TypeInv, GetInv
  <1>2. SeenGet(get'[r]) = AnsweredGet(Delivered(get'[r]), get'[r].status)
    BY <1>1, GetView
  <1>3. SeenGets' = [SeenGets EXCEPT ![r] = SeenGet(get'[r])]
        /\ SeenGets'[r] = SeenGet(get'[r])
    BY OneView DEF SeenGets
  <1>4. SeenGet(get'[r])
          = Answering(FS!NewGet, get'[r].status, Delivered(get'[r]))
    BY <1>2, NewGetAnswer
  <1>5. FS!GetAnswer(r, get'[r].status, Delivered(get'[r]))
    BY <1>3, <1>4 DEF FS!GetAnswer, Answering
  <1>6. SeenGets'[r].data = Delivered(get'[r])
    BY <1>2, <1>3 DEF AnsweredGet, GetRec
  <1>. QED  BY <1>5, <1>6

\* The lookup of a download.
LEMMA RefGetBegin ==
  ASSUME TypeInv, TypeInv', NEW r \in Gets, NEW p \in Paths, GetBegin(r, p)
  PROVE  FS!GetBegin(r, p)
  <1>1. /\ entries' = entries /\ put' = put /\ del' = del /\ faults' = faults
        /\ get \in [Gets -> GetState] /\ get[r].pc = "idle"
    BY DEF GetBegin, storeVars, TypeInv, GetInv
  <1>2. /\ Damaged' = Damaged /\ SeenPuts' = SeenPuts /\ SeenDels' = SeenDels
    BY <1>1, Views, DamageOnly
  <1>3. SeenGets[r] = FS!NewGet /\ SeenGets[r].answer = "idle"
    <2>1. SeenGets[r] = FS!NewGet
      BY <1>1, GetFacts, GetView
    <2>. QED  BY <2>1 DEF FS!NewGet
  <1>4. CASE entries[p] = NoFile /\ GetDone(r, "NOT_FOUND")
    <2>1. /\ get'[r].pc = "done" /\ get'[r].status = "NOT_FOUND"
          /\ \A s \in Gets : s # r => get'[s] = get[s]
      BY <1>1, <1>4 DEF GetDone, GetState
    <2>2. FS!GetAnswer(r, "NOT_FOUND", <<>>)
      BY <2>1, GetDoneView DEF Delivered
    <2>. QED  BY <1>1, <1>2, <1>3, <1>4, <2>2 DEF FS!GetBegin
  <1>5. CASE /\ entries[p] # NoFile
             /\ get' = [get EXCEPT ![r].pc = "found", ![r].path = p,
                                   ![r].began = clock]
    <2>1. get'[r] = [get[r] EXCEPT !.pc = "found", !.path = p, !.began = clock]
          /\ \A s \in Gets : s # r => get'[s] = get[s]
      BY <1>1, <1>5
    <2>2. /\ get'[r].pc = "found" /\ get'[r].path = p
          /\ get'[r].dangling = get[r].dangling /\ get'[r].ub = get[r].ub
          /\ get'[r].short = get[r].short /\ get'[r].status = get[r].status
      BY <1>1, <2>1 DEF GetState
    <2>3. /\ get[r].dangling = FALSE /\ ~get[r].ub /\ ~get[r].short
          /\ get[r].status = "none"
      BY <1>1, GetFields, GetFacts DEF GetShape
    <2>4. get'[r] \in GetState
      BY DEF TypeInv, GetInv
    <2>5. SeenGet(get'[r]) = FoundGet(p, get'[r].dangling)
      BY <2>2, <2>3, <2>4, GetView
    <2>6. SeenGets' = [SeenGets EXCEPT ![r] = Finding(SeenGets[r], p)]
      <3>1. Finding(FS!NewGet, p) = FoundGet(p, FALSE)
        BY NewGetFound, Zenon
      <3>2. SeenGet(get'[r]) = Finding(SeenGets[r], p)
        BY <1>3, <2>2, <2>3, <2>5, <3>1, Zenon
      <3>. QED  BY <2>1, <3>2, OneView
    <2>7. SeenGets' = [SeenGets EXCEPT ![r].path = p, ![r].answer = "pending"]
      BY <2>6 DEF Finding
    <2>. QED  BY <1>1, <1>2, <1>3, <1>5, <2>7 DEF FS!GetBegin
  <1>. QED  BY <1>4, <1>5 DEF GetBegin, Store!getFile

\* A download that begins to read opens the file stored now, unless a deletion
\* has left it with a dangling pointer.
LEMMA RefGetOpen ==
  ASSUME TypeInv, TypeInv', NEW r \in Gets, GetOpen(r)
  PROVE  FS!GetOpen(r)
  <1>1. /\ entries' = entries /\ put' = put /\ del' = del /\ faults' = faults
        /\ get \in [Gets -> GetState] /\ get[r].pc = "found"
    BY DEF GetOpen, storeVars, TypeInv, GetInv
  <1>2. /\ Damaged' = Damaged /\ SeenPuts' = SeenPuts /\ SeenDels' = SeenDels
    BY <1>1, Views, DamageOnly
  <1>3. PICK m \in FileMeta :
          /\ get[r].dangling \/ m = entries[get[r].path]
          /\ get' = [get EXCEPT ![r].pc = "reading", ![r].meta = m,
                                ![r].ub = get[r].dangling]
    BY OpenedMeta, Zenon
  <1> DEFINE p == get[r].path
             o == get[r].dangling
  <1>4. get'[r] = [get[r] EXCEPT !.pc = "reading", !.meta = m,
                                 !.ub = get[r].dangling]
        /\ \A s \in Gets : s # r => get'[s] = get[s]
    BY <1>1, <1>3
  <1>5. /\ get'[r].pc = "reading" /\ get'[r].path = p /\ get'[r].meta = m
        /\ get'[r].ub = o /\ get'[r].dangling = o
        /\ get'[r].short = get[r].short
    BY <1>1, <1>4 DEF GetState
  <1>6. o \in BOOLEAN /\ ~get[r].ub /\ ~get[r].short /\ get'[r] \in GetState
        /\ get[r].status = "none" /\ get'[r].status = "none"
    BY <1>1, <1>5, GetFields, GetFacts DEF GetShape, TypeInv, GetInv
  <1>7. Overtaken(get'[r]) = o
    BY <1>5, <1>6 DEF Overtaken
  <1>8. SeenGets[r] = FoundGet(p, o)
    BY <1>1, <1>6, GetFacts, GetView
  <1>9. SeenGet(get'[r]) = ReadingGet(p, m, o, FALSE)
    <2>1. get'[r].short = FALSE
      BY <1>5, <1>6, GetFacts
    <2>. QED  BY <1>5, <1>6, <1>7, <2>1, GetView
  <1>10. ReadingGet(p, m, o, FALSE) = Opening(SeenGets[r], m)
    <2>1. Opening(FoundGet(p, o), m) = ReadingGet(p, m, o, FALSE)
      BY FoundOpened, Zenon
    <2>. QED  BY <1>8, <2>1, Zenon
  <1>11. SeenGets' = [SeenGets EXCEPT ![r] = SeenGet(get'[r])]
         /\ SeenGets'[r] = SeenGet(get'[r])
    BY <1>4, OneView DEF SeenGets
  <1> HIDE DEF p, o
  <1>12. /\ SeenGets[r].answer = "pending" /\ SeenGets[r].file = NoFile
         /\ SeenGets[r].overtaken = o /\ SeenGets[r].path = p
    BY <1>8 DEF FoundGet, GetRec
  <1>13. SeenGets'[r].file = m
    BY <1>9, <1>11 DEF ReadingGet, GetRec
  <1>14. SeenGets' = [SeenGets EXCEPT ![r].file = SeenGets'[r].file]
    BY <1>9, <1>10, <1>11, <1>13 DEF Opening
  <1>15. m # NoFile
    BY CoordinatorAssumption
  <1>16. o \/ m = entries[p]
    BY <1>3 DEF o, p
  <1>. QED  BY <1>1, <1>2, <1>12, <1>13, <1>14, <1>15, <1>16 DEF FS!GetOpen

\* The view of a download that reads.
LEMMA ReadingFacts ==
  ASSUME TypeInv, NEW r \in Gets, get[r].pc = "reading"
  PROVE  /\ SeenGets[r] = ReadingGet(get[r].path, get[r].meta,
                                     Overtaken(get[r]), get[r].short)
         /\ SeenGets[r].answer = "pending" /\ SeenGets[r].file = get[r].meta
         /\ SeenGets[r].overtaken = Overtaken(get[r])
         /\ SeenGets[r].shortened = get[r].short
         /\ SeenGets[r].path = get[r].path
         /\ get[r].meta # NoFile /\ get[r].path \in Paths
  <1>1. get[r].meta \in FileMeta /\ get[r].path \in Paths
    BY GetFields DEF GetShape
  <1>2. SeenGets[r] = ReadingGet(get[r].path, get[r].meta,
                                 Overtaken(get[r]), get[r].short)
    BY GetFacts, GetView
  <1>3. /\ SeenGets[r].answer = "pending" /\ SeenGets[r].file = get[r].meta
        /\ SeenGets[r].overtaken = Overtaken(get[r])
        /\ SeenGets[r].shortened = get[r].short
        /\ SeenGets[r].path = get[r].path
    BY <1>2 DEF ReadingGet, GetRec
  <1>. QED  BY <1>1, <1>2, <1>3, CoordinatorAssumption

\* One attempt to read a chunk: nothing to see, the end, a shortened chunk, or
\* the moment the download meets memory that is no longer its own.
LEMMA RefGetTry ==
  ASSUME TypeInv, TypeInv', NEW r \in Gets, GetTry(r)
  PROVE  FS!Next
  <1>1. /\ entries' = entries /\ put' = put /\ del' = del
        /\ get \in [Gets -> GetState] /\ get[r].pc = "reading"
    BY DEF GetTry, storeVars, TypeInv, GetInv
  <1>2. /\ Damaged' = Damaged /\ SeenPuts' = SeenPuts /\ SeenDels' = SeenDels
    <2>1. {"call", "read", "stream"} \subseteq FaultKinds \ {"write"}
      BY CoordinatorAssumption
    <2>2. faults' = faults
          \/ \E k \in {"call", "read", "stream"} : Registry!Fault(k)
      BY DEF GetTry, NoFault
    <2>. QED  BY <1>1, <2>1, <2>2, Views, DamageOnly
  <1>3. PICK b \in BOOLEAN, t \in BOOLEAN, x \in Data :
          /\ b = (get[r].ub \/ ~BufferLive(get[r].meta))
          /\ \/ /\ t = get[r].short \/ t = TRUE
                /\ get' = [get EXCEPT ![r] =
                     [get[r] EXCEPT !.data = @ \o x, !.at = @ + 1,
                                    !.replica = 1, !.ub = b, !.short = t]]
             \/ get' = [get EXCEPT ![r] =
                          [get[r] EXCEPT !.replica = @ + 1, !.ub = b]]
             \/ get' = [get EXCEPT ![r] =
                          [get[r] EXCEPT !.pc = "done", !.status = "INTERNAL"]]
             \/ get' = [get EXCEPT ![r] =
                          [get[r] EXCEPT !.pc = "done", !.status = "INTERNAL",
                                         !.ub = TRUE]]
    BY TryOutcome
  <1>4. \A s \in Gets : s # r => get'[s] = get[s]
    BY <1>1, <1>3
  <1>5. \/ get'[r].pc = "done" /\ get'[r].status = "INTERNAL"
        \/ /\ get'[r].pc = "reading" /\ get'[r].path = get[r].path
           /\ get'[r].meta = get[r].meta /\ get'[r].ub = b
           /\ get'[r].dangling = get[r].dangling
           /\ get'[r].short = get[r].short \/ get'[r].short = TRUE
    <2>1. CASE /\ t = get[r].short \/ t = TRUE
               /\ get' = [get EXCEPT ![r] =
                    [get[r] EXCEPT !.data = @ \o x, !.at = @ + 1,
                                   !.replica = 1, !.ub = b, !.short = t]]
      <3>1. get'[r] = [get[r] EXCEPT !.data = @ \o x, !.at = @ + 1,
                                     !.replica = 1, !.ub = b, !.short = t]
        BY <1>1, <2>1
      <3>2. /\ get'[r].pc = "reading" /\ get'[r].path = get[r].path
            /\ get'[r].meta = get[r].meta /\ get'[r].ub = b
            /\ get'[r].dangling = get[r].dangling
            /\ get'[r].short = t
        BY <1>1, <3>1 DEF GetState
      <3>. QED  BY <2>1, <3>2
    <2>2. CASE get' = [get EXCEPT ![r] =
                 [get[r] EXCEPT !.replica = @ + 1, !.ub = b]]
      <3>1. get'[r] = [get[r] EXCEPT !.replica = @ + 1, !.ub = b]
        BY <1>1, <2>2
      <3>. QED  BY <1>1, <3>1 DEF GetState
    <2>3. CASE get' = [get EXCEPT ![r] =
                 [get[r] EXCEPT !.pc = "done", !.status = "INTERNAL"]]
      BY <1>1, <2>3 DEF GetState
    <2>4. CASE get' = [get EXCEPT ![r] =
                 [get[r] EXCEPT !.pc = "done", !.status = "INTERNAL",
                                !.ub = TRUE]]
      BY <1>1, <2>4 DEF GetState
    <2>. QED  BY <1>3, <2>1, <2>2, <2>3, <2>4
  <1>6. CASE get'[r].pc = "done" /\ get'[r].status = "INTERNAL"
    <2>1. FS!GetAnswer(r, "INTERNAL", <<>>)
      BY <1>4, <1>6, GetDoneView DEF Delivered
    <2>2. FS!GetEnd(r)
      BY <1>1, <1>2, <2>1, ReadingFacts DEF FS!GetEnd
    <2>. QED  BY <2>2 DEF FS!Next
  <1>7. CASE /\ get'[r].pc = "reading" /\ get'[r].path = get[r].path
             /\ get'[r].meta = get[r].meta /\ get'[r].ub = b
             /\ get'[r].dangling = get[r].dangling
             /\ get'[r].short = get[r].short \/ get'[r].short = TRUE
    <2> DEFINE p == get[r].path
               m == get[r].meta
    <2>1. get'[r] \in GetState /\ get'[r].status = "none"
      BY <1>7 DEF TypeInv, GetInv, GetShape
    <2>2. SeenGet(get'[r]) = ReadingGet(p, m, Overtaken(get'[r]), get'[r].short)
      BY <1>7, <2>1, GetView
    <2>3. get[r].dangling \in BOOLEAN /\ get[r].ub \in BOOLEAN
      BY <1>1 DEF GetState
    <2>4. SeenGets' = [SeenGets EXCEPT ![r] = SeenGet(get'[r])]
      BY <1>4, OneView
    <2>0. Overtaken(get'[r]) # Overtaken(get[r])
            => Overtaken(get'[r]) = TRUE /\ m # entries[p]
      <3> SUFFICES ASSUME Overtaken(get'[r]) # Overtaken(get[r])
                   PROVE  Overtaken(get'[r]) = TRUE /\ m # entries[p]
        OBVIOUS
      <3>1. Overtaken(get'[r]) = TRUE /\ ~get[r].ub /\ b
        BY <1>3, <1>7, <2>3 DEF Overtaken
      <3>2. ~BufferLive(m)
        BY <1>3, <3>1
      <3>3. p \in Paths /\ p \in DOMAIN entries
        BY <1>1, ReadingFacts, GetFields
      <3>. QED  BY <3>1, <3>2, <3>3 DEF BufferLive, Range
    <2>5. CASE /\ Overtaken(get'[r]) = Overtaken(get[r])
               /\ get'[r].short = get[r].short
      <3>1. SeenGet(get'[r]) = SeenGets[r]
        BY <1>1, <2>2, <2>5, ReadingFacts
      <3>2. SeenGets' = SeenGets
        BY <2>4, <3>1, SameView
      <3>. QED  BY <1>1, <1>2, <3>2, NothingSeen
    <2>6. CASE /\ Overtaken(get'[r]) # Overtaken(get[r])
               /\ get'[r].short = get[r].short
      <3>1. Overtaken(get'[r]) = TRUE
        BY <2>0, <2>6
      <3>2. m # entries[p]
        BY <2>0, <2>6
      <3>3. ReadingGet(p, m, TRUE, get[r].short) = Overtaking(SeenGets[r], TRUE)
        <4>1. SeenGets[r] = ReadingGet(p, m, Overtaken(get[r]), get[r].short)
          BY <1>1, ReadingFacts
        <4>2. Overtaking(ReadingGet(p, m, Overtaken(get[r]), get[r].short), TRUE)
                = ReadingGet(p, m, TRUE, get[r].short)
          BY ReadingOvertaken, Zenon
        <4>. QED  BY <4>1, <4>2, Zenon
      <3>4. SeenGet(get'[r]) = Overtaking(SeenGets[r], TRUE)
        BY <2>2, <2>6, <3>1, <3>3, Zenon
      <3>5. SeenGets' = [SeenGets EXCEPT ![r].overtaken = TRUE]
        BY <2>4, <3>4, Zenon DEF Overtaking
      <3>6. FS!GetOvertaken(r)
        BY <1>1, <1>2, <3>2, <3>5, ReadingFacts DEF FS!GetOvertaken
      <3>. QED  BY <3>6 DEF FS!Next
    <2>7. CASE get'[r].short = TRUE
      <3>1. PICK o : o = Overtaken(get'[r])
        OBVIOUS
      <3>2. SeenGet(get'[r]) = ReadingGet(p, m, o, TRUE)
        BY <2>2, <2>7, <3>1, Zenon
      <3>3. ReadingGet(p, m, o, TRUE) = Shortening(SeenGets[r], TRUE, o)
        <4>1. PICK q, h : SeenGets[r] = ReadingGet(p, m, q, h)
          BY <1>1, ReadingFacts
        <4>2. Shortening(ReadingGet(p, m, q, h), TRUE, o)
                = ReadingGet(p, m, o, TRUE)
          <5> HIDE DEF p, m
          <5>. QED  BY ReadingShortened, Zenon
        <4>. QED  BY <4>1, <4>2, Zenon
      <3>4. SeenGets'[r].overtaken = o
        <4>1. SeenGets'[r] = GetRec(p, m, o, TRUE, <<>>, "pending")
          BY <3>2 DEF SeenGets, ReadingGet
        <4>. QED  BY <4>1 DEF GetRec
      <3>5. SeenGets' = [SeenGets EXCEPT ![r].shortened = TRUE,
                                         ![r].overtaken = o]
        <4>1. SeenGets' =
                [SeenGets EXCEPT ![r] = Shortening(SeenGets[r], TRUE, o)]
          BY <2>4, <3>2, <3>3, Zenon
        <4>. QED  BY <4>1 DEF Shortening
      <3>6. /\ Overtaken(get[r]) => o
            /\ o => Overtaken(get[r]) \/ m # entries[p]
        <4>1. Overtaken(get[r]) \in BOOLEAN /\ o \in BOOLEAN
          BY <3>1 DEF Overtaken
        <4>. QED  BY <2>0, <3>1, <4>1
      <3>7. FS!GetShortened(r)
        BY <1>1, <1>2, <3>4, <3>5, <3>6, ReadingFacts DEF FS!GetShortened
      <3>. QED  BY <3>7 DEF FS!Next
    <2>. QED  BY <1>7, <2>5, <2>6, <2>7
  <1>. QED  BY <1>5, <1>6, <1>7

\* The end of a download: what was delivered is the file that was opened.
LEMMA RefGetEnd ==
  ASSUME TypeInv, TypeInv', AnswersSafe', NEW r \in Gets, GetEnd(r)
  PROVE  FS!GetEnd(r)
  <1>1. /\ entries' = entries /\ put' = put /\ del' = del /\ faults' = faults
        /\ get \in [Gets -> GetState] /\ get[r].pc = "reading"
    BY DEF GetEnd, storeVars, TypeInv, GetInv
  <1>2. /\ Damaged' = Damaged /\ SeenPuts' = SeenPuts /\ SeenDels' = SeenDels
    BY <1>1, Views, DamageOnly
  <1>3. PICK s \in {"OK", "INTERNAL"} : GetDone(r, s)
    BY DEF GetEnd
  <1>4. get'[r] = [get[r] EXCEPT !.pc = "done", !.status = s]
        /\ \A q \in Gets : q # r => get'[q] = get[q]
    BY <1>1, <1>3 DEF GetDone
  <1>5. /\ get'[r].pc = "done" /\ get'[r].status = s
        /\ get'[r].meta = get[r].meta /\ get'[r].ub = get[r].ub
        /\ get'[r].short = get[r].short
    BY <1>1, <1>4 DEF GetState
  <1>6. /\ FS!GetAnswer(r, s, Delivered(get'[r]))
        /\ SeenGets'[r].data = Delivered(get'[r])
    BY <1>4, <1>5, GetDoneView
  <1>7. CASE s = "INTERNAL"
    <2>1. FS!GetAnswer(r, "INTERNAL", <<>>)
      BY <1>5, <1>6, <1>7 DEF Delivered
    <2>. QED  BY <1>1, <1>2, <2>1, ReadingFacts DEF FS!GetEnd
  <1>8. CASE s = "OK"
    <2>1. FS!GetAnswer(r, "OK", SeenGets'[r].data)
      BY <1>6, <1>8
    <2>2. SeenGets'[r].data = get'[r].data
      BY <1>5, <1>6, <1>8 DEF Delivered
    <2>3. \/ get[r].ub \/ get[r].short \/ Damaged
          \/ get'[r].data = get[r].meta.data
      <3>1. SentSafe(get'[r], faults["write"])
        BY <1>1 DEF AnswersSafe
      <3>2. faults["write"] \in Nat
        BY CoordinatorAssumption DEF TypeInv, RP!RegistryInv, RP!TypeOK
      <3>3. CASE faults["write"] = 0
        BY <1>5, <1>8, <3>1, <3>3 DEF SentSafe
      <3>4. CASE faults["write"] # 0
        BY <3>2, <3>4 DEF Damaged
      <3>. QED  BY <3>3, <3>4
    <2>4. \/ SeenGets[r].overtaken \/ SeenGets[r].shortened \/ Damaged
          \/ SeenGets'[r].data = ContentOf(SeenGets[r].file)
      BY <1>1, <2>2, <2>3, ReadingFacts DEF Overtaken, ContentOf
    <2>. QED  BY <1>1, <1>2, <2>1, <2>4, ReadingFacts DEF FS!GetEnd
  <1>. QED  BY <1>3, <1>7, <1>8

(***************************************************************************)
(* Deletions.                                                              *)
(***************************************************************************)

\* The lookup of a deletion.
LEMMA RefDelBegin ==
  ASSUME TypeInv, TypeInv', NEW d \in Dels, NEW p \in Paths, DelBegin(d, p)
  PROVE  FS!DelBegin(d, p)
  <1>1. /\ entries' = entries /\ put' = put /\ get' = get /\ faults' = faults
        /\ del \in [Dels -> DelState] /\ del[d].pc = "idle"
    BY DEF DelBegin, storeVars, TypeInv, DelInv
  <1>2. /\ Damaged' = Damaged /\ SeenPuts' = SeenPuts /\ SeenGets' = SeenGets
        /\ SeenDels[d] = FS!NewDel
    BY <1>1, Views, DamageOnly, DelView
  <1>3. SeenDels[d].answer = "idle"
    BY <1>2 DEF FS!NewDel
  <1>4. \A e \in Dels : e # d => del'[e] = del[e]
    BY <1>1 DEF DelBegin
  <1>5. CASE entries[p] = NoFile
    <2>1. del'[d] = [del[d] EXCEPT !.pc = "done", !.status = "NOT_FOUND"]
      BY <1>1, <1>5 DEF DelBegin, Store!getFile
    <2>2. del'[d].pc = "done" /\ del'[d].status = "NOT_FOUND"
      BY <1>1, <2>1 DEF DelState
    <2>3. SeenDel(del'[d]) = [FS!NewDel EXCEPT !.answer = "NOT_FOUND"]
      BY <2>2 DEF SeenDel, Answer, FS!NewDel
    <2>4. FS!DelAnswer(d, "NOT_FOUND")
      BY <1>4, <2>3, OneView DEF FS!DelAnswer
    <2>. QED  BY <1>1, <1>2, <1>3, <1>5, <2>4 DEF FS!DelBegin
  <1>6. CASE entries[p] # NoFile
    <2>1. del'[d] = [del[d] EXCEPT !.pc = "found", !.path = p]
      BY <1>1, <1>6 DEF DelBegin, Store!getFile
    <2>2. del'[d].pc = "found" /\ del'[d].path = p
      BY <1>1, <2>1 DEF DelState
    <2>3. SeenDel(del'[d]) = [FS!NewDel EXCEPT !.path = p, !.answer = "pending"]
      <3>1. SeenDel(del'[d]) = DelRec(p, "pending")
        BY <2>2 DEF SeenDel, Answer, DelRec
      <3>2. FS!NewDel = DelRec(NoFile, "idle")
        BY DEF FS!NewDel, DelRec
      <3>3. [DelRec(NoFile, "idle") EXCEPT !.path = p] = DelRec(p, "idle")
        BY DEF DelRec
      <3>4. [DelRec(p, "idle") EXCEPT !.answer = "pending"]
              = DelRec(p, "pending")
        BY DEF DelRec
      <3>5. [FS!NewDel EXCEPT !.path = p, !.answer = "pending"]
              = [[FS!NewDel EXCEPT !.path = p] EXCEPT !.answer = "pending"]
        OBVIOUS
      <3>. QED  BY <3>1, <3>2, <3>3, <3>4, <3>5
    <2>4. SeenDels' = [SeenDels EXCEPT ![d] =
                         [SeenDels[d] EXCEPT !.path = p, !.answer = "pending"]]
      BY <1>2, <1>4, <2>3, OneView
    <2>5. SeenDels' = [SeenDels EXCEPT ![d].path = p, ![d].answer = "pending"]
      BY <2>4
    <2>. QED  BY <1>1, <1>2, <1>3, <1>6, <2>5 DEF FS!DelBegin
  <1>. QED  BY <1>5, <1>6

\* The name is gone, and the downloads that have not opened it are overtaken.
LEMMA RefDelTombstone ==
  ASSUME TypeInv, TypeInv', NEW d \in Dels, DelTombstone(d)
  PROVE  FS!DelEnd(d)
  <1>1. /\ put' = put /\ faults' = faults
        /\ del' = [del EXCEPT ![d].pc = "done", ![d].status = "OK"]
        /\ del \in [Dels -> DelState] /\ del[d].pc = "found"
        /\ get \in [Gets -> GetState]
        /\ entries \in [Paths -> FileMeta \cup {NoFile}]
    BY DEF DelTombstone, TypeInv, DelInv, GetInv, SP!StoreInv, SP!TypeOK
  <1>2. /\ Damaged' = Damaged /\ SeenPuts' = SeenPuts
    BY <1>1, Views, DamageOnly
  <1> DEFINE p == del[d].path
  <1>3. SeenDels[d].answer = "pending" /\ SeenDels[d].path = p
    BY <1>1, Views, DelView
  <1>4. entries' = [entries EXCEPT ![p] = NoFile]
    <2>1. p \in Paths /\ SP!deletePath(p)
      BY DeletedEntries
    <2>2. CASE entries[p] = NoFile
      <3>1. entries' = entries
        BY <2>1, <2>2 DEF SP!deletePath, SP!Found, SP!vars
      <3>. QED  BY <1>1, <2>1, <2>2, <3>1
    <2>3. CASE entries[p] # NoFile
      BY <2>1, <2>3 DEF SP!deletePath, SP!Found
    <2>. QED  BY <2>2, <2>3
  <1>5. FS!DelAnswer(d, "OK")
    <2>1. del'[d] = [del[d] EXCEPT !.pc = "done", !.status = "OK"]
          /\ \A e \in Dels : e # d => del'[e] = del[e]
      BY <1>1
    <2>2. del'[d].pc = "done" /\ del'[d].status = "OK"
      BY <1>1, <2>1 DEF DelState
    <2>3. SeenDel(del'[d]) = [FS!NewDel EXCEPT !.answer = "OK"]
      BY <2>2 DEF SeenDel, Answer, FS!NewDel
    <2>. QED  BY <2>1, <2>3, OneView DEF FS!DelAnswer
  <1> DEFINE hit(r) == get[r].pc = "found" /\ get[r].path = p
             seen(r) == /\ SeenGets[r].answer = "pending"
                        /\ SeenGets[r].file = NoFile
                        /\ SeenGets[r].path = p
  <1>6. ASSUME NEW r \in Gets
        PROVE  SeenGets'[r] = [SeenGets[r] EXCEPT !.overtaken = @ \/ seen(r)]
    <2>1. /\ get[r] \in GetState /\ get'[r] \in GetState
          /\ get[r].pc # "done" => get[r].status = "none"
          /\ SeenGets[r] = SeenGet(get[r]) /\ SeenGets'[r] = SeenGet(get'[r])
      BY GetFacts DEF TypeInv, GetInv, SeenGets
    <2>2. get'[r] = [get[r] EXCEPT !.dangling = @ \/ hit(r)]
      BY DEF DelTombstone
    <2>3. /\ get'[r].pc = get[r].pc /\ get'[r].path = get[r].path
          /\ get'[r].ub = get[r].ub /\ get'[r].meta = get[r].meta
          /\ get'[r].short = get[r].short
          /\ get'[r].data = get[r].data /\ get'[r].status = get[r].status
          /\ get'[r].dangling = (get[r].dangling \/ hit(r))
      BY <2>1, <2>2 DEF GetState
    <2>4. SeenGet(get[r]).overtaken \in BOOLEAN
      BY DEF SeenGet
    <2>5. seen(r) = hit(r)
      <3>1. CASE get[r].pc = "found"
        <4>1. /\ SeenGets[r].answer = "pending" /\ SeenGets[r].file = NoFile
              /\ SeenGets[r].path = get[r].path
          BY <2>1, <3>1 DEF SeenGet, Answer
        <4>. QED  BY <3>1, <4>1
      <3>2. CASE get[r].pc = "reading"
        <4>1. SeenGets[r].file # NoFile
          BY <3>2, ReadingFacts
        <4>. QED  BY <3>2, <4>1
      <3>3. CASE get[r].pc \in {"idle", "done"}
        <4>1. SeenGets[r].answer # "pending"
          BY <2>1, <3>3 DEF SeenGet, Answer, GetState, Status
        <4>. QED  BY <3>3, <4>1
      <3>4. get[r].pc \in {"idle", "found", "reading", "done"}
        BY <2>1 DEF GetState
      <3>. QED  BY <3>1, <3>2, <3>3, <3>4
    <2>6. PICK o \in BOOLEAN : o = (SeenGets[r].overtaken \/ hit(r))
      OBVIOUS
    <2>7. SeenGets'[r] = Overtaking(SeenGets[r], o)
      <3>1. CASE hit(r)
        <4>1. /\ SeenGets[r] = FoundGet(get[r].path, get[r].dangling)
              /\ SeenGets'[r] = FoundGet(get[r].path, get'[r].dangling)
          BY <2>1, <2>3, <3>1, GetView, GetFields DEF GetShape
        <4>2. get'[r].dangling = o
          BY <2>3, <2>6, <3>1
        <4>3. SeenGets'[r] = FoundGet(get[r].path, o)
          BY <4>1, <4>2
        <4>4. Overtaking(FoundGet(get[r].path, get[r].dangling), o)
                = FoundGet(get[r].path, o)
          BY FoundOvertaken, Zenon
        <4>. QED  BY <4>1, <4>3, <4>4
      <3>2. CASE ~hit(r)
        <4>1. get'[r].dangling = get[r].dangling
          BY <2>1, <2>3, <3>2 DEF GetState
        <4>2. SeenGets'[r] = SeenGets[r]
          <5> HIDE DEF hit
          <5>. QED  BY <2>1, <2>3, <4>1 DEF SeenGet, Answer
        <4>3. o = SeenGets[r].overtaken
          BY <2>1, <2>4, <2>6, <3>2
        <4>4. PICK a, b, c, h, e, f : SeenGets[r] = GetRec(a, b, c, h, e, f)
          BY <2>1 DEF SeenGet, GetRec
        <4>5. SeenGets[r].overtaken = c
          BY <4>4 DEF GetRec
        <4>6. Overtaking(GetRec(a, b, c, h, e, f), c) = GetRec(a, b, c, h, e, f)
          BY OvertakingRec
        <4>. QED  BY <4>2, <4>3, <4>4, <4>5, <4>6
      <3>. QED  BY <3>1, <3>2
    <2>. QED  BY <2>5, <2>6, <2>7 DEF Overtaking
  <1>7. SeenGets' = [r \in Gets |-> [SeenGets[r] EXCEPT !.overtaken = @ \/ seen(r)]]
    BY <1>6 DEF SeenGets
  <1>. QED  BY <1>1, <1>2, <1>3, <1>4, <1>5, <1>7 DEF FS!DelEnd

(***************************************************************************)
(* The environment, and the theorem.                                       *)
(***************************************************************************)

\* No step of a data node damages anything.
LEMMA RefDataNode ==
  ASSUME TypeInv, NEW n \in Nodes, DataNode(n)
  PROVE  FS!Next
  <1>1. /\ entries' = entries /\ put' = put /\ get' = get /\ del' = del
    BY DEF DataNode, storeVars, requestVars
  <1>2. RP!DataNode(n)
    BY RegistrySteps DEF DataNode
  <1>3. \/ faults' = faults
        \/ \E k \in {"rpc", "stop", "crash", "race"} : RP!Fault(k)
    BY <1>2, Zenon DEF RP!DataNode, RP!Start, RP!Assign, RP!Stop,
       RP!StopUnheard, RP!Crash, RP!Serve, RP!Shutdown, RP!coordinatorVars
  <1>4. ASSUME NEW k \in {"rpc", "stop", "crash", "race"}, RP!Fault(k)
        PROVE  Registry!Fault(k) /\ k \in FaultKinds /\ k # "write"
    BY <1>4, CoordinatorAssumption DEF RP!Fault, Registry!Fault
  <1>5. Damaged' = Damaged
    BY <1>3, <1>4, DamageOnly
  <1>. QED  BY <1>1, <1>5, Views, NothingSeen

\* A restart loses the files, and the requests under way.
LEMMA RefRestart ==
  ASSUME TypeInv, TypeInv', CoordinatorRestart
  PROVE  FS!Reset
  <1>1. /\ entries' = [p \in Paths |-> NoFile]
        /\ put \in [Puts -> PutState] /\ get \in [Gets -> GetState]
        /\ del \in [Dels -> DelState]
    BY DEF CoordinatorRestart, TypeInv, PutInv, GetInv, DelInv
  <1>2. Damaged' = Damaged
    <2>1. Registry!Fault("restart") /\ "restart" \in FaultKinds
      BY CoordinatorAssumption DEF CoordinatorRestart,
         Registry!CoordinatorRestart
    <2>. QED  BY <2>1, DamageOnly
  <1>3. SeenPuts' = FS!Lose(SeenPuts, FS!NewPut)
    <2>1. ASSUME NEW w \in Puts
          PROVE  SeenPuts'[w] = IF SeenPuts[w].answer = "pending"
                                THEN [FS!NewPut EXCEPT !.answer = "UNAVAILABLE"]
                                ELSE SeenPuts[w]
      <3>1. /\ put[w] \in PutState /\ SeenPuts[w] = SeenPut(put[w])
            /\ SeenPuts'[w] = SeenPut(put'[w])
        BY <1>1 DEF SeenPuts
      <3>2. CASE put[w].pc \in {"idle", "done"}
        <4>1. put'[w] = put[w]
          BY <3>2 DEF CoordinatorRestart
        <4>2. SeenPuts[w].answer # "pending"
          BY <3>1, <3>2 DEF SeenPut, Answer, PutState, Status
        <4>. QED  BY <3>1, <4>1, <4>2
      <3>3. CASE put[w].pc \notin {"idle", "done"}
        <4>1. put'[w] = [IdlePut EXCEPT !.pc = "done", !.status = "UNAVAILABLE"]
          BY <3>3 DEF CoordinatorRestart
        <4>2. SeenPut(put'[w]) = [FS!NewPut EXCEPT !.answer = "UNAVAILABLE"]
          BY <4>1 DEF SeenPut, Answer, IdlePut, FS!NewPut
        <4>3. SeenPuts[w].answer = "pending"
          BY <3>1, <3>3 DEF SeenPut, Answer
        <4>. QED  BY <3>1, <4>2, <4>3
      <3>. QED  BY <3>2, <3>3
    <2>2. DOMAIN SeenPuts = Puts /\ SeenPuts' = [w \in Puts |-> SeenPuts'[w]]
      BY DEF SeenPuts
    <2>. QED  BY <2>1, <2>2 DEF FS!Lose
  <1>4. SeenGets' = FS!Lose(SeenGets, FS!NewGet)
    <2>1. ASSUME NEW r \in Gets
          PROVE  SeenGets'[r] = IF SeenGets[r].answer = "pending"
                                THEN [FS!NewGet EXCEPT !.answer = "UNAVAILABLE"]
                                ELSE SeenGets[r]
      <3>1. /\ get[r] \in GetState /\ SeenGets[r] = SeenGet(get[r])
            /\ SeenGets'[r] = SeenGet(get'[r]) /\ get'[r] = CutOff(get[r])
            /\ get'[r] \in GetState
        BY <1>1 DEF SeenGets, CoordinatorRestart, TypeInv, GetInv
      <3>2. CASE get[r].pc \in {"idle", "done"}
        <4>1. get'[r] = get[r]
          BY <3>1, <3>2 DEF CutOff
        <4>2. SeenGets[r].answer # "pending"
          BY <3>1, <3>2 DEF SeenGet, Answer, GetState, Status
        <4>. QED  BY <3>1, <4>1, <4>2
      <3>3. CASE get[r].pc \notin {"idle", "done"}
        <4>1. get'[r].pc = "done" /\ get'[r].status = "UNAVAILABLE"
          BY <3>1, <3>3 DEF CutOff, GetState
        <4>2. SeenGet(get'[r]) = AnsweredGet(<<>>, "UNAVAILABLE")
          BY <3>1, <4>1, GetView DEF Delivered
        <4>3. [FS!NewGet EXCEPT !.answer = "UNAVAILABLE"]
                = AnsweredGet(<<>>, "UNAVAILABLE")
          <5>1. PICK no \in {FALSE} : TRUE
            OBVIOUS
          <5>2. FS!NewGet = GetRec(NoFile, NoFile, no, no, <<>>, "idle")
            BY <5>1, Zenon DEF FS!NewGet, GetRec
          <5>3. \A b : [GetRec(NoFile, NoFile, b, b, <<>>, "idle") EXCEPT
                          !.answer = "UNAVAILABLE"]
                         = GetRec(NoFile, NoFile, b, b, <<>>, "UNAVAILABLE")
            BY DEF GetRec
          <5>. QED  BY <5>1, <5>2, <5>3, Zenon DEF AnsweredGet
        <4>4. SeenGets[r].answer = "pending"
          BY <3>1, <3>3 DEF SeenGet, Answer
        <4>. QED  BY <3>1, <4>2, <4>3, <4>4
      <3>. QED  BY <3>2, <3>3
    <2>2. DOMAIN SeenGets = Gets /\ SeenGets' = [r \in Gets |-> SeenGets'[r]]
      BY DEF SeenGets
    <2>. QED  BY <2>1, <2>2 DEF FS!Lose
  <1>5. SeenDels' = FS!Lose(SeenDels, FS!NewDel)
    <2>1. ASSUME NEW d \in Dels
          PROVE  SeenDels'[d] = IF SeenDels[d].answer = "pending"
                                THEN [FS!NewDel EXCEPT !.answer = "UNAVAILABLE"]
                                ELSE SeenDels[d]
      <3>1. /\ del[d] \in DelState /\ SeenDels[d] = SeenDel(del[d])
            /\ SeenDels'[d] = SeenDel(del'[d]) /\ del'[d] = CutOff(del[d])
        BY <1>1 DEF SeenDels, CoordinatorRestart
      <3>2. CASE del[d].pc \in {"idle", "done"}
        <4>1. del'[d] = del[d]
          BY <3>1, <3>2 DEF CutOff
        <4>2. SeenDels[d].answer # "pending"
          BY <3>1, <3>2 DEF SeenDel, Answer, DelState, Status
        <4>. QED  BY <3>1, <4>1, <4>2
      <3>3. CASE del[d].pc \notin {"idle", "done"}
        <4>1. del'[d].pc = "done" /\ del'[d].status = "UNAVAILABLE"
          BY <3>1, <3>3 DEF CutOff, DelState
        <4>2. SeenDel(del'[d]) = [FS!NewDel EXCEPT !.answer = "UNAVAILABLE"]
          BY <4>1 DEF SeenDel, Answer, FS!NewDel
        <4>3. SeenDels[d].answer = "pending"
          BY <3>1, <3>3 DEF SeenDel, Answer
        <4>. QED  BY <3>1, <4>2, <4>3
      <3>. QED  BY <3>2, <3>3
    <2>2. DOMAIN SeenDels = Dels /\ SeenDels' = [d \in Dels |-> SeenDels'[d]]
      BY DEF SeenDels
    <2>. QED  BY <2>1, <2>2 DEF FS!Lose
  <1>. QED  BY <1>1, <1>2, <1>3, <1>4, <1>5 DEF FS!Reset

\* Initially there are no files and no requests.
LEMMA RefInit == Init => FS!Init
  <1> SUFFICES ASSUME Init PROVE FS!Init
    OBVIOUS
  <1>1. entries = [p \in Paths |-> NoFile]
    BY DEF Init, Store!Init
  <1>2. Damaged = FALSE
    <2>1. faults["write"] = 0
      BY CoordinatorAssumption DEF Init, Registry!Init
    <2>. QED  BY <2>1 DEF Damaged
  <1>3. SeenPuts = [w \in Puts |-> FS!NewPut]
    <2>1. SeenPut(IdlePut) = FS!NewPut
      BY DEF SeenPut, Answer, IdlePut, FS!NewPut
    <2>2. \A w \in Puts : put[w] = IdlePut
      BY DEF Init
    <2>. QED  BY <2>1, <2>2 DEF SeenPuts
  <1>4. SeenGets = [r \in Gets |-> FS!NewGet]
    <2>1. SeenGet(IdleGet) = FS!NewGet
      BY DEF SeenGet, Answer, IdleGet, FS!NewGet
    <2>2. \A r \in Gets : get[r] = IdleGet
      BY DEF Init
    <2>. QED  BY <2>1, <2>2 DEF SeenGets
  <1>5. SeenDels = [d \in Dels |-> FS!NewDel]
    <2>1. SeenDel(IdleDel) = FS!NewDel
      BY DEF SeenDel, Answer, IdleDel, FS!NewDel
    <2>2. \A d \in Dels : del[d] = IdleDel
      BY DEF Init
    <2>. QED  BY <2>1, <2>2 DEF SeenDels
  <1>. QED  BY <1>1, <1>2, <1>3, <1>4, <1>5 DEF FS!Init

\* Every step of the coordinator is a step of the file system.
LEMMA RefNext == DurInv /\ DurInv' /\ [Next]_vars => [FS!Next]_(FS!vars)
  <1> SUFFICES ASSUME DurInv, DurInv', [Next]_vars
               PROVE  FS!Next
    OBVIOUS
  <1>0. TypeInv /\ TypeInv' /\ AnswersSafe'
    BY DEF DurInv, ChunkInv
  <1>1. ASSUME NEW w \in Puts,
               \/ \E p \in Paths, c \in Contents : PutBegin(w, p, c)
               \/ PutUnnamed(w) \/ PutStep(w) \/ PutCommit(w)
        PROVE  FS!Next
    <2>1. CASE \E p \in Paths, c \in Contents : PutBegin(w, p, c)
      <3>1. \E p \in Paths : FS!PutBegin(w, p)
        BY <1>0, <2>1, RefPutBegin
      <3>. QED  BY <3>1 DEF FS!Next
    <2>2. CASE PutUnnamed(w)
      <3>1. /\ entries' = entries /\ get' = get /\ del' = del
            /\ faults' = faults /\ put[w].pc = "idle"
            /\ PutDone(w, "INVALID_ARGUMENT")
        BY <2>2 DEF PutUnnamed, storeVars
      <3>. QED  BY <1>0, <3>1, RefPutFail
    <2>3. CASE PutStep(w)
      BY <1>0, <2>3, RefPutReceive, RefPutPlace, RefPutTask, RefPutJoin
      DEF PutStep
    <2>4. CASE PutCommit(w)
      BY <1>0, <2>4, RefPutCommit
    <2>. QED  BY <1>1, <2>1, <2>2, <2>3, <2>4
  <1>2. ASSUME NEW r \in Gets, (\E p \in Paths : GetBegin(r, p)) \/ GetStep(r)
        PROVE  FS!Next
    <2>1. \/ \E p \in Paths : FS!GetBegin(r, p)
          \/ FS!GetOpen(r) \/ FS!GetEnd(r) \/ FS!Next
      BY <1>0, <1>2, RefGetBegin, RefGetOpen, RefGetTry, RefGetEnd DEF GetStep
    <2>. QED  BY <2>1 DEF FS!Next
  <1>3. ASSUME NEW d \in Dels,
               (\E p \in Paths : DelBegin(d, p)) \/ DelTombstone(d)
        PROVE  FS!Next
    <2>1. (\E p \in Paths : FS!DelBegin(d, p)) \/ FS!DelEnd(d)
      BY <1>0, <1>3, RefDelBegin, RefDelTombstone
    <2>. QED  BY <2>1 DEF FS!Next
  <1>4. CASE UNCHANGED vars \/ CleanupWake \/ CleanupStep \/ Tick
    <2>1. entries' = entries /\ put' = put /\ get' = get /\ del' = del
      BY <1>4 DEF vars, CleanupWake, CleanupStep, CleanupSkip, CleanupDelete,
         CleanupErase, CleanupEnd, Tick, storeVars, requestVars,
         Store!CleanupBegin, Store!CleanupSkip, Store!CleanupErase,
         Store!CleanupEnd, Store!Tick
    <2>2. faults' = faults \/ Registry!Fault("call")
      BY <1>4 DEF vars, CleanupWake, CleanupStep, CleanupSkip, CleanupDelete,
         CleanupErase, CleanupEnd, Tick, NoFault
    <2>3. "call" \in FaultKinds
      BY CoordinatorAssumption
    <2>4. Damaged' = Damaged
      BY <1>0, <2>2, <2>3, DamageOnly
    <2>. QED  BY <2>1, <2>4, Views, NothingSeen
  <1>5. CASE \E n \in Nodes : DataNode(n)
    BY <1>0, <1>5, RefDataNode
  <1>6. CASE CoordinatorRestart
    BY <1>0, <1>6, RefRestart DEF FS!Next
  <1>. QED  BY <1>1, <1>2, <1>3, <1>4, <1>5, <1>6 DEF Next

\* Chunks, replicas, failover, tombstones, the cleanup and restarts implement
\* the map from paths to files that FileSystem describes.
THEOREM CoordinatorImplementsFileSystem == Spec => ImplementsFileSystem
  BY RefInit, RefNext, CoordinatorDurInv, PTL
  DEF Spec, ImplementsFileSystem, FS!Spec
=============================================================================
