----------------------------- MODULE DFSClient -----------------------------
(***************************************************************************)
(* The client library (client/src/dfs_client.cpp) and the command line     *)
(* client (client/src/main.cpp) over the gRPC streams to the coordinator.  *)
(*                                                                         *)
(* putFile, getFile and deleteFile run on a detached thread each and fill  *)
(* a promise.  A call is two actors, the client's thread and the handler   *)
(* of coordinator_service_impl.cpp, with a stream of at most Window        *)
(* messages between them that may break at any time; neither sees why a    *)
(* Read or a Write failed.  Which nodes hold a file, and downloads racing  *)
(* with deletions, are the subject of Coordinator: here the store is a     *)
(* content for each path.                                                  *)
(***************************************************************************)
EXTENDS Integers, Sequences, FiniteSets, Functions

CONSTANTS
  Paths, NoFile,
  LocalFiles,         \* path -> content of the client's file
  Buffer,             \* the client's buffer, in units (4096 bytes)
  ChunkSize,          \* the coordinator's chunk_size, in units (1 MB)
  MaxInt,             \* the largest int
  Window,             \* messages a stream takes before Write blocks
  Puts, Gets, Dels,   \* calls of the library, one-shot
  FaultKinds,
  MaxFaults           \* bound: faults of all kinds together

ASSUME ClientAssumption ==
  /\ \A p \in Paths : LocalFiles[p] \in Seq(Range(LocalFiles[p]))
  /\ {Buffer, ChunkSize, Window} \subseteq Nat \ {0}
  /\ MaxInt \in Nat
  /\ FaultKinds = {"stream", "open", "read", "node", "restart"}
  /\ MaxFaults \in Nat

VARIABLES
  committed,      \* path -> content the coordinator has for it, or NoFile
  put, get, del,  \* call -> its client thread, its stream and its handler
  faults          \* history: kind -> how often it happened

vars == <<committed, put, get, del, faults>>

Data == Seq(UNION {Range(LocalFiles[p]) : p \in Paths})

Status == {"none", "OK", "ALREADY_EXISTS", "INVALID_ARGUMENT", "NOT_FOUND",
           "INTERNAL", "UNKNOWN", "UNAVAILABLE"}
Result == {"none", "value", "EEXIST", "ENOENT", "runtime_error"}

PutState ==
  [pc : {"idle", "naming", "streaming", "finishing", "ready"},
   path : Paths \cup {NoFile}, size : Nat, at : Nat, result : Result,
   sent : Seq(Data), ended : BOOLEAN, broken : BOOLEAN,
   srv : {"reading", "splitting", "answered"}, named : BOOLEAN,
   received : Data, chunks : Nat, stored : Data,
   saved : Data \cup {NoFile}, status : Status]
GetState ==
  [pc : {"idle", "reading", "ready"}, path : Paths \cup {NoFile},
   got : Data, result : Result, sent : Seq(Data), broken : BOOLEAN,
   srv : {"called", "sending", "answered"}, content : Data \cup {NoFile},
   chunks : Nat, status : Status]
DelState ==
  [pc : {"idle", "called", "ready"}, path : Paths \cup {NoFile},
   result : Result, broken : BOOLEAN, srv : {"called", "answered"}, status : Status]

IdlePut ==
  [pc |-> "idle", path |-> NoFile, size |-> 0, at |-> 0, result |-> "none",
   sent |-> <<>>, ended |-> FALSE, broken |-> FALSE,
   srv |-> "reading", named |-> FALSE, received |-> <<>>, chunks |-> 0,
   stored |-> <<>>, saved |-> NoFile, status |-> "none"]
IdleGet ==
  [pc |-> "idle", path |-> NoFile, got |-> <<>>, result |-> "none",
   sent |-> <<>>, broken |-> FALSE, srv |-> "called",
   content |-> NoFile, chunks |-> 0, status |-> "none"]
IdleDel ==
  [pc |-> "idle", path |-> NoFile, result |-> "none",
   broken |-> FALSE, srv |-> "called", status |-> "none"]

TypeOK ==
  /\ committed \in [Paths -> Data \cup {NoFile}]
  /\ put \in [Puts -> PutState]
  /\ get \in [Gets -> GetState]
  /\ del \in [Dels -> DelState]
  /\ faults \in [FaultKinds -> Nat]

Init ==
  /\ committed = [p \in Paths |-> NoFile]
  /\ put = [w \in Puts |-> IdlePut]
  /\ get = [r \in Gets |-> IdleGet]
  /\ del = [d \in Dels |-> IdleDel]
  /\ faults = [k \in FaultKinds |-> 0]

TotalFaults == FoldFunction(+, 0, faults)

Fault(k) ==
  /\ TotalFaults < MaxFaults
  /\ faults' = [faults EXCEPT ![k] = @ + 1]

NoFault == UNCHANGED faults

NumChunks(x) == (Len(x) + ChunkSize - 1) \div ChunkSize

\* The i-th piece (from 1) of x in pieces of n units.
Piece(x, n, i) == SubSeq(x, (i - 1) * n + 1, IF i * n < Len(x) THEN i * n ELSE Len(x))

\* What the program makes of future.get(): only EEXIST and ENOENT are caught,
\* another exception ends it through std::terminate.
ExitCode(result) ==
  CASE result = "value" -> 0
    [] result \in {"EEXIST", "ENOENT"} -> 1
    [] OTHER -> 134

(***************************************************************************)
(* putFile: the client's thread.                                           *)
(***************************************************************************)

PutUnchanged == UNCHANGED <<committed, get, del>>

\* The promise is set and the thread ends; an unfinished call is cancelled.
PutReady(w, result) ==
  put' = [put EXCEPT ![w].pc = "ready", ![w].result = result,
                     ![w].size = 0, ![w].at = 0, ![w].ended = FALSE,
                     ![w].broken = TRUE, ![w].sent = <<>>]

\* The local file is opened, and the call begins.
PutOpen(w, p) ==
  /\ put[w].pc = "idle"
  /\ \/ /\ put' = [put EXCEPT ![w].pc = "naming", ![w].path = p,
                              ![w].size = Len(LocalFiles[p])]
        /\ NoFault
     \/ /\ Fault("open")      \* no such file, or it cannot be read
        /\ put' = [put EXCEPT ![w].pc = "ready", ![w].path = p,
                              ![w].result = "runtime_error",
                              ![w].srv = "answered"]
  /\ PutUnchanged

\* Mutant: the whole buffer is sent each time, with what it held before.
NextPiece_WholeBuffer(w) ==
  [j \in 1..Buffer |->
     IF put[w].at + j <= put[w].size THEN LocalFiles[put[w].path][put[w].at + j]
     ELSE "old bytes"]

\* What file.read yields next: a buffer, or the rest that gcount() tells.
NextPiece(w) ==
  LET end == put[w].at + Buffer
  IN  SubSeq(LocalFiles[put[w].path], put[w].at + 1,
             IF end < put[w].size THEN end ELSE put[w].size)

\* An I/O error in read looks like the end of the file.
PutReadError(w) ==
  /\ put[w].pc = "streaming"
  /\ put[w].at < put[w].size
  /\ Fault("read")
  /\ \E n \in put[w].at..(put[w].size - 1) : put' = [put EXCEPT ![w].size = n]
  /\ PutUnchanged

\* writer->Write of the name, then of the pieces.  It waits for room in the
\* window; it fails when the stream is broken, and may fail when the handler
\* has answered already: then the thread throws without asking for the status.
PutWrite(w) ==
  LET naming == put[w].pc = "naming"
      message == IF naming THEN <<>> ELSE NextPiece(w)
  IN
  /\ naming \/ (put[w].pc = "streaming" /\ put[w].at < put[w].size)
  /\ \/ /\ ~put[w].broken
        /\ Len(put[w].sent) < Window
        /\ put' = [put EXCEPT ![w].pc = "streaming",
                              ![w].at = @ + Len(message),
                              ![w].sent = Append(@, message)]
     \/ /\ put[w].broken \/ put[w].srv = "answered"
        /\ PutReady(w, "runtime_error")
  /\ NoFault /\ PutUnchanged

\* Mutant: the stream is not half-closed.
WritesDone_Omitted(w) == put' = [put EXCEPT ![w].pc = "finishing"]

WritesDone(w) == put' = [put EXCEPT ![w].pc = "finishing", ![w].ended = TRUE]

PutWritesDone(w) ==
  /\ put[w].pc = "streaming"
  /\ put[w].at = put[w].size
  /\ WritesDone(w)
  /\ NoFault /\ PutUnchanged

\* Mutant: whatever is not ALREADY_EXISTS is taken for success.
PutResult_Unchecked(w) ==
  IF ~put[w].broken /\ put[w].status = "ALREADY_EXISTS" THEN "EEXIST" ELSE "value"

\* The status of writer->Finish turned into a value or an exception.
PutResult(w) ==
  CASE ~put[w].broken /\ put[w].status = "OK" -> "value"
    [] ~put[w].broken /\ put[w].status = "ALREADY_EXISTS" -> "EEXIST"
    [] OTHER -> "runtime_error"

PutFinish(w) ==
  /\ put[w].pc = "finishing"
  /\ put[w].broken \/ put[w].srv = "answered"
  /\ PutReady(w, PutResult(w))
  /\ NoFault /\ PutUnchanged

(***************************************************************************)
(* PutFile: the coordinator's handler.                                     *)
(***************************************************************************)

\* The call has reached the coordinator and has not been answered.
Serving(w) == put[w].pc # "idle" /\ put[w].srv # "answered"

\* The handler returns; its file_data and its chunk list go.
Answered(w, status) ==
  [put[w] EXCEPT !.srv = "answered", !.status = status, !.sent = <<>>,
                 !.named = FALSE, !.received = <<>>, !.chunks = 0,
                 !.stored = <<>>]

PutAnswer(w, status) == put' = [put EXCEPT ![w] = Answered(w, status)]

\* reader->Read yields a message: the first has the name, looked up at once.
SrvRead(w) ==
  /\ Serving(w)
  /\ put[w].srv = "reading" /\ put[w].sent # <<>>
  /\ \/ /\ ~put[w].named /\ committed[put[w].path] # NoFile
        /\ PutAnswer(w, "ALREADY_EXISTS")
     \/ /\ put[w].named \/ committed[put[w].path] = NoFile
        /\ put' = [put EXCEPT ![w].named = TRUE,
                              ![w].received = @ \o Head(put[w].sent),
                              ![w].sent = Tail(@)]
  /\ NoFault /\ PutUnchanged

\* reader->Read yields none: the client is done, or the stream is broken.
SrvEnd(w) ==
  /\ Serving(w)
  /\ put[w].srv = "reading" /\ put[w].sent = <<>>
  /\ put[w].ended \/ put[w].broken
  /\ \/ ~put[w].named /\ PutAnswer(w, "INVALID_ARGUMENT")
     \/ put[w].named /\ put' = [put EXCEPT ![w].srv = "splitting"]
  /\ NoFault /\ PutUnchanged

\* Mutant: the end of a chunk is off by one.
Slice_Short(x, i) == SubSeq(x, (i - 1) * ChunkSize + 1, i * ChunkSize - 1)

\* The i-th chunk (from 1).
Slice(x, i) == Piece(x, ChunkSize, i)

\* The next chunk is cut and distributed.  Its start is an int product: when
\* it overflows the compiled code may still have the exact offset, or the
\* string made from the wrong one throws, or is too large to be sent.
SrvChunk(w) ==
  /\ Serving(w)
  /\ put[w].srv = "splitting"
  /\ put[w].chunks < NumChunks(put[w].received)
  /\ \/ /\ put' = [put EXCEPT ![w].chunks = @ + 1,
                              ![w].stored = @ \o Slice(put[w].received,
                                                       put[w].chunks + 1)]
        /\ NoFault
     \/ /\ put[w].chunks * ChunkSize > MaxInt
        /\ PutAnswer(w, "UNKNOWN") \/ PutAnswer(w, "INTERNAL")
        /\ NoFault
     \/ Fault("node") /\ PutAnswer(w, "INTERNAL")
  /\ PutUnchanged

\* store_.putFile, and the answer, whether or not a client is there.
SrvCommit(w) ==
  /\ Serving(w)
  /\ put[w].srv = "splitting"
  /\ put[w].chunks = NumChunks(put[w].received)
  /\ committed' = [committed EXCEPT ![put[w].path] = put[w].stored]
  /\ put' = [put EXCEPT ![w] = [Answered(w, "OK") EXCEPT
                                  !.saved = put[w].stored]]
  /\ NoFault /\ UNCHANGED <<get, del>>

(***************************************************************************)
(* getFile and GetFile.                                                    *)
(***************************************************************************)

GetUnchanged == UNCHANGED <<committed, put, del>>

GetReady(r, result) ==
  get' = [get EXCEPT ![r].pc = "ready", ![r].result = result,
                     ![r].broken = TRUE]

GetCall(r, p) ==
  /\ get[r].pc = "idle"
  /\ get' = [get EXCEPT ![r].pc = "reading", ![r].path = p]
  /\ NoFault /\ GetUnchanged

\* reader->Read yields a message: content.append(resp.data()).
GetRead(r) ==
  /\ get[r].pc = "reading"
  /\ get[r].sent # <<>>
  /\ get' = [get EXCEPT ![r].got = @ \o Head(get[r].sent),
                        ![r].sent = Tail(@)]
  /\ NoFault /\ GetUnchanged

\* Mutant: the status is not asked for.
GetResult_Unchecked(r) ==
  IF get[r].broken \/ get[r].status # "NOT_FOUND" THEN "value" ELSE "ENOENT"

\* reader->Finish: the status, or the error of a broken stream.
GetResult(r) ==
  CASE ~get[r].broken /\ get[r].status = "OK" -> "value"
    [] ~get[r].broken /\ get[r].status = "NOT_FOUND" -> "ENOENT"
    [] OTHER -> "runtime_error"

\* reader->Read yields none.
GetFinish(r) ==
  /\ get[r].pc = "reading"
  /\ get[r].sent = <<>>
  /\ get[r].broken \/ get[r].srv = "answered"
  /\ GetReady(r, GetResult(r))
  /\ NoFault /\ GetUnchanged

GetAnswer(r, status) ==
  get' = [get EXCEPT ![r].srv = "answered", ![r].status = status]

\* The handler: the lookup.
SrvLookup(r) ==
  /\ get[r].pc # "idle" /\ get[r].srv = "called"
  /\ \/ committed[get[r].path] = NoFile /\ GetAnswer(r, "NOT_FOUND")
     \/ /\ committed[get[r].path] # NoFile
        /\ get' = [get EXCEPT ![r].srv = "sending",
                              ![r].content = committed[get[r].path]]
  /\ NoFault /\ GetUnchanged

\* One message per chunk.  No replica may have it, and writer->Write fails
\* when the stream is broken.
SrvSend(r) ==
  /\ get[r].srv = "sending"
  /\ get[r].chunks < NumChunks(get[r].content)
  /\ \/ /\ ~get[r].broken
        /\ Len(get[r].sent) < Window
        /\ get' = [get EXCEPT ![r].chunks = @ + 1,
                              ![r].sent = Append(@, Slice(get[r].content,
                                                          get[r].chunks + 1))]
        /\ NoFault
     \/ get[r].broken /\ GetAnswer(r, "INTERNAL") /\ NoFault
     \/ Fault("node") /\ GetAnswer(r, "INTERNAL")
  /\ GetUnchanged

SrvSent(r) ==
  /\ get[r].srv = "sending"
  /\ get[r].chunks = NumChunks(get[r].content)
  /\ GetAnswer(r, "OK")
  /\ NoFault /\ GetUnchanged

(***************************************************************************)
(* deleteFile and DeleteFile.                                              *)
(***************************************************************************)

DelCall(d, p) ==
  /\ del[d].pc = "idle"
  /\ del' = [del EXCEPT ![d].pc = "called", ![d].path = p]
  /\ NoFault /\ UNCHANGED <<committed, put, get>>

\* The handler; Coordinator has its two steps.
SrvDelete(d) ==
  /\ del[d].pc # "idle" /\ del[d].srv = "called"
  /\ committed' = [committed EXCEPT ![del[d].path] = NoFile]
  /\ del' = [del EXCEPT ![d].srv = "answered",
               ![d].status = IF committed[del[d].path] = NoFile
                             THEN "NOT_FOUND" ELSE "OK"]
  /\ NoFault /\ UNCHANGED <<put, get>>

DelResult(d) ==
  CASE ~del[d].broken /\ del[d].status = "OK" -> "value"
    [] ~del[d].broken /\ del[d].status = "NOT_FOUND" -> "ENOENT"
    [] OTHER -> "runtime_error"

DelFinish(d) ==
  /\ del[d].pc = "called"
  /\ del[d].broken \/ del[d].srv = "answered"
  /\ del' = [del EXCEPT ![d].pc = "ready", ![d].broken = TRUE,
               ![d].result = DelResult(d)]
  /\ NoFault /\ UNCHANGED <<committed, put, get>>

(***************************************************************************)
(* Failures, and the specification.                                        *)
(***************************************************************************)

Prefixes(s) == {SubSeq(s, 1, n) : n \in 0..Len(s)}

\* A connection breaks, or the client is killed: what was sent may be lost.
PutBreaks(w) ==
  /\ put[w].pc \in {"naming", "streaming", "finishing"} /\ ~put[w].broken
  /\ Fault("stream")
  /\ \E s \in Prefixes(put[w].sent) :
       put' = [put EXCEPT ![w].broken = TRUE, ![w].sent = s]
  /\ PutUnchanged

GetBreaks(r) ==
  /\ get[r].pc = "reading" /\ ~get[r].broken
  /\ Fault("stream")
  /\ \E s \in Prefixes(get[r].sent) :
       get' = [get EXCEPT ![r].broken = TRUE, ![r].sent = s]
  /\ GetUnchanged

DelBreaks(d) ==
  /\ del[d].pc = "called" /\ ~del[d].broken
  /\ Fault("stream")
  /\ \/ del' = [del EXCEPT ![d].broken = TRUE]
     \/ /\ del[d].srv = "called"              \* the request does not arrive
        /\ del' = [del EXCEPT ![d].broken = TRUE, ![d].srv = "answered",
                              ![d].status = "UNAVAILABLE"]
  /\ UNCHANGED <<committed, put, get>>

\* The coordinator dies (an overflow in SrvChunk may be the cause) and comes
\* back without its files; the handlers are gone and the streams broken.
Lost(r) ==
  IF r.pc # "idle" /\ r.srv # "answered"
  THEN [r EXCEPT !.srv = "answered", !.status = "UNAVAILABLE", !.broken = TRUE]
  ELSE r

Restart ==
  /\ Fault("restart")
  /\ committed' = [p \in Paths |-> NoFile]
  /\ put' = [w \in Puts |->
               IF Serving(w)
               THEN [Answered(w, "UNAVAILABLE") EXCEPT !.broken = TRUE]
               ELSE put[w]]
  /\ get' = [r \in Gets |-> Lost(get[r])]
  /\ del' = [d \in Dels |-> Lost(del[d])]

PutThread(w) ==
  PutWrite(w) \/ PutWritesDone(w) \/ PutFinish(w)
PutHandler(w) == SrvRead(w) \/ SrvEnd(w) \/ SrvChunk(w) \/ SrvCommit(w)
GetThread(r) == GetRead(r) \/ GetFinish(r)
GetHandler(r) == SrvLookup(r) \/ SrvSend(r) \/ SrvSent(r)

Next ==
  \/ \E w \in Puts : \/ \E p \in Paths : PutOpen(w, p)
                     \/ PutThread(w) \/ PutHandler(w)
                     \/ PutReadError(w) \/ PutBreaks(w)
  \/ \E r \in Gets : \/ \E p \in Paths : GetCall(r, p)
                     \/ GetThread(r) \/ GetHandler(r) \/ GetBreaks(r)
  \/ \E d \in Dels : \/ \E p \in Paths : DelCall(d, p)
                     \/ DelFinish(d) \/ SrvDelete(d) \/ DelBreaks(d)
  \/ Restart

Spec == Init /\ [][Next]_vars

\* Every call has a thread of its own on both sides and neither uses a
\* timeout; gRPC delivers what was written or reports the stream broken.
FairSpec ==
  /\ Spec
  /\ \A w \in Puts : WF_vars(PutThread(w)) /\ WF_vars(PutHandler(w))
  /\ \A r \in Gets : WF_vars(GetThread(r)) /\ WF_vars(GetHandler(r))
  /\ \A d \in Dels : WF_vars(DelFinish(d)) /\ WF_vars(SrvDelete(d))

(***************************************************************************)
(* Properties.                                                             *)
(***************************************************************************)

\* "client put" returns 0 only if the coordinator committed the whole local
\* file, although its handler takes a broken stream for the end of the upload
\* and commits what it has, and although the offset of a chunk may overflow.
\* An I/O error on the local file is the exception: nobody notices it.
UploadTruth ==
  faults["read"] = 0 =>
    \A w \in Puts :
      ExitCode(put[w].result) = 0 => put[w].saved = LocalFiles[put[w].path]

\* A file that is cut short gets into the store only when a connection broke,
\* a client was killed or could not read its file: an upload that gives up
\* because Write failed leaves nothing behind.
CommittedWhole ==
  faults["stream"] = 0 /\ faults["read"] = 0 =>
    \A p \in Paths : committed[p] \in {NoFile, LocalFiles[p]}

\* "client get" returns 0 only if it printed the whole file that the handler
\* found, whatever was lost of the stream: a download is never cut short
\* without an error.
DownloadTruth ==
  \A r \in Gets : ExitCode(get[r].result) = 0 => get[r].got = get[r].content

\* Every future becomes ready: no client waits in a full window or for an
\* answer for ever, whether the handler answers early, the stream breaks or
\* the coordinator restarts.
FuturesReady ==
  /\ \A w \in Puts : put[w].pc # "idle" ~> put[w].pc = "ready"
  /\ \A r \in Gets : get[r].pc # "idle" ~> get[r].pc = "ready"
  /\ \A d \in Dels : del[d].pc # "idle" ~> del[d].pc = "ready"
=============================================================================
