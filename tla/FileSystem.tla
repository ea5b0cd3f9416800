----------------------------- MODULE FileSystem -----------------------------
(***************************************************************************)
(* What the clients of the coordinator may rely on: a map from paths to    *)
(* files, and requests that are answered once.  No chunks, no replicas, no *)
(* tombstones and no locks.                                                *)
(*                                                                         *)
(* An upload looks its name up when it begins and stores the file when it  *)
(* ends, so two uploads of one name may both succeed.  A download looks    *)
(* its name up, opens the file later and then delivers that file.  The     *)
(* exceptions are the ones the system really has: a download that a        *)
(* deletion or another upload overtook may deliver anything, so may one    *)
(* that a data node served a shortened chunk after a read error, and so    *)
(* may every download once a data node has acknowledged a damaged chunk.   *)
(***************************************************************************)
EXTENDS Naturals, Sequences

CONSTANTS
  Paths, NoFile,
  Content(_),        \* the content of a file
  Puts, Gets, Dels   \* requests, one-shot

VARIABLES
  files,             \* path -> the file stored there, or NoFile
  damaged,           \* a short write has been acknowledged
  put, get, del      \* request -> how far it is

vars == <<files, damaged, put, get, del>>

NewPut == [path |-> NoFile, data |-> <<>>, answer |-> "idle"]
NewGet == [path |-> NoFile, file |-> NoFile, overtaken |-> FALSE,
           shortened |-> FALSE, data |-> <<>>, answer |-> "idle"]
NewDel == [path |-> NoFile, answer |-> "idle"]

Init ==
  /\ files = [p \in Paths |-> NoFile]
  /\ damaged = FALSE
  /\ put = [w \in Puts |-> NewPut]
  /\ get = [r \in Gets |-> NewGet]
  /\ del = [d \in Dels |-> NewDel]

(***************************************************************************)
(* Uploads.                                                                *)
(***************************************************************************)

PutAnswer(w, answer) ==
  put' = [put EXCEPT ![w] = [NewPut EXCEPT !.answer = answer]]

\* The name is taken, or the upload goes on with some content.
PutBegin(w, p) ==
  /\ put[w].answer = "idle"
  /\ \/ files[p] # NoFile /\ PutAnswer(w, "ALREADY_EXISTS")
     \/ /\ files[p] = NoFile
        /\ put' = [put EXCEPT ![w].path = p, ![w].answer = "pending",
                              ![w].data = put'[w].data]
  /\ UNCHANGED <<files, damaged, get, del>>

\* The stream breaks: only the front of the content has arrived.
PutTruncate(w) ==
  /\ put[w].answer = "pending"
  /\ \E k \in 0..(Len(put[w].data) - 1) :
       put' = [put EXCEPT ![w].data = SubSeq(@, 1, k)]
  /\ UNCHANGED <<files, damaged, get, del>>

\* The file appears at once and as a whole, and the answer is OK.
PutCommit(w) ==
  /\ put[w].answer = "pending"
  /\ files'[put[w].path] # NoFile
  /\ Content(files'[put[w].path]) = put[w].data
  /\ \A p \in Paths \ {put[w].path} : files'[p] = files[p]
  /\ PutAnswer(w, "OK")
  /\ UNCHANGED <<damaged, get, del>>

\* A failed upload leaves no file, and what was there stays.
PutFail(w) ==
  /\ \/ put[w].answer = "idle" /\ PutAnswer(w, "INVALID_ARGUMENT")
     \/ put[w].answer = "pending" /\ PutAnswer(w, "INTERNAL")
  /\ UNCHANGED <<files, damaged, get, del>>

(***************************************************************************)
(* Downloads.                                                              *)
(***************************************************************************)

GetAnswer(r, answer, data) ==
  get' = [get EXCEPT ![r] = [NewGet EXCEPT !.answer = answer, !.data = data]]

GetBegin(r, p) ==
  /\ get[r].answer = "idle"
  /\ \/ files[p] = NoFile /\ GetAnswer(r, "NOT_FOUND", <<>>)
     \/ /\ files[p] # NoFile
        /\ get' = [get EXCEPT ![r].path = p, ![r].answer = "pending"]
  /\ UNCHANGED <<files, damaged, put, del>>

\* The file that is delivered is the one stored now.
GetOpen(r) ==
  /\ get[r].answer = "pending"
  /\ get[r].file = NoFile
  /\ get'[r].file # NoFile
  /\ get[r].overtaken \/ get'[r].file = files[get[r].path]
  /\ get' = [get EXCEPT ![r].file = get'[r].file]
  /\ UNCHANGED <<files, damaged, put, del>>

\* The open file is no longer the one stored: its memory may go.
GetOvertaken(r) ==
  /\ get[r].answer = "pending"
  /\ get[r].file # NoFile
  /\ get[r].file # files[get[r].path]
  /\ get' = [get EXCEPT ![r].overtaken = TRUE]
  /\ UNCHANGED <<files, damaged, put, del>>

\* A read error passes for the end of a chunk of the open file, whether its
\* memory has gone by then or not.
GetShortened(r) ==
  /\ get[r].answer = "pending"
  /\ get[r].file # NoFile
  /\ get[r].overtaken => get'[r].overtaken
  /\ get'[r].overtaken => \/ get[r].overtaken
                          \/ get[r].file # files[get[r].path]
  /\ get' = [get EXCEPT ![r].shortened = TRUE,
                        ![r].overtaken = get'[r].overtaken]
  /\ UNCHANGED <<files, damaged, put, del>>

\* OK comes with the whole content of the file.
GetEnd(r) ==
  /\ get[r].answer = "pending"
  /\ get[r].file # NoFile
  /\ \/ GetAnswer(r, "INTERNAL", <<>>)
     \/ /\ \/ get[r].overtaken
           \/ get[r].shortened
           \/ damaged
           \/ get'[r].data = Content(get[r].file)
        /\ GetAnswer(r, "OK", get'[r].data)
  /\ UNCHANGED <<files, damaged, put, del>>

(***************************************************************************)
(* Deletions.                                                              *)
(***************************************************************************)

DelAnswer(d, answer) ==
  del' = [del EXCEPT ![d] = [NewDel EXCEPT !.answer = answer]]

DelBegin(d, p) ==
  /\ del[d].answer = "idle"
  /\ \/ files[p] = NoFile /\ DelAnswer(d, "NOT_FOUND")
     \/ /\ files[p] # NoFile
        /\ del' = [del EXCEPT ![d].path = p, ![d].answer = "pending"]
  /\ UNCHANGED <<files, damaged, put, get>>

\* The name is free again before the answer.  Downloads that have looked the
\* name up and not opened the file are overtaken.
DelEnd(d) ==
  /\ del[d].answer = "pending"
  /\ files' = [files EXCEPT ![del[d].path] = NoFile]
  /\ get' = [r \in Gets |->
               [get[r] EXCEPT !.overtaken = @ \/ (get[r].answer = "pending"
                                                  /\ get[r].file = NoFile
                                                  /\ get[r].path = del[d].path)]]
  /\ DelAnswer(d, "OK")
  /\ UNCHANGED <<damaged, put>>

(***************************************************************************)
(* The environment, and the specification.                                 *)
(***************************************************************************)

\* Chunks, replicas and tombstones change, and nothing a client can see.
Internal == UNCHANGED vars

Damage ==
  /\ damaged' = TRUE
  /\ UNCHANGED <<files, put, get, del>>

\* The coordinator dies: the files are gone, and requests under way get no
\* answer from it.
Lose(requests, new) ==
  [x \in DOMAIN requests |->
     IF requests[x].answer = "pending"
     THEN [new EXCEPT !.answer = "UNAVAILABLE"] ELSE requests[x]]

Reset ==
  /\ files' = [p \in Paths |-> NoFile]
  /\ put' = Lose(put, NewPut)
  /\ get' = Lose(get, NewGet)
  /\ del' = Lose(del, NewDel)
  /\ UNCHANGED damaged

Next ==
  \/ Internal
  \/ \E w \in Puts : \/ \E p \in Paths : PutBegin(w, p)
                     \/ PutTruncate(w)
                     \/ PutCommit(w)
                     \/ PutFail(w)
  \/ \E r \in Gets : \/ \E p \in Paths : GetBegin(r, p)
                     \/ GetOpen(r)
                     \/ GetOvertaken(r)
                     \/ GetShortened(r)
                     \/ GetEnd(r)
  \/ \E d \in Dels : \/ \E p \in Paths : DelBegin(d, p)
                     \/ DelEnd(d)
  \/ Damage
  \/ Reset

Spec == Init /\ [][Next]_vars
=============================================================================
