--------------------------- MODULE MultipartUpload ---------------------------
(***************************************************************************)
(* SdkS3Client::PutObject: an object of one part is put by the caller      *)
(* itself, a larger one as a multipart upload whose parts the              *)
(* DelayedWorker threads send while the caller waits for their results.    *)
(*                                                                         *)
(* A part that fails aborts the upload; the caller, on the first bad       *)
(* result, interrupts the parts that have not started and waits for all of *)
(* them, since they hold its data.  API calls fail, may be carried out     *)
(* although their answer is lost, and some are repeated.                   *)
(*                                                                         *)
(* Each caller makes one call, for an object of its own: the name's lock   *)
(* (NameGuard) keeps a second one for that object away, and keeps the      *)
(* cache file as it is.  The pool is that of DelayedWorker while the       *)
(* service runs.                                                           *)
(***************************************************************************)
EXTENDS Integers, Sequences, FiniteSets, SequencesExt

CONSTANTS
  Callers,           (* threads in PutObject                               *)
  Workers,           (* DelayedWorker's threads                            *)
  Sizes,             (* sizes of the cache files                           *)
  PartSize,          (* transfer_write_size_mib                            *)
  MaxApiRetryCount,
  Disturbances       (* "read": the cache file may fail to be read         *)

ASSUME SizesAreSizes == Sizes \subseteq Nat
ASSUME PartSizePositive == PartSize \in Nat \ {0}
ASSUME RetriesAreNumbers == MaxApiRetryCount \in Nat
ASSUME DisturbancesKnown == Disturbances \subseteq {"read"}

VARIABLES
  call,      (* call[c]: where caller c is                                 *)
  parts,     (* parts[c]: its FileParts                                    *)
  queue,     (* the pool's queue: <<caller, part>>                         *)
  work,      (* work[w]: what thread w does                                *)
  object,    (* object[c]: the object in the bucket                        *)
  upload,    (* upload[c]: the multipart upload at the store               *)
  trouble,   (* ghost, trouble[c]: what has failed for c                   *)
  crashed    (* the process has ended by an access violation               *)

vars == <<call, parts, queue, work, object, upload, trouble, crashed>>

(* the object before; the units of the file are numbered from 1            *)
Old == <<0>>

NoCall == [at |-> "idle", size |-> 0, part |-> 1, tries |-> 0, answer |-> "none"]
NoWork == [at |-> "idle", for |-> <<>>, tries |-> 0]

(* the units o + 1 .. o + l of the cache file                               *)
Content(o, l) == [i \in 1 .. l |-> o + i]

TypeOK ==
  /\ \A c \in Callers :
        /\ call[c] \in [at : {"idle", "read", "put", "create", "add", "collect", "interrupt",
                              "drain", "complete", "done"},
                        size : Sizes \cup {0}, part : 1 .. Len(parts[c]) + 1, tries : Nat,
                        answer : {"none", "ok", "error"}]
        /\ parts[c] \in Seq([offset : Nat, length : Nat \ {0},
                             result : {"none", "etag", "bad"}, interrupt : BOOLEAN])
        (* each part lies in the file, and all but one are PartSize long   *)
        /\ \A i \in DOMAIN parts[c] :
              /\ parts[c][i].offset + parts[c][i].length <= call[c].size
              /\ i < Len(parts[c]) => parts[c][i].length = PartSize
        /\ upload[c].state \in {"none", "open", "aborted", "completed"}
        /\ upload[c].stored \in Seq(Seq(Nat))
        /\ trouble[c] \subseteq {"read", "put", "create", "part", "abort", "complete"}
  /\ \A w \in Workers :
        /\ work[w].at \in {"idle", "send", "abort"}
        /\ work[w].tries \in 0 .. MaxApiRetryCount
  /\ IsInjective(queue)
  /\ crashed \in BOOLEAN

Init ==
  /\ call = [c \in Callers |-> NoCall]
  /\ parts = [c \in Callers |-> <<>>]
  /\ queue = <<>>
  /\ work = [w \in Workers |-> NoWork]
  /\ object = [c \in Callers |-> Old]
  /\ upload = [c \in Callers |-> [state |-> "none", stored |-> <<>>]]
  /\ trouble = [c \in Callers |-> {}]
  /\ crashed = FALSE

------------------------------------------------------------------------------
(* The store                                                                *)

(* A call is carried out or not, and answered with success or with an error *)
(* that is worth a retry or is not.  Success is never claimed for a call    *)
(* that was not carried out; a lost answer is worth a retry.                *)
Outcomes == {o \in [done : BOOLEAN, says : {"ok", "again", "never"}] :
               /\ o.says = "ok" => o.done
               /\ o.says = "never" => ~o.done}

(* calls about an upload that is not open fail                              *)
OutcomesOf(c) == {o \in Outcomes : upload[c].state # "open" => ~o.done /\ o.says = "never"}

(* CompleteMultipartUpload puts the parts together                          *)
Assembled(c) == FlattenSeq(upload[c].stored)

(* executeWithRetry calls once, and again while the error is worth it and   *)
(* the count allows                                                         *)
Again(o, tries) == o.says = "again" /\ tries + 1 < MaxApiRetryCount

Fails(c, what) == trouble' = [trouble EXCEPT ![c] = @ \cup {what}]

------------------------------------------------------------------------------
(* The caller                                                               *)

Goto(c, there) ==
  /\ call' = [call EXCEPT ![c].at = there, ![c].part = 1]
  /\ UNCHANGED parts

(* the call returns and gives up its FileParts                              *)
Answer(c, a) ==
  /\ call' = [call EXCEPT ![c].at = "done", ![c].part = 1, ![c].answer = a]
  /\ parts' = [parts EXCEPT ![c] = <<>>]

UnitCount(n, unit) == (n + unit - 1) \div unit

(* for comparison: the last part as long as the others                      *)
PartsOfOneLength(size) ==
  [i \in 1 .. UnitCount(size, PartSize) |->
     [offset |-> (i - 1) * PartSize, length |-> PartSize,
      result |-> "none", interrupt |-> FALSE]]

FileParts(size) ==
  [i \in 1 .. UnitCount(size, PartSize) |->
     [offset |-> (i - 1) * PartSize,
      length |-> IF size - (i - 1) * PartSize < PartSize THEN size - (i - 1) * PartSize ELSE PartSize,
      result |-> "none", interrupt |-> FALSE]]

(* PutObjectInternal gets the file's size and decides.  A directory has no  *)
(* file.                                                                    *)
Begin(c, size, directory) ==
  /\ call[c].at = "idle"
  /\ directory => size = 0
  /\ LET n == UnitCount(size, PartSize) IN
       /\ call' = [call EXCEPT ![c].size = size,
                               ![c].at = IF n > 1 THEN "create" ELSE IF directory THEN "put" ELSE "read"]
       /\ parts' = [parts EXCEPT ![c] = IF n > 1 THEN FileParts(size) ELSE <<>>]
       /\ upload' = [upload EXCEPT ![c].stored = IF n > 1 THEN [i \in 1 .. n |-> <<>>] ELSE <<>>]
  /\ UNCHANGED <<queue, work, object, trouble>>

(* makeStreamFromFile fails, or GetFileSize before anything was asked       *)
CannotRead(c) ==
  /\ "read" \in Disturbances
  /\ call[c].at \in {"read", "create"}
  /\ Answer(c, "error")
  /\ Fails(c, "read")
  /\ UNCHANGED <<queue, work, object, upload>>

MakeStream(c) ==
  /\ call[c].at = "read"
  /\ Goto(c, "put")
  /\ UNCHANGED <<queue, work, object, upload, trouble>>

(* one PutObject call of uploadSimple's.  The code sends the length that    *)
(* argFileInfo has, which updateFileInfo keeps equal to the cache file's.   *)
UploadSimple(c) ==
  /\ call[c].at = "put"
  /\ \E o \in Outcomes :
        /\ object' = IF o.done THEN [object EXCEPT ![c] = Content(0, call[c].size)] ELSE object
        /\ IF o.says = "ok" THEN UNCHANGED trouble ELSE Fails(c, "put")
        /\ IF Again(o, call[c].tries)
           THEN call' = [call EXCEPT ![c].tries = @ + 1] /\ UNCHANGED parts
           ELSE Answer(c, IF o.says = "ok" THEN "ok" ELSE "error")
  /\ UNCHANGED <<queue, work, upload>>

(* CreateMultipartUpload, once                                              *)
Create(c) ==
  /\ call[c].at = "create"
  /\ \E o \in Outcomes :
        /\ upload' = IF o.done THEN [upload EXCEPT ![c].state = "open"] ELSE upload
        /\ IF o.says = "ok"
           THEN Goto(c, "add") /\ UNCHANGED trouble
           ELSE Answer(c, "error") /\ Fails(c, "create")
  /\ UNCHANGED <<queue, work, object>>

(* the step to the next part, or on to there                                *)
NextPart(c, there) ==
  IF call[c].part < Len(parts[c])
  THEN call' = [call EXCEPT ![c].part = @ + 1] /\ UNCHANGED parts
  ELSE Goto(c, there)

AddTask(c) ==
  /\ call[c].at = "add"
  /\ queue' = Append(queue, <<c, call[c].part>>)
  /\ NextPart(c, "collect")
  /\ UNCHANGED <<work, object, upload, trouble>>

(* for comparison: a bad result is passed over                              *)
IgnoresBadParts(c) ==
  /\ call[c].at = "collect"
  /\ parts[c][call[c].part].result # "none"
  /\ NextPart(c, "complete")
  /\ UNCHANGED <<queue, work, object, upload, trouble>>

(* getResult of one part after the other, up to the first bad one           *)
Collect(c) ==
  LET result == parts[c][call[c].part].result IN
  /\ call[c].at = "collect"
  /\ \/ result = "etag" /\ NextPart(c, "complete")
     \/ result = "bad" /\ Goto(c, "interrupt")
  /\ UNCHANGED <<queue, work, object, upload, trouble>>

(* for comparison: interrupts whatever is queued                            *)
InterruptsEverybody(c) ==
  /\ call[c].at = "interrupt"
  /\ parts' = [d \in Callers |-> [i \in DOMAIN parts[d] |-> [parts[d][i] EXCEPT !.interrupt = TRUE]]]
  /\ call' = [call EXCEPT ![c].at = "drain", ![c].part = 1]
  /\ UNCHANGED <<queue, work, object, upload, trouble>>

Interrupt(c) ==
  /\ call[c].at = "interrupt"
  /\ parts' = [parts EXCEPT ![c][call[c].part].interrupt = TRUE]
  /\ call' = IF call[c].part < Len(parts[c]) THEN [call EXCEPT ![c].part = @ + 1]
             ELSE [call EXCEPT ![c].at = "drain", ![c].part = 1]
  /\ UNCHANGED <<queue, work, object, upload, trouble>>

(* for comparison: returns at once                                          *)
DoesNotWait(c) ==
  /\ call[c].at = "drain"
  /\ Answer(c, "error")
  /\ UNCHANGED <<queue, work, object, upload, trouble>>

(* getResult of every part before its data is given up                      *)
Drain(c) ==
  /\ call[c].at = "drain"
  /\ parts[c][call[c].part].result # "none"
  /\ IF call[c].part < Len(parts[c]) THEN NextPart(c, "drain") ELSE Answer(c, "error")
  /\ UNCHANGED <<queue, work, object, upload, trouble>>

(* CompleteMultipartUpload, once                                            *)
Complete(c) ==
  /\ call[c].at = "complete"
  /\ \E o \in OutcomesOf(c) :
        /\ IF o.done
           THEN /\ upload' = [upload EXCEPT ![c] = [state |-> "completed", stored |-> <<>>]]
                /\ object' = [object EXCEPT ![c] = Assembled(c)]
           ELSE UNCHANGED <<upload, object>>
        /\ IF o.says = "ok"
           THEN Answer(c, "ok") /\ UNCHANGED trouble
           ELSE Answer(c, "error") /\ Fails(c, "complete")
  /\ UNCHANGED <<queue, work>>

------------------------------------------------------------------------------
(* A thread of the pool runs an UploadFilePartTask                          *)

Interrupted(task) == parts[task[1]][task[2]].interrupt

(* setResult, and the task is over                                          *)
SetResult(w, task, result) ==
  /\ parts' = [parts EXCEPT ![task[1]][task[2]].result = result]
  /\ work' = [work EXCEPT ![w] = NoWork]

(* for comparison: an interrupted task leaves without a result              *)
LeavesWhenInterrupted(w) ==
  /\ work[w] = NoWork
  /\ queue # <<>>
  /\ work' = [work EXCEPT ![w] = IF Interrupted(Head(queue)) THEN NoWork
                                 ELSE [NoWork EXCEPT !.at = "send", !.for = Head(queue)]]
  /\ queue' = Tail(queue)
  /\ UNCHANGED <<call, parts, object, upload, trouble>>

(* The task is taken from the queue, looks for an interrupt and otherwise   *)
(* makes a stream of its part of the file; nobody sees the steps between.   *)
Take(w) ==
  /\ work[w] = NoWork
  /\ queue # <<>>
  /\ IF Interrupted(Head(queue))
     THEN SetResult(w, Head(queue), "bad")
     ELSE /\ work' = [work EXCEPT ![w] = [NoWork EXCEPT !.at = "send", !.for = Head(queue)]]
          /\ UNCHANGED parts
  /\ queue' = Tail(queue)
  /\ UNCHANGED <<call, object, upload, trouble>>

(* The stream cannot be made: "return nullptr" makes an optional string out *)
(* of a null pointer, which is an access violation, or an exception of a    *)
(* library that looks, and that the task catches.  No abort.                *)
CannotReadPart(w) ==
  /\ "read" \in Disturbances
  /\ work[w] = NoWork
  /\ queue # <<>> /\ ~Interrupted(Head(queue))
  /\ Fails(Head(queue)[1], "read")
  /\ \/ crashed' = TRUE /\ UNCHANGED <<parts, work>>
     \/ SetResult(w, Head(queue), "bad") /\ UNCHANGED crashed
  /\ queue' = Tail(queue)
  /\ UNCHANGED <<call, object, upload>>

(* for comparison: a failed part does not abort the upload                  *)
LeavesItOpen(w) ==
  LET c == work[w].for[1]
      i == work[w].for[2]
  IN
  /\ work[w].at = "send"
  /\ \E o \in OutcomesOf(c) :
        /\ upload' = IF o.done THEN [upload EXCEPT ![c].stored[i] = Content(parts[c][i].offset, parts[c][i].length)]
                     ELSE upload
        /\ IF o.says = "ok" THEN UNCHANGED trouble ELSE Fails(c, "part")
        /\ SetResult(w, work[w].for, IF o.says = "ok" THEN "etag" ELSE "bad")
  /\ UNCHANGED <<call, queue, object>>

(* one UploadPart call                                                      *)
UploadPart(w) ==
  LET c == work[w].for[1]
      i == work[w].for[2]
  IN
  /\ work[w].at = "send"
  /\ \E o \in OutcomesOf(c) :
        /\ upload' = IF o.done THEN [upload EXCEPT ![c].stored[i] = Content(parts[c][i].offset, parts[c][i].length)]
                     ELSE upload
        /\ IF o.says = "ok" THEN UNCHANGED trouble ELSE Fails(c, "part")
        /\ CASE o.says = "ok" -> SetResult(w, work[w].for, "etag")
             [] Again(o, work[w].tries) -> work' = [work EXCEPT ![w].tries = @ + 1] /\ UNCHANGED parts
             [] OTHER -> work' = [work EXCEPT ![w].at = "abort"] /\ UNCHANGED parts
  /\ UNCHANGED <<call, queue, object>>

(* AbortMultipartUpload, once; its own outcome is not looked at             *)
Abort(w) ==
  LET c == work[w].for[1] IN
  /\ work[w].at = "abort"
  /\ \E done \in BOOLEAN :
        /\ upload' = IF done THEN [upload EXCEPT ![c] = [state |-> "aborted", stored |-> <<>>]] ELSE upload
        /\ IF done \/ upload[c].state # "open" THEN UNCHANGED trouble ELSE Fails(c, "abort")
  /\ SetResult(w, work[w].for, "bad")
  /\ UNCHANGED <<call, queue, object>>

------------------------------------------------------------------------------
Proceed(c) ==
  \/ MakeStream(c) \/ UploadSimple(c) \/ Create(c) \/ AddTask(c)
  \/ Collect(c) \/ Interrupt(c) \/ Drain(c) \/ Complete(c)

Run(w) == Take(w) \/ UploadPart(w) \/ Abort(w)

Returned(c) == call[c].at = "done"

Next ==
  /\ ~crashed
  /\ \/ /\ \/ \E c \in Callers :
                \/ \E size \in Sizes, directory \in BOOLEAN : Begin(c, size, directory)
                \/ CannotRead(c) \/ Proceed(c)
           \/ \E w \in Workers : Run(w)
        /\ UNCHANGED crashed
     \/ \E w \in Workers : CannotReadPart(w)

(* Requests have time limits, so each thread in a call goes on.             *)
Spec ==
  /\ Init /\ [][Next]_vars
  /\ \A c \in Callers : WF_vars(~crashed /\ Proceed(c) /\ UNCHANGED crashed)
  /\ \A w \in Workers : WF_vars(~crashed /\ Run(w) /\ UNCHANGED crashed)

------------------------------------------------------------------------------
(* Properties                                                               *)

Stage(c) ==
  CASE call[c].at = "idle" -> "idle"
    [] Returned(c) -> call[c].answer
    [] OTHER -> "busy"

(* PutObject replaces the object as a whole or not at all, before it        *)
(* returns, and says true only when it has: however parts end, answers are  *)
(* lost and calls repeated (SdkS3Client::PutObjectInternal).                *)
Put == INSTANCE AtomicPut WITH
         Old <- Old,
         Contents <- {Content(0, s) : s \in Sizes \cup {0}},
         stage <- [c \in Callers |-> Stage(c)],
         content <- [c \in Callers |-> Content(0, call[c].size)]

ReplacesAsAWhole == Put!Spec

(* When PutObject has returned none of its tasks is queued or at work: they *)
(* use the caller's parts, its file and its name, whose lock is given up.   *)
QuietAfterReturn ==
  \A c \in Callers : Returned(c) =>
    /\ \A i \in DOMAIN queue : queue[i][1] # c
    /\ \A w \in Workers : work[w] # NoWork => work[w].for[1] # c

(* An upload whose part fails is not left at the store, unless the abort    *)
(* itself, the call that made the upload or the one that completes it       *)
(* failed, or the cache file could not be read (uploadPart).                *)
AbortsOnFailure ==
  \A c \in Callers :
    Returned(c) /\ upload[c].state = "open" =>
      trouble[c] \cap {"abort", "create", "complete", "read"} # {}

(* A call fails only for what failed in it: another upload in the same pool *)
(* neither interrupts its parts nor takes their results.                    *)
FailsByItself ==
  \A c \in Callers : call[c].answer = "error" => trouble[c] # {}

(* A call is answered: no caller waits for the result of a part that nobody *)
(* will send.                                                               *)
Answered == \A c \in Callers : call[c].at # "idle" ~> (Returned(c) \/ crashed)

==============================================================================
