----------------------------- MODULE SyncContent -----------------------------
(***************************************************************************)
(* How the cache file of an open object is filled: CSDriver::syncContent,  *)
(* the requests that call it (Read, Write, SetFileSize) and the download   *)
(* tasks it hands to the DelayedWorker threads.                            *)
(*                                                                         *)
(* There is no map of what has been downloaded: the length of the cache    *)
(* file says it all.  A request that needs more than the file holds cuts   *)
(* the missing range into parts.  One part is downloaded by the callback   *)
(* itself; several are queued for the threads, which write them into the   *)
(* file in any order, and the callback waits for each part's result.  On   *)
(* the first bad result it interrupts the parts and waits for all of them. *)
(*                                                                         *)
(* One cache file; its callbacks are serialised by the per-name lock       *)
(* (NameGuard).  A unit of length is the least amount a stream delivers.   *)
(***************************************************************************)
EXTENDS Integers, Sequences

CONSTANTS
  ObjectSize,   (* the object's length in the store                        *)
  MaxSize,      (* bound on the file's length                              *)
  PartSize,     (* transfer_read_size_mib                                  *)
  ShortRead,    (* the part size for reads of the head, 1 MiB              *)
  Workers,      (* DelayedWorker's threads                                 *)
  Caller,       (* the thread in the callback                              *)
  Lengths,      (* lengths of the requests                                 *)
  Disturbances  (* what may happen besides reads, writes and resizes:      *)
                (* "alone" and "parallel" downloads fail, "append" requests *)

ASSUME Sizes == /\ ObjectSize \in Nat /\ MaxSize \in Nat /\ ObjectSize <= MaxSize
                /\ ShortRead \in Nat \ {0} /\ PartSize \in Nat
                /\ ShortRead <= PartSize
ASSUME Threads == Caller \notin Workers
ASSUME LengthsPositive == Lengths \subseteq Nat \ {0}
ASSUME DisturbancesKnown == Disturbances \subseteq {"alone", "parallel", "append"}

Data == {"object",   (* what the object holds at this place               *)
         "written",  (* written by a program                              *)
         "zero"}     (* never written: the file was extended over it      *)

VARIABLES
  local,     (* the cache file, unit by unit                              *)
  fileSize,  (* OpenDirEntry's mFileInfo.FileSize                         *)
  truth,     (* what the program expects to read: the object as opened,   *)
             (* changed by its writes                                     *)
  call,      (* the callback in progress                                  *)
  parts,     (* its FileParts                                             *)
  queue,     (* part numbers in the DelayedWorker's queue                 *)
  transfer,  (* transfer[t]: the part thread t downloads, 0 for none, and *)
             (* how much of it has been written                           *)
  torn       (* ghost: a parallel download has failed, or an append has   *)
             (* been made to a file not yet complete                      *)

cached == <<local, fileSize, truth>>
vars   == <<local, fileSize, truth, call, parts, queue, transfer, torn>>

Min(a, b) == IF a < b THEN a ELSE b
Max(a, b) == IF a > b THEN a ELSE b

Actors  == Workers \cup {Caller}
Nothing == [part |-> 0, written |-> 0]

TypeOK ==
  /\ local \in Seq(Data) /\ Len(local) <= MaxSize
  /\ fileSize \in 0 .. MaxSize
  /\ truth \in Seq(Data) /\ Len(truth) <= MaxSize
  /\ call \in [op : {"read", "write", "append", "resize"},
               offset : -1 .. MaxSize, length : 0 .. MaxSize,
               at : {"idle", "alone", "add", "collect", "interrupt", "drain", "ready"},
               part : 1 .. MaxSize + 1, answer : {"none", "ok", "error"}]
  /\ DOMAIN parts \subseteq 1 .. MaxSize
  /\ \A i \in DOMAIN parts :
        parts[i] \in [offset : 0 .. MaxSize, length : 1 .. MaxSize,
                      result : {"none", "ok", "bad"}, interrupt : BOOLEAN]
  /\ queue \in Seq(DOMAIN parts)
  /\ transfer \in [Actors -> [part : 0 .. Len(parts), written : 0 .. MaxSize]]
  /\ torn \in BOOLEAN

(* the file has just been opened and nothing is cached                      *)
Init ==
  /\ local = <<>>
  /\ fileSize = ObjectSize
  /\ truth = [i \in 1 .. ObjectSize |-> "object"]
  /\ call = [op |-> "read", offset |-> 0, length |-> 0, at |-> "idle",
             part |-> 1, answer |-> "none"]
  /\ parts = <<>>
  /\ queue = <<>>
  /\ transfer = [t \in Actors |-> Nothing]
  /\ torn = FALSE

------------------------------------------------------------------------------
(* files                                                                    *)

(* the file f cut or extended to n units                                    *)
Resized(f, n) == [i \in 1 .. n |-> IF i <= Len(f) THEN f[i] ELSE "zero"]

(* the file f with d written at o .. o + l - 1                              *)
Overlaid(f, o, l, d) ==
  [i \in 1 .. Max(Len(f), o + l) |->
     IF i \in o + 1 .. o + l THEN d ELSE IF i <= Len(f) THEN f[i] ELSE "zero"]

------------------------------------------------------------------------------
(* the parts of a download                                                  *)

(* one part too many when the parts fit exactly                             *)
CountsOneMore(n, unit) == n \div unit + 1

UnitCount(n, unit) == (n + unit - 1) \div unit

(* reads of the head of the file, for the properties dialog, get small parts *)
PartSizeOf(o, l) == IF o = 0 /\ o + l <= ShortRead THEN ShortRead ELSE PartSize

(* what must be downloaded besides what the file has: up to the end of the  *)
(* request, rounded up to whole parts, but not beyond the object            *)
RequiredSize(o, l) ==
  LET unit == PartSizeOf(o, l)
  IN Min(UnitCount(o + l, unit) * unit, fileSize) - Len(local)

(* parts laid out from the start of the file                                *)
IgnoresWhatIsThere(o, l) ==
  LET unit == PartSizeOf(o, l)
      required == RequiredSize(o, l)
  IN [i \in 1 .. UnitCount(required, unit) |->
        [offset |-> unit * (i - 1), length |-> Min(unit, required - unit * (i - 1)),
         result |-> "none", interrupt |-> FALSE]]

FileParts(o, l) ==
  LET unit == PartSizeOf(o, l)
      required == RequiredSize(o, l)
  IN [i \in 1 .. UnitCount(required, unit) |->
        [offset |-> Len(local) + unit * (i - 1),
         length |-> Min(unit, required - unit * (i - 1)),
         result |-> "none", interrupt |-> FALSE]]

(* compares the file with where the request starts                          *)
ChecksTheOffset(o, l) ==
  \/ l = 0 \/ fileSize = 0
  \/ Len(local) >= fileSize
  \/ Len(local) > o

(* a request for which nothing is missing is not kept waiting               *)
InSync(o, l) ==
  \/ l = 0 \/ fileSize = 0
  \/ Len(local) >= fileSize
  \/ Len(local) >= o + l

------------------------------------------------------------------------------
(* requests                                                                 *)

(* A callback starts.  An append is a write that WinFsp passes on with the  *)
(* offset -1, meaning the end of the file: the code uses it like any other  *)
(* offset.                                                                  *)
Requests ==
  {r \in [op : {"read", "write"}, offset : 0 .. MaxSize - 1, length : Lengths] :
      r.offset + r.length <= MaxSize}
  \cup {r \in [op : {"append"} \cap Disturbances, offset : {-1}, length : Lengths] :
          Max(Len(truth), Len(local)) + r.length <= MaxSize}
  \cup [op : {"resize"}, offset : {0}, length : 0 .. MaxSize]

Begin(r) ==
  /\ call.at = "idle"
  /\ LET ps == IF InSync(r.offset, r.length) THEN <<>> ELSE FileParts(r.offset, r.length)
     IN /\ parts' = ps
        /\ call' = [op |-> r.op, offset |-> r.offset, length |-> r.length,
                    at |-> CASE Len(ps) = 0 -> "ready"
                             [] Len(ps) = 1 -> "alone"
                             [] Len(ps) > 1 -> "add",
                    part |-> 1, answer |-> "none"]
        /\ transfer' = IF Len(ps) = 1 THEN [transfer EXCEPT ![Caller].part = 1]
                       ELSE transfer
  /\ UNCHANGED <<cached, queue, torn>>

(* the callback's next place, as it goes through the parts one by one       *)
NextPart(next) ==
  IF call.part < Len(parts) THEN [call EXCEPT !.part = @ + 1]
  ELSE [call EXCEPT !.at = next, !.part = 1]

(* addTask, part after part                                                 *)
AddTask ==
  /\ call.at = "add"
  /\ queue' = Append(queue, call.part)
  /\ call' = NextPart("collect")
  /\ UNCHANGED <<cached, parts, transfer, torn>>

(* getResult: wait for the part, and leave the loop at the first bad one    *)
Collect ==
  /\ call.at = "collect" /\ parts[call.part].result # "none"
  /\ call' = IF parts[call.part].result = "bad"
             THEN [call EXCEPT !.at = "interrupt", !.part = 1]
             ELSE NextPart("ready")
  /\ UNCHANGED <<cached, parts, queue, transfer, torn>>

(* mInterrupt = true, part after part                                       *)
Interrupt ==
  /\ call.at = "interrupt"
  /\ parts' = [parts EXCEPT ![call.part].interrupt = TRUE]
  /\ call' = NextPart("drain")
  /\ UNCHANGED <<cached, queue, transfer, torn>>

(* return after interrupting, without a second round of getResult           *)
DoesNotWait ==
  /\ call.at = "drain"
  /\ call' = [call EXCEPT !.at = "idle", !.answer = "error", !.part = 1]
  /\ torn' = TRUE
  /\ UNCHANGED <<cached, parts, queue, transfer>>

(* wait for every part, then answer ERROR_IO_DEVICE                         *)
Drain ==
  /\ call.at = "drain" /\ parts[call.part].result # "none"
  /\ IF call.part < Len(parts)
     THEN call' = [call EXCEPT !.part = @ + 1] /\ UNCHANGED torn
     ELSE /\ call' = [call EXCEPT !.at = "idle", !.answer = "error", !.part = 1]
          /\ torn' = TRUE
  /\ UNCHANGED <<cached, parts, queue, transfer>>

(* syncContent has returned success: the request itself.  Read answers from *)
(* the cache file.  Write writes to it, at its end for an append, and keeps *)
(* the larger of the two sizes; SetFileSize sets both.                      *)
Complete ==
  /\ call.at = "ready"
  /\ CASE call.op = "read" -> UNCHANGED <<cached, torn>>
       [] call.op = "resize" ->
            /\ local' = Resized(local, call.length)
            /\ truth' = Resized(truth, call.length)
            /\ fileSize' = call.length
            /\ UNCHANGED torn
       [] call.op \in {"write", "append"} ->
            LET end(f) == IF call.op = "append" THEN Len(f) ELSE call.offset
            IN /\ local' = Overlaid(local, end(local), call.length, "written")
               /\ truth' = Overlaid(truth, end(truth), call.length, "written")
               /\ fileSize' = Max(fileSize, Len(local'))
               /\ torn' = (torn \/ (call.op = "append" /\ Len(local) < fileSize))
  /\ call' = [call EXCEPT !.at = "idle", !.answer = "ok"]
  /\ UNCHANGED <<parts, queue, transfer>>

------------------------------------------------------------------------------
(* downloads                                                                *)

(* an interrupted task goes back to the end of the queue                    *)
RequeuesInterrupted(w) ==
  /\ transfer[w].part = 0 /\ queue # <<>>
  /\ IF parts[Head(queue)].interrupt
     THEN queue' = Append(Tail(queue), Head(queue)) /\ UNCHANGED transfer
     ELSE /\ queue' = Tail(queue)
          /\ transfer' = [transfer EXCEPT ![w].part = Head(queue)]
  /\ UNCHANGED <<cached, call, parts, torn>>

(* a thread takes the first task; an interrupted part is not downloaded     *)
Take(w) ==
  /\ transfer[w].part = 0 /\ queue # <<>>
  /\ queue' = Tail(queue)
  /\ IF parts[Head(queue)].interrupt
     THEN parts' = [parts EXCEPT ![Head(queue)].result = "bad"] /\ UNCHANGED transfer
     ELSE transfer' = [transfer EXCEPT ![w].part = Head(queue)] /\ UNCHANGED parts
  /\ UNCHANGED <<cached, call, torn>>

(* writeFileFromStream: one buffer from the stream to its place in the file *)
Store(t) ==
  LET p == parts[transfer[t].part]
      o == p.offset + transfer[t].written
  IN /\ transfer[t].part # 0 /\ transfer[t].written < p.length
     /\ o < ObjectSize
     /\ local' = Overlaid(local, o, 1, "object")
     /\ transfer' = [transfer EXCEPT ![t].written = @ + 1]
     /\ UNCHANGED <<fileSize, truth, call, parts, queue, torn>>

(* the end of a download; a range outside the object cannot be had          *)
EndTransfer(t) ==
  LET p == parts[transfer[t].part]
      good == transfer[t].written = p.length
  IN /\ transfer[t].part # 0
     /\ \/ good
        \/ (IF t = Caller THEN "alone" ELSE "parallel") \in Disturbances
        \/ p.offset + p.length > ObjectSize
     /\ transfer' = [transfer EXCEPT ![t] = Nothing]
     /\ IF t = Caller
        THEN /\ call' = IF good THEN [call EXCEPT !.at = "ready"]
                        ELSE [call EXCEPT !.at = "idle", !.answer = "error"]
             /\ UNCHANGED parts
        ELSE /\ parts' = [parts EXCEPT ![transfer[t].part].result =
                             IF good THEN "ok" ELSE "bad"]
             /\ UNCHANGED call
     /\ UNCHANGED <<cached, queue, torn>>

------------------------------------------------------------------------------
Download == \E t \in Actors : Store(t) \/ EndTransfer(t)
Proceed  == AddTask \/ Collect \/ Interrupt \/ Drain \/ Complete

Next ==
  \/ \E r \in Requests : Begin(r)
  \/ Proceed
  \/ \E w \in Workers : Take(w)
  \/ Download

Spec == Init /\ [][Next]_vars

(* the threads are scheduled and a download ends (the client has a timeout) *)
FairSpec ==
  /\ Spec
  /\ WF_vars(Proceed)
  /\ \A w \in Workers : WF_vars(Take(w))
  /\ \A t \in Actors : WF_vars(Store(t) \/ EndTransfer(t))

------------------------------------------------------------------------------
(* Properties                                                               *)

(* the units of the request's range that lie within the file                *)
Asked == call.offset + 1 .. Min(call.offset + call.length, fileSize)

(* A read that is answered delivers what the program last wrote there and   *)
(* otherwise what the object holds: where the file is long enough,          *)
(* "all content has been downloaded" (CSDriver_cb_util.cpp:292) and "the    *)
(* data of the range to read exists" (:306).                                *)
ReadsTheObject ==
  call.op = "read" /\ call.at = "idle" /\ call.answer = "ok" =>
    \A i \in Asked : i <= Len(local) /\ local[i] = truth[i]

(* The same, as long as no parallel download has failed and nothing was     *)
(* appended to an incomplete file: reads, writes, resizes and failed        *)
(* downloads of one part, in any order.                                     *)
ReadsTheObjectUnlessTorn == torn \/ ReadsTheObject

(* A callback returns only when its parts have ended: no thread writes to   *)
(* the file any more, or holds or finds a task of it, once another request  *)
(* may change the file.                                                     *)
QuietBetweenCalls ==
  call.at \in {"idle", "ready"} =>
    /\ queue = <<>>
    /\ \A t \in Actors : transfer[t] = Nothing

(* A download never overwrites what a program has written into the cache    *)
(* file and not yet uploaded.                                               *)
KeepsWrites ==
  [][call.at # "ready" =>
       \A i \in 1 .. Len(local) : local[i] = "written" => local'[i] = "written"]_vars

(* Every request is answered, whatever parts fail.                          *)
Answered == call.at # "idle" ~> call.at = "idle"

==============================================================================
