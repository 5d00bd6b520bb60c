----------------------------- MODULE Directories -----------------------------
(***************************************************************************)
(* The callbacks that read and delete a directory, next to those that      *)
(* create, open, delete and close the files in it, over the operations of  *)
(* ObjectCache.                                                            *)
(*                                                                         *)
(* A directory has two sources: the objects listed in the bucket, and the  *)
(* table mOpenDirEntry, which has the files that were created but not      *)
(* uploaded yet.  ReadDirectory reads the table first and the listing      *)
(* then; a file's Close uploads it, invalidates the listing, and takes the *)
(* file off the table, in this order.  SetDelete of a directory deletes    *)
(* what a listing shows until it shows nothing.  Callbacks of a file hold  *)
(* the lock of its name, not of the directory's.                           *)
(*                                                                         *)
(* FileDriver has the contexts and their counts; here a file has at most   *)
(* one handle, and only listings are cached.                               *)
(***************************************************************************)
EXTENDS ObjectCache

CONSTANTS Dir   (* the directory that is read and deleted                  *)

ASSUME DirKnown == Dir \in Dirs /\ \A f \in Files : Parent[f] = Dir

(* callbacks: whether threads run the callbacks of this module, or single  *)
(* operations; condition: the setting DeleteDirCondition                   *)
ASSUME CallbacksKnown ==
  \A w \in Worlds : w.callbacks \in BOOLEAN /\ w.condition \in 1 .. 2

VARIABLES
  mOpen,     (* the files of Dir in mOpenDirEntry                          *)
  doomed,    (* those whose cache file goes with its handle                *)
  job,       (* job[t]: the callback of a directory, or Close, t is in     *)
  stays      (* stays[t]: ghost, the files that have been there since the  *)
             (* callback of t began                                        *)

dirVars == <<vars, mOpen, doomed, job, stays>>

NoJob == [call |-> "none", locked |-> {}, at |-> "", shown |-> {}, unsure |-> FALSE]

DirectoriesTypeOK ==
  /\ TypeOK
  /\ doomed \subseteq mOpen /\ mOpen \subseteq world.keys
  /\ \A t \in Threads :
        /\ job[t].shown \cup stays[t] \subseteq Files
        /\ job[t].call = "none" => job[t] = NoJob /\ stays[t] = {}

DirInit ==
  /\ Init
  /\ mOpen = {} /\ doomed = {}
  /\ job = [t \in Threads |-> NoJob]
  /\ stays = [t \in Threads |-> {}]

------------------------------------------------------------------------------
Unlocked(name) == \A t \in Threads : name \notin job[t].locked \cup op[t].locked

Begin(t, call, names, shown, there) ==
  /\ job[t] = NoJob /\ op[t] = Idle
  /\ job' = [job EXCEPT ![t] = [NoJob EXCEPT !.call = call, !.locked = names,
                                            !.at = "list", !.shown = shown]]
  /\ stays' = [stays EXCEPT ![t] = there]

Finish(t) ==
  /\ job' = [job EXCEPT ![t] = NoJob]
  /\ stays' = [stays EXCEPT ![t] = {}]

(* files that are deleted, or closed without ever having been stored       *)
Lost(fs) == stays' = [t \in Threads |-> stays[t] \ fs]

InBucket == {f \in Files : store[f] # 0}

------------------------------------------------------------------------------
(* The callbacks of a file in the directory                                *)

(* Open of a file that is there, or Create of one that is not: either way  *)
(* it is registered.  WinFsp's guard lets no Create run beside a           *)
(* ReadDirectory or SetDelete.                                             *)
OpenOrCreate(f) ==
  /\ Unlocked(f) /\ f \in world.keys \ mOpen
  /\ f \in InBucket \/ \A t \in Threads : job[t].call \notin {"ReadDirectory", "SetDelete"}
  /\ mOpen' = mOpen \cup {f}
  /\ UNCHANGED <<vars, doomed, job, stays>>

(* SetDelete of a file: the cache file is marked, then deleteObject        *)
DeleteFile(t, f) ==
  /\ Unlocked(f) /\ f \in mOpen \ doomed
  /\ job[t] = NoJob
  /\ Change(t, "deleteObject", <<f>>) \/ FailedChange(t, "deleteObject", <<f>>)
  /\ doomed' = doomed \cup {f}
  /\ Lost({f})
  /\ UNCHANGED <<mOpen, job>>

(* Close without an upload, which fails or is not called for               *)
CloseOnly(f) ==
  /\ Unlocked(f) /\ f \in mOpen
  /\ mOpen' = mOpen \ {f}
  /\ doomed' = doomed \ {f}
  /\ Lost({f} \ InBucket)
  /\ UNCHANGED <<vars, job>>

(* ... or fails although the object was stored                             *)
CloseFails(t, f) ==
  /\ Unlocked(f) /\ f \in mOpen \ doomed
  /\ job[t] = NoJob
  /\ FailedChange(t, "putObject", <<f>>)
  /\ mOpen' = mOpen \ {f}
  /\ UNCHANGED <<doomed, job, stays>>

(* Close with an upload: putObject, then the release of the path           *)
CloseUpload(t, f) ==
  /\ Unlocked(f) /\ f \in mOpen \ doomed
  /\ Begin(t, "Close", {f}, {}, {})
  /\ Change(t, "putObject", <<f>>)
  /\ UNCHANGED <<mOpen, doomed>>

ReleaseFile(t) ==
  /\ job[t].call = "Close" /\ op[t] = Idle
  /\ mOpen' = mOpen \ job[t].locked
  /\ doomed' = doomed \ job[t].locked
  /\ Finish(t)
  /\ UNCHANGED vars

------------------------------------------------------------------------------
(* ReadDirectory and SetDelete of the directory                            *)

(* copy_if takes the open files, without the lock of any name              *)
ReadDirectory(t) ==
  /\ Begin(t, "ReadDirectory", {}, mOpen, InBucket \cup (mOpen \ doomed))
  /\ UNCHANGED <<vars, mOpen, doomed>>

SetDelete(t) ==
  /\ Unlocked(Dir)
  /\ Begin(t, "SetDelete", {Dir}, {}, InBucket \ mOpen)
  /\ UNCHANGED <<vars, mOpen, doomed>>

(* Both ask for a listing under the lock of the directory's name, which is *)
(* refused while a failed one is remembered                                *)
List(t) ==
  /\ job[t].call \in {"ReadDirectory", "SetDelete"} /\ op[t] = Idle
  /\ job[t].at \in {"list", "list again"}
  /\ \A u \in Threads \ {t} : Dir \notin job[u].locked \cup op[u].locked
  /\ IF Dir \in listNegative THEN Finish(t) /\ UNCHANGED vars
     ELSE /\ ListIsNegative(t, Dir, IF job[t].call = "SetDelete" THEN "listObjects"
                                    ELSE "listDisplayObjects")
          /\ UNCHANGED <<job, stays>>
  /\ UNCHANGED <<mOpen, doomed>>

(* for comparison: the open files are read after the listing               *)
CopiesAfterwards(t, listing) == listing \cup mOpen

(* ReadDirectory adds the files that are open to those listed              *)
ToShow(t, listing) == job[t].shown \cup listing

ListStep(t) ==
  LET cached  == op[t].at = "list positive"
      listing == IF cached THEN listPositive[Dir] ELSE op[t].listing
      over    == op'[t] = Idle
  IN /\ job[t].at \in {"list", "list again"}
     /\ ListUp(t)
     /\ CASE ~over -> UNCHANGED <<job, stays>>
          [] over /\ op[t].at = "list failed" -> Finish(t)
          [] over /\ op[t].at # "list failed" ->
               /\ job' = [job EXCEPT
                    ![t].at = IF @ = "list" THEN "first" ELSE "next",
                    ![t].shown = IF job[t].call = "SetDelete" THEN listing ELSE ToShow(t, listing),
                    ![t].unsure = @ \/ (cached /\ Doubted("list", Dir))]
               /\ UNCHANGED stays
     /\ UNCHANGED <<mOpen, doomed>>

(* what the user sees of a directory is shown                              *)
Show(t) ==
  /\ job[t].call = "ReadDirectory" /\ job[t].at = "first"
  /\ Finish(t)
  /\ UNCHANGED <<vars, mOpen, doomed>>

(* SetDelete goes on with what is listed, unless only empty directories    *)
(* may be deleted                                                          *)
Deletes(t) ==
  /\ job[t].call = "SetDelete" /\ job[t].at \in {"first", "next"}
  /\ job[t].at = "first" /\ world.condition = 2 => job[t].shown = {}

(* the deletion of the files' objects, as far as the keys name the files   *)
Removed(t) == {keys \in Changes("deleteObjects") : Range(keys) = job[t].shown}

(* the files' cache files first, then the objects, then a new listing      *)
DeleteFiles(t) ==
  /\ Deletes(t)
  /\ \E keys \in Removed(t) : Change(t, "deleteObjects", keys)
  /\ doomed' = doomed \cup (job[t].shown \cap mOpen)
  /\ job' = [job EXCEPT ![t].at = "list again"]
  /\ Lost(job[t].shown \ InBucket')
  /\ UNCHANGED mOpen

(* for comparison: what was listed is deleted once, whatever became of it  *)
DeletesOnce(t) ==
  /\ Deletes(t)
  /\ job[t].shown = {} \/ job[t].at = "next"
  /\ Change(t, "deleteObject", <<Dir>>)
  /\ job' = [job EXCEPT ![t].at = "deleted"]
  /\ UNCHANGED <<mOpen, doomed, stays>>

(* nothing is listed any more: the directory's own object                  *)
DeleteDir(t) ==
  /\ Deletes(t) /\ job[t].shown = {}
  /\ Change(t, "deleteObject", <<Dir>>)
  /\ job' = [job EXCEPT ![t].at = "deleted"]
  /\ UNCHANGED <<mOpen, doomed, stays>>

(* The directory is not empty, a cache file is not deleted, or a call      *)
(* fails: some cache files, and some objects, are gone already             *)
GiveUp(t) ==
  /\ job[t].call = "SetDelete" /\ job[t].at \in {"first", "next"}
  /\ \/ /\ UNCHANGED vars
        /\ \E fs \in SUBSET (IF Deletes(t) THEN job[t].shown \cap mOpen ELSE {}) :
             doomed' = doomed \cup fs
     \/ /\ Deletes(t)
        /\ \E keys \in Removed(t) : FailedChange(t, "deleteObjects", keys)
        /\ doomed' = doomed \cup (job[t].shown \cap mOpen)
     \/ /\ Deletes(t) /\ job[t].shown = {}
        /\ FailedChange(t, "deleteObject", <<Dir>>)
        /\ UNCHANGED doomed
  /\ job' = [job EXCEPT ![t] = NoJob]
  /\ stays' = [u \in Threads |-> IF u = t THEN {}
                                 ELSE stays[u] \ ((doomed' \cup InBucket) \ InBucket')]
  /\ UNCHANGED mOpen

Return(t) ==
  /\ job[t].at = "deleted" /\ op[t] = Idle
  /\ Finish(t)
  /\ UNCHANGED <<vars, mOpen, doomed>>

------------------------------------------------------------------------------
Callbacks ==
  \/ \E f \in Files : OpenOrCreate(f) \/ CloseOnly(f)
  \/ \E t \in Threads :
       \/ \E f \in Files : DeleteFile(t, f) \/ CloseUpload(t, f) \/ CloseFails(t, f)
       \/ ReleaseFile(t)
       \/ ReadDirectory(t) \/ SetDelete(t) \/ List(t) \/ ListStep(t)
       \/ Show(t) \/ DeleteFiles(t) \/ DeleteDir(t) \/ GiveUp(t) \/ Return(t)
  \/ /\ (\E t \in Threads : Invalidate(t)) \/ ExpireList(Dir)
     /\ UNCHANGED <<mOpen, doomed, job, stays>>

DirNext ==
  \/ world.callbacks /\ Callbacks
  \/ ~world.callbacks /\ Next /\ UNCHANGED <<mOpen, doomed, job, stays>>

DirSpec == DirInit /\ [][DirNext]_dirVars

------------------------------------------------------------------------------
(* A directory that is read shows each of its files that was there all the *)
(* time: stored, or open and not uploaded yet.  It is not enough that both *)
(* sources are right: a file moves from one to the other when it is closed *)
(* meanwhile.  A cached listing that was on its way when the directory was *)
(* invalidated may lack one.                                               *)
ShowsWhatStays ==
  \A t \in Threads :
    job[t].call = "ReadDirectory" /\ job[t].at = "first" /\ ~job[t].unsure =>
      stays[t] \subseteq job[t].shown

(* A directory that is deleted leaves no object behind that was in it all  *)
(* the time, although what there is to delete comes from a cached listing. *)
LeavesNothingBehind ==
  \A t \in Threads : job[t].at = "deleted" /\ ~job[t].unsure => stays[t] = {}

==============================================================================
