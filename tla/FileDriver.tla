------------------------------ MODULE FileDriver ------------------------------
(***************************************************************************)
(* The file callbacks of CSDriver: opening, creating, reading, writing,    *)
(* deleting, renaming and closing files that live in a bucket and are      *)
(* worked on through a cache file on the local disk.                       *)
(*                                                                         *)
(* Four things must agree about a file: the object in the bucket, the      *)
(* cache file, the DirEntry (time stamp and size) and the table            *)
(* mOpenDirEntry through which all handles of a path share one DirEntry.   *)
(* NameGuard shows that callbacks on one name exclude each other, so a     *)
(* callback is one step here; WinFsp may run the callbacks of different    *)
(* handles in any order, and a Close at any time after its Cleanup.        *)
(*                                                                         *)
(* A file's content is a number: 0 is the empty (or truncated) content,    *)
(* and every write makes a new one.  Objects are of at most one part, so a *)
(* download is all or nothing; SyncContent models the larger ones.         *)
(***************************************************************************)
EXTENDS Integers, FiniteSets, Functions

CONSTANTS
  Paths,              (* Windows paths of files                            *)
  Contexts,           (* FileContext objects                               *)
  Files,              (* cache files, whatever their name                  *)
  Entries,            (* heap addresses of DirEntry objects                *)
  NULL, ABSENT,       (* the null pointer; a negative entry of the cache   *)
  Worlds              (* the circumstances considered                      *)

(* In each behaviour: what may go wrong, the values of the setting         *)
(* DeleteAfterUpload, and a bound on the ticks of the clock, for TLC.      *)
World == [may : SUBSET {"head", "get", "put", "copy", "delete", "late close",
                        "delete on close", "shared", "rename new", "elsewhere"},
          deleteAfterUpload : SUBSET (0 .. 2),
          maxClock : Nat]

(* The first five are calls of the cloud API that may fail; one that       *)
(* changes the bucket may have been carried out even so, its answer lost.  *)
(* The others let the environment do what it may do but rarely does:       *)
(*   "late close"   a path is used again before WinFsp has closed the      *)
(*                  contexts of the file deleted there;                    *)
(*   "delete on close"  files are opened to be deleted on close;            *)
(*   "shared"       a file is renamed, or opened to be deleted on close,   *)
(*                  while there are other handles of it;                   *)
(*   "rename new"   a file is renamed that was never uploaded;             *)
(*   "elsewhere"    other clients store objects in the bucket.             *)
ASSUME WorldsKnown == \A w \in Worlds : w \in World
ASSUME SomeOfEach == IsFiniteSet(Paths) /\ IsFiniteSet(Contexts)
(* there is always room for one more object on the heap and on the disk:   *)
(* at most those are in use that the tables and the contexts point to      *)
ASSUME RoomForOneMore ==
  /\ \A used \in SUBSET Entries :
       IsFiniteSet(used) /\ Cardinality(used) <= 2 * Cardinality(Paths) + Cardinality(Contexts) => used # Entries
  /\ \A used \in SUBSET Files :
       IsFiniteSet(used) /\ Cardinality(used) <= Cardinality(Paths) + Cardinality(Contexts) => used # Files

VARIABLES
  remote,     (* remote[p]: the object of p, NULL when there is none       *)
  cacheAt,    (* cacheAt[p]: the cache file found under p's name, or NULL  *)
  file,       (* the cache files that exist                                *)
  heap,       (* the DirEntry objects that are pointed to                  *)
  mOpen,      (* mOpenDirEntry: for each path the entry and its mRefCount  *)
  headCache,  (* QueryObject's cache: an entry, ABSENT, or NULL (unknown)  *)
  ctx,        (* the contexts                                              *)
  deleting,   (* names WinFsp will delete when their last handle is gone   *)
  truth,      (* history: what the user last stored under each name        *)
  clock,      (* the last time stamp and content that was given out        *)
  world       (* the circumstances of this behaviour                       *)

vars == <<remote, cacheAt, file, heap, mOpen, headCache, ctx, deleting, truth, clock, world>>

(* data is the content, stamp the creation and write times                 *)
Object  == [data : Nat, stamp : Nat]
ASSUME NullIsNoObject ==
  /\ NULL # ABSENT /\ {NULL, ABSENT} \cap (Paths \cup Files \cup Entries) = {}
  /\ NULL \notin Object /\ NULL \notin Nat
File    == [data : Nat, stamp : Nat, pending : BOOLEAN]
Entry   == [stamp : Nat, sized : BOOLEAN]
(* path is mWinPath; name is what WinFsp calls the file, which follows a   *)
(* rename made through another handle; handle is NULL once closed          *)
Context == [state : {"free", "open", "cleaned"}, path : Paths \cup {NULL},
            name : Paths \cup {NULL}, entry : Entries \cup {NULL},
            handle : Files \cup {NULL}, modify : BOOLEAN, deleteOnClose : BOOLEAN]

Unregistered == [entry |-> NULL, ref |-> 0]

InUse(c)  == ctx[c].state # "free"
IsOpen(c) == ctx[c].state = "open"

LiveEntries ==
  ({mOpen[p].entry : p \in Paths} \cup {headCache[p] : p \in Paths}
     \cup {ctx[c].entry : c \in Contexts}) \ {NULL, ABSENT}
LiveFiles ==
  ({cacheAt[p] : p \in Paths} \cup {ctx[c].handle : c \in Contexts}) \ {NULL}

NoContext == [state |-> "free", path |-> NULL, name |-> NULL, entry |-> NULL,
              handle |-> NULL, modify |-> FALSE, deleteOnClose |-> FALSE]

TypeOK ==
  /\ remote \in [Paths -> Object \cup {NULL}]
  /\ cacheAt \in [Paths -> Files \cup {NULL}]
  /\ file \in [LiveFiles -> File]
  /\ heap \in [LiveEntries -> Entry]
  /\ mOpen \in [Paths -> {Unregistered} \cup [entry : Entries, ref : Nat \ {0}]]
  /\ headCache \in [Paths -> Entries \cup {NULL, ABSENT}]
  /\ ctx \in [Contexts -> Context]
  /\ \A c \in Contexts :
        /\ IF InUse(c) THEN NULL \notin {ctx[c].path, ctx[c].name, ctx[c].entry}
                       ELSE ctx[c] = NoContext
        /\ IsOpen(c) => ctx[c].handle # NULL
  /\ deleting \subseteq Paths
  /\ truth \in [Paths -> Nat \cup {NULL}]
  /\ clock \in Nat
  /\ world \in Worlds

Init ==
  /\ remote \in [Paths -> {NULL, [data |-> 1, stamp |-> 1]}]
  /\ cacheAt = [p \in Paths |-> NULL]
  /\ file = [f \in {} |-> NULL]
  /\ heap = [e \in {} |-> NULL]
  /\ mOpen = [p \in Paths |-> Unregistered]
  /\ headCache = [p \in Paths |-> NULL]
  /\ ctx = [c \in Contexts |-> NoContext]
  /\ deleting = {}
  /\ truth = [p \in Paths |-> IF remote[p] = NULL THEN NULL ELSE 1]
  /\ clock = 1
  /\ world \in Worlds

------------------------------------------------------------------------------
(* Shared pointers and cache files go when the last reference to them does *)
Heap(h)  == heap' = Restrict(h, LiveEntries')
Disk(fs) == file' = Restrict(fs, LiveFiles')

With(f, x, v) == [y \in DOMAIN f \cup {x} |-> IF y = x THEN v ELSE f[y]]

NewEntry == CHOOSE e \in Entries : e \notin LiveEntries
NewFile  == CHOOSE f \in Files : f \notin LiveFiles

May(what) == what \in world.may

(* GetFileAttributesEx and CreateFile find f by the name its handle reports *)
Reachable(f) == ~file[f].pending /\ \E p \in Paths : cacheAt[p] = f

(* CreateFile on the cache file of p is refused while it waits for deletion *)
Blocked(p) == cacheAt[p] # NULL /\ file[cacheAt[p]].pending

(* QueryObject::qoHeadObject: what it may return, what the cache holds then *)
(* and the heap, when the bucket is r, the cache hc and the heap h          *)
HeadObject(p, r, hc, h) ==
  LET found  == [entry |-> NewEntry, cache |-> [hc EXCEPT ![p] = NewEntry],
                 heap |-> With(h, NewEntry, [stamp |-> r[p].stamp, sized |-> r[p].data # 0])]
      missed == [entry |-> NULL, cache |-> [hc EXCEPT ![p] = ABSENT], heap |-> h]
  IN CASE hc[p] = ABSENT -> {[entry |-> NULL, cache |-> hc, heap |-> h]}
       [] hc[p] \in Entries -> {[entry |-> hc[p], cache |-> hc, heap |-> h]}
       [] hc[p] = NULL /\ r[p] = NULL -> {missed}
       [] hc[p] = NULL /\ r[p] # NULL ->
            {found} \cup (IF May("head") THEN {missed} ELSE {})

Register(table, p, e) == [table EXCEPT ![p] = [entry |-> e, ref |-> 1]]
Acquire(table, p)     == [table EXCEPT ![p].ref = @ + 1]

(* the entry goes with the first handle that is closed, or never in time   *)
ErasesWhileReferenced(table, p) == [table EXCEPT ![p] = Unregistered]
ErasesTooLate(table, p) ==
  [table EXCEPT ![p] =
     IF @.entry = NULL \/ @.ref = 0 THEN Unregistered ELSE [entry |-> @.entry, ref |-> @.ref - 1]]

(* the count of a shared entry is never taken down                         *)
CountsOnlyTheLast(table, p) ==
  IF table[p].ref <= 1 THEN [table EXCEPT ![p] = Unregistered] ELSE table

(* OpenDirEntry::release, which does nothing for an unknown path           *)
Release(table, p) ==
  [table EXCEPT ![p] = IF @.ref <= 1 THEN Unregistered ELSE [entry |-> @.entry, ref |-> @.ref - 1]]

(* c closes its handle of a cache file, the names being at and the files   *)
(* fs: Windows deletes a file that is to be deleted with its last handle.  *)
CloseHandle(c, at, fs) ==
  LET f    == ctx[c].handle
      gone == fs[f].pending \/ ctx[c].deleteOnClose
      last == \A d \in Contexts \ {c} : ctx[d].handle # f
  IN [at   |-> IF gone /\ last THEN [p \in Paths |-> IF at[p] = f THEN NULL ELSE at[p]]
               ELSE at,
      file |-> [fs EXCEPT ![f].pending = gone]]

------------------------------------------------------------------------------
(* What WinFsp lets through: no handle of a name that is being deleted, and *)
(* unless "late close" happens no new one before the deleted are closed.   *)
Admits(p, doc) ==
  /\ p \notin deleting
  /\ doc => May("delete on close")
  /\ May("late close")
       \/ \A c \in Contexts : InUse(c) /\ ctx[c].path = p =>
            ctx[c].handle # NULL /\ ~file[ctx[c].handle].pending
  /\ May("shared")
       \/ \A c \in Contexts : IsOpen(c) /\ ctx[c].name = p => ~doc /\ ~ctx[c].deleteOnClose

NewContext(c, p, e, f, created, doc) ==
  ctx' = [ctx EXCEPT ![c] =
            [state |-> "open", path |-> p, name |-> p, entry |-> e, handle |-> f,
             modify |-> created, deleteOnClose |-> doc]]

(* getDirEntryByWinPath of a name nobody has open, as GetSecurityByName    *)
(* calls it: nothing but the head cache changes                            *)
LookUp(p) ==
  /\ mOpen[p] = Unregistered
  /\ \E o \in HeadObject(p, remote, headCache, heap) :
        /\ headCache' = o.cache
        /\ UNCHANGED <<remote, cacheAt, file, mOpen, ctx, deleting, truth, clock>>
        /\ Heap(o.heap)

(* an existing cache file is kept, whatever its time stamps say            *)
TrustsTheCacheFile(f, e) ==
  IF f \in DOMAIN file THEN [file[f] EXCEPT !.stamp = e.stamp]
  ELSE [data |-> 0, stamp |-> e.stamp, pending |-> FALSE]

(* syncAttributes: a cache file with the entry's time stamps is taken to be *)
(* in sync, any other is truncated and given those stamps                   *)
SyncAttributes(f, e) ==
  IF f \in DOMAIN file /\ file[f].stamp = e.stamp THEN file[f]
  ELSE [data |-> 0, stamp |-> e.stamp, pending |-> FALSE]

(* the cache file a path gets: the one it has, or a new one                *)
CacheFile(p) == IF cacheAt[p] = NULL THEN NewFile ELSE cacheAt[p]

Open(c, p, doc) ==
  /\ ~InUse(c)
  /\ Admits(p, doc)
  /\ \E o \in IF mOpen[p] = Unregistered THEN HeadObject(p, remote, headCache, heap)
              ELSE {[entry |-> mOpen[p].entry, cache |-> headCache, heap |-> heap]} :
        /\ headCache' = o.cache
        /\ IF o.entry = NULL \/ Blocked(p)
           THEN UNCHANGED <<cacheAt, file, mOpen, ctx>>
           ELSE LET f == CacheFile(p) IN
                /\ cacheAt' = [cacheAt EXCEPT ![p] = f]
                /\ NewContext(c, p, o.entry, f, FALSE, doc)
                /\ mOpen' = IF mOpen[p] = Unregistered THEN Register(mOpen, p, o.entry)
                            ELSE Acquire(mOpen, p)
                /\ Disk(With(file, f, SyncAttributes(f, o.heap[o.entry])))
        /\ Heap(o.heap)
  /\ UNCHANGED <<remote, deleting, truth, clock>>

(* canCreateObject that asks the bucket alone                              *)
IgnoresOpenEntries(p) == HeadObject(p, remote, headCache, heap)

(* canCreateObject: the name must be neither open nor in the bucket; an    *)
(* entry in the result says it is taken                                    *)
CanCreateObject(p) ==
  IF mOpen[p] # Unregistered
  THEN {[entry |-> mOpen[p].entry, cache |-> headCache, heap |-> heap]}
  ELSE HeadObject(p, remote, headCache, heap)

(* Create stamps the entry with the time of day; CREATE_ALWAYS truncates   *)
(* what may be left of a cache file, at the same time                      *)
Create(c, p, doc) ==
  /\ ~InUse(c)
  /\ Admits(p, doc)
  /\ clock < world.maxClock
  /\ \E o \in CanCreateObject(p) :
        /\ headCache' = o.cache
        /\ IF o.entry # NULL \/ Blocked(p)
           THEN /\ UNCHANGED <<cacheAt, file, mOpen, ctx, truth, clock>>
                /\ Heap(o.heap)
           ELSE LET f == CacheFile(p) IN
                /\ clock' = clock + 1
                /\ cacheAt' = [cacheAt EXCEPT ![p] = f]
                /\ NewContext(c, p, NewEntry, f, TRUE, doc)
                /\ mOpen' = Register(mOpen, p, NewEntry)
                /\ truth' = [truth EXCEPT ![p] = 0]
                /\ Disk(With(file, f, [data |-> 0, stamp |-> clock', pending |-> FALSE]))
                /\ Heap(With(o.heap, NewEntry, [stamp |-> clock', sized |-> FALSE]))
  /\ UNCHANGED <<remote, deleting>>

------------------------------------------------------------------------------
(* upload without downloading what the cache file lacks                    *)
UploadsHoles(c) == {[ok |-> TRUE, file |-> file]}

(* syncContent: the files afterwards, and whether the callback may go on.  *)
(* An entry without size, or a cache file that has its size, needs nothing;*)
(* otherwise the object is downloaded and the file gets the entry's stamps *)
SyncContent(c) ==
  LET f == ctx[c].handle
      e == heap[ctx[c].entry]
      r == remote[ctx[c].path]
      there == r # NULL /\ r.data # 0
      same(ok) == [ok |-> ok, file |-> file]
  IN CASE ~e.sized -> {same(TRUE)}
       [] e.sized /\ ~Reachable(f) -> {same(FALSE)}
       [] e.sized /\ Reachable(f) /\ file[f].data # 0 -> {same(TRUE)}
       [] e.sized /\ Reachable(f) /\ file[f].data = 0 ->
            (IF there
             THEN {[ok |-> TRUE,
                    file |-> [file EXCEPT ![f].data = r.data, ![f].stamp = e.stamp]]}
             ELSE {})
            \cup (IF there /\ ~May("get") THEN {} ELSE {same(FALSE)})

Read(c) ==
  /\ IsOpen(c)
  /\ \E o \in SyncContent(c) : file' = o.file
  /\ UNCHANGED <<remote, cacheAt, heap, mOpen, headCache, ctx, deleting, truth, clock>>

(* updateFileInfo copies the cache file's stamps and size to the DirEntry  *)
(* that all handles of the path (and the head cache) share; with           *)
(* argRemoteSizeAware a size that is not downloaded yet is kept            *)
UpdateFileInfo(c, fs, remoteSizeAware) ==
  LET f == fs[ctx[c].handle] IN
  [heap EXCEPT ![ctx[c].entry] =
     [stamp |-> f.stamp, sized |-> f.data # 0 \/ (remoteSizeAware /\ @.sized)]]

(* what the user stores in a file that is being deleted is not kept        *)
Stored(c, data) ==
  truth' = IF ctx[c].name \in deleting THEN truth ELSE [truth EXCEPT ![ctx[c].name] = data]

(* Write, and SetFileSize to a size that is not zero.  A paging write,     *)
(* which stays within the file's size, is not modelled.                    *)
Write(c) ==
  /\ IsOpen(c)
  /\ clock < world.maxClock
  /\ \E o \in SyncContent(c) :
       IF o.ok
       THEN LET fs == [o.file EXCEPT ![ctx[c].handle].data = clock', ![ctx[c].handle].stamp = clock']
            IN /\ clock' = clock + 1
               /\ file' = fs
               /\ heap' = UpdateFileInfo(c, fs, TRUE)
               /\ ctx' = [ctx EXCEPT ![c].modify = TRUE]
               /\ Stored(c, clock')
       ELSE UNCHANGED <<file, heap, ctx, truth, clock>>
  /\ UNCHANGED <<remote, cacheAt, mOpen, headCache, deleting>>

(* Overwrite, and SetFileSize to zero, for which syncContent has no work   *)
Truncate(c) ==
  /\ IsOpen(c)
  /\ clock < world.maxClock
  /\ clock' = clock + 1
  /\ file' = [file EXCEPT ![ctx[c].handle].data = 0, ![ctx[c].handle].stamp = clock']
  /\ heap' = UpdateFileInfo(c, file', FALSE)
  /\ ctx' = [ctx EXCEPT ![c].modify = TRUE]
  /\ Stored(c, 0)
  /\ UNCHANGED <<remote, cacheAt, mOpen, headCache, deleting>>

SetBasicInfo(c) ==
  /\ IsOpen(c)
  /\ clock < world.maxClock
  /\ clock' = clock + 1
  /\ file' = [file EXCEPT ![ctx[c].handle].stamp = clock']
  /\ heap' = UpdateFileInfo(c, file', TRUE)
  /\ ctx' = [ctx EXCEPT ![c].modify = TRUE]
  /\ UNCHANGED <<remote, cacheAt, mOpen, headCache, deleting, truth>>

Flush(c) ==
  /\ IsOpen(c)
  /\ heap' = UpdateFileInfo(c, file, TRUE)
  /\ UNCHANGED <<remote, cacheAt, file, mOpen, headCache, ctx, deleting, truth, clock>>

------------------------------------------------------------------------------
(* DeleteObject succeeded: the object and what was cached of it are gone   *)
Deleted(p) ==
  /\ remote' = [remote EXCEPT ![p] = NULL]
  /\ headCache' = [headCache EXCEPT ![p] = NULL]

(* DeleteObject failed: it was not carried out, or only its answer was     *)
(* lost; the head cache keeps what it held either way                      *)
DeleteFails(p) ==
  /\ May("delete")
  /\ remote' \in {remote, [remote EXCEPT ![p] = NULL]}
  /\ UNCHANGED headCache

(* SetDelete marks the cache file first and deletes the object then; the   *)
(* mark stays when that fails                                              *)
SetDelete(c) ==
  /\ IsOpen(c)
  /\ file' = [file EXCEPT ![ctx[c].handle].pending = TRUE]
  /\ \/ /\ Deleted(ctx[c].path)
        /\ deleting' = deleting \cup {ctx[c].name}
        /\ truth' = [truth EXCEPT ![ctx[c].name] = NULL]
     \/ /\ DeleteFails(ctx[c].path)
        /\ UNCHANGED <<deleting, truth>>
  /\ UNCHANGED <<cacheAt, mOpen, ctx, clock>>
  /\ Heap(heap)

(* Cleanup of the last handle of a name that is being deleted              *)
CleanupDelete(c) ==
  LET p == ctx[c].path
      disk == CloseHandle(c, cacheAt, file)
      exists(at, fs) == at[p] # NULL /\ ~fs[at[p]].pending
  IN /\ ctx' = [ctx EXCEPT ![c].state = "cleaned", ![c].handle = NULL]
     /\ cacheAt' = disk.at
     /\ mOpen' = Release(mOpen, p)
     /\ deleting' = deleting \ {ctx[c].name}
     /\ IF exists(cacheAt, file) /\ ~exists(disk.at, disk.file)
        THEN Deleted(p) \/ DeleteFails(p)
        ELSE UNCHANGED <<remote, headCache>>
     /\ Disk(disk.file)
     /\ Heap(heap)

(* WinFsp cleans a handle up; one that was opened to be deleted on close   *)
(* makes the name one to delete                                            *)
Cleanup(c) ==
  LET n    == ctx[c].name
      last == \A d \in Contexts \ {c} : IsOpen(d) => ctx[d].name # n
  IN /\ IsOpen(c)
     /\ truth' = IF ctx[c].deleteOnClose THEN [truth EXCEPT ![n] = NULL] ELSE truth
     /\ IF last /\ (n \in deleting \/ ctx[c].deleteOnClose) THEN CleanupDelete(c)
        ELSE /\ ctx' = [ctx EXCEPT ![c].state = "cleaned"]
             /\ deleting' = IF ctx[c].deleteOnClose THEN deleting \cup {n} ELSE deleting
             /\ UNCHANGED <<remote, cacheAt, file, heap, mOpen, headCache>>
     /\ UNCHANGED clock

NotUploaded(fs) ==
  [remote |-> remote, cache |-> headCache, heap |-> heap, file |-> fs]

(* The rest of UploadWhenClosing, after syncContent left the files fs:     *)
(* PutObject with the DirEntry's stamp, which cannot read a cache file     *)
(* that is to be deleted; then headObject; then DeleteAfterUpload.         *)
StoredObject(c, fs) ==
  [remote EXCEPT ![ctx[c].path] = [data |-> fs[ctx[c].handle].data, stamp |-> heap[ctx[c].entry].stamp]]

AfterUpload(fs, f, setting) ==
  CASE setting = 0 -> fs
    [] setting = 1 -> [fs EXCEPT ![f].pending = TRUE]
    [] setting = 2 -> [fs EXCEPT ![f].data = 0]

(* what there is afterwards, when headObject has answered o                *)
Uploads(c, fs, o) ==
  {[remote |-> StoredObject(c, fs), cache |-> o.cache, heap |-> o.heap,
    file |-> AfterUpload(fs, ctx[c].handle, setting)] : setting \in world.deleteAfterUpload}

(* a PutObject that failed, or whose answer was lost: nothing follows it   *)
PutFails(c, fs) ==
  {NotUploaded(fs), [NotUploaded(fs) EXCEPT !.remote = StoredObject(c, fs)]}

PutObject(c, fs) ==
  LET p == ctx[c].path
      answers == HeadObject(p, StoredObject(c, fs), [headCache EXCEPT ![p] = NULL], heap)
  IN IF ~Reachable(ctx[c].handle) THEN {NotUploaded(fs)}
     ELSE (UNION {Uploads(c, fs, o) : o \in answers})
          \cup (IF May("put") THEN PutFails(c, fs) ELSE {})

UploadWhenClosing(c) ==
  UNION {IF o.ok THEN PutObject(c, o.file) ELSE {NotUploaded(o.file)} : o \in SyncContent(c)}

(* Close, which WinFsp sends some time after Cleanup.  A handle closed by  *)
(* Cleanup is not uploaded, but its path is released all the same.         *)
Close(c) ==
  /\ ctx[c].state = "cleaned"
  /\ \E u \in IF ctx[c].handle # NULL /\ ctx[c].modify THEN UploadWhenClosing(c)
              ELSE {NotUploaded(file)} :
       LET disk == IF ctx[c].handle = NULL THEN [at |-> cacheAt, file |-> u.file]
                   ELSE CloseHandle(c, cacheAt, u.file)
       IN /\ remote' = u.remote
          /\ headCache' = u.cache
          /\ mOpen' = Release(mOpen, ctx[c].path)
          /\ ctx' = [ctx EXCEPT ![c] = NoContext]
          /\ cacheAt' = disk.at
          /\ Disk(disk.file)
          /\ Heap(u.heap)
  /\ UNCHANGED <<deleting, truth, clock>>

------------------------------------------------------------------------------
(* When WinFsp lets a rename of c's file to q through.                     *)
AdmitsRename(c, q) ==
  /\ \A d \in Contexts : IsOpen(d) => ctx[d].name # q
  /\ Admits(q, ctx[c].deleteOnClose)
  /\ ctx[c].name \notin deleting
  /\ May("shared")
       \/ \A d \in Contexts \ {c} : InUse(d) => ctx[d].path # ctx[c].path
  /\ May("rename new") \/ remote[ctx[c].path] # NULL

(* MoveFileEx replaces a cache file that has the new name, unless in use   *)
CanMove(f, q) ==
  /\ Reachable(f)
  /\ cacheAt[q] # NULL => \A d \in Contexts : ctx[d].handle # cacheAt[q]

Moved(f, q) == [p \in Paths |-> IF p = q THEN f ELSE IF cacheAt[p] = f THEN NULL ELSE cacheAt[p]]

(* a rename that removes the source first, and then fails                  *)
DeletesBeforeCopying(c, q, o) ==
  /\ remote' = [remote EXCEPT ![ctx[c].path] = NULL]
  /\ headCache' = [o.cache EXCEPT ![ctx[c].path] = NULL]
  /\ mOpen' = Release(mOpen, ctx[c].path)
  /\ UNCHANGED <<cacheAt, file, ctx, truth>>
  /\ Heap(o.heap)

(* Rename, from the release of the source on: CopyObject, MoveFileEx,      *)
(* DeleteObject, and only then the context and the table.  Each may fail   *)
(* and then what was done before it stays; a CopyObject or DeleteObject    *)
(* that fails may have been carried out, and leaves the head cache as it   *)
(* was.                                                                    *)
RenameReleased(c, q, o) ==
  LET p == ctx[c].path
      f == ctx[c].handle
      released  == Release(mOpen, p)
      copied    == [remote EXCEPT ![q] = remote[p]]
      forgotten == [o.cache EXCEPT ![p] = NULL, ![q] = NULL]
      stopHere  == mOpen' = released /\ UNCHANGED <<ctx, truth>> /\ Heap(o.heap)
  IN \/ /\ remote[p] = NULL
        /\ headCache' = o.cache
        /\ UNCHANGED <<remote, cacheAt, file>>
        /\ stopHere
     \/ /\ remote[p] # NULL /\ May("copy")
        /\ remote' \in {remote, copied} /\ headCache' = o.cache
        /\ UNCHANGED <<cacheAt, file>>
        /\ stopHere
     \/ /\ remote[p] # NULL /\ ~CanMove(f, q)
        /\ remote' = copied /\ headCache' = forgotten
        /\ UNCHANGED <<cacheAt, file>>
        /\ stopHere
     \/ /\ remote[p] # NULL /\ CanMove(f, q) /\ May("delete")
        /\ remote' \in {copied, [copied EXCEPT ![p] = NULL]}
        /\ headCache' = forgotten
        /\ cacheAt' = Moved(f, q)
        /\ stopHere
        /\ Disk(file)
     \/ /\ remote[p] # NULL /\ CanMove(f, q)
        /\ remote' = [copied EXCEPT ![p] = NULL] /\ headCache' = forgotten
        /\ cacheAt' = Moved(f, q)
        /\ ctx' = [d \in Contexts |->
                     IF d = c
                     THEN [ctx[d] EXCEPT !.path = q, !.name = q, !.entry = NewEntry]
                     ELSE IF IsOpen(d) /\ ctx[d].name = ctx[c].name
                          THEN [ctx[d] EXCEPT !.name = q] ELSE ctx[d]]
        /\ mOpen' = Register(released, q, NewEntry)
        /\ truth' = [truth EXCEPT ![q] = truth[ctx[c].name], ![ctx[c].name] = NULL]
        /\ Disk(file)
        /\ Heap(With(o.heap, NewEntry, heap[ctx[c].entry]))

(* A rename back to the path the context still has, after one through      *)
(* another handle, locks that name twice and gets no further (NameGuard).  *)
Rename(c, q) ==
  /\ IsOpen(c)
  /\ q # ctx[c].name
  /\ AdmitsRename(c, q)
  /\ IF q = ctx[c].path
     THEN UNCHANGED <<remote, cacheAt, file, heap, mOpen, headCache, ctx, truth>>
     ELSE \E o \in CanCreateObject(q) :
            IF o.entry # NULL \/ mOpen[ctx[c].path] = Unregistered
            THEN /\ headCache' = o.cache
                 /\ UNCHANGED <<remote, cacheAt, file, mOpen, ctx, truth>>
                 /\ Heap(o.heap)
            ELSE RenameReleased(c, q, o)
  /\ UNCHANGED <<deleting, clock>>

------------------------------------------------------------------------------
(* TimerWorker drops what the head cache has held too long.                *)
Expire(p) ==
  /\ headCache[p] # NULL
  /\ headCache' = [headCache EXCEPT ![p] = NULL]
  /\ UNCHANGED <<remote, cacheAt, file, mOpen, ctx, deleting, truth, clock>>
  /\ Heap(heap)

(* Another client of the bucket stores an object under a name that is not  *)
(* in use here, and the head cache's time for it runs out.                 *)
StoredElsewhere(p) ==
  /\ May("elsewhere")
  /\ \A c \in Contexts : InUse(c) => p \notin {ctx[c].path, ctx[c].name}
  /\ clock < world.maxClock
  /\ clock' = clock + 1
  /\ remote' = [remote EXCEPT ![p] = [data |-> clock', stamp |-> clock']]
  /\ truth' = [truth EXCEPT ![p] = clock']
  /\ headCache' = [headCache EXCEPT ![p] = NULL]
  /\ UNCHANGED <<cacheAt, file, mOpen, ctx, deleting>>
  /\ Heap(heap)

Callback(c) ==
  \/ \E p \in Paths, doc \in BOOLEAN : Open(c, p, doc) \/ Create(c, p, doc)
  \/ Read(c) \/ Write(c) \/ Truncate(c)
  \/ SetBasicInfo(c) \/ Flush(c)
  \/ SetDelete(c) \/ Cleanup(c) \/ Close(c)
  \/ \E q \in Paths : Rename(c, q)

Next ==
  /\ \/ \E c \in Contexts : Callback(c)
     \/ \E p \in Paths : LookUp(p) \/ Expire(p) \/ StoredElsewhere(p)
  /\ UNCHANGED world

Spec == Init /\ [][Next]_vars

------------------------------------------------------------------------------
(* The table never outlives its users: an entry counts at most the contexts *)
(* of its path that are not closed yet, whatever fails.                    *)
NoEntryLeak ==
  \A p \in Paths :
    mOpen[p].ref <= Cardinality({c \in Contexts : InUse(c) /\ ctx[c].path = p})

(* Every open handle is counted under its path, and all handles of a path  *)
(* share one DirEntry.  Open and canCreateObject rely on it: "if something *)
(* has the file open already, adopt that".                                 *)
Registered ==
  \A c \in Contexts : IsOpen(c) =>
    /\ mOpen[ctx[c].path].entry = ctx[c].entry
    /\ mOpen[ctx[c].path].ref >= Cardinality({d \in Contexts : IsOpen(d) /\ ctx[d].path = ctx[c].path})

(* The circumstances under which the next three hold: the API may fail to  *)
(* download an object, but no deletion or copy fails; WinFsp closes what   *)
(* is deleted before the path is used again; a file that has other         *)
(* handles is neither renamed nor opened to be deleted on close; and an    *)
(* uploaded cache file, which other handles may still use, is not deleted. *)
Calm ==
  /\ world.may \cap {"head", "put", "copy", "delete", "late close", "shared", "rename new"} = {}
  /\ 1 \notin world.deleteAfterUpload

(* When it is calm every open handle is counted under its path.            *)
RegisteredWhenCalm == Calm => Registered

(* What a Read by c would return, if it does not fail: what was stored     *)
(* last under the name, by whichever handle or client.                     *)
ReadsSeeWrites ==
  Calm =>
    \A c \in Contexts : IsOpen(c) /\ ctx[c].name \notin deleting =>
      \A o \in SyncContent(c) : o.ok => o.file[ctx[c].handle].data = truth[ctx[c].name]

(* When the last handle of a name is closed, the bucket holds what was     *)
(* stored last: no write is lost, and nothing deleted comes back.          *)
Durable ==
  Calm =>
    \A p \in Paths :
      (\A c \in Contexts : InUse(c) => p \notin {ctx[c].path, ctx[c].name}) =>
        IF truth[p] = NULL THEN remote[p] = NULL
        ELSE remote[p] # NULL /\ remote[p].data = truth[p]

(* Create makes a file only where there is none: no handle is open on the  *)
(* name and the bucket has no object of it, when it is calm.               *)
CreatesOnlyNew ==
  [][Calm => \A c \in Contexts :
       ~InUse(c) /\ IsOpen(c)' /\ ctx'[c].modify =>
         /\ remote[ctx'[c].path] = NULL
         /\ \A d \in Contexts : IsOpen(d) => ctx[d].path # ctx'[c].path]_vars

(* The user has asked, or asks in this step, to delete c's file, whatever  *)
(* answer he gets                                                          *)
AsksToDelete(c) ==
  \/ ctx[c].deleteOnClose \/ ctx[c].name \in deleting
  \/ IsOpen(c)' /\ file'[ctx'[c].handle].pending

(* An object leaves the bucket only through an open handle of its file,    *)
(* and only when the user asks to delete the file, or when a rename has    *)
(* the same object in the bucket under the new name already: whatever      *)
(* call fails half-way, and whether or not a failed call was carried out,  *)
(* nothing is lost that nobody asked to delete.  A handle whose file was   *)
(* renamed through another one ("shared") keeps the old path, and so may   *)
(* remove the wrong object.                                                *)
DeletesOnlyTheDeleted ==
  [][\A p \in Paths : remote[p] # NULL /\ remote'[p] = NULL =>
       \E c \in Contexts :
         /\ IsOpen(c) /\ ctx[c].path = p
         /\ ctx[c].name = p \/ May("shared")
         /\ AsksToDelete(c) \/ \E q \in Paths \ {p} : remote'[q] = remote[p]]_vars

=============================================================================
