# WinCse in TLA+

WinCse is a Windows file system (through WinFsp) over cloud object storage: files of a bucket are
seen as files of a drive, read and written through cache files on the local disk, and uploaded
when the last change is closed. This directory holds specifications of its concurrent core, the
TLC configurations that check them, and TLAPS proofs.

    tlc -workers 2 -config MCNameGuard.cfg MCNameGuard.tla
    tlapm NameGuard_proofs.tla

`PROJECT.json` lists the runs, the source lines behind each definition, and a mutated definition
for each property that makes it fail.

## 1. The system

| Part | Where | State | Operations |
|---|---|---|---|
| WinFsp (external) | | handles, names being deleted, the operation guard | calls the callbacks; Create, Cleanup with delete, Rename run alone; Open, SetDelete, ReadDirectory share; the others are not guarded. Close comes any time after Cleanup |
| Name guard | `WinCseLib/Protect.hpp`, `WinCse/CSDriverBase_cb.cpp` | `ShareStore`: name to a counted mutex | each `Relay*` callback takes the mutex of its name, Rename of both its names |
| Open-file table | `WinCse/OpenDirEntry.hpp`, `FileContext.*` | `mOpenDirEntry`: path to DirEntry and count; a `FileContext` per handle | emplace, acquire, release |
| File callbacks | `WinCse/CSDriver_cb.cpp`, `CSDriver.cpp` | cache files, DirEntries | Open, Create, Read, Write, ..., Rename, Close; ReadDirectory and SetDelete of directories |
| Cache-file synchronisation | `WinCse/CSDriver_cb_util.cpp`, `WinCseLib/FilePart.hpp` | the cache file's length and times, one `FilePart` with an event per part | syncAttributes, syncContent, updateFileInfo, uploadWhenClosing |
| DelayedWorker | `WinCse/DelayedWorker.cpp` | task queue, auto-reset event, end flag, threads | addTypedTask, listen, OnSvcStart, OnSvcStop |
| ScheduledWorker, TimerWorker | `WinCse/ScheduledWorker.cpp` | periodic tasks, end flag, a thread | run each task in turn, start, stop |
| Object cache | `WinCseDevice/QueryObject.cpp`, `CacheObject.hpp` | positive and negative entries of HeadObject and ListObjectsV2 | qoHeadObject, qoHeadObjectOrListObjects, qoListObjects, qoDeleteCache, qoDeleteOldCache |
| Device | `WinCseDevice/CSDevice.cpp` | | head, list, put, copy, delete: API call, then invalidation |
| Bucket cache | `WinCseDevice/QueryBucket.cpp`, `CacheListBuckets.cpp` | buckets and their regions | list, head, region, reload |
| S3 client | `WinCse-sdk-s3` | | the API with retries; multipart upload on DelayedWorker |
| GCS client | `WinCse-gcp-gs` | | the same |
| NotifListener | `WinCse/NotifListener.cpp` | a thread, its end flag, named events that all drives' processes share | report, clear the caches, start, stop |
| Service | `WinCse/main.cpp`, `WinCseLib/WinFsp_c.cpp`, `CSDriverBase.cpp`, `CSDeviceBase.cpp` | which parts are made | start and stop of all of these in order, destructors |
| FileContextSweeper, library, device flavours, tools | | | no protocol of their own |

How they meet: a WinFsp dispatcher thread enters a `Relay*` callback and holds the lock of its
name for the whole callback. In it `CSDriver` works on the context, the open-file table and the
cache file, asks `CSDevice` for objects, and hands the download of parts to `DelayedWorker`,
waiting for each part's event. The timer expires cache entries meanwhile, and a notification
clears them. Each mounted drive is a process of its own; they meet at the bucket and at the
listener's named events.

What is hard:

- *Interleaving.* Callbacks of different names share the object cache; a directory's callback
  does not hold the locks of its files; the download threads share the cache file with the
  callback that waits for them; a mutex is freed by its last user.
- *Order.* Close long after Cleanup and after the name is in use again; parts that end in any
  order; a task that is added while the service stops; threads that run before the parts they
  use are made, or after they are gone.
- *Failure.* Each API call in the middle of Rename, SetDelete, Close or a parallel download;
  each step of the service's start.
- *Staleness.* Head entries, listings, DirEntries and cache files that describe the object
  at different times. Two of them are compared by time stamp or by length only.
- *Waiting.* On parts, on the threads' end, on two locks, on an event another process takes.

`PROJECT.json` has each of these at its line under "hazards".

## 2. Plan

1. `NameLocks`, `NameGuard` and proofs: every other module relies on callbacks of a name excluding
   each other. *Done.*
2. `FileDriver` and proofs: what users see - reads, writes, uploads, deletes, renames. *Done for files.*
3. `DelayedWorker` and proofs. *Done.*
4. `SyncContent` and proofs: the only place where a callback runs parallel work. *Done.*
5. `ObjectCache` and proofs. *Done, except HIDDEN and ClearCache.*
6. `AtomicPut`, `MultipartUpload` and proofs: parts on DelayedWorker, abort, the wait for all parts on each error path. *Done
   for S3.* The Google client's upload is a stream of the Google library; what its destructor does with half an
   upload cannot be seen from this repository.
7. `BucketCache` and proofs: reload and notification against lookups, the negative window of an empty list. *Done.*
8. `ServiceLifecycle` and proofs: driver, device, DelayedWorker, ScheduledWorker, NotifListener and the dispatcher,
   started and stopped in main.cpp's order. *Done.*
9. `Directories` over `ObjectCache`, and proofs: ReadDirectory and SetDelete of a directory (which lists and deletes), beside the callbacks
   of its files. *Done, except the creation of directories.*
10. `DeleteObjects` that leaves some keys: *done*, in `ObjectCache`. Listings of several pages: left.
11. Left: an abstract file store (path to content, open handles, what may be lost) that a calm `FileDriver` implements, and its
    refinement proof. The safety properties of the passing runs are all proved.

Constants are parameters with named assumptions, recursion is avoided, and each operation is
one action or, where other threads see its middle, one action per visible step. Where one specification is checked under
several circumstances (which calls may fail, which settings hold), they are a constant `Worlds` of which each behaviour
has one, `world`, so that one run covers them.

## 3. The modules

**NameLocks** - the promise: one lock per name, acquired and released. **NameGuard** - the code: a
callback enters past WinFsp's guard (`Enter`, `EnterRename`), looks up or makes the counted object under the
store's lock (`Find`, `Emplace`), locks its mutex, runs, unlocks, looks the name up again, counts down and erases at zero
(`DropReference`). `mRefCount` and `mOwner` are indexed by address, and an address is used again after an erase, so a thread that
kept an erased object would lock somebody else's. `mV` has a pointer for each of a callback's shares (`Slots`): `RelayRename` locks the path of its handle and, inside, the
new name. A handle keeps its path when another handle renames the file, so a rename back to that path locks one `std::mutex` twice in one thread (`LockAgain`). That is
undefined: the thread waits for itself (`stuck`), or `lock` throws, as MSVC's does; both shares are then destroyed, and `relayReturnable`'s `catch (...)`, which is compiled
in under `_RELEASE` only, answers STATUS_UNSUCCESSFUL (without it the process ends, which is not modelled).

**FileDriver** - a callback is one step, as NameGuard allows. `remote` is the bucket, `cacheAt` and `file` the local
directory with Windows' delete-pending state, `heap` the DirEntry objects, which handles and the head cache share by
pointer, `mOpen` the table, `ctx` the contexts. `truth` is history: what the user stored last. Content is a number and an object has one
part. `world.may` says what the environment may do. A put, copy or delete that fails may have been carried out all the same (`PutFails`, `RenameReleased`, `DeleteFails`): the code
reports the failure and leaves the cached head as it was, whatever has become of the object. Simplifications:

- deletion through `SetFileInformationByHandle` is the classic kind, where the name stays until the last handle closes;
- a new file's entry and its cache file carry one stamp;
- `StoredElsewhere` includes the expiry of the head cache's entry, which is what bounds staleness in the code;
- WinFsp keeps names of sibling handles up to date after a rename (`name`), the code does not (`path`);
- a rename through a stale handle back to its old path changes nothing here: it hangs or fails in NameGuard before `Rename` runs;
- cache files and DirEntries are named, and a new one takes a name that is free; `RoomForOneMore` says that there is one, as a disk and a heap
  have it (`MCFileDriver` has 7 entries where at most 6 are in use, and 5 files where at most 4 are);
- a failing HeadObject can be enabled ("head") but is in no run: the code holds the name to be free then, and Create over an
  existing object is its documented consequence.

**SyncContent** - one file, one callback at a time, two download threads. `local` is the cache file as a sequence of places, each of
which says what is there: the object's data, the user's, or nothing. `Begin` computes the parts as the code does (from the end of the file's present
length to the end of the request, in units), then tasks are added, taken, stored in pieces, ended and collected; a failed part interrupts the
rest, and `Drain` waits for those under way. A single part is read by the caller itself.
`Disturbances` chooses which downloads fail ("alone", "parallel") and whether appends happen.

**DelayedWorker** - threads loop `Wait`, `CheckFlag`, `Dequeue`, `EndTask`; a caller pushes and then sets the event
in a step of its own; the service's stop raises the flag, signals once per thread, joins, and clears. `mEvent` is an auto-reset event:
`SetEvent` frees one waiting thread or is remembered once.

**ObjectCache** - two caches with positive and negative entries. Each function that takes the cache's lock is one step, each API call another, so
lookups, listings, changes and expiry interleave as they do in the code. `op[t]` is the operation of thread t with the names whose lock its callback
holds. For a directory that has no object of its own the parent's listing decides. A world says which keys are used, whether
StrictFileTimestamp makes listings look up each file, and which calls may fail. A change that succeeds invalidates its keys (`Change`, then `DropHead` and
`DropList` for each); one that fails may have been carried out for some of them, and nothing is invalidated (`FailedChange`); S3's DeleteObjects succeeds
although it leaves some (`Spared`). `doubt` is a ghost, the entries the code makes no promise about: the lookup failed, the change behind them did, or an answer was
under way when the entry was invalidated.

**Directories** - over ObjectCache, the callbacks of one directory and its files. `mOpen` has the files in `mOpenDirEntry`, `doomed` those whose cache file
is marked for deletion, `job[t]` the callback thread t is in. `ReadDirectory` copies the open files (`copy_if`, no lock), then lists, and shows both; `SetDelete`
lists, marks the cache files, deletes the objects, and lists again until nothing is left. Beside them files are opened or created, deleted, and closed with or without an upload: a Close uploads,
invalidates, and only then takes the file off the table. WinFsp's guard is in the conditions: Create runs alone; Open, SetDelete and ReadDirectory share; Close is not guarded. `stays[t]` is a ghost:
the files that have been there since t's callback began. A file has at most one handle (FileDriver has the counts), only listings are cached here, and the
directory has no subdirectories, so DeleteDirCondition 1 never refuses.

**AtomicPut** - the promise of `PutObject`: the object is replaced as a whole or not at all, before the answer, and certainly when the answer is true.
**MultipartUpload** - the S3 client. `Begin` computes the parts; one part or none is put by the caller (`MakeStream`, `UploadSimple`). Otherwise
`Create`, `AddTask` per part, then `Collect` in the parts' order; after the last good result `Complete`, at the first bad one `Interrupt` and
`Drain`, part by part. A thread of the pool takes a task or answers at once that it was interrupted (`Take`), sends it, perhaps again
(`UploadPart`), and aborts the upload when it gives up (`Abort`). `upload[c]` is the store's side. A call to the store is carried out or not, and says
success, an error worth a retry, or one that is not (`Outcomes`): a call that was carried out may be reported as failed, never the other way
round; calls about an upload that is not open fail. `CannotReadPart` is the `return nullptr` of `uploadPart` (`SdkS3ClientUpload.cpp:170`) where the optional
string should be empty: undefined, so the process ends (`crashed`) or an exception fails the part. Each caller makes one call, and its file does not
change: its name is locked. The queue is `DelayedWorker`'s while the service runs. `trouble` is a ghost.

**BucketCache** - callbacks, the timer and the notification work on one list of buckets, a step per `clbXxx` and per API call. Time stamps are kept as
ages in minutes (`setAge`, `changed`), counted up to the oldest that matters; `Epoch` is `time_point{}`. `raced` is a ghost: `ListsAreRecent` sets an answer
aside when another thread cleared or made the list between two of its looks at the cache, and `HeadsAreRecent` a miss when the list is cleared and not made
again. The HIDDEN flags belong to each answer here; in the code answers share the entries. `Buckets` are those that `bucket_filters` and
`max_display_buckets` let through.

**ServiceLifecycle** - one process per drive, any number of drives. `at[d]` is the main thread's next step: `app_main`, the steps of SvcStart (each may fail), serving, the steps of
SvcStop, the destructors. `alive[d]` is what is made and not given up; beside the main thread run a callback, NotifListener's thread and the timer's, and each of them that works
with a part that is not alive is an access violation, which ends the process: nothing catches it. A listener is between waits (`ready`), in the wait, released by an
event, or in a handler. The events are auto-reset and have global names: `SetEvent` releases one waiting thread of any process or is remembered for the next, and an event
is gone with its last handle. A failing start deletes the file system only; listener and timer go on until the destructors stop them. The pool's own start and stop are
DelayedWorker's subject and return here, the device's `OnSvcStop` is empty, and flags start as false (the members are value-initialised). A callback and a task end. `robbed` is a ghost.

## 4. The runs

| Run | Shows | Bounds |
|---|---|---|
| name_guard | exclusion, no dangling or leaked mutex, refinement of NameLocks; nothing hangs but a rename through a stale handle back to its own path, and who waits for that name | 3 threads, 2 names, 3 addresses: two threads in a lock's queue while a third renames across both |
| file_driver | reads see the last write by any handle, what is stored is in the bucket once closed, Create takes only free names; failing deletes, copies and uploads, carried out or not, leak no entry and remove no object that nobody asked to delete and that is not under its new name already | 2 handles, 2 paths. Calm: clock 3 (write, reopen, change elsewhere), DeleteAfterUpload 0 and 2. Disturbed: late Close with failing deletes and copies, failing uploads, or shared files renamed under other handles; clock 1, since stamps do not matter there, and `truth` is left out of the states that TLC tells apart, as no property of these worlds is about more than its type |
| file_driver_late | *violated*: a released path is released again | 2 handles, 2 paths |
| sync_content | reads, kept writes, quiet threads, an answer for each call | object of 4 places in units of 2, files up to 5: an odd end, two parallel parts, a gap beyond the object |
| sync_content_parts | *violated*: a hole after a failed parallel part is read as data | |
| delayed_worker | no lost wake-up, no task twice, none left behind but late ones, each ends | 3 threads, 3 tasks: an awaited one, one whose caller goes away, one that comes during the stop |
| delayed_worker_stop | *violated*: OnSvcStop need not return | 2 threads |
| object_cache | caches equal the bucket, because the names' locks keep lookups and changes apart; a directory that is read shows each file that stays; one that is deleted leaves none behind | 2 threads, 2 files in a directory, in four kinds of worlds: two files with failing lookups; one with any failing call; one and its directory with strict listings; the callbacks of the directory, with failing listings and changes and either DeleteDirCondition |
| multipart_upload | refinement of AtomicPut; no task outlives its call, failed uploads are aborted, neighbours in the pool do not disturb each other, each call is answered | 2 calls, 2 threads, parts of 2 units, files of 0, 1 and 3: no part, one, a full and a short one; 2 attempts |
| bucket_cache | listings and lookups are at most the expiry and the timer's period old, a refused bucket stays hidden | 1 callback, timer and notification; 2 buckets, one in another region; expiry 1, period 2, window 1 minute: a list that expires just after the timer has looked |
| service | no drive that has served dies of a part that is missing, through stop and destructors; each stop, and each start that fails, ends unless another drive takes the last event | 2 drives that start and stop any number of times: what a third could do to a listener the second does |
| service_stop | *violated*: a stop need not end when two drives are mounted | 2 drives |

Four runs are counterexamples; `PROJECT.json` quotes under "findings" the comment in the source that each contradicts:

- **file_driver_late.** Cleanup with delete closes the handle and releases the path (`CSDriver_cb.cpp:551`); Close releases it once more
  (`:478`). A file made under that name in between loses its entry while open.
- **sync_content_parts.** Length is the only record of what is downloaded.
- **delayed_worker_stop.** Two sets of an auto-reset event are one when nobody waits yet.
- **service_stop.** `NotifListener::stop` sets each event once and joins (`NotifListener.cpp:106`), but the events are shared: the listener of the other drive takes
  both, finds its own flag unset and goes on, and the one that should end waits for ever.

The passing runs leave these cases out by name (`Worlds`, `Disturbances`, `torn`, `robbed`), so that they show what else holds.
`ReadsTheObjectUnlessTorn` and `EndsUnlessRobbed` say so in their formulas; `RegisteredWhenCalm` is the part of `Registered` that holds when it is `Calm`, as
are `ReadsSeeWrites`, `Durable` and `CreatesOnlyNew`. Calm is a condition on the world alone: downloads may fail and other clients may store, but HeadObject,
PutObject, copies and deletions do not fail; WinFsp closes a deleted file before its name is used again; a file with several handles is neither renamed nor
opened to be deleted on close, and one that is not uploaded yet is not renamed; and DeleteAfterUpload is not 1. `NoEntryLeak` holds in every world, and so
does `DeletesOnlyTheDeleted`, which sets aside only the handles whose file was renamed under them: these remove the object at their old path.

Also seen while modelling, and not made a run:

- A rename through a handle whose file another handle has renamed, back to the path it was opened with, locks that name's mutex twice (`CSDriverBase_cb.cpp:288`) and hangs or
  fails; a hang keeps the name's lock and WinFsp's exclusive guard. `OnlyDoubleLockHangs` says that nothing else does.
- A copy or delete whose answer is lost is reported as a failure while the object is copied or gone (`CSDriver_cb.cpp:1123`, `:1497`): after a failed delete the file still
  shows, from the cached head, until the entry expires.
- With DeleteAfterUpload 1 and two handles on a file, the Close of one marks the cache file, which they share, for deletion (`CSDriver_cb.cpp:418`):
  what the other handle writes afterwards is not uploaded, and a Rename through it fails after it has released the entry.
- Rename releases the source's entry (`CSDriver_cb.cpp:1067`) before its calls that can fail. A file that was never uploaded has no object, so its
  rename always fails there, and the open handle is no longer registered ("rename new" and "copy" of `FileDriver`).
- An append has the offset -1 (`CSDriver_cb.cpp:1275`), so `syncContent` lets it through with the cache file incomplete ("append" of `SyncContent`).
- After the last file of a directory without an object of its own is gone and the parent has been listed, a file put there again
  leaves the directory absent until the listing expires: only the direct parent of a changed object is invalidated (`CacheObject.hpp:151`).
- With DeleteDirCondition 2 SetDelete of a directory looks at the listing only, so a directory can be deleted while a file in it is open that was never
  uploaded; its Close then stores it, and the directory is back.
- SetDelete of a directory lists and deletes until nothing is listed (`CSDriver_cb.cpp:1397`): a key that S3 lists, refuses to delete and does not report keeps it going.
- A notification that comes while the device is not started yet ends the process (`CSDriverBase.cpp:220`); `StaysUp` is about drives that have served.
- A start that fails late leaves listener and timer at work, with driver and device, until the destructors stop them (`WinFsp_c.cpp:1255`).
- `FileContextSweeper` says it closes the contexts that are left and deletes them: what was written to them is not uploaded.
- `qbListBuckets` looks at the cache twice. Cleared in between, a list is answered empty; filled in between, an empty one is answered as recent
  (`raced`). And `qbHeadBucket`, whose comment (`QueryBucket.cpp:73`) takes the bucket to be in the list, misses it while the list is being made anew.
- A multipart upload stays open after a failed `CompleteMultipartUpload` and after a part that could not be read.
- `SdkS3Client::ListObjects` can list a name twice, as a file and as a directory, when they come on different pages (`SdkS3Client.cpp:344`).
- The comment at `CSDriver_cb_util.cpp:359` that the size to read is at most the aligned size is false for reads past the end, without consequence.

Symmetry is used where contexts, paths, threads or files are interchangeable, in safety runs only. `CHECK_DEADLOCK FALSE` stands in NameGuard's run, where
every thread may be stuck at or behind a double lock, in `FileDriver`'s
runs, where the bounded clock and the finite disturbances may stop everything, in DelayedWorker's, where a stopped service is the end, and in
MultipartUpload's, where each caller calls once. In the others nothing may ever stop for good.

**Fairness.** NameGuard: each thread in a callback goes on (`WF` of its steps); mutexes need not be fair. SyncContent: callback and threads go
on, since requests have time limits. DelayedWorker: threads are scheduled, tasks end, `OnSvcStop` goes on once called;
nobody must add a task or stop the service. MultipartUpload: callers in a call and threads go on, as requests have time limits. ServiceLifecycle: the main thread, once
started or stopping, and every other thread goes on when it can; nobody must mount, unmount or use a drive, or send a notification. FileDriver, ObjectCache, Directories
and BucketCache state no liveness.

## 5. The proofs

**NameGuard_proofs**, for any finite set of threads and any names and addresses. `MutualExclusion` speaks of program counters
and is not inductive. `IInv` adds: an object in the store is what each sharer points to (`StoreTracksShares`), its
counter is the number of its shares (`CountExact`, with cardinalities of sets of thread and slot: a rename may have two of one object), no two names have one object, and its owner is the thread inside the lock. The delicate step is
`DropReference`: at count one the share is alone, so the erase strands nobody. From it follow type correctness, exclusion,
no dangling shares, and the refinement: acquiring and releasing are the last Lock and first Unlock of a name, all other steps stutter.

**DelayedWorker_proofs**, for any threads and tasks. `Inv` adds to the properties: the stage of the service's life fits flag and
threads (`Lifecycle`), a thread holds a task exactly while it works on it (`Hands`), and a thread leaves its loop only with the flag up and, once it has ended,
the queue holds late tasks only (`Leaving`). Proved are type correctness, `OnePlace`, `NoLostWakeup` and `NothingLeftBehind`.

**Directories_proofs**, for any threads, files, directories and worlds: first the operations on the caches, then the callbacks that use them. `FilesRight` and `ListsRight` speak of what is cached and are not inductive: an answer that is
on its way becomes an entry. `Inv` adds that what a thread has asked for and will fill in is right too (`HeadRight`, `ListRight`), except while a change
of the key has not reached that cache: `Pending` for the heads, which are invalidated first, `Settled` for the listings. The delicate steps are the changes:
a lookup that has its answer already excludes a change by the file's lock, unless it belongs to a strict listing or the change to a directory's deletion; then the invalidation
passes the answer by and puts the entry into `doubt`. A change that fails puts whatever it may have made stale into `doubt`. Proved are type correctness, `FilesRight` and `ListsRight`.
The callbacks (`DirSpec`, which the run object_cache checks) keep all three, as each step of theirs is an operation's or leaves the caches alone (`CachesRight`).
`DirInv` adds what `ShowsWhatStays` and `LeavesNothingBehind` rest on. A file is `Covered` when the directory's cached listing and each one under way have it, unless the
listing is in doubt; every stored file is covered, but for the one that a Close has just uploaded and not invalidated yet. What a callback has still to show (`Unseen`) is stored,
covered and in the listing it asked for itself (`StaysRight`). A Close keeps its file in `mOpen` until its invalidation is over (`ClosesOne`), so a file that the listing may lack is among the
open ones that ReadDirectory copied before it listed: this order is what the proof needs.

**BucketCache_proofs**, for any callbacks and buckets, and any times of which the empty list's window is not longer than the expiry. `ListsAreRecent` and `HeadsAreRecent` speak of answers
and are not inductive. `Inv` adds that the cached list is what there was, but for changes younger than it (`Near`, in `Ages`); that the list's age and the minutes to the timer's round add
up to at most `Bound`, unless the timer is about to clear it (`Renewed`); that a refused bucket's region stays cached (`RefusedKnown`, as clbClear leaves the regions); and, for each thread, what it
has by each step (`Shape`, `Reads`, `Looks`, `Hides`). The delicate steps are `Clear` and `SetList`, which make the time or the list that another thread has just looked at wrong for what it
reads next: these threads are `raced`. Proved are type correctness and all three properties.

**ServiceLifecycle_proofs**, for any number of drives. `StaysUp` says nothing of how a drive comes to crash, so `Inv` adds to the types, for each drive: the parts that each stage
of its life has (`Stages`, `Made`), which threads there are at each stage (`Kept`, `Joined`), and that while it has served, what a callback, a handler or a task works with is alive.
Proved are type correctness, with the events' life time, and `StaysUp`.

**SyncContent_proofs**, for any object, part size, threads and requests. `Inv` says where the program stands while it downloads: each task is in one place and its part open
(`Tasks`); the parts are laid without gap or overlap from where the download began to its end, and cover what the request lacks (`Downloads`, by the arithmetic of
`UnitCount` and `FilePartsLaid`); what has come of a part, and all of one with a good result, is the object's data (`Filled`); the file is as the request expects it up to where the download
began, and nothing of the user's is beyond (`Files`). The delicate steps are the last part that `Collect` takes, where the parts' results add up to the request, `Store` beyond the file's end, which leaves a hole until
another part fills it, and the write or resize of `Complete`. Proved are type correctness and all safety properties of the run.

**MultipartUpload_proofs**, for any callers, threads, files and part sizes. `Inv` relates a call, its parts, the queue, the threads and the store's upload: a task is queued once or in one
thread's hands, only while its call waits for it; a good part is in the store under its number; what is aborted has `trouble`. Proved are type correctness, `QuietAfterReturn`,
`AbortsOnFailure`, `FailsByItself` and the refinement of `AtomicPut`: only `Complete`, and the put of a single part, change the object. That the parts in their order make up the file
(`FlattenSeq`) is a property of a recursive function; it is proved by taking the least length at which it fails (`NatLessThanWellFounded`, `WFMin`), as induction itself is not available.

**FileDriver_proofs**, for any paths, contexts, cache files and DirEntries. In every world: the types, by which the cache files and DirEntries that exist are those that a table or a context
points to, so that none is used when it is gone, and the next one needed is free (`RoomForOneMore`); `NoEntryLeak`, by counting; and
`DeletesOnlyTheDeleted`, by each step that can take an object out of the bucket, lost answers among them, from `Doomed` (a name in `deleting` is a file the user has deleted
and still has open) and `NamesFit` (unless files are shared, a handle's path is its file's name).
For the rest, `CalmInv`: no two paths share a cache file or a DirEntry (`Apart`), and each path is in one of four states, told apart by its contexts: `Idle` (none, and the bucket has what was stored last), `Live` (the cache file has
what was stored last, or nothing while the bucket has it; the entry says so; and a handle that is still to be closed has `modify` whenever the bucket differs), `Condemned` (to be deleted by the last Cleanup) or `Dead` (deleted, still to be closed). As
the code compares cache file, entry and object by time stamp only, `h` gives the content that belongs to each stamp, and a step that stores extends it. A step answers for
the paths that it touches and no more (`StepFits`): one, or two for Rename. The last Close of a deleted file needs `NoEntryLeak` of the state it leads to, as the entry's count is what says that nobody uses it.
`CalmInv` was model-checked first. Proved are `RegisteredWhenCalm`, `ReadsSeeWrites`, `Durable` and `CreatesOnlyNew`.

Only model-checked: liveness (`OnlyDoubleLockHangs`, `TaskEnds`, `Answered`, `EndsUnlessRobbed`), which is out of the prover's reach. The four properties that a run finds violated are not proved, nor is
anything about the circumstances these runs show, which the assumptions on the world leave out. The assumptions of the proofs are the modules' `ASSUME`s, which TLC evaluates in each run.

## 6. Not modelled

The creation of directories, the patterns and markers of ReadDirectory, paging (constrained) writes, allocation size, security descriptors; listings in pages; the HIDDEN attribute a
listing sets in shared entries: see the plan. The Google client: its calls are the S3 client's without retries or parts, and its upload depends on a library's destructor.
FileContextSweeper: it runs when no other thread does. Left out for good: logging, decryption, string and time conversion, registry, set-up scripts, tools and tests.
Left out of single operations as well: `copyObject` of a directory in Rename, which concerns empty directories only (`CSDriver_cb.cpp:1023`); and `UploadSimple` takes the length from
the caller's file information, which the model takes to be the cache file's, as nobody changes either while the name is locked.
