------------------------------ MODULE NameGuard ------------------------------
(***************************************************************************)
(* The per-name lock around every file-system callback (Protect.hpp and    *)
(* the Relay* functions of CSDriverBase_cb.cpp).                           *)
(*                                                                         *)
(* A ShareStore maps a name to a heap object that holds a mutex and a      *)
(* reference count.  A callback constructs an UnprotectedShare (find or    *)
(* insert the object, count one more reference), locks the object's mutex, *)
(* runs the handler, unlocks, and destroys the share (count one less,      *)
(* erase the object at zero).  Construction and destruction each run under *)
(* the store's mMapGuard and are single steps here; between them threads   *)
(* interleave freely.  RelayRename nests a second share and lock, of the   *)
(* new name, inside the first.  It takes the first name from the handle,   *)
(* whose path is stale after a rename through another handle of the file,  *)
(* so the two can be one name, and then its thread locks one std::mutex    *)
(* twice.  That is undefined; what a build can make of it is to wait for   *)
(* ever, or to throw (as MSVC's std::mutex does), which leaves both shares *)
(* and answers the rename with an error (relayReturnable's catch).         *)
(***************************************************************************)
EXTENDS Integers, FiniteSets

CONSTANTS
  Threads,   (* WinFsp dispatcher threads                                  *)
  Names,     (* Windows paths                                              *)
  Objects,   (* heap addresses of FileNameGuard objects, reused when freed *)
  NULL       (* the null pointer, also "no thread" and "no name"           *)

ASSUME ThreadsFinite == IsFiniteSet(Threads)
ASSUME NullIsNothing == NULL \notin Threads \cup Names \cup Objects

VARIABLES
  mMap,       (* mMap[n]: the object stored for n, NULL when there is none *)
  mRefCount,  (* mRefCount[o]: SharedBase::mRefCount of object o           *)
  mOwner,     (* mOwner[o]: the thread inside o's mMutex, NULL when free   *)
  mV,         (* mV[t][s]: the pointer t's share s (Slots) holds           *)
  pc,         (* where each thread is                                      *)
  src,        (* src[t]: the name of t's (outer) share                     *)
  dst,        (* dst[t]: the name of Rename's inner share, else NULL       *)
  access      (* access[t]: how WinFsp's own operation guard admitted t    *)

store  == <<mMap, mRefCount>>
call   == <<src, dst, access>>
vars   == <<mMap, mRefCount, mOwner, mV, pc, src, dst, access>>

Locations == {"idle", "ctor1", "lock1", "ctor2", "lock2", "stuck", "run",
              "unlock2", "dtor2", "unlock1", "dtor1"}

(* a callback's UnprotectedShares: Rename nests the inner one              *)
Slots == {"outer", "inner"}

TypeOK ==
  /\ mMap \in [Names -> Objects \cup {NULL}]
  /\ mRefCount \in [Objects -> Nat]
  /\ mOwner \in [Objects -> Threads \cup {NULL}]
  /\ mV \in [Threads -> [Slots -> Objects \cup {NULL}]]
  /\ pc \in [Threads -> Locations]
  /\ src \in [Threads -> Names \cup {NULL}]
  /\ dst \in [Threads -> Names \cup {NULL}]
  /\ access \in [Threads -> {"free", "shared", "exclusive"}]
  (* a thread inside a callback has a name; only Rename has a second one;  *)
  (* it runs the handler only when they differ, and is stuck when they do  *)
  (* not                                                                   *)
  /\ \A t \in Threads :
        /\ IF pc[t] = "idle" THEN dst[t] = NULL ELSE src[t] # NULL
        /\ pc[t] \in {"ctor2", "lock2", "unlock2", "dtor2"} => dst[t] # NULL
        /\ pc[t] \in {"run", "unlock2"} => dst[t] # src[t]
        /\ pc[t] = "stuck" => dst[t] = src[t]

Init ==
  /\ mMap = [n \in Names |-> NULL]
  /\ mRefCount = [o \in Objects |-> 0]
  /\ mOwner = [o \in Objects |-> NULL]
  /\ mV = [t \in Threads |-> [s \in Slots |-> NULL]]
  /\ pc = [t \in Threads |-> "idle"]
  /\ src = [t \in Threads |-> NULL]
  /\ dst = [t \in Threads |-> NULL]
  /\ access = [t \in Threads |-> "free"]

------------------------------------------------------------------------------
(* WinFsp admits a request.  Its default (fine) operation guard runs Create *)
(* and Rename alone among Open, SetDelete and the other guarded requests,   *)
(* and leaves Read, Write, Close, ... to themselves.                        *)
Admits(mode) ==
  CASE mode = "free"      -> TRUE
    [] mode = "shared"    -> \A u \in Threads : access[u] # "exclusive"
    [] mode = "exclusive" -> \A u \in Threads : access[u] = "free"

(* a callback that locks one name: every Relay* but RelayRename            *)
Enter(t, n, mode) ==
  /\ pc[t] = "idle"
  /\ Admits(mode)
  /\ pc' = [pc EXCEPT ![t] = "ctor1"]
  /\ src' = [src EXCEPT ![t] = n]
  /\ access' = [access EXCEPT ![t] = mode]
  /\ UNCHANGED <<mMap, mRefCount, mOwner, mV, dst>>

(* RelayRename: n is the path the handle was opened with, m the new name.   *)
(* WinFsp renames no file to its own name, but a handle whose file another  *)
(* handle renamed still has the path of before, so m can be n.              *)
EnterRename(t, n, m) ==
  /\ pc[t] = "idle"
  /\ Admits("exclusive")
  /\ pc' = [pc EXCEPT ![t] = "ctor1"]
  /\ src' = [src EXCEPT ![t] = n]
  /\ dst' = [dst EXCEPT ![t] = m]
  /\ access' = [access EXCEPT ![t] = "exclusive"]
  /\ UNCHANGED <<mMap, mRefCount, mOwner, mV>>

(* UnprotectedShare's constructor finds the object of n ...                *)
Find(t, s, n) ==
  /\ mMap[n] # NULL
  /\ mRefCount' = [mRefCount EXCEPT ![mMap[n]] = @ + 1]
  /\ mV' = [mV EXCEPT ![t][s] = mMap[n]]
  /\ UNCHANGED <<mMap, mOwner>>

(* a new object does not count the share it is made for                    *)
MakesUncounted(t, s, n) ==
  /\ mMap[n] = NULL
  /\ \E o \in Objects :
        /\ \A m \in Names : mMap[m] # o
        /\ mMap' = [mMap EXCEPT ![n] = o]
        /\ mRefCount' = [mRefCount EXCEPT ![o] = 0]
        /\ mOwner' = [mOwner EXCEPT ![o] = NULL]
        /\ mV' = [mV EXCEPT ![t][s] = o]

(* ... or makes one, at any address that no stored object occupies         *)
Emplace(t, s, n) ==
  /\ mMap[n] = NULL
  /\ \E o \in Objects :
        /\ \A m \in Names : mMap[m] # o
        /\ mMap' = [mMap EXCEPT ![n] = o]
        /\ mRefCount' = [mRefCount EXCEPT ![o] = 1]
        /\ mOwner' = [mOwner EXCEPT ![o] = NULL]
        /\ mV' = [mV EXCEPT ![t][s] = o]

Construct(t, s, n, here, next) ==
  /\ pc[t] = here
  /\ Find(t, s, n) \/ Emplace(t, s, n)
  /\ pc' = [pc EXCEPT ![t] = next]
  /\ UNCHANGED call

(* ProtectedShare's constructor: mMutex.lock(), which blocks               *)
Lock(t, s, here, next) ==
  /\ pc[t] = here
  /\ mOwner[mV[t][s]] = NULL
  /\ mOwner' = [mOwner EXCEPT ![mV[t][s]] = t]
  /\ pc' = [pc EXCEPT ![t] = next]
  /\ UNCHANGED <<store, mV, call>>

(* ... which for a mutex this thread is already inside is undefined: it    *)
(* waits for itself, or throws out of both shares                          *)
LockAgain(t) ==
  /\ pc[t] = "lock2"
  /\ mOwner[mV[t]["inner"]] = t
  /\ \E next \in {"stuck", "dtor2"} : pc' = [pc EXCEPT ![t] = next]
  /\ UNCHANGED <<store, mOwner, mV, call>>

(* the handler itself, whose steps other modules describe                  *)
Handle(t) ==
  /\ pc[t] = "run"
  /\ pc' = [pc EXCEPT ![t] = IF dst[t] = NULL THEN "unlock1" ELSE "unlock2"]
  /\ UNCHANGED <<store, mOwner, mV, call>>

(* the mutex stays locked                                                  *)
ForgetsToUnlock(t, s, here, next) ==
  /\ pc[t] = here
  /\ pc' = [pc EXCEPT ![t] = next]
  /\ UNCHANGED <<store, mOwner, mV, call>>

(* ProtectedShare's destructor                                             *)
Unlock(t, s, here, next) ==
  /\ pc[t] = here
  /\ mOwner' = [mOwner EXCEPT ![mV[t][s]] = NULL]
  /\ pc' = [pc EXCEPT ![t] = next]
  /\ UNCHANGED <<store, mV, call>>

(* the object goes with the first share that is destroyed                  *)
ErasesWhileShared(n) ==
  /\ mRefCount' = [mRefCount EXCEPT ![mMap[n]] = @ - 1]
  /\ mMap' = [mMap EXCEPT ![n] = NULL]

(* the object is never erased                                              *)
KeepsLastReference(n) ==
  /\ mRefCount' = [mRefCount EXCEPT ![mMap[n]] = @ - 1]
  /\ mMap' = mMap

(* UnprotectedShare's destructor looks the name up again, counts down, and *)
(* erases the object (which frees it) when nobody is left                  *)
DropReference(n) ==
  /\ mRefCount' = [mRefCount EXCEPT ![mMap[n]] = @ - 1]
  /\ mMap' = IF mRefCount[mMap[n]] = 1 THEN [mMap EXCEPT ![n] = NULL] ELSE mMap

Destroy(t, s, n, here, next) ==
  /\ pc[t] = here
  /\ DropReference(n)
  /\ mV' = [mV EXCEPT ![t][s] = NULL]
  /\ pc' = [pc EXCEPT ![t] = next]
  /\ UNCHANGED mOwner

(* the callback returns: its last share is gone and WinFsp's guard is left *)
Leave(t) ==
  /\ Destroy(t, "outer", src[t], "dtor1", "idle")
  /\ src' = [src EXCEPT ![t] = NULL]
  /\ dst' = [dst EXCEPT ![t] = NULL]
  /\ access' = [access EXCEPT ![t] = "free"]

------------------------------------------------------------------------------
(* One callback, from the constructor of its outer share to the destructor. *)
Relay(t) ==
  \/ Construct(t, "outer", src[t], "ctor1", "lock1")
  \/ Lock(t, "outer", "lock1", IF dst[t] = NULL THEN "run" ELSE "ctor2")
  \/ Construct(t, "inner", dst[t], "ctor2", "lock2")
  \/ Lock(t, "inner", "lock2", "run")
  \/ LockAgain(t)
  \/ Handle(t)
  \/ Unlock(t, "inner", "unlock2", "dtor2")
  \/ Destroy(t, "inner", dst[t], "dtor2", "unlock1") /\ UNCHANGED call
  \/ Unlock(t, "outer", "unlock1", "dtor1")
  \/ Leave(t)

Next ==
  \/ \E t \in Threads, n \in Names, mode \in {"free", "shared", "exclusive"} :
        Enter(t, n, mode)
  \/ \E t \in Threads, n, m \in Names : EnterRename(t, n, m)
  \/ \E t \in Threads : Relay(t)

(* No thread of a callback stops for ever while it can take a step.  The   *)
(* mutexes are not assumed to be fair to their waiters.                    *)
Fairness == \A t \in Threads : WF_vars(Relay(t))

Spec == Init /\ [][Next]_vars
FairSpec == Spec /\ Fairness

------------------------------------------------------------------------------
(* t is between the constructor and the destructor of its share s of n     *)
Shares(t, s, n) ==
  \/ /\ s = "outer"
     /\ n = src[t]
     /\ pc[t] \notin {"idle", "ctor1"}
  \/ /\ s = "inner"
     /\ n = dst[t]
     /\ pc[t] \in {"lock2", "stuck", "run", "unlock2", "dtor2"}

(* t is inside the lock of n                                               *)
Holds(t, n) ==
  \/ /\ n = src[t]
     /\ pc[t] \in {"ctor2", "lock2", "stuck", "run", "unlock2", "dtor2", "unlock1"}
  \/ /\ n = dst[t]
     /\ pc[t] \in {"run", "unlock2"}

(* Two callbacks never run inside the lock of one name together, although  *)
(* the object that carries the lock is erased and made again between       *)
(* callbacks.                                                              *)
MutualExclusion ==
  \A t, u \in Threads, n \in Names : Holds(t, n) /\ Holds(u, n) => t = u

(* An object is in the store exactly as long as some callback has a share  *)
(* of it, under the name that callback used: nobody waits on, or owns, a   *)
(* mutex that was erased, not even the second share of one callback that   *)
(* gave up its double lock, and nothing stays behind when all have left.   *)
StoreTracksShares ==
  /\ \A t \in Threads, s \in Slots, n \in Names :
        Shares(t, s, n) => mV[t][s] # NULL /\ mV[t][s] = mMap[n]
  /\ \A t \in Threads, s \in Slots :
        mV[t][s] # NULL => \E n \in Names : Shares(t, s, n)
  /\ \A n \in Names :
        mMap[n] # NULL => \E t \in Threads, s \in Slots : Shares(t, s, n)

(* The guard implements one plain lock per name.                           *)
Locks == INSTANCE NameLocks WITH held <- {p \in Threads \X Names : Holds(p[1], p[2])}
ImplementsNameLocks == Locks!Spec

(* t is a rename that waits for its own lock, or waits for such a rename   *)
Hangs(t) ==
  \/ pc[t] = "stuck"
  \/ pc[t] = "lock1" /\ \E u \in Threads : pc[u] = "stuck" /\ src[u] = src[t]

CallArrives == \E t \in Threads : pc[t] = "idle" /\ pc'[t] # "idle"

(* Unless calls keep arriving for ever, every call returns, but a rename   *)
(* through a stale handle back to the path it was opened with, and the     *)
(* calls that wait for that name.  Nothing else hangs: Rename's two locks, *)
(* taken source first, close no cycle, because WinFsp runs one rename at a *)
(* time and every other callback takes one lock at a time.                 *)
OnlyDoubleLockHangs ==
  \/ []<><<CallArrives>>_vars
  \/ <>[](\A t \in Threads : pc[t] = "idle" \/ Hangs(t))

=============================================================================
