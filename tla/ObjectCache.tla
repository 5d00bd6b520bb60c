----------------------------- MODULE ObjectCache -----------------------------
(***************************************************************************)
(* The cache of object attributes and listings (QueryObject, CacheObject)  *)
(* under the operations of CSDevice that read, fill and invalidate it.     *)
(*                                                                         *)
(* Two caches, one of HeadObject answers and one of ListObjectsV2 answers, *)
(* each with positive and negative entries and a lock of its own, which is *)
(* held only inside one coXxx function.  A lookup that misses asks the     *)
(* store without any lock and fills the cache afterwards; an operation     *)
(* that changes an object invalidates the object and its parent directory, *)
(* first in one cache and then in the other.  Threads interleave between   *)
(* all of these.  What keeps them apart is the per-name lock of the        *)
(* file-system callback they run in (NameGuard).                           *)
(***************************************************************************)
EXTENDS Integers, Sequences, FiniteSets, Functions

CONSTANTS
  Threads,
  Files,               (* keys of files                                    *)
  Dirs,                (* keys of directories, all directly below Top      *)
  Top,                 (* the bucket                                       *)
  Parent,              (* toParentDir                                      *)
  Worlds               (* the circumstances considered, one in a behaviour *)

Keys  == Files \cup Dirs
Lists == Dirs \cup {Top}

ASSUME KeysApart == Files \cap Dirs = {} /\ Top \notin Keys
ASSUME ParentKnown ==
  /\ Parent \in [Keys -> Lists]
  /\ \A d \in Dirs : Parent[d] = Top

(* keys: those that operations are about; strict: the setting               *)
(* StrictFileTimestamp; failing: the API calls that may fail, "change" being *)
(* those that put, copy or delete                                           *)
ASSUME WorldsKnown ==
  \A w \in Worlds :
    w.keys \subseteq Keys /\ w.strict \in BOOLEAN /\ w.failing \subseteq {"head", "list", "change"}

VARIABLES
  store,         (* store[k]: the version of object k in the bucket, 0 none *)
  headPositive,  (* CacheHeadObject: key -> version                        *)
  headNegative,
  listPositive,  (* CacheListObjects: directory -> what is listed          *)
  listNegative,
  world,         (* the circumstances                                      *)
  op,            (* op[t]: the CSDevice operation thread t is in           *)
  doubt          (* ghost: <<cache, key>> where an answer may be out of    *)
                 (* date when it is filled in                              *)

head == <<headPositive, headNegative>>
list == <<listPositive, listNegative>>
vars == <<store, head, list, world, op, doubt>>

Versions == 0 .. 2

Idle == [call |-> "none", locked |-> {}, at |-> "idle", look |-> Top, got |-> 0,
         listing |-> {}, todo |-> {}, drop |-> <<>>]

TypeOK ==
  /\ store \in [Keys -> Versions] /\ \A d \in Dirs : store[d] # 2
  /\ DOMAIN headPositive \subseteq Keys
  /\ \A k \in DOMAIN headPositive : headPositive[k] \in 1 .. 2
  /\ headNegative \subseteq Keys
  /\ DOMAIN listPositive \subseteq Lists
  /\ \A d \in DOMAIN listPositive :
        \A k \in listPositive[d] : Parent[k] = d
  /\ listNegative \subseteq Lists
  /\ world \in Worlds
  /\ \A t \in Threads :
        /\ op[t].locked \subseteq Keys \cup {Top}
        /\ op[t].todo \subseteq Keys
        /\ op[t].drop \in Seq(Keys)
        /\ op[t].look \in (IF op[t].at \in {"list positive", "list ask",
                                            "list fill", "list failed"} THEN Lists ELSE Keys \cup {Top})
        /\ op[t].at = "idle" <=> op[t] = Idle
        (* no two threads are in callbacks of one name                     *)
        /\ \A u \in Threads \ {t} : op[t].locked \cap op[u].locked = {}

Init ==
  /\ world \in Worlds
  /\ store \in [Keys -> 0 .. 1] /\ \A k \in Keys \ world.keys : store[k] = 0
  /\ headPositive = << >> /\ headNegative = {}
  /\ listPositive = << >> /\ listNegative = {}
  /\ op = [t \in Threads |-> Idle]
  /\ doubt = {}

------------------------------------------------------------------------------
MayFail(call) == call \in world.failing

(* a directory is listed when there is an object of it or below it         *)
Shown(k) == store[k] # 0 \/ \E f \in Files : Parent[f] = k /\ store[f] # 0

(* ListObjectsV2's answer for d                                            *)
Listing(d) == {k \in Keys : Parent[k] = d /\ Shown(k)}

Goto(t, there) == op' = [op EXCEPT ![t].at = there]

(* for comparison: callbacks that take no lock of their names                *)
TakesNoLock(names) == TRUE

(* the callback waits for the locks of its names (NameGuard)                 *)
Free(names) == \A u \in Threads : op[u].locked \cap names = {}

(* the lookup of a key is over: display goes on with the next one          *)
Found(o) == IF o.todo = {} THEN Idle ELSE [o EXCEPT !.at = "next", !.look = Top, !.got = 0]

------------------------------------------------------------------------------
(* qoHeadObject and qoHeadObjectOrListObjects                              *)

(* coIsNegative, in a callback of the name k or going through a listing     *)
IsNegative(t, k) ==
  /\ \/ op[t] = Idle /\ k \in world.keys /\ Free({k})
     \/ op[t].at = "next" /\ k \in op[t].todo
  /\ LET o == IF op[t] = Idle THEN [Idle EXCEPT !.call = "headObject", !.locked = {k}]
              ELSE [op[t] EXCEPT !.todo = @ \ {k}]
     IN op' = [op EXCEPT ![t] = IF k \in headNegative THEN Found(o)
                                ELSE [o EXCEPT !.look = k, !.at = "positive"]]
  /\ UNCHANGED <<store, head, list, world, doubt>>

IsPositive(t) ==
  /\ op[t].at = "positive"
  /\ op' = [op EXCEPT ![t] = IF @.look \in DOMAIN headPositive THEN Found(@)
                             ELSE [@ EXCEPT !.at = "ask"]]
  /\ UNCHANGED <<store, head, list, world, doubt>>

(* what the HeadObject API may answer                                      *)
HeadAnswers(k) == {store[k]} \cup (IF MayFail("head") THEN {0} ELSE {})

(* for a directory without an object of its own the parent's listing       *)
(* decides                                                                 *)
AskHead(t) ==
  LET k == op[t].look IN
  /\ op[t].at = "ask"
  /\ \E v \in HeadAnswers(k) :
        /\ op' = [op EXCEPT ![t] = [@ EXCEPT !.got = v,
                                             !.at = IF v = 0 /\ k \in Dirs THEN "parent" ELSE "fill"]]
        /\ doubt' = IF v = store[k] THEN doubt ELSE doubt \cup {<<"head", k>>}
  /\ UNCHANGED <<store, head, list, world>>

(* ... which is the cached one, if there is one ...                        *)
AskParentCache(t) ==
  LET k == op[t].look IN
  /\ op[t].at = "parent"
  /\ op' = [op EXCEPT ![t] =
              [@ EXCEPT !.got = IF Parent[k] \in DOMAIN listPositive /\ k \in listPositive[Parent[k]]
                                THEN 1 ELSE 0,
                        !.at = IF Parent[k] \in DOMAIN listPositive THEN "fill" ELSE "ask parent"]]
  /\ UNCHANGED <<store, head, list, world, doubt>>

(* ... else a new one, which is not cached                                 *)
AskParent(t) ==
  LET k == op[t].look IN
  /\ op[t].at = "ask parent"
  /\ \/ /\ op' = [op EXCEPT ![t] = [@ EXCEPT !.got = IF Shown(k) THEN 1 ELSE 0, !.at = "fill"]]
        /\ UNCHANGED doubt
     \/ /\ MayFail("list")
        /\ op' = [op EXCEPT ![t].at = "fill"]
        /\ doubt' = doubt \cup {<<"head", k>>}
  /\ UNCHANGED <<store, head, list, world>>

(* std::map::emplace keeps an entry that is there                          *)
Emplaced(f, x, y) == [z \in DOMAIN f \cup {x} |-> IF z \in DOMAIN f THEN f[z] ELSE y]

(* coSet or coAddNegative                                                  *)
FillHead(t) ==
  LET k == op[t].look IN
  /\ op[t].at = "fill"
  /\ IF op[t].got # 0
     THEN headPositive' = Emplaced(headPositive, k, op[t].got) /\ UNCHANGED headNegative
     ELSE headNegative' = headNegative \cup {k} /\ UNCHANGED headPositive
  /\ op' = [op EXCEPT ![t] = Found(@)]
  /\ UNCHANGED <<store, list, world, doubt>>

Lookup(t) ==
  \/ IsPositive(t) \/ AskHead(t)
  \/ AskParentCache(t) \/ AskParent(t) \/ FillHead(t)

------------------------------------------------------------------------------
(* qoListObjects and listDisplayObjects                                    *)

(* With StrictFileTimestamp listDisplayObjects then looks up everything    *)
(* that is listed, the directory and its parent, all under the lock of the *)
(* directory's name; without, it only reads the cache.                     *)
Listed(t, shows) ==
  LET d == op[t].look IN
  op' = [op EXCEPT ![t] =
           IF @.call = "listDisplayObjects" /\ world.strict
           THEN [@ EXCEPT !.at = "next", !.look = Top, !.listing = Idle.listing,
                          !.todo = shows \cup ({d} \ {Top})]
           ELSE Idle]

ListIsNegative(t, d, call) ==
  /\ op[t] = Idle /\ Free({d})
  /\ d \notin listNegative
  /\ op' = [op EXCEPT ![t] = [Idle EXCEPT !.call = call, !.locked = {d}, !.look = d,
                                          !.at = "list positive"]]
  /\ UNCHANGED <<store, head, list, world, doubt>>

ListIsPositive(t) ==
  LET d == op[t].look IN
  /\ op[t].at = "list positive"
  /\ IF d \in DOMAIN listPositive THEN Listed(t, listPositive[d]) ELSE Goto(t, "list ask")
  /\ UNCHANGED <<store, head, list, world, doubt>>

(* the ListObjectsV2 API                                                   *)
AskList(t) ==
  /\ op[t].at = "list ask"
  /\ \/ op' = [op EXCEPT ![t] = [@ EXCEPT !.at = "list fill", !.listing = Listing(op[t].look)]]
     \/ MayFail("list") /\ Goto(t, "list failed")
  /\ UNCHANGED <<store, head, list, world, doubt>>

FillList(t) ==
  /\ \/ /\ op[t].at = "list fill"
        /\ listPositive' = Emplaced(listPositive, op[t].look, op[t].listing)
        /\ Listed(t, op[t].listing)
        /\ UNCHANGED listNegative
     \/ /\ op[t].at = "list failed"
        /\ listNegative' = listNegative \cup {op[t].look}
        /\ op' = [op EXCEPT ![t] = Idle]
        /\ UNCHANGED listPositive
  /\ UNCHANGED <<store, head, world, doubt>>

ListUp(t) ==
  ListIsPositive(t) \/ AskList(t) \/ FillList(t)

------------------------------------------------------------------------------
(* putObject, copyObject, deleteObject and deleteObjects: the API call, and *)
(* when it succeeds the invalidation of each key.  A put or copy makes      *)
(* another version of the object.  Rename's copyObject of an empty          *)
(* directory is left out.                                                   *)
Changes(call) ==
  LET pairs == {p \in Files \X Files : p[1] # p[2]}
      below == {k \in Files : Parent[k] # Top}
  IN CASE call \in {"putObject", "deleteObject"} -> {<<k>> : k \in Keys}
       [] call = "copyObject" -> pairs
       [] call = "deleteObjects" ->
            {<<k>> : k \in below} \cup {p \in pairs : p[1] \in below /\ Parent[p[1]] = Parent[p[2]]}

(* the names whose locks the callback holds: those of the objects, but      *)
(* deleteObjects works for the directory's SetDelete                        *)
Names(call, keys) == IF call = "deleteObjects" THEN {Parent[keys[1]]} ELSE Range(keys)

NewVersion(k) == IF k \in Dirs \/ store[k] # 1 THEN 1 ELSE 2

Stored(call, keys) ==
  CASE call = "putObject" -> [store EXCEPT ![keys[1]] = NewVersion(keys[1])]
    [] call = "copyObject" -> [store EXCEPT ![keys[2]] = NewVersion(keys[2])]
    [] call \in {"deleteObject", "deleteObjects"} ->
         [k \in Keys |-> IF k \in Range(keys) THEN 0 ELSE store[k]]

(* the bucket s, but with the objects of ks as they are                     *)
Sparing(s, ks) == [k \in Keys |-> IF k \in ks THEN store[k] ELSE s[k]]

(* what is left as it was by a call that succeeds: S3's DeleteObjects does   *)
(* even when it could not delete some of the keys                           *)
Spared(call, keys) ==
  IF call = "deleteObjects" /\ MayFail("change") THEN SUBSET Range(keys) ELSE {{}}

Change(t, call, keys) ==
  /\ op[t] = Idle /\ Free(Names(call, keys))
  /\ call = "copyObject" => store[keys[1]] # 0
  /\ \E spared \in Spared(call, keys) : store' = Sparing(Stored(call, keys), spared)
  /\ op' = [op EXCEPT ![t] = [Idle EXCEPT !.call = call, !.locked = Names(call, keys),
                                          !.at = "drop head", !.drop = keys]]
  /\ UNCHANGED <<head, list, world, doubt>>

(* what thread u has asked for and will fill in                             *)
Filling(cache, x) ==
  \E u \in Threads :
    /\ op[u].look = x
    /\ op[u].at \in IF cache = "head" THEN {"parent", "ask parent", "fill"} ELSE {"list fill"}

(* what is cached, or will be, of x                                         *)
HasEntry(cache, x) ==
  \/ Filling(cache, x)
  \/ x \in IF cache = "head" THEN DOMAIN headPositive \cup headNegative
           ELSE DOMAIN listPositive \cup listNegative

(* A call that fails may have been carried out, for some of the keys: its   *)
(* answer is lost, or IApiClient::DeleteObjects stops at a key.  Then       *)
(* nothing is invalidated.  One that changes nothing is not modelled.       *)
FailedChange(t, call, keys) ==
  /\ MayFail("change")
  /\ op[t] = Idle /\ Free(Names(call, keys))
  /\ call = "copyObject" => store[keys[1]] # 0
  /\ \E spared \in SUBSET Range(keys) :
        /\ store' = Sparing(Stored(call, keys), spared)
        /\ LET done == {k \in Range(keys) : store'[k] # store[k]} IN
           /\ done # {}
           /\ doubt' = doubt \cup {x \in {"head"} \X done \cup {"list"} \X {Parent[k] : k \in done} :
                                     HasEntry(x[1], x[2])}
  /\ UNCHANGED <<head, list, world, op>>

(* A dropped entry is in doubt no more, unless it is being filled in.       *)
DoubtAfter(cache, xs) ==
  (doubt \ ({cache} \X xs)) \cup {<<cache, x>> : x \in {y \in xs : Filling(cache, y)}}

(* for comparison: drops the key but not its parent directory               *)
KeepsTheParent(k) == {k}

(* coDeleteByKey: the key and its parent directory                          *)
Dropped(k) == {k, Parent[k]}

Without(f, xs) == Restrict(f, DOMAIN f \ xs)

(* for comparison: the negative entries stay                                *)
ForgetsTheNegatives(t) ==
  /\ op[t].at = "drop head"
  /\ headPositive' = Without(headPositive, Dropped(Head(op[t].drop)))
  /\ doubt' = DoubtAfter("head", Dropped(Head(op[t].drop)))
  /\ Goto(t, "drop list")
  /\ UNCHANGED <<store, headNegative, list, world>>

(* qoDeleteCache: the head cache ...                                        *)
DropHead(t) ==
  LET xs == Dropped(Head(op[t].drop)) IN
  /\ op[t].at = "drop head"
  /\ headPositive' = Without(headPositive, xs)
  /\ headNegative' = headNegative \ xs
  /\ doubt' = DoubtAfter("head", xs)
  /\ Goto(t, "drop list")
  /\ UNCHANGED <<store, list, world>>

(* ... and then the list cache                                              *)
DropList(t) ==
  LET xs == Dropped(Head(op[t].drop))
      rest == Tail(op[t].drop)
  IN
  /\ op[t].at = "drop list"
  /\ listPositive' = Without(listPositive, xs)
  /\ listNegative' = listNegative \ xs
  /\ doubt' = DoubtAfter("list", xs)
  /\ op' = [op EXCEPT ![t] =
              IF rest = <<>> THEN Idle ELSE [@ EXCEPT !.drop = rest, !.at = "drop head"]]
  /\ UNCHANGED <<store, head, world>>

Invalidate(t) == DropHead(t) \/ DropList(t)

------------------------------------------------------------------------------
(* coDeleteByTime, from the timer: entries go when they are old.  One entry *)
(* at a time here; which ones are old is left open.                         *)
ExpireHead(k) ==
  /\ k \in DOMAIN headPositive \cup headNegative
  /\ headPositive' = Without(headPositive, {k})
  /\ headNegative' = headNegative \ {k}
  /\ doubt' = IF Filling("head", k) THEN doubt ELSE doubt \ {<<"head", k>>}
  /\ UNCHANGED <<store, list, world, op>>

ExpireList(d) ==
  /\ d \in DOMAIN listPositive \cup listNegative
  /\ listPositive' = Without(listPositive, {d})
  /\ listNegative' = listNegative \ {d}
  /\ doubt' = IF Filling("list", d) THEN doubt ELSE doubt \ {<<"list", d>>}
  /\ UNCHANGED <<store, head, world, op>>

Operate(t) == Lookup(t) \/ ListUp(t) \/ Invalidate(t)

Next ==
  \/ \E t \in Threads :
       \/ \E k \in Keys : IsNegative(t, k)
       \/ \E d \in Lists, call \in {"listObjects", "listDisplayObjects"} : ListIsNegative(t, d, call)
       \/ \E call \in {"putObject", "copyObject", "deleteObject", "deleteObjects"} :
            \E keys \in Changes(call) : 
              /\ Range(keys) \subseteq world.keys
              /\ Change(t, call, keys) \/ FailedChange(t, call, keys)
       \/ Operate(t)
  \/ \E k \in Keys : ExpireHead(k)
  \/ \E d \in Lists : ExpireList(d)

Spec == Init /\ [][Next]_vars

------------------------------------------------------------------------------
(* Properties                                                               *)

Doubted(cache, x) == <<cache, x>> \in doubt

(* no operation has changed k and is still to invalidate it                 *)
Settled(k) == \A t \in Threads : op[t].at \in {"drop head", "drop list"} => k \notin Range(op[t].drop)

(* What is cached of a file is what the bucket has, as long as this process *)
(* alone changes it and the API answers: a lookup that started before a     *)
(* change never fills in its old answer after the invalidation, because     *)
(* lookup and change of a file exclude each other by its name's lock.  Only *)
(* the lookups of a strict listing and the deletion of a directory's files  *)
(* run under the directory's name instead.                                  *)
FilesRight ==
  \A k \in Files : Settled(k) /\ ~Doubted("head", k) =>
    /\ k \in DOMAIN headPositive => headPositive[k] = store[k]
    /\ k \in headNegative => store[k] = 0

(* A cached listing shows each object of its directory, and no file that is *)
(* not there, unless it was on its way when the directory was invalidated.  *)
ListsRight ==
  \A d \in DOMAIN listPositive : ~Doubted("list", d) =>
    \A k \in Keys : Parent[k] = d /\ Settled(k) =>
      /\ store[k] # 0 => k \in listPositive[d]
      /\ k \in Files \cap listPositive[d] => store[k] # 0

==============================================================================
