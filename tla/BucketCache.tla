----------------------------- MODULE BucketCache -----------------------------
(***************************************************************************)
(* The list of buckets (QueryBucket over CacheListBuckets): callbacks that *)
(* look up a bucket or list them all, the timer that makes the list anew   *)
(* when it is old, and the notification that clears it.                    *)
(*                                                                         *)
(* Each clbXxx function locks the cache, nothing is locked between them    *)
(* and no name's lock covers the list, so all of these interleave.  An     *)
(* empty list is believed for a while (Window); otherwise an empty cache   *)
(* asks the store.                                                         *)
(*                                                                         *)
(* Time is in minutes and kept as ages.  A request ends in the minute it   *)
(* began in, and the timer does not miss its minute.                       *)
(***************************************************************************)
EXTENDS Integers

CONSTANTS
  Callers,   (* dispatcher threads                                         *)
  timer,     (* the TimerWorker's thread                                   *)
  listener,  (* the NotifListener's thread                                 *)
  Buckets,   (* those that pass bucket_filters and max_display_buckets     *)
  Foreign,   (* in a region that the client cannot access                  *)
  Expiry,    (* bucket_cache_expiry_min                                    *)
  Period,    (* of IdleTask, 10 minutes                                    *)
  Window     (* how long an empty list is believed, 1 minute               *)

Threads == Callers \cup {timer, listener}

ASSUME ThreadsApart == timer # listener /\ {timer, listener} \cap Callers = {}
ASSUME ForeignKnown == Foreign \subseteq Buckets
ASSUME TimesPositive == /\ Expiry \in Nat \ {0} /\ Period \in Nat \ {0}
                        /\ Window \in Nat \ {0}
ASSUME WindowShort == Window <= Expiry

VARIABLES
  buckets,   (* the buckets there are                                      *)
  changed,   (* ghost, changed[b]: how long ago b was made or removed      *)
  mList,     (* the cached list                                            *)
  setAge,    (* the age of mLastSetTime                                    *)
  mBucketRegions, (* the buckets whose region is cached                    *)
  strict,    (* RuntimeEnv's StrictBucketRegion                            *)
  due,       (* minutes until IdleTask                                     *)
  op,        (* op[t]: what thread t is doing                              *)
  refused    (* ghost: buckets that a lookup has refused for their region  *)

service == <<buckets, changed>>
cache   == <<mList, setAge, mBucketRegions>>
vars    == <<service, cache, strict, due, op, refused>>

(* A list is at most so old when it is read: it stays valid when the timer  *)
(* sees it just before it expires, and is looked at again a period later.   *)
Bound == Expiry + Period - 1

Long  == Bound + 1       (* ages are counted up to here                    *)
Epoch == Long + 1        (* the age of time_point{}                        *)

Older(age) == IF age < Long THEN age + 1 ELSE age

Idle == [call |-> "none", at |-> "idle", got |-> {}, todo |-> {}, hide |-> {},
         answer |-> "none", raced |-> FALSE, warned |-> {}]

Init ==
  /\ buckets \in SUBSET Buckets
  /\ changed = [b \in Buckets |-> Long]
  (* the device's start has listed them                                     *)
  /\ mList = buckets /\ setAge = 0 /\ mBucketRegions = {}
  /\ strict \in BOOLEAN
  /\ due = 1
  /\ op = [t \in Threads |-> Idle]
  /\ refused = {}

------------------------------------------------------------------------------
Goto(t, there) == op' = [op EXCEPT ![t].at = there]

Answer(t, a) == op' = [op EXCEPT ![t] = [@ EXCEPT !.at = "answered", !.answer = a]]

(* it is over, without an answer that a property looks at                   *)
End(t) == op' = [op EXCEPT ![t] = Idle]

(* listBuckets is over: a callback goes on with the regions                 *)
Listed(o, list) ==
  IF o.call = "list" THEN [o EXCEPT !.at = "regions", !.got = list, !.todo = list, !.warned = refused]
  ELSE Idle

(* ghost: the callbacks at one of these steps have been overtaken           *)
Overtaken(ops, steps) ==
  [u \in Threads |-> IF u \in Callers /\ ops[u].at \in steps THEN [ops[u] EXCEPT !.raced = TRUE] ELSE ops[u]]

Start(t, call, there, list) ==
  /\ op[t] = Idle
  /\ op' = [op EXCEPT ![t] = [Idle EXCEPT !.call = call, !.at = there, !.got = list]]

ListBuckets(t) ==
  Start(t, "list", "empty", {}) /\ UNCHANGED <<service, cache, strict, due, refused>>

HeadBucket(t, b) ==
  Start(t, "head", "region", {b}) /\ UNCHANGED <<service, cache, strict, due, refused>>

(* IdleTask runs qbReload                                                   *)
OnIdle ==
  /\ due = 0
  /\ Start(timer, "reload", "reload", {})
  /\ due' = Period
  /\ UNCHANGED <<service, cache, strict, refused>>

(* the clear-cache event: qbClearCache, then what the timer does            *)
OnNotif ==
  Start(listener, "notified", "clear cache", {}) /\ UNCHANGED <<service, cache, strict, due, refused>>

------------------------------------------------------------------------------
(* qbReload                                                                 *)

(* for comparison: the comparison the wrong way round                       *)
IsValidWhenOld == setAge >= Expiry

IsValid == setAge < Expiry

Reload(t) ==
  /\ op[t].at = "reload"
  /\ op' = [op EXCEPT ![t] = IF IsValid THEN Idle ELSE [@ EXCEPT !.at = "clear"]]
  /\ UNCHANGED <<service, cache, strict, due, refused>>

(* for comparison: mLastSetTime stays, or only it is reset, or the regions  *)
(* go too                                                                   *)
ClearKeepsTheTime(t) ==
  /\ op[t].at \in {"clear", "clear cache"}
  /\ mList' = {}
  /\ op' = [op EXCEPT ![t].at = IF @ = "clear" THEN "empty" ELSE "reload"]
  /\ UNCHANGED <<service, setAge, mBucketRegions, strict, due, refused>>

ClearKeepsTheList(t) ==
  /\ op[t].at \in {"clear", "clear cache"}
  /\ setAge' = Epoch
  /\ op' = [op EXCEPT ![t].at = IF @ = "clear" THEN "empty" ELSE "reload"]
  /\ UNCHANGED <<service, mList, mBucketRegions, strict, due, refused>>

ClearForgetsTheRegions(t) ==
  /\ op[t].at \in {"clear", "clear cache"}
  /\ mList' = {} /\ setAge' = Epoch /\ mBucketRegions' = {}
  /\ op' = [op EXCEPT ![t].at = IF @ = "clear" THEN "empty" ELSE "reload"]
  /\ UNCHANGED <<service, strict, due, refused>>

(* clbClear.  Who has seen that the list is not empty will copy it empty.   *)
Clear(t) ==
  /\ op[t].at \in {"clear", "clear cache"}
  /\ mList' = {} /\ setAge' = Epoch
  /\ op' = Overtaken([op EXCEPT ![t].at = IF @ = "clear" THEN "empty" ELSE "reload"], {"get"})
  /\ UNCHANGED <<service, mBucketRegions, strict, due, refused>>

------------------------------------------------------------------------------
(* qbListBuckets                                                            *)

Empty(t) ==
  /\ op[t].at = "empty"
  /\ Goto(t, IF mList = {} THEN "time" ELSE "get")
  /\ UNCHANGED <<service, cache, strict, due, refused>>

(* the list was empty not long ago: answered without looking at regions     *)
LastSetTime(t) ==
  /\ op[t].at = "time"
  /\ \/ setAge >= Window /\ Goto(t, "ask")
     \/ setAge < Window /\ op[t].call = "list" /\ Answer(t, "ok")
     \/ setAge < Window /\ op[t].call # "list" /\ End(t)
  /\ UNCHANGED <<service, cache, strict, due, refused>>

(* the ListBuckets API                                                      *)
AskBuckets(t) ==
  /\ op[t].at = "ask"
  /\ \/ op' = [op EXCEPT ![t] = [@ EXCEPT !.at = "set", !.got = buckets]]
     \/ End(t)
  /\ UNCHANGED <<service, cache, strict, due, refused>>

(* clbSet.  Who has seen an empty list will take this time for that list's. *)
SetList(t) ==
  /\ op[t].at = "set"
  /\ mList' = op[t].got /\ setAge' = 0
  /\ op' = Overtaken([op EXCEPT ![t] = Listed(@, op[t].got)], {"time"})
  /\ UNCHANGED <<service, mBucketRegions, strict, due, refused>>

GetList(t) ==
  /\ op[t].at = "get"
  /\ op' = [op EXCEPT ![t] = Listed(@, mList)]
  /\ UNCHANGED <<service, cache, strict, due, refused>>

(* the region of b, cached or asked for, which may fail                     *)
RegionAnswers(b) == IF b \in mBucketRegions THEN {"region"} ELSE {"region", "failed"}

(* One bucket of the list gets HIDDEN when its region is known to be        *)
(* another; only with StrictBucketRegion is an unknown region asked for.    *)
LookAtRegion(t, b) ==
  /\ op[t].at = "regions"
  /\ b \in op[t].todo
  /\ \/ /\ strict \/ b \in mBucketRegions
        /\ "region" \in RegionAnswers(b)
        /\ mBucketRegions' = mBucketRegions \cup {b}
        /\ op' = [op EXCEPT ![t] = [@ EXCEPT !.todo = op[t].todo \ {b}, !.hide = op[t].hide \cup ({b} \cap Foreign)]]
     \/ /\ ~strict /\ b \notin mBucketRegions
        /\ op' = [op EXCEPT ![t].todo = @ \ {b}]
        /\ UNCHANGED mBucketRegions
     \/ /\ strict /\ "failed" \in RegionAnswers(b)
        /\ End(t)
        /\ UNCHANGED mBucketRegions
  /\ UNCHANGED <<service, mList, setAge, strict, due, refused>>

EndOfList(t) ==
  /\ op[t].at = "regions" /\ op[t].todo = {}
  /\ Answer(t, "ok")
  /\ UNCHANGED <<service, cache, strict, due, refused>>

------------------------------------------------------------------------------
(* qbHeadBucket                                                             *)

(* the region from the cache or from the API, and canAccessRegion           *)
Region(t, b) ==
  /\ op[t].at = "region" /\ op[t].got = {b}
  /\ \/ /\ "region" \in RegionAnswers(b)
        /\ mBucketRegions' = mBucketRegions \cup {b}
        /\ IF b \in Foreign
           THEN End(t) /\ refused' = refused \cup {b}
           ELSE Goto(t, "find") /\ UNCHANGED refused
     \/ /\ "failed" \in RegionAnswers(b)
        /\ End(t)
        /\ UNCHANGED <<mBucketRegions, refused>>
  /\ UNCHANGED <<service, mList, setAge, strict, due>>

(* clbFind, and nothing else                                                *)
Find(t) ==
  /\ op[t].at = "find"
  /\ op' = [op EXCEPT ![t] = [@ EXCEPT !.at = "answered",
                                        !.answer = IF op[t].got \subseteq mList THEN "found" ELSE "missing",
                                        !.raced = (setAge = Epoch)]]
  /\ UNCHANGED <<service, cache, strict, due, refused>>

Return(t) ==
  /\ op[t].at = "answered"
  /\ End(t)
  /\ UNCHANGED <<service, cache, strict, due, refused>>

------------------------------------------------------------------------------
(* others make and remove buckets                                           *)
ChangeElsewhere(b) ==
  /\ buckets' = IF b \in buckets THEN buckets \ {b} ELSE buckets \cup {b}
  /\ changed' = [changed EXCEPT ![b] = 0]
  /\ UNCHANGED <<cache, strict, due, op, refused>>

(* the timer's loop comes round                                             *)
Tick ==
  /\ due > 0
  /\ \A t \in Threads : op[t] = Idle
  /\ due' = due - 1
  /\ changed' = [b \in Buckets |-> Older(changed[b])]
  /\ setAge' = Older(setAge)
  /\ UNCHANGED <<buckets, mList, mBucketRegions, strict, op, refused>>

List(t) ==
  \/ Empty(t) \/ LastSetTime(t) \/ AskBuckets(t) \/ SetList(t) \/ GetList(t)
  \/ EndOfList(t)

Next ==
  \/ \E t \in Callers : ListBuckets(t) \/ Find(t) \/ Return(t)
  \/ \E t \in Callers, b \in Buckets : HeadBucket(t, b) \/ Region(t, b) \/ LookAtRegion(t, b)
  \/ OnIdle \/ OnNotif
  \/ \E t \in {timer, listener} : Reload(t) \/ Clear(t)
  \/ \E t \in Threads : List(t)
  \/ \E b \in Buckets : ChangeElsewhere(b)
  \/ Tick

Spec == Init /\ [][Next]_vars

------------------------------------------------------------------------------
(* Properties                                                               *)

(* Types; and a list that is not empty has a time.                          *)
TypeOK ==
  /\ buckets \subseteq Buckets
  /\ changed \in [Buckets -> 0 .. Long]
  /\ mList \subseteq Buckets /\ mBucketRegions \subseteq Buckets
  /\ setAge \in 0 .. Long \cup {Epoch}
  /\ mList # {} => setAge # Epoch
  /\ strict \in BOOLEAN
  /\ due \in 0 .. Period
  /\ \A t \in Threads :
        /\ op[t].got \subseteq Buckets
        /\ op[t].todo \subseteq op[t].got /\ op[t].hide \subseteq op[t].got
        /\ op[t].at = "answered" => t \in Callers
  /\ refused \subseteq Buckets

(* b has been there, or not been there, within the bound                    *)
WasThere(b)  == b \in buckets \/ changed[b] <= Bound
WasAbsent(b) == b \notin buckets \/ changed[b] <= Bound

(* What a listing shows was so not longer ago than the list's expiry and    *)
(* the timer's period, whatever fails and whoever clears: a list is never   *)
(* kept when its renewal fails.  Not so when the list was cleared or made   *)
(* anew between two of qbListBuckets' looks at the cache.                   *)
ListsAreRecent ==
  \A t \in Callers : op[t].call = "list" /\ op[t].answer = "ok" /\ ~op[t].raced =>
    \A b \in Buckets : IF b \in op[t].got THEN WasThere(b) ELSE WasAbsent(b)

(* A bucket that a lookup finds was there, one that it misses was not,      *)
(* unless the list is cleared and not made yet (qbHeadBucket does not       *)
(* list).                                                                   *)
HeadsAreRecent ==
  \A t \in Callers : op[t].call = "head" =>
    \A b \in op[t].got :
      /\ op[t].answer = "found" => WasThere(b)
      /\ op[t].answer = "missing" /\ ~op[t].raced => WasAbsent(b)

(* A bucket that was refused for its region is shown hidden in each listing *)
(* made after that, also in one of a list that was made anew.               *)
RefusedIsHidden ==
  \A t \in Callers : op[t].call = "list" /\ op[t].answer = "ok" =>
    op[t].warned \cap op[t].got \subseteq op[t].hide

==============================================================================
