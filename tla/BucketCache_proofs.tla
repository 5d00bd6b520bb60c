-------------------------- MODULE BucketCache_proofs --------------------------
(***************************************************************************)
(* Proofs about the list of buckets, for any callers, buckets and times:   *)
(* what a listing or a lookup answers is as recent as promised, and a      *)
(* bucket that was refused is hidden.                                      *)
(***************************************************************************)
EXTENDS BucketCache, TLAPS

Operation ==
  [call : {"none", "list", "head", "reload", "notified"},
   at : {"idle", "empty", "time", "ask", "set", "get", "regions", "answered",
         "region", "find", "reload", "clear", "clear cache"},
   got : SUBSET Buckets, todo : SUBSET Buckets, hide : SUBSET Buckets,
   answer : {"none", "ok", "found", "missing"}, raced : BOOLEAN, warned : SUBSET Buckets]

(* where an operation may be, and what it has by then                       *)
Shape(t, o) ==
  /\ o \in Operation
  /\ o.todo \subseteq o.got /\ o.hide \subseteq o.got
  /\ o.call \in {"list", "head"} => t \in Callers
  /\ t \in Callers /\ o.at \in {"empty", "time", "ask", "set", "get"} => o.call = "list"
  /\ o.at = "regions" => o.call = "list"
  /\ o.call = "list" => o.at \in {"empty", "time", "ask", "set", "get", "regions", "answered"}
  /\ o.at \in {"region", "find"} => o.call = "head"
  /\ o.call = "head" => o.at \in {"region", "find", "answered"}
  /\ o.at = "answered" => o.call \in {"list", "head"}
  /\ o.at \in {"empty", "time", "ask", "get", "reload", "clear", "clear cache"} => o.got = {}
  /\ o.at \notin {"regions", "answered"} => o.todo = {} /\ o.hide = {}
  /\ o.call = "head" => \E b \in Buckets : o.got = {b}
  /\ o.answer # "none" => o.at = "answered"

(* list is what there is, but for changes not longer ago than age           *)
Near(got, age) == \A b \in Buckets : (b \in got <=> b \in buckets) \/ changed[b] <= age

Recent(got) == \A b \in Buckets : IF b \in got THEN WasThere(b) ELSE WasAbsent(b)

(* what a thread has read and will answer or set, unless it was overtaken   *)
Reads(o) ==
  /\ o.at = "set" => Near(o.got, 0)
  /\ o.call = "list" /\ ~o.raced =>
       /\ o.at = "get" => setAge # Epoch
       /\ o.at = "time" => mList = {}
       /\ o.at \in {"regions", "answered"} => Recent(o.got)

Looks(o) ==
  o.call = "head" =>
    \A b \in o.got :
      /\ o.answer = "found" => WasThere(b)
      /\ o.answer = "missing" /\ ~o.raced => WasAbsent(b)

Hides(o) ==
  /\ o.warned \subseteq refused
  /\ o.call = "list" /\ o.at \in {"regions", "answered"} =>
       o.warned \cap o.got \subseteq o.hide \cup o.todo
  /\ o.call = "list" /\ o.at = "answered" => o.todo = {}

OpOK(t, o) == Shape(t, o) /\ Reads(o) /\ Looks(o) /\ Hides(o)

(* ages, and a list that the timer will see before it is older than Bound   *)
Ages ==
  /\ buckets \subseteq Buckets
  /\ changed \in [Buckets -> 0 .. Long]
  /\ mList \subseteq Buckets /\ mBucketRegions \subseteq Buckets
  /\ setAge \in 0 .. Bound \cup {Epoch}
  /\ mList # {} => setAge # Epoch
  /\ setAge # Epoch => Near(mList, setAge)
  /\ strict \in BOOLEAN
  /\ due \in 0 .. Period

Renewed == setAge # Epoch => setAge + due <= Bound \/ op[timer].at \in {"reload", "clear"}

RefusedKnown == refused \subseteq Foreign \cap mBucketRegions

Inv ==
  /\ Ages /\ Renewed /\ RefusedKnown
  /\ op \in [Threads -> Operation]
  /\ \A t \in Threads : OpOK(t, op[t])

------------------------------------------------------------------------------
LEMMA Times ==
  /\ Bound \in Nat /\ Long = Bound + 1 /\ Epoch = Bound + 2
  /\ Expiry \in Nat /\ Period \in Nat /\ Window \in Nat
  /\ Expiry + Period = Bound + 1 /\ Expiry <= Bound /\ Period <= Bound /\ Window <= Expiry
  BY TimesPositive, WindowShort DEF Bound, Long, Epoch

LEMMA IdleOK ==
  ASSUME NEW t
  PROVE  OpOK(t, Idle)
  <1>1. Idle \in Operation
    BY DEF Idle, Operation
  <1>2. Shape(t, Idle)
    BY <1>1 DEF Idle, Shape
  <1> QED
    BY <1>2 DEF Idle, OpOK, Reads, Looks, Hides

LEMMA InitInv == Init => Inv
  <1> SUFFICES ASSUME Init PROVE Inv
    OBVIOUS
  <1>1. Near(mList, setAge)
    BY DEF Init, Near
  <1>2. Ages
    BY <1>1, Times DEF Init, Ages
  <1>3. Renewed
    BY Times DEF Init, Renewed
  <1>4. op \in [Threads -> Operation] /\ \A t \in Threads : OpOK(t, op[t])
    BY IdleOK DEF Init, OpOK, Shape
  <1> QED
    BY <1>2, <1>3, <1>4 DEF Init, Inv, RefusedKnown

(* A step of one thread on its own                                          *)
LEMMA StepInv ==
  ASSUME Inv, NEW t \in Threads, NEW p, op' = [op EXCEPT ![t] = p], OpOK(t, p),
         UNCHANGED <<service, mList, setAge, strict, due>>,
         mBucketRegions \subseteq mBucketRegions', mBucketRegions' \subseteq Buckets,
         refused \subseteq refused', refused' \subseteq Foreign \cap mBucketRegions',
         t = timer => (setAge # Epoch => setAge + due <= Bound \/ p.at \in {"reload", "clear"})
  PROVE  Inv'
  <1>1. Ages'
    BY DEF Inv, Ages, Near, service
  <1>2. p \in Operation /\ op \in [Threads -> Operation]
    BY DEF OpOK, Shape, Inv
  <1>3. op' \in [Threads -> Operation] /\ op'[t] = p /\ \A u \in Threads : u # t => op'[u] = op[u]
    BY <1>2
  <1>4. Renewed'
    <2>1. timer \in Threads
      BY DEF Threads
    <2> QED
      BY <1>3, <2>1 DEF Inv, Renewed
  <1>5. \A u, o : OpOK(u, o) => OpOK(u, o)'
    <2> SUFFICES ASSUME NEW u, NEW o, OpOK(u, o) PROVE OpOK(u, o)'
      OBVIOUS
    <2>1. Shape(u, o)'
      BY DEF OpOK, Shape
    <2>2. Reads(o)' /\ Looks(o)' /\ Hides(o)'
      BY DEF OpOK, Reads, Looks, Hides, Near, Recent, WasThere, WasAbsent, service
    <2> QED
      BY <2>1, <2>2 DEF OpOK
  <1> QED
    BY <1>1, <1>3, <1>4, <1>5 DEF Inv, RefusedKnown

LEMMA Known ==
  ASSUME Inv, NEW t \in Threads
  PROVE  op[t] \in Operation /\ OpOK(t, op[t]) /\ op \in [Threads -> Operation]
  BY DEF Inv

(* the operations that begin, and where                                     *)
Begins(t, call, there, got) ==
  \/ call = "list" /\ there = "empty" /\ t \in Callers /\ got = {}
  \/ call = "head" /\ there = "region" /\ t \in Callers /\ \E b \in Buckets : got = {b}
  \/ call = "reload" /\ there = "reload" /\ t \notin Callers /\ got = {}
  \/ call = "notified" /\ there = "clear cache" /\ t \notin Callers /\ got = {}

LEMMA BegunOK ==
  ASSUME NEW t \in Threads, NEW call, NEW there, NEW got \in SUBSET Buckets, Start(t, call, there, got),
         op \in [Threads -> Operation], Begins(t, call, there, got)
  PROVE  \E p : op' = [op EXCEPT ![t] = p] /\ p.at = there /\ OpOK(t, p)
  <1>1. PICK p : /\ p = [Idle EXCEPT !.call = call, !.at = there, !.got = got]
                 /\ op' = [op EXCEPT ![t] = p]
    BY DEF Start
  <1>2. p = [call |-> call, at |-> there, got |-> got, todo |-> {}, hide |-> {},
             answer |-> "none", raced |-> FALSE, warned |-> {}]
    BY <1>1 DEF Idle
  <1>3. p \in Operation
    BY <1>2 DEF Operation, Begins
  <1>4. /\ p.call = call /\ p.at = there /\ p.got = got /\ p.todo = {} /\ p.hide = {}
        /\ p.answer = "none" /\ p.raced = FALSE /\ p.warned = {}
    BY <1>2
  <1>5. Shape(t, p)
    <2>1. CASE call = "list" /\ there = "empty" /\ t \in Callers /\ got = {}
      BY <1>3, <1>4, <2>1 DEF Shape
    <2>2. CASE call = "head" /\ there = "region" /\ t \in Callers /\ \E b \in Buckets : got = {b}
      BY <1>3, <1>4, <2>2 DEF Shape
    <2>3. CASE call = "reload" /\ there = "reload" /\ t \notin Callers /\ got = {}
      BY <1>3, <1>4, <2>3 DEF Shape
    <2>4. CASE call = "notified" /\ there = "clear cache" /\ t \notin Callers /\ got = {}
      BY <1>3, <1>4, <2>4 DEF Shape
    <2> QED
      BY <2>1, <2>2, <2>3, <2>4 DEF Begins
  <1>6. Reads(p) /\ Looks(p) /\ Hides(p)
    BY <1>4 DEF Reads, Looks, Hides, Begins
  <1> QED
    BY <1>1, <1>4, <1>5, <1>6 DEF OpOK

LEMMA BeginInv ==
  ASSUME Inv,
         \/ \E t \in Callers : ListBuckets(t) \/ \E b \in Buckets : HeadBucket(t, b)
         \/ OnNotif
  PROVE  Inv'
  <1>1. \E t \in Threads \ {timer} : \E p : op' = [op EXCEPT ![t] = p] /\ OpOK(t, p)
    <2>1. op \in [Threads -> Operation]
      BY DEF Inv
    <2>2. CASE \E t \in Callers : ListBuckets(t)
      <3>1. PICK t \in Callers : Start(t, "list", "empty", {})
        BY <2>2 DEF ListBuckets
      <3>2. t \in Threads \ {timer}
        BY ThreadsApart DEF Threads
      <3>3. Begins(t, "list", "empty", {})
        BY DEF Begins
      <3> QED
        BY <2>1, <3>1, <3>2, <3>3, BegunOK
    <2>3. CASE \E t \in Callers, b \in Buckets : HeadBucket(t, b)
      <3>1. PICK t \in Callers, b \in Buckets : Start(t, "head", "region", {b})
        BY <2>3 DEF HeadBucket
      <3>2. t \in Threads \ {timer}
        BY ThreadsApart DEF Threads
      <3>3. Begins(t, "head", "region", {b})
        BY DEF Begins
      <3> QED
        BY <2>1, <3>1, <3>2, <3>3, BegunOK
    <2>4. CASE OnNotif
      <3>1. Start(listener, "notified", "clear cache", {})
        BY <2>4 DEF OnNotif
      <3>2. listener \in Threads \ {timer} /\ listener \notin Callers
        BY ThreadsApart DEF Threads
      <3>3. Begins(listener, "notified", "clear cache", {})
        BY <3>2 DEF Begins
      <3>4. PICK t, call, there : t = listener /\ call = "notified" /\ there = "clear cache"
        OBVIOUS
      <3>5. t \in Threads /\ Start(t, call, there, {}) /\ Begins(t, call, there, {})
        BY <3>1, <3>2, <3>3, <3>4
      <3>6. \E p : op' = [op EXCEPT ![t] = p] /\ OpOK(t, p)
        BY <2>1, <3>5, BegunOK
      <3> QED
        BY <3>2, <3>4, <3>6
    <2> QED
      BY <2>2, <2>3, <2>4
  <1>2. UNCHANGED <<service, cache, strict, due, refused>>
    BY DEF ListBuckets, HeadBucket, OnNotif
  <1> QED
    BY <1>1, <1>2, StepInv DEF cache, Inv, Ages, RefusedKnown

(* The timer's round: what it will look at is not older than Bound.         *)
LEMMA OnIdleInv ==
  ASSUME Inv, OnIdle
  PROVE  Inv'
  <1>1. PICK p : op' = [op EXCEPT ![timer] = p] /\ p.at = "reload" /\ OpOK(timer, p)
    <2>1. timer \in Threads /\ timer \notin Callers
      BY ThreadsApart DEF Threads
    <2>2. Start(timer, "reload", "reload", {}) /\ op \in [Threads -> Operation]
      BY DEF Inv, OnIdle
    <2>3. Begins(timer, "reload", "reload", {})
      BY <2>1 DEF Begins
    <2>4. PICK there : there = "reload"
      OBVIOUS
    <2> QED
      BY <2>1, <2>2, <2>3, <2>4, BegunOK
  <1>2. due' = Period /\ UNCHANGED <<buckets, changed, mList, setAge, mBucketRegions, strict, refused>>
    BY DEF OnIdle, service, cache
  <1>3. Ages'
    BY <1>2, Times DEF Inv, Ages, Near
  <1>4. timer \in Threads /\ p \in Operation
    BY <1>1 DEF Threads, OpOK, Shape
  <1>5. op' \in [Threads -> Operation] /\ op'[timer] = p /\ \A u \in Threads : u # timer => op'[u] = op[u]
    BY <1>1, <1>4 DEF Inv
  <1>6. \A u, o : OpOK(u, o) => OpOK(u, o)'
    <2> SUFFICES ASSUME NEW u, NEW o, OpOK(u, o) PROVE OpOK(u, o)'
      OBVIOUS
    <2>1. Shape(u, o)'
      BY DEF OpOK, Shape
    <2>2. Reads(o)' /\ Looks(o)' /\ Hides(o)'
      BY <1>2 DEF OpOK, Reads, Looks, Hides, Near, Recent, WasThere, WasAbsent
    <2> QED
      BY <2>1, <2>2 DEF OpOK
  <1> QED
    BY <1>1, <1>2, <1>3, <1>5, <1>6 DEF Inv, Renewed, RefusedKnown

LEMMA ReloadInv ==
  ASSUME Inv, NEW t \in {timer, listener}, Reload(t)
  PROVE  Inv'
  <1>1. t \in Threads /\ t \notin Callers /\ op[t] \in Operation /\ op[t].at = "reload" /\ OpOK(t, op[t])
    BY ThreadsApart, Known DEF Threads, Reload
  <1>2. UNCHANGED <<service, cache, strict, due, refused>>
    BY DEF Reload
  <1>3. CASE IsValid
    <2>1. op' = [op EXCEPT ![t] = Idle]
      BY <1>3 DEF Reload
    <2>2. setAge # Epoch => setAge + due <= Bound
      BY <1>3, Times DEF IsValid, Inv, Ages
    <2> QED
      BY <1>1, <1>2, <2>1, <2>2, IdleOK, StepInv DEF cache, Inv, Ages, RefusedKnown
  <1>4. CASE ~IsValid
    <2>1. PICK o, p : o = op[t] /\ p = [o EXCEPT !.at = "clear"] /\ op' = [op EXCEPT ![t] = p]
      BY <1>4 DEF Reload
    <2>2. p = [call |-> o.call, at |-> "clear", got |-> o.got, todo |-> o.todo, hide |-> o.hide,
               answer |-> o.answer, raced |-> o.raced, warned |-> o.warned]
      BY <1>1, <2>1 DEF Operation
    <2>3. OpOK(t, p)
      <3>1. Shape(t, p)
        BY <1>1, <2>1, <2>2 DEF OpOK, Shape, Operation
      <3> QED
        BY <1>1, <2>1, <2>2, <3>1 DEF OpOK, Shape, Reads, Looks, Hides
    <2> QED
      BY <1>1, <1>2, <2>1, <2>2, <2>3, StepInv DEF cache, Inv, Ages, RefusedKnown
  <1> QED
    BY <1>3, <1>4

(* a step that only goes elsewhere                                          *)
Moved(o, p, a) ==
  /\ p.at = a /\ p.call = o.call /\ p.got = o.got /\ p.todo = o.todo /\ p.hide = o.hide
  /\ p.answer = o.answer /\ p.raced = o.raced /\ p.warned = o.warned

LEMMA Moves ==
  ASSUME NEW o \in Operation, NEW a, NEW p, p = [o EXCEPT !.at = a],
         a \in {"empty", "time", "ask", "set", "get", "regions", "answered",
                "region", "find", "reload", "clear", "clear cache"}
  PROVE  p \in Operation /\ Moved(o, p, a)
  <1>1. p = [call |-> o.call, at |-> a, got |-> o.got, todo |-> o.todo, hide |-> o.hide,
             answer |-> o.answer, raced |-> o.raced, warned |-> o.warned]
    BY DEF Operation
  <1> QED
    BY <1>1 DEF Operation, Moved

LEMMA Alone ==
  ASSUME Inv, NEW t \in Threads, t \in Callers \/ op[t].at \notin {"reload", "clear"}, NEW p,
         op' = [op EXCEPT ![t] = p], OpOK(t, p),
         UNCHANGED <<service, cache, strict, due, refused>>
  PROVE  Inv'
  <1>1. t = timer => (setAge # Epoch => setAge + due <= Bound)
    BY ThreadsApart DEF Inv, Renewed
  <1> QED
    BY <1>1, StepInv DEF cache, Inv, Ages, RefusedKnown

LEMMA EmptyInv ==
  ASSUME Inv, NEW t \in Threads, Empty(t)
  PROVE  Inv'
  <1>1. op[t] \in Operation /\ op[t].at = "empty" /\ OpOK(t, op[t])
    BY Known DEF Empty
  <1>2. UNCHANGED <<service, cache, strict, due, refused>>
    BY DEF Empty
  <1>3. PICK a : a = (IF mList = {} THEN "time" ELSE "get") /\ op' = [op EXCEPT ![t].at = a]
    BY DEF Empty, Goto
  <1>4. PICK o, p : o = op[t] /\ p = [o EXCEPT !.at = a] /\ op' = [op EXCEPT ![t] = p]
    BY <1>1, <1>3, Known
  <1>5. p \in Operation /\ Moved(o, p, a)
    BY <1>1, <1>3, <1>4, Moves
  <1>6. Shape(t, p)
    BY <1>1, <1>3, <1>4, <1>5 DEF OpOK, Shape, Moved
  <1>7. Reads(p)
    BY <1>1, <1>3, <1>4, <1>5 DEF OpOK, Reads, Moved, Inv, Ages
  <1>8. Looks(p) /\ Hides(p)
    BY <1>1, <1>3, <1>4, <1>5 DEF OpOK, Looks, Hides, Moved
  <1> QED
    BY <1>1, <1>2, <1>4, <1>6, <1>7, <1>8, Alone DEF OpOK

LEMMA AnswerIs ==
  ASSUME NEW t \in Threads, NEW a, Answer(t, a), op \in [Threads -> Operation], a \in {"ok", "found", "missing"}
  PROVE  \E p \in Operation :
           /\ op' = [op EXCEPT ![t] = p]
           /\ p.at = "answered" /\ p.call = op[t].call /\ p.got = op[t].got /\ p.todo = op[t].todo
           /\ p.hide = op[t].hide /\ p.answer = a /\ p.raced = op[t].raced /\ p.warned = op[t].warned
  <1>1. PICK o, p : o = op[t] /\ p = [o EXCEPT !.at = "answered", !.answer = a] /\ op' = [op EXCEPT ![t] = p]
    BY DEF Answer
  <1>2. o \in Operation
    BY <1>1
  <1>3. p = [call |-> o.call, at |-> "answered", got |-> o.got, todo |-> o.todo, hide |-> o.hide,
             answer |-> a, raced |-> o.raced, warned |-> o.warned]
    BY <1>1, <1>2 DEF Operation
  <1>4. p \in Operation
    BY <1>2, <1>3 DEF Operation
  <1> QED
    BY <1>1, <1>3, <1>4

(* An empty list that is believed was made less than Window minutes ago.    *)
LEMMA LastSetTimeInv ==
  ASSUME Inv, NEW t \in Threads, LastSetTime(t)
  PROVE  Inv'
  <1>1. op[t] \in Operation /\ op[t].at = "time" /\ OpOK(t, op[t])
    BY Known DEF LastSetTime
  <1>2. UNCHANGED <<service, cache, strict, due, refused>>
    BY DEF LastSetTime
  <1>3. CASE Goto(t, "ask")
    <2>1. PICK a : a = "ask" /\ op' = [op EXCEPT ![t].at = a]
      BY <1>3 DEF Goto
    <2>2. PICK o, p : o = op[t] /\ p = [o EXCEPT !.at = a] /\ op' = [op EXCEPT ![t] = p]
      BY <2>1, Known
    <2>3. p \in Operation /\ Moved(o, p, a)
      BY <1>1, <2>1, <2>2, Moves
    <2>4. OpOK(t, p)
      BY <1>1, <2>1, <2>2, <2>3 DEF OpOK, Shape, Reads, Looks, Hides, Moved
    <2> QED
      BY <1>1, <1>2, <2>2, <2>4, Alone
  <1>4. CASE setAge < Window /\ op[t].call = "list" /\ Answer(t, "ok")
    <2>1. Answer(t, "ok")
      BY <1>4
    <2>2. PICK p \in Operation :
           /\ op' = [op EXCEPT ![t] = p]
           /\ p.at = "answered" /\ p.call = op[t].call /\ p.got = op[t].got /\ p.todo = op[t].todo
           /\ p.hide = op[t].hide /\ p.answer = "ok" /\ p.raced = op[t].raced /\ p.warned = op[t].warned
      BY <2>1, AnswerIs DEF Inv
    <2>3. op[t].got = {} /\ op[t].todo = {} /\ t \in Callers
      BY <1>1, <1>4 DEF OpOK, Shape
    <2>4. Shape(t, p)
      BY <1>1, <1>4, <2>2, <2>3 DEF OpOK, Shape
    <2>5. ~op[t].raced => Recent({})
      <3>1. setAge \in Nat /\ setAge # Epoch /\ setAge <= Bound
        BY <1>4, Times DEF Inv, Ages
      <3>2. ~op[t].raced => mList = {}
        BY <1>1, <1>4 DEF OpOK, Reads
      <3>3. mList = {} => \A b \in Buckets : b \notin buckets \/ changed[b] <= setAge
        BY <3>1 DEF Inv, Ages, Near
      <3>4. \A b \in Buckets : changed[b] \in Nat
        BY Times DEF Inv, Ages
      <3>5. mList = {} => \A b \in Buckets : WasAbsent(b)
        BY <3>1, <3>3, <3>4, Times DEF WasAbsent
      <3> QED
        BY <3>2, <3>5 DEF Recent
    <2>6. Reads(p) /\ Looks(p) /\ Hides(p)
      BY <1>1, <1>4, <2>2, <2>3, <2>5 DEF OpOK, Reads, Looks, Hides
    <2> QED
      BY <1>1, <1>2, <2>2, <2>4, <2>6, Alone DEF OpOK
  <1>5. CASE End(t)
    <2>1. op' = [op EXCEPT ![t] = Idle]
      BY <1>5 DEF End
    <2> QED
      BY <1>1, <1>2, <2>1, IdleOK, Alone
  <1> QED
    BY <1>3, <1>4, <1>5 DEF LastSetTime

(* The answer of the API is of this minute.                                 *)
LEMMA AskBucketsInv ==
  ASSUME Inv, NEW t \in Threads, AskBuckets(t)
  PROVE  Inv'
  <1>1. op[t] \in Operation /\ op[t].at = "ask" /\ OpOK(t, op[t])
    BY Known DEF AskBuckets
  <1>2. UNCHANGED <<service, cache, strict, due, refused>>
    BY DEF AskBuckets
  <1>3. CASE End(t)
    BY <1>1, <1>2, <1>3, IdleOK, Alone DEF End
  <1>4. CASE op' = [op EXCEPT ![t] = [@ EXCEPT !.at = "set", !.got = buckets]]
    <2>1. PICK o, p : o = op[t] /\ p = [o EXCEPT !.at = "set", !.got = buckets] /\ op' = [op EXCEPT ![t] = p]
      BY <1>4
    <2>2. p = [call |-> o.call, at |-> "set", got |-> buckets, todo |-> o.todo, hide |-> o.hide,
               answer |-> o.answer, raced |-> o.raced, warned |-> o.warned]
      BY <1>1, <2>1 DEF Operation
    <2>3. p \in Operation
      BY <1>1, <2>1, <2>2 DEF Operation, Inv, Ages
    <2>4. o.todo = {} /\ o.hide = {}
      BY <1>1, <2>1 DEF OpOK, Shape
    <2>5. Shape(t, p)
      BY <1>1, <2>1, <2>2, <2>3, <2>4 DEF OpOK, Shape
    <2>6. Near(buckets, 0)
      BY DEF Near
    <2>7. Reads(p) /\ Looks(p) /\ Hides(p)
      BY <1>1, <2>1, <2>2, <2>6 DEF OpOK, Shape, Reads, Looks, Hides
    <2> QED
      BY <1>1, <1>2, <2>1, <2>5, <2>7, Alone DEF OpOK
  <1> QED
    BY <1>3, <1>4 DEF AskBuckets

LEMMA NearIsRecent ==
  ASSUME Ages, NEW got, NEW age \in Int, age <= Bound, Near(got, age)
  PROVE  Recent(got)
  <1>1. \A b \in Buckets : changed[b] \in Int
    BY Times DEF Ages
  <1>2. \A b \in Buckets : changed[b] <= age => changed[b] <= Bound
    BY <1>1, Times
  <1> QED
    BY <1>2 DEF Near, Recent, WasThere, WasAbsent

(* A callback that has its list goes on with the regions.                   *)
LEMMA ListedOK ==
  ASSUME Inv, NEW t \in Threads, NEW o, OpOK(t, o), o.at \in {"set", "get"}, NEW list \in SUBSET Buckets,
         o.call = "list" /\ ~o.raced => Recent(list)
  PROVE  OpOK(t, Listed(o, list)) /\ Listed(o, list).at \in {"idle", "regions"}
  <1>1. CASE o.call # "list"
    BY <1>1, IdleOK DEF Listed, Idle
  <1>2. CASE o.call = "list"
    <2>1. PICK p : p = Listed(o, list) /\ p = [o EXCEPT !.at = "regions", !.got = list, !.todo = list, !.warned = refused]
      BY <1>2 DEF Listed
    <2>2. o \in Operation
      BY DEF OpOK, Shape
    <2>3. p = [call |-> o.call, at |-> "regions", got |-> list, todo |-> list, hide |-> o.hide,
               answer |-> o.answer, raced |-> o.raced, warned |-> refused]
      BY <2>1, <2>2 DEF Operation
    <2>4. refused \subseteq Buckets
      BY ForeignKnown DEF Inv, RefusedKnown
    <2>5. p \in Operation
      BY <2>2, <2>3, <2>4 DEF Operation
    <2>6. o.hide \subseteq list
      BY <1>2 DEF OpOK, Shape
    <2>7. Shape(t, p)
      BY <1>2, <2>3, <2>5, <2>6 DEF OpOK, Shape
    <2>8. Reads(p) /\ Looks(p) /\ Hides(p)
      BY <1>2, <2>3 DEF OpOK, Shape, Reads, Looks, Hides
    <2> QED
      BY <2>1, <2>3, <2>7, <2>8 DEF OpOK
  <1> QED
    BY <1>1, <1>2

LEMMA GetListInv ==
  ASSUME Inv, NEW t \in Threads, GetList(t)
  PROVE  Inv'
  <1>1. op[t] \in Operation /\ op[t].at = "get" /\ OpOK(t, op[t])
    BY Known DEF GetList
  <1>2. UNCHANGED <<service, cache, strict, due, refused>> /\ op' = [op EXCEPT ![t] = Listed(op[t], mList)]
    BY DEF GetList
  <1>3. setAge # Epoch => Recent(mList)
    BY NearIsRecent, Times DEF Inv, Ages
  <1>4. op[t].call = "list" /\ ~op[t].raced => Recent(mList)
    BY <1>1, <1>3 DEF OpOK, Reads
  <1>5. mList \in SUBSET Buckets
    BY DEF Inv, Ages
  <1>6. OpOK(t, Listed(op[t], mList))
    BY <1>1, <1>4, <1>5, ListedOK
  <1> QED
    BY <1>1, <1>2, <1>6, Alone

LEMMA EndOfListInv ==
  ASSUME Inv, NEW t \in Threads, EndOfList(t)
  PROVE  Inv'
  <1>1. op[t] \in Operation /\ op[t].at = "regions" /\ op[t].todo = {} /\ OpOK(t, op[t])
    BY Known DEF EndOfList
  <1>2. UNCHANGED <<service, cache, strict, due, refused>>
    BY DEF EndOfList
  <1>3. PICK p \in Operation :
         /\ op' = [op EXCEPT ![t] = p]
         /\ p.at = "answered" /\ p.call = op[t].call /\ p.got = op[t].got /\ p.todo = op[t].todo
         /\ p.hide = op[t].hide /\ p.answer = "ok" /\ p.raced = op[t].raced /\ p.warned = op[t].warned
    BY AnswerIs DEF Inv, EndOfList
  <1>4. op[t].call = "list" /\ t \in Callers
    BY <1>1 DEF OpOK, Shape
  <1>5. Shape(t, p)
    BY <1>1, <1>3, <1>4 DEF OpOK, Shape
  <1>6. Reads(p) /\ Looks(p) /\ Hides(p)
    BY <1>1, <1>3, <1>4 DEF OpOK, Reads, Looks, Hides
  <1> QED
    BY <1>1, <1>2, <1>3, <1>5, <1>6, Alone DEF OpOK

LEMMA LookedAt ==
  ASSUME Inv, NEW t \in Threads, op[t].at = "regions", NEW b \in Buckets, NEW hide,
         hide = op[t].hide \cup ({b} \cap Foreign) \/ (hide = op[t].hide /\ b \notin mBucketRegions),
         b \in op[t].todo, NEW p \in Operation, p.todo = op[t].todo \ {b}, p.hide = hide,
         p.call = op[t].call, p.at = op[t].at, p.got = op[t].got, p.answer = op[t].answer,
         p.raced = op[t].raced, p.warned = op[t].warned
  PROVE  OpOK(t, p)
  <1>1. op[t] \in Operation /\ OpOK(t, op[t])
    BY Known
  <1>2. op[t].call = "list" /\ t \in Callers
    BY <1>1 DEF OpOK, Shape
  <1>3. hide \subseteq op[t].got
    BY <1>1 DEF OpOK, Shape
  <1>4. Shape(t, p)
    BY <1>1, <1>2, <1>3 DEF OpOK, Shape
  <1>5. b \in op[t].warned => b \in mBucketRegions \cap Foreign
    BY <1>1 DEF OpOK, Hides, Inv, RefusedKnown
  <1>6. op[t].warned \cap op[t].got \subseteq op[t].hide \cup op[t].todo
    BY <1>1, <1>2 DEF OpOK, Hides
  <1>7. op[t].warned \cap op[t].got \subseteq hide \cup (op[t].todo \ {b})
    BY <1>5, <1>6
  <1>8. Hides(p)
    BY <1>1, <1>7 DEF OpOK, Hides
  <1>9. Reads(p) /\ Looks(p)
    BY <1>1, <1>2 DEF OpOK, Reads, Looks
  <1> QED
    BY <1>4, <1>8, <1>9 DEF OpOK

(* A bucket of the list is looked at: one that was refused has a region,    *)
(* and gets HIDDEN.                                                         *)
LEMMA LookAtRegionInv ==
  ASSUME Inv, NEW t \in Threads, NEW b \in Buckets, LookAtRegion(t, b)
  PROVE  Inv'
  <1>1. op[t] \in Operation /\ op[t].at = "regions" /\ b \in op[t].todo /\ OpOK(t, op[t])
    BY Known DEF LookAtRegion
  <1>2. UNCHANGED <<service, mList, setAge, strict, due, refused>>
    BY DEF LookAtRegion
  <1>3. op[t].call = "list" /\ t \in Callers /\ t # timer
    BY <1>1, ThreadsApart DEF OpOK, Shape
  <1>4. CASE /\ mBucketRegions' = mBucketRegions \cup {b}
             /\ op' = [op EXCEPT ![t] = [@ EXCEPT !.todo = op[t].todo \ {b},
                                                  !.hide = op[t].hide \cup ({b} \cap Foreign)]]
    <2>1. PICK o, todo, hide, p :
            /\ o = op[t] /\ todo = op[t].todo \ {b} /\ hide = op[t].hide \cup ({b} \cap Foreign)
            /\ p = [o EXCEPT !.todo = todo, !.hide = hide] /\ op' = [op EXCEPT ![t] = p]
      BY <1>4
    <2>2. p = [call |-> o.call, at |-> o.at, got |-> o.got, todo |-> todo, hide |-> hide,
               answer |-> o.answer, raced |-> o.raced, warned |-> o.warned]
      BY <1>1, <2>1 DEF Operation
    <2>3. todo \in SUBSET Buckets /\ hide \in SUBSET Buckets
      BY <1>1, <2>1 DEF Operation
    <2>4. p \in Operation
      BY <1>1, <2>1, <2>2, <2>3 DEF Operation
    <2>5. /\ p.todo = op[t].todo \ {b} /\ p.hide = hide
          /\ p.call = op[t].call /\ p.at = op[t].at /\ p.got = op[t].got /\ p.answer = op[t].answer
          /\ p.raced = op[t].raced /\ p.warned = op[t].warned
      BY <2>1, <2>2
    <2>6. hide = op[t].hide \cup ({b} \cap Foreign)
      BY <2>1
    <2>7. OpOK(t, p)
      BY <1>1, <2>4, <2>5, <2>6, LookedAt
    <2> QED
      BY <1>2, <1>3, <1>4, <2>1, <2>7, StepInv DEF Inv, Ages, RefusedKnown
  <1>5. CASE b \notin mBucketRegions /\ op' = [op EXCEPT ![t].todo = @ \ {b}] /\ UNCHANGED mBucketRegions
    <2>1. PICK o, todo, p :
            o = op[t] /\ todo = op[t].todo \ {b} /\ p = [o EXCEPT !.todo = todo] /\ op' = [op EXCEPT ![t] = p]
      BY <1>5
    <2>2. p = [call |-> o.call, at |-> o.at, got |-> o.got, todo |-> todo, hide |-> o.hide,
               answer |-> o.answer, raced |-> o.raced, warned |-> o.warned]
      BY <1>1, <2>1 DEF Operation
    <2>3. p \in Operation
      BY <1>1, <2>1, <2>2 DEF Operation
    <2>4. /\ p.todo = op[t].todo \ {b} /\ p.hide = op[t].hide
          /\ p.call = op[t].call /\ p.at = op[t].at /\ p.got = op[t].got /\ p.answer = op[t].answer
          /\ p.raced = op[t].raced /\ p.warned = op[t].warned
      BY <2>1, <2>2
    <2>5. OpOK(t, p)
      BY <1>1, <1>5, <2>3, <2>4, LookedAt
    <2> QED
      BY <1>2, <1>3, <1>5, <2>1, <2>5, StepInv DEF Inv, Ages, RefusedKnown
  <1>6. CASE End(t) /\ UNCHANGED mBucketRegions
    BY <1>2, <1>3, <1>6, IdleOK, StepInv DEF End, Inv, Ages, RefusedKnown
  <1> QED
    BY <1>4, <1>5, <1>6 DEF LookAtRegion

LEMMA RegionInv ==
  ASSUME Inv, NEW t \in Callers, NEW b \in Buckets, Region(t, b)
  PROVE  Inv'
  <1>1. t \in Threads /\ t # timer
    BY ThreadsApart DEF Threads
  <1>2. op[t] \in Operation /\ op[t].at = "region" /\ OpOK(t, op[t])
    BY <1>1, Known DEF Region
  <1>3. UNCHANGED <<service, mList, setAge, strict, due>>
    BY DEF Region
  <1>4. CASE End(t) /\ mBucketRegions' = mBucketRegions \cup {b} /\ b \in Foreign /\ refused' = refused \cup {b}
    BY <1>1, <1>3, <1>4, IdleOK, StepInv DEF End, Inv, Ages, RefusedKnown
  <1>5. CASE Goto(t, "find") /\ mBucketRegions' = mBucketRegions \cup {b} /\ UNCHANGED refused
    <2>1. PICK a : a = "find" /\ op' = [op EXCEPT ![t].at = a]
      BY <1>5 DEF Goto
    <2>2. PICK o, p : o = op[t] /\ p = [o EXCEPT !.at = a] /\ op' = [op EXCEPT ![t] = p]
      BY <1>1, <2>1, Known
    <2>3. p \in Operation /\ Moved(o, p, a)
      BY <1>2, <2>1, <2>2, Moves
    <2>4. OpOK(t, p)
      <3>1. Shape(t, p)
        BY <1>2, <2>1, <2>2, <2>3 DEF OpOK, Shape, Moved
      <3>2. p.at = "find" /\ p.answer = "none"
        BY <1>2, <2>1, <2>2, <2>3 DEF OpOK, Shape, Moved
      <3> QED
        BY <1>2, <2>1, <2>2, <2>3, <3>1, <3>2 DEF OpOK, Reads, Looks, Hides, Moved
    <2> QED
      BY <1>1, <1>3, <1>5, <2>2, <2>4, StepInv DEF Inv, Ages, RefusedKnown
  <1>6. CASE End(t) /\ UNCHANGED <<mBucketRegions, refused>>
    BY <1>1, <1>3, <1>6, IdleOK, StepInv DEF End, Inv, Ages, RefusedKnown
  <1> QED
    BY <1>4, <1>5, <1>6 DEF Region

(* What clbFind finds is in a list with an age, what it misses too unless   *)
(* the list is cleared.                                                     *)
LEMMA FindInv ==
  ASSUME Inv, NEW t \in Callers, Find(t)
  PROVE  Inv'
  <1>1. t \in Threads
    BY DEF Threads
  <1>2. op[t] \in Operation /\ op[t].at = "find" /\ OpOK(t, op[t])
    BY <1>1, Known DEF Find
  <1>3. UNCHANGED <<service, cache, strict, due, refused>>
    BY DEF Find
  <1>4. PICK o, a, r, p :
          /\ o = op[t] /\ a = (IF op[t].got \subseteq mList THEN "found" ELSE "missing") /\ r = (setAge = Epoch)
          /\ p = [o EXCEPT !.at = "answered", !.answer = a, !.raced = r] /\ op' = [op EXCEPT ![t] = p]
    BY DEF Find
  <1>5. p = [call |-> o.call, at |-> "answered", got |-> o.got, todo |-> o.todo, hide |-> o.hide,
             answer |-> a, raced |-> r, warned |-> o.warned]
    BY <1>2, <1>4 DEF Operation
  <1>6. p \in Operation
    BY <1>2, <1>4, <1>5 DEF Operation
  <1>7. o.call = "head"
    BY <1>2, <1>4 DEF OpOK, Shape
  <1>8. Shape(t, p)
    BY <1>2, <1>4, <1>5, <1>6, <1>7 DEF OpOK, Shape
  <1>9. Looks(p)
    <2>1. PICK b \in Buckets : o.got = {b}
      BY <1>2, <1>4, <1>7 DEF OpOK, Shape
    <2>2. setAge # Epoch => Recent(mList)
      BY NearIsRecent, Times DEF Inv, Ages
    <2>3. b \in mList => WasThere(b)
      BY <2>2 DEF Inv, Ages, Recent
    <2>4. b \notin mList /\ setAge # Epoch => WasAbsent(b)
      BY <2>2 DEF Recent
    <2>5. p.got = {b} /\ p.answer = a /\ p.raced = r
      BY <1>5, <2>1
    <2>6. a = "found" => WasThere(b)
      BY <1>4, <2>1, <2>3
    <2>7. a = "missing" /\ ~r => WasAbsent(b)
      BY <1>4, <2>1, <2>4
    <2> QED
      BY <2>5, <2>6, <2>7 DEF Looks
  <1>10. Reads(p) /\ Hides(p)
    BY <1>2, <1>4, <1>5, <1>7 DEF OpOK, Reads, Hides
  <1> QED
    BY <1>1, <1>3, <1>4, <1>8, <1>9, <1>10, Alone DEF OpOK

LEMMA ReturnInv ==
  ASSUME Inv, NEW t \in Callers, Return(t)
  PROVE  Inv'
  BY IdleOK, Alone DEF Return, End, Threads

------------------------------------------------------------------------------
(* Those that are overtaken                                                 *)
Raced(o, p) ==
  /\ p \in Operation /\ p.raced = TRUE
  /\ p.at = o.at /\ p.call = o.call /\ p.got = o.got /\ p.todo = o.todo
  /\ p.hide = o.hide /\ p.answer = o.answer /\ p.warned = o.warned

LEMMA OvertakenIs ==
  ASSUME NEW ops \in [Threads -> Operation], NEW steps, NEW u \in Threads
  PROVE  /\ Overtaken(ops, steps) \in [Threads -> Operation]
         /\ \/ Overtaken(ops, steps)[u] = ops[u] /\ (u \in Callers => ops[u].at \notin steps)
            \/ u \in Callers /\ ops[u].at \in steps /\ Raced(ops[u], Overtaken(ops, steps)[u])
  <1>1. ASSUME NEW o \in Operation, NEW p, p = [o EXCEPT !.raced = TRUE]
        PROVE  p = [call |-> o.call, at |-> o.at, got |-> o.got, todo |-> o.todo, hide |-> o.hide,
                    answer |-> o.answer, raced |-> TRUE, warned |-> o.warned]
    BY <1>1 DEF Operation
  <1>2. ASSUME NEW o \in Operation, NEW p, p = [o EXCEPT !.raced = TRUE]
        PROVE  /\ p \in Operation /\ p.raced = TRUE
               /\ p.at = o.at /\ p.call = o.call /\ p.got = o.got /\ p.todo = o.todo
               /\ p.hide = o.hide /\ p.answer = o.answer /\ p.warned = o.warned
    BY <1>1, <1>2 DEF Operation
  <1>3. \A v \in Threads : [ops[v] EXCEPT !.raced = TRUE] \in Operation
    BY <1>2
  <1>4. Overtaken(ops, steps) \in [Threads -> Operation]
    BY <1>3 DEF Overtaken
  <1>5. CASE ~(u \in Callers /\ ops[u].at \in steps)
    BY <1>4, <1>5 DEF Overtaken
  <1>6. CASE u \in Callers /\ ops[u].at \in steps
    <2>1. Overtaken(ops, steps)[u] = [ops[u] EXCEPT !.raced = TRUE]
      BY <1>6 DEF Overtaken
    <2>2. PICK o, p : o = ops[u] /\ p = [o EXCEPT !.raced = TRUE] /\ p = Overtaken(ops, steps)[u]
      BY <2>1
    <2>3. o \in Operation
      BY <2>2
    <2>4. /\ p \in Operation /\ p.raced = TRUE
          /\ p.at = o.at /\ p.call = o.call /\ p.got = o.got /\ p.todo = o.todo
          /\ p.hide = o.hide /\ p.answer = o.answer /\ p.warned = o.warned
      BY <1>2, <2>2, <2>3
    <2> QED
      BY <1>4, <1>6, <2>2, <2>4 DEF Raced
  <1> QED
    BY <1>4, <1>5, <1>6

(* Whoever has seen a list that is not empty does not rely on what it       *)
(* copies when the list is cleared.                                         *)
LEMMA ClearInv ==
  ASSUME Inv, NEW t \in {timer, listener}, Clear(t)
  PROVE  Inv'
  <1>1. t \in Threads /\ t \notin Callers /\ op[t] \in Operation /\ op[t].at \in {"clear", "clear cache"}
        /\ OpOK(t, op[t])
    BY ThreadsApart, Known DEF Threads, Clear
  <1>2. mList' = {} /\ setAge' = Epoch /\ UNCHANGED <<buckets, changed, mBucketRegions, strict, due, refused>>
    BY DEF Clear, service
  <1>3. PICK a, ops : /\ a = (IF op[t].at = "clear" THEN "empty" ELSE "reload")
                      /\ ops = [op EXCEPT ![t].at = a] /\ op' = Overtaken(ops, {"get"})
    BY DEF Clear
  <1>4. PICK o, p : o = op[t] /\ p = [o EXCEPT !.at = a] /\ ops = [op EXCEPT ![t] = p]
    BY <1>3, Known
  <1>5. p \in Operation /\ Moved(o, p, a)
    BY <1>1, <1>3, <1>4, Moves
  <1>6. OpOK(t, p)
    <2>1. CASE op[t].at = "clear" /\ a = "empty"
      <3>1. Shape(t, p)
        BY <1>1, <1>4, <1>5, <2>1 DEF OpOK, Shape, Moved
      <3> QED
        BY <1>1, <1>4, <1>5, <2>1, <3>1 DEF OpOK, Reads, Looks, Hides, Shape, Moved
    <2>2. CASE op[t].at = "clear cache" /\ a = "reload"
      <3>1. Shape(t, p)
        BY <1>1, <1>4, <1>5, <2>2 DEF OpOK, Shape, Moved
      <3> QED
        BY <1>1, <1>4, <1>5, <2>2, <3>1 DEF OpOK, Reads, Looks, Hides, Shape, Moved
    <2> QED
      BY <1>1, <1>3, <2>1, <2>2
  <1>7. ops \in [Threads -> Operation] /\ \A u \in Threads : OpOK(u, ops[u])
    BY <1>4, <1>5, <1>6 DEF Inv
  <1>8. \A u \in Threads : OpOK(u, op[u])'
    <2> SUFFICES ASSUME NEW u \in Threads PROVE OpOK(u, op[u])'
      OBVIOUS
    <2>1. CASE op'[u] = ops[u] /\ (u \in Callers => ops[u].at # "get")
      <3>1. Shape(u, op[u])'
        BY <1>7, <2>1 DEF OpOK, Shape
      <3>2. (Looks(op[u]) /\ Hides(op[u]))'
        BY <1>2, <1>7, <2>1 DEF OpOK, Looks, Hides, WasThere, WasAbsent
      <3>3. Reads(op[u])'
        BY <1>2, <1>7, <2>1 DEF OpOK, Shape, Reads, Near, Recent, WasThere, WasAbsent
      <3> QED
        BY <3>1, <3>2, <3>3 DEF OpOK
    <2>2. CASE u \in Callers /\ ops[u].at = "get" /\ Raced(ops[u], op'[u])
      <3>1. Shape(u, op[u])'
        BY <1>7, <2>2 DEF OpOK, Shape, Raced
      <3>2. (Looks(op[u]) /\ Hides(op[u]))'
        BY <1>2, <1>7, <2>2 DEF OpOK, Shape, Looks, Hides, Raced
      <3>3. Reads(op[u])'
        BY <2>2 DEF Reads, Raced
      <3> QED
        BY <3>1, <3>2, <3>3 DEF OpOK
    <2>3. PICK steps : steps = {"get"} /\ op' = Overtaken(ops, steps)
      BY <1>3
    <2>4. \/ Overtaken(ops, steps)[u] = ops[u] /\ (u \in Callers => ops[u].at \notin steps)
          \/ u \in Callers /\ ops[u].at \in steps /\ Raced(ops[u], Overtaken(ops, steps)[u])
      BY <1>7, OvertakenIs
    <2> QED
      BY <2>1, <2>2, <2>3, <2>4
  <1>9. op' \in [Threads -> Operation]
    BY <1>1, <1>3, <1>7, OvertakenIs
  <1>10. Ages' /\ Renewed'
    BY <1>2, Times DEF Inv, Ages, Renewed
  <1> QED
    BY <1>2, <1>8, <1>9, <1>10 DEF Inv, RefusedKnown

(* A new list is of this minute.  Whoever has seen an empty list does not   *)
(* rely on the time of this one.                                            *)
LEMMA SetListInv ==
  ASSUME Inv, NEW t \in Threads, SetList(t)
  PROVE  Inv'
  <1>1. op[t] \in Operation /\ op[t].at = "set" /\ OpOK(t, op[t]) /\ op \in [Threads -> Operation]
    BY Known DEF SetList
  <1>2. /\ mList' = op[t].got /\ setAge' = 0
        /\ UNCHANGED <<buckets, changed, mBucketRegions, strict, due, refused>>
    BY DEF SetList, service
  <1>3. PICK ops, p, steps : /\ p = Listed(op[t], op[t].got) /\ ops = [op EXCEPT ![t] = p]
                             /\ steps = {"time"} /\ op' = Overtaken(ops, steps)
    BY DEF SetList
  <1>4. op[t].got \in SUBSET Buckets /\ Near(op[t].got, 0)
    BY <1>1 DEF Operation, OpOK, Reads
  <1>5. Recent(op[t].got)
    BY <1>4, NearIsRecent, Times DEF Inv
  <1>6. OpOK(t, p)
    BY <1>1, <1>3, <1>4, <1>5, ListedOK
  <1>7. ops \in [Threads -> Operation] /\ \A u \in Threads : OpOK(u, ops[u])
    <2>1. p \in Operation
      BY <1>6 DEF OpOK, Shape
    <2> QED
      BY <1>1, <1>3, <1>6, <2>1 DEF Inv
  <1>8. setAge' # Epoch
    BY <1>2, Times
  <1>9. \A u \in Threads : OpOK(u, op[u])'
    <2> SUFFICES ASSUME NEW u \in Threads PROVE OpOK(u, op[u])'
      OBVIOUS
    <2>1. CASE op'[u] = ops[u] /\ (u \in Callers => ops[u].at # "time")
      <3>1. Shape(u, op[u])'
        BY <1>7, <2>1 DEF OpOK, Shape
      <3>2. (Looks(op[u]) /\ Hides(op[u]))'
        BY <1>2, <1>7, <2>1 DEF OpOK, Looks, Hides, WasThere, WasAbsent
      <3>3. Reads(op[u])'
        BY <1>2, <1>7, <1>8, <2>1 DEF OpOK, Shape, Reads, Near, Recent, WasThere, WasAbsent
      <3> QED
        BY <3>1, <3>2, <3>3 DEF OpOK
    <2>2. CASE u \in Callers /\ ops[u].at = "time" /\ Raced(ops[u], op'[u])
      <3>1. Shape(u, op[u])'
        BY <1>7, <2>2 DEF OpOK, Shape, Raced
      <3>2. (Looks(op[u]) /\ Hides(op[u]))'
        BY <1>2, <1>7, <2>2 DEF OpOK, Shape, Looks, Hides, Raced
      <3>3. Reads(op[u])'
        BY <2>2 DEF Reads, Raced
      <3> QED
        BY <3>1, <3>2, <3>3 DEF OpOK
    <2>3. \/ Overtaken(ops, steps)[u] = ops[u] /\ (u \in Callers => ops[u].at \notin steps)
          \/ u \in Callers /\ ops[u].at \in steps /\ Raced(ops[u], Overtaken(ops, steps)[u])
      BY <1>7, OvertakenIs
    <2> QED
      BY <1>3, <2>1, <2>2, <2>3
  <1>10. op' \in [Threads -> Operation]
    BY <1>1, <1>3, <1>7, OvertakenIs
  <1>11. Near(mList, setAge)'
    BY <1>2, <1>4 DEF Near
  <1>12. due' \in Nat /\ due' <= Bound
    BY <1>2, Times DEF Inv, Ages
  <1>13. Renewed'
    BY <1>2, <1>12, Times DEF Renewed
  <1>14. setAge' \in 0 .. Bound \cup {Epoch}
    BY <1>2, Times
  <1>15. Ages'
    BY <1>2, <1>4, <1>8, <1>11, <1>14 DEF Inv, Ages
  <1> QED
    BY <1>2, <1>9, <1>10, <1>13, <1>15 DEF Inv, RefusedKnown

------------------------------------------------------------------------------
(* Others' changes, and time                                                *)

LEMMA ChangeElsewhereInv ==
  ASSUME Inv, NEW b \in Buckets, ChangeElsewhere(b)
  PROVE  Inv'
  <1>1. UNCHANGED <<mList, setAge, mBucketRegions, strict, due, op, refused>>
    BY DEF ChangeElsewhere, cache
  <1>2. buckets' \subseteq Buckets /\ changed' \in [Buckets -> 0 .. Long] /\ changed'[b] = 0
    BY Times DEF ChangeElsewhere, Inv, Ages
  <1>3. \A c \in Buckets : c # b => (c \in buckets' <=> c \in buckets) /\ changed'[c] = changed[c]
    BY DEF ChangeElsewhere, Inv, Ages
  <1>4. ASSUME NEW got, NEW age \in Nat, Near(got, age)
        PROVE  \A c \in Buckets : (c \in got <=> c \in buckets') \/ changed'[c] <= age
    BY <1>2, <1>3, <1>4 DEF Near
  <1>5. \A c \in Buckets : (WasThere(c) => WasThere(c)') /\ (WasAbsent(c) => WasAbsent(c)')
    <2>1. WasThere(b)' /\ WasAbsent(b)'
      BY <1>2, Times DEF WasThere, WasAbsent
    <2> QED
      BY <1>3, <2>1 DEF WasThere, WasAbsent
  <1>6. \A u \in Threads : OpOK(u, op[u])'
    <2> SUFFICES ASSUME NEW u \in Threads PROVE OpOK(u, op[u])'
      OBVIOUS
    <2>1. OpOK(u, op[u]) /\ op[u].got \subseteq Buckets
      BY DEF Inv, OpOK, Shape, Operation
    <2>2. Shape(u, op[u])' /\ Hides(op[u])'
      BY <1>1, <2>1 DEF OpOK, Shape, Hides
    <2>3. Looks(op[u])'
      BY <1>1, <1>5, <2>1 DEF OpOK, Looks
    <2>4. Near(op[u].got, 0) => Near(op[u].got, 0)'
      BY <1>1, <1>4 DEF Near
    <2>5. Recent(op[u].got) => Recent(op[u].got)'
      BY <1>1, <1>5 DEF Recent
    <2>6. Reads(op[u])'
      BY <1>1, <2>1, <2>4, <2>5 DEF OpOK, Reads
    <2> QED
      BY <2>2, <2>3, <2>6 DEF OpOK
  <1>7. setAge # Epoch => Near(mList, setAge)'
    <2>1. setAge # Epoch => setAge \in Nat
      BY Times DEF Inv, Ages
    <2>2. setAge # Epoch => Near(mList, setAge)
      BY DEF Inv, Ages
    <2> QED
      BY <1>1, <1>4, <2>1, <2>2 DEF Near
  <1> QED
    BY <1>1, <1>2, <1>6, <1>7 DEF Inv, Ages, Renewed, RefusedKnown

(* In a minute in which the timer's round is not due, and no request runs,  *)
(* everything gets older.                                                   *)
LEMMA TickInv ==
  ASSUME Inv, Tick
  PROVE  Inv'
  <1>1. /\ due' = due - 1 /\ due > 0 /\ setAge' = Older(setAge)
        /\ changed' = [b \in Buckets |-> Older(changed[b])]
        /\ UNCHANGED <<buckets, mList, mBucketRegions, strict, op, refused>>
    BY DEF Tick
  <1>2. timer \in Threads /\ op[timer] = Idle
    BY DEF Tick, Threads
  <1>3. setAge # Epoch => setAge + due <= Bound
    BY <1>2 DEF Inv, Renewed, Idle
  <1>4. due \in Nat /\ due <= Period
    BY Times DEF Inv, Ages
  <1>5. due' \in 0 .. Period
    BY <1>1, <1>4, Times
  <1>6. setAge = Epoch => setAge' = Epoch
    BY <1>1, Times DEF Older
  <1>7. setAge # Epoch => setAge \in Nat /\ setAge' = setAge + 1 /\ setAge' + due' <= Bound /\ setAge' <= Bound
    BY <1>1, <1>3, <1>4, Times DEF Older, Inv, Ages
  <1>8. setAge' \in 0 .. Bound \cup {Epoch}
    BY <1>6, <1>7, Times
  <1>9. setAge' # Epoch <=> setAge # Epoch
    BY <1>6, <1>7, Times
  <1>10. \A b \in Buckets : /\ changed[b] \in Nat /\ changed'[b] \in 0 .. Long
                            /\ changed'[b] <= changed[b] + 1
    BY <1>1, Times DEF Older, Inv, Ages
  <1>11. changed' \in [Buckets -> 0 .. Long]
    BY <1>1, <1>10
  <1>12. setAge # Epoch => Near(mList, setAge)'
    BY <1>1, <1>7, <1>10 DEF Near, Inv, Ages
  <1>13. Ages'
    BY <1>1, <1>5, <1>8, <1>9, <1>11, <1>12 DEF Inv, Ages
  <1>14. Renewed'
    BY <1>7, <1>9 DEF Renewed
  <1>15. \A u \in Threads : OpOK(u, op[u])'
    <2>1. \A u : Shape(u, Idle)
      BY IdleOK DEF OpOK
    <2>2. \A u \in Threads : op'[u] = Idle
      BY <1>1 DEF Tick
    <2>3. \A u \in Threads : Shape(u, op[u])'
      BY <2>1, <2>2 DEF Shape
    <2>4. \A u \in Threads : (Reads(op[u]) /\ Looks(op[u]) /\ Hides(op[u]))'
      BY <2>2 DEF Idle, Reads, Looks, Hides
    <2> QED
      BY <2>3, <2>4 DEF OpOK
  <1> QED
    BY <1>1, <1>13, <1>14, <1>15 DEF Inv, RefusedKnown

LEMMA NextInv == Inv /\ [Next]_vars => Inv'
  <1> SUFFICES ASSUME Inv, [Next]_vars PROVE Inv'
    OBVIOUS
  <1>1. CASE \E t \in Callers : ListBuckets(t) \/ Find(t) \/ Return(t)
    BY <1>1, BeginInv, FindInv, ReturnInv
  <1>2. CASE \E t \in Callers, b \in Buckets : HeadBucket(t, b) \/ Region(t, b) \/ LookAtRegion(t, b)
    BY <1>2, BeginInv, RegionInv, LookAtRegionInv DEF Threads
  <1>3. CASE OnIdle \/ OnNotif
    BY <1>3, BeginInv, OnIdleInv
  <1>4. CASE \E t \in {timer, listener} : Reload(t) \/ Clear(t)
    BY <1>4, ReloadInv, ClearInv
  <1>5. CASE \E t \in Threads : List(t)
    BY <1>5, EmptyInv, LastSetTimeInv, AskBucketsInv, SetListInv, GetListInv, EndOfListInv DEF List
  <1>6. CASE \E b \in Buckets : ChangeElsewhere(b)
    BY <1>6, ChangeElsewhereInv
  <1>7. CASE Tick
    BY <1>7, TickInv
  <1>8. CASE UNCHANGED vars
    <2>1. UNCHANGED <<buckets, changed, mList, setAge, mBucketRegions, strict, due, op, refused>>
      BY <1>8 DEF vars, service, cache
    <2>2. Ages' /\ Renewed' /\ RefusedKnown'
      BY <2>1 DEF Inv, Ages, Near, Renewed, RefusedKnown
    <2>3. ASSUME NEW u \in Threads
          PROVE  OpOK(u, op[u])'
      <3>1. OpOK(u, op[u])
        BY DEF Inv
      <3>2. Shape(u, op[u])'
        BY <2>1, <3>1 DEF OpOK, Shape
      <3>3. (Reads(op[u]) /\ Looks(op[u]) /\ Hides(op[u]))'
        BY <2>1, <3>1 DEF OpOK, Reads, Looks, Hides, Near, Recent, WasThere, WasAbsent
      <3> QED
        BY <3>2, <3>3 DEF OpOK
    <2> QED
      BY <2>1, <2>2, <2>3 DEF Inv
  <1> QED
    BY <1>1, <1>2, <1>3, <1>4, <1>5, <1>6, <1>7, <1>8 DEF Next

------------------------------------------------------------------------------
(* The invariant of the bucket list: the list is what there was setAge      *)
(* minutes ago at most, the timer sees it before it is too old, and each    *)
(* thread's copy is as good unless it was overtaken.                        *)
THEOREM Invariance == Spec => []Inv
  BY InitInv, NextInv, PTL DEF Spec

(* QueryBucket's list, its times and every thread's copy have their types,  *)
(* only callbacks answer, and a list that is not empty has a time.          *)
THEOREM TypesHold == Spec => []TypeOK
  <1>1. Inv => TypeOK
    <2> SUFFICES ASSUME Inv PROVE TypeOK
      OBVIOUS
    <2>1. setAge \in 0 .. Long \cup {Epoch}
      BY Times DEF Inv, Ages
    <2>2. \A t \in Threads :
            /\ op[t].got \subseteq Buckets
            /\ op[t].todo \subseteq op[t].got /\ op[t].hide \subseteq op[t].got
            /\ op[t].at = "answered" => t \in Callers
      BY DEF Inv, OpOK, Shape, Operation
    <2>3. refused \subseteq Buckets
      BY ForeignKnown DEF Inv, RefusedKnown
    <2> QED
      BY <2>1, <2>2, <2>3 DEF Inv, Ages, TypeOK
  <1> QED
    BY <1>1, Invariance, PTL

(* qbListBuckets: what a listing that was not overtaken shows was so not    *)
(* longer ago than the list's expiry and the timer's period.                *)
THEOREM ListsStayRecent == Spec => []ListsAreRecent
  <1>1. Inv => ListsAreRecent
    <2> SUFFICES ASSUME Inv, NEW t \in Callers, op[t].call = "list", op[t].answer = "ok", ~op[t].raced
                 PROVE  Recent(op[t].got)
      BY DEF ListsAreRecent, Recent
    <2>1. t \in Threads
      BY DEF Threads
    <2> QED
      BY <2>1 DEF Inv, OpOK, Shape, Reads
  <1> QED
    BY <1>1, Invariance, PTL

(* qbHeadBucket: a bucket that it finds was there so recently, and one that *)
(* it misses in a list that is not cleared was not.                         *)
THEOREM HeadsStayRecent == Spec => []HeadsAreRecent
  <1>1. Inv => HeadsAreRecent
    BY DEF Inv, OpOK, Looks, HeadsAreRecent, Threads
  <1> QED
    BY <1>1, Invariance, PTL

(* A listing hides each bucket whose region a lookup had refused before it, *)
(* although clbClear empties the list: the regions survive it.              *)
THEOREM RefusedStaysHidden == Spec => []RefusedIsHidden
  <1>1. Inv => RefusedIsHidden
    <2> SUFFICES ASSUME Inv, NEW t \in Callers, op[t].call = "list", op[t].answer = "ok"
                 PROVE  op[t].warned \cap op[t].got \subseteq op[t].hide
      BY DEF RefusedIsHidden
    <2>1. t \in Threads
      BY DEF Threads
    <2>2. op[t].at = "answered"
      BY <2>1 DEF Inv, OpOK, Shape
    <2> QED
      BY <2>1, <2>2 DEF Inv, OpOK, Hides
  <1> QED
    BY <1>1, Invariance, PTL
==============================================================================
